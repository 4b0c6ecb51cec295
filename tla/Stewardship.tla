------------------------------ MODULE Stewardship ------------------------------
(***************************************************************************)
(* IntentStewardCoordinator (intent/coordination.py): several stewards     *)
(* issue commands on one canonical log.                                    *)
(*                                                                         *)
(* A command captures something before it awaits its turn: the revision it *)
(* means to supersede, the status it means to leave, the clock, the work   *)
(* in progress.  _admit then rebuilds, validates and appends at exactly    *)
(* that head, and starts over when the head moved: an attempt that commits *)
(* saw the head it committed to, so it is one step.  A refused command     *)
(* raises and changes nothing.  Commands that capture nothing are one step *)
(* on arguments the host may have prepared at any time before.             *)
(***************************************************************************)
EXTENDS StrategicIntent

CONSTANTS
  Stewards,    \* concurrent callers
  Scenarios,   \* a projection to start from, and how many calls of each kind
               \* and ticks may follow (bounds)
  Goals, Roadmaps, Commitments, Transitions, Workstreams, Works, LegacyEvents,
  Loci, Terms  \* the commands that hosts issue, executors, terms of assistance

\* A scenario starts from a projection that some log can have, in which nothing was
\* observed in the future, and v1 events are of the v1 schema: one of a goal carries success
\* criteria, leaves those of the goal alone, or has none.
ASSUME StartAssumption ==
  /\ \A s \in Scenarios :
       /\ WellFormed(s.start) /\ ObservedBy(s.start.external, 0)
       /\ "observers" \in DOMAIN s.left
  /\ \A ev \in LegacyEvents :
       /\ ev.type \in {"legacy_goal", "legacy_commitment"}
       /\ ev.type = "legacy_goal" => ev.criteria \in BOOLEAN
       /\ ev.type = "legacy_commitment" => Upcast(ev.status).status \in Lifecycle

VARIABLES
  p,           \* the projection of the canonical log
  readable,    \* whether rebuilding from the log still succeeds
  calls,       \* steward -> the call that awaits its turn, if any
  now,         \* the wall clock
  left         \* calls of each kind, ticks, and who may observe

vars == <<p, readable, calls, now, left>>

Init ==
  \E s \in Scenarios :
    /\ p = s.start /\ readable = TRUE
    /\ calls = [t \in Stewards |-> {}]
    /\ now = 0 /\ left = s.left

Spend(kind) == readable /\ left[kind] > 0 /\ left' = [left EXCEPT ![kind] = @ - 1]

\* emit_if_head at the head that was validated, and what replay makes of it.
Emit(ev) ==
  /\ readable' = Legal(p, ev)
  /\ p' = IF Legal(p, ev) THEN Applied(p, ev) ELSE p

\* A steward calls, and captures.
Capture(s, kind, call) ==
  /\ calls[s] = {} /\ Spend(kind)
  /\ calls' = [calls EXCEPT ![s] = {call}]
  /\ UNCHANGED <<p, readable, now>>

\* Its turn: the event is appended, or the command raises.
Settle(s, valid, ev) ==
  /\ readable
  /\ calls' = [calls EXCEPT ![s] = {}]
  /\ IF valid THEN Emit(ev) ELSE UNCHANGED <<p, readable>>
  /\ UNCHANGED <<now, left>>

\* A command without a capture.
Record(kind, valid, ev) ==
  /\ Spend(kind) /\ valid /\ Emit(ev)
  /\ UNCHANGED <<calls, now>>

-----------------------------------------------------------------------------
\* record_goal_revision and record_roadmap_revision.

CallGoal(s, g) ==
  Capture(s, "goal", [kind |-> "goal", command |-> g, expected |-> CurrentRef(p.goals, g.id)])

AdmitGoal(s) ==
  \E c \in {k \in calls[s] : k.kind = "goal"} :
    LET g == c.command
        r == GoalRevision(Len(History(p.goals, g.id)) + 1, g.status, g.kind, g.refs, g.origin,
                          g.authority, g.owner, g.author)
    IN Settle(s, ValidateGoal(p, g.id, r, c.expected), [type |-> "goal", id |-> g.id, value |-> r])

\* The host names the revisions of the governing goals that it knows.
CallRoadmap(s, m) ==
  /\ m.goals \subseteq DOMAIN p.goals
  /\ Capture(s, "roadmap",
             [kind |-> "roadmap", command |-> m, expected |-> CurrentRef(p.roadmaps, m.id),
              goals |-> UNION {CurrentRef(p.goals, g) : g \in m.goals}])

AdmitRoadmap(s) ==
  \E c \in {k \in calls[s] : k.kind = "roadmap"} :
    LET m == c.command
        r == RoadmapRevision(Len(History(p.roadmaps, m.id)) + 1, c.goals, m.nodes, m.assumptions,
                             m.authority, m.author)
    IN Settle(s, ValidateRoadmap(p, m.id, r, c.expected),
              [type |-> "roadmap", id |-> m.id, value |-> r])

-----------------------------------------------------------------------------
\* record_outcome_roles, record_assistance_envelope and record_commitment.

KnownRoadmaps == UNION {{<<m, n>> : n \in DOMAIN p.roadmaps[m]} : m \in DOMAIN p.roadmaps}

RecordRoles(executor) ==
  \E ref \in KnownRoadmaps : \E node \in Nodes(p, ref) :
    LET roles == OutcomeRoleAssignment(<<ref, node>>, executor)
    IN /\ roles \notin p.roles
       /\ Record("roles", RolesStructure(p, roles), [type |-> "roles", value |-> roles])

RecordAssistance(terms) ==
  \E roles \in p.roles :
    LET e == AssistanceEnvelope(roles, terms.maximum, terms.identityBound, terms.support)
    IN /\ e \notin p.envelopes
       /\ Record("envelope", AssistanceStructure(p, e), [type |-> "envelope", value |-> e])

RecordCommitment(c) ==
  \E ref \in KnownRoadmaps, roles \in p.roles, envelope \in {{}} \cup {{e} : e \in p.envelopes} :
    LET value == Commitment(c.owner, c.status, {}, c.goals, ref, c.node, {roles}, envelope,
                            c.due, c.lead, c.deadline)
    IN Record("commitment", ValidateCommitment(p, c.id, value, c.authority),
              [type |-> "commitment", id |-> c.id, value |-> value, authority |-> c.authority])

-----------------------------------------------------------------------------
\* transition_commitment.

Remappings(c) ==
  {[roadmap |-> ref, roles |-> roles, envelope |-> envelope, evidence |-> TRUE] :
     ref \in CurrentRef(p.roadmaps, c.roadmap[1]), roles \in p.roles,
     envelope \in {{}} \cup {{e} : e \in p.envelopes}}

CallTransition(s, t) ==
  /\ t.id \in DOMAIN p.commitments
  /\ \E remap \in IF t.reorients THEN {{r} : r \in Remappings(p.commitments[t.id])} ELSE {{}} :
       Capture(s, "transition",
               [kind |-> "transition", command |-> t, remap |-> remap,
                expected |-> p.commitments[t.id].status])

AdmitTransition(s) ==
  \E c \in {k \in calls[s] : k.kind = "transition"} :
    LET t == c.command
        value == CommitmentTransition(p.commitments[t.id].status, t.to, t.closure, t.authority,
                                      t.author, c.remap)
    IN Settle(s, /\ p.commitments[t.id].status = c.expected
                 /\ ValidateTransition(p, t.id, value),
              [type |-> "transition", id |-> t.id, value |-> value])

-----------------------------------------------------------------------------
\* observe_external_workstream: the observation is dated when it is made.

CallObserve(s, w) ==
  /\ s \in left.observers
  /\ Capture(s, "external",
             [kind |-> "external", id |-> w.id,
              observation |-> ExternalWorkstream(w.ref, now, now + w.fresh, w.supports, w.required)])

AdmitObservation(s) ==
  \E c \in {k \in calls[s] : k.kind = "external"} :
    Settle(s, /\ ExternalStructure(p, c.observation)
              /\ \A n \in DOMAIN History(p.external, c.id) : p.external[c.id][n] # c.observation,
           [type |-> "external", id |-> c.id, value |-> c.observation])

-----------------------------------------------------------------------------
\* propose_work_for_commitment and admit_work_order.

CallPropose(s, w) ==
  Capture(s, "proposal",
          [kind |-> "proposal", command |-> w, at |-> now,
           signals |-> PortfolioSignals(Cardinality(PendingWork(p)))])

AdmitProposal(s) ==
  \E c \in {k \in calls[s] : k.kind = "proposal"} :
    LET w == c.command
    IN IF w.id \notin DOMAIN p.commitments \/ p.commitments[w.id].roadmap = <<>>
       THEN Settle(s, FALSE, [type |-> "none"])
       ELSE LET q == WorkOrderProposal(Cardinality(p.proposals) + 1, w.id, p.commitments[w.id],
                                       w.criteria, w.intervention, w.support, c.signals, c.at)
            IN Settle(s, ProposalStructure(p, q, c.at), [type |-> "proposal", value |-> q])

\* Work that is admitted already is returned at once.
CallAdmission(s) ==
  \E q \in PendingWork(p) : Capture(s, "order", [kind |-> "order", proposal |-> q])

AdmitOrder(s) ==
  \E c \in {k \in calls[s] : k.kind = "order"} :
    Settle(s, c.proposal.order \notin p.admitted /\ AdmissionStructure(p, c.proposal),
           [type |-> "order", value |-> c.proposal.order])

-----------------------------------------------------------------------------
\* The rest of the system appends, too.

EmitLegacy(ev) == Record("legacy", TRUE, ev)
AcceptGraph(id) == Record("graph", id \notin p.graphs, [type |-> "graph", id |-> id])

Tick ==
  /\ left.tick > 0 /\ readable
  /\ now' = now + 1 /\ left' = [left EXCEPT !.tick = @ - 1]
  /\ UNCHANGED <<p, readable, calls>>

Next ==
  \/ \E s \in Stewards :
       \/ \E g \in Goals : CallGoal(s, g)
       \/ AdmitGoal(s)
       \/ \E m \in Roadmaps : CallRoadmap(s, m)
       \/ AdmitRoadmap(s)
       \/ \E t \in Transitions : CallTransition(s, t)
       \/ AdmitTransition(s)
       \/ \E w \in Workstreams : CallObserve(s, w)
       \/ AdmitObservation(s)
       \/ \E w \in Works : CallPropose(s, w)
       \/ AdmitProposal(s)
       \/ CallAdmission(s)
       \/ AdmitOrder(s)
  \/ \E executor \in Loci : RecordRoles(executor)
  \/ \E terms \in Terms : RecordAssistance(terms)
  \/ \E c \in Commitments : RecordCommitment(c)
  \/ \E ev \in LegacyEvents : EmitLegacy(ev)
  \/ \E w \in Workstreams : AcceptGraph(w.ref)
  \/ Tick

Spec == Init /\ [][Next]_vars

-----------------------------------------------------------------------------
\* Properties.

\* Type invariant: revisions are numbered in order, lifecycle states are those of
\* schema 2, and a projected order was proposed, whatever was upcast or remapped.
TypeOK ==
  /\ readable \in BOOLEAN /\ now \in Nat
  /\ \A s \in Stewards : Cardinality(calls[s]) <= 1
  /\ \A h \in {p.goals[g] : g \in DOMAIN p.goals} \cup {p.roadmaps[m] : m \in DOMAIN p.roadmaps} :
       \A n \in DOMAIN h : h[n].version = n
  /\ \A id \in DOMAIN p.commitments : p.commitments[id].status \in Lifecycle
  /\ p.admitted \subseteq {q.order : q \in p.proposals}

\* What live admission lets into the log, replay accepts: the projection can
\* always be rebuilt, and no command leaves a log that every later one raises on.
Replayable == readable

\* However stale the work in progress is that callers signal, no more proposals
\* than the limit await admission, and no roadmap reports a lack of capacity.
WipIsBounded ==
  /\ Cardinality(PendingWork(p)) <= WipLimit
  /\ \A m \in DOMAIN p.roadmaps : "capacity" \notin RoadmapHealth(p, m, now).review

\* Every revision of a goal keeps its kind, origin and governing goals, no goal
\* governs itself through others, and a user's or constitutional goal is revised under
\* its own principal's authority alone, whatever agents hold (ADR 0008).  A v1 event
\* revises under the authority that it finds; its author and owner are not looked at.
GoalsKeepTheirLineage == LineageIsKept(p.goals) /\ GoverningIsAcyclic(p.goals)

\* A strategic commitment's roles and assistance are scoped to exactly the roadmap
\* revision and outcome it now stands for, and work of people has an envelope:
\* reactivation carries nothing of the old revision forward.
ReferencesAgree == \A id \in DOMAIN p.commitments : IsScoped(p.commitments[id])

\* Who owes something can always end it: closing an accepted, active or suspended
\* commitment is legal for its owner, however stale its roadmap and goals are.
ObligationsCanEnd ==
  \A id \in DOMAIN p.commitments :
    LET c == p.commitments[id]
        authority == IntentAuthority(c.owner, "user", {"user_authored"}, {}, c.owner)
    IN c.status \in {"accepted", "active", "suspended"} =>
         TransitionStructure(p, id, CommitmentTransition(c.status, "closed", {"cancelled"},
                                                         authority, c.owner, {}))

\* Intent is well formed and can be rebuilt, whatever commands, observers and v1
\* events interleave (projection.py:apply).
IntentInv ==
  /\ TypeOK /\ Replayable /\ WipIsBounded
  /\ GoalsKeepTheirLineage /\ ReferencesAgree /\ ObligationsCanEnd

\* A command never lands on what it did not see: a revision supersedes the one
\* its caller captured, and a goal the caller named was not revised meanwhile.
NothingIsRebased ==
  [][\A s \in Stewards : \A c \in calls[s] :
       /\ c.kind = "goal" /\ p'.goals # p.goals /\ calls'[s] = {} =>
            CurrentRef(p.goals, c.command.id) = c.expected
       /\ c.kind = "roadmap" /\ p'.roadmaps # p.roadmaps /\ calls'[s] = {} =>
            /\ CurrentRef(p.roadmaps, c.command.id) = c.expected
            /\ \A g \in c.goals : IsCurrent(p.goals, g)]_vars

\* Work is admitted only for an active commitment, on a roadmap that health calls
\* aligned, under goals that are live, however long ago it was proposed.
WorkServesCurrentIntent ==
  [][\A q \in p.proposals : q.order \in p'.admitted \ p.admitted =>
       /\ p.commitments[q.commitment].status = "active"
       /\ q.roadmap = p.commitments[q.commitment].roadmap
       /\ "alignment" \notin RoadmapHealth(p, q.roadmap[1], now).review
       /\ \A g \in q.order.goals : Last(p.goals[g]).status \in LiveGoal]_vars

\* An outcome becomes covered by the admission of work and by nothing else: not
\* by a revision that asks for less, and not by being moved to one.
CoverageIsEarned ==
  [][\A id \in DOMAIN p.commitments :
       /\ CommitmentCoverage(p, id, now).disposition # "covered"
       /\ CommitmentCoverage(p, id, now)'.disposition = "covered"
       => p'.admitted # p.admitted]_vars

\* Every goal that a work order names as governing is live when the order is
\* admitted, whatever its commitment was moved to since (docs/
\* INTENT_OUTCOME_STEWARDSHIP.md).
OrdersServeLiveGoals ==
  [][\A o \in p'.admitted \ p.admitted :
       \A g \in o.goals : Last(p.goals[g]).status \in LiveGoal]_vars
=============================================================================
