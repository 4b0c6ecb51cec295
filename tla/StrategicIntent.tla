---------------------------- MODULE StrategicIntent ----------------------------
(***************************************************************************)
(* Intent and outcome stewardship: the contracts of intent/models.py, the  *)
(* rules of StrategicProjection (intent/projection.py), the admission of   *)
(* StrategicValidator (intent/validation.py) and the upcasters of the v1   *)
(* goal and commitment events (intent/schemas.py).                         *)
(*                                                                         *)
(* A projection p stands for the canonical log it was rebuilt from.        *)
(* Revisions, roles and envelopes are content-addressed: a revision is     *)
(* named <<goal, version>> or <<roadmap, version>>, an outcome             *)
(* <<roadmap revision, node>>, and roles, envelopes, orders and proposals  *)
(* name themselves.  An optional value is a set with at most one element.  *)
(***************************************************************************)
EXTENDS Integers, Sequences, FiniteSets, SequencesExt, FiniteSetsExt

CONSTANTS
  TrustedOrigins, TrustedAuthorities,  \* what StrategicTrust authenticates
  WipLimit                             \* proposals that may await admission

ASSUME WipAssumption == WipLimit \in Nat \ {0}

GoverningKinds == {"user_authored", "constitutional"}
DerivedKinds == {"delegated", "instrumental", "epistemic", "maintenance", "exploratory"}
LiveGoal == {"active", "blocked"}
TerminalGoal == {"completed", "failed", "cancelled"}
Lifecycle == {"proposed", "accepted", "active", "suspended", "closed"}

-----------------------------------------------------------------------------
\* The contracts.

OriginProvenance(kind, principal, provenance) ==
  [kind |-> kind, principal |-> principal, provenance |-> provenance]
IntentAuthority(principal, scope, kinds, goals, provenance) ==
  [principal |-> principal, scope |-> scope, kinds |-> kinds, goals |-> goals,
   provenance |-> provenance]
GoalRevision(version, status, kind, refs, origin, authority, owner, author) ==
  [version |-> version, status |-> status, kind |-> kind, refs |-> refs, origin |-> origin,
   authority |-> authority, owner |-> owner, author |-> author]
OutcomeNode(criteria, dependencies, assumptions) ==
  [criteria |-> criteria, dependencies |-> dependencies, assumptions |-> assumptions]
RoadmapRevision(version, goals, nodes, assumptions, authority, author) ==
  [version |-> version, goals |-> goals, nodes |-> nodes, assumptions |-> assumptions,
   authority |-> authority, author |-> author]
OutcomeRoleAssignment(outcome, executor) == [outcome |-> outcome, executor |-> executor]
AssistanceEnvelope(roles, maximum, identityBound, support) ==
  [roles |-> roles, maximum |-> maximum, identityBound |-> identityBound, support |-> support]
Commitment(owner, status, closure, goals, roadmap, node, roles, envelope, due, lead, deadline) ==
  [owner |-> owner, status |-> status, closure |-> closure, goals |-> goals,
   roadmap |-> roadmap, node |-> node, roles |-> roles, envelope |-> envelope,
   due |-> due, lead |-> lead, deadline |-> deadline]
CommitmentTransition(from, to, closure, authority, author, remap) ==
  [from |-> from, to |-> to, closure |-> closure, authority |-> authority, author |-> author,
   remap |-> remap]
ExternalWorkstream(ref, recorded, expires, supports, required) ==
  [ref |-> ref, recorded |-> recorded, expires |-> expires, supports |-> supports,
   required |-> required]
WorkOrder(id, c, criteria, at) ==
  [commitment |-> id, roadmap |-> c.roadmap, node |-> c.node, goals |-> c.goals,
   criteria |-> criteria, deadline |-> c.deadline, at |-> at]
PortfolioSignals(wip) == [wip |-> wip]

Eligibility(c, at) ==
  IF c.status = "active" THEN {"active"}
  ELSE IF c.status # "accepted" THEN {}
  ELSE IF \E d \in c.due : d <= at THEN {"activation_due"}
  ELSE IF c.lead THEN {"prerequisite_lead_time"} ELSE {}

\* The n-th proposal; n stands for the cursor it was validated at.
WorkOrderProposal(n, id, c, criteria, intervention, support, signals, at) ==
  [n |-> n, commitment |-> id, roadmap |-> c.roadmap, node |-> c.node,
   order |-> WorkOrder(id, c, criteria, at), intervention |-> intervention,
   support |-> support, eligibility |-> Eligibility(c, at), signals |-> signals, at |-> at]

NoIntent ==
  [goals |-> <<>>, roadmaps |-> <<>>, roles |-> {}, envelopes |-> {}, commitments |-> <<>>,
   proposals |-> {}, admitted |-> {}, external |-> <<>>, graphs |-> {}]

-----------------------------------------------------------------------------
\* What a projection answers.

History(f, id) == IF id \in DOMAIN f THEN f[id] ELSE <<>>
CurrentRef(f, id) == {<<id, n>> : n \in {Len(History(f, id))} \ {0}}
IsCurrent(f, ref) == ref[1] \in DOMAIN f /\ ref[2] = Len(f[ref[1]])
IsKnown(f, ref) == ref[1] \in DOMAIN f /\ ref[2] \in DOMAIN f[ref[1]]
At(f, ref) == f[ref[1]][ref[2]]

PendingWork(p) == {q \in p.proposals : q.order \notin p.admitted}

LiveRoadmap(p, ref) ==
  /\ IsCurrent(p.roadmaps, ref)
  /\ \A g \in At(p.roadmaps, ref).goals :
       IsCurrent(p.goals, g) /\ At(p.goals, g).status \in LiveGoal

Nodes(p, ref) == DOMAIN At(p.roadmaps, ref).nodes

-----------------------------------------------------------------------------
\* Goals: validate_goal_revision_structure.

KeepsLineage(p, g, r) ==
  g \in DOMAIN p.goals =>
    LET current == Last(p.goals[g])
    IN /\ r.kind = current.kind /\ r.origin = current.origin /\ r.owner = current.owner
       /\ r.refs = current.refs
       /\ current.kind \in GoverningKinds => r.authority.principal = current.origin.principal

OriginAllows(r) ==
  /\ r.kind = "user_authored" =>
       r.origin.kind = "user" /\ r.authority.scope \in {"user", "constitutional"}
  /\ r.kind = "constitutional" =>
       r.origin.kind = "constitutional" /\ r.authority.scope = "constitutional"

LineageIsCovered(p, g, r) ==
  IF r.kind \in DerivedKinds
  THEN /\ r.refs # {} /\ g \notin r.refs /\ r.refs \subseteq DOMAIN p.goals
       /\ r.authority.scope = "delegated" => r.authority.goals # {}
       /\ r.authority.goals # {} => r.refs \subseteq r.authority.goals
  ELSE r.refs = {} /\ (r.authority.goals # {} => g \in r.authority.goals)

GoalStructure(p, g, r) ==
  /\ r.version = Len(History(p.goals, g)) + 1
  /\ r.kind # "legacy_unclassified" /\ r.kind \in r.authority.kinds
  /\ r.authority.scope # "propose"
  /\ r.authority.principal = r.origin.principal
  /\ r.authority.provenance = r.origin.provenance
  /\ r.owner = r.origin.principal /\ r.author = r.authority.principal
  /\ KeepsLineage(p, g, r) /\ OriginAllows(r) /\ LineageIsCovered(p, g, r)

\* Faulty variant: the command is rebased over whatever is current by now.
ValidateRebasedGoal(p, g, r, expected) ==
  /\ r.origin \in TrustedOrigins /\ r.authority \in TrustedAuthorities
  /\ GoalStructure(p, g, r)

ValidateGoal(p, g, r, expected) ==
  /\ CurrentRef(p.goals, g) = expected
  /\ r.origin \in TrustedOrigins /\ r.authority \in TrustedAuthorities
  /\ GoalStructure(p, g, r)

-----------------------------------------------------------------------------
\* Roadmaps: validate_roadmap_revision_structure.

\* Every set of outcomes has one that waits for none of the others.
IsDag(nodes) ==
  \A S \in SUBSET DOMAIN nodes :
    S # {} => \E n \in S : nodes[n].dependencies \cap S = {}

RoadmapStructure(p, m, r) ==
  /\ r.version = Len(History(p.roadmaps, m)) + 1
  /\ r.authority.scope # "propose" /\ r.author = r.authority.principal
  /\ \A g \in r.goals : /\ IsCurrent(p.goals, g)
                        /\ At(p.goals, g).status \notin TerminalGoal
                        /\ IF r.authority.goals # {} THEN g[1] \in r.authority.goals
                           ELSE At(p.goals, g).owner = r.authority.principal
  /\ \A n \in DOMAIN r.nodes : /\ r.nodes[n].dependencies \subseteq DOMAIN r.nodes
                               /\ r.nodes[n].assumptions \subseteq r.assumptions
  /\ IsDag(r.nodes)

ValidateRoadmap(p, m, r, expected) ==
  /\ CurrentRef(p.roadmaps, m) = expected
  /\ r.authority \in TrustedAuthorities
  /\ RoadmapStructure(p, m, r)

RolesStructure(p, roles) ==
  /\ IsKnown(p.roadmaps, roles.outcome[1])
  /\ roles.outcome[2] \in Nodes(p, roles.outcome[1])
AssistanceStructure(p, envelope) == envelope.roles \in p.roles

-----------------------------------------------------------------------------
\* Commitments.

\* Roles for exactly this outcome, and an envelope for exactly these roles,
\* which only an agent's own work may lack.
Staffed(p, ref, node, roles, envelopes) ==
  /\ roles \in p.roles /\ roles.outcome = <<ref, node>>
  /\ \A e \in envelopes : e \in p.envelopes /\ e.roles = roles
  /\ roles.executor # "agent" => envelopes # {}

Covers(authority, goals) == authority.goals # {} => goals \subseteq authority.goals

CommitmentStructure(p, id, c, authority) ==
  /\ authority.scope # "propose" /\ c.owner = authority.principal
  /\ Covers(authority, c.goals)
  /\ id \notin DOMAIN p.commitments
  /\ c.status \in {"proposed", "accepted", "active"} /\ c.closure = {}
  /\ LiveRoadmap(p, c.roadmap) /\ c.node \in Nodes(p, c.roadmap)
  /\ c.goals # {} /\ c.goals = {g[1] : g \in At(p.roadmaps, c.roadmap).goals}
  /\ \A roles \in c.roles : Staffed(p, c.roadmap, c.node, roles, c.envelope)
  /\ c.roles # {}

ValidateCommitment(p, id, c, authority) ==
  authority \in TrustedAuthorities /\ CommitmentStructure(p, id, c, authority)

Allowed ==
  [status \in Lifecycle |->
     CASE status = "proposed" -> {"accepted"}
       [] status = "accepted" -> {"active", "suspended", "closed"}
       [] status = "active" -> {"suspended", "closed"}
       [] status = "suspended" -> {"active", "closed"}
       [] status = "closed" -> {}]

Reactivates(t) == t.from = "suspended" /\ t.to = "active"

\* Reactivation is reorientation: onto a newer revision of the same roadmap.
Remaps(p, c, r) ==
  /\ r.evidence
  /\ LiveRoadmap(p, r.roadmap)
  /\ c.roadmap # <<>> /\ r.roadmap[1] = c.roadmap[1] /\ r.roadmap[2] > c.roadmap[2]
  /\ c.node \in Nodes(p, r.roadmap)
  /\ Staffed(p, r.roadmap, c.node, r.roles, r.envelope)

IsOriented(p, c, t) ==
  /\ Reactivates(t) => t.remap # {} /\ \A r \in t.remap : Remaps(p, c, r)
  /\ ~Reactivates(t) =>
       /\ t.remap = {}
       /\ t.to \in {"accepted", "active"} => c.roadmap # <<>> /\ LiveRoadmap(p, c.roadmap)

TransitionStructure(p, id, t) ==
  /\ t.authority.scope # "propose" /\ t.author = t.authority.principal
  /\ id \in DOMAIN p.commitments
  /\ LET c == p.commitments[id]
     IN /\ c.owner = t.authority.principal /\ Covers(t.authority, c.goals)
        /\ t.from = c.status /\ t.to \in Allowed[c.status]
        /\ (t.to = "closed") <=> (t.closure # {})
        /\ IsOriented(p, c, t)

ValidateTransition(p, id, t) ==
  t.authority \in TrustedAuthorities /\ TransitionStructure(p, id, t)

ExternalStructure(p, o) ==
  o.ref \notin p.graphs /\ o.supports \subseteq DOMAIN p.commitments

-----------------------------------------------------------------------------
\* Work derived from commitments.

Rank == [prepare |-> 0, propose |-> 1, co_execute |-> 2, act |-> 3]

Assisted(p, q) ==
  LET c == p.commitments[q.commitment]
  IN \E roles \in c.roles :
       /\ roles \in p.roles
       /\ roles.executor # "agent" => c.envelope # {}
       /\ \A e \in c.envelope :
            /\ Rank[q.intervention] <= Rank[e.maximum]
            /\ q.support \subseteq e.support
            /\ ~(q.intervention = "act" /\ e.identityBound /\ roles.executor \in {"user", "shared"})

WithinWip(p, q) ==
  /\ q.signals.wip = Cardinality(PendingWork(p))
  /\ Cardinality(PendingWork(p)) < WipLimit

ProposalStructure(p, q, at) ==
  /\ q.commitment \in DOMAIN p.commitments
  /\ LET c == p.commitments[q.commitment]
     IN /\ c.roadmap = q.roadmap /\ c.node = q.node /\ c.goals = q.order.goals
        /\ LiveRoadmap(p, q.roadmap) /\ q.node \in Nodes(p, q.roadmap)
        /\ q.eligibility # {} /\ q.eligibility = Eligibility(c, at)
        /\ \A d \in c.deadline : q.order.at <= d
  /\ Assisted(p, q) /\ WithinWip(p, q)

\* Faulty variant: the roadmap and its goals are trusted since the proposal.
AdmissionAsProposed(p, q) ==
  /\ q.commitment \in DOMAIN p.commitments
  /\ p.commitments[q.commitment].status = "active"
  /\ Assisted(p, q)

AdmissionStructure(p, q) ==
  /\ q.commitment \in DOMAIN p.commitments
  /\ p.commitments[q.commitment].status = "active"
  /\ LiveRoadmap(p, q.roadmap)
  /\ Assisted(p, q)

-----------------------------------------------------------------------------
\* The v1 events: what the upcasters and _apply_legacy make of them.

Upcast(status) ==
  CASE status = "open" -> [status |-> "accepted", closure |-> {}]
    [] status = "in_progress" -> [status |-> "active", closure |-> {}]
    [] status = "completed" -> [status |-> "closed", closure |-> {"fulfilled"}]
    [] status = "failed" -> [status |-> "closed", closure |-> {"failed"}]
    [] status = "cancelled" -> [status |-> "closed", closure |-> {"cancelled"}]
    [] OTHER -> [status |-> status, closure |-> {}]

LegacyOrigin(source) == OriginProvenance("legacy_unverified", source, source)
LegacyAuthority(source) ==
  IntentAuthority(source, "delegated", {"legacy_unclassified"}, {}, source)

LegacyGoal(p, ev) ==
  LET h == History(p.goals, ev.id)
  IN IF h = <<>>
     THEN GoalRevision(1, ev.status, "legacy_unclassified", {}, LegacyOrigin(ev.source),
                       LegacyAuthority(ev.source), ev.source, ev.source)
     ELSE [Last(h) EXCEPT !.version = Len(h) + 1, !.status = ev.status, !.author = ev.source,
                          !.owner = IF ev.operation = "create" THEN ev.source ELSE @]

LegacyCommitment(p, ev) ==
  LET to == Upcast(ev.status)
  IN IF ev.id \notin DOMAIN p.commitments
     THEN Commitment(ev.source, to.status, to.closure, {}, <<>>, "", {}, {}, {}, FALSE, {})
     ELSE [p.commitments[ev.id] EXCEPT
             !.status = to.status,
             !.owner = IF ev.operation = "create" THEN ev.source ELSE @,
             !.closure = IF to.closure = {} THEN @ ELSE to.closure]

\* A patch or a terminal event of an unknown id is passed over.
Ignored(p, ev) ==
  \/ ev.type = "legacy_goal" /\ ev.operation = "patch" /\ ev.id \notin DOMAIN p.goals
  \/ ev.type = "legacy_commitment" /\ ev.operation # "create" /\ ev.id \notin DOMAIN p.commitments

\* Only a goal that was never classified may be left without success criteria.
LegacyGoalStructure(p, ev) ==
  Ignored(p, ev) \/ ev.criteria \/ LegacyGoal(p, ev).kind = "legacy_unclassified"

-----------------------------------------------------------------------------
\* StrategicProjection.apply: is the event legal, and what does it change?

LegalObservation(p, id, o) ==
  /\ ExternalStructure(p, o)
  /\ \A n \in DOMAIN History(p.external, id) : p.external[id][n] # o
  /\ History(p.external, id) # <<>> => Last(p.external[id]).recorded <= o.recorded

Legal(p, ev) ==
  CASE ev.type = "goal" -> GoalStructure(p, ev.id, ev.value)
    [] ev.type = "roadmap" -> RoadmapStructure(p, ev.id, ev.value)
    [] ev.type = "roles" -> RolesStructure(p, ev.value)
    [] ev.type = "envelope" -> AssistanceStructure(p, ev.value)
    [] ev.type = "commitment" -> CommitmentStructure(p, ev.id, ev.value, ev.authority)
    [] ev.type = "transition" -> TransitionStructure(p, ev.id, ev.value)
    [] ev.type = "external" -> LegalObservation(p, ev.id, ev.value)
    [] ev.type = "proposal" -> ProposalStructure(p, ev.value, ev.value.at)
    [] ev.type = "order" ->
         \A q \in p.proposals : q.order = ev.value => AdmissionStructure(p, q)
    [] ev.type = "legacy_goal" -> LegacyGoalStructure(p, ev)
    [] OTHER -> TRUE

Put(f, id, value) == [i \in DOMAIN f \cup {id} |-> IF i = id THEN value ELSE f[i]]
Extend(f, id, value) == Put(f, id, Append(History(f, id), value))

\* Faulty variant: an envelope is carried over to the roles that replaced its own.
TransitionedKeepingEnvelope(c, t) ==
  LET moved == [c EXCEPT !.status = t.to, !.closure = t.closure]
  IN IF t.remap = {} THEN moved
     ELSE LET r == CHOOSE r \in t.remap : TRUE
          IN [moved EXCEPT !.roadmap = r.roadmap, !.roles = {r.roles},
                           !.envelope = IF r.envelope = {} THEN @ ELSE r.envelope]

Transitioned(c, t) ==
  LET moved == [c EXCEPT !.status = t.to, !.closure = t.closure]
  IN IF t.remap = {} THEN moved
     ELSE LET r == CHOOSE r \in t.remap : TRUE
          IN [moved EXCEPT !.roadmap = r.roadmap, !.roles = {r.roles}, !.envelope = r.envelope]

Applied(p, ev) ==
  CASE ev.type = "goal" -> [p EXCEPT !.goals = Extend(@, ev.id, ev.value)]
    [] ev.type = "roadmap" -> [p EXCEPT !.roadmaps = Extend(@, ev.id, ev.value)]
    [] ev.type = "roles" -> [p EXCEPT !.roles = @ \cup {ev.value}]
    [] ev.type = "envelope" -> [p EXCEPT !.envelopes = @ \cup {ev.value}]
    [] ev.type = "commitment" -> [p EXCEPT !.commitments = Put(@, ev.id, ev.value)]
    [] ev.type = "transition" ->
         [p EXCEPT !.commitments[ev.id] = Transitioned(@, ev.value)]
    [] ev.type = "external" -> [p EXCEPT !.external = Extend(@, ev.id, ev.value)]
    [] ev.type = "proposal" -> [p EXCEPT !.proposals = @ \cup {ev.value}]
    [] ev.type = "order" -> [p EXCEPT !.admitted = @ \cup {ev.value}]
    [] ev.type = "graph" -> [p EXCEPT !.graphs = @ \cup {ev.id}]
    [] ev.type = "legacy_goal" ->
         IF Ignored(p, ev) THEN p
         ELSE [p EXCEPT !.goals = Extend(@, ev.id, LegacyGoal(p, ev))]
    [] ev.type = "legacy_commitment" ->
         IF Ignored(p, ev) THEN p
         ELSE [p EXCEPT !.commitments = Put(@, ev.id, LegacyCommitment(p, ev))]

-----------------------------------------------------------------------------
\* Coverage and health.

\* Faulty variant: the work of earlier revisions counts.
ScopedByCommitment(p, id) == {q \in p.proposals : q.commitment = id}

Scoped(p, id) ==
  LET c == p.commitments[id]
  IN {q \in p.proposals : q.commitment = id /\ q.roadmap = c.roadmap /\ q.node = c.node}

RequiredCriteria(p, c) ==
  IF c.roadmap = <<>> \/ c.node \notin Nodes(p, c.roadmap) THEN {}
  ELSE At(p.roadmaps, c.roadmap).nodes[c.node].criteria

ExternalSupport(p, ids, at) ==
  \E w \in DOMAIN p.external :
    LET o == Last(p.external[w])
    IN o.required /\ o.expires > at /\ o.supports \cap ids # {}

CommitmentCoverage(p, id, at) ==
  LET c == p.commitments[id]
      required == RequiredCriteria(p, c)
      covered == UNION {q.order.criteria : q \in {s \in Scoped(p, id) : s.order \in p.admitted}}
  IN [required |-> required, covered |-> required \cap covered,
      external |-> ExternalSupport(p, {id}, at),
      disposition |->
        IF required # {} /\ required \subseteq covered THEN "covered"
        ELSE IF Scoped(p, id) \cap PendingWork(p) # {} THEN "proposed"
        ELSE IF Eligibility(c, at) # {} THEN "uncovered" ELSE "inactive"]

RoadmapHealth(p, m, at) ==
  LET ref == <<m, Len(p.roadmaps[m])>>
      r == Last(p.roadmaps[m])
      linked == {id \in DOMAIN p.commitments : p.commitments[id].roadmap = ref}
      signals ==
        [alignment |-> \A g \in r.goals : IsCurrent(p.goals, g),
         assumptions |-> r.assumptions = {},
         progress |-> \A id \in linked :
                        p.commitments[id].closure \cap {"failed", "breached"} = {},
         schedule |-> \A id \in linked :
                        p.commitments[id].status \in {"accepted", "active"} =>
                          \A d \in p.commitments[id].deadline : at <= d,
         capacity |-> Cardinality({q \in PendingWork(p) : q.commitment \in linked}) <= WipLimit,
         opportunity |-> ~ExternalSupport(p, linked, at)]
  IN [signals |-> signals, review |-> {k \in DOMAIN signals : ~signals[k]}]

-----------------------------------------------------------------------------
\* Projections of a log that stewards wrote.

IsHistory(h) == h # <<>> /\ h \in Seq(Range(h))
Numbered(f) ==
  \A id \in DOMAIN f : IsHistory(f[id]) /\ \A n \in DOMAIN f[id] : f[id][n].version = n

IsGoalRevision(r) ==
  r = GoalRevision(r.version, r.status, r.kind, r.refs, r.origin, r.authority, r.owner, r.author)
IsCommitment(c) ==
  c = Commitment(c.owner, c.status, c.closure, c.goals, c.roadmap, c.node, c.roles, c.envelope,
                 c.due, c.lead, c.deadline)

\* Every revision of a goal has the kind, origin and governing goals of the first.
LineageIsKept(goals) ==
  \A g \in DOMAIN goals : \A n \in DOMAIN goals[g] :
    LET first == goals[g][1] r == goals[g][n]
    IN /\ r.kind = first.kind /\ r.origin = first.origin /\ r.refs = first.refs
       /\ r.kind \in GoverningKinds => r.authority.principal = first.origin.principal

\* No goal governs itself through others.
GoverningIsAcyclic(goals) ==
  \A S \in SUBSET DOMAIN goals : S # {} => \E g \in S : Last(goals[g]).refs \cap S = {}

\* The roles and the assistance are for the revision and the outcome it stands for.
IsScoped(c) ==
  \A roles \in c.roles :
    /\ roles.outcome = <<c.roadmap, c.node>>
    /\ \A e \in c.envelope : e.roles = roles
    /\ roles.executor # "agent" => c.envelope # {}

\* Work is for its commitment as it is, or for a revision that it has left.
IsDerived(p, q) ==
  /\ q.commitment \in DOMAIN p.commitments
  /\ q.order.commitment = q.commitment /\ q.order.roadmap = q.roadmap /\ q.order.node = q.node
  /\ LET c == p.commitments[q.commitment]
     IN /\ q.node = c.node /\ q.order.goals = c.goals /\ c.roadmap # <<>>
        /\ q.roadmap = <<c.roadmap[1], q.roadmap[2]>> /\ q.roadmap[2] \in 1..c.roadmap[2]
        /\ q.roadmap = c.roadmap => Assisted(p, q)

GoalsAreWellFormed(goals) ==
  /\ Numbered(goals) /\ LineageIsKept(goals) /\ GoverningIsAcyclic(goals)
  /\ \A g \in DOMAIN goals : \A n \in DOMAIN goals[g] :
       IsGoalRevision(goals[g][n]) /\ goals[g][n].refs \subseteq DOMAIN goals

CommitmentsAreWellFormed(p) ==
  \A id \in DOMAIN p.commitments :
    LET c == p.commitments[id]
    IN /\ IsCommitment(c) /\ c.status \in Lifecycle /\ IsScoped(c)
       /\ \/ c.roadmap = <<>>
          \/ c.roadmap = <<c.roadmap[1], c.roadmap[2]>> /\ IsKnown(p.roadmaps, c.roadmap)

WorkIsWellFormed(p) ==
  /\ IsFiniteSet(p.proposals) /\ Cardinality(PendingWork(p)) <= WipLimit
  /\ \A q \in p.proposals : IsDerived(p, q)
  /\ p.admitted \subseteq {q.order : q \in p.proposals}

ObservedBy(external, at) ==
  \A w \in DOMAIN external :
    /\ IsHistory(external[w])
    /\ \A n \in DOMAIN external[w] : external[w][n].recorded \in {t \in Int : t <= at}

WellFormed(p) ==
  /\ p = [goals |-> p.goals, roadmaps |-> p.roadmaps, roles |-> p.roles,
          envelopes |-> p.envelopes, commitments |-> p.commitments, proposals |-> p.proposals,
          admitted |-> p.admitted, external |-> p.external, graphs |-> p.graphs]
  /\ GoalsAreWellFormed(p.goals) /\ Numbered(p.roadmaps)
  /\ CommitmentsAreWellFormed(p) /\ WorkIsWellFormed(p)
=============================================================================
