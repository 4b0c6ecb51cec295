--------------------------- MODULE WorkCoordination ---------------------------
(***************************************************************************)
(* Durable work coordination (work/coordination.py, work/planning.py): the *)
(* work of one order, planned as graphs and handed to agents under fenced  *)
(* leases.  A DurableWorkCoordinator keeps nothing: every command reloads  *)
(* WorkProjection from the canonical log, decides on what it read, and     *)
(* emits events; several coordinators may run.                             *)
(*                                                                         *)
(* A projection is the set K of the log positions applied to it: a prefix  *)
(* of the log after a reload, and the command's own events after that.     *)
(* WorkProjection.apply raises on an event that Legal does not allow.      *)
(* Since an event is applied after it is appended, a log may hold an event *)
(* that no reload can apply.                                               *)
(*                                                                         *)
(* Left out as data: manifests and competence scores (any agent may be the *)
(* best match), governed inputs, and the freshness gate of a node.         *)
(***************************************************************************)
EXTENDS Integers, Sequences, FiniteSets

CONSTANTS
  Coordinators,
  Agents,
  Nodes,          \* the nodes of a plan
  None,           \* no node, no agent
  Predecessors,   \* node -> the nodes it depends on
  VerificationOf, \* node -> the nodes whose work it verifies
  Capacity,       \* max_concurrency of an agent
  LeaseDuration,
  PresenceHorizon,\* how long an observed presence is valid
  Commands,       \* the commands of the coordinators; "trigger", an event of others
  Reports,        \* what is reported besides passing work of an active graph and
                  \* present presence: "late", work of another graph; "rejected",
                  \* a failed verification; "old", an earlier presence
  Planned,        \* whether the first graph is accepted at the start
  MaxTime,        \* the clock stops there (bound)
  MaxLog          \* length of the log (bound)

ASSUME WorkAssumption ==
  /\ None \notin Nodes \cup Agents
  /\ Predecessors \in [Nodes -> SUBSET Nodes]
  /\ VerificationOf \in [Nodes -> SUBSET Nodes]
  /\ \A n \in Nodes, S \in SUBSET Nodes :  \* a node depends on what it verifies
       Predecessors[n] \subseteq S /\ (\A p \in S : Predecessors[p] \subseteq S)
         => VerificationOf[n] \subseteq S
  /\ {Capacity, LeaseDuration, PresenceHorizon} \subseteq Nat \ {0}
  /\ {MaxTime, MaxLog} \subseteq Nat /\ Planned \in BOOLEAN /\ IsFiniteSet(Agents)
  /\ Commands \subseteq {"plan", "assign", "complete", "expire", "invalidate",
                         "presence", "trigger"}
  /\ Reports \subseteq {"late", "rejected", "old"}

VARIABLES
  log,         \* the canonical log
  now,         \* the clock of the coordinators
  coordinator  \* what each coordinator is doing

vars == <<log, now, coordinator>>

Positions == 1..Len(log)

Types == {"presence", "trigger", "proposed", "accepted", "invalidated",
          "granted", "expired", "completed"}
Terminal == {"expired", "completed"}

\* ref: the causal cut of a plan, the trigger of an invalidation; verdict: the
\* agent is available, the work passed.
Event == [type : Types, graph : Nat, node : Nodes \cup {None},
          agent : Agents \cup {None}, token : Nat, at : Nat, ref : Nat,
          verdict : BOOLEAN]

Blank == [type |-> "trigger", graph |-> 0, node |-> None, agent |-> None,
          token |-> 0, at |-> 0, ref |-> 0, verdict |-> TRUE]

Presence(a, t, v) ==
  [Blank EXCEPT !.type = "presence", !.agent = a, !.at = t, !.verdict = v]
Proposed(cut, base, t) ==
  [Blank EXCEPT !.type = "proposed", !.ref = cut, !.graph = base, !.at = t]
Accepted(cut, version, t) ==
  [Blank EXCEPT !.type = "accepted", !.ref = cut, !.graph = version, !.at = t]
Invalidated(g, trigger, t) ==
  [Blank EXCEPT !.type = "invalidated", !.graph = g, !.ref = trigger, !.at = t]
Granted(g, n, a, k, t) ==
  [Blank EXCEPT !.type = "granted", !.graph = g, !.node = n, !.agent = a,
                !.token = k, !.at = t]

Expired(lease, t) == [lease EXCEPT !.type = "expired", !.at = t]
Completed(lease, t, v) ==
  [lease EXCEPT !.type = "completed", !.at = t, !.verdict = v]

SameLease(e, f) == e.graph = f.graph /\ e.node = f.node /\ e.token = f.token

\* Faulty variant: every id is a digest of the content.
SameContent(e, f) == e = f

\* Event ids: a lease's grant and its end are named after the lease, an
\* invalidation after its graph and trigger; the rest are digests.
SameId(e, f) ==
  \/ e = f
  \/ e.type = "granted" /\ f.type = "granted" /\ SameLease(e, f)
  \/ e.type \in Terminal /\ f.type \in Terminal /\ SameLease(e, f)
  \/ /\ e.type = "invalidated" /\ f.type = "invalidated"
     /\ e.graph = f.graph /\ e.ref = f.ref

-----------------------------------------------------------------------------
\* WorkProjection over the positions K.

OfType(K, type) == {i \in K : log[i].type = type}

Ended(K, lease) ==
  \E i \in K : log[i].type \in Terminal /\ SameLease(log[i], lease)

ActiveLeases(K) == {i \in OfType(K, "granted") : ~Ended(K, log[i])}

LeasedTo(K, a) == {i \in ActiveLeases(K) : log[i].agent = a}

CompletedBy(K, g, n) ==
  {log[i].agent : i \in {j \in OfType(K, "completed") : log[j].graph = g /\ log[j].node = n}}

IsCompleted(K, g, n) == CompletedBy(K, g, n) # {}

IsLeased(K, g, n) == \E i \in ActiveLeases(K) : log[i].graph = g /\ log[i].node = n

\* v is the version of the latest graph, 0 without one.
IsVersion(K, v) ==
  /\ \A i \in OfType(K, "accepted") : log[i].graph <= v
  /\ v = 0 \/ \E i \in OfType(K, "accepted") : log[i].graph = v

GraphIsActive(K, g) ==
  /\ g # 0 /\ IsVersion(K, g)
  /\ \A i \in OfType(K, "invalidated") : log[i].graph # g

CutOf(K, g) == log[CHOOSE i \in OfType(K, "accepted") : log[i].graph = g].ref

\* k is the highest fencing token of a node, 0 without one.
IsHighestToken(K, g, n, k) ==
  LET tokens == {log[i].token : i \in {j \in OfType(K, "granted") :
                                         log[j].graph = g /\ log[j].node = n}}
  IN /\ \A t \in tokens : t <= k
     /\ k = 0 \/ k \in tokens

IsAvailable(K, a, t) ==
  \E i \in OfType(K, "presence") :
    /\ log[i].agent = a
    /\ \A j \in OfType(K, "presence") : log[j].agent = a => j <= i
    /\ log[i].verdict
    /\ log[i].at <= t /\ t < log[i].at + PresenceHorizon

Expiry(lease) == lease.at + LeaseDuration

\* What apply accepts on top of K.
LegalPlan(K, e) ==
  /\ IsVersion(K, e.graph - 1)
  /\ \A i \in OfType(K, "trigger") : i <= e.ref

LegalGrant(K, e) ==
  /\ GraphIsActive(K, e.graph)
  /\ ~IsCompleted(K, e.graph, e.node)
  /\ ~IsLeased(K, e.graph, e.node)
  /\ \A p \in Predecessors[e.node] : IsCompleted(K, e.graph, p)
  /\ IsHighestToken(K, e.graph, e.node, e.token - 1)
  /\ IsAvailable(K, e.agent, e.at)
  /\ Cardinality(LeasedTo(K, e.agent)) < Capacity
  /\ \A p \in VerificationOf[e.node] : e.agent \notin CompletedBy(K, e.graph, p)

LegalCompletion(K, e) ==
  /\ \E i \in ActiveLeases(K) :
       SameLease(log[i], e) /\ log[i].at <= e.at /\ e.at < Expiry(log[i])
  /\ GraphIsActive(K, e.graph)
  /\ e.verdict

LegalInvalidation(K, e) ==
  /\ GraphIsActive(K, e.graph)
  /\ e.ref \in OfType(K, "trigger") /\ e.ref > CutOf(K, e.graph)

Legal(K, e) ==
  CASE e.type = "presence" ->
         \A i \in OfType(K, "presence") : log[i].agent = e.agent => log[i].at <= e.at
    [] e.type = "accepted"    -> LegalPlan(K, e)
    [] e.type = "granted"     -> LegalGrant(K, e)
    [] e.type = "expired"     ->
         \E i \in ActiveLeases(K) : SameLease(log[i], e) /\ Expiry(log[i]) <= e.at
    [] e.type = "completed"   -> LegalCompletion(K, e)
    [] e.type = "invalidated" -> LegalInvalidation(K, e)
    [] OTHER -> TRUE

\* Every reload succeeds: the log can be replayed from its beginning.  It is the
\* guard of every command and the property that ADR 0007 asks of the log.
Replayable == \A i \in Positions : Legal(1..(i - 1), log[i])

-----------------------------------------------------------------------------
\* A coordinator; todo: leases or nodes left to act on.
Idle == [pc |-> "idle", known |-> {}, at |-> 0, todo |-> {}, cut |-> 0, base |-> 0,
         verdict |-> TRUE]

Planning(cut, base) ==
  [pc |-> "proposing", known |-> {}, at |-> 0, todo |-> {}, cut |-> cut, base |-> base,
   verdict |-> TRUE]

\* A command that has read the whole log.
Working(pc, todo, verdict) ==
  [pc |-> pc, known |-> Positions, at |-> now, todo |-> todo, cut |-> 0, base |-> 0,
   verdict |-> verdict]

\* The order and its ecology are recorded: each agent was seen once.
Presences ==
  {s \in [1..Cardinality(Agents) -> {Presence(a, 0, TRUE) : a \in Agents}] :
     \A a \in Agents : \E i \in DOMAIN s : s[i].agent = a}

FirstPlan ==
  IF Planned THEN <<Proposed(Cardinality(Agents), 0, 0), Accepted(Cardinality(Agents), 1, 0)>>
  ELSE <<>>

Init ==
  /\ log \in {s \o FirstPlan : s \in Presences}
  /\ now = 0
  /\ coordinator = [c \in Coordinators |-> Idle]

Coordinator ==
  [pc : {"idle", "proposing", "validating", "admitting", "assigning", "completing",
         "expiring", "invalidating", "recording"},
   known : SUBSET Nat, at : Nat, todo : SUBSET (Nodes \cup Nat), cut : Nat, base : Nat,
   verdict : BOOLEAN]

\* Type invariant; with it, a command knows only positions the log has, works on a
\* cut and a time that are past, and on leases and triggers that are in the log.
TypeOK ==
  /\ log \in Seq(Event)
  /\ now \in 0..MaxTime
  /\ coordinator \in [Coordinators -> Coordinator]
  /\ \A c \in Coordinators :
       LET s == coordinator[c]
       IN /\ s.known \subseteq Positions
          /\ s.at \in 0..now /\ s.cut \in 0..Len(log)
          /\ s.pc = "assigning" => s.todo \subseteq Nodes
          /\ s.pc \in {"completing", "expiring"} => s.todo \subseteq OfType(Positions, "granted")
          /\ s.pc = "invalidating" => s.todo \subseteq OfType(Positions, "trigger")

Becomes(c, state) == coordinator' = [coordinator EXCEPT ![c] = state]

\* _reload, and the start of a command: the projection is the whole log.
Begin(c, command, pc, todo) ==
  /\ coordinator[c].pc = "idle" /\ command \in Commands
  /\ Len(log) < MaxLog
  /\ Replayable
  /\ Becomes(c, Working(pc, todo, TRUE))
  /\ UNCHANGED <<log, now>>

\* One lease or node of the command is done with.
Done(c, x, known) ==
  LET left == coordinator[c].todo \ {x}
  IN Becomes(c, IF left = {} THEN Idle
                ELSE [coordinator[c] EXCEPT !.todo = left, !.known = known])

\* _emit: the log returns the event it has under this id, and the command ends
\* in an exception when that is another one, or when apply raises.
Emit(c, e, x) ==
  LET K == coordinator[c].known
      Apply(i) == IF Legal(K, e) THEN Done(c, x, K \cup {i}) ELSE Becomes(c, Idle)
  IN IF \E i \in Positions : SameId(log[i], e)
     THEN /\ UNCHANGED log
          /\ \E i \in Positions :
               /\ SameId(log[i], e)
               /\ CASE log[i] # e            -> Becomes(c, Idle)
                    [] log[i] = e /\ i \in K -> Done(c, x, K)
                    [] OTHER -> IF \A j \in K : j < i THEN Apply(i) ELSE Becomes(c, Idle)
     ELSE log' = Append(log, e) /\ Apply(Len(log) + 1)

-----------------------------------------------------------------------------
\* plan: the causal cut, the planner's suspension, the proposal, the validation
\* on a reloaded projection, and the append on the head of that projection.

\* Faulty variant: the cut is the next sequence.
PlanPastHead(c) ==
  \E v \in 0..Len(log) :
    /\ coordinator[c].pc = "idle" /\ "plan" \in Commands
    /\ Len(log) < MaxLog
    /\ Replayable
    /\ IsVersion(Positions, v)
    /\ Becomes(c, Planning(Len(log) + 1, v))
    /\ UNCHANGED <<log, now>>

Plan(c) ==
  \E v \in 0..Len(log) :
    /\ coordinator[c].pc = "idle" /\ "plan" \in Commands
    /\ Len(log) < MaxLog
    /\ Replayable
    /\ IsVersion(Positions, v)
    /\ Becomes(c, Planning(Len(log), v))
    /\ UNCHANGED <<log, now>>

Propose(c) ==
  /\ coordinator[c].pc = "proposing"
  /\ IF Replayable
     THEN LET e == Proposed(coordinator[c].cut, coordinator[c].base, now)
          IN /\ IF \E i \in Positions : log[i] = e
                THEN UNCHANGED log
                ELSE log' = Append(log, e)
             /\ Becomes(c, [coordinator[c] EXCEPT !.pc = "validating"])
     ELSE UNCHANGED log /\ Becomes(c, Idle)
  /\ UNCHANGED now

Stale(c) ==
  \/ ~IsVersion(Positions, coordinator[c].base)
  \/ \E i \in OfType(Positions, "trigger") : i > coordinator[c].cut

Validate(c) ==
  /\ coordinator[c].pc = "validating"
  /\ Becomes(c, IF Replayable /\ ~Stale(c)
                THEN [coordinator[c] EXCEPT !.pc = "admitting", !.known = Positions, !.at = now]
                ELSE Idle)
  /\ UNCHANGED <<log, now>>

\* Faulty variant: the head is checked at validation only.
AdmitUnconditionally(c) ==
  /\ coordinator[c].pc = "admitting"
  /\ log' = Append(log, Accepted(coordinator[c].cut, coordinator[c].base + 1, coordinator[c].at))
  /\ Becomes(c, Idle)
  /\ UNCHANGED now

Admit(c) ==
  /\ coordinator[c].pc = "admitting"
  /\ IF coordinator[c].known = Positions
     THEN /\ log' = Append(log, Accepted(coordinator[c].cut, coordinator[c].base + 1,
                                         coordinator[c].at))
          /\ Becomes(c, Idle)
     ELSE UNCHANGED log /\ Becomes(c, [coordinator[c] EXCEPT !.pc = "validating"])
  /\ UNCHANGED now

-----------------------------------------------------------------------------
\* assign_ready.

\* Faulty variant: the frontier does not look at the dependencies.
Unleased(K, g) == {n \in Nodes : ~IsCompleted(K, g, n) /\ ~IsLeased(K, g, n)}

\* ReadyFrontier.derive.
Ready(K, g) ==
  {n \in Nodes : /\ ~IsCompleted(K, g, n) /\ ~IsLeased(K, g, n)
                 /\ \A p \in Predecessors[n] : IsCompleted(K, g, p)}

BeginAssign(c) ==
  \E g \in 1..Len(log) :
    /\ GraphIsActive(Positions, g)
    /\ Ready(Positions, g) # {}
    /\ Begin(c, "assign", "assigning", Ready(Positions, g))

\* Faulty variant: whoever is available will do.
AnyAvailable(K, g, n, t) == {a \in Agents : IsAvailable(K, a, t)}

\* WorkerMatcher.match_with_access_evidence: who may be chosen.
Feasible(K, g, n, t) ==
  {a \in Agents : /\ IsAvailable(K, a, t)
                  /\ \A p \in VerificationOf[n] : a \notin CompletedBy(K, g, p)
                  /\ Cardinality(LeasedTo(K, a)) < Capacity}

\* One node of the frontier: a lease under the next token, or no worker.
Assign(c) ==
  /\ coordinator[c].pc = "assigning"
  /\ \E n \in coordinator[c].todo, g \in 1..Len(log) :
       LET K == coordinator[c].known
           t == coordinator[c].at
       IN /\ IsVersion(K, g)
          /\ IF Feasible(K, g, n, t) = {}
             THEN UNCHANGED log /\ Done(c, n, K)
             ELSE \E a \in Feasible(K, g, n, t), k \in 0..Len(log) :
                    /\ IsHighestToken(K, g, n, k)
                    /\ Emit(c, Granted(g, n, a, k + 1, t), n)
  /\ UNCHANGED now

-----------------------------------------------------------------------------
\* complete, recover_expired, invalidate_for, record_presence.

Suits(i, verdict) ==
  /\ GraphIsActive(Positions, log[i].graph) \/ "late" \in Reports
  /\ verdict \/ ("rejected" \in Reports /\ VerificationOf[log[i].node] # {})

\* complete rejects a lease that is not active, a stale token and a late call;
\* it does not look at the graph, nor at the verdict.
BeginComplete(c) ==
  \E i \in ActiveLeases(Positions), verdict \in BOOLEAN :
    /\ coordinator[c].pc = "idle" /\ "complete" \in Commands
    /\ Len(log) < MaxLog
    /\ Replayable
    /\ now < Expiry(log[i])
    /\ Suits(i, verdict)
    /\ Becomes(c, Working("completing", {i}, verdict))
    /\ UNCHANGED <<log, now>>

Complete(c) ==
  /\ coordinator[c].pc = "completing"
  /\ \E i \in coordinator[c].todo :
       Emit(c, Completed(log[i], coordinator[c].at, coordinator[c].verdict), i)
  /\ UNCHANGED now

BeginExpire(c) ==
  LET due == {i \in ActiveLeases(Positions) : Expiry(log[i]) <= now}
  IN due # {} /\ Begin(c, "expire", "expiring", due)

Expire(c) ==
  /\ coordinator[c].pc = "expiring"
  /\ \E i \in coordinator[c].todo :
       Emit(c, Expired(log[i], coordinator[c].at), i)
  /\ UNCHANGED now

BeginInvalidate(c) ==
  \E g \in 1..Len(log), i \in OfType(Positions, "trigger") :
    /\ GraphIsActive(Positions, g)
    /\ i > CutOf(Positions, g)
    /\ Begin(c, "invalidate", "invalidating", {i})

Invalidate(c) ==
  /\ coordinator[c].pc = "invalidating"
  /\ \E i \in coordinator[c].todo, g \in 1..Len(log) :
       /\ IsVersion(coordinator[c].known, g)
       /\ Emit(c, Invalidated(g, i, coordinator[c].at), i)
  /\ UNCHANGED now

BeginPresence(c) == Begin(c, "presence", "recording", {})

RecordPresence(c) ==
  /\ coordinator[c].pc = "recording"
  /\ \E a \in Agents, verdict \in BOOLEAN :
       \E t \in (IF "old" \in Reports THEN 0..coordinator[c].at ELSE {coordinator[c].at}) :
         Emit(c, Presence(a, t, verdict), a)
  /\ UNCHANGED now

\* The coordinator's process dies, or the command is cancelled.
Cancel(c) ==
  /\ coordinator[c].pc # "idle"
  /\ Becomes(c, Idle)
  /\ UNCHANGED <<log, now>>

-----------------------------------------------------------------------------
\* An event of a type that the plan declares as a reason to plan again.
Trigger ==
  /\ "trigger" \in Commands
  /\ Len(log) < MaxLog
  /\ log' = Append(log, [Blank EXCEPT !.ref = Len(log) + 1])
  /\ UNCHANGED <<now, coordinator>>

Tick ==
  /\ now < MaxTime
  /\ now' = now + 1
  /\ UNCHANGED <<log, coordinator>>

Next ==
  \/ \E c \in Coordinators :
       \/ Plan(c) \/ Propose(c) \/ Validate(c) \/ Admit(c)
       \/ BeginAssign(c) \/ Assign(c)
       \/ BeginComplete(c) \/ Complete(c)
       \/ BeginExpire(c) \/ Expire(c)
       \/ BeginInvalidate(c) \/ Invalidate(c)
       \/ BeginPresence(c) \/ RecordPresence(c)
       \/ Cancel(c)
  \/ Trigger
  \/ Tick

Spec == Init /\ [][Next]_vars

-----------------------------------------------------------------------------
\* Properties.

\* The canonical log read as leases.  Whatever the coordinators know, the log
\* keeps the promise of WorkOwnership.
Item(i) == <<log[i].graph, log[i].node>>

Grants == {[item |-> Item(i), token |-> log[i].token, agent |-> log[i].agent] :
             i \in OfType(Positions, "granted")}
Ends(type) == {<<Item(i), log[i].token>> : i \in OfType(Positions, type)}

Ownership == INSTANCE WorkOwnership WITH
  Items <- (Nat \ {0}) \X Nodes, grants <- Grants,
  expired <- Ends("expired"), completed <- Ends("completed")

\* Leases as the log tells them are granted, expired and completed only as
\* WorkOwnership allows, however the commands of coordinators interleave: one open
\* lease per item, growing tokens, one end per lease, nothing after a completion.
ImplementsOwnership == Ownership!Spec

\* Work starts after what it depends on: at the time of a grant every
\* predecessor of the node was completed in the same graph.
DependenciesFirst ==
  \A i \in OfType(Positions, "granted") :
    \A p \in Predecessors[log[i].node] : IsCompleted(1..(i - 1), log[i].graph, p)

\* Nobody is granted the verification of his own work, under whatever
\* interleaving of commands.
VerifierIsIndependent ==
  \A i \in OfType(Positions, "granted") :
    \A p \in VerificationOf[log[i].node] :
      log[i].agent \notin CompletedBy(Positions, log[i].graph, p)

\* An agent holds no more open leases than it declared, if one coordinator runs.
CapacityIsKept ==
  \A a \in Agents : Cardinality(LeasedTo(Positions, a)) <= Capacity
=============================================================================
