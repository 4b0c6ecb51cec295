----------------------- MODULE DeliberativeAttention -----------------------
(***************************************************************************)
(* Telemetry of attention: workers that observe every source event their   *)
(* policy recognizes, ask a provider what was decided about it, record the *)
(* disposition under the governance of the information it derives from,    *)
(* and checkpoint; observers that later link an outcome or feedback; a     *)
(* steward that publishes facts and governs their information; and a       *)
(* client that has information disclosed or declassified.                  *)
(*                                                                         *)
(* Every append against an expected head is retried until it lands, so it  *)
(* is one step evaluated at the head it lands on; every other read of the  *)
(* log is remembered by the process and may be stale when it is used.      *)
(***************************************************************************)
EXTENDS InformationGovernance

CONSTANTS
    Workers,        \* the attention workers
    Consumer,       \* [Workers -> consumer id]: who shares a checkpoint
    SourcePolicy,   \* [Workers -> [name, kinds]]: the facts each recognizes
    Observers,      \* processes that link outcomes and feedback
    Clients,        \* processes that ask for disclosures and declassifications
    Scenarios       \* the starting points: see Init

ASSUME WorkersHavePolicies ==
    /\ DOMAIN Consumer = Workers /\ DOMAIN SourcePolicy = Workers
    /\ \A w \in Workers : DOMAIN SourcePolicy[w] = {"name", "kinds"}
    /\ Workers \cap Observers = {}

VARIABLES
    log,    \* the canonical log
    left,   \* what the scenario still allows
    task    \* what each process is doing, forgotten by a crash

vars == <<log, left, task>>

Processes == Workers \cup Observers \cup Clients

Telemetry(i, at) == InformationAccessRequest(i, "operations", {"telemetry"}, at)

-----------------------------------------------------------------------------
(* The records of this subsystem *)

SchemaRecorded(policy) == [type |-> "schema", schema |-> policy.name]
SourcePolicyRecorded(policy) == [type |-> "source_policy", contract |-> policy]

(* A source event: its kind, the information its payload names, and whether *)
(* its payload has the features the schema requires.                        *)
Fact(kind, infos, payload) == [type |-> "fact", kind |-> kind, infos |-> infos, payload |-> payload]

(* A disposition of the fact at position `source` under a policy. *)
AttentionDispositionRecord(t, l) ==
    [type |-> "disposition", source |-> t.source, policy |-> t.policy, body |-> t.body,
     infos |-> t.infos, cut |-> t.cut, receipts |-> t.receipts,
     info |-> t.info, policies |-> t.policies, access |-> t.access, head |-> Len(l)]

(* The outcome of, or the feedback on, the disposition at position `source`. *)
AttentionLink(t, l) ==
    [type |-> t.kind, source |-> t.source, event |-> t.event, body |-> t.body,
     infos |-> t.infos, info |-> t.info, policies |-> t.policies, access |-> t.access,
     head |-> Len(l)]

Checkpoint(consumer, last, observed) ==
    [type |-> "checkpoint", consumer |-> consumer, last |-> last, observed |-> observed]

-----------------------------------------------------------------------------
(* The exposure projection of a log *)

IsRecorded(l, e) == \E k \in Positions(l, e.type) : l[k] = e

PolicySequence(l, policy) == {k \in Positions(l, "source_policy") : l[k].contract = policy}

(* Only facts recorded after the policy are in its denominator. *)
Recognizes(l, policy, k) ==
    /\ l[k].type = "fact" /\ l[k].kind \in policy.kinds
    /\ \E s \in PolicySequence(l, policy) : s < k

RecognizedOpportunities(l, policy) == {k \in DOMAIN l : Recognizes(l, policy, k)}

DispositionFor(l, k, policy) ==
    {d \in Positions(l, "disposition") : l[d].source = k /\ l[d].policy = policy}

OutcomeFor(l, d) == {k \in Positions(l, "outcome") : l[k].source = d}

FeedbackLike(l, t) ==
    {k \in Positions(l, "feedback") : l[k].source = t.source /\ l[k].event = t.event /\ l[k].body = t.body}

(* The audit of a window: what was recognized there and what is missing. *)
MissingDispositions(l, policy, first, last) ==
    {k \in RecognizedOpportunities(l, policy) : k \in first..last /\ DispositionFor(l, k, policy) = {}}

LastCompleted(l, consumer) ==
    LET own == {l[k].last : k \in {c \in Positions(l, "checkpoint") : l[c].consumer = consumer}}
    IN CHOOSE n \in own \cup {0} : \A m \in own : m <= n

IsAllowedAccess(l, k) ==
    k \in Positions(l, "decision") /\ l[k].request.op = "telemetry" /\ Allowed(l[k])

(* The derived information has the exact lineage, binding, composition and  *)
(* access that the record cites.                                            *)
ValidGovernance(l, e) ==
    /\ \E n \in Lineage(l, e.info), b \in Binding(l, e.info) :
          n.sources = e.infos /\ b.lineage = n /\ b.policies = e.policies
    /\ Composition(l, e.info).policies = e.policies
    /\ IsAllowedAccess(l, e.access) /\ l[e.access].request.info = e.info

ValidSourceAccess(l, e) ==
    /\ Cardinality(e.receipts) = Cardinality(e.infos)
    /\ \A k \in e.receipts : k <= e.cut /\ IsAllowedAccess(l, k)
    /\ {l[k].request.info : k \in e.receipts} = e.infos

LegalDisposition(l, e) ==
    /\ e.head = Len(l) /\ e.source <= e.cut /\ e.cut <= e.head
    /\ e.source \in RecognizedOpportunities(l, e.policy)
    /\ e.infos = ToSet(l[e.source].infos)
    /\ ValidSourceAccess(l, e) /\ ValidGovernance(l, e)
    /\ DispositionFor(l, e.source, e.policy) = {}

LegalLink(l, e) ==
    /\ e.head = Len(l)
    /\ e.source \in Positions(l, "disposition")
    /\ e.event \in DOMAIN l /\ e.event > e.source
    /\ l[e.source].info \in e.infos
    /\ ValidGovernance(l, e)
    /\ e.type = "outcome" => OutcomeFor(l, e.source) = {}

(* A fact that a recorded policy recognizes must have a payload that the    *)
(* policy and its schema can read.                                          *)
LegalFact(l, e) ==
    e.payload = "malformed" =>
        \A k \in Positions(l, "source_policy") : e.kind \notin l[k].contract.kinds

Legal(l, e) ==
    CASE e.type = "source_policy" -> IsRecorded(l, SchemaRecorded(e.contract))
      [] e.type = "fact" -> LegalFact(l, e)
      [] e.type = "disposition" -> LegalDisposition(l, e)
      [] e.type \in {"outcome", "feedback"} -> LegalLink(l, e)
      [] e.type = "checkpoint" -> e.last >= LastCompleted(l, e.consumer) /\ e.observed >= e.last
      [] OTHER -> LegalGovernance(l, e)

-----------------------------------------------------------------------------
(* Histories, and what a scenario starts from.  The records of a lineage    *)
(* are equal, what is bound has policies, what a worker recognizes names    *)
(* its information (models.py:530), and a checkpoint passes nothing that    *)
(* was not observed.                                                        *)

IsLog(l) == l \in Seq(Range(l))

IsFact(e) ==
    /\ e.type = "fact" /\ IsLog(e.infos)
    /\ \A w \in Workers : e.kind \in SourcePolicy[w].kinds => e.infos # <<>>

GovernanceIsWellFormed(l) ==
    /\ \A m, n \in Recorded(l, "lineage") : m.info = n.info => m = n
    /\ \A b \in Recorded(l, "binding") : b.policies # {} /\ b.policies \subseteq KnownPolicies(l)
    /\ KnownPolicies(l) \subseteq DOMAIN Terms

OneDispositionEach(l) ==
    \A d, e \in Positions(l, "disposition") :
        /\ l[d].source \in RecognizedOpportunities(l, l[d].policy)
        /\ l[d].source = l[e].source /\ l[d].policy = l[e].policy => d = e

ObservedUpTo(l, policy, n) ==
    \A k \in RecognizedOpportunities(l, policy) : k <= n => DispositionFor(l, k, policy) # {}

WellFormed(l) ==
    /\ IsLog(l) /\ GovernanceIsWellFormed(l) /\ OneDispositionEach(l)
    /\ \A k \in Positions(l, "fact") : IsFact(l[k])
    /\ \A k \in Positions(l, "checkpoint") : l[k].last \in 0..Len(l)

ASSUME StartAssumption ==
    \A s \in Scenarios :
        /\ DOMAIN s = {"log", "facts", "steward", "workers", "says", "links", "requests", "crashes",
                      "passes"}
        /\ WellFormed(s.log)
        /\ \A w \in Workers : ObservedUpTo(s.log, SourcePolicy[w], LastCompleted(s.log, Consumer[w]))
        /\ IsLog(s.facts) /\ \A k \in DOMAIN s.facts : IsFact(s.facts[k])
        /\ \A e \in s.steward : e.type \in {"lineage", "binding", "quarantine"}
        /\ \A r \in s.links : r.kind \in {"outcome", "feedback"}
        /\ \A r \in s.requests : r.op = "declassify" => \E v \in r.proposed : r.proposed = {v}
        /\ s.crashes \in Nat /\ s.passes \in Nat

-----------------------------------------------------------------------------
(* Initial states: a history, the facts still to come in order, the events  *)
(* the steward may add, the processes that run, the links and requests, and *)
(* the number of crashes and of passes that find no new fact.               *)

Idle ==
    [pc |-> "idle", kind |-> "none", source |-> 0, seen |-> 0, known |-> 0, completed |-> 0,
     policy |-> "none", infos |-> {}, receipts |-> {}, cut |-> 0, body |-> "none", event |-> 0,
     info |-> <<>>, policies |-> {}, access |-> 0]

Init == \E s \in Scenarios :
    /\ log = s.log
    /\ left = [n \in DOMAIN s \ {"log"} |-> s[n]]
    /\ task = [p \in Processes |-> Idle]

(* The store returns the stored event when its identity is known already. *)
Emit(e) == log' = IF IsRecorded(log, e) THEN log ELSE Append(log, e)

Become(p, t) == task' = [task EXCEPT ![p] = t]

(* A call that raises ends, and keeps nothing but what it appended. *)
Raise(p) == Become(p, Idle)

-----------------------------------------------------------------------------
(* A worker's pass *)

(* Faulty variant: what the last checkpoint saw is taken as done. *)
HasNewsSinceObserved(w) ==
    \E k \in Positions(log, "fact") :
        \A c \in Positions(log, "checkpoint") : log[c].consumer = Consumer[w] => k > log[c].observed

(* A pass that finds no new fact could only add a checkpoint.               *)
HasNews(w) == \E k \in Positions(log, "fact") : k > LastCompleted(log, Consumer[w])

(* The contracts are emitted one by one, whatever is there already. *)
RegisterSchema(w) ==
    /\ task[w].pc = "idle" /\ w \in left.workers
    /\ ~IsRecorded(log, SchemaRecorded(SourcePolicy[w]))
    /\ Emit(SchemaRecorded(SourcePolicy[w]))
    /\ UNCHANGED <<left, task>>

RegisterPolicy(w) ==
    /\ task[w].pc = "idle" /\ w \in left.workers
    /\ IsRecorded(log, SchemaRecorded(SourcePolicy[w]))
    /\ ~IsRecorded(log, SourcePolicyRecorded(SourcePolicy[w]))
    /\ Emit(SourcePolicyRecorded(SourcePolicy[w]))
    /\ UNCHANGED <<left, task>>

(* Where the scan of the snapshot goes on after `completed`, from what is   *)
(* remembered alone: the next recognized source, to be observed or, when it *)
(* was, checkpointed; or the end of the snapshot, when its last events were *)
(* not for this worker; or the end of the pass.                             *)
ScanFrom(w, t) ==
    LET todo == {k \in (t.completed + 1)..t.seen : Recognizes(log, SourcePolicy[w], k)}
        k == CHOOSE n \in todo : \A m \in todo : n <= m
        observed == DispositionFor(SubSeq(log, 1, t.known), k, SourcePolicy[w]) # {}
    IN IF todo # {}
       THEN [t EXCEPT !.pc = IF observed THEN "checkpoint" ELSE "admit", !.source = k,
                      !.infos = ToSet(log[k].infos), !.receipts = {}]
       ELSE IF t.completed < t.seen THEN [t EXCEPT !.pc = "trail", !.source = t.seen]
       ELSE Idle

Snapshot(w) ==
    /\ task[w].pc = "idle" /\ w \in left.workers
    /\ IsRecorded(log, SourcePolicyRecorded(SourcePolicy[w]))
    /\ Become(w, ScanFrom(w, [Idle EXCEPT !.kind = "disposition", !.policy = SourcePolicy[w],
                                           !.seen = Len(log), !.known = Len(log),
                                           !.completed = LastCompleted(log, Consumer[w])]))
    /\ \/ HasNews(w) /\ UNCHANGED left
       \/ ~HasNews(w) /\ left.passes > 0 /\ left' = [left EXCEPT !.passes = @ - 1]
    /\ UNCHANGED log

(* Access to the next information of the source: an equal decision that      *)
(* still stands is reused, a new one must allow, a denial ends the pass.     *)
AdmitSource(w) ==
    LET infos == log[task[w].source].infos
        n == Cardinality(task[w].receipts) + 1
        Equal(decision) == {k \in Positions(log, "decision") :
            /\ log[k].request = decision.request /\ log[k].composition = decision.composition
            /\ log[k].reasons = decision.reasons /\ Allowed(log[k])}
    IN /\ task[w].pc = "admit" /\ n <= Len(infos)
       /\ \E decision \in {Decision(log, Telemetry(infos[n], task[w].source))} :
             \/ /\ \E k \in Equal(decision) : Become(w, [task[w] EXCEPT !.receipts = @ \cup {k}])
                /\ UNCHANGED log
             \/ /\ Allowed(decision) /\ Equal(decision) = {}
                /\ log' = Append(log, decision)
                /\ Become(w, [task[w] EXCEPT !.receipts = @ \cup {Len(log) + 1}])
             \/ /\ ~Allowed(decision)
                /\ Raise(w) /\ UNCHANGED log
       /\ UNCHANGED left

(* The opportunity is cut at the head, and the provider answers. *)
Decide(w) ==
    /\ task[w].pc = "admit" /\ Cardinality(task[w].receipts) = Len(log[task[w].source].infos)
    /\ \E body \in left.says :
          Become(w, [task[w] EXCEPT !.pc = "lineage", !.cut = Len(log), !.body = body,
                        !.info = <<"disposition", task[w].source, SourcePolicy[w].name>>])
    /\ UNCHANGED <<log, left>>

(* An existing record is returned if it says the same, else it is a conflict. *)
ReuseDisposition(w, d, t) ==
    IF log[d].body = t.body /\ log[d].cut = t.cut
    THEN Become(w, [t EXCEPT !.pc = "checkpoint"]) ELSE Raise(w)

(* The record may be there already when the provider has answered. *)
FindDisposition(w) ==
    /\ task[w].pc = "lineage" /\ task[w].kind = "disposition"
    /\ \E d \in DispositionFor(log, task[w].source, task[w].policy) : ReuseDisposition(w, d, task[w])
    /\ UNCHANGED <<log, left>>

-----------------------------------------------------------------------------
(* Recording: the same for dispositions, outcomes and feedback *)

(* Faulty variant: the lineage is recorded without a look for the other's. *)
EnsureOwnLineage(p) ==
    /\ task[p].pc = "lineage"
    /\ Emit(InformationLineage(task[p].info, task[p].infos, p))
    /\ Become(p, [task[p] EXCEPT !.pc = "compose"])
    /\ UNCHANGED left

(* The derived information has the sources of the record, whoever said so. *)
EnsureLineage(p) ==
    LET t == task[p]
    IN /\ t.pc = "lineage"
       /\ t.kind = "disposition" => DispositionFor(log, t.source, t.policy) = {}
       /\ \/ /\ Lineage(log, t.info) # {} /\ UNCHANGED log
             /\ IF \A n \in Lineage(log, t.info) : n.sources = t.infos
                THEN Become(p, [t EXCEPT !.pc = "compose"]) ELSE Raise(p)
          \/ /\ Lineage(log, t.info) = {}
             /\ IF \A i \in t.infos : Lineage(log, i) # {}
                THEN /\ log' = Append(log, InformationLineage(t.info, t.infos, p))
                     /\ Become(p, [t EXCEPT !.pc = "compose"])
                ELSE Raise(p) /\ UNCHANGED log
       /\ UNCHANGED left

(* The policies of every source, which must permit telemetry. *)
ComposeSources(p) ==
    LET t == task[p]
    IN /\ t.pc = "compose"
       /\ \E sources \in {{Composition(log, i) : i \in t.infos}} :
             IF \E c \in sources : ConflictsFor(c, "telemetry") # {}
             THEN Raise(p)
             ELSE Become(p, [t EXCEPT !.pc = "binding", !.policies = UNION {c.policies : c \in sources}])
       /\ UNCHANGED <<log, left>>

(* The derived information is bound to them, if it is not bound otherwise. *)
EnsureBinding(p) ==
    LET t == task[p]
        lineage == Only(Lineage(log, t.info))
    IN /\ t.pc = "binding"
       /\ \/ /\ Binding(log, t.info) = {}
             /\ log' = Append(log, PolicyBinding(t.info, lineage, t.policies, p))
             /\ Become(p, [t EXCEPT !.pc = "access"])
          \/ /\ Binding(log, t.info) # {} /\ UNCHANGED log
             /\ IF \A b \in Binding(log, t.info) : b.lineage = lineage /\ b.policies = t.policies
                THEN Become(p, [t EXCEPT !.pc = "access"]) ELSE Raise(p)
       /\ UNCHANGED left

(* Access to the derived information itself, never reused. *)
AdmitDerived(p) ==
    /\ task[p].pc = "access"
    /\ \E decision \in {Decision(log, Telemetry(task[p].info, task[p].source))} :
          IF Allowed(decision)
          THEN /\ log' = Append(log, decision)
               /\ Become(p, [task[p] EXCEPT !.pc = "record", !.access = Len(log) + 1])
          ELSE Raise(p) /\ UNCHANGED log
    /\ UNCHANGED left

(* The append is tried against a replay of the log before it is made. *)
AppendExact(p, candidate, next) ==
    IF Legal(log, candidate)
    THEN log' = Append(log, candidate) /\ Become(p, next)
    ELSE Raise(p) /\ UNCHANGED log

RecordDisposition(w) ==
    LET t == task[w]
        existing == DispositionFor(log, t.source, t.policy)
    IN /\ t.pc = "record" /\ t.kind = "disposition"
       /\ \/ /\ existing # {} /\ UNCHANGED log
             /\ \E d \in existing : ReuseDisposition(w, d, t)
          \/ /\ existing = {}
             /\ AppendExact(w, AttentionDispositionRecord(t, log), [t EXCEPT !.pc = "checkpoint"])
       /\ UNCHANGED left

(* Faulty variant: the checkpoint takes in whatever is in the log by then. *)
AdvanceToHead(w) ==
    LET t == task[w]
    IN /\ t.pc \in {"checkpoint", "trail"}
       /\ log' = Append(log, Checkpoint(Consumer[w], Len(log), Len(log)))
       /\ Become(w, IF t.pc = "trail" THEN Idle ELSE [t EXCEPT !.pc = "scan"])
       /\ UNCHANGED left

(* Only forward, and up to the observed event. *)
AdvanceCheckpoint(w) ==
    LET t == task[w]
        behind == LastCompleted(log, Consumer[w]) < t.source
    IN /\ t.pc \in {"checkpoint", "trail"}
       /\ log' = IF behind THEN Append(log, Checkpoint(Consumer[w], t.source, Len(log))) ELSE log
       /\ Become(w, IF t.pc = "trail" THEN Idle ELSE [t EXCEPT !.pc = "scan"])
       /\ UNCHANGED left

(* The scan goes on after the observed event with what is known by then. *)
ScanOn(w) ==
    /\ task[w].pc = "scan"
    /\ Become(w, ScanFrom(w, [task[w] EXCEPT !.completed = task[w].source, !.known = Len(log)]))
    /\ UNCHANGED <<log, left>>

-----------------------------------------------------------------------------
(* Observers *)

(* Link an outcome, or feedback, to a disposition: `event` is the event that *)
(* shows it, `extra` the information the observer adds to the lineage.       *)
StartLink(o) ==
    /\ task[o].pc = "idle"
    /\ \E d \in Positions(log, "disposition"), e \in Positions(log, "fact"), request \in left.links :
          LET t == [Idle EXCEPT !.pc = "lineage", !.kind = request.kind, !.source = d, !.event = e,
                                !.body = request.body, !.infos = {log[d].info} \cup request.extra,
                                !.info = IF request.kind = "outcome" THEN <<"outcome", d>>
                                         ELSE <<"feedback", d, e, request.body>>]
              existing == IF t.kind = "outcome" THEN OutcomeFor(log, d) ELSE FeedbackLike(log, t)
          IN /\ existing = {}
             /\ Become(o, t)
             /\ left' = [left EXCEPT !.links = @ \ {request}]
    /\ UNCHANGED log

(* An existing link is returned or is a conflict: either way the call ends. *)
RecordLink(o) ==
    LET t == task[o]
        existing == IF t.kind = "outcome" THEN OutcomeFor(log, t.source) ELSE FeedbackLike(log, t)
    IN /\ t.pc = "record" /\ t.kind \in {"outcome", "feedback"}
       /\ IF existing # {} THEN Become(o, Idle) /\ UNCHANGED log
          ELSE AppendExact(o, AttentionLink(t, log), Idle)
       /\ UNCHANGED left

-----------------------------------------------------------------------------
(* Clients of the governance admission *)

(* The decision, whatever it is, at the head it was evaluated at. *)
Admit(c) ==
    /\ task[c].pc = "idle"
    /\ \E r \in left.requests : \E decision \in {Decision(log, r)} :
          /\ log' = Append(log, decision)
          /\ left' = [left EXCEPT !.requests = @ \ {r}]
          /\ Become(c, IF r.op = "declassify" /\ Allowed(decision)
                       THEN [Idle EXCEPT !.pc = "view", !.access = Len(log) + 1] ELSE Idle)

AdmitDeclassifiedView(c) ==
    /\ task[c].pc = "view"
    /\ log' = Append(log, DeclassifiedDisclosureView(log, log[task[c].access]))
    /\ Become(c, Idle)
    /\ UNCHANGED left

-----------------------------------------------------------------------------
(* The environment *)

(* The next fact is recorded. *)
Publish ==
    /\ left.facts # <<>>
    /\ log' = Append(log, Head(left.facts))
    /\ left' = [left EXCEPT !.facts = Tail(@)]
    /\ UNCHANGED task

(* The steward records a lineage, a binding or a quarantine that is legal. *)
Govern ==
    /\ \E e \in left.steward :
          /\ Legal(log, e) /\ Emit(e)
          /\ left' = [left EXCEPT !.steward = @ \ {e}]
    /\ UNCHANGED task

(* A process stops, by a crash, a cancellation, or a provider or hook that  *)
(* raises, and forgets what it was doing.                                   *)
Crash(p) ==
    /\ left.crashes > 0 /\ task[p].pc # "idle"
    /\ Raise(p)
    /\ left' = [left EXCEPT !.crashes = @ - 1]
    /\ UNCHANGED log

Record(p) == EnsureLineage(p) \/ ComposeSources(p) \/ EnsureBinding(p) \/ AdmitDerived(p)

WorkerStep(w) ==
    \/ RegisterSchema(w) \/ RegisterPolicy(w) \/ Snapshot(w) \/ AdmitSource(w) \/ Decide(w)
    \/ FindDisposition(w) \/ Record(w) \/ RecordDisposition(w) \/ AdvanceCheckpoint(w)
    \/ ScanOn(w)

ObserverStep(o) == StartLink(o) \/ Record(o) \/ RecordLink(o)

ClientStep(c) == Admit(c) \/ AdmitDeclassifiedView(c)

Next ==
    \/ \E w \in Workers : WorkerStep(w)
    \/ \E o \in Observers : ObserverStep(o)
    \/ \E c \in Clients : ClientStep(c)
    \/ Publish \/ Govern
    \/ \E p \in Processes : Crash(p)

Spec == Init /\ [][Next]_vars

(* A worker's host calls it again while there is news, and its calls go on. *)
FairSpec == Spec /\ \A w \in Workers : WF_vars(WorkerStep(w))

-----------------------------------------------------------------------------
(* Properties *)

Stages == {"idle", "admit", "lineage", "compose", "binding", "access", "record",
           "checkpoint", "trail", "scan", "view"}

(* The shape of the state: what a process remembers of the log lies in it   *)
(* (service.py:737).                                                        *)
TypeOK ==
    /\ \A p \in Processes :
          /\ task[p].pc \in Stages
          /\ {task[p].source, task[p].seen, task[p].known, task[p].completed, task[p].cut, task[p].event,
              task[p].access} \subseteq 0..Len(log)
          /\ task[p].receipts \subseteq DOMAIN log
          /\ task[p].completed <= task[p].known
    /\ left.crashes \in Nat /\ left.passes \in Nat

(* A checkpoint never passes a recognized source that has no disposition,    *)
(* whoever crashed, conflicted or was refused on the way (service.py:776).   *)
CheckpointMeansObserved ==
    \A w \in Workers :
        MissingDispositions(log, SourcePolicy[w], 1, LastCompleted(log, Consumer[w])) = {}

(* Whatever is made of several sources is governed at least as strictly as   *)
(* each of them, as long as none is quarantined: its policies are theirs and *)
(* it is permitted nothing that one of them forbids (policy.py:392).         *)
DerivationOnlyTightens ==
    \A n \in Recorded(log, "lineage") :
        IsBound(log, n.info) /\ Quarantine(log, n.info) = {} /\ View(log, n.info) = {} =>
            \A i \in n.sources :
                IsBound(log, i) /\ Quarantine(log, i) = {} /\ View(log, i) = {} =>
                    LET made == Composition(log, n.info)
                        source == Composition(log, i)
                    IN /\ source.policies \subseteq made.policies /\ source.class <= made.class
                       /\ made.purposes \subseteq source.purposes
                       /\ made.recipients \subseteq source.recipients
                       /\ made.authorities \subseteq source.authorities

(* The provider is asked only about sources whose every information it was   *)
(* allowed to see at some head before the cut it decides on                  *)
(* (service.py:200).                                                         *)
DecidedOnAdmittedSources ==
    \A w \in Workers : task[w].pc = "lineage" =>
        {i \in ToSet(log[task[w].source].infos) :
            \A k \in 1..task[w].cut : ~(IsAllowedAccess(log, k) /\ log[k].request.info = i)} = {}

(* Information is used under all the policies it came with: what is derived  *)
(* keeps them, and no provider sees a source before its access is admitted   *)
(* (service.py:165).                                                         *)
GovernanceInv == DerivationOnlyTightens /\ DecidedOnAdmittedSources

(* Two records never speak of one opportunity, and none of a source outside  *)
(* its policy's denominator, so that the audit counts right (projection.py:  *)
(* 280).                                                                     *)
DenominatorIsExact == OneDispositionEach(log)

(* The exposure record up to a checkpoint is complete and counts each        *)
(* opportunity once (projection.py:audit).                                   *)
ObservationInv == TypeOK /\ CheckpointMeansObserved /\ DenominatorIsExact

(* Every event appended is one that replay accepts after those before it: a  *)
(* rejected one would stop every projection of this log for good             *)
(* (projection.py:185).                                                      *)
Replayable ==
    [][\A k \in (Len(log) + 1)..Len(log') : Legal(SubSeq(log', 1, k - 1), log'[k])]_vars

(* A source that cannot be observed: telemetry on its information, or on     *)
(* what is derived from it, is denied.                                       *)
Refused(w, k) ==
    LET derived == <<"disposition", k, SourcePolicy[w].name>>
    IN \/ \E i \in ToSet(log[k].infos) :
            Lineage(log, i) = {} \/ ~Allowed(Decision(log, Telemetry(i, k)))
       \/ Quarantine(log, derived) # {}

(* A worker that runs in the end observes every recognized source up to the  *)
(* first that is refused, despite conflicts with other workers and despite   *)
(* calls that end half way (service.py:754).                                 *)
EverythingIsObserved ==
    \A w \in Workers : w \in left.workers =>
        []<>(\A k \in RecognizedOpportunities(log, SourcePolicy[w]) :
                \/ DispositionFor(log, k, SourcePolicy[w]) # {}
                \/ \E j \in RecognizedOpportunities(log, SourcePolicy[w]) : j <= k /\ Refused(w, j))
=============================================================================
