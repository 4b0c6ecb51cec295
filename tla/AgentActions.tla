----------------------------- MODULE AgentActions -----------------------------
(***************************************************************************)
(* The actions of one AutonomousAgent (agent.py): how an intent that a     *)
(* cycle selected is authorized, waits for attention and for a slot, calls *)
(* its capability, and is recorded; and how a restarted agent rebuilds its *)
(* idempotency ledger and takes up what the log left unfinished.           *)
(*                                                                         *)
(* Two runs may work on one intent: the worker cycle that selected it, and *)
(* the recovery of a restarted agent.  When a run of a cycle raises, so    *)
(* does the gather that awaits the runs of that cycle, and the others go   *)
(* on with nobody to wait for them: orphans, which stop() does not see and *)
(* the next start() of the same process takes for unfinished.              *)
(*                                                                         *)
(* The log is the set of the events that recovery reads, by type and       *)
(* intent; the pairs of events that nothing tells apart (dispatched and    *)
(* started, reauthorized and recovery requested) are one.                  *)
(*                                                                         *)
(* Left out as data: deliberation, critics and policy (any intent may be   *)
(* proposed, any may be denied), the portfolio's scores, and the facts,    *)
(* events and reflections that follow an outcome.                          *)
(***************************************************************************)
EXTENDS Naturals, FiniteSets, FiniteSetsExt

CONSTANTS
  Intents,       \* intent ids
  KeyOf,         \* intent -> its idempotency_key, or NoKey
  NoKey,
  Idempotent,    \* intents of capabilities declared idempotent
  Reversible,    \* intents that are compensated when they fail
  Cost,          \* intent -> attention_cost
  Capacity,      \* attention_capacity
  Slots,         \* max_concurrent_actions
  MaxRetries,    \* max_retries of a capability
  LiveDuringStart,  \* whether triggers arrive while start() recovers
  MaxCrashes,    \* process crashes (bound)
  MaxFailures    \* emissions that raise (bound)

ASSUME AgentAssumption ==
  /\ Idempotent \subseteq Intents /\ Reversible \subseteq Intents
  /\ Cost \in [Intents -> Nat] /\ NoKey \notin Intents
  /\ Slots \in Nat \ {0}
  /\ {Capacity, MaxRetries, MaxCrashes, MaxFailures} \subseteq Nat
  /\ LiveDuringStart \in BOOLEAN
  /\ \A i \in Intents : Cost[i] <= Capacity

VARIABLES
  log,        \* lifecycle events: <<type, intent>>
  pc,         \* where the process is
  pending,    \* start(): unfinished intents left to recover
  task,       \* what each run of an intent is doing
  available,  \* AttentionAccount: attention left
  ledger,     \* _idempotency_ledger: keys that succeeded
  orphans,    \* intents whose cycle raised while they ran
  calls,      \* calls of each intent's capability
  contested,  \* history: intents that start() took for unfinished while they ran
  unread,     \* history: keys of successes that this process has only in its log
  spent       \* crashes and failures so far

vars == <<log, pc, pending, task, available, ledger, orphans, calls, contested, unread, spent>>

Runs == {"cycle", "recovery"}

Terminal == {"succeeded", "failed", "skipped", "compensated", "abandoned"}
Types == Terminal \cup {"authorized", "denied", "deferred", "dispatched", "reauthorized"}

\* The positions in which a run holds a slot, and those in which it holds attention.
Active == {"skipping", "dispatching", "ready", "calling", "succeeding", "succeeded",
           "failing", "compensating"}
Holding == Active \cup {"waiting"}

NoTask == [at |-> "none", attempt |-> 0]

Task == [at : Holding \cup {"none", "selected", "authorized"}, attempt : 0..(MaxRetries + 1)]

\* Type invariant; the slots and the ledger stay within what was configured and
\* recorded.
TypeOK ==
  /\ log \subseteq Types \X Intents
  /\ pc \in {"down", "started", "recovering", "running"}
  /\ pending \subseteq Intents
  /\ task \in [Intents \X Runs -> Task]
  /\ available \in 0..Capacity
  /\ ledger \subseteq {KeyOf[i] : i \in {j \in Intents : <<"succeeded", j>> \in log}}
  /\ orphans \subseteq Intents /\ contested \subseteq Intents
  /\ unread \subseteq {KeyOf[i] : i \in Intents}
  /\ calls \in [Intents -> Nat]
  /\ spent \in [crashes : 0..MaxCrashes, failures : 0..MaxFailures]
  /\ Cardinality({w \in Intents \X Runs : task[w].at \in Active}) <= Slots

Init ==
  /\ log = {}
  /\ pc = "down" /\ pending = {}
  /\ task = [w \in Intents \X Runs |-> NoTask]
  /\ available = Capacity /\ ledger = {} /\ orphans = {}
  /\ contested = {} /\ unread = {}
  /\ calls = [i \in Intents |-> 0]
  /\ spent = [crashes |-> 0, failures |-> 0]

Records(type, i) == log' = log \cup {<<type, i>>}

Moves(i, r, at) == task' = [task EXCEPT ![<<i, r>>].at = at]

\* Faulty variant: the lease is settled for nothing.
FinishesUnsettled(i, r) ==
  /\ task' = [task EXCEPT ![<<i, r>>] = NoTask]
  /\ available' = available

\* The run is over: its lease is settled and its slot is free.
Finishes(i, r) ==
  /\ task' = [task EXCEPT ![<<i, r>>] = NoTask]
  /\ available' = IF task[i, r].at \in Holding THEN available + Cost[i] ELSE available

Elsewhere == UNCHANGED <<pc, pending, orphans, contested, unread, spent>>

-----------------------------------------------------------------------------
\* _handle_trigger: the intents of a cycle.

\* Deliberation proposed the intent, and the portfolio took it within the
\* attention that is available.
Select(i) ==
  /\ pc = "running" \/ (LiveDuringStart /\ pc # "down")
  /\ task[i, "cycle"] = NoTask
  /\ {<<"authorized", i>>, <<"denied", i>>} \cap log = {}
  /\ Cost[i] <= available
  /\ Moves(i, "cycle", "selected")
  /\ UNCHANGED <<log, available, ledger, calls>> /\ Elsewhere

Authorize(i) ==
  /\ task[i, "cycle"].at = "selected"
  /\ Records("authorized", i)
  /\ Moves(i, "cycle", "authorized")
  /\ UNCHANGED <<available, ledger, calls>> /\ Elsewhere

Deny(i) ==
  /\ task[i, "cycle"].at = "selected"
  /\ Records("denied", i)
  /\ Moves(i, "cycle", "none")
  /\ UNCHANGED <<available, ledger, calls>> /\ Elsewhere

\* AttentionAccount.acquire.
Acquire(i, r) ==
  /\ task[i, r].at = "authorized"
  /\ Cost[i] <= available
  /\ available' = available - Cost[i]
  /\ Moves(i, r, "waiting")
  /\ UNCHANGED <<log, ledger, calls>> /\ Elsewhere

\* There is not enough: a cycle records the deferral, a recovery goes on.
Defer(i, r) ==
  /\ task[i, r].at = "authorized"
  /\ Cost[i] > available
  /\ IF r = "cycle" THEN Records("deferred", i) ELSE UNCHANGED log
  /\ Moves(i, r, "none")
  /\ UNCHANGED <<available, ledger, calls>> /\ Elsewhere

-----------------------------------------------------------------------------
\* _execute_with_lease and _execute_intent.

FreeSlot == Cardinality({w \in Intents \X Runs : task[w].at \in Active}) < Slots

\* A slot is free, and the ledger is consulted.
Enter(i, r) ==
  /\ task[i, r].at = "waiting"
  /\ FreeSlot
  /\ Moves(i, r, IF KeyOf[i] # NoKey /\ KeyOf[i] \in ledger
                 THEN "skipping" ELSE "dispatching")
  /\ UNCHANGED <<log, available, ledger, calls>> /\ Elsewhere

Skip(i, r) ==
  /\ task[i, r].at = "skipping"
  /\ Records("skipped", i)
  /\ Finishes(i, r)
  /\ UNCHANGED <<ledger, calls>> /\ Elsewhere

Dispatch(i, r) ==
  /\ task[i, r].at = "dispatching"
  /\ Records("dispatched", i)
  /\ Moves(i, r, "ready")
  /\ UNCHANGED <<available, ledger, calls>> /\ Elsewhere

Retries(i) == IF i \in Idempotent THEN MaxRetries ELSE 0

Call(i, r) ==
  /\ task[i, r].at = "ready"
  /\ task' = [task EXCEPT ![<<i, r>>] = [at |-> "calling", attempt |-> @.attempt + 1]]
  /\ calls' = [calls EXCEPT ![i] = @ + 1]
  /\ UNCHANGED <<log, available, ledger>> /\ Elsewhere

\* The call succeeds, fails for good, or fails in a way (a timeout is one) that
\* allows another attempt.
Return(i, r) ==
  /\ task[i, r].at = "calling"
  /\ \/ Moves(i, r, "succeeding")
     \/ Moves(i, r, "failing")
     \/ task[i, r].attempt <= Retries(i) /\ Moves(i, r, "ready")
  /\ UNCHANGED <<log, available, ledger, calls>> /\ Elsewhere

RecordSuccess(i, r) ==
  /\ task[i, r].at = "succeeding"
  /\ Records("succeeded", i)
  /\ Moves(i, r, "succeeded")
  /\ UNCHANGED <<available, ledger, calls>> /\ Elsewhere

\* Faulty variant: the success is recorded and not remembered.
Forgotten(i) == ledger

Remembered(i) == IF KeyOf[i] = NoKey THEN ledger ELSE ledger \cup {KeyOf[i]}

\* The ledger learns the key; facts and events of the result follow.
RememberKey(i, r) ==
  /\ task[i, r].at = "succeeded"
  /\ ledger' = Remembered(i)
  /\ Finishes(i, r)
  /\ UNCHANGED <<log, calls>> /\ Elsewhere

RecordFailure(i, r) ==
  /\ task[i, r].at = "failing"
  /\ Records("failed", i)
  /\ IF i \in Reversible
     THEN Moves(i, r, "compensating") /\ UNCHANGED available
     ELSE Finishes(i, r)
  /\ UNCHANGED <<ledger, calls>> /\ Elsewhere

Compensate(i, r) ==
  /\ task[i, r].at = "compensating"
  /\ Records("compensated", i)
  /\ Finishes(i, r)
  /\ UNCHANGED <<ledger, calls>> /\ Elsewhere

-----------------------------------------------------------------------------
\* start() and _restore_execution_state.

\* The workers run; the history is not read yet.  What the process remembers of
\* before its stop() is still there.
Start ==
  /\ pc = "down"
  /\ pc' = "started"
  /\ UNCHANGED <<log, pending, task, available, ledger, orphans, calls, contested, unread, spent>>

Authorized == {i \in Intents : <<"authorized", i>> \in log}
Settled == {i \in Intents : \E t \in Terminal : <<t, i>> \in log}
SucceededKeys ==
  {KeyOf[i] : i \in {j \in Intents : <<"succeeded", j>> \in log}} \ {NoKey}

\* The ledger has what the log has, and what the log left open is to be recovered.
Recovers(open) ==
  /\ pc = "started"
  /\ ledger' = ledger \cup SucceededKeys /\ unread' = {}
  /\ pending' = open
  /\ contested' = contested \cup {i \in open : task[i, "cycle"].at # "none"}
  /\ pc' = "recovering"
  /\ UNCHANGED <<log, task, available, orphans, calls, spent>>

\* Faulty variant: only what was never dispatched counts as unfinished.
RestoreUndispatched == Recovers({i \in Authorized \ Settled : <<"dispatched", i>> \notin log})

Restore == Recovers(Authorized \ Settled)

Free == \A i \in Intents : task[i, "recovery"] = NoTask

Recovering(i) ==
  /\ pc = "recovering" /\ Free /\ i \in pending
  /\ pending' = pending \ {i}
  /\ UNCHANGED <<pc, available, ledger, orphans, calls, contested, unread, spent>>

\* The capability is not idempotent, or is gone, or policy says no.
Abandon(i) ==
  /\ Recovering(i)
  /\ Records("abandoned", i)
  /\ UNCHANGED task

\* Faulty variant: whatever is unfinished is run again.
ReauthorizeAny(i) ==
  /\ Recovering(i)
  /\ Records("reauthorized", i)
  /\ Moves(i, "recovery", "authorized")

Reauthorize(i) ==
  /\ Recovering(i) /\ i \in Idempotent
  /\ Records("reauthorized", i)
  /\ Moves(i, "recovery", "authorized")

Recovered ==
  /\ pc = "recovering" /\ Free /\ pending = {}
  /\ pc' = "running"
  /\ UNCHANGED <<log, pending, task, available, ledger, orphans, calls, contested, unread, spent>>

-----------------------------------------------------------------------------
\* The end of a process, and failures.

\* The memory of the process is gone.
Loses ==
  /\ pc' = "down" /\ pending' = {}
  /\ task' = [w \in Intents \X Runs |-> NoTask]
  /\ available' = Capacity /\ ledger' = {} /\ orphans' = {}
  /\ unread' = SucceededKeys
  /\ UNCHANGED <<log, calls, contested>>

Crash ==
  /\ pc # "down"
  /\ spent.crashes < MaxCrashes
  /\ spent' = [spent EXCEPT !.crashes = @ + 1]
  /\ Loses

\* stop() waits for the cycles that its workers handle, and for nothing else.
Stop ==
  /\ pc = "running"
  /\ \A i \in Intents : task[i, "cycle"].at # "none" => i \in orphans
  /\ pc' = "down"
  /\ UNCHANGED <<log, pending, task, available, ledger, orphans, calls, contested, unread, spent>>

\* The process ends after stop().
Exit ==
  /\ pc = "down"
  /\ Loses
  /\ UNCHANGED spent

Fails ==
  /\ spent.failures < MaxFailures
  /\ spent' = [spent EXCEPT !.failures = @ + 1]

\* What a run may be about to record.
Record(i, r) ==
  CASE task[i, r].at = "selected"     -> {<<"authorized", i>>, <<"denied", i>>}
    [] task[i, r].at = "authorized"   ->
         IF r = "cycle" /\ Cost[i] > available THEN {<<"deferred", i>>} ELSE {}
    [] task[i, r].at = "skipping"     -> {<<"skipped", i>>}
    [] task[i, r].at = "dispatching"  -> {<<"dispatched", i>>}
    [] task[i, r].at = "succeeding"   -> {<<"succeeded", i>>}
    [] task[i, r].at = "failing"      -> {<<"failed", i>>}
    [] task[i, r].at = "compensating" -> {<<"compensated", i>>}
    [] OTHER -> {}

\* Runs that the cycle of a run may have started, too: the others of its gather.
Siblings(i, r) ==
  IF r = "cycle" /\ i \notin orphans
  THEN {j \in Intents \ {i} : task[j, "cycle"].at \in Holding} ELSE {}

\* The emission raises, before or after the append, or a fact or an event of a
\* success does.  The run is over; its cycle reports agent.cycle_failed and leaves
\* the other runs it started, a recovery leaves start(), with the workers running.
Raise(i, r) ==
  /\ Record(i, r) # {} \/ task[i, r].at = "succeeded"
  /\ Fails
  /\ log' \in {log} \cup {log \cup {e} : e \in Record(i, r)}
  /\ ledger' = IF task[i, r].at = "succeeded" THEN Remembered(i) ELSE ledger
  /\ unread' = IF <<"succeeded", i>> \in log' \ log THEN unread \cup {KeyOf[i]} ELSE unread
  /\ Finishes(i, r)
  /\ \E left \in SUBSET Siblings(i, r) : orphans' = orphans \cup left
  /\ IF r = "recovery" THEN pc' = "running" /\ pending' = {} ELSE UNCHANGED <<pc, pending>>
  /\ UNCHANGED <<calls, contested>>

\* start() raises outside a run, with or without what it was about to record.
StartRaises ==
  /\ pc \in {"started", "recovering"} /\ Free
  /\ Fails
  /\ log' \in {log} \cup {log \cup {<<"abandoned", i>>} : i \in pending}
                   \cup {log \cup {<<"reauthorized", i>>} : i \in pending \cap Idempotent}
  /\ pc' = "running" /\ pending' = {}
  /\ UNCHANGED <<task, available, ledger, orphans, calls, contested, unread>>

-----------------------------------------------------------------------------
_execute_intent(i, r) ==
  \/ Enter(i, r) \/ Skip(i, r) \/ Dispatch(i, r) \/ Call(i, r) \/ Return(i, r)
  \/ RecordSuccess(i, r) \/ RememberKey(i, r) \/ RecordFailure(i, r) \/ Compensate(i, r)

_execute_with_lease(i, r) == Acquire(i, r) \/ Defer(i, r) \/ _execute_intent(i, r)

_handle_trigger(i) == Authorize(i) \/ Deny(i)

_restore_execution_state(i) == Abandon(i) \/ Reauthorize(i)

Next ==
  \/ Start \/ Restore \/ Recovered \/ StartRaises \/ Stop \/ Exit \/ Crash
  \/ \E i \in Intents :
       \/ Select(i) \/ _handle_trigger(i) \/ _restore_execution_state(i)
       \/ \E r \in Runs : _execute_with_lease(i, r) \/ Raise(i, r)

\* The event loop runs every task, a capability returns or times out, and a
\* supervisor starts the agent again.
Fairness ==
  /\ WF_vars(Start) /\ WF_vars(Restore) /\ WF_vars(Recovered)
  /\ \A i \in Intents :
       /\ WF_vars(_handle_trigger(i)) /\ WF_vars(_restore_execution_state(i))
       /\ \A r \in Runs : WF_vars(_execute_with_lease(i, r))

Spec == Init /\ [][Next]_vars
FairSpec == Spec /\ Fairness

-----------------------------------------------------------------------------
\* Properties.

Contract == INSTANCE EffectContract WITH
  authorized <- Authorized, settled <- Settled, contested <- contested, attempts <- calls

\* AUTONOMY.md, "Recovery and effect safety": whatever crashes, raises and is left
\* running, an action is attempted only while it is authorized and unsettled in
\* the log, and one whose capability is not idempotent at most once
\* (agent.py:_execute_intent and _restore_execution_state together).  An action
\* may outlive its settlement only if start() took it for unfinished while it ran,
\* which needs an emission that raised, or triggers during start().
ImplementsContract ==
  /\ Contract!Spec
  /\ [](contested # {} => LiveDuringStart \/ spent.failures > 0)

\* README, "durable action lifecycle events restore completed idempotency keys":
\* no action is dispatched under a key whose success is in the log, before or
\* after a restart, with any number of slots, but for two windows: the run that
\* succeeded has not written the ledger yet, or the process never saw the
\* success (its emission raised, or the history is not read).
SucceededKeysAreSkipped ==
  [][\A i \in Intents, r \in Runs :
       /\ task[i, r].at # "dispatching" /\ task'[i, r].at = "dispatching"
       /\ KeyOf[i] \in SucceededKeys
       => \/ \E j \in Intents, s \in Runs :
                 task[j, s].at = "succeeded" /\ KeyOf[j] = KeyOf[i]
          \/ KeyOf[i] \in unread]_vars

\* AttentionAccount: what is not available is held by runs that will settle it,
\* through failures and recoveries; no lease leaks.
AttentionIsConserved ==
  available + MapThenSumSet(LAMBDA w : Cost[w[1]],
                            {w \in Intents \X Runs : task[w].at \in Holding}) = Capacity

\* The attention that a reachable state lacks is the attention its runs hold.
AttentionInv == TypeOK /\ AttentionIsConserved

\* In the end no authorized action is left without an outcome that the log
\* records, or a deferral, unless an emission raised; crashes only delay it.
AuthorizedIsSettled ==
  <>[](\A i \in Authorized : i \in Settled \/ <<"deferred", i>> \in log \/ spent.failures > 0)
=============================================================================
