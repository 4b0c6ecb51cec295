-------------------------- MODULE AgentActionsProofs --------------------------
(***************************************************************************)
(* The effects of an agent keep EffectContract, its attention is conserved *)
(* and what has succeeded is not dispatched again, for every number of     *)
(* intents, slots, retries, crashes and failures, with or without triggers *)
(* that arrive while start() recovers.                                     *)
(*                                                                         *)
(* The contract.  An intent is in one place at a time, in a cycle, in the  *)
(* hands of the recovery or among what the recovery has left to do, unless *)
(* it is contested: start() found it unfinished in the log while its cycle *)
(* ran on.  Whoever is about to call the capability finds the              *)
(* authorization in the log, and no outcome of an intent that is not       *)
(* contested.  An intent that is not idempotent is never recovered, and    *)
(* its cycle calls once.                                                   *)
(*                                                                         *)
(* The account.  What is leased is a sum over the set of the runs that     *)
(* hold attention, and a step changes one run or empties the set.  The     *)
(* sum's value is shown by the least counterexample among the subsets.     *)
(*                                                                         *)
(* The ledger.  It has every key that succeeded, but for those of runs in  *)
(* their slot that are about to add it, and those that the process has     *)
(* never seen.                                                             *)
(***************************************************************************)
EXTENDS AgentActions, FiniteSetTheorems, TLAPS

Positions == Holding \cup {"none", "selected", "authorized"}

\* Positions between the authorization and the outcome, after the outcome, and
\* before the first call.
Underway == {"authorized", "waiting", "skipping", "dispatching", "ready", "calling",
             "succeeding", "failing"}
Over == {"succeeded", "compensating"}
Untried == {"selected", "authorized", "waiting", "skipping", "dispatching", "ready"}

\* Tasks, whatever the number of attempts.
AnyTask == [at : Positions, attempt : Nat]

Typed ==
  /\ log \subseteq Types \X Intents
  /\ pc \in {"down", "started", "recovering", "running"}
  /\ pending \subseteq Intents
  /\ task \in [Intents \X Runs -> AnyTask]
  /\ calls \in [Intents -> Nat]

\* One recovery at a time, in a process that recovers.
RecoveriesHaveTheirTime ==
  /\ \A i \in Intents : task[i, "recovery"].at # "none" => pc = "recovering"
  /\ \A i, j \in Intents :
       task[i, "recovery"].at # "none" /\ task[j, "recovery"].at # "none" => i = j

\* The log has the authorization, and no outcome that settles the matter.
IsOpen(i) == i \in Authorized /\ (i \notin Settled \/ i \in contested)

\* What the log says of an intent that a run has at some position.
LogAgrees ==
  \A i \in Intents, r \in Runs :
    /\ task[i, r].at \in Underway => IsOpen(i)
    /\ task[i, r].at \in Over => i \in Authorized
    /\ task[i, r].at = "selected" => r = "cycle" /\ i \notin Authorized
    /\ task[i, r].at = "calling" => task[i, r].attempt > 0

\* Before its authorization nothing happens to an intent.
NothingBefore ==
  \A i \in Intents : i \notin Authorized => calls[i] = 0 /\ i \notin Settled

\* What must not be repeated is not recovered, and not called before the call.
CalledOnce ==
  \A i \in Intents \ Idempotent :
    /\ task[i, "recovery"].at = "none"
    /\ task[i, "cycle"].at \in Untried => calls[i] = 0

\* What the recovery has left to do.
LeftToRecover ==
  \A i \in pending :
    pc = "recovering" /\ task[i, "recovery"].at = "none" /\ IsOpen(i)

\* A recovery does not touch what a cycle has, but for what is contested.
Apart ==
  /\ contested \subseteq Authorized
  /\ \A i \in Intents : task[i, "cycle"].at # "none" =>
       i \in contested \/ (task[i, "recovery"].at = "none" /\ i \notin pending)

ContractInv ==
  /\ Typed /\ RecoveriesHaveTheirTime /\ LogAgrees /\ NothingBefore /\ CalledOnce
  /\ LeftToRecover /\ Apart

-----------------------------------------------------------------------------
\* What the pieces of an action do.

\* An event adds its intent to what its type says.
LEMMA RecordsFacts ==
  ASSUME NEW i \in Intents, NEW t \in Types, log \subseteq Types \X Intents,
         log' = log \cup {<<t, i>>}
  PROVE  /\ log' \subseteq Types \X Intents
         /\ Authorized' = IF t = "authorized" THEN Authorized \cup {i} ELSE Authorized
         /\ Settled' = IF t \in Terminal THEN Settled \cup {i} ELSE Settled
<1>1. \A j \in Intents : \A u : <<u, j>> \in log' <=> <<u, j>> \in log \/ (u = t /\ j = i)
  OBVIOUS
<1>2. Authorized' = IF t = "authorized" THEN Authorized \cup {i} ELSE Authorized
  BY <1>1 DEF Authorized
<1>3. Settled' = IF t \in Terminal THEN Settled \cup {i} ELSE Settled
  BY <1>1 DEF Settled
<1> QED BY <1>2, <1>3

\* Without an event neither changes.
LEMMA LogKept == log' = log => Authorized' = Authorized /\ Settled' = Settled
BY DEF Authorized, Settled

\* A run moves and the others stay.
LEMMA MovesFacts ==
  ASSUME NEW i \in Intents, NEW r \in Runs, NEW at \in Positions,
         task \in [Intents \X Runs -> AnyTask], Moves(i, r, at)
  PROVE  /\ task' \in [Intents \X Runs -> AnyTask]
         /\ task'[i, r].at = at /\ task'[i, r].attempt = task[i, r].attempt
         /\ \A j \in Intents, s \in Runs : j # i \/ s # r => task'[j, s] = task[j, s]
<1>1. <<i, r>> \in Intents \X Runs /\ task[i, r] \in AnyTask
  OBVIOUS
<1>2. [task[i, r] EXCEPT !.at = at] \in AnyTask
  BY <1>1 DEF AnyTask
<1>3. task' = [task EXCEPT ![<<i, r>>] = [task[i, r] EXCEPT !.at = at]]
  BY DEF Moves
<1>4. task'[i, r] = [task[i, r] EXCEPT !.at = at]
  BY <1>1, <1>3
<1>5. task'[i, r].at = at /\ task'[i, r].attempt = task[i, r].attempt
  BY <1>1, <1>4 DEF AnyTask
<1> QED BY <1>1, <1>2, <1>3, <1>5

\* A run ends and the others stay.
LEMMA FinishesFacts ==
  ASSUME NEW i \in Intents, NEW r \in Runs,
         task \in [Intents \X Runs -> AnyTask], Finishes(i, r)
  PROVE  /\ task' \in [Intents \X Runs -> AnyTask]
         /\ task'[i, r].at = "none"
         /\ \A j \in Intents, s \in Runs : j # i \/ s # r => task'[j, s] = task[j, s]
<1>1. <<i, r>> \in Intents \X Runs
  OBVIOUS
<1>2. NoTask \in AnyTask
  BY DEF NoTask, AnyTask, Positions
<1>3. task' = [task EXCEPT ![<<i, r>>] = NoTask]
  BY DEF Finishes
<1> QED BY <1>1, <1>2, <1>3 DEF NoTask

-----------------------------------------------------------------------------
\* One run takes a step.

\* What an action does to the tasks when it ends in Moves or Finishes.
Others(i, r) == \A j \in Intents, s \in Runs : j # i \/ s # r => task'[j, s] = task[j, s]

\* The invariant about one run.
RunInv(i, r) ==
  /\ task[i, r].at \in Underway => IsOpen(i)
  /\ task[i, r].at \in Over => i \in Authorized
  /\ task[i, r].at = "selected" => r = "cycle" /\ i \notin Authorized
  /\ task[i, r].at = "calling" => task[i, r].attempt > 0
  /\ i \notin Authorized => calls[i] = 0 /\ i \notin Settled
  /\ i \notin Idempotent =>
       /\ r = "recovery" => task[i, r].at = "none"
       /\ task[i, r].at \in Untried => calls[i] = 0

\* No other run has the intent, and the recovery will not take it, or it is contested.
AloneOrContested(i, r) ==
  \/ i \in contested
  \/ i \notin pending /\ \A s \in Runs : s # r => task[i, s].at = "none"

\* Where a run is says where the process is.
LEMMA RunFacts ==
  ASSUME ContractInv, NEW i \in Intents, NEW r \in Runs, task[i, r].at # "none"
  PROVE  /\ r = "recovery" => pc = "recovering" /\ i \notin pending /\ i \in Idempotent
         /\ AloneOrContested(i, r)
         /\ RunInv(i, r)
<1>1. r = "recovery" => pc = "recovering" /\ i \notin pending /\ i \in Idempotent
  BY DEF ContractInv, RecoveriesHaveTheirTime, CalledOnce, LeftToRecover
<1>2. AloneOrContested(i, r)
  BY DEF ContractInv, Apart, AloneOrContested, LeftToRecover, Runs
<1>3. RunInv(i, r)
  BY DEF ContractInv, LogAgrees, NothingBefore, CalledOnce, RunInv, Runs
<1> QED BY <1>1, <1>2, <1>3

\* A step of one run keeps the invariant if it keeps what it says of that run.
LEMMA RunStep ==
  ASSUME ContractInv, NEW i \in Intents, NEW r \in Runs,
         contested' = contested, pending' \subseteq pending,
         pending' # {} => pc' = "recovering", RecoveriesHaveTheirTime', Typed',
         Others(i, r),
         \A j \in Intents : j # i => calls'[j] = calls[j],
         \A j \in Intents : j # i => (j \in Authorized' <=> j \in Authorized),
         \A j \in Intents : j # i => (j \in Settled' <=> j \in Settled),
         i \in Authorized => i \in Authorized',
         i \in contested \/ (i \notin pending' /\ \A s \in Runs : s # r => task[i, s].at = "none"),
         r = "recovery" => /\ i \notin pending'
                           /\ i \in Authorized
                           /\ i \in Idempotent \/ calls'[i] = calls[i],
         RunInv(i, r)'
  PROVE  ContractInv'
<1>1. \A j \in Intents, s \in Runs : j # i => task'[j, s] = task[j, s]
  BY DEF Others
<1>2. \A s \in Runs : s # r => task'[i, s] = task[i, s]
  BY DEF Others
<1>3. contested \subseteq Authorized /\ contested \subseteq Authorized'
  <2>1. contested \subseteq Authorized /\ Authorized \subseteq Intents
    BY DEF ContractInv, Apart, Authorized
  <2> QED BY <2>1
<1>4. \A j \in Intents : j # i => (IsOpen(j)' <=> IsOpen(j))
  BY DEF IsOpen
<1>5. LogAgrees'
  <2>. SUFFICES ASSUME NEW j \in Intents, NEW s \in Runs
                PROVE  /\ task'[j, s].at \in Underway => IsOpen(j)'
                       /\ task'[j, s].at \in Over => j \in Authorized'
                       /\ task'[j, s].at = "selected" => s = "cycle" /\ j \notin Authorized'
                       /\ task'[j, s].at = "calling" => task'[j, s].attempt > 0
    BY DEF LogAgrees
  <2>1. CASE s # r /\ j = i
    <3>1. CASE task[i, s].at = "none"
      BY <1>2, <2>1, <3>1 DEF Underway, Over
    <3>2. CASE i \in contested
      <4>1. IsOpen(i)' /\ i \in Authorized
        BY <1>3, <3>2 DEF IsOpen
      <4>2. task[i, s].at # "selected"
        BY <4>1 DEF ContractInv, LogAgrees
      <4>3. task[i, s].at = "calling" => task[i, s].attempt > 0
        BY DEF ContractInv, LogAgrees
      <4> QED BY <1>2, <1>3, <2>1, <3>2, <4>1, <4>2, <4>3
    <3> QED BY <2>1, <3>1, <3>2
  <2>2. CASE s = r /\ j = i
    BY <2>2 DEF RunInv
  <2>3. CASE j # i
    BY <1>1, <1>4, <2>3 DEF ContractInv, LogAgrees
  <2> QED BY <2>1, <2>2, <2>3
<1>6. NothingBefore'
  <2>. SUFFICES ASSUME NEW j \in Intents, j \notin Authorized'
                PROVE  calls'[j] = 0 /\ j \notin Settled'
    BY DEF NothingBefore
  <2>1. CASE j = i
    BY <2>1 DEF RunInv
  <2>2. CASE j # i
    BY <2>2 DEF ContractInv, NothingBefore
  <2> QED BY <2>1, <2>2
<1>7. CalledOnce'
  <2>. SUFFICES ASSUME NEW j \in Intents \ Idempotent
                PROVE  /\ task'[j, "recovery"].at = "none"
                       /\ task'[j, "cycle"].at \in Untried => calls'[j] = 0
    BY DEF CalledOnce
  <2>0. /\ task[j, "recovery"].at = "none" /\ (task[j, "cycle"].at \in Untried => calls[j] = 0)
        /\ "cycle" \in Runs /\ "recovery" \in Runs
    BY DEF ContractInv, CalledOnce, Runs
  <2>1. CASE j = i /\ r = "cycle"
    BY <1>2, <2>0, <2>1 DEF RunInv
  <2>2. CASE j = i /\ r = "recovery"
    BY <1>2, <2>0, <2>2 DEF RunInv
  <2>3. CASE j # i
    BY <1>1, <2>0, <2>3
  <2> QED BY <2>1, <2>2, <2>3 DEF Runs
<1>8. LeftToRecover'
  <2>. SUFFICES ASSUME NEW j \in pending'
                PROVE  pc' = "recovering" /\ task'[j, "recovery"].at = "none" /\ IsOpen(j)'
    BY DEF LeftToRecover
  <2>0. /\ j \in Intents /\ task[j, "recovery"].at = "none" /\ IsOpen(j)
        /\ "recovery" \in Runs /\ pc' = "recovering"
    BY DEF ContractInv, LeftToRecover, Typed, Runs
  <2>1. CASE j = i
    <3>1. i \in contested /\ r # "recovery"
      BY <2>1
    <3> QED BY <1>2, <1>3, <2>0, <2>1, <3>1 DEF IsOpen
  <2>2. CASE j # i
    BY <1>1, <1>4, <2>0, <2>2
  <2> QED BY <2>1, <2>2
<1>9. Apart'
  <2>1. ASSUME NEW j \in Intents, task'[j, "cycle"].at # "none"
        PROVE  j \in contested \/ (task'[j, "recovery"].at = "none" /\ j \notin pending')
    <3>0. "cycle" \in Runs /\ "recovery" \in Runs
      BY DEF Runs
    <3>1. CASE j # i
      BY <1>1, <2>1, <3>0, <3>1 DEF ContractInv, Apart
    <3>2. CASE j = i /\ r = "cycle"
      <4>1. task'[i, "recovery"] = task[i, "recovery"]
        BY <1>2, <3>0, <3>2
      <4>2. i \in contested \/ (i \notin pending' /\ task[i, "recovery"].at = "none")
        BY <3>0, <3>2
      <4> QED BY <3>2, <4>1, <4>2
    <3>3. CASE j = i /\ r = "recovery"
      <4>1. task'[i, "cycle"] = task[i, "cycle"]
        BY <1>2, <3>0, <3>3
      <4>2. i \in contested \/ task[i, "cycle"].at = "none"
        BY <3>0, <3>3
      <4> QED BY <2>1, <3>3, <4>1, <4>2
    <3> QED BY <3>1, <3>2, <3>3 DEF Runs
  <2> QED BY <1>3, <2>1 DEF Apart
<1> QED BY <1>5, <1>6, <1>7, <1>8, <1>9 DEF ContractInv

\* A run goes on and the process with it, or a recovery ends and start() with it.
Stays(i, r) ==
  \/ pc' = pc /\ pending' = pending
  \/ r = "recovery" /\ task'[i, r].at = "none" /\ pc' = "running" /\ pending' = {}

LEMMA StaysFacts ==
  ASSUME ContractInv, NEW i \in Intents, NEW r \in Runs, task[i, r].at # "none",
         Others(i, r), Stays(i, r)
  PROVE  /\ pending' \subseteq pending /\ pending' \subseteq Intents
         /\ pc' \in {"down", "started", "recovering", "running"}
         /\ pending' # {} => pc' = "recovering"
         /\ RecoveriesHaveTheirTime'
<1>1. /\ pending' \subseteq pending /\ pending' \subseteq Intents
      /\ pc' \in {"down", "started", "recovering", "running"}
      /\ pending' # {} => pc' = "recovering"
  BY DEF Stays, ContractInv, Typed, LeftToRecover
<1>2. \A j \in Intents : task'[j, "recovery"].at # "none" => task[j, "recovery"].at # "none"
  <2>1. \A j \in Intents : j # i \/ r # "recovery" => task'[j, "recovery"] = task[j, "recovery"]
    BY DEF Others, Runs
  <2> QED BY <2>1
<1>3. CASE pc' = pc /\ pending' = pending
  BY <1>1, <1>2, <1>3 DEF ContractInv, RecoveriesHaveTheirTime
<1>4. CASE r = "recovery" /\ task'[i, r].at = "none"
  <2>1. \A j \in Intents : task[j, "recovery"].at # "none" => j = i
    BY <1>4 DEF ContractInv, RecoveriesHaveTheirTime
  <2>2. ASSUME NEW j \in Intents PROVE task'[j, "recovery"].at = "none"
    BY <1>2, <1>4, <2>1
  <2> QED BY <1>1, <2>2 DEF RecoveriesHaveTheirTime
<1> QED BY <1>1, <1>3, <1>4 DEF Stays

\* What EffectContract allows.
LEMMA Promise ==
  ASSUME NEW i \in Intents, UNCHANGED contested,
         \/ UNCHANGED <<Authorized, Settled, calls>>
         \/ Authorized' = Authorized \cup {i} /\ UNCHANGED <<Settled, calls>>
         \/ /\ IsOpen(i)
            /\ i \in Idempotent \/ calls[i] = 0
            /\ calls' = [calls EXCEPT ![i] = @ + 1]
            /\ UNCHANGED <<Authorized, Settled>>
         \/ i \in Authorized /\ Settled' = Settled \cup {i} /\ UNCHANGED <<Authorized, calls>>
  PROVE  [Contract!Next]_Contract!vars
BY DEF IsOpen, Contract!Next, Contract!vars, Contract!Authorize, Contract!Attempt,
       Contract!Settle

-----------------------------------------------------------------------------
\* Every action keeps the invariant and does what EffectContract allows.

Kept == ContractInv' /\ [Contract!Next]_Contract!vars

\* A run that moves or ends without recording anything or calling.
LEMMA QuietStep ==
  ASSUME ContractInv, NEW i \in Intents, NEW r \in Runs, NEW at \in Positions,
         task[i, r].at # "none", UNCHANGED <<log, calls, contested>>,
         task' \in [Intents \X Runs -> AnyTask], task'[i, r].at = at,
         Others(i, r), Stays(i, r),
         \/ at = "none"
         \/ task[i, r].at \in Untried /\ at \in Untried /\ task[i, r].at # "selected"
            /\ at # "selected"
         \/ task[i, r].at = "calling" /\ at \in {"succeeding", "failing"}
         \/ task[i, r].at = "calling" /\ at = "ready" /\ i \in Idempotent
  PROVE  Kept
<1>1. /\ RunInv(i, r) /\ AloneOrContested(i, r)
      /\ r = "recovery" => i \notin pending /\ i \in Idempotent
  BY RunFacts
<1>2. Authorized' = Authorized /\ Settled' = Settled
  BY LogKept
<1>3. RunInv(i, r)'
  BY <1>1, <1>2 DEF RunInv, IsOpen, Underway, Over, Untried
<1>4. /\ pending' \subseteq pending /\ (pending' # {} => pc' = "recovering")
      /\ RecoveriesHaveTheirTime' /\ Typed'
  BY StaysFacts DEF ContractInv, Typed
<1>5. r = "recovery" => i \in Authorized
  BY <1>1 DEF RunInv, Underway, Over, IsOpen, ContractInv, Typed, AnyTask, Positions, Holding, Active
<1>6. ContractInv'
  BY <1>1, <1>2, <1>3, <1>4, <1>5, RunStep DEF AloneOrContested
<1>7. [Contract!Next]_Contract!vars
  BY <1>2, Promise
<1> QED BY <1>6, <1>7 DEF Kept

\* A run that records an event and moves or ends.
LEMMA RecordedStep ==
  ASSUME ContractInv, NEW i \in Intents, NEW r \in Runs, NEW t \in Types,
         task[i, r].at # "none", Records(t, i), UNCHANGED <<calls, contested>>,
         task' \in [Intents \X Runs -> AnyTask], Others(i, r), Stays(i, r),
         \/ task'[i, r].at = "none" /\ (t # "authorized" \/ task[i, r].at = "selected")
         \/ task[i, r].at = "selected" /\ t = "authorized" /\ task'[i, r].at = "authorized"
         \/ task[i, r].at = "dispatching" /\ t = "dispatched" /\ task'[i, r].at = "ready"
         \/ t \in Terminal /\ task'[i, r].at \in Over,
         t \in Terminal => i \in Authorized
  PROVE  Kept
<1>1. /\ RunInv(i, r) /\ AloneOrContested(i, r)
      /\ r = "recovery" => i \notin pending /\ i \in Idempotent
  BY RunFacts
<1>2. /\ log' \subseteq Types \X Intents
      /\ Authorized' = IF t = "authorized" THEN Authorized \cup {i} ELSE Authorized
      /\ Settled' = IF t \in Terminal THEN Settled \cup {i} ELSE Settled
  BY RecordsFacts DEF Records, ContractInv, Typed
<1>3. "authorized" \notin Terminal /\ "dispatched" \notin Terminal
  BY DEF Terminal
<1>4. RunInv(i, r)'
  <2>1. CASE task'[i, r].at = "none"
    BY <1>1, <1>2, <1>3, <2>1 DEF RunInv, IsOpen, Underway, Over, Untried
  <2>2. CASE task[i, r].at = "selected" /\ t = "authorized" /\ task'[i, r].at = "authorized"
    BY <1>1, <1>2, <1>3, <2>2 DEF RunInv, IsOpen, Underway, Over, Untried
  <2>3. CASE task[i, r].at = "dispatching" /\ t = "dispatched" /\ task'[i, r].at = "ready"
    BY <1>1, <1>2, <1>3, <2>3 DEF RunInv, IsOpen, Underway, Over, Untried
  <2>4. CASE t \in Terminal /\ task'[i, r].at \in Over
    BY <1>1, <1>2, <1>3, <2>4 DEF RunInv, IsOpen, Underway, Over, Untried
  <2> QED BY <2>1, <2>2, <2>3, <2>4
<1>5. /\ pending' \subseteq pending /\ (pending' # {} => pc' = "recovering")
      /\ RecoveriesHaveTheirTime' /\ Typed'
  BY <1>2, StaysFacts DEF ContractInv, Typed
<1>6. /\ \A j \in Intents : j # i => calls'[j] = calls[j]
      /\ \A j \in Intents : j # i => (j \in Authorized' <=> j \in Authorized)
      /\ \A j \in Intents : j # i => (j \in Settled' <=> j \in Settled)
      /\ i \in Authorized => i \in Authorized'
  BY <1>2
<1>7. r = "recovery" => i \in Authorized
  BY <1>1 DEF RunInv, Underway, Over, IsOpen, ContractInv, Typed, AnyTask, Positions, Holding, Active
<1>8. ContractInv'
  BY <1>1, <1>4, <1>5, <1>6, <1>7, RunStep DEF AloneOrContested
<1>9. [Contract!Next]_Contract!vars
  <2>1. CASE t = "authorized"
    BY <1>2, <1>3, <2>1, Promise
  <2>2. CASE t \in Terminal
    BY <1>2, <1>3, <2>2, Promise
  <2>3. CASE t # "authorized" /\ t \notin Terminal
    BY <1>2, <2>3, Promise
  <2> QED BY <2>1, <2>2, <2>3
<1> QED BY <1>8, <1>9 DEF Kept

\* Attempts are counted from zero.
LEMMA Counting ==
  \A n \in Nat : n + 1 \in Nat /\ n + 1 > 0 /\ ~(n > 0 /\ n <= 0)
OBVIOUS

\* One more call of one intent.
LEMMA CallsFacts ==
  ASSUME NEW i \in Intents, calls \in [Intents -> Nat], calls' = [calls EXCEPT ![i] = @ + 1]
  PROVE  /\ calls' \in [Intents -> Nat]
         /\ \A j \in Intents : j # i => calls'[j] = calls[j]
OBVIOUS

\* The capability is called.
LEMMA CallKept ==
  ASSUME ContractInv, NEW i \in Intents, NEW r \in Runs, Call(i, r)
  PROVE  Kept
<1>1. /\ task[i, r].at = "ready" /\ RunInv(i, r) /\ AloneOrContested(i, r)
      /\ r = "recovery" => i \notin pending /\ i \in Idempotent
      /\ UNCHANGED <<log, pc, pending, contested>>
  BY RunFacts DEF Call, Elsewhere
<1>2. Authorized' = Authorized /\ Settled' = Settled
  BY LogKept DEF Call
<1>3. /\ task \in [Intents \X Runs -> AnyTask] /\ calls \in [Intents -> Nat]
      /\ <<i, r>> \in Intents \X Runs /\ task[i, r].attempt \in Nat
  BY DEF ContractInv, Typed, AnyTask
<1>4. task' = [task EXCEPT ![<<i, r>>] = [at |-> "calling", attempt |-> task[i, r].attempt + 1]]
  BY DEF Call
<1>5. [at |-> "calling", attempt |-> task[i, r].attempt + 1] \in AnyTask
  <2>1. "calling" \in Positions
    BY DEF Positions, Holding, Active
  <2>2. task[i, r].attempt + 1 \in Nat
    BY <1>3, Counting
  <2> QED BY <2>1, <2>2 DEF AnyTask
<1>6. /\ task' \in [Intents \X Runs -> AnyTask]
      /\ task'[i, r].at = "calling" /\ task'[i, r].attempt > 0
      /\ Others(i, r)
  BY <1>3, <1>4, <1>5, Counting DEF Others
<1>7. calls' = [calls EXCEPT ![i] = @ + 1]
  BY DEF Call
<1>8. /\ calls' \in [Intents -> Nat]
      /\ \A j \in Intents : j # i => calls'[j] = calls[j]
  BY <1>3, <1>7, CallsFacts
<1>9. IsOpen(i) /\ (i \in Idempotent \/ calls[i] = 0)
  BY <1>1 DEF RunInv, Underway, Untried
<1>10. RunInv(i, r)'
  BY <1>1, <1>2, <1>6, <1>9 DEF RunInv, IsOpen, Underway, Over, Untried
<1>11. Typed'
  BY <1>1, <1>6, <1>8 DEF ContractInv, Typed
<1>12. Stays(i, r)
  BY <1>1 DEF Stays
<1>13. /\ pending' \subseteq pending /\ (pending' # {} => pc' = "recovering")
       /\ RecoveriesHaveTheirTime'
  BY <1>1, <1>6, <1>12, StaysFacts
<1>14. ContractInv'
  BY <1>1, <1>2, <1>6, <1>8, <1>9, <1>10, <1>11, <1>13, RunStep DEF AloneOrContested, IsOpen
<1>15. [Contract!Next]_Contract!vars
  BY <1>1, <1>2, <1>7, <1>9, Promise
<1> QED BY <1>14, <1>15 DEF Kept

\* The process loses its memory.
LEMMA LosesKept ==
  ASSUME ContractInv, Loses
  PROVE  Kept
<1>1. NoTask \in AnyTask /\ NoTask.at = "none"
  BY DEF NoTask, AnyTask, Positions
<1>2. \A i \in Intents, r \in Runs : task'[i, r] = NoTask
  BY DEF Loses
<1>3. log' = log /\ calls' = calls /\ contested' = contested /\ pending' = {}
  BY DEF Loses
<1>4. Authorized' = Authorized /\ Settled' = Settled
  BY <1>3, LogKept
<1>5. Typed'
  BY <1>1, <1>3 DEF Loses, ContractInv, Typed
<1>6. RecoveriesHaveTheirTime'
  BY <1>1, <1>2 DEF RecoveriesHaveTheirTime, Runs
<1>7. LogAgrees'
  BY <1>1, <1>2 DEF LogAgrees, Underway, Over
<1>8. CalledOnce' /\ NothingBefore'
  BY <1>1, <1>2, <1>3, <1>4 DEF CalledOnce, Untried, Runs, ContractInv, NothingBefore
<1>9. LeftToRecover' /\ Apart'
  BY <1>1, <1>2, <1>3, <1>4 DEF LeftToRecover, Apart, ContractInv, Runs
<1>10. [Contract!Next]_Contract!vars
  BY <1>3, <1>4 DEF Contract!vars
<1> QED BY <1>5, <1>6, <1>7, <1>8, <1>9, <1>10 DEF ContractInv, Kept

\* Where the process is changes, and nothing else.
LEMMA ProcessKept ==
  ASSUME ContractInv, Start \/ Recovered \/ Stop
  PROVE  Kept
<1>1. /\ UNCHANGED <<log, calls, task, contested, pending>>
      /\ pc' \in {"down", "started", "recovering", "running"}
  BY DEF Start, Recovered, Stop
<1>2. Authorized' = Authorized /\ Settled' = Settled
  BY <1>1, LogKept
<1>3. [Contract!Next]_Contract!vars
  BY <1>1, <1>2 DEF Contract!vars
<1>4. NothingBefore' /\ LogAgrees' /\ CalledOnce' /\ Apart'
  BY <1>1, <1>2 DEF ContractInv, NothingBefore, LogAgrees, CalledOnce, Apart, IsOpen
<1>5. \A i \in Intents : task[i, "recovery"].at = "none"
  <2>1. CASE Start \/ Stop
    BY <2>1 DEF Start, Stop, ContractInv, RecoveriesHaveTheirTime
  <2>2. CASE Recovered
    <3>1. NoTask.at = "none"
      BY DEF NoTask
    <3> QED BY <2>2, <3>1 DEF Recovered, Free
  <2> QED BY <2>1, <2>2
<1>6. pending = {}
  BY DEF Start, Stop, Recovered, ContractInv, LeftToRecover
<1>7. Typed' /\ LeftToRecover' /\ RecoveriesHaveTheirTime'
  BY <1>1, <1>5, <1>6 DEF ContractInv, Typed, LeftToRecover, RecoveriesHaveTheirTime
<1> QED BY <1>3, <1>4, <1>7 DEF ContractInv, Kept

\* The history is read: what is open is to be recovered, and contested if a cycle has it.
LEMMA RestoredKept ==
  ASSUME ContractInv, Restore
  PROVE  Kept
<1>1. /\ UNCHANGED <<log, calls, task>> /\ pc = "started" /\ pc' = "recovering"
      /\ pending' = Authorized \ Settled
      /\ contested' = contested \cup {i \in Authorized \ Settled : task[i, "cycle"].at # "none"}
  BY DEF Restore, Recovers
<1>2. Authorized' = Authorized /\ Settled' = Settled
  BY <1>1, LogKept
<1>3. \A i \in Intents : task[i, "recovery"].at = "none"
  BY <1>1 DEF ContractInv, RecoveriesHaveTheirTime
<1>4. Authorized \subseteq Intents /\ contested \subseteq contested'
  BY <1>1 DEF Authorized
<1>5. Typed' /\ NothingBefore' /\ CalledOnce' /\ RecoveriesHaveTheirTime'
  BY <1>1, <1>2, <1>3, <1>4
     DEF ContractInv, Typed, NothingBefore, CalledOnce, RecoveriesHaveTheirTime
<1>6. LogAgrees'
  <2>1. \A i \in Intents : IsOpen(i) => IsOpen(i)'
    BY <1>2, <1>4 DEF IsOpen
  <2> QED BY <1>1, <1>2, <2>1 DEF ContractInv, LogAgrees
<1>7. LeftToRecover'
  BY <1>1, <1>2, <1>3, <1>4 DEF LeftToRecover, IsOpen
<1>8. Apart'
  BY <1>1, <1>2, <1>3, <1>4 DEF ContractInv, Apart
<1>9. [Contract!Next]_Contract!vars
  <2> DEFINE more == {i \in Authorized \ Settled : task[i, "cycle"].at # "none"}
  <2>1. more \in SUBSET Intents /\ more \subseteq Authorized \ Settled
    BY <1>4
  <2>2. contested' = contested \cup more
    BY <1>1
  <2> HIDE DEF more
  <2>3. Contract!Contest(more)
    BY <1>1, <1>2, <2>1, <2>2 DEF Contract!Contest
  <2> QED BY <2>1, <2>3 DEF Contract!Next
<1> QED BY <1>5, <1>6, <1>7, <1>8, <1>9 DEF ContractInv, Kept

\* A run that moves.
LEMMA Moved ==
  ASSUME ContractInv, NEW i \in Intents, NEW r \in Runs, NEW at \in Positions, Moves(i, r, at)
  PROVE  /\ task' \in [Intents \X Runs -> AnyTask] /\ task'[i, r].at = at /\ Others(i, r)
BY MovesFacts DEF ContractInv, Typed, Others

\* A run that is over.
LEMMA Finished ==
  ASSUME ContractInv, NEW i \in Intents, NEW r \in Runs, Finishes(i, r)
  PROVE  /\ task' \in [Intents \X Runs -> AnyTask] /\ task'[i, r].at = "none" /\ Others(i, r)
BY FinishesFacts DEF ContractInv, Typed, Others

\* The positions and the event types of the actions.
LEMMA Literals ==
  /\ "none" \in Positions /\ "selected" \in Positions /\ "authorized" \in Positions
  /\ "waiting" \in Positions /\ "skipping" \in Positions /\ "dispatching" \in Positions
  /\ "ready" \in Positions /\ "succeeding" \in Positions /\ "succeeded" \in Positions
  /\ "failing" \in Positions /\ "compensating" \in Positions
  /\ "authorized" \in Types /\ "denied" \in Types /\ "deferred" \in Types
  /\ "dispatched" \in Types /\ "reauthorized" \in Types
  /\ "authorized" \notin Terminal /\ "denied" \notin Terminal /\ "deferred" \notin Terminal
  /\ "dispatched" \notin Terminal /\ "reauthorized" \notin Terminal
  /\ Terminal \subseteq Types
BY DEF Positions, Holding, Active, Types, Terminal

\* A trigger selects an intent that was never authorized.
LEMMA SelectKept ==
  ASSUME ContractInv, NEW i \in Intents, Select(i)
  PROVE  Kept
<1>1. /\ i \notin Authorized /\ task[i, "cycle"].at = "none"
      /\ UNCHANGED <<log, calls, pc, pending, contested>>
  <2>1. NoTask.at = "none"
    BY DEF NoTask
  <2>2. i \notin Authorized
    BY DEF Select, Authorized
  <2> QED BY <2>1, <2>2 DEF Select, Elsewhere
<1>2. "cycle" \in Runs /\ "recovery" \in Runs /\ "selected" \in Positions
  BY Literals DEF Runs
<1>3. Moves(i, "cycle", "selected")
  BY DEF Select
<1>4. /\ task' \in [Intents \X Runs -> AnyTask] /\ task'[i, "cycle"].at = "selected"
      /\ Others(i, "cycle")
  BY <1>2, <1>3, Moved
<1>5. Authorized' = Authorized /\ Settled' = Settled
  BY <1>1, LogKept
<1>6. calls[i] = 0 /\ i \notin Settled /\ i \notin pending
  BY <1>1 DEF ContractInv, NothingBefore, LeftToRecover, IsOpen
<1>7. RunInv(i, "cycle")'
  BY <1>1, <1>4, <1>5, <1>6 DEF RunInv, Underway, Over
<1>8. Typed'
  BY <1>1, <1>4 DEF ContractInv, Typed
<1>9. \A j \in Intents : task'[j, "recovery"] = task[j, "recovery"]
  BY <1>2, <1>4 DEF Others
<1>10. RecoveriesHaveTheirTime' /\ (pending # {} => pc = "recovering")
  BY <1>1, <1>9 DEF ContractInv, RecoveriesHaveTheirTime, LeftToRecover
<1>11. task[i, "recovery"].at = "none"
  <2>1. task[i, "recovery"].at \notin Underway \cup Over \cup {"selected"}
    BY <1>1, <1>2 DEF ContractInv, LogAgrees, IsOpen
  <2>2. task[i, "recovery"].at \in Positions
    BY <1>2 DEF ContractInv, Typed, AnyTask
  <2> QED BY <2>1, <2>2 DEF Positions, Holding, Active, Underway, Over
<1>12. ContractInv'
  BY <1>1, <1>2, <1>4, <1>5, <1>6, <1>7, <1>8, <1>10, <1>11, RunStep DEF Runs
<1>13. [Contract!Next]_Contract!vars
  BY <1>1, <1>5, Promise
<1> QED BY <1>12, <1>13 DEF Kept

\* A cycle authorizes or denies; a run acquires its attention or is deferred.
LEMMA CycleKept ==
  ASSUME ContractInv, NEW i \in Intents, NEW r \in Runs,
         Authorize(i) \/ Deny(i) \/ Acquire(i, r) \/ Defer(i, r)
  PROVE  Kept
<1>0. "cycle" \in Runs
  BY DEF Runs
<1>1. CASE Authorize(i)
  <2>1. /\ task[i, "cycle"].at = "selected" /\ Records("authorized", i)
        /\ Moves(i, "cycle", "authorized") /\ UNCHANGED <<calls, pc, pending, contested>>
    BY <1>1 DEF Authorize, Elsewhere
  <2>2. /\ task' \in [Intents \X Runs -> AnyTask] /\ task'[i, "cycle"].at = "authorized"
        /\ Others(i, "cycle")
    BY <1>0, <2>1, Moved, Literals
  <2> QED BY <1>0, <2>1, <2>2, Literals, RecordedStep DEF Stays
<1>2. CASE Deny(i)
  <2>1. /\ task[i, "cycle"].at = "selected" /\ Records("denied", i)
        /\ Moves(i, "cycle", "none") /\ UNCHANGED <<calls, pc, pending, contested>>
    BY <1>2 DEF Deny, Elsewhere
  <2>2. /\ task' \in [Intents \X Runs -> AnyTask] /\ task'[i, "cycle"].at = "none"
        /\ Others(i, "cycle")
    BY <1>0, <2>1, Moved, Literals
  <2> QED BY <1>0, <2>1, <2>2, Literals, RecordedStep DEF Stays
<1>3. CASE Acquire(i, r)
  <2>1. /\ task[i, r].at = "authorized" /\ Moves(i, r, "waiting")
        /\ UNCHANGED <<log, calls, pc, pending, contested>>
    BY <1>3 DEF Acquire, Elsewhere
  <2>2. /\ task' \in [Intents \X Runs -> AnyTask] /\ task'[i, r].at = "waiting"
        /\ Others(i, r)
    BY <2>1, Moved, Literals
  <2>3. "authorized" \in Untried /\ "waiting" \in Untried
    BY DEF Untried
  <2> QED BY <2>1, <2>2, <2>3, Literals, QuietStep DEF Stays
<1>4. CASE Defer(i, r)
  <2>1. /\ task[i, r].at = "authorized" /\ Moves(i, r, "none")
        /\ Records("deferred", i) \/ UNCHANGED log
        /\ UNCHANGED <<calls, pc, pending, contested>>
    BY <1>4 DEF Defer, Elsewhere
  <2>2. /\ task' \in [Intents \X Runs -> AnyTask] /\ task'[i, r].at = "none"
        /\ Others(i, r)
    BY <2>1, Moved, Literals
  <2>3. CASE UNCHANGED log
    BY <2>1, <2>2, <2>3, Literals, QuietStep DEF Stays
  <2>4. CASE Records("deferred", i)
    BY <2>1, <2>2, <2>4, Literals, RecordedStep DEF Stays
  <2> QED BY <2>1, <2>3, <2>4
<1> QED BY <1>1, <1>2, <1>3, <1>4

\* A run that ends or moves on with an outcome of an authorized intent.
LEMMA OutcomeStep ==
  ASSUME ContractInv, NEW i \in Intents, NEW r \in Runs, NEW t \in Terminal,
         i \in Authorized, task[i, r].at # "none", Records(t, i),
         UNCHANGED <<calls, pc, pending, contested>>,
         \/ Finishes(i, r)
         \/ Moves(i, r, "succeeded")
         \/ Moves(i, r, "compensating")
  PROVE  Kept
<1>1. t \in Types /\ t # "authorized"
  BY Literals
<1>2. "succeeded" \in Over /\ "compensating" \in Over
  BY DEF Over
<1>3. /\ task' \in [Intents \X Runs -> AnyTask] /\ Others(i, r)
      /\ task'[i, r].at = "none" \/ task'[i, r].at \in Over
  <2>1. CASE Finishes(i, r)
    BY <2>1, Finished
  <2>2. CASE Moves(i, r, "succeeded")
    BY <1>2, <2>2, Moved, Literals
  <2>3. CASE Moves(i, r, "compensating")
    BY <1>2, <2>3, Moved, Literals
  <2> QED BY <2>1, <2>2, <2>3
<1> QED BY <1>1, <1>3, RecordedStep DEF Stays

\* The slot, the dispatch, the call and its outcome.
LEMMA ExecuteKept ==
  ASSUME ContractInv, NEW i \in Intents, NEW r \in Runs, _execute_intent(i, r)
  PROVE  Kept
<1>0. task[i, r].at \in Underway \cup Over => i \in Authorized
  BY DEF ContractInv, LogAgrees, IsOpen
<1>1. CASE Enter(i, r)
  <2>1. /\ task[i, r].at = "waiting" /\ UNCHANGED <<log, calls, pc, pending, contested>>
        /\ Moves(i, r, "skipping") \/ Moves(i, r, "dispatching")
    BY <1>1 DEF Enter, Elsewhere
  <2>2. PICK at \in {"skipping", "dispatching"} : Moves(i, r, at)
    BY <2>1
  <2>3. /\ "waiting" \in Untried /\ at \in Untried /\ at # "selected"
        /\ "waiting" # "none" /\ "waiting" # "selected"
    BY DEF Untried
  <2>4. at \in Positions
    BY Literals
  <2>5. /\ task' \in [Intents \X Runs -> AnyTask] /\ task'[i, r].at = at /\ Others(i, r)
    BY <2>2, <2>4, Moved
  <2> QED BY <2>1, <2>3, <2>4, <2>5, QuietStep DEF Stays
<1>2. CASE Skip(i, r)
  <2>1. /\ task[i, r].at = "skipping" /\ Records("skipped", i) /\ Finishes(i, r)
        /\ UNCHANGED <<calls, pc, pending, contested>>
    BY <1>2 DEF Skip, Elsewhere
  <2>2. "skipped" \in Terminal /\ "skipping" \in Underway
    BY DEF Terminal, Underway
  <2> QED BY <1>0, <2>1, <2>2, OutcomeStep
<1>3. CASE Dispatch(i, r)
  <2>1. /\ task[i, r].at = "dispatching" /\ Records("dispatched", i) /\ Moves(i, r, "ready")
        /\ UNCHANGED <<calls, pc, pending, contested>>
    BY <1>3 DEF Dispatch, Elsewhere
  <2>2. task' \in [Intents \X Runs -> AnyTask] /\ task'[i, r].at = "ready" /\ Others(i, r)
    BY <2>1, Moved, Literals
  <2> QED BY <2>1, <2>2, Literals, RecordedStep DEF Stays
<1>4. CASE Call(i, r)
  BY <1>4, CallKept
<1>5. CASE Return(i, r)
  <2>1. task[i, r].at = "calling" /\ UNCHANGED <<log, calls, pc, pending, contested>>
    BY <1>5 DEF Return, Elsewhere
  <2>2. PICK at \in {"succeeding", "failing", "ready"} :
          Moves(i, r, at) /\ (at = "ready" => task[i, r].attempt <= Retries(i))
    BY <1>5 DEF Return
  <2>3. task[i, r].attempt > 0 /\ task[i, r].attempt \in Nat
    BY <2>1 DEF ContractInv, LogAgrees, Typed, AnyTask
  <2>4. at = "ready" => i \in Idempotent
    BY <2>2, <2>3, Counting DEF Retries
  <2>5. at \in Positions
    BY Literals
  <2>6. /\ task' \in [Intents \X Runs -> AnyTask] /\ task'[i, r].at = at /\ Others(i, r)
    BY <2>2, <2>5, Moved
  <2> QED BY <2>1, <2>4, <2>5, <2>6, QuietStep DEF Stays
<1>6. CASE RecordSuccess(i, r)
  <2>1. /\ task[i, r].at = "succeeding" /\ Records("succeeded", i) /\ Moves(i, r, "succeeded")
        /\ UNCHANGED <<calls, pc, pending, contested>>
    BY <1>6 DEF RecordSuccess, Elsewhere
  <2>2. "succeeded" \in Terminal /\ "succeeding" \in Underway
    BY DEF Terminal, Underway
  <2> QED BY <1>0, <2>1, <2>2, OutcomeStep
<1>7. CASE RememberKey(i, r)
  <2>1. /\ task[i, r].at = "succeeded" /\ Finishes(i, r)
        /\ UNCHANGED <<log, calls, pc, pending, contested>>
    BY <1>7 DEF RememberKey, Elsewhere
  <2>2. /\ task' \in [Intents \X Runs -> AnyTask] /\ task'[i, r].at = "none" /\ Others(i, r)
    BY <2>1, Finished
  <2> QED BY <2>1, <2>2, Literals, QuietStep DEF Stays
<1>8. CASE RecordFailure(i, r)
  <2>1. /\ task[i, r].at = "failing" /\ Records("failed", i)
        /\ Moves(i, r, "compensating") \/ Finishes(i, r)
        /\ UNCHANGED <<calls, pc, pending, contested>>
    BY <1>8 DEF RecordFailure, Elsewhere
  <2>2. "failed" \in Terminal /\ "failing" \in Underway
    BY DEF Terminal, Underway
  <2> QED BY <1>0, <2>1, <2>2, OutcomeStep
<1>9. CASE Compensate(i, r)
  <2>1. /\ task[i, r].at = "compensating" /\ Records("compensated", i) /\ Finishes(i, r)
        /\ UNCHANGED <<calls, pc, pending, contested>>
    BY <1>9 DEF Compensate, Elsewhere
  <2>2. "compensated" \in Terminal /\ "compensating" \in Over
    BY DEF Terminal, Over
  <2> QED BY <1>0, <2>1, <2>2, OutcomeStep
<1> QED BY <1>1, <1>2, <1>3, <1>4, <1>5, <1>6, <1>7, <1>8, <1>9 DEF _execute_intent

\* The recovery gives up an intent, or start() raises when it has: it is settled.
LEMMA GivenUp ==
  ASSUME ContractInv, NEW i \in pending, NEW t \in {"abandoned", "reauthorized"},
         Records(t, i), UNCHANGED <<calls, contested, task>>, Free,
         \/ pc' = pc /\ pending' = pending \ {i}
         \/ pc' = "running" /\ pending' = {}
  PROVE  Kept
<1>1. /\ i \in Intents /\ i \in Authorized /\ pc = "recovering" /\ "recovery" \in Runs
      /\ task[i, "recovery"].at = "none"
  BY DEF ContractInv, LeftToRecover, IsOpen, Runs, Typed
<1>2. /\ t \in Types /\ t # "authorized"
  BY DEF Terminal, Types
<1>3. /\ log' \subseteq Types \X Intents
      /\ Authorized' = Authorized
      /\ Settled' = Settled \/ Settled' = Settled \cup {i}
  BY <1>1, <1>2, RecordsFacts DEF Records, ContractInv, Typed
<1>4. \A j \in Intents : task'[j, "recovery"].at = "none"
  <2>1. NoTask.at = "none"
    BY DEF NoTask
  <2> QED BY <2>1 DEF Free
<1>5. RunInv(i, "recovery")'
  BY <1>1, <1>3, <1>4 DEF RunInv, Underway, Over, Untried
<1>6. /\ Typed' /\ RecoveriesHaveTheirTime' /\ pending' \subseteq pending /\ i \notin pending'
      /\ pending' # {} => pc' = "recovering"
  BY <1>1, <1>3, <1>4 DEF ContractInv, Typed, RecoveriesHaveTheirTime
<1>7. i \in contested \/ \A s \in Runs : s # "recovery" => task[i, s].at = "none"
  BY <1>1 DEF ContractInv, Apart, Runs
<1>8. Others(i, "recovery")
  BY DEF Others
<1>9. ContractInv'
  BY <1>1, <1>3, <1>5, <1>6, <1>7, <1>8, RunStep
<1>10. [Contract!Next]_Contract!vars
  BY <1>1, <1>3, Promise
<1> QED BY <1>9, <1>10 DEF Kept

\* The recovery gives up an intent or takes it up again.
LEMMA RestoreKept ==
  ASSUME ContractInv, NEW i \in Intents, _restore_execution_state(i)
  PROVE  Kept
<1>1. /\ pc = "recovering" /\ i \in pending /\ pc' = pc /\ pending' = pending \ {i}
      /\ UNCHANGED <<calls, contested>> /\ Free
      /\ \/ Records("abandoned", i) /\ task' = task
         \/ Records("reauthorized", i) /\ Moves(i, "recovery", "authorized") /\ i \in Idempotent
  BY DEF _restore_execution_state, Abandon, Reauthorize, Recovering
<1>2. IsOpen(i) /\ "recovery" \in Runs
  BY <1>1 DEF ContractInv, LeftToRecover, Runs
<1>3. CASE Records("abandoned", i) /\ task' = task
  BY <1>1, <1>3, GivenUp
<1>4. CASE Records("reauthorized", i) /\ Moves(i, "recovery", "authorized") /\ i \in Idempotent
  <2>1. "reauthorized" \in Types /\ "reauthorized" # "authorized"
    BY Literals
  <2>2. /\ log' \subseteq Types \X Intents
        /\ Authorized' = Authorized /\ Settled' = Settled
    BY <1>4, <2>1, RecordsFacts, Literals DEF Records, ContractInv, Typed
  <2>3. /\ task' \in [Intents \X Runs -> AnyTask]
        /\ task'[i, "recovery"].at = "authorized" /\ Others(i, "recovery")
    BY <1>2, <1>4, Moved, Literals
  <2>4. RunInv(i, "recovery")'
    BY <1>1, <1>2, <1>4, <2>2, <2>3 DEF RunInv, IsOpen, Underway, Over, Untried
  <2>5. Typed'
    BY <1>1, <2>2, <2>3 DEF ContractInv, Typed
  <2>6. RecoveriesHaveTheirTime'
    <3>1. \A j \in Intents : j # i => task'[j, "recovery"].at = "none"
      <4>1. NoTask.at = "none"
        BY DEF NoTask
      <4> QED BY <1>1, <1>2, <2>3, <4>1 DEF Free, Others
    <3> QED BY <1>1, <3>1 DEF RecoveriesHaveTheirTime
  <2>7. i \in contested \/ \A s \in Runs : s # "recovery" => task[i, s].at = "none"
    BY <1>1 DEF ContractInv, Apart, Runs
  <2>8. ContractInv'
    BY <1>1, <1>2, <1>4, <2>2, <2>3, <2>4, <2>5, <2>6, <2>7, RunStep DEF IsOpen
  <2>9. [Contract!Next]_Contract!vars
    BY <1>1, <2>2, Promise
  <2> QED BY <2>8, <2>9 DEF Kept
<1> QED BY <1>1, <1>3, <1>4

\* start() raises outside a run.
LEMMA StartRaisesKept ==
  ASSUME ContractInv, StartRaises
  PROVE  Kept
<1>1. /\ UNCHANGED <<calls, contested, task>> /\ Free /\ pc' = "running" /\ pending' = {}
      /\ \/ log' = log
         \/ \E i \in pending, t \in {"abandoned", "reauthorized"} : Records(t, i)
  BY DEF StartRaises, Records
<1>2. CASE log' = log
  <2>1. Authorized' = Authorized /\ Settled' = Settled
    BY <1>2, LogKept
  <2>2. \A j \in Intents : task'[j, "recovery"].at = "none"
    <3>1. NoTask.at = "none"
      BY DEF NoTask
    <3> QED BY <1>1, <3>1 DEF Free
  <2>3. /\ Typed' /\ RecoveriesHaveTheirTime' /\ LogAgrees' /\ NothingBefore' /\ CalledOnce'
        /\ LeftToRecover' /\ Apart'
    BY <1>1, <1>2, <2>1, <2>2
       DEF ContractInv, Typed, RecoveriesHaveTheirTime, LogAgrees, NothingBefore, CalledOnce,
           LeftToRecover, Apart, IsOpen
  <2> QED BY <1>1, <2>1, <2>3 DEF Kept, ContractInv, Contract!vars
<1>3. CASE \E i \in pending, t \in {"abandoned", "reauthorized"} : Records(t, i)
  BY <1>1, <1>3, GivenUp
<1> QED BY <1>1, <1>2, <1>3

\* What a run may be about to record is an event that its intent may have.
LEMMA RecordIs ==
  ASSUME ContractInv, NEW i \in Intents, NEW r \in Runs, NEW e \in Record(i, r)
  PROVE  \E t \in Types : /\ e = <<t, i>>
                          /\ task[i, r].at # "none"
                          /\ t = "authorized" => task[i, r].at = "selected"
                          /\ t \in Terminal => i \in Authorized
<1>1. task[i, r].at \in Underway \cup Over => i \in Authorized
  BY DEF ContractInv, LogAgrees, IsOpen
<1>2. CASE task[i, r].at = "selected"
  BY <1>2, Literals DEF Record
<1>3. CASE task[i, r].at = "authorized"
  BY <1>3, Literals DEF Record
<1>4. CASE task[i, r].at = "skipping"
  BY <1>1, <1>4, Literals DEF Record, Underway, Terminal
<1>5. CASE task[i, r].at = "dispatching"
  BY <1>5, Literals DEF Record
<1>6. CASE task[i, r].at = "succeeding"
  BY <1>1, <1>6, Literals DEF Record, Underway, Terminal
<1>7. CASE task[i, r].at = "failing"
  BY <1>1, <1>7, Literals DEF Record, Underway, Terminal
<1>8. CASE task[i, r].at = "compensating"
  BY <1>1, <1>8, Literals DEF Record, Over, Terminal
<1>9. CASE task[i, r].at \notin {"selected", "authorized", "skipping", "dispatching",
                                 "succeeding", "failing", "compensating"}
  BY <1>9 DEF Record
<1> QED BY <1>2, <1>3, <1>4, <1>5, <1>6, <1>7, <1>8, <1>9

\* The emission raises before or after its append: the run ends, and start() with it
\* if it is a recovery.
LEMMA RaiseKept ==
  ASSUME ContractInv, NEW i \in Intents, NEW r \in Runs, Raise(i, r)
  PROVE  Kept
<1>1. /\ UNCHANGED <<calls, contested>> /\ Finishes(i, r)
      /\ log' = log \/ \E e \in Record(i, r) : log' = log \cup {e}
      /\ Record(i, r) # {} \/ task[i, r].at = "succeeded"
  BY DEF Raise
<1>2. task[i, r].at # "none"
  BY <1>1, RecordIs
<1>3. task' \in [Intents \X Runs -> AnyTask] /\ task'[i, r].at = "none" /\ Others(i, r)
  BY <1>1, Finished
<1>4. Stays(i, r)
  BY <1>3 DEF Raise, Stays
<1>5. CASE log' = log
  BY <1>1, <1>2, <1>3, <1>4, <1>5, Literals, QuietStep
<1>6. ASSUME NEW e \in Record(i, r), log' = log \cup {e} PROVE Kept
  <2>1. PICK t \in Types : /\ e = <<t, i>>
                           /\ t = "authorized" => task[i, r].at = "selected"
                           /\ t \in Terminal => i \in Authorized
    BY RecordIs
  <2>2. Records(t, i)
    BY <1>6, <2>1 DEF Records
  <2> QED BY <1>1, <1>2, <1>3, <1>4, <2>1, <2>2, RecordedStep
<1> QED BY <1>1, <1>5, <1>6

-----------------------------------------------------------------------------
\* The invariant holds from the start and through every step.

LEMMA ContractInit == Init => ContractInv /\ Contract!Init
<1>. SUFFICES ASSUME Init PROVE ContractInv /\ Contract!Init
  OBVIOUS
<1>1. NoTask \in AnyTask /\ NoTask.at = "none"
  BY DEF NoTask, AnyTask, Positions
<1>2. \A i \in Intents, r \in Runs : task[i, r] = NoTask
  BY DEF Init
<1>3. log = {} /\ pc = "down" /\ pending = {} /\ calls = [i \in Intents |-> 0] /\ contested = {}
  BY DEF Init
<1>4. Authorized = {} /\ Settled = {}
  BY <1>3 DEF Authorized, Settled
<1>5. Typed
  BY <1>1, <1>3 DEF Init, Typed
<1>6. RecoveriesHaveTheirTime /\ LogAgrees /\ CalledOnce /\ LeftToRecover /\ Apart
  BY <1>1, <1>2, <1>3
     DEF RecoveriesHaveTheirTime, LogAgrees, CalledOnce, LeftToRecover, Apart, Runs, Underway,
         Over, Untried
<1>7. NothingBefore
  BY <1>3, <1>4 DEF NothingBefore
<1> QED BY <1>3, <1>4, <1>5, <1>6, <1>7 DEF ContractInv, Contract!Init

LEMMA ContractNext ==
  ASSUME ContractInv, [Next]_vars
  PROVE  Kept
<1>1. CASE Start \/ Recovered \/ Stop
  BY <1>1, ProcessKept
<1>2. CASE Restore
  BY <1>2, RestoredKept
<1>3. CASE Crash \/ Exit
  BY <1>3, LosesKept DEF Crash, Exit
<1>4. CASE StartRaises
  BY <1>4, StartRaisesKept
<1>5. ASSUME NEW i \in Intents, Select(i) PROVE Kept
  BY <1>5, SelectKept
<1>6. ASSUME NEW i \in Intents, _handle_trigger(i) PROVE Kept
  <2>1. "cycle" \in Runs
    BY DEF Runs
  <2> QED BY <1>6, <2>1, CycleKept DEF _handle_trigger
<1>7. ASSUME NEW i \in Intents, _restore_execution_state(i) PROVE Kept
  BY <1>7, RestoreKept
<1>8. ASSUME NEW i \in Intents, NEW r \in Runs, _execute_with_lease(i, r) PROVE Kept
  BY <1>8, CycleKept, ExecuteKept DEF _execute_with_lease
<1>9. ASSUME NEW i \in Intents, NEW r \in Runs, Raise(i, r) PROVE Kept
  BY <1>9, RaiseKept
<1>10. CASE UNCHANGED vars
  <2>1. UNCHANGED <<log, calls, pc, pending, task, contested>>
    BY <1>10 DEF vars
  <2>2. Authorized' = Authorized /\ Settled' = Settled
    BY <2>1, LogKept
  <2> QED BY <2>1, <2>2
          DEF Kept, Contract!vars, ContractInv, Typed, RecoveriesHaveTheirTime, LogAgrees,
              NothingBefore, CalledOnce, LeftToRecover, Apart, IsOpen
<1> QED BY <1>1, <1>2, <1>3, <1>4, <1>5, <1>6, <1>7, <1>8, <1>9, <1>10 DEF Next

-----------------------------------------------------------------------------
\* The attention that a set of runs holds: a sum over a set.  What it computes
\* is shown by the least counterexample among the subsets of the set (WFMin), since
\* the library's theorems of induction take operators.

Price(w) == Cost[w[1]]
Choice(s) == CHOOSE x \in s : TRUE
Leased(S) == MapThenSumSet(LAMBDA w : Cost[w[1]], S)

RunIds == Intents \X Runs

\* f is the recursion of the sum over the subsets of S.
Sums(f, S) ==
  f = [s \in SUBSET S |-> IF s = {} THEN 0 ELSE Price(Choice(s)) + f[s \ {Choice(s)}]]

LEMMA ChoiceIsMember ==
  ASSUME NEW s, s # {}
  PROVE  Choice(s) \in s /\ s \ {Choice(s)} # s /\ s \ {Choice(s)} \in SUBSET s
<1>1. Choice(s) \in s
  BY DEF Choice
<1> QED BY <1>1

\* A family of subsets of a finite set has a least one.
LEMMA LeastSubset ==
  ASSUME NEW S, IsFiniteSet(S), NEW F \in SUBSET SUBSET S, F # {}
  PROVE  \E U \in F : \A V \in F : V \subseteq U => V = U
<1>1. IsWellFoundedOn(StrictSubsetOrdering(S), SUBSET S)
  BY FS_StrictSubsetOrderingWellFounded, FS_FiniteSubsetsOfFinite
<1>2. PICK U \in F : \A V \in F : ~(<<V, U>> \in StrictSubsetOrdering(S))
  BY <1>1, WFMin
<1>3. \A V \in F : V \subseteq U => V = U
  BY <1>2 DEF StrictSubsetOrdering
<1> QED BY <1>3

\* The recursions over two sets agree on their common subsets.
LEMMA SumsAgree ==
  ASSUME NEW S, IsFiniteSet(S), NEW T \in SUBSET S, NEW f, NEW g, Sums(f, S), Sums(g, T)
  PROVE  \A s \in SUBSET T : f[s] = g[s]
<1> DEFINE F == {s \in SUBSET T : f[s] # g[s]}
<1>1. SUFFICES ASSUME F # {} PROVE FALSE
  OBVIOUS
<1>2. PICK s \in F : \A r \in F : r \subseteq s => r = s
  <2>1. F \in SUBSET SUBSET T /\ IsFiniteSet(T)
    BY FS_Subset
  <2> HIDE DEF F
  <2> QED BY <1>1, <2>1, LeastSubset
<1>3. /\ f[s] = IF s = {} THEN 0 ELSE Price(Choice(s)) + f[s \ {Choice(s)}]
      /\ g[s] = IF s = {} THEN 0 ELSE Price(Choice(s)) + g[s \ {Choice(s)}]
  BY DEF Sums
<1>4. s # {}
  BY <1>3
<1>5. s \ {Choice(s)} \in SUBSET T /\ s \ {Choice(s)} # s /\ s \ {Choice(s)} \in SUBSET s
  BY <1>4, ChoiceIsMember
<1>6. f[s \ {Choice(s)}] = g[s \ {Choice(s)}]
  BY <1>2, <1>5
<1> QED BY <1>3, <1>4, <1>6

\* The recursion is well founded.
LEMMA SumsExist ==
  ASSUME NEW S, IsFiniteSet(S)
  PROVE  \E f : Sums(f, S)
<1> DEFINE F == {s \in SUBSET S : ~\E f : Sums(f, s)}
<1>1. SUFFICES ASSUME F # {} PROVE FALSE
  OBVIOUS
<1>2. PICK U \in F : \A r \in F : r \subseteq U => r = U
  <2>1. F \in SUBSET SUBSET S
    OBVIOUS
  <2> HIDE DEF F
  <2> QED BY <1>1, <2>1, LeastSubset
<1> DEFINE sum(r) == CHOOSE f : Sums(f, r)
           Rest(s) == s \ {Choice(s)}
           g == [s \in SUBSET U |->
                   IF s = {} THEN 0 ELSE Price(Choice(s)) + sum(Rest(s))[Rest(s)]]
<1>3. ASSUME NEW r \in SUBSET U, r # U
      PROVE  Sums(sum(r), r)
  <2>1. \E f : Sums(f, r)
    BY <1>2, <1>3
  <2> QED BY <2>1
<1>4. ASSUME NEW r \in SUBSET U, r # U
      PROVE  g[r] = sum(r)[r]
  <2>1. sum(r)[r] = IF r = {} THEN 0 ELSE Price(Choice(r)) + sum(r)[Rest(r)]
    <3>1. Sums(sum(r), r)
      BY <1>3, <1>4
    <3> HIDE DEF sum
    <3> QED BY <3>1 DEF Sums
  <2>2. g[r] = IF r = {} THEN 0 ELSE Price(Choice(r)) + sum(Rest(r))[Rest(r)]
    OBVIOUS
  <2>3. CASE r # {}
    <3>1. Rest(r) \in SUBSET r /\ Rest(r) # U /\ Rest(r) \in SUBSET U
      BY <2>3, <1>4, ChoiceIsMember
    <3>2. Sums(sum(r), r) /\ Sums(sum(Rest(r)), Rest(r))
      BY <1>3, <1>4, <3>1
    <3>3. IsFiniteSet(r)
      BY FS_Subset
    <3>4. sum(r)[Rest(r)] = sum(Rest(r))[Rest(r)]
      <4> HIDE DEF sum, Rest
      <4> QED BY <3>1, <3>2, <3>3, SumsAgree
    <3> QED BY <2>1, <2>2, <3>4
  <2> QED BY <2>1, <2>2, <2>3
<1>5. \A s \in SUBSET U : g[s] = IF s = {} THEN 0 ELSE Price(Choice(s)) + g[Rest(s)]
  <2>1. TAKE s \in SUBSET U
  <2>2. CASE s # {}
    <3>1. Rest(s) \in SUBSET U /\ Rest(s) # U
      BY <2>2, ChoiceIsMember
    <3>2. g[Rest(s)] = sum(Rest(s))[Rest(s)]
      BY <3>1, <1>4
    <3> QED BY <3>2, <2>2
  <2> QED BY <2>2
<1>6. Sums(g, U)
  <2>1. g = [s \in SUBSET U |-> g[s]]
    OBVIOUS
  <2> HIDE DEF g
  <2>2. [s \in SUBSET U |-> g[s]] =
          [s \in SUBSET U |-> IF s = {} THEN 0 ELSE Price(Choice(s)) + g[Rest(s)]]
    BY <1>5
  <2> QED BY <2>1, <2>2 DEF Sums
<1> QED BY <1>6

LEMMA LeasedIsSum ==
  ASSUME NEW S, IsFiniteSet(S)
  PROVE  \E f : Sums(f, S) /\ Leased(S) = f[S]
<1> DEFINE f == CHOOSE g : Sums(g, S)
<1>1. Sums(f, S)
  BY SumsExist
<1>2. Leased(S) = f[S]
  BY DEF Leased, MapThenSumSet, MapThenFoldSet, Sums, Choice, Price
<1> QED BY <1>1, <1>2

\* The sum does not depend on which run is counted first.
LEMMA SumsCommute ==
  ASSUME NEW S \in SUBSET RunIds, IsFiniteSet(S), NEW f, Sums(f, S)
  PROVE  \A s \in SUBSET S : f[s] \in Nat /\ \A x \in s : f[s] = Price(x) + f[s \ {x}]
<1> DEFINE Good(s) == f[s] \in Nat /\ \A x \in s : f[s] = Price(x) + f[s \ {x}]
           F == {s \in SUBSET S : ~Good(s)}
<1>1. SUFFICES ASSUME F # {} PROVE FALSE
  OBVIOUS
<1>2. PICK s \in F : \A r \in F : r \subseteq s => r = s
  <2>1. F \in SUBSET SUBSET S
    OBVIOUS
  <2> HIDE DEF F
  <2> QED BY <1>1, <2>1, LeastSubset
<1>3. f[s] = IF s = {} THEN 0 ELSE Price(Choice(s)) + f[s \ {Choice(s)}]
  BY DEF Sums
<1>4. s # {} /\ s \in SUBSET S
  BY <1>2, <1>3
<1>5. \A r \in SUBSET s : r # s => Good(r)
  BY <1>2
<1>6. \A x \in S : Price(x) \in Nat
  BY AgentAssumption DEF Price, RunIds
<1> DEFINE y == Choice(s)
<1>7. y \in s
  BY <1>4, ChoiceIsMember
<1> HIDE DEF y, F
<1>8. f[s] = Price(y) + f[s \ {y}]
  BY <1>3, <1>4 DEF y
<1>9. Good(s \ {y})
  BY <1>5, <1>7
<1>10. f[s] \in Nat
  BY <1>4, <1>6, <1>7, <1>8, <1>9
<1>11. ASSUME NEW x \in s, x # y PROVE f[s] = Price(x) + f[s \ {x}]
  <2> DEFINE r == (s \ {x}) \ {y}
  <2>1. f[s \ {y}] = Price(x) + f[r]
    <3>1. f[s \ {y}] = Price(x) + f[(s \ {y}) \ {x}]
      BY <1>9, <1>11
    <3>2. (s \ {y}) \ {x} = r
      OBVIOUS
    <3> QED BY <3>1, <3>2, Zenon
  <2>2. Good(s \ {x})
    BY <1>5
  <2>3. f[s \ {x}] = Price(y) + f[r]
    BY <2>2, <1>7, <1>11
  <2>5. f[r] \in Nat
    <3>1. r \in SUBSET s /\ r # s
      BY <1>11
    <3>2. Good(r)
      BY <3>1, <1>5
    <3> QED BY <3>2
  <2>6. Price(x) \in Nat /\ Price(y) \in Nat
    BY <1>4, <1>6, <1>7, <1>11
  <2> HIDE DEF r, Good
  <2>7. \A a, b, c \in Nat : a + (b + c) = b + (a + c)
    OBVIOUS
  <2>8. Price(y) + (Price(x) + f[r]) = Price(x) + (Price(y) + f[r])
    BY <2>5, <2>6, <2>7
  <2> QED BY <1>8, <2>1, <2>3, <2>8
<1>12. Good(s)
  BY <1>8, <1>10, <1>11
<1> QED BY <1>2, <1>12 DEF F

\* A run that acquires its lease adds its cost, and one that settles it takes it away.
LEMMA LeasedGrows ==
  ASSUME NEW S \in SUBSET RunIds, IsFiniteSet(S), NEW w \in RunIds \ S
  PROVE  /\ Leased(S) \in Nat
         /\ Leased(S \cup {w}) = Price(w) + Leased(S)
<1> DEFINE T == S \cup {w}
<1>1. IsFiniteSet(T) /\ T \in SUBSET RunIds /\ S \in SUBSET T /\ T \ {w} = S
  BY FS_AddElement
<1> HIDE DEF T
<1>2. PICK f : Sums(f, T) /\ Leased(T) = f[T]
  BY <1>1, LeasedIsSum
<1>3. PICK g : Sums(g, S) /\ Leased(S) = g[S]
  BY LeasedIsSum
<1>4. f[S] = g[S]
  BY <1>1, <1>2, <1>3, SumsAgree
<1>5. f[T] = Price(w) + f[S] /\ f[S] \in Nat
  <2>1. w \in T
    BY DEF T
  <2> QED BY <1>1, <1>2, <2>1, SumsCommute
<1> QED BY <1>2, <1>3, <1>4, <1>5 DEF T

LEMMA NothingLeased == Leased({}) = 0
<1>1. IsFiniteSet({})
  BY FS_EmptySet
<1>2. PICK f : Sums(f, {}) /\ Leased({}) = f[{}]
  BY <1>1, LeasedIsSum
<1> QED BY <1>2 DEF Sums

-----------------------------------------------------------------------------
\* The account: attention is held by the runs that will settle it.

Held == {w \in RunIds : task[w].at \in Holding}
Busy == {w \in RunIds : task[w].at \in Active}

\* Positions before the first call.
Early == {"none", "selected", "authorized", "waiting", "skipping", "dispatching"}

\* The attempts that a run has made leave room for those that it will make.
AttemptsFit(i, t) ==
  /\ t.at \in Early => t.attempt = 0
  /\ t.at = "ready" => t.attempt <= Retries(i)
  /\ t.at = "calling" => t.attempt <= Retries(i) + 1

AttemptsInv == \A w \in RunIds : AttemptsFit(w[1], task[w])

SuccessIsRecorded ==
  \A w \in RunIds : task[w].at = "succeeded" => <<"succeeded", w[1]>> \in log

AccountInv == AttentionInv /\ IsFiniteSet(Held) /\ AttemptsInv /\ SuccessIsRecorded

KeysOf(l) == {KeyOf[i] : i \in {j \in Intents : <<"succeeded", j>> \in l}}

\* The variables that are neither tasks nor attention keep their types, and the log
\* keeps what it has.
Frame ==
  /\ log \subseteq log' /\ log' \subseteq Types \X Intents
  /\ ledger' \subseteq KeysOf(log')
  /\ pc' \in {"down", "started", "recovering", "running"}
  /\ {pending', orphans', contested'} \subseteq SUBSET Intents
  /\ unread' \subseteq {KeyOf[i] : i \in Intents}
  /\ calls' \in [Intents -> Nat]
  /\ spent' \in [crashes : 0..MaxCrashes, failures : 0..MaxFailures]

LEMMA ConstantsAreNumbers ==
  /\ Capacity \in Nat /\ MaxRetries \in Nat /\ Slots \in Nat
  /\ MaxCrashes \in Nat /\ MaxFailures \in Nat
<1>1. {Capacity, MaxRetries, MaxCrashes, MaxFailures} \subseteq Nat
  BY AgentAssumption
<1> QED BY <1>1, AgentAssumption

LEMMA TypeFacts ==
  ASSUME TypeOK
  PROVE  /\ task \in [RunIds -> Task] /\ available \in Nat /\ available <= Capacity
         /\ Capacity \in Nat /\ Slots \in Nat /\ MaxRetries \in Nat
         /\ Cardinality(Busy) <= Slots
         /\ \A i \in Intents : Cost[i] \in Nat /\ Cost[i] <= Capacity
         /\ \A i \in Intents : Retries(i) \in Nat /\ Retries(i) <= MaxRetries
<1>1. \A i \in Intents : Retries(i) \in Nat /\ Retries(i) <= MaxRetries
  BY AgentAssumption DEF Retries
<1>2. task \in [RunIds -> Task] /\ Cardinality(Busy) <= Slots
  BY DEF TypeOK, RunIds, Busy
<1> QED BY <1>1, <1>2, AgentAssumption DEF TypeOK

\* What is held and busy after one run changed.
LEMMA OneChanges ==
  ASSUME task \in [RunIds -> Task], NEW w \in RunIds, NEW t \in Task,
         task' = [task EXCEPT ![w] = t]
  PROVE  /\ task' \in [RunIds -> Task] /\ task'[w] = t
         /\ \A v \in RunIds \ {w} : task'[v] = task[v]
         /\ Held' = IF t.at \in Holding THEN Held \cup {w} ELSE Held \ {w}
         /\ Busy' = IF t.at \in Active THEN Busy \cup {w} ELSE Busy \ {w}
<1>1. /\ task' \in [RunIds -> Task] /\ task'[w] = t
      /\ \A v \in RunIds \ {w} : task'[v] = task[v]
  OBVIOUS
<1>2. Held' = IF t.at \in Holding THEN Held \cup {w} ELSE Held \ {w}
  BY <1>1 DEF Held
<1>3. Busy' = IF t.at \in Active THEN Busy \cup {w} ELSE Busy \ {w}
  BY <1>1 DEF Busy
<1> QED BY <1>1, <1>2, <1>3

LEMMA ConservationIs == AttentionIsConserved <=> available + Leased(Held) = Capacity
BY DEF AttentionIsConserved, Leased, Held, RunIds

LEMMA ConservationThen == AttentionIsConserved' <=> available' + Leased(Held') = Capacity
<1>1. (AttentionIsConserved <=> available + Leased(Held) = Capacity)'
  BY ConservationIs, PTL
<1> QED BY <1>1

LEMMA BusyIsFinite ==
  ASSUME IsFiniteSet(Held)
  PROVE  IsFiniteSet(Busy) /\ Cardinality(Busy) \in Nat
<1>1. Busy \in SUBSET Held
  BY DEF Busy, Held, Holding
<1> QED BY <1>1, FS_Subset, FS_CardinalityType

\* The lease that a run holds at a position.
Lease(w, at) == IF at \in Holding THEN Price(w) ELSE 0

\* A slot is free.
SlotIsFree == Cardinality(Busy) < Slots

\* One run changes, takes or gives back what its lease says, and a slot if one is free.
LEMMA OneStep ==
  ASSUME AccountInv, Frame, NEW w \in RunIds, NEW t \in Task, task' = [task EXCEPT ![w] = t],
         available' + Lease(w, t.at) = available + Lease(w, task[w].at),
         available' \in Nat,
         t.at \in Active => task[w].at \in Active \/ SlotIsFree,
         AttemptsFit(w[1], t),
         t.at = "succeeded" => <<"succeeded", w[1]>> \in log'
  PROVE  AccountInv'
<1>1. /\ task \in [RunIds -> Task] /\ available \in Nat /\ available <= Capacity
      /\ Capacity \in Nat /\ Slots \in Nat
      /\ Cardinality(Busy) <= Slots /\ Price(w) \in Nat
  BY TypeFacts, AgentAssumption DEF Price, RunIds, AccountInv, AttentionInv
<1>2. /\ task' \in [RunIds -> Task] /\ task'[w] = t
      /\ \A v \in RunIds \ {w} : task'[v] = task[v]
      /\ Held' = IF t.at \in Holding THEN Held \cup {w} ELSE Held \ {w}
      /\ Busy' = IF t.at \in Active THEN Busy \cup {w} ELSE Busy \ {w}
  BY <1>1, OneChanges
<1>3. IsFiniteSet(Held) /\ Held \in SUBSET RunIds
  BY DEF AccountInv, Held
<1>4. IsFiniteSet(Held')
  BY <1>2, <1>3, FS_AddElement, FS_RemoveElement
<1>5. IsFiniteSet(Busy) /\ Cardinality(Busy) \in Nat
  BY <1>3, BusyIsFinite
<1>6. Cardinality(Busy') <= Slots
  <2>1. CASE t.at \notin Active
    <3>1. Busy' \in SUBSET Busy
      BY <1>2, <2>1
    <3>2. Cardinality(Busy') <= Cardinality(Busy) /\ IsFiniteSet(Busy')
      BY <1>5, <3>1, FS_Subset
    <3>3. Cardinality(Busy') \in Nat
      BY <3>2, FS_CardinalityType
    <3> QED BY <1>1, <1>5, <3>2, <3>3
  <2>2. CASE t.at \in Active /\ w \in Busy
    <3>1. Busy' = Busy
      BY <1>2, <2>2
    <3> QED BY <1>1, <3>1
  <2>3. CASE t.at \in Active /\ w \notin Busy
    <3>1. SlotIsFree
      BY <2>3 DEF Busy
    <3>2. Cardinality(Busy) < Slots
      BY <3>1 DEF SlotIsFree
    <3>3. Cardinality(Busy') = Cardinality(Busy) + 1
      BY <1>2, <1>5, <2>3, FS_AddElement
    <3> QED BY <1>1, <1>5, <3>2, <3>3
  <2> QED BY <2>1, <2>2, <2>3
<1>7. available + Leased(Held) = Capacity
  BY ConservationIs DEF AccountInv, AttentionInv
<1>8. available' + Leased(Held') = Capacity /\ Leased(Held') \in Nat
  <2> DEFINE rest == Held \ {w}
  <2>1. rest \in SUBSET RunIds /\ IsFiniteSet(rest) /\ w \in RunIds \ rest
    BY <1>3, FS_RemoveElement
  <2>2. Leased(rest) \in Nat /\ Leased(rest \cup {w}) = Price(w) + Leased(rest)
    BY <2>1, LeasedGrows
  <2>4. Leased(Held) = Lease(w, task[w].at) + Leased(rest)
    <3>1. CASE task[w].at \in Holding
      <4>1. Held = rest \cup {w}
        BY <3>1 DEF Held
      <4> HIDE DEF rest
      <4> QED BY <2>2, <3>1, <4>1 DEF Lease
    <3>2. CASE task[w].at \notin Holding
      <4>1. Held = rest
        BY <3>2 DEF Held
      <4> HIDE DEF rest
      <4> QED BY <2>2, <3>2, <4>1 DEF Lease
    <3> QED BY <3>1, <3>2
  <2>5. Leased(Held') = Lease(w, t.at) + Leased(rest)
    <3>1. CASE t.at \in Holding
      <4>1. Held' = rest \cup {w}
        BY <1>2, <3>1
      <4> HIDE DEF rest
      <4> QED BY <2>2, <3>1, <4>1 DEF Lease
    <3>2. CASE t.at \notin Holding
      <4>1. Held' = rest
        BY <1>2, <3>2
      <4> HIDE DEF rest
      <4> QED BY <2>2, <3>2, <4>1 DEF Lease
    <3> QED BY <3>1, <3>2
  <2>6. Lease(w, t.at) \in Nat /\ Lease(w, task[w].at) \in Nat
    BY <1>1 DEF Lease
  <2> HIDE DEF rest
  <2> QED BY <1>1, <1>7, <2>2, <2>4, <2>5, <2>6
<1>9. available' \in 0..Capacity
  BY <1>1, <1>8
<1>10. TypeOK'
  BY <1>2, <1>6, <1>9 DEF TypeOK, Frame, KeysOf, RunIds, Busy
<1>11. AttentionIsConserved'
  BY <1>8, ConservationThen
<1>12. AttemptsInv'
  <2>1. ASSUME NEW v \in RunIds PROVE AttemptsFit(v[1], task'[v])
    BY <1>2 DEF AccountInv, AttemptsInv
  <2> QED BY <2>1 DEF AttemptsInv, AttemptsFit, Retries
<1>13. SuccessIsRecorded'
  <2>1. ASSUME NEW v \in RunIds, task'[v].at = "succeeded"
        PROVE <<"succeeded", v[1]>> \in log'
    BY <1>2, <2>1 DEF AccountInv, SuccessIsRecorded, Frame
  <2> QED BY <2>1 DEF SuccessIsRecorded
<1> QED BY <1>4, <1>10, <1>11, <1>12, <1>13 DEF AccountInv, AttentionInv

\* No run changes.
LEMMA NoneStep ==
  ASSUME AccountInv, Frame, task' = task, available' = available
  PROVE  AccountInv'
<1>1. Held' = Held
  BY DEF Held
<1>2. TypeOK'
  BY DEF AccountInv, AttentionInv, TypeOK, Frame, KeysOf
<1>3. AttentionIsConserved'
  BY <1>1, ConservationIs, ConservationThen DEF AccountInv, AttentionInv
<1>4. AttemptsInv'
  BY DEF AccountInv, AttemptsInv, AttemptsFit, Retries
<1>5. SuccessIsRecorded'
  BY DEF AccountInv, SuccessIsRecorded, Frame
<1> QED BY <1>1, <1>2, <1>3, <1>4, <1>5 DEF AccountInv, AttentionInv

\* The memory of the process is gone, and the leases with it.
EmptyAccount ==
  /\ task = [w \in Intents \X Runs |-> NoTask] /\ available = Capacity
  /\ log \subseteq Types \X Intents /\ ledger \subseteq KeysOf(log)
  /\ pc \in {"down", "started", "recovering", "running"} 
  /\ {pending, orphans, contested} \subseteq SUBSET Intents
  /\ unread \subseteq {KeyOf[i] : i \in Intents}
  /\ calls \in [Intents -> Nat]
  /\ spent \in [crashes : 0..MaxCrashes, failures : 0..MaxFailures]

LEMMA NothingIsHeld == EmptyAccount => AccountInv
<1> SUFFICES ASSUME EmptyAccount PROVE AccountInv
  OBVIOUS
<1>1. NoTask \in Task /\ NoTask.at = "none" /\ NoTask.attempt = 0
  <2>1. 0 \in 0..(MaxRetries + 1)
    BY ConstantsAreNumbers
  <2> QED BY <2>1 DEF NoTask, Task
<1>2. "none" \notin Holding /\ "none" \notin Active /\ "none" \in Early
  BY DEF Holding, Active, Early
<1>3. /\ task \in [RunIds -> Task] /\ available = Capacity
      /\ \A w \in RunIds : task[w] = NoTask
  <2>1. task = [w \in RunIds |-> NoTask] /\ available = Capacity
    BY DEF EmptyAccount, RunIds
  <2>2. NoTask \in Task
    BY <1>1
  <2>3. task \in [RunIds -> Task]
    BY <2>1, <2>2
  <2>4. \A w \in RunIds : task[w] = NoTask
    BY <2>1
  <2> QED BY <2>1, <2>3, <2>4
<1>4. Held = {} /\ Busy = {}
  BY <1>1, <1>2, <1>3 DEF Held, Busy
<1>5. IsFiniteSet({}) /\ Cardinality({}) = 0
  BY FS_EmptySet
<1>6. TypeOK
  <2>1. Cardinality(Busy) <= Slots
    BY <1>4, <1>5, ConstantsAreNumbers
  <2>2. available \in 0..Capacity
    BY <1>3, ConstantsAreNumbers
  <2>3. task \in [Intents \X Runs -> Task]
    BY <1>3 DEF RunIds
  <2>4. Cardinality({w \in Intents \X Runs : task[w].at \in Active}) <= Slots
    BY <2>1 DEF Busy, RunIds
  <2>5. /\ log \subseteq Types \X Intents
        /\ pending \subseteq Intents /\ orphans \subseteq Intents /\ contested \subseteq Intents
        /\ unread \subseteq {KeyOf[i] : i \in Intents}
        /\ pc \in {"down", "started", "recovering", "running"}
        /\ ledger \subseteq {KeyOf[i] : i \in {j \in Intents : <<"succeeded", j>> \in log}}
        /\ calls \in [Intents -> Nat]
        /\ spent \in [crashes : 0..MaxCrashes, failures : 0..MaxFailures]
    BY DEF EmptyAccount, KeysOf
  <2> QED BY <2>2, <2>3, <2>4, <2>5, Zenon DEF TypeOK
<1>7. AttentionIsConserved
  <2>1. available + Leased(Held) = Capacity
    BY <1>3, <1>4, NothingLeased, ConstantsAreNumbers
  <2> QED BY <2>1, ConservationIs
<1>8. AttemptsInv /\ SuccessIsRecorded
  <2>1. \A i \in Intents : 0 <= Retries(i) /\ 0 <= Retries(i) + 1
    BY ConstantsAreNumbers DEF Retries
  <2>2. \A w \in RunIds : w[1] \in Intents
    BY DEF RunIds
  <2> QED BY <1>1, <1>2, <1>3, <2>1, <2>2 DEF AttemptsInv, AttemptsFit, SuccessIsRecorded
<1> QED BY <1>4, <1>5, <1>6, <1>7, <1>8 DEF AccountInv, AttentionInv

-----------------------------------------------------------------------------
\* Every action keeps the account.

LEMMA Pairs ==
  \A i \in Intents, r \in Runs : <<i, r>> \in RunIds /\ task[<<i, r>>] = task[i, r]
BY DEF RunIds

LEMMA RecordIsTyped ==
  ASSUME NEW i \in Intents, NEW r \in Runs
  PROVE  Record(i, r) \subseteq Types \X Intents
<1>1. {"authorized", "denied", "deferred", "skipped", "dispatched", "succeeded", "failed",
       "compensated"} \subseteq Types
  BY DEF Types, Terminal
<1>2. CASE task[i, r].at \in {"selected", "authorized"}
  <2>1. Record(i, r) \in {{<<"authorized", i>>, <<"denied", i>>}, {<<"deferred", i>>}, {}}
    BY <1>2, Zenon DEF Record
  <2> QED BY <1>1, <2>1
<1>3. CASE task[i, r].at \in {"skipping", "dispatching"}
  <2>1. Record(i, r) \in {{<<"skipped", i>>}, {<<"dispatched", i>>}}
    BY <1>3, Zenon DEF Record
  <2> QED BY <1>1, <2>1
<1>4. CASE task[i, r].at \in {"succeeding", "failing", "compensating"}
  <2>1. Record(i, r) \in {{<<"succeeded", i>>}, {<<"failed", i>>}, {<<"compensated", i>>}}
    BY <1>4, Zenon DEF Record
  <2> QED BY <1>1, <2>1
<1>5. CASE task[i, r].at \notin {"selected", "authorized", "skipping", "dispatching",
                                 "succeeding", "failing", "compensating"}
  <2>1. Record(i, r) = {}
    BY <1>5, Zenon DEF Record
  <2> QED BY <2>1
<1> QED BY <1>2, <1>3, <1>4, <1>5

\* What a success adds to the ledger.
LEMMA RememberedIsTyped ==
  ASSUME AccountInv, NEW i \in Intents, NEW r \in Runs, task[i, r].at = "succeeded"
  PROVE  Remembered(i) \subseteq KeysOf(log)
<1>1. <<"succeeded", i>> \in log
  <2>1. PICK w : w = <<i, r>>
    OBVIOUS
  <2>2. w \in RunIds /\ w[1] = i /\ task[w].at = "succeeded"
    BY <2>1, Pairs, Zenon
  <2> QED BY <2>2 DEF AccountInv, SuccessIsRecorded
<1>2. ledger \subseteq KeysOf(log) /\ KeyOf[i] \in KeysOf(log)
  BY <1>1 DEF AccountInv, AttentionInv, TypeOK, KeysOf
<1> QED BY <1>2 DEF Remembered

\* An event is recorded, and nothing but tasks and attention changes besides.
LEMMA FrameRecords ==
  ASSUME TypeOK, NEW i \in Intents, NEW t \in Types,
         log' = log \/ log' = log \cup {<<t, i>>},
         pc' = pc, pending' \subseteq pending, ledger' = ledger, calls' = calls, spent' = spent,
         orphans' = orphans, contested' = contested, unread' = unread
  PROVE  Frame
<1>1. log \subseteq log' /\ log' \subseteq Types \X Intents
  BY DEF TypeOK
<1>2. KeysOf(log) \subseteq KeysOf(log')
  BY <1>1 DEF KeysOf
<1> QED BY <1>1, <1>2 DEF TypeOK, Frame, KeysOf

LEMMA FailuresAreBound ==
  ASSUME spent \in [crashes : 0..MaxCrashes, failures : 0..MaxFailures], Fails
  PROVE  spent' \in [crashes : 0..MaxCrashes, failures : 0..MaxFailures]
BY ConstantsAreNumbers DEF Fails

\* What an action leaves to FrameRecords.
Plain == UNCHANGED <<pc, ledger, calls, spent, orphans, contested, unread>>

LEMMA FrameOf ==
  ASSUME AccountInv, Next
  PROVE  Frame
<1>0. TypeOK /\ pc \in {"down", "started", "recovering", "running"}
  BY DEF AccountInv, AttentionInv, TypeOK
<1>1. CASE Start \/ Recovered \/ Stop
  BY <1>0, <1>1 DEF Start, Recovered, Stop, TypeOK, Frame, KeysOf
<1>2. CASE Restore
  <2>1. SucceededKeys \subseteq KeysOf(log)
    BY DEF SucceededKeys, KeysOf
  <2>2. Authorized \ Settled \subseteq Intents
    BY DEF Authorized
  <2>3. /\ UNCHANGED <<log, orphans, calls, spent>> /\ pc' = "recovering" /\ unread' = {}
        /\ pending' \subseteq Intents /\ contested' \subseteq contested \cup Intents
        /\ ledger' = ledger \cup SucceededKeys
    BY <1>2, <2>2 DEF Restore, Recovers
  <2> QED BY <1>0, <2>1, <2>3 DEF TypeOK, Frame, KeysOf
<1>3. CASE Crash \/ Exit
  <2>1. spent' \in [crashes : 0..MaxCrashes, failures : 0..MaxFailures]
    BY <1>0, <1>3, AgentAssumption DEF Crash, Exit, TypeOK
  <2>2. SucceededKeys \subseteq {KeyOf[i] : i \in Intents}
    BY DEF SucceededKeys
  <2>3. Loses
    BY <1>3 DEF Crash, Exit
  <2> QED BY <1>0, <2>1, <2>2, <2>3 DEF Loses, TypeOK, Frame, KeysOf
<1>4. CASE StartRaises
  <2>1. log \subseteq log' /\ log' \subseteq Types \X Intents
    <3>1. "abandoned" \in Types /\ "reauthorized" \in Types
      BY DEF Types, Terminal
    <3>2. \/ log' = log
          \/ \E i \in pending, t \in {"abandoned", "reauthorized"} : log' = log \cup {<<t, i>>}
      BY <1>4 DEF StartRaises
    <3> QED BY <1>0, <3>1, <3>2 DEF TypeOK
  <2>2. KeysOf(log) \subseteq KeysOf(log')
    BY <2>1 DEF KeysOf
  <2>3. spent' \in [crashes : 0..MaxCrashes, failures : 0..MaxFailures]
    BY <1>0, <1>4, FailuresAreBound DEF StartRaises, TypeOK
  <2>4. pc' = "running" /\ pending' = {} /\ UNCHANGED <<ledger, orphans, calls, contested, unread>>
    BY <1>4 DEF StartRaises
  <2> QED BY <1>0, <2>1, <2>2, <2>3, <2>4 DEF TypeOK, Frame, KeysOf
<1>5. ASSUME NEW i \in Intents, Select(i) \/ _handle_trigger(i) \/ _restore_execution_state(i)
      PROVE  Frame
  <2>1. /\ Plain /\ pending' \subseteq pending
        /\ \/ log' = log
           \/ \E t \in {"authorized", "denied", "abandoned", "reauthorized"} :
                log' = log \cup {<<t, i>>}
    BY <1>5 DEF Select, _handle_trigger, _restore_execution_state, Authorize, Deny, Abandon,
                Reauthorize, Recovering, Records, Elsewhere, Plain
  <2>2. {"authorized", "denied", "abandoned", "reauthorized"} \subseteq Types
    BY DEF Types, Terminal
  <2> QED BY <1>0, <2>1, <2>2, FrameRecords DEF Plain
<1>6. ASSUME NEW i \in Intents, NEW r \in Runs, Acquire(i, r) \/ Defer(i, r) PROVE Frame
  <2>1. /\ Plain /\ pending' \subseteq pending
        /\ log' = log \/ log' = log \cup {<<"deferred", i>>}
    BY <1>6 DEF Acquire, Defer, Records, Elsewhere, Plain
  <2>2. "deferred" \in Types
    BY DEF Types
  <2> QED BY <1>0, <2>1, <2>2, FrameRecords DEF Plain
<1>7. ASSUME NEW i \in Intents, NEW r \in Runs, _execute_intent(i, r) PROVE Frame
  <2>1. CASE RememberKey(i, r)
    <3>1. Remembered(i) \subseteq KeysOf(log)
      BY <2>1, RememberedIsTyped DEF RememberKey
    <3>2. /\ UNCHANGED <<log, pc, pending, calls, spent, orphans, contested, unread>>
          /\ ledger' = Remembered(i)
      BY <2>1 DEF RememberKey, Elsewhere
    <3> QED BY <1>0, <3>1, <3>2 DEF TypeOK, Frame, KeysOf
  <2>2. CASE Call(i, r)
    <3>0. calls' = [calls EXCEPT ![i] = @ + 1]
      BY <2>2 DEF Call
    <3>1. calls' \in [Intents -> Nat]
      BY <1>0, <3>0, CallsFacts DEF TypeOK
    <3>2. UNCHANGED <<log, pc, pending, ledger, spent, orphans, contested, unread>>
      BY <2>2 DEF Call, Elsewhere
    <3> QED BY <1>0, <3>1, <3>2 DEF TypeOK, Frame, KeysOf
  <2>3. CASE ~RememberKey(i, r) /\ ~Call(i, r)
    <3>1. /\ Plain /\ pending' \subseteq pending
          /\ \/ log' = log
             \/ \E t \in {"skipped", "dispatched", "succeeded", "failed", "compensated"} :
                  log' = log \cup {<<t, i>>}
      BY <1>7, <2>3 DEF _execute_intent, Enter, Skip, Dispatch, Return, RecordSuccess,
                        RecordFailure, Compensate, Records, Elsewhere, Plain
    <3>2. {"skipped", "dispatched", "succeeded", "failed", "compensated"} \subseteq Types
      BY DEF Types, Terminal
    <3> QED BY <1>0, <3>1, <3>2, FrameRecords DEF Plain
  <2> QED BY <2>1, <2>2, <2>3
<1>8. ASSUME NEW i \in Intents, NEW r \in Runs, Raise(i, r) PROVE Frame
  <2>0. /\ log' = log \/ \E e \in Record(i, r) : log' = log \cup {e}
        /\ ledger' = IF task[i, r].at = "succeeded" THEN Remembered(i) ELSE ledger
        /\ unread' \subseteq unread \cup {KeyOf[i]}
        /\ UNCHANGED <<calls, contested>>
        /\ (pc' = pc /\ pending' = pending) \/ (pc' = "running" /\ pending' = {})
    BY <1>8 DEF Raise
  <2>1. log \subseteq log' /\ log' \subseteq Types \X Intents
    BY <1>0, <2>0, RecordIsTyped DEF TypeOK
  <2>2. KeysOf(log) \subseteq KeysOf(log')
    BY <2>1 DEF KeysOf
  <2>3. spent' \in [crashes : 0..MaxCrashes, failures : 0..MaxFailures]
    BY <1>0, <1>8, FailuresAreBound DEF Raise, TypeOK
  <2>4. ledger' \subseteq KeysOf(log)
    BY <1>0, <2>0, RememberedIsTyped DEF TypeOK, KeysOf
  <2>5. orphans' \subseteq Intents
    <3>1. Siblings(i, r) \subseteq Intents
      BY DEF Siblings
    <3>2. PICK left \in SUBSET Siblings(i, r) : orphans' = orphans \cup left
      BY <1>8 DEF Raise
    <3> QED BY <1>0, <3>1, <3>2 DEF TypeOK
  <2>6. unread' \subseteq {KeyOf[j] : j \in Intents}
    BY <1>0, <2>0 DEF TypeOK
  <2>7. /\ pc' \in {"down", "started", "recovering", "running"} /\ calls' \in [Intents -> Nat]
        /\ pending' \subseteq Intents /\ contested' \subseteq Intents
    BY <1>0, <2>0 DEF TypeOK
  <2>8. ledger' \subseteq KeysOf(log')
    BY <2>2, <2>4
  <2> QED BY <2>1, <2>3, <2>5, <2>6, <2>7, <2>8 DEF Frame
<1> QED BY <1>1, <1>2, <1>3, <1>4, <1>5, <1>6, <1>7, <1>8 DEF Next, _execute_with_lease

\* A run moves from one position to another.
LEMMA MoveStep ==
  ASSUME AccountInv, Frame, NEW i \in Intents, NEW r \in Runs, NEW at \in Positions,
         Moves(i, r, at), NEW w, w = <<i, r>>,
         available' + Lease(w, at) = available + Lease(w, task[w].at), available' \in Nat,
         at \in Active => task[w].at \in Active \/ FreeSlot,
         at \in Early => task[w].at \in Early,
         at = "ready" => \/ task[w].at = "dispatching"
                         \/ task[w].at = "calling" /\ task[w].attempt <= Retries(i),
         at # "calling",
         at = "succeeded" => <<"succeeded", i>> \in log'
  PROVE  AccountInv'
<1>1. task \in [RunIds -> Task] /\ Retries(i) \in Nat
  BY TypeFacts DEF AccountInv, AttentionInv
<1>2. w \in RunIds /\ w[1] = i
  BY DEF RunIds
<1>3. task[w] \in Task
  BY <1>1, <1>2
<1>4. PICK t : t = [task[w] EXCEPT !.at = at]
  OBVIOUS
<1>5. t \in Task /\ t.at = at /\ t.attempt = task[w].attempt
  BY <1>3, <1>4 DEF Task, Positions
<1>6. task' = [task EXCEPT ![w] = t]
  <2>1. task' = [task EXCEPT ![w].at = at]
    BY DEF Moves
  <2> QED BY <1>2, <1>4, <2>1
<1>7. AttemptsFit(w[1], task[w])
  BY <1>2 DEF AccountInv, AttemptsInv
<1>8. AttemptsFit(w[1], t)
  <2>1. t.at \in Early => t.attempt = 0
    BY <1>5, <1>7 DEF AttemptsFit
  <2>2. t.at = "ready" => t.attempt <= Retries(i)
    <3>1. "dispatching" \in Early
      BY DEF Early
    <3>2. 0 <= Retries(i)
      BY <1>1
    <3> QED BY <1>5, <1>7, <3>1, <3>2 DEF AttemptsFit
  <2> QED BY <1>2, <1>5, <2>1, <2>2 DEF AttemptsFit
<1>9. SlotIsFree <=> FreeSlot
  BY DEF SlotIsFree, FreeSlot, Busy, RunIds
<1> QED BY <1>2, <1>5, <1>6, <1>8, <1>9, OneStep

\* A move that keeps what the run holds, or takes a slot for one that waited.
SameLease(from, at) ==
  /\ at \in Positions /\ at # "calling"
  /\ at \in Holding <=> from \in Holding
  /\ at \in Active => from \in Active \cup {"waiting"}
  /\ at \in Early => from \in Early

LEMMA SameLeases ==
  /\ SameLease("none", "selected") /\ SameLease("selected", "authorized")
  /\ SameLease("selected", "none") /\ SameLease("authorized", "none")
  /\ SameLease("none", "authorized")
  /\ SameLease("waiting", "skipping") /\ SameLease("waiting", "dispatching")
  /\ SameLease("dispatching", "ready") /\ SameLease("calling", "ready")
  /\ SameLease("calling", "succeeding") /\ SameLease("calling", "failing")
  /\ SameLease("succeeding", "succeeded") /\ SameLease("failing", "compensating")
BY DEF SameLease, Positions, Holding, Active, Early

LEMMA QuietMove ==
  ASSUME AccountInv, Frame, NEW i \in Intents, NEW r \in Runs, NEW at, NEW from,
         Moves(i, r, at), NEW w, w = <<i, r>>, available' = available,
         task[w].at = from, SameLease(from, at),
         from = "waiting" => FreeSlot,
         at = "ready" => \/ from = "dispatching"
                         \/ from = "calling" /\ task[w].attempt <= Retries(i),
         at = "succeeded" => <<"succeeded", i>> \in log'
  PROVE  AccountInv'
<1>1. available' + Lease(w, at) = available + Lease(w, task[w].at)
  BY DEF Lease, SameLease
<1>2. available' \in Nat
  BY TypeFacts DEF AccountInv, AttentionInv
<1>3. /\ at \in Positions /\ at # "calling"
      /\ at \in Active => task[w].at \in Active \/ FreeSlot
      /\ at \in Early => task[w].at \in Early
  BY DEF SameLease
<1> QED BY <1>1, <1>2, <1>3, MoveStep

\* The run is over: its lease is settled.
LEMMA FinishStep ==
  ASSUME AccountInv, Frame, NEW i \in Intents, NEW r \in Runs, Finishes(i, r)
  PROVE  AccountInv'
<1>1. PICK w : w = <<i, r>>
  OBVIOUS
<1>2. w \in RunIds /\ w[1] = i /\ task[i, r] = task[w]
  BY <1>1, Pairs, Zenon
<1>3. /\ NoTask \in Task /\ NoTask.at = "none" /\ NoTask.attempt = 0
      /\ "none" \notin Holding /\ "none" \notin Active
  BY AgentAssumption DEF NoTask, Task, Holding, Active
<1>4. task' = [task EXCEPT ![w] = NoTask]
  BY <1>1, Zenon DEF Finishes
<1>5. available' = IF task[w].at \in Holding THEN available + Cost[i] ELSE available
  BY <1>2, Zenon DEF Finishes
<1>6. available \in Nat /\ Cost[i] \in Nat /\ Price(w) = Cost[i]
  BY <1>2, TypeFacts DEF AccountInv, AttentionInv, Price
<1>7. available' + Lease(w, NoTask.at) = available + Lease(w, task[w].at) /\ available' \in Nat
  BY <1>3, <1>5, <1>6 DEF Lease
<1>8. AttemptsFit(w[1], NoTask)
  BY <1>3 DEF AttemptsFit
<1> QED BY <1>2, <1>3, <1>4, <1>7, <1>8, OneStep

\* The actions of a cycle up to its lease.
LEMMA CycleAccount ==
  ASSUME AccountInv, Next, NEW i \in Intents, NEW r \in Runs,
         \/ r = "cycle" /\ (Select(i) \/ Authorize(i) \/ Deny(i))
         \/ Acquire(i, r) \/ Defer(i, r)
  PROVE  AccountInv'
<1>0. Frame
  BY FrameOf
<1>1. PICK w : w = <<i, r>>
  OBVIOUS
<1>2. w \in RunIds /\ w[1] = i /\ task[w] = task[i, r]
  BY <1>1, Pairs, Zenon
<1>3. /\ "authorized" \notin Holding /\ "waiting" \in Holding /\ "waiting" \in Positions
      /\ "waiting" \notin Active /\ "authorized" \in Early
  BY DEF Positions, Early, Holding, Active
<1>4. CASE r = "cycle" /\ Select(i)
  <2>0. task[i, "cycle"] = NoTask /\ Moves(i, "cycle", "selected") /\ available' = available
    BY <1>4, Zenon DEF Select
  <2>1. task[w] = NoTask /\ Moves(i, r, "selected")
    BY <1>2, <1>4, <2>0, Zenon
  <2>2. task[w].at = "none"
    BY <2>1 DEF NoTask
  <2> QED BY <1>0, <1>1, <2>0, <2>1, <2>2, SameLeases, QuietMove
<1>5. CASE r = "cycle" /\ Authorize(i)
  <2>1. task[w].at = "selected" /\ Moves(i, r, "authorized") /\ available' = available
    BY <1>2, <1>5, Zenon DEF Authorize
  <2> QED BY <1>0, <1>1, <2>1, SameLeases, QuietMove
<1>6. CASE r = "cycle" /\ Deny(i)
  <2>1. task[w].at = "selected" /\ Moves(i, r, "none") /\ available' = available
    BY <1>2, <1>6, Zenon DEF Deny
  <2> QED BY <1>0, <1>1, <2>1, SameLeases, QuietMove
<1>7. CASE Acquire(i, r)
  <2>1. /\ task[w].at = "authorized" /\ Moves(i, r, "waiting")
        /\ Cost[i] <= available /\ available' = available - Cost[i]
    BY <1>2, <1>7, Zenon DEF Acquire
  <2>2. available \in Nat /\ Cost[i] \in Nat /\ Price(w) = Cost[i]
    BY <1>2, TypeFacts DEF AccountInv, AttentionInv, Price
  <2>3. /\ available' + Lease(w, "waiting") = available + Lease(w, task[w].at)
        /\ available' \in Nat
    BY <1>3, <2>1, <2>2 DEF Lease
  <2> QED BY <1>0, <1>1, <1>3, <2>1, <2>3, MoveStep
<1>8. CASE Defer(i, r)
  <2>1. task[w].at = "authorized" /\ Moves(i, r, "none") /\ available' = available
    BY <1>2, <1>8, Zenon DEF Defer
  <2> QED BY <1>0, <1>1, <2>1, SameLeases, QuietMove
<1> QED BY <1>4, <1>5, <1>6, <1>7, <1>8

\* The capability is called once more.
LEMMA CallAccount ==
  ASSUME AccountInv, Next, NEW i \in Intents, NEW r \in Runs, Call(i, r)
  PROVE  AccountInv'
<1>0. Frame
  BY FrameOf
<1>1. PICK w : w = <<i, r>>
  OBVIOUS
<1>2. w \in RunIds /\ w[1] = i /\ task[w] = task[i, r]
  BY <1>1, Pairs, Zenon
<1>3. task[w].at = "ready" /\ available' = available
  BY <1>2, Zenon DEF Call
<1>4. task[w] \in Task /\ Retries(i) \in Nat /\ Retries(i) <= MaxRetries /\ MaxRetries \in Nat
      /\ available \in Nat
  BY <1>2, TypeFacts DEF AccountInv, AttentionInv
<1>5. PICK t : t = [at |-> "calling", attempt |-> task[w].attempt + 1]
  OBVIOUS
<1>6. task' = [task EXCEPT ![w] = t]
  <2>1. task' = [task EXCEPT ![<<i, r>>] = [at |-> "calling", attempt |-> @.attempt + 1]]
    BY Zenon DEF Call
  <2>2. task' = [task EXCEPT ![w] = [at |-> "calling", attempt |-> task[w].attempt + 1]]
    BY <1>1, <2>1
  <2> QED BY <1>5, <2>2
<1>7. task[w].attempt \in Nat /\ task[w].attempt <= Retries(i)
  <2>1. AttemptsFit(i, task[w])
    BY <1>2 DEF AccountInv, AttemptsInv
  <2>2. task[w].attempt \in 0..(MaxRetries + 1)
    BY <1>4 DEF Task
  <2> QED BY <1>3, <1>4, <2>1, <2>2 DEF AttemptsFit
<1>8. t \in Task /\ t.at = "calling" /\ t.attempt = task[w].attempt + 1
  <2>1. "calling" \in Holding
    BY DEF Holding, Active
  <2>2. PICK n : n = task[w].attempt + 1
    OBVIOUS
  <2>3. n \in 0..(MaxRetries + 1)
    BY <1>4, <1>7, <2>2
  <2>4. t = [at |-> "calling", attempt |-> n]
    BY <1>5, <2>2
  <2>5. t \in Task
    BY <2>1, <2>3, <2>4 DEF Task
  <2>6. t.at = "calling" /\ t.attempt = n
    BY <2>4
  <2> QED BY <2>2, <2>5, <2>6
<1>9. AttemptsFit(w[1], t)
  <2>1. t.attempt <= Retries(i) + 1
    BY <1>4, <1>7, <1>8
  <2> QED BY <1>2, <1>8, <2>1 DEF AttemptsFit, Early
<1>10. {"ready", "calling"} \subseteq Active /\ {"ready", "calling"} \subseteq Holding
  BY DEF Holding, Active
<1>11. available' + Lease(w, t.at) = available + Lease(w, task[w].at)
  BY <1>3, <1>8, <1>10 DEF Lease
<1> QED BY <1>0, <1>2, <1>3, <1>4, <1>6, <1>8, <1>9, <1>10, <1>11, OneStep

\* What a run does with its lease, until it settles it.
LEMMA ExecuteAccount ==
  ASSUME AccountInv, Next, NEW i \in Intents, NEW r \in Runs, _execute_intent(i, r)
  PROVE  AccountInv'
<1>0. Frame
  BY FrameOf
<1>1. PICK w : w = <<i, r>>
  OBVIOUS
<1>2. w \in RunIds /\ w[1] = i /\ task[w] = task[i, r]
  BY <1>1, Pairs, Zenon
<1>4. CASE Enter(i, r)
  <2>1. /\ task[w].at = "waiting" /\ FreeSlot /\ available' = available
        /\ Moves(i, r, "skipping") \/ Moves(i, r, "dispatching")
    BY <1>2, <1>4, Zenon DEF Enter
  <2> QED BY <1>0, <1>1, <2>1, SameLeases, QuietMove
<1>5. CASE Dispatch(i, r)
  <2>1. task[w].at = "dispatching" /\ Moves(i, r, "ready") /\ available' = available
    BY <1>2, <1>5, Zenon DEF Dispatch
  <2> QED BY <1>0, <1>1, <2>1, SameLeases, QuietMove
<1>6. CASE Return(i, r)
  <2>1. /\ task[w].at = "calling" /\ available' = available
        /\ \/ Moves(i, r, "succeeding")
           \/ Moves(i, r, "failing")
           \/ task[w].attempt <= Retries(i) /\ Moves(i, r, "ready")
    BY <1>2, <1>6, Zenon DEF Return
  <2>2. CASE Moves(i, r, "succeeding")
    BY <1>0, <1>1, <2>1, <2>2, SameLeases, QuietMove
  <2>3. CASE Moves(i, r, "failing")
    BY <1>0, <1>1, <2>1, <2>3, SameLeases, QuietMove
  <2>4. CASE task[w].attempt <= Retries(i) /\ Moves(i, r, "ready")
    BY <1>0, <1>1, <2>1, <2>4, SameLeases, QuietMove
  <2> QED BY <2>1, <2>2, <2>3, <2>4
<1>7. CASE RecordSuccess(i, r)
  <2>1. /\ task[w].at = "succeeding" /\ Moves(i, r, "succeeded") /\ available' = available
        /\ <<"succeeded", i>> \in log'
    BY <1>2, <1>7, Zenon DEF RecordSuccess, Records
  <2> QED BY <1>0, <1>1, <2>1, SameLeases, QuietMove
<1>8. CASE RecordFailure(i, r)
  <2>1. /\ task[w].at = "failing"
        /\ Finishes(i, r) \/ (Moves(i, r, "compensating") /\ available' = available)
    BY <1>2, <1>8, Zenon DEF RecordFailure
  <2>2. CASE Finishes(i, r)
    BY <1>0, <2>2, FinishStep
  <2>3. CASE Moves(i, r, "compensating") /\ available' = available
    BY <1>0, <1>1, <2>1, <2>3, SameLeases, QuietMove
  <2> QED BY <2>1, <2>2, <2>3
<1>9. CASE Skip(i, r) \/ RememberKey(i, r) \/ Compensate(i, r)
  <2>1. Finishes(i, r)
    BY <1>9 DEF Skip, RememberKey, Compensate
  <2> QED BY <1>0, <2>1, FinishStep
<1>10. CASE Call(i, r)
  BY <1>10, CallAccount
<1> QED BY <1>4, <1>5, <1>6, <1>7, <1>8, <1>9, <1>10 DEF _execute_intent

\* The recovery gives up an intent or takes it up again.
LEMMA RestoreAccount ==
  ASSUME AccountInv, Next, NEW i \in Intents, _restore_execution_state(i)
  PROVE  AccountInv'
<1>0. Frame
  BY FrameOf
<1>1. CASE Abandon(i)
  <2>1. task' = task /\ available' = available
    BY <1>1 DEF Abandon, Recovering
  <2> QED BY <1>0, <2>1, NoneStep
<1>2. CASE Reauthorize(i)
  <2>0. PICK r \in Runs : r = "recovery"
    BY DEF Runs
  <2>1. PICK w : w = <<i, r>>
    OBVIOUS
  <2>2. /\ task[i, "recovery"] = NoTask /\ Moves(i, "recovery", "authorized")
        /\ available' = available
    BY <1>2, Zenon DEF Reauthorize, Recovering, Free
  <2>3. task[w] = NoTask /\ Moves(i, r, "authorized")
    BY <2>0, <2>1, <2>2, Pairs, Zenon
  <2>4. task[w].at = "none"
    BY <2>3 DEF NoTask
  <2> QED BY <1>0, <2>1, <2>2, <2>3, <2>4, SameLeases, QuietMove
<1> QED BY <1>1, <1>2 DEF _restore_execution_state

\* The process loses its memory.
LEMMA LosesAccount ==
  ASSUME Frame, Loses
  PROVE  AccountInv'
<1>1. EmptyAccount' => AccountInv'
  BY NothingIsHeld, PTL
<1>2. KeysOf(log)' = KeysOf(log')
  BY DEF KeysOf
<1> QED BY <1>1, <1>2 DEF EmptyAccount, Frame, Loses

LEMMA NextAccount ==
  ASSUME AccountInv, [Next]_vars
  PROVE  AccountInv'
<1>1. CASE UNCHANGED vars
  <2>1. Frame
    BY <1>1 DEF vars, Frame, KeysOf, AccountInv, AttentionInv, TypeOK
  <2> QED BY <1>1, <2>1, NoneStep DEF vars
<1>2. CASE Next
  <2>0. Frame
    BY <1>2, FrameOf
  <2>1. CASE Start \/ Restore \/ Recovered \/ Stop \/ StartRaises
    <3>1. task' = task /\ available' = available
      BY <2>1 DEF Start, Restore, Recovers, Recovered, Stop, StartRaises
    <3> QED BY <2>0, <3>1, NoneStep
  <2>2. CASE Crash \/ Exit
    BY <2>0, <2>2, LosesAccount DEF Crash, Exit
  <2>3. ASSUME NEW i \in Intents, Select(i) \/ _handle_trigger(i) PROVE AccountInv'
    <3>1. PICK r \in Runs : r = "cycle"
      BY DEF Runs
    <3> QED BY <1>2, <2>3, <3>1, CycleAccount DEF _handle_trigger
  <2>4. ASSUME NEW i \in Intents, _restore_execution_state(i) PROVE AccountInv'
    BY <1>2, <2>4, RestoreAccount
  <2>5. ASSUME NEW i \in Intents, NEW r \in Runs, Acquire(i, r) \/ Defer(i, r) PROVE AccountInv'
    BY <1>2, <2>5, CycleAccount
  <2>6. ASSUME NEW i \in Intents, NEW r \in Runs, _execute_intent(i, r) PROVE AccountInv'
    BY <1>2, <2>6, ExecuteAccount
  <2>7. ASSUME NEW i \in Intents, NEW r \in Runs, Raise(i, r) PROVE AccountInv'
    BY <2>0, <2>7, FinishStep DEF Raise
  <2> QED BY <1>2, <2>1, <2>2, <2>3, <2>4, <2>5, <2>6, <2>7 DEF Next, _execute_with_lease
<1> QED BY <1>1, <1>2

LEMMA InitAccount == Init => AccountInv
<1> SUFFICES ASSUME Init PROVE AccountInv
  OBVIOUS
<1>2. 0 \in 0..MaxCrashes /\ 0 \in 0..MaxFailures
  BY ConstantsAreNumbers
<1>3. spent \in [crashes : 0..MaxCrashes, failures : 0..MaxFailures]
  BY <1>2 DEF Init
<1>4. calls \in [Intents -> Nat]
  BY DEF Init
<1>5. EmptyAccount
  BY <1>3, <1>4 DEF Init, EmptyAccount
<1> QED BY <1>5, NothingIsHeld

LEMMA AccountInvariance == Spec => []AccountInv
<1> QED BY InitAccount, NextAccount, PTL DEF Spec

\* attention.py, AttentionAccount: what is not available is held by the runs that will
\* settle it (agent.py:_execute_with_lease), through any crash, retry and emission that
\* raises, and whatever triggers arrive while start() recovers; the slots, the attempts
\* and the ledger stay within their bounds.
THEOREM AttentionIsNeverLost == Spec => []AttentionInv
<1>1. AccountInv => AttentionInv
  BY DEF AccountInv
<1> QED BY <1>1, AccountInvariance, PTL


-----------------------------------------------------------------------------
\* What is contested: only what a raised emission or an early trigger left running.

\* Nothing is left running, and cycles have their time.
NoneContested ==
  ~LiveDuringStart /\ spent.failures = 0 =>
    /\ orphans = {} /\ contested = {}
    /\ \A i \in Intents : task[i, "cycle"].at # "none" => pc = "running"

\* A run takes a step that moves nobody else.
LEMMA RunUncontested ==
  ASSUME ContractInv, NoneContested, NEW i \in Intents, NEW r \in Runs, Others(i, r),
         UNCHANGED <<spent, orphans, contested, pc>>,
         r = "cycle" /\ ~LiveDuringStart /\ task'[i, r].at # "none" =>
           task[i, r].at # "none" \/ pc = "running"
  PROVE  NoneContested'
<1>. SUFFICES ASSUME ~LiveDuringStart, spent.failures = 0
              PROVE  /\ orphans = {} /\ contested = {}
                     /\ \A j \in Intents : task'[j, "cycle"].at # "none" => pc = "running"
  BY DEF NoneContested
<1>1. /\ orphans = {} /\ contested = {}
      /\ \A j \in Intents : task[j, "cycle"].at # "none" => pc = "running"
  BY DEF NoneContested
<1>2. ASSUME NEW j \in Intents, task'[j, "cycle"].at # "none" PROVE pc = "running"
  <2>1. CASE j = i /\ r = "cycle"
    BY <1>1, <1>2, <2>1
  <2>2. CASE j # i \/ r # "cycle"
    <3>1. "cycle" \in Runs
      BY DEF Runs
    <3>2. task'[j, "cycle"] = task[j, "cycle"]
      BY <2>2, <3>1 DEF Others
    <3> QED BY <1>1, <1>2, <3>2
  <2> QED BY <2>1, <2>2
<1> QED BY <1>1, <1>2

\* A failure is one of several.
LEMMA FailuresCount ==
  ASSUME AccountInv, Fails
  PROVE  spent'.failures > 0
<1>1. spent \in [crashes : 0..MaxCrashes, failures : 0..MaxFailures]
  BY DEF AccountInv, AttentionInv, TypeOK
<1> QED BY <1>1, ConstantsAreNumbers DEF Fails

\* An action that a run takes leaves the others alone.
LEMMA StepOfOne ==
  ASSUME ContractInv, NEW i \in Intents, NEW r \in Runs, _execute_with_lease(i, r)
  PROVE  /\ Others(i, r) /\ UNCHANGED <<pc, spent, orphans, contested, unread>>
         /\ task[i, r].at # "none"
<1>1. UNCHANGED <<pc, spent, orphans, contested, unread>>
  BY DEF _execute_with_lease, _execute_intent, Acquire, Defer, Enter, Skip, Dispatch, Call,
         Return, RecordSuccess, RememberKey, RecordFailure, Compensate, Elsewhere
<1>2. task[i, r].at # "none"
  BY DEF _execute_with_lease, _execute_intent, Acquire, Defer, Enter, Skip, Dispatch, Call,
         Return, RecordSuccess, RememberKey, RecordFailure, Compensate
<1>3. CASE \E at \in Positions : Moves(i, r, at)
  BY <1>1, <1>2, <1>3, Moved
<1>4. CASE Finishes(i, r)
  BY <1>1, <1>2, <1>4, Finished
<1>5. CASE Call(i, r)
  <2>1. task' = [task EXCEPT ![<<i, r>>] = [at |-> "calling", attempt |-> task[i, r].attempt + 1]]
    BY <1>5 DEF Call
  <2>2. task \in [Intents \X Runs -> AnyTask] /\ <<i, r>> \in Intents \X Runs
    BY DEF ContractInv, Typed
  <2> QED BY <1>1, <1>2, <2>1, <2>2 DEF Others
<1>6. (\E at \in Positions : Moves(i, r, at)) \/ Finishes(i, r) \/ Call(i, r)
  <2>1. CASE Acquire(i, r) \/ Defer(i, r)
    BY <2>1, Literals DEF Acquire, Defer
  <2>2. CASE Enter(i, r)
    BY <2>2, Literals DEF Enter
  <2>3. CASE Skip(i, r) \/ RememberKey(i, r) \/ Compensate(i, r)
    BY <2>3 DEF Skip, RememberKey, Compensate
  <2>4. CASE Dispatch(i, r) \/ Return(i, r) \/ RecordSuccess(i, r)
    BY <2>4, Literals DEF Dispatch, Return, RecordSuccess
  <2>5. CASE RecordFailure(i, r)
    BY <2>5, Literals DEF RecordFailure
  <2>6. CASE Call(i, r)
    BY <2>6
  <2> QED BY <2>1, <2>2, <2>3, <2>4, <2>5, <2>6 DEF _execute_with_lease, _execute_intent
<1> QED BY <1>1, <1>2, <1>3, <1>4, <1>5, <1>6

\* A selection, and what becomes of it.
LEMMA TriggerStep ==
  ASSUME ContractInv, NEW i \in Intents, Select(i) \/ _handle_trigger(i)
  PROVE  /\ Others(i, "cycle") /\ UNCHANGED <<pc, spent, orphans, contested, unread>>
         /\ ledger' = ledger /\ task'[i, "cycle"].at # "dispatching"
         /\ task[i, "cycle"].at # "succeeded"
         /\ \A j \in Intents : <<"succeeded", j>> \in log' => <<"succeeded", j>> \in log
         /\ ~LiveDuringStart /\ task'[i, "cycle"].at # "none" =>
              task[i, "cycle"].at # "none" \/ pc = "running"
<1>0. "cycle" \in Runs /\ NoTask.at = "none"
  BY DEF Runs, NoTask
<1>1. PICK at \in {"selected", "authorized", "none"} : Moves(i, "cycle", at)
  BY DEF Select, _handle_trigger, Authorize, Deny
<1>2. task'[i, "cycle"].at = at /\ Others(i, "cycle")
  BY <1>0, <1>1, Moved, Literals
<1>3. UNCHANGED <<pc, spent, orphans, contested, unread, ledger>>
  BY DEF Select, _handle_trigger, Authorize, Deny, Elsewhere
<1>4. log' = log \/ Records("authorized", i) \/ Records("denied", i)
  BY DEF Select, _handle_trigger, Authorize, Deny
<1>5. \A j \in Intents : <<"succeeded", j>> \in log' => <<"succeeded", j>> \in log
  BY <1>4 DEF Records
<1>6. task[i, "cycle"].at \in {"none", "selected"}
  BY <1>0 DEF Select, _handle_trigger, Authorize, Deny
<1>7. ~LiveDuringStart => task[i, "cycle"].at # "none" \/ pc = "running"
  BY DEF Select, _handle_trigger, Authorize, Deny
<1> QED BY <1>1, <1>2, <1>3, <1>5, <1>6, <1>7

\* The recovery goes on to an intent.
LEMMA RecoveryStep ==
  ASSUME ContractInv, NEW i \in Intents, _restore_execution_state(i)
  PROVE  /\ Others(i, "recovery") /\ UNCHANGED <<pc, spent, orphans, contested, unread>>
         /\ ledger' = ledger /\ task'[i, "recovery"].at # "dispatching"
         /\ task[i, "recovery"].at # "succeeded"
         /\ \A j \in Intents : <<"succeeded", j>> \in log' => <<"succeeded", j>> \in log
<1>0. "recovery" \in Runs /\ NoTask.at = "none"
  BY DEF Runs, NoTask
<1>1. UNCHANGED <<pc, spent, orphans, contested, unread, ledger>> /\ task[i, "recovery"] = NoTask
  BY DEF _restore_execution_state, Abandon, Reauthorize, Recovering, Free
<1>2. Records("abandoned", i) \/ Records("reauthorized", i)
  BY DEF _restore_execution_state, Abandon, Reauthorize
<1>3. \A j \in Intents : <<"succeeded", j>> \in log' => <<"succeeded", j>> \in log
  BY <1>2 DEF Records
<1>4. CASE task' = task
  BY <1>0, <1>1, <1>3, <1>4 DEF Others
<1>5. CASE Moves(i, "recovery", "authorized")
  <2>1. task'[i, "recovery"].at = "authorized" /\ Others(i, "recovery")
    BY <1>0, <1>5, Moved, Literals
  <2> QED BY <1>0, <1>1, <1>3, <2>1
<1> QED BY <1>4, <1>5 DEF _restore_execution_state, Abandon, Reauthorize

LEMMA InitUncontested == Init => NoneContested
<1>1. ASSUME Init PROVE \A i \in Intents : task[i, "cycle"].at = "none"
  <2>1. \A i \in Intents, r \in Runs : task[i, r] = NoTask
    BY <1>1 DEF Init
  <2>2. "cycle" \in Runs /\ NoTask.at = "none"
    BY DEF NoTask, Runs
  <2> QED BY <2>1, <2>2
<1> QED BY <1>1 DEF Init, NoneContested

LEMMA NextUncontested ==
  ASSUME ContractInv, AccountInv, NoneContested, [Next]_vars
  PROVE  NoneContested'
<1>0. "cycle" \in Runs /\ "recovery" \in Runs /\ "recovery" # "cycle"
  BY DEF Runs
<1>1. CASE UNCHANGED vars
  BY <1>1 DEF vars, NoneContested
<1>2. CASE Start \/ Recovered
  BY <1>2 DEF Start, Recovered, NoneContested
<1>3. CASE Stop
  <2>1. /\ UNCHANGED <<spent, orphans, contested, task>>
        /\ \A i \in Intents : task[i, "cycle"].at # "none" => i \in orphans
    BY <1>3 DEF Stop
  <2> QED BY <2>1 DEF NoneContested
<1>4. CASE Restore
  <2>1. /\ UNCHANGED <<spent, orphans, task>> /\ pc = "started"
        /\ contested' = contested \cup
             {i \in Authorized \ Settled : task[i, "cycle"].at # "none"}
    BY <1>4 DEF Restore, Recovers
  <2>2. Authorized \subseteq Intents
    BY DEF Authorized
  <2> QED BY <2>1, <2>2 DEF NoneContested
<1>5. CASE Crash \/ Exit
  <2>1. Loses
    BY <1>5 DEF Crash, Exit
  <2>2. \A i \in Intents : task'[i, "cycle"].at = "none"
    BY <1>0, <2>1 DEF Loses, NoTask
  <2>3. spent'.failures = spent.failures
    <3>1. spent \in [crashes : 0..MaxCrashes, failures : 0..MaxFailures]
      BY DEF AccountInv, AttentionInv, TypeOK
    <3> QED BY <1>5, <3>1 DEF Crash, Exit
  <2>4. orphans' = {} /\ contested' = contested
    BY <2>1 DEF Loses
  <2> QED BY <2>2, <2>3, <2>4 DEF NoneContested
<1>6. ASSUME Fails PROVE NoneContested'
  <2>1. spent'.failures # 0
    BY <1>6, FailuresCount
  <2> QED BY <2>1 DEF NoneContested
<1>7. ASSUME NEW i \in Intents, Select(i) \/ _handle_trigger(i) PROVE NoneContested'
  BY <1>0, <1>7, TriggerStep, RunUncontested
<1>8. ASSUME NEW i \in Intents, _restore_execution_state(i) PROVE NoneContested'
  BY <1>0, <1>8, RecoveryStep, RunUncontested
<1>9. ASSUME NEW i \in Intents, NEW r \in Runs, _execute_with_lease(i, r) PROVE NoneContested'
  BY <1>9, StepOfOne, RunUncontested
<1>10. ASSUME NEW i \in Intents, NEW r \in Runs, Raise(i, r) PROVE Fails
  BY <1>10 DEF Raise
<1>11. StartRaises => Fails
  BY DEF StartRaises
<1> QED BY <1>1, <1>2, <1>3, <1>4, <1>5, <1>6, <1>7, <1>8, <1>9, <1>10, <1>11 DEF Next

\* AUTONOMY.md, "Recovery and effect safety" (agent.py:_execute_intent, stop and
\* _restore_execution_state): through any crash, raised emission, stop() and start(),
\* with orphans and with triggers during start(), a capability is called only for an
\* authorized action without an outcome, and at most once if it is not idempotent; only
\* what start() took for unfinished while it ran is called after its outcome, and that
\* takes a raised emission or triggers during start().
THEOREM EffectsKeepContract == Spec => ImplementsContract
<1>1. Init => ContractInv /\ Contract!Init /\ NoneContested
  BY ContractInit, InitUncontested
<1>2. ContractInv /\ AccountInv /\ NoneContested /\ [Next]_vars
        => ContractInv' /\ NoneContested' /\ [Contract!Next]_Contract!vars
  BY ContractNext, NextUncontested DEF Kept
<1>3. AccountInv /\ NoneContested => (contested # {} => LiveDuringStart \/ spent.failures > 0)
  <2>1. AccountInv => spent.failures \in Nat
    BY DEF AccountInv, AttentionInv, TypeOK
  <2>2. AccountInv /\ spent.failures # 0 => spent.failures > 0
    BY <2>1
  <2> QED BY <2>2, Zenon DEF NoneContested
<1> QED BY <1>1, <1>2, <1>3, AccountInvariance, PTL DEF Spec, ImplementsContract, Contract!Spec

-----------------------------------------------------------------------------
\* What has succeeded is not dispatched again: the ledger.

\* A key whose success is in the log is in the ledger, or the process never saw the
\* success, or a run that is still in its slot is about to add it.
LedgerInv ==
  \A i \in Intents : <<"succeeded", i>> \in log =>
    \/ KeyOf[i] \in ledger \cup unread \cup {NoKey}
    \/ \E r \in Runs : task[i, r].at = "succeeded"

\* What SucceededKeysAreSkipped says of a step.
SkipsSucceeded ==
  \A i \in Intents, r \in Runs :
    /\ task[i, r].at # "dispatching" /\ task'[i, r].at = "dispatching"
    /\ KeyOf[i] \in SucceededKeys
    => \/ \E j \in Intents, s \in Runs : task[j, s].at = "succeeded" /\ KeyOf[j] = KeyOf[i]
       \/ KeyOf[i] \in unread

LedgerKept == LedgerInv' /\ SkipsSucceeded

\* One run takes a step that records no success but one it will remember or leaves
\* unread, and forgets none.
LEMMA OneRunRemembers ==
  ASSUME LedgerInv, NEW i \in Intents, NEW r \in Runs, Others(i, r),
         ledger \subseteq ledger', unread \subseteq unread',
         \A j \in Intents : <<"succeeded", j>> \in log' =>
           \/ <<"succeeded", j>> \in log
           \/ j = i /\ (task'[i, r].at = "succeeded" \/ KeyOf[i] \in unread'),
         task[i, r].at = "succeeded" => KeyOf[i] \in ledger' \cup {NoKey}
  PROVE  LedgerInv'
<1>. SUFFICES ASSUME NEW j \in Intents, <<"succeeded", j>> \in log'
              PROVE  \/ KeyOf[j] \in ledger' \cup unread' \cup {NoKey}
                     \/ \E s \in Runs : task'[j, s].at = "succeeded"
  BY DEF LedgerInv
<1>1. CASE j = i /\ (task'[i, r].at = "succeeded" \/ KeyOf[i] \in unread')
  BY <1>1
<1>2. CASE <<"succeeded", j>> \in log
  <2>1. CASE KeyOf[j] \in ledger \cup unread \cup {NoKey}
    BY <2>1
  <2>2. ASSUME NEW s \in Runs, task[j, s].at = "succeeded"
        PROVE  \/ KeyOf[j] \in ledger' \cup {NoKey}
               \/ \E u \in Runs : task'[j, u].at = "succeeded"
    <3>1. CASE j = i /\ s = r
      BY <2>2, <3>1
    <3>2. CASE j # i \/ s # r
      <4>1. task'[j, s] = task[j, s]
        BY <3>2 DEF Others
      <4> QED BY <2>2, <4>1
    <3> QED BY <3>1, <3>2
  <2> QED BY <1>2, <2>1, <2>2 DEF LedgerInv
<1> QED BY <1>1, <1>2

\* One run takes a step other than to the dispatch.
LEMMA OneRunLedger ==
  ASSUME LedgerInv, NEW i \in Intents, NEW r \in Runs, Others(i, r),
         task'[i, r].at # "dispatching",
         ledger \subseteq ledger', unread \subseteq unread',
         \A j \in Intents : <<"succeeded", j>> \in log' =>
           \/ <<"succeeded", j>> \in log
           \/ j = i /\ (task'[i, r].at = "succeeded" \/ KeyOf[i] \in unread'),
         task[i, r].at = "succeeded" => KeyOf[i] \in ledger' \cup {NoKey}
  PROVE  LedgerKept
<1>1. SkipsSucceeded
  <2>1. ASSUME NEW j \in Intents, NEW s \in Runs,
               task[j, s].at # "dispatching", task'[j, s].at = "dispatching"
        PROVE  FALSE
    BY <2>1 DEF Others
  <2> QED BY <2>1 DEF SkipsSucceeded
<1>2. LedgerInv'
  BY OneRunRemembers
<1> QED BY <1>1, <1>2 DEF LedgerKept

\* It moves or ends, and may record something other than a success.
LEMMA UnrecordedLedger ==
  ASSUME ContractInv, LedgerInv, NEW i \in Intents, NEW r \in Runs, NEW at \in Positions,
         Moves(i, r, at) \/ (Finishes(i, r) /\ at = "none"),
         at # "dispatching", ledger' = ledger, unread' = unread,
         log' = log \/ \E t \in Types \ {"succeeded"} : Records(t, i),
         task[i, r].at # "succeeded"
  PROVE  LedgerKept
<1>1. task'[i, r].at = at /\ Others(i, r)
  BY Moved, Finished
<1>2. \A j \in Intents : <<"succeeded", j>> \in log' => <<"succeeded", j>> \in log
  <2>1. CASE log' = log
    BY <2>1
  <2>2. ASSUME NEW t \in Types \ {"succeeded"}, log' = log \cup {<<t, i>>}
        PROVE  \A j \in Intents : <<"succeeded", j>> \in log' => <<"succeeded", j>> \in log
    BY <2>2
  <2> QED BY <2>1, <2>2 DEF Records
<1> QED BY <1>1, <1>2, OneRunLedger

\* The ledger is consulted in the slot: what has succeeded and is not there is about to
\* be added, or was never seen.
LEMMA EnterLedger ==
  ASSUME ContractInv, LedgerInv, NEW i \in Intents, NEW r \in Runs, Enter(i, r)
  PROVE  LedgerKept
<1>1. /\ task[i, r].at = "waiting" /\ log' = log /\ ledger' = ledger /\ unread' = unread
      /\ Moves(i, r, IF KeyOf[i] # NoKey /\ KeyOf[i] \in ledger
                     THEN "skipping" ELSE "dispatching")
  BY DEF Enter, Elsewhere
<1>2. CASE KeyOf[i] # NoKey /\ KeyOf[i] \in ledger
  <2>1. Moves(i, r, "skipping")
    BY <1>1, <1>2
  <2> QED BY <1>1, <2>1, Literals, UnrecordedLedger
<1>3. CASE KeyOf[i] = NoKey \/ KeyOf[i] \notin ledger
  <2>1. Moves(i, r, "dispatching")
    BY <1>1, <1>3
  <2>2. task'[i, r].at = "dispatching" /\ Others(i, r)
    BY <2>1, Moved, Literals
  <2>3. ASSUME KeyOf[i] \in SucceededKeys
        PROVE  \/ \E j \in Intents, s \in Runs :
                    task[j, s].at = "succeeded" /\ KeyOf[j] = KeyOf[i]
               \/ KeyOf[i] \in unread
    <3>1. PICK j \in Intents : <<"succeeded", j>> \in log /\ KeyOf[j] = KeyOf[i]
      BY <2>3 DEF SucceededKeys
    <3>2. KeyOf[j] \notin ledger /\ KeyOf[j] # NoKey
      BY <1>3, <2>3, <3>1 DEF SucceededKeys
    <3> QED BY <3>1, <3>2 DEF LedgerInv
  <2>4. SkipsSucceeded
    <3>1. ASSUME NEW j \in Intents, NEW s \in Runs,
                 task[j, s].at # "dispatching", task'[j, s].at = "dispatching"
          PROVE  j = i
      BY <2>2, <3>1 DEF Others
    <3> QED BY <2>3, <3>1 DEF SkipsSucceeded
  <2>5. LedgerInv'
    BY <1>1, <2>2, OneRunRemembers
  <2> QED BY <2>4, <2>5 DEF LedgerKept
<1> QED BY <1>2, <1>3

\* What the other steps of a run do to the ledger.
LEMMA RunLedger ==
  ASSUME ContractInv, LedgerInv, NEW i \in Intents, NEW r \in Runs, _execute_with_lease(i, r)
  PROVE  LedgerKept
<1>0. Others(i, r) /\ UNCHANGED unread
  BY StepOfOne
<1>1. CASE Enter(i, r)
  BY <1>1, EnterLedger
<1>2. CASE Skip(i, r)
  <2>1. task[i, r].at = "skipping" /\ Records("skipped", i) /\ Finishes(i, r) /\ ledger' = ledger
    BY <1>2 DEF Skip
  <2>2. "skipped" \in Types \ {"succeeded"}
    BY DEF Types, Terminal
  <2> QED BY <1>0, <2>1, <2>2, Literals, UnrecordedLedger
<1>3. CASE Dispatch(i, r)
  <2>1. /\ task[i, r].at = "dispatching" /\ Records("dispatched", i) /\ Moves(i, r, "ready")
        /\ ledger' = ledger
    BY <1>3 DEF Dispatch
  <2>2. "dispatched" \in Types \ {"succeeded"}
    BY DEF Types
  <2> QED BY <1>0, <2>1, <2>2, Literals, UnrecordedLedger
<1>4. CASE Call(i, r)
  <2>1. task[i, r].at = "ready" /\ log' = log /\ ledger' = ledger
    BY <1>4 DEF Call
  <2>2. task' = [task EXCEPT ![<<i, r>>] = [at |-> "calling", attempt |-> task[i, r].attempt + 1]]
    BY <1>4 DEF Call
  <2>3. task \in [Intents \X Runs -> AnyTask] /\ <<i, r>> \in Intents \X Runs
    BY DEF ContractInv, Typed
  <2>4. task'[i, r].at = "calling"
    BY <2>2, <2>3
  <2> QED BY <1>0, <2>1, <2>4, OneRunLedger
<1>5. CASE Return(i, r)
  <2>1. task[i, r].at = "calling" /\ log' = log /\ ledger' = ledger
    BY <1>5 DEF Return
  <2>2. PICK at \in {"succeeding", "failing", "ready"} : Moves(i, r, at)
    BY <1>5 DEF Return
  <2>3. at \in Positions /\ at # "dispatching"
    BY Literals
  <2> QED BY <1>0, <2>1, <2>2, <2>3, UnrecordedLedger
<1>6. CASE RecordSuccess(i, r)
  <2>1. /\ task[i, r].at = "succeeding" /\ log' = log \cup {<<"succeeded", i>>}
        /\ Moves(i, r, "succeeded") /\ ledger' = ledger
    BY <1>6 DEF RecordSuccess, Records
  <2>2. task'[i, r].at = "succeeded"
    BY <2>1, Moved, Literals
  <2>3. \A j \in Intents : <<"succeeded", j>> \in log' => <<"succeeded", j>> \in log \/ j = i
    BY <2>1
  <2> QED BY <1>0, <2>1, <2>2, <2>3, OneRunLedger
<1>7. CASE RememberKey(i, r)
  <2>1. /\ Finishes(i, r) /\ log' = log
        /\ ledger \subseteq ledger' /\ KeyOf[i] \in ledger' \cup {NoKey}
    BY <1>7 DEF RememberKey, Remembered
  <2>2. task'[i, r].at = "none"
    BY <2>1, Finished
  <2> QED BY <1>0, <2>1, <2>2, OneRunLedger
<1>8. CASE RecordFailure(i, r)
  <2>1. /\ task[i, r].at = "failing" /\ Records("failed", i) /\ ledger' = ledger
        /\ Moves(i, r, "compensating") \/ Finishes(i, r)
    BY <1>8 DEF RecordFailure
  <2>2. "failed" \in Types \ {"succeeded"}
    BY DEF Types, Terminal
  <2>3. CASE Moves(i, r, "compensating")
    BY <1>0, <2>1, <2>2, <2>3, Literals, UnrecordedLedger
  <2>4. CASE Finishes(i, r)
    BY <1>0, <2>1, <2>2, <2>4, Literals, UnrecordedLedger
  <2> QED BY <2>1, <2>3, <2>4
<1>9. CASE Compensate(i, r)
  <2>1. /\ task[i, r].at = "compensating" /\ Records("compensated", i) /\ Finishes(i, r)
        /\ ledger' = ledger
    BY <1>9 DEF Compensate
  <2>2. "compensated" \in Types \ {"succeeded"}
    BY DEF Types, Terminal
  <2> QED BY <1>0, <2>1, <2>2, Literals, UnrecordedLedger
<1>10. CASE Acquire(i, r)
  <2>1. /\ task[i, r].at = "authorized" /\ Moves(i, r, "waiting")
        /\ log' = log /\ ledger' = ledger
    BY <1>10 DEF Acquire
  <2> QED BY <1>0, <2>1, Literals, UnrecordedLedger
<1>11. CASE Defer(i, r)
  <2>1. /\ task[i, r].at = "authorized" /\ Moves(i, r, "none") /\ ledger' = ledger
        /\ log' = log \/ Records("deferred", i)
    BY <1>11 DEF Defer
  <2>2. "deferred" \in Types \ {"succeeded"}
    BY DEF Types
  <2> QED BY <1>0, <2>1, <2>2, Literals, UnrecordedLedger
<1> QED BY <1>1, <1>2, <1>3, <1>4, <1>5, <1>6, <1>7, <1>8, <1>9, <1>10, <1>11
        DEF _execute_with_lease, _execute_intent

\* A run that raises: what it has done it remembers, what it only recorded is unread.
LEMMA RaiseLedger ==
  ASSUME ContractInv, LedgerInv, NEW i \in Intents, NEW r \in Runs, Raise(i, r)
  PROVE  LedgerKept
<1>1. /\ Finishes(i, r)
      /\ log' = log \/ \E e \in Record(i, r) : log' = log \cup {e}
      /\ ledger' = IF task[i, r].at = "succeeded" THEN Remembered(i) ELSE ledger
      /\ unread' = IF <<"succeeded", i>> \in log' \ log THEN unread \cup {KeyOf[i]} ELSE unread
  BY DEF Raise
<1>2. task'[i, r].at = "none" /\ Others(i, r)
  BY <1>1, Finished
<1>3. \A j \in Intents : <<"succeeded", j>> \in log' => <<"succeeded", j>> \in log \/ j = i
  <2>1. ASSUME NEW e \in Record(i, r), log' = log \cup {e}
        PROVE  \A j \in Intents : <<"succeeded", j>> \in log' => <<"succeeded", j>> \in log \/ j = i
    <3>1. \E t \in Types : e = <<t, i>>
      BY RecordIs
    <3> QED BY <2>1, <3>1
  <2> QED BY <1>1, <2>1
<1>4. <<"succeeded", i>> \in log' => <<"succeeded", i>> \in log \/ KeyOf[i] \in unread'
  BY <1>1
<1>5. ledger \subseteq ledger' /\ unread \subseteq unread'
  BY <1>1 DEF Remembered
<1>6. task[i, r].at = "succeeded" => KeyOf[i] \in ledger' \cup {NoKey}
  BY <1>1 DEF Remembered
<1> QED BY <1>2, <1>3, <1>4, <1>5, <1>6, OneRunLedger

\* The process: what its memory loses is unread until start() reads it again.
LEMMA ProcessLedger ==
  ASSUME LedgerInv, \/ Start \/ Restore \/ Recovered \/ StartRaises \/ Stop
                    \/ Crash \/ Exit
  PROVE  LedgerKept
<1>0. NoTask.at = "none"
  BY DEF NoTask
<1>1. CASE Start \/ Recovered \/ Stop
  <2>1. UNCHANGED <<log, task, ledger, unread>>
    BY <1>1 DEF Start, Recovered, Stop
  <2> QED BY <2>1 DEF LedgerKept, LedgerInv, SkipsSucceeded
<1>2. CASE Restore
  <2>1. ledger' = ledger \cup SucceededKeys /\ UNCHANGED <<log, task>>
    BY <1>2 DEF Restore, Recovers
  <2>2. SkipsSucceeded
    BY <2>1 DEF SkipsSucceeded
  <2>3. LedgerInv'
    BY <2>1 DEF LedgerInv, SucceededKeys
  <2> QED BY <2>2, <2>3 DEF LedgerKept
<1>3. CASE StartRaises
  <2>1. UNCHANGED <<task, ledger, unread>>
    BY <1>3 DEF StartRaises
  <2>2. \A j \in Intents : <<"succeeded", j>> \in log' => <<"succeeded", j>> \in log
    BY <1>3 DEF StartRaises
  <2> QED BY <2>1, <2>2 DEF LedgerKept, LedgerInv, SkipsSucceeded
<1>4. CASE Crash \/ Exit
  <2>1. /\ task' = [w \in Intents \X Runs |-> NoTask] /\ log' = log
        /\ unread' = SucceededKeys
    BY <1>4 DEF Crash, Exit, Loses
  <2>2. \A i \in Intents, r \in Runs : task'[i, r].at = "none"
    BY <1>0, <2>1
  <2>3. SkipsSucceeded
    BY <2>2 DEF SkipsSucceeded
  <2>4. LedgerInv'
    BY <2>1 DEF LedgerInv, SucceededKeys
  <2> QED BY <2>3, <2>4 DEF LedgerKept
<1> QED BY <1>1, <1>2, <1>3, <1>4

LEMMA NextLedger ==
  ASSUME ContractInv, LedgerInv, [Next]_vars
  PROVE  LedgerKept
<1>0. "cycle" \in Runs /\ "recovery" \in Runs
  BY DEF Runs
<1>1. CASE UNCHANGED vars
  BY <1>1 DEF vars, LedgerKept, LedgerInv, SkipsSucceeded
<1>2. CASE Start \/ Restore \/ Recovered \/ StartRaises \/ Stop \/ Crash \/ Exit
  BY <1>2, ProcessLedger
<1>3. ASSUME NEW i \in Intents, Select(i) \/ _handle_trigger(i) PROVE LedgerKept
  BY <1>0, <1>3, TriggerStep, OneRunLedger
<1>4. ASSUME NEW i \in Intents, _restore_execution_state(i) PROVE LedgerKept
  BY <1>0, <1>4, RecoveryStep, OneRunLedger
<1>5. ASSUME NEW i \in Intents, NEW r \in Runs, _execute_with_lease(i, r) PROVE LedgerKept
  BY <1>5, RunLedger
<1>6. ASSUME NEW i \in Intents, NEW r \in Runs, Raise(i, r) PROVE LedgerKept
  BY <1>6, RaiseLedger
<1> QED BY <1>1, <1>2, <1>3, <1>4, <1>5, <1>6 DEF Next

\* README, "durable action lifecycle events restore completed idempotency keys"
\* (agent.py:_execute_intent and _restore_execution_state): with any number of slots,
\* keys that intents share, triggers during start(), crashes and raised emissions, an
\* action is dispatched under a key whose success is in the log only while the run that
\* succeeded has not written the ledger, or the process has not read that success.
THEOREM SucceededKeysStaySkipped == Spec => SucceededKeysAreSkipped
<1>1. Init => ContractInv /\ LedgerInv
  <2>1. Init => LedgerInv
    BY DEF Init, LedgerInv
  <2> QED BY <2>1, ContractInit
<1>2. ContractInv /\ LedgerInv /\ [Next]_vars => ContractInv' /\ LedgerInv' /\ SkipsSucceeded
  BY ContractNext, NextLedger DEF Kept, LedgerKept
<1>3. SkipsSucceeded =>
        [\A i \in Intents, r \in Runs :
           /\ task[i, r].at # "dispatching" /\ task'[i, r].at = "dispatching"
           /\ KeyOf[i] \in SucceededKeys
           => \/ \E j \in Intents, s \in Runs :
                     task[j, s].at = "succeeded" /\ KeyOf[j] = KeyOf[i]
              \/ KeyOf[i] \in unread]_vars
  BY DEF SkipsSucceeded
<1> QED BY <1>1, <1>2, <1>3, PTL DEF Spec, SucceededKeysAreSkipped
=============================================================================
