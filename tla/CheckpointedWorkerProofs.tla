----------------------- MODULE CheckpointedWorkerProofs -----------------------
(***************************************************************************)
(* What a checkpoint is worth, proved for every worker: any number of      *)
(* outputs, triggers, crashes, failures and rotations.                     *)
(*                                                                         *)
(* The argument.  The checkpoint in memory is the last one of the log      *)
(* whenever someone works, unless a shadow worker had an emission raise    *)
(* after its append (CursorInv), so checkpoints never regress.  A          *)
(* projector has one epoch, so the id of an output is its identity.  A     *)
(* shadow worker whose emissions do not raise and that is left alone while *)
(* it starts has every trigger past the checkpoint at hand, once and in    *)
(* order (BacklogInv): the one it works on, those left of the replay, then *)
(* those in the queue.  So a checkpoint passes no trigger but the one it   *)
(* is for, and when an epoch ends nothing is half answered (EpochInv).     *)
(***************************************************************************)
EXTENDS CheckpointedWorker, TLAPS

Entries == [kind : {"trigger", "output", "epoch", "checkpoint"},
            about : Nat, part : Nat, epoch : Nat]

In(s, x) == \E n \in DOMAIN s : s[n] = x
Increasing(s) == \A m, n \in DOMAIN s : m < n => s[m] < s[n]

IsOutput(j) == log[j].kind = "output"

Answering == job.by \in {"bus", "start"}
Ready == pc \in {"restored", "running"}

\* The shape of the state, and that of the checkpoints there is a first and a last.
ShapeInv ==
  /\ log \in Seq(Entries) /\ \A i \in Positions : log[i].epoch \in 0..(i - 1)
  /\ queue \in Seq(Nat) /\ catchup \in Seq(Nat)
  /\ checkpoint \in [completed : Nat, at : Nat]
  /\ job \in [by : {"nobody", "bus", "start", "rotate"}, at : Nat, next : Nat]
  /\ Checkpoints # {} =>
       /\ \E i \in Checkpoints : \A j \in Checkpoints : j <= i
       /\ \E i \in Checkpoints : \A j \in Checkpoints : i <= j

\* Whoever works knows the last checkpoint, and works on something.
CursorInv ==
  /\ job.by # "nobody" => Ready
  /\ job.by = "nobody" => job = Nobody
  /\ Answering => job.at \in Positions /\ job.next >= 1
  /\ Ready /\ Told => checkpoint = LastCheckpoint

\* A projector has one epoch.
ProjectorInv ==
  worker.projects => epoch = 0 /\ \A j \in Positions : IsOutput(j) => log[j].epoch = 0

IInv == TypeOK /\ ShapeInv /\ CursorInv /\ CheckpointsRebuild /\ ProjectorInv

\* The epoch that a restart restores, 0 if it opens one.
DurableEpoch == IF Checkpoints = {} THEN 0 ELSE log[LastCheckpoint.at].epoch

\* What is past the checkpoint was answered under the durable epoch.
EpochInv ==
  /\ \A j \in Positions : IsOutput(j) =>
       /\ log[j].about \in Triggers
       /\ log[j].about <= LastCheckpoint.completed \/ log[j].epoch = DurableEpoch
       /\ DurableEpoch # 0
  /\ Ready => epoch # 0 /\ DurableEpoch # 0 /\ (job.by # "rotate" => epoch = DurableEpoch)
  /\ pc = "opening" => epoch # 0 /\ DurableEpoch = 0
  /\ job.by = "rotate" =>
       \A j \in Positions : IsOutput(j) => log[j].about <= LastCheckpoint.completed

\* What a shadow worker holds before its replay begins: nothing.
StartInv ==
  /\ known = {} /\ (~Answering => job.at = 0)
  /\ pc \notin {"restored", "running"} => seen = {}
  /\ pc = "restored" => from = LastCheckpoint.completed
  /\ pc # "running" => catchup = <<>> /\ ~Answering

\* Replay and queue are in order, behind the event being processed; while start()
\* runs the queue holds no trigger.
QueueInv ==
  /\ Increasing(catchup) /\ Increasing(queue)
  /\ Starting => \A i \in Triggers : ~In(queue, i)
  /\ \A i \in Triggers : In(catchup, i) \/ In(queue, i) => job.at < i

\* The triggers past the checkpoint are at hand, and only those seen that are not.
BacklogInv ==
  /\ pc = "running" => \A i \in Triggers :
       i <= LastCheckpoint.completed \/ i = job.at \/ In(catchup, i) \/ In(queue, i)
  /\ pc = "running" => \A j \in Positions : IsOutput(j) =>
       \/ log[j].about <= LastCheckpoint.completed
       \/ log[j].about = job.at \/ In(catchup, log[j].about)
  /\ \A i \in seen \cap Triggers : i <= LastCheckpoint.completed \/ i = job.at

\* The parts of an answer that are behind the worker are in the log.
AnswerInv ==
  Answering =>
    /\ job.at \in Triggers /\ LastCheckpoint.completed < job.at
    /\ \A part \in 1..(job.next - 1) :
         \E j \in Positions : IsOutput(j) /\ log[j].about = job.at /\ log[j].part = part

ShadowInv ==
  EpochInv /\ StartInv /\ QueueInv /\ BacklogInv /\ AnswerInv /\ CheckpointMeansComplete

WorkerInv == IInv /\ OutputsOnce /\ (worker.projects \/ ShadowInv)
-----------------------------------------------------------------------------
\* Facts about a log that grows.

\* The log after an emission.
LEMMA LogGrows ==
  ASSUME log \in Seq(Entries), NEW e \in Entries, log' = Append(log, e)
  PROVE  /\ log' \in Seq(Entries)
         /\ Len(log) \in Nat /\ Len(log') = Len(log) + 1
         /\ log'[Len(log) + 1] = e
         /\ \A i \in Positions : i \in Nat /\ log'[i] = log[i] /\ log[i] \in Entries
         /\ Positions' = Positions \cup {Len(log) + 1}
         /\ Len(log) + 1 \notin Positions
  BY DEF Positions

\* Which triggers and checkpoints it has then.
LEMMA KindsGrow ==
  ASSUME log \in Seq(Entries), NEW e \in Entries, log' = Append(log, e)
  PROVE  /\ Triggers' = IF e.kind = "trigger" THEN Triggers \cup {Len(log) + 1} ELSE Triggers
         /\ Checkpoints' = IF e.kind = "checkpoint" THEN Checkpoints \cup {Len(log) + 1}
                           ELSE Checkpoints
  <1>1. /\ log'[Len(log) + 1] = e
        /\ \A i \in Positions : log'[i] = log[i]
        /\ Positions' = Positions \cup {Len(log) + 1}
        /\ Len(log) + 1 \notin Positions
    BY LogGrows
  <1>2. Triggers' = {i \in Positions' : log'[i].kind = "trigger"}
    BY DEF Triggers
  <1>3. Checkpoints' = {i \in Positions' : log'[i].kind = "checkpoint"}
    BY DEF Checkpoints
  <1> QED  BY <1>1, <1>2, <1>3 DEF Triggers, Checkpoints

\* What LastCheckpoint is.
LEMMA LastIsLast ==
  ASSUME ShapeInv, Checkpoints # {}
  PROVE  /\ LastCheckpoint.at \in Checkpoints
         /\ LastCheckpoint.completed = log[LastCheckpoint.at].about
         /\ \A j \in Checkpoints : j <= LastCheckpoint.at
  <1> DEFINE i == CHOOSE i \in Checkpoints : \A j \in Checkpoints : j <= i
  <1>1. i \in Checkpoints /\ \A j \in Checkpoints : j <= i
    BY DEF ShapeInv
  <1>2. LastCheckpoint = [completed |-> log[i].about, at |-> i]
    BY DEF LastCheckpoint
  <1> QED  BY <1>1, <1>2

\* Its parts are positions, or 0.
LEMMA LastIsTyped ==
  ASSUME ShapeInv, TypeOK
  PROVE  /\ LastCheckpoint \in [completed : Nat, at : Nat]
         /\ LastCheckpoint.completed \in 0..Len(log) /\ LastCheckpoint.at \in 0..Len(log)
         /\ Checkpoints # {} => LastCheckpoint.completed < LastCheckpoint.at
  <1>0. Len(log) \in Nat
    BY DEF ShapeInv
  <1>1. CASE Checkpoints = {}
    BY <1>0, <1>1 DEF LastCheckpoint, None
  <1>2. CASE Checkpoints # {}
    <2> DEFINE i == CHOOSE i \in Checkpoints : \A j \in Checkpoints : j <= i
    <2>1. LastCheckpoint = [completed |-> log[i].about, at |-> i]
      BY <1>2 DEF LastCheckpoint
    <2>2. i \in Positions
      BY <1>2, <2>1, LastIsLast DEF Checkpoints
    <2>3. log[i].about \in 0..(i - 1)
      BY <2>2 DEF TypeOK
    <2> HIDE DEF i
    <2> QED  BY <1>0, <2>1, <2>2, <2>3 DEF Positions
  <1> QED  BY <1>1, <1>2

\* Nothing that depends on the checkpoints changes when the log does not, or grows
\* by something else.
LEMMA SameCheckpoints ==
  ASSUME ShapeInv, worker' = worker,
         Checkpoints' = Checkpoints, \A i \in Checkpoints : log'[i] = log[i]
  PROVE  /\ LastCheckpoint' = LastCheckpoint
         /\ DurableEpoch' = DurableEpoch
         /\ Base' = Base
  <1>1. CASE Checkpoints = {}
    <2>1. LastCheckpoint' = LastCheckpoint
      BY <1>1 DEF LastCheckpoint
    <2>2. DurableEpoch' = DurableEpoch
      BY <1>1 DEF DurableEpoch
    <2>3. Base' = Base
      BY <1>1 DEF Base
    <2> QED  BY <2>1, <2>2, <2>3
  <1>2. CASE Checkpoints # {}
    <2> DEFINE last == CHOOSE i \in Checkpoints : \A j \in Checkpoints : j <= i
               first == CHOOSE i \in Checkpoints : \A j \in Checkpoints : i <= j
    <2>1. last \in Checkpoints /\ first \in Checkpoints
      BY <1>2 DEF ShapeInv
    <2>2. LastCheckpoint = [completed |-> log[last].about, at |-> last]
      BY <1>2 DEF LastCheckpoint
    <2>3. LastCheckpoint' = [completed |-> log'[last].about, at |-> last]
      BY <1>2 DEF LastCheckpoint
    <2>4. Base = IF worker.projects THEN 0 ELSE log[first].about
      BY <1>2 DEF Base
    <2>5. Base' = IF worker.projects THEN 0 ELSE log'[first].about
      BY <1>2 DEF Base
    <2> HIDE DEF last, first
    <2>6. LastCheckpoint' = LastCheckpoint
      BY <2>1, <2>2, <2>3
    <2>7. DurableEpoch = log[last].epoch
      BY <1>2, <2>2 DEF DurableEpoch
    <2>8. DurableEpoch' = log'[last].epoch
      BY <1>2, <2>3 DEF DurableEpoch
    <2> QED  BY <2>1, <2>4, <2>5, <2>6, <2>7, <2>8
  <1> QED  BY <1>1, <1>2

\* A new checkpoint is the last one; the first one stays.
LEMMA NewCheckpoint ==
  ASSUME ShapeInv, worker' = worker, NEW e \in Entries, e.kind = "checkpoint",
         log' = Append(log, e)
  PROVE  /\ LastCheckpoint' = [completed |-> e.about, at |-> Len(log) + 1]
         /\ DurableEpoch' = e.epoch
         /\ Base' = IF worker.projects THEN 0
                    ELSE IF Checkpoints = {} THEN e.about ELSE Base
         /\ \E i \in Checkpoints' : \A j \in Checkpoints' : j <= i
         /\ \E i \in Checkpoints' : \A j \in Checkpoints' : i <= j
  <1> DEFINE n == Len(log) + 1
  <1>1. /\ Len(log) \in Nat /\ log'[n] = e /\ n \notin Positions
        /\ \A i \in Positions : i \in Nat /\ log'[i] = log[i]
    BY LogGrows DEF ShapeInv
  <1>2. Checkpoints' = Checkpoints \cup {n}
    BY KindsGrow DEF ShapeInv
  <1>3. \A i \in Checkpoints : i \in Positions /\ i \in Nat /\ i < n
    BY <1>1 DEF Checkpoints, Positions
  <1>4. n \in Checkpoints' /\ \A j \in Checkpoints' : j <= n
    BY <1>1, <1>2, <1>3
  <1>5. \A i \in Checkpoints' : (\A j \in Checkpoints' : j <= i) => i = n
    BY <1>1, <1>2, <1>3
  <1>6. (CHOOSE i \in Checkpoints' : \A j \in Checkpoints' : j <= i) = n
    BY <1>4, <1>5
  <1>7. LastCheckpoint' = [completed |-> log'[n].about, at |-> n]
    BY <1>4, <1>6 DEF LastCheckpoint
  <1>8. LastCheckpoint' = [completed |-> e.about, at |-> n]
    BY <1>1, <1>7
  <1>9. DurableEpoch' = e.epoch
    BY <1>1, <1>4, <1>8 DEF DurableEpoch
  <1>10. \E i \in Checkpoints' : \A j \in Checkpoints' : i <= j
    BY <1>1, <1>2, <1>3 DEF ShapeInv
  <1>11. Base' = IF worker.projects THEN 0
                 ELSE IF Checkpoints = {} THEN e.about ELSE Base
    <2> DEFINE first == CHOOSE i \in Checkpoints : \A j \in Checkpoints : i <= j
               firstN == CHOOSE i \in Checkpoints' : \A j \in Checkpoints' : i <= j
    <2>1. firstN \in Checkpoints' /\ \A j \in Checkpoints' : firstN <= j
      BY <1>10
    <2>0. Checkpoints' # {}
      BY <1>4
    <2>a. Base' = IF worker'.projects \/ Checkpoints' = {} THEN 0 ELSE log'[firstN].about
      BY DEF Base
    <2>2. Base' = IF worker.projects THEN 0 ELSE log'[firstN].about
      <3> HIDE DEF firstN
      <3> QED  BY <2>0, <2>a
    <2>3. CASE Checkpoints = {}
      <3> HIDE DEF firstN
      <3>1. firstN = n
        BY <1>2, <2>1, <2>3
      <3> QED  BY <1>1, <2>2, <2>3, <3>1
    <2>4. CASE Checkpoints # {}
      <3>1. first \in Checkpoints /\ \A j \in Checkpoints : first <= j
        BY <2>4 DEF ShapeInv
      <3>2. Base = IF worker.projects THEN 0 ELSE log[first].about
        BY <2>4 DEF Base
      <3> HIDE DEF first, firstN
      <3>3. firstN = first
        BY <1>1, <1>2, <1>3, <2>1, <3>1
      <3> QED  BY <1>1, <1>3, <2>2, <2>4, <3>1, <3>2, <3>3
    <2> QED  BY <2>3, <2>4
  <1> QED  BY <1>4, <1>8, <1>9, <1>10, <1>11

\* Nothing changes when the log does not.
LEMMA LogKept ==
  ASSUME ShapeInv, worker' = worker, log' = log
  PROVE  /\ Positions' = Positions /\ Triggers' = Triggers /\ Checkpoints' = Checkpoints
         /\ LastCheckpoint' = LastCheckpoint /\ DurableEpoch' = DurableEpoch /\ Base' = Base
  <1>1. Positions' = Positions
    BY DEF Positions
  <1>2. Triggers' = Triggers /\ Checkpoints' = Checkpoints
    BY <1>1 DEF Triggers, Checkpoints
  <1> QED  BY <1>1, <1>2, SameCheckpoints

\* How many outputs a worker writes.
LEMMA OutputsPositive ==
  ASSUME TypeOK
  PROVE  worker.outputs \in Nat /\ worker.outputs >= 1
  BY WorkerAssumption DEF TypeOK

\* A count below its bound can be raised by one.
LEMMA SpentIsTyped ==
  ASSUME TypeOK
  PROVE  /\ spent.crashes < worker.crashes => spent.crashes + 1 \in 0..worker.crashes
         /\ spent.failures < worker.failures => spent.failures + 1 \in 0..worker.failures
         /\ spent.late < worker.late => spent.late + 1 \in 0..worker.late
         /\ spent.rotations < worker.rotations => spent.rotations + 1 \in 0..worker.rotations
  <1>1. /\ worker.crashes \in Nat /\ worker.failures \in Nat
        /\ worker.late \in Nat /\ worker.rotations \in Nat
    BY WorkerAssumption DEF TypeOK
  <1>2. /\ spent.crashes \in 0..worker.crashes /\ spent.failures \in 0..worker.failures
        /\ spent.late \in 0..worker.late /\ spent.rotations \in 0..worker.rotations
    BY DEF TypeOK
  <1> QED  BY <1>1, <1>2

\* What an append does to the log and to the queue.
LEMMA AppendKeepsShape ==
  ASSUME ShapeInv, TypeOK, worker' = worker,
         NEW e \in Entries, e.about \in 0..Len(log), e.part \in 0..worker.outputs,
         e.epoch \in 0..Len(log), log' = Append(log, e),
         \A i \in DOMAIN queue' : queue'[i] \in Positions \cup {Len(log) + 1}
  PROVE  /\ log' \in Seq(Entries) /\ Len(log) \in Nat /\ Len(log') = Len(log) + 1
         /\ Positions \subseteq Positions' /\ Len(log) + 1 \in Positions'
         /\ \A i \in Positions' : log'[i].epoch \in 0..(i - 1)
         /\ \A i \in Positions' :
              /\ log'[i].kind \in {"trigger", "output", "epoch", "checkpoint"}
              /\ log'[i].about \in 0..(i - 1) /\ log'[i].part \in 0..worker'.outputs
         /\ \A i \in DOMAIN queue' : queue'[i] \in Positions'
         /\ Checkpoints' # {} =>
              /\ \E i \in Checkpoints' : \A j \in Checkpoints' : j <= i
              /\ \E i \in Checkpoints' : \A j \in Checkpoints' : i <= j
  <1>0. log \in Seq(Entries)
    BY DEF ShapeInv
  <1>1. /\ log' \in Seq(Entries)
        /\ Len(log) \in Nat /\ Len(log') = Len(log) + 1
        /\ log'[Len(log) + 1] = e
        /\ \A i \in Positions : i \in Nat /\ log'[i] = log[i]
        /\ Positions' = Positions \cup {Len(log) + 1}
    BY <1>0, LogGrows
  <1>3. \A i \in DOMAIN queue' : queue'[i] \in Positions'
    BY <1>1
  <1>4. \A i \in Positions' :
           /\ log'[i].kind \in {"trigger", "output", "epoch", "checkpoint"}
           /\ log'[i].about \in 0..(i - 1) /\ log'[i].part \in 0..worker'.outputs
    <2>1. e.kind \in {"trigger", "output", "epoch", "checkpoint"}
      BY DEF Entries
    <2>2. (Len(log) + 1) - 1 = Len(log)
      BY <1>1
    <2> QED  BY <1>1, <2>1, <2>2 DEF TypeOK
  <1>4a. \A i \in Positions' : log'[i].epoch \in 0..(i - 1)
    <2>1. (Len(log) + 1) - 1 = Len(log)
      BY <1>1
    <2> QED  BY <1>1, <2>1 DEF ShapeInv
  <1>5. Checkpoints' # {} =>
          /\ \E i \in Checkpoints' : \A j \in Checkpoints' : j <= i
          /\ \E i \in Checkpoints' : \A j \in Checkpoints' : i <= j
    <2>1. CASE e.kind = "checkpoint"
      BY <1>0, <2>1, NewCheckpoint
    <2>2. CASE e.kind # "checkpoint"
      BY <1>0, <2>2, KindsGrow DEF ShapeInv
    <2> QED  BY <2>1, <2>2
  <1> QED  BY <1>1, <1>3, <1>4, <1>4a, <1>5

\* A growing log keeps its last checkpoint if what grows is something else.
LEMMA OtherEntry ==
  ASSUME ShapeInv, worker' = worker, NEW e \in Entries, e.kind # "checkpoint",
         log' = Append(log, e)
  PROVE  /\ Checkpoints' = Checkpoints
         /\ LastCheckpoint' = LastCheckpoint /\ DurableEpoch' = DurableEpoch /\ Base' = Base
         /\ \A i \in Checkpoints : log'[i] = log[i]
  <1>1. Checkpoints' = Checkpoints
    BY KindsGrow DEF ShapeInv
  <1>2. \A i \in Checkpoints : log'[i] = log[i]
    BY LogGrows DEF ShapeInv, Checkpoints
  <1> QED  BY <1>1, <1>2, SameCheckpoints

\* Checkpoints do not regress if the new one, if any, is not below the last.
LEMMA EmissionRebuilds ==
  ASSUME ShapeInv, TypeOK, Ordered, worker' = worker,
         NEW e \in Entries, log' = Append(log, e),
         e.kind = "checkpoint" => e.about >= LastCheckpoint.completed
  PROVE  Ordered'
  <1>0. /\ Len(log) \in Nat /\ log'[Len(log) + 1] = e
        /\ \A i \in Positions : i \in Nat /\ log'[i] = log[i] /\ log[i] \in Entries
        /\ Len(log) + 1 \notin Positions
    BY LogGrows DEF ShapeInv
  <1>1. CASE e.kind # "checkpoint"
    BY <1>1, OtherEntry DEF Ordered
  <1>2. CASE e.kind = "checkpoint"
    <2>1. Checkpoints' = Checkpoints \cup {Len(log) + 1}
      BY <1>2, KindsGrow DEF ShapeInv
    <2>2. \A i \in Checkpoints : i \in Positions /\ i \in Nat /\ i < Len(log) + 1
      BY <1>0 DEF Checkpoints, Positions
    <2>3. \A i \in Checkpoints : log[i].about <= LastCheckpoint.completed
      <3> SUFFICES ASSUME NEW i \in Checkpoints
                   PROVE  log[i].about <= LastCheckpoint.completed
        OBVIOUS
      <3>1. /\ LastCheckpoint.at \in Checkpoints /\ i <= LastCheckpoint.at
            /\ LastCheckpoint.completed = log[LastCheckpoint.at].about
        BY LastIsLast
      <3>2. CASE i < LastCheckpoint.at
        BY <3>1, <3>2 DEF Ordered
      <3>3. CASE i = LastCheckpoint.at
        <4>1. log[i].about \in Nat
          BY <1>0, <2>2 DEF Entries
        <4> QED  BY <3>1, <3>3, <4>1
      <3> QED  BY <2>2, <3>1, <3>2, <3>3
    <2>4. \A i \in Checkpoints : log[i].about <= e.about
      <3>1. \A i \in Checkpoints : log[i].about \in Nat
        BY <1>0, <2>2 DEF Entries
      <3>2. LastCheckpoint.completed \in Nat /\ e.about \in Nat
        BY LastIsTyped DEF Entries
      <3> QED  BY <1>2, <2>3, <3>1, <3>2
    <2> SUFFICES ASSUME NEW i \in Checkpoints', NEW j \in Checkpoints', i < j
                 PROVE  log'[i].about <= log'[j].about
      BY DEF Ordered
    <2>5. i \in Checkpoints
      BY <1>0, <2>1, <2>2
    <2>6. CASE j \in Checkpoints
      BY <1>0, <2>2, <2>5, <2>6 DEF Ordered
    <2>7. CASE j = Len(log) + 1
      BY <1>0, <2>2, <2>4, <2>5, <2>7
    <2> QED  BY <2>1, <2>6, <2>7
  <1> QED  BY <1>1, <1>2

-----------------------------------------------------------------------------
\* Type correctness and the shape of the state, one lemma per kind of step.

\* The queue after an entry was published to it or not.
LEMMA QueueGrows ==
  ASSUME NEW q \in Seq(Nat), NEW n \in Nat, NEW S, \A i \in DOMAIN q : q[i] \in S
  PROVE  /\ Append(q, n) \in Seq(Nat)
         /\ \A i \in DOMAIN Append(q, n) : Append(q, n)[i] \in S \cup {n}
  <1>1. /\ Append(q, n) \in Seq(Nat) /\ Len(Append(q, n)) = Len(q) + 1
        /\ DOMAIN q = 1..Len(q) /\ DOMAIN Append(q, n) = 1..(Len(q) + 1) /\ Len(q) \in Nat
        /\ \A i \in 1..Len(q) : Append(q, n)[i] = q[i]
        /\ Append(q, n)[Len(q) + 1] = n
    OBVIOUS
  <1> QED  BY <1>1

\* What is left to say of an append: the variables that are not the log.
LEMMA AppendIsTyped ==
  ASSUME ShapeInv, TypeOK, worker' = worker,
         NEW e \in Entries, e.about \in 0..Len(log), e.part \in 0..worker.outputs,
         e.epoch \in 0..Len(log), log' = Append(log, e),
         queue' \in Seq(Nat),
         \A i \in DOMAIN queue' : queue'[i] \in Positions \cup {Len(log) + 1},
         pc' \in {"down", "subscribed", "opening", "restored", "running"},
         from' \in 0..Len(log), seen' \subseteq Positions,
         catchup' \in Seq(Nat), \A i \in DOMAIN catchup' : catchup'[i] \in Positions,
         known' \subseteq Positions \cup {Len(log) + 1},
         checkpoint' \in [completed : 0..Len(log), at : 0..(Len(log) + 1)],
         epoch' \in 0..(Len(log) + 1),
         job' \in [by : {"nobody", "bus", "start", "rotate"}, at : 0..Len(log),
                   next : 0..(worker.outputs + 1)],
         spent' \in [crashes : 0..worker.crashes, failures : 0..worker.failures,
                     late : 0..worker.late, rotations : 0..worker.rotations]
  PROVE  TypeOK' /\ ShapeInv'
  <1>1. /\ log' \in Seq(Entries) /\ Len(log) \in Nat /\ Len(log') = Len(log) + 1
        /\ Positions \subseteq Positions' /\ Len(log) + 1 \in Positions'
        /\ \A i \in Positions' : log'[i].epoch \in 0..(i - 1)
        /\ \A i \in Positions' :
             /\ log'[i].kind \in {"trigger", "output", "epoch", "checkpoint"}
             /\ log'[i].about \in 0..(i - 1) /\ log'[i].part \in 0..worker'.outputs
        /\ \A i \in DOMAIN queue' : queue'[i] \in Positions'
        /\ Checkpoints' # {} =>
             /\ \E i \in Checkpoints' : \A j \in Checkpoints' : j <= i
             /\ \E i \in Checkpoints' : \A j \in Checkpoints' : i <= j
    BY AppendKeepsShape
  <1>2. worker.outputs \in Nat
    BY OutputsPositive
  <1>3. /\ checkpoint'.completed \in 0..Len(log') /\ checkpoint'.at \in 0..Len(log')
        /\ checkpoint' \in [completed : Nat, at : Nat]
    BY <1>1
  <1>4. /\ job'.by \in {"nobody", "bus", "start", "rotate"}
        /\ job'.at \in 0..Len(log') /\ job'.next \in 0..(worker'.outputs + 1)
        /\ job' \in [by : {"nobody", "bus", "start", "rotate"}, at : Nat, next : Nat]
    BY <1>1, <1>2
  <1>5. /\ from' \in 0..Len(log') /\ epoch' \in 0..Len(log')
        /\ seen' \subseteq Positions' /\ known' \subseteq Positions'
        /\ \A i \in DOMAIN catchup' : catchup'[i] \in Positions'
        /\ worker' \in Workers
    <2>1. from' \in 0..Len(log') /\ epoch' \in 0..Len(log')
      BY <1>1
    <2>2. seen' \subseteq Positions' /\ known' \subseteq Positions'
      BY <1>1, Zenon
    <2>3. \A i \in DOMAIN catchup' : catchup'[i] \in Positions'
      BY <1>1, Zenon
    <2>4. worker' \in Workers
      BY DEF TypeOK
    <2> QED  BY <2>1, <2>2, <2>3, <2>4
  <1>6. spent' \in [crashes : 0..worker'.crashes, failures : 0..worker'.failures,
                    late : 0..worker'.late, rotations : 0..worker'.rotations]
    OBVIOUS
  <1>7. TypeOK'
    BY <1>1, <1>3, <1>4, <1>5, <1>6 DEF TypeOK
  <1>8. ShapeInv'
    BY <1>1, <1>3, <1>4 DEF ShapeInv
  <1> QED  BY <1>7, <1>8

\* An emission that returns puts its entry into the queue of a worker that is up.
LEMMA EmissionIsTyped ==
  ASSUME ShapeInv, TypeOK, worker' = worker,
         NEW e \in Entries, e.about \in 0..Len(log), e.part \in 0..worker.outputs,
         e.epoch \in 0..Len(log), Emit(e),
         pc' \in {"down", "subscribed", "opening", "restored", "running"},
         from' \in 0..Len(log), catchup' = catchup, seen' = seen,
         known' \subseteq Positions \cup {Len(log) + 1},
         checkpoint' \in [completed : 0..Len(log), at : 0..(Len(log) + 1)],
         epoch' \in 0..(Len(log) + 1),
         job' \in [by : {"nobody", "bus", "start", "rotate"}, at : 0..Len(log),
                   next : 0..(worker.outputs + 1)],
         spent' \in [crashes : 0..worker.crashes, failures : 0..worker.failures,
                     late : 0..worker.late, rotations : 0..worker.rotations]
  PROVE  TypeOK' /\ ShapeInv'
  <1>1. Len(log) \in Nat /\ queue \in Seq(Nat) /\ catchup \in Seq(Nat)
    BY DEF ShapeInv
  <1>2. log' = Append(log, e) /\ (queue' = queue \/ queue' = Append(queue, Len(log) + 1))
    BY DEF Emit
  <1>3. \A i \in DOMAIN queue : queue[i] \in Positions
    BY DEF TypeOK
  <1>4. queue' \in Seq(Nat) /\ \A i \in DOMAIN queue' : queue'[i] \in Positions \cup {Len(log) + 1}
    <2>1. Len(log) + 1 \in Nat
      BY <1>1
    <2>2. /\ Append(queue, Len(log) + 1) \in Seq(Nat)
          /\ \A i \in DOMAIN Append(queue, Len(log) + 1) :
               Append(queue, Len(log) + 1)[i] \in Positions \cup {Len(log) + 1}
      BY <1>1, <1>3, <2>1, QueueGrows
    <2>3. CASE queue' = queue
      BY <1>1, <1>3, <2>3
    <2>4. CASE queue' = Append(queue, Len(log) + 1)
      BY <2>2, <2>4
    <2> QED  BY <1>2, <2>3, <2>4
  <1>5. seen' \subseteq Positions /\ \A i \in DOMAIN catchup' : catchup'[i] \in Positions
    BY Zenon DEF TypeOK
  <1> QED  BY <1>1, <1>2, <1>4, <1>5, AppendIsTyped

\* The same of a step that leaves the log alone.
LEMMA QuietIsTyped ==
  ASSUME ShapeInv, TypeOK, worker' = worker, log' = log,
         pc' \in {"down", "subscribed", "opening", "restored", "running"},
         from' \in 0..Len(log),
         queue' \in Seq(Nat), \A i \in DOMAIN queue' : queue'[i] \in Positions,
         catchup' \in Seq(Nat), \A i \in DOMAIN catchup' : catchup'[i] \in Positions,
         seen' \subseteq Positions, known' \subseteq Positions,
         checkpoint' \in [completed : 0..Len(log), at : 0..Len(log)],
         epoch' \in 0..Len(log),
         job' \in [by : {"nobody", "bus", "start", "rotate"}, at : 0..Len(log),
                   next : 0..(worker.outputs + 1)],
         spent' \in [crashes : 0..worker.crashes, failures : 0..worker.failures,
                     late : 0..worker.late, rotations : 0..worker.rotations]
  PROVE  TypeOK' /\ ShapeInv'
  <1>1. Positions' = Positions /\ Checkpoints' = Checkpoints
    BY LogKept
  <1>2. worker.outputs \in Nat /\ Len(log) \in Nat
    <2>1. log \in Seq(Entries)
      BY DEF ShapeInv
    <2>2. Len(log) \in Nat
      BY <2>1
    <2> QED  BY <2>2, OutputsPositive
  <1>3. /\ checkpoint'.completed \in 0..Len(log') /\ checkpoint'.at \in 0..Len(log')
        /\ checkpoint' \in [completed : Nat, at : Nat]
    BY <1>2
  <1>4. /\ job'.by \in {"nobody", "bus", "start", "rotate"}
        /\ job'.at \in 0..Len(log') /\ job'.next \in 0..(worker'.outputs + 1)
        /\ job' \in [by : {"nobody", "bus", "start", "rotate"}, at : Nat, next : Nat]
    BY <1>2
  <1>5. TypeOK'
    BY <1>1, <1>3, <1>4 DEF TypeOK
  <1>6. ShapeInv'
    BY <1>1, <1>3, <1>4 DEF ShapeInv
  <1> QED  BY <1>5, <1>6

\* The records of the state, in the sets those two lemmas name.
LEMMA StateIsTyped ==
  ASSUME ShapeInv, TypeOK
  PROVE  /\ checkpoint \in [completed : 0..Len(log), at : 0..Len(log)]
         /\ checkpoint \in [completed : 0..Len(log), at : 0..(Len(log) + 1)]
         /\ job \in [by : {"nobody", "bus", "start", "rotate"}, at : 0..Len(log),
                     next : 0..(worker.outputs + 1)]
         /\ LastCheckpoint \in [completed : 0..Len(log), at : 0..Len(log)]
         /\ Len(log) \in Nat /\ worker.outputs \in Nat /\ worker.outputs >= 1
  <1>1. Len(log) \in Nat
    BY DEF ShapeInv
  <1>2. LastCheckpoint \in [completed : 0..Len(log), at : 0..Len(log)]
    BY LastIsTyped
  <1>3. /\ checkpoint \in [completed : 0..Len(log), at : 0..Len(log)]
        /\ checkpoint \in [completed : 0..Len(log), at : 0..(Len(log) + 1)]
    BY <1>1 DEF ShapeInv, TypeOK
  <1>4. job \in [by : {"nobody", "bus", "start", "rotate"}, at : 0..Len(log),
                 next : 0..(worker.outputs + 1)]
    BY <1>1 DEF ShapeInv, TypeOK
  <1> QED  BY <1>1, <1>2, <1>3, <1>4, OutputsPositive

LEMMA TailOfSequence ==
  ASSUME NEW s \in Seq(Nat), s # <<>>
  PROVE  /\ Tail(s) \in Seq(Nat) /\ Head(s) \in Nat
         /\ Len(s) \in Nat \ {0} /\ Head(s) = s[1] /\ DOMAIN s = 1..Len(s)
         /\ DOMAIN Tail(s) = 1..(Len(s) - 1)
         /\ \A n \in DOMAIN Tail(s) : n + 1 \in DOMAIN s /\ Tail(s)[n] = s[n + 1]
  OBVIOUS

LEMMA EmittingIsTyped ==
  ASSUME IInv
  PROVE  /\ ExternalEvent => TypeOK' /\ ShapeInv'
         /\ OpenCheckpoint => TypeOK' /\ ShapeInv'
         /\ OpenEpoch => TypeOK' /\ ShapeInv'
         /\ OpenEpochCheckpoint => TypeOK' /\ ShapeInv'
         /\ AdvanceCheckpoint => TypeOK' /\ ShapeInv'
         /\ RotateEpoch => TypeOK' /\ ShapeInv'
         /\ RotateCheckpoint => TypeOK' /\ ShapeInv'
  <1>0. ShapeInv /\ TypeOK
    BY DEF IInv
  <1> USE <1>0
  <1>1. /\ checkpoint \in [completed : 0..Len(log), at : 0..Len(log)]
        /\ checkpoint \in [completed : 0..Len(log), at : 0..(Len(log) + 1)]
        /\ job \in [by : {"nobody", "bus", "start", "rotate"}, at : 0..Len(log),
                    next : 0..(worker.outputs + 1)]
        /\ LastCheckpoint \in [completed : 0..Len(log), at : 0..Len(log)]
        /\ Len(log) \in Nat /\ worker.outputs \in Nat /\ worker.outputs >= 1
    BY StateIsTyped
  <1>2. /\ pc \in {"down", "subscribed", "opening", "restored", "running"}
        /\ from \in 0..Len(log) /\ known \subseteq Positions /\ epoch \in 0..Len(log)
        /\ spent \in [crashes : 0..worker.crashes, failures : 0..worker.failures,
                      late : 0..worker.late, rotations : 0..worker.rotations]
    BY Zenon DEF TypeOK
  <1>3. Nobody \in [by : {"nobody", "bus", "start", "rotate"}, at : 0..Len(log),
                    next : 0..(worker.outputs + 1)]
    BY <1>1 DEF Nobody
  <1>4. LastCheckpoint.completed \in 0..Len(log)
        /\ checkpoint.completed \in 0..Len(log) /\ job.at \in 0..Len(log)
    BY <1>1
  <1>5. \A k \in {"trigger", "output", "epoch", "checkpoint"}, a \in 0..Len(log), e \in 0..Len(log) :
           /\ Entry(k, a, 0, e) \in Entries
           /\ Entry(k, a, 0, e).about \in 0..Len(log) /\ Entry(k, a, 0, e).epoch \in 0..Len(log)
           /\ Entry(k, a, 0, e).part \in 0..worker.outputs
    <2> SUFFICES ASSUME NEW k \in {"trigger", "output", "epoch", "checkpoint"},
                        NEW a \in 0..Len(log), NEW e \in 0..Len(log)
                 PROVE  /\ Entry(k, a, 0, e) \in Entries
                        /\ Entry(k, a, 0, e).about \in 0..Len(log)
                        /\ Entry(k, a, 0, e).epoch \in 0..Len(log)
                        /\ Entry(k, a, 0, e).part \in 0..worker.outputs
      OBVIOUS
    <2>1. a \in Nat /\ e \in Nat /\ 0 \in Nat /\ 0 \in 0..worker.outputs
      BY <1>1
    <2>2. /\ Entry(k, a, 0, e) \in Entries
          /\ Entry(k, a, 0, e).about = a /\ Entry(k, a, 0, e).part = 0
          /\ Entry(k, a, 0, e).epoch = e
      BY <2>1 DEF Entry, Entries
    <2> QED  BY <2>1, <2>2
  <1>6. 0 \in 0..Len(log) /\ 0 \in 0..(Len(log) + 1)
        /\ (\A e \in 0..Len(log) : e \in 0..(Len(log) + 1))
        /\ Len(log) + 1 \in 0..(Len(log) + 1)
    BY <1>1
  <1>7. \A n \in 0..Len(log) :
           [completed |-> n, at |-> Len(log) + 1] \in [completed : 0..Len(log), at : 0..(Len(log) + 1)]
    BY <1>1
  <1>8. ASSUME ExternalEvent PROVE TypeOK' /\ ShapeInv'
    <2>1. /\ Trigger \in Entries /\ Trigger.about \in 0..Len(log)
          /\ Trigger.part \in 0..worker.outputs /\ Trigger.epoch \in 0..Len(log)
      BY <1>5, <1>6 DEF Trigger
    <2>2. /\ Emit(Trigger)
          /\ UNCHANGED <<worker, pc, from, catchup, seen, known, checkpoint, epoch, job, spent>>
      BY <1>8, Zenon DEF ExternalEvent
    <2> QED  BY <1>1, <1>2, <1>6, <2>1, <2>2, EmissionIsTyped
  <1>9. ASSUME OpenCheckpoint PROVE TypeOK' /\ ShapeInv'
    <2>1. /\ Emit(Entry("checkpoint", from, 0, 0))
          /\ UNCHANGED <<worker, pc, from, catchup, seen, known, checkpoint, epoch, job, spent>>
      BY <1>9, Zenon DEF OpenCheckpoint
    <2> QED  BY <1>1, <1>2, <1>5, <1>6, <2>1, EmissionIsTyped
  <1>10. ASSUME OpenEpoch PROVE TypeOK' /\ ShapeInv'
    <2>1. /\ Emit(Entry("epoch", 0, 0, 0))
          /\ epoch' = Len(log) + 1 /\ pc' = "opening"
          /\ UNCHANGED <<worker, from, catchup, seen, known, checkpoint, job, spent>>
      BY <1>10, Zenon DEF OpenEpoch
    <2> QED  BY <1>1, <1>2, <1>5, <1>6, <2>1, EmissionIsTyped
  <1>11. ASSUME OpenEpochCheckpoint PROVE TypeOK' /\ ShapeInv'
    <2>1. /\ Emit(Entry("checkpoint", LastCheckpoint.completed, 0, epoch))
          /\ pc' = "restored" /\ from' = LastCheckpoint.completed
          /\ checkpoint' = [completed |-> LastCheckpoint.completed, at |-> Len(log) + 1]
          /\ UNCHANGED <<worker, catchup, seen, known, epoch, job, spent>>
      BY <1>11, Zenon DEF OpenEpochCheckpoint
    <2> QED  BY <1>1, <1>2, <1>4, <1>5, <1>6, <1>7, <2>1, EmissionIsTyped
  <1>12. ASSUME AdvanceCheckpoint PROVE TypeOK' /\ ShapeInv'
    <2>1. /\ Emit(Entry("checkpoint", job.at, 0, epoch))
          /\ checkpoint' = [completed |-> job.at, at |-> Len(log) + 1]
          /\ job' = Nobody
          /\ UNCHANGED <<worker, pc, from, catchup, seen, known, epoch, spent>>
      BY <1>12, Zenon DEF AdvanceCheckpoint
    <2> QED  BY <1>1, <1>2, <1>3, <1>4, <1>5, <1>6, <1>7, <2>1, EmissionIsTyped
  <1>13. ASSUME RotateEpoch PROVE TypeOK' /\ ShapeInv'
    <2>1. /\ Emit(Entry("epoch", 0, 0, 0))
          /\ epoch' = Len(log) + 1
          /\ job' = [by |-> "rotate", at |-> 0, next |-> 0]
          /\ UNCHANGED <<worker, pc, from, catchup, seen, known, checkpoint>>
      BY <1>13, Zenon DEF RotateEpoch
    <2>2. spent' \in [crashes : 0..worker.crashes, failures : 0..worker.failures,
                      late : 0..worker.late, rotations : 0..worker.rotations]
      <3>1. spent.rotations < worker.rotations
            /\ spent' = [spent EXCEPT !.rotations = spent.rotations + 1]
        BY <1>13 DEF RotateEpoch
      <3> QED  BY <1>2, <3>1, SpentIsTyped
    <2>3. job' \in [by : {"nobody", "bus", "start", "rotate"}, at : 0..Len(log),
                    next : 0..(worker.outputs + 1)]
      BY <1>1, <2>1
    <2> QED  BY <1>1, <1>2, <1>5, <1>6, <2>1, <2>2, <2>3, EmissionIsTyped
  <1>14. ASSUME RotateCheckpoint PROVE TypeOK' /\ ShapeInv'
    <2>1. /\ Emit(Entry("checkpoint", checkpoint.completed, 0, epoch))
          /\ checkpoint' = [checkpoint EXCEPT !.at = Len(log) + 1]
          /\ job' = Nobody
          /\ UNCHANGED <<worker, pc, from, catchup, seen, known, epoch, spent>>
      BY <1>14, Zenon DEF RotateCheckpoint
    <2>2. checkpoint' \in [completed : 0..Len(log), at : 0..(Len(log) + 1)]
      BY <1>1, <1>6, <2>1
    <2> QED  BY <1>1, <1>2, <1>3, <1>4, <1>5, <1>6, <2>1, <2>2, EmissionIsTyped
  <1> QED  BY <1>8, <1>9, <1>10, <1>11, <1>12, <1>13, <1>14

\* What the tasks take off the queue and the replay.
LEMMA TakingIsTyped ==
  ASSUME IInv
  PROVE  /\ BusTakes => TypeOK' /\ ShapeInv'
         /\ StartTakes => TypeOK' /\ ShapeInv'
  <1>0. ShapeInv /\ TypeOK
    BY DEF IInv
  <1> USE <1>0
  <1>1. /\ checkpoint \in [completed : 0..Len(log), at : 0..Len(log)]
        /\ job \in [by : {"nobody", "bus", "start", "rotate"}, at : 0..Len(log),
                    next : 0..(worker.outputs + 1)]
        /\ Len(log) \in Nat /\ worker.outputs \in Nat /\ worker.outputs >= 1
    BY StateIsTyped
  <1>2. /\ pc \in {"down", "subscribed", "opening", "restored", "running"}
        /\ from \in 0..Len(log) /\ epoch \in 0..Len(log)
        /\ seen \subseteq Positions /\ known \subseteq Positions
        /\ spent \in [crashes : 0..worker.crashes, failures : 0..worker.failures,
                      late : 0..worker.late, rotations : 0..worker.rotations]
        /\ \A n \in DOMAIN queue : queue[n] \in Positions
        /\ \A n \in DOMAIN catchup : catchup[n] \in Positions
    BY Zenon DEF TypeOK
  <1>3. queue \in Seq(Nat) /\ catchup \in Seq(Nat)
    BY DEF ShapeInv
  <1>4. ASSUME NEW i \in Positions, NEW by \in {"bus", "start"}, Take(i, by)
        PROVE  /\ seen' \subseteq Positions /\ known' \subseteq Positions
               /\ job' \in [by : {"nobody", "bus", "start", "rotate"}, at : 0..Len(log),
                            next : 0..(worker.outputs + 1)]
    <2>1. seen' \subseteq Positions /\ known' \subseteq Positions
      BY <1>2, <1>4 DEF Take
    <2>2. FirstPart(i) \in 0..(worker.outputs + 1)
      BY <1>1 DEF FirstPart
    <2>3. i \in 0..Len(log)
      BY <1>1 DEF Positions
    <2>4. [by |-> by, at |-> i, next |-> FirstPart(i)]
             \in [by : {"nobody", "bus", "start", "rotate"}, at : 0..Len(log),
                  next : 0..(worker.outputs + 1)]
      BY <2>2, <2>3
    <2> QED  BY <1>1, <1>4, <2>1, <2>4 DEF Take
  <1>5. ASSUME BusTakes PROVE TypeOK' /\ ShapeInv'
    <2>1. queue # <<>> /\ queue' = Tail(queue) /\ catchup' = catchup /\ Take(Head(queue), "bus")
      BY <1>5 DEF BusTakes
    <2>2. Head(queue) \in Positions
      BY <1>2, <1>3, <2>1, TailOfSequence
    <2>3. queue' \in Seq(Nat) /\ \A n \in DOMAIN queue' : queue'[n] \in Positions
      BY <1>2, <1>3, <2>1, TailOfSequence
    <2>4. UNCHANGED <<worker, log, pc, from, checkpoint, epoch, spent>>
      BY <2>1 DEF Take
    <2>5. /\ seen' \subseteq Positions /\ known' \subseteq Positions
          /\ job' \in [by : {"nobody", "bus", "start", "rotate"}, at : 0..Len(log),
                       next : 0..(worker.outputs + 1)]
      BY <1>4, <2>1, <2>2
    <2> QED  BY <1>1, <1>2, <1>3, <2>1, <2>3, <2>4, <2>5, QuietIsTyped
  <1>6. ASSUME StartTakes PROVE TypeOK' /\ ShapeInv'
    <2>1. /\ catchup # <<>> /\ catchup' = Tail(catchup) /\ queue' = queue
          /\ Take(Head(catchup), "start")
      BY <1>6 DEF StartTakes
    <2>2. Head(catchup) \in Positions
      BY <1>2, <1>3, <2>1, TailOfSequence
    <2>3. catchup' \in Seq(Nat) /\ \A n \in DOMAIN catchup' : catchup'[n] \in Positions
      BY <1>2, <1>3, <2>1, TailOfSequence
    <2>4. UNCHANGED <<worker, log, pc, from, checkpoint, epoch, spent>>
      BY <2>1 DEF Take
    <2>5. /\ seen' \subseteq Positions /\ known' \subseteq Positions
          /\ job' \in [by : {"nobody", "bus", "start", "rotate"}, at : 0..Len(log),
                       next : 0..(worker.outputs + 1)]
      BY <1>4, <2>1, <2>2
    <2> QED  BY <1>1, <1>2, <1>3, <2>1, <2>3, <2>4, <2>5, QuietIsTyped
  <1> QED  BY <1>5, <1>6

\* An output, new or found.
LEMMA WritingIsTyped ==
  ASSUME IInv, WriteOutput
  PROVE  TypeOK' /\ ShapeInv'
  <1>0. ShapeInv /\ TypeOK /\ CursorInv
    BY DEF IInv
  <1> USE <1>0
  <1>1. /\ checkpoint \in [completed : 0..Len(log), at : 0..Len(log)]
        /\ checkpoint \in [completed : 0..Len(log), at : 0..(Len(log) + 1)]
        /\ job \in [by : {"nobody", "bus", "start", "rotate"}, at : 0..Len(log),
                    next : 0..(worker.outputs + 1)]
        /\ Len(log) \in Nat /\ worker.outputs \in Nat /\ worker.outputs >= 1
    BY StateIsTyped
  <1>2. /\ pc \in {"down", "subscribed", "opening", "restored", "running"}
        /\ from \in 0..Len(log) /\ epoch \in 0..Len(log)
        /\ seen \subseteq Positions /\ known \subseteq Positions
        /\ spent \in [crashes : 0..worker.crashes, failures : 0..worker.failures,
                      late : 0..worker.late, rotations : 0..worker.rotations]
        /\ \A n \in DOMAIN queue : queue[n] \in Positions
        /\ \A n \in DOMAIN catchup : catchup[n] \in Positions
    BY Zenon DEF TypeOK
  <1>3. queue \in Seq(Nat) /\ catchup \in Seq(Nat)
    BY DEF ShapeInv
  <1>4. /\ UNCHANGED <<worker, pc, from, catchup, seen, checkpoint, epoch, spent>>
        /\ job' = [job EXCEPT !.next = @ + 1] /\ job.next <= worker.outputs
    BY DEF WriteOutput
  <1>5. job' \in [by : {"nobody", "bus", "start", "rotate"}, at : 0..Len(log),
                  next : 0..(worker.outputs + 1)]
    <2>1. job.next + 1 \in 0..(worker.outputs + 1)
      BY <1>1, <1>4
    <2> QED  BY <1>1, <1>4, <2>1
  <1>6. CASE Written(job.at, job.next, epoch)
    <2>1. UNCHANGED <<log, queue, known>>
      BY <1>6 DEF WriteOutput
    <2> QED  BY <1>1, <1>2, <1>3, <1>4, <1>5, <2>1, QuietIsTyped
  <1>7. CASE ~Written(job.at, job.next, epoch)
    <2> DEFINE e == Entry("output", job.at, job.next, epoch)
    <2>1. /\ Emit(e)
          /\ known' = IF worker.projects THEN known \cup {Len(log) + 1} ELSE known
      BY <1>7 DEF WriteOutput
    <2>2. /\ e \in Entries /\ e.about \in 0..Len(log) /\ e.part \in 0..worker.outputs
          /\ e.epoch \in 0..Len(log)
      <3>1. /\ job.at \in Nat /\ job.next \in Nat /\ epoch \in Nat
            /\ job.at \in 0..Len(log) /\ job.next \in 0..worker.outputs
        BY <1>1, <1>2, <1>4
      <3> QED  BY <1>2, <3>1 DEF Entry, Entries
    <2>3. epoch' \in 0..(Len(log) + 1)
      BY <1>1, <1>2, <1>4
    <2> HIDE DEF e
    <2> QED  BY <1>1, <1>2, <1>4, <1>5, <2>1, <2>2, <2>3, EmissionIsTyped
  <1> QED  BY <1>6, <1>7

\* The steps of start() that write nothing, a failure and a crash.
LEMMA QuietStepsAreTyped ==
  ASSUME IInv
  PROVE  /\ Subscribe => TypeOK' /\ ShapeInv'
         /\ RestoreFromHistory => TypeOK' /\ ShapeInv'
         /\ ReplayFromCheckpoint => TypeOK' /\ ShapeInv'
         /\ Fail => TypeOK' /\ ShapeInv'
         /\ Crash => TypeOK' /\ ShapeInv'
         /\ UNCHANGED vars => TypeOK' /\ ShapeInv'
  <1>0. ShapeInv /\ TypeOK
    BY DEF IInv
  <1> USE <1>0
  <1>1. /\ checkpoint \in [completed : 0..Len(log), at : 0..Len(log)]
        /\ job \in [by : {"nobody", "bus", "start", "rotate"}, at : 0..Len(log),
                    next : 0..(worker.outputs + 1)]
        /\ LastCheckpoint \in [completed : 0..Len(log), at : 0..Len(log)]
        /\ Len(log) \in Nat /\ worker.outputs \in Nat /\ worker.outputs >= 1
    BY StateIsTyped
  <1>2. /\ pc \in {"down", "subscribed", "opening", "restored", "running"}
        /\ from \in 0..Len(log) /\ epoch \in 0..Len(log)
        /\ seen \subseteq Positions /\ known \subseteq Positions
        /\ spent \in [crashes : 0..worker.crashes, failures : 0..worker.failures,
                      late : 0..worker.late, rotations : 0..worker.rotations]
        /\ \A n \in DOMAIN queue : queue[n] \in Positions
        /\ \A n \in DOMAIN catchup : catchup[n] \in Positions
    BY Zenon DEF TypeOK
  <1>3. queue \in Seq(Nat) /\ catchup \in Seq(Nat)
    BY DEF ShapeInv
  <1>4. <<>> \in Seq(Nat) /\ \A n \in DOMAIN <<>> : <<>>[n] \in Positions
    OBVIOUS
  <1>5. Nobody \in [by : {"nobody", "bus", "start", "rotate"}, at : 0..Len(log),
                    next : 0..(worker.outputs + 1)]
    BY <1>1 DEF Nobody
  <1>6. None \in [completed : 0..Len(log), at : 0..Len(log)]
    BY <1>1 DEF None
  <1>7. 0 \in 0..Len(log) /\ Len(log) \in 0..Len(log)
        /\ LastCheckpoint.completed \in 0..Len(log) /\ LastCheckpoint.at \in 0..Len(log)
    BY <1>1
  <1>8. 1..LastCheckpoint.at \subseteq Positions
    BY <1>1, <1>7 DEF Positions
  <1>9. ASSUME Subscribe PROVE TypeOK' /\ ShapeInv'
    <2>1. /\ pc' = "subscribed" /\ from' = Len(log) /\ queue' = <<>> /\ catchup' = <<>>
          /\ UNCHANGED <<worker, log, seen, known, checkpoint, epoch, job, spent>>
      BY <1>9 DEF Subscribe
    <2> QED  BY <1>1, <1>2, <1>4, <1>7, <2>1, QuietIsTyped
  <1>10. ASSUME RestoreFromHistory PROVE TypeOK' /\ ShapeInv'
    <2>1. UNCHANGED <<worker, log, queue, catchup, seen, job, spent>>
      BY <1>10 DEF RestoreFromHistory
    <2>2. PICK e \in 0..Len(log) : Restored(e)
      <3>1. CASE worker.projects
        BY <1>7, <1>10, <3>1 DEF RestoreFromHistory
      <3>2. CASE ~worker.projects
        <4>1. Checkpoints # {} /\ Restored(log[LastCheckpoint.at].epoch)
          BY <1>10, <3>2 DEF RestoreFromHistory
        <4>2. LastCheckpoint.at \in Positions
          BY <4>1, LastIsLast DEF Checkpoints
        <4>3. log[LastCheckpoint.at].epoch \in 0..Len(log)
          <5>1. log[LastCheckpoint.at].epoch \in 0..(LastCheckpoint.at - 1)
            BY <4>2 DEF ShapeInv
          <5> QED  BY <1>1, <1>7, <5>1
        <4> QED  BY <4>1, <4>3
      <3> QED  BY <3>1, <3>2
    <2>3. /\ pc' = "restored" /\ checkpoint' = LastCheckpoint
          /\ from' = LastCheckpoint.completed /\ epoch' = e
          /\ known' \subseteq Positions
      BY <1>8, <2>2 DEF Restored
    <2> QED  BY <1>1, <1>2, <1>3, <1>7, <2>1, <2>3, QuietIsTyped
  <1>11. ASSUME ReplayFromCheckpoint PROVE TypeOK' /\ ShapeInv'
    <2>1. /\ pc' = "running" /\ catchup' = [i \in 1..(Len(log) - from) |-> from + i]
          /\ UNCHANGED <<worker, log, from, queue, seen, known, checkpoint, epoch, job, spent>>
      BY <1>11 DEF ReplayFromCheckpoint
    <2>2. Len(log) - from \in Nat /\ from \in Nat
      BY <1>1, <1>2
    <2>3. catchup' \in Seq(Nat)
      BY <2>1, <2>2
    <2>4. \A n \in DOMAIN catchup' : catchup'[n] \in Positions
      BY <1>1, <2>1, <2>2 DEF Positions
    <2> QED  BY <1>1, <1>2, <1>3, <2>1, <2>3, <2>4, QuietIsTyped
  <1>12. ASSUME Fail PROVE TypeOK' /\ ShapeInv'
    <2>1. /\ spent.failures < worker.failures
          /\ spent' = [spent EXCEPT !.failures = spent.failures + 1]
          /\ job' = Nobody
          /\ UNCHANGED <<worker, log, from, epoch>>
      BY <1>12 DEF Fail, Raised
    <2>2. /\ checkpoint' \in [completed : 0..Len(log), at : 0..Len(log)]
          /\ known' \subseteq Positions /\ seen' \subseteq Positions
      <3>1. LastCheckpoint' = LastCheckpoint
        BY <2>1, LogKept
      <3> QED  BY <1>1, <1>2, <1>8, <1>12, <3>1 DEF Fail, Raised
    <2>3. CASE job.by = "start"
      <3>1. pc' = "down" /\ queue' = <<>> /\ catchup' = <<>>
        BY <1>12, <2>3 DEF Fail, Raised
      <3>2. spent' \in [crashes : 0..worker.crashes, failures : 0..worker.failures,
                        late : 0..worker.late, rotations : 0..worker.rotations]
        BY <1>2, <2>1, SpentIsTyped
      <3> QED  BY <1>1, <1>2, <1>4, <1>5, <2>1, <2>2, <3>1, <3>2, QuietIsTyped
    <2>4. CASE job.by # "start"
      <3>1. UNCHANGED <<pc, queue, catchup>>
        BY <1>12, <2>4 DEF Fail, Raised
      <3>2. spent' \in [crashes : 0..worker.crashes, failures : 0..worker.failures,
                        late : 0..worker.late, rotations : 0..worker.rotations]
        BY <1>2, <2>1, SpentIsTyped
      <3> QED  BY <1>1, <1>2, <1>3, <1>5, <2>1, <2>2, <3>1, <3>2, QuietIsTyped
    <2> QED  BY <2>3, <2>4
  <1>13. ASSUME Crash PROVE TypeOK' /\ ShapeInv'
    <2>1. /\ pc' = "down" /\ from' = 0 /\ queue' = <<>> /\ catchup' = <<>>
          /\ seen' = {} /\ known' = {} /\ checkpoint' = None /\ epoch' = 0
          /\ job' = Nobody /\ UNCHANGED <<worker, log>>
          /\ spent.crashes < worker.crashes
          /\ spent' = [spent EXCEPT !.crashes = spent.crashes + 1]
      BY <1>13 DEF Crash
    <2>2. spent' \in [crashes : 0..worker.crashes, failures : 0..worker.failures,
                      late : 0..worker.late, rotations : 0..worker.rotations]
      BY <1>2, <2>1, SpentIsTyped
    <2> QED  BY <1>1, <1>4, <1>5, <1>6, <1>7, <2>1, <2>2, QuietIsTyped
  <1>14. ASSUME UNCHANGED vars PROVE TypeOK' /\ ShapeInv'
    <2>1. UNCHANGED <<worker, log, pc, from, queue, catchup, seen, known, checkpoint, epoch, job, spent>>
      BY <1>14 DEF vars
    <2> QED  BY <1>1, <1>2, <1>3, <2>1, QuietIsTyped
  <1> QED  BY <1>9, <1>10, <1>11, <1>12, <1>13, <1>14

\* What an emission that raises late has appended.
LEMMA LateFailure ==
  ASSUME IInv, FailLate
  PROVE  \E e \in Entries :
           /\ RaisesLate(e) /\ job.by # "nobody"
           /\ e.about \in 0..Len(log) /\ e.part \in 0..worker.outputs /\ e.epoch \in 0..Len(log)
           /\ e.kind \in {"output", "checkpoint"}
           /\ e.kind = "checkpoint" /\ worker.projects => e.about >= LastCheckpoint.completed
           /\ e.kind = "output" =>
                /\ Answering /\ ~Written(job.at, job.next, epoch)
                /\ e.about = job.at /\ e.part = job.next /\ e.epoch = epoch
  <1>0. ShapeInv /\ TypeOK /\ CursorInv
    BY DEF IInv
  <1>1. /\ Len(log) \in Nat /\ worker.outputs \in Nat /\ job.at \in 0..Len(log)
        /\ job.next \in 0..(worker.outputs + 1) /\ epoch \in 0..Len(log)
        /\ checkpoint.completed \in 0..Len(log)
    BY <1>0, OutputsPositive DEF TypeOK, ShapeInv
  <1>2. worker.projects /\ job.by # "nobody" => checkpoint = LastCheckpoint
    BY <1>0 DEF CursorInv, Told
  <1>3. LastCheckpoint.completed \in Nat
    BY <1>0, LastIsTyped
  <1>4. \A k \in {"output", "checkpoint"}, a \in 0..Len(log), p \in 0..worker.outputs :
           /\ Entry(k, a, p, epoch) \in Entries
           /\ Entry(k, a, p, epoch).kind = k /\ Entry(k, a, p, epoch).about = a
           /\ Entry(k, a, p, epoch).part = p /\ Entry(k, a, p, epoch).epoch = epoch
    BY <1>1 DEF Entry, Entries
  <1>5. CASE /\ job.by \in {"bus", "start"} /\ job.next <= worker.outputs
             /\ ~Written(job.at, job.next, epoch)
             /\ RaisesLate(Entry("output", job.at, job.next, epoch))
    <2> DEFINE e == Entry("output", job.at, job.next, epoch)
    <2>1. job.next \in 0..worker.outputs
      BY <1>1, <1>5
    <2>2. /\ e \in Entries /\ e.kind = "output" /\ e.about = job.at /\ e.part = job.next
          /\ e.epoch = epoch
      BY <1>1, <1>4, <2>1
    <2>3. RaisesLate(e) /\ Answering /\ job.by # "nobody" /\ ~Written(job.at, job.next, epoch)
      BY <1>5 DEF Answering
    <2> HIDE DEF e
    <2> QED  BY <1>1, <2>1, <2>2, <2>3
  <1>6. ASSUME NEW a \in 0..Len(log), a >= checkpoint.completed, job.by # "nobody",
               RaisesLate(Entry("checkpoint", a, 0, epoch))
        PROVE  \E e \in Entries :
                 /\ RaisesLate(e) /\ job.by # "nobody"
                 /\ e.about \in 0..Len(log) /\ e.part \in 0..worker.outputs
                 /\ e.epoch \in 0..Len(log) /\ e.kind = "checkpoint"
                 /\ worker.projects => e.about >= LastCheckpoint.completed
    <2> DEFINE e == Entry("checkpoint", a, 0, epoch)
    <2>1. /\ e \in Entries /\ e.kind = "checkpoint" /\ e.about = a /\ e.part = 0
          /\ e.epoch = epoch /\ 0 \in 0..worker.outputs
      BY <1>1, <1>4
    <2>2. RaisesLate(e) /\ job.by # "nobody"
      BY <1>6
    <2>3. worker.projects => a >= LastCheckpoint.completed
      BY <1>2, <1>6
    <2> HIDE DEF e
    <2> QED  BY <1>1, <2>1, <2>2, <2>3
  <1>7. CASE /\ job.by \in {"bus", "start"} /\ job.next = worker.outputs + 1
             /\ job.at >= checkpoint.completed
             /\ RaisesLate(Entry("checkpoint", job.at, 0, epoch))
    <2>1. job.by # "nobody" /\ job.at \in 0..Len(log) /\ job.at >= checkpoint.completed
      BY <1>1, <1>7
    <2> QED  BY <1>6, <1>7, <2>1
  <1>8. CASE job.by = "rotate" /\ RaisesLate(Entry("checkpoint", checkpoint.completed, 0, epoch))
    <2>1. job.by # "nobody" /\ checkpoint.completed >= checkpoint.completed
      BY <1>1, <1>8
    <2> QED  BY <1>1, <1>6, <1>8, <2>1
  <1> QED  BY <1>5, <1>7, <1>8 DEF FailLate

LEMMA LateFailuresAreTyped ==
  ASSUME IInv
  PROVE  /\ FailLate => TypeOK' /\ ShapeInv'
         /\ RotateFails => TypeOK' /\ ShapeInv'
  <1>0. ShapeInv /\ TypeOK
    BY DEF IInv
  <1>1. /\ checkpoint \in [completed : 0..Len(log), at : 0..(Len(log) + 1)]
        /\ job \in [by : {"nobody", "bus", "start", "rotate"}, at : 0..Len(log),
                    next : 0..(worker.outputs + 1)]
        /\ LastCheckpoint \in [completed : 0..Len(log), at : 0..Len(log)]
        /\ Len(log) \in Nat /\ worker.outputs \in Nat
    BY <1>0, StateIsTyped
  <1>2. /\ pc \in {"down", "subscribed", "opening", "restored", "running"}
        /\ from \in 0..Len(log) /\ epoch \in 0..Len(log)
        /\ seen \subseteq Positions /\ known \subseteq Positions
        /\ spent \in [crashes : 0..worker.crashes, failures : 0..worker.failures,
                      late : 0..worker.late, rotations : 0..worker.rotations]
        /\ \A n \in DOMAIN queue : queue[n] \in Positions
        /\ \A n \in DOMAIN catchup : catchup[n] \in Positions
    BY <1>0, Zenon DEF TypeOK
  <1>3. queue \in Seq(Nat) /\ catchup \in Seq(Nat) /\ Len(log) + 1 \in Nat
    BY <1>0, <1>1 DEF ShapeInv
  <1>4. \A q \in {queue, Append(queue, Len(log) + 1)} :
           q \in Seq(Nat) /\ \A n \in DOMAIN q : q[n] \in Positions \cup {Len(log) + 1}
    BY <1>2, <1>3, QueueGrows
  <1>5. <<>> \in Seq(Nat) /\ \A n \in DOMAIN <<>> : <<>>[n] \in Positions
    OBVIOUS
  <1>6. /\ Nobody \in [by : {"nobody", "bus", "start", "rotate"}, at : 0..Len(log),
                       next : 0..(worker.outputs + 1)]
        /\ epoch \in 0..(Len(log) + 1)
    BY <1>1, <1>2 DEF Nobody
  <1>7. ASSUME FailLate PROVE TypeOK' /\ ShapeInv'
    <2>1. PICK e \in Entries :
            /\ RaisesLate(e)
            /\ e.about \in 0..Len(log) /\ e.part \in 0..worker.outputs /\ e.epoch \in 0..Len(log)
      BY <1>7, LateFailure
    <2>2. PICK published \in {queue, Append(queue, Len(log) + 1)} : Raised(published)
      BY <2>1 DEF RaisesLate
    <2>3. /\ log' = Append(log, e) /\ job' = Nobody /\ UNCHANGED <<worker, from, epoch>>
          /\ spent.late < worker.late /\ spent' = [spent EXCEPT !.late = spent.late + 1]
      BY <2>1, <2>2 DEF RaisesLate, Raised
    <2>4. spent' \in [crashes : 0..worker.crashes, failures : 0..worker.failures,
                      late : 0..worker.late, rotations : 0..worker.rotations]
      BY <1>0, <1>2, <2>3, SpentIsTyped
    <2>5. LastCheckpoint' \in [completed : 0..Len(log), at : 0..(Len(log) + 1)]
      <3>1. CASE e.kind = "checkpoint"
        <4>1. LastCheckpoint' = [completed |-> e.about, at |-> Len(log) + 1]
          BY <1>0, <2>3, <3>1, NewCheckpoint
        <4> QED  BY <1>1, <2>1, <4>1
      <3>2. CASE e.kind # "checkpoint"
        BY <1>0, <1>1, <2>3, <3>2, OtherEntry
      <3> QED  BY <3>1, <3>2
    <2>6. 1..LastCheckpoint'.at \subseteq Positions \cup {Len(log) + 1}
      <3>1. LastCheckpoint'.at \in 0..(Len(log) + 1)
        BY <2>5
      <3> QED  BY <1>1, <3>1 DEF Positions
    <2>7. /\ seen' \subseteq Positions /\ known' \subseteq Positions \cup {Len(log) + 1}
          /\ checkpoint' \in [completed : 0..Len(log), at : 0..(Len(log) + 1)]
      BY <1>1, <1>2, <2>2, <2>5, <2>6 DEF Raised
    <2>8. CASE job.by = "start"
      <3>1. pc' = "down" /\ queue' = <<>> /\ catchup' = <<>>
        BY <2>2, <2>8 DEF Raised
      <3> QED  BY <1>0, <1>1, <1>2, <1>5, <1>6, <2>1, <2>3, <2>4, <2>7, <3>1, AppendIsTyped
    <2>9. CASE job.by # "start"
      <3>1. queue' = published /\ UNCHANGED <<pc, catchup>>
        BY <2>2, <2>9 DEF Raised
      <3>2. queue' \in Seq(Nat) /\ \A n \in DOMAIN queue' : queue'[n] \in Positions \cup {Len(log) + 1}
        BY <1>4, <3>1
      <3> QED  BY <1>0, <1>1, <1>2, <1>3, <1>6, <2>1, <2>3, <2>4, <2>7, <3>1, <3>2, AppendIsTyped
    <2> QED  BY <2>8, <2>9
  <1>8. ASSUME RotateFails PROVE TypeOK' /\ ShapeInv'
    <2> DEFINE e == Entry("epoch", 0, 0, 0)
    <2>1. /\ e \in Entries /\ e.about \in 0..Len(log) /\ e.part \in 0..worker.outputs
          /\ e.epoch \in 0..Len(log)
      BY <1>1 DEF Entry, Entries
    <2>2. /\ log' = Append(log, e)
          /\ queue' \in {queue, Append(queue, Len(log) + 1)}
          /\ UNCHANGED <<worker, pc, from, catchup, seen, known, checkpoint, epoch, job>>
      BY <1>8 DEF RotateFails
    <2>3. spent' \in [crashes : 0..worker.crashes, failures : 0..worker.failures,
                      late : 0..worker.late, rotations : 0..worker.rotations]
      <3>1. /\ spent.rotations < worker.rotations /\ spent.late < worker.late
            /\ spent' = [spent EXCEPT !.rotations = spent.rotations + 1, !.late = spent.late + 1]
        BY <1>8 DEF RotateFails
      <3> QED  BY <1>0, <1>2, <3>1, SpentIsTyped
    <2> HIDE DEF e
    <2>4. queue' \in Seq(Nat) /\ \A n \in DOMAIN queue' : queue'[n] \in Positions \cup {Len(log) + 1}
      BY <1>4, <2>2
    <2>5. known' \subseteq Positions \cup {Len(log) + 1} /\ epoch' \in 0..(Len(log) + 1)
      BY <1>2, <1>6, <2>2
    <2> QED  BY <1>0, <1>1, <1>2, <1>3, <2>1, <2>2, <2>3, <2>4, <2>5, AppendIsTyped
  <1> QED  BY <1>7, <1>8

-----------------------------------------------------------------------------
\* The cursor, the checkpoints and the projector's epoch.

\* What every emission of the system appends.
LEMMA WhatIsAppended ==
  ASSUME IInv
  PROVE  /\ Trigger \in Entries /\ Trigger.kind = "trigger"
         /\ \A a \in Nat, p \in Nat, e \in Nat, k \in {"trigger", "output", "epoch", "checkpoint"} :
              /\ Entry(k, a, p, e) \in Entries
              /\ Entry(k, a, p, e).kind = k /\ Entry(k, a, p, e).about = a
              /\ Entry(k, a, p, e).part = p /\ Entry(k, a, p, e).epoch = e
         /\ Len(log) \in Nat /\ from \in Nat /\ epoch \in Nat
         /\ job.at \in Nat /\ job.next \in Nat
         /\ LastCheckpoint.completed \in Nat /\ checkpoint.completed \in Nat
  <1>1. ShapeInv /\ TypeOK
    BY DEF IInv
  <1>2. Len(log) \in Nat
    BY <1>1 DEF ShapeInv
  <1>3. LastCheckpoint.completed \in Nat
    BY <1>1, LastIsTyped
  <1>4. checkpoint.completed \in Nat /\ job.at \in Nat /\ job.next \in Nat
    BY <1>1 DEF ShapeInv
  <1>5. from \in Nat /\ epoch \in Nat
    BY <1>1, <1>2 DEF TypeOK
  <1>6. Trigger \in Entries /\ Trigger.kind = "trigger"
    BY DEF Trigger, Entry, Entries
  <1>7. \A a \in Nat, p \in Nat, e \in Nat, k \in {"trigger", "output", "epoch", "checkpoint"} :
           /\ Entry(k, a, p, e) \in Entries
           /\ Entry(k, a, p, e).kind = k /\ Entry(k, a, p, e).about = a
           /\ Entry(k, a, p, e).part = p /\ Entry(k, a, p, e).epoch = e
    BY DEF Entry, Entries
  <1> QED  BY <1>2, <1>3, <1>4, <1>5, <1>6, <1>7

\* A step leaves the log alone or appends one entry; a checkpoint is not below the last,
\* an output is the one that the holder of the lock writes next.
LEMMA StepsAppend ==
  ASSUME IInv, [Next]_vars
  PROVE  /\ worker' = worker /\ (Told' => Told)
         /\ \/ log' = log
            \/ \E e \in Entries :
                 /\ log' = Append(log, e)
                 /\ e.kind = "checkpoint" /\ Told' => e.about >= LastCheckpoint.completed
                 /\ e.kind = "output" =>
                      /\ Answering /\ ~Written(job.at, job.next, epoch)
                      /\ e.about = job.at /\ e.part = job.next /\ e.epoch = epoch
  <1> DEFINE Grows == \E e \in Entries :
                        /\ log' = Append(log, e)
                        /\ e.kind = "checkpoint" /\ Told' => e.about >= LastCheckpoint.completed
                        /\ e.kind = "output" =>
                             /\ Answering /\ ~Written(job.at, job.next, epoch)
                             /\ e.about = job.at /\ e.part = job.next /\ e.epoch = epoch
  <1> SUFFICES worker' = worker /\ (Told' => Told) /\ (log' = log \/ Grows)
    OBVIOUS
  <1>0. ShapeInv /\ TypeOK /\ CursorInv
    BY DEF IInv
  <1>1. /\ Trigger \in Entries /\ Trigger.kind = "trigger"
        /\ Len(log) \in Nat /\ from \in Nat /\ epoch \in Nat
        /\ job.at \in Nat /\ job.next \in Nat
        /\ LastCheckpoint.completed \in Nat /\ checkpoint.completed \in Nat
    BY WhatIsAppended
  <1>a. ASSUME NEW a \in Nat, NEW p \in Nat, NEW e \in Nat,
               NEW k \in {"trigger", "output", "epoch", "checkpoint"},
               log' = Append(log, Entry(k, a, p, e)),
               k = "checkpoint" /\ Told' => a >= LastCheckpoint.completed,
               k = "output" =>
                 /\ Answering /\ ~Written(job.at, job.next, epoch)
                 /\ a = job.at /\ p = job.next /\ e = epoch
        PROVE  Grows
    <2> DEFINE x == Entry(k, a, p, e)
    <2>1. /\ x \in Entries /\ x.kind = k /\ x.about = a /\ x.part = p /\ x.epoch = e
      BY DEF Entry, Entries
    <2>2. log' = Append(log, x)
      BY <1>a
    <2> HIDE DEF x
    <2> QED  BY <1>a, <2>1, <2>2
  <1>b. ASSUME log' = Append(log, Trigger) PROVE Grows
    BY <1>1, <1>b
  <1>c. ASSUME NEW a \in Nat, NEW e \in Nat, Told' => a >= LastCheckpoint.completed,
               log' = Append(log, Entry("checkpoint", a, 0, e))
        PROVE  Grows
    BY <1>a, <1>c
  <1>d. LastCheckpoint.completed >= LastCheckpoint.completed
        /\ from >= 0
    BY <1>1
  <1> HIDE DEF Grows
  <1>e. worker' = worker /\ (Told' => Told)
    <2>1. CASE \/ ExternalEvent \/ start \/ BusTakes \/ StartTakes \/ WriteOutput \/ AdvanceCheckpoint
               \/ RotateCheckpoint
      <3>1. worker' = worker /\ spent' = spent
        BY <2>1 DEF ExternalEvent, start, Subscribe, RestoreFromHistory, ReplayFromCheckpoint,
           OpenCheckpoint, OpenEpoch, OpenEpochCheckpoint, BusTakes, StartTakes, Take, WriteOutput,
           AdvanceCheckpoint, RotateCheckpoint
      <3> QED  BY <3>1 DEF Told
    <2>2. CASE RotateEpoch \/ Fail \/ Crash
      <3>1. /\ worker' = worker
            /\ \/ spent' = [spent EXCEPT !.rotations = spent.rotations + 1]
               \/ spent' = [spent EXCEPT !.failures = spent.failures + 1]
               \/ spent' = [spent EXCEPT !.crashes = spent.crashes + 1]
        BY <2>2 DEF RotateEpoch, Fail, Raised, Crash
      <3>2. spent \in [crashes : 0..worker.crashes, failures : 0..worker.failures,
                       late : 0..worker.late, rotations : 0..worker.rotations]
        BY <1>0, Zenon DEF TypeOK
      <3>3. spent'.late = spent.late
        BY <3>1, <3>2
      <3> QED  BY <3>1, <3>3 DEF Told
    <2>3. CASE FailLate \/ RotateFails
      <3>1. /\ worker' = worker
            /\ spent'.late = spent.late + 1
        <4>1. spent \in [crashes : 0..worker.crashes, failures : 0..worker.failures,
                         late : 0..worker.late, rotations : 0..worker.rotations]
          BY <1>0, Zenon DEF TypeOK
        <4>2. /\ worker' = worker
              /\ \/ spent' = [spent EXCEPT !.late = spent.late + 1]
                 \/ spent' = [spent EXCEPT !.rotations = spent.rotations + 1, !.late = spent.late + 1]
          BY <2>3 DEF FailLate, RotateFails, RaisesLate, Raised
        <4> QED  BY <4>1, <4>2
      <3>2. spent.late + 1 # 0
        <4>1. spent.late \in 0..worker.late
          BY <1>0 DEF TypeOK
        <4> QED  BY <4>1
      <3> QED  BY <3>1, <3>2 DEF Told
    <2>4. CASE UNCHANGED vars
      BY <2>4 DEF vars, Told
    <2> QED  BY <2>1, <2>2, <2>3, <2>4 DEF Next, _process_event
  <1>2. ASSUME ExternalEvent PROVE worker' = worker /\ Grows
    <2>1. worker' = worker /\ log' = Append(log, Trigger)
      BY <1>2 DEF ExternalEvent, Emit
    <2> QED  BY <1>b, <2>1
  <1>3. ASSUME start PROVE worker' = worker /\ (log' = log \/ Grows)
    <2>1. CASE Subscribe \/ RestoreFromHistory \/ ReplayFromCheckpoint
      BY <2>1 DEF Subscribe, RestoreFromHistory, ReplayFromCheckpoint
    <2>2. CASE OpenCheckpoint
      <3>1. LastCheckpoint.completed = 0
        BY <2>2 DEF OpenCheckpoint, LastCheckpoint, None
      <3>2. worker' = worker /\ log' = Append(log, Entry("checkpoint", from, 0, 0))
        BY <2>2 DEF OpenCheckpoint, Emit
      <3> QED  BY <1>1, <1>c, <1>d, <3>1, <3>2
    <2>3. CASE OpenEpoch
      <3>1. worker' = worker /\ log' = Append(log, Entry("epoch", 0, 0, 0))
        BY <2>3 DEF OpenEpoch, Emit
      <3> QED  BY <1>a, <3>1
    <2>4. CASE OpenEpochCheckpoint
      <3>1. worker' = worker
            /\ log' = Append(log, Entry("checkpoint", LastCheckpoint.completed, 0, epoch))
        BY <2>4 DEF OpenEpochCheckpoint, Emit
      <3> QED  BY <1>1, <1>c, <1>d, <3>1
    <2> QED  BY <1>3, <2>1, <2>2, <2>3, <2>4 DEF start
  <1>4. ASSUME BusTakes \/ StartTakes PROVE worker' = worker /\ log' = log
    BY <1>4 DEF BusTakes, StartTakes, Take
  <1>5. ASSUME WriteOutput PROVE worker' = worker /\ (log' = log \/ Grows)
    <2>1. worker' = worker
      BY <1>5 DEF WriteOutput
    <2>2. CASE Written(job.at, job.next, epoch)
      BY <1>5, <2>1, <2>2 DEF WriteOutput
    <2>3. CASE ~Written(job.at, job.next, epoch)
      <3>1. log' = Append(log, Entry("output", job.at, job.next, epoch))
        BY <1>5, <2>3 DEF WriteOutput, Emit
      <3>2. Answering
        BY <1>5 DEF WriteOutput, Answering
      <3> QED  BY <1>1, <1>a, <2>1, <2>3, <3>1, <3>2
    <2> QED  BY <2>2, <2>3
  <1>6. ASSUME AdvanceCheckpoint PROVE worker' = worker /\ Grows
    <2>1. Told => checkpoint = LastCheckpoint
      BY <1>0, <1>6 DEF AdvanceCheckpoint, CursorInv
    <2>2. /\ worker' = worker /\ job.at >= checkpoint.completed
          /\ log' = Append(log, Entry("checkpoint", job.at, 0, epoch))
      BY <1>6 DEF AdvanceCheckpoint, Emit
    <2> QED  BY <1>1, <1>c, <1>d, <1>e, <2>1, <2>2
  <1>7. ASSUME RotateEpoch PROVE worker' = worker /\ Grows
    <2>1. worker' = worker /\ log' = Append(log, Entry("epoch", 0, 0, 0))
      BY <1>7 DEF RotateEpoch, Emit
    <2> QED  BY <1>a, <2>1
  <1>8. ASSUME RotateCheckpoint PROVE worker' = worker /\ Grows
    <2>1. Told => checkpoint = LastCheckpoint
      BY <1>0, <1>8 DEF RotateCheckpoint, CursorInv
    <2>2. /\ worker' = worker
          /\ log' = Append(log, Entry("checkpoint", checkpoint.completed, 0, epoch))
      BY <1>8 DEF RotateCheckpoint, Emit
    <2> QED  BY <1>1, <1>c, <1>d, <1>e, <2>1, <2>2
  <1>9. ASSUME Fail \/ Crash PROVE worker' = worker /\ log' = log
    BY <1>9 DEF Fail, Raised, Crash
  <1>11. ASSUME FailLate PROVE Grows
    <2>1. PICK e \in Entries :
            /\ RaisesLate(e)
            /\ e.kind = "checkpoint" /\ worker.projects => e.about >= LastCheckpoint.completed
            /\ e.kind = "output" =>
                 /\ Answering /\ ~Written(job.at, job.next, epoch)
                 /\ e.about = job.at /\ e.part = job.next /\ e.epoch = epoch
      BY <1>11, LateFailure
    <2>2. log' = Append(log, e) /\ spent' = [spent EXCEPT !.late = spent.late + 1]
      BY <2>1 DEF RaisesLate
    <2>3. spent.late \in 0..worker.late
          /\ spent \in [crashes : 0..worker.crashes, failures : 0..worker.failures,
                        late : 0..worker.late, rotations : 0..worker.rotations]
      BY <1>0, Zenon DEF TypeOK
    <2>4. Told' => worker.projects
      BY <1>e, <2>2, <2>3 DEF Told
    <2> QED  BY <2>1, <2>2, <2>4 DEF Grows
  <1>12. ASSUME RotateFails PROVE Grows
    BY <1>12, <1>a DEF RotateFails
  <1>10. ASSUME UNCHANGED vars PROVE worker' = worker /\ log' = log
    BY <1>10 DEF vars
  <1> QED  BY <1>e, <1>2, <1>3, <1>4, <1>5, <1>6, <1>7, <1>8, <1>9, <1>10, <1>11, <1>12
           DEF Next, _process_event

LEMMA CheckpointsKeepRebuilding ==
  ASSUME IInv, [Next]_vars
  PROVE  CheckpointsRebuild'
  <1> SUFFICES ASSUME Told' PROVE Ordered'
    BY DEF CheckpointsRebuild
  <1>1. worker' = worker /\ Told
    BY StepsAppend
  <1>2. ShapeInv /\ TypeOK /\ Ordered
    BY <1>1 DEF IInv, CheckpointsRebuild
  <1>3. CASE log' = log
    <2>1. Checkpoints' = Checkpoints
      BY <1>1, <1>2, <1>3, LogKept
    <2> QED  BY <1>2, <1>3, <2>1 DEF Ordered
  <1>4. CASE log' # log
    <2>1. PICK e \in Entries : /\ log' = Append(log, e)
                               /\ e.kind = "checkpoint" => e.about >= LastCheckpoint.completed
      BY <1>4, StepsAppend
    <2> QED  BY <1>1, <1>2, <2>1, EmissionRebuilds
  <1> QED  BY <1>3, <1>4

LEMMA ProjectorKeepsItsEpoch ==
  ASSUME IInv, [Next]_vars
  PROVE  ProjectorInv'
  <1> SUFFICES ASSUME worker'.projects
               PROVE  epoch' = 0 /\ \A j \in Positions' : log'[j].kind = "output" => log'[j].epoch = 0
    BY DEF ProjectorInv, IsOutput
  <1>0. worker' = worker
    BY StepsAppend
  <1>1. /\ ShapeInv /\ worker.projects /\ epoch = 0
        /\ \A j \in Positions : log[j].kind = "output" => log[j].epoch = 0
    BY <1>0 DEF IInv, ProjectorInv, IsOutput
  <1>2. epoch' = 0
    <2>1. CASE start
      BY <1>1, <2>1 DEF start, Subscribe, RestoreFromHistory, Restored, ReplayFromCheckpoint,
                       OpenCheckpoint, OpenEpoch, OpenEpochCheckpoint
    <2>2. CASE BusTakes \/ StartTakes \/ WriteOutput \/ AdvanceCheckpoint
      BY <1>1, <2>2 DEF BusTakes, StartTakes, Take, WriteOutput, AdvanceCheckpoint
    <2>3. CASE \/ ExternalEvent \/ RotateEpoch \/ RotateCheckpoint \/ Fail \/ FailLate
               \/ RotateFails \/ Crash
      BY <1>1, <2>3 DEF ExternalEvent, RotateEpoch, RotateCheckpoint, Fail, FailLate, RotateFails,
                       RaisesLate, Raised, Crash
    <2>4. CASE UNCHANGED vars
      BY <1>1, <2>4 DEF vars
    <2> QED  BY <2>1, <2>2, <2>3, <2>4, Zenon DEF Next, _process_event
  <1>3. CASE log' = log
    BY <1>1, <1>2, <1>3 DEF Positions
  <1>4. CASE log' # log
    <2>1. PICK e \in Entries : /\ log' = Append(log, e)
                               /\ e.kind = "output" => e.epoch = epoch
      BY <1>4, StepsAppend
    <2>2. /\ log'[Len(log) + 1] = e
          /\ \A i \in Positions : log'[i] = log[i]
          /\ Positions' = Positions \cup {Len(log) + 1}
      BY <1>1, <2>1, LogGrows DEF ShapeInv
    <2> QED  BY <1>1, <1>2, <2>1, <2>2
  <1> QED  BY <1>2, <1>3, <1>4

\* What a step leaves of the checkpoint, by the kind of what it appends.
LEMMA CheckpointAfterStep ==
  ASSUME IInv, worker' = worker
  PROVE  /\ log' = log => LastCheckpoint' = LastCheckpoint
         /\ \A e \in Entries : log' = Append(log, e) /\ e.kind # "checkpoint"
              => LastCheckpoint' = LastCheckpoint
         /\ \A e \in Entries : log' = Append(log, e) /\ e.kind = "checkpoint"
              => LastCheckpoint' = [completed |-> e.about, at |-> Len(log) + 1]
         /\ \A e \in Entries : log' = Append(log, e) => Positions \subseteq Positions'
         /\ log' = log => Positions' = Positions
  <1>1. ShapeInv
    BY DEF IInv
  <1>2. log' = log => LastCheckpoint' = LastCheckpoint /\ Positions' = Positions
    BY <1>1, LogKept
  <1>3. \A e \in Entries : log' = Append(log, e) /\ e.kind # "checkpoint"
          => LastCheckpoint' = LastCheckpoint
    BY <1>1, OtherEntry
  <1>4. \A e \in Entries : log' = Append(log, e) /\ e.kind = "checkpoint"
          => LastCheckpoint' = [completed |-> e.about, at |-> Len(log) + 1]
    BY <1>1, NewCheckpoint
  <1>5. \A e \in Entries : log' = Append(log, e) => Positions \subseteq Positions'
    BY <1>1, LogGrows DEF ShapeInv
  <1> QED  BY <1>2, <1>3, <1>4, <1>5

LEMMA CursorIsKept ==
  ASSUME IInv, [Next]_vars
  PROVE  CursorInv'
  <1>0. ShapeInv /\ TypeOK /\ CursorInv
    BY DEF IInv
  <1>1. /\ Trigger \in Entries /\ Trigger.kind = "trigger"
        /\ \A a \in Nat, p \in Nat, e \in Nat, k \in {"trigger", "output", "epoch", "checkpoint"} :
             /\ Entry(k, a, p, e) \in Entries
             /\ Entry(k, a, p, e).kind = k /\ Entry(k, a, p, e).about = a
             /\ Entry(k, a, p, e).part = p /\ Entry(k, a, p, e).epoch = e
    BY WhatIsAppended
  <1>2. /\ Len(log) \in Nat /\ from \in Nat /\ epoch \in Nat
        /\ job.at \in Nat /\ job.next \in Nat
        /\ LastCheckpoint.completed \in Nat /\ checkpoint.completed \in Nat
    BY WhatIsAppended
  <1>3. worker' = worker /\ (Told' => Told)
    BY StepsAppend
  <1>4. Nobody.by = "nobody"
    BY DEF Nobody
  <1>5. job.by \in {"nobody", "bus", "start", "rotate"}
    BY <1>0 DEF TypeOK
  <1>6. ASSUME NEW e \in Entries, log' = Append(log, e), e.kind # "checkpoint",
               UNCHANGED <<pc, job, checkpoint>>
        PROVE  CursorInv'
    BY <1>0, <1>3, <1>6, CheckpointAfterStep DEF CursorInv, Answering, Ready
  <1>7. ASSUME log' = log, UNCHANGED <<pc, job, checkpoint>>
        PROVE  CursorInv'
    BY <1>0, <1>3, <1>7, CheckpointAfterStep DEF CursorInv, Answering, Ready
  <1>8. ASSUME NEW a \in Nat, log' = Append(log, Entry("checkpoint", a, 0, epoch))
        PROVE  LastCheckpoint' = [completed |-> a, at |-> Len(log) + 1]
    <2> DEFINE e == Entry("checkpoint", a, 0, epoch)
    <2>1. e \in Entries /\ e.kind = "checkpoint" /\ e.about = a
      BY <1>2 DEF Entry, Entries
    <2>2. log' = Append(log, e)
      BY <1>8
    <2> HIDE DEF e
    <2> QED  BY <1>3, <2>1, <2>2, CheckpointAfterStep
  <1>9. CASE ExternalEvent
    BY <1>1, <1>6, <1>9 DEF ExternalEvent, Emit
  <1>10. CASE start
    <2>1. CASE Subscribe
      <3>1. job.by = "nobody" /\ pc' = "subscribed" /\ job' = job
        BY <1>0, <2>1 DEF Subscribe, CursorInv, Ready
      <3> QED  BY <1>0, <3>1 DEF CursorInv, Answering, Ready
    <2>2. CASE RestoreFromHistory
      <3>1. job.by = "nobody" /\ job' = job /\ log' = log /\ checkpoint' = LastCheckpoint
        BY <1>0, <2>2 DEF RestoreFromHistory, Restored, CursorInv, Ready
      <3> QED  BY <1>0, <1>3, <3>1, CheckpointAfterStep DEF CursorInv, Answering
    <2>3. CASE ReplayFromCheckpoint
      <3>1. log' = log /\ job' = job /\ checkpoint' = checkpoint /\ Ready
        BY <2>3 DEF ReplayFromCheckpoint, Ready
      <3>2. Ready'
        BY <2>3 DEF ReplayFromCheckpoint, Ready
      <3> QED  BY <1>0, <1>3, <3>1, <3>2, CheckpointAfterStep DEF CursorInv, Answering
    <2>4. CASE OpenCheckpoint \/ OpenEpoch
      <3>1. job.by = "nobody" /\ job' = job /\ pc' \in {"subscribed", "opening"}
        BY <1>0, <2>4 DEF OpenCheckpoint, OpenEpoch, CursorInv, Ready
      <3> QED  BY <1>0, <3>1 DEF CursorInv, Answering, Ready
    <2>5. CASE OpenEpochCheckpoint
      <3>1. /\ job.by = "nobody" /\ job' = job
            /\ log' = Append(log, Entry("checkpoint", LastCheckpoint.completed, 0, epoch))
            /\ checkpoint' = [completed |-> LastCheckpoint.completed, at |-> Len(log) + 1]
        BY <1>0, <2>5 DEF OpenEpochCheckpoint, Emit, CursorInv, Ready
      <3>2. checkpoint' = LastCheckpoint'
        BY <1>2, <1>8, <3>1
      <3> QED  BY <1>0, <3>1, <3>2 DEF CursorInv, Answering
    <2> QED  BY <1>10, <2>1, <2>2, <2>3, <2>4, <2>5 DEF start
  <1>11. ASSUME NEW i \in Positions, NEW by \in {"bus", "start"}, Take(i, by), Ready
         PROVE  CursorInv'
    <2>1. log' = log /\ pc' = pc /\ checkpoint' = checkpoint
      BY <1>11 DEF Take
    <2>2. CASE Dropped(i)
      BY <1>7, <1>11, <2>1, <2>2 DEF Take
    <2>3. CASE ~Dropped(i)
      <3>1. job' = [by |-> by, at |-> i, next |-> FirstPart(i)]
        BY <1>11, <2>3 DEF Take
      <3>2. FirstPart(i) >= 1
        BY <1>0, OutputsPositive DEF FirstPart
      <3>3. job'.by = by /\ job'.at = i /\ job'.next >= 1
        BY <3>1, <3>2
      <3>4. (Told' => checkpoint' = LastCheckpoint') /\ Positions' = Positions
        BY <1>0, <1>3, <1>11, <2>1, CheckpointAfterStep DEF CursorInv
      <3>5. Ready'
        BY <1>11, <2>1 DEF Ready
      <3> QED  BY <3>3, <3>4, <3>5 DEF CursorInv, Answering
    <2> QED  BY <2>2, <2>3
  <1>12. CASE BusTakes
    <2>1. queue \in Seq(Nat) /\ queue # <<>> /\ Ready /\ Take(Head(queue), "bus")
      BY <1>0, <1>12 DEF BusTakes, ShapeInv, Ready
    <2>2. Head(queue) \in Positions
      BY <1>0, <2>1, TailOfSequence DEF TypeOK
    <2> QED  BY <1>11, <2>1, <2>2
  <1>13. CASE StartTakes
    <2>1. catchup \in Seq(Nat) /\ catchup # <<>> /\ Ready /\ Take(Head(catchup), "start")
      BY <1>0, <1>13 DEF StartTakes, ShapeInv, Ready
    <2>2. Head(catchup) \in Positions
      BY <1>0, <2>1, TailOfSequence DEF TypeOK
    <2> QED  BY <1>11, <2>1, <2>2
  <1>14. CASE WriteOutput
    <2>1. /\ Answering /\ pc' = pc /\ checkpoint' = checkpoint
          /\ job' = [job EXCEPT !.next = job.next + 1]
      BY <1>14 DEF WriteOutput, Answering
    <2>2. job'.by = job.by /\ job'.at = job.at /\ job'.next = job.next + 1
      BY <1>0, <2>1 DEF ShapeInv
    <2>3. LastCheckpoint' = LastCheckpoint /\ Positions \subseteq Positions'
      <3>1. CASE log' = log
        BY <1>3, <3>1, CheckpointAfterStep
      <3>2. CASE log' # log
        <4>1. log' = Append(log, Entry("output", job.at, job.next, epoch))
          BY <1>14, <3>2 DEF WriteOutput, Emit
        <4>2. /\ Entry("output", job.at, job.next, epoch) \in Entries
              /\ Entry("output", job.at, job.next, epoch).kind = "output"
          BY <1>2 DEF Entry, Entries
        <4> QED  BY <1>3, <4>1, <4>2, CheckpointAfterStep
      <3> QED  BY <3>1, <3>2
    <2> QED  BY <1>0, <1>2, <1>3, <2>1, <2>2, <2>3 DEF CursorInv, Answering, Ready
  <1>15. CASE AdvanceCheckpoint
    <2>1. /\ job' = Nobody /\ checkpoint' = [completed |-> job.at, at |-> Len(log) + 1]
          /\ log' = Append(log, Entry("checkpoint", job.at, 0, epoch))
      BY <1>15 DEF AdvanceCheckpoint, Emit
    <2>2. checkpoint' = LastCheckpoint'
      BY <1>2, <1>8, <2>1
    <2> QED  BY <1>4, <2>1, <2>2 DEF CursorInv, Answering
  <1>16. CASE RotateEpoch
    <2>1. /\ job' = [by |-> "rotate", at |-> 0, next |-> 0] /\ Ready
          /\ pc' = pc /\ checkpoint' = checkpoint
          /\ log' = Append(log, Entry("epoch", 0, 0, 0))
      BY <1>16 DEF RotateEpoch, Emit, Ready
    <2>2. LastCheckpoint' = LastCheckpoint
      BY <1>1, <1>2, <1>3, <2>1, CheckpointAfterStep
    <2> QED  BY <1>0, <1>3, <2>1, <2>2 DEF CursorInv, Answering, Ready
  <1>17. CASE RotateCheckpoint
    <2>1. /\ job' = Nobody /\ checkpoint' = [checkpoint EXCEPT !.at = Len(log) + 1]
          /\ log' = Append(log, Entry("checkpoint", checkpoint.completed, 0, epoch))
      BY <1>17 DEF RotateCheckpoint, Emit
    <2>2. checkpoint' = [completed |-> checkpoint.completed, at |-> Len(log) + 1]
      BY <1>0, <2>1 DEF ShapeInv
    <2>3. checkpoint' = LastCheckpoint'
      BY <1>2, <1>8, <2>1, <2>2
    <2> QED  BY <1>4, <2>1, <2>3 DEF CursorInv, Answering
  <1>18. CASE Fail \/ FailLate
    <2>1. job' = Nobody /\ (job.by # "nobody")
      BY <1>18 DEF Fail, FailLate, RaisesLate, Raised
    <2>2. worker.projects => checkpoint' = LastCheckpoint'
      BY <1>18 DEF Fail, FailLate, RaisesLate, Raised
    <2>3. ~worker.projects /\ Told' /\ Ready' => checkpoint' = LastCheckpoint'
      <3>1. CASE Fail
        <4>1. log' = log /\ (Ready' => Ready) /\ (~worker.projects => checkpoint' = checkpoint)
          BY <3>1 DEF Fail, Raised, Ready
        <4> QED  BY <1>0, <1>3, <4>1, CheckpointAfterStep DEF CursorInv
      <3>2. CASE FailLate
        <4>1. /\ spent' = [spent EXCEPT !.late = spent.late + 1] /\ spent.late \in 0..worker.late
              /\ spent \in [crashes : 0..worker.crashes, failures : 0..worker.failures,
                            late : 0..worker.late, rotations : 0..worker.rotations]
          <5>1. spent' = [spent EXCEPT !.late = spent.late + 1]
            BY <3>2 DEF FailLate, RaisesLate
          <5> QED  BY <1>0, <5>1, Zenon DEF TypeOK
        <4> QED  BY <1>3, <4>1 DEF Told
      <3> QED  BY <1>18, <3>1, <3>2
    <2> QED  BY <1>4, <2>1, <2>2, <2>3 DEF CursorInv, Answering
  <1>21. CASE RotateFails
    <2>1. /\ log' = Append(log, Entry("epoch", 0, 0, 0)) /\ UNCHANGED <<pc, job, checkpoint>>
      BY <1>21 DEF RotateFails
    <2> QED  BY <1>1, <1>6, <2>1
  <1>19. CASE Crash
    <2>1. job' = Nobody /\ pc' = "down"
      BY <1>19 DEF Crash
    <2> QED  BY <1>4, <2>1 DEF CursorInv, Answering, Ready
  <1>20. CASE UNCHANGED vars
    BY <1>7, <1>20 DEF vars
  <1> QED  BY <1>9, <1>10, <1>12, <1>13, <1>14, <1>15, <1>16, <1>17, <1>18, <1>19, <1>20, <1>21, Zenon
           DEF Next, _process_event

\* The first invariant, for every worker and whatever fails.
LEMMA IInvInductive ==
  /\ Init => IInv
  /\ IInv /\ [Next]_vars => IInv'
  <1>1. ASSUME Init PROVE IInv
    <2>1. log = <<>> /\ queue = <<>> /\ catchup = <<>> /\ Positions = {}
      BY <1>1 DEF Init, Positions
    <2>2. TypeOK
      <3>1. worker.outputs \in Nat
        BY <1>1, WorkerAssumption DEF Init
      <3>2. spent \in [crashes : 0..worker.crashes, failures : 0..worker.failures,
                       late : 0..worker.late, rotations : 0..worker.rotations]
        <4>1. /\ worker.crashes \in Nat /\ worker.failures \in Nat
              /\ worker.late \in Nat /\ worker.rotations \in Nat
          BY <1>1, WorkerAssumption DEF Init
        <4> QED  BY <1>1, <4>1 DEF Init
      <3>3. pc = "down" /\ from = 0 /\ seen = {} /\ known = {} /\ epoch = 0 /\ worker \in Workers
            /\ Len(log) = 0
        BY <1>1 DEF Init
      <3>4. /\ checkpoint.completed = 0 /\ checkpoint.at = 0
            /\ job.by = "nobody" /\ job.at = 0 /\ job.next = 0
        BY <1>1 DEF Init, None, Nobody
      <3> QED  BY <2>1, <3>1, <3>2, <3>3, <3>4 DEF TypeOK
    <2>3. ShapeInv
      BY <1>1, <2>1 DEF Init, ShapeInv, Checkpoints, None, Nobody
    <2>4. CursorInv
      BY <1>1 DEF Init, CursorInv, Answering, Ready, Nobody
    <2>5. CheckpointsRebuild /\ ProjectorInv
      BY <1>1, <2>1 DEF Init, CheckpointsRebuild, Ordered, Checkpoints, ProjectorInv
    <2> QED  BY <2>2, <2>3, <2>4, <2>5 DEF IInv
  <1>2. ASSUME IInv, [Next]_vars PROVE IInv'
    <2>1. TypeOK' /\ ShapeInv'
      BY <1>2, EmittingIsTyped, TakingIsTyped, WritingIsTyped, QuietStepsAreTyped,
         LateFailuresAreTyped, Zenon
         DEF Next, start, _process_event
    <2>2. CursorInv'
      BY <1>2, CursorIsKept
    <2>3. CheckpointsRebuild'
      BY <1>2, CheckpointsKeepRebuilding
    <2>4. ProjectorInv'
      BY <1>2, ProjectorKeepsItsEpoch
    <2> QED  BY <2>1, <2>2, <2>3, <2>4 DEF IInv
  <1> QED  BY <1>1, <1>2

\* A projector never loses its way in its own checkpoints, whatever crashes, raises and
\* is replayed, nor does a shadow worker while no emission of it raises after its append:
\* the cursors of the log never go back, and every start() can read them (ADR 0004,
\* decision 5; checkpoints.py).  It is the reading of the log after every failure
\* (memory_worker.py, _recover_projection) that makes the difference.
THEOREM CheckpointsAlwaysRebuild == Spec => [](TypeOK /\ CheckpointsRebuild)
  <1>1. IInv => TypeOK /\ CheckpointsRebuild
    BY DEF IInv
  <1> QED  BY <1>1, IInvInductive, PTL DEF Spec

-----------------------------------------------------------------------------
\* No trigger is answered twice.

\* Whoever works on a trigger finds its outputs under the epoch he looks for.
SameEpoch ==
  Answering =>
    \A j \in Positions : IsOutput(j) /\ log[j].about = job.at => log[j].epoch = epoch

LEMMA OutputsStayOnce ==
  ASSUME IInv, OutputsOnce, SameEpoch, [Next]_vars
  PROVE  OutputsOnce'
  <1>0. ShapeInv
    BY DEF IInv
  <1>1. CASE log' = log
    BY <1>1 DEF OutputsOnce, Positions
  <1>2. CASE log' # log
    <2>1. PICK e \in Entries :
            /\ log' = Append(log, e)
            /\ e.kind = "output" =>
                 /\ Answering /\ ~Written(job.at, job.next, epoch)
                 /\ e.about = job.at /\ e.part = job.next /\ e.epoch = epoch
      BY <1>2, StepsAppend
    <2>2. /\ log'[Len(log) + 1] = e
          /\ \A i \in Positions : log'[i] = log[i] /\ log[i] \in Entries
          /\ Positions' = Positions \cup {Len(log) + 1}
      BY <1>0, <2>1, LogGrows DEF ShapeInv
    <2>3. CASE e.kind # "output"
      BY <2>2, <2>3 DEF OutputsOnce
    <2>4. CASE e.kind = "output"
      <3>1. Answering /\ ~Written(job.at, job.next, epoch)
        BY <2>1, <2>4
      <3>3. e.about = job.at /\ e.part = job.next
        BY <2>1, <2>4
      <3>4. \A j \in Positions :
               ~(log[j].kind = "output" /\ log[j].about = e.about /\ log[j].part = e.part)
        <4> SUFFICES ASSUME NEW j \in Positions, log[j].kind = "output",
                            log[j].about = e.about, log[j].part = e.part
                     PROVE  FALSE
          OBVIOUS
        <4>1. log[j].epoch = epoch
          BY <3>1, <3>3 DEF SameEpoch, IsOutput
        <4>2. log[j] = Entry("output", job.at, job.next, epoch)
          BY <2>2, <3>3, <4>1 DEF Entries, Entry
        <4> QED  BY <3>1, <4>2 DEF Written
      <3> QED  BY <2>2, <3>4 DEF OutputsOnce
    <2> QED  BY <2>3, <2>4
  <1> QED  BY <1>1, <1>2

-----------------------------------------------------------------------------
\* Queues of positions.

LEMMA InAppend ==
  ASSUME NEW s \in Seq(Nat), NEW n \in Nat
  PROVE  /\ \A x : In(Append(s, n), x) <=> In(s, x) \/ x = n
         /\ Increasing(s) /\ (\A m \in DOMAIN s : s[m] < n) => Increasing(Append(s, n))
  <1>1. /\ Len(s) \in Nat /\ DOMAIN s = 1..Len(s) /\ DOMAIN Append(s, n) = 1..(Len(s) + 1)
        /\ \A m \in DOMAIN s : Append(s, n)[m] = s[m]
        /\ Append(s, n)[Len(s) + 1] = n
    OBVIOUS
  <1>2. DOMAIN Append(s, n) = DOMAIN s \cup {Len(s) + 1}
    BY <1>1
  <1>3. ASSUME NEW x PROVE In(Append(s, n), x) <=> In(s, x) \/ x = n
    BY <1>1, <1>2 DEF In
  <1>4. ASSUME Increasing(s), \A m \in DOMAIN s : s[m] < n PROVE Increasing(Append(s, n))
    BY <1>1, <1>2, <1>4 DEF Increasing
  <1> QED  BY <1>3, <1>4

LEMMA InTail ==
  ASSUME NEW s \in Seq(Nat), s # <<>>
  PROVE  /\ \A x : In(s, x) <=> x = Head(s) \/ In(Tail(s), x)
         /\ Increasing(s) => Increasing(Tail(s)) /\ \A x : In(Tail(s), x) => Head(s) < x
  <1>1. /\ Len(s) \in Nat \ {0} /\ Head(s) = s[1] /\ DOMAIN s = 1..Len(s)
        /\ DOMAIN Tail(s) = 1..(Len(s) - 1)
        /\ \A n \in DOMAIN Tail(s) : n + 1 \in DOMAIN s /\ Tail(s)[n] = s[n + 1]
    BY TailOfSequence
  <1>2. \A n \in DOMAIN s : n = 1 \/ (n - 1 \in DOMAIN Tail(s) /\ Tail(s)[n - 1] = s[n])
    BY <1>1
  <1>3. ASSUME NEW x PROVE In(s, x) <=> x = Head(s) \/ In(Tail(s), x)
    <2>1. ASSUME In(s, x) PROVE x = Head(s) \/ In(Tail(s), x)
      BY <1>1, <1>2, <2>1 DEF In
    <2>2. In(s, Head(s))
      <3>1. 1 \in DOMAIN s
        BY <1>1
      <3> QED  BY <1>1, <3>1 DEF In
    <2>3. ASSUME In(Tail(s), x) PROVE In(s, x)
      BY <1>1, <2>3 DEF In
    <2> QED  BY <2>1, <2>2, <2>3
  <1>4. ASSUME Increasing(s)
        PROVE  Increasing(Tail(s)) /\ \A x : In(Tail(s), x) => Head(s) < x
    BY <1>1, <1>4 DEF Increasing, In
  <1> QED  BY <1>3, <1>4

LEMMA InEmpty ==
  /\ \A x : ~In(<<>>, x)
  /\ Increasing(<<>>)
  BY DEF In, Increasing

LEMMA InInterval ==
  ASSUME NEW a \in Nat, NEW b \in Nat, a <= b
  PROVE  /\ \A x \in Nat : In([i \in 1..(b - a) |-> a + i], x) <=> a < x /\ x <= b
         /\ Increasing([i \in 1..(b - a) |-> a + i])
  <1> DEFINE f == [i \in 1..(b - a) |-> a + i]
  <1>1. b - a \in Nat /\ DOMAIN f = 1..(b - a) /\ \A i \in DOMAIN f : f[i] = a + i
    OBVIOUS
  <1> HIDE DEF f
  <1>2. ASSUME NEW x \in Nat PROVE In(f, x) <=> a < x /\ x <= b
    <2>1. ASSUME a < x, x <= b PROVE In(f, x)
      <3>1. x - a \in DOMAIN f /\ f[x - a] = x
        BY <1>1, <2>1
      <3> QED  BY <3>1 DEF In
    <2>2. ASSUME In(f, x) PROVE a < x /\ x <= b
      BY <1>1, <2>2 DEF In
    <2> QED  BY <2>1, <2>2
  <1>3. Increasing(f)
    BY <1>1 DEF Increasing
  <1> QED  BY <1>2, <1>3 DEF f

-----------------------------------------------------------------------------
\* What an emission does to the backlog and to the answers.

LEMMA EmissionKeepsOrder ==
  ASSUME ShapeInv, TypeOK, worker' = worker, NEW e \in Entries, Emit(e)
  PROVE  /\ Len(log) \in Nat /\ Len(log) + 1 \in Nat /\ log' = Append(log, e)
         /\ log'[Len(log) + 1] = e
         /\ \A i \in Positions : i \in Nat /\ i > 0 /\ i < Len(log) + 1 /\ log'[i] = log[i]
         /\ Positions' = Positions \cup {Len(log) + 1}
         /\ Triggers' = IF e.kind = "trigger" THEN Triggers \cup {Len(log) + 1} ELSE Triggers
         /\ Triggers \subseteq Positions
         /\ \A x : In(queue', x) => In(queue, x) \/ x = Len(log) + 1
         /\ \A x : In(queue, x) => In(queue', x)
         /\ pc # "down" => In(queue', Len(log) + 1)
         /\ Increasing(queue) => Increasing(queue')
  <1>1. /\ Len(log) \in Nat /\ Len(log) + 1 \in Nat /\ log' = Append(log, e)
        /\ log'[Len(log) + 1] = e
        /\ \A i \in Positions : log'[i] = log[i]
        /\ Positions' = Positions \cup {Len(log) + 1}
    <2>1. log' = Append(log, e) /\ log \in Seq(Entries)
      BY DEF Emit, ShapeInv
    <2>2. /\ Len(log) \in Nat /\ log'[Len(log) + 1] = e
          /\ \A i \in Positions : log'[i] = log[i]
          /\ Positions' = Positions \cup {Len(log) + 1}
      BY <2>1, LogGrows
    <2>3. Len(log) + 1 \in Nat
      BY <2>2
    <2> QED  BY <2>1, <2>2, <2>3, Zenon
  <1>2. \A i \in Positions : i \in Nat /\ i > 0 /\ i < Len(log) + 1
    BY <1>1 DEF Positions
  <1>3. Triggers' = IF e.kind = "trigger" THEN Triggers \cup {Len(log) + 1} ELSE Triggers
    BY <1>1, KindsGrow DEF ShapeInv
  <1>4. /\ \A x : In(queue', x) => In(queue, x) \/ x = Len(log) + 1
        /\ \A x : In(queue, x) => In(queue', x)
        /\ pc # "down" => In(queue', Len(log) + 1)
        /\ Increasing(queue) => Increasing(queue')
    <2>1. CASE pc = "down"
      BY <2>1 DEF Emit
    <2>2. CASE pc # "down"
      <3>1. queue' = Append(queue, Len(log) + 1) /\ queue \in Seq(Nat)
        BY <2>2 DEF Emit, ShapeInv
      <3>2. \A m \in DOMAIN queue : queue[m] < Len(log) + 1
        BY <1>2 DEF TypeOK
      <3> QED  BY <1>1, <3>1, <3>2, InAppend
    <2> QED  BY <2>1, <2>2
  <1> QED  BY <1>1, <1>2, <1>3, <1>4 DEF Triggers

\* Answers are not taken back.
LEMMA AnswersStay ==
  ASSUME IInv, [Next]_vars, NEW i, Complete(i)
  PROVE  Complete(i)'
  <1>0. ShapeInv /\ worker' = worker
    BY StepsAppend DEF IInv
  <1>1. CASE log' = log
    BY <1>0, <1>1 DEF Complete, Positions
  <1>2. CASE log' # log
    <2>1. PICK e \in Entries : log' = Append(log, e)
      BY <1>2, StepsAppend
    <2>2. Positions \subseteq Positions' /\ \A j \in Positions : log'[j] = log[j]
      BY <1>0, <2>1, LogGrows DEF ShapeInv
    <2> QED  BY <1>0, <2>2 DEF Complete
  <1> QED  BY <1>1, <1>2

LEMMA BaseIsTyped ==
  ASSUME IInv
  PROVE  Base \in Nat
  <1>1. CASE worker.projects \/ Checkpoints = {}
    BY <1>1 DEF Base
  <1>2. CASE ~(worker.projects \/ Checkpoints = {})
    <2> DEFINE i == CHOOSE i \in Checkpoints : \A j \in Checkpoints : i <= j
    <2>1. i \in Positions
      BY <1>2 DEF IInv, ShapeInv, Checkpoints
    <2>2. log[i].about \in Nat
      <3> HIDE DEF i
      <3>1. log[i] \in Entries
        BY <2>1 DEF IInv, ShapeInv, Positions
      <3> QED  BY <3>1 DEF Entries
    <2> QED  BY <1>2, <2>2 DEF Base
  <1> QED  BY <1>1, <1>2

\* A checkpoint that does not move keeps its worth.
LEMMA CompleteIsKept ==
  ASSUME IInv, [Next]_vars, CheckpointMeansComplete,
         LastCheckpoint'.completed = LastCheckpoint.completed, Base' \in Nat, Base' >= Base
  PROVE  CheckpointMeansComplete'
  <1>0. ShapeInv /\ TypeOK /\ worker' = worker
    BY StepsAppend DEF IInv
  <1>1. LastCheckpoint.completed \in 0..Len(log) /\ Len(log) \in Nat
    BY <1>0, LastIsTyped DEF ShapeInv
  <1>2. \A i \in Triggers' : i \in Triggers \/ i = Len(log) + 1
    <2>1. CASE log' = log
      BY <2>1 DEF Triggers, Positions
    <2>2. CASE log' # log
      <3>1. PICK e \in Entries : log' = Append(log, e)
        BY <2>2, StepsAppend
      <3> QED  BY <1>0, <3>1, KindsGrow DEF ShapeInv
    <2> QED  BY <2>1, <2>2
  <1> SUFFICES ASSUME ~worker.projects, NEW i \in Triggers', Base' < i,
                      i <= LastCheckpoint.completed
               PROVE  Complete(i)'
    BY <1>0 DEF CheckpointMeansComplete
  <1>3. i \in Triggers
    BY <1>1, <1>2
  <1>4. Base \in Nat /\ i \in Nat
    BY <1>3, BaseIsTyped DEF Triggers, Positions
  <1>5. Base < i
    BY <1>4
  <1> QED  BY <1>3, <1>5, AnswersStay DEF CheckpointMeansComplete

-----------------------------------------------------------------------------
\* A shadow worker that is left alone while it starts and whose emissions do not raise.

Calm ==
  ~worker.projects /\ worker.failures = 0 /\ worker.late = 0 /\ ~worker.liveDuringStart

LEMMA CalmIsTold ==
  ASSUME IInv, Calm
  PROVE  Told
  <1>1. spent.late \in 0..0
    BY DEF IInv, TypeOK, Calm
  <1> QED  BY <1>1 DEF Told

\* Somebody else's event: a trigger beyond everything, in the queue if the worker runs.
LEMMA TriggersArriveInOrder ==
  ASSUME IInv, Calm, ShadowInv, ExternalEvent
  PROVE  ShadowInv'
  <1> DEFINE n == Len(log) + 1
  <1>0. ShapeInv /\ TypeOK /\ CursorInv /\ Told
    BY CalmIsTold DEF IInv
  <1>1. /\ Trigger \in Entries /\ Trigger.kind = "trigger" /\ Emit(Trigger) /\ ~Starting
        /\ UNCHANGED <<worker, pc, from, catchup, seen, known, checkpoint, epoch, job, spent>>
    BY WhatIsAppended DEF ExternalEvent, Calm
  <1>2. /\ n \in Nat /\ log' = Append(log, Trigger) /\ log'[n] = Trigger
        /\ \A i \in Positions : i \in Nat /\ i > 0 /\ i < n /\ log'[i] = log[i]
        /\ Positions' = Positions \cup {n}
        /\ Triggers' = Triggers \cup {n} /\ Triggers \subseteq Positions
        /\ \A x : In(queue', x) => In(queue, x) \/ x = n
        /\ \A x : In(queue, x) => In(queue', x)
        /\ pc # "down" => In(queue', n)
        /\ Increasing(queue) => Increasing(queue')
    BY <1>0, <1>1, EmissionKeepsOrder
  <1>3. LastCheckpoint' = LastCheckpoint /\ DurableEpoch' = DurableEpoch /\ Base' = Base
    BY <1>0, <1>1, <1>2, OtherEntry
  <1>4. /\ LastCheckpoint.completed \in Nat /\ LastCheckpoint.completed < n
        /\ job.at \in Nat /\ job.at < n
    BY <1>0, <1>2, LastIsTyped DEF TypeOK, ShapeInv
  <1>5. ~Starting'
    BY <1>1 DEF Starting
  <1>6. EpochInv'
    <2>1. \A j \in Positions' : log'[j].kind = "output" => j \in Positions /\ IsOutput(j)
      BY <1>1, <1>2 DEF IsOutput
    <2> QED  BY <1>1, <1>2, <1>3, <2>1 DEF ShadowInv, EpochInv, IsOutput, Ready
  <1>7. StartInv'
    BY <1>1, <1>3 DEF ShadowInv, StartInv, Answering
  <1>8. QueueInv'
    <2>1. \A i \in Triggers' : In(catchup', i) \/ In(queue', i) => job'.at < i
      BY <1>1, <1>2, <1>4 DEF ShadowInv, QueueInv
    <2> QED  BY <1>1, <1>2, <1>5, <2>1 DEF ShadowInv, QueueInv
  <1>9. BacklogInv'
    <2>1. \A j \in Positions' : log'[j].kind = "output" => j \in Positions /\ IsOutput(j)
      BY <1>1, <1>2 DEF IsOutput
    <2>2. seen' \cap Triggers' = seen \cap Triggers
      BY <1>0, <1>1, <1>2 DEF TypeOK
    <2> QED  BY <1>1, <1>2, <1>3, <2>1, <2>2 DEF ShadowInv, BacklogInv, IsOutput
  <1>10. AnswerInv'
    BY <1>1, <1>2, <1>3 DEF ShadowInv, AnswerInv, Answering, IsOutput
  <1>11. CheckpointMeansComplete'
    <2>1. Next
      BY DEF Next
    <2>2. Base \in Nat
      BY BaseIsTyped
    <2> QED  BY <1>3, <2>1, <2>2, CompleteIsKept DEF ShadowInv
  <1> QED  BY <1>6, <1>7, <1>8, <1>9, <1>10, <1>11 DEF ShadowInv

\* The steps of start() that write nothing.
LEMMA SubscribingKeepsTheShadow ==
  ASSUME IInv, Calm, ShadowInv, Subscribe
  PROVE  ShadowInv'
  <1>0. ShapeInv /\ TypeOK /\ CursorInv /\ Told
    BY CalmIsTold DEF IInv
  <1>1. /\ pc = "down" /\ pc' = "subscribed" /\ queue' = <<>> /\ catchup' = <<>>
        /\ UNCHANGED <<worker, log, seen, known, checkpoint, epoch, job, spent>>
    BY DEF Subscribe
  <1>2. /\ Positions' = Positions /\ Triggers' = Triggers
        /\ LastCheckpoint' = LastCheckpoint /\ DurableEpoch' = DurableEpoch /\ Base' = Base
    BY <1>0, <1>1, LogKept
  <1>3. job = Nobody /\ job.by = "nobody"
    BY <1>0, <1>1 DEF CursorInv, Ready, Nobody
  <1>4. EpochInv'
    BY <1>1, <1>2, <1>3 DEF ShadowInv, EpochInv, IsOutput, Ready
  <1>5. StartInv'
    BY <1>1, <1>2, <1>3 DEF ShadowInv, StartInv, Answering
  <1>6. QueueInv'
    BY <1>1, <1>2, InEmpty DEF QueueInv
  <1>7. BacklogInv'
    BY <1>1, <1>2 DEF ShadowInv, BacklogInv
  <1>8. AnswerInv'
    BY <1>1, <1>3 DEF AnswerInv, Answering
  <1>9. CheckpointMeansComplete'
    <2>1. Next
      BY DEF Next, start
    <2>2. Base \in Nat
      BY BaseIsTyped
    <2> QED  BY <1>2, <2>1, <2>2, CompleteIsKept DEF ShadowInv
  <1> QED  BY <1>4, <1>5, <1>6, <1>7, <1>8, <1>9 DEF ShadowInv

LEMMA RestoringKeepsTheShadow ==
  ASSUME IInv, Calm, ShadowInv, RestoreFromHistory
  PROVE  ShadowInv'
  <1>0. ShapeInv /\ TypeOK /\ CursorInv /\ Told
    BY CalmIsTold DEF IInv
  <1>1. /\ pc = "subscribed" /\ pc' = "restored"
        /\ Checkpoints # {} /\ log[LastCheckpoint.at].epoch # 0
        /\ epoch' = log[LastCheckpoint.at].epoch
        /\ from' = LastCheckpoint.completed /\ known' = {}
        /\ UNCHANGED <<worker, log, queue, catchup, seen, job, spent>>
    BY DEF RestoreFromHistory, Restored, Calm
  <1>2. /\ Positions' = Positions /\ Triggers' = Triggers
        /\ LastCheckpoint' = LastCheckpoint /\ DurableEpoch' = DurableEpoch /\ Base' = Base
    BY <1>0, <1>1, LogKept
  <1>3. job = Nobody /\ job.by = "nobody"
    BY <1>0, <1>1 DEF CursorInv, Ready, Nobody
  <1>4. epoch' # 0 /\ DurableEpoch = epoch'
    BY <1>1 DEF DurableEpoch
  <1>5. EpochInv'
    BY <1>1, <1>2, <1>3, <1>4 DEF ShadowInv, EpochInv, IsOutput, Ready
  <1>6. StartInv'
    BY <1>1, <1>2, <1>3 DEF ShadowInv, StartInv, Answering
  <1>7. QueueInv'
    <2>1. Starting
      BY <1>1 DEF Starting
    <2> QED  BY <1>1, <1>2, <2>1 DEF ShadowInv, QueueInv
  <1>8. BacklogInv'
    BY <1>1, <1>2 DEF ShadowInv, BacklogInv
  <1>9. AnswerInv'
    BY <1>1, <1>3 DEF AnswerInv, Answering
  <1>10. CheckpointMeansComplete'
    <2>1. Next
      BY DEF Next, start
    <2>2. Base \in Nat
      BY BaseIsTyped
    <2> QED  BY <1>2, <2>1, <2>2, CompleteIsKept DEF ShadowInv
  <1> QED  BY <1>5, <1>6, <1>7, <1>8, <1>9, <1>10 DEF ShadowInv

\* The replay holds every trigger past the checkpoint, the queue none.
LEMMA ReplayingKeepsTheShadow ==
  ASSUME IInv, Calm, ShadowInv, ReplayFromCheckpoint
  PROVE  ShadowInv'
  <1>0. ShapeInv /\ TypeOK /\ CursorInv /\ Told
    BY CalmIsTold DEF IInv
  <1>1. /\ pc = "restored" /\ pc' = "running"
        /\ catchup' = [i \in 1..(Len(log) - from) |-> from + i]
        /\ UNCHANGED <<worker, log, from, queue, seen, known, checkpoint, epoch, job, spent>>
    BY DEF ReplayFromCheckpoint
  <1>2. /\ Positions' = Positions /\ Triggers' = Triggers
        /\ LastCheckpoint' = LastCheckpoint /\ DurableEpoch' = DurableEpoch /\ Base' = Base
    BY <1>0, <1>1, LogKept
  <1>3. from = LastCheckpoint.completed /\ ~Answering /\ job.at = 0 /\ Starting
    BY <1>1 DEF ShadowInv, StartInv, Starting
  <1>4. from \in Nat /\ Len(log) \in Nat /\ from <= Len(log)
    BY <1>0 DEF ShapeInv, TypeOK
  <1>5. (\A x \in Nat : In(catchup', x) <=> from < x /\ x <= Len(log)) /\ Increasing(catchup')
    BY <1>1, <1>4, InInterval
  <1>6. \A i \in Triggers : i \in Nat /\ 0 < i /\ i <= Len(log)
    BY <1>4 DEF Triggers, Positions
  <1>7. EpochInv'
    BY <1>1, <1>2 DEF ShadowInv, EpochInv, IsOutput, Ready
  <1>8. StartInv'
    BY <1>1, <1>2, <1>3 DEF ShadowInv, StartInv, Answering
  <1>9. QueueInv'
    BY <1>1, <1>2, <1>3, <1>5, <1>6 DEF ShadowInv, QueueInv
  <1>10. BacklogInv'
    <2>1. \A i \in Triggers : i <= LastCheckpoint.completed \/ In(catchup', i)
      BY <1>3, <1>4, <1>5, <1>6
    <2>2. \A j \in Positions : IsOutput(j) => log[j].about \in Triggers
      BY DEF ShadowInv, EpochInv
    <2> QED  BY <1>1, <1>2, <2>1, <2>2 DEF ShadowInv, BacklogInv, IsOutput
  <1>11. AnswerInv'
    BY <1>1, <1>3 DEF AnswerInv, Answering
  <1>12. CheckpointMeansComplete'
    <2>1. Next
      BY DEF Next, start
    <2>2. Base \in Nat
      BY BaseIsTyped
    <2> QED  BY <1>2, <2>1, <2>2, CompleteIsKept DEF ShadowInv
  <1> QED  BY <1>7, <1>8, <1>9, <1>10, <1>11, <1>12 DEF ShadowInv

\* A first start: before the first checkpoint nothing has been answered.
LEMMA OpeningKeepsTheShadow ==
  ASSUME IInv, Calm, ShadowInv, OpenCheckpoint
  PROVE  ShadowInv'
  <1> DEFINE n == Len(log) + 1
             e == Entry("checkpoint", from, 0, 0)
  <1>0. ShapeInv /\ TypeOK /\ CursorInv /\ Told
    BY CalmIsTold DEF IInv
  <1>1. /\ pc = "subscribed" /\ Checkpoints = {} /\ Emit(e)
        /\ UNCHANGED <<worker, pc, from, catchup, seen, known, checkpoint, epoch, job, spent>>
    BY DEF OpenCheckpoint
  <1>2. e \in Entries /\ e.kind = "checkpoint" /\ e.about = from /\ e.epoch = 0 /\ from \in Nat
    BY WhatIsAppended DEF Entry, Entries
  <1> HIDE DEF e
  <1>3. /\ n \in Nat /\ log' = Append(log, e) /\ log'[n] = e
        /\ \A i \in Positions : i \in Nat /\ i > 0 /\ i < n /\ log'[i] = log[i]
        /\ Positions' = Positions \cup {n}
        /\ Triggers' = Triggers /\ Triggers \subseteq Positions
        /\ \A x : In(queue', x) => In(queue, x) \/ x = n
        /\ Increasing(queue) => Increasing(queue')
    BY <1>0, <1>1, <1>2, EmissionKeepsOrder
  <1>4. /\ LastCheckpoint' = [completed |-> from, at |-> n] /\ DurableEpoch' = 0
        /\ Base' = from
    BY <1>0, <1>1, <1>2, <1>3, NewCheckpoint DEF Calm
  <1>5. job = Nobody /\ job.by = "nobody"
    BY <1>0, <1>1 DEF CursorInv, Ready, Nobody
  <1>6. \A j \in Positions' : log'[j].kind # "output"
    <2>1. \A j \in Positions : ~IsOutput(j)
      BY <1>1 DEF ShadowInv, EpochInv, DurableEpoch
    <2> QED  BY <1>2, <1>3, <2>1 DEF IsOutput
  <1>7. EpochInv'
    BY <1>1, <1>5, <1>6 DEF EpochInv, IsOutput, Ready
  <1>8. StartInv'
    BY <1>1, <1>5 DEF ShadowInv, StartInv, Answering
  <1>9. QueueInv'
    <2>1. Starting
      BY <1>1 DEF Starting
    <2>2. \A i \in Triggers' : ~In(queue', i)
      BY <1>3, <2>1 DEF ShadowInv, QueueInv
    <2> QED  BY <1>1, <1>3, <2>2 DEF ShadowInv, QueueInv
  <1>10. BacklogInv'
    BY <1>1 DEF ShadowInv, StartInv, BacklogInv
  <1>11. AnswerInv'
    BY <1>1, <1>5 DEF AnswerInv, Answering
  <1>12. CheckpointMeansComplete'
    <2>1. \A i \in Triggers' : ~(Base' < i /\ i <= LastCheckpoint'.completed)
      BY <1>2, <1>3, <1>4
    <2> QED  BY <2>1 DEF CheckpointMeansComplete
  <1> QED  BY <1>7, <1>8, <1>9, <1>10, <1>11, <1>12 DEF ShadowInv

\* A first start, and a start after a crash in the first one: a new epoch.
LEMMA OpeningAnEpochKeepsTheShadow ==
  ASSUME IInv, Calm, ShadowInv, OpenEpoch
  PROVE  ShadowInv'
  <1> DEFINE n == Len(log) + 1
             e == Entry("epoch", 0, 0, 0)
  <1>0. ShapeInv /\ TypeOK /\ CursorInv /\ Told
    BY CalmIsTold DEF IInv
  <1>1. /\ pc = "subscribed" /\ pc' = "opening" /\ epoch' = n /\ Emit(e)
        /\ Checkpoints # {} /\ log[LastCheckpoint.at].epoch = 0
        /\ UNCHANGED <<worker, from, catchup, seen, known, checkpoint, job, spent>>
    BY DEF OpenEpoch
  <1>2. e \in Entries /\ e.kind = "epoch"
    BY DEF Entry, Entries
  <1> HIDE DEF e
  <1>3. /\ n \in Nat /\ log' = Append(log, e) /\ log'[n] = e
        /\ \A i \in Positions : i \in Nat /\ i > 0 /\ i < n /\ log'[i] = log[i]
        /\ Positions' = Positions \cup {n}
        /\ Triggers' = Triggers /\ Triggers \subseteq Positions
        /\ \A x : In(queue', x) => In(queue, x) \/ x = n
        /\ Increasing(queue) => Increasing(queue')
    BY <1>0, <1>1, <1>2, EmissionKeepsOrder
  <1>4. LastCheckpoint' = LastCheckpoint /\ DurableEpoch' = DurableEpoch /\ Base' = Base
    BY <1>0, <1>1, <1>2, <1>3, OtherEntry
  <1>5. job = Nobody /\ job.by = "nobody"
    BY <1>0, <1>1 DEF CursorInv, Ready, Nobody
  <1>6. DurableEpoch = 0 /\ epoch' # 0
    <2>1. Len(log) \in Nat
      BY <1>0 DEF ShapeInv
    <2> QED  BY <1>1, <2>1 DEF DurableEpoch
  <1>7. \A j \in Positions' : log'[j].kind # "output"
    <2>1. \A j \in Positions : ~IsOutput(j)
      BY <1>6 DEF ShadowInv, EpochInv
    <2> QED  BY <1>2, <1>3, <2>1 DEF IsOutput
  <1>8. EpochInv'
    BY <1>1, <1>4, <1>5, <1>6, <1>7 DEF EpochInv, IsOutput, Ready
  <1>9. StartInv'
    BY <1>1, <1>5 DEF ShadowInv, StartInv, Answering
  <1>10. QueueInv'
    <2>1. Starting
      BY <1>1 DEF Starting
    <2>2. \A i \in Triggers' : ~In(queue', i)
      BY <1>3, <2>1 DEF ShadowInv, QueueInv
    <2> QED  BY <1>1, <1>3, <2>2 DEF ShadowInv, QueueInv
  <1>11. BacklogInv'
    BY <1>1 DEF ShadowInv, StartInv, BacklogInv
  <1>12. AnswerInv'
    BY <1>1, <1>5 DEF AnswerInv, Answering
  <1>13. CheckpointMeansComplete'
    <2>1. Next
      BY DEF Next, start
    <2>2. Base \in Nat
      BY BaseIsTyped
    <2> QED  BY <1>4, <2>1, <2>2, CompleteIsKept DEF ShadowInv
  <1> QED  BY <1>8, <1>9, <1>10, <1>11, <1>12, <1>13 DEF ShadowInv

\* The checkpoint that names it moves no cursor.
LEMMA NamingAnEpochKeepsTheShadow ==
  ASSUME IInv, Calm, ShadowInv, OpenEpochCheckpoint
  PROVE  ShadowInv'
  <1> DEFINE n == Len(log) + 1
             done == LastCheckpoint.completed
             e == Entry("checkpoint", done, 0, epoch)
  <1>0. ShapeInv /\ TypeOK /\ CursorInv /\ Told
    BY CalmIsTold DEF IInv
  <1>1. /\ pc = "opening" /\ pc' = "restored" /\ from' = done /\ Emit(e)
        /\ UNCHANGED <<worker, catchup, seen, known, epoch, job, spent>>
    BY DEF OpenEpochCheckpoint
  <1>2. e \in Entries /\ e.kind = "checkpoint" /\ e.about = done /\ e.epoch = epoch /\ done \in Nat
    BY WhatIsAppended DEF Entry, Entries
  <1> HIDE DEF e
  <1>3. /\ n \in Nat /\ log' = Append(log, e) /\ log'[n] = e
        /\ \A i \in Positions : i \in Nat /\ i > 0 /\ i < n /\ log'[i] = log[i]
        /\ Positions' = Positions \cup {n}
        /\ Triggers' = Triggers /\ Triggers \subseteq Positions
        /\ \A x : In(queue', x) => In(queue, x) \/ x = n
        /\ Increasing(queue) => Increasing(queue')
    BY <1>0, <1>1, <1>2, EmissionKeepsOrder
  <1>4. /\ LastCheckpoint' = [completed |-> done, at |-> n] /\ DurableEpoch' = epoch
        /\ Base' = IF worker.projects THEN 0 ELSE IF Checkpoints = {} THEN done ELSE Base
    BY <1>0, <1>1, <1>2, <1>3, NewCheckpoint
  <1>5. job = Nobody /\ job.by = "nobody"
    BY <1>0, <1>1 DEF CursorInv, Ready, Nobody
  <1>6. DurableEpoch = 0 /\ epoch # 0
    BY <1>1 DEF ShadowInv, EpochInv
  <1>7. \A j \in Positions' : log'[j].kind # "output"
    <2>1. \A j \in Positions : ~IsOutput(j)
      BY <1>6 DEF ShadowInv, EpochInv
    <2> QED  BY <1>2, <1>3, <2>1 DEF IsOutput
  <1>8. EpochInv'
    BY <1>1, <1>4, <1>5, <1>6, <1>7 DEF EpochInv, IsOutput, Ready
  <1>9. StartInv'
    BY <1>1, <1>4, <1>5 DEF ShadowInv, StartInv, Answering
  <1>10. QueueInv'
    <2>1. Starting
      BY <1>1 DEF Starting
    <2>2. \A i \in Triggers' : ~In(queue', i)
      BY <1>3, <2>1 DEF ShadowInv, QueueInv
    <2> QED  BY <1>1, <1>3, <2>2 DEF ShadowInv, QueueInv
  <1>11. BacklogInv'
    BY <1>1 DEF ShadowInv, StartInv, BacklogInv
  <1>12. AnswerInv'
    BY <1>1, <1>5 DEF AnswerInv, Answering
  <1>13. CheckpointMeansComplete'
    <2>1. Next
      BY DEF Next, start
    <2>2. Base \in Nat
      BY BaseIsTyped
    <2>3. Base' \in Nat /\ Base' >= Base
      <3>1. CASE Checkpoints = {}
        <4>1. Base = 0 /\ Base' = done
          BY <1>4, <3>1 DEF Base, Calm
        <4> QED  BY <1>2, <4>1
      <3>2. CASE Checkpoints # {}
        BY <1>4, <2>2, <3>2 DEF Calm
      <3> QED  BY <3>1, <3>2
    <2> QED  BY <1>4, <2>1, <2>3, CompleteIsKept DEF ShadowInv
  <1> QED  BY <1>8, <1>9, <1>10, <1>11, <1>12, <1>13 DEF ShadowInv

-----------------------------------------------------------------------------
\* Taking events, answering them and declaring them complete.

\* What is dropped under the lock is no trigger that still wants an answer.
LEMMA DroppedIsDone ==
  ASSUME IInv, Calm, ShadowInv, Ready, job.by = "nobody", NEW i \in Triggers, Dropped(i)
  PROVE  i <= LastCheckpoint.completed
  <1>1. checkpoint = LastCheckpoint /\ job.at = 0
    BY CalmIsTold DEF IInv, CursorInv, Nobody
  <1>2. i # 0 /\ log[i].kind = "trigger" /\ i \in Positions
    BY DEF Triggers, Positions, IInv, ShapeInv
  <1>3. i \in seen => i <= LastCheckpoint.completed
    BY <1>1, <1>2 DEF ShadowInv, BacklogInv
  <1> QED  BY <1>1, <1>2, <1>3 DEF Dropped

\* Only a trigger is taken up.
LEMMA TakenIsTrigger ==
  ASSUME IInv, Calm, ShadowInv, Ready, NEW i \in Positions, ~Dropped(i)
  PROVE  i \in Triggers /\ LastCheckpoint.completed < i /\ FirstPart(i) = 1
  <1>1. checkpoint = LastCheckpoint /\ ShapeInv /\ TypeOK
    BY CalmIsTold DEF IInv, CursorInv
  <1>2. log[i].kind \in {"trigger", "output", "epoch", "checkpoint"}
    BY <1>1 DEF TypeOK
  <1>3. log[i].kind = "trigger"
    BY <1>2 DEF Dropped, Calm
  <1>4. LastCheckpoint.completed \in Nat /\ i \in Nat
    BY <1>1, LastIsTyped DEF Positions
  <1>5. ~(i <= LastCheckpoint.completed)
    BY <1>1 DEF Dropped
  <1>6. known = {}
    BY DEF ShadowInv, StartInv
  <1> QED  BY <1>3, <1>4, <1>5, <1>6 DEF Triggers, FirstPart

\* The bus task takes the oldest event of the queue.
LEMMA BusKeepsTheShadow ==
  ASSUME IInv, Calm, ShadowInv, BusTakes
  PROVE  ShadowInv'
  <1> DEFINE i == Head(queue)
             s == Tail(queue)
  <1>0. ShapeInv /\ TypeOK /\ CursorInv /\ Told
    BY CalmIsTold DEF IInv
  <1>1. /\ Ready /\ queue # <<>> /\ queue' = s /\ catchup' = catchup
        /\ job.by = "nobody" /\ job.at = 0 /\ seen' = seen \cup {i}
        /\ UNCHANGED <<worker, log, pc, from, checkpoint, epoch, spent, known>>
    BY <1>0 DEF BusTakes, Take, Ready, CursorInv, Nobody, Calm
  <1>2. job' = IF Dropped(i) THEN job ELSE [by |-> "bus", at |-> i, next |-> FirstPart(i)]
    BY DEF BusTakes, Take
  <1>3. queue \in Seq(Nat) /\ i \in Positions
    BY <1>0, <1>1, TailOfSequence DEF ShapeInv, TypeOK
  <1>4. /\ \A x : In(queue, x) <=> x = i \/ In(s, x)
        /\ Increasing(s) /\ \A x : In(s, x) => i < x
    BY <1>1, <1>3, InTail DEF ShadowInv, QueueInv
  <1> HIDE DEF i, s
  <1>5. /\ Positions' = Positions /\ Triggers' = Triggers
        /\ LastCheckpoint' = LastCheckpoint /\ DurableEpoch' = DurableEpoch /\ Base' = Base
    BY <1>0, <1>1, LogKept
  <1>6. \A x \in Triggers : x # 0 /\ x \in Nat
    BY DEF Triggers, Positions
  <1>7. /\ \A j \in Positions : IsOutput(j) => log[j].about \in Triggers
        /\ epoch = DurableEpoch
    BY <1>1 DEF ShadowInv, EpochInv
  <1>8. job'.by # "rotate"
    BY <1>1, <1>2
  <1>9. EpochInv'
    BY <1>1, <1>5, <1>7, <1>8 DEF ShadowInv, EpochInv, IsOutput, Ready
  <1>10. CheckpointMeansComplete'
    <2>1. Next
      BY DEF Next
    <2>2. Base \in Nat
      BY BaseIsTyped
    <2> QED  BY <1>5, <2>1, <2>2, CompleteIsKept DEF ShadowInv
  <1>11. CASE Dropped(i)
    <2>1. job' = job /\ (i \in Triggers => i <= LastCheckpoint.completed)
      BY <1>1, <1>2, <1>11, DroppedIsDone
    <2>2. StartInv'
      BY <1>1, <1>5, <2>1 DEF ShadowInv, StartInv, Answering, Ready
    <2>3. QueueInv'
      BY <1>1, <1>4, <1>5, <2>1 DEF ShadowInv, QueueInv, Starting
    <2>4. BacklogInv'
      BY <1>1, <1>4, <1>5, <2>1 DEF ShadowInv, BacklogInv, IsOutput
    <2>5. AnswerInv'
      BY <1>1, <2>1 DEF AnswerInv, Answering
    <2> QED  BY <1>9, <1>10, <2>2, <2>3, <2>4, <2>5 DEF ShadowInv
  <1>12. CASE ~Dropped(i)
    <2>1. i \in Triggers /\ LastCheckpoint.completed < i /\ FirstPart(i) = 1
      BY <1>1, <1>3, <1>12, TakenIsTrigger
    <2>2. job'.by = "bus" /\ job'.at = i /\ job'.next = 1
      BY <1>2, <1>12, <2>1
    <2>3. ~Starting
      BY <1>4, <2>1 DEF ShadowInv, QueueInv
    <2>4. pc = "running" /\ catchup = <<>>
      BY <1>1, <2>3 DEF Starting, Ready
    <2>5. StartInv'
      BY <1>1, <2>2, <2>4 DEF ShadowInv, StartInv, Answering
    <2>6. QueueInv'
      <3>1. ~Starting'
        BY <1>1, <2>2, <2>3 DEF Starting
      <3> QED  BY <1>1, <1>4, <1>5, <2>2, <2>4, <3>1, InEmpty DEF ShadowInv, QueueInv
    <2>7. BacklogInv'
      BY <1>1, <1>4, <1>5, <1>6, <1>7, <2>2 DEF ShadowInv, BacklogInv, IsOutput
    <2>8. AnswerInv'
      BY <1>1, <1>5, <2>1, <2>2 DEF AnswerInv, Answering
    <2> QED  BY <1>9, <1>10, <2>5, <2>6, <2>7, <2>8 DEF ShadowInv
  <1> QED  BY <1>11, <1>12

\* start() takes the oldest event of the replay.
LEMMA StartKeepsTheShadow ==
  ASSUME IInv, Calm, ShadowInv, StartTakes
  PROVE  ShadowInv'
  <1> DEFINE i == Head(catchup)
             s == Tail(catchup)
  <1>0. ShapeInv /\ TypeOK /\ CursorInv /\ Told
    BY CalmIsTold DEF IInv
  <1>1. /\ pc = "running" /\ Ready /\ catchup # <<>> /\ catchup' = s /\ queue' = queue
        /\ job.by = "nobody" /\ job.at = 0 /\ seen' = seen \cup {i}
        /\ UNCHANGED <<worker, log, pc, from, checkpoint, epoch, spent, known>>
    BY <1>0 DEF StartTakes, Take, Ready, CursorInv, Nobody, Calm
  <1>2. job' = IF Dropped(i) THEN job ELSE [by |-> "start", at |-> i, next |-> FirstPart(i)]
    BY DEF StartTakes, Take
  <1>3. catchup \in Seq(Nat) /\ i \in Positions
    BY <1>0, <1>1, TailOfSequence DEF ShapeInv, TypeOK
  <1>4. /\ \A x : In(catchup, x) <=> x = i \/ In(s, x)
        /\ Increasing(s) /\ \A x : In(s, x) => i < x
    BY <1>1, <1>3, InTail DEF ShadowInv, QueueInv
  <1> HIDE DEF i, s
  <1>5. /\ Positions' = Positions /\ Triggers' = Triggers
        /\ LastCheckpoint' = LastCheckpoint /\ DurableEpoch' = DurableEpoch /\ Base' = Base
    BY <1>0, <1>1, LogKept
  <1>6. \A x \in Triggers : x # 0 /\ x \in Nat /\ ~In(queue, x)
    <2>1. Starting
      BY <1>1 DEF Starting
    <2> QED  BY <2>1 DEF Triggers, Positions, ShadowInv, QueueInv
  <1>7. /\ \A j \in Positions : IsOutput(j) => log[j].about \in Triggers
        /\ epoch = DurableEpoch
    BY <1>1 DEF ShadowInv, EpochInv
  <1>8. job'.by # "rotate"
    BY <1>1, <1>2
  <1>9. EpochInv'
    BY <1>1, <1>5, <1>7, <1>8 DEF ShadowInv, EpochInv, IsOutput, Ready
  <1>10. CheckpointMeansComplete'
    <2>1. Next
      BY DEF Next
    <2>2. Base \in Nat
      BY BaseIsTyped
    <2> QED  BY <1>5, <2>1, <2>2, CompleteIsKept DEF ShadowInv
  <1>11. CASE Dropped(i)
    <2>1. job' = job /\ (i \in Triggers => i <= LastCheckpoint.completed)
      BY <1>1, <1>2, <1>11, DroppedIsDone
    <2>2. StartInv'
      BY <1>1, <1>5, <2>1 DEF ShadowInv, StartInv, Answering
    <2>3. QueueInv'
      BY <1>1, <1>4, <1>5, <1>6, <2>1 DEF ShadowInv, QueueInv
    <2>4. BacklogInv'
      BY <1>1, <1>4, <1>5, <1>7, <2>1 DEF ShadowInv, BacklogInv, IsOutput
    <2>5. AnswerInv'
      BY <1>1, <2>1 DEF AnswerInv, Answering
    <2> QED  BY <1>9, <1>10, <2>2, <2>3, <2>4, <2>5 DEF ShadowInv
  <1>12. CASE ~Dropped(i)
    <2>1. i \in Triggers /\ LastCheckpoint.completed < i /\ FirstPart(i) = 1
      BY <1>1, <1>3, <1>12, TakenIsTrigger
    <2>2. job'.by = "start" /\ job'.at = i /\ job'.next = 1
      BY <1>2, <1>12, <2>1
    <2>3. StartInv'
      BY <1>1, <2>2 DEF ShadowInv, StartInv, Answering
    <2>4. QueueInv'
      BY <1>1, <1>4, <1>5, <1>6, <2>2 DEF ShadowInv, QueueInv
    <2>5. BacklogInv'
      BY <1>1, <1>4, <1>5, <1>6, <1>7, <2>2 DEF ShadowInv, BacklogInv, IsOutput
    <2>6. AnswerInv'
      BY <1>1, <1>5, <2>1, <2>2 DEF AnswerInv, Answering
    <2> QED  BY <1>9, <1>10, <2>3, <2>4, <2>5, <2>6 DEF ShadowInv
  <1> QED  BY <1>11, <1>12

\* An output joins the log, or is found there.
LEMMA WritingKeepsTheShadow ==
  ASSUME IInv, Calm, ShadowInv, WriteOutput
  PROVE  ShadowInv'
  <1> DEFINE n == Len(log) + 1
             e == Entry("output", job.at, job.next, epoch)
  <1>0. ShapeInv /\ TypeOK /\ CursorInv /\ Told
    BY CalmIsTold DEF IInv
  <1>1. /\ Answering /\ Ready /\ job.by # "rotate"
        /\ UNCHANGED <<worker, pc, from, catchup, seen, checkpoint, epoch, spent>>
        /\ job' = [job EXCEPT !.next = job.next + 1]
    BY <1>0 DEF WriteOutput, Answering, CursorInv
  <1>2. job'.by = job.by /\ job'.at = job.at /\ job'.next = job.next + 1
    BY <1>0, <1>1 DEF ShapeInv
  <1>3. /\ known' = known /\ job.next \in Nat /\ job.next >= 1
        /\ pc = "running" /\ epoch = DurableEpoch
        /\ job.at \in Triggers /\ LastCheckpoint.completed < job.at
    BY <1>0, <1>1 DEF WriteOutput, Calm, CursorInv, ShapeInv, ShadowInv, StartInv, EpochInv, AnswerInv
  <1>4. LastCheckpoint' # LastCheckpoint \/ Base' # Base \/ (CheckpointMeansComplete' /\ Base \in Nat)
    <2>1. Next
      BY DEF Next, _process_event
    <2>2. Base \in Nat
      BY BaseIsTyped
    <2> QED  BY <2>1, <2>2, CompleteIsKept DEF ShadowInv
  <1>5. (job.next + 1) - 1 = job.next
        /\ \A part \in 1..job.next : part = job.next \/ part \in 1..(job.next - 1)
    BY <1>3
  <1>6. CASE Written(job.at, job.next, epoch)
    <2>1. log' = log /\ queue' = queue
      BY <1>6 DEF WriteOutput
    <2>2. /\ Positions' = Positions /\ Triggers' = Triggers
          /\ LastCheckpoint' = LastCheckpoint /\ DurableEpoch' = DurableEpoch /\ Base' = Base
      BY <1>0, <1>1, <2>1, LogKept
    <2>3. PICK w \in Positions : log[w] = Entry("output", job.at, job.next, epoch)
      BY <1>6 DEF Written
    <2>4. IsOutput(w) /\ log[w].about = job.at /\ log[w].part = job.next
      BY <2>3 DEF Entry, IsOutput
    <2>5. EpochInv'
      BY <1>1, <1>2, <2>1, <2>2 DEF ShadowInv, EpochInv, IsOutput, Ready
    <2>6. StartInv'
      BY <1>1, <1>2, <1>3, <2>1, <2>2 DEF ShadowInv, StartInv, Answering
    <2>7. QueueInv'
      BY <1>1, <1>2, <1>3, <2>1, <2>2 DEF ShadowInv, QueueInv, Starting
    <2>8. BacklogInv'
      BY <1>1, <1>2, <2>1, <2>2 DEF ShadowInv, BacklogInv, IsOutput
    <2>9. AnswerInv'
      <3>1. \A part \in 1..job.next :
               \E j \in Positions : IsOutput(j) /\ log[j].about = job.at /\ log[j].part = part
        BY <1>1, <1>5, <2>4 DEF ShadowInv, AnswerInv
      <3> QED  BY <1>1, <1>2, <1>3, <1>5, <2>1, <2>2, <3>1 DEF AnswerInv, IsOutput
    <2> QED  BY <1>4, <2>2, <2>5, <2>6, <2>7, <2>8, <2>9 DEF ShadowInv
  <1>7. CASE ~Written(job.at, job.next, epoch)
    <2>1. Emit(e)
      BY <1>7 DEF WriteOutput
    <2>2. /\ e \in Entries /\ e.kind = "output" /\ e.about = job.at /\ e.part = job.next
          /\ e.epoch = epoch
      BY WhatIsAppended DEF Entry, Entries
    <2> HIDE DEF e
    <2>3. /\ n \in Nat /\ log' = Append(log, e) /\ log'[n] = e
          /\ \A i \in Positions : i \in Nat /\ i > 0 /\ i < n /\ log'[i] = log[i]
          /\ Positions' = Positions \cup {n}
          /\ Triggers' = Triggers /\ Triggers \subseteq Positions
          /\ \A x : In(queue', x) => In(queue, x) \/ x = n
          /\ \A x : In(queue, x) => In(queue', x)
          /\ Increasing(queue) => Increasing(queue')
      BY <1>0, <1>1, <2>1, <2>2, EmissionKeepsOrder
    <2>4. LastCheckpoint' = LastCheckpoint /\ DurableEpoch' = DurableEpoch /\ Base' = Base
      BY <1>0, <1>1, <2>2, <2>3, OtherEntry
    <2>5. n \notin Triggers
      BY <2>3
    <2>6. EpochInv'
      BY <1>1, <1>2, <1>3, <2>2, <2>3, <2>4 DEF ShadowInv, EpochInv, IsOutput, Ready
    <2>7. StartInv'
      BY <1>1, <1>2, <1>3, <2>4 DEF ShadowInv, StartInv, Answering
    <2>8. QueueInv'
      BY <1>1, <1>2, <1>3, <2>3, <2>5 DEF ShadowInv, QueueInv, Starting
    <2>9. BacklogInv'
      BY <1>1, <1>2, <2>2, <2>3, <2>4 DEF ShadowInv, BacklogInv, IsOutput
    <2>10. AnswerInv'
      <3>1. \A part \in 1..job.next : \E j \in Positions' :
               log'[j].kind = "output" /\ log'[j].about = job.at /\ log'[j].part = part
        <4> SUFFICES ASSUME NEW part \in 1..job.next
                     PROVE  \E j \in Positions' : log'[j].kind = "output"
                              /\ log'[j].about = job.at /\ log'[j].part = part
          OBVIOUS
        <4>1. CASE part = job.next
          BY <2>2, <2>3, <4>1
        <4>2. CASE part \in 1..(job.next - 1)
          BY <1>1, <2>3, <4>2 DEF ShadowInv, AnswerInv, IsOutput
        <4> QED  BY <1>5, <4>1, <4>2
      <3> QED  BY <1>1, <1>2, <1>3, <1>5, <2>3, <2>4, <3>1 DEF AnswerInv, IsOutput
    <2> QED  BY <1>4, <2>4, <2>6, <2>7, <2>8, <2>9, <2>10 DEF ShadowInv
  <1> QED  BY <1>6, <1>7

\* The checkpoint passes the event it is for, and no trigger in between.
LEMMA AdvancingKeepsTheShadow ==
  ASSUME IInv, Calm, ShadowInv, AdvanceCheckpoint
  PROVE  ShadowInv'
  <1> DEFINE n == Len(log) + 1
             e == Entry("checkpoint", job.at, 0, epoch)
  <1>0. ShapeInv /\ TypeOK /\ CursorInv /\ Told
    BY CalmIsTold DEF IInv
  <1>1. /\ Answering /\ Ready /\ job.by # "rotate" /\ job.next = worker.outputs + 1
        /\ Emit(e) /\ job' = Nobody
        /\ UNCHANGED <<worker, pc, from, catchup, seen, known, epoch, spent>>
    BY <1>0 DEF AdvanceCheckpoint, Answering, CursorInv
  <1>2. /\ e \in Entries /\ e.kind = "checkpoint" /\ e.about = job.at /\ e.epoch = epoch
        /\ job.at \in Nat
    BY WhatIsAppended DEF Entry, Entries
  <1> HIDE DEF e
  <1>3. /\ n \in Nat /\ log' = Append(log, e) /\ log'[n] = e
        /\ \A i \in Positions : i \in Nat /\ i > 0 /\ i < n /\ log'[i] = log[i]
        /\ Positions' = Positions \cup {n}
        /\ Triggers' = Triggers /\ Triggers \subseteq Positions
        /\ \A x : In(queue', x) => In(queue, x) \/ x = n
        /\ \A x : In(queue, x) => In(queue', x)
        /\ Increasing(queue) => Increasing(queue')
    BY <1>0, <1>1, <1>2, EmissionKeepsOrder
  <1>4. /\ pc = "running" /\ epoch = DurableEpoch /\ DurableEpoch # 0
        /\ job.at \in Triggers /\ LastCheckpoint.completed < job.at
    BY <1>1 DEF ShadowInv, StartInv, EpochInv, AnswerInv
  <1>5. Checkpoints # {}
    BY <1>4 DEF DurableEpoch
  <1>6. /\ LastCheckpoint' = [completed |-> job.at, at |-> n] /\ DurableEpoch' = epoch
        /\ Base' = Base
    BY <1>0, <1>1, <1>2, <1>3, <1>5, NewCheckpoint DEF Calm
  <1>7. LastCheckpoint'.completed = job.at
    BY <1>6
  <1>8. job'.by = "nobody" /\ job'.at = 0
    BY <1>1 DEF Nobody
  <1>9. LastCheckpoint.completed \in Nat /\ \A i \in Triggers : i \in Nat /\ i > 0
    BY <1>0, <1>3, LastIsTyped
  <1>10. \A j \in Positions' : log'[j].kind = "output" => j \in Positions /\ IsOutput(j)
    BY <1>2, <1>3 DEF IsOutput
  <1>11. \A i \in Triggers : i <= LastCheckpoint.completed => i <= job.at
    BY <1>2, <1>4, <1>9
  <1>12. n \notin Triggers
    BY <1>3
  <1>13. EpochInv'
    <2>1. \A j \in Positions : IsOutput(j) =>
             log[j].about \in Triggers /\ (log[j].about <= job.at \/ log[j].epoch = epoch)
      BY <1>4, <1>11 DEF ShadowInv, EpochInv
    <2> QED  BY <1>1, <1>3, <1>4, <1>6, <1>7, <1>8, <1>10, <2>1 DEF EpochInv, IsOutput, Ready
  <1>14. StartInv'
    BY <1>1, <1>4, <1>8 DEF ShadowInv, StartInv, Answering
  <1>15. QueueInv'
    <2>1. Starting' => Starting
      BY <1>1, <1>4, <1>8 DEF Starting
    <2> QED  BY <1>1, <1>3, <1>8, <1>9, <1>12, <2>1 DEF ShadowInv, QueueInv
  <1>16. BacklogInv'
    <2>1. \A i \in Triggers : i <= job.at \/ In(catchup, i) \/ In(queue', i)
      BY <1>2, <1>3, <1>4, <1>9, <1>11 DEF ShadowInv, BacklogInv
    <2>2. \A j \in Positions : IsOutput(j) => log[j].about <= job.at \/ In(catchup, log[j].about)
      <3>1. \A j \in Positions : IsOutput(j) => log[j].about \in Triggers
        BY DEF ShadowInv, EpochInv
      <3> QED  BY <1>2, <1>4, <1>11, <3>1 DEF ShadowInv, BacklogInv
    <2>3. \A i \in seen \cap Triggers : i <= job.at
      BY <1>2, <1>4, <1>11 DEF ShadowInv, BacklogInv
    <2> QED  BY <1>1, <1>3, <1>7, <1>8, <1>10, <2>1, <2>2, <2>3 DEF BacklogInv, IsOutput
  <1>17. AnswerInv'
    BY <1>8 DEF AnswerInv, Answering
  <1>18. CheckpointMeansComplete'
    <2> SUFFICES ASSUME NEW i \in Triggers, Base < i, i <= job.at
                 PROVE  Complete(i)'
      BY <1>3, <1>6, <1>7 DEF CheckpointMeansComplete
    <2>1. [Next]_vars
      BY DEF Next, _process_event
    <2>2. CASE i <= LastCheckpoint.completed
      <3>1. Complete(i)
        BY <2>2 DEF ShadowInv, CheckpointMeansComplete, Calm
      <3> QED  BY <2>1, <3>1, AnswersStay
    <2>3. CASE i = job.at
      <3>1. job.next - 1 = worker.outputs
        BY <1>0, <1>1, OutputsPositive
      <3>2. Complete(job.at)
        BY <1>1, <3>1 DEF ShadowInv, AnswerInv, Complete, IsOutput
      <3> QED  BY <2>1, <2>3, <3>2, AnswersStay
    <2>4. CASE ~(i <= LastCheckpoint.completed) /\ i # job.at
      <3>1. In(catchup, i) \/ In(queue, i)
        BY <1>4, <2>4 DEF ShadowInv, BacklogInv
      <3>2. job.at < i
        BY <3>1 DEF ShadowInv, QueueInv
      <3> QED  BY <1>2, <1>9, <3>2
    <2> QED  BY <2>2, <2>3, <2>4
  <1> QED  BY <1>13, <1>14, <1>15, <1>16, <1>17, <1>18 DEF ShadowInv

\* rotate_epoch finds nothing half answered.
LEMMA RotatingKeepsTheShadow ==
  ASSUME IInv, Calm, ShadowInv, RotateEpoch
  PROVE  ShadowInv'
  <1> DEFINE n == Len(log) + 1
             e == Entry("epoch", 0, 0, 0)
  <1>0. ShapeInv /\ TypeOK /\ CursorInv /\ Told
    BY CalmIsTold DEF IInv
  <1>1. /\ Ready /\ ~Starting /\ job.by = "nobody" /\ job.at = 0 /\ Emit(e) /\ epoch' = n
        /\ job' = [by |-> "rotate", at |-> 0, next |-> 0]
        /\ UNCHANGED <<worker, pc, from, catchup, seen, known, checkpoint>>
    BY <1>0 DEF RotateEpoch, Ready, Calm, CursorInv, Nobody
  <1>2. e \in Entries /\ e.kind = "epoch"
    BY DEF Entry, Entries
  <1> HIDE DEF e
  <1>3. /\ n \in Nat /\ log' = Append(log, e) /\ log'[n] = e
        /\ \A i \in Positions : i \in Nat /\ i > 0 /\ i < n /\ log'[i] = log[i]
        /\ Positions' = Positions \cup {n}
        /\ Triggers' = Triggers /\ Triggers \subseteq Positions
        /\ \A x : In(queue', x) => In(queue, x) \/ x = n
        /\ \A x : In(queue, x) => In(queue', x)
        /\ Increasing(queue) => Increasing(queue')
    BY <1>0, <1>1, <1>2, EmissionKeepsOrder
  <1>4. LastCheckpoint' = LastCheckpoint /\ DurableEpoch' = DurableEpoch /\ Base' = Base
    BY <1>0, <1>1, <1>2, <1>3, OtherEntry
  <1>5. pc = "running" /\ catchup = <<>>
    BY <1>1 DEF Starting, Ready
  <1>6. job'.by = "rotate" /\ job'.at = 0 /\ ~Answering' /\ ~Starting'
    BY <1>1, <1>5 DEF Answering, Starting
  <1>7. \A j \in Positions : IsOutput(j) => log[j].about <= LastCheckpoint.completed
    <2>1. \A j \in Positions : IsOutput(j) => log[j].about \in Triggers
      BY DEF ShadowInv, EpochInv
    <2>2. 0 \notin Triggers
      BY <1>3
    <2> QED  BY <1>1, <1>5, <2>1, <2>2, InEmpty DEF ShadowInv, BacklogInv
  <1>8. \A j \in Positions' : log'[j].kind = "output" => j \in Positions /\ IsOutput(j)
    BY <1>2, <1>3 DEF IsOutput
  <1>9. n # 0 /\ n \notin Triggers
    <2>1. Len(log) \in Nat
      BY <1>0 DEF ShapeInv
    <2> QED  BY <1>3, <2>1
  <1>10. EpochInv'
    BY <1>1, <1>3, <1>4, <1>5, <1>6, <1>7, <1>8, <1>9 DEF ShadowInv, EpochInv, IsOutput, Ready
  <1>11. StartInv'
    BY <1>1, <1>5, <1>6 DEF ShadowInv, StartInv, Answering
  <1>12. QueueInv'
    BY <1>1, <1>3, <1>6, <1>9 DEF ShadowInv, QueueInv
  <1>13. BacklogInv'
    BY <1>1, <1>3, <1>4, <1>6, <1>8 DEF ShadowInv, BacklogInv, IsOutput
  <1>14. AnswerInv'
    BY <1>6 DEF AnswerInv
  <1>15. CheckpointMeansComplete'
    <2>1. Next
      BY DEF Next
    <2>2. Base \in Nat
      BY BaseIsTyped
    <2> QED  BY <1>4, <2>1, <2>2, CompleteIsKept DEF ShadowInv
  <1> QED  BY <1>10, <1>11, <1>12, <1>13, <1>14, <1>15 DEF ShadowInv

LEMMA NamingTheRotationKeepsTheShadow ==
  ASSUME IInv, Calm, ShadowInv, RotateCheckpoint
  PROVE  ShadowInv'
  <1> DEFINE n == Len(log) + 1
             done == LastCheckpoint.completed
             e == Entry("checkpoint", done, 0, epoch)
  <1>0. ShapeInv /\ TypeOK /\ CursorInv /\ Told
    BY CalmIsTold DEF IInv
  <1>1. /\ job.by = "rotate" /\ Ready /\ checkpoint = LastCheckpoint /\ Emit(e) /\ job' = Nobody
        /\ UNCHANGED <<worker, pc, from, catchup, seen, known, epoch, spent>>
    BY <1>0 DEF RotateCheckpoint, CursorInv
  <1>2. e \in Entries /\ e.kind = "checkpoint" /\ e.about = done /\ e.epoch = epoch /\ done \in Nat
    BY WhatIsAppended DEF Entry, Entries
  <1> HIDE DEF e
  <1>3. /\ n \in Nat /\ log' = Append(log, e) /\ log'[n] = e
        /\ \A i \in Positions : i \in Nat /\ i > 0 /\ i < n /\ log'[i] = log[i]
        /\ Positions' = Positions \cup {n}
        /\ Triggers' = Triggers /\ Triggers \subseteq Positions
        /\ \A x : In(queue', x) => In(queue, x) \/ x = n
        /\ \A x : In(queue, x) => In(queue', x)
        /\ Increasing(queue) => Increasing(queue')
    BY <1>0, <1>1, <1>2, EmissionKeepsOrder
  <1>4. epoch # 0 /\ DurableEpoch # 0
    BY <1>1 DEF ShadowInv, EpochInv
  <1>5. Checkpoints # {}
    BY <1>4 DEF DurableEpoch
  <1>6. /\ LastCheckpoint' = [completed |-> done, at |-> n] /\ DurableEpoch' = epoch
        /\ Base' = Base
    BY <1>0, <1>1, <1>2, <1>3, <1>5, NewCheckpoint DEF Calm
  <1>7. LastCheckpoint'.completed = done
    BY <1>6
  <1>8. job'.by = "nobody" /\ job'.at = 0 /\ job.at = 0 /\ ~Answering'
    BY <1>1 DEF Nobody, ShadowInv, StartInv, Answering
  <1>9. \A j \in Positions' : log'[j].kind = "output" => j \in Positions /\ IsOutput(j)
    BY <1>2, <1>3 DEF IsOutput
  <1>10. n \notin Triggers
    BY <1>3
  <1>11. EpochInv'
    <2>1. \A j \in Positions : IsOutput(j) => log[j].about \in Triggers /\ log[j].about <= done
      BY <1>1 DEF ShadowInv, EpochInv
    <2>2. pc # "opening"
      BY <1>1 DEF Ready
    <2> QED  BY <1>1, <1>3, <1>4, <1>6, <1>7, <1>8, <1>9, <2>1, <2>2 DEF EpochInv, IsOutput, Ready
  <1>12. StartInv'
    BY <1>1, <1>7, <1>8 DEF ShadowInv, StartInv
  <1>13. QueueInv'
    <2>1. Starting' => Starting
      BY <1>1, <1>8 DEF Starting
    <2> QED  BY <1>1, <1>3, <1>8, <1>10, <2>1 DEF ShadowInv, QueueInv
  <1>14. BacklogInv'
    BY <1>1, <1>3, <1>7, <1>8, <1>9 DEF ShadowInv, BacklogInv, IsOutput
  <1>15. AnswerInv'
    BY <1>8 DEF AnswerInv
  <1>16. CheckpointMeansComplete'
    <2>1. Next
      BY DEF Next
    <2>2. Base \in Nat
      BY BaseIsTyped
    <2> QED  BY <1>6, <1>7, <2>1, <2>2, CompleteIsKept DEF ShadowInv
  <1> QED  BY <1>11, <1>12, <1>13, <1>14, <1>15, <1>16 DEF ShadowInv

\* A crash leaves the log, and with it everything that was promised.
LEMMA CrashingKeepsTheShadow ==
  ASSUME IInv, Calm, ShadowInv, Crash
  PROVE  ShadowInv'
  <1>0. ShapeInv /\ TypeOK /\ CursorInv /\ Told
    BY CalmIsTold DEF IInv
  <1>1. /\ pc' = "down" /\ queue' = <<>> /\ catchup' = <<>>
        /\ seen' = {} /\ known' = {} /\ job' = Nobody
        /\ UNCHANGED <<worker, log>>
    BY DEF Crash
  <1>2. /\ Positions' = Positions /\ Triggers' = Triggers
        /\ LastCheckpoint' = LastCheckpoint /\ DurableEpoch' = DurableEpoch /\ Base' = Base
    BY <1>0, <1>1, LogKept
  <1>3. job'.by = "nobody" /\ job'.at = 0
    BY <1>1 DEF Nobody
  <1>4. EpochInv'
    BY <1>1, <1>2, <1>3 DEF ShadowInv, EpochInv, IsOutput, Ready
  <1>5. StartInv'
    BY <1>1, <1>3 DEF StartInv, Answering
  <1>6. QueueInv'
    BY <1>1, InEmpty DEF QueueInv
  <1>7. BacklogInv'
    BY <1>1 DEF BacklogInv
  <1>8. AnswerInv'
    BY <1>3 DEF AnswerInv, Answering
  <1>9. CheckpointMeansComplete'
    <2>1. Next
      BY DEF Next
    <2>2. Base \in Nat
      BY BaseIsTyped
    <2> QED  BY <1>2, <2>1, <2>2, CompleteIsKept DEF ShadowInv
  <1> QED  BY <1>4, <1>5, <1>6, <1>7, <1>8, <1>9 DEF ShadowInv

LEMMA StutteringKeepsTheShadow ==
  ASSUME IInv, ShadowInv, UNCHANGED vars
  PROVE  ShadowInv'
  <1>0. ShapeInv
    BY DEF IInv
  <1>1. UNCHANGED <<worker, log, pc, from, queue, catchup, seen, known, checkpoint, epoch, job>>
    BY DEF vars
  <1>2. /\ Positions' = Positions /\ Triggers' = Triggers
        /\ LastCheckpoint' = LastCheckpoint /\ DurableEpoch' = DurableEpoch /\ Base' = Base
    BY <1>0, <1>1, LogKept
  <1>3. EpochInv'
    BY <1>1, <1>2 DEF ShadowInv, EpochInv, IsOutput, Ready
  <1>4. StartInv'
    BY <1>1, <1>2 DEF ShadowInv, StartInv, Answering
  <1>5. QueueInv'
    BY <1>1, <1>2 DEF ShadowInv, QueueInv, Starting
  <1>6. BacklogInv'
    BY <1>1, <1>2 DEF ShadowInv, BacklogInv, IsOutput
  <1>7. AnswerInv'
    BY <1>1, <1>2 DEF ShadowInv, AnswerInv, Answering, IsOutput
  <1>8. CheckpointMeansComplete'
    <2>1. Base \in Nat
      BY BaseIsTyped
    <2> QED  BY <1>2, <2>1, CompleteIsKept DEF ShadowInv
  <1> QED  BY <1>3, <1>4, <1>5, <1>6, <1>7, <1>8 DEF ShadowInv

\* Nothing of it fails.
LEMMA NothingFails ==
  ASSUME IInv, Calm
  PROVE  ~Fail /\ ~FailLate /\ ~RotateFails
  <1>1. spent.failures \in 0..0 /\ spent.late \in 0..0
    BY DEF IInv, TypeOK, Calm
  <1> QED  BY <1>1 DEF Fail, FailLate, RaisesLate, RotateFails, Calm

-----------------------------------------------------------------------------
\* The theorems.

\* The workers of which nothing is asked that the code does not give: a shadow worker
\* whose emissions do not raise, and that no event reaches while it starts.  Of a
\* projector nothing is assumed.
Undisturbed ==
  \A w \in Workers : w.projects \/ (w.failures = 0 /\ w.late = 0 /\ ~w.liveDuringStart)

LEMMA ProjectorsHaveOneEpoch ==
  ASSUME IInv, worker.projects
  PROVE  SameEpoch
  BY DEF IInv, ProjectorInv, SameEpoch

LEMMA ShadowsAnswerUnderOneEpoch ==
  ASSUME ShadowInv, IInv
  PROVE  SameEpoch
  <1> SUFFICES ASSUME Answering, NEW j \in Positions, IsOutput(j), log[j].about = job.at
               PROVE  log[j].epoch = epoch
    BY DEF SameEpoch
  <1>1. Ready /\ job.by # "rotate" /\ ShapeInv /\ TypeOK
    BY DEF Answering, IInv, CursorInv
  <1>2. epoch = DurableEpoch
    BY <1>1 DEF ShadowInv, EpochInv
  <1>3. LastCheckpoint.completed < job.at /\ job.at \in Nat
    BY <1>1 DEF ShadowInv, AnswerInv, ShapeInv
  <1>4. LastCheckpoint.completed \in Nat
    BY <1>1, LastIsTyped
  <1>5. ~(log[j].about <= LastCheckpoint.completed)
    BY <1>3, <1>4
  <1> QED  BY <1>2, <1>5 DEF ShadowInv, EpochInv

LEMMA ShadowInvInductive ==
  ASSUME IInv, Calm, ShadowInv, [Next]_vars
  PROVE  ShadowInv'
  <1>1. CASE ExternalEvent
    BY <1>1, TriggersArriveInOrder
  <1>2. CASE start
    BY <1>2, SubscribingKeepsTheShadow, RestoringKeepsTheShadow, ReplayingKeepsTheShadow,
       OpeningKeepsTheShadow, OpeningAnEpochKeepsTheShadow, NamingAnEpochKeepsTheShadow DEF start
  <1>3. CASE BusTakes
    BY <1>3, BusKeepsTheShadow
  <1>4. CASE StartTakes
    BY <1>4, StartKeepsTheShadow
  <1>5. CASE _process_event
    BY <1>5, WritingKeepsTheShadow, AdvancingKeepsTheShadow DEF _process_event
  <1>6. CASE RotateEpoch
    BY <1>6, RotatingKeepsTheShadow
  <1>7. CASE RotateCheckpoint
    BY <1>7, NamingTheRotationKeepsTheShadow
  <1>8. CASE Fail \/ FailLate \/ RotateFails
    BY <1>8, NothingFails
  <1>9. CASE Crash
    BY <1>9, CrashingKeepsTheShadow
  <1>10. CASE UNCHANGED vars
    BY <1>10, StutteringKeepsTheShadow
  <1> QED  BY <1>1, <1>2, <1>3, <1>4, <1>5, <1>6, <1>7, <1>8, <1>9, <1>10 DEF Next

LEMMA ProjectorInvInductive ==
  /\ Init => (worker.projects => OutputsOnce)
  /\ IInv /\ (worker.projects => OutputsOnce) /\ [Next]_vars => (worker.projects => OutputsOnce)'
  <1>1. ASSUME Init PROVE OutputsOnce
    BY <1>1 DEF Init, OutputsOnce, Positions
  <1>2. ASSUME IInv, worker.projects => OutputsOnce, [Next]_vars, worker'.projects
        PROVE  OutputsOnce'
    <2>1. worker.projects
      BY <1>2, StepsAppend
    <2> QED  BY <1>2, <2>1, ProjectorsHaveOneEpoch, OutputsStayOnce
  <1> QED  BY <1>1, <1>2

LEMMA WorkerInvInductive ==
  ASSUME Undisturbed
  PROVE  /\ Init => WorkerInv
         /\ WorkerInv /\ [Next]_vars => WorkerInv'
  <1>1. ASSUME Init PROVE WorkerInv
    <2>1. /\ Positions = {} /\ pc = "down" /\ job.by = "nobody" /\ job.at = 0
          /\ queue = <<>> /\ catchup = <<>> /\ seen = {} /\ known = {}
      BY <1>1 DEF Init, Positions, Nobody
    <2>2. EpochInv
      BY <2>1 DEF EpochInv, Ready
    <2>3. StartInv
      BY <2>1 DEF StartInv, Answering
    <2>4. QueueInv
      BY <2>1, InEmpty DEF QueueInv
    <2>5. BacklogInv
      BY <2>1 DEF BacklogInv
    <2>6. AnswerInv
      BY <2>1 DEF AnswerInv, Answering
    <2>7. CheckpointMeansComplete /\ OutputsOnce
      BY <2>1 DEF CheckpointMeansComplete, OutputsOnce, Triggers
    <2> QED  BY <1>1, <2>2, <2>3, <2>4, <2>5, <2>6, <2>7, IInvInductive DEF WorkerInv, ShadowInv
  <1>2. ASSUME WorkerInv, [Next]_vars PROVE WorkerInv'
    <2>1. IInv /\ OutputsOnce /\ (worker.projects \/ ShadowInv)
      BY <1>2 DEF WorkerInv
    <2>2. IInv'
      BY <1>2, <2>1, IInvInductive
    <2>3. worker' = worker
      BY <1>2, <2>1, StepsAppend
    <2>4. SameEpoch
      BY <2>1, ProjectorsHaveOneEpoch, ShadowsAnswerUnderOneEpoch
    <2>5. OutputsOnce'
      BY <1>2, <2>1, <2>4, OutputsStayOnce
    <2>6. CASE worker.projects
      BY <2>2, <2>3, <2>5, <2>6 DEF WorkerInv
    <2>7. CASE ~worker.projects
      <3>1. Calm
        BY <2>1, <2>7 DEF Undisturbed, Calm, IInv, TypeOK
      <3>2. ShadowInv'
        BY <1>2, <2>1, <2>7, <3>1, ShadowInvInductive
      <3> QED  BY <2>2, <2>5, <3>2 DEF WorkerInv
    <2> QED  BY <2>6, <2>7
  <1> QED  BY <1>1, <1>2

\* A projector writes no output of a trigger twice, whatever crashes, raises and is
\* replayed (ADR 0004, decision 4; the deterministic ids of memory_worker.py).
THEOREM ProjectorsAnswerOnce == Spec => [](worker.projects => OutputsOnce)
  <1>1. Init => IInv /\ (worker.projects => OutputsOnce)
    BY IInvInductive, ProjectorInvInductive
  <1>2. IInv /\ (worker.projects => OutputsOnce) /\ [Next]_vars
          => IInv' /\ (worker.projects => OutputsOnce)'
    BY IInvInductive, ProjectorInvInductive
  <1> QED  BY <1>1, <1>2, PTL DEF Spec

\* A shadow worker answers no trigger twice either, under one epoch or under two: an
\* epoch ends when nothing is half answered (ADR 0004, decision 4; shadow.py,
\* rotate_epoch).
THEOREM OutputsAreWrittenOnce == Undisturbed /\ Spec => []OutputsOnce
  <1>1. WorkerInv => OutputsOnce
    BY DEF WorkerInv
  <1> SUFFICES ASSUME Undisturbed PROVE Spec => []OutputsOnce
    OBVIOUS
  <1> QED  BY <1>1, WorkerInvInductive, PTL DEF Spec

\* A checkpoint passes no trigger whose outputs are not all durable, wherever the worker
\* crashes (ADR 0004, decision 3; shadow.py, _advance_checkpoint), and the history of
\* checkpoints never stops a rebuild.
THEOREM CheckpointsAreTrustworthy == Undisturbed /\ Spec => []CheckpointInv
  <1>1. WorkerInv => CheckpointInv
    BY DEF WorkerInv, IInv, ShadowInv, CheckpointInv, CheckpointMeansComplete
  <1> SUFFICES ASSUME Undisturbed PROVE Spec => []CheckpointInv
    OBVIOUS
  <1> QED  BY <1>1, WorkerInvInductive, PTL DEF Spec
=============================================================================
