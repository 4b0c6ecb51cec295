-------------------------- MODULE CheckpointedWorker --------------------------
(***************************************************************************)
(* A durable consumer of the canonical log: MemoryProjector                *)
(* (memory_worker.py) and ContinuousShadowWorker (shadow.py), which share  *)
(* the discipline of ADR 0004: derive the outputs of a trigger, write them *)
(* with deterministic ids, then write the checkpoint; after a restart      *)
(* replay what is past the checkpoint.                                     *)
(*                                                                         *)
(* Two tasks of the worker call _handle_event, under one lock: the bus     *)
(* task, fed by every emission, the worker's own included, and start(),    *)
(* which replays the history.  A log position is a sequence.  The kernel   *)
(* is the one of Kernel.tla seen from one process: it appends, then        *)
(* publishes, in log order.                                                *)
(*                                                                         *)
(* The workers differ in what they do with their own outputs and in what   *)
(* they derive from.  The projector (worker.projects) applies each event   *)
(* to a projection that answers a repeated event with no output, and       *)
(* checkpoints its own outputs too.  The shadow worker evaluates every     *)
(* trigger afresh from the history, skips its own events, and pins an      *)
(* evaluation epoch.                                                       *)
(***************************************************************************)
EXTENDS Naturals, Sequences, FiniteSets

\* A behaviour is of one of the Workers:
\*   projects         MemoryProjector, or the shadow worker
\*   outputs          outputs that a trigger entails
\*   triggers, crashes, failures, late, rotations
\*                    external events, process crashes, emissions that raise with
\*                    nothing appended, emissions that raise after their append, and
\*                    calls of rotate_epoch in a behaviour (bounds)
\*   liveDuringStart  whether events arrive, and epochs rotate, while start() runs
CONSTANTS Workers

ASSUME WorkerAssumption ==
  \A w \in Workers :
    /\ w.projects \in BOOLEAN /\ w.liveDuringStart \in BOOLEAN
    /\ w.outputs \in Nat \ {0}
    /\ {w.triggers, w.crashes, w.failures, w.late, w.rotations} \subseteq Nat

VARIABLES
  worker,     \* which of the Workers this is
  log,        \* the canonical log
  pc,         \* where start() is
  from,       \* start(): the head at first, then the cursor of the replay
  queue,      \* the subscription's queue: positions
  catchup,    \* what start() has left to replay: positions
  seen,       \* _processed_event_ids
  known,      \* events applied to the projection (worker.projects)
  checkpoint, \* _checkpoint
  epoch,      \* _epoch, a number
  job,        \* the holder of the lock
  spent       \* crashes, failures, late failures and rotations so far

vars == <<worker, log, pc, from, queue, catchup, seen, known, checkpoint, epoch, job, spent>>

\* about: the trigger of an output, the sequence that a checkpoint declares
\* complete; part: which output.
Entry(kind, about, part, e) ==
  [kind |-> kind, about |-> about, part |-> part, epoch |-> e]

Trigger == Entry("trigger", 0, 0, 0)
None == [completed |-> 0, at |-> 0]
Nobody == [by |-> "nobody", at |-> 0, next |-> 0]

Positions == 1..Len(log)
Triggers == {i \in Positions : log[i].kind = "trigger"}

TypeOK ==
  /\ \A i \in Positions :
       /\ log[i].kind \in {"trigger", "output", "epoch", "checkpoint"}
       /\ log[i].about \in 0..(i - 1) /\ log[i].part \in 0..worker.outputs
  /\ pc \in {"down", "subscribed", "opening", "restored", "running"}
  /\ from \in 0..Len(log)
  /\ \A i \in DOMAIN queue : queue[i] \in Positions
  /\ \A i \in DOMAIN catchup : catchup[i] \in Positions
  /\ seen \subseteq Positions /\ known \subseteq Positions
  /\ worker \in Workers
  /\ checkpoint.completed \in 0..Len(log) /\ checkpoint.at \in 0..Len(log)
  /\ epoch \in 0..Len(log)
  /\ job.by \in {"nobody", "bus", "start", "rotate"}
  /\ job.at \in 0..Len(log) /\ job.next \in 0..(worker.outputs + 1)
  /\ spent \in [crashes : 0..worker.crashes, failures : 0..worker.failures,
                late : 0..worker.late, rotations : 0..worker.rotations]

Init ==
  /\ worker \in Workers
  /\ log = <<>> /\ pc = "down" /\ from = 0
  /\ queue = <<>> /\ catchup = <<>>
  /\ seen = {} /\ known = {}
  /\ checkpoint = None /\ epoch = 0 /\ job = Nobody
  /\ spent = [crashes |-> 0, failures |-> 0, late |-> 0, rotations |-> 0]

-----------------------------------------------------------------------------
\* kernel.emit: append, and publish to the worker's own subscription.
Emit(entry) ==
  /\ log' = Append(log, entry)
  /\ queue' = IF pc = "down" THEN queue ELSE Append(queue, Len(log) + 1)

Starting == pc \in {"subscribed", "opening", "restored"} \/ catchup # <<>> \/ job.by = "start"

\* Somebody else emits an event that the worker must answer.
ExternalEvent ==
  /\ Cardinality(Triggers) < worker.triggers
  /\ worker.liveDuringStart \/ ~Starting
  /\ Emit(Trigger)
  /\ UNCHANGED <<worker, pc, from, catchup, seen, known, checkpoint, epoch, job, spent>>

-----------------------------------------------------------------------------
\* start().

Checkpoints == {i \in Positions : log[i].kind = "checkpoint"}

LastCheckpoint ==
  IF Checkpoints = {} THEN None
  ELSE LET i == CHOOSE i \in Checkpoints : \A j \in Checkpoints : j <= i
       IN [completed |-> log[i].about, at |-> i]

\* The records of the log never regress: the projection of checkpoints.py raises on one
\* that does, so that no start() gets past reading it.
Ordered ==
  \A i, j \in Checkpoints : i < j => log[i].about <= log[j].about

\* A start() that raises, on what it reads or in an emission of its own, withdraws its
\* subscription and leaves memory that the next one overwrites: that is a Crash.
Subscribe ==
  /\ pc = "down"
  /\ pc' = "subscribed" /\ from' = Len(log)
  /\ queue' = <<>> /\ catchup' = <<>>
  /\ UNCHANGED <<worker, log, seen, known, checkpoint, epoch, job, spent>>

Restored(e) ==
  /\ pc' = "restored"
  /\ checkpoint' = LastCheckpoint
  /\ from' = LastCheckpoint.completed
  /\ known' = IF worker.projects THEN 1..LastCheckpoint.at ELSE {}
  /\ epoch' = e

\* The history is read: the projection is rebuilt through the checkpoint's own
\* event, or the checkpointed epoch restored.  From here on _ready is set.
RestoreFromHistory ==
  /\ pc = "subscribed" /\ Ordered
  /\ IF worker.projects THEN Restored(0)
     ELSE /\ Checkpoints # {} /\ log[LastCheckpoint.at].epoch # 0
          /\ Restored(log[LastCheckpoint.at].epoch)
  /\ UNCHANGED <<worker, log, queue, catchup, seen, job, spent>>

\* First start of the shadow worker: it declares the head it saw complete ...
OpenCheckpoint ==
  /\ pc = "subscribed" /\ Ordered /\ ~worker.projects
  /\ Checkpoints = {}
  /\ Emit(Entry("checkpoint", from, 0, 0))
  /\ UNCHANGED <<worker, pc, from, catchup, seen, known, checkpoint, epoch, job, spent>>

\* ... persists a new epoch ...
OpenEpoch ==
  /\ pc = "subscribed" /\ Ordered /\ ~worker.projects
  /\ Checkpoints # {} /\ log[LastCheckpoint.at].epoch = 0
  /\ Emit(Entry("epoch", 0, 0, 0))
  /\ epoch' = Len(log) + 1 /\ pc' = "opening"
  /\ UNCHANGED <<worker, from, catchup, seen, known, checkpoint, job, spent>>

\* ... and a checkpoint that names it.
OpenEpochCheckpoint ==
  /\ pc = "opening"
  /\ Emit(Entry("checkpoint", LastCheckpoint.completed, 0, epoch))
  /\ pc' = "restored" /\ from' = LastCheckpoint.completed
  /\ checkpoint' = [completed |-> LastCheckpoint.completed, at |-> Len(log) + 1]
  /\ UNCHANGED <<worker, catchup, seen, known, epoch, job, spent>>

\* Faulty variant: the replay starts at the head.
ReplayFromHead ==
  /\ pc = "restored"
  /\ pc' = "running" /\ catchup' = <<>>
  /\ UNCHANGED <<worker, log, from, queue, seen, known, checkpoint, epoch, job, spent>>

ReplayFromCheckpoint ==
  /\ pc = "restored"
  /\ pc' = "running"
  /\ catchup' = [i \in 1..(Len(log) - from) |-> from + i]
  /\ UNCHANGED <<worker, log, from, queue, seen, known, checkpoint, epoch, job, spent>>

-----------------------------------------------------------------------------
\* _handle_event, by the bus task or by start().

\* What it drops under the lock: an id seen before, a checkpoint, the shadow
\* worker's own events, and whatever the checkpoint covers.
Dropped(i) ==
  \/ i \in seen
  \/ log[i].kind = "checkpoint"
  \/ ~worker.projects /\ log[i].kind \in {"output", "epoch"}
  \/ i <= checkpoint.completed

\* The outputs to write: none for what the projection has applied before.
FirstPart(i) ==
  IF log[i].kind = "trigger" /\ i \notin known THEN 1 ELSE worker.outputs + 1

Take(i, by) ==
  /\ job.by = "nobody"
  /\ seen' = seen \cup {i}
  /\ IF Dropped(i)
     THEN UNCHANGED <<known, job>>
     ELSE /\ job' = [by |-> by, at |-> i, next |-> FirstPart(i)]
          /\ known' = IF worker.projects THEN known \cup {i} ELSE known
  /\ UNCHANGED <<worker, log, pc, from, checkpoint, epoch, spent>>

BusTakes ==
  /\ pc \in {"restored", "running"}
  /\ queue # <<>>
  /\ queue' = Tail(queue) /\ UNCHANGED catchup
  /\ Take(Head(queue), "bus")

StartTakes ==
  /\ pc = "running"
  /\ catchup # <<>>
  /\ catchup' = Tail(catchup) /\ UNCHANGED queue
  /\ Take(Head(catchup), "start")

\* Faulty variant: an output gets a fresh id each time.
NeverWritten(i, part, e) == FALSE

\* The id of an output is a digest of its trigger, part and epoch.
Written(i, part, e) ==
  \E j \in Positions : log[j] = Entry("output", i, part, e)

WriteOutput ==
  /\ job.by \in {"bus", "start"} /\ job.next <= worker.outputs
  /\ IF Written(job.at, job.next, epoch)
     THEN UNCHANGED <<log, queue, known>>
     ELSE /\ Emit(Entry("output", job.at, job.next, epoch))
          /\ known' = IF worker.projects THEN known \cup {Len(log) + 1} ELSE known
  /\ job' = [job EXCEPT !.next = @ + 1]
  /\ UNCHANGED <<worker, pc, from, catchup, seen, checkpoint, epoch, spent>>

\* Faulty variant: the checkpoint does not wait for the outputs.
AdvanceCheckpointEarly ==
  /\ job.by \in {"bus", "start"}
  /\ Emit(Entry("checkpoint", job.at, 0, epoch))
  /\ checkpoint' = [completed |-> job.at, at |-> Len(log) + 1]
  /\ job' = Nobody
  /\ UNCHANGED <<worker, pc, from, catchup, seen, known, epoch, spent>>

AdvanceCheckpoint ==
  /\ job.by \in {"bus", "start"} /\ job.next = worker.outputs + 1
  /\ job.at >= checkpoint.completed
  /\ Emit(Entry("checkpoint", job.at, 0, epoch))
  /\ checkpoint' = [completed |-> job.at, at |-> Len(log) + 1]
  /\ job' = Nobody
  /\ UNCHANGED <<worker, pc, from, catchup, seen, known, epoch, spent>>

\* An emission of _handle_event or rotate_epoch raises.  The projector rebuilds through
\* the last checkpoint and forgets what it has seen; the shadow worker forgets the one
\* event and keeps its _checkpoint.  The bus task goes on with the next event; start()
\* gives up and unsubscribes (a bus task that waits for the lock at that moment is taken
\* to see it stopped).
Raised(published) ==
  /\ job' = Nobody
  /\ IF worker.projects
     THEN /\ checkpoint' = LastCheckpoint'
          /\ known' = 1..LastCheckpoint'.at
          /\ seen' = {}
     ELSE /\ seen' = seen \ {job.at}
          /\ UNCHANGED <<checkpoint, known>>
  /\ IF job.by = "start"
     THEN pc' = "down" /\ queue' = <<>> /\ catchup' = <<>>
     ELSE queue' = published /\ UNCHANGED <<pc, catchup>>
  /\ UNCHANGED <<worker, from, epoch>>

\* Before the append.
Fail ==
  /\ job.by # "nobody"
  /\ spent.failures < worker.failures
  /\ spent' = [spent EXCEPT !.failures = @ + 1]
  /\ UNCHANGED log
  /\ Raised(queue)

\* After it: the entry is in the log, and published or not.
RaisesLate(entry) ==
  /\ spent.late < worker.late
  /\ spent' = [spent EXCEPT !.late = @ + 1]
  /\ log' = Append(log, entry)
  /\ \E published \in {queue, Append(queue, Len(log) + 1)} : Raised(published)

FailLate ==
  \/ /\ job.by \in {"bus", "start"} /\ job.next <= worker.outputs
     /\ ~Written(job.at, job.next, epoch)
     /\ RaisesLate(Entry("output", job.at, job.next, epoch))
  \/ /\ job.by \in {"bus", "start"} /\ job.next = worker.outputs + 1
     /\ job.at >= checkpoint.completed
     /\ RaisesLate(Entry("checkpoint", job.at, 0, epoch))
  \/ /\ job.by = "rotate"
     /\ RaisesLate(Entry("checkpoint", checkpoint.completed, 0, epoch))

-----------------------------------------------------------------------------
\* rotate_epoch: under the lock, a new epoch and a checkpoint that names it.

RotateEpoch ==
  /\ ~worker.projects /\ pc \in {"restored", "running"} /\ job.by = "nobody"
  /\ worker.liveDuringStart \/ ~Starting
  /\ spent.rotations < worker.rotations
  /\ spent' = [spent EXCEPT !.rotations = @ + 1]
  /\ Emit(Entry("epoch", 0, 0, 0))
  /\ epoch' = Len(log) + 1
  /\ job' = [by |-> "rotate", at |-> 0, next |-> 0]
  /\ UNCHANGED <<worker, pc, from, catchup, seen, known, checkpoint>>

RotateCheckpoint ==
  /\ job.by = "rotate"
  /\ Emit(Entry("checkpoint", checkpoint.completed, 0, epoch))
  /\ checkpoint' = [checkpoint EXCEPT !.at = Len(log) + 1]
  /\ job' = Nobody
  /\ UNCHANGED <<worker, pc, from, catchup, seen, known, epoch, spent>>

\* The emission of the epoch raises after its append: no checkpoint names the epoch.
RotateFails ==
  /\ ~worker.projects /\ pc \in {"restored", "running"} /\ job.by = "nobody"
  /\ worker.liveDuringStart \/ ~Starting
  /\ spent.rotations < worker.rotations /\ spent.late < worker.late
  /\ spent' = [spent EXCEPT !.rotations = @ + 1, !.late = @ + 1]
  /\ log' = Append(log, Entry("epoch", 0, 0, 0))
  /\ queue' \in {queue, Append(queue, Len(log) + 1)}
  /\ UNCHANGED <<worker, pc, from, catchup, seen, known, checkpoint, epoch, job>>

\* The process dies; what is left is the log.
Crash ==
  /\ pc # "down"
  /\ spent.crashes < worker.crashes
  /\ spent' = [spent EXCEPT !.crashes = @ + 1]
  /\ pc' = "down" /\ from' = 0 /\ queue' = <<>> /\ catchup' = <<>>
  /\ seen' = {} /\ known' = {} /\ checkpoint' = None /\ epoch' = 0
  /\ job' = Nobody
  /\ UNCHANGED <<worker, log>>

start ==
  \/ Subscribe \/ RestoreFromHistory \/ ReplayFromCheckpoint
  \/ OpenCheckpoint \/ OpenEpoch \/ OpenEpochCheckpoint

_process_event == WriteOutput \/ AdvanceCheckpoint

Next ==
  \/ ExternalEvent
  \/ start
  \/ BusTakes \/ StartTakes \/ _process_event
  \/ RotateEpoch \/ RotateCheckpoint
  \/ Fail \/ FailLate \/ RotateFails \/ Crash

\* The event loop runs the worker's tasks, and a supervisor starts it again.
Fairness ==
  /\ WF_vars(start) /\ WF_vars(_process_event) /\ WF_vars(RotateCheckpoint)
  /\ WF_vars(BusTakes) /\ WF_vars(StartTakes)

Spec == Init /\ [][Next]_vars
FairSpec == Spec /\ Fairness

-----------------------------------------------------------------------------
\* Properties.

\* The sequence the consumer's first checkpoint declared complete: the shadow
\* worker answers what comes after it.
Base ==
  IF worker.projects \/ Checkpoints = {} THEN 0
  ELSE log[CHOOSE i \in Checkpoints : \A j \in Checkpoints : i <= j].about

Complete(i) ==
  \A part \in 1..worker.outputs :
    \E j \in Positions : /\ log[j].kind = "output"
                         /\ log[j].about = i /\ log[j].part = part

\* ADR 0004, decision 3: a checkpoint at n means that every required output of
\* every trigger up to n is durable, whatever crashed in between.  A shadow
\* worker keeps to it; a projector with a backlog does not.
CheckpointMeansComplete ==
  ~worker.projects =>
    \A i \in Triggers : Base < i /\ i <= LastCheckpoint.completed => Complete(i)

\* The consumer's memory keeps up with its log: the projector reads the log anew after
\* every failure, the shadow worker does not (shadow.py, _handle_event).
Told == worker.projects \/ spent.late = 0

\* ADR 0004, decision 5: the records of the log never regress, so the rebuilding
\* projection, which raises on a regression, always rebuilds.  A shadow worker loses
\* this once an emission raised after its append: it goes on from its old _checkpoint.
CheckpointsRebuild == Told => Ordered

\* A checkpoint can be trusted: it never passes an output that is missing, and no
\* history of checkpoints stops a rebuild (checkpoints.py).
CheckpointInv == TypeOK /\ CheckpointMeansComplete /\ CheckpointsRebuild

\* ADR 0004, decision 4: replay reuses durable outputs; no trigger is answered
\* twice, under one epoch or under two.
OutputsOnce ==
  \A i, j \in Positions :
    (/\ log[i].kind = "output" /\ log[j].kind = "output"
     /\ log[i].about = log[j].about /\ log[i].part = log[j].part) => i = j

\* The shadow worker whose emissions do not raise catches up: time and again every
\* trigger past its first checkpoint has all its outputs, wherever it crashed.
CatchesUp ==
  []<>(worker.projects \/ ~Told \/ \A i \in Triggers : Checkpoints # {} /\ Base < i => Complete(i))

\* ADR 0004, decision 4, of a projector that replays: what its projection holds
\* beyond the checkpoint has its outputs, or is the event being processed.
KnownIsAnswered ==
  \A i \in known \cap Triggers : Complete(i) \/ job.at = i
=============================================================================
