------------------------ MODULE MCCheckpointedWorker ------------------------
\* TLC instances of CheckpointedWorker.
EXTENDS CheckpointedWorker

ShadowWorker ==
  [projects |-> FALSE, outputs |-> 2, triggers |-> 3, crashes |-> 2, failures |-> 0,
   late |-> 0, rotations |-> 1, liveDuringStart |-> FALSE]
\* One trigger, which nothing passes when an emission for it raises, and no restart, which
\* would answer it again under a new epoch; but the next checkpoint may regress.
LateShadowWorker ==
  [ShadowWorker EXCEPT !.triggers = 1, !.crashes = 0, !.late = 1, !.rotations = 2]
MemoryProjector ==
  [projects |-> TRUE, outputs |-> 1, triggers |-> 2, crashes |-> 2, failures |-> 1,
   late |-> 1, rotations |-> 0, liveDuringStart |-> TRUE]
MCWorkers == {ShadowWorker, LateShadowWorker, MemoryProjector}
=============================================================================
