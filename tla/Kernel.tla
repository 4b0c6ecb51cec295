------------------------------- MODULE Kernel -------------------------------
(***************************************************************************)
(* NoemaKernel (kernel.py): runtimes that share one canonical log          *)
(* (deployment.py, distributed mode) and keep each a situation projected   *)
(* from it.  A kernel appends an event, then projects it and publishes it  *)
(* to its local bus; the events of the other runtimes come back to it      *)
(* through the broker, at least once and in any order, and its own as      *)
(* echoes.  What Delivery promises of an event with an outbox row is all   *)
(* this module knows of the transport: every kernel will be handed it.     *)
(*                                                                         *)
(* The log gives each event a sequence.  An insert takes its sequence      *)
(* before it commits, as PostgreSQL's BIGSERIAL does, so a reader may see  *)
(* a sequence before a smaller one.  A projection only ever runs in        *)
(* sequence order, so the set of the projected events stands for the       *)
(* situation.                                                              *)
(***************************************************************************)
EXTENDS Naturals, FiniteSets

CONSTANTS
  Kernels,       \* runtimes on one store
  Events,        \* event ids
  NoEvent,       \* no event: the kernel commits nothing
  Admissions,    \* events emitted on the condition of a head, emit_if_head
  Poison,        \* events that the projection raises on
  MaxSequence,   \* sequences the log may hand out (bound)
  MaxCrashes,    \* process crashes in a behaviour (bound)
  QuietStart     \* whether nothing is appended while a kernel starts

ASSUME KernelAssumption ==
  /\ NoEvent \notin Events
  /\ Admissions \subseteq Events
  /\ Poison \subseteq Events
  /\ MaxSequence \in Nat
  /\ MaxCrashes \in Nat
  /\ QuietStart \in BOOLEAN

VARIABLES
  sequence,    \* sequence of each event in the log, 0 while it is not there
  last,        \* the last sequence handed out
  predecessor, \* head that a conditional append asked for, or Unconditional
  kernel,      \* the state of each runtime
  ingested,    \* events whose delivery to a runtime is settled
  crashes

vars == <<sequence, last, predecessor, kernel, ingested, crashes>>

Unconditional == MaxSequence + 1

\* down; loaded: start() has rebuilt and not yet read the head; idle; inserting:
\* in the INSERT's transaction; appended: holding the stored event.
Kernel == [pc : {"down", "loaded", "idle", "inserting", "appended"},
           event : Events \cup {NoEvent},
           seq : 0..MaxSequence,        \* sequence of that event
           distribute : BOOLEAN,        \* emit, not ingest
           version : 0..MaxSequence,    \* situation.version
           situation : SUBSET Events,   \* events projected
           published : SUBSET Events,   \* events handed to the local bus
           startup : 0..MaxSequence,    \* _startup_sequence
           echoes : SUBSET Events]      \* _pending_broker_echoes

TypeOK ==
  /\ sequence \in [Events -> 0..MaxSequence]
  /\ last \in 0..MaxSequence
  /\ predecessor \in [Events -> 0..Unconditional]
  /\ kernel \in [Kernels -> Kernel]
  /\ ingested \in [Kernels -> SUBSET Events]
  /\ crashes \in 0..MaxCrashes

Down == [pc |-> "down", event |-> NoEvent, seq |-> 0, distribute |-> FALSE,
         version |-> 0, situation |-> {}, published |-> {}, startup |-> 0,
         echoes |-> {}]

Init ==
  /\ sequence = [e \in Events |-> 0]
  /\ last = 0
  /\ predecessor = [e \in Events |-> Unconditional]
  /\ kernel = [k \in Kernels |-> Down]
  /\ ingested = [k \in Kernels |-> {}]
  /\ crashes = 0

Log == {e \in Events : sequence[e] # 0}
MaxOf(S) == CHOOSE n \in S : \A m \in S : m <= n
Head == MaxOf({0} \cup {sequence[e] : e \in Events})

-----------------------------------------------------------------------------
\* The projection.

\* What a rebuild of the situation projects: the log, up to the first event
\* that raises.
Rebuilt(k) ==
  {e \in Log : \A p \in Poison \cap Log : sequence[e] < sequence[p]}

RebuildRaises == Poison \cap Log # {}

WithSituation(record, S) ==
  [record EXCEPT !.situation = S,
                 !.version = MaxOf({0} \cup {sequence[e] : e \in S})]

-----------------------------------------------------------------------------
\* start(): the history is read and projected, then the head is read.

\* Faulty variant: the kernel starts without replaying the history.
LoadNothing(k) ==
  /\ kernel[k].pc = "down"
  /\ QuietStart => \A j \in Kernels : kernel[j].pc # "inserting"
  /\ kernel' = [kernel EXCEPT ![k].pc = "loaded"]
  /\ UNCHANGED <<sequence, last, predecessor, ingested, crashes>>

LoadHistory(k) ==
  /\ kernel[k].pc = "down"
  /\ QuietStart => \A j \in Kernels : kernel[j].pc # "inserting"
  /\ ~RebuildRaises
  /\ kernel' = [kernel EXCEPT ![k] =
                  [WithSituation(@, Rebuilt(k)) EXCEPT !.pc = "loaded"]]
  /\ UNCHANGED <<sequence, last, predecessor, ingested, crashes>>

ReadHead(k) ==
  /\ kernel[k].pc = "loaded"
  /\ kernel' = [kernel EXCEPT ![k].pc = "idle", ![k].startup = Head]
  /\ UNCHANGED <<sequence, last, predecessor, ingested, crashes>>

-----------------------------------------------------------------------------
\* _commit, up to the append.

Holding(k, e, distribute, s, pc) ==
  kernel' = [kernel EXCEPT ![k] =
               [@ EXCEPT !.pc = pc, !.event = e, !.seq = s,
                         !.distribute = distribute]]

InFlight(e) == \E j \in Kernels : kernel[j].pc = "inserting" /\ kernel[j].event = e

\* The stored event is handed back when its id is already in the log.
emit(k, e) ==
  /\ kernel[k].pc = "idle"
  /\ e \notin Admissions
  /\ ~InFlight(e)
  /\ IF e \in Log
     THEN Holding(k, e, TRUE, sequence[e], "appended") /\ UNCHANGED last
     ELSE /\ last < MaxSequence
          /\ QuietStart => \A j \in Kernels : kernel[j].pc # "loaded"
          /\ last' = last + 1
          /\ Holding(k, e, TRUE, last + 1, "inserting")
  /\ UNCHANGED <<sequence, predecessor, ingested, crashes>>

\* Faulty variant: the head is compared without the table lock.
HeadIsSnapshot(head) == head = Head

\* The table lock waits for the inserts in flight; then the head is compared.
HeadIs(head) ==
  /\ head = Head
  /\ \A j \in Kernels : kernel[j].pc # "inserting"

\* An emission of what the caller decided at head.  Under the table lock it
\* takes its sequence and commits in one step; an id already in the log is
\* handed back, whatever the head.
emit_if_head(k, e, head) ==
  /\ kernel[k].pc = "idle"
  /\ e \in Admissions
  /\ \/ /\ e \in Log
        /\ Holding(k, e, TRUE, sequence[e], "appended")
        /\ UNCHANGED <<sequence, last, predecessor>>
     \/ /\ e \notin Log
        /\ HeadIs(head)
        /\ last < MaxSequence
        /\ QuietStart => \A j \in Kernels : kernel[j].pc # "loaded"
        /\ last' = last + 1
        /\ sequence' = [sequence EXCEPT ![e] = last + 1]
        /\ predecessor' = [predecessor EXCEPT ![e] = head]
        /\ Holding(k, e, TRUE, last + 1, "appended")
  /\ UNCHANGED <<ingested, crashes>>

\* The broker hands an event of the log to the runtime's consumer: a foreign
\* one, an echo, or either of them once more.
ingest(k, e) ==
  /\ kernel[k].pc = "idle"
  /\ e \in Log
  /\ Holding(k, e, FALSE, sequence[e], "appended")
  /\ UNCHANGED <<sequence, last, predecessor, ingested, crashes>>

CommitInsert(k) ==
  /\ kernel[k].pc = "inserting"
  /\ sequence' = [sequence EXCEPT ![kernel[k].event] = kernel[k].seq]
  /\ kernel' = [kernel EXCEPT ![k].pc = "appended"]
  /\ UNCHANGED <<last, predecessor, ingested, crashes>>

-----------------------------------------------------------------------------
\* _commit, after the append: the branches in the order of the code.  Each one
\* ends the call; a settled delivery is one whose ingest returned.

Ends(k, record, returns) ==
  /\ kernel' = [kernel EXCEPT ![k] =
                  [record EXCEPT !.pc = "idle", !.event = NoEvent, !.seq = 0,
                                 !.distribute = FALSE]]
  /\ ingested' = IF returns /\ ~kernel[k].distribute
                 THEN [ingested EXCEPT ![k] = @ \cup {kernel[k].event}]
                 ELSE ingested
  /\ UNCHANGED <<sequence, last, predecessor, crashes>>

Projected(k) == kernel[k].seq <= kernel[k].version

EmittedAgain(k) ==
  /\ kernel[k].pc = "appended" /\ Projected(k)
  /\ kernel[k].distribute
  /\ Ends(k, kernel[k], TRUE)

EchoReturns(k) ==
  /\ kernel[k].pc = "appended" /\ Projected(k)
  /\ ~kernel[k].distribute
  /\ kernel[k].event \in kernel[k].echoes
  /\ Ends(k, [kernel[k] EXCEPT !.echoes = @ \ {kernel[k].event}], TRUE)

HistoryReturns(k) ==
  /\ kernel[k].pc = "appended" /\ Projected(k)
  /\ ~kernel[k].distribute
  /\ kernel[k].event \notin kernel[k].echoes
  /\ kernel[k].seq <= kernel[k].startup
  /\ Ends(k, kernel[k], TRUE)

\* Faulty variant: the late event is published and the rebuild forgotten.
LateArrivalUnprojected(k) ==
  /\ kernel[k].pc = "appended" /\ Projected(k)
  /\ ~kernel[k].distribute
  /\ kernel[k].event \notin kernel[k].echoes
  /\ kernel[k].seq > kernel[k].startup
  /\ Ends(k, [kernel[k] EXCEPT !.published = @ \cup {kernel[k].event}], TRUE)

LateArrival(k) ==
  /\ kernel[k].pc = "appended" /\ Projected(k)
  /\ ~kernel[k].distribute
  /\ kernel[k].event \notin kernel[k].echoes
  /\ kernel[k].seq > kernel[k].startup
  /\ LET rebuilt == WithSituation(kernel[k], Rebuilt(k)) IN
     IF RebuildRaises
     THEN Ends(k, rebuilt, FALSE)
     ELSE Ends(k, [rebuilt EXCEPT !.published = @ \cup {kernel[k].event}], TRUE)

Project(k) ==
  /\ kernel[k].pc = "appended" /\ ~Projected(k)
  /\ LET e == kernel[k].event IN
     IF e \in Poison
     THEN Ends(k, kernel[k], FALSE)
     ELSE Ends(k, [kernel[k] EXCEPT
                     !.situation = @ \cup {e},
                     !.version = kernel[k].seq,
                     !.published = @ \cup {e},
                     !.echoes = IF kernel[k].distribute THEN @ \cup {e} ELSE @],
               TRUE)

-----------------------------------------------------------------------------
\* The process dies: its insert is rolled back, its memory is gone.
Crash(k) ==
  /\ kernel[k].pc # "down"
  /\ crashes < MaxCrashes
  /\ crashes' = crashes + 1
  /\ kernel' = [kernel EXCEPT ![k] = Down]
  /\ UNCHANGED <<sequence, last, predecessor, ingested>>

Finish(k) ==
  \/ CommitInsert(k)
  \/ EmittedAgain(k) \/ EchoReturns(k) \/ HistoryReturns(k)
  \/ LateArrival(k) \/ Project(k)

Next ==
  \E k \in Kernels :
    \/ LoadHistory(k) \/ ReadHead(k) \/ Finish(k) \/ Crash(k)
    \/ \E e \in Events : emit(k, e) \/ ingest(k, e)
    \/ \E e \in Events, head \in 0..MaxSequence : emit_if_head(k, e, head)

\* A call under way runs on, a kernel that is down is started again, and the
\* broker hands over what is not settled.  A delivery waits for the emit lock,
\* which asyncio grants in the order it is asked for, so emissions cannot keep
\* it out: strong fairness.
Fairness ==
  \A k \in Kernels :
    /\ WF_vars(LoadHistory(k)) /\ WF_vars(ReadHead(k)) /\ WF_vars(Finish(k))
    /\ \A e \in Events : SF_vars(e \notin ingested[k] /\ ingest(k, e))

Spec == Init /\ [][Next]_vars
FairSpec == Spec /\ Fairness

-----------------------------------------------------------------------------
\* Properties.

Running(k) == kernel[k].pc \notin {"down", "loaded"}

\* An event that a rebuild no longer reaches: the log holds, before it, an event
\* that the projection raises on.
BehindPoison(e) == \E p \in Poison \cap Log : sequence[p] < sequence[e]

\* A delivery that a kernel settled is in its situation, whatever the order the
\* events came in and wherever its start fell between them; only a rebuild that
\* raised, for a late arrival, may have cost it the events behind the one it
\* raised on.  The skip of kernel.py:151-153 ("history already rebuilt at start")
\* depends on it.
SettledIsProjected ==
  \A k \in Kernels : Running(k) => \A e \in ingested[k] \ kernel[k].situation : BehindPoison(e)

\* What an agent hears on the local bus it finds in the situation: events are
\* projected before they are published, and a rebuild that raised loses only what
\* is behind the event it raised on.
PublishedIsProjected ==
  \A k \in Kernels : \A e \in kernel[k].published \ kernel[k].situation : BehindPoison(e)

\* The situation of a running kernel lacks nothing that the kernel has settled
\* with the broker or told its subscribers (kernel.py:_commit).
ProjectionInv == TypeOK /\ SettledIsProjected /\ PublishedIsProjected

\* An event admitted at head H has nothing between H and itself, in the log as
\* everyone will ever read it (ARCHITECTURE_PRINCIPLES: causal admission is
\* atomic).
AdmissionIsAtomic ==
  \A e, f \in Log :
    predecessor[e] # Unconditional =>
      ~(predecessor[e] < sequence[f] /\ sequence[f] < sequence[e])

\* Every runtime ends up with the whole log: whatever crashed, the situations of
\* all the kernels converge to it.
Convergence ==
  \A e \in Events : e \in Log ~> [](\A k \in Kernels : e \in kernel[k].situation)

\* ROADMAP, "recoverability": replay reconstructs the same semantic state.  What
\* a running kernel knows is what a rebuild from the log would give it.  An
\* event that the projection raises on is in the log already (_commit appends
\* first), so the rebuild stops there while the running kernel went on.
ReplayReconstructs ==
  \A k \in Kernels : Running(k) => kernel[k].situation \subseteq Rebuilt(k)

\* What the code does give: no situation holds an event that the projection
\* raises on, and all that it holds and a rebuild would not give lies behind one
\* in the log, so the first event that raises is where replay and memory part.
ReplayStopsAtPoison ==
  \A k \in Kernels :
    /\ kernel[k].situation \subseteq Log \ Poison
    /\ \A e \in kernel[k].situation \ Rebuilt(k) : BehindPoison(e)
=============================================================================
