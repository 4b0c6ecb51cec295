----------------------------- MODULE KernelProofs -----------------------------
(***************************************************************************)
(* The kernels on one log, proved for every number of kernels, events and  *)
(* crashes: a conditional admission is atomic; what a kernel knows and a   *)
(* rebuild would not give it lies behind an event that the projection      *)
(* raises on; if nothing is appended while a kernel starts, what a kernel  *)
(* has settled is in its situation, again but for what lies behind one.    *)
(*                                                                         *)
(* The argument.  LogInv: sequences are unique, those of the inserts in    *)
(* flight included, and a kernel that holds a stored event holds its       *)
(* sequence.  AdmissionInv adds the inserts in flight to AdmissionIsAtomic *)
(* since one that took its sequence before an admission could land under   *)
(* it.  SituationInv: a situation is of the log, holds no event that the   *)
(* projection raises on, and has the echoes that are expected and all that *)
(* was published, but for what lies behind such an event.  StartInv: what  *)
(* lies at or below the head read at the start is in the situation, and no *)
(* insert in flight will land there.  No theorem assumes that the          *)
(* projection never raises.                                                *)
(***************************************************************************)
EXTENDS Kernel, FiniteSetTheorems, TLAPS

Inserting(k) == kernel[k].pc = "inserting"

\* Sequences are unique, and each kernel knows the one of the event it holds.
LogInv ==
  /\ \A e \in Events : sequence[e] <= last
  /\ \A e, f \in Log : sequence[e] = sequence[f] => e = f
  /\ \A k \in Kernels : kernel[k].pc \in {"inserting", "appended"} =>
       /\ kernel[k].event \in Events
       /\ kernel[k].seq # 0 /\ kernel[k].seq <= last
  /\ \A k \in Kernels : Inserting(k) =>
       /\ kernel[k].event \notin Log
       /\ \A e \in Log : sequence[e] # kernel[k].seq
       /\ \A j \in Kernels \ {k} : Inserting(j) =>
            kernel[j].seq # kernel[k].seq /\ kernel[j].event # kernel[k].event
  /\ \A k \in Kernels : kernel[k].pc = "appended" =>
       kernel[k].event \in Log /\ kernel[k].seq = sequence[kernel[k].event]

\* Nothing lies between an admission and its head, nor will an insert in flight.
Between(e, n) == predecessor[e] < n /\ n < sequence[e]

AdmissionInv ==
  /\ \A e \in Events : e \notin Log => predecessor[e] = Unconditional
  /\ \A e \in Log : predecessor[e] # Unconditional =>
       /\ \A f \in Log : ~Between(e, sequence[f])
       /\ \A k \in Kernels : Inserting(k) => ~Between(e, kernel[k].seq)

\* A situation is of the log, and has what was published and what is expected
\* back, but for what lies behind an event that the projection raises on.
SituationInv ==
  \A k \in Kernels :
    /\ kernel[k].situation \subseteq Log \ Poison
    /\ kernel[k].published \cup kernel[k].echoes \subseteq Log \ Poison
    /\ \A e \in (kernel[k].published \cup kernel[k].echoes) \ kernel[k].situation : BehindPoison(e)
    /\ ingested[k] \subseteq Log

\* The start leaves nothing out that was settled, or that will count as history.
StartInv ==
  \A k \in Kernels :
    /\ kernel[k].pc = "loaded" =>
         kernel[k].situation = Log /\ \A j \in Kernels : ~Inserting(j)
    /\ kernel[k].pc # "down" =>
         \A e \in ingested[k] \ kernel[k].situation : BehindPoison(e)
    /\ Running(k) =>
         /\ kernel[k].startup <= last
         /\ \A e \in Log : sequence[e] <= kernel[k].startup => e \in kernel[k].situation
         /\ \A j \in Kernels : Inserting(j) => kernel[j].seq > kernel[k].startup

IInv == TypeOK /\ LogInv /\ AdmissionInv
ProjectionIInv == IInv /\ SituationInv
QuietIInv == ProjectionIInv /\ StartInv

-----------------------------------------------------------------------------
\* The maximum of a bounded set of naturals: of the sets of the numbers above one
\* of its members, the smallest belongs to the maximum.
LEMMA MaxIsGreatest ==
  ASSUME NEW S \in SUBSET Nat, S # {}, NEW n \in Nat, \A s \in S : s <= n
  PROVE  MaxOf(S) \in S /\ \A m \in S : m <= MaxOf(S)
<1> DEFINE Above(s) == {m \in 0..n : m > s}
           Family == {Above(s) : s \in S}
<1>1. Family \subseteq FiniteSubsetsOf(0..n)
  <2>1. IsFiniteSet(0..n)
    BY FS_Interval
  <2>2. \A s \in S : Above(s) \in SUBSET (0..n)
    OBVIOUS
  <2>3. \A s \in S : IsFiniteSet(Above(s))
    BY <2>1, <2>2, FS_Subset
  <2> QED BY <2>2, <2>3 DEF FiniteSubsetsOf
<1>2. PICK T \in Family : \A U \in Family : ~(<<U, T>> \in StrictSubsetOrdering(0..n))
  <2>1. IsWellFoundedOn(StrictSubsetOrdering(0..n), FiniteSubsetsOf(0..n))
    BY FS_StrictSubsetOrderingWellFounded
  <2>2. Family # {}
    OBVIOUS
  <2> HIDE DEF Family
  <2> QED BY <1>1, <2>1, <2>2, WFMin
<1>3. PICK s \in S : T = Above(s)
  OBVIOUS
<1>4. \A m \in S : m <= s
  <2>1. SUFFICES ASSUME NEW m \in S, m > s PROVE FALSE
    OBVIOUS
  <2>2. Above(m) \subseteq Above(s) /\ m \in Above(s) /\ m \notin Above(m)
    BY <2>1
  <2>3. <<Above(m), Above(s)>> \in StrictSubsetOrdering(0..n)
    <3>1. Above(m) \in SUBSET (0..n) /\ Above(s) \in SUBSET (0..n)
      OBVIOUS
    <3>2. Above(m) # Above(s)
      BY <2>2
    <3> HIDE DEF Above
    <3> QED BY <2>2, <3>1, <3>2 DEF StrictSubsetOrdering
  <2> QED BY <1>2, <1>3, <2>3
<1> QED BY <1>4 DEF MaxOf

LEMMA HeadFacts ==
  ASSUME TypeOK
  PROVE  /\ Head \in 0..MaxSequence /\ Head \in {0} \cup {sequence[e] : e \in Events}
         /\ \A e \in Events : sequence[e] <= Head
<1> DEFINE S == {0} \cup {sequence[e] : e \in Events}
<1>1. S \in SUBSET Nat /\ S # {} /\ \A s \in S : s <= MaxSequence
  BY KernelAssumption DEF TypeOK
<1>2. MaxOf(S) \in S /\ \A m \in S : m <= MaxOf(S)
  <2> HIDE DEF S
  <2> QED BY <1>1, MaxIsGreatest, KernelAssumption
<1>3. Head = MaxOf(S)
  BY DEF Head
<1>4. MaxOf(S) \in 0..MaxSequence
  BY <1>1, <1>2, KernelAssumption
<1>5. \A e \in Events : sequence[e] \in S
  OBVIOUS
<1> HIDE DEF S
<1>6. Head \in S /\ \A e \in Events : sequence[e] <= Head
  BY <1>2, <1>3, <1>5
<1> QED BY <1>3, <1>4, <1>6 DEF S

\* A rebuilt record differs in its situation and its version.
LEMMA RebuiltFacts ==
  ASSUME TypeOK, NEW r \in Kernel, NEW S \in SUBSET Events
  PROVE  \E v \in 0..MaxSequence :
           WithSituation(r, S) = [r EXCEPT !.situation = S, !.version = v]
<1> DEFINE V == {0} \cup {sequence[e] : e \in S}
<1>1. V \in SUBSET Nat /\ V # {} /\ \A s \in V : s <= MaxSequence
  BY KernelAssumption DEF TypeOK
<1>2. MaxOf(V) \in V
  <2> HIDE DEF V
  <2> QED BY <1>1, MaxIsGreatest, KernelAssumption
<1>3. MaxOf(V) \in 0..MaxSequence
  BY <1>1, <1>2
<1>4. WithSituation(r, S) = [r EXCEPT !.situation = S, !.version = MaxOf(V)]
  BY DEF WithSituation
<1> HIDE DEF V
<1> QED BY <1>3, <1>4

\* A log keeps its events: an insert adds one, or nothing is added.
LEMMA LogFacts ==
  ASSUME TypeOK, NEW e \in Events, NEW n \in 1..MaxSequence,
         sequence' = [sequence EXCEPT ![e] = n]
  PROVE  Log' = Log \cup {e} /\ \A f \in Events \ {e} : sequence'[f] = sequence[f]
BY KernelAssumption DEF TypeOK, Log

LEMMA LogKept == sequence' = sequence => Log' = Log
BY DEF Log

-----------------------------------------------------------------------------
\* The kinds of steps.  Kernel k becomes r:
Becomes(k, r) == r \in Kernel /\ kernel' = [kernel EXCEPT ![k] = r]

Appended == <<sequence, last, predecessor>>

\* it goes down or comes up, or is done with the event it holds;
Rests(k) ==
  \E r : /\ Becomes(k, r) /\ r.pc \in {"down", "loaded", "idle"}
         /\ ingested' \in [Kernels -> SUBSET Events]
         /\ crashes' \in 0..MaxCrashes
         /\ UNCHANGED Appended

\* it was idle, and is handed the event e with sequence n;
Holds(k, e, n, pc) ==
  \E r : /\ Becomes(k, r) /\ r.pc = pc /\ r.event = e /\ r.seq = n
         /\ kernel[k].pc = "idle"
         /\ r.startup = kernel[k].startup
         /\ r.situation = kernel[k].situation /\ r.published = kernel[k].published
         /\ r.echoes = kernel[k].echoes
         /\ UNCHANGED <<ingested, crashes>>

Receives(k) ==
  \E e \in Log : Holds(k, e, sequence[e], "appended") /\ UNCHANGED Appended

\* its insert takes a sequence;
Inserts(k) ==
  \E e \in Events \ Log :
    /\ ~InFlight(e)
    /\ last < MaxSequence /\ last' = last + 1
    /\ QuietStart => \A j \in Kernels : kernel[j].pc # "loaded"
    /\ Holds(k, e, last + 1, "inserting")
    /\ UNCHANGED <<sequence, predecessor>>

\* it admits an event on a head.
Admits(k) ==
  \E e \in Events \ Log, head \in 0..MaxSequence :
    /\ HeadIs(head)
    /\ last < MaxSequence /\ last' = last + 1
    /\ QuietStart => \A j \in Kernels : kernel[j].pc # "loaded"
    /\ sequence' = [sequence EXCEPT ![e] = last + 1]
    /\ predecessor' = [predecessor EXCEPT ![e] = head]
    /\ Holds(k, e, last + 1, "appended")

LEMMA HoldingFacts ==
  ASSUME TypeOK, NEW k \in Kernels, NEW e \in Events, NEW d \in BOOLEAN,
         NEW n \in 0..MaxSequence, NEW pc \in {"inserting", "appended"},
         Holding(k, e, d, n, pc), kernel[k].pc = "idle", UNCHANGED <<ingested, crashes>>
  PROVE  Holds(k, e, n, pc)
<1> DEFINE r == [kernel[k] EXCEPT !.pc = pc, !.event = e, !.seq = n, !.distribute = d]
<1>1. kernel[k] \in Kernel
  BY DEF TypeOK
<1>2. \A q \in Kernel :
        /\ [q EXCEPT !.pc = pc] \in Kernel /\ [q EXCEPT !.event = e] \in Kernel
        /\ [q EXCEPT !.distribute = d] \in Kernel
  BY DEF Kernel
<1>3. \A q \in Kernel : [q EXCEPT !.seq = n] \in Kernel
  BY DEF Kernel
<1>4. r \in Kernel
  BY <1>1, <1>2, <1>3
<1>5. /\ r.pc = pc /\ r.event = e /\ r.seq = n /\ r.startup = kernel[k].startup
      /\ r.situation = kernel[k].situation /\ r.published = kernel[k].published
      /\ r.echoes = kernel[k].echoes
  BY <1>1 DEF Kernel
<1>6. kernel' = [kernel EXCEPT ![k] = r]
  BY DEF Holding
<1> HIDE DEF r
<1> QED BY <1>4, <1>5, <1>6 DEF Holds, Becomes

LEMMA LoadHistoryFacts ==
  ASSUME TypeOK, NEW k \in Kernels, LoadHistory(k)
  PROVE  /\ Rests(k) /\ kernel[k].pc = "down" /\ ~RebuildRaises
         /\ QuietStart => \A j \in Kernels : ~Inserting(j)
         /\ UNCHANGED ingested
         /\ kernel'[k].pc = "loaded" /\ kernel'[k].situation = Rebuilt(k)
         /\ kernel'[k].published = kernel[k].published
         /\ kernel'[k].echoes = kernel[k].echoes
         /\ \A j \in Kernels \ {k} : kernel'[j] = kernel[j]
<1> DEFINE w == WithSituation(kernel[k], Rebuilt(k))
           r == [w EXCEPT !.pc = "loaded"]
<1>1. kernel[k] \in Kernel /\ Rebuilt(k) \in SUBSET Events
  BY DEF TypeOK, Rebuilt, Log
<1>2. PICK v \in 0..MaxSequence : w = [kernel[k] EXCEPT !.situation = Rebuilt(k), !.version = v]
  BY <1>1, RebuiltFacts
<1>3. /\ w \in Kernel /\ w.situation = Rebuilt(k) /\ w.published = kernel[k].published
      /\ w.echoes = kernel[k].echoes
  <2> HIDE DEF w
  <2> QED BY <1>1, <1>2 DEF Kernel
<1> HIDE DEF w
<1>4. /\ r \in Kernel /\ r.pc = "loaded" /\ r.situation = w.situation
      /\ r.published = w.published /\ r.echoes = w.echoes
  BY <1>3 DEF Kernel
<1>5. kernel' = [kernel EXCEPT ![k] = r]
  BY DEF LoadHistory, w
<1> HIDE DEF r
<1>6. kernel'[k] = r /\ \A j \in Kernels \ {k} : kernel'[j] = kernel[j]
  BY <1>5 DEF TypeOK
<1>7. Rests(k)
  BY <1>4, <1>5 DEF LoadHistory, Rests, Becomes, TypeOK, Appended
<1> QED BY <1>3, <1>4, <1>6, <1>7 DEF LoadHistory, Inserting

LEMMA ReadHeadFacts ==
  ASSUME TypeOK, NEW k \in Kernels, ReadHead(k)
  PROVE  /\ Rests(k) /\ kernel[k].pc = "loaded"
         /\ UNCHANGED ingested
         /\ kernel'[k].pc = "idle" /\ kernel'[k].startup = Head
         /\ kernel'[k].situation = kernel[k].situation
         /\ kernel'[k].published = kernel[k].published
         /\ kernel'[k].echoes = kernel[k].echoes
         /\ \A j \in Kernels \ {k} : kernel'[j] = kernel[j]
<1> DEFINE r == [kernel[k] EXCEPT !.pc = "idle", !.startup = Head]
<1>1. kernel[k] \in Kernel /\ Head \in 0..MaxSequence
  BY HeadFacts DEF TypeOK
<1>2. /\ r \in Kernel /\ r.pc = "idle" /\ r.startup = Head
      /\ r.situation = kernel[k].situation
      /\ r.published = kernel[k].published /\ r.echoes = kernel[k].echoes
  BY <1>1 DEF Kernel
<1>3. kernel' = [kernel EXCEPT ![k] = r]
  BY DEF ReadHead
<1> HIDE DEF r
<1> QED BY <1>2, <1>3 DEF ReadHead, Rests, Becomes, TypeOK, Appended

LEMMA CrashFacts ==
  ASSUME TypeOK, NEW k \in Kernels, Crash(k)
  PROVE  Rests(k) /\ UNCHANGED ingested /\ kernel' = [kernel EXCEPT ![k] = Down]
<1>1. Down \in Kernel /\ Down.pc = "down"
  BY KernelAssumption DEF Down, Kernel
<1>2. crashes' \in 0..MaxCrashes
  BY KernelAssumption DEF Crash, TypeOK
<1> QED BY <1>1, <1>2 DEF Crash, Rests, Becomes, TypeOK, Appended

\* The call of k ends: _commit returns or raises.
Finished(k) ==
  LET was == kernel[k]
      is == kernel'[k]
  IN /\ was.pc = "appended" /\ Rests(k)
     /\ is.pc = "idle" /\ is.startup = was.startup
     /\ \A j \in Kernels \ {k} : kernel'[j] = kernel[j]
     /\ ingested' \in {ingested, [ingested EXCEPT ![k] = @ \cup {was.event}]}

\* It was known: nothing is projected.
Knew(k) ==
  LET was == kernel[k]
      is == kernel'[k]
  IN /\ is.situation = was.situation /\ is.published = was.published
     /\ is.echoes \subseteq was.echoes
     /\ ingested' # ingested => was.event \in was.echoes \/ was.seq <= was.startup

\* It came late: the situation is rebuilt.
Rebuilds(k) ==
  LET was == kernel[k]
      is == kernel'[k]
  IN /\ is.situation = Rebuilt(k) /\ is.echoes = was.echoes
     /\ is.published \subseteq was.published \cup {was.event}
     /\ RebuildRaises => is.published = was.published /\ ingested' = ingested

\* It is new: it is projected.
Projects(k) ==
  LET was == kernel[k]
      is == kernel'[k]
  IN /\ was.event \notin Poison
     /\ is.situation = was.situation \cup {was.event}
     /\ is.published = was.published \cup {was.event}
     /\ is.echoes \subseteq was.echoes \cup {was.event}

LEMMA EndsFacts ==
  ASSUME TypeOK, NEW k \in Kernels, kernel[k].event \in Events, kernel[k].pc = "appended",
         NEW r \in Kernel, r.startup = kernel[k].startup,
         NEW returns \in BOOLEAN, Ends(k, r, returns)
  PROVE  /\ Finished(k)
         /\ kernel'[k].situation = r.situation /\ kernel'[k].published = r.published
         /\ kernel'[k].echoes = r.echoes
         /\ ~returns => ingested' = ingested
<1> DEFINE is == [r EXCEPT !.pc = "idle", !.event = NoEvent, !.seq = 0, !.distribute = FALSE]
<1>1. /\ is.pc = "idle" /\ is.startup = r.startup
      /\ is.situation = r.situation /\ is.published = r.published /\ is.echoes = r.echoes
  BY DEF Kernel
<1>0. is \in Kernel
  <2>1. \A q \in Kernel :
          /\ [q EXCEPT !.pc = "idle"] \in Kernel
          /\ [q EXCEPT !.event = NoEvent] \in Kernel
          /\ [q EXCEPT !.distribute = FALSE] \in Kernel
    BY DEF Kernel
  <2>2. \A q \in Kernel : [q EXCEPT !.seq = 0] \in Kernel
    BY KernelAssumption DEF Kernel
  <2> QED BY <2>1, <2>2
<1>2. kernel' = [kernel EXCEPT ![k] = is]
  BY DEF Ends
<1> HIDE DEF is
<1>3. kernel'[k] = is /\ \A j \in Kernels \ {k} : kernel'[j] = kernel[j]
  BY <1>2 DEF TypeOK
<1>4. ingested' \in {ingested, [ingested EXCEPT ![k] = @ \cup {kernel[k].event}]}
  BY DEF Ends
<1>5. ingested' \in [Kernels -> SUBSET Events]
  BY <1>4 DEF TypeOK
<1>6. Becomes(k, is) /\ crashes' \in 0..MaxCrashes /\ UNCHANGED Appended
  BY <1>0, <1>2 DEF Ends, Becomes, Appended, TypeOK
<1>7. Rests(k)
  BY <1>1, <1>5, <1>6 DEF Rests
<1>8. ~returns => ingested' = ingested
  BY DEF Ends
<1> QED BY <1>1, <1>3, <1>4, <1>7, <1>8 DEF Finished

LEMMA FinishFacts ==
  ASSUME TypeOK, LogInv, NEW k \in Kernels, Finish(k)
  PROVE  \/ CommitInsert(k)
         \/ Finished(k) /\ (Knew(k) \/ Rebuilds(k) \/ Projects(k))
<1>1. kernel[k] \in Kernel /\ Rebuilt(k) \in SUBSET Events
  BY DEF TypeOK, Rebuilt, Log
<1>2. kernel[k].pc = "appended" => kernel[k].event \in Events
  BY DEF LogInv
<1>3. CASE EmittedAgain(k)
  <2>1. Ends(k, kernel[k], TRUE) /\ kernel[k].pc = "appended" /\ kernel[k].distribute
    BY <1>3 DEF EmittedAgain
  <2>2. ingested' = ingested
    BY <2>1 DEF Ends
  <2> QED BY <1>1, <1>2, <2>1, <2>2, EndsFacts DEF Knew
<1>4. CASE EchoReturns(k)
  <2> DEFINE r == [kernel[k] EXCEPT !.echoes = @ \ {kernel[k].event}]
  <2>1. /\ r \in Kernel /\ r.startup = kernel[k].startup /\ r.situation = kernel[k].situation
        /\ r.published = kernel[k].published /\ r.echoes = kernel[k].echoes \ {kernel[k].event}
    BY <1>1 DEF Kernel
  <2>2. /\ Ends(k, r, TRUE) /\ kernel[k].pc = "appended"
        /\ kernel[k].event \in kernel[k].echoes
    BY <1>4 DEF EchoReturns
  <2> HIDE DEF r
  <2> QED BY <1>2, <2>1, <2>2, EndsFacts DEF Knew
<1>5. CASE HistoryReturns(k)
  <2>1. /\ Ends(k, kernel[k], TRUE) /\ kernel[k].pc = "appended"
        /\ kernel[k].seq <= kernel[k].startup
    BY <1>5 DEF HistoryReturns
  <2> QED BY <1>1, <1>2, <2>1, EndsFacts DEF Knew
<1>6. CASE LateArrival(k)
  <2> DEFINE r == WithSituation(kernel[k], Rebuilt(k))
             p == [r EXCEPT !.published = @ \cup {kernel[k].event}]
  <2>1. kernel[k].pc = "appended"
    BY <1>6 DEF LateArrival
  <2>2. PICK v \in 0..MaxSequence : r = [kernel[k] EXCEPT !.situation = Rebuilt(k), !.version = v]
    BY <1>1, RebuiltFacts
  <2>3. /\ r \in Kernel /\ r.startup = kernel[k].startup /\ r.situation = Rebuilt(k)
        /\ r.published = kernel[k].published /\ r.echoes = kernel[k].echoes
    <3> HIDE DEF r
    <3> QED BY <1>1, <2>2 DEF Kernel
  <2>4. Ends(k, r, FALSE) \/ (~RebuildRaises /\ Ends(k, p, TRUE))
    <3>1. CASE RebuildRaises
      BY <1>6, <3>1 DEF LateArrival
    <3>2. CASE ~RebuildRaises
      <4>1. Ends(k, r, FALSE) \/ Ends(k, p, TRUE)
        BY <1>6 DEF LateArrival
      <4> HIDE DEF r, p
      <4> QED BY <3>2, <4>1
    <3> QED BY <3>1, <3>2
  <2> HIDE DEF r
  <2>5. CASE Ends(k, r, FALSE)
    BY <1>2, <2>1, <2>3, <2>5, EndsFacts DEF Rebuilds
  <2>6. CASE ~RebuildRaises /\ Ends(k, p, TRUE)
    <3>1. /\ p \in Kernel /\ p.startup = r.startup /\ p.situation = r.situation
          /\ p.published = r.published \cup {kernel[k].event} /\ p.echoes = r.echoes
      BY <1>2, <2>1, <2>3 DEF Kernel
    <3> HIDE DEF p
    <3>2. /\ Finished(k) /\ kernel'[k].situation = p.situation
          /\ kernel'[k].published = p.published /\ kernel'[k].echoes = p.echoes
      BY <1>2, <2>1, <2>3, <2>6, <3>1, EndsFacts
    <3> QED BY <2>3, <2>6, <3>1, <3>2 DEF Rebuilds
  <2> QED BY <2>4, <2>5, <2>6
<1>7. CASE Project(k)
  <2> DEFINE e == kernel[k].event
             p == [kernel[k] EXCEPT
                     !.situation = @ \cup {e},
                     !.version = kernel[k].seq,
                     !.published = @ \cup {e},
                     !.echoes = IF kernel[k].distribute THEN @ \cup {e} ELSE @]
  <2>1. kernel[k].pc = "appended"
    BY <1>7 DEF Project
  <2>2. CASE Ends(k, kernel[k], FALSE)
    BY <1>1, <1>2, <2>1, <2>2, EndsFacts DEF Knew
  <2>3. CASE e \notin Poison /\ Ends(k, p, TRUE)
    <3>1. /\ p \in Kernel /\ p.startup = kernel[k].startup
          /\ p.situation = kernel[k].situation \cup {e}
          /\ p.published = kernel[k].published \cup {e}
          /\ p.echoes \subseteq kernel[k].echoes \cup {e}
      BY <1>1, <1>2, <2>1 DEF Kernel
    <3> HIDE DEF p
    <3> QED BY <1>2, <2>1, <2>3, <3>1, EndsFacts DEF Projects
  <2> QED BY <1>7, <2>2, <2>3 DEF Project
<1> QED BY <1>3, <1>4, <1>5, <1>6, <1>7 DEF Finish

LEMMA CallFacts ==
  ASSUME TypeOK, NEW k \in Kernels, NEW e \in Events, NEW head \in 0..MaxSequence,
         emit(k, e) \/ ingest(k, e) \/ emit_if_head(k, e, head)
  PROVE  Receives(k) \/ Inserts(k) \/ Admits(k)
<1>1. /\ sequence[e] \in 0..MaxSequence
      /\ last < MaxSequence => last + 1 \in 0..MaxSequence
  BY KernelAssumption DEF TypeOK
<1>2. CASE emit(k, e) /\ e \in Log
  <2>1. Holding(k, e, TRUE, sequence[e], "appended") /\ kernel[k].pc = "idle"
        /\ UNCHANGED Appended /\ UNCHANGED <<ingested, crashes>>
    BY <1>2 DEF emit, Appended
  <2>2. Holds(k, e, sequence[e], "appended")
    BY <1>1, <2>1, HoldingFacts
  <2> QED BY <1>2, <2>1, <2>2 DEF Receives
<1>3. CASE emit(k, e) /\ e \notin Log
  <2>1. /\ Holding(k, e, TRUE, last + 1, "inserting") /\ kernel[k].pc = "idle"
        /\ last < MaxSequence /\ last' = last + 1 /\ ~InFlight(e)
        /\ QuietStart => \A j \in Kernels : kernel[j].pc # "loaded"
        /\ UNCHANGED <<sequence, predecessor, ingested, crashes>>
    BY <1>3 DEF emit
  <2>2. Holds(k, e, last + 1, "inserting")
    BY <1>1, <2>1, HoldingFacts
  <2> QED BY <1>3, <2>1, <2>2 DEF Inserts
<1>4. CASE ingest(k, e)
  <2>1. /\ Holding(k, e, FALSE, sequence[e], "appended") /\ kernel[k].pc = "idle"
        /\ e \in Log /\ UNCHANGED Appended /\ UNCHANGED <<ingested, crashes>>
    BY <1>4 DEF ingest, Appended
  <2>2. Holds(k, e, sequence[e], "appended")
    BY <1>1, <2>1, HoldingFacts
  <2> QED BY <2>1, <2>2 DEF Receives
<1>5. CASE emit_if_head(k, e, head) /\ e \in Log
  <2>1. Holding(k, e, TRUE, sequence[e], "appended") /\ kernel[k].pc = "idle"
        /\ UNCHANGED Appended /\ UNCHANGED <<ingested, crashes>>
    BY <1>5 DEF emit_if_head, Appended
  <2>2. Holds(k, e, sequence[e], "appended")
    BY <1>1, <2>1, HoldingFacts
  <2> QED BY <1>5, <2>1, <2>2 DEF Receives
<1>6. CASE emit_if_head(k, e, head) /\ e \notin Log
  <2>1. /\ Holding(k, e, TRUE, last + 1, "appended") /\ kernel[k].pc = "idle"
        /\ last < MaxSequence /\ last' = last + 1 /\ HeadIs(head)
        /\ QuietStart => \A j \in Kernels : kernel[j].pc # "loaded"
        /\ sequence' = [sequence EXCEPT ![e] = last + 1]
        /\ predecessor' = [predecessor EXCEPT ![e] = head]
        /\ UNCHANGED <<ingested, crashes>>
    BY <1>6 DEF emit_if_head
  <2>2. Holds(k, e, last + 1, "appended")
    BY <1>1, <2>1, HoldingFacts
  <2> QED BY <1>6, <2>1, <2>2 DEF Admits
<1> QED BY <1>2, <1>3, <1>4, <1>5, <1>6

LEMMA Steps ==
  ASSUME TypeOK, LogInv, [Next]_vars
  PROVE  \/ UNCHANGED vars
         \/ \E k \in Kernels :
              Rests(k) \/ Receives(k) \/ Inserts(k) \/ Admits(k) \/ CommitInsert(k)
<1>1. CASE UNCHANGED vars
  BY <1>1
<1>2. ASSUME NEW k \in Kernels, LoadHistory(k) \/ ReadHead(k) \/ Crash(k) PROVE Rests(k)
  BY <1>2, LoadHistoryFacts, ReadHeadFacts, CrashFacts
<1>3. ASSUME NEW k \in Kernels, Finish(k) PROVE Rests(k) \/ CommitInsert(k)
  BY <1>3, FinishFacts DEF Finished
<1>4. ASSUME NEW k \in Kernels, NEW e \in Events, NEW head \in 0..MaxSequence,
             emit(k, e) \/ ingest(k, e) \/ emit_if_head(k, e, head)
      PROVE  Receives(k) \/ Inserts(k) \/ Admits(k)
  BY <1>4, CallFacts
<1>5. 0 \in 0..MaxSequence
  BY KernelAssumption
<1>6. CASE Next
  BY <1>2, <1>3, <1>4, <1>5, <1>6, Zenon DEF Next
<1> QED BY <1>1, <1>6

-----------------------------------------------------------------------------
\* Every kind of step keeps IInv.

LEMMA TypeKept ==
  ASSUME IInv, [Next]_vars
  PROVE  TypeOK'
<1> USE DEF IInv
<1>1. CASE UNCHANGED vars
  BY <1>1 DEF TypeOK, vars
<1>2. ASSUME NEW k \in Kernels, Rests(k) PROVE TypeOK'
  BY <1>2 DEF TypeOK, Rests, Becomes, Appended
<1>3. ASSUME NEW k \in Kernels, Receives(k) PROVE TypeOK'
  BY <1>3 DEF TypeOK, Receives, Holds, Becomes, Appended
<1>4. ASSUME NEW k \in Kernels, Inserts(k) PROVE TypeOK'
  BY <1>4, KernelAssumption DEF TypeOK, Inserts, Holds, Becomes
<1>5. ASSUME NEW k \in Kernels, Admits(k) PROVE TypeOK'
  <2>1. PICK e \in Events \ Log, head \in 0..MaxSequence :
          /\ last < MaxSequence /\ last' = last + 1
          /\ sequence' = [sequence EXCEPT ![e] = last + 1]
          /\ predecessor' = [predecessor EXCEPT ![e] = head]
          /\ Holds(k, e, last + 1, "appended")
    BY <1>5 DEF Admits
  <2>2. last' \in 0..MaxSequence /\ head \in 0..Unconditional
    BY <2>1, KernelAssumption DEF TypeOK, Unconditional
  <2> QED BY <2>1, <2>2 DEF TypeOK, Holds, Becomes
<1>6. ASSUME NEW k \in Kernels, CommitInsert(k) PROVE TypeOK'
  <2>1. kernel[k] \in Kernel /\ kernel[k].seq \in 0..MaxSequence
    BY DEF TypeOK, Kernel
  <2>2. [kernel[k] EXCEPT !.pc = "appended"] \in Kernel
    BY <2>1 DEF Kernel
  <2> QED BY <1>6, <2>1, <2>2 DEF TypeOK, CommitInsert
<1> QED BY <1>1, <1>2, <1>3, <1>4, <1>5, <1>6, Steps

LEMMA LogInvKept ==
  ASSUME IInv, [Next]_vars
  PROVE  LogInv'
<1> USE DEF IInv
<1>1. CASE UNCHANGED vars
  BY <1>1 DEF LogInv, vars, Log, Inserting
<1>2. ASSUME NEW k \in Kernels, Rests(k) PROVE LogInv'
  <2>1. Log' = Log
    BY <1>2, LogKept DEF Rests, Appended
  <2> QED BY <1>2, <2>1 DEF TypeOK, LogInv, Rests, Becomes, Appended, Inserting
<1>3. ASSUME NEW k \in Kernels, Receives(k) PROVE LogInv'
  <2>1. Log' = Log
    BY <1>3, LogKept DEF Receives, Appended
  <2> QED BY <1>3, <2>1 DEF TypeOK, LogInv, Receives, Holds, Becomes, Appended, Inserting, Log
<1>4. ASSUME NEW k \in Kernels, Inserts(k) PROVE LogInv'
  <2>1. Log' = Log
    BY <1>4, LogKept DEF Inserts
  <2>2. PICK e \in Events \ Log : /\ ~InFlight(e) /\ last' = last + 1
                                  /\ Holds(k, e, last + 1, "inserting")
                                  /\ sequence' = sequence
    BY <1>4 DEF Inserts
  <2>3. /\ kernel'[k].pc = "inserting" /\ kernel'[k].event = e /\ kernel'[k].seq = last + 1
        /\ \A j \in Kernels \ {k} : kernel'[j] = kernel[j]
    BY <2>2 DEF Holds, Becomes, TypeOK
  <2>4. \A j \in Kernels : Inserting(j) => kernel[j].event # e
    BY <2>2 DEF InFlight, Inserting
  <2>5. last \in Nat /\ \A f \in Events : sequence[f] \in Nat
    BY KernelAssumption DEF TypeOK
  <2>6. \A j \in Kernels : kernel[j].seq \in Nat
    BY KernelAssumption DEF TypeOK, Kernel
  <2> QED BY <2>1, <2>2, <2>3, <2>4, <2>5, <2>6 DEF LogInv, Inserting, Log
<1>5. ASSUME NEW k \in Kernels, Admits(k) PROVE LogInv'
  <2>1. PICK e \in Events \ Log, head \in 0..MaxSequence :
          /\ HeadIs(head) /\ last < MaxSequence /\ last' = last + 1
          /\ sequence' = [sequence EXCEPT ![e] = last + 1]
          /\ Holds(k, e, last + 1, "appended")
    BY <1>5 DEF Admits
  <2>2. Log' = Log \cup {e} /\ sequence'[e] = last + 1
        /\ \A f \in Events \ {e} : sequence'[f] = sequence[f]
    <3>1. last + 1 \in 1..MaxSequence
      BY <2>1, KernelAssumption DEF TypeOK
    <3> QED BY <2>1, <3>1, LogFacts DEF TypeOK
  <2>3. \A j \in Kernels : ~Inserting(j) /\ ~Inserting(j)'
    BY <2>1 DEF HeadIs, Inserting, Holds, Becomes, TypeOK
  <2> QED BY <2>1, <2>2, <2>3 DEF TypeOK, LogInv, Holds, Becomes, Log, Inserting
<1>6. ASSUME NEW k \in Kernels, CommitInsert(k) PROVE LogInv'
  <2> DEFINE e == kernel[k].event
  <2>1. /\ e \in Events /\ e \notin Log /\ kernel[k].seq \in 1..MaxSequence
        /\ kernel[k].seq <= last /\ Inserting(k)
        /\ \A f \in Log : sequence[f] # kernel[k].seq
    BY <1>6 DEF CommitInsert, LogInv, Inserting, TypeOK, Kernel
  <2>2. Log' = Log \cup {e} /\ sequence'[e] = kernel[k].seq
        /\ \A f \in Events \ {e} : sequence'[f] = sequence[f]
    BY <1>6, <2>1, LogFacts DEF CommitInsert, TypeOK
  <2>3. /\ kernel'[k].pc = "appended" /\ kernel'[k].event = e /\ kernel'[k].seq = kernel[k].seq
        /\ \A j \in Kernels \ {k} : kernel'[j] = kernel[j]
        /\ last' = last
    BY <1>6 DEF CommitInsert, TypeOK, Kernel
  <2> HIDE DEF e
  <2> QED BY <2>1, <2>2, <2>3 DEF LogInv, Inserting, Log, e
<1> QED BY <1>1, <1>2, <1>3, <1>4, <1>5, <1>6, Steps

LEMMA AdmissionInvKept ==
  ASSUME IInv, [Next]_vars
  PROVE  AdmissionInv'
<1> USE DEF IInv
<1>0. /\ \A f \in Events : sequence[f] \in Nat /\ predecessor[f] \in Nat
      /\ \A j \in Kernels : kernel[j].seq \in Nat
      /\ last \in Nat
  BY KernelAssumption DEF TypeOK, Kernel, Unconditional
<1>1. CASE UNCHANGED vars
  BY <1>1 DEF AdmissionInv, vars, Log, Inserting, Between
<1>2. ASSUME NEW k \in Kernels, Rests(k) PROVE AdmissionInv'
  <2>1. Log' = Log
    BY <1>2, LogKept DEF Rests, Appended
  <2> QED BY <1>2, <2>1 DEF TypeOK, AdmissionInv, Rests, Becomes, Appended, Inserting, Between
<1>3. ASSUME NEW k \in Kernels, Receives(k) PROVE AdmissionInv'
  <2>1. Log' = Log
    BY <1>3, LogKept DEF Receives, Appended
  <2> QED BY <1>3, <2>1 DEF TypeOK, AdmissionInv, Receives, Holds, Becomes, Appended, Inserting,
                          Between
<1>4. ASSUME NEW k \in Kernels, Inserts(k) PROVE AdmissionInv'
  <2>1. Log' = Log
    BY <1>4, LogKept DEF Inserts
  <2>2. PICK e \in Events \ Log : /\ Holds(k, e, last + 1, "inserting")
                                  /\ UNCHANGED <<sequence, predecessor>>
    BY <1>4 DEF Inserts
  <2>3. /\ kernel'[k].seq = last + 1
        /\ \A j \in Kernels \ {k} : kernel'[j] = kernel[j]
    BY <2>2 DEF Holds, Becomes, TypeOK
  <2>4. \A f \in Log : ~Between(f, last + 1)
    BY <1>0 DEF Between, LogInv, Log
  <2> QED BY <2>1, <2>2, <2>3, <2>4 DEF AdmissionInv, Inserting, Between
<1>5. ASSUME NEW k \in Kernels, Admits(k) PROVE AdmissionInv'
  <2>1. PICK e \in Events \ Log, head \in 0..MaxSequence :
          /\ HeadIs(head) /\ last < MaxSequence /\ last' = last + 1
          /\ sequence' = [sequence EXCEPT ![e] = last + 1]
          /\ predecessor' = [predecessor EXCEPT ![e] = head]
          /\ Holds(k, e, last + 1, "appended")
    BY <1>5 DEF Admits
  <2>2. Log' = Log \cup {e} /\ sequence'[e] = last + 1
        /\ \A f \in Events \ {e} : sequence'[f] = sequence[f]
    <3>1. last + 1 \in 1..MaxSequence
      BY <2>1, KernelAssumption DEF TypeOK
    <3> QED BY <2>1, <3>1, LogFacts DEF TypeOK
  <2>3. predecessor'[e] = head /\ \A f \in Events \ {e} : predecessor'[f] = predecessor[f]
    BY <2>1 DEF TypeOK
  <2>4. \A j \in Kernels : ~Inserting(j)'
    BY <2>1 DEF HeadIs, Inserting, Holds, Becomes, TypeOK
  <2>5. \A f \in Events : sequence[f] <= head
    BY <2>1, HeadFacts DEF HeadIs
  <2>6. \A f \in Log' \ {e} :
          /\ f \in Log /\ sequence'[f] = sequence[f] /\ predecessor'[f] = predecessor[f]
          /\ sequence[f] \in Nat /\ sequence[f] <= last /\ sequence[f] <= head
    BY <1>0, <2>2, <2>3, <2>5 DEF LogInv, Log
  <2>7. ASSUME NEW f \in Log', NEW g \in Log', predecessor'[f] # Unconditional
        PROVE  ~(predecessor'[f] < sequence'[g] /\ sequence'[g] < sequence'[f])
    <3>0. head \in Nat
      BY KernelAssumption
    <3>1. CASE f = e
      <4>1. g = e \/ sequence'[g] <= head
        BY <2>6
      <4>2. sequence'[g] \in Nat
        BY <1>0, <2>2, <2>6
      <4> QED BY <2>3, <3>0, <3>1, <4>1, <4>2
    <3>2. CASE f # e /\ g = e
      <4>1. sequence'[f] \in Nat /\ sequence'[f] <= last
        BY <2>6, <3>2
      <4> QED BY <1>0, <2>2, <3>2, <4>1
    <3>3. CASE f # e /\ g # e
      BY <2>2, <2>6, <2>7, <3>3 DEF AdmissionInv, Between, Log
    <3> QED BY <3>1, <3>2, <3>3
  <2>8. \A f \in Events : f \notin Log' => predecessor'[f] = Unconditional
    BY <2>2, <2>3 DEF AdmissionInv
  <2> QED BY <2>4, <2>7, <2>8 DEF AdmissionInv, Between
<1>6. ASSUME NEW k \in Kernels, CommitInsert(k) PROVE AdmissionInv'
  <2> DEFINE e == kernel[k].event
  <2>1. /\ e \in Events /\ e \notin Log /\ kernel[k].seq \in 1..MaxSequence /\ Inserting(k)
    BY <1>6 DEF CommitInsert, LogInv, Inserting, TypeOK, Kernel
  <2>2. Log' = Log \cup {e} /\ sequence'[e] = kernel[k].seq
        /\ \A f \in Events \ {e} : sequence'[f] = sequence[f]
    BY <1>6, <2>1, LogFacts DEF CommitInsert, TypeOK
  <2>3. /\ kernel'[k].pc = "appended"
        /\ \A j \in Kernels \ {k} : kernel'[j] = kernel[j]
        /\ predecessor' = predecessor
    BY <1>6 DEF CommitInsert, TypeOK, Kernel
  <2>4. predecessor'[e] = Unconditional
    BY <2>1, <2>3 DEF AdmissionInv
  <2>5. \A f \in Log : sequence'[f] = sequence[f]
    BY <2>1, <2>2 DEF Log
  <2> HIDE DEF e
  <2> QED BY <2>1, <2>2, <2>3, <2>4, <2>5 DEF AdmissionInv, Inserting, Between, Log
<1> QED BY <1>1, <1>2, <1>3, <1>4, <1>5, <1>6, Steps

LEMMA InitFacts ==
  ASSUME Init
  PROVE  IInv /\ SituationInv /\ StartInv
<1>1. Down \in Kernel /\ 0 \in 0..MaxSequence /\ Unconditional \in 0..Unconditional
  BY KernelAssumption DEF Down, Kernel, Unconditional
<1>2. 0 \in 0..MaxCrashes
  BY KernelAssumption
<1>3. TypeOK
  BY <1>1, <1>2 DEF Init, TypeOK
<1>4. Log = {}
  BY DEF Init, Log
<1>5. \A k \in Kernels : kernel[k] = Down
  BY DEF Init
<1>6. LogInv /\ AdmissionInv
  BY <1>4, <1>5 DEF Init, LogInv, AdmissionInv, Inserting, Down
<1>7. SituationInv /\ StartInv
  BY <1>4, <1>5 DEF Init, SituationInv, StartInv, Running, Down
<1> QED BY <1>3, <1>6, <1>7 DEF IInv

LEMMA Invariance == Spec => []IInv
<1>1. Init => IInv
  BY InitFacts
<1>2. IInv /\ [Next]_vars => IInv'
  BY TypeKept, LogInvKept, AdmissionInvKept DEF IInv
<1> QED BY <1>1, <1>2, PTL DEF Spec

\* The state of every runtime, its sequences and the log's keep their types; the
\* version of a situation is a sequence of the log (kernel.py:_commit).
THEOREM KernelTypeCorrect == Spec => []TypeOK
<1>1. IInv => TypeOK
  BY DEF IInv
<1> QED BY <1>1, Invariance, PTL

\* Causal admission is atomic: between the head that a conditional append asked
\* for and the event it appended the log has nothing, nor will it ever, however
\* many unconditional inserts were in flight (kernel.py:emit_if_head).
THEOREM AdmissionsAreAtomic == Spec => []AdmissionIsAtomic
<1>1. IInv => AdmissionIsAtomic
  BY DEF IInv, AdmissionInv, AdmissionIsAtomic, Between
<1> QED BY <1>1, Invariance, PTL

-----------------------------------------------------------------------------
\* The situations, whatever the projection raises on.

\* A rebuild gives the log up to the first event that raises.
LEMMA RebuildReach ==
  ASSUME LogInv, TypeOK, NEW k
  PROVE  /\ Rebuilt(k) \subseteq Log \ Poison
         /\ \A e \in (Log \ Poison) \ Rebuilt(k) : BehindPoison(e)
         /\ ~RebuildRaises => Rebuilt(k) = Log
<1>1. \A e \in Log : sequence[e] \in Nat
  BY KernelAssumption DEF TypeOK, Log
<1>2. Rebuilt(k) \subseteq Log \ Poison
  BY <1>1 DEF Rebuilt
<1>3. ~RebuildRaises => Rebuilt(k) = Log
  BY DEF Rebuilt, RebuildRaises
<1>4. ASSUME NEW e \in (Log \ Poison) \ Rebuilt(k) PROVE BehindPoison(e)
  <2>1. PICK p \in Poison \cap Log : ~(sequence[e] < sequence[p])
    BY <1>4 DEF Rebuilt
  <2>2. sequence[e] # sequence[p]
    BY <2>1 DEF LogInv
  <2> QED BY <1>1, <2>1, <2>2 DEF BehindPoison
<1> QED BY <1>2, <1>3, <1>4

\* A call or an insert touches no situation and settles nothing; the log grows.
SituationKept(k) ==
  /\ Log \subseteq Log' /\ ingested' = ingested
  /\ \A e \in Log : sequence'[e] = sequence[e]
  /\ kernel'[k].startup = kernel[k].startup
  /\ kernel'[k].situation = kernel[k].situation
  /\ kernel'[k].published = kernel[k].published
  /\ kernel'[k].echoes = kernel[k].echoes
  /\ \A j \in Kernels \ {k} : kernel'[j] = kernel[j]

LEMMA CallsKeepSituation ==
  ASSUME IInv, NEW k \in Kernels, Receives(k) \/ Inserts(k) \/ Admits(k) \/ CommitInsert(k)
  PROVE  SituationKept(k)
<1> USE DEF IInv
<1>1. ASSUME NEW e, NEW n, NEW pc, Holds(k, e, n, pc), Log \subseteq Log',
             \A f \in Log : sequence'[f] = sequence[f]
      PROVE  SituationKept(k)
  <2>1. PICK r : /\ Becomes(k, r)
                 /\ r.startup = kernel[k].startup
                 /\ r.situation = kernel[k].situation /\ r.published = kernel[k].published
                 /\ r.echoes = kernel[k].echoes /\ ingested' = ingested
    BY <1>1 DEF Holds
  <2> QED BY <1>1, <2>1 DEF Becomes, SituationKept, TypeOK
<1>2. CASE Receives(k)
  <2>1. Log' = Log
    BY <1>2, LogKept DEF Receives, Appended
  <2> QED BY <1>1, <1>2, <2>1 DEF Receives, Appended
<1>3. CASE Inserts(k)
  <2>1. Log' = Log
    BY <1>3, LogKept DEF Inserts
  <2> QED BY <1>1, <1>3, <2>1 DEF Inserts
<1>4. CASE Admits(k)
  <2>1. PICK e \in Events \ Log :
          /\ last < MaxSequence
          /\ sequence' = [sequence EXCEPT ![e] = last + 1]
          /\ Holds(k, e, last + 1, "appended")
    BY <1>4 DEF Admits
  <2>2. last + 1 \in 1..MaxSequence
    BY <2>1, KernelAssumption DEF TypeOK
  <2>3. Log \subseteq Log' /\ \A f \in Log : sequence'[f] = sequence[f]
    BY <2>1, <2>2, LogFacts DEF Log
  <2> QED BY <1>1, <2>1, <2>3
<1>5. CASE CommitInsert(k)
  <2>1. kernel[k].event \in Events /\ kernel[k].seq \in 1..MaxSequence
    BY <1>5, KernelAssumption DEF CommitInsert, LogInv, TypeOK, Kernel
  <2>2. Log \subseteq Log' /\ \A f \in Log : sequence'[f] = sequence[f]
    <3>1. sequence' = [sequence EXCEPT ![kernel[k].event] = kernel[k].seq]
      BY <1>5 DEF CommitInsert
    <3>2. kernel[k].event \notin Log
      BY <1>5 DEF CommitInsert, LogInv, Inserting
    <3> QED BY <2>1, <3>1, <3>2, LogFacts DEF Log
  <2>3. kernel[k] \in Kernel
    BY DEF TypeOK
  <2>4. kernel'[k] = [kernel[k] EXCEPT !.pc = "appended"]
        /\ \A j \in Kernels \ {k} : kernel'[j] = kernel[j]
    BY <1>5 DEF CommitInsert, TypeOK
  <2> QED BY <1>5, <2>2, <2>3, <2>4 DEF CommitInsert, SituationKept, Kernel
<1> QED BY <1>2, <1>3, <1>4, <1>5

\* What is behind an event that raises stays there: the log only grows.
LEMMA BehindKept ==
  ASSUME Log \subseteq Log', \A e \in Log : sequence'[e] = sequence[e]
  PROVE  \A e \in Log : BehindPoison(e) => BehindPoison(e)'
BY DEF BehindPoison

LEMMA SituationInvKept ==
  ASSUME ProjectionIInv, [Next]_vars
  PROVE  SituationInv'
<1> USE DEF ProjectionIInv, IInv
<1>0. \A k \in Kernels : /\ Rebuilt(k) \subseteq Log \ Poison
                         /\ \A e \in (Log \ Poison) \ Rebuilt(k) : BehindPoison(e)
                         /\ ~RebuildRaises => Rebuilt(k) = Log
  BY RebuildReach
<1>1. CASE UNCHANGED vars
  BY <1>1 DEF SituationInv, vars, Log, BehindPoison
<1>2. ASSUME NEW k \in Kernels, SituationKept(k) PROVE SituationInv'
  <2>1. \A e \in Log : BehindPoison(e) => BehindPoison(e)'
    BY <1>2, BehindKept DEF SituationKept
  <2>2. \A j \in Kernels : /\ kernel'[j].situation = kernel[j].situation
                           /\ kernel'[j].published = kernel[j].published
                           /\ kernel'[j].echoes = kernel[j].echoes
                           /\ ingested'[j] = ingested[j]
    BY <1>2 DEF SituationKept
  <2> QED BY <1>2, <2>1, <2>2 DEF SituationInv, SituationKept
<1>3. ASSUME NEW k \in Kernels, Rests(k)
      PROVE  Log' = Log /\ \A e \in Log : BehindPoison(e) => BehindPoison(e)'
  BY <1>3, LogKept, BehindKept DEF Rests, Appended
<1>4. ASSUME NEW k \in Kernels, LoadHistory(k) PROVE SituationInv'
  <2>1. kernel'[k].situation = Log /\ Log = Log \ Poison
    BY <1>0, <1>4, LoadHistoryFacts
  <2>2. /\ Log' = Log /\ \A e \in Log : BehindPoison(e) => BehindPoison(e)'
        /\ UNCHANGED ingested
        /\ kernel'[k].published = kernel[k].published /\ kernel'[k].echoes = kernel[k].echoes
        /\ \A j \in Kernels \ {k} : kernel'[j] = kernel[j]
    BY <1>3, <1>4, LoadHistoryFacts
  <2> QED BY <2>1, <2>2 DEF SituationInv
<1>5. ASSUME NEW k \in Kernels, ReadHead(k) PROVE SituationInv'
  <2>1. /\ Log' = Log /\ \A e \in Log : BehindPoison(e) => BehindPoison(e)'
        /\ UNCHANGED ingested /\ kernel'[k].situation = kernel[k].situation
        /\ kernel'[k].published = kernel[k].published /\ kernel'[k].echoes = kernel[k].echoes
        /\ \A j \in Kernels \ {k} : kernel'[j] = kernel[j]
    BY <1>3, <1>5, ReadHeadFacts
  <2> QED BY <2>1 DEF SituationInv
<1>6. ASSUME NEW k \in Kernels, Crash(k) PROVE SituationInv'
  <2>1. /\ Log' = Log /\ \A e \in Log : BehindPoison(e) => BehindPoison(e)'
        /\ UNCHANGED ingested /\ kernel' = [kernel EXCEPT ![k] = Down]
    BY <1>3, <1>6, CrashFacts
  <2> QED BY <2>1 DEF SituationInv, Down, TypeOK
<1>7. ASSUME NEW k \in Kernels, Finished(k), Knew(k) \/ Rebuilds(k) \/ Projects(k)
      PROVE  SituationInv'
  <2>1. /\ Log' = Log /\ kernel[k].event \in Log
        /\ \A e \in Log : BehindPoison(e) => BehindPoison(e)'
        /\ \A j \in Kernels \ {k} : kernel'[j] = kernel[j]
        /\ ingested' \in {ingested, [ingested EXCEPT ![k] = @ \cup {kernel[k].event}]}
    BY <1>3, <1>7 DEF Finished, LogInv
  <2>2. \A j \in Kernels : ingested'[j] \subseteq Log
    BY <2>1 DEF SituationInv, TypeOK
  <2>3. /\ kernel'[k].situation \subseteq Log \ Poison
        /\ kernel'[k].published \cup kernel'[k].echoes \subseteq Log \ Poison
        /\ \A e \in (kernel'[k].published \cup kernel'[k].echoes) \ kernel'[k].situation :
             BehindPoison(e)
    <3>1. /\ kernel[k].situation \subseteq Log \ Poison
          /\ kernel[k].published \cup kernel[k].echoes \subseteq Log \ Poison
          /\ \A e \in (kernel[k].published \cup kernel[k].echoes) \ kernel[k].situation :
               BehindPoison(e)
      BY DEF SituationInv
    <3>2. CASE Knew(k)
      BY <3>1, <3>2 DEF Knew
    <3>3. CASE Rebuilds(k)
      <4>1. CASE RebuildRaises
        BY <1>0, <3>1, <3>3, <4>1 DEF Rebuilds
      <4>2. CASE ~RebuildRaises
        BY <1>0, <2>1, <3>1, <3>3, <4>2 DEF Rebuilds
      <4> QED BY <4>1, <4>2
    <3>4. CASE Projects(k)
      BY <2>1, <3>1, <3>4 DEF Projects
    <3> QED BY <1>7, <3>2, <3>3, <3>4
  <2> QED BY <2>1, <2>2, <2>3 DEF SituationInv
<1>8. ASSUME NEW k \in Kernels, Finish(k) PROVE SituationInv'
  BY <1>2, <1>7, <1>8, FinishFacts, CallsKeepSituation
<1>9. ASSUME NEW k \in Kernels, NEW e \in Events, NEW head \in 0..MaxSequence,
             emit(k, e) \/ ingest(k, e) \/ emit_if_head(k, e, head)
      PROVE  SituationInv'
  BY <1>2, <1>9, CallFacts, CallsKeepSituation
<1>10. 0 \in 0..MaxSequence
  BY KernelAssumption
<1>11. CASE Next
  BY <1>4, <1>5, <1>6, <1>8, <1>9, <1>10, <1>11, Zenon DEF Next
<1> QED BY <1>1, <1>11

LEMMA ProjectionInvariance == Spec => []ProjectionIInv
<1>1. Init => ProjectionIInv
  BY InitFacts DEF ProjectionIInv
<1>2. ProjectionIInv /\ [Next]_vars => ProjectionIInv'
  BY TypeKept, LogInvKept, AdmissionInvKept, SituationInvKept DEF ProjectionIInv, IInv
<1> QED BY <1>1, <1>2, PTL DEF Spec

\* What a running kernel knows and a replay would not give it lies behind an event
\* that the projection raises on, and so does what subscribers heard on the bus
\* and no longer find in the situation, however events are reordered, late or
\* repeated and whatever the projection raises on (kernel.py:_commit).
THEOREM SituationsAreReconstructed == Spec => [](ReplayStopsAtPoison /\ PublishedIsProjected)
<1>1. ASSUME ProjectionIInv PROVE ReplayStopsAtPoison /\ PublishedIsProjected
  BY <1>1, RebuildReach
     DEF ProjectionIInv, IInv, SituationInv, ReplayStopsAtPoison, PublishedIsProjected
<1> QED BY <1>1, ProjectionInvariance, PTL

-----------------------------------------------------------------------------
\* What is settled, if nothing is appended while a kernel starts.

LEMMA StartInvKept ==
  ASSUME QuietIInv, QuietStart, [Next]_vars
  PROVE  StartInv'
<1> USE DEF QuietIInv, ProjectionIInv, IInv
<1>0. /\ \A k \in Kernels : /\ Rebuilt(k) \subseteq Log \ Poison
                            /\ \A e \in (Log \ Poison) \ Rebuilt(k) : BehindPoison(e)
                            /\ ~RebuildRaises => Rebuilt(k) = Log
      /\ \A e \in Events : sequence[e] \in Nat
      /\ \A k \in Kernels : kernel[k].seq \in Nat /\ kernel[k].startup \in Nat
      /\ last \in Nat
  <2>1. \A k \in Kernels : /\ Rebuilt(k) \subseteq Log \ Poison
                           /\ \A e \in (Log \ Poison) \ Rebuilt(k) : BehindPoison(e)
                           /\ ~RebuildRaises => Rebuilt(k) = Log
    BY RebuildReach
  <2>2. /\ \A e \in Events : sequence[e] \in Nat
        /\ \A k \in Kernels : kernel[k].seq \in Nat /\ kernel[k].startup \in Nat
        /\ last \in Nat
    BY KernelAssumption DEF TypeOK, Kernel
  <2> QED BY <2>1, <2>2
<1>1. CASE UNCHANGED vars
  BY <1>1 DEF StartInv, vars, Log, Inserting, Running, BehindPoison
<1>16. ASSUME NEW k \in Kernels, SituationKept(k)
       PROVE  \A j \in Kernels : kernel[j].pc # "down" =>
                \A e \in ingested'[j] \ kernel'[j].situation : BehindPoison(e)'
  <2>1. \A e \in Log : BehindPoison(e) => BehindPoison(e)'
    BY <1>16, BehindKept DEF SituationKept
  <2>2. \A j \in Kernels : kernel'[j].situation = kernel[j].situation /\ ingested'[j] = ingested[j]
    BY <1>16 DEF SituationKept
  <2> QED BY <2>1, <2>2 DEF StartInv, SituationInv
<1>2. ASSUME NEW k \in Kernels, Rests(k)
      PROVE  /\ Log' = Log /\ UNCHANGED <<sequence, last>>
             /\ kernel'[k].pc \in {"down", "loaded", "idle"}
             /\ \A j \in Kernels \ {k} : kernel'[j] = kernel[j]
             /\ \A e \in Log : BehindPoison(e) => BehindPoison(e)'
  <2>1. Log' = Log /\ UNCHANGED <<sequence, last>>
    BY <1>2, LogKept DEF Rests, Appended
  <2>2. \A e \in Log : BehindPoison(e) => BehindPoison(e)'
    BY <2>1, BehindKept
  <2> QED BY <1>2, <2>1, <2>2 DEF Rests, Becomes, TypeOK
<1>3. ASSUME NEW k \in Kernels, LoadHistory(k) PROVE StartInv'
  <2>1. kernel'[k].situation = Log /\ ingested[k] \subseteq Log
    BY <1>0, <1>3, LoadHistoryFacts DEF SituationInv
  <2>2. \A j \in Kernels : ingested'[j] \subseteq Log /\ ingested'[j] = ingested[j]
    BY <1>3, LoadHistoryFacts DEF SituationInv
  <2>3. /\ Rests(k) /\ kernel'[k].pc = "loaded" /\ (\A j \in Kernels : ~Inserting(j))
        /\ \A j \in Kernels \ {k} : kernel'[j] = kernel[j]
    BY <1>3, LoadHistoryFacts
  <2>4. /\ Log' = Log /\ UNCHANGED <<sequence, last>>
        /\ \A e \in Log : BehindPoison(e) => BehindPoison(e)'
    BY <1>2, <2>3
  <2> QED BY <2>1, <2>2, <2>3, <2>4 DEF StartInv, Inserting, Running
<1>4. ASSUME NEW k \in Kernels, ReadHead(k) PROVE StartInv'
  <2>1. /\ kernel[k].pc = "loaded" /\ kernel'[k].pc = "idle"
        /\ kernel'[k].situation = kernel[k].situation /\ kernel'[k].startup = Head
        /\ UNCHANGED ingested /\ Rests(k)
    BY <1>4, ReadHeadFacts
  <2>2. kernel[k].situation = Log /\ (\A j \in Kernels : ~Inserting(j))
    BY <2>1 DEF StartInv
  <2>3. Head <= last
    <3>1. Head \in {0} \cup {sequence[e] : e \in Events}
      BY HeadFacts
    <3> QED BY <1>0, <3>1 DEF LogInv
  <2>4. \A j \in Kernels : ~Inserting(j)'
    BY <1>2, <2>1, <2>2 DEF Inserting
  <2>5. \A e \in ingested'[k] : e \in kernel'[k].situation
    BY <2>1, <2>2 DEF SituationInv
  <2>6. /\ Log' = Log /\ UNCHANGED <<sequence, last>>
        /\ \A e \in Log : BehindPoison(e) => BehindPoison(e)'
        /\ \A j \in Kernels \ {k} : kernel'[j] = kernel[j]
    BY <1>2, <2>1
  <2> QED BY <2>1, <2>2, <2>3, <2>4, <2>5, <2>6 DEF StartInv, SituationInv, Running, Inserting
<1>5. ASSUME NEW k \in Kernels, Crash(k) PROVE StartInv'
  <2>1. kernel'[k].pc = "down" /\ Rests(k) /\ UNCHANGED ingested
    BY <1>5, CrashFacts DEF Down, TypeOK
  <2>2. /\ Log' = Log /\ UNCHANGED <<sequence, last>>
        /\ \A e \in Log : BehindPoison(e) => BehindPoison(e)'
        /\ \A j \in Kernels \ {k} : kernel'[j] = kernel[j]
    BY <1>2, <2>1
  <2> QED BY <2>1, <2>2 DEF StartInv, SituationInv, Inserting, Running
<1>6. ASSUME NEW k \in Kernels, Finished(k), Knew(k) \/ Rebuilds(k) \/ Projects(k)
      PROVE  StartInv'
  <2>1. /\ Rests(k) /\ kernel[k].pc = "appended" /\ kernel[k].event \in Log
        /\ kernel'[k].pc = "idle" /\ kernel'[k].startup = kernel[k].startup
        /\ kernel[k].seq = sequence[kernel[k].event]
        /\ ingested' \in {ingested, [ingested EXCEPT ![k] = @ \cup {kernel[k].event}]}
    BY <1>6 DEF Finished, LogInv
  <2>2. /\ \A e \in ingested[k] \ kernel[k].situation : BehindPoison(e)
        /\ ingested[k] \subseteq Log
        /\ \A e \in Log : sequence[e] <= kernel[k].startup => e \in kernel[k].situation
    BY <2>1 DEF StartInv, SituationInv, Running
  <2>3. /\ kernel[k].situation \subseteq Log \ Poison /\ kernel[k].echoes \subseteq Log
        /\ \A e \in kernel[k].echoes \ kernel[k].situation : BehindPoison(e)
    BY DEF SituationInv
  <2>4. \A e \in kernel[k].situation \ kernel'[k].situation : BehindPoison(e)
    BY <1>0, <1>6, <2>3 DEF Knew, Rebuilds, Projects
  <2>5. \A e \in Log : sequence[e] <= kernel[k].startup => e \in kernel'[k].situation
    <3> SUFFICES ASSUME NEW e \in Log, sequence[e] <= kernel[k].startup,
                        e \notin kernel'[k].situation
                 PROVE  FALSE
      OBVIOUS
    <3>1. BehindPoison(e)
      BY <2>2, <2>4
    <3>2. PICK p \in Poison \cap Log : sequence[p] < sequence[e]
      BY <3>1 DEF BehindPoison
    <3>3. sequence[p] <= kernel[k].startup
      BY <1>0, <3>2 DEF Log
    <3> QED BY <2>2, <2>3, <3>3
  <2>6. ingested' # ingested =>
          kernel[k].event \in kernel'[k].situation \/ BehindPoison(kernel[k].event)
    <3>1. CASE Knew(k)
      BY <2>1, <2>2, <2>3, <3>1 DEF Knew
    <3>2. CASE Rebuilds(k)
      BY <1>0, <2>1, <3>2 DEF Rebuilds
    <3>3. CASE Projects(k)
      BY <3>3 DEF Projects
    <3> QED BY <1>6, <3>1, <3>2, <3>3
  <2>7. \A e \in ingested[k] \ kernel'[k].situation : BehindPoison(e)
    BY <2>2, <2>4
  <2>8. \A e \in ingested'[k] \ kernel'[k].situation : BehindPoison(e)
    BY <2>1, <2>6, <2>7 DEF TypeOK
  <2>9. \A j \in Kernels \ {k} : ingested'[j] = ingested[j]
    BY <2>1 DEF TypeOK
  <2>10. /\ Log' = Log /\ UNCHANGED <<sequence, last>>
         /\ \A e \in Log : BehindPoison(e) => BehindPoison(e)'
         /\ \A j \in Kernels \ {k} : kernel'[j] = kernel[j]
    BY <1>2, <2>1
  <2>11. ingested'[k] \subseteq Log
    BY <2>1, <2>2 DEF TypeOK
  <2> QED BY <2>1, <2>5, <2>8, <2>9, <2>10, <2>11
          DEF StartInv, SituationInv, Running, Inserting
<1>7. ASSUME NEW k \in Kernels, Receives(k) PROVE StartInv'
  <2>1. /\ kernel[k].pc = "idle" /\ kernel'[k].pc = "appended"
        /\ Log' = Log /\ UNCHANGED <<sequence, last>>
    BY <1>7, LogKept DEF Receives, Holds, Becomes, Appended, TypeOK
  <2>2. SituationKept(k)
    BY <1>7, CallsKeepSituation
  <2>3. \A j \in Kernels : kernel'[j].pc # "down" =>
          \A e \in ingested'[j] \ kernel'[j].situation : BehindPoison(e)'
    BY <1>16, <2>1, <2>2 DEF SituationKept
  <2> QED BY <2>1, <2>2, <2>3 DEF StartInv, SituationKept, Running, Inserting
<1>8. ASSUME NEW k \in Kernels, Inserts(k) PROVE StartInv'
  <2>1. /\ kernel[k].pc = "idle" /\ kernel'[k].pc = "inserting" /\ kernel'[k].seq = last + 1
        /\ last' = last + 1 /\ Log' = Log /\ UNCHANGED sequence
        /\ \A j \in Kernels : kernel[j].pc # "loaded"
    BY <1>8, LogKept DEF Inserts, Holds, Becomes, TypeOK
  <2>2. SituationKept(k)
    BY <1>8, CallsKeepSituation
  <2>3. \A j \in Kernels : Running(j)' <=> Running(j)
    BY <2>1, <2>2 DEF Running, SituationKept
  <2>4. ASSUME NEW j \in Kernels, Running(j)
        PROVE  /\ kernel'[j].startup <= last'
               /\ \A e \in Log' : sequence'[e] <= kernel'[j].startup => e \in kernel'[j].situation
               /\ \A i \in Kernels : Inserting(i)' => kernel'[i].seq > kernel'[j].startup
    <3>1. kernel'[j].startup = kernel[j].startup /\ kernel'[j].situation = kernel[j].situation
      BY <2>2 DEF SituationKept
    <3> QED BY <1>0, <2>1, <2>2, <2>4, <3>1 DEF StartInv, SituationKept, Inserting
  <2>5. \A j \in Kernels : kernel'[j].pc # "down" =>
          \A e \in ingested'[j] \ kernel'[j].situation : BehindPoison(e)'
    BY <1>16, <2>1, <2>2 DEF SituationKept
  <2>6. \A j \in Kernels : kernel'[j].pc # "loaded"
    BY <2>1, <2>2 DEF SituationKept
  <2> QED BY <2>3, <2>4, <2>5, <2>6 DEF StartInv, Inserting
<1>9. ASSUME NEW k \in Kernels, NEW e \in Events \ Log, NEW n \in Nat, SituationKept(k),
             Log' = Log \cup {e}, sequence'[e] = n, \A f \in Log : sequence'[f] = sequence[f],
             kernel[k].pc \in {"idle", "inserting"}, kernel'[k].pc = "appended",
             last' >= last, last' \in Nat,
             \A j \in Kernels : Running(j) => n > kernel[j].startup,
             \A j \in Kernels : kernel[j].pc # "loaded"
      PROVE  StartInv'
  <2>1. \A j \in Kernels : Running(j)' <=> Running(j)
    BY <1>9 DEF Running, SituationKept
  <2>2. ASSUME NEW j \in Kernels, Running(j)
        PROVE  /\ kernel'[j].startup <= last'
               /\ \A f \in Log' : sequence'[f] <= kernel'[j].startup => f \in kernel'[j].situation
               /\ \A i \in Kernels : Inserting(i)' => kernel'[i].seq > kernel'[j].startup
    <3>1. kernel'[j].startup = kernel[j].startup /\ kernel'[j].situation = kernel[j].situation
      BY <1>9 DEF SituationKept
    <3>2. kernel[j].startup <= last /\ n > kernel[j].startup
      BY <1>9, <2>2 DEF StartInv
    <3>3. \A f \in Log : sequence[f] <= kernel[j].startup => f \in kernel[j].situation
      BY <2>2 DEF StartInv
    <3>4. \A i \in Kernels : Inserting(i)' => kernel'[i].seq > kernel'[j].startup
      BY <1>9, <2>2, <3>1 DEF StartInv, SituationKept, Inserting
    <3> QED BY <1>0, <1>9, <3>1, <3>2, <3>3, <3>4
  <2>3. \A j \in Kernels : kernel'[j].pc # "down" =>
          \A f \in ingested'[j] \ kernel'[j].situation : BehindPoison(f)'
    BY <1>16, <1>9 DEF SituationKept
  <2>4. \A j \in Kernels : kernel'[j].pc # "loaded"
    BY <1>9 DEF SituationKept
  <2> QED BY <2>1, <2>2, <2>3, <2>4 DEF StartInv, Inserting
<1>10. ASSUME NEW k \in Kernels, Admits(k) PROVE StartInv'
  <2>1. PICK e \in Events \ Log :
          /\ last < MaxSequence /\ last' = last + 1
          /\ \A j \in Kernels : kernel[j].pc # "loaded"
          /\ sequence' = [sequence EXCEPT ![e] = last + 1]
          /\ Holds(k, e, last + 1, "appended")
    BY <1>10 DEF Admits
  <2>2. /\ Log' = Log \cup {e} /\ sequence'[e] = last + 1
        /\ \A f \in Log : sequence'[f] = sequence[f]
    <3>1. last + 1 \in 1..MaxSequence
      BY <2>1, KernelAssumption DEF TypeOK
    <3> QED BY <2>1, <3>1, LogFacts DEF TypeOK, Log
  <2>3. kernel[k].pc = "idle" /\ kernel'[k].pc = "appended"
    BY <2>1 DEF Holds, Becomes, TypeOK
  <2>4. \A j \in Kernels : Running(j) => last + 1 > kernel[j].startup
    BY <1>0 DEF StartInv
  <2>5. last' >= last /\ last' \in Nat /\ last + 1 \in Nat
    BY <1>0, <2>1
  <2>6. SituationKept(k)
    BY <1>10, CallsKeepSituation
  <2> QED BY <1>9, <2>1, <2>2, <2>3, <2>4, <2>5, <2>6
<1>11. ASSUME NEW k \in Kernels, CommitInsert(k) PROVE StartInv'
  <2> DEFINE e == kernel[k].event
  <2>1. /\ e \in Events \ Log /\ kernel[k].seq \in 1..MaxSequence /\ Inserting(k)
    BY <1>11 DEF CommitInsert, LogInv, Inserting, TypeOK, Kernel
  <2>2. /\ Log' = Log \cup {e} /\ sequence'[e] = kernel[k].seq
        /\ \A f \in Log : sequence'[f] = sequence[f]
    BY <1>11, <2>1, LogFacts DEF CommitInsert, TypeOK, Log
  <2>3. kernel[k].pc = "inserting" /\ kernel'[k].pc = "appended" /\ last' = last
    BY <1>11 DEF CommitInsert, TypeOK, Kernel
  <2>4. \A j \in Kernels : kernel[j].pc # "loaded" /\ (Running(j) => kernel[k].seq > kernel[j].startup)
    BY <2>1 DEF StartInv
  <2>5. last' >= last /\ last' \in Nat /\ kernel[k].seq \in Nat
    BY <1>0, <2>3
  <2>6. SituationKept(k)
    BY <1>11, CallsKeepSituation
  <2> HIDE DEF e
  <2> QED BY <1>9, <2>1, <2>2, <2>3, <2>4, <2>5, <2>6
<1>12. ASSUME NEW k \in Kernels, Finish(k) PROVE StartInv'
  BY <1>6, <1>11, <1>12, FinishFacts
<1>13. ASSUME NEW k \in Kernels, NEW e \in Events, NEW head \in 0..MaxSequence,
             emit(k, e) \/ ingest(k, e) \/ emit_if_head(k, e, head)
      PROVE  StartInv'
  BY <1>7, <1>8, <1>10, <1>13, CallFacts
<1>14. 0 \in 0..MaxSequence
  BY KernelAssumption
<1>15. CASE Next
  BY <1>3, <1>4, <1>5, <1>12, <1>13, <1>14, <1>15, Zenon DEF Next
<1> QED BY <1>1, <1>15

LEMMA QuietInvariance == QuietStart /\ Spec => []QuietIInv
<1> SUFFICES ASSUME QuietStart PROVE Spec => []QuietIInv
  OBVIOUS
<1>1. Init => QuietIInv
  BY InitFacts DEF QuietIInv, ProjectionIInv
<1>2. QuietIInv /\ [Next]_vars => QuietIInv'
  BY TypeKept, LogInvKept, AdmissionInvKept, SituationInvKept, StartInvKept
  DEF QuietIInv, ProjectionIInv, IInv
<1> QED BY <1>1, <1>2, PTL DEF Spec

\* If nothing is appended while a kernel starts, the situation of a running kernel
\* lacks nothing that was settled or published, but for what lies behind an event
\* that the projection raises on: the skip of kernel.py:151-153 drops only what
\* the rebuild of the start has.
THEOREM SettledIsInTheSituation == QuietStart /\ Spec => []ProjectionInv
<1> SUFFICES ASSUME QuietStart PROVE Spec => []ProjectionInv
  OBVIOUS
<1>1. QuietIInv => ProjectionInv
  BY DEF QuietIInv, ProjectionIInv, IInv, SituationInv, StartInv, ProjectionInv,
         SettledIsProjected, PublishedIsProjected, Running
<1> QED BY <1>1, QuietInvariance, PTL
=============================================================================
