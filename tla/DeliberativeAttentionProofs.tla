---------------------- MODULE DeliberativeAttentionProofs ----------------------
(***************************************************************************)
(* Theorems about DeliberativeAttention, for any number of workers,        *)
(* observers and clients, any policies and scenarios, whatever the         *)
(* interleaving and however often workers crash.                           *)
(*                                                                         *)
(* The argument.  A step appends nothing, the next fact, or one event that *)
(* replay accepts; it lets at most one process go on, and it uses up what  *)
(* it takes of the scenario (Advances).  Every step is shown to be one of  *)
(* these (NextAdvances), and these steps are shown to keep the invariants. *)
(* Appending never takes away what was recorded, so what the other         *)
(* processes remember of the log stays true of it.                         *)
(*                                                                         *)
(* Ancestry is defined by unfolding the parents as often as there are      *)
(* records.  That it is then closed under parents is shown by counting:    *)
(* a step of the unfolding that adds nothing adds nothing later, and one   *)
(* that adds something adds one of finitely many.  A derivation inherits   *)
(* the ancestry of its sources, hence their policies, classification and   *)
(* conflicts, and composing more policies only tightens.                   *)
(*                                                                         *)
(* Two theorems have a hypothesis that they need.  A checkpoint passes no  *)
(* opportunity of a worker's own policy while the workers that share a     *)
(* consumer's name recognize the same facts (OnePolicyPerConsumer): the    *)
(* name's default does not depend on the policy (service.py:716).  Replay  *)
(* accepts the whole log while no recognized fact is unreadable            *)
(* (FactsAreReadable): the kernel appends a fact that it cannot decode,    *)
(* and the projection refuses to replay it (projection.py:185).            *)
(***************************************************************************)
EXTENDS DeliberativeAttention, FiniteSetTheorems, FunctionTheorems, SequenceTheorems,
        WellFoundedInduction, NaturalsInduction, TLAPS

-----------------------------------------------------------------------------
\* Some allowed access to the information i was decided up to position n.
WasShown(l, i, n) == \E k \in 1..n : IsAllowedAccess(l, k) /\ l[k].request.info = i

\* What a process remembers of the log lies in it.
Remembers(l, t) ==
    /\ {t.source, t.seen, t.known, t.completed, t.cut, t.event, t.access} \subseteq 0..Len(l)
    /\ t.receipts \subseteq DOMAIN l /\ IsFiniteSet(t.receipts)
    /\ t.completed <= t.known

\* A pass is about a recognized source, of whose information the receipts show the first ones.
InPass(l, p, t) ==
    /\ p \in Workers /\ t.policy = SourcePolicy[p]
    /\ t.pc # "trail" =>
         /\ t.source \in RecognizedOpportunities(l, t.policy)
         /\ t.infos = ToSet(l[t.source].infos)
    /\ t.pc = "admit" =>
         \A j \in DOMAIN l[t.source].infos : j <= Cardinality(t.receipts) =>
           \E k \in t.receipts : IsAllowedAccess(l, k) /\ l[k].request.info = l[t.source].infos[j]
    /\ t.pc = "lineage" => \A i \in t.infos : WasShown(l, i, t.cut)

TaskInv(l, p, t) ==
    /\ t.pc \in Stages /\ DOMAIN t = DOMAIN Idle /\ Remembers(l, t)
    /\ t.pc \in {"admit", "checkpoint", "trail", "scan"} => t.kind = "disposition"
    /\ t.pc \in Stages \ {"idle", "view"} /\ t.kind = "disposition" => InPass(l, p, t)
    /\ t.pc \in Stages \ {"idle", "view"} /\ t.kind # "disposition" => p \in Observers
    /\ t.pc \in {"lineage", "compose", "binding", "access", "record"} => t.infos # {}
    /\ t.pc \in {"compose", "binding"} => Lineage(l, t.info) # {}
    /\ t.pc = "binding" => t.policies # {} /\ t.policies \subseteq KnownPolicies(l)
    /\ t.pc = "view" =>
         /\ t.access \in Positions(l, "decision") /\ Allowed(l[t.access])
         /\ l[t.access].request.op = "declassify"
         /\ l[t.access].request.proposed \subseteq KnownPolicies(l)

LeftInv(f) ==
    /\ DOMAIN f = {"facts", "steward", "workers", "says", "links", "requests", "crashes", "passes"}
    /\ IsLog(f.facts) /\ \A k \in DOMAIN f.facts : IsFact(f.facts[k])
    /\ \A e \in f.steward : e.type \in {"lineage", "binding", "quarantine"}
    /\ \A r \in f.links : r.kind \in {"outcome", "feedback"}
    /\ \A r \in f.requests : r.op = "declassify" => \E v \in r.proposed : r.proposed = {v}
    /\ f.crashes \in Nat /\ f.passes \in Nat

AttentionInv ==
    /\ WellFormed(log) /\ LeftInv(left) /\ DOMAIN task = Processes
    /\ \A p \in Processes : TaskInv(log, p, task[p])

\* A pass observes what it recognizes in order.
Observes(l, t) ==
    /\ t.pc \in Stages \ {"idle", "view"} /\ t.kind = "disposition" =>
         ObservedUpTo(l, t.policy, t.source - 1)
    /\ t.pc \in {"checkpoint", "trail", "scan"} => ObservedUpTo(l, t.policy, t.source)

CheckpointInv ==
    /\ \A w \in Workers : ObservedUpTo(log, SourcePolicy[w], LastCompleted(log, Consumer[w]))
    /\ \A p \in Processes : Observes(log, task[p])

-----------------------------------------------------------------------------
\* Logs.

LEMMA LogFacts ==
  ASSUME NEW l, IsLog(l)
  PROVE  Len(l) \in Nat /\ DOMAIN l = 1..Len(l) /\ l \in Seq(Range(l))
BY DEF IsLog

\* What a log and one more event make.
LEMMA AppendLog ==
  ASSUME NEW l, IsLog(l), NEW e
  PROVE  /\ IsLog(Append(l, e)) /\ Len(l) \in Nat /\ DOMAIN l = 1..Len(l)
         /\ Len(Append(l, e)) = Len(l) + 1 /\ DOMAIN Append(l, e) = 1..(Len(l) + 1)
         /\ \A k \in DOMAIN l : Append(l, e)[k] = l[k]
         /\ Append(l, e)[Len(l) + 1] = e
<1> DEFINE S == Range(l) \cup {e}
           a == Append(l, e)
<1>0. Len(l) \in Nat /\ DOMAIN l = 1..Len(l) /\ l \in Seq(Range(l))
  BY LogFacts
<1>1. l \in Seq(S) /\ e \in S
  <2>1. Range(l) \subseteq S
    OBVIOUS
  <2> HIDE DEF S
  <2>2. l \in Seq(S)
    BY <1>0, <2>1, SeqMonotonic
  <2> QED BY <2>2 DEF S
<1> HIDE DEF S
<1>2. /\ a \in Seq(S) /\ Len(a) = Len(l) + 1 /\ DOMAIN a = 1..(Len(l) + 1)
      /\ \A n \in 1..Len(l) : a[n] = l[n]
      /\ a[Len(l) + 1] = e
  BY <1>0, <1>1
<1> HIDE DEF a
<1>3. a \in [1..Len(a) -> Range(a)]
  BY <1>0, <1>2 DEF Range
<1>4. a \in Seq(Range(a))
  BY <1>0, <1>2, <1>3, SeqDef
<1> QED BY <1>0, <1>2, <1>4 DEF a, IsLog

LEMMA TailLog ==
  ASSUME NEW l, IsLog(l), l # <<>>
  PROVE  /\ IsLog(Tail(l)) /\ Head(l) = l[1] /\ 1 \in DOMAIN l
         /\ \A k \in DOMAIN Tail(l) : k + 1 \in DOMAIN l /\ Tail(l)[k] = l[k + 1]
<1>1. Len(l) \in Nat /\ DOMAIN l = 1..Len(l) /\ l \in Seq(Range(l))
  BY LogFacts
<1> DEFINE S == Range(l)
           t == Tail(l)
<1> HIDE DEF S
<1>2. /\ t \in Seq(S) /\ Len(t) = Len(l) - 1 /\ DOMAIN t = 1..(Len(l) - 1)
      /\ \A k \in 1..(Len(l) - 1) : t[k] = l[k + 1]
      /\ Head(l) = l[1] /\ 1 \in DOMAIN l
  BY <1>1 DEF S
<1>3. Len(t) \in Nat
  BY <1>2
<1> HIDE DEF t
<1>4. t \in [1..Len(t) -> Range(t)]
  BY <1>1, <1>2, <1>3 DEF Range
<1>5. t \in Seq(Range(t))
  BY <1>1, <1>2, <1>3, <1>4, SeqDef
<1> QED BY <1>1, <1>2, <1>5 DEF t, IsLog

\* Nothing is lost in the part of a log that is all of it.
LEMMA WholeLog ==
  ASSUME NEW l, IsLog(l)
  PROVE  SubSeq(l, 1, Len(l)) = l
<1>1. l \in Seq(Range(l)) /\ Len(l) \in Nat
  BY LogFacts
<1> DEFINE S == Range(l)
<1> HIDE DEF S
<1>2. l \in Seq(S)
  BY <1>1 DEF S
<1> QED BY <1>1, <1>2

LEMMA PriorLog ==
  ASSUME NEW l, IsLog(l), NEW e
  PROVE  SubSeq(Append(l, e), 1, Len(l)) = l
<1> DEFINE S == Range(l) \cup {e}
<1>0. Len(l) \in Nat /\ l \in Seq(Range(l))
  BY LogFacts
<1>1. l \in Seq(S) /\ e \in S
  <2>1. Range(l) \subseteq S
    OBVIOUS
  <2> HIDE DEF S
  <2>2. l \in Seq(S)
    BY <1>0, <2>1, SeqMonotonic
  <2> QED BY <2>2 DEF S
<1> HIDE DEF S
<1>2. /\ Append(l, e) \in Seq(S) /\ Len(Append(l, e)) = Len(l) + 1
      /\ \A n \in 1..Len(l) : Append(l, e)[n] = l[n]
  BY <1>0, <1>1
<1> QED BY <1>0, <1>1, <1>2

\* The log m is l and one more event.
Follows(m, l, e) == IsLog(l) /\ m = Append(l, e)

LEMMA FollowsFacts ==
  ASSUME NEW l, NEW e, NEW m, Follows(m, l, e)
  PROVE  /\ IsLog(l) /\ IsLog(m) /\ Len(l) \in Nat /\ DOMAIN l = 1..Len(l)
         /\ Len(m) = Len(l) + 1 /\ DOMAIN m = 1..(Len(l) + 1)
         /\ \A k \in DOMAIN l : k \in DOMAIN m /\ m[k] = l[k]
         /\ m[Len(m)] = e
<1>1. /\ IsLog(l) /\ IsLog(Append(l, e)) /\ Len(l) \in Nat /\ DOMAIN l = 1..Len(l)
      /\ Len(Append(l, e)) = Len(l) + 1 /\ DOMAIN Append(l, e) = 1..(Len(l) + 1)
      /\ \A k \in DOMAIN l : Append(l, e)[k] = l[k]
      /\ Append(l, e)[Len(l) + 1] = e
  BY AppendLog DEF Follows
<1> QED BY <1>1 DEF Follows

\* What an event adds to the records of a type.
Adds(e, type, S) == IF e.type = type THEN S ELSE {}

LEMMA PositionsGrow ==
  ASSUME NEW l, NEW e, NEW m, Follows(m, l, e), NEW type
  PROVE  /\ \A k : k \in Positions(m, type)
                     <=> k \in Positions(l, type) \/ (k = Len(m) /\ e.type = type)
         /\ \A k \in Positions(l, type) : k \in DOMAIN l /\ m[k] = l[k] /\ k # Len(m)
         /\ m[Len(m)] = e
<1>1. /\ Len(l) \in Nat /\ DOMAIN l = 1..Len(l) /\ DOMAIN m = 1..(Len(l) + 1)
      /\ \A k \in DOMAIN l : m[k] = l[k]
      /\ Len(m) = Len(l) + 1 /\ m[Len(m)] = e
  BY FollowsFacts
<1> DEFINE n == Len(m)
<1>2. DOMAIN m = DOMAIN l \cup {n} /\ n \notin DOMAIN l
  BY <1>1
<1>3. m[n] = e
  BY <1>1
<1> HIDE DEF n
<1>4. \A k : k \in Positions(m, type) <=> k \in Positions(l, type) \/ (k = n /\ e.type = type)
  BY <1>1, <1>2, <1>3 DEF Positions
<1>5. \A k \in Positions(l, type) : k \in DOMAIN l /\ m[k] = l[k] /\ k # n
  BY <1>1, <1>2 DEF Positions
<1> QED BY <1>3, <1>4, <1>5 DEF n

LEMMA RecordsGrow ==
  ASSUME NEW l, NEW e, NEW m, Follows(m, l, e), NEW type
  PROVE  Recorded(m, type) = Recorded(l, type) \cup Adds(e, type, {e})
<1> DEFINE n == Len(m)
           P == Positions(l, type)
           M == Positions(m, type)
<1>1. /\ \A k : k \in M <=> k \in P \/ (k = n /\ e.type = type)
      /\ \A k \in P : m[k] = l[k]
      /\ m[n] = e
  BY PositionsGrow
<1> HIDE DEF n, P, M
<1> QED BY <1>1 DEF Recorded, P, M, Adds

LEMMA RecordOfGrows ==
  ASSUME NEW l, NEW e, NEW m, Follows(m, l, e), NEW type, NEW i
  PROVE  RecordOf(m, type, i) = RecordOf(l, type, i) \cup Adds(e, type, {x \in {e} : x.info = i})
<1>1. Recorded(m, type) = Recorded(l, type) \cup Adds(e, type, {e})
  BY RecordsGrow
<1>2. \A log1 : RecordOf(log1, type, i) = {x \in Recorded(log1, type) : x.info = i}
  BY DEF RecordOf, Recorded
<1> QED BY <1>1, <1>2 DEF Adds

\* What stays true of a log that grows.
LEMMA LogsGrow ==
  ASSUME NEW l, NEW e, NEW m, Follows(m, l, e)
  PROVE  /\ \A k \in DOMAIN l : k \in DOMAIN m /\ m[k] = l[k]
         /\ KnownPolicies(l) \subseteq KnownPolicies(m)
         /\ \A k : IsAllowedAccess(l, k) => IsAllowedAccess(m, k)
         /\ \A policy : RecognizedOpportunities(m, policy) \cap DOMAIN l
                          = RecognizedOpportunities(l, policy)
         /\ \A k, policy : DispositionFor(l, k, policy) \subseteq DispositionFor(m, k, policy)
         /\ \A i : Lineage(l, i) \subseteq Lineage(m, i)
<1>1. /\ Len(l) \in Nat /\ DOMAIN l = 1..Len(l) /\ DOMAIN m = 1..(Len(l) + 1)
      /\ \A k \in DOMAIN l : m[k] = l[k]
  BY FollowsFacts
<1>2. \A k \in DOMAIN l : k \in DOMAIN m /\ m[k] = l[k]
  BY <1>1
<1>3. \A type : Positions(l, type) = Positions(m, type) \cap DOMAIN l
  BY <1>2 DEF Positions
<1>4. \A type : Recorded(l, type) \subseteq Recorded(m, type)
  BY <1>2, <1>3 DEF Recorded
<1>5. KnownPolicies(l) \subseteq KnownPolicies(m)
  BY <1>4 DEF KnownPolicies
<1>6. \A k : IsAllowedAccess(l, k) => IsAllowedAccess(m, k)
  BY <1>2, <1>3 DEF IsAllowedAccess
<1>7. ASSUME NEW policy
      PROVE  RecognizedOpportunities(m, policy) \cap DOMAIN l = RecognizedOpportunities(l, policy)
  <2>1. PolicySequence(l, policy) = PolicySequence(m, policy) \cap DOMAIN l
    BY <1>2, <1>3 DEF PolicySequence
  <2>2. PolicySequence(m, policy) \subseteq DOMAIN m
    BY DEF PolicySequence, Positions
  <2>3. ASSUME NEW k \in DOMAIN l PROVE Recognizes(m, policy, k) <=> Recognizes(l, policy, k)
    <3>1. (\E s \in PolicySequence(m, policy) : s < k)
            <=> (\E s \in PolicySequence(l, policy) : s < k)
      <4> DEFINE M == PolicySequence(m, policy)
                 L == PolicySequence(l, policy)
      <4>1. L = M \cap DOMAIN l /\ M \subseteq DOMAIN m
        BY <2>1, <2>2
      <4> HIDE DEF M, L
      <4>2. ASSUME NEW s \in M, s < k PROVE s \in L
        <5>1. s \in 1..(Len(l) + 1) /\ k \in 1..Len(l)
          BY <1>1, <4>1
        <5>2. s \in DOMAIN l
          BY <1>1, <4>2, <5>1
        <5> QED BY <4>1, <5>2
      <4>3. L \subseteq M
        BY <4>1
      <4>4. (\E s \in M : s < k) <=> (\E s \in L : s < k)
        BY <4>2, <4>3
      <4> QED BY <4>4 DEF M, L
    <3> QED BY <1>2, <3>1 DEF Recognizes
  <2> QED BY <1>2, <2>3 DEF RecognizedOpportunities
<1>8. \A k, policy : DispositionFor(l, k, policy) \subseteq DispositionFor(m, k, policy)
  BY <1>2, <1>3 DEF DispositionFor
<1>9. \A i : Lineage(l, i) \subseteq Lineage(m, i)
  BY <1>2, <1>3 DEF Lineage, RecordOf
<1> QED BY <1>2, <1>5, <1>6, <1>7, <1>8, <1>9


-----------------------------------------------------------------------------
\* Ancestry.  What a recursion computes is shown with the least counterexample (WFMin).

LEMMA LeastNatural ==
  ASSUME NEW S \in SUBSET Nat, S # {}
  PROVE  \E x \in S : \A y \in S : x <= y
<1>1. PICK x \in S : \A y \in S : ~(<<y, x>> \in OpToRel(<, Nat))
  BY NatLessThanWellFounded, WFMin
<1>2. ASSUME NEW y \in S PROVE x <= y
  <2>1. CASE y < x
    <3> DEFINE p == <<y, x>>
    <3>1. p \in Nat \X Nat /\ p[1] < p[2]
      BY <2>1
    <3>2. p \in OpToRel(<, Nat)
      BY <3>1 DEF OpToRel
    <3> QED BY <3>2, <1>1
  <2> QED BY <2>1
<1> QED BY <1>2

\* One generation further, and an unfolding of the recursion as far as n.
Further(l, S) == UNION {{j} \cup Parents(l, j) : j \in S}
Unfolds(f, l, i, n) == f[0] = {i} /\ \A k \in 1..n : f[k] = Further(l, f[k - 1])

LEMMA UnfoldsAgree ==
  ASSUME NEW l, NEW i, NEW a \in Nat, NEW b \in Nat, NEW f, NEW g,
         Unfolds(f, l, i, a), Unfolds(g, l, i, b), NEW n \in Nat, n <= a, n <= b
  PROVE  f[n] = g[n]
<1> DEFINE F == {k \in 0..n : f[k] # g[k]}
<1>1. SUFFICES ASSUME F # {} PROVE FALSE
  OBVIOUS
<1>2. PICK k \in F : \A j \in F : k <= j
  <2>1. F \in SUBSET Nat
    OBVIOUS
  <2> HIDE DEF F
  <2> QED BY <1>1, <2>1, LeastNatural
<1>3. k # 0
  BY DEF Unfolds
<1>4. k - 1 \in 0..n /\ k - 1 \notin F /\ k \in 1..a /\ k \in 1..b
  BY <1>2, <1>3
<1>5. f[k - 1] = g[k - 1]
  BY <1>4
<1>6. f[k] = Further(l, f[k - 1]) /\ g[k] = Further(l, g[k - 1])
  BY <1>4 DEF Unfolds
<1> QED BY <1>5, <1>6

LEMMA UnfoldingExists ==
  ASSUME NEW l, NEW i, NEW n \in Nat
  PROVE  \E f : Unfolds(f, l, i, n)
<1> DEFINE F == {k \in Nat : ~\E f : Unfolds(f, l, i, k)}
<1>1. SUFFICES ASSUME F # {} PROVE FALSE
  OBVIOUS
<1>2. PICK k \in F : \A j \in F : k <= j
  <2>1. F \in SUBSET Nat
    OBVIOUS
  <2> HIDE DEF F
  <2> QED BY <1>1, <2>1, LeastNatural
<1>3. CASE k = 0
  <2> DEFINE g == [m \in {0} |-> {i}]
  <2>1. Unfolds(g, l, i, 0)
    BY DEF Unfolds
  <2> QED BY <1>2, <1>3, <2>1
<1>4. CASE k # 0
  <2>1. k - 1 \in Nat /\ k - 1 \notin F
    BY <1>2, <1>4
  <2>2. PICK f : Unfolds(f, l, i, k - 1)
    BY <2>1
  <2> DEFINE g == [m \in 0..k |-> IF m = k THEN Further(l, f[k - 1]) ELSE f[m]]
  <2>3. g[0] = {i}
    BY <1>4, <2>2 DEF Unfolds
  <2>4. ASSUME NEW m \in 1..k PROVE g[m] = Further(l, g[m - 1])
    <3>1. m - 1 \in 0..k /\ m - 1 # k
      OBVIOUS
    <3>2. g[m - 1] = f[m - 1]
      BY <3>1
    <3>3. CASE m = k
      BY <3>2, <3>3
    <3>4. CASE m # k
      <4>1. m \in 1..(k - 1) /\ g[m] = f[m]
        BY <3>4
      <4> QED BY <2>2, <3>2, <4>1 DEF Unfolds
    <3> QED BY <3>3, <3>4
  <2>5. Unfolds(g, l, i, k)
    <3> HIDE DEF g
    <3> QED BY <2>3, <2>4 DEF Unfolds
  <2> QED BY <1>2, <2>5
<1> QED BY <1>3, <1>4

\* What Ancestry recurs on.
Reaches(f, l, i) == f = [n \in Nat |-> IF n = 0 THEN {i} ELSE Further(l, f[n - 1])]

LEMMA ReachExists ==
  ASSUME NEW l, NEW i
  PROVE  \E f : Reaches(f, l, i)
<1> DEFINE U(n) == CHOOSE f : Unfolds(f, l, i, n)
           f == [n \in Nat |-> U(n)[n]]
<1>1. ASSUME NEW n \in Nat PROVE Unfolds(U(n), l, i, n)
  BY UnfoldingExists
<1>2. ASSUME NEW n \in Nat PROVE f[n] = IF n = 0 THEN {i} ELSE Further(l, f[n - 1])
  <2>1. Unfolds(U(n), l, i, n) /\ f[n] = U(n)[n]
    BY <1>1
  <2>2. CASE n = 0
    <3> HIDE DEF U
    <3> QED BY <2>1, <2>2 DEF Unfolds
  <2>3. CASE n # 0
    <3>1. n - 1 \in Nat /\ n - 1 <= n /\ n \in 1..n
      BY <2>3
    <3>2. Unfolds(U(n - 1), l, i, n - 1) /\ f[n - 1] = U(n - 1)[n - 1]
      BY <1>1, <3>1
    <3> HIDE DEF U
    <3>3. U(n)[n - 1] = U(n - 1)[n - 1]
      BY <2>1, <3>1, <3>2, UnfoldsAgree
    <3>4. U(n)[n] = Further(l, U(n)[n - 1])
      BY <2>1, <3>1 DEF Unfolds
    <3> QED BY <2>1, <2>3, <3>2, <3>3, <3>4
  <2> QED BY <2>2, <2>3
<1>3. Reaches(f, l, i)
  <2>1. f = [n \in Nat |-> f[n]]
    OBVIOUS
  <2> HIDE DEF f
  <2>2. [n \in Nat |-> f[n]] = [n \in Nat |-> IF n = 0 THEN {i} ELSE Further(l, f[n - 1])]
    BY <1>2
  <2> QED BY <2>1, <2>2 DEF Reaches
<1> QED BY <1>3

LEMMA AncestryReaches ==
  ASSUME NEW l, NEW i
  PROVE  \E f : Reaches(f, l, i) /\ Ancestry(l, i) = f[Cardinality(Recorded(l, "lineage"))]
<1> DEFINE f == CHOOSE g : Reaches(g, l, i)
<1>1. Reaches(f, l, i)
  BY ReachExists
<1>2. Ancestry(l, i) = f[Cardinality(Recorded(l, "lineage"))]
  BY DEF Ancestry, Reaches, Further
<1> QED BY <1>1, <1>2


\* The parents of everything in S are in S.
Closed(l, S) == \A j \in S : Parents(l, j) \subseteq S

\* The informations that have a lineage: the only ones with parents.
Descended(l) == {n.info : n \in Recorded(l, "lineage")}

LEMMA ImageIsNoLarger ==
  ASSUME NEW S, IsFiniteSet(S), NEW T, NEW f \in [S -> T], \A t \in T : \E s \in S : f[s] = t
  PROVE  IsFiniteSet(T) /\ Cardinality(T) <= Cardinality(S)
BY FS_Surjection, Fun_IsSurj

LEMMA DescendedIsFinite ==
  ASSUME NEW l, IsLog(l)
  PROVE  /\ IsFiniteSet(Recorded(l, "lineage")) /\ IsFiniteSet(Descended(l))
         /\ Cardinality(Recorded(l, "lineage")) \in Nat
         /\ Cardinality(Descended(l)) <= Cardinality(Recorded(l, "lineage"))
<1> DEFINE P == Positions(l, "lineage")
           R == Recorded(l, "lineage")
           f == [k \in P |-> l[k]]
           g == [n \in R |-> n.info]
<1>1. IsFiniteSet(P)
  <2>1. P \subseteq 1..Len(l) /\ Len(l) \in Nat
    BY LogFacts DEF Positions
  <2>2. IsFiniteSet(1..Len(l))
    BY <2>1, FS_Interval
  <2> QED BY <2>1, <2>2, FS_Subset
<1>2. IsFiniteSet(R)
  <2>1. f \in [P -> R] /\ \A n \in R : \E k \in P : f[k] = n
    BY DEF Recorded
  <2> HIDE DEF f, R, P
  <2> QED BY <1>1, <2>1, ImageIsNoLarger
<1>3. IsFiniteSet(Descended(l)) /\ Cardinality(Descended(l)) <= Cardinality(R)
  <2>1. g \in [R -> Descended(l)] /\ \A i \in Descended(l) : \E n \in R : g[n] = i
    BY DEF Descended
  <2> HIDE DEF g, R, P
  <2> QED BY <1>2, <2>1, ImageIsNoLarger
<1> QED BY <1>2, <1>3, FS_CardinalityType

LEMMA ReachSteps ==
  ASSUME NEW l, NEW i, NEW f, Reaches(f, l, i)
  PROVE  /\ f[0] = {i}
         /\ \A n \in Nat \ {0} : n - 1 \in Nat /\ f[n] = Further(l, f[n - 1])
BY DEF Reaches

LEMMA FurtherFacts ==
  ASSUME NEW l, NEW S
  PROVE  /\ S \subseteq Further(l, S)
         /\ \A j \in S : Parents(l, j) \subseteq Further(l, S)
         /\ Closed(l, S) => Further(l, S) = S
         /\ \A T : S \subseteq T /\ Closed(l, T) => Further(l, S) \subseteq T
BY DEF Further, Closed

LEMMA OnlyDescendedHaveParents ==
  ASSUME NEW l, NEW j, Parents(l, j) # {}
  PROVE  j \in Descended(l)
BY DEF Parents, IsBound, Lineage, RecordOf, Descended, Recorded

\* An open generation has one more descended member than the generation before it.
LEMMA ReachCounts ==
  ASSUME NEW l, IsLog(l), NEW i, NEW f, Reaches(f, l, i), NEW n \in Nat
  PROVE  Closed(l, f[n]) \/ Cardinality(f[n] \cap Descended(l)) >= n + 1
<1> DEFINE D == Descended(l)
           Open(k) == ~Closed(l, f[k]) /\ ~(Cardinality(f[k] \cap D) >= k + 1)
           F == {k \in Nat : Open(k)}
<1>1. SUFFICES ASSUME F # {} PROVE FALSE
  OBVIOUS
<1>2. PICK k \in F : \A j \in F : k <= j
  <2>1. F \in SUBSET Nat
    OBVIOUS
  <2> HIDE DEF F
  <2> QED BY <1>1, <2>1, LeastNatural
<1>3. k \in Nat /\ ~Closed(l, f[k]) /\ ~(Cardinality(f[k] \cap D) >= k + 1)
  BY <1>2
<1>4. PICK j \in f[k] : ~(Parents(l, j) \subseteq f[k])
  BY <1>3 DEF Closed
<1>5. j \in D
  BY <1>4, OnlyDescendedHaveParents
<1> HIDE DEF D
<1>6. IsFiniteSet(D)
  BY DescendedIsFinite DEF D
<1>7. \A S : IsFiniteSet(S \cap D) /\ Cardinality(S \cap D) \in Nat
  BY <1>6, FS_Subset, FS_CardinalityType
<1>8. CASE k = 0
  <2>1. f[k] \cap D = {j}
    <3>1. f[k] = {i}
      BY <1>8, ReachSteps
    <3> QED BY <1>4, <1>5, <3>1
  <2>2. Cardinality(f[k] \cap D) = 1
    BY <2>1, FS_Singleton
  <2> QED BY <1>3, <1>8, <2>2
<1>9. CASE k # 0
  <2>1. k - 1 \in Nat /\ f[k] = Further(l, f[k - 1])
    BY <1>3, <1>9, ReachSteps
  <2> DEFINE before == f[k - 1]
             now == f[k]
  <2>2. before \subseteq now /\ j \notin before /\ ~Closed(l, before)
    BY <1>3, <1>4, <2>1, FurtherFacts
  <2>3. Cardinality(before \cap D) >= k
    <3>1. k - 1 \notin F
      BY <1>2, <2>1
    <3> QED BY <2>1, <2>2, <3>1
  <2> HIDE DEF before, now
  <2>4. Cardinality((before \cap D) \cup {j}) = Cardinality(before \cap D) + 1
    BY <1>7, <2>2, FS_AddElement
  <2>5. (before \cap D) \cup {j} \subseteq now \cap D
    BY <1>4, <1>5, <2>2 DEF now
  <2>6. Cardinality((before \cap D) \cup {j}) <= Cardinality(now \cap D)
    BY <1>7, <2>5, FS_Subset
  <2>7. Cardinality(now \cap D) \in Nat /\ Cardinality(before \cap D) \in Nat
    BY <1>7
  <2> QED BY <1>3, <2>3, <2>4, <2>6, <2>7 DEF now
<1> QED BY <1>8, <1>9

\* An ancestry is the least set with its item that the parents of its members do not leave.
LEMMA AncestryIsClosed ==
  ASSUME NEW l, IsLog(l), NEW i
  PROVE  /\ i \in Ancestry(l, i) /\ Closed(l, Ancestry(l, i))
         /\ \A S : i \in S /\ Closed(l, S) => Ancestry(l, i) \subseteq S
<1> DEFINE N == Cardinality(Recorded(l, "lineage"))
<1>1. PICK f : Reaches(f, l, i) /\ Ancestry(l, i) = f[N]
  BY AncestryReaches
<1>2. N \in Nat
  BY DescendedIsFinite
<1>3. Closed(l, f[N])
  <2>1. Closed(l, f[N]) \/ Cardinality(f[N] \cap Descended(l)) >= N + 1
    <3> HIDE DEF N
    <3> QED BY <1>1, <1>2, ReachCounts
  <2>2. Cardinality(f[N] \cap Descended(l)) \in Nat
        /\ Cardinality(f[N] \cap Descended(l)) <= Cardinality(Descended(l))
    BY DescendedIsFinite, FS_Subset, FS_CardinalityType
  <2>3. Cardinality(Descended(l)) \in Nat /\ Cardinality(Descended(l)) <= N
    BY DescendedIsFinite, FS_CardinalityType
  <2> HIDE DEF N
  <2> QED BY <1>2, <2>1, <2>2, <2>3
<1> HIDE DEF N
<1>4. i \in f[N]
  <2> DEFINE F == {k \in Nat : i \notin f[k]}
  <2>1. F = {}
    <3>1. SUFFICES ASSUME F # {} PROVE FALSE
      OBVIOUS
    <3>2. PICK k \in F : \A j \in F : k <= j
      <4>1. F \in SUBSET Nat
        OBVIOUS
      <4> HIDE DEF F
      <4> QED BY <3>1, <4>1, LeastNatural
    <3>3. k # 0
      BY <1>1, ReachSteps
    <3>4. k - 1 \in Nat /\ f[k] = Further(l, f[k - 1])
      BY <1>1, <3>3, ReachSteps
    <3>5. i \in f[k - 1]
      BY <3>2, <3>4
    <3> QED BY <3>4, <3>5, FurtherFacts
  <2> QED BY <1>2, <2>1
<1>5. ASSUME NEW S, i \in S, Closed(l, S) PROVE f[N] \subseteq S
  <2> DEFINE F == {k \in Nat : ~(f[k] \subseteq S)}
  <2>1. F = {}
    <3>1. SUFFICES ASSUME F # {} PROVE FALSE
      OBVIOUS
    <3>2. PICK k \in F : \A j \in F : k <= j
      <4>1. F \in SUBSET Nat
        OBVIOUS
      <4> HIDE DEF F
      <4> QED BY <3>1, <4>1, LeastNatural
    <3>3. k # 0
      BY <1>1, <1>5, ReachSteps
    <3>4. k - 1 \in Nat /\ f[k] = Further(l, f[k - 1])
      BY <1>1, <3>3, ReachSteps
    <3>5. f[k - 1] \subseteq S
      BY <3>2, <3>4
    <3> QED BY <1>5, <3>2, <3>4, <3>5, FurtherFacts
  <2> QED BY <1>2, <2>1
<1> QED BY <1>1, <1>3, <1>4, <1>5

\* What something was made of was made of nothing else than that.
LEMMA AncestryOfParents ==
  ASSUME NEW l, IsLog(l), NEW x, NEW i \in Parents(l, x)
  PROVE  Ancestry(l, i) \subseteq Ancestry(l, x)
<1>1. x \in Ancestry(l, x) /\ Closed(l, Ancestry(l, x))
  BY AncestryIsClosed
<1>2. i \in Ancestry(l, x)
  BY <1>1 DEF Closed
<1> QED BY <1>1, <1>2, AncestryIsClosed


-----------------------------------------------------------------------------
\* Composition.

LEMMA OnlyOfOne ==
  ASSUME NEW x
  PROVE  Only({x}) = x
BY DEF Only

\* The rank of a composition is the greatest of its policies.
LEMMA RankExists ==
  ASSUME NEW P, P # {}, P \subseteq DOMAIN Terms
  PROVE  \E c \in 0..4 : (\E p \in P : Terms[p].class = c) /\ (\A p \in P : Terms[p].class <= c)
<1> DEFINE S == {4 - Terms[p].class : p \in P}
<1>1. \A p \in P : Terms[p].class \in 0..4
  BY TermsAreComplete
<1>2. S \in SUBSET Nat /\ S # {}
  BY <1>1
<1>3. PICK x \in S : \A y \in S : x <= y
  <2> HIDE DEF S
  <2> QED BY <1>2, LeastNatural
<1>4. PICK q \in P : x = 4 - Terms[q].class
  BY <1>3
<1>5. ASSUME NEW p \in P PROVE Terms[p].class <= Terms[q].class
  <2>1. 4 - Terms[p].class \in S
    OBVIOUS
  <2>2. x <= 4 - Terms[p].class
    BY <1>3, <2>1
  <2> QED BY <1>1, <1>4, <2>2
<1> QED BY <1>1, <1>4, <1>5

\* The composition c is the strictest reading of the policies P.
StrictestOf(c, P) ==
    /\ c.policies = P /\ c.class \in 0..4
    /\ \E p \in P : Terms[p].class = c.class
    /\ \A p \in P : Terms[p].class <= c.class
    /\ c.purposes = AllowedByAll(P, "purposes")
    /\ c.recipients = AllowedByAll(P, "recipients")
    /\ c.authorities = AllowedByAll(P, "authorities")

LEMMA ComposePoliciesFacts ==
  ASSUME NEW P, P # {}, P \subseteq DOMAIN Terms, NEW sources, NEW conflicts
  PROVE  StrictestOf(ComposePolicies(P, sources, conflicts), P)
<1> DEFINE c == ComposePolicies(P, sources, conflicts)
<1> DEFINE rank == CHOOSE r \in 0..4 : /\ \E p \in P : Terms[p].class = r
                                       /\ \A p \in P : Terms[p].class <= r
<1>1. /\ rank \in 0..4
      /\ \E p \in P : Terms[p].class = rank
      /\ \A p \in P : Terms[p].class <= rank
  BY RankExists
<1>2. /\ c.policies = P /\ c.class = rank
      /\ c.purposes = AllowedByAll(P, "purposes")
      /\ c.recipients = AllowedByAll(P, "recipients")
      /\ c.authorities = AllowedByAll(P, "authorities")
  BY DEF ComposePolicies
<1> HIDE DEF c, rank
<1>3. StrictestOf(c, P)
  BY <1>1, <1>2 DEF StrictestOf
<1> QED BY <1>3 DEF c

\* More policies permit less.
LEMMA MorePoliciesAllowLess ==
  ASSUME NEW P, P # {}, NEW Q, P \subseteq Q, NEW dimension
  PROVE  AllowedByAll(Q, dimension) \subseteq AllowedByAll(P, dimension)
BY DEF AllowedByAll

\* What neither a quarantine nor a view decides is composed along the ancestry.
LEMMA CompositionOfAncestry ==
  ASSUME NEW l, NEW i, Quarantine(l, i) = {}, View(l, i) = {}, NEW A, A = Ancestry(l, i)
  PROVE  Composition(l, i) = ComposeAll(l, A, PoliciesOf(l, A))
<1>1. UNION {{ComposeAll(l, made, policies) : policies \in {PoliciesOf(l, made)}} :
               made \in {Resolve(l, i)}} = {ComposeAll(l, A, PoliciesOf(l, A))}
  BY DEF Resolve
<1>2. Composition(l, i) = Only({ComposeAll(l, A, PoliciesOf(l, A))})
  BY <1>1 DEF Composition
<1> QED BY <1>2, OnlyOfOne

LEMMA ComposedFacts ==
  ASSUME NEW l, NEW A, GovernanceIsWellFormed(l), NEW i \in A, IsBound(l, i),
         NEW P, P = PoliciesOf(l, A) \cap KnownPolicies(l),
          NEW c, c = ComposeAll(l, A, PoliciesOf(l, A))
  PROVE  P # {} /\ StrictestOf(c, P)
<1>1. PICK b \in Binding(l, i) : TRUE
  BY DEF IsBound
<1>2. b \in Recorded(l, "binding")
  BY <1>1 DEF Binding, RecordOf, Recorded
<1>3. /\ b.policies # {} /\ b.policies \subseteq KnownPolicies(l)
      /\ KnownPolicies(l) \subseteq DOMAIN Terms
  BY <1>2 DEF GovernanceIsWellFormed
<1>4. b.policies \subseteq PoliciesOf(l, A)
  BY <1>1 DEF PoliciesOf
<1>5. P # {} /\ P \subseteq DOMAIN Terms
  BY <1>3, <1>4
<1> DEFINE s == {j \in A : Parents(l, j) = {}}
           k == {x \in {Conflict("incomplete_lineage", Operations),
                        Conflict("missing_policy_version", Operations)} :
                   IF x.kind = "incomplete_lineage" THEN \E j \in A : ~IsBound(l, j)
                   ELSE ~(PoliciesOf(l, A) \subseteq KnownPolicies(l))}
<1>6. c = ComposePolicies(P, s, k)
  BY DEF ComposeAll
<1> HIDE DEF s, k
<1>7. StrictestOf(ComposePolicies(P, s, k), P)
  BY <1>5, ComposePoliciesFacts
<1> QED BY <1>5, <1>6, <1>7

\* Whatever a log says was made of i is governed at least as strictly as i.
LEMMA DerivationTightens ==
  ASSUME NEW l, IsLog(l), GovernanceIsWellFormed(l),
         NEW n \in Recorded(l, "lineage"), NEW i \in n.sources,
         IsBound(l, n.info), Quarantine(l, n.info) = {}, View(l, n.info) = {},
         IsBound(l, i), Quarantine(l, i) = {}, View(l, i) = {},
         NEW made, made = Composition(l, n.info), NEW source, source = Composition(l, i)
  PROVE  /\ source.policies \subseteq made.policies /\ source.class <= made.class
         /\ made.purposes \subseteq source.purposes
         /\ made.recipients \subseteq source.recipients
         /\ made.authorities \subseteq source.authorities
<1> DEFINE A == Ancestry(l, n.info)
           B == Ancestry(l, i)
           P == PoliciesOf(l, A) \cap KnownPolicies(l)
           Q == PoliciesOf(l, B) \cap KnownPolicies(l)
<1>1. i \in Parents(l, n.info)
  <2>1. n \in Lineage(l, n.info)
    BY DEF Lineage, RecordOf, Recorded
  <2> QED BY <2>1 DEF Parents
<1>2. B \subseteq A /\ n.info \in A /\ i \in B
  BY <1>1, AncestryOfParents, AncestryIsClosed
<1>3. Q \subseteq P
  BY <1>2 DEF PoliciesOf
<1>4. made = ComposeAll(l, A, PoliciesOf(l, A)) /\ source = ComposeAll(l, B, PoliciesOf(l, B))
  BY CompositionOfAncestry
<1> HIDE DEF A, B
<1>5. P # {} /\ StrictestOf(made, P) /\ Q # {} /\ StrictestOf(source, Q)
  BY <1>2, <1>4, ComposedFacts
<1> HIDE DEF P, Q
<1>6. /\ made.policies = P /\ made.class \in 0..4
      /\ \A p \in P : Terms[p].class <= made.class
      /\ made.purposes = AllowedByAll(P, "purposes")
      /\ made.recipients = AllowedByAll(P, "recipients")
      /\ made.authorities = AllowedByAll(P, "authorities")
      /\ source.policies = Q /\ source.class \in 0..4
      /\ \E p \in Q : Terms[p].class = source.class
      /\ source.purposes = AllowedByAll(Q, "purposes")
      /\ source.recipients = AllowedByAll(Q, "recipients")
      /\ source.authorities = AllowedByAll(Q, "authorities")
  BY <1>5 DEF StrictestOf
<1>7. source.class <= made.class
  BY <1>3, <1>5, <1>6
<1>8. /\ AllowedByAll(P, "purposes") \subseteq AllowedByAll(Q, "purposes")
      /\ AllowedByAll(P, "recipients") \subseteq AllowedByAll(Q, "recipients")
      /\ AllowedByAll(P, "authorities") \subseteq AllowedByAll(Q, "authorities")
  BY <1>3, <1>5, MorePoliciesAllowLess
<1> QED BY <1>3, <1>5, <1>6, <1>7, <1>8


-----------------------------------------------------------------------------
\* What a step may append, and what it leaves well formed.

\* An event that replay accepts, or a fact.
Admissible(l, e) ==
    /\ e.type # "policy"
    /\ IF e.type = "fact" THEN IsFact(e) ELSE Legal(l, e)
    /\ e.type = "checkpoint" => e.last \in 0..Len(l)

LEMMA LegalByType ==
  ASSUME NEW l, NEW e
  PROVE  /\ e.type = "source_policy" => (Legal(l, e) <=> IsRecorded(l, SchemaRecorded(e.contract)))
         /\ e.type = "fact" => (Legal(l, e) <=> LegalFact(l, e))
         /\ e.type = "disposition" => (Legal(l, e) <=> LegalDisposition(l, e))
         /\ e.type \in {"outcome", "feedback"} => (Legal(l, e) <=> LegalLink(l, e))
         /\ e.type = "checkpoint" =>
              (Legal(l, e) <=> e.last >= LastCompleted(l, e.consumer) /\ e.observed >= e.last)
         /\ e.type = "lineage" => (Legal(l, e) <=> LegalLineage(l, e))
         /\ e.type = "binding" => (Legal(l, e) <=> LegalBinding(l, e))
         /\ e.type = "quarantine" => (Legal(l, e) <=> LegalQuarantine(l, e))
         /\ e.type = "decision" => (Legal(l, e) <=> LegalDecision(l, e))
         /\ e.type = "view" => (Legal(l, e) <=> LegalView(l, e))
         /\ e.type = "schema" => Legal(l, e)
<1>1. e.type = "source_policy" => (Legal(l, e) <=> IsRecorded(l, SchemaRecorded(e.contract)))
  BY Zenon DEF Legal
<1>2. e.type = "fact" => (Legal(l, e) <=> LegalFact(l, e))
  BY Zenon DEF Legal
<1>3. e.type = "disposition" => (Legal(l, e) <=> LegalDisposition(l, e))
  BY Zenon DEF Legal
<1>4. e.type \in {"outcome", "feedback"} => (Legal(l, e) <=> LegalLink(l, e))
  BY Zenon DEF Legal
<1>5. e.type = "checkpoint" =>
        (Legal(l, e) <=> e.last >= LastCompleted(l, e.consumer) /\ e.observed >= e.last)
  BY Zenon DEF Legal
<1>6. e.type \in {"lineage", "binding", "quarantine", "decision", "view", "schema"} =>
        (Legal(l, e) <=> LegalGovernance(l, e))
  BY Zenon DEF Legal
<1>7. e.type = "lineage" => (LegalGovernance(l, e) <=> LegalLineage(l, e))
  BY Zenon DEF LegalGovernance
<1>8. e.type = "binding" => (LegalGovernance(l, e) <=> LegalBinding(l, e))
  BY Zenon DEF LegalGovernance
<1>9. e.type = "quarantine" => (LegalGovernance(l, e) <=> LegalQuarantine(l, e))
  BY Zenon DEF LegalGovernance
<1>10. e.type = "decision" => (LegalGovernance(l, e) <=> LegalDecision(l, e))
  BY Zenon DEF LegalGovernance
<1>11. e.type = "view" => (LegalGovernance(l, e) <=> LegalView(l, e))
  BY Zenon DEF LegalGovernance
<1>12. e.type = "schema" => LegalGovernance(l, e)
  BY Zenon DEF LegalGovernance
<1>13. /\ e.type = "lineage" => (Legal(l, e) <=> LegalLineage(l, e))
       /\ e.type = "binding" => (Legal(l, e) <=> LegalBinding(l, e))
       /\ e.type = "quarantine" => (Legal(l, e) <=> LegalQuarantine(l, e))
       /\ e.type = "decision" => (Legal(l, e) <=> LegalDecision(l, e))
       /\ e.type = "view" => (Legal(l, e) <=> LegalView(l, e))
       /\ e.type = "schema" => Legal(l, e)
  BY <1>6, <1>7, <1>8, <1>9, <1>10, <1>11, <1>12, Zenon
<1> QED BY <1>1, <1>2, <1>3, <1>4, <1>5, <1>13, Zenon

LEMMA GovernanceGrows ==
  ASSUME NEW l, GovernanceIsWellFormed(l), NEW e, Admissible(l, e), NEW m, Follows(m, l, e)
  PROVE  GovernanceIsWellFormed(m)
<1>1. ASSUME NEW type
      PROVE  Recorded(m, type) = Recorded(l, type) \cup Adds(e, type, {e})
  BY RecordsGrow
<1>2. KnownPolicies(m) = KnownPolicies(l)
  BY <1>1 DEF KnownPolicies, Admissible, Adds
<1>3. ASSUME e.type = "lineage", NEW n \in Recorded(l, "lineage"), n.info = e.info PROVE n = e
  <2>1. LegalLineage(l, e)
    BY <1>3, LegalByType DEF Admissible
  <2>2. n \in Lineage(l, e.info)
    BY <1>3 DEF Lineage, RecordOf, Recorded
  <2> QED BY <2>1, <2>2 DEF LegalLineage
<1>4. \A x, n \in Recorded(m, "lineage") : x.info = n.info => x = n
  BY <1>1, <1>3 DEF GovernanceIsWellFormed, Adds
<1>5. e.type = "binding" => e.policies # {} /\ e.policies \subseteq KnownPolicies(l)
  BY LegalByType DEF Admissible, LegalBinding
<1>6. \A b \in Recorded(m, "binding") : b.policies # {} /\ b.policies \subseteq KnownPolicies(m)
  BY <1>1, <1>2, <1>5 DEF GovernanceIsWellFormed, Adds
<1> QED BY <1>2, <1>4, <1>6 DEF GovernanceIsWellFormed

LEMMA DispositionsGrow ==
  ASSUME NEW l, OneDispositionEach(l), NEW e, Admissible(l, e), NEW m, Follows(m, l, e)
  PROVE  OneDispositionEach(m)
<1> DEFINE P == Positions(l, "disposition")
           n == Len(m)
<1>1. /\ \A k : k \in Positions(m, "disposition") <=> k \in P \/ (k = n /\ e.type = "disposition")
      /\ \A k \in P : k \in DOMAIN l /\ m[k] = l[k]
      /\ m[n] = e
  BY PositionsGrow
<1>2. ASSUME NEW policy
      PROVE  RecognizedOpportunities(l, policy) \subseteq RecognizedOpportunities(m, policy)
  <2>1. RecognizedOpportunities(m, policy) \cap DOMAIN l = RecognizedOpportunities(l, policy)
    BY LogsGrow
  <2> QED BY <2>1
<1>3. e.type = "disposition" =>
        /\ e.source \in RecognizedOpportunities(l, e.policy)
        /\ \A d \in P : ~(l[d].source = e.source /\ l[d].policy = e.policy)
  <2>1. e.type = "disposition" => LegalDisposition(l, e)
    BY LegalByType DEF Admissible
  <2> QED BY <2>1 DEF LegalDisposition, DispositionFor
<1>4. \A d, x \in P :
        /\ l[d].source \in RecognizedOpportunities(l, l[d].policy)
        /\ l[d].source = l[x].source /\ l[d].policy = l[x].policy => d = x
  BY DEF OneDispositionEach
<1> HIDE DEF P, n
<1>5. ASSUME NEW d \in Positions(m, "disposition"), NEW x \in Positions(m, "disposition")
      PROVE  /\ m[d].source \in RecognizedOpportunities(m, m[d].policy)
             /\ m[d].source = m[x].source /\ m[d].policy = m[x].policy => d = x
  BY <1>1, <1>2, <1>3, <1>4
<1> QED BY <1>5 DEF OneDispositionEach

LEMMA WellFormedGrows ==
  ASSUME NEW l, WellFormed(l), NEW e, Admissible(l, e), NEW m, Follows(m, l, e)
  PROVE  WellFormed(m)
<1>0. IsLog(l)
  BY DEF WellFormed
<1>1. IsLog(m) /\ Len(m) = Len(l) + 1 /\ Len(l) \in Nat
  BY FollowsFacts
<1>2. ASSUME NEW type
      PROVE  /\ \A k : k \in Positions(m, type)
                         <=> k \in Positions(l, type) \/ (k = Len(m) /\ e.type = type)
             /\ \A k \in Positions(l, type) : m[k] = l[k]
  BY PositionsGrow
<1>3. m[Len(m)] = e
  BY PositionsGrow
<1>4. \A k \in Positions(m, "fact") : IsFact(m[k])
  BY <1>2, <1>3 DEF WellFormed, Admissible
<1>5. \A k \in Positions(m, "checkpoint") : m[k].last \in 0..Len(m)
  BY <1>1, <1>2, <1>3 DEF WellFormed, Admissible
<1>6. GovernanceIsWellFormed(m) /\ OneDispositionEach(m)
  BY <1>0, GovernanceGrows, DispositionsGrow DEF WellFormed
<1> QED BY <1>1, <1>4, <1>5, <1>6 DEF WellFormed


-----------------------------------------------------------------------------
\* What stays true of a process while the log grows.

LEMMA InPassGrows ==
  ASSUME NEW l, NEW e, NEW m, Follows(m, l, e), NEW p, NEW t, InPass(l, p, t)
  PROVE  InPass(m, p, t)
<1>1. \A k \in DOMAIN l : k \in DOMAIN m /\ m[k] = l[k]
  BY FollowsFacts
<1>2. \A k : IsAllowedAccess(l, k) => IsAllowedAccess(m, k) /\ m[k] = l[k]
  <2>1. \A k : IsAllowedAccess(l, k) => IsAllowedAccess(m, k)
    BY LogsGrow
  <2>2. \A k : IsAllowedAccess(l, k) => k \in DOMAIN l
    BY DEF IsAllowedAccess, Positions
  <2> QED BY <1>1, <2>1, <2>2
<1>3. \A i, n : WasShown(l, i, n) => WasShown(m, i, n)
  BY <1>2 DEF WasShown
<1>4. \A k \in RecognizedOpportunities(l, t.policy) :
        k \in RecognizedOpportunities(m, t.policy) /\ m[k] = l[k]
  <2>1. RecognizedOpportunities(m, t.policy) \cap DOMAIN l = RecognizedOpportunities(l, t.policy)
    BY LogsGrow
  <2> QED BY <1>1, <2>1
<1>5. p \in Workers /\ t.policy = SourcePolicy[p]
  BY DEF InPass
<1>6. CASE t.pc = "trail"
  BY <1>5, <1>6 DEF InPass
<1>7. CASE t.pc # "trail"
  <2>1. /\ t.source \in RecognizedOpportunities(m, t.policy) /\ m[t.source] = l[t.source]
        /\ t.infos = ToSet(m[t.source].infos)
    BY <1>4, <1>7 DEF InPass
  <2>2. ASSUME t.pc = "admit",
               NEW j \in DOMAIN m[t.source].infos, j <= Cardinality(t.receipts)
        PROVE  \E k \in t.receipts : IsAllowedAccess(m, k) /\ m[k].request.info = m[t.source].infos[j]
    <3>1. \E k \in t.receipts : IsAllowedAccess(l, k) /\ l[k].request.info = l[t.source].infos[j]
      BY <2>1, <2>2 DEF InPass
    <3> QED BY <1>2, <2>1, <3>1
  <2>3. t.pc = "lineage" => \A i \in t.infos : WasShown(m, i, t.cut)
    BY <1>3 DEF InPass
  <2> QED BY <1>5, <2>1, <2>2, <2>3 DEF InPass
<1> QED BY <1>6, <1>7

LEMMA TaskGrows ==
  ASSUME NEW l, NEW e, NEW m, Follows(m, l, e), NEW p, NEW t, TaskInv(l, p, t)
  PROVE  TaskInv(m, p, t)
<1>1. /\ Len(l) \in Nat /\ Len(m) = Len(l) + 1
      /\ \A k \in DOMAIN l : k \in DOMAIN m /\ m[k] = l[k]
  BY FollowsFacts
<1>2. Remembers(m, t)
  <2>1. Remembers(l, t)
    BY DEF TaskInv
  <2>2. 0..Len(l) \subseteq 0..Len(m) /\ DOMAIN l \subseteq DOMAIN m
    BY <1>1
  <2> QED BY <2>1, <2>2 DEF Remembers
<1>3. InPass(l, p, t) => InPass(m, p, t)
  BY InPassGrows
<1>4. Lineage(l, t.info) # {} => Lineage(m, t.info) # {}
  BY LogsGrow
<1>5. t.access \in Positions(l, "decision") =>
        t.access \in Positions(m, "decision") /\ m[t.access] = l[t.access]
  BY PositionsGrow
<1>6. KnownPolicies(l) \subseteq KnownPolicies(m)
  BY LogsGrow
<1> QED BY <1>2, <1>3, <1>4, <1>5, <1>6 DEF TaskInv

LEMMA ObservedGrows ==
  ASSUME NEW l, NEW e, NEW m, Follows(m, l, e), NEW policy, NEW n \in Nat, n <= Len(l),
         ObservedUpTo(l, policy, n)
  PROVE  ObservedUpTo(m, policy, n)
<1>1. /\ Len(l) \in Nat /\ DOMAIN l = 1..Len(l) /\ DOMAIN m = 1..(Len(l) + 1)
  BY FollowsFacts
<1>2. RecognizedOpportunities(m, policy) \cap DOMAIN l = RecognizedOpportunities(l, policy)
  BY LogsGrow
<1>3. \A k \in RecognizedOpportunities(m, policy) : k <= n => k \in DOMAIN l
  BY <1>1 DEF RecognizedOpportunities
<1>4. \A k : DispositionFor(l, k, policy) \subseteq DispositionFor(m, k, policy)
  BY LogsGrow
<1> QED BY <1>2, <1>3, <1>4 DEF ObservedUpTo

LEMMA ObservedBefore ==
  ASSUME NEW l, IsLog(l), NEW policy, NEW n \in Int, NEW k \in Int, k <= n, ObservedUpTo(l, policy, n)
  PROVE  ObservedUpTo(l, policy, k)
<1>1. \A x \in RecognizedOpportunities(l, policy) : x \in Int
  BY LogFacts DEF RecognizedOpportunities
<1> QED BY <1>1 DEF ObservedUpTo

\* What a pass has observed stays observed.
LEMMA ObservesGrows ==
  ASSUME NEW l, NEW e, NEW m, Follows(m, l, e), NEW t, Remembers(l, t), Observes(l, t)
  PROVE  Observes(m, t)
<1>1. Len(l) \in Nat /\ t.source \in 0..Len(l) /\ IsLog(m)
  BY FollowsFacts DEF Remembers
<1>2. ObservedUpTo(l, t.policy, t.source) => ObservedUpTo(m, t.policy, t.source)
  BY <1>1, ObservedGrows
<1>3. ObservedUpTo(l, t.policy, t.source - 1) => ObservedUpTo(m, t.policy, t.source - 1)
  <2>1. CASE t.source = 0
    <3>1. \A k \in RecognizedOpportunities(m, t.policy) : ~(k <= t.source - 1)
      BY <1>1, <2>1, LogFacts DEF RecognizedOpportunities
    <3> QED BY <3>1 DEF ObservedUpTo
  <2>2. CASE t.source # 0
    <3>1. t.source - 1 \in Nat /\ t.source - 1 <= Len(l)
      BY <1>1, <2>2
    <3> QED BY <3>1, ObservedGrows
  <2> QED BY <2>1, <2>2
<1> QED BY <1>2, <1>3 DEF Observes

-----------------------------------------------------------------------------
\* The last checkpoint: the largest of those recorded.

Completions(l, c) == {l[k].last : k \in {x \in Positions(l, "checkpoint") : l[x].consumer = c}}

LEMMA GreatestOf ==
  ASSUME NEW N \in Nat, NEW S \in SUBSET (0..N)
  PROVE  \E n \in S \cup {0} : \A x \in S : x <= n
<1> DEFINE T == {N - x : x \in S \cup {0}}
<1>1. T \in SUBSET Nat /\ T # {}
  OBVIOUS
<1>2. PICK y \in T : \A z \in T : y <= z
  <2> HIDE DEF T
  <2> QED BY <1>1, LeastNatural
<1>3. PICK n \in S \cup {0} : y = N - n
  BY <1>2
<1>4. ASSUME NEW x \in S PROVE x <= n
  <2>1. N - x \in T
    OBVIOUS
  <2>2. N - n <= N - x
    BY <1>2, <1>3, <2>1
  <2> QED BY <1>3, <2>2
<1> QED BY <1>3, <1>4

LEMMA LastCompletedFacts ==
  ASSUME NEW l, WellFormed(l), NEW c
  PROVE  /\ LastCompleted(l, c) \in 0..Len(l)
         /\ LastCompleted(l, c) \in Completions(l, c) \cup {0}
         /\ \A x \in Completions(l, c) : x \in Nat /\ x <= LastCompleted(l, c)
<1> DEFINE own == Completions(l, c)
<1>1. Len(l) \in Nat
  BY LogFacts DEF WellFormed
<1>2. own \in SUBSET (0..Len(l))
  BY DEF WellFormed, Completions
<1>3. LastCompleted(l, c) = CHOOSE n \in own \cup {0} : \A x \in own : x <= n
  BY DEF LastCompleted, Completions
<1> HIDE DEF own
<1>4. \E n \in own \cup {0} : \A x \in own : x <= n
  BY <1>1, <1>2, GreatestOf
<1>5. LastCompleted(l, c) \in own \cup {0} /\ \A x \in own : x <= LastCompleted(l, c)
  BY <1>3, <1>4
<1> QED BY <1>1, <1>2, <1>5 DEF own

LEMMA CompletionsGrow ==
  ASSUME NEW l, NEW e, NEW m, Follows(m, l, e), NEW c
  PROVE  Completions(m, c)
           = Completions(l, c) \cup (IF e.type = "checkpoint" /\ e.consumer = c THEN {e.last} ELSE {})
<1> DEFINE P == Positions(l, "checkpoint")
           M == Positions(m, "checkpoint")
           n == Len(m)
<1>1. /\ \A k : k \in M <=> k \in P \/ (k = n /\ e.type = "checkpoint")
      /\ \A k \in P : m[k] = l[k]
      /\ m[n] = e
  BY PositionsGrow
<1> HIDE DEF n, P, M
<1>2. Completions(l, c) = {l[k].last : k \in {x \in P : l[x].consumer = c}}
  BY DEF Completions, P
<1>3. Completions(m, c) = {m[k].last : k \in {x \in M : m[x].consumer = c}}
  BY DEF Completions, M
<1>4. CASE e.type = "checkpoint" /\ e.consumer = c
  BY <1>1, <1>2, <1>3, <1>4
<1>5. CASE ~(e.type = "checkpoint" /\ e.consumer = c)
  BY <1>1, <1>2, <1>3, <1>5
<1> QED BY <1>4, <1>5

\* A checkpoint goes no further than it says or than the ones before.
LEMMA LastCompletedGrows ==
  ASSUME NEW l, WellFormed(l), NEW e, NEW m, Follows(m, l, e), WellFormed(m), NEW c
  PROVE  \/ LastCompleted(m, c) <= LastCompleted(l, c)
         \/ e.type = "checkpoint" /\ e.consumer = c /\ LastCompleted(m, c) = e.last
<1>1. /\ LastCompleted(l, c) \in Nat
      /\ \A x \in Completions(l, c) : x <= LastCompleted(l, c)
  BY LastCompletedFacts, LogFacts DEF WellFormed
<1>2. LastCompleted(m, c) \in Completions(m, c) \cup {0}
  BY LastCompletedFacts
<1>3. CASE e.type = "checkpoint" /\ e.consumer = c
  <2>1. Completions(m, c) = Completions(l, c) \cup {e.last}
    BY <1>3, CompletionsGrow
  <2> QED BY <1>1, <1>2, <1>3, <2>1
<1>4. CASE ~(e.type = "checkpoint" /\ e.consumer = c)
  <2>1. Completions(m, c) = Completions(l, c)
    BY <1>4, CompletionsGrow
  <2> QED BY <1>1, <1>2, <2>1
<1> QED BY <1>3, <1>4


-----------------------------------------------------------------------------
\* What a step does: it appends at most one event, changes at most one process and uses up
\* what the scenario allows.

\* The workers of one consumer, who share its checkpoint, recognize the same facts.
OnePolicyPerConsumer ==
    \A v, w \in Workers : Consumer[v] = Consumer[w] => SourcePolicy[v] = SourcePolicy[w]

\* What a step can append.  A checkpoint of a worker passes only what it has observed.
Grows(e) ==
    /\ Follows(log', log, e) /\ Admissible(log, e)
    /\ e.type = "fact" => left.facts # <<>> /\ e = Head(left.facts)
    /\ e.type = "source_policy" => \E w \in Workers : e.contract = SourcePolicy[w]
    /\ CheckpointInv /\ e.type = "checkpoint" =>
         \E w \in Workers : e.consumer = Consumer[w] /\ ObservedUpTo(log, SourcePolicy[w], e.last)

Appends == log' = log \/ \E e : Grows(e)

\* The process p goes on as t.
GoesOn(p, t) == TaskInv(log', p, t) /\ (CheckpointInv => Observes(log', t))

Turns == task' = task \/ \E p \in Processes : \E t : task' = [task EXCEPT ![p] = t] /\ GoesOn(p, t)

\* What the scenario still allows is used up: the facts to come in their order.
Uses ==
    /\ LeftInv(left')
    /\ left'.facts = left.facts \/ (left.facts # <<>> /\ left'.facts = Tail(left.facts))

\* What any step does.
Advances == Appends /\ Turns /\ Uses

LEMMA InvFacts ==
  ASSUME AttentionInv
  PROVE  /\ WellFormed(log) /\ IsLog(log) /\ Len(log) \in Nat /\ DOMAIN log = 1..Len(log)
         /\ LeftInv(left) /\ DOMAIN task = Processes
         /\ \A p \in Processes : TaskInv(log, p, task[p])
<1>1. WellFormed(log) /\ LeftInv(left) /\ DOMAIN task = Processes
      /\ \A p \in Processes : TaskInv(log, p, task[p])
  BY DEF AttentionInv
<1>2. IsLog(log)
  BY <1>1 DEF WellFormed
<1>3. Len(log) \in Nat /\ DOMAIN log = 1..Len(log)
  BY <1>2, LogFacts
<1> QED BY <1>1, <1>2, <1>3

LEMMA LogStays ==
  ASSUME AttentionInv, Appends
  PROVE  /\ WellFormed(log') /\ IsLog(log')
         /\ \A p, t : TaskInv(log, p, t) => TaskInv(log', p, t)
         /\ \A t : Remembers(log, t) /\ Observes(log, t) => Observes(log', t)
<1>1. CASE log' = log
  BY <1>1, InvFacts
<1>2. CASE \E e : Grows(e)
  <2>1. PICK e : Grows(e)
    BY <1>2
  <2>2. Follows(log', log, e) /\ Admissible(log, e) /\ WellFormed(log)
    BY <2>1, InvFacts DEF Grows
  <2>3. WellFormed(log')
    BY <2>2, WellFormedGrows
  <2>4. \A p, t : TaskInv(log, p, t) => TaskInv(log', p, t)
    BY <2>2, TaskGrows
  <2>5. \A t : Remembers(log, t) /\ Observes(log, t) => Observes(log', t)
    BY <2>2, ObservesGrows
  <2> QED BY <2>3, <2>4, <2>5 DEF WellFormed
<1> QED BY <1>1, <1>2 DEF Appends

LEMMA AdvancesKeepsAttention ==
  ASSUME AttentionInv, Advances
  PROVE  AttentionInv'
<1>1. WellFormed(log') /\ \A p, t : TaskInv(log, p, t) => TaskInv(log', p, t)
  BY LogStays DEF Advances
<1>2. LeftInv(left')
  BY DEF Advances, Uses
<1>3. \A p \in Processes : TaskInv(log', p, task[p])
  BY <1>1, InvFacts
<1>4. DOMAIN task' = Processes /\ \A p \in Processes : TaskInv(log', p, task'[p])
  <2>1. CASE task' = task
    BY <2>1, <1>3, InvFacts
  <2>2. CASE \E p \in Processes : \E t : task' = [task EXCEPT ![p] = t] /\ GoesOn(p, t)
    <3>0. PICK p \in Processes : \E t : task' = [task EXCEPT ![p] = t] /\ GoesOn(p, t)
      BY <2>2
    <3>1. PICK t : task' = [task EXCEPT ![p] = t] /\ GoesOn(p, t)
      BY <3>0
    <3>2. TaskInv(log', p, t)
      BY <3>1 DEF GoesOn
    <3>3. DOMAIN task' = DOMAIN task /\ task'[p] = t /\ \A q \in Processes : q # p => task'[q] = task[q]
      BY <3>1, InvFacts
    <3>4. ASSUME NEW q \in Processes PROVE TaskInv(log', q, task'[q])
      <4>1. CASE q = p
        BY <3>2, <3>3, <4>1
      <4>2. CASE q # p
        BY <1>3, <3>3, <4>2
      <4> QED BY <4>1, <4>2
    <3> QED BY <3>3, <3>4, InvFacts
  <2> QED BY <2>1, <2>2 DEF Advances, Turns
<1> QED BY <1>1, <1>2, <1>4 DEF AttentionInv

LEMMA AdvancesKeepsCheckpoint ==
  ASSUME AttentionInv, CheckpointInv, OnePolicyPerConsumer, Advances
  PROVE  CheckpointInv'
<1>1. \A w \in Workers : ObservedUpTo(log, SourcePolicy[w], LastCompleted(log, Consumer[w]))
  BY DEF CheckpointInv
<1>2. \A p \in Processes : Remembers(log, task[p]) /\ Observes(log, task[p])
  BY InvFacts DEF CheckpointInv, TaskInv
<1>3. ASSUME NEW w \in Workers
      PROVE  ObservedUpTo(log', SourcePolicy[w], LastCompleted(log', Consumer[w]))
  <2>1. CASE log' = log
    BY <1>1, <2>1
  <2>2. CASE \E e : Grows(e)
    <3>1. PICK e : Grows(e)
      BY <2>2
    <3> DEFINE c == Consumer[w]
               policy == SourcePolicy[w]
               n == LastCompleted(log, c)
               n2 == LastCompleted(log', c)
    <3>2. /\ Follows(log', log, e) /\ Admissible(log, e)
          /\ e.type = "checkpoint" =>
               \E v \in Workers : e.consumer = Consumer[v] /\ ObservedUpTo(log, SourcePolicy[v], e.last)
      BY <3>1 DEF Grows
    <3>3. WellFormed(log') /\ WellFormed(log)
      BY LogStays, InvFacts DEF Advances
    <3>4. n \in 0..Len(log) /\ n2 \in 0..Len(log') /\ Len(log) \in Nat /\ IsLog(log') /\ IsLog(log)
      BY <3>3, LastCompletedFacts, InvFacts DEF WellFormed
    <3>5. n2 <= n \/ (e.type = "checkpoint" /\ e.consumer = c /\ n2 = e.last)
      BY <3>2, <3>3, LastCompletedGrows
    <3>6. ObservedUpTo(log, policy, n)
      BY <1>1
    <3> HIDE DEF c, policy, n, n2
    <3>7. CASE n2 <= n
      <4>1. ObservedUpTo(log', policy, n)
        BY <3>2, <3>4, <3>6, ObservedGrows
      <4>2. ObservedUpTo(log', policy, n2)
        BY <3>4, <3>7, <4>1, ObservedBefore
      <4> QED BY <4>2 DEF n2, policy, c
    <3>8. CASE e.type = "checkpoint" /\ e.consumer = c /\ n2 = e.last
      <4>1. PICK v \in Workers : e.consumer = Consumer[v] /\ ObservedUpTo(log, SourcePolicy[v], e.last)
        BY <3>2, <3>8
      <4>2. SourcePolicy[v] = policy
        BY <3>8, <4>1 DEF OnePolicyPerConsumer, c, policy
      <4>3. ObservedUpTo(log, policy, n2) /\ n2 \in Nat /\ n2 <= Len(log)
        BY <3>2, <3>4, <3>8, <4>1, <4>2 DEF Admissible
      <4>4. ObservedUpTo(log', policy, n2)
        BY <3>2, <4>3, ObservedGrows
      <4> QED BY <4>4 DEF n2, policy, c
    <3> QED BY <3>5, <3>7, <3>8
  <2> QED BY <2>1, <2>2 DEF Advances, Appends
<1>4. \A p \in Processes : Observes(log', task[p])
  BY <1>2, LogStays DEF Advances
<1>5. \A p \in Processes : Observes(log', task'[p])
  <2>1. CASE task' = task
    BY <2>1, <1>4
  <2>2. CASE \E p \in Processes : \E t : task' = [task EXCEPT ![p] = t] /\ GoesOn(p, t)
    <3>0. PICK p \in Processes : \E t : task' = [task EXCEPT ![p] = t] /\ GoesOn(p, t)
      BY <2>2
    <3>1. PICK t : task' = [task EXCEPT ![p] = t] /\ GoesOn(p, t)
      BY <3>0
    <3>2. Observes(log', t)
      BY <3>1 DEF GoesOn
    <3>3. task'[p] = t /\ \A q \in Processes : q # p => task'[q] = task[q]
      BY <3>1, InvFacts
    <3> QED BY <1>4, <3>2, <3>3
  <2> QED BY <2>1, <2>2 DEF Advances, Turns
<1> QED BY <1>3, <1>5 DEF CheckpointInv


-----------------------------------------------------------------------------
\* The parts of a step.

\* What a process remembers has the fields of Idle.
Fields == {"pc", "kind", "source", "seen", "known", "completed", "policy", "infos", "receipts",
           "cut", "body", "event", "info", "policies", "access"}

LEMMA IdleFacts ==
  /\ DOMAIN Idle = Fields
  /\ Idle.pc = "idle" /\ Idle.source = 0 /\ Idle.seen = 0 /\ Idle.known = 0 /\ Idle.completed = 0
  /\ Idle.receipts = {} /\ Idle.cut = 0 /\ Idle.event = 0 /\ Idle.access = 0
BY DEF Idle, Fields

LEMMA IdleIsFine ==
  ASSUME NEW l, IsLog(l), NEW p
  PROVE  TaskInv(l, p, Idle) /\ Observes(l, Idle)
<1>1. Len(l) \in Nat
  BY LogFacts
<1>2. Remembers(l, Idle)
  BY <1>1, IdleFacts, FS_EmptySet DEF Remembers
<1>3. TaskInv(l, p, Idle)
  BY <1>2, IdleFacts DEF TaskInv, Stages
<1> QED BY <1>3, IdleFacts DEF Observes

LEMMA TurnsTo ==
  ASSUME NEW p \in Processes, NEW t, Become(p, t), GoesOn(p, t)
  PROVE  Turns
BY DEF Turns, Become

LEMMA RaiseTurns ==
  ASSUME AttentionInv, Appends, NEW p \in Processes, Become(p, Idle)
  PROVE  Turns
<1>1. IsLog(log')
  BY LogStays
<1>2. GoesOn(p, Idle)
  BY <1>1, IdleIsFine DEF GoesOn
<1> QED BY <1>2, TurnsTo

\* The process goes on with what it is in the log as it was.
LEMMA TurnsAsBefore ==
  ASSUME AttentionInv, Appends, NEW p \in Processes, NEW t, Become(p, t),
         TaskInv(log, p, t), CheckpointInv => Observes(log, t)
  PROVE  Turns
<1>1. TaskInv(log', p, t) /\ (CheckpointInv => Observes(log', t))
  BY LogStays DEF TaskInv
<1> QED BY <1>1, TurnsTo DEF GoesOn

LEMMA LeftStays ==
  ASSUME AttentionInv, UNCHANGED left
  PROVE  Uses
BY InvFacts DEF Uses

LEMMA NothingAppended ==
  ASSUME UNCHANGED log
  PROVE  Appends
BY DEF Appends

LEMMA EventAppended ==
  ASSUME AttentionInv, NEW e, e.type \notin {"fact", "policy", "checkpoint"}, Legal(log, e),
         e.type = "source_policy" => \E w \in Workers : e.contract = SourcePolicy[w],
         log' = Append(log, e)
  PROVE  Grows(e) /\ Appends
<1>1. Follows(log', log, e)
  BY InvFacts DEF Follows
<1>2. Admissible(log, e)
  BY DEF Admissible
<1>3. Grows(e)
  BY <1>1, <1>2 DEF Grows
<1> QED BY <1>3 DEF Appends

LEMMA EventEmitted ==
  ASSUME AttentionInv, NEW e, e.type \notin {"fact", "policy", "checkpoint"}, Legal(log, e), Emit(e),
         e.type = "source_policy" => \E w \in Workers : e.contract = SourcePolicy[w]
  PROVE  Appends
<1>1. CASE log' = log
  BY <1>1 DEF Appends
<1>2. CASE log' = Append(log, e)
  BY <1>2, EventAppended
<1> QED BY <1>1, <1>2 DEF Emit

-----------------------------------------------------------------------------
\* A worker's contracts.

LEMMA RegisterSchemaAdvances ==
  ASSUME AttentionInv, NEW w \in Workers, RegisterSchema(w)
  PROVE  Advances
<1> DEFINE e == SchemaRecorded(SourcePolicy[w])
<1>1. e.type = "schema"
  BY DEF SchemaRecorded
<1>2. Emit(e) /\ UNCHANGED <<left, task>>
  BY DEF RegisterSchema
<1> HIDE DEF e
<1>3. Legal(log, e)
  BY <1>1, LegalByType
<1>4. Appends
  BY <1>1, <1>2, <1>3, EventEmitted
<1> QED BY <1>2, <1>4, LeftStays DEF Advances, Turns

LEMMA RegisterPolicyAdvances ==
  ASSUME AttentionInv, NEW w \in Workers, RegisterPolicy(w)
  PROVE  Advances
<1> DEFINE e == SourcePolicyRecorded(SourcePolicy[w])
<1>1. e.type = "source_policy" /\ e.contract = SourcePolicy[w]
  BY DEF SourcePolicyRecorded
<1>2. Emit(e) /\ UNCHANGED <<left, task>> /\ IsRecorded(log, SchemaRecorded(SourcePolicy[w]))
  BY DEF RegisterPolicy
<1> HIDE DEF e
<1>3. Legal(log, e)
  BY <1>1, <1>2, LegalByType
<1>4. Appends
  BY <1>1, <1>2, <1>3, EventEmitted
<1> QED BY <1>2, <1>4, LeftStays DEF Advances, Turns

-----------------------------------------------------------------------------
\* A worker's scan.

LEMMA FactsNameInformation ==
  ASSUME NEW l, WellFormed(l), NEW w \in Workers, NEW k \in RecognizedOpportunities(l, SourcePolicy[w])
  PROVE  /\ k \in DOMAIN l /\ IsLog(l[k].infos) /\ l[k].infos # <<>>
         /\ Len(l[k].infos) \in Nat /\ DOMAIN l[k].infos = 1..Len(l[k].infos)
         /\ ToSet(l[k].infos) # {}
<1>1. k \in Positions(l, "fact") /\ l[k].kind \in SourcePolicy[w].kinds
  BY DEF RecognizedOpportunities, Recognizes, Positions
<1>2. IsFact(l[k])
  BY <1>1 DEF WellFormed
<1>3. IsLog(l[k].infos) /\ l[k].infos # <<>>
  BY <1>1, <1>2 DEF IsFact
<1> DEFINE s == l[k].infos
<1> HIDE DEF s
<1>4. IsLog(s) /\ s # <<>>
  BY <1>3 DEF s
<1>5. Len(s) \in Nat /\ DOMAIN s = 1..Len(s) /\ s[1] \in ToSet(s)
  BY <1>4, LogFacts, TailLog DEF ToSet
<1> QED BY <1>1, <1>3, <1>5 DEF s, Positions

\* A worker that has observed up to `completed` goes on to what comes next.
LEMMA ScanFromFacts ==
  ASSUME NEW l, l = log, AttentionInv, NEW w \in Workers, NEW t, DOMAIN t = Fields, Remembers(l, t),
         t.kind = "disposition", t.policy = SourcePolicy[w], t.known = Len(l),
         NEW x, x = ScanFrom(w, t)
  PROVE  /\ TaskInv(l, w, x)
         /\ ObservedUpTo(l, t.policy, t.completed) => Observes(l, x)
<1> DEFINE policy == SourcePolicy[w]
           todo == {k \in (t.completed + 1)..t.seen : Recognizes(log, policy, k)}
           next == CHOOSE n \in todo : \A m \in todo : n <= m
           observed == DispositionFor(SubSeq(log, 1, t.known), next, policy) # {}
           go == [t EXCEPT !.pc = IF observed THEN "checkpoint" ELSE "admit", !.source = next,
                           !.infos = ToSet(log[next].infos), !.receipts = {}]
           trail == [t EXCEPT !.pc = "trail", !.source = t.seen]
<1>0. /\ WellFormed(l) /\ IsLog(l) /\ Len(l) \in Nat /\ DOMAIN l = 1..Len(l)
  BY InvFacts
<1>1. x = IF todo # {} THEN go ELSE IF t.completed < t.seen THEN trail ELSE Idle
  BY DEF ScanFrom
<1>2. /\ t.source \in 0..Len(l) /\ t.seen \in 0..Len(l) /\ t.completed \in 0..Len(l)
      /\ t.receipts \subseteq DOMAIN l /\ IsFiniteSet(t.receipts)
  BY DEF Remembers
<1>3. \A k : k \in todo <=> k \in RecognizedOpportunities(l, policy) /\ t.completed < k /\ k <= t.seen
  BY <1>0, <1>2 DEF RecognizedOpportunities
<1>4. CASE todo # {}
  <2>1. next \in todo /\ \A m \in todo : next <= m
    <3>1. todo \in SUBSET Nat
      BY <1>2
    <3> HIDE DEF todo
    <3> QED BY <1>4, <3>1, LeastNatural
  <2>2. next \in RecognizedOpportunities(l, policy) /\ next \in DOMAIN l
    BY <1>3, <2>1 DEF RecognizedOpportunities
  <2>3. /\ DOMAIN x = Fields /\ x.pc = IF observed THEN "checkpoint" ELSE "admit"
        /\ x.source = next /\ x.infos = ToSet(l[next].infos) /\ x.receipts = {}
        /\ x.kind = t.kind /\ x.policy = t.policy /\ x.seen = t.seen /\ x.known = t.known
        /\ x.completed = t.completed /\ x.cut = t.cut /\ x.event = t.event /\ x.access = t.access
    <3>1. x = go
      BY <1>1, <1>4
    <3> HIDE DEF next, observed, todo, policy
    <3> QED BY <3>1 DEF Fields
  <2>4. observed => DispositionFor(l, next, policy) # {}
    BY <1>0, WholeLog
  <2>5. l[next].infos # <<>> /\ DOMAIN l[next].infos = 1..Len(l[next].infos)
        /\ Len(l[next].infos) \in Nat
    BY <1>0, <2>2, FactsNameInformation
  <2> HIDE DEF next, observed
  <2>6. Remembers(l, x)
    BY <1>0, <2>2, <2>3, FS_EmptySet DEF Remembers
  <2>7. InPass(l, w, x)
    <3>1. x.pc \in {"checkpoint", "admit"} /\ x.policy = policy
      BY <2>3
    <3>2. x.source \in RecognizedOpportunities(l, x.policy)
          /\ x.infos = ToSet(l[x.source].infos)
      BY <2>2, <2>3
    <3>3. \A j \in DOMAIN l[x.source].infos : ~(j <= Cardinality(x.receipts))
      BY <2>3, <2>5, FS_EmptySet
    <3> QED BY <3>1, <3>2, <3>3 DEF InPass
  <2>8. TaskInv(l, w, x)
    BY <2>3, <2>6, <2>7, IdleFacts DEF TaskInv, Stages
  <2>9. ASSUME ObservedUpTo(l, t.policy, t.completed) PROVE Observes(l, x)
    <3>1. ASSUME NEW k \in RecognizedOpportunities(l, policy), k <= next - 1
          PROVE  DispositionFor(l, k, policy) # {}
      <4>1. k \in Int /\ next \in Int /\ next <= t.seen
        BY <1>0, <1>3, <2>1, <2>2 DEF RecognizedOpportunities
      <4>2. k <= t.completed
        BY <1>2, <1>3, <2>1, <3>1, <4>1
      <4> QED BY <2>9, <4>2 DEF ObservedUpTo
    <3>2. ObservedUpTo(l, policy, next - 1)
      BY <3>1 DEF ObservedUpTo
    <3>3. x.pc = "checkpoint" => ObservedUpTo(l, policy, next)
      <4>1. x.pc = "checkpoint" => DispositionFor(l, next, policy) # {}
        BY <2>3, <2>4
      <4>2. \A k \in RecognizedOpportunities(l, policy) : k <= next => k <= next - 1 \/ k = next
        BY <1>0, <2>2 DEF RecognizedOpportunities
      <4> QED BY <3>1, <4>1, <4>2 DEF ObservedUpTo
    <3> QED BY <2>3, <3>2, <3>3 DEF Observes
  <2> QED BY <2>8, <2>9
<1>5. CASE todo = {} /\ t.completed < t.seen
  <2>1. /\ DOMAIN x = Fields /\ x.pc = "trail" /\ x.source = t.seen /\ x.receipts = t.receipts
        /\ x.kind = t.kind /\ x.policy = t.policy /\ x.seen = t.seen /\ x.known = t.known
        /\ x.completed = t.completed /\ x.cut = t.cut /\ x.event = t.event /\ x.access = t.access
    <3>1. x = trail
      BY <1>1, <1>5
    <3> QED BY <3>1 DEF Fields
  <2>2. Remembers(l, x)
    BY <1>2, <2>1 DEF Remembers
  <2>3. InPass(l, w, x)
    BY <2>1 DEF InPass
  <2>4. TaskInv(l, w, x)
    BY <2>1, <2>2, <2>3, IdleFacts DEF TaskInv, Stages
  <2>5. ASSUME ObservedUpTo(l, t.policy, t.completed) PROVE Observes(l, x)
    <3>1. ASSUME NEW k \in RecognizedOpportunities(l, policy), k <= t.seen
          PROVE  DispositionFor(l, k, policy) # {}
      <4>1. k <= t.completed
        BY <1>0, <1>2, <1>3, <1>5, <3>1 DEF RecognizedOpportunities
      <4> QED BY <2>5, <4>1 DEF ObservedUpTo
    <3>2. ObservedUpTo(l, policy, t.seen)
      BY <3>1 DEF ObservedUpTo
    <3>3. ObservedUpTo(l, policy, t.seen - 1)
      BY <1>0, <1>2, <3>2, ObservedBefore
    <3> QED BY <2>1, <3>2, <3>3 DEF Observes
  <2> QED BY <2>4, <2>5
<1>6. CASE todo = {} /\ ~(t.completed < t.seen)
  BY <1>0, <1>1, <1>6, IdleIsFine
<1> QED BY <1>4, <1>5, <1>6

LEMMA SnapshotAdvances ==
  ASSUME AttentionInv, NEW w \in Workers, Snapshot(w)
  PROVE  Advances
<1> DEFINE t == [Idle EXCEPT !.kind = "disposition", !.policy = SourcePolicy[w],
                             !.seen = Len(log), !.known = Len(log),
                             !.completed = LastCompleted(log, Consumer[w])]
           x == ScanFrom(w, t)
<1>1. Become(w, x) /\ UNCHANGED log
  BY DEF Snapshot
<1>2. /\ DOMAIN t = Fields /\ t.kind = "disposition" /\ t.policy = SourcePolicy[w]
      /\ t.seen = Len(log) /\ t.known = Len(log) /\ t.completed = LastCompleted(log, Consumer[w])
      /\ t.source = 0 /\ t.cut = 0 /\ t.event = 0 /\ t.access = 0 /\ t.receipts = {}
  BY IdleFacts DEF Fields
<1> HIDE DEF t
<1>3. Remembers(log, t)
  <2>1. LastCompleted(log, Consumer[w]) \in 0..Len(log) /\ Len(log) \in Nat
    BY InvFacts, LastCompletedFacts
  <2> QED BY <1>2, <2>1, FS_EmptySet DEF Remembers
<1>4. /\ TaskInv(log, w, x)
      /\ ObservedUpTo(log, t.policy, t.completed) => Observes(log, x)
  BY <1>2, <1>3, ScanFromFacts
<1>5. CheckpointInv => Observes(log, x)
  BY <1>2, <1>4 DEF CheckpointInv
<1> HIDE DEF x
<1>6. w \in Processes
  BY DEF Processes
<1>7. Appends
  BY <1>1, NothingAppended
<1>8. Turns
  BY <1>1, <1>4, <1>5, <1>6, <1>7, TurnsAsBefore
<1>9. Uses
  <2>1. CASE UNCHANGED left
    BY <2>1, LeftStays
  <2>2. CASE left.passes > 0 /\ left' = [left EXCEPT !.passes = @ - 1]
    <3>1. LeftInv(left)
      BY InvFacts
    <3>2. DOMAIN left' = DOMAIN left /\ left'.passes = left.passes - 1 /\ left'.facts = left.facts
          /\ left'.requests = left.requests /\ left'.links = left.links
          /\ left'.steward = left.steward /\ left'.crashes = left.crashes
      BY <2>2, <3>1 DEF LeftInv
    <3>3. left'.passes \in Nat
      BY <2>2, <3>1, <3>2 DEF LeftInv
    <3> QED BY <3>1, <3>2, <3>3 DEF LeftInv, Uses
  <2> QED BY <2>1, <2>2 DEF Snapshot
<1> QED BY <1>7, <1>8, <1>9 DEF Advances


-----------------------------------------------------------------------------
\* Decisions.

LEMMA DecisionFacts ==
  ASSUME NEW l, NEW r, NEW d, d = Decision(l, r)
  PROVE  /\ d = DecisionUnder(l, r, Composition(l, r.info))
         /\ d.type = "decision" /\ d.request = r /\ d.cursor = Len(l) /\ Legal(l, d)
<1>1. {DecisionUnder(l, r, c) : c \in {Composition(l, r.info)}}
        = {DecisionUnder(l, r, Composition(l, r.info))}
  OBVIOUS
<1>2. d = DecisionUnder(l, r, Composition(l, r.info))
  BY <1>1, OnlyOfOne DEF Decision
<1>3. d.type = "decision" /\ d.request = r /\ d.cursor = Len(l)
  BY <1>2 DEF DecisionUnder
<1>4. LegalDecision(l, d)
  BY <1>3 DEF LegalDecision
<1>5. Legal(l, d)
  BY <1>3, <1>4, LegalByType
<1> QED BY <1>2, <1>3, <1>5

LEMMA TelemetryFacts ==
  ASSUME NEW i, NEW at, NEW r, r = Telemetry(i, at)
  PROVE  r.info = i /\ r.op = "telemetry"
BY DEF Telemetry, InformationAccessRequest

\* Where an appended decision is, and what it is there.
LEMMA DecisionAppended ==
  ASSUME AttentionInv, NEW r, NEW d, d = Decision(log, r), log' = Append(log, d)
  PROVE  /\ Appends /\ Len(log) + 1 \in Positions(log', "decision") /\ log'[Len(log) + 1] = d
         /\ Len(log) + 1 \in DOMAIN log' /\ Len(log') = Len(log) + 1
<1>1. d.type = "decision" /\ Legal(log, d)
  BY DecisionFacts
<1>2. Grows(d) /\ Appends
  BY <1>1, EventAppended
<1>3. Follows(log', log, d)
  BY <1>2 DEF Grows
<1>4. Len(log') = Len(log) + 1 /\ log'[Len(log) + 1] = d /\ Len(log) + 1 \in DOMAIN log'
  BY <1>3, FollowsFacts
<1> QED BY <1>1, <1>2, <1>4 DEF Positions

-----------------------------------------------------------------------------
\* A worker asks for access to the information of a source.

LEMMA ReceiptIsKept ==
  ASSUME NEW l, NEW w, NEW t, TaskInv(l, w, t), t.pc = "admit",
         NEW k \in DOMAIN l, IsAllowedAccess(l, k),

         IsLog(l[t.source].infos),
         l[k].request.info = l[t.source].infos[Cardinality(t.receipts) + 1],
         NEW x, x = [t EXCEPT !.receipts = @ \cup {k}]
  PROVE  TaskInv(l, w, x) /\ (Observes(l, t) => Observes(l, x))
<1>0. DOMAIN t = Fields /\ t.kind = "disposition"
  BY IdleFacts DEF TaskInv
<1>1. /\ DOMAIN x = Fields /\ x.pc = "admit" /\ x.source = t.source /\ x.receipts = t.receipts \cup {k}
      /\ x.kind = "disposition" /\ x.policy = t.policy /\ x.seen = t.seen /\ x.known = t.known
      /\ x.completed = t.completed /\ x.cut = t.cut /\ x.event = t.event /\ x.access = t.access
      /\ x.infos = t.infos
  BY <1>0 DEF Fields
<1>2. Remembers(l, t) /\ InPass(l, w, t)
  BY <1>0 DEF TaskInv, Stages
<1>3. IsFiniteSet(t.receipts)
  BY <1>2 DEF Remembers
<1>4. /\ IsFiniteSet(x.receipts) /\ Cardinality(t.receipts) \in Nat
      /\ Cardinality(x.receipts)
           = IF k \in t.receipts THEN Cardinality(t.receipts) ELSE Cardinality(t.receipts) + 1
  BY <1>1, <1>3, FS_AddElement, FS_CardinalityType
<1>5. Remembers(l, x)
  BY <1>1, <1>2, <1>4 DEF Remembers
<1>6. ASSUME NEW j \in DOMAIN l[x.source].infos, j <= Cardinality(x.receipts)
      PROVE  \E a \in x.receipts : IsAllowedAccess(l, a) /\ l[a].request.info = l[x.source].infos[j]
  <2>1. j \in Nat
    BY <1>1, LogFacts
  <2>2. CASE j <= Cardinality(t.receipts)
    <3>1. \E a \in t.receipts : IsAllowedAccess(l, a) /\ l[a].request.info = l[t.source].infos[j]
      BY <1>1, <1>2, <2>2 DEF InPass
    <3> QED BY <1>1, <3>1
  <2>3. CASE ~(j <= Cardinality(t.receipts))
    <3>1. j = Cardinality(t.receipts) + 1
      BY <1>4, <1>6, <2>1, <2>3
    <3> QED BY <1>1, <3>1
  <2> QED BY <2>2, <2>3
<1>7. InPass(l, w, x)
  BY <1>1, <1>2, <1>6 DEF InPass
<1>8. TaskInv(l, w, x)
  BY <1>1, <1>5, <1>7, IdleFacts DEF TaskInv, Stages
<1>9. Observes(l, t) => Observes(l, x)
  BY <1>0, <1>1 DEF Observes
<1> QED BY <1>8, <1>9

LEMMA AdmitSourceAdvances ==
  ASSUME AttentionInv, NEW w \in Workers, AdmitSource(w)
  PROVE  Advances
<1> DEFINE t == task[w]
           infos == log[t.source].infos
           n == Cardinality(t.receipts) + 1
           d == Decision(log, Telemetry(infos[n], t.source))
<1>1. t.pc = "admit" /\ UNCHANGED left
  BY DEF AdmitSource
<1>2. \/ \E k \in Positions(log, "decision") :
            /\ log[k].request = d.request /\ Allowed(log[k])
            /\ Become(w, [t EXCEPT !.receipts = @ \cup {k}]) /\ UNCHANGED log
      \/ /\ Allowed(d) /\ log' = Append(log, d)
         /\ Become(w, [t EXCEPT !.receipts = @ \cup {Len(log) + 1}])
      \/ Become(w, Idle) /\ UNCHANGED log
  BY DEF AdmitSource, Raise
<1>3. d.request.info = infos[n] /\ d.request.op = "telemetry"
  BY DecisionFacts, TelemetryFacts
<1>4. TaskInv(log, w, t) /\ w \in Processes /\ WellFormed(log)
  BY InvFacts DEF Processes
<1>5. t.source \in RecognizedOpportunities(log, SourcePolicy[w])
  BY <1>1, <1>4 DEF TaskInv, InPass, Stages
<1>6. IsLog(infos) /\ t.source \in DOMAIN log
  BY <1>4, <1>5, FactsNameInformation
<1>7. CheckpointInv => Observes(log, t)
  BY <1>4 DEF CheckpointInv
<1> HIDE DEF t, d
<1>8. CASE \E k \in Positions(log, "decision") :
             /\ log[k].request = d.request /\ Allowed(log[k])
             /\ Become(w, [t EXCEPT !.receipts = @ \cup {k}]) /\ UNCHANGED log
  <2>1. PICK k \in Positions(log, "decision") :
             /\ log[k].request = d.request /\ Allowed(log[k])
             /\ Become(w, [t EXCEPT !.receipts = @ \cup {k}]) /\ UNCHANGED log
    BY <1>8
  <2> DEFINE x == [t EXCEPT !.receipts = @ \cup {k}]
  <2>2. IsAllowedAccess(log, k) /\ k \in DOMAIN log /\ log[k].request.info = infos[n]
    BY <1>3, <2>1 DEF IsAllowedAccess, Positions
  <2>3. TaskInv(log, w, x) /\ (Observes(log, t) => Observes(log, x))
    BY <1>1, <1>4, <1>6, <2>2, ReceiptIsKept
  <2>4. Become(w, x)
    BY <2>1
  <2> HIDE DEF x
  <2>5. Appends
    BY <2>1, NothingAppended
  <2>6. Turns
    BY <1>4, <1>7, <2>3, <2>4, <2>5, TurnsAsBefore
  <2> QED BY <1>1, <2>5, <2>6, LeftStays DEF Advances
<1>9. CASE /\ Allowed(d) /\ log' = Append(log, d)
           /\ Become(w, [t EXCEPT !.receipts = @ \cup {Len(log) + 1}])
  <2> DEFINE k == Len(log) + 1
             x == [t EXCEPT !.receipts = @ \cup {k}]
  <2>1. /\ Appends /\ k \in Positions(log', "decision") /\ log'[k] = d /\ k \in DOMAIN log'
    BY <1>9, DecisionAppended DEF d
  <2>2. IsAllowedAccess(log', k) /\ log'[k].request.info = infos[n]
    BY <1>3, <1>9, <2>1 DEF IsAllowedAccess
  <2>3. TaskInv(log', w, t) /\ (CheckpointInv => Observes(log', t))
    BY <1>4, <1>7, <2>1, LogStays DEF TaskInv
  <2>4. log'[t.source] = log[t.source]
    BY <1>6, <1>9, InvFacts, AppendLog
  <2>5. Become(w, x)
    BY <1>9
  <2> HIDE DEF k
  <2>6. TaskInv(log', w, x) /\ (Observes(log', t) => Observes(log', x))
    BY <1>1, <1>6, <2>1, <2>2, <2>3, <2>4, ReceiptIsKept
  <2> HIDE DEF x
  <2>7. Turns
    BY <1>4, <2>3, <2>5, <2>6, TurnsTo DEF GoesOn
  <2> QED BY <1>1, <2>1, <2>7, LeftStays DEF Advances
<1>10. CASE Become(w, Idle) /\ UNCHANGED log
  BY <1>1, <1>4, <1>10, NothingAppended, RaiseTurns, LeftStays DEF Advances
<1> QED BY <1>2, <1>8, <1>9, <1>10

\* A provider is asked once every information of the source has a receipt.
LEMMA DecideAdvances ==
  ASSUME AttentionInv, NEW w \in Workers, Decide(w)
  PROVE  Advances
<1> DEFINE t == task[w]
<1>1. /\ t.pc = "admit" /\ Cardinality(t.receipts) = Len(log[t.source].infos)
      /\ UNCHANGED <<log, left>>
  BY DEF Decide
<1>2. PICK body : Become(w, [t EXCEPT !.pc = "lineage", !.cut = Len(log), !.body = body,
                               !.info = <<"disposition", t.source, SourcePolicy[w].name>>])
  BY DEF Decide
<1> DEFINE x == [t EXCEPT !.pc = "lineage", !.cut = Len(log), !.body = body,
                          !.info = <<"disposition", t.source, SourcePolicy[w].name>>]
<1>3. /\ TaskInv(log, w, t) /\ w \in Processes /\ WellFormed(log)
      /\ Len(log) \in Nat /\ DOMAIN log = 1..Len(log)
  BY InvFacts DEF Processes
<1>4. CheckpointInv => Observes(log, t)
  BY <1>3 DEF CheckpointInv
<1>5. Become(w, x)
  BY <1>2
<1> HIDE DEF t
<1>6. DOMAIN t = Fields /\ t.kind = "disposition" /\ Remembers(log, t) /\ InPass(log, w, t)
  BY <1>1, <1>3, IdleFacts DEF TaskInv, Stages
<1>7. /\ DOMAIN x = Fields /\ x.pc = "lineage" /\ x.source = t.source /\ x.receipts = t.receipts
      /\ x.kind = "disposition" /\ x.policy = t.policy /\ x.seen = t.seen /\ x.known = t.known
      /\ x.completed = t.completed /\ x.cut = Len(log) /\ x.event = t.event /\ x.access = t.access
      /\ x.infos = t.infos
  BY <1>6 DEF Fields
<1> HIDE DEF x
<1>8. Remembers(log, x)
  BY <1>3, <1>6, <1>7 DEF Remembers
<1>9. /\ t.source \in RecognizedOpportunities(log, SourcePolicy[w]) /\ t.policy = SourcePolicy[w]
      /\ t.infos = ToSet(log[t.source].infos)
  BY <1>1, <1>6 DEF InPass
<1>10. /\ t.infos # {} /\ DOMAIN log[t.source].infos = 1..Len(log[t.source].infos)
  BY <1>3, <1>9, FactsNameInformation
<1>11. ASSUME NEW i \in t.infos PROVE WasShown(log, i, Len(log))
  <2>1. PICK j \in DOMAIN log[t.source].infos : i = log[t.source].infos[j]
    BY <1>9 DEF ToSet
  <2>2. j <= Cardinality(t.receipts)
    BY <1>1, <1>10, <2>1
  <2>3. PICK k \in t.receipts : IsAllowedAccess(log, k) /\ log[k].request.info = i
    BY <1>1, <1>6, <2>1, <2>2 DEF InPass
  <2>4. k \in 1..Len(log)
    BY <1>3, <1>6, <2>3 DEF Remembers
  <2> QED BY <2>3, <2>4 DEF WasShown
<1>12. InPass(log, w, x)
  BY <1>6, <1>7, <1>9, <1>11 DEF InPass
<1>13. TaskInv(log, w, x)
  BY <1>7, <1>8, <1>10, <1>12, IdleFacts DEF TaskInv, Stages
<1>14. Observes(log, t) => Observes(log, x)
  BY <1>1, <1>6, <1>7 DEF Observes, Stages
<1>15. Appends
  BY <1>1, NothingAppended
<1>16. Turns
  BY <1>3, <1>4, <1>5, <1>13, <1>14, <1>15, TurnsAsBefore
<1> QED BY <1>1, <1>15, <1>16, LeftStays DEF Advances


-----------------------------------------------------------------------------
\* The stages of a record.

\* A process in the stages of a record keeps what it is about.
SameRecord(x, t) ==
    /\ DOMAIN x = Fields /\ x.kind = t.kind /\ x.source = t.source /\ x.seen = t.seen
    /\ x.known = t.known /\ x.completed = t.completed /\ x.policy = t.policy /\ x.infos = t.infos
    /\ x.receipts = t.receipts /\ x.cut = t.cut /\ x.event = t.event /\ x.info = t.info

LEMMA RecordingGoesOn ==
  ASSUME NEW l, NEW p, NEW t, TaskInv(l, p, t),
         t.pc \in {"lineage", "compose", "binding", "access"},
         NEW x, SameRecord(x, t), x.pc \in {"compose", "binding", "access", "record"},
         x.access \in 0..Len(l),
         x.pc \in {"compose", "binding"} => Lineage(l, t.info) # {},
         x.pc = "binding" => x.policies # {} /\ x.policies \subseteq KnownPolicies(l)
  PROVE  TaskInv(l, p, x) /\ (Observes(l, t) => Observes(l, x))
<1>1. Remembers(l, x)
  BY DEF TaskInv, Remembers, SameRecord
<1>2. t.kind = "disposition" => InPass(l, p, t)
  BY DEF TaskInv, Stages
<1>3. t.kind = "disposition" => InPass(l, p, x)
  BY <1>2 DEF InPass, SameRecord
<1>4. (t.kind # "disposition" => p \in Observers) /\ t.infos # {}
  BY DEF TaskInv, Stages
<1>5. TaskInv(l, p, x)
  BY <1>1, <1>3, <1>4, IdleFacts DEF TaskInv, Stages, SameRecord
<1>6. Observes(l, t) => Observes(l, x)
  BY DEF Observes, SameRecord, Stages
<1> QED BY <1>5, <1>6

\* A recorded source is observed.
LEMMA CheckpointIsNext ==
  ASSUME NEW l, IsLog(l), NEW p, NEW t, TaskInv(l, p, t), t.pc \in {"lineage", "record"},
         t.kind = "disposition", DispositionFor(l, t.source, t.policy) # {},
         NEW x, x = [t EXCEPT !.pc = "checkpoint"]
  PROVE  TaskInv(l, p, x) /\ (Observes(l, t) => Observes(l, x))
<1>1. DOMAIN t = Fields /\ Remembers(l, t) /\ InPass(l, p, t)
  BY IdleFacts DEF TaskInv, Stages
<1>2. SameRecord(x, t) /\ x.pc = "checkpoint" /\ x.access = t.access
  BY <1>1 DEF SameRecord, Fields
<1>3. Remembers(l, x)
  BY <1>1, <1>2 DEF Remembers, SameRecord
<1>4. InPass(l, p, x)
  BY <1>1, <1>2 DEF InPass, SameRecord
<1>5. TaskInv(l, p, x)
  BY <1>2, <1>3, <1>4, IdleFacts DEF TaskInv, Stages, SameRecord
<1>6. ASSUME Observes(l, t) PROVE Observes(l, x)
  <2>1. ObservedUpTo(l, t.policy, t.source - 1)
    BY <1>6 DEF Observes, Stages
  <2>2. t.source \in Int /\ \A k \in RecognizedOpportunities(l, t.policy) : k \in Int
    BY <1>1, LogFacts DEF Remembers, RecognizedOpportunities
  <2>3. \A k \in RecognizedOpportunities(l, t.policy) :
          k <= t.source => k <= t.source - 1 \/ k = t.source
    BY <2>2
  <2>4. ObservedUpTo(l, t.policy, t.source)
    BY <2>1, <2>3 DEF ObservedUpTo
  <2> QED BY <1>2, <2>1, <2>4 DEF Observes, SameRecord
<1> QED BY <1>5, <1>6

\* An existing disposition leads to the checkpoint, or to a conflict.
LEMMA ReuseTurns ==
  ASSUME AttentionInv, UNCHANGED log, NEW w \in Workers, NEW t, t = task[w],
         t.pc \in {"lineage", "record"}, t.kind = "disposition",
         NEW d \in DispositionFor(log, t.source, t.policy), ReuseDisposition(w, d, t)
  PROVE  Appends /\ Turns
<1>1. Appends
  BY NothingAppended
<1>2. TaskInv(log, w, t) /\ w \in Processes /\ IsLog(log) /\ (CheckpointInv => Observes(log, t))
  BY InvFacts DEF Processes, CheckpointInv
<1>3. CASE Become(w, Idle)
  BY <1>1, <1>2, <1>3, RaiseTurns
<1>4. CASE Become(w, [t EXCEPT !.pc = "checkpoint"])
  <2> DEFINE x == [t EXCEPT !.pc = "checkpoint"]
  <2>1. TaskInv(log, w, x) /\ (Observes(log, t) => Observes(log, x))
    BY <1>2, CheckpointIsNext
  <2> HIDE DEF x
  <2> QED BY <1>1, <1>2, <1>4, <2>1, TurnsAsBefore DEF x
<1> QED BY <1>1, <1>3, <1>4 DEF ReuseDisposition, Raise

LEMMA FindDispositionAdvances ==
  ASSUME AttentionInv, NEW w \in Workers, FindDisposition(w)
  PROVE  Advances
<1>1. Appends /\ Turns
  BY ReuseTurns DEF FindDisposition
<1> QED BY <1>1, LeftStays DEF FindDisposition, Advances

LEMMA RecordDispositionAdvances ==
  ASSUME AttentionInv, NEW w \in Workers, RecordDisposition(w)
  PROVE  Advances
<1> DEFINE t == task[w]
           e == AttentionDispositionRecord(t, log)
           x == [t EXCEPT !.pc = "checkpoint"]
<1>1. t.pc = "record" /\ t.kind = "disposition" /\ UNCHANGED left
  BY DEF RecordDisposition
<1>2. \/ UNCHANGED log /\ \E d \in DispositionFor(log, t.source, t.policy) : ReuseDisposition(w, d, t)
      \/ Legal(log, e) /\ log' = Append(log, e) /\ Become(w, x)
      \/ Become(w, Idle) /\ UNCHANGED log
  BY DEF RecordDisposition, AppendExact, Raise
<1>3. TaskInv(log, w, t) /\ w \in Processes /\ IsLog(log) /\ (CheckpointInv => Observes(log, t))
  BY InvFacts DEF Processes, CheckpointInv
<1>4. CASE UNCHANGED log /\ \E d \in DispositionFor(log, t.source, t.policy) : ReuseDisposition(w, d, t)
  BY <1>1, <1>4, ReuseTurns, LeftStays DEF Advances
<1>5. CASE Legal(log, e) /\ log' = Append(log, e) /\ Become(w, x)
  <2>1. e.type = "disposition" /\ e.source = t.source /\ e.policy = t.policy
    BY DEF AttentionDispositionRecord
  <2> HIDE DEF e, t
  <2>2. Grows(e) /\ Appends
    BY <1>5, <2>1, EventAppended
  <2>3. /\ Len(log') \in Positions(log', "disposition") /\ log'[Len(log')] = e
    BY <2>1, <2>2, PositionsGrow DEF Grows
  <2>4. DispositionFor(log', t.source, t.policy) # {}
    BY <2>1, <2>3 DEF DispositionFor
  <2>5. TaskInv(log', w, t) /\ IsLog(log') /\ (CheckpointInv => Observes(log', t))
    BY <1>3, <2>2, LogStays DEF TaskInv
  <2>6. TaskInv(log', w, x) /\ (Observes(log', t) => Observes(log', x))
    BY <1>1, <2>4, <2>5, CheckpointIsNext
  <2> HIDE DEF x
  <2>7. Turns
    BY <1>3, <1>5, <2>5, <2>6, TurnsTo DEF GoesOn
  <2> QED BY <1>1, <2>2, <2>7, LeftStays DEF Advances
<1>6. CASE Become(w, Idle) /\ UNCHANGED log
  BY <1>1, <1>3, <1>6, NothingAppended, RaiseTurns, LeftStays DEF Advances
<1> QED BY <1>2, <1>4, <1>5, <1>6

\* The lineage of what is derived, found or recorded.
LEMMA EnsureLineageAdvances ==
  ASSUME AttentionInv, NEW p \in Processes, EnsureLineage(p)
  PROVE  Advances
<1> DEFINE t == task[p]
           e == InformationLineage(t.info, t.infos, p)
           x == [t EXCEPT !.pc = "compose"]
<1>1. t.pc = "lineage" /\ UNCHANGED left
  BY DEF EnsureLineage
<1>2. \/ Lineage(log, t.info) # {} /\ UNCHANGED log /\ Become(p, x)
      \/ UNCHANGED log /\ Become(p, Idle)
      \/ /\ Lineage(log, t.info) = {} /\ \A i \in t.infos : Lineage(log, i) # {}
         /\ log' = Append(log, e) /\ Become(p, x)
  BY DEF EnsureLineage, Raise
<1>3. TaskInv(log, p, t) /\ IsLog(log) /\ (CheckpointInv => Observes(log, t))
  BY InvFacts DEF CheckpointInv
<1> HIDE DEF t
<1>4. SameRecord(x, t) /\ x.pc = "compose" /\ x.access = t.access /\ t.access \in 0..Len(log)
  <2>1. DOMAIN t = Fields /\ t.access \in 0..Len(log)
    BY <1>3, IdleFacts DEF TaskInv, Remembers
  <2> QED BY <2>1 DEF SameRecord, Fields
<1> HIDE DEF x
<1>5. CASE Lineage(log, t.info) # {} /\ UNCHANGED log /\ Become(p, x)
  <2>1. TaskInv(log, p, x) /\ (Observes(log, t) => Observes(log, x))
    BY <1>1, <1>3, <1>4, <1>5, RecordingGoesOn
  <2>2. Appends
    BY <1>5, NothingAppended
  <2>3. Turns
    BY <1>3, <1>5, <2>1, <2>2, TurnsAsBefore
  <2> QED BY <1>1, <2>2, <2>3, LeftStays DEF Advances
<1>6. CASE UNCHANGED log /\ Become(p, Idle)
  BY <1>1, <1>6, NothingAppended, RaiseTurns, LeftStays DEF Advances
<1>7. CASE /\ Lineage(log, t.info) = {} /\ \A i \in t.infos : Lineage(log, i) # {}
           /\ log' = Append(log, e) /\ Become(p, x)
  <2>1. e.type = "lineage" /\ e.info = t.info /\ e.sources = t.infos
    BY DEF InformationLineage
  <2> HIDE DEF e
  <2>2. Legal(log, e)
    BY <1>7, <2>1, LegalByType DEF LegalLineage
  <2>3. Grows(e) /\ Appends
    BY <1>7, <2>1, <2>2, EventAppended
  <2>4. e \in Lineage(log', t.info)
    <3>1. RecordOf(log', "lineage", t.info)
            = RecordOf(log, "lineage", t.info) \cup Adds(e, "lineage", {y \in {e} : y.info = t.info})
      BY <2>3, RecordOfGrows DEF Grows
    <3>2. e \in Adds(e, "lineage", {y \in {e} : y.info = t.info})
      BY <2>1 DEF Adds
    <3> QED BY <3>1, <3>2 DEF Lineage
  <2>5. TaskInv(log', p, t) /\ (CheckpointInv => Observes(log', t))
    BY <1>3, <2>3, LogStays DEF TaskInv
  <2>6. x.access \in 0..Len(log')
    BY <1>4, <2>5 DEF TaskInv, Remembers
  <2>7. TaskInv(log', p, x) /\ (Observes(log', t) => Observes(log', x))
    BY <1>1, <1>4, <2>4, <2>5, <2>6, RecordingGoesOn
  <2>8. Turns
    BY <1>7, <2>5, <2>7, TurnsTo DEF GoesOn
  <2> QED BY <1>1, <2>3, <2>8, LeftStays DEF Advances
<1> QED BY <1>2, <1>5, <1>6, <1>7

\* What governs information without a conflict is some of the known policies.
LEMMA NoConflictHasPolicies ==
  ASSUME NEW l, NEW i, NEW c, c = Composition(l, i), ConflictsFor(c, "telemetry") = {}
  PROVE  c.policies # {} /\ c.policies \subseteq KnownPolicies(l)
<1>1. "telemetry" \in Operations
  BY DEF Operations
<1>2. ASSUME NEW k, NEW kind, Conflict(kind, Operations) \in k, c.conflicts = k PROVE FALSE
  <2>1. /\ Conflict(kind, Operations) \in c.conflicts
        /\ "telemetry" \in Conflict(kind, Operations).operations
    BY <1>1, <1>2 DEF Conflict
  <2> QED BY <2>1 DEF ConflictsFor
<1>3. ASSUME NEW P, NEW s, NEW k, c = ComposePolicies(P, s, k), P \subseteq KnownPolicies(l)
      PROVE  c.policies # {} /\ c.policies \subseteq KnownPolicies(l)
  <2>1. CASE P = {}
    <3> DEFINE all == k \cup {Conflict("missing_policy_version", Operations)}
    <3>1. c = FailedComposition(s, all)
      BY <1>3, <2>1 DEF ComposePolicies
    <3>2. c.conflicts = all
      BY <3>1 DEF FailedComposition
    <3> QED BY <1>2, <3>2
  <2>2. CASE P # {}
    <3>1. c.policies = P
      BY <1>3, <2>2 DEF ComposePolicies
    <3> QED BY <1>3, <2>2, <3>1
  <2> QED BY <2>1, <2>2
<1>4. CASE Quarantine(l, i) # {}
  <2>1. c = FailedComposition({i}, {Conflict("quarantined", Operations)})
    BY <1>4 DEF Composition
  <2>2. c.conflicts = {Conflict("quarantined", Operations)}
    BY <2>1 DEF FailedComposition
  <2> QED BY <1>2, <2>2
<1>5. CASE Quarantine(l, i) = {} /\ View(l, i) # {}
  <2> DEFINE S == {ComposePolicies(v.decision.request.proposed \cap KnownPolicies(l),
                                   v.decision.composition.sources, {}) : v \in View(l, i)}
  <2>1. c = Only(S)
    BY <1>5 DEF Composition
  <2>2. S # {}
    BY <1>5
  <2>3. c \in S
    <3> HIDE DEF S
    <3> QED BY <2>1, <2>2 DEF Only
  <2>4. PICK v \in View(l, i) : c = ComposePolicies(v.decision.request.proposed \cap KnownPolicies(l),
                                                     v.decision.composition.sources, {})
    BY <2>3
  <2> DEFINE P == v.decision.request.proposed \cap KnownPolicies(l)
             s == v.decision.composition.sources
  <2>5. c = ComposePolicies(P, s, {}) /\ P \subseteq KnownPolicies(l)
    BY <2>4
  <2> HIDE DEF P, s
  <2> QED BY <1>3, <2>5
<1>6. CASE Quarantine(l, i) = {} /\ View(l, i) = {}
  <2> DEFINE A == Ancestry(l, i)
             P == PoliciesOf(l, A) \cap KnownPolicies(l)
             s == {j \in A : Parents(l, j) = {}}
             k == {x \in {Conflict("incomplete_lineage", Operations),
                          Conflict("missing_policy_version", Operations)} :
                     IF x.kind = "incomplete_lineage" THEN \E j \in A : ~IsBound(l, j)
                     ELSE ~(PoliciesOf(l, A) \subseteq KnownPolicies(l))}
  <2>1. c = ComposeAll(l, A, PoliciesOf(l, A))
    BY <1>6, CompositionOfAncestry
  <2>2. c = ComposePolicies(P, s, k)
    BY <2>1 DEF ComposeAll
  <2>3. P \subseteq KnownPolicies(l)
    OBVIOUS
  <2> HIDE DEF P, s, k
  <2> QED BY <1>3, <2>2, <2>3
<1> QED BY <1>4, <1>5, <1>6


\* The policies of the sources.
LEMMA ComposeSourcesAdvances ==
  ASSUME AttentionInv, NEW p \in Processes, ComposeSources(p)
  PROVE  Advances
<1> DEFINE t == task[p]
           all == UNION {c.policies : c \in {Composition(log, i) : i \in t.infos}}
           x == [t EXCEPT !.pc = "binding", !.policies = all]
<1>1. t.pc = "compose" /\ UNCHANGED <<log, left>>
  BY DEF ComposeSources
<1>2. \/ Become(p, Idle)
      \/ /\ \A i \in t.infos : ConflictsFor(Composition(log, i), "telemetry") = {}
         /\ Become(p, x)
  BY DEF ComposeSources, Raise
<1>3. TaskInv(log, p, t) /\ (CheckpointInv => Observes(log, t))
  BY InvFacts DEF CheckpointInv
<1>4. t.infos # {} /\ Lineage(log, t.info) # {}
  BY <1>1, <1>3 DEF TaskInv
<1>5. Appends /\ Uses
  BY <1>1, NothingAppended, LeftStays
<1> HIDE DEF t
<1>6. SameRecord(x, t) /\ x.pc = "binding" /\ x.policies = all /\ x.access \in 0..Len(log)
  <2>1. DOMAIN t = Fields /\ t.access \in 0..Len(log)
    BY <1>3, IdleFacts DEF TaskInv, Remembers
  <2> HIDE DEF all
  <2> QED BY <2>1 DEF SameRecord, Fields
<1> HIDE DEF x
<1>7. CASE Become(p, Idle)
  BY <1>5, <1>7, RaiseTurns DEF Advances
<1>8. CASE /\ \A i \in t.infos : ConflictsFor(Composition(log, i), "telemetry") = {}
           /\ Become(p, x)
  <2>1. all # {} /\ all \subseteq KnownPolicies(log)
    <3>1. \A i \in t.infos : /\ Composition(log, i).policies # {}
                             /\ Composition(log, i).policies \subseteq KnownPolicies(log)
      BY <1>8, NoConflictHasPolicies
    <3>2. PICK i \in t.infos : TRUE
      BY <1>4
    <3>3. Composition(log, i).policies \subseteq all
      BY <3>2
    <3> QED BY <3>1, <3>2, <3>3
  <2> HIDE DEF all
  <2>2. TaskInv(log, p, x) /\ (Observes(log, t) => Observes(log, x))
    BY <1>1, <1>3, <1>4, <1>6, <2>1, RecordingGoesOn
  <2>3. Turns
    BY <1>3, <1>5, <1>8, <2>2, TurnsAsBefore
  <2> QED BY <1>5, <2>3 DEF Advances
<1> QED BY <1>2, <1>7, <1>8

\* The binding of what is derived, to the policies of all its sources.
LEMMA EnsureBindingAdvances ==
  ASSUME AttentionInv, NEW p \in Processes, EnsureBinding(p)
  PROVE  Advances
<1> DEFINE t == task[p]
           lineage == Only(Lineage(log, t.info))
           e == PolicyBinding(t.info, lineage, t.policies, p)
           x == [t EXCEPT !.pc = "access"]
<1>1. t.pc = "binding" /\ UNCHANGED left
  BY DEF EnsureBinding
<1>2. \/ UNCHANGED log /\ Become(p, Idle)
      \/ UNCHANGED log /\ Become(p, x)
      \/ Binding(log, t.info) = {} /\ log' = Append(log, e) /\ Become(p, x)
  BY DEF EnsureBinding, Raise
<1>3. TaskInv(log, p, t) /\ WellFormed(log) /\ (CheckpointInv => Observes(log, t))
  BY InvFacts DEF CheckpointInv
<1>4. t.policies # {} /\ t.policies \subseteq KnownPolicies(log) /\ Lineage(log, t.info) # {}
  BY <1>1, <1>3 DEF TaskInv
<1> HIDE DEF t
<1>5. SameRecord(x, t) /\ x.pc = "access" /\ x.access = t.access /\ t.access \in 0..Len(log)
  <2>1. DOMAIN t = Fields /\ t.access \in 0..Len(log)
    BY <1>3, IdleFacts DEF TaskInv, Remembers
  <2> QED BY <2>1 DEF SameRecord, Fields
<1> HIDE DEF x
<1>6. CASE UNCHANGED log /\ Become(p, Idle)
  BY <1>1, <1>6, NothingAppended, RaiseTurns, LeftStays DEF Advances
<1>7. CASE UNCHANGED log /\ Become(p, x)
  <2>1. TaskInv(log, p, x) /\ (Observes(log, t) => Observes(log, x))
    BY <1>1, <1>3, <1>5, RecordingGoesOn
  <2>2. Appends
    BY <1>7, NothingAppended
  <2>3. Turns
    BY <1>3, <1>7, <2>1, <2>2, TurnsAsBefore
  <2> QED BY <1>1, <2>2, <2>3, LeftStays DEF Advances
<1>8. CASE Binding(log, t.info) = {} /\ log' = Append(log, e) /\ Become(p, x)
  <2>1. e.type = "binding" /\ e.info = t.info /\ e.lineage = lineage /\ e.policies = t.policies
    BY DEF PolicyBinding
  <2>2. Lineage(log, t.info) = {lineage}
    <3>1. lineage \in Lineage(log, t.info)
      BY <1>4 DEF Only
    <3>2. \A m, n \in Lineage(log, t.info) : m = n
      BY <1>3 DEF WellFormed, GovernanceIsWellFormed, Lineage, RecordOf, Recorded
    <3> HIDE DEF lineage
    <3> QED BY <3>1, <3>2
  <2> HIDE DEF e, lineage
  <2>3. Legal(log, e)
    BY <1>4, <1>8, <2>1, <2>2, LegalByType DEF LegalBinding
  <2>4. Grows(e) /\ Appends
    BY <1>8, <2>1, <2>3, EventAppended
  <2>5. TaskInv(log', p, t) /\ (CheckpointInv => Observes(log', t))
    BY <1>3, <2>4, LogStays DEF TaskInv
  <2>6. x.access \in 0..Len(log')
    BY <1>5, <2>5 DEF TaskInv, Remembers
  <2>7. TaskInv(log', p, x) /\ (Observes(log', t) => Observes(log', x))
    BY <1>1, <1>5, <2>5, <2>6, RecordingGoesOn
  <2>8. Turns
    BY <1>8, <2>5, <2>7, TurnsTo DEF GoesOn
  <2> QED BY <1>1, <2>4, <2>8, LeftStays DEF Advances
<1> QED BY <1>2, <1>6, <1>7, <1>8

LEMMA AdmitDerivedAdvances ==
  ASSUME AttentionInv, NEW p \in Processes, AdmitDerived(p)
  PROVE  Advances
<1> DEFINE t == task[p]
           d == Decision(log, Telemetry(t.info, t.source))
           x == [t EXCEPT !.pc = "record", !.access = Len(log) + 1]
<1>1. t.pc = "access" /\ UNCHANGED left
  BY DEF AdmitDerived
<1>2. \/ log' = Append(log, d) /\ Become(p, x)
      \/ UNCHANGED log /\ Become(p, Idle)
  BY DEF AdmitDerived, Raise
<1>3. TaskInv(log, p, t) /\ Len(log) \in Nat /\ (CheckpointInv => Observes(log, t))
  BY InvFacts DEF CheckpointInv
<1>4. CASE log' = Append(log, d) /\ Become(p, x)
  <2>1. Appends /\ Len(log') = Len(log) + 1
    BY <1>4, DecisionAppended
  <2>2. TaskInv(log', p, t) /\ (CheckpointInv => Observes(log', t))
    BY <1>3, <2>1, LogStays DEF TaskInv
  <2> HIDE DEF t
  <2>3. DOMAIN t = Fields
    BY <1>3, IdleFacts DEF TaskInv
  <2>4. SameRecord(x, t) /\ x.pc = "record" /\ x.access \in 0..Len(log')
    BY <1>3, <2>1, <2>3 DEF SameRecord, Fields
  <2> HIDE DEF x
  <2>5. TaskInv(log', p, x) /\ (Observes(log', t) => Observes(log', x))
    BY <1>1, <2>2, <2>4, RecordingGoesOn
  <2>6. Turns
    BY <1>4, <2>2, <2>5, TurnsTo DEF GoesOn
  <2> QED BY <1>1, <2>1, <2>6, LeftStays DEF Advances
<1>5. CASE UNCHANGED log /\ Become(p, Idle)
  BY <1>1, <1>5, NothingAppended, RaiseTurns, LeftStays DEF Advances
<1> QED BY <1>2, <1>4, <1>5

-----------------------------------------------------------------------------
\* A checkpoint.

LEMMA AdvanceCheckpointAdvances ==
  ASSUME AttentionInv, NEW w \in Workers, AdvanceCheckpoint(w)
  PROVE  Advances
<1> DEFINE t == task[w]
           e == Checkpoint(Consumer[w], t.source, Len(log))
           u == [t EXCEPT !.pc = "scan"]
           x == IF t.pc = "trail" THEN Idle ELSE u
<1>1. t.pc \in {"checkpoint", "trail"} /\ UNCHANGED left /\ Become(w, x)
  BY DEF AdvanceCheckpoint
<1>2. \/ log' = log
      \/ LastCompleted(log, Consumer[w]) < t.source /\ log' = Append(log, e)
  BY DEF AdvanceCheckpoint
<1>3. /\ TaskInv(log, w, t) /\ WellFormed(log) /\ IsLog(log) /\ Len(log) \in Nat
      /\ (CheckpointInv => Observes(log, t)) /\ w \in Processes
  BY InvFacts DEF CheckpointInv, Processes
<1> HIDE DEF t
<1>4. DOMAIN t = Fields /\ t.kind = "disposition" /\ Remembers(log, t) /\ InPass(log, w, t)
  BY <1>1, <1>3, IdleFacts DEF TaskInv, Stages
<1>5. CheckpointInv => ObservedUpTo(log, SourcePolicy[w], t.source)
  BY <1>1, <1>3, <1>4 DEF Observes, InPass
<1>6. Appends
  <2>1. CASE log' = log
    BY <2>1 DEF Appends
  <2>2. CASE LastCompleted(log, Consumer[w]) < t.source /\ log' = Append(log, e)
    <3>1. /\ e.type = "checkpoint" /\ e.consumer = Consumer[w] /\ e.last = t.source
          /\ e.observed = Len(log)
      BY DEF Checkpoint
    <3> HIDE DEF e
    <3>2. t.source \in 0..Len(log)
      BY <1>4 DEF Remembers
    <3>3. LastCompleted(log, Consumer[w]) \in 0..Len(log)
      BY <1>3, LastCompletedFacts
    <3>4. Legal(log, e)
      <4>1. e.last >= LastCompleted(log, e.consumer) /\ e.observed >= e.last
        BY <1>3, <2>2, <3>1, <3>2, <3>3
      <4> QED BY <3>1, <4>1, LegalByType
    <3>5. Admissible(log, e)
      BY <3>1, <3>2, <3>4 DEF Admissible
    <3>6. Grows(e)
      BY <1>3, <1>5, <2>2, <3>1, <3>5 DEF Grows, Follows
    <3> QED BY <3>6 DEF Appends
  <2> QED BY <1>2, <2>1, <2>2
<1>7. TaskInv(log, w, x) /\ (CheckpointInv => Observes(log, x))
  <2>1. CASE t.pc = "trail"
    BY <1>3, <2>1, IdleIsFine
  <2>2. CASE t.pc = "checkpoint"
    <3>1. SameRecord(u, t) /\ u.pc = "scan" /\ u.access = t.access
      BY <1>4 DEF SameRecord, Fields
    <3>2. x = u
      BY <2>2
    <3> HIDE DEF u, x
    <3>3. Remembers(log, u)
      BY <1>4, <3>1 DEF Remembers, SameRecord
    <3>4. InPass(log, w, u)
      BY <1>4, <2>2, <3>1 DEF InPass, SameRecord
    <3>5. TaskInv(log, w, u)
      BY <1>4, <3>1, <3>3, <3>4, IdleFacts DEF TaskInv, Stages, SameRecord
    <3>6. Observes(log, t) => Observes(log, u)
      BY <1>4, <2>2, <3>1 DEF Observes, Stages, SameRecord
    <3> QED BY <1>3, <3>2, <3>5, <3>6
  <2> QED BY <1>1, <2>1, <2>2
<1> HIDE DEF x
<1>8. Turns
  BY <1>1, <1>3, <1>6, <1>7, TurnsAsBefore
<1> QED BY <1>1, <1>6, <1>8, LeftStays DEF Advances

LEMMA ScanOnAdvances ==
  ASSUME AttentionInv, NEW w \in Workers, ScanOn(w)
  PROVE  Advances
<1> DEFINE t == task[w]
           u == [t EXCEPT !.completed = t.source, !.known = Len(log)]
           x == ScanFrom(w, u)
<1>1. t.pc = "scan" /\ UNCHANGED <<log, left>> /\ Become(w, x)
  BY DEF ScanOn
<1>2. /\ TaskInv(log, w, t) /\ Len(log) \in Nat /\ (CheckpointInv => Observes(log, t))
      /\ w \in Processes
  BY InvFacts DEF CheckpointInv, Processes
<1> HIDE DEF t
<1>3. DOMAIN t = Fields /\ t.kind = "disposition" /\ Remembers(log, t) /\ t.policy = SourcePolicy[w]
  BY <1>1, <1>2, IdleFacts DEF TaskInv, InPass, Stages
<1>4. CheckpointInv => ObservedUpTo(log, SourcePolicy[w], t.source)
  BY <1>1, <1>2, <1>3 DEF Observes
<1>5. /\ DOMAIN u = Fields /\ u.kind = "disposition" /\ u.policy = SourcePolicy[w]
      /\ u.known = Len(log) /\ u.completed = t.source /\ u.source = t.source /\ u.seen = t.seen
      /\ u.cut = t.cut /\ u.event = t.event /\ u.access = t.access /\ u.receipts = t.receipts
  BY <1>3 DEF Fields
<1> HIDE DEF u
<1>6. Remembers(log, u)
  BY <1>2, <1>3, <1>5 DEF Remembers
<1>7. /\ TaskInv(log, w, x)
      /\ ObservedUpTo(log, u.policy, u.completed) => Observes(log, x)
  BY <1>5, <1>6, ScanFromFacts
<1>8. CheckpointInv => Observes(log, x)
  BY <1>4, <1>5, <1>7
<1> HIDE DEF x
<1>9. Appends
  BY <1>1, NothingAppended
<1>10. Turns
  BY <1>1, <1>2, <1>7, <1>8, <1>9, TurnsAsBefore
<1> QED BY <1>1, <1>9, <1>10, LeftStays DEF Advances

-----------------------------------------------------------------------------
\* Observers.

LEMMA StartLinkAdvances ==
  ASSUME AttentionInv, NEW o \in Observers, StartLink(o)
  PROVE  Advances
<1>1. PICK d \in Positions(log, "disposition"), e \in Positions(log, "fact"), request \in left.links :
        /\ \E info :
             Become(o, [Idle EXCEPT !.pc = "lineage", !.kind = request.kind, !.source = d, !.event = e,
                                    !.body = request.body, !.infos = {log[d].info} \cup request.extra,
                                    !.info = info])
        /\ left' = [left EXCEPT !.links = @ \ {request}]
  BY DEF StartLink
<1>2. PICK info :
        Become(o, [Idle EXCEPT !.pc = "lineage", !.kind = request.kind, !.source = d, !.event = e,
                               !.body = request.body, !.infos = {log[d].info} \cup request.extra,
                               !.info = info])
  BY <1>1
<1> DEFINE x == [Idle EXCEPT !.pc = "lineage", !.kind = request.kind, !.source = d, !.event = e,
                             !.body = request.body, !.infos = {log[d].info} \cup request.extra,
                             !.info = info]
<1>3. UNCHANGED log /\ o \in Processes
  BY DEF StartLink, Processes
<1>4. Become(o, x)
  BY <1>2
<1>5. /\ IsLog(log) /\ Len(log) \in Nat /\ DOMAIN log = 1..Len(log) /\ LeftInv(left)
  BY InvFacts
<1>6. /\ DOMAIN x = Fields /\ x.pc = "lineage" /\ x.kind = request.kind /\ x.source = d /\ x.event = e
      /\ x.infos # {} /\ x.seen = 0 /\ x.known = 0 /\ x.completed = 0 /\ x.receipts = {} /\ x.cut = 0
      /\ x.access = 0
  BY IdleFacts DEF Fields
<1> HIDE DEF x
<1>7. request.kind \in {"outcome", "feedback"}
  BY <1>5 DEF LeftInv
<1>8. d \in DOMAIN log /\ e \in DOMAIN log
  BY DEF Positions
<1>9. Remembers(log, x)
  BY <1>5, <1>6, <1>8, FS_EmptySet DEF Remembers
<1>10. TaskInv(log, o, x) /\ Observes(log, x)
  BY <1>6, <1>7, <1>9, IdleFacts DEF TaskInv, Stages, Observes
<1>11. Appends
  BY <1>3, NothingAppended
<1>12. Turns
  BY <1>3, <1>4, <1>10, <1>11, TurnsAsBefore
<1>13. Uses
  <2>1. DOMAIN left' = DOMAIN left /\ left'.links \subseteq left.links /\ left'.facts = left.facts
        /\ left'.steward = left.steward /\ left'.requests = left.requests
        /\ left'.crashes = left.crashes
        /\ left'.passes = left.passes
    BY <1>1, <1>5 DEF LeftInv
  <2> QED BY <1>5, <2>1 DEF LeftInv, Uses
<1> QED BY <1>11, <1>12, <1>13 DEF Advances

LEMMA RecordLinkAdvances ==
  ASSUME AttentionInv, NEW o \in Observers, RecordLink(o)
  PROVE  Advances
<1> DEFINE t == task[o]
           e == AttentionLink(t, log)
<1>1. t.kind \in {"outcome", "feedback"} /\ UNCHANGED left /\ Become(o, Idle)
      /\ (log' = log \/ (Legal(log, e) /\ log' = Append(log, e)))
  BY DEF RecordLink, AppendExact, Raise
<1>2. e.type \in {"outcome", "feedback"}
  BY <1>1 DEF AttentionLink
<1> HIDE DEF e, t
<1>3. Appends
  BY <1>1, <1>2, EventAppended, NothingAppended
<1>4. o \in Processes
  BY DEF Processes
<1> QED BY <1>1, <1>3, <1>4, RaiseTurns, LeftStays DEF Advances

-----------------------------------------------------------------------------
\* Clients.

LEMMA AdmitAdvances ==
  ASSUME AttentionInv, NEW c \in Clients, Admit(c)
  PROVE  Advances
<1>1. PICK r \in left.requests :
        /\ log' = Append(log, Decision(log, r))
        /\ left' = [left EXCEPT !.requests = @ \ {r}]
        /\ Become(c, IF r.op = "declassify" /\ Allowed(Decision(log, r))
                     THEN [Idle EXCEPT !.pc = "view", !.access = Len(log) + 1] ELSE Idle)
  BY DEF Admit
<1> DEFINE d == Decision(log, r)
           k == Len(log) + 1
           x == [Idle EXCEPT !.pc = "view", !.access = k]
<1>2. /\ Appends /\ k \in Positions(log', "decision") /\ log'[k] = d /\ Len(log') = k
  BY <1>1, DecisionAppended
<1>3. c \in Processes /\ LeftInv(left) /\ Len(log) \in Nat /\ IsLog(log')
  BY <1>2, InvFacts, LogStays DEF Processes
<1>4. d.request = r /\ d = DecisionUnder(log, r, Composition(log, r.info))
  BY DecisionFacts
<1>5. Turns
  <2>1. CASE r.op = "declassify" /\ Allowed(d)
    <3>1. Become(c, x)
      BY <1>1, <2>1
    <3>2. DOMAIN x = Fields /\ x.pc = "view" /\ x.access = k /\ x.source = 0 /\ x.seen = 0
          /\ x.known = 0 /\ x.completed = 0 /\ x.receipts = {} /\ x.cut = 0 /\ x.event = 0
      BY IdleFacts DEF Fields
    <3>3. r.proposed \subseteq KnownPolicies(log)
      <4>1. PICK v \in r.proposed : r.proposed = {v}
        BY <1>3, <2>1 DEF LeftInv
      <4> DEFINE cc == Composition(log, r.info)
      <4>2. d.reasons = DeclassificationReasons(log, cc, r)
        BY <1>4, <2>1 DEF DecisionUnder
      <4>3. DeclassificationReasons(log, cc, r) = {}
        BY <2>1, <4>2 DEF Allowed
      <4> HIDE DEF cc
      <4>4. r.proposed \cap KnownPolicies(log) # {}
        BY <4>3 DEF DeclassificationReasons
      <4> QED BY <4>1, <4>4
    <3>4. KnownPolicies(log) \subseteq KnownPolicies(log')
      <4>1. Follows(log', log, d)
        BY <1>1, InvFacts DEF Follows
      <4> HIDE DEF d
      <4> QED BY <4>1, LogsGrow
    <3> HIDE DEF x, d, k
    <3>5. Remembers(log', x)
      <4>1. k \in 0..Len(log')
        BY <1>2, <1>3 DEF k
      <4> QED BY <1>3, <3>2, <4>1, LogFacts, FS_EmptySet DEF Remembers
    <3>6. TaskInv(log', c, x)
      BY <1>2, <1>4, <2>1, <3>2, <3>3, <3>4, <3>5, IdleFacts DEF TaskInv, Stages
    <3>7. Observes(log', x)
      BY <3>2 DEF Observes
    <3> QED BY <1>3, <3>1, <3>6, <3>7, TurnsTo DEF GoesOn
  <2>2. CASE ~(r.op = "declassify" /\ Allowed(d))
    BY <1>1, <1>2, <1>3, <2>2, RaiseTurns
  <2> QED BY <2>1, <2>2
<1>6. Uses
  <2>1. DOMAIN left' = DOMAIN left /\ left'.requests \subseteq left.requests /\ left'.facts = left.facts
        /\ left'.steward = left.steward /\ left'.links = left.links /\ left'.crashes = left.crashes
        /\ left'.passes = left.passes
    BY <1>1, <1>3 DEF LeftInv
  <2> QED BY <1>3, <2>1 DEF LeftInv, Uses
<1> QED BY <1>2, <1>5, <1>6 DEF Advances

LEMMA AdmitDeclassifiedViewAdvances ==
  ASSUME AttentionInv, NEW c \in Clients, AdmitDeclassifiedView(c)
  PROVE  Advances
<1> DEFINE t == task[c]
           d == log[t.access]
           e == DeclassifiedDisclosureView(log, d)
<1>1. t.pc = "view" /\ log' = Append(log, e) /\ Become(c, Idle) /\ UNCHANGED left
  BY DEF AdmitDeclassifiedView
<1>2. TaskInv(log, c, t) /\ c \in Processes
  BY InvFacts DEF Processes
<1>3. /\ t.access \in Positions(log, "decision") /\ Allowed(d) /\ d.request.op = "declassify"
      /\ d.request.proposed \subseteq KnownPolicies(log)
  BY <1>1, <1>2 DEF TaskInv
<1>4. d \in Recorded(log, "decision")
  BY <1>3 DEF Recorded
<1>5. e.type = "view" /\ e.cursor = Len(log) /\ e.decision = d
  BY DEF DeclassifiedDisclosureView
<1> HIDE DEF d, e, t
<1>6. Legal(log, e)
  BY <1>3, <1>4, <1>5, LegalByType DEF LegalView
<1>7. Appends
  BY <1>1, <1>5, <1>6, EventAppended
<1> QED BY <1>1, <1>2, <1>7, RaiseTurns, LeftStays DEF Advances

-----------------------------------------------------------------------------
\* The environment.

LEMMA PublishAdvances ==
  ASSUME AttentionInv, Publish
  PROVE  Advances
<1> DEFINE e == Head(left.facts)
<1>1. /\ left.facts # <<>> /\ log' = Append(log, e) /\ UNCHANGED task
      /\ left' = [left EXCEPT !.facts = Tail(@)]
  BY DEF Publish
<1>2. LeftInv(left) /\ IsLog(log)
  BY InvFacts
<1>3. IsLog(left.facts)
  BY <1>2 DEF LeftInv
<1>4. /\ IsLog(Tail(left.facts)) /\ e = left.facts[1] /\ 1 \in DOMAIN left.facts
      /\ \A k \in DOMAIN Tail(left.facts) :
           k + 1 \in DOMAIN left.facts /\ Tail(left.facts)[k] = left.facts[k + 1]
  BY <1>1, <1>3, TailLog
<1>5. IsFact(e) /\ \A k \in DOMAIN Tail(left.facts) : IsFact(Tail(left.facts)[k])
  BY <1>2, <1>4 DEF LeftInv
<1>6. e.type = "fact"
  BY <1>5 DEF IsFact
<1>7. Appends
  <2>1. Admissible(log, e)
    BY <1>5, <1>6 DEF Admissible
  <2>2. Grows(e)
    BY <1>1, <1>2, <1>6, <2>1 DEF Grows, Follows
  <2> QED BY <2>2 DEF Appends
<1>8. Uses
  <2> DEFINE rest == Tail(left.facts)
  <2>1. left' = [left EXCEPT !.facts = rest]
    BY <1>1
  <2>2. IsLog(rest) /\ \A k \in DOMAIN rest : IsFact(rest[k])
    BY <1>4, <1>5
  <2> HIDE DEF rest
  <2>3. DOMAIN left' = DOMAIN left /\ left'.facts = rest /\ left'.requests = left.requests
        /\ left'.steward = left.steward /\ left'.links = left.links /\ left'.crashes = left.crashes
        /\ left'.passes = left.passes
    BY <1>2, <2>1 DEF LeftInv
  <2>4. LeftInv(left')
    BY <1>2, <2>2, <2>3 DEF LeftInv
  <2> QED BY <1>1, <2>3, <2>4 DEF Uses, rest
<1> QED BY <1>1, <1>7, <1>8 DEF Advances, Turns

LEMMA GovernAdvances ==
  ASSUME AttentionInv, Govern
  PROVE  Advances
<1>1. PICK e \in left.steward : Legal(log, e) /\ Emit(e) /\ left' = [left EXCEPT !.steward = @ \ {e}]
  BY DEF Govern
<1>2. LeftInv(left) /\ UNCHANGED task
  BY InvFacts DEF Govern
<1>3. e.type \in {"lineage", "binding", "quarantine"}
  BY <1>2 DEF LeftInv
<1>4. Appends
  BY <1>1, <1>3, EventEmitted
<1>5. Uses
  <2>1. DOMAIN left' = DOMAIN left /\ left'.steward \subseteq left.steward /\ left'.facts = left.facts
        /\ left'.requests = left.requests /\ left'.links = left.links /\ left'.crashes = left.crashes
        /\ left'.passes = left.passes
    BY <1>1, <1>2 DEF LeftInv
  <2> QED BY <1>2, <2>1 DEF LeftInv, Uses
<1> QED BY <1>2, <1>4, <1>5 DEF Advances, Turns

LEMMA CrashAdvances ==
  ASSUME AttentionInv, NEW p \in Processes, Crash(p)
  PROVE  Advances
<1>1. /\ left.crashes > 0 /\ Become(p, Idle) /\ UNCHANGED log
      /\ left' = [left EXCEPT !.crashes = @ - 1]
  BY DEF Crash, Raise
<1>2. LeftInv(left)
  BY InvFacts
<1>3. Appends
  BY <1>1, NothingAppended
<1>4. Turns
  BY <1>1, <1>3, RaiseTurns
<1>5. Uses
  <2>1. DOMAIN left' = DOMAIN left /\ left'.crashes = left.crashes - 1 /\ left'.facts = left.facts
        /\ left'.passes = left.passes
        /\ left'.requests = left.requests /\ left'.links = left.links /\ left'.steward = left.steward
    BY <1>1, <1>2 DEF LeftInv
  <2>2. left'.crashes \in Nat
    BY <1>1, <1>2, <2>1 DEF LeftInv
  <2> QED BY <1>2, <2>1, <2>2 DEF LeftInv, Uses
<1> QED BY <1>3, <1>4, <1>5 DEF Advances


-----------------------------------------------------------------------------
\* Every step.

LEMMA NextAdvances ==
  ASSUME AttentionInv, Next
  PROVE  Advances
<1>1. ASSUME NEW w \in Workers, WorkerStep(w) PROVE Advances
  <2>0. w \in Processes
    BY DEF Processes
  <2> QED BY <1>1, <2>0, RegisterSchemaAdvances, RegisterPolicyAdvances, SnapshotAdvances,
             AdmitSourceAdvances, DecideAdvances, FindDispositionAdvances, EnsureLineageAdvances,
             ComposeSourcesAdvances, EnsureBindingAdvances, AdmitDerivedAdvances,
             RecordDispositionAdvances, AdvanceCheckpointAdvances, ScanOnAdvances DEF WorkerStep, Record
<1>2. ASSUME NEW o \in Observers, ObserverStep(o) PROVE Advances
  <2>0. o \in Processes
    BY DEF Processes
  <2> QED BY <1>2, <2>0, StartLinkAdvances, EnsureLineageAdvances, ComposeSourcesAdvances,
             EnsureBindingAdvances, AdmitDerivedAdvances, RecordLinkAdvances DEF ObserverStep, Record
<1>3. ASSUME NEW c \in Clients, ClientStep(c) PROVE Advances
  BY <1>3, AdmitAdvances, AdmitDeclassifiedViewAdvances DEF ClientStep
<1> QED BY <1>1, <1>2, <1>3, PublishAdvances, GovernAdvances, CrashAdvances DEF Next

LEMMA InitIsFine ==
  ASSUME Init
  PROVE  AttentionInv /\ CheckpointInv
<1>1. PICK s \in Scenarios :
        /\ log = s.log /\ left = [n \in DOMAIN s \ {"log"} |-> s[n]]
        /\ task = [p \in Processes |-> Idle]
  BY DEF Init
<1>2. /\ DOMAIN s = {"log", "facts", "steward", "workers", "says", "links", "requests", "crashes",
                     "passes"}
      /\ WellFormed(s.log)
      /\ \A w \in Workers : ObservedUpTo(s.log, SourcePolicy[w], LastCompleted(s.log, Consumer[w]))
      /\ IsLog(s.facts) /\ \A k \in DOMAIN s.facts : IsFact(s.facts[k])
      /\ \A e \in s.steward : e.type \in {"lineage", "binding", "quarantine"}
      /\ \A r \in s.links : r.kind \in {"outcome", "feedback"}
      /\ \A r \in s.requests : r.op = "declassify" => \E v \in r.proposed : r.proposed = {v}
      /\ s.crashes \in Nat /\ s.passes \in Nat
  BY StartAssumption
<1>3. /\ DOMAIN left = {"facts", "steward", "workers", "says", "links", "requests", "crashes", "passes"}
      /\ left.facts = s.facts /\ left.steward = s.steward /\ left.links = s.links
      /\ left.requests = s.requests /\ left.crashes = s.crashes
      /\ left.passes = s.passes
  BY <1>1, <1>2
<1>4. LeftInv(left)
  BY <1>2, <1>3 DEF LeftInv
<1>5. WellFormed(log) /\ IsLog(log)
  BY <1>1, <1>2 DEF WellFormed
<1>6. DOMAIN task = Processes /\ \A p \in Processes : task[p] = Idle
  BY <1>1
<1>7. \A p \in Processes : TaskInv(log, p, task[p]) /\ Observes(log, task[p])
  BY <1>5, <1>6, IdleIsFine
<1>8. AttentionInv
  BY <1>4, <1>5, <1>6, <1>7 DEF AttentionInv
<1>9. CheckpointInv
  BY <1>1, <1>2, <1>7 DEF CheckpointInv
<1> QED BY <1>8, <1>9

LEMMA AttentionStays ==
  ASSUME AttentionInv, [Next]_vars
  PROVE  AttentionInv'
<1>1. CASE Next
  BY <1>1, NextAdvances, AdvancesKeepsAttention
<1>2. CASE UNCHANGED vars
  <2>1. log' = log /\ left' = left /\ task' = task
    BY <1>2 DEF vars
  <2> QED BY <2>1 DEF AttentionInv
<1> QED BY <1>1, <1>2

\* The log stays one that replay can be asked about, what the scenario still allows stays what a
\* scenario may allow, and every process remembers only what is in the log: its pass is about a
\* recognized source, its receipts are allowed accesses to that source's information in its order,
\* and a provider is asked only once they are all there (service.py:737, projection.py:185).
THEOREM AttentionIsWellFormed == Spec => []AttentionInv
<1>1. Init => AttentionInv
  BY InitIsFine
<1>2. AttentionInv /\ [Next]_vars => AttentionInv'
  BY AttentionStays
<1> QED BY <1>1, <1>2, PTL DEF Spec

-----------------------------------------------------------------------------
\* What is derived, and what a provider is shown.

LEMMA GovernanceFollows ==
  ASSUME AttentionInv
  PROVE  GovernanceInv
<1>1. WellFormed(log) /\ IsLog(log) /\ GovernanceIsWellFormed(log)
  BY InvFacts DEF WellFormed
<1>2. ASSUME NEW n \in Recorded(log, "lineage"),
             IsBound(log, n.info), Quarantine(log, n.info) = {}, View(log, n.info) = {},
             NEW i \in n.sources, IsBound(log, i), Quarantine(log, i) = {}, View(log, i) = {}
      PROVE  LET made == Composition(log, n.info)
                 source == Composition(log, i)
             IN /\ source.policies \subseteq made.policies /\ source.class <= made.class
                /\ made.purposes \subseteq source.purposes
                /\ made.recipients \subseteq source.recipients
                /\ made.authorities \subseteq source.authorities
  <2> DEFINE made == Composition(log, n.info)
             source == Composition(log, i)
  <2>1. /\ source.policies \subseteq made.policies /\ source.class <= made.class
        /\ made.purposes \subseteq source.purposes
        /\ made.recipients \subseteq source.recipients
        /\ made.authorities \subseteq source.authorities
    BY <1>1, <1>2, DerivationTightens
  <2> QED BY <2>1
<1>3. DerivationOnlyTightens
  BY <1>2 DEF DerivationOnlyTightens
<1>4. ASSUME NEW w \in Workers, task[w].pc = "lineage", NEW i \in ToSet(log[task[w].source].infos)
      PROVE  \E k \in 1..task[w].cut : IsAllowedAccess(log, k) /\ log[k].request.info = i
  <2>1. TaskInv(log, w, task[w])
    BY InvFacts DEF Processes
  <2>2. task[w].kind = "disposition"
    BY <1>4, <2>1, WorkersHavePolicies DEF TaskInv, Stages
  <2>3. InPass(log, w, task[w])
    BY <1>4, <2>1, <2>2 DEF TaskInv, Stages
  <2>4. WasShown(log, i, task[w].cut)
    BY <1>4, <2>3 DEF InPass
  <2> QED BY <2>4 DEF WasShown
<1>5. DecidedOnAdmittedSources
  BY <1>4 DEF DecidedOnAdmittedSources
<1> QED BY <1>3, <1>5 DEF GovernanceInv

\* Whatever is made of several sources is governed at least as strictly as each of them, however
\* long its lineage is and whoever recorded it, and no provider is asked about a source before the
\* access to every information of it was admitted (policy.py:392, service.py:200).
THEOREM DerivationIsGoverned == Spec => []GovernanceInv
<1>1. AttentionInv => GovernanceInv
  BY GovernanceFollows
<1> QED BY <1>1, AttentionIsWellFormed, PTL

-----------------------------------------------------------------------------
\* Checkpoints.

LEMMA ObservationFollows ==
  ASSUME AttentionInv, CheckpointInv
  PROVE  ObservationInv
<1>1. WellFormed(log) /\ LeftInv(left) /\ \A p \in Processes : TaskInv(log, p, task[p])
  BY InvFacts
<1>2. TypeOK
  BY <1>1 DEF TypeOK, TaskInv, Remembers, LeftInv
<1>3. CheckpointMeansObserved
  <2>1. ASSUME NEW w \in Workers
        PROVE  MissingDispositions(log, SourcePolicy[w], 1, LastCompleted(log, Consumer[w])) = {}
    <3>1. ObservedUpTo(log, SourcePolicy[w], LastCompleted(log, Consumer[w]))
      BY DEF CheckpointInv
    <3>2. LastCompleted(log, Consumer[w]) \in Int
      BY <1>1, LastCompletedFacts
    <3> QED BY <3>1, <3>2 DEF ObservedUpTo, MissingDispositions
  <2> QED BY <2>1 DEF CheckpointMeansObserved
<1>4. DenominatorIsExact
  BY <1>1 DEF WellFormed, DenominatorIsExact
<1> QED BY <1>2, <1>3, <1>4 DEF ObservationInv

\* Where the workers of one consumer recognize the same facts, its checkpoint never passes one that
\* has no disposition, and no two dispositions are of one opportunity (service.py:776).
THEOREM CheckpointsAreObserved ==
  ASSUME OnePolicyPerConsumer
  PROVE  Spec => []ObservationInv
<1>1. Init => AttentionInv /\ CheckpointInv
  BY InitIsFine
<1>2. AttentionInv /\ CheckpointInv /\ [Next]_vars => (AttentionInv /\ CheckpointInv)'
  <2>1. ASSUME AttentionInv, CheckpointInv, Next PROVE AttentionInv' /\ CheckpointInv'
    BY <2>1, NextAdvances, AdvancesKeepsAttention, AdvancesKeepsCheckpoint
  <2>2. ASSUME AttentionInv, CheckpointInv, UNCHANGED vars PROVE AttentionInv' /\ CheckpointInv'
    <3>1. log' = log /\ left' = left /\ task' = task
      BY <2>2 DEF vars
    <3> QED BY <2>2, <3>1 DEF AttentionInv, CheckpointInv
  <2> QED BY <2>1, <2>2
<1>3. AttentionInv /\ CheckpointInv => ObservationInv
  BY ObservationFollows
<1> QED BY <1>1, <1>2, <1>3, PTL DEF Spec

-----------------------------------------------------------------------------
\* Replay.

\* A fact that no policy of the history or of a worker recognizes may have any payload.
Readable(l, facts) ==
    \A k \in DOMAIN facts :
        /\ LegalFact(l, facts[k])
        /\ facts[k].payload = "malformed" =>
             \A w \in Workers : facts[k].kind \notin SourcePolicy[w].kinds

\* The kernel appends a fact before anything reads it, and replay stops at one it cannot read.
FactsAreReadable == \A s \in Scenarios : Readable(s.log, s.facts)

\* What is still to come is readable under every policy of the log.
ReadableInv == Readable(log, left.facts)

LEMMA ReadableGrows ==
  ASSUME NEW l, NEW e, NEW m, Follows(m, l, e), NEW facts, Readable(l, facts),
         e.type = "source_policy" => \E w \in Workers : e.contract = SourcePolicy[w]
  PROVE  Readable(m, facts)
<1>1. /\ \A k : k \in Positions(m, "source_policy")
                  <=> k \in Positions(l, "source_policy") \/ (k = Len(m) /\ e.type = "source_policy")
      /\ \A k \in Positions(l, "source_policy") : m[k] = l[k]
      /\ m[Len(m)] = e
  BY PositionsGrow
<1> QED BY <1>1 DEF Readable, LegalFact

LEMMA ReadableStays ==
  ASSUME AttentionInv, ReadableInv, Advances
  PROVE  ReadableInv'
<1>1. Readable(log', left.facts)
  <2>1. CASE log' = log
    BY <2>1 DEF ReadableInv
  <2>2. CASE \E e : Grows(e)
    BY <2>2, ReadableGrows DEF ReadableInv, Grows
  <2> QED BY <2>1, <2>2 DEF Advances, Appends
<1>2. CASE left'.facts = left.facts
  BY <1>1, <1>2 DEF ReadableInv
<1>3. CASE left.facts # <<>> /\ left'.facts = Tail(left.facts)
  <2>1. IsLog(left.facts)
    BY InvFacts DEF LeftInv
  <2>2. \A k \in DOMAIN left'.facts :
          k + 1 \in DOMAIN left.facts /\ left'.facts[k] = left.facts[k + 1]
    BY <1>3, <2>1, TailLog
  <2> QED BY <1>1, <2>2 DEF ReadableInv, Readable
<1> QED BY <1>2, <1>3 DEF Advances, Uses

LEMMA AppendedIsLegal ==
  ASSUME AttentionInv, ReadableInv, Advances, NEW k \in (Len(log) + 1)..Len(log')
  PROVE  Legal(SubSeq(log', 1, k - 1), log'[k])
<1>1. IsLog(log) /\ Len(log) \in Nat
  BY InvFacts
<1>2. PICK e : Grows(e)
  BY <1>1 DEF Advances, Appends
<1>3. Follows(log', log, e)
  BY <1>2 DEF Grows
<1>4. k = Len(log) + 1 /\ log'[k] = e
  BY <1>1, <1>3, FollowsFacts
<1>5. SubSeq(log', 1, k - 1) = log
  <2>1. k - 1 = Len(log)
    BY <1>1, <1>4
  <2> QED BY <1>1, <1>3, <2>1, PriorLog DEF Follows
<1>6. CASE e.type = "fact"
  <2>1. left.facts # <<>> /\ e = Head(left.facts) /\ IsLog(left.facts)
    BY <1>2, <1>6, InvFacts DEF Grows, LeftInv
  <2>2. e = left.facts[1] /\ 1 \in DOMAIN left.facts
    BY <2>1, TailLog
  <2>3. LegalFact(log, e)
    BY <2>2 DEF ReadableInv, Readable
  <2>4. Legal(log, e)
    BY <1>6, <2>3, LegalByType
  <2> QED BY <1>4, <1>5, <2>4
<1>7. CASE e.type # "fact"
  <2>1. Legal(log, e)
    BY <1>2, <1>7 DEF Grows, Admissible
  <2> QED BY <1>4, <1>5, <2>1
<1> QED BY <1>6, <1>7

\* Where no fact to come is one that a policy recognizes and cannot read, every event appended, by
\* whoever and however stale what it had read was, is one that replay accepts (projection.py:185).
THEOREM LogIsReplayable ==
  ASSUME FactsAreReadable
  PROVE  Spec => Replayable
<1> DEFINE Accepted == \A k \in (Len(log) + 1)..Len(log') : Legal(SubSeq(log', 1, k - 1), log'[k])
<1>1. Init => AttentionInv /\ ReadableInv
  <2>1. ASSUME Init PROVE ReadableInv
    <3>1. PICK s \in Scenarios : log = s.log /\ left = [n \in DOMAIN s \ {"log"} |-> s[n]]
      BY <2>1 DEF Init
    <3>2. "facts" \in DOMAIN s
      BY StartAssumption
    <3>3. left.facts = s.facts
      BY <3>1, <3>2
    <3> QED BY <3>1, <3>3 DEF FactsAreReadable, ReadableInv
  <2> QED BY <2>1, InitIsFine
<1>2. AttentionInv /\ ReadableInv /\ [Next]_vars => (AttentionInv /\ ReadableInv)'
  <2>1. ASSUME AttentionInv, ReadableInv, Next PROVE AttentionInv' /\ ReadableInv'
    BY <2>1, NextAdvances, AdvancesKeepsAttention, ReadableStays
  <2>2. ASSUME AttentionInv, ReadableInv, UNCHANGED vars PROVE AttentionInv' /\ ReadableInv'
    <3>1. log' = log /\ left' = left /\ task' = task
      BY <2>2 DEF vars
    <3> QED BY <2>2, <3>1 DEF AttentionInv, ReadableInv
  <2> QED BY <2>1, <2>2
<1>3. AttentionInv /\ ReadableInv /\ [Next]_vars => [Accepted]_vars
  BY NextAdvances, AppendedIsLegal
<1>4. Replayable <=> [][Accepted]_vars
  BY DEF Replayable
<1> HIDE DEF Accepted
<1> QED BY <1>1, <1>2, <1>3, <1>4, PTL DEF Spec

=============================================================================
