-------------------------- MODULE DreamEpochsProofs --------------------------
(***************************************************************************)
(* Theorems about DreamEpochs.                                             *)
(*                                                                         *)
(* For any number of consumers: a served foreground event stays served.    *)
(* The log says what it needs to (LogInv): an epoch starts right behind    *)
(* its request, a consumer has one epoch open at a time, and no epoch is   *)
(* open that a foreground event behind a checkpoint should have closed.    *)
(* Of the tasks it is enough to know what they work on (WorkInv): a task   *)
(* about to settle a foreground event has served it, and an epoch that     *)
(* starts later starts behind it, because only the head may start one.     *)
(*                                                                         *)
(* For one process (Alone): what an epoch asks is settled by its cut.      *)
(* Questions(l, e) are those detected at the cut that no epoch before it   *)
(* asked.  As long as epoch e is open it is the only one that asks, so     *)
(* each scan of it, however many interleave and whenever they read, finds  *)
(* exactly those (Thought), and the agenda that any of them computes is    *)
(* the same.  What is appended is therefore legal when it is replayed      *)
(* (Permitted), and an agenda decides on everything its epoch will answer. *)
(*                                                                         *)
(* SelectAgenda folds over a set.  What it computes is shown by            *)
(* induction with the least counterexample: of the subsets of the ranked   *)
(* activities on which an unfolding of the fold is wrong, take a minimal   *)
(* one.                                                                    *)
(***************************************************************************)
EXTENDS DreamEpochs, FiniteSetTheorems, SequenceTheorems, TLAPS

-----------------------------------------------------------------------------
\* Sets of numbers and of activities.  What a recursion computes is shown with
\* the least counterexample (WFMin), which quantifies over sets only.

\* A set of naturals has a least element: recover() has a next trigger.
LEMMA LeastNatural ==
  ASSUME NEW S \in SUBSET Nat, S # {}
  PROVE  Min(S) \in S /\ \A x \in S : Min(S) <= x
<1>1. PICK x \in S : \A y \in S : ~(<<y, x>> \in OpToRel(<, Nat))
  BY NatLessThanWellFounded, WFMin
<1>2. ASSUME NEW y \in S PROVE x <= y
  <2>1. CASE y < x
    <3> DEFINE p == <<y, x>>
    <3>1. p \in Nat \X Nat /\ p[1] < p[2]
      BY <2>1
    <3>2. p \in OpToRel(<, Nat)
      BY <3>1 DEF OpToRel
    <3> QED
      BY <3>2, <1>1
  <2> QED
    BY <2>1
<1> QED
  BY <1>2 DEF Min

\* The evidence of an inquiry has a last event.
LEMMA GreatestSequence ==
  ASSUME NEW n \in Nat, NEW S \in SUBSET (1..n), S # {}
  PROVE  Max(S) \in S
<1> DEFINE D == {n - x : x \in S}
<1>1. D \in SUBSET Nat
  OBVIOUS
<1>0. D # {}
  <2>1. PICK x \in S : TRUE
    OBVIOUS
  <2>2. n - x \in D
    BY <2>1
  <2> QED
    BY <2>2
<1>2. PICK d \in D : \A y \in D : d <= y
  <2>1. Min(D) \in D /\ \A y \in D : Min(D) <= y
    <3> HIDE DEF D
    <3> QED
      BY <1>0, <1>1, LeastNatural
  <2> QED
    BY <2>1
<1>3. PICK x \in S : d = n - x
  OBVIOUS
<1>4. \A y \in S : x >= y
  <2>1. TAKE y \in S
  <2>2. n - y \in D
    OBVIOUS
  <2> QED
    BY <2>2, <1>2, <1>3
<1> QED
  BY <1>4 DEF Max

LEMMA LaterOf ==
  ASSUME NEW a \in Int, NEW b \in Int
  PROVE  Max({a, b}) \in {a, b} /\ Max({a, b}) >= a /\ Max({a, b}) >= b
<1>1. \E x \in {a, b} : \A y \in {a, b} : x >= y
  OBVIOUS
<1> QED
  BY <1>1 DEF Max

\* A finite set has a least subset among those that are in a family.
LEMMA LeastSubset ==
  ASSUME NEW S, IsFiniteSet(S), NEW F \in SUBSET SUBSET S, F # {}
  PROVE  \E U \in F : \A V \in F : V \subseteq U => V = U
<1>1. IsWellFoundedOn(StrictSubsetOrdering(S), SUBSET S)
  BY FS_StrictSubsetOrderingWellFounded, FS_FiniteSubsetsOfFinite
<1>2. PICK U \in F : \A V \in F : ~(<<V, U>> \in StrictSubsetOrdering(S))
  BY <1>1, WFMin
<1>3. \A V \in F : V \subseteq U => V = U
  BY <1>2 DEF StrictSubsetOrdering
<1> QED
  BY <1>3

\* An activity as the policy ranks it.
IsRanked(a) == a.topic \in Topics /\ Max(a.evidence) \in Int

\* The ranking is a strict partial order.
LEMMA RankingIsAnOrder ==
  ASSUME NEW a, NEW b, NEW c, IsRanked(a), IsRanked(b), IsRanked(c)
  PROVE  ~Before(a, a) /\ (Before(a, b) /\ Before(b, c) => Before(a, c))
<1>1. \A t \in Topics : Improvement[t] \in Int /\ Cost[t] \in Int
  BY ValueAssumption
<1>2. a.topic \in Int /\ b.topic \in Int /\ c.topic \in Int
  BY ValueAssumption DEF IsRanked
<1> DEFINE net(x) == NetVOC(x.topic)
           seq(x) == Max(x.evidence)
<1>3. /\ net(a) \in Int /\ net(b) \in Int /\ net(c) \in Int
  <2>1. \A w, x \in Int : w * x \in Int
    OBVIOUS
  <2>2. \A t \in Topics : NetVOC(t) \in Int
    <3> TAKE t \in Topics
    <3>1. CostWeight * Cost[t] \in Int
      BY <2>1, <1>1, ValueAssumption
    <3> QED
      BY <3>1, <1>1 DEF NetVOC
  <2> QED
    BY <2>2 DEF IsRanked
<1>4. seq(a) \in Int /\ seq(b) \in Int /\ seq(c) \in Int
  BY DEF IsRanked
<1>5. /\ a.topic = b.topic => net(a) = net(b)
      /\ b.topic = c.topic => net(b) = net(c)
  OBVIOUS
<1> HIDE DEF net, seq
<1>6. \A x, y : Before(x, y) <=>
        \/ net(x) > net(y)
        \/ net(x) = net(y) /\ x.topic < y.topic
        \/ x.topic = y.topic /\ seq(x) < seq(y)
  BY DEF Before, net, seq
<1> QED
  BY <1>2, <1>3, <1>4, <1>5, <1>6

\* Of the activities that are left one comes last.
LEMMA LastIsRanked ==
  ASSUME NEW S, IsFiniteSet(S), S # {}, \A a \in S : IsRanked(a)
  PROVE  Last(S) \in S
<1> DEFINE Ends(U) == \E a \in U : \A b \in U : ~Before(a, b)
           F == {U \in SUBSET S : U # {} /\ ~Ends(U)}
<1>1. SUFFICES F = {}
  BY DEF Last
<1>2. SUFFICES ASSUME F # {} PROVE FALSE
  OBVIOUS
<1>3. PICK U \in F : \A V \in F : V \subseteq U => V = U
  <2>1. F \in SUBSET SUBSET S
    OBVIOUS
  <2> HIDE DEF F
  <2> QED
    BY <2>1, <1>2, LeastSubset
<1>4. PICK x \in U : TRUE
  OBVIOUS
<1>5. ~Before(x, x)
  BY RankingIsAnOrder
<1>6. U \ {x} # {}
  BY <1>3, <1>5
<1>7. PICK y \in U \ {x} : \A b \in U \ {x} : ~Before(y, b)
  <2>1. U \ {x} \notin F
    BY <1>3, <1>4
  <2> QED
    BY <2>1, <1>6
<1>8. Before(y, x)
  BY <1>3, <1>7
<1>9. PICK z \in U : Before(x, z)
  BY <1>3, <1>4
<1>10. Before(y, z)
  BY <1>8, <1>9, RankingIsAnOrder
<1> QED
  BY <1>5, <1>7, <1>9, <1>10

-----------------------------------------------------------------------------
\* The agenda: a fold over the activities, the lowest ranked decided last.

Ranked(S) == IsFiniteSet(S) /\ \A a \in S : IsRanked(a)
Unfolds(f, S) ==
  f = [s \in SUBSET S |->
         IF s = {} THEN NoAgenda ELSE Decide(f[s \ {Last(s)}], Last(s))]

\* The activities before the last one are fewer.
LEMMA RankedSubset ==
  ASSUME NEW S, Ranked(S), NEW s \in SUBSET S
  PROVE  /\ Ranked(s)
         /\ s # {} => Last(s) \in s /\ s \ {Last(s)} \in SUBSET S /\ s \ {Last(s)} # s
<1>1. Ranked(s)
  BY FS_Subset DEF Ranked
<1>2. s # {} => Last(s) \in s
  BY <1>1, LastIsRanked DEF Ranked
<1> QED
  BY <1>1, <1>2

LEMMA UnfoldsAgree ==
  ASSUME NEW S, Ranked(S), NEW T \in SUBSET S, NEW f, NEW g, Unfolds(f, S), Unfolds(g, T)
  PROVE  \A s \in SUBSET T : f[s] = g[s]
<1> DEFINE F == {s \in SUBSET T : f[s] # g[s]}
<1>1. SUFFICES ASSUME F # {} PROVE FALSE
  OBVIOUS
<1>2. PICK s \in F : \A r \in F : r \subseteq s => r = s
  <2>1. F \in SUBSET SUBSET T
    OBVIOUS
  <2>2. IsFiniteSet(T)
    BY RankedSubset DEF Ranked
  <2> HIDE DEF F
  <2> QED
    BY <1>1, <2>1, <2>2, LeastSubset
<1>3. /\ f[s] = IF s = {} THEN NoAgenda ELSE Decide(f[s \ {Last(s)}], Last(s))
      /\ g[s] = IF s = {} THEN NoAgenda ELSE Decide(g[s \ {Last(s)}], Last(s))
  BY DEF Unfolds
<1>4. s # {}
  BY <1>3
<1>5. s \ {Last(s)} \in SUBSET T /\ s \ {Last(s)} # s
  BY <1>4, RankedSubset
<1>6. f[s \ {Last(s)}] = g[s \ {Last(s)}]
  BY <1>2, <1>5
<1> QED
  BY <1>3, <1>4, <1>6

LEMMA UnfoldingExists ==
  ASSUME NEW S, Ranked(S)
  PROVE  \E f : Unfolds(f, S)
<1> DEFINE F == {s \in SUBSET S : ~\E f : Unfolds(f, s)}
<1>1. SUFFICES ASSUME F # {} PROVE FALSE
  OBVIOUS
<1>2. PICK U \in F : \A r \in F : r \subseteq U => r = U
  <2>1. F \in SUBSET SUBSET S
    OBVIOUS
  <2> HIDE DEF F
  <2> QED
    BY <1>1, <2>1, LeastSubset DEF Ranked
<1> DEFINE fold(r) == CHOOSE f : Unfolds(f, r)
           Before1(s) == s \ {Last(s)}
           g == [s \in SUBSET U |->
                   IF s = {} THEN NoAgenda ELSE Decide(fold(Before1(s))[Before1(s)], Last(s))]
<1>3. ASSUME NEW r \in SUBSET U, r # U
      PROVE  Unfolds(fold(r), r)
  <2>1. \E f : Unfolds(f, r)
    BY <1>2, <1>3
  <2> QED
    BY <2>1
<1>4. ASSUME NEW r \in SUBSET U, r # U
      PROVE  g[r] = fold(r)[r]
  <2>1. fold(r)[r] = IF r = {} THEN NoAgenda ELSE Decide(fold(r)[Before1(r)], Last(r))
    <3>1. Unfolds(fold(r), r)
      BY <1>3, <1>4
    <3> HIDE DEF fold
    <3> QED
      BY <3>1 DEF Unfolds
  <2>2. g[r] = IF r = {} THEN NoAgenda ELSE Decide(fold(Before1(r))[Before1(r)], Last(r))
    OBVIOUS
  <2>3. CASE r # {}
    <3>1. Before1(r) \in SUBSET r /\ Before1(r) # U /\ Before1(r) \in SUBSET U
      BY <2>3, <1>4, RankedSubset
    <3>2. Unfolds(fold(r), r) /\ Unfolds(fold(Before1(r)), Before1(r))
      BY <1>3, <1>4, <3>1
    <3>3. Ranked(r)
      BY RankedSubset
    <3>4. fold(r)[Before1(r)] = fold(Before1(r))[Before1(r)]
      <4> HIDE DEF fold, Before1
      <4> QED
        BY <3>1, <3>2, <3>3, UnfoldsAgree
    <3> QED
      BY <2>1, <2>2, <3>4
  <2> QED
    BY <2>1, <2>2, <2>3
<1>5. \A s \in SUBSET U :
        g[s] = IF s = {} THEN NoAgenda ELSE Decide(g[Before1(s)], Last(s))
  <2>1. TAKE s \in SUBSET U
  <2>2. CASE s # {}
    <3>1. Before1(s) \in SUBSET U /\ Before1(s) # U
      <4>1. s \in SUBSET S
        OBVIOUS
      <4> QED
        BY <4>1, <2>2, RankedSubset
    <3>2. g[Before1(s)] = fold(Before1(s))[Before1(s)]
      BY <3>1, <1>4
    <3> QED
      BY <3>2, <2>2
  <2> QED
    BY <2>2
<1>6. Unfolds(g, U)
  <2>1. g = [s \in SUBSET U |-> g[s]]
    OBVIOUS
  <2> HIDE DEF g
  <2>2. [s \in SUBSET U |-> g[s]] =
          [s \in SUBSET U |-> IF s = {} THEN NoAgenda ELSE Decide(g[Before1(s)], Last(s))]
    BY <1>5
  <2> QED
    BY <2>1, <2>2 DEF Unfolds
<1> QED
  BY <1>6

LEMMA AgendaUnfolds ==
  ASSUME NEW S, Ranked(S)
  PROVE  \E f : Unfolds(f, S) /\ SelectAgenda(S) = f[S]
<1> DEFINE f == CHOOSE g : Unfolds(g, S)
<1>1. Unfolds(f, S)
  BY UnfoldingExists
<1>2. SelectAgenda(S) = f[S]
  BY DEF SelectAgenda, MapThenFoldSet, Unfolds
<1> QED
  BY <1>1, <1>2

\* What an agenda says of the activities it was chosen from.
Decides(d, S) ==
  /\ d.selected \cup d.deferred \cup d.suppressed = S
  /\ FitsWithin(d.used)
  /\ \A a \in d.deferred : ~FitsWithin(Plus(d.used, a.topic))
  /\ \A a \in d.selected : NetVOC(a.topic) > 0

Agendas(S) ==
  [selected : SUBSET S, deferred : SUBSET S, suppressed : SUBSET S,
   used : [activities : Nat, units : Nat]]

\* Resources only grow, so what did not fit does not fit later.
LEMMA DecideOnOneMore ==
  ASSUME NEW S, \A a \in S : IsRanked(a), NEW x \in S, NEW s \in SUBSET S, x \in s,
         NEW d \in Agendas(S), Decides(d, s \ {x})
  PROVE  Decide(d, x) \in Agendas(S) /\ Decides(Decide(d, x), s)
<1>1. \A a \in S : a.topic \in Topics /\ Units[a.topic] \in Nat
  BY ValueAssumption DEF IsRanked
<1>2. /\ d.selected \in SUBSET S /\ d.deferred \in SUBSET S /\ d.suppressed \in SUBSET S
      /\ d.used \in [activities : Nat, units : Nat]
  BY DEF Agendas
<1>3. /\ Ceiling.activities \in Nat /\ Ceiling.units \in Nat
  BY EpochAssumption
<1> DEFINE p == Plus(d.used, x.topic)
<1>4. p \in [activities : Nat, units : Nat]
  BY <1>1, <1>2 DEF Plus
<1>5. CASE ~WorthThinking(x.topic)
  <2>1. Decide(d, x) = [d EXCEPT !.suppressed = @ \cup {x}]
    BY <1>5 DEF Decide
  <2> QED
    BY <2>1, <1>2 DEF Agendas, Decides
<1>6. CASE WorthThinking(x.topic) /\ ~FitsWithin(p)
  <2>1. Decide(d, x) = [d EXCEPT !.deferred = @ \cup {x}]
    BY <1>6 DEF Decide
  <2> QED
    BY <2>1, <1>2, <1>6 DEF Agendas, Decides
<1>7. CASE WorthThinking(x.topic) /\ FitsWithin(p)
  <2>1. Decide(d, x) = [d EXCEPT !.selected = @ \cup {x}, !.used = p]
    BY <1>7 DEF Decide
  <2>2. NetVOC(x.topic) > 0
    <3>1. NetVOC(x.topic) \in Int
      <4>1. \A w, y \in Int : w * y \in Int
        OBVIOUS
      <4>2. CostWeight * Cost[x.topic] \in Int
        BY <1>1, <4>1, ValueAssumption
      <4>3. Improvement[x.topic] \in Int
        BY <1>1, ValueAssumption
      <4> QED
        BY <4>2, <4>3 DEF NetVOC
    <3>2. Max({0, MinimumNet}) \in Int /\ Max({0, MinimumNet}) >= 0
      <4>1. MinimumNet \in Int
        BY ValueAssumption
      <4>2. Max({0, MinimumNet}) \in {0, MinimumNet} /\ Max({0, MinimumNet}) >= 0
        BY <4>1, LaterOf
      <4> QED
        BY <4>1, <4>2
    <3> QED
      BY <3>1, <3>2, <1>7 DEF WorthThinking
  <2>3. ASSUME NEW a \in S, ~FitsWithin(Plus(d.used, a.topic))
        PROVE  ~FitsWithin(Plus(p, a.topic))
    <3>1. Units[a.topic] \in Nat /\ Units[x.topic] \in Nat
      BY <1>1
    <3>2. d.used.activities \in Nat /\ d.used.units \in Nat
      BY <1>2
    <3> QED
      BY <3>1, <3>2, <1>3, <2>3 DEF FitsWithin, Plus
  <2> HIDE DEF p
  <2>4. Decide(d, x) \in Agendas(S)
    BY <2>1, <1>2, <1>4 DEF Agendas
  <2>5. /\ Decide(d, x).selected = d.selected \cup {x} /\ Decide(d, x).deferred = d.deferred
        /\ Decide(d, x).suppressed = d.suppressed /\ Decide(d, x).used = p
    BY <2>1, <1>2 DEF Agendas
  <2>6. Decide(d, x).selected \cup Decide(d, x).deferred \cup Decide(d, x).suppressed = s
    BY <2>5 DEF Decides
  <2> QED
    BY <2>2, <2>3, <2>4, <2>5, <2>6, <1>2, <1>7 DEF Decides
<1> QED
  BY <1>5, <1>6, <1>7

\* Whatever the activities are worth and cost, the agenda decides on each of
\* them, keeps to the budget and leaves nothing that it could still afford.
LEMMA AgendaDecides ==
  ASSUME NEW S, Ranked(S)
  PROVE  Decides(SelectAgenda(S), S)
<1>1. PICK f : Unfolds(f, S) /\ SelectAgenda(S) = f[S]
  BY AgendaUnfolds
<1> DEFINE Good(s) == f[s] \in Agendas(S) /\ Decides(f[s], s)
           F == {s \in SUBSET S : ~Good(s)}
<1>2. SUFFICES ASSUME F # {} PROVE FALSE
  BY <1>1
<1>3. PICK s \in F : \A r \in F : r \subseteq s => r = s
  <2>1. F \in SUBSET SUBSET S
    OBVIOUS
  <2> HIDE DEF F
  <2> QED
    BY <1>2, <2>1, LeastSubset DEF Ranked
<1>4. f[s] = IF s = {} THEN NoAgenda ELSE Decide(f[s \ {Last(s)}], Last(s))
  BY <1>1 DEF Unfolds
<1>5. CASE s = {}
  <2>1. NoAgenda \in Agendas(S)
    BY DEF NoAgenda, NoResources, Agendas
  <2>2. Decides(NoAgenda, {})
    BY EpochAssumption DEF NoAgenda, NoResources, Decides, FitsWithin
  <2> QED
    BY <2>1, <2>2, <1>4, <1>5, <1>3
<1>6. CASE s # {}
  <2>1. /\ Last(s) \in s /\ s \ {Last(s)} \in SUBSET S /\ s \ {Last(s)} # s
    BY <1>6, RankedSubset
  <2>2. Good(s \ {Last(s)})
    BY <2>1, <1>3
  <2>3. Good(s)
    BY <2>1, <2>2, <1>4, <1>6, DecideOnOneMore DEF Ranked
  <2> QED
    BY <2>3, <1>3
<1> QED
  BY <1>5, <1>6
-----------------------------------------------------------------------------
\* The log.  Each event is appended to a log that is like the one read.

IsLog(l) == \E S : l \in Seq(S)

LEMMA Appended ==
  ASSUME NEW l, IsLog(l), NEW event
  PROVE  /\ IsLog(Append(l, event))
         /\ Len(l) \in Nat /\ DOMAIN l = 1..Len(l)
         /\ Len(Append(l, event)) = Len(l) + 1
         /\ DOMAIN Append(l, event) = 1..(Len(l) + 1)
         /\ \A n \in DOMAIN l : Append(l, event)[n] = l[n]
         /\ Append(l, event)[Len(l) + 1] = event
<1>1. PICK S : l \in Seq(S)
  BY DEF IsLog
<1> DEFINE T == S \cup {event}
<1>2. l \in Seq(T) /\ event \in T
  BY <1>1
<1>3. Append(l, event) \in Seq(T)
  BY <1>2
<1>4. IsLog(Append(l, event))
  BY <1>3 DEF IsLog
<1> HIDE DEF T
<1> QED
  BY <1>2, <1>4

LEMMA CutIsKept ==
  ASSUME NEW l, IsLog(l), NEW event, NEW e \in 0..Len(l)
  PROVE  SubSeq(Append(l, event), 1, e) = SubSeq(l, 1, e)
<1>1. PICK S : l \in Seq(S)
  BY DEF IsLog
<1> DEFINE T == S \cup {event}
<1>2. l \in Seq(T) /\ event \in T
  BY <1>1
<1> HIDE DEF T
<1> QED
  BY <1>2

\* A log of length e is its own cut at e.
LEMMA WholeCut ==
  ASSUME NEW l, IsLog(l)
  PROVE  /\ SubSeq(l, 1, Len(l)) = l
         /\ \A n \in 0..Len(l) :
              /\ IsLog(SubSeq(l, 1, n)) /\ Len(SubSeq(l, 1, n)) = n
              /\ DOMAIN SubSeq(l, 1, n) = 1..n
              /\ \A k \in 1..n : SubSeq(l, 1, n)[k] = l[k]
<1>1. PICK S : l \in Seq(S)
  BY DEF IsLog
<1>2. SubSeq(l, 1, Len(l)) = l
  BY <1>1
<1>3. ASSUME NEW n \in 0..Len(l)
      PROVE  /\ SubSeq(l, 1, n) \in Seq(S) /\ Len(SubSeq(l, 1, n)) = n
             /\ DOMAIN SubSeq(l, 1, n) = 1..n
             /\ \A k \in 1..n : SubSeq(l, 1, n)[k] = l[k]
  BY <1>1
<1>4. \A n \in 0..Len(l) : IsLog(SubSeq(l, 1, n))
  BY <1>3 DEF IsLog
<1> QED
  BY <1>2, <1>3, <1>4

\* Queries of a log that has one more event.
LEMMA OfAppended ==
  ASSUME NEW l, IsLog(l), NEW event, NEW type
  PROVE  /\ Of(l, type) = {n \in Of(Append(l, event), type) : n <= Len(l)}
         /\ Of(l, type) \subseteq 1..Len(l)
         /\ event.type # type => Of(Append(l, event), type) = Of(l, type)
         /\ event.type = type => Of(Append(l, event), type) = Of(l, type) \cup {Len(l) + 1}
<1> DEFINE m == Append(l, event)
<1>1. /\ Len(l) \in Nat /\ DOMAIN l = 1..Len(l) /\ DOMAIN m = 1..(Len(l) + 1)
      /\ \A n \in DOMAIN l : m[n] = l[n]
      /\ m[Len(l) + 1] = event
  BY Appended
<1> HIDE DEF m
<1>2. Of(l, type) = {n \in Of(m, type) : n <= Len(l)}
  BY <1>1 DEF Of
<1>3. Of(l, type) \subseteq 1..Len(l)
  BY <1>1 DEF Of
<1>4. event.type # type => Of(m, type) = Of(l, type)
  BY <1>1 DEF Of
<1>5. event.type = type => Of(m, type) = Of(l, type) \cup {Len(l) + 1}
  BY <1>1 DEF Of
<1> QED
  BY <1>2, <1>3, <1>4, <1>5 DEF m

\* The epochs of a log are those that were started and not closed.
IsClosed(l, e) == \E n \in DOMAIN l : l[n].type \in Closings /\ l[n].epoch = e

LEMMA StatusIsActive ==
  ASSUME NEW l, NEW e
  PROVE  Status(l, e) = "active" <=> ~IsClosed(l, e)
<1> DEFINE ends == {n \in DOMAIN l : l[n].type \in Closings /\ l[n].epoch = e}
           n == CHOOSE k \in ends : TRUE
<1>1. ends # {} => l[n].type # "active"
  BY DEF Closings
<1>2. Status(l, e) = IF ends = {} THEN "active" ELSE l[n].type
  BY DEF Status
<1>3. ends = {} <=> ~IsClosed(l, e)
  BY DEF IsClosed
<1> QED
  BY <1>1, <1>2, <1>3

LEMMA ActiveIsOpen ==
  ASSUME NEW l, NEW e
  PROVE  /\ Active(l, e) <=> Started(l, e) /\ ~IsClosed(l, e)
         /\ \A c : e \in ActiveEpochs(l, c) <=>
              ~IsClosed(l, e) /\ \E n \in Of(l, "start") : l[n].consumer = c /\ l[n].epoch = e
<1>1. \A f : Status(l, f) = "active" <=> ~IsClosed(l, f)
  BY StatusIsActive
<1> QED
  BY <1>1 DEF Active, ActiveEpochs

LEMMA StartedAppended ==
  ASSUME NEW l, IsLog(l), NEW event, NEW e
  PROVE  /\ Started(l, e) => Started(Append(l, event), e)
         /\ Started(Append(l, event), e) /\ ~Started(l, e)
              => event.type = "start" /\ event.epoch = e
         /\ IsClosed(l, e) => IsClosed(Append(l, event), e)
         /\ event.type \in Closings /\ event.epoch = e => IsClosed(Append(l, event), e)
         /\ IsClosed(Append(l, event), e) /\ ~IsClosed(l, e)
              => event.type \in Closings /\ event.epoch = e
<1> DEFINE m == Append(l, event)
<1>1. /\ Len(l) \in Nat /\ DOMAIN l = 1..Len(l) /\ DOMAIN m = 1..(Len(l) + 1)
      /\ \A n \in DOMAIN l : m[n] = l[n]
      /\ m[Len(l) + 1] = event
  BY Appended
<1> HIDE DEF m
<1>2. Started(l, e) => Started(m, e)
  BY <1>1 DEF Started, Of
<1>3. Started(m, e) /\ ~Started(l, e) => event.type = "start" /\ event.epoch = e
  BY <1>1 DEF Started, Of
<1>4. IsClosed(l, e) => IsClosed(m, e)
  BY <1>1 DEF IsClosed
<1>5. event.type \in Closings /\ event.epoch = e => IsClosed(m, e)
  BY <1>1 DEF IsClosed
<1>6. IsClosed(m, e) /\ ~IsClosed(l, e) => event.type \in Closings /\ event.epoch = e
  BY <1>1 DEF IsClosed
<1> QED
  BY <1>2, <1>3, <1>4, <1>5, <1>6 DEF m

\* No epoch is opened but by its start.
LEMMA ActiveAppended ==
  ASSUME NEW l, IsLog(l), NEW event, NEW c, NEW e \in ActiveEpochs(Append(l, event), c)
  PROVE  \/ e \in ActiveEpochs(l, c)
         \/ event.type = "start" /\ event.epoch = e /\ event.consumer = c
<1> DEFINE m == Append(l, event)
<1>1. /\ Len(l) \in Nat /\ DOMAIN l = 1..Len(l) /\ DOMAIN m = 1..(Len(l) + 1)
      /\ \A n \in DOMAIN l : m[n] = l[n]
      /\ m[Len(l) + 1] = event
  BY Appended
<1>0. e \in ActiveEpochs(m, c) /\ (IsClosed(l, e) => IsClosed(m, e))
  BY StartedAppended
<1> HIDE DEF m
<1>2. ~IsClosed(m, e) /\ \E n \in Of(m, "start") : m[n].consumer = c /\ m[n].epoch = e
  BY <1>0, ActiveIsOpen
<1>3. ~IsClosed(l, e)
  BY <1>0, <1>2
<1>4. PICK n \in Of(m, "start") : m[n].consumer = c /\ m[n].epoch = e
  BY <1>2
<1>5. CASE n \in DOMAIN l
  <2>1. n \in Of(l, "start") /\ l[n].consumer = c /\ l[n].epoch = e
    BY <1>1, <1>4, <1>5 DEF Of
  <2> QED
    BY <2>1, <1>3, ActiveIsOpen
<1>6. CASE n \notin DOMAIN l
  BY <1>1, <1>4, <1>6 DEF Of
<1> QED
  BY <1>5, <1>6
-----------------------------------------------------------------------------
\* What the events of a log say, whoever appended them, and what the worker
\* checked when it appended one.

Outputs == {"inquiry", "activity", "voc", "agenda"}

\* The types of events; an epoch starts right behind its request.
EventInv(l) ==
  \A n \in DOMAIN l :
    \/ IsExternal(l[n])
    \/ l[n].type = "policy"
    \/ l[n].type = "request" /\ l[n].at \in Nat /\ l[n].until = l[n].at + Life
    \/ l[n].type = "start" /\ l[n].consumer \in Consumers /\ l[n].epoch \in Of(l, "request")
                           /\ n = l[n].epoch + 1
    \/ l[n].type \in Outputs
    \/ l[n].type \in Closings
    \/ l[n].type = "checkpoint" /\ l[n].upto \in 0..(n - 1)

\* A consumer has one epoch open at a time.
OneEpoch(l) == \A c \in Consumers : \A d, e \in ActiveEpochs(l, c) : d = e

\* Foreground event s has been served: no epoch is open that it should close.
Served(l, c, s) == s \in Of(l, "foreground") => \A e \in ActiveEpochs(l, c) : e > s

\* What a checkpoint has passed has been served.
CheckpointsServed(l) ==
  \A n \in Of(l, "checkpoint") : \A c \in Consumers :
    l[n].consumer = c => Served(l, c, l[n].upto)

LogInv(l) == IsLog(l) /\ EventInv(l) /\ OneEpoch(l) /\ CheckpointsServed(l)

Admitted(l, event) ==
  \/ IsExternal(event)
  \/ event.type = "policy"
  \/ event.type = "request" /\ event.at \in Nat /\ event.until = event.at + Life
  \/ event.type = "start" /\ event.consumer \in Consumers /\ LegalStart(l, event)
  \/ event.type \in Outputs
  \/ event.type \in Closings
  \/ /\ event.type = "checkpoint" /\ event.consumer \in Consumers
     /\ event.upto \in 0..Len(l) /\ Served(l, event.consumer, event.upto)

\* The kinds of events are told apart by their types.
LEMMA ExternalTypes ==
  ASSUME NEW event, IsExternal(event)
  PROVE  event.type \in {"goal", "foreground"} \cup Findings
BY DEF IsExternal

LEMMA EventInvKept ==
  ASSUME NEW l, LogInv(l), NEW event, Admitted(l, event)
  PROVE  EventInv(Append(l, event))
<1> DEFINE m == Append(l, event)
<1>1. /\ Len(l) \in Nat /\ DOMAIN l = 1..Len(l) /\ DOMAIN m = 1..(Len(l) + 1)
      /\ \A n \in DOMAIN l : m[n] = l[n]
      /\ m[Len(l) + 1] = event
  BY Appended DEF LogInv
<1>2. Of(l, "request") \subseteq Of(m, "request")
  BY <1>1 DEF Of
<1> HIDE DEF m
<1>3. ASSUME NEW n \in DOMAIN l
      PROVE  \/ IsExternal(m[n])
             \/ m[n].type = "policy"
             \/ m[n].type = "request" /\ m[n].at \in Nat /\ m[n].until = m[n].at + Life
             \/ m[n].type = "start" /\ m[n].consumer \in Consumers
                  /\ m[n].epoch \in Of(m, "request") /\ n = m[n].epoch + 1
             \/ m[n].type \in Outputs
             \/ m[n].type \in Closings
             \/ m[n].type = "checkpoint" /\ m[n].upto \in 0..(n - 1)
  <2>1. m[n] = l[n]
    BY <1>1
  <2>2. EventInv(l)
    BY DEF LogInv
  <2> QED
    BY <2>1, <2>2, <1>2 DEF EventInv
<1>4. event.type = "start" /\ LegalStart(l, event) =>
        event.epoch \in Of(m, "request") /\ Len(l) + 1 = event.epoch + 1
  BY <1>2 DEF LegalStart
<1>5. event.type = "checkpoint" /\ event.upto \in 0..Len(l) => event.upto \in 0..(Len(l) + 1 - 1)
  BY <1>1
<1>6. ASSUME NEW n \in DOMAIN m, n \notin DOMAIN l
      PROVE  n = Len(l) + 1 /\ m[n] = event
  BY <1>1, <1>6
<1>7. ASSUME NEW n \in DOMAIN m, n \notin DOMAIN l
      PROVE  \/ IsExternal(m[n])
             \/ m[n].type = "policy"
             \/ m[n].type = "request" /\ m[n].at \in Nat /\ m[n].until = m[n].at + Life
             \/ m[n].type = "start" /\ m[n].consumer \in Consumers
                  /\ m[n].epoch \in Of(m, "request") /\ n = m[n].epoch + 1
             \/ m[n].type \in Outputs
             \/ m[n].type \in Closings
             \/ m[n].type = "checkpoint" /\ m[n].upto \in 0..(n - 1)
  BY <1>4, <1>5, <1>6, <1>7 DEF Admitted
<1> QED
  BY <1>3, <1>7 DEF EventInv, m

\* An epoch that starts does so behind every event that was served.
LEMMA ServedKept ==
  ASSUME NEW l, LogInv(l), NEW event, Admitted(l, event), NEW c, NEW s \in 0..Len(l),
         Served(l, c, s)
  PROVE  Served(Append(l, event), c, s)
<1> DEFINE m == Append(l, event)
<1>1. IsLog(l) /\ Len(l) \in Nat
  BY Appended DEF LogInv
<1>2. SUFFICES ASSUME s \in Of(m, "foreground"), NEW e \in ActiveEpochs(m, c) PROVE e > s
  BY DEF Served
<1>3. s \in Of(l, "foreground")
  BY <1>1, <1>2, OfAppended
<1>4. CASE e \in ActiveEpochs(l, c)
  BY <1>3, <1>4 DEF Served
<1>5. CASE event.type = "start" /\ event.epoch = e
  <2>1. LegalStart(l, event)
    BY <1>5, ExternalTypes DEF Admitted, Outputs, Closings, Findings
  <2>2. e = Len(l) /\ e \in Of(l, "request")
    BY <2>1, <1>5 DEF LegalStart
  <2>3. e # s
    BY <2>2, <1>3 DEF Of
  <2> QED
    BY <2>2, <2>3, <1>1
<1> QED
  BY <1>1, <1>2, <1>4, <1>5, ActiveAppended

LEMMA CheckpointsServedKept ==
  ASSUME NEW l, LogInv(l), NEW event, Admitted(l, event)
  PROVE  CheckpointsServed(Append(l, event))
<1> DEFINE m == Append(l, event)
<1>1. /\ Len(l) \in Nat /\ DOMAIN l = 1..Len(l) /\ DOMAIN m = 1..(Len(l) + 1)
      /\ \A n \in DOMAIN l : m[n] = l[n]
      /\ m[Len(l) + 1] = event
  BY Appended DEF LogInv
<1> SUFFICES ASSUME NEW n \in Of(m, "checkpoint"), NEW c \in Consumers, m[n].consumer = c
             PROVE  Served(m, c, m[n].upto)
  BY DEF CheckpointsServed
<1>2. CASE n \in DOMAIN l
  <2>1. n \in Of(l, "checkpoint") /\ l[n] = m[n]
    BY <1>1, <1>2 DEF Of
  <2>2. Served(l, c, l[n].upto)
    BY <2>1 DEF LogInv, CheckpointsServed
  <2>3. l[n].upto \in 0..Len(l)
    <3>1. l[n].upto \in 0..(n - 1) /\ n \in 1..Len(l)
      BY <2>1, <1>1, <1>2, ExternalTypes DEF LogInv, EventInv, Of, Outputs, Closings, Findings
    <3> QED
      BY <3>1
  <2> QED
    BY <2>1, <2>2, <2>3, ServedKept
<1>3. CASE n \notin DOMAIN l
  <2>1. m[n] = event /\ event.type = "checkpoint"
    BY <1>1, <1>3 DEF Of
  <2>2. Served(l, c, event.upto) /\ event.upto \in 0..Len(l)
    BY <2>1, ExternalTypes DEF Admitted, Outputs, Closings, Findings
  <2> QED
    BY <2>1, <2>2, ServedKept
<1> QED
  BY <1>2, <1>3

\* A start finds none of its consumer's epochs open; nothing else opens one.
LEMMA LogInvKept ==
  ASSUME NEW l, LogInv(l), NEW event, Admitted(l, event)
  PROVE  LogInv(Append(l, event))
<1>1. IsLog(Append(l, event)) /\ EventInv(Append(l, event)) /\ CheckpointsServed(Append(l, event))
  BY Appended, EventInvKept, CheckpointsServedKept DEF LogInv
<1>2. ASSUME NEW c \in Consumers, NEW d \in ActiveEpochs(Append(l, event), c),
             NEW e \in ActiveEpochs(Append(l, event), c)
      PROVE  d = e
  <2>1. IsLog(l) /\ \A f, g \in ActiveEpochs(l, c) : f = g
    BY DEF LogInv, OneEpoch
  <2>2. \A f \in {d, e} : \/ f \in ActiveEpochs(l, c)
                          \/ event.type = "start" /\ event.epoch = f /\ event.consumer = c
    BY <2>1, ActiveAppended
  <2>3. event.type = "start" => ActiveEpochs(l, event.consumer) = {}
    BY ExternalTypes DEF Admitted, LegalStart, Outputs, Closings, Findings
  <2> QED
    BY <2>1, <2>2, <2>3
<1> QED
  BY <1>1, <1>2 DEF LogInv, OneEpoch

\* A log of external events has no epoch.
LEMMA LogInvStarts ==
  ASSUME NEW l, IsLog(l), \A n \in DOMAIN l : IsExternal(l[n])
  PROVE  LogInv(l)
<1>1. \A c : ActiveEpochs(l, c) = {}
  BY ExternalTypes DEF ActiveEpochs, Of, Findings
<1>2. Of(l, "checkpoint") = {}
  BY ExternalTypes DEF Of, Findings
<1> QED
  BY <1>1, <1>2 DEF LogInv, EventInv, OneEpoch, CheckpointsServed

\* A log and one that a step leaves: everything is in its place, and what was
\* served stays so.
Grows(l, m) ==
  /\ LogInv(m)
  /\ Len(l) \in Nat /\ Len(m) \in Nat /\ Len(l) <= Len(m)
  /\ DOMAIN l = 1..Len(l) /\ DOMAIN m = 1..Len(m)
  /\ \A n \in DOMAIN l : m[n] = l[n]
  /\ \A c \in Consumers, s \in 0..Len(l) : Served(l, c, s) => Served(m, c, s)

LEMMA GrowsBack ==
  ASSUME NEW l, LogInv(l)
  PROVE  Grows(l, l)
<1>1. Len(l) \in Nat /\ DOMAIN l = 1..Len(l)
  BY Appended DEF LogInv
<1> QED
  BY <1>1 DEF Grows

LEMMA GrowsByOne ==
  ASSUME NEW l, LogInv(l), NEW event, Admitted(l, event)
  PROVE  Grows(l, Append(l, event))
<1>1. /\ Len(l) \in Nat /\ DOMAIN l = 1..Len(l)
      /\ DOMAIN Append(l, event) = 1..(Len(l) + 1) /\ Len(Append(l, event)) = Len(l) + 1
      /\ \A n \in DOMAIN l : Append(l, event)[n] = l[n]
  BY Appended DEF LogInv
<1>2. LogInv(Append(l, event))
  BY LogInvKept
<1>3. \A c \in Consumers, s \in 0..Len(l) : Served(l, c, s) => Served(Append(l, event), c, s)
  BY ServedKept
<1> QED
  BY <1>1, <1>2, <1>3 DEF Grows

LEMMA GrowsOn ==
  ASSUME NEW l, NEW m, NEW n, Grows(l, m), Grows(m, n)
  PROVE  Grows(l, n)
<1>1. \A k \in DOMAIN l : n[k] = l[k]
  BY DEF Grows
<1>2. \A c \in Consumers, s \in 0..Len(l) : Served(l, c, s) => Served(n, c, s)
  BY DEF Grows
<1> QED
  BY <1>1, <1>2 DEF Grows

LEMMA GrownOf ==
  ASSUME NEW l, NEW m, Grows(l, m), NEW type
  PROVE  Of(l, type) \subseteq Of(m, type) /\ Of(l, type) \subseteq 1..Len(l)
BY DEF Grows, Of
-----------------------------------------------------------------------------
\* The tasks: where they are, and what they were told to do.

Fields == {"pc", "at", "seen", "todo", "cands", "stage", "refs", "agenda", "stale", "resumed"}

\* A scan works on a request; a preemption on a foreground event.
Scanning ==
  {"observe", "abandon", "reobserve", "expire", "start", "output", "select", "agenda", "finish"}

TaskInv(l, time, k) ==
  /\ DOMAIN k = Fields
  /\ k.at \in 0..Len(l) /\ k.seen \in 0..time /\ k.stage \in 1..3
  /\ k.todo \subseteq Of(l, "request") \cup Of(l, "foreground")
  /\ k.pc \in Scanning => k.at \in Of(l, "request")
  /\ k.pc = "preempt" => k.at \in Of(l, "foreground")
  /\ k.pc = "recover" => k.todo # {}

\* A task that is about to settle a foreground event has served it.
WorkInv(l, time, c, k) == TaskInv(l, time, k) /\ (k.pc = "settle" => Served(l, c, k.at))

TasksInv ==
  /\ DOMAIN task = Consumers
  /\ \A c \in Consumers : DOMAIN task[c] = Tasks
  /\ \A c \in Consumers : \A t \in Tasks : WorkInv(log, now, c, task[c][t])

SubscriptionInv ==
  /\ DOMAIN inbox = Consumers /\ DOMAIN fg = Consumers
  /\ \A c \in Consumers :
       /\ inbox[c] \in Seq(Of(log, "foreground"))
       /\ fg[c] \in 0..Len(log) /\ Served(log, c, fg[c])

IInv ==
  /\ LogInv(log) /\ TasksInv /\ SubscriptionInv
  /\ now \in Nat /\ up \subseteq Consumers
  /\ left \in [scans : Nat, facts : Nat, ticks : Nat, crashes : Nat]

LEMMA RequestIsServed ==
  ASSUME NEW l, NEW c, NEW s \in Of(l, "request")
  PROVE  Served(l, c, s)
BY DEF Served, Of

LEMMA WorkKept ==
  ASSUME NEW l, NEW m, Grows(l, m), NEW time \in Nat, NEW later \in Nat, time <= later,
         NEW c \in Consumers, NEW k, WorkInv(l, time, c, k)
  PROVE  WorkInv(m, later, c, k)
<1>1. \A type : Of(l, type) \subseteq Of(m, type)
  BY GrownOf
<1>2. k.at \in 0..Len(l) /\ k.at \in 0..Len(m) /\ k.seen \in 0..later
  BY DEF Grows, WorkInv, TaskInv
<1>3. k.pc = "settle" => Served(m, c, k.at)
  BY <1>2 DEF Grows, WorkInv
<1>4. k.todo \subseteq Of(m, "request") \cup Of(m, "foreground")
  BY <1>1 DEF WorkInv, TaskInv
<1> QED
  BY <1>1, <1>2, <1>3, <1>4 DEF WorkInv, TaskInv

LEMMA SubscriptionKept ==
  ASSUME NEW l, NEW m, Grows(l, m), NEW c \in Consumers, NEW q \in Seq(Of(l, "foreground")),
         NEW s \in 0..Len(l), Served(l, c, s)
  PROVE  q \in Seq(Of(m, "foreground")) /\ s \in 0..Len(m) /\ Served(m, c, s)
<1>1. Of(l, "foreground") \subseteq Of(m, "foreground")
  BY GrownOf
<1>2. q \in Seq(Of(m, "foreground"))
  BY <1>1
<1> QED
  BY <1>2 DEF Grows

\* A step of one task, which leaves everything else alone.
LEMMA StepKeeps ==
  ASSUME IInv, NEW c \in Consumers, NEW t \in Tasks, NEW next, Step(c, t, next),
         Grows(log, log'), WorkInv(log', now, c, next), UNCHANGED <<up, inbox, fg, now>>,
         left' \in [scans : Nat, facts : Nat, ticks : Nat, crashes : Nat]
  PROVE  IInv'
<1>1. LogInv(log')
  BY DEF Grows
<1>2. TasksInv'
  <2>1. /\ DOMAIN task' = Consumers
        /\ \A d \in Consumers : DOMAIN task'[d] = Tasks
        /\ task'[c][t] = next
        /\ \A d \in Consumers, u \in Tasks :
             ~(d = c /\ u = t) => task'[d][u] = task[d][u]
    BY DEF Step, IInv, TasksInv
  <2>2. \A d \in Consumers, u \in Tasks : WorkInv(log, now, d, task[d][u])
    BY DEF IInv, TasksInv
  <2>3. ASSUME NEW d \in Consumers, NEW u \in Tasks
        PROVE  WorkInv(log', now', d, task'[d][u])
    <3>1. now \in Nat /\ now' = now
      BY DEF IInv
    <3>2. CASE d = c /\ u = t
      BY <2>1, <3>1, <3>2
    <3>3. CASE ~(d = c /\ u = t)
      <4>1. WorkInv(log', now, d, task[d][u])
        BY <2>2, <3>1, WorkKept
      <4> QED
        BY <2>1, <3>1, <3>3, <4>1
    <3> QED
      BY <3>2, <3>3
  <2> QED
    BY <2>1, <2>3 DEF TasksInv
<1>3. SubscriptionInv'
  <2>1. \A d \in Consumers : inbox[d] \in Seq(Of(log, "foreground"))
                             /\ fg[d] \in 0..Len(log) /\ Served(log, d, fg[d])
    BY DEF IInv, SubscriptionInv
  <2>2. \A d \in Consumers : inbox[d] \in Seq(Of(log', "foreground"))
                             /\ fg[d] \in 0..Len(log') /\ Served(log', d, fg[d])
    BY <2>1, SubscriptionKept
  <2> QED
    BY <2>2 DEF IInv, SubscriptionInv
<1> QED
  BY <1>1, <1>2, <1>3 DEF IInv

LEMMA InitIInv ==
  ASSUME Init
  PROVE  IInv
<1>1. PICK s \in Scenarios :
        /\ log = s.log
        /\ left = [scans |-> s.scans, facts |-> s.facts, ticks |-> s.ticks, crashes |-> s.crashes]
  BY DEF Init
<1>2. /\ {s.scans, s.facts, s.ticks, s.crashes} \subseteq Nat
      /\ log \in Seq({log[n] : n \in DOMAIN log})
      /\ \A n \in DOMAIN log : IsExternal(log[n])
  BY <1>1, EpochAssumption
<1>3. IsLog(log)
  BY <1>2 DEF IsLog
<1>4. LogInv(log)
  BY <1>2, <1>3, LogInvStarts
<1>5. left \in [scans : Nat, facts : Nat, ticks : Nat, crashes : Nat]
  BY <1>1, <1>2
<1>6. Len(log) \in Nat
  BY <1>3, Appended
<1>7. \A c : WorkInv(log, 0, c, IdleTask)
  BY <1>6 DEF WorkInv, TaskInv, IdleTask, Fields, Scanning
<1>8. TasksInv
  <2>1. now = 0 /\ task = [c \in Consumers |-> [t \in Tasks |-> IdleTask]]
    BY DEF Init
  <2> QED
    BY <1>7, <2>1 DEF TasksInv
<1>9. SubscriptionInv
  <2>1. inbox = [c \in Consumers |-> <<>>] /\ fg = [c \in Consumers |-> 0]
    BY DEF Init
  <2>2. \A c : Served(log, c, 0)
    BY <1>3, Appended DEF Served, Of
  <2> QED
    BY <1>6, <2>1, <2>2 DEF SubscriptionInv
<1> QED
  BY <1>4, <1>5, <1>8, <1>9 DEF Init, IInv
-----------------------------------------------------------------------------
\* Every action of a task keeps the invariant.

LEMMA WorkOf ==
  ASSUME IInv, NEW c \in Consumers, NEW t \in Tasks
  PROVE  /\ LogInv(log) /\ now \in Nat /\ Len(log) \in Nat /\ DOMAIN log = 1..Len(log)
         /\ WorkInv(log, now, c, task[c][t])
         /\ DOMAIN task = Consumers /\ DOMAIN task[c] = Tasks
         /\ DOMAIN task[c][t] = Fields
<1>1. LogInv(log) /\ IsLog(log)
  BY DEF IInv, LogInv
<1> QED
  BY <1>1, Appended DEF IInv, TasksInv, WorkInv, TaskInv

LEMMA LogGrows ==
  ASSUME IInv, log' = log \/ \E event : Admitted(log, event) /\ Emit(event)
  PROVE  Grows(log, log')
BY GrowsBack, GrowsByOne DEF IInv, Emit

\* A scan goes on, or settles: its trigger stays a request.
LEMMA ScanMoves ==
  ASSUME IInv, NEW c \in Consumers, NEW t \in Tasks, task[c][t].pc \in Scanning,
         NEW m, Grows(log, m), NEW next, DOMAIN next = Fields,
         next.at = task[c][t].at, next.seen = task[c][t].seen, next.todo = task[c][t].todo,
         next.stage \in 1..3, next.pc \in Scanning \cup {"settle"}
  PROVE  WorkInv(m, now, c, next)
<1> DEFINE k == task[c][t]
<1>1. WorkInv(log, now, c, k) /\ now \in Nat
  BY WorkOf
<1>2. WorkInv(m, now, c, k)
  BY <1>1, WorkKept
<1>3. k.at \in Of(m, "request")
  BY <1>2 DEF WorkInv, TaskInv
<1>4. Served(m, c, next.at)
  BY <1>3, RequestIsServed
<1> QED
  BY <1>2, <1>3, <1>4 DEF WorkInv, TaskInv, Scanning

\* A task that is done, or raised, or is given what lies past the checkpoint.
LEMMA FreshTask ==
  ASSUME NEW l, LogInv(l), now \in Nat, NEW c, NEW next, DOMAIN next = Fields,
         next.pc \in {"idle", "raised", "request", "backlog", "recover"},
         next.at = 0, next.stage = 1, next.seen \in 0..now,
         next.todo \subseteq Of(l, "request") \cup Of(l, "foreground"),
         next.pc = "recover" => next.todo # {}
  PROVE  WorkInv(l, now, c, next)
<1>1. Len(l) \in Nat
  BY Appended DEF LogInv
<1> QED
  BY <1>1 DEF WorkInv, TaskInv, Scanning

LEMMA BeginScanKeeps ==
  ASSUME IInv, NEW c \in Consumers, NEW t \in Callers, BeginScan(c, t)
  PROVE  IInv'
<1> DEFINE due == {e \in ActiveEpochs(log, c) : log[e].until <= now}
           next == [IdleTask EXCEPT !.pc = "request", !.seen = now]
<1>1. t \in Tasks
  BY DEF Tasks
<1>2. log' = log \/ Emit(Expiry(CHOOSE e \in due : TRUE, now))
  BY DEF BeginScan
<1>3. Admitted(log, Expiry(CHOOSE e \in due : TRUE, now))
  BY DEF Admitted, Expiry, Closings
<1> HIDE DEF due
<1>4. Grows(log, log')
  BY <1>2, <1>3, LogGrows
<1>5. now \in Nat /\ LogInv(log')
  BY <1>4 DEF IInv, Grows
<1>6. /\ DOMAIN next = Fields /\ next.pc = "request" /\ next.at = 0 /\ next.stage = 1
      /\ next.seen = now /\ next.todo = {}
  BY DEF IdleTask, Fields
<1>7. WorkInv(log', now, c, next)
  <2> HIDE DEF next
  <2> QED
    BY <1>5, <1>6, FreshTask
<1>8. left' \in [scans : Nat, facts : Nat, ticks : Nat, crashes : Nat]
  BY DEF BeginScan, IInv
<1>9. Step(c, t, next) /\ UNCHANGED <<up, inbox, fg, now>>
  BY DEF BeginScan
<1> HIDE DEF next
<1> QED
  BY <1>1, <1>4, <1>7, <1>8, <1>9, StepKeeps

\* What was appended is found at its number.
LEMMA RequestAppended ==
  ASSUME NEW l, LogInv(l), NEW request, Admitted(l, request), request.type = "request",
         NEW m, m = IF Recorded(l, request) THEN l ELSE Append(l, request)
  PROVE  /\ Grows(l, m)
         /\ \E n \in DOMAIN m : m[n] = request
         /\ \A n \in DOMAIN m : m[n] = request => n \in Of(m, "request")
<1>1. Grows(l, m)
  BY GrowsBack, GrowsByOne
<1>2. \E n \in DOMAIN m : m[n] = request
  <2>1. /\ Len(l) \in Nat /\ DOMAIN Append(l, request) = 1..(Len(l) + 1)
        /\ Append(l, request)[Len(l) + 1] = request
    BY Appended DEF LogInv
  <2> QED
    BY <2>1 DEF Recorded
<1> QED
  BY <1>1, <1>2 DEF Of

\* run_scan emits the policy, then the request.
LEMMA RequestScanLog ==
  ASSUME IInv, NEW c \in Consumers, NEW t \in Tasks, RequestScan(c, t),
         NEW request, request = ScanRequest(task[c][t].seen)
  PROVE  \E l : /\ l = log \/ l = Append(log, PolicyEvent)
                /\ Recorded(l, PolicyEvent)
                /\ Grows(log, l) /\ LogInv(l) /\ Admitted(l, request)
                /\ log' = IF Recorded(l, request) THEN l ELSE Append(l, request)
<1> DEFINE l == IF Recorded(log, PolicyEvent) THEN log ELSE Append(log, PolicyEvent)
<1>1. LogInv(log) /\ now \in Nat /\ WorkInv(log, now, c, task[c][t])
  BY WorkOf
<1>2. PICK S : log \in Seq(S)
  BY <1>1 DEF LogInv, IsLog
<1>3. Grows(log, l)
  <2>1. Admitted(log, PolicyEvent)
    BY DEF Admitted, PolicyEvent
  <2> QED
    BY <1>1, <2>1, GrowsBack, GrowsByOne
<1>4. Recorded(l, PolicyEvent)
  <2>1. /\ Len(log) \in Nat /\ DOMAIN Append(log, PolicyEvent) = 1..(Len(log) + 1)
        /\ Append(log, PolicyEvent)[Len(log) + 1] = PolicyEvent
    BY <1>1, Appended DEF LogInv
  <2> QED
    BY <2>1 DEF Recorded
<1>5. PolicyEvent # request
  BY DEF PolicyEvent, ScanRequest
<1>6. log' = log \o (IF Recorded(log, PolicyEvent) THEN <<>> ELSE <<PolicyEvent>>)
                 \o (IF Recorded(log, request) THEN <<>> ELSE <<request>>)
  BY DEF RequestScan
<1>7. Recorded(l, request) <=> Recorded(log, request)
  <2>1. /\ Len(log) \in Nat /\ DOMAIN Append(log, PolicyEvent) = 1..(Len(log) + 1)
        /\ DOMAIN log = 1..Len(log)
        /\ \A n \in DOMAIN log : Append(log, PolicyEvent)[n] = log[n]
        /\ Append(log, PolicyEvent)[Len(log) + 1] = PolicyEvent
    BY <1>1, Appended DEF LogInv
  <2> QED
    BY <2>1, <1>5 DEF Recorded
<1>8. log' = IF Recorded(l, request) THEN l ELSE Append(l, request)
  <2> DEFINE T == S \cup {PolicyEvent, request}
  <2>1. log \in Seq(T) /\ PolicyEvent \in T /\ request \in T
    BY <1>2
  <2> HIDE DEF T
  <2>2. log \o <<>> = log /\ log \o <<PolicyEvent>> = Append(log, PolicyEvent)
    BY <2>1
  <2>3. log \o (IF Recorded(log, PolicyEvent) THEN <<>> ELSE <<PolicyEvent>>) = l
    BY <2>2
  <2>4. l \in Seq(T)
    BY <2>1
  <2> HIDE DEF l
  <2>5. l \o <<>> = l /\ l \o <<request>> = Append(l, request)
    BY <2>1, <2>4
  <2> QED
    BY <1>6, <1>7, <2>3, <2>5
<1>9. Admitted(l, request)
  BY <1>1 DEF Admitted, ScanRequest, WorkInv, TaskInv
<1>10. l = log \/ l = Append(log, PolicyEvent)
  OBVIOUS
<1> HIDE DEF l
<1> QED
  BY <1>3, <1>4, <1>8, <1>9, <1>10 DEF Grows

LEMMA RequestScanKeeps ==
  ASSUME IInv, NEW c \in Consumers, NEW t \in Tasks, RequestScan(c, t)
  PROVE  IInv' /\ Grows(log, log')
<1> DEFINE k == task[c][t]
           request == ScanRequest(k.seen)
           at == CHOOSE n \in DOMAIN log' : log'[n] = request
           next == [k EXCEPT !.pc = "observe", !.at = at]
<1>1. PICK l : /\ Grows(log, l) /\ LogInv(l) /\ Admitted(l, request)
               /\ log' = IF Recorded(l, request) THEN l ELSE Append(l, request)
  BY RequestScanLog
<1>2. request.type = "request"
  BY DEF ScanRequest
<1>3. /\ Grows(l, log')
      /\ \E n \in DOMAIN log' : log'[n] = request
      /\ \A n \in DOMAIN log' : log'[n] = request => n \in Of(log', "request")
  <2> HIDE DEF request
  <2> QED
    BY <1>1, <1>2, RequestAppended
<1>4. Grows(log, log')
  BY <1>1, <1>3, GrowsOn
<1>5. at \in Of(log', "request")
  <2> HIDE DEF request
  <2> QED
    BY <1>3
<1>6. Step(c, t, next) /\ UNCHANGED <<up, inbox, fg, now, left>>
  BY DEF RequestScan, Stay
<1> HIDE DEF at, request
<1>7. WorkInv(log', now, c, next)
  <2>1. WorkInv(log', now, c, k) /\ DOMAIN k = Fields
    BY <1>4, WorkOf, WorkKept
  <2>2. at \in 0..Len(log')
    BY <1>4, <1>5 DEF Of, Grows
  <2> HIDE DEF k
  <2> QED
    BY <2>1, <2>2, <1>5 DEF WorkInv, TaskInv, Fields, Scanning
<1> HIDE DEF next
<1> QED
  BY <1>4, <1>6, <1>7, StepKeeps DEF IInv

\* What it found decides where a scan goes; it appends nothing.
LEMMA ProceedMoves ==
  ASSUME NEW k, DOMAIN k = Fields, k.stage \in 1..3
  PROVE  /\ DOMAIN Proceed(k) = Fields
         /\ Proceed(k).at = k.at /\ Proceed(k).seen = k.seen /\ Proceed(k).todo = k.todo
         /\ Proceed(k).stage \in 1..3 /\ Proceed(k).pc \in Scanning \cup {"settle"}
         /\ Proceed(k).resumed = k.resumed
<1> DEFINE new == NewCandidates(k.at)
           on == [k EXCEPT !.pc = IF k.resumed THEN "output" ELSE "start",
                           !.cands = new, !.stage = 1]
<1>1. Proceed(k) = IF new = {} THEN [k EXCEPT !.pc = "settle"] ELSE on
  BY DEF Proceed
<1> HIDE DEF new
<1>2. CASE new = {}
  BY <1>1, <1>2 DEF Fields
<1>3. CASE new # {}
  BY <1>1, <1>3 DEF Fields, Scanning
<1> QED
  BY <1>2, <1>3

LEMMA ObserveKeeps ==
  ASSUME IInv, NEW c \in Consumers, NEW t \in Tasks, Observe(c, t)
  PROVE  IInv'
<1> DEFINE k == [task[c][t] EXCEPT !.resumed = Started(log, task[c][t].at)]
           e == k.at
           others == ActiveEpochs(log, c) \ {e}
           stale == {a \in others : LET refs == RefsOf(ActivitiesOf(log, a))
                                    IN refs # {} /\ ~IntentsAreCurrent(log, refs)}
           abandon == [k EXCEPT !.pc = "abandon", !.stale = CHOOSE a \in stale : TRUE]
           next == IF Started(log, e) /\ ~Active(log, e) THEN [k EXCEPT !.pc = "settle"]
                   ELSE IF Started(log, e) /\ k.seen >= log[e].until THEN [k EXCEPT !.pc = "expire"]
                   ELSE IF HasAgenda(log, e) THEN [k EXCEPT !.pc = "settle"]
                   ELSE IF stale # {} THEN abandon
                   ELSE IF others # {} THEN [k EXCEPT !.pc = "settle"]
                   ELSE Proceed(k)
<1>1. Step(c, t, next) /\ k.pc = "observe" /\ log' = log /\ UNCHANGED <<up, inbox, fg, now, left>>
  BY DEF Observe, Stay
<1>2. /\ DOMAIN task[c][t] = Fields /\ task[c][t].stage \in 1..3
  BY WorkOf DEF WorkInv, TaskInv
<1>3. /\ DOMAIN k = Fields /\ k.stage = task[c][t].stage /\ k.at = task[c][t].at
      /\ k.seen = task[c][t].seen /\ k.todo = task[c][t].todo /\ k.pc = task[c][t].pc
  BY <1>2 DEF Fields
<1> HIDE DEF stale, others, k, e
<1>4. /\ DOMAIN next = Fields /\ next.at = k.at /\ next.seen = k.seen /\ next.todo = k.todo
      /\ next.stage \in 1..3 /\ next.pc \in Scanning \cup {"settle"}
  <2>1. \A pc \in {"settle", "expire"} :
          /\ DOMAIN [k EXCEPT !.pc = pc] = Fields /\ [k EXCEPT !.pc = pc].at = k.at
          /\ [k EXCEPT !.pc = pc].seen = k.seen /\ [k EXCEPT !.pc = pc].todo = k.todo
          /\ [k EXCEPT !.pc = pc].stage = k.stage /\ [k EXCEPT !.pc = pc].pc = pc
    BY <1>3 DEF Fields
  <2>2. /\ DOMAIN abandon = Fields /\ abandon.at = k.at
        /\ abandon.seen = k.seen /\ abandon.todo = k.todo
        /\ abandon.stage = k.stage /\ abandon.pc = "abandon"
    BY <1>3 DEF Fields
  <2>3. /\ DOMAIN Proceed(k) = Fields
        /\ Proceed(k).at = k.at /\ Proceed(k).seen = k.seen /\ Proceed(k).todo = k.todo
        /\ Proceed(k).stage \in 1..3 /\ Proceed(k).pc \in Scanning \cup {"settle"}
    BY <1>2, <1>3, ProceedMoves
  <2> HIDE DEF abandon
  <2> QED
    BY <2>1, <2>2, <2>3, <1>2, <1>3 DEF Scanning
<1>5. Grows(log, log')
  BY <1>1, LogGrows
<1> HIDE DEF next
<1>6. WorkInv(log', now, c, next)
  BY <1>1, <1>3, <1>4, <1>5, ScanMoves DEF Scanning
<1> QED
  BY <1>1, <1>5, <1>6, StepKeeps DEF IInv

\* The other steps of a scan append at most one event, and move on.
LEMMA ScanStepKeeps ==
  ASSUME IInv, NEW c \in Consumers, NEW t \in Tasks, task[c][t].pc \in Scanning,
         log' = log \/ \E event : Admitted(log, event) /\ Emit(event), Stay,
         NEW next, Step(c, t, next), DOMAIN next = Fields,
         next.at = task[c][t].at, next.seen = task[c][t].seen, next.todo = task[c][t].todo,
         next.stage \in 1..3, next.pc \in Scanning \cup {"settle"}
  PROVE  IInv'
<1>1. Grows(log, log')
  BY LogGrows
<1>2. WorkInv(log', now, c, next)
  BY <1>1, ScanMoves
<1> QED
  BY <1>1, <1>2, StepKeeps DEF IInv, Stay

\* Or they raise, or append without moving.
LEMMA ScanRaises ==
  ASSUME IInv, NEW c \in Consumers, NEW t \in Tasks, log' = log, Stay,
         Step(c, t, [IdleTask EXCEPT !.pc = "raised"])
  PROVE  IInv'
<1> DEFINE next == [IdleTask EXCEPT !.pc = "raised"]
<1>1. Grows(log, log')
  BY LogGrows
<1>2. /\ DOMAIN next = Fields /\ next.pc = "raised" /\ next.at = 0 /\ next.stage = 1
      /\ next.seen = 0 /\ next.todo = {}
  BY DEF IdleTask, Fields
<1>3. Step(c, t, next)
  OBVIOUS
<1> HIDE DEF next
<1>4. WorkInv(log', now, c, next)
  <2>1. now \in Nat /\ LogInv(log')
    BY <1>1 DEF IInv, Grows
  <2> QED
    BY <2>1, <1>2, FreshTask
<1> QED
  BY <1>1, <1>3, <1>4, StepKeeps DEF IInv, Stay

LEMMA AppendKeeps ==
  ASSUME IInv, NEW event, Admitted(log, event), Emit(event), Stay, UNCHANGED task
  PROVE  IInv'
<1>1. Grows(log, log')
  BY LogGrows
<1>2. \A d \in Consumers, u \in Tasks : WorkInv(log', now, d, task[d][u])
  <2>1. ASSUME NEW d \in Consumers, NEW u \in Tasks
        PROVE  WorkInv(log', now, d, task[d][u])
    <3>1. WorkInv(log, now, d, task[d][u]) /\ now \in Nat
      BY WorkOf
    <3> QED
      BY <1>1, <3>1, WorkKept
  <2> QED
    BY <2>1
<1>3. TasksInv'
  BY <1>2 DEF TasksInv, IInv, Stay
<1>4. \A d \in Consumers : inbox[d] \in Seq(Of(log', "foreground"))
                           /\ fg[d] \in 0..Len(log') /\ Served(log', d, fg[d])
  BY <1>1, SubscriptionKept DEF IInv, SubscriptionInv
<1>5. SubscriptionInv'
  BY <1>4 DEF SubscriptionInv, IInv, Stay
<1> QED
  BY <1>1, <1>3, <1>5 DEF IInv, Stay, Grows

LEMMA ToPc ==
  ASSUME NEW k, DOMAIN k = Fields, NEW pc
  PROVE  /\ DOMAIN [k EXCEPT !.pc = pc] = Fields /\ [k EXCEPT !.pc = pc].pc = pc
         /\ [k EXCEPT !.pc = pc].at = k.at /\ [k EXCEPT !.pc = pc].seen = k.seen
         /\ [k EXCEPT !.pc = pc].todo = k.todo /\ [k EXCEPT !.pc = pc].stage = k.stage
         /\ [k EXCEPT !.pc = pc].cands = k.cands /\ [k EXCEPT !.pc = pc].refs = k.refs
         /\ [k EXCEPT !.pc = pc].agenda = k.agenda /\ [k EXCEPT !.pc = pc].stale = k.stale
         /\ [k EXCEPT !.pc = pc].resumed = k.resumed
BY DEF Fields

LEMMA MoveKeeps ==
  ASSUME IInv, NEW c \in Consumers, NEW t \in Tasks, task[c][t].pc \in Scanning,
         log' = log \/ \E event : Admitted(log, event) /\ Emit(event), Stay,
         NEW pc \in Scanning \cup {"settle"}, Step(c, t, [task[c][t] EXCEPT !.pc = pc])
  PROVE  IInv'
<1> DEFINE next == [task[c][t] EXCEPT !.pc = pc]
<1>1. DOMAIN task[c][t] = Fields /\ task[c][t].stage \in 1..3
  BY WorkOf DEF WorkInv, TaskInv
<1>2. /\ DOMAIN next = Fields /\ next.pc = pc
      /\ next.at = task[c][t].at /\ next.seen = task[c][t].seen /\ next.todo = task[c][t].todo
      /\ next.stage = task[c][t].stage
  BY <1>1, ToPc
<1>3. Step(c, t, next)
  OBVIOUS
<1> HIDE DEF next
<1> QED
  BY <1>1, <1>2, <1>3, ScanStepKeeps

LEMMA ClosingIsAdmitted ==
  /\ \A l, e, s : Admitted(l, Preemption(e, s))
  /\ \A l, e, at : Admitted(l, Expiry(e, at))
  /\ \A l, e : Admitted(l, Abandonment(e))
BY DEF Admitted, Preemption, Expiry, Abandonment, Closings

LEMMA AbandonStaleKeeps ==
  ASSUME IInv, NEW c \in Consumers, NEW t \in Tasks, AbandonStale(c, t)
  PROVE  IInv'
<1>1. /\ task[c][t].pc = "abandon" /\ Stay
      /\ log' = log \/ Emit(Abandonment(task[c][t].stale))
      /\ Step(c, t, [task[c][t] EXCEPT !.pc = "reobserve"])
  BY DEF AbandonStale
<1> QED
  BY <1>1, ClosingIsAdmitted, MoveKeeps DEF Scanning

LEMMA ReobserveKeeps ==
  ASSUME IInv, NEW c \in Consumers, NEW t \in Tasks, Reobserve(c, t)
  PROVE  IInv'
<1>1. /\ task[c][t].pc = "reobserve" /\ Stay /\ log' = log
      /\ \/ Step(c, t, [task[c][t] EXCEPT !.pc = "settle"])
         \/ Step(c, t, Proceed(task[c][t]))
  BY DEF Reobserve
<1>2. CASE Step(c, t, [task[c][t] EXCEPT !.pc = "settle"])
  BY <1>1, <1>2, MoveKeeps DEF Scanning
<1>3. CASE Step(c, t, Proceed(task[c][t]))
  <2>1. DOMAIN task[c][t] = Fields /\ task[c][t].stage \in 1..3
    BY WorkOf DEF WorkInv, TaskInv
  <2> DEFINE next == Proceed(task[c][t])
  <2>2. /\ DOMAIN next = Fields
        /\ next.at = task[c][t].at /\ next.seen = task[c][t].seen /\ next.todo = task[c][t].todo
        /\ next.stage \in 1..3 /\ next.pc \in Scanning \cup {"settle"}
    BY <2>1, ProceedMoves
  <2>3. Step(c, t, next) /\ task[c][t].pc \in Scanning
    BY <1>1, <1>3 DEF Scanning
  <2> HIDE DEF next
  <2> QED
    BY <1>1, <2>2, <2>3, ScanStepKeeps
<1> QED
  BY <1>1, <1>2, <1>3

LEMMA ExpireEpochKeeps ==
  ASSUME IInv, NEW c \in Consumers, NEW t \in Tasks, ExpireEpoch(c, t)
  PROVE  IInv'
<1>1. /\ task[c][t].pc = "expire" /\ Stay
      /\ Step(c, t, [task[c][t] EXCEPT !.pc = "settle"])
      /\ \/ log' = log
         \/ Emit(Expiry(task[c][t].at, Max({task[c][t].seen, log[task[c][t].at].until})))
  BY DEF ExpireEpoch
<1> QED
  BY <1>1, ClosingIsAdmitted, MoveKeeps DEF Scanning

\* The request of the epoch is the head, so the epoch is behind all demand.
LEMMA StartEpochKeeps ==
  ASSUME IInv, NEW c \in Consumers, NEW t \in Tasks, StartEpoch(c, t)
  PROVE  IInv'
<1> DEFINE k == task[c][t]
           event == EpochStart(c, k.at)
<1>1. /\ k.pc = "start" /\ Stay
      /\ \/ log' = log /\ Step(c, t, [k EXCEPT !.pc = "output"])
         \/ log' = log /\ Step(c, t, [k EXCEPT !.pc = "settle"])
         \/ /\ ~Recorded(log, event) /\ ActiveEpochs(log, c) = {} /\ Len(log) = k.at
            /\ Emit(event) /\ Step(c, t, [k EXCEPT !.pc = "output"])
  BY DEF StartEpoch
<1>2. ASSUME Len(log) = k.at, ActiveEpochs(log, c) = {}
      PROVE  Admitted(log, event)
  <2>1. k.at \in Of(log, "request") /\ LogInv(log) /\ DOMAIN log = 1..Len(log) /\ Len(log) \in Nat
    BY <1>1, WorkOf DEF WorkInv, TaskInv, Scanning
  <2>2. ~Started(log, k.at)
    <3>1. ASSUME NEW n \in Of(log, "start") PROVE log[n].epoch # k.at
      <4>1. n \in 1..Len(log) /\ n = log[n].epoch + 1
        BY <2>1, ExternalTypes
           DEF LogInv, EventInv, Of, Outputs, Closings, Findings
      <4>2. log[n].epoch \in Of(log, "request")
        BY <2>1, ExternalTypes
           DEF LogInv, EventInv, Of, Outputs, Closings, Findings
      <4> QED
        BY <4>1, <4>2, <1>2, <2>1
    <3> QED
      BY <3>1 DEF Started
  <2> QED
    BY <2>1, <2>2, <1>2 DEF Admitted, EpochStart, LegalStart
<1> QED
  BY <1>1, <1>2, MoveKeeps DEF Scanning

LEMMA AppendOutputKeeps ==
  ASSUME IInv, NEW c \in Consumers, NEW t \in Tasks, task[c][t].pc \in Scanning, Stay,
         NEW event, event.type \in Outputs, NEW known, NEW e, NEW refs, NEW next,
         AppendOutput(c, t, event, known, e, refs, next), DOMAIN next = Fields,
         next.at = task[c][t].at, next.seen = task[c][t].seen, next.todo = task[c][t].todo,
         next.stage \in 1..3, next.pc \in Scanning \cup {"settle"}
  PROVE  IInv'
<1> DEFINE stopped == [task[c][t] EXCEPT !.pc = "finish", !.refs = refs]
<1>1. Admitted(log, event)
  BY DEF Admitted
<1>2. DOMAIN task[c][t] = Fields /\ task[c][t].stage \in 1..3
  BY WorkOf DEF WorkInv, TaskInv
<1>3. /\ DOMAIN stopped = Fields /\ stopped.pc = "finish"
      /\ stopped.at = task[c][t].at /\ stopped.seen = task[c][t].seen
      /\ stopped.todo = task[c][t].todo /\ stopped.stage = task[c][t].stage
  BY <1>2 DEF Fields
<1>4. \/ (log' = log \/ Emit(event)) /\ Step(c, t, next)
      \/ log' = log /\ Step(c, t, stopped)
  BY DEF AppendOutput
<1>5. CASE Step(c, t, next) /\ (log' = log \/ Emit(event))
  BY <1>1, <1>5, ScanStepKeeps
<1>6. CASE log' = log /\ Step(c, t, stopped)
  <2> HIDE DEF stopped
  <2> QED
    BY <1>2, <1>3, <1>6, ScanStepKeeps DEF Scanning
<1> QED
  BY <1>4, <1>5, <1>6

\* The event of a candidate and where the scan goes behind it.
OutputEvent(k, i) ==
  CASE k.stage = 1 -> InquiryEvent(k.at, i)
    [] k.stage = 2 -> ActivityEvent(k.at, i)
    [] k.stage = 3 -> EstimateEvent(k.at, i)
OutputKnown(l, k, i) ==
  IF k.stage = 1 THEN i \in Inquiries(l) ELSE Recorded(l, OutputEvent(k, i))
OutputNext(k, i) ==
  IF k.stage < 3 THEN [k EXCEPT !.stage = @ + 1]
  ELSE [k EXCEPT !.stage = 1, !.cands = @ \ {i},
                 !.pc = IF k.cands = {i} THEN "select" ELSE "output"]

LEMMA OutputStep ==
  ASSUME NEW c, NEW t, Output(c, t)
  PROVE  LET k == task[c][t]
             i == NextOf(k.cands)
         IN /\ k.pc = "output" /\ Stay
            /\ AppendOutput(c, t, OutputEvent(k, i), OutputKnown(log, k, i), k.at, i.refs,
                            OutputNext(k, i))
<1>1. Len(Stages) = 3
  BY DEF Stages
<1> QED
  BY <1>1 DEF Output, OutputEvent, OutputKnown, OutputNext

LEMMA OutputNextMoves ==
  ASSUME NEW k, DOMAIN k = Fields, k.stage \in 1..3, k.pc = "output", NEW i
  PROVE  /\ DOMAIN OutputNext(k, i) = Fields
         /\ OutputNext(k, i).at = k.at /\ OutputNext(k, i).seen = k.seen
         /\ OutputNext(k, i).todo = k.todo
         /\ OutputNext(k, i).stage = IF k.stage < 3 THEN k.stage + 1 ELSE 1
         /\ OutputNext(k, i).pc = IF k.stage < 3 \/ k.cands # {i} THEN "output" ELSE "select"
         /\ OutputNext(k, i).cands = IF k.stage < 3 THEN k.cands ELSE k.cands \ {i}
<1>1. CASE k.stage < 3
  <2>1. OutputNext(k, i) = [k EXCEPT !.stage = @ + 1]
    BY <1>1 DEF OutputNext
  <2> QED
    BY <1>1, <2>1 DEF Fields
<1>2. CASE ~(k.stage < 3)
  <2>1. OutputNext(k, i) = [k EXCEPT !.stage = 1, !.cands = @ \ {i},
                                     !.pc = IF k.cands = {i} THEN "select" ELSE "output"]
    BY <1>2 DEF OutputNext
  <2> QED
    BY <1>2, <2>1 DEF Fields
<1> QED
  BY <1>1, <1>2

LEMMA OutputIsAnOutput ==
  ASSUME NEW k, k.stage \in 1..3, NEW i
  PROVE  OutputEvent(k, i).type \in Outputs
BY DEF OutputEvent, InquiryEvent, ActivityEvent, EstimateEvent, Outputs

LEMMA OutputKeeps ==
  ASSUME IInv, NEW c \in Consumers, NEW t \in Tasks, Output(c, t)
  PROVE  IInv'
<1> DEFINE k == task[c][t]
           i == NextOf(k.cands)
<1>1. /\ k.pc = "output" /\ Stay
      /\ AppendOutput(c, t, OutputEvent(k, i), OutputKnown(log, k, i), k.at, i.refs,
                      OutputNext(k, i))
  BY OutputStep
<1>2. DOMAIN k = Fields /\ k.stage \in 1..3
  BY WorkOf DEF WorkInv, TaskInv
<1>3. /\ DOMAIN OutputNext(k, i) = Fields
      /\ OutputNext(k, i).at = k.at /\ OutputNext(k, i).seen = k.seen
      /\ OutputNext(k, i).todo = k.todo
      /\ OutputNext(k, i).stage \in 1..3
      /\ OutputNext(k, i).pc \in Scanning \cup {"settle"}
  <2>1. k.pc = "output"
    BY <1>1
  <2> HIDE DEF i, k
  <2>2. /\ DOMAIN OutputNext(k, i) = Fields
        /\ OutputNext(k, i).at = k.at /\ OutputNext(k, i).seen = k.seen
        /\ OutputNext(k, i).todo = k.todo
        /\ OutputNext(k, i).stage = IF k.stage < 3 THEN k.stage + 1 ELSE 1
        /\ OutputNext(k, i).pc = IF k.stage < 3 \/ k.cands # {i} THEN "output" ELSE "select"
    BY <2>1, <1>2, OutputNextMoves
  <2> QED
    BY <2>2, <1>2 DEF Scanning
<1>4. OutputEvent(k, i).type \in Outputs /\ k.pc \in Scanning
  BY <1>1, <1>2, OutputIsAnOutput DEF Scanning
<1> HIDE DEF i
<1> QED
  BY <1>1, <1>3, <1>4, AppendOutputKeeps

LEMMA SelectKeeps ==
  ASSUME IInv, NEW c \in Consumers, NEW t \in Tasks, Select(c, t)
  PROVE  IInv'
<1> DEFINE k == task[c][t]
           acts == ActivitiesOf(log, k.at)
           next == [k EXCEPT !.pc = "agenda", !.agenda = SelectAgenda(acts), !.refs = RefsOf(acts)]
<1>1. /\ k.pc = "select" /\ log' = log /\ Stay
      /\ \/ Step(c, t, [k EXCEPT !.pc = "settle"])
         \/ Step(c, t, [IdleTask EXCEPT !.pc = "raised"])
         \/ Step(c, t, next)
  BY DEF Select
<1>2. DOMAIN k = Fields /\ k.stage \in 1..3
  BY WorkOf DEF WorkInv, TaskInv
<1>3. CASE Step(c, t, next)
  <2>1. /\ DOMAIN next = Fields /\ next.pc = "agenda" /\ next.at = k.at /\ next.seen = k.seen
        /\ next.todo = k.todo /\ next.stage = k.stage
    BY <1>2 DEF Fields
  <2> HIDE DEF next
  <2> QED
    BY <1>1, <1>2, <1>3, <2>1, ScanStepKeeps DEF Scanning
<1> QED
  BY <1>1, <1>3, ScanRaises, MoveKeeps DEF Scanning

LEMMA RecordAgendaKeeps ==
  ASSUME IInv, NEW c \in Consumers, NEW t \in Tasks, RecordAgenda(c, t)
  PROVE  IInv'
<1> DEFINE k == task[c][t]
           event == AgendaEvent(k.at, k.agenda)
           next == [k EXCEPT !.pc = "settle"]
<1>1. /\ k.pc = "agenda" /\ Stay
      /\ AppendOutput(c, t, event, Recorded(log, event), k.at, k.refs, next)
  BY DEF RecordAgenda
<1>2. DOMAIN k = Fields /\ k.stage \in 1..3
  BY WorkOf DEF WorkInv, TaskInv
<1>3. /\ DOMAIN next = Fields /\ next.pc = "settle" /\ next.at = k.at /\ next.seen = k.seen
      /\ next.todo = k.todo /\ next.stage = k.stage
  BY <1>2, ToPc
<1>4. event.type \in Outputs
  BY DEF AgendaEvent, Outputs
<1> HIDE DEF next, event
<1> QED
  BY <1>1, <1>2, <1>3, <1>4, AppendOutputKeeps DEF Scanning

LEMMA FinishScanKeeps ==
  ASSUME IInv, NEW c \in Consumers, NEW t \in Tasks, FinishScan(c, t)
  PROVE  IInv'
<1> DEFINE k == task[c][t]
<1>1. /\ k.pc = "finish" /\ Stay
      /\ \/ log' = log /\ Step(c, t, [k EXCEPT !.pc = "settle"])
         \/ Emit(Expiry(k.at, k.seen)) /\ UNCHANGED task
         \/ Emit(Abandonment(k.at)) /\ UNCHANGED task
         \/ log' = log /\ Step(c, t, [IdleTask EXCEPT !.pc = "raised"])
  BY DEF FinishScan
<1> QED
  BY <1>1, ClosingIsAdmitted, MoveKeeps, AppendKeeps, ScanRaises DEF Scanning

\* What is checkpointed was served, so the checkpoint may pass it.
LEMMA CheckpointAppends ==
  ASSUME IInv, NEW c \in Consumers, NEW s \in 0..Len(log), Served(log, c, s), Checkpoint(c, s)
  PROVE  log' = log \/ \E event : Admitted(log, event) /\ Emit(event)
<1>1. Admitted(log, CheckpointEvent(c, s))
  BY DEF Admitted, CheckpointEvent
<1> QED
  BY <1>1 DEF Checkpoint

LEMMA SettleKeeps ==
  ASSUME IInv, NEW c \in Consumers, NEW t \in Tasks, Settle(c, t)
  PROVE  IInv'
<1> DEFINE k == task[c][t]
           next == [IdleTask EXCEPT !.pc = IF k.todo = {} THEN "idle" ELSE "recover",
                                    !.todo = k.todo]
<1>1. k.pc = "settle" /\ Checkpoint(c, k.at) /\ Step(c, t, next) /\ Stay
  BY DEF Settle
<1>2. WorkInv(log, now, c, k) /\ now \in Nat
  BY WorkOf
<1>3. k.at \in 0..Len(log) /\ Served(log, c, k.at)
  BY <1>1, <1>2 DEF WorkInv, TaskInv
<1>4. Grows(log, log')
  BY <1>1, <1>3, CheckpointAppends, LogGrows
<1>5. /\ DOMAIN next = Fields /\ next.pc = IF k.todo = {} THEN "idle" ELSE "recover"
      /\ next.at = 0 /\ next.stage = 1 /\ next.seen = 0 /\ next.todo = k.todo
  BY DEF IdleTask, Fields
<1> HIDE DEF next
<1>6. WorkInv(log', now, c, next)
  <2>1. k.todo \subseteq Of(log', "request") \cup Of(log', "foreground")
    BY <1>2, <1>4, GrownOf DEF WorkInv, TaskInv
  <2>2. LogInv(log')
    BY <1>4 DEF Grows
  <2> QED
    BY <1>2, <1>5, <2>1, <2>2, FreshTask
<1> QED
  BY <1>1, <1>4, <1>6, StepKeeps DEF IInv, Stay

LEMMA StartKeeps ==
  ASSUME IInv, NEW c \in Consumers, NEW t \in Starters, Start(c, t)
  PROVE  IInv'
<1> DEFINE next == [IdleTask EXCEPT !.pc = "backlog"]
<1>1. /\ up' = up \cup {c} /\ Step(c, t, next) /\ UNCHANGED <<log, now, inbox, fg, left>>
  BY DEF Start
<1>2. t \in Tasks /\ log' = log
  BY <1>1 DEF Tasks
<1>3. Grows(log, log')
  BY <1>2, LogGrows
<1>4. /\ DOMAIN next = Fields /\ next.pc = "backlog"
      /\ next.at = 0 /\ next.stage = 1 /\ next.seen = 0 /\ next.todo = {}
  BY DEF IdleTask, Fields
<1> HIDE DEF next
<1>5. WorkInv(log', now, c, next) /\ now \in Nat
  <2>1. LogInv(log') /\ now \in Nat
    BY <1>3 DEF Grows, IInv
  <2> QED
    BY <1>4, <2>1, FreshTask
<1>6. TasksInv'
  <2>1. /\ DOMAIN task' = Consumers
        /\ \A d \in Consumers : DOMAIN task'[d] = Tasks
        /\ task'[c][t] = next
        /\ \A d \in Consumers, u \in Tasks :
             ~(d = c /\ u = t) => task'[d][u] = task[d][u]
    BY <1>1, <1>2 DEF Step, IInv, TasksInv
  <2>2. \A d \in Consumers, u \in Tasks : WorkInv(log, now, d, task[d][u])
    BY DEF IInv, TasksInv
  <2>3. \A d \in Consumers, u \in Tasks : WorkInv(log', now', d, task'[d][u])
    <3>1. now' = now
      BY <1>1
    <3>2. TAKE d \in Consumers, u \in Tasks
    <3>3. CASE d = c /\ u = t
      BY <1>5, <2>1, <3>1, <3>3
    <3>4. CASE ~(d = c /\ u = t)
      BY <1>2, <2>1, <2>2, <3>1, <3>4
    <3> QED
      BY <3>3, <3>4
  <2> QED
    BY <2>1, <2>3 DEF TasksInv
<1>7. SubscriptionInv'
  BY <1>1 DEF IInv, SubscriptionInv
<1> QED
  BY <1>1, <1>3, <1>6, <1>7 DEF IInv, Grows

LEMMA ReadBacklogKeeps ==
  ASSUME IInv, NEW c \in Consumers, NEW t \in Tasks, ReadBacklog(c, t)
  PROVE  IInv'
<1> DEFINE pending == {n \in Of(log, "request") \cup Of(log, "foreground") : n > CheckpointOf(log, c)}
           next == [IdleTask EXCEPT !.pc = IF pending = {} THEN "idle" ELSE "recover",
                                    !.todo = pending]
<1>1. Step(c, t, next) /\ log' = log /\ Stay
  BY DEF ReadBacklog
<1>2. pending \subseteq Of(log, "request") \cup Of(log, "foreground")
  OBVIOUS
<1> HIDE DEF pending
<1>3. /\ DOMAIN next = Fields /\ next.pc = IF pending = {} THEN "idle" ELSE "recover"
      /\ next.at = 0 /\ next.stage = 1 /\ next.seen = 0 /\ next.todo = pending
  BY DEF IdleTask, Fields
<1> HIDE DEF next
<1>4. Grows(log, log') /\ now \in Nat
  BY <1>1, LogGrows, WorkOf
<1>5. WorkInv(log', now, c, next)
  <2>1. LogInv(log') /\ log' = log
    BY <1>1, <1>4 DEF Grows
  <2> QED
    BY <1>2, <1>3, <1>4, <2>1, FreshTask
<1> QED
  BY <1>1, <1>4, <1>5, StepKeeps DEF IInv, Stay

\* The next trigger is one that was pending.
LEMMA RecoverKeeps ==
  ASSUME IInv, NEW c \in Consumers, NEW t \in Tasks, Recover(c, t)
  PROVE  IInv'
<1> DEFINE k == task[c][t]
           n == Min(k.todo)
           pc == IF log[n].type = "request" THEN "observe" ELSE "preempt"
           next == [k EXCEPT !.pc = pc, !.at = n, !.seen = now, !.todo = @ \ {n}]
<1>1. k.pc = "recover" /\ Step(c, t, next) /\ log' = log /\ Stay
  BY DEF Recover
<1>2. /\ WorkInv(log, now, c, k) /\ now \in Nat /\ DOMAIN k = Fields
      /\ Len(log) \in Nat /\ DOMAIN log = 1..Len(log)
  BY WorkOf
<1>3. n \in k.todo
  <2>1. k.todo \subseteq Nat /\ k.todo # {}
    BY <1>1, <1>2 DEF WorkInv, TaskInv, Of
  <2> QED
    BY <2>1, LeastNatural
<1> HIDE DEF n
<1>4. n \in 1..Len(log) /\ (n \in Of(log, "request") \/ n \in Of(log, "foreground"))
  BY <1>2, <1>3 DEF WorkInv, TaskInv, Of
<1>5. \/ pc = "observe" /\ n \in Of(log, "request")
      \/ pc = "preempt" /\ n \in Of(log, "foreground")
  BY <1>4 DEF Of
<1> HIDE DEF pc
<1>6. /\ DOMAIN next = Fields /\ next.pc = pc /\ next.at = n /\ next.seen = now
      /\ next.todo = k.todo \ {n} /\ next.stage = k.stage
  BY <1>2 DEF Fields
<1> HIDE DEF next
<1>7. WorkInv(log', now, c, next)
  BY <1>1, <1>2, <1>4, <1>5, <1>6 DEF WorkInv, TaskInv, Scanning
<1>8. Grows(log, log')
  BY <1>1, LogGrows
<1> QED
  BY <1>1, <1>7, <1>8, StepKeeps DEF IInv, Stay

\* Preemption closes the one epoch that is open and behind the event.
LEMMA PreemptServes ==
  ASSUME IInv, NEW c \in Consumers, NEW s \in Of(log, "foreground"), Preempt(c, s)
  PROVE  Grows(log, log') /\ Served(log', c, s)
<1> DEFINE open == {e \in ActiveEpochs(log, c) : s > e}
           closed == CHOOSE e \in open : TRUE
<1>1. LogInv(log) /\ IsLog(log) /\ Len(log) \in Nat /\ DOMAIN log = 1..Len(log)
  BY Appended DEF IInv, LogInv
<1>2. log' = log \/ Emit(Preemption(closed, s))
  BY DEF Preempt
<1>3. Grows(log, log')
  BY <1>2, ClosingIsAdmitted, LogGrows
<1>4. \A e \in ActiveEpochs(log, c) : e \in Of(log, "request")
  BY <1>1, ExternalTypes DEF ActiveEpochs, Of, LogInv, EventInv, Outputs, Closings, Findings
<1>5. CASE open = {}
  <2>1. log' = log
    BY <1>5 DEF Preempt
  <2>2. \A e \in ActiveEpochs(log, c) : e > s
    BY <1>1, <1>4, <1>5 DEF Of
  <2> QED
    BY <1>3, <2>1, <2>2 DEF Served
<1>6. CASE open # {}
  <2>1. closed \in open
    BY <1>6
  <2>2. log' = Append(log, Preemption(closed, s))
    BY <1>6 DEF Preempt, Emit
  <2>3. ActiveEpochs(log, c) = {closed}
    BY <1>1, <2>1 DEF LogInv, OneEpoch
  <2> HIDE DEF closed
  <2>4. ~Active(log', closed)
    <3>1. Preemption(closed, s).type \in Closings /\ Preemption(closed, s).epoch = closed
      BY DEF Preemption, Closings
    <3>2. IsClosed(log', closed)
      BY <1>1, <2>2, <3>1, StartedAppended
    <3> QED
      BY <3>2, ActiveIsOpen
  <2>5. ActiveEpochs(log', c) = {}
    <3>1. ASSUME NEW e \in ActiveEpochs(log', c) PROVE FALSE
      <4>1. Preemption(closed, s).type # "start"
        BY DEF Preemption
      <4>2. e \in ActiveEpochs(log, c)
        BY <1>1, <2>2, <4>1, ActiveAppended
      <4>3. e = closed
        BY <4>2, <2>3
      <4> QED
        BY <4>3, <2>4, ActiveIsOpen DEF Active, ActiveEpochs, Started
    <3> QED
      BY <3>1
  <2> QED
    BY <1>3, <2>5 DEF Served
<1> QED
  BY <1>5, <1>6

LEMMA RecoverForegroundKeeps ==
  ASSUME IInv, NEW c \in Consumers, NEW t \in Tasks, RecoverForeground(c, t)
  PROVE  IInv'
<1> DEFINE k == task[c][t]
           next == [k EXCEPT !.pc = "settle"]
<1>1. k.pc = "preempt" /\ Preempt(c, k.at) /\ Step(c, t, next) /\ Stay
  BY DEF RecoverForeground
<1>2. WorkInv(log, now, c, k) /\ now \in Nat /\ DOMAIN k = Fields
  BY WorkOf
<1>3. k.at \in Of(log, "foreground")
  BY <1>1, <1>2 DEF WorkInv, TaskInv
<1>4. Grows(log, log') /\ Served(log', c, k.at)
  BY <1>1, <1>3, PreemptServes
<1>5. /\ DOMAIN next = Fields /\ next.pc = "settle" /\ next.at = k.at /\ next.seen = k.seen
      /\ next.todo = k.todo /\ next.stage = k.stage
  BY <1>2, ToPc
<1>6. WorkInv(log', now, c, k)
  BY <1>2, <1>4, WorkKept
<1> HIDE DEF next
<1>7. WorkInv(log', now, c, next)
  BY <1>4, <1>5, <1>6 DEF WorkInv, TaskInv, Scanning
<1> QED
  BY <1>1, <1>4, <1>7, StepKeeps DEF IInv, Stay
-----------------------------------------------------------------------------
\* The bus subscription, and what happens around a worker.

\* Tasks and subscriptions are unharmed when the log grows and the clock goes on.
LEMMA AllKept ==
  ASSUME IInv, Grows(log, log'), now' \in Nat, now <= now'
  PROVE  /\ LogInv(log')
         /\ \A c \in Consumers, t \in Tasks : WorkInv(log', now', c, task[c][t])
         /\ \A c \in Consumers : /\ inbox[c] \in Seq(Of(log', "foreground"))
                                 /\ fg[c] \in 0..Len(log') /\ Served(log', c, fg[c])
<1>1. \A c \in Consumers, t \in Tasks : WorkInv(log, now, c, task[c][t])
  BY DEF IInv, TasksInv
<1>2. now \in Nat
  BY DEF IInv
<1>3. \A c \in Consumers, t \in Tasks : WorkInv(log', now', c, task[c][t])
  BY <1>1, <1>2, WorkKept
<1>4. \A c \in Consumers : inbox[c] \in Seq(Of(log, "foreground"))
                           /\ fg[c] \in 0..Len(log) /\ Served(log, c, fg[c])
  BY DEF IInv, SubscriptionInv
<1>5. \A c \in Consumers : inbox[c] \in Seq(Of(log', "foreground"))
                           /\ fg[c] \in 0..Len(log') /\ Served(log', c, fg[c])
  BY <1>4, SubscriptionKept
<1> QED
  BY <1>3, <1>5 DEF Grows

\* An event that is handled was published, and is served before it counts as
\* handled.
LEMMA HandleForegroundKeeps ==
  ASSUME IInv, NEW c \in Consumers, HandleForeground(c)
  PROVE  IInv'
<1> DEFINE s == Head(inbox[c])
<1>1. inbox[c] \in Seq(Of(log, "foreground")) /\ inbox[c] # <<>>
  BY DEF IInv, SubscriptionInv, HandleForeground
<1>2. s \in Of(log, "foreground") /\ Tail(inbox[c]) \in Seq(Of(log, "foreground"))
  BY <1>1
<1>3. Preempt(c, s)
  BY DEF HandleForeground
<1> HIDE DEF s
<1>4. Grows(log, log') /\ Served(log', c, s)
  BY <1>2, <1>3, PreemptServes
<1>5. now \in Nat /\ now' = now
  BY DEF IInv, HandleForeground
<1>6. /\ LogInv(log')
      /\ \A d \in Consumers, t \in Tasks : WorkInv(log', now', d, task[d][t])
      /\ \A d \in Consumers : /\ inbox[d] \in Seq(Of(log', "foreground"))
                              /\ fg[d] \in 0..Len(log') /\ Served(log', d, fg[d])
  BY <1>4, <1>5, AllKept
<1>7. /\ Of(log, "foreground") \subseteq Of(log', "foreground")
      /\ Of(log', "foreground") \subseteq 0..Len(log')
  BY <1>4, GrownOf DEF Grows, Of
<1>8. Tail(inbox[c]) \in Seq(Of(log', "foreground")) /\ s \in 0..Len(log')
  <2>1. \A A, B : A \subseteq B => Seq(A) \subseteq Seq(B)
    OBVIOUS
  <2> QED
    BY <1>2, <1>7, <2>1
<1>9. SubscriptionInv'
  <2>1. /\ inbox' = [inbox EXCEPT ![c] = Tail(inbox[c])] /\ fg' = [fg EXCEPT ![c] = s]
        /\ DOMAIN inbox = Consumers /\ DOMAIN fg = Consumers
    BY DEF HandleForeground, s, IInv, SubscriptionInv
  <2> QED
    BY <2>1, <1>4, <1>6, <1>8 DEF SubscriptionInv
<1>10. TasksInv'
  BY <1>6 DEF TasksInv, HandleForeground, IInv
<1> QED
  BY <1>6, <1>9, <1>10 DEF HandleForeground, IInv

LEMMA CheckpointForegroundKeeps ==
  ASSUME IInv, NEW c \in Consumers, CheckpointForeground(c)
  PROVE  IInv'
<1>1. /\ fg[c] \in 0..Len(log) /\ Served(log, c, fg[c])
      /\ Checkpoint(c, fg[c])
  BY DEF CheckpointForeground, IInv, SubscriptionInv
<1>2. Grows(log, log')
  BY <1>1, CheckpointAppends, LogGrows
<1>3. now \in Nat /\ now' = now
  BY DEF IInv, CheckpointForeground
<1>4. /\ LogInv(log')
      /\ \A d \in Consumers, t \in Tasks : WorkInv(log', now', d, task[d][t])
      /\ \A d \in Consumers : /\ inbox[d] \in Seq(Of(log', "foreground"))
                              /\ fg[d] \in 0..Len(log') /\ Served(log', d, fg[d])
  BY <1>2, <1>3, AllKept
<1>5. 0 \in 0..Len(log') /\ Served(log', c, 0)
  BY <1>2 DEF Grows, Served, Of
<1>6. SubscriptionInv'
  <2>1. /\ inbox' = inbox /\ fg' = [fg EXCEPT ![c] = 0]
        /\ DOMAIN inbox = Consumers /\ DOMAIN fg = Consumers
    BY DEF CheckpointForeground, IInv, SubscriptionInv
  <2> QED
    BY <2>1, <1>4, <1>5 DEF SubscriptionInv
<1>7. TasksInv'
  BY <1>4 DEF TasksInv, CheckpointForeground, IInv
<1> QED
  BY <1>4, <1>6, <1>7 DEF CheckpointForeground, IInv

\* An idle task knows nothing that the log could contradict.
LEMMA IdleIsFine ==
  ASSUME NEW l, LogInv(l), NEW time \in Nat, NEW c
  PROVE  WorkInv(l, time, c, IdleTask)
<1>1. Len(l) \in Nat
  BY Appended DEF LogInv
<1> QED
  BY <1>1 DEF WorkInv, TaskInv, IdleTask, Fields, Scanning

LEMMA StopKeeps ==
  ASSUME IInv, NEW c \in Consumers, Stop(c)
  PROVE  IInv'
<1>1. /\ log' = log /\ now' = now /\ task' = task /\ fg' = fg /\ up' \subseteq Consumers
      /\ inbox' = [inbox EXCEPT ![c] = <<>>]
      /\ left' \in [scans : Nat, facts : Nat, ticks : Nat, crashes : Nat]
  BY DEF Stop, IInv
<1>2. SubscriptionInv'
  BY <1>1 DEF IInv, SubscriptionInv
<1>3. TasksInv'
  BY <1>1 DEF IInv, TasksInv
<1> QED
  BY <1>1, <1>2, <1>3 DEF IInv

LEMMA CrashKeeps ==
  ASSUME IInv, NEW c \in Consumers, Crash(c)
  PROVE  IInv'
<1>1. /\ log' = log /\ now' = now /\ up' \subseteq Consumers
      /\ task' = [task EXCEPT ![c] = [t \in Tasks |-> IdleTask]]
      /\ inbox' = [inbox EXCEPT ![c] = <<>>] /\ fg' = [fg EXCEPT ![c] = 0]
      /\ left' \in [scans : Nat, facts : Nat, ticks : Nat, crashes : Nat]
  BY DEF Crash, IInv
<1>2. LogInv(log) /\ now \in Nat /\ Len(log) \in Nat
  BY Appended DEF IInv, LogInv
<1>3. WorkInv(log, now, c, IdleTask)
  BY <1>2, IdleIsFine
<1>4. Served(log, c, 0)
  BY <1>2, Appended DEF Served, Of, LogInv
<1>5. SubscriptionInv'
  BY <1>1, <1>2, <1>4 DEF IInv, SubscriptionInv
<1>6. TasksInv'
  <2>1. DOMAIN task' = Consumers /\ \A d \in Consumers : DOMAIN task'[d] = Tasks
    BY <1>1 DEF IInv, TasksInv
  <2>2. \A d \in Consumers, t \in Tasks :
          task'[d][t] = IF d = c THEN IdleTask ELSE task[d][t]
    BY <1>1 DEF IInv, TasksInv
  <2> QED
    BY <2>1, <2>2, <1>1, <1>3 DEF IInv, TasksInv
<1> QED
  BY <1>1, <1>5, <1>6 DEF IInv

\* A foreground event is published at the number it was given.
LEMMA OthersKeeps ==
  ASSUME IInv, NEW f \in Facts, Others(f)
  PROVE  IInv'
<1>1. IsExternal(f) /\ log' = Append(log, f)
  BY EpochAssumption DEF Others, Emit
<1>2. LogInv(log) /\ IsLog(log) /\ Len(log) \in Nat /\ DOMAIN log = 1..Len(log)
  BY Appended DEF IInv, LogInv
<1>3. Grows(log, log')
  BY <1>1, <1>2, GrowsByOne DEF Admitted
<1>4. now \in Nat /\ now' = now /\ task' = task /\ up' = up /\ fg' = fg
      /\ left' \in [scans : Nat, facts : Nat, ticks : Nat, crashes : Nat]
  BY DEF IInv, Others
<1>5. /\ LogInv(log')
      /\ \A d \in Consumers, t \in Tasks : WorkInv(log', now', d, task[d][t])
      /\ \A d \in Consumers : /\ inbox[d] \in Seq(Of(log', "foreground"))
                              /\ fg[d] \in 0..Len(log') /\ Served(log', d, fg[d])
  BY <1>3, <1>4, AllKept
<1>6. f.type = "foreground" => Len(log) + 1 \in Of(log', "foreground")
  BY <1>1, <1>2, OfAppended
<1>7. SubscriptionInv'
  <2>1. DOMAIN inbox' = Consumers
    BY DEF Others
  <2>2. ASSUME NEW d \in Consumers
        PROVE  inbox'[d] \in Seq(Of(log', "foreground"))
    <3>1. inbox'[d] = IF f.type = "foreground" /\ d \in up THEN Append(inbox[d], Len(log) + 1)
                      ELSE inbox[d]
      BY DEF Others
    <3>2. inbox[d] \in Seq(Of(log', "foreground"))
      BY <1>5
    <3> QED
      BY <1>6, <3>1, <3>2
  <2> QED
    BY <2>1, <2>2, <1>4, <1>5 DEF IInv, SubscriptionInv
<1>8. TasksInv'
  BY <1>4, <1>5 DEF IInv, TasksInv
<1> QED
  BY <1>4, <1>5, <1>7, <1>8 DEF IInv

LEMMA TickKeeps ==
  ASSUME IInv, Tick
  PROVE  IInv'
<1>1. /\ log' = log /\ now' = now + 1 /\ task' = task /\ up' = up /\ fg' = fg /\ inbox' = inbox
      /\ now \in Nat /\ left' \in [scans : Nat, facts : Nat, ticks : Nat, crashes : Nat]
  BY DEF IInv, Tick
<1>2. Grows(log, log')
  BY <1>1, GrowsBack DEF IInv
<1>3. /\ LogInv(log')
      /\ \A d \in Consumers, t \in Tasks : WorkInv(log', now', d, task[d][t])
      /\ \A d \in Consumers : /\ inbox[d] \in Seq(Of(log', "foreground"))
                              /\ fg[d] \in 0..Len(log') /\ Served(log', d, fg[d])
  BY <1>1, <1>2, AllKept
<1> QED
  BY <1>1, <1>3 DEF IInv, TasksInv, SubscriptionInv

LEMMA NextKeeps ==
  ASSUME IInv, Next
  PROVE  IInv'
<1>1. CASE \E c \in Consumers, t \in Tasks : Run(c, t)
  BY <1>1, RequestScanKeeps, ObserveKeeps, AbandonStaleKeeps, ReobserveKeeps, ExpireEpochKeeps,
     StartEpochKeeps, OutputKeeps, SelectKeeps, RecordAgendaKeeps, FinishScanKeeps, SettleKeeps,
     ReadBacklogKeeps, RecoverKeeps, RecoverForegroundKeeps DEF Run
<1>2. CASE \E c \in Consumers, t \in Callers : BeginScan(c, t)
  BY <1>2, BeginScanKeeps
<1>3. CASE \E c \in Consumers, t \in Starters : Start(c, t)
  BY <1>3, StartKeeps DEF Tasks
<1>4. CASE \E c \in Consumers : Serve(c) \/ Stop(c) \/ Crash(c)
  BY <1>4, HandleForegroundKeeps, CheckpointForegroundKeeps, StopKeeps, CrashKeeps DEF Serve
<1>5. CASE \E f \in Facts : Others(f)
  BY <1>5, OthersKeeps
<1> QED
  BY <1>1, <1>2, <1>3, <1>4, <1>5, TickKeeps DEF Next

LEMMA StutterKeeps ==
  ASSUME IInv, UNCHANGED vars
  PROVE  IInv'
BY DEF vars, IInv, TasksInv, SubscriptionInv

\* What the log and the tasks keep, whatever scans, foreground events, crashes and
\* restarts of any number of processes come in between.
THEOREM DreamInvariant == Spec => []IInv
<1>1. Init => IInv
  BY InitIInv
<1>2. IInv /\ [Next]_vars => IInv'
  BY NextKeeps, StutterKeeps
<1> QED
  BY <1>1, <1>2, PTL DEF Spec

\* Queues hold foreground events, and tasks the triggers that start() recovers.
THEOREM DreamTypeCorrect == Spec => []TypeOK
<1>1. IInv => TypeOK
  <2> SUFFICES ASSUME IInv PROVE TypeOK
    OBVIOUS
  <2>1. \A c \in Consumers : \A t \in Tasks : TaskInv(log, now, task[c][t])
    BY DEF IInv, TasksInv, WorkInv
  <2>2. Len(Stages) = 3
    BY DEF Stages
  <2>3. \A c \in Consumers : \A n \in DOMAIN inbox[c] : inbox[c][n] \in Of(log, "foreground")
    BY DEF IInv, SubscriptionInv
  <2> QED
    BY <2>1, <2>2, <2>3 DEF IInv, SubscriptionInv, TypeOK, TaskInv
<1> QED
  BY <1>1, DreamInvariant, PTL

\* Foreground demand wins: once _process_foreground has run for an event, or the
\* checkpoint has passed it, no epoch of an earlier cut is open or is opened by a
\* scan that was under way (_append_epoch_start).
THEOREM ForegroundIsServed == Spec => []ForegroundWins
<1>1. IInv => ForegroundWins
  <2> SUFFICES ASSUME IInv, NEW c \in Consumers,
                      NEW s \in {fg[c]} \cup {log[n].upto : n \in {k \in Of(log, "checkpoint") :
                                                    log[k].consumer = c}},
                      s \in Of(log, "foreground"), NEW e \in ActiveEpochs(log, c)
               PROVE  e > s
    BY DEF ForegroundWins
  <2>1. Served(log, c, fg[c])
    BY DEF IInv, SubscriptionInv
  <2>2. \A n \in Of(log, "checkpoint") : log[n].consumer = c => Served(log, c, log[n].upto)
    BY DEF IInv, LogInv, CheckpointsServed
  <2>3. Served(log, c, s)
    BY <2>1, <2>2
  <2> QED
    BY <2>3 DEF Served
<1> QED
  BY <1>1, DreamInvariant, PTL
-----------------------------------------------------------------------------
\* What an epoch asks: the questions detected at its cut that no epoch before it
\* has asked.

Questions(l, e) == Detect(SubSeq(l, 1, e), l[e].at) \ Inquiries(SubSeq(l, 1, e))

\* The inquiries S have their activities and their estimates in epoch e.
Done(l, e, S) == S \subseteq ActivitiesOf(l, e) /\ S \subseteq EstimatesOf(l, e)

\* An inquiry is asked once, by an epoch whose cut is behind it and leaves it
\* open; while an epoch is open, no other asks.
Asked(l) ==
  /\ \A n \in Of(l, "inquiry") : /\ l[n].epoch \in Of(l, "request") /\ l[n].epoch < n
                                 /\ l[n].inquiry \in Questions(l, l[n].epoch)
  /\ \A m, n \in Of(l, "inquiry") : l[m].inquiry = l[n].inquiry => m = n
  /\ \A c \in Consumers : \A e \in ActiveEpochs(l, c) : \A n \in Of(l, "inquiry") :
       n > e => l[n].epoch = e

\* Every activity belongs to an inquiry of its epoch, every estimate to an
\* activity; an agenda is the selection among all the questions of its epoch.
Answered(l) ==
  /\ \A n \in Of(l, "activity") : \E m \in Of(l, "inquiry") :
       l[m].epoch = l[n].epoch /\ l[m].inquiry = l[n].inquiry
  /\ \A n \in Of(l, "voc") : l[n].inquiry \in ActivitiesOf(l, l[n].epoch)
  /\ \A n \in Of(l, "agenda") :
       /\ l[n].epoch \in Of(l, "request")
       /\ l[n] = AgendaEvent(l[n].epoch, l[n].agenda)
       /\ l[n].agenda = SelectAgenda(Questions(l, l[n].epoch))
       /\ Questions(l, l[n].epoch) \subseteq ActivitiesOf(l, l[n].epoch)

\* What a scan holds, as long as its epoch is open: the questions it found, and
\* which of them are done.
Thought(l, k) ==
  LET e == k.at
      Q == Questions(l, e)
      i == NextOf(k.cands)
  IN /\ k.pc \in {"abandon", "reobserve"} /\ k.resumed => Started(l, e)
     /\ k.pc = "start" => /\ k.cands # {} /\ k.stage = 1
                          /\ (Active(l, e) \/ Len(l) = e => k.cands = Q)
     /\ k.pc \in {"output", "select", "agenda"} => Started(l, e)
     /\ k.pc = "output" /\ Active(l, e) =>
          /\ k.cands # {} /\ k.cands \subseteq Q /\ Done(l, e, Q \ k.cands)
          /\ k.stage > 1 => \E n \in Of(l, "inquiry") : l[n].epoch = e /\ l[n].inquiry = i
          /\ k.stage > 2 => i \in ActivitiesOf(l, e)
     /\ k.pc \in {"select", "agenda"} /\ Active(l, e) => Done(l, e, Q)
     /\ k.pc = "agenda" /\ Active(l, e) =>
          Q # {} /\ k.agenda = SelectAgenda(Q) /\ k.refs = RefsOf(Q)

\* One process works: what two processes with one log may do to one another is
\* not in what follows.
Alone == \A c, d \in Consumers : c = d

LEMMA StartedByRequest ==
  ASSUME NEW l, LogInv(l), NEW e, Started(l, e)
  PROVE  /\ e \in Of(l, "request")
         /\ \E c \in Consumers, n \in Of(l, "start") : l[n].consumer = c /\ l[n].epoch = e
<1>1. PICK n \in Of(l, "start") : l[n].epoch = e
  BY DEF Started
<1>2. n \in DOMAIN l /\ l[n].type = "start"
  BY DEF Of
<1>3. l[n].consumer \in Consumers /\ l[n].epoch \in Of(l, "request")
  BY <1>2, ExternalTypes DEF LogInv, EventInv, Outputs, Closings, Findings
<1> QED
  BY <1>1, <1>3

\* The consumer's open epochs are all there are, and one at most.
LEMMA OpenEpochs ==
  ASSUME Alone, NEW l, LogInv(l), NEW c \in Consumers
  PROVE  /\ \A e : Active(l, e) <=> e \in ActiveEpochs(l, c)
         /\ \A d, e : Active(l, d) /\ Active(l, e) => d = e
         /\ \A e : Active(l, e) => e \in Of(l, "request")
<1>1. \A e : e \in ActiveEpochs(l, c) => Active(l, e)
  <2>1. \A e : e \in ActiveEpochs(l, c) => Started(l, e) /\ ~IsClosed(l, e)
    BY ActiveIsOpen DEF Started
  <2> QED
    BY <2>1, ActiveIsOpen
<1>2. ASSUME NEW e, Active(l, e) PROVE e \in ActiveEpochs(l, c) /\ e \in Of(l, "request")
  <2>1. Started(l, e) /\ ~IsClosed(l, e)
    BY <1>2, ActiveIsOpen
  <2>2. PICK d \in Consumers, n \in Of(l, "start") : l[n].consumer = d /\ l[n].epoch = e
    BY <2>1, StartedByRequest
  <2>3. d = c
    BY DEF Alone
  <2>4. e \in ActiveEpochs(l, c)
    BY <2>1, <2>2, <2>3, ActiveIsOpen
  <2> QED
    BY <2>1, <2>4, StartedByRequest
<1> QED
  BY <1>1, <1>2 DEF LogInv, OneEpoch

\* An epoch that is open behind one more event was open, or that event started
\* it.
LEMMA OpenedBy ==
  ASSUME NEW l, LogInv(l), NEW event, Admitted(l, event), NEW e, Active(Append(l, event), e)
  PROVE  \/ Active(l, e)
         \/ event.type = "start" /\ event.epoch = e /\ Len(l) = e /\ LegalStart(l, event)
<1>1. IsLog(l)
  BY DEF LogInv
<1>2. Started(Append(l, event), e) /\ ~IsClosed(Append(l, event), e)
  BY ActiveIsOpen
<1>3. ~IsClosed(l, e)
  BY <1>1, <1>2, StartedAppended
<1>4. CASE Started(l, e)
  BY <1>3, <1>4, ActiveIsOpen
<1>5. CASE ~Started(l, e)
  <2>1. event.type = "start" /\ event.epoch = e
    BY <1>1, <1>2, <1>5, StartedAppended
  <2>2. LegalStart(l, event)
    BY <2>1, ExternalTypes DEF Admitted, Outputs, Closings, Findings
  <2> QED
    BY <2>1, <2>2 DEF LegalStart
<1> QED
  BY <1>4, <1>5

LEMMA QuestionsKept ==
  ASSUME NEW l, IsLog(l), NEW event, NEW e \in DOMAIN l
  PROVE  Questions(Append(l, event), e) = Questions(l, e)
<1>1. e \in 0..Len(l) /\ Append(l, event)[e] = l[e]
  BY Appended
<1>2. SubSeq(Append(l, event), 1, e) = SubSeq(l, 1, e)
  BY <1>1, CutIsKept
<1> QED
  BY <1>1, <1>2 DEF Questions

\* What an epoch has recorded when one more event is.
LEMMA RecordsKept ==
  ASSUME NEW l, IsLog(l), NEW event
  PROVE  /\ \A e : ActivitiesOf(l, e) \subseteq ActivitiesOf(Append(l, event), e)
         /\ \A e : EstimatesOf(l, e) \subseteq EstimatesOf(Append(l, event), e)
         /\ \A e, S : Done(l, e, S) => Done(Append(l, event), e, S)
         /\ event.type = "activity" =>
              event.inquiry \in ActivitiesOf(Append(l, event), event.epoch)
         /\ event.type = "voc" =>
              event.inquiry \in EstimatesOf(Append(l, event), event.epoch)
<1> DEFINE m == Append(l, event)
<1>1. /\ Len(l) \in Nat /\ DOMAIN l = 1..Len(l) /\ DOMAIN m = 1..(Len(l) + 1)
      /\ \A n \in DOMAIN l : m[n] = l[n]
      /\ m[Len(l) + 1] = event
  BY Appended
<1> HIDE DEF m
<1>2. \A e : ActivitiesOf(l, e) \subseteq ActivitiesOf(m, e)
  BY <1>1 DEF ActivitiesOf, Of
<1>3. \A e : EstimatesOf(l, e) \subseteq EstimatesOf(m, e)
  BY <1>1 DEF EstimatesOf, Of
<1>4. \A e, S : Done(l, e, S) => Done(m, e, S)
  BY <1>2, <1>3 DEF Done
<1>5. Len(l) + 1 \in DOMAIN m
  BY <1>1
<1>6. event.type = "activity" => event.inquiry \in ActivitiesOf(m, event.epoch)
  BY <1>1, <1>5 DEF ActivitiesOf, Of
<1>7. event.type = "voc" => event.inquiry \in EstimatesOf(m, event.epoch)
  BY <1>1, <1>5 DEF EstimatesOf, Of
<1> QED
  BY <1>2, <1>3, <1>4, <1>6, <1>7 DEF m

-----------------------------------------------------------------------------
\* The detectors.

LEMMA FiniteCut ==
  ASSUME NEW l, IsLog(l), NEW e \in DOMAIN l
  PROVE  LET cut == SubSeq(l, 1, e)
         IN /\ IsLog(cut) /\ DOMAIN cut = 1..e /\ \A n \in 1..e : cut[n] = l[n]
            /\ e \in Nat /\ 1..e \subseteq DOMAIN l
            /\ \A type : Of(cut, type) \subseteq 1..e
<1>1. /\ Len(l) \in Nat /\ DOMAIN l = 1..Len(l)
  BY Appended
<1>2. e \in 0..Len(l) /\ e \in Nat /\ 1..e \subseteq DOMAIN l
  BY <1>1
<1>3. LET cut == SubSeq(l, 1, e)
      IN IsLog(cut) /\ DOMAIN cut = 1..e /\ \A n \in 1..e : cut[n] = l[n]
  BY <1>2, WholeCut
<1> QED
  BY <1>2, <1>3 DEF Of

\* Every question is about a topic, for current intents, and cites events of the
\* cut.
Sound(i, e) == i.topic \in Topics /\ i.evidence # {} /\ i.evidence \subseteq 1..e

LEMMA DetectedIsSound ==
  ASSUME NEW l, LogInv(l), NEW e \in DOMAIN l, NEW at, NEW i \in Detect(SubSeq(l, 1, e), at)
  PROVE  Sound(i, e) /\ i.refs # {}
<1> DEFINE cut == SubSeq(l, 1, e)
<1>1. /\ DOMAIN cut = 1..e /\ \A type : Of(cut, type) \subseteq 1..e
      /\ \A n \in 1..e : cut[n] = l[n] /\ n \in DOMAIN l
  BY FiniteCut DEF LogInv
<1>2. \A n \in 1..e : cut[n].type \in Findings => cut[n].topic \in Topics
  <2>1. \A n \in DOMAIN l : l[n].type \in Findings => IsExternal(l[n])
    BY DEF LogInv, EventInv, Outputs, Closings, Findings
  <2> QED
    BY <2>1, <1>1 DEF IsExternal, Findings
<1> HIDE DEF cut
<1>3. \A type, topic : About(cut, type, topic) \subseteq Of(cut, type)
  BY DEF About
<1>4. \A type \in Findings : \A n \in Of(cut, type) :
        /\ cut[n].topic \in Topics /\ n \in About(cut, type, cut[n].topic)
        /\ About(cut, type, cut[n].topic) \subseteq 1..e
  BY <1>1, <1>2, <1>3 DEF Of, About
<1>5. CASE i \in RoadmapHealthCandidates(cut)
  <2>1. PICK n \in Of(cut, "roadmap") :
          i = Candidate(cut[n].topic, {cut[n].governs},
                Of(cut, "goal") \cup About(cut, "roadmap", cut[n].topic))
    BY <1>5 DEF RoadmapHealthCandidates
  <2>2. /\ i.topic = cut[n].topic /\ i.refs = {cut[n].governs}
        /\ i.evidence = Of(cut, "goal") \cup About(cut, "roadmap", cut[n].topic)
    BY <2>1 DEF Candidate
  <2> QED
    BY <2>2, <1>1, <1>4 DEF Sound, Findings
<1>6. CASE i \in CommitmentGapCandidates(cut)
  <2>1. PICK n \in Of(cut, "commitment") :
          /\ i = Candidate(cut[n].topic, RefsForSubject(cut), About(cut, "commitment", cut[n].topic))
          /\ RefsForSubject(cut) # {}
    BY <1>6 DEF CommitmentGapCandidates
  <2>2. /\ i.topic = cut[n].topic /\ i.refs = RefsForSubject(cut)
        /\ i.evidence = About(cut, "commitment", cut[n].topic)
    BY <2>1 DEF Candidate
  <2> QED
    BY <2>1, <2>2, <1>4 DEF Sound, Findings
<1>7. CASE i \in BeliefHygieneCandidates(cut, at)
  <2> DEFINE Doubts(topic) == {n \in About(cut, "assertion", topic) : Doubtful(cut, n, at)}
  <2>1. PICK n \in Of(cut, "assertion") :
          /\ i = Candidate(cut[n].topic, RefsForSubject(cut), Doubts(cut[n].topic))
          /\ RefsForSubject(cut) # {} /\ Doubtful(cut, n, at)
    BY <1>7 DEF BeliefHygieneCandidates
  <2>2. /\ i.topic = cut[n].topic /\ i.refs = RefsForSubject(cut)
        /\ i.evidence = Doubts(cut[n].topic)
    BY <2>1 DEF Candidate
  <2>3. n \in Doubts(cut[n].topic) /\ Doubts(cut[n].topic) \subseteq 1..e /\ cut[n].topic \in Topics
    BY <2>1, <1>4 DEF Findings
  <2> QED
    BY <2>1, <2>2, <2>3 DEF Sound
<1>8. CASE i \in NoveltyCandidates(cut, at)
  <2>1. PICK n \in Of(cut, "signal") :
          /\ i = Candidate(cut[n].topic, RefsForSubject(cut), {n})
          /\ RefsForSubject(cut) # {}
    BY <1>8 DEF NoveltyCandidates
  <2>2. i.topic = cut[n].topic /\ i.refs = RefsForSubject(cut) /\ i.evidence = {n}
    BY <2>1 DEF Candidate
  <2> QED
    BY <2>1, <2>2, <1>1, <1>4 DEF Sound, Findings
<1>9. CASE i \in CalibrationCandidates(cut)
  <2>1. PICK n \in Of(cut, "calibration") :
          i = Candidate(cut[n].topic, cut[n].refs, {n}) /\ IntentsAreCurrent(cut, cut[n].refs)
    BY <1>9 DEF CalibrationCandidates
  <2>2. i.topic = cut[n].topic /\ i.refs = cut[n].refs /\ i.evidence = {n}
    BY <2>1 DEF Candidate
  <2> QED
    BY <2>1, <2>2, <1>1, <1>4 DEF Sound, Findings, IntentsAreCurrent
<1>10. i \in Detect(cut, at)
  BY DEF cut
<1> QED
  BY <1>5, <1>6, <1>7, <1>8, <1>9, <1>10 DEF Detect

\* A set that has an element for each of finitely many events, at most, is finite.
LEMMA FinitelyMany ==
  ASSUME NEW e \in Nat, NEW f, DOMAIN f = 1..e, NEW S, \A i \in S : \E n \in 1..e : i = f[n]
  PROVE  IsFiniteSet(S)
<1> DEFINE N == {n \in 1..e : f[n] \in S}
           g == [n \in N |-> f[n]]
<1>1. IsFiniteSet(1..e)
  BY FS_Interval
<1>2. IsFiniteSet(N)
  BY <1>1, FS_Subset
<1>3. g \in [N -> S] /\ \A i \in S : \E n \in N : g[n] = i
  OBVIOUS
<1>4. g \in Surjection(N, S)
  BY <1>3 DEF Surjection
<1> HIDE DEF g, N
<1> QED
  BY <1>2, <1>4, FS_Surjection

LEMMA DetectedIsFinite ==
  ASSUME NEW l, IsLog(l), NEW e \in DOMAIN l, NEW at
  PROVE  IsFiniteSet(Detect(SubSeq(l, 1, e), at))
<1> DEFINE cut == SubSeq(l, 1, e)
<1>1. e \in Nat /\ \A type : Of(cut, type) \subseteq 1..e
  BY FiniteCut
<1> HIDE DEF cut
<1>2. IsFiniteSet(RoadmapHealthCandidates(cut))
  <2> DEFINE f == [n \in 1..e |-> Candidate(cut[n].topic, {cut[n].governs},
                     Of(cut, "goal") \cup About(cut, "roadmap", cut[n].topic))]
  <2>1. \A i \in RoadmapHealthCandidates(cut) : \E n \in 1..e : i = f[n]
    BY <1>1 DEF RoadmapHealthCandidates
  <2>2. DOMAIN f = 1..e
    OBVIOUS
  <2> HIDE DEF f
  <2> QED
    BY <2>1, <2>2, <1>1, FinitelyMany
<1>3. IsFiniteSet(CommitmentGapCandidates(cut))
  <2> DEFINE f == [n \in 1..e |-> Candidate(cut[n].topic, RefsForSubject(cut),
                     About(cut, "commitment", cut[n].topic))]
  <2>1. \A i \in CommitmentGapCandidates(cut) : \E n \in 1..e : i = f[n]
    BY <1>1 DEF CommitmentGapCandidates
  <2>2. DOMAIN f = 1..e
    OBVIOUS
  <2> HIDE DEF f
  <2> QED
    BY <2>1, <2>2, <1>1, FinitelyMany
<1>4. IsFiniteSet(BeliefHygieneCandidates(cut, at))
  <2> DEFINE f == [n \in 1..e |-> Candidate(cut[n].topic, RefsForSubject(cut),
                     {k \in About(cut, "assertion", cut[n].topic) : Doubtful(cut, k, at)})]
  <2>1. \A i \in BeliefHygieneCandidates(cut, at) : \E n \in 1..e : i = f[n]
    BY <1>1 DEF BeliefHygieneCandidates
  <2>2. DOMAIN f = 1..e
    OBVIOUS
  <2> HIDE DEF f
  <2> QED
    BY <2>1, <2>2, <1>1, FinitelyMany
<1>5. IsFiniteSet(NoveltyCandidates(cut, at))
  <2> DEFINE f == [n \in 1..e |-> Candidate(cut[n].topic, RefsForSubject(cut), {n})]
  <2>1. \A i \in NoveltyCandidates(cut, at) : \E n \in 1..e : i = f[n]
    BY <1>1 DEF NoveltyCandidates
  <2>2. DOMAIN f = 1..e
    OBVIOUS
  <2> HIDE DEF f
  <2> QED
    BY <2>1, <2>2, <1>1, FinitelyMany
<1>6. IsFiniteSet(CalibrationCandidates(cut))
  <2> DEFINE f == [n \in 1..e |-> Candidate(cut[n].topic, cut[n].refs, {n})]
  <2>1. \A i \in CalibrationCandidates(cut) : \E n \in 1..e : i = f[n]
    BY <1>1 DEF CalibrationCandidates
  <2>2. DOMAIN f = 1..e
    OBVIOUS
  <2> HIDE DEF f
  <2> QED
    BY <2>1, <2>2, <1>1, FinitelyMany
<1> QED
  BY <1>2, <1>3, <1>4, <1>5, <1>6, FS_Union DEF Detect, cut

\* So the policy can rank the questions of an epoch.
LEMMA QuestionsAreRanked ==
  ASSUME NEW l, LogInv(l), NEW e \in DOMAIN l
  PROVE  /\ Ranked(Questions(l, e))
         /\ \A i \in Questions(l, e) :
              i.refs # {} /\ i.evidence # {} /\ i.evidence \subseteq DOMAIN l
<1> DEFINE D == Detect(SubSeq(l, 1, e), l[e].at)
<1>0. IsLog(l)
  BY DEF LogInv
<1>1. IsFiniteSet(D)
  BY <1>0, DetectedIsFinite
<1>2. \A i \in D : Sound(i, e) /\ i.refs # {}
  BY DetectedIsSound
<1>3. e \in Nat /\ 1..e \subseteq DOMAIN l
  BY <1>0, FiniteCut
<1>4. Questions(l, e) \subseteq D
  BY DEF Questions
<1> HIDE DEF D
<1>5. IsFiniteSet(Questions(l, e))
  BY <1>1, <1>4, FS_Subset
<1>6. ASSUME NEW i \in D PROVE IsRanked(i)
  <2>1. i.evidence \in SUBSET (1..e) /\ i.evidence # {} /\ i.topic \in Topics
    BY <1>2 DEF Sound
  <2>2. Max(i.evidence) \in i.evidence
    BY <2>1, <1>3, GreatestSequence
  <2> QED
    BY <2>1, <2>2 DEF IsRanked
<1> QED
  BY <1>2, <1>3, <1>4, <1>5, <1>6 DEF Ranked, Sound

-----------------------------------------------------------------------------
\* What the worker appends is what the projection accepts, and asks, answers and
\* decides on the questions of its epoch.

Permitted(l, event) ==
  /\ Admitted(l, event) /\ Legal(l, event)
  /\ event.type = "inquiry" => event.inquiry \in Questions(l, event.epoch)
  /\ event.type = "agenda" =>
       /\ event = AgendaEvent(event.epoch, event.agenda)
       /\ ActivitiesOf(l, event.epoch) = Questions(l, event.epoch)

LEMMA Legally ==
  ASSUME NEW l, NEW event, Permitted(l, event)
  PROVE  /\ event.type = "start" => LegalStart(l, event)
         /\ event.type = "inquiry" => LegalInquiry(l, event)
         /\ event.type = "activity" => LegalActivity(l, event)
         /\ event.type = "voc" => LegalEstimate(l, event)
         /\ event.type = "agenda" => LegalAgenda(l, event)
BY DEF Permitted, Legal

\* What was asked stays asked, and the epoch of what is asked next is the one
\* that is open.
LEMMA AskedKept ==
  ASSUME Alone, NEW l, LogInv(l), Asked(l), NEW event, Permitted(l, event)
  PROVE  Asked(Append(l, event))
<1> DEFINE m == Append(l, event)
           Ask(x, n) == /\ x[n].epoch \in Of(x, "request") /\ x[n].epoch < n
                        /\ x[n].inquiry \in Questions(x, x[n].epoch)
<1>1. /\ Len(l) \in Nat /\ DOMAIN l = 1..Len(l) /\ DOMAIN m = 1..(Len(l) + 1)
      /\ \A n \in DOMAIN l : m[n] = l[n]
      /\ m[Len(l) + 1] = event
  BY Appended DEF LogInv
<1>2. IsLog(l) /\ Admitted(l, event)
  BY DEF LogInv, Permitted
<1>3. /\ \A n \in Of(l, "inquiry") : Ask(l, n)
      /\ \A k, n \in Of(l, "inquiry") : l[k].inquiry = l[n].inquiry => k = n
      /\ \A c \in Consumers : \A e \in ActiveEpochs(l, c) : \A n \in Of(l, "inquiry") :
           n > e => l[n].epoch = e
  BY DEF Asked
<1>4. \A e \in Of(l, "request") : Questions(m, e) = Questions(l, e) /\ e \in Of(m, "request")
  BY <1>1, <1>2, QuestionsKept DEF Of
<1> HIDE DEF m
<1>5. \A n \in Of(m, "inquiry") :
        \/ n \in Of(l, "inquiry") /\ m[n] = l[n]
        \/ n = Len(l) + 1 /\ m[n] = event /\ event.type = "inquiry"
  BY <1>1 DEF Of
<1>6. event.type = "inquiry" =>
        /\ Active(l, event.epoch) /\ event.inquiry \notin Inquiries(l)
        /\ event.inquiry \in Questions(l, event.epoch)
        /\ event.epoch \in Of(l, "request")
  <2>1. \A e : Active(l, e) => e \in Of(l, "request")
    BY StartedByRequest, ActiveIsOpen
  <2> QED
    BY <2>1, Legally DEF LegalInquiry, Permitted
<1>7. \A n \in Of(m, "inquiry") : Ask(m, n)
  <2>1. \A n \in Of(l, "inquiry") : m[n] = l[n] => Ask(m, n)
    BY <1>3, <1>4
  <2>2. event.type = "inquiry" => event.epoch < Len(l) + 1
    BY <1>1, <1>6 DEF Of
  <2>3. \A n : m[n] = event /\ n = Len(l) + 1 /\ event.type = "inquiry" => Ask(m, n)
    BY <1>4, <1>6, <2>2
  <2> QED
    BY <2>1, <2>3, <1>5
<1>8. \A k, n \in Of(m, "inquiry") : m[k].inquiry = m[n].inquiry => k = n
  <2>1. \A k \in Of(l, "inquiry") : event.type = "inquiry" => l[k].inquiry # event.inquiry
    BY <1>6 DEF Inquiries
  <2> QED
    BY <2>1, <1>3, <1>5
<1>9. ASSUME NEW c \in Consumers, NEW e \in ActiveEpochs(m, c), NEW n \in Of(m, "inquiry"), n > e
      PROVE  m[n].epoch = e
  <2>1. LogInv(m)
    BY <1>2, LogInvKept DEF m
  <2>2. Active(m, e)
    BY <2>1, OpenEpochs
  <2>3. CASE Active(l, e)
    <3>1. e \in ActiveEpochs(l, c)
      BY <2>3, OpenEpochs
    <3>2. CASE n \in Of(l, "inquiry") /\ m[n] = l[n]
      BY <3>1, <3>2, <1>3, <1>9
    <3>3. CASE m[n] = event /\ event.type = "inquiry"
      BY <3>3, <1>6, <2>3, OpenEpochs
    <3> QED
      BY <3>2, <3>3, <1>5
  <2>4. CASE event.type = "start" /\ Len(l) = e
    <3>1. n \in Of(l, "inquiry")
      BY <1>5, <2>4
    <3> QED
      BY <3>1, <2>4, <1>1, <1>9 DEF Of
  <2> QED
    BY <1>2, <2>2, <2>3, <2>4, OpenedBy DEF m
<1> QED
  BY <1>7, <1>8, <1>9 DEF Asked, m

\* An answer belongs to an inquiry that its epoch has asked; an agenda is of what
\* its epoch has answered, which is all it asks.
LEMMA AnsweredKept ==
  ASSUME Alone, NEW l, LogInv(l), Asked(l), Answered(l), NEW event, Permitted(l, event)
  PROVE  Answered(Append(l, event))
<1> DEFINE m == Append(l, event)
<1>1. /\ Len(l) \in Nat /\ DOMAIN l = 1..Len(l) /\ DOMAIN m = 1..(Len(l) + 1)
      /\ \A n \in DOMAIN l : m[n] = l[n]
      /\ m[Len(l) + 1] = event
  BY Appended DEF LogInv
<1>2. IsLog(l) /\ Admitted(l, event)
  BY DEF LogInv, Permitted
<1>3. /\ \A n \in Of(l, "activity") : \E k \in Of(l, "inquiry") :
           l[k].epoch = l[n].epoch /\ l[k].inquiry = l[n].inquiry
      /\ \A n \in Of(l, "voc") : l[n].inquiry \in ActivitiesOf(l, l[n].epoch)
      /\ \A n \in Of(l, "agenda") :
           /\ l[n].epoch \in Of(l, "request")
           /\ l[n] = AgendaEvent(l[n].epoch, l[n].agenda)
           /\ l[n].agenda = SelectAgenda(Questions(l, l[n].epoch))
           /\ Questions(l, l[n].epoch) \subseteq ActivitiesOf(l, l[n].epoch)
  BY DEF Answered
<1>4. \A e \in Of(l, "request") : Questions(m, e) = Questions(l, e) /\ e \in Of(m, "request")
  BY <1>1, <1>2, QuestionsKept DEF Of
<1>5. \A e : ActivitiesOf(l, e) \subseteq ActivitiesOf(m, e)
  BY <1>2, RecordsKept
<1> HIDE DEF m
<1>6. \A type : \A n \in Of(m, type) :
        \/ n \in Of(l, type) /\ m[n] = l[n]
        \/ n = Len(l) + 1 /\ m[n] = event /\ event.type = type
  BY <1>1 DEF Of
<1>7. \A n \in Of(l, "inquiry") : n \in Of(m, "inquiry") /\ m[n] = l[n]
  BY <1>1 DEF Of
<1>8. \A n \in Of(m, "activity") : \E k \in Of(m, "inquiry") :
        m[k].epoch = m[n].epoch /\ m[k].inquiry = m[n].inquiry
  <2>1. event.type = "activity" => \E k \in Of(l, "inquiry") :
          l[k].epoch = event.epoch /\ l[k].inquiry = event.inquiry
    <3>1. event.type = "activity" =>
            event.inquiry \in Inquiries(l) /\ CursorOf(l, event.inquiry) = event.epoch
      BY Legally DEF LegalActivity
    <3>2. event.inquiry \in Inquiries(l) => \E k \in Of(l, "inquiry") :
            l[k].epoch = CursorOf(l, event.inquiry) /\ l[k].inquiry = event.inquiry
      <4> DEFINE k == CHOOSE n \in Of(l, "inquiry") : l[n].inquiry = event.inquiry
      <4>1. event.inquiry \in Inquiries(l) => k \in Of(l, "inquiry") /\ l[k].inquiry = event.inquiry
        BY DEF Inquiries
      <4>2. CursorOf(l, event.inquiry) = l[k].epoch
        BY DEF CursorOf
      <4> QED
        BY <4>1, <4>2
    <3> QED
      BY <3>1, <3>2
  <2> QED
    BY <2>1, <1>3, <1>6, <1>7
<1>9. \A n \in Of(m, "voc") : m[n].inquiry \in ActivitiesOf(m, m[n].epoch)
  <2>1. event.type = "voc" => event.inquiry \in ActivitiesOf(l, event.epoch)
    BY Legally DEF LegalEstimate
  <2> QED
    BY <2>1, <1>3, <1>5, <1>6
<1>10. \A n \in Of(m, "agenda") :
         /\ m[n].epoch \in Of(m, "request")
         /\ m[n] = AgendaEvent(m[n].epoch, m[n].agenda)
         /\ m[n].agenda = SelectAgenda(Questions(m, m[n].epoch))
         /\ Questions(m, m[n].epoch) \subseteq ActivitiesOf(m, m[n].epoch)
  <2>1. event.type = "agenda" =>
          /\ event.epoch \in Of(l, "request")
          /\ event = AgendaEvent(event.epoch, event.agenda)
          /\ event.agenda = SelectAgenda(Questions(l, event.epoch))
          /\ ActivitiesOf(l, event.epoch) = Questions(l, event.epoch)
    <3>1. \A e : Active(l, e) => e \in Of(l, "request")
      BY StartedByRequest, ActiveIsOpen
    <3> QED
      BY <3>1, Legally DEF LegalAgenda, Permitted
  <2> QED
    BY <2>1, <1>3, <1>4, <1>5, <1>6
<1> QED
  BY <1>8, <1>9, <1>10 DEF Answered, m

\* What a scan holds is not taken from it: its epoch was open before, or starts
\* at the cut that it has read.
LEMMA ThoughtKept ==
  ASSUME NEW l, LogInv(l), NEW event, Admitted(l, event), NEW k,
         k.pc \in Scanning => k.at \in Of(l, "request"), Thought(l, k)
  PROVE  Thought(Append(l, event), k)
<1> DEFINE m == Append(l, event)
           e == k.at
           Q == Questions(l, e)
           i == NextOf(k.cands)
           asked(x) == \E n \in Of(x, "inquiry") : x[n].epoch = e /\ x[n].inquiry = i
<1>1. CASE k.pc \notin Scanning
  BY <1>1 DEF Thought, Scanning
<1>2. CASE k.pc \in Scanning
  <2>1. e \in DOMAIN l /\ IsLog(l) /\ DOMAIN l = 1..Len(l) /\ Len(l) \in Nat /\ Len(m) = Len(l) + 1
    BY <1>2, Appended DEF LogInv, Of
  <2>2. Questions(m, e) = Q
    BY <2>1, QuestionsKept
  <2>3. Started(l, e) => Started(m, e)
    BY <2>1, StartedAppended
  <2>4. Active(m, e) => \/ Active(l, e)
                        \/ ~Started(l, e) /\ Len(l) = e
    BY OpenedBy DEF LegalStart
  <2>5. Len(m) # e
    BY <2>1
  <2>6. \A S : Done(l, e, S) => Done(m, e, S)
    BY <2>1, RecordsKept
  <2>7. i \in ActivitiesOf(l, e) => i \in ActivitiesOf(m, e)
    BY <2>1, RecordsKept
  <2>8. asked(l) => asked(m)
    BY <2>1, Appended DEF Of
  <2> HIDE DEF m, e, Q, i
  <2>9. /\ k.pc \in {"abandon", "reobserve"} /\ k.resumed => Started(l, e)
        /\ k.pc = "start" => k.cands # {} /\ k.stage = 1 /\ (Active(l, e) \/ Len(l) = e => k.cands = Q)
        /\ k.pc \in {"output", "select", "agenda"} => Started(l, e)
        /\ k.pc = "output" /\ Active(l, e) =>
             /\ k.cands # {} /\ k.cands \subseteq Q /\ Done(l, e, Q \ k.cands)
             /\ k.stage > 1 => asked(l)
             /\ k.stage > 2 => i \in ActivitiesOf(l, e)
        /\ k.pc \in {"select", "agenda"} /\ Active(l, e) => Done(l, e, Q)
        /\ k.pc = "agenda" /\ Active(l, e) =>
             Q # {} /\ k.agenda = SelectAgenda(Q) /\ k.refs = RefsOf(Q)
    BY DEF Thought, e, Q, i
  <2> HIDE DEF asked
  <2>10. /\ k.pc \in {"abandon", "reobserve"} /\ k.resumed => Started(m, e)
         /\ k.pc = "start" => k.cands # {} /\ k.stage = 1 /\ (Active(m, e) \/ Len(m) = e => k.cands = Q)
         /\ k.pc \in {"output", "select", "agenda"} => Started(m, e)
    BY <2>3, <2>4, <2>5, <2>9
  <2>11. k.pc = "output" /\ Active(m, e) =>
             /\ k.cands # {} /\ k.cands \subseteq Q /\ Done(m, e, Q \ k.cands)
             /\ k.stage > 1 => asked(m)
             /\ k.stage > 2 => i \in ActivitiesOf(m, e)
    BY <2>4, <2>6, <2>7, <2>8, <2>9
  <2>12. /\ k.pc \in {"select", "agenda"} /\ Active(m, e) => Done(m, e, Q)
         /\ k.pc = "agenda" /\ Active(m, e) =>
              Q # {} /\ k.agenda = SelectAgenda(Q) /\ k.refs = RefsOf(Q)
    BY <2>4, <2>6, <2>9
  <2> QED
    BY <2>2, <2>10, <2>11, <2>12 DEF Thought, e, i, asked, m
<1> QED
  BY <1>1, <1>2

\* The log, as far as it says what the worker thinks, and how it goes on.
Mind(l) == LogInv(l) /\ Asked(l) /\ Answered(l)
Continues(l, m) == m = l \/ \E event : Permitted(l, event) /\ m = Append(l, event)
Holds(l, k) == (k.pc \in Scanning => k.at \in Of(l, "request")) /\ Thought(l, k)

LEMMA MindKept ==
  ASSUME Alone, NEW l, Mind(l), NEW m, Continues(l, m)
  PROVE  Mind(m) /\ \A k : Holds(l, k) => Holds(m, k)
<1>1. CASE m = l
  BY <1>1
<1>2. ASSUME NEW event, Permitted(l, event), m = Append(l, event)
      PROVE  Mind(m) /\ \A k : Holds(l, k) => Holds(m, k)
  <2>1. Admitted(l, event) /\ LogInv(l) /\ IsLog(l)
    BY <1>2 DEF Permitted, Mind, LogInv
  <2>2. Mind(m)
    BY <1>2, <2>1, LogInvKept, AskedKept, AnsweredKept DEF Mind
  <2>3. Of(l, "request") \subseteq Of(m, "request")
    BY <1>2, <2>1, GrowsByOne, GrownOf
  <2>4. ASSUME NEW k, Holds(l, k) PROVE Holds(m, k)
    <3>1. Thought(m, k)
      BY <1>2, <2>1, <2>4, ThoughtKept DEF Holds
    <3> QED
      BY <3>1, <2>3, <2>4 DEF Holds
  <2> QED
    BY <2>2, <2>4
<1> QED
  BY <1>1, <1>2 DEF Continues

JInv == IInv /\ Mind(log) /\ \A c \in Consumers : \A t \in Tasks : Holds(log, task[c][t])

\* A step that goes on, or does so twice, and what it leaves to the task that took
\* it.
Thinks == \E l : Continues(log, l) /\ Continues(l, log')

LEMMA TwiceKept ==
  ASSUME Alone, Mind(log), Thinks
  PROVE  Mind(log') /\ \A k : Holds(log, k) => Holds(log', k)
<1>1. PICK l : Continues(log, l) /\ Continues(l, log')
  BY DEF Thinks
<1>2. Mind(l) /\ \A k : Holds(log, k) => Holds(l, k)
  BY <1>1, MindKept
<1>3. Mind(log') /\ \A k : Holds(l, k) => Holds(log', k)
  BY <1>1, <1>2, MindKept
<1> QED
  BY <1>2, <1>3

LEMMA OnceThinks ==
  ASSUME Continues(log, log')
  PROVE  Thinks
BY DEF Thinks, Continues

LEMMA ThinkingKeeps ==
  ASSUME Alone, JInv, IInv', Thinks, NEW c \in Consumers, NEW t \in Tasks, NEW next,
         Step(c, t, next), Holds(log', next)
  PROVE  JInv'
<1>1. Mind(log') /\ \A k : Holds(log, k) => Holds(log', k)
  BY TwiceKept DEF JInv
<1>2. \A d \in Consumers, u \in Tasks : task'[d][u] = IF d = c /\ u = t THEN next ELSE task[d][u]
  BY DEF Step, JInv, IInv, TasksInv
<1>3. \A d \in Consumers, u \in Tasks : Holds(log, task[d][u])
  BY DEF JInv
<1>4. \A d \in Consumers, u \in Tasks : Holds(log', task'[d][u])
  BY <1>1, <1>2, <1>3
<1> QED
  BY <1>1, <1>4 DEF JInv

\* A step that leaves the tasks alone, or puts them away.
LEMMA AsideKeeps ==
  ASSUME Alone, JInv, IInv', Thinks,
         \A c \in Consumers, t \in Tasks : task'[c][t] = task[c][t] \/ task'[c][t].pc = "idle"
  PROVE  JInv'
<1>1. Mind(log') /\ \A k : Holds(log, k) => Holds(log', k)
  BY TwiceKept DEF JInv
<1>2. \A k : k.pc = "idle" => Holds(log', k)
  BY DEF Holds, Thought, Scanning
<1>3. \A d \in Consumers, u \in Tasks : Holds(log, task[d][u])
  BY DEF JInv
<1>4. \A d \in Consumers, u \in Tasks : Holds(log', task'[d][u])
  BY <1>1, <1>2, <1>3
<1> QED
  BY <1>1, <1>4 DEF JInv

\* A task that does not scan, or only observes or closes, holds nothing.
LEMMA EmptyHanded ==
  ASSUME NEW l, NEW k, k.pc \in {"observe", "expire", "finish"} => k.at \in Of(l, "request"),
         k.pc \notin {"abandon", "reobserve", "start", "output", "select", "agenda"}
  PROVE  Holds(l, k)
BY DEF Holds, Thought, Scanning

-----------------------------------------------------------------------------
\* The step, as the projection will read it.

LEMMA StepIsLegal ==
  ASSUME IsLog(log), Thinks
  PROVE  \A n \in (Len(log) + 1)..Len(log') : Legal(SubSeq(log', 1, n - 1), log'[n])
<1>1. PICK l : Continues(log, l) /\ Continues(l, log')
  BY DEF Thinks
<1>2. \A x, event : IsLog(x) =>
        /\ IsLog(Append(x, event)) /\ Len(x) \in Nat /\ Len(Append(x, event)) = Len(x) + 1
        /\ Append(x, event)[Len(x) + 1] = event /\ DOMAIN x = 1..Len(x)
        /\ \A n \in DOMAIN x : Append(x, event)[n] = x[n]
  BY Appended
<1>3. \A x : IsLog(x) => SubSeq(x, 1, Len(x)) = x
  BY WholeCut
<1>4. \A x, event : \A e \in 0..Len(x) : IsLog(x) => SubSeq(Append(x, event), 1, e) = SubSeq(x, 1, e)
  BY CutIsKept
<1>5. ASSUME NEW x, IsLog(x), NEW y, Continues(x, y)
      PROVE  /\ IsLog(y) /\ Len(x) \in Nat /\ Len(y) \in Nat /\ Len(x) <= Len(y)
             /\ \A n \in (Len(x) + 1)..Len(y) : Legal(SubSeq(y, 1, n - 1), y[n])
             /\ \A n \in 1..Len(x) : y[n] = x[n] /\ SubSeq(y, 1, n - 1) = SubSeq(x, 1, n - 1)
  <2>1. CASE y = x
    <3>1. Len(x) \in Nat
      BY <1>2, <1>5
    <3> QED
      BY <1>5, <2>1, <3>1
  <2>2. ASSUME NEW event, Permitted(x, event), y = Append(x, event)
        PROVE  /\ IsLog(y) /\ Len(x) \in Nat /\ Len(y) \in Nat /\ Len(x) <= Len(y)
               /\ \A n \in (Len(x) + 1)..Len(y) : Legal(SubSeq(y, 1, n - 1), y[n])
               /\ \A n \in 1..Len(x) : y[n] = x[n] /\ SubSeq(y, 1, n - 1) = SubSeq(x, 1, n - 1)
    <3>1. /\ IsLog(y) /\ Len(x) \in Nat /\ Len(y) = Len(x) + 1 /\ y[Len(x) + 1] = event
          /\ \A n \in 1..Len(x) : y[n] = x[n]
      BY <1>2, <1>5, <2>2
    <3>2. \A e \in 0..Len(x) : SubSeq(y, 1, e) = SubSeq(x, 1, e)
      BY <1>4, <1>5, <2>2
    <3>3. SubSeq(y, 1, Len(x)) = x
      BY <1>3, <1>5, <3>1, <3>2
    <3>4. Legal(x, event)
      BY <2>2 DEF Permitted
    <3>5. \A n \in (Len(x) + 1)..Len(y) : Legal(SubSeq(y, 1, n - 1), y[n])
      <4>1. \A n \in (Len(x) + 1)..Len(y) : n = Len(x) + 1 /\ n - 1 = Len(x)
        BY <3>1
      <4> QED
        BY <4>1, <3>1, <3>3, <3>4
    <3>6. \A n \in 1..Len(x) : SubSeq(y, 1, n - 1) = SubSeq(x, 1, n - 1)
      <4>1. \A n \in 1..Len(x) : n - 1 \in 0..Len(x)
        BY <3>1
      <4> QED
        BY <4>1, <3>2
    <3> QED
      BY <3>1, <3>5, <3>6
  <2> QED
    BY <1>5, <2>1, <2>2 DEF Continues
<1>6. /\ IsLog(l) /\ Len(log) \in Nat /\ Len(l) \in Nat /\ Len(log) <= Len(l)
      /\ \A n \in (Len(log) + 1)..Len(l) : Legal(SubSeq(l, 1, n - 1), l[n])
  BY <1>1, <1>5
<1>7. /\ Len(log') \in Nat /\ Len(l) <= Len(log')
      /\ \A n \in (Len(l) + 1)..Len(log') : Legal(SubSeq(log', 1, n - 1), log'[n])
      /\ \A n \in 1..Len(l) : log'[n] = l[n] /\ SubSeq(log', 1, n - 1) = SubSeq(l, 1, n - 1)
  BY <1>1, <1>5, <1>6
<1>8. ASSUME NEW n \in (Len(log) + 1)..Len(log')
      PROVE  Legal(SubSeq(log', 1, n - 1), log'[n])
  <2>1. CASE n <= Len(l)
    <3>1. n \in (Len(log) + 1)..Len(l) /\ n \in 1..Len(l)
      BY <1>6, <1>7, <2>1
    <3> QED
      BY <1>6, <1>7, <3>1
  <2>2. CASE n > Len(l)
    BY <1>6, <1>7, <2>2
  <2> QED
    BY <1>6, <2>1, <2>2
<1> QED
  BY <1>8
-----------------------------------------------------------------------------
\* Every action goes on as it may.

\* What a scan holds is its own affair; that it scans a request is known.
LEMMA HeldByStep ==
  ASSUME Alone, JInv, IInv', Thinks, NEW c \in Consumers, NEW t \in Tasks, NEW next,
         Step(c, t, next), Thought(log', next)
  PROVE  JInv'
<1>1. task'[c][t] = next
  BY DEF Step, JInv, IInv, TasksInv
<1>2. WorkInv(log', now', c, task'[c][t])
  BY DEF IInv, TasksInv
<1>3. Holds(log', next)
  BY <1>1, <1>2 DEF Holds, WorkInv, TaskInv
<1> QED
  BY <1>3, ThinkingKeeps

LEMMA LightStep ==
  ASSUME Alone, JInv, IInv', Thinks, NEW c \in Consumers, NEW t \in Tasks, NEW next,
         Step(c, t, next),
         next.pc \notin {"abandon", "reobserve", "start", "output", "select", "agenda"}
  PROVE  JInv'
<1>1. Thought(log', next)
  BY DEF Thought
<1> QED
  BY <1>1, HeldByStep

LEMMA Moved ==
  ASSUME NEW k, DOMAIN k = Fields, NEW pc, pc \in {"settle", "expire", "finish"}
  PROVE  [k EXCEPT !.pc = pc].pc
           \notin {"abandon", "reobserve", "start", "output", "select", "agenda"}
BY DEF Fields

LEMMA Idles ==
  ASSUME NEW pc \in {"idle", "raised", "request", "backlog", "recover"}
  PROVE  /\ [IdleTask EXCEPT !.pc = pc].pc = pc
         /\ \A x : [IdleTask EXCEPT !.pc = pc, !.seen = x].pc = pc
         /\ \A x : [IdleTask EXCEPT !.pc = pc, !.todo = x].pc = pc
BY DEF IdleTask

LEMMA HeldBy ==
  ASSUME JInv, NEW c \in Consumers, NEW t \in Tasks
  PROVE  /\ Mind(log) /\ Holds(log, task[c][t]) /\ DOMAIN task[c][t] = Fields
         /\ task[c][t].stage \in 1..3 /\ task[c][t].seen \in Nat /\ now \in Nat
         /\ LogInv(log) /\ IsLog(log) /\ Len(log) \in Nat /\ DOMAIN log = 1..Len(log)
         /\ task[c][t].pc \in Scanning => task[c][t].at \in Of(log, "request")
<1>1. /\ WorkInv(log, now, c, task[c][t]) /\ now \in Nat
      /\ LogInv(log) /\ Len(log) \in Nat /\ DOMAIN log = 1..Len(log)
  BY WorkOf DEF JInv
<1>2. task[c][t].seen \in Nat
  BY <1>1 DEF WorkInv, TaskInv
<1> QED
  BY <1>1, <1>2 DEF JInv, WorkInv, TaskInv, LogInv

LEMMA SameThinks ==
  ASSUME log' = log
  PROVE  Thinks
BY OnceThinks DEF Continues

LEMMA EmitThinks ==
  ASSUME NEW event, Permitted(log, event), Emit(event)
  PROVE  Thinks
BY OnceThinks DEF Continues, Emit

\* An open epoch may be closed, by what closes it.
LEMMA ClosingIsPermitted ==
  /\ \A l, e, s : Active(l, e) /\ s \in Of(l, "foreground") /\ s > e => Permitted(l, Preemption(e, s))
  /\ \A l, e, at : Active(l, e) /\ at >= l[e].until => Permitted(l, Expiry(e, at))
  /\ \A l, e : Active(l, e) => Permitted(l, Abandonment(e))
<1>1. \A l, e, s : Active(l, e) /\ s \in Of(l, "foreground") /\ s > e => Permitted(l, Preemption(e, s))
  <2>1. \A l, e, s : Active(l, e) /\ s \in Of(l, "foreground") /\ s > e =>
                       LegalPreemption(l, Preemption(e, s))
    BY DEF LegalPreemption, Preemption
  <2>2. \A e, s : Preemption(e, s).type = "preempted"
    BY DEF Preemption
  <2> QED
    BY <2>1, <2>2, ClosingIsAdmitted DEF Permitted, Legal
<1>2. \A l, e, at : Active(l, e) /\ at >= l[e].until => Permitted(l, Expiry(e, at))
  <2>1. \A l, e, at : Active(l, e) /\ at >= l[e].until => LegalExpiry(l, Expiry(e, at))
    BY DEF LegalExpiry, Expiry
  <2>2. \A e, at : Expiry(e, at).type = "expired"
    BY DEF Expiry
  <2> QED
    BY <2>1, <2>2, ClosingIsAdmitted DEF Permitted, Legal
<1>3. \A l, e : Active(l, e) => Permitted(l, Abandonment(e))
  <2>1. \A l, e : Active(l, e) => LegalAbandonment(l, Abandonment(e))
    BY DEF LegalAbandonment, Abandonment
  <2>2. \A e : Abandonment(e).type = "abandoned"
    BY DEF Abandonment
  <2> QED
    BY <2>1, <2>2, ClosingIsAdmitted DEF Permitted, Legal
<1> QED
  BY <1>1, <1>2, <1>3

LEMMA DeadlineOf ==
  ASSUME NEW l, LogInv(l), NEW e \in Of(l, "request")
  PROVE  l[e].until \in Nat /\ l[e].at < l[e].until
<1>1. l[e].at \in Nat /\ l[e].until = l[e].at + Life
  BY ExternalTypes DEF LogInv, EventInv, Of, Outputs, Closings, Findings
<1> QED
  BY <1>1, EpochAssumption

LEMMA BeginScanThinks ==
  ASSUME Alone, JInv, NEW c \in Consumers, NEW t \in Callers, BeginScan(c, t)
  PROVE  JInv' /\ Thinks
<1> DEFINE due == {e \in ActiveEpochs(log, c) : log[e].until <= now}
           d == CHOOSE e \in due : TRUE
           next == [IdleTask EXCEPT !.pc = "request", !.seen = now]
<1>1. t \in Tasks /\ LogInv(log) /\ now \in Nat
  BY DEF Tasks, JInv, IInv
<1>2. Thinks
  <2>1. CASE due = {}
    <3>1. log' = log
      BY <2>1 DEF BeginScan
    <3> QED
      BY <3>1, SameThinks
  <2>2. CASE due # {}
    <3>1. Emit(Expiry(d, now))
      BY <2>2 DEF BeginScan
    <3>2. d \in ActiveEpochs(log, c) /\ log[d].until <= now
      BY <2>2
    <3> HIDE DEF d
    <3>3. Active(log, d) /\ d \in Of(log, "request")
      BY <1>1, <3>2, OpenEpochs
    <3>4. now >= log[d].until
      BY <1>1, <3>2, <3>3, DeadlineOf
    <3> QED
      BY <3>1, <3>3, <3>4, ClosingIsPermitted, EmitThinks
  <2> QED
    BY <2>1, <2>2
<1>3. Step(c, t, next) /\ IInv'
  BY BeginScanKeeps DEF BeginScan, JInv
<1>4. next.pc = "request"
  BY Idles
<1> HIDE DEF next
<1> QED
  BY <1>1, <1>2, <1>3, <1>4, LightStep

LEMMA RequestScanThinks ==
  ASSUME Alone, JInv, NEW c \in Consumers, NEW t \in Tasks, RequestScan(c, t)
  PROVE  JInv' /\ Thinks
<1> DEFINE request == ScanRequest(task[c][t].seen)
           at == CHOOSE n \in DOMAIN log' : log'[n] = request
           next == [task[c][t] EXCEPT !.pc = "observe", !.at = at]
<1>1. PICK l : /\ l = log \/ l = Append(log, PolicyEvent)
               /\ Recorded(l, PolicyEvent)
               /\ Admitted(l, request)
               /\ log' = IF Recorded(l, request) THEN l ELSE Append(l, request)
  BY RequestScanLog DEF JInv
<1>2. Permitted(log, PolicyEvent)
  BY DEF Permitted, PolicyEvent, Admitted, Legal
<1>3. Permitted(l, request)
  <2>1. Of(l, "policy") # {}
    BY <1>1 DEF Recorded, Of, PolicyEvent
  <2>2. request.at < request.until /\ request.type = "request"
    BY HeldBy, EpochAssumption DEF ScanRequest
  <2> HIDE DEF request
  <2>3. Legal(l, request)
    BY <2>1, <2>2 DEF Legal, LegalScan
  <2> QED
    BY <1>1, <2>2, <2>3 DEF Permitted
<1>4. Thinks
  BY <1>1, <1>2, <1>3 DEF Thinks, Continues
<1>5. Step(c, t, next) /\ IInv' /\ DOMAIN task[c][t] = Fields
  BY RequestScanKeeps, HeldBy DEF RequestScan, JInv
<1>6. next.pc = "observe"
  BY <1>5 DEF Fields
<1> HIDE DEF next
<1> QED
  BY <1>4, <1>5, <1>6, LightStep

\* The questions found at the cut are those of the epoch, as long as it is open
\* or may start.
LEMMA NewAreQuestions ==
  ASSUME Alone, NEW c \in Consumers, Mind(log), NEW e \in Of(log, "request"),
         Active(log, e) \/ Len(log) = e
  PROVE  NewCandidates(e) = Questions(log, e)
<1> DEFINE cut == SubSeq(log, 1, e)
<1>1. LogInv(log) /\ IsLog(log) /\ DOMAIN log = 1..Len(log) /\ Len(log) \in Nat /\ e \in DOMAIN log
  BY Appended DEF Mind, LogInv, Of
<1>2. DOMAIN cut = 1..e /\ \A n \in 1..e : cut[n] = log[n] /\ n \in DOMAIN log
  BY <1>1, FiniteCut
<1>3. /\ \A n \in Of(log, "inquiry") : log[n].epoch < n /\ log[n].epoch \in Of(log, "request")
      /\ \A m, n \in Of(log, "inquiry") : log[m].inquiry = log[n].inquiry => m = n
      /\ \A n \in Of(log, "inquiry") : n > e => Len(log) # e /\ log[n].epoch = e
  <2>1. \A n \in Of(log, "inquiry") : n > e => Len(log) # e
    BY <1>1 DEF Of
  <2>2. Active(log, e) => e \in ActiveEpochs(log, c)
    BY <1>1, OpenEpochs
  <2> QED
    BY <2>1, <2>2 DEF Mind, Asked
<1> HIDE DEF cut
<1>4. ASSUME NEW i
      PROVE  IsNewOrSameScan(log, i, e) <=> i \notin Inquiries(cut)
  <2>1. CASE i \notin Inquiries(log)
    <3>1. i \notin Inquiries(cut)
      BY <2>1, <1>2 DEF Inquiries, Of
    <3> QED
      BY <2>1, <3>1 DEF IsNewOrSameScan
  <2>2. CASE i \in Inquiries(log)
    <3>1. PICK n \in Of(log, "inquiry") : log[n].inquiry = i
      BY <2>2 DEF Inquiries
    <3>2. CursorOf(log, i) = log[n].epoch
      <4>1. \A k \in Of(log, "inquiry") : log[k].inquiry = i => k = n
        BY <3>1, <1>3
      <4> QED
        BY <3>1, <4>1 DEF CursorOf
    <3>3. IsNewOrSameScan(log, i, e) <=> log[n].epoch = e
      BY <2>2, <3>2 DEF IsNewOrSameScan
    <3>4. n \in 1..Len(log) /\ log[n].epoch \in 1..Len(log) /\ e \in 1..Len(log)
      BY <1>1, <1>3 DEF Of
    <3>5. CASE n <= e
      <4>1. log[n].epoch < n
        BY <1>3
      <4>2. log[n].epoch # e
        BY <3>4, <3>5, <4>1
      <4>3. n \in Of(cut, "inquiry") /\ cut[n].inquiry = i
        BY <3>1, <3>4, <3>5, <1>2 DEF Of
      <4> QED
        BY <3>3, <4>2, <4>3 DEF Inquiries
    <3>6. CASE n > e
      <4>1. log[n].epoch = e
        BY <1>3, <3>6
      <4>2. \A k \in Of(cut, "inquiry") : k \in Of(log, "inquiry") /\ k <= e /\ cut[k] = log[k]
        BY <1>2, <1>1 DEF Of
      <4>3. i \notin Inquiries(cut)
        BY <4>2, <1>3, <3>1, <3>4, <3>6 DEF Inquiries
      <4> QED
        BY <3>3, <4>1, <4>3
    <3> QED
      BY <3>4, <3>5, <3>6
  <2> QED
    BY <2>1, <2>2
<1>5. NewCandidates(e) = {i \in Detect(cut, log[e].at) : IsNewOrSameScan(log, i, e)}
  BY DEF NewCandidates, cut
<1>6. Questions(log, e) = Detect(cut, log[e].at) \ Inquiries(cut)
  BY DEF Questions, cut
<1> QED
  BY <1>4, <1>5, <1>6

LEMMA ProceedThinks ==
  ASSUME Alone, NEW c \in Consumers, Mind(log), NEW k, DOMAIN k = Fields,
         k.at \in Of(log, "request"), k.resumed => Started(log, k.at)
  PROVE  Thought(log, Proceed(k))
<1> DEFINE e == k.at
           new == NewCandidates(e)
           on == [k EXCEPT !.pc = IF k.resumed THEN "output" ELSE "start",
                           !.cands = new, !.stage = 1]
           settled == [k EXCEPT !.pc = "settle"]
<1>1. Proceed(k) = IF new = {} THEN settled ELSE on
  BY DEF Proceed
<1>2. Active(log, e) \/ Len(log) = e => new = Questions(log, e)
  BY NewAreQuestions
<1> HIDE DEF new
<1>3. CASE new = {}
  <2>1. settled.pc = "settle"
    BY DEF Fields
  <2> HIDE DEF settled
  <2> QED
    BY <1>1, <1>3, <2>1 DEF Thought
<1>4. CASE new # {}
  <2>1. /\ on.pc = (IF k.resumed THEN "output" ELSE "start") /\ on.cands = new /\ on.stage = 1
        /\ on.at = e
    BY DEF Fields
  <2>2. Active(log, e) => new \subseteq Questions(log, e) /\ Done(log, e, Questions(log, e) \ new)
    BY <1>2 DEF Done
  <2> HIDE DEF on, e
  <2>3. k.resumed => Started(log, e)
    BY DEF e
  <2>4. Thought(log, on)
    BY <2>1, <2>2, <2>3, <1>2, <1>4 DEF Thought
  <2> QED
    BY <1>1, <1>4, <2>4
<1> QED
  BY <1>3, <1>4

LEMMA ObserveThinks ==
  ASSUME Alone, JInv, NEW c \in Consumers, NEW t \in Tasks, Observe(c, t)
  PROVE  JInv' /\ Thinks
<1> DEFINE k == [task[c][t] EXCEPT !.resumed = Started(log, task[c][t].at)]
           e == k.at
           others == ActiveEpochs(log, c) \ {e}
           stale == {a \in others : LET refs == RefsOf(ActivitiesOf(log, a))
                                    IN refs # {} /\ ~IntentsAreCurrent(log, refs)}
           abandon == [k EXCEPT !.pc = "abandon", !.stale = CHOOSE a \in stale : TRUE]
           next == IF Started(log, e) /\ ~Active(log, e) THEN [k EXCEPT !.pc = "settle"]
                   ELSE IF Started(log, e) /\ k.seen >= log[e].until THEN [k EXCEPT !.pc = "expire"]
                   ELSE IF HasAgenda(log, e) THEN [k EXCEPT !.pc = "settle"]
                   ELSE IF stale # {} THEN abandon
                   ELSE IF others # {} THEN [k EXCEPT !.pc = "settle"]
                   ELSE Proceed(k)
<1>1. Step(c, t, next) /\ k.pc = "observe" /\ log' = log
  BY DEF Observe
<1>2. DOMAIN task[c][t] = Fields /\ Mind(log) /\ (task[c][t].pc \in Scanning => task[c][t].at \in Of(log, "request"))
  BY HeldBy
<1>3. /\ DOMAIN k = Fields /\ k.at = task[c][t].at /\ k.pc = task[c][t].pc
      /\ k.resumed = Started(log, k.at)
  BY <1>2 DEF Fields
<1>4. k.at \in Of(log, "request")
  BY <1>1, <1>2, <1>3 DEF Scanning
<1>5. /\ abandon.pc = "abandon" /\ abandon.at = k.at /\ abandon.resumed = k.resumed
  BY <1>3 DEF Fields
<1>6. Thought(log, Proceed(k))
  BY <1>2, <1>3, <1>4, ProceedThinks
<1> HIDE DEF stale, others, k, e
<1>7. \A pc \in {"settle", "expire"} : Thought(log, [k EXCEPT !.pc = pc])
  <2> SUFFICES ASSUME NEW pc \in {"settle", "expire"} PROVE Thought(log, [k EXCEPT !.pc = pc])
    OBVIOUS
  <2> DEFINE x == [k EXCEPT !.pc = pc]
  <2>1. x.pc = pc
    BY <1>3 DEF Fields
  <2> HIDE DEF x
  <2>2. Thought(log, x)
    BY <2>1 DEF Thought
  <2> QED
    BY <2>2 DEF x
<1>8. Thought(log, abandon)
  <2> HIDE DEF abandon
  <2> QED
    BY <1>3, <1>5 DEF Thought
<1> HIDE DEF abandon
<1>9. Thought(log, next)
  BY <1>6, <1>7, <1>8
<1>10. IInv' /\ Thinks
  BY <1>1, ObserveKeeps, SameThinks DEF JInv
<1> HIDE DEF next
<1> QED
  BY <1>1, <1>9, <1>10, HeldByStep

LEMMA AbandonStaleThinks ==
  ASSUME Alone, JInv, NEW c \in Consumers, NEW t \in Tasks, AbandonStale(c, t)
  PROVE  JInv' /\ Thinks
<1> DEFINE k == task[c][t]
           next == [k EXCEPT !.pc = "reobserve"]
<1>1. k.pc = "abandon" /\ Step(c, t, next)
  BY DEF AbandonStale
<1>2. Thinks
  <2>1. \/ Active(log, k.stale) /\ Emit(Abandonment(k.stale))
        \/ log' = log
    BY DEF AbandonStale
  <2> QED
    BY <2>1, SameThinks, EmitThinks, ClosingIsPermitted
<1>3. Holds(log', k) /\ DOMAIN k = Fields
  BY <1>2, HeldBy, TwiceKept
<1>4. next.pc = "reobserve" /\ next.at = k.at /\ next.resumed = k.resumed
  BY <1>3, ToPc
<1>5. IInv'
  BY AbandonStaleKeeps DEF JInv
<1> HIDE DEF next
<1>6. Thought(log', next)
  BY <1>1, <1>3, <1>4 DEF Holds, Thought
<1> QED
  BY <1>1, <1>2, <1>5, <1>6, HeldByStep

LEMMA ReobserveThinks ==
  ASSUME Alone, JInv, NEW c \in Consumers, NEW t \in Tasks, Reobserve(c, t)
  PROVE  JInv' /\ Thinks
<1> DEFINE k == task[c][t]
           settled == [k EXCEPT !.pc = "settle"]
<1>1. /\ k.pc = "reobserve" /\ log' = log
      /\ Step(c, t, settled) \/ Step(c, t, Proceed(k))
  BY DEF Reobserve
<1>2. /\ DOMAIN k = Fields /\ Mind(log) /\ Holds(log, k)
      /\ (k.pc \in Scanning => k.at \in Of(log, "request"))
  BY HeldBy
<1>3. k.at \in Of(log, "request") /\ (k.resumed => Started(log, k.at))
  BY <1>1, <1>2 DEF Scanning, Holds, Thought
<1>4. Thought(log, Proceed(k))
  BY <1>2, <1>3, ProceedThinks
<1>5. IInv' /\ Thinks
  BY <1>1, ReobserveKeeps, SameThinks DEF JInv
<1>6. settled.pc = "settle"
  BY <1>2, ToPc
<1> HIDE DEF settled, k
<1>7. CASE Step(c, t, settled)
  BY <1>5, <1>6, <1>7, LightStep
<1>8. CASE Step(c, t, Proceed(k))
  BY <1>1, <1>4, <1>5, <1>8, HeldByStep
<1> QED
  BY <1>1, <1>7, <1>8

LEMMA ExpireEpochThinks ==
  ASSUME Alone, JInv, NEW c \in Consumers, NEW t \in Tasks, ExpireEpoch(c, t)
  PROVE  JInv' /\ Thinks
<1> DEFINE k == task[c][t]
           at == Max({k.seen, log[k.at].until})
           next == [k EXCEPT !.pc = "settle"]
<1>1. /\ k.pc = "expire" /\ Step(c, t, next)
      /\ \/ Active(log, k.at) /\ Emit(Expiry(k.at, at))
         \/ log' = log
  BY DEF ExpireEpoch
<1>2. DOMAIN k = Fields /\ k.seen \in Nat /\ LogInv(log) /\ (k.pc \in Scanning => k.at \in Of(log, "request"))
  BY HeldBy
<1>3. at >= log[k.at].until
  <2>1. log[k.at].until \in Int /\ k.seen \in Int
    <3>1. k.at \in Of(log, "request")
      BY <1>1, <1>2 DEF Scanning
    <3> QED
      BY <1>2, <3>1, DeadlineOf
  <2> QED
    BY <2>1, LaterOf
<1> HIDE DEF at
<1>4. Thinks
  BY <1>1, <1>3, SameThinks, EmitThinks, ClosingIsPermitted
<1>5. next.pc = "settle" /\ IInv'
  BY <1>2, ToPc, ExpireEpochKeeps DEF JInv
<1> HIDE DEF next
<1> QED
  BY <1>1, <1>4, <1>5, LightStep

LEMMA StartEpochThinks ==
  ASSUME Alone, JInv, NEW c \in Consumers, NEW t \in Tasks, StartEpoch(c, t)
  PROVE  JInv' /\ Thinks
<1> DEFINE k == task[c][t]
           event == EpochStart(c, k.at)
           next == [k EXCEPT !.pc = "output"]
           settled == [k EXCEPT !.pc = "settle"]
<1>1. /\ k.pc = "start"
      /\ \/ log' = log /\ Recorded(log, event) /\ Step(c, t, next)
         \/ log' = log /\ Step(c, t, settled)
         \/ /\ ActiveEpochs(log, c) = {} /\ Len(log) = k.at
            /\ Emit(event) /\ Step(c, t, next)
  BY DEF StartEpoch
<1>2. /\ DOMAIN k = Fields /\ Holds(log, k) /\ LogInv(log) /\ k.at \in Of(log, "request")
      /\ DOMAIN log = 1..Len(log) /\ Len(log) \in Nat /\ IsLog(log) /\ Mind(log)
  BY <1>1, HeldBy DEF Scanning
<1>3. /\ event.type = "start" /\ event.epoch = k.at /\ event.consumer = c
  BY DEF EpochStart
<1>4. /\ next.pc = "output" /\ next.at = k.at /\ next.cands = k.cands /\ next.stage = k.stage
  BY <1>2, ToPc
<1>5. settled.pc = "settle"
  BY <1>2, ToPc
<1>6. IInv'
  BY StartEpochKeeps DEF JInv
<1> HIDE DEF event, next, settled
<1>7. ASSUME Len(log) = k.at, ActiveEpochs(log, c) = {}
      PROVE  Permitted(log, event)
  <2>1. ~Started(log, k.at)
    <3>1. ASSUME NEW n \in Of(log, "start") PROVE log[n].epoch # k.at
      <4>1. n \in 1..Len(log) /\ n = log[n].epoch + 1 /\ log[n].epoch \in Of(log, "request")
        BY <1>2, ExternalTypes DEF LogInv, EventInv, Of, Outputs, Closings, Findings
      <4> QED
        BY <4>1, <1>2, <1>7 DEF Of
    <3> QED
      BY <3>1 DEF Started
  <2>2. LegalStart(log, event)
    BY <1>2, <1>3, <1>7, <2>1 DEF LegalStart
  <2> QED
    BY <1>3, <2>2 DEF Permitted, Admitted, Legal
\* Once the epoch is started, what was found is what it asks.
<1>8. ASSUME Holds(log', k), Started(log', k.at) PROVE Thought(log', next)
  <2>1. k.cands # {} /\ k.stage = 1
        /\ (Active(log', k.at) => k.cands = Questions(log', k.at))
    BY <1>1, <1>8 DEF Holds, Thought
  <2>2. Active(log', k.at) => Done(log', k.at, Questions(log', k.at) \ k.cands)
    BY <2>1 DEF Done
  <2> HIDE DEF k
  <2> QED
    BY <1>4, <1>8, <2>1, <2>2 DEF Thought
<1>9. CASE log' = log /\ Recorded(log, event) /\ Step(c, t, next)
  <2>1. Started(log, k.at)
    BY <1>3, <1>9 DEF Recorded, Started, Of
  <2>2. Thinks /\ Thought(log', next)
    BY <1>2, <1>8, <1>9, <2>1, SameThinks
  <2> QED
    BY <1>6, <1>9, <2>2, HeldByStep
<1>10. CASE log' = log /\ Step(c, t, settled)
  BY <1>5, <1>6, <1>10, SameThinks, LightStep
<1>11. CASE /\ ActiveEpochs(log, c) = {} /\ Len(log) = k.at
            /\ Emit(event) /\ Step(c, t, next)
  <2>1. Thinks
    BY <1>7, <1>11, EmitThinks
  <2>2. Holds(log', k)
    BY <1>2, <2>1, TwiceKept
  <2>3. Started(log', k.at)
    <3>1. /\ Len(log) + 1 \in DOMAIN log' /\ log'[Len(log) + 1] = event
      BY <1>2, <1>11, Appended DEF Emit
    <3> QED
      BY <3>1, <1>3 DEF Started, Of
  <2> QED
    BY <1>6, <1>8, <1>11, <2>1, <2>2, <2>3, HeldByStep
<1> QED
  BY <1>1, <1>9, <1>10, <1>11

LEMMA FinishScanThinks ==
  ASSUME Alone, JInv, NEW c \in Consumers, NEW t \in Tasks, FinishScan(c, t)
  PROVE  JInv' /\ Thinks
<1> DEFINE k == task[c][t]
           settled == [k EXCEPT !.pc = "settle"]
           raised == [IdleTask EXCEPT !.pc = "raised"]
<1>1. /\ k.pc = "finish"
      /\ \/ log' = log /\ Step(c, t, settled)
         \/ /\ Active(log, k.at) /\ k.seen >= log[k.at].until
            /\ Emit(Expiry(k.at, k.seen)) /\ task' = task
         \/ Active(log, k.at) /\ Emit(Abandonment(k.at)) /\ task' = task
         \/ log' = log /\ Step(c, t, raised)
  BY DEF FinishScan
<1>2. settled.pc = "settle" /\ raised.pc = "raised"
  BY HeldBy, ToPc, Idles
<1>3. IInv'
  BY FinishScanKeeps DEF JInv
<1> HIDE DEF settled, raised
<1>4. Thinks
  BY <1>1, SameThinks, EmitThinks, ClosingIsPermitted
<1> QED
  BY <1>1, <1>2, <1>3, <1>4, LightStep, AsideKeeps

-----------------------------------------------------------------------------
\* The outputs of an epoch.

LEMMA ActivitiesAreAsked ==
  ASSUME NEW l, Mind(l), NEW e
  PROVE  ActivitiesOf(l, e) \subseteq Questions(l, e) /\ EstimatesOf(l, e) \subseteq ActivitiesOf(l, e)
<1>1. \A n \in Of(l, "activity") : l[n].epoch = e => l[n].inquiry \in Questions(l, e)
  BY DEF Mind, Asked, Answered
<1>2. \A n \in Of(l, "voc") : l[n].epoch = e => l[n].inquiry \in ActivitiesOf(l, e)
  BY DEF Mind, Answered
<1> QED
  BY <1>1, <1>2 DEF ActivitiesOf, EstimatesOf

\* When the event of a stage is in the log, the scan goes on to the next.
LEMMA OutputGoesOn ==
  ASSUME NEW l, NEW k, DOMAIN k = Fields, k.stage \in 1..3, k.pc = "output", Thought(l, k),
         LET e == k.at
             i == NextOf(k.cands)
         IN Active(l, e) =>
              /\ k.stage = 1 => \E n \in Of(l, "inquiry") : l[n].epoch = e /\ l[n].inquiry = i
              /\ k.stage = 2 => i \in ActivitiesOf(l, e)
              /\ k.stage = 3 => i \in EstimatesOf(l, e)
  PROVE  Thought(l, OutputNext(k, NextOf(k.cands)))
<1> DEFINE e == k.at
           i == NextOf(k.cands)
           Q == Questions(l, e)
           next == OutputNext(k, i)
           asked == \E n \in Of(l, "inquiry") : l[n].epoch = e /\ l[n].inquiry = i
<1>1. /\ next.at = e
      /\ next.stage = IF k.stage < 3 THEN k.stage + 1 ELSE 1
      /\ next.pc = IF k.stage < 3 \/ k.cands # {i} THEN "output" ELSE "select"
      /\ next.cands = IF k.stage < 3 THEN k.cands ELSE k.cands \ {i}
  <2> HIDE DEF i
  <2> QED
    BY OutputNextMoves
<1>2. /\ Started(l, e)
      /\ Active(l, e) =>
           /\ k.cands # {} /\ k.cands \subseteq Q /\ Done(l, e, Q \ k.cands)
           /\ k.stage > 1 => asked
           /\ k.stage > 2 => i \in ActivitiesOf(l, e)
  BY DEF Thought
<1>3. Active(l, e) =>
        /\ k.stage = 1 => asked
        /\ k.stage = 2 => i \in ActivitiesOf(l, e)
        /\ k.stage = 3 => i \in EstimatesOf(l, e)
  OBVIOUS
<1>4. k.cands # {} => i \in k.cands
  BY DEF NextOf
<1>5. next.cands = k.cands => NextOf(next.cands) = i
  OBVIOUS
<1> HIDE DEF next, i, Q, e, asked
<1>6. CASE k.stage < 3
  <2>1. k.stage = 1 \/ k.stage = 2
    BY <1>6
  <2>2. next.pc = "output" /\ next.cands = k.cands /\ next.stage = k.stage + 1
    BY <1>1, <1>6
  <2>3. Active(l, e) => asked /\ (next.stage > 2 => i \in ActivitiesOf(l, e))
    BY <2>1, <2>2, <1>2, <1>3
  <2> QED
    BY <2>2, <2>3, <1>1, <1>2, <1>5 DEF Thought, asked, next, i, Q, e
<1>7. CASE ~(k.stage < 3)
  <2>1. k.stage = 3
    BY <1>7
  <2>2. next.cands = k.cands \ {i} /\ next.stage = 1
        /\ next.pc = (IF k.cands # {i} THEN "output" ELSE "select")
    BY <1>1, <1>7
  <2>3. Active(l, e) => Done(l, e, Q \ next.cands)
    BY <2>1, <2>2, <1>2, <1>3 DEF Done
  <2>4. Active(l, e) /\ k.cands # {i} => next.cands # {} /\ next.cands \subseteq Q
    BY <2>2, <1>2, <1>4
  <2>5. Active(l, e) /\ k.cands = {i} => Done(l, e, Q)
    BY <2>2, <2>3 DEF Done
  <2>6. next.pc = "output" => k.cands # {i}
    BY <2>2
  <2> HIDE DEF next
  <2>7. Thought(l, next)
    BY <2>2, <2>3, <2>4, <2>5, <2>6, <1>1, <1>2 DEF Thought, Q
  <2> QED
    BY <2>7 DEF next, i
<1> QED
  BY <1>6, <1>7

\* The cursor of a question that the epoch has asked is the epoch's.
LEMMA CursorOfAsked ==
  ASSUME NEW l, Asked(l), NEW n \in Of(l, "inquiry")
  PROVE  l[n].inquiry \in Inquiries(l) /\ CursorOf(l, l[n].inquiry) = l[n].epoch
<1>1. \A k \in Of(l, "inquiry") : l[k].inquiry = l[n].inquiry => k = n
  BY DEF Asked
<1> QED
  BY <1>1 DEF Inquiries, CursorOf

\* A question of an open epoch that is known was asked by that epoch.
LEMMA KnownIsAsked ==
  ASSUME Alone, NEW c \in Consumers, NEW l, Mind(l), NEW e \in Of(l, "request"), Active(l, e),
         NEW i \in Questions(l, e), i \in Inquiries(l)
  PROVE  \E n \in Of(l, "inquiry") : l[n].epoch = e /\ l[n].inquiry = i
<1>1. LogInv(l) /\ IsLog(l) /\ DOMAIN l = 1..Len(l) /\ Len(l) \in Nat /\ e \in DOMAIN l
  BY Appended DEF Mind, LogInv, Of
<1>2. PICK n \in Of(l, "inquiry") : l[n].inquiry = i
  BY DEF Inquiries
<1>3. n > e
  <2>1. ~(n \in 1..e)
    <3>1. SUFFICES ASSUME n \in 1..e PROVE FALSE
      OBVIOUS
    <3>2. LET cut == SubSeq(l, 1, e) IN n \in Of(cut, "inquiry") /\ cut[n] = l[n]
      BY <1>1, <1>2, <3>1, FiniteCut DEF Of
    <3>3. i \in Inquiries(SubSeq(l, 1, e))
      BY <1>2, <3>2 DEF Inquiries
    <3> QED
      BY <3>3 DEF Questions
  <2> QED
    BY <2>1, <1>1, <1>2 DEF Of
<1>4. e \in ActiveEpochs(l, c)
  BY <1>1, OpenEpochs
<1> QED
  BY <1>2, <1>3, <1>4 DEF Mind, Asked

LEMMA Appending ==
  ASSUME NEW c, NEW t, NEW event, NEW known, NEW e, NEW refs, NEW next,
         AppendOutput(c, t, event, known, e, refs, next)
  PROVE  \/ known /\ log' = log /\ Step(c, t, next)
         \/ /\ ~known /\ Active(log, e) /\ IntentsAreCurrent(log, refs)
            /\ Emit(event) /\ Step(c, t, next)
         \/ log' = log /\ Step(c, t, [task[c][t] EXCEPT !.pc = "finish", !.refs = refs])
BY DEF AppendOutput

LEMMA OutputFields ==
  ASSUME NEW k, NEW i
  PROVE  /\ k.stage = 1 => OutputEvent(k, i) = InquiryEvent(k.at, i)
         /\ k.stage = 2 => OutputEvent(k, i) = ActivityEvent(k.at, i)
         /\ k.stage = 3 => OutputEvent(k, i) = EstimateEvent(k.at, i)
         /\ k.stage = 1 => OutputEvent(k, i).type = "inquiry"
         /\ k.stage = 2 => OutputEvent(k, i).type = "activity"
         /\ k.stage = 3 => OutputEvent(k, i).type = "voc" /\ OutputEvent(k, i).net = NetVOC(i.topic)
         /\ k.stage \in 1..3 => OutputEvent(k, i).epoch = k.at /\ OutputEvent(k, i).inquiry = i
BY DEF OutputEvent, InquiryEvent, ActivityEvent, EstimateEvent

\* What is appended for the next candidate is the projection's next for it.
LEMMA OutputIsPermitted ==
  ASSUME Alone, NEW c \in Consumers, NEW l, Mind(l), NEW k, k.stage \in 1..3, k.pc = "output",
         k.at \in Of(l, "request"), Thought(l, k), Active(l, k.at),
         IntentsAreCurrent(l, NextOf(k.cands).refs), ~OutputKnown(l, k, NextOf(k.cands))
  PROVE  Permitted(l, OutputEvent(k, NextOf(k.cands)))
<1> DEFINE e == k.at
           i == NextOf(k.cands)
           event == OutputEvent(k, i)
<1>1. /\ k.cands # {} /\ k.cands \subseteq Questions(l, e)
      /\ k.stage > 1 => \E n \in Of(l, "inquiry") : l[n].epoch = e /\ l[n].inquiry = i
      /\ k.stage > 2 => i \in ActivitiesOf(l, e)
  BY DEF Thought
<1>2. i \in Questions(l, e)
  BY <1>1 DEF NextOf
<1>3. e \in DOMAIN l /\ LogInv(l)
  BY DEF Of, Mind
<1>4. i.evidence # {} /\ i.evidence \subseteq DOMAIN l
  <2> HIDE DEF e, i
  <2> QED
    BY <1>2, <1>3, QuestionsAreRanked
<1>5. /\ k.stage = 1 => event.type = "inquiry"
      /\ k.stage = 2 => event.type = "activity"
      /\ k.stage = 3 => event.type = "voc" /\ event.net = NetVOC(i.topic)
      /\ event.epoch = e /\ event.inquiry = i
  <2> HIDE DEF i
  <2> QED
    BY OutputFields
<1>6. k.stage = 1 => i \notin Inquiries(l)
  BY DEF OutputKnown
<1>7. Active(l, e) /\ IntentsAreCurrent(l, i.refs)
  OBVIOUS
<1>8. k.stage > 1 => i \in Inquiries(l) /\ CursorOf(l, i) = e
  BY <1>1, CursorOfAsked DEF Mind
<1> HIDE DEF i, e, event
<1>9. CASE k.stage = 1
  <2>1. LegalInquiry(l, event)
    BY <1>4, <1>5, <1>6, <1>7, <1>9 DEF LegalInquiry
  <2> QED
    BY <2>1, <1>2, <1>5, <1>9 DEF Permitted, Legal, Admitted, Outputs, event, i
<1>10. CASE k.stage = 2
  <2>1. LegalActivity(l, event)
    BY <1>5, <1>7, <1>8, <1>10 DEF LegalActivity
  <2> QED
    BY <2>1, <1>5, <1>10 DEF Permitted, Legal, Admitted, Outputs, event, i
<1>11. CASE k.stage = 3
  <2>1. LegalEstimate(l, event)
    BY <1>1, <1>5, <1>7, <1>11 DEF LegalEstimate
  <2> QED
    BY <2>1, <1>5, <1>11 DEF Permitted, Legal, Admitted, Outputs, event, i
<1> QED
  BY <1>9, <1>10, <1>11

LEMMA Recording ==
  ASSUME NEW l, NEW e, NEW i
  PROVE  /\ Recorded(l, InquiryEvent(e, i)) =>
              \E n \in Of(l, "inquiry") : l[n].epoch = e /\ l[n].inquiry = i
         /\ Recorded(l, ActivityEvent(e, i)) => i \in ActivitiesOf(l, e)
         /\ Recorded(l, EstimateEvent(e, i)) => i \in EstimatesOf(l, e)
<1>1. Recorded(l, InquiryEvent(e, i)) =>
        \E n \in Of(l, "inquiry") : l[n].epoch = e /\ l[n].inquiry = i
  BY DEF Recorded, InquiryEvent, Of
<1>2. ASSUME Recorded(l, ActivityEvent(e, i)) PROVE i \in ActivitiesOf(l, e)
  <2>1. \E n \in Of(l, "activity") : l[n].epoch = e /\ l[n].inquiry = i
    BY <1>2 DEF Recorded, ActivityEvent, Of
  <2> QED
    BY <2>1 DEF ActivitiesOf
<1>3. ASSUME Recorded(l, EstimateEvent(e, i)) PROVE i \in EstimatesOf(l, e)
  <2>1. \E n \in Of(l, "voc") : l[n].epoch = e /\ l[n].inquiry = i
    BY <1>3 DEF Recorded, EstimateEvent, Of
  <2> QED
    BY <2>1 DEF EstimatesOf
<1> QED
  BY <1>1, <1>2, <1>3

LEMMA EmitRecords ==
  ASSUME IsLog(log), NEW event, Emit(event)
  PROVE  Recorded(log', event)
<1>1. Len(log) + 1 \in DOMAIN log' /\ log'[Len(log) + 1] = event
  BY Appended DEF Emit
<1> QED
  BY <1>1 DEF Recorded

LEMMA OutputThinks ==
  ASSUME Alone, JInv, NEW c \in Consumers, NEW t \in Tasks, Output(c, t)
  PROVE  JInv' /\ Thinks
<1> DEFINE k == task[c][t]
           e == k.at
           i == NextOf(k.cands)
           event == OutputEvent(k, i)
           known == OutputKnown(log, k, i)
           next == OutputNext(k, i)
           stopped == [k EXCEPT !.pc = "finish", !.refs = i.refs]
           written(l) == /\ k.stage = 1 => \E n \in Of(l, "inquiry") : l[n].epoch = e /\ l[n].inquiry = i
                         /\ k.stage = 2 => i \in ActivitiesOf(l, e)
                         /\ k.stage = 3 => i \in EstimatesOf(l, e)
<1>1. /\ k.pc = "output" /\ AppendOutput(c, t, event, known, e, i.refs, next)
  BY OutputStep
<1>2. /\ DOMAIN k = Fields /\ k.stage \in 1..3 /\ Holds(log, k) /\ Mind(log) /\ IsLog(log)
      /\ e \in Of(log, "request") /\ LogInv(log)
  BY <1>1, HeldBy DEF Scanning
<1>3. \/ known /\ log' = log /\ Step(c, t, next)
      \/ /\ ~known /\ Active(log, e) /\ IntentsAreCurrent(log, i.refs)
         /\ Emit(event) /\ Step(c, t, next)
      \/ log' = log /\ Step(c, t, stopped)
  <2> HIDE DEF event, known, i, next, e
  <2> QED
    BY <1>1, Appending
<1>4. stopped.pc = "finish"
  BY <1>2 DEF Fields
<1>5. IInv'
  BY OutputKeeps DEF JInv
<1>6. \A l : Recorded(l, event) => written(l)
  <2>1. /\ k.stage = 1 => event = InquiryEvent(e, i)
        /\ k.stage = 2 => event = ActivityEvent(e, i)
        /\ k.stage = 3 => event = EstimateEvent(e, i)
    <3> HIDE DEF i
    <3> QED
      BY OutputFields
  <2> HIDE DEF event, i, e, k
  <2> QED
    BY <2>1, Recording
<1>7. ASSUME Holds(log', k), Active(log', e) => written(log') PROVE Thought(log', next)
  <2>1. Thought(log', k)
    BY <1>7 DEF Holds
  <2> HIDE DEF k
  <2> QED
    BY <1>1, <1>2, <1>7, <2>1, OutputGoesOn DEF e, i, written, next
<1>8. CASE known /\ log' = log /\ Step(c, t, next)
  <2>1. Active(log, e) => written(log)
    <3>1. CASE k.stage # 1
      <4>1. Recorded(log, event)
        BY <1>8, <3>1 DEF OutputKnown
      <4> QED
        BY <4>1, <1>6
    <3>2. ASSUME k.stage = 1, Active(log, e)
          PROVE  \E n \in Of(log, "inquiry") : log[n].epoch = e /\ log[n].inquiry = i
      <4>1. i \in Inquiries(log)
        BY <1>8, <3>2 DEF OutputKnown
      <4>2. i \in Questions(log, e)
        BY <1>1, <1>2, <3>2 DEF Holds, Thought, NextOf
      <4> HIDE DEF i, e
      <4> QED
        BY <1>2, <3>2, <4>1, <4>2, KnownIsAsked
    <3> QED
      BY <3>1, <3>2
  <2>2. Thinks /\ Thought(log', next)
    BY <1>2, <1>7, <1>8, <2>1, SameThinks
  <2> HIDE DEF next
  <2> QED
    BY <1>5, <1>8, <2>2, HeldByStep
<1>9. CASE /\ ~known /\ Active(log, e) /\ IntentsAreCurrent(log, i.refs)
           /\ Emit(event) /\ Step(c, t, next)
  <2>1. Permitted(log, event)
    <3> HIDE DEF k
    <3> QED
      BY <1>1, <1>2, <1>9, OutputIsPermitted DEF Holds, event, known, i, e
  <2>2. Thinks
    <3> HIDE DEF event
    <3> QED
      BY <1>9, <2>1, EmitThinks
  <2>3. Holds(log', k)
    BY <1>2, <2>2, TwiceKept
  <2>4. Recorded(log', event)
    <3> HIDE DEF event
    <3> QED
      BY <1>2, <1>9, EmitRecords
  <2>5. Thought(log', next)
    BY <1>6, <1>7, <2>3, <2>4
  <2> HIDE DEF next
  <2> QED
    BY <1>5, <1>9, <2>2, <2>5, HeldByStep
<1>10. CASE log' = log /\ Step(c, t, stopped)
  <2> HIDE DEF stopped
  <2> QED
    BY <1>4, <1>5, <1>10, SameThinks, LightStep
<1> QED
  BY <1>3, <1>8, <1>9, <1>10

\* The policy selects among all that the epoch asks.
LEMMA SelectThinks ==
  ASSUME Alone, JInv, NEW c \in Consumers, NEW t \in Tasks, Select(c, t)
  PROVE  JInv' /\ Thinks
<1> DEFINE k == task[c][t]
           e == k.at
           acts == ActivitiesOf(log, e)
           Q == Questions(log, e)
           next == [k EXCEPT !.pc = "agenda", !.agenda = SelectAgenda(acts), !.refs = RefsOf(acts)]
           settled == [k EXCEPT !.pc = "settle"]
           raised == [IdleTask EXCEPT !.pc = "raised"]
<1>1. /\ k.pc = "select" /\ log' = log
      /\ \/ Step(c, t, settled)
         \/ Step(c, t, raised)
         \/ acts # {} /\ EstimatesOf(log, e) = acts /\ Step(c, t, next)
  BY DEF Select
<1>2. DOMAIN k = Fields /\ Holds(log, k) /\ Mind(log)
  BY HeldBy
<1>3. settled.pc = "settle" /\ raised.pc = "raised"
  BY <1>2, ToPc, Idles
<1>4. /\ next.pc = "agenda" /\ next.at = e /\ next.agenda = SelectAgenda(acts)
      /\ next.refs = RefsOf(acts)
  BY <1>2 DEF Fields
<1>5. IInv' /\ Thinks
  BY <1>1, SelectKeeps, SameThinks DEF JInv
<1>6. Started(log, e) /\ (Active(log, e) => Done(log, e, Q))
  BY <1>1, <1>2 DEF Holds, Thought
<1>7. acts \subseteq Q
  <2> HIDE DEF e
  <2> QED
    BY <1>2, ActivitiesAreAsked
<1>8. Active(log, e) => acts = Q
  BY <1>6, <1>7 DEF Done
<1> HIDE DEF settled, raised, next
<1>9. CASE acts # {} /\ EstimatesOf(log, e) = acts /\ Step(c, t, next)
  <2>1. Thought(log, next)
    BY <1>4, <1>6, <1>8, <1>9 DEF Thought
  <2> QED
    BY <1>1, <1>5, <1>9, <2>1, HeldByStep
<1> QED
  BY <1>1, <1>3, <1>5, <1>9, LightStep

LEMMA RecordAgendaThinks ==
  ASSUME Alone, JInv, NEW c \in Consumers, NEW t \in Tasks, RecordAgenda(c, t)
  PROVE  JInv' /\ Thinks
<1> DEFINE k == task[c][t]
           e == k.at
           Q == Questions(log, e)
           event == AgendaEvent(e, k.agenda)
           known == Recorded(log, event)
           settled == [k EXCEPT !.pc = "settle"]
           stopped == [k EXCEPT !.pc = "finish", !.refs = k.refs]
<1>1. k.pc = "agenda" /\ AppendOutput(c, t, event, known, e, k.refs, settled)
  BY DEF RecordAgenda
<1>2. \/ log' = log /\ Step(c, t, settled)
      \/ /\ ~known /\ Active(log, e) /\ IntentsAreCurrent(log, k.refs)
         /\ Emit(event) /\ Step(c, t, settled)
      \/ log' = log /\ Step(c, t, stopped)
  <2> HIDE DEF event, known, settled, e
  <2> QED
    BY <1>1, Appending
<1>3. /\ DOMAIN k = Fields /\ Holds(log, k) /\ Mind(log) /\ LogInv(log) /\ e \in Of(log, "request")
  BY <1>1, HeldBy DEF Scanning
<1>4. settled.pc = "settle" /\ stopped.pc = "finish"
  BY <1>3 DEF Fields
<1>5. IInv'
  BY RecordAgendaKeeps DEF JInv
<1>6. ASSUME Active(log, e), IntentsAreCurrent(log, k.refs), ~known
      PROVE  Permitted(log, event)
  <2>1. Q # {} /\ k.agenda = SelectAgenda(Q) /\ k.refs = RefsOf(Q) /\ Done(log, e, Q)
    BY <1>1, <1>3, <1>6 DEF Holds, Thought
  <2>2. ActivitiesOf(log, e) = Q /\ EstimatesOf(log, e) = Q
    <3>1. ActivitiesOf(log, e) \subseteq Q /\ EstimatesOf(log, e) \subseteq ActivitiesOf(log, e)
      <4> HIDE DEF e
      <4> QED
        BY <1>3, ActivitiesAreAsked
    <3> QED
      BY <2>1, <3>1 DEF Done
  <2>3. ~HasAgenda(log, e)
    <3>1. ASSUME NEW n \in Of(log, "agenda"), log[n].epoch = e PROVE FALSE
      <4>1. log[n] = AgendaEvent(e, log[n].agenda) /\ log[n].agenda = SelectAgenda(Q)
        BY <1>3, <3>1 DEF Mind, Answered
      <4>2. log[n] = event
        BY <2>1, <4>1
      <4> QED
        BY <1>6, <3>1, <4>2 DEF Recorded, Of
    <3> QED
      BY <3>1 DEF HasAgenda
  <2>4. \A a \in Q : IntentsAreCurrent(log, a.refs)
    <3>1. \A a \in Q : a.refs # {}
      <4>1. e \in DOMAIN log
        BY <1>3 DEF Of
      <4> HIDE DEF e
      <4> QED
        BY <1>3, <4>1, QuestionsAreRanked
    <3>2. \A a \in Q : a.refs \subseteq RefsOf(Q)
      BY DEF RefsOf
    <3> HIDE DEF Q
    <3> QED
      BY <1>6, <2>1, <3>1, <3>2 DEF IntentsAreCurrent
  <2>5. event.type = "agenda" /\ event.epoch = e /\ event.agenda = k.agenda
    BY DEF AgendaEvent
  <2>6. event = AgendaEvent(event.epoch, event.agenda)
    BY <2>5
  <2> HIDE DEF event, Q, e
  <2>7. LegalAgenda(log, event)
    BY <1>6, <2>1, <2>2, <2>3, <2>4, <2>5 DEF LegalAgenda
  <2> QED
    BY <2>2, <2>5, <2>6, <2>7 DEF Permitted, Admitted, Legal, Outputs, Q
<1> HIDE DEF event, settled, stopped, known
<1>7. Thinks
  BY <1>2, <1>6, SameThinks, EmitThinks
<1> QED
  BY <1>2, <1>4, <1>5, <1>7, LightStep

-----------------------------------------------------------------------------
\* The steps that do not think.

LEMMA CheckpointThinks ==
  ASSUME IInv, NEW c \in Consumers, NEW s \in 0..Len(log), Served(log, c, s), Checkpoint(c, s)
  PROVE  Thinks
<1>1. Admitted(log, CheckpointEvent(c, s))
  BY DEF Admitted, CheckpointEvent
<1>2. CheckpointEvent(c, s).type = "checkpoint"
  BY DEF CheckpointEvent
<1>3. Permitted(log, CheckpointEvent(c, s))
  BY <1>1, <1>2 DEF Permitted, Legal
<1> QED
  BY <1>3, SameThinks, EmitThinks DEF Checkpoint

LEMMA SettleThinks ==
  ASSUME Alone, JInv, NEW c \in Consumers, NEW t \in Tasks, Settle(c, t)
  PROVE  JInv' /\ Thinks
<1> DEFINE k == task[c][t]
           pc == IF k.todo = {} THEN "idle" ELSE "recover"
           next == [IdleTask EXCEPT !.pc = pc, !.todo = k.todo]
<1>1. k.pc = "settle" /\ Checkpoint(c, k.at) /\ Step(c, t, next)
  BY DEF Settle
<1>2. IInv /\ k.at \in 0..Len(log) /\ Served(log, c, k.at)
  BY <1>1, WorkOf DEF JInv, WorkInv, TaskInv
<1>3. Thinks
  BY <1>1, <1>2, CheckpointThinks
<1>4. next.pc = pc /\ pc \in {"idle", "recover"}
  BY DEF IdleTask
<1>5. IInv'
  BY <1>2, SettleKeeps
<1> HIDE DEF next, pc
<1> QED
  BY <1>1, <1>3, <1>4, <1>5, LightStep

LEMMA StartThinks ==
  ASSUME Alone, JInv, NEW c \in Consumers, NEW t \in Starters, Start(c, t)
  PROVE  JInv' /\ Thinks
<1> DEFINE next == [IdleTask EXCEPT !.pc = "backlog"]
<1>1. Step(c, t, next) /\ log' = log /\ t \in Tasks
  BY DEF Start, Tasks
<1>2. next.pc = "backlog" /\ IInv' /\ Thinks
  BY <1>1, Idles, StartKeeps, SameThinks DEF JInv
<1> HIDE DEF next
<1> QED
  BY <1>1, <1>2, LightStep

LEMMA ReadBacklogThinks ==
  ASSUME Alone, JInv, NEW c \in Consumers, NEW t \in Tasks, ReadBacklog(c, t)
  PROVE  JInv' /\ Thinks
<1> DEFINE pending == {n \in Of(log, "request") \cup Of(log, "foreground") : n > CheckpointOf(log, c)}
           pc == IF pending = {} THEN "idle" ELSE "recover"
           next == [IdleTask EXCEPT !.pc = pc, !.todo = pending]
<1>1. Step(c, t, next) /\ log' = log
  BY DEF ReadBacklog
<1>2. next.pc = pc /\ pc \in {"idle", "recover"}
  BY DEF IdleTask
<1>3. IInv' /\ Thinks
  BY <1>1, ReadBacklogKeeps, SameThinks DEF JInv
<1> HIDE DEF next, pc, pending
<1> QED
  BY <1>1, <1>2, <1>3, LightStep

LEMMA RecoverThinks ==
  ASSUME Alone, JInv, NEW c \in Consumers, NEW t \in Tasks, Recover(c, t)
  PROVE  JInv' /\ Thinks
<1> DEFINE k == task[c][t]
           n == Min(k.todo)
           pc == IF log[n].type = "request" THEN "observe" ELSE "preempt"
           next == [k EXCEPT !.pc = pc, !.at = n, !.seen = now, !.todo = @ \ {n}]
<1>1. Step(c, t, next) /\ log' = log
  BY DEF Recover
<1>2. DOMAIN k = Fields
  BY HeldBy
<1>3. next.pc = pc /\ pc \in {"observe", "preempt"}
  BY <1>2 DEF Fields
<1>4. IInv' /\ Thinks
  BY <1>1, RecoverKeeps, SameThinks DEF JInv
<1> HIDE DEF next, pc, n
<1> QED
  BY <1>1, <1>3, <1>4, LightStep

LEMMA PreemptThinks ==
  ASSUME Alone, JInv, NEW c \in Consumers, NEW s \in Of(log, "foreground"), Preempt(c, s)
  PROVE  Thinks
<1> DEFINE open == {e \in ActiveEpochs(log, c) : s > e}
           closed == CHOOSE e \in open : TRUE
<1>1. LogInv(log)
  BY DEF JInv, IInv
<1>2. CASE open = {}
  BY <1>2, SameThinks DEF Preempt
<1>3. CASE open # {}
  <2>1. Emit(Preemption(closed, s))
    BY <1>3 DEF Preempt
  <2>2. closed \in ActiveEpochs(log, c) /\ s > closed
    BY <1>3
  <2> HIDE DEF closed
  <2>3. Active(log, closed)
    BY <1>1, <2>2, OpenEpochs
  <2> QED
    BY <2>1, <2>2, <2>3, ClosingIsPermitted, EmitThinks
<1> QED
  BY <1>2, <1>3

LEMMA RecoverForegroundThinks ==
  ASSUME Alone, JInv, NEW c \in Consumers, NEW t \in Tasks, RecoverForeground(c, t)
  PROVE  JInv' /\ Thinks
<1> DEFINE k == task[c][t]
           next == [k EXCEPT !.pc = "settle"]
<1>1. k.pc = "preempt" /\ Preempt(c, k.at) /\ Step(c, t, next)
  BY DEF RecoverForeground
<1>2. DOMAIN k = Fields /\ k.at \in Of(log, "foreground")
  BY <1>1, WorkOf DEF JInv, WorkInv, TaskInv
<1>3. next.pc = "settle"
  BY <1>2, ToPc
<1>4. IInv' /\ Thinks
  BY <1>1, <1>2, RecoverForegroundKeeps, PreemptThinks DEF JInv
<1> HIDE DEF next
<1> QED
  BY <1>1, <1>3, <1>4, LightStep

LEMMA HandleForegroundThinks ==
  ASSUME Alone, JInv, NEW c \in Consumers, HandleForeground(c)
  PROVE  JInv' /\ Thinks
<1>1. inbox[c] \in Seq(Of(log, "foreground")) /\ inbox[c] # <<>>
  BY DEF JInv, IInv, SubscriptionInv, HandleForeground
<1>2. Head(inbox[c]) \in Of(log, "foreground")
  BY <1>1
<1>3. Preempt(c, Head(inbox[c])) /\ task' = task
  BY DEF HandleForeground
<1>4. Thinks
  BY <1>2, <1>3, PreemptThinks
<1>5. IInv'
  BY HandleForegroundKeeps DEF JInv
<1> QED
  BY <1>3, <1>4, <1>5, AsideKeeps

LEMMA CheckpointForegroundThinks ==
  ASSUME Alone, JInv, NEW c \in Consumers, CheckpointForeground(c)
  PROVE  JInv' /\ Thinks
<1>1. /\ IInv /\ fg[c] \in 0..Len(log) /\ Served(log, c, fg[c])
      /\ Checkpoint(c, fg[c]) /\ task' = task
  BY DEF CheckpointForeground, JInv, IInv, SubscriptionInv
<1>2. Thinks
  BY <1>1, CheckpointThinks
<1>3. IInv'
  BY CheckpointForegroundKeeps DEF JInv
<1> QED
  BY <1>1, <1>2, <1>3, AsideKeeps

LEMMA OthersThinks ==
  ASSUME Alone, JInv, NEW f \in Facts, Others(f)
  PROVE  JInv' /\ Thinks
<1>1. IsExternal(f) /\ Emit(f) /\ task' = task
  BY EpochAssumption DEF Others
<1>2. f.type \in {"goal", "foreground"} \cup Findings
  BY <1>1, ExternalTypes
<1>3. Legal(log, f)
  <2>1. f.type = "calibration" => LegalCalibration(log, f)
    BY DEF Others, LegalCalibration
  <2> QED
    BY <1>2, <2>1 DEF Legal, Findings
<1>4. Permitted(log, f)
  BY <1>1, <1>2, <1>3 DEF Permitted, Admitted, Findings
<1>5. Thinks
  BY <1>1, <1>4, EmitThinks
<1>6. IInv'
  BY OthersKeeps DEF JInv
<1> QED
  BY <1>1, <1>5, <1>6, AsideKeeps

LEMMA RestThinks ==
  ASSUME Alone, JInv, Tick \/ UNCHANGED vars \/ \E c \in Consumers : Stop(c) \/ Crash(c)
  PROVE  JInv' /\ Thinks
<1>1. log' = log
  BY DEF Tick, vars, Stop, Crash
<1>2. IInv'
  BY TickKeeps, StutterKeeps, StopKeeps, CrashKeeps DEF JInv
<1>3. IdleTask.pc = "idle"
  BY DEF IdleTask
<1>4. ASSUME NEW c \in Consumers, NEW t \in Tasks
      PROVE  task'[c][t] = task[c][t] \/ task'[c][t] = IdleTask
  <2>1. CASE Tick \/ UNCHANGED vars
    BY <2>1 DEF Tick, vars
  <2>2. ASSUME NEW d \in Consumers, Stop(d)
        PROVE  task'[c][t] = task[c][t]
    BY <2>2 DEF Stop
  <2>3. ASSUME NEW d \in Consumers, Crash(d)
        PROVE  task'[c][t] = task[c][t] \/ task'[c][t] = IdleTask
    BY <2>3 DEF Crash, JInv, IInv, TasksInv
  <2> QED
    BY <2>1, <2>2, <2>3
<1> QED
  BY <1>1, <1>2, <1>3, <1>4, SameThinks, AsideKeeps

LEMMA NextThinks ==
  ASSUME Alone, JInv, [Next]_vars
  PROVE  JInv' /\ Thinks
<1>1. CASE \E c \in Consumers, t \in Tasks : Run(c, t)
  BY <1>1, RequestScanThinks, ObserveThinks, AbandonStaleThinks, ReobserveThinks,
     ExpireEpochThinks, StartEpochThinks, OutputThinks, SelectThinks, RecordAgendaThinks,
     FinishScanThinks, SettleThinks, ReadBacklogThinks, RecoverThinks, RecoverForegroundThinks
     DEF Run
<1>2. CASE \E c \in Consumers, t \in Callers : BeginScan(c, t)
  BY <1>2, BeginScanThinks
<1>3. CASE \E c \in Consumers, t \in Starters : Start(c, t)
  BY <1>3, StartThinks
<1>4. CASE \E c \in Consumers : Serve(c) \/ Stop(c) \/ Crash(c)
  BY <1>4, HandleForegroundThinks, CheckpointForegroundThinks, RestThinks DEF Serve
<1>5. CASE \E f \in Facts : Others(f)
  BY <1>5, OthersThinks
<1> QED
  BY <1>1, <1>2, <1>3, <1>4, <1>5, RestThinks DEF Next

LEMMA InitJInv ==
  ASSUME Init
  PROVE  JInv
<1>1. IInv
  BY InitIInv
<1>2. \A n \in DOMAIN log : IsExternal(log[n])
  BY EpochAssumption DEF Init
<1>3. \A n \in DOMAIN log : log[n].type \in {"goal", "foreground"} \cup Findings
  BY <1>2, ExternalTypes
<1>4. Of(log, "inquiry") = {} /\ Of(log, "activity") = {} /\ Of(log, "voc") = {} /\ Of(log, "agenda") = {}
  BY <1>3 DEF Of, Findings
<1>5. Mind(log)
  BY <1>1, <1>4 DEF Mind, IInv, Asked, Answered
<1>6. \A c \in Consumers : \A t \in Tasks : task[c][t].pc = "idle"
  BY DEF Init, IdleTask
<1>7. \A k : k.pc = "idle" => Holds(log, k)
  BY DEF Holds, Thought, Scanning
<1> QED
  BY <1>1, <1>5, <1>6, <1>7 DEF JInv

\* As long as one process works, what an epoch asks is settled by its cut: every
\* task of _process_scan that works on it finds the same and says the same.
THEOREM MindInvariant == Alone /\ Spec => []JInv
<1> SUFFICES ASSUME Alone PROVE Spec => []JInv
  OBVIOUS
<1>1. Init => JInv
  BY InitJInv
<1>2. JInv /\ [Next]_vars => JInv'
  BY NextThinks
<1> QED
  BY <1>1, <1>2, PTL DEF Spec

\* What an epoch of one process concludes stands: its agenda decides on all the
\* activities it will ever have, within the budget and greedily (select_agenda), and
\* no later epoch asks its questions again.
THEOREM EpochsConclude == Alone /\ Spec => []EpochInv
<1> SUFFICES ASSUME Alone PROVE Spec => []EpochInv
  OBVIOUS
<1>1. JInv => AgendasAreFinal
  <2> SUFFICES ASSUME JInv, NEW n \in Of(log, "agenda")
               PROVE  LET d == log[n].agenda
                      IN /\ d.selected \cup d.deferred \cup d.suppressed = ActivitiesOf(log, log[n].epoch)
                         /\ FitsWithin(d.used)
                         /\ \A a \in d.deferred : ~FitsWithin(Plus(d.used, a.topic))
                         /\ \A a \in d.selected : NetVOC(a.topic) > 0
    BY DEF AgendasAreFinal
  <2> DEFINE e == log[n].epoch
             Q == Questions(log, e)
  <2>1. /\ e \in Of(log, "request") /\ log[n].agenda = SelectAgenda(Q)
        /\ Q \subseteq ActivitiesOf(log, e) /\ Mind(log) /\ LogInv(log)
    BY DEF JInv, Mind, Answered
  <2>2. ActivitiesOf(log, e) = Q
    <3> HIDE DEF e
    <3> QED
      BY <2>1, ActivitiesAreAsked
  <2>3. Ranked(Q)
    <3>1. e \in DOMAIN log
      BY <2>1 DEF Of
    <3> HIDE DEF e
    <3> QED
      BY <2>1, <3>1, QuestionsAreRanked
  <2>4. Decides(SelectAgenda(Q), Q)
    <3> HIDE DEF Q
    <3> QED
      BY <2>3, AgendaDecides
  <2> QED
    BY <2>1, <2>2, <2>4 DEF Decides
<1>2. JInv => InquiriesAreNotRenewed
  <2> SUFFICES ASSUME JInv, NEW m \in Of(log, "activity"), NEW n \in Of(log, "activity"),
                      log[m].inquiry = log[n].inquiry
               PROVE  log[m].epoch = log[n].epoch
    BY DEF InquiriesAreNotRenewed
  <2>1. \A k \in Of(log, "activity") : \E i \in Of(log, "inquiry") :
          log[i].epoch = log[k].epoch /\ log[i].inquiry = log[k].inquiry
    BY DEF JInv, Mind, Answered
  <2>2. \A i, j \in Of(log, "inquiry") : log[i].inquiry = log[j].inquiry => i = j
    BY DEF JInv, Mind, Asked
  <2> QED
    BY <2>1, <2>2
<1> QED
  BY <1>1, <1>2, MindInvariant, DreamTypeCorrect, PTL DEF EpochInv

\* What one process appends is what EndogenousProjection.apply accepts when the log
\* is replayed, however its scans, recovery and subscription interleave.
THEOREM EpochsAreReplayable == Alone /\ Spec => Replayable
<1> SUFFICES ASSUME Alone PROVE Spec => Replayable
  OBVIOUS
<1>1. JInv /\ [Next]_vars =>
        [\A n \in (Len(log) + 1)..Len(log') : Legal(SubSeq(log', 1, n - 1), log'[n])]_log
  <2> SUFFICES ASSUME JInv, [Next]_vars
               PROVE  \A n \in (Len(log) + 1)..Len(log') : Legal(SubSeq(log', 1, n - 1), log'[n])
    OBVIOUS
  <2>1. IsLog(log)
    BY DEF JInv, IInv, LogInv
  <2>2. Thinks
    BY NextThinks
  <2> QED
    BY <2>1, <2>2, StepIsLegal
<1> QED
  BY <1>1, MindInvariant, PTL DEF Spec, Replayable
=============================================================================
