---------------------------- MODULE StewardshipProofs ----------------------------
(***************************************************************************)
(* Theorems about Stewardship, for any number of stewards, scenarios and   *)
(* commands, whatever the interleaving.                                    *)
(*                                                                         *)
(* The argument.  A step either appends nothing or appends one event that  *)
(* replay accepts, but for reports on external workstreams and v1 events   *)
(* of goals (StepEvents).                                                  *)
(* Applied turns a projection that a log can have (WellFormed) into one    *)
(* that a log can have, event by event: a revision continues its history,  *)
(* a commitment moves forward on its roadmap, and work is derived from its *)
(* commitment as it is or was (AppliedIsWellFormed).  The invariants and   *)
(* the actions' properties follow from that.                               *)
(*                                                                         *)
(* Two theorems have hypotheses that they need.  Replay accepts all that   *)
(* is appended while one steward reports on external workstreams           *)
(* (OneObserver), for it refuses a report that is dated before the one     *)
(* appended before it and admission does not, and while no v1 event leaves *)
(* a classified goal without success criteria (BareEventsStayApart), for   *)
(* replay refuses the revision and nothing kept the event out of the log.  *)
(* Orders are admitted under live goals while roadmaps keep the goals they *)
(* are for (ReasonsAreKept): admission asks for the goals of the current   *)
(* revision of the roadmap, and the run IntentReasons shows that others    *)
(* are named.                                                              *)
(***************************************************************************)
EXTENDS Stewardship, FiniteSetTheorems, SequenceTheorems, TLAPS

-----------------------------------------------------------------------------
\* Histories.

LEMMA HistoryFacts ==
  ASSUME NEW h, IsHistory(h)
  PROVE  /\ Len(h) \in Nat \ {0} /\ DOMAIN h = 1..Len(h) /\ h \in Seq(Range(h))
         /\ Last(h) = h[Len(h)] /\ Len(h) \in DOMAIN h
<1>1. h \in Seq(Range(h)) /\ h # <<>>
  BY DEF IsHistory
<1>2. Len(h) \in Nat /\ DOMAIN h = 1..Len(h)
  BY <1>1
<1>3. Len(h) # 0
  BY <1>1
<1> QED BY <1>1, <1>2, <1>3 DEF Last

LEMMA AppendHistory ==
  ASSUME NEW h, IsHistory(h) \/ h = <<>>, NEW v
  PROVE  /\ IsHistory(Append(h, v))
         /\ Len(Append(h, v)) = Len(h) + 1
         /\ DOMAIN Append(h, v) = 1..(Len(h) + 1) /\ Len(h) \in Nat /\ DOMAIN h = 1..Len(h)
         /\ \A n \in DOMAIN h : Append(h, v)[n] = h[n]
         /\ Append(h, v)[Len(h) + 1] = v
         /\ Last(Append(h, v)) = v
<1> DEFINE S == Range(h) \cup {v}
<1>0. Len(h) \in Nat /\ DOMAIN h = 1..Len(h)
  BY HistoryFacts
<1>1. h \in Seq(S)
  <2>1. CASE h = <<>>
    BY <2>1
  <2>2. CASE IsHistory(h)
    <3>1. h \in Seq(Range(h)) /\ Range(h) \subseteq S
      BY <2>2 DEF IsHistory
    <3> HIDE DEF S
    <3> QED BY <3>1, SeqMonotonic
  <2> QED BY <2>1, <2>2
<1>2. v \in S
  OBVIOUS
<1> HIDE DEF S
<1> DEFINE a == Append(h, v)
<1>3. /\ a \in Seq(S) /\ Len(a) = Len(h) + 1 /\ DOMAIN a = 1..(Len(h) + 1)
      /\ \A n \in 1..Len(h) : a[n] = h[n]
      /\ a[Len(h) + 1] = v
  BY <1>0, <1>1, <1>2
<1> HIDE DEF a
<1>4. a \in [1..Len(a) -> Range(a)]
  BY <1>0, <1>3 DEF Range
<1>5. a \in Seq(Range(a))
  BY <1>0, <1>3, <1>4, SeqDef
<1>6. a # <<>>
  BY <1>0, <1>3
<1>7. Last(a) = v
  BY <1>3 DEF Last
<1> QED BY <1>0, <1>3, <1>5, <1>6, <1>7 DEF a, IsHistory

\* What Extend makes of a function of histories.
LEMMA Extended ==
  ASSUME NEW f, \A i \in DOMAIN f : IsHistory(f[i]), NEW id, NEW v
  PROVE  /\ DOMAIN Extend(f, id, v) = DOMAIN f \cup {id}
         /\ \A i \in DOMAIN f : i # id => Extend(f, id, v)[i] = f[i]
         /\ Extend(f, id, v)[id] = Append(History(f, id), v)
         /\ id \in DOMAIN f => History(f, id) = f[id]
         /\ id \notin DOMAIN f => History(f, id) = <<>>
         /\ IsHistory(History(f, id)) \/ History(f, id) = <<>>
         /\ \A i \in DOMAIN Extend(f, id, v) : IsHistory(Extend(f, id, v)[i])
<1>1. IsHistory(History(f, id)) \/ History(f, id) = <<>>
  BY DEF History
<1>2. IsHistory(Append(History(f, id), v))
  BY <1>1, AppendHistory
<1> QED BY <1>1, <1>2 DEF Extend, Put, History

LEMMA NumberedExtension ==
  ASSUME NEW f, Numbered(f), NEW id, NEW r, r.version = Len(History(f, id)) + 1
  PROVE  Numbered(Extend(f, id, r))
<1>1. \A i \in DOMAIN f : IsHistory(f[i])
  BY DEF Numbered
<1>e. /\ DOMAIN Extend(f, id, r) = DOMAIN f \cup {id}
      /\ \A i \in DOMAIN f : i # id => Extend(f, id, r)[i] = f[i]
      /\ Extend(f, id, r)[id] = Append(History(f, id), r)
      /\ (id \in DOMAIN f => History(f, id) = f[id])
      /\ (id \notin DOMAIN f => History(f, id) = <<>>)
      /\ IsHistory(History(f, id)) \/ History(f, id) = <<>>
      /\ \A i \in DOMAIN Extend(f, id, r) : IsHistory(Extend(f, id, r)[i])
  BY <1>1, Extended
<1> DEFINE g == Extend(f, id, r)
           h == History(f, id)
<1>2. /\ DOMAIN g = DOMAIN f \cup {id} /\ g[id] = Append(h, r)
      /\ \A i \in DOMAIN f : i # id => g[i] = f[i]
      /\ (id \in DOMAIN f => h = f[id]) /\ (id \notin DOMAIN f => h = <<>>)
      /\ \A i \in DOMAIN g : IsHistory(g[i])
      /\ IsHistory(h) \/ h = <<>>
  BY <1>e
<1>3. \A n \in DOMAIN h : h[n].version = n
  BY <1>2 DEF Numbered
<1>4. r.version = Len(h) + 1
  OBVIOUS
<1> HIDE DEF g, h
<1>5. \A n \in DOMAIN g[id] : g[id][n].version = n
  <2>1. /\ DOMAIN Append(h, r) = 1..(Len(h) + 1) /\ Len(h) \in Nat /\ DOMAIN h = 1..Len(h)
        /\ \A n \in DOMAIN h : Append(h, r)[n] = h[n]
        /\ Append(h, r)[Len(h) + 1] = r
    BY <1>2, AppendHistory
  <2> SUFFICES ASSUME NEW n \in 1..(Len(h) + 1) PROVE Append(h, r)[n].version = n
    BY <1>2, <2>1
  <2>2. CASE n = Len(h) + 1
    BY <1>4, <2>1, <2>2
  <2>3. CASE n # Len(h) + 1
    <3>1. n \in DOMAIN h
      BY <2>1, <2>3
    <3> QED BY <1>3, <2>1, <3>1
  <2> QED BY <2>2, <2>3
<1> QED BY <1>2, <1>5 DEF Numbered, g

\* A revision that is known keeps its content when a history is extended.
LEMMA KnownIsKept ==
  ASSUME NEW f, \A i \in DOMAIN f : IsHistory(f[i]), NEW id, NEW v, NEW ref, IsKnown(f, ref)
  PROVE  IsKnown(Extend(f, id, v), ref) /\ At(Extend(f, id, v), ref) = At(f, ref)
<1>e. /\ DOMAIN Extend(f, id, v) = DOMAIN f \cup {id}
      /\ \A i \in DOMAIN f : i # id => Extend(f, id, v)[i] = f[i]
      /\ Extend(f, id, v)[id] = Append(History(f, id), v)
      /\ (id \in DOMAIN f => History(f, id) = f[id])
  BY DEF Extend, Put, History
<1> DEFINE g == Extend(f, id, v)
<1>1. /\ DOMAIN g = DOMAIN f \cup {id} /\ g[id] = Append(History(f, id), v)
      /\ \A i \in DOMAIN f : i # id => g[i] = f[i]
      /\ id \in DOMAIN f => History(f, id) = f[id]
  BY <1>e
<1>2. ref[1] \in DOMAIN f /\ ref[2] \in DOMAIN f[ref[1]]
  BY DEF IsKnown
<1> HIDE DEF g
<1>3. CASE ref[1] # id
  BY <1>1, <1>2, <1>3 DEF IsKnown, At, g
<1>4. CASE ref[1] = id
  <2>1. IsHistory(f[id]) /\ History(f, id) = f[id]
    BY <1>1, <1>2, <1>4
  <2>2. /\ DOMAIN Append(f[id], v) = 1..(Len(f[id]) + 1) /\ Len(f[id]) \in Nat
        /\ DOMAIN f[id] = 1..Len(f[id])
        /\ \A n \in DOMAIN f[id] : Append(f[id], v)[n] = f[id][n]
    BY <2>1, AppendHistory
  <2>3. g[id] = Append(f[id], v)
    BY <1>1, <2>1
  <2>4. ref[2] \in DOMAIN g[id] /\ g[id][ref[2]] = f[id][ref[2]]
    BY <1>2, <1>4, <2>2, <2>3
  <2> QED BY <1>1, <1>2, <1>4, <2>4 DEF IsKnown, At, g
<1> QED BY <1>3, <1>4
-----------------------------------------------------------------------------
\* Goals.

\* A revision that may follow the ones of its goal: the lineage of the last, governing
\* goals that exist, and the principal of a user's or constitutional goal.
Continues(goals, g, r) ==
  /\ IsGoalRevision(r) /\ r.version = Len(History(goals, g)) + 1
  /\ r.refs \subseteq DOMAIN goals
  /\ g \in DOMAIN goals =>
       LET current == Last(goals[g])
       IN /\ r.kind = current.kind /\ r.origin = current.origin /\ r.refs = current.refs
          /\ r.kind \in GoverningKinds => r.authority.principal = current.origin.principal
  /\ g \notin DOMAIN goals =>
       (r.kind \in GoverningKinds => r.authority.principal = r.origin.principal)

LEMMA LineageGrows ==
  ASSUME NEW goals, GoalsAreWellFormed(goals), NEW g, NEW r, Continues(goals, g, r)
  PROVE  LineageIsKept(Extend(goals, g, r))
<1>0. \A i \in DOMAIN goals : IsHistory(goals[i])
  BY DEF GoalsAreWellFormed, Numbered
<1>1. /\ DOMAIN Extend(goals, g, r) = DOMAIN goals \cup {g}
      /\ \A i \in DOMAIN goals : i # g => Extend(goals, g, r)[i] = goals[i]
      /\ Extend(goals, g, r)[g] = Append(History(goals, g), r)
      /\ (g \in DOMAIN goals => History(goals, g) = goals[g])
      /\ (g \notin DOMAIN goals => History(goals, g) = <<>>)
      /\ IsHistory(History(goals, g)) \/ History(goals, g) = <<>>
      /\ \A i \in DOMAIN Extend(goals, g, r) : IsHistory(Extend(goals, g, r)[i])
  BY <1>0, Extended
<1> DEFINE h == History(goals, g)
           e == Extend(goals, g, r)
<1>2. /\ DOMAIN Append(h, r) = 1..(Len(h) + 1) /\ Len(h) \in Nat /\ DOMAIN h = 1..Len(h)
      /\ \A n \in DOMAIN h : Append(h, r)[n] = h[n]
      /\ Append(h, r)[Len(h) + 1] = r
  BY <1>1, AppendHistory
<1>3. LineageIsKept(goals)
  BY DEF GoalsAreWellFormed
<1> SUFFICES ASSUME NEW i \in DOMAIN e, NEW n \in DOMAIN e[i]
             PROVE  /\ e[i][n].kind = e[i][1].kind /\ e[i][n].origin = e[i][1].origin
                    /\ e[i][n].refs = e[i][1].refs
                    /\ e[i][n].kind \in GoverningKinds =>
                         e[i][n].authority.principal = e[i][1].origin.principal
  BY DEF LineageIsKept
<1>e. /\ DOMAIN e = DOMAIN goals \cup {g} /\ e[g] = Append(h, r)
      /\ \A j \in DOMAIN goals : j # g => e[j] = goals[j]
      /\ (g \in DOMAIN goals => h = goals[g]) /\ (g \notin DOMAIN goals => h = <<>>)
  BY <1>1
<1> HIDE DEF e, h
<1>4. CASE i # g
  BY <1>e, <1>3, <1>4 DEF LineageIsKept
<1>5. CASE i = g /\ g \in DOMAIN goals
  <2>1. /\ Len(h) \in 1..Len(h) /\ 1 \in DOMAIN h /\ Last(goals[g]) = h[Len(h)]
    BY <1>0, <1>e, <1>5, HistoryFacts
  <2>2. /\ h[Len(h)].kind = h[1].kind /\ h[Len(h)].origin = h[1].origin
        /\ h[Len(h)].refs = h[1].refs
    BY <1>2, <1>3, <1>5, <1>e, <2>1 DEF LineageIsKept
  <2>3. e[g][1] = h[1]
    BY <1>2, <1>e, <2>1
  <2>4. CASE n = Len(h) + 1
    <3>1. e[i][n] = r
      BY <1>2, <1>5, <1>e, <2>4
    <3>2. /\ r.kind = h[Len(h)].kind /\ r.origin = h[Len(h)].origin
          /\ r.refs = h[Len(h)].refs
          /\ r.kind \in GoverningKinds => r.authority.principal = h[Len(h)].origin.principal
      BY <1>5, <2>1 DEF Continues
    <3> QED BY <1>5, <2>2, <2>3, <3>1, <3>2
  <2>5. CASE n # Len(h) + 1
    <3>1. n \in DOMAIN h /\ e[i][n] = h[n]
      BY <1>2, <1>5, <1>e, <2>5
    <3> QED BY <1>3, <1>5, <1>e, <2>3, <3>1 DEF LineageIsKept
  <2> QED BY <2>4, <2>5
<1>6. CASE i = g /\ g \notin DOMAIN goals
  <2>1. Len(h) = 0 /\ n = 1
    BY <1>2, <1>6, <1>e
  <2>2. e[i][1] = r
    BY <1>2, <1>6, <1>e, <2>1
  <2> QED BY <1>6, <2>1, <2>2 DEF Continues
<1> QED BY <1>e, <1>4, <1>5, <1>6

LEMMA GoalsGrow ==
  ASSUME NEW goals, GoalsAreWellFormed(goals), NEW g, NEW r, Continues(goals, g, r)
  PROVE  GoalsAreWellFormed(Extend(goals, g, r))
<1>0. \A i \in DOMAIN goals : IsHistory(goals[i])
  BY DEF GoalsAreWellFormed, Numbered
<1>1. /\ DOMAIN Extend(goals, g, r) = DOMAIN goals \cup {g}
      /\ \A i \in DOMAIN goals : i # g => Extend(goals, g, r)[i] = goals[i]
      /\ Extend(goals, g, r)[g] = Append(History(goals, g), r)
      /\ (g \in DOMAIN goals => History(goals, g) = goals[g])
      /\ (g \notin DOMAIN goals => History(goals, g) = <<>>)
      /\ IsHistory(History(goals, g)) \/ History(goals, g) = <<>>
      /\ \A i \in DOMAIN Extend(goals, g, r) : IsHistory(Extend(goals, g, r)[i])
  BY <1>0, Extended
<1> DEFINE h == History(goals, g)
           e == Extend(goals, g, r)
<1>2. /\ DOMAIN Append(h, r) = 1..(Len(h) + 1) /\ Len(h) \in Nat /\ DOMAIN h = 1..Len(h)
      /\ \A n \in DOMAIN h : Append(h, r)[n] = h[n]
      /\ Append(h, r)[Len(h) + 1] = r
      /\ Last(Append(h, r)) = r
  BY <1>1, AppendHistory
<1>3. LineageIsKept(e)
  BY LineageGrows
<1>4. Numbered(e)
  <2>1. Numbered(goals) /\ r.version = Len(History(goals, g)) + 1
    BY DEF GoalsAreWellFormed, Continues
  <2> QED BY <2>1, NumberedExtension
<1>e. /\ DOMAIN e = DOMAIN goals \cup {g} /\ e[g] = Append(h, r)
      /\ \A j \in DOMAIN goals : j # g => e[j] = goals[j]
      /\ (g \in DOMAIN goals => h = goals[g]) /\ (g \notin DOMAIN goals => h = <<>>)
  BY <1>1
<1> HIDE DEF e, h
<1>r. IsGoalRevision(r) /\ r.refs \subseteq DOMAIN goals
  BY DEF Continues
<1>5. ASSUME NEW i \in DOMAIN e, NEW n \in DOMAIN e[i]
      PROVE  IsGoalRevision(e[i][n]) /\ e[i][n].refs \subseteq DOMAIN e
  <2>1. CASE i # g
    BY <1>e, <2>1 DEF GoalsAreWellFormed
  <2>2. CASE i = g /\ n = Len(h) + 1
    BY <1>2, <1>e, <1>r, <2>2
  <2>3. CASE i = g /\ n # Len(h) + 1
    <3>1. n \in DOMAIN h /\ e[i][n] = h[n] /\ g \in DOMAIN goals
      BY <1>2, <1>e, <2>3
    <3> QED BY <1>e, <2>3, <3>1 DEF GoalsAreWellFormed
  <2> QED BY <2>1, <2>2, <2>3
<1>6. \A i \in DOMAIN goals : Last(e[i]).refs = Last(goals[i]).refs
  <2> SUFFICES ASSUME NEW i \in DOMAIN goals PROVE Last(e[i]).refs = Last(goals[i]).refs
    OBVIOUS
  <2>1. CASE i # g
    BY <1>e, <2>1
  <2>2. CASE i = g
    BY <1>2, <1>e, <2>2 DEF Continues
  <2> QED BY <2>1, <2>2
<1>7. \A i \in DOMAIN goals : Last(goals[i]).refs \subseteq DOMAIN goals
  <2> SUFFICES ASSUME NEW i \in DOMAIN goals PROVE Last(goals[i]).refs \subseteq DOMAIN goals
    OBVIOUS
  <2>1. Last(goals[i]) = goals[i][Len(goals[i])] /\ Len(goals[i]) \in DOMAIN goals[i]
    BY <1>0, HistoryFacts
  <2> QED BY <2>1 DEF GoalsAreWellFormed
<1>8. GoverningIsAcyclic(e)
  <2> SUFFICES ASSUME NEW S \in SUBSET DOMAIN e, S # {}
               PROVE  \E i \in S : Last(e[i]).refs \cap S = {}
    BY DEF GoverningIsAcyclic
  <2>1. GoverningIsAcyclic(goals)
    BY DEF GoalsAreWellFormed
  <2>2. CASE S \subseteq DOMAIN goals
    BY <1>6, <2>1, <2>2 DEF GoverningIsAcyclic
  <2>3. CASE g \in S /\ g \notin DOMAIN goals
    <3>1. CASE S = {g}
      <4>1. Last(e[g]).refs \cap S = {}
        BY <1>2, <1>e, <1>r, <2>3, <3>1
      <4> QED BY <2>3, <4>1
    <3>2. CASE S # {g}
      <4>1. S \ {g} \in SUBSET DOMAIN goals /\ S \ {g} # {}
        BY <1>e, <2>3, <3>2
      <4>2. PICK i \in S \ {g} : Last(goals[i]).refs \cap (S \ {g}) = {}
        BY <2>1, <4>1 DEF GoverningIsAcyclic
      <4>3. i \in DOMAIN goals
        BY <4>1
      <4>4. Last(e[i]).refs \cap S = {}
        BY <1>6, <1>7, <2>3, <4>2, <4>3
      <4> QED BY <4>2, <4>4
    <3> QED BY <3>1, <3>2
  <2> QED BY <1>e, <2>2, <2>3
<1>9. GoalsAreWellFormed(e)
  BY <1>3, <1>4, <1>5, <1>8 DEF GoalsAreWellFormed
<1> QED BY <1>9 DEF e
-----------------------------------------------------------------------------
\* Commitments and the work for them.

LEMMA KnownVersion ==
  ASSUME NEW f, Numbered(f), NEW ref, IsKnown(f, ref)
  PROVE  ref[1] \in DOMAIN f /\ ref[2] \in Nat \ {0} /\ ref[2] <= Len(f[ref[1]])
         /\ Len(f[ref[1]]) \in Nat /\ IsHistory(f[ref[1]])
<1>1. IsHistory(f[ref[1]]) /\ ref[1] \in DOMAIN f /\ ref[2] \in DOMAIN f[ref[1]]
  BY DEF Numbered, IsKnown
<1>2. DOMAIN f[ref[1]] = 1..Len(f[ref[1]]) /\ Len(f[ref[1]]) \in Nat
  BY <1>1, HistoryFacts
<1> QED BY <1>1, <1>2

LEMMA CurrentIsKnown ==
  ASSUME NEW f, Numbered(f), NEW ref, IsCurrent(f, ref)
  PROVE  IsKnown(f, ref) /\ At(f, ref) = Last(f[ref[1]])
<1>1. IsHistory(f[ref[1]])
  BY DEF Numbered, IsCurrent
<1>2. /\ Len(f[ref[1]]) \in DOMAIN f[ref[1]]
      /\ Last(f[ref[1]]) = f[ref[1]][Len(f[ref[1]])]
  BY <1>1, HistoryFacts
<1> QED BY <1>2 DEF IsCurrent, IsKnown, At

\* Work stays well formed while commitments and work are left alone.
LEMMA WorkRests ==
  ASSUME NEW s, WorkIsWellFormed(s), NEW t,
         t.proposals = s.proposals, t.admitted = s.admitted,
         t.commitments = s.commitments, s.roles \subseteq t.roles
  PROVE  WorkIsWellFormed(t)
<1>1. PendingWork(t) = PendingWork(s)
  BY DEF PendingWork
<1>2. ASSUME NEW q \in t.proposals PROVE IsDerived(t, q)
  <2>1. IsDerived(s, q)
    BY DEF WorkIsWellFormed
  <2>2. Assisted(s, q) => Assisted(t, q)
    BY DEF Assisted
  <2> QED BY <2>1, <2>2 DEF IsDerived
<1> QED BY <1>1, <1>2 DEF WorkIsWellFormed

LEMMA CommitmentsRest ==
  ASSUME NEW s, CommitmentsAreWellFormed(s), NEW t, t.commitments = s.commitments,
         \A ref : IsKnown(s.roadmaps, ref) => IsKnown(t.roadmaps, ref)
  PROVE  CommitmentsAreWellFormed(t)
BY DEF CommitmentsAreWellFormed

\* What may follow a commitment: the same outcome for the same goals, as it was staffed,
\* or on a newer revision of its roadmap.
Succeeds(c, d) ==
  /\ d.node = c.node /\ d.goals = c.goals
  /\ \/ d.roadmap = c.roadmap /\ d.roles = c.roles /\ d.envelope = c.envelope
     \/ /\ c.roadmap # <<>> /\ d.roadmap # <<>>
        /\ d.roadmap[1] = c.roadmap[1] /\ d.roadmap[2] > c.roadmap[2]

LEMMA CommitmentChanges ==
  ASSUME NEW s, CommitmentsAreWellFormed(s), WorkIsWellFormed(s), Numbered(s.roadmaps),
         NEW t, NEW id, NEW d,
         t.commitments = Put(s.commitments, id, d), t.roadmaps = s.roadmaps,
         t.roles = s.roles, t.proposals = s.proposals, t.admitted = s.admitted,
         IsCommitment(d), d.status \in Lifecycle, IsScoped(d),
         \/ d.roadmap = <<>>
         \/ d.roadmap = <<d.roadmap[1], d.roadmap[2]>> /\ IsKnown(s.roadmaps, d.roadmap),
         id \in DOMAIN s.commitments => Succeeds(s.commitments[id], d)
  PROVE  CommitmentsAreWellFormed(t) /\ WorkIsWellFormed(t)
<1>1. /\ DOMAIN t.commitments = DOMAIN s.commitments \cup {id} /\ t.commitments[id] = d
      /\ \A i \in DOMAIN s.commitments : i # id => t.commitments[i] = s.commitments[i]
  BY DEF Put
<1>2. CommitmentsAreWellFormed(t)
  <2> SUFFICES ASSUME NEW i \in DOMAIN t.commitments
               PROVE  LET c == t.commitments[i]
                      IN /\ IsCommitment(c) /\ c.status \in Lifecycle /\ IsScoped(c)
                         /\ \/ c.roadmap = <<>>
                            \/ /\ c.roadmap = <<c.roadmap[1], c.roadmap[2]>>
                               /\ IsKnown(t.roadmaps, c.roadmap)
    BY DEF CommitmentsAreWellFormed
  <2>1. CASE i = id
    BY <1>1, <2>1
  <2>2. CASE i # id
    BY <1>1, <2>2 DEF CommitmentsAreWellFormed
  <2> QED BY <2>1, <2>2
<1>3. PendingWork(t) = PendingWork(s)
  BY DEF PendingWork
<1>4. ASSUME NEW q \in s.proposals PROVE IsDerived(t, q)
  <2> DEFINE c == s.commitments[q.commitment]
             e == t.commitments[q.commitment]
  <2>1. /\ q.commitment \in DOMAIN s.commitments
        /\ q.order.commitment = q.commitment /\ q.order.roadmap = q.roadmap
        /\ q.order.node = q.node
        /\ q.node = c.node /\ q.order.goals = c.goals /\ c.roadmap # <<>>
        /\ q.roadmap = <<c.roadmap[1], q.roadmap[2]>> /\ q.roadmap[2] \in 1..c.roadmap[2]
        /\ q.roadmap = c.roadmap => Assisted(s, q)
    BY DEF WorkIsWellFormed, IsDerived
  <2>2. c.roadmap = <<c.roadmap[1], c.roadmap[2]>> /\ IsKnown(s.roadmaps, c.roadmap)
    BY <2>1 DEF CommitmentsAreWellFormed
  <2>3. c.roadmap[2] \in Nat \ {0}
    BY <2>2, KnownVersion
  <2>4. q.commitment \in DOMAIN t.commitments
    BY <1>1, <2>1
  <2>5. CASE e.roadmap = c.roadmap /\ e.roles = c.roles /\ e.envelope = c.envelope
             /\ e.node = c.node /\ e.goals = c.goals
    <3>1. Assisted(s, q) => Assisted(t, q)
      BY <2>5 DEF Assisted
    <3> QED BY <2>1, <2>4, <2>5, <3>1 DEF IsDerived
  <2>6. CASE /\ e.roadmap = <<e.roadmap[1], e.roadmap[2]>> /\ IsKnown(s.roadmaps, e.roadmap)
             /\ e.roadmap[1] = c.roadmap[1] /\ e.roadmap[2] > c.roadmap[2]
             /\ e.node = c.node /\ e.goals = c.goals
    <3>1. e.roadmap[2] \in Nat
      BY <2>6, KnownVersion
    <3>2. q.roadmap[2] \in 1..e.roadmap[2] /\ q.roadmap[2] # e.roadmap[2]
      BY <2>1, <2>3, <2>6, <3>1
    <3>3. e.roadmap # <<>> /\ q.roadmap # e.roadmap
      BY <2>6, <3>2
    <3> HIDE DEF c, e
    <3>4. q.roadmap = <<e.roadmap[1], q.roadmap[2]>> /\ q.node = e.node /\ q.order.goals = e.goals
      BY <2>1, <2>6
    <3> QED BY <2>1, <2>4, <3>2, <3>3, <3>4 DEF IsDerived, e
  <2>7. CASE q.commitment # id
    BY <1>1, <2>1, <2>5, <2>7
  <2>8. CASE q.commitment = id
    <3>1. e = d /\ Succeeds(c, d)
      BY <1>1, <2>1, <2>8
    <3>2. d.roadmap # <<>> =>
            d.roadmap = <<d.roadmap[1], d.roadmap[2]>> /\ IsKnown(s.roadmaps, d.roadmap)
      OBVIOUS
    <3> HIDE DEF c, e
    <3> QED BY <2>5, <2>6, <3>1, <3>2 DEF Succeeds
  <2> QED BY <2>7, <2>8
<1> QED BY <1>1, <1>2, <1>3, <1>4 DEF WorkIsWellFormed
-----------------------------------------------------------------------------
\* Applying an event.

\* The projection with these fields.
Projection(goals, roadmaps, roles, envelopes, commitments, proposals, admitted, external, graphs) ==
  [goals |-> goals, roadmaps |-> roadmaps, roles |-> roles, envelopes |-> envelopes,
   commitments |-> commitments, proposals |-> proposals, admitted |-> admitted,
   external |-> external, graphs |-> graphs]
IsProjection(s) ==
  s = Projection(s.goals, s.roadmaps, s.roles, s.envelopes, s.commitments, s.proposals,
                 s.admitted, s.external, s.graphs)

\* Contracts that the coordinator builds rather than replay tests: complete revisions,
\* work derived from a commitment, orders that were proposed, and v1 events.
Sound(s, ev) ==
  /\ ev.type = "goal" => IsGoalRevision(ev.value)
  /\ ev.type = "commitment" =>
       /\ IsCommitment(ev.value)
       /\ ev.value.roadmap = <<ev.value.roadmap[1], ev.value.roadmap[2]>>
  /\ ev.type = "transition" =>
       \A r \in ev.value.remap : r.roadmap = <<r.roadmap[1], r.roadmap[2]>>
  /\ ev.type = "proposal" =>
       \E n, id, criteria, intervention, support, signals, at :
         /\ id \in DOMAIN s.commitments /\ s.commitments[id].roadmap # <<>>
         /\ ev.value = WorkOrderProposal(n, id, s.commitments[id], criteria, intervention,
                                         support, signals, at)
  /\ ev.type = "order" => \E q \in s.proposals : q.order = ev.value
  /\ ev.type = "legacy_commitment" => Upcast(ev.status).status \in Lifecycle

Types == {"goal", "roadmap", "roles", "envelope", "commitment", "transition", "external",
          "proposal", "order", "graph", "legacy_goal", "legacy_commitment"}

\* What each event changes, and that nothing else of the projection is.
LEMMA AppliedFields ==
  ASSUME NEW s, IsProjection(s), NEW ev
  PROVE  /\ ev.type = "goal" =>
              Applied(s, ev) =
                Projection(Extend(s.goals, ev.id, ev.value), s.roadmaps, s.roles, s.envelopes,
                           s.commitments, s.proposals, s.admitted, s.external, s.graphs)
         /\ ev.type = "roadmap" =>
              Applied(s, ev) =
                Projection(s.goals, Extend(s.roadmaps, ev.id, ev.value), s.roles, s.envelopes,
                           s.commitments, s.proposals, s.admitted, s.external, s.graphs)
         /\ ev.type = "roles" =>
              Applied(s, ev) =
                Projection(s.goals, s.roadmaps, s.roles \cup {ev.value}, s.envelopes,
                           s.commitments, s.proposals, s.admitted, s.external, s.graphs)
         /\ ev.type = "envelope" =>
              Applied(s, ev) =
                Projection(s.goals, s.roadmaps, s.roles, s.envelopes \cup {ev.value},
                           s.commitments, s.proposals, s.admitted, s.external, s.graphs)
         /\ ev.type = "commitment" =>
              Applied(s, ev) =
                Projection(s.goals, s.roadmaps, s.roles, s.envelopes,
                           Put(s.commitments, ev.id, ev.value), s.proposals, s.admitted,
                           s.external, s.graphs)
         /\ ev.type = "external" =>
              Applied(s, ev) =
                Projection(s.goals, s.roadmaps, s.roles, s.envelopes, s.commitments,
                           s.proposals, s.admitted, Extend(s.external, ev.id, ev.value),
                           s.graphs)
         /\ ev.type = "proposal" =>
              Applied(s, ev) =
                Projection(s.goals, s.roadmaps, s.roles, s.envelopes, s.commitments,
                           s.proposals \cup {ev.value}, s.admitted, s.external, s.graphs)
         /\ ev.type = "order" =>
              Applied(s, ev) =
                Projection(s.goals, s.roadmaps, s.roles, s.envelopes, s.commitments,
                           s.proposals, s.admitted \cup {ev.value}, s.external, s.graphs)
         /\ ev.type = "graph" =>
              Applied(s, ev) =
                Projection(s.goals, s.roadmaps, s.roles, s.envelopes, s.commitments,
                           s.proposals, s.admitted, s.external, s.graphs \cup {ev.id})
<1>1. CASE ev.type = "goal"
  <2>1. Applied(s, ev) = [s EXCEPT !.goals = Extend(@, ev.id, ev.value)]
    BY <1>1, Zenon DEF Applied
  <2> QED BY <1>1, <2>1 DEF IsProjection, Projection
<1>2. CASE ev.type = "roadmap"
  <2>1. Applied(s, ev) = [s EXCEPT !.roadmaps = Extend(@, ev.id, ev.value)]
    BY <1>2, Zenon DEF Applied
  <2> QED BY <1>2, <2>1 DEF IsProjection, Projection
<1>3. CASE ev.type = "roles"
  <2>1. Applied(s, ev) = [s EXCEPT !.roles = @ \cup {ev.value}]
    BY <1>3, Zenon DEF Applied
  <2> QED BY <1>3, <2>1 DEF IsProjection, Projection
<1>4. CASE ev.type = "envelope"
  <2>1. Applied(s, ev) = [s EXCEPT !.envelopes = @ \cup {ev.value}]
    BY <1>4, Zenon DEF Applied
  <2> QED BY <1>4, <2>1 DEF IsProjection, Projection
<1>5. CASE ev.type = "commitment"
  <2>1. Applied(s, ev) = [s EXCEPT !.commitments = Put(@, ev.id, ev.value)]
    BY <1>5, Zenon DEF Applied
  <2> QED BY <1>5, <2>1 DEF IsProjection, Projection
<1>6. CASE ev.type = "external"
  <2>1. Applied(s, ev) = [s EXCEPT !.external = Extend(@, ev.id, ev.value)]
    BY <1>6, Zenon DEF Applied
  <2> QED BY <1>6, <2>1 DEF IsProjection, Projection
<1>7. CASE ev.type = "proposal"
  <2>1. Applied(s, ev) = [s EXCEPT !.proposals = @ \cup {ev.value}]
    BY <1>7, Zenon DEF Applied
  <2> QED BY <1>7, <2>1 DEF IsProjection, Projection
<1>8. CASE ev.type = "order"
  <2>1. Applied(s, ev) = [s EXCEPT !.admitted = @ \cup {ev.value}]
    BY <1>8, Zenon DEF Applied
  <2> QED BY <1>8, <2>1 DEF IsProjection, Projection
<1>9. CASE ev.type = "graph"
  <2>1. Applied(s, ev) = [s EXCEPT !.graphs = @ \cup {ev.id}]
    BY <1>9, Zenon DEF Applied
  <2> QED BY <1>9, <2>1 DEF IsProjection, Projection
<1> QED BY <1>1, <1>2, <1>3, <1>4, <1>5, <1>6, <1>7, <1>8, <1>9

\* What a transition makes of a commitment.
LEMMA TransitionedFields ==
  ASSUME NEW c, IsCommitment(c), NEW t
  PROVE  /\ t.remap = {} =>
              Transitioned(c, t) =
                Commitment(c.owner, t.to, t.closure, c.goals, c.roadmap, c.node, c.roles,
                           c.envelope, c.due, c.lead, c.deadline)
         /\ t.remap # {} => \E r \in t.remap :
              Transitioned(c, t) =
                Commitment(c.owner, t.to, t.closure, c.goals, r.roadmap, c.node, {r.roles},
                           r.envelope, c.due, c.lead, c.deadline)
<1> DEFINE moved == [c EXCEPT !.status = t.to, !.closure = t.closure]
<1>1. moved = Commitment(c.owner, t.to, t.closure, c.goals, c.roadmap, c.node, c.roles,
                         c.envelope, c.due, c.lead, c.deadline)
  <2>1. moved = [[c EXCEPT !.status = t.to] EXCEPT !.closure = t.closure]
    OBVIOUS
  <2>2. [c EXCEPT !.status = t.to]
          = Commitment(c.owner, t.to, c.closure, c.goals, c.roadmap, c.node, c.roles,
                       c.envelope, c.due, c.lead, c.deadline)
    BY DEF IsCommitment, Commitment
  <2> HIDE DEF moved
  <2> QED BY <2>1, <2>2 DEF Commitment
<1>2. t.remap = {} => Transitioned(c, t) = moved
  BY DEF Transitioned
<1>3. ASSUME t.remap # {}
      PROVE  \E r \in t.remap :
               Transitioned(c, t) = [moved EXCEPT !.roadmap = r.roadmap, !.roles = {r.roles},
                                                  !.envelope = r.envelope]
  BY <1>3 DEF Transitioned
<1>4. ASSUME NEW r
      PROVE  [moved EXCEPT !.roadmap = r.roadmap, !.roles = {r.roles}, !.envelope = r.envelope]
             = Commitment(c.owner, t.to, t.closure, c.goals, r.roadmap, c.node, {r.roles},
                          r.envelope, c.due, c.lead, c.deadline)
  <2> HIDE DEF moved
  <2> DEFINE m1 == [moved EXCEPT !.roadmap = r.roadmap]
             m2 == [m1 EXCEPT !.roles = {r.roles}]
  <2>1. [moved EXCEPT !.roadmap = r.roadmap, !.roles = {r.roles}, !.envelope = r.envelope]
          = [m2 EXCEPT !.envelope = r.envelope]
    BY Zenon
  <2>2. m1 = Commitment(c.owner, t.to, t.closure, c.goals, r.roadmap, c.node, c.roles,
                        c.envelope, c.due, c.lead, c.deadline)
    BY <1>1 DEF Commitment
  <2> HIDE DEF m1
  <2>3. m2 = Commitment(c.owner, t.to, t.closure, c.goals, r.roadmap, c.node, {r.roles},
                        c.envelope, c.due, c.lead, c.deadline)
    BY <2>2 DEF Commitment
  <2> HIDE DEF m2
  <2>4. [m2 EXCEPT !.envelope = r.envelope]
          = Commitment(c.owner, t.to, t.closure, c.goals, r.roadmap, c.node, {r.roles},
                       r.envelope, c.due, c.lead, c.deadline)
    BY <2>3 DEF Commitment
  <2> QED BY <2>1, <2>4
<1> HIDE DEF moved
<1> QED BY <1>1, <1>2, <1>3, <1>4

LEMMA AppliedTransition ==
  ASSUME NEW s, IsProjection(s), NEW ev, ev.type = "transition", ev.id \in DOMAIN s.commitments
  PROVE  Applied(s, ev) =
           Projection(s.goals, s.roadmaps, s.roles, s.envelopes,
                      Put(s.commitments, ev.id,
                          Transitioned(s.commitments[ev.id], ev.value)),
                      s.proposals, s.admitted, s.external, s.graphs)
<1> DEFINE d == Transitioned(s.commitments[ev.id], ev.value)
<1>1. Applied(s, ev) = [s EXCEPT !.commitments[ev.id] = Transitioned(@, ev.value)]
  BY Zenon DEF Applied
<1>2. "commitments" \in DOMAIN s
  BY DEF IsProjection, Projection
<1>3. [s EXCEPT !.commitments[ev.id] = Transitioned(@, ev.value)]
        = [s EXCEPT !.commitments = [s.commitments EXCEPT ![ev.id] = d]]
  BY <1>2
<1>4. [i \in DOMAIN s.commitments |-> IF i = ev.id THEN d ELSE s.commitments[i]]
        = Put(s.commitments, ev.id, d)
  BY DEF Put
<1>5. [s.commitments EXCEPT ![ev.id] = d]
        = [i \in DOMAIN s.commitments |-> IF i = ev.id THEN d ELSE s.commitments[i]]
  BY Zenon
<1> HIDE DEF d
<1> QED BY <1>1, <1>3, <1>4, <1>5 DEF IsProjection, Projection, d
-----------------------------------------------------------------------------
\* The v1 events.

LEMMA LegacyGoalContinues ==
  ASSUME NEW s, GoalsAreWellFormed(s.goals), NEW ev
  PROVE  Continues(s.goals, ev.id, LegacyGoal(s, ev))
<1> DEFINE h == History(s.goals, ev.id)
           last == Last(h)
           owner == IF ev.operation = "create" THEN ev.source ELSE last.owner
<1>0. \A i \in DOMAIN s.goals : IsHistory(s.goals[i])
  BY DEF GoalsAreWellFormed, Numbered
<1>1. CASE ev.id \notin DOMAIN s.goals
  <2>1. h = <<>>
    BY <1>1 DEF History
  <2>2. LegacyGoal(s, ev)
          = GoalRevision(1, ev.status, "legacy_unclassified", {}, LegacyOrigin(ev.source),
                         LegacyAuthority(ev.source), ev.source, ev.source)
    BY <2>1 DEF LegacyGoal
  <2>3. Len(h) + 1 = 1
    BY <2>1
  <2> HIDE DEF h
  <2> QED BY <1>1, <2>2, <2>3 DEF Continues, IsGoalRevision, GoalRevision, GoverningKinds, h
<1>2. CASE ev.id \in DOMAIN s.goals
  <2>1. /\ h = s.goals[ev.id] /\ h # <<>> /\ last = h[Len(h)] /\ Len(h) \in DOMAIN h
    BY <1>0, <1>2, HistoryFacts DEF History, IsHistory
  <2>2. IsGoalRevision(last) /\ last.refs \subseteq DOMAIN s.goals
    BY <1>2, <2>1 DEF GoalsAreWellFormed
  <2>3. LineageIsKept(s.goals) /\ 1 \in DOMAIN h
    BY <1>0, <1>2, <2>1, HistoryFacts DEF GoalsAreWellFormed
  <2>4. last.kind \in GoverningKinds => last.authority.principal = last.origin.principal
    BY <1>2, <2>1, <2>3 DEF LineageIsKept
  <2> DEFINE r == [last EXCEPT !.version = Len(h) + 1, !.status = ev.status,
                               !.author = ev.source,
                               !.owner = IF ev.operation = "create" THEN ev.source ELSE @]
             m1 == [last EXCEPT !.version = Len(h) + 1]
             m2 == [m1 EXCEPT !.status = ev.status]
             m3 == [m2 EXCEPT !.author = ev.source]
             m4 == [m3 EXCEPT !.owner = IF ev.operation = "create" THEN ev.source ELSE @]
  <2>5. LegacyGoal(s, ev) = r
    BY <2>1 DEF LegacyGoal
  <2>6. r = m4
    BY Zenon
  <2> HIDE DEF r, last
  <2>7. m1 = GoalRevision(Len(h) + 1, last.status, last.kind, last.refs, last.origin,
                          last.authority, last.owner, last.author)
    BY <2>2 DEF IsGoalRevision, GoalRevision
  <2> HIDE DEF m1
  <2>8. m2 = GoalRevision(Len(h) + 1, ev.status, last.kind, last.refs, last.origin,
                          last.authority, last.owner, last.author)
    BY <2>7 DEF GoalRevision
  <2> HIDE DEF m2
  <2>9. m3 = GoalRevision(Len(h) + 1, ev.status, last.kind, last.refs, last.origin,
                          last.authority, last.owner, ev.source)
    BY <2>8 DEF GoalRevision
  <2> HIDE DEF m3
  <2>10. m4 = GoalRevision(Len(h) + 1, ev.status, last.kind, last.refs, last.origin,
                           last.authority, owner, ev.source)
    BY <2>9 DEF GoalRevision
  <2> HIDE DEF m4, owner, h
  <2>11. LegacyGoal(s, ev) = GoalRevision(Len(h) + 1, ev.status, last.kind, last.refs,
                               last.origin, last.authority, owner, ev.source)
    BY <2>5, <2>6, <2>10
  <2>12. Last(s.goals[ev.id]) = last
    BY <2>1 DEF last
  <2> QED BY <1>2, <2>2, <2>4, <2>11, <2>12
          DEF Continues, IsGoalRevision, GoalRevision, h
<1> QED BY <1>1, <1>2

LEMMA LegacyCommitmentFields ==
  ASSUME NEW s, CommitmentsAreWellFormed(s), NEW ev
  PROVE  \E owner, closure :
           LegacyCommitment(s, ev) =
             IF ev.id \notin DOMAIN s.commitments
             THEN Commitment(owner, Upcast(ev.status).status, closure, {}, <<>>, "", {}, {}, {},
                             FALSE, {})
             ELSE LET c == s.commitments[ev.id]
                  IN Commitment(owner, Upcast(ev.status).status, closure, c.goals, c.roadmap,
                                c.node, c.roles, c.envelope, c.due, c.lead, c.deadline)
<1>1. CASE ev.id \notin DOMAIN s.commitments
  BY <1>1 DEF LegacyCommitment
<1>2. CASE ev.id \in DOMAIN s.commitments
  <2> DEFINE c == s.commitments[ev.id]
             to == Upcast(ev.status)
             r == [c EXCEPT !.status = to.status,
                            !.owner = IF ev.operation = "create" THEN ev.source ELSE @,
                            !.closure = IF to.closure = {} THEN @ ELSE to.closure]
             m1 == [c EXCEPT !.status = to.status]
             m2 == [m1 EXCEPT !.owner = IF ev.operation = "create" THEN ev.source ELSE @]
             m3 == [m2 EXCEPT !.closure = IF to.closure = {} THEN @ ELSE to.closure]
             owner == IF ev.operation = "create" THEN ev.source ELSE c.owner
             closure == IF to.closure = {} THEN c.closure ELSE to.closure
  <2>1. LegacyCommitment(s, ev) = r
    BY <1>2 DEF LegacyCommitment
  <2>2. r = m3
    BY Zenon
  <2>3. IsCommitment(c)
    BY <1>2 DEF CommitmentsAreWellFormed
  <2> HIDE DEF r, c, to
  <2>4. m1 = Commitment(c.owner, to.status, c.closure, c.goals, c.roadmap, c.node, c.roles,
                        c.envelope, c.due, c.lead, c.deadline)
    BY <2>3 DEF IsCommitment, Commitment
  <2> HIDE DEF m1
  <2>5. m2 = Commitment(owner, to.status, c.closure, c.goals, c.roadmap, c.node, c.roles,
                        c.envelope, c.due, c.lead, c.deadline)
    BY <2>4 DEF Commitment
  <2> HIDE DEF m2, owner
  <2>6. m3 = Commitment(owner, to.status, closure, c.goals, c.roadmap, c.node, c.roles,
                        c.envelope, c.due, c.lead, c.deadline)
    BY <2>5 DEF Commitment
  <2> HIDE DEF m3, closure
  <2>7. LegacyCommitment(s, ev)
          = Commitment(owner, to.status, closure, c.goals, c.roadmap, c.node, c.roles,
                       c.envelope, c.due, c.lead, c.deadline)
    BY <2>1, <2>2, <2>6
  <2> QED BY <1>2, <2>7 DEF c, to
<1> QED BY <1>1, <1>2
-----------------------------------------------------------------------------
\* Every legal event leaves a well-formed projection.

\* Fields that rest, and what they make of the rest.
LEMMA RestsWellFormed ==
  ASSUME NEW s, WellFormed(s), NEW t, IsProjection(t), GoalsAreWellFormed(t.goals),
         Numbered(t.roadmaps), \A ref : IsKnown(s.roadmaps, ref) => IsKnown(t.roadmaps, ref),
         t.commitments = s.commitments, t.proposals = s.proposals, t.admitted = s.admitted,
         s.roles \subseteq t.roles
  PROVE  WellFormed(t)
<1>1. CommitmentsAreWellFormed(t)
  BY CommitmentsRest DEF WellFormed
<1>2. WorkIsWellFormed(t)
  BY WorkRests DEF WellFormed
<1> QED BY <1>1, <1>2 DEF WellFormed, IsProjection, Projection

LEMMA GoalIsWellFormed ==
  ASSUME NEW s, WellFormed(s), NEW ev, ev.type = "goal", Legal(s, ev), Sound(s, ev)
  PROVE  WellFormed(Applied(s, ev))
<1>1. GoalStructure(s, ev.id, ev.value) /\ IsGoalRevision(ev.value)
  BY Zenon DEF Legal, Sound
<1>2. Continues(s.goals, ev.id, ev.value)
  <2>1. KeepsLineage(s, ev.id, ev.value) /\ LineageIsCovered(s, ev.id, ev.value)
    BY <1>1 DEF GoalStructure
  <2>2. ev.value.refs \subseteq DOMAIN s.goals
    BY <2>1 DEF LineageIsCovered
  <2>3. /\ ev.value.version = Len(History(s.goals, ev.id)) + 1
        /\ ev.value.authority.principal = ev.value.origin.principal
    BY <1>1 DEF GoalStructure
  <2> QED BY <1>1, <2>1, <2>2, <2>3 DEF Continues, KeepsLineage
<1>3. GoalsAreWellFormed(Extend(s.goals, ev.id, ev.value))
  BY <1>2, GoalsGrow DEF WellFormed
<1>4. IsProjection(s)
  BY DEF WellFormed, IsProjection, Projection
<1> DEFINE t == Applied(s, ev)
<1>5. t = Projection(Extend(s.goals, ev.id, ev.value), s.roadmaps, s.roles, s.envelopes,
                     s.commitments, s.proposals, s.admitted, s.external, s.graphs)
  BY <1>4, AppliedFields
<1> HIDE DEF t
<1>6. /\ IsProjection(t) /\ t.goals = Extend(s.goals, ev.id, ev.value)
      /\ t.roadmaps = s.roadmaps /\ t.roles = s.roles /\ t.commitments = s.commitments
      /\ t.proposals = s.proposals /\ t.admitted = s.admitted
  BY <1>5 DEF IsProjection, Projection
<1>7. WellFormed(t)
  BY <1>3, <1>6, RestsWellFormed DEF WellFormed
<1> QED BY <1>7 DEF t

LEMMA RoadmapIsWellFormed ==
  ASSUME NEW s, WellFormed(s), NEW ev, ev.type = "roadmap", Legal(s, ev)
  PROVE  WellFormed(Applied(s, ev))
<1>1. ev.value.version = Len(History(s.roadmaps, ev.id)) + 1
  BY Zenon DEF Legal, RoadmapStructure
<1>2. Numbered(s.roadmaps) /\ GoalsAreWellFormed(s.goals)
  BY DEF WellFormed
<1>3. Numbered(Extend(s.roadmaps, ev.id, ev.value))
  BY <1>1, <1>2, NumberedExtension
<1>4. ASSUME NEW ref, IsKnown(s.roadmaps, ref)
      PROVE  IsKnown(Extend(s.roadmaps, ev.id, ev.value), ref)
  <2>1. \A i \in DOMAIN s.roadmaps : IsHistory(s.roadmaps[i])
    BY <1>2 DEF Numbered
  <2> QED BY <1>4, <2>1, KnownIsKept
<1>5. IsProjection(s)
  BY DEF WellFormed, IsProjection, Projection
<1> DEFINE t == Applied(s, ev)
<1>6. t = Projection(s.goals, Extend(s.roadmaps, ev.id, ev.value), s.roles, s.envelopes,
                     s.commitments, s.proposals, s.admitted, s.external, s.graphs)
  BY <1>5, AppliedFields
<1> HIDE DEF t
<1>7. /\ IsProjection(t) /\ t.goals = s.goals
      /\ t.roadmaps = Extend(s.roadmaps, ev.id, ev.value)
      /\ t.roles = s.roles /\ t.commitments = s.commitments
      /\ t.proposals = s.proposals /\ t.admitted = s.admitted
  BY <1>6 DEF IsProjection, Projection
<1>8. WellFormed(t)
  BY <1>2, <1>3, <1>4, <1>7, RestsWellFormed
<1> QED BY <1>8 DEF t

LEMMA RegisterIsWellFormed ==
  ASSUME NEW s, WellFormed(s), NEW ev, ev.type \in {"roles", "envelope", "external", "graph"}
  PROVE  WellFormed(Applied(s, ev))
<1>1. IsProjection(s)
  BY DEF WellFormed, IsProjection, Projection
<1> DEFINE t == Applied(s, ev)
<1>2. CASE ev.type = "roles"
  <2>1. t = Projection(s.goals, s.roadmaps, s.roles \cup {ev.value}, s.envelopes,
                       s.commitments, s.proposals, s.admitted, s.external, s.graphs)
    BY <1>1, <1>2, AppliedFields
  <2> HIDE DEF t
  <2>2. /\ IsProjection(t) /\ t.goals = s.goals /\ t.roadmaps = s.roadmaps
        /\ s.roles \subseteq t.roles /\ t.commitments = s.commitments
        /\ t.proposals = s.proposals /\ t.admitted = s.admitted
    BY <2>1 DEF IsProjection, Projection
  <2>3. WellFormed(t)
    BY <2>2, RestsWellFormed DEF WellFormed
  <2> QED BY <2>3 DEF t
<1>3. ASSUME NEW envelopes, NEW external, NEW graphs,
             t = Projection(s.goals, s.roadmaps, s.roles, envelopes, s.commitments,
                            s.proposals, s.admitted, external, graphs)
      PROVE  WellFormed(t)
  <2> HIDE DEF t
  <2>1. /\ IsProjection(t) /\ t.goals = s.goals /\ t.roadmaps = s.roadmaps
        /\ s.roles \subseteq t.roles /\ t.commitments = s.commitments
        /\ t.proposals = s.proposals /\ t.admitted = s.admitted
    BY <1>3 DEF IsProjection, Projection
  <2> QED BY <2>1, RestsWellFormed DEF WellFormed
<1>4. CASE ev.type = "envelope"
  <2>1. t = Projection(s.goals, s.roadmaps, s.roles, s.envelopes \cup {ev.value},
                       s.commitments, s.proposals, s.admitted, s.external, s.graphs)
    BY <1>1, <1>4, AppliedFields
  <2> HIDE DEF t
  <2>2. WellFormed(t)
    BY <1>3, <2>1
  <2> QED BY <2>2 DEF t
<1>5. CASE ev.type = "external"
  <2>1. t = Projection(s.goals, s.roadmaps, s.roles, s.envelopes, s.commitments,
                       s.proposals, s.admitted, Extend(s.external, ev.id, ev.value), s.graphs)
    BY <1>1, <1>5, AppliedFields
  <2> HIDE DEF t
  <2>2. WellFormed(t)
    BY <1>3, <2>1
  <2> QED BY <2>2 DEF t
<1>6. CASE ev.type = "graph"
  <2>1. t = Projection(s.goals, s.roadmaps, s.roles, s.envelopes, s.commitments,
                       s.proposals, s.admitted, s.external, s.graphs \cup {ev.id})
    BY <1>1, <1>6, AppliedFields
  <2> HIDE DEF t
  <2>2. WellFormed(t)
    BY <1>3, <2>1
  <2> QED BY <2>2 DEF t
<1> QED BY <1>2, <1>4, <1>5, <1>6

LEMMA CommitmentIsWellFormed ==
  ASSUME NEW s, WellFormed(s), NEW ev, ev.type = "commitment", Legal(s, ev), Sound(s, ev)
  PROVE  WellFormed(Applied(s, ev))
<1> DEFINE t == Applied(s, ev)
           d == ev.value
<1>1. CommitmentStructure(s, ev.id, d, ev.authority)
  BY Zenon DEF Legal
<1>2. IsProjection(s)
  BY DEF WellFormed, IsProjection, Projection
<1>3. t = Projection(s.goals, s.roadmaps, s.roles, s.envelopes, Put(s.commitments, ev.id, d),
                     s.proposals, s.admitted, s.external, s.graphs)
  BY <1>2, AppliedFields
<1>4. IsCommitment(d) /\ d.roadmap = <<d.roadmap[1], d.roadmap[2]>>
  BY DEF Sound
<1> HIDE DEF t, d
<1>5. /\ IsProjection(t) /\ t.goals = s.goals /\ t.roadmaps = s.roadmaps
      /\ t.roles = s.roles /\ t.commitments = Put(s.commitments, ev.id, d)
      /\ t.proposals = s.proposals /\ t.admitted = s.admitted
  BY <1>3 DEF IsProjection, Projection
<1>6. d.status \in Lifecycle /\ ev.id \notin DOMAIN s.commitments
  BY <1>1 DEF CommitmentStructure, Lifecycle
<1>7. IsScoped(d)
  BY <1>1 DEF CommitmentStructure, Staffed, IsScoped
<1>8. IsKnown(s.roadmaps, d.roadmap)
  <2>1. IsCurrent(s.roadmaps, d.roadmap)
    BY <1>1 DEF CommitmentStructure, LiveRoadmap
  <2> QED BY <2>1, CurrentIsKnown DEF WellFormed
<1>9. CommitmentsAreWellFormed(t) /\ WorkIsWellFormed(t)
  BY <1>4, <1>5, <1>6, <1>7, <1>8, CommitmentChanges DEF WellFormed
<1>10. WellFormed(t)
  BY <1>5, <1>9 DEF WellFormed, IsProjection, Projection
<1> QED BY <1>10 DEF t

\* A commitment that moves stays what it is, or is staffed on a newer revision.
LEMMA TransitionSucceeds ==
  ASSUME NEW s, WellFormed(s), NEW ev, ev.type = "transition", Legal(s, ev), Sound(s, ev),
         NEW d, d = Transitioned(s.commitments[ev.id], ev.value)
  PROVE  /\ ev.id \in DOMAIN s.commitments
         /\ IsCommitment(d) /\ d.status \in Lifecycle /\ IsScoped(d)
         /\ \/ d.roadmap = <<>>
            \/ d.roadmap = <<d.roadmap[1], d.roadmap[2]>> /\ IsKnown(s.roadmaps, d.roadmap)
         /\ Succeeds(s.commitments[ev.id], d)
<1> DEFINE v == ev.value
           c == s.commitments[ev.id]
<1>1. TransitionStructure(s, ev.id, v)
  BY Zenon DEF Legal
<1>3. ev.id \in DOMAIN s.commitments /\ v.to \in Allowed[c.status] /\ IsOriented(s, c, v)
  BY <1>1 DEF TransitionStructure
<1>5. /\ IsCommitment(c) /\ c.status \in Lifecycle /\ IsScoped(c)
      /\ \/ c.roadmap = <<>>
         \/ c.roadmap = <<c.roadmap[1], c.roadmap[2]>> /\ IsKnown(s.roadmaps, c.roadmap)
  BY <1>3 DEF WellFormed, CommitmentsAreWellFormed
<1>6. \A r \in v.remap : r.roadmap = <<r.roadmap[1], r.roadmap[2]>>
  BY DEF Sound
<1>7. v.to \in Lifecycle
  BY <1>3, <1>5 DEF Allowed, Lifecycle
<1>8. /\ v.remap = {} =>
           d = Commitment(c.owner, v.to, v.closure, c.goals, c.roadmap, c.node, c.roles,
                          c.envelope, c.due, c.lead, c.deadline)
      /\ v.remap # {} => \E r \in v.remap :
           d = Commitment(c.owner, v.to, v.closure, c.goals, r.roadmap, c.node, {r.roles},
                          r.envelope, c.due, c.lead, c.deadline)
  BY <1>5, TransitionedFields
<1> HIDE DEF c, v
<1>9. /\ IsCommitment(d) /\ d.status \in Lifecycle /\ IsScoped(d)
       /\ \/ d.roadmap = <<>>
          \/ d.roadmap = <<d.roadmap[1], d.roadmap[2]>> /\ IsKnown(s.roadmaps, d.roadmap)
       /\ Succeeds(c, d)
  <2>1. CASE v.remap = {}
    BY <1>5, <1>7, <1>8, <2>1 DEF IsCommitment, Commitment, IsScoped, Succeeds
  <2>2. CASE v.remap # {}
    <3>1. \A r \in v.remap : Remaps(s, c, r)
      BY <1>3, <2>2 DEF IsOriented
    <3>2. PICK r \in v.remap :
            d = Commitment(c.owner, v.to, v.closure, c.goals, r.roadmap, c.node, {r.roles},
                           r.envelope, c.due, c.lead, c.deadline)
      BY <1>8, <2>2
    <3>3. /\ LiveRoadmap(s, r.roadmap) /\ c.roadmap # <<>>
          /\ r.roadmap[1] = c.roadmap[1] /\ r.roadmap[2] > c.roadmap[2]
          /\ Staffed(s, r.roadmap, c.node, r.roles, r.envelope)
      BY <3>1 DEF Remaps
    <3>4. /\ r.roles.outcome = <<r.roadmap, c.node>>
          /\ \A e \in r.envelope : e.roles = r.roles
          /\ r.roles.executor # "agent" => r.envelope # {}
      BY <3>3 DEF Staffed
    <3>5. IsKnown(s.roadmaps, r.roadmap)
      <4>1. IsCurrent(s.roadmaps, r.roadmap)
        BY <3>3 DEF LiveRoadmap
      <4> QED BY <4>1, CurrentIsKnown DEF WellFormed
    <3>6. r.roadmap = <<r.roadmap[1], r.roadmap[2]>>
      BY <1>6
    <3>7. /\ d.node = c.node /\ d.goals = c.goals /\ d.roadmap = r.roadmap
          /\ d.roles = {r.roles} /\ d.envelope = r.envelope /\ d.status = v.to
          /\ IsCommitment(d)
      BY <3>2 DEF Commitment, IsCommitment
    <3>8. IsScoped(d)
      BY <3>4, <3>7 DEF IsScoped
    <3>9. Succeeds(c, d)
      <4>1. d.roadmap # <<>>
        BY <3>6, <3>7
      <4> QED BY <3>3, <3>7, <4>1 DEF Succeeds
    <3> QED BY <1>7, <3>5, <3>6, <3>7, <3>8, <3>9
  <2> QED BY <2>1, <2>2
<1> QED BY <1>3, <1>9 DEF c

LEMMA TransitionIsWellFormed ==
  ASSUME NEW s, WellFormed(s), NEW ev, ev.type = "transition", Legal(s, ev), Sound(s, ev)
  PROVE  WellFormed(Applied(s, ev))
<1> DEFINE t == Applied(s, ev)
           d == Transitioned(s.commitments[ev.id], ev.value)
<1>1. IsProjection(s)
  BY DEF WellFormed, IsProjection, Projection
<1>2. /\ ev.id \in DOMAIN s.commitments
      /\ IsCommitment(d) /\ d.status \in Lifecycle /\ IsScoped(d)
      /\ \/ d.roadmap = <<>>
         \/ d.roadmap = <<d.roadmap[1], d.roadmap[2]>> /\ IsKnown(s.roadmaps, d.roadmap)
      /\ Succeeds(s.commitments[ev.id], d)
  <2> HIDE DEF d
  <2> QED BY TransitionSucceeds DEF d
<1>3. t = Projection(s.goals, s.roadmaps, s.roles, s.envelopes, Put(s.commitments, ev.id, d),
                     s.proposals, s.admitted, s.external, s.graphs)
  BY <1>1, <1>2, AppliedTransition
<1> HIDE DEF t, d
<1>4. /\ IsProjection(t) /\ t.goals = s.goals /\ t.roadmaps = s.roadmaps
      /\ t.roles = s.roles /\ t.commitments = Put(s.commitments, ev.id, d)
      /\ t.proposals = s.proposals /\ t.admitted = s.admitted
  BY <1>3 DEF IsProjection, Projection
<1>5. CommitmentsAreWellFormed(t) /\ WorkIsWellFormed(t)
  BY <1>2, <1>4, CommitmentChanges DEF WellFormed
<1>6. WellFormed(t)
  BY <1>4, <1>5 DEF WellFormed, IsProjection, Projection
<1> QED BY <1>6 DEF t

LEMMA NewCommitment ==
  ASSUME NEW owner, NEW status, NEW closure, NEW d,
         d = Commitment(owner, status, closure, {}, <<>>, "", {}, {}, {}, FALSE, {})
  PROVE  d.status = status /\ d.roadmap = <<>> /\ d.roles = {} /\ IsCommitment(d)
BY DEF Commitment, IsCommitment

LEMMA LegacySucceeds ==
  ASSUME NEW s, WellFormed(s), NEW ev, ev.type = "legacy_commitment", Sound(s, ev),
         NEW d, d = LegacyCommitment(s, ev)
  PROVE  /\ IsCommitment(d) /\ d.status \in Lifecycle /\ IsScoped(d)
         /\ \/ d.roadmap = <<>>
            \/ d.roadmap = <<d.roadmap[1], d.roadmap[2]>> /\ IsKnown(s.roadmaps, d.roadmap)
         /\ ev.id \in DOMAIN s.commitments => Succeeds(s.commitments[ev.id], d)
         /\ ev.id \notin DOMAIN s.commitments => d.roadmap = <<>>
<1> DEFINE c == s.commitments[ev.id]
           status == Upcast(ev.status).status
<1>1. status \in Lifecycle
  BY DEF Sound
<1>2. PICK owner, closure :
        d = IF ev.id \notin DOMAIN s.commitments
            THEN Commitment(owner, status, closure, {}, <<>>, "", {}, {}, {}, FALSE, {})
            ELSE Commitment(owner, status, closure, c.goals, c.roadmap, c.node, c.roles,
                            c.envelope, c.due, c.lead, c.deadline)
  BY LegacyCommitmentFields DEF WellFormed
<1>3. ev.id \in DOMAIN s.commitments =>
        /\ IsCommitment(c) /\ c.status \in Lifecycle /\ IsScoped(c)
        /\ \/ c.roadmap = <<>>
           \/ c.roadmap = <<c.roadmap[1], c.roadmap[2]>> /\ IsKnown(s.roadmaps, c.roadmap)
  BY DEF WellFormed, CommitmentsAreWellFormed
<1> HIDE DEF c, status
<1>4. ASSUME ev.id \in DOMAIN s.commitments
      PROVE  /\ IsCommitment(d) /\ d.status \in Lifecycle /\ IsScoped(d)
             /\ \/ d.roadmap = <<>>
                \/ d.roadmap = <<d.roadmap[1], d.roadmap[2]>> /\ IsKnown(s.roadmaps, d.roadmap)
             /\ Succeeds(c, d)
  <2>1. d = Commitment(owner, status, closure, c.goals, c.roadmap, c.node, c.roles,
                       c.envelope, c.due, c.lead, c.deadline)
    BY <1>2, <1>4
  <2>2. /\ d.status = status /\ d.goals = c.goals /\ d.roadmap = c.roadmap /\ d.node = c.node
        /\ d.roles = c.roles /\ d.envelope = c.envelope /\ IsCommitment(d)
    BY <2>1 DEF Commitment, IsCommitment
  <2>3. Succeeds(c, d)
    BY <2>2 DEF Succeeds
  <2>4. IsScoped(c) => IsScoped(d)
    BY <2>2 DEF IsScoped
  <2>5. \/ d.roadmap = <<>>
        \/ d.roadmap = <<d.roadmap[1], d.roadmap[2]>> /\ IsKnown(s.roadmaps, d.roadmap)
    <3>1. \/ c.roadmap = <<>>
          \/ c.roadmap = <<c.roadmap[1], c.roadmap[2]>> /\ IsKnown(s.roadmaps, c.roadmap)
      BY <1>3, <1>4
    <3>2. d.roadmap = c.roadmap
      BY <2>2
    <3> QED BY <3>1, <3>2, Zenon
  <2> QED BY <1>1, <1>3, <1>4, <2>2, <2>3, <2>4, <2>5
<1>5. CASE ev.id \notin DOMAIN s.commitments
  <2>1. d = Commitment(owner, status, closure, {}, <<>>, "", {}, {}, {}, FALSE, {})
    BY <1>2, <1>5
  <2>2. d.status = status /\ d.roadmap = <<>> /\ d.roles = {} /\ IsCommitment(d)
    BY <2>1, NewCommitment
  <2>3. IsScoped(d)
    BY <2>2 DEF IsScoped
  <2> QED BY <1>1, <1>5, <2>2, <2>3
<1> QED BY <1>4, <1>5 DEF c

LEMMA LegacyIsWellFormed ==
  ASSUME NEW s, WellFormed(s), NEW ev, ev.type \in {"legacy_goal", "legacy_commitment"},
         Sound(s, ev)
  PROVE  WellFormed(Applied(s, ev))
<1> DEFINE t == Applied(s, ev)
<1>1. IsProjection(s)
  BY DEF WellFormed, IsProjection, Projection
<1>2. CASE Ignored(s, ev)
  <2>1. t = s
    <3>1. CASE ev.type = "legacy_goal"
      BY <1>2, <3>1, Zenon DEF Applied
    <3>2. CASE ev.type = "legacy_commitment"
      BY <1>2, <3>2, Zenon DEF Applied
    <3> QED BY <3>1, <3>2
  <2> QED BY <2>1
<1>3. CASE ev.type = "legacy_goal" /\ ~Ignored(s, ev)
  <2> DEFINE r == LegacyGoal(s, ev)
  <2>1. t = [s EXCEPT !.goals = Extend(@, ev.id, r)]
    BY <1>3, Zenon DEF Applied
  <2>2. GoalsAreWellFormed(Extend(s.goals, ev.id, r))
    BY LegacyGoalContinues, GoalsGrow DEF WellFormed
  <2> HIDE DEF t, r
  <2>3. /\ IsProjection(t) /\ t.goals = Extend(s.goals, ev.id, r)
        /\ t.roadmaps = s.roadmaps /\ t.roles = s.roles /\ t.commitments = s.commitments
        /\ t.proposals = s.proposals /\ t.admitted = s.admitted
    BY <1>1, <2>1 DEF IsProjection, Projection
  <2>4. WellFormed(t)
    BY <2>2, <2>3, RestsWellFormed DEF WellFormed
  <2> QED BY <2>4 DEF t
<1>4. CASE ev.type = "legacy_commitment" /\ ~Ignored(s, ev)
  <2> DEFINE d == LegacyCommitment(s, ev)
  <2>1. t = [s EXCEPT !.commitments = Put(@, ev.id, d)]
    BY <1>4, Zenon DEF Applied
  <2>2. /\ IsCommitment(d) /\ d.status \in Lifecycle /\ IsScoped(d)
        /\ \/ d.roadmap = <<>>
           \/ d.roadmap = <<d.roadmap[1], d.roadmap[2]>> /\ IsKnown(s.roadmaps, d.roadmap)
        /\ ev.id \in DOMAIN s.commitments => Succeeds(s.commitments[ev.id], d)
    <3> HIDE DEF d
    <3> QED BY <1>4, LegacySucceeds DEF d
  <2> HIDE DEF t, d
  <2>3. /\ IsProjection(t) /\ t.goals = s.goals /\ t.roadmaps = s.roadmaps
        /\ t.roles = s.roles /\ t.commitments = Put(s.commitments, ev.id, d)
        /\ t.proposals = s.proposals /\ t.admitted = s.admitted
    BY <1>1, <2>1 DEF IsProjection, Projection
  <2>4. CommitmentsAreWellFormed(t) /\ WorkIsWellFormed(t)
    BY <2>2, <2>3, CommitmentChanges DEF WellFormed
  <2>5. WellFormed(t)
    BY <2>3, <2>4 DEF WellFormed, IsProjection, Projection
  <2> QED BY <2>5 DEF t
<1> QED BY <1>2, <1>3, <1>4

\* Work that a commitment was asked for now is derived from it.
LEMMA ProposalIsDerived ==
  ASSUME NEW s, WellFormed(s), NEW n, NEW id \in DOMAIN s.commitments,
         s.commitments[id].roadmap # <<>>,
         NEW criteria, NEW intervention, NEW support, NEW signals, NEW at, NEW q,
         q = WorkOrderProposal(n, id, s.commitments[id], criteria, intervention, support,
                               signals, at),
         Assisted(s, q)
  PROVE  IsDerived(s, q)
<1> DEFINE c == s.commitments[id]
<1>1. c.roadmap = <<c.roadmap[1], c.roadmap[2]>> /\ IsKnown(s.roadmaps, c.roadmap)
  BY DEF WellFormed, CommitmentsAreWellFormed
<1>2. c.roadmap[2] \in Nat \ {0}
  BY <1>1, KnownVersion DEF WellFormed
<1>3. /\ q.commitment = id /\ q.roadmap = c.roadmap /\ q.node = c.node
      /\ q.order.commitment = id /\ q.order.roadmap = c.roadmap /\ q.order.node = c.node
      /\ q.order.goals = c.goals
  BY DEF WorkOrderProposal, WorkOrder
<1>4. c.roadmap[2] \in 1..c.roadmap[2]
  BY <1>2
<1>5. c.roadmap # <<>> /\ s.commitments[q.commitment] = c /\ q.commitment \in DOMAIN s.commitments
  BY <1>3
<1> HIDE DEF c
<1> QED BY <1>1, <1>3, <1>4, <1>5 DEF IsDerived

LEMMA ProposalIsWellFormed ==
  ASSUME NEW s, WellFormed(s), NEW ev, ev.type = "proposal", Legal(s, ev), Sound(s, ev)
  PROVE  WellFormed(Applied(s, ev))
<1> DEFINE t == Applied(s, ev)
           q == ev.value
<1>1. ProposalStructure(s, q, q.at)
  BY Zenon DEF Legal
<1>2. IsProjection(s)
  BY DEF WellFormed, IsProjection, Projection
<1>3. t = Projection(s.goals, s.roadmaps, s.roles, s.envelopes, s.commitments,
                     s.proposals \cup {q}, s.admitted, s.external, s.graphs)
  BY <1>2, AppliedFields
<1>4. IsDerived(s, q)
  <2>1. PICK n, id, criteria, intervention, support, signals, at :
          /\ id \in DOMAIN s.commitments /\ s.commitments[id].roadmap # <<>>
          /\ q = WorkOrderProposal(n, id, s.commitments[id], criteria, intervention, support,
                                   signals, at)
    BY DEF Sound
  <2>2. Assisted(s, q)
    BY <1>1 DEF ProposalStructure
  <2> HIDE DEF q
  <2> QED BY <2>1, <2>2, ProposalIsDerived
<1> HIDE DEF t, q
<1>5. /\ IsProjection(t) /\ t.goals = s.goals /\ t.roadmaps = s.roadmaps
      /\ t.roles = s.roles /\ t.commitments = s.commitments
      /\ t.proposals = s.proposals \cup {q} /\ t.admitted = s.admitted
  BY <1>3 DEF IsProjection, Projection
<1>6. CommitmentsAreWellFormed(t)
  BY <1>5, CommitmentsRest DEF WellFormed
<1>7. WorkIsWellFormed(t)
  <2>1. IsFiniteSet(s.proposals) /\ s.admitted \subseteq {r.order : r \in s.proposals}
    BY DEF WellFormed, WorkIsWellFormed
  <2>2. IsFiniteSet(t.proposals)
    BY <1>5, <2>1, FS_AddElement
  <2>3. IsFiniteSet(PendingWork(s)) /\ Cardinality(PendingWork(s)) \in Nat
    BY <2>1, FS_Subset, FS_CardinalityType DEF PendingWork
  <2>4. Cardinality(PendingWork(s)) < WipLimit
    BY <1>1 DEF ProposalStructure, WithinWip
  <2>5. PendingWork(t) \subseteq PendingWork(s) \cup {q}
    BY <1>5 DEF PendingWork
  <2>6. /\ IsFiniteSet(PendingWork(s) \cup {q})
        /\ Cardinality(PendingWork(s) \cup {q}) <= Cardinality(PendingWork(s)) + 1
    <3>1. ASSUME NEW S, IsFiniteSet(S)
          PROVE  /\ IsFiniteSet(S \cup {q}) /\ Cardinality(S) \in Nat
                 /\ Cardinality(S \cup {q}) <= Cardinality(S) + 1
      BY <3>1, FS_AddElement, FS_CardinalityType
    <3> QED BY <2>3, <3>1
  <2>7. Cardinality(PendingWork(t)) <= Cardinality(PendingWork(s) \cup {q})
    BY <2>5, <2>6, FS_Subset
  <2>8. Cardinality(PendingWork(t)) <= WipLimit
    <3>1. /\ Cardinality(PendingWork(t)) \in Nat /\ Cardinality(PendingWork(s) \cup {q}) \in Nat
      BY <2>5, <2>6, FS_Subset, FS_CardinalityType
    <3> QED BY <2>3, <2>4, <2>6, <2>7, <3>1, WipAssumption
  <2>9. ASSUME NEW r \in t.proposals PROVE IsDerived(t, r)
    <3>1. IsDerived(s, r)
      BY <1>4, <1>5 DEF WellFormed, WorkIsWellFormed
    <3>2. Assisted(s, r) => Assisted(t, r)
      BY <1>5 DEF Assisted
    <3> QED BY <1>5, <3>1, <3>2 DEF IsDerived
  <2> QED BY <1>5, <2>1, <2>2, <2>8, <2>9 DEF WorkIsWellFormed
<1>8. WellFormed(t)
  BY <1>5, <1>6, <1>7 DEF WellFormed, IsProjection, Projection
<1> QED BY <1>8 DEF t

LEMMA OrderIsWellFormed ==
  ASSUME NEW s, WellFormed(s), NEW ev, ev.type = "order", Sound(s, ev)
  PROVE  WellFormed(Applied(s, ev))
<1> DEFINE t == Applied(s, ev)
<1>1. IsProjection(s)
  BY DEF WellFormed, IsProjection, Projection
<1>2. t = Projection(s.goals, s.roadmaps, s.roles, s.envelopes, s.commitments, s.proposals,
                     s.admitted \cup {ev.value}, s.external, s.graphs)
  BY <1>1, AppliedFields
<1> HIDE DEF t
<1>3. /\ IsProjection(t) /\ t.goals = s.goals /\ t.roadmaps = s.roadmaps
      /\ t.roles = s.roles /\ t.commitments = s.commitments
      /\ t.proposals = s.proposals /\ t.admitted = s.admitted \cup {ev.value}
  BY <1>2 DEF IsProjection, Projection
<1>4. CommitmentsAreWellFormed(t)
  BY <1>3, CommitmentsRest DEF WellFormed
<1>5. WorkIsWellFormed(t)
  <2>1. /\ IsFiniteSet(s.proposals) /\ s.admitted \subseteq {r.order : r \in s.proposals}
        /\ Cardinality(PendingWork(s)) <= WipLimit
    BY DEF WellFormed, WorkIsWellFormed
  <2>2. IsFiniteSet(PendingWork(s)) /\ PendingWork(t) \subseteq PendingWork(s)
    BY <1>3, <2>1, FS_Subset DEF PendingWork
  <2>3. Cardinality(PendingWork(t)) <= WipLimit
    <3>1. /\ Cardinality(PendingWork(t)) <= Cardinality(PendingWork(s))
          /\ Cardinality(PendingWork(t)) \in Nat /\ Cardinality(PendingWork(s)) \in Nat
      BY <2>2, FS_Subset, FS_CardinalityType
    <3> QED BY <2>1, <3>1, WipAssumption
  <2>4. t.admitted \subseteq {r.order : r \in t.proposals}
    BY <1>3, <2>1 DEF Sound
  <2>5. ASSUME NEW r \in t.proposals PROVE IsDerived(t, r)
    <3>1. IsDerived(s, r)
      BY <1>3 DEF WellFormed, WorkIsWellFormed
    <3>2. Assisted(s, r) => Assisted(t, r)
      BY <1>3 DEF Assisted
    <3> QED BY <1>3, <3>1, <3>2 DEF IsDerived
  <2> QED BY <1>3, <2>1, <2>3, <2>4, <2>5 DEF WorkIsWellFormed
<1>6. WellFormed(t)
  BY <1>3, <1>4, <1>5 DEF WellFormed, IsProjection, Projection
<1> QED BY <1>6 DEF t

LEMMA AppliedIsWellFormed ==
  ASSUME NEW s, WellFormed(s), NEW ev, ev.type \in Types, Legal(s, ev), Sound(s, ev)
  PROVE  WellFormed(Applied(s, ev))
<1>1. CASE ev.type = "goal"
  BY <1>1, GoalIsWellFormed
<1>2. CASE ev.type = "roadmap"
  BY <1>2, RoadmapIsWellFormed
<1>3. CASE ev.type \in {"roles", "envelope", "external", "graph"}
  BY <1>3, RegisterIsWellFormed
<1>4. CASE ev.type = "commitment"
  BY <1>4, CommitmentIsWellFormed
<1>5. CASE ev.type = "transition"
  BY <1>5, TransitionIsWellFormed
<1>6. CASE ev.type = "proposal"
  BY <1>6, ProposalIsWellFormed
<1>7. CASE ev.type = "order"
  BY <1>7, OrderIsWellFormed
<1>8. CASE ev.type \in {"legacy_goal", "legacy_commitment"}
  BY <1>8, LegacyIsWellFormed
<1> QED BY <1>1, <1>2, <1>3, <1>4, <1>5, <1>6, <1>7, <1>8 DEF Types
-----------------------------------------------------------------------------
\* The coordinator.

\* A steward awaits one turn at a time; what it captured has the shape that commands have.
CallsInv ==
  \A s \in Stewards : \A c \in calls[s] :
    /\ calls[s] = {c}
    /\ c.kind = "goal" => c.command \in Goals
    /\ c.kind = "transition" =>
         \A r \in c.remap : r.roadmap = <<r.roadmap[1], r.roadmap[2]>>
    /\ c.kind = "external" =>
         s \in left.observers /\ c.observation.recorded \in {t \in Int : t <= now}
    /\ c.kind = "order" => c.proposal \in p.proposals

\* The inductive invariant: the projection is one that a log can have, and was observed by now.
StewardInv ==
  /\ WellFormed(p) /\ readable \in BOOLEAN
  /\ now \in Nat /\ ObservedBy(p.external, now)
  /\ "observers" \in DOMAIN left /\ DOMAIN calls = Stewards /\ CallsInv

\* An event is appended, and replay accepts it, but for an observation or a v1 event of a
\* goal.  A goal was commanded, and a roadmap names the goals that its caller knew.
Event(ev) ==
  /\ ev.type \in Types /\ Sound(p, ev) /\ Emit(ev)
  /\ ev.type \notin {"external", "legacy_goal"} => Legal(p, ev)
  /\ ev.type = "legacy_goal" => ev \in LegacyEvents
  /\ ev.type = "goal" => \E g \in Goals : ev.id = g.id
  /\ ev.type = "external" =>
       /\ ev.value.recorded \in {t \in Int : t <= now}
       /\ ExternalStructure(p, ev.value)
       /\ \A n \in DOMAIN History(p.external, ev.id) : p.external[ev.id][n] # ev.value
  /\ ev.type = "roadmap" =>
       \E s \in Stewards : \E c \in calls[s] :
         c.kind = "roadmap" /\ ev.id = c.command.id /\ ev.value.goals = c.goals
\* Nothing is appended.
Silent == p' = p /\ readable' = readable

LEMMA GoalEvent ==
  ASSUME StewardInv, NEW s \in Stewards, AdmitGoal(s)
  PROVE  Silent \/ \E ev : Event(ev) /\ ev.type = "goal"
<1>1. PICK c \in {k \in calls[s] : k.kind = "goal"} :
        LET g == c.command
            r == GoalRevision(Len(History(p.goals, g.id)) + 1, g.status, g.kind, g.refs,
                              g.origin, g.authority, g.owner, g.author)
        IN Settle(s, ValidateGoal(p, g.id, r, c.expected),
                  [type |-> "goal", id |-> g.id, value |-> r])
  BY DEF AdmitGoal
<1> DEFINE g == c.command
           r == GoalRevision(Len(History(p.goals, g.id)) + 1, g.status, g.kind, g.refs,
                             g.origin, g.authority, g.owner, g.author)
           ev == [type |-> "goal", id |-> g.id, value |-> r]
<1>2. IsGoalRevision(r)
  BY DEF IsGoalRevision, GoalRevision
<1>3. Settle(s, ValidateGoal(p, g.id, r, c.expected), ev)
  BY <1>1
<1>4. ev.type = "goal" /\ ev.id = g.id /\ ev.value = r
  OBVIOUS
<1>7. g \in Goals
  BY DEF StewardInv, CallsInv
<1> HIDE DEF ev, r, g
<1>5. CASE ValidateGoal(p, g.id, r, c.expected)
  <2>1. Emit(ev)
    BY <1>3, <1>5 DEF Settle
  <2>2. GoalStructure(p, g.id, r)
    BY <1>5 DEF ValidateGoal
  <2>3. Legal(p, ev)
    BY <1>4, <2>2, Zenon DEF Legal
  <2>4. Sound(p, ev)
    BY <1>2, <1>4 DEF Sound
  <2> QED BY <1>4, <1>7, <2>1, <2>3, <2>4 DEF Event, Types
<1>6. CASE ~ValidateGoal(p, g.id, r, c.expected)
  BY <1>3, <1>6 DEF Settle, Silent
<1> QED BY <1>5, <1>6

LEMMA RoadmapEvent ==
  ASSUME StewardInv, NEW s \in Stewards, AdmitRoadmap(s)
  PROVE  Silent \/ \E ev : Event(ev) /\ ev.type = "roadmap"
<1>1. PICK c \in {k \in calls[s] : k.kind = "roadmap"} :
        LET m == c.command
            r == RoadmapRevision(Len(History(p.roadmaps, m.id)) + 1, c.goals, m.nodes,
                                 m.assumptions, m.authority, m.author)
        IN Settle(s, ValidateRoadmap(p, m.id, r, c.expected),
                  [type |-> "roadmap", id |-> m.id, value |-> r])
  BY DEF AdmitRoadmap
<1> DEFINE m == c.command
           r == RoadmapRevision(Len(History(p.roadmaps, m.id)) + 1, c.goals, m.nodes,
                                m.assumptions, m.authority, m.author)
           ev == [type |-> "roadmap", id |-> m.id, value |-> r]
<1>2. Settle(s, ValidateRoadmap(p, m.id, r, c.expected), ev)
  BY <1>1
<1>3. ev.type = "roadmap" /\ ev.id = c.command.id /\ ev.id = m.id /\ ev.value = r
  OBVIOUS
<1>6. r.goals = c.goals /\ c.kind = "roadmap"
  BY DEF RoadmapRevision
<1> HIDE DEF ev, r, m
<1>4. CASE ValidateRoadmap(p, m.id, r, c.expected)
  <2>1. Emit(ev)
    BY <1>2, <1>4 DEF Settle
  <2>2. Legal(p, ev)
    BY <1>3, <1>4, Zenon DEF Legal, ValidateRoadmap
  <2> QED BY <1>3, <1>6, <2>1, <2>2 DEF Event, Types, Sound
<1>5. CASE ~ValidateRoadmap(p, m.id, r, c.expected)
  BY <1>2, <1>5 DEF Settle, Silent
<1> QED BY <1>4, <1>5

LEMMA RolesEvent ==
  ASSUME StewardInv, NEW executor, RecordRoles(executor)
  PROVE  \E ev : Event(ev) /\ ev.type = "roles"
<1>1. PICK roles :
        Record("roles", RolesStructure(p, roles), [type |-> "roles", value |-> roles])
  BY DEF RecordRoles
<1> DEFINE ev == [type |-> "roles", value |-> roles]
<1>2. ev.type = "roles" /\ ev.value = roles
  OBVIOUS
<1>3. RolesStructure(p, roles) /\ Emit(ev)
  BY <1>1 DEF Record
<1> HIDE DEF ev
<1>4. Legal(p, ev)
  BY <1>2, <1>3, Zenon DEF Legal
<1> QED BY <1>2, <1>3, <1>4 DEF Event, Types, Sound

LEMMA EnvelopeEvent ==
  ASSUME StewardInv, NEW terms, RecordAssistance(terms)
  PROVE  \E ev : Event(ev) /\ ev.type = "envelope"
<1>1. PICK e : Record("envelope", AssistanceStructure(p, e), [type |-> "envelope", value |-> e])
  BY DEF RecordAssistance
<1> DEFINE ev == [type |-> "envelope", value |-> e]
<1>2. ev.type = "envelope" /\ ev.value = e
  OBVIOUS
<1>3. AssistanceStructure(p, e) /\ Emit(ev)
  BY <1>1 DEF Record
<1> HIDE DEF ev
<1>4. Legal(p, ev)
  BY <1>2, <1>3, Zenon DEF Legal
<1> QED BY <1>2, <1>3, <1>4 DEF Event, Types, Sound

LEMMA CommitmentEvent ==
  ASSUME StewardInv, NEW c, RecordCommitment(c)
  PROVE  \E ev : Event(ev) /\ ev.type = "commitment"
<1>1. PICK ref \in KnownRoadmaps, roles \in p.roles,
           envelope \in {{}} \cup {{e} : e \in p.envelopes} :
        LET value == Commitment(c.owner, c.status, {}, c.goals, ref, c.node, {roles}, envelope,
                                c.due, c.lead, c.deadline)
        IN Record("commitment", ValidateCommitment(p, c.id, value, c.authority),
                  [type |-> "commitment", id |-> c.id, value |-> value,
                   authority |-> c.authority])
  BY DEF RecordCommitment
<1> DEFINE value == Commitment(c.owner, c.status, {}, c.goals, ref, c.node, {roles}, envelope,
                               c.due, c.lead, c.deadline)
           ev == [type |-> "commitment", id |-> c.id, value |-> value, authority |-> c.authority]
<1>2. ref = <<ref[1], ref[2]>>
  BY DEF KnownRoadmaps
<1>3. IsCommitment(value) /\ value.roadmap = ref
  BY DEF IsCommitment, Commitment
<1>4. ev.type = "commitment" /\ ev.id = c.id /\ ev.value = value /\ ev.authority = c.authority
  OBVIOUS
<1>5. ValidateCommitment(p, c.id, value, c.authority) /\ Emit(ev)
  BY <1>1 DEF Record
<1> HIDE DEF ev, value
<1>6. Legal(p, ev)
  BY <1>4, <1>5, Zenon DEF Legal, ValidateCommitment
<1>7. Sound(p, ev)
  BY <1>2, <1>3, <1>4 DEF Sound
<1> QED BY <1>4, <1>5, <1>6, <1>7 DEF Event, Types

LEMMA TransitionEvent ==
  ASSUME StewardInv, NEW s \in Stewards, AdmitTransition(s)
  PROVE  Silent \/ \E ev : Event(ev) /\ ev.type = "transition"
<1>1. PICK c \in calls[s] :
        /\ c.kind = "transition"
        /\ LET t == c.command
               value == CommitmentTransition(p.commitments[t.id].status, t.to, t.closure,
                                             t.authority, t.author, c.remap)
           IN Settle(s, /\ p.commitments[t.id].status = c.expected
                        /\ ValidateTransition(p, t.id, value),
                     [type |-> "transition", id |-> t.id, value |-> value])
  BY DEF AdmitTransition
<1> DEFINE t == c.command
           value == CommitmentTransition(p.commitments[t.id].status, t.to, t.closure,
                                         t.authority, t.author, c.remap)
           valid == /\ p.commitments[t.id].status = c.expected
                    /\ ValidateTransition(p, t.id, value)
           ev == [type |-> "transition", id |-> t.id, value |-> value]
<1>2. ev.type = "transition" /\ ev.id = t.id /\ ev.value = value
  OBVIOUS
<1>3. value.remap = c.remap
  BY DEF CommitmentTransition
<1>4. \A r \in c.remap : r.roadmap = <<r.roadmap[1], r.roadmap[2]>>
  BY <1>1 DEF StewardInv, CallsInv
<1>5. Settle(s, valid, ev)
  BY <1>1
<1>6. valid => TransitionStructure(p, t.id, value)
  BY DEF ValidateTransition
<1> HIDE DEF ev, value, valid, t
<1>7. CASE valid
  <2>1. Emit(ev)
    BY <1>5, <1>7 DEF Settle
  <2>2. Legal(p, ev)
    BY <1>2, <1>6, <1>7, Zenon DEF Legal
  <2>3. Sound(p, ev)
    BY <1>2, <1>3, <1>4 DEF Sound
  <2> QED BY <1>2, <2>1, <2>2, <2>3 DEF Event, Types
<1>8. CASE ~valid
  BY <1>5, <1>8 DEF Settle, Silent
<1> QED BY <1>7, <1>8

LEMMA ObservationEvent ==
  ASSUME StewardInv, NEW s \in Stewards, AdmitObservation(s)
  PROVE  Silent \/ \E ev : /\ Event(ev) /\ ev.type = "external"
                           /\ \E c \in calls[s] : c.kind = "external" /\ ev.value = c.observation
<1>1. PICK c \in calls[s] :
        /\ c.kind = "external"
        /\ Settle(s, /\ ExternalStructure(p, c.observation)
                     /\ \A n \in DOMAIN History(p.external, c.id) :
                          p.external[c.id][n] # c.observation,
                  [type |-> "external", id |-> c.id, value |-> c.observation])
  BY DEF AdmitObservation
<1> DEFINE valid == /\ ExternalStructure(p, c.observation)
                    /\ \A n \in DOMAIN History(p.external, c.id) :
                         p.external[c.id][n] # c.observation
           ev == [type |-> "external", id |-> c.id, value |-> c.observation]
<1>2. ev.type = "external" /\ ev.id = c.id /\ ev.value = c.observation
  OBVIOUS
<1>3. s \in left.observers /\ c.observation.recorded \in {t \in Int : t <= now}
  BY <1>1 DEF StewardInv, CallsInv
<1>4. Settle(s, valid, ev)
  BY <1>1
<1> HIDE DEF ev
<1>5. CASE valid
  <2>1. Emit(ev)
    BY <1>4, <1>5 DEF Settle
  <2>2. Event(ev)
    BY <1>2, <1>3, <1>5, <2>1 DEF Event, Types, Sound
  <2> QED BY <1>1, <1>2, <1>3, <2>2
<1>6. CASE ~valid
  <2> HIDE DEF valid
  <2> QED BY <1>4, <1>6 DEF Settle, Silent
<1> QED BY <1>5, <1>6

LEMMA ProposalEvent ==
  ASSUME StewardInv, NEW s \in Stewards, AdmitProposal(s)
  PROVE  Silent \/ \E ev : Event(ev) /\ ev.type = "proposal"
<1>1. PICK c \in calls[s] :
        LET w == c.command
        IN IF w.id \notin DOMAIN p.commitments \/ p.commitments[w.id].roadmap = <<>>
           THEN Settle(s, FALSE, [type |-> "none"])
           ELSE LET q == WorkOrderProposal(Cardinality(p.proposals) + 1, w.id,
                                           p.commitments[w.id], w.criteria, w.intervention,
                                           w.support, c.signals, c.at)
                IN Settle(s, ProposalStructure(p, q, c.at), [type |-> "proposal", value |-> q])
  BY DEF AdmitProposal
<1> DEFINE w == c.command
           q == WorkOrderProposal(Cardinality(p.proposals) + 1, w.id, p.commitments[w.id],
                                  w.criteria, w.intervention, w.support, c.signals, c.at)
           ev == [type |-> "proposal", value |-> q]
<1>2. CASE w.id \notin DOMAIN p.commitments \/ p.commitments[w.id].roadmap = <<>>
  <2>1. Settle(s, FALSE, [type |-> "none"])
    BY <1>1, <1>2
  <2> QED BY <2>1 DEF Settle, Silent
<1>3. CASE w.id \in DOMAIN p.commitments /\ p.commitments[w.id].roadmap # <<>>
  <2>1. Settle(s, ProposalStructure(p, q, c.at), ev)
    BY <1>1, <1>3
  <2>2. q.at = c.at
    BY DEF WorkOrderProposal
  <2>3. ev.type = "proposal" /\ ev.value = q
    OBVIOUS
  <2>4. \E n, id, criteria, intervention, support, signals, at :
          /\ id \in DOMAIN p.commitments /\ p.commitments[id].roadmap # <<>>
          /\ q = WorkOrderProposal(n, id, p.commitments[id], criteria, intervention, support,
                                   signals, at)
    BY <1>3
  <2> HIDE DEF ev, q, w
  <2>5. CASE ProposalStructure(p, q, c.at)
    <3>1. Emit(ev)
      BY <2>1, <2>5 DEF Settle
    <3>2. Legal(p, ev)
      BY <2>2, <2>3, <2>5, Zenon DEF Legal
    <3>3. Sound(p, ev)
      BY <2>3, <2>4 DEF Sound
    <3> QED BY <2>3, <3>1, <3>2, <3>3 DEF Event, Types
  <2>6. CASE ~ProposalStructure(p, q, c.at)
    BY <2>1, <2>6 DEF Settle, Silent
  <2> QED BY <2>5, <2>6
<1> QED BY <1>2, <1>3

\* Work that is admitted is for its commitment as it is: a revision that the commitment
\* has left is not current, and it has come to none that is newer than the current one.
LEMMA OrderOnCurrent ==
  ASSUME NEW s, WellFormed(s), NEW q \in s.proposals, AdmissionStructure(s, q)
  PROVE  /\ q.commitment \in DOMAIN s.commitments
         /\ s.commitments[q.commitment].status = "active"
         /\ q.roadmap = s.commitments[q.commitment].roadmap /\ q.roadmap # <<>>
         /\ q.order.goals = s.commitments[q.commitment].goals
         /\ LiveRoadmap(s, q.roadmap)
<1>1. IsDerived(s, q)
  BY DEF WellFormed, WorkIsWellFormed
<1> DEFINE c == s.commitments[q.commitment]
<1>2. /\ q.commitment \in DOMAIN s.commitments /\ c.roadmap # <<>> /\ q.order.goals = c.goals
      /\ q.roadmap = <<c.roadmap[1], q.roadmap[2]>> /\ q.roadmap[2] \in 1..c.roadmap[2]
  BY <1>1 DEF IsDerived
<1>3. c.roadmap = <<c.roadmap[1], c.roadmap[2]>> /\ IsKnown(s.roadmaps, c.roadmap)
  BY <1>2 DEF WellFormed, CommitmentsAreWellFormed
<1>4. /\ c.roadmap[2] \in Nat \ {0} /\ c.roadmap[2] <= Len(s.roadmaps[c.roadmap[1]])
      /\ Len(s.roadmaps[c.roadmap[1]]) \in Nat
  BY <1>3, KnownVersion DEF WellFormed
<1>5. LiveRoadmap(s, q.roadmap) /\ c.status = "active"
  BY DEF AdmissionStructure
<1> HIDE DEF c
<1>6. q.roadmap[2] = c.roadmap[2]
  <2>1. q.roadmap[1] = c.roadmap[1]
    BY <1>2
  <2>2. q.roadmap[2] = Len(s.roadmaps[c.roadmap[1]])
    BY <1>5, <2>1 DEF LiveRoadmap, IsCurrent
  <2> QED BY <1>2, <1>4, <2>2
<1>7. q.roadmap = c.roadmap
  BY <1>2, <1>3, <1>6
<1> QED BY <1>2, <1>5, <1>7 DEF c

\* Two proposals of one order serve one commitment on one revision, and the assistance
\* of either was checked for it.
LEMMA OrderIsLegal ==
  ASSUME NEW s, WellFormed(s), NEW q \in s.proposals, AdmissionStructure(s, q),
         NEW r \in s.proposals, r.order = q.order
  PROVE  AdmissionStructure(s, r)
<1>1. IsDerived(s, q) /\ IsDerived(s, r)
  BY DEF WellFormed, WorkIsWellFormed
<1>2. r.commitment = q.commitment /\ r.roadmap = q.roadmap
  BY <1>1 DEF IsDerived
<1>3. r.roadmap = s.commitments[r.commitment].roadmap => Assisted(s, r)
  BY <1>1 DEF IsDerived
<1>4. q.roadmap = s.commitments[q.commitment].roadmap
  BY OrderOnCurrent
<1>5. Assisted(s, r)
  BY <1>2, <1>3, <1>4
<1> QED BY <1>2, <1>5 DEF AdmissionStructure

LEMMA OrderEvent ==
  ASSUME StewardInv, NEW s \in Stewards, AdmitOrder(s)
  PROVE  Silent \/ \E ev : Event(ev) /\ ev.type = "order"
<1>1. PICK c \in calls[s] :
        /\ c.kind = "order"
        /\ Settle(s, c.proposal.order \notin p.admitted /\ AdmissionStructure(p, c.proposal),
                  [type |-> "order", value |-> c.proposal.order])
  BY DEF AdmitOrder
<1> DEFINE valid == c.proposal.order \notin p.admitted /\ AdmissionStructure(p, c.proposal)
           ev == [type |-> "order", value |-> c.proposal.order]
<1>2. ev.type = "order" /\ ev.value = c.proposal.order
  OBVIOUS
<1>3. c.proposal \in p.proposals /\ WellFormed(p)
  BY <1>1 DEF StewardInv, CallsInv
<1>4. Settle(s, valid, ev)
  BY <1>1
<1> HIDE DEF ev
<1>5. CASE valid
  <2>1. Emit(ev)
    BY <1>4, <1>5 DEF Settle
  <2>2. \A q \in p.proposals : q.order = ev.value => AdmissionStructure(p, q)
    BY <1>2, <1>3, <1>5, OrderIsLegal
  <2>3. Legal(p, ev)
    BY <1>2, <2>2, Zenon DEF Legal
  <2>4. Sound(p, ev)
    BY <1>2, <1>3 DEF Sound
  <2> QED BY <1>2, <2>1, <2>3, <2>4 DEF Event, Types
<1>6. CASE ~valid
  <2> HIDE DEF valid
  <2> QED BY <1>4, <1>6 DEF Settle, Silent
<1> QED BY <1>5, <1>6

LEMMA LegacyEvent ==
  ASSUME StewardInv, NEW ev \in LegacyEvents, EmitLegacy(ev)
  PROVE  Event(ev) /\ ev.type \in {"legacy_goal", "legacy_commitment"}
<1>1. /\ ev.type \in {"legacy_goal", "legacy_commitment"}
      /\ ev.type = "legacy_commitment" => Upcast(ev.status).status \in Lifecycle
  BY StartAssumption
<1>2. Emit(ev)
  BY DEF EmitLegacy, Record
<1>3. ev.type = "legacy_commitment" => Legal(p, ev)
  BY Zenon DEF Legal
<1>4. Sound(p, ev)
  BY <1>1 DEF Sound
<1> QED BY <1>1, <1>2, <1>3, <1>4 DEF Event, Types

LEMMA GraphEvent ==
  ASSUME StewardInv, NEW id, AcceptGraph(id)
  PROVE  \E ev : Event(ev) /\ ev.type = "graph"
<1> DEFINE ev == [type |-> "graph", id |-> id]
<1>1. Emit(ev)
  BY DEF AcceptGraph, Record
<1>2. ev.type = "graph"
  OBVIOUS
<1> HIDE DEF ev
<1>3. Legal(p, ev)
  BY <1>2, Zenon DEF Legal
<1> QED BY <1>1, <1>2, <1>3 DEF Event, Types, Sound

\* A call leaves the projection alone.
LEMMA CallsAreSilent ==
  ASSUME NEW s, NEW kind, NEW call, Capture(s, kind, call)
  PROVE  Silent
BY DEF Capture, Silent

\* Every step appends one event or none, and observations come from observers.
LEMMA StepEvents ==
  ASSUME StewardInv, Next
  PROVE  Silent \/ \E ev :
           /\ Event(ev)
           /\ ev.type = "external" =>
                \E s \in Stewards :
                  /\ AdmitObservation(s)
                  /\ \E c \in calls[s] : c.kind = "external" /\ ev.value = c.observation
<1>1. CASE \E s \in Stewards, g \in Goals : CallGoal(s, g)
  BY <1>1, CallsAreSilent DEF CallGoal
<1>2. CASE \E s \in Stewards : AdmitGoal(s)
  BY <1>2, GoalEvent
<1>3. CASE \E s \in Stewards, m \in Roadmaps : CallRoadmap(s, m)
  BY <1>3, CallsAreSilent DEF CallRoadmap
<1>4. CASE \E s \in Stewards : AdmitRoadmap(s)
  BY <1>4, RoadmapEvent
<1>5. CASE \E s \in Stewards, t \in Transitions : CallTransition(s, t)
  BY <1>5, CallsAreSilent DEF CallTransition
<1>6. CASE \E s \in Stewards : AdmitTransition(s)
  BY <1>6, TransitionEvent
<1>7. CASE \E s \in Stewards, w \in Workstreams : CallObserve(s, w)
  BY <1>7, CallsAreSilent DEF CallObserve
<1>8. CASE \E s \in Stewards : AdmitObservation(s)
  BY <1>8, ObservationEvent
<1>9. CASE \E s \in Stewards, w \in Works : CallPropose(s, w)
  BY <1>9, CallsAreSilent DEF CallPropose
<1>10. CASE \E s \in Stewards : AdmitProposal(s)
  BY <1>10, ProposalEvent
<1>11. CASE \E s \in Stewards : CallAdmission(s)
  BY <1>11, CallsAreSilent DEF CallAdmission
<1>12. CASE \E s \in Stewards : AdmitOrder(s)
  BY <1>12, OrderEvent
<1>13. CASE \E executor \in Loci : RecordRoles(executor)
  BY <1>13, RolesEvent
<1>14. CASE \E terms \in Terms : RecordAssistance(terms)
  BY <1>14, EnvelopeEvent
<1>15. CASE \E c \in Commitments : RecordCommitment(c)
  BY <1>15, CommitmentEvent
<1>16. CASE \E ev \in LegacyEvents : EmitLegacy(ev)
  BY <1>16, LegacyEvent
<1>17. CASE \E w \in Workstreams : AcceptGraph(w.ref)
  BY <1>17, GraphEvent
<1>18. CASE Tick
  BY <1>18 DEF Tick, Silent
<1> QED BY <1>1, <1>2, <1>3, <1>4, <1>5, <1>6, <1>7, <1>8, <1>9, <1>10, <1>11, <1>12, <1>13,
           <1>14, <1>15, <1>16, <1>17, <1>18 DEF Next

-----------------------------------------------------------------------------
\* The inductive invariant.

\* The only fields that an event of a type can change.
LEMMA AppliedChange ==
  ASSUME NEW s, WellFormed(s), NEW ev, ev.type \in Types,
         ev.type = "transition" => ev.id \in DOMAIN s.commitments
  PROVE  /\ ev.type \notin {"goal", "legacy_goal"} => Applied(s, ev).goals = s.goals
         /\ ev.type # "roadmap" => Applied(s, ev).roadmaps = s.roadmaps
         /\ ev.type \notin {"commitment", "transition", "legacy_commitment"} =>
              Applied(s, ev).commitments = s.commitments
         /\ ev.type # "proposal" => Applied(s, ev).proposals = s.proposals
         /\ ev.type # "order" => Applied(s, ev).admitted = s.admitted
         /\ ev.type # "external" => Applied(s, ev).external = s.external
         /\ ev.type = "proposal" =>
              Applied(s, ev).proposals = s.proposals \cup {ev.value}
         /\ ev.type = "order" => Applied(s, ev).admitted = s.admitted \cup {ev.value}
         /\ ev.type = "external" =>
              Applied(s, ev).external = Extend(s.external, ev.id, ev.value)
<1>0. IsProjection(s)
  BY DEF WellFormed, IsProjection, Projection
<1> DEFINE t == Applied(s, ev)
<1>1. CASE ev.type = "goal"
  <2>1. t = Projection(Extend(s.goals, ev.id, ev.value), s.roadmaps, s.roles, s.envelopes,
                       s.commitments, s.proposals, s.admitted, s.external, s.graphs)
    BY <1>0, <1>1, AppliedFields
  <2> HIDE DEF t
  <2> QED BY <1>1, <2>1 DEF Projection, t
<1>2. CASE ev.type = "roadmap"
  <2>1. t = Projection(s.goals, Extend(s.roadmaps, ev.id, ev.value), s.roles, s.envelopes,
                       s.commitments, s.proposals, s.admitted, s.external, s.graphs)
    BY <1>0, <1>2, AppliedFields
  <2> HIDE DEF t
  <2> QED BY <1>2, <2>1 DEF Projection, t
<1>3. CASE ev.type = "roles"
  <2>1. t = Projection(s.goals, s.roadmaps, s.roles \cup {ev.value}, s.envelopes, s.commitments,
                       s.proposals, s.admitted, s.external, s.graphs)
    BY <1>0, <1>3, AppliedFields
  <2> HIDE DEF t
  <2> QED BY <1>3, <2>1 DEF Projection, t
<1>4. CASE ev.type = "envelope"
  <2>1. t = Projection(s.goals, s.roadmaps, s.roles, s.envelopes \cup {ev.value}, s.commitments,
                       s.proposals, s.admitted, s.external, s.graphs)
    BY <1>0, <1>4, AppliedFields
  <2> HIDE DEF t
  <2> QED BY <1>4, <2>1 DEF Projection, t
<1>5. CASE ev.type = "commitment"
  <2>1. t = Projection(s.goals, s.roadmaps, s.roles, s.envelopes, Put(s.commitments, ev.id,
                       ev.value), s.proposals, s.admitted, s.external, s.graphs)
    BY <1>0, <1>5, AppliedFields
  <2> HIDE DEF t
  <2> QED BY <1>5, <2>1 DEF Projection, t
<1>6. CASE ev.type = "external"
  <2>1. t = Projection(s.goals, s.roadmaps, s.roles, s.envelopes, s.commitments, s.proposals,
                       s.admitted, Extend(s.external, ev.id, ev.value), s.graphs)
    BY <1>0, <1>6, AppliedFields
  <2> HIDE DEF t
  <2> QED BY <1>6, <2>1 DEF Projection, t
<1>7. CASE ev.type = "proposal"
  <2>1. t = Projection(s.goals, s.roadmaps, s.roles, s.envelopes, s.commitments, s.proposals
                       \cup {ev.value}, s.admitted, s.external, s.graphs)
    BY <1>0, <1>7, AppliedFields
  <2> HIDE DEF t
  <2> QED BY <1>7, <2>1 DEF Projection, t
<1>8. CASE ev.type = "order"
  <2>1. t = Projection(s.goals, s.roadmaps, s.roles, s.envelopes, s.commitments, s.proposals,
                       s.admitted \cup {ev.value}, s.external, s.graphs)
    BY <1>0, <1>8, AppliedFields
  <2> HIDE DEF t
  <2> QED BY <1>8, <2>1 DEF Projection, t
<1>9. CASE ev.type = "graph"
  <2>1. t = Projection(s.goals, s.roadmaps, s.roles, s.envelopes, s.commitments, s.proposals,
                       s.admitted, s.external, s.graphs \cup {ev.id})
    BY <1>0, <1>9, AppliedFields
  <2> HIDE DEF t
  <2> QED BY <1>9, <2>1 DEF Projection, t
<1>10. CASE ev.type = "transition"
  <2> DEFINE d == Transitioned(s.commitments[ev.id], ev.value)
  <2>1. t = Projection(s.goals, s.roadmaps, s.roles, s.envelopes, Put(s.commitments, ev.id, d),
                       s.proposals, s.admitted, s.external, s.graphs)
    BY <1>0, <1>10, AppliedTransition
  <2> HIDE DEF t, d
  <2> QED BY <1>10, <2>1 DEF Projection, t
<1>11. CASE ev.type = "legacy_goal"
  <2> DEFINE r == LegacyGoal(s, ev)
  <2>1. t = IF Ignored(s, ev) THEN s ELSE [s EXCEPT !.goals = Extend(@, ev.id, r)]
    BY <1>11, Zenon DEF Applied
  <2> HIDE DEF t, r
  <2> QED BY <1>0, <1>11, <2>1 DEF IsProjection, Projection, t
<1>12. CASE ev.type = "legacy_commitment"
  <2> DEFINE d == LegacyCommitment(s, ev)
  <2>1. t = IF Ignored(s, ev) THEN s ELSE [s EXCEPT !.commitments = Put(@, ev.id, d)]
    BY <1>12, Zenon DEF Applied
  <2> HIDE DEF t, d
  <2> QED BY <1>0, <1>12, <2>1 DEF IsProjection, Projection, t
<1> QED BY <1>1, <1>2, <1>3, <1>4, <1>5, <1>6, <1>7, <1>8, <1>9, <1>10, <1>11, <1>12
        DEF Types

\* A transition that replay accepts is of a commitment that exists.
LEMMA LegalTransition ==
  ASSUME NEW s, NEW ev, ev.type = "transition", Legal(s, ev)
  PROVE  TransitionStructure(s, ev.id, ev.value) /\ ev.id \in DOMAIN s.commitments
<1>1. TransitionStructure(s, ev.id, ev.value)
  BY Zenon DEF Legal
<1> QED BY <1>1 DEF TransitionStructure

\* An observation is appended to those that were made before the clock was read.
LEMMA ObservedExtension ==
  ASSUME NEW f, NEW at, ObservedBy(f, at), NEW id, NEW o, o.recorded \in {t \in Int : t <= at}
  PROVE  ObservedBy(Extend(f, id, o), at)
<1>1. \A i \in DOMAIN f : IsHistory(f[i])
  BY DEF ObservedBy
<1>e. /\ DOMAIN Extend(f, id, o) = DOMAIN f \cup {id}
      /\ \A i \in DOMAIN f : i # id => Extend(f, id, o)[i] = f[i]
      /\ Extend(f, id, o)[id] = Append(History(f, id), o)
      /\ (id \in DOMAIN f => History(f, id) = f[id])
      /\ (id \notin DOMAIN f => History(f, id) = <<>>)
      /\ IsHistory(History(f, id)) \/ History(f, id) = <<>>
      /\ \A i \in DOMAIN Extend(f, id, o) : IsHistory(Extend(f, id, o)[i])
  BY <1>1, Extended
<1> DEFINE g == Extend(f, id, o)
           h == History(f, id)
<1>2. /\ DOMAIN Append(h, o) = 1..(Len(h) + 1) /\ Len(h) \in Nat /\ DOMAIN h = 1..Len(h)
      /\ \A n \in DOMAIN h : Append(h, o)[n] = h[n]
      /\ Append(h, o)[Len(h) + 1] = o
  BY <1>e, AppendHistory
<1>3. /\ DOMAIN g = DOMAIN f \cup {id} /\ g[id] = Append(h, o)
      /\ \A i \in DOMAIN f : i # id => g[i] = f[i]
      /\ (id \in DOMAIN f => h = f[id]) /\ (id \notin DOMAIN f => h = <<>>)
      /\ \A i \in DOMAIN g : IsHistory(g[i])
  BY <1>e
<1> HIDE DEF g, h
<1> DEFINE T == {t \in Int : t <= at}
<1>4. o.recorded \in T /\ \A i \in DOMAIN f : \A n \in DOMAIN f[i] : f[i][n].recorded \in T
  BY DEF ObservedBy
<1> SUFFICES ASSUME NEW i \in DOMAIN g, NEW n \in DOMAIN g[i] PROVE g[i][n].recorded \in T
  BY <1>3 DEF ObservedBy, g
<1> HIDE DEF T
<1>5. CASE i # id
  BY <1>3, <1>4, <1>5
<1>6. CASE i = id /\ n = Len(h) + 1
  BY <1>2, <1>3, <1>4, <1>6
<1>7. CASE i = id /\ n # Len(h) + 1
  <2>1. n \in DOMAIN h /\ g[i][n] = h[n] /\ id \in DOMAIN f
    BY <1>2, <1>3, <1>7
  <2> QED BY <1>3, <1>4, <2>1
<1> QED BY <1>5, <1>6, <1>7

LEMMA EventKeeps ==
  ASSUME StewardInv, NEW ev, Event(ev)
  PROVE  /\ WellFormed(p') /\ ObservedBy(p'.external, now)
         /\ readable' \in BOOLEAN /\ (readable' \/ ev.type \in {"external", "legacy_goal"})
         /\ p.proposals \subseteq p'.proposals
         /\ ev.type # "external" => p'.external = p.external
<1>1. /\ WellFormed(p) /\ ObservedBy(p.external, now)
      /\ ev.type \in Types /\ Sound(p, ev)
      /\ p' = IF Legal(p, ev) THEN Applied(p, ev) ELSE p
      /\ readable' = Legal(p, ev)
      /\ ev.type \notin {"external", "legacy_goal"} => Legal(p, ev)
  BY DEF StewardInv, Event, Emit
<1>2. readable' \in BOOLEAN
  <2>1. CASE ev.type = "external"
    <3>1. Legal(p, ev) = LegalObservation(p, ev.id, ev.value)
      BY <2>1, Zenon DEF Legal
    <3>2. LegalObservation(p, ev.id, ev.value) \in BOOLEAN
      BY DEF LegalObservation
    <3> QED BY <1>1, <3>1, <3>2
  <2>2. CASE ev.type = "legacy_goal"
    <3>1. Legal(p, ev) = LegacyGoalStructure(p, ev)
      BY <2>2, Zenon DEF Legal
    <3>2. LegacyGoalStructure(p, ev) \in BOOLEAN
      BY DEF LegacyGoalStructure
    <3> QED BY <1>1, <3>1, <3>2
  <2>3. CASE ev.type \notin {"external", "legacy_goal"}
    BY <1>1, <2>3
  <2> QED BY <2>1, <2>2, <2>3
<1>3. CASE ~Legal(p, ev)
  BY <1>1, <1>2, <1>3
<1>4. CASE Legal(p, ev)
  <2>1. p' = Applied(p, ev)
    BY <1>1, <1>4
  <2>2. ev.type = "transition" => ev.id \in DOMAIN p.commitments
    BY <1>4, LegalTransition
  <2>3. WellFormed(p')
    BY <1>1, <1>4, <2>1, AppliedIsWellFormed
  <2>4. /\ ev.type # "external" => p'.external = p.external
        /\ ev.type = "external" => p'.external = Extend(p.external, ev.id, ev.value)
        /\ p.proposals \subseteq p'.proposals
    BY <1>1, <2>1, <2>2, AppliedChange
  <2>5. ObservedBy(p'.external, now)
    <3>1. CASE ev.type = "external"
      <4>1. ev.value.recorded \in {t \in Int : t <= now}
        BY <3>1 DEF Event
      <4>2. ObservedBy(Extend(p.external, ev.id, ev.value), now)
        BY <1>1, <4>1, ObservedExtension
      <4> QED BY <2>4, <3>1, <4>2
    <3>2. CASE ev.type # "external"
      BY <1>1, <2>4, <3>2
    <3> QED BY <3>1, <3>2
  <2> QED BY <1>1, <1>2, <1>4, <2>3, <2>4, <2>5
<1> QED BY <1>3, <1>4

\* What a call that awaits its turn has captured.
\* What CallsInv says of one call.
CallOk(s, c) ==
  /\ c.kind = "goal" => c.command \in Goals
  /\ c.kind = "transition" =>
       \A r \in c.remap : r.roadmap = <<r.roadmap[1], r.roadmap[2]>>
  /\ c.kind = "external" =>
       s \in left.observers /\ c.observation.recorded \in {t \in Int : t <= now}
  /\ c.kind = "order" => c.proposal \in p.proposals

\* Proposals stay, the clock does not go back, and who observes is given.
Onwards ==
  /\ p.proposals \subseteq p'.proposals
  /\ now' \in Nat /\ now' >= now
  /\ "observers" \in DOMAIN left' /\ left'.observers = left.observers

LEMMA CallOkStays ==
  ASSUME now \in Nat, Onwards, NEW s, NEW c, CallOk(s, c)
  PROVE  CallOk(s, c)'
BY DEF Onwards, CallOk

LEMMA SpendOnwards ==
  ASSUME "observers" \in DOMAIN left, NEW kind, kind # "observers", Spend(kind)
  PROVE  "observers" \in DOMAIN left' /\ left'.observers = left.observers
BY DEF Spend

LEMMA CaptureCalls ==
  ASSUME StewardInv, NEW s \in Stewards, NEW kind, kind # "observers", NEW call,
         Capture(s, kind, call), CallOk(s, call)
  PROVE  DOMAIN calls' = Stewards /\ CallsInv' /\ Onwards
<1>1. Onwards
  BY SpendOnwards DEF StewardInv, Capture, Onwards
<1>2. DOMAIN calls' = Stewards /\ calls' = [calls EXCEPT ![s] = {call}]
  BY DEF StewardInv, Capture
<1>3. ASSUME NEW t \in Stewards, NEW c \in calls'[t] PROVE calls'[t] = {c} /\ CallOk(t, c)'
  <2>1. calls'[t] = {c} /\ CallOk(t, c)
    <3>1. CASE t = s
      BY <1>2, <1>3, <3>1 DEF StewardInv
    <3>2. CASE t # s
      <4>1. c \in calls[t] /\ calls'[t] = calls[t]
        BY <1>2, <1>3, <3>2 DEF StewardInv
      <4> QED BY <4>1 DEF StewardInv, CallsInv, CallOk
    <3> QED BY <3>1, <3>2
  <2>2. CallOk(t, c)'
    BY <1>1, <2>1, CallOkStays DEF StewardInv
  <2> QED BY <2>1, <2>2
<1> QED BY <1>1, <1>2, <1>3 DEF CallsInv, CallOk

LEMMA SettleCalls ==
  ASSUME StewardInv, NEW s \in Stewards, calls' = [calls EXCEPT ![s] = {}],
         UNCHANGED <<now, left>>, p.proposals \subseteq p'.proposals
  PROVE  DOMAIN calls' = Stewards /\ CallsInv' /\ Onwards
<1>1. Onwards
  BY DEF StewardInv, Onwards
<1>2. DOMAIN calls' = Stewards
  BY DEF StewardInv
<1>3. ASSUME NEW t \in Stewards, NEW c \in calls'[t] PROVE calls'[t] = {c} /\ CallOk(t, c)'
  <2>1. c \in calls[t] /\ calls'[t] = calls[t]
    BY <1>3 DEF StewardInv
  <2>2. calls[t] = {c} /\ CallOk(t, c)
    BY <2>1 DEF StewardInv, CallsInv, CallOk
  <2>3. CallOk(t, c)'
    BY <1>1, <2>2, CallOkStays DEF StewardInv
  <2> QED BY <2>1, <2>2, <2>3
<1> QED BY <1>1, <1>2, <1>3 DEF CallsInv, CallOk

LEMMA RestingCalls ==
  ASSUME StewardInv, calls' = calls, Onwards
  PROVE  DOMAIN calls' = Stewards /\ CallsInv' /\ Onwards
<1>1. ASSUME NEW t \in Stewards, NEW c \in calls'[t] PROVE calls'[t] = {c} /\ CallOk(t, c)'
  <2>1. calls[t] = {c} /\ CallOk(t, c)
    BY <1>1 DEF StewardInv, CallsInv, CallOk
  <2>2. CallOk(t, c)'
    BY <2>1, CallOkStays DEF StewardInv
  <2> QED BY <2>1, <2>2
<1> QED BY <1>1 DEF StewardInv, CallsInv, CallOk

LEMMA RecordCalls ==
  ASSUME StewardInv, NEW kind, kind # "observers", Spend(kind), UNCHANGED <<calls, now>>,
         p.proposals \subseteq p'.proposals
  PROVE  DOMAIN calls' = Stewards /\ CallsInv' /\ Onwards
<1>1. Onwards
  BY SpendOnwards DEF StewardInv, Onwards
<1> QED BY <1>1, RestingCalls

LEMMA ProposalsStay ==
  ASSUME StewardInv, Next
  PROVE  p.proposals \subseteq p'.proposals
BY StepEvents, EventKeeps DEF Silent

LEMMA StepCalls ==
  ASSUME StewardInv, Next
  PROVE  DOMAIN calls' = Stewards /\ CallsInv' /\ Onwards
<1>0. p.proposals \subseteq p'.proposals
  BY ProposalsStay
<1>1. ASSUME NEW s \in Stewards, NEW g \in Goals, CallGoal(s, g)
      PROVE  DOMAIN calls' = Stewards /\ CallsInv' /\ Onwards
  <2> DEFINE c == [kind |-> "goal", command |-> g, expected |-> CurrentRef(p.goals, g.id)]
  <2>1. Capture(s, "goal", c) /\ CallOk(s, c)
    BY <1>1 DEF CallGoal, CallOk
  <2> HIDE DEF c
  <2> QED BY <2>1, CaptureCalls
<1>2. CASE \E s \in Stewards : AdmitGoal(s)
  BY <1>0, <1>2, SettleCalls DEF AdmitGoal, Settle
<1>3. ASSUME NEW s \in Stewards, NEW m \in Roadmaps, CallRoadmap(s, m)
      PROVE  DOMAIN calls' = Stewards /\ CallsInv' /\ Onwards
  <2> DEFINE c == [kind |-> "roadmap", command |-> m, expected |-> CurrentRef(p.roadmaps, m.id),
                   goals |-> UNION {CurrentRef(p.goals, g) : g \in m.goals}]
  <2>1. Capture(s, "roadmap", c)
    BY <1>3 DEF CallRoadmap
  <2>2. c.kind = "roadmap"
    OBVIOUS
  <2> HIDE DEF c
  <2>3. CallOk(s, c)
    BY <2>2 DEF CallOk
  <2> QED BY <2>1, <2>3, CaptureCalls
<1>4. CASE \E s \in Stewards : AdmitRoadmap(s)
  BY <1>0, <1>4, SettleCalls DEF AdmitRoadmap, Settle
<1>5. ASSUME NEW s \in Stewards, NEW t \in Transitions, CallTransition(s, t)
      PROVE  DOMAIN calls' = Stewards /\ CallsInv' /\ Onwards
  <2>1. PICK remap \in IF t.reorients THEN {{r} : r \in Remappings(p.commitments[t.id])}
                       ELSE {{}} :
          Capture(s, "transition",
                  [kind |-> "transition", command |-> t, remap |-> remap,
                   expected |-> p.commitments[t.id].status])
    BY <1>5 DEF CallTransition
  <2> DEFINE c == [kind |-> "transition", command |-> t, remap |-> remap,
                   expected |-> p.commitments[t.id].status]
  <2>2. ASSUME NEW r \in remap PROVE r.roadmap = <<r.roadmap[1], r.roadmap[2]>>
    <3>1. r \in Remappings(p.commitments[t.id])
      BY <2>1, <2>2
    <3> QED BY <3>1 DEF Remappings, CurrentRef
  <2>3. c.kind = "transition" /\ c.remap = remap /\ Capture(s, "transition", c)
    BY <2>1
  <2> HIDE DEF c
  <2>4. CallOk(s, c)
    BY <2>2, <2>3 DEF CallOk
  <2> QED BY <2>3, <2>4, CaptureCalls
<1>6. CASE \E s \in Stewards : AdmitTransition(s)
  BY <1>0, <1>6, SettleCalls DEF AdmitTransition, Settle
<1>7. ASSUME NEW s \in Stewards, NEW w \in Workstreams, CallObserve(s, w)
      PROVE  DOMAIN calls' = Stewards /\ CallsInv' /\ Onwards
  <2> DEFINE o == ExternalWorkstream(w.ref, now, now + w.fresh, w.supports, w.required)
             c == [kind |-> "external", id |-> w.id, observation |-> o]
  <2>1. Capture(s, "external", c) /\ s \in left.observers
    BY <1>7 DEF CallObserve
  <2>2. o.recorded = now /\ now \in Nat
    BY DEF ExternalWorkstream, StewardInv
  <2>3. c.kind = "external" /\ c.observation = o
    OBVIOUS
  <2> HIDE DEF c, o
  <2>4. CallOk(s, c)
    BY <2>1, <2>2, <2>3 DEF CallOk
  <2> QED BY <2>1, <2>4, CaptureCalls
<1>8. CASE \E s \in Stewards : AdmitObservation(s)
  BY <1>0, <1>8, SettleCalls DEF AdmitObservation, Settle
<1>9. ASSUME NEW s \in Stewards, NEW w \in Works, CallPropose(s, w)
      PROVE  DOMAIN calls' = Stewards /\ CallsInv' /\ Onwards
  <2> DEFINE c == [kind |-> "proposal", command |-> w, at |-> now,
                   signals |-> PortfolioSignals(Cardinality(PendingWork(p)))]
  <2>1. Capture(s, "proposal", c) /\ c.kind = "proposal"
    BY <1>9 DEF CallPropose
  <2> HIDE DEF c
  <2>2. CallOk(s, c)
    BY <2>1 DEF CallOk
  <2> QED BY <2>1, <2>2, CaptureCalls
<1>10. CASE \E s \in Stewards : AdmitProposal(s)
  BY <1>0, <1>10, SettleCalls DEF AdmitProposal, Settle
<1>11. ASSUME NEW s \in Stewards, CallAdmission(s)
       PROVE  DOMAIN calls' = Stewards /\ CallsInv' /\ Onwards
  <2>1. PICK q \in PendingWork(p) : Capture(s, "order", [kind |-> "order", proposal |-> q])
    BY <1>11 DEF CallAdmission
  <2> DEFINE c == [kind |-> "order", proposal |-> q]
  <2>2. Capture(s, "order", c) /\ c.kind = "order" /\ c.proposal = q
    BY <2>1
  <2> HIDE DEF c
  <2>3. CallOk(s, c)
    BY <2>2 DEF CallOk, PendingWork
  <2> QED BY <2>2, <2>3, CaptureCalls
<1>12. CASE \E s \in Stewards : AdmitOrder(s)
  BY <1>0, <1>12, SettleCalls DEF AdmitOrder, Settle
<1>13. CASE \E executor \in Loci : RecordRoles(executor)
  BY <1>0, <1>13, RecordCalls DEF RecordRoles, Record
<1>14. CASE \E terms \in Terms : RecordAssistance(terms)
  BY <1>0, <1>14, RecordCalls DEF RecordAssistance, Record
<1>15. CASE \E c \in Commitments : RecordCommitment(c)
  BY <1>0, <1>15, RecordCalls DEF RecordCommitment, Record
<1>16. CASE \E ev \in LegacyEvents : EmitLegacy(ev)
  BY <1>0, <1>16, RecordCalls DEF EmitLegacy, Record
<1>17. CASE \E w \in Workstreams : AcceptGraph(w.ref)
  BY <1>0, <1>17, RecordCalls DEF AcceptGraph, Record
<1>18. CASE Tick
  <2>1. "observers" \in DOMAIN left' /\ left'.observers = left.observers
    BY <1>18 DEF Tick, StewardInv
  <2>2. Onwards
    BY <1>0, <1>18, <2>1 DEF Tick, StewardInv, Onwards
  <2> QED BY <1>18, <2>2, RestingCalls DEF Tick
<1> QED BY <1>1, <1>2, <1>3, <1>4, <1>5, <1>6, <1>7, <1>8, <1>9, <1>10, <1>11, <1>12, <1>13,
           <1>14, <1>15, <1>16, <1>17, <1>18 DEF Next

LEMMA StewardInit ==
  ASSUME Init
  PROVE  StewardInv
<1>1. PICK s \in Scenarios :
        /\ p = s.start /\ readable = TRUE
        /\ calls = [t \in Stewards |-> {}]
        /\ now = 0 /\ left = s.left
  BY DEF Init
<1>2. WellFormed(p) /\ ObservedBy(p.external, 0) /\ "observers" \in DOMAIN left
  BY <1>1, StartAssumption
<1> QED BY <1>1, <1>2 DEF StewardInv, CallsInv

LEMMA ObservedLater ==
  ASSUME NEW f, NEW a \in Nat, NEW b \in Nat, a <= b, ObservedBy(f, a)
  PROVE  ObservedBy(f, b)
BY DEF ObservedBy

LEMMA StewardStep ==
  ASSUME StewardInv, [Next]_vars
  PROVE  StewardInv'
<1>1. CASE UNCHANGED vars
  BY <1>1 DEF vars, StewardInv, CallsInv
<1>2. CASE Next
  <2>1. DOMAIN calls' = Stewards /\ CallsInv' /\ Onwards
    BY <1>2, StepCalls
  <2>2. WellFormed(p') /\ ObservedBy(p'.external, now) /\ readable' \in BOOLEAN
    BY <1>2, StepEvents, EventKeeps DEF Silent, StewardInv
  <2>3. now' \in Nat /\ now <= now' /\ "observers" \in DOMAIN left' /\ now \in Nat
    BY <2>1 DEF Onwards, StewardInv
  <2>4. ObservedBy(p'.external, now')
    BY <2>2, <2>3, ObservedLater
  <2> QED BY <2>1, <2>2, <2>3, <2>4 DEF StewardInv
<1> QED BY <1>1, <1>2

\* Whatever stewards, observers and v1 events interleave, the projection stays one that
\* a log can have: numbered revisions, kept lineage, scoped and derived references.
THEOREM IntentIsWellFormed == Spec => []StewardInv
<1>1. Init => StewardInv
  BY StewardInit
<1>2. StewardInv /\ [Next]_vars => StewardInv'
  BY StewardStep
<1> QED BY <1>1, <1>2, PTL DEF Spec

-----------------------------------------------------------------------------
\* Where calls come from and where they end.

\* What a call that was not there before has captured.
Captured(c) ==
  /\ p' = p
  /\ c.kind = "external" => c.observation.recorded = now
  /\ c.kind = "roadmap" => /\ c.command \in Roadmaps /\ c.command.goals \subseteq DOMAIN p.goals
                           /\ c.goals = UNION {CurrentRef(p.goals, g) : g \in c.command.goals}

LEMMA CaptureIsNew ==
  ASSUME StewardInv, NEW s \in Stewards, NEW kind, NEW call, Capture(s, kind, call),
         Captured(call), NEW t \in Stewards, NEW c \in calls'[t]
  PROVE  c \in calls[t] \/ Captured(c)
<1>1. calls' = [calls EXCEPT ![s] = {call}] /\ DOMAIN calls = Stewards
  BY DEF Capture, StewardInv
<1>2. CASE t = s
  BY <1>1, <1>2
<1>3. CASE t # s
  BY <1>1, <1>3
<1> QED BY <1>2, <1>3

LEMMA SettleIsOld ==
  ASSUME StewardInv, NEW s \in Stewards, calls' = [calls EXCEPT ![s] = {}],
         NEW t \in Stewards, NEW c \in calls'[t]
  PROVE  c \in calls[t] /\ t # s
BY DEF StewardInv

LEMMA NewCalls ==
  ASSUME StewardInv, Next, NEW t \in Stewards, NEW c \in calls'[t]
  PROVE  c \in calls[t] \/ Captured(c)
<1>1. ASSUME NEW s \in Stewards, NEW g \in Goals, CallGoal(s, g)
      PROVE  c \in calls[t] \/ Captured(c)
  <2> DEFINE k == [kind |-> "goal", command |-> g, expected |-> CurrentRef(p.goals, g.id)]
  <2>1. Capture(s, "goal", k) /\ k.kind = "goal"
    BY <1>1 DEF CallGoal
  <2> HIDE DEF k
  <2>2. Captured(k)
    BY <2>1 DEF Captured, Capture
  <2> QED BY <2>1, <2>2, CaptureIsNew
<1>2. CASE \E s \in Stewards : AdmitGoal(s)
  BY <1>2, SettleIsOld DEF AdmitGoal, Settle
<1>3. ASSUME NEW s \in Stewards, NEW m \in Roadmaps, CallRoadmap(s, m)
      PROVE  c \in calls[t] \/ Captured(c)
  <2> DEFINE k == [kind |-> "roadmap", command |-> m, expected |-> CurrentRef(p.roadmaps, m.id),
                   goals |-> UNION {CurrentRef(p.goals, g) : g \in m.goals}]
  <2>1. Capture(s, "roadmap", k) /\ m.goals \subseteq DOMAIN p.goals
    BY <1>3 DEF CallRoadmap
  <2>2. /\ k.kind = "roadmap" /\ k.command = m
        /\ k.goals = UNION {CurrentRef(p.goals, g) : g \in m.goals}
    OBVIOUS
  <2> HIDE DEF k
  <2>3. Captured(k)
    BY <2>1, <2>2 DEF Captured, Capture
  <2> QED BY <2>1, <2>3, CaptureIsNew
<1>4. CASE \E s \in Stewards : AdmitRoadmap(s)
  BY <1>4, SettleIsOld DEF AdmitRoadmap, Settle
<1>5. ASSUME NEW s \in Stewards, NEW r \in Transitions, CallTransition(s, r)
      PROVE  c \in calls[t] \/ Captured(c)
  <2>1. PICK remap :
          Capture(s, "transition",
                  [kind |-> "transition", command |-> r, remap |-> remap,
                   expected |-> p.commitments[r.id].status])
    BY <1>5 DEF CallTransition
  <2> DEFINE k == [kind |-> "transition", command |-> r, remap |-> remap,
                   expected |-> p.commitments[r.id].status]
  <2>2. Capture(s, "transition", k) /\ k.kind = "transition"
    BY <2>1
  <2> HIDE DEF k
  <2>3. Captured(k)
    BY <2>2 DEF Captured, Capture
  <2> QED BY <2>2, <2>3, CaptureIsNew
<1>6. CASE \E s \in Stewards : AdmitTransition(s)
  BY <1>6, SettleIsOld DEF AdmitTransition, Settle
<1>7. ASSUME NEW s \in Stewards, NEW w \in Workstreams, CallObserve(s, w)
      PROVE  c \in calls[t] \/ Captured(c)
  <2> DEFINE o == ExternalWorkstream(w.ref, now, now + w.fresh, w.supports, w.required)
             k == [kind |-> "external", id |-> w.id, observation |-> o]
  <2>1. Capture(s, "external", k)
    BY <1>7 DEF CallObserve
  <2>2. o.recorded = now
    BY DEF ExternalWorkstream
  <2>3. k.kind = "external" /\ k.observation = o
    OBVIOUS
  <2> HIDE DEF k, o
  <2>4. Captured(k)
    BY <2>1, <2>2, <2>3 DEF Captured, Capture
  <2> QED BY <2>1, <2>4, CaptureIsNew
<1>8. CASE \E s \in Stewards : AdmitObservation(s)
  BY <1>8, SettleIsOld DEF AdmitObservation, Settle
<1>9. ASSUME NEW s \in Stewards, NEW w \in Works, CallPropose(s, w)
      PROVE  c \in calls[t] \/ Captured(c)
  <2> DEFINE k == [kind |-> "proposal", command |-> w, at |-> now,
                   signals |-> PortfolioSignals(Cardinality(PendingWork(p)))]
  <2>1. Capture(s, "proposal", k) /\ k.kind = "proposal"
    BY <1>9 DEF CallPropose
  <2> HIDE DEF k
  <2>2. Captured(k)
    BY <2>1 DEF Captured, Capture
  <2> QED BY <2>1, <2>2, CaptureIsNew
<1>10. CASE \E s \in Stewards : AdmitProposal(s)
  BY <1>10, SettleIsOld DEF AdmitProposal, Settle
<1>11. ASSUME NEW s \in Stewards, CallAdmission(s)
       PROVE  c \in calls[t] \/ Captured(c)
  <2>1. PICK q \in PendingWork(p) : Capture(s, "order", [kind |-> "order", proposal |-> q])
    BY <1>11 DEF CallAdmission
  <2> DEFINE k == [kind |-> "order", proposal |-> q]
  <2>2. Capture(s, "order", k) /\ k.kind = "order"
    BY <2>1
  <2> HIDE DEF k
  <2>3. Captured(k)
    BY <2>2 DEF Captured, Capture
  <2> QED BY <2>2, <2>3, CaptureIsNew
<1>12. CASE \E s \in Stewards : AdmitOrder(s)
  BY <1>12, SettleIsOld DEF AdmitOrder, Settle
<1>13. CASE \E executor \in Loci : RecordRoles(executor)
  BY <1>13 DEF RecordRoles, Record
<1>14. CASE \E terms \in Terms : RecordAssistance(terms)
  BY <1>14 DEF RecordAssistance, Record
<1>15. CASE \E k \in Commitments : RecordCommitment(k)
  BY <1>15 DEF RecordCommitment, Record
<1>16. CASE \E ev \in LegacyEvents : EmitLegacy(ev)
  BY <1>16 DEF EmitLegacy, Record
<1>17. CASE \E w \in Workstreams : AcceptGraph(w.ref)
  BY <1>17 DEF AcceptGraph, Record
<1>18. CASE Tick
  BY <1>18 DEF Tick
<1> QED BY <1>1, <1>2, <1>3, <1>4, <1>5, <1>6, <1>7, <1>8, <1>9, <1>10, <1>11, <1>12, <1>13,
           <1>14, <1>15, <1>16, <1>17, <1>18 DEF Next

\* A call ends in the turn of its own kind.
Ends(s, c) ==
  \/ c.kind = "goal" /\ AdmitGoal(s)
  \/ c.kind = "roadmap" /\ AdmitRoadmap(s)
  \/ c.kind \notin {"goal", "roadmap"}

LEMMA CaptureEndsNothing ==
  ASSUME StewardInv, NEW s \in Stewards, NEW kind, NEW call, Capture(s, kind, call),
         NEW t \in Stewards, NEW c \in calls[t], calls'[t] = {}
  PROVE  FALSE
<1>1. calls' = [calls EXCEPT ![s] = {call}] /\ DOMAIN calls = Stewards
  BY DEF Capture, StewardInv
<1>2. CASE t = s
  BY <1>1, <1>2
<1>3. CASE t # s
  BY <1>1, <1>3
<1> QED BY <1>2, <1>3

LEMMA SettleEndsOwn ==
  ASSUME StewardInv, NEW s \in Stewards, calls' = [calls EXCEPT ![s] = {}],
         NEW t \in Stewards, NEW c \in calls[t], calls'[t] = {}
  PROVE  t = s /\ calls[t] = {c}
BY DEF StewardInv, CallsInv

LEMMA HowCallsEnd ==
  ASSUME StewardInv, Next, NEW t \in Stewards, NEW c \in calls[t], calls'[t] = {}
  PROVE  Ends(t, c)
<1>1. CASE \E s \in Stewards, g \in Goals : CallGoal(s, g)
  BY <1>1, CaptureEndsNothing DEF CallGoal
<1>2. CASE \E s \in Stewards : AdmitGoal(s)
  <2>1. PICK s \in Stewards : AdmitGoal(s)
    BY <1>2
  <2>2. calls' = [calls EXCEPT ![s] = {}] /\ \E k \in calls[s] : k.kind = "goal"
    BY <2>1 DEF AdmitGoal, Settle
  <2>3. t = s /\ calls[t] = {c}
    BY <2>2, SettleEndsOwn
  <2> QED BY <2>1, <2>2, <2>3 DEF Ends
<1>3. CASE \E s \in Stewards, m \in Roadmaps : CallRoadmap(s, m)
  BY <1>3, CaptureEndsNothing DEF CallRoadmap
<1>4. CASE \E s \in Stewards : AdmitRoadmap(s)
  <2>1. PICK s \in Stewards : AdmitRoadmap(s)
    BY <1>4
  <2>2. calls' = [calls EXCEPT ![s] = {}] /\ \E k \in calls[s] : k.kind = "roadmap"
    BY <2>1 DEF AdmitRoadmap, Settle
  <2>3. t = s /\ calls[t] = {c}
    BY <2>2, SettleEndsOwn
  <2> QED BY <2>1, <2>2, <2>3 DEF Ends
<1>5. CASE \E s \in Stewards, r \in Transitions : CallTransition(s, r)
  BY <1>5, CaptureEndsNothing DEF CallTransition
<1>6. ASSUME NEW s \in Stewards, calls' = [calls EXCEPT ![s] = {}],
             \E k \in calls[s] : k.kind \notin {"goal", "roadmap"}
      PROVE  Ends(t, c)
  <2>1. t = s /\ calls[t] = {c}
    BY <1>6, SettleEndsOwn
  <2> QED BY <1>6, <2>1 DEF Ends
<1>7. CASE \E s \in Stewards, w \in Workstreams : CallObserve(s, w)
  BY <1>7, CaptureEndsNothing DEF CallObserve
<1>8. CASE \E s \in Stewards : AdmitTransition(s)
  <2>1. PICK s \in Stewards : AdmitTransition(s)
    BY <1>8
  <2>2. calls' = [calls EXCEPT ![s] = {}] /\ \E k \in calls[s] : k.kind = "transition"
    BY <2>1 DEF AdmitTransition, Settle
  <2> QED BY <1>6, <2>2
<1>9. CASE \E s \in Stewards : AdmitObservation(s)
  <2>1. PICK s \in Stewards : AdmitObservation(s)
    BY <1>9
  <2>2. calls' = [calls EXCEPT ![s] = {}] /\ \E k \in calls[s] : k.kind = "external"
    BY <2>1 DEF AdmitObservation, Settle
  <2> QED BY <1>6, <2>2
<1>10. CASE \E s \in Stewards : AdmitProposal(s)
  <2>1. PICK s \in Stewards : AdmitProposal(s)
    BY <1>10
  <2>2. calls' = [calls EXCEPT ![s] = {}] /\ \E k \in calls[s] : k.kind = "proposal"
    BY <2>1 DEF AdmitProposal, Settle
  <2> QED BY <1>6, <2>2
<1>11. CASE \E s \in Stewards : CallAdmission(s)
  BY <1>11, CaptureEndsNothing DEF CallAdmission
<1>12. CASE \E s \in Stewards : AdmitOrder(s)
  <2>1. PICK s \in Stewards : AdmitOrder(s)
    BY <1>12
  <2>2. calls' = [calls EXCEPT ![s] = {}] /\ \E k \in calls[s] : k.kind = "order"
    BY <2>1 DEF AdmitOrder, Settle
  <2> QED BY <1>6, <2>2
<1>13. CASE \E s \in Stewards, w \in Works : CallPropose(s, w)
  BY <1>13, CaptureEndsNothing DEF CallPropose
<1>14. CASE \E executor \in Loci : RecordRoles(executor)
  BY <1>14 DEF RecordRoles, Record
<1>15. CASE \E terms \in Terms : RecordAssistance(terms)
  BY <1>15 DEF RecordAssistance, Record
<1>16. CASE \E k \in Commitments : RecordCommitment(k)
  BY <1>16 DEF RecordCommitment, Record
<1>17. CASE \E ev \in LegacyEvents : EmitLegacy(ev)
  BY <1>17 DEF EmitLegacy, Record
<1>18. CASE \E w \in Workstreams : AcceptGraph(w.ref)
  BY <1>18 DEF AcceptGraph, Record
<1>19. CASE Tick
  BY <1>19 DEF Tick
<1> QED BY <1>1, <1>2, <1>3, <1>4, <1>5, <1>7, <1>8, <1>9, <1>10, <1>11, <1>12, <1>13, <1>14,
           <1>15, <1>16, <1>17, <1>18, <1>19 DEF Next

-----------------------------------------------------------------------------
\* IntentInv.

LEMMA FewCalls ==
  ASSUME StewardInv, NEW s \in Stewards
  PROVE  Cardinality(calls[s]) <= 1
<1>1. CASE calls[s] = {}
  <2>1. Cardinality(calls[s]) = 0
    BY <1>1, FS_EmptySet
  <2> QED BY <2>1
<1>2. CASE calls[s] # {}
  <2>1. PICK c : calls[s] = {c}
    BY <1>2 DEF StewardInv, CallsInv
  <2>2. Cardinality({c}) = 1
    BY FS_Singleton
  <2> QED BY <2>1, <2>2
<1> QED BY <1>1, <1>2

LEMMA TypesAreKept ==
  ASSUME StewardInv
  PROVE  TypeOK
<1>1. \A s \in Stewards : Cardinality(calls[s]) <= 1
  BY FewCalls
<1>2. /\ \A g \in DOMAIN p.goals : \A n \in DOMAIN p.goals[g] : p.goals[g][n].version = n
      /\ \A m \in DOMAIN p.roadmaps : \A n \in DOMAIN p.roadmaps[m] : p.roadmaps[m][n].version = n
  BY DEF StewardInv, WellFormed, GoalsAreWellFormed, Numbered
<1>3. \A id \in DOMAIN p.commitments : p.commitments[id].status \in Lifecycle
  BY DEF StewardInv, WellFormed, CommitmentsAreWellFormed
<1>4. p.admitted \subseteq {q.order : q \in p.proposals}
  BY DEF StewardInv, WellFormed, WorkIsWellFormed
<1>5. \A h \in {p.goals[g] : g \in DOMAIN p.goals} \cup {p.roadmaps[m] : m \in DOMAIN p.roadmaps} :
        \A n \in DOMAIN h : h[n].version = n
  BY <1>2
<1>6. readable \in BOOLEAN /\ now \in Nat
  BY DEF StewardInv
<1> QED BY <1>1, <1>3, <1>4, <1>5, <1>6 DEF TypeOK

LEMMA WipIsKept ==
  ASSUME StewardInv
  PROVE  WipIsBounded
<1>1. IsFiniteSet(p.proposals) /\ Cardinality(PendingWork(p)) <= WipLimit
  BY DEF StewardInv, WellFormed, WorkIsWellFormed
<1>2. IsFiniteSet(PendingWork(p))
  BY <1>1, FS_Subset DEF PendingWork
<1>3. ASSUME NEW ids
      PROVE  Cardinality({q \in PendingWork(p) : q.commitment \in ids}) <= WipLimit
  <2> DEFINE S == {q \in PendingWork(p) : q.commitment \in ids}
  <2>1. S \subseteq PendingWork(p)
    OBVIOUS
  <2> HIDE DEF S
  <2>2. /\ Cardinality(S) <= Cardinality(PendingWork(p))
        /\ Cardinality(S) \in Nat /\ Cardinality(PendingWork(p)) \in Nat
    BY <1>2, <2>1, FS_Subset, FS_CardinalityType
  <2>3. Cardinality(S) <= WipLimit
    BY <1>1, <2>2, WipAssumption
  <2> QED BY <2>3 DEF S
<1>4. ASSUME NEW m \in DOMAIN p.roadmaps PROVE "capacity" \notin RoadmapHealth(p, m, now).review
  BY <1>3 DEF RoadmapHealth
<1> QED BY <1>1, <1>4 DEF WipIsBounded

LEMMA EndsAreKept ==
  ASSUME StewardInv
  PROVE  ObligationsCanEnd
<1> SUFFICES ASSUME NEW id \in DOMAIN p.commitments,
                    p.commitments[id].status \in {"accepted", "active", "suspended"}
             PROVE  LET c == p.commitments[id]
                        authority == IntentAuthority(c.owner, "user", {"user_authored"}, {},
                                                     c.owner)
                    IN TransitionStructure(p, id,
                         CommitmentTransition(c.status, "closed", {"cancelled"}, authority,
                                              c.owner, {}))
  BY DEF ObligationsCanEnd
<1> DEFINE c == p.commitments[id]
           authority == IntentAuthority(c.owner, "user", {"user_authored"}, {}, c.owner)
           t == CommitmentTransition(c.status, "closed", {"cancelled"}, authority, c.owner, {})
<1>1. /\ authority.scope = "user" /\ authority.principal = c.owner /\ authority.goals = {}
  BY DEF IntentAuthority
<1>2. /\ t.from = c.status /\ t.to = "closed" /\ t.closure = {"cancelled"}
      /\ t.authority = authority /\ t.author = c.owner /\ t.remap = {}
  BY DEF CommitmentTransition
<1>3. "closed" \in Allowed[c.status]
  BY DEF Allowed, Lifecycle
<1> HIDE DEF t, authority, c
<1>4. IsOriented(p, c, t)
  BY <1>2 DEF IsOriented, Reactivates
<1>5. TransitionStructure(p, id, t)
  BY <1>1, <1>2, <1>3, <1>4 DEF TransitionStructure, Covers, c
<1> QED BY <1>5 DEF t, authority, c

LEMMA ScopesAreKept ==
  ASSUME StewardInv
  PROVE  GoalsKeepTheirLineage /\ ReferencesAgree
BY DEF StewardInv, WellFormed, GoalsAreWellFormed, CommitmentsAreWellFormed,
       GoalsKeepTheirLineage, ReferencesAgree

\* Whatever commands, observers and v1 events interleave: revisions are numbered, work in
\* progress is bounded however stale its signals are, lineage and scopes are kept, and what
\* is owed can be ended (projection.py:apply, validation.py).
THEOREM IntentIsCoherent ==
  Spec => [](/\ TypeOK /\ WipIsBounded
             /\ GoalsKeepTheirLineage /\ ReferencesAgree /\ ObligationsCanEnd)
<1>1. StewardInv => /\ TypeOK /\ WipIsBounded
                    /\ GoalsKeepTheirLineage /\ ReferencesAgree /\ ObligationsCanEnd
  BY TypesAreKept, WipIsKept, ScopesAreKept, EndsAreKept
<1> QED BY <1>1, IntentIsWellFormed, PTL

\* At most one steward reports on external workstreams: two may settle their reports in
\* another order than their clocks were read, and replay refuses the second.
OneObserver == \A s \in Scenarios : \A a, b \in s.left.observers : a = b

\* A v1 event that leaves its goal without success criteria, which replay refuses of a goal
\* of a native kind, is of a goal that no command revises and no scenario classified.
Bare(ev) == ev.type = "legacy_goal" /\ ~ev.criteria
Unclassified(goals, id) == id \in DOMAIN goals => Last(goals[id]).kind = "legacy_unclassified"
BareEventsStayApart ==
  \A ev \in LegacyEvents : Bare(ev) =>
    /\ \A g \in Goals : g.id # ev.id
    /\ \A s \in Scenarios : Unclassified(s.start.goals, ev.id)

ApartInv == \A ev \in LegacyEvents : Bare(ev) => Unclassified(p.goals, ev.id)

LEMMA ApartInit ==
  ASSUME BareEventsStayApart, Init
  PROVE  ApartInv
BY DEF BareEventsStayApart, Init, ApartInv

\* What a v1 event makes of a goal that was never classified, or not known, is not either.
LEMMA LegacyGoalKind ==
  ASSUME NEW s, WellFormed(s), NEW ev, Unclassified(s.goals, ev.id)
  PROVE  LegacyGoal(s, ev).kind = "legacy_unclassified"
<1>1. CASE ev.id \notin DOMAIN s.goals
  <2>1. History(s.goals, ev.id) = <<>>
    BY <1>1 DEF History
  <2>2. LegacyGoal(s, ev)
          = GoalRevision(1, ev.status, "legacy_unclassified", {}, LegacyOrigin(ev.source),
                         LegacyAuthority(ev.source), ev.source, ev.source)
    BY <2>1 DEF LegacyGoal
  <2> QED BY <2>2 DEF GoalRevision
<1>2. CASE ev.id \in DOMAIN s.goals
  <2>1. Continues(s.goals, ev.id, LegacyGoal(s, ev))
    BY LegacyGoalContinues DEF WellFormed
  <2> QED BY <1>2, <2>1 DEF Continues, Unclassified
<1> QED BY <1>1, <1>2

\* Extending a history with a revision that is not classified either, or that of another goal.
LEMMA UnclassifiedExtension ==
  ASSUME NEW f, \A i \in DOMAIN f : IsHistory(f[i]), NEW id, NEW v, NEW b, Unclassified(f, b),
         b = id => v.kind = "legacy_unclassified"
  PROVE  Unclassified(Extend(f, id, v), b)
<1>1. /\ DOMAIN Extend(f, id, v) = DOMAIN f \cup {id}
      /\ \A i \in DOMAIN f : i # id => Extend(f, id, v)[i] = f[i]
      /\ Extend(f, id, v)[id] = Append(History(f, id), v)
      /\ (id \in DOMAIN f => History(f, id) = f[id])
      /\ (id \notin DOMAIN f => History(f, id) = <<>>)
      /\ IsHistory(History(f, id)) \/ History(f, id) = <<>>
      /\ \A i \in DOMAIN Extend(f, id, v) : IsHistory(Extend(f, id, v)[i])
  BY Extended
<1>2. Last(Append(History(f, id), v)) = v
  BY <1>1, AppendHistory
<1> QED BY <1>1, <1>2 DEF Unclassified

LEMMA ApartEvent ==
  ASSUME StewardInv, ApartInv, BareEventsStayApart, NEW ev, Event(ev)
  PROVE  ApartInv' /\ (ev.type = "legacy_goal" => Legal(p, ev))
<1>1. /\ WellFormed(p) /\ ev.type \in Types
      /\ p' = IF Legal(p, ev) THEN Applied(p, ev) ELSE p
  BY DEF StewardInv, Event, Emit
<1>2. \A i \in DOMAIN p.goals : IsHistory(p.goals[i])
  BY <1>1 DEF WellFormed, GoalsAreWellFormed, Numbered
<1>3. ev.type = "legacy_goal" => Legal(p, ev)
  <2>1. ASSUME ev.type = "legacy_goal", ~ev.criteria
        PROVE  LegacyGoal(p, ev).kind = "legacy_unclassified"
    <3>1. Unclassified(p.goals, ev.id)
      BY <2>1 DEF Event, ApartInv, Bare
    <3> QED BY <1>1, <3>1, LegacyGoalKind
  <2>2. ev.type = "legacy_goal" => LegacyGoalStructure(p, ev)
    BY <2>1 DEF LegacyGoalStructure
  <2> QED BY <2>2, Zenon DEF Legal
<1>4. ASSUME NEW b \in LegacyEvents, Bare(b) PROVE Unclassified(p'.goals, b.id)
  <2>0. Unclassified(p.goals, b.id)
    BY <1>4 DEF ApartInv
  <2>1. CASE ~Legal(p, ev)
    BY <1>1, <2>0, <2>1
  <2>2. CASE Legal(p, ev) /\ ev.type \notin {"goal", "legacy_goal"}
    <3>1. ev.type = "transition" => ev.id \in DOMAIN p.commitments
      BY <2>2, LegalTransition
    <3>2. p'.goals = p.goals
      BY <1>1, <2>2, <3>1, AppliedChange
    <3> QED BY <2>0, <3>2
  <2>3. CASE Legal(p, ev) /\ ev.type = "goal"
    <3>1. IsProjection(p)
      BY <1>1 DEF WellFormed, IsProjection, Projection
    <3>2. p' = Projection(Extend(p.goals, ev.id, ev.value), p.roadmaps, p.roles, p.envelopes,
                          p.commitments, p.proposals, p.admitted, p.external, p.graphs)
      BY <1>1, <2>3, <3>1, AppliedFields
    <3>3. p'.goals = Extend(p.goals, ev.id, ev.value)
      BY <3>2 DEF Projection
    <3>4. b.id # ev.id
      BY <1>4, <2>3 DEF Event, BareEventsStayApart
    <3> QED BY <1>2, <2>0, <3>3, <3>4, UnclassifiedExtension
  <2>4. CASE Legal(p, ev) /\ ev.type = "legacy_goal" /\ Ignored(p, ev)
    <3>1. Applied(p, ev) = p
      BY <2>4, Zenon DEF Applied
    <3> QED BY <1>1, <2>0, <2>4, <3>1
  <2>5. CASE Legal(p, ev) /\ ev.type = "legacy_goal" /\ ~Ignored(p, ev)
    <3> DEFINE r == LegacyGoal(p, ev)
    <3>1. Applied(p, ev) = [p EXCEPT !.goals = Extend(@, ev.id, r)]
      BY <2>5, Zenon DEF Applied
    <3>2. b.id = ev.id => r.kind = "legacy_unclassified"
      BY <1>1, <2>0, LegacyGoalKind
    <3> HIDE DEF r
    <3>3. p'.goals = Extend(p.goals, ev.id, r)
      BY <1>1, <2>5, <3>1 DEF WellFormed
    <3> QED BY <1>2, <2>0, <3>2, <3>3, UnclassifiedExtension
  <2> QED BY <2>1, <2>2, <2>3, <2>4, <2>5
<1> QED BY <1>3, <1>4 DEF ApartInv

\* The log can be replayed, and a report that awaits its turn is newer than what is known.
ObserverInv ==
  /\ readable = TRUE
  /\ \A a, b \in left.observers : a = b
  /\ \A s \in Stewards : \A c \in calls[s] : c.kind = "external" =>
       \A w \in DOMAIN p.external : Last(p.external[w]).recorded <= c.observation.recorded

LEMMA ObserverInit ==
  ASSUME OneObserver, Init
  PROVE  ObserverInv
BY DEF OneObserver, Init, ObserverInv

LEMMA LastObserved ==
  ASSUME NEW f, NEW at, ObservedBy(f, at), NEW w \in DOMAIN f
  PROVE  Last(f[w]).recorded \in {t \in Int : t <= at}
<1>1. IsHistory(f[w])
  BY DEF ObservedBy
<1>2. Last(f[w]) = f[w][Len(f[w])] /\ Len(f[w]) \in DOMAIN f[w]
  BY <1>1, HistoryFacts
<1> QED BY <1>2 DEF ObservedBy

LEMMA ObserverStep ==
  ASSUME StewardInv, ObserverInv, ApartInv, BareEventsStayApart, Next
  PROVE  ObserverInv' /\ ApartInv'
<1>1. \/ Silent
      \/ \E ev : /\ Event(ev)
                 /\ ev.type = "external" =>
                      \E s \in Stewards :
                        /\ AdmitObservation(s)
                        /\ \E c \in calls[s] : c.kind = "external" /\ ev.value = c.observation
  BY StepEvents
<1>2. readable' = TRUE
  <2>1. CASE Silent
    BY <2>1 DEF Silent, ObserverInv
  <2>2. CASE ~Silent
    <3>1. PICK ev : /\ Event(ev)
                    /\ ev.type = "external" =>
                         \E s \in Stewards :
                           /\ AdmitObservation(s)
                           /\ \E c \in calls[s] : c.kind = "external" /\ ev.value = c.observation
      BY <1>1, <2>2
    <3>2. CASE ev.type \notin {"external", "legacy_goal"}
      BY <3>1, <3>2, EventKeeps
    <3>4. CASE ev.type = "legacy_goal"
      BY <3>1, <3>4, ApartEvent DEF Event, Emit
    <3>3. CASE ev.type = "external"
      <4>1. PICK s \in Stewards :
              \E c \in calls[s] : c.kind = "external" /\ ev.value = c.observation
        BY <3>1, <3>3
      <4>2. \A w \in DOMAIN p.external : Last(p.external[w]).recorded <= ev.value.recorded
        BY <4>1 DEF ObserverInv
      <4>3. LegalObservation(p, ev.id, ev.value)
        BY <3>1, <3>3, <4>2 DEF LegalObservation, Event, History
      <4>4. Legal(p, ev)
        BY <3>3, <4>3, Zenon DEF Legal
      <4> QED BY <3>1, <4>4 DEF Event, Emit
    <3> QED BY <3>2, <3>3, <3>4
  <2> QED BY <2>1, <2>2
<1>3. left'.observers = left.observers
  BY StepCalls DEF Onwards
<1>4. ASSUME NEW t \in Stewards, NEW c \in calls'[t], c.kind = "external",
             NEW w \in DOMAIN p'.external
      PROVE  Last(p'.external[w]).recorded <= c.observation.recorded
  <2>1. c \in calls[t] \/ Captured(c)
    BY <1>4, NewCalls
  <2>2. CASE Captured(c)
    <3>1. p' = p /\ c.observation.recorded = now /\ now \in Nat
      BY <1>4, <2>2 DEF Captured, StewardInv
    <3>2. Last(p.external[w]).recorded \in {x \in Int : x <= now}
      BY <1>4, <3>1, LastObserved DEF StewardInv
    <3> QED BY <3>1, <3>2
  <2>3. CASE c \in calls[t] /\ p'.external = p.external
    BY <1>4, <2>3 DEF ObserverInv
  <2>4. CASE c \in calls[t] /\ p'.external # p.external
    <3>1. PICK s \in Stewards :
            /\ AdmitObservation(s)
            /\ \E k \in calls[s] : k.kind = "external"
      BY <1>1, <2>4, EventKeeps DEF Silent
    <3>2. s \in left.observers /\ t \in left.observers
      BY <1>4, <2>4, <3>1 DEF StewardInv, CallsInv
    <3>3. s = t
      BY <3>2 DEF ObserverInv
    <3>4. calls' = [calls EXCEPT ![s] = {}]
      BY <3>1 DEF AdmitObservation, Settle
    <3> QED BY <1>4, <3>3, <3>4, SettleIsOld
  <2> QED BY <2>1, <2>2, <2>3, <2>4
<1>5. ApartInv'
  BY <1>1, ApartEvent DEF Silent, ApartInv
<1> QED BY <1>2, <1>3, <1>4, <1>5 DEF ObserverInv

\* While one steward reports on external workstreams, and no v1 event strips a classified goal
\* of its success criteria, the projection can always be rebuilt from the log: what live
\* admission lets in, replay accepts, whatever was awaited between validation and append.
THEOREM IntentIsKept == OneObserver /\ BareEventsStayApart /\ Spec => []IntentInv
<1> SUFFICES ASSUME OneObserver, BareEventsStayApart PROVE Spec => []IntentInv
  OBVIOUS
<1>1. Init => StewardInv /\ ObserverInv /\ ApartInv
  BY StewardInit, ObserverInit, ApartInit
<1>2. StewardInv /\ ObserverInv /\ ApartInv /\ [Next]_vars
        => (StewardInv /\ ObserverInv /\ ApartInv)'
  <2> SUFFICES ASSUME StewardInv, ObserverInv, ApartInv, [Next]_vars
               PROVE  StewardInv' /\ ObserverInv' /\ ApartInv'
    OBVIOUS
  <2>1. StewardInv'
    BY StewardStep
  <2>2. CASE UNCHANGED vars
    BY <2>1, <2>2 DEF vars, ObserverInv, ApartInv
  <2>3. CASE Next
    BY <2>1, <2>3, ObserverStep
  <2> QED BY <2>2, <2>3
<1>3. StewardInv /\ ObserverInv => IntentInv
  BY TypesAreKept, WipIsKept, ScopesAreKept, EndsAreKept DEF IntentInv, Replayable, ObserverInv
<1> QED BY <1>1, <1>2, <1>3, PTL DEF Spec

-----------------------------------------------------------------------------
\* Commands land on what they saw.

\* An attempt that commits saw the head it committed to, and at that head the revision
\* that its caller captured was current.
LEMMA GoalIsNotRebased ==
  ASSUME StewardInv, NEW s \in Stewards, AdmitGoal(s), NEW c, calls[s] = {c},
         p'.goals # p.goals
  PROVE  CurrentRef(p.goals, c.command.id) = c.expected
<1>1. PICK k \in calls[s] :
        LET g == k.command
            r == GoalRevision(Len(History(p.goals, g.id)) + 1, g.status, g.kind, g.refs,
                              g.origin, g.authority, g.owner, g.author)
        IN Settle(s, ValidateGoal(p, g.id, r, k.expected),
                  [type |-> "goal", id |-> g.id, value |-> r])
  BY DEF AdmitGoal
<1>2. k = c
  BY <1>1
<1> DEFINE g == c.command
           r == GoalRevision(Len(History(p.goals, g.id)) + 1, g.status, g.kind, g.refs,
                             g.origin, g.authority, g.owner, g.author)
           ev == [type |-> "goal", id |-> g.id, value |-> r]
<1>3. Settle(s, ValidateGoal(p, g.id, r, c.expected), ev)
  BY <1>1, <1>2
<1> HIDE DEF ev, r
<1>4. ValidateGoal(p, g.id, r, c.expected)
  BY <1>3 DEF Settle
<1> QED BY <1>4 DEF ValidateGoal

LEMMA RoadmapIsNotRebased ==
  ASSUME StewardInv, NEW s \in Stewards, AdmitRoadmap(s), NEW c, calls[s] = {c},
         p'.roadmaps # p.roadmaps
  PROVE  /\ CurrentRef(p.roadmaps, c.command.id) = c.expected
         /\ \A g \in c.goals : IsCurrent(p.goals, g)
<1>1. PICK k \in calls[s] :
        LET m == k.command
            r == RoadmapRevision(Len(History(p.roadmaps, m.id)) + 1, k.goals, m.nodes,
                                 m.assumptions, m.authority, m.author)
        IN Settle(s, ValidateRoadmap(p, m.id, r, k.expected),
                  [type |-> "roadmap", id |-> m.id, value |-> r])
  BY DEF AdmitRoadmap
<1>2. k = c
  BY <1>1
<1> DEFINE m == c.command
           r == RoadmapRevision(Len(History(p.roadmaps, m.id)) + 1, c.goals, m.nodes,
                                m.assumptions, m.authority, m.author)
           ev == [type |-> "roadmap", id |-> m.id, value |-> r]
<1>3. Settle(s, ValidateRoadmap(p, m.id, r, c.expected), ev)
  BY <1>1, <1>2
<1>4. r.goals = c.goals
  BY DEF RoadmapRevision
<1> HIDE DEF ev, r
<1>5. ValidateRoadmap(p, m.id, r, c.expected)
  BY <1>3 DEF Settle
<1> QED BY <1>4, <1>5 DEF ValidateRoadmap, RoadmapStructure

\* A command never lands on what it did not see, however many stewards revise the same
\* goals and roadmaps while it awaits its turn (coordination.py:_admit).
THEOREM CommandsLandOnWhatTheySaw == Spec => NothingIsRebased
<1>1. ASSUME StewardInv, [Next]_vars
      PROVE  [\A s \in Stewards : \A c \in calls[s] :
                /\ c.kind = "goal" /\ p'.goals # p.goals /\ calls'[s] = {} =>
                     CurrentRef(p.goals, c.command.id) = c.expected
                /\ c.kind = "roadmap" /\ p'.roadmaps # p.roadmaps /\ calls'[s] = {} =>
                     /\ CurrentRef(p.roadmaps, c.command.id) = c.expected
                     /\ \A g \in c.goals : IsCurrent(p.goals, g)]_vars
  <2>1. CASE UNCHANGED vars
    BY <2>1 DEF vars
  <2>2. CASE Next
    <3> SUFFICES ASSUME NEW s \in Stewards, NEW c \in calls[s], calls'[s] = {}
                 PROVE  /\ c.kind = "goal" /\ p'.goals # p.goals =>
                             CurrentRef(p.goals, c.command.id) = c.expected
                        /\ c.kind = "roadmap" /\ p'.roadmaps # p.roadmaps =>
                             /\ CurrentRef(p.roadmaps, c.command.id) = c.expected
                             /\ \A g \in c.goals : IsCurrent(p.goals, g)
      OBVIOUS
    <3>1. Ends(s, c)
      BY <1>1, <2>2, HowCallsEnd
    <3>2. calls[s] = {c}
      BY <1>1 DEF StewardInv, CallsInv
    <3>3. CASE c.kind = "goal"
      <4>1. AdmitGoal(s)
        BY <3>1, <3>3 DEF Ends
      <4> QED BY <1>1, <3>2, <3>3, <4>1, GoalIsNotRebased
    <3>4. CASE c.kind = "roadmap"
      <4>1. AdmitRoadmap(s)
        BY <3>1, <3>4 DEF Ends
      <4> QED BY <1>1, <3>2, <3>4, <4>1, RoadmapIsNotRebased
    <3> QED BY <3>3, <3>4
  <2> QED BY <1>1, <2>1, <2>2
<1> QED BY <1>1, IntentIsWellFormed, PTL DEF Spec, NothingIsRebased

-----------------------------------------------------------------------------
\* Commitments move forward.

LEMMA CommitmentsMove ==
  ASSUME NEW s, WellFormed(s), NEW ev, ev.type \in Types, Legal(s, ev), Sound(s, ev), NEW t,
         t = Applied(s, ev)
  PROVE  /\ \A id \in DOMAIN s.commitments :
              id \in DOMAIN t.commitments /\ Succeeds(s.commitments[id], t.commitments[id])
         /\ \A id \in DOMAIN t.commitments \ DOMAIN s.commitments :
              t.commitments[id].roadmap # <<>> =>
                /\ LiveRoadmap(s, t.commitments[id].roadmap)
                /\ t.commitments[id].goals
                     = {g[1] : g \in At(s.roadmaps, t.commitments[id].roadmap).goals}
<1>0. IsProjection(s)
  BY DEF WellFormed, IsProjection, Projection
<1>s. \A c : Succeeds(c, c)
  BY DEF Succeeds
<1>1. ASSUME NEW id, NEW d, t.commitments = Put(s.commitments, id, d),
             id \in DOMAIN s.commitments => Succeeds(s.commitments[id], d),
             id \notin DOMAIN s.commitments /\ d.roadmap # <<>> =>
               /\ LiveRoadmap(s, d.roadmap)
               /\ d.goals = {g[1] : g \in At(s.roadmaps, d.roadmap).goals}
      PROVE  /\ \A i \in DOMAIN s.commitments :
                  i \in DOMAIN t.commitments /\ Succeeds(s.commitments[i], t.commitments[i])
             /\ \A i \in DOMAIN t.commitments \ DOMAIN s.commitments :
                  t.commitments[i].roadmap # <<>> =>
                    /\ LiveRoadmap(s, t.commitments[i].roadmap)
                    /\ t.commitments[i].goals
                         = {g[1] : g \in At(s.roadmaps, t.commitments[i].roadmap).goals}
  <2>1. /\ DOMAIN t.commitments = DOMAIN s.commitments \cup {id} /\ t.commitments[id] = d
        /\ \A i \in DOMAIN s.commitments : i # id => t.commitments[i] = s.commitments[i]
    BY <1>1 DEF Put
  <2>2. ASSUME NEW i \in DOMAIN s.commitments
        PROVE  i \in DOMAIN t.commitments /\ Succeeds(s.commitments[i], t.commitments[i])
    BY <1>1, <1>s, <2>1
  <2>3. ASSUME NEW i \in DOMAIN t.commitments \ DOMAIN s.commitments,
               t.commitments[i].roadmap # <<>>
        PROVE  /\ LiveRoadmap(s, t.commitments[i].roadmap)
               /\ t.commitments[i].goals
                    = {g[1] : g \in At(s.roadmaps, t.commitments[i].roadmap).goals}
    <3>1. i = id /\ t.commitments[i] = d
      BY <2>1
    <3> QED BY <1>1, <2>3, <3>1
  <2> QED BY <2>2, <2>3
<1>2. CASE ev.type = "commitment"
  <2>1. CommitmentStructure(s, ev.id, ev.value, ev.authority)
    BY <1>2, Zenon DEF Legal
  <2>2. t.commitments = Put(s.commitments, ev.id, ev.value)
    BY <1>0, <1>2, AppliedFields DEF Projection
  <2>3. /\ ev.id \notin DOMAIN s.commitments /\ LiveRoadmap(s, ev.value.roadmap)
        /\ ev.value.goals = {g[1] : g \in At(s.roadmaps, ev.value.roadmap).goals}
    BY <2>1 DEF CommitmentStructure
  <2> QED BY <1>1, <2>2, <2>3
<1>3. CASE ev.type = "transition"
  <2> DEFINE d == Transitioned(s.commitments[ev.id], ev.value)
  <2>1. ev.id \in DOMAIN s.commitments /\ Succeeds(s.commitments[ev.id], d)
    <3> HIDE DEF d
    <3> QED BY <1>3, TransitionSucceeds DEF d
  <2>2. t = Projection(s.goals, s.roadmaps, s.roles, s.envelopes, Put(s.commitments, ev.id, d),
                       s.proposals, s.admitted, s.external, s.graphs)
    BY <1>0, <1>3, <2>1, AppliedTransition
  <2> HIDE DEF d
  <2>3. t.commitments = Put(s.commitments, ev.id, d)
    BY <2>2 DEF Projection
  <2> QED BY <1>1, <2>1, <2>3
<1>4. CASE t.commitments = s.commitments
  BY <1>s, <1>4
<1>5. CASE ev.type = "legacy_commitment"
  <2> DEFINE d == LegacyCommitment(s, ev)
  <2>1. t = IF Ignored(s, ev) THEN s ELSE [s EXCEPT !.commitments = Put(@, ev.id, d)]
    BY <1>5, Zenon DEF Applied
  <2>2. /\ ev.id \in DOMAIN s.commitments => Succeeds(s.commitments[ev.id], d)
        /\ ev.id \notin DOMAIN s.commitments => d.roadmap = <<>>
    <3> HIDE DEF d
    <3> QED BY <1>5, LegacySucceeds DEF d
  <2> HIDE DEF d
  <2>3. CASE Ignored(s, ev)
    BY <1>4, <2>1, <2>3
  <2>4. CASE ~Ignored(s, ev)
    <3>1. t.commitments = Put(s.commitments, ev.id, d)
      BY <1>0, <2>1, <2>4 DEF IsProjection, Projection
    <3> QED BY <1>1, <2>2, <3>1
  <2> QED BY <2>3, <2>4
<1>6. CASE ev.type \notin {"commitment", "transition", "legacy_commitment"}
  BY <1>4, <1>6, AppliedChange
<1> QED BY <1>2, <1>3, <1>5, <1>6

-----------------------------------------------------------------------------
\* Coverage.

\* An outcome is covered when admitted work for it, as it is, meets all it asks for.
CoveredCriteria(s, id) ==
  UNION {q.order.criteria : q \in {x \in Scoped(s, id) : x.order \in s.admitted}}
IsCovered(s, id) ==
  /\ RequiredCriteria(s, s.commitments[id]) # {}
  /\ RequiredCriteria(s, s.commitments[id]) \subseteq CoveredCriteria(s, id)

LEMMA CoveredDisposition ==
  ASSUME NEW s, NEW id, NEW at
  PROVE  (CommitmentCoverage(s, id, at).disposition = "covered") <=> IsCovered(s, id)
BY DEF CommitmentCoverage, IsCovered, CoveredCriteria

\* While no work is admitted, a commitment on the revision it was on asks for the same and
\* has the same: a second proposal of an order that was admitted adds nothing.
LEMMA SameRevisionSameCoverage ==
  ASSUME NEW s, WellFormed(s), NEW t, WellFormed(t), t.admitted = s.admitted,
         NEW id \in DOMAIN s.commitments,
         t.commitments[id].roadmap = s.commitments[id].roadmap,
         t.commitments[id].node = s.commitments[id].node,
         \A ref : IsKnown(s.roadmaps, ref) =>
           IsKnown(t.roadmaps, ref) /\ At(t.roadmaps, ref) = At(s.roadmaps, ref),
         IsCovered(t, id)
  PROVE  IsCovered(s, id)
<1> DEFINE c == s.commitments[id]
           d == t.commitments[id]
<1>1. \/ c.roadmap = <<>>
      \/ c.roadmap = <<c.roadmap[1], c.roadmap[2]>> /\ IsKnown(s.roadmaps, c.roadmap)
  BY DEF WellFormed, CommitmentsAreWellFormed
<1>2. RequiredCriteria(t, d) = RequiredCriteria(s, c)
  <2>1. CASE c.roadmap = <<>>
    BY <2>1 DEF RequiredCriteria
  <2>2. CASE c.roadmap # <<>>
    <3>1. At(t.roadmaps, c.roadmap) = At(s.roadmaps, c.roadmap)
      BY <1>1, <2>2
    <3>2. d.roadmap = c.roadmap /\ d.node = c.node
      OBVIOUS
    <3> HIDE DEF c, d
    <3> QED BY <3>1, <3>2 DEF RequiredCriteria, Nodes
  <2> QED BY <2>1, <2>2
<1>3. ASSUME NEW x \in Scoped(t, id), x.order \in t.admitted
      PROVE  \E y \in Scoped(s, id) : y.order = x.order
  <2>1. x \in t.proposals /\ x.commitment = id /\ x.roadmap = d.roadmap /\ x.node = d.node
    BY DEF Scoped
  <2>2. PICK y \in s.proposals : y.order = x.order
    BY <1>3 DEF WellFormed, WorkIsWellFormed
  <2>3. IsDerived(t, x) /\ IsDerived(s, y)
    BY <2>1 DEF WellFormed, WorkIsWellFormed
  <2>4. /\ x.order.commitment = x.commitment /\ x.order.roadmap = x.roadmap
        /\ x.order.node = x.node
        /\ y.order.commitment = y.commitment /\ y.order.roadmap = y.roadmap
        /\ y.order.node = y.node
    BY <2>3 DEF IsDerived
  <2>5. y.commitment = id /\ y.roadmap = c.roadmap /\ y.node = c.node
    BY <2>1, <2>2, <2>4
  <2> QED BY <2>2, <2>5 DEF Scoped
<1>4. CoveredCriteria(t, id) \subseteq CoveredCriteria(s, id)
  <2> SUFFICES ASSUME NEW x \in Scoped(t, id), x.order \in t.admitted,
                      NEW k \in x.order.criteria
               PROVE  k \in CoveredCriteria(s, id)
    BY DEF CoveredCriteria
  <2>1. PICK y \in Scoped(s, id) : y.order = x.order
    BY <1>3
  <2> QED BY <2>1 DEF CoveredCriteria
<1> QED BY <1>2, <1>4 DEF IsCovered

\* A commitment that was moved to a newer revision has no work there yet.
LEMMA NewRevisionNoCoverage ==
  ASSUME NEW s, WellFormed(s), NEW t, t.proposals = s.proposals,
         NEW id \in DOMAIN s.commitments, s.commitments[id].roadmap # <<>>,
         t.commitments[id].roadmap[2] > s.commitments[id].roadmap[2],
         NEW f, Numbered(f), IsKnown(f, t.commitments[id].roadmap)
  PROVE  ~IsCovered(t, id)
<1> DEFINE c == s.commitments[id]
           d == t.commitments[id]
<1>1. IsKnown(s.roadmaps, c.roadmap)
  BY DEF WellFormed, CommitmentsAreWellFormed
<1>2. c.roadmap[2] \in Nat /\ d.roadmap[2] \in Nat
  BY <1>1, KnownVersion DEF WellFormed
<1>3. Scoped(t, id) = {}
  <2> SUFFICES ASSUME NEW x \in Scoped(t, id) PROVE FALSE
    OBVIOUS
  <2>1. x \in s.proposals /\ x.commitment = id /\ x.roadmap = d.roadmap
    BY DEF Scoped
  <2>2. IsDerived(s, x)
    BY <2>1 DEF WellFormed, WorkIsWellFormed
  <2>3. x.roadmap[2] \in 1..c.roadmap[2]
    BY <2>1, <2>2 DEF IsDerived
  <2> QED BY <1>2, <2>1, <2>3
<1>4. CoveredCriteria(t, id) = {}
  BY <1>3 DEF CoveredCriteria
<1> QED BY <1>4 DEF IsCovered

LEMMA KnownStays ==
  ASSUME NEW s, WellFormed(s), NEW ev, ev.type \in Types, Legal(s, ev), NEW t,
         t = Applied(s, ev), NEW ref, IsKnown(s.roadmaps, ref)
  PROVE  IsKnown(t.roadmaps, ref) /\ At(t.roadmaps, ref) = At(s.roadmaps, ref)
<1>1. CASE ev.type = "roadmap"
  <2>1. IsProjection(s) /\ \A i \in DOMAIN s.roadmaps : IsHistory(s.roadmaps[i])
    BY DEF WellFormed, IsProjection, Projection, Numbered
  <2>2. t.roadmaps = Extend(s.roadmaps, ev.id, ev.value)
    BY <1>1, <2>1, AppliedFields DEF Projection
  <2>3. /\ IsKnown(Extend(s.roadmaps, ev.id, ev.value), ref)
        /\ At(Extend(s.roadmaps, ev.id, ev.value), ref) = At(s.roadmaps, ref)
    BY <2>1, KnownIsKept
  <2> QED BY <2>2, <2>3
<1>2. CASE ev.type # "roadmap"
  <2>1. ev.type = "transition" => ev.id \in DOMAIN s.commitments
    BY LegalTransition
  <2> QED BY <1>2, <2>1, AppliedChange
<1> QED BY <1>1, <1>2

LEMMA AppliedCoverage ==
  ASSUME NEW s, WellFormed(s), NEW ev, ev.type \in Types, Legal(s, ev), Sound(s, ev), NEW t,
         t = Applied(s, ev), t.admitted = s.admitted, NEW id \in DOMAIN s.commitments,
         IsCovered(t, id)
  PROVE  IsCovered(s, id)
<1>1. WellFormed(t)
  BY AppliedIsWellFormed
<1>2. id \in DOMAIN t.commitments /\ Succeeds(s.commitments[id], t.commitments[id])
  BY CommitmentsMove
<1>3. \A ref : IsKnown(s.roadmaps, ref) =>
        IsKnown(t.roadmaps, ref) /\ At(t.roadmaps, ref) = At(s.roadmaps, ref)
  BY KnownStays
<1>4. CASE t.commitments[id].roadmap = s.commitments[id].roadmap
  <2>1. t.commitments[id].node = s.commitments[id].node
    BY <1>2 DEF Succeeds
  <2> QED BY <1>1, <1>3, <1>4, <2>1, SameRevisionSameCoverage
<1>5. CASE t.commitments[id].roadmap # s.commitments[id].roadmap
  <2>1. /\ s.commitments[id].roadmap # <<>> /\ t.commitments[id].roadmap # <<>>
        /\ t.commitments[id].roadmap[2] > s.commitments[id].roadmap[2]
    BY <1>2, <1>5 DEF Succeeds
  <2>2. ev.type = "transition" => ev.id \in DOMAIN s.commitments
    BY LegalTransition
  <2>3. t.proposals = s.proposals
    BY <1>5, <2>2, AppliedChange
  <2>4. IsKnown(t.roadmaps, t.commitments[id].roadmap) /\ Numbered(t.roadmaps)
    BY <1>1, <1>2, <2>1 DEF WellFormed, CommitmentsAreWellFormed
  <2> QED BY <2>1, <2>3, <2>4, NewRevisionNoCoverage
<1> QED BY <1>4, <1>5

\* An outcome becomes covered by the admission of work and by nothing else: not by a
\* revision that asks for less, not by being moved to one, and not by a proposal.
THEOREM CoverageNeedsWork == Spec => CoverageIsEarned
<1>1. ASSUME StewardInv, [Next]_vars
      PROVE  [\A id \in DOMAIN p.commitments :
                /\ CommitmentCoverage(p, id, now).disposition # "covered"
                /\ CommitmentCoverage(p, id, now)'.disposition = "covered"
                => p'.admitted # p.admitted]_vars
  <2>1. CASE UNCHANGED vars
    BY <2>1 DEF vars
  <2>2. CASE Next
    <3> SUFFICES ASSUME NEW id \in DOMAIN p.commitments,
                        CommitmentCoverage(p, id, now).disposition # "covered",
                        CommitmentCoverage(p, id, now)'.disposition = "covered",
                        p'.admitted = p.admitted
                 PROVE  FALSE
      OBVIOUS
    <3>1. ~IsCovered(p, id)
      BY CoveredDisposition
    <3>2. CommitmentCoverage(p', id, now').disposition = "covered"
      BY DEF CommitmentCoverage, RequiredCriteria, Scoped, Nodes, At, ExternalSupport,
             PendingWork, Eligibility
    <3>3. IsCovered(p', id)
      BY <3>2, CoveredDisposition
    <3>4. CASE p' = p
      BY <3>1, <3>3, <3>4
    <3>5. CASE p' # p
      <4>1. PICK ev : Event(ev)
        BY <1>1, <2>2, <3>5, StepEvents DEF Silent
      <4>2. /\ Legal(p, ev) /\ p' = Applied(p, ev) /\ ev.type \in Types /\ Sound(p, ev)
        BY <3>5, <4>1 DEF Event, Emit
      <4>3. WellFormed(p)
        BY <1>1 DEF StewardInv
      <4> QED BY <3>1, <3>3, <4>2, <4>3, AppliedCoverage
    <3> QED BY <3>4, <3>5
  <2> QED BY <1>1, <2>1, <2>2
<1> QED BY <1>1, IntentIsWellFormed, PTL DEF Spec, CoverageIsEarned

-----------------------------------------------------------------------------
\* Work serves current intent.

\* The goals whose revisions these are.
Ids(goals) == {g[1] : g \in goals}

\* The reasons of a projection are those of its roadmaps: all revisions of one, and the
\* commitments on it, name the same governing goals.
Serves(reason, s) ==
  /\ \A m \in DOMAIN s.roadmaps : \A n \in DOMAIN s.roadmaps[m] :
       Ids(s.roadmaps[m][n].goals) = reason[m]
  /\ \A id \in DOMAIN s.commitments :
       LET c == s.commitments[id]
       IN c.roadmap # <<>> => c.goals = reason[c.roadmap[1]]

\* Hosts do not move a roadmap to other goals: a commitment, and the orders derived from it,
\* keep the goals it was made for, and admission asks whether those of the current revision
\* are live (run IntentReasons).
ReasonsAreKept(reason) ==
  /\ \A m \in Roadmaps : m.goals = reason[m.id]
  /\ \A s \in Scenarios : Serves(reason, s.start)

\* The reasons of what is recorded, and of the roadmaps that await their turn.
ReasonInv(reason) ==
  /\ Serves(reason, p)
  /\ \A s \in Stewards : \A c \in calls[s] :
       c.kind = "roadmap" => Ids(c.goals) = reason[c.command.id]

\* The revisions that a caller knows of the goals it names are revisions of those goals.
LEMMA KnownGoals ==
  ASSUME NEW goals, Numbered(goals), NEW G, G \subseteq DOMAIN goals
  PROVE  Ids(UNION {CurrentRef(goals, g) : g \in G}) = G
<1>1. ASSUME NEW g \in G PROVE CurrentRef(goals, g) = {<<g, Len(goals[g])>>}
  <2>1. g \in DOMAIN goals /\ Len(goals[g]) \in Nat \ {0}
    BY HistoryFacts DEF Numbered
  <2> QED BY <2>1 DEF CurrentRef, History
<1>2. UNION {CurrentRef(goals, g) : g \in G} = {<<g, Len(goals[g])>> : g \in G}
  BY <1>1
<1> DEFINE R == {<<g, Len(goals[g])>> : g \in G}
<1>3. {x[1] : x \in R} = G
  <2>1. ASSUME NEW x \in R PROVE x[1] \in G
    OBVIOUS
  <2>2. ASSUME NEW g \in G PROVE \E x \in R : g = x[1]
    <3>1. <<g, Len(goals[g])>> \in R /\ g = <<g, Len(goals[g])>>[1]
      OBVIOUS
    <3> QED BY <3>1
  <2> HIDE DEF R
  <2> QED BY <2>1, <2>2
<1> HIDE DEF R
<1> QED BY <1>2, <1>3 DEF Ids, R

\* A roadmap that is extended by a revision with the same reasons keeps them.
LEMMA ReasonsOfExtension ==
  ASSUME NEW f, \A i \in DOMAIN f : IsHistory(f[i]), NEW reason,
         \A m \in DOMAIN f : \A n \in DOMAIN f[m] : Ids(f[m][n].goals) = reason[m],
         NEW id, NEW r, Ids(r.goals) = reason[id]
  PROVE  \A m \in DOMAIN Extend(f, id, r) : \A n \in DOMAIN Extend(f, id, r)[m] :
           Ids(Extend(f, id, r)[m][n].goals) = reason[m]
<1>e. /\ DOMAIN Extend(f, id, r) = DOMAIN f \cup {id}
      /\ \A i \in DOMAIN f : i # id => Extend(f, id, r)[i] = f[i]
      /\ Extend(f, id, r)[id] = Append(History(f, id), r)
      /\ (id \in DOMAIN f => History(f, id) = f[id])
      /\ (id \notin DOMAIN f => History(f, id) = <<>>)
      /\ IsHistory(History(f, id)) \/ History(f, id) = <<>>
  BY DEF Extend, Put, History
<1> DEFINE g == Extend(f, id, r)
           h == History(f, id)
<1>1. /\ DOMAIN g = DOMAIN f \cup {id} /\ g[id] = Append(h, r)
      /\ \A i \in DOMAIN f : i # id => g[i] = f[i]
      /\ (id \in DOMAIN f => h = f[id]) /\ (id \notin DOMAIN f => h = <<>>)
      /\ IsHistory(h) \/ h = <<>>
  BY <1>e
<1>2. /\ DOMAIN Append(h, r) = 1..(Len(h) + 1) /\ Len(h) \in Nat /\ DOMAIN h = 1..Len(h)
      /\ \A k \in DOMAIN h : Append(h, r)[k] = h[k]
      /\ Append(h, r)[Len(h) + 1] = r
  BY <1>1, AppendHistory
<1> SUFFICES ASSUME NEW m \in DOMAIN g, NEW n \in DOMAIN g[m]
             PROVE  Ids(g[m][n].goals) = reason[m]
  OBVIOUS
<1> HIDE DEF g, h
<1>4. CASE m # id
  BY <1>1, <1>4
<1>5. CASE m = id /\ n = Len(h) + 1
  BY <1>1, <1>2, <1>5
<1>6. CASE m = id /\ n # Len(h) + 1
  <2>1. n \in DOMAIN h /\ g[m][n] = h[n] /\ id \in DOMAIN f
    BY <1>1, <1>2, <1>6
  <2> QED BY <1>1, <1>6, <2>1
<1> QED BY <1>4, <1>5, <1>6

LEMMA ServesStep ==
  ASSUME NEW s, WellFormed(s), NEW ev, ev.type \in Types, Legal(s, ev), Sound(s, ev), NEW t,
         t = Applied(s, ev), NEW reason, Serves(reason, s),
         ev.type = "roadmap" => Ids(ev.value.goals) = reason[ev.id]
  PROVE  Serves(reason, t)
<1>1. ASSUME NEW m \in DOMAIN t.roadmaps, NEW n \in DOMAIN t.roadmaps[m]
      PROVE  Ids(t.roadmaps[m][n].goals) = reason[m]
  <2>1. CASE ev.type = "roadmap"
    <3>1. IsProjection(s) /\ \A i \in DOMAIN s.roadmaps : IsHistory(s.roadmaps[i])
      BY DEF WellFormed, IsProjection, Projection, Numbered
    <3>2. t.roadmaps = Extend(s.roadmaps, ev.id, ev.value)
      BY <2>1, <3>1, AppliedFields DEF Projection
    <3>3. \A i \in DOMAIN s.roadmaps : \A k \in DOMAIN s.roadmaps[i] :
            Ids(s.roadmaps[i][k].goals) = reason[i]
      BY DEF Serves
    <3> QED BY <1>1, <2>1, <3>1, <3>2, <3>3, ReasonsOfExtension
  <2>2. CASE ev.type # "roadmap"
    <3>1. ev.type = "transition" => ev.id \in DOMAIN s.commitments
      BY LegalTransition
    <3>2. t.roadmaps = s.roadmaps
      BY <2>2, <3>1, AppliedChange
    <3> QED BY <1>1, <3>2 DEF Serves
  <2> QED BY <2>1, <2>2
<1>2. ASSUME NEW id \in DOMAIN t.commitments, t.commitments[id].roadmap # <<>>
      PROVE  t.commitments[id].goals = reason[t.commitments[id].roadmap[1]]
  <2>1. CASE id \in DOMAIN s.commitments
    <3> DEFINE c == s.commitments[id]
               d == t.commitments[id]
    <3>1. Succeeds(c, d)
      BY <2>1, CommitmentsMove
    <3>2. c.roadmap # <<>> => c.goals = reason[c.roadmap[1]]
      BY <2>1 DEF Serves
    <3>3. d.roadmap # <<>>
      BY <1>2
    <3> HIDE DEF c, d
    <3>4. d.goals = reason[d.roadmap[1]]
      BY <3>1, <3>2, <3>3 DEF Succeeds
    <3> QED BY <3>4 DEF d
  <2>2. CASE id \notin DOMAIN s.commitments
    <3> DEFINE d == t.commitments[id]
    <3>1. LiveRoadmap(s, d.roadmap) /\ d.goals = Ids(At(s.roadmaps, d.roadmap).goals)
      BY <1>2, <2>2, CommitmentsMove DEF Ids
    <3>2. IsKnown(s.roadmaps, d.roadmap)
      BY <3>1, CurrentIsKnown DEF LiveRoadmap, WellFormed
    <3> HIDE DEF d
    <3>3. Ids(At(s.roadmaps, d.roadmap).goals) = reason[d.roadmap[1]]
      BY <3>2 DEF Serves, IsKnown, At
    <3> QED BY <3>1, <3>3 DEF d
  <2> QED BY <2>1, <2>2
<1> QED BY <1>1, <1>2 DEF Serves

LEMMA ReasonStep ==
  ASSUME NEW reason, ReasonsAreKept(reason), StewardInv, ReasonInv(reason), [Next]_vars
  PROVE  ReasonInv(reason)'
<1>1. CASE UNCHANGED vars
  BY <1>1 DEF vars, ReasonInv, Serves
<1>2. CASE Next
  <2>1. Serves(reason, p')
    <3>1. CASE p' = p
      BY <3>1 DEF ReasonInv
    <3>2. CASE p' # p
      <4>1. PICK ev : Event(ev)
        BY <1>2, <3>2, StepEvents DEF Silent
      <4>2. /\ Legal(p, ev) /\ p' = Applied(p, ev) /\ ev.type \in Types /\ Sound(p, ev)
        BY <3>2, <4>1 DEF Event, Emit
      <4>3. ev.type = "roadmap" => Ids(ev.value.goals) = reason[ev.id]
        BY <4>1 DEF Event, ReasonInv
      <4>4. WellFormed(p) /\ Serves(reason, p)
        BY DEF StewardInv, ReasonInv
      <4> QED BY <4>2, <4>3, <4>4, ServesStep
    <3> QED BY <3>1, <3>2
  <2>2. ASSUME NEW t \in Stewards, NEW c \in calls'[t], c.kind = "roadmap"
        PROVE  Ids(c.goals) = reason[c.command.id]
    <3>1. c \in calls[t] \/ Captured(c)
      BY <1>2, NewCalls
    <3>2. CASE c \in calls[t]
      BY <2>2, <3>2 DEF ReasonInv
    <3>3. CASE Captured(c)
      <4>1. /\ c.command \in Roadmaps /\ c.command.goals \subseteq DOMAIN p.goals
            /\ c.goals = UNION {CurrentRef(p.goals, g) : g \in c.command.goals}
        BY <2>2, <3>3 DEF Captured
      <4>2. Numbered(p.goals)
        BY DEF StewardInv, WellFormed, GoalsAreWellFormed
      <4>3. Ids(c.goals) = c.command.goals
        BY <4>1, <4>2, KnownGoals
      <4> QED BY <4>1, <4>3 DEF ReasonsAreKept
    <3> QED BY <3>1, <3>2, <3>3
  <2> QED BY <2>1, <2>2 DEF ReasonInv, Serves
<1> QED BY <1>1, <1>2

\* What admission on a live roadmap means for the goals that the order names.
LEMMA OrderServes ==
  ASSUME NEW s, WellFormed(s), NEW reason, Serves(reason, s), NEW q \in s.proposals,
         AdmissionStructure(s, q), NEW at
  PROVE  /\ "alignment" \notin RoadmapHealth(s, q.roadmap[1], at).review
         /\ \A g \in q.order.goals : Last(s.goals[g]).status \in LiveGoal
<1> DEFINE ref == q.roadmap
           r == At(s.roadmaps, ref)
<1>1. /\ q.commitment \in DOMAIN s.commitments /\ ref = s.commitments[q.commitment].roadmap
      /\ ref # <<>> /\ q.order.goals = s.commitments[q.commitment].goals
      /\ LiveRoadmap(s, ref)
  BY OrderOnCurrent
<1>2. IsKnown(s.roadmaps, ref) /\ r = Last(s.roadmaps[ref[1]])
  BY <1>1, CurrentIsKnown DEF LiveRoadmap, WellFormed
<1>3. \A g \in r.goals : IsCurrent(s.goals, g) /\ At(s.goals, g).status \in LiveGoal
  BY <1>1 DEF LiveRoadmap
<1>4. "alignment" \notin RoadmapHealth(s, ref[1], at).review
  BY <1>2, <1>3 DEF RoadmapHealth
<1>5. q.order.goals = Ids(r.goals)
  <2>1. q.order.goals = reason[ref[1]]
    BY <1>1 DEF Serves
  <2>2. Ids(r.goals) = reason[ref[1]]
    BY <1>2 DEF Serves, IsKnown, At
  <2> QED BY <2>1, <2>2
<1>6. ASSUME NEW g \in q.order.goals PROVE Last(s.goals[g]).status \in LiveGoal
  <2>1. PICK x \in r.goals : g = x[1]
    BY <1>5 DEF Ids
  <2>2. IsCurrent(s.goals, x) /\ At(s.goals, x).status \in LiveGoal
    BY <1>3, <2>1
  <2>3. At(s.goals, x) = Last(s.goals[g])
    BY <2>1, <2>2, CurrentIsKnown DEF WellFormed, GoalsAreWellFormed
  <2> QED BY <2>2, <2>3
<1> QED BY <1>4, <1>6

\* Work is admitted only for an active commitment, on a roadmap that health calls aligned
\* and under goals that are live, however long ago it was proposed, while roadmaps keep the
\* goals they are for.
THEOREM WorkServesItsReasons ==
  ASSUME NEW reason, ReasonsAreKept(reason)
  PROVE  Spec => WorkServesCurrentIntent
<1> DEFINE Inv == ReasonInv(reason)
<1>1. Init => Inv
  BY DEF Init, ReasonInv, ReasonsAreKept
<1>2. StewardInv /\ Inv /\ [Next]_vars => Inv'
  BY ReasonStep
<1>3. ASSUME StewardInv, Inv, [Next]_vars
      PROVE  [\A q \in p.proposals : q.order \in p'.admitted \ p.admitted =>
                /\ p.commitments[q.commitment].status = "active"
                /\ q.roadmap = p.commitments[q.commitment].roadmap
                /\ "alignment" \notin RoadmapHealth(p, q.roadmap[1], now).review
                /\ \A g \in q.order.goals : Last(p.goals[g]).status \in LiveGoal]_vars
  <2>1. CASE UNCHANGED vars
    BY <2>1 DEF vars
  <2>2. CASE Next
    <3> SUFFICES ASSUME NEW q \in p.proposals, q.order \in p'.admitted \ p.admitted
                 PROVE  /\ p.commitments[q.commitment].status = "active"
                        /\ q.roadmap = p.commitments[q.commitment].roadmap
                        /\ "alignment" \notin RoadmapHealth(p, q.roadmap[1], now).review
                        /\ \A g \in q.order.goals : Last(p.goals[g]).status \in LiveGoal
      OBVIOUS
    <3>1. PICK ev : Event(ev)
      BY <1>3, <2>2, StepEvents DEF Silent
    <3>2. /\ Legal(p, ev) /\ p' = Applied(p, ev) /\ ev.type \in Types
      BY <3>1 DEF Event, Emit
    <3>3. WellFormed(p) /\ Serves(reason, p)
      BY <1>3 DEF StewardInv, ReasonInv
    <3>4. ev.type = "order" /\ q.order = ev.value
      <4>1. ev.type = "transition" => ev.id \in DOMAIN p.commitments
        BY <3>2, LegalTransition
      <4> QED BY <3>2, <3>3, <4>1, AppliedChange
    <3>5. AdmissionStructure(p, q)
      <4>1. Legal(p, ev) = \A x \in p.proposals : x.order = ev.value => AdmissionStructure(p, x)
        BY <3>4, Zenon DEF Legal
      <4> QED BY <3>2, <3>4, <4>1
    <3> QED BY <3>3, <3>5, OrderOnCurrent, OrderServes
  <2> QED BY <1>3, <2>1, <2>2
<1> HIDE DEF Inv
<1> QED BY <1>1, <1>2, <1>3, IntentIsWellFormed, PTL DEF Spec, WorkServesCurrentIntent
=============================================================================
