------------------------ MODULE WorkCoordinationProofs ------------------------
(***************************************************************************)
(* The ownership of work, proved for every number of coordinators, agents, *)
(* nodes and graphs, whatever the interleaving of their commands.          *)
(*                                                                         *)
(* The argument.  A lease is granted under the token after the highest one *)
(* that the coordinator knows, to a node that is neither leased nor done   *)
(* as far as it knows.  What it knows may be old; but a token that another *)
(* coordinator used meanwhile is an id that the log already has, so a      *)
(* grant that gets into the log extends the very chain that the            *)
(* coordinator read.  LeaseInv says so of the log alone: ids are unique,   *)
(* and below a granted token every token was granted and expired.          *)
(*                                                                         *)
(* At the end, one coordinator alone: only triggers outrun what it knows,  *)
(* so what it emits can be replayed, and no agent is given too much.       *)
(***************************************************************************)
EXTENDS WorkCoordination, FiniteSetTheorems, TLAPS

\* An id is stored once: one grant of a lease, one end of a lease.
UniqueIds ==
  \A i, j \in Positions :
    /\ log[i].type = "granted" /\ log[j].type = "granted" /\ SameLease(log[i], log[j]) => i = j
    /\ log[i].type \in Terminal /\ log[j].type \in Terminal /\ SameLease(log[i], log[j]) => i = j

\* Below a granted token all tokens have expired.
Chain ==
  \A i \in OfType(Positions, "granted") :
    /\ log[i].graph \in Nat \ {0} /\ log[i].node \in Nodes /\ log[i].agent \in Agents
    /\ log[i].token \in Nat \ {0}
    /\ \A t \in 1..(log[i].token - 1) :
         \E j \in OfType(Positions, "expired") : Item(j) = Item(i) /\ log[j].token = t

\* What has ended was granted.
EndsWereGranted ==
  \A i \in Positions : log[i].type \in Terminal =>
    \E j \in OfType(Positions, "granted") : j < i /\ SameLease(log[i], log[j])

LeaseInv == UniqueIds /\ Chain /\ EndsWereGranted

\* What the frontier of a command says still holds of the command's projection,
\* which has all that came before a completion it has.
FrontierInv ==
  \A c \in Coordinators : coordinator[c].pc = "assigning" =>
    /\ \A n \in coordinator[c].todo, g \in Nat :
         IsVersion(coordinator[c].known, g) => n \in Ready(coordinator[c].known, g)
    /\ \A j \in OfType(coordinator[c].known, "completed") : 1..j \subseteq coordinator[c].known

\* Position j holds the completion of p, in the graph of the grant at i.
Completes(j, p, i) ==
  log[j].type = "completed" /\ log[j].graph = log[i].graph /\ log[j].node = p

\* What the grant at i rests on.
Supported(i) ==
  /\ \A p \in Predecessors[log[i].node] : \E j \in 1..(i - 1) : Completes(j, p, i)
  /\ \A p \in VerificationOf[log[i].node] :
       \E j \in 1..(i - 1) : Completes(j, p, i) /\ log[j].agent # log[i].agent

GrantInv == \A i \in OfType(Positions, "granted") : Supported(i)

IInv == TypeOK /\ LeaseInv /\ FrontierInv /\ GrantInv

-----------------------------------------------------------------------------
\* What Append does to the log.
LEMMA Appended ==
  ASSUME log \in Seq(Event), NEW e \in Event, log' = Append(log, e)
  PROVE  /\ log' \in Seq(Event)
         /\ Len(log') = Len(log) + 1 /\ Len(log) \in Nat
         /\ Positions' = Positions \cup {Len(log) + 1}
         /\ Len(log) + 1 \notin Positions
         /\ \A i \in Positions : log'[i] = log[i]
         /\ log'[Len(log) + 1] = e
BY DEF Positions

LEMMA EventFacts ==
  ASSUME log \in Seq(Event)
  PROVE  /\ \A i \in Positions : log[i] \in Event
         /\ Len(log) \in Nat
BY DEF Positions

\* The events about leases that the commands build.
LEMMA GrantedFacts ==
  ASSUME NEW g \in Nat, NEW n \in Nodes, NEW a \in Agents, NEW k \in Nat, NEW t \in Nat
  PROVE  LET e == Granted(g, n, a, k, t)
         IN /\ e \in Event /\ e.type = "granted" /\ e.graph = g /\ e.node = n
            /\ e.agent = a /\ e.token = k /\ e.at = t
BY DEF Event, Types, Blank, Granted

LEMMA EndFacts ==
  ASSUME NEW lease \in Event, NEW t \in Nat, NEW v \in BOOLEAN
  PROVE  /\ Expired(lease, t) \in Event /\ Expired(lease, t).type = "expired"
         /\ SameLease(Expired(lease, t), lease)
         /\ Completed(lease, t, v) \in Event /\ Completed(lease, t, v).type = "completed"
         /\ SameLease(Completed(lease, t, v), lease)
BY DEF Event, Types, Expired, Completed, SameLease

-----------------------------------------------------------------------------
\* What a command may do to the log and to its coordinator.

Grows(e) == log' = Append(log, e) /\ \A i \in Positions : ~SameId(log[i], e)

\* The coordinator that emitted e: its command ended, or goes on.
Continues(c, e, x) ==
  \/ coordinator' = [coordinator EXCEPT ![c] = Idle]
  \/ \E known \in SUBSET Positions' :
       /\ coordinator[c].known \subseteq known
       /\ \A i \in known : i \in coordinator[c].known \/ log'[i] = e
       /\ coordinator' = [coordinator EXCEPT ![c] =
            [coordinator[c] EXCEPT !.todo = coordinator[c].todo \ {x}, !.known = known]]

LEMMA EmitFacts ==
  ASSUME TypeOK, NEW c \in Coordinators, NEW e \in Event, NEW x, Emit(c, e, x)
  PROVE  /\ log' = log \/ Grows(e)
         /\ Continues(c, e, x)
<1> DEFINE K == coordinator[c].known
           Apply(i) == IF Legal(K, e) THEN Done(c, x, K \cup {i}) ELSE Becomes(c, Idle)
<1>0. log \in Seq(Event) /\ K \subseteq Positions
  BY DEF TypeOK
<1>1. ASSUME NEW known \in SUBSET Positions', Done(c, x, known), K \subseteq known,
             \A i \in known : i \in K \/ log'[i] = e
      PROVE Continues(c, e, x)
  BY <1>1 DEF Done, Becomes, Continues
<1>2. Becomes(c, Idle) => Continues(c, e, x)
  BY DEF Becomes, Continues
<1>3. ASSUME NEW i \in Positions', K \subseteq Positions', log'[i] = e, Apply(i)
      PROVE Continues(c, e, x)
  <2>1. K \cup {i} \in SUBSET Positions'
    BY <1>3
  <2>2. CASE Legal(K, e)
    <3>1. Done(c, x, K \cup {i})
      BY <1>3, <2>2
    <3> QED BY <1>1, <1>3, <2>1, <3>1
  <2>3. CASE ~Legal(K, e)
    BY <1>2, <1>3, <2>3
  <2> QED BY <2>2, <2>3
<1>4. CASE \E i \in Positions : SameId(log[i], e)
  <2>1. log' = log /\ Positions' = Positions
    BY <1>4 DEF Emit, Positions
  <2>2. PICK i \in Positions :
          CASE log[i] # e            -> Becomes(c, Idle)
            [] log[i] = e /\ i \in K -> Done(c, x, K)
            [] OTHER -> IF \A j \in K : j < i THEN Apply(i) ELSE Becomes(c, Idle)
    BY <1>4 DEF Emit
  <2>3. CASE log[i] # e
    BY <1>2, <2>1, <2>2, <2>3
  <2>4. CASE log[i] = e /\ i \in K
    <3>1. Done(c, x, K)
      BY <2>2, <2>4
    <3> QED BY <1>0, <1>1, <2>1, <3>1
  <2>5. CASE log[i] = e /\ i \notin K
    <3>1. Apply(i) \/ Becomes(c, Idle)
      BY <2>2, <2>5
    <3>2. i \in Positions' /\ K \subseteq Positions' /\ log'[i] = e
      BY <1>0, <2>1, <2>5
    <3> QED BY <1>2, <1>3, <2>1, <3>1, <3>2
  <2> QED BY <2>3, <2>4, <2>5, <2>1
<1>5. CASE ~\E i \in Positions : SameId(log[i], e)
  <2>1. log' = Append(log, e) /\ Apply(Len(log) + 1)
    BY <1>5 DEF Emit
  <2>2. /\ Positions' = Positions \cup {Len(log) + 1}
        /\ log'[Len(log) + 1] = e
    BY <1>0, <2>1, Appended
  <2>3. Continues(c, e, x)
    BY <1>0, <1>3, <2>1, <2>2
  <2> QED BY <1>5, <2>1, <2>3 DEF Grows
<1> QED BY <1>4, <1>5

-----------------------------------------------------------------------------
\* Type correctness.

\* An append keeps what was true of positions of the log.
LEMMA LogGrows ==
  ASSUME TypeOK, NEW e \in Event, log' = log \/ log' = Append(log, e)
  PROVE  /\ log' \in Seq(Event) /\ Len(log) \in Nat /\ Len(log') \in Nat
         /\ Len(log) <= Len(log')
         /\ Positions \subseteq Positions'
         /\ \A i \in Positions : log'[i] = log[i]
<1>0. log \in Seq(Event)
  BY DEF TypeOK
<1>1. CASE log' = log
  BY <1>0, <1>1 DEF Positions
<1>2. CASE log' = Append(log, e)
  BY <1>0, <1>2 DEF Positions
<1> QED BY <1>1, <1>2

LEMMA TypesGrow ==
  ASSUME TypeOK, NEW e \in Event, log' = log \/ log' = Append(log, e), NEW type
  PROVE  OfType(Positions, type) \subseteq OfType(Positions, type)'
BY LogGrows DEF OfType

\* What TypeOK says of the state of one coordinator.
StateOK(s) ==
  /\ s \in Coordinator
  /\ s.known \subseteq Positions
  /\ s.at \in 0..now /\ s.cut \in 0..Len(log)
  /\ s.pc = "assigning" => s.todo \subseteq Nodes
  /\ s.pc \in {"completing", "expiring"} => s.todo \subseteq OfType(Positions, "granted")
  /\ s.pc = "invalidating" => s.todo \subseteq OfType(Positions, "trigger")

LEMMA TypeOfStates ==
  TypeOK <=> /\ log \in Seq(Event) /\ now \in 0..MaxTime
             /\ coordinator \in [Coordinators -> Coordinator]
             /\ \A c \in Coordinators : StateOK(coordinator[c])
BY DEF TypeOK, StateOK

LEMMA IdleOK ==
  ASSUME TypeOK PROVE StateOK(Idle)
BY WorkAssumption DEF TypeOK, StateOK, Idle, Coordinator, Positions

\* A command that changes the state of one coordinator.
LEMMA CommandTypeOK ==
  ASSUME TypeOK, NEW c \in Coordinators, NEW e \in Event,
         log' = log \/ log' = Append(log, e),
         now' = now,
         coordinator' = [coordinator EXCEPT ![c] = coordinator'[c]],
         StateOK(coordinator[c])'
  PROVE  TypeOK'
<1>1. /\ log' \in Seq(Event) /\ Len(log) \in Nat /\ Len(log') \in Nat
      /\ Len(log) <= Len(log') /\ Positions \subseteq Positions'
  BY LogGrows
<1>2. \A type : OfType(Positions, type) \subseteq OfType(Positions, type)'
  BY TypesGrow
<1>3. ASSUME NEW d \in Coordinators, d # c PROVE StateOK(coordinator[d])'
  <2>1. StateOK(coordinator[d]) /\ coordinator'[d] = coordinator[d]
    BY <1>3, TypeOfStates DEF TypeOK
  <2> QED BY <1>1, <1>2, <2>1 DEF StateOK, TypeOK
<1>4. coordinator'[c] \in Coordinator
  BY DEF StateOK
<1>5. coordinator' \in [Coordinators -> Coordinator]
  BY <1>4 DEF TypeOK
<1>6. \A d \in Coordinators : StateOK(coordinator[d])'
  BY <1>3
<1>7. now' \in 0..MaxTime
  BY DEF TypeOK
<1> QED BY <1>1, <1>5, <1>6, <1>7 DEF TypeOK, StateOK

LEMMA EmitTypeOK ==
  ASSUME TypeOK, NEW c \in Coordinators, NEW e \in Event, NEW x, Emit(c, e, x), now' = now
  PROVE  /\ TypeOK'
         /\ log' = log \/ Grows(e)
         /\ Continues(c, e, x)
<1>1. (log' = log \/ Grows(e)) /\ Continues(c, e, x)
  BY EmitFacts
<1>2. log' = log \/ log' = Append(log, e)
  BY <1>1 DEF Grows
<1>3. StateOK(coordinator[c])'
  <2>1. coordinator \in [Coordinators -> Coordinator] /\ StateOK(coordinator[c]) /\ now \in Nat
    BY TypeOfStates DEF TypeOK
  <2>2. CASE coordinator' = [coordinator EXCEPT ![c] = Idle]
    <3>1. coordinator'[c] = Idle
      BY <2>1, <2>2
    <3>2. Len(log') \in Nat
      BY <1>2, LogGrows
    <3> QED BY <2>1, <3>1, <3>2 DEF StateOK, Idle, Coordinator
  <2>3. ASSUME NEW known \in SUBSET Positions',
               coordinator' = [coordinator EXCEPT ![c] =
                 [coordinator[c] EXCEPT !.todo = coordinator[c].todo \ {x}, !.known = known]]
        PROVE StateOK(coordinator[c])'
    <3>1. coordinator'[c] =
            [coordinator[c] EXCEPT !.todo = coordinator[c].todo \ {x}, !.known = known]
      BY <2>1, <2>3
    <3>2. known \in SUBSET Nat /\ Len(log) \in Nat /\ Len(log') \in Nat /\ Len(log) <= Len(log')
      BY <1>2, <2>3, LogGrows DEF Positions
    <3>3. \A type : OfType(Positions, type) \subseteq OfType(Positions, type)'
      BY <1>2, TypesGrow
    <3>4. coordinator'[c] \in Coordinator
      BY <2>1, <3>1, <3>2 DEF StateOK, Coordinator
    <3>5. /\ coordinator'[c].known = known
          /\ coordinator'[c].todo \subseteq coordinator[c].todo
          /\ coordinator'[c].pc = coordinator[c].pc
          /\ coordinator'[c].at = coordinator[c].at
          /\ coordinator'[c].cut = coordinator[c].cut
      BY <2>1, <3>1 DEF StateOK, Coordinator
    <3>6. coordinator'[c].at \in 0..now' /\ coordinator'[c].cut \in 0..Len(log')
      BY <2>1, <3>2, <3>5 DEF StateOK, Coordinator
    <3> QED BY <2>1, <2>3, <3>3, <3>4, <3>5, <3>6 DEF StateOK
  <2> QED BY <1>1, <2>2, <2>3 DEF Continues
<1>4. coordinator' = [coordinator EXCEPT ![c] = coordinator'[c]]
  BY <1>1 DEF Continues, TypeOK
<1>5. TypeOK'
  BY <1>2, <1>3, <1>4, CommandTypeOK
<1> QED BY <1>1, <1>5

-----------------------------------------------------------------------------
\* The steps, by what they do to leases and frontiers.

PlainStep == \E e \in Event : e.type \notin {"granted"} \cup Terminal /\ log' = Append(log, e)

EndStep ==
  \E i \in OfType(Positions, "granted"), e \in Event :
    e.type \in Terminal /\ SameLease(e, log[i]) /\ Grows(e)

GrantStep ==
  \E c \in Coordinators, n \in Nodes, g \in Nat \ {0}, a \in Agents, k \in Nat :
    LET s == coordinator[c]
    IN /\ s.pc = "assigning" /\ n \in s.todo
       /\ IsVersion(s.known, g)
       /\ a \in Feasible(s.known, g, n, s.at)
       /\ IsHighestToken(s.known, g, n, k)
       /\ Grows(Granted(g, n, a, k + 1, s.at))

\* No frontier is computed or worked on.
Quiet ==
  \A d \in Coordinators : coordinator'[d].pc = "assigning" => coordinator'[d] = coordinator[d]

LEMMA BecomesFacts ==
  ASSUME TypeOK, NEW c \in Coordinators, NEW s, Becomes(c, s)
  PROVE  /\ coordinator' = [coordinator EXCEPT ![c] = coordinator'[c]]
         /\ coordinator'[c] = s
         /\ \A d \in Coordinators : d # c => coordinator'[d] = coordinator[d]
BY DEF TypeOK, Becomes

\* What holds of a state s that a command leaves behind without a word.
NewState(s) ==
  /\ s \in Coordinator
  /\ s.known \subseteq Positions
  /\ s.at \in 0..now /\ s.cut \in 0..Len(log)
  /\ s.pc # "assigning"
  /\ s.pc \in {"completing", "expiring"} => s.todo \subseteq OfType(Positions, "granted")
  /\ s.pc = "invalidating" => s.todo \subseteq OfType(Positions, "trigger")

LEMMA NewStateOK ==
  ASSUME TypeOK, NEW c \in Coordinators, NEW e \in Event,
         log' = log \/ log' = Append(log, e), now' = now,
         NEW s, NewState(s), Becomes(c, s)
  PROVE  TypeOK' /\ Quiet
<1>1. /\ coordinator' = [coordinator EXCEPT ![c] = coordinator'[c]]
      /\ coordinator'[c] = s
      /\ \A d \in Coordinators : d # c => coordinator'[d] = coordinator[d]
  BY BecomesFacts
<1>2. /\ Len(log) \in Nat /\ Len(log') \in Nat /\ Len(log) <= Len(log')
      /\ Positions \subseteq Positions'
  BY LogGrows
<1>3. \A type : OfType(Positions, type) \subseteq OfType(Positions, type)'
  BY TypesGrow
<1>4. StateOK(coordinator[c])'
  BY <1>1, <1>2, <1>3 DEF NewState, StateOK
<1>5. TypeOK'
  BY <1>1, <1>4, CommandTypeOK
<1>6. Quiet
  BY <1>1 DEF NewState, Quiet
<1> QED BY <1>5, <1>6

LEMMA NewStates ==
  ASSUME TypeOK
  PROVE  /\ NewState(Idle)
         /\ \A v \in 0..Len(log) : NewState(Planning(Len(log), v))
         /\ \A i \in OfType(Positions, "granted"), v \in BOOLEAN :
              NewState(Working("completing", {i}, v))
         /\ \A due \in SUBSET OfType(Positions, "granted") :
              NewState(Working("expiring", due, TRUE))
         /\ \A i \in OfType(Positions, "trigger") : NewState(Working("invalidating", {i}, TRUE))
         /\ NewState(Working("recording", {}, TRUE))
<1>1. Len(log) \in Nat /\ Positions \in SUBSET Nat /\ now \in Nat
  BY DEF TypeOK, Positions
<1>2. \A type : OfType(Positions, type) \in SUBSET Nat
  BY <1>1 DEF OfType
<1>3. NewState(Idle)
  BY <1>1 DEF NewState, Idle, Coordinator
<1>4. ASSUME NEW v \in 0..Len(log) PROVE NewState(Planning(Len(log), v))
  BY <1>1 DEF NewState, Planning, Coordinator
<1>5. ASSUME NEW i \in OfType(Positions, "granted"), NEW v \in BOOLEAN
      PROVE NewState(Working("completing", {i}, v))
  <2>1. {i} \in SUBSET Nat
    BY <1>2
  <2> QED BY <1>1, <2>1 DEF NewState, Working, Coordinator
<1>6. ASSUME NEW due \in SUBSET OfType(Positions, "granted")
      PROVE NewState(Working("expiring", due, TRUE))
  <2>1. due \in SUBSET Nat
    BY <1>2
  <2> QED BY <1>1, <2>1 DEF NewState, Working, Coordinator
<1>7. ASSUME NEW i \in OfType(Positions, "trigger")
      PROVE NewState(Working("invalidating", {i}, TRUE))
  <2>1. {i} \in SUBSET Nat
    BY <1>2
  <2> QED BY <1>1, <2>1 DEF NewState, Working, Coordinator
<1>8. NewState(Working("recording", {}, TRUE))
  BY <1>1 DEF NewState, Working, Coordinator
<1> QED BY <1>3, <1>4, <1>5, <1>6, <1>7, <1>8

\* Commands that begin, and commands that end.
LEMMA BeginSteps ==
  ASSUME TypeOK, NEW c \in Coordinators,
         \/ Plan(c) \/ Validate(c) \/ Cancel(c)
         \/ BeginComplete(c) \/ BeginExpire(c) \/ BeginInvalidate(c) \/ BeginPresence(c)
  PROVE  TypeOK' /\ log' = log /\ Quiet
<1>1. log' = log /\ now' = now
  BY DEF Plan, Validate, Cancel, BeginComplete, BeginExpire, BeginInvalidate, BeginPresence, Begin
<1>2. ASSUME NEW s, NewState(s), Becomes(c, s) PROVE TypeOK' /\ log' = log /\ Quiet
  <2>1. Blank \in Event
    BY DEF Blank, Event, Types
  <2> QED BY <1>1, <1>2, <2>1, NewStateOK
<1>3. CASE Plan(c)
  BY <1>2, <1>3, NewStates DEF Plan
<1>4. CASE Validate(c)
  <2> DEFINE s == [coordinator[c] EXCEPT !.pc = "admitting", !.known = Positions, !.at = now]
  <2>1. NewState(s)
    <3>1. coordinator[c] \in Coordinator /\ coordinator[c].cut \in 0..Len(log) /\ now \in Nat
      BY DEF TypeOK
    <3>2. Positions \in SUBSET Nat
      BY DEF Positions, TypeOK
    <3>3. s \in Coordinator
      BY <3>1, <3>2 DEF Coordinator
    <3>4. s.known = Positions /\ s.at = now /\ s.cut = coordinator[c].cut /\ s.pc = "admitting"
      BY <3>1 DEF Coordinator
    <3> HIDE DEF s
    <3> QED BY <3>1, <3>3, <3>4 DEF NewState
  <2>2. Becomes(c, s) \/ Becomes(c, Idle)
    BY <1>4 DEF Validate
  <2> QED BY <1>2, <2>1, <2>2, NewStates
<1>5. CASE Cancel(c)
  BY <1>2, <1>5, NewStates DEF Cancel
<1>6. CASE BeginComplete(c)
  <2>1. PICK i \in ActiveLeases(Positions), v \in BOOLEAN :
          Becomes(c, Working("completing", {i}, v))
    BY <1>6 DEF BeginComplete
  <2>2. i \in OfType(Positions, "granted")
    BY DEF ActiveLeases
  <2> QED BY <1>2, <2>1, <2>2, NewStates
<1>7. CASE BeginExpire(c)
  <2> DEFINE due == {i \in ActiveLeases(Positions) : Expiry(log[i]) <= now}
  <2>1. due \in SUBSET OfType(Positions, "granted")
    BY DEF ActiveLeases
  <2>2. Becomes(c, Working("expiring", due, TRUE))
    BY <1>7 DEF BeginExpire, Begin
  <2> HIDE DEF due
  <2> QED BY <1>2, <2>1, <2>2, NewStates
<1>8. CASE BeginInvalidate(c)
  BY <1>2, <1>8, NewStates DEF BeginInvalidate, Begin
<1>9. CASE BeginPresence(c)
  BY <1>2, <1>9, NewStates DEF BeginPresence, Begin
<1> QED BY <1>1, <1>3, <1>4, <1>5, <1>6, <1>7, <1>8, <1>9

\* An event emitted by a command other than assign_ready.
LEMMA EmitQuiet ==
  ASSUME TypeOK, NEW c \in Coordinators, NEW e \in Event, NEW x, Emit(c, e, x), now' = now,
         coordinator[c].pc # "assigning"
  PROVE  TypeOK' /\ (log' = log \/ Grows(e)) /\ Quiet
<1>1. TypeOK' /\ (log' = log \/ Grows(e)) /\ Continues(c, e, x)
  BY EmitTypeOK
<1>2. coordinator \in [Coordinators -> Coordinator]
  BY DEF TypeOK
<1>3. Quiet
  <2>1. CASE coordinator' = [coordinator EXCEPT ![c] = Idle]
    BY <1>2, <2>1 DEF Quiet, Idle
  <2>2. ASSUME NEW todo, NEW known,
               coordinator' = [coordinator EXCEPT ![c] =
                 [coordinator[c] EXCEPT !.todo = todo, !.known = known]]
        PROVE Quiet
    BY <1>2, <2>2 DEF Quiet, Coordinator
  <2> QED BY <1>1, <2>1, <2>2 DEF Continues
<1> QED BY <1>1, <1>3

\* Steps that do not touch a lease.
LEMMA PlainSteps ==
  ASSUME TypeOK, NEW c \in Coordinators,
         Propose(c) \/ Admit(c) \/ Invalidate(c) \/ RecordPresence(c)
  PROVE  TypeOK' /\ (log' = log \/ PlainStep) /\ Quiet
<1>1. /\ now' = now /\ now \in Nat /\ Len(log) \in Nat /\ Positions \in SUBSET Nat
      /\ coordinator[c] \in Coordinator /\ StateOK(coordinator[c])
  BY TypeOfStates DEF TypeOK, Positions, Propose, Admit, Invalidate, RecordPresence
<1>2. Blank \in Event
  BY DEF Blank, Event, Types
<1>3. CASE Propose(c)
  <2> DEFINE e == Proposed(coordinator[c].cut, coordinator[c].base, now)
             s == [coordinator[c] EXCEPT !.pc = "validating"]
  <2>1. e \in Event /\ e.type = "proposed"
    BY <1>1 DEF Coordinator, Event, Types, Blank, Proposed
  <2>2. log' = log \/ log' = Append(log, e)
    BY <1>3 DEF Propose
  <2>3. NewState(s)
    <3>1. s \in Coordinator /\ s.pc = "validating" /\ s.known = coordinator[c].known
          /\ s.at = coordinator[c].at /\ s.cut = coordinator[c].cut
      BY <1>1 DEF Coordinator
    <3> HIDE DEF s
    <3> QED BY <1>1, <3>1 DEF NewState, StateOK
  <2>4. Becomes(c, s) \/ Becomes(c, Idle)
    BY <1>3 DEF Propose
  <2> HIDE DEF e, s
  <2>5. TypeOK' /\ Quiet
    BY <1>1, <2>1, <2>2, <2>3, <2>4, NewStates, NewStateOK
  <2> QED BY <2>1, <2>2, <2>5 DEF PlainStep, Terminal
<1>4. CASE Admit(c)
  <2> DEFINE e == Accepted(coordinator[c].cut, coordinator[c].base + 1, coordinator[c].at)
             s == [coordinator[c] EXCEPT !.pc = "validating"]
  <2>1. e \in Event /\ e.type = "accepted"
    <3>1. coordinator[c].cut \in Nat /\ coordinator[c].base + 1 \in Nat /\ coordinator[c].at \in Nat
      BY <1>1 DEF Coordinator
    <3> QED BY <3>1 DEF Event, Types, Blank, Accepted
  <2>2. log' = log \/ log' = Append(log, e)
    BY <1>4 DEF Admit
  <2>3. NewState(s)
    <3>1. s \in Coordinator /\ s.pc = "validating" /\ s.known = coordinator[c].known
          /\ s.at = coordinator[c].at /\ s.cut = coordinator[c].cut
      BY <1>1 DEF Coordinator
    <3> HIDE DEF s
    <3> QED BY <1>1, <3>1 DEF NewState, StateOK
  <2>4. Becomes(c, s) \/ Becomes(c, Idle)
    BY <1>4 DEF Admit
  <2> HIDE DEF e, s
  <2>5. TypeOK' /\ Quiet
    BY <1>1, <2>1, <2>2, <2>3, <2>4, NewStates, NewStateOK
  <2> QED BY <2>1, <2>2, <2>5 DEF PlainStep, Terminal
<1>5. CASE Invalidate(c)
  <2>1. PICK i \in coordinator[c].todo, g \in 1..Len(log) :
          Emit(c, Invalidated(g, i, coordinator[c].at), i)
    BY <1>5 DEF Invalidate
  <2> DEFINE e == Invalidated(g, i, coordinator[c].at)
  <2>2. coordinator[c].pc = "invalidating"
    BY <1>5 DEF Invalidate
  <2>3. i \in Nat /\ coordinator[c].at \in Nat
    BY <1>1, <2>2 DEF StateOK, Coordinator, OfType
  <2>4. e \in Event /\ e.type = "invalidated"
    <3>1. g \in Nat
      BY <1>1
    <3> QED BY <2>3, <3>1 DEF Event, Types, Blank, Invalidated
  <2> HIDE DEF e
  <2>5. Emit(c, e, i)
    BY <2>1 DEF e
  <2>6. TypeOK' /\ (log' = log \/ Grows(e)) /\ Quiet
    BY <1>1, <2>2, <2>4, <2>5, EmitQuiet
  <2> QED BY <2>4, <2>6 DEF PlainStep, Terminal, Grows
<1>6. CASE RecordPresence(c)
  <2>1. PICK a \in Agents, v \in BOOLEAN, t \in 0..coordinator[c].at :
          Emit(c, Presence(a, t, v), a)
    BY <1>1, <1>6 DEF RecordPresence, Coordinator
  <2> DEFINE e == Presence(a, t, v)
  <2>2. coordinator[c].pc = "recording"
    BY <1>6 DEF RecordPresence
  <2>3. e \in Event /\ e.type = "presence"
    <3>1. t \in Nat
      BY <1>1 DEF Coordinator
    <3> QED BY <3>1 DEF Event, Types, Blank, Presence
  <2> HIDE DEF e
  <2>4. Emit(c, e, a)
    BY <2>1 DEF e
  <2>5. TypeOK' /\ (log' = log \/ Grows(e)) /\ Quiet
    BY <1>1, <2>2, <2>3, <2>4, EmitQuiet
  <2> QED BY <2>3, <2>5 DEF PlainStep, Terminal, Grows
<1> QED BY <1>3, <1>4, <1>5, <1>6

\* complete and recover_expired end a lease that was granted.
LEMMA EndSteps ==
  ASSUME TypeOK, NEW c \in Coordinators, Complete(c) \/ Expire(c)
  PROVE  TypeOK' /\ (log' = log \/ EndStep) /\ Quiet
<1>1. /\ now' = now /\ coordinator[c] \in Coordinator /\ StateOK(coordinator[c])
      /\ log \in Seq(Event)
  BY TypeOfStates DEF TypeOK, Complete, Expire
<1>2. PICK i \in coordinator[c].todo :
        \/ Emit(c, Completed(log[i], coordinator[c].at, coordinator[c].verdict), i)
        \/ Emit(c, Expired(log[i], coordinator[c].at), i)
  BY DEF Complete, Expire
<1>3. coordinator[c].pc \in {"completing", "expiring"}
  BY DEF Complete, Expire
<1>4. i \in OfType(Positions, "granted") /\ log[i] \in Event
  BY <1>1, <1>3, EventFacts DEF StateOK, OfType
<1>5. coordinator[c].at \in Nat /\ coordinator[c].verdict \in BOOLEAN
  BY <1>1 DEF Coordinator
<1>6. PICK e \in Event : e.type \in Terminal /\ SameLease(e, log[i]) /\ Emit(c, e, i)
  BY <1>2, <1>4, <1>5, EndFacts DEF Terminal
<1>7. TypeOK' /\ (log' = log \/ Grows(e)) /\ Quiet
  BY <1>1, <1>3, <1>6, EmitQuiet
<1> QED BY <1>4, <1>6, <1>7 DEF EndStep

-----------------------------------------------------------------------------
\* The frontier of a command.

\* What a projection says of positions that an append leaves alone.
LEMMA ProjectionKept ==
  ASSUME NEW K \in SUBSET Positions, \A i \in Positions : log'[i] = log[i],
         NEW g \in Nat, NEW n \in Nodes
  PROVE  /\ IsVersion(K, g)' <=> IsVersion(K, g)
         /\ n \in Ready(K, g)' <=> n \in Ready(K, g)
<1>1. \A i \in K : log'[i] = log[i]
  OBVIOUS
<1>2. \A type : OfType(K, type)' = OfType(K, type) /\ OfType(K, type) \subseteq K
  BY <1>1 DEF OfType
<1>3. IsVersion(K, g)' <=> IsVersion(K, g)
  BY <1>1, <1>2 DEF IsVersion
<1>4. \A m \in Nodes : CompletedBy(K, g, m)' = CompletedBy(K, g, m)
  BY <1>1, <1>2 DEF CompletedBy
<1>5. ActiveLeases(K)' = ActiveLeases(K) /\ ActiveLeases(K) \subseteq K
  BY <1>1, <1>2 DEF ActiveLeases, Ended, SameLease
<1>6. IsLeased(K, g, n)' <=> IsLeased(K, g, n)
  BY <1>1, <1>5 DEF IsLeased
<1>7. Predecessors[n] \subseteq Nodes
  BY WorkAssumption
<1> QED BY <1>3, <1>4, <1>6, <1>7 DEF Ready, IsCompleted

\* FrontierInv of one state of a coordinator.
FrontierOf(s) ==
  s.pc = "assigning" =>
    /\ \A n \in s.todo, g \in Nat : IsVersion(s.known, g) => n \in Ready(s.known, g)
    /\ \A j \in OfType(s.known, "completed") : 1..j \subseteq s.known

LEMMA FrontierOfStates ==
  FrontierInv <=> \A c \in Coordinators : FrontierOf(coordinator[c])
BY DEF FrontierInv, FrontierOf

LEMMA FrontierOfKept ==
  ASSUME TypeOK, NEW e \in Event, log' = log \/ log' = Append(log, e),
         NEW c \in Coordinators, FrontierOf(coordinator[c]), coordinator'[c] = coordinator[c]
  PROVE  FrontierOf(coordinator[c])'
<1>1. \A i \in Positions : log'[i] = log[i]
  BY LogGrows
<1>2. StateOK(coordinator[c])
  BY TypeOfStates
<1>3. SUFFICES ASSUME NEW K, K = coordinator[c].known, NEW T, T = coordinator[c].todo,
                      coordinator[c].pc = "assigning"
               PROVE  FrontierOf(coordinator[c])'
  BY DEF FrontierOf
<1>4. K \in SUBSET Positions /\ T \subseteq Nodes
  BY <1>2, <1>3 DEF StateOK
<1>5. ASSUME NEW n \in T, NEW g \in Nat, IsVersion(K, g)'
      PROVE  n \in Ready(K, g)'
  <2>1. n \in Nodes
    BY <1>4
  <2>2. /\ IsVersion(K, g)' <=> IsVersion(K, g)
        /\ n \in Ready(K, g)' <=> n \in Ready(K, g)
    BY <1>1, <1>4, <2>1, ProjectionKept
  <2> QED BY <1>3, <1>5, <2>2 DEF FrontierOf
<1>6. coordinator'[c].known = K /\ coordinator'[c].todo = T
  BY <1>3
<1>7. \A j \in OfType(K, "completed")' : 1..j \subseteq K
  BY <1>1, <1>3, <1>4 DEF FrontierOf, OfType
<1> QED BY <1>5, <1>6, <1>7 DEF FrontierOf

LEMMA FrontierKept ==
  ASSUME TypeOK, FrontierInv, NEW e \in Event, log' = log \/ log' = Append(log, e),
         \A d \in Coordinators : coordinator'[d] = coordinator[d] \/ FrontierOf(coordinator[d])'
  PROVE  FrontierInv'
<1>1. ASSUME NEW d \in Coordinators PROVE FrontierOf(coordinator[d])'
  <2>1. FrontierOf(coordinator[d])
    BY FrontierOfStates
  <2> QED BY <2>1, FrontierOfKept
<1> QED BY <1>1 DEF FrontierInv, FrontierOf

LEMMA QuietKeepsFrontier ==
  ASSUME TypeOK, FrontierInv, NEW e \in Event, log' = log \/ log' = Append(log, e), Quiet
  PROVE  FrontierInv'
<1>1. ASSUME NEW d \in Coordinators
      PROVE  coordinator'[d] = coordinator[d] \/ FrontierOf(coordinator[d])'
  BY DEF Quiet, FrontierOf
<1> QED BY <1>1, FrontierKept

\* A projection has one version.
LEMMA OneVersion ==
  ASSUME TypeOK, NEW K \in SUBSET Positions, NEW v \in Nat, NEW w \in Nat,
         IsVersion(K, v), IsVersion(K, w)
  PROVE  v = w
<1>1. \A i \in OfType(K, "accepted") : log[i].graph \in Nat
  BY EventFacts DEF TypeOK, OfType, Event
<1> QED BY <1>1 DEF IsVersion

LEMMA AssignBegins ==
  ASSUME TypeOK, FrontierInv, NEW c \in Coordinators, BeginAssign(c)
  PROVE  TypeOK' /\ log' = log /\ FrontierInv'
<1>0. Blank \in Event
  BY DEF Blank, Event, Types
<1>1. PICK g \in 1..Len(log) :
        /\ GraphIsActive(Positions, g)
        /\ Begin(c, "assign", "assigning", Ready(Positions, g))
  BY DEF BeginAssign
<1> DEFINE s == Working("assigning", Ready(Positions, g), TRUE)
<1>2. log' = log /\ now' = now /\ Becomes(c, s)
  BY <1>1 DEF Begin
<1>3. /\ coordinator' = [coordinator EXCEPT ![c] = coordinator'[c]]
      /\ coordinator'[c] = s
      /\ \A d \in Coordinators : d # c => coordinator'[d] = coordinator[d]
  BY <1>2, BecomesFacts
<1>4. /\ s.pc = "assigning" /\ s.known = Positions /\ s.todo = Ready(Positions, g)
      /\ s.at = now /\ s.cut = 0
  BY DEF Working
<1>5. s \in Coordinator
  <2>1. Positions \in SUBSET Nat /\ now \in Nat /\ Ready(Positions, g) \subseteq Nodes
    BY DEF TypeOK, Positions, Ready
  <2> QED BY <2>1 DEF Working, Coordinator
<1> HIDE DEF s
<1>6. StateOK(coordinator[c])'
  <2>1. Positions' = Positions /\ now \in Nat /\ Len(log) \in Nat
    BY <1>2 DEF Positions, TypeOK
  <2> QED BY <1>2, <1>3, <1>4, <1>5, <2>1 DEF StateOK, Ready
<1>7. TypeOK'
  BY <1>0, <1>2, <1>3, <1>6, CommandTypeOK
<1>8. FrontierOf(coordinator[c])'
  <2>1. ASSUME NEW n \in Ready(Positions, g), NEW v \in Nat, IsVersion(Positions, v)
        PROVE  n \in Ready(Positions, v)
    <3>1. v = g
      BY <1>1, <2>1, OneVersion DEF GraphIsActive
    <3> QED BY <3>1
  <2>2. ASSUME NEW K, K = Positions, NEW T, T = Ready(Positions, g)
        PROVE \A n \in T, v \in Nat : IsVersion(K, v)' => n \in Ready(K, v)'
    <3>1. SUFFICES ASSUME NEW n \in T, NEW v \in Nat, IsVersion(K, v)'
                   PROVE  n \in Ready(K, v)'
      OBVIOUS
    <3>2. n \in Nodes /\ K \in SUBSET Positions
      BY <2>2 DEF Ready
    <3>3. /\ IsVersion(K, v)' <=> IsVersion(K, v)
          /\ n \in Ready(K, v)' <=> n \in Ready(K, v)
      BY <1>2, <3>2, ProjectionKept
    <3> QED BY <2>1, <2>2, <3>1, <3>3
  <2>3. \A j \in Positions : 1..j \subseteq Positions
    BY DEF Positions, TypeOK
  <2>4. ASSUME NEW K, K = Positions
        PROVE  \A j \in OfType(K, "completed")' : 1..j \subseteq K
    BY <2>3, <2>4 DEF OfType
  <2> QED BY <1>3, <1>4, <2>2, <2>4 DEF FrontierOf
<1>9. FrontierInv'
  BY <1>0, <1>2, <1>3, <1>8, FrontierKept
<1> QED BY <1>2, <1>7, <1>9

\* A node stays on the frontier when another node of it is granted.
LEMMA OtherNodesStayReady ==
  ASSUME TypeOK, NEW K \in SUBSET Positions, NEW L, K \subseteq L,
         \A i \in Positions : log'[i] = log[i],
         NEW e, e.type = "granted", \A i \in L : i \in K \/ log'[i] = e,
         NEW v \in Nat, NEW n \in Nodes, n # e.node,
         IsVersion(K, v) => n \in Ready(K, v),
         IsVersion(L, v)'
  PROVE  n \in Ready(L, v)'
<1>1. \A i \in K : i \in L /\ log'[i] = log[i]
  OBVIOUS
<1>2. \A type : type # "granted" => OfType(L, type)' = OfType(K, type)
  BY <1>1 DEF OfType
<1>3. \A type : OfType(K, type) \subseteq K
  BY DEF OfType
<1>4. IsVersion(K, v)
  <2>1. OfType(L, "accepted")' = OfType(K, "accepted")
    BY <1>2
  <2> QED BY <1>1, <1>3, <2>1 DEF IsVersion
<1>5. n \in Ready(K, v)
  BY <1>4
<1>6. \A m \in Nodes : CompletedBy(L, v, m)' = CompletedBy(K, v, m)
  <2>1. OfType(L, "completed")' = OfType(K, "completed")
    BY <1>2
  <2> QED BY <1>1, <1>3, <2>1 DEF CompletedBy
<1>7. ~IsLeased(L, v, n)'
  <2>1. SUFFICES ASSUME NEW i \in ActiveLeases(L)', log'[i].graph = v, log'[i].node = n
                 PROVE FALSE
    BY DEF IsLeased
  <2>2. i \in L /\ log'[i].type = "granted" /\ ~Ended(L, log[i])'
    BY DEF ActiveLeases, OfType
  <2>3. i \in K /\ log'[i] = log[i]
    BY <1>1, <2>1, <2>2
  <2>4. ~Ended(K, log[i])
    BY <1>1, <2>2, <2>3 DEF Ended, SameLease
  <2>5. i \in ActiveLeases(K)
    BY <2>2, <2>3, <2>4 DEF ActiveLeases, OfType
  <2> QED BY <1>5, <2>1, <2>3, <2>5 DEF Ready, IsLeased
<1>8. Predecessors[n] \subseteq Nodes
  BY WorkAssumption
<1> QED BY <1>5, <1>6, <1>7, <1>8 DEF Ready, IsCompleted

LEMMA AssignSteps ==
  ASSUME TypeOK, FrontierInv, NEW c \in Coordinators, Assign(c)
  PROVE  TypeOK' /\ (log' = log \/ GrantStep) /\ FrontierInv'
<1>1. /\ now' = now /\ coordinator[c] \in Coordinator /\ StateOK(coordinator[c])
      /\ log \in Seq(Event) /\ coordinator[c].pc = "assigning"
  BY TypeOfStates DEF TypeOK, Assign
<1>2. Blank \in Event
  BY DEF Blank, Event, Types
<1>3. PICK n \in coordinator[c].todo, g \in 1..Len(log) :
        LET K == coordinator[c].known
            t == coordinator[c].at
        IN /\ IsVersion(K, g)
           /\ IF Feasible(K, g, n, t) = {}
              THEN UNCHANGED log /\ Done(c, n, K)
              ELSE \E a \in Feasible(K, g, n, t), k \in 0..Len(log) :
                     /\ IsHighestToken(K, g, n, k)
                     /\ Emit(c, Granted(g, n, a, k + 1, t), n)
  BY DEF Assign
<1>4. n \in Nodes /\ coordinator[c].todo \subseteq Nodes /\ coordinator[c].known \in SUBSET Positions
  BY <1>1 DEF StateOK
\* The rest of the frontier, whatever Emit and Done made of it.
<1>5. ASSUME NEW e \in Event, e.type = "granted", e.node = n,
             log' = log \/ log' = Append(log, e), Continues(c, e, n)
      PROVE FrontierInv'
  <2>1. coordinator \in [Coordinators -> Coordinator]
    BY DEF TypeOK
  <2>2. \A i \in Positions : log'[i] = log[i]
    BY <1>5, LogGrows
  <2>3. CASE coordinator' = [coordinator EXCEPT ![c] = Idle]
    <3>1. coordinator'[c] = Idle /\ \A d \in Coordinators : d # c => coordinator'[d] = coordinator[d]
      BY <2>1, <2>3
    <3>2. FrontierOf(coordinator[c])'
      BY <3>1 DEF FrontierOf, Idle
    <3> QED BY <1>5, <3>1, <3>2, FrontierKept
  <2>4. ASSUME NEW L \in SUBSET Positions', coordinator[c].known \subseteq L,
               \A i \in L : i \in coordinator[c].known \/ log'[i] = e,
               coordinator' = [coordinator EXCEPT ![c] =
                 [coordinator[c] EXCEPT !.todo = coordinator[c].todo \ {n}, !.known = L]]
        PROVE FrontierInv'
    <3>1. /\ coordinator'[c] = [coordinator[c] EXCEPT !.todo = coordinator[c].todo \ {n}, !.known = L]
          /\ \A d \in Coordinators : d # c => coordinator'[d] = coordinator[d]
      BY <2>1, <2>4
    <3>2. coordinator'[c].todo = coordinator[c].todo \ {n} /\ coordinator'[c].known = L
      BY <1>1, <3>1 DEF Coordinator
    <3>3. ASSUME NEW T, T = coordinator[c].todo \ {n}
          PROVE \A m \in T, v \in Nat : IsVersion(L, v)' => m \in Ready(L, v)'
      <4>1. SUFFICES ASSUME NEW m \in T, NEW v \in Nat, IsVersion(L, v)'
                     PROVE  m \in Ready(L, v)'
        OBVIOUS
      <4>2. m \in Nodes /\ m # n /\ m \in coordinator[c].todo
        BY <1>4, <3>3, <4>1
      <4>3. IsVersion(coordinator[c].known, v) => m \in Ready(coordinator[c].known, v)
        BY <1>1, <4>2, FrontierOfStates DEF FrontierOf
      <4>4. \A K \in SUBSET Positions :
              /\ K \subseteq L /\ (\A i \in L : i \in K \/ log'[i] = e)
              /\ IsVersion(K, v) => m \in Ready(K, v)
              => m \in Ready(L, v)'
        <5>1. SUFFICES ASSUME NEW K \in SUBSET Positions,
                              K \subseteq L, \A i \in L : i \in K \/ log'[i] = e,
                              IsVersion(K, v) => m \in Ready(K, v)
                       PROVE  m \in Ready(L, v)'
          OBVIOUS
        <5> QED BY <1>5, <2>2, <4>1, <4>2, <5>1, OtherNodesStayReady
      <4> QED BY <1>4, <2>4, <4>3, <4>4
    <3>4. ASSUME NEW j \in OfType(L, "completed")' PROVE 1..j \subseteq L
      <4>1. j \in L /\ log'[j].type = "completed"
        BY DEF OfType
      <4>2. j \in coordinator[c].known /\ log'[j] = log[j]
        BY <1>4, <1>5, <2>2, <2>4, <4>1
      <4>3. 1..j \subseteq coordinator[c].known
        BY <1>1, <4>1, <4>2, FrontierOfStates DEF FrontierOf, OfType
      <4> QED BY <2>4, <4>3
    <3>5. FrontierOf(coordinator[c])'
      BY <3>2, <3>3, <3>4 DEF FrontierOf
    <3> QED BY <1>5, <3>1, <3>5, FrontierKept
  <2> QED BY <1>5, <2>3, <2>4 DEF Continues
<1>6. CASE Feasible(coordinator[c].known, g, n, coordinator[c].at) = {}
  <2> DEFINE e == Granted(0, n, None, 0, 0)
  <2>1. e \in Event /\ e.type = "granted" /\ e.node = n
    BY <1>4 DEF Event, Types, Blank, Granted
  <2>2. log' = log /\ Done(c, n, coordinator[c].known)
    BY <1>3, <1>6
  <2>3. Positions' = Positions
    BY <2>2 DEF Positions
  <2> HIDE DEF e
  <2>4. Continues(c, e, n)
    BY <1>4, <2>2, <2>3 DEF Done, Becomes, Continues
  <2>5. FrontierInv'
    BY <1>5, <2>1, <2>2, <2>4
  <2>6. TypeOK'
    <3>1. coordinator' = [coordinator EXCEPT ![c] = Idle] \/
          coordinator' = [coordinator EXCEPT ![c] =
            [coordinator[c] EXCEPT !.todo = coordinator[c].todo \ {n}, !.known = coordinator[c].known]]
      BY <2>2 DEF Done, Becomes
    <3>2. coordinator'[c] = Idle \/
          coordinator'[c] =
            [coordinator[c] EXCEPT !.todo = coordinator[c].todo \ {n}, !.known = coordinator[c].known]
      BY <3>1 DEF TypeOK
    <3>3. coordinator' = [coordinator EXCEPT ![c] = coordinator'[c]]
      BY <3>1 DEF TypeOK
    <3>4. CASE coordinator'[c] = Idle
      <4>1. StateOK(Idle)
        BY IdleOK
      <4>2. StateOK(coordinator[c])'
        BY <1>1, <2>2, <2>3, <3>4, <4>1 DEF StateOK, Idle, OfType
      <4> QED BY <1>1, <1>2, <2>2, <3>3, <4>2, CommandTypeOK
    <3>5. CASE coordinator'[c] =
            [coordinator[c] EXCEPT !.todo = coordinator[c].todo \ {n}, !.known = coordinator[c].known]
      <4>1. /\ coordinator'[c] \in Coordinator
            /\ coordinator'[c].known = coordinator[c].known
            /\ coordinator'[c].todo \subseteq coordinator[c].todo
            /\ coordinator'[c].pc = "assigning"
            /\ coordinator'[c].at = coordinator[c].at
            /\ coordinator'[c].cut = coordinator[c].cut
        BY <1>1, <3>5 DEF Coordinator
      <4>2. StateOK(coordinator[c])'
        BY <1>1, <2>2, <2>3, <4>1 DEF StateOK
      <4> QED BY <1>1, <1>2, <2>2, <3>3, <4>2, CommandTypeOK
    <3> QED BY <3>2, <3>4, <3>5
  <2> QED BY <2>2, <2>5, <2>6
<1>7. CASE Feasible(coordinator[c].known, g, n, coordinator[c].at) # {}
  <2>1. PICK a \in Feasible(coordinator[c].known, g, n, coordinator[c].at), k \in 0..Len(log) :
          /\ IsHighestToken(coordinator[c].known, g, n, k)
          /\ Emit(c, Granted(g, n, a, k + 1, coordinator[c].at), n)
    BY <1>3, <1>7
  <2> DEFINE e == Granted(g, n, a, k + 1, coordinator[c].at)
  <2>2. a \in Agents /\ g \in Nat \ {0} /\ k \in Nat /\ k + 1 \in Nat /\ coordinator[c].at \in Nat
    BY <1>1 DEF Feasible, Coordinator
  <2>3. e \in Event /\ e.type = "granted" /\ e.node = n
    <3>1. g \in Nat
      BY <2>2
    <3> QED BY <1>4, <2>2, <3>1 DEF Event, Types, Blank, Granted
  <2>4. Emit(c, e, n)
    BY <2>1
  <2> HIDE DEF e
  <2>5. TypeOK' /\ (log' = log \/ Grows(e)) /\ Continues(c, e, n)
    BY <1>1, <2>3, <2>4, EmitTypeOK
  <2>6. FrontierInv'
    BY <1>5, <2>3, <2>5 DEF Grows
  <2>7. Grows(e) => GrantStep
    BY <1>1, <1>3, <1>4, <2>1, <2>2 DEF GrantStep, e
  <2> QED BY <2>5, <2>6, <2>7
<1> QED BY <1>6, <1>7

-----------------------------------------------------------------------------
\* Every step.

LEMMA Steps ==
  ASSUME TypeOK, FrontierInv, [Next]_vars
  PROVE  /\ TypeOK' /\ FrontierInv'
         /\ log' = log \/ PlainStep \/ EndStep \/ GrantStep
<1>0. Blank \in Event
  BY DEF Blank, Event, Types
<1>1. ASSUME TypeOK', log' = log \/ PlainStep \/ EndStep, Quiet
      PROVE  FrontierInv'
  <2>1. \E e \in Event : log' = log \/ log' = Append(log, e)
    BY <1>0, <1>1 DEF PlainStep, EndStep, Grows
  <2> QED BY <1>1, <2>1, QuietKeepsFrontier
<1>2. ASSUME NEW c \in Coordinators,
             \/ Plan(c) \/ Validate(c) \/ Cancel(c)
             \/ BeginComplete(c) \/ BeginExpire(c) \/ BeginInvalidate(c) \/ BeginPresence(c)
      PROVE  TypeOK' /\ FrontierInv' /\ log' = log
  BY <1>1, <1>2, BeginSteps
<1>3. ASSUME NEW c \in Coordinators, Propose(c) \/ Admit(c) \/ Invalidate(c) \/ RecordPresence(c)
      PROVE  TypeOK' /\ FrontierInv' /\ (log' = log \/ PlainStep)
  BY <1>1, <1>3, PlainSteps
<1>4. ASSUME NEW c \in Coordinators, Complete(c) \/ Expire(c)
      PROVE  TypeOK' /\ FrontierInv' /\ (log' = log \/ EndStep)
  BY <1>1, <1>4, EndSteps
<1>5. ASSUME NEW c \in Coordinators, BeginAssign(c)
      PROVE  TypeOK' /\ FrontierInv' /\ log' = log
  BY <1>5, AssignBegins
<1>6. ASSUME NEW c \in Coordinators, Assign(c)
      PROVE  TypeOK' /\ FrontierInv' /\ (log' = log \/ GrantStep)
  BY <1>6, AssignSteps
<1>7. ASSUME \E e \in Event : e.type \notin {"granted"} \cup Terminal /\ log' = Append(log, e),
             now' = now, coordinator' = coordinator
      PROVE  TypeOK' /\ FrontierInv' /\ PlainStep
  <2>1. PICK e \in Event : log' = Append(log, e)
    BY <1>7
  <2>2. /\ log' \in Seq(Event) /\ Len(log) \in Nat /\ Len(log') \in Nat
        /\ Len(log) <= Len(log') /\ Positions \subseteq Positions'
    BY <2>1, LogGrows
  <2>3. \A type : OfType(Positions, type) \subseteq OfType(Positions, type)'
    BY <2>1, TypesGrow
  <2>4. ASSUME NEW d \in Coordinators PROVE StateOK(coordinator[d])'
    <3>1. StateOK(coordinator[d])
      BY TypeOfStates
    <3> QED BY <1>7, <2>2, <2>3, <3>1 DEF StateOK
  <2>5. TypeOK'
    BY <1>7, <2>2, <2>4 DEF TypeOK, StateOK
  <2>6. Quiet
    BY <1>7 DEF Quiet
  <2>7. PlainStep
    BY <1>7 DEF PlainStep
  <2> QED BY <1>1, <2>5, <2>6, <2>7
<1>8. CASE Trigger
  <2> DEFINE e == [Blank EXCEPT !.ref = Len(log) + 1]
  <2>1. Len(log) + 1 \in Nat
    BY DEF TypeOK
  <2>2. e \in Event /\ e.type = "trigger"
    BY <2>1 DEF Event, Types, Blank
  <2>3. log' = Append(log, e) /\ now' = now /\ coordinator' = coordinator
    BY <1>8 DEF Trigger
  <2> HIDE DEF e
  <2> QED BY <1>7, <2>2, <2>3 DEF Terminal
<1>9. CASE Tick
  <2>1. log' = log /\ coordinator' = coordinator /\ now' = now + 1 /\ now' \in 0..MaxTime
    BY <1>9, WorkAssumption DEF Tick, TypeOK
  <2>2. ASSUME NEW d \in Coordinators PROVE StateOK(coordinator[d])'
    <3>1. StateOK(coordinator[d]) /\ now \in Nat
      BY TypeOfStates DEF TypeOK
    <3> QED BY <2>1, <3>1 DEF StateOK, OfType, Positions
  <2>3. TypeOK'
    BY <2>1, <2>2 DEF TypeOK, StateOK
  <2>4. Quiet
    BY <2>1 DEF Quiet
  <2> QED BY <1>1, <2>1, <2>3, <2>4
<1>10. CASE UNCHANGED vars
  <2>1. log' = log /\ now' = now /\ coordinator' = coordinator
    BY <1>10 DEF vars
  <2>2. TypeOK'
    BY <2>1 DEF TypeOK, OfType, Positions
  <2>3. Quiet
    BY <2>1 DEF Quiet
  <2> QED BY <1>1, <2>1, <2>2, <2>3
<1> QED BY <1>2, <1>3, <1>4, <1>5, <1>6, <1>8, <1>7, <1>9, <1>10 DEF Next

-----------------------------------------------------------------------------
\* Leases.

\* A grant of what is ready as far as K goes, under the next token.
IsNext(K, e) ==
  /\ e.type = "granted" /\ e.graph \in Nat \ {0} /\ e.node \in Nodes /\ e.token \in Nat \ {0}
  /\ IsVersion(K, e.graph) /\ e.node \in Ready(K, e.graph)
  /\ \E k \in Nat : e.token = k + 1 /\ IsHighestToken(K, e.graph, e.node, k)

\* All leases of the item of e have expired, under the tokens up to that of e.
ExtendsChain(e) ==
  /\ \A t \in 1..(e.token - 1) :
       \E j \in OfType(Positions, "expired") :
         Item(j) = <<e.graph, e.node>> /\ log[j].token = t
  /\ \A j \in OfType(Positions, "granted") :
       Item(j) = <<e.graph, e.node>> => log[j].token \in 1..(e.token - 1)

LEMMA GrantExtendsChain ==
  ASSUME TypeOK, LeaseInv, NEW K \in SUBSET Positions, NEW e \in Event, IsNext(K, e),
         \A i \in Positions : ~SameId(log[i], e)
  PROVE  ExtendsChain(e)
<1> PICK g \in Nat \ {0}, n \in Nodes, k \in Nat :
      /\ e.type = "granted" /\ e.graph = g /\ e.node = n /\ e.token = k + 1
      /\ IsVersion(K, g) /\ n \in Ready(K, g) /\ IsHighestToken(K, g, n, k)
  BY DEF IsNext
<1>0. \A i \in Positions : log[i].token \in Nat /\ log[i].graph \in Nat
  BY EventFacts DEF TypeOK, Event
<1>1. ASSUME NEW i \in OfType(K, "granted"), log[i].graph = g, log[i].node = n
      PROVE  \E j \in OfType(Positions, "expired") : SameLease(log[j], log[i])
  <2>1. Ended(K, log[i])
    BY <1>1 DEF Ready, IsLeased, ActiveLeases
  <2>2. PICK j \in K : log[j].type \in Terminal /\ SameLease(log[j], log[i])
    BY <2>1 DEF Ended
  <2>3. log[j].type # "completed"
    <3>1. log[j].graph = g /\ log[j].node = n
      BY <1>1, <2>2 DEF SameLease
    <3>2. CompletedBy(K, g, n) = {}
      BY DEF Ready, IsCompleted
    <3>3. \A h \in K : ~(log[h].type = "completed" /\ log[h].graph = g /\ log[h].node = n)
      BY <3>2 DEF CompletedBy, OfType
    <3> QED BY <2>2, <3>1, <3>3
  <2> QED BY <2>2, <2>3 DEF Terminal, OfType
<1>2. ASSUME NEW t \in 1..k
      PROVE  \E j \in OfType(Positions, "expired") : Item(j) = <<g, n>> /\ log[j].token = t
  <2>1. PICK i \in OfType(K, "granted") : log[i].graph = g /\ log[i].node = n /\ log[i].token = k
    BY DEF IsHighestToken
  <2>2. i \in OfType(Positions, "granted")
    BY DEF OfType
  <2>3. CASE t = k
    BY <1>1, <2>1, <2>3 DEF SameLease, Item
  <2>4. CASE t # k
    <3>1. t \in 1..(log[i].token - 1)
      BY <2>1, <2>4
    <3> QED BY <2>1, <2>2, <3>1 DEF LeaseInv, Chain, Item
  <2> QED BY <2>3, <2>4
<1>3. ASSUME NEW j \in OfType(Positions, "granted"), Item(j) = <<g, n>>
      PROVE  log[j].token \in 1..k
  <2>0. j \in Positions /\ log[j].type = "granted" /\ log[j].graph = g /\ log[j].node = n
    BY <1>3 DEF OfType, Item
  <2>1. log[j].token \in Nat \ {0}
    BY DEF LeaseInv, Chain
  <2>2. CASE log[j].token = k + 1
    BY <2>0, <2>2 DEF SameId, SameLease
  <2>3. CASE log[j].token > k + 1
    <3>1. k + 1 \in 1..(log[j].token - 1)
      BY <2>1, <2>3
    <3>2. PICK i \in OfType(Positions, "expired") : Item(i) = Item(j) /\ log[i].token = k + 1
      BY <3>1 DEF LeaseInv, Chain
    <3>3. i \in Positions /\ log[i].type \in Terminal /\ log[i].graph = g /\ log[i].node = n
      BY <1>3, <3>2 DEF OfType, Item, Terminal
    <3>4. PICK h \in OfType(Positions, "granted") : SameLease(log[i], log[h])
      BY <3>3 DEF LeaseInv, EndsWereGranted
    <3> QED BY <3>2, <3>3, <3>4 DEF SameId, SameLease, OfType
  <2> QED BY <2>1, <2>2, <2>3
<1>4. (k + 1) - 1 = k
  OBVIOUS
<1> QED BY <1>2, <1>3, <1>4 DEF ExtendsChain

LEMMA GrantSteps ==
  ASSUME TypeOK, LeaseInv, FrontierInv, GrantStep
  PROVE  \E e \in Event :
           /\ e.type = "granted" /\ e.graph \in Nat \ {0} /\ e.node \in Nodes
           /\ e.agent \in Agents /\ e.token \in Nat \ {0}
           /\ Grows(e) /\ ExtendsChain(e)
<1>1. PICK c \in Coordinators, n \in Nodes, g \in Nat \ {0}, a \in Agents, k \in Nat :
        /\ coordinator[c].pc = "assigning" /\ n \in coordinator[c].todo
        /\ IsVersion(coordinator[c].known, g)
        /\ IsHighestToken(coordinator[c].known, g, n, k)
        /\ Grows(Granted(g, n, a, k + 1, coordinator[c].at))
  BY DEF GrantStep
<1>2. StateOK(coordinator[c]) /\ coordinator[c].at \in Nat /\ coordinator[c].known \in SUBSET Positions
  BY TypeOfStates DEF StateOK, Coordinator
<1>3. g \in Nat /\ k + 1 \in Nat \ {0} /\ k + 1 \in Nat
  OBVIOUS
<1>4. PICK e \in Event :
        /\ e = Granted(g, n, a, k + 1, coordinator[c].at)
        /\ e.type = "granted" /\ e.graph = g /\ e.node = n /\ e.agent = a /\ e.token = k + 1
  <2> DEFINE d == Granted(g, n, a, k + 1, coordinator[c].at)
  <2>1. /\ d \in Event /\ d.type = "granted" /\ d.graph = g /\ d.node = n
        /\ d.agent = a /\ d.token = k + 1
    BY <1>2, <1>3 DEF Event, Types, Blank, Granted
  <2> QED BY <2>1
<1>5. n \in Ready(coordinator[c].known, g)
  BY <1>1, <1>3 DEF FrontierInv
<1>6. Grows(e)
  BY <1>1, <1>4
<1>7. \A i \in Positions : ~SameId(log[i], e)
  BY <1>6 DEF Grows
<1>8. IsNext(coordinator[c].known, e)
  BY <1>1, <1>3, <1>4, <1>5 DEF IsNext
<1>9. ExtendsChain(e)
  BY <1>2, <1>7, <1>8, GrantExtendsChain
<1> QED BY <1>3, <1>4, <1>6, <1>9

LEMMA LeaseInvKept ==
  ASSUME TypeOK, LeaseInv, FrontierInv,
         log' = log \/ PlainStep \/ EndStep \/ GrantStep
  PROVE  LeaseInv'
<1>0. log \in Seq(Event)
  BY DEF TypeOK
<1>1. CASE log' = log
  <2>1. UniqueIds'
    BY <1>1 DEF LeaseInv, UniqueIds, Positions, SameLease, Terminal
  <2>2. Chain'
    BY <1>1 DEF LeaseInv, Chain, OfType, Positions, Item
  <2>3. EndsWereGranted'
    BY <1>1 DEF LeaseInv, EndsWereGranted, OfType, Positions, SameLease, Terminal
  <2> QED BY <2>1, <2>2, <2>3 DEF LeaseInv
<1>2. CASE PlainStep
  <2>1. PICK e \in Event : e.type \notin {"granted"} \cup Terminal /\ log' = Append(log, e)
    BY <1>2 DEF PlainStep
  <2>2. /\ Positions' = Positions \cup {Len(log) + 1}
        /\ \A i \in Positions : log'[i] = log[i]
        /\ log'[Len(log) + 1] = e
    BY <1>0, <2>1, Appended
  <2>3. OfType(Positions, "granted")' = OfType(Positions, "granted")
        /\ OfType(Positions, "expired") \subseteq OfType(Positions, "expired")'
    BY <2>1, <2>2 DEF OfType
  <2>4. \A i \in Positions' :
          log'[i].type = "granted" \/ log'[i].type \in Terminal => i \in Positions /\ log'[i] = log[i]
    BY <2>1, <2>2
  <2>5. UniqueIds'
    <3>1. Terminal' = Terminal
      BY DEF Terminal
    <3> QED BY <2>4, <3>1 DEF LeaseInv, UniqueIds, SameLease
  <2>6. Chain'
    BY <2>2, <2>3 DEF LeaseInv, Chain, Item, OfType
  <2>7. EndsWereGranted'
    <3>1. Terminal' = Terminal
      BY DEF Terminal
    <3>2. \A i \in OfType(Positions, "granted") : i \in Positions
      BY DEF OfType
    <3> QED BY <2>2, <2>3, <2>4, <3>1, <3>2 DEF LeaseInv, EndsWereGranted, SameLease
  <2> QED BY <2>5, <2>6, <2>7 DEF LeaseInv
<1>3. CASE EndStep
  <2>1. PICK h \in OfType(Positions, "granted"), e \in Event :
          e.type \in Terminal /\ SameLease(e, log[h]) /\ Grows(e)
    BY <1>3 DEF EndStep
  <2>0. h < Len(log) + 1
    BY <1>0 DEF OfType, Positions
  <2>2. /\ Positions' = Positions \cup {Len(log) + 1}
        /\ \A i \in Positions : log'[i] = log[i]
        /\ log'[Len(log) + 1] = e
    BY <1>0, <2>1, Appended DEF Grows
  <2>3. \A i \in Positions : log[i].type \in Terminal => ~SameLease(log[i], e) /\ ~SameLease(e, log[i])
    BY <2>1 DEF Grows, SameId, SameLease
  <2>4. OfType(Positions, "granted")' = OfType(Positions, "granted")
        /\ OfType(Positions, "expired") \subseteq OfType(Positions, "expired")'
    BY <2>1, <2>2 DEF OfType, Terminal
  <2>5. UniqueIds'
    BY <2>1, <2>2, <2>3 DEF LeaseInv, UniqueIds, SameLease, Terminal
  <2>6. Chain'
    BY <2>2, <2>4 DEF LeaseInv, Chain, Item, OfType
  <2>7. EndsWereGranted'
    BY <2>0, <2>1, <2>2, <2>4 DEF LeaseInv, EndsWereGranted, SameLease, OfType, Terminal
  <2> QED BY <2>5, <2>6, <2>7 DEF LeaseInv
<1>4. CASE GrantStep
  <2>1. PICK e \in Event :
           /\ e.type = "granted" /\ e.graph \in Nat \ {0} /\ e.node \in Nodes
           /\ e.agent \in Agents /\ e.token \in Nat \ {0}
           /\ Grows(e)
           /\ \A t \in 1..(e.token - 1) :
                \E j \in OfType(Positions, "expired") :
                  Item(j) = <<e.graph, e.node>> /\ log[j].token = t
    BY <1>4, GrantSteps DEF ExtendsChain
  <2>2. /\ Positions' = Positions \cup {Len(log) + 1}
        /\ \A i \in Positions : log'[i] = log[i]
        /\ log'[Len(log) + 1] = e
    BY <1>0, <2>1, Appended DEF Grows
  <2>3. \A i \in Positions : log[i].type = "granted" => ~SameLease(log[i], e) /\ ~SameLease(e, log[i])
    BY <2>1 DEF Grows, SameId, SameLease
  <2>4. OfType(Positions, "granted")' = OfType(Positions, "granted") \cup {Len(log) + 1}
        /\ OfType(Positions, "expired") \subseteq OfType(Positions, "expired")'
    BY <2>1, <2>2 DEF OfType
  <2>5. UniqueIds'
    BY <2>1, <2>2, <2>3 DEF LeaseInv, UniqueIds, SameLease, Terminal
  <2>6. Chain'
    <3>1. SUFFICES ASSUME NEW i \in OfType(Positions, "granted")'
                   PROVE  /\ log'[i].graph \in Nat \ {0} /\ log'[i].node \in Nodes /\ log'[i].agent \in Agents
                          /\ log'[i].token \in Nat \ {0}
                          /\ \A t \in 1..(log'[i].token - 1) :
                               \E j \in OfType(Positions, "expired")' :
                                 Item(j)' = Item(i)' /\ log'[j].token = t
      BY DEF Chain
    <3>2. \A j \in OfType(Positions, "expired") :
             j \in OfType(Positions, "expired")' /\ Item(j)' = Item(j) /\ log'[j] = log[j]
      BY <2>2, <2>4 DEF Item, OfType
    <3>3. CASE i \in OfType(Positions, "granted")
      <4>1. log'[i] = log[i] /\ Item(i)' = Item(i)
        BY <2>2, <3>3 DEF Item, OfType
      <4> QED BY <3>2, <3>3, <4>1 DEF LeaseInv, Chain
    <3>4. CASE i = Len(log) + 1
      <4>1. log'[i] = e /\ Item(i)' = <<e.graph, e.node>>
        BY <2>2, <3>4 DEF Item
      <4> QED BY <2>1, <3>2, <4>1
    <3> QED BY <2>4, <3>3, <3>4
  <2>7. EndsWereGranted'
    BY <2>1, <2>2, <2>4 DEF LeaseInv, EndsWereGranted, SameLease, OfType, Terminal
  <2> QED BY <2>5, <2>6, <2>7 DEF LeaseInv
<1> QED BY <1>1, <1>2, <1>3, <1>4

\* A grant was decided on a projection that showed its predecessors completed,
\* by others where the node verifies them.
LEMMA GrantInvKept ==
  ASSUME TypeOK, LeaseInv, FrontierInv, GrantInv,
         log' = log \/ PlainStep \/ EndStep \/ GrantStep
  PROVE  GrantInv'
<1>0. log \in Seq(Event)
  BY DEF TypeOK
\* What supports an old grant stays.
<1>1. ASSUME \A i \in Positions : log'[i] = log[i], NEW i \in Positions, log'[i].type = "granted"
      PROVE  Supported(i)'
  <2>1. log'[i] = log[i] /\ Supported(i)
    BY <1>1 DEF GrantInv, OfType
  <2>2. \A j \in 1..(i - 1) : log'[j] = log[j]
    BY <1>0, <1>1, EventFacts DEF Positions
  <2> QED BY <2>1, <2>2 DEF Supported, Completes
<1>2. CASE log' = log
  <2>1. \A i \in OfType(Positions, "granted")' : i \in Positions /\ log'[i].type = "granted"
    BY <1>2 DEF OfType, Positions
  <2> QED BY <1>1, <1>2, <2>1 DEF GrantInv
<1>3. ASSUME NEW e \in Event, e.type # "granted", log' = Append(log, e)
      PROVE  GrantInv'
  <2>1. /\ Positions' = Positions \cup {Len(log) + 1}
        /\ \A i \in Positions : log'[i] = log[i]
        /\ log'[Len(log) + 1] = e
    BY <1>0, <1>3, Appended
  <2>2. \A i \in OfType(Positions, "granted")' : i \in Positions /\ log'[i].type = "granted"
    BY <1>3, <2>1 DEF OfType
  <2> QED BY <1>1, <2>1, <2>2 DEF GrantInv
<1>4. CASE GrantStep
  <2>1. PICK c \in Coordinators, n \in Nodes, g \in Nat \ {0}, a \in Agents, k \in Nat :
          /\ coordinator[c].pc = "assigning" /\ n \in coordinator[c].todo
          /\ IsVersion(coordinator[c].known, g)
          /\ a \in Feasible(coordinator[c].known, g, n, coordinator[c].at)
          /\ Grows(Granted(g, n, a, k + 1, coordinator[c].at))
    BY <1>4 DEF GrantStep
  <2>2. StateOK(coordinator[c]) /\ coordinator[c].at \in Nat /\ coordinator[c].known \in SUBSET Positions
    BY TypeOfStates DEF StateOK, Coordinator
  <2>3. PICK K \in SUBSET Positions : K = coordinator[c].known
    BY <2>2
  <2>4. g \in Nat /\ k + 1 \in Nat
    OBVIOUS
  <2>5. PICK e \in Event : /\ e = Granted(g, n, a, k + 1, coordinator[c].at)
                           /\ e.type = "granted" /\ e.graph = g /\ e.node = n /\ e.agent = a
    <3> DEFINE d == Granted(g, n, a, k + 1, coordinator[c].at)
    <3>0. a \in Agents
      OBVIOUS
    <3>1. d \in Event /\ d.type = "granted" /\ d.graph = g /\ d.node = n /\ d.agent = a
      BY <2>2, <2>4, <3>0 DEF Event, Types, Blank, Granted
    <3> QED BY <3>1
  <2>6. PICK N \in Nat :
          /\ N - 1 = Len(log) /\ Positions' = Positions \cup {N}
          /\ \A i \in Positions : log'[i] = log[i]
          /\ log'[N] = e
    <3>1. log' = Append(log, e)
      BY <2>1, <2>5 DEF Grows
    <3>2. /\ Len(log) \in Nat
          /\ Positions' = Positions \cup {Len(log) + 1}
          /\ \A i \in Positions : log'[i] = log[i]
          /\ log'[Len(log) + 1] = e
      BY <1>0, <3>1, Appended
    <3>3. Len(log) + 1 \in Nat /\ (Len(log) + 1) - 1 = Len(log)
      BY <3>2
    <3> QED BY <3>2, <3>3, Zenon
  \* What the coordinator knows to be completed.
  <2> DEFINE Finished == {p \in Nodes : CompletedBy(K, g, p) # {}}
  <2>7. Predecessors[n] \subseteq Finished
    <3>1. n \in Ready(K, g)
      BY <2>1, <2>3, <2>4 DEF FrontierInv
    <3> QED BY <3>1, WorkAssumption DEF Ready, IsCompleted
  <2>8. ASSUME NEW p \in Finished
        PROVE  \E j \in K : /\ log[j].type = "completed" /\ log[j].graph = g /\ log[j].node = p
                            /\ 1..j \subseteq K
    <3>1. PICK j \in K : log[j].type = "completed" /\ log[j].graph = g /\ log[j].node = p
      BY <2>8 DEF CompletedBy, OfType
    <3>2. 1..j \subseteq K
      BY <2>1, <2>3, <3>1 DEF FrontierInv, OfType
    <3> QED BY <3>1, <3>2
  <2>9. ASSUME NEW p \in Finished PROVE Predecessors[p] \subseteq Finished
    <3>1. PICK j \in K : /\ log[j].type = "completed" /\ log[j].graph = g /\ log[j].node = p
                        /\ 1..j \subseteq K
      BY <2>8
    <3>2. PICK h \in OfType(Positions, "granted") : h < j /\ SameLease(log[j], log[h])
      BY <3>1 DEF LeaseInv, EndsWereGranted, Terminal
    <3>3. log[h].graph = g /\ log[h].node = p /\ Supported(h) /\ h \in Nat /\ j \in Nat
      BY <3>1, <3>2 DEF SameLease, GrantInv, OfType, Positions
    <3>4. ASSUME NEW q \in Predecessors[p] PROVE q \in Finished
      <4>1. PICK i \in 1..(h - 1) : Completes(i, q, h)
        BY <3>3 DEF Supported
      <4>2. i \in K
        BY <3>1, <3>2, <3>3
      <4>3. log[i].agent \in CompletedBy(K, g, q)
        BY <3>3, <4>1, <4>2 DEF Completes, CompletedBy, OfType
      <4>4. q \in Nodes
        BY WorkAssumption
      <4> QED BY <4>3, <4>4
    <3> QED BY <3>4
  <2>10. VerificationOf[n] \subseteq Finished
    <3>1. Finished \in SUBSET Nodes
      OBVIOUS
    <3> HIDE DEF Finished
    <3> QED BY <2>7, <2>9, <3>1, WorkAssumption
  <2>11. ASSUME NEW p \in Finished
         PROVE  \E j \in 1..(N - 1) : /\ Completes(j, p, N)' /\ log'[j] = log[j]
                                      /\ log[j].agent \in CompletedBy(K, g, p)
    <3>1. PICK j \in K : log[j].type = "completed" /\ log[j].graph = g /\ log[j].node = p
      BY <2>8
    <3>2. j \in Positions /\ log'[j] = log[j] /\ j \in 1..(N - 1)
      BY <1>0, <2>6, EventFacts DEF Positions
    <3>3. log[j].agent \in CompletedBy(K, g, p)
      BY <3>1 DEF CompletedBy, OfType
    <3> QED BY <2>5, <2>6, <3>1, <3>2, <3>3 DEF Completes
  <2>12. Supported(N)'
    <3>1. ASSUME NEW p \in Predecessors[n]
          PROVE  \E j \in 1..(N - 1) : Completes(j, p, N)'
      BY <2>7, <2>11
    <3>2. ASSUME NEW p \in VerificationOf[n]
          PROVE  \E j \in 1..(N - 1) : Completes(j, p, N)' /\ log'[j].agent # a
      <4>1. a \notin CompletedBy(K, g, p)
        BY <2>1, <2>3 DEF Feasible
      <4> QED BY <2>10, <2>11, <4>1
    <3> QED BY <2>5, <2>6, <3>1, <3>2 DEF Supported
  <2>13. ASSUME NEW i \in OfType(Positions, "granted")' PROVE Supported(i)'
    <3>1. CASE i \in Positions
      <4>1. log'[i].type = "granted"
        BY <2>13 DEF OfType
      <4> QED BY <1>1, <2>6, <3>1, <4>1
    <3>2. CASE i = N
      BY <2>12, <3>2
    <3> QED BY <2>6, <3>1, <3>2 DEF OfType
  <2> QED BY <2>13 DEF GrantInv
<1>5. CASE PlainStep
  BY <1>3, <1>5 DEF PlainStep
<1>6. CASE EndStep
  BY <1>3, <1>6 DEF EndStep, Grows, Terminal
<1> QED BY <1>2, <1>4, <1>5, <1>6

\* An item is completed once.
LEMMA OneCompletion ==
  ASSUME TypeOK, LeaseInv,
         NEW i \in OfType(Positions, "completed"), NEW j \in OfType(Positions, "completed"),
         Item(i) = Item(j)
  PROVE  i = j
<1>1. ASSUME NEW x \in OfType(Positions, "completed"), NEW y \in OfType(Positions, "completed"),
             Item(x) = Item(y), log[x].token < log[y].token
      PROVE  FALSE
  <2>1. PICK h \in OfType(Positions, "granted") : SameLease(log[y], log[h])
    BY <1>1 DEF LeaseInv, EndsWereGranted, OfType, Terminal
  <2>2. PICK f \in OfType(Positions, "granted") : SameLease(log[x], log[f])
    BY <1>1 DEF LeaseInv, EndsWereGranted, OfType, Terminal
  <2>3. log[h].token = log[y].token /\ Item(h) = Item(y) /\ log[f].token = log[x].token
    BY <2>1, <2>2 DEF SameLease, Item
  <2>4. log[x].token \in Nat \ {0} /\ log[y].token \in Nat \ {0}
    BY <2>1, <2>2, <2>3 DEF LeaseInv, Chain
  <2>5. log[x].token \in 1..(log[h].token - 1)
    BY <1>1, <2>3, <2>4
  <2>6. PICK z \in OfType(Positions, "expired") : Item(z) = Item(h) /\ log[z].token = log[x].token
    BY <2>5 DEF LeaseInv, Chain
  <2>7. SameLease(log[z], log[x])
    BY <1>1, <2>3, <2>6 DEF SameLease, Item
  <2>8. z \in Positions /\ x \in Positions /\ log[z].type = "expired" /\ log[x].type = "completed"
    BY DEF OfType
  <2> QED BY <2>7, <2>8 DEF LeaseInv, UniqueIds, Terminal
<1>2. log[i].token \in Nat /\ log[j].token \in Nat /\ i \in Positions /\ j \in Positions
      /\ log[i].type = "completed" /\ log[j].type = "completed"
  BY EventFacts DEF TypeOK, OfType, Event
<1>3. log[i].token = log[j].token
  BY <1>1, <1>2
<1>4. SameLease(log[i], log[j])
  BY <1>3 DEF SameLease, Item
<1> QED BY <1>2, <1>4 DEF LeaseInv, UniqueIds, Terminal

-----------------------------------------------------------------------------
\* The invariant.

\* The first log holds no lease.
LEMMA InitLog ==
  ASSUME Init
  PROVE  /\ log \in Seq(Event)
         /\ \A i \in Positions : log[i].type \notin {"granted"} \cup Terminal
<1> DEFINE Plain == {e \in Event : e.type \notin {"granted"} \cup Terminal}
           N == Cardinality(Agents)
<1>1. N \in Nat
  BY FS_CardinalityType, WorkAssumption
<1>2. PICK s \in Presences : log = s \o FirstPlan
  BY DEF Init
<1>3. \A a \in Agents : Presence(a, 0, TRUE) \in Plain
  BY DEF Event, Types, Blank, Presence, Terminal
<1>4. s \in Seq(Plain)
  <2>1. s \in [1..N -> Plain]
    <3>1. s \in [1..N -> {Presence(a, 0, TRUE) : a \in Agents}]
      BY DEF Presences
    <3>2. {Presence(a, 0, TRUE) : a \in Agents} \subseteq Plain
      BY <1>3
    <3> HIDE DEF Plain, N
    <3> QED BY <3>1, <3>2
  <2> HIDE DEF Plain, N
  <2> QED BY <1>1, <2>1
<1>5. Proposed(N, 0, 0) \in Plain /\ Accepted(N, 1, 0) \in Plain
  <2> HIDE DEF N
  <2> QED BY <1>1 DEF Event, Types, Blank, Proposed, Accepted, Terminal
<1>6. FirstPlan \in Seq(Plain)
  <2>1. <<>> \in Seq(Plain) /\ <<Proposed(N, 0, 0), Accepted(N, 1, 0)>> \in Seq(Plain)
    <3> HIDE DEF Plain, N
    <3> QED BY <1>5
  <2> QED BY <2>1 DEF FirstPlan
<1>7. log \in Seq(Plain)
  <2> HIDE DEF Plain
  <2> QED BY <1>2, <1>4, <1>6
<1>8. log \in Seq(Event)
  BY <1>7
<1>9. \A i \in Positions : log[i] \in Plain
  <2> HIDE DEF Plain
  <2> QED BY <1>7 DEF Positions
<1> QED BY <1>8, <1>9

LEMMA InitIInv == Init => IInv
<1> SUFFICES ASSUME Init PROVE IInv
  OBVIOUS
<1>1. /\ log \in Seq(Event)
      /\ \A i \in Positions : log[i].type \notin {"granted"} \cup Terminal
  BY InitLog
<1>2. TypeOK
  <2>1. Len(log) \in Nat /\ now = 0 /\ now \in 0..MaxTime
    BY <1>1, WorkAssumption DEF Init
  <2>2. StateOK(Idle)
    BY <2>1 DEF StateOK, Idle, Coordinator
  <2> QED BY <1>1, <2>1, <2>2 DEF TypeOK, Init, StateOK
<1>3. OfType(Positions, "granted") = {}
  BY <1>1 DEF OfType
<1>4. LeaseInv
  BY <1>1, <1>3 DEF LeaseInv, UniqueIds, Chain, EndsWereGranted
<1>5. FrontierInv
  BY DEF Init, Idle, FrontierInv
<1>6. GrantInv
  BY <1>3 DEF GrantInv
<1> QED BY <1>2, <1>4, <1>5, <1>6 DEF IInv

LEMMA NextIInv == IInv /\ [Next]_vars => IInv'
<1> SUFFICES ASSUME IInv, [Next]_vars PROVE IInv'
  OBVIOUS
<1>1. TypeOK' /\ FrontierInv' /\ (log' = log \/ PlainStep \/ EndStep \/ GrantStep)
  BY Steps DEF IInv
<1>2. LeaseInv' /\ GrantInv'
  BY <1>1, LeaseInvKept, GrantInvKept DEF IInv
<1> QED BY <1>1, <1>2 DEF IInv

LEMMA Invariance == Spec => []IInv
BY InitIInv, NextIInv, PTL DEF Spec

\* The variables stay in their types: what a coordinator knows and works on are
\* positions of the log of the right kind, whatever the others append meanwhile.
THEOREM WorkTypeCorrect == Spec => []TypeOK
<1>1. IInv => TypeOK
  BY DEF IInv
<1> QED BY <1>1, Invariance, PTL

\* assign_ready grants a node only after its predecessors were completed in the
\* same graph, though it decides on a projection that others have outrun.
THEOREM WorkFollowsDependencies == Spec => []DependenciesFirst
<1>1. IInv => DependenciesFirst
  <2>1. SUFFICES ASSUME IInv, NEW i \in OfType(Positions, "granted"),
                        NEW p \in Predecessors[log[i].node]
                 PROVE  IsCompleted(1..(i - 1), log[i].graph, p)
    BY DEF DependenciesFirst
  <2>2. PICK j \in 1..(i - 1) : Completes(j, p, i)
    BY <2>1 DEF IInv, GrantInv, Supported
  <2> QED BY <2>2 DEF Completes, IsCompleted, CompletedBy, OfType
<1> QED BY <1>1, Invariance, PTL

\* WorkerMatcher excludes those who did the work that a node verifies: no one
\* holds a grant to verify his own work, also by a completion that the granting
\* coordinator had not read, for an item is completed once.
THEOREM VerificationIsIndependent == Spec => []VerifierIsIndependent
<1>1. IInv => VerifierIsIndependent
  <2>1. SUFFICES ASSUME IInv, NEW i \in OfType(Positions, "granted"),
                        NEW p \in VerificationOf[log[i].node],
                        NEW k \in OfType(Positions, "completed"),
                        log[k].graph = log[i].graph, log[k].node = p
                 PROVE  log[k].agent # log[i].agent
    BY DEF VerifierIsIndependent, CompletedBy, OfType
  <2>2. PICK j \in 1..(i - 1) : Completes(j, p, i) /\ log[j].agent # log[i].agent
    BY <2>1 DEF IInv, GrantInv, Supported
  <2>3. j \in OfType(Positions, "completed") /\ Item(j) = Item(k)
    <3>1. j \in Positions
      BY <2>1, EventFacts DEF IInv, TypeOK, OfType, Positions
    <3> QED BY <2>1, <2>2, <3>1 DEF Completes, OfType, Item
  <2>4. j = k
    BY <2>1, <2>3, OneCompletion DEF IInv
  <2> QED BY <2>2, <2>4
<1> QED BY <1>1, Invariance, PTL

-----------------------------------------------------------------------------
\* Ownership.

\* What an append of e does to the leases in the log.
LEMMA LeasesOfLog ==
  ASSUME log \in Seq(Event), NEW e \in Event, log' = Append(log, e)
  PROVE  /\ e.type # "granted" => Grants' = Grants
         /\ e.type = "granted" =>
              Grants' = Grants \cup {[item |-> <<e.graph, e.node>>, token |-> e.token,
                                     agent |-> e.agent]}
         /\ \A type \in Terminal : e.type # type => Ends(type)' = Ends(type)
         /\ \A type \in Terminal : e.type = type =>
              Ends(type)' = Ends(type) \cup {<<<<e.graph, e.node>>, e.token>>}
<1>1. PICK N : /\ Positions' = Positions \cup {N}
               /\ \A i \in Positions : log'[i] = log[i]
               /\ log'[N] = e
  BY Appended
<1>2. \A type : /\ e.type # type => OfType(Positions, type)' = OfType(Positions, type)
                /\ e.type = type => OfType(Positions, type)' = OfType(Positions, type) \cup {N}
  BY <1>1 DEF OfType
<1>3. \A type : OfType(Positions, type) \subseteq Positions
  BY DEF OfType
<1>4. \A i \in Positions : Item(i)' = Item(i) /\ log'[i].token = log[i].token
                            /\ log'[i].agent = log[i].agent
  BY <1>1 DEF Item
<1>5. Item(N)' = <<e.graph, e.node>>
  BY <1>1 DEF Item
<1>6. CASE e.type # "granted"
  <2>1. OfType(Positions, "granted")' = OfType(Positions, "granted")
    BY <1>2, <1>6
  <2>2. Grants' = Grants
    BY <1>3, <1>4, <2>1 DEF Grants
  <2>3. ASSUME NEW type \in Terminal, e.type # type PROVE Ends(type)' = Ends(type)
    <3>1. OfType(Positions, type)' = OfType(Positions, type)
      BY <1>2, <2>3
    <3> QED BY <1>3, <1>4, <3>1 DEF Ends
  <2>4. ASSUME NEW type \in Terminal, e.type = type
        PROVE  Ends(type)' = Ends(type) \cup {<<<<e.graph, e.node>>, e.token>>}
    <3>1. OfType(Positions, type)' = OfType(Positions, type) \cup {N}
      BY <1>2, <2>4
    <3>2. \A i \in OfType(Positions, type) :
            <<Item(i)', log'[i].token>> = <<Item(i), log[i].token>>
      BY <1>3, <1>4
    <3>3. <<Item(N)', log'[N].token>> = <<<<e.graph, e.node>>, e.token>>
      BY <1>1, <1>5
    <3>4. Ends(type)' = {<<Item(i)', log'[i].token>> : i \in OfType(Positions, type)'}
      BY DEF Ends
    <3>5. ASSUME NEW x
          PROVE x \in Ends(type)' <=> x \in Ends(type) \/ x = <<<<e.graph, e.node>>, e.token>>
      BY <3>1, <3>2, <3>3, <3>4 DEF Ends
    <3> QED BY <3>5
  <2> QED BY <1>6, <2>2, <2>3, <2>4
<1>7. CASE e.type = "granted"
  <2>1. OfType(Positions, "granted")' = OfType(Positions, "granted") \cup {N}
    BY <1>2, <1>7
  <2>2. Grants' = Grants \cup {[item |-> <<e.graph, e.node>>, token |-> e.token, agent |-> e.agent]}
    <3> DEFINE lease(i) == [item |-> Item(i), token |-> log[i].token, agent |-> log[i].agent]
               new == [item |-> <<e.graph, e.node>>, token |-> e.token, agent |-> e.agent]
    <3>1. \A i \in OfType(Positions, "granted") : lease(i)' = lease(i)
      BY <1>3, <1>4
    <3>2. lease(N)' = new
      BY <1>1, <1>5
    <3>3. Grants' = {lease(i)' : i \in OfType(Positions, "granted")'}
          /\ Grants = {lease(i) : i \in OfType(Positions, "granted")}
      BY DEF Grants
    <3> HIDE DEF lease, new
    <3>4. ASSUME NEW x PROVE x \in Grants' <=> x \in Grants \/ x = new
      BY <2>1, <3>1, <3>2, <3>3
    <3> QED BY <3>4 DEF new
  <2>3. ASSUME NEW type \in Terminal PROVE e.type # type /\ Ends(type)' = Ends(type)
    <3>1. e.type # type
      BY <1>7 DEF Terminal
    <3>2. OfType(Positions, type)' = OfType(Positions, type)
      BY <1>2, <3>1
    <3> QED BY <1>3, <1>4, <3>1, <3>2 DEF Ends
  <2> QED BY <1>7, <2>2, <2>3
<1> QED BY <1>6, <1>7

LEMMA OwnershipStep ==
  ASSUME IInv, log' = log \/ PlainStep \/ EndStep \/ GrantStep
  PROVE  Ownership!Next \/ UNCHANGED Ownership!vars
<1>0. TypeOK /\ LeaseInv /\ FrontierInv /\ log \in Seq(Event)
  BY DEF IInv, TypeOK
<1>1. CASE log' = log
  BY <1>1 DEF Ownership!vars, Grants, Ends, OfType, Positions, Item
<1>2. CASE PlainStep
  <2>1. PICK e \in Event : e.type \notin {"granted"} \cup Terminal /\ log' = Append(log, e)
    BY <1>2 DEF PlainStep
  <2>2. Grants' = Grants /\ Ends("expired")' = Ends("expired") /\ Ends("completed")' = Ends("completed")
    BY <1>0, <2>1, LeasesOfLog DEF Terminal
  <2> QED BY <2>2 DEF Ownership!vars
<1>3. CASE EndStep
  <2>1. PICK h \in OfType(Positions, "granted"), e \in Event :
          e.type \in Terminal /\ SameLease(e, log[h]) /\ Grows(e)
    BY <1>3 DEF EndStep
  <2> DEFINE g == [item |-> Item(h), token |-> log[h].token, agent |-> log[h].agent]
             end == <<Item(h), log[h].token>>
  <2>2. g \in Grants /\ <<g.item, g.token>> = end
    BY DEF Grants
  <2>3. end = <<<<e.graph, e.node>>, e.token>>
    BY <2>1 DEF SameLease, Item
  <2>4. end \notin Ends("expired") \cup Ends("completed")
    <3>1. ASSUME NEW i \in Positions, log[i].type \in Terminal, <<Item(i), log[i].token>> = end
          PROVE FALSE
      <4>1. SameLease(log[i], e)
        BY <2>1, <3>1 DEF Item, SameLease
      <4> QED BY <2>1, <3>1, <4>1 DEF Grows, SameId
    <3> HIDE DEF end
    <3> QED BY <3>1 DEF Ends, OfType, Terminal
  <2>5. Ownership!Open(g)
    BY <2>2, <2>4 DEF Ownership!Open
  <2>6. /\ Grants' = Grants
        /\ e.type = "expired" => Ends("expired")' = Ends("expired") \cup {end}
        /\ e.type # "expired" => Ends("expired")' = Ends("expired")
        /\ e.type = "completed" => Ends("completed")' = Ends("completed") \cup {end}
        /\ e.type # "completed" => Ends("completed")' = Ends("completed")
    BY <1>0, <2>1, <2>3, LeasesOfLog DEF Terminal, Grows
  <2>7. CASE e.type = "expired"
    <3>1. Ownership!Expire(g)
      BY <2>2, <2>5, <2>6, <2>7 DEF Ownership!Expire
    <3> QED BY <2>2, <3>1 DEF Ownership!Next
  <2>8. CASE e.type = "completed"
    <3>1. Ownership!Complete(g)
      BY <2>2, <2>5, <2>6, <2>8 DEF Ownership!Complete
    <3> QED BY <2>2, <3>1 DEF Ownership!Next
  <2> QED BY <2>1, <2>7, <2>8 DEF Terminal
<1>4. CASE GrantStep
  <2>1. PICK e \in Event :
           /\ e.type = "granted" /\ e.graph \in Nat \ {0} /\ e.node \in Nodes
           /\ e.agent \in Agents /\ e.token \in Nat \ {0}
           /\ Grows(e) /\ ExtendsChain(e)
    BY <1>0, <1>4, GrantSteps
  <2> DEFINE g == [item |-> <<e.graph, e.node>>, token |-> e.token, agent |-> e.agent]
  <2>2. /\ Grants' = Grants \cup {g}
        /\ Ends("expired")' = Ends("expired") /\ Ends("completed")' = Ends("completed")
    <3>1. log' = Append(log, e) /\ e.type = "granted"
      BY <2>1 DEF Grows
    <3>2. Grants' = Grants \cup {g}
      BY <1>0, <3>1, LeasesOfLog
    <3>3. \A type \in Terminal : Ends(type)' = Ends(type)
      <4>1. \A type \in Terminal : e.type # type
        BY <3>1 DEF Terminal
      <4> QED BY <1>0, <3>1, <4>1, LeasesOfLog
    <3> QED BY <3>2, <3>3 DEF Terminal
  <2>3. g.item \in (Nat \ {0}) \X Nodes /\ g.agent \in Agents /\ g.token \in Nat \ {0}
    BY <2>1
  <2>4. ASSUME NEW h \in Grants, h.item = g.item
        PROVE  h.token < g.token /\ <<h.item, h.token>> \in Ends("expired")
    <3>1. PICK i \in OfType(Positions, "granted") :
            h = [item |-> Item(i), token |-> log[i].token, agent |-> log[i].agent]
      BY DEF Grants
    <3>2. Item(i) = <<e.graph, e.node>> /\ h.token = log[i].token
      BY <2>4, <3>1
    <3>3. log[i].token \in 1..(e.token - 1)
      BY <2>1, <3>2 DEF ExtendsChain
    <3>4. PICK j \in OfType(Positions, "expired") :
            Item(j) = <<e.graph, e.node>> /\ log[j].token = log[i].token
      BY <2>1, <3>3 DEF ExtendsChain
    <3>5. <<h.item, h.token>> \in Ends("expired")
      BY <2>4, <3>2, <3>4 DEF Ends
    <3> QED BY <2>1, <3>2, <3>3, <3>5
  <2>5. Ownership!Grant
    BY <2>2, <2>3, <2>4 DEF Ownership!Grant
  <2> QED BY <2>5 DEF Ownership!Next
<1> QED BY <1>1, <1>2, <1>3, <1>4

\* The log of racing coordinators keeps the promise of WorkOwnership: grants of an
\* item carry growing tokens, each after the expiry of all before it, a lease ends
\* once, and a completed item is never granted again.
THEOREM CoordinationImplementsOwnership == Spec => ImplementsOwnership
<1>1. Init => Ownership!Init
  <2>1. SUFFICES ASSUME Init PROVE Ownership!Init
    OBVIOUS
  <2>2. \A i \in Positions : log[i].type \notin {"granted"} \cup Terminal
    BY <2>1, InitLog
  <2>3. \A type \in {"granted"} \cup Terminal : OfType(Positions, type) = {}
    BY <2>2 DEF OfType
  <2> QED BY <2>3 DEF Ownership!Init, Grants, Ends, Terminal
<1>2. IInv /\ [Next]_vars => [Ownership!Next]_(Ownership!vars)
  <2>1. SUFFICES ASSUME IInv, [Next]_vars PROVE Ownership!Next \/ UNCHANGED Ownership!vars
    OBVIOUS
  <2>2. log' = log \/ PlainStep \/ EndStep \/ GrantStep
    BY <2>1, Steps DEF IInv
  <2> QED BY <2>1, <2>2, OwnershipStep
<1> QED BY <1>1, <1>2, Invariance, PTL DEF Spec, ImplementsOwnership, Ownership!Spec

-----------------------------------------------------------------------------
\* One coordinator that reports only what suits: the log can always be replayed.

\* The commands of one coordinator come one after the other, and complete is called
\* with passing work of an active graph only, record_presence with what is present.
Serialized == (\A c, d \in Coordinators : c = d) /\ Reports = {}

\* The commands that have not read the log, or will read it again.
Calm == {"idle", "proposing", "validating"}

\* What a command reloaded still lets it do what is left to do.
Purpose(s) ==
  /\ s.pc = "admitting" =>
       IsVersion(s.known, s.base) /\ \A i \in OfType(s.known, "trigger") : i <= s.cut
  /\ s.pc = "assigning" => \E g \in Nat : GraphIsActive(s.known, g)
  /\ s.pc = "completing" =>
       s.verdict /\ \E i \in ActiveLeases(s.known) :
         s.todo = {i} /\ s.at < Expiry(log[i]) /\ GraphIsActive(s.known, log[i].graph)
  /\ s.pc = "expiring" => \A i \in s.todo : i \in ActiveLeases(s.known) /\ Expiry(log[i]) <= s.at
  /\ s.pc = "invalidating" =>
       \E g \in Nat, i \in OfType(s.known, "trigger") :
         s.todo = {i} /\ GraphIsActive(s.known, g) /\ i > CutOf(s.known, g)
  /\ s.pc = "recording" => s.todo = {}

\* Only triggers came since the reload, and nothing is later than its clock.
Current(s) ==
  /\ \A i \in Positions : i \in s.known \/ log[i].type = "trigger"
  /\ \A i \in Positions : log[i].at <= s.at
  /\ Purpose(s)

LogInv ==
  Replayable /\ CapacityIsKept /\ \A i \in Positions : log[i].at <= now

SerialInv ==
  LogInv /\ \A c \in Coordinators : coordinator[c].pc \in Calm \/ Current(coordinator[c])

-----------------------------------------------------------------------------
\* What a projection says survives an append, and the triggers it has not read.

LEMMA TypesKept ==
  ASSUME NEW K, NEW L, K \subseteq L, \A i \in K : log'[i] = log[i],
         NEW type, \A i \in L : i \in K \/ log'[i].type # type
  PROVE  OfType(L, type)' = OfType(K, type) /\ OfType(K, type) \subseteq K
BY DEF OfType

LEMMA GraphsKept ==
  ASSUME NEW K, NEW L, K \subseteq L, \A i \in K : log'[i] = log[i],
         \A i \in L : i \in K \/ log'[i].type \notin {"accepted", "invalidated"},
         NEW g
  PROVE  /\ IsVersion(L, g)' <=> IsVersion(K, g)
         /\ GraphIsActive(L, g)' <=> GraphIsActive(K, g)
         /\ CutOf(L, g)' = CutOf(K, g) \/ ~GraphIsActive(K, g)
<1>1. OfType(L, "accepted")' = OfType(K, "accepted") /\ OfType(K, "accepted") \subseteq K
  BY TypesKept
<1>2. OfType(L, "invalidated")' = OfType(K, "invalidated") /\ OfType(K, "invalidated") \subseteq K
  BY TypesKept
<1>3. IsVersion(L, g)' <=> IsVersion(K, g)
  BY <1>1 DEF IsVersion
<1>4. GraphIsActive(L, g)' <=> GraphIsActive(K, g)
  BY <1>2, <1>3 DEF GraphIsActive
<1>5. ASSUME GraphIsActive(K, g) PROVE CutOf(L, g)' = CutOf(K, g)
  <2>1. PICK j \in OfType(K, "accepted") : log[j].graph = g
    BY <1>5 DEF GraphIsActive, IsVersion
  <2> DEFINE P(i) == i \in OfType(K, "accepted") /\ log[i].graph = g
             Q(i) == i \in OfType(K, "accepted") /\ log'[i].graph = g
  <2>2. \A i : P(i) <=> Q(i)
    BY <1>1
  <2>3. (CHOOSE i : P(i)) = (CHOOSE i : Q(i))
    BY <2>2
  <2>4. P(CHOOSE i : P(i))
    BY <2>1
  <2>5. (CHOOSE i \in OfType(K, "accepted") : log[i].graph = g) = (CHOOSE i : P(i))
    OBVIOUS
  <2>6. (CHOOSE i \in OfType(L, "accepted")' : log'[i].graph = g) = (CHOOSE i : Q(i))
    BY <1>1
  <2> DEFINE h == CHOOSE i : P(i)
  <2>7. CutOf(K, g) = log[h].ref /\ CutOf(L, g)' = log'[h].ref
    BY <2>3, <2>5, <2>6 DEF CutOf
  <2>8. h \in K
    BY <1>1, <2>4
  <2> HIDE DEF h
  <2> QED BY <2>7, <2>8
<1> QED BY <1>3, <1>4, <1>5

LEMMA LeasesKept ==
  ASSUME NEW K, NEW L, K \subseteq L, \A i \in K : log'[i] = log[i],
         \A i \in L : i \in K \/ log'[i].type \notin {"granted"} \cup Terminal
  PROVE  /\ ActiveLeases(L)' = ActiveLeases(K)
         /\ \A a : LeasedTo(L, a)' = LeasedTo(K, a)
         /\ \A g, n : IsLeased(L, g, n)' <=> IsLeased(K, g, n)
<1>1. OfType(L, "granted")' = OfType(K, "granted") /\ OfType(K, "granted") \subseteq K
  BY TypesKept
<1>2. ASSUME NEW i \in K PROVE Ended(L, log[i])' <=> Ended(K, log[i])
  BY <1>2 DEF Ended, SameLease
<1>3. ActiveLeases(L)' = ActiveLeases(K) /\ ActiveLeases(K) \subseteq K
  BY <1>1, <1>2 DEF ActiveLeases
<1>4. ASSUME NEW a PROVE LeasedTo(L, a)' = LeasedTo(K, a)
  BY <1>3 DEF LeasedTo
<1>5. ASSUME NEW g, NEW n PROVE IsLeased(L, g, n)' <=> IsLeased(K, g, n)
  BY <1>3 DEF IsLeased
<1> QED BY <1>3, <1>4, <1>5

\* What apply accepts on a projection, it accepts after triggers that the projection
\* has not read; a plan is accepted at the head only.
LEMMA LegalKept ==
  ASSUME NEW K, NEW L, K \subseteq L, \A i \in K : log'[i] = log[i],
         \A i \in L : i \in K \/ log'[i].type = "trigger",
         NEW e, L = K \/ e.type # "accepted", Legal(K, e)
  PROVE  Legal(L, e)'
<1>1. \A type : type # "trigger" \/ L = K =>
        OfType(L, type)' = OfType(K, type) /\ OfType(K, type) \subseteq K
  BY DEF OfType
<1>2. \A i \in L : i \in K \/ log'[i].type \notin {"accepted", "invalidated"}
  OBVIOUS
<1>3. \A i \in L : i \in K \/ log'[i].type \notin {"granted"} \cup Terminal
  BY DEF Terminal
<1>4. /\ \A g : IsVersion(L, g)' <=> IsVersion(K, g)
      /\ \A g : GraphIsActive(L, g)' <=> GraphIsActive(K, g)
      /\ \A g : CutOf(L, g)' = CutOf(K, g) \/ ~GraphIsActive(K, g)
  BY <1>2, GraphsKept
<1>5. /\ ActiveLeases(L)' = ActiveLeases(K) /\ ActiveLeases(K) \subseteq K
      /\ \A a : LeasedTo(L, a)' = LeasedTo(K, a)
      /\ \A g, n : IsLeased(L, g, n)' <=> IsLeased(K, g, n)
  BY <1>3, LeasesKept DEF ActiveLeases, OfType
<1>6. CASE e.type = "presence"
  BY <1>1, <1>6 DEF Legal
<1>7. CASE e.type = "accepted"
  BY <1>1, <1>4, <1>7 DEF Legal, LegalPlan
<1>8. CASE e.type = "granted"
  <2>1. \A g, n : CompletedBy(L, g, n)' = CompletedBy(K, g, n)
    BY <1>1 DEF CompletedBy
  <2>2. \A g, n, k : IsHighestToken(L, g, n, k)' <=> IsHighestToken(K, g, n, k)
    <3>1. SUFFICES ASSUME NEW g, NEW n, NEW k
                   PROVE  IsHighestToken(L, g, n, k)' <=> IsHighestToken(K, g, n, k)
      OBVIOUS
    <3> DEFINE old == {j \in OfType(K, "granted") : log[j].graph = g /\ log[j].node = n}
               new == {j \in OfType(L, "granted")' : log'[j].graph = g /\ log'[j].node = n}
    <3>2. new = old /\ \A i \in old : log'[i] = log[i]
      BY <1>1
    <3>3. {log'[i].token : i \in new} = {log[i].token : i \in old}
      <4> HIDE DEF new, old
      <4> QED BY <3>2
    <3> QED BY <3>3 DEF IsHighestToken
  <2>3. \A a, t : IsAvailable(L, a, t)' <=> IsAvailable(K, a, t)
    BY <1>1 DEF IsAvailable
  <2>4. \A g, n : IsCompleted(L, g, n)' <=> IsCompleted(K, g, n)
    BY <2>1 DEF IsCompleted
  <2>5. LegalGrant(K, e)
    BY <1>8 DEF Legal
  <2>6. LegalGrant(L, e)'
    BY <1>4, <1>5, <2>1, <2>2, <2>3, <2>4, <2>5 DEF LegalGrant
  <2> QED BY <1>8, <2>6 DEF Legal
<1>9. CASE e.type = "expired"
  <2>1. \E i \in ActiveLeases(K) : SameLease(log[i], e) /\ Expiry(log[i]) <= e.at
    BY <1>9 DEF Legal
  <2>2. \E i \in ActiveLeases(L)' : SameLease(log'[i], e) /\ Expiry(log'[i]) <= e.at
    BY <1>5, <2>1
  <2> QED BY <1>9, <2>2 DEF Legal, SameLease, Expiry
<1>10. CASE e.type = "completed"
  <2>1. LegalCompletion(K, e)
    BY <1>10 DEF Legal
  <2>2. PICK i \in ActiveLeases(K) :
          SameLease(log[i], e) /\ log[i].at <= e.at /\ e.at < Expiry(log[i])
    BY <2>1 DEF LegalCompletion
  <2>3. i \in ActiveLeases(L)' /\ log'[i] = log[i]
    BY <1>5
  <2>4. LegalCompletion(L, e)'
    BY <1>4, <2>1, <2>2, <2>3 DEF LegalCompletion, SameLease, Expiry
  <2> QED BY <1>10, <2>4 DEF Legal
<1>11. CASE e.type = "invalidated"
  <2>1. LegalInvalidation(K, e)
    BY <1>11 DEF Legal
  <2>2. OfType(K, "trigger") \subseteq OfType(L, "trigger")'
    BY DEF OfType
  <2>3. LegalInvalidation(L, e)'
    BY <1>4, <2>1, <2>2 DEF LegalInvalidation
  <2> QED BY <1>11, <2>3 DEF Legal
<1>12. CASE e.type \notin {"presence", "accepted", "granted", "expired", "completed", "invalidated"}
  BY <1>12 DEF Legal
<1> QED BY <1>6, <1>7, <1>8, <1>9, <1>10, <1>11, <1>12

\* An event that can be replayed: apply accepts it on a projection that lacks triggers
\* at most.
Lawful(e) ==
  /\ log' = Append(log, e) /\ e.at <= now
  /\ \E K \in SUBSET Positions :
       /\ Legal(K, e) /\ (K = Positions \/ e.type # "accepted")
       /\ \A i \in Positions : i \in K \/ log[i].type = "trigger"

\* The leases of an agent are a finite set.
LEMMA LeasesAreFinite ==
  ASSUME TypeOK, NEW a
  PROVE  /\ IsFiniteSet(LeasedTo(Positions, a))
         /\ Cardinality(LeasedTo(Positions, a)) \in Nat
<1>1. Len(log) \in Nat
  BY DEF TypeOK
<1>2. IsFiniteSet(Positions)
  BY <1>1, FS_Interval DEF Positions
<1>3. LeasedTo(Positions, a) \subseteq Positions
  BY DEF LeasedTo, ActiveLeases, OfType
<1>4. IsFiniteSet(LeasedTo(Positions, a))
  BY <1>2, <1>3, FS_Subset
<1> QED BY <1>4, FS_CardinalityType

\* The log stays replayable.
LEMMA LawfulKeepsReplayable ==
  ASSUME TypeOK, Replayable, NEW e \in Event, Lawful(e)
  PROVE  Replayable'
<1>1. /\ log \in Seq(Event) /\ log' = Append(log, e)
  BY DEF TypeOK, Lawful
<1>2. /\ Len(log) \in Nat
      /\ Positions' = Positions \cup {Len(log) + 1}
      /\ \A i \in Positions : log'[i] = log[i]
      /\ log'[Len(log) + 1] = e
  BY <1>1, Appended
<1>3. ASSUME NEW i \in Positions, NEW d, d = log[i], NEW K, K = 1..(i - 1)
      PROVE  Legal(K, d)'
  <2>1. Legal(K, d)
    BY <1>3 DEF Replayable
  <2>2. \A j \in K : log'[j] = log[j]
    BY <1>2, <1>3 DEF Positions
  <2> QED BY <2>1, <2>2, LegalKept
<1>4. ASSUME NEW K, K = Positions
      PROVE  Legal(K, e)'
  <2>1. PICK J \in SUBSET Positions :
          /\ Legal(J, e) /\ (J = Positions \/ e.type # "accepted")
          /\ \A i \in Positions : i \in J \/ log[i].type = "trigger"
    BY DEF Lawful
  <2>2. J \subseteq K /\ (\A i \in J : log'[i] = log[i]) /\ (K = J \/ e.type # "accepted")
    BY <1>2, <1>4, <2>1
  <2>3. \A i \in K : i \in J \/ log'[i].type = "trigger"
    BY <1>2, <1>4, <2>1
  <2> QED BY <2>1, <2>2, <2>3, LegalKept
<1>5. ASSUME NEW i \in Positions', NEW d, d = log'[i], NEW K, K = 1..(i - 1)
      PROVE  Legal(K, d)'
  <2>1. CASE i \in Positions
    BY <1>2, <1>3, <1>5, <2>1
  <2>2. CASE i = Len(log) + 1
    <3>1. K = Positions /\ d = e
      BY <1>2, <1>5, <2>2 DEF Positions
    <3> QED BY <1>4, <3>1
  <2> QED BY <1>2, <2>1, <2>2
<1> QED BY <1>5 DEF Replayable

\* The agents stay within their capacity.
LEMMA LawfulKeepsCapacity ==
  ASSUME TypeOK, CapacityIsKept, NEW e \in Event, Lawful(e)
  PROVE  CapacityIsKept'
<1>1. /\ log \in Seq(Event) /\ log' = Append(log, e)
  BY DEF TypeOK, Lawful
<1>2. /\ Len(log) \in Nat
      /\ Positions' = Positions \cup {Len(log) + 1}
      /\ \A i \in Positions : log'[i] = log[i]
      /\ log'[Len(log) + 1] = e
  BY <1>1, Appended
<1> SUFFICES ASSUME NEW a \in Agents
             PROVE  Cardinality(LeasedTo(Positions, a)') <= Capacity
  BY DEF CapacityIsKept
<1>3. /\ IsFiniteSet(LeasedTo(Positions, a))
      /\ Cardinality(LeasedTo(Positions, a)) \in Nat
  BY LeasesAreFinite
<1>4. Cardinality(LeasedTo(Positions, a)) <= Capacity /\ Capacity \in Nat
  BY WorkAssumption DEF CapacityIsKept
<1>5. ASSUME NEW i \in LeasedTo(Positions, a)'
      PROVE  \/ i \in LeasedTo(Positions, a)
             \/ i = Len(log) + 1 /\ e.type = "granted" /\ e.agent = a
  <2>1. i \in Positions' /\ log'[i].type = "granted" /\ log'[i].agent = a
        /\ ~\E j \in Positions' : log'[j].type \in Terminal /\ SameLease(log'[j], log'[i])
    BY DEF LeasedTo, ActiveLeases, OfType, Ended, SameLease, Terminal
  <2>2. CASE i \in Positions
    <3>1. log'[i] = log[i] /\ ~\E j \in Positions : log[j].type \in Terminal /\ SameLease(log[j], log[i])
      BY <1>2, <2>1, <2>2 DEF SameLease
    <3> QED BY <2>1, <2>2, <3>1 DEF LeasedTo, ActiveLeases, OfType, Ended
  <2>3. CASE i = Len(log) + 1
    BY <1>2, <2>1, <2>3
  <2> QED BY <1>2, <2>1, <2>2, <2>3
<1>6. CASE e.type = "granted" /\ e.agent = a
  <2>1. PICK K \in SUBSET Positions :
          Legal(K, e) /\ \A i \in Positions : i \in K \/ log[i].type = "trigger"
    BY DEF Lawful
  <2>2. LeasedTo(K, a) = LeasedTo(Positions, a)
    <3>1. OfType(K, "granted") = OfType(Positions, "granted")
      BY <2>1 DEF OfType
    <3>2. \A i \in Positions : Ended(K, log[i]) <=> Ended(Positions, log[i])
      BY <2>1 DEF Ended, Terminal
    <3> QED BY <3>1, <3>2 DEF LeasedTo, ActiveLeases, OfType
  <2>3. Cardinality(LeasedTo(Positions, a)) < Capacity
    <3>1. LegalGrant(K, e)
      BY <1>6, <2>1 DEF Legal
    <3>2. Cardinality(LeasedTo(K, e.agent)) < Capacity
      BY <3>1 DEF LegalGrant
    <3> QED BY <1>6, <2>2, <3>2
  <2> DEFINE more == LeasedTo(Positions, a) \cup {Len(log) + 1}
  <2>4. IsFiniteSet(more) /\ Cardinality(more) <= Cardinality(LeasedTo(Positions, a)) + 1
    <3>1. ASSUME NEW S, NEW x, IsFiniteSet(S), Cardinality(S) \in Nat
          PROVE  IsFiniteSet(S \cup {x}) /\ Cardinality(S \cup {x}) <= Cardinality(S) + 1
      BY <3>1, FS_AddElement
    <3> QED BY <1>3, <3>1
  <2>5. LeasedTo(Positions, a)' \subseteq more
    BY <1>5
  <2> HIDE DEF more
  <2>6. /\ IsFiniteSet(LeasedTo(Positions, a)')
        /\ Cardinality(LeasedTo(Positions, a)') <= Cardinality(more)
    BY <2>4, <2>5, FS_Subset
  <2>7. Cardinality(more) \in Nat /\ Cardinality(LeasedTo(Positions, a)') \in Nat
    BY <2>4, <2>6, FS_CardinalityType
  <2> QED BY <1>3, <1>4, <2>3, <2>4, <2>6, <2>7
<1>7. CASE ~(e.type = "granted" /\ e.agent = a)
  <2>1. LeasedTo(Positions, a)' \subseteq LeasedTo(Positions, a)
    BY <1>5, <1>7
  <2>2. /\ IsFiniteSet(LeasedTo(Positions, a)')
        /\ Cardinality(LeasedTo(Positions, a)') <= Cardinality(LeasedTo(Positions, a))
    BY <1>3, <2>1, FS_Subset
  <2>3. Cardinality(LeasedTo(Positions, a)') \in Nat
    BY <2>2, FS_CardinalityType
  <2> QED BY <1>3, <1>4, <2>2, <2>3
<1> QED BY <1>6, <1>7

LEMMA LogInvKept ==
  ASSUME TypeOK, LogInv, now' \in Nat, now <= now',
         log' = log \/ \E e \in Event : Lawful(e)
  PROVE  LogInv'
<1>0. log \in Seq(Event) /\ now \in Nat /\ \A i \in Positions : log[i].at \in Nat
  BY EventFacts DEF TypeOK, Event
<1>1. CASE log' = log
  <2>1. Positions' = Positions
    BY <1>1 DEF Positions
  <2>2. \A i \in Positions' : log'[i].at <= now'
    BY <1>0, <1>1, <2>1 DEF LogInv
  <2>3. ASSUME NEW K, NEW d, Legal(K, d) PROVE Legal(K, d)'
    <3>1. \A i \in K : log'[i] = log[i]
      BY <1>1
    <3> QED BY <2>3, <3>1, LegalKept
  <2>4. Replayable'
    <3>1. ASSUME NEW i \in Positions, NEW d, d = log[i], NEW K, K = 1..(i - 1)
          PROVE  Legal(K, d)'
      BY <2>3, <3>1 DEF LogInv, Replayable
    <3> QED BY <1>1, <2>1, <3>1 DEF Replayable
  <2>5. ASSUME NEW a \in Agents PROVE LeasedTo(Positions, a)' = LeasedTo(Positions, a)
    BY <1>1, <2>1 DEF LeasedTo, ActiveLeases, OfType, Ended, SameLease
  <2>6. CapacityIsKept'
    BY <2>5 DEF LogInv, CapacityIsKept
  <2> QED BY <2>2, <2>4, <2>6 DEF LogInv
<1>2. ASSUME NEW e \in Event, Lawful(e) PROVE LogInv'
  <2>1. Replayable' /\ CapacityIsKept'
    BY <1>2, LawfulKeepsReplayable, LawfulKeepsCapacity DEF LogInv
  <2>2. log' = Append(log, e) /\ e.at <= now /\ e.at \in Nat
    BY <1>2 DEF Lawful, Event
  <2>3. /\ Positions' = Positions \cup {Len(log) + 1}
        /\ \A i \in Positions : log'[i] = log[i]
        /\ log'[Len(log) + 1] = e
    BY <1>0, <2>2, Appended
  <2>4. ASSUME NEW i \in Positions' PROVE log'[i].at <= now'
    <3>1. CASE i \in Positions
      <4>1. log'[i].at = log[i].at /\ log[i].at <= now /\ log[i].at \in Nat
        BY <1>0, <2>3, <3>1 DEF LogInv
      <4> QED BY <1>0, <4>1
    <3>2. CASE i = Len(log) + 1
      BY <1>0, <2>2, <2>3, <3>2
    <3> QED BY <2>3, <3>1, <3>2
  <2> QED BY <2>1, <2>4 DEF LogInv
<1> QED BY <1>1, <1>2

-----------------------------------------------------------------------------
\* What a command may still do.

LEMMA PurposeKept ==
  ASSUME NEW s, s.known \subseteq Positions, \A i \in Positions : log'[i] = log[i], Purpose(s)
  PROVE  Purpose(s)'
<1> DEFINE K == s.known
<1>1. K \subseteq K /\ \A i \in K : log'[i] = log[i]
  OBVIOUS
<1>2. \A type : OfType(K, type)' = OfType(K, type) /\ OfType(K, type) \subseteq K
  BY <1>1 DEF OfType
<1>3. \A g : /\ IsVersion(K, g)' <=> IsVersion(K, g)
             /\ GraphIsActive(K, g)' <=> GraphIsActive(K, g)
             /\ CutOf(K, g)' = CutOf(K, g) \/ ~GraphIsActive(K, g)
  <2> HIDE DEF K
  <2> QED BY <1>1, GraphsKept
<1>4. ActiveLeases(K)' = ActiveLeases(K) /\ ActiveLeases(K) \subseteq K
  <2> HIDE DEF K
  <2> QED BY <1>1, LeasesKept DEF ActiveLeases, OfType
<1>5. \A i \in ActiveLeases(K) : log'[i] = log[i]
  BY <1>1, <1>4
<1>6. s.pc = "admitting" =>
        IsVersion(s.known, s.base)' /\ \A i \in OfType(s.known, "trigger")' : i <= s.cut
  BY <1>2, <1>3 DEF Purpose
<1>7. s.pc = "assigning" => \E g \in Nat : GraphIsActive(s.known, g)'
  BY <1>3 DEF Purpose
<1>8. s.pc = "completing" =>
        s.verdict /\ \E i \in ActiveLeases(s.known)' :
          s.todo = {i} /\ s.at < Expiry(log'[i]) /\ GraphIsActive(s.known, log[i].graph)'
  <2> SUFFICES ASSUME s.pc = "completing"
               PROVE  s.verdict /\ \E i \in ActiveLeases(s.known)' :
                 s.todo = {i} /\ s.at < Expiry(log'[i]) /\ GraphIsActive(s.known, log[i].graph)'
    OBVIOUS
  <2>1. PICK i \in ActiveLeases(K) :
          s.todo = {i} /\ s.at < Expiry(log[i]) /\ GraphIsActive(K, log[i].graph)
    BY DEF Purpose
  <2>2. PICK g : g = log[i].graph
    OBVIOUS
  <2>3. i \in ActiveLeases(K)' /\ log'[i] = log[i] /\ g = log'[i].graph /\ GraphIsActive(K, g)'
    BY <1>3, <1>4, <1>5, <2>1, <2>2
  <2>4. s.verdict
    BY DEF Purpose
  <2>5. GraphIsActive(s.known, log[i].graph)'
    BY <2>3
  <2> QED BY <2>1, <2>3, <2>4, <2>5
<1>9. s.pc = "expiring" =>
        \A i \in s.todo : i \in ActiveLeases(s.known)' /\ Expiry(log'[i]) <= s.at
  BY <1>4, <1>5 DEF Purpose
<1>10. s.pc = "invalidating" =>
         \E g \in Nat, i \in OfType(s.known, "trigger")' :
           s.todo = {i} /\ GraphIsActive(s.known, g)' /\ i > CutOf(s.known, g)'
  BY <1>2, <1>3 DEF Purpose
<1>11. s.pc = "recording" => s.todo = {}
  BY DEF Purpose
<1> QED BY <1>6, <1>7, <1>8, <1>9, <1>10, <1>11 DEF Purpose, Expiry

\* A trigger of others, and no event, change nothing.
LEMMA CurrentKept ==
  ASSUME TypeOK, NEW s, s.known \subseteq Positions, s.at \in Nat, Current(s), NEW e \in Event,
         log' = log \/ (log' = Append(log, e) /\ e.type = "trigger" /\ e.at <= s.at)
  PROVE  Current(s)'
<1>1. Purpose(s)'
  <2>1. \A i \in Positions : log'[i] = log[i]
    BY LogGrows
  <2> QED BY <2>1, PurposeKept DEF Current
<1>2. \A i \in Positions' : i \in s.known \/ log'[i].type = "trigger"
  <2>1. CASE log' = log
    BY <2>1 DEF Positions, Current
  <2>2. CASE log' = Append(log, e) /\ e.type = "trigger"
    <3>1. /\ Positions' = Positions \cup {Len(log) + 1}
          /\ \A i \in Positions : log'[i] = log[i]
          /\ log'[Len(log) + 1] = e
      BY <2>2, Appended DEF TypeOK
    <3> QED BY <2>2, <3>1 DEF Current
  <2> QED BY <2>1, <2>2
<1>3. \A i \in Positions' : log'[i].at <= s.at
  <2>1. CASE log' = log
    BY <2>1 DEF Positions, Current
  <2>2. CASE log' = Append(log, e) /\ e.at <= s.at
    <3>1. /\ Positions' = Positions \cup {Len(log) + 1}
          /\ \A i \in Positions : log'[i] = log[i]
          /\ log'[Len(log) + 1] = e
      BY <2>2, Appended DEF TypeOK
    <3> QED BY <2>2, <3>1 DEF Current
  <2> QED BY <2>1, <2>2
<1> QED BY <1>1, <1>2, <1>3 DEF Current

\* A command that has just read the log.
LEMMA CurrentBegins ==
  ASSUME TypeOK, LogInv, log' = log, NEW s, s.known = Positions, s.at = now, Purpose(s)
  PROVE  Current(s)'
<1>1. Positions' = Positions /\ \A i \in Positions : log'[i] = log[i]
  BY DEF Positions
<1>2. Purpose(s)'
  BY <1>1, PurposeKept
<1> QED BY <1>1, <1>2 DEF Current, LogInv

-----------------------------------------------------------------------------
\* The emissions.

\* The command goes on with what is left, having read its own event.
Proceeds(c, e, x) ==
  \E known \in SUBSET Positions' :
    /\ coordinator[c].known \subseteq known
    /\ \A i \in known : i \in coordinator[c].known \/ log'[i] = e
    /\ log' = log \/ Len(log) + 1 \in known
    /\ coordinator'[c] =
         [coordinator[c] EXCEPT !.todo = coordinator[c].todo \ {x}, !.known = known]

LEMMA EmitLawful ==
  ASSUME TypeOK, NEW c \in Coordinators, NEW e \in Event, NEW x, Emit(c, e, x),
         Current(coordinator[c]), Legal(coordinator[c].known, e),
         e.type # "accepted", e.at <= now
  PROVE  /\ log' = log \/ Lawful(e)
         /\ \/ coordinator'[c] = Idle
            \/ coordinator[c].todo \ {x} # {} /\ Proceeds(c, e, x)
<1> DEFINE K == coordinator[c].known
           left == coordinator[c].todo \ {x}
<1>0. log \in Seq(Event) /\ K \subseteq Positions /\ coordinator \in [Coordinators -> Coordinator]
  BY DEF TypeOK
<1>1. ASSUME NEW known \in SUBSET Positions', Done(c, x, known), K \subseteq known,
             \A i \in known : i \in K \/ log'[i] = e,
             log' = log \/ Len(log) + 1 \in known
      PROVE  coordinator'[c] = Idle \/ (left # {} /\ Proceeds(c, e, x))
  BY <1>0, <1>1 DEF Done, Becomes, Proceeds
<1>2. Becomes(c, Idle) => coordinator'[c] = Idle
  BY <1>0 DEF Becomes
<1>3. CASE \E i \in Positions : SameId(log[i], e)
  <2>1. log' = log /\ Positions' = Positions
    BY <1>3 DEF Emit, Positions
  <2>2. PICK i \in Positions :
          CASE log[i] # e            -> Becomes(c, Idle)
            [] log[i] = e /\ i \in K -> Done(c, x, K)
            [] OTHER -> IF \A j \in K : j < i THEN Done(c, x, K \cup {i}) ELSE Becomes(c, Idle)
    BY <1>3 DEF Emit
  <2>3. CASE log[i] # e
    BY <1>2, <2>1, <2>2, <2>3
  <2>4. CASE log[i] = e /\ i \in K
    <3>1. Done(c, x, K)
      BY <2>2, <2>4
    <3> QED BY <1>0, <1>1, <2>1, <3>1
  <2>5. CASE log[i] = e /\ i \notin K
    <3>1. Done(c, x, K \cup {i}) \/ Becomes(c, Idle)
      BY <2>2, <2>5
    <3>2. K \cup {i} \in SUBSET Positions' /\ log'[i] = e
      BY <1>0, <2>1, <2>5
    <3> QED BY <1>1, <1>2, <2>1, <3>1, <3>2
  <2> QED BY <2>1, <2>3, <2>4, <2>5
<1>4. CASE ~\E i \in Positions : SameId(log[i], e)
  <2>1. log' = Append(log, e) /\ Done(c, x, K \cup {Len(log) + 1})
    BY <1>4 DEF Emit
  <2>2. /\ Positions' = Positions \cup {Len(log) + 1}
        /\ log'[Len(log) + 1] = e
    BY <1>0, <2>1, Appended
  <2>3. coordinator'[c] = Idle \/ (left # {} /\ Proceeds(c, e, x))
    BY <1>0, <1>1, <2>1, <2>2
  <2>4. Lawful(e)
    BY <1>0, <2>1 DEF Lawful, Current
  <2> QED BY <2>3, <2>4
<1> QED BY <1>3, <1>4

-----------------------------------------------------------------------------
\* The steps of the coordinator.

Goes(c) ==
  /\ log' = log \/ \E e \in Event : Lawful(e)
  /\ coordinator'[c].pc \in Calm \/ Current(coordinator[c])'

LEMMA SerialFacts ==
  ASSUME TypeOK, SerialInv, NEW c \in Coordinators
  PROVE  /\ log \in Seq(Event) /\ now \in Nat /\ Len(log) \in Nat
         /\ coordinator[c] \in Coordinator /\ coordinator[c].known \subseteq Positions
         /\ coordinator[c].at \in Nat /\ coordinator[c].at <= now
         /\ coordinator[c].cut \in Nat /\ coordinator[c].base \in Nat
         /\ coordinator[c].verdict \in BOOLEAN
         /\ coordinator[c].pc \notin Calm => Current(coordinator[c])
<1>1. coordinator[c] \in Coordinator /\ coordinator[c].at \in 0..now
      /\ coordinator[c].known \subseteq Positions
  BY DEF TypeOK
<1> QED BY <1>1 DEF TypeOK, SerialInv, Coordinator

LEMMA BecomesCalm ==
  ASSUME TypeOK, NEW c \in Coordinators, NEW s, Becomes(c, s), s.pc \in Calm
  PROVE  coordinator'[c].pc \in Calm
BY BecomesFacts

\* A command starts from what it has just read.
LEMMA BecomesCurrent ==
  ASSUME TypeOK, LogInv, log' = log, NEW c \in Coordinators, NEW s, Becomes(c, s),
         s.known = Positions, s.at = now, Purpose(s)
  PROVE  Goes(c)
<1>1. Current(s)'
  BY CurrentBegins
<1>2. coordinator'[c] = s
  BY BecomesFacts
<1>3. Current(coordinator[c])'
  BY <1>1, <1>2 DEF Current, Purpose
<1> QED BY <1>3 DEF Goes

LEMMA PlanningGoes ==
  ASSUME TypeOK, SerialInv, NEW c \in Coordinators,
         Plan(c) \/ Cancel(c) \/ Propose(c) \/ Validate(c) \/ Admit(c)
  PROVE  Goes(c)
<1>0. /\ log \in Seq(Event) /\ now \in Nat /\ Len(log) \in Nat
      /\ coordinator[c] \in Coordinator /\ coordinator[c].known \subseteq Positions
      /\ coordinator[c].at \in Nat /\ coordinator[c].at <= now
      /\ coordinator[c].cut \in Nat /\ coordinator[c].base \in Nat
      /\ coordinator[c].pc \notin Calm => Current(coordinator[c])
  BY SerialFacts
<1>1. ASSUME NEW s, Becomes(c, s), s.pc \in Calm PROVE coordinator'[c].pc \in Calm
  BY <1>1, BecomesCalm
<1>2. Idle.pc \in Calm /\ \A cut, base : Planning(cut, base).pc \in Calm
  BY DEF Idle, Planning, Calm
<1>3. CASE Plan(c)
  <2>1. log' = log /\ \E v : Becomes(c, Planning(Len(log), v))
    BY <1>3 DEF Plan
  <2> QED BY <1>1, <1>2, <2>1 DEF Goes
<1>4. CASE Cancel(c)
  BY <1>1, <1>2, <1>4 DEF Cancel, Goes
<1>5. CASE Propose(c)
  <2> DEFINE e == Proposed(coordinator[c].cut, coordinator[c].base, now)
             s == [coordinator[c] EXCEPT !.pc = "validating"]
  <2>1. e \in Event /\ e.type = "proposed" /\ e.at = now
    BY <1>0 DEF Event, Types, Blank, Proposed
  <2>2. s.pc \in Calm
    BY <1>0 DEF Coordinator, Calm
  <2>3. (log' = log \/ log' = Append(log, e)) /\ (Becomes(c, s) \/ Becomes(c, Idle))
    BY <1>5 DEF Propose
  <2> HIDE DEF e, s
  <2>4. Legal(Positions, e)
    BY <2>1 DEF Legal
  <2>5. log' = Append(log, e) => Lawful(e)
    BY <1>0, <2>1, <2>4 DEF Lawful
  <2> QED BY <1>1, <1>2, <2>1, <2>2, <2>3, <2>5 DEF Goes
<1>6. CASE Validate(c)
  <2> DEFINE s == [coordinator[c] EXCEPT !.pc = "admitting", !.known = Positions, !.at = now]
  <2>1. /\ s.pc = "admitting" /\ s.known = Positions /\ s.at = now
        /\ s.cut = coordinator[c].cut /\ s.base = coordinator[c].base
    BY <1>0 DEF Coordinator
  <2>2. log' = log /\ (Becomes(c, Idle) \/ (Becomes(c, s) /\ ~Stale(c)))
    BY <1>6 DEF Validate
  <2> HIDE DEF s
  <2>3. ASSUME Becomes(c, s), ~Stale(c) PROVE Goes(c)
    <3>1. IsVersion(Positions, s.base) /\ \A i \in OfType(Positions, "trigger") : i <= s.cut
      <4>1. \A i \in OfType(Positions, "trigger") : i \in Nat /\ ~(i > coordinator[c].cut)
        BY <2>3 DEF Stale, OfType, Positions
      <4> QED BY <1>0, <2>1, <2>3, <4>1 DEF Stale
    <3>2. Purpose(s)
      BY <2>1, <3>1 DEF Purpose
    <3> QED BY <2>1, <2>2, <2>3, <3>2, BecomesCurrent DEF SerialInv
  <2> QED BY <1>1, <1>2, <2>2, <2>3 DEF Goes
<1>7. CASE Admit(c)
  <2> DEFINE e == Accepted(coordinator[c].cut, coordinator[c].base + 1, coordinator[c].at)
             s == [coordinator[c] EXCEPT !.pc = "validating"]
  <2>1. /\ e \in Event /\ e.type = "accepted" /\ e.at = coordinator[c].at
        /\ e.ref = coordinator[c].cut /\ e.graph = coordinator[c].base + 1
    <3>1. coordinator[c].base + 1 \in Nat
      BY <1>0
    <3> QED BY <1>0, <3>1 DEF Event, Types, Blank, Accepted
  <2>2. s.pc \in Calm
    BY <1>0 DEF Coordinator, Calm
  <2>3. \/ log' = Append(log, e) /\ Becomes(c, Idle) /\ coordinator[c].known = Positions
        \/ log' = log /\ Becomes(c, s)
    BY <1>7 DEF Admit
  <2>4. coordinator[c].pc = "admitting" /\ Current(coordinator[c])
    BY <1>0, <1>7 DEF Admit, Calm
  <2> HIDE DEF e, s
  <2>5. ASSUME log' = Append(log, e), coordinator[c].known = Positions PROVE Lawful(e)
    <3>1. e.graph - 1 = coordinator[c].base
      BY <1>0, <2>1
    <3>2. LegalPlan(Positions, e)
      BY <2>1, <2>4, <2>5, <3>1 DEF Current, Purpose, LegalPlan
    <3>3. Legal(Positions, e)
      BY <2>1, <3>2 DEF Legal
    <3> QED BY <1>0, <2>1, <2>5, <3>3 DEF Lawful
  <2> QED BY <1>1, <1>2, <2>1, <2>2, <2>3, <2>5 DEF Goes
<1> QED BY <1>3, <1>4, <1>5, <1>6, <1>7

\* The commands that begin with a reload.
LEMMA BeginningGoes ==
  ASSUME Serialized, TypeOK, SerialInv, NEW c \in Coordinators,
         BeginAssign(c) \/ BeginComplete(c) \/ BeginExpire(c) \/ BeginInvalidate(c) \/ BeginPresence(c)
  PROVE  Goes(c)
<1>0. log' = log
  BY DEF BeginAssign, BeginComplete, BeginExpire, BeginInvalidate, BeginPresence, Begin
<1>1. ASSUME NEW s, s.known = Positions, s.at = now, Purpose(s), Becomes(c, s) PROVE Goes(c)
  BY <1>0, <1>1, BecomesCurrent DEF SerialInv
<1>2. CASE BeginAssign(c)
  <2>0. PICK g \in 1..Len(log) :
          /\ GraphIsActive(Positions, g)
          /\ Becomes(c, Working("assigning", Ready(Positions, g), TRUE))
    BY <1>2 DEF BeginAssign, Begin
  <2>1. PICK s : s = Working("assigning", Ready(Positions, g), TRUE)
    OBVIOUS
  <2>2. s.known = Positions /\ s.at = now /\ s.pc = "assigning" /\ g \in Nat
    BY <2>1 DEF Working
  <2>3. Purpose(s)
    BY <2>0, <2>2 DEF Purpose
  <2> QED BY <1>1, <2>0, <2>1, <2>2, <2>3
<1>3. CASE BeginComplete(c)
  <2>0. PICK i \in ActiveLeases(Positions), v \in BOOLEAN :
          /\ now < Expiry(log[i]) /\ Suits(i, v)
          /\ Becomes(c, Working("completing", {i}, v))
    BY <1>3 DEF BeginComplete, Begin
  <2>1. PICK s : s = Working("completing", {i}, v)
    OBVIOUS
  <2>2. s.known = Positions /\ s.at = now /\ s.pc = "completing" /\ s.todo = {i} /\ s.verdict = v
    BY <2>1 DEF Working
  <2>3. v /\ GraphIsActive(Positions, log[i].graph)
    BY <2>0 DEF Suits, Serialized
  <2>4. Purpose(s)
    BY <2>0, <2>2, <2>3 DEF Purpose
  <2> QED BY <1>1, <2>0, <2>1, <2>2, <2>4
<1>4. CASE BeginExpire(c)
  <2> DEFINE due == {i \in ActiveLeases(Positions) : Expiry(log[i]) <= now}
  <2>0. Becomes(c, Working("expiring", due, TRUE))
    BY <1>4 DEF BeginExpire, Begin
  <2>1. PICK s : s = Working("expiring", due, TRUE)
    OBVIOUS
  <2>2. s.known = Positions /\ s.at = now /\ s.pc = "expiring" /\ s.todo = due
    BY <2>1 DEF Working
  <2>3. Purpose(s)
    BY <2>2 DEF Purpose
  <2> QED BY <1>1, <2>0, <2>1, <2>2, <2>3
<1>5. CASE BeginInvalidate(c)
  <2>0. PICK g \in 1..Len(log), i \in OfType(Positions, "trigger") :
          /\ GraphIsActive(Positions, g) /\ i > CutOf(Positions, g)
          /\ Becomes(c, Working("invalidating", {i}, TRUE))
    BY <1>5 DEF BeginInvalidate, Begin
  <2>1. PICK s : s = Working("invalidating", {i}, TRUE)
    OBVIOUS
  <2>2. s.known = Positions /\ s.at = now /\ s.pc = "invalidating" /\ s.todo = {i} /\ g \in Nat
    BY <2>1 DEF Working
  <2>3. Purpose(s)
    BY <2>0, <2>2 DEF Purpose
  <2> QED BY <1>1, <2>0, <2>1, <2>2, <2>3
<1>6. CASE BeginPresence(c)
  <2>0. Becomes(c, Working("recording", {}, TRUE))
    BY <1>6 DEF BeginPresence, Begin
  <2>1. PICK s : s = Working("recording", {}, TRUE)
    OBVIOUS
  <2>2. s.known = Positions /\ s.at = now /\ s.pc = "recording" /\ s.todo = {}
    BY <2>1 DEF Working
  <2>3. Purpose(s)
    BY <2>2 DEF Purpose
  <2> QED BY <1>1, <2>0, <2>1, <2>2, <2>3
<1> QED BY <1>2, <1>3, <1>4, <1>5, <1>6

\* A command that goes on has read all but triggers, its own event included.
LEMMA ProceedsKnows ==
  ASSUME TypeOK, SerialInv, NEW c \in Coordinators, NEW e \in Event, NEW x,
         log' = log \/ Lawful(e), Proceeds(c, e, x),
         Current(coordinator[c]), e.at = coordinator[c].at
  PROVE  \E L :
           /\ coordinator[c].known \subseteq L
           /\ \A i \in L : i \in coordinator[c].known \/ log'[i] = e
           /\ \A i \in coordinator[c].known : log'[i] = log[i]
           /\ coordinator'[c].known = L /\ coordinator'[c].todo = coordinator[c].todo \ {x}
           /\ coordinator'[c].pc = coordinator[c].pc /\ coordinator'[c].at = coordinator[c].at
           /\ \A i \in Positions' : i \in L \/ log'[i].type = "trigger"
           /\ \A i \in Positions' : log'[i].at <= coordinator[c].at
<1>0. /\ log \in Seq(Event) /\ coordinator[c] \in Coordinator
      /\ coordinator[c].known \subseteq Positions /\ coordinator[c].at \in Nat
  BY SerialFacts
<1>1. PICK L \in SUBSET Positions' :
        /\ coordinator[c].known \subseteq L
        /\ \A i \in L : i \in coordinator[c].known \/ log'[i] = e
        /\ log' = log \/ Len(log) + 1 \in L
        /\ coordinator'[c] =
             [coordinator[c] EXCEPT !.todo = coordinator[c].todo \ {x}, !.known = L]
  BY DEF Proceeds
<1>2. /\ coordinator'[c].known = L /\ coordinator'[c].todo = coordinator[c].todo \ {x}
      /\ coordinator'[c].pc = coordinator[c].pc /\ coordinator'[c].at = coordinator[c].at
  BY <1>0, <1>1 DEF Coordinator
<1>3. \A i \in Positions' : \/ i \in Positions /\ log'[i] = log[i]
                            \/ i \in L /\ log'[i] = e
  <2>1. CASE log' = log
    BY <2>1 DEF Positions
  <2>2. CASE log' # log
    <3>1. log' = Append(log, e)
      BY <2>2 DEF Lawful
    <3>2. /\ Positions' = Positions \cup {Len(log) + 1}
          /\ \A i \in Positions : log'[i] = log[i]
          /\ log'[Len(log) + 1] = e
      BY <1>0, <3>1, Appended
    <3> QED BY <1>1, <2>2, <3>2
  <2> QED BY <2>1, <2>2
<1>4. \A i \in Positions : log'[i] = log[i]
  BY LogGrows DEF Lawful
<1>5. \A i \in Positions' : i \in L \/ log'[i].type = "trigger"
  BY <1>1, <1>3 DEF Current
<1>6. \A i \in Positions' : log'[i].at <= coordinator[c].at
  BY <1>0, <1>3 DEF Current
<1> QED BY <1>0, <1>1, <1>2, <1>4, <1>5, <1>6

\* A command that had one thing to do, and does it.
LEMMA LastEmitGoes ==
  ASSUME TypeOK, SerialInv, NEW c \in Coordinators, NEW e \in Event, NEW x, Emit(c, e, x),
         coordinator[c].pc \notin Calm, coordinator[c].todo \subseteq {x},
         Legal(coordinator[c].known, e), e.type # "accepted", e.at = coordinator[c].at
  PROVE  Goes(c)
<1>1. Current(coordinator[c]) /\ e.at <= now
  BY SerialFacts
<1>2. coordinator[c].todo \ {x} = {}
  OBVIOUS
<1>3. (log' = log \/ Lawful(e)) /\ coordinator'[c] = Idle
  BY <1>1, <1>2, EmitLawful
<1> QED BY <1>3 DEF Goes, Idle, Calm

LEMMA CompleteGoes ==
  ASSUME TypeOK, SerialInv, NEW c \in Coordinators, Complete(c)
  PROVE  Goes(c)
<1>0. /\ log \in Seq(Event) /\ coordinator[c].known \subseteq Positions
      /\ coordinator[c].at \in Nat /\ coordinator[c].at <= now
      /\ coordinator[c].verdict \in BOOLEAN
      /\ coordinator[c].pc \notin Calm => Current(coordinator[c])
  BY SerialFacts
<1>1. coordinator[c].pc = "completing"
  BY DEF Complete
<1>2. Current(coordinator[c]) /\ coordinator[c].pc \notin Calm
  BY <1>0, <1>1 DEF Calm
<1>3. PICK i \in ActiveLeases(coordinator[c].known) :
        /\ coordinator[c].verdict
        /\ coordinator[c].todo = {i} /\ coordinator[c].at < Expiry(log[i])
        /\ GraphIsActive(coordinator[c].known, log[i].graph)
  BY <1>1, <1>2 DEF Current, Purpose
<1> DEFINE e == Completed(log[i], coordinator[c].at, coordinator[c].verdict)
<1>4. Emit(c, e, i)
  BY <1>3 DEF Complete
<1>5. log[i] \in Event /\ i \in Positions
  BY <1>0, EventFacts DEF ActiveLeases, OfType
<1>6. /\ e \in Event /\ e.type = "completed" /\ e.at = coordinator[c].at
      /\ e.verdict = coordinator[c].verdict /\ SameLease(log[i], e) /\ e.graph = log[i].graph
  BY <1>0, <1>5 DEF Event, Types, Completed, SameLease
<1> HIDE DEF e
<1>7. log[i].at <= e.at /\ e.at < Expiry(log[i])
  BY <1>2, <1>3, <1>5, <1>6 DEF Current
<1>8. LegalCompletion(coordinator[c].known, e)
  <2>1. e.verdict
    BY <1>3, <1>6
  <2>2. GraphIsActive(coordinator[c].known, e.graph)
    BY <1>3, <1>6
  <2> QED BY <1>6, <1>7, <2>1, <2>2 DEF LegalCompletion
<1>9. Legal(coordinator[c].known, e)
  BY <1>6, <1>8 DEF Legal
<1> QED BY <1>2, <1>3, <1>4, <1>6, <1>9, LastEmitGoes

LEMMA InvalidateGoes ==
  ASSUME TypeOK, SerialInv, NEW c \in Coordinators, Invalidate(c)
  PROVE  Goes(c)
<1>0. /\ log \in Seq(Event) /\ Len(log) \in Nat /\ coordinator[c].known \subseteq Positions
      /\ coordinator[c].at \in Nat
      /\ coordinator[c].pc \notin Calm => Current(coordinator[c])
  BY SerialFacts
<1>1. coordinator[c].pc = "invalidating"
  BY DEF Invalidate
<1>2. Current(coordinator[c]) /\ coordinator[c].pc \notin Calm
  BY <1>0, <1>1 DEF Calm
<1>3. PICK v \in Nat, i \in OfType(coordinator[c].known, "trigger") :
        /\ coordinator[c].todo = {i} /\ GraphIsActive(coordinator[c].known, v)
        /\ i > CutOf(coordinator[c].known, v)
  BY <1>1, <1>2 DEF Current, Purpose
<1>4. PICK g \in 1..Len(log) :
        /\ IsVersion(coordinator[c].known, g)
        /\ Emit(c, Invalidated(g, i, coordinator[c].at), i)
  BY <1>3 DEF Invalidate
<1>5. g \in Nat /\ i \in Nat
  BY <1>0 DEF OfType, Positions
<1>6. g = v
  <2>1. IsVersion(coordinator[c].known, v)
    BY <1>3 DEF GraphIsActive
  <2> QED BY <1>0, <1>4, <1>5, <2>1, OneVersion
<1> DEFINE e == Invalidated(g, i, coordinator[c].at)
<1>7. /\ e \in Event /\ e.type = "invalidated" /\ e.at = coordinator[c].at
      /\ e.graph = g /\ e.ref = i
  BY <1>0, <1>5 DEF Event, Types, Blank, Invalidated
<1>8. Emit(c, e, i)
  BY <1>4
<1> HIDE DEF e
<1>9. LegalInvalidation(coordinator[c].known, e)
  BY <1>3, <1>6, <1>7 DEF LegalInvalidation
<1>10. Legal(coordinator[c].known, e)
  BY <1>7, <1>9 DEF Legal
<1> QED BY <1>2, <1>3, <1>7, <1>8, <1>10, LastEmitGoes

LEMMA RecordGoes ==
  ASSUME Serialized, TypeOK, SerialInv, NEW c \in Coordinators, RecordPresence(c)
  PROVE  Goes(c)
<1>0. /\ coordinator[c].known \subseteq Positions /\ coordinator[c].at \in Nat
      /\ coordinator[c].pc \notin Calm => Current(coordinator[c])
  BY SerialFacts
<1>1. coordinator[c].pc = "recording"
  BY DEF RecordPresence
<1>2. Current(coordinator[c]) /\ coordinator[c].pc \notin Calm
  BY <1>0, <1>1 DEF Calm
<1>3. PICK a \in Agents, v \in BOOLEAN : Emit(c, Presence(a, coordinator[c].at, v), a)
  BY DEF RecordPresence, Serialized
<1> DEFINE e == Presence(a, coordinator[c].at, v)
<1>4. e \in Event /\ e.type = "presence" /\ e.at = coordinator[c].at
  BY <1>0 DEF Event, Types, Blank, Presence
<1>5. Emit(c, e, a)
  BY <1>3
<1> HIDE DEF e
<1>6. \A i \in OfType(coordinator[c].known, "presence") : log[i].at <= e.at
  BY <1>0, <1>2, <1>4 DEF Current, OfType
<1>7. Legal(coordinator[c].known, e)
  BY <1>4, <1>6 DEF Legal
<1>8. coordinator[c].todo \subseteq {a}
  BY <1>1, <1>2 DEF Current, Purpose
<1> QED BY <1>2, <1>4, <1>5, <1>7, <1>8, LastEmitGoes

LEMMA ExpireGoes ==
  ASSUME TypeOK, LeaseInv, SerialInv, NEW c \in Coordinators, Expire(c)
  PROVE  Goes(c)
<1>0. /\ log \in Seq(Event) /\ coordinator[c].known \subseteq Positions
      /\ coordinator[c].at \in Nat /\ coordinator[c].at <= now
      /\ coordinator[c].pc \notin Calm => Current(coordinator[c])
  BY SerialFacts
<1>1. coordinator[c].pc = "expiring"
  BY DEF Expire
<1>2. Current(coordinator[c])
  BY <1>0, <1>1 DEF Calm
<1>3. \A j \in coordinator[c].todo :
        j \in ActiveLeases(coordinator[c].known) /\ Expiry(log[j]) <= coordinator[c].at
  BY <1>1, <1>2 DEF Current, Purpose
<1>4. PICK i \in coordinator[c].todo : Emit(c, Expired(log[i], coordinator[c].at), i)
  BY DEF Expire
<1> DEFINE e == Expired(log[i], coordinator[c].at)
<1>5. log[i] \in Event /\ i \in Positions /\ log[i].type = "granted"
  BY <1>0, <1>3, EventFacts DEF ActiveLeases, OfType
<1>6. e \in Event /\ e.type = "expired" /\ e.at = coordinator[c].at /\ SameLease(log[i], e)
  BY <1>0, <1>5 DEF Event, Types, Expired, SameLease
<1>7. Emit(c, e, i)
  BY <1>4
<1> HIDE DEF e
<1>8. Legal(coordinator[c].known, e)
  BY <1>3, <1>6 DEF Legal
<1>9. /\ log' = log \/ Lawful(e)
      /\ coordinator'[c] = Idle \/ Proceeds(c, e, i)
  BY <1>0, <1>2, <1>6, <1>7, <1>8, EmitLawful
<1>10. CASE Proceeds(c, e, i)
  <2>1. PICK L :
          /\ coordinator[c].known \subseteq L
          /\ \A j \in L : j \in coordinator[c].known \/ log'[j] = e
          /\ \A j \in coordinator[c].known : log'[j] = log[j]
          /\ coordinator'[c].known = L /\ coordinator'[c].todo = coordinator[c].todo \ {i}
          /\ coordinator'[c].pc = coordinator[c].pc /\ coordinator'[c].at = coordinator[c].at
          /\ \A j \in Positions' : j \in L \/ log'[j].type = "trigger"
          /\ \A j \in Positions' : log'[j].at <= coordinator[c].at
    BY <1>2, <1>6, <1>9, <1>10, ProceedsKnows
  <2>2. ASSUME NEW j \in coordinator[c].todo \ {i}
        PROVE  j \in ActiveLeases(L)' /\ Expiry(log'[j]) <= coordinator[c].at
    <3>1. /\ j \in coordinator[c].known /\ j \in Positions /\ log[j].type = "granted"
          /\ ~\E h \in coordinator[c].known : log[h].type \in Terminal /\ SameLease(log[h], log[j])
          /\ Expiry(log[j]) <= coordinator[c].at
      BY <1>0, <1>3 DEF ActiveLeases, OfType, Ended
    <3>2. ~SameLease(e, log[j])
      BY <1>5, <1>6, <3>1 DEF LeaseInv, UniqueIds, SameLease
    <3>3. log'[j] = log[j] /\ j \in L
      BY <2>1, <3>1
    <3>4. ~\E h \in L : log'[h].type \in Terminal /\ SameLease(log'[h], log'[j])
      BY <2>1, <3>1, <3>2, <3>3
    <3> QED BY <3>1, <3>3, <3>4 DEF ActiveLeases, OfType, Ended, SameLease
  <2>3. Purpose(coordinator[c])'
    BY <1>1, <2>1, <2>2 DEF Purpose, Expiry
  <2>4. Current(coordinator[c])'
    BY <2>1, <2>3 DEF Current
  <2> QED BY <1>6, <1>9, <2>4 DEF Goes
<1>11. CASE coordinator'[c] = Idle
  BY <1>6, <1>9, <1>11 DEF Goes, Idle, Calm
<1> QED BY <1>9, <1>10, <1>11

\* A grant is decided on a graph that is still active, and leaves it active.
LEMMA AssignGoes ==
  ASSUME TypeOK, FrontierInv, SerialInv, NEW c \in Coordinators, Assign(c)
  PROVE  Goes(c)
<1>0. /\ log \in Seq(Event) /\ Len(log) \in Nat /\ coordinator[c].known \subseteq Positions
      /\ coordinator[c].at \in Nat /\ coordinator[c].at <= now
      /\ coordinator[c].pc \notin Calm => Current(coordinator[c])
  BY SerialFacts
<1>1. coordinator[c].pc = "assigning" /\ coordinator[c].todo \subseteq Nodes
  BY DEF Assign, TypeOK
<1>2. Current(coordinator[c])
  BY <1>0, <1>1 DEF Calm
<1>3. PICK v \in Nat : GraphIsActive(coordinator[c].known, v)
  BY <1>1, <1>2 DEF Current, Purpose
<1>4. PICK n \in coordinator[c].todo, g \in 1..Len(log) :
        LET K == coordinator[c].known
            t == coordinator[c].at
        IN /\ IsVersion(K, g)
           /\ IF Feasible(K, g, n, t) = {}
              THEN UNCHANGED log /\ Done(c, n, K)
              ELSE \E a \in Feasible(K, g, n, t), k \in 0..Len(log) :
                     /\ IsHighestToken(K, g, n, k)
                     /\ Emit(c, Granted(g, n, a, k + 1, t), n)
  BY DEF Assign
<1>5. n \in Nodes /\ g \in Nat /\ GraphIsActive(coordinator[c].known, g)
  <2>1. n \in Nodes /\ g \in Nat
    BY <1>0, <1>1
  <2>2. IsVersion(coordinator[c].known, v)
    BY <1>3 DEF GraphIsActive
  <2>3. g = v
    BY <1>0, <1>4, <2>1, <2>2, OneVersion
  <2> QED BY <1>3, <2>1, <2>3
\* The rest of the frontier, whatever came of the node.
<1>6. ASSUME NEW e \in Event, e.type \in {"granted", "trigger"}, e.at = coordinator[c].at,
             log' = log \/ Lawful(e), Proceeds(c, e, n)
      PROVE  Current(coordinator[c])'
  <2>1. PICK L :
          /\ coordinator[c].known \subseteq L
          /\ \A j \in L : j \in coordinator[c].known \/ log'[j] = e
          /\ \A j \in coordinator[c].known : log'[j] = log[j]
          /\ coordinator'[c].known = L /\ coordinator'[c].todo = coordinator[c].todo \ {n}
          /\ coordinator'[c].pc = coordinator[c].pc /\ coordinator'[c].at = coordinator[c].at
          /\ \A j \in Positions' : j \in L \/ log'[j].type = "trigger"
          /\ \A j \in Positions' : log'[j].at <= coordinator[c].at
    BY <1>2, <1>6, ProceedsKnows
  <2>2. ASSUME NEW K, K = coordinator[c].known PROVE GraphIsActive(L, g)'
    <3>1. /\ K \subseteq L /\ \A j \in K : log'[j] = log[j]
          /\ \A j \in L : j \in K \/ log'[j].type \notin {"accepted", "invalidated"}
      BY <1>6, <2>1, <2>2
    <3>2. GraphIsActive(K, g)
      BY <1>5, <2>2
    <3> QED BY <3>1, <3>2, GraphsKept
  <2>3. Purpose(coordinator[c])'
    BY <1>1, <1>5, <2>1, <2>2 DEF Purpose
  <2> QED BY <2>1, <2>3 DEF Current
<1>7. Idle.pc \in Calm
  BY DEF Idle, Calm
<1>8. CASE Feasible(coordinator[c].known, g, n, coordinator[c].at) = {}
  <2> DEFINE e == [Blank EXCEPT !.at = coordinator[c].at]
  <2>1. e \in Event /\ e.type = "trigger" /\ e.at = coordinator[c].at
    BY <1>0 DEF Event, Types, Blank
  <2> HIDE DEF e
  <2>2. log' = log /\ Done(c, n, coordinator[c].known)
    BY <1>4, <1>8
  <2>3. coordinator'[c] = Idle \/ Proceeds(c, e, n)
    <3>1. Positions' = Positions
      BY <2>2 DEF Positions
    <3> QED BY <1>0, <2>2, <3>1 DEF Done, Becomes, Proceeds, TypeOK
  <2> QED BY <1>6, <1>7, <2>1, <2>2, <2>3 DEF Goes
<1>9. CASE Feasible(coordinator[c].known, g, n, coordinator[c].at) # {}
  <2>1. PICK a \in Feasible(coordinator[c].known, g, n, coordinator[c].at), k \in 0..Len(log) :
          /\ IsHighestToken(coordinator[c].known, g, n, k)
          /\ Emit(c, Granted(g, n, a, k + 1, coordinator[c].at), n)
    BY <1>4, <1>9
  <2> DEFINE e == Granted(g, n, a, k + 1, coordinator[c].at)
  <2>2. a \in Agents /\ k \in Nat /\ k + 1 \in Nat /\ (k + 1) - 1 = k
    BY <1>0 DEF Feasible
  <2>3. /\ e \in Event /\ e.type = "granted" /\ e.graph = g /\ e.node = n
        /\ e.agent = a /\ e.token = k + 1 /\ e.at = coordinator[c].at
    BY <1>0, <1>5, <2>2 DEF Event, Types, Blank, Granted
  <2>4. Emit(c, e, n)
    BY <2>1
  <2> HIDE DEF e
  <2>5. n \in Ready(coordinator[c].known, g)
    BY <1>1, <1>4, <1>5 DEF FrontierInv
  <2>6. ASSUME NEW K, K = coordinator[c].known, NEW t, t = coordinator[c].at
        PROVE  Legal(K, e)
    <3>1. /\ ~IsCompleted(K, g, n) /\ ~IsLeased(K, g, n)
          /\ \A p \in Predecessors[n] : IsCompleted(K, g, p)
      BY <2>5, <2>6 DEF Ready
    <3>2. /\ IsAvailable(K, a, t) /\ Cardinality(LeasedTo(K, a)) < Capacity
          /\ \A p \in VerificationOf[n] : a \notin CompletedBy(K, g, p)
      BY <2>1, <2>6 DEF Feasible
    <3>3. e.token - 1 = k /\ IsHighestToken(K, g, n, k)
      BY <2>1, <2>2, <2>3, <2>6
    <3>4. LegalGrant(K, e)
      BY <1>5, <2>3, <2>6, <3>1, <3>2, <3>3 DEF LegalGrant
    <3> QED BY <2>3, <3>4 DEF Legal
  <2>7. /\ log' = log \/ Lawful(e)
        /\ coordinator'[c] = Idle \/ Proceeds(c, e, n)
    BY <1>0, <1>2, <2>3, <2>4, <2>6, EmitLawful
  <2> QED BY <1>6, <1>7, <2>3, <2>7 DEF Goes
<1> QED BY <1>8, <1>9

\* One coordinator is the only one whose state changes.
LEMMA NextSerial ==
  ASSUME Serialized, IInv, SerialInv, [Next]_vars
  PROVE  SerialInv'
<1>0. TypeOK /\ LeaseInv /\ FrontierInv /\ log \in Seq(Event) /\ now \in Nat /\ LogInv
      /\ Len(log) \in Nat
  BY DEF IInv, TypeOK, SerialInv
<1>1. ASSUME NEW c \in Coordinators, Goes(c), now' = now PROVE SerialInv'
  <2>1. LogInv'
    BY <1>0, <1>1, LogInvKept DEF Goes
  <2>2. \A d \in Coordinators : d = c
    BY DEF Serialized
  <2> QED BY <1>1, <2>1, <2>2 DEF SerialInv, Goes, Current, Purpose
<1>2. ASSUME NEW c \in Coordinators,
             \/ Plan(c) \/ Propose(c) \/ Validate(c) \/ Admit(c)
             \/ BeginAssign(c) \/ Assign(c)
             \/ BeginComplete(c) \/ Complete(c)
             \/ BeginExpire(c) \/ Expire(c)
             \/ BeginInvalidate(c) \/ Invalidate(c)
             \/ BeginPresence(c) \/ RecordPresence(c)
             \/ Cancel(c)
      PROVE  SerialInv'
  <2>1. now' = now
    BY <1>2 DEF Plan, Propose, Validate, Admit, BeginAssign, Assign, BeginComplete, Complete,
                BeginExpire, Expire, BeginInvalidate, Invalidate, BeginPresence, RecordPresence,
                Cancel, Begin
  <2>2. CASE Plan(c) \/ Cancel(c) \/ Propose(c) \/ Validate(c) \/ Admit(c)
    BY <1>0, <2>2, PlanningGoes, <1>1, <2>1
  <2>3. CASE BeginAssign(c) \/ BeginComplete(c) \/ BeginExpire(c) \/ BeginInvalidate(c)
             \/ BeginPresence(c)
    BY <1>0, <2>3, BeginningGoes, <1>1, <2>1
  <2>4. CASE Assign(c)
    BY <1>0, <2>4, AssignGoes, <1>1, <2>1
  <2>5. CASE Complete(c)
    BY <1>0, <2>5, CompleteGoes, <1>1, <2>1
  <2>6. CASE Expire(c)
    BY <1>0, <2>6, ExpireGoes, <1>1, <2>1
  <2>7. CASE Invalidate(c)
    BY <1>0, <2>7, InvalidateGoes, <1>1, <2>1
  <2>8. CASE RecordPresence(c)
    BY <1>0, <2>8, RecordGoes, <1>1, <2>1
  <2> QED BY <1>2, <2>2, <2>3, <2>4, <2>5, <2>6, <2>7, <2>8
\* The coordinator stays as it is.
<1>3. ASSUME coordinator' = coordinator, now' \in Nat, now <= now', NEW e \in Event,
             log' = log \/ (Lawful(e) /\ e.type = "trigger" /\ e.at = 0)
      PROVE  SerialInv'
  <2>1. LogInv'
    BY <1>0, <1>3, LogInvKept
  <2>2. ASSUME NEW c \in Coordinators, coordinator[c].pc \notin Calm
        PROVE  Current(coordinator[c])'
    <3>1. /\ coordinator[c].known \subseteq Positions /\ coordinator[c].at \in Nat
          /\ Current(coordinator[c])
      BY <1>0, <2>2, SerialFacts
    <3>2. log' = log \/ (log' = Append(log, e) /\ e.type = "trigger" /\ e.at <= coordinator[c].at)
      BY <1>3, <3>1 DEF Lawful
    <3>3. ASSUME NEW s, s = coordinator[c] PROVE Current(s)'
      BY <1>0, <3>1, <3>2, <3>3, CurrentKept
    <3> QED BY <1>3, <3>3 DEF Current, Purpose
  <2> QED BY <1>3, <2>1, <2>2 DEF SerialInv
<1>4. Blank \in Event
  BY DEF Blank, Event, Types
<1>5. CASE Trigger
  <2> DEFINE e == [Blank EXCEPT !.ref = Len(log) + 1]
  <2>1. Len(log) + 1 \in Nat
    BY <1>0
  <2>2. e \in Event /\ e.type = "trigger" /\ e.at = 0
    BY <2>1 DEF Event, Types, Blank
  <2>3. log' = Append(log, e) /\ now' = now /\ coordinator' = coordinator
    BY <1>5 DEF Trigger
  <2> HIDE DEF e
  <2>4. Legal(Positions, e)
    BY <2>2 DEF Legal
  <2>5. Lawful(e)
    BY <1>0, <2>2, <2>3, <2>4 DEF Lawful
  <2> QED BY <1>0, <1>3, <2>2, <2>3, <2>5
<1>6. CASE Tick
  BY <1>0, <1>3, <1>4, <1>6 DEF Tick
<1>7. CASE UNCHANGED vars
  BY <1>0, <1>3, <1>4, <1>7 DEF vars
<1> QED BY <1>2, <1>5, <1>6, <1>7 DEF Next

\* A sequence with two more elements.
LEMMA TwoMore ==
  ASSUME NEW T, NEW n \in Nat, NEW s \in [1..n -> T], NEW x, NEW y
  PROVE  /\ Len(s \o <<x, y>>) = n + 2
         /\ (s \o <<x, y>>)[n + 1] = x /\ (s \o <<x, y>>)[n + 2] = y
         /\ \A i \in 1..n : (s \o <<x, y>>)[i] \in T
<1>1. PICK S : S = T \cup {x, y}
  OBVIOUS
<1>2. s \in Seq(S)
  BY <1>1
<1>3. Len(s) = n /\ \A i \in 1..n : s[i] \in T
  BY <1>1
<1>4. PICK q : q = <<x, y>>
  OBVIOUS
<1>5. q \in Seq(S)
  BY <1>1, <1>4
<1>6. Len(q) = 2 /\ q[1] = x /\ q[2] = y
  BY <1>1, <1>4
<1>7. Len(s \o q) = Len(s) + Len(q)
  BY <1>2, <1>5
<1>8. \A i \in 1..Len(s) : (s \o q)[i] = s[i]
  BY <1>2, <1>5
<1>9. \A i \in 1..Len(q) : (s \o q)[Len(s) + i] = q[i]
  BY <1>2, <1>5
<1>10. 1 \in 1..Len(q) /\ 2 \in 1..Len(q)
  BY <1>6
<1>11. (s \o q)[n + 1] = x /\ (s \o q)[n + 2] = y
  BY <1>3, <1>6, <1>9, <1>10
<1>12. Len(s \o q) = n + 2
  BY <1>3, <1>6, <1>7
<1>13. \A i \in 1..n : (s \o q)[i] \in T
  BY <1>3, <1>8
<1> QED BY <1>4, <1>11, <1>12, <1>13

\* The first log: presences, and possibly a plan at its end.
LEMMA FirstLog ==
  ASSUME Init
  PROVE  \A i \in Positions :
           /\ log[i].type \in {"presence", "proposed", "accepted"} /\ log[i].at = 0
           /\ log[i].type = "accepted" => i = Len(log) /\ log[i].graph = 1
<1> DEFINE Seen == {Presence(a, 0, TRUE) : a \in Agents}
           N == Cardinality(Agents)
           P == Proposed(N, 0, 0)
           A == Accepted(N, 1, 0)
<1>1. N \in Nat
  BY FS_CardinalityType, WorkAssumption
<1>2. PICK s \in [1..N -> Seen] : log = s \o FirstPlan
  BY DEF Init, Presences
<1>3. \A e \in Seen : e.type = "presence" /\ e.at = 0
  BY DEF Presence, Blank
<1>4. P.type = "proposed" /\ P.at = 0 /\ A.type = "accepted" /\ A.at = 0 /\ A.graph = 1
  BY DEF Proposed, Accepted, Blank
<1>5. FirstPlan = <<P, A>> \/ FirstPlan = <<>>
  BY DEF FirstPlan
<1> HIDE DEF Seen, N, P, A
<1>6. s \in Seq(Seen) /\ Len(s) = N
  BY <1>1
<1>7. CASE FirstPlan = <<P, A>>
  <2>1. Len(log) = N + 2 /\ log[N + 1] = P /\ log[N + 2] = A /\ \A i \in 1..N : log[i] \in Seen
    <3>1. log = s \o <<P, A>>
      BY <1>2, <1>7
    <3>2. /\ Len(s \o <<P, A>>) = N + 2
          /\ (s \o <<P, A>>)[N + 1] = P /\ (s \o <<P, A>>)[N + 2] = A
          /\ \A i \in 1..N : (s \o <<P, A>>)[i] \in Seen
      BY <1>1, TwoMore, Zenon
    <3> QED BY <3>1, <3>2, Zenon
  <2>2. \A i \in Positions : i \in 1..N \/ i = N + 1 \/ i = N + 2
    BY <1>1, <2>1 DEF Positions
  <2> QED BY <1>3, <1>4, <2>1, <2>2
<1>8. CASE FirstPlan = <<>>
  <2>1. Len(log) = N /\ \A i \in 1..N : log[i] \in Seen
    BY <1>1, <1>2, <1>6, <1>8
  <2> QED BY <1>3, <2>1 DEF Positions
<1> QED BY <1>5, <1>7, <1>8

LEMMA InitSerial == Init => SerialInv
<1> SUFFICES ASSUME Init PROVE SerialInv
  OBVIOUS
<1>1. \A i \in Positions :
        /\ log[i].type \in {"presence", "proposed", "accepted"} /\ log[i].at = 0
        /\ log[i].type = "accepted" => i = Len(log) /\ log[i].graph = 1
  BY FirstLog
<1>2. log \in Seq(Event) /\ Len(log) \in Nat /\ now = 0
  BY InitLog DEF Init
<1>3. ASSUME NEW i \in Positions PROVE Legal(1..(i - 1), log[i])
  <2>1. \A j \in 1..(i - 1) : j \in Positions /\ j # Len(log)
    BY <1>2 DEF Positions
  <2>2. CASE log[i].type = "presence"
    BY <1>1, <2>1, <2>2 DEF Legal, OfType
  <2>3. CASE log[i].type = "proposed"
    BY <2>3 DEF Legal
  <2>4. CASE log[i].type = "accepted"
    <3>1. OfType(1..(i - 1), "accepted") = {} /\ OfType(1..(i - 1), "trigger") = {}
      BY <1>1, <2>1 DEF OfType
    <3>2. log[i].graph - 1 = 0
      BY <1>1, <2>4
    <3>3. LegalPlan(1..(i - 1), log[i])
      BY <3>1, <3>2 DEF LegalPlan, IsVersion
    <3> QED BY <2>4, <3>3 DEF Legal
  <2> QED BY <1>1, <2>2, <2>3, <2>4
<1>4. ASSUME NEW a \in Agents PROVE Cardinality(LeasedTo(Positions, a)) <= Capacity
  <2>1. LeasedTo(Positions, a) = {}
    BY <1>1 DEF LeasedTo, ActiveLeases, OfType
  <2>2. Cardinality({}) = 0 /\ Capacity \in Nat
    BY FS_EmptySet, WorkAssumption
  <2> QED BY <2>1, <2>2
<1>5. LogInv
  BY <1>1, <1>2, <1>3, <1>4 DEF LogInv, Replayable, CapacityIsKept
<1>6. \A c \in Coordinators : coordinator[c].pc \in Calm
  BY DEF Init, Idle, Calm
<1> QED BY <1>5, <1>6 DEF SerialInv

LEMMA SerialInvariance ==
  ASSUME Serialized PROVE Spec => []SerialInv
<1>1. Init => IInv /\ SerialInv
  BY InitIInv, InitSerial
<1>2. IInv /\ SerialInv /\ [Next]_vars => (IInv /\ SerialInv)'
  BY NextIInv, NextSerial
<1> QED BY <1>1, <1>2, PTL DEF Spec

\* One coordinator whose commands come one after the other keeps the log such that
\* every reload succeeds (ADR 0007), whatever else is appended meanwhile and whenever
\* it dies: what _emit appends is what WorkProjection.apply accepts.
THEOREM LogStaysReplayable == Serialized /\ Spec => []Replayable
<1> SUFFICES ASSUME Serialized PROVE Spec => []Replayable
  OBVIOUS
<1>1. SerialInv => Replayable
  BY DEF SerialInv, LogInv
<1> QED BY <1>1, SerialInvariance, PTL

\* Then no agent is given more open leases than it declared (max_concurrency).
THEOREM CapacityIsRespected == Serialized /\ Spec => []CapacityIsKept
<1> SUFFICES ASSUME Serialized PROVE Spec => []CapacityIsKept
  OBVIOUS
<1>1. SerialInv => CapacityIsKept
  BY DEF SerialInv, LogInv
<1> QED BY <1>1, SerialInvariance, PTL
=============================================================================
