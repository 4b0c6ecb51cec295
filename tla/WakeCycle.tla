------------------------------ MODULE WakeCycle ------------------------------
(***************************************************************************)
(* Situated continuity: SituatedContinuityWorker (continuity_worker.py)    *)
(* with the contracts, projection and planner of continuity/, writing the  *)
(* beliefs that the memory projector (memory_worker.py) follows.           *)
(*                                                                         *)
(* One process wakes, crashes and wakes again; the external projector      *)
(* lags behind it and emits contradictions and their resolutions; a host   *)
(* records what it learns between the wakes.  A step of the wake is one    *)
(* append, or the pure computation that leads to the next.                 *)
(*                                                                         *)
(* Freshness decays linearly instead of exponentially, on a scale of Full: *)
(* the planner and the coverage depend on its order only.                  *)
(***************************************************************************)
EXTENDS Beliefs

CONSTANTS
  Scenarios,  \* a log to start from, and how many wakes, reports of the host,
              \* ticks and crashes may follow (bounds); whether the host may
              \* write while a wake runs, and whether the projector runs
  Facts,      \* what the host may report
  Feed,       \* source -> its observations, in order: [key, value, at]
  Connected,  \* sources that have an adapter
  Hazard,     \* source -> loss of freshness per unit of time
  RefreshCost,\* source -> cost of a refresh
  Demanded,   \* sources some decision of the wake needs
  Importance, \* source -> relevance x decision sensitivity of the demand
  Floor,      \* relevance floor
  Required,   \* freshness and confidence that a demand requires
  Full,       \* freshness of what was just observed
  Budgets     \* observation budgets: [cost, sources]

Sources == DOMAIN Feed

ASSUME WakeAssumption ==
  /\ \A s \in Scenarios : {s.wakes, s.facts, s.ticks, s.crashes} \subseteq Nat
  /\ Connected \subseteq Sources /\ Demanded \subseteq Sources
  /\ Full \in Nat /\ Required \in 1..Full

VARIABLES
  log,   \* the canonical log
  now,   \* the wall clock
  wake,  \* the wake that runs
  proj,  \* the projector: [upto, own, pending, stuck]
  left   \* what may still happen: wakes, facts, ticks, crashes; during, projector

vars == <<log, now, wake, proj, left>>

-----------------------------------------------------------------------------
\* Contracts of continuity/models.py, as the events that carry them.

SourceState(s, cursor, observed, confidence, captured) ==
  [type |-> "state", source |-> s, cursor |-> cursor, observed |-> observed,
   confidence |-> confidence, captured |-> captured]
AwakeEpoch(id, status, after) ==
  [type |-> "epoch", id |-> id, status |-> status, after |-> after]
RefreshRequest(s, need, at) == [type |-> "request", source |-> s, need |-> need, at |-> at]
RefreshResult(type, request, cursor) == [type |-> type, request |-> request, cursor |-> cursor]
Observation(s, n, at) ==
  [type |-> "observed", source |-> s, cursor |-> n, rec |-> at, simulated |-> FALSE]
CheckpointEvent(upto) == [type |-> "checkpoint", upto |-> upto]

\* ContinuityProjection: the latest state of each source.
\* Faulty variant: a refresh result moves the source's cursor, too.
SourceStatesWithResults(l) ==
  [s \in {l[n].source : n \in OfType(l, "state")} |->
     LET st == l[Max({n \in OfType(l, "state") : l[n].source = s})]
         results == {n \in OfType(l, "refreshed") : l[n].request.source = s}
     IN IF results = {} THEN st
        ELSE [st EXCEPT !.cursor = Max({st.cursor} \cup {l[n].cursor : n \in results})]]

SourceStates(l) ==
  [s \in {l[n].source : n \in OfType(l, "state")} |->
     l[Max({n \in OfType(l, "state") : l[n].source = s})]]

LegalState(l, ev) ==
  /\ ev.observed <= ev.captured
  /\ ev.source \in DOMAIN SourceStates(l) => SourceStates(l)[ev.source].captured <= ev.captured

\* An epoch is <<woke, previous, before, after>>; once completed it is final.
LegalEpoch(l, ev) ==
  /\ ev.id[1] >= ev.id[2] /\ ev.after >= ev.id[3]
  /\ \A n \in OfType(l, "epoch") :
       l[n].id = ev.id /\ l[n].status # "orienting" => l[n] = ev

LegalReport(l, ev) ==
  /\ \E n \in OfType(l, "epoch") : l[n].id = ev.epoch /\ l[n].status = ev.status
  /\ ev.refreshed \cap ev.unavailable = {}
  /\ ev.changed \subseteq ev.refreshed
  /\ ev.refreshed \cup ev.unavailable \subseteq DOMAIN ev.coverage
  /\ DOMAIN ev.coverage \subseteq DOMAIN ev.decisions

LegalCheckpoint(l, ev) == \A n \in OfType(l, "checkpoint") : l[n].upto <= ev.upto

Legal(l, ev) ==
  CASE ev.type = "state" -> LegalState(l, ev)
    [] ev.type = "epoch" -> LegalEpoch(l, ev)
    [] ev.type = "report" -> LegalReport(l, ev)
    [] ev.type = "checkpoint" -> LegalCheckpoint(l, ev)
    [] OTHER -> LegalMemory(l, ev)

-----------------------------------------------------------------------------
\* FreshnessModel, AwarenessCoverage and WakeReconciler.

Least(a, b) == IF a <= b THEN a ELSE b
Freshness(state, at) == Max({0, Full - Hazard[state.source] * (at - state.observed)})
FreshUntil(s, at) == IF Hazard[s] = 0 THEN {} ELSE {at + Full \div Hazard[s] + 1}

CoverageEntry(state, fresh) == [fresh |-> fresh, confidence |-> state.confidence]
EntrySufficient(e) == e.fresh >= Required /\ e.confidence >= Required
Relevant(s) == s \in Demanded /\ Importance[s] >= Floor
AwarenessCoverage(states, fresh) == [s \in Demanded |-> CoverageEntry(states[s], fresh[s])]
Sufficient(coverage) == \A s \in Demanded : Relevant(s) => EntrySufficient(coverage[s])

\* The gap left by freshness and by confidence, in units of 1 / Required^2.
RefreshNeed(e, s) ==
  IF s \notin Demanded THEN 0
  ELSE Importance[s] * (Required * Required - Least(e.fresh, Required) * Least(e.confidence, Required))

\* By need per cost, then need, then id.  The quotients are compared crosswise:
\* a source that costs nothing comes first if it is needed at all.
RankBefore(need, a, b) ==
  LET x == need[a] * RefreshCost[b]
      y == need[b] * RefreshCost[a]
  IN x > y \/ (x = y /\ (need[a] > need[b] \/ (need[a] = need[b] /\ a < b)))

Select(budget, chosen, s) ==
  IF Cardinality(chosen.set) >= budget.sources \/ RefreshCost[s] > chosen.left THEN chosen
  ELSE [set |-> chosen.set \cup {s}, left |-> chosen.left - RefreshCost[s]]

Plan(states, fresh, budget) ==
  LET entry == [s \in DOMAIN states |-> CoverageEntry(states[s], fresh[s])]
      need == [s \in DOMAIN states |-> RefreshNeed(entry[s], s)]
      candidates == {s \in DOMAIN states : Relevant(s) /\ ~EntrySufficient(entry[s])}
      ranked == SetToSortSeq(candidates, LAMBDA a, b : RankBefore(need, a, b))
      start == [set |-> {}, left |-> budget.cost]
      chosen == FoldLeft(LAMBDA acc, s : Select(budget, acc, s), start, ranked).set
  IN [s \in DOMAIN states |->
        [disposition |-> IF s \in chosen THEN "refresh"
                         ELSE IF s \in candidates THEN "defer" ELSE "accept",
         need |-> need[s]]]

-----------------------------------------------------------------------------
\* The wake that runs.  mem: the positions its memory has applied; states,
\* fresh: its view of the sources, kept up to date; todo: the sources to
\* refresh; obs: the observations of the first that are left; at: the position
\* of the observation just recorded; the rest goes into the report.

Asleep ==
  [pc |-> "asleep", woke |-> 0, id |-> <<>>, budget |-> 0, mem |-> {}, states |-> <<>>,
   fresh |-> <<>>, plan |-> <<>>, todo |-> <<>>, obs |-> <<>>, at |-> 0, cursor |-> 0,
   refreshed |-> {}, changed |-> {}, unavailable |-> {}, status |-> "orienting"]

Memory(positions) == [n \in positions |-> log[n]]
Request(s) == RefreshRequest(s, wake.plan[s].need, wake.woke)

\* kernel.emit of an event whose id is known returns the stored one.
Emit(ev) == log' = IF \E n \in DOMAIN log : log[n] = ev THEN log ELSE Append(log, ev)
Position(ev) == CHOOSE n \in DOMAIN log' : log'[n] = ev
Stay == UNCHANGED <<now, proj, left>>

TypeOK ==
  /\ now \in Nat
  /\ left \in [wakes : Nat, facts : Nat, ticks : Nat, crashes : Nat, during : BOOLEAN,
              projector : BOOLEAN]
  /\ wake.mem \subseteq DOMAIN log /\ wake.at \in 0..Len(log) /\ wake.woke \in 0..now
  /\ \A n \in DOMAIN wake.todo : wake.plan[wake.todo[n]].disposition = "refresh"
  /\ wake.refreshed \cap wake.unavailable = {} /\ wake.changed \subseteq wake.refreshed
  /\ proj.upto \in 0..Len(log) /\ proj.own \subseteq DOMAIN log /\ proj.stuck \in BOOLEAN

Init ==
  /\ \E s \in Scenarios :
       /\ log = s.log
       /\ left = [wakes |-> s.wakes, facts |-> s.facts, ticks |-> s.ticks,
                  crashes |-> s.crashes, during |-> s.during, projector |-> s.projector]
  /\ now = 1
  /\ wake = Asleep
  /\ proj = [upto |-> 0, own |-> {}, pending |-> <<>>, stuck |-> FALSE]

\* History is read once: continuity, memory and checkpoint come from one cut.
PreviousActive(l) ==
  LET epochs == {l[n].id[1] : n \in OfType(l, "epoch")}
  IN IF epochs = {} THEN now ELSE Max(epochs)

Wake(budget) ==
  LET states == SourceStates(log)
      fresh == [s \in DOMAIN states |-> Freshness(states[s], now)]
      plan == Plan(states, fresh, budget)
      before == Max({0} \cup {log[n].upto : n \in OfType(log, "checkpoint")})
  IN /\ wake.pc = "asleep"
     /\ left.wakes > 0 /\ left' = [left EXCEPT !.wakes = @ - 1]
     /\ wake' = [Asleep EXCEPT
                  !.pc = "start", !.woke = now, !.budget = budget,
                  !.id = <<now, PreviousActive(log), before, Len(log)>>,
                  !.mem = DOMAIN log, !.states = states, !.fresh = fresh, !.plan = plan,
                  !.todo = SetToSortSeq({s \in DOMAIN plan : plan[s].disposition = "refresh"}, <)]
     /\ UNCHANGED <<log, now, proj>>

StartEpoch ==
  /\ wake.pc = "start"
  /\ Emit(AwakeEpoch(wake.id, "orienting", wake.id[4]))
  /\ wake' = [wake EXCEPT !.pc = "request", !.obs = wake.todo]
  /\ Stay

\* The requests of the plan first, all of them.
EmitRequest ==
  /\ wake.pc = "request"
  /\ IF wake.obs = <<>>
     THEN log' = log /\ wake' = [wake EXCEPT !.pc = "refresh"]
     ELSE Emit(Request(Head(wake.obs))) /\ wake' = [wake EXCEPT !.obs = Tail(@)]
  /\ Stay

\* FakeSource.refresh: what lies after the cursor and has occurred.
Deltas(s, cursor, at) == {n \in DOMAIN Feed[s] : n > cursor /\ Feed[s][n].at <= at}

\* No adapter, or the source is unavailable: its state stays as it is.
\* Faulty variant: a source that could not be read is taken to be unchanged.
AssumeUnchanged ==
  LET s == Head(wake.todo)
  IN /\ wake.pc = "refresh" /\ wake.todo # <<>>
     /\ Emit(RefreshResult("failed", Request(s), wake.states[s].cursor))
     /\ wake' = [wake EXCEPT !.todo = Tail(@), !.unavailable = @ \cup {s}, !.fresh[s] = Full]
     /\ Stay

MarkUnavailable ==
  LET s == Head(wake.todo)
  IN /\ wake.pc = "refresh" /\ wake.todo # <<>>
     /\ Emit(RefreshResult("failed", Request(s), wake.states[s].cursor))
     /\ wake' = [wake EXCEPT !.todo = Tail(@), !.unavailable = @ \cup {s}]
     /\ Stay

RefreshSource ==
  LET s == Head(wake.todo)
      new == Deltas(s, wake.states[s].cursor, wake.woke)
      cursor == Max({wake.states[s].cursor} \cup new)
  IN /\ wake.pc = "refresh" /\ wake.todo # <<>> /\ s \in Connected
     /\ Emit(RefreshResult("refreshed", Request(s), cursor))
     /\ wake' = [wake EXCEPT !.pc = "observe", !.obs = SetToSortSeq(new, <), !.cursor = cursor,
                             !.refreshed = @ \cup {s}]
     /\ Stay

\* An observation is known by its source and cursor, whichever wake made it.
RecordObservation ==
  LET s == Head(wake.todo)
      known == {n \in OfType(log, "observed") : log[n].source = s /\ log[n].cursor = Head(wake.obs)}
  IN /\ wake.pc = "observe" /\ wake.obs # <<>>
     /\ log' = IF known # {} THEN log ELSE Append(log, Observation(s, Head(wake.obs), wake.woke))
     /\ LET n == IF known # {} THEN CHOOSE k \in known : TRUE ELSE Len(log')
        IN wake' = [wake EXCEPT !.pc = "assert", !.at = n, !.mem = @ \cup {n}, !.changed = @ \cup {s}]
     /\ Stay

\* The assertion takes its place among the beliefs the wake knows of.
AssertionFor(s, o, n, m, at) ==
  LET next == TemporalNeighbors(m, o.key, o.at, at)
  IN SemanticAssertion(o.key, o.value, o.at, {m[a].from : a \in next.successor}, at,
                       FreshUntil(s, at), n, Max({0} \cup next.predecessor))

AssertBelief ==
  LET s == Head(wake.todo)
      ev == AssertionFor(s, Feed[s][Head(wake.obs)], wake.at, Memory(wake.mem), wake.woke)
  IN /\ wake.pc = "assert"
     /\ Emit(ev)
     /\ wake' = [wake EXCEPT !.pc = "observe", !.obs = Tail(@), !.mem = @ \cup {Position(ev)}]
     /\ Stay

\* The cursor moves when all its observations are recorded.
RecordSourceState ==
  LET s == Head(wake.todo)
      ev == SourceState(s, wake.cursor, wake.woke, Full, wake.woke)
  IN /\ wake.pc = "observe" /\ wake.obs = <<>>
     /\ Emit(ev)
     /\ wake' = [wake EXCEPT !.pc = "refresh", !.todo = Tail(@),
                             !.states[s] = ev, !.fresh[s] = Full]
     /\ Stay

Coverage == AwarenessCoverage(wake.states, wake.fresh)

CompleteEpoch ==
  LET status == IF Sufficient(Coverage) THEN "oriented" ELSE "incomplete"
  IN /\ wake.pc = "refresh" /\ wake.todo = <<>>
     /\ Emit(AwakeEpoch(wake.id, status, Len(log)))
     /\ wake' = [wake EXCEPT !.pc = "report", !.status = status]
     /\ Stay

OrientationReport ==
  [type |-> "report", epoch |-> wake.id, status |-> wake.status, coverage |-> Coverage,
   decisions |-> [s \in DOMAIN wake.plan |->
                    IF s \in wake.unavailable THEN "uncertain" ELSE wake.plan[s].disposition],
   refreshed |-> wake.refreshed, changed |-> wake.changed, unavailable |-> wake.unavailable,
   budget |-> wake.budget]

Report ==
  /\ wake.pc = "report"
  /\ Emit(OrientationReport)
  /\ wake' = [wake EXCEPT !.pc = "checkpoint"]
  /\ Stay

AdvanceCheckpoint ==
  /\ wake.pc = "checkpoint"
  /\ Emit(CheckpointEvent(Len(log)))
  /\ wake' = Asleep
  /\ Stay

Crash ==
  /\ wake.pc # "asleep"
  /\ left.crashes > 0 /\ left' = [left EXCEPT !.crashes = @ - 1]
  /\ wake' = Asleep
  /\ UNCHANGED <<log, now, proj>>

-----------------------------------------------------------------------------
\* The memory projector takes the log in order; what it derives, it emits and
\* applies at once.  (Its checkpoints and crashes are CheckpointedWorker's.)

Applied == (1..proj.upto) \cup proj.own

Follow(m, n) == IF Raises(m, n) THEN [stuck |-> TRUE, out |-> {}]
                ELSE [stuck |-> FALSE, out |-> Derived(m, n)]

TakeTrigger ==
  LET n == proj.upto + 1
      next == Follow(Memory(Applied \cup {n}), n)
      outs == IF n \in proj.own THEN {} ELSE next.out
  IN /\ left.projector /\ proj.pending = <<>> /\ n <= Len(log) /\ ~proj.stuck
     /\ \E q \in SetToSeqs(outs) :
          proj' = [proj EXCEPT !.upto = n, !.pending = q,
                               !.stuck = n \notin proj.own /\ next.stuck]
     /\ UNCHANGED <<log, now, wake, left>>

EmitDerived ==
  /\ proj.pending # <<>>
  /\ Emit(Head(proj.pending))
  /\ LET n == Position(Head(proj.pending))
         m == [k \in Applied \cup {n} |-> log'[k]]
         next == Follow(m, n)
     IN \E q \in SetToSeqs(next.out) :
          proj' = [proj EXCEPT !.own = @ \cup {n}, !.stuck = next.stuck,
                               !.pending = IF next.stuck THEN <<>> ELSE Tail(@) \o q]
  /\ UNCHANGED <<now, wake, left>>

-----------------------------------------------------------------------------
\* The host reports what it learns now.

HostReport(f) ==
  LET ev == [f EXCEPT !.rec = now]
  IN /\ left.facts > 0 /\ left' = [left EXCEPT !.facts = @ - 1]
     /\ left.during \/ wake.pc = "asleep"
     /\ LegalMemory(log, ev)
     /\ Emit(ev)
     /\ UNCHANGED <<now, wake, proj>>

\* record_source_state: the host trusts a source less than the wake did.  (States
\* are content-addressed, so the clock must have moved since the last one.)
HostRecordsState(s) ==
  /\ left.facts > 0 /\ left' = [left EXCEPT !.facts = @ - 1]
  /\ left.during \/ wake.pc = "asleep"
  /\ s \in DOMAIN SourceStates(log) /\ SourceStates(log)[s].captured < now
  /\ Emit([SourceStates(log)[s] EXCEPT !.confidence = Required - 1, !.captured = now])
  /\ UNCHANGED <<now, wake, proj>>

Tick ==
  /\ left.ticks > 0 /\ left' = [left EXCEPT !.ticks = @ - 1]
  /\ now' = now + 1
  /\ UNCHANGED <<log, wake, proj>>

Go ==
  \/ StartEpoch \/ EmitRequest \/ MarkUnavailable \/ RefreshSource \/ RecordObservation
  \/ AssertBelief \/ RecordSourceState \/ CompleteEpoch \/ Report \/ AdvanceCheckpoint

Project == TakeTrigger \/ EmitDerived

Next ==
  \/ \E budget \in Budgets : Wake(budget)
  \/ Go \/ Crash \/ Project
  \/ \E f \in Facts : HostReport(f)
  \/ \E s \in Connected : HostRecordsState(s)
  \/ Tick

Spec == Init /\ [][Next]_vars

-----------------------------------------------------------------------------
\* Safety.

AssertedFrom(l, s, n) ==
  {a \in Assertions(l) : LET e == l[l[a].source]
                         IN e.type = "observed" /\ e.source = s /\ e.cursor = n}

\* A recorded source state never runs ahead of the beliefs: whatever its source
\* showed by the time it says it observed, has been asserted, across crashes at
\* any point of the wake.
NothingIsSkipped ==
  \A p \in OfType(log, "state") :
    LET st == log[p]
    IN \A n \in DOMAIN Feed[st.source] :
         Feed[st.source][n].at <= st.observed =>
           \E a \in AssertedFrom(log, st.source, n) : a < p

\* Each observation is the source of one assertion at most.
AssertedOnce ==
  \A s \in Sources : \A n \in DOMAIN Feed[s] : Cardinality(AssertedFrom(log, s, n)) <= 1

\* Late observations are inserted by valid time: as long as nothing was asserted
\* twice or at the same time and the host left the key alone, there is one belief
\* at every time since the first, the value last seen by then, whatever the order
\* in which the wakes learned it.
TimelineIsKept ==
  \A key \in {log[a].key : a \in Assertions(log)} :
    LET about == {a \in Assertions(log) : log[a].key = key}
        undisturbed ==
          /\ \A a, b \in about : a # b => log[a].from # log[b].from
          /\ \A n \in OfType(log, "closed") : log[n].assertion \notin about
          /\ \A a \in about : \/ log[log[a].source].source \in Sources
                               \/ \A b \in about : log[a].from <= log[b].from
    IN undisturbed =>
         \A t \in 0..now :
           LET past == {a \in about : log[a].from <= t}
               last == {a \in past : \A b \in past : log[b].from <= log[a].from}
           IN /\ {a \in about : Valid(log, a, t, now)} = last
              /\ Belief(log, key, t, now)
                   \in {[held |-> "unknown"]} \cup {[held |-> "held", value |-> log[a].value] : a \in last}

\* A report says ORIENTED only when the states recorded so far meet, at the time
\* of the wake, what every relevant demand requires; a source that could not be
\* read is never evidence that nothing changed.
OrientationIsHonest ==
  \A p \in OfType(log, "report") :
    LET states == SourceStates(SubSeq(log, 1, p))
        fresh == [s \in DOMAIN states |-> Freshness(states[s], log[p].epoch[1])]
    IN (log[p].status = "oriented") = Sufficient(AwarenessCoverage(states, fresh))

\* The refreshes keep within the budget, and a source was put off only because it
\* could not be afforded.
BudgetIsSpentWell ==
  \A p \in OfType(log, "report") :
    LET r == log[p]
        asked == {s \in DOMAIN r.decisions : r.decisions[s] \in {"refresh", "uncertain"}}
        spent == SumFunctionOnSet(RefreshCost, asked)
    IN /\ spent <= r.budget.cost /\ Cardinality(asked) <= r.budget.sources
       /\ \A s \in DOMAIN r.decisions :
            r.decisions[s] = "defer" =>
              spent + RefreshCost[s] > r.budget.cost \/ Cardinality(asked) = r.budget.sources

\* A report can be believed: ORIENTED is earned by what was read, and what was not
\* read could not be afforded (continuity_worker.py:wake).
WakeInv == TypeOK /\ OrientationIsHonest /\ BudgetIsSpentWell

\* The projector never meets an event that it must refuse, and when it has caught
\* up, the unresolved contradictions are the pairs that disagree over some time,
\* in whatever order assertions, supersessions and closures were learned.
ContradictionsAreCurrent ==
  /\ ~proj.stuck
  /\ proj.upto = Len(log) /\ proj.pending = <<>> =>
       Unresolved(log) =
         {{a, b} : <<a, b>> \in {c \in Assertions(log) \X Assertions(log) :
                                  Disagree(log, c[1], c[2]) /\ IntervalsOverlap(log, c[1], c[2], now)}}

\* Beliefs keep the order of the world, and where they do not agree the open
\* contradictions say so (memory/projection.py).
BeliefInv == TimelineIsKept /\ ContradictionsAreCurrent

\* No event that the wake or the projector appends is refused on replay.
Replayable ==
  [][\A n \in (Len(log) + 1)..Len(log') : Legal(SubSeq(log', 1, n - 1), log'[n])]_log
=============================================================================
