----------------------------- MODULE DreamEpochs -----------------------------
(***************************************************************************)
(* Endogenous cognition: EndogenousShadowWorker (endogenous_worker.py) and *)
(* the projection, policy, detectors and contracts of endogenous/.         *)
(*                                                                         *)
(* The state is the canonical log.  Every contract is content-addressed,   *)
(* so it is the record of its content; every projection is a function of   *)
(* the log.  A conditional append (emit_if_head in a loop that re-reads    *)
(* the projection) takes effect only when its projection was read at the   *)
(* head, so it is one step whose guard is evaluated at the head; what was  *)
(* read before the loop (candidates, the cut, the clock) is in the task    *)
(* and may be stale.                                                       *)
(*                                                                         *)
(* One process serves one consumer id: its tasks run scans or the recovery *)
(* of start(), its bus subscription handles foreground events, and they    *)
(* interleave at every await.  A scan's epoch is named by the sequence of  *)
(* its request, which is also its cursor.                                  *)
(***************************************************************************)
EXTENDS Integers, Sequences, FiniteSets, FiniteSetsExt, Folds

CONSTANTS
  Consumers,   \* consumer ids, each served by one process
  Starters,    \* the coroutines of a process that call start()
  Callers,     \* and those that call run_scan()
  Scenarios,   \* a log to start from, and how many scans, events of others,
               \* ticks of the clock and stops or crashes may follow (bounds)
  Facts,       \* events others may append
  Life,        \* of a scan request
  Improvement, \* topic -> expected improvement of its activity
  Cost,        \* topic -> its costs, in one sum
  CostWeight,  \* of the policy
  MinimumNet,  \* of the policy
  Units,       \* topic -> compute units of its activity
  Ceiling      \* budget of an epoch: [activities, units]

Tasks == Starters \cup Callers

\* What others put in the log: the kinds of events that the worker reads and
\* never writes (but record_calibration, see Others).
Findings == {"roadmap", "commitment", "assertion", "signal", "calibration"}
Topics == DOMAIN Improvement
IsExternal(event) ==
  \/ event.type \in {"goal", "foreground"}
  \/ event.type \in Findings /\ event.topic \in Topics

ASSUME EpochAssumption ==
  /\ \A s \in Scenarios :
       /\ {s.scans, s.facts, s.ticks, s.crashes} \subseteq Nat
       /\ s.log \in Seq({s.log[n] : n \in DOMAIN s.log})
       /\ \A n \in DOMAIN s.log : IsExternal(s.log[n])
  /\ \A f \in Facts : IsExternal(f)
  /\ Life \in Nat \ {0}
  /\ Ceiling \in [activities : Nat \ {0}, units : Nat]

ASSUME ValueAssumption ==
  /\ Topics \subseteq Int /\ CostWeight \in Int /\ MinimumNet \in Int
  /\ Improvement \in [Topics -> Int] /\ Cost \in [Topics -> Int]
  /\ Units \in [Topics -> Nat]

VARIABLES
  log,    \* the canonical log
  now,    \* the clock
  up,     \* consumers whose worker has started
  task,   \* consumer -> task -> where it is
  inbox,  \* consumer -> foreground events its subscription holds
  fg,     \* consumer -> foreground event being handled, 0 for none
  left    \* what may still happen: scans, facts, ticks, crashes

vars == <<log, now, up, task, inbox, fg, left>>

-----------------------------------------------------------------------------
\* Strategy, as far as DREAM reads it: the revisions of one goal.

NoRev == 0

CurrentRevision(l) ==
  LET goals == {n \in DOMAIN l : l[n].type = "goal"}
  IN IF goals = {} THEN [rev |-> NoRev, live |-> FALSE]
     ELSE LET n == CHOOSE n \in goals : \A k \in goals : k <= n
          IN [rev |-> l[n].rev, live |-> l[n].live]

\* Exactly the latest revision, and it is ACTIVE or BLOCKED.
IntentsAreCurrent(l, refs) ==
  /\ refs # {}
  /\ CurrentRevision(l).live
  /\ refs = {CurrentRevision(l).rev}

-----------------------------------------------------------------------------
\* Queries of EndogenousProjection, on a log.

Of(l, type) == {n \in DOMAIN l : l[n].type = type}
Recorded(l, event) == \E n \in DOMAIN l : l[n] = event

Started(l, e) == \E n \in Of(l, "start") : l[n].epoch = e
Closings == {"preempted", "expired", "abandoned"}
Status(l, e) ==
  LET ends == {n \in DOMAIN l : l[n].type \in Closings /\ l[n].epoch = e}
  IN IF ends = {} THEN "active" ELSE l[CHOOSE n \in ends : TRUE].type
Active(l, e) == Started(l, e) /\ Status(l, e) = "active"
ActiveEpochs(l, c) ==
  {l[n].epoch : n \in {k \in Of(l, "start") :
                         l[k].consumer = c /\ Status(l, l[k].epoch) = "active"}}

\* An inquiry's identity leaves out its causal cursor; an activity's has it.
Inquiries(l) == {l[n].inquiry : n \in Of(l, "inquiry")}
CursorOf(l, i) == l[CHOOSE n \in Of(l, "inquiry") : l[n].inquiry = i].epoch
ActivitiesOf(l, e) == {l[n].inquiry : n \in {k \in Of(l, "activity") : l[k].epoch = e}}
EstimatesOf(l, e) == {l[n].inquiry : n \in {k \in Of(l, "voc") : l[k].epoch = e}}
HasAgenda(l, e) == \E n \in Of(l, "agenda") : l[n].epoch = e
CheckpointOf(l, c) ==
  Max({0} \cup {l[n].upto : n \in {k \in Of(l, "checkpoint") : l[k].consumer = c}})

-----------------------------------------------------------------------------
\* The contracts of endogenous/models.py, as the events that carry them.

\* evaluate_value_of_cognition: deterministic, under the pinned weights.
NetVOC(topic) == Improvement[topic] - CostWeight * Cost[topic]
WorthThinking(topic) == NetVOC(topic) > Max({0, MinimumNet})

PolicyEvent == [type |-> "policy"]
ScanRequest(at) == [type |-> "request", at |-> at, until |-> at + Life]
EpochStart(c, e) == [type |-> "start", consumer |-> c, epoch |-> e]
InquiryEvent(e, i) == [type |-> "inquiry", epoch |-> e, inquiry |-> i]
ActivityEvent(e, i) == [type |-> "activity", epoch |-> e, inquiry |-> i]
EstimateEvent(e, i) == [type |-> "voc", epoch |-> e, inquiry |-> i, net |-> NetVOC(i.topic)]
CalibrationEvent(topic, refs, gap) ==
  [type |-> "calibration", topic |-> topic, refs |-> refs, gap |-> gap]
AgendaEvent(e, agenda) == [type |-> "agenda", epoch |-> e, agenda |-> agenda]
Preemption(e, s) == [type |-> "preempted", epoch |-> e, by |-> s]
Expiry(e, at) == [type |-> "expired", epoch |-> e, at |-> at]
Abandonment(e) == [type |-> "abandoned", epoch |-> e]
CheckpointEvent(c, s) == [type |-> "checkpoint", consumer |-> c, upto |-> s]

-----------------------------------------------------------------------------
\* DeterministicEndogenousDetector (endogenous/detectors.py).  A candidate is
\* the inquiry it asks; its activity adds the cursor.  Every producer wants the
\* governing goal current, and cites the events of the cut it rests on.

Candidate(topic, refs, evidence) ==
  [topic |-> topic, refs |-> refs, evidence |-> evidence]

RefsForSubject(cut) ==
  IF CurrentRevision(cut).live THEN {CurrentRevision(cut).rev} ELSE {}

About(cut, type, topic) == {n \in Of(cut, type) : cut[n].topic = topic}
Latest(S, n) == \A k \in S : k <= n

RoadmapHealthCandidates(cut) ==
  {Candidate(cut[n].topic, {cut[n].governs},
             Of(cut, "goal") \cup About(cut, "roadmap", cut[n].topic)) :
     n \in {k \in Of(cut, "roadmap") :
              /\ Latest(About(cut, "roadmap", cut[k].topic), k)
              /\ IntentsAreCurrent(cut, {cut[k].governs})
              /\ cut[k].review}}

CommitmentGapCandidates(cut) ==
  {Candidate(cut[n].topic, RefsForSubject(cut), About(cut, "commitment", cut[n].topic)) :
     n \in {k \in Of(cut, "commitment") :
              /\ Latest(About(cut, "commitment", cut[k].topic), k)
              /\ cut[k].active /\ ~cut[k].covered
              /\ RefsForSubject(cut) # {}}}

\* All the stale or contradicted assertions about a subject make one inquiry.
IsContradicted(cut, n) == \E k \in About(cut, "assertion", cut[n].topic) : cut[k].value # cut[n].value
Doubtful(cut, n, at) == cut[n].until <= at \/ IsContradicted(cut, n)

BeliefHygieneCandidates(cut, at) ==
  LET Doubts(topic) == {n \in About(cut, "assertion", topic) : Doubtful(cut, n, at)}
  IN {Candidate(cut[n].topic, RefsForSubject(cut), Doubts(cut[n].topic)) :
        n \in {k \in Of(cut, "assertion") : Doubtful(cut, k, at) /\ RefsForSubject(cut) # {}}}

NoveltyCandidates(cut, at) ==
  {Candidate(cut[n].topic, RefsForSubject(cut), {n}) :
     n \in {k \in Of(cut, "signal") : at < cut[k].until /\ RefsForSubject(cut) # {}}}

CalibrationCandidates(cut) ==
  {Candidate(cut[n].topic, cut[n].refs, {n}) :
     n \in {k \in Of(cut, "calibration") : cut[k].gap /\ IntentsAreCurrent(cut, cut[k].refs)}}

Detect(cut, at) ==
  RoadmapHealthCandidates(cut) \cup CommitmentGapCandidates(cut)
    \cup BeliefHygieneCandidates(cut, at) \cup NoveltyCandidates(cut, at)
    \cup CalibrationCandidates(cut)

-----------------------------------------------------------------------------
\* The pinned policy (endogenous/policy.py): stable greedy, version 1.

NoResources == [activities |-> 0, units |-> 0]
Plus(r, topic) == [activities |-> r.activities + 1, units |-> r.units + Units[topic]]
FitsWithin(r) == r.activities <= Ceiling.activities /\ r.units <= Ceiling.units

\* Highest value first; ties by identity, which is arbitrary but fixed.
Before(a, b) ==
  \/ NetVOC(a.topic) > NetVOC(b.topic)
  \/ NetVOC(a.topic) = NetVOC(b.topic) /\ a.topic < b.topic
  \/ a.topic = b.topic /\ Max(a.evidence) < Max(b.evidence)
Last(activities) == CHOOSE a \in activities : \A b \in activities : ~Before(a, b)

NoAgenda == [selected |-> {}, deferred |-> {}, suppressed |-> {}, used |-> NoResources]

Decide(agenda, a) ==
  IF ~WorthThinking(a.topic) THEN [agenda EXCEPT !.suppressed = @ \cup {a}]
  ELSE IF ~FitsWithin(Plus(agenda.used, a.topic)) THEN [agenda EXCEPT !.deferred = @ \cup {a}]
  ELSE [agenda EXCEPT !.selected = @ \cup {a}, !.used = Plus(@, a.topic)]

SelectAgenda(activities) ==
  MapThenFoldSet(LAMBDA a, agenda : Decide(agenda, a), NoAgenda, LAMBDA a : a, Last, activities)

-----------------------------------------------------------------------------
\* EndogenousProjection.apply: does the projection of l accept the event?

LegalScan(l, ev) == Of(l, "policy") # {} /\ ev.at < ev.until

LegalCalibration(l, ev) == IntentsAreCurrent(l, ev.refs)

LegalStart(l, ev) ==
  /\ ev.epoch \in Of(l, "request")
  /\ Len(l) = ev.epoch
  /\ ~Started(l, ev.epoch)
  /\ ActiveEpochs(l, ev.consumer) = {}

LegalInquiry(l, ev) ==
  /\ Active(l, ev.epoch)
  /\ IntentsAreCurrent(l, ev.inquiry.refs)
  /\ ev.inquiry.evidence # {} /\ ev.inquiry.evidence \subseteq DOMAIN l
  /\ ev.inquiry \notin Inquiries(l)

LegalActivity(l, ev) ==
  /\ Active(l, ev.epoch)
  /\ ev.inquiry \in Inquiries(l)
  /\ CursorOf(l, ev.inquiry) = ev.epoch
  /\ IntentsAreCurrent(l, ev.inquiry.refs)

LegalEstimate(l, ev) ==
  /\ Active(l, ev.epoch)
  /\ ev.inquiry \in ActivitiesOf(l, ev.epoch)
  /\ ev.net = NetVOC(ev.inquiry.topic)

LegalAgenda(l, ev) ==
  LET acts == ActivitiesOf(l, ev.epoch)
  IN /\ Active(l, ev.epoch)
     /\ ~HasAgenda(l, ev.epoch)
     /\ acts # {} /\ EstimatesOf(l, ev.epoch) = acts
     /\ \A a \in acts : IntentsAreCurrent(l, a.refs)
     /\ ev.agenda = SelectAgenda(acts)

LegalPreemption(l, ev) ==
  /\ Active(l, ev.epoch)
  /\ ev.by \in Of(l, "foreground") /\ ev.by > ev.epoch

LegalExpiry(l, ev) == Active(l, ev.epoch) /\ ev.at >= l[ev.epoch].until

LegalAbandonment(l, ev) == Active(l, ev.epoch)

Legal(l, ev) ==
  CASE ev.type = "request" -> LegalScan(l, ev)
    [] ev.type = "calibration" -> LegalCalibration(l, ev)
    [] ev.type = "start" -> LegalStart(l, ev)
    [] ev.type = "inquiry" -> LegalInquiry(l, ev)
    [] ev.type = "activity" -> LegalActivity(l, ev)
    [] ev.type = "voc" -> LegalEstimate(l, ev)
    [] ev.type = "agenda" -> LegalAgenda(l, ev)
    [] ev.type = "preempted" -> LegalPreemption(l, ev)
    [] ev.type = "expired" -> LegalExpiry(l, ev)
    [] ev.type = "abandoned" -> LegalAbandonment(l, ev)
    [] OTHER -> TRUE

-----------------------------------------------------------------------------
\* Tasks.  at: the trigger; seen: the time of the call; todo: what recover()
\* has left; cands: the candidates left, the next one at stage `stage`; refs: the
\* intents whose loss stopped the scan; agenda: the selection computed; stale:
\* the epoch to abandon; resumed: whether the trigger's epoch was found started.

IdleTask == [pc |-> "idle", at |-> 0, seen |-> 0, todo |-> {}, cands |-> {},
             stage |-> 1, refs |-> {}, agenda |-> NoAgenda, stale |-> 0, resumed |-> FALSE]

Stages == <<"inquiry", "activity", "voc">>

TypeOK ==
  /\ now \in Nat
  /\ up \subseteq Consumers
  /\ \A c \in Consumers :
       /\ fg[c] \in 0..Len(log)
       /\ \A n \in DOMAIN inbox[c] : inbox[c][n] \in Of(log, "foreground")
       /\ \A t \in Tasks :
            /\ task[c][t].at \in 0..Len(log) /\ task[c][t].seen \in 0..now
            /\ task[c][t].stage \in 1..Len(Stages)
            /\ task[c][t].todo \subseteq Of(log, "request") \cup Of(log, "foreground")
  /\ left \in [scans : Nat, facts : Nat, ticks : Nat, crashes : Nat]

Init ==
  /\ \E s \in Scenarios :
       /\ log = s.log
       /\ left = [scans |-> s.scans, facts |-> s.facts, ticks |-> s.ticks,
                  crashes |-> s.crashes]
  /\ now = 0
  /\ up = {}
  /\ task = [c \in Consumers |-> [t \in Tasks |-> IdleTask]]
  /\ inbox = [c \in Consumers |-> <<>>]
  /\ fg = [c \in Consumers |-> 0]

\* Where task t of consumer c goes, and the event it appends (<<>> for none).
Step(c, t, next) == task' = [task EXCEPT ![c][t] = next]
Emit(event) == log' = Append(log, event)
Stay == UNCHANGED <<up, inbox, fg, now, left>>

\* run_scan, of a worker that is started or not: first close the consumer's epochs
\* whose deadline has passed.
BeginScan(c, t) ==
  LET due == {e \in ActiveEpochs(log, c) : log[e].until <= now}
  IN /\ task[c][t].pc = "idle"
     /\ left.scans > 0 /\ left' = [left EXCEPT !.scans = @ - 1]
     /\ IF due = {} THEN log' = log ELSE Emit(Expiry(CHOOSE e \in due : TRUE, now))
     /\ Step(c, t, [IdleTask EXCEPT !.pc = "request", !.seen = now])
     /\ UNCHANGED <<up, inbox, fg, now>>

\* The policy snapshot and the request are emitted one after the other; nothing
\* depends on what comes between them.  kernel.emit of an event whose id is
\* known returns the stored one.
RequestScan(c, t) ==
  LET request == ScanRequest(task[c][t].seen)
      Unknown(event) == IF Recorded(log, event) THEN <<>> ELSE <<event>>
  IN /\ task[c][t].pc = "request"
     /\ log' = log \o Unknown(PolicyEvent) \o Unknown(request)
     /\ Step(c, t, [task[c][t] EXCEPT
                     !.pc = "observe",
                     !.at = CHOOSE n \in DOMAIN log' : log'[n] = request])
     /\ Stay

\* The projection that _process_scan reads first decides what is left to do.
\* Candidates come from the cut at the trigger; an inquiry known from another
\* cut is not asked again.
\* Faulty variant: every detected question is asked again.
AskAgain(l, i, e) == TRUE

IsNewOrSameScan(l, i, e) == i \in Inquiries(l) => CursorOf(l, i) = e

NewCandidates(e) ==
  {i \in Detect(SubSeq(log, 1, e), log[e].at) : IsNewOrSameScan(log, i, e)}

Proceed(k) ==
  LET new == NewCandidates(k.at)
  IN IF new = {} THEN [k EXCEPT !.pc = "settle"]
     ELSE [k EXCEPT !.pc = IF k.resumed THEN "output" ELSE "start",
                    !.cands = new, !.stage = 1]

RefsOf(activities) == UNION {a.refs : a \in activities}

Observe(c, t) ==
  LET k == [task[c][t] EXCEPT !.resumed = Started(log, task[c][t].at)]
      e == k.at
      others == ActiveEpochs(log, c) \ {e}
      stale == {a \in others : LET refs == RefsOf(ActivitiesOf(log, a))
                               IN refs # {} /\ ~IntentsAreCurrent(log, refs)}
      next == IF Started(log, e) /\ ~Active(log, e) THEN [k EXCEPT !.pc = "settle"]
              ELSE IF Started(log, e) /\ k.seen >= log[e].until THEN [k EXCEPT !.pc = "expire"]
              ELSE IF HasAgenda(log, e) THEN [k EXCEPT !.pc = "settle"]
              ELSE IF stale # {} THEN [k EXCEPT !.pc = "abandon", !.stale = CHOOSE a \in stale : TRUE]
              ELSE IF others # {} THEN [k EXCEPT !.pc = "settle"]
              ELSE Proceed(k)
  IN /\ k.pc = "observe"
     /\ Step(c, t, next)
     /\ UNCHANGED log /\ Stay

\* _abandon_stale_active_epoch, then the projection is read again.
AbandonStale(c, t) ==
  LET k == task[c][t]
  IN /\ k.pc = "abandon"
     /\ IF Active(log, k.stale) THEN Emit(Abandonment(k.stale)) ELSE log' = log
     /\ Step(c, t, [k EXCEPT !.pc = "reobserve"])
     /\ Stay

Reobserve(c, t) ==
  LET k == task[c][t]
  IN /\ k.pc = "reobserve"
     /\ Step(c, t, IF ActiveEpochs(log, c) # {} THEN [k EXCEPT !.pc = "settle"]
                   ELSE Proceed(k))
     /\ UNCHANGED log /\ Stay

\* _expire_incomplete_epoch, at the later of the deadline and the call's time.
ExpireEpoch(c, t) ==
  LET k == task[c][t]
  IN /\ k.pc = "expire"
     /\ IF Active(log, k.at) THEN Emit(Expiry(k.at, Max({k.seen, log[k.at].until})))
        ELSE log' = log
     /\ Step(c, t, [k EXCEPT !.pc = "settle"])
     /\ Stay

\* _append_epoch_start: only while the request is still the head.
\* Faulty variant: the head may have moved.
StartAnywhere(c, t) ==
  LET k == task[c][t]
      event == EpochStart(c, k.at)
      next(pc) == [k EXCEPT !.pc = pc]
  IN /\ k.pc = "start"
     /\ IF Recorded(log, event) \/ ActiveEpochs(log, c) # {}
        THEN log' = log /\ Step(c, t, next(IF Recorded(log, event) THEN "output" ELSE "settle"))
        ELSE Emit(event) /\ Step(c, t, next("output"))
     /\ Stay

StartEpoch(c, t) ==
  LET k == task[c][t]
      event == EpochStart(c, k.at)
      next(pc) == [k EXCEPT !.pc = pc]
  IN /\ k.pc = "start"
     /\ IF Recorded(log, event)
        THEN log' = log /\ Step(c, t, next("output"))
        ELSE IF ActiveEpochs(log, c) # {} \/ Len(log) # k.at
             THEN log' = log /\ Step(c, t, next("settle"))
             ELSE Emit(event) /\ Step(c, t, next("output"))
     /\ Stay

\* _append_epoch_output: an event that is known stands; otherwise the epoch must
\* be active and the intents current, or the scan cannot be completed.
\* Faulty variant: the status of the epoch is not read again.
AppendOutputUnchecked(c, t, event, known, e, refs, next) ==
  IF known THEN log' = log /\ Step(c, t, next)
  ELSE IF IntentsAreCurrent(log, refs)
       THEN Emit(event) /\ Step(c, t, next)
       ELSE log' = log /\ Step(c, t, [task[c][t] EXCEPT !.pc = "finish", !.refs = refs])

AppendOutput(c, t, event, known, e, refs, next) ==
  IF known THEN log' = log /\ Step(c, t, next)
  ELSE IF Active(log, e) /\ log[e].at < log[e].until /\ IntentsAreCurrent(log, refs)
       THEN Emit(event) /\ Step(c, t, next)
       ELSE log' = log /\ Step(c, t, [task[c][t] EXCEPT !.pc = "finish", !.refs = refs])

\* The inquiry of the next candidate, its activity, its estimate; an inquiry
\* that is known is not recorded again.  Candidates come in the order of their
\* hashes, which is arbitrary.
NextOf(cands) == CHOOSE i \in cands : TRUE

Output(c, t) ==
  LET k == task[c][t]
      i == NextOf(k.cands)
      event == CASE k.stage = 1 -> InquiryEvent(k.at, i)
                 [] k.stage = 2 -> ActivityEvent(k.at, i)
                 [] k.stage = 3 -> EstimateEvent(k.at, i)
      next == IF k.stage < Len(Stages) THEN [k EXCEPT !.stage = @ + 1]
              ELSE [k EXCEPT !.stage = 1, !.cands = @ \ {i},
                             !.pc = IF k.cands = {i} THEN "select" ELSE "output"]
      known == IF k.stage = 1 THEN i \in Inquiries(log) ELSE Recorded(log, event)
  IN /\ k.pc = "output"
     /\ AppendOutput(c, t, event, known, k.at, i.refs, next)
     /\ Stay

\* The selection is computed from one reading of the projection and appended
\* after another; a missing estimate raises.
Select(c, t) ==
  LET k == task[c][t]
      acts == ActivitiesOf(log, k.at)
  IN /\ k.pc = "select"
     /\ Step(c, t, IF HasAgenda(log, k.at) THEN [k EXCEPT !.pc = "settle"]
                   ELSE IF acts = {} \/ EstimatesOf(log, k.at) # acts THEN [IdleTask EXCEPT !.pc = "raised"]
                   ELSE [k EXCEPT !.pc = "agenda", !.agenda = SelectAgenda(acts),
                                  !.refs = RefsOf(acts)])
     /\ UNCHANGED log /\ Stay

RecordAgenda(c, t) ==
  LET k == task[c][t]
      event == AgendaEvent(k.at, k.agenda)
  IN /\ k.pc = "agenda"
     /\ AppendOutput(c, t, event, Recorded(log, event), k.at, k.refs,
                     [k EXCEPT !.pc = "settle"])
     /\ Stay

\* _finish_incomplete_scan: give the epoch a terminal event, then settle.
\* Faulty variant: a scan stopped by a closed epoch is left for recovery.
FinishWithoutSettling(c, t) ==
  LET k == task[c][t]
      e == k.at
  IN /\ k.pc = "finish"
     /\ IF ~Active(log, e) THEN log' = log /\ Step(c, t, IdleTask)
        ELSE Emit(Abandonment(e)) /\ UNCHANGED task
     /\ Stay

FinishScan(c, t) ==
  LET k == task[c][t]
      e == k.at
  IN /\ k.pc = "finish"
     /\ IF ~Active(log, e) THEN log' = log /\ Step(c, t, [k EXCEPT !.pc = "settle"])
        ELSE IF k.seen >= log[e].until THEN Emit(Expiry(e, k.seen)) /\ UNCHANGED task
        ELSE IF ~IntentsAreCurrent(log, k.refs) THEN Emit(Abandonment(e)) /\ UNCHANGED task
        ELSE log' = log /\ Step(c, t, [IdleTask EXCEPT !.pc = "raised"])
     /\ Stay

\* _advance_checkpoint, under the checkpoint lock; it never goes back.
Checkpoint(c, upto) ==
  IF CheckpointOf(log, c) >= upto THEN log' = log ELSE Emit(CheckpointEvent(c, upto))

Settle(c, t) ==
  /\ task[c][t].pc = "settle"
  /\ Checkpoint(c, task[c][t].at)
  /\ Step(c, t, [IdleTask EXCEPT !.pc = IF task[c][t].todo = {} THEN "idle" ELSE "recover",
                                 !.todo = task[c][t].todo])
  /\ Stay

-----------------------------------------------------------------------------
\* start() subscribes, then recovers what lies past the checkpoint.

Start(c, t) ==
  /\ c \notin up /\ task[c][t].pc = "idle"
  /\ up' = up \cup {c}
  /\ Step(c, t, [IdleTask EXCEPT !.pc = "backlog"])
  /\ UNCHANGED <<log, now, inbox, fg, left>>

ReadBacklog(c, t) ==
  LET pending == {n \in Of(log, "request") \cup Of(log, "foreground") : n > CheckpointOf(log, c)}
  IN /\ task[c][t].pc = "backlog"
     /\ Step(c, t, [IdleTask EXCEPT !.pc = IF pending = {} THEN "idle" ELSE "recover",
                                    !.todo = pending])
     /\ UNCHANGED log /\ Stay

Recover(c, t) ==
  LET k == task[c][t]
      n == Min(k.todo)
  IN /\ k.pc = "recover"
     /\ Step(c, t, [k EXCEPT !.pc = IF log[n].type = "request" THEN "observe" ELSE "preempt",
                             !.at = n, !.seen = now, !.todo = @ \ {n}])
     /\ UNCHANGED log /\ Stay

\* _process_foreground closes the epochs whose cut precedes the event, then
\* advances the checkpoint to it, whatever it found.
Preempt(c, s) ==
  LET open == {e \in ActiveEpochs(log, c) : s > e}
  IN IF open = {} THEN log' = log ELSE Emit(Preemption(CHOOSE e \in open : TRUE, s))

RecoverForeground(c, t) ==
  /\ task[c][t].pc = "preempt"
  /\ Preempt(c, task[c][t].at)
  /\ Step(c, t, [task[c][t] EXCEPT !.pc = "settle"])
  /\ Stay

HandleForeground(c) ==
  /\ c \in up /\ fg[c] = 0 /\ inbox[c] # <<>>
  /\ Preempt(c, Head(inbox[c]))
  /\ fg' = [fg EXCEPT ![c] = Head(inbox[c])]
  /\ inbox' = [inbox EXCEPT ![c] = Tail(@)]
  /\ UNCHANGED <<now, up, task, left>>

CheckpointForeground(c) ==
  /\ fg[c] # 0
  /\ Checkpoint(c, fg[c])
  /\ fg' = [fg EXCEPT ![c] = 0]
  /\ UNCHANGED <<now, up, task, inbox, left>>

\* stop(): queued foreground events are dropped; what is running goes on, the
\* recovery of start() too.
Stop(c) ==
  /\ c \in up /\ left.crashes > 0
  /\ up' = up \ {c}
  /\ inbox' = [inbox EXCEPT ![c] = <<>>]
  /\ left' = [left EXCEPT !.crashes = @ - 1]
  /\ UNCHANGED <<log, now, task, fg>>

\* The process dies: its tasks, its subscription and its queue are gone.
Crash(c) ==
  /\ left.crashes > 0
  /\ up' = up \ {c}
  /\ task' = [task EXCEPT ![c] = [t \in Tasks |-> IdleTask]]
  /\ inbox' = [inbox EXCEPT ![c] = <<>>]
  /\ fg' = [fg EXCEPT ![c] = 0]
  /\ left' = [left EXCEPT !.crashes = @ - 1]
  /\ UNCHANGED <<log, now>>

-----------------------------------------------------------------------------
\* Others append to the log: revisions of the goal, findings, foreground demand
\* (published to every started worker).  record_calibration is conditional on
\* the intents being current.

Others(f) ==
  /\ left.facts > 0
  /\ f.type = "goal" => f.rev = CurrentRevision(log).rev + 1
  /\ f.type = "calibration" => IntentsAreCurrent(log, f.refs)
  /\ Emit(f)
  /\ inbox' = [c \in Consumers |->
                 IF f.type = "foreground" /\ c \in up THEN Append(inbox[c], Len(log) + 1)
                 ELSE inbox[c]]
  /\ left' = [left EXCEPT !.facts = @ - 1]
  /\ UNCHANGED <<now, up, task, fg>>

Tick ==
  /\ left.ticks > 0 /\ left' = [left EXCEPT !.ticks = @ - 1]
  /\ now' = now + 1
  /\ UNCHANGED <<log, up, task, inbox, fg>>

Run(c, t) ==
  \/ RequestScan(c, t) \/ Observe(c, t) \/ AbandonStale(c, t)
  \/ Reobserve(c, t) \/ ExpireEpoch(c, t) \/ StartEpoch(c, t) \/ Output(c, t)
  \/ Select(c, t) \/ RecordAgenda(c, t) \/ FinishScan(c, t) \/ Settle(c, t)
  \/ ReadBacklog(c, t) \/ Recover(c, t) \/ RecoverForeground(c, t)

Serve(c) == HandleForeground(c) \/ CheckpointForeground(c)

Next ==
  \/ \E c \in Consumers, t \in Tasks : Run(c, t)
  \/ \E c \in Consumers, t \in Callers : BeginScan(c, t)
  \/ \E c \in Consumers, t \in Starters : Start(c, t)
  \/ \E c \in Consumers : Serve(c) \/ Stop(c) \/ Crash(c)
  \/ \E f \in Facts : Others(f)
  \/ Tick

Spec == Init /\ [][Next]_vars

\* A task that can go on does, the bus delivers, and a dead worker is started
\* again; scans, other events and the clock may stop.
Fairness ==
  \A c \in Consumers :
    /\ \A t \in Tasks : WF_vars(Run(c, t))
    /\ WF_vars(Serve(c)) /\ WF_vars(\E t \in Starters : Start(c, t))

FairSpec == Spec /\ Fairness

-----------------------------------------------------------------------------
\* Safety.

\* No event that the worker appends is refused when the log is replayed: the
\* checks of _process_scan and of the append loops, made by tasks that
\* interleave, imply those of EndogenousProjection.apply.
Replayable ==
  [][\A n \in (Len(log) + 1)..Len(log') : Legal(SubSeq(log', 1, n - 1), log'[n])]_log

\* An agenda decides on all the activities its epoch will ever have, spends no
\* more than the budget, and leaves nothing it could still afford.
AgendasAreFinal ==
  \A n \in Of(log, "agenda") :
    LET d == log[n].agenda
    IN /\ d.selected \cup d.deferred \cup d.suppressed = ActivitiesOf(log, log[n].epoch)
       /\ FitsWithin(d.used)
       /\ \A a \in d.deferred : ~FitsWithin(Plus(d.used, a.topic))
       /\ \A a \in d.selected : NetVOC(a.topic) > 0

\* A question with the same evidence and intents is worked on in one epoch only,
\* whatever scans, preemptions and recoveries follow (docs/ENDOGENOUS_COGNITION.md,
\* "unchanged evidence and intent do not renew an unresolved inquiry").
InquiriesAreNotRenewed ==
  \A m, n \in Of(log, "activity") :
    log[m].inquiry = log[n].inquiry => log[m].epoch = log[n].epoch

\* What an epoch concludes stands: its agenda covers all of its activities, and no
\* later epoch asks its questions again.
EpochInv == TypeOK /\ AgendasAreFinal /\ InquiriesAreNotRenewed

\* Once foreground demand has been handled no epoch of an earlier cut is open,
\* nor is any opened later: handling it races the start of an epoch.
ForegroundWins ==
  \A c \in Consumers :
    LET handled == {fg[c]} \cup {log[n].upto : n \in {k \in Of(log, "checkpoint") :
                                                    log[k].consumer = c}}
    IN \A s \in handled \cap Of(log, "foreground") : \A e \in ActiveEpochs(log, c) : e > s

\* The consumer's checkpoint passes a scan only when its outputs exist or its
\* epoch is closed (docs/adr/0010-endogenous-cognition.md).
CheckpointAfterOutputs ==
  \A c \in Consumers, e \in Of(log, "request") :
    e <= CheckpointOf(log, c) /\ Active(log, e) => HasAgenda(log, e)

-----------------------------------------------------------------------------
\* Liveness.

\* Every scan and every foreground demand is eventually behind the consumer's
\* checkpoint: neither a crash, a lost intent nor a closed epoch makes it one
\* that recovery repeats for ever.
ScansSettle ==
  \A c \in Consumers :
    []<>(\A n \in Of(log, "request") \cup Of(log, "foreground") : n <= CheckpointOf(log, c))
=============================================================================
