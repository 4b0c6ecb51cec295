# A TLA+ model of the Noema agent SDK

These modules model the parts of `src/noema` that carry its protocols: the
transactional delivery of events between runtimes, the kernel that projects one
canonical log, the workers that follow the log behind a checkpoint, the
coordination of durable work, the actions of an agent, endogenous cognition, situated
continuity with the beliefs it writes, governed attention, and the stewardship of
intent. Each module is checked with TLC on small instances; all but the wakes of situated
continuity have theorems as well, proved with TLAPS for every value of their constants.

Paths below are relative to `src/`, and Python files without a directory are in
`src/src/noema/`. `PROJECT.json` gives for every definition the lines it translates,
for every property a mutation of the model that breaks it, and the list of the
hazards in this code that the properties are aimed at.

    tlc -workers 2 -config Kernel.cfg MCKernel
    tlapm DeliveryProofs.tla

## 1. The system: inventory

Noema is an event-sourced runtime for agents. All durable state is a log of events in
SQLite or PostgreSQL; everything else is a projection that is rebuilt from the log, or a
task that reads it. Concurrency is asyncio: within a process, steps interleave at every
`await`; across processes the store's transactions are the only atomic steps.

| Component (code) | State it keeps | Operations | Interacts with |
|---|---|---|---|
| Event bus (`events.py`) | a queue and a task per subscription, collected errors | `subscribe`, `unsubscribe`, `publish`, `drain`, `stop` | called by the kernel; calls every subscriber |
| Stores (`store.py`, `adapters/stores/postgres.py`) | `events`, `outbox`, `inbox` | `append`, `append_if_head`, `append_with_outbox(_if_head)`, `claim_/complete_/retry_` of outbox and inbox | under everything |
| Delivery (`delivery.py`, `adapters/brokers/nats.py`) | leases and tokens in the rows, JetStream's pending messages | `OutboxPublisher.run_once`, `InboxConsumer.process_once`, ack, nak | store, broker, `kernel.ingest` |
| Kernel (`kernel.py`) | situation, `_startup_sequence`, `_pending_broker_echoes`, emit lock | `start`, `emit`, `emit_if_head`, `ingest`, `history` | store, situation, bus |
| Situation (`situation.py`) | facts, beliefs, goals, commitments, version | `apply`, `rebuild`, `snapshot` | kernel, agents, detectors |
| Agent (`agent.py`, `authority.py`, `capabilities.py`, `attention.py`) | trigger queue, seen ids, idempotency ledger, attention leases, slots | `start` and recovery, `_handle_trigger`, `_execute_intent`, `stop` | kernel, capabilities, controller |
| Reasoning (`reasoning.py`, `models.py`, `adapters/models/openai.py`) | none | proposals, critics, selection | called by the agent |
| Scheduler, detectors, system, deployment | timers; cooldowns; the started services | `every`, `at`, `stop`; `start`, `stop` with roll-back | kernel |
| Checkpointed workers (`memory_worker.py`, `shadow.py`, `checkpoints.py`) | seen ids, checkpoint, epoch, projection, one lock | `start` with catch-up, `_handle_event`, `rotate_epoch`, `stop` | kernel and its bus |
| Autonomic fabric (`autonomic/`) | `RuleRegistry`, salience, epochs | registration, promotion, evaluation | shadow worker |
| Memory (`memory/`) | belief lineage, a fold of the log | `MemoryProjection.apply`, `MemoryRetriever.retrieve` | memory worker, continuity |
| Work (`work/`) | none between commands: `WorkProjection` is rebuilt each time | `plan`, `assign_ready`, `complete`, `recover_expired`, `invalidate_for`, `record_presence` | kernel, information policy |
| Intent (`intent/`) | projection of intents, outcomes, interpretations | `IntentStewardCoordinator`: `record_*`, `transition_commitment`, `propose_work_for_commitment`, `admit_work_order` | kernel, work |
| Information governance (`information/`) | projection of policies, lineages, bindings, quarantines, decisions | `decide_access`, `decide_disclosure`, `decide_declassification`; `InformationGovernanceAdmission`: `admit_*`, `declassify` | work, intent |
| Continuity (`continuity_worker.py`, `continuity/`) | source states and cursors | `SituatedContinuityWorker`: `record_source_state`, `wake` | connectors, memory |
| Endogenous cognition (`endogenous_worker.py`, `endogenous/`) | dream epochs, checkpoint | `run_scan`, `recover`, `preempt_for_foreground`, `expire_epochs` | kernel, checkpoints |
| Reconsideration and discovery (`reconsideration*`) | mandates, claims, epochs, trigger bindings | `record_mandate`, `revoke_mandate`, `run_scan`, `recover`, `link_outcome`; `run_trigger` of discovery | kernel, attention |
| Deliberative attention (`deliberative_attention/`) | opportunities, dispositions, checkpoint | conditional appends of opportunities, dispositions, outcome links and feedback | reconsideration |
| Telemetry, tracing, schemas | counters and spans | output only | all |

What is hard about them:

* **Delivery.** Leases run out while their holder works; workers die between two
  transactions; the broker redelivers and forgets duplicates. Correct when nothing committed
  is lost, a worker whose claim was taken over changes nothing, and all comes to rest.
* **Kernel.** Sequences are drawn before commits; deliveries come in any order and more than
  once; a start reads the log and the head at different times. Correct when the situation is
  the fold of the whole log, subscribers never hear of what the situation lacks, and an
  admission at a head is atomic.
* **Checkpointed workers.** Two tasks (bus and catch-up) compete for a lock; outputs come
  back as events; a crash lies between outputs and checkpoint. Correct when a checkpoint means
  complete outputs, and no trigger is answered twice.
* **Work.** Coordinators decide on a snapshot and append later, and an event is validated
  after it is appended. Correct when a node has one owner, order and independence of
  verification are kept, and the log can always be replayed.
* **Agent.** Effects are outside the log; a crash can fall between an effect and its
  record. Correct when an effect that must not be repeated is not, everything authorized gets
  an outcome, and attention does not leak.
* **Endogenous cognition.** Scans, recovery and foreground demand interleave on one epoch
  and one checkpoint, over intents that others revise. Correct when replay accepts what
  was appended, foreground demand closes what it preempts, and every scan settles.
* **Continuity and memory.** A wake is many appends, over sources that fail, with a projector
  that lags. Correct when nothing a source showed is skipped, beliefs keep the order of
  the world, and reports are honest.
* **Information governance and deliberative attention.** Policies reach derived information
  through lineages that change under the workers that use it. Correct when what is derived is
  governed as strictly as its sources, and the exposure record is complete up to its checkpoint.
* **Intent.** Commands capture what they saw and are admitted at a later head. Correct when
  none lands on a revision its caller never saw, and work serves current intent.
* **Bus.** With bounded queues a handler that publishes to itself blocks the kernel. Not
  modelled.
* **Reconsideration.** Workers of the pattern of endogenous cognition, with mandates and
  revocation on top. Not modelled.

## 2. Modules

    EventTransfer  <---implements--- Delivery           ---> DeliveryProofs
                                     Kernel             ---> KernelProofs
                                        |       (assumes of Delivery: a committed event
                                        |        is handed to every kernel, at least once)
                                     CheckpointedWorker ---> CheckpointedWorkerProofs
                                                (one kernel, seen from a process)
    WorkOwnership  <---implements--- WorkCoordination   ---> WorkCoordinationProofs
    EffectContract <---implements--- AgentActions       ---> AgentActionsProofs

                                     DreamEpochs        ---> DreamEpochsProofs
    Beliefs               <--- WakeCycle              (memory; a wake and the projector)
    InformationGovernance <--- DeliberativeAttention  ---> DeliberativeAttentionProofs
                                                      (decisions; the workers they bind)
    StrategicIntent       <--- Stewardship            ---> StewardshipProofs
                                                      (the projection; its commands)

The last four stand on Kernel and CheckpointedWorker: they take the log as a sequence that
grows by single appends. `emit_if_head` in a loop that reads the projection again is one step
whose guard is evaluated at the head it lands on (`AdmissionIsAtomic`); whatever was
read before the loop is in the state of its task, and may be stale. Contracts are
content-addressed in the code, so in the models an event is the record of its content.

`MCx.tla` instantiates `x.tla` for TLC. The abstract specifications are short enough to be
read as the promise of the component, without its workers, leases, logs and crashes.

### Delivery.tla

One outbox row per event, with status, lease (none, live, elapsed), due or in back-off, and
fencing token; one inbox row per message of the one durable consumer id (distinct ids share
nothing). Publishers and consumers have a program counter, so that a lease can elapse and a
worker can die between any two store or broker calls. The actions are
`append_with_outbox`, the three steps of `OutboxPublisher.run_once` (claim, publish, then
complete or retry per record), the steps of `InboxConsumer.process_once` (fetch, claim
with its dispositions COMPLETED, BUSY and ACQUIRED, handler, complete, ack or nak), crash and
restart, the clock, and the broker: a publish may be stored and still raise, a duplicate id
may be discarded or not, and what is not acknowledged is delivered again. `StoreMayFail` lets
a store call raise inside a worker's loop, which ends its task (`delivery.py:283` has no
handler).

### Kernel.tla

Several runtimes on one log. An insert draws its sequence and commits later, or takes the
exclusive lock if it is conditional (`postgres.py:166`), so a reader may see a sequence
before a smaller one. `kernel[k]` holds what the object holds: situation and version,
`_startup_sequence`, `_pending_broker_echoes`, and the events published on the local bus.
`_commit` is split at its awaits: insert, appended, finished (the branches of
`kernel.py:144-165`). A delivery is `ingest`, at any time, in any order, and again. The
situation is the set of projected events, as `rebuild` and `apply` go by sequence. An event that the
projection raises on (`Poison`) is in the log before anything normalizes it (`kernel.py:119`): no rebuild gets
past it, and what a kernel knows, or told its subscribers, beyond what a rebuild gives lies behind such an event
(`BehindPoison`).

### CheckpointedWorker.tla

`MemoryProjector` and `ContinuousShadowWorker` share a model; `worker`, chosen at the start of a
behaviour, says which of them it is (`projects`) and how much may happen to it. It has
a log of triggers, outputs, epochs and checkpoints; the subscription's queue; the catch-up
list of `start()`; and the lock with its holder `job`. Each emission is a step and feeds
the queue, the worker's own outputs included. It may raise with nothing appended (`Fail`), or after its append
(`FailLate`), published or not. The projector then reads the log anew; the shadow worker goes on with the `_checkpoint` it
has in memory, so its next record may regress, and `ConsumerCheckpointProjection` raises on that at every start
(`Ordered`, the guard of what a start reads). A `start()` that raises is a crash. Left out: an external event whose own
emission raises, which is a trigger or none, and metrics recorded after a checkpoint.

### WorkCoordination.tla

A coordinator keeps nothing; each command is a reload (the known prefix of the log), a
decision, and emissions that interleave with those of others. `Legal` is what
`WorkProjection.apply` accepts, and it is consulted where the code does: after the append, except for
plan acceptance, which is conditional on the head. One order, one graph shape for all plan
versions, a clock shared by the coordinators, one capacity for all agents.
Left out as data: manifests, competence (any present agent with capacity may be the match),
governed inputs, freshness.

### AgentActions.tla

The runs of an intent (`task`) by a worker cycle or by recovery, the attention account, the
slots, the ledger, the calls made, and the log of lifecycle events that recovery reads. Every
emission of a run, and of a start outside its runs, may raise before or after its append (`Raise`, `StartRaises`). A run
that raises ends the `gather` of its cycle (`agent.py:362`), and the others it started go on as `orphans` that
nobody awaits: `stop()` waits for the queue and the workers only (`agent.py:171-189`), and the next `start()` of the
same process, which keeps its ledger and its account, takes them for unfinished, and recovers or abandons them while they run
(`contested`). `unread` are the keys whose success is in the log and this process has not read. A crash
loses all but the log and the calls; a `start()` that raises leaves its workers running. Abstracted: any intent that fits
may be selected, policy may deny any, recovery takes up what is unfinished in any order (the code goes by
sequence, so the model allows more), and of the runs of a gather that raised those with no event yet may never
have been selected. `stop()` during `start()` is left out: the host awaits `start()` first
(`system.py`). Facts, events and reflections that follow an outcome are left out.
`Cost[i] <= Capacity` is assumed: `AttentionAllocator.select` never selects more.

### DreamEpochs.tla

`EndogenousShadowWorker` with the projection, detectors, contracts and greedy selector of
`endogenous/`. A task is where a coroutine is in `run_scan` or `recover`, with the cut, the
candidates and the clock it read; the foreground handler is a task of its own (`fg`). `Legal` is what
`EndogenousProjection.apply` accepts, and it is no guard: `Replayable` says the worker never
appends what it would refuse. `run_scan` needs no `start()`, and `stop()` may come while the recovery of `start()`
goes on. A belief is contradicted while another assertion about its subject has another `value`. The
agenda is a fold over the set of activities, least valuable
first in the recursion, so most valuable first in effect, as `_select_stable_greedy_v1` goes
through its sorted list. Left out: the
dimensions of a budget beyond activities and units, the validity interval of a belief and its supersession; value
and cost of a topic are constants.

### Beliefs.tla and WakeCycle.tla

`Beliefs` is `MemoryProjection` as functions of what it has applied: visibility at a valid and a
known time, temporal neighbours, belief, contradictions and what each event derives. `WakeCycle` is
`SituatedContinuityWorker.wake`, one append per step, the host that calls `record_source_state`
and reports facts between wakes, and the projector `proj` that follows behind. Freshness decays
linearly and not exponentially: planner and coverage depend on its order only. Left out: evidence
links, hypotheses, retrieval, metrics, orientation barriers.

### InformationGovernance.tla and DeliberativeAttention.tla

`InformationGovernance` holds the composition of policies over lineages and the decisions taken
from it, as functions of the log; three dimensions stand for all of a policy's (a rank, and
two allow-lists; the others compose like one of these). `DeliberativeAttention` has the worker
(`process_available`), the recorder's steps for dispositions, outcomes and feedback, the
observers and clients that call it, and a steward who binds and quarantines meanwhile. The
provider may say anything. A lineage is made in two steps, as in `_ensure_governed_derivation`: the composition of the sources
is read (`ComposeSources`), and the binding appended later at whatever head (`EnsureBinding`); and so is
the advance of a checkpoint, an append and a new reading of the projection (`ScanOn`). A worker passes over the log whenever it
is called; a pass in which no fact is new is bounded by the scenario (`passes`). A scenario starts from any history that a log can have (`WellFormed`, in
`StartAssumption`), with a steward who has what he likes to bind and quarantine. Left out: retention
and deletion, schema-1 policies, audit statistics, security receipts.

### StrategicIntent.tla and Stewardship.tla

`StrategicIntent` is `StrategicProjection`: what a goal, roadmap, commitment, transition,
proposal or order must satisfy live (`Validate...`) and on replay (`...Structure`), what each
event does to the projection `p`, coverage and health. `Stewardship` is the coordinator: a
command is a call that captures what the caller saw (`calls`), and an admission at a later
head that is accepted or refused. v1 events are upcast as `intent/schemas.py` does: they carry what v1 required, which of
a goal is not its success criteria, and a goal of a native kind without criteria is one that no rebuild
passes (`LegacyGoalStructure`; `intent/models.py:349-353`). A v1 goal may be created over a native one, and takes its owner.
The
projection stands for the log; `readable` says whether a rebuild of the log still succeeds.
A scenario starts from any projection that a log can have (`WellFormed`, in `StartAssumption`: numbered
revisions, kept lineage, acyclic governing, work that is derived from its commitment). Left out: work orders recorded without a proposal, and the health signal that is constant (dependency validity).

## 3. Runs

The first three columns are a run, its configuration, and what it is bounded by. An `...Inv` is a
conjunction of the type invariant and of the named parts in brackets.

| Run | cfg | Bounds | Checked |
|---|---|---|---|
| `delivery_safety` | `Delivery.cfg` | 2 events, 2 publishers, 2 consumers, batches of 2, 2 faults of any kind, the store may fail | `NoEventLost`, `ClaimsAreFenced`, `AckedOnlyWhenCompleted`, `RowsFollowClaims` (`FinishedRowsStayFinished`, `StaleWorkersChangeNothing`), refinement of `EventTransfer!SafeSpec` |
| `delivery_progress` | `DeliveryLive.cfg` | the same with 1 fault, no store failure, fairness | refinement of `EventTransfer!Spec` with its liveness, `EventuallyQuiet` |
| `kernel` | `Kernel.cfg` | 2 runtimes, an emission and an admission, 3 sequences (one may be drawn in vain), 2 crashes, no append during a start | `ProjectionInv` (`SettledIsProjected`, `PublishedIsProjected`), `AdmissionIsAtomic`, `Convergence` |
| `checkpointed_workers` | `Workers.cfg` | shadow worker: 3 triggers with 2 outputs, 2 crashes, 1 rotation, nothing live during a start; another: 1 trigger, 2 rotations, 1 emission that raises late; projector: 2 triggers, 2 crashes, an emission that raises and one that raises late, live events during a start | `CheckpointInv` (`CheckpointMeansComplete` of the shadow worker, `CheckpointsRebuild`), `OutputsOnce`, `CatchesUp` |
| `work_leases` | `WorkLeases.cfg` | 2 coordinators, 2 agents, work and its verification, log of 9, 3 ticks, late and rejected reports | `DependenciesFirst`, `VerifierIsIndependent`, refinement of `WorkOwnership` |
| `work_serialized` | `WorkSerialized.cfg` | 1 coordinator, all commands, log of 9, 2 ticks, events of others in between | `Replayable`, `CapacityIsKept` |
| `agent_actions` | `Agent.cfg` | 3 intents, two under one key, one neither idempotent nor cheap, attention of 2, 2 slots, 1 retry, 1 crash, any number of stops, 1 emission that raises | refinement of `EffectContract`, `SucceededKeysAreSkipped`, `AttentionInv` (`AttentionIsConserved`), `AuthorizedIsSettled` |
| `dream_epochs` | `Dream.cfg` | 7 scenarios: 1 or 2 scans, up to 3 findings, two beliefs that disagree that compete for a budget of 2, 1 event of others, 2 ticks, 1 crash | `EpochInv` (`AgendasAreFinal`, `InquiriesAreNotRenewed`), `ForegroundWins`, `Replayable`, `ScansSettle` |
| `wake_cycle` | `Wake.cfg` | 4 scenarios: 2 wakes, 3 sources, 3 observations of one key out of order, 2 budgets, a host and a lagging projector, 1 crash | `WakeInv` (`OrientationIsHonest`, `BudgetIsSpentWell`), `NothingIsSkipped`, `BeliefInv` (`TimelineIsKept`, `ContradictionsAreCurrent`), `Replayable` |
| `governed_attention` | `Attention.cfg` | 7 scenarios: 2 workers of one consumer or 2 observers or a client, 3 informations under 3 policies, a steward, 1 crash, 1 pass with nothing new | `ObservationInv` (`CheckpointMeansObserved`, `DenominatorIsExact`), `GovernanceInv` (`DerivationOnlyTightens`, `DecidedOnAdmittedSources`), `Replayable`, `EverythingIsObserved` |
| `intent_stewardship` | `Intent.cfg` | 7 scenarios of 2 to 4 commands by 2 stewards, 3 goals, revisions of one roadmap, 2 commitments, WIP limit 2, v1 events on legacy and on native goals, 2 ticks | `IntentInv` (`Replayable`, `WipIsBounded`, `GoalsKeepTheirLineage`, `ReferencesAgree`, `ObligationsCanEnd`), `NothingIsRebased`, `WorkServesCurrentIntent`, `CoverageIsEarned` |
| `intent_reasons` | `IntentReasons.cfg` | one steward, a commitment on a roadmap that comes to serve another goal | violates `OrdersServeLiveGoals` |

Why the bounds suffice to meet the interesting cases. Two workers and two faults let a lease
elapse under a slow holder and the second holder die in turn; a second event is needed for
batches and for the order of events. Two runtimes and three sequences let one kernel miss a
smaller sequence that commits late, with an aborted one in between. Three triggers let a
backlog hold one that is done, one in progress and one hidden. A log of nine starts with two
presences, a plan proposed and accepted, and has room for a grant, its expiry, a new grant, the completion and the verification's
grant; an invalidation takes the place of one of these (the theorems of section 5 need no such bound). Two scans and one preemption let a second scan meet an epoch that the first
left behind; a second wake finds what a crash left half written, and three observations of one key
let the last one learned fall between two others. Two workers of one consumer record the same
opportunity; information derived in two steps is quarantined between them. Two stewards are enough
for every captured command to be overtaken. Two intents under one key, two slots and one crash reach the ledger on both
sides of a restart and from two runs at once; one emission that raises is enough to orphan the runs of a cycle. Deadlock is not checked: every behaviour ends
when its bounded events are dealt with, and every worker may be waiting.

### What the violated run shows

**A work order may name a governing goal that is dead.** A commitment is suspended, its roadmap is revised to
serve another goal, and the commitment is reactivated on the new revision. `_record_transition`
(`intent/projection.py:915-942`) leaves its governing goals as they were, and nobody compares
them with the goals of the revision. When the old goal is cancelled and work is proposed, the
proposal must name exactly the commitment's goals, admission looks at the roadmap's, and the order
is admitted in the name of the cancelled goal. docs/INTENT_OUTCOME_STEWARDSHIP.md:185 requires "`ACTIVE` or
`BLOCKED` governing goals".

Other departures need only a constant changed, or a property that its module defines and no
run checks:

| Change | What TLC then finds |
|---|---|
| `Kernel.cfg` with `QuietStart = FALSE` | `SettledIsProjected`: `start()` rebuilds (`kernel.py:68`), then reads the head (`:69`); what another runtime commits in between, or commits late below that head, is not rebuilt and its delivery is dropped as history (`:151`) |
| `ShadowWorker` with `liveDuringStart` | `CheckpointMeansComplete`: a live event overtakes the catch-up; `OutputsOnce`: a rotation during the catch-up answers a trigger again under the new epoch |
| the second worker of `MCCheckpointedWorker` (`LateShadowWorker`), invariant `Ordered` | an emission that was appended and then raised leaves `_checkpoint` behind the log (`shadow.py:281-283`, `:387-395`); the next record regresses, and from then on every start raises on reading it (`checkpoints.py:127-134`) |
| `ShadowWorker` with `failures` 1 | `CheckpointMeansComplete`: the checkpoint of the next trigger passes the one that failed |
| `MemoryProjector` without `liveDuringStart`, and `CheckpointMeansComplete` without its premise | the projector's own output comes back on the bus while a backlog of two is replayed, takes the lock and is checkpointed with its higher sequence; the rest of the backlog counts as done (`memory_worker.py:108`; ADR 0004, decision 3) |
| the same with invariant `KnownIsAnswered` | an event the projection knew before a crash is not answered after it |
| `Kernel.cfg` with `Poison = {e1}`, invariant `ReplayReconstructs` | an event that cannot be normalized is in the log, and no rebuild passes it |
| `DeliveryLive.cfg` with one publisher, `StoreMayFail = TRUE` and `MaxFaults = 2`, property `FailedPublicationIsRetried` | a store outage in the publisher's loop ends its task, and nobody retries; with a second publisher the row is taken over when its lease runs out |
| `WorkSerialized.cfg` with `Reports = {"late"}` | `Replayable`: `complete()` does not ask whether the lease's graph is still the accepted one; the event is appended, then refused (`work/coordination.py:1278-1281`), and no coordinator can reload from then on |
| `WorkSerialized.cfg` with `Reports = {"rejected"}` or `{"old"}` | `Replayable`: a failed verification, or a presence older than the known one, is appended and refused |
| `WorkSerialized.cfg` with two coordinators | `Replayable`: racing coordinators grant the same node; `CapacityIsKept`, checked alone: each grants an agent its last place. ADR 0007 (docs/adr/0007, lines 133-134) defers several coordinators |
| `Agent.cfg` with `LiveDuringStart = TRUE` | `AuthorizedIsSettled`: workers run before `_restore_execution_state` (`agent.py:148`, `:169`); a trigger takes the attention that a recovered action needs, and recovery passes on without a record of it (`:718`). `ImplementsContract` and `SucceededKeysAreSkipped` hold, by what they except: a run of a cycle that starts meanwhile is taken for unfinished (`contested`), and may be abandoned and called after it, where docs/AUTONOMY.md:58 says that abandoned actions "must be proposed and authorized again"; and until the log is read, a key that succeeded before the restart can be dispatched (`unread`) |
| `Dream.cfg`, invariant `CheckpointAfterOutputs` | a second scan that finds an active epoch checkpoints itself (`endogenous_worker.py:253`) although that epoch has no agenda; docs/adr/0010-endogenous-cognition.md:127 excludes it |
| `Dream.cfg` with `Consumers = {c1, c2}` and `Scenarios <- TwoScenarios` | `EpochInv` (`InquiriesAreNotRenewed`), and `Replayable` and `ScansSettle` when they are checked alone: see below |
| `Wake.cfg`, invariant `AssertedOnce` | after a crash between an assertion and the source state the observation is fetched and asserted again (`continuity_worker.py:219-241`) |
| the third scenario of `MCWakeCycle` with `during` | `Replayable`: a source state the host records while a wake is running makes the wake's own, captured earlier, a regression that every replay refuses (`continuity/models.py:1073`) |
| `MCDeliberativeAttention` with another source policy for `w2`, of the same consumer | `ObservationInv` (`CheckpointMeansObserved`): the default consumer id does not depend on the policy (`deliberative_attention/service.py:716`), so the checkpoint of one policy's worker passes what the other's has not observed |
| the last scenario of `MCStewardship` with `"s2"` among the observers | `Replayable` (in `IntentInv`): an observation older than the last one is admitted live and refused by every replay (`intent/projection.py:788`) |
| `Intent.cfg` with a v1 `goal.created` on the native goal `g` that has no success criteria | `Replayable` (in `IntentInv`): the upcaster supplies an empty list (`intent/schemas.py:54`), the projection makes it the next revision of `g` (`intent/projection.py:953-1005`), and `GoalRevision` raises (`intent/models.py:349-353`) on every rebuild |

Two endogenous workers on one log poison it. An inquiry is identified by its question, intents
and evidence (`endogenous/models.py:664`), not by its causal cut or its consumer. `run_scan` drops
the candidates whose inquiry is known, but reads the projection for this before it starts its epoch;
when it comes to record an inquiry (`endogenous_worker.py:330`) and finds that another consumer has
recorded the same meanwhile, it compares all but the cut, goes on, and appends an activity for it at the later cut
of its own epoch. Every rebuild from then on raises "intrinsic activity cannot renew an inquiry from an
older cut" (`endogenous/projection.py:338`). docs/adr/0010-endogenous-cognition.md:203 requires that "an
unchanged or expired inquiry cannot mint a later-cut activity". With one consumer it cannot: this is
proved (section 5).

Further hazards met while reading, outside the instances: a `link_outcome` that fails after it wrote
the derived lineage cannot be repeated with other arguments (`deliberative_attention/service.py:528`); a malformed payload of a
recognized kind makes every exposure projection raise for ever (`deliberative_attention/projection.py:381`); two different quarantines of one
information poison its projection (`information/projection.py:173`); concurrent wakes, or a clock set back, leave "source state
regressed" in every later wake (`continuity/models.py:1073`); a v1 goal or commitment event on a native id
rewrites it without authority (`intent/projection.py:953`).

The ledger is consulted before the call and written after it, so `SucceededKeysAreSkipped` has two windows, which it
names: between the record of a success and the ledger another slot may dispatch under the same key; and
after an emission of `action.succeeded` that was appended and raised the ledger lacks the key until the
next start reads the log. With two slots two intents under one key may both be called before either succeeds.
An orphan makes both parties of `EffectContract!Attempt` real: the one authorization is worked on by the run that was left
behind and by the recovery, and the one may settle it under the other. `contested` names these intents; the theorem of section 5 says
that they are all, and that it takes a raised emission or an early trigger to get one.

## 4. Fairness

* **Delivery.** Every worker's loop is weakly fair (`_run` is a `while` loop), a worker that
  crashed is restarted by its supervisor, a live lease of a holder that is gone elapses, and back-off elapses.
  A lease under a live holder need not elapse. Faults are bounded, never fair.
* **Kernel.** A start and an open commit finish (weak). A delivery that Delivery still owes
  is made: strong fairness of `ingest` until it is settled, because a kernel may be busy with
  an emission again and again while redelivery goes on; this is what `EventuallyQuiet` and the refinement
  of `EventTransfer` give.
* **CheckpointedWorker.** The tasks of the event loop run, and a worker that is down is started.
* **Agent.** The tasks run, a capability returns or times out (`asyncio.timeout` in
  `_execute_intent`), each run for itself, and a supervisor starts the agent again. Selection is not fair.
* **Dream epochs.** The tasks of a process run, the bus delivers, and a worker that died is started
  again; scans, events of others and the clock may stop.
* **Attention.** A worker that runs calls `process_available` again, also after a call that raised;
  nothing makes a steward or an observer act.
* **Wakes and stewardship.** No liveness is claimed: `wake` and the commands are called by the host.
* **Work.** No liveness is claimed: commands are called by users of the library.

## 5. Proofs

Each proof file extends its module. The assumptions are the named `ASSUME` of the module, and say
only what types the constants have, that a node depends (transitively) on what it verifies
(`work/planning.py` refuses other graphs), that agents are finite, and, of stewardship and
attention, that a scenario starts from a history that a log can have (`StartAssumption`). Nothing else is taken on trust.
Some theorems have a hypothesis on the constants besides: it is part of the statement, it is what
the corresponding run has (but for the late shadow worker, whose one trigger nothing can pass), and the table of
section 3 shows what happens without it.

| Module | Hypothesis | Proved for every value of the constants |
|---|---|---|
| `DeliveryProofs` | none | `TypeOK`, `NoEventLost`, `AckedOnlyWhenCompleted`, `ClaimsAreFenced`, `RowsFollowClaims`, refinement of `EventTransfer!SafeSpec` |
| `KernelProofs` | none | `TypeOK`, `AdmissionIsAtomic`, `ReplayStopsAtPoison`, `PublishedIsProjected` |
| | `QuietStart` | `ProjectionInv` |
| `CheckpointedWorkerProofs` | none | `TypeOK`, `CheckpointsRebuild`; `OutputsOnce` of a projector |
| | `Undisturbed` | `OutputsOnce`, `CheckpointInv` |
| `WorkCoordinationProofs` | none | `TypeOK`, `DependenciesFirst`, `VerifierIsIndependent`, refinement of `WorkOwnership` |
| | `Serialized` | `Replayable`, `CapacityIsKept` |
| `AgentActionsProofs` | none | `AttentionInv` (`TypeOK`, `AttentionIsConserved`), refinement of `EffectContract`, `SucceededKeysAreSkipped` |
| `DreamEpochsProofs` | none | `TypeOK`, `ForegroundWins` |
| | `Alone` | `EpochInv`, `Replayable` |
| `StewardshipProofs` | none | `IntentInv` but for `Replayable`, `NothingIsRebased`, `CoverageIsEarned` |
| | `OneObserver` and `BareEventsStayApart` | `IntentInv` |
| | `ReasonsAreKept` | `WorkServesCurrentIntent` |
| `DeliberativeAttentionProofs` | none | `AttentionInv`, `GovernanceInv` |
| | `OnePolicyPerConsumer` | `ObservationInv` |
| | `FactsAreReadable` | `Replayable` |

**DeliveryProofs.** `TypeCorrect` is inductive by itself. `EventsAreNeverLost` and
`AcksFollowCompletion` are not: what a worker is about to do rests on what another did
before. `FlowInv` adds that a worker past a fetch holds a message, that each later stage
is backed by the one before it (a received event is in the stream, a stored one was
committed), that a published row has been sent, that a stored message is owed by the broker or completed, and that a
completed row was received. `DeliveryImplementsTransfer` follows with the
refinement mapping `stage`: one lemma per action shows that one event
advances by one stage, or that none does. `FencingIsExclusive` needs `FenceInv`: a claimed token is never above the
row's, so a new claim's token is new. `ClaimsRuleTheirRows` is about steps, and about all of a row: its status, lease, back-off
and token (`RowsFollowClaims`; a retry that leaves the row pending is a change too). A row that is not there yet is blank (`BlankRows`). It needs `RowInv`: a row is due while a
claim on it stands, because only the holder postpones it, and gives the claim up with that. So the token of a row says alone
whether an update finds it, and the update of a worker that lost its claim finds none.

**KernelProofs.** A conditional append takes its sequence under a lock that an unconditional one,
which draws its sequence long before it commits, holds in shared mode; so `AdmissionIsAtomic` must be
about the inserts in flight too (`AdmissionInv`): none of them has a sequence between an admission and
its head. `LogInv` says that sequences are unique, those in flight included, and that a kernel holds the
sequence of the event it holds. This is all that `AdmissionsAreAtomic` needs. `SituationInv` is inductive too, whatever the projection raises on: a situation
is part of the log, without the events that raise, and has what was
published and what is expected as an echo, but for what lies behind an event that raised; from it follows
`SituationsAreReconstructed`, for a rebuild reaches everything up to the first of these. That nothing is missing
from the situation (`SettledIsInTheSituation`) needs `StartInv`: what lies at or below the head that was read at
the start is in the situation, and no insert in flight will land there. Only `QuietStart` gives
this; without it `start()` reads the log before the head.

**CheckpointedWorkerProofs.** Whoever works has the last checkpoint of the log in memory (`CursorInv`),
so checkpoints never regress, and no rebuild raises: this holds for a projector whatever raises, since it reads the log after each
failure, and for a shadow worker until an emission of it raises after its append (`Told`). A projector has one epoch, so the id of
an output is its identity, and it is written once whatever fails. For a shadow worker the argument is
about its whole backlog (`BacklogInv`): each trigger past the checkpoint is at hand, once and in order,
as the one it works on, one of the replay, or one in the queue; the
replay comes first because nothing is live during a start. So a checkpoint passes no trigger but its own, whose
outputs are all written (`AnswerInv`); and when an epoch is rotated nothing is half answered
(`EpochInv`), so that no trigger is answered again under the next. `Undisturbed` asks this of shadow
workers only: their emissions do not raise, before or after the append, and no event reaches them while they start.

**WorkCoordinationProofs.** Coordinators know different prefixes, so a property of the log must follow
from what one of them knew when it decided. The invariant `IInv` is `TypeOK` (which includes
that what is known is in the log), `LeaseInv` (an id is stored once, and below a granted token
every token was granted and expired), `FrontierInv` (what a command still has to grant was
ready at its reload and stays so in what it knows) and `GrantInv` (a grant in the
log had its predecessors completed before it, and its agent apart from those it verifies).
What a coordinator knows may be old; but a token that another used meanwhile is an id
that the log has already, so a grant that gets into the log extends the very chain the coordinator read.
From `IInv` come `WorkFollowsDependencies`,
`VerificationIsIndependent` and `CoordinationImplementsOwnership`.

`LogStaysReplayable` and `CapacityIsRespected` are about one coordinator that reports only what suits
(`Serialized`). `SerialInv` says that between a reload and the last append of its command only
triggers of others came (`Current`), that the log is not ahead of the clock the command read, and that what the reload
allowed is still allowed (`Purpose`, one line per command). The
lemmas that carry it tell which functions of the projection a trigger leaves alone, and what
each kind of event changes; each command then appends an event of which `Legal` holds at the head.

**AgentActionsProofs.** No theorem has a hypothesis. `EffectsKeepContract`: for any number of intents, slots, retries,
crashes, emissions that raise, stops and starts, and with triggers during `start()` or without, the agent's actions implement
`EffectContract`. `EffectContract` is about the log and
the calls only, so the invariant `ContractInv` ties the runs to them: who is on the way to a call finds the authorization in
the log, and no outcome unless the intent is contested; of the runs of a cycle that a start finds, every one whose intent is
unfinished is contested; an intent that is not idempotent is not recovered, and was not called
before its only call. `RunStep` reduces the preservation to the one intent whose run moves. `NoneContested` adds
that with no early trigger and no raised emission nothing is left running, so nothing is contested.

`AttentionIsNeverLost`: what the runs hold is a sum over the set of those that hold
attention (`Leased(Held)`), and that set is finite in every reachable state though the intents need not
be. `LeasedGrows` says what one more run adds to the sum. `OneStep` then reduces every action to the run it moves:
what the move takes from the account is what the run's position says it leases; and a crash
empties both sides (`NothingIsHeld`). `AccountInv` adds what type correctness needs: how many attempts a run has
made at each position, and that a run about to remember its key has its success in the log.

`SucceededKeysStaySkipped` rests on `LedgerInv`: every key that succeeded is in the ledger, or that of a run that has
recorded its success and not yet written it, or one that this process has not read. A dispatch looks at the ledger in the
same step, so a key that succeeded is dispatched in one of these two windows only, with any number of slots.

**DreamEpochsProofs.** Foreground demand needs no hypothesis. `LogInv` says what a log of any
number of workers looks like: an epoch starts right behind its request (`emit_if_head`), a
consumer has one epoch open at a time, and none is open that a foreground event behind its checkpoint should
have closed. A task about to settle a foreground event has served it (`WorkInv`); an epoch that starts later starts
behind it, since only the head starts one. The other two theorems are about one consumer (`Alone`). What an epoch asks is settled
by its cut: `Questions(l, e)` are the findings at the cut of `e` that no epoch before it asked. While `e` is
open it is the only one that asks (`Asked`), so every scan or recovery of it, however they interleave and whatever
each has read, holds questions of this set only, with the others done (`Thought`), and any of them computes the same agenda
(`Answered`). Hence each append is one that `EndogenousProjection.apply` accepts. The invariant `JInv` was
checked on `Dream.cfg` before it was proved. Without `Alone`, `Asked` is what fails: that is the
second consumer's doing in section 3.

**StewardshipProofs.** A step appends nothing, or one event that replay accepts, but for a report on
external work (`StepEvents`, one lemma per action). `Applied` takes a projection that a log can have
(`WellFormed`) to another, event by event (`AppliedIsWellFormed`), whatever else is in flight: admission is
at the head, so what a call captured matters only where admission compares it. From `WellFormed` follow
`IntentIsCoherent`, and for steps `CommandsLandOnWhatTheySaw` and `CoverageNeedsWork`. That work in progress is bounded,
though every command is decided on signals that may be old, is a count over the
commitments of a roadmap that only activation enlarges. Two theorems have a hypothesis. `OneObserver`: replay
refuses a report that is dated before the one appended before it, and admission does not; two observers who await the log
can settle in the other order. With one, a report that awaits its turn is newer than all that are known (`ObserverInv`).
`BareEventsStayApart`: a v1 event without success criteria is of a goal that was never classified and that no command
revises, since replay refuses it of any other; such a goal then stays unclassified (`ApartInv`).
`ReasonsAreKept`: roadmaps serve the goals they were made for, which is what
`OrdersServeLiveGoals`, violated by `intent_reasons`, would need to hold.

**DeliberativeAttentionProofs.** A step appends nothing, the next fact, or one event that replay accepts, and
lets one process go on (`Advances`). `AttentionInv` says what a process remembers: positions in the log, receipts of
allowed accesses to the source's information in its order, and, once the provider is asked, one for every information. Since
nothing that was recorded is ever taken away, the others' memories stay true however the log grows. That derivation only
tightens rests on ancestry being closed under parents. It is computed by unfolding the parents as often as there are
records, and the closure is shown by counting: while an unfolding adds something, it adds one of finitely many.
A derivation has the ancestors of its sources, hence their policies, and composing more policies raises the
class, adds authorities, and leaves fewer purposes. For checkpoints, `CheckpointInv` adds that a pass has
observed what it recognizes in order. A worker that takes another's checkpoint for its own may skip what only it
recognizes, hence `OnePolicyPerConsumer`. The kernel appends a fact before anything decodes it, hence
`FactsAreReadable`: no fact to come is one that a policy of the history or of a worker recognizes and cannot read.

**Induction.** The library's induction theorems take an operator as a parameter and cannot be cited.
What a fold over a finite set computes can be shown all the same, by the least counterexample: the set of subsets
on which the claim fails is a set, a non-empty one has a minimal member (`WFMin`, for the well-founded
order of strict inclusion of finite sets), and a step of the fold refutes it. `DreamEpochsProofs` shows so
that a greedy agenda partitions its activities and keeps to the budget, and `KernelProofs` that a
non-empty finite set of sequences has a largest, `AgentActionsProofs` what a sum over a set computes, and
`DeliberativeAttentionProofs` what ancestry, a recursive function on the naturals, is. For this the agenda of `DreamEpochs` is a fold
over a set and not a recursive operator.

Only model-checked, not proved:

* every liveness property (`Convergence`, `CatchesUp`, `AuthorizedIsSettled`, `ScansSettle`,
  `EverythingIsObserved`, `EventuallyQuiet`, and the liveness of `EventTransfer`): out of the prover's reach;
* all of WakeCycle with Beliefs: `WakeInv`, `NothingIsSkipped`, `BeliefInv`, `Replayable`. What a plan spends is a fold over
  a sequence sorted by rank, so that `BudgetIsSpentWell` needs an induction over data. The others are within reach,
  and no proof of them has been written.

## 6. Not modelled, and the plan

Pure input and output (telemetry, tracing, schemas, command line, model adapters) and the
scoring arithmetic of salience, confidence and attention value are left out for good: they carry no
protocol state.

No module yet, for a reason of effort and not of reach:

* `EventBus` with bounded queues, `unsubscribe`, `drain` and `stop`, and the lifecycle of
  `NoemaSystem` that calls it. Kernel and CheckpointedWorker assume unbounded queues.
* Reconsideration and discovery: mandates, claims and epochs, on the conditional appends
  and the checkpoint discipline that DreamEpochs and DeliberativeAttention already check.
* The rule registry of the autonomic fabric, scheduler and detectors.
* Facts, beliefs and confidence of the situation, evidence and retrieval of memory,
  retention and deletion of information.

What is worth proving next: of wakes `NothingIsSkipped`, whose argument is that a cursor passes only what was asserted
before it, and `Replayable`, by the way of `DeliberativeAttentionProofs`.
