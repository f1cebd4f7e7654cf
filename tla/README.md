# Verification of stochastic-warfare in TLA+

stochastic-warfare simulates military campaigns: a Python engine advances a
scenario in intervals of varying length, and a FastAPI service runs simulations
and Monte Carlo batches in the background for its clients. This directory holds
TLA+ models of the parts of it whose correctness rests on order, interleaving,
failure and recovery, the TLC runs that check them on small instances, and
theorems about them proved with TLAPS for every value of their constants.

Paths are relative to the repository. `api/...` is the service,
`stochastic_warfare/...` the simulator.

1. [The system](#1-the-system)
2. [The modules](#2-the-modules)
3. [What each run checks](#3-what-each-run-checks)
4. [Fairness](#4-fairness)
5. [What is proved](#5-what-is-proved)
6. [Disagreements found](#6-disagreements-found)
7. [What is not modelled](#7-what-is-not-modelled)
8. [Plan](#8-plan)

## 1. The system

### The service

| component | state | operations | what makes it correct |
|---|---|---|---|
| background jobs, `api/run_manager.py` | semaphore, lifecycle lock, `_tasks`, `_cancel_events`, progress queues, `_closing`, `_closed` | `submit`, `submit_batch`, `cancel`, `cancel_and_wait`, `shutdown`, and the task of each job | a job whose cancellation was acknowledged never completes; every live row has an owner; permits bound threads; shutdown leaves nothing behind |
| progress feeds, `subscribe`, `_put_progress`, `_signal_terminal` and the WebSocket handlers of `api/routers/runs.py` | a bounded queue for each subscriber | post from a thread, deliver on the loop, read, send, disconnect | order; the sentinel reaches every subscriber, full queue or not; slow clients never hold a job up |
| run database, `api/database.py` | rows of runs and batches, one connection, a write lock | create, update a status, delete, close, initialize | status transitions; nothing written after a deletion or closing |
| lifespan, `api/main.py` | the order of opening and closing | start, shutdown | the database is closed last |
| routers and schemas | none | reads and conversions | pure |

One event loop runs the requests and the jobs' tasks; the simulation itself runs
in executor threads. A thread talks to the loop through
`call_soon_threadsafe` (progress, queue by queue) and, for a batch,
`run_coroutine_threadsafe` (progress that is stored); the loop talks to a thread
through a `threading.Event`, read between two units of work. The loop and the
handlers share the lifecycle lock. This is the concurrent half of the system: the
hard behaviours are a cancellation that arrives while a finished job waits for
the lock, a shutdown during a submission that prepares its scenario in a thread,
a deletion during anything, cancelled tasks whose threads cannot be stopped, and
writes that fail.

### The simulator

| component | state | operations | what makes it correct |
|---|---|---|---|
| interval loop, `simulation/engine.py` | resolution, last victory, failure latch, suppressed failures, checkpoints | `step`, `run`, `finalize`, `checkpoint`, `set_state` | results hide no failure; a resumed run ends as the uninterrupted one |
| clock, `core/clock.py` | tick, elapsed time, duration of a tick | advance, `set_tick_duration`, capture, restore | elapsed time is the sum of what was simulated at each resolution |
| receipts, `simulation/performance_flags.py` and its use in `simulation/battle.py` | counters of tactical intervals, state of a transaction | begin, commit, poison | one entry for each tactical interval, over failures and restores |
| recorder, `simulation/recorder.py` | current tick, events, snapshots | record, record a tick, restore | events are found under the tick they happened in |
| battle manager, `simulation/battle.py` | battles, level-of-detail tiers, caches | the phases of a tactical tick | the tick is observed and published as one transaction |
| scan cadence, `detection/cadence.py` | interval ordinal, phase registry, deadlines of each sensor | stage, promote, commit, abort, restore | no starvation, no bursts, restorable at every boundary |
| campaign manager, `simulation/campaign.py` | reinforcements and events that are due | detect engagements, arrivals | each arrival once |
| time-on-target fires, `combat/indirect_fire.py` | missions, batteries, committed ammunition | schedule, fire, impact | each round fired and counted once, at its time |
| logistics, `logistics/runtime.py` and stocks | carried-over time, activity of units, stocks, roads | advance by fixed quanta, note activity | each boundary takes effect once; time and stocks are conserved |
| aggregation, `simulation/aggregation.py`; morale, `morale/`; reinforcements, `simulation/scenario_loader.py` | aggregates, records of morale, rosters, loadouts | merge, split, add a wave, transition, rout | commit or roll back in all owners; a split gives back what was merged |
| command, `c2/`, `simulation/battle_ooda_executor.py` | OODA timers, planning states, orders on their way, which decision waits in which battle | advance, plan, defer, deliver, release | a decision is planned and sent once, waits a bounded time, and ends with its battle |
| escalation, `escalation/` | ladder level, cooldowns, ceasefire | escalate, de-escalate, end | bounds, cooldowns |
| events and random streams, `core/events.py`, `core/rng.py` | subscriptions; generator states | publish, subscribe; draw | dispatch order; the same seed gives the same run |
| numeric models: damage, engagement, movement, terrain, weather, electronic warfare, space, CBRN, population | physical quantities | integrate, propagate | numeric accuracy |
| scenario loading, analysis tools, validation, legacy readers, frontend, scripts | configuration, results | load, aggregate, plot | validation |

The engine is sequential. Its hard behaviours are exceptions: one may leave an
interval after some owners of state have moved and others not, the caller of
`step` may call again, a degraded engine goes on by itself, and a checkpoint may
be taken and restored around all of that. Every owner that takes part in a
transaction (stage, validate, commit, abort) and every restore must agree with
the others.

`PROJECT.json` lists the same components with their sources and status, and the
hazards of the code line by line, each with the properties that would catch it.

## 2. The modules

| module | models | kind |
|---|---|---|
| `JobLifecycle` | what a client is promised about a background job | abstract specification |
| `RunManager` | jobs, database rows, lifespan, DELETE | detailed specification, properties, refinement of `JobLifecycle` |
| `RunManagerInvariant` | | inductive invariant |
| `RunManagerProofs` | | theorems |
| `MCRunManager` | | TLC instance |
| `ProgressStream`, `MCProgressStream`, `ProgressStreamProofs` | progress of one job to its subscribers | specification, properties, TLC instance, theorems |
| `Engine` | the stages of an interval, failures, checkpoints | specification and properties |
| `EngineInvariant`, `EngineProofs`, `MCEngine` | | inductive invariant, theorems, TLC instance |
| `ScanCadence`, `MCScanCadence`, `ScanCadenceProofs` | which sensors scan when, tiers of units, the interval's transaction | specification, properties, TLC instance, theorems |
| `FireSchedule` | what a scheduled fire mission promises | abstract specification |
| `TimeOnTarget`, `MCTimeOnTarget`, `TimeOnTargetProofs` | scheduled fires: the resolver, the boundaries, the weapons they share with battles | specification, properties, refinement of `FireSchedule`, TLC instance, theorems |
| `Aggregation`, `MCAggregation`, `AggregationProofs` | merging, splitting and reinforcing over all owners of a roster, morale | specification, properties, TLC instance, theorems |
| `SupplyBooks` | what the logistics of a side promise | abstract specification |
| `Logistics`, `MCLogistics`, `LogisticsProofs` | fixed boundaries within ticks of varying length, resupply, idle consumption | specification, properties, refinement of `SupplyBooks`, TLC instance, theorems |
| `DecisionCycle`, `MCDecisionCycle`, `DecisionCycleProofs` | OODA phases, planning and orders of commanders over battles | specification, properties, TLC instance, theorems |

In each module a definition named `Mut...` is a variant of the definition that
follows it, with a bug somebody might plausibly write. Nothing uses these; each
documents which property notices which bug (`PROJECT.json`, `mutants`).

### RunManager

One action is what a coroutine does between two awaits. `pc[j]` names the await at
which job `j` is suspended; the first values are those of the submitting request,
the later ones those of the job's task. A job is a run or a batch; both share
the protocol, and a batch stores its progress in addition.

| code | actions |
|---|---|
| `submit`, `submit_batch`, `_submit_prepared` | `SubmitCheck` (the closing check, before the scenario is prepared), `SubmitEnter` (under the lock), `SubmitResume` (registers Event and task), `ScheduleFails`, `ScheduleFailedResume` |
| `_execute_run`, `_execute_batch` | `TaskStart`, `AcquirePermit`, `WorkerOutcome`, `CompleteEnter`, `CompleteResume`, `TaskEnd`, `Drained` |
| `_await_worker`, cancellation of a task | `TaskCancelled`: at each await it does what the handlers and `finally` blocks there do; with a live thread the task first drains |
| `_run_sync`, `AnalysisRunner.run_variant` | `WorkerCheck`, `WorkerWork`, `WorkerReport`, `WorkerReportFault` |
| `cancel`, `cancel_and_wait`, `delete_run` | `Cancel`, `DeleteStart`, `DeleteSignal`, `DeleteWake`, `DeleteCommit` |
| `shutdown`, `_finish_shutdown`, `lifespan` | `LifespanExit`, `ShutdownSignal`, `FinisherGathered`, `FinisherClosed`, `LifespanWake`, `LifespanCancelled`, `CloseDb` |
| `Database._execute_write` | `Commit`, `WriteRefused`, `WriteFault`: the write is durable before the coroutine that made it resumes |
| a crash and `Database.initialize` | `Restart` |

The status a suspended write will commit, and where its coroutine goes on, are the
tables `Written` and `AfterCommit`. History variables (`acked`, `killed`,
`faulted`, `aborted`) remember what the code forgets and the properties speak of.

`JobLifecycle` is the client's view: a status that moves forward, acceptances,
acknowledged cancellations, deletions. `RunManager` instantiates it with
`status <- row` and `promised <- acked`.

### ProgressStream

One job, a thread that produces `Ticks` messages and posts each to the queues
it sees, the loop's scheduled callbacks in order, a bounded queue per subscriber,
and a handler per subscriber: `Accept`, `Subscribe`, `Get`, `Send`,
`Disconnect` at any await. `PutProgress` drops the oldest message of a full
queue; `SignalTerminal` makes room for the sentinel. A run posts to a snapshot
of queues one after the other and handlers subscribe in between; a batch waits
for the loop to store each progress.

### Engine

`pc` is the stage inside `step`: `BeginInterval` (gates, resolution, clock),
`Campaign`, `OpenReceipt`, `Fight`, `Evaluate`, `Conclude` (automatic checkpoint,
limits). Whether failures are suppressed (`strict_mode`) is a variable that never
changes, so that one run covers both modes. `Fail` may happen in every stage,
`Suppress` only where the code catches it and the engine is degraded, `Raise` is
the way out of `step` with its latch.
`Run`, `CaptureFrame`, `Finalize`, `Checkpoint`, `Restore` and `Tamper` (the
public `set_tick_duration`) are what consumers do: the service drives the engine
with `step` and `finalize`, analyses with `run`.

What the forces do is a choice, drawn when a tick is simulated for the first time
and kept in `world`, since a seeded run repeats it after a restore. It is reduced
to what the loop tells apart: quiet, closing in, contact, breaking off, a victory
condition; a contact that is auto-resolved on the spot counts by what it leaves. `ledger`, `fights`, `failed`
are what truly happened behind a state; they travel with a checkpoint, so that
the properties can compare a state's evidence with its history. `Acceptable` is
what a restore demands: a checkpoint that agrees with itself (`Consistent`) and
whose time lies within the scenario's duration and one longest tick more
(`WithinHorizon`, `simulation/runtime_context.py` 1551-1564). `get_state` does
not ask for the latter.

### ScanCadence

`Stage` is `stage_interval` for a complete roster together with the tiers the
battle manager computed: it assigns phases to attachments never seen before
(`Assign`), lets deadlines that have passed make their axes ready (`Accrue`),
applies changed periods (`ChangePeriod`) and decides (`Decide`). `Promote` is
`stage_witness_promotions`, `Commit` the publication by all owners, `Abort`
the poisoning, `Damage` the promotion of units that were hit. Distances are
abstracted to the tier they would give; which units are active, where they are
seen and which sensors operate is a choice in every interval.

Scan scheduling and level of detail are retired in production: the scheduler
works with both, but a runtime with either on is refused, and so are its
checkpoints, taken or restored (`simulation/performance_flags.py` 234-297,
`docs/specs/checkpoint-state.md` 384-393). The two settings are the variable `flags`,
which never changes. With both off every period is 1 and every operational sensor
scans in every interval; what `NotStarved` says beyond that, and all of `NoBurst`,
`PromotionServed` and most of `ClaimsKept`, is about configurations that would
matter if the flags came back. `OwnersAgree` is what `stage_state` and the check of
the tiers in `detection/fog_of_war.py` demand, `Supported` what
`resolve_supported_runtime_performance_flags` does, and `Acceptable` is both.
`Restorable` states the first in every configuration, and acceptance in the
supported one.

### TimeOnTarget

| code | definitions |
|---|---|
| `TimeOnTargetMissionResolver`: boundaries, magazines, rates | `ScheduleResolves`, `ResourcesResolve`; `Init` takes every declared plan that resolves |
| the tick of the engine | `BeginInterval`, `FiresDone` |
| `update_time_on_target` of `combat/indirect_fire.py`: what is due, in its order | `Due`, `Precedes` |
| `_process_scheduled_fire` | `ProcessScheduledFire`, with the reasons for which a battery is rejected in the code's order (`Rejection`) |
| `_complete_scheduled_mission` | `CompleteScheduledMission` |
| `_publish_committed` | `Publish`: each observer may raise, which is suppressed in a degraded run |
| `is_attachment_reserved` and the routing of fire in a battle | `Reserved`, `ExternalFire` |
| damage and morale in battles | `Damage`, `Morale` |
| `stage_state` | `Acceptable`: of each mission, each battery, and the history of each weapon |

`FireSchedule` knows a time and a set of open milestones: each is served at its own
time, an impact after all fires, and time passes none. `TimeOnTarget` instantiates
it with the milestones that are still pending.

### Aggregation

An operation (`BeginMerge`, `BeginSplit`, `BeginReinforce`) checks its
preconditions and lays down its steps, one per owner, in the order of the code:
`CommitMorale`, `RemoveProxy`, `CommitRoster`, `CommitLoadouts`,
`CommitTargeting`, `CommitAggregates`, `Validate`. `Raise` may stop it before every
step, and `Rollback` undoes it as the code does: most owners from copies, morale
step by step from the plan (`RollbackMorale`). Between operations morale changes
(`CheckTransition`, `ForceTransition`, `CheckRally`, `RoutCascade`), units are
destroyed and proxies move. A record of morale is its state and a generation,
since the code compares whole records and every change sets a time. What the
owners must agree on (`OwnersBound`, `AggregatesBound`) is a statement about a
record of them, since an operation keeps such a record for its rollback. The
lists of a side are written out as the code writes them: copied without some
units (`Kept`), and extended at an index (`Inserted`); reinforcements arrive in
any order.

### Logistics

| code | actions |
|---|---|
| clock and `register_dynamic_units` at the start of a tick | `Arrive`; after a failure too, when the caller steps on |
| `update`: chronology, sampled activity, time taken in | `Sample`; after a failure it may be called again for the same time |
| `_run_quantum` | `BeginQuantum` (network update), `Resupply`, `ConsumeIdle`, `Commit`; `Raise` with `Rollback` between them |
| `StockpileManager.publish_events` | `Publish`, whose observers may raise after the commit |
| the rest of the tick, `note_interval_activity` | `Work` |
| `stage_state` | `Acceptable` |

`SupplyBooks` has the boundary, the depot, what units carry, since when they
are there and which of them have been active, and one action that serves a
boundary whole. In `Logistics` a boundary is several steps, which the refinement
hides by showing, until its commit, the stocks to which a failure would return.

### DecisionCycle

`Travel` is a tick without a battle, in which planning and orders go on and OODA
timers stand still; `BeginTactical` is the start of one with a battle. It
makes the list of completions that `_process_ooda_completions` works through, and
each is one action, by what the executor does with it: `PassPhase`,
`AwaitOrder`, `Mature`, `Skip`, `AwaitPlan`, `InitiatePlanning`,
`PropagationFails`, `Queue`, `DecideAtOnce`. `Fight` and `Resolve` end the tick, the
latter with the release of what waits in the battle. `Claimed` and
`AcceptableClaim` are what a restore infers from a checkpoint and what it
demands of it, since the owner of a waiting decision is not written down.

## 3. What each run checks

All runs set `CHECK_DEADLOCK FALSE`: a service that was shut down, a finished game
and a bounded history really stop.

| run | instance | shows |
|---|---|---|
| `RunManagerFaults` | a run and a batch, one permit, two units of work, one failing write or scheduling, cancelled tasks, a crash, a cancelled lifespan; 2.5 million states | the inductive invariant `IInv`, `WorkerOwned`, `DbOutlivesJobs`, `CancelHonoured`, `RowOwned`, `DeletedIsOver`, `TerminalStable`, `ClosingRefuses`; undisturbed, the manager moves as `JobLifecycle` allows (`LifecycleStep`) |
| `RunManagerLive` | one unit of work, one fault, each task may be cancelled | `TasksEnd`, `ShutdownCompletes`, `DeletesAnswered` |
| `ProgressFeed` | two subscribers, queues of two, three messages, a run or a batch | `TypeOK`, `FeedOrdered`, `SentinelDelivered`, `SubscribersAreTold` |
| `EngineModes` | strict or degraded; durations 4, 2, 1; three ticks, limit of six seconds, checkpoint every second tick, one failure, one restore, one outside change; 2.8 million states | `IInv`, `LedgerBalances`, `ResultsAccount`, `CheckpointsSound`, `ResumedRunsAgree`, `NoOvershoot` |
| `ScanCadence` | scan scheduling and level of detail off as in production, or either or both on; two units with a sensor each, one phase group of period 2, level-of-detail periods 2 and 3 beside every interval, hysteresis 2, four intervals; 2.1 million states | `Restorable`, `NotStarved`, `PromotionServed`, `NoBurst`, `ClaimsKept` |
| `TimeOnTarget` | two missions, two batteries, cadence 2, horizon 8, magazines of 3, one mishap, one change of status by a battle | `Restorable`, `NeverOverbooked`, `Announced`; it implements `FireSchedule` (`KeepsSchedule`) |
| `Aggregation` | a side of three and a reinforcement, two proxies, three events between operations, one exception; 2.2 million states | `Restorable`, `RoundTrip`, `AllOrNothing` |
| `Logistics` | two units, one of them arriving; interval 2, ticks of 1, 3 and 4, six seconds, one exception; 1.8 million states | `Restorable`; it implements `SupplyBooks` (`BooksKept`) |
| `DecisionCycle` | two commanders, tactical ticks of 4, others of 1 and 5, phases and delays of 1 and 3, two ways of planning, three battles | `Restorable`, `Owned`, `OnceEach`, `WaitBounded` |
| `EngineExpired`, `EngineFrames`, `DecisionRestore` | | disagreements, see section 6 |

In the modules with a checkpoint of their own, `Restorable` also states the types
of the variables.

Why the bounds are enough to be interesting:

- Two jobs and one permit are the least with which one job waits for the permit
  and for the lock while the other holds them, and with which shutdown gathers
  one task that runs and one that waits. Run and batch differ in the code, so
  there is one of each. Two units of work let a cancellation fall before, between
  and after them. Each fault happens once, since the code has no retry whose count
  would matter.
- Queues of two overflow with three messages, before the sentinel and at it; a
  second subscriber is one that may come and go while the thread walks the list.
- A strategic tick worth four tactical ones does not divide the time limit of six,
  so limits are passed and hit exactly; three ticks contain an automatic
  checkpoint, an interval after it, a failure, a restore and the end.
- With both flags off the instance is the configuration of production. With them on,
  native period 2 and level-of-detail periods 1, 2 and 3 drift against one another;
  with two attachments of one group the second has another phase; four intervals
  see a demotion confirmed, a deferral, the scan that recovers it and a return.
  `NotStarved` speaks of three intervals in a row.
- Two missions on two batteries are the least that share a weapon, with one
  partial mission. The declared plans include times between boundaries and
  magazines that are overbooked, which the resolver must refuse; a magazine of
  three serves two rounds and one. One unit that is hit and one observer per
  event that raises are enough to reject, to miss and to interrupt. A battle changes
  one status; that a unit is hit after its rout, or rallies, is left to the
  theorems.
- Three units listed out of the order of their names, of which two merge, tell
  positions, names and original indexes apart. A second proxy meets the archive of
  the first. Three events rout a proxy, rally it and spread it again.
- Ticks of 1, 3 and 4 against an interval of 2 cut boundaries in the middle of
  a tick, at its end, and two of them in one tick; six seconds hold three
  boundaries. A depot of three runs dry, a road wears out, a unit arrives between two
  boundaries.
- Ticks of 5 outlast any phase and any delay as ordered, delays of 1 and 3 and
  phases of 1 and 3 end within a tactical tick of 4, and a delay that was
  misunderstood lasts twice as long and beyond it. A tick of 4, longer than a
  delay, is what makes a commander wait for a tick that is lost at the end of it. One way of planning is cut
  short by its budget, the other has more phases than a tick can pass. Three
  battles let a commander plan in one, fall out for the next and return.

Some properties deserve a word on what they would miss otherwise.
`DbOutlivesJobs` excepts lifespans, and `CancelHonoured` and `TerminalStable`
tasks, that were cancelled by the loop. `ResumedRunsAgree`, and the part of
`CheckpointsSound` about the horizon, except runs resumed from a checkpoint past
the time limit. Section 6 says what happens in those cases.
`RowOwned` excepts jobs hit by a failing write or lost in a crash: their rows may
keep reading pending or running, which `TasksEnd` and `TerminalStable` do not see.
`SubscribersAreTold` is promised to a client that reads or disconnects and to no
other; it holds under `JobSpec`, fair to the job alone, so that no client can hold
up another or the job. `DecisionCycle`'s `Restorable` excepts commanders with a plan
of an earlier decision, for whom section 6 shows the contrary. `RoundTrip` compares
the roster after a split with the one before the merge, through whatever joined
or was destroyed in between; `evolved` remembers proxies whose morale was touched
even if it came back to the same state.

## 4. Fairness

- **Coroutines** (`CoroutineStep`, `DeleteStep`, `ShutdownStep`): strong fairness.
  The loop resumes every ready coroutine, and `asyncio.Lock` and
  `asyncio.Semaphore` serve their waiters first come first served. The model has
  no queue of waiters: a lock that is free again and again must be
  obtained by who waits, which is strong fairness.
- **Threads** (`WorkerStep`): weak fairness. An executor thread runs, and nothing
  it does is disabled by others. The executor is assumed to have room:
  `max_concurrent` permits are fewer than its threads.
- **Progress** (`JobSpec` of `ProgressStream`): weak fairness of the thread,
  the loop's callbacks and the task. Clients get none. A client's own fairness
  (`FairClient`) is a hypothesis of `SubscribersAreTold`, for that client.
- **Requests, faults, cancellations, crashes**: none; they need not happen.
- `Engine`, `ScanCadence`, `TimeOnTarget`, `Aggregation`, `Logistics` and
  `DecisionCycle` are checked for safety only. They advance when their caller
  does, so no liveness is promised. What must happen in simulated time is bounded
  and thus an invariant: `NotStarved`, `WaitBounded`, and the abstract
  schedules, whose time cannot pass an open milestone or a boundary.

## 5. What is proved

Every module with theorems speaks of all values of the constants: all finite sets
of jobs, units, missions and commanders, all capacities, durations, periods, rates
and magazines, all bounds on faults, restores and time. The proofs use the named
`ASSUME`s of the models and nothing else: that sets are finite where code counts
them, that runs are not batches, that durations, periods and permits are positive.
Each component has one inductive invariant `IInv`, which TLC has checked on the
component's instance before its proof, and the properties follow from it.

**RunManager.** None of the properties is inductive. That an acknowledged job
does not complete needs that a job in the completion section holds the lock
(`LockInv`), so that no acknowledgement falls inside it, and that an acknowledged
job that may still enter it carries its Event (`AckInv`). That its Event is still
there needs the relation of the registries to program counters (`RegistryInv`).
That the database is closed last needs that after the signal every task is in the
snapshot that shutdown waits for and no submission gets past the lock
(`ShutdownInv`). That a deletion is final needs where a job is while its DELETE
waits (`DeleteInv`) and which rows go with which awaits (`RowInv`, `BlameInv`).
That permits bound threads needs that only permit holders own one (`WorkerInv`,
`PermitInv`), and a cardinality argument at `AcquirePermit`. `IInv` is their
conjunction; `RunManagerFaults` checks it under every kind of fault before it
is used. The proof goes action by action; each action has a step for the
conjuncts it can disturb.

From it follow `TypeCorrect`, `CancelIsHonoured`, `RowsAreOwned`,
`WorkersAreOwned`, `DbClosesLast`, `DeletionIsFinal`, and the action properties
`ClosingIsFinal` and `TerminalIsStable`. `ImplementsLifecycle` is the safety half
of the refinement: in an instance without faults, cancelled tasks, crashes and a
cancelled lifespan (`NoDisturbance`), every step of the manager is a step of `JobLifecycle` or
leaves its variables alone. The run `RunManagerFaults` checks the same steps as
`LifecycleStep`; liveness stays with `RunManagerLive`.

**Engine.** `LedgerBalances` is nearly inductive for the clock, and not for the
receipt: between `BeginInterval` and the commit the ledger is ahead, and after a
failure it stays ahead for good, but then the engine must be latched or on its way
out. `EvidenceInv` says where the account may differ and by how much; `StageInv`
says what is known inside an interval; `Sound` says of every saved checkpoint
what restoring it must re-establish, which is what makes the argument survive
`Restore`. From `IInv` follow `EngineTypeCorrect`, `BooksBalance`,
`ResultsOwnUp`, `CheckpointsAreSound` and `NeverOvershoots`. That checkpoints lie
within the horizon needs the course of the next paragraph: a tick on it begins
before the time limit and lasts no longer than the longest.

`ResumedRunsAgree` relates two results, which may lie several restores apart, and
no comparison of what is live or saved is inductive: the state a run passed
through need not be kept anywhere. The history `world` keeps it: with what
happened at a tick, the resolution and the elapsed time it was first simulated
with. `CourseInv` says that these ticks follow from each other (`Course`), and that the live
engine at each stage, every checkpoint and every result lies on that one course.
`BeginInterval` either finds its next tick on it or extends it at its end, which
no run has passed; results and terminal checkpoints lie at its last tick, because a
tick that decides the run is never followed by another. `ResumedRunsHaveOneOutcome`
follows. The exception of `ResumedRunsAgree` is where the argument stops: a
checkpoint past the time limit resumes a run behind the end of its course.

**ProgressStream.** That a client sees ticks strictly ascending needs an order
over four places at once: what was sent, what the handler holds, what its queue
has, what still hangs in the loop's callbacks or in the thread's snapshot of
queues (`OrderInv`, `FlowInv`). That the sentinel reaches whoever is connected needs
that the wake-up is the last callback (`JobInv`) and that who is connected is
subscribed until the job ends (`ConnectedInv`). `FeedsAreOrdered` and
`SentinelsAreDelivered` hold for queues of any size; for them `PutProgress` and
`SignalTerminal` are described once by lemmas on sequences.

**ScanCadence.** Each deadline lies ahead by at most one period and in its residue
class, and an axis that is ready has passed one since the last scan (`Sound`,
`AxisInv`); phases of a group are those of a list (`PhaseInv`). The plan of an
interval is related to the committed state (`PlanInv`), so that a commit keeps
what an abort keeps. `flags` is a variable of the theorems too. From the invariant
follow that the owners agree at every boundary under every setting, so that a
restore accepts every checkpoint of the supported one, that no sensor starves, scans in bursts or loses a claim, and that promotions are
served. A handful of lemmas on `%` and `\div` carry the arithmetic.

**TimeOnTarget.** What the resolver accepts is carried from the plan to the
weapons by an account of each battery's history: its served fires in order, what
the last of them left, and what the remaining ones need (`HistoryInv`,
`WeaponInv`). From it, no battery is ever short of rounds or time
(`FiresAreNeverOverbooked`), what stage_state recomputes of each weapon agrees
(`FiresRestorable`), and since every open milestone lies on a boundary not yet
passed (`TimeInv`), every step is one of `FireSchedule` or leaves it alone
(`MissionsKeepSchedule`).

**Logistics.** Accounts agree with boundaries and boundaries with the clock
(`TimeInv`, `UnitInv`); the latch of a unit remembers every step that moved it.
`BooksAreKept` is the whole safety refinement. It needs what is saved for a
rollback (`SavedInv`), that the latch says who was active while a boundary is
served (`ActivityInv`), and what the depot has given to whom between the steps of
a boundary (`ServedInv`). Deliveries are a recursive function over the units and
the total of what was given is another; what they compute for every number of
units is proved by induction over sets of numbers, which the least number
principle of the library gives without an operator as parameter.

**DecisionCycle.** The invariant speaks of one commander at a time: where its
completion may be while a tick works through them (`TodoSound`), that plans and
orders are made once (`PlanSound`), that who waits waits for something that moves
(`Waiting`), and that what is left of a plan or a delay fits in what is left of
its time (`OnTime`). From it follow ownership, planning once, a bound on the
wait (by the largest budget and the longest delay of all, whichever the decision
got), and that a restore claims exactly the decisions that wait.

**Aggregation.** What holds between operations (`Sound`) is kept, during one, of
the copy it began with, and for the owners it says how far each has come
(`MergeDone`, `SplitDone`, `ReinforceDone`). `FailuresUndone` follows by algebra of
functions: each way of undoing morale is the inverse of the way it was done.
`Sound` knows of every proxy that the list of its side is the list it was merged
from, without its constituents, with what has joined since, and with the proxy
put in (`Merged`); that is what a merge establishes, a reinforcement keeps and a
split needs. The proof that the constituents then return to the places they had
(`PlacedRestores`) goes by induction over the indexes, lowest first, as the code
does; `Recursion`, `CopiedFacts` and `PlacedFacts` give the recursive functions
involved from the least number principle. That a split loses nothing needs that
the generation of a proxy's record never falls below its baseline's and lies
above it once the proxy has evolved. The instance has one side; the theorems hold
for several, with a proxy on each.

Two attempts found a statement wrong that TLC had not refuted on its instance.
The bound of `WaitBounded` counted a tick too few at the end of a delay, which
no instance with ticks shorter than every delay can show; its instance has
longer ones now. The type of the time in `TimeOnTarget` stopped at the horizon,
which a cadence that does not divide it passes.

**Only model-checked.** Liveness, since fairness and `ENABLED` are out of the
prover's reach. Every invariant of the passing runs is stated by a theorem.

## 6. Disagreements found

Three runs check a statement of the repository that the code does not keep, and
TLC shows how.

- `EngineExpired`: `docs/specs/checkpoint-state.md` demands that continuing from a
  checkpoint yields the uninterrupted run. The automatic checkpoint of an
  interval precedes the check of the time limit, so the one taken in the last
  interval continues with another interval past the limit. What follows from it
  also contradicts the same document (149), which bounds the time of a checkpoint:
  with durations 4, 2 and 1 and a limit of 6, the checkpoint at 8 resumes to 12, past
  the horizon of 10, and `get_state` returns a checkpoint that `set_state` refuses.
- `EngineFrames`: the service builds the engaged units of a map frame from events
  "recorded this tick", but the recorder's tick is set at the end of an interval,
  so the events carry the tick before, and no frame shows anybody engaged.
- `DecisionRestore`: a restore infers which decisions wait from two "wire-visible
  proofs" (`simulation/engine.py` 2535-2542), one of them an active planning
  process. But a completed planning state is kept for ever, so that every later
  expired DECIDE phase of its commander is taken for one that waits. If the
  commander is on no active roster at that moment, the checkpoint is refused
  (`simulation/battle_checkpoint_executor.py` 830). If it is on the roster and its
  completion was only just detected, it is restored as waiting and skips the
  friction check.

Others were met while reading and modelling. They are not runs of their own, and
the properties except them where they matter.

- **Closing the database.** `api/main.py` promises that terminal persistence is
  finished before the database is closed. If the lifespan is cancelled while
  `shutdown()` queues for the lifecycle lock, it signals nobody, and the inner
  `finally` closes the database under live jobs. Once it has signalled, further
  cancellations are absorbed until it is done.
- **Transitions of a status.** `docs/remediation-backlog.md` (232) lists the valid
  ones. A task cancelled after its completed row is durable and before it resumes
  writes cancelled over completed (`api/run_manager.py` 423).
- **Order of commanders.** A restore sorts commanders by identity
  (`c2/ai/ooda.py` 600), while a live run processes them in the order of
  registration, reinforcements last. Random numbers are then drawn in another
  order after a restore.
- **Splitting near a battle.** `_select_resolution` gives tactical intervals as
  long as a battle is active, so the battle positions with which the strategic
  interval looks for proxies that approach a battle (`simulation/engine.py`
  1156) are empty. No proxy is split before it meets one, contrary to
  `docs/devlog/phase-13.md` (57, 127).
- **A proxy that moves.** Strategic movement carries a proxy away from the position
  its aggregate remembers. The next merge or split on any side then raises, and a
  checkpoint is refused when it is restored
  (`simulation/runtime_context.py` 2139). Production refuses aggregation at
  present (REM-016); `Restorable` excepts moved proxies.
- **Idle charges of moving units.** The backlog (REM-009) exempts units that moved
  in an interval. The boundary at the end of a tick is served at the start of the
  next, before that one's movement and after the clock has advanced; a movement in
  the tick that crosses a boundary counts for the interval after it.
- **Planning once.** Unless a battle takes it along while it waits, a
  commander's completed planning state stays, so later decisions are made
  without a plan. A result left behind when the propagation of an order failed
  is used by a later decision. The docstring of `advance_phase`
  (`c2/planning/process.py` 362) speaks of phases that a directive skips, and none
  is skipped.

## 7. What is not modelled

In the modelled components:

- **Jobs**: recovery of rows that keep reading pending or running after a crash or a
  failed terminal write, which the code has none of; the subscribers of a task
  cancelled before its first step, whose sentinel never comes, since `ProgressStream`
  begins with a task that runs; a second cancellation of one task; two concurrent
  DELETEs of a run;
  an executor without free threads; cancellation of the submitting request; the
  contents of rows and results; queries.
- **Engine**: what subsystems compute within an interval; recorder snapshots and
  limits; checkpoints of older versions; the restore of several owners, which is
  one step here though the code stages and commits owner by owner.
- **Cadence**: evidence counters, recovery records, fingerprints and exhaustion
  of 64-bit ordinals; sides, beyond the phase groups; the scans themselves and
  their random draws; a roster whose periods change, which the code refuses.

- **Scheduled fires**: range, dispersion, fuzes; maintenance is one of the
  mishaps; the cooldown is a whole number of seconds, where the code has 60 divided
  by rounds per minute in floating point, compared with a tolerance.
- **Aggregation**: which units are chosen to merge, the averages of a proxy,
  distances; rollback steps that raise themselves; times and cooldowns of morale,
  which become generations; orders.
- **Logistics**: several items, depots and routes, geometry of nodes, blockades,
  spoilage, an absent supply network; a registration that is rolled back. Wear of a
  road stands for all degradation.
- **Decisions**: assessments, personalities, the content of plans and decisions. A
  restore demands a cached assessment of every commander in ORIENT or DECIDE
  (`simulation/battle_checkpoint_executor.py` 705-710); it is cached with every
  completed OBSERVE phase (`simulation/battle_ooda_executor.py` 171-238) and never
  removed, so it is not part of `AcceptableClaim`;
  battles of three sides, where two battles may claim a commander; the
  registration order of commanders, which the restore changes (section 6);
  checkpoints of older versions.
- **Events**: the bus dispatches synchronously, and its observers that raise are
  part of the modules that publish. The code guards its lists against changes
  during dispatch, but no handler of the program makes any, so there is no module
  for it.

Components of section 1 without a module are left out because they are planned
(section 8), numeric (damage, movement, environment, sensors' estimates), pure
(schemas, statistics), or run before or after the simulation (scenario loading,
plots, frontend).

## 8. Plan

In the order of importance; each with its TLC instance. The number of runs is kept
small, so a module's instance also serves its proof, and an abstract specification
is checked in the run of the module that implements it.

1. **`StagedRestore`** (`context_checkpoint.py`, `performance_flags.py`): owners
   that stage, validate and commit one after the other, failures in between.
   Abstract specification: all owners move together. `Engine`'s `Restore` would be
   its abstraction.
2. **Escalation** (`escalation/`): the ladder with its cooldowns and the ceasefire.
