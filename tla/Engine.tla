------------------------------- MODULE Engine -------------------------------
(***************************************************************************)
(* The interval loop of SimulationEngine (simulation/engine.py) with the   *)
(* parts of SimulationClock, BattleManager, PerformanceReceiptAccumulator  *)
(* and SimulationRecorder that it drives, and the checkpoints it writes    *)
(* and restores.                                                           *)
(*                                                                         *)
(* One action is one stage of step() between two places where it may be    *)
(* left by an exception in a different state.  What the simulated forces   *)
(* do at a tick is drawn when the tick is first simulated and is the same  *)
(* when it is simulated again after a restore: the run is seeded.          *)
(***************************************************************************)
EXTENDS Integers, Sequences

CONSTANTS
  StrategicS, OperationalS, TacticalS,   \* the era contract's tick durations
  MaxTicks,             \* EngineConfig.max_ticks
  MaxDuration,          \* the scenario's duration_hours
  CheckpointInterval,   \* checkpoint_interval_ticks, 0 for none
  MaxFaults,            \* bound on failures
  MaxRestores,          \* bound on restores
  MaxTampers            \* bound on outside changes of the clock's duration

Resolution == {"strategic", "operational", "tactical"}
Duration == [strategic |-> StrategicS, operational |-> OperationalS, tactical |-> TacticalS]

ASSUME DurationsAssumption ==
  StrategicS \in Nat \ {0} /\ OperationalS \in Nat \ {0} /\ TacticalS \in Nat \ {0}
ASSUME LimitsAssumption ==
  /\ MaxTicks \in Nat \ {0} /\ MaxDuration \in Nat \ {0}
  /\ CheckpointInterval \in Nat
  /\ MaxFaults \in Nat /\ MaxRestores \in Nat /\ MaxTampers \in Nat

\* What the forces do at a tick: keep apart, close in, come into contact,
\* break off, or bring about a victory condition.  A contact small enough to be
\* auto-resolved on the spot leaves forces apart, close or decided, and is that.
Happening == {"quiet", "closing", "contact", "break", "victory"}

VARIABLES
  strict,       \* strict or degraded execution, chosen when it is built
  clock,        \* SimulationClock: ticks, elapsed time, duration of a tick
  resolution,   \* _resolution
  battle,       \* whether a battle is active
  receipt,      \* the performance receipt: transaction state and its intervals
  victory,      \* _last_victory: "none" or the terminal condition, and its tick
  recorded,     \* the recorder's _current_tick
  tags,         \* ticks under which it has filed engagement events
  fatal,        \* _fatal_runtime_failure is set
  suppressed,   \* number of _suppressed_failures
  saved,        \* checkpoints taken: _checkpoints and those of consumers
  pc,           \* the stage of step(), or "idle"
  call,         \* who called it: nobody, a step-driven consumer, or run()
  entry,        \* step()'s initial tick, resolution and duration
  frame,        \* the last map frame of the API's loop: its tick, anyone engaged
  results,      \* results handed out
  world,        \* history: what happened at each tick, and the resolution and
                \* the elapsed time it was first simulated with
  ledger,       \* history: intervals behind this state, by resolution
  fights,       \* history: ticks with an engagement behind this state
  failed,       \* history: intervals this engine failed in, or suppressed in
  late,         \* history: a checkpoint past the time limit was restored
  faults, restores, tampers   \* history: bounded events

stateVars == <<clock, resolution, battle, receipt, victory, recorded, tags>>
healthVars == <<fatal, suppressed, failed>>
outVars == <<saved, frame, results>>
historyVars == <<world, ledger, fights, late, faults, restores, tampers>>
vars == <<strict, stateVars, healthVars, outVars, pc, call, entry, historyVars>>

-----------------------------------------------------------------------------
(* Operators.                                                              *)

\* _forces_within_closing_range after what happened at the clock's tick.
Closing == world[clock.tick + 1].what \in {"closing", "contact"}

\* Mutant: the closing-range guard is not consulted.
MutSelectResolution ==
  CASE battle -> "tactical"
    [] ~battle /\ resolution = "tactical" -> "operational"
    [] OTHER -> "strategic"

\* _select_resolution
SelectResolution ==
  CASE battle -> "tactical"
    [] ~battle /\ Closing -> "operational"
    [] ~battle /\ ~Closing /\ resolution = "tactical" -> "operational"
    [] OTHER -> "strategic"

Over == victory.type # "none"

\* _validate_clock_resolution_binding, the part of _validate_runtime_bindings
\* that state reached through this interface can fail
Bound == clock.dur = Duration[resolution]

\* assert_evidence_healthy
Healthy == Bound /\ receipt.state = "committed" /\ ~fatal

\* get_state, with the histories that belong to the state
Snapshot ==
  [clock |-> clock, resolution |-> resolution, battle |-> battle,
   intervals |-> receipt.intervals, victory |-> victory, recorded |-> recorded,
   tags |-> tags, ledger |-> ledger, fights |-> fights, failed |-> failed]

\* A checkpoint of this version agrees with itself.
Consistent(c) ==
  /\ c.clock.dur = Duration[c.resolution]
  /\ IF c.victory.type = "none" THEN c.victory.tick = 0
     ELSE c.victory.tick = c.clock.tick
  /\ c.clock.tick = 0 <=> c.clock.elapsed = 0
  /\ c.recorded = c.clock.tick

\* It lies within the executable horizon: the scenario's end and one more tick
\* of the longest duration.
WithinHorizon(c) == \E r \in Resolution : c.clock.elapsed <= MaxDuration + Duration[r]

\* What set_state demands of a checkpoint; get_state checks no horizon.
Acceptable(c) == Consistent(c) /\ WithinHorizon(c)

Outcome ==
  [ticks |-> clock.tick, elapsed |-> clock.elapsed, type |-> victory.type,
   suppressed |-> suppressed, failed |-> failed]

\* The constructor: forces already in contact start at tactical resolution.
Init ==
  /\ \E h \in Happening \ {"victory", "break"} :
       /\ battle = (h = "contact")
       /\ resolution = CASE h = "contact" -> "tactical"
                         [] h = "closing" -> "operational"
                         [] OTHER -> "strategic"
       /\ world = <<[what |-> h, resolution |-> resolution, elapsed |-> 0]>>
  /\ clock = [tick |-> 0, elapsed |-> 0, dur |-> Duration[resolution]]
  /\ receipt = [state |-> "committed", intervals |-> 0]
  /\ victory = [type |-> "none", tick |-> 0]
  /\ strict \in BOOLEAN /\ recorded = 0 /\ tags = {}
  /\ fatal = FALSE /\ suppressed = 0 /\ failed = 0
  /\ saved = {} /\ frame = [tick |-> 0, engaged |-> FALSE] /\ results = {}
  /\ pc = "idle" /\ call = "none"
  /\ entry = [tick |-> 0, resolution |-> resolution, dur |-> clock.dur]
  /\ ledger = [r \in Resolution |-> 0] /\ fights = {} /\ late = FALSE
  /\ faults = 0 /\ restores = 0 /\ tampers = 0

\* step() returns: run() loops or finalizes, the API's loop takes a frame.
Return(over) ==
  /\ pc' = CASE call = "step" -> "stepped"
             [] call = "run" /\ over -> "finalize"
             [] OTHER -> "idle"
  /\ UNCHANGED <<call, entry>>

-----------------------------------------------------------------------------
(* One step.                                                               *)

\* run() is entered; without a binding or after a failure it raises at once.
Run ==
  /\ pc = "idle" /\ call = "none"
  /\ ~fatal /\ Bound
  /\ call' = "run"
  /\ UNCHANGED <<strict, stateVars, healthVars, outVars, pc, entry, historyVars>>

\* step() passes its gates, for a consumer or for the loop of run().
StepGate ==
  /\ pc = "idle"
  /\ ~fatal /\ Bound
  /\ call' = IF call = "run" THEN "run" ELSE "step"
  /\ entry' = [tick |-> clock.tick, resolution |-> resolution, dur |-> clock.dur]

\* The game is over already, or this step ends it at max_ticks.
StepOver ==
  /\ StepGate
  /\ Over \/ clock.tick >= MaxTicks
  /\ victory' = IF Over THEN victory ELSE [type |-> "max_ticks", tick |-> clock.tick]
  /\ pc' = IF call = "run" THEN "finalize" ELSE "stepped"
  /\ UNCHANGED <<strict, clock, resolution, battle, receipt, recorded, tags, healthVars,
                 outVars, historyVars>>

\* The space preflight rejects the interval before anything has moved.
PreflightFails ==
  /\ StepGate
  /\ ~Over /\ clock.tick < MaxTicks
  /\ faults < MaxFaults
  /\ faults' = faults + 1
  /\ pc' = "raising"
  /\ UNCHANGED <<strict, stateVars, healthVars, outVars, world, ledger, fights, late,
                 restores, tampers>>

\* Mutant: the clock advances by the duration of the previous interval.
MutBeginInterval ==
  /\ StepGate
  /\ ~Over /\ clock.tick < MaxTicks
  /\ resolution' = SelectResolution
  /\ clock' = [tick |-> clock.tick + 1, elapsed |-> clock.elapsed + clock.dur,
               dur |-> Duration[SelectResolution]]
  /\ ledger' = [ledger EXCEPT ![SelectResolution] = @ + 1]
  /\ IF Len(world) > clock.tick + 1 THEN UNCHANGED world
     ELSE \E h \in Happening :
            world' = Append(world, [what |-> h, resolution |-> resolution',
                                    elapsed |-> clock'.elapsed])
  /\ pc' = "interval"
  /\ UNCHANGED <<strict, battle, receipt, victory, recorded, tags, healthVars, outVars,
                 fights, late, faults, restores, tampers>>

\* Commit the resolution and its duration, and advance the clock by it.
BeginInterval ==
  /\ StepGate
  /\ ~Over /\ clock.tick < MaxTicks
  /\ resolution' = SelectResolution
  /\ LET dur == Duration[SelectResolution] IN
       clock' = [tick |-> clock.tick + 1, elapsed |-> clock.elapsed + dur, dur |-> dur]
  /\ ledger' = [ledger EXCEPT ![SelectResolution] = @ + 1]
  /\ IF Len(world) > clock.tick + 1 THEN UNCHANGED world
     ELSE \E h \in Happening :
            world' = Append(world, [what |-> h, resolution |-> resolution',
                                    elapsed |-> clock'.elapsed])
  /\ pc' = "interval"
  /\ UNCHANGED <<strict, battle, receipt, victory, recorded, tags, healthVars, outVars,
                 fights, late, faults, restores, tampers>>

Now == world[clock.tick + 1].what

\* Arrivals, environment, logistics, scripted events and the campaign level.
\* A battle found there is fought from the next interval on, unless it is
\* small enough to be resolved on the spot.
Campaign ==
  /\ pc = "interval"
  /\ resolution # "tactical"
  /\ battle' = (battle \/ Now = "contact")
  /\ pc' = "evaluate"
  /\ UNCHANGED <<strict, clock, resolution, receipt, victory, recorded, tags, healthVars,
                 outVars, call, entry, historyVars>>

\* At tactical resolution the interval's receipt transaction is opened.
OpenReceipt ==
  /\ pc = "interval"
  /\ resolution = "tactical"
  /\ receipt' = [receipt EXCEPT !.state = "open"]
  /\ pc' = "tactical"
  /\ UNCHANGED <<strict, clock, resolution, battle, victory, recorded, tags, healthVars,
                 outVars, call, entry, historyVars>>

\* The battle is fought for one interval, may terminate, and the receipt is
\* committed.  The recorder files what happens under the last recorded tick.
Fight ==
  /\ pc = "tactical"
  /\ battle' = (Now \notin {"break", "victory"})
  /\ tags' = tags \union {recorded}
  /\ fights' = fights \union {clock.tick}
  /\ receipt' = [state |-> "committed", intervals |-> receipt.intervals + 1]
  /\ pc' = "evaluate"
  /\ UNCHANGED <<strict, clock, resolution, victory, recorded, healthVars, outVars, call,
                 entry, world, ledger, late, faults, restores, tampers>>

\* Victory evaluation, which ends the step, and the recording of the tick.
Evaluate ==
  /\ pc = "evaluate"
  /\ recorded' = clock.tick
  /\ IF Now = "victory"
       THEN /\ victory' = [type |-> "condition", tick |-> clock.tick]
            /\ Return(TRUE)
       ELSE /\ pc' = "conclude"
            /\ UNCHANGED <<victory, call, entry>>
  /\ UNCHANGED <<strict, clock, resolution, battle, receipt, tags, healthVars, outVars,
                 historyVars>>

CheckpointDue == CheckpointInterval > 0 /\ clock.tick % CheckpointInterval = 0

\* The auto-checkpoint, then the time limit.
Conclude ==
  /\ pc = "conclude"
  /\ CheckpointDue => strict
  /\ saved' = IF CheckpointDue THEN saved \union {Snapshot} ELSE saved
  /\ victory' = IF clock.elapsed >= MaxDuration
                  THEN [type |-> "time_expired", tick |-> clock.tick] ELSE victory
  /\ Return(clock.elapsed >= MaxDuration)
  /\ UNCHANGED <<strict, clock, resolution, battle, receipt, recorded, tags, healthVars,
                 frame, results, historyVars>>

\* A degraded runtime has no checkpoints: get_state raises out of the step.
CheckpointRefused ==
  /\ pc = "conclude"
  /\ CheckpointDue /\ ~strict
  /\ failed' = failed + 1
  /\ pc' = "raising"
  /\ UNCHANGED <<strict, stateVars, fatal, suppressed, outVars, call, entry, historyVars>>

-----------------------------------------------------------------------------
(* Failures.                                                               *)

\* A degraded engine notes a subsystem's failure and carries on.
Suppress ==
  /\ ~strict
  /\ pc \in {"interval", "tactical", "evaluate"}
  /\ faults < MaxFaults
  /\ faults' = faults + 1
  /\ suppressed' = suppressed + 1
  /\ failed' = failed + 1
  /\ UNCHANGED <<strict, stateVars, fatal, outVars, pc, call, entry, world, ledger,
                 fights, late, restores, tampers>>

\* Mutant: the receipt transaction is left as it is.
MutFail ==
  /\ pc \in {"interval", "tactical", "evaluate", "conclude"}
  /\ faults < MaxFaults
  /\ faults' = faults + 1
  /\ failed' = failed + 1
  /\ pc' = "raising"
  /\ UNCHANGED <<strict, receipt, clock, resolution, battle, victory, recorded, tags, fatal,
                 suppressed, outVars, call, entry, world, ledger, fights, late,
                 restores, tampers>>

\* An exception leaves the interval: any in a strict engine, in a degraded one
\* those of the unguarded stages.  An open receipt transaction is poisoned.
Fail ==
  /\ pc \in {"interval", "tactical", "evaluate", "conclude"}
  /\ faults < MaxFaults
  /\ faults' = faults + 1
  /\ failed' = failed + 1
  /\ receipt' = IF pc = "tactical" THEN [receipt EXCEPT !.state = "poisoned"] ELSE receipt
  /\ pc' = "raising"
  /\ UNCHANGED <<strict, clock, resolution, battle, victory, recorded, tags, fatal,
                 suppressed, outVars, call, entry, world, ledger, fights, late,
                 restores, tampers>>

\* Mutant: step() recognises a committed interval by its resolution alone.
MutRaise ==
  /\ pc = "raising"
  /\ fatal' = (fatal \/ call = "run" \/ resolution # entry.resolution
                 \/ clock.dur # entry.dur)
  /\ pc' = "idle" /\ call' = "none"
  /\ UNCHANGED <<strict, stateVars, suppressed, failed, outVars, entry, historyVars>>

\* step() latches the failure if the interval had been committed, run() always.
Raise ==
  /\ pc = "raising"
  /\ fatal' = (fatal \/ call = "run" \/ clock.tick # entry.tick
                 \/ resolution # entry.resolution \/ clock.dur # entry.dur)
  /\ pc' = "idle" /\ call' = "none"
  /\ UNCHANGED <<strict, stateVars, suppressed, failed, outVars, entry, historyVars>>

-----------------------------------------------------------------------------
(* Consumers, between steps.                                               *)

\* The API's loop builds a map frame: who is engaged, by the events of its tick.
CaptureFrame ==
  /\ pc = "stepped"
  /\ frame' = [tick |-> clock.tick, engaged |-> clock.tick \in tags]
  /\ pc' = "idle" /\ call' = "none"
  /\ UNCHANGED <<strict, stateVars, healthVars, saved, results, entry, historyVars>>

\* finalize(), by run() when its loop is over or by a step-driven consumer.
Finalize ==
  /\ pc = "finalize" \/ (pc = "idle" /\ call = "none")
  /\ Healthy /\ Over
  /\ results' = results \union {Outcome}
  /\ pc' = "idle" /\ call' = "none"
  /\ UNCHANGED <<strict, stateVars, healthVars, saved, frame, entry, historyVars>>

\* Mutant: any runtime writes checkpoints, whatever its clock.
MutCheckpoint ==
  /\ pc = "idle" /\ call = "none"
  /\ ~fatal
  /\ saved' = saved \union {Snapshot}
  /\ UNCHANGED <<strict, stateVars, healthVars, frame, results, pc, call, entry, historyVars>>

\* get_state() and checkpoint()
Checkpoint ==
  /\ pc = "idle" /\ call = "none"
  /\ strict /\ Healthy
  /\ saved' = saved \union {Snapshot}
  /\ UNCHANGED <<strict, stateVars, healthVars, frame, results, pc, call, entry, historyVars>>

\* Mutant: the last victory stays the live engine's.
MutLoad(c) ==
  /\ clock' = c.clock /\ resolution' = c.resolution /\ battle' = c.battle
  /\ receipt' = [state |-> "committed", intervals |-> c.intervals]
  /\ victory' = victory /\ recorded' = c.recorded /\ tags' = c.tags
  /\ ledger' = c.ledger /\ fights' = c.fights

\* The commit half of set_state: every owner takes its staged state.
Load(c) ==
  /\ clock' = c.clock /\ resolution' = c.resolution /\ battle' = c.battle
  /\ receipt' = [state |-> "committed", intervals |-> c.intervals]
  /\ victory' = c.victory /\ recorded' = c.recorded /\ tags' = c.tags
  /\ ledger' = c.ledger /\ fights' = c.fights

\* set_state() on this engine, or on one built afresh from the same scenario
\* after this one has failed or its process has died.
Restore(c) ==
  /\ pc = "idle" /\ call = "none"
  /\ restores < MaxRestores
  /\ restores' = restores + 1
  /\ strict /\ Acceptable(c)
  /\ \/ Healthy /\ UNCHANGED healthVars
     \/ fatal' = FALSE /\ suppressed' = 0 /\ failed' = 0
  /\ Load(c)
  /\ late' = (late \/ (c.victory.type = "none" /\ c.clock.elapsed >= MaxDuration))
  /\ UNCHANGED <<strict, outVars, pc, call, entry, world, faults, tampers>>

\* The clock's set_tick_duration is public.
Tamper(dur) ==
  /\ pc = "idle" /\ call = "none"
  /\ tampers < MaxTampers
  /\ tampers' = tampers + 1
  /\ clock' = [clock EXCEPT !.dur = dur]
  /\ UNCHANGED <<strict, resolution, battle, receipt, victory, recorded, tags, healthVars,
                 outVars, pc, call, entry, world, ledger, fights, late, faults,
                 restores>>

-----------------------------------------------------------------------------

IntervalStep ==
  \/ StepOver \/ BeginInterval \/ Campaign \/ OpenReceipt \/ Fight \/ Evaluate
  \/ Conclude
FailureStep == PreflightFails \/ CheckpointRefused \/ Suppress \/ Fail \/ Raise
ConsumerStep ==
  \/ Run \/ CaptureFrame \/ Finalize \/ Checkpoint
  \/ \E c \in saved : Restore(c)
  \/ \E r \in Resolution : Tamper(Duration[r])

Next == IntervalStep \/ FailureStep \/ ConsumerStep

Spec == Init /\ [][Next]_vars

-----------------------------------------------------------------------------
(* Properties.                                                             *)

Clock == [tick : 0..MaxTicks, elapsed : Nat, dur : {Duration[r] : r \in Resolution}]
Tick == [what : Happening, resolution : Resolution, elapsed : Nat]
Victory == [type : {"none", "condition", "max_ticks", "time_expired"}, tick : 0..MaxTicks]

\* Every variable has its type, and an open receipt belongs to a tactical stage.
TypeOK ==
  /\ strict \in BOOLEAN /\ clock \in Clock
  /\ resolution \in Resolution /\ battle \in BOOLEAN
  /\ receipt \in [state : {"committed", "open", "poisoned"}, intervals : Nat]
  /\ receipt.state = "open" <=> pc = "tactical"
  /\ victory \in Victory
  /\ recorded \in 0..MaxTicks
  /\ tags \subseteq 0..MaxTicks /\ fights \subseteq 0..MaxTicks
  /\ fatal \in BOOLEAN /\ suppressed \in Nat /\ failed \in Nat
  /\ pc \in {"idle", "interval", "tactical", "evaluate", "conclude", "raising",
             "stepped", "finalize"}
  /\ call \in {"none", "step", "run"}
  /\ world \in Seq(Tick) /\ clock.tick < Len(world)
  /\ ledger \in [Resolution -> Nat]

\* The clock accounts for every interval at its own cadence, and the receipt
\* for every tactical one, from tick zero and across failures and restores
\* (clock.advance after _set_resolution, begin/commit_performance_interval).
LedgerBalances ==
  /\ clock.tick = ledger["strategic"] + ledger["operational"] + ledger["tactical"]
  /\ clock.elapsed = StrategicS * ledger["strategic"]
                       + OperationalS * ledger["operational"]
                       + TacticalS * ledger["tactical"]
  /\ pc = "idle" /\ ~fatal => receipt.intervals = ledger["tactical"]

\* A result owns up to every failure behind it: an engine that failed after
\* its clock had moved publishes nothing unless it suppressed and reported
\* that failure (step, run, finalize, _suppress_runtime_failure).
ResultsAccount == \A r \in results : r.suppressed = r.failed

\* No checkpoint holds state a failure has touched, and set_state accepts every
\* checkpoint get_state ever returned, terminal ones and automatic ones alike.
\* Only a run that has resumed a checkpoint past the time limit may write ones
\* beyond the horizon: get_state lets them pass and set_state refuses them.
CheckpointsSound ==
  \A c \in saved : c.failed = 0 /\ Consistent(c) /\ (late \/ WithinHorizon(c))

SameOutcome(r, q) == r.ticks = q.ticks /\ r.elapsed = q.elapsed /\ r.type = q.type

\* However a run is interrupted, retried and resumed from its checkpoints, its
\* outcome is that of the uninterrupted run, as long as no checkpoint past the
\* time limit is resumed (see ResumedRunsAlwaysAgree).
ResumedRunsAgree == ~late => \A r, q \in results : SameOutcome(r, q)

\* No interval begins at a cadence that overshoots the forces: a battle is
\* fought tactically from the next interval on, and forces within closing
\* range are never advanced by a strategic tick.
NoOvershoot ==
  [][pc = "idle" /\ pc' = "interval" =>
       /\ battle => resolution' = "tactical"
       /\ Closing => resolution' # "strategic"]_vars

\* checkpoint-state.md 51: "continuing from it must produce the same subsequent
\* state and events as the uninterrupted seeded run", of every checkpoint.
ResumedRunsAlwaysAgree == \A r, q \in results : SameOutcome(r, q)

\* run_manager.py 512: "build engaged set from events recorded this tick": the
\* frame of a tick in which there was an engagement shows somebody engaged.
FramesShowEngagements == frame.tick \in fights => frame.engaged
=============================================================================
