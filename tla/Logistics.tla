----------------------------- MODULE Logistics -----------------------------
(***************************************************************************)
(* The fixed cadence of logistics (logistics/runtime.py, stockpile.py,     *)
(* supply_network.py) inside the ticks of the engine, whose length varies. *)
(* At the start of a tick reinforcements arrive and the runtime serves     *)
(* every boundary the tick has crossed: routes wear, the depot resupplies  *)
(* units, idle units are charged.  An exception within a boundary rolls it *)
(* back; one of an observer comes after it is committed.  The rest of the  *)
(* tick moves units, fights, and tells the runtime who was active.         *)
(*                                                                         *)
(* One side, one depot, one supply item of which a unit weighs one ton,    *)
(* and one road from the depot to every unit.  Units are numbered in the   *)
(* order of their identities, and positions are numbers.                   *)
(***************************************************************************)
EXTENDS Integers

CONSTANTS
  LastUnit,     \* the number of units that may ever be there
  AtStart,      \* the units there from the start
  Places,       \* positions
  Interval,     \* update_interval_seconds
  Durations,    \* of ticks
  Initial, Maximum, IdleRate,   \* the units' logistics profile
  Stock, Throughput,            \* of the depot
  RoadCapacity, RoadWear, Full, \* of a road, by its condition
  MaxTime,      \* bound on the simulated time
  MaxFaults     \* bound on injected exceptions

Units == 1..LastUnit
ASSUME SetsAssumption == LastUnit \in Nat /\ AtStart \subseteq Units
ASSUME RatesAssumption ==
  /\ Interval \in Nat \ {0} /\ Durations \subseteq Nat \ {0}
  /\ {Initial, Maximum, IdleRate, Stock, Throughput, RoadCapacity, RoadWear, Full}
       \subseteq Nat
  /\ Initial <= Maximum
  /\ MaxTime \in Nat /\ MaxFaults \in Nat

VARIABLES
  elapsed,      \* of the simulation clock
  boundary,     \* _last_boundary_elapsed_seconds
  accumulator,  \* _elapsed_accumulator_seconds
  eligible,     \* _unit_eligible_from_seconds
  accounted,    \* _unit_last_accounted_seconds
  latch,        \* _unit_interval_disqualified
  at,           \* _last_boundary_positions
  depot,        \* inventory of the depot
  carried,      \* inventories of units
  condition,    \* of the road to each unit
  pos,          \* where units are
  fighting,     \* units of active battles
  out,          \* units that are not ACTIVE
  pc,           \* where the tick is
  before,       \* what _run_quantum restores when it fails
  faults,       \* injected exceptions so far
  stirred       \* history: units active in the interval since the boundary

worldVars == <<pos, fighting, out>>
cadenceVars == <<boundary, accumulator, latch>>
unitVars == <<eligible, accounted, at>>
stockVars == <<depot, carried, condition>>
vars == <<elapsed, cadenceVars, unitVars, stockVars, worldVars, pc, before,
          faults, stirred>>

Registered == DOMAIN eligible

Init ==
  /\ elapsed = 0 /\ boundary = 0 /\ accumulator = 0
  /\ eligible = [u \in AtStart |-> 0] /\ accounted = [u \in AtStart |-> 0]
  /\ latch = [u \in AtStart |-> FALSE]
  /\ \E p \in Places : pos = [u \in AtStart |-> p] /\ at = pos
  /\ depot = Stock /\ carried = [u \in AtStart |-> Initial]
  /\ condition = [u \in AtStart |-> Full]
  /\ fighting = {} /\ out = {}
  /\ pc = "idle" /\ before = <<>>
  /\ faults = 0 /\ stirred = {}

-----------------------------------------------------------------------------
(* The start of a tick and of update().                                    *)

\* register_dynamic_units hands over the clock's time, already advanced.
ArrivalTime == elapsed'

Joined(f, wave, value) ==
  [u \in DOMAIN f \union wave |-> IF u \in wave THEN value ELSE f[u]]

\* The clock advances and a wave of reinforcements, perhaps empty, registers;
\* a caller may do so after an exception, too, and leave the failed tick.
Arrive(wave) ==
  /\ pc \in {"idle", "failed"}
  /\ \E dt \in Durations : elapsed + dt <= MaxTime /\ elapsed' = elapsed + dt
  /\ \E p \in Places : pos' = Joined(pos, wave, p) /\ at' = Joined(at, wave, p)
  /\ eligible' = Joined(eligible, wave, ArrivalTime)
  /\ accounted' = Joined(accounted, wave, ArrivalTime)
  /\ latch' = Joined(latch, wave, FALSE)
  /\ carried' = Joined(carried, wave, Initial)
  /\ condition' = Joined(condition, wave, Full)
  /\ pc' = "update"
  /\ UNCHANGED <<boundary, accumulator, depot, fighting, out, before, faults, stirred>>

\* Controls that last for as long as the unit is in them.
Persistent(u) == u \in out \/ u \in fighting

\* update() checks its chronology, samples activity and takes in the time.  A
\* caller may call it again for the same time after an exception.
Sample ==
  /\ pc \in {"update", "failed"}
  /\ pc = "failed" => boundary + accumulator = elapsed
  /\ latch' = [u \in Registered |-> latch[u] \/ Persistent(u) \/ pos[u] # at[u]]
  /\ accumulator' = elapsed - boundary
  /\ stirred' = stirred \union {u \in Registered : Persistent(u)}
  /\ pc' = IF accumulator' >= Interval THEN "quantum" ELSE "work"
  /\ UNCHANGED <<elapsed, boundary, unitVars, stockVars, worldVars, before,
                 faults>>

-----------------------------------------------------------------------------
(* One boundary: _run_quantum.                                             *)

Larger(a, b) == IF a > b THEN a ELSE b
Smaller(a, b) == IF a < b THEN a ELSE b

Boundary == boundary + Interval

\* The seconds of the interval that the unit was there and not accounted for.
Seconds(u) ==
  Larger(0, Boundary - Larger(boundary, Larger(accounted[u], eligible[u])))

\* SupplyNetworkEngine.update wears the roads when the ground is mud.
BeginQuantum(mud) ==
  /\ pc = "quantum"
  /\ before' = [depot |-> depot, carried |-> carried, condition |-> condition,
                at |-> at, accounted |-> accounted]
  /\ condition' = IF mud THEN [u \in Registered |-> Larger(0, condition[u] - RoadWear)]
                  ELSE condition
  /\ pc' = "resupply"
  /\ UNCHANGED <<elapsed, cadenceVars, unitVars, depot, carried, worldVars,
                 faults, stirred>>

\* deliver_to_unit: the deficit, as far as stock, depot and road allow.  What
\* the depot can issue is counted down in s.issue.
Deliver(s, u) ==
  LET quantity ==
        IF u \notin Registered \/ u \in out THEN 0
        ELSE Smaller(Smaller(Larger(0, Maximum - s.carried[u]), s.depot),
               Smaller(Smaller(s.issue, Throughput * Seconds(u)),
                       RoadCapacity * condition[u] * Seconds(u)))
  IN IF quantity = 0 THEN s
     ELSE [depot |-> s.depot - quantity, issue |-> s.issue - quantity,
           carried |-> [s.carried EXCEPT ![u] = @ + quantity]]

\* The stocks after each unit, in the order of unit identities.
Stocks == [depot |-> depot, issue |-> Throughput * Interval, carried |-> carried]
Delivered[u \in 0..LastUnit] ==
  IF u = 0 THEN Stocks ELSE Deliver(Delivered[u - 1], u)

\* _resupply: each unit is served from what those before it have left.
Resupply ==
  /\ pc = "resupply"
  /\ depot' = Delivered[LastUnit].depot /\ carried' = Delivered[LastUnit].carried
  /\ pc' = "debit"
  /\ UNCHANGED <<elapsed, cadenceVars, unitVars, condition, worldVars, before,
                 faults, stirred>>

\* _consume_idle: what the unit has, as far as it has it.
ConsumeIdle ==
  /\ pc = "debit"
  /\ carried' = [u \in Registered |->
       IF u \in out \/ latch[u] THEN carried[u]
       ELSE Larger(0, carried[u] - IdleRate * Seconds(u))]
  /\ pc' = "commit"
  /\ UNCHANGED <<elapsed, cadenceVars, unitVars, depot, condition, worldVars,
                 before, faults, stirred>>

\* Mutant: the latch is cleared for every interval that the tick still covers.
MutNextLatch(u) == FALSE

\* In an interval that has already begun, lasting controls go on.
NextLatch(u) == accumulator > Interval /\ Persistent(u)

\* The boundary is accounted for, and the cadence moves on to it.
Commit ==
  /\ pc = "commit"
  /\ at' = [u \in Registered |-> pos[u]]
  /\ accounted' = [u \in Registered |->
       IF eligible[u] <= Boundary THEN Boundary ELSE accounted[u]]
  /\ boundary' = Boundary
  /\ accumulator' = accumulator - Interval
  /\ latch' = [u \in Registered |-> NextLatch(u)]
  /\ stirred' = {u \in stirred : accumulator > Interval /\ Persistent(u)}
  /\ before' = <<>>
  /\ pc' = "publish"
  /\ UNCHANGED <<elapsed, eligible, stockVars, worldVars, faults>>

Rollback ==
  /\ depot' = before.depot /\ carried' = before.carried
  /\ condition' = before.condition
  /\ at' = before.at /\ accounted' = before.accounted

\* An exception within the boundary, which stays pending.
Raise ==
  /\ pc \in {"resupply", "debit", "commit"}
  /\ faults < MaxFaults /\ faults' = faults + 1
  /\ Rollback
  /\ before' = <<>>
  /\ pc' = "failed"
  /\ UNCHANGED <<elapsed, cadenceVars, eligible, worldVars, stirred>>

\* The observers of the boundary's events are told once it is committed; if
\* one raises, update() is left and the boundaries to come stay pending.
Publish ==
  /\ pc = "publish"
  /\ \/ /\ pc' = IF accumulator >= Interval THEN "quantum" ELSE "work"
        /\ UNCHANGED faults
     \/ /\ faults < MaxFaults /\ faults' = faults + 1
        /\ pc' = "failed"
  /\ UNCHANGED <<elapsed, cadenceVars, unitVars, stockVars, worldVars, before,
                 stirred>>

-----------------------------------------------------------------------------
(* The rest of the tick.                                                   *)

\* Mutant: units that moved without a fight are forgotten.
MutNoted(clash) == fighting \union clash

\* note_interval_activity: who fought at the update or has met since, and whose
\* position differs from that at the update.
Noted(clash) == fighting \union clash \union {u \in Registered : pos'[u] # pos[u]}

\* Units move, a battle is found and perhaps auto-resolved at once, battles
\* end, units are routed or destroyed, or rally.
Work(clash) ==
  /\ pc = "work"
  /\ pos' \in [Registered -> Places]
  /\ fighting' \in SUBSET (fighting \union clash)
  /\ \E u \in Registered : out' \in {out, out \union {u}, out \ {u}}
  /\ latch' = [u \in Registered |-> latch[u] \/ u \in Noted(clash)]
  /\ stirred' = stirred \union fighting \union clash \union out'
                  \union {u \in Registered : pos'[u] # pos[u]}
  /\ pc' = "idle"
  /\ UNCHANGED <<elapsed, boundary, accumulator, unitVars, stockVars, before, faults>>

Next ==
  \/ \E wave \in SUBSET (Units \ Registered) : Arrive(wave)
  \/ Sample
  \/ \E mud \in BOOLEAN : BeginQuantum(mud)
  \/ Resupply \/ ConsumeIdle \/ Commit \/ Raise \/ Publish
  \/ \E clash \in SUBSET Registered : Work(clash)

Spec == Init /\ [][Next]_vars

-----------------------------------------------------------------------------
(* What stage_state accepts of a checkpoint.                               *)

\* The carried time agrees with the clock, boundaries lie on the cadence,
\* every unit is accounted for up to the last of them, and a unit that is
\* still charged as idle stands where that boundary saw it.
Acceptable ==
  /\ boundary % Interval = 0
  /\ accumulator = elapsed - boundary /\ accumulator < Interval
  /\ \A u \in Registered :
       /\ eligible[u] <= elapsed
       /\ accounted[u] = Larger(boundary, eligible[u])
       /\ ~latch[u] => at[u] = pos[u]

-----------------------------------------------------------------------------
(* Properties.                                                             *)

\* Every variable has its type.
TypeOK ==
  /\ elapsed \in 0..MaxTime /\ boundary \in 0..MaxTime /\ accumulator \in 0..MaxTime
  /\ Registered \subseteq Units
  /\ eligible \in [Registered -> 0..MaxTime] /\ accounted \in [Registered -> 0..MaxTime]
  /\ latch \in [Registered -> BOOLEAN]
  /\ pos \in [Registered -> Places] /\ at \in [Registered -> Places]
  /\ depot \in 0..Stock /\ carried \in [Registered -> 0..Maximum]
  /\ condition \in [Registered -> 0..Full]
  /\ fighting \subseteq Registered /\ out \subseteq Registered /\ stirred \subseteq Registered
  /\ pc \in {"idle", "update", "quantum", "resupply", "debit", "commit", "publish",
             "failed", "work"}

\* A checkpoint between two ticks can be restored, however the ticks divided
\* the intervals and wherever the units have been since the last boundary.
Restorable == TypeOK /\ (pc = "idle" => Acceptable)

Serving == pc \in {"resupply", "debit", "commit"}

Books == INSTANCE SupplyBooks WITH
           since <- eligible,
           depot <- IF Serving THEN before.depot ELSE depot,
           carried <- IF Serving THEN before.carried ELSE carried

\* Every boundary takes effect exactly once, whole and in order, for exactly
\* the units and the time it should, however long the ticks are that cross it
\* and however often a boundary or its observers fail in between.
BooksKept == Books!Spec
=============================================================================
