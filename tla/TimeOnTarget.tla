---------------------------- MODULE TimeOnTarget ----------------------------
(***************************************************************************)
(* Scheduled fire missions (combat/indirect_fire.py) from the resolver that *)
(* accepts them (simulation/time_on_target.py) to the checkpoint that       *)
(* carries them: in every interval of the engine the batteries whose time  *)
(* has come fire, then the missions whose time has come take effect, and   *)
(* then the battles of the interval use what weapons are not reserved.     *)
(* Observers of the committed fires may raise.                             *)
(***************************************************************************)
EXTENDS Integers, FiniteSets, Sequences

CONSTANTS
  Missions,    \* a set of integers: declaration indices
  Guns,        \* a set of integers: weapon attachments, in order
  UnitOf,      \* the unit that carries an attachment
  TargetOf,    \* the target unit of a mission
  Cadence,     \* tick_duration_seconds
  Horizon,     \* the duration of the scenario, and a bound on time
  Plans,       \* what scenarios declare of every mission: its impact time,
               \* its rounds per battery and each battery's time of flight
  Magazine,    \* the rounds of an attachment at the start
  Multiplier,  \* runtime_system_multiplier
  Cooldown,    \* cooldown_s of every attachment
  Mishaps,     \* what may keep an active battery from firing
  MaxChanges   \* bound on what battles do to the status of units

ASSUME ConstantsAssumption ==
  /\ Missions \subseteq Int /\ IsFiniteSet(Missions)
  /\ Guns \subseteq Int /\ IsFiniteSet(Guns)
  /\ Cadence \in Nat \ {0} /\ Horizon \in Nat
  /\ Plans \subseteq [Missions -> [impact : Nat, rounds : Nat \ {0},
                                   flight : [Guns -> Nat]]]
  /\ Magazine \in Nat /\ Multiplier \in Nat \ {0}
  /\ Cooldown \in Nat \ {0} /\ MaxChanges \in Nat
  /\ Mishaps \subseteq {"battery_moving", "battery_displaced", "weapon_inoperable"}

VARIABLES
  plan,       \* the resolved missions
  enabled,    \* time_on_target_enabled
  degraded,   \* observer failures are suppressed
  now,        \* elapsed simulated time
  phase,      \* what the interval is doing
  battery,    \* the state of a mission's batteries
  mission,    \* the state of the missions
  weapon,     \* live weapons: rounds left and the time of the last fire
  unit,       \* the status of every unit
  announced,  \* history: events that observers have received
  changes     \* history: changes of status by battles, up to MaxChanges

config == <<plan, enabled, degraded>>
vars == <<config, now, phase, battery, mission, weapon, unit, announced, changes>>

Units == {UnitOf[g] : g \in Guns} \union {TargetOf[m] : m \in Missions}
Status == {"ACTIVE", "DISABLED", "DESTROYED", "SURRENDERED", "ROUTING"}
Never == -1                              \* no fire yet
NoFlight == 0                            \* the attachment takes no part
Larger(m, n) == IF m < n THEN n ELSE m

-----------------------------------------------------------------------------
(* The plan.                                                               *)

Batteries(m) == {g \in Guns : plan[m].flight[g] # NoFlight}
FireTime(m, g) == plan[m].impact - plan[m].flight[g]

\* The fires of an attachment in the order in which they will be served.
FiresOf(g) == {m \in Missions : g \in Batteries(m)}
FiresBefore(g, m, n) ==
  \/ FireTime(m, g) < FireTime(n, g)
  \/ FireTime(m, g) = FireTime(n, g) /\ m < n

\* The rounds that missions request, one by one, and how many they are.
Requested(ms) == UNION {{m} \X (1..plan[m].rounds) : m \in ms}
RoundsOf(ms) == Cardinality(Requested(ms))

\* Mutant: only the impact has to lie on a boundary.
MutScheduleResolves(m) ==
  /\ Batteries(m) # {}
  /\ plan[m].impact <= Horizon /\ plan[m].impact % Cadence = 0
  /\ \A g \in Batteries(m) : FireTime(m, g) > 0
  /\ \A g, h \in Batteries(m) : UnitOf[g] = UnitOf[h] => g = h

\* Every milestone is a boundary of the scenario's fixed cadence.
ScheduleResolves(m) ==
  /\ Batteries(m) # {}
  /\ plan[m].impact <= Horizon /\ plan[m].impact % Cadence = 0
  /\ \A g \in Batteries(m) : FireTime(m, g) > 0 /\ FireTime(m, g) % Cadence = 0
  /\ \A g, h \in Batteries(m) : UnitOf[g] = UnitOf[h] => g = h

\* The missions of an attachment together fit its magazine and its rate.
ResourcesResolve(g) ==
  /\ \A m \in FiresOf(g) : plan[m].rounds <= Multiplier
  /\ RoundsOf(FiresOf(g)) <= Magazine
  /\ \A m, n \in FiresOf(g) :
       m # n /\ FiresBefore(g, m, n) =>
         FireTime(n, g) - FireTime(m, g) >= Cooldown * plan[n].rounds

Resolves ==
  /\ \A m \in Missions : ScheduleResolves(m)
  /\ \A g \in Guns : ResourcesResolve(g)

Full == [rounds |-> Magazine, last |-> Never]
Pristine(status) == [status |-> status, at |-> Never, reason |-> "", pre |-> "",
                     by |-> "", before |-> Full, after |-> Full]
Open(status) == [status |-> status, outcome |-> "", effect |-> "",
                 before |-> "", after |-> ""]

Init ==
  /\ plan \in Plans /\ Resolves
  /\ enabled \in BOOLEAN /\ degraded \in BOOLEAN
  /\ now = 0 /\ phase = "battle"
  /\ LET status == IF enabled THEN "pending" ELSE "dormant"
     IN /\ battery = [m \in Missions |-> [g \in Batteries(m) |-> Pristine(status)]]
        /\ mission = [m \in Missions |-> Open(status)]
  /\ weapon = [g \in Guns |-> Full]
  /\ unit = [u \in Units |-> "ACTIVE"]
  /\ announced = {} /\ changes = 0

-----------------------------------------------------------------------------
(* An interval: what is due, in its order.                                 *)

Fire(m, g) == [at |-> FireTime(m, g), kind |-> "fire", mission |-> m, gun |-> g]
Impact(m) == [at |-> plan[m].impact, kind |-> "impact", mission |-> m, gun |-> -1]

\* Fires and impacts that have not been processed.
OpenMilestones ==
  UNION {{Fire(m, g) : g \in {b \in Batteries(m) : battery[m][b].status = "pending"}}
           \union {Impact(m)}
         : m \in {n \in Missions : mission[n].status = "pending"}}

Due == {e \in OpenMilestones : e.at <= now}

Precedes(e, f) ==
  \/ e.at < f.at
  \/ e.at = f.at /\ e.kind = "fire" /\ f.kind = "impact"
  \/ e.at = f.at /\ e.kind = f.kind /\ e.mission < f.mission
  \/ e.at = f.at /\ e.kind = f.kind /\ e.mission = f.mission /\ e.gun < f.gun

IsNext(e) == e \in Due /\ \A f \in Due \ {e} : Precedes(e, f)

\* The clock reaches the next boundary and the missions are updated.
BeginInterval ==
  /\ phase = "battle" /\ now < Horizon
  /\ now' = now + Cadence
  /\ phase' = "fires"
  /\ UNCHANGED <<config, battery, mission, weapon, unit, announced, changes>>

\* Mutant: the first failing observer ends the publication, suppressed or not.
MutPublish(events) ==
  \E n \in 0..Len(events) :
    /\ announced' = announced \union {events[i] : i \in 1..(IF n = 0 THEN Len(events) ELSE n)}
    /\ phase' = IF n > 0 /\ ~degraded THEN "stopped" ELSE "fires"

\* Every observer receives every event; the n-th event meets one that raises,
\* which is suppressed in a degraded run and stops a strict one.
Publish(events) ==
  \E n \in 0..Len(events) :
    LET stops == n > 0 /\ ~degraded
    IN /\ announced' = announced
            \union {events[i] : i \in 1..(IF stops THEN n ELSE Len(events))}
       /\ phase' = IF stops THEN "stopped" ELSE "fires"

-----------------------------------------------------------------------------
(* A battery's fire.                                                       *)

Ready(w, t, multiple) == w.last = Never \/ t - w.last >= Cooldown * multiple

\* The first of the conditions, in their order, that keeps a battery from
\* firing: status of its unit, circumstances, ammunition, cooldown.
Rejection(m, g, status, pre, w) ==
  CASE status # "ACTIVE" -> "battery_inactive"
    [] status = "ACTIVE" /\ pre # "fit" -> pre
    [] status = "ACTIVE" /\ pre = "fit" /\ w.rounds < plan[m].rounds -> "insufficient_ammunition"
    [] status = "ACTIVE" /\ pre = "fit" /\ w.rounds >= plan[m].rounds
         /\ ~Ready(w, FireTime(m, g), plan[m].rounds) -> "weapon_cooldown"
    [] OTHER -> ""

Spent(m, g, w) == [rounds |-> w.rounds - plan[m].rounds, last |-> FireTime(m, g)]

\* A battery whose time has passed is an error that stops the run; otherwise
\* it is rejected, or it fires, is recorded and only then announced.
ProcessScheduledFire(m, g) ==
  /\ phase = "fires" /\ IsNext(Fire(m, g))
  /\ IF FireTime(m, g) # now
     THEN phase' = "stopped" /\ UNCHANGED <<battery, weapon, announced>>
     ELSE \E pre \in Mishaps \union {"fit"} :
            LET w == weapon[g]
                reason == Rejection(m, g, unit[UnitOf[g]], pre, w)
                after == IF reason # "" THEN w ELSE Spent(m, g, w)
            IN /\ battery' = [battery EXCEPT ![m][g] =
                     [status |-> IF reason # "" THEN "rejected" ELSE "fired", at |-> now,
                      reason |-> reason, pre |-> pre, by |-> unit[UnitOf[g]],
                      before |-> w, after |-> after]]
               /\ weapon' = [weapon EXCEPT ![g] = after]
               /\ Publish(IF reason # "" THEN <<>>
                          ELSE << <<"ammo", m, g>>, <<"fire", m, g>> >>)
  /\ UNCHANGED <<config, now, mission, unit, changes>>

-----------------------------------------------------------------------------
(* A mission's impact.                                                     *)

Fired(m) == {g \in Batteries(m) : battery[m][g].status = "fired"}
Outcome(m) ==
  CASE Fired(m) = Batteries(m) -> "completed"
    [] Fired(m) = {} -> "rejected"
    [] OTHER -> "partial"

\* What the impacts may do to a target of this status.
Effects(m, before) ==
  CASE before # "ACTIVE" -> {"target_inactive"}
    [] before = "ACTIVE" /\ Fired(m) = {} -> {"missed"}
    [] OTHER -> {"missed", "unchanged", "disabled", "destroyed"}

StatusAfter(before, effect) ==
  CASE effect = "destroyed" -> "DESTROYED"
    [] effect = "disabled" -> "DISABLED"
    [] OTHER -> before

\* An impact with a pending battery, or past its time, stops the run.
CompleteScheduledMission(m) ==
  /\ phase = "fires" /\ IsNext(Impact(m))
  /\ IF plan[m].impact # now \/ \E g \in Batteries(m) : battery[m][g].status = "pending"
     THEN phase' = "stopped" /\ UNCHANGED <<mission, unit, announced>>
     ELSE \E effect \in Effects(m, unit[TargetOf[m]]) :
            LET before == unit[TargetOf[m]]
                after == StatusAfter(before, effect)
            IN /\ unit' = [unit EXCEPT ![TargetOf[m]] = after]
               /\ mission' = [mission EXCEPT ![m] =
                     [status |-> "completed", outcome |-> Outcome(m),
                      effect |-> effect, before |-> before, after |-> after]]
               /\ Publish((IF after # before THEN << <<"status", m>> >> ELSE <<>>)
                            \o << <<"terminal", m>> >>)
  /\ UNCHANGED <<config, now, battery, weapon, changes>>

\* Nothing more is due: the interval goes on to its battles.
FiresDone ==
  /\ phase = "fires" /\ (~enabled \/ Due = {})
  /\ phase' = "battle"
  /\ UNCHANGED <<config, now, battery, mission, weapon, unit, announced, changes>>

-----------------------------------------------------------------------------
(* The battles of the interval.                                            *)

\* Mutant: a mission holds its weapons only until it is the last to complete.
MutReserved(g) ==
  /\ enabled
  /\ \A m \in FiresOf(g) : mission[m].status # "completed"

\* An attachment is committed until the last of its missions has completed.
Reserved(g) ==
  /\ enabled
  /\ \E m \in FiresOf(g) : mission[m].status # "completed"

Volley == Larger(1, Cadence \div Cooldown)

\* A battle routes an attachment to indirect fire: as many rounds as its rate
\* allows in an interval, or what is left.
ExternalFire(g) ==
  /\ phase = "battle" /\ now > 0
  /\ ~Reserved(g) /\ unit[UnitOf[g]] = "ACTIVE"
  /\ Ready(weapon[g], now, Multiplier)
  /\ weapon[g].rounds > 0
  /\ weapon' = [weapon EXCEPT ![g] =
       [rounds |-> Larger(0, weapon[g].rounds - Volley), last |-> now]]
  /\ UNCHANGED <<config, now, phase, battery, mission, unit, announced, changes>>

\* Mutant: damage is applied whatever became of the unit meanwhile.
MutDamage(u) ==
  /\ phase = "battle" /\ now > 0
  /\ \E to \in {"DISABLED", "DESTROYED"} : unit' = [unit EXCEPT ![u] = to]
  /\ changes < MaxChanges /\ changes' = changes + 1
  /\ UNCHANGED <<config, now, phase, battery, mission, weapon, announced>>

\* A battle damages active units; one may have been routed before its damage is
\* applied at the end of the tick.
Damage(u) ==
  /\ phase = "battle" /\ now > 0
  /\ unit[u] \in {"ACTIVE", "ROUTING"}
  /\ \E to \in {"DISABLED", "DESTROYED"} : unit' = [unit EXCEPT ![u] = to]
  /\ changes < MaxChanges /\ changes' = changes + 1
  /\ UNCHANGED <<config, now, phase, battery, mission, weapon, announced>>

\* Morale routs, rallies or surrenders a unit that is still in the fight.
Morale(u) ==
  /\ phase = "battle" /\ now > 0
  /\ unit[u] \in {"ACTIVE", "ROUTING"}
  /\ \E to \in {"ACTIVE", "ROUTING", "SURRENDERED"} \ {unit[u]} :
       unit' = [unit EXCEPT ![u] = to]
  /\ changes < MaxChanges /\ changes' = changes + 1
  /\ UNCHANGED <<config, now, phase, battery, mission, weapon, announced>>

Next ==
  \/ BeginInterval \/ FiresDone
  \/ \E m \in Missions :
       \/ \E g \in Batteries(m) : ProcessScheduledFire(m, g)
       \/ CompleteScheduledMission(m)
  \/ \E g \in Guns : ExternalFire(g)
  \/ \E u \in Units : Damage(u) \/ Morale(u)

Spec == Init /\ [][Next]_vars

-----------------------------------------------------------------------------
(* What stage_state demands of a checkpoint.                               *)

\* Rounds left the magazine at the weapon's rate, between two times.
AcceptableExternal(w, x, from, to) ==
  /\ x.rounds < w.rounds
  /\ x.last # Never /\ from <= x.last /\ x.last <= to
  /\ w.last # Never =>
       x.last > w.last /\ x.last - w.last >= Cooldown * (w.rounds - x.rounds)

AcceptableBattery(m, g) ==
  LET b == battery[m][g]
      reason == Rejection(m, g, b.by, b.pre, b.before)
  IN CASE b.status = "dormant" -> ~enabled /\ b = Pristine("dormant")
       [] b.status = "pending" -> enabled /\ b = Pristine("pending") /\ FireTime(m, g) > now
       [] OTHER -> /\ enabled
                   /\ b.at = FireTime(m, g) /\ b.at <= now
                   /\ b.reason = reason
                   /\ IF b.status = "fired" THEN reason = "" /\ b.after = Spent(m, g, b.before)
                      ELSE reason # "" /\ b.after = b.before

\* A target on which a mission had a lasting effect has not recovered.
AcceptableMission(m) ==
  LET s == mission[m]
      status == unit[TargetOf[m]]
  IN CASE s.status = "dormant" -> ~enabled /\ s = Open("dormant")
       [] s.status = "pending" -> enabled /\ s = Open("pending") /\ plan[m].impact > now
       [] OTHER ->
            /\ enabled /\ plan[m].impact <= now
            /\ \A g \in Batteries(m) : battery[m][g].status \in {"fired", "rejected"}
            /\ s.outcome = Outcome(m) /\ s.effect \in Effects(m, s.before)
            /\ s.after = StatusAfter(s.before, s.effect)
            /\ s.after = "DESTROYED" => status = "DESTROYED"
            /\ s.after = "DISABLED" => status \in {"DISABLED", "DESTROYED"}
            /\ s.after = "SURRENDERED" => status \in {"SURRENDERED", "DESTROYED"}

\* The missions whose fire from an attachment has been decided, and the last of
\* some missions.
Served(g) == {m \in FiresOf(g) : battery[m][g].status \in {"fired", "rejected"}}
Earlier(g, m) == {n \in Served(g) : n # m /\ FiresBefore(g, n, m)}
LastOf(g, ms) == CHOOSE n \in ms : \A k \in ms \ {n} : FiresBefore(g, k, n)

\* The weapon is as the last of the missions left it, or as other fire can have
\* left it since.
LeftBy(g, ms) == IF ms = {} THEN Full ELSE battery[LastOf(g, ms)][g].after
LeftAt(g, ms) == IF ms = {} THEN 0 ELSE battery[LastOf(g, ms)][g].at
Follows(g, ms, w, to) ==
  w = LeftBy(g, ms) \/ AcceptableExternal(LeftBy(g, ms), w, LeftAt(g, ms), to)

\* The fires of an attachment and the live weapon form one history, in which
\* other fire is acceptable between any two of them and after the last.
AcceptableHistory(g) ==
  /\ \A m \in Served(g) :
       Follows(g, Earlier(g, m), battery[m][g].before, battery[m][g].at)
  /\ FiresOf(g) # {} => Follows(g, Served(g), weapon[g], now)

Acceptable ==
  /\ \A m \in Missions : AcceptableMission(m)
  /\ \A m \in Missions : \A g \in Batteries(m) : AcceptableBattery(m, g)
  /\ \A g \in Guns : AcceptableHistory(g)

-----------------------------------------------------------------------------
(* Properties.                                                             *)

\* Every variable has its type; time stands on a boundary.
TypeOK ==
  /\ plan \in Plans /\ enabled \in BOOLEAN /\ degraded \in BOOLEAN
  /\ now \in 0..(Horizon + Cadence - 1) /\ now % Cadence = 0
  /\ phase \in {"battle", "fires", "stopped"}
  /\ DOMAIN battery = Missions
  /\ \A m \in Missions : DOMAIN battery[m] = Batteries(m)
  /\ \A m \in Missions : \A g \in Batteries(m) :
       battery[m][g].status \in {"dormant", "pending", "fired", "rejected"}
  /\ DOMAIN mission = Missions
  /\ \A m \in Missions : mission[m].status \in {"dormant", "pending", "completed"}
  /\ weapon \in [Guns -> [rounds : 0..Magazine, last : Int]]
  /\ unit \in [Units -> Status] /\ changes \in 0..MaxChanges

\* A checkpoint written between two intervals is accepted when it is restored,
\* whatever was rejected, fired beside the plan, hit, routed or suppressed:
\* get_state checks none of what stage_state demands (indirect_fire.py).
Restorable == TypeOK /\ (phase = "battle" => Acceptable)

\* What the resolver accepts can be carried out: a battery is rejected for
\* what happens to its unit, never for rounds or cooldown that another mission
\* or a battle used up (_validate_aggregate_ammunition,
\* _validate_aggregate_cooldowns and is_attachment_reserved together).
NeverOverbooked ==
  \A m \in Missions : \A g \in Batteries(m) :
    battery[m][g].reason \notin {"insufficient_ammunition", "weapon_cooldown"}

\* What the records say has happened.
HappenedTo(m) ==
  ({"ammo", "fire"} \X {m} \X Fired(m))
    \union (IF mission[m].status = "completed" THEN {<<"terminal", m>>} ELSE {})
    \union (IF mission[m].before # mission[m].after THEN {<<"status", m>>} ELSE {})
Happened == UNION {HappenedTo(m) : m \in Missions}

\* As long as the run goes on, observers have received exactly what happened,
\* although one of them raised before (_publish_committed).
Announced == phase # "stopped" => announced = Happened

Schedule == INSTANCE FireSchedule WITH time <- now, open <- OpenMilestones

\* The missions keep the schedule: no boundary steps over a fire or an impact,
\* none is served twice, and a mission takes effect after all its fires.
KeepsSchedule == Schedule!Spec
=============================================================================
