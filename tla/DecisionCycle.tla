--------------------------- MODULE DecisionCycle ---------------------------
(***************************************************************************)
(* How commanders come to decisions: their OODA timers (c2/ai/ooda.py),    *)
(* which run only while a battle is fought, the planning of their orders   *)
(* (c2/planning/process.py), which runs with every tick, and the delay of  *)
(* orders on their way (simulation/battle.py).  A completed DECIDE phase   *)
(* waits for its plan and for its order; while it waits it belongs to a    *)
(* battle, and the battle takes it along when it ends.                     *)
(*                                                                         *)
(* Two sides, so that at most one battle is active.  Friction, planning    *)
(* and the decision engine are on.  Commanders are registered in the order *)
(* of their numbers.  Times that have run out are 0.                       *)
(***************************************************************************)
EXTENDS Integers, FiniteSets

CONSTANTS
  Commanders,   \* natural numbers
  Tactical,     \* length of a tick while a battle is fought
  Travelling,   \* lengths of other ticks
  PhaseTimes,   \* durations of OODA phases
  Methods,      \* of planning: phases, the time of each, the budget for all
  Delays,       \* of orders on their way
  MaxBattles    \* bound on the battles fought

ASSUME TimesAssumption ==
  /\ Commanders \subseteq Nat /\ IsFiniteSet(Commanders)
  /\ Tactical \in Nat \ {0}
  /\ Travelling \union PhaseTimes \union Delays \subseteq Nat \ {0}
  /\ Methods \subseteq [phases : Nat \ {0}, time : Nat, budget : Nat]
  /\ MaxBattles \in Nat
  /\ Methods # {} /\ Delays # {}

VARIABLES
  phase,        \* OODA phase of each commander
  timer,        \* and what is left of it
  plan,         \* its planning state
  due,          \* what is left of its order's delay: _pending_decisions
  owner,        \* battle its DECIDE phase waits in, or 0: _deferred_battle_ids
  out,          \* commanders that are not ACTIVE
  battle,       \* the active battle, or 0
  roster,       \* its commanders
  fought,       \* battles so far
  pc,           \* where the tick is
  fresh,        \* completions of this tick still to be processed
  late,         \* and those of earlier ticks, which come after them
  waited,       \* history: how long a DECIDE phase has waited for plan and order
  planned,      \* history: plans begun for the present DECIDE phase
  sent          \* history: orders sent for it

decisionVars == <<phase, timer, plan, due, owner>>
battleVars == <<out, battle, roster, fought>>
historyVars == <<waited, planned, sent>>
todo == <<fresh, late>>
vars == <<decisionVars, battleVars, pc, todo, historyVars>>

Phases == <<"OBSERVE", "ORIENT", "DECIDE", "ACT">>
NoPlan == [state |-> "IDLE", left |-> 0, timer |-> 0, time |-> 0, budget |-> 0]
Complete(result) == [NoPlan EXCEPT !.state = result]
NotPending == -1

Expired(c) == timer[c] = 0
Pending(c) == due[c] # NotPending

Init ==
  /\ phase = [c \in Commanders |-> "OBSERVE"]
  /\ timer \in [Commanders -> PhaseTimes]
  /\ plan = [c \in Commanders |-> NoPlan]
  /\ due = [c \in Commanders |-> NotPending]
  /\ owner = [c \in Commanders |-> 0]
  /\ out = {} /\ battle = 0 /\ roster = {} /\ fought = 0
  /\ pc = "idle" /\ fresh = {} /\ late = {}
  /\ waited = [c \in Commanders |-> 0]
  /\ planned = [c \in Commanders |-> 0] /\ sent = planned

-----------------------------------------------------------------------------
(* The clock.                                                              *)

Smaller(a, b) == IF a < b THEN a ELSE b
Larger(a, b) == IF a > b THEN a ELSE b
After(t, dt) == Larger(0, t - dt)

\* Mutant: phases take their nominal time whatever is left of the budget.
MutPhaseTimer(time, budget) == time

\* A phase ends with the budget at the latest.
PhaseTimer(time, budget) == Smaller(time, budget)

\* update() of one planning state, and what the engine does about a completed
\* phase.  The budget is kept as what is left of it.
Planned(p, dt) ==
  LET budget == After(p.budget, dt)
  IN CASE p.state # "planning" -> p
       [] p.state = "planning" /\ p.timer > dt ->
            [p EXCEPT !.timer = @ - dt, !.budget = budget]
       [] p.state = "planning" /\ p.timer <= dt /\ p.left > 1 ->
            [p EXCEPT !.left = @ - 1, !.budget = budget,
                      !.timer = PhaseTimer(p.time, budget)]
       [] OTHER -> Complete("ready")

Elapse(dt) ==
  /\ plan' = [c \in Commanders |-> Planned(plan[c], dt)]
  /\ due' = [c \in Commanders |-> IF Pending(c) THEN After(due[c], dt) ELSE due[c]]
  /\ waited' = [c \in Commanders |-> IF owner[c] # 0 THEN waited[c] + dt ELSE 0]

\* Units fall out or rally.
Casualties == \E c \in Commanders : out' \in {out, out \union {c}, out \ {c}}

\* A tick without a battle, at the end of which one may be found.  A battle
\* that is auto-resolved at once leaves nothing but casualties.
Travel(dt) ==
  /\ pc = "idle" /\ battle = 0
  /\ Elapse(dt)
  /\ Casualties
  /\ \/ UNCHANGED <<battle, roster, fought>>
     \/ /\ fought < MaxBattles
        /\ fought' = fought + 1 /\ battle' = fought'
        /\ roster' = Commanders \ out'
  /\ UNCHANGED <<phase, timer, owner, pc, todo, planned, sent>>

\* execute_ooda_interval: new completions in the order of registration, then
\* those that have waited in the order of identities.
BeginTactical ==
  /\ pc = "idle" /\ battle # 0
  /\ Elapse(Tactical)
  /\ timer' = [c \in Commanders |-> After(timer[c], Tactical)]
  /\ fresh' = {c \in roster : ~Expired(c) /\ timer'[c] = 0}
  /\ late' = {c \in roster : Expired(c)}
  /\ pc' = "ooda"
  /\ UNCHANGED <<phase, owner, battleVars, planned, sent>>

-----------------------------------------------------------------------------
(* One completion: _process_ooda_completions.                              *)

NextPhase(p) == LET i == CHOOSE i \in 1..4 : Phases[i] = p IN Phases[(i % 4) + 1]

\* _advance_ooda_completion: acknowledge completions and start their next phase.
Advance(cs) ==
  /\ phase' = [c \in Commanders |-> IF c \in cs THEN NextPhase(phase[c]) ELSE phase[c]]
  /\ \E t \in [cs -> PhaseTimes] :
       timer' = [c \in Commanders |-> IF c \in cs THEN t[c] ELSE timer[c]]
  /\ owner' = [c \in Commanders |-> IF c \in cs THEN 0 ELSE owner[c]]
  /\ waited' = [c \in Commanders |-> IF c \in cs THEN 0 ELSE waited[c]]
  /\ planned' = [c \in Commanders |-> IF c \in cs THEN 0 ELSE planned[c]]
  /\ sent' = [c \in Commanders |-> IF c \in cs THEN 0 ELSE sent[c]]

Processing(c) ==
  /\ pc = "ooda"
  /\ \/ c \in fresh
     \/ fresh = {} /\ c \in late
  /\ \A d \in fresh \union (IF fresh = {} THEN late ELSE {}) : c <= d

\* The completion is dealt with.
Processed(c) ==
  /\ fresh' = fresh \ {c} /\ late' = late \ {c}
  /\ UNCHANGED <<battleVars, pc>>

\* Other phases are assessed or acted upon at once.
PassPhase(c) ==
  /\ Processing(c) /\ phase[c] # "DECIDE"
  /\ Advance({c})
  /\ Processed(c) /\ UNCHANGED <<plan, due>>

Deciding(c) == Processing(c) /\ phase[c] = "DECIDE"

\* The order is still on its way.
AwaitOrder(c) ==
  /\ Deciding(c) /\ Pending(c) /\ due[c] > 0
  /\ Processed(c) /\ UNCHANGED <<decisionVars, historyVars>>

\* The plan is used up by the first decision after it.
Consumed(p) == IF p.state = "ready" THEN Complete("used") ELSE p

\* The engine decides, or the order went to the wrong unit.
Decide(c) ==
  /\ plan' = [plan EXCEPT ![c] = Consumed(@)]
  /\ Advance({c})

\* Mutant: a matured order is sent again.
MutMature(c) ==
  /\ Deciding(c) /\ due[c] = 0
  /\ due' = [due EXCEPT ![c] = CHOOSE d \in Delays : TRUE]
  /\ sent' = [sent EXCEPT ![c] = @ + 1]
  /\ Processed(c) /\ UNCHANGED <<phase, timer, plan, owner, waited, planned>>

\* The order has arrived.
Mature(c) ==
  /\ Deciding(c) /\ due[c] = 0
  /\ due' = [due EXCEPT ![c] = NotPending]
  /\ Decide(c)
  /\ Processed(c)

\* Communications are too poor for a new decision.
Skip(c) ==
  /\ Deciding(c) /\ ~Pending(c) /\ owner[c] = 0
  /\ Advance({c})
  /\ Processed(c) /\ UNCHANGED <<plan, due>>

\* Mutant: only orders on their way are bound.
MutBind(c) ==
  owner' = IF plan[c].state \in {"ready", "used"} THEN [owner EXCEPT ![c] = battle]
           ELSE owner

\* _bind_deferred_ooda_owner.
Bind(c) == owner' = [owner EXCEPT ![c] = battle]

AwaitPlan(c) ==
  /\ Deciding(c) /\ ~Pending(c) /\ plan[c].state = "planning"
  /\ Bind(c)
  /\ Processed(c) /\ UNCHANGED <<phase, timer, plan, due, historyVars>>

InitiatePlanning(c) ==
  /\ Deciding(c) /\ ~Pending(c) /\ plan[c].state = "IDLE"
  /\ \E m \in Methods :
       plan' = [plan EXCEPT ![c] =
         [state |-> "planning", left |-> m.phases, time |-> m.time, budget |-> m.budget,
          timer |-> PhaseTimer(m.time, m.budget)]]
  /\ planned' = [planned EXCEPT ![c] = @ + 1]
  /\ Bind(c)
  /\ Processed(c) /\ UNCHANGED <<phase, timer, due, waited, sent>>

Ordering(c) == Deciding(c) /\ ~Pending(c) /\ plan[c].state \in {"ready", "used"}

PropagationFails(c) ==
  /\ Ordering(c)
  /\ Advance({c})
  /\ Processed(c) /\ UNCHANGED <<plan, due>>

\* A misunderstood time doubles the delay.
Queue(c) ==
  /\ Ordering(c)
  /\ \E d \in Delays : \E k \in {1, 2} : due' = [due EXCEPT ![c] = k * d]
  /\ sent' = [sent EXCEPT ![c] = @ + 1]
  /\ Bind(c)
  /\ Processed(c) /\ UNCHANGED <<phase, timer, plan, waited, planned>>

DecideAtOnce(c) ==
  /\ Ordering(c)
  /\ Decide(c)
  /\ Processed(c) /\ UNCHANGED due

-----------------------------------------------------------------------------
(* The rest of the tick.                                                   *)

\* The battle goes on.
Fight ==
  /\ pc = "ooda" /\ fresh = {} /\ late = {}
  /\ Casualties
  /\ pc' = "idle"
  /\ UNCHANGED <<decisionVars, battle, roster, fought, todo, historyVars>>

\* Mutant: only the commanders that are still in action are released.
MutReleased == {c \in Commanders \ out' : owner[c] = battle}

\* Commanders whose decision ends with the battle.
Released == {c \in Commanders : owner[c] = battle}

\* resolve_battle takes the waiting decisions along, with their plans,
\* completed or not.
Resolve ==
  /\ pc = "ooda" /\ fresh = {} /\ late = {}
  /\ Casualties
  /\ due' = [c \in Commanders |-> IF c \in Released THEN NotPending ELSE due[c]]
  /\ plan' = [c \in Commanders |-> IF c \in Released THEN NoPlan ELSE plan[c]]
  /\ Advance(Released)
  /\ battle' = 0 /\ roster' = {}
  /\ pc' = "idle"
  /\ UNCHANGED <<fought, todo>>

Next ==
  \/ \E dt \in Travelling : Travel(dt)
  \/ BeginTactical
  \/ \E c \in Commanders :
       \/ PassPhase(c) \/ AwaitOrder(c) \/ Mature(c) \/ Skip(c)
       \/ AwaitPlan(c) \/ InitiatePlanning(c)
       \/ PropagationFails(c) \/ Queue(c) \/ DecideAtOnce(c)
  \/ Fight \/ Resolve

Spec == Init /\ [][Next]_vars

-----------------------------------------------------------------------------
(* What a restore makes of a checkpoint.                                   *)

\* The commanders set_state takes for waiting ones: their planning states are
\* looked at without regard to how far they are.
Claimed ==
  {c \in Commanders :
     phase[c] = "DECIDE" /\ Expired(c) /\ (Pending(c) \/ plan[c] # NoPlan)}

\* stage_state of the battle manager accepts a claim, and what it restores.
AcceptableClaim(c) == battle # 0 /\ c \in roster
RestoredOwner(c) == IF c \in Claimed THEN battle ELSE 0

-----------------------------------------------------------------------------
(* Properties.                                                             *)

PlanType ==
  [state : {"IDLE", "planning", "ready", "used"}, left : Nat, timer : Nat,
   time : Nat, budget : Nat]

\* Every variable has its type.
TypeOK ==
  /\ phase \in [Commanders -> {Phases[i] : i \in 1..4}]
  /\ timer \in [Commanders -> Nat]
  /\ plan \in [Commanders -> PlanType]
  /\ due \in [Commanders -> Nat \union {NotPending}]
  /\ fought \in 0..MaxBattles
  /\ battle \in {0, fought} /\ owner \in [Commanders -> {0, battle}]
  /\ out \subseteq Commanders /\ roster \subseteq Commanders
  /\ pc \in {"idle", "ooda"} /\ fresh \union late \subseteq Commanders
  /\ waited \in [Commanders -> Nat] /\ planned \in [Commanders -> Nat]
  /\ sent \in [Commanders -> Nat]

\* A waiting decision waits for something, in the active battle and as one of
\* its roster, and nothing else is planned or on its way, so that none of the
\* executor's runtime errors can be met; and no commander of the battle is left
\* in an expired phase without waiting (tiered-modular-monolith.md, R2).
OwnedBy(c) ==
  /\ owner[c] # 0 =>
       /\ owner[c] = battle /\ c \in roster
       /\ phase[c] = "DECIDE" /\ Expired(c)
       /\ Pending(c) \/ plan[c] # NoPlan
  /\ Pending(c) => owner[c] # 0 /\ plan[c].state \in {"ready", "used"}
  /\ plan[c].state = "planning" => owner[c] # 0
  /\ pc = "ooda" /\ c \in roster \ (fresh \union late) /\ Expired(c) => owner[c] # 0

Owned == \A c \in Commanders : OwnedBy(c)

\* One DECIDE phase is planned for once and its order sent once, however many
\* intervals it waits and in whatever order plan and order are ready.
OnceEach == \A c \in Commanders : planned[c] <= 1 /\ sent[c] <= 1

\* A decision waits no longer than the largest of all planning budgets and twice
\* the longest delay, whichever way it is planned, and a tick for each phase and
\* for the order, which end between two ticks: no long tick passes while it waits.
WaitBounded ==
  \A c \in Commanders :
    \E m \in Methods, d \in Delays :
      waited[c] <= m.budget + (m.phases + 1) * Tactical + 2 * d

\* A commander that no battle waits for, with a plan from an earlier decision.
Stray(c) == owner[c] = 0 /\ ~Pending(c) /\ plan[c].state \in {"ready", "used"}

\* A checkpoint between two ticks can be restored, and restores the decisions
\* that wait and no others, up to stray commanders.
Restorable ==
  /\ TypeOK
  /\ pc = "idle" => \A c \in Commanders :
       \/ Stray(c)
       \/ /\ RestoredOwner(c) = owner[c]
          /\ c \in Claimed => AcceptableClaim(c)

\* What the documentation says: any checkpoint can be restored.
AlwaysRestorable == pc = "idle" => \A c \in Claimed : AcceptableClaim(c)
=============================================================================
