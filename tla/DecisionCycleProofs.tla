------------------------ MODULE DecisionCycleProofs ------------------------
(***************************************************************************)
(* Proofs about DecisionCycle, for any commanders, ticks, durations and    *)
(* ways of planning: decisions that wait are owned, each is planned and    *)
(* ordered once, none waits longer than its bound, and what a checkpoint   *)
(* restores is what waited.  All four come from one inductive invariant,   *)
(* which speaks of one commander at a time.                                *)
(***************************************************************************)
EXTENDS DecisionCycle, TLAPS

-----------------------------------------------------------------------------
(* The inductive invariant.                                                *)

InTodo(c) == c \in fresh \union late
Planning(c) == plan[c].state = "planning"

\* The completions of a tick are expired phases of the roster; only those of
\* earlier ticks may have waited before.
TodoSound(c) ==
  /\ InTodo(c) => c \in roster /\ Expired(c)
  /\ c \in fresh => owner[c] = 0

\* Plans start from nothing, and a decision is planned and ordered at most once.
PlanSound(c) ==
  /\ plan[c].state = "IDLE" => plan[c] = NoPlan /\ planned[c] = 0
  /\ planned[c] <= 1
  /\ sent[c] = IF Pending(c) THEN 1 ELSE 0

\* Whoever waits when its completion has been dealt with waits for a plan or for
\* an order that still has some way to go.
Waiting(c) == owner[c] # 0 /\ ~InTodo(c) => Planning(c) \/ due[c] > 0

\* The time for planning by method m: its budget, and a tick for each phase.
PlanTime(m) == m.budget + m.phases * Tactical

\* What is left of a plan fits in what is left of its time.
PlanOnTime(c) ==
  /\ plan[c].left >= 1 /\ plan[c].timer <= plan[c].budget
  /\ \E m \in Methods :
       /\ plan[c].budget <= m.budget /\ plan[c].left <= m.phases
       /\ waited[c] + plan[c].budget + plan[c].left * Tactical <= PlanTime(m)

\* What is left of a delay fits in what is left of its time; one that ended
\* between two ticks has cost a tick more.
OrderOnTime(c) ==
  \E m \in Methods, d \in Delays :
    /\ due[c] <= 2 * d
    /\ waited[c] + due[c] <=
         PlanTime(m) + 2 * d + (IF due[c] = 0 THEN Tactical ELSE 0)

\* No commander has waited longer than what it waits for can have taken.
OnTime(c) ==
  /\ owner[c] = 0 => waited[c] = 0
  /\ Planning(c) => PlanOnTime(c)
  /\ Pending(c) => OrderOnTime(c)
  /\ ~Planning(c) /\ ~Pending(c) => \E m \in Methods : waited[c] <= PlanTime(m)

CommanderInv(c) ==
  OwnedBy(c) /\ TodoSound(c) /\ PlanSound(c) /\ Waiting(c) /\ OnTime(c)

\* Completions are processed only in a battle, and within one tick.
TickInv ==
  /\ pc = "ooda" => battle # 0
  /\ pc = "idle" => fresh = {} /\ late = {}
  /\ battle = 0 => roster = {}

IInv == TypeOK /\ TickInv /\ \A c \in Commanders : CommanderInv(c)

-----------------------------------------------------------------------------
(* Lemmas.                                                                 *)

USE DEF Expired, Pending, NotPending

LEMMA PlanTimeType ==
  \A m \in Methods : PlanTime(m) \in Nat /\ m.phases * Tactical \in Nat
BY TimesAssumption DEF PlanTime

\* The clock never goes below zero.
LEMMA AfterType ==
  ASSUME NEW t \in Nat, NEW dt \in Nat
  PROVE  /\ After(t, dt) \in Nat
         /\ After(t, dt) <= t
         /\ t >= dt => After(t, dt) = t - dt
         /\ t <= dt => After(t, dt) = 0
BY DEF After, Larger

LEMMA PhaseTimerType ==
  ASSUME NEW t \in Nat, NEW b \in Nat
  PROVE  PhaseTimer(t, b) \in Nat /\ PhaseTimer(t, b) <= b
BY DEF PhaseTimer, Smaller

LEMMA NoPlanType ==
  /\ NoPlan \in PlanType
  /\ \A r \in {"ready", "used"} :
       Complete(r) \in PlanType /\ Complete(r).state = r /\ Complete(r) # NoPlan
BY DEF NoPlan, PlanType, Complete

\* One step of a plan: it goes on in what is left of its budget, loses a phase
\* or is ready.
LEMMA PlannedStep ==
  ASSUME NEW p \in PlanType, NEW dt \in Nat
  PROVE  /\ Planned(p, dt) \in PlanType
         /\ p.state # "planning" => Planned(p, dt) = p
         /\ p.state = "planning" =>
              /\ Planned(p, dt).state \in {"planning", "ready"}
              /\ p.left > 1 \/ p.timer > dt \/ Planned(p, dt).state = "ready"
         /\ Planned(p, dt) # NoPlan \/ p = NoPlan
         /\ Planned(p, dt).state = "IDLE" => p.state = "IDLE"
         /\ p.state = "planning" /\ p.timer > dt =>
              /\ Planned(p, dt).left = p.left
              /\ Planned(p, dt).timer = p.timer - dt
              /\ Planned(p, dt).budget = After(p.budget, dt)
         /\ p.timer <= dt /\ Planned(p, dt).state = "planning" =>
              /\ Planned(p, dt).left = p.left - 1 /\ p.left > 1
              /\ Planned(p, dt).budget = After(p.budget, dt)
              /\ Planned(p, dt).timer <= Planned(p, dt).budget
<1>1. After(p.budget, dt) \in Nat
  BY AfterType DEF PlanType
<1>2. PhaseTimer(p.time, After(p.budget, dt)) \in Nat
      /\ PhaseTimer(p.time, After(p.budget, dt)) <= After(p.budget, dt)
  BY <1>1, PhaseTimerType DEF PlanType
<1>3. CASE p.state # "planning"
  BY <1>3 DEF Planned, NoPlan
<1>4. CASE p.state = "planning" /\ p.timer > dt
  <2> DEFINE q == [p EXCEPT !.timer = @ - dt, !.budget = After(p.budget, dt)]
  <2>1. Planned(p, dt) = q
    BY <1>4 DEF Planned, PlanType
  <2>2. p.timer - dt \in Nat
    BY <1>4 DEF PlanType
  <2>3. /\ q \in PlanType /\ q.state = "planning" /\ q.left = p.left
        /\ q.timer = p.timer - dt /\ q.budget = After(p.budget, dt)
    BY <1>1, <1>4, <2>2 DEF PlanType
  <2> HIDE DEF q
  <2> QED
    BY <1>4, <2>1, <2>3 DEF NoPlan, PlanType
<1>5. CASE p.state = "planning" /\ p.timer <= dt /\ p.left > 1
  <2> DEFINE b == After(p.budget, dt)
             q == [p EXCEPT !.left = @ - 1, !.budget = b, !.timer = PhaseTimer(p.time, b)]
  <2>1. Planned(p, dt) = q
    BY <1>5 DEF Planned
  <2>2. p.left - 1 \in Nat
    BY <1>5 DEF PlanType
  <2>3. /\ q \in PlanType /\ q.state = "planning" /\ q.left = p.left - 1
        /\ q.timer = PhaseTimer(p.time, b) /\ q.budget = b
    BY <1>1, <1>2, <1>5, <2>2 DEF PlanType
  <2> HIDE DEF q
  <2> QED
    BY <1>2, <1>5, <2>1, <2>3 DEF NoPlan, PlanType
<1>6. CASE p.state = "planning" /\ p.timer <= dt /\ ~(p.left > 1)
  BY <1>6, NoPlanType DEF Planned, NoPlan, PlanType, Complete
<1> QED
  BY <1>3, <1>4, <1>5, <1>6 DEF PlanType

\* What an acknowledged commander becomes, and that the others stay.
LEMMA Advanced ==
  ASSUME TypeOK, NEW cs \in SUBSET Commanders, Advance(cs)
  PROVE  /\ phase' \in [Commanders -> {Phases[i] : i \in 1..4}]
         /\ timer' \in [Commanders -> Nat]
         /\ owner' \in [Commanders -> {0, battle}]
         /\ waited' \in [Commanders -> Nat] /\ planned' \in [Commanders -> Nat]
         /\ sent' \in [Commanders -> Nat]
         /\ \A c \in cs :
              /\ timer'[c] # 0 /\ owner'[c] = 0 /\ waited'[c] = 0
              /\ planned'[c] = 0 /\ sent'[c] = 0
         /\ \A c \in Commanders \ cs :
              /\ phase'[c] = phase[c] /\ timer'[c] = timer[c] /\ owner'[c] = owner[c]
              /\ waited'[c] = waited[c] /\ planned'[c] = planned[c] /\ sent'[c] = sent[c]
<1>1. PICK t \in [cs -> PhaseTimes] :
        timer' = [c \in Commanders |-> IF c \in cs THEN t[c] ELSE timer[c]]
  BY DEF Advance
<1>2. \A c \in cs : t[c] \in Nat \ {0}
  BY TimesAssumption
<1>3. ASSUME NEW c \in Commanders
      PROVE  NextPhase(phase[c]) \in {Phases[i] : i \in 1..4}
  <2> DEFINE i == CHOOSE i \in 1..4 : Phases[i] = phase[c]
  <2>1. i \in 1..4
    BY DEF TypeOK
  <2> HIDE DEF i
  <2>2. i % 4 \in 0..3
    BY <2>1, SMT
  <2> QED
    BY <2>2, (i % 4) + 1 \in 1..4 DEF NextPhase, i
<1>4. phase' \in [Commanders -> {Phases[i] : i \in 1..4}]
  BY <1>3 DEF Advance, TypeOK
<1>5. /\ timer' \in [Commanders -> Nat]
      /\ \A c \in cs : timer'[c] # 0
      /\ \A c \in Commanders \ cs : timer'[c] = timer[c]
  BY <1>1, <1>2 DEF TypeOK
<1> QED
  BY <1>4, <1>5 DEF Advance, TypeOK

\* What commander d is about stays as it is.
Still(d) ==
  /\ phase'[d] = phase[d] /\ timer'[d] = timer[d] /\ plan'[d] = plan[d]
  /\ due'[d] = due[d] /\ owner'[d] = owner[d] /\ waited'[d] = waited[d]
  /\ planned'[d] = planned[d] /\ sent'[d] = sent[d]
  /\ (d \in fresh' <=> d \in fresh) /\ (d \in late' <=> d \in late)

\* A step about one commander keeps the invariant of the others.
LEMMA OthersStill ==
  ASSUME IInv, NEW c \in Commanders, TypeOK', CommanderInv(c)', Processing(c),
         Processed(c), \A d \in Commanders \ {c} : Still(d)
  PROVE  IInv'
<1>1. pc' = pc /\ battle' = battle /\ roster' = roster /\ pc = "ooda"
  BY DEF Processed, Processing, battleVars
<1>2. TickInv'
  BY <1>1 DEF IInv, TickInv
<1>3. ASSUME NEW d \in Commanders, d # c
      PROVE  CommanderInv(d)'
  <2>1. Still(d) /\ CommanderInv(d)
    BY <1>3 DEF IInv
  <2>2. OwnedBy(d)'
    BY <1>1, <2>1 DEF CommanderInv, OwnedBy, Still
  <2>3. TodoSound(d)' /\ PlanSound(d)' /\ Waiting(d)'
    BY <1>1, <2>1 DEF CommanderInv, TodoSound, PlanSound, Waiting, Planning, InTodo, Still
  <2>4. OnTime(d)'
    BY <2>1 DEF CommanderInv, OnTime, PlanOnTime, OrderOnTime, Planning, PlanTime, Still
  <2> QED
    BY <2>2, <2>3, <2>4 DEF CommanderInv
<1> QED
  BY <1>2, <1>3 DEF IInv

\* A commander that is acknowledged while no order is on its way owes nothing,
\* whatever became of its plan.
LEMMA FreeInv ==
  ASSUME NEW c \in Commanders, TypeOK',
         timer'[c] # 0, owner'[c] = 0, waited'[c] = 0, planned'[c] = 0, sent'[c] = 0,
         due'[c] = NotPending, plan'[c].state # "planning",
         plan'[c].state = "IDLE" => plan'[c] = NoPlan, ~InTodo(c)'
  PROVE  CommanderInv(c)'
<1>1. OwnedBy(c)' /\ TodoSound(c)' /\ PlanSound(c)' /\ Waiting(c)'
  BY DEF OwnedBy, TodoSound, PlanSound, Waiting, Planning, InTodo
<1>2. \E m \in Methods : 0 <= PlanTime(m)
  BY TimesAssumption, PlanTimeType
<1>3. OnTime(c)'
  BY <1>2 DEF OnTime, Planning, PlanTime
<1> QED
  BY <1>1, <1>3 DEF CommanderInv

-----------------------------------------------------------------------------
(* The clock.                                                              *)

LEMMA InitEstablishesInv == Init => IInv
<1> SUFFICES ASSUME Init PROVE IInv
  OBVIOUS
<1>1. TypeOK
  <2>1. Phases[1] = "OBSERVE"
    BY DEF Phases
  <2>2. timer \in [Commanders -> Nat] /\ 0 \in 0..MaxBattles
    BY TimesAssumption DEF Init
  <2> QED
    BY <2>1, <2>2, NoPlanType DEF Init, TypeOK
<1>2. TickInv
  BY DEF Init, TickInv
<1>3. ASSUME NEW c \in Commanders
      PROVE  CommanderInv(c)
  <2>1. /\ timer[c] # 0 /\ owner[c] = 0 /\ waited[c] = 0 /\ planned[c] = 0 /\ sent[c] = 0
        /\ due[c] = NotPending /\ plan[c] = NoPlan /\ ~InTodo(c)
    BY TimesAssumption DEF Init, InTodo
  <2>2. plan[c].state = "IDLE"
    BY <2>1 DEF NoPlan
  <2>3. OwnedBy(c) /\ TodoSound(c) /\ PlanSound(c) /\ Waiting(c)
    BY <2>1, <2>2 DEF OwnedBy, TodoSound, PlanSound, Waiting, Planning, InTodo
  <2>4. \E m \in Methods : 0 <= PlanTime(m)
    BY TimesAssumption, PlanTimeType
  <2>5. OnTime(c)
    BY <2>1, <2>2, <2>4 DEF OnTime, Planning
  <2> QED
    BY <2>3, <2>5 DEF CommanderInv
<1> QED
  BY <1>1, <1>2, <1>3 DEF IInv

\* What time does to plans and orders.
LEMMA Elapsed ==
  ASSUME TypeOK, NEW dt \in Nat, Elapse(dt)
  PROVE  /\ plan' \in [Commanders -> PlanType]
         /\ due' \in [Commanders -> Nat \union {NotPending}]
         /\ waited' \in [Commanders -> Nat]
         /\ \A c \in Commanders :
              /\ plan'[c] = Planned(plan[c], dt)
              /\ Pending(c) <=> Pending(c)'
              /\ Pending(c) => due'[c] = After(due[c], dt)
              /\ waited'[c] = IF owner[c] # 0 THEN waited[c] + dt ELSE 0
<1>1. \A c \in Commanders : plan[c] \in PlanType
  BY DEF TypeOK
<1>2. \A c \in Commanders : Planned(plan[c], dt) \in PlanType
  BY <1>1, PlannedStep
<1>3. ASSUME NEW c \in Commanders, Pending(c)
      PROVE  After(due[c], dt) \in Nat
  BY <1>3, AfterType DEF TypeOK
<1> QED
  BY <1>2, <1>3 DEF Elapse, TypeOK

\* Between battles nothing is planned and no order is on its way, so that a
\* tick of any length leaves every commander as it is.
LEMMA TravelKeepsInv ==
  ASSUME IInv, NEW dt \in Travelling, Travel(dt)
  PROVE  IInv'
<1>1. dt \in Nat
  BY TimesAssumption
<1>2. Elapse(dt) /\ TypeOK
  BY DEF Travel, IInv
<1>3. out' \subseteq Commanders
  BY <1>2 DEF Travel, Casualties, TypeOK
<1>4. /\ fought' \in 0..MaxBattles /\ battle' \in {0, fought'}
      /\ roster' \subseteq Commanders /\ (battle' = 0 => roster' = {})
  <2>1. CASE UNCHANGED <<battle, roster, fought>>
    BY <1>2, <2>1 DEF Travel, TypeOK, IInv, TickInv
  <2>2. CASE fought < MaxBattles /\ fought' = fought + 1 /\ battle' = fought'
             /\ roster' = Commanders \ out'
    BY <1>2, <2>2, TimesAssumption DEF TypeOK
  <2> QED
    BY <2>1, <2>2 DEF Travel
<1>5. \A c \in Commanders : owner[c] = 0
  BY <1>2 DEF Travel, TypeOK
<1>6. owner' \in [Commanders -> {0, battle'}]
  BY <1>2, <1>5 DEF Travel, TypeOK
<1>7. TypeOK'
  BY <1>1, <1>2, <1>3, <1>4, <1>6, Elapsed DEF Travel, TypeOK, todo
<1>8. TickInv'
  BY <1>4 DEF Travel, TickInv, IInv, todo
<1>9. ASSUME NEW c \in Commanders
      PROVE  CommanderInv(c)'
  <2>1. owner[c] = 0 /\ ~Pending(c) /\ ~Planning(c) /\ PlanSound(c)
    BY <1>5 DEF IInv, CommanderInv, OwnedBy, Planning
  <2>2. plan[c] \in PlanType
    BY <1>2 DEF TypeOK
  <2>3. plan'[c] = plan[c] /\ ~Pending(c)' /\ waited'[c] = 0
    BY <1>1, <1>2, <2>1, <2>2, Elapsed, PlannedStep DEF Planning
  <2>4. owner'[c] = 0 /\ pc' = "idle" /\ planned' = planned /\ sent' = sent /\ ~InTodo(c)'
    BY <2>1 DEF Travel, InTodo, IInv, TickInv, todo
  <2>5. OwnedBy(c)' /\ TodoSound(c)' /\ PlanSound(c)' /\ Waiting(c)'
    BY <2>1, <2>3, <2>4 DEF OwnedBy, TodoSound, PlanSound, Waiting, Planning, InTodo
  <2>6. \E m \in Methods : 0 <= PlanTime(m)
    BY TimesAssumption, PlanTimeType
  <2>7. OnTime(c)'
    BY <2>1, <2>3, <2>4, <2>6 DEF OnTime, Planning, PlanTime
  <2> QED
    BY <2>5, <2>7 DEF CommanderInv
<1> QED
  BY <1>7, <1>8, <1>9 DEF IInv

\* A tick of a battle costs a plan at most what its budget and its phases lose.
LEMMA PlanStaysOnTime ==
  ASSUME TypeOK, Elapse(Tactical), NEW c \in Commanders, owner[c] # 0, Planning(c),
         PlanOnTime(c)
  PROVE  /\ Planning(c)' => PlanOnTime(c)'
         /\ \E m \in Methods : waited'[c] <= PlanTime(m)
<1> DEFINE p == plan[c]
<1>1. Tactical \in Nat /\ p \in PlanType /\ waited[c] \in Nat
  BY TimesAssumption DEF TypeOK
<1>2. plan'[c] = Planned(p, Tactical) /\ waited'[c] = waited[c] + Tactical
  BY <1>1, Elapsed
<1>3. plan'[c] \in PlanType
  BY <1>1, <1>2, PlannedStep
<1>4. PICK m \in Methods :
        /\ p.budget <= m.budget /\ p.left <= m.phases
        /\ waited[c] + p.budget + p.left * Tactical <= PlanTime(m)
  BY DEF PlanOnTime
<1>5. p.left >= 1 /\ p.timer <= p.budget
  BY DEF PlanOnTime
<1>6. /\ p.left \in Nat /\ p.budget \in Nat /\ p.timer \in Nat /\ PlanTime(m) \in Nat
      /\ p.left * Tactical \in Nat
  BY <1>1, PlanTimeType DEF PlanType
<1>7. (p.left - 1) * Tactical = p.left * Tactical - Tactical /\ (p.left - 1) * Tactical \in Nat
  BY <1>1, <1>5, <1>6
<1>8. \E n \in Methods : waited'[c] <= PlanTime(n)
  <2>1. waited'[c] + p.budget + (p.left - 1) * Tactical <= PlanTime(m)
    BY <1>1, <1>2, <1>4, <1>6, <1>7
  <2>2. waited'[c] <= PlanTime(m)
    BY <1>1, <1>2, <1>6, <1>7, <2>1
  <2> QED
    BY <2>2
<1>9. ASSUME Planning(c)'
      PROVE  PlanOnTime(c)'
  <2>0. After(p.budget, Tactical) \in Nat /\ After(p.budget, Tactical) <= p.budget
        /\ (p.budget >= Tactical => After(p.budget, Tactical) = p.budget - Tactical)
        /\ m.budget \in Nat /\ m.phases \in Nat
    BY <1>1, <1>6, AfterType, TimesAssumption
  <2>1. CASE p.timer > Tactical
    <3>1. /\ plan'[c].left = p.left /\ plan'[c].timer = p.timer - Tactical
          /\ plan'[c].budget = After(p.budget, Tactical)
      BY <1>1, <1>2, <2>1, PlannedStep DEF Planning
    <3>2. plan'[c].budget = p.budget - Tactical
      BY <1>1, <1>5, <1>6, <2>0, <2>1, <3>1
    <3>3. /\ plan'[c].left >= 1 /\ plan'[c].timer <= plan'[c].budget
          /\ plan'[c].budget <= m.budget /\ plan'[c].left <= m.phases
          /\ waited'[c] + plan'[c].budget + plan'[c].left * Tactical <= PlanTime(m)
      BY <1>1, <1>2, <1>4, <1>5, <1>6, <2>0, <2>1, <3>1, <3>2
    <3> QED
      BY <3>3 DEF PlanOnTime, PlanTime
  <2>2. CASE p.timer <= Tactical
    <3>1. /\ plan'[c].left = p.left - 1 /\ p.left > 1
          /\ plan'[c].budget = After(p.budget, Tactical)
          /\ plan'[c].timer <= plan'[c].budget
      BY <1>1, <1>2, <1>9, <2>2, PlannedStep DEF Planning
    <3>2. /\ plan'[c].left >= 1
          /\ plan'[c].budget <= m.budget /\ plan'[c].left <= m.phases
          /\ waited'[c] + plan'[c].budget + plan'[c].left * Tactical <= PlanTime(m)
      BY <1>1, <1>2, <1>4, <1>6, <1>7, <2>0, <3>1
    <3> QED
      BY <3>1, <3>2 DEF PlanOnTime, PlanTime
  <2> QED
    BY <1>1, <1>6, <2>1, <2>2
<1> QED
  BY <1>8, <1>9

\* And an order at most what its delay loses.
LEMMA OrderStaysOnTime ==
  ASSUME TypeOK, Elapse(Tactical), NEW c \in Commanders, owner[c] # 0, due[c] > 0,
         Pending(c), OrderOnTime(c)
  PROVE  OrderOnTime(c)'
<1>1. Tactical \in Nat \ {0} /\ waited[c] \in Nat /\ due[c] \in Nat
  BY TimesAssumption DEF TypeOK
<1>2. due'[c] = After(due[c], Tactical) /\ waited'[c] = waited[c] + Tactical
  BY <1>1, Elapsed
<1>3. PICK m \in Methods, d \in Delays :
        due[c] <= 2 * d /\ waited[c] + due[c] <= PlanTime(m) + 2 * d
  BY <1>1, PlanTimeType, TimesAssumption DEF OrderOnTime
<1>4. PlanTime(m) \in Nat /\ d \in Nat
  BY PlanTimeType, TimesAssumption
<1>5. CASE due[c] > Tactical
  <2>1. due'[c] = due[c] - Tactical
    BY <1>1, <1>2, <1>5, AfterType
  <2>2. /\ due'[c] <= 2 * d /\ due'[c] # 0
        /\ waited'[c] + due'[c] <= PlanTime(m) + 2 * d
    BY <1>1, <1>2, <1>3, <1>4, <1>5, <2>1
  <2> QED
    BY <2>2, <1>4 DEF OrderOnTime, PlanTime
<1>6. CASE due[c] <= Tactical
  <2>1. due'[c] = 0
    BY <1>1, <1>2, <1>6, AfterType
  <2>2. /\ due'[c] <= 2 * d
        /\ waited'[c] + due'[c] <= PlanTime(m) + 2 * d + Tactical
    BY <1>1, <1>2, <1>3, <1>4, <1>6, <2>1
  <2> QED
    BY <2>1, <2>2 DEF OrderOnTime, PlanTime
<1> QED
  BY <1>1, <1>5, <1>6

\* All expired phases of the roster come up in every tick of the battle.
LEMMA BeginTacticalKeepsInv ==
  ASSUME IInv, BeginTactical
  PROVE  IInv'
<1>1. TypeOK /\ Elapse(Tactical) /\ Tactical \in Nat \ {0} /\ fresh = {} /\ late = {}
  BY TimesAssumption DEF IInv, TickInv, BeginTactical
<1>2. \A c \in Commanders :
        /\ timer'[c] = After(timer[c], Tactical) /\ timer'[c] \in Nat
        /\ timer[c] = 0 => timer'[c] = 0
  BY <1>1, AfterType DEF BeginTactical, TypeOK
<1>3. TypeOK'
  <2>1. timer' \in [Commanders -> Nat]
    BY <1>2 DEF BeginTactical
  <2>2. fresh' \union late' \subseteq Commanders
    BY <1>1 DEF BeginTactical, TypeOK
  <2> QED
    BY <1>1, <2>1, <2>2, Elapsed DEF BeginTactical, TypeOK, battleVars
<1>4. TickInv'
  BY DEF IInv, TickInv, BeginTactical, battleVars
<1>5. ASSUME NEW c \in Commanders
      PROVE  CommanderInv(c)'
  <2>1. /\ CommanderInv(c) /\ plan[c] \in PlanType /\ ~InTodo(c)
        /\ phase' = phase /\ owner' = owner /\ battle' = battle /\ roster' = roster
        /\ planned' = planned /\ sent' = sent
    BY <1>1 DEF IInv, TypeOK, BeginTactical, battleVars, InTodo
  <2>2. /\ plan'[c] = Planned(plan[c], Tactical) /\ (Pending(c) <=> Pending(c)')
        /\ waited'[c] = IF owner[c] # 0 THEN waited[c] + Tactical ELSE 0
    BY <1>1, Elapsed
  <2>3. TodoSound(c)'
    BY <1>2, <2>1 DEF TodoSound, CommanderInv, OwnedBy, InTodo, BeginTactical
  <2>4. InTodo(c)' <=> c \in roster /\ timer'[c] = 0
    BY <1>2, <2>1 DEF InTodo, BeginTactical
  <2>5. CASE owner[c] = 0
    <3>1. ~Pending(c)' /\ ~Planning(c) /\ plan'[c] = plan[c] /\ waited'[c] = 0
      BY <1>1, <2>1, <2>2, <2>5, PlannedStep DEF CommanderInv, OwnedBy, Planning
    <3>2. OwnedBy(c)' /\ PlanSound(c)' /\ Waiting(c)'
      BY <2>1, <2>4, <2>5, <3>1 DEF CommanderInv, OwnedBy, PlanSound, Waiting, Planning, InTodo
    <3>3. \E m \in Methods : 0 <= PlanTime(m)
      BY TimesAssumption, PlanTimeType
    <3>4. OnTime(c)'
      BY <2>1, <2>5, <3>1, <3>3 DEF OnTime, Planning, PlanTime
    <3> QED
      BY <2>3, <3>2, <3>4 DEF CommanderInv
  <2>6. CASE owner[c] # 0
    <3>1. /\ c \in roster /\ timer'[c] = 0 /\ phase[c] = "DECIDE" /\ InTodo(c)'
          /\ owner[c] = battle
      BY <1>2, <2>1, <2>4, <2>6 DEF CommanderInv, OwnedBy
    <3>2. /\ plan[c].state \in {"ready", "used"} => plan'[c] = plan[c]
          /\ plan'[c] # NoPlan \/ plan[c] = NoPlan
          /\ Planning(c)' => Planning(c)
          /\ plan'[c].state = "IDLE" => plan[c].state = "IDLE" /\ plan'[c] = plan[c]
      BY <1>1, <2>1, <2>2, PlannedStep DEF Planning
    <3>3. OwnedBy(c)'
      BY <2>1, <2>2, <2>6, <3>1, <3>2 DEF CommanderInv, OwnedBy, InTodo
    <3>4. PlanSound(c)' /\ Waiting(c)'
      BY <2>1, <2>2, <3>1, <3>2 DEF CommanderInv, PlanSound, Waiting
    <3>5. CASE Pending(c)
      <4>1. OrderOnTime(c)'
        BY <1>1, <2>1, <2>6, <3>5, OrderStaysOnTime
           DEF CommanderInv, OnTime, Waiting, OwnedBy, Planning
      <4>2. ~Planning(c)'
        BY <2>1, <3>2, <3>5 DEF CommanderInv, OwnedBy, Planning
      <4> QED
        BY <2>1, <2>2, <2>3, <2>6, <3>3, <3>4, <3>5, <4>1, <4>2 DEF CommanderInv, OnTime
    <3>6. CASE ~Pending(c)
      <4>1. Planning(c) /\ PlanOnTime(c)
        BY <2>1, <2>6, <3>6 DEF CommanderInv, OnTime, Waiting
      <4>2. /\ Planning(c)' => PlanOnTime(c)'
            /\ \E m \in Methods : waited'[c] <= PlanTime(m)
        BY <1>1, <2>6, <4>1, PlanStaysOnTime
      <4>3. OnTime(c)'
        BY <2>1, <2>2, <2>6, <3>6, <4>2 DEF OnTime, PlanTime
      <4> QED
        BY <2>3, <3>3, <3>4, <4>3 DEF CommanderInv
    <3> QED
      BY <3>5, <3>6
  <2> QED
    BY <2>5, <2>6
<1> QED
  BY <1>3, <1>4, <1>5 DEF IInv

-----------------------------------------------------------------------------
(* One completion.                                                         *)

LEMMA ProcessedStep ==
  ASSUME IInv, NEW c \in Commanders, Processing(c), Processed(c)
  PROVE  /\ c \in roster /\ Expired(c) /\ battle # 0 /\ pc = "ooda"
         /\ ~InTodo(c)' /\ fresh' \union late' \subseteq Commanders
         /\ \A d \in Commanders \ {c} :
              (d \in fresh' <=> d \in fresh) /\ (d \in late' <=> d \in late)
         /\ out' = out /\ battle' = battle /\ roster' = roster /\ fought' = fought
         /\ pc' = pc
<1>1. TodoSound(c) /\ TickInv /\ TypeOK
  BY DEF IInv, CommanderInv
<1>2. InTodo(c) /\ pc = "ooda"
  BY DEF Processing, InTodo
<1> QED
  BY <1>1, <1>2 DEF TodoSound, TickInv, TypeOK, Processed, battleVars, InTodo

\* A completion is acknowledged: nothing is planned for the commander and no
\* order is on its way any more.
LEMMA FreeStep ==
  ASSUME IInv, NEW c \in Commanders, Processing(c), Processed(c), Advance({c}),
         ~Planning(c),
         due' = [due EXCEPT ![c] = NotPending],
         plan' \in {plan, [plan EXCEPT ![c] = Consumed(@)]}
  PROVE  IInv'
<1>1. TypeOK /\ CommanderInv(c)
  BY DEF IInv
<1>2. /\ plan' \in [Commanders -> PlanType] /\ ~Planning(c)'
      /\ plan'[c].state = "IDLE" => plan'[c] = plan[c]
  BY <1>1, NoPlanType DEF TypeOK, Consumed, Planning
<1>3. due' \in [Commanders -> Nat \union {NotPending}] /\ due'[c] = NotPending
  BY <1>1 DEF TypeOK
<1>4. TypeOK'
  BY <1>1, <1>2, <1>3, ProcessedStep, Advanced DEF TypeOK
<1>5. /\ timer'[c] # 0 /\ owner'[c] = 0 /\ waited'[c] = 0 /\ planned'[c] = 0
      /\ sent'[c] = 0 /\ ~InTodo(c)'
  BY <1>1, ProcessedStep, Advanced
<1>6. plan'[c].state = "IDLE" => plan'[c] = NoPlan
  BY <1>1, <1>2 DEF CommanderInv, PlanSound
<1>7. CommanderInv(c)'
  BY <1>2, <1>3, <1>4, <1>5, <1>6, FreeInv DEF Planning
<1>8. \A d \in Commanders \ {c} : Still(d)
  <2> SUFFICES ASSUME NEW d \in Commanders \ {c} PROVE Still(d)
    OBVIOUS
  <2>1. /\ phase'[d] = phase[d] /\ timer'[d] = timer[d] /\ owner'[d] = owner[d]
        /\ waited'[d] = waited[d] /\ planned'[d] = planned[d] /\ sent'[d] = sent[d]
    BY <1>1, Advanced
  <2>2. plan'[d] = plan[d] /\ due'[d] = due[d]
    BY <1>1 DEF TypeOK
  <2> QED
    BY <2>1, <2>2, ProcessedStep DEF Still
<1> QED
  BY <1>4, <1>7, <1>8, OthersStill

\* A commander that nothing waits for is free as soon as it is acknowledged.
LEMMA NothingPending ==
  ASSUME TypeOK, NEW c \in Commanders, ~Pending(c)
  PROVE  due = [due EXCEPT ![c] = NotPending]
BY DEF TypeOK

LEMMA PassPhaseKeepsInv ==
  ASSUME IInv, NEW c \in Commanders, PassPhase(c)
  PROVE  IInv'
<1>1. ~Pending(c) /\ ~Planning(c)
  BY DEF PassPhase, IInv, CommanderInv, OwnedBy, Planning
<1>2. due' = [due EXCEPT ![c] = NotPending] /\ plan' = plan
  BY <1>1, NothingPending DEF PassPhase, IInv
<1> QED
  BY <1>1, <1>2, FreeStep DEF PassPhase

LEMMA SkipKeepsInv ==
  ASSUME IInv, NEW c \in Commanders, Skip(c)
  PROVE  IInv'
<1>1. ~Pending(c) /\ ~Planning(c)
  BY DEF Skip, IInv, CommanderInv, OwnedBy, Planning
<1>2. due' = [due EXCEPT ![c] = NotPending] /\ plan' = plan
  BY <1>1, NothingPending DEF Skip, IInv
<1> QED
  BY <1>1, <1>2, FreeStep DEF Skip, Deciding

LEMMA PropagationFailsKeepsInv ==
  ASSUME IInv, NEW c \in Commanders, PropagationFails(c)
  PROVE  IInv'
<1>1. ~Pending(c) /\ ~Planning(c)
  BY DEF PropagationFails, Ordering, Planning
<1>2. due' = [due EXCEPT ![c] = NotPending] /\ plan' = plan
  BY <1>1, NothingPending DEF PropagationFails, IInv
<1> QED
  BY <1>1, <1>2, FreeStep DEF PropagationFails, Ordering, Deciding

LEMMA DecideAtOnceKeepsInv ==
  ASSUME IInv, NEW c \in Commanders, DecideAtOnce(c)
  PROVE  IInv'
<1>1. ~Pending(c) /\ ~Planning(c)
  BY DEF DecideAtOnce, Ordering, Planning
<1>2. due' = [due EXCEPT ![c] = NotPending] /\ plan' = [plan EXCEPT ![c] = Consumed(@)]
  BY <1>1, NothingPending DEF DecideAtOnce, Decide, IInv
<1> QED
  BY <1>1, <1>2, FreeStep DEF DecideAtOnce, Decide, Ordering, Deciding

LEMMA MatureKeepsInv ==
  ASSUME IInv, NEW c \in Commanders, Mature(c)
  PROVE  IInv'
<1>1. ~Planning(c)
  BY DEF Mature, IInv, CommanderInv, OwnedBy, Planning
<1>2. due' = [due EXCEPT ![c] = NotPending] /\ plan' = [plan EXCEPT ![c] = Consumed(@)]
  BY DEF Mature, Decide
<1> QED
  BY <1>1, <1>2, FreeStep DEF Mature, Decide, Deciding

\* A decision starts or goes on waiting: it is bound to the battle.
LEMMA BoundStep ==
  ASSUME IInv, NEW c \in Commanders, Deciding(c), Processed(c), Bind(c),
         phase' = phase, timer' = timer, waited' = waited,
         plan' = [plan EXCEPT ![c] = plan'[c]], plan'[c] \in PlanType,
         due' = [due EXCEPT ![c] = due'[c]], due'[c] \in Nat \union {NotPending},
         planned' = [planned EXCEPT ![c] = planned'[c]], planned'[c] \in 0..1,
         sent' = [sent EXCEPT ![c] = sent'[c]],
         sent'[c] = (IF due'[c] = NotPending THEN 0 ELSE 1),
         plan'[c].state # "IDLE",
         due'[c] # NotPending => plan'[c].state \in {"ready", "used"},
         plan'[c].state = "planning" \/ due'[c] > 0,
         OnTime(c)'
  PROVE  IInv'
<1>1. TypeOK /\ CommanderInv(c)
  BY DEF IInv
<1>2. /\ c \in roster /\ Expired(c) /\ battle # 0 /\ ~InTodo(c)' /\ pc = "ooda"
      /\ fresh' \union late' \subseteq Commanders
      /\ out' = out /\ battle' = battle /\ roster' = roster /\ fought' = fought /\ pc' = pc
      /\ \A e \in Commanders \ {c} :
           (e \in fresh' <=> e \in fresh) /\ (e \in late' <=> e \in late)
  BY ProcessedStep DEF Deciding
<1>3. owner'[c] = battle /\ plan'[c] # NoPlan
  BY <1>1 DEF TypeOK, Bind, NoPlan
<1>4. TypeOK'
  BY <1>1, <1>2 DEF TypeOK, Bind
<1>5. OwnedBy(c)' /\ TodoSound(c)' /\ PlanSound(c)' /\ Waiting(c)'
  BY <1>2, <1>3 DEF Deciding, OwnedBy, TodoSound, PlanSound, Waiting, Planning, InTodo
<1>6. CommanderInv(c)'
  BY <1>5 DEF CommanderInv
<1>7. \A e \in Commanders \ {c} : Still(e)
  BY <1>1, <1>2 DEF TypeOK, Bind, Still
<1> QED
  BY <1>4, <1>6, <1>7, OthersStill DEF Deciding

LEMMA AwaitOrderKeepsInv ==
  ASSUME IInv, NEW c \in Commanders, AwaitOrder(c)
  PROVE  IInv'
<1>1. TypeOK /\ CommanderInv(c)
  BY DEF IInv
<1>2. /\ phase' = phase /\ timer' = timer /\ waited' = waited /\ plan' = plan /\ due' = due
      /\ owner' = owner /\ planned' = planned /\ sent' = sent
      /\ Deciding(c) /\ Processed(c) /\ Pending(c) /\ due[c] > 0
  BY DEF AwaitOrder, decisionVars, historyVars
<1>3. /\ plan[c] \in PlanType /\ due[c] \in Nat /\ planned[c] \in 0..1 /\ sent[c] = 1
      /\ plan[c].state \in {"ready", "used"} /\ owner[c] = battle
  BY <1>1, <1>2 DEF CommanderInv, OwnedBy, PlanSound, TypeOK
<1>4. /\ plan = [plan EXCEPT ![c] = plan[c]] /\ due = [due EXCEPT ![c] = due[c]]
      /\ planned = [planned EXCEPT ![c] = planned[c]] /\ sent = [sent EXCEPT ![c] = sent[c]]
      /\ owner = [owner EXCEPT ![c] = battle]
  BY <1>1, <1>3 DEF TypeOK
<1>5. OnTime(c)'
  BY <1>1, <1>2 DEF CommanderInv, OnTime, PlanOnTime, OrderOnTime, Planning, PlanTime
<1> QED
  BY <1>2, <1>3, <1>4, <1>5, BoundStep DEF Bind

LEMMA AwaitPlanKeepsInv ==
  ASSUME IInv, NEW c \in Commanders, AwaitPlan(c)
  PROVE  IInv'
<1>1. TypeOK /\ CommanderInv(c)
  BY DEF IInv
<1>2. /\ phase' = phase /\ timer' = timer /\ waited' = waited /\ plan' = plan /\ due' = due
      /\ planned' = planned /\ sent' = sent /\ Bind(c)
      /\ Deciding(c) /\ Processed(c) /\ ~Pending(c) /\ Planning(c)
  BY DEF AwaitPlan, historyVars, Planning
<1>3. plan[c] \in PlanType /\ planned[c] \in 0..1 /\ sent[c] = 0
  BY <1>1, <1>2 DEF CommanderInv, PlanSound, TypeOK
<1>4. /\ plan = [plan EXCEPT ![c] = plan[c]] /\ due = [due EXCEPT ![c] = NotPending]
      /\ planned = [planned EXCEPT ![c] = planned[c]] /\ sent = [sent EXCEPT ![c] = 0]
  BY <1>1, <1>2, <1>3 DEF TypeOK
<1>5. OnTime(c)'
  <2>1. owner'[c] = battle /\ battle # 0
    BY <1>1, <1>2, ProcessedStep DEF Bind, Deciding, TypeOK
  <2>2. waited'[c] = waited[c] /\ PlanOnTime(c)' /\ ~Pending(c)' /\ Planning(c)'
    BY <1>1, <1>2 DEF CommanderInv, OnTime, PlanOnTime, Planning, PlanTime
  <2> QED
    BY <2>1, <2>2 DEF OnTime
<1> QED
  BY <1>2, <1>3, <1>4, <1>5, BoundStep DEF Planning

LEMMA InitiatePlanningKeepsInv ==
  ASSUME IInv, NEW c \in Commanders, InitiatePlanning(c)
  PROVE  IInv'
<1>1. TypeOK /\ CommanderInv(c)
  BY DEF IInv
<1>2. PICK m \in Methods :
        plan' = [plan EXCEPT ![c] =
          [state |-> "planning", left |-> m.phases, time |-> m.time, budget |-> m.budget,
           timer |-> PhaseTimer(m.time, m.budget)]]
  BY DEF InitiatePlanning
<1> DEFINE p == [state |-> "planning", left |-> m.phases, time |-> m.time,
                 budget |-> m.budget, timer |-> PhaseTimer(m.time, m.budget)]
<1>3. m.phases \in Nat /\ m.phases >= 1 /\ m.time \in Nat /\ m.budget \in Nat
  BY TimesAssumption
<1>4. p \in PlanType /\ p.timer <= p.budget
  BY <1>3, PhaseTimerType DEF PlanType
<1>6. /\ phase' = phase /\ timer' = timer /\ waited' = waited /\ due' = due /\ sent' = sent
      /\ Deciding(c) /\ Processed(c) /\ Bind(c) /\ ~Pending(c)
      /\ plan[c].state = "IDLE" /\ planned' = [planned EXCEPT ![c] = @ + 1]
  BY DEF InitiatePlanning
<1>7. planned[c] = 0 /\ sent[c] = 0 /\ ~Planning(c) /\ owner[c] = 0
  BY <1>1, <1>6 DEF CommanderInv, PlanSound, OwnedBy, Planning
<1>8. /\ due' = [due EXCEPT ![c] = NotPending]
      /\ planned' = [planned EXCEPT ![c] = 1] /\ sent' = [sent EXCEPT ![c] = 0]
  BY <1>1, <1>6, <1>7 DEF TypeOK
<1>9. OnTime(c)'
  <2>1. owner'[c] = battle /\ battle # 0
    BY <1>1, <1>6, ProcessedStep DEF Bind, Deciding, TypeOK
  <2>2. waited'[c] = 0 /\ plan'[c] = p /\ ~Pending(c)'
    BY <1>1, <1>2, <1>6, <1>7 DEF CommanderInv, OnTime, TypeOK
  <2>3. /\ plan'[c].left >= 1 /\ plan'[c].timer <= plan'[c].budget
        /\ plan'[c].budget <= m.budget /\ plan'[c].left <= m.phases
        /\ waited'[c] + plan'[c].budget + plan'[c].left * Tactical <= PlanTime(m)
    BY <1>3, <1>4, <2>2, PlanTimeType DEF PlanTime
  <2>4. PlanOnTime(c)'
    BY <2>3 DEF PlanOnTime, PlanTime
  <2>5. Planning(c)'
    BY <2>2 DEF Planning
  <2> QED
    BY <2>1, <2>2, <2>4, <2>5 DEF OnTime
<1>10. /\ plan' = [plan EXCEPT ![c] = p] /\ plan'[c] = p /\ due'[c] = NotPending
       /\ planned'[c] = 1 /\ sent'[c] = 0 /\ p.state = "planning"
  BY <1>1, <1>2, <1>8 DEF TypeOK
<1>11. /\ plan' = [plan EXCEPT ![c] = plan'[c]] /\ due' = [due EXCEPT ![c] = due'[c]]
       /\ planned' = [planned EXCEPT ![c] = planned'[c]]
       /\ sent' = [sent EXCEPT ![c] = sent'[c]]
  BY <1>8, <1>10
<1>12. /\ plan'[c].state = "planning" /\ plan'[c] \in PlanType
       /\ due'[c] \in Nat \union {NotPending} /\ planned'[c] \in 0..1
  BY <1>4, <1>10
<1> HIDE DEF p, Pending, NotPending
<1> QED
  BY <1>6, <1>9, <1>10, <1>11, <1>12, BoundStep

LEMMA QueueKeepsInv ==
  ASSUME IInv, NEW c \in Commanders, Queue(c)
  PROVE  IInv'
<1>1. TypeOK /\ CommanderInv(c)
  BY DEF IInv
<1>2. PICK d \in Delays, k \in {1, 2} : due' = [due EXCEPT ![c] = k * d]
  BY DEF Queue
<1>3. d \in Nat /\ k * d \in Nat /\ k * d > 0 /\ k * d <= 2 * d
  BY TimesAssumption
<1>4. /\ phase' = phase /\ timer' = timer /\ waited' = waited /\ plan' = plan
      /\ planned' = planned /\ sent' = [sent EXCEPT ![c] = @ + 1]
      /\ Deciding(c) /\ Processed(c) /\ Bind(c) /\ ~Pending(c)
      /\ plan[c].state \in {"ready", "used"}
  BY DEF Queue, Ordering
<1>5. plan[c] \in PlanType /\ planned[c] \in 0..1 /\ sent[c] = 0
  BY <1>1, <1>4 DEF CommanderInv, PlanSound, TypeOK
<1>6. /\ plan' = [plan EXCEPT ![c] = plan[c]]
      /\ planned' = [planned EXCEPT ![c] = planned[c]] /\ sent' = [sent EXCEPT ![c] = 1]
  BY <1>1, <1>4, <1>5 DEF TypeOK
<1>7. OnTime(c)'
  <2>1. owner'[c] = battle /\ battle # 0
    BY <1>1, <1>4, ProcessedStep DEF Bind, Deciding, TypeOK
  <2>2. PICK m \in Methods : waited[c] <= PlanTime(m)
    BY <1>1, <1>4 DEF CommanderInv, OnTime, Planning
  <2>3. due'[c] = k * d /\ waited'[c] = waited[c] /\ waited[c] \in Nat
    BY <1>1, <1>2, <1>4 DEF TypeOK
  <2>4. due'[c] <= 2 * d /\ waited'[c] + due'[c] <= PlanTime(m) + 2 * d /\ due'[c] # 0
    BY <1>3, <2>2, <2>3, PlanTimeType
  <2>5. OrderOnTime(c)'
    BY <2>4, <1>3, PlanTimeType DEF OrderOnTime, PlanTime
  <2>6. Pending(c)' /\ ~Planning(c)'
    BY <1>3, <1>4, <2>3 DEF Planning
  <2> QED
    BY <2>1, <2>5, <2>6 DEF OnTime
<1>8. due'[c] = k * d /\ planned'[c] = planned[c] /\ sent'[c] = 1 /\ plan'[c] = plan[c]
  BY <1>1, <1>2, <1>4, <1>6 DEF TypeOK
<1>9. due'[c] # NotPending /\ due'[c] > 0 /\ due'[c] \in Nat
  BY <1>3, <1>8
<1>10. due' = [due EXCEPT ![c] = due'[c]]
  BY <1>2, <1>8
<1> HIDE DEF Pending, NotPending
<1> QED
  BY <1>4, <1>5, <1>6, <1>7, <1>8, <1>9, <1>10, BoundStep

-----------------------------------------------------------------------------
(* The rest of the tick.                                                   *)

LEMMA FightKeepsInv ==
  ASSUME IInv, Fight
  PROVE  IInv'
<1>1. TypeOK'
  BY DEF IInv, TypeOK, Fight, Casualties, decisionVars, historyVars, todo
<1>2. TickInv'
  BY DEF IInv, TickInv, Fight, todo
<1>3. ASSUME NEW c \in Commanders
      PROVE  CommanderInv(c)'
  <2>1. CommanderInv(c)
    BY DEF IInv
  <2>2. OwnedBy(c)' /\ TodoSound(c)' /\ PlanSound(c)' /\ Waiting(c)'
    BY <2>1 DEF CommanderInv, OwnedBy, TodoSound, PlanSound, Waiting, Planning, InTodo,
                Fight, decisionVars, historyVars, todo
  <2>3. OnTime(c)'
    BY <2>1 DEF CommanderInv, OnTime, PlanOnTime, OrderOnTime, Planning, PlanTime,
                Fight, decisionVars, historyVars
  <2> QED
    BY <2>2, <2>3 DEF CommanderInv
<1> QED
  BY <1>1, <1>2, <1>3 DEF IInv

\* A battle takes along every decision that waits: no other battle has one.
LEMMA ResolveKeepsInv ==
  ASSUME IInv, Resolve
  PROVE  IInv'
<1>1. TypeOK /\ Released \in SUBSET Commanders /\ Advance(Released) /\ battle # 0
  BY DEF IInv, TickInv, Resolve, Released
<1>2. \A c \in Commanders : c \in Released <=> owner[c] # 0
  BY <1>1 DEF TypeOK, Released
<1>3. plan' \in [Commanders -> PlanType] /\ due' \in [Commanders -> Nat \union {NotPending}]
  BY <1>1, NoPlanType DEF Resolve, TypeOK
<1>4. \A c \in Commanders : owner'[c] = 0
  BY <1>1, <1>2, Advanced
<1>5. owner' \in [Commanders -> {0, battle'}]
  BY <1>1, <1>4, Advanced
<1>6. TypeOK'
  BY <1>1, <1>3, <1>5, Advanced DEF Resolve, Casualties, TypeOK, todo
<1>7. TickInv'
  BY DEF TickInv, Resolve, todo
<1>8. ASSUME NEW c \in Commanders
      PROVE  CommanderInv(c)'
  <2>0. CommanderInv(c) /\ ~InTodo(c)' /\ pc' = "idle"
    BY DEF IInv, InTodo, Resolve, todo
  <2>1. CASE owner[c] # 0
    <3>1. plan'[c] = NoPlan /\ due'[c] = NotPending
      BY <1>2, <2>1 DEF Resolve
    <3>2. /\ timer'[c] # 0 /\ owner'[c] = 0 /\ waited'[c] = 0 /\ planned'[c] = 0
          /\ sent'[c] = 0
      BY <1>1, <1>2, <2>1, Advanced
    <3>3. NoPlan.state = "IDLE"
      BY DEF NoPlan
    <3> QED
      BY <1>6, <2>0, <3>1, <3>2, <3>3, FreeInv
  <2>2. CASE owner[c] = 0
    <3>1. plan'[c] = plan[c] /\ due'[c] = due[c]
      BY <1>1, <1>2, <2>2 DEF Resolve, TypeOK
    <3>2. /\ owner'[c] = owner[c] /\ waited'[c] = waited[c] /\ planned'[c] = planned[c]
          /\ sent'[c] = sent[c] /\ timer'[c] = timer[c] /\ phase'[c] = phase[c]
      BY <1>1, <1>2, <2>2, Advanced
    <3>3. OwnedBy(c)' /\ TodoSound(c)' /\ PlanSound(c)' /\ Waiting(c)'
      BY <2>0, <2>2, <3>1, <3>2
         DEF CommanderInv, OwnedBy, TodoSound, PlanSound, Waiting, Planning, InTodo
    <3>4. OnTime(c)'
      BY <2>0, <3>1, <3>2 DEF CommanderInv, OnTime, PlanOnTime, OrderOnTime, Planning, PlanTime
    <3> QED
      BY <3>3, <3>4 DEF CommanderInv
  <2> QED
    BY <2>1, <2>2
<1> QED
  BY <1>6, <1>7, <1>8 DEF IInv

-----------------------------------------------------------------------------
(* Theorems.                                                               *)

LEMMA NextKeepsInv == IInv /\ [Next]_vars => IInv'
<1> SUFFICES ASSUME IInv, [Next]_vars PROVE IInv'
  OBVIOUS
<1>1. CASE \E dt \in Travelling : Travel(dt)
  BY <1>1, TravelKeepsInv
<1>2. CASE BeginTactical
  BY <1>2, BeginTacticalKeepsInv
<1>3. ASSUME NEW c \in Commanders,
             PassPhase(c) \/ AwaitOrder(c) \/ Mature(c) \/ Skip(c)
      PROVE  IInv'
  BY <1>3, PassPhaseKeepsInv, AwaitOrderKeepsInv, MatureKeepsInv, SkipKeepsInv
<1>4. ASSUME NEW c \in Commanders,
             AwaitPlan(c) \/ InitiatePlanning(c) \/ PropagationFails(c) \/ Queue(c)
               \/ DecideAtOnce(c)
      PROVE  IInv'
  BY <1>4, AwaitPlanKeepsInv, InitiatePlanningKeepsInv, PropagationFailsKeepsInv,
     QueueKeepsInv, DecideAtOnceKeepsInv
<1>5. CASE Fight \/ Resolve
  BY <1>5, FightKeepsInv, ResolveKeepsInv
<1>6. CASE UNCHANGED vars
  <2> USE <1>6 DEF vars, decisionVars, battleVars, historyVars, todo
  <2>1. TypeOK' /\ TickInv'
    BY DEF IInv, TypeOK, TickInv
  <2>2. ASSUME NEW c \in Commanders
        PROVE  CommanderInv(c)'
    <3>1. CommanderInv(c)
      BY DEF IInv
    <3>2. OwnedBy(c)' /\ TodoSound(c)' /\ PlanSound(c)' /\ Waiting(c)'
      BY <3>1 DEF CommanderInv, OwnedBy, TodoSound, PlanSound, Waiting, Planning, InTodo
    <3>3. OnTime(c)'
      BY <3>1 DEF CommanderInv, OnTime, PlanOnTime, OrderOnTime, Planning, PlanTime
    <3> QED
      BY <3>2, <3>3 DEF CommanderInv
  <2> QED
    BY <2>1, <2>2 DEF IInv
<1> QED
  BY <1>1, <1>2, <1>3, <1>4, <1>5, <1>6 DEF Next

\* The inductive invariant holds in every state of every run, whatever the
\* ticks, the durations and the ways of planning.
THEOREM CycleInvariant == Spec => []IInv
BY InitEstablishesInv, NextKeepsInv, PTL DEF Spec

\* Waiting decisions belong to the active battle and to its roster, and no
\* expired phase of the battle is forgotten (execute_ooda_interval,
\* _bind_deferred_ooda_owner, resolve_battle).
THEOREM DecisionsAreOwned == Spec => []Owned
<1>1. IInv => Owned
  BY DEF IInv, CommanderInv, Owned
<1> QED
  BY <1>1, CycleInvariant, PTL

\* A DECIDE phase is planned for at most once and its order sent at most once.
THEOREM PlannedAndSentOnce == Spec => []OnceEach
<1>1. IInv => OnceEach
  <2> SUFFICES ASSUME IInv, NEW c \in Commanders PROVE planned[c] <= 1 /\ sent[c] <= 1
    BY DEF OnceEach
  <2>1. PlanSound(c)
    BY DEF IInv, CommanderInv
  <2> QED
    BY <2>1 DEF PlanSound
<1> QED
  BY <1>1, CycleInvariant, PTL

\* No DECIDE phase waits longer than a plan and a misunderstood delay can take,
\* with a tick lost at the end of each phase and of the delay.
THEOREM WaitsAreBounded == Spec => []WaitBounded
<1>1. IInv => WaitBounded
  <2> SUFFICES ASSUME IInv, NEW c \in Commanders
      PROVE \E m \in Methods, d \in Delays :
              waited[c] <= m.budget + (m.phases + 1) * Tactical + 2 * d
    BY DEF WaitBounded
  <2>1. /\ OnTime(c) /\ plan[c] \in PlanType /\ waited[c] \in Nat
        /\ due[c] \in Nat \union {NotPending}
    BY DEF IInv, CommanderInv, TypeOK
  <2>2. Tactical \in Nat /\ \A d \in Delays : d \in Nat
    BY TimesAssumption
  <2>3. ASSUME NEW m \in Methods, NEW d \in Delays,
               waited[c] <= PlanTime(m) + 2 * d + Tactical
        PROVE  waited[c] <= m.budget + (m.phases + 1) * Tactical + 2 * d
    <3>1. m.budget \in Nat /\ m.phases \in Nat /\ d \in Nat
      BY TimesAssumption
    <3>2. m.phases * Tactical \in Nat /\ (m.phases + 1) * Tactical = m.phases * Tactical + Tactical
      BY <2>2, <3>1
    <3> QED
      BY <2>1, <2>2, <2>3, <3>1, <3>2 DEF PlanTime
  <2>4. CASE Planning(c)
    <3>1. PICK m \in Methods : waited[c] + plan[c].budget + plan[c].left * Tactical <= PlanTime(m)
      BY <2>1, <2>4 DEF OnTime, PlanOnTime
    <3>2. plan[c].left * Tactical \in Nat /\ plan[c].budget \in Nat
      BY <2>1, <2>2 DEF PlanType
    <3>3. PICK d \in Delays : d \in Nat
      BY TimesAssumption
    <3>4. waited[c] <= PlanTime(m) + 2 * d + Tactical
      BY <2>1, <2>2, <3>1, <3>2, <3>3, PlanTimeType
    <3> QED
      BY <2>3, <3>4
  <2>5. CASE Pending(c)
    <3>1. PICK m \in Methods, d \in Delays :
            waited[c] + due[c] <= PlanTime(m) + 2 * d + (IF due[c] = 0 THEN Tactical ELSE 0)
      BY <2>1, <2>5 DEF OnTime, OrderOnTime
    <3>2. waited[c] <= PlanTime(m) + 2 * d + Tactical
      BY <2>1, <2>2, <2>5, <3>1, PlanTimeType
    <3> QED
      BY <2>3, <3>2
  <2>6. CASE ~Planning(c) /\ ~Pending(c)
    <3>1. PICK m \in Methods : waited[c] <= PlanTime(m)
      BY <2>1, <2>6 DEF OnTime
    <3>2. PICK d \in Delays : d \in Nat
      BY TimesAssumption
    <3>3. waited[c] <= PlanTime(m) + 2 * d + Tactical
      BY <2>1, <2>2, <3>1, <3>2, PlanTimeType
    <3> QED
      BY <2>3, <3>3
  <2> QED
    BY <2>4, <2>5, <2>6
<1> QED
  BY <1>1, CycleInvariant, PTL

\* Between two ticks set_state claims exactly the decisions that wait, up to
\* stray commanders, and stage_state accepts them; every variable has its type.
THEOREM DecisionsRestorable == Spec => []Restorable
<1>1. IInv => Restorable
  <2> SUFFICES ASSUME IInv, pc = "idle", NEW c \in Commanders, ~Stray(c)
      PROVE  RestoredOwner(c) = owner[c] /\ (c \in Claimed => AcceptableClaim(c))
    BY DEF Restorable, IInv
  <2>1. OwnedBy(c) /\ PlanSound(c) /\ TypeOK /\ TickInv
    BY DEF IInv, CommanderInv
  <2>2. plan[c].state \in {"IDLE", "planning", "ready", "used"} /\ owner[c] \in {0, battle}
    BY <2>1 DEF TypeOK, PlanType
  <2>3. c \in Claimed <=> owner[c] # 0
    BY <2>1, <2>2 DEF OwnedBy, PlanSound, Claimed, Stray
  <2> QED
    BY <2>1, <2>2, <2>3 DEF RestoredOwner, AcceptableClaim, OwnedBy, TickInv
<1> QED
  BY <1>1, CycleInvariant, PTL

=============================================================================
