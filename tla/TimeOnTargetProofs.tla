------------------------- MODULE TimeOnTargetProofs -------------------------
(***************************************************************************)
(* Proofs about TimeOnTarget, for any missions, attachments, cadence and   *)
(* plans: the missions keep the schedule that FireSchedule states, what    *)
(* the resolver accepts is never short of rounds or of time, observers     *)
(* have received exactly what happened, and every checkpoint between two   *)
(* intervals is accepted when it is restored.                              *)
(***************************************************************************)
EXTENDS TimeOnTarget, FiniteSetTheorems, TLAPS

-----------------------------------------------------------------------------
(* The inductive invariant.                                                *)

Decided == {"fired", "rejected"}

\* The plan has been resolved, and the variables have their types.
PlanInv == TypeOK /\ Resolves

\* A mission and its batteries go from nothing to a result, batteries first.
StatesInv ==
  \A m \in Missions :
    /\ IF enabled
       THEN \/ mission[m] = Open("pending")
            \/ /\ mission[m].status = "completed"
               /\ \A g \in Batteries(m) : battery[m][g].status \in Decided
       ELSE mission[m] = Open("dormant")
    /\ \A g \in Batteries(m) :
         IF enabled
         THEN battery[m][g] = Pristine("pending") \/ battery[m][g].status \in Decided
         ELSE battery[m][g] = Pristine("dormant")

\* Nothing is overdue in an interval, and nothing is due after it.
OnTime(t) == (phase = "battle" => now < t) /\ (phase = "fires" => now <= t)
TimeInv ==
  \A m \in Missions :
    /\ mission[m].status = "pending" => OnTime(plan[m].impact)
    /\ \A g \in Batteries(m) :
         battery[m][g].status = "pending" => OnTime(FireTime(m, g))

\* Decisions about batteries are recorded as stage_state expects them.
RecordInv ==
  \A m \in Missions : \A g \in Batteries(m) :
    /\ battery[m][g].status \in Decided => AcceptableBattery(m, g)
    /\ battery[m][g].reason \notin {"insufficient_ammunition", "weapon_cooldown"}

\* And so are results of missions.
ResultInv ==
  \A m \in Missions : mission[m].status = "completed" => AcceptableMission(m)

\* The fires of an attachment are decided in their order, and its weapon is as
\* they left it, with other fire at most after the last of them.
HistoryInv(g) ==
  /\ \A m \in Served(g) :
       Follows(g, Earlier(g, m), battery[m][g].before, battery[m][g].at)
  /\ \A n \in Served(g), m \in FiresOf(g) \ Served(g) : FiresBefore(g, n, m)
  /\ Served(g) # {} => LastOf(g, Served(g)) \in Served(g)
  /\ \A m \in Served(g) :
       Earlier(g, m) # {} => LastOf(g, Earlier(g, m)) \in Earlier(g, m)
  /\ LeftBy(g, Served(g)) \in [rounds : 0..Magazine, last : Int]

\* A reserved weapon has been used by its missions alone.
WeaponInv(g) ==
  /\ weapon[g].last # Never => weapon[g].last \in 0..now /\ weapon[g].last % Cadence = 0
  /\ Follows(g, Served(g), weapon[g], now)
  /\ Reserved(g) =>
       /\ weapon[g] = LeftBy(g, Served(g))
       /\ weapon[g].rounds + RoundsOf(Served(g)) >= Magazine
       /\ weapon[g].last = Never \/ \E n \in Served(g) : weapon[g].last = FireTime(n, g)

GunsInv == \A g \in Guns : HistoryInv(g) /\ WeaponInv(g)

IInv == PlanInv /\ StatesInv /\ TimeInv /\ RecordInv /\ ResultInv /\ GunsInv /\ Announced

-----------------------------------------------------------------------------
(* Boundaries of the cadence.                                              *)

LEMMA Quotient ==
  ASSUME NEW c \in Nat, c > 0, NEW x \in Int
  PROVE  x \div c \in Int /\ (x \div c) * c + (x % c) = x
<1>1. x \div c \in Int
  BY SMT
<1>2. (x \div c) * c + (x % c) = x
  BY SMT
<1> QED
  BY <1>1, <1>2

LEMMA MultipleGap ==
  ASSUME NEW c \in Nat, c > 0, NEW a \in Int, NEW b \in Int, a * c < b * c
  PROVE  a * c + c <= b * c
<1>1. a < b
  BY SMT
<1>2. a + 1 <= b
  BY <1>1
<1>3. (a + 1) * c <= b * c
  BY <1>2, SMT
<1>4. (a + 1) * c = a * c + c
  BY SMT
<1>5. a * c \in Int /\ b * c \in Int
  BY SMT
<1> QED
  BY <1>3, <1>4, <1>5

\* Between two boundaries lies a whole interval at least.
LEMMA BoundaryGap ==
  ASSUME NEW c \in Nat, c > 0, NEW x \in Int, NEW y \in Int, x % c = 0, y % c = 0, x < y
  PROVE  x + c <= y
<1> DEFINE a == x \div c
           b == y \div c
<1>1. a \in Int /\ b \in Int /\ a * c = x /\ b * c = y
  BY Quotient
<1> HIDE DEF a, b
<1> QED
  BY <1>1, MultipleGap

\* The next boundary is one.
LEMMA NextBoundary ==
  ASSUME NEW c \in Nat, c > 0, NEW x \in Int, x % c = 0
  PROVE  (x + c) % c = 0
<1> DEFINE y == x + c
           a == x \div c
           q == y \div c
           r == y % c
<1>1. a \in Int /\ a * c = x /\ q \in Int /\ q * c + r = y
  BY Quotient
<1>2. r \in 0..(c - 1)
  BY SMT
<1>3. (a + 1 - q) * c = a * c + c - q * c /\ a * c \in Int /\ q * c \in Int
  BY <1>1, SMT DEF y
<1>4. (a + 1 - q) * c = r
  BY <1>1, <1>2, <1>3
<1> HIDE DEF a, q, r
<1>5. a + 1 - q < 1
  BY <1>1, <1>2, <1>4, SMT
<1>6. a + 1 - q > -1
  BY <1>1, <1>2, <1>4, SMT
<1>7. a + 1 - q = 0
  BY <1>1, <1>5, <1>6
<1> QED
  BY <1>1, <1>4, <1>7 DEF r

-----------------------------------------------------------------------------
(* What a resolved plan is like.                                           *)

LEMMA PlanFacts ==
  ASSUME PlanInv, NEW m \in Missions
  PROVE  /\ plan[m].impact \in Nat /\ plan[m].rounds \in Nat /\ plan[m].rounds > 0
         /\ plan[m].impact <= Horizon /\ plan[m].impact % Cadence = 0
         /\ Batteries(m) # {} /\ Batteries(m) \subseteq Guns
         /\ \A g \in Batteries(m) :
              /\ FireTime(m, g) \in Nat /\ FireTime(m, g) > 0
              /\ FireTime(m, g) < plan[m].impact /\ FireTime(m, g) % Cadence = 0
              /\ m \in FiresOf(g) /\ plan[m].rounds <= Multiplier
<1>1. plan[m] \in [impact : Nat, rounds : Nat \ {0}, flight : [Guns -> Nat]]
  BY ConstantsAssumption DEF PlanInv, TypeOK
<1>2. ScheduleResolves(m) /\ \A g \in Guns : ResourcesResolve(g)
  BY DEF PlanInv, Resolves
<1>3. Batteries(m) \subseteq Guns /\ Batteries(m) # {}
  BY <1>2 DEF Batteries, ScheduleResolves
<1>4. ASSUME NEW g \in Batteries(m)
      PROVE  /\ FireTime(m, g) \in Nat /\ FireTime(m, g) > 0
             /\ FireTime(m, g) < plan[m].impact /\ FireTime(m, g) % Cadence = 0
  <2>1. plan[m].flight[g] \in Nat /\ plan[m].flight[g] # 0
    BY <1>1, <1>3 DEF Batteries, NoFlight
  <2>2. FireTime(m, g) > 0 /\ FireTime(m, g) % Cadence = 0
    BY <1>2 DEF ScheduleResolves
  <2> QED
    BY <1>1, <2>1, <2>2 DEF FireTime
<1>5. ASSUME NEW g \in Batteries(m)
      PROVE  m \in FiresOf(g) /\ plan[m].rounds <= Multiplier
  <2>1. m \in FiresOf(g)
    BY DEF FiresOf
  <2> QED
    BY <1>2, <1>3, <2>1 DEF ResourcesResolve
<1> QED
  BY <1>1, <1>2, <1>3, <1>4, <1>5 DEF ScheduleResolves

\* The fires of an attachment are strictly ordered.
LEMMA FiresOrdered ==
  ASSUME PlanInv, NEW g \in Guns, NEW m \in FiresOf(g), NEW n \in FiresOf(g)
  PROVE  /\ m # n => FiresBefore(g, m, n) \/ FiresBefore(g, n, m)
         /\ ~(FiresBefore(g, m, n) /\ FiresBefore(g, n, m))
         /\ g \in Batteries(m) /\ m \in Missions
<1>1. m \in Missions /\ n \in Missions /\ g \in Batteries(m) /\ g \in Batteries(n)
  BY DEF FiresOf
<1>2. FireTime(m, g) \in Nat /\ FireTime(n, g) \in Nat
  BY <1>1, PlanFacts
<1>3. m \in Int /\ n \in Int
  BY <1>1, ConstantsAssumption
<1> QED
  BY <1>1, <1>2, <1>3 DEF FiresBefore

\* Rounds are requested one by one: a mission adds its own to those of others.
LEMMA RequestedFinite ==
  ASSUME PlanInv, NEW g \in Guns, NEW ms \in SUBSET FiresOf(g)
  PROVE  IsFiniteSet(Requested(ms)) /\ RoundsOf(ms) \in Nat
<1>1. \A m \in ms : m \in Missions /\ g \in Batteries(m)
  BY DEF FiresOf
<1>2. \A m \in ms : plan[m].rounds \in Nat /\ plan[m].rounds <= Multiplier
  BY <1>1, PlanFacts
<1>3. Requested(ms) \subseteq Missions \X (1..Multiplier)
  BY <1>1, <1>2, ConstantsAssumption DEF Requested
<1>4. IsFiniteSet(1..Multiplier)
  BY ConstantsAssumption, FS_Interval
<1>5. IsFiniteSet(Missions \X (1..Multiplier))
  BY <1>4, ConstantsAssumption, FS_Product
<1>6. IsFiniteSet(Requested(ms))
  BY <1>3, <1>5, FS_Subset
<1> QED
  BY <1>6, FS_CardinalityType DEF RoundsOf

LEMMA RoundsAdd ==
  ASSUME PlanInv, NEW g \in Guns, NEW ms \in SUBSET FiresOf(g), NEW m \in FiresOf(g) \ ms
  PROVE  RoundsOf(ms \union {m}) = RoundsOf(ms) + plan[m].rounds
<1> DEFINE own == {m} \X (1..plan[m].rounds)
<1>1. m \in Missions
  BY DEF FiresOf
<1>2. plan[m].rounds \in Nat /\ plan[m].rounds > 0
  BY <1>1, PlanFacts
<1> DEFINE k == plan[m].rounds
<1>3. IsFiniteSet(1..k) /\ Cardinality(1..k) = k
  <2> HIDE DEF k
  <2>1. k \in Int /\ k > 0 /\ 1 \in Int
    BY <1>2 DEF k
  <2>2. IsFiniteSet(1..k) /\ Cardinality(1..k) = (IF 1 > k THEN 0 ELSE k - 1 + 1)
    BY <2>1, FS_Interval
  <2> QED
    BY <2>1, <2>2
<1>4. IsFiniteSet({m}) /\ Cardinality({m}) = 1
  BY FS_Singleton
<1>5. IsFiniteSet(own) /\ Cardinality(own) = plan[m].rounds
  <2>1. Cardinality(own) = Cardinality({m}) * Cardinality(1..k) /\ IsFiniteSet(own)
    BY <1>3, <1>4, FS_Product
  <2> QED
    BY <1>2, <1>3, <1>4, <2>1
<1>6. Requested(ms \union {m}) = Requested(ms) \union own
  BY DEF Requested
<1>7. Requested(ms) \cap own = {}
  BY DEF Requested
<1>8. IsFiniteSet(Requested(ms)) /\ Cardinality(Requested(ms)) \in Nat
  BY RequestedFinite DEF RoundsOf
<1> HIDE DEF own
<1>9. Cardinality(Requested(ms) \union own)
        = Cardinality(Requested(ms)) + Cardinality(own) - Cardinality(Requested(ms) \cap own)
  BY <1>5, <1>8, FS_Union
<1>10. Cardinality(Requested(ms) \cap own) = 0
  BY <1>7, FS_EmptySet
<1>11. Cardinality(Requested(ms) \union own) = Cardinality(Requested(ms)) + plan[m].rounds
  BY <1>2, <1>5, <1>8, <1>9, <1>10
<1> QED
  BY <1>6, <1>11 DEF RoundsOf

\* A mission that is still to be served finds its rounds in the magazine.
LEMMA RoundsReserved ==
  ASSUME PlanInv, NEW g \in Guns, NEW ms \in SUBSET FiresOf(g), NEW m \in FiresOf(g) \ ms
  PROVE  /\ RoundsOf(ms) + plan[m].rounds <= Magazine
         /\ RoundsOf(ms) \in Nat /\ RoundsOf(ms \union {m}) = RoundsOf(ms) + plan[m].rounds
<1>1. ms \union {m} \in SUBSET FiresOf(g)
  OBVIOUS
<1>2. RoundsOf(FiresOf(g)) <= Magazine
  BY DEF PlanInv, Resolves, ResourcesResolve
<1>3. Requested(ms \union {m}) \subseteq Requested(FiresOf(g))
  BY DEF Requested
<1>4. IsFiniteSet(Requested(FiresOf(g)))
  BY RequestedFinite
<1>5. RoundsOf(ms \union {m}) <= RoundsOf(FiresOf(g))
  BY <1>3, <1>4, FS_Subset DEF RoundsOf
<1>6. /\ RoundsOf(ms \union {m}) \in Nat /\ RoundsOf(FiresOf(g)) \in Nat
      /\ RoundsOf(ms) \in Nat
  BY <1>1, RequestedFinite
<1>7. RoundsOf(ms \union {m}) = RoundsOf(ms) + plan[m].rounds
  BY RoundsAdd
<1>8. m \in Missions
  BY DEF FiresOf
<1> QED
  BY <1>2, <1>5, <1>6, <1>7, <1>8, PlanFacts, ConstantsAssumption

-----------------------------------------------------------------------------
(* What steps leave as it is.                                              *)

LEMMA SamePlan ==
  ASSUME plan' = plan
  PROVE  /\ \A m : Batteries(m)' = Batteries(m)
         /\ \A m, g : FireTime(m, g)' = FireTime(m, g)
         /\ \A g : FiresOf(g)' = FiresOf(g)
         /\ \A g, m, n : FiresBefore(g, m, n)' <=> FiresBefore(g, m, n)
         /\ \A ms : RoundsOf(ms)' = RoundsOf(ms)
         /\ Resolves' <=> Resolves
<1>1. \A m : Batteries(m)' = Batteries(m)
  BY DEF Batteries
<1>2. \A m, g : FireTime(m, g)' = FireTime(m, g)
  BY DEF FireTime
<1>3. \A g : FiresOf(g)' = FiresOf(g)
  BY <1>1 DEF FiresOf
<1>4. \A g, m, n : FiresBefore(g, m, n)' <=> FiresBefore(g, m, n)
  BY <1>2 DEF FiresBefore
<1>5. \A ms : RoundsOf(ms)' = RoundsOf(ms)
  BY DEF RoundsOf, Requested
<1>6. \A m \in Missions : ScheduleResolves(m)' <=> ScheduleResolves(m)
  BY <1>1, <1>2 DEF ScheduleResolves
<1>7. \A g \in Guns : ResourcesResolve(g)' <=> ResourcesResolve(g)
  BY <1>2, <1>3, <1>4, <1>5 DEF ResourcesResolve
<1> QED
  BY <1>1, <1>2, <1>3, <1>4, <1>5, <1>6, <1>7 DEF Resolves

LEMMA SameLast ==
  ASSUME plan' = plan
  PROVE  \A g, ms : LastOf(g, ms)' = LastOf(g, ms)
<1> SUFFICES ASSUME NEW g, NEW ms PROVE LastOf(g, ms)' = LastOf(g, ms)
  OBVIOUS
<1>1. \A n : (\A k \in ms \ {n} : FiresBefore(g, k, n))' <=> (\A k \in ms \ {n} : FiresBefore(g, k, n))
  BY SamePlan
<1> QED
  BY <1>1 DEF LastOf, FiresBefore, FireTime

LEMMA SameRecords ==
  ASSUME plan' = plan, battery' = battery
  PROVE  /\ \A g : Served(g)' = Served(g)
         /\ \A g, m : Earlier(g, m)' = Earlier(g, m)
         /\ \A g, ms : LeftBy(g, ms)' = LeftBy(g, ms) /\ LeftAt(g, ms)' = LeftAt(g, ms)
         /\ \A g, ms, w, to : Follows(g, ms, w, to)' <=> Follows(g, ms, w, to)
         /\ \A m : Fired(m)' = Fired(m) /\ Outcome(m)' = Outcome(m)
<1>1. \A g : Served(g)' = Served(g)
  BY SamePlan DEF Served
<1>2. \A g, m : Earlier(g, m)' = Earlier(g, m)
  BY <1>1, SamePlan DEF Earlier
<1>3. \A g, ms : LeftBy(g, ms)' = LeftBy(g, ms) /\ LeftAt(g, ms)' = LeftAt(g, ms)
  BY SameLast DEF LeftBy, LeftAt
<1>4. \A g, ms, w, to : Follows(g, ms, w, to)' <=> Follows(g, ms, w, to)
  BY <1>3 DEF Follows, AcceptableExternal
<1>5. \A m : Fired(m)' = Fired(m) /\ Outcome(m)' = Outcome(m)
  BY SamePlan DEF Fired, Outcome
<1> QED
  BY <1>1, <1>2, <1>3, <1>4, <1>5

LEMMA SameHistory ==
  ASSUME plan' = plan, battery' = battery, NEW g \in Guns, HistoryInv(g)
  PROVE  HistoryInv(g)'
BY SamePlan, SameLast, SameRecords DEF HistoryInv

-----------------------------------------------------------------------------
(* The start.                                                              *)

LEMMA InitEstablishesInv == Init => IInv
<1> SUFFICES ASSUME Init PROVE IInv
  OBVIOUS
<1> DEFINE s == IF enabled THEN "pending" ELSE "dormant"
<1>1. /\ DOMAIN battery = Missions /\ DOMAIN mission = Missions
      /\ \A m \in Missions :
           /\ DOMAIN battery[m] = Batteries(m) /\ mission[m] = Open(s)
           /\ \A g \in Batteries(m) : battery[m][g] = Pristine(s)
  BY DEF Init
<1>2. Pristine(s).status = s /\ Pristine(s).reason = "" /\ s \in {"pending", "dormant"}
  BY DEF Pristine
<1>3. Open(s).status = s /\ Open(s).before = Open(s).after
  BY DEF Open
<1>4. PlanInv
  <2>1. 0 \in 0..(Horizon + Cadence - 1) /\ 0 % Cadence = 0 /\ 0 \in 0..MaxChanges
    <3>1. 0 % Cadence = 0
      BY ConstantsAssumption, SMT
    <3> QED
      BY <3>1, ConstantsAssumption
  <2>2. weapon \in [Guns -> [rounds : 0..Magazine, last : Int]]
    BY ConstantsAssumption DEF Init, Full, Never
  <2>3. unit \in [Units -> Status]
    BY DEF Init, Status
  <2> QED
    BY <1>1, <1>2, <1>3, <2>1, <2>2, <2>3 DEF Init, PlanInv, TypeOK
<1>5. StatesInv
  BY <1>1 DEF StatesInv
<1>6. TimeInv
  <2>1. ASSUME NEW m \in Missions PROVE 0 < plan[m].impact
    BY <1>4, PlanFacts
  <2>2. ASSUME NEW m \in Missions, NEW g \in Batteries(m) PROVE 0 < FireTime(m, g)
    BY <1>4, PlanFacts
  <2>3. now = 0 /\ phase = "battle"
    BY DEF Init
  <2> QED
    BY <2>1, <2>2, <2>3 DEF TimeInv, OnTime
<1>7. RecordInv /\ ResultInv
  BY <1>1, <1>2, <1>3 DEF RecordInv, ResultInv, Decided
<1>8. ASSUME NEW g \in Guns PROVE HistoryInv(g) /\ WeaponInv(g)
  <2>1. Served(g) = {}
    BY <1>1, <1>2 DEF Served, FiresOf
  <2>2. weapon[g] = Full /\ LeftBy(g, {}) = Full /\ Full.last = Never /\ Full.rounds = Magazine
    BY <1>4 DEF Init, LeftBy, Full
  <2>3. RoundsOf({}) \in Nat
    BY <1>4, RequestedFinite
  <2>4. Magazine + RoundsOf({}) >= Magazine
    BY <2>3, ConstantsAssumption
  <2>5. Full \in [rounds : 0..Magazine, last : Int]
    BY ConstantsAssumption DEF Full, Never
  <2> QED
    BY <2>1, <2>2, <2>4, <2>5 DEF HistoryInv, WeaponInv, Follows
<1>9. Announced
  <2>1. \A m \in Missions : Fired(m) = {}
    BY <1>1, <1>2 DEF Fired
  <2>2. Happened = {}
    <3>1. \A m \in Missions : HappenedTo(m) = {}
      BY <1>1, <1>2, <1>3, <2>1 DEF HappenedTo
    <3> QED
      BY <3>1 DEF Happened
  <2> QED
    BY <2>2 DEF Announced, Init
<1> QED
  BY <1>4, <1>5, <1>6, <1>7, <1>8, <1>9 DEF IInv, GunsInv

\* Which states of a mission go with which states of its batteries.
LEMMA StateFacts ==
  ASSUME IInv, NEW m \in Missions
  PROVE  /\ enabled => mission[m].status \in {"pending", "completed"}
         /\ ~enabled => mission[m].status = "dormant"
         /\ mission[m].status = "pending" => mission[m] = Open("pending")
         /\ \A g \in Batteries(m) :
              /\ enabled => battery[m][g].status \in Decided \union {"pending"}
              /\ ~enabled => battery[m][g].status = "dormant"
              /\ mission[m].status = "completed" => battery[m][g].status \in Decided
<1>1. /\ Open("pending").status = "pending" /\ Open("dormant").status = "dormant"
      /\ Pristine("pending").status = "pending" /\ Pristine("dormant").status = "dormant"
  BY DEF Open, Pristine
<1>2. /\ enabled => \/ mission[m] = Open("pending")
                    \/ /\ mission[m].status = "completed"
                       /\ \A g \in Batteries(m) : battery[m][g].status \in Decided
      /\ ~enabled => mission[m] = Open("dormant")
      /\ \A g \in Batteries(m) :
           /\ enabled => battery[m][g] = Pristine("pending") \/ battery[m][g].status \in Decided
           /\ ~enabled => battery[m][g] = Pristine("dormant")
  BY DEF IInv, StatesInv
<1> QED
  BY <1>1, <1>2

-----------------------------------------------------------------------------
(* Steps that serve nothing.                                               *)

\* Records and results stay acceptable while time goes on, units that are hit
\* do not recover and weapons that are not reserved are used.
LEMMA RecordsKept ==
  ASSUME IInv, UNCHANGED <<plan, enabled, battery, mission>>, now' \in Nat, now' >= now,
         \A u \in Units :
           /\ unit[u] = "DESTROYED" => unit'[u] = "DESTROYED"
           /\ unit[u] = "DISABLED" => unit'[u] \in {"DISABLED", "DESTROYED"}
           /\ unit[u] = "SURRENDERED" => unit'[u] \in {"SURRENDERED", "DESTROYED"}
  PROVE  /\ StatesInv' /\ RecordInv' /\ ResultInv'
         /\ \A g \in Guns : HistoryInv(g)'
         /\ Resolves' /\ Happened' = Happened
         /\ DOMAIN battery' = Missions /\ DOMAIN mission' = Missions
         /\ \A m \in Missions :
              /\ DOMAIN battery'[m] = Batteries(m)' /\ Batteries(m)' = Batteries(m)
              /\ mission'[m].status \in {"dormant", "pending", "completed"}
              /\ \A g \in Batteries(m) :
                   battery'[m][g].status \in {"dormant", "pending", "fired", "rejected"}
<1>0. now \in Nat
  BY ConstantsAssumption DEF IInv, PlanInv, TypeOK
<1>1. StatesInv'
  BY SamePlan DEF IInv, StatesInv
<1>2. RecordInv'
  <2> SUFFICES ASSUME NEW m \in Missions, NEW g \in Batteries(m)
      PROVE  /\ (battery[m][g].status \in Decided => AcceptableBattery(m, g))'
             /\ (battery[m][g].reason \notin {"insufficient_ammunition", "weapon_cooldown"})'
    BY SamePlan DEF RecordInv
  <2>1. /\ battery[m][g].status \in Decided => AcceptableBattery(m, g)
        /\ battery[m][g].reason \notin {"insufficient_ammunition", "weapon_cooldown"}
    BY DEF IInv, RecordInv
  <2>2. FireTime(m, g) \in Nat
    BY PlanFacts DEF IInv
  <2>3. ASSUME battery[m][g].status \in Decided PROVE AcceptableBattery(m, g)'
    <3>1. /\ enabled /\ battery[m][g].at = FireTime(m, g) /\ battery[m][g].at <= now
          /\ battery[m][g].reason
               = Rejection(m, g, battery[m][g].by, battery[m][g].pre, battery[m][g].before)
          /\ IF battery[m][g].status = "fired"
             THEN /\ battery[m][g].reason = ""
                  /\ battery[m][g].after = Spent(m, g, battery[m][g].before)
             ELSE battery[m][g].reason # "" /\ battery[m][g].after = battery[m][g].before
      BY <2>1, <2>3 DEF AcceptableBattery, Decided
    <3>2. battery[m][g].at <= now'
      <4>0. FireTime(m, g) <= now
        BY <3>1
      <4>1. FireTime(m, g) <= now'
        BY <1>0, <2>2, <4>0
      <4> QED
        BY <3>1, <4>1
    <3>3. /\ Rejection(m, g, battery[m][g].by, battery[m][g].pre, battery[m][g].before)'
               = Rejection(m, g, battery[m][g].by, battery[m][g].pre, battery[m][g].before)
          /\ Spent(m, g, battery[m][g].before)' = Spent(m, g, battery[m][g].before)
          /\ FireTime(m, g)' = FireTime(m, g)
      BY SamePlan DEF Rejection, Spent, Ready
    <3> QED
      BY <2>3, <3>1, <3>2, <3>3 DEF AcceptableBattery, Decided
  <2> QED
    BY <2>1, <2>3
<1>3. ResultInv'
  <2> SUFFICES ASSUME NEW m \in Missions, mission[m].status = "completed"
      PROVE  AcceptableMission(m)'
    BY DEF ResultInv
  <2>1. AcceptableMission(m) /\ plan[m].impact \in Nat /\ TargetOf[m] \in Units
    BY PlanFacts DEF IInv, ResultInv, Units
  <2>2. plan[m].impact <= now'
    BY <1>0, <2>1 DEF AcceptableMission
  <2>3. Effects(m, mission[m].before)' = Effects(m, mission[m].before)
    BY SameRecords DEF Effects
  <2> QED
    BY <2>1, <2>2, <2>3, SamePlan, SameRecords DEF AcceptableMission, StatusAfter
<1>4. \A g \in Guns : HistoryInv(g)'
  BY SameHistory DEF IInv, GunsInv
<1>5. Happened' = Happened
  BY SameRecords DEF Happened, HappenedTo
<1> QED
  BY <1>1, <1>2, <1>3, <1>4, <1>5, SamePlan DEF IInv, PlanInv, TypeOK

\* A weapon that stays as it is stays in its history.
LEMMA WeaponKept ==
  ASSUME IInv, UNCHANGED <<plan, enabled, battery, mission>>, now' \in Nat, now' >= now,
         NEW g \in Guns, weapon'[g] = weapon[g]
  PROVE  WeaponInv(g)'
<1>0. now \in Nat /\ WeaponInv(g) /\ weapon[g].last \in Int
  BY ConstantsAssumption DEF IInv, PlanInv, TypeOK, GunsInv
<1>1. weapon[g].last # Never => weapon[g].last \in 0..now' /\ weapon[g].last % Cadence = 0
  BY <1>0 DEF WeaponInv
<1>2. Follows(g, Served(g), weapon[g], now')
  <2>1. CASE weapon[g] = LeftBy(g, Served(g))
    BY <2>1 DEF Follows
  <2>2. CASE AcceptableExternal(LeftBy(g, Served(g)), weapon[g], LeftAt(g, Served(g)), now)
    <3>1. weapon[g].last <= now'
      BY <1>0, <2>2 DEF AcceptableExternal
    <3> QED
      BY <2>2, <3>1 DEF AcceptableExternal, Follows
  <2> QED
    BY <1>0, <2>1, <2>2 DEF WeaponInv, Follows
<1>3. Follows(g, Served(g), weapon[g], now)'
  BY <1>2, SameRecords
<1>4. Reserved(g)' <=> Reserved(g)
  BY SamePlan DEF Reserved
<1>5. /\ LeftBy(g, Served(g))' = LeftBy(g, Served(g)) /\ RoundsOf(Served(g))' = RoundsOf(Served(g))
      /\ \A n : FireTime(n, g)' = FireTime(n, g)
      /\ Served(g)' = Served(g)
  BY SamePlan, SameRecords
<1> QED
  BY <1>0, <1>1, <1>3, <1>4, <1>5 DEF WeaponInv

\* The clock moves to the next boundary, and everything due then is on time.
LEMMA BeginIntervalKeepsInv ==
  ASSUME IInv, BeginInterval
  PROVE  IInv'
<1>0. /\ Cadence \in Nat /\ Cadence > 0 /\ Horizon \in Nat
      /\ now \in Nat /\ now % Cadence = 0 /\ now < Horizon
      /\ now' = now + Cadence /\ phase = "battle" /\ phase' = "fires"
      /\ UNCHANGED <<plan, enabled, degraded, battery, mission, weapon, unit, announced, changes>>
  BY ConstantsAssumption DEF IInv, PlanInv, TypeOK, BeginInterval, config
<1>1. now' \in Nat /\ now' >= now /\ now' <= Horizon + Cadence - 1
  BY <1>0
<1>2. now' % Cadence = 0
  <2>0. Cadence \in Nat /\ Cadence > 0 /\ now \in Int /\ now % Cadence = 0
    BY <1>0
  <2>1. (now + Cadence) % Cadence = 0
    BY <2>0, NextBoundary, Zenon
  <2> QED
    BY <1>0, <2>1
<1>3. /\ StatesInv' /\ RecordInv' /\ ResultInv' /\ Resolves' /\ Happened' = Happened
      /\ \A g \in Guns : HistoryInv(g)'
  BY <1>0, <1>1, RecordsKept
<1>4. PlanInv'
  BY <1>0, <1>1, <1>2, <1>3, SamePlan DEF IInv, PlanInv, TypeOK
<1>5. TimeInv'
  <2>1. ASSUME NEW t \in Nat, t % Cadence = 0, OnTime(t)
        PROVE  OnTime(t)'
    <3>1. now < t
      BY <1>0, <2>1 DEF OnTime
    <3>2. now + Cadence <= t
      BY <1>0, <2>1, <3>1, BoundaryGap
    <3> QED
      BY <1>0, <3>2 DEF OnTime
  <2>2. ASSUME NEW m \in Missions, mission[m].status = "pending"
        PROVE  OnTime(plan[m].impact)'
    <3>1. OnTime(plan[m].impact) /\ plan[m].impact \in Nat /\ plan[m].impact % Cadence = 0
      BY <2>2, PlanFacts DEF IInv, TimeInv
    <3> QED
      BY <1>0, <2>1, <3>1 DEF OnTime
  <2>3. ASSUME NEW m \in Missions, NEW g \in Batteries(m), battery[m][g].status = "pending"
        PROVE  OnTime(FireTime(m, g))'
    <3>1. /\ OnTime(FireTime(m, g)) /\ FireTime(m, g) \in Nat
          /\ FireTime(m, g) % Cadence = 0 /\ FireTime(m, g)' = FireTime(m, g)
      BY <1>0, <2>3, PlanFacts, SamePlan DEF IInv, TimeInv
    <3> QED
      BY <1>0, <2>1, <3>1 DEF OnTime
  <2> QED
    BY <1>0, <2>2, <2>3, SamePlan DEF TimeInv
<1>6. GunsInv'
  BY <1>0, <1>1, <1>3, WeaponKept DEF GunsInv
<1>7. Announced'
  BY <1>0, <1>3 DEF IInv, Announced
<1> QED
  BY <1>3, <1>4, <1>5, <1>6, <1>7 DEF IInv

\* Fires end when nothing is due, or nothing is enabled.
LEMMA FiresDoneKeepsInv ==
  ASSUME IInv, FiresDone
  PROVE  IInv'
<1>0. /\ now \in Nat /\ now' = now /\ phase = "fires" /\ phase' = "battle"
      /\ UNCHANGED <<plan, enabled, degraded, battery, mission, weapon, unit, announced, changes>>
      /\ ~enabled \/ Due = {}
  BY ConstantsAssumption DEF IInv, PlanInv, TypeOK, FiresDone, config
<1>3. /\ StatesInv' /\ RecordInv' /\ ResultInv' /\ Resolves' /\ Happened' = Happened
      /\ \A g \in Guns : HistoryInv(g)'
  BY <1>0, RecordsKept
<1>4. PlanInv'
  BY <1>0, <1>3, SamePlan DEF IInv, PlanInv, TypeOK
<1>5. TimeInv'
  <2>1. ASSUME NEW m \in Missions, mission[m].status = "pending"
        PROVE  now < plan[m].impact
    <3>1. enabled
      BY <2>1, StateFacts
    <3>2. Impact(m) \in OpenMilestones /\ Impact(m).at = plan[m].impact
      BY <2>1 DEF OpenMilestones, Impact
    <3>3. plan[m].impact \in Nat
      BY PlanFacts DEF IInv
    <3> QED
      BY <1>0, <3>1, <3>2, <3>3 DEF Due
  <2>2. ASSUME NEW m \in Missions, NEW g \in Batteries(m), battery[m][g].status = "pending"
        PROVE  now < FireTime(m, g)
    <3>1. enabled
      BY <2>2, StateFacts DEF Decided
    <3>2. mission[m].status = "pending"
      BY <2>2, <3>1, StateFacts DEF Decided
    <3>3. Fire(m, g) \in OpenMilestones /\ Fire(m, g).at = FireTime(m, g)
      BY <2>2, <3>2 DEF OpenMilestones, Fire
    <3>4. FireTime(m, g) \in Nat
      BY PlanFacts DEF IInv
    <3> QED
      BY <1>0, <3>1, <3>3, <3>4 DEF Due
  <2> QED
    BY <1>0, <2>1, <2>2, SamePlan DEF TimeInv, OnTime
<1>6. GunsInv'
  BY <1>0, <1>3, WeaponKept DEF GunsInv
<1>7. Announced'
  BY <1>0, <1>3 DEF IInv, Announced
<1> QED
  BY <1>3, <1>4, <1>5, <1>6, <1>7 DEF IInv

-----------------------------------------------------------------------------
(* Battles.                                                                *)

\* Battles and morale change units that are still in the fight.
LEMMA UnitStepKeepsInv ==
  ASSUME IInv, NEW u \in Units, Damage(u) \/ Morale(u)
  PROVE  IInv'
<1>0. /\ now \in Nat /\ now' = now /\ phase' = phase
      /\ UNCHANGED <<plan, enabled, degraded, battery, mission, weapon, announced>>
  BY ConstantsAssumption DEF IInv, PlanInv, TypeOK, Damage, Morale, config
<1>1. /\ unit' \in [Units -> Status] /\ changes' \in 0..MaxChanges
      /\ unit[u] \in {"ACTIVE", "ROUTING"}
      /\ \A v \in Units \ {u} : unit'[v] = unit[v]
  BY ConstantsAssumption DEF IInv, PlanInv, TypeOK, Damage, Morale, Status
<1>2. \A v \in Units :
        /\ unit[v] = "DESTROYED" => unit'[v] = "DESTROYED"
        /\ unit[v] = "DISABLED" => unit'[v] \in {"DISABLED", "DESTROYED"}
        /\ unit[v] = "SURRENDERED" => unit'[v] \in {"SURRENDERED", "DESTROYED"}
  BY <1>1
<1>3. /\ StatesInv' /\ RecordInv' /\ ResultInv' /\ Resolves' /\ Happened' = Happened
      /\ \A g \in Guns : HistoryInv(g)'
  BY <1>0, <1>2, RecordsKept
<1>4. PlanInv'
  BY <1>0, <1>1, <1>3, SamePlan DEF IInv, PlanInv, TypeOK
<1>5. TimeInv'
  BY <1>0, SamePlan DEF IInv, TimeInv, OnTime
<1>6. GunsInv'
  BY <1>0, <1>3, WeaponKept DEF GunsInv
<1>7. Announced'
  BY <1>0, <1>3 DEF IInv, Announced
<1> QED
  BY <1>3, <1>4, <1>5, <1>6, <1>7 DEF IInv

\* A volley takes no more rounds than the weapon's rate allows in an interval.
LEMMA VolleyFacts ==
  Volley \in Nat /\ Volley >= 1 /\ (Volley = 1 \/ Volley * Cooldown <= Cadence)
<1> DEFINE v == Cadence \div Cooldown
<1>0. Cooldown \in Nat /\ Cooldown > 0 /\ Cadence \in Nat
  BY ConstantsAssumption
<1>1. v * Cooldown <= Cadence
  BY <1>0, SMT
<1>2. v \in Nat
  BY <1>0, SMT
<1>3. Volley = IF 1 < v THEN v ELSE 1
  BY DEF Volley, Larger
<1> HIDE DEF v
<1> QED
  BY <1>1, <1>2, <1>3

\* From the last fire to now there was time for a volley.
LEMMA VolleyRate ==
  ASSUME IInv, NEW w \in [rounds : 0..Magazine, last : Int],
         w.last # Never, w.last \in 0..now, w.last % Cadence = 0,
         Ready(w, now, Multiplier), NEW k \in 1..Volley
  PROVE  w.last < now /\ Cooldown * k <= now - w.last
<1>0. /\ Cooldown \in Nat /\ Cooldown > 0 /\ Cadence \in Nat /\ Cadence > 0
      /\ Multiplier \in Nat /\ Multiplier > 0 /\ now \in Nat /\ now % Cadence = 0
      /\ w.last \in Int /\ w.last % Cadence = 0
  BY ConstantsAssumption DEF IInv, PlanInv, TypeOK
<1>1. now - w.last >= Cooldown * Multiplier
  BY DEF Ready
<1>2. Cooldown * Multiplier >= Cooldown /\ Cooldown * Multiplier \in Nat
  BY <1>0, SMT
<1>3. w.last < now /\ Cooldown <= now - w.last
  BY <1>0, <1>1, <1>2
<1>4. w.last + Cadence <= now
  BY <1>0, <1>3, BoundaryGap
<1>5. CASE Volley = 1
  <2>1. k = 1
    BY <1>5
  <2>2. Cooldown * k = Cooldown
    BY <1>0, <2>1
  <2> QED
    BY <1>3, <2>2
<1>6. CASE Volley * Cooldown <= Cadence
  <2>1. k \in Nat /\ Volley \in Nat /\ k <= Volley
    BY VolleyFacts
  <2>2. Cooldown * k <= Volley * Cooldown /\ Cooldown * k \in Nat /\ Volley * Cooldown \in Nat
    BY <1>0, <2>1, SMT
  <2> QED
    BY <1>0, <1>3, <1>4, <1>6, <2>2
<1> QED
  BY <1>5, <1>6, VolleyFacts

\* The last served mission was served in the past.
LEMMA LeftInPast ==
  ASSUME IInv, NEW g \in Guns
  PROVE  LeftAt(g, Served(g)) \in Int /\ LeftAt(g, Served(g)) <= now
<1>0. now \in Nat
  BY ConstantsAssumption DEF IInv, PlanInv, TypeOK
<1>1. CASE Served(g) = {}
  BY <1>0, <1>1 DEF LeftAt
<1>2. CASE Served(g) # {}
  <2> DEFINE n == LastOf(g, Served(g))
  <2>1. n \in Served(g)
    BY <1>2 DEF IInv, GunsInv, HistoryInv
  <2>2. n \in Missions /\ g \in Batteries(n) /\ battery[n][g].status \in Decided
    BY <2>1 DEF Served, FiresOf, Decided
  <2>3. battery[n][g].at = FireTime(n, g) /\ battery[n][g].at <= now
    BY <2>2 DEF IInv, RecordInv, AcceptableBattery, Decided
  <2>4. FireTime(n, g) \in Nat
    BY <2>2, PlanFacts DEF IInv
  <2> QED
    BY <1>2, <2>3, <2>4 DEF LeftAt
<1> QED
  BY <1>1, <1>2

\* Other fire adds to what the history accepts after the last of the missions.
LEMMA ExternalFireKeepsInv ==
  ASSUME IInv, NEW g \in Guns, ExternalFire(g)
  PROVE  IInv'
<1> DEFINE w == weapon[g]
           x == [rounds |-> Larger(0, w.rounds - Volley), last |-> now]
<1>0. /\ now \in Nat /\ now % Cadence = 0 /\ now' = now /\ phase' = phase
      /\ weapon' = [weapon EXCEPT ![g] = x]
      /\ ~Reserved(g) /\ Ready(w, now, Multiplier) /\ w.rounds > 0
      /\ UNCHANGED <<plan, enabled, degraded, battery, mission, unit, announced, changes>>
  BY ConstantsAssumption DEF IInv, PlanInv, TypeOK, ExternalFire, config
<1>1. /\ w \in [rounds : 0..Magazine, last : Int] /\ Magazine \in Nat
      /\ weapon \in [Guns -> [rounds : 0..Magazine, last : Int]]
  BY ConstantsAssumption DEF IInv, PlanInv, TypeOK
<1>2. /\ x \in [rounds : 0..Magazine, last : Int] /\ x.last = now
      /\ w.rounds - x.rounds \in 1..Volley
  BY <1>0, <1>1, VolleyFacts DEF Larger
<1>3. /\ StatesInv' /\ RecordInv' /\ ResultInv' /\ Resolves' /\ Happened' = Happened
      /\ \A h \in Guns : HistoryInv(h)'
  BY <1>0, RecordsKept
<1>4. PlanInv'
  BY <1>0, <1>1, <1>2, <1>3, SamePlan DEF IInv, PlanInv, TypeOK
<1>5. TimeInv'
  BY <1>0, SamePlan DEF IInv, TimeInv, OnTime
<1>6. WeaponInv(g)'
  <2> DEFINE from == LeftBy(g, Served(g))
             since == LeftAt(g, Served(g))
  <2> HIDE DEF x
  <2>1. /\ w.last # Never => w.last \in 0..now /\ w.last % Cadence = 0
        /\ w = from \/ AcceptableExternal(from, w, since, now)
        /\ from \in [rounds : 0..Magazine, last : Int]
        /\ since \in Int /\ since <= now
    BY LeftInPast DEF IInv, GunsInv, WeaponInv, HistoryInv, Follows
  <2>2. w.last # Never => w.last < now /\ Cooldown * (w.rounds - x.rounds) <= now - w.last
    BY <1>0, <1>1, <1>2, <2>1, VolleyRate
  <2> HIDE DEF w, from, since
  <2>3. x.rounds < from.rounds
    BY <1>1, <1>2, <2>1 DEF AcceptableExternal
  <2>4. ASSUME from.last # Never
        PROVE  x.last > from.last /\ x.last - from.last >= Cooldown * (from.rounds - x.rounds)
    <3>1. CASE w = from
      BY <1>1, <1>2, <2>1, <2>2, <2>4, <3>1
    <3>2. CASE AcceptableExternal(from, w, since, now)
      <4>1. /\ w.last # Never /\ w.last > from.last
            /\ w.last - from.last >= Cooldown * (from.rounds - w.rounds)
        BY <2>4, <3>2 DEF AcceptableExternal
      <4>2. /\ Cooldown \in Nat /\ w.rounds \in Int /\ x.rounds \in Int /\ from.rounds \in Int
            /\ w.last \in Int /\ from.last \in Int
        BY <1>1, <1>2, <2>1, ConstantsAssumption
      <4>3. Cooldown * (from.rounds - x.rounds)
              = Cooldown * (from.rounds - w.rounds) + Cooldown * (w.rounds - x.rounds)
        BY <4>2, SMT
      <4>4. /\ Cooldown * (from.rounds - w.rounds) \in Int
            /\ Cooldown * (w.rounds - x.rounds) \in Int
        BY <4>2, SMT
      <4> QED
        BY <1>0, <1>2, <2>2, <4>1, <4>2, <4>3, <4>4
    <3> QED
      BY <2>1, <3>1, <3>2
  <2>5. AcceptableExternal(from, x, since, now)
    BY <1>0, <1>2, <2>1, <2>3, <2>4 DEF AcceptableExternal, Never
  <2>6. Follows(g, Served(g), x, now)
    BY <2>5 DEF Follows, from, since
  <2>7. weapon'[g] = x
    BY <1>0, <1>1
  <2>8. Follows(g, Served(g), weapon[g], now)'
    BY <1>0, <2>6, <2>7, SameRecords
  <2>9. ~Reserved(g)'
    BY <1>0, SamePlan DEF Reserved
  <2> QED
    BY <1>0, <1>2, <2>7, <2>8, <2>9 DEF WeaponInv
<1>7. GunsInv'
  <2>1. \A h \in Guns \ {g} : weapon'[h] = weapon[h]
    BY <1>0, <1>1
  <2> QED
    BY <1>0, <1>3, <1>6, <2>1, WeaponKept DEF GunsInv
<1>8. Announced'
  BY <1>0, <1>3 DEF IInv, Announced
<1> QED
  BY <1>3, <1>4, <1>5, <1>7, <1>8 DEF IInv

-----------------------------------------------------------------------------
(* Fires.                                                                  *)

\* The open milestones are those of pending missions and batteries.
LEMMA MilestoneFacts ==
  /\ \A m \in Missions : Impact(m) \in OpenMilestones <=> mission[m].status = "pending"
  /\ \A m \in Missions : \A g \in Batteries(m) :
       Fire(m, g) \in OpenMilestones <=>
         mission[m].status = "pending" /\ battery[m][g].status = "pending"
  /\ \A e \in OpenMilestones : \E m \in Missions :
       /\ mission[m].status = "pending"
       /\ \/ e = Impact(m)
          \/ \E g \in Batteries(m) : battery[m][g].status = "pending" /\ e = Fire(m, g)
<1>1. ASSUME NEW e
      PROVE  e \in OpenMilestones <=> \E m \in Missions :
               /\ mission[m].status = "pending"
               /\ \/ e = Impact(m)
                  \/ \E g \in Batteries(m) : battery[m][g].status = "pending" /\ e = Fire(m, g)
  BY DEF OpenMilestones
<1>2. \A m, n : Impact(m) = Impact(n) => m = n
  BY DEF Impact
<1>3. \A m, n, g, h : Fire(m, g) = Fire(n, h) => m = n /\ g = h
  BY DEF Fire
<1>4. \A m, n, g : Impact(m) # Fire(n, g)
  BY DEF Impact, Fire
<1> QED
  BY <1>1, <1>2, <1>3, <1>4

\* What is known when a battery's turn comes.
LEMMA FireFacts ==
  ASSUME IInv, NEW m \in Missions, NEW g \in Batteries(m), phase = "fires", IsNext(Fire(m, g))
  PROVE  /\ enabled /\ mission[m].status = "pending" /\ battery[m][g].status = "pending"
         /\ FireTime(m, g) = now /\ g \in Guns /\ m \in FiresOf(g) \ Served(g)
         /\ \A n \in FiresOf(g) \ (Served(g) \union {m}) : FiresBefore(g, m, n)
         /\ \A n \in Served(g) : FiresBefore(g, n, m) /\ ~FiresBefore(g, m, n)
<1>1. Fire(m, g) \in OpenMilestones /\ Fire(m, g).at = FireTime(m, g) /\ FireTime(m, g) <= now
  BY DEF IsNext, Due, Fire
<1>2. mission[m].status = "pending" /\ battery[m][g].status = "pending"
  BY <1>1, MilestoneFacts
<1>3. enabled
  BY <1>2, StateFacts
<1>4. g \in Guns /\ m \in FiresOf(g) /\ FireTime(m, g) \in Nat /\ now \in Nat
  BY PlanFacts, ConstantsAssumption DEF IInv, PlanInv, TypeOK
<1>5. FireTime(m, g) = now
  <2>1. now <= FireTime(m, g)
    BY <1>2 DEF IInv, TimeInv, OnTime
  <2> QED
    BY <1>1, <1>4, <2>1
<1>6. m \notin Served(g)
  BY <1>2 DEF Served
<1>7. ASSUME NEW n \in FiresOf(g) \ (Served(g) \union {m})
      PROVE  FiresBefore(g, m, n)
  <2>1. n \in Missions /\ g \in Batteries(n) /\ n # m
    BY DEF FiresOf
  <2>2. battery[n][g].status = "pending"
    BY <1>3, <2>1, StateFacts DEF Served, Decided
  <2>3. mission[n].status = "pending"
    BY <1>3, <2>1, <2>2, StateFacts DEF Decided
  <2>4. Fire(n, g) \in OpenMilestones
    BY <2>1, <2>2, <2>3, MilestoneFacts
  <2>5. FireTime(n, g) \in Nat
    BY <2>1, PlanFacts DEF IInv
  <2>6. CASE FireTime(n, g) > now
    BY <1>4, <1>5, <2>5, <2>6 DEF FiresBefore
  <2>7. CASE FireTime(n, g) <= now
    <3>1. Fire(n, g) \in Due
      BY <2>4, <2>7 DEF Due, Fire
    <3>2. Fire(n, g) # Fire(m, g)
      BY <2>1 DEF Fire
    <3>3. Precedes(Fire(m, g), Fire(n, g))
      BY <3>1, <3>2 DEF IsNext
    <3> QED
      BY <2>1, <3>3 DEF Precedes, Fire, FiresBefore
  <2> QED
    BY <1>4, <2>5, <2>6, <2>7
<1>8. ASSUME NEW n \in Served(g)
      PROVE  FiresBefore(g, n, m) /\ ~FiresBefore(g, m, n)
  <2>1. FiresBefore(g, n, m)
    BY <1>4, <1>6 DEF IInv, GunsInv, HistoryInv
  <2>2. n \in FiresOf(g)
    BY DEF Served
  <2> QED
    BY <1>4, <2>1, <2>2, FiresOrdered DEF IInv
<1> QED
  BY <1>2, <1>3, <1>4, <1>5, <1>6, <1>7, <1>8

\* A reserved weapon has the rounds and the time for the next of its missions.
LEMMA WeaponSuffices ==
  ASSUME IInv, NEW m \in Missions, NEW g \in Batteries(m), phase = "fires", IsNext(Fire(m, g))
  PROVE  /\ Reserved(g) /\ weapon[g] = LeftBy(g, Served(g))
         /\ weapon[g].rounds \in 0..Magazine /\ plan[m].rounds <= weapon[g].rounds
         /\ Ready(weapon[g], FireTime(m, g), plan[m].rounds)
         /\ weapon[g].rounds + RoundsOf(Served(g)) >= Magazine
         /\ RoundsOf(Served(g)) \in Nat
         /\ RoundsOf(Served(g) \union {m}) = RoundsOf(Served(g)) + plan[m].rounds
<1>1. /\ enabled /\ mission[m].status = "pending" /\ g \in Guns /\ m \in FiresOf(g) \ Served(g)
      /\ \A n \in Served(g) : FiresBefore(g, n, m)
  BY FireFacts
<1>2. Reserved(g)
  BY <1>1 DEF Reserved
<1>3. /\ weapon[g] = LeftBy(g, Served(g))
      /\ weapon[g].rounds + RoundsOf(Served(g)) >= Magazine
      /\ weapon[g].last = Never \/ \E n \in Served(g) : weapon[g].last = FireTime(n, g)
  BY <1>1, <1>2 DEF IInv, GunsInv, WeaponInv
<1>4. Served(g) \in SUBSET FiresOf(g)
  BY DEF Served
<1>5. /\ RoundsOf(Served(g)) + plan[m].rounds <= Magazine /\ RoundsOf(Served(g)) \in Nat
      /\ RoundsOf(Served(g) \union {m}) = RoundsOf(Served(g)) + plan[m].rounds
  BY <1>1, <1>4, RoundsReserved DEF IInv
<1>6. weapon[g].rounds \in 0..Magazine /\ Magazine \in Nat /\ plan[m].rounds \in Nat
  BY <1>1, ConstantsAssumption, PlanFacts DEF IInv, PlanInv, TypeOK
<1>7. plan[m].rounds <= weapon[g].rounds
  BY <1>3, <1>5, <1>6
<1>8. Ready(weapon[g], FireTime(m, g), plan[m].rounds)
  <2>1. ASSUME NEW n \in Served(g)
        PROVE  FireTime(m, g) - FireTime(n, g) >= Cooldown * plan[m].rounds
    <3>1. n \in FiresOf(g) /\ n # m /\ FiresBefore(g, n, m)
      BY <1>1, <1>4
    <3> QED
      BY <1>1, <3>1 DEF IInv, PlanInv, Resolves, ResourcesResolve
  <2> QED
    BY <1>3, <2>1 DEF Ready
<1> QED
  BY <1>2, <1>3, <1>5, <1>6, <1>7, <1>8

\* Only one record changes: what is known of other missions and other
\* attachments stays.
LEMMA OtherRecords ==
  ASSUME IInv, plan' = plan, NEW m \in Missions, NEW g \in Batteries(m),
         battery[m][g].status = "pending",
         \A n \in Missions : \A h \in Batteries(n) :
           n # m \/ h # g => battery'[n][h] = battery[n][h]
  PROVE  /\ \A n \in Missions \ {m} : Fired(n)' = Fired(n) /\ Outcome(n)' = Outcome(n)
         /\ \A h \in Guns \ {g} : Served(h)' = Served(h)
         /\ \A h \in Guns : \A n \in Served(h) : battery'[n][h] = battery[n][h]
         /\ \A h \in Guns, ms \in SUBSET Missions : \A w, to :
              ms = {} \/ LastOf(h, ms) \in Served(h) =>
                /\ LeftBy(h, ms)' = LeftBy(h, ms)
                /\ Follows(h, ms, w, to)' <=> Follows(h, ms, w, to)
<1>1. ASSUME NEW n \in Missions \ {m}
      PROVE  Fired(n)' = Fired(n) /\ Outcome(n)' = Outcome(n)
  <2>1. \A h \in Batteries(n) : battery'[n][h] = battery[n][h]
    OBVIOUS
  <2>2. Fired(n)' = Fired(n)
    BY <2>1, SamePlan DEF Fired
  <2> QED
    BY <2>2, SamePlan DEF Outcome
<1>2. ASSUME NEW h \in Guns \ {g}
      PROVE  Served(h)' = Served(h)
  <2>1. \A n \in FiresOf(h) : battery'[n][h] = battery[n][h]
    BY DEF FiresOf
  <2> QED
    BY <2>1, SamePlan DEF Served
<1>3. ASSUME NEW h \in Guns, NEW n \in Served(h)
      PROVE  battery'[n][h] = battery[n][h]
  BY DEF Served, FiresOf
<1>4. ASSUME NEW h \in Guns, NEW ms \in SUBSET Missions, NEW w, NEW to,
             ms = {} \/ LastOf(h, ms) \in Served(h)
      PROVE  /\ LeftBy(h, ms)' = LeftBy(h, ms)
             /\ Follows(h, ms, w, to)' <=> Follows(h, ms, w, to)
  <2>1. LastOf(h, ms)' = LastOf(h, ms)
    BY SameLast
  <2>2. LeftBy(h, ms)' = LeftBy(h, ms) /\ LeftAt(h, ms)' = LeftAt(h, ms)
    BY <1>3, <1>4, <2>1 DEF LeftBy, LeftAt
  <2> QED
    BY <2>2 DEF Follows, AcceptableExternal
<1> QED
  BY <1>1, <1>2, <1>3, <1>4

\* What happens to one mission leaves what happened to the others.
LEMMA HappenedGrows ==
  ASSUME NEW m \in Missions, NEW E,
         \A n \in Missions \ {m} : HappenedTo(n)' = HappenedTo(n),
         HappenedTo(m)' = HappenedTo(m) \union E
  PROVE  Happened' = Happened \union E
BY DEF Happened

\* What a publication does, whether or not an observer raises.
LEMMA PublishFacts ==
  ASSUME NEW events, Len(events) \in Nat, Publish(events)
  PROVE  /\ phase' \in {"fires", "stopped"}
         /\ phase' = "fires" =>
              announced' = announced \union {events[i] : i \in 1..Len(events)}
BY DEF Publish

\* What is recorded of a battery, and what of the others.
LEMMA FireRecorded ==
  ASSUME IInv, NEW m \in Missions, NEW g \in Batteries(m), NEW rec,
         battery' = [battery EXCEPT ![m][g] = rec]
  PROVE  /\ DOMAIN battery' = Missions
         /\ \A n \in Missions : DOMAIN battery'[n] = Batteries(n)
         /\ battery'[m][g] = rec
         /\ \A n \in Missions : \A h \in Batteries(n) :
              n # m \/ h # g => battery'[n][h] = battery[n][h]
BY DEF IInv, PlanInv, TypeOK

\* The history of an attachment, with one more mission.
LEMMA HistoryGrows ==
  ASSUME IInv, plan' = plan, NEW m \in Missions, NEW g \in Batteries(m),
         phase = "fires", IsNext(Fire(m, g)),
         \A n \in Missions : \A h \in Batteries(n) :
           n # m \/ h # g => battery'[n][h] = battery[n][h],
         battery'[m][g].status \in Decided,
         battery'[m][g].before = weapon[g],
         battery'[m][g].after \in [rounds : 0..Magazine, last : Int]
  PROVE  /\ HistoryInv(g)' /\ Served(g)' = Served(g) \union {m}
         /\ LeftBy(g, Served(g))' = battery'[m][g].after
<1>1. /\ battery[m][g].status = "pending" /\ g \in Guns /\ m \in FiresOf(g) \ Served(g)
      /\ \A n \in FiresOf(g) \ (Served(g) \union {m}) : FiresBefore(g, m, n)
      /\ \A n \in Served(g) : FiresBefore(g, n, m) /\ ~FiresBefore(g, m, n)
  BY FireFacts
<1>2. HistoryInv(g) /\ Served(g) \subseteq FiresOf(g) /\ FiresOf(g) \subseteq Missions
  BY <1>1 DEF IInv, GunsInv, Served, FiresOf
<1>3. /\ \A n \in Served(g) : battery'[n][g] = battery[n][g]
      /\ \A ms \in SUBSET Missions : \A w, to : ms = {} \/ LastOf(g, ms) \in Served(g) =>
           /\ LeftBy(g, ms)' = LeftBy(g, ms)
           /\ Follows(g, ms, w, to)' <=> Follows(g, ms, w, to)
  BY <1>1, OtherRecords
<1>4. Served(g)' = Served(g) \union {m}
  <2>1. \A n \in FiresOf(g) : n # m => battery'[n][g] = battery[n][g]
    BY DEF FiresOf
  <2> QED
    BY <1>1, <2>1, SamePlan DEF Served, Decided
<1>5. Earlier(g, m)' = Served(g)
  BY <1>1, <1>4, SamePlan DEF Earlier
<1>6. ASSUME NEW n \in Served(g) PROVE Earlier(g, n)' = Earlier(g, n)
  BY <1>1, <1>4, SamePlan DEF Earlier
<1>7. LastOf(g, Served(g) \union {m}) = m
  <2> DEFINE ms == Served(g) \union {m}
             P(n) == \A k \in ms \ {n} : FiresBefore(g, k, n)
  <2>1. m \in ms /\ P(m)
    BY <1>1
  <2>2. LastOf(g, ms) \in ms /\ P(LastOf(g, ms))
    BY <2>1 DEF LastOf
  <2>3. LastOf(g, ms) # m => FiresBefore(g, m, LastOf(g, ms)) /\ LastOf(g, ms) \in Served(g)
    BY <2>2
  <2> QED
    BY <1>1, <2>3
<1>8. LastOf(g, Served(g))' = m
  BY <1>4, <1>7, SameLast
<1>9. LeftBy(g, Served(g))' = battery'[m][g].after
  BY <1>4, <1>8 DEF LeftBy
<1>10. ASSUME NEW n \in Served(g)'
       PROVE  /\ Follows(g, Earlier(g, n), battery[n][g].before, battery[n][g].at)'
              /\ Earlier(g, n)' # {} => LastOf(g, Earlier(g, n))' \in Earlier(g, n)'
  <2>1. CASE n = m
    <3>1. Served(g) # {} => LastOf(g, Served(g)) \in Served(g)
      BY <1>2 DEF HistoryInv
    <3>2. LeftBy(g, Served(g)) = weapon[g]
      BY WeaponSuffices
    <3>5. Earlier(g, n)' = Served(g) /\ battery'[n][g].before = weapon[g]
      BY <1>5, <2>1
    <3>6. LeftBy(g, Earlier(g, n))' = weapon[g]
      <4>1. CASE Served(g) = {}
        BY <3>2, <3>5, <4>1 DEF LeftBy
      <4>2. CASE Served(g) # {}
        <5>1. LastOf(g, Earlier(g, n))' = LastOf(g, Served(g))
          BY <3>5, SameLast
        <5>2. battery'[LastOf(g, Served(g))][g] = battery[LastOf(g, Served(g))][g]
          BY <1>3, <3>1, <4>2
        <5> QED
          BY <3>2, <3>5, <4>2, <5>1, <5>2 DEF LeftBy
      <4> QED
        BY <4>1, <4>2
    <3>7. Follows(g, Earlier(g, n), battery[n][g].before, battery[n][g].at)'
      BY <3>5, <3>6 DEF Follows
    <3>8. LastOf(g, Earlier(g, n))' = LastOf(g, Served(g))
      BY <3>5, SameLast
    <3> QED
      BY <3>1, <3>5, <3>7, <3>8
  <2>2. CASE n # m
    <3>1. n \in Served(g)
      BY <1>4, <2>2
    <3>2. /\ Follows(g, Earlier(g, n), battery[n][g].before, battery[n][g].at)
          /\ Earlier(g, n) # {} => LastOf(g, Earlier(g, n)) \in Earlier(g, n)
          /\ Earlier(g, n) \subseteq Served(g)
      BY <1>2, <3>1 DEF HistoryInv, Earlier
    <3>3. Earlier(g, n)' = Earlier(g, n) /\ battery'[n][g] = battery[n][g]
      BY <1>3, <1>6, <3>1
    <3>4. Follows(g, Earlier(g, n), battery[n][g].before, battery[n][g].at)'
      <4>1. Earlier(g, n) \in SUBSET Missions
        BY <1>2, <3>2
      <4>2. Earlier(g, n) = {} \/ LastOf(g, Earlier(g, n)) \in Served(g)
        BY <3>2
      <4>3. LastOf(g, Earlier(g, n))' = LastOf(g, Earlier(g, n))
        BY <3>3, SameLast
      <4>4. Earlier(g, n) # {} =>
              battery'[LastOf(g, Earlier(g, n))][g] = battery[LastOf(g, Earlier(g, n))][g]
        BY <1>3, <4>2
      <4>5. /\ LeftBy(g, Earlier(g, n))' = LeftBy(g, Earlier(g, n))
            /\ LeftAt(g, Earlier(g, n))' = LeftAt(g, Earlier(g, n))
        BY <3>3, <4>3, <4>4 DEF LeftBy, LeftAt
      <4> QED
        BY <3>2, <3>3, <4>5 DEF Follows, AcceptableExternal
    <3>5. LastOf(g, Earlier(g, n))' = LastOf(g, Earlier(g, n))
      BY <3>3, SameLast
    <3> QED
      BY <3>2, <3>3, <3>4, <3>5
  <2> QED
    BY <2>1, <2>2
<1>11. ASSUME NEW n \in Served(g)', NEW k \in FiresOf(g)' \ Served(g)'
       PROVE  FiresBefore(g, n, k)'
  <2>1. k \in FiresOf(g) \ (Served(g) \union {m}) /\ n \in Served(g) \union {m}
    BY <1>4, SamePlan
  <2>2. FiresBefore(g, n, k)
    BY <1>1, <1>2, <2>1 DEF HistoryInv
  <2> QED
    BY <2>2, SamePlan
<1>12. HistoryInv(g)'
  BY <1>4, <1>8, <1>9, <1>10, <1>11 DEF HistoryInv
<1> QED
  BY <1>4, <1>9, <1>12

\* A battery is never rejected for what the resolver has checked.
LEMMA RejectionFacts ==
  ASSUME IInv, NEW m \in Missions, NEW g \in Batteries(m), phase = "fires",
         IsNext(Fire(m, g)), NEW pre \in Mishaps \union {"fit"}
  PROVE  Rejection(m, g, unit[UnitOf[g]], pre, weapon[g])
           \notin {"insufficient_ammunition", "weapon_cooldown"}
<1> DEFINE w == weapon[g]
           by == unit[UnitOf[g]]
           r == Rejection(m, g, by, pre, w)
<1>1. /\ w.rounds \in 0..Magazine /\ Magazine \in Nat /\ plan[m].rounds <= w.rounds
      /\ plan[m].rounds \in Nat /\ Ready(w, FireTime(m, g), plan[m].rounds)
  BY WeaponSuffices, PlanFacts, ConstantsAssumption DEF IInv
<1>2. w.rounds >= plan[m].rounds /\ ~(w.rounds < plan[m].rounds)
  BY <1>1
<1> HIDE DEF w, by
<1>3. CASE by # "ACTIVE"
  <2>1. r = "battery_inactive"
    BY <1>3 DEF Rejection
  <2> QED
    BY <2>1 DEF w, by
<1>4. CASE by = "ACTIVE" /\ pre # "fit"
  <2>1. r = pre
    BY <1>4 DEF Rejection
  <2>2. pre \in {"battery_moving", "battery_displaced", "weapon_inoperable"}
    BY <1>4, ConstantsAssumption
  <2> QED
    BY <2>1, <2>2 DEF w, by
<1>5. CASE by = "ACTIVE" /\ pre = "fit"
  <2>1. r = ""
    BY <1>1, <1>2, <1>5 DEF Rejection
  <2> QED
    BY <2>1 DEF w, by
<1> QED
  BY <1>3, <1>4, <1>5

\* A battery fires or is rejected at its time, and observers are told.
LEMMA ProcessScheduledFireKeepsInv ==
  ASSUME IInv, NEW m \in Missions, NEW g \in Batteries(m), ProcessScheduledFire(m, g)
  PROVE  IInv'
<1> DEFINE w == weapon[g]
           by == unit[UnitOf[g]]
<1>0. /\ phase = "fires" /\ IsNext(Fire(m, g))
      /\ UNCHANGED <<plan, enabled, degraded, now, mission, unit, changes>>
  BY DEF ProcessScheduledFire, config
<1>1. /\ enabled /\ mission[m].status = "pending" /\ battery[m][g].status = "pending"
      /\ FireTime(m, g) = now /\ g \in Guns /\ m \in FiresOf(g) \ Served(g)
      /\ Fire(m, g).at = now
  BY <1>0, FireFacts DEF Fire
<1>2. PICK pre \in Mishaps \union {"fit"} :
        LET reason == Rejection(m, g, by, pre, w)
            after == IF reason # "" THEN w ELSE Spent(m, g, w)
        IN /\ battery' = [battery EXCEPT ![m][g] =
                 [status |-> IF reason # "" THEN "rejected" ELSE "fired", at |-> now,
                  reason |-> reason, pre |-> pre, by |-> by,
                  before |-> w, after |-> after]]
           /\ weapon' = [weapon EXCEPT ![g] = after]
           /\ Publish(IF reason # "" THEN <<>>
                      ELSE << <<"ammo", m, g>>, <<"fire", m, g>> >>)
  BY <1>1 DEF ProcessScheduledFire
<1> DEFINE reason == Rejection(m, g, by, pre, w)
           after == IF reason # "" THEN w ELSE Spent(m, g, w)
           rec == [status |-> IF reason # "" THEN "rejected" ELSE "fired", at |-> now,
                   reason |-> reason, pre |-> pre, by |-> by, before |-> w, after |-> after]
           events == IF reason # "" THEN <<>> ELSE << <<"ammo", m, g>>, <<"fire", m, g>> >>
<1>3. /\ battery' = [battery EXCEPT ![m][g] = rec]
      /\ weapon' = [weapon EXCEPT ![g] = after]
      /\ Publish(events)
  BY <1>2
<1>4. reason \notin {"insufficient_ammunition", "weapon_cooldown"}
  BY <1>0, RejectionFacts
<1>5. /\ weapon \in [Guns -> [rounds : 0..Magazine, last : Int]]
      /\ w \in [rounds : 0..Magazine, last : Int] /\ Magazine \in Nat
      /\ now \in Nat /\ plan[m].rounds \in Nat /\ plan[m].rounds <= w.rounds
      /\ now % Cadence = 0
  <2>1. plan[m].rounds \in Nat
    BY PlanFacts DEF IInv
  <2>2. plan[m].rounds <= w.rounds
    BY <1>0, WeaponSuffices
  <2> QED
    BY <1>1, <2>1, <2>2, ConstantsAssumption DEF IInv, PlanInv, TypeOK
<1>6. /\ after \in [rounds : 0..Magazine, last : Int]
      /\ after = w \/ after = Spent(m, g, w)
      /\ Spent(m, g, w).last = now /\ Spent(m, g, w).rounds = w.rounds - plan[m].rounds
  <2>1. w.rounds - plan[m].rounds \in 0..Magazine /\ now \in Int
    <3> HIDE DEF w
    <3> QED
      BY <1>5
  <2>2. Spent(m, g, w) = [rounds |-> w.rounds - plan[m].rounds, last |-> now]
    BY <1>1 DEF Spent
  <2>3. after = w \/ after = Spent(m, g, w)
    OBVIOUS
  <2> HIDE DEF after, w
  <2>4. Spent(m, g, w) \in [rounds : 0..Magazine, last : Int]
    BY <2>1, <2>2
  <2> QED
    BY <1>5, <2>2, <2>3, <2>4
<1>7. /\ rec.status \in Decided /\ rec.before = w /\ rec.after = after /\ rec.at = now
      /\ rec.reason = reason /\ rec.by = by /\ rec.pre = pre
      /\ rec.status = (IF reason # "" THEN "rejected" ELSE "fired")
      /\ weapon'[g] = after /\ \A h \in Guns \ {g} : weapon'[h] = weapon[h]
  BY <1>1, <1>3, <1>5 DEF Decided
<1> HIDE DEF rec, after, reason, events, w, by
<1>8. /\ DOMAIN battery' = Missions
      /\ \A n \in Missions : DOMAIN battery'[n] = Batteries(n)
      /\ battery'[m][g] = rec
      /\ \A n \in Missions : \A h \in Batteries(n) :
           n # m \/ h # g => battery'[n][h] = battery[n][h]
  BY <1>3, FireRecorded
<1>9. phase' \in {"fires", "stopped"}
  <2>1. Len(events) \in Nat
    BY DEF events
  <2> QED
    BY <1>3, <2>1, PublishFacts
<1>10. PlanInv'
  <2>1. weapon' \in [Guns -> [rounds : 0..Magazine, last : Int]]
    BY <1>3, <1>5, <1>6
  <2>2. \A n \in Missions : \A h \in Batteries(n) :
          battery'[n][h].status \in {"dormant", "pending", "fired", "rejected"}
    <3>1. \A n \in Missions : \A h \in Batteries(n) :
            battery[n][h].status \in {"dormant", "pending", "fired", "rejected"}
      BY DEF IInv, PlanInv, TypeOK
    <3> QED
      BY <1>7, <1>8, <3>1 DEF Decided
  <2>3. \A n \in Missions : Batteries(n)' = Batteries(n)
    BY <1>0, SamePlan
  <2> QED
    BY <1>0, <1>8, <1>9, <2>1, <2>2, <2>3, SamePlan DEF IInv, PlanInv, TypeOK
<1>11. StatesInv'
  <2>1. \A n \in Missions : \A h \in Batteries(n) :
          /\ battery[n][h].status \in Decided => battery'[n][h].status \in Decided
          /\ battery[n][h] = Pristine("pending") =>
               battery'[n][h] = Pristine("pending") \/ battery'[n][h].status \in Decided
    BY <1>7, <1>8
  <2> QED
    BY <1>0, <1>1, <2>1, SamePlan DEF IInv, StatesInv
<1>12. TimeInv'
  <2>1. ASSUME NEW t, OnTime(t) PROVE OnTime(t)'
    BY <1>0, <1>9, <2>1 DEF OnTime
  <2>2. \A n \in Missions : \A h \in Batteries(n) :
          battery'[n][h].status = "pending" => battery[n][h].status = "pending"
    BY <1>7, <1>8 DEF Decided
  <2> QED
    BY <1>0, <1>9, <2>2, SamePlan DEF IInv, TimeInv, OnTime
<1>13. RecordInv'
  <2> SUFFICES ASSUME NEW n \in Missions, NEW h \in Batteries(n)
      PROVE  /\ (battery[n][h].status \in Decided => AcceptableBattery(n, h))'
             /\ (battery[n][h].reason \notin {"insufficient_ammunition", "weapon_cooldown"})'
    BY <1>0, SamePlan DEF RecordInv
  <2>0. \A s, p, v : /\ Rejection(n, h, s, p, v)' = Rejection(n, h, s, p, v)
                     /\ Spent(n, h, v)' = Spent(n, h, v)
    BY <1>0, SamePlan DEF Rejection, Spent, Ready
  <2>1. CASE n = m /\ h = g
    <3>1. PICK b : b = rec
      OBVIOUS
    <3>2. /\ battery'[n][h] = b /\ FireTime(n, h)' = now' /\ enabled'
      BY <1>0, <1>1, <1>8, <2>1, <3>1, SamePlan
    <3>3. b.at = now' /\ now' <= now'
      <4>1. b.at = now /\ now \in Nat
        BY <1>5, <1>7, <3>1
      <4> QED
        BY <1>0, <4>1
    <3>4. b.reason = Rejection(n, h, b.by, b.pre, b.before)
      BY <1>7, <2>1, <3>1 DEF reason
    <3>5. b.reason = reason
      BY <1>7, <3>1
    <3>6. IF b.status = "fired" THEN b.reason = "" /\ b.after = Spent(n, h, b.before)
          ELSE b.reason # "" /\ b.after = b.before
      BY <1>7, <2>1, <3>1 DEF after
    <3>7. b.status \in Decided
      BY <1>7, <3>1
    <3>8. /\ Rejection(n, h, b.by, b.pre, b.before)' = Rejection(n, h, b.by, b.pre, b.before)
          /\ Spent(n, h, b.before)' = Spent(n, h, b.before)
      BY <2>0
    <3>9. AcceptableBattery(n, h)'
      BY <3>2, <3>3, <3>4, <3>6, <3>7, <3>8 DEF AcceptableBattery, Decided
    <3> QED
      BY <1>4, <3>2, <3>5, <3>9
  <2>2. CASE n # m \/ h # g
    <3>1. battery'[n][h] = battery[n][h]
      BY <1>8, <2>2
    <3>2. /\ battery[n][h].status \in Decided => AcceptableBattery(n, h)
          /\ battery[n][h].reason \notin {"insufficient_ammunition", "weapon_cooldown"}
      BY DEF IInv, RecordInv
    <3>3. AcceptableBattery(n, h) => AcceptableBattery(n, h)'
      <4>1. PICK b : b = battery[n][h]
        OBVIOUS
      <4>2. FireTime(n, h)' = FireTime(n, h)
        BY <1>0, SamePlan
      <4>3. /\ Rejection(n, h, b.by, b.pre, b.before)' = Rejection(n, h, b.by, b.pre, b.before)
            /\ Spent(n, h, b.before)' = Spent(n, h, b.before)
        BY <2>0
      <4> QED
        BY <1>0, <3>1, <4>1, <4>2, <4>3 DEF AcceptableBattery, Pristine
    <3> QED
      BY <3>1, <3>2, <3>3
  <2> QED
    BY <2>1, <2>2
<1>14. ResultInv'
  <2> SUFFICES ASSUME NEW n \in Missions, mission[n].status = "completed"
      PROVE  AcceptableMission(n)'
    BY <1>0 DEF ResultInv
  <2>1. AcceptableMission(n) /\ n # m
    BY <1>1 DEF IInv, ResultInv
  <2>2. /\ Fired(n)' = Fired(n) /\ Outcome(n)' = Outcome(n) /\ Batteries(n)' = Batteries(n)
        /\ \A h \in Batteries(n) : battery'[n][h] = battery[n][h]
    BY <1>0, <1>1, <1>8, <2>1, OtherRecords, SamePlan
  <2>3. Effects(n, mission[n].before)' = Effects(n, mission[n].before)
    BY <1>0, <2>2 DEF Effects
  <2> QED
    BY <1>0, <2>1, <2>2, <2>3 DEF AcceptableMission, StatusAfter
<1>15. ASSUME NEW h \in Guns \ {g} PROVE HistoryInv(h)' /\ WeaponInv(h)'
  <2>1. /\ Served(h)' = Served(h) /\ FiresOf(h)' = FiresOf(h)
        /\ \A n \in Served(h) : battery'[n][h] = battery[n][h]
        /\ \A n : Earlier(h, n)' = Earlier(h, n) /\ Earlier(h, n) \subseteq Served(h)
        /\ Served(h) \subseteq Missions
    BY <1>0, <1>1, <1>8, OtherRecords, SamePlan DEF Earlier, Served, FiresOf
  <2>2. /\ Served(h) # {} => LastOf(h, Served(h)) \in Served(h)
        /\ \A n \in Served(h) : Earlier(h, n) # {} => LastOf(h, Earlier(h, n)) \in Earlier(h, n)
    BY DEF IInv, GunsInv, HistoryInv
  <2>3. \A ms \in SUBSET Missions : ms = {} \/ LastOf(h, ms) \in Served(h) =>
          /\ LeftBy(h, ms)' = LeftBy(h, ms)
          /\ LeftAt(h, ms)' = LeftAt(h, ms)
    <3> SUFFICES ASSUME NEW ms \in SUBSET Missions, ms = {} \/ LastOf(h, ms) \in Served(h)
        PROVE  LeftBy(h, ms)' = LeftBy(h, ms) /\ LeftAt(h, ms)' = LeftAt(h, ms)
      OBVIOUS
    <3>1. LastOf(h, ms)' = LastOf(h, ms)
      BY <1>0, SameLast
    <3> QED
      BY <2>1, <3>1 DEF LeftBy, LeftAt
  <2>4. /\ LeftBy(h, Served(h))' = LeftBy(h, Served(h)) /\ LeftAt(h, Served(h))' = LeftAt(h, Served(h))
        /\ LastOf(h, Served(h))' = LastOf(h, Served(h))
    <3>1. /\ LeftBy(h, Served(h)) = LeftBy(h, Served(h)) /\ Served(h)' = Served(h)
          /\ LastOf(h, Served(h))' = LastOf(h, Served(h))
      BY <1>0, <2>1, SameLast
    <3> QED
      BY <2>1, <2>2, <3>1 DEF LeftBy, LeftAt
  <2>5. \A n \in Served(h) :
          /\ LeftBy(h, Earlier(h, n))' = LeftBy(h, Earlier(h, n))
          /\ LeftAt(h, Earlier(h, n))' = LeftAt(h, Earlier(h, n))
          /\ LastOf(h, Earlier(h, n))' = LastOf(h, Earlier(h, n))
    <3> SUFFICES ASSUME NEW n \in Served(h)
        PROVE  /\ LeftBy(h, Earlier(h, n))' = LeftBy(h, Earlier(h, n))
               /\ LeftAt(h, Earlier(h, n))' = LeftAt(h, Earlier(h, n))
               /\ LastOf(h, Earlier(h, n))' = LastOf(h, Earlier(h, n))
      OBVIOUS
    <3>1. LastOf(h, Earlier(h, n))' = LastOf(h, Earlier(h, n)) /\ Earlier(h, n)' = Earlier(h, n)
      BY <1>0, <2>1, SameLast
    <3>2. Earlier(h, n) # {} => LastOf(h, Earlier(h, n)) \in Served(h)
      BY <2>1, <2>2
    <3> QED
      BY <2>1, <3>1, <3>2 DEF LeftBy, LeftAt
  <2>6. HistoryInv(h)'
    <3>1. HistoryInv(h)
      BY DEF IInv, GunsInv
    <3>2. ASSUME NEW n \in Served(h)
          PROVE  Follows(h, Earlier(h, n), battery[n][h].before, battery[n][h].at)'
      <4>1. Follows(h, Earlier(h, n), battery[n][h].before, battery[n][h].at)
        BY <3>1 DEF HistoryInv
      <4> QED
        BY <2>1, <2>5, <4>1 DEF Follows, AcceptableExternal
    <3>3. ASSUME NEW n \in Served(h), NEW k \in FiresOf(h) \ Served(h)
          PROVE  FiresBefore(h, n, k)'
      BY <1>0, <3>1, SamePlan DEF HistoryInv
    <3>4. LeftBy(h, Served(h)) \in [rounds : 0..Magazine, last : Int]
      BY <3>1 DEF HistoryInv
    <3> QED
      BY <2>1, <2>2, <2>4, <2>5, <3>2, <3>3, <3>4 DEF HistoryInv
  <2>7. WeaponInv(h)'
    <3>1. WeaponInv(h) /\ weapon'[h] = weapon[h] /\ (Reserved(h)' <=> Reserved(h))
      BY <1>0, <1>7, SamePlan DEF IInv, GunsInv, Reserved
    <3>2. Follows(h, Served(h), weapon[h], now)'
      BY <1>0, <2>4, <3>1, <2>1 DEF WeaponInv, Follows, AcceptableExternal
    <3>3. RoundsOf(Served(h))' = RoundsOf(Served(h)) /\ \A n : FireTime(n, h)' = FireTime(n, h)
      BY <1>0, <2>1, SamePlan
    <3> QED
      BY <1>0, <2>1, <2>4, <3>1, <3>2, <3>3 DEF WeaponInv
  <2> QED
    BY <2>6, <2>7
<1>16. /\ HistoryInv(g)' /\ Served(g)' = Served(g) \union {m}
       /\ LeftBy(g, Served(g))' = after
  BY <1>0, <1>6, <1>7, <1>8, HistoryGrows DEF w
<1>17. WeaponInv(g)'
  <2>1. /\ w.last # Never => w.last \in 0..now /\ w.last % Cadence = 0
        /\ w.last = Never \/ \E n \in Served(g) : w.last = FireTime(n, g)
    BY <1>0, <1>1, WeaponSuffices DEF IInv, GunsInv, WeaponInv, w
  <2>2. after.last # Never => after.last \in 0..now' /\ after.last % Cadence = 0
    BY <1>0, <1>5, <1>6, <2>1
  <2>3. Follows(g, Served(g), weapon[g], now)'
    BY <1>7, <1>16 DEF Follows
  <2>4. after.rounds + RoundsOf(Served(g))' >= Magazine
    <3>1. /\ w.rounds + RoundsOf(Served(g)) >= Magazine /\ RoundsOf(Served(g)) \in Nat
          /\ RoundsOf(Served(g) \union {m}) = RoundsOf(Served(g)) + plan[m].rounds
      BY <1>0, WeaponSuffices DEF w
    <3>2. RoundsOf(Served(g))' = RoundsOf(Served(g)) + plan[m].rounds
      BY <1>0, <1>16, <3>1, SamePlan
    <3>3. after.rounds = w.rounds \/ after.rounds = w.rounds - plan[m].rounds
      BY <1>6
    <3> QED
      BY <1>5, <3>1, <3>2, <3>3
  <2>5. after.last = Never \/ \E n \in Served(g)' : after.last = FireTime(n, g)'
    <3>1. \A n : FireTime(n, g)' = FireTime(n, g)
      BY <1>0, SamePlan
    <3> QED
      BY <1>1, <1>6, <1>16, <2>1, <3>1
  <2> QED
    BY <1>7, <1>16, <2>2, <2>3, <2>4, <2>5 DEF WeaponInv
<1>18. GunsInv'
  BY <1>15, <1>16, <1>17 DEF GunsInv
<1>19. Announced'
  <2> SUFFICES ASSUME phase' = "fires" PROVE announced' = Happened'
    BY <1>9 DEF Announced
  <2>1. announced = Happened
    BY <1>0 DEF IInv, Announced
  <2>2. announced' = announced \union {events[i] : i \in 1..Len(events)}
    <3>1. Len(events) \in Nat
      BY DEF events
    <3> QED
      BY <1>3, <3>1, PublishFacts
  <2>3. \A n \in Missions \ {m} : Fired(n)' = Fired(n)
    BY <1>0, <1>1, <1>8, OtherRecords
  <2>4. CASE reason # ""
    <3>1. events = <<>> /\ Len(events) = 0
      BY <2>4 DEF events
    <3>2. Fired(m)' = Fired(m)
      <4>1. battery'[m][g].status = "rejected"
        BY <1>7, <1>8, <2>4
      <4> QED
        BY <1>0, <1>1, <1>8, <4>1, SamePlan DEF Fired
    <3>3. Happened' = Happened
      BY <1>0, <2>3, <3>2 DEF Happened, HappenedTo
    <3> QED
      BY <2>1, <2>2, <3>1, <3>3
  <2>5. CASE reason = ""
    <3>1. {events[i] : i \in 1..Len(events)} = {<<"ammo", m, g>>, <<"fire", m, g>>}
      <4>1. events = << <<"ammo", m, g>>, <<"fire", m, g>> >>
        BY <2>5 DEF events
      <4>2. Len(events) = 2 /\ events[1] = <<"ammo", m, g>> /\ events[2] = <<"fire", m, g>>
        BY <4>1
      <4>3. \A i : i \in 1..2 <=> i = 1 \/ i = 2
        OBVIOUS
      <4> HIDE DEF events
      <4> QED
        BY <4>2, <4>3
    <3>2. Fired(m)' = Fired(m) \union {g}
      <4>1. battery'[m][g].status = "fired"
        BY <1>7, <1>8, <2>5
      <4> QED
        BY <1>0, <1>1, <1>8, <4>1, SamePlan DEF Fired
    <3>3. Happened' = Happened \union {<<"ammo", m, g>>, <<"fire", m, g>>}
      <4>1. \A n \in Missions \ {m} : HappenedTo(n)' = HappenedTo(n)
        BY <1>0, <2>3 DEF HappenedTo
      <4>2. ({"ammo", "fire"} \X {m} \X Fired(m))'
              = ({"ammo", "fire"} \X {m} \X Fired(m))
                  \union {<<"ammo", m, g>>, <<"fire", m, g>>}
        BY <3>2
      <4>3. HappenedTo(m)' = HappenedTo(m) \union {<<"ammo", m, g>>, <<"fire", m, g>>}
        BY <1>0, <4>2, Zenon DEF HappenedTo
      <4> QED
        BY <4>1, <4>3, HappenedGrows
    <3> QED
      BY <2>1, <2>2, <3>1, <3>3
  <2> QED
    BY <2>4, <2>5
<1> QED
  BY <1>10, <1>11, <1>12, <1>13, <1>14, <1>18, <1>19 DEF IInv

-----------------------------------------------------------------------------
(* Impacts.                                                                *)

\* A mission takes effect at its time, when its batteries have been decided.
LEMMA ImpactFacts ==
  ASSUME IInv, NEW m \in Missions, phase = "fires", IsNext(Impact(m))
  PROVE  /\ enabled /\ mission[m] = Open("pending") /\ plan[m].impact = now /\ now \in Nat
         /\ \A g \in Batteries(m) : battery[m][g].status \in Decided
         /\ \A f \in OpenMilestones : f.kind = "fire" => f.at > now
<1>1. Impact(m) \in OpenMilestones /\ Impact(m).at = plan[m].impact /\ plan[m].impact <= now
  BY DEF IsNext, Due, Impact
<1>2. mission[m].status = "pending"
  BY <1>1, MilestoneFacts
<1>3. enabled /\ mission[m] = Open("pending")
  BY <1>2, StateFacts
<1>4. plan[m].impact = now /\ now \in Nat
  <2>1. now <= plan[m].impact
    BY <1>2 DEF IInv, TimeInv, OnTime
  <2>2. plan[m].impact \in Nat /\ now \in Nat
    BY PlanFacts, ConstantsAssumption DEF IInv, PlanInv, TypeOK
  <2> QED
    BY <1>1, <2>1, <2>2
<1>5. ASSUME NEW g \in Batteries(m) PROVE battery[m][g].status \in Decided
  <2>1. FireTime(m, g) \in Nat /\ FireTime(m, g) < plan[m].impact
    BY PlanFacts DEF IInv
  <2>2. battery[m][g].status = "pending" => now <= FireTime(m, g)
    BY DEF IInv, TimeInv, OnTime
  <2> QED
    BY <1>3, <1>4, <2>1, <2>2, StateFacts
<1>6. ASSUME NEW f \in OpenMilestones, f.kind = "fire" PROVE f.at > now
  <2>1. PICK n \in Missions : \E h \in Batteries(n) : f = Fire(n, h)
    BY <1>6, MilestoneFacts DEF Impact
  <2>2. f.at \in Nat
    BY <2>1, PlanFacts DEF IInv, Fire
  <2>3. ASSUME f.at <= now PROVE FALSE
    <3>1. f \in Due \ {Impact(m)}
      BY <1>6, <2>3 DEF Due, Impact
    <3>2. Precedes(Impact(m), f)
      BY <3>1 DEF IsNext
    <3>3. Impact(m).at = now /\ Impact(m).kind = "impact"
      BY <1>4 DEF Impact
    <3> QED
      BY <1>4, <1>6, <2>2, <2>3, <3>2, <3>3 DEF Precedes
  <2> QED
    BY <1>4, <2>2, <2>3
<1> QED
  BY <1>3, <1>4, <1>5, <1>6

\* An impact is recorded with its effect, and observers are told.
LEMMA CompleteScheduledMissionKeepsInv ==
  ASSUME IInv, NEW m \in Missions, CompleteScheduledMission(m)
  PROVE  IInv'
<1> DEFINE target == TargetOf[m]
           before == unit[target]
<1>0. /\ phase = "fires" /\ IsNext(Impact(m))
      /\ UNCHANGED <<plan, enabled, degraded, now, battery, weapon, changes>>
  BY DEF CompleteScheduledMission, config
<1>1. /\ enabled /\ mission[m] = Open("pending") /\ plan[m].impact = now /\ now \in Nat
      /\ \A g \in Batteries(m) : battery[m][g].status \in Decided
  BY <1>0, ImpactFacts
<1>2. ~(plan[m].impact # now \/ \E g \in Batteries(m) : battery[m][g].status = "pending")
  BY <1>1 DEF Decided
<1>3. PICK effect \in Effects(m, before) :
        LET after == StatusAfter(before, effect)
        IN /\ unit' = [unit EXCEPT ![target] = after]
           /\ mission' = [mission EXCEPT ![m] =
                 [status |-> "completed", outcome |-> Outcome(m),
                  effect |-> effect, before |-> before, after |-> after]]
           /\ Publish((IF after # before THEN << <<"status", m>> >> ELSE <<>>)
                        \o << <<"terminal", m>> >>)
  BY <1>2 DEF CompleteScheduledMission
<1> DEFINE after == StatusAfter(before, effect)
           rec == [status |-> "completed", outcome |-> Outcome(m),
                   effect |-> effect, before |-> before, after |-> after]
           told == IF after # before THEN << <<"status", m>> >> ELSE <<>>
           events == told \o << <<"terminal", m>> >>
<1>4. /\ unit' = [unit EXCEPT ![target] = after] /\ mission' = [mission EXCEPT ![m] = rec]
      /\ Publish(events)
  BY <1>3
<1>5. target \in Units /\ before \in Status /\ unit \in [Units -> Status]
  BY DEF Units, IInv, PlanInv, TypeOK
<1>6. /\ after \in Status /\ (before # "ACTIVE" => after = before)
  BY <1>5 DEF StatusAfter, Effects, Status
<1>7. /\ rec.status = "completed" /\ rec.outcome = Outcome(m) /\ rec.effect = effect
      /\ rec.before = before /\ rec.after = after
  OBVIOUS
<1>8. /\ Len(events) \in Nat
      /\ {events[i] : i \in 1..Len(events)}
           = {<<"terminal", m>>} \union (IF after # before THEN {<<"status", m>>} ELSE {})
  <2> HIDE DEF before, after
  <2>1. CASE after = before
    <3>1. events = << <<"terminal", m>> >>
      BY <2>1
    <3>2. Len(events) = 1 /\ events[1] = <<"terminal", m>>
      BY <3>1
    <3>3. \A i : i \in 1..1 <=> i = 1
      OBVIOUS
    <3> HIDE DEF events
    <3> QED
      BY <2>1, <3>2, <3>3
  <2>2. CASE after # before
    <3>0. told = << <<"status", m>> >>
      BY <2>2
    <3>1. ASSUME NEW x, NEW y
          PROVE  Len(<<x>> \o <<y>>) = 2 /\ (<<x>> \o <<y>>)[1] = x /\ (<<x>> \o <<y>>)[2] = y
      OBVIOUS
    <3>2. Len(events) = 2 /\ events[1] = <<"status", m>> /\ events[2] = <<"terminal", m>>
      <4>1. events = << <<"status", m>> >> \o << <<"terminal", m>> >>
        BY <3>0
      <4> HIDE DEF events
      <4>2. PICK x, y : x = <<"status", m>> /\ y = <<"terminal", m>>
        OBVIOUS
      <4>3. events = <<x>> \o <<y>>
        BY <4>1, <4>2
      <4> QED
        BY <3>1, <4>2, <4>3
    <3>3. \A i : i \in 1..2 <=> i = 1 \/ i = 2
      OBVIOUS
    <3> HIDE DEF events
    <3> QED
      BY <2>2, <3>2, <3>3
  <2> QED
    BY <2>1, <2>2
<1> HIDE DEF before, after, rec, told, events, target
<1>9. /\ DOMAIN mission' = Missions /\ mission'[m] = rec
      /\ \A n \in Missions \ {m} : mission'[n] = mission[n]
      /\ unit' \in [Units -> Status] /\ unit'[target] = after
      /\ \A u \in Units \ {target} : unit'[u] = unit[u]
  BY <1>4, <1>5, <1>6 DEF IInv, PlanInv, TypeOK
<1>10. phase' \in {"fires", "stopped"}
  BY <1>4, <1>8, PublishFacts
<1>11. PlanInv'
  <2>1. \A n \in Missions : mission'[n].status \in {"dormant", "pending", "completed"}
    BY <1>7, <1>9 DEF IInv, PlanInv, TypeOK
  <2> QED
    BY <1>0, <1>9, <1>10, <2>1, SamePlan DEF IInv, PlanInv, TypeOK
<1>12. StatesInv'
  <2>1. ASSUME NEW n \in Missions
        PROVE  \/ mission'[n] = Open("pending")
               \/ /\ mission'[n].status = "completed"
                  /\ \A g \in Batteries(n) : battery[n][g].status \in Decided
    BY <1>1, <1>7, <1>9 DEF IInv, StatesInv
  <2> QED
    BY <1>0, <1>1, <2>1, SamePlan DEF IInv, StatesInv
<1>13. TimeInv'
  <2>1. \A n \in Missions : mission'[n].status = "pending" => mission[n].status = "pending"
    BY <1>7, <1>9
  <2> QED
    BY <1>0, <1>10, <2>1, SamePlan DEF IInv, TimeInv, OnTime
<1>14. RecordInv'
  <2> SUFFICES ASSUME NEW n \in Missions, NEW h \in Batteries(n)
      PROVE  /\ (battery[n][h].status \in Decided => AcceptableBattery(n, h))'
             /\ (battery[n][h].reason \notin {"insufficient_ammunition", "weapon_cooldown"})'
    BY <1>0, SamePlan DEF RecordInv
  <2>1. /\ battery[n][h].status \in Decided => AcceptableBattery(n, h)
        /\ battery[n][h].reason \notin {"insufficient_ammunition", "weapon_cooldown"}
    BY DEF IInv, RecordInv
  <2>2. AcceptableBattery(n, h)' <=> AcceptableBattery(n, h)
    <3>1. PICK b : b = battery[n][h]
      OBVIOUS
    <3>2. FireTime(n, h)' = FireTime(n, h)
      BY <1>0, SamePlan
    <3>3. /\ Rejection(n, h, b.by, b.pre, b.before)' = Rejection(n, h, b.by, b.pre, b.before)
          /\ Spent(n, h, b.before)' = Spent(n, h, b.before)
      BY <1>0, SamePlan DEF Rejection, Spent, Ready
    <3> QED
      BY <1>0, <3>1, <3>2, <3>3 DEF AcceptableBattery, Pristine
  <2> QED
    BY <1>0, <2>1, <2>2
<1>15. ResultInv'
  <2> SUFFICES ASSUME NEW n \in Missions, mission'[n].status = "completed"
      PROVE  AcceptableMission(n)'
    BY DEF ResultInv
  <2>0. /\ Outcome(n)' = Outcome(n) /\ Batteries(n)' = Batteries(n)
        /\ \A x : Effects(n, x)' = Effects(n, x)
    BY <1>0, SameRecords, SamePlan DEF Effects
  <2>1. CASE n = m
    <3>1. PICK x, y, e : x = before /\ y = after /\ e = effect
      OBVIOUS
    <3>2. /\ mission'[n].status = "completed" /\ mission'[n].outcome = Outcome(n)'
          /\ mission'[n].effect = e /\ mission'[n].before = x /\ mission'[n].after = y
          /\ unit'[TargetOf[n]] = y
      BY <1>7, <1>9, <2>0, <2>1, <3>1 DEF target
    <3>3. e \in Effects(n, x)' /\ y = StatusAfter(x, e)
      BY <2>0, <2>1, <3>1 DEF after
    <3>4. /\ enabled' /\ plan'[n].impact <= now'
          /\ \A g \in Batteries(n)' : battery'[n][g].status \in {"fired", "rejected"}
      BY <1>0, <1>1, <2>0, <2>1 DEF Decided
    <3> QED
      BY <3>2, <3>3, <3>4 DEF AcceptableMission
  <2>2. CASE n # m
    <3>1. mission'[n] = mission[n] /\ AcceptableMission(n) /\ mission[n].status = "completed"
      BY <1>9, <2>2 DEF IInv, ResultInv
    <3>2. PICK s : s = mission[n]
      OBVIOUS
    <3>3. /\ enabled /\ plan[n].impact <= now
          /\ \A g \in Batteries(n) : battery[n][g].status \in {"fired", "rejected"}
          /\ s.outcome = Outcome(n) /\ s.effect \in Effects(n, s.before)
          /\ s.after = StatusAfter(s.before, s.effect)
          /\ s.after = "DESTROYED" => unit[TargetOf[n]] = "DESTROYED"
          /\ s.after = "DISABLED" => unit[TargetOf[n]] \in {"DISABLED", "DESTROYED"}
          /\ s.after = "SURRENDERED" => unit[TargetOf[n]] \in {"SURRENDERED", "DESTROYED"}
      BY <3>1, <3>2 DEF AcceptableMission
    <3>4. unit[TargetOf[n]] # "ACTIVE" => unit'[TargetOf[n]] = unit[TargetOf[n]]
      BY <1>6, <1>9 DEF before, Units
    <3> QED
      BY <1>0, <2>0, <3>1, <3>2, <3>3, <3>4 DEF AcceptableMission
  <2> QED
    BY <2>1, <2>2
<1>16. GunsInv'
  <2> SUFFICES ASSUME NEW g \in Guns PROVE HistoryInv(g)' /\ WeaponInv(g)'
    BY DEF GunsInv
  <2>1. HistoryInv(g) /\ WeaponInv(g)
    BY DEF IInv, GunsInv
  <2>2. HistoryInv(g)'
    BY <1>0, <2>1, SameHistory
  <2>3. Reserved(g)' => Reserved(g)
    <3>1. \A n \in Missions : mission'[n].status # "completed" => mission[n].status # "completed"
      BY <1>7, <1>9
    <3>2. FiresOf(g)' = FiresOf(g) /\ FiresOf(g) \subseteq Missions
      BY <1>0, SamePlan DEF FiresOf
    <3> QED
      BY <1>0, <3>1, <3>2 DEF Reserved
  <2>4. /\ Follows(g, Served(g), weapon[g], now)' <=> Follows(g, Served(g), weapon[g], now)
        /\ LeftBy(g, Served(g))' = LeftBy(g, Served(g))
        /\ RoundsOf(Served(g))' = RoundsOf(Served(g)) /\ Served(g)' = Served(g)
        /\ \A n : FireTime(n, g)' = FireTime(n, g)
    BY <1>0, SamePlan, SameRecords
  <2> QED
    BY <1>0, <2>1, <2>2, <2>3, <2>4 DEF WeaponInv
<1>17. Announced'
  <2> SUFFICES ASSUME phase' = "fires" PROVE announced' = Happened'
    BY <1>10 DEF Announced
  <2> DEFINE E == {<<"terminal", m>>} \union (IF after # before THEN {<<"status", m>>} ELSE {})
  <2>1. announced = Happened /\ announced' = announced \union E
    BY <1>0, <1>4, <1>8, PublishFacts DEF IInv, Announced
  <2>2. \A n \in Missions \ {m} : HappenedTo(n)' = HappenedTo(n)
    BY <1>0, <1>9, SameRecords DEF HappenedTo
  <2>3. HappenedTo(m)' = HappenedTo(m) \union E
    <3>1. mission[m].status # "completed" /\ mission[m].before = mission[m].after
      <4>1. /\ Open("pending").status = "pending"
            /\ Open("pending").before = Open("pending").after
        BY DEF Open
      <4> QED
        BY <1>1, <4>1
    <3>2. mission'[m].status = "completed" /\ mission'[m].before = before /\ mission'[m].after = after
      BY <1>7, <1>9
    <3>3. ({"ammo", "fire"} \X {m} \X Fired(m))' = {"ammo", "fire"} \X {m} \X Fired(m)
      BY <1>0, SameRecords
    <3>4. HappenedTo(m) = {"ammo", "fire"} \X {m} \X Fired(m)
      BY <3>1, Zenon DEF HappenedTo
    <3>5. HappenedTo(m)' = ({"ammo", "fire"} \X {m} \X Fired(m))'
            \union {<<"terminal", m>>} \union (IF before # after THEN {<<"status", m>>} ELSE {})
      BY <3>2, Zenon DEF HappenedTo
    <3> QED
      BY <3>3, <3>4, <3>5
  <2> QED
    BY <2>1, <2>2, <2>3, HappenedGrows
<1> QED
  BY <1>11, <1>12, <1>13, <1>14, <1>15, <1>16, <1>17 DEF IInv

-----------------------------------------------------------------------------
(* The invariant and what follows from it.                                 *)

LEMMA NextKeepsInv == IInv /\ [Next]_vars => IInv'
<1> SUFFICES ASSUME IInv, [Next]_vars PROVE IInv'
  OBVIOUS
<1>1. CASE BeginInterval
  BY <1>1, BeginIntervalKeepsInv
<1>2. CASE FiresDone
  BY <1>2, FiresDoneKeepsInv
<1>3. CASE \E m \in Missions : \E g \in Batteries(m) : ProcessScheduledFire(m, g)
  BY <1>3, ProcessScheduledFireKeepsInv
<1>4. CASE \E m \in Missions : CompleteScheduledMission(m)
  BY <1>4, CompleteScheduledMissionKeepsInv
<1>5. CASE \E g \in Guns : ExternalFire(g)
  BY <1>5, ExternalFireKeepsInv
<1>6. CASE \E u \in Units : Damage(u) \/ Morale(u)
  BY <1>6, UnitStepKeepsInv
<1>7. CASE UNCHANGED vars
  <2>0. /\ now \in Nat /\ now' = now /\ phase' = phase
        /\ UNCHANGED <<plan, enabled, degraded, battery, mission, weapon, unit, announced, changes>>
    BY <1>7, ConstantsAssumption DEF IInv, PlanInv, TypeOK, vars, config
  <2>1. /\ StatesInv' /\ RecordInv' /\ ResultInv' /\ Resolves' /\ Happened' = Happened
        /\ \A g \in Guns : HistoryInv(g)'
    BY <2>0, RecordsKept
  <2>2. PlanInv'
    BY <2>0, <2>1, SamePlan DEF IInv, PlanInv, TypeOK
  <2>3. TimeInv'
    BY <2>0, SamePlan DEF IInv, TimeInv, OnTime
  <2>4. GunsInv'
    BY <2>0, <2>1, WeaponKept DEF GunsInv
  <2>5. Announced'
    BY <2>0, <2>1 DEF IInv, Announced
  <2> QED
    BY <2>1, <2>2, <2>3, <2>4, <2>5 DEF IInv
<1> QED
  BY <1>1, <1>2, <1>3, <1>4, <1>5, <1>6, <1>7 DEF Next

\* Every reachable state satisfies the inductive invariant: types, the order
\* of mission states, deadlines, records and the history of every weapon.
THEOREM FireInvariant == Spec => []IInv
<1> QED
  BY InitEstablishesInv, NextKeepsInv, PTL DEF Spec

\* What the resolver accepts can be carried out: no battery is ever rejected
\* for rounds or cooldown (_validate_aggregate_ammunition,
\* _validate_aggregate_cooldowns, is_attachment_reserved).
THEOREM FiresAreNeverOverbooked == Spec => []NeverOverbooked
<1>1. IInv => NeverOverbooked
  BY DEF IInv, RecordInv, NeverOverbooked
<1> QED
  BY <1>1, FireInvariant, PTL

\* While the run goes on, observers have received exactly what happened
\* (_publish_committed).
THEOREM FiresAreAnnounced == Spec => []Announced
<1>1. IInv => Announced
  BY DEF IInv
<1> QED
  BY <1>1, FireInvariant, PTL

\* In an interval's battles, what stage_state would check of a checkpoint holds.
LEMMA BattleStateIsAcceptable ==
  ASSUME IInv, phase = "battle"
  PROVE  Acceptable
<1>0. now \in Nat
  BY ConstantsAssumption DEF IInv, PlanInv, TypeOK
<1>1. /\ Open("pending").status = "pending" /\ Open("dormant").status = "dormant"
      /\ Pristine("pending").status = "pending" /\ Pristine("dormant").status = "dormant"
  BY DEF Open, Pristine
<1>2. ASSUME NEW m \in Missions PROVE AcceptableMission(m)
  <2>1. CASE ~enabled
    <3>1. mission[m] = Open("dormant")
      BY <2>1 DEF IInv, StatesInv
    <3> QED
      BY <1>1, <2>1, <3>1 DEF AcceptableMission
  <2>2. CASE enabled /\ mission[m].status = "completed"
    BY <2>2 DEF IInv, ResultInv
  <2>3. CASE enabled /\ mission[m] = Open("pending")
    <3>1. now < plan[m].impact /\ plan[m].impact \in Nat
      BY <1>1, <2>3, PlanFacts DEF IInv, TimeInv, OnTime
    <3>2. plan[m].impact > now
      BY <1>0, <3>1
    <3> QED
      BY <1>1, <2>3, <3>2 DEF AcceptableMission
  <2> QED
    BY <2>1, <2>2, <2>3 DEF IInv, StatesInv
<1>3. ASSUME NEW m \in Missions, NEW g \in Batteries(m) PROVE AcceptableBattery(m, g)
  <2>1. CASE ~enabled
    <3>1. battery[m][g] = Pristine("dormant")
      BY <2>1 DEF IInv, StatesInv
    <3> QED
      BY <1>1, <2>1, <3>1 DEF AcceptableBattery
  <2>2. CASE enabled /\ battery[m][g].status \in Decided
    BY <2>2 DEF IInv, RecordInv
  <2>3. CASE enabled /\ battery[m][g] = Pristine("pending")
    <3>1. now < FireTime(m, g) /\ FireTime(m, g) \in Nat
      BY <1>1, <2>3, PlanFacts DEF IInv, TimeInv, OnTime
    <3>2. FireTime(m, g) > now
      BY <1>0, <3>1
    <3> QED
      BY <1>1, <2>3, <3>2 DEF AcceptableBattery
  <2> QED
    BY <2>1, <2>2, <2>3 DEF IInv, StatesInv
<1>4. ASSUME NEW g \in Guns PROVE AcceptableHistory(g)
  BY DEF IInv, GunsInv, HistoryInv, WeaponInv, AcceptableHistory
<1> QED
  BY <1>2, <1>3, <1>4 DEF Acceptable

\* Every checkpoint that is written between two intervals is accepted when it
\* is restored, for any plan the resolver accepts (get_state against
\* stage_state).
THEOREM FiresRestorable == Spec => []Restorable
<1>1. IInv => Restorable
  BY BattleStateIsAcceptable DEF IInv, PlanInv, Restorable
<1> QED
  BY <1>1, FireInvariant, PTL

-----------------------------------------------------------------------------
(* The missions keep the schedule.                                         *)

\* Milestones depend on the plan and on what is pending.
LEMMA SameMilestones ==
  ASSUME UNCHANGED <<plan, battery, mission>>
  PROVE  OpenMilestones' = OpenMilestones
BY DEF OpenMilestones, Fire, Impact, FireTime, Batteries

\* In every state, milestones are on time.
LEMMA MilestonesOnTime ==
  ASSUME IInv, NEW e \in OpenMilestones
  PROVE  OnTime(e.at) /\ e.at \in Nat
<1>1. PICK m \in Missions :
        /\ mission[m].status = "pending"
        /\ \/ e = Impact(m)
           \/ \E g \in Batteries(m) : battery[m][g].status = "pending" /\ e = Fire(m, g)
  BY MilestoneFacts
<1>2. CASE e = Impact(m)
  BY <1>1, <1>2, PlanFacts DEF IInv, TimeInv, Impact
<1>3. CASE \E g \in Batteries(m) : battery[m][g].status = "pending" /\ e = Fire(m, g)
  BY <1>3, PlanFacts DEF IInv, TimeInv, Fire
<1> QED
  BY <1>1, <1>2, <1>3

\* A battery's fire is served at its time, and nothing else is.
LEMMA FireIsServed ==
  ASSUME IInv, NEW m \in Missions, NEW g \in Batteries(m), ProcessScheduledFire(m, g)
  PROVE  Schedule!Serve(Fire(m, g)) /\ Fire(m, g) \in OpenMilestones
<1>0. phase = "fires" /\ IsNext(Fire(m, g)) /\ UNCHANGED <<plan, enabled, now, mission>>
  BY DEF ProcessScheduledFire, config
<1>1. /\ mission[m].status = "pending" /\ battery[m][g].status = "pending"
      /\ FireTime(m, g) = now /\ Fire(m, g).at = now /\ Fire(m, g).kind = "fire"
  BY <1>0, FireFacts DEF Fire
<1>2. PICK r : r.status \in Decided /\ battery' = [battery EXCEPT ![m][g] = r]
  <2>1. PICK pre \in Mishaps \union {"fit"} :
          LET w == weapon[g]
              reason == Rejection(m, g, unit[UnitOf[g]], pre, w)
              after == IF reason # "" THEN w ELSE Spent(m, g, w)
          IN battery' = [battery EXCEPT ![m][g] =
               [status |-> IF reason # "" THEN "rejected" ELSE "fired", at |-> now,
                reason |-> reason, pre |-> pre, by |-> unit[UnitOf[g]],
                before |-> w, after |-> after]]
    BY <1>1 DEF ProcessScheduledFire
  <2> DEFINE w == weapon[g]
             reason == Rejection(m, g, unit[UnitOf[g]], pre, w)
             r == [status |-> IF reason # "" THEN "rejected" ELSE "fired", at |-> now,
                   reason |-> reason, pre |-> pre, by |-> unit[UnitOf[g]],
                   before |-> w, after |-> IF reason # "" THEN w ELSE Spent(m, g, w)]
  <2>2. r.status \in Decided
    BY DEF Decided
  <2>3. battery' = [battery EXCEPT ![m][g] = r]
    BY <2>1, Zenon
  <2> HIDE DEF r
  <2> QED
    BY <2>2, <2>3
<1>3. /\ battery'[m][g].status # "pending"
      /\ \A n \in Missions : \A h \in Batteries(n) :
           n # m \/ h # g => battery'[n][h] = battery[n][h]
  BY <1>2, FireRecorded DEF Decided
<1>4. Fire(m, g) \in OpenMilestones
  BY <1>1, MilestoneFacts
<1>5. OpenMilestones' = OpenMilestones \ {Fire(m, g)}
  <2> DEFINE open(n) == {Fire(n, b) : b \in {c \in Batteries(n) : battery[n][c].status = "pending"}}
             pending == {n \in Missions : mission[n].status = "pending"}
  <2>1. /\ pending' = pending
        /\ \A n : Batteries(n)' = Batteries(n) /\ Impact(n)' = Impact(n)
        /\ \A n, h : Fire(n, h)' = Fire(n, h)
    BY <1>0, SamePlan DEF Impact, Fire
  <2>2. ASSUME NEW n \in Missions \ {m} PROVE open(n)' = open(n)
    BY <1>3, <2>1
  <2>3. open(m)' = open(m) \ {Fire(m, g)}
    <3>1. \A h : Fire(m, h) = Fire(m, g) => h = g
      BY DEF Fire
    <3> QED
      BY <1>3, <2>1, <3>1
  <2>4. /\ \A n \in Missions \ {m} : Fire(m, g) \notin open(n)
        /\ \A n \in Missions : Fire(m, g) # Impact(n)
    BY DEF Fire, Impact
  <2>5. /\ OpenMilestones = UNION {open(n) \union {Impact(n)} : n \in pending}
        /\ OpenMilestones' = UNION {open(n)' \union {Impact(n)} : n \in pending}
    BY <2>1, Zenon DEF OpenMilestones
  <2> HIDE DEF open
  <2> QED
    BY <2>2, <2>3, <2>4, <2>5
<1> QED
  BY <1>0, <1>1, <1>4, <1>5 DEF Schedule!Serve

\* And so is an impact, after all fires of its time.
LEMMA ImpactIsServed ==
  ASSUME IInv, NEW m \in Missions, CompleteScheduledMission(m)
  PROVE  Schedule!Serve(Impact(m)) /\ Impact(m) \in OpenMilestones
<1>0. phase = "fires" /\ IsNext(Impact(m)) /\ UNCHANGED <<plan, enabled, now, battery>>
  BY DEF CompleteScheduledMission, config
<1>1. /\ mission[m].status = "pending" /\ plan[m].impact = now /\ Impact(m).at = now
      /\ \A g \in Batteries(m) : battery[m][g].status # "pending"
      /\ \A f \in OpenMilestones : f.kind = "fire" => f.at > now
  <2>1. Open("pending").status = "pending"
    BY DEF Open
  <2> QED
    BY <1>0, <2>1, ImpactFacts DEF Impact, Decided
<1>2. PICK r : r.status = "completed" /\ mission' = [mission EXCEPT ![m] = r]
  BY <1>1 DEF CompleteScheduledMission
<1>3. mission'[m].status # "pending" /\ \A n \in Missions \ {m} : mission'[n] = mission[n]
  BY <1>2 DEF IInv, PlanInv, TypeOK
<1>4. Impact(m) \in OpenMilestones
  BY <1>1, MilestoneFacts
<1>5. OpenMilestones' = OpenMilestones \ {Impact(m)}
  <2> DEFINE open(n) == {Fire(n, b) : b \in {c \in Batteries(n) : battery[n][c].status = "pending"}}
             pending == {n \in Missions : mission[n].status = "pending"}
  <2>1. /\ pending' = pending \ {m} /\ m \in pending
        /\ \A n : open(n)' = open(n) /\ Impact(n)' = Impact(n)
    BY <1>0, <1>1, <1>3, SamePlan DEF Impact, Fire
  <2>2. open(m) = {} /\ \A n \in Missions : Impact(m) \notin open(n)
    BY <1>1 DEF Fire, Impact
  <2>3. \A n \in Missions \ {m} : Impact(n) # Impact(m)
    BY DEF Impact
  <2>4. /\ OpenMilestones = UNION {open(n) \union {Impact(n)} : n \in pending}
        /\ OpenMilestones' = UNION {open(n)' \union {Impact(n)'} : n \in pending'}
    BY Zenon DEF OpenMilestones
  <2>5. pending \subseteq Missions
    OBVIOUS
  <2> HIDE DEF open, pending
  <2> QED
    BY <2>1, <2>2, <2>3, <2>4, <2>5
<1> QED
  BY <1>0, <1>1, <1>4, <1>5 DEF Schedule!Serve

\* At the start every milestone lies ahead, and an impact after each fire.
LEMMA InitIsScheduled == Init => Schedule!Init
<1> SUFFICES ASSUME Init PROVE Schedule!Init
  OBVIOUS
<1>1. IInv /\ now = 0 /\ phase = "battle"
  BY InitEstablishesInv DEF Init
<1>2. ASSUME NEW e \in OpenMilestones PROVE e.at > now
  BY <1>1, <1>2, MilestonesOnTime DEF OnTime
<1>3. ASSUME NEW e \in OpenMilestones, e.kind = "fire"
      PROVE  \E f \in OpenMilestones : f.kind = "impact" /\ f.mission = e.mission /\ e.at < f.at
  <2>1. PICK m \in Missions :
          /\ mission[m].status = "pending"
          /\ \E g \in Batteries(m) : e = Fire(m, g)
    BY <1>3, MilestoneFacts DEF Impact
  <2>2. Impact(m) \in OpenMilestones
    BY <2>1, MilestoneFacts
  <2>3. e.mission = m /\ e.at < plan[m].impact
    BY <1>1, <2>1, PlanFacts DEF IInv, Fire
  <2>4. Impact(m).kind = "impact" /\ Impact(m).mission = m /\ Impact(m).at = plan[m].impact
    BY DEF Impact
  <2> QED
    BY <2>2, <2>3, <2>4
<1> QED
  BY <1>1, <1>2, <1>3 DEF Schedule!Init

\* Every step serves one milestone, lets time pass or leaves both alone.
LEMMA StepKeepsSchedule ==
  ASSUME IInv, IInv', [Next]_vars
  PROVE  [Schedule!Next]_Schedule!vars
<1>1. CASE BeginInterval
  <2>0. /\ now' = now + Cadence /\ phase = "battle" /\ phase' = "fires"
        /\ UNCHANGED <<plan, battery, mission>>
    BY <1>1 DEF BeginInterval, config
  <2>1. OpenMilestones' = OpenMilestones
    BY <2>0, SameMilestones
  <2>2. now \in Nat /\ now' > now
    BY <2>0, ConstantsAssumption DEF IInv, PlanInv, TypeOK
  <2>3. ASSUME NEW e \in OpenMilestones PROVE now < e.at /\ now' <= e.at
    <3>1. now < e.at
      BY <2>0, MilestonesOnTime DEF OnTime
    <3>2. PICK m \in Missions :
            /\ mission[m].status = "pending"
            /\ \/ e = Impact(m)
               \/ \E g \in Batteries(m) : battery[m][g].status = "pending" /\ e = Fire(m, g)
      BY MilestoneFacts
    <3>3. \A g : FireTime(m, g)' = FireTime(m, g) /\ Batteries(m)' = Batteries(m)
      BY <2>0, SamePlan
    <3>4. now' <= plan[m].impact
      BY <2>0, <3>2 DEF IInv, TimeInv, OnTime
    <3>5. \A g \in Batteries(m) : battery[m][g].status = "pending" => now' <= FireTime(m, g)
      BY <2>0, <3>3 DEF IInv, TimeInv, OnTime
    <3> QED
      BY <3>1, <3>2, <3>4, <3>5 DEF Impact, Fire
  <2> QED
    BY <2>1, <2>2, <2>3 DEF Schedule!Next, Schedule!Pass
<1>2. CASE \E m \in Missions : \E g \in Batteries(m) : ProcessScheduledFire(m, g)
  BY <1>2, FireIsServed DEF Schedule!Next
<1>3. CASE \E m \in Missions : CompleteScheduledMission(m)
  BY <1>3, ImpactIsServed DEF Schedule!Next
<1>4. CASE \/ FiresDone
           \/ \E g \in Guns : ExternalFire(g)
           \/ \E u \in Units : Damage(u) \/ Morale(u)
           \/ UNCHANGED vars
  <2>1. UNCHANGED <<plan, battery, mission, now>>
    BY <1>4 DEF FiresDone, ExternalFire, Damage, Morale, vars, config
  <2> QED
    BY <2>1, SameMilestones DEF Schedule!vars
<1> QED
  BY <1>1, <1>2, <1>3, <1>4 DEF Next

\* The missions implement FireSchedule: no boundary steps over a fire or an
\* impact, none is served twice, and a mission takes effect after its fires.
THEOREM MissionsKeepSchedule == Spec => KeepsSchedule
<1> QED
  BY InitIsScheduled, StepKeepsSchedule, FireInvariant, PTL
     DEF Spec, KeepsSchedule, Schedule!Spec
=============================================================================
