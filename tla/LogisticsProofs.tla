-------------------------- MODULE LogisticsProofs --------------------------
(***************************************************************************)
(* Proofs about Logistics.  A checkpoint between two ticks can be restored *)
(* because accounts, boundaries and the clock agree at every step (TimeInv,*)
(* UnitInv), and because the latch of a unit remembers every step that has *)
(* moved it (UnitInv).  That every boundary is one step of SupplyBooks     *)
(* needs what is saved for a rollback (SavedInv), what the depot has given *)
(* so far (ServedInv), and that the latch says who was active, for as long *)
(* as a boundary is served (ActivityInv).                                  *)
(*                                                                         *)
(* The deliveries of a boundary are a recursive function over the units.   *)
(* What it computes for every number of units follows by induction over    *)
(* sets of numbers, from the least number principle.                       *)
(***************************************************************************)
EXTENDS Logistics, WellFoundedInduction, TLAPS

InTick == {"quantum", "resupply", "debit", "commit"}

TimeInv ==
  /\ boundary % Interval = 0 /\ boundary + accumulator <= elapsed
  /\ pc # "update" => boundary + accumulator = elapsed
  /\ pc \in {"idle", "work"} => accumulator < Interval
  /\ pc \in InTick => accumulator >= Interval

UnitInv ==
  \A u \in Registered :
    /\ eligible[u] <= elapsed
    /\ accounted[u] = Larger(boundary, eligible[u])
    /\ ~latch[u] => at[u] = pos[u]

\* Units whose interval counts as active.
Latched == {u \in Registered : latch[u]}

ActivityInv ==
  /\ pc = "idle" => stirred = Latched \union out
  /\ pc = "update" => stirred \union out = Latched \union out
  /\ pc \notin {"idle", "update"} => stirred = Latched
  /\ pc \in InTick => out \union fighting \subseteq Latched
  /\ pc = "publish" /\ accumulator >= Interval => out \union fighting \subseteq Latched

SavedInv ==
  Serving =>
    /\ before.at = at /\ before.accounted = accounted
    /\ before.depot \in 0..Stock
    /\ before.carried \in [Registered -> 0..Maximum]
    /\ before.condition \in [Registered -> 0..Full]
    /\ pc = "resupply" => depot = before.depot /\ carried = before.carried

\* The depot and the roads have given this to the units since the boundary began.
Given(give) ==
  /\ give \in [Registered -> 0..Maximum]
  /\ depot = before.depot - Books!Total(give)
  /\ Books!Total(give) <= Throughput * Interval
  /\ \A u \in Registered :
       /\ give[u] <= Throughput * Seconds(u)
       /\ before.carried[u] + give[u] <= Maximum

ServedInv ==
  /\ pc = "debit" => \E give \in [Registered -> 0..Maximum] :
       /\ Given(give)
       /\ carried = [u \in Registered |-> before.carried[u] + give[u]]
  /\ pc = "commit" => \E give \in [Registered -> 0..Maximum] :
       /\ Given(give)
       /\ carried = [u \in Registered |->
            LET stock == before.carried[u] + give[u]
            IN IF latch[u] THEN stock ELSE Larger(0, stock - IdleRate * Seconds(u))]

IInv == TypeOK /\ TimeInv /\ UnitInv /\ ActivityInv /\ SavedInv /\ ServedInv

-----------------------------------------------------------------------------
(* Induction and recursion over numbers of units.                          *)

LEMMA Induction ==
  ASSUME NEW S, 0 \in S, \A n \in Nat : n \in S => n + 1 \in S
  PROVE  Nat \subseteq S
<1>1. SUFFICES ASSUME Nat \ S # {} PROVE FALSE
  OBVIOUS
<1>2. PICK x \in Nat \ S : \A y \in Nat \ S : <<y, x>> \notin OpToRel(<, Nat)
  <2>1. IsWellFoundedOn(OpToRel(<, Nat), Nat)
    BY NatLessThanWellFounded
  <2> QED
    BY <1>1, <2>1, WFMin
<1>3. x # 0 /\ x - 1 \in Nat /\ x - 1 < x /\ x = (x - 1) + 1
  OBVIOUS
<1>4. \A y \in Nat : y < x => <<y, x>> \in OpToRel(<, Nat)
  BY Zenon DEF OpToRel
<1>5. x - 1 \in S
  BY <1>2, <1>3, <1>4, Zenon
<1> QED
  BY <1>3, <1>5

\* A function that is defined from one number to the next exists.
HasSolution(V, n, a, F) ==
  \E f \in [0..n -> V] : f[0] = a /\ \A i \in 1..n : f[i] = F[<<i, f[i - 1]>>]

LEMMA Recursion ==
  ASSUME NEW V, NEW n \in Nat, NEW a \in V, NEW F \in [(1..n) \X V -> V]
  PROVE  HasSolution(V, n, a, F)
<1> DEFINE Good(m, f) == /\ f \in [0..m -> V]
                         /\ f[0] = a
                         /\ \A i \in 1..m : f[i] = F[<<i, f[i - 1]>>]
           S == {m \in Nat : m <= n => \E f : Good(m, f)}
<1>1. 0 \in S
  <2>1. Good(0, [i \in 0..0 |-> a])
    OBVIOUS
  <2> QED
    BY <2>1
<1>2. \A m \in Nat : m \in S => m + 1 \in S
  <2> SUFFICES ASSUME NEW m \in Nat, m \in S, m + 1 <= n PROVE \E f : Good(m + 1, f)
    OBVIOUS
  <2>1. PICK f : Good(m, f)
    OBVIOUS
  <2> DEFINE g == [i \in 0..(m + 1) |-> IF i <= m THEN f[i] ELSE F[<<m + 1, f[m]>>]]
  <2>2. f[m] \in V /\ m + 1 \in 1..n
    BY <2>1
  <2>3. F[<<m + 1, f[m]>>] \in V
    BY <2>2
  <2>4. g \in [0..(m + 1) -> V]
    BY <2>1, <2>3
  <2>5. g[0] = a
    BY <2>1
  <2>6. ASSUME NEW i \in 1..(m + 1) PROVE g[i] = F[<<i, g[i - 1]>>]
    <3>1. i - 1 \in 0..m /\ g[i - 1] = f[i - 1]
      BY <2>6
    <3>2. CASE i <= m
      <4>1. g[i] = f[i] /\ i \in 1..m
        BY <3>2
      <4>2. f[i] = F[<<i, f[i - 1]>>]
        BY <2>1, <4>1
      <4> HIDE DEF g
      <4> QED
        BY <3>1, <4>1, <4>2
    <3>3. CASE ~(i <= m)
      <4>1. i = m + 1 /\ i - 1 = m
        BY <3>3
      <4>2. g[i] = F[<<m + 1, f[m]>>]
        BY <3>3
      <4> HIDE DEF g
      <4> QED
        BY <3>1, <4>1, <4>2
    <3> QED
      BY <3>2, <3>3
  <2>7. Good(m + 1, g)
    BY <2>4, <2>5, <2>6
  <2> QED
    BY <2>7
<1> HIDE DEF S
<1>3. n \in S
  BY <1>1, <1>2, Induction
<1>4. \E f : Good(n, f)
  BY <1>3 DEF S
<1> QED
  BY <1>4 DEF HasSolution

\* What is given to the first units is a sum.
LEMMA UpToFacts ==
  ASSUME LastUnit \in Nat, NEW give, DOMAIN give \subseteq Units,
         \A u \in DOMAIN give : give[u] \in Nat
  PROVE  /\ Books!UpTo(give) \in [0..LastUnit -> Nat]
         /\ Books!UpTo(give)[0] = 0
         /\ \A u \in 1..LastUnit :
              Books!UpTo(give)[u] = Books!UpTo(give)[u - 1]
                                      + (IF u \in DOMAIN give THEN give[u] ELSE 0)
<1> DEFINE F == [p \in (1..LastUnit) \X Nat |->
                  p[2] + (IF p[1] \in DOMAIN give THEN give[p[1]] ELSE 0)]
<1>1. F \in [(1..LastUnit) \X Nat -> Nat]
  OBVIOUS
<1>2. \A i \in 1..LastUnit, v \in Nat :
        F[<<i, v>>] = v + (IF i \in DOMAIN give THEN give[i] ELSE 0)
  OBVIOUS
<1> HIDE DEF F
<1>3. PICK f \in [0..LastUnit -> Nat] :
        f[0] = 0 /\ \A i \in 1..LastUnit : f[i] = F[<<i, f[i - 1]>>]
  <2>1. HasSolution(Nat, LastUnit, 0, F)
    BY <1>1, Recursion
  <2> QED
    BY <2>1 DEF HasSolution
<1> DEFINE Sum(g, n) == IF n = 0 THEN 0
                        ELSE g[n - 1] + (IF n \in DOMAIN give THEN give[n] ELSE 0)
<1>5. f = [n \in 0..LastUnit |-> Sum(f, n)]
  <2>1. ASSUME NEW n \in 0..LastUnit PROVE f[n] = Sum(f, n)
    <3>2. CASE n = 0
      BY <1>3, <3>2
    <3>3. CASE n # 0
      <4>1. n \in 1..LastUnit /\ n - 1 \in 0..LastUnit /\ f[n - 1] \in Nat
        BY <3>3
      <4>2. f[n] = F[<<n, f[n - 1]>>]
        BY <1>3, <4>1
      <4> QED
        BY <1>2, <3>3, <4>1, <4>2
    <3> QED
      BY <3>2, <3>3
  <2> HIDE DEF Sum
  <2> QED
    BY <2>1
<1> DEFINE g == Books!UpTo(give)
<1>6. g = [n \in 0..LastUnit |-> Sum(g, n)]
  BY <1>5, Zenon DEF Books!UpTo
<1> HIDE DEF g
<1> HIDE DEF Sum
<1>61. DOMAIN g = 0..LastUnit /\ \A n \in 0..LastUnit : g[n] = Sum(g, n)
  BY <1>6, Zenon
<1>62. 0 \in 0..LastUnit /\ \A u \in 1..LastUnit : u \in 0..LastUnit /\ u # 0
  OBVIOUS
<1>7. /\ DOMAIN g = 0..LastUnit /\ g[0] = 0
      /\ \A u \in 1..LastUnit :
           g[u] = g[u - 1] + (IF u \in DOMAIN give THEN give[u] ELSE 0)
  BY <1>61, <1>62, Zenon DEF Sum
<1> DEFINE S == {n \in Nat : n <= LastUnit => g[n] \in Nat}
<1>8. \A n \in Nat : n \in S => n + 1 \in S
  <2> SUFFICES ASSUME NEW n \in Nat, n <= LastUnit => g[n] \in Nat, n + 1 <= LastUnit
               PROVE  g[n + 1] \in Nat
    OBVIOUS
  <2>1. n + 1 \in 1..LastUnit /\ (n + 1) - 1 = n /\ g[n] \in Nat
    OBVIOUS
  <2>2. g[n + 1] = g[n] + (IF n + 1 \in DOMAIN give THEN give[n + 1] ELSE 0)
    BY <1>7, <2>1
  <2> QED
    BY <2>1, <2>2
<1>9. 0 \in S
  BY <1>7
<1> HIDE DEF S
<1>10. Nat \subseteq S
  BY <1>8, <1>9, Induction
<1>11. \A n \in 0..LastUnit : g[n] \in Nat
  BY <1>10 DEF S
<1>12. g \in [0..LastUnit -> Nat]
  <2>1. g = [n \in 0..LastUnit |-> g[n]]
    BY <1>6
  <2> QED
    BY <1>11, <2>1
<1> QED
  BY <1>7, <1>12 DEF g

-----------------------------------------------------------------------------
(* Deliveries.                                                             *)

LEMMA Rates ==
  /\ LastUnit \in Nat /\ Interval \in Nat /\ Interval > 0
  /\ \A dt \in Durations : dt \in Nat /\ dt > 0
  /\ Initial \in Nat /\ Maximum \in Nat /\ Initial <= Maximum /\ IdleRate \in Nat
  /\ Stock \in Nat /\ Throughput \in Nat /\ RoadCapacity \in Nat /\ RoadWear \in Nat
  /\ Full \in Nat /\ MaxTime \in Nat
BY SetsAssumption, RatesAssumption

LEMMA Products == \A m, n \in Nat : m * n \in Nat
OBVIOUS

LEMMA SecondsType ==
  ASSUME TypeOK, NEW u \in Registered
  PROVE  Seconds(u) \in Nat
<1>1. boundary \in Nat /\ accounted[u] \in Nat /\ eligible[u] \in Nat /\ Interval \in Nat
  BY Rates DEF TypeOK
<1> QED
  BY <1>1 DEF Seconds, Boundary, Larger

StocksType == [depot : 0..Stock, issue : Nat, carried : [Registered -> 0..Maximum]]

\* A delivery takes from the depot what it gives to the unit, within its limits.
LEMMA DeliverFacts ==
  ASSUME TypeOK, NEW s \in StocksType, NEW u \in Units
  PROVE  /\ Deliver(s, u) \in StocksType
         /\ \E q \in Nat :
              /\ u \notin Registered => q = 0
              /\ u \in Registered =>
                   q <= Throughput * Seconds(u) /\ s.carried[u] + q <= Maximum
              /\ Deliver(s, u).depot = s.depot - q
              /\ Deliver(s, u).issue = s.issue - q
              /\ Deliver(s, u).carried =
                   [v \in Registered |-> IF v = u THEN s.carried[v] + q ELSE s.carried[v]]
<1> DEFINE q == IF u \notin Registered \/ u \in out THEN 0
                ELSE Smaller(Smaller(Larger(0, Maximum - s.carried[u]), s.depot),
                       Smaller(Smaller(s.issue, Throughput * Seconds(u)),
                               RoadCapacity * condition[u] * Seconds(u)))
           r == IF q = 0 THEN s
                ELSE [depot |-> s.depot - q, issue |-> s.issue - q,
                      carried |-> [s.carried EXCEPT ![u] = @ + q]]
<1>1. /\ s = [depot |-> s.depot, issue |-> s.issue, carried |-> s.carried]
      /\ s.depot \in 0..Stock /\ s.issue \in Nat /\ s.carried \in [Registered -> 0..Maximum]
  BY DEF StocksType
<1>2. Deliver(s, u) = r
  BY Zenon DEF Deliver
<1>3. /\ q \in Nat /\ q <= s.depot /\ q <= s.issue
      /\ u \notin Registered => q = 0
      /\ u \in Registered => q <= Throughput * Seconds(u) /\ s.carried[u] + q <= Maximum
  <2>1. CASE u \notin Registered
    BY <1>1, <2>1, Rates
  <2>2. CASE u \in Registered
    <3>1. s.carried[u] \in Nat /\ s.carried[u] <= Maximum /\ condition[u] \in Nat
      BY <1>1, <2>2, Rates DEF TypeOK
    <3>2. Throughput * Seconds(u) \in Nat /\ RoadCapacity * condition[u] * Seconds(u) \in Nat
      BY <2>2, <3>1, SecondsType, Products, Rates
    <3>3. ASSUME NEW a \in Nat, NEW b \in Nat, NEW c \in Nat, c <= Maximum
          PROVE LET m == Smaller(Smaller(Larger(0, Maximum - c), s.depot),
                                 Smaller(Smaller(s.issue, a), b))
                IN m \in Nat /\ m <= s.depot /\ m <= s.issue /\ m <= a /\ c + m <= Maximum
      BY <1>1, <3>3, Rates DEF Smaller, Larger
    <3> HIDE DEF q
    <3>4. CASE u \in out
      <4>1. q = 0
        BY <3>4 DEF q
      <4> QED
        BY <1>1, <2>2, <3>1, <3>2, <4>1, Rates
    <3>5. CASE u \notin out
      <4>1. q = Smaller(Smaller(Larger(0, Maximum - s.carried[u]), s.depot),
                  Smaller(Smaller(s.issue, Throughput * Seconds(u)),
                          RoadCapacity * condition[u] * Seconds(u)))
        BY <2>2, <3>5 DEF q
      <4> QED
        BY <2>2, <3>1, <3>2, <3>3, <4>1, Zenon
    <3> QED
      BY <3>4, <3>5
  <2> QED
    BY <2>1, <2>2
<1> HIDE DEF q
<1>4. /\ r.depot = s.depot - q /\ r.issue = s.issue - q
      /\ r = [depot |-> r.depot, issue |-> r.issue, carried |-> r.carried]
  BY <1>1, <1>3
<1>5. r.carried = [v \in Registered |-> IF v = u THEN s.carried[v] + q ELSE s.carried[v]]
  <2>1. CASE q = 0
    BY <1>1, <2>1, Rates
  <2>2. CASE q # 0
    BY <1>1, <1>3, <2>2
  <2> QED
    BY <2>1, <2>2
<1> HIDE DEF r
<1>6. r.carried \in [Registered -> 0..Maximum]
  BY <1>1, <1>3, <1>5, Rates
<1>7. r.depot \in 0..Stock /\ r.issue \in Nat
  BY <1>1, <1>3, <1>4, Rates
<1>8. r \in StocksType
  BY <1>4, <1>6, <1>7 DEF StocksType
<1> QED
  BY <1>2, <1>3, <1>4, <1>5, <1>8

\* The stocks after each unit exist, whatever the number of units.
LEMMA DeliveredFacts ==
  ASSUME TypeOK
  PROVE  /\ Delivered \in [0..LastUnit -> StocksType]
         /\ Delivered[0] = Stocks
         /\ \A u \in 1..LastUnit : Delivered[u] = Deliver(Delivered[u - 1], u)
<1>1. Stocks \in StocksType
  BY Products, Rates DEF Stocks, StocksType, TypeOK
<1> DEFINE F == [p \in (1..LastUnit) \X StocksType |-> Deliver(p[2], p[1])]
<1>2. /\ F \in [(1..LastUnit) \X StocksType -> StocksType]
      /\ \A i \in 1..LastUnit, s \in StocksType : F[<<i, s>>] = Deliver(s, i)
  BY DeliverFacts DEF Units
<1> HIDE DEF F
<1>3. PICK f \in [0..LastUnit -> StocksType] :
        f[0] = Stocks /\ \A i \in 1..LastUnit : f[i] = F[<<i, f[i - 1]>>]
  <2>1. HasSolution(StocksType, LastUnit, Stocks, F)
    BY <1>1, <1>2, Rates, Recursion
  <2> QED
    BY <2>1 DEF HasSolution
<1> DEFINE After(g, n) == IF n = 0 THEN Stocks ELSE Deliver(g[n - 1], n)
<1>4. f = [u \in 0..LastUnit |-> After(f, u)]
  <2>1. ASSUME NEW n \in 0..LastUnit PROVE f[n] = After(f, n)
    <3>1. CASE n = 0
      BY <1>3, <3>1
    <3>2. CASE n # 0
      <4>1. n \in 1..LastUnit /\ n - 1 \in 0..LastUnit /\ f[n - 1] \in StocksType
        BY <3>2, Rates
      <4>2. f[n] = F[<<n, f[n - 1]>>]
        BY <1>3, <4>1
      <4> QED
        BY <1>2, <3>2, <4>1, <4>2
    <3> QED
      BY <3>1, <3>2
  <2> HIDE DEF After
  <2> QED
    BY <2>1
<1>5. Delivered = [u \in 0..LastUnit |-> After(Delivered, u)]
  BY <1>4, Zenon DEF Delivered
<1> DEFINE g == Delivered
<1> HIDE DEF g, After
<1>6. DOMAIN g = 0..LastUnit /\ \A n \in 0..LastUnit : g[n] = After(g, n)
  BY <1>5, Zenon DEF g
<1>7. 0 \in 0..LastUnit /\ \A u \in 1..LastUnit : u \in 0..LastUnit /\ u # 0
  BY Rates
<1>8. g[0] = Stocks /\ \A u \in 1..LastUnit : g[u] = Deliver(g[u - 1], u)
  BY <1>6, <1>7, Zenon DEF After
<1> DEFINE S == {n \in Nat : n <= LastUnit => g[n] \in StocksType}
<1>9. \A n \in Nat : n \in S => n + 1 \in S
  <2> SUFFICES ASSUME NEW n \in Nat, n <= LastUnit => g[n] \in StocksType, n + 1 <= LastUnit
               PROVE  g[n + 1] \in StocksType
    OBVIOUS
  <2>1. n + 1 \in Units /\ (n + 1) - 1 = n /\ g[n] \in StocksType
    BY Rates DEF Units
  <2>2. g[n + 1] = Deliver(g[n], n + 1)
    BY <1>8, <2>1 DEF Units
  <2> QED
    BY <2>1, <2>2, DeliverFacts
<1>10. 0 \in S
  BY <1>1, <1>8
<1> HIDE DEF S
<1>11. Nat \subseteq S
  BY <1>9, <1>10, Induction
<1>12. \A n \in 0..LastUnit : g[n] \in StocksType
  BY <1>11, Rates DEF S
<1>13. g \in [0..LastUnit -> StocksType]
  <2>1. g = [n \in 0..LastUnit |-> g[n]]
    BY <1>5, <1>6 DEF g
  <2> QED
    BY <1>12, <2>1
<1> QED
  BY <1>8, <1>13 DEF g

\* All deliveries of a boundary together: nothing is lost between the depot and
\* the units, and no limit is exceeded, for every number of units.
LEMMA ResupplyServes ==
  ASSUME TypeOK, SavedInv, Resupply
  PROVE  /\ depot' \in 0..Stock /\ carried' \in [Registered -> 0..Maximum]
         /\ \E give \in [Registered -> 0..Maximum] :
              /\ depot' = before.depot - Books!Total(give)
              /\ Books!Total(give) <= Throughput * Interval
              /\ \A u \in Registered :
                   /\ give[u] <= Throughput * Seconds(u)
                   /\ before.carried[u] + give[u] <= Maximum
              /\ carried' = [u \in Registered |-> before.carried[u] + give[u]]
<1> DEFINE after == Delivered
           last == after[LastUnit]
           give == [u \in Registered |-> after[u].carried[u] - carried[u]]
           sum == Books!UpTo(give)
<1>1. /\ depot' = last.depot /\ carried' = last.carried
      /\ depot = before.depot /\ carried = before.carried
  BY DEF Resupply, SavedInv, Serving
<1>2. /\ after \in [0..LastUnit -> StocksType] /\ after[0] = Stocks
      /\ \A u \in 1..LastUnit : after[u] = Deliver(after[u - 1], u)
  BY DeliveredFacts
<1> HIDE DEF after
<1>3. /\ Registered \subseteq Units /\ Units = 1..LastUnit /\ LastUnit \in Nat
      /\ depot \in 0..Stock /\ carried \in [Registered -> 0..Maximum] /\ Throughput * Interval \in Nat
      /\ Maximum \in Nat /\ Stock \in Nat
  BY Rates, Products DEF TypeOK, Units
<1>4. \A u \in 0..LastUnit : /\ after[u].depot \in Int /\ after[u].issue \in Nat
                              /\ after[u].carried \in [Registered -> 0..Maximum]
  <2>1. \A s \in StocksType : /\ s.depot \in Int /\ s.issue \in Nat
                              /\ s.carried \in [Registered -> 0..Maximum]
    BY <1>3 DEF StocksType
  <2> QED
    BY <1>2, <2>1
<1>5. ASSUME NEW u \in 1..LastUnit
      PROVE  \E q \in Nat :
               /\ u \notin Registered => q = 0
               /\ u \in Registered => q <= Throughput * Seconds(u)
                                      /\ after[u - 1].carried[u] + q <= Maximum
               /\ after[u].depot = after[u - 1].depot - q
               /\ after[u].issue = after[u - 1].issue - q
               /\ after[u].carried = [v \in Registered |->
                    IF v = u THEN after[u - 1].carried[v] + q ELSE after[u - 1].carried[v]]
  <2> DEFINE s == after[u - 1]
  <2>1. u \in Units /\ u - 1 \in 0..LastUnit /\ s \in StocksType
    BY <1>2, <1>3
  <2>2. after[u] = Deliver(s, u)
    BY <1>2
  <2> HIDE DEF s
  <2>3. PICK q \in Nat :
              /\ u \notin Registered => q = 0
              /\ u \in Registered =>
                   q <= Throughput * Seconds(u) /\ s.carried[u] + q <= Maximum
              /\ Deliver(s, u).depot = s.depot - q
              /\ Deliver(s, u).issue = s.issue - q
              /\ Deliver(s, u).carried =
                   [v \in Registered |-> IF v = u THEN s.carried[v] + q ELSE s.carried[v]]
    BY <2>1, DeliverFacts
  <2> QED
    BY <2>2, <2>3, Zenon DEF s
<1> DEFINE Carries(n) == \A v \in Registered :
             after[n].carried[v] = IF v <= n THEN after[v].carried[v] ELSE carried[v]
           S == {n \in Nat : n <= LastUnit => Carries(n)}
<1>6. 0 \in S
  BY <1>2, <1>3 DEF Stocks
<1>7. \A n \in Nat : n \in S => n + 1 \in S
  <2> SUFFICES ASSUME NEW n \in Nat, n \in S, n + 1 <= LastUnit, NEW v \in Registered
               PROVE  after[n + 1].carried[v] =
                        IF v <= n + 1 THEN after[v].carried[v] ELSE carried[v]
    OBVIOUS
  <2>1. n + 1 \in 1..LastUnit /\ (n + 1) - 1 = n /\ v \in Nat
    BY <1>3
  <2>2. after[n].carried[v] = IF v <= n THEN after[v].carried[v] ELSE carried[v]
    BY <1>3
  <2>3. PICK q \in Nat : after[n + 1].carried = [w \in Registered |->
                 IF w = n + 1 THEN after[n].carried[w] + q ELSE after[n].carried[w]]
    BY <1>5, <2>1
  <2>4. v # n + 1 => after[n + 1].carried[v] = after[n].carried[v]
    BY <2>3
  <2> QED
    BY <2>1, <2>2, <2>4
<1> HIDE DEF S
<1>8. Nat \subseteq S
  BY <1>6, <1>7, Induction
<1>9. \A n \in 0..LastUnit : Carries(n)
  BY <1>8, <1>3 DEF S
<1>10. ASSUME NEW u \in 1..LastUnit
       PROVE  /\ u \in Registered =>
                   /\ give[u] \in Nat /\ give[u] <= Throughput * Seconds(u)
                   /\ carried[u] + give[u] <= Maximum /\ give[u] \in 0..Maximum
                   /\ after[u].depot = after[u - 1].depot - give[u]
                   /\ after[u].issue = after[u - 1].issue - give[u]
              /\ u \notin Registered =>
                   after[u].depot = after[u - 1].depot /\ after[u].issue = after[u - 1].issue
  <2>1. PICK q \in Nat :
               /\ u \notin Registered => q = 0
               /\ u \in Registered => q <= Throughput * Seconds(u)
                                      /\ after[u - 1].carried[u] + q <= Maximum
               /\ after[u].depot = after[u - 1].depot - q
               /\ after[u].issue = after[u - 1].issue - q
               /\ after[u].carried = [v \in Registered |->
                    IF v = u THEN after[u - 1].carried[v] + q ELSE after[u - 1].carried[v]]
    BY <1>5
  <2>2. u - 1 \in 0..LastUnit /\ ~(u <= u - 1)
    BY <1>3
  <2>3. CASE u \in Registered
    <3>1. after[u - 1].carried[u] = carried[u] /\ carried[u] \in 0..Maximum
      BY <1>3, <1>9, <2>2, <2>3
    <3>2. after[u].carried[u] = carried[u] + q
      BY <2>1, <2>3, <3>1
    <3>3. give[u] = q
      BY <1>3, <2>3, <3>1, <3>2
    <3> QED
      BY <1>3, <2>1, <2>3, <3>1, <3>3
  <2>4. CASE u \notin Registered
    <3>1. q = 0 /\ after[u - 1].depot \in Int /\ after[u - 1].issue \in Nat
      BY <1>4, <2>1, <2>2, <2>4
    <3> QED
      BY <2>1, <2>4, <3>1
  <2> QED
    BY <2>3, <2>4
<1>11. give \in [Registered -> 0..Maximum] /\ \A u \in Registered : give[u] \in Nat
  <2>1. \A u \in Registered : give[u] \in 0..Maximum /\ give[u] \in Nat
    BY <1>3, <1>10
  <2> QED
    BY <2>1
<1>12. carried' = [u \in Registered |-> before.carried[u] + give[u]]
  <2>1. LastUnit \in 0..LastUnit /\ \A u \in Registered : u <= LastUnit
    BY <1>3
  <2>2. last.carried \in [Registered -> 0..Maximum]
    BY <1>4, <2>1
  <2>3. ASSUME NEW u \in Registered PROVE last.carried[u] = carried[u] + give[u]
    <3>1. last.carried[u] = after[u].carried[u]
      BY <1>9, <2>1
    <3>2. u \in 0..LastUnit /\ after[u].carried[u] \in Int /\ carried[u] \in Int
      BY <1>3, <1>4
    <3> QED
      BY <3>1, <3>2
  <2> HIDE DEF give
  <2> QED
    BY <1>1, <2>2, <2>3
<1> DOMAIN give = Registered
  OBVIOUS
<1> HIDE DEF give
<1>13. /\ sum \in [0..LastUnit -> Nat] /\ sum[0] = 0
       /\ \A u \in 1..LastUnit :
            sum[u] = sum[u - 1] + (IF u \in DOMAIN give THEN give[u] ELSE 0)
  BY <1>3, <1>11, UpToFacts
<1> HIDE DEF sum
<1> DEFINE Issued(n) == /\ after[n].depot = depot - sum[n]
                        /\ after[n].issue = Throughput * Interval - sum[n]
           R == {n \in Nat : n <= LastUnit => Issued(n)}
<1>14. 0 \in R
  BY <1>2, <1>3, <1>13 DEF Stocks
<1>15. \A n \in Nat : n \in R => n + 1 \in R
  <2> SUFFICES ASSUME NEW n \in Nat, n \in R, n + 1 <= LastUnit
               PROVE  Issued(n + 1)
    OBVIOUS
  <2>1. n + 1 \in 1..LastUnit /\ (n + 1) - 1 = n /\ n \in 0..LastUnit
    BY <1>3
  <2>2. Issued(n) /\ sum[n] \in Nat
    BY <1>3, <1>13, <2>1
  <2>3. sum[n + 1] = sum[n] + (IF n + 1 \in Registered THEN give[n + 1] ELSE 0)
    BY <1>13, <2>1
  <2>4. CASE n + 1 \in Registered
    <3>1. /\ after[n + 1].depot = after[n].depot - give[n + 1]
          /\ after[n + 1].issue = after[n].issue - give[n + 1]
          /\ give[n + 1] \in Nat /\ sum[n + 1] = sum[n] + give[n + 1]
      BY <1>10, <2>1, <2>3, <2>4
    <3> QED
      BY <1>3, <2>2, <3>1
  <2>5. CASE n + 1 \notin Registered
    <3>1. /\ after[n + 1].depot = after[n].depot
          /\ after[n + 1].issue = after[n].issue /\ sum[n + 1] = sum[n]
      BY <1>10, <2>1, <2>2, <2>3, <2>5
    <3> QED
      BY <2>2, <3>1
  <2> QED
    BY <2>4, <2>5
<1> HIDE DEF R
<1>16. Nat \subseteq R
  BY <1>14, <1>15, Induction
<1>17. last.depot = depot - sum[LastUnit] /\ last.issue = Throughput * Interval - sum[LastUnit]
  BY <1>3, <1>16 DEF R
<1>18. /\ last.depot \in 0..Stock /\ last.carried \in [Registered -> 0..Maximum]
       /\ last.issue \in Nat /\ sum[LastUnit] \in Nat
  <2>1. last \in StocksType
    BY <1>2, <1>3
  <2> QED
    BY <1>3, <1>13, <2>1 DEF StocksType
<1>19. Books!Total(give) = sum[LastUnit]
  BY DEF Books!Total, sum
<1>20. Books!Total(give) <= Throughput * Interval
  BY <1>3, <1>17, <1>18, <1>19
<1>21. \A u \in Registered : give[u] <= Throughput * Seconds(u)
                               /\ before.carried[u] + give[u] <= Maximum
  BY <1>1, <1>3, <1>10
<1> QED
  BY <1>1, <1>11, <1>12, <1>17, <1>18, <1>19, <1>20, <1>21

-----------------------------------------------------------------------------
(* The inductive invariant.                                                *)

LEMMA InitEstablishesInv == Init => IInv
<1> SUFFICES ASSUME Init PROVE IInv
  OBVIOUS
<1>1. Registered = AtStart /\ AtStart \subseteq Units
  BY SetsAssumption DEF Init, Registered
<1>2. TypeOK
  BY <1>1, Rates DEF Init, TypeOK
<1>3. TimeInv
  <2>1. 0 % Interval = 0
    BY Rates
  <2> QED
    BY <2>1, Rates DEF Init, TimeInv, InTick
<1>4. UnitInv
  BY <1>1 DEF Init, UnitInv, Larger
<1>5. ActivityInv
  BY <1>1 DEF Init, ActivityInv, Latched, InTick
<1>6. SavedInv /\ ServedInv
  BY DEF Init, SavedInv, Serving, ServedInv
<1> QED
  BY <1>2, <1>3, <1>4, <1>5, <1>6 DEF IInv

\* The types of the numbers, for arithmetic.
LEMMA Numbers ==
  ASSUME TypeOK
  PROVE  /\ elapsed \in Nat /\ boundary \in Nat /\ accumulator \in Nat
         /\ elapsed <= MaxTime /\ Interval \in Nat /\ Interval > 0 /\ MaxTime \in Nat
         /\ \A u \in Registered : /\ eligible[u] \in Nat /\ accounted[u] \in Nat
                                  /\ eligible[u] <= MaxTime
BY Rates DEF TypeOK

LEMMA ArriveKeepsInv ==
  ASSUME IInv, NEW wave \in SUBSET (Units \ Registered), Arrive(wave)
  PROVE  IInv'
<1>0. /\ TypeOK /\ TimeInv /\ UnitInv /\ ActivityInv /\ pc \in {"idle", "failed"}
  BY DEF IInv, Arrive
<1>1. PICK dt \in Durations : elapsed + dt <= MaxTime /\ elapsed' = elapsed + dt
  BY DEF Arrive
<1>2. PICK p \in Places : pos' = Joined(pos, wave, p) /\ at' = Joined(at, wave, p)
  BY DEF Arrive
<1>3. dt \in Nat /\ dt > 0 /\ elapsed' \in 0..MaxTime /\ elapsed' >= elapsed
  BY <1>0, <1>1, Numbers, Rates
<1>4. Registered' = Registered \union wave /\ Registered \intersect wave = {}
  <2>1. DOMAIN eligible' = DOMAIN eligible \union wave
    BY DEF Arrive, Joined
  <2> QED
    BY <2>1 DEF Registered
<1>5. ASSUME NEW u \in Registered
      PROVE  /\ eligible'[u] = eligible[u] /\ accounted'[u] = accounted[u] /\ latch'[u] = latch[u]
             /\ pos'[u] = pos[u] /\ at'[u] = at[u]
  BY <1>0, <1>2 DEF Arrive, TypeOK, Joined
<1>6. ASSUME NEW u \in wave
      PROVE  /\ eligible'[u] = elapsed' /\ accounted'[u] = elapsed' /\ latch'[u] = FALSE
             /\ pos'[u] = p /\ at'[u] = p
  BY <1>0, <1>2, <1>4 DEF Arrive, TypeOK, ArrivalTime, Joined
<1>7. TypeOK'
  <2>1. ASSUME NEW S, NEW f \in [Registered -> S], NEW v \in S
        PROVE  Joined(f, wave, v) \in [Registered' -> S]
    BY <1>4 DEF Joined
  <2>2. /\ eligible' \in [Registered' -> 0..MaxTime] /\ accounted' \in [Registered' -> 0..MaxTime]
    BY <1>0, <1>3, <2>1 DEF Arrive, TypeOK, ArrivalTime
  <2>3. latch' \in [Registered' -> BOOLEAN]
    BY <1>0, <2>1, Zenon DEF Arrive, TypeOK
  <2>4. pos' \in [Registered' -> Places] /\ at' \in [Registered' -> Places]
    BY <1>0, <1>2, <2>1 DEF TypeOK
  <2>5. carried' \in [Registered' -> 0..Maximum] /\ condition' \in [Registered' -> 0..Full]
    <3>1. Initial \in 0..Maximum /\ Full \in 0..Full
      BY Rates
    <3> QED
      BY <1>0, <2>1, <3>1, Zenon DEF Arrive, TypeOK
  <2>6. /\ Registered' \subseteq Units /\ depot' \in 0..Stock /\ boundary' \in 0..MaxTime
        /\ accumulator' \in 0..MaxTime /\ pc' = "update"
        /\ fighting' \subseteq Registered' /\ out' \subseteq Registered' /\ stirred' \subseteq Registered'
    BY <1>0, <1>4 DEF Arrive, TypeOK
  <2> QED
    BY <1>3, <2>2, <2>3, <2>4, <2>5, <2>6 DEF TypeOK
<1>8. TimeInv'
  BY <1>0, <1>1, <1>3, Numbers DEF Arrive, TimeInv, InTick
<1>9. UnitInv'
  <2>1. ASSUME NEW u \in Registered
        PROVE  /\ eligible'[u] <= elapsed'
               /\ accounted'[u] = Larger(boundary, eligible'[u])
               /\ ~latch'[u] => at'[u] = pos'[u]
    BY <1>0, <1>3, <1>5, Numbers DEF UnitInv
  <2>2. ASSUME NEW u \in wave
        PROVE  /\ eligible'[u] <= elapsed'
               /\ accounted'[u] = Larger(boundary, eligible'[u])
               /\ ~latch'[u] => at'[u] = pos'[u]
    <3>1. boundary \in Nat /\ elapsed' \in Nat /\ boundary <= elapsed'
      BY <1>0, <1>3, Numbers DEF TimeInv
    <3>2. elapsed' = Larger(boundary, elapsed') /\ elapsed' <= elapsed'
      BY <3>1 DEF Larger
    <3> QED
      BY <1>6, <3>2, Zenon
  <2>3. boundary' = boundary
    BY DEF Arrive
  <2> QED
    BY <1>4, <2>1, <2>2, <2>3 DEF UnitInv, Larger
<1>10. ActivityInv'
  <2>1. Latched' = Latched
    BY <1>4, <1>5, <1>6 DEF Latched
  <2> QED
    BY <1>0, <2>1 DEF Arrive, ActivityInv, InTick
<1>11. SavedInv' /\ ServedInv'
  BY DEF Arrive, SavedInv, Serving, ServedInv
<1> QED
  BY <1>7, <1>8, <1>9, <1>10, <1>11 DEF IInv

LEMMA SampleKeepsInv ==
  ASSUME IInv, Sample
  PROVE  IInv'
<1>0. /\ TypeOK /\ TimeInv /\ UnitInv /\ ActivityInv /\ pc \in {"update", "failed"}
      /\ UNCHANGED <<elapsed, boundary, unitVars, stockVars, worldVars, before, faults>>
      /\ accumulator' = elapsed - boundary
      /\ pc' = IF accumulator' >= Interval THEN "quantum" ELSE "work"
  BY DEF IInv, Sample
<1>1. latch' = [u \in Registered |-> latch[u] \/ Persistent(u) \/ pos[u] # at[u]]
  BY DEF Sample
<1>2. Registered' = Registered
  BY <1>0 DEF unitVars, Registered
<1>3. accumulator' \in 0..MaxTime
  BY <1>0, Numbers DEF TimeInv
<1>4. TypeOK'
  BY <1>0, <1>1, <1>2, <1>3 DEF Sample, TypeOK, unitVars, stockVars, worldVars, Persistent
<1>5. TimeInv'
  BY <1>0, <1>3, Numbers DEF TimeInv, InTick
<1>6. UnitInv'
  BY <1>0, <1>1, <1>2 DEF UnitInv, unitVars, worldVars, Larger
<1>7. ActivityInv'
  <2>1. stirred' = stirred \union {u \in Registered : Persistent(u)}
    BY DEF Sample
  <2>2. Latched' = Latched \union {u \in Registered : Persistent(u) \/ pos[u] # at[u]}
    BY <1>1, <1>2 DEF Latched
  <2>3. \A u \in Registered : pos[u] # at[u] => u \in Latched
    BY <1>0 DEF UnitInv, Latched
  <2>4. out' = out /\ fighting' = fighting /\ out \subseteq Registered /\ fighting \subseteq Registered
    BY <1>0 DEF worldVars, TypeOK
  <2>5. stirred \union out = Latched \union out
    BY <1>0 DEF ActivityInv
  <2>6. stirred' = Latched' /\ out' \union fighting' \subseteq Latched'
    BY <2>1, <2>2, <2>3, <2>4, <2>5 DEF Persistent
  <2>7. pc' \in {"quantum", "work"}
    BY <1>0
  <2> QED
    BY <2>6, <2>7 DEF ActivityInv, InTick
<1>8. SavedInv' /\ ServedInv'
  BY <1>0 DEF SavedInv, Serving, ServedInv
<1> QED
  BY <1>4, <1>5, <1>6, <1>7, <1>8 DEF IInv

LEMMA BeginQuantumKeepsInv ==
  ASSUME IInv, NEW mud \in BOOLEAN, BeginQuantum(mud)
  PROVE  IInv'
<1>0. /\ TypeOK /\ TimeInv /\ UnitInv /\ ActivityInv /\ pc = "quantum" /\ pc' = "resupply"
      /\ UNCHANGED <<elapsed, cadenceVars, unitVars, depot, carried, worldVars, faults, stirred>>
      /\ before' = [depot |-> depot, carried |-> carried, condition |-> condition,
                    at |-> at, accounted |-> accounted]
  BY DEF IInv, BeginQuantum
<1>1. Registered' = Registered
  BY <1>0 DEF unitVars, Registered
<1>2. condition' \in [Registered -> 0..Full]
  <2>1. \A u \in Registered : Larger(0, condition[u] - RoadWear) \in 0..Full
    BY <1>0, Rates DEF TypeOK, Larger
  <2> QED
    BY <1>0, <2>1 DEF BeginQuantum, TypeOK
<1>3. TypeOK'
  BY <1>0, <1>1, <1>2 DEF TypeOK, cadenceVars, unitVars, worldVars
<1>4. TimeInv'
  BY <1>0 DEF TimeInv, cadenceVars, InTick
<1>5. UnitInv'
  BY <1>0, <1>1 DEF UnitInv, cadenceVars, unitVars, worldVars, Larger
<1>6. ActivityInv'
  <2>1. Latched' = Latched
    BY <1>0, <1>1 DEF Latched, cadenceVars
  <2> QED
    BY <1>0, <2>1 DEF ActivityInv, InTick, worldVars, cadenceVars
<1>7. SavedInv'
  BY <1>0, <1>1 DEF SavedInv, TypeOK, unitVars
<1>8. ServedInv'
  BY <1>0 DEF ServedInv
<1> QED
  BY <1>3, <1>4, <1>5, <1>6, <1>7, <1>8 DEF IInv

\* While a boundary is served, nothing but the stocks changes.
LEMMA ServingKeeps ==
  ASSUME IInv, pc \in InTick, pc' \in InTick, depot' \in 0..Stock,
         carried' \in [Registered -> 0..Maximum],
         UNCHANGED <<elapsed, cadenceVars, unitVars, condition, worldVars, before, stirred>>
  PROVE  /\ Registered' = Registered /\ Latched' = Latched
         /\ \A u \in Registered : Seconds(u)' = Seconds(u)
         /\ TypeOK' /\ TimeInv' /\ UnitInv' /\ ActivityInv'
<1>0. TypeOK /\ TimeInv /\ UnitInv /\ ActivityInv
  BY DEF IInv
<1>1. Registered' = Registered /\ latch' = latch
  BY DEF unitVars, Registered, cadenceVars
<1>2. Latched' = Latched
  BY <1>1 DEF Latched
<1>3. \A u \in Registered : Seconds(u)' = Seconds(u)
  BY DEF Seconds, Boundary, cadenceVars, unitVars, Larger
<1>4. TypeOK'
  BY <1>0, <1>1 DEF TypeOK, cadenceVars, unitVars, worldVars, InTick
<1>5. TimeInv'
  BY <1>0 DEF TimeInv, cadenceVars, InTick
<1>6. UnitInv'
  BY <1>0, <1>1 DEF UnitInv, cadenceVars, unitVars, worldVars, Larger
<1>7. ActivityInv'
  BY <1>0, <1>2 DEF ActivityInv, InTick, worldVars, cadenceVars
<1> QED
  BY <1>1, <1>2, <1>3, <1>4, <1>5, <1>6, <1>7

LEMMA ResupplyKeepsInv ==
  ASSUME IInv, Resupply
  PROVE  IInv'
<1>0. /\ TypeOK /\ SavedInv /\ pc = "resupply" /\ pc' = "debit"
      /\ UNCHANGED <<elapsed, cadenceVars, unitVars, condition, worldVars, before, stirred>>
  BY DEF IInv, Resupply
<1>1. depot' \in 0..Stock /\ carried' \in [Registered -> 0..Maximum]
  BY <1>0, ResupplyServes
<1>2. /\ Registered' = Registered /\ \A u \in Registered : Seconds(u)' = Seconds(u)
      /\ TypeOK' /\ TimeInv' /\ UnitInv' /\ ActivityInv'
  BY <1>0, <1>1, ServingKeeps DEF InTick
<1>3. SavedInv'
  BY <1>0, <1>2 DEF SavedInv, Serving, unitVars
<1>4. ServedInv'
  <2>1. PICK give \in [Registered -> 0..Maximum] :
              /\ depot' = before.depot - Books!Total(give)
              /\ Books!Total(give) <= Throughput * Interval
              /\ \A u \in Registered :
                   /\ give[u] <= Throughput * Seconds(u)
                   /\ before.carried[u] + give[u] <= Maximum
              /\ carried' = [u \in Registered |-> before.carried[u] + give[u]]
    BY <1>0, ResupplyServes
  <2>2. Given(give)'
    BY <1>0, <1>2, <2>1 DEF Given
  <2> QED
    BY <1>0, <1>2, <2>1, <2>2 DEF ServedInv
<1> QED
  BY <1>2, <1>3, <1>4 DEF IInv

LEMMA ConsumeIdleKeepsInv ==
  ASSUME IInv, ConsumeIdle
  PROVE  IInv'
<1>0. /\ TypeOK /\ SavedInv /\ ActivityInv /\ pc = "debit" /\ pc' = "commit" /\ depot' = depot
      /\ UNCHANGED <<elapsed, cadenceVars, unitVars, condition, worldVars, before, stirred>>
      /\ carried' = [u \in Registered |->
           IF u \in out \/ latch[u] THEN carried[u]
           ELSE Larger(0, carried[u] - IdleRate * Seconds(u))]
  BY DEF IInv, ConsumeIdle
<1>1. depot' \in 0..Stock /\ carried' \in [Registered -> 0..Maximum]
  <2>1. ASSUME NEW u \in Registered
        PROVE  carried[u] \in 0..Maximum /\ Larger(0, carried[u] - IdleRate * Seconds(u)) \in 0..Maximum
    <3>1. carried[u] \in 0..Maximum /\ IdleRate * Seconds(u) \in Nat /\ Maximum \in Nat
      BY <1>0, SecondsType, Products, Rates DEF TypeOK
    <3>2. \A m \in Nat : Larger(0, carried[u] - m) \in 0..Maximum
      BY <3>1 DEF Larger
    <3> QED
      BY <3>1, <3>2
  <2> QED
    BY <1>0, <2>1 DEF TypeOK
<1>2. /\ Registered' = Registered /\ \A u \in Registered : Seconds(u)' = Seconds(u)
      /\ TypeOK' /\ TimeInv' /\ UnitInv' /\ ActivityInv'
  BY <1>0, <1>1, ServingKeeps DEF InTick
<1>3. SavedInv'
  BY <1>0, <1>2 DEF SavedInv, Serving, unitVars
<1>4. ServedInv'
  <2>1. PICK give \in [Registered -> 0..Maximum] :
          Given(give) /\ carried = [u \in Registered |-> before.carried[u] + give[u]]
    BY <1>0 DEF IInv, ServedInv
  <2>2. Given(give)'
    BY <1>0, <1>2, <2>1 DEF Given
  <2>3. \A u \in Registered : u \in out => latch[u]
    BY <1>0 DEF ActivityInv, Latched, InTick
  <2>4. carried' = [u \in Registered |->
            LET stock == before.carried[u] + give[u]
            IN IF latch[u] THEN stock ELSE Larger(0, stock - IdleRate * Seconds(u))]
    <3> DEFINE charge(u) == IdleRate * Seconds(u)
    <3> HIDE DEF charge
    <3>1. carried' = [u \in Registered |->
           IF u \in out \/ latch[u] THEN carried[u] ELSE Larger(0, carried[u] - charge(u))]
      BY <1>0 DEF charge
    <3>2. carried' = [u \in Registered |->
            IF latch[u] THEN before.carried[u] + give[u]
            ELSE Larger(0, (before.carried[u] + give[u]) - charge(u))]
      BY <2>1, <2>3, <3>1
    <3> QED
      BY <3>2 DEF charge
  <2>5. latch' = latch
    BY <1>0 DEF cadenceVars
  <2>6. carried' = [u \in Registered |->
            LET stock == before'.carried[u] + give[u]
            IN IF latch'[u] THEN stock ELSE Larger(0, stock - IdleRate * Seconds(u)')]
    BY <1>0, <1>2, <2>4, <2>5
  <2> QED
    BY <1>0, <1>2, <2>2, <2>6 DEF ServedInv, Larger
<1> QED
  BY <1>2, <1>3, <1>4 DEF IInv

LEMMA NextMultiple ==
  ASSUME NEW b \in Nat, NEW i \in Nat, i > 0, b % i = 0
  PROVE  (b + i) % i = 0
<1> DEFINE k == b \div i
<1>1. k \in Int /\ k * i + (b % i) = b
  BY SMT
<1> HIDE DEF k
<1>2. k \in Int /\ b = i * k
  BY <1>1
<1>3. b + i = i * (k + 1)
  BY <1>2
<1>4. \A m \in Int : (i * m) % i = 0
  OBVIOUS
<1> QED
  BY <1>2, <1>3, <1>4

LEMMA CommitKeepsInv ==
  ASSUME IInv, Commit
  PROVE  IInv'
<1>0. /\ TypeOK /\ TimeInv /\ UnitInv /\ ActivityInv /\ pc = "commit" /\ pc' = "publish"
      /\ UNCHANGED <<elapsed, eligible, stockVars, worldVars, faults>>
      /\ at' = [u \in Registered |-> pos[u]]
      /\ accounted' = [u \in Registered |->
            IF eligible[u] <= Boundary THEN Boundary ELSE accounted[u]]
      /\ boundary' = Boundary /\ accumulator' = accumulator - Interval
      /\ latch' = [u \in Registered |-> NextLatch(u)]
      /\ stirred' = {u \in stirred : accumulator > Interval /\ Persistent(u)}
  BY DEF IInv, Commit
<1>1. Registered' = Registered
  BY <1>0 DEF Registered
<1>2. /\ accumulator' \in 0..MaxTime /\ boundary' \in 0..MaxTime /\ Boundary = boundary + Interval
      /\ boundary' + accumulator' = elapsed' /\ accumulator >= Interval
  BY <1>0, Numbers DEF TimeInv, InTick, Boundary
<1>3. TypeOK'
  <2>1. accounted' \in [Registered -> 0..MaxTime]
    BY <1>0, <1>2, Numbers DEF TypeOK
  <2>2. at' \in [Registered -> Places]
    BY <1>0 DEF TypeOK
  <2>3. latch' \in [Registered -> BOOLEAN]
    BY <1>0 DEF NextLatch, Persistent
  <2> QED
    BY <1>0, <1>1, <1>2, <2>1, <2>2, <2>3 DEF TypeOK, stockVars, worldVars
<1>4. TimeInv'
  <2>1. boundary' % Interval = 0
    BY <1>0, <1>2, Numbers, NextMultiple DEF TimeInv
  <2> QED
    BY <1>0, <1>2, <2>1, Numbers DEF TimeInv, InTick
<1>5. UnitInv'
  <2>1. ASSUME NEW u \in Registered
        PROVE  accounted'[u] = Larger(boundary', eligible'[u])
    <3>1. accounted[u] = Larger(boundary, eligible[u])
      BY <1>0 DEF UnitInv
    <3>2. accounted'[u] = IF eligible[u] <= Boundary THEN Boundary ELSE accounted[u]
      BY <1>0
    <3> QED
      BY <1>0, <1>2, <3>1, <3>2, Numbers DEF Larger
  <2>2. ASSUME NEW u \in Registered
        PROVE  at'[u] = pos'[u] /\ eligible'[u] <= elapsed'
    BY <1>0 DEF UnitInv, worldVars
  <2> QED
    BY <1>1, <2>1, <2>2 DEF UnitInv, Larger
<1>6. ActivityInv'
  <2>1. Latched' = {u \in Registered : accumulator > Interval /\ Persistent(u)}
    BY <1>0, <1>1 DEF Latched, NextLatch
  <2>2. stirred = Latched /\ out \union fighting \subseteq Latched
    BY <1>0 DEF ActivityInv, InTick
  <2>3. stirred' = Latched'
    BY <1>0, <2>1, <2>2 DEF Persistent, Latched
  <2>4. accumulator' >= Interval => out' \union fighting' \subseteq Latched'
    <3>1. accumulator' >= Interval => accumulator > Interval
      BY <1>0, Numbers
    <3> QED
      BY <1>0, <2>1, <2>2, <3>1 DEF Persistent, Latched, worldVars
  <2> QED
    BY <1>0, <2>3, <2>4 DEF ActivityInv, InTick
<1>7. SavedInv' /\ ServedInv'
  BY <1>0 DEF SavedInv, Serving, ServedInv
<1> QED
  BY <1>3, <1>4, <1>5, <1>6, <1>7 DEF IInv

LEMMA RaiseKeepsInv ==
  ASSUME IInv, Raise
  PROVE  IInv'
<1>0. /\ TypeOK /\ TimeInv /\ UnitInv /\ ActivityInv /\ SavedInv /\ Serving /\ pc' = "failed"
      /\ UNCHANGED <<elapsed, cadenceVars, eligible, worldVars, stirred>>
      /\ depot' = before.depot /\ carried' = before.carried /\ condition' = before.condition
      /\ at' = before.at /\ accounted' = before.accounted
  BY DEF IInv, Raise, Rollback, Serving
<1>1. /\ at' = at /\ accounted' = accounted /\ depot' \in 0..Stock
      /\ carried' \in [Registered -> 0..Maximum] /\ condition' \in [Registered -> 0..Full]
  BY <1>0 DEF SavedInv
<1>2. Registered' = Registered /\ Latched' = Latched
  BY <1>0 DEF Registered, Latched, cadenceVars
<1>3. TypeOK'
  BY <1>0, <1>1, <1>2 DEF TypeOK, cadenceVars, worldVars
<1>4. TimeInv'
  BY <1>0 DEF TimeInv, cadenceVars, InTick, Serving
<1>5. UnitInv'
  BY <1>0, <1>1, <1>2 DEF UnitInv, cadenceVars, worldVars, Larger
<1>6. ActivityInv'
  BY <1>0, <1>2 DEF ActivityInv, InTick, Serving
<1>7. SavedInv' /\ ServedInv'
  BY <1>0 DEF SavedInv, Serving, ServedInv
<1> QED
  BY <1>3, <1>4, <1>5, <1>6, <1>7 DEF IInv

LEMMA PublishKeepsInv ==
  ASSUME IInv, Publish
  PROVE  IInv'
<1>0. /\ TypeOK /\ TimeInv /\ UnitInv /\ ActivityInv /\ pc = "publish"
      /\ UNCHANGED <<elapsed, cadenceVars, unitVars, stockVars, worldVars, before, stirred>>
      /\ \/ pc' = IF accumulator >= Interval THEN "quantum" ELSE "work"
         \/ pc' = "failed"
  BY DEF IInv, Publish
<1>1. Registered' = Registered /\ Latched' = Latched
  BY <1>0 DEF Registered, Latched, cadenceVars, unitVars
<1>2. TypeOK'
  BY <1>0, <1>1 DEF TypeOK, cadenceVars, worldVars, unitVars, stockVars
<1>3. TimeInv'
  BY <1>0, Numbers DEF TimeInv, cadenceVars, InTick
<1>4. UnitInv'
  BY <1>0, <1>1 DEF UnitInv, cadenceVars, worldVars, unitVars, Larger
<1>5. ActivityInv'
  BY <1>0, <1>1, Numbers DEF ActivityInv, InTick, cadenceVars, worldVars
<1>6. SavedInv' /\ ServedInv'
  BY <1>0 DEF SavedInv, Serving, ServedInv
<1> QED
  BY <1>2, <1>3, <1>4, <1>5, <1>6 DEF IInv

LEMMA WorkKeepsInv ==
  ASSUME IInv, NEW clash \in SUBSET Registered, Work(clash)
  PROVE  IInv'
<1>0. /\ TypeOK /\ TimeInv /\ UnitInv /\ ActivityInv /\ pc = "work" /\ pc' = "idle"
      /\ UNCHANGED <<elapsed, boundary, accumulator, unitVars, stockVars, before>>
      /\ pos' \in [Registered -> Places] /\ fighting' \in SUBSET (fighting \union clash)
      /\ latch' = [u \in Registered |-> latch[u] \/ u \in Noted(clash)]
      /\ stirred' = stirred \union fighting \union clash \union out'
                      \union {u \in Registered : pos'[u] # pos[u]}
  BY DEF IInv, Work
<1>1. PICK u \in Registered : out' \in {out, out \union {u}, out \ {u}}
  BY DEF Work
<1>2. Registered' = Registered
  BY <1>0 DEF Registered, unitVars
<1>3. /\ out' \subseteq Registered /\ fighting' \subseteq Registered
      /\ stirred \subseteq Registered /\ fighting \subseteq Registered
  BY <1>0, <1>1 DEF TypeOK
<1>4. TypeOK'
  <2>1. latch' \in [Registered -> BOOLEAN]
    BY <1>0 DEF TypeOK
  <2> QED
    BY <1>0, <1>2, <1>3, <2>1 DEF TypeOK, unitVars, stockVars
<1>5. TimeInv'
  BY <1>0 DEF TimeInv, InTick
<1>6. UnitInv'
  <2>1. ASSUME NEW v \in Registered, ~latch'[v] PROVE at'[v] = pos'[v]
    BY <1>0, <2>1 DEF UnitInv, unitVars, Noted
  <2> QED
    BY <1>0, <1>2, <2>1 DEF UnitInv, unitVars, Larger
<1>7. ActivityInv'
  <2>1. Latched' = Latched \union fighting \union clash \union {v \in Registered : pos'[v] # pos[v]}
    BY <1>0, <1>2, <1>3 DEF Latched, Noted
  <2>2. stirred' = Latched' \union out'
    BY <1>0, <2>1 DEF ActivityInv
  <2> QED
    BY <1>0, <2>2 DEF ActivityInv, InTick
<1>8. SavedInv' /\ ServedInv'
  BY <1>0 DEF SavedInv, Serving, ServedInv
<1> QED
  BY <1>4, <1>5, <1>6, <1>7, <1>8 DEF IInv

LEMMA NextKeepsInv ==
  ASSUME IInv, [Next]_vars
  PROVE  IInv'
<1>1. CASE UNCHANGED vars
  <2>1. /\ TypeOK' /\ TimeInv' /\ UnitInv'
    BY <1>1 DEF IInv, vars, cadenceVars, unitVars, stockVars, worldVars, TypeOK, TimeInv, UnitInv,
                InTick, Registered, Larger
  <2>2. ActivityInv' /\ SavedInv'
    BY <1>1 DEF IInv, vars, cadenceVars, unitVars, stockVars, worldVars, ActivityInv, SavedInv,
                InTick, Registered, Latched, Serving
  <2>3. Registered' = Registered /\ \A u \in Registered : Seconds(u)' = Seconds(u)
    BY <1>1 DEF vars, cadenceVars, unitVars, Registered, Seconds, Boundary, Larger
  <2>4. ASSUME NEW give PROVE Given(give)' <=> Given(give)
    BY <1>1, <2>3 DEF Given, vars, stockVars
  <2>5. ServedInv'
    BY <1>1, <2>3, <2>4 DEF IInv, ServedInv, vars, cadenceVars, stockVars, Larger
  <2> QED
    BY <2>1, <2>2, <2>5 DEF IInv
<1>2. CASE \E wave \in SUBSET (Units \ Registered) : Arrive(wave)
  BY <1>2, ArriveKeepsInv
<1>3. CASE Sample
  BY <1>3, SampleKeepsInv
<1>4. CASE \E mud \in BOOLEAN : BeginQuantum(mud)
  BY <1>4, BeginQuantumKeepsInv
<1>5. CASE Resupply \/ ConsumeIdle \/ Commit \/ Raise \/ Publish
  BY <1>5, ResupplyKeepsInv, ConsumeIdleKeepsInv, CommitKeepsInv, RaiseKeepsInv, PublishKeepsInv
<1>6. CASE \E clash \in SUBSET Registered : Work(clash)
  BY <1>6, WorkKeepsInv
<1> QED
  BY <1>1, <1>2, <1>3, <1>4, <1>5, <1>6 DEF Next

-----------------------------------------------------------------------------
(* The theorems.                                                           *)

\* The inductive invariant holds however the ticks divide the intervals, for
\* every number of units and all rates, and whatever fails.
THEOREM LogisticsInvariant == Spec => []IInv
<1>1. IInv /\ [Next]_vars => IInv'
  BY NextKeepsInv
<1> QED
  BY <1>1, InitEstablishesInv, PTL DEF Spec

\* What get_state writes between two ticks is what stage_state accepts, and
\* every variable has its type.
THEOREM LogisticsRestorable == Spec => []Restorable
<1>1. IInv => Restorable
  <2> SUFFICES ASSUME IInv, pc = "idle" PROVE Acceptable
    BY DEF IInv, Restorable
  <2>1. boundary % Interval = 0 /\ accumulator = elapsed - boundary /\ accumulator < Interval
    BY Numbers DEF IInv, TimeInv
  <2> QED
    BY <2>1 DEF IInv, UnitInv, Acceptable
<1> QED
  BY <1>1, LogisticsInvariant, PTL

\* The two modules agree on the time a boundary serves.
LEMMA SameSeconds ==
  ASSUME IInv, NEW u \in Registered
  PROVE  Books!Seconds(u) = Seconds(u)
<1> DEFINE b == boundary
           e == eligible[u]
           i == Interval
           from == IF e > b THEN e ELSE b
<1>1. b \in Nat /\ e \in Nat /\ i \in Nat
  BY Numbers DEF IInv
<1>2. accounted[u] = Larger(b, e)
  BY Zenon DEF IInv, UnitInv
<1>3. Seconds(u) = Larger(0, (b + i) - Larger(b, Larger(Larger(b, e), e)))
  BY <1>2, Zenon DEF Seconds, Boundary
<1>4. Books!Seconds(u) = IF from < b + i THEN b + (i - from) ELSE 0
  BY Zenon DEF Books!Seconds
<1> HIDE DEF b, e, i
<1>5. from \in Nat /\ from >= b /\ from >= e /\ Larger(b, e) = from
  BY <1>1 DEF Larger
<1> HIDE DEF from
<1>6. Larger(b, Larger(from, e)) = from
  BY <1>1, <1>5 DEF Larger
<1>7. Larger(0, (b + i) - from) = IF from < b + i THEN b + (i - from) ELSE 0
  BY <1>1, <1>5 DEF Larger
<1> QED
  BY <1>3, <1>4, <1>5, <1>6, <1>7, Zenon

\* A committed boundary is one step of the books.
LEMMA CommitServes ==
  ASSUME IInv, Commit
  PROVE  \E give \in [Registered -> 0..Maximum] : Books!Serve(give)
<1>0. /\ TypeOK /\ ActivityInv /\ SavedInv /\ pc = "commit" /\ pc' = "publish"
      /\ UNCHANGED <<eligible, stockVars>> /\ boundary' = Boundary /\ stirred' \subseteq stirred
      /\ stirred = Latched
  BY DEF IInv, Commit, ActivityInv, InTick
<1>1. PICK give \in [Registered -> 0..Maximum] :
       /\ Given(give)
       /\ carried = [u \in Registered |->
            LET stock == before.carried[u] + give[u]
            IN IF latch[u] THEN stock ELSE Larger(0, stock - IdleRate * Seconds(u))]
  BY <1>0 DEF IInv, ServedInv
<1>2. /\ Serving /\ ~Serving' /\ depot' = depot /\ carried' = carried /\ eligible' = eligible
  BY <1>0 DEF Serving, stockVars
<1>3. \A u \in Registered : /\ give[u] \in Nat /\ before.carried[u] \in Nat
                            /\ IdleRate * Seconds(u) \in Nat /\ Books!Seconds(u) = Seconds(u)
  BY <1>0, <1>2, SecondsType, SameSeconds, Products, Rates DEF SavedInv
<1>4. \A u \in Registered : u \in stirred <=> latch[u]
  BY <1>0 DEF Latched
<1>5. carried' = [u \in Registered |->
       LET charge == IF u \in stirred THEN 0 ELSE IdleRate * Books!Seconds(u)
           stock == before.carried[u] + give[u]
       IN IF stock > charge THEN stock - charge ELSE 0]
  <2> DEFINE due(u) == IdleRate * Seconds(u)
  <2> HIDE DEF due
  <2>1. carried = [u \in Registered |->
          LET stock == before.carried[u] + give[u]
          IN IF latch[u] THEN stock ELSE Larger(0, stock - due(u))]
    BY <1>1, Zenon DEF due
  <2>2. ASSUME NEW u \in Registered
        PROVE  carried[u] = LET charge == IF u \in stirred THEN 0 ELSE due(u)
                                stock == before.carried[u] + give[u]
                            IN IF stock > charge THEN stock - charge ELSE 0
    <3>1. due(u) \in Nat /\ give[u] \in Nat /\ before.carried[u] \in Nat
      BY <1>3 DEF due
    <3> QED
      BY <1>4, <2>1, <3>1 DEF Larger
  <2>3. carried = [u \in Registered |->
          LET charge == IF u \in stirred THEN 0 ELSE due(u)
              stock == before.carried[u] + give[u]
          IN IF stock > charge THEN stock - charge ELSE 0]
    BY <2>1, <2>2
  <2> QED
    BY <1>2, <1>3, <2>3 DEF due
<1>6. /\ \A u \in Registered : /\ give[u] <= Throughput * Books!Seconds(u)
                               /\ before.carried[u] + give[u] <= Maximum
      /\ depot = before.depot - Books!Total(give) /\ Books!Total(give) <= Throughput * Interval
  BY <1>1, <1>3 DEF Given
<1>7. Books!Total(give) <= before.depot
  <2>1. Books!Total(give) \in Nat
    <3>1. DOMAIN give \subseteq Units /\ (\A u \in DOMAIN give : give[u] \in Nat) /\ LastUnit \in Nat
      BY <1>0, <1>3, Rates DEF TypeOK
    <3>2. Books!UpTo(give) \in [0..LastUnit -> Nat]
      BY <3>1, UpToFacts
    <3> QED
      BY <3>1, <3>2 DEF Books!Total
  <2> QED
    BY <1>0, <1>2, <1>6, <2>1, Rates DEF SavedInv, TypeOK
<1>8. Books!Serve(give)
  BY <1>0, <1>2, <1>5, <1>6, <1>7 DEF Books!Serve, Registered, Boundary
<1> QED
  BY <1>8

\* Every step of the runtime is a step of the books or leaves them alone.
LEMMA StepRefines ==
  ASSUME IInv, [Next]_vars
  PROVE  [Books!Next]_(Books!vars)
<1>0. TypeOK /\ SavedInv
  BY DEF IInv
<1>1. CASE UNCHANGED vars
  BY <1>1 DEF vars, cadenceVars, unitVars, stockVars, Books!vars, Serving
<1>2. ASSUME NEW wave \in SUBSET (Units \ Registered), Arrive(wave) PROVE Books!Next
  <2>0. /\ ~Serving /\ ~Serving' /\ UNCHANGED <<boundary, depot, stirred>>
        /\ eligible' = Joined(eligible, wave, ArrivalTime)
        /\ carried' = Joined(carried, wave, Initial)
        /\ DOMAIN eligible \intersect wave = {} /\ DOMAIN carried = DOMAIN eligible
        /\ eligible \in [DOMAIN eligible -> 0..MaxTime] /\ carried \in [DOMAIN eligible -> 0..Maximum]
    BY <1>0, <1>2 DEF Arrive, Serving, Registered, TypeOK
  <2>1. ArrivalTime >= boundary
    <3>1. PICK dt \in Durations : elapsed' = elapsed + dt
      BY <1>2 DEF Arrive
    <3>2. dt \in Nat /\ boundary <= elapsed
      BY <1>0, Numbers, Rates DEF IInv, TimeInv
    <3> QED
      BY <1>0, <3>1, <3>2, Numbers DEF ArrivalTime
  <2>2. /\ DOMAIN eligible' = DOMAIN eligible \union wave /\ DOMAIN carried' = DOMAIN eligible \union wave
        /\ eligible = Books!Restrict(eligible', DOMAIN eligible)
        /\ carried = Books!Restrict(carried', DOMAIN eligible)
        /\ \A u \in wave : eligible'[u] = ArrivalTime /\ carried'[u] = Initial
    BY <2>0 DEF Joined, Books!Restrict
  <2>3. Books!Arrive
    BY <2>0, <2>1, <2>2 DEF Books!Arrive
  <2> QED
    BY <2>3 DEF Books!Next
<1>3. ASSUME Sample PROVE Books!Next
  <2>1. Books!Stir
    BY <1>0, <1>3 DEF Sample, Books!Stir, Serving, unitVars, stockVars, TypeOK, Registered
  <2> QED
    BY <2>1 DEF Books!Next
<1>4. ASSUME NEW mud \in BOOLEAN, BeginQuantum(mud) PROVE UNCHANGED Books!vars
  BY <1>4 DEF BeginQuantum, Books!vars, Serving, cadenceVars, unitVars
<1>5. ASSUME Resupply \/ ConsumeIdle PROVE UNCHANGED Books!vars
  BY <1>5 DEF Resupply, ConsumeIdle, Books!vars, Serving, cadenceVars, unitVars
<1>6. ASSUME Raise PROVE UNCHANGED Books!vars
  BY <1>6 DEF Raise, Rollback, Books!vars, Serving, cadenceVars, unitVars
<1>7. ASSUME Publish PROVE UNCHANGED Books!vars
  BY <1>0, <1>7 DEF Publish, Books!vars, Serving, cadenceVars, unitVars, stockVars
<1>8. ASSUME Commit PROVE Books!Next
  BY <1>8, CommitServes DEF Books!Next, Registered
<1>9. ASSUME NEW clash \in SUBSET Registered, Work(clash) PROVE Books!Next
  <2>1. out' \subseteq Registered
    <3>1. PICK u \in Registered : out' \in {out, out \union {u}, out \ {u}}
      BY <1>9 DEF Work
    <3> QED
      BY <1>0, <3>1 DEF TypeOK
  <2>2. Books!Stir
    BY <1>0, <1>9, <2>1 DEF Work, Books!Stir, Serving, unitVars, stockVars, TypeOK, Registered
  <2> QED
    BY <2>2 DEF Books!Next
<1> QED
  BY <1>1, <1>2, <1>3, <1>4, <1>5, <1>6, <1>7, <1>8, <1>9 DEF Next

\* The runtime implements the books: every boundary takes effect once, whole and
\* in order, for the units and the time it should, whatever the ticks are and
\* however often it or its observers fail.
THEOREM BooksAreKept == Spec => BooksKept
<1>1. Init => Books!Init
  BY DEF Init, Books!Init, Serving
<1>2. IInv /\ [Next]_vars => [Books!Next]_(Books!vars)
  BY StepRefines
<1> QED
  BY <1>1, <1>2, LogisticsInvariant, PTL DEF Spec, BooksKept, Books!Spec
=============================================================================
