------------------------- MODULE AggregationProofs -------------------------
(***************************************************************************)
(* Proofs about Aggregation, for any sides, units and bounds: an operation *)
(* that fails leaves every owner as it found it, the owners agree between  *)
(* operations and can be restored, and a split gives back the list and the *)
(* records that were merged.                                               *)
(*                                                                         *)
(* What holds of the owners between operations (Sound) is a statement      *)
(* about a record of them, so that during an operation it can be kept of   *)
(* the copy with which the operation began.  Of the owners themselves it   *)
(* is then known how far each has come (MergeDone and its like).           *)
(***************************************************************************)
EXTENDS Aggregation, SequenceTheorems, FiniteSetTheorems, WellFoundedInduction, TLAPS

-----------------------------------------------------------------------------
(* What holds of the owners between operations.                            *)

RecordUpTo(n) == [state : MoraleState, gen : 0..n]
Statuses == {"ACTIVE", "ROUTING", "SURRENDERED", "DESTROYED"}

Typed(o, n) ==
  /\ o = [roster |-> o.roster, records |-> o.records, status |-> o.status,
          archives |-> o.archives, loadouts |-> o.loadouts, targeting |-> o.targeting,
          aggregates |-> o.aggregates, nextId |-> o.nextId]
  /\ o.roster \in [Sides -> Seq(Int)]
  /\ o.records \in [DOMAIN o.records -> RecordUpTo(n)]
  /\ o.status \in [DOMAIN o.status -> Statuses]
  /\ o.loadouts \subseteq Int /\ o.targeting \subseteq Int
  /\ o.archives = [a \in DOMAIN o.archives |-> o.archives[a]]
  /\ \A a \in DOMAIN o.archives :
       /\ o.archives[a].baseline \in RecordUpTo(n)
       /\ o.archives[a].of \in [DOMAIN o.archives[a].of -> RecordUpTo(n)]
  /\ \A a \in DOMAIN o.aggregates :
       a \in Int /\ a < 0 /\ DOMAIN o.aggregates[a] \subseteq Units
  /\ o.nextId \in 0..MaxProxies

\* Units have these places on a list.
Stands(list, place) ==
  /\ place \in [DOMAIN place -> 1..Len(list)]
  /\ \A u \in DOMAIN place : list[place[u]] = u

\* A list from which units were merged, and to which others have come since.
Merged(list, order, place, a) ==
  \E since \in Seq(Int) :
    LET rest == Kept(order, DOMAIN place) \o since
    IN a \notin ToSet(rest) /\ list = Inserted(rest, Min(Range(place)), a)

\* Where a list has its units from.
Listed(o, s) ==
  /\ IsInjective(o.roster[s])
  /\ \A u \in ToSet(o.roster[s]) :
       \/ u \in Units /\ SideOf[u] = s
       \/ u \in DOMAIN o.aggregates /\ SideOfAll(DOMAIN o.aggregates[u]) = s

\* What h remembers of a proxy is what the owners o can give back, unless the
\* proxy's morale has changed since.
ProxySound(o, h, a) ==
  LET place == o.aggregates[a]
      side == SideOfAll(DOMAIN place)
  IN /\ DOMAIN place # {} /\ \A u \in DOMAIN place : SideOf[u] = side
     /\ a \in DOMAIN h.origin /\ h.origin[a].records = o.archives[a].of
     /\ h.origin[a].order \in Seq(Int) /\ IsInjective(h.origin[a].order)
     /\ \A u \in ToSet(h.origin[a].order) : u \in Units /\ SideOf[u] = side
     /\ Stands(h.origin[a].order, place)
     /\ Merged(o.roster[side], h.origin[a].order, place, a)
     /\ o.records[a].gen >= o.archives[a].baseline.gen
     /\ a \in h.evolved => o.records[a].gen > o.archives[a].baseline.gen

Sound(o, h) ==
  /\ Typed(o, h.events)
  /\ OwnersBound(o) /\ AggregatesBound(o) /\ ArchivesBound(o)
  /\ \A s \in Sides : Listed(o, s)
  /\ \A a \in DOMAIN o.aggregates : ProxySound(o, h, a)
  /\ h.evolved \subseteq DOMAIN o.aggregates

History == [origin |-> origin, evolved |-> evolved, events |-> events]

-----------------------------------------------------------------------------
(* How far an operation has come.                                          *)

M1 == MergeSteps
M2 == <<"roster", "loadouts", "targeting", "aggregates", "validate">>
M3 == <<"loadouts", "targeting", "aggregates", "validate">>
M4 == <<"targeting", "aggregates", "validate">>
M5 == <<"aggregates", "validate">>
M6 == <<"validate">>
Back == <<"rollback">>

S1 == SplitSteps
S2 == <<"remove", "loadouts", "roster", "targeting", "aggregates", "validate">>
S3 == <<"loadouts", "roster", "targeting", "aggregates", "validate">>
S4 == <<"roster", "targeting", "aggregates", "validate">>

R1 == ReinforceSteps
R2 == <<"targeting", "roster">>
R3 == <<"roster">>

MoraleOf(o) == <<o.records, o.status, o.archives>>

\* The morale records when those of the units that the operation p takes off
\* the roster are suspended, return, or are new.
MergedMorale(p) ==
  LET b == p.begun
      ids == DOMAIN p.place
  IN <<With(Without(b.records, ids), p.id, p.archive.baseline),
       With(Without(b.status, ids), p.id, RequiredStatus(p.archive.baseline.state)),
       With(b.archives, p.id, p.archive)>>
SplitMorale(p) ==
  LET b == p.begun
  IN <<Joined(Without(b.records, {p.id}), p.archive.of),
       Joined(Without(b.status, {p.id}),
              [u \in DOMAIN p.place |-> RequiredStatus(p.archive.of[u].state)]),
       Without(b.archives, {p.id})>>
ReinforcedMorale(p) ==
  LET b == p.begun
  IN <<Joined(b.records, [u \in ToSet(p.wave) |-> [state |-> STEADY, gen |-> 0]]),
       Joined(b.status, [u \in ToSet(p.wave) |-> RequiredStatus(STEADY)]),
       b.archives>>

\* The lists when units have left for a proxy, when the proxy has left, and when
\* the units are back.
MergedRoster(p) ==
  LET list == p.begun.roster[p.side]
  IN [p.begun.roster EXCEPT ![p.side] =
       Inserted(Kept(list, DOMAIN p.place), Min(Range(p.place)), p.id)]
ClearedRoster(p) == [p.begun.roster EXCEPT ![p.side] = Kept(p.begun.roster[p.side], {p.id})]
SplitRoster(p) ==
  [p.begun.roster EXCEPT ![p.side] = PlaceUnits(p.place, Kept(p.begun.roster[p.side], {p.id}))]

\* What an operation was asked to do, and which steps it has left.
MergeOp(p) ==
  LET b == p.begun
      ids == DOMAIN p.place
  IN
  /\ p = [kind |-> "merge", id |-> Proxy(b.nextId), side |-> p.side, place |-> p.place,
          archive |-> Archive(Restrict(b.records, ids)),
          todo |-> p.todo, begun |-> b, moraleDone |-> p.moraleDone]
  /\ p.side \in Sides /\ b.nextId < MaxProxies /\ ids # {} /\ ids \subseteq Units
  /\ Stands(b.roster[p.side], p.place) /\ \A u \in ids : b.status[u] = "ACTIVE"
  /\ \A a \in DOMAIN b.aggregates : SideOfAll(DOMAIN b.aggregates[a]) # p.side
  /\ p.todo \in {M1, M2, M3, M4, M5, M6, Back} /\ p.moraleDone \in BOOLEAN
  /\ p.todo # Back => (p.moraleDone <=> p.todo # M1)

SplitOp(p) ==
  LET b == p.begun
  IN
  /\ p.id \in DOMAIN b.aggregates
  /\ p = [kind |-> "split", id |-> p.id, side |-> SideOfAll(DOMAIN b.aggregates[p.id]),
          place |-> b.aggregates[p.id], archive |-> b.archives[p.id],
          todo |-> p.todo, begun |-> b, moraleDone |-> p.moraleDone]
  /\ b.records[p.id] = p.archive.baseline
  /\ p.todo \in {S1, S2, S3, S4, M4, M5, M6, Back} /\ p.moraleDone \in BOOLEAN
  /\ p.todo # Back => (p.moraleDone <=> p.todo # S1)

ReinforceOp(p) ==
  LET b == p.begun
      ids == ToSet(p.wave)
  IN
  /\ p = [kind |-> "reinforce", side |-> p.side, wave |-> p.wave,
          todo |-> p.todo, begun |-> b, moraleDone |-> p.moraleDone]
  /\ p.side \in Sides /\ p.wave \in Seq(Units) /\ IsInjective(p.wave)
  /\ \A u \in ids : SideOf[u] = p.side /\ u \notin DOMAIN b.records
  /\ \A a \in DOMAIN b.aggregates : DOMAIN b.aggregates[a] \intersect ids = {}
  /\ p.todo \in {R1, R2, R3, Back} /\ p.moraleDone \in BOOLEAN
  /\ p.todo # Back => (p.moraleDone <=> p.todo # R1)

\* How far the owners o have come, and what is remembered of it.
MergeDone(p, o, h) ==
  /\ MoraleOf(o) = IF p.moraleDone THEN MergedMorale(p) ELSE MoraleOf(p.begun)
  /\ p.todo \in {M1, M2} => o.roster = p.begun.roster
  /\ p.todo \in {M3, M4, M5, M6} => o.roster = MergedRoster(p)
  /\ p.todo \in {M1, M2, M3, M4, M5} =>
       o.aggregates = p.begun.aggregates /\ o.nextId = p.begun.nextId
  /\ p.todo = M6 =>
       /\ o.aggregates = With(p.begun.aggregates, p.id, p.place)
       /\ o.nextId = p.begun.nextId + 1
       /\ p.id \in DOMAIN h.origin
       /\ h.origin[p.id] = [order |-> p.begun.roster[p.side], records |-> p.archive.of]

SplitDone(p, o) ==
  /\ MoraleOf(o) = IF p.moraleDone THEN SplitMorale(p) ELSE MoraleOf(p.begun)
  /\ p.todo \in {S1, S2} => o.roster = p.begun.roster
  /\ p.todo \in {S3, S4} => o.roster = ClearedRoster(p)
  /\ p.todo \in {M4, M5, M6} => o.roster = SplitRoster(p)
  /\ p.todo \in {S1, S2, S3, S4, M4, M5} => o.aggregates = p.begun.aggregates
  /\ p.todo = M6 => o.aggregates = Without(p.begun.aggregates, {p.id})
  /\ p.todo # Back => o.nextId = p.begun.nextId

ReinforceDone(p, o) ==
  LET b == p.begun
  IN
  /\ MoraleOf(o) = IF p.moraleDone THEN ReinforcedMorale(p) ELSE MoraleOf(b)
  /\ o.roster = b.roster /\ o.loadouts = b.loadouts
  /\ o.aggregates = b.aggregates /\ o.nextId = b.nextId
  /\ p.todo \in {R1, R2} => o.targeting = b.targeting
  /\ p.todo = R3 => o.targeting = b.targeting \union ToSet(p.wave)

Resting == op = Idle /\ Sound(Owners, History)
Merging ==
  /\ op.kind = "merge" /\ MergeOp(op) /\ MergeDone(op, Owners, History)
  /\ Sound(op.begun, History)
Splitting ==
  /\ op.kind = "split" /\ SplitOp(op) /\ SplitDone(op, Owners)
  /\ Sound(op.begun, History)
Reinforcing ==
  /\ op.kind = "reinforce" /\ ReinforceOp(op) /\ ReinforceDone(op, Owners)
  /\ Sound(op.begun, History)

IInv ==
  /\ Typed(Owners, events) /\ faults \in 0..MaxFaults /\ events \in 0..MaxEvents
  /\ Resting \/ Merging \/ Splitting \/ Reinforcing

-----------------------------------------------------------------------------
(* Induction and recursion over the indexes of a list.                     *)

LEMMA Induction ==
  ASSUME NEW S, 0 \in S, \A n \in Nat : n \in S => n + 1 \in S
  PROVE  Nat \subseteq S
<1>1. SUFFICES ASSUME Nat \ S # {} PROVE FALSE
  OBVIOUS
<1>2. PICK x \in Nat \ S : \A y \in Nat \ S : <<y, x>> \notin OpToRel(<, Nat)
  <2>1. IsWellFoundedOn(OpToRel(<, Nat), Nat)
    BY NatLessThanWellFounded
  <2> QED
    BY <1>1, <2>1, WFMin
<1>3. x # 0 /\ x - 1 \in Nat /\ x - 1 < x /\ x = (x - 1) + 1
  OBVIOUS
<1>4. \A y \in Nat : y < x => <<y, x>> \in OpToRel(<, Nat)
  BY Zenon DEF OpToRel
<1>5. x - 1 \in S
  BY <1>2, <1>3, <1>4, Zenon
<1> QED
  BY <1>3, <1>5

\* A function that is defined from one number to the next exists.
HasSolution(V, n, a, F) ==
  \E f \in [0..n -> V] : f[0] = a /\ \A i \in 1..n : f[i] = F[<<i, f[i - 1]>>]

LEMMA Recursion ==
  ASSUME NEW V, NEW n \in Nat, NEW a \in V, NEW F \in [(1..n) \X V -> V]
  PROVE  HasSolution(V, n, a, F)
<1> DEFINE Good(m, f) == /\ f \in [0..m -> V]
                         /\ f[0] = a
                         /\ \A i \in 1..m : f[i] = F[<<i, f[i - 1]>>]
           S == {m \in Nat : m <= n => \E f : Good(m, f)}
<1>1. 0 \in S
  <2>1. Good(0, [i \in 0..0 |-> a])
    OBVIOUS
  <2> QED
    BY <2>1
<1>2. \A m \in Nat : m \in S => m + 1 \in S
  <2> SUFFICES ASSUME NEW m \in Nat, m \in S, m + 1 <= n PROVE \E f : Good(m + 1, f)
    OBVIOUS
  <2>1. PICK f : Good(m, f)
    OBVIOUS
  <2> DEFINE g == [i \in 0..(m + 1) |-> IF i <= m THEN f[i] ELSE F[<<m + 1, f[m]>>]]
  <2>2. f[m] \in V /\ m + 1 \in 1..n
    BY <2>1
  <2>3. F[<<m + 1, f[m]>>] \in V
    BY <2>2
  <2>4. g \in [0..(m + 1) -> V]
    BY <2>1, <2>3
  <2>5. g[0] = a
    BY <2>1
  <2>6. ASSUME NEW i \in 1..(m + 1) PROVE g[i] = F[<<i, g[i - 1]>>]
    <3>1. i - 1 \in 0..m /\ g[i - 1] = f[i - 1]
      BY <2>6
    <3>2. CASE i <= m
      <4>1. g[i] = f[i] /\ i \in 1..m
        BY <3>2
      <4>2. f[i] = F[<<i, f[i - 1]>>]
        BY <2>1, <4>1
      <4> HIDE DEF g
      <4> QED
        BY <3>1, <4>1, <4>2
    <3>3. CASE ~(i <= m)
      <4>1. i = m + 1 /\ i - 1 = m
        BY <3>3
      <4>2. g[i] = F[<<m + 1, f[m]>>]
        BY <3>3
      <4> HIDE DEF g
      <4> QED
        BY <3>1, <4>1, <4>2
    <3> QED
      BY <3>2, <3>3
  <2>7. Good(m + 1, g)
    BY <2>4, <2>5, <2>6
  <2> QED
    BY <2>7
<1> HIDE DEF S
<1>3. n \in S
  BY <1>1, <1>2, Induction
<1>4. \E f : Good(n, f)
  BY <1>3 DEF S
<1> QED
  BY <1>4 DEF HasSolution

\* Sets of numbers have a least and, when bounded, a greatest element.
LEMMA MinFacts ==
  ASSUME NEW S \in SUBSET Nat, S # {}
  PROVE  Min(S) \in S /\ \A y \in S : Min(S) <= y
<1>1. PICK x \in S : \A y \in S : <<y, x>> \notin OpToRel(<, Nat)
  <2>1. IsWellFoundedOn(OpToRel(<, Nat), Nat)
    BY NatLessThanWellFounded
  <2> QED
    BY <2>1, WFMin
<1>2. \A y \in S : ~(y < x)
  BY <1>1, Zenon DEF OpToRel
<1>3. x \in Nat /\ \A y \in S : y \in Nat
  OBVIOUS
<1>4. \A y \in S : x <= y
  BY <1>2, <1>3
<1> QED
  BY <1>4, Zenon DEF Min

LEMMA MaxFacts ==
  ASSUME NEW n \in Nat, NEW S \in SUBSET (0..n), S # {}
  PROVE  Max(S) \in S /\ \A y \in S : Max(S) >= y
<1> DEFINE T == {n - x : x \in S}
<1>1. T \in SUBSET Nat /\ T # {}
  OBVIOUS
<1>2. Min(T) \in T /\ \A y \in T : Min(T) <= y
  BY <1>1, MinFacts
<1>3. PICK x \in S : Min(T) = n - x
  BY <1>2
<1>4. \A y \in S : n - x <= n - y
  BY <1>2, <1>3
<1>5. \A y \in S : x >= y
  BY <1>4
<1> QED
  BY <1>5, Zenon DEF Max

-----------------------------------------------------------------------------
(* Lists.                                                                  *)

LEMMA ListFacts ==
  ASSUME NEW list \in Seq(Int)
  PROVE  /\ Len(list) \in Nat /\ DOMAIN list = 1..Len(list)
         /\ \A i \in 1..Len(list) : list[i] \in Int
         /\ ToSet(list) = {list[i] : i \in 1..Len(list)}
BY DEF ToSet

LEMMA AppendFacts ==
  ASSUME NEW list \in Seq(Int), NEW x \in Int
  PROVE  /\ Append(list, x) \in Seq(Int) /\ Len(Append(list, x)) = Len(list) + 1
         /\ \A i \in 1..Len(list) : Append(list, x)[i] = list[i]
         /\ Append(list, x)[Len(list) + 1] = x
         /\ ToSet(Append(list, x)) = ToSet(list) \union {x}
<1>1. /\ Append(list, x) \in Seq(Int) /\ Len(Append(list, x)) = Len(list) + 1
      /\ \A i \in 1..Len(list) : Append(list, x)[i] = list[i]
      /\ Append(list, x)[Len(list) + 1] = x
  BY AppendProperties
<1> DEFINE longer == Append(list, x)
<1> HIDE DEF longer
<1>2. ToSet(longer) = {longer[i] : i \in 1..Len(longer)} /\ ToSet(list) = {list[i] : i \in 1..Len(list)}
  BY <1>1, ListFacts DEF longer
<1>3. Len(list) \in Nat
  BY ListFacts
<1>4. ToSet(longer) = ToSet(list) \union {x}
  BY <1>1, <1>2, <1>3 DEF longer
<1> QED
  BY <1>1, <1>4 DEF longer

\* The copy of a list satisfies the equations that define it.
LEMMA CopiedFacts ==
  ASSUME NEW list \in Seq(Int), NEW ids
  PROVE  /\ Copied(list, ids) \in [0..Len(list) -> Seq(Int)]
         /\ Copied(list, ids)[0] = <<>>
         /\ \A i \in 1..Len(list) : Copied(list, ids)[i] =
              IF list[i] \in ids THEN Copied(list, ids)[i - 1]
              ELSE Append(Copied(list, ids)[i - 1], list[i])
<1> DEFINE n == Len(list)
           F == [p \in (1..n) \X Seq(Int) |->
                  IF list[p[1]] \in ids THEN p[2] ELSE Append(p[2], list[p[1]])]
           Body(f, i) == IF i = 0 THEN <<>>
                         ELSE IF list[i] \in ids THEN f[i - 1] ELSE Append(f[i - 1], list[i])
<1>1. n \in Nat /\ \A i \in 1..n : list[i] \in Int
  BY ListFacts
<1>2. \A i \in 1..n, s \in Seq(Int) :
        F[<<i, s>>] = IF list[i] \in ids THEN s ELSE Append(s, list[i])
  OBVIOUS
<1>3. F \in [(1..n) \X Seq(Int) -> Seq(Int)]
  BY <1>1, AppendFacts
<1> HIDE DEF F, n
<1>4. PICK f \in [0..n -> Seq(Int)] : f[0] = <<>> /\ \A i \in 1..n : f[i] = F[<<i, f[i - 1]>>]
  <2>1. <<>> \in Seq(Int)
    BY EmptySeq
  <2>2. HasSolution(Seq(Int), n, <<>>, F)
    BY <1>1, <1>3, <2>1, Recursion
  <2> QED
    BY <2>2 DEF HasSolution
<1>5. ASSUME NEW i \in 0..n PROVE f[i] = Body(f, i)
  <2>1. CASE i = 0
    BY <1>4, <2>1
  <2>2. CASE i # 0
    <3>1. i \in 1..n /\ i - 1 \in 0..n /\ f[i - 1] \in Seq(Int)
      BY <1>1, <2>2
    <3>2. f[i] = F[<<i, f[i - 1]>>]
      BY <1>4, <3>1
    <3> QED
      BY <1>2, <2>2, <3>1, <3>2
  <2> QED
    BY <2>1, <2>2
<1> DEFINE g == Copied(list, ids)
<1>6. f = [i \in 0..n |-> Body(f, i)]
  <2> HIDE DEF Body
  <2> QED
    BY <1>5
<1>7. g = [i \in 0..n |-> Body(g, i)]
  BY <1>6, Zenon DEF Copied, n
<1> HIDE DEF g
<1>8. DOMAIN g = 0..n /\ \A i \in 0..n : g[i] = Body(g, i)
  <2> HIDE DEF Body
  <2> QED
    BY <1>7, Zenon
<1>9. 0 \in 0..n /\ \A i \in 1..n : i \in 0..n /\ i # 0
  BY <1>1
<1>10. g[0] = <<>> /\ \A i \in 1..n : g[i] = IF list[i] \in ids THEN g[i - 1]
                                            ELSE Append(g[i - 1], list[i])
  BY <1>8, <1>9, Zenon
<1> DEFINE S == {k \in Nat : k <= n => g[k] \in Seq(Int)}
<1>11. 0 \in S
  BY <1>10, EmptySeq
<1>12. \A k \in Nat : k \in S => k + 1 \in S
  <2> SUFFICES ASSUME NEW k \in Nat, k <= n => g[k] \in Seq(Int), k + 1 <= n
               PROVE  g[k + 1] \in Seq(Int)
    OBVIOUS
  <2>1. k + 1 \in 1..n /\ (k + 1) - 1 = k /\ g[k] \in Seq(Int)
    BY <1>1
  <2>2. g[k + 1] = IF list[k + 1] \in ids THEN g[k] ELSE Append(g[k], list[k + 1])
    BY <1>10, <2>1
  <2> QED
    BY <1>1, <2>1, <2>2, AppendFacts
<1> HIDE DEF S
<1>13. Nat \subseteq S
  BY <1>11, <1>12, Induction
<1>14. \A k \in 0..n : g[k] \in Seq(Int)
  BY <1>1, <1>13 DEF S
<1>15. g \in [0..n -> Seq(Int)]
  <2>1. g = [k \in 0..n |-> g[k]]
    BY <1>7, <1>8
  <2> QED
    BY <1>14, <2>1
<1> QED
  BY <1>10, <1>15 DEF g, n

LEMMA InjectiveAppend ==
  ASSUME NEW list \in Seq(Int), IsInjective(list), NEW x \in Int, x \notin ToSet(list)
  PROVE  IsInjective(Append(list, x))
<1> DEFINE longer == Append(list, x)
<1>1. /\ Len(list) \in Nat /\ DOMAIN list = 1..Len(list)
      /\ \A i \in 1..Len(list) : list[i] # x
  BY ListFacts
<1>2. \A i, k \in 1..Len(list) : list[i] = list[k] => i = k
  BY <1>1 DEF IsInjective
<1>3. /\ DOMAIN longer = 1..(Len(list) + 1)
      /\ \A i \in 1..Len(list) : longer[i] = list[i]
      /\ longer[Len(list) + 1] = x
  BY AppendFacts, ListFacts
<1> HIDE DEF longer
<1>4. \A i, k \in 1..(Len(list) + 1) : longer[i] = longer[k] => i = k
  BY <1>1, <1>2, <1>3
<1> QED
  BY <1>3, <1>4, Zenon DEF IsInjective, longer

\* The part that has been copied: its units, each once, and in place as long
\* as none is left out.
CopiedTo(list, ids, i) ==
  LET copy == Copied(list, ids)[i]
  IN /\ copy \in Seq(Int) /\ ToSet(copy) = {list[k] : k \in 1..i} \ ids
     /\ IsInjective(list) => IsInjective(copy)
     /\ (\A k \in 1..i : list[k] \notin ids) => Len(copy) = i /\ \A k \in 1..i : copy[k] = list[k]

LEMMA CopiedPrefix ==
  ASSUME NEW list \in Seq(Int), NEW ids
  PROVE  \A i \in 0..Len(list) : CopiedTo(list, ids, i)
<1> DEFINE n == Len(list)
           c == Copied(list, ids)
           S == {i \in Nat : i <= n => CopiedTo(list, ids, i)}
<1>1. n \in Nat /\ (\A i \in 1..n : list[i] \in Int) /\ DOMAIN list = 1..n
  BY ListFacts
<1>2. /\ c \in [0..n -> Seq(Int)] /\ c[0] = <<>>
      /\ \A i \in 1..n : c[i] = IF list[i] \in ids THEN c[i - 1] ELSE Append(c[i - 1], list[i])
  BY CopiedFacts
<1> HIDE DEF c, n
<1>3. 0 \in S
  <2>1. /\ <<>> \in Seq(Int) /\ Len(<<>>) = 0 /\ ToSet(<<>>) = {} /\ IsInjective(<<>>)
    BY DEF ToSet, IsInjective
  <2> QED
    BY <1>2, <2>1 DEF CopiedTo, c
<1>4. \A i \in Nat : i \in S => i + 1 \in S
  <2> SUFFICES ASSUME NEW i \in Nat, i <= n => CopiedTo(list, ids, i), i + 1 <= n
               PROVE  CopiedTo(list, ids, i + 1)
    OBVIOUS
  <2> DEFINE x == list[i + 1]
  <2>1. /\ i + 1 \in 1..n /\ (i + 1) - 1 = i /\ i \in 0..n /\ i <= n
        /\ x \in Int /\ c[i] \in Seq(Int)
    BY <1>1, <1>2
  <2>2. c[i + 1] = IF x \in ids THEN c[i] ELSE Append(c[i], x)
    BY <1>2, <2>1
  <2>3. CopiedTo(list, ids, i)
    BY <2>1
  <2>4. {list[k] : k \in 1..(i + 1)} = {list[k] : k \in 1..i} \union {x}
    OBVIOUS
  <2> HIDE DEF x
  <2>5. CASE x \in ids
    <3>1. c[i + 1] = c[i]
      BY <2>2, <2>5
    <3>2. ~\A k \in 1..(i + 1) : list[k] \notin ids
      BY <2>5 DEF x
    <3> QED
      BY <2>3, <2>4, <2>5, <3>1, <3>2, Zenon DEF CopiedTo, c
  <2>6. CASE x \notin ids
    <3>1. c[i + 1] = Append(c[i], x)
      BY <2>2, <2>6
    <3>2. c[i + 1] \in Seq(Int) /\ ToSet(c[i + 1]) = ToSet(c[i]) \union {x}
      BY <2>1, <3>1, AppendFacts
    <3>3. ToSet(c[i + 1]) = {list[k] : k \in 1..(i + 1)} \ ids
      <4>1. ToSet(c[i]) = {list[k] : k \in 1..i} \ ids
        BY <2>3 DEF CopiedTo, c
      <4> QED
        BY <2>4, <2>6, <3>2, <4>1
    <3>4. ASSUME IsInjective(list) PROVE IsInjective(c[i + 1])
      <4>1. IsInjective(c[i]) /\ ToSet(c[i]) = {list[k] : k \in 1..i} \ ids
        BY <2>3, <3>4 DEF CopiedTo, c
      <4>2. \A k \in 1..i : list[k] # x
        BY <1>1, <2>1, <3>4 DEF IsInjective, x
      <4>3. x \notin ToSet(c[i])
        BY <4>1, <4>2
      <4> QED
        BY <2>1, <3>1, <4>1, <4>3, InjectiveAppend
    <3>5. ASSUME \A k \in 1..(i + 1) : list[k] \notin ids
          PROVE  Len(c[i + 1]) = i + 1 /\ \A k \in 1..(i + 1) : c[i + 1][k] = list[k]
      <4>1. Len(c[i]) = i /\ \A k \in 1..i : c[i][k] = list[k]
        <5>1. \A k \in 1..i : list[k] \notin ids
          BY <3>5
        <5> QED
          BY <2>3, <5>1 DEF CopiedTo, c
      <4>2. /\ Len(Append(c[i], x)) = i + 1 /\ Append(c[i], x)[i + 1] = x
            /\ \A k \in 1..i : Append(c[i], x)[k] = c[i][k]
        BY <2>1, <4>1, AppendFacts
      <4> QED
        BY <3>1, <4>1, <4>2 DEF x
    <3> QED
      BY <3>2, <3>3, <3>4, <3>5, Zenon DEF CopiedTo, c
  <2> QED
    BY <2>5, <2>6
<1> HIDE DEF S
<1>5. Nat \subseteq S
  BY <1>3, <1>4, Induction
<1> QED
  BY <1>1, <1>5 DEF S, n

LEMMA KeptFacts ==
  ASSUME NEW list \in Seq(Int), NEW ids
  PROVE  /\ Kept(list, ids) \in Seq(Int) /\ ToSet(Kept(list, ids)) = ToSet(list) \ ids
         /\ IsInjective(list) => IsInjective(Kept(list, ids))
         /\ ToSet(list) \intersect ids = {} => Kept(list, ids) = list
<1>1. Len(list) \in 0..Len(list) /\ ToSet(list) = {list[i] : i \in 1..Len(list)}
  BY ListFacts
<1>2. CopiedTo(list, ids, Len(list))
  BY <1>1, CopiedPrefix
<1>3. ASSUME ToSet(list) \intersect ids = {} PROVE Kept(list, ids) = list
  <2>1. \A k \in 1..Len(list) : list[k] \notin ids
    BY <1>1, <1>3
  <2>2. /\ Kept(list, ids) \in Seq(Int) /\ Len(Kept(list, ids)) = Len(list)
        /\ \A k \in 1..Len(list) : Kept(list, ids)[k] = list[k]
    BY <1>2, <2>1, Zenon DEF CopiedTo, Kept
  <2> QED
    BY <2>2, SeqEqual
<1> QED
  BY <1>1, <1>2, <1>3, Zenon DEF CopiedTo, Kept

\* The new list has the unit at an index and else the units of the old one.
HasAt(list, new, at, u) ==
  /\ at \in 1..(Len(list) + 1) /\ new \in Seq(Int) /\ Len(new) = Len(list) + 1
  /\ \A k \in 1..(Len(list) + 1) :
       new[k] = IF k < at THEN list[k] ELSE IF k = at THEN u ELSE list[k - 1]

\* A unit is inserted at its index, or at the end.
LEMMA InsertedShape ==
  ASSUME NEW list \in Seq(Int), NEW i \in Nat \ {0}, NEW u \in Int
  PROVE  \E at : (i <= Len(list) + 1 => at = i) /\ HasAt(list, Inserted(list, i, u), at, u)
<1> DEFINE n == Len(list)
           at == IF i <= n THEN i ELSE n + 1
           new == [k \in 1..(n + 1) |-> IF k < at THEN list[k] ELSE IF k = at THEN u ELSE list[k - 1]]
<1>1. n \in Nat /\ \A k \in 1..n : list[k] \in Int
  BY ListFacts
<1>2. at \in 1..(n + 1) /\ (i <= n + 1 => at = i)
  BY <1>1
<1>3. Inserted(list, i, u) = new
  BY Zenon DEF Inserted
<1> HIDE DEF at
<1>4. ASSUME NEW k \in 1..(n + 1)
      PROVE  (IF k < at THEN list[k] ELSE IF k = at THEN u ELSE list[k - 1]) \in Int
  <2>1. k < at => k \in 1..n
    BY <1>1, <1>2
  <2>2. ~(k < at) /\ k # at => k - 1 \in 1..n
    BY <1>1, <1>2
  <2> QED
    BY <1>1, <2>1, <2>2
<1>5. new \in [1..(n + 1) -> Int]
  BY <1>4
<1>6. new \in Seq(Int) /\ Len(new) = n + 1
  BY <1>1, <1>5
<1>7. \A k \in 1..(n + 1) : new[k] = IF k < at THEN list[k] ELSE IF k = at THEN u ELSE list[k - 1]
  OBVIOUS
<1> HIDE DEF new
<1> QED
  BY <1>2, <1>3, <1>6, <1>7, Zenon DEF n, HasAt

LEMMA InsertedFacts ==
  ASSUME NEW list \in Seq(Int), NEW i \in Nat \ {0}, NEW u \in Int
  PROVE  /\ Inserted(list, i, u) \in Seq(Int)
         /\ ToSet(Inserted(list, i, u)) = ToSet(list) \union {u}
         /\ IsInjective(list) /\ u \notin ToSet(list) => IsInjective(Inserted(list, i, u))
<1> DEFINE n == Len(list)
           new == Inserted(list, i, u)
<1>1. n \in Nat /\ DOMAIN list = 1..n /\ ToSet(list) = {list[k] : k \in 1..n}
  BY ListFacts
<1>20. PICK at : HasAt(list, new, at, u)
  BY InsertedShape, Zenon
<1>2. /\ at \in 1..(n + 1) /\ new \in Seq(Int) /\ Len(new) = n + 1
      /\ \A k \in 1..(n + 1) : new[k] = IF k < at THEN list[k] ELSE IF k = at THEN u ELSE list[k - 1]
  BY <1>20, Zenon DEF HasAt
<1> HIDE DEF n, new
<1>3. DOMAIN new = 1..(n + 1) /\ ToSet(new) = {new[k] : k \in 1..(n + 1)}
  BY <1>2, ListFacts
<1>4. \A k \in 1..n : new[IF k < at THEN k ELSE k + 1] = list[k]
                      /\ (IF k < at THEN k ELSE k + 1) \in 1..(n + 1)
  BY <1>1, <1>2
<1>5. new[at] = u
  BY <1>2
<1>6. ToSet(new) = ToSet(list) \union {u}
  <2>1. ASSUME NEW k \in 1..(n + 1) PROVE new[k] \in ToSet(list) \union {u}
    <3>1. k < at => k \in 1..n
      BY <1>1, <1>2
    <3>2. ~(k < at) /\ k # at => k - 1 \in 1..n
      BY <1>1, <1>2
    <3> QED
      BY <1>1, <1>2, <3>1, <3>2
  <2>2. ASSUME NEW x \in ToSet(list) PROVE x \in ToSet(new)
    <3>1. PICK k \in 1..n : x = list[k]
      BY <1>1
    <3> QED
      BY <1>3, <1>4, <3>1, Zenon
  <2>3. u \in ToSet(new)
    BY <1>2, <1>3, <1>5, Zenon
  <2> QED
    BY <1>3, <2>1, <2>2, <2>3
<1>7. ASSUME IsInjective(list), u \notin ToSet(list), NEW k \in 1..(n + 1), NEW m \in 1..(n + 1),
             new[k] = new[m]
      PROVE  k = m
  <2>1. \A a, b \in 1..n : list[a] = list[b] => a = b
    BY <1>1, <1>7 DEF IsInjective
  <2>2. \A a \in 1..n : list[a] # u
    BY <1>1, <1>7
  <2>3. ASSUME NEW a \in 1..(n + 1)
        PROVE  \/ a < at /\ a \in 1..n /\ new[a] = list[a]
               \/ a = at /\ new[a] = u
               \/ a > at /\ a - 1 \in 1..n /\ new[a] = list[a - 1]
    BY <1>1, <1>2
  <2>4. new[k] = u <=> k = at
    BY <2>2, <2>3
  <2>5. new[m] = u <=> m = at
    BY <2>2, <2>3
  <2>6. CASE k # at /\ m # at
    <3>1. \/ k < at /\ k \in 1..n /\ new[k] = list[k]
          \/ k > at /\ k - 1 \in 1..n /\ new[k] = list[k - 1]
      BY <2>3, <2>6
    <3>2. \/ m < at /\ m \in 1..n /\ new[m] = list[m]
          \/ m > at /\ m - 1 \in 1..n /\ new[m] = list[m - 1]
      BY <2>3, <2>6
    <3> QED
      BY <1>1, <1>2, <1>7, <2>1, <3>1, <3>2
  <2> QED
    BY <1>7, <2>4, <2>5, <2>6
<1>8. IsInjective(list) /\ u \notin ToSet(list) => IsInjective(new)
  BY <1>3, <1>7, Zenon DEF IsInjective
<1> QED
  BY <1>2, <1>6, <1>8, Zenon DEF n, new

\* What follows behind the place of the insertion is not affected by it.
LEMMA InsertedBefore ==
  ASSUME NEW list \in Seq(Int), NEW i \in 1..(Len(list) + 1), NEW u \in Int, NEW more \in Seq(Int)
  PROVE  Inserted(list \o more, i, u) = Inserted(list, i, u) \o more
<1> DEFINE n == Len(list)
           m == Len(more)
           long == list \o more
           new == Inserted(list, i, u)
           newLong == Inserted(long, i, u)
<1>1. n \in Nat /\ m \in Nat /\ i \in Nat \ {0} /\ i <= n + 1 /\ i <= (n + m) + 1
  BY ListFacts
<1>2. /\ long \in Seq(Int) /\ Len(long) = n + m
      /\ \A k \in 1..(n + m) : long[k] = IF k <= n THEN list[k] ELSE more[k - n]
  BY ConcatProperties
<1>3. HasAt(list, new, i, u)
  <2>1. PICK at : (i <= n + 1 => at = i) /\ HasAt(list, new, at, u)
    BY <1>1, InsertedShape, Zenon
  <2> QED
    BY <1>1, <2>1, Zenon
<1>30. /\ new \in Seq(Int) /\ Len(new) = n + 1
       /\ \A k \in 1..(n + 1) : new[k] = IF k < i THEN list[k] ELSE IF k = i THEN u ELSE list[k - 1]
  BY <1>3, Zenon DEF HasAt
<1> HIDE DEF long
<1>4. HasAt(long, newLong, i, u)
  <2>1. PICK at : (i <= Len(long) + 1 => at = i) /\ HasAt(long, newLong, at, u)
    BY <1>1, <1>2, InsertedShape, Zenon
  <2>2. i <= Len(long) + 1
    BY <1>1, <1>2
  <2> QED
    BY <2>1, <2>2, Zenon
<1>40. /\ newLong \in Seq(Int) /\ Len(newLong) = (n + m) + 1
       /\ \A k \in 1..((n + m) + 1) :
            newLong[k] = IF k < i THEN long[k] ELSE IF k = i THEN u ELSE long[k - 1]
  BY <1>2, <1>4, Zenon DEF HasAt
<1> HIDE DEF new, newLong
<1>5. /\ new \o more \in Seq(Int) /\ Len(new \o more) = Len(new) + m
      /\ \A k \in 1..(Len(new) + m) :
           (new \o more)[k] = IF k <= Len(new) THEN new[k] ELSE more[k - Len(new)]
  BY <1>30, ConcatProperties
<1> DEFINE both == new \o more
<1> HIDE DEF both, n, m
<1>6. ASSUME NEW k \in 1..((n + m) + 1) PROVE newLong[k] = both[k]
  <2>1. both[k] = IF k <= n + 1 THEN new[k] ELSE more[k - (n + 1)]
    BY <1>1, <1>30, <1>5 DEF both
  <2>2. CASE k < i
    <3>1. k \in 1..(n + m) /\ k <= n /\ k \in 1..(n + 1) /\ k <= n + 1
      BY <1>1, <2>2
    <3>2. newLong[k] = long[k] /\ long[k] = list[k] /\ new[k] = list[k]
      BY <1>2, <1>30, <1>40, <2>2, <3>1, Zenon
    <3> QED
      BY <2>1, <3>1, <3>2
  <2>3. CASE k = i
    BY <1>1, <1>30, <1>40, <2>1, <2>3
  <2>4. CASE k > i /\ k <= n + 1
    <3>1. /\ ~(k < i) /\ k # i /\ k \in 1..(n + 1)
          /\ k - 1 \in 1..(n + m) /\ k - 1 <= n
      BY <1>1, <2>4
    <3>2. newLong[k] = long[k - 1] /\ long[k - 1] = list[k - 1] /\ new[k] = list[k - 1]
      BY <1>2, <1>30, <1>40, <3>1
    <3> QED
      BY <2>1, <2>4, <3>2
  <2>5. CASE k > n + 1
    <3>1. newLong[k] = long[k - 1] /\ k - 1 \in 1..(n + m) /\ ~(k - 1 <= n)
      BY <1>1, <1>40, <2>5
    <3>2. long[k - 1] = more[(k - 1) - n] /\ (k - 1) - n = k - (n + 1)
      BY <1>1, <1>2, <3>1
    <3> QED
      BY <1>1, <2>1, <2>5, <3>1, <3>2
  <2> QED
    BY <1>1, <2>2, <2>3, <2>4, <2>5
<1>7. both \in Seq(Int) /\ Len(both) = Len(newLong)
  BY <1>1, <1>30, <1>40, <1>5 DEF both
<1>8. newLong = both
  BY <1>40, <1>6, <1>7, SeqEqual
<1> QED
  BY <1>8 DEF newLong, both, new, long

\* Inserted right behind its end, a unit is appended to a list.
LEMMA InsertedLast ==
  ASSUME NEW list \in Seq(Int), NEW u \in Int
  PROVE  Inserted(list, Len(list) + 1, u) = Append(list, u)
<1> DEFINE n == Len(list)
           new == Inserted(list, n + 1, u)
           longer == Append(list, u)
<1>1. n \in Nat /\ n + 1 \in Nat \ {0}
  BY ListFacts
<1>2. HasAt(list, new, n + 1, u)
  <2>1. PICK at : (n + 1 <= n + 1 => at = n + 1) /\ HasAt(list, new, at, u)
    BY <1>1, InsertedShape, Zenon
  <2> QED
    BY <1>1, <2>1
<1>3. /\ new \in Seq(Int) /\ Len(new) = n + 1
      /\ \A k \in 1..(n + 1) :
           new[k] = IF k < n + 1 THEN list[k] ELSE IF k = n + 1 THEN u ELSE list[k - 1]
  BY <1>2, Zenon DEF HasAt
<1>4. /\ longer \in Seq(Int) /\ Len(longer) = n + 1
      /\ \A k \in 1..n : longer[k] = list[k]
      /\ longer[n + 1] = u
  BY AppendFacts
<1> HIDE DEF new, longer, n
<1>5. \A k \in 1..(n + 1) : new[k] = longer[k]
  BY <1>1, <1>3, <1>4
<1>6. new = longer
  BY <1>3, <1>4, <1>5, SeqEqual
<1> QED
  BY <1>6 DEF new, longer, n

LEMMA InsertedAppend ==
  ASSUME NEW list \in Seq(Int), NEW i \in 1..(Len(list) + 1), NEW u \in Int, NEW x \in Int
  PROVE  Inserted(Append(list, x), i, u) = Append(Inserted(list, i, u), x)
<1>1. Append(list, x) = list \o <<x>> /\ <<x>> \in Seq(Int)
  BY AppendIsConcat
<1>2. i \in Nat \ {0}
  BY ListFacts
<1>20. Inserted(list, i, u) \in Seq(Int)
  BY <1>2, InsertedFacts
<1>3. Append(Inserted(list, i, u), x) = Inserted(list, i, u) \o <<x>>
  BY <1>20, AppendIsConcat
<1> DEFINE more == <<x>>
<1>4. Inserted(list \o more, i, u) = Inserted(list, i, u) \o more
  <2>1. more \in Seq(Int)
    BY <1>1
  <2> HIDE DEF more
  <2> QED
    BY <2>1, InsertedBefore
<1> QED
  BY <1>1, <1>3, <1>4, Zenon

\* A unit that is left out returns to its index when all units in front of it
\* are there.
LEMMA Reinsert ==
  ASSUME NEW order \in Seq(Int), IsInjective(order), NEW i \in 1..Len(order), NEW X,
         \A k \in 1..i : order[k] \notin X
  PROVE  LET rest == Kept(order, X \union {order[i]})
         IN /\ i <= Len(rest) + 1
            /\ Inserted(rest, i, order[i]) = Kept(order, X)
<1> DEFINE n == Len(order)
           x == order[i]
           Y == X \union {x}
           c == Copied(order, X)
           d == Copied(order, Y)
           Good(k) == i <= Len(d[k]) + 1 /\ Inserted(d[k], i, x) = c[k]
           S == {m \in Nat : i + m <= n => Good(i + m)}
<1>1. /\ n \in Nat /\ i \in 1..n /\ DOMAIN order = 1..n
      /\ \A k \in 1..n : order[k] \in Int
      /\ \A k, m \in 1..n : order[k] = order[m] => k = m
  BY ListFacts DEF IsInjective
<1>2. /\ c \in [0..n -> Seq(Int)] /\ d \in [0..n -> Seq(Int)]
      /\ \A k \in 1..n : c[k] = IF order[k] \in X THEN c[k - 1] ELSE Append(c[k - 1], order[k])
      /\ \A k \in 1..n : d[k] = IF order[k] \in Y THEN d[k - 1] ELSE Append(d[k - 1], order[k])
  BY CopiedFacts
<1>3. \A k \in 1..(i - 1) : order[k] \notin X /\ order[k] \notin Y
  BY <1>1
<1>4. i - 1 \in 0..n /\ i \in 1..n
  BY <1>1
<1>5. CopiedTo(order, X, i - 1) /\ CopiedTo(order, Y, i - 1)
  BY <1>4, CopiedPrefix
<1>6. /\ Len(c[i - 1]) = i - 1 /\ \A k \in 1..(i - 1) : c[i - 1][k] = order[k]
      /\ Len(d[i - 1]) = i - 1 /\ \A k \in 1..(i - 1) : d[i - 1][k] = order[k]
  BY <1>3, <1>5, Zenon DEF CopiedTo
<1>7. x \in Int /\ x \notin X /\ x \in Y
  BY <1>1
<1> HIDE DEF c, d, n, Y, x
<1>8. c[i - 1] \in Seq(Int) /\ d[i - 1] \in Seq(Int) /\ d[i - 1] = c[i - 1]
  <2>1. c[i - 1] \in Seq(Int) /\ d[i - 1] \in Seq(Int)
    BY <1>2, <1>4
  <2>2. Len(d[i - 1]) = Len(c[i - 1]) /\ \A k \in 1..Len(d[i - 1]) : d[i - 1][k] = c[i - 1][k]
    BY <1>6
  <2> QED
    BY <2>1, <2>2, SeqEqual
<1>9. Good(i)
  <2>1. d[i] = d[i - 1] /\ c[i] = Append(c[i - 1], x)
    BY <1>2, <1>4, <1>7 DEF x
  <2>2. Inserted(d[i], i, x) = Append(d[i], x) /\ Len(d[i]) = i - 1
    <3>1. Len(d[i]) = i - 1 /\ i = Len(d[i]) + 1
      BY <1>4, <1>6, <2>1
    <3>2. Inserted(d[i], Len(d[i]) + 1, x) = Append(d[i], x)
      BY <1>7, <1>8, <2>1, InsertedLast
    <3> QED
      BY <3>1, <3>2, Zenon
  <2> QED
    BY <1>4, <1>8, <2>1, <2>2
<1>10. 0 \in S
  BY <1>4, <1>9
<1>11. \A m \in Nat : m \in S => m + 1 \in S
  <2> SUFFICES ASSUME NEW m \in Nat, i + m <= n => Good(i + m), i + (m + 1) <= n
               PROVE  Good(i + (m + 1))
    OBVIOUS
  <2> DEFINE k == i + (m + 1)
             y == order[k]
  <2>1. k \in 1..n /\ k - 1 = i + m /\ i + m <= n /\ k - 1 \in 0..n /\ k # i
    BY <1>1
  <2> HIDE DEF k
  <2>2. Good(k - 1) /\ d[k - 1] \in Seq(Int) /\ y \in Int /\ y # x
    BY <1>1, <1>2, <2>1 DEF x
  <2> HIDE DEF Good
  <2>3. y \in Y <=> y \in X
    BY <2>2 DEF Y
  <2>4. CASE y \in X
    <3>1. c[k] = c[k - 1] /\ d[k] = d[k - 1]
      BY <1>2, <2>1, <2>3, <2>4, Zenon
    <3> QED
      BY <2>2, <3>1 DEF Good, k
  <2>5. CASE y \notin X
    <3>1. c[k] = Append(c[k - 1], y) /\ d[k] = Append(d[k - 1], y)
      BY <1>2, <2>1, <2>3, <2>5, Zenon
    <3>2. i <= Len(d[k - 1]) + 1 /\ Inserted(d[k - 1], i, x) = c[k - 1]
      BY <2>2 DEF Good
    <3>3. i \in 1..(Len(d[k - 1]) + 1) /\ Len(d[k - 1]) \in Nat
      BY <1>1, <2>2, <3>2, ListFacts
    <3> DEFINE e == d[k - 1]
    <3>4. Inserted(Append(e, y), i, x) = Append(Inserted(e, i, x), y)
      <4> HIDE DEF e, y
      <4>1. e \in Seq(Int) /\ y \in Int /\ x \in Int /\ i \in 1..(Len(e) + 1)
        BY <1>7, <2>2, <3>3 DEF e
      <4> QED
        BY <4>1, InsertedAppend
    <3>5. Len(d[k]) = Len(d[k - 1]) + 1
      BY <2>2, <3>1, AppendFacts
    <3> QED
      BY <1>1, <3>1, <3>2, <3>3, <3>4, <3>5 DEF Good, k
  <2> QED
    BY <2>4, <2>5
<1> HIDE DEF S
<1>12. n - i \in Nat /\ i + (n - i) = n
  BY <1>1
<1>13. Good(n)
  <2>1. n - i \in S
    BY <1>10, <1>11, <1>12, Induction
  <2>2. i + (n - i) <= n
    BY <1>1
  <2>3. Good(i + (n - i))
    BY <2>1, <2>2, Zenon DEF S
  <2> QED
    BY <1>12, <2>3
<1> QED
  BY <1>13, Zenon DEF Kept, c, d, n, Y, x

\* A proxy leaves the others behind as they were when it was inserted.
LEMMA Unmerge ==
  ASSUME NEW list \in Seq(Int), NEW i \in 1..(Len(list) + 1), NEW a \in Int, a \notin ToSet(list)
  PROVE  Kept(Inserted(list, i, a), {a}) = list
<1> DEFINE n == Len(list)
           new == Inserted(list, i, a)
           c == Copied(new, {a})
           Size(k) == IF k < i THEN k ELSE k - 1
           Good(k) == Len(c[k]) = Size(k) /\ \A j \in 1..Size(k) : c[k][j] = list[j]
           S == {k \in Nat : k <= n + 1 => Good(k)}
<1>1. /\ n \in Nat /\ i \in 1..(n + 1) /\ i \in Nat \ {0}
      /\ \A k \in 1..n : list[k] \in Int /\ list[k] # a
  BY ListFacts
<1>2. HasAt(list, new, i, a)
  <2>1. PICK at : (i <= n + 1 => at = i) /\ HasAt(list, new, at, a)
    BY <1>1, InsertedShape, Zenon
  <2> QED
    BY <1>1, <2>1
<1>3. /\ new \in Seq(Int) /\ Len(new) = n + 1
      /\ \A k \in 1..(n + 1) : new[k] = IF k < i THEN list[k] ELSE IF k = i THEN a ELSE list[k - 1]
  BY <1>2, Zenon DEF HasAt
<1>4. /\ c \in [0..(n + 1) -> Seq(Int)] /\ c[0] = <<>>
      /\ \A k \in 1..(n + 1) : c[k] = IF new[k] \in {a} THEN c[k - 1] ELSE Append(c[k - 1], new[k])
  <2> HIDE DEF new
  <2> QED
    BY <1>3, CopiedFacts
<1> HIDE DEF new, c, n
<1>5. 0 \in S
  BY <1>1, <1>4
<1>6. \A k \in Nat : k \in S => k + 1 \in S
  <2> SUFFICES ASSUME NEW k \in Nat, k <= n + 1 => Good(k), k + 1 <= n + 1 PROVE Good(k + 1)
    OBVIOUS
  <2>1. /\ k + 1 \in 1..(n + 1) /\ (k + 1) - 1 = k /\ k \in 0..(n + 1) /\ c[k] \in Seq(Int)
        /\ k <= n + 1
    BY <1>1, <1>4
  <2>2. Len(c[k]) = Size(k) /\ \A j \in 1..Size(k) : c[k][j] = list[j]
    BY <2>1
  <2>3. CASE k + 1 = i
    <3>1. new[k + 1] = a
      BY <1>3, <2>1, <2>3
    <3>2. c[k + 1] = c[k]
      BY <1>4, <2>1, <3>1
    <3>3. Size(k + 1) = Size(k)
      BY <1>1, <2>3
    <3> HIDE DEF Size
    <3> QED
      BY <2>2, <3>2, <3>3
  <2>4. CASE k + 1 # i
    <3> DEFINE j == IF k + 1 < i THEN k + 1 ELSE k
    <3>1. j \in 1..n /\ Size(k + 1) = j /\ Size(k) = j - 1
      BY <1>1, <2>1, <2>4
    <3>2. new[k + 1] = list[j]
      BY <1>3, <2>1, <2>4
    <3> HIDE DEF j, Size
    <3>3. list[j] \in Int /\ list[j] # a
      BY <1>1, <3>1
    <3>4. c[k + 1] = Append(c[k], list[j])
      BY <1>4, <2>1, <3>2, <3>3
    <3>5. /\ Len(c[k + 1]) = j /\ c[k + 1][j] = list[j]
          /\ \A m \in 1..(j - 1) : c[k + 1][m] = c[k][m]
      BY <2>1, <2>2, <3>1, <3>3, <3>4, AppendFacts
    <3> QED
      BY <2>2, <3>1, <3>5
  <2> QED
    BY <2>3, <2>4
<1> HIDE DEF S
<1>7. n + 1 \in S
  BY <1>1, <1>5, <1>6, Induction
<1>8. n + 1 \in Nat /\ n + 1 <= n + 1 /\ Size(n + 1) = n
  BY <1>1
<1>9. Good(n + 1)
  BY <1>7, <1>8, Zenon DEF S
<1>10. c[n + 1] \in Seq(Int)
  BY <1>1, <1>4
<1>11. c[n + 1] = list
  <2> HIDE DEF Size
  <2> QED
    BY <1>8, <1>9, <1>10, SeqEqual DEF n
<1> QED
  BY <1>3, <1>11, Zenon DEF Kept, c, new

-----------------------------------------------------------------------------
(* Places.                                                                 *)

LEMMA PlaceFacts ==
  ASSUME NEW order \in Seq(Int), NEW place, Stands(order, place), DOMAIN place # {}
  PROVE  /\ DOMAIN place \subseteq Int /\ DOMAIN place \subseteq ToSet(order)
         /\ Range(place) \subseteq 1..Len(order) /\ Range(place) # {}
         /\ Min(Range(place)) \in Range(place) /\ \A i \in Range(place) : Min(Range(place)) <= i
         /\ Max(Range(place)) \in Range(place) /\ \A i \in Range(place) : i <= Max(Range(place))
         /\ \A i \in Range(place) :
              /\ UnitAt(place, i) \in DOMAIN place /\ place[UnitAt(place, i)] = i
              /\ UnitAt(place, i) = order[i]
<1> DEFINE n == Len(order)
           R == Range(place)
<1>1. n \in Nat /\ ToSet(order) = {order[i] : i \in 1..n} /\ \A i \in 1..n : order[i] \in Int
  BY ListFacts
<1>2. \A u \in DOMAIN place : place[u] \in 1..n /\ order[place[u]] = u
  BY DEF Stands
<1>3. R = {place[u] : u \in DOMAIN place}
  BY DEF Range
<1> HIDE DEF n, R
<1>4. DOMAIN place \subseteq Int /\ DOMAIN place \subseteq ToSet(order)
  BY <1>1, <1>2
<1>5. R \subseteq 1..n /\ R # {}
  BY <1>2, <1>3
<1>6. R \in SUBSET Nat /\ R \in SUBSET (0..n)
  BY <1>1, <1>5
<1>7. Min(R) \in R /\ \A i \in R : Min(R) <= i
  BY <1>5, <1>6, MinFacts
<1>8. Max(R) \in R /\ \A i \in R : Max(R) >= i
  BY <1>1, <1>5, <1>6, MaxFacts
<1>9. \A i \in R : i <= Max(R)
  BY <1>1, <1>5, <1>8
<1>10. ASSUME NEW i \in R
       PROVE  UnitAt(place, i) \in DOMAIN place /\ place[UnitAt(place, i)] = i
  <2>1. \E u \in DOMAIN place : place[u] = i
    BY <1>3
  <2> QED
    BY <2>1, Zenon DEF UnitAt
<1>11. \A i \in R : UnitAt(place, i) = order[i]
  BY <1>2, <1>10
<1> QED
  BY <1>4, <1>5, <1>7, <1>8, <1>9, <1>10, <1>11 DEF n, R

\* The placement of units satisfies the equations that define it.
LEMMA PlacedFacts ==
  ASSUME NEW order \in Seq(Int), NEW place, Stands(order, place), DOMAIN place # {},
         NEW list \in Seq(Int)
  PROVE  LET m == Max(Range(place))
         IN /\ m \in Nat
            /\ Placed(place, list) \in [0..m -> Seq(Int)]
            /\ Placed(place, list)[0] = list
            /\ \A i \in 1..m : Placed(place, list)[i] =
                 IF i \in Range(place) THEN Inserted(Placed(place, list)[i - 1], i, UnitAt(place, i))
                 ELSE Placed(place, list)[i - 1]
<1> DEFINE R == Range(place)
           n == Max(R)
           F == [p \in (1..n) \X Seq(Int) |->
                  IF p[1] \in R THEN Inserted(p[2], p[1], UnitAt(place, p[1])) ELSE p[2]]
           Body(f, i) == IF i = 0 THEN list
                         ELSE IF i \in R THEN Inserted(f[i - 1], i, UnitAt(place, i)) ELSE f[i - 1]
<1>1. /\ n \in Nat /\ \A i \in R : UnitAt(place, i) \in Int
  <2>1. n \in R /\ R \subseteq 1..Len(order) /\ Len(order) \in Nat
    BY PlaceFacts, ListFacts
  <2>2. \A i \in R : UnitAt(place, i) \in Int
    BY PlaceFacts
  <2> HIDE DEF n, R
  <2> QED
    BY <2>1, <2>2
<1> HIDE DEF R, n
<1>2. \A i \in 1..n, s \in Seq(Int) :
        F[<<i, s>>] = IF i \in R THEN Inserted(s, i, UnitAt(place, i)) ELSE s
  OBVIOUS
<1>3. F \in [(1..n) \X Seq(Int) -> Seq(Int)]
  <2>1. ASSUME NEW i \in 1..n, NEW s \in Seq(Int), i \in R
        PROVE  Inserted(s, i, UnitAt(place, i)) \in Seq(Int)
    <3>1. i \in Nat \ {0} /\ UnitAt(place, i) \in Int
      BY <1>1, <2>1
    <3> QED
      BY <3>1, InsertedFacts
  <2> QED
    BY <2>1
<1> HIDE DEF F
<1>4. PICK f \in [0..n -> Seq(Int)] : f[0] = list /\ \A i \in 1..n : f[i] = F[<<i, f[i - 1]>>]
  <2>1. HasSolution(Seq(Int), n, list, F)
    BY <1>1, <1>3, Recursion
  <2> QED
    BY <2>1 DEF HasSolution
<1>5. ASSUME NEW i \in 0..n PROVE f[i] = Body(f, i)
  <2>1. CASE i = 0
    BY <1>4, <2>1
  <2>2. CASE i # 0
    <3>1. i \in 1..n /\ i - 1 \in 0..n /\ f[i - 1] \in Seq(Int)
      BY <1>1, <2>2
    <3>2. f[i] = F[<<i, f[i - 1]>>]
      BY <1>4, <3>1
    <3> QED
      BY <1>2, <2>2, <3>1, <3>2
  <2> QED
    BY <2>1, <2>2
<1> DEFINE g == Placed(place, list)
<1>6. f = [i \in 0..n |-> Body(f, i)]
  <2> HIDE DEF Body
  <2> QED
    BY <1>5
<1>7. g = [i \in 0..n |-> Body(g, i)]
  BY <1>6, Zenon DEF Placed, n, R
<1> HIDE DEF g
<1>8. DOMAIN g = 0..n /\ \A i \in 0..n : g[i] = Body(g, i)
  <2> HIDE DEF Body
  <2> QED
    BY <1>7, Zenon
<1>9. 0 \in 0..n /\ \A i \in 1..n : i \in 0..n /\ i # 0 /\ i \in Nat \ {0}
  BY <1>1
<1>10. g[0] = list /\ \A i \in 1..n : g[i] = IF i \in R THEN Inserted(g[i - 1], i, UnitAt(place, i))
                                             ELSE g[i - 1]
  BY <1>8, <1>9, Zenon
<1> DEFINE S == {k \in Nat : k <= n => g[k] \in Seq(Int)}
<1>11. 0 \in S
  BY <1>10
<1>12. \A k \in Nat : k \in S => k + 1 \in S
  <2> SUFFICES ASSUME NEW k \in Nat, k <= n => g[k] \in Seq(Int), k + 1 <= n
               PROVE  g[k + 1] \in Seq(Int)
    OBVIOUS
  <2>1. k + 1 \in 1..n /\ (k + 1) - 1 = k /\ g[k] \in Seq(Int) /\ k + 1 \in Nat \ {0}
    BY <1>1
  <2>2. g[k + 1] = IF k + 1 \in R THEN Inserted(g[k], k + 1, UnitAt(place, k + 1)) ELSE g[k]
    BY <1>10, <2>1
  <2> QED
    <3>1. CASE k + 1 \in R
      <4>1. UnitAt(place, k + 1) \in Int
        BY <1>1, <3>1
      <4>2. Inserted(g[k], k + 1, UnitAt(place, k + 1)) \in Seq(Int)
        BY <2>1, <4>1, InsertedFacts
      <4> QED
        BY <2>2, <3>1, <4>2
    <3> QED
      BY <2>1, <2>2, <3>1
<1> HIDE DEF S
<1>13. Nat \subseteq S
  BY <1>11, <1>12, Induction
<1>14. \A k \in 0..n : g[k] \in Seq(Int)
  BY <1>1, <1>13 DEF S
<1>15. g \in [0..n -> Seq(Int)]
  <2>1. g = [k \in 0..n |-> g[k]]
    BY <1>7, <1>8
  <2> QED
    BY <1>14, <2>1
<1> QED
  BY <1>1, <1>10, <1>15, Zenon DEF g, n, R

\* Units that were taken from a list return to where they stood, whatever has
\* been added to the list.
LEMMA PlacedRestores ==
  ASSUME NEW order \in Seq(Int), IsInjective(order), NEW place, Stands(order, place),
         DOMAIN place # {}, NEW since \in Seq(Int)
  PROVE  PlaceUnits(place, Kept(order, DOMAIN place) \o since) = order \o since
<1> DEFINE R == Range(place)
           n == Max(R)
           list == Kept(order, DOMAIN place) \o since
           g == Placed(place, list)
           Later(i) == {u \in DOMAIN place : place[u] > i}
           Good(i) == g[i] = Kept(order, Later(i)) \o since
           S == {i \in Nat : i <= n => Good(i)}
<1>1. /\ n \in R /\ R \subseteq 1..Len(order) /\ \A i \in R : i <= n
      /\ DOMAIN place \subseteq ToSet(order)
      /\ \A i \in R : UnitAt(place, i) \in DOMAIN place /\ place[UnitAt(place, i)] = i
                      /\ UnitAt(place, i) = order[i]
  BY PlaceFacts
<1>2. /\ Len(order) \in Nat /\ DOMAIN order = 1..Len(order)
      /\ \A i \in 1..Len(order) : order[i] \in Int
      /\ \A i, k \in 1..Len(order) : order[i] = order[k] => i = k
  BY ListFacts DEF IsInjective
<1>3. \A u \in DOMAIN place : place[u] \in R /\ place[u] \in 1..Len(order) /\ order[place[u]] = u
  BY DEF Stands, Range
<1>4. \A X : Kept(order, X) \in Seq(Int)
  BY KeptFacts
<1>5. list \in Seq(Int)
  BY <1>4, ConcatProperties
<1> HIDE DEF list
<1>6. /\ n \in Nat /\ g[0] = list
      /\ \A i \in 1..n : g[i] = IF i \in R THEN Inserted(g[i - 1], i, UnitAt(place, i)) ELSE g[i - 1]
  <2>1. LET m == Max(Range(place))
        IN /\ m \in Nat
           /\ Placed(place, list) \in [0..m -> Seq(Int)]
           /\ Placed(place, list)[0] = list
           /\ \A i \in 1..m : Placed(place, list)[i] =
                IF i \in Range(place) THEN Inserted(Placed(place, list)[i - 1], i, UnitAt(place, i))
                ELSE Placed(place, list)[i - 1]
    <3> HIDE DEF g, R, n
    <3> QED
      BY <1>5, PlacedFacts
  <2> QED
    BY <2>1, Zenon
<1> HIDE DEF g, R, n
<1>60. \A u \in DOMAIN place : place[u] \in Int /\ place[u] > 0 /\ place[u] <= n
  BY <1>1, <1>2, <1>3
<1>61. ASSUME NEW i \in Nat, i + 1 \notin R PROVE Later(i + 1) = Later(i)
  <2>1. \A u \in DOMAIN place : place[u] # i + 1
    BY <1>3, <1>61
  <2> QED
    BY <1>60, <2>1
<1>62. ASSUME NEW i \in Nat, i + 1 \in R
       PROVE  /\ Later(i) = Later(i + 1) \union {order[i + 1]}
              /\ \A m \in 1..(i + 1) : order[m] \notin Later(i + 1)
  <2>1. order[i + 1] \in DOMAIN place /\ place[order[i + 1]] = i + 1 /\ i + 1 \in 1..Len(order)
    BY <1>1, <1>62
  <2>2. \A u \in DOMAIN place : place[u] = i + 1 <=> u = order[i + 1]
    BY <1>3, <2>1
  <2>3. Later(i) = Later(i + 1) \union {order[i + 1]}
    <3>1. \A u \in DOMAIN place : place[u] > i <=> place[u] > i + 1 \/ u = order[i + 1]
      BY <1>60, <2>2
    <3> QED
      BY <2>1, <3>1
  <2>4. ASSUME NEW m \in 1..(i + 1), order[m] \in Later(i + 1) PROVE FALSE
    <3>1. order[m] \in DOMAIN place /\ place[order[m]] > i + 1 /\ order[place[order[m]]] = order[m]
      BY <1>3, <2>4
    <3>2. m \in 1..Len(order) /\ place[order[m]] \in 1..Len(order)
      BY <1>2, <1>3, <2>1, <3>1
    <3>3. m = place[order[m]]
      BY <1>2, <3>1, <3>2, Zenon
    <3> QED
      BY <3>1, <3>3
  <2> QED
    BY <2>3, <2>4
<1>7. 0 \in S
  <2>1. Later(0) = DOMAIN place
    BY <1>60
  <2>2. Good(0)
    <3> HIDE DEF Later
    <3> QED
      BY <1>6, <2>1 DEF list
  <2> QED
    BY <2>2
<1>8. \A i \in Nat : i \in S => i + 1 \in S
  <2> HIDE DEF Good
  <2> SUFFICES ASSUME NEW i \in Nat, i <= n => Good(i), i + 1 <= n PROVE Good(i + 1)
    OBVIOUS
  <2> DEFINE k == i + 1
  <2>1. k \in 1..n /\ k - 1 = i /\ i <= n /\ k \in Nat /\ k \in 1..Len(order)
    BY <1>1, <1>2, <1>6
  <2>2. g[i] = Kept(order, Later(i)) \o since
    BY <2>1, Zenon DEF Good
  <2>3. CASE k \notin R
    <3>1. g[k] = g[i]
      BY <1>6, <2>1, <2>3
    <3>2. Later(k) = Later(i)
      BY <1>61, <2>3
    <3> QED
      BY <2>2, <3>1, <3>2, Zenon DEF Good
  <2>4. CASE k \in R
    <3>1. g[k] = Inserted(g[i], k, order[k])
      BY <1>1, <1>6, <2>1, <2>4
    <3>2. Later(i) = Later(k) \union {order[k]}
      BY <1>62, <2>4
    <3>3. \A m \in 1..k : order[m] \notin Later(k)
      BY <1>62, <2>4
    <3> HIDE DEF Later, k
    <3>4. LET rest == Kept(order, Later(k) \union {order[k]})
          IN k <= Len(rest) + 1 /\ Inserted(rest, k, order[k]) = Kept(order, Later(k))
      BY <2>1, <3>3, Reinsert
    <3> DEFINE rest == Kept(order, Later(i))
    <3>5. k <= Len(rest) + 1 /\ Inserted(rest, k, order[k]) = Kept(order, Later(k))
      BY <3>2, <3>4, Zenon
    <3>6. rest \in Seq(Int)
      BY <1>4
    <3> HIDE DEF rest
    <3>7. k \in 1..(Len(rest) + 1) /\ order[k] \in Int
      BY <1>2, <2>1, <3>5, <3>6, ListFacts
    <3>8. Inserted(rest \o since, k, order[k]) = Inserted(rest, k, order[k]) \o since
      BY <3>6, <3>7, InsertedBefore
    <3> QED
      BY <2>2, <3>1, <3>5, <3>8, Zenon DEF Good, rest, k
  <2> QED
    BY <2>3, <2>4
<1> HIDE DEF S
<1>9. n \in S /\ n <= n
  BY <1>6, <1>7, <1>8, Induction
<1>10. g[n] = Kept(order, Later(n)) \o since
  BY <1>9, Zenon DEF S
<1>11. Later(n) = {}
  BY <1>6, <1>60
<1>12. Kept(order, {}) = order
  BY KeptFacts
<1> HIDE DEF Later
<1>13. g[n] = order \o since
  BY <1>10, <1>11, <1>12, Zenon
<1> QED
  BY <1>13, Zenon DEF PlaceUnits, g, list, n, R

\* In front of the first of the units taken from a list, all the others remain.
LEMMA RoomForFirst ==
  ASSUME NEW order \in Seq(Int), IsInjective(order), NEW place, Stands(order, place),
         DOMAIN place # {}, NEW since \in Seq(Int)
  PROVE  Min(Range(place)) \in 1..(Len(Kept(order, DOMAIN place) \o since) + 1)
<1> DEFINE i == Min(Range(place))
           X == DOMAIN place \ {order[i]}
           rest == Kept(order, DOMAIN place)
<1>1. /\ i \in Range(place) /\ Range(place) \subseteq 1..Len(order)
      /\ \A k \in Range(place) : i <= k
      /\ UnitAt(place, i) \in DOMAIN place /\ UnitAt(place, i) = order[i]
  BY PlaceFacts
<1>2. \A u \in DOMAIN place : place[u] \in Range(place) /\ order[place[u]] = u
  BY DEF Stands, Range
<1>3. /\ Len(order) \in Nat /\ DOMAIN order = 1..Len(order)
      /\ \A k, m \in 1..Len(order) : order[k] = order[m] => k = m
  BY ListFacts DEF IsInjective
<1> HIDE DEF i
<1>4. i \in 1..Len(order)
  BY <1>1
<1>5. ASSUME NEW k \in 1..i, order[k] \in X PROVE FALSE
  <2>1. /\ order[k] # order[i] /\ place[order[k]] \in Range(place)
        /\ order[place[order[k]]] = order[k] /\ k \in 1..Len(order)
    BY <1>2, <1>4, <1>5
  <2>2. k = place[order[k]]
    BY <1>1, <1>3, <2>1
  <2>3. i <= k
    BY <1>1, <2>1, <2>2
  <2> QED
    BY <1>4, <2>1, <2>3
<1>6. X \union {order[i]} = DOMAIN place
  BY <1>1
<1> HIDE DEF X
<1>7. i <= Len(Kept(order, X \union {order[i]})) + 1
  BY <1>4, <1>5, Reinsert
<1>8. i <= Len(rest) + 1 /\ rest \in Seq(Int)
  BY <1>6, <1>7, KeptFacts
<1> HIDE DEF rest
<1>9. Len(rest \o since) = Len(rest) + Len(since) /\ Len(rest) \in Nat /\ Len(since) \in Nat
  BY <1>8, ConcatProperties, ListFacts
<1>10. i \in 1..(Len(rest \o since) + 1)
  BY <1>4, <1>8, <1>9
<1> QED
  BY <1>10 DEF i, rest

LEMMA ConcatFacts ==
  ASSUME NEW one \in Seq(Int), NEW two \in Seq(Int)
  PROVE  /\ one \o two \in Seq(Int) /\ ToSet(one \o two) = ToSet(one) \union ToSet(two)
         /\ IsInjective(one) /\ IsInjective(two) /\ ToSet(one) \intersect ToSet(two) = {} =>
              IsInjective(one \o two)
         /\ IsInjective(one \o two) => IsInjective(two)
         /\ IsPrefix(one, one \o two)
<1> DEFINE n == Len(one)
           m == Len(two)
           all == one \o two
<1>1. /\ n \in Nat /\ m \in Nat /\ DOMAIN one = 1..n /\ DOMAIN two = 1..m
      /\ ToSet(one) = {one[k] : k \in 1..n} /\ ToSet(two) = {two[k] : k \in 1..m}
  BY ListFacts
<1>2. /\ all \in Seq(Int) /\ Len(all) = n + m
      /\ \A k \in 1..(n + m) : all[k] = IF k <= n THEN one[k] ELSE two[k - n]
  BY ConcatProperties
<1> HIDE DEF all, n, m
<1>3. DOMAIN all = 1..(n + m) /\ ToSet(all) = {all[k] : k \in 1..(n + m)}
  BY <1>2, ListFacts
<1>4. /\ \A k \in 1..n : k \in 1..(n + m) /\ all[k] = one[k]
      /\ \A k \in 1..m : k + n \in 1..(n + m) /\ all[k + n] = two[k]
      /\ \A k \in 1..(n + m) : \/ k \in 1..n /\ all[k] = one[k]
                               \/ k - n \in 1..m /\ all[k] = two[k - n]
  BY <1>1, <1>2
<1>5. ToSet(all) = ToSet(one) \union ToSet(two)
  <2>1. ToSet(one) \subseteq ToSet(all)
    BY <1>1, <1>3, <1>4
  <2>2. ToSet(two) \subseteq ToSet(all)
    <3> SUFFICES ASSUME NEW k \in 1..m PROVE two[k] \in ToSet(all)
      BY <1>1
    <3>1. k + n \in 1..(n + m) /\ all[k + n] = two[k]
      BY <1>4
    <3> QED
      BY <1>3, <3>1
  <2>3. ToSet(all) \subseteq ToSet(one) \union ToSet(two)
    BY <1>1, <1>3, <1>4
  <2> QED
    BY <2>1, <2>2, <2>3
<1>6. ASSUME IsInjective(one), IsInjective(two), ToSet(one) \intersect ToSet(two) = {}
      PROVE  IsInjective(all)
  <2>1. /\ \A k, l \in 1..n : one[k] = one[l] => k = l
        /\ \A k, l \in 1..m : two[k] = two[l] => k = l
        /\ \A k \in 1..n, l \in 1..m : one[k] # two[l]
    <3>1. \A k \in 1..n, l \in 1..m : one[k] # two[l]
      <4>1. ASSUME NEW k \in 1..n, NEW l \in 1..m, one[k] = two[l] PROVE FALSE
        <5>1. one[k] \in ToSet(one) /\ one[k] \in ToSet(two)
          BY <1>1, <4>1
        <5> QED
          BY <1>6, <5>1
      <4> QED
        BY <4>1
    <3> QED
      BY <1>1, <1>6, <3>1 DEF IsInjective
  <2>2. \A k, l \in 1..(n + m) : all[k] = all[l] => k = l
    <3> SUFFICES ASSUME NEW k \in 1..(n + m), NEW l \in 1..(n + m), all[k] = all[l] PROVE k = l
      OBVIOUS
    <3>1. \/ k \in 1..n /\ all[k] = one[k]
          \/ k - n \in 1..m /\ all[k] = two[k - n]
      BY <1>4
    <3>2. \/ l \in 1..n /\ all[l] = one[l]
          \/ l - n \in 1..m /\ all[l] = two[l - n]
      BY <1>4
    <3>3. k = l \/ (k - n \in 1..m /\ l - n \in 1..m /\ k - n = l - n)
      BY <2>1, <3>1, <3>2
    <3> QED
      BY <1>1, <3>3
  <2> QED
    BY <1>3, <2>2, Zenon DEF IsInjective
<1>7. ASSUME IsInjective(all) PROVE IsInjective(two)
  <2>1. \A k, l \in 1..(n + m) : all[k] = all[l] => k = l
    BY <1>3, <1>7 DEF IsInjective
  <2>2. \A k, l \in 1..m : two[k] = two[l] => k = l
    <3> SUFFICES ASSUME NEW k \in 1..m, NEW l \in 1..m, two[k] = two[l] PROVE k = l
      OBVIOUS
    <3>1. k + n \in 1..(n + m) /\ l + n \in 1..(n + m) /\ all[k + n] = all[l + n]
      BY <1>4
    <3>2. k + n = l + n
      BY <2>1, <3>1
    <3> QED
      BY <1>1, <3>2
  <2> QED
    BY <1>1, <2>2, Zenon DEF IsInjective
<1>8. IsPrefix(one, all)
  <2>1. /\ \A i \in 1..n : one[i] \in Int /\ all[i] \in Int
        /\ 1 \in Int /\ n \in Int
    BY <1>1, <1>2, <1>4, ListFacts DEF n
  <2>2. /\ SubSeq(one, 1, n) \in Seq(Int) /\ SubSeq(all, 1, n) \in Seq(Int)
        /\ Len(SubSeq(one, 1, n)) = n /\ Len(SubSeq(all, 1, n)) = n
        /\ \A i \in 1..n : SubSeq(one, 1, n)[i] = one[i] /\ SubSeq(all, 1, n)[i] = all[i]
    BY <1>1, <2>1 DEF n
  <2>3. SubSeq(one, 1, n) = SubSeq(all, 1, n)
    <3>1. \A i \in 1..n : SubSeq(one, 1, n)[i] = SubSeq(all, 1, n)[i]
      BY <1>4, <2>2
    <3> QED
      BY <2>2, <3>1, SeqEqual
  <2>4. n <= Len(all)
    BY <1>1, <1>2
  <2> QED
    BY <2>3, <2>4, Zenon DEF IsPrefix, n
<1> QED
  BY <1>2, <1>5, <1>6, <1>7, <1>8 DEF all

LEMMA PlaceOfFacts ==
  ASSUME NEW list \in Seq(Int), NEW ids \in SUBSET ToSet(list)
  PROVE  DOMAIN PlaceOf(ids, list) = ids /\ Stands(list, PlaceOf(ids, list))
<1>1. DOMAIN list = 1..Len(list) /\ ToSet(list) = {list[i] : i \in 1..Len(list)}
  BY ListFacts
<1> DEFINE index(u) == CHOOSE i \in DOMAIN list : list[i] = u
<1>2. ASSUME NEW u \in ids PROVE index(u) \in 1..Len(list) /\ list[index(u)] = u
  <2>1. \E i \in DOMAIN list : list[i] = u
    BY <1>1
  <2> QED
    BY <1>1, <2>1
<1>3. PlaceOf(ids, list) = [u \in ids |-> index(u)]
  BY Zenon DEF PlaceOf
<1> HIDE DEF index
<1> QED
  BY <1>2, <1>3 DEF Stands

LEMMA SideOfAllFacts ==
  ASSUME NEW units, units # {}, NEW side, \A u \in units : SideOf[u] = side
  PROVE  SideOfAll(units) = side
<1>1. (CHOOSE u \in units : TRUE) \in units
  OBVIOUS
<1> QED
  BY <1>1, Zenon DEF SideOfAll

LEMMA WorstFacts ==
  ASSUME NEW n \in Nat, NEW ids \in SUBSET Nat, ids # {}, NEW rs \in [ids -> RecordUpTo(n)]
  PROVE  \E u \in ids : WorstOf(rs) = rs[u]
<1> DEFINE states == {rs[u].state : u \in DOMAIN rs}
           worst == Max(states)
           those == {u \in DOMAIN rs : rs[u].state = worst}
<1>1. DOMAIN rs = ids /\ \A u \in ids : rs[u].state \in 0..4
  BY DEF RecordUpTo, MoraleState
<1>2. states \in SUBSET (0..4) /\ states # {}
  BY <1>1
<1>3. worst \in states
  <2> HIDE DEF states
  <2> QED
    BY <1>2, MaxFacts
<1> HIDE DEF worst
<1>4. those \in SUBSET Nat /\ those # {}
  BY <1>1, <1>3
<1> HIDE DEF those
<1>5. Min(those) \in those
  BY <1>4, MinFacts
<1>6. Min(those) \in ids
  BY <1>1, <1>5 DEF those
<1> QED
  BY <1>6, Zenon DEF WorstOf, those, worst

-----------------------------------------------------------------------------
(* Functions, and lists of steps.                                          *)

LEMMA WithoutFacts ==
  ASSUME NEW f, NEW S
  PROVE  /\ DOMAIN Without(f, S) = DOMAIN f \ S
         /\ \A x \in DOMAIN f \ S : Without(f, S)[x] = f[x]
BY Zenon DEF Without, Restrict

LEMMA JoinedFacts ==
  ASSUME NEW f, NEW g
  PROVE  /\ DOMAIN Joined(f, g) = DOMAIN f \union DOMAIN g
         /\ Joined(f, g) = [x \in DOMAIN Joined(f, g) |-> Joined(f, g)[x]]
         /\ \A x \in DOMAIN g : Joined(f, g)[x] = g[x]
         /\ \A x \in DOMAIN f : x \notin DOMAIN g => Joined(f, g)[x] = f[x]
BY DEF Joined

LEMMA WithFacts ==
  ASSUME NEW f, NEW x, NEW v
  PROVE  /\ DOMAIN With(f, x, v) = DOMAIN f \union {x} /\ With(f, x, v)[x] = v
         /\ \A y \in DOMAIN f : y # x => With(f, x, v)[y] = f[y]
BY DEF With, Joined

LEMMA StepFacts ==
  /\ Head(M1) = "morale" /\ Tail(M1) = M2 /\ Head(M2) = "roster" /\ Tail(M2) = M3
  /\ Head(M3) = "loadouts" /\ Tail(M3) = M4 /\ Head(M4) = "targeting" /\ Tail(M4) = M5
  /\ Head(M5) = "aggregates" /\ Tail(M5) = M6 /\ Head(M6) = "validate"
  /\ Head(S1) = "morale" /\ Tail(S1) = S2 /\ Head(S2) = "remove" /\ Tail(S2) = S3
  /\ Head(S3) = "loadouts" /\ Tail(S3) = S4 /\ Head(S4) = "roster" /\ Tail(S4) = M4
  /\ Head(R1) = "morale" /\ Tail(R1) = R2 /\ Head(R2) = "targeting" /\ Tail(R2) = R3
  /\ Head(R3) = "roster" /\ Head(Back) = "rollback"
BY DEF M1, M2, M3, M4, M5, M6, S1, S2, S3, S4, R1, R2, R3, Back, MergeSteps, SplitSteps,
       ReinforceSteps

LEMMA StepsDiffer ==
  /\ \A todo \in {M1, M2, M3, M4, M5, M6} :
       /\ todo # Back
       /\ todo = M1 => todo \notin {M2, M3, M4, M5, M6}
       /\ todo = M2 => todo \notin {M3, M4, M5, M6}
       /\ todo = M3 => todo \notin {M4, M5, M6}
       /\ todo = M4 => todo \notin {M5, M6}
       /\ todo = M5 => todo # M6
  /\ \A todo \in {S1, S2, S3, S4, M4, M5, M6} :
       /\ todo # Back
       /\ todo = S1 => todo \notin {S2, S3, S4, M4, M5, M6}
       /\ todo = S2 => todo \notin {S3, S4, M4, M5, M6}
       /\ todo = S3 => todo \notin {S4, M4, M5, M6}
       /\ todo = S4 => todo \notin {M4, M5, M6}
  /\ \A todo \in {R1, R2, R3} :
       /\ todo # Back
       /\ todo = R1 => todo \notin {R2, R3}
       /\ todo = R2 => todo # R3
BY DEF M1, M2, M3, M4, M5, M6, S1, S2, S3, S4, R1, R2, R3, Back, MergeSteps, SplitSteps,
       ReinforceSteps

\* An operation goes on with other steps, and is the same in all else.
Continued(p, q, todo, done) ==
  \/ q = [p EXCEPT !.todo = todo, !.moraleDone = done]
  \/ q = [p EXCEPT !.todo = todo] /\ done = p.moraleDone

LEMMA MergeNext ==
  ASSUME NEW p, MergeOp(p), NEW q, NEW todo \in {M1, M2, M3, M4, M5, M6, Back},
         NEW done \in BOOLEAN, todo # Back => (done <=> todo # M1), Continued(p, q, todo, done)
  PROVE  /\ MergeOp(q) /\ q.kind = "merge" /\ q.todo = todo /\ q.moraleDone = done
         /\ q.id = p.id /\ q.side = p.side /\ q.place = p.place /\ q.archive = p.archive
         /\ q.begun = p.begun
         /\ MergedMorale(q) = MergedMorale(p) /\ MergedRoster(q) = MergedRoster(p)
<1> HIDE DEF M1, M2, M3, M4, M5, M6, Back
<1>1. p = [kind |-> "merge", id |-> Proxy(p.begun.nextId), side |-> p.side, place |-> p.place,
           archive |-> Archive(Restrict(p.begun.records, DOMAIN p.place)),
           todo |-> p.todo, begun |-> p.begun, moraleDone |-> p.moraleDone]
  BY Zenon DEF MergeOp
<1>2. q = [kind |-> "merge", id |-> Proxy(p.begun.nextId), side |-> p.side, place |-> p.place,
           archive |-> Archive(Restrict(p.begun.records, DOMAIN p.place)),
           todo |-> todo, begun |-> p.begun, moraleDone |-> done]
  <2> DEFINE begun == p.begun
             id == Proxy(p.begun.nextId)
             side == p.side
             place == p.place
             archive == Archive(Restrict(p.begun.records, DOMAIN p.place))
  <2>1. p = [kind |-> "merge", id |-> id, side |-> side, place |-> place, archive |-> archive,
             todo |-> p.todo, begun |-> begun, moraleDone |-> p.moraleDone]
    BY <1>1, Zenon
  <2> HIDE DEF begun, id, side, place, archive
  <2>2. CASE q = [p EXCEPT !.todo = todo, !.moraleDone = done]
    <3> DEFINE r == [p EXCEPT !.todo = todo]
    <3>1. q = [r EXCEPT !.moraleDone = done]
      BY <2>2
    <3>2. r = [kind |-> "merge", id |-> id, side |-> side, place |-> place, archive |-> archive,
             todo |-> todo, begun |-> begun, moraleDone |-> p.moraleDone]
      BY <2>1
    <3> HIDE DEF r
    <3>3. q = [kind |-> "merge", id |-> id, side |-> side, place |-> place, archive |-> archive,
             todo |-> todo, begun |-> begun, moraleDone |-> done]
      BY <3>1, <3>2
    <3> QED
      BY <3>3, Zenon DEF begun, id, side, place, archive
  <2>3. CASE q = [p EXCEPT !.todo = todo] /\ done = p.moraleDone
    <3>1. q = [kind |-> "merge", id |-> id, side |-> side, place |-> place, archive |-> archive,
             todo |-> todo, begun |-> begun, moraleDone |-> p.moraleDone]
      BY <2>1, <2>3
    <3> QED
      BY <2>3, <3>1, Zenon DEF begun, id, side, place, archive
  <2> QED
    BY <2>2, <2>3, Zenon DEF Continued
<1>3. /\ q.kind = "merge" /\ q.todo = todo /\ q.moraleDone = done
      /\ q.id = Proxy(p.begun.nextId) /\ q.side = p.side /\ q.place = p.place
      /\ q.archive = Archive(Restrict(p.begun.records, DOMAIN p.place)) /\ q.begun = p.begun
  BY <1>2
<1>4. /\ p.id = Proxy(p.begun.nextId)
      /\ p.archive = Archive(Restrict(p.begun.records, DOMAIN p.place))
  BY <1>1
<1>5. q = [kind |-> "merge", id |-> Proxy(q.begun.nextId), side |-> q.side, place |-> q.place,
           archive |-> Archive(Restrict(q.begun.records, DOMAIN q.place)),
           todo |-> q.todo, begun |-> q.begun, moraleDone |-> q.moraleDone]
  BY <1>2, <1>3, Zenon
<1>6. MergeOp(q)
  BY <1>3, <1>5, Zenon DEF MergeOp
<1>7. MergedMorale(q) = MergedMorale(p) /\ MergedRoster(q) = MergedRoster(p)
  BY <1>3, <1>4, Zenon DEF MergedMorale, MergedRoster
<1> QED
  BY <1>3, <1>4, <1>6, <1>7, Zenon

LEMMA SplitNext ==
  ASSUME NEW p, SplitOp(p), NEW q, NEW todo \in {S1, S2, S3, S4, M4, M5, M6, Back},
         NEW done \in BOOLEAN, todo # Back => (done <=> todo # S1), Continued(p, q, todo, done)
  PROVE  /\ SplitOp(q) /\ q.kind = "split" /\ q.todo = todo /\ q.moraleDone = done
         /\ q.id = p.id /\ q.side = p.side /\ q.place = p.place /\ q.archive = p.archive
         /\ q.begun = p.begun
         /\ SplitMorale(q) = SplitMorale(p) /\ SplitRoster(q) = SplitRoster(p)
         /\ ClearedRoster(q) = ClearedRoster(p)
<1>1. p = [kind |-> "split", id |-> p.id, side |-> SideOfAll(DOMAIN p.begun.aggregates[p.id]),
           place |-> p.begun.aggregates[p.id], archive |-> p.begun.archives[p.id],
           todo |-> p.todo, begun |-> p.begun, moraleDone |-> p.moraleDone]
  BY Zenon DEF SplitOp
<1>2. q = [kind |-> "split", id |-> p.id, side |-> SideOfAll(DOMAIN p.begun.aggregates[p.id]),
           place |-> p.begun.aggregates[p.id], archive |-> p.begun.archives[p.id],
           todo |-> todo, begun |-> p.begun, moraleDone |-> done]
  <2> DEFINE begun == p.begun
             id == p.id
             side == SideOfAll(DOMAIN p.begun.aggregates[p.id])
             place == p.begun.aggregates[p.id]
             archive == p.begun.archives[p.id]
  <2>1. p = [kind |-> "split", id |-> id, side |-> side, place |-> place, archive |-> archive,
             todo |-> p.todo, begun |-> begun, moraleDone |-> p.moraleDone]
    BY <1>1, Zenon
  <2> HIDE DEF begun, id, side, place, archive
  <2>2. CASE q = [p EXCEPT !.todo = todo, !.moraleDone = done]
    <3> DEFINE r == [p EXCEPT !.todo = todo]
    <3>1. q = [r EXCEPT !.moraleDone = done]
      BY <2>2
    <3>2. r = [kind |-> "split", id |-> id, side |-> side, place |-> place, archive |-> archive,
             todo |-> todo, begun |-> begun, moraleDone |-> p.moraleDone]
      BY <2>1
    <3> HIDE DEF r
    <3>3. q = [kind |-> "split", id |-> id, side |-> side, place |-> place, archive |-> archive,
             todo |-> todo, begun |-> begun, moraleDone |-> done]
      BY <3>1, <3>2
    <3> QED
      BY <3>3, Zenon DEF begun, id, side, place, archive
  <2>3. CASE q = [p EXCEPT !.todo = todo] /\ done = p.moraleDone
    <3>1. q = [kind |-> "split", id |-> id, side |-> side, place |-> place, archive |-> archive,
             todo |-> todo, begun |-> begun, moraleDone |-> p.moraleDone]
      BY <2>1, <2>3
    <3> QED
      BY <2>3, <3>1, Zenon DEF begun, id, side, place, archive
  <2> QED
    BY <2>2, <2>3, Zenon DEF Continued
<1>3. /\ q.kind = "split" /\ q.todo = todo /\ q.moraleDone = done
      /\ q.id = p.id /\ q.side = SideOfAll(DOMAIN p.begun.aggregates[p.id])
      /\ q.place = p.begun.aggregates[p.id]
      /\ q.archive = p.begun.archives[p.id] /\ q.begun = p.begun
  BY <1>2
<1>4. /\ p.side = SideOfAll(DOMAIN p.begun.aggregates[p.id])
      /\ p.place = p.begun.aggregates[p.id] /\ p.archive = p.begun.archives[p.id]
  BY <1>1
<1>5. q = [kind |-> "split", id |-> q.id, side |-> SideOfAll(DOMAIN q.begun.aggregates[q.id]),
           place |-> q.begun.aggregates[q.id], archive |-> q.begun.archives[q.id],
           todo |-> q.todo, begun |-> q.begun, moraleDone |-> q.moraleDone]
  BY <1>2, <1>3, Zenon
<1>6. SplitOp(q)
  BY <1>3, <1>4, <1>5, Zenon DEF SplitOp
<1>7. /\ SplitMorale(q) = SplitMorale(p) /\ SplitRoster(q) = SplitRoster(p)
      /\ ClearedRoster(q) = ClearedRoster(p)
  BY <1>3, <1>4, Zenon DEF SplitMorale, SplitRoster, ClearedRoster
<1> QED
  BY <1>3, <1>4, <1>6, <1>7, Zenon

LEMMA ReinforceNext ==
  ASSUME NEW p, ReinforceOp(p), NEW q, NEW todo \in {R1, R2, R3, Back},
         NEW done \in BOOLEAN, todo # Back => (done <=> todo # R1), Continued(p, q, todo, done)
  PROVE  /\ ReinforceOp(q) /\ q.kind = "reinforce" /\ q.todo = todo /\ q.moraleDone = done
         /\ q.side = p.side /\ q.wave = p.wave /\ q.begun = p.begun
         /\ ReinforcedMorale(q) = ReinforcedMorale(p)
<1>1. p = [kind |-> "reinforce", side |-> p.side, wave |-> p.wave,
           todo |-> p.todo, begun |-> p.begun, moraleDone |-> p.moraleDone]
  BY Zenon DEF ReinforceOp
<1>2. q = [kind |-> "reinforce", side |-> p.side, wave |-> p.wave,
           todo |-> todo, begun |-> p.begun, moraleDone |-> done]
  <2> DEFINE begun == p.begun
             side == p.side
             wave == p.wave
  <2>1. p = [kind |-> "reinforce", side |-> side, wave |-> wave,
             todo |-> p.todo, begun |-> begun, moraleDone |-> p.moraleDone]
    BY <1>1, Zenon
  <2> HIDE DEF begun, side, wave
  <2>2. CASE q = [p EXCEPT !.todo = todo, !.moraleDone = done]
    <3> DEFINE r == [p EXCEPT !.todo = todo]
    <3>1. q = [r EXCEPT !.moraleDone = done]
      BY <2>2
    <3>2. r = [kind |-> "reinforce", side |-> side, wave |-> wave,
             todo |-> todo, begun |-> begun, moraleDone |-> p.moraleDone]
      BY <2>1
    <3> HIDE DEF r
    <3>3. q = [kind |-> "reinforce", side |-> side, wave |-> wave,
             todo |-> todo, begun |-> begun, moraleDone |-> done]
      BY <3>1, <3>2
    <3> QED
      BY <3>3, Zenon DEF begun, side, wave
  <2>3. CASE q = [p EXCEPT !.todo = todo] /\ done = p.moraleDone
    <3>1. q = [kind |-> "reinforce", side |-> side, wave |-> wave,
             todo |-> todo, begun |-> begun, moraleDone |-> p.moraleDone]
      BY <2>1, <2>3
    <3> QED
      BY <2>3, <3>1, Zenon DEF begun, side, wave
  <2> QED
    BY <2>2, <2>3, Zenon DEF Continued
<1>3. /\ q.kind = "reinforce" /\ q.todo = todo /\ q.moraleDone = done
      /\ q.side = p.side /\ q.wave = p.wave /\ q.begun = p.begun
  BY <1>2
<1>5. q = [kind |-> "reinforce", side |-> q.side, wave |-> q.wave,
           todo |-> q.todo, begun |-> q.begun, moraleDone |-> q.moraleDone]
  BY <1>2, <1>3, Zenon
<1>6. ReinforceOp(q)
  BY <1>3, <1>5, Zenon DEF ReinforceOp
<1>7. ReinforcedMorale(q) = ReinforcedMorale(p)
  BY <1>3, Zenon DEF ReinforcedMorale
<1> QED
  BY <1>3, <1>6, <1>7, Zenon

\* Which step an operation is at.
LEMMA MergeAt ==
  ASSUME op.kind = "merge", MergeOp(op)
  PROVE  /\ At("morale") => op.todo = M1 /\ Tail(op.todo) = M2
         /\ At("roster") => op.todo = M2 /\ Tail(op.todo) = M3
         /\ At("loadouts") => op.todo = M3 /\ Tail(op.todo) = M4
         /\ At("targeting") => op.todo = M4 /\ Tail(op.todo) = M5
         /\ At("aggregates") => op.todo = M5 /\ Tail(op.todo) = M6
         /\ At("validate") => op.todo = M6
         /\ At("rollback") => op.todo = Back
         /\ ~At("remove")
<1>1. op.todo \in {M1, M2, M3, M4, M5, M6, Back}
  BY Zenon DEF MergeOp
<1>2. \A step : At(step) => Head(op.todo) = step
  BY Zenon DEF At
<1> HIDE DEF M1, M2, M3, M4, M5, M6, Back
<1> QED
  BY <1>1, <1>2, StepFacts

LEMMA SplitAt ==
  ASSUME op.kind = "split", SplitOp(op)
  PROVE  /\ At("morale") => op.todo = S1 /\ Tail(op.todo) = S2
         /\ At("remove") => op.todo = S2 /\ Tail(op.todo) = S3
         /\ At("loadouts") => op.todo = S3 /\ Tail(op.todo) = S4
         /\ At("roster") => op.todo = S4 /\ Tail(op.todo) = M4
         /\ At("targeting") => op.todo = M4 /\ Tail(op.todo) = M5
         /\ At("aggregates") => op.todo = M5 /\ Tail(op.todo) = M6
         /\ At("validate") => op.todo = M6
         /\ At("rollback") => op.todo = Back
<1>1. op.todo \in {S1, S2, S3, S4, M4, M5, M6, Back}
  BY Zenon DEF SplitOp
<1>2. \A step : At(step) => Head(op.todo) = step
  BY Zenon DEF At
<1> QED
  BY <1>1, <1>2, StepFacts

LEMMA ReinforceAt ==
  ASSUME op.kind = "reinforce", ReinforceOp(op)
  PROVE  /\ At("morale") => op.todo = R1 /\ Tail(op.todo) = R2
         /\ At("targeting") => op.todo = R2 /\ Tail(op.todo) = R3
         /\ At("roster") => op.todo = R3
         /\ At("rollback") => op.todo = Back
         /\ ~At("remove") /\ ~At("loadouts") /\ ~At("aggregates") /\ ~At("validate")
<1>1. op.todo \in {R1, R2, R3, Back}
  BY Zenon DEF ReinforceOp
<1>2. \A step : At(step) => Head(op.todo) = step
  BY Zenon DEF At
<1> QED
  BY <1>1, <1>2, StepFacts

-----------------------------------------------------------------------------
(* Functions that are restored.                                            *)

IsFunction(f) == f = [x \in DOMAIN f |-> f[x]]

LEMMA SameFunction ==
  ASSUME NEW f, NEW g, IsFunction(f), IsFunction(g), DOMAIN f = DOMAIN g,
         \A x \in DOMAIN f : f[x] = g[x]
  PROVE  f = g
BY DEF IsFunction

LEMMA AreFunctions ==
  ASSUME NEW f, NEW g, NEW S, NEW x, NEW v
  PROVE  IsFunction(Without(f, S)) /\ IsFunction(Joined(f, g)) /\ IsFunction(With(f, x, v))
BY DEF IsFunction, Without, Restrict, Joined, With

\* What was taken out comes back, and the new entry goes.
LEMMA MergeUndone ==
  ASSUME NEW f, IsFunction(f), NEW x, x \notin DOMAIN f, NEW v, NEW g,
         DOMAIN g \subseteq DOMAIN f, \A y \in DOMAIN g : g[y] = f[y]
  PROVE  Joined(Without(With(Without(f, DOMAIN g), x, v), {x}), g) = f
<1> DEFINE less == Without(f, DOMAIN g)
           other == With(less, x, v)
           back == Without(other, {x})
           all == Joined(back, g)
<1>1. DOMAIN less = DOMAIN f \ DOMAIN g /\ \A y \in DOMAIN f \ DOMAIN g : less[y] = f[y]
  BY WithoutFacts
<1> HIDE DEF less
<1>2. /\ DOMAIN other = DOMAIN less \union {x}
      /\ \A y \in DOMAIN less : y # x => other[y] = less[y]
  BY DEF With, Joined
<1> HIDE DEF other
<1>3. /\ DOMAIN back = DOMAIN other \ {x}
      /\ \A y \in DOMAIN other \ {x} : back[y] = other[y]
  BY WithoutFacts
<1> HIDE DEF back
<1>4. /\ DOMAIN all = DOMAIN back \union DOMAIN g
      /\ \A y \in DOMAIN g : all[y] = g[y]
      /\ \A y \in DOMAIN back : y \notin DOMAIN g => all[y] = back[y]
  BY DEF Joined
<1>5. IsFunction(all)
  BY AreFunctions
<1> HIDE DEF all
<1>6. DOMAIN all = DOMAIN f
  BY <1>1, <1>2, <1>3, <1>4
<1>7. ASSUME NEW y \in DOMAIN f PROVE all[y] = f[y]
  BY <1>1, <1>2, <1>3, <1>4, <1>7
<1>8. all = f
  BY <1>5, <1>6, <1>7, SameFunction
<1> QED
  BY <1>8, Zenon DEF all, back, other, less

\* What had come back goes, and the entry that was taken out comes back.
LEMMA SplitUndone ==
  ASSUME NEW f, IsFunction(f), NEW x \in DOMAIN f, NEW g, DOMAIN g \intersect DOMAIN f = {}
  PROVE  With(Without(Joined(Without(f, {x}), g), DOMAIN g), x, f[x]) = f
<1> DEFINE less == Without(f, {x})
           other == Joined(less, g)
           back == Without(other, DOMAIN g)
           all == With(back, x, f[x])
<1>1. DOMAIN less = DOMAIN f \ {x} /\ \A y \in DOMAIN f \ {x} : less[y] = f[y]
  BY WithoutFacts
<1> HIDE DEF less
<1>2. /\ DOMAIN other = DOMAIN less \union DOMAIN g
      /\ \A y \in DOMAIN less : y \notin DOMAIN g => other[y] = less[y]
  BY JoinedFacts
<1> HIDE DEF other
<1>3. /\ DOMAIN back = DOMAIN other \ DOMAIN g
      /\ \A y \in DOMAIN other \ DOMAIN g : back[y] = other[y]
  BY WithoutFacts
<1> HIDE DEF back
<1>4. /\ DOMAIN all = DOMAIN back \union {x} /\ all[x] = f[x]
      /\ \A y \in DOMAIN back : y # x => all[y] = back[y]
  BY DEF With, Joined
<1>5. IsFunction(all)
  BY AreFunctions
<1> HIDE DEF all
<1>6. DOMAIN all = DOMAIN f
  BY <1>1, <1>2, <1>3, <1>4
<1>7. ASSUME NEW y \in DOMAIN f PROVE all[y] = f[y]
  BY <1>1, <1>2, <1>3, <1>4, <1>7
<1>8. all = f
  BY <1>5, <1>6, <1>7, SameFunction
<1> QED
  BY <1>8, Zenon DEF all, back, other, less

LEMMA EntryUndone ==
  ASSUME NEW f, IsFunction(f), NEW x
  PROVE  /\ \A v : x \notin DOMAIN f => Without(With(f, x, v), {x}) = f
         /\ x \in DOMAIN f => With(Without(f, {x}), x, f[x]) = f
<1>1. ASSUME NEW v, x \notin DOMAIN f PROVE Without(With(f, x, v), {x}) = f
  <2> DEFINE other == With(f, x, v)
             back == Without(other, {x})
  <2>1. DOMAIN other = DOMAIN f \union {x} /\ \A y \in DOMAIN f : y # x => other[y] = f[y]
    BY DEF With, Joined
  <2> HIDE DEF other
  <2>2. DOMAIN back = DOMAIN other \ {x} /\ \A y \in DOMAIN other \ {x} : back[y] = other[y]
    BY WithoutFacts
  <2>3. IsFunction(back)
    BY AreFunctions
  <2> HIDE DEF back
  <2>4. DOMAIN back = DOMAIN f /\ \A y \in DOMAIN back : back[y] = f[y]
    BY <1>1, <2>1, <2>2
  <2>5. back = f
    BY <2>3, <2>4, SameFunction
  <2> QED
    BY <2>5 DEF back, other
<1>2. ASSUME x \in DOMAIN f PROVE With(Without(f, {x}), x, f[x]) = f
  <2> DEFINE less == Without(f, {x})
             back == With(less, x, f[x])
  <2>1. DOMAIN less = DOMAIN f \ {x} /\ \A y \in DOMAIN f \ {x} : less[y] = f[y]
    BY WithoutFacts
  <2> HIDE DEF less
  <2>2. /\ DOMAIN back = DOMAIN less \union {x} /\ back[x] = f[x]
        /\ \A y \in DOMAIN less : y # x => back[y] = less[y]
    BY DEF With, Joined
  <2>3. IsFunction(back)
    BY AreFunctions
  <2> HIDE DEF back
  <2>4. DOMAIN back = DOMAIN f /\ \A y \in DOMAIN back : back[y] = f[y]
    BY <1>2, <2>1, <2>2
  <2>5. back = f
    BY <2>3, <2>4, SameFunction
  <2> QED
    BY <2>5 DEF back, less
<1> QED
  BY <1>1, <1>2

LEMMA JoinUndone ==
  ASSUME NEW f, IsFunction(f), NEW g, DOMAIN g \intersect DOMAIN f = {}
  PROVE  Without(Joined(f, g), DOMAIN g) = f
<1> DEFINE other == Joined(f, g)
           back == Without(other, DOMAIN g)
<1>1. /\ DOMAIN other = DOMAIN f \union DOMAIN g
      /\ \A y \in DOMAIN f : y \notin DOMAIN g => other[y] = f[y]
  BY JoinedFacts
<1> HIDE DEF other
<1>2. DOMAIN back = DOMAIN other \ DOMAIN g /\ \A y \in DOMAIN other \ DOMAIN g : back[y] = other[y]
  BY WithoutFacts
<1>3. IsFunction(back)
  BY AreFunctions
<1> HIDE DEF back
<1>4. DOMAIN back = DOMAIN f /\ \A y \in DOMAIN back : back[y] = f[y]
  BY <1>1, <1>2
<1>5. back = f
  BY <1>3, <1>4, SameFunction
<1> QED
  BY <1>5 DEF back, other

-----------------------------------------------------------------------------
(* What is known of owners that are sound.                                 *)

LEMMA SoundFacts ==
  ASSUME NEW o, NEW h, Sound(o, h)
  PROVE  /\ o = [roster |-> o.roster, records |-> o.records, status |-> o.status,
                 archives |-> o.archives, loadouts |-> o.loadouts, targeting |-> o.targeting,
                 aggregates |-> o.aggregates, nextId |-> o.nextId]
         /\ IsFunction(o.records) /\ IsFunction(o.status) /\ IsFunction(o.archives)
         /\ DOMAIN o.records = MembersOf(o.roster) /\ DOMAIN o.status = MembersOf(o.roster)
         /\ DOMAIN o.archives = DOMAIN o.aggregates /\ o.nextId \in Nat
         /\ \A s \in Sides : o.roster[s] \in Seq(Int)
         /\ \A u \in MembersOf(o.roster) : u \in Units \/ u \in DOMAIN o.aggregates
         /\ \A a \in DOMAIN o.aggregates :
              /\ a \in Int /\ a < 0 /\ a > Proxy(o.nextId) /\ a \in DOMAIN o.records
              /\ DOMAIN o.aggregates[a] # {} /\ DOMAIN o.aggregates[a] \subseteq Units
              /\ DOMAIN o.archives[a].of = DOMAIN o.aggregates[a]
              /\ DOMAIN o.aggregates[a] \intersect DOMAIN o.records = {}
              /\ SideOfAll(DOMAIN o.aggregates[a]) \in Sides
<1>1. Typed(o, h.events) /\ OwnersBound(o) /\ AggregatesBound(o) /\ ArchivesBound(o)
  BY Zenon DEF Sound
<1>2. \A s \in Sides : Listed(o, s)
  BY Zenon DEF Sound
<1>3. \A a \in DOMAIN o.aggregates : ProxySound(o, h, a)
  BY Zenon DEF Sound
<1>4. DOMAIN o.records = MembersOf(o.roster) /\ DOMAIN o.status = MembersOf(o.roster)
  BY <1>1, Zenon DEF OwnersBound
<1>5. DOMAIN o.archives = DOMAIN o.aggregates
  BY <1>1, Zenon DEF AggregatesBound
<1>6. /\ o = [roster |-> o.roster, records |-> o.records, status |-> o.status,
              archives |-> o.archives, loadouts |-> o.loadouts, targeting |-> o.targeting,
              aggregates |-> o.aggregates, nextId |-> o.nextId]
      /\ o.roster \in [Sides -> Seq(Int)]
      /\ o.records \in [DOMAIN o.records -> RecordUpTo(h.events)]
      /\ o.status \in [DOMAIN o.status -> Statuses]
      /\ o.archives = [a \in DOMAIN o.archives |-> o.archives[a]]
      /\ o.nextId \in 0..MaxProxies
  BY <1>1, Zenon DEF Typed
<1>7. IsFunction(o.records) /\ IsFunction(o.status) /\ IsFunction(o.archives)
  <2>1. o.records = [u \in DOMAIN o.records |-> o.records[u]]
    BY <1>6
  <2>2. o.status = [u \in DOMAIN o.status |-> o.status[u]]
    BY <1>6
  <2> QED
    BY <1>6, <2>1, <2>2, Zenon DEF IsFunction
<1>8. o.nextId \in Nat /\ \A s \in Sides : o.roster[s] \in Seq(Int)
  BY <1>6, BoundsAssumption
<1>9. \A u \in MembersOf(o.roster) : u \in Units \/ u \in DOMAIN o.aggregates
  <2> SUFFICES ASSUME NEW s \in Sides, NEW u \in ToSet(o.roster[s])
               PROVE  u \in Units \/ u \in DOMAIN o.aggregates
    BY DEF MembersOf
  <2> QED
    BY <1>2, Zenon DEF Listed
<1>10. ASSUME NEW a \in DOMAIN o.aggregates
       PROVE  /\ a \in Int /\ a < 0 /\ a > Proxy(o.nextId) /\ a \in DOMAIN o.records
              /\ DOMAIN o.aggregates[a] # {} /\ DOMAIN o.aggregates[a] \subseteq Units
              /\ DOMAIN o.archives[a].of = DOMAIN o.aggregates[a]
              /\ DOMAIN o.aggregates[a] \intersect DOMAIN o.records = {}
              /\ SideOfAll(DOMAIN o.aggregates[a]) \in Sides
  <2> DEFINE side == SideOfAll(DOMAIN o.aggregates[a])
  <2>1. a \in Int /\ a < 0 /\ DOMAIN o.aggregates[a] \subseteq Units
    BY <1>1, Zenon DEF Typed
  <2>2. a > Proxy(o.nextId)
    BY <1>1, Zenon DEF ArchivesBound
  <2>3. DOMAIN o.aggregates[a] # {} /\ \A u \in DOMAIN o.aggregates[a] : SideOf[u] = side
    BY <1>3, Zenon DEF ProxySound
  <2>4. side \in Sides
    BY <2>1, <2>3, UnitsAssumption
  <2>5. /\ DOMAIN o.archives[a].of = DOMAIN o.aggregates[a]
        /\ DOMAIN o.aggregates[a] \intersect MembersOf(o.roster) = {}
        /\ ProxyPlaced(o, a)
    BY <1>1, Zenon DEF AggregatesBound
  <2>6. a \in ToSet(o.roster[side])
    BY <2>5, Zenon DEF ProxyPlaced
  <2>7. a \in MembersOf(o.roster)
    BY <2>4, <2>6 DEF MembersOf
  <2> QED
    BY <1>4, <2>1, <2>2, <2>3, <2>4, <2>5, <2>7, Zenon
<1> QED
  BY <1>4, <1>5, <1>6, <1>7, <1>8, <1>9, <1>10, Zenon

\* What a merge begins with: units of the list of one side, which are active,
\* and a proxy that is not there yet.
LEMMA MergeOpFacts ==
  ASSUME NEW p, NEW h, MergeOp(p), Sound(p.begun, h)
  PROVE  /\ p.id = Proxy(p.begun.nextId) /\ p.id \in Int /\ p.id < 0
         /\ p.id \notin DOMAIN p.begun.records /\ p.id \notin DOMAIN p.begun.aggregates
         /\ DOMAIN p.place # {} /\ DOMAIN p.place \subseteq Units
         /\ DOMAIN p.place \subseteq DOMAIN p.begun.records
         /\ DOMAIN p.archive.of = DOMAIN p.place
         /\ \A u \in DOMAIN p.place : p.archive.of[u] = p.begun.records[u]
         /\ p.archive = Archive(p.archive.of)
<1> DEFINE b == p.begun
           ids == DOMAIN p.place
<1>1. /\ p = [kind |-> "merge", id |-> Proxy(b.nextId), side |-> p.side, place |-> p.place,
              archive |-> Archive(Restrict(b.records, ids)),
              todo |-> p.todo, begun |-> b, moraleDone |-> p.moraleDone]
      /\ p.side \in Sides /\ ids # {} /\ ids \subseteq Units
      /\ Stands(b.roster[p.side], p.place)
  BY Zenon DEF MergeOp
<1>2. /\ b.nextId \in Nat /\ DOMAIN b.records = MembersOf(b.roster)
      /\ b.roster[p.side] \in Seq(Int)
      /\ \A u \in MembersOf(b.roster) : u \in Units \/ u \in DOMAIN b.aggregates
      /\ \A a \in DOMAIN b.aggregates : a > Proxy(b.nextId)
  BY <1>1, SoundFacts, Zenon
<1>3. p.id = Proxy(b.nextId) /\ p.archive = Archive(Restrict(b.records, ids))
  BY <1>1
<1> HIDE DEF b
<1>4. p.id \in Int /\ p.id < 0 /\ p.id \notin Units /\ p.id \notin DOMAIN b.aggregates
  BY <1>2, <1>3, UnitsAssumption DEF Proxy
<1>5. p.id \notin DOMAIN b.records
  BY <1>2, <1>4, Zenon
<1>6. ids \subseteq DOMAIN b.records
  <2>1. ids \subseteq ToSet(b.roster[p.side])
    BY <1>1, <1>2, PlaceFacts DEF b
  <2>2. ToSet(b.roster[p.side]) \subseteq MembersOf(b.roster)
    BY <1>1 DEF MembersOf
  <2> QED
    BY <1>2, <2>1, <2>2, Zenon
<1>7. p.archive.of = Restrict(b.records, ids)
  BY <1>3 DEF Archive
<1>8. DOMAIN p.archive.of = ids /\ \A u \in ids : p.archive.of[u] = b.records[u]
  BY <1>6, <1>7, Zenon DEF Restrict
<1>9. p.archive = Archive(p.archive.of)
  BY <1>3, <1>7, Zenon
<1> QED
  BY <1>1, <1>3, <1>4, <1>5, <1>6, <1>8, <1>9, Zenon DEF b

\* What a split begins with: a proxy whose record is still its baseline.
LEMMA SplitOpFacts ==
  ASSUME NEW p, NEW h, SplitOp(p), Sound(p.begun, h)
  PROVE  /\ p.id \in DOMAIN p.begun.aggregates /\ p.id \in DOMAIN p.begun.records
         /\ p.id \in Int /\ p.id < 0
         /\ p.place = p.begun.aggregates[p.id] /\ p.archive = p.begun.archives[p.id]
         /\ p.side = SideOfAll(DOMAIN p.place) /\ p.side \in Sides
         /\ p.begun.records[p.id] = p.archive.baseline
         /\ DOMAIN p.place # {} /\ DOMAIN p.place \subseteq Units
         /\ DOMAIN p.archive.of = DOMAIN p.place
         /\ DOMAIN p.place \intersect DOMAIN p.begun.records = {}
<1> DEFINE b == p.begun
<1>1. /\ p = [kind |-> "split", id |-> p.id, side |-> SideOfAll(DOMAIN b.aggregates[p.id]),
              place |-> b.aggregates[p.id], archive |-> b.archives[p.id],
              todo |-> p.todo, begun |-> b, moraleDone |-> p.moraleDone]
      /\ p.id \in DOMAIN b.aggregates /\ b.records[p.id] = p.archive.baseline
  BY Zenon DEF SplitOp
<1>2. /\ p.side = SideOfAll(DOMAIN b.aggregates[p.id]) /\ p.place = b.aggregates[p.id]
      /\ p.archive = b.archives[p.id]
  BY <1>1
<1> DEFINE a == p.id
<1>3. /\ a \in Int /\ a < 0 /\ a \in DOMAIN b.records
      /\ DOMAIN b.aggregates[a] # {} /\ DOMAIN b.aggregates[a] \subseteq Units
      /\ DOMAIN b.archives[a].of = DOMAIN b.aggregates[a]
      /\ DOMAIN b.aggregates[a] \intersect DOMAIN b.records = {}
      /\ SideOfAll(DOMAIN b.aggregates[a]) \in Sides
  BY <1>1, SoundFacts, Zenon
<1> QED
  BY <1>1, <1>2, <1>3, Zenon

-----------------------------------------------------------------------------
(* Rolling back.                                                           *)

LEMMA MergeRolledBack ==
  ASSUME Merging, At("rollback"), Rollback
  PROVE  Owners' = op.begun
<1> DEFINE b == op.begun
           ids == DOMAIN op.place
<1>1. MergeOp(op) /\ Sound(b, History) /\ MergeDone(op, Owners, History) /\ op.kind = "merge"
  BY Zenon DEF Merging
<1>2. /\ op.id \notin DOMAIN b.records /\ op.id \notin DOMAIN b.aggregates
      /\ ids \subseteq DOMAIN b.records /\ DOMAIN op.archive.of = ids
      /\ \A u \in ids : op.archive.of[u] = b.records[u]
  BY <1>1, MergeOpFacts, Zenon
<1>3. /\ b = [roster |-> b.roster, records |-> b.records, status |-> b.status,
              archives |-> b.archives, loadouts |-> b.loadouts, targeting |-> b.targeting,
              aggregates |-> b.aggregates, nextId |-> b.nextId]
      /\ IsFunction(b.records) /\ IsFunction(b.status) /\ IsFunction(b.archives)
      /\ DOMAIN b.records = MembersOf(b.roster) /\ DOMAIN b.status = MembersOf(b.roster)
      /\ DOMAIN b.archives = DOMAIN b.aggregates
  BY <1>1, SoundFacts, Zenon
<1>4. \A u \in ids : b.status[u] = "ACTIVE"
  BY <1>1, Zenon DEF MergeOp
<1>5. /\ RollbackMorale /\ targeting' = b.targeting /\ roster' = b.roster
      /\ loadouts' = b.loadouts /\ aggregates' = b.aggregates /\ nextId' = b.nextId
  BY <1>1 DEF Rollback
<1>6. records' = b.records /\ status' = b.status /\ archives' = b.archives
  <2>1. CASE ~op.moraleDone
    <3>1. UNCHANGED <<records, status, archives>>
      BY <1>5, <2>1 DEF RollbackMorale
    <3>2. records = b.records /\ status = b.status /\ archives = b.archives
      BY <1>1, <2>1 DEF MergeDone, MoraleOf, Owners
    <3> QED
      BY <3>1, <3>2
  <2>2. CASE op.moraleDone
    <3>1. /\ records' = Joined(Without(records, {op.id}), op.archive.of)
          /\ status' = Joined(Without(status, {op.id}), [u \in ids |-> "ACTIVE"])
          /\ archives' = Without(archives, {op.id})
      BY <1>1, <1>5, <2>2 DEF RollbackMorale
    <3>2. /\ records = With(Without(b.records, ids), op.id, op.archive.baseline)
          /\ status = With(Without(b.status, ids), op.id, RequiredStatus(op.archive.baseline.state))
          /\ archives = With(b.archives, op.id, op.archive)
      BY <1>1, <2>2 DEF MergeDone, MergedMorale, MoraleOf, Owners
    <3>3. records' = b.records
      <4> DEFINE g == op.archive.of
                 f == b.records
                 v == op.archive.baseline
      <4>1. DOMAIN g \subseteq DOMAIN f /\ (\A u \in DOMAIN g : g[u] = f[u]) /\ DOMAIN g = ids
        BY <1>2, Zenon
      <4>2. IsFunction(f) /\ op.id \notin DOMAIN f
        BY <1>2, <1>3, Zenon
      <4> HIDE DEF f, g, v
      <4>3. Joined(Without(With(Without(f, DOMAIN g), op.id, v), {op.id}), g) = f
        BY <4>1, <4>2, MergeUndone
      <4> QED
        BY <3>1, <3>2, <4>1, <4>3, Zenon DEF f, g, v
    <3>4. status' = b.status
      <4> DEFINE g == [u \in ids |-> "ACTIVE"]
      <4>1. DOMAIN g = ids /\ DOMAIN g \subseteq DOMAIN b.status /\ \A u \in DOMAIN g : g[u] = b.status[u]
        BY <1>2, <1>3, <1>4
      <4>2. op.id \notin DOMAIN b.status
        BY <1>2, <1>3
      <4> DEFINE f == b.status
                 v == RequiredStatus(op.archive.baseline.state)
      <4>3. IsFunction(f)
        BY <1>3, Zenon
      <4> HIDE DEF f, g, v
      <4>4. Joined(Without(With(Without(f, DOMAIN g), op.id, v), {op.id}), g) = f
        BY <4>1, <4>2, <4>3, MergeUndone DEF f
      <4> QED
        BY <3>1, <3>2, <4>1, <4>4, Zenon DEF f, g, v
    <3>5. archives' = b.archives
      BY <1>2, <1>3, <3>1, <3>2, EntryUndone, Zenon
    <3> QED
      BY <3>3, <3>4, <3>5
  <2>3. op.moraleDone \in BOOLEAN
    BY <1>1, Zenon DEF MergeOp
  <2> QED
    BY <2>1, <2>2, <2>3
<1> QED
  BY <1>3, <1>5, <1>6, Zenon DEF Owners

LEMMA SplitRolledBack ==
  ASSUME Splitting, At("rollback"), Rollback
  PROVE  Owners' = op.begun
<1> DEFINE b == op.begun
           ids == DOMAIN op.place
<1>1. SplitOp(op) /\ Sound(b, History) /\ SplitDone(op, Owners) /\ op.kind = "split"
  BY Zenon DEF Splitting
<1>2. /\ op.id \in DOMAIN b.aggregates /\ op.id \in DOMAIN b.records
      /\ op.archive = b.archives[op.id] /\ b.records[op.id] = op.archive.baseline
      /\ DOMAIN op.archive.of = ids /\ ids \intersect DOMAIN b.records = {}
  BY <1>1, SplitOpFacts, Zenon
<1>3. /\ b = [roster |-> b.roster, records |-> b.records, status |-> b.status,
              archives |-> b.archives, loadouts |-> b.loadouts, targeting |-> b.targeting,
              aggregates |-> b.aggregates, nextId |-> b.nextId]
      /\ IsFunction(b.records) /\ IsFunction(b.status) /\ IsFunction(b.archives)
      /\ DOMAIN b.records = MembersOf(b.roster) /\ DOMAIN b.status = MembersOf(b.roster)
      /\ DOMAIN b.archives = DOMAIN b.aggregates
  BY <1>1, SoundFacts, Zenon
<1>5. /\ RollbackMorale /\ targeting' = b.targeting /\ roster' = b.roster
      /\ loadouts' = b.loadouts /\ aggregates' = b.aggregates /\ nextId' = b.nextId
  BY <1>1 DEF Rollback
<1>6. records' = b.records /\ status' = b.status /\ archives' = b.archives
  <2>1. CASE ~op.moraleDone
    <3>1. UNCHANGED <<records, status, archives>>
      BY <1>5, <2>1 DEF RollbackMorale
    <3>2. records = b.records /\ status = b.status /\ archives = b.archives
      BY <1>1, <2>1 DEF SplitDone, MoraleOf, Owners
    <3> QED
      BY <3>1, <3>2
  <2>2. CASE op.moraleDone
    <3> DEFINE g == [u \in ids |-> RequiredStatus(op.archive.of[u].state)]
    <3>1. /\ records' = With(Without(records, ids), op.id, op.archive.baseline)
          /\ status' = With(Without(status, ids), op.id, b.status[op.id])
          /\ archives' = With(archives, op.id, op.archive)
      BY <1>1, <1>5, <2>2 DEF RollbackMorale
    <3>2. /\ records = Joined(Without(b.records, {op.id}), op.archive.of)
          /\ status = Joined(Without(b.status, {op.id}), g)
          /\ archives = Without(b.archives, {op.id})
      BY <1>1, <2>2 DEF SplitDone, SplitMorale, MoraleOf, Owners
    <3>3. records' = b.records
      <4> DEFINE h == op.archive.of
                 f == b.records
      <4>1. IsFunction(f) /\ op.id \in DOMAIN f /\ DOMAIN h \intersect DOMAIN f = {}
        BY <1>2, <1>3
      <4> HIDE DEF f, h
      <4>2. With(Without(Joined(Without(f, {op.id}), h), DOMAIN h), op.id, f[op.id]) = f
        BY <4>1, SplitUndone
      <4> QED
        BY <1>2, <3>1, <3>2, <4>2, Zenon DEF f, h
    <3>4. status' = b.status
      <4>1. DOMAIN g = ids /\ DOMAIN g \intersect DOMAIN b.status = {} /\ op.id \in DOMAIN b.status
        BY <1>2, <1>3
      <4> DEFINE f == b.status
      <4> HIDE DEF f, g
      <4>2. With(Without(Joined(Without(f, {op.id}), g), DOMAIN g), op.id, f[op.id]) = f
        BY <1>3, <4>1, SplitUndone DEF f
      <4> QED
        BY <3>1, <3>2, <4>1, <4>2, Zenon DEF f
    <3>5. archives' = b.archives
      <4> DEFINE f == b.archives
      <4>1. IsFunction(f) /\ op.id \in DOMAIN f
        BY <1>2, <1>3, Zenon
      <4> HIDE DEF f
      <4>2. With(Without(f, {op.id}), op.id, f[op.id]) = f
        BY <4>1, EntryUndone
      <4> QED
        BY <1>2, <3>1, <3>2, <4>2, Zenon DEF f
    <3> QED
      BY <3>3, <3>4, <3>5
  <2>3. op.moraleDone \in BOOLEAN
    BY <1>1, Zenon DEF SplitOp
  <2> QED
    BY <2>1, <2>2, <2>3
<1> QED
  BY <1>3, <1>5, <1>6, Zenon DEF Owners

LEMMA ReinforceRolledBack ==
  ASSUME Reinforcing, At("rollback"), Rollback
  PROVE  Owners' = op.begun
<1> DEFINE b == op.begun
           ids == ToSet(op.wave)
<1>1. ReinforceOp(op) /\ Sound(b, History) /\ ReinforceDone(op, Owners) /\ op.kind = "reinforce"
  BY Zenon DEF Reinforcing
<1>2. ids \intersect DOMAIN b.records = {}
  BY <1>1 DEF ReinforceOp
<1>3. /\ b = [roster |-> b.roster, records |-> b.records, status |-> b.status,
              archives |-> b.archives, loadouts |-> b.loadouts, targeting |-> b.targeting,
              aggregates |-> b.aggregates, nextId |-> b.nextId]
      /\ IsFunction(b.records) /\ IsFunction(b.status) /\ IsFunction(b.archives)
      /\ DOMAIN b.records = MembersOf(b.roster) /\ DOMAIN b.status = MembersOf(b.roster)
  BY <1>1, SoundFacts, Zenon
<1>4. RollbackMorale /\ targeting' = b.targeting /\ UNCHANGED <<roster, loadouts, aggregates, nextId>>
  BY <1>1 DEF Rollback
<1>5. /\ roster' = b.roster /\ loadouts' = b.loadouts /\ aggregates' = b.aggregates
      /\ nextId' = b.nextId
  BY <1>1, <1>4 DEF ReinforceDone, Owners
<1>6. records' = b.records /\ status' = b.status /\ archives' = b.archives
  <2>1. CASE ~op.moraleDone
    <3>1. UNCHANGED <<records, status, archives>>
      BY <1>4, <2>1 DEF RollbackMorale
    <3>2. records = b.records /\ status = b.status /\ archives = b.archives
      BY <1>1, <2>1 DEF ReinforceDone, MoraleOf, Owners
    <3> QED
      BY <3>1, <3>2
  <2>2. CASE op.moraleDone
    <3> DEFINE new == [u \in ids |-> [state |-> STEADY, gen |-> 0]]
               ready == [u \in ids |-> RequiredStatus(STEADY)]
    <3>1. /\ records' = Without(records, ids) /\ status' = Without(status, ids)
          /\ UNCHANGED archives
      BY <1>1, <1>4, <2>2 DEF RollbackMorale
    <3>2. records = Joined(b.records, new) /\ status = Joined(b.status, ready) /\ archives = b.archives
      BY <1>1, <2>2 DEF ReinforceDone, ReinforcedMorale, MoraleOf, Owners
    <3>3. /\ DOMAIN new = ids /\ DOMAIN ready = ids
          /\ DOMAIN new \intersect DOMAIN b.records = {}
          /\ DOMAIN ready \intersect DOMAIN b.status = {}
      BY <1>2, <1>3
    <3> HIDE DEF new, ready
    <3>4. records' = b.records
      BY <1>3, <3>1, <3>2, <3>3, JoinUndone, Zenon
    <3>5. status' = b.status
      BY <1>3, <3>1, <3>2, <3>3, JoinUndone, Zenon
    <3> QED
      BY <3>1, <3>2, <3>4, <3>5
  <2>3. op.moraleDone \in BOOLEAN
    BY <1>1, Zenon DEF ReinforceOp
  <2> QED
    BY <2>1, <2>2, <2>3
<1> QED
  BY <1>3, <1>5, <1>6, <1>4, Zenon DEF Owners

LEMMA HistoryKept ==
  ASSUME UNCHANGED <<evolved, origin, events>>
  PROVE  History' = History
BY DEF History

LEMMA OwnersKept ==
  ASSUME UNCHANGED owners
  PROVE  Owners' = Owners
BY DEF owners, Owners

\* An operation is undone in one step.
LEMMA RollbackUndoes ==
  ASSUME IInv, At("rollback"), Rollback
  PROVE  Owners' = op.begun /\ Sound(op.begun, History)
<1>1. Merging \/ Splitting \/ Reinforcing
  <2>1. op # Idle
    BY Zenon DEF At
  <2> QED
    BY <2>1, Zenon DEF IInv, Resting
<1>2. CASE Merging
  BY <1>2, MergeRolledBack, Zenon DEF Merging
<1>3. CASE Splitting
  BY <1>3, SplitRolledBack, Zenon DEF Splitting
<1>4. CASE Reinforcing
  BY <1>4, ReinforceRolledBack, Zenon DEF Reinforcing
<1> QED
  BY <1>1, <1>2, <1>3, <1>4, Zenon

LEMMA RollbackKeeps ==
  ASSUME IInv, Rollback
  PROVE  IInv'
<1>1. At("rollback") /\ op' = Idle /\ UNCHANGED <<evolved, origin, events>> /\ faults' = faults
  BY DEF Rollback, history
<1>2. Owners' = op.begun /\ Sound(op.begun, History)
  BY <1>1, RollbackUndoes
<1>3. History' = History
  BY <1>1, HistoryKept
<1>4. Sound(Owners', History')
  BY <1>2, <1>3, Zenon
<1>5. Typed(Owners', events')
  <2>1. Typed(Owners', History'.events)
    BY <1>4, Zenon DEF Sound
  <2>2. History'.events = events'
    BY DEF History
  <2> QED
    BY <2>1, <2>2, Zenon
<1>6. Resting'
  BY <1>1, <1>4, Zenon DEF Resting
<1>7. faults' \in 0..MaxFaults /\ events' \in 0..MaxEvents
  BY <1>1 DEF IInv
<1> QED
  BY <1>5, <1>6, <1>7, Zenon DEF IInv

-----------------------------------------------------------------------------
(* Beginning, and raising.                                                 *)

LEMMA RestingOnly ==
  ASSUME IInv, op = Idle
  PROVE  Sound(Owners, History) /\ Typed(Owners, events)
<1>1. op.kind = "none"
  BY DEF Idle
<1> QED
  BY <1>1 DEF IInv, Resting, Merging, Splitting, Reinforcing

LEMMA BeginMergeKeeps ==
  ASSUME IInv, NEW side \in Sides, NEW ids \in SUBSET ToSet(roster[side]), BeginMerge(side, ids)
  PROVE  IInv'
<1> DEFINE place == PlaceOf(ids, roster[side])
           b == Owners
<1>1. /\ op = Idle /\ nextId < MaxProxies /\ Cardinality(ids) >= MinUnits
      /\ \A u \in ids : u \in Units /\ status[u] = "ACTIVE"
      /\ \A a \in DOMAIN aggregates : SideOfAll(DOMAIN aggregates[a]) # side
      /\ op' = [kind |-> "merge", id |-> Proxy(nextId), side |-> side, place |-> place,
                archive |-> Archive(Restrict(records, ids)), todo |-> MergeSteps,
                begun |-> b, moraleDone |-> FALSE]
      /\ UNCHANGED owners /\ UNCHANGED <<evolved, origin, events>> /\ faults' = faults
  BY Zenon DEF BeginMerge, history
<1>2. Sound(Owners, History) /\ Typed(Owners, events)
  BY <1>1, RestingOnly
<1>3. Owners' = Owners /\ History' = History
  BY <1>1, OwnersKept, HistoryKept
<1>4. roster[side] \in Seq(Int)
  BY <1>2 DEF Typed, Owners
<1>5. DOMAIN place = ids /\ Stands(roster[side], place)
  BY <1>4, PlaceOfFacts
<1>6. ids # {}
  <2>1. ids = {} => Cardinality(ids) = 0
    BY FS_EmptySet
  <2> QED
    BY <1>1, <2>1, BoundsAssumption
<1>7. /\ b.nextId = nextId /\ b.records = records /\ b.roster = roster /\ b.status = status
      /\ b.aggregates = aggregates
  BY DEF Owners
<1> HIDE DEF place, b
<1>8. /\ op'.kind = "merge" /\ op'.id = Proxy(nextId) /\ op'.side = side /\ op'.place = place
      /\ op'.archive = Archive(Restrict(records, ids)) /\ op'.todo = MergeSteps
      /\ op'.begun = b /\ op'.moraleDone = FALSE
  BY <1>1
<1>9. MergeOp(op')
  <2>1. op' = [kind |-> "merge", id |-> Proxy(op'.begun.nextId), side |-> op'.side,
               place |-> op'.place,
               archive |-> Archive(Restrict(op'.begun.records, DOMAIN op'.place)),
               todo |-> op'.todo, begun |-> op'.begun, moraleDone |-> op'.moraleDone]
    BY <1>1, <1>5, <1>7, <1>8, Zenon
  <2>2. ids \subseteq Units
    BY <1>1
  <2>3. op'.todo = M1 /\ M1 # Back
    BY <1>8, StepsDiffer, Zenon DEF M1
  <2>4. op'.todo \in {M1, M2, M3, M4, M5, M6, Back}
    BY <2>3, Zenon
  <2>5. op'.moraleDone \in BOOLEAN /\ (op'.todo # Back => (op'.moraleDone <=> op'.todo # M1))
    BY <1>8, <2>3, Zenon
  <2> QED
    BY <1>1, <1>5, <1>6, <1>7, <1>8, <2>1, <2>2, <2>4, <2>5, Zenon DEF MergeOp
<1>10. MergeDone(op', Owners', History')
  <2>1. op'.todo = M1 /\ M1 \notin {M3, M4, M5, M6} /\ M1 # M6
    BY <1>8, StepsDiffer, Zenon DEF M1
  <2> QED
    BY <1>3, <1>8, <2>1, Zenon DEF MergeDone, b
<1>11. Merging'
  BY <1>2, <1>3, <1>8, <1>9, <1>10, Zenon DEF Merging, b
<1>12. faults' \in 0..MaxFaults /\ events' \in 0..MaxEvents /\ Typed(Owners', events')
  BY <1>1, <1>2, <1>3 DEF IInv
<1> QED
  BY <1>11, <1>12, Zenon DEF IInv

LEMMA BeginSplitKeeps ==
  ASSUME IInv, NEW a \in DOMAIN aggregates, BeginSplit(a)
  PROVE  IInv'
<1> DEFINE b == Owners
           side == SideOfAll(DOMAIN aggregates[a])
<1>1. /\ op = Idle /\ records[a] = archives[a].baseline
      /\ op' = [kind |-> "split", id |-> a, side |-> side, place |-> aggregates[a],
                archive |-> archives[a], todo |-> SplitSteps, begun |-> b, moraleDone |-> FALSE]
      /\ UNCHANGED owners /\ UNCHANGED <<evolved, origin, events>> /\ faults' = faults
  BY Zenon DEF BeginSplit, history
<1>2. Sound(Owners, History) /\ Typed(Owners, events)
  BY <1>1, RestingOnly
<1>3. Owners' = Owners /\ History' = History
  BY <1>1, OwnersKept, HistoryKept
<1>7. b.aggregates = aggregates /\ b.archives = archives /\ b.records = records
  BY DEF Owners
<1> HIDE DEF b
<1>8. /\ op'.kind = "split" /\ op'.id = a /\ op'.side = side /\ op'.place = aggregates[a]
      /\ op'.archive = archives[a] /\ op'.todo = SplitSteps
      /\ op'.begun = b /\ op'.moraleDone = FALSE
  <2> HIDE DEF side
  <2> QED
    BY <1>1
<1>9. SplitOp(op')
  <2>1. op' = [kind |-> "split", id |-> op'.id,
               side |-> SideOfAll(DOMAIN op'.begun.aggregates[op'.id]),
               place |-> op'.begun.aggregates[op'.id], archive |-> op'.begun.archives[op'.id],
               todo |-> op'.todo, begun |-> op'.begun, moraleDone |-> op'.moraleDone]
    BY <1>1, <1>7, <1>8, Zenon
  <2>3. op'.todo = S1 /\ S1 # Back
    BY <1>8, StepsDiffer, Zenon DEF S1
  <2>4. op'.todo \in {S1, S2, S3, S4, M4, M5, M6, Back}
    BY <2>3, Zenon
  <2>5. op'.moraleDone \in BOOLEAN /\ (op'.todo # Back => (op'.moraleDone <=> op'.todo # S1))
    BY <1>8, <2>3, Zenon
  <2> QED
    BY <1>1, <1>7, <1>8, <2>1, <2>4, <2>5, Zenon DEF SplitOp
<1>10. SplitDone(op', Owners')
  <2>1. op'.todo = S1 /\ S1 \notin {S3, S4} /\ S1 \notin {M4, M5, M6} /\ S1 # M6
    BY <1>8, StepsDiffer, Zenon DEF S1
  <2> QED
    BY <1>3, <1>8, <2>1, Zenon DEF SplitDone, b
<1>11. Splitting'
  BY <1>2, <1>3, <1>8, <1>9, <1>10, Zenon DEF Splitting, b
<1>12. faults' \in 0..MaxFaults /\ events' \in 0..MaxEvents /\ Typed(Owners', events')
  BY <1>1, <1>2, <1>3 DEF IInv
<1> QED
  BY <1>11, <1>12, Zenon DEF IInv

LEMMA BeginReinforceKeeps ==
  ASSUME IInv, NEW side \in Sides, NEW us \in SUBSET Units, NEW wave \in SetToSeqs(us),
         BeginReinforce(side, wave)
  PROVE  IInv'
<1> DEFINE b == Owners
<1>1. /\ op = Idle
      /\ \A u \in ToSet(wave) : SideOf[u] = side /\ u \notin DOMAIN records \union InArchives
      /\ op' = [kind |-> "reinforce", side |-> side, wave |-> wave, todo |-> ReinforceSteps,
                begun |-> b, moraleDone |-> FALSE]
      /\ UNCHANGED owners /\ UNCHANGED <<evolved, origin, events>> /\ faults' = faults
  BY Zenon DEF BeginReinforce, history
<1>2. Sound(Owners, History) /\ Typed(Owners, events)
  BY <1>1, RestingOnly
<1>3. Owners' = Owners /\ History' = History
  BY <1>1, OwnersKept, HistoryKept
<1>4. wave \in Seq(Units) /\ IsInjective(wave)
  <2>1. us \in SUBSET Units /\ IsFiniteSet(us)
    BY UnitsAssumption, FS_Subset
  <2>2. wave \in [1..Cardinality(us) -> us] /\ IsInjective(wave)
    <3> DEFINE D == 1..Cardinality(us)
    <3>1. wave \in {f \in [D -> us] : \A i, j \in D : i # j => f[i] # f[j]}
      BY Zenon DEF SetToSeqs
    <3> HIDE DEF D
    <3>2. wave \in [D -> us] /\ \A i, j \in D : i # j => wave[i] # wave[j]
      BY <3>1
    <3>3. DOMAIN wave = D
      BY <3>2
    <3>4. IsInjective(wave)
      BY <3>2, <3>3, Zenon DEF IsInjective
    <3> QED
      BY <3>2, <3>4 DEF D
  <2>3. Cardinality(us) \in Nat
    BY <2>1, FS_CardinalityType
  <2> QED
    BY <2>1, <2>2, <2>3
<1>7. b.aggregates = aggregates /\ b.records = records
  BY DEF Owners
<1> HIDE DEF b
<1>8. /\ op'.kind = "reinforce" /\ op'.side = side /\ op'.wave = wave
      /\ op'.todo = ReinforceSteps /\ op'.begun = b /\ op'.moraleDone = FALSE
  BY <1>1
<1>9. ReinforceOp(op')
  <2>1. op' = [kind |-> "reinforce", side |-> op'.side, wave |-> op'.wave,
               todo |-> op'.todo, begun |-> op'.begun, moraleDone |-> op'.moraleDone]
    BY <1>1, <1>8, Zenon
  <2>2. \A u \in ToSet(wave) : SideOf[u] = side /\ u \notin DOMAIN b.records
    BY <1>1, <1>7
  <2>3. \A a \in DOMAIN b.aggregates : DOMAIN b.aggregates[a] \intersect ToSet(wave) = {}
    BY <1>1, <1>7 DEF InArchives
  <2>4. op'.todo = R1 /\ R1 # Back
    BY <1>8, StepsDiffer, Zenon DEF R1
  <2>5. op'.todo \in {R1, R2, R3, Back}
    BY <2>4, Zenon
  <2>6. op'.moraleDone \in BOOLEAN /\ (op'.todo # Back => (op'.moraleDone <=> op'.todo # R1))
    BY <1>8, <2>4, Zenon
  <2> QED
    BY <1>4, <1>8, <2>1, <2>2, <2>3, <2>5, <2>6, Zenon DEF ReinforceOp
<1>10. ReinforceDone(op', Owners')
  <2>1. op'.todo = R1 /\ R1 # R3
    BY <1>8, StepsDiffer, Zenon DEF R1
  <2> QED
    BY <1>3, <1>8, <2>1, Zenon DEF ReinforceDone, b
<1>11. Reinforcing'
  BY <1>2, <1>3, <1>8, <1>9, <1>10, Zenon DEF Reinforcing, b
<1>12. faults' \in 0..MaxFaults /\ events' \in 0..MaxEvents /\ Typed(Owners', events')
  BY <1>1, <1>2, <1>3 DEF IInv
<1> QED
  BY <1>11, <1>12, Zenon DEF IInv

-----------------------------------------------------------------------------
(* Types from one step to the next.                                        *)

LEMMA TypedNow ==
  ASSUME Typed(Owners, events)
  PROVE  /\ roster \in [Sides -> Seq(Int)] /\ records \in [DOMAIN records -> RecordUpTo(events)]
         /\ status \in [DOMAIN status -> Statuses]
         /\ loadouts \subseteq Int /\ targeting \subseteq Int /\ IsFunction(archives)
         /\ \A a \in DOMAIN archives :
              /\ archives[a].baseline \in RecordUpTo(events)
              /\ archives[a].of \in [DOMAIN archives[a].of -> RecordUpTo(events)]
         /\ \A a \in DOMAIN aggregates :
              a \in Int /\ a < 0 /\ DOMAIN aggregates[a] \subseteq Units
         /\ nextId \in 0..MaxProxies
<1>1. /\ Owners.roster = roster /\ Owners.records = records /\ Owners.status = status
      /\ Owners.archives = archives /\ Owners.loadouts = loadouts /\ Owners.targeting = targeting
      /\ Owners.aggregates = aggregates /\ Owners.nextId = nextId
  BY DEF Owners
<1> QED
  BY <1>1, Zenon DEF Typed, IsFunction

LEMMA TypedNext ==
  ASSUME roster' \in [Sides -> Seq(Int)], records' \in [DOMAIN records' -> RecordUpTo(events')],
         status' \in [DOMAIN status' -> Statuses],
         loadouts' \subseteq Int, targeting' \subseteq Int, IsFunction(archives'),
         \A a \in DOMAIN archives' :
           /\ archives'[a].baseline \in RecordUpTo(events')
           /\ archives'[a].of \in [DOMAIN archives'[a].of -> RecordUpTo(events')],
         \A a \in DOMAIN aggregates' :
           a \in Int /\ a < 0 /\ DOMAIN aggregates'[a] \subseteq Units,
         nextId' \in 0..MaxProxies
  PROVE  Typed(Owners', events')
<1> DEFINE o == Owners'
<1>1. /\ o.roster = roster' /\ o.records = records' /\ o.status = status'
      /\ o.archives = archives' /\ o.loadouts = loadouts' /\ o.targeting = targeting'
      /\ o.aggregates = aggregates' /\ o.nextId = nextId'
  BY DEF Owners
<1>2. o = [roster |-> roster', records |-> records', status |-> status',
           archives |-> archives', loadouts |-> loadouts', targeting |-> targeting',
           aggregates |-> aggregates', nextId |-> nextId']
  BY Zenon DEF Owners
<1> HIDE DEF o
<1>3. Typed(o, events')
  BY <1>1, <1>2, Zenon DEF Typed, IsFunction
<1> QED
  BY <1>3 DEF o

LEMMA TypedFunctions ==
  ASSUME NEW V, NEW f, NEW g, f \in [DOMAIN f -> V], g \in [DOMAIN g -> V], NEW S, NEW x, NEW v \in V
  PROVE  /\ Without(f, S) \in [DOMAIN Without(f, S) -> V]
         /\ Joined(f, g) \in [DOMAIN Joined(f, g) -> V]
         /\ With(f, x, v) \in [DOMAIN With(f, x, v) -> V]
BY DEF Without, Restrict, Joined, With

LEMMA RequiredIsStatus ==
  \A m : RequiredStatus(m) \in Statuses
BY DEF RequiredStatus, Statuses

\* The archive of records is made of them.
LEMMA ArchiveFacts ==
  ASSUME NEW n \in Nat, NEW rs, rs \in [DOMAIN rs -> RecordUpTo(n)], DOMAIN rs # {},
         DOMAIN rs \subseteq Units
  PROVE  /\ Archive(rs).of = rs /\ Archive(rs).baseline = WorstOf(rs)
         /\ Archive(rs).baseline \in RecordUpTo(n)
         /\ \E u \in DOMAIN rs : Archive(rs).baseline = rs[u]
<1>1. Archive(rs).of = rs /\ Archive(rs).baseline = WorstOf(rs)
  BY DEF Archive
<1>2. \E u \in DOMAIN rs : WorstOf(rs) = rs[u]
  <2>1. DOMAIN rs \in SUBSET Nat
    BY UnitsAssumption
  <2> QED
    BY <2>1, WorstFacts
<1> QED
  BY <1>1, <1>2

\* The next of the steps of an operation.
LEMMA MergingGoesOn ==
  ASSUME IInv, Merging, NEW todo \in {M1, M2, M3, M4, M5, M6, Back}, NEW done \in BOOLEAN,
         todo # Back => (done <=> todo # M1), Continued(op, op', todo, done),
         Sound(op.begun, History'), Typed(Owners', events'),
         faults' \in 0..MaxFaults, events' = events,
         MergeDone(op', Owners', History')
  PROVE  IInv'
<1>1. MergeOp(op) /\ op.kind = "merge"
  BY Zenon DEF Merging
<1>2. MergeOp(op') /\ op'.kind = "merge" /\ op'.begun = op.begun
  <2> HIDE DEF M1, M2, M3, M4, M5, M6, Back
  <2> QED
    BY <1>1, MergeNext, Zenon
<1>3. Merging'
  BY <1>2, Zenon DEF Merging
<1>4. events' \in 0..MaxEvents
  BY DEF IInv
<1> QED
  BY <1>3, <1>4, Zenon DEF IInv

LEMMA SplittingGoesOn ==
  ASSUME IInv, Splitting, NEW todo \in {S1, S2, S3, S4, M4, M5, M6, Back}, NEW done \in BOOLEAN,
         todo # Back => (done <=> todo # S1), Continued(op, op', todo, done),
         Sound(op.begun, History'), Typed(Owners', events'),
         faults' \in 0..MaxFaults, events' = events,
         SplitDone(op', Owners')
  PROVE  IInv'
<1>1. SplitOp(op) /\ op.kind = "split"
  BY Zenon DEF Splitting
<1>2. SplitOp(op') /\ op'.kind = "split" /\ op'.begun = op.begun
  BY <1>1, SplitNext, Zenon
<1>3. Splitting'
  BY <1>2, Zenon DEF Splitting
<1>4. events' \in 0..MaxEvents
  BY DEF IInv
<1> QED
  BY <1>3, <1>4, Zenon DEF IInv

LEMMA ReinforcingGoesOn ==
  ASSUME IInv, Reinforcing, NEW todo \in {R1, R2, R3, Back}, NEW done \in BOOLEAN,
         todo # Back => (done <=> todo # R1), Continued(op, op', todo, done),
         Sound(op.begun, History'), Typed(Owners', events'),
         faults' \in 0..MaxFaults, events' = events,
         ReinforceDone(op', Owners')
  PROVE  IInv'
<1>1. ReinforceOp(op) /\ op.kind = "reinforce"
  BY Zenon DEF Reinforcing
<1>2. ReinforceOp(op') /\ op'.kind = "reinforce" /\ op'.begun = op.begun
  BY <1>1, ReinforceNext, Zenon
<1>3. Reinforcing'
  BY <1>2, Zenon DEF Reinforcing
<1>4. events' \in 0..MaxEvents
  BY DEF IInv
<1> QED
  BY <1>3, <1>4, Zenon DEF IInv

\* An exception may come at any step.
LEMMA MergingAborts ==
  ASSUME IInv, Merging, op' = [op EXCEPT !.todo = <<"rollback">>], UNCHANGED owners,
         UNCHANGED <<evolved, origin, events>>, faults' \in 0..MaxFaults
  PROVE  IInv'
<1>1. MergeOp(op) /\ MergeDone(op, Owners, History) /\ Sound(op.begun, History)
  BY Zenon DEF Merging
<1>2. op.moraleDone \in BOOLEAN /\ Back \in {M1, M2, M3, M4, M5, M6, Back}
  BY <1>1, Zenon DEF MergeOp
<1>3. Continued(op, op', Back, op.moraleDone)
  BY Zenon DEF Continued, Back
<1>4. Owners' = Owners /\ History' = History
  BY OwnersKept, HistoryKept
<1> HIDE DEF M1, M2, M3, M4, M5, M6, Back
<1>5. /\ op'.todo = Back /\ op'.begun = op.begun /\ op'.moraleDone = op.moraleDone
      /\ MergedMorale(op') = MergedMorale(op)
  <2>1. Back \in {M1, M2, M3, M4, M5, M6, Back} /\ (Back # Back => (op.moraleDone <=> Back # M1))
    BY <1>1, <1>2, <1>3, Zenon
  <2> QED
    BY <1>1, <1>2, <1>3, <2>1, MergeNext, Zenon
<1>6. Back \notin {M1, M2, M3, M4, M5, M6} /\ Back # M6
  BY StepsDiffer, Zenon
<1>7. Back \notin {M1, M2} /\ Back \notin {M3, M4, M5, M6} /\ Back \notin {M1, M2, M3, M4, M5}
  BY <1>6
<1>8. MergeDone(op', Owners', History')
  BY <1>1, <1>4, <1>5, <1>6, <1>7, Zenon DEF MergeDone
<1>9. Typed(Owners', events')
  BY <1>4, Zenon DEF IInv
<1>10. Sound(op.begun, History')
  BY <1>1, <1>4, Zenon
<1> QED
  BY <1>2, <1>3, <1>8, <1>9, <1>10, MergingGoesOn

LEMMA SplittingAborts ==
  ASSUME IInv, Splitting, op' = [op EXCEPT !.todo = <<"rollback">>], UNCHANGED owners,
         UNCHANGED <<evolved, origin, events>>, faults' \in 0..MaxFaults
  PROVE  IInv'
<1>1. SplitOp(op) /\ SplitDone(op, Owners) /\ Sound(op.begun, History)
  BY Zenon DEF Splitting
<1>2. op.moraleDone \in BOOLEAN /\ Back \in {S1, S2, S3, S4, M4, M5, M6, Back}
  BY <1>1, Zenon DEF SplitOp
<1>3. Continued(op, op', Back, op.moraleDone)
  BY Zenon DEF Continued, Back
<1>4. Owners' = Owners /\ History' = History
  BY OwnersKept, HistoryKept
<1>5. /\ op'.todo = Back /\ op'.begun = op.begun /\ op'.moraleDone = op.moraleDone
      /\ SplitMorale(op') = SplitMorale(op)
  <2>1. Back \in {S1, S2, S3, S4, M4, M5, M6, Back} /\ (Back # Back => (op.moraleDone <=> Back # S1))
    BY <1>1, <1>2, <1>3, Zenon
  <2> QED
    BY <1>1, <1>2, <1>3, <2>1, SplitNext, Zenon
<1>6. Back \notin {S1, S2, S3, S4, M4, M5, M6}
  BY StepsDiffer, Zenon
<1>7. /\ Back \notin {S1, S2} /\ Back \notin {S3, S4} /\ Back \notin {M4, M5, M6}
      /\ Back \notin {S1, S2, S3, S4, M4, M5} /\ Back # M6
  BY <1>6
<1>8. SplitDone(op', Owners')
  BY <1>1, <1>4, <1>5, <1>7, Zenon DEF SplitDone
<1>9. Typed(Owners', events')
  BY <1>4, Zenon DEF IInv
<1>10. Sound(op.begun, History')
  BY <1>1, <1>4, Zenon
<1> QED
  BY <1>2, <1>3, <1>8, <1>9, <1>10, SplittingGoesOn

LEMMA ReinforcingAborts ==
  ASSUME IInv, Reinforcing, op' = [op EXCEPT !.todo = <<"rollback">>], UNCHANGED owners,
         UNCHANGED <<evolved, origin, events>>, faults' \in 0..MaxFaults
  PROVE  IInv'
<1>1. ReinforceOp(op) /\ ReinforceDone(op, Owners) /\ Sound(op.begun, History)
  BY Zenon DEF Reinforcing
<1>2. op.moraleDone \in BOOLEAN /\ Back \in {R1, R2, R3, Back}
  BY <1>1, Zenon DEF ReinforceOp
<1>3. Continued(op, op', Back, op.moraleDone)
  BY Zenon DEF Continued, Back
<1>4. Owners' = Owners /\ History' = History
  BY OwnersKept, HistoryKept
<1>5. /\ op'.todo = Back /\ op'.begun = op.begun /\ op'.moraleDone = op.moraleDone
      /\ ReinforcedMorale(op') = ReinforcedMorale(op) /\ op'.wave = op.wave
  <2>1. Back \in {R1, R2, R3, Back} /\ (Back # Back => (op.moraleDone <=> Back # R1))
    BY <1>1, <1>2, <1>3, Zenon
  <2> QED
    BY <1>1, <1>2, <1>3, <2>1, ReinforceNext, Zenon
<1>6. Back \notin {R1, R2} /\ Back # R3
  BY StepsDiffer, Zenon
<1>8. ReinforceDone(op', Owners')
  BY <1>1, <1>4, <1>5, <1>6, Zenon DEF ReinforceDone
<1>9. Typed(Owners', events')
  BY <1>4, Zenon DEF IInv
<1>10. Sound(op.begun, History')
  BY <1>1, <1>4, Zenon
<1> QED
  BY <1>2, <1>3, <1>8, <1>9, <1>10, ReinforcingGoesOn

LEMMA RaiseKeeps ==
  ASSUME IInv, Raise
  PROVE  IInv'
<1>1. /\ op # Idle /\ op' = [op EXCEPT !.todo = <<"rollback">>] /\ UNCHANGED owners
      /\ UNCHANGED <<evolved, origin, events>> /\ faults < MaxFaults /\ faults' = faults + 1
  BY DEF Raise, history
<1>2. faults' \in 0..MaxFaults
  BY <1>1, BoundsAssumption DEF IInv
<1>3. Merging \/ Splitting \/ Reinforcing
  BY <1>1, Zenon DEF IInv, Resting
<1> QED
  BY <1>1, <1>2, <1>3, MergingAborts, SplittingAborts, ReinforcingAborts

-----------------------------------------------------------------------------
(* Suspending, returning and adding morale records.                        *)

LEMMA MergeMorale ==
  ASSUME IInv, Merging, CommitMorale
  PROVE  IInv'
<1> DEFINE b == op.begun
           ids == DOMAIN op.place
           archive == op.archive
<1>1. /\ op.kind = "merge" /\ MergeOp(op) /\ MergeDone(op, Owners, History)
      /\ Sound(b, History)
  BY Zenon DEF Merging
<1>2. /\ At("morale") /\ op' = [op EXCEPT !.todo = Tail(@), !.moraleDone = TRUE]
      /\ UNCHANGED <<roster, loadouts, targeting, aggregates, nextId, faults>>
      /\ UNCHANGED <<evolved, origin, events>>
  BY Zenon DEF CommitMorale, history
<1>3. /\ records' = With(Without(records, ids), op.id, archive.baseline)
      /\ status' = With(Without(status, ids), op.id, RequiredStatus(archive.baseline.state))
      /\ archives' = With(archives, op.id, archive)
  BY <1>1 DEF CommitMorale
<1>4. op.todo = M1 /\ Tail(op.todo) = M2
  BY <1>1, <1>2, MergeAt
<1>5. Continued(op, op', M2, TRUE)
  BY <1>2, <1>4 DEF Continued
<1>6. M1 # M2 /\ M2 # Back
  BY StepsDiffer, Zenon
<1>7. ~op.moraleDone
  BY <1>1, <1>4, StepsDiffer, Zenon DEF MergeOp
<1>8. records = b.records /\ status = b.status /\ archives = b.archives
  BY <1>1, <1>7 DEF MergeDone, MoraleOf, Owners
<1>9. /\ roster = b.roster /\ aggregates = b.aggregates /\ nextId = b.nextId
  BY <1>1, <1>4 DEF MergeDone, Owners
<1>10. /\ op'.todo = M2 /\ op'.moraleDone = TRUE /\ op'.begun = b /\ op'.place = op.place
       /\ MergedMorale(op') = MergedMorale(op)
  <2> HIDE DEF M1, M2, M3, M4, M5, M6, Back
  <2> QED
    <3>1. M2 \in {M1, M2, M3, M4, M5, M6, Back} /\ (M2 # Back => (TRUE <=> M2 # M1))
      BY <1>1, <1>5, <1>6, Zenon
    <3> QED
      BY <1>1, <1>5, <1>6, <3>1, MergeNext, Zenon
<1>11. MergeDone(op', Owners', History')
  <2>1. MoraleOf(Owners') = MergedMorale(op)
    BY <1>3, <1>8 DEF MoraleOf, MergedMorale, Owners
  <2>2. Owners'.roster = b.roster /\ Owners'.aggregates = b.aggregates /\ Owners'.nextId = b.nextId
    BY <1>2, <1>9 DEF Owners
  <2>3. M2 \notin {M3, M4, M5, M6} /\ M2 # M6
    BY StepsDiffer, Zenon
  <2> QED
    BY <1>10, <2>1, <2>2, <2>3, Zenon DEF MergeDone
<1>12. Typed(Owners', events')
  <2>1. /\ roster \in [Sides -> Seq(Int)] /\ records \in [DOMAIN records -> RecordUpTo(events)]
        /\ status \in [DOMAIN status -> Statuses] /\ loadouts \subseteq Int /\ targeting \subseteq Int
        /\ \A a \in DOMAIN archives :
             /\ archives[a].baseline \in RecordUpTo(events)
             /\ archives[a].of \in [DOMAIN archives[a].of -> RecordUpTo(events)]
        /\ \A a \in DOMAIN aggregates : a \in Int /\ a < 0 /\ DOMAIN aggregates[a] \subseteq Units
        /\ nextId \in 0..MaxProxies /\ events \in Nat
    BY TypedNow DEF IInv
  <2>2. /\ ids # {} /\ ids \subseteq Units /\ ids \subseteq DOMAIN b.records
        /\ DOMAIN archive.of = ids /\ archive = Archive(archive.of)
        /\ \A u \in ids : archive.of[u] = b.records[u]
    BY <1>1, MergeOpFacts, Zenon
  <2>3. archive.of \in [ids -> RecordUpTo(events)]
    <3>1. archive.of = Restrict(b.records, ids)
      <4>1. archive = Archive(Restrict(b.records, ids))
        BY <1>1 DEF MergeOp
      <4> QED
        BY <4>1 DEF Archive
    <3>2. archive.of = [u \in ids |-> b.records[u]]
      BY <2>2, <3>1, Zenon DEF Restrict
    <3> HIDE DEF ids, archive
    <3> QED
      BY <1>8, <2>1, <2>2, <3>2
  <2>4. archive.baseline \in RecordUpTo(events)
    <3> DEFINE rs == archive.of
    <3>1. rs \in [DOMAIN rs -> RecordUpTo(events)] /\ DOMAIN rs # {} /\ DOMAIN rs \subseteq Units
      BY <2>2, <2>3, Zenon
    <3> HIDE DEF rs
    <3>2. Archive(rs).baseline \in RecordUpTo(events)
      BY <2>1, <3>1, ArchiveFacts
    <3> QED
      BY <2>2, <3>2, Zenon DEF rs
  <2> HIDE DEF archive, ids
  <2>5. records' \in [DOMAIN records' -> RecordUpTo(events)]
    BY <1>3, <2>1, <2>4 DEF With, Joined, Without, Restrict
  <2>6. status' \in [DOMAIN status' -> Statuses]
    <3>1. RequiredStatus(archive.baseline.state) \in Statuses
      BY RequiredIsStatus
    <3> QED
      BY <1>3, <2>1, <3>1 DEF With, Joined, Without, Restrict
  <2>7. \A a \in DOMAIN archives' :
             /\ archives'[a].baseline \in RecordUpTo(events)
             /\ archives'[a].of \in [DOMAIN archives'[a].of -> RecordUpTo(events)]
    <3>1. \A a \in DOMAIN archives' : archives'[a] = archive \/ (a \in DOMAIN archives /\ archives'[a] = archives[a])
      BY <1>3 DEF With, Joined
    <3>2. archive.of \in [DOMAIN archive.of -> RecordUpTo(events)]
      BY <2>2, <2>3, Zenon
    <3> QED
      BY <2>1, <2>4, <3>1, <3>2, Zenon
  <2>8. IsFunction(archives')
    BY <1>3, AreFunctions
  <2> QED
    BY <1>2, <2>1, <2>5, <2>6, <2>7, <2>8, TypedNext
<1>13. Sound(b, History') /\ faults' \in 0..MaxFaults
  BY <1>1, <1>2, HistoryKept DEF IInv
<1>14. TRUE \in BOOLEAN /\ M2 \in {M1, M2, M3, M4, M5, M6, Back} /\ (TRUE <=> M2 # M1)
  BY <1>6, Zenon
<1> QED
  BY <1>2, <1>5, <1>11, <1>12, <1>13, <1>14, MergingGoesOn

LEMMA SplitMoraleBack ==
  ASSUME IInv, Splitting, CommitMorale
  PROVE  IInv'
<1> DEFINE b == op.begun
           ids == DOMAIN op.place
           archive == op.archive
           back == [u \in ids |-> RequiredStatus(archive.of[u].state)]
<1>1. op.kind = "split" /\ SplitOp(op) /\ SplitDone(op, Owners) /\ Sound(b, History)
  BY Zenon DEF Splitting
<1>2. /\ At("morale") /\ op' = [op EXCEPT !.todo = Tail(@), !.moraleDone = TRUE]
      /\ UNCHANGED <<roster, loadouts, targeting, aggregates, nextId, faults>>
      /\ UNCHANGED <<evolved, origin, events>>
  BY Zenon DEF CommitMorale, history
<1>3. /\ records' = Joined(Without(records, {op.id}), archive.of)
      /\ status' = Joined(Without(status, {op.id}), back)
      /\ archives' = Without(archives, {op.id})
  BY <1>1 DEF CommitMorale
<1>4. op.todo = S1 /\ Tail(op.todo) = S2
  BY <1>1, <1>2, SplitAt
<1>5. Continued(op, op', S2, TRUE)
  BY <1>2, <1>4 DEF Continued
<1>6. S1 # S2 /\ S2 # Back
  BY StepsDiffer, Zenon
<1>7. ~op.moraleDone
  BY <1>1, <1>4, StepsDiffer, Zenon DEF SplitOp
<1>8. records = b.records /\ status = b.status /\ archives = b.archives
  BY <1>1, <1>7 DEF SplitDone, MoraleOf, Owners
<1>9. roster = b.roster /\ aggregates = b.aggregates /\ nextId = b.nextId
  <2>1. S1 \in {S1, S2} /\ S1 \in {S1, S2, S3, S4, M4, M5} /\ S1 # Back
    BY StepsDiffer, Zenon
  <2> QED
    BY <1>1, <1>4, <2>1 DEF SplitDone, Owners
<1>10. /\ op'.todo = S2 /\ op'.moraleDone = TRUE /\ op'.begun = b
       /\ SplitMorale(op') = SplitMorale(op)
  <2>1. S2 \in {S1, S2, S3, S4, M4, M5, M6, Back} /\ (S2 # Back => (TRUE <=> S2 # S1))
    BY <1>1, <1>5, <1>6, Zenon
  <2> QED
    BY <1>1, <1>5, <1>6, <2>1, SplitNext, Zenon
<1>11. SplitDone(op', Owners')
  <2>1. MoraleOf(Owners') = SplitMorale(op)
    BY <1>3, <1>8 DEF MoraleOf, SplitMorale, Owners
  <2>2. Owners'.roster = b.roster /\ Owners'.aggregates = b.aggregates /\ Owners'.nextId = b.nextId
    BY <1>2, <1>9 DEF Owners
  <2>3. S2 \notin {S3, S4, M4, M5, M6}
    BY StepsDiffer, Zenon
  <2>4. S2 \notin {S3, S4} /\ S2 \notin {M4, M5, M6} /\ S2 # M6
    BY <2>3
  <2> QED
    BY <1>10, <2>1, <2>2, <2>4, Zenon DEF SplitDone
<1>12. Typed(Owners', events')
  <2>1. /\ roster \in [Sides -> Seq(Int)] /\ records \in [DOMAIN records -> RecordUpTo(events)]
        /\ status \in [DOMAIN status -> Statuses] /\ loadouts \subseteq Int /\ targeting \subseteq Int
        /\ \A a \in DOMAIN archives :
             /\ archives[a].baseline \in RecordUpTo(events)
             /\ archives[a].of \in [DOMAIN archives[a].of -> RecordUpTo(events)]
        /\ \A a \in DOMAIN aggregates : a \in Int /\ a < 0 /\ DOMAIN aggregates[a] \subseteq Units
        /\ nextId \in 0..MaxProxies /\ events \in Nat
    BY TypedNow DEF IInv
  <2>2. op.id \in DOMAIN b.archives /\ archive = b.archives[op.id]
    BY <1>1, SplitOpFacts, SoundFacts, Zenon
  <2>3. archive.of \in [DOMAIN archive.of -> RecordUpTo(events)]
    BY <1>8, <2>1, <2>2, Zenon
  <2>4. back \in [DOMAIN back -> Statuses]
    BY RequiredIsStatus
  <2> HIDE DEF archive, back
  <2>5. records' \in [DOMAIN records' -> RecordUpTo(events)]
    BY <1>3, <2>1, <2>3 DEF Joined, Without, Restrict
  <2>6. status' \in [DOMAIN status' -> Statuses]
    BY <1>3, <2>1, <2>4 DEF Joined, Without, Restrict
  <2>7. \A a \in DOMAIN archives' : a \in DOMAIN archives /\ archives'[a] = archives[a]
    BY <1>3 DEF Without, Restrict
  <2>8. IsFunction(archives')
    BY <1>3, AreFunctions
  <2> QED
    BY <1>2, <2>1, <2>5, <2>6, <2>7, <2>8, TypedNext
<1>13. Sound(b, History') /\ faults' \in 0..MaxFaults
  BY <1>1, <1>2, HistoryKept DEF IInv
<1>14. TRUE \in BOOLEAN /\ S2 \in {S1, S2, S3, S4, M4, M5, M6, Back} /\ (TRUE <=> S2 # S1)
  BY <1>6, Zenon
<1> QED
  BY <1>2, <1>5, <1>11, <1>12, <1>13, <1>14, SplittingGoesOn

LEMMA ReinforceMorale ==
  ASSUME IInv, Reinforcing, CommitMorale
  PROVE  IInv'
<1> DEFINE b == op.begun
           ids == ToSet(op.wave)
           new == [u \in ids |-> [state |-> STEADY, gen |-> 0]]
           ready == [u \in ids |-> RequiredStatus(STEADY)]
<1>1. op.kind = "reinforce" /\ ReinforceOp(op) /\ ReinforceDone(op, Owners) /\ Sound(b, History)
  BY Zenon DEF Reinforcing
<1>2. /\ At("morale") /\ op' = [op EXCEPT !.todo = Tail(@), !.moraleDone = TRUE]
      /\ UNCHANGED <<roster, loadouts, targeting, aggregates, nextId, faults>>
      /\ UNCHANGED <<evolved, origin, events>>
  BY Zenon DEF CommitMorale, history
<1>3. /\ records' = Joined(records, new) /\ status' = Joined(status, ready)
      /\ archives' = archives
  BY <1>1 DEF CommitMorale
<1>4. op.todo = R1 /\ Tail(op.todo) = R2
  BY <1>1, <1>2, ReinforceAt
<1>5. Continued(op, op', R2, TRUE)
  BY <1>2, <1>4 DEF Continued
<1>6. R1 # R2 /\ R2 # Back /\ R2 # R3
  BY StepsDiffer, Zenon
<1>7. ~op.moraleDone
  BY <1>1, <1>4, StepsDiffer, Zenon DEF ReinforceOp
<1>8. records = b.records /\ status = b.status /\ archives = b.archives
  BY <1>1, <1>7 DEF ReinforceDone, MoraleOf, Owners
<1>9. /\ roster = b.roster /\ loadouts = b.loadouts /\ aggregates = b.aggregates /\ nextId = b.nextId
      /\ targeting = b.targeting
  BY <1>1, <1>4 DEF ReinforceDone, Owners
<1>10. /\ op'.todo = R2 /\ op'.moraleDone = TRUE /\ op'.begun = b
       /\ ReinforcedMorale(op') = ReinforcedMorale(op)
  <2>1. R2 \in {R1, R2, R3, Back} /\ (R2 # Back => (TRUE <=> R2 # R1))
    BY <1>1, <1>5, <1>6, Zenon
  <2> QED
    BY <1>1, <1>5, <1>6, <2>1, ReinforceNext, Zenon
<1>11. ReinforceDone(op', Owners')
  <2>1. MoraleOf(Owners') = ReinforcedMorale(op)
    BY <1>3, <1>8 DEF MoraleOf, ReinforcedMorale, Owners
  <2>2. /\ Owners'.roster = b.roster /\ Owners'.loadouts = b.loadouts
        /\ Owners'.aggregates = b.aggregates /\ Owners'.nextId = b.nextId
        /\ Owners'.targeting = b.targeting
    BY <1>2, <1>9 DEF Owners
  <2> QED
    BY <1>6, <1>10, <2>1, <2>2, Zenon DEF ReinforceDone
<1>12. Typed(Owners', events')
  <2>1. /\ roster \in [Sides -> Seq(Int)] /\ records \in [DOMAIN records -> RecordUpTo(events)]
        /\ status \in [DOMAIN status -> Statuses] /\ loadouts \subseteq Int /\ targeting \subseteq Int
        /\ \A a \in DOMAIN archives :
             /\ archives[a].baseline \in RecordUpTo(events)
             /\ archives[a].of \in [DOMAIN archives[a].of -> RecordUpTo(events)]
        /\ \A a \in DOMAIN aggregates : a \in Int /\ a < 0 /\ DOMAIN aggregates[a] \subseteq Units
        /\ nextId \in 0..MaxProxies /\ events \in Nat /\ IsFunction(archives)
    BY TypedNow DEF IInv
  <2>2. [state |-> STEADY, gen |-> 0] \in RecordUpTo(events)
    BY <2>1 DEF RecordUpTo, MoraleState, STEADY
  <2>3. new \in [DOMAIN new -> RecordUpTo(events)]
    BY <2>2
  <2>4. ready \in [DOMAIN ready -> Statuses]
    BY RequiredIsStatus
  <2> HIDE DEF new, ready
  <2>5. records' \in [DOMAIN records' -> RecordUpTo(events)]
    BY <1>3, <2>1, <2>3 DEF Joined
  <2>6. status' \in [DOMAIN status' -> Statuses]
    BY <1>3, <2>1, <2>4 DEF Joined
  <2> QED
    BY <1>2, <1>3, <2>1, <2>5, <2>6, TypedNext
<1>13. Sound(b, History') /\ faults' \in 0..MaxFaults
  BY <1>1, <1>2, HistoryKept DEF IInv
<1>14. TRUE \in BOOLEAN /\ R2 \in {R1, R2, R3, Back} /\ (TRUE <=> R2 # R1)
  BY <1>6, Zenon
<1> QED
  BY <1>2, <1>5, <1>11, <1>12, <1>13, <1>14, ReinforcingGoesOn

LEMMA CommitMoraleKeeps ==
  ASSUME IInv, CommitMorale
  PROVE  IInv'
<1>1. op # Idle
  BY Zenon DEF CommitMorale, At
<1>2. Merging \/ Splitting \/ Reinforcing
  BY <1>1, Zenon DEF IInv, Resting
<1> QED
  BY <1>2, MergeMorale, SplitMoraleBack, ReinforceMorale

-----------------------------------------------------------------------------
(* Loadouts and tactical targeting.                                        *)

LEMMA CommitLoadoutsKeeps ==
  ASSUME IInv, CommitLoadouts
  PROVE  IInv'
<1> HIDE DEF M1, M2, M3, M4, M5, M6, Back, S1, S2, S3, S4
<1>1. /\ At("loadouts") /\ op' = [op EXCEPT !.todo = Tail(@)]
      /\ loadouts' = IF op.kind = "merge" THEN (loadouts \ DOMAIN op.place) \union {op.id}
                     ELSE (loadouts \ {op.id}) \union DOMAIN op.place
      /\ UNCHANGED <<roster, records, status, archives, targeting, aggregates, nextId, faults>>
      /\ UNCHANGED <<evolved, origin, events>>
  BY Zenon DEF CommitLoadouts, Advance, history
<1>2. History' = History /\ faults' \in 0..MaxFaults
  BY <1>1, HistoryKept DEF IInv
<1>3. /\ roster \in [Sides -> Seq(Int)] /\ records \in [DOMAIN records -> RecordUpTo(events)]
      /\ status \in [DOMAIN status -> Statuses] /\ loadouts \subseteq Int /\ targeting \subseteq Int
      /\ \A a \in DOMAIN archives :
           /\ archives[a].baseline \in RecordUpTo(events)
           /\ archives[a].of \in [DOMAIN archives[a].of -> RecordUpTo(events)]
      /\ \A a \in DOMAIN aggregates : a \in Int /\ a < 0 /\ DOMAIN aggregates[a] \subseteq Units
      /\ nextId \in 0..MaxProxies /\ IsFunction(archives)
  BY TypedNow DEF IInv
<1>4. ASSUME op.id \in Int, DOMAIN op.place \subseteq Units PROVE Typed(Owners', events')
  <2>1. loadouts' \subseteq Int
    BY <1>1, <1>3, <1>4, UnitsAssumption
  <2> QED
    BY <1>1, <1>3, <2>1, TypedNext
<1>5. /\ MoraleOf(Owners') = MoraleOf(Owners) /\ Owners'.roster = Owners.roster
      /\ Owners'.aggregates = Owners.aggregates /\ Owners'.nextId = Owners.nextId
  BY <1>1 DEF MoraleOf, Owners
<1>6. CASE Merging
  <2>1. op.kind = "merge" /\ MergeOp(op) /\ MergeDone(op, Owners, History) /\ Sound(op.begun, History)
    BY <1>6, Zenon DEF Merging
  <2>2. op.todo = M3 /\ Tail(op.todo) = M4
    BY <1>1, <2>1, MergeAt
  <2>3. op.moraleDone \in BOOLEAN /\ op.moraleDone /\ M4 # Back /\ M4 # M1
    BY <2>1, <2>2, StepsDiffer, Zenon DEF MergeOp
  <2>4. Continued(op, op', M4, op.moraleDone)
    BY <1>1, <2>2, Zenon DEF Continued
  <2>5. /\ op'.todo = M4 /\ op'.begun = op.begun /\ op'.moraleDone = op.moraleDone
        /\ MergedMorale(op') = MergedMorale(op) /\ MergedRoster(op') = MergedRoster(op)
    <3>1. M4 \in {M1, M2, M3, M4, M5, M6, Back} /\ (M4 # Back => (op.moraleDone <=> M4 # M1))
      BY <2>1, <2>3, <2>4, Zenon
    <3> QED
      BY <2>1, <2>3, <2>4, <3>1, MergeNext, Zenon
  <2>6. /\ M4 \notin {M1, M2} /\ M4 # M6 /\ M3 \in {M3, M4, M5, M6} /\ M4 \in {M3, M4, M5, M6}
        /\ M3 \in {M1, M2, M3, M4, M5}
    BY StepsDiffer, Zenon
  <2>7. MergeDone(op', Owners', History')
    BY <1>2, <1>5, <2>1, <2>2, <2>5, <2>6, Zenon DEF MergeDone
  <2>8. Typed(Owners', events')
    BY <1>4, <2>1, MergeOpFacts, Zenon
  <2>9. Sound(op.begun, History') /\ M4 \in {M1, M2, M3, M4, M5, M6, Back}
    BY <1>2, <2>1, Zenon
  <2> QED
    BY <1>1, <1>2, <1>6, <2>3, <2>4, <2>7, <2>8, <2>9, MergingGoesOn
<1>7. CASE Splitting
  <2>1. op.kind = "split" /\ SplitOp(op) /\ SplitDone(op, Owners) /\ Sound(op.begun, History)
    BY <1>7, Zenon DEF Splitting
  <2>2. op.todo = S3 /\ Tail(op.todo) = S4
    BY <1>1, <2>1, SplitAt
  <2>3. op.moraleDone \in BOOLEAN /\ op.moraleDone /\ S4 # Back /\ S4 # S1 /\ S3 # Back
    BY <2>1, <2>2, StepsDiffer, Zenon DEF SplitOp
  <2>4. Continued(op, op', S4, op.moraleDone)
    BY <1>1, <2>2, Zenon DEF Continued
  <2>5. /\ op'.todo = S4 /\ op'.begun = op.begun /\ op'.moraleDone = op.moraleDone
        /\ SplitMorale(op') = SplitMorale(op) /\ ClearedRoster(op') = ClearedRoster(op)
    <3>1. S4 \in {S1, S2, S3, S4, M4, M5, M6, Back} /\ (S4 # Back => (op.moraleDone <=> S4 # S1))
      BY <2>1, <2>3, <2>4, Zenon
    <3> QED
      BY <2>1, <2>3, <2>4, <3>1, SplitNext, Zenon
  <2>6. /\ S4 \notin {S1, S2} /\ S4 \notin {M4, M5, M6} /\ S4 # M6
        /\ S3 \in {S3, S4} /\ S3 \in {S1, S2, S3, S4, M4, M5}
    BY StepsDiffer, Zenon
  <2>7. SplitDone(op', Owners')
    BY <1>5, <2>1, <2>2, <2>3, <2>5, <2>6, Zenon DEF SplitDone
  <2>8. Typed(Owners', events')
    BY <1>4, <2>1, SplitOpFacts, Zenon
  <2>9. Sound(op.begun, History') /\ S4 \in {S1, S2, S3, S4, M4, M5, M6, Back}
    BY <1>2, <2>1, Zenon
  <2> QED
    BY <1>1, <1>2, <1>7, <2>3, <2>4, <2>7, <2>8, <2>9, SplittingGoesOn
<1>8. ~Reinforcing /\ op # Idle
  BY <1>1, ReinforceAt, Zenon DEF Reinforcing, At
<1> QED
  BY <1>6, <1>7, <1>8, Zenon DEF IInv, Resting

LEMMA CommitTargetingKeeps ==
  ASSUME IInv, CommitTargeting
  PROVE  IInv'
<1> HIDE DEF M1, M2, M3, M4, M5, M6, Back, S1, S2, S3, S4, R1, R2, R3
<1>1. /\ At("targeting") /\ op' = [op EXCEPT !.todo = Tail(@)]
      /\ targeting' = CASE op.kind = "merge" -> (targeting \ DOMAIN op.place) \union {op.id}
                        [] op.kind = "split" -> (targeting \ {op.id}) \union DOMAIN op.place
                        [] op.kind = "reinforce" -> targeting \union ToSet(op.wave)
      /\ UNCHANGED <<roster, records, status, archives, loadouts, aggregates, nextId, faults>>
      /\ UNCHANGED <<evolved, origin, events>>
  BY Zenon DEF CommitTargeting, Advance, history
<1>2. History' = History /\ faults' \in 0..MaxFaults
  BY <1>1, HistoryKept DEF IInv
<1>3. /\ roster \in [Sides -> Seq(Int)] /\ records \in [DOMAIN records -> RecordUpTo(events)]
      /\ status \in [DOMAIN status -> Statuses] /\ loadouts \subseteq Int /\ targeting \subseteq Int
      /\ \A a \in DOMAIN archives :
           /\ archives[a].baseline \in RecordUpTo(events)
           /\ archives[a].of \in [DOMAIN archives[a].of -> RecordUpTo(events)]
      /\ \A a \in DOMAIN aggregates : a \in Int /\ a < 0 /\ DOMAIN aggregates[a] \subseteq Units
      /\ nextId \in 0..MaxProxies /\ IsFunction(archives)
  BY TypedNow DEF IInv
<1>4. ASSUME targeting' \subseteq Int PROVE Typed(Owners', events')
  BY <1>1, <1>3, <1>4, TypedNext
<1>5. /\ MoraleOf(Owners') = MoraleOf(Owners) /\ Owners'.roster = Owners.roster
      /\ Owners'.aggregates = Owners.aggregates /\ Owners'.nextId = Owners.nextId
      /\ Owners'.loadouts = Owners.loadouts /\ Owners'.targeting = targeting'
      /\ Owners.targeting = targeting
  BY <1>1 DEF MoraleOf, Owners
<1>6. CASE Merging
  <2>1. op.kind = "merge" /\ MergeOp(op) /\ MergeDone(op, Owners, History) /\ Sound(op.begun, History)
    BY <1>6, Zenon DEF Merging
  <2>2. op.todo = M4 /\ Tail(op.todo) = M5
    BY <1>1, <2>1, MergeAt
  <2>3. op.moraleDone \in BOOLEAN /\ op.moraleDone /\ M5 # Back /\ M5 # M1
    BY <2>1, <2>2, StepsDiffer, Zenon DEF MergeOp
  <2>4. Continued(op, op', M5, op.moraleDone)
    BY <1>1, <2>2, Zenon DEF Continued
  <2>5. /\ op'.todo = M5 /\ op'.begun = op.begun /\ op'.moraleDone = op.moraleDone
        /\ MergedMorale(op') = MergedMorale(op) /\ MergedRoster(op') = MergedRoster(op)
    <3>1. M5 \in {M1, M2, M3, M4, M5, M6, Back} /\ (M5 # Back => (op.moraleDone <=> M5 # M1))
      BY <2>1, <2>3, <2>4, Zenon
    <3> QED
      BY <2>1, <2>3, <2>4, <3>1, MergeNext, Zenon
  <2>6. /\ M5 \notin {M1, M2} /\ M5 # M6 /\ M4 \in {M3, M4, M5, M6} /\ M5 \in {M3, M4, M5, M6}
        /\ M4 \in {M1, M2, M3, M4, M5}
    BY StepsDiffer, Zenon
  <2>7. MergeDone(op', Owners', History')
    BY <1>2, <1>5, <2>1, <2>2, <2>5, <2>6, Zenon DEF MergeDone
  <2>8. Typed(Owners', events')
    <3>1. op.id \in Int /\ DOMAIN op.place \subseteq Units
      BY <2>1, MergeOpFacts, Zenon
    <3>2. targeting' = (targeting \ DOMAIN op.place) \union {op.id}
      BY <1>1, <2>1
    <3>3. targeting' \subseteq Int
      BY <1>3, <3>1, <3>2, UnitsAssumption
    <3> QED
      BY <1>4, <3>3
  <2>9. Sound(op.begun, History') /\ M5 \in {M1, M2, M3, M4, M5, M6, Back}
    BY <1>2, <2>1, Zenon
  <2> QED
    BY <1>1, <1>2, <1>6, <2>3, <2>4, <2>7, <2>8, <2>9, MergingGoesOn
<1>7. CASE Splitting
  <2>1. op.kind = "split" /\ SplitOp(op) /\ SplitDone(op, Owners) /\ Sound(op.begun, History)
    BY <1>7, Zenon DEF Splitting
  <2>2. op.todo = M4 /\ Tail(op.todo) = M5
    BY <1>1, <2>1, SplitAt
  <2>3. op.moraleDone \in BOOLEAN /\ op.moraleDone /\ M5 # Back /\ M5 # S1 /\ M4 # Back
    BY <2>1, <2>2, StepsDiffer, Zenon DEF SplitOp
  <2>4. Continued(op, op', M5, op.moraleDone)
    BY <1>1, <2>2, Zenon DEF Continued
  <2>5. /\ op'.todo = M5 /\ op'.begun = op.begun /\ op'.moraleDone = op.moraleDone
        /\ SplitMorale(op') = SplitMorale(op) /\ SplitRoster(op') = SplitRoster(op)
    <3>1. M5 \in {S1, S2, S3, S4, M4, M5, M6, Back} /\ (M5 # Back => (op.moraleDone <=> M5 # S1))
      BY <2>1, <2>3, <2>4, Zenon
    <3> QED
      BY <2>1, <2>3, <2>4, <3>1, SplitNext, Zenon
  <2>6. /\ M5 \notin {S1, S2} /\ M5 \notin {S3, S4} /\ M5 # M6
        /\ M4 \in {M4, M5, M6} /\ M4 \in {S1, S2, S3, S4, M4, M5}
    BY StepsDiffer, Zenon
  <2>7. SplitDone(op', Owners')
    BY <1>5, <2>1, <2>2, <2>3, <2>5, <2>6, Zenon DEF SplitDone
  <2>8. Typed(Owners', events')
    <3>1. op.id \in Int /\ DOMAIN op.place \subseteq Units
      BY <2>1, SplitOpFacts, Zenon
    <3>2. targeting' = (targeting \ {op.id}) \union DOMAIN op.place
      BY <1>1, <2>1
    <3>3. targeting' \subseteq Int
      BY <1>3, <3>1, <3>2, UnitsAssumption
    <3> QED
      BY <1>4, <3>3
  <2>9. Sound(op.begun, History') /\ M5 \in {S1, S2, S3, S4, M4, M5, M6, Back}
    BY <1>2, <2>1, Zenon
  <2> QED
    BY <1>1, <1>2, <1>7, <2>3, <2>4, <2>7, <2>8, <2>9, SplittingGoesOn
<1>8. CASE Reinforcing
  <2>1. /\ op.kind = "reinforce" /\ ReinforceOp(op) /\ ReinforceDone(op, Owners)
        /\ Sound(op.begun, History)
    BY <1>8, Zenon DEF Reinforcing
  <2>2. op.todo = R2 /\ Tail(op.todo) = R3
    BY <1>1, <2>1, ReinforceAt
  <2>3. op.moraleDone \in BOOLEAN /\ op.moraleDone /\ R3 # Back /\ R3 # R1
    BY <2>1, <2>2, StepsDiffer, Zenon DEF ReinforceOp
  <2>4. Continued(op, op', R3, op.moraleDone)
    BY <1>1, <2>2, Zenon DEF Continued
  <2>5. /\ op'.todo = R3 /\ op'.begun = op.begun /\ op'.moraleDone = op.moraleDone
        /\ ReinforcedMorale(op') = ReinforcedMorale(op) /\ op'.wave = op.wave
    <3>1. R3 \in {R1, R2, R3, Back} /\ (R3 # Back => (op.moraleDone <=> R3 # R1))
      BY <2>1, <2>3, <2>4, Zenon
    <3> QED
      BY <2>1, <2>3, <2>4, <3>1, ReinforceNext, Zenon
  <2>6. R3 \notin {R1, R2} /\ R2 \in {R1, R2}
    BY StepsDiffer, Zenon
  <2>60. targeting' = op.begun.targeting \union ToSet(op.wave)
    <3>1. targeting' = targeting \union ToSet(op.wave)
      BY <1>1, <2>1
    <3>2. targeting = op.begun.targeting
      BY <1>5, <2>1, <2>2, <2>6, Zenon DEF ReinforceDone
    <3> QED
      BY <3>1, <3>2
  <2>7. ReinforceDone(op', Owners')
    BY <1>5, <2>1, <2>2, <2>5, <2>6, <2>60, Zenon DEF ReinforceDone
  <2>8. Typed(Owners', events')
    <3>1. op.wave \in Seq(Units)
      BY <2>1, Zenon DEF ReinforceOp
    <3>2. ToSet(op.wave) \subseteq Units
      BY <3>1 DEF ToSet
    <3>3. targeting' = targeting \union ToSet(op.wave)
      BY <1>1, <2>1
    <3>4. targeting' \subseteq Int
      BY <1>3, <3>2, <3>3, UnitsAssumption
    <3> QED
      BY <1>4, <3>4
  <2>9. Sound(op.begun, History') /\ R3 \in {R1, R2, R3, Back}
    BY <1>2, <2>1, Zenon
  <2> QED
    BY <1>1, <1>2, <1>8, <2>3, <2>4, <2>7, <2>8, <2>9, ReinforcingGoesOn
<1>9. op # Idle
  BY <1>1, Zenon DEF At
<1> QED
  BY <1>6, <1>7, <1>8, <1>9, Zenon DEF IInv, Resting

-----------------------------------------------------------------------------
(* Lists of the roster.                                                    *)

\* What a list is without a proxy, and what it becomes when the proxy's units
\* return: the list they were taken from, and what has come since.
Gives(o, h, a, since) ==
  LET place == o.aggregates[a]
      side == SideOfAll(DOMAIN place)
      order == h.origin[a].order
      rest == Kept(order, DOMAIN place) \o since
  IN /\ since \in Seq(Int) /\ rest \in Seq(Int) /\ a \notin ToSet(rest)
     /\ o.roster[side] = Inserted(rest, Min(Range(place)), a)
     /\ Min(Range(place)) \in 1..(Len(rest) + 1)
     /\ Kept(o.roster[side], {a}) = rest
     /\ PlaceUnits(place, rest) = order \o since

LEMMA ProxyGives ==
  ASSUME NEW o, NEW h, NEW a, Sound(o, h), a \in DOMAIN o.aggregates
  PROVE  \E since : Gives(o, h, a, since)
<1> DEFINE place == o.aggregates[a]
           side == SideOfAll(DOMAIN place)
           order == h.origin[a].order
<1>1. /\ DOMAIN place # {} /\ order \in Seq(Int) /\ IsInjective(order) /\ Stands(order, place)
      /\ Merged(o.roster[side], order, place, a)
  <2>1. ProxySound(o, h, a)
    BY Zenon DEF Sound
  <2> QED
    BY <2>1, Zenon DEF ProxySound
<1>2. a \in Int
  BY SoundFacts, Zenon
<1> DEFINE list == o.roster[side]
           keep == Kept(order, DOMAIN place)
<1> HIDE DEF place, order, list
<1>3. PICK since \in Seq(Int) :
        a \notin ToSet(keep \o since) /\ list = Inserted(keep \o since, Min(Range(place)), a)
  BY <1>1, Zenon DEF Merged, list
<1> DEFINE rest == keep \o since
<1>4. keep \in Seq(Int)
  BY <1>1, KeptFacts
<1> HIDE DEF keep
<1>5. rest \in Seq(Int)
  BY <1>4, ConcatProperties
<1>6. Min(Range(place)) \in 1..(Len(rest) + 1)
  BY <1>1, RoomForFirst DEF keep
<1> HIDE DEF rest
<1>7. Kept(list, {a}) = rest
  <2>1. Kept(Inserted(rest, Min(Range(place)), a), {a}) = rest
    BY <1>2, <1>3, <1>5, <1>6, Unmerge DEF rest
  <2> QED
    BY <1>3, <2>1, Zenon DEF rest
<1>8. PlaceUnits(place, rest) = order \o since
  BY <1>1, PlacedRestores DEF rest, keep
<1> QED
  BY <1>3, <1>5, <1>6, <1>7, <1>8, Zenon DEF Gives, rest, keep, place, order, list

LEMMA RemoveProxyKeeps ==
  ASSUME IInv, RemoveProxy
  PROVE  IInv'
<1> HIDE DEF M1, M2, M3, M4, M5, M6, Back, S1, S2, S3, S4
<1>1. /\ At("remove") /\ op' = [op EXCEPT !.todo = Tail(@)]
      /\ roster' = [roster EXCEPT ![op.side] = Kept(@, {op.id})]
      /\ UNCHANGED <<records, status, archives, loadouts, targeting, aggregates, nextId, faults>>
      /\ UNCHANGED <<evolved, origin, events>>
  BY Zenon DEF RemoveProxy, Advance, history
<1>2. History' = History /\ faults' \in 0..MaxFaults
  BY <1>1, HistoryKept DEF IInv
<1>3. Splitting
  <2>1. op # Idle
    BY <1>1, Zenon DEF At
  <2>2. ~Merging /\ ~Reinforcing
    BY <1>1, MergeAt, ReinforceAt, Zenon DEF Merging, Reinforcing
  <2> QED
    BY <2>1, <2>2, Zenon DEF IInv, Resting
<1>4. op.kind = "split" /\ SplitOp(op) /\ SplitDone(op, Owners) /\ Sound(op.begun, History)
  BY <1>3, Zenon DEF Splitting
<1>5. op.todo = S2 /\ Tail(op.todo) = S3
  BY <1>1, <1>4, SplitAt
<1>6. op.moraleDone \in BOOLEAN /\ op.moraleDone /\ S3 # Back /\ S3 # S1 /\ S2 # Back
  BY <1>4, <1>5, StepsDiffer, Zenon DEF SplitOp
<1>7. Continued(op, op', S3, op.moraleDone)
  BY <1>1, <1>5, Zenon DEF Continued
<1>8. /\ op'.todo = S3 /\ op'.begun = op.begun /\ op'.moraleDone = op.moraleDone
      /\ SplitMorale(op') = SplitMorale(op) /\ ClearedRoster(op') = ClearedRoster(op)
  <2>1. S3 \in {S1, S2, S3, S4, M4, M5, M6, Back} /\ (S3 # Back => (op.moraleDone <=> S3 # S1))
    BY <1>4, <1>6, <1>7, Zenon
  <2> QED
    BY <1>4, <1>6, <1>7, <2>1, SplitNext, Zenon
<1>9. /\ S3 \notin {S1, S2} /\ S3 \notin {M4, M5, M6} /\ S3 # M6
      /\ S2 \in {S1, S2} /\ S2 \in {S1, S2, S3, S4, M4, M5}
  BY StepsDiffer, Zenon
<1>10. /\ MoraleOf(Owners') = MoraleOf(Owners) /\ Owners.roster = roster /\ Owners'.roster = roster'
       /\ Owners'.aggregates = Owners.aggregates /\ Owners'.nextId = Owners.nextId
  BY <1>1 DEF MoraleOf, Owners
<1>11. roster' = ClearedRoster(op)
  <2>1. roster = op.begun.roster
    BY <1>4, <1>5, <1>9, <1>10, Zenon DEF SplitDone
  <2> QED
    BY <1>1, <2>1 DEF ClearedRoster
<1>12. SplitDone(op', Owners')
  BY <1>4, <1>5, <1>6, <1>8, <1>9, <1>10, <1>11, Zenon DEF SplitDone
<1>13. Typed(Owners', events')
  <2>1. /\ roster \in [Sides -> Seq(Int)] /\ records \in [DOMAIN records -> RecordUpTo(events)]
        /\ status \in [DOMAIN status -> Statuses] /\ loadouts \subseteq Int /\ targeting \subseteq Int
        /\ \A a \in DOMAIN archives :
             /\ archives[a].baseline \in RecordUpTo(events)
             /\ archives[a].of \in [DOMAIN archives[a].of -> RecordUpTo(events)]
        /\ \A a \in DOMAIN aggregates : a \in Int /\ a < 0 /\ DOMAIN aggregates[a] \subseteq Units
        /\ nextId \in 0..MaxProxies /\ IsFunction(archives)
    BY TypedNow DEF IInv
  <2>2. op.side \in Sides
    BY <1>4, SplitOpFacts, Zenon
  <2>3. Kept(roster[op.side], {op.id}) \in Seq(Int)
    BY <2>1, <2>2, KeptFacts
  <2>4. roster' \in [Sides -> Seq(Int)]
    BY <1>1, <2>1, <2>3
  <2> QED
    BY <1>1, <2>1, <2>4, TypedNext
<1>14. Sound(op.begun, History') /\ S3 \in {S1, S2, S3, S4, M4, M5, M6, Back}
  BY <1>2, <1>4, Zenon
<1> QED
  BY <1>1, <1>2, <1>3, <1>6, <1>7, <1>12, <1>13, <1>14, SplittingGoesOn

LEMMA MergeRoster ==
  ASSUME IInv, Merging, CommitRoster
  PROVE  IInv'
<1> HIDE DEF M1, M2, M3, M4, M5, M6, Back
<1>1. op.kind = "merge" /\ MergeOp(op) /\ MergeDone(op, Owners, History) /\ Sound(op.begun, History)
  BY Zenon DEF Merging
<1> DEFINE list == roster[op.side]
           new == Inserted(Kept(list, DOMAIN op.place), Min(Range(op.place)), op.id)
<1>2. /\ At("roster") /\ op' = [op EXCEPT !.todo = Tail(@)]
      /\ roster' = [roster EXCEPT ![op.side] = new] /\ loadouts' = loadouts
      /\ UNCHANGED <<records, status, archives, targeting, aggregates, nextId, faults>>
      /\ UNCHANGED <<evolved, origin, events>>
  BY <1>1 DEF CommitRoster, history
<1>3. History' = History /\ faults' \in 0..MaxFaults
  BY <1>2, HistoryKept DEF IInv
<1>5. op.todo = M2 /\ Tail(op.todo) = M3
  BY <1>1, <1>2, MergeAt
<1>6. op.moraleDone \in BOOLEAN /\ op.moraleDone /\ M3 # Back /\ M3 # M1
  BY <1>1, <1>5, StepsDiffer, Zenon DEF MergeOp
<1>7. Continued(op, op', M3, op.moraleDone)
  BY <1>2, <1>5, Zenon DEF Continued
<1>8. /\ op'.todo = M3 /\ op'.begun = op.begun /\ op'.moraleDone = op.moraleDone
      /\ MergedMorale(op') = MergedMorale(op) /\ MergedRoster(op') = MergedRoster(op)
  <2>1. M3 \in {M1, M2, M3, M4, M5, M6, Back} /\ (M3 # Back => (op.moraleDone <=> M3 # M1))
    BY <1>1, <1>6, <1>7, Zenon
  <2> QED
    BY <1>1, <1>6, <1>7, <2>1, MergeNext, Zenon
<1>9. /\ M3 \notin {M1, M2} /\ M3 # M6 /\ M2 \in {M1, M2} /\ M2 \in {M1, M2, M3, M4, M5}
  BY StepsDiffer, Zenon
<1>10. /\ MoraleOf(Owners') = MoraleOf(Owners) /\ Owners.roster = roster /\ Owners'.roster = roster'
       /\ Owners'.aggregates = Owners.aggregates /\ Owners'.nextId = Owners.nextId
  BY <1>2 DEF MoraleOf, Owners
<1>11. roster = op.begun.roster
  BY <1>1, <1>5, <1>9, <1>10, Zenon DEF MergeDone
<1>12. roster' = MergedRoster(op)
  BY <1>2, <1>11, Zenon DEF MergedRoster
<1>13. MergeDone(op', Owners', History')
  BY <1>1, <1>5, <1>8, <1>9, <1>10, <1>12, Zenon DEF MergeDone
<1>14. Typed(Owners', events')
  <2>1. /\ roster \in [Sides -> Seq(Int)] /\ records \in [DOMAIN records -> RecordUpTo(events)]
        /\ status \in [DOMAIN status -> Statuses] /\ loadouts \subseteq Int /\ targeting \subseteq Int
        /\ \A a \in DOMAIN archives :
             /\ archives[a].baseline \in RecordUpTo(events)
             /\ archives[a].of \in [DOMAIN archives[a].of -> RecordUpTo(events)]
        /\ \A a \in DOMAIN aggregates : a \in Int /\ a < 0 /\ DOMAIN aggregates[a] \subseteq Units
        /\ nextId \in 0..MaxProxies /\ IsFunction(archives)
    BY TypedNow DEF IInv
  <2>2. op.side \in Sides /\ DOMAIN op.place # {} /\ Stands(list, op.place) /\ op.id \in Int
    BY <1>1, <1>11, MergeOpFacts, Zenon DEF MergeOp
  <2>3. list \in Seq(Int)
    BY <2>1, <2>2
  <2> HIDE DEF list
  <2>4. Min(Range(op.place)) \in Nat \ {0}
    <3>1. /\ Min(Range(op.place)) \in Range(op.place) /\ Range(op.place) \subseteq 1..Len(list)
          /\ Len(list) \in Nat
      BY <2>2, <2>3, PlaceFacts, ListFacts
    <3> DEFINE i == Min(Range(op.place))
    <3> HIDE DEF i
    <3>2. i \in 1..Len(list)
      BY <3>1 DEF i
    <3>3. i \in Nat \ {0}
      BY <3>1, <3>2
    <3> QED
      BY <3>3 DEF i
  <2>5. new \in Seq(Int)
    <3>1. Kept(list, DOMAIN op.place) \in Seq(Int)
      BY <2>3, KeptFacts
    <3> QED
      BY <2>2, <2>4, <3>1, InsertedFacts
  <2> HIDE DEF new
  <2>6. roster' \in [Sides -> Seq(Int)]
    BY <1>2, <2>1, <2>5
  <2> QED
    BY <1>2, <2>1, <2>6, TypedNext
<1>15. Sound(op.begun, History') /\ M3 \in {M1, M2, M3, M4, M5, M6, Back}
  BY <1>1, <1>3, Zenon
<1> QED
  BY <1>2, <1>3, <1>6, <1>7, <1>13, <1>14, <1>15, MergingGoesOn

LEMMA SplitRosterBack ==
  ASSUME IInv, Splitting, CommitRoster
  PROVE  IInv'
<1> HIDE DEF M1, M2, M3, M4, M5, M6, Back, S1, S2, S3, S4
<1>1. op.kind = "split" /\ SplitOp(op) /\ SplitDone(op, Owners) /\ Sound(op.begun, History)
  BY Zenon DEF Splitting
<1>2. /\ At("roster") /\ op' = [op EXCEPT !.todo = Tail(@)]
      /\ roster' = [roster EXCEPT ![op.side] = PlaceUnits(op.place, @)] /\ loadouts' = loadouts
      /\ UNCHANGED <<records, status, archives, targeting, aggregates, nextId, faults>>
      /\ UNCHANGED <<evolved, origin, events>>
  BY <1>1 DEF CommitRoster, history
<1>3. History' = History /\ faults' \in 0..MaxFaults
  BY <1>2, HistoryKept DEF IInv
<1>5. op.todo = S4 /\ Tail(op.todo) = M4
  BY <1>1, <1>2, SplitAt
<1>6. op.moraleDone \in BOOLEAN /\ op.moraleDone /\ M4 # Back /\ M4 # S1 /\ S4 # Back
  BY <1>1, <1>5, StepsDiffer, Zenon DEF SplitOp
<1>7. Continued(op, op', M4, op.moraleDone)
  BY <1>2, <1>5, Zenon DEF Continued
<1>8. /\ op'.todo = M4 /\ op'.begun = op.begun /\ op'.moraleDone = op.moraleDone
      /\ SplitMorale(op') = SplitMorale(op) /\ SplitRoster(op') = SplitRoster(op)
  <2>1. M4 \in {S1, S2, S3, S4, M4, M5, M6, Back} /\ (M4 # Back => (op.moraleDone <=> M4 # S1))
    BY <1>1, <1>6, <1>7, Zenon
  <2> QED
    BY <1>1, <1>6, <1>7, <2>1, SplitNext, Zenon
<1>9. /\ M4 \notin {S1, S2} /\ M4 \notin {S3, S4} /\ M4 # M6
      /\ S4 \in {S3, S4} /\ S4 \in {S1, S2, S3, S4, M4, M5}
  BY StepsDiffer, Zenon
<1>10. /\ MoraleOf(Owners') = MoraleOf(Owners) /\ Owners.roster = roster /\ Owners'.roster = roster'
       /\ Owners'.aggregates = Owners.aggregates /\ Owners'.nextId = Owners.nextId
  BY <1>2 DEF MoraleOf, Owners
<1> DEFINE b == op.begun
           rest == Kept(b.roster[op.side], {op.id})
           back == PlaceUnits(op.place, rest)
<1>11. roster = [b.roster EXCEPT ![op.side] = rest]
  BY <1>1, <1>5, <1>9, <1>10, Zenon DEF SplitDone, ClearedRoster
<1>12. op.side \in Sides /\ b.roster \in [Sides -> Seq(Int)]
  <2>1. op.side \in Sides
    BY <1>1, SplitOpFacts, Zenon
  <2>2. Typed(b, History.events)
    BY <1>1, Zenon DEF Sound
  <2> QED
    BY <2>1, <2>2, Zenon DEF Typed
<1>13. roster[op.side] = rest
  <2> HIDE DEF rest, b
  <2> QED
    BY <1>11, <1>12
<1>14. roster' = SplitRoster(op)
  <2>1. roster' = [roster EXCEPT ![op.side] = back]
    <3> HIDE DEF rest
    <3> QED
      BY <1>2, <1>13, Zenon
  <2> HIDE DEF back, rest, b
  <2>2. roster' = [b.roster EXCEPT ![op.side] = back]
    BY <1>11, <1>12, <2>1
  <2> QED
    BY <2>2, Zenon DEF SplitRoster, back, rest, b
<1>15. SplitDone(op', Owners')
  BY <1>1, <1>5, <1>6, <1>8, <1>9, <1>10, <1>14, Zenon DEF SplitDone
<1>16. Typed(Owners', events')
  <2>1. /\ roster \in [Sides -> Seq(Int)] /\ records \in [DOMAIN records -> RecordUpTo(events)]
        /\ status \in [DOMAIN status -> Statuses] /\ loadouts \subseteq Int /\ targeting \subseteq Int
        /\ \A a \in DOMAIN archives :
             /\ archives[a].baseline \in RecordUpTo(events)
             /\ archives[a].of \in [DOMAIN archives[a].of -> RecordUpTo(events)]
        /\ \A a \in DOMAIN aggregates : a \in Int /\ a < 0 /\ DOMAIN aggregates[a] \subseteq Units
        /\ nextId \in 0..MaxProxies /\ IsFunction(archives)
    BY TypedNow DEF IInv
  <2>2. /\ op.id \in DOMAIN b.aggregates /\ op.place = b.aggregates[op.id]
        /\ op.side = SideOfAll(DOMAIN op.place)
    BY <1>1, SplitOpFacts, Zenon
  <2>3. PICK since : Gives(b, History, op.id, since)
    BY <1>1, <2>2, ProxyGives, Zenon
  <2>4. back = History.origin[op.id].order \o since /\ since \in Seq(Int)
    BY <2>2, <2>3, Zenon DEF Gives
  <2>5. History.origin[op.id].order \in Seq(Int)
    BY <1>1, <2>2, Zenon DEF Sound, ProxySound
  <2> HIDE DEF back, b
  <2>6. back \in Seq(Int)
    BY <2>4, <2>5, ConcatProperties
  <2>7. roster' = [b.roster EXCEPT ![op.side] = back]
    BY <1>14, Zenon DEF SplitRoster, back, b
  <2>8. roster' \in [Sides -> Seq(Int)]
    BY <1>12, <2>6, <2>7
  <2> QED
    BY <1>2, <2>1, <2>8, TypedNext
<1>17. Sound(op.begun, History') /\ M4 \in {S1, S2, S3, S4, M4, M5, M6, Back}
  BY <1>1, <1>3, Zenon
<1> QED
  BY <1>2, <1>3, <1>6, <1>7, <1>15, <1>16, <1>17, SplittingGoesOn

-----------------------------------------------------------------------------
(* The books of the proxies.                                               *)

\* A proxy stays what it was when nothing that is kept of it changes.
LEMMA ProxySame ==
  ASSUME NEW o, NEW h, NEW b, NEW k, NEW a, ProxySound(b, h, a),
         o.aggregates[a] = b.aggregates[a], o.records[a] = b.records[a],
         o.archives[a] = b.archives[a],
         o.roster[SideOfAll(DOMAIN b.aggregates[a])] = b.roster[SideOfAll(DOMAIN b.aggregates[a])],
         a \in DOMAIN k.origin, k.origin[a] = h.origin[a], a \in k.evolved => a \in h.evolved
  PROVE  ProxySound(o, k, a)
BY Zenon DEF ProxySound

LEMMA SoundWith ==
  ASSUME NEW o, NEW h, NEW k, Sound(o, h), k.events = h.events, k.evolved = h.evolved,
         \A a \in DOMAIN o.aggregates : a \in DOMAIN h.origin =>
           a \in DOMAIN k.origin /\ k.origin[a] = h.origin[a]
  PROVE  Sound(o, k)
<1>1. ASSUME NEW a \in DOMAIN o.aggregates PROVE ProxySound(o, k, a)
  <2>1. ProxySound(o, h, a)
    BY Zenon DEF Sound
  <2>2. a \in DOMAIN h.origin
    BY <2>1, Zenon DEF ProxySound
  <2>3. a \in DOMAIN k.origin /\ k.origin[a] = h.origin[a] /\ (a \in k.evolved => a \in h.evolved)
    BY <2>2, Zenon
  <2> QED
    BY <2>1, <2>3, ProxySame, Zenon
<1> QED
  BY <1>1, Zenon DEF Sound

LEMMA CommitAggregatesKeeps ==
  ASSUME IInv, CommitAggregates
  PROVE  IInv'
<1> HIDE DEF M1, M2, M3, M4, M5, M6, Back, S1, S2, S3, S4
<1>1. /\ At("aggregates") /\ op' = [op EXCEPT !.todo = Tail(@)]
      /\ UNCHANGED <<roster, records, status, archives, loadouts, targeting, faults, events, evolved>>
  BY Zenon DEF CommitAggregates, Advance
<1>2. op # Idle /\ ~Reinforcing
  BY <1>1, ReinforceAt, Zenon DEF At, Reinforcing
<1>3. /\ roster \in [Sides -> Seq(Int)] /\ records \in [DOMAIN records -> RecordUpTo(events)]
      /\ status \in [DOMAIN status -> Statuses] /\ loadouts \subseteq Int /\ targeting \subseteq Int
      /\ \A a \in DOMAIN archives :
           /\ archives[a].baseline \in RecordUpTo(events)
           /\ archives[a].of \in [DOMAIN archives[a].of -> RecordUpTo(events)]
      /\ \A a \in DOMAIN aggregates : a \in Int /\ a < 0 /\ DOMAIN aggregates[a] \subseteq Units
      /\ nextId \in 0..MaxProxies /\ IsFunction(archives)
  BY TypedNow DEF IInv
<1>4. faults' \in 0..MaxFaults /\ events' = events
  BY <1>1 DEF IInv
<1>5. /\ MoraleOf(Owners') = MoraleOf(Owners) /\ Owners'.roster = Owners.roster
      /\ Owners'.aggregates = aggregates' /\ Owners'.nextId = nextId'
      /\ Owners.aggregates = aggregates /\ Owners.nextId = nextId
  BY <1>1 DEF MoraleOf, Owners
<1>6. CASE Merging
  <2>1. op.kind = "merge" /\ MergeOp(op) /\ MergeDone(op, Owners, History) /\ Sound(op.begun, History)
    BY <1>6, Zenon DEF Merging
  <2>2. op.todo = M5 /\ Tail(op.todo) = M6
    BY <1>1, <2>1, MergeAt
  <2>3. op.moraleDone \in BOOLEAN /\ op.moraleDone /\ M6 # Back /\ M6 # M1
    BY <2>1, <2>2, StepsDiffer, Zenon DEF MergeOp
  <2>4. Continued(op, op', M6, op.moraleDone)
    BY <1>1, <2>2, Zenon DEF Continued
  <2>5. /\ op'.todo = M6 /\ op'.begun = op.begun /\ op'.moraleDone = op.moraleDone
        /\ op'.id = op.id /\ op'.place = op.place /\ op'.side = op.side /\ op'.archive = op.archive
        /\ MergedMorale(op') = MergedMorale(op) /\ MergedRoster(op') = MergedRoster(op)
    <3>1. M6 \in {M1, M2, M3, M4, M5, M6, Back} /\ (M6 # Back => (op.moraleDone <=> M6 # M1))
      BY <2>1, <2>3, <2>4, Zenon
    <3>2. /\ MergeOp(op) /\ op.moraleDone \in BOOLEAN
          /\ Continued(op, op', M6, op.moraleDone)
      BY <2>1, <2>3, <2>4, Zenon
    <3> QED
      BY <3>1, <3>2, MergeNext, Zenon
  <2>6. /\ M6 \notin {M1, M2} /\ M6 \notin {M1, M2, M3, M4, M5} /\ M5 \in {M3, M4, M5, M6}
        /\ M6 \in {M3, M4, M5, M6} /\ M5 \in {M1, M2, M3, M4, M5}
    <3>1. M6 # M1 /\ M6 # M2 /\ M6 # M3 /\ M6 # M4 /\ M6 # M5
      BY StepsDiffer
    <3> QED
      BY <3>1
  <2>7. /\ aggregates' = With(aggregates, op.id, op.place) /\ nextId' = nextId + 1
        /\ origin' = With(origin, op.id,
             [order |-> op.begun.roster[op.side], records |-> op.archive.of])
    BY <2>1 DEF CommitAggregates
  <2>8. aggregates = op.begun.aggregates /\ nextId = op.begun.nextId
    BY <1>5, <2>1, <2>2, <2>6, Zenon DEF MergeDone
  <2>9. /\ op.id \in DOMAIN origin'
        /\ origin'[op.id] = [order |-> op.begun.roster[op.side], records |-> op.archive.of]
        /\ \A a \in DOMAIN origin : a # op.id => a \in DOMAIN origin' /\ origin'[a] = origin[a]
    BY <2>7 DEF With, Joined
  <2>10. /\ History'.origin = origin' /\ History.origin = origin
         /\ History'.events = History.events /\ History'.evolved = History.evolved
    BY <1>1 DEF History
  <2>11. MergeDone(op', Owners', History')
    <3>1. MoraleOf(Owners') = IF op'.moraleDone THEN MergedMorale(op') ELSE MoraleOf(op'.begun)
      BY <1>5, <2>1, <2>5, Zenon DEF MergeDone
    <3>2. Owners'.roster = MergedRoster(op')
      BY <1>5, <2>1, <2>2, <2>5, <2>6, Zenon DEF MergeDone
    <3>3. /\ Owners'.aggregates = With(op'.begun.aggregates, op'.id, op'.place)
          /\ Owners'.nextId = op'.begun.nextId + 1
      BY <1>5, <2>5, <2>7, <2>8, Zenon
    <3>4. /\ op'.id \in DOMAIN History'.origin
          /\ History'.origin[op'.id] =
               [order |-> op'.begun.roster[op'.side], records |-> op'.archive.of]
      BY <2>5, <2>9, <2>10, Zenon
    <3> QED
      BY <2>5, <2>6, <3>1, <3>2, <3>3, <3>4, Zenon DEF MergeDone
  <2>12. op.id \in Int /\ op.id < 0 /\ DOMAIN op.place \subseteq Units /\ op.id \notin DOMAIN op.begun.aggregates
    BY <2>1, MergeOpFacts, Zenon
  <2>13. Typed(Owners', events')
    <3>1. \A a \in DOMAIN aggregates' : a \in Int /\ a < 0 /\ DOMAIN aggregates'[a] \subseteq Units
      <4>1. \A a \in DOMAIN aggregates' :
              \/ a = op.id /\ aggregates'[a] = op.place
              \/ a \in DOMAIN aggregates /\ aggregates'[a] = aggregates[a]
        BY <2>7 DEF With, Joined
      <4> QED
        BY <1>3, <2>12, <4>1
    <3>2. nextId' \in 0..MaxProxies
      <4>1. op.begun.nextId < MaxProxies
        BY <2>1, Zenon DEF MergeOp
      <4> QED
        BY <1>3, <2>7, <2>8, <4>1, BoundsAssumption
    <3> QED
      BY <1>1, <1>3, <3>1, <3>2, TypedNext
  <2>14. Sound(op.begun, History')
    <3>1. \A a \in DOMAIN op.begun.aggregates : a \in DOMAIN History.origin =>
            a \in DOMAIN History'.origin /\ History'.origin[a] = History.origin[a]
      BY <2>9, <2>10, <2>12, Zenon
    <3> QED
      BY <2>1, <2>10, <3>1, SoundWith, Zenon
  <2>15. M6 \in {M1, M2, M3, M4, M5, M6, Back}
    OBVIOUS
  <2> QED
    BY <1>4, <1>6, <2>3, <2>4, <2>11, <2>13, <2>14, <2>15, MergingGoesOn
<1>7. CASE Splitting
  <2>1. op.kind = "split" /\ SplitOp(op) /\ SplitDone(op, Owners) /\ Sound(op.begun, History)
    BY <1>7, Zenon DEF Splitting
  <2>2. op.todo = M5 /\ Tail(op.todo) = M6
    BY <1>1, <2>1, SplitAt
  <2>3. op.moraleDone \in BOOLEAN /\ op.moraleDone /\ M6 # Back /\ M6 # S1 /\ M5 # Back
    BY <2>1, <2>2, StepsDiffer, Zenon DEF SplitOp
  <2>4. Continued(op, op', M6, op.moraleDone)
    BY <1>1, <2>2, Zenon DEF Continued
  <2>5. /\ op'.todo = M6 /\ op'.begun = op.begun /\ op'.moraleDone = op.moraleDone
        /\ op'.id = op.id
        /\ SplitMorale(op') = SplitMorale(op) /\ SplitRoster(op') = SplitRoster(op)
    <3>1. M6 \in {S1, S2, S3, S4, M4, M5, M6, Back} /\ (M6 # Back => (op.moraleDone <=> M6 # S1))
      BY <2>1, <2>3, <2>4, Zenon
    <3>2. /\ SplitOp(op) /\ op.moraleDone \in BOOLEAN
          /\ Continued(op, op', M6, op.moraleDone)
      BY <2>1, <2>3, <2>4, Zenon
    <3> QED
      BY <3>1, <3>2, SplitNext, Zenon
  <2>6. /\ M6 \notin {S1, S2} /\ M6 \notin {S3, S4} /\ M6 \notin {S1, S2, S3, S4, M4, M5}
        /\ M5 \in {M4, M5, M6} /\ M6 \in {M4, M5, M6} /\ M5 \in {S1, S2, S3, S4, M4, M5}
    <3>1. M6 # S1 /\ M6 # S2 /\ M6 # S3 /\ M6 # S4 /\ M6 # M4 /\ M6 # M5
      BY StepsDiffer
    <3> QED
      BY <3>1
  <2>7. /\ aggregates' = Without(aggregates, {op.id}) /\ nextId' = nextId
        /\ origin' = origin
    BY <2>1 DEF CommitAggregates
  <2>8. aggregates = op.begun.aggregates /\ nextId = op.begun.nextId
    BY <1>5, <2>1, <2>2, <2>3, <2>6, Zenon DEF SplitDone
  <2>9. History' = History
    BY <1>1, <2>7, HistoryKept
  <2>10. SplitDone(op', Owners')
    <3>1. MoraleOf(Owners') = IF op'.moraleDone THEN SplitMorale(op') ELSE MoraleOf(op'.begun)
      BY <1>5, <2>1, <2>5, Zenon DEF SplitDone
    <3>2. Owners'.roster = SplitRoster(op')
      BY <1>5, <2>1, <2>2, <2>5, <2>6, Zenon DEF SplitDone
    <3>3. /\ Owners'.aggregates = Without(op'.begun.aggregates, {op'.id})
          /\ Owners'.nextId = op'.begun.nextId
      BY <1>5, <2>5, <2>7, <2>8, Zenon
    <3> QED
      BY <2>5, <2>6, <3>1, <3>2, <3>3, Zenon DEF SplitDone
  <2>11. Typed(Owners', events')
    <3>1. \A a \in DOMAIN aggregates' : a \in DOMAIN aggregates /\ aggregates'[a] = aggregates[a]
      BY <2>7 DEF Without, Restrict
    <3>2. \A a \in DOMAIN aggregates' : a \in Int /\ a < 0 /\ DOMAIN aggregates'[a] \subseteq Units
      BY <1>3, <3>1
    <3> QED
      BY <1>1, <1>3, <2>7, <3>2, TypedNext
  <2>12. Sound(op.begun, History') /\ M6 \in {S1, S2, S3, S4, M4, M5, M6, Back}
    BY <2>1, <2>9, Zenon
  <2> QED
    BY <1>4, <1>7, <2>3, <2>4, <2>10, <2>11, <2>12, SplittingGoesOn
<1> QED
  BY <1>2, <1>6, <1>7, Zenon DEF IInv, Resting

-----------------------------------------------------------------------------
(* A merge that is complete.                                               *)

\* The list that units are taken from has none but units, as its side has no
\* proxy yet.
LEMMA MergeListFacts ==
  ASSUME NEW p, NEW h, MergeOp(p), Sound(p.begun, h)
  PROVE  LET order == p.begun.roster[p.side]
         IN /\ p.side \in Sides /\ order \in Seq(Int) /\ IsInjective(order)
            /\ \A u \in ToSet(order) : u \in Units /\ SideOf[u] = p.side
            /\ \A u \in DOMAIN p.place : SideOf[u] = p.side
            /\ SideOfAll(DOMAIN p.place) = p.side
            /\ p.id \notin ToSet(order)
<1> DEFINE b == p.begun
           order == b.roster[p.side]
<1>1. /\ p.side \in Sides /\ Stands(order, p.place)
      /\ \A a \in DOMAIN b.aggregates : SideOfAll(DOMAIN b.aggregates[a]) # p.side
  BY Zenon DEF MergeOp
<1>2. /\ p.id \in Int /\ p.id < 0 /\ DOMAIN p.place # {}
  BY MergeOpFacts, Zenon
<1>3. order \in Seq(Int) /\ Listed(b, p.side)
  <2>1. Listed(b, p.side)
    BY <1>1, Zenon DEF Sound
  <2>2. order \in Seq(Int)
    BY <1>1, SoundFacts, Zenon
  <2> QED
    BY <2>1, <2>2
<1>4. IsInjective(order) /\ \A u \in ToSet(order) : u \in Units /\ SideOf[u] = p.side
  BY <1>1, <1>3, Zenon DEF Listed
<1> HIDE DEF order
<1>5. DOMAIN p.place \subseteq ToSet(order)
  BY <1>1, <1>2, <1>3, PlaceFacts
<1>6. \A u \in DOMAIN p.place : SideOf[u] = p.side
  BY <1>4, <1>5
<1>7. SideOfAll(DOMAIN p.place) = p.side
  BY <1>2, <1>6, SideOfAllFacts
<1>8. p.id \notin ToSet(order)
  BY <1>2, <1>4, UnitsAssumption
<1> QED
  BY <1>1, <1>3, <1>4, <1>6, <1>7, <1>8, Zenon DEF order

LEMMA MergeSound ==
  ASSUME NEW p, NEW o, NEW h, NEW k, MergeOp(p), p.todo = M6, MergeDone(p, o, h), Sound(p.begun, h),
         OwnersBound(o), AggregatesBound(o), Typed(o, k.events),
         k.events = h.events, k.evolved = h.evolved,
         \A a \in DOMAIN o.aggregates : a \in DOMAIN h.origin =>
           a \in DOMAIN k.origin /\ k.origin[a] = h.origin[a]
  PROVE  Sound(o, k)
<1> DEFINE b == p.begun
           ids == DOMAIN p.place
           order == b.roster[p.side]
           new == Inserted(Kept(order, ids), Min(Range(p.place)), p.id)
<1>1. /\ p.moraleDone
      /\ MoraleOf(o) = MergedMorale(p) /\ o.roster = MergedRoster(p)
      /\ o.aggregates = With(b.aggregates, p.id, p.place) /\ o.nextId = b.nextId + 1
      /\ p.id \in DOMAIN h.origin
      /\ h.origin[p.id] = [order |-> order, records |-> p.archive.of]
  <2>1. M6 \in {M3, M4, M5, M6} /\ M6 # Back /\ M6 # M1
    BY StepsDiffer, Zenon
  <2>2. p.moraleDone
    BY <2>1, Zenon DEF MergeOp
  <2> QED
    BY <2>1, <2>2, Zenon DEF MergeDone
<1>2. /\ p.id = Proxy(b.nextId) /\ p.id \in Int /\ p.id < 0
      /\ p.id \notin DOMAIN b.records /\ p.id \notin DOMAIN b.aggregates
      /\ ids # {} /\ ids \subseteq Units /\ ids \subseteq DOMAIN b.records
      /\ DOMAIN p.archive.of = ids /\ \A u \in ids : p.archive.of[u] = b.records[u]
      /\ p.archive = Archive(p.archive.of)
  BY MergeOpFacts, Zenon
<1>3. /\ DOMAIN b.records = MembersOf(b.roster) /\ b.nextId \in Nat
      /\ DOMAIN b.archives = DOMAIN b.aggregates
      /\ \A a \in DOMAIN b.aggregates : a \in Int /\ a < 0 /\ a > Proxy(b.nextId)
  BY SoundFacts, Zenon
<1>30. \A a \in DOMAIN b.aggregates : a \in DOMAIN b.records
  BY SoundFacts, Zenon
<1>4. /\ p.side \in Sides /\ order \in Seq(Int) /\ IsInjective(order)
      /\ \A u \in ToSet(order) : u \in Units /\ SideOf[u] = p.side
      /\ \A u \in ids : SideOf[u] = p.side
      /\ SideOfAll(ids) = p.side /\ p.id \notin ToSet(order)
  BY MergeListFacts, Zenon
<1>5. /\ b.roster \in [Sides -> Seq(Int)] /\ OwnersBound(b) /\ AggregatesBound(b) /\ ArchivesBound(b)
      /\ (\A s \in Sides : Listed(b, s)) /\ h.evolved \subseteq DOMAIN b.aggregates
      /\ \A a \in DOMAIN b.aggregates : ProxySound(b, h, a)
  <2>1. Typed(b, h.events)
    BY Zenon DEF Sound
  <2> QED
    BY <2>1, Zenon DEF Sound, Typed
<1>6. /\ Stands(order, p.place) /\ \A u \in ids : b.status[u] = "ACTIVE"
      /\ \A a \in DOMAIN b.aggregates : SideOfAll(DOMAIN b.aggregates[a]) # p.side
  BY Zenon DEF MergeOp
<1>7. /\ o.records = With(Without(b.records, ids), p.id, p.archive.baseline)
      /\ o.archives = With(b.archives, p.id, p.archive)
      /\ o.roster = [b.roster EXCEPT ![p.side] = new]
  BY <1>1 DEF MoraleOf, MergedMorale, MergedRoster
<1> HIDE DEF new, order, ids, b
<1>8. /\ DOMAIN o.aggregates = DOMAIN b.aggregates \union {p.id}
      /\ o.aggregates[p.id] = p.place
      /\ \A a \in DOMAIN b.aggregates : a # p.id /\ o.aggregates[a] = b.aggregates[a]
      /\ DOMAIN o.archives = DOMAIN b.archives \union {p.id} /\ o.archives[p.id] = p.archive
      /\ \A a \in DOMAIN b.archives : a # p.id /\ o.archives[a] = b.archives[a]
  BY <1>1, <1>2, <1>3, <1>7 DEF With, Joined
<1>9. /\ o.records[p.id] = p.archive.baseline
      /\ \A a \in DOMAIN b.records \ ids : o.records[a] = b.records[a]
  BY <1>2, <1>7 DEF With, Joined, Without, Restrict
<1>10. /\ o.roster[p.side] = new /\ \A s \in Sides : s # p.side => o.roster[s] = b.roster[s]
  BY <1>4, <1>5, <1>7
<1>11. ToSet(new) = (ToSet(order) \ ids) \union {p.id} /\ IsInjective(new)
  <2> DEFINE keep == Kept(order, ids)
             i == Min(Range(p.place))
  <2>1. keep \in Seq(Int) /\ ToSet(keep) = ToSet(order) \ ids /\ IsInjective(keep)
    BY <1>4, KeptFacts
  <2>2. i \in Nat \ {0}
    <3>1. i \in Range(p.place) /\ Range(p.place) \subseteq 1..Len(order) /\ Len(order) \in Nat
      BY <1>2, <1>4, <1>6, PlaceFacts, ListFacts DEF ids
    <3> HIDE DEF i
    <3>2. i \in 1..Len(order)
      BY <3>1
    <3> QED
      BY <3>1, <3>2
  <2> HIDE DEF keep, i
  <2>3. p.id \notin ToSet(keep)
    BY <1>4, <2>1
  <2>4. /\ ToSet(Inserted(keep, i, p.id)) = ToSet(keep) \union {p.id}
        /\ IsInjective(Inserted(keep, i, p.id))
    <3> DEFINE x == p.id
    <3>1. x \in Int /\ keep \in Seq(Int) /\ IsInjective(keep) /\ x \notin ToSet(keep)
      BY <1>2, <2>1, <2>3
    <3> HIDE DEF x
    <3>2. /\ ToSet(Inserted(keep, i, x)) = ToSet(keep) \union {x}
          /\ IsInjective(Inserted(keep, i, x))
      BY <2>2, <3>1, InsertedFacts
    <3> QED
      BY <3>2 DEF x
  <2> QED
    BY <2>1, <2>4 DEF new, keep, i
<1>12. ArchivesBound(o)
  <2>1. \A a \in DOMAIN o.archives :
          /\ o.archives[a].baseline = WorstOf(o.archives[a].of)
          /\ \A u \in DOMAIN o.archives[a].of : Compatible("ACTIVE", o.archives[a].of[u])
    <3>1. p.archive.baseline = WorstOf(p.archive.of)
      <4> DEFINE rs == p.archive.of
      <4>1. Archive(rs).baseline = WorstOf(rs)
        BY DEF Archive
      <4> QED
        BY <1>2, <4>1, Zenon
    <3>2. ASSUME NEW u \in ids PROVE Compatible("ACTIVE", p.archive.of[u])
      <4>1. Compatible(b.status[u], b.records[u])
        BY <1>2, <1>3, <1>5, Zenon DEF OwnersBound
      <4> QED
        BY <1>2, <1>6, <4>1, Zenon
    <3>3. \A a \in DOMAIN b.archives :
            /\ b.archives[a].baseline = WorstOf(b.archives[a].of)
            /\ \A u \in DOMAIN b.archives[a].of : Compatible("ACTIVE", b.archives[a].of[u])
      BY <1>5, Zenon DEF ArchivesBound
    <3>4. ASSUME NEW a \in DOMAIN o.archives
          PROVE  a \in DOMAIN b.archives \/ a = p.id
      BY <1>8
    <3> QED
      BY <1>2, <1>8, <3>1, <3>2, <3>3, <3>4, Zenon
  <2>2. \A a \in DOMAIN o.aggregates : a > Proxy(o.nextId)
    <3>1. \A a \in DOMAIN b.aggregates : a \in Int /\ a > -1 - b.nextId
      BY <1>3 DEF Proxy
    <3>2. p.id = -1 - b.nextId
      BY <1>2 DEF Proxy
    <3>3. Proxy(o.nextId) = -1 - (b.nextId + 1)
      BY <1>1, Zenon DEF Proxy, b
    <3> QED
      BY <1>3, <1>8, <3>1, <3>2, <3>3
  <2> QED
    BY <2>1, <2>2, Zenon DEF ArchivesBound
<1>13. ASSUME NEW s \in Sides PROVE Listed(o, s)
  <2>1. Listed(b, s)
    BY <1>5
  <2>2. CASE s # p.side
    <3>1. o.roster[s] = b.roster[s]
      BY <1>10, <2>2
    <3> QED
      BY <1>8, <2>1, <3>1, Zenon DEF Listed
  <2>3. CASE s = p.side
    <3>1. \A u \in ToSet(new) : u = p.id \/ (u \in Units /\ SideOf[u] = s)
      BY <1>4, <1>11, <2>3
    <3>2. p.id \in DOMAIN o.aggregates /\ SideOfAll(DOMAIN o.aggregates[p.id]) = s
      BY <1>4, <1>8, <2>3 DEF ids
    <3> QED
      BY <1>10, <1>11, <2>3, <3>1, <3>2, Zenon DEF Listed
  <2> QED
    BY <2>2, <2>3
<1>14. ASSUME NEW a \in DOMAIN b.aggregates PROVE ProxySound(o, k, a)
  <2> DEFINE side == SideOfAll(DOMAIN b.aggregates[a])
  <2>1. ProxySound(b, h, a) /\ a \in DOMAIN h.origin
    BY <1>5, Zenon DEF ProxySound
  <2>2. o.aggregates[a] = b.aggregates[a] /\ o.archives[a] = b.archives[a]
    BY <1>3, <1>8
  <2>3. o.records[a] = b.records[a]
    <3>1. a \notin ids
      BY <1>2, <1>3, UnitsAssumption
    <3> QED
      BY <1>9, <1>30, <3>1
  <2>4. o.roster[side] = b.roster[side]
    <3>1. side \in Sides
      BY SoundFacts, Zenon DEF b
    <3> QED
      BY <1>6, <1>10, <3>1
  <2>5. a \in DOMAIN k.origin /\ k.origin[a] = h.origin[a]
    BY <1>8, <2>1
  <2> QED
    BY <2>1, <2>2, <2>3, <2>4, <2>5, ProxySame, Zenon
<1>15. ProxySound(o, k, p.id)
  <2>1. k.origin[p.id] = [order |-> order, records |-> p.archive.of] /\ p.id \in DOMAIN k.origin
    BY <1>1, <1>8 DEF b, order
  <2>2. k.origin[p.id].order = order /\ k.origin[p.id].records = p.archive.of
    BY <2>1
  <2>3. Merged(new, order, p.place, p.id)
    <3> DEFINE keep == Kept(order, ids)
    <3>1. keep \in Seq(Int) /\ ToSet(keep) = ToSet(order) \ ids
      BY <1>4, KeptFacts
    <3> HIDE DEF keep
    <3>2. keep \o <<>> = keep /\ <<>> \in Seq(Int)
      BY <3>1, ConcatEmptySeq, EmptySeq
    <3>3. p.id \notin ToSet(keep)
      BY <1>4, <3>1
    <3>4. new = Inserted(keep, Min(Range(p.place)), p.id)
      BY DEF new, keep
    <3>5. /\ <<>> \in Seq(Int) /\ p.id \notin ToSet(keep \o <<>>)
          /\ new = Inserted(keep \o <<>>, Min(Range(p.place)), p.id)
      BY <3>2, <3>3, <3>4, Zenon
    <3> QED
      BY <3>5, Zenon DEF Merged, keep, ids
  <2>4. /\ o.records[p.id].gen >= o.archives[p.id].baseline.gen /\ p.id \notin k.evolved
    <3>1. p.archive.baseline.gen \in Int
      <4>1. o.archives[p.id].baseline \in RecordUpTo(k.events)
        BY <1>8, Zenon DEF Typed
      <4>2. \A n : \A r \in RecordUpTo(n) : r.gen \in Int
        BY DEF RecordUpTo
      <4> QED
        BY <1>8, <4>1, <4>2, Zenon
    <3>2. p.id \notin k.evolved
      BY <1>2, <1>5
    <3> QED
      BY <1>8, <1>9, <3>1, <3>2
  <2>5. o.archives[p.id].of = p.archive.of /\ o.aggregates[p.id] = p.place
    BY <1>8
  <2>6. o.roster[SideOfAll(DOMAIN p.place)] = new /\ SideOfAll(DOMAIN p.place) = p.side
    BY <1>4, <1>10 DEF ids
  <2>7. DOMAIN p.place # {} /\ \A u \in DOMAIN p.place : SideOf[u] = p.side
    BY <1>2, <1>4 DEF ids
  <2> QED
    BY <1>4, <1>6, <2>1, <2>2, <2>3, <2>4, <2>5, <2>6, <2>7, Zenon DEF ProxySound
<1>16. \A a \in DOMAIN o.aggregates : ProxySound(o, k, a)
  <2>1. \A a \in DOMAIN o.aggregates : a \in DOMAIN b.aggregates \/ a = p.id
    BY <1>8
  <2> QED
    BY <1>14, <1>15, <2>1, Zenon
<1>17. k.evolved \subseteq DOMAIN o.aggregates
  BY <1>5, <1>8
<1> QED
  BY <1>12, <1>13, <1>16, <1>17, Zenon DEF Sound

-----------------------------------------------------------------------------
(* A split that is complete.                                               *)

\* The halves of a list without repetition have nothing in common.
LEMMA ConcatDisjoint ==
  ASSUME NEW one \in Seq(Int), NEW two \in Seq(Int), IsInjective(one \o two)
  PROVE  ToSet(one) \intersect ToSet(two) = {}
<1> SUFFICES ASSUME NEW x, x \in ToSet(one), x \in ToSet(two) PROVE FALSE
  OBVIOUS
<1>1. PICK i \in 1..Len(one) : x = one[i]
  BY ListFacts
<1>2. PICK j \in 1..Len(two) : x = two[j]
  BY ListFacts
<1>3. Len(one) \in Nat /\ Len(two) \in Nat
  BY ListFacts
<1> DEFINE all == one \o two
<1>4. /\ all \in Seq(Int) /\ Len(all) = Len(one) + Len(two)
      /\ \A k \in 1..(Len(one) + Len(two)) :
           all[k] = IF k <= Len(one) THEN one[k] ELSE two[k - Len(one)]
  BY ConcatProperties
<1> HIDE DEF all
<1>5. DOMAIN all = 1..(Len(one) + Len(two))
  BY <1>4, ListFacts
<1>6. all[i] = one[i] /\ i \in DOMAIN all
  BY <1>3, <1>4, <1>5
<1>7. all[Len(one) + j] = two[j] /\ Len(one) + j \in DOMAIN all
  <2> DEFINE k == Len(one) + j
  <2>1. k \in 1..(Len(one) + Len(two)) /\ ~(k <= Len(one)) /\ k - Len(one) = j
    BY <1>3
  <2> HIDE DEF k
  <2>2. all[k] = two[j] /\ k \in DOMAIN all
    BY <1>4, <1>5, <2>1
  <2> QED
    BY <2>2 DEF k
<1>8. i # Len(one) + j
  BY <1>3
<1> QED
  BY <1>1, <1>2, <1>6, <1>7, <1>8 DEF IsInjective, all

\* The list of a side when the units of its proxy are back: the list they were
\* taken from, and what has joined it since.
Returned(p, h, since) ==
  LET b == p.begun
      order == h.origin[p.id].order
  IN /\ order \in Seq(Int) /\ h.origin[p.id].records = p.archive.of
     /\ SplitRoster(p) = [b.roster EXCEPT ![p.side] = order \o since]
     /\ order \o since \in Seq(Int) /\ IsInjective(order \o since)
     /\ ToSet(order \o since) = ToSet(order) \union ToSet(since)
     /\ IsPrefix(order, order \o since)
     /\ \A u \in ToSet(order) : u \in Units /\ SideOf[u] = p.side
     /\ ToSet(since) \subseteq ToSet(b.roster[p.side]) \ {p.id}

LEMMA SplitListFacts ==
  ASSUME NEW p, NEW h, SplitOp(p), Sound(p.begun, h)
  PROVE  \E since : Returned(p, h, since)
<1> DEFINE b == p.begun
           order == h.origin[p.id].order
           list == b.roster[p.side]
           ids == DOMAIN p.place
           keep == Kept(order, ids)
<1>1. /\ p.id \in DOMAIN b.aggregates /\ p.place = b.aggregates[p.id] /\ p.archive = b.archives[p.id]
      /\ p.side = SideOfAll(ids) /\ p.side \in Sides /\ p.id \in Int
      /\ ids \intersect DOMAIN b.records = {} /\ DOMAIN b.records = MembersOf(b.roster)
      /\ list \in Seq(Int)
  BY SplitOpFacts, SoundFacts, Zenon
<1>2. PICK since : Gives(b, h, p.id, since)
  BY <1>1, ProxyGives, Zenon
<1>3. ProxySound(b, h, p.id) /\ Listed(b, p.side)
  BY <1>1, Zenon DEF Sound
<1>4. /\ order \in Seq(Int) /\ IsInjective(order) /\ h.origin[p.id].records = p.archive.of
      /\ \A u \in ToSet(order) : u \in Units /\ SideOf[u] = p.side
  BY <1>1, <1>3, Zenon DEF ProxySound
<1>5. IsInjective(list)
  BY <1>3, Zenon DEF Listed
<1>6. /\ since \in Seq(Int) /\ Kept(list, {p.id}) = keep \o since
      /\ PlaceUnits(p.place, keep \o since) = order \o since
  BY <1>1, <1>2, Zenon DEF Gives
<1> HIDE DEF list, keep, order, ids, b
<1>7. keep \in Seq(Int) /\ ToSet(keep) = ToSet(order) \ ids
  BY <1>4, KeptFacts DEF keep
<1>8. IsInjective(keep \o since) /\ ToSet(keep \o since) = ToSet(list) \ {p.id}
  <2>1. IsInjective(Kept(list, {p.id})) /\ ToSet(Kept(list, {p.id})) = ToSet(list) \ {p.id}
    BY <1>1, <1>5, KeptFacts
  <2> QED
    BY <1>6, <2>1, Zenon
<1>9. /\ ToSet(keep \o since) = ToSet(keep) \union ToSet(since) /\ IsInjective(since)
      /\ ToSet(keep) \intersect ToSet(since) = {}
  BY <1>6, <1>7, <1>8, ConcatFacts, ConcatDisjoint
<1>10. ToSet(since) \subseteq ToSet(list) \ {p.id}
  BY <1>8, <1>9
<1>11. ToSet(list) \subseteq DOMAIN b.records
  BY <1>1 DEF MembersOf, list
<1>12. ToSet(order) \intersect ToSet(since) = {}
  BY <1>1, <1>7, <1>9, <1>10, <1>11
<1>13. /\ order \o since \in Seq(Int) /\ IsInjective(order \o since)
       /\ ToSet(order \o since) = ToSet(order) \union ToSet(since)
       /\ IsPrefix(order, order \o since)
  BY <1>4, <1>6, <1>9, <1>12, ConcatFacts
<1>14. SplitRoster(p) = [b.roster EXCEPT ![p.side] = order \o since]
  BY <1>6, Zenon DEF SplitRoster, b, list
<1> QED
  BY <1>4, <1>10, <1>13, <1>14, Zenon DEF Returned, b, order, list

\* A proxy that can be split has not evolved.
LEMMA SplitUntouched ==
  ASSUME NEW p, NEW h, SplitOp(p), Sound(p.begun, h)
  PROVE  p.id \notin h.evolved
<1> DEFINE b == p.begun
<1>1. /\ p.id \in DOMAIN b.aggregates /\ p.archive = b.archives[p.id]
      /\ b.records[p.id] = p.archive.baseline /\ p.id \in DOMAIN b.records
  BY SplitOpFacts, Zenon
<1>2. ProxySound(b, h, p.id) /\ Typed(b, h.events)
  BY <1>1, Zenon DEF Sound
<1>3. p.id \in h.evolved => b.records[p.id].gen > b.archives[p.id].baseline.gen
  BY <1>2, Zenon DEF ProxySound
<1>4. b.records \in [DOMAIN b.records -> RecordUpTo(h.events)]
  BY <1>2, Zenon DEF Typed
<1> HIDE DEF b
<1>5. b.records[p.id] \in RecordUpTo(h.events)
  BY <1>1, <1>4
<1>6. b.records[p.id].gen \in Int
  BY <1>5 DEF RecordUpTo
<1>7. b.archives[p.id].baseline.gen = b.records[p.id].gen
  BY <1>1
<1> QED
  BY <1>3, <1>6, <1>7

LEMMA SplitSound ==
  ASSUME NEW p, NEW o, NEW h, NEW k, SplitOp(p), p.todo = M6, SplitDone(p, o), Sound(p.begun, h),
         OwnersBound(o), AggregatesBound(o), Typed(o, k.events),
         k.events = h.events, k.evolved = h.evolved,
         \A a \in DOMAIN o.aggregates : a \in DOMAIN h.origin =>
           a \in DOMAIN k.origin /\ k.origin[a] = h.origin[a]
  PROVE  Sound(o, k)
<1> DEFINE b == p.begun
           ids == DOMAIN p.place
           order == h.origin[p.id].order
<1>1. /\ p.moraleDone /\ MoraleOf(o) = SplitMorale(p) /\ o.roster = SplitRoster(p)
      /\ o.aggregates = Without(b.aggregates, {p.id}) /\ o.nextId = b.nextId
  <2>1. M6 \in {M4, M5, M6} /\ M6 # Back /\ M6 # S1
    BY StepsDiffer, Zenon
  <2>2. p.moraleDone
    BY <2>1, Zenon DEF SplitOp
  <2> QED
    BY <2>1, <2>2, Zenon DEF SplitDone
<1>2. /\ p.id \in DOMAIN b.aggregates /\ p.id \in DOMAIN b.records /\ p.side \in Sides
      /\ p.place = b.aggregates[p.id] /\ p.side = SideOfAll(ids)
      /\ ids \subseteq Units /\ DOMAIN p.archive.of = ids
  BY SplitOpFacts, Zenon
<1>3. /\ DOMAIN b.archives = DOMAIN b.aggregates
      /\ \A a \in DOMAIN b.aggregates :
           /\ a \in Int /\ a < 0 /\ a > Proxy(b.nextId) /\ a \in DOMAIN b.records
           /\ SideOfAll(DOMAIN b.aggregates[a]) \in Sides
  BY SoundFacts, Zenon
<1>4. PICK since : Returned(p, h, since)
  BY SplitListFacts
<1> DEFINE new == order \o since
<1>5. /\ o.roster = [b.roster EXCEPT ![p.side] = new] /\ IsInjective(new)
      /\ ToSet(new) = ToSet(order) \union ToSet(since)
      /\ \A u \in ToSet(order) : u \in Units /\ SideOf[u] = p.side
      /\ ToSet(since) \subseteq ToSet(b.roster[p.side]) \ {p.id}
  BY <1>1, <1>4, Zenon DEF Returned
<1>6. /\ b.roster \in [Sides -> Seq(Int)] /\ AggregatesBound(b) /\ ArchivesBound(b)
      /\ (\A s \in Sides : Listed(b, s)) /\ h.evolved \subseteq DOMAIN b.aggregates
      /\ \A a \in DOMAIN b.aggregates : ProxySound(b, h, a)
  <2>1. Typed(b, h.events)
    BY Zenon DEF Sound
  <2> QED
    BY <2>1, Zenon DEF Sound, Typed
<1>7. /\ o.records = Joined(Without(b.records, {p.id}), p.archive.of)
      /\ o.archives = Without(b.archives, {p.id})
  BY <1>1 DEF MoraleOf, SplitMorale
<1>8. p.id \notin h.evolved
  BY SplitUntouched
<1> HIDE DEF new, order, ids, b
<1>9. /\ DOMAIN o.aggregates = DOMAIN b.aggregates \ {p.id}
      /\ \A a \in DOMAIN o.aggregates : o.aggregates[a] = b.aggregates[a]
      /\ DOMAIN o.archives = DOMAIN b.archives \ {p.id}
      /\ \A a \in DOMAIN o.archives : o.archives[a] = b.archives[a]
  BY <1>1, <1>7 DEF Without, Restrict
<1>10. \A a \in DOMAIN b.records : a # p.id /\ a \notin ids => o.records[a] = b.records[a]
  BY <1>2, <1>7 DEF Joined, Without, Restrict
<1>11. o.roster[p.side] = new /\ \A s \in Sides : s # p.side => o.roster[s] = b.roster[s]
  BY <1>2, <1>5, <1>6
<1>12. ArchivesBound(o)
  <2>1. \A a \in DOMAIN o.archives :
          /\ o.archives[a].baseline = WorstOf(o.archives[a].of)
          /\ \A u \in DOMAIN o.archives[a].of : Compatible("ACTIVE", o.archives[a].of[u])
    <3>1. \A a \in DOMAIN b.archives :
            /\ b.archives[a].baseline = WorstOf(b.archives[a].of)
            /\ \A u \in DOMAIN b.archives[a].of : Compatible("ACTIVE", b.archives[a].of[u])
      BY <1>6, Zenon DEF ArchivesBound
    <3>2. \A a \in DOMAIN o.archives : a \in DOMAIN b.archives
      BY <1>9
    <3> QED
      BY <1>9, <3>1, <3>2, Zenon
  <2>2. \A a \in DOMAIN o.aggregates : a > Proxy(o.nextId)
    <3>1. \A a \in DOMAIN o.aggregates : a \in DOMAIN b.aggregates
      BY <1>9
    <3>2. Proxy(o.nextId) = Proxy(b.nextId)
      BY <1>1, Zenon DEF b
    <3> QED
      BY <1>3, <3>1, <3>2, Zenon
  <2> QED
    BY <2>1, <2>2, Zenon DEF ArchivesBound
<1>13. ASSUME NEW s \in Sides PROVE Listed(o, s)
  <2>1. /\ IsInjective(b.roster[s])
        /\ \A u \in ToSet(b.roster[s]) :
             \/ u \in Units /\ SideOf[u] = s
             \/ u \in DOMAIN b.aggregates /\ SideOfAll(DOMAIN b.aggregates[u]) = s
    BY <1>6, Zenon DEF Listed
  <2>2. CASE s # p.side
    <3>1. o.roster[s] = b.roster[s]
      BY <1>11, <2>2
    <3>2. \A u \in DOMAIN b.aggregates : SideOfAll(DOMAIN b.aggregates[u]) = s =>
            u \in DOMAIN o.aggregates /\ SideOfAll(DOMAIN o.aggregates[u]) = s
      <4>1. \A u \in DOMAIN b.aggregates : u = p.id \/ u \in DOMAIN o.aggregates
        BY <1>9
      <4>2. SideOfAll(DOMAIN b.aggregates[p.id]) = p.side
        BY <1>2, Zenon DEF ids
      <4> QED
        BY <1>9, <2>2, <4>1, <4>2, Zenon
    <3> QED
      BY <2>1, <3>1, <3>2, Zenon DEF Listed
  <2>3. CASE s = p.side
    <3>1. ASSUME NEW u \in ToSet(new)
          PROVE  \/ u \in Units /\ SideOf[u] = s
                 \/ u \in DOMAIN o.aggregates /\ SideOfAll(DOMAIN o.aggregates[u]) = s
      <4>1. CASE u \in ToSet(order)
        BY <1>5, <2>3, <4>1, Zenon
      <4>2. CASE u \notin ToSet(order)
        <5>1. u \in ToSet(b.roster[s]) /\ u # p.id
          BY <1>5, <2>3, <4>2
        <5>2. u \in DOMAIN b.aggregates => u \in DOMAIN o.aggregates
          BY <1>9, <5>1
        <5> QED
          BY <1>9, <2>1, <5>1, <5>2, Zenon
      <4> QED
        BY <4>1, <4>2
    <3> QED
      BY <1>5, <1>11, <2>3, <3>1, Zenon DEF Listed
  <2> QED
    BY <2>2, <2>3
<1>14. ASSUME NEW a \in DOMAIN o.aggregates PROVE ProxySound(o, k, a)
  <2> DEFINE side == SideOfAll(DOMAIN b.aggregates[a])
  <2>1. a \in DOMAIN b.aggregates /\ a # p.id
    BY <1>9
  <2>2. ProxySound(b, h, a) /\ a \in DOMAIN h.origin
    BY <1>6, <2>1, Zenon DEF ProxySound
  <2>3. o.aggregates[a] = b.aggregates[a] /\ o.archives[a] = b.archives[a]
    BY <1>3, <1>9
  <2>4. o.records[a] = b.records[a]
    <3>1. a \notin ids
      BY <1>2, <1>3, <2>1, UnitsAssumption
    <3> QED
      BY <1>3, <1>10, <2>1, <3>1, Zenon
  <2>5. o.roster[side] = b.roster[side]
    <3>1. side \in Sides
      BY <1>3, <2>1, Zenon
    <3>2. side # SideOfAll(DOMAIN b.aggregates[p.id])
      BY <1>2, <1>6, <2>1, Zenon DEF AggregatesBound
    <3>3. side # p.side
      BY <1>2, <3>2, Zenon DEF ids
    <3> QED
      BY <1>11, <3>1, <3>3, Zenon
  <2>6. a \in DOMAIN k.origin /\ k.origin[a] = h.origin[a]
    BY <2>2
  <2> QED
    BY <2>2, <2>3, <2>4, <2>5, <2>6, ProxySame, Zenon
<1>15. k.evolved \subseteq DOMAIN o.aggregates
  BY <1>6, <1>8, <1>9
<1> QED
  BY <1>12, <1>13, <1>14, <1>15, Zenon DEF Sound

-----------------------------------------------------------------------------
(* Validating once more.                                                   *)

LEMMA ValidateKeeps ==
  ASSUME IInv, Validate
  PROVE  IInv'
<1>1. At("validate") /\ UNCHANGED <<owners, moved, faults, events, evolved>> /\ op # Idle
  BY DEF Validate, At
<1>2. /\ Owners' = Owners /\ faults' \in 0..MaxFaults /\ events' \in 0..MaxEvents
      /\ UNCHANGED <<evolved, events>> /\ UNCHANGED owners
  BY <1>1, OwnersKept DEF IInv
<1>3. Merging \/ Splitting
  <2>1. CASE Reinforcing
    BY <1>1, <2>1, ReinforceAt DEF Reinforcing
  <2> QED
    BY <1>1, <2>1, Zenon DEF IInv, Resting
<1>4. CASE TopologyValid
  <2>1. /\ op' = Idle /\ origin' = Restrict(origin, DOMAIN origin \intersect DOMAIN aggregates)
        /\ OwnersBound(Owners) /\ AggregatesBound(Owners)
    BY <1>4 DEF Validate, TopologyValid
  <2>2. /\ History'.events = History.events /\ History'.evolved = History.evolved
        /\ History'.events = events' /\ Typed(Owners, History'.events)
    <3>1. /\ History.events = events /\ History.evolved = evolved
          /\ History'.events = events' /\ History'.evolved = evolved'
      BY DEF History
    <3>2. Typed(Owners, events)
      BY Zenon DEF IInv
    <3> QED
      BY <1>2, <3>1, <3>2, Zenon
  <2>3. \A a \in DOMAIN Owners.aggregates : a \in DOMAIN History.origin =>
          a \in DOMAIN History'.origin /\ History'.origin[a] = History.origin[a]
    <3> SUFFICES ASSUME NEW a \in DOMAIN Owners.aggregates, a \in DOMAIN History.origin
                 PROVE  a \in DOMAIN History'.origin /\ History'.origin[a] = History.origin[a]
      OBVIOUS
    <3>1. Owners.aggregates = aggregates /\ History.origin = origin /\ History'.origin = origin'
      BY DEF Owners, History
    <3>2. a \in DOMAIN origin \intersect DOMAIN aggregates
      BY <3>1
    <3> QED
      BY <2>1, <3>1, <3>2 DEF Restrict
  <2>4. Sound(Owners, History')
    <3>1. CASE Merging
      <4>1. MergeOp(op) /\ MergeDone(op, Owners, History) /\ Sound(op.begun, History) /\ op.todo = M6
        BY <1>1, <3>1, MergeAt, Zenon DEF Merging
      <4> QED
        BY <2>1, <2>2, <2>3, <4>1, MergeSound, Zenon
    <3>2. CASE Splitting
      <4>1. SplitOp(op) /\ SplitDone(op, Owners) /\ Sound(op.begun, History) /\ op.todo = M6
        BY <1>1, <3>2, SplitAt, Zenon DEF Splitting
      <4> QED
        BY <2>1, <2>2, <2>3, <4>1, SplitSound, Zenon
    <3> QED
      BY <1>3, <3>1, <3>2
  <2>5. Sound(Owners', History') /\ Typed(Owners', events')
    BY <1>2, <2>2, <2>4, Zenon
  <2> QED
    BY <1>2, <2>1, <2>5, Zenon DEF IInv, Resting
<1>5. CASE ~TopologyValid
  <2>1. op' = [op EXCEPT !.todo = <<"rollback">>] /\ UNCHANGED <<evolved, origin, events>>
    BY <1>1, <1>5 DEF Validate
  <2> QED
    BY <1>2, <1>3, <2>1, MergingAborts, SplittingAborts
<1> QED
  BY <1>4, <1>5

-----------------------------------------------------------------------------
(* A reinforcement that is complete.                                       *)

LEMMA ConcatThree ==
  ASSUME NEW one \in Seq(Int), NEW two \in Seq(Int), NEW three \in Seq(Int)
  PROVE  (one \o two) \o three = one \o (two \o three)
<1> DEFINE left == (one \o two) \o three
           right == one \o (two \o three)
           all == Len(one) + Len(two) + Len(three)
<1>1. Len(one) \in Nat /\ Len(two) \in Nat /\ Len(three) \in Nat
  BY ListFacts
<1>2. /\ one \o two \in Seq(Int) /\ Len(one \o two) = Len(one) + Len(two)
      /\ \A k \in 1..(Len(one) + Len(two)) :
           (one \o two)[k] = IF k <= Len(one) THEN one[k] ELSE two[k - Len(one)]
  BY ConcatProperties
<1>3. /\ two \o three \in Seq(Int) /\ Len(two \o three) = Len(two) + Len(three)
      /\ \A k \in 1..(Len(two) + Len(three)) :
           (two \o three)[k] = IF k <= Len(two) THEN two[k] ELSE three[k - Len(two)]
  BY ConcatProperties
<1>4. /\ left \in Seq(Int) /\ Len(left) = all
      /\ \A k \in 1..all : left[k] = IF k <= Len(one) + Len(two) THEN (one \o two)[k]
                                       ELSE three[k - (Len(one) + Len(two))]
  BY <1>2, ConcatProperties
<1>5. /\ right \in Seq(Int) /\ Len(right) = all
      /\ \A k \in 1..all : right[k] = IF k <= Len(one) THEN one[k]
                                        ELSE (two \o three)[k - Len(one)]
  <2>1. /\ right \in Seq(Int) /\ Len(right) = Len(one) + Len(two \o three)
        /\ \A k \in 1..(Len(one) + Len(two \o three)) :
             right[k] = IF k <= Len(one) THEN one[k] ELSE (two \o three)[k - Len(one)]
    BY <1>3, ConcatProperties
  <2>2. Len(one) + Len(two \o three) = all
    BY <1>1, <1>3
  <2> HIDE DEF all, right
  <2> QED
    BY <2>1, <2>2
<1> HIDE DEF left, right
<1>6. ASSUME NEW k \in 1..all PROVE left[k] = right[k]
  <2>1. k <= Len(one) + Len(two) => k \in 1..(Len(one) + Len(two))
    BY <1>1
  <2>2. ~(k <= Len(one)) => k - Len(one) \in 1..(Len(two) + Len(three))
    BY <1>1
  <2>3. (k - Len(one)) - Len(two) = k - (Len(one) + Len(two))
    BY <1>1
  <2>4. k <= Len(one) => k <= Len(one) + Len(two)
    BY <1>1
  <2>5. k - Len(one) <= Len(two) <=> k <= Len(one) + Len(two)
    BY <1>1
  <2> QED
    BY <1>2, <1>3, <1>4, <1>5, <2>1, <2>2, <2>3, <2>4, <2>5
<1>7. left = right
  <2> HIDE DEF all
  <2> QED
    BY <1>4, <1>5, <1>6, SeqEqual
<1> QED
  BY <1>7 DEF left, right

\* A proxy keeps its place on a list to whose end units are added.
LEMMA GrownList ==
  ASSUME NEW o, NEW h, Sound(o, h), NEW a \in DOMAIN o.aggregates,
         NEW wave \in Seq(Int), a \notin ToSet(wave)
  PROVE  LET place == o.aggregates[a]
             new == o.roster[SideOfAll(DOMAIN place)] \o wave
         IN /\ a \in ToSet(new) /\ new[Min(Range(place))] = a
            /\ \A i \in Range(place) : i <= Len(new) - 1 + Cardinality(Range(place))
            /\ Merged(new, h.origin[a].order, place, a)
<1> DEFINE place == o.aggregates[a]
           side == SideOfAll(DOMAIN place)
           list == o.roster[side]
           order == h.origin[a].order
           keep == Kept(order, DOMAIN place)
           i == Min(Range(place))
           new == list \o wave
<1>1. PICK since : Gives(o, h, a, since)
  BY ProxyGives
<1> DEFINE rest == keep \o since
<1>2. /\ since \in Seq(Int) /\ rest \in Seq(Int) /\ a \notin ToSet(rest)
      /\ list = Inserted(rest, i, a) /\ i \in 1..(Len(rest) + 1)
  BY <1>1, Zenon DEF Gives
<1>3. /\ order \in Seq(Int) /\ Stands(order, place) /\ DOMAIN place # {} /\ ProxyPlaced(o, a)
  <2>1. ProxySound(o, h, a) /\ AggregatesBound(o)
    BY Zenon DEF Sound
  <2> QED
    BY <2>1, Zenon DEF ProxySound, AggregatesBound
<1>4. a \in Int /\ list \in Seq(Int)
  BY SoundFacts, Zenon
<1>5. a \in ToSet(list) /\ list[i] = a
      /\ \A j \in Range(place) : j <= Len(list) - 1 + Cardinality(Range(place))
  BY <1>3, Zenon DEF ProxyPlaced
<1>6. keep \in Seq(Int)
  BY <1>3, KeptFacts
<1>7. Range(place) \subseteq 1..Len(order) /\ Len(order) \in Nat
  BY <1>3, PlaceFacts, ListFacts
<1> HIDE DEF keep, order, list, i, place
<1>8. Len(list) = Len(rest) + 1 /\ Len(rest) \in Nat /\ i \in Nat \ {0}
  <2> HIDE DEF rest
  <2>1. Len(rest) \in Nat
    BY <1>2, ListFacts
  <2>2. i \in Nat \ {0}
    BY <1>2, <2>1
  <2>3. PICK at : HasAt(rest, Inserted(rest, i, a), at, a)
    BY <1>2, <1>4, <2>2, InsertedShape
  <2>4. Len(Inserted(rest, i, a)) = Len(rest) + 1
    BY <2>3, Zenon DEF HasAt
  <2> QED
    BY <1>2, <2>1, <2>2, <2>4, Zenon
<1>9. /\ Len(new) = Len(list) + Len(wave) /\ Len(list) \in Nat /\ Len(wave) \in Nat
      /\ \A k \in 1..Len(list) : new[k] = list[k]
      /\ ToSet(new) = ToSet(list) \union ToSet(wave)
  BY <1>4, ConcatProperties, ConcatFacts, ListFacts
<1> HIDE DEF new
<1>10. a \in ToSet(new) /\ new[i] = a
  <2> HIDE DEF rest
  <2>1. i \in 1..Len(list)
    BY <1>2, <1>8
  <2> QED
    BY <1>5, <1>9, <2>1
<1>11. ASSUME NEW j \in Range(place) PROVE j <= Len(new) - 1 + Cardinality(Range(place))
  <2> DEFINE c == Cardinality(Range(place))
  <2>1. c \in Nat
    <3>1. IsFiniteSet(1..Len(order))
      BY <1>7, FS_Interval
    <3> QED
      BY <1>7, <3>1, FS_Subset, FS_CardinalityType
  <2>2. j \in Int /\ j <= Len(list) - 1 + c
    BY <1>5, <1>7
  <2> HIDE DEF c
  <2>3. j <= Len(new) - 1 + c
    BY <1>9, <2>1, <2>2
  <2> QED
    BY <2>3 DEF c
<1>12. Merged(new, order, place, a)
  <2> DEFINE more == since \o wave
  <2>1. more \in Seq(Int)
    BY <1>2, ConcatProperties
  <2>2. keep \o more = rest \o wave
    <3>1. keep \in Seq(Int) /\ since \in Seq(Int)
      BY <1>2, <1>6
    <3> HIDE DEF place
    <3>2. (keep \o since) \o wave = keep \o (since \o wave)
      BY <3>1, ConcatThree, Zenon
    <3> QED
      BY <3>2
  <2>3. a \notin ToSet(rest \o wave)
    <3> HIDE DEF rest
    <3>1. ToSet(rest \o wave) = ToSet(rest) \union ToSet(wave)
      BY <1>2, ConcatFacts
    <3> QED
      BY <1>2, <3>1
  <2>4. new = Inserted(rest \o wave, i, a)
    <3> HIDE DEF rest
    <3>1. Inserted(rest \o wave, i, a) = Inserted(rest, i, a) \o wave
      BY <1>2, <1>4, InsertedBefore
    <3> QED
      BY <1>2, <3>1, Zenon DEF new
  <2> HIDE DEF more, rest
  <2>5. a \notin ToSet(keep \o more) /\ new = Inserted(keep \o more, i, a)
    BY <2>2, <2>3, <2>4, Zenon
  <2> QED
    BY <2>1, <2>5, Zenon DEF Merged, keep, i
<1> QED
  BY <1>10, <1>11, <1>12, Zenon DEF new, list, place, order, i

LEMMA WaveFacts ==
  ASSUME NEW wave \in Seq(Units)
  PROVE  wave \in Seq(Int) /\ ToSet(wave) \subseteq Units
<1>1. Len(wave) \in Nat /\ wave \in [1..Len(wave) -> Units] /\ DOMAIN wave = 1..Len(wave)
  OBVIOUS
<1>2. wave \in [1..Len(wave) -> Int]
  <2>1. Units \subseteq Int
    <3>1. Units \subseteq Nat
      BY UnitsAssumption
    <3> QED
      BY <3>1
  <2>2. \A i \in 1..Len(wave) : wave[i] \in Int
    BY <1>1, <2>1
  <2> QED
    BY <1>1, <2>2
<1>3. wave \in Seq(Int)
  BY <1>1, <1>2
<1>4. ToSet(wave) \subseteq Units
  BY <1>1 DEF ToSet
<1> QED
  BY <1>3, <1>4

\* What the owners become when units are added.
Grown(p, o) ==
  LET b == p.begun
  IN /\ o.roster = [b.roster EXCEPT ![p.side] = @ \o p.wave] /\ MoraleOf(o) = ReinforcedMorale(p)
     /\ o.loadouts = b.loadouts \union ToSet(p.wave) /\ o.targeting = b.targeting \union ToSet(p.wave)
     /\ o.aggregates = b.aggregates /\ o.nextId = b.nextId

LEMMA ReinforceSound ==
  ASSUME NEW p, NEW o, NEW h, ReinforceOp(p), Sound(p.begun, h), Grown(p, o), Typed(o, h.events)
  PROVE  Sound(o, h)
<1> DEFINE b == p.begun
           wave == p.wave
           list == b.roster[p.side]
           new == list \o wave
<1>1. /\ p.side \in Sides /\ wave \in Seq(Units) /\ IsInjective(wave)
      /\ \A u \in ToSet(wave) : SideOf[u] = p.side /\ u \notin DOMAIN b.records
      /\ \A a \in DOMAIN b.aggregates : DOMAIN b.aggregates[a] \intersect ToSet(wave) = {}
  BY Zenon DEF ReinforceOp
<1>2. wave \in Seq(Int) /\ ToSet(wave) \subseteq Units
  <2> QED
    BY <1>1, WaveFacts
<1>3. /\ o.roster = [b.roster EXCEPT ![p.side] = new]
      /\ o.records = Joined(b.records, [u \in ToSet(wave) |-> [state |-> STEADY, gen |-> 0]])
      /\ o.status = Joined(b.status, [u \in ToSet(wave) |-> RequiredStatus(STEADY)])
      /\ o.archives = b.archives
      /\ o.loadouts = b.loadouts \union ToSet(wave) /\ o.targeting = b.targeting \union ToSet(wave)
      /\ o.aggregates = b.aggregates /\ o.nextId = b.nextId
  BY DEF Grown, MoraleOf, ReinforcedMorale
<1>4. /\ DOMAIN b.records = MembersOf(b.roster) /\ DOMAIN b.status = MembersOf(b.roster)
      /\ list \in Seq(Int)
      /\ \A a \in DOMAIN b.aggregates :
           /\ a \in Int /\ a < 0 /\ a \in DOMAIN b.records
           /\ SideOfAll(DOMAIN b.aggregates[a]) \in Sides
  BY <1>1, SoundFacts, Zenon
<1>5. /\ b.roster \in [Sides -> Seq(Int)] /\ OwnersBound(b) /\ AggregatesBound(b) /\ ArchivesBound(b)
      /\ (\A s \in Sides : Listed(b, s)) /\ h.evolved \subseteq DOMAIN b.aggregates
      /\ \A a \in DOMAIN b.aggregates : ProxySound(b, h, a)
  <2>1. Typed(b, h.events)
    BY Zenon DEF Sound
  <2> QED
    BY <2>1, Zenon DEF Sound, Typed
<1> HIDE DEF new, list, wave, b
<1>6. ToSet(new) = ToSet(list) \union ToSet(wave) /\ new \in Seq(Int)
  BY <1>2, <1>4, ConcatFacts DEF new
<1>7. o.roster[p.side] = new /\ \A s \in Sides : s # p.side => o.roster[s] = b.roster[s]
  BY <1>1, <1>3, <1>5
<1>8. MembersOf(o.roster) = MembersOf(b.roster) \union ToSet(wave)
  <2>1. \A s \in Sides : ToSet(o.roster[s]) = IF s = p.side THEN ToSet(b.roster[s]) \union ToSet(wave)
                                             ELSE ToSet(b.roster[s])
    BY <1>6, <1>7 DEF list
  <2> QED
    BY <1>1, <2>1 DEF MembersOf
<1>9. \A a \in DOMAIN b.aggregates : a \notin ToSet(wave)
  BY <1>2, <1>4, UnitsAssumption
<1>10. OwnersBound(o)
  <2>1. DOMAIN o.records = MembersOf(o.roster) /\ DOMAIN o.status = MembersOf(o.roster)
    BY <1>3, <1>4, <1>8 DEF Joined
  <2>2. ASSUME NEW u \in MembersOf(o.roster) PROVE Compatible(o.status[u], o.records[u])
    <3>1. CASE u \in ToSet(wave)
      <4>1. o.status[u] = RequiredStatus(STEADY) /\ o.records[u] = [state |-> STEADY, gen |-> 0]
        BY <1>3, <3>1 DEF Joined
      <4>2. o.records[u].state = STEADY
        BY <4>1
      <4> QED
        BY <4>1, <4>2, Zenon DEF Compatible
    <3>2. CASE u \notin ToSet(wave)
      <4>1. u \in MembersOf(b.roster)
        BY <1>8, <3>2
      <4>2. o.status[u] = b.status[u] /\ o.records[u] = b.records[u]
        BY <1>3, <1>4, <3>2, <4>1 DEF Joined
      <4> QED
        BY <1>5, <4>1, <4>2, Zenon DEF OwnersBound
    <3> QED
      BY <3>1, <3>2
  <2>3. o.loadouts = MembersOf(o.roster) /\ o.targeting = MembersOf(o.roster)
    <3>1. b.loadouts = MembersOf(b.roster) /\ b.targeting = MembersOf(b.roster)
      BY <1>5, Zenon DEF OwnersBound
    <3> QED
      BY <1>3, <1>8, <3>1, Zenon
  <2> QED
    BY <2>1, <2>2, <2>3, Zenon DEF OwnersBound
<1>11. ASSUME NEW a \in DOMAIN b.aggregates, SideOfAll(DOMAIN b.aggregates[a]) = p.side
       PROVE  ProxyPlaced(o, a) /\ ProxySound(o, h, a)
  <2> DEFINE place == b.aggregates[a]
  <2>1. /\ a \in ToSet(new) /\ new[Min(Range(place))] = a
        /\ \A i \in Range(place) : i <= Len(new) - 1 + Cardinality(Range(place))
        /\ Merged(new, h.origin[a].order, place, a)
    <3>1. Sound(b, h) /\ a \notin ToSet(wave) /\ wave \in Seq(Int)
      BY <1>2, <1>9 DEF b
    <3> DEFINE grown == b.roster[SideOfAll(DOMAIN place)] \o wave
    <3>2. /\ a \in ToSet(grown) /\ grown[Min(Range(place))] = a
          /\ \A i \in Range(place) : i <= Len(grown) - 1 + Cardinality(Range(place))
          /\ Merged(grown, h.origin[a].order, place, a)
      BY <1>11, <3>1, GrownList, Zenon
    <3>3. grown = new
      BY <1>11, Zenon DEF new, list
    <3> HIDE DEF grown, place
    <3> QED
      BY <3>2, <3>3, Zenon
  <2>2. o.roster[SideOfAll(DOMAIN place)] = new /\ o.aggregates[a] = place
    BY <1>3, <1>7, <1>11
  <2>3. ProxyPlaced(o, a)
    BY <2>1, <2>2, Zenon DEF ProxyPlaced
  <2>4. ProxySound(b, h, a)
    BY <1>5
  <2>5. o.records[a] = b.records[a] /\ o.archives[a] = b.archives[a]
    BY <1>3, <1>4, <1>9 DEF Joined
  <2> HIDE DEF place
  <2>6. ProxySound(o, h, a)
    BY <2>1, <2>2, <2>4, <2>5, Zenon DEF ProxySound, place
  <2> QED
    BY <2>3, <2>6
<1>12. ASSUME NEW a \in DOMAIN b.aggregates, SideOfAll(DOMAIN b.aggregates[a]) # p.side
       PROVE  ProxyPlaced(o, a) /\ ProxySound(o, h, a)
  <2>1. /\ o.roster[SideOfAll(DOMAIN b.aggregates[a])] = b.roster[SideOfAll(DOMAIN b.aggregates[a])]
        /\ o.aggregates[a] = b.aggregates[a]
    BY <1>3, <1>4, <1>7, <1>12
  <2>2. ProxySound(b, h, a) /\ ProxyPlaced(b, a)
    BY <1>5, Zenon DEF AggregatesBound
  <2>3. ProxyPlaced(o, a)
    BY <2>1, <2>2, Zenon DEF ProxyPlaced
  <2>4. o.records[a] = b.records[a] /\ o.archives[a] = b.archives[a]
    BY <1>3, <1>4, <1>9 DEF Joined
  <2>5. a \in DOMAIN h.origin
    BY <2>2, Zenon DEF ProxySound
  <2> QED
    BY <2>1, <2>2, <2>3, <2>4, <2>5, ProxySame, Zenon
<1>13. AggregatesBound(o)
  <2>1. ASSUME NEW a \in DOMAIN b.aggregates
        PROVE  /\ DOMAIN b.archives[a].of = DOMAIN b.aggregates[a]
               /\ DOMAIN b.aggregates[a] \intersect MembersOf(o.roster) = {}
    <3>1. /\ DOMAIN b.archives[a].of = DOMAIN b.aggregates[a]
          /\ DOMAIN b.aggregates[a] \intersect MembersOf(b.roster) = {}
      BY <1>5, Zenon DEF AggregatesBound
    <3>2. DOMAIN b.aggregates[a] \intersect ToSet(wave) = {}
      BY <1>1 DEF wave, b
    <3> QED
      BY <1>8, <3>1, <3>2
  <2>2. /\ DOMAIN b.archives = DOMAIN b.aggregates
        /\ \A a, c \in DOMAIN b.aggregates : a # c =>
             SideOfAll(DOMAIN b.aggregates[a]) # SideOfAll(DOMAIN b.aggregates[c])
    BY <1>5, Zenon DEF AggregatesBound
  <2>3. \A a \in DOMAIN b.aggregates : ProxyPlaced(o, a)
    BY <1>11, <1>12
  <2> QED
    BY <1>3, <2>1, <2>2, <2>3, Zenon DEF AggregatesBound
<1>14. ArchivesBound(o)
  BY <1>3, <1>5, Zenon DEF ArchivesBound
<1>15. ASSUME NEW s \in Sides PROVE Listed(o, s)
  <2>1. Listed(b, s)
    BY <1>5
  <2>2. CASE s # p.side
    <3>1. o.roster[s] = b.roster[s]
      BY <1>7, <2>2
    <3> QED
      BY <1>3, <2>1, <3>1, Zenon DEF Listed
  <2>3. CASE s = p.side
    <3>1. IsInjective(list)
      BY <2>1, <2>3, Zenon DEF Listed, list
    <3>2. ToSet(list) \intersect ToSet(wave) = {}
      <4>1. ToSet(list) \subseteq DOMAIN b.records
        BY <1>1, <1>4 DEF MembersOf, list
      <4>2. \A u \in ToSet(wave) : u \notin DOMAIN b.records
        BY <1>1 DEF wave, b
      <4> QED
        BY <4>1, <4>2
    <3>3. IsInjective(new)
      BY <1>1, <1>2, <1>4, <3>1, <3>2, ConcatFacts DEF new, wave
    <3>4. \A u \in ToSet(wave) : u \in Units /\ SideOf[u] = s
      BY <1>1, <1>2, <2>3 DEF wave
    <3>5. \A u \in ToSet(list) :
             \/ u \in Units /\ SideOf[u] = s
             \/ u \in DOMAIN b.aggregates /\ SideOfAll(DOMAIN b.aggregates[u]) = s
      BY <2>1, <2>3, Zenon DEF Listed, list
    <3>6. \A u \in ToSet(new) :
             \/ u \in Units /\ SideOf[u] = s
             \/ u \in DOMAIN o.aggregates /\ SideOfAll(DOMAIN o.aggregates[u]) = s
      BY <1>3, <1>6, <3>4, <3>5
    <3> QED
      BY <1>7, <2>3, <3>3, <3>6, Zenon DEF Listed
  <2> QED
    BY <2>2, <2>3
<1>16. \A a \in DOMAIN o.aggregates : ProxySound(o, h, a)
  BY <1>3, <1>11, <1>12
<1> QED
  BY <1>3, <1>5, <1>10, <1>13, <1>14, <1>15, <1>16, Zenon DEF Sound

LEMMA ReinforceRoster ==
  ASSUME IInv, Reinforcing, CommitRoster
  PROVE  IInv'
<1> HIDE DEF R1, R2, R3, Back
<1>1. /\ op.kind = "reinforce" /\ ReinforceOp(op) /\ ReinforceDone(op, Owners)
      /\ Sound(op.begun, History)
  BY Zenon DEF Reinforcing
<1>2. /\ At("roster") /\ op' = Idle /\ roster' = [roster EXCEPT ![op.side] = @ \o op.wave]
      /\ loadouts' = loadouts \union ToSet(op.wave)
      /\ UNCHANGED <<records, status, archives, targeting, aggregates, nextId, faults>>
      /\ UNCHANGED <<evolved, origin, events>>
  BY <1>1 DEF CommitRoster, history
<1>3. History' = History /\ faults' \in 0..MaxFaults /\ events' \in 0..MaxEvents
  BY <1>2, HistoryKept DEF IInv
<1>4. op.todo = R3
  BY <1>1, <1>2, ReinforceAt
<1>5. op.moraleDone /\ R3 # Back
  <2>1. R3 # Back /\ R3 # R1
    BY StepsDiffer, Zenon
  <2> QED
    BY <1>1, <1>4, <2>1, Zenon DEF ReinforceOp
<1>6. /\ MoraleOf(Owners') = MoraleOf(Owners) /\ Owners.roster = roster /\ Owners'.roster = roster'
      /\ Owners.loadouts = loadouts /\ Owners'.loadouts = loadouts'
      /\ Owners'.targeting = Owners.targeting
      /\ Owners'.aggregates = Owners.aggregates /\ Owners'.nextId = Owners.nextId
  BY <1>2 DEF MoraleOf, Owners
<1>7. /\ MoraleOf(Owners) = ReinforcedMorale(op) /\ Owners.roster = op.begun.roster
      /\ Owners.loadouts = op.begun.loadouts /\ Owners.aggregates = op.begun.aggregates
      /\ Owners.nextId = op.begun.nextId
      /\ Owners.targeting = op.begun.targeting \union ToSet(op.wave)
  BY <1>1, <1>4, <1>5, Zenon DEF ReinforceDone
<1>8. Grown(op, Owners')
  BY <1>2, <1>6, <1>7, Zenon DEF Grown
<1>9. Typed(Owners', events')
  <2>1. /\ roster \in [Sides -> Seq(Int)] /\ records \in [DOMAIN records -> RecordUpTo(events)]
        /\ status \in [DOMAIN status -> Statuses] /\ loadouts \subseteq Int /\ targeting \subseteq Int
        /\ \A a \in DOMAIN archives :
             /\ archives[a].baseline \in RecordUpTo(events)
             /\ archives[a].of \in [DOMAIN archives[a].of -> RecordUpTo(events)]
        /\ \A a \in DOMAIN aggregates : a \in Int /\ a < 0 /\ DOMAIN aggregates[a] \subseteq Units
        /\ nextId \in 0..MaxProxies /\ IsFunction(archives)
    BY TypedNow DEF IInv
  <2> DEFINE wave == op.wave
  <2>2. op.side \in Sides /\ wave \in Seq(Units)
    BY <1>1, Zenon DEF ReinforceOp
  <2> HIDE DEF wave
  <2>3. wave \in Seq(Int) /\ ToSet(wave) \subseteq Int
    <3>1. wave \in Seq(Int) /\ ToSet(wave) \subseteq Units
      BY <2>2, WaveFacts
    <3>2. \A u \in Units : u \in Int
      <4>1. Units \subseteq Nat
        BY UnitsAssumption
      <4> QED
        BY <4>1
    <3> QED
      BY <3>1, <3>2, Zenon
  <2>4. roster[op.side] \o wave \in Seq(Int)
    BY <2>1, <2>2, <2>3, ConcatFacts
  <2>5. roster' \in [Sides -> Seq(Int)]
    BY <1>2, <2>1, <2>4 DEF wave
  <2>6. loadouts' \subseteq Int
    BY <1>2, <2>1, <2>3 DEF wave
  <2> QED
    BY <1>2, <2>1, <2>5, <2>6, TypedNext
<1>10. Sound(Owners', History')
  <2>1. Typed(Owners', History.events)
    BY <1>2, <1>9 DEF History
  <2>2. Sound(Owners', History)
    BY <1>1, <1>8, <2>1, ReinforceSound
  <2> QED
    BY <1>3, <2>2, Zenon
<1> QED
  BY <1>2, <1>3, <1>9, <1>10, Zenon DEF IInv, Resting

LEMMA CommitRosterKeeps ==
  ASSUME IInv, CommitRoster
  PROVE  IInv'
<1>1. op # Idle
  BY DEF CommitRoster, At
<1>2. Merging \/ Splitting \/ Reinforcing
  BY <1>1, Zenon DEF IInv, Resting
<1> QED
  BY <1>2, MergeRoster, SplitRosterBack, ReinforceRoster

-----------------------------------------------------------------------------
(* Between the operations.                                                 *)

\* Battles change morale records and statuses, and no record goes back in
\* the count of its changes.
LEMMA SoundAfterBattle ==
  ASSUME NEW b, NEW h, NEW o, NEW k, Sound(b, h), Typed(o, k.events),
         o.roster = b.roster, o.archives = b.archives, o.aggregates = b.aggregates,
         o.loadouts = b.loadouts, o.targeting = b.targeting, o.nextId = b.nextId,
         DOMAIN o.records = DOMAIN b.records, DOMAIN o.status = DOMAIN b.status,
         \A u \in DOMAIN b.records :
           /\ Compatible(o.status[u], o.records[u])
           /\ o.records[u].gen >= b.records[u].gen
           /\ u \in k.evolved => u \in h.evolved \/ o.records[u].gen > b.records[u].gen,
         k.origin = h.origin, k.evolved \subseteq DOMAIN b.aggregates
  PROVE  Sound(o, k)
<1>1. /\ Typed(b, h.events) /\ OwnersBound(b) /\ AggregatesBound(b) /\ ArchivesBound(b)
      /\ (\A s \in Sides : Listed(b, s)) /\ \A a \in DOMAIN b.aggregates : ProxySound(b, h, a)
  BY Zenon DEF Sound
<1>2. DOMAIN b.records = MembersOf(b.roster)
  BY <1>1, Zenon DEF OwnersBound
<1>3. OwnersBound(o)
  BY <1>1, <1>2, Zenon DEF OwnersBound
<1>4. AggregatesBound(o)
  <2>1. \A a : ProxyPlaced(b, a) => ProxyPlaced(o, a)
    BY Zenon DEF ProxyPlaced
  <2> QED
    BY <1>1, <2>1, Zenon DEF AggregatesBound
<1>5. ArchivesBound(o)
  BY <1>1, Zenon DEF ArchivesBound
<1>6. \A s \in Sides : Listed(o, s)
  BY <1>1, Zenon DEF Listed
<1>7. ASSUME NEW a \in DOMAIN b.aggregates PROVE ProxySound(o, k, a)
  <2>1. ProxySound(b, h, a)
    BY <1>1
  <2>2. /\ b.records[a].gen >= b.archives[a].baseline.gen
        /\ a \in h.evolved => b.records[a].gen > b.archives[a].baseline.gen
    BY <2>1, Zenon DEF ProxySound
  <2>3. a \in DOMAIN b.records /\ a \in DOMAIN b.archives
    BY SoundFacts, Zenon
  <2>4. /\ b.records \in [DOMAIN b.records -> RecordUpTo(h.events)]
        /\ o.records \in [DOMAIN o.records -> RecordUpTo(k.events)]
        /\ b.archives[a].baseline \in RecordUpTo(h.events)
    BY <1>1, <2>3, Zenon DEF Typed
  <2>5. /\ b.records[a] \in RecordUpTo(h.events) /\ o.records[a] \in RecordUpTo(k.events)
    BY <2>3, <2>4
  <2>6. /\ b.records[a].gen \in Int /\ o.records[a].gen \in Int
        /\ b.archives[a].baseline.gen \in Int
    BY <2>4, <2>5 DEF RecordUpTo
  <2>7. /\ o.records[a].gen >= b.records[a].gen
        /\ a \in k.evolved => a \in h.evolved \/ o.records[a].gen > b.records[a].gen
    BY <2>3
  <2>8. /\ o.records[a].gen >= b.archives[a].baseline.gen
        /\ a \in k.evolved => o.records[a].gen > b.archives[a].baseline.gen
    BY <2>2, <2>6, <2>7
  <2> QED
    BY <2>1, <2>8, Zenon DEF ProxySound
<1> QED
  BY <1>3, <1>4, <1>5, <1>6, <1>7, Zenon DEF Sound

LEMMA RecordsGrow ==
  ASSUME events \in Nat, events' = events + 1
  PROVE  RecordUpTo(events) \subseteq RecordUpTo(events')
BY DEF RecordUpTo

\* What is common to all that happens between operations.
LEMMA BattleKeeps ==
  ASSUME IInv, op = Idle, Happens, op' = op, faults' = faults, origin' = origin,
         UNCHANGED <<roster, archives, loadouts, targeting, aggregates, nextId>>,
         records' \in [DOMAIN records -> RecordUpTo(events')],
         status' \in [DOMAIN status -> Statuses],
         \A u \in DOMAIN records :
           /\ Compatible(status'[u], records'[u])
           /\ records'[u].gen >= records[u].gen
           /\ u \in evolved' => u \in evolved \/ records'[u].gen > records[u].gen,
         evolved' \subseteq DOMAIN aggregates
  PROVE  IInv'
<1>1. Sound(Owners, History) /\ Typed(Owners, events)
  BY RestingOnly
<1>2. /\ events \in 0..MaxEvents /\ events < MaxEvents /\ events' = events + 1
      /\ faults' \in 0..MaxFaults
  BY DEF Happens, IInv
<1>3. events \in Nat /\ events' \in 0..MaxEvents
  BY <1>2, BoundsAssumption
<1>4. RecordUpTo(events) \subseteq RecordUpTo(events')
  BY <1>2, <1>3, RecordsGrow
<1>5. Typed(Owners', events')
  <2>1. /\ roster \in [Sides -> Seq(Int)]
        /\ loadouts \subseteq Int /\ targeting \subseteq Int
        /\ \A a \in DOMAIN archives :
             /\ archives[a].baseline \in RecordUpTo(events)
             /\ archives[a].of \in [DOMAIN archives[a].of -> RecordUpTo(events)]
        /\ \A a \in DOMAIN aggregates : a \in Int /\ a < 0 /\ DOMAIN aggregates[a] \subseteq Units
        /\ nextId \in 0..MaxProxies /\ IsFunction(archives)
    BY <1>1, TypedNow
  <2>2. \A a \in DOMAIN archives :
             /\ archives[a].baseline \in RecordUpTo(events')
             /\ archives[a].of \in [DOMAIN archives[a].of -> RecordUpTo(events')]
    BY <1>4, <2>1
  <2>3. /\ records' \in [DOMAIN records' -> RecordUpTo(events')]
        /\ status' \in [DOMAIN status' -> Statuses]
    OBVIOUS
  <2> QED
    BY <2>1, <2>2, <2>3, TypedNext
<1>6. Sound(Owners', History')
  <2>1. /\ Owners'.roster = Owners.roster /\ Owners'.archives = Owners.archives
        /\ Owners'.aggregates = Owners.aggregates /\ Owners'.loadouts = Owners.loadouts
        /\ Owners'.targeting = Owners.targeting /\ Owners'.nextId = Owners.nextId
        /\ Owners.aggregates = aggregates
        /\ Owners.records = records /\ Owners'.records = records'
        /\ Owners.status = status /\ Owners'.status = status'
    BY DEF Owners
  <2>2. /\ History'.origin = History.origin /\ History.evolved = evolved
        /\ History'.evolved = evolved' /\ History'.events = events'
    BY DEF History
  <2>3. DOMAIN records' = DOMAIN records /\ DOMAIN status' = DOMAIN status
    OBVIOUS
  <2>4. Typed(Owners', History'.events)
    BY <1>5, <2>2, Zenon
  <2> QED
    BY <1>1, <2>1, <2>2, <2>3, <2>4, SoundAfterBattle, Zenon
<1> QED
  BY <1>2, <1>3, <1>5, <1>6, Zenon DEF IInv, Resting

\* What battles find when no operation is in progress, and what the count of
\* events becomes.
RestingFacts ==
  /\ records \in [DOMAIN records -> RecordUpTo(events)]
  /\ records \in [DOMAIN records -> RecordUpTo(events')]
  /\ status \in [DOMAIN status -> Statuses] /\ DOMAIN status = DOMAIN records
  /\ \A u \in DOMAIN records : Compatible(status[u], records[u]) /\ records[u].gen \in 0..events
  /\ evolved \subseteq DOMAIN aggregates
  /\ events \in Nat /\ events' = events + 1

LEMMA BattleFacts ==
  ASSUME IInv, op = Idle, Happens
  PROVE  RestingFacts
<1>1. Sound(Owners, History) /\ Typed(Owners, events)
  BY RestingOnly
<1>2. /\ records \in [DOMAIN records -> RecordUpTo(events)]
      /\ status \in [DOMAIN status -> Statuses]
  BY <1>1, TypedNow
<1>3. /\ DOMAIN status = DOMAIN records /\ \A u \in DOMAIN records : Compatible(status[u], records[u])
  <2>1. OwnersBound(Owners) /\ Owners.records = records /\ Owners.status = status
    BY <1>1, Zenon DEF Sound, Owners
  <2> QED
    BY <2>1, Zenon DEF OwnersBound
<1>4. evolved \subseteq DOMAIN aggregates
  <2>1. History.evolved = evolved /\ Owners.aggregates = aggregates
    BY DEF History, Owners
  <2> QED
    BY <1>1, <2>1, Zenon DEF Sound
<1>5. events \in Nat /\ events' = events + 1
  BY BoundsAssumption DEF IInv, Happens
<1>6. RecordUpTo(events) \subseteq RecordUpTo(events')
  BY <1>5, RecordsGrow
<1>7. ASSUME NEW u \in DOMAIN records PROVE records[u].gen \in 0..events
  <2>1. records[u] \in RecordUpTo(events)
    BY <1>2
  <2> QED
    BY <2>1 DEF RecordUpTo
<1> QED
  BY <1>2, <1>3, <1>4, <1>5, <1>6, <1>7 DEF RestingFacts

LEMMA TransitKeeps ==
  ASSUME IInv, NEW us \in SUBSET DOMAIN records, NEW to, \A u \in us : to[u] \in MoraleState,
         Transit(us, to)
  PROVE  IInv'
<1> DEFINE new == [u \in us |-> [state |-> to[u], gen |-> records[u].gen + 1]]
           become == [u \in us |-> RequiredStatus(to[u])]
<1>1. /\ op = Idle /\ Happens /\ op' = op /\ faults' = faults /\ origin' = origin
      /\ UNCHANGED <<roster, archives, loadouts, targeting, aggregates, nextId>>
      /\ records' = Joined(records, new) /\ status' = Joined(status, become)
      /\ evolved' = evolved \union (us \intersect DOMAIN aggregates)
  BY DEF Transit
<1>2. RestingFacts
  BY <1>1, BattleFacts
<1>3. /\ records \in [DOMAIN records -> RecordUpTo(events)]
      /\ status \in [DOMAIN status -> Statuses]
  BY <1>2 DEF RestingFacts
<1>4. /\ DOMAIN status = DOMAIN records /\ \A u \in DOMAIN records : Compatible(status[u], records[u])
  BY <1>2 DEF RestingFacts
<1>5. evolved \subseteq DOMAIN aggregates
  BY <1>2 DEF RestingFacts
<1>6. events \in Nat /\ events' = events + 1
  BY <1>2 DEF RestingFacts
<1>7. RecordUpTo(events) \subseteq RecordUpTo(events')
  BY <1>6, RecordsGrow
<1>8. ASSUME NEW u \in us
      PROVE  /\ records[u].gen \in 0..events /\ new[u] \in RecordUpTo(events')
             /\ new[u].gen > records[u].gen /\ new[u].state = to[u]
  <2>1. records[u] \in RecordUpTo(events)
    BY <1>3
  <2>2. records[u].gen \in 0..events
    BY <2>1 DEF RecordUpTo
  <2>3. new[u] = [state |-> to[u], gen |-> records[u].gen + 1]
    OBVIOUS
  <2>4. records[u].gen + 1 \in 0..events'
    BY <1>6, <2>2
  <2>5. new[u].gen = records[u].gen + 1 /\ new[u].state = to[u]
    BY <2>3
  <2>6. new[u] \in RecordUpTo(events')
    BY <1>8, <2>3, <2>4 DEF RecordUpTo
  <2> QED
    BY <2>2, <2>5, <2>6
<1>9. ASSUME NEW u \in us PROVE become[u] = RequiredStatus(to[u])
  OBVIOUS
<1>10. DOMAIN new = us /\ DOMAIN become = us
  OBVIOUS
<1> HIDE DEF new, become
<1>11. /\ DOMAIN records' = DOMAIN records /\ DOMAIN status' = DOMAIN records
       /\ IsFunction(records') /\ IsFunction(status')
       /\ \A u \in us : records'[u] = new[u] /\ status'[u] = become[u]
       /\ \A u \in DOMAIN records \ us : records'[u] = records[u] /\ status'[u] = status[u]
  BY <1>1, <1>4, <1>10 DEF Joined, IsFunction
<1>12. records' \in [DOMAIN records -> RecordUpTo(events')]
  <2>1. \A u \in DOMAIN records : records'[u] \in RecordUpTo(events')
    BY <1>3, <1>7, <1>8, <1>11
  <2> QED
    BY <1>11, <2>1 DEF IsFunction
<1>13. status' \in [DOMAIN status -> Statuses]
  <2>1. \A u \in DOMAIN records : status'[u] \in Statuses
    BY <1>3, <1>4, <1>9, <1>11, RequiredIsStatus
  <2> QED
    BY <1>4, <1>11, <2>1 DEF IsFunction
<1>14. ASSUME NEW u \in DOMAIN records
       PROVE  /\ Compatible(status'[u], records'[u])
              /\ records'[u].gen >= records[u].gen
              /\ u \in evolved' => u \in evolved \/ records'[u].gen > records[u].gen
  <2>1. CASE u \in us
    <3>1. Compatible(status'[u], records'[u])
      BY <1>8, <1>9, <1>11, <2>1, Zenon DEF Compatible
    <3>2. records'[u].gen > records[u].gen /\ records[u].gen \in Int /\ records'[u].gen \in Int
      <4>1. records'[u] \in RecordUpTo(events')
        BY <1>12
      <4>2. records'[u].gen \in Int
        BY <4>1 DEF RecordUpTo
      <4> QED
        BY <1>8, <1>11, <2>1, <4>2
    <3> QED
      BY <3>1, <3>2
  <2>2. CASE u \notin us
    <3>1. records'[u] = records[u] /\ status'[u] = status[u]
      BY <1>11, <2>2
    <3>2. records[u].gen \in Int
      <4>1. records[u] \in RecordUpTo(events)
        BY <1>3
      <4> QED
        BY <4>1 DEF RecordUpTo
    <3> QED
      BY <1>1, <1>4, <2>2, <3>1, <3>2
  <2> QED
    BY <2>1, <2>2
<1>15. evolved' \subseteq DOMAIN aggregates
  BY <1>1, <1>5
<1> QED
  BY <1>1, <1>12, <1>13, <1>14, <1>15, BattleKeeps

LEMMA CheckKeeps ==
  ASSUME IInv, NEW u \in DOMAIN records, CheckTransition(u) \/ ForceTransition(u) \/ CheckRally(u)
  PROVE  IInv'
<1>1. PICK m \in MoraleState : Transit({u}, [v \in {u} |-> m])
  <2>1. ROUTED \in MoraleState /\ SHAKEN \in MoraleState
    BY DEF MoraleState, ROUTED, SHAKEN
  <2> QED
    BY <2>1, Zenon DEF CheckTransition, ForceTransition, CheckRally
<1>2. \A v \in {u} : [w \in {u} |-> m][v] \in MoraleState
  OBVIOUS
<1> QED
  BY <1>1, <1>2, TransitKeeps

LEMMA RoutCascadeKeeps ==
  ASSUME IInv, NEW u \in DOMAIN records, NEW batch \in SUBSET (DOMAIN records \ {u}),
         RoutCascade(u, batch)
  PROVE  IInv'
<1> DEFINE to == [v \in batch |-> ROUTED]
<1>1. Transit(batch, to)
  BY DEF RoutCascade
<1>2. \A v \in batch : to[v] \in MoraleState
  BY DEF MoraleState, ROUTED
<1> HIDE DEF to
<1> QED
  BY <1>1, <1>2, TransitKeeps

\* A loss and a movement change no morale record.
LEMMA DestroyKeeps ==
  ASSUME IInv, NEW u \in DOMAIN records, Destroy(u)
  PROVE  IInv'
<1>1. /\ op = Idle /\ Happens /\ op' = op /\ faults' = faults /\ origin' = origin
      /\ UNCHANGED <<roster, archives, loadouts, targeting, aggregates, nextId>>
      /\ records' = records /\ evolved' = evolved
      /\ status' = [status EXCEPT ![u] = "DESTROYED"]
  BY DEF Destroy, history
<1>2. RestingFacts
  BY <1>1, BattleFacts
<1>3. status' \in [DOMAIN status -> Statuses]
  BY <1>1, <1>2 DEF RestingFacts, Statuses
<1>4. \A v \in DOMAIN records : Compatible(status'[v], records'[v])
  BY <1>1, <1>2 DEF RestingFacts, Compatible
<1> QED
  BY <1>1, <1>2, <1>3, <1>4, BattleKeeps DEF RestingFacts

LEMMA MoveProxyKeeps ==
  ASSUME IInv, NEW a \in DOMAIN aggregates, MoveProxy(a)
  PROVE  IInv'
<1>1. /\ op = Idle /\ Happens /\ op' = op /\ faults' = faults /\ origin' = origin
      /\ UNCHANGED <<roster, archives, loadouts, targeting, aggregates, nextId>>
      /\ records' = records /\ evolved' = evolved /\ status' = status
  BY DEF MoveProxy, history, owners
<1>2. RestingFacts
  BY <1>1, BattleFacts
<1> QED
  BY <1>1, <1>2, BattleKeeps DEF RestingFacts

-----------------------------------------------------------------------------
(* The invariant, and what follows from it.                                *)

LEMMA InitKeeps ==
  ASSUME Init
  PROVE  IInv
<1>1. /\ roster = Initial /\ records = [u \in Members |-> [state |-> STEADY, gen |-> 0]]
      /\ status = [u \in Members |-> "ACTIVE"]
      /\ archives = <<>> /\ aggregates = <<>> /\ loadouts = Members /\ targeting = Members
      /\ nextId = 0 /\ op = Idle /\ faults = 0 /\ events = 0 /\ evolved = {} /\ origin = <<>>
  BY DEF Init
<1>2. \A s \in Sides : /\ Initial[s] \in Seq(Units) /\ IsInjective(Initial[s])
                       /\ \A u \in ToSet(Initial[s]) : SideOf[u] = s
  BY UnitsAssumption
<1>3. \A s \in Sides : Initial[s] \in Seq(Int) /\ ToSet(Initial[s]) \subseteq Units
  BY <1>2, WaveFacts
<1>4. Members \subseteq Units
  BY <1>1, <1>3 DEF Members, MembersOf
<1>5. \A u \in Units : u \in Int
  <2>1. Units \subseteq Nat
    BY UnitsAssumption
  <2> QED
    BY <2>1
<1>6. DOMAIN archives = {} /\ DOMAIN aggregates = {}
  BY <1>1
<1>7. roster \in [Sides -> Seq(Int)]
  <2>1. Initial = [s \in Sides |-> Initial[s]]
    BY UnitsAssumption DEF Sides
  <2> QED
    BY <1>1, <1>3, <2>1
<1>8. Typed(Owners, events)
  <2>1. Owners = [roster |-> Owners.roster, records |-> Owners.records, status |-> Owners.status,
                  archives |-> Owners.archives, loadouts |-> Owners.loadouts,
                  targeting |-> Owners.targeting,
                  aggregates |-> Owners.aggregates, nextId |-> Owners.nextId]
    BY DEF Owners
  <2>2. records \in [DOMAIN records -> RecordUpTo(events)]
    BY <1>1 DEF RecordUpTo, MoraleState, STEADY
  <2>3. status \in [DOMAIN status -> Statuses]
    BY <1>1 DEF Statuses
  <2>4. loadouts \subseteq Int /\ targeting \subseteq Int
    BY <1>1, <1>4, <1>5
  <2>5. archives = [a \in DOMAIN archives |-> archives[a]]
    BY <1>1
  <2>6. nextId \in 0..MaxProxies
    BY <1>1, BoundsAssumption
  <2>7. /\ Owners.roster = roster /\ Owners.records = records /\ Owners.status = status
        /\ Owners.archives = archives /\ Owners.loadouts = loadouts
        /\ Owners.targeting = targeting /\ Owners.aggregates = aggregates
        /\ Owners.nextId = nextId
    BY DEF Owners
  <2> QED
    BY <1>6, <1>7, <2>1, <2>2, <2>3, <2>4, <2>5, <2>6, <2>7, Zenon DEF Typed
<1>9. Sound(Owners, History)
  <2>1. /\ Owners.roster = roster /\ Owners.records = records /\ Owners.status = status
        /\ Owners.archives = archives /\ Owners.loadouts = loadouts
        /\ Owners.targeting = targeting /\ Owners.aggregates = aggregates
        /\ Owners.nextId = nextId
        /\ History.events = events /\ History.evolved = evolved
    BY DEF Owners, History
  <2>2. OwnersBound(Owners)
    <3>1. DOMAIN records = Members /\ DOMAIN status = Members
      BY <1>1
    <3>2. ASSUME NEW u \in Members PROVE Compatible(status[u], records[u])
      BY <1>1 DEF Compatible, RequiredStatus, STEADY, ROUTED, SURRENDERED
    <3> QED
      BY <1>1, <2>1, <3>1, <3>2, Zenon DEF OwnersBound, Members
  <2>3. AggregatesBound(Owners)
    BY <1>6, <2>1, Zenon DEF AggregatesBound
  <2>4. ArchivesBound(Owners)
    BY <1>6, <2>1, Zenon DEF ArchivesBound
  <2>5. ASSUME NEW s \in Sides PROVE Listed(Owners, s)
    <3>1. /\ IsInjective(roster[s])
          /\ \A u \in ToSet(roster[s]) : u \in Units /\ SideOf[u] = s
      BY <1>1, <1>2, <1>3
    <3> QED
      BY <2>1, <3>1, Zenon DEF Listed
  <2>6. \A a \in DOMAIN Owners.aggregates : ProxySound(Owners, History, a)
    BY <1>6, <2>1, Zenon
  <2>7. History.evolved \subseteq DOMAIN Owners.aggregates
    BY <1>1, <2>1
  <2> QED
    BY <1>8, <2>1, <2>2, <2>3, <2>4, <2>5, <2>6, <2>7, Zenon DEF Sound
<1>10. faults \in 0..MaxFaults /\ events \in 0..MaxEvents
  BY <1>1, BoundsAssumption
<1> QED
  BY <1>1, <1>8, <1>9, <1>10, Zenon DEF IInv, Resting

LEMMA StutterKeeps ==
  ASSUME IInv, UNCHANGED vars
  PROVE  IInv'
<1>1. /\ Owners' = Owners /\ History' = History /\ op' = op
      /\ faults' = faults /\ events' = events
  BY DEF vars, owners, history, Owners, History
<1> QED
  BY <1>1, Zenon DEF IInv, Resting, Merging, Splitting, Reinforcing

LEMMA NextKeeps ==
  ASSUME IInv, Next
  PROVE  IInv'
<1>1. CASE \E s \in Sides : \E ids \in SUBSET ToSet(roster[s]) : BeginMerge(s, ids)
  BY <1>1, BeginMergeKeeps
<1>2. CASE \E s \in Sides : \E us \in SUBSET Units : \E wave \in SetToSeqs(us) :
             BeginReinforce(s, wave)
  BY <1>2, BeginReinforceKeeps
<1>3. CASE \E a \in DOMAIN aggregates : BeginSplit(a) \/ MoveProxy(a)
  BY <1>3, BeginSplitKeeps, MoveProxyKeeps
<1>4. CASE CommitMorale
  BY <1>4, CommitMoraleKeeps
<1>5. CASE RemoveProxy
  BY <1>5, RemoveProxyKeeps
<1>6. CASE CommitRoster
  BY <1>6, CommitRosterKeeps
<1>7. CASE CommitLoadouts
  BY <1>7, CommitLoadoutsKeeps
<1>8. CASE CommitTargeting
  BY <1>8, CommitTargetingKeeps
<1>9. CASE CommitAggregates
  BY <1>9, CommitAggregatesKeeps
<1>10. CASE Validate
  BY <1>10, ValidateKeeps
<1>11. CASE Raise
  BY <1>11, RaiseKeeps
<1>12. CASE Rollback
  BY <1>12, RollbackKeeps
<1>13. CASE \E u \in DOMAIN records :
              CheckTransition(u) \/ ForceTransition(u) \/ CheckRally(u) \/ Destroy(u)
  BY <1>13, CheckKeeps, DestroyKeeps
<1>14. CASE \E u \in DOMAIN records : \E batch \in SUBSET (DOMAIN records \ {u}) :
              RoutCascade(u, batch)
  BY <1>14, RoutCascadeKeeps
<1> QED
  BY <1>1, <1>2, <1>3, <1>4, <1>5, <1>6, <1>7, <1>8, <1>9, <1>10, <1>11, <1>12, <1>13, <1>14
     DEF Next

\* The owners are always as the operation in progress has left them, and what it
\* began with is sound.
THEOREM AggregationInvariant == Spec => []IInv
<1>1. Init => IInv
  BY InitKeeps
<1>2. IInv /\ [Next]_vars => IInv'
  BY NextKeeps, StutterKeeps
<1> QED
  BY <1>1, <1>2, PTL DEF Spec

LEMMA InvariantRestorable ==
  ASSUME IInv
  PROVE  Restorable
<1>1. Typed(Owners, events) /\ faults \in 0..MaxFaults /\ events \in 0..MaxEvents
  BY Zenon DEF IInv
<1>2. TypeOK
  <2>1. /\ roster \in [Sides -> Seq(Int)] /\ records \in [DOMAIN records -> RecordUpTo(events)]
        /\ status \in [DOMAIN status -> Statuses]
        /\ loadouts \subseteq Int /\ targeting \subseteq Int
        /\ \A a \in DOMAIN aggregates : a < 0 /\ DOMAIN aggregates[a] \subseteq Units
        /\ nextId \in 0..MaxProxies
    BY <1>1, TypedNow
  <2>2. \A u \in DOMAIN records : records[u] \in Record
    <3>1. RecordUpTo(events) \subseteq Record
      BY <1>1, BoundsAssumption DEF RecordUpTo, Record
    <3> QED
      BY <2>1, <3>1
  <2>3. \A u \in DOMAIN status : status[u] \in {"ACTIVE", "ROUTING", "SURRENDERED", "DESTROYED"}
    BY <2>1 DEF Statuses
  <2> QED
    BY <1>1, <2>1, <2>2, <2>3, Zenon DEF TypeOK
<1>3. ASSUME op = Idle
      PROVE  OwnersBound(Owners) /\ AggregatesBound(Owners) /\ ArchivesBound(Owners)
  BY <1>3, RestingOnly, Zenon DEF Sound
<1> QED
  BY <1>2, <1>3 DEF Restorable

\* Between operations the owners agree on who exists, every proxy stands where the
\* first of its units stood, and a checkpoint taken then can be restored.
THEOREM OwnersRestorable == Spec => []Restorable
<1>1. IInv => Restorable
  BY InvariantRestorable
<1> QED
  BY <1>1, AggregationInvariant, PTL

\* Only rolling back goes on from a failed operation.
LEMMA OnlyRollback ==
  ASSUME Next, At("rollback")
  PROVE  Rollback
<1>1. op # Idle /\ Head(op.todo) = "rollback"
  BY DEF At
<1> QED
  BY <1>1 DEF Next, BeginMerge, BeginReinforce, BeginSplit, MoveProxy, CommitMorale, RemoveProxy,
     CommitRoster, CommitLoadouts, CommitTargeting, CommitAggregates, Validate, Raise,
     CheckTransition, ForceTransition, CheckRally, Destroy, RoutCascade, Transit, At

\* An operation that fails leaves every owner as it found it.
THEOREM FailuresUndone == Spec => AllOrNothing
<1>1. ASSUME IInv, [Next]_vars
      PROVE  [At("rollback") => op'.kind = "none" /\ Owners' = op.begun]_vars
  <2>1. CASE Next /\ At("rollback")
    <3>1. Rollback
      BY <2>1, OnlyRollback
    <3>2. Owners' = op.begun
      BY <1>1, <2>1, <3>1, RollbackUndoes
    <3>3. op'.kind = "none"
      BY <3>1 DEF Rollback, Idle
    <3> QED
      BY <3>2, <3>3
  <2> QED
    BY <1>1, <2>1
<1> QED
  BY <1>1, AggregationInvariant, PTL DEF Spec, AllOrNothing

\* What a split that is complete gives back.
LEMMA SplitGivesBack ==
  ASSUME IInv, op.kind = "split", op.todo = M6
  PROVE  LET was == origin[op.id]
         IN /\ \A u \in DOMAIN was.records : records[u] = was.records[u] /\ status[u] = "ACTIVE"
            /\ IsPrefix(was.order, roster[op.side]) /\ op.id \notin evolved
<1> HIDE DEF M4, M5, M6, Back, S1, S2, S3, S4
<1> DEFINE b == op.begun
           ids == DOMAIN op.place
<1>1. SplitOp(op) /\ SplitDone(op, Owners) /\ Sound(b, History)
  BY DEF IInv, Resting, Merging, Splitting, Reinforcing, Idle
<1>2. M6 \in {M4, M5, M6} /\ op.moraleDone
  <2>1. M6 \in {M4, M5, M6} /\ M6 # Back /\ M6 # S1
    BY StepsDiffer, Zenon
  <2> QED
    BY <1>1, <2>1, Zenon DEF SplitOp
<1>3. MoraleOf(Owners) = SplitMorale(op) /\ Owners.roster = SplitRoster(op)
  BY <1>1, <1>2, Zenon DEF SplitDone
<1>4. /\ records = Joined(Without(b.records, {op.id}), op.archive.of)
      /\ status = Joined(Without(b.status, {op.id}),
                         [u \in ids |-> RequiredStatus(op.archive.of[u].state)])
      /\ roster = SplitRoster(op)
  BY <1>3 DEF MoraleOf, SplitMorale, Owners
<1>5. /\ op.id \in DOMAIN b.aggregates /\ op.archive = b.archives[op.id]
      /\ DOMAIN op.archive.of = ids /\ op.side \in Sides
  BY <1>1, SplitOpFacts, Zenon
<1>6. PICK since : Returned(op, History, since)
  BY <1>1, SplitListFacts
<1>7. History.origin = origin /\ History.evolved = evolved
  BY DEF History
<1> DEFINE order == origin[op.id].order
<1>8. /\ roster = [b.roster EXCEPT ![op.side] = order \o since] /\ IsPrefix(order, order \o since)
      /\ origin[op.id].records = op.archive.of
  BY <1>4, <1>6, <1>7, Zenon DEF Returned
<1>9. roster[op.side] = order \o since
  <2>1. b.roster \in [Sides -> Seq(Int)]
    <3>1. Typed(b, History.events)
      BY <1>1, Zenon DEF Sound
    <3> QED
      BY <3>1, Zenon DEF Typed
  <2> HIDE DEF b, order
  <2> QED
    BY <1>5, <1>8, <2>1
<1>10. ASSUME NEW u \in ids PROVE records[u] = op.archive.of[u] /\ status[u] = "ACTIVE"
  <2>1. Compatible("ACTIVE", op.archive.of[u])
    <3>1. ArchivesBound(b) /\ op.id \in DOMAIN b.archives
      BY <1>1, <1>5, SoundFacts, Zenon DEF Sound
    <3> QED
      BY <1>5, <1>10, <3>1, Zenon DEF ArchivesBound
  <2>2. RequiredStatus(op.archive.of[u].state) = "ACTIVE"
    BY <2>1 DEF Compatible
  <2> HIDE DEF ids, b
  <2>3. records[u] = op.archive.of[u]
    BY <1>4, <1>5, <1>10 DEF Joined
  <2>4. status[u] = RequiredStatus(op.archive.of[u].state)
    BY <1>4, <1>10 DEF Joined
  <2> QED
    BY <2>2, <2>3, <2>4
<1>11. op.id \notin evolved
  BY <1>1, <1>7, SplitUntouched, Zenon
<1> HIDE DEF order
<1> QED
  BY <1>5, <1>8, <1>9, <1>10, <1>11, Zenon DEF order

\* A split gives back the records and the order that were merged, and it loses
\* nothing that happened to the proxy.
THEOREM SplitsRestore == Spec => RoundTrip
<1> DEFINE Restored ==
             LET was == origin[op.id]
             IN /\ \A u \in DOMAIN was.records :
                     records'[u] = was.records[u] /\ status'[u] = "ACTIVE"
                /\ IsPrefix(was.order, roster'[op.side])
                /\ op.id \notin evolved
<1>1. ASSUME IInv, [Next]_vars
      PROVE  [Succeeds("split") => Restored]_vars
  <2>1. CASE Next /\ Succeeds("split")
    <3>1. op.kind = "split" /\ op.todo = M6 /\ op'.kind = "none"
      BY <2>1 DEF Succeeds, M6
    <3>2. op # Idle /\ Head(op.todo) = "validate" /\ [op EXCEPT !.todo = <<"rollback">>].kind = "split"
      <4>1. [op EXCEPT !.todo = <<"rollback">>].kind = op.kind
        OBVIOUS
      <4> QED
        BY <3>1, <4>1, StepFacts DEF Idle
    <3>3. Validate
      BY <2>1, <3>1, <3>2
         DEF Next, BeginMerge, BeginReinforce, BeginSplit, MoveProxy, CommitMorale, RemoveProxy,
         CommitRoster, CommitLoadouts, CommitTargeting, CommitAggregates, Raise, Rollback,
         CheckTransition, ForceTransition, CheckRally, Destroy, RoutCascade, Transit, At
    <3>4. UNCHANGED <<records, status, roster>>
      BY <3>3 DEF Validate, owners
    <3> QED
      BY <1>1, <3>1, <3>4, SplitGivesBack
  <2> QED
    BY <1>1, <2>1
<1> QED
  BY <1>1, AggregationInvariant, PTL DEF Spec, RoundTrip

=============================================================================
