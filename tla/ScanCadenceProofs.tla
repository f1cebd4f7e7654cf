-------------------------- MODULE ScanCadenceProofs --------------------------
(***************************************************************************)
(* Proofs about ScanCadence, for any units, attachments and periods: a     *)
(* checkpoint between two intervals is acceptable, no operational sensor   *)
(* starves and none scans in bursts, promotions are served in the next     *)
(* interval, and phases and earned opportunities are kept.                 *)
(***************************************************************************)
EXTENDS ScanCadence, FiniteSetTheorems, FunctionTheorems, TLAPS

-----------------------------------------------------------------------------
(* The inductive invariant.                                                *)

Group(p, g) == {b \in Assigned(p) : GroupOf[b] = g}

\* The ordinals of a phase group are those of a list, each given once.
PhaseInv(p) ==
  /\ p \in [Attachments -> {None} \union Nat]
  /\ \A a, b \in Assigned(p) : GroupOf[a] = GroupOf[b] /\ p[a] = p[b] => a = b
  /\ \A c \in Attachments :
       {p[b] : b \in Group(p, GroupOf[c])} = 0..(Cardinality(Group(p, GroupOf[c])) - 1)

\* The state of an attachment when n is the next interval.  Deadlines lie ahead,
\* by one period at most.  An axis that is not ready has been consumed by the
\* last scan, and its deadline is at most a period later; one that is ready
\* has passed a deadline since.
AxisInv(n, s, axis) ==
  /\ axis.due >= n
  /\ axis.due <= n - 1 + axis.period
  /\ axis.deferred # None => s.last # None /\ s.last < axis.deferred /\ axis.deferred < n

PassedDeadline(f, p, a, from, to) == \E d \in from..to : d % NativePeriod(f, a) = Residue(f, p, a)

Sound(f, p, n, a, s) ==
  /\ p[a] \in Nat /\ s \in State /\ s.last \in {None} \union (0..(n - 1))
  /\ AxisInv(n, s, s.native) /\ AxisInv(n, s, s.lod)
  /\ s.native.period = NativePeriod(f, a) /\ s.lod.period <= Longest(f)
  /\ s.native.due % NativePeriod(f, a) = Residue(f, p, a)
  /\ IF s.last = None THEN s.native.ready /\ s.lod.ready
     ELSE /\ s.native.ready => PassedDeadline(f, p, a, s.last + 1, n - 1)
          /\ ~s.native.ready => s.native.due <= s.last + NativePeriod(f, a)
          /\ ~s.lod.ready => s.lod.due <= s.last + Longest(f)

Tiers == [Units -> [tier : Tier \union {Unseen}, pending : Tier \union {Unseen},
                    count : 0..Larger(1, Hysteresis - 1)]]

StatesInv ==
  /\ DOMAIN states \subseteq Attachments
  /\ \A a \in DOMAIN states :
       /\ Sound(flags, phase, ordinal, a, states[a])
       /\ states[a].lod.period = LodPeriod(flags, lod[UnitOf[a]].tier)

OwedInv == \A u \in owed : lod[u].tier = "active" /\ lod[u].pending = Unseen

\* What an interval's plan keeps of the committed state, and what it may take.
PlanFollows(a) ==
  IF plan.states[a].last = states[a].last
  THEN /\ states[a].native.ready => plan.states[a].native.ready
       /\ states[a].lod.ready => plan.states[a].lod.ready
  ELSE states[a].last # None =>
                        PassedDeadline(flags, phase, a, states[a].last + 1, ordinal)

PlanInv ==
  /\ plan = [phase |-> plan.phase, tiers |-> plan.tiers, up |-> plan.up, states |-> plan.states,
             lodReady |-> plan.lodReady, promoted |-> plan.promoted]
  /\ ordinal < MaxOrdinal
  /\ PhaseInv(plan.phase) /\ \A a \in Assigned(phase) : plan.phase[a] = phase[a]
  /\ plan.tiers \in Tiers /\ plan.promoted \subseteq Units
  /\ DOMAIN plan.states \subseteq Attachments /\ plan.up \subseteq DOMAIN plan.states
  /\ \A a \in DOMAIN plan.states :
       /\ Sound(flags, plan.phase, ordinal + 1, a, plan.states[a])
       /\ plan.states[a].lod.period =
            IF UnitOf[a] \in plan.promoted THEN 1 ELSE LodPeriod(flags, plan.tiers[UnitOf[a]].tier)
  /\ \A a \in DOMAIN states \intersect DOMAIN plan.states : PlanFollows(a)

IInv ==
  /\ flags \in Flags
  /\ ordinal \in 0..MaxOrdinal /\ lod \in Tiers
  /\ damaged \subseteq Units /\ owed \subseteq Units
  /\ staging \in BOOLEAN /\ poisoned \in BOOLEAN
  /\ ordinal = 0 => Assigned(phase) = {} /\ DOMAIN states = {}
  /\ PhaseInv(phase) /\ StatesInv /\ OwedInv
  /\ staging => PlanInv
  /\ NotStarved /\ PromotionServed

-----------------------------------------------------------------------------
(* Residues and deadlines.                                                 *)

LEMMA Quotient ==
  ASSUME NEW c \in Nat, c > 0, NEW x \in Int
  PROVE  x \div c \in Int /\ x % c \in 0..(c - 1) /\ (x \div c) * c + (x % c) = x
<1>1. x \div c \in Int
  BY SMT
<1>2. (x \div c) * c + (x % c) = x
  BY SMT
<1>3. x % c \in 0..(c - 1)
  BY SMT
<1> QED
  BY <1>1, <1>2, <1>3

\* Quotient and remainder are unique.
LEMMA Remainder ==
  ASSUME NEW c \in Nat, c > 0, NEW x \in Int, NEW k \in Int, NEW r \in 0..(c - 1), x = k * c + r
  PROVE  x % c = r
<1> DEFINE q == x \div c
           m == x % c
<1>1. q \in Int /\ m \in 0..(c - 1) /\ q * c + m = x
  BY Quotient
<1> HIDE DEF q, m
<1>2. (q - k) * c = q * c - k * c /\ q * c \in Int /\ k * c \in Int
  BY <1>1, SMT
<1>3. (q - k) * c = r - m
  BY <1>1, <1>2
<1>4. q - k < 1
  BY <1>1, <1>3, SMT
<1>5. q - k > -1
  BY <1>1, <1>3, SMT
<1>6. q - k = 0
  BY <1>1, <1>4, <1>5
<1> QED
  BY <1>1, <1>3, <1>6 DEF m

LEMMA Shifted ==
  ASSUME NEW c \in Nat, c > 0, NEW x \in Int, NEW k \in Int
  PROVE  k * c \in Int /\ (x + k * c) % c = x % c
<1> DEFINE q == x \div c
           m == x % c
<1>1. q \in Int /\ m \in 0..(c - 1) /\ q * c + m = x
  BY Quotient
<1> HIDE DEF q, m
<1>2. (q + k) * c = q * c + k * c /\ q * c \in Int /\ k * c \in Int
  BY <1>1, SMT
<1>3. x + k * c = (q + k) * c + m
  BY <1>1, <1>2
<1>4. x + k * c \in Int /\ q + k \in Int
  BY <1>1, <1>2
<1>5. (x + k * c) % c = m
  BY <1>1, <1>3, <1>4, Remainder
<1> QED
  BY <1>2, <1>5 DEF m

\* A deadline that has passed moves ahead by whole periods, no further than needed.
LEMMA AdvanceFacts ==
  ASSUME ordinal \in Nat, NEW due \in Nat, NEW period \in Nat \ {0}, due <= ordinal
  PROVE  /\ Advance(due, period) \in (ordinal + 1)..(ordinal + period)
         /\ Advance(due, period) % period = due % period
<1> DEFINE k == (ordinal - due) \div period
           m == (ordinal - due) % period
<1>1. k \in Int /\ m \in 0..(period - 1) /\ k * period + m = ordinal - due
  BY Quotient
<1>2. Advance(due, period) = due + (k + 1) * period
  BY DEF Advance
<1> HIDE DEF k, m
<1>3. (k + 1) * period = k * period + period /\ k * period \in Int
  BY <1>1, SMT
<1>4. (due + (k + 1) * period) % period = due % period
  <2>1. k + 1 \in Int /\ due \in Int /\ period \in Nat /\ period > 0
    BY <1>1
  <2> QED
    BY <2>1, Shifted, Zenon
<1> QED
  BY <1>1, <1>2, <1>3, <1>4

\* The next ordinal of a residue class is at most a period away.
LEMMA NextPhaseFacts ==
  ASSUME ordinal \in Nat, NEW period \in Nat \ {0}, NEW residue \in 0..(period - 1)
  PROVE  /\ NextPhaseDeadline(period, residue) \in (ordinal + 1)..(ordinal + period)
         /\ NextPhaseDeadline(period, residue) % period = residue
<1> DEFINE m == ordinal % period
           a == ordinal \div period
           delta == (residue - m) % period
           b == (residue - m) \div period
           next == NextPhaseDeadline(period, residue)
<1>1. a \in Int /\ m \in 0..(period - 1) /\ a * period + m = ordinal
  BY Quotient
<1>2. b \in Int /\ delta \in 0..(period - 1) /\ b * period + delta = residue - m
  BY <1>1, Quotient
<1>3. next = ordinal + (IF delta = 0 THEN period ELSE delta)
  BY DEF NextPhaseDeadline
<1> HIDE DEF m, a, delta, b, next
<1>4. a * period \in Int /\ b * period \in Int
  BY <1>1, <1>2, SMT
<1>5. next \in (ordinal + 1)..(ordinal + period)
  BY <1>2, <1>3
<1>6. CASE delta = 0
  <2>1. (a + 1 - b) * period = a * period + period - b * period
    BY <1>1, <1>2, SMT
  <2>2. next = (a + 1 - b) * period + residue
    BY <1>1, <1>2, <1>3, <1>4, <1>6, <2>1
  <2>3. (a + 1 - b) \in Int /\ next \in Int /\ period \in Nat /\ period > 0
    BY <1>1, <1>2, <1>5
  <2>4. next % period = residue
    BY <2>2, <2>3, Remainder, Zenon
  <2> QED
    BY <1>5, <2>4 DEF next
<1>7. CASE delta # 0
  <2>1. (a - b) * period = a * period - b * period
    BY <1>1, <1>2, SMT
  <2>2. next = (a - b) * period + residue
    BY <1>1, <1>2, <1>3, <1>4, <1>7, <2>1
  <2>3. (a - b) \in Int /\ next \in Int /\ period \in Nat /\ period > 0
    BY <1>1, <1>2, <1>5
  <2>4. next % period = residue
    BY <2>2, <2>3, Remainder, Zenon
  <2> QED
    BY <1>5, <2>4 DEF next
<1> QED
  BY <1>6, <1>7

-----------------------------------------------------------------------------
(* The state of one attachment.                                            *)

\* The constants.
LEMMA Periods ==
  ASSUME flags \in Flags
  PROVE
  /\ \A t : LodPeriod(flags, t) \in Nat \ {0} /\ LodPeriod(flags, t) <= Longest(flags)
  /\ LodPeriod(flags, "active") = 1 /\ Longest(flags) \in Nat \ {0} /\ Longest(flags) >= 1
  /\ \A a \in Attachments : NativePeriod(flags, a) \in Nat \ {0} /\ UnitOf[a] \in Units
  /\ \A m, n \in Int : /\ Larger(m, n) \in {m, n} /\ Larger(m, n) >= m /\ Larger(m, n) >= n
                       /\ Smaller(m, n) \in {m, n} /\ Smaller(m, n) <= m /\ Smaller(m, n) <= n
<1>1. NearbyPeriod \in Nat \ {0} /\ DistantPeriod \in Nat \ {0}
  BY PeriodsAssumption
<1>2. \A a \in Attachments : NativePeriod(flags, a) \in Nat \ {0} /\ UnitOf[a] \in Units
  BY AttachmentsAssumption DEF NativePeriod
<1>3. \A m, n \in Int : /\ Larger(m, n) \in {m, n} /\ Larger(m, n) >= m /\ Larger(m, n) >= n
                        /\ Smaller(m, n) \in {m, n} /\ Smaller(m, n) <= m /\ Smaller(m, n) <= n
  BY DEF Larger, Smaller
<1>4. /\ Longest(flags) \in Nat \ {0}
      /\ flags.lod => Longest(flags) >= NearbyPeriod /\ Longest(flags) >= DistantPeriod
  <2>1. CASE flags.lod
    BY <1>1, <1>3, <2>1 DEF Longest
  <2>2. CASE ~flags.lod
    BY <2>2 DEF Longest
  <2> QED
    BY <2>1, <2>2
<1>5. ASSUME NEW t PROVE LodPeriod(flags, t) \in Nat \ {0} /\ LodPeriod(flags, t) <= Longest(flags)
  <2>1. CASE flags.lod /\ t = "nearby"
    BY <1>1, <1>4, <2>1 DEF LodPeriod
  <2>2. CASE flags.lod /\ t = "distant"
    BY <1>1, <1>4, <2>2 DEF LodPeriod
  <2>3. CASE ~(flags.lod /\ t = "nearby") /\ ~(flags.lod /\ t = "distant")
    <3>1. LodPeriod(flags, t) = 1
      BY <2>3 DEF LodPeriod
    <3> QED
      BY <1>4, <3>1
  <2> QED
    BY <2>1, <2>2, <2>3
<1>6. LodPeriod(flags, "active") = 1
  BY DEF LodPeriod
<1> QED
  BY <1>2, <1>3, <1>4, <1>5, <1>6

LEMMA StateFacts ==
  ASSUME NEW s \in State
  PROVE  /\ s = [last |-> s.last, native |-> s.native, lod |-> s.lod]
         /\ s.last \in Int /\ s.native \in Axis /\ s.lod \in Axis
         /\ \A axis \in Axis :
              /\ axis = [period |-> axis.period, ready |-> axis.ready,
                         deferred |-> axis.deferred, due |-> axis.due]
              /\ axis.period \in Nat \ {0} /\ axis.ready \in BOOLEAN
              /\ axis.deferred \in Int /\ axis.due \in Nat
BY DEF State, Axis

\* A new period moves the deadline, but never into the past, beyond one new
\* period or, before the scan it leads to, beyond the longest period.
LEMMA ChangePeriodFacts ==
  ASSUME flags \in Flags, ordinal \in Nat, NEW p, NEW a \in Attachments,
         NEW n \in {ordinal, ordinal + 1}, NEW s,
         Sound(flags, p, n, a, s), NEW new \in Nat \ {0}, new <= Longest(flags)
  PROVE  \E due \in Nat :
           /\ ChangePeriod(s, new) =
                [last |-> s.last, native |-> s.native,
                 lod |-> [period |-> new, ready |-> s.lod.ready,
                          deferred |-> s.lod.deferred, due |-> due]]
           /\ due >= n /\ due <= ordinal + new
           /\ new = s.lod.period => due = s.lod.due
           /\ ~s.lod.ready => due <= s.last + Longest(flags)
<1> DEFINE from == IF s.last = None THEN ordinal ELSE s.last
           due == IF new < s.lod.period
                  THEN Smaller(s.lod.due, Larger(ordinal + 1, from + new))
                  ELSE Larger(s.lod.due, from + new)
<1>1. /\ s \in State /\ s.last \in {None} \union (0..(n - 1)) /\ None = -1 /\ Longest(flags) \in Nat
      /\ s.lod.due >= n /\ s.lod.due <= n - 1 + s.lod.period
      /\ ~s.lod.ready => s.last # None /\ s.lod.due <= s.last + Longest(flags)
  BY Periods DEF Sound, AxisInv, None
<1>2. /\ s = [last |-> s.last, native |-> s.native, lod |-> s.lod]
      /\ s.lod = [period |-> s.lod.period, ready |-> s.lod.ready,
                  deferred |-> s.lod.deferred, due |-> s.lod.due]
      /\ s.lod.period \in Nat \ {0} /\ s.lod.due \in Nat /\ s.last \in Int
  BY <1>1, StateFacts
<1>3. CASE new = s.lod.period
  <2>1. ChangePeriod(s, new) = s
    BY <1>3 DEF ChangePeriod
  <2> QED
    BY <1>1, <1>2, <1>3, <2>1
<1>4. CASE new # s.lod.period
  <2>0. ChangePeriod(s, new) = [s EXCEPT !.lod = [@ EXCEPT !.period = new, !.due = due]]
    BY <1>4 DEF ChangePeriod
  <2>1. from \in Int /\ from <= ordinal /\ from >= -1 /\ (s.last # None => from = s.last)
    BY <1>1, <1>2
  <2>2. /\ due \in Int /\ due >= n /\ due <= ordinal + new
        /\ s.last # None /\ s.lod.due <= s.last + Longest(flags) => due <= s.last + Longest(flags)
    <3> HIDE DEF from
    <3>1. CASE new < s.lod.period
      <4>1. due = Smaller(s.lod.due, Larger(ordinal + 1, from + new))
        BY <3>1
      <4> DEFINE l == Larger(ordinal + 1, from + new)
      <4>2. l \in Int /\ l \in {ordinal + 1, from + new} /\ l >= ordinal + 1
        <5>1. ordinal + 1 \in Int /\ from + new \in Int
          BY <2>1
        <5> QED
          BY <5>1, Periods
      <4>3. due \in {s.lod.due, l} /\ due <= s.lod.due /\ due <= l
        BY <1>2, <4>1, <4>2, Periods
      <4> HIDE DEF l
      <4> QED
        BY <1>1, <1>2, <2>1, <4>2, <4>3
    <3>2. CASE ~(new < s.lod.period)
      <4>1. due = Larger(s.lod.due, from + new)
        BY <3>2
      <4>2. due \in {s.lod.due, from + new} /\ due >= s.lod.due /\ due >= from + new
        BY <1>2, <2>1, <4>1, Periods
      <4> QED
        BY <1>1, <1>2, <2>1, <3>2, <4>2
    <3> QED
      BY <3>1, <3>2
  <2> HIDE DEF from, due
  <2>3. [s EXCEPT !.lod = [@ EXCEPT !.period = new, !.due = due]] =
          [last |-> s.last, native |-> s.native,
           lod |-> [period |-> new, ready |-> s.lod.ready, deferred |-> s.lod.deferred, due |-> due]]
    <3>1. PICK k, r, d, u : s.lod = [period |-> k, ready |-> r, deferred |-> d, due |-> u]
      BY <1>2
    <3>2. [s EXCEPT !.lod = [@ EXCEPT !.period = new, !.due = due]] =
            [s EXCEPT !.lod = [s.lod EXCEPT !.period = new, !.due = due]]
      OBVIOUS
    <3>3. [s.lod EXCEPT !.period = new, !.due = due] =
            [period |-> new, ready |-> s.lod.ready, deferred |-> s.lod.deferred, due |-> due]
      <4> DEFINE e == [period |-> new, ready |-> r, deferred |-> d, due |-> u]
      <4>1. [s.lod EXCEPT !.period = new, !.due = due] =
              [[s.lod EXCEPT !.period = new] EXCEPT !.due = due]
        OBVIOUS
      <4>2. [s.lod EXCEPT !.period = new] = e
        BY <3>1
      <4>3. [e EXCEPT !.due = due] = [period |-> new, ready |-> r, deferred |-> d, due |-> due]
        OBVIOUS
      <4>4. s.lod.ready = r /\ s.lod.deferred = d
        BY <3>1
      <4> HIDE DEF e
      <4> QED
        BY <4>1, <4>2, <4>3, <4>4
    <3>4. s = [last |-> s.last, native |-> s.native, lod |-> s.lod]
      BY <1>2
    <3> QED
      BY <3>2, <3>3, <3>4
  <2> QED
    BY <1>1, <1>4, <2>0, <2>2, <2>3
<1> QED
  BY <1>3, <1>4

\* Accrual looks past the current interval.
LEMMA AccrueFacts ==
  ASSUME ordinal \in Nat, NEW axis \in Axis
  PROVE  /\ Accrue(axis) \in Axis /\ Accrue(axis).period = axis.period
         /\ Accrue(axis).deferred = axis.deferred
         /\ IF ordinal < axis.due THEN Accrue(axis) = axis
            ELSE /\ Accrue(axis).ready
                 /\ Accrue(axis).due \in (ordinal + 1)..(ordinal + axis.period)
                 /\ Accrue(axis).due % axis.period = axis.due % axis.period
<1>1. /\ axis = [period |-> axis.period, ready |-> axis.ready,
                 deferred |-> axis.deferred, due |-> axis.due]
      /\ axis.period \in Nat \ {0} /\ axis.ready \in BOOLEAN
      /\ axis.deferred \in Int /\ axis.due \in Nat
  BY DEF Axis
<1>2. CASE ordinal < axis.due
  BY <1>2 DEF Accrue
<1>3. CASE ~(ordinal < axis.due)
  <2>1. /\ Advance(axis.due, axis.period) \in (ordinal + 1)..(ordinal + axis.period)
        /\ Advance(axis.due, axis.period) % axis.period = axis.due % axis.period
    BY <1>1, <1>3, AdvanceFacts
  <2>2. Accrue(axis) = [period |-> axis.period, ready |-> TRUE, deferred |-> axis.deferred,
                        due |-> Advance(axis.due, axis.period)]
    BY <1>1, <1>3 DEF Accrue
  <2> QED
    BY <1>1, <1>3, <2>1, <2>2 DEF Axis
<1> QED
  BY <1>2, <1>3

\* The decision's state before a scan of this interval is decided.
Entered(p, a, s) ==
  /\ Sound(flags, p, ordinal + 1, a, s)
  /\ s.last < ordinal
  /\ s.native.deferred # None => s.native.deferred < ordinal
  /\ s.lod.deferred # None => s.lod.deferred < ordinal

\* An attachment that is new on the roster.
LEMMA FreshFacts ==
  ASSUME flags \in Flags, ordinal \in Nat, NEW p, NEW a \in Attachments, p[a] \in Nat,
         NEW period \in Nat \ {0}, period <= Longest(flags)
  PROVE  /\ Entered(p, a, Fresh(p, a, period)) /\ Fresh(p, a, period).lod.period = period
         /\ Fresh(p, a, period).last = None
<1> DEFINE due == NextPhaseDeadline(NativePeriod(flags, a), Residue(flags, p, a))
           s == Fresh(p, a, period)
<1>1. /\ NativePeriod(flags, a) \in Nat \ {0}
      /\ Residue(flags, p, a) \in 0..(NativePeriod(flags, a) - 1)
  BY Periods, Quotient DEF Residue
<1>2. /\ due \in (ordinal + 1)..(ordinal + NativePeriod(flags, a))
      /\ due % NativePeriod(flags, a) = Residue(flags, p, a)
  BY <1>1, NextPhaseFacts
<1>3. s = [last |-> None,
           native |-> [period |-> NativePeriod(flags, a), ready |-> TRUE, deferred |-> None,
                      due |-> due],
           lod |-> [period |-> period, ready |-> TRUE, deferred |-> None, due |-> ordinal + period]]
  BY DEF Fresh
<1> HIDE DEF due, s
<1>4. s \in State /\ None = -1
  BY <1>1, <1>2, <1>3 DEF State, Axis, None
<1>5. AxisInv(ordinal + 1, s, s.native) /\ AxisInv(ordinal + 1, s, s.lod)
  BY <1>1, <1>2, <1>3 DEF AxisInv
<1> QED
  BY <1>1, <1>2, <1>3, <1>4, <1>5 DEF Entered, Sound, s

\* One that stays: its deadlines that have passed make it ready.
LEMMA StayingFacts ==
  ASSUME flags \in Flags, ordinal \in Nat, NEW p, NEW a \in DOMAIN states, a \in Attachments,
         p[a] = phase[a], Sound(flags, phase, ordinal, a, states[a]),
         NEW period \in Nat \ {0}, period <= Longest(flags),
         NEW s, s = Entering(p, a, period)
  PROVE  /\ Entered(p, a, s) /\ s.lod.period = period
         /\ s.last = states[a].last
         /\ states[a].native.ready => s.native.ready
         /\ states[a].lod.ready => s.lod.ready
         /\ period = 1 /\ states[a].lod.period = 1 => s.lod.ready
<1> DEFINE o == states[a]
           c == ChangePeriod(o, period)
<1>0. /\ o \in State /\ o.last \in {None} \union (0..(ordinal - 1)) /\ None = -1
      /\ AxisInv(ordinal, o, o.native) /\ AxisInv(ordinal, o, o.lod)
      /\ o.native.period = NativePeriod(flags, a) /\ NativePeriod(flags, a) \in Nat \ {0}
      /\ p[a] \in Nat
      /\ o.native.due % NativePeriod(flags, a) = Residue(flags, phase, a)
      /\ Residue(flags, p, a) = Residue(flags, phase, a)
      /\ Longest(flags) \in Nat
      /\ IF o.last = None THEN o.native.ready /\ o.lod.ready
         ELSE /\ o.native.ready => PassedDeadline(flags, phase, a, o.last + 1, ordinal - 1)
              /\ ~o.native.ready => o.native.due <= o.last + NativePeriod(flags, a)
              /\ ~o.lod.ready => o.lod.due <= o.last + Longest(flags)
  BY Periods DEF Sound, None, Residue
<1>1. PICK due \in Nat :
        /\ c = [last |-> o.last, native |-> o.native,
                lod |-> [period |-> period, ready |-> o.lod.ready,
                         deferred |-> o.lod.deferred, due |-> due]]
        /\ due >= ordinal /\ due <= ordinal + period
        /\ period = o.lod.period => due = o.lod.due
        /\ ~o.lod.ready => due <= o.last + Longest(flags)
  BY ChangePeriodFacts
<1> DEFINE l == [period |-> period, ready |-> o.lod.ready, deferred |-> o.lod.deferred, due |-> due]
           N == Accrue(o.native)
           L == Accrue(l)
<1>2. /\ o.native \in Axis /\ o.lod \in Axis /\ l \in Axis
      /\ l.period = period /\ l.due = due /\ l.ready = o.lod.ready /\ l.deferred = o.lod.deferred
      /\ o.last \in Int /\ o.native.due \in Nat /\ o.native.ready \in BOOLEAN
      /\ o.lod.ready \in BOOLEAN /\ o.native.deferred \in Int /\ o.lod.deferred \in Int
      /\ o.lod.period \in Nat /\ o.lod.due \in Nat
  BY <1>0 DEF State, Axis
<1>3. s = [last |-> o.last, native |-> N, lod |-> L]
  <2>1. s = [c EXCEPT !.native = Accrue(@), !.lod = Accrue(@)]
    BY DEF Entering
  <2>2. c = [last |-> o.last, native |-> o.native, lod |-> l]
    BY <1>1
  <2>3. c.native = o.native /\ c.lod = l
    BY <2>2
  <2>4. s = [[c EXCEPT !.native = N] EXCEPT !.lod = L]
    BY <2>1, <2>2, <2>3
  <2>5. [c EXCEPT !.native = N] = [last |-> o.last, native |-> N, lod |-> l]
    BY <2>2
  <2> HIDE DEF N, L, l, c
  <2> QED
    BY <2>4, <2>5
<1> HIDE DEF c, l, o
<1>4. /\ N \in Axis /\ N.period = NativePeriod(flags, a) /\ N.deferred = o.native.deferred
      /\ IF ordinal < o.native.due THEN N = o.native
         ELSE /\ N.ready /\ N.due \in (ordinal + 1)..(ordinal + NativePeriod(flags, a))
              /\ N.due % NativePeriod(flags, a) = o.native.due % NativePeriod(flags, a)
  BY <1>0, <1>2, AccrueFacts
<1>5. /\ L \in Axis /\ L.period = period /\ L.deferred = o.lod.deferred
      /\ IF ordinal < due THEN L = l
         ELSE L.ready /\ L.due \in (ordinal + 1)..(ordinal + period)
  BY <1>2, AccrueFacts
<1> HIDE DEF N, L
<1>6. s.last = o.last /\ s.native = N /\ s.lod = L /\ s \in State
  BY <1>2, <1>3, <1>4, <1>5 DEF State
<1>7. AxisInv(ordinal + 1, s, N)
  BY <1>0, <1>2, <1>4, <1>6 DEF AxisInv
<1>8. AxisInv(ordinal + 1, s, L)
  BY <1>0, <1>1, <1>2, <1>5, <1>6 DEF AxisInv
<1>9. N.due % NativePeriod(flags, a) = Residue(flags, p, a)
  BY <1>0, <1>4
<1>10. CASE o.last = None
  <2>1. N.ready /\ L.ready
    BY <1>0, <1>2, <1>4, <1>5, <1>10
  <2> QED
    BY <1>0, <1>2, <1>4, <1>5, <1>6, <1>7, <1>8, <1>9, <1>10, <2>1 DEF Entered, Sound, AxisInv, o
<1>11. CASE o.last # None
  <2>1. N.ready => PassedDeadline(flags, p, a, o.last + 1, ordinal)
    <3>1. CASE o.native.ready
      BY <1>0, <1>2, <1>11, <3>1 DEF PassedDeadline
    <3>2. CASE ~o.native.ready /\ ~(ordinal < o.native.due)
      <4>1. o.last < o.native.due
        BY <1>0, <1>2, <1>11 DEF AxisInv
      <4> QED
        BY <1>0, <1>2, <1>11, <3>2, <4>1 DEF PassedDeadline
    <3>3. CASE ~o.native.ready /\ ordinal < o.native.due
      BY <1>4, <3>3
    <3> QED
      BY <3>1, <3>2, <3>3
  <2>2. ~N.ready => N.due <= o.last + NativePeriod(flags, a)
    BY <1>0, <1>2, <1>4, <1>11
  <2>3. ~L.ready => L.due <= o.last + Longest(flags)
    BY <1>1, <1>2, <1>5, <1>11
  <2>4. (o.native.ready => N.ready) /\ (o.lod.ready => L.ready)
    BY <1>2, <1>4, <1>5
  <2>5. period = 1 /\ o.lod.period = 1 => L.ready
    BY <1>0, <1>1, <1>2, <1>5 DEF AxisInv
  <2>6. Sound(flags, p, ordinal + 1, a, s)
    BY <1>0, <1>2, <1>4, <1>5, <1>6, <1>7, <1>8, <1>9, <1>11, <2>1, <2>2, <2>3 DEF Sound
  <2> QED
    BY <1>0, <1>2, <1>4, <1>5, <1>6, <1>11, <2>4, <2>5, <2>6 DEF Entered, AxisInv, o
<1> QED
  BY <1>10, <1>11

LEMMA ConsumeFacts ==
  ASSUME NEW axis \in Axis, NEW c, c = [axis EXCEPT !.ready = FALSE, !.deferred = None]
  PROVE  /\ c \in Axis /\ c.period = axis.period /\ c.due = axis.due
         /\ ~c.ready /\ c.deferred = None
<1>1. None \in Int
  BY DEF None
<1>2. c.ready = FALSE
  BY DEF Axis
<1>3. c.period = axis.period /\ c.due = axis.due /\ c.deferred = None
  BY DEF Axis
<1>4. c \in Axis
  BY <1>1 DEF Axis
<1> QED
  BY <1>2, <1>3, <1>4

\* The decision: a scan takes both opportunities, a deferral neither.
LEMMA DecideFacts ==
  ASSUME flags \in Flags, ordinal \in Nat, NEW p, NEW a \in Attachments, NEW s, Entered(p, a, s),
         NEW up, NEW d, d = Decide(s, a \in up)
  PROVE  /\ Sound(flags, p, ordinal + 1, a, d) /\ d.lod.period = s.lod.period
         /\ IF d.last = s.last
            THEN (s.native.ready => d.native.ready) /\ (s.lod.ready => d.lod.ready)
            ELSE d.last = ordinal /\ s.native.ready
         /\ a \in up => ordinal - d.last < Larger(NativePeriod(flags, a), Longest(flags))
<1>0. /\ s \in State /\ s.last \in {None} \union (0..(ordinal - 1)) /\ None = -1 /\ p[a] \in Nat
      /\ AxisInv(ordinal + 1, s, s.native) /\ AxisInv(ordinal + 1, s, s.lod)
      /\ s.native.period = NativePeriod(flags, a) /\ NativePeriod(flags, a) \in Nat \ {0}
      /\ s.native.due % NativePeriod(flags, a) = Residue(flags, p, a)
      /\ Longest(flags) \in Nat \ {0} /\ s.lod.period <= Longest(flags)
      /\ Larger(NativePeriod(flags, a), Longest(flags)) >= NativePeriod(flags, a)
      /\ Larger(NativePeriod(flags, a), Longest(flags)) >= Longest(flags)
      /\ Larger(NativePeriod(flags, a), Longest(flags)) \in Int
      /\ IF s.last = None THEN s.native.ready /\ s.lod.ready
         ELSE /\ s.native.ready => PassedDeadline(flags, p, a, s.last + 1, ordinal)
              /\ ~s.native.ready => s.native.due <= s.last + NativePeriod(flags, a)
              /\ ~s.lod.ready => s.lod.due <= s.last + Longest(flags)
      /\ s.native.deferred # None => s.native.deferred < ordinal
      /\ s.lod.deferred # None => s.lod.deferred < ordinal
  BY Periods DEF Entered, Sound, None
<1>1. /\ s = [last |-> s.last, native |-> s.native, lod |-> s.lod]
      /\ s.native \in Axis /\ s.lod \in Axis /\ s.last \in Int
      /\ s.native = [period |-> s.native.period, ready |-> s.native.ready,
                     deferred |-> s.native.deferred, due |-> s.native.due]
      /\ s.lod = [period |-> s.lod.period, ready |-> s.lod.ready,
                  deferred |-> s.lod.deferred, due |-> s.lod.due]
      /\ s.native.ready \in BOOLEAN /\ s.native.deferred \in Int /\ s.native.due \in Nat
      /\ s.lod.ready \in BOOLEAN /\ s.lod.deferred \in Int /\ s.lod.due \in Nat
      /\ s.lod.period \in Nat \ {0}
  BY <1>0, StateFacts
<1>2. CASE a \notin up
  <2>1. d = s
    BY <1>2 DEF Decide, Admitted
  <2> QED
    BY <1>2, <2>1 DEF Entered
<1>3. CASE a \in up /\ s.native.ready /\ s.lod.ready
  <2> DEFINE N == [s.native EXCEPT !.ready = FALSE, !.deferred = None]
             L == [s.lod EXCEPT !.ready = FALSE, !.deferred = None]
  <2>1. d = [last |-> ordinal, native |-> N, lod |-> L]
    BY <1>3 DEF Decide, Admitted
  <2>2. /\ N \in Axis /\ N.period = s.native.period /\ N.due = s.native.due
        /\ ~N.ready /\ N.deferred = None
    BY <1>1, ConsumeFacts
  <2>3. /\ L \in Axis /\ L.period = s.lod.period /\ L.due = s.lod.due
        /\ ~L.ready /\ L.deferred = None
    BY <1>1, ConsumeFacts
  <2> HIDE DEF N, L
  <2>4. d \in State /\ d.last = ordinal /\ d.native = N /\ d.lod = L
    BY <2>1, <2>2, <2>3 DEF State
  <2>5. AxisInv(ordinal + 1, d, N) /\ AxisInv(ordinal + 1, d, L)
    BY <1>0, <2>2, <2>3 DEF AxisInv
  <2>6. N.due <= ordinal + NativePeriod(flags, a) /\ L.due <= ordinal + Longest(flags)
    BY <1>0, <1>1, <2>2, <2>3 DEF AxisInv
  <2>7. Sound(flags, p, ordinal + 1, a, d)
    BY <1>0, <2>2, <2>3, <2>4, <2>5, <2>6 DEF Sound
  <2> QED
    <3>1. d.last # s.last /\ ordinal - d.last = 0
      BY <1>0, <1>1, <2>4
    <3>2. 0 < Larger(NativePeriod(flags, a), Longest(flags))
      BY <1>0
    <3> QED
      BY <1>3, <2>3, <2>4, <2>7, <3>1, <3>2
<1>4. CASE a \in up /\ ~(s.native.ready /\ s.lod.ready)
  <2> DEFINE Defer(axis) == IF axis.ready \/ axis.deferred # None THEN axis
                            ELSE [axis EXCEPT !.deferred = ordinal]
             N == Defer(s.native)
             L == Defer(s.lod)
  <2>1. d = [s EXCEPT !.native = Defer(@), !.lod = Defer(@)]
    BY <1>4 DEF Decide, Admitted
  <2>2. d = [last |-> s.last, native |-> N, lod |-> L]
    <3>1. d = [[s EXCEPT !.native = N] EXCEPT !.lod = L]
      BY <1>1, <2>1
    <3>2. [s EXCEPT !.native = N] = [last |-> s.last, native |-> N, lod |-> s.lod]
      BY <1>1
    <3> HIDE DEF N, L
    <3> QED
      BY <3>1, <3>2
  <2>3. /\ N \in Axis /\ N.period = s.native.period /\ N.due = s.native.due
        /\ N.ready = s.native.ready
        /\ N.deferred = s.native.deferred \/ (N.deferred = ordinal /\ ~s.native.ready)
    BY <1>0, <1>1 DEF Axis
  <2>4. /\ L \in Axis /\ L.period = s.lod.period /\ L.due = s.lod.due
        /\ L.ready = s.lod.ready
        /\ L.deferred = s.lod.deferred \/ (L.deferred = ordinal /\ ~s.lod.ready)
    BY <1>0, <1>1 DEF Axis
  <2> HIDE DEF N, L
  <2>5. d \in State /\ d.last = s.last /\ d.native = N /\ d.lod = L /\ s.last # None
    <3>1. s.last # None
      BY <1>0, <1>4
    <3> QED
      BY <1>1, <2>2, <2>3, <2>4, <3>1 DEF State
  <2>6. AxisInv(ordinal + 1, d, N) /\ AxisInv(ordinal + 1, d, L)
    BY <1>0, <1>1, <2>3, <2>4, <2>5 DEF AxisInv
  <2>7. Sound(flags, p, ordinal + 1, a, d)
    BY <1>0, <1>1, <2>3, <2>4, <2>5, <2>6 DEF Sound
  <2>8. ordinal - d.last < Larger(NativePeriod(flags, a), Longest(flags))
    <3>1. CASE ~s.native.ready
      <4>1. s.native.due >= ordinal + 1 /\ s.native.due <= s.last + NativePeriod(flags, a)
        BY <1>0, <2>5, <3>1 DEF AxisInv
      <4> QED
        BY <1>0, <1>1, <2>5, <4>1
    <3>2. CASE ~s.lod.ready
      <4>1. s.lod.due >= ordinal + 1 /\ s.lod.due <= s.last + Longest(flags)
        BY <1>0, <2>5, <3>2 DEF AxisInv
      <4> QED
        BY <1>0, <1>1, <2>5, <4>1
    <3> QED
      BY <1>4, <3>1, <3>2
  <2> QED
    BY <2>3, <2>4, <2>5, <2>7, <2>8
<1> QED
  BY <1>2, <1>3, <1>4

\* A witness promotion after the decision.
LEMMA PromoteFacts ==
  ASSUME flags \in Flags, ordinal \in Nat, NEW p, NEW a \in Attachments, NEW s,
         Sound(flags, p, ordinal + 1, a, s),
         NEW c, c = ChangePeriod(s, 1)
  PROVE  /\ Sound(flags, p, ordinal + 1, a, c) /\ c.lod.period = 1
         /\ c.last = s.last /\ c.native = s.native /\ c.lod.ready = s.lod.ready
<1>0. /\ s \in State /\ s.last \in {None} \union (0..ordinal) /\ None = -1 /\ p[a] \in Nat
      /\ AxisInv(ordinal + 1, s, s.native) /\ AxisInv(ordinal + 1, s, s.lod)
      /\ Longest(flags) \in Nat \ {0} /\ 1 \in Nat \ {0} /\ 1 <= Longest(flags)
      /\ ordinal + 1 \in {ordinal, ordinal + 1}
  BY Periods DEF Sound, None
<1>1. PICK due \in Nat :
        /\ c = [last |-> s.last, native |-> s.native,
                lod |-> [period |-> 1, ready |-> s.lod.ready,
                         deferred |-> s.lod.deferred, due |-> due]]
        /\ due >= ordinal + 1 /\ due <= ordinal + 1
        /\ ~s.lod.ready => due <= s.last + Longest(flags)
  BY <1>0, ChangePeriodFacts
<1>2. /\ s.native \in Axis /\ s.last \in Int
      /\ s.lod.ready \in BOOLEAN /\ s.lod.deferred \in Int /\ s.native.deferred \in Int
  BY <1>0, StateFacts
<1>3. c \in State
  BY <1>0, <1>1, <1>2 DEF State, Axis
<1>4. /\ c.lod.period = 1 /\ c.lod.due = due /\ c.lod.ready = s.lod.ready
      /\ c.lod.deferred = s.lod.deferred /\ c.last = s.last /\ c.native = s.native
  BY <1>1
<1>5. AxisInv(ordinal + 1, c, c.native)
  BY <1>0, <1>4 DEF AxisInv
<1>6. AxisInv(ordinal + 1, c, c.lod)
  BY <1>0, <1>1, <1>2, <1>4 DEF AxisInv
<1>7. Sound(flags, p, ordinal + 1, a, c)
  BY <1>0, <1>1, <1>3, <1>4, <1>5, <1>6 DEF Sound
<1> QED
  BY <1>4, <1>7

\* A unit's tier: one that was just promoted is not demoted at once.
LEMMA ClassifyFacts ==
  ASSUME lod \in Tiers, NEW u \in Units, NEW seen \in Tier
  PROVE  /\ Classify(u, seen) \in [tier : Tier, pending : Tier \union {Unseen},
                                   count : 0..Larger(1, Hysteresis - 1)]
         /\ lod[u].tier = "active" /\ lod[u].pending = Unseen => Classify(u, seen).tier = "active"
<1> DEFINE raw == IF u \in damaged THEN "active" ELSE seen
           old == lod[u]
           again == IF old.pending = raw THEN old.count + 1 ELSE 1
           Settled == [tier |-> raw, pending |-> Unseen, count |-> 0]
           limit == Larger(1, Hysteresis - 1)
<1>1. /\ raw \in Tier /\ Hysteresis \in Nat \ {0} /\ Unseen \notin Tier
      /\ old \in [tier : Tier \union {Unseen}, pending : Tier \union {Unseen}, count : 0..limit]
  BY PeriodsAssumption DEF Tiers, Tier, Unseen
<1>2. limit \in Nat /\ limit >= 1 /\ limit >= Hysteresis - 1
  <2>1. 1 \in Int /\ Hysteresis - 1 \in Int
    BY <1>1
  <2> QED
    BY <2>1 DEF Larger
<1> HIDE DEF limit
<1>3. Settled \in [tier : Tier, pending : Tier \union {Unseen}, count : 0..limit]
  BY <1>1, <1>2
<1>4. CASE old.tier = Unseen
  <2>1. Classify(u, seen) = Settled
    BY <1>4 DEF Classify
  <2> QED
    BY <1>3, <1>4, <2>1 DEF limit, Unseen
<1>5. CASE old.tier # Unseen /\ Rank[raw] <= Rank[old.tier]
  <2>1. Classify(u, seen) = Settled
    BY <1>5 DEF Classify
  <2>2. old.tier = "active" => raw = "active"
    BY <1>1, <1>5 DEF Rank, Tier
  <2> QED
    BY <1>3, <2>1, <2>2 DEF limit
<1>6. CASE old.tier # Unseen /\ ~(Rank[raw] <= Rank[old.tier])
  <2>1. Classify(u, seen) = IF again > 1 /\ again >= Hysteresis THEN Settled
                            ELSE [old EXCEPT !.pending = raw, !.count = again]
    BY <1>6 DEF Classify
  <2>2. again \in Nat /\ again >= 1
    BY <1>1, <1>2
  <2>3. ~(again > 1 /\ again >= Hysteresis) => again \in 0..limit
    BY <1>1, <1>2, <2>2
  <2>4. [old EXCEPT !.pending = raw, !.count = again] =
          [tier |-> old.tier, pending |-> raw, count |-> again]
    <3>1. [old EXCEPT !.pending = raw, !.count = again] =
            [[old EXCEPT !.pending = raw] EXCEPT !.count = again]
      BY <1>1
    <3>2. [old EXCEPT !.pending = raw] = [tier |-> old.tier, pending |-> raw, count |-> old.count]
      BY <1>1
    <3> DEFINE e == [old EXCEPT !.pending = raw]
    <3> HIDE DEF raw, again, old, e
    <3>3. e = [tier |-> old.tier, pending |-> raw, count |-> old.count]
      BY <3>2 DEF e
    <3>4. [e EXCEPT !.count = again] = [tier |-> old.tier, pending |-> raw, count |-> again]
      BY <3>3
    <3> QED
      BY <3>1, <3>4 DEF e
  <2>5. old.tier \in Tier
    BY <1>1, <1>6
  <2>6. old.pending = Unseen => again = 1
    BY <1>1
  <2> HIDE DEF again, raw, old
  <2>7. Classify(u, seen) \in [tier : Tier, pending : Tier \union {Unseen}, count : 0..limit]
    BY <1>1, <1>3, <2>1, <2>3, <2>4, <2>5
  <2>8. old.tier = "active" /\ old.pending = Unseen => Classify(u, seen).tier = "active"
    BY <2>1, <2>2, <2>4, <2>6
  <2> QED
    BY <2>7, <2>8 DEF limit, old
<1> QED
  BY <1>4, <1>5, <1>6

-----------------------------------------------------------------------------
(* The phase registry.                                                     *)

LEMMA PhaseFacts ==
  ASSUME NEW p, PhaseInv(p)
  PROVE  /\ IsFiniteSet(Attachments) /\ Assigned(p) \subseteq Attachments
         /\ \A a \in Attachments : p[a] \in Int /\ (a \in Assigned(p) <=> p[a] \in Nat)
         /\ \A g : Group(p, g) \subseteq Attachments /\ IsFiniteSet(Group(p, g))
                   /\ Cardinality(Group(p, g)) \in Nat
<1>1. IsFiniteSet(Attachments)
  BY AttachmentsAssumption
<1>2. Assigned(p) \subseteq Attachments
  BY DEF Assigned
<1>3. \A a \in Attachments : p[a] \in Int /\ (a \in Assigned(p) <=> p[a] \in Nat)
  BY DEF PhaseInv, Assigned, None
<1>4. ASSUME NEW g
      PROVE  Group(p, g) \subseteq Attachments /\ IsFiniteSet(Group(p, g))
             /\ Cardinality(Group(p, g)) \in Nat
  <2>1. Group(p, g) \subseteq Attachments
    BY <1>2 DEF Group
  <2> QED
    BY <1>1, <2>1, FS_Subset, FS_CardinalityType
<1> QED
  BY <1>1, <1>2, <1>3, <1>4

\* The next ordinal after those of a list.
LEMMA NextOrdinal ==
  ASSUME NEW k \in Nat
  PROVE  (CHOOSE n \in {0} \union {m + 1 : m \in 0..(k - 1)} : \A m \in 0..(k - 1) : m < n) = k
<1>1. k \in {0} \union {m + 1 : m \in 0..(k - 1)}
  <2>1. k # 0 => k - 1 \in 0..(k - 1) /\ k = (k - 1) + 1
    OBVIOUS
  <2> QED
    BY <2>1
<1>2. \A m \in 0..(k - 1) : m < k
  OBVIOUS
<1>3. ASSUME NEW n \in {0} \union {m + 1 : m \in 0..(k - 1)}, \A m \in 0..(k - 1) : m < n
      PROVE  n = k
  <2>1. n \in 0..k
    OBVIOUS
  <2>2. n < k => n \in 0..(k - 1)
    BY <2>1
  <2> QED
    BY <1>3, <2>1, <2>2
<1> QED
  BY <1>1, <1>2, <1>3

\* The attachments of a group that are new, and a new one's place among them.
Newcomers(roster, g) == {b \in roster \ Assigned(phase) : GroupOf[b] = g}
Place(roster, a) == Cardinality({b \in Newcomers(roster, GroupOf[a]) : b < a})

\* The places of the newcomers are those of a list.
LEMMA PlaceFacts ==
  ASSUME NEW roster \in SUBSET Attachments, NEW g
  PROVE  LET N == Newcomers(roster, g) IN
         /\ IsFiniteSet(N) /\ Cardinality(N) \in Nat
         /\ \A a \in N : Place(roster, a) \in 0..(Cardinality(N) - 1)
         /\ \A a, b \in N : Place(roster, a) = Place(roster, b) => a = b
         /\ \A k \in 0..(Cardinality(N) - 1) : \E a \in N : Place(roster, a) = k
<1> DEFINE N == Newcomers(roster, g)
           n == Cardinality(N)
           Below(a) == {b \in N : b < a}
           f == [a \in N |-> Place(roster, a)]
<1>1. N \subseteq Attachments /\ IsFiniteSet(N) /\ n \in Nat /\ \A a \in N : a \in Int
  <2>1. N \subseteq Attachments /\ IsFiniteSet(Attachments) /\ Attachments \subseteq Int
    BY AttachmentsAssumption DEF Newcomers
  <2> QED
    BY <2>1, FS_Subset, FS_CardinalityType
<1>2. ASSUME NEW a \in N
      PROVE  /\ Place(roster, a) = Cardinality(Below(a)) /\ IsFiniteSet(Below(a))
             /\ Place(roster, a) \in 0..(n - 1)
  <2>1. Place(roster, a) = Cardinality(Below(a))
    BY DEF Place, Newcomers
  <2>2. Below(a) \in SUBSET N /\ a \notin Below(a)
    BY <1>1
  <2>3. /\ IsFiniteSet(Below(a)) /\ Cardinality(Below(a)) <= n
        /\ (n = Cardinality(Below(a)) => N = Below(a))
    BY <1>1, <2>2, FS_Subset
  <2>4. Cardinality(Below(a)) \in Nat
    BY <2>3, FS_CardinalityType
  <2> HIDE DEF Below, n
  <2> QED
    BY <1>1, <2>1, <2>2, <2>3, <2>4
<1>3. ASSUME NEW a \in N, NEW b \in N, a < b
      PROVE  Place(roster, a) < Place(roster, b)
  <2>1. Below(a) \in SUBSET Below(b) /\ a \in Below(b) /\ a \notin Below(a)
    BY <1>1, <1>3
  <2>2. /\ Cardinality(Below(a)) <= Cardinality(Below(b))
        /\ (Cardinality(Below(b)) = Cardinality(Below(a)) => Below(b) = Below(a))
    BY <1>2, <2>1, FS_Subset
  <2>3. Cardinality(Below(a)) \in Nat /\ Cardinality(Below(b)) \in Nat
    BY <1>2, FS_CardinalityType
  <2> HIDE DEF Below
  <2> QED
    BY <1>2, <2>1, <2>2, <2>3
<1>4. \A a, b \in N : Place(roster, a) = Place(roster, b) => a = b
  <2> SUFFICES ASSUME NEW a \in N, NEW b \in N, Place(roster, a) = Place(roster, b), a # b
               PROVE  FALSE
    OBVIOUS
  <2>1. a < b \/ b < a
    BY <1>1
  <2>2. Place(roster, a) \in Int /\ Place(roster, b) \in Int
    <3>1. Place(roster, a) \in 0..(n - 1) /\ Place(roster, b) \in 0..(n - 1)
      BY <1>2
    <3> HIDE DEF n
    <3> QED
      BY <3>1
  <2> HIDE DEF N
  <2> QED
    BY <1>3, <2>1, <2>2
<1>5. f \in [N -> 0..(n - 1)]
  BY <1>2
<1>6. f \in Injection(N, 0..(n - 1))
  <2>1. \A a, b \in N : f[a] = f[b] => a = b
    BY <1>4
  <2> HIDE DEF f
  <2> QED
    BY <1>5, <2>1, Fun_IsInj
<1>7. IsFiniteSet(0..(n - 1)) /\ Cardinality(0..(n - 1)) = n
  BY <1>1, FS_Interval
<1>8. f \in Surjection(N, 0..(n - 1))
  BY <1>6, <1>7, FS_Injection
<1>9. \A k \in 0..(n - 1) : \E a \in N : f[a] = k
  <2> HIDE DEF f, N, n
  <2> QED
    BY <1>8 DEF Surjection
<1>10. \A k \in 0..(n - 1) : \E a \in N : Place(roster, a) = k
  BY <1>9
<1> QED
  BY <1>1, <1>2, <1>4, <1>10

\* New attachments continue the list of their group; nobody else's place changes.
LEMMA AssignFacts ==
  ASSUME PhaseInv(phase), NEW roster \in SUBSET Attachments, NEW p, p = Assign(roster)
  PROVE  /\ PhaseInv(p)
         /\ \A a \in Assigned(phase) : p[a] = phase[a]
         /\ \A a \in roster : p[a] \in Nat
<1> DEFINE new == roster \ Assigned(phase)
           old(g) == Cardinality(Group(phase, g))
<1>0. /\ new \subseteq Attachments /\ Assigned(phase) \subseteq Attachments
      /\ \A a \in Attachments : phase[a] \in Int /\ (a \in Assigned(phase) <=> phase[a] \in Nat)
      /\ \A g : old(g) \in Nat /\ IsFiniteSet(Group(phase, g))
      /\ phase \in [Attachments -> {None} \union Nat] /\ None = -1
  BY PhaseFacts DEF PhaseInv, None
<1>1. ASSUME NEW a \in new
      PROVE  p[a] = old(GroupOf[a]) + Place(roster, a)
  <2> DEFINE taken == {phase[b] : b \in {c \in Assigned(phase) : GroupOf[c] = GroupOf[a]}}
             next == CHOOSE n \in {0} \union {m + 1 : m \in taken} : \A m \in taken : m < n
  <2>1. a \in Attachments
    BY <1>0
  <2>2. taken = 0..(old(GroupOf[a]) - 1)
    BY <2>1 DEF PhaseInv, Group
  <2>3. next = old(GroupOf[a])
    <3>1. old(GroupOf[a]) \in Nat
      BY <1>0
    <3> HIDE DEF old, taken
    <3> QED
      BY <2>2, <3>1, NextOrdinal
  <2>4. {b \in new : GroupOf[b] = GroupOf[a] /\ b < a} =
          {b \in Newcomers(roster, GroupOf[a]) : b < a}
    BY DEF Newcomers
  <2>5. p[a] = next + Cardinality({b \in new : GroupOf[b] = GroupOf[a] /\ b < a})
    BY <2>1, Zenon DEF Assign
  <2> QED
    BY <2>3, <2>4, <2>5 DEF Place
<1>2. \A a \in Attachments \ new : p[a] = phase[a]
  BY DEF Assign
<1>3. ASSUME NEW a \in new
      PROVE  /\ a \in Newcomers(roster, GroupOf[a]) /\ Place(roster, a) \in Nat
             /\ p[a] \in Nat /\ p[a] >= old(GroupOf[a])
  <2>1. a \in Newcomers(roster, GroupOf[a])
    BY DEF Newcomers
  <2>2. Place(roster, a) \in Nat
    BY <2>1, PlaceFacts
  <2>3. old(GroupOf[a]) \in Nat
    BY <1>0
  <2> HIDE DEF old
  <2> QED
    BY <1>1, <2>1, <2>2, <2>3
<1>4. p \in [Attachments -> {None} \union Nat]
  <2>1. \A a \in Attachments : p[a] \in {None} \union Nat
    BY <1>0, <1>2, <1>3
  <2>2. p = [a \in Attachments |-> p[a]]
    BY DEF Assign
  <2> QED
    BY <2>1, <2>2
<1>5. Assigned(p) = Assigned(phase) \union new
  BY <1>0, <1>2, <1>3 DEF Assigned
<1>6. \A g : Group(p, g) = Group(phase, g) \union Newcomers(roster, g)
  BY <1>5 DEF Group, Newcomers
<1>7. \A a \in Assigned(phase) : p[a] = phase[a] /\ p[a] \in 0..(old(GroupOf[a]) - 1)
  <2> SUFFICES ASSUME NEW a \in Assigned(phase)
               PROVE  p[a] = phase[a] /\ p[a] \in 0..(old(GroupOf[a]) - 1)
    OBVIOUS
  <2>1. p[a] = phase[a] /\ a \in Attachments
    BY <1>0, <1>2
  <2>2. {phase[b] : b \in Group(phase, GroupOf[a])} = 0..(old(GroupOf[a]) - 1)
    BY <2>1 DEF PhaseInv
  <2>3. a \in Group(phase, GroupOf[a])
    BY DEF Group
  <2> HIDE DEF old
  <2> QED
    BY <2>1, <2>2, <2>3
<1>8. ASSUME NEW a \in Assigned(p), NEW b \in Assigned(p), GroupOf[a] = GroupOf[b], p[a] = p[b]
      PROVE  a = b
  <2>0. old(GroupOf[a]) \in Nat
    BY <1>0
  <2>1. CASE a \in new /\ b \in new
    <3>1. Place(roster, a) = Place(roster, b)
      BY <1>1, <1>3, <1>8, <2>0, <2>1
    <3> QED
      BY <1>3, <1>8, <2>1, <3>1, PlaceFacts
  <2>2. CASE a \in new /\ b \in Assigned(phase)
    BY <1>3, <1>7, <1>8, <2>0, <2>2
  <2>3. CASE a \in Assigned(phase) /\ b \in new
    BY <1>3, <1>7, <1>8, <2>0, <2>3
  <2>4. CASE a \in Assigned(phase) /\ b \in Assigned(phase)
    BY <1>7, <1>8, <2>4 DEF PhaseInv
  <2> QED
    BY <1>5, <2>1, <2>2, <2>3, <2>4
<1>9. ASSUME NEW c \in Attachments
      PROVE  {p[b] : b \in Group(p, GroupOf[c])} = 0..(Cardinality(Group(p, GroupOf[c])) - 1)
  <2> DEFINE g == GroupOf[c]
             O == Group(phase, g)
             N == Newcomers(roster, g)
             m == Cardinality(O)
             n == Cardinality(N)
  <2>1. /\ m \in Nat /\ n \in Nat /\ IsFiniteSet(O) /\ IsFiniteSet(N)
        /\ \A a \in N : Place(roster, a) \in 0..(n - 1)
        /\ \A k \in 0..(n - 1) : \E a \in N : Place(roster, a) = k
    BY <1>0, PlaceFacts
  <2>2. Group(p, g) = O \union N /\ O \intersect N = {}
    BY <1>6 DEF Group, Newcomers
  <2>3. Cardinality(Group(p, g)) = m + n
    <3>1. Cardinality(O \union N) = m + n - Cardinality(O \intersect N)
      BY <2>1, FS_Union, Zenon
    <3>2. Cardinality(O \intersect N) = 0
      BY <2>2, FS_EmptySet
    <3> HIDE DEF m, n, O, N
    <3> QED
      BY <2>1, <2>2, <3>1, <3>2
  <2>4. \A a \in N : p[a] = m + Place(roster, a)
    BY <1>1 DEF Newcomers
  <2>5. {phase[b] : b \in O} = 0..(m - 1)
    BY DEF PhaseInv
  <2>6. \A a \in O : p[a] = phase[a]
    BY <1>7 DEF Group
  <2> HIDE DEF O, N, m, n
  <2>7. \A a \in O : p[a] \in 0..(m - 1)
    BY <2>5, <2>6
  <2>8. ASSUME NEW a \in O \union N PROVE p[a] \in 0..(m + n - 1)
    <3>1. CASE a \in O
      BY <2>1, <2>7, <3>1
    <3>2. CASE a \in N
      BY <2>1, <2>4, <3>2
    <3> QED
      BY <3>1, <3>2
  <2>9. ASSUME NEW k \in 0..(m + n - 1) PROVE \E a \in O \union N : p[a] = k
    <3>1. CASE k < m
      <4>1. k \in 0..(m - 1)
        BY <2>1, <3>1
      <4>2. PICK a \in O : phase[a] = k
        BY <2>5, <4>1
      <4> QED
        BY <2>6, <4>2
    <3>2. CASE k >= m
      <4>1. k - m \in 0..(n - 1)
        BY <2>1, <3>2
      <4>2. PICK a \in N : Place(roster, a) = k - m
        BY <2>1, <4>1
      <4> QED
        BY <2>1, <2>4, <4>1, <4>2
    <3> QED
      BY <2>1, <3>1, <3>2
  <2>10. {p[b] : b \in Group(p, g)} = 0..(m + n - 1)
    BY <2>2, <2>8, <2>9
  <2> QED
    BY <2>1, <2>3, <2>10
<1>10. PhaseInv(p)
  BY <1>4, <1>8, <1>9 DEF PhaseInv
<1>11. \A a \in roster : p[a] \in Nat
  BY <1>0, <1>3, <1>7
<1> QED
  BY <1>7, <1>10, <1>11

-----------------------------------------------------------------------------
(* The steps.                                                              *)

LEMMA InitEstablishesInv == Init => IInv
<1> SUFFICES ASSUME Init PROVE IInv
  OBVIOUS
<1>0. /\ flags \in Flags
      /\ ordinal = 0 /\ phase = [a \in Attachments |-> None] /\ states = [a \in {} |-> None]
      /\ lod = [u \in Units |-> [tier |-> Unseen, pending |-> Unseen, count |-> 0]]
      /\ damaged = {} /\ owed = {} /\ staging = FALSE /\ poisoned = FALSE
  BY DEF Init
<1>1. Assigned(phase) = {} /\ DOMAIN states = {}
  BY <1>0 DEF Assigned
<1>2. PhaseInv(phase)
  <2>1. \A g : Group(phase, g) = {}
    BY <1>1 DEF Group
  <2>2. Cardinality({}) = 0 /\ 0..(0 - 1) = {}
    BY FS_EmptySet
  <2> QED
    BY <1>0, <1>1, <2>1, <2>2 DEF PhaseInv
<1>3. lod \in Tiers
  <2>1. 0 \in 0..Larger(1, Hysteresis - 1)
    BY PeriodsAssumption DEF Larger
  <2> QED
    BY <1>0, <2>1 DEF Tiers
<1>4. 0 \in 0..MaxOrdinal
  BY PeriodsAssumption
<1>5. StatesInv /\ OwedInv
  BY <1>0, <1>1 DEF StatesInv, OwedInv
<1>6. NotStarved /\ PromotionServed
  BY <1>0 DEF NotStarved, PromotionServed
<1> QED
  BY <1>0, <1>1, <1>2, <1>3, <1>4, <1>5, <1>6 DEF IInv

\* What the interval decides for one attachment of the staged roster.
LEMMA StagedFacts ==
  ASSUME IInv, NEW a \in Attachments, NEW p, p[a] \in Nat,
         a \in Assigned(phase) => p[a] = phase[a],
         NEW period \in Nat \ {0}, period <= Longest(flags),
         NEW s, s = Entering(p, a, period), NEW up, NEW d, d = Decide(s, a \in up)
  PROVE  /\ Sound(flags, p, ordinal + 1, a, d) /\ d.lod.period = period
         /\ a \in up => ordinal - d.last < Larger(NativePeriod(flags, a), Longest(flags))
         /\ a \in DOMAIN states =>
              /\ IF d.last = states[a].last
                 THEN /\ states[a].native.ready => d.native.ready
                      /\ states[a].lod.ready => d.lod.ready
                 ELSE states[a].last # None =>
                        PassedDeadline(flags, phase, a, states[a].last + 1, ordinal)
              /\ period = 1 /\ states[a].lod.period = 1 => s.lod.ready
<1>0. ordinal \in Nat /\ flags \in Flags
  BY PeriodsAssumption DEF IInv
<1>1. CASE a \notin DOMAIN states
  <2>1. s = Fresh(p, a, period)
    BY <1>1 DEF Entering
  <2>2. Entered(p, a, s) /\ s.lod.period = period
    BY <1>0, <2>1, FreshFacts
  <2> QED
    BY <1>0, <1>1, <2>2, DecideFacts
<1>2. CASE a \in DOMAIN states
  <2>0. Sound(flags, phase, ordinal, a, states[a]) /\ phase[a] \in Nat
    BY <1>2 DEF IInv, StatesInv, Sound
  <2>1. p[a] = phase[a]
    BY <2>0 DEF Assigned, None
  <2>2. /\ Entered(p, a, s) /\ s.lod.period = period
        /\ s.last = states[a].last
        /\ states[a].native.ready => s.native.ready
        /\ states[a].lod.ready => s.lod.ready
        /\ period = 1 /\ states[a].lod.period = 1 => s.lod.ready
    BY <1>0, <1>2, <2>0, <2>1, StayingFacts
  <2>3. /\ Sound(flags, p, ordinal + 1, a, d) /\ d.lod.period = s.lod.period
        /\ IF d.last = s.last
           THEN (s.native.ready => d.native.ready) /\ (s.lod.ready => d.lod.ready)
           ELSE d.last = ordinal /\ s.native.ready
        /\ a \in up => ordinal - d.last < Larger(NativePeriod(flags, a), Longest(flags))
    BY <1>0, <2>2, DecideFacts
  <2>4. s.last # None /\ s.native.ready => PassedDeadline(flags, phase, a, s.last + 1, ordinal)
    <3>1. s.last # None /\ s.native.ready =>
            PassedDeadline(flags, p, a, s.last + 1, ordinal + 1 - 1)
      <4>1. Sound(flags, p, ordinal + 1, a, s)
        BY <2>2 DEF Entered
      <4> QED
        BY <1>0, <4>1 DEF Sound, PassedDeadline
    <3>2. Residue(flags, p, a) = Residue(flags, phase, a) /\ ordinal + 1 - 1 = ordinal
      BY <1>0, <2>1 DEF Residue
    <3> QED
      BY <3>1, <3>2 DEF PassedDeadline
  <2> QED
    BY <2>2, <2>3, <2>4
<1> QED
  BY <1>1, <1>2

\* Staging publishes nothing; its plan is what a commit may publish.
LEMMA StageKeepsInv ==
  ASSUME IInv, Stage
  PROVE  IInv'
<1>1. PICK active \in SUBSET Units : \E seen \in [active -> Tier] :
        LET roster == {a \in Attachments : UnitOf[a] \in active}
            tiers == [u \in Units |-> IF flags.lod /\ u \in active THEN Classify(u, seen[u])
                                      ELSE lod[u]]
            p == Assign(roster)
            entering == [a \in roster |-> Entering(p, a, LodPeriod(flags, tiers[UnitOf[a]].tier))]
        IN \E up \in SUBSET roster :
             plan' = [phase |-> p, tiers |-> tiers, up |-> up,
                      states |-> [a \in roster |-> Decide(entering[a], a \in up)],
                      lodReady |-> {a \in roster : entering[a].lod.ready},
                      promoted |-> {}]
  BY Zenon DEF Stage
<1>2. PICK seen \in [active -> Tier] :
        LET roster == {a \in Attachments : UnitOf[a] \in active}
            tiers == [u \in Units |-> IF flags.lod /\ u \in active THEN Classify(u, seen[u])
                                      ELSE lod[u]]
            p == Assign(roster)
            entering == [a \in roster |-> Entering(p, a, LodPeriod(flags, tiers[UnitOf[a]].tier))]
        IN \E up \in SUBSET roster :
             plan' = [phase |-> p, tiers |-> tiers, up |-> up,
                      states |-> [a \in roster |-> Decide(entering[a], a \in up)],
                      lodReady |-> {a \in roster : entering[a].lod.ready},
                      promoted |-> {}]
  BY <1>1, Zenon
<1> DEFINE roster == {a \in Attachments : UnitOf[a] \in active}
<1>3. PICK tiers, p :
        /\ tiers = [u \in Units |-> IF flags.lod /\ u \in active THEN Classify(u, seen[u])
                                  ELSE lod[u]]
        /\ p = Assign(roster)
  OBVIOUS
<1>4. PICK entering :
        entering = [a \in roster |-> Entering(p, a, LodPeriod(flags, tiers[UnitOf[a]].tier))]
  OBVIOUS
<1>5. PICK up \in SUBSET roster :
        plan' = [phase |-> p, tiers |-> tiers, up |-> up,
                 states |-> [a \in roster |-> Decide(entering[a], a \in up)],
                 lodReady |-> {a \in roster : entering[a].lod.ready},
                 promoted |-> {}]
  BY <1>2, <1>3, <1>4, Zenon
<1>6. PICK decided, ready :
        /\ decided = [a \in roster |-> Decide(entering[a], a \in up)]
        /\ ready = {a \in roster : entering[a].lod.ready}
  OBVIOUS
<1>7. /\ plan' = [phase |-> p, tiers |-> tiers, up |-> up, states |-> decided,
                  lodReady |-> ready, promoted |-> {}]
      /\ plan'.phase = p /\ plan'.tiers = tiers /\ plan'.up = up /\ plan'.states = decided
      /\ plan'.lodReady = ready /\ plan'.promoted = {}
  <2>1. plan' = [phase |-> p, tiers |-> tiers, up |-> up, states |-> decided,
                 lodReady |-> ready, promoted |-> {}]
    BY <1>5, <1>6, Zenon
  <2> QED
    BY <2>1
<1>8. /\ ~staging /\ staging' = TRUE /\ ordinal < MaxOrdinal /\ ordinal \in Nat /\ flags \in Flags
      /\ UNCHANGED <<flags, ordinal, phase, states, lod, owed, damaged, poisoned>>
  <2>1. ~staging /\ staging' = TRUE /\ ordinal < MaxOrdinal
    BY Zenon DEF Stage
  <2>2. UNCHANGED <<cadenceVars, damaged, poisoned>>
    BY Zenon DEF Stage
  <2>3. ordinal \in Nat /\ flags \in Flags
    BY PeriodsAssumption DEF IInv
  <2> QED
    BY <2>1, <2>2, <2>3 DEF cadenceVars
<1>9. /\ roster \in SUBSET Attachments /\ DOMAIN decided = roster
      /\ \A a \in roster : decided[a] = Decide(entering[a], a \in up)
      /\ \A a \in roster : a \in ready <=> entering[a].lod.ready
      /\ \A a \in roster : UnitOf[a] \in active /\ UnitOf[a] \in Units /\ a \in Attachments
  BY <1>6, <1>8, Periods
<1>10. /\ PhaseInv(p) /\ \A a \in Assigned(phase) : p[a] = phase[a]
       /\ \A a \in roster : p[a] \in Nat
  BY <1>3, <1>9, AssignFacts DEF IInv
<1>11. /\ tiers \in Tiers
       /\ \A u \in active : u \in owed => tiers[u].tier = "active"
  <2> DEFINE Tiered == [tier : Tier \union {Unseen}, pending : Tier \union {Unseen},
                        count : 0..Larger(1, Hysteresis - 1)]
  <2>1. ASSUME NEW u \in Units
        PROVE  tiers[u] \in Tiered /\ (u \in owed => tiers[u].tier = "active")
    <3>1. lod[u] \in Tiered /\ (u \in owed => lod[u].tier = "active" /\ lod[u].pending = Unseen)
      BY DEF IInv, Tiers, OwedInv
    <3>2. CASE flags.lod /\ u \in active
      <4>1. tiers[u] = Classify(u, seen[u]) /\ seen[u] \in Tier
        BY <1>3, <3>2
      <4>2. /\ Classify(u, seen[u]) \in [tier : Tier, pending : Tier \union {Unseen},
                                          count : 0..Larger(1, Hysteresis - 1)]
            /\ u \in owed => Classify(u, seen[u]).tier = "active"
        BY <3>1, <4>1, ClassifyFacts DEF IInv
      <4> QED
        BY <4>1, <4>2
    <3>3. CASE ~(flags.lod /\ u \in active)
      <4>1. tiers[u] = lod[u]
        BY <1>3, <3>3
      <4> QED
        BY <3>1, <4>1
    <3> QED
      BY <3>2, <3>3
  <2>2. tiers = [u \in Units |-> tiers[u]]
    BY <1>3
  <2> QED
    BY <2>1, <2>2 DEF Tiers
<1>12. ASSUME NEW a \in roster
       PROVE  LET period == LodPeriod(flags, tiers[UnitOf[a]].tier) IN
              /\ Sound(flags, p, ordinal + 1, a, decided[a]) /\ decided[a].lod.period = period
              /\ a \in up =>
                   ordinal - decided[a].last < Larger(NativePeriod(flags, a), Longest(flags))
              /\ a \in DOMAIN states =>
                   /\ IF decided[a].last = states[a].last
                      THEN /\ states[a].native.ready => decided[a].native.ready
                           /\ states[a].lod.ready => decided[a].lod.ready
                      ELSE states[a].last # None =>
                             PassedDeadline(flags, phase, a, states[a].last + 1, ordinal)
                   /\ period = 1 /\ states[a].lod.period = 1 => entering[a].lod.ready
  <2>1. PICK period : period = LodPeriod(flags, tiers[UnitOf[a]].tier)
    OBVIOUS
  <2>2. period \in Nat \ {0} /\ period <= Longest(flags)
    BY <1>8, <1>9, <1>11, <2>1, Periods
  <2>3. PICK s : s = entering[a] /\ s = Entering(p, a, period)
    BY <1>4, <2>1
  <2>4. PICK d : d = decided[a] /\ d = Decide(s, a \in up)
    BY <1>9, <2>3
  <2>5. /\ Sound(flags, p, ordinal + 1, a, d) /\ d.lod.period = period
        /\ a \in up => ordinal - d.last < Larger(NativePeriod(flags, a), Longest(flags))
        /\ a \in DOMAIN states =>
             /\ IF d.last = states[a].last
                THEN /\ states[a].native.ready => d.native.ready
                     /\ states[a].lod.ready => d.lod.ready
                ELSE states[a].last # None =>
                        PassedDeadline(flags, phase, a, states[a].last + 1, ordinal)
             /\ period = 1 /\ states[a].lod.period = 1 => s.lod.ready
    BY <1>9, <1>10, <2>2, <2>3, <2>4, StagedFacts
  <2> QED
    BY <2>1, <2>3, <2>4, <2>5, Zenon
<1> HIDE DEF roster
<1>13. PlanInv'
  <2>1. \A a \in DOMAIN decided :
          /\ Sound(flags, p, ordinal + 1, a, decided[a])
          /\ decided[a].lod.period = LodPeriod(flags, tiers[UnitOf[a]].tier)
    BY <1>9, <1>11, <1>12
  <2>2. \A a \in DOMAIN states \intersect DOMAIN decided : PlanFollows(a)'
    BY <1>7, <1>8, <1>9, <1>12 DEF PlanFollows
  <2> QED
    BY <1>7, <1>8, <1>9, <1>10, <1>11, <2>1, <2>2 DEF PlanInv
<1>14. NotStarved'
  BY <1>7, <1>8, <1>9, <1>12 DEF NotStarved
<1>15. PromotionServed'
  <2>1. ASSUME NEW a \in roster, a \in DOMAIN states, UnitOf[a] \in owed PROVE a \in ready
    <3>1. LodPeriod(flags, tiers[UnitOf[a]].tier) = 1
      BY <1>8, <1>9, <1>11, <2>1, Periods
    <3>2. states[a].lod.period = 1
      BY <1>8, <2>1, Periods DEF IInv, StatesInv, OwedInv
    <3> QED
      BY <1>9, <1>12, <2>1, <3>1, <3>2
  <2> QED
    BY <1>7, <1>8, <1>9, <2>1 DEF PromotionServed
<1>16. StatesInv' /\ OwedInv' /\ PhaseInv(phase)'
  BY <1>8 DEF IInv, StatesInv, OwedInv
<1> QED
  BY <1>8, <1>13, <1>14, <1>15, <1>16 DEF IInv

\* A promotion by witnesses changes deadlines of the plan, and no last scan.
LEMMA PromoteKeepsInv ==
  ASSUME IInv, Promote
  PROVE  IInv'
<1>0. /\ staging /\ PlanInv /\ plan.promoted = {} /\ ordinal \in Nat /\ flags \in Flags
      /\ UNCHANGED <<flags, ordinal, phase, states, lod, owed, damaged, staging, poisoned>>
  BY PeriodsAssumption DEF Promote, IInv, cadenceVars
<1>1. PICK promoted \in SUBSET Units :
        plan' = [plan EXCEPT !.promoted = promoted,
                   !.states = [a \in DOMAIN @ |->
                      IF UnitOf[a] \in promoted THEN ChangePeriod(@[a], 1) ELSE @[a]]]
  BY Zenon DEF Promote
<1>2. PICK changed :
        changed = [a \in DOMAIN plan.states |->
                     IF UnitOf[a] \in promoted THEN ChangePeriod(plan.states[a], 1)
                     ELSE plan.states[a]]
  OBVIOUS
<1>3. plan' = [phase |-> plan.phase, tiers |-> plan.tiers, up |-> plan.up, states |-> changed,
               lodReady |-> plan.lodReady, promoted |-> promoted]
  <2> DEFINE e == [plan EXCEPT !.promoted = promoted]
  <2>1. PICK f, g, u, s, r, w :
          plan = [phase |-> f, tiers |-> g, up |-> u, states |-> s, lodReady |-> r, promoted |-> w]
    BY <1>0 DEF PlanInv
  <2>2. e = [phase |-> f, tiers |-> g, up |-> u, states |-> s, lodReady |-> r, promoted |-> promoted]
    BY <2>1
  <2>3. e.states = plan.states
    BY <2>1, <2>2
  <2>4. plan' = [e EXCEPT !.states = changed]
    BY <1>1, <1>2, <2>3, <2>1
  <2> HIDE DEF e
  <2>5. plan' = [phase |-> f, tiers |-> g, up |-> u, states |-> changed, lodReady |-> r,
                 promoted |-> promoted]
    BY <2>2, <2>4
  <2>6. plan.phase = f /\ plan.tiers = g /\ plan.up = u /\ plan.lodReady = r
    BY <2>1
  <2> QED
    BY <2>5, <2>6
<1>4. /\ plan'.phase = plan.phase /\ plan'.tiers = plan.tiers /\ plan'.up = plan.up
      /\ plan'.states = changed /\ plan'.lodReady = plan.lodReady /\ plan'.promoted = promoted
      /\ DOMAIN changed = DOMAIN plan.states
  BY <1>2, <1>3
<1>5. ASSUME NEW a \in DOMAIN plan.states
      PROVE  /\ a \in Attachments /\ UnitOf[a] \in Units
             /\ Sound(flags, plan.phase, ordinal + 1, a, changed[a])
             /\ changed[a].lod.period = IF UnitOf[a] \in promoted THEN 1
                                        ELSE LodPeriod(flags, plan.tiers[UnitOf[a]].tier)
             /\ changed[a].last = plan.states[a].last
             /\ changed[a].native.ready = plan.states[a].native.ready
             /\ changed[a].lod.ready = plan.states[a].lod.ready
  <2>1. PICK s : s = plan.states[a]
    OBVIOUS
  <2>2. /\ a \in Attachments /\ UnitOf[a] \in Units /\ Sound(flags, plan.phase, ordinal + 1, a, s)
        /\ s.lod.period = LodPeriod(flags, plan.tiers[UnitOf[a]].tier)
    BY <1>0, <2>1, Periods DEF PlanInv
  <2>3. CASE UnitOf[a] \in promoted
    <3>1. PICK c : c = ChangePeriod(s, 1)
      OBVIOUS
    <3>2. changed[a] = c
      BY <1>2, <2>1, <2>3, <3>1
    <3>3. PICK p : p = plan.phase
      OBVIOUS
    <3>4. /\ Sound(flags, p, ordinal + 1, a, c) /\ c.lod.period = 1
          /\ c.last = s.last /\ c.native = s.native /\ c.lod.ready = s.lod.ready
      BY <1>0, <2>2, <3>1, <3>3, PromoteFacts
    <3> QED
      BY <2>1, <2>2, <2>3, <3>2, <3>3, <3>4
  <2>4. CASE UnitOf[a] \notin promoted
    BY <1>2, <2>1, <2>2, <2>4
  <2> QED
    BY <2>3, <2>4
<1>6. PlanInv'
  <2>1. \A a \in DOMAIN states \intersect DOMAIN changed : PlanFollows(a)'
    <3>1. \A a \in DOMAIN states \intersect DOMAIN plan.states : PlanFollows(a)
      BY <1>0 DEF PlanInv
    <3> QED
      BY <1>0, <1>4, <1>5, <3>1 DEF PlanFollows
  <2> QED
    BY <1>0, <1>3, <1>4, <1>5, <2>1 DEF PlanInv
<1>7. NotStarved'
  BY <1>0, <1>4, <1>5 DEF IInv, NotStarved, PlanInv
<1>8. PromotionServed'
  BY <1>0, <1>4 DEF IInv, PromotionServed
<1>9. StatesInv' /\ OwedInv' /\ PhaseInv(phase)'
  BY <1>0 DEF IInv, StatesInv, OwedInv
<1> QED
  BY <1>0, <1>6, <1>7, <1>8, <1>9 DEF IInv

\* A commit publishes the plan.
LEMMA CommitKeepsInv ==
  ASSUME IInv, Commit
  PROVE  IInv'
<1>0. /\ staging /\ PlanInv /\ ordinal \in Nat /\ ordinal' = ordinal + 1 /\ ordinal < MaxOrdinal
      /\ phase' = plan.phase /\ states' = plan.states
      /\ lod' = [u \in Units |->
           IF u \in plan.promoted THEN [tier |-> "active", pending |-> Unseen, count |-> 0]
           ELSE plan.tiers[u]]
      /\ damaged' = {} /\ owed' = plan.promoted /\ staging' = FALSE /\ plan' = NoPlan
      /\ flags' = flags /\ flags \in Flags
      /\ poisoned' = poisoned /\ poisoned \in BOOLEAN /\ MaxOrdinal \in Nat
  BY PeriodsAssumption DEF Commit, IInv, PlanInv
<1>1. PhaseInv(phase') /\ plan.tiers \in Tiers /\ plan.promoted \subseteq Units
  BY <1>0 DEF PlanInv
<1>2. lod' \in Tiers
  <2>1. 0 \in 0..Larger(1, Hysteresis - 1)
    BY PeriodsAssumption DEF Larger
  <2>2. [tier |-> "active", pending |-> Unseen, count |-> 0] \in
          [tier : Tier \union {Unseen}, pending : Tier \union {Unseen},
           count : 0..Larger(1, Hysteresis - 1)]
    BY <2>1 DEF Tier
  <2> QED
    BY <1>0, <1>1, <2>2 DEF Tiers
<1>3. StatesInv'
  <2>1. ASSUME NEW a \in DOMAIN plan.states
        PROVE  /\ a \in Attachments /\ Sound(flags, plan.phase, ordinal + 1, a, plan.states[a])
               /\ plan.states[a].lod.period = LodPeriod(flags, lod'[UnitOf[a]].tier)
    <3>1. /\ a \in Attachments /\ UnitOf[a] \in Units
          /\ Sound(flags, plan.phase, ordinal + 1, a, plan.states[a])
          /\ plan.states[a].lod.period =
               IF UnitOf[a] \in plan.promoted THEN 1
               ELSE LodPeriod(flags, plan.tiers[UnitOf[a]].tier)
      BY <1>0, Periods DEF PlanInv
    <3>2. CASE UnitOf[a] \in plan.promoted
      <4>1. lod'[UnitOf[a]].tier = "active"
        BY <1>0, <3>1, <3>2
      <4> QED
        BY <1>0, <3>1, <3>2, <4>1, Periods
    <3>3. CASE UnitOf[a] \notin plan.promoted
      <4>1. lod'[UnitOf[a]] = plan.tiers[UnitOf[a]]
        BY <1>0, <3>1, <3>3
      <4> QED
        BY <3>1, <3>3, <4>1
    <3> QED
      BY <3>2, <3>3
  <2> QED
    BY <1>0, <2>1 DEF StatesInv
<1>4. OwedInv'
  BY <1>0, <1>1 DEF OwedInv
<1>5. NotStarved' /\ PromotionServed'
  BY <1>0 DEF NotStarved, PromotionServed
<1>6. ordinal' \in 0..MaxOrdinal /\ ordinal' # 0
  BY <1>0
<1> QED
  BY <1>0, <1>1, <1>2, <1>3, <1>4, <1>5, <1>6 DEF IInv

\* An aborted interval and damage leave the committed state alone.
LEMMA AbortKeepsInv ==
  ASSUME IInv, Abort
  PROVE  IInv'
<1>0. /\ staging' = FALSE /\ poisoned' = TRUE
      /\ UNCHANGED <<flags, ordinal, phase, states, lod, owed, damaged>>
  BY DEF Abort, cadenceVars
<1>1. NotStarved' /\ PromotionServed'
  BY <1>0 DEF NotStarved, PromotionServed
<1> QED
  BY <1>0, <1>1 DEF IInv, StatesInv, OwedInv

LEMMA DamageKeepsInv ==
  ASSUME IInv, NEW u \in Units, Damage(u)
  PROVE  IInv'
<1>0. /\ ~staging /\ damaged' = damaged \union {u}
      /\ UNCHANGED <<flags, ordinal, phase, states, lod, owed, staging, plan, poisoned>>
  BY DEF Damage, cadenceVars
<1>1. NotStarved' /\ PromotionServed'
  BY <1>0 DEF NotStarved, PromotionServed
<1> QED
  BY <1>0, <1>1 DEF IInv, StatesInv, OwedInv

LEMMA NextKeepsInv ==
  ASSUME IInv, [Next]_vars
  PROVE  IInv'
<1>1. CASE UNCHANGED vars
  BY <1>1 DEF vars, cadenceVars, IInv, StatesInv, OwedInv, PlanInv, PlanFollows, NotStarved,
              PromotionServed
<1> QED
  BY <1>1, StageKeepsInv, PromoteKeepsInv, CommitKeepsInv, AbortKeepsInv, DamageKeepsInv DEF Next

-----------------------------------------------------------------------------
(* The theorems.                                                           *)

\* The inductive invariant holds throughout every sequence of intervals.
THEOREM CadenceInvariant == Spec => []IInv
<1>1. Init => IInv
  BY InitEstablishesInv
<1>2. IInv /\ [Next]_vars => IInv'
  BY NextKeepsInv
<1> QED
  BY <1>1, <1>2, PTL DEF Spec

\* Whatever joined, left, failed, was promoted or demoted: the owners agree at
\* every boundary, so a checkpoint is acceptable in every supported configuration.
THEOREM CadenceRestorable == Spec => []Restorable
<1>1. ASSUME IInv PROVE TypeOK
  <2>1. states = states /\ \A a \in DOMAIN states : states[a] \in State
    BY <1>1 DEF IInv, StatesInv, Sound
  <2> QED
    BY <1>1, <2>1 DEF IInv, StatesInv, PhaseInv, Tiers, TypeOK
<1>2. ASSUME IInv PROVE OwnersAgree
  <2>1. ASSUME NEW a \in DOMAIN states
        PROVE  /\ AcceptableState(a, states[a])
               /\ states[a].lod.period = LodPeriod(flags, lod[UnitOf[a]].tier)
    <3>1. /\ Sound(flags, phase, ordinal, a, states[a])
          /\ states[a].lod.period = LodPeriod(flags, lod[UnitOf[a]].tier)
      BY <1>2 DEF IInv, StatesInv
    <3>2. /\ phase[a] # None
          /\ AcceptableAxis(states[a], states[a].native) /\ AcceptableAxis(states[a], states[a].lod)
      BY <3>1 DEF Sound, AxisInv, AcceptableAxis, None
    <3>3. /\ states[a].native.period = NativePeriod(flags, a)
          /\ states[a].native.due % NativePeriod(flags, a) = Residue(flags, phase, a)
      BY <3>1 DEF Sound
    <3>4. IF states[a].last = None THEN states[a].native.ready /\ states[a].lod.ready
          ELSE states[a].last < ordinal /\ states[a].last < states[a].native.due
      <4>1. ordinal \in Nat /\ states[a].last \in {None} \union (0..(ordinal - 1)) /\ None = -1
        BY <1>2, <3>1 DEF IInv, Sound, None
      <4>2. states[a].last = None => states[a].native.ready /\ states[a].lod.ready
        BY <3>1 DEF Sound
      <4>3. states[a].last # None => states[a].last < states[a].native.due
        <5>1. states[a].native.due >= ordinal /\ states[a] \in State
          BY <3>1 DEF Sound, AxisInv
        <5>2. states[a].native.due \in Nat
          BY <5>1, StateFacts
        <5> QED
          BY <4>1, <5>1, <5>2
      <4> QED
        BY <4>1, <4>2, <4>3
    <3> QED
      BY <3>1, <3>2, <3>3, <3>4 DEF AcceptableState
  <2>2. ASSUME NEW a \in Assigned(phase)
        PROVE  LET group == {b \in Assigned(phase) : GroupOf[b] = GroupOf[a]}
               IN /\ {phase[b] : b \in group} = 0..(Cardinality(group) - 1)
                  /\ \A b \in group : phase[b] = phase[a] => b = a
    <3>1. a \in Attachments
      BY DEF Assigned
    <3> QED
      BY <1>2, <3>1 DEF IInv, PhaseInv, Group
  <2> QED
    BY <1>2, <2>1, <2>2 DEF IInv, OwnersAgree
<1>3. IInv => Restorable
  BY <1>1, <1>2 DEF Restorable, Acceptable
<1> QED
  BY <1>3, CadenceInvariant, PTL

\* No interval leaves an operational attachment without a scan for as long as
\* the longest of its periods.
THEOREM CadenceDoesNotStarve == Spec => []NotStarved
<1>1. IInv => NotStarved
  BY DEF IInv
<1> QED
  BY <1>1, CadenceInvariant, PTL

\* A unit promoted by a witness is ready in the very next interval.
THEOREM PromotionsAreServed == Spec => []PromotionServed
<1>1. IInv => PromotionServed
  BY DEF IInv
<1> QED
  BY <1>1, CadenceInvariant, PTL

\* Steps that publish nothing leave last scans, phases and readiness.
LEMMA OnlyCommitPublishes ==
  ASSUME [Next]_vars
  PROVE  Commit \/ UNCHANGED <<phase, states>>
BY DEF Next, vars, cadenceVars, Stage, Promote, Abort, Damage

\* An attachment that stays on the roster scans at most once per native deadline.
THEOREM ScansNeverBurst == Spec => NoBurst
<1>1. ASSUME IInv, [Next]_vars, NEW a \in DOMAIN states \intersect DOMAIN states',
             states[a].last \notin {None, states'[a].last}
      PROVE  \E d \in (states[a].last + 1)..ordinal :
               d % NativePeriod(flags, a) = Residue(flags, phase, a)
  <2>1. Commit
    BY <1>1, OnlyCommitPublishes
  <2>2. states' = plan.states /\ PlanInv
    BY <1>1, <2>1 DEF Commit, IInv
  <2>3. PlanFollows(a)
    BY <1>1, <2>2 DEF PlanInv
  <2> QED
    BY <1>1, <2>2, <2>3 DEF PlanFollows, PassedDeadline
<1>2. IInv /\ [Next]_vars =>
        [\A a \in DOMAIN states \intersect DOMAIN states' :
           states[a].last \notin {None, states'[a].last} =>
             \E d \in (states[a].last + 1)..ordinal :
               d % NativePeriod(flags, a) = Residue(flags, phase, a)]_vars
  BY <1>1
<1> QED
  BY <1>2, CadenceInvariant, PTL DEF Spec, NoBurst

\* No interval takes away a phase, or an earned opportunity without a scan.
THEOREM ClaimsAreKept == Spec => ClaimsKept
<1>1. ASSUME IInv, [Next]_vars
      PROVE  /\ \A a \in Assigned(phase) : phase'[a] = phase[a]
             /\ \A a \in DOMAIN states \intersect DOMAIN states' :
                  states'[a].last = states[a].last =>
                    /\ states[a].native.ready => states'[a].native.ready
                    /\ states[a].lod.ready => states'[a].lod.ready
  <2>1. CASE Commit
    <3>1. phase' = plan.phase /\ states' = plan.states /\ PlanInv
      BY <1>1, <2>1 DEF Commit, IInv
    <3> QED
      BY <3>1 DEF PlanInv, PlanFollows
  <2>2. CASE UNCHANGED <<phase, states>>
    BY <2>2
  <2> QED
    BY <1>1, <2>1, <2>2, OnlyCommitPublishes
<1>2. IInv /\ [Next]_vars =>
        [/\ \A a \in Assigned(phase) : phase'[a] = phase[a]
         /\ \A a \in DOMAIN states \intersect DOMAIN states' :
              states'[a].last = states[a].last =>
                /\ states[a].native.ready => states'[a].native.ready
                /\ states[a].lod.ready => states'[a].lod.ready]_vars
  BY <1>1
<1> QED
  BY <1>2, CadenceInvariant, PTL DEF Spec, ClaimsKept

=============================================================================
