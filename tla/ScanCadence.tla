----------------------------- MODULE ScanCadence -----------------------------
(***************************************************************************)
(* When the sensors of the simulated units scan: TacticalCadenceScheduler  *)
(* (detection/cadence.py), the level-of-detail tiers that BattleManager    *)
(* keeps of the units (simulation/battle.py), and the transaction of a     *)
(* tactical interval that publishes both.                                  *)
(*                                                                         *)
(* An attachment is a sensor on a unit.  It scans in an interval when two  *)
(* deadlines have passed since its last scan: one of its native period,    *)
(* whose phase spreads like sensors of a side over the intervals, and one  *)
(* of the level of detail its unit is simulated at.  An interval is staged *)
(* for the complete roster, may promote units whose scans have detected    *)
(* something, and is then committed whole or aborted.                      *)
(*                                                                         *)
(* Scan scheduling and levels of detail are switched by two flags.  Both   *)
(* are retired: the runtime in production refuses either, so there every   *)
(* period is one and every unit keeps its tier, and only the mechanism     *)
(* itself, which is still in the code and its tests, runs otherwise.       *)
(***************************************************************************)
EXTENDS Integers, FiniteSets

CONSTANTS
  Units,          \* units of all sides
  Attachments,    \* a set of integers: identities in their canonical order
  UnitOf,         \* the unit that carries an attachment
  GroupOf,        \* its phase group: side, sensor, role and native period
  PeriodOf,       \* scan_interval_ticks of an attachment's sensor
  NearbyPeriod,   \* lod_nearby_interval
  DistantPeriod,  \* lod_distant_interval
  Hysteresis,     \* lod_hysteresis_ticks
  MaxOrdinal      \* bound on intervals

ASSUME AttachmentsAssumption ==
  /\ IsFiniteSet(Attachments) /\ Attachments \subseteq Int
  /\ UnitOf \in [Attachments -> Units]
  /\ PeriodOf \in [Attachments -> Nat \ {0}]
  /\ \A a, b \in Attachments : GroupOf[a] = GroupOf[b] => PeriodOf[a] = PeriodOf[b]
ASSUME PeriodsAssumption ==
  /\ NearbyPeriod \in Nat \ {0} /\ DistantPeriod \in Nat \ {0}
  /\ Hysteresis \in Nat \ {0} /\ MaxOrdinal \in Nat

VARIABLES
  flags,      \* enable_scan_scheduling, enable_lod: never change
  ordinal,    \* _committed_ordinal: the next interval
  phase,      \* the phase registry: each attachment's ordinal in its group
  states,     \* the committed states of the attachments on the last roster
  lod,        \* each unit's tier, and its pending demotion
  damaged,    \* _lod_promoted: units hit since the last interval
  staging,    \* an interval plan is active
  plan,       \* that plan
  poisoned,   \* an interval was aborted
  owed        \* history: units whose witnesses promoted them last interval

cadenceVars == <<flags, ordinal, phase, states, lod, owed>>
vars == <<cadenceVars, damaged, staging, plan, poisoned>>

None == -1       \* no ordinal, no assignment
Unseen == "unseen"
NoPlan == [up |-> {}, promoted |-> {}]

Tier == {"active", "nearby", "distant"}
Rank == [active |-> 0, nearby |-> 1, distant |-> 2]

Flags == [scan : BOOLEAN, lod : BOOLEAN]

\* An attachment's demands under the flags f.
NativePeriod(f, a) == IF f.scan THEN PeriodOf[a] ELSE 1
LodPeriod(f, tier) ==
  CASE f.lod /\ tier = "nearby" -> NearbyPeriod
    [] f.lod /\ tier = "distant" -> DistantPeriod
    [] OTHER -> 1

Larger(m, n) == IF m < n THEN n ELSE m
Smaller(m, n) == IF m < n THEN m ELSE n

Assigned(p) == {a \in Attachments : p[a] # None}
Residue(f, p, a) == p[a] % NativePeriod(f, a)

Init ==
  /\ flags \in Flags
  /\ ordinal = 0
  /\ phase = [a \in Attachments |-> None]
  /\ states = [a \in {} |-> None]
  /\ lod = [u \in Units |-> [tier |-> Unseen, pending |-> Unseen, count |-> 0]]
  /\ damaged = {} /\ owed = {}
  /\ staging = FALSE /\ plan = NoPlan /\ poisoned = FALSE

-----------------------------------------------------------------------------
(* The units' tiers.                                                       *)

\* A promotion takes effect at once, a demotion when it was seen repeatedly.
Classify(u, seen) ==
  LET raw == IF u \in damaged THEN "active" ELSE seen
      old == lod[u]
      again == IF old.pending = raw THEN old.count + 1 ELSE 1
      Settled(t) == [tier |-> t, pending |-> Unseen, count |-> 0]
  IN CASE old.tier = Unseen -> Settled(raw)
       [] old.tier # Unseen /\ Rank[raw] <= Rank[old.tier] -> Settled(raw)
       [] OTHER -> IF again > 1 /\ again >= Hysteresis THEN Settled(raw)
                   ELSE [old EXCEPT !.pending = raw, !.count = again]

-----------------------------------------------------------------------------
(* The deadlines of one attachment.                                        *)

\* The first deadline of this period that lies in the future.
Advance(due, period) ==
  IF ordinal < due THEN due
  ELSE due + (((ordinal - due) \div period) + 1) * period

\* The next ordinal in a residue class of the native period.
NextPhaseDeadline(period, residue) ==
  LET delta == (residue - (ordinal % period)) % period
  IN ordinal + (IF delta = 0 THEN period ELSE delta)

\* Mutant: an opportunity that is not taken lapses.
MutAccrue(axis) ==
  IF ordinal < axis.due THEN [axis EXCEPT !.ready = FALSE]
  ELSE [axis EXCEPT !.ready = TRUE, !.due = Advance(axis.due, axis.period)]

\* A passed deadline makes its axis ready, at most once until it is consumed.
Accrue(axis) ==
  IF ordinal < axis.due THEN axis
  ELSE [axis EXCEPT !.ready = TRUE, !.due = Advance(axis.due, axis.period)]

\* Mutant: a longer period starts from now.
MutChangePeriod(s, new) ==
  LET n == IF s.last = None THEN ordinal ELSE s.last
      due == IF new < s.lod.period
               THEN Smaller(s.lod.due, Larger(ordinal + 1, n + new))
               ELSE Larger(s.lod.due, ordinal + new)
  IN IF new = s.lod.period THEN s
     ELSE [s EXCEPT !.lod.period = new, !.lod.due = due]

\* A shorter period pulls the deadline in, a longer one pushes it out, both
\* counted from the last scan.
ChangePeriod(s, new) ==
  LET n == IF s.last = None THEN ordinal ELSE s.last
      due == IF new < s.lod.period
               THEN Smaller(s.lod.due, Larger(ordinal + 1, n + new))
               ELSE Larger(s.lod.due, n + new)
  IN IF new = s.lod.period THEN s
     ELSE [s EXCEPT !.lod = [@ EXCEPT !.period = new, !.due = due]]

\* An attachment that was not on the last roster is ready on both axes.
Fresh(p, a, period) ==
  [last |-> None,
   native |-> [period |-> NativePeriod(flags, a), ready |-> TRUE, deferred |-> None,
               due |-> NextPhaseDeadline(NativePeriod(flags, a), Residue(flags, p, a))],
   lod |-> [period |-> period, ready |-> TRUE, deferred |-> None,
            due |-> ordinal + period]]

\* The state with which an attachment enters the interval's decision.
Entering(p, a, period) ==
  IF a \notin DOMAIN states THEN Fresh(p, a, period)
  ELSE LET s == ChangePeriod(states[a], period)
       IN [s EXCEPT !.native = Accrue(@), !.lod = Accrue(@)]

Admitted(s, up) == up /\ s.native.ready /\ s.lod.ready

\* Mutant: a scan consumes only the level-of-detail opportunity.
MutDecide(s, up) ==
  LET Consume(axis) == [axis EXCEPT !.ready = FALSE, !.deferred = None]
      Defer(axis) == IF axis.ready \/ axis.deferred # None THEN axis
                     ELSE [axis EXCEPT !.deferred = ordinal]
  IN CASE ~up -> s
       [] Admitted(s, up) -> [s EXCEPT !.last = ordinal, !.lod = Consume(@)]
       [] OTHER -> [s EXCEPT !.native = Defer(@), !.lod = Defer(@)]

\* A scan consumes both opportunities; an axis that is not ready defers an
\* operational attachment, from the first interval it does so.
Decide(s, up) ==
  LET Consume(axis) == [axis EXCEPT !.ready = FALSE, !.deferred = None]
      Defer(axis) == IF axis.ready \/ axis.deferred # None THEN axis
                     ELSE [axis EXCEPT !.deferred = ordinal]
  IN CASE ~up -> s
       [] Admitted(s, up) -> [last |-> ordinal, native |-> Consume(s.native),
                              lod |-> Consume(s.lod)]
       [] OTHER -> [s EXCEPT !.native = Defer(@), !.lod = Defer(@)]

-----------------------------------------------------------------------------
(* The transaction of an interval.                                         *)

\* Mutant: whoever was not on the last roster is new.
MutAssign(roster) ==
  LET new == roster \ DOMAIN states
      taken(g) == {phase[b] : b \in {c \in Assigned(phase) : GroupOf[c] = g}}
      next(g) == CHOOSE n \in {0} \union {m + 1 : m \in taken(g)} :
                   \A m \in taken(g) : m < n
  IN [a \in Attachments |->
        IF a \notin new THEN phase[a]
        ELSE next(GroupOf[a])
               + Cardinality({b \in new : GroupOf[b] = GroupOf[a] /\ b < a})]

\* New attachments continue their group's ordinals in canonical order.
Assign(roster) ==
  LET new == roster \ Assigned(phase)
      taken(g) == {phase[b] : b \in {c \in Assigned(phase) : GroupOf[c] = g}}
      next(g) == CHOOSE n \in {0} \union {m + 1 : m \in taken(g)} :
                   \A m \in taken(g) : m < n
  IN [a \in Attachments |->
        IF a \notin new THEN phase[a]
        ELSE next(GroupOf[a])
               + Cardinality({b \in new : GroupOf[b] = GroupOf[a] /\ b < a})]

\* The tiers of the active units, if levels of detail are on, and the decisions
\* for all their attachments; nothing is published yet.
Stage ==
  /\ ~staging /\ ~poisoned
  /\ staging' = TRUE
  /\ ordinal < MaxOrdinal
  /\ \E active \in SUBSET Units : \E seen \in [active -> Tier] :
       LET roster == {a \in Attachments : UnitOf[a] \in active}
           tiers == [u \in Units |-> IF flags.lod /\ u \in active THEN Classify(u, seen[u])
                                     ELSE lod[u]]
           p == Assign(roster)
           entering == [a \in roster |-> Entering(p, a, LodPeriod(flags, tiers[UnitOf[a]].tier))]
       IN \E up \in SUBSET roster :
            plan' = [phase |-> p, tiers |-> tiers, up |-> up,
                     states |-> [a \in roster |-> Decide(entering[a], a \in up)],
                     lodReady |-> {a \in roster : entering[a].lod.ready},
                     promoted |-> {}]
  /\ UNCHANGED <<cadenceVars, damaged, poisoned>>

\* Units below the active tier that detected a target in reach with a scan of
\* this interval are promoted from the next one on.
Promote ==
  /\ staging /\ flags.lod /\ plan.promoted = {}
  /\ \E promoted \in SUBSET Units :
       /\ promoted # {}
       /\ \A u \in promoted :
            /\ plan.tiers[u].tier # "active"
            /\ \E a \in plan.up : UnitOf[a] = u /\ plan.states[a].last = ordinal
       /\ plan' = [plan EXCEPT !.promoted = promoted,
                     !.states = [a \in DOMAIN @ |->
                        IF UnitOf[a] \in promoted THEN ChangePeriod(@[a], 1) ELSE @[a]]]
  /\ UNCHANGED <<cadenceVars, damaged, staging, poisoned>>

\* Mutant: promotions reach the deadlines but not the units' tiers.
MutCommit ==
  /\ staging
  /\ ordinal' = ordinal + 1
  /\ phase' = plan.phase /\ states' = plan.states /\ lod' = plan.tiers
  /\ damaged' = {} /\ owed' = plan.promoted
  /\ staging' = FALSE /\ plan' = NoPlan
  /\ UNCHANGED <<flags, poisoned>>

\* Mutant: assignments are pruned together with the states.
MutCommitPrunes ==
  /\ staging
  /\ ordinal' = ordinal + 1
  /\ phase' = [a \in Attachments |-> IF a \in DOMAIN plan.states THEN plan.phase[a] ELSE None]
  /\ states' = plan.states /\ lod' = plan.tiers
  /\ damaged' = {} /\ owed' = plan.promoted
  /\ staging' = FALSE /\ plan' = NoPlan
  /\ UNCHANGED <<flags, poisoned>>

\* Every owner has been validated; all of them take their staged state.
Commit ==
  /\ staging
  /\ ordinal' = ordinal + 1
  /\ phase' = plan.phase /\ states' = plan.states
  /\ lod' = [u \in Units |->
       IF u \in plan.promoted THEN [tier |-> "active", pending |-> Unseen, count |-> 0]
       ELSE plan.tiers[u]]
  /\ damaged' = {} /\ owed' = plan.promoted
  /\ staging' = FALSE /\ plan' = NoPlan
  /\ UNCHANGED <<flags, poisoned>>

\* A side's scans or another owner's validation raised.
Abort ==
  /\ staging
  /\ staging' = FALSE /\ plan' = NoPlan /\ poisoned' = TRUE
  /\ UNCHANGED <<cadenceVars, damaged>>

\* Combat between two intervals promotes the units it hits.
Damage(u) ==
  /\ flags.lod
  /\ ~staging /\ ~poisoned
  /\ ordinal > 0
  /\ damaged' = damaged \union {u}
  /\ UNCHANGED <<cadenceVars, staging, plan, poisoned>>

Next == Stage \/ Promote \/ Commit \/ Abort \/ \E u \in Units : Damage(u)

Spec == Init /\ [][Next]_vars

-----------------------------------------------------------------------------
(* What get_state and set_state demand of a checkpoint: the owners' checks *)
(* are made of the staged state when it is taken and when it is restored.  *)

\* Neither retired flag is on (and the settings of the level of detail, which
\* have no effect then, are the default ones).
Supported == ~flags.scan /\ ~flags.lod

AcceptableAxis(s, axis) ==
  /\ axis.due >= ordinal
  /\ axis.deferred # None =>
       s.last # None /\ s.last < axis.deferred /\ axis.deferred < ordinal

AcceptableState(a, s) ==
  /\ phase[a] # None
  /\ AcceptableAxis(s, s.native) /\ AcceptableAxis(s, s.lod)
  /\ s.native.period = NativePeriod(flags, a)
  /\ s.native.due % NativePeriod(flags, a) = Residue(flags, phase, a)
  /\ IF s.last = None THEN s.native.ready /\ s.lod.ready
     ELSE s.last < ordinal /\ s.last < s.native.due

\* Group ordinals are given once and are contiguous from zero, every state is
\* consistent, and its level-of-detail period is that of its unit's tier.
OwnersAgree ==
  /\ ordinal = 0 => Assigned(phase) = {} /\ DOMAIN states = {}
  /\ \A a \in Assigned(phase) :
       LET group == {b \in Assigned(phase) : GroupOf[b] = GroupOf[a]}
       IN /\ {phase[b] : b \in group} = 0..(Cardinality(group) - 1)
          /\ \A b \in group : phase[b] = phase[a] => b = a
  /\ \A a \in DOMAIN states :
       /\ AcceptableState(a, states[a])
       /\ states[a].lod.period = LodPeriod(flags, lod[UnitOf[a]].tier)

Acceptable == Supported /\ OwnersAgree

-----------------------------------------------------------------------------
(* Properties.                                                             *)

Axis == [period : Nat \ {0}, ready : BOOLEAN, deferred : Int, due : Nat]
State == [last : Int, native : Axis, lod : Axis]

\* Every variable has its type; a pending demotion is settled when it has been
\* seen as often as the hysteresis asks for.
TypeOK ==
  /\ flags \in Flags
  /\ ordinal \in 0..MaxOrdinal
  /\ phase \in [Attachments -> {None} \union Nat]
  /\ DOMAIN states \subseteq Attachments
  /\ \A a \in DOMAIN states : states[a] \in State
  /\ lod \in [Units -> [tier : Tier \union {Unseen}, pending : Tier \union {Unseen},
                        count : 0..Larger(1, Hysteresis - 1)]]
  /\ damaged \subseteq Units /\ owed \subseteq Units
  /\ staging \in BOOLEAN /\ poisoned \in BOOLEAN

\* Whatever joined, left, failed, was promoted or demoted before, a checkpoint
\* between two intervals is taken and accepted exactly in the configurations
\* that are supported: never is it refused for what the intervals have made of
\* phases, deadlines and readiness.  The owners agree in the retired
\* configurations as well, where no checkpoint is taken (cadence.py,
\* stage_state; fog_of_war.py, validate_cadence_restore_bindings;
\* performance_flags.py, resolve_supported_runtime_performance_flags).
Restorable ==
  /\ TypeOK
  /\ ~staging /\ ~poisoned => OwnersAgree /\ (Supported <=> Acceptable)

Longest(f) == IF f.lod THEN Larger(NearbyPeriod, DistantPeriod) ELSE 1

\* Cadence does not starve: no interval leaves an operational attachment
\* without a scan for as long as the longest of its periods, although two
\* independent deadlines must meet and tiers may change in every interval
\* (docs/specs/performance-flag-semantic-integrity.md:177, "non-starving").  With
\* the retired flags off that is a scan in every interval.
NotStarved ==
  staging => \A a \in plan.up :
    ordinal - plan.states[a].last < Larger(NativePeriod(flags, a), Longest(flags))

\* A unit promoted by a witness is ready, as far as its level of detail goes,
\* in the very next interval, however far away it is seen there
\* (stage_witness_promotions, _stage_lod_tiers, _commit_lod_tiers).
PromotionServed ==
  staging => \A a \in DOMAIN plan.states \intersect DOMAIN states :
    UnitOf[a] \in owed => a \in plan.lodReady

\* An attachment that stays on the roster scans at most once per native
\* deadline: a return from a failure permits one scan and never a burst.
NoBurst ==
  [][\A a \in DOMAIN states \intersect DOMAIN states' :
       states[a].last \notin {None, states'[a].last} =>
         \E d \in (states[a].last + 1)..ordinal :
           d % NativePeriod(flags, a) = Residue(flags, phase, a)]_vars

\* What an interval may not take away from an attachment: the phase it was once
\* given, by reinforcements, its own absence or an aborted interval, and an
\* opportunity it has earned, until a scan takes it, by failures of the sensor,
\* promotions or demotions (stage_interval).
ClaimsKept ==
  [][/\ \A a \in Assigned(phase) : phase'[a] = phase[a]
     /\ \A a \in DOMAIN states \intersect DOMAIN states' :
          states'[a].last = states[a].last =>
            /\ states[a].native.ready => states'[a].native.ready
            /\ states[a].lod.ready => states'[a].lod.ready]_vars
=============================================================================
