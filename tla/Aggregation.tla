---------------------------- MODULE Aggregation ----------------------------
(***************************************************************************)
(* The roster of a simulation and the owners that are keyed by it: morale  *)
(* records (morale/runtime.py), loadouts, tactical targeting and, in       *)
(* simulation/aggregation.py, the formations that stand in for several     *)
(* units.  Merging units into a proxy, splitting a proxy and adding        *)
(* reinforcements (simulation/scenario_loader.py) each change every owner, *)
(* one after the other; an exception between two changes is rolled back by *)
(* hand.                                                                   *)
(*                                                                         *)
(* Units are natural numbers in the order of their identities, proxies are *)
(* negative.  Positions are reduced to whether a proxy has moved.          *)
(***************************************************************************)
EXTENDS Integers, FiniteSetsExt, SequencesExt

CONSTANTS
  Units,      \* natural numbers
  Initial,    \* the roster of every side at the start
  SideOf,     \* the side of a unit
  MinUnits,   \* min_units_to_aggregate
  MaxEvents,  \* bound on what happens between operations
  MaxProxies, \* bound on merges
  MaxFaults   \* bound on injected exceptions

Sides == DOMAIN Initial
ASSUME UnitsAssumption ==
  /\ Units \subseteq Nat /\ IsFiniteSet(Units)
  /\ Initial \in [Sides -> Seq(Units)] /\ \A s \in Sides : IsInjective(Initial[s])
  /\ \A s \in Sides : \A u \in ToSet(Initial[s]) : SideOf[u] = s
  /\ SideOf \in [Units -> Sides]
ASSUME BoundsAssumption ==
  MinUnits \in Nat \ {0} /\ MaxEvents \in Nat /\ MaxProxies \in Nat /\ MaxFaults \in Nat

VARIABLES
  roster,      \* units_by_side
  records,     \* active morale records
  status,      \* the status of the units and proxies on the roster
  archives,    \* suspended morale records of every proxy, and its baseline
  loadouts,    \* the keys of the four loadout mappings
  targeting,   \* the units registered for tactical targeting
  aggregates,  \* of every proxy, its constituents and their original indexes
  nextId,      \* the number of the next proxy
  moved,       \* proxies that strategic movement has carried away
  op,          \* the operation in progress
  faults,      \* injected exceptions so far
  events,      \* transitions, losses and movements so far
  evolved,     \* history: proxies whose morale has changed or been checked
  origin       \* history: order and records of a side before a merge

owners == <<roster, records, status, archives, loadouts, targeting, aggregates, nextId>>
history == <<evolved, origin>>
vars == <<owners, moved, op, faults, events, history>>

Proxy(n) == -1 - n
Idle == [kind |-> "none"]

\* f without S; f and, where it is defined, g; f with the value v for x.
Without(f, S) == Restrict(f, DOMAIN f \ S)
Joined(f, g) ==
  [x \in DOMAIN f \union DOMAIN g |-> IF x \in DOMAIN g THEN g[x] ELSE f[x]]
With(f, x, v) == Joined(f, [y \in {x} |-> v])

\* Everything the owners keep, and who is on its roster.
Owners == [roster |-> roster, records |-> records, status |-> status,
           archives |-> archives, loadouts |-> loadouts, targeting |-> targeting,
           aggregates |-> aggregates, nextId |-> nextId]
MembersOf(lists) == UNION {ToSet(lists[s]) : s \in Sides}
Members == MembersOf(roster)
InArchives == UNION {DOMAIN aggregates[a] : a \in DOMAIN aggregates}

-----------------------------------------------------------------------------
(* Morale records.                                                         *)

MoraleState == 0..4
STEADY == 0
SHAKEN == 1
BROKEN == 2
ROUTED == 3
SURRENDERED == 4

RequiredStatus(m) ==
  CASE m = ROUTED -> "ROUTING" [] m = SURRENDERED -> "SURRENDERED" [] OTHER -> "ACTIVE"
Compatible(st, r) == st = "DESTROYED" \/ st = RequiredStatus(r.state)

\* The record that stands for several: the first of those in the worst state.
WorstOf(rs) ==
  LET worst == Max({rs[u].state : u \in DOMAIN rs})
  IN rs[Min({u \in DOMAIN rs : rs[u].state = worst})]
Archive(rs) == [of |-> rs, baseline |-> WorstOf(rs)]

Init ==
  /\ roster = Initial
  /\ records = [u \in Members |-> [state |-> STEADY, gen |-> 0]]
  /\ status = [u \in Members |-> "ACTIVE"]
  /\ archives = <<>> /\ aggregates = <<>>
  /\ loadouts = Members /\ targeting = Members
  /\ nextId = 0 /\ moved = {} /\ op = Idle /\ faults = 0 /\ events = 0
  /\ evolved = {} /\ origin = <<>>

-----------------------------------------------------------------------------
(* What the owners o must agree on before and after every operation.       *)

\* Morale, loadouts and targeting are keyed by exactly the roster.
OwnersBound(o) ==
  /\ DOMAIN o.records = MembersOf(o.roster) /\ DOMAIN o.status = MembersOf(o.roster)
  /\ \A u \in MembersOf(o.roster) : Compatible(o.status[u], o.records[u])
  /\ o.loadouts = MembersOf(o.roster) /\ o.targeting = MembersOf(o.roster)

\* The side of units, of which there is one at least.
SideOfAll(units) == SideOf[CHOOSE u \in units : TRUE]

\* A proxy stands where the first of its constituents stood, and their
\* original indexes can be restored.
ProxyPlaced(o, a) ==
  LET side == o.roster[SideOfAll(DOMAIN o.aggregates[a])]
      indexes == Range(o.aggregates[a])
  IN /\ a \in ToSet(side)
     /\ side[Min(indexes)] = a
     /\ \A i \in indexes : i <= Len(side) - 1 + Cardinality(indexes)

AggregatesBound(o) ==
  /\ DOMAIN o.archives = DOMAIN o.aggregates
  /\ \A a \in DOMAIN o.aggregates :
       /\ ProxyPlaced(o, a)
       /\ DOMAIN o.archives[a].of = DOMAIN o.aggregates[a]
       /\ DOMAIN o.aggregates[a] \intersect MembersOf(o.roster) = {}
  /\ \A a, b \in DOMAIN o.aggregates : a # b =>
       SideOfAll(DOMAIN o.aggregates[a]) # SideOfAll(DOMAIN o.aggregates[b])

TopologyValid ==
  OwnersBound(Owners) /\ AggregatesBound(Owners) /\ moved \intersect DOMAIN aggregates = {}

-----------------------------------------------------------------------------
(* The three operations: what they begin with, and their steps.            *)

MergeSteps == <<"morale", "roster", "loadouts", "targeting", "aggregates", "validate">>
SplitSteps ==
  <<"morale", "remove", "loadouts", "roster", "targeting", "aggregates", "validate">>
ReinforceSteps == <<"morale", "targeting", "roster">>

\* Where the units stand on a list.
PlaceOf(ids, list) == [u \in ids |-> CHOOSE i \in DOMAIN list : list[i] = u]

\* Mutant: units that have routed are merged as well.
MutBeginMerge(side, ids) ==
  /\ op = Idle /\ nextId < MaxProxies
  /\ Cardinality(ids) >= MinUnits
  /\ \A u \in ids : u \in Units /\ status[u] # "DESTROYED"
  /\ \A a \in DOMAIN aggregates : SideOfAll(DOMAIN aggregates[a]) # side
  /\ TopologyValid
  /\ op' = [kind |-> "merge", id |-> Proxy(nextId), side |-> side,
            place |-> PlaceOf(ids, roster[side]), archive |-> Archive(Restrict(records, ids)),
            todo |-> MergeSteps, begun |-> Owners, moraleDone |-> FALSE]
  /\ UNCHANGED <<owners, moved, faults, events, history>>

\* aggregate: active units of one side that has no proxy yet.
BeginMerge(side, ids) ==
  /\ op = Idle /\ nextId < MaxProxies
  /\ Cardinality(ids) >= MinUnits
  /\ \A u \in ids : u \in Units /\ status[u] = "ACTIVE"
  /\ \A a \in DOMAIN aggregates : SideOfAll(DOMAIN aggregates[a]) # side
  /\ TopologyValid
  /\ op' = [kind |-> "merge", id |-> Proxy(nextId), side |-> side,
            place |-> PlaceOf(ids, roster[side]), archive |-> Archive(Restrict(records, ids)),
            todo |-> MergeSteps, begun |-> Owners, moraleDone |-> FALSE]
  /\ UNCHANGED <<owners, moved, faults, events, history>>

\* disaggregate: a proxy whose morale record is untouched since the merge.
BeginSplit(a) ==
  /\ op = Idle /\ TopologyValid
  /\ records[a] = archives[a].baseline
  /\ status[a] = RequiredStatus(archives[a].baseline.state)
  /\ op' = [kind |-> "split", id |-> a, side |-> SideOfAll(DOMAIN aggregates[a]),
            place |-> aggregates[a], archive |-> archives[a],
            todo |-> SplitSteps, begun |-> Owners, moraleDone |-> FALSE]
  /\ UNCHANGED <<owners, moved, faults, events, history>>

\* register_dynamic_units: a list of units that are new to every owner.
BeginReinforce(side, wave) ==
  /\ op = Idle /\ wave # <<>>
  /\ \A u \in ToSet(wave) :
       SideOf[u] = side /\ u \notin DOMAIN records \union InArchives
  /\ op' = [kind |-> "reinforce", side |-> side, wave |-> wave,
            todo |-> ReinforceSteps, begun |-> Owners, moraleDone |-> FALSE]
  /\ UNCHANGED <<owners, moved, faults, events, history>>

At(step) == op # Idle /\ op.todo # <<>> /\ Head(op.todo) = step
Advance == op' = [op EXCEPT !.todo = Tail(@)]

\* The morale records of the constituents are suspended, or return.
CommitMorale ==
  /\ At("morale")
  /\ op' = [op EXCEPT !.todo = Tail(@), !.moraleDone = TRUE]
  /\ CASE op.kind = "merge" ->
            /\ records' = With(Without(records, DOMAIN op.place), op.id, op.archive.baseline)
            /\ status' = With(Without(status, DOMAIN op.place), op.id,
                              RequiredStatus(op.archive.baseline.state))
            /\ archives' = With(archives, op.id, op.archive)
       [] op.kind = "split" ->
            /\ records' = Joined(Without(records, {op.id}), op.archive.of)
            /\ status' = Joined(Without(status, {op.id}),
                 [u \in DOMAIN op.place |-> RequiredStatus(op.archive.of[u].state)])
            /\ archives' = Without(archives, {op.id})
       [] op.kind = "reinforce" ->
            /\ records' = Joined(records, [u \in ToSet(op.wave) |-> [state |-> STEADY, gen |-> 0]])
            /\ status' = Joined(status, [u \in ToSet(op.wave) |-> RequiredStatus(STEADY)])
            /\ UNCHANGED archives
  /\ UNCHANGED <<roster, loadouts, targeting, aggregates, nextId, moved, faults, events, history>>

\* The list without the units of ids, and how it is copied unit by unit.
Copied(list, ids) ==
  LET copy[i \in 0..Len(list)] ==
        IF i = 0 THEN <<>>
        ELSE IF list[i] \in ids THEN copy[i - 1] ELSE Append(copy[i - 1], list[i])
  IN copy
Kept(list, ids) == Copied(list, ids)[Len(list)]

\* The list with a unit at an index, behind its end at most (list.insert).
Inserted(list, i, u) ==
  LET at == IF i <= Len(list) THEN i ELSE Len(list) + 1
  IN [k \in 1..(Len(list) + 1) |->
        IF k < at THEN list[k] ELSE IF k = at THEN u ELSE list[k - 1]]

\* A proxy leaves the roster before its constituents return.
RemoveProxy ==
  /\ At("remove") /\ Advance
  /\ roster' = [roster EXCEPT ![op.side] = Kept(@, {op.id})]
  /\ UNCHANGED <<records, status, archives, loadouts, targeting, aggregates, nextId>>
  /\ UNCHANGED <<moved, faults, events, history>>

UnitAt(place, i) == CHOOSE u \in DOMAIN place : place[u] = i

\* Mutant: every constituent returns to the place of the proxy.
MutPlaced(place, list) ==
  LET placed[i \in 0..Max(Range(place))] ==
        IF i = 0 THEN list
        ELSE IF i \in Range(place)
        THEN Inserted(placed[i - 1], Min(Range(place)), UnitAt(place, i))
        ELSE placed[i - 1]
  IN placed

\* The constituents return to their indexes, lowest first.
Placed(place, list) ==
  LET placed[i \in 0..Max(Range(place))] ==
        IF i = 0 THEN list
        ELSE IF i \in Range(place) THEN Inserted(placed[i - 1], i, UnitAt(place, i))
        ELSE placed[i - 1]
  IN placed
PlaceUnits(place, list) == Placed(place, list)[Max(Range(place))]

\* The side's list is written in place; a reinforcement publishes a new
\* roster and new loadouts at once, when nothing can fail any more.
CommitRoster ==
  /\ At("roster")
  /\ op' = IF op.kind = "reinforce" THEN Idle ELSE [op EXCEPT !.todo = Tail(@)]
  /\ roster' = [roster EXCEPT ![op.side] =
       CASE op.kind = "merge" ->
              Inserted(Kept(@, DOMAIN op.place), Min(Range(op.place)), op.id)
         [] op.kind = "split" -> PlaceUnits(op.place, @)
         [] op.kind = "reinforce" -> @ \o op.wave]
  /\ loadouts' = IF op.kind = "reinforce" THEN loadouts \union ToSet(op.wave) ELSE loadouts
  /\ UNCHANGED <<records, status, archives, targeting, aggregates, nextId>>
  /\ UNCHANGED <<moved, faults, events, history>>

\* Every key to be removed must be there: a missing one raises.
CommitLoadouts ==
  /\ At("loadouts") /\ Advance
  /\ loadouts' = IF op.kind = "merge" THEN (loadouts \ DOMAIN op.place) \union {op.id}
                 ELSE (loadouts \ {op.id}) \union DOMAIN op.place
  /\ UNCHANGED <<roster, records, status, archives, targeting, aggregates, nextId>>
  /\ UNCHANGED <<moved, faults, events, history>>

CommitTargeting ==
  /\ At("targeting") /\ Advance
  /\ targeting' = CASE op.kind = "merge" -> (targeting \ DOMAIN op.place) \union {op.id}
                    [] op.kind = "split" -> (targeting \ {op.id}) \union DOMAIN op.place
                    [] op.kind = "reinforce" -> targeting \union ToSet(op.wave)
  /\ UNCHANGED <<roster, records, status, archives, loadouts, aggregates, nextId>>
  /\ UNCHANGED <<moved, faults, events, history>>

CommitAggregates ==
  /\ At("aggregates") /\ Advance
  /\ IF op.kind = "merge"
     THEN /\ aggregates' = With(aggregates, op.id, op.place)
          /\ nextId' = nextId + 1
          /\ origin' = With(origin, op.id,
               [order |-> op.begun.roster[op.side], records |-> op.archive.of])
     ELSE /\ aggregates' = Without(aggregates, {op.id})
          /\ UNCHANGED <<nextId, origin>>
  /\ UNCHANGED <<roster, records, status, archives, loadouts, targeting, moved, faults, events, evolved>>

\* Both topologies are validated once more before the operation has succeeded.
Validate ==
  /\ At("validate")
  /\ IF TopologyValid
     THEN /\ op' = Idle
          /\ origin' = Restrict(origin, DOMAIN origin \intersect DOMAIN aggregates)
     ELSE /\ op' = [op EXCEPT !.todo = <<"rollback">>]
          /\ UNCHANGED origin
  /\ UNCHANGED <<owners, moved, faults, events, evolved>>

\* An owner raises: before its change, or after it and before the next one.
Raise ==
  /\ op # Idle /\ ~At("rollback") /\ ~(op.kind = "reinforce" /\ At("roster"))
  /\ faults < MaxFaults /\ faults' = faults + 1
  /\ op' = [op EXCEPT !.todo = <<"rollback">>]
  /\ UNCHANGED <<owners, moved, events, history>>

-----------------------------------------------------------------------------
(* Rolling an operation back.                                              *)

\* Mutant: the suspended records of the constituents are forgotten.
MutRollbackMorale ==
  CASE ~op.moraleDone -> UNCHANGED <<records, status, archives>>
    [] op.moraleDone /\ op.kind = "merge" ->
         /\ records' = Joined(Without(records, {op.id}), op.archive.of)
         /\ status' = Joined(Without(status, {op.id}), [u \in DOMAIN op.place |-> "ACTIVE"])
         /\ archives' = Without(archives, {op.id})
    [] op.moraleDone /\ op.kind = "split" ->
         /\ records' = With(Without(records, DOMAIN op.place), op.id, op.archive.baseline)
         /\ status' = With(Without(status, DOMAIN op.place), op.id, op.begun.status[op.id])
         /\ UNCHANGED archives
    [] OTHER ->
         /\ records' = Without(records, ToSet(op.wave)) /\ status' = Without(status, ToSet(op.wave))
         /\ UNCHANGED archives

\* The morale runtime undoes its own part from the plan.
RollbackMorale ==
  CASE ~op.moraleDone -> UNCHANGED <<records, status, archives>>
    [] op.moraleDone /\ op.kind = "merge" ->
         /\ records' = Joined(Without(records, {op.id}), op.archive.of)
         /\ status' = Joined(Without(status, {op.id}), [u \in DOMAIN op.place |-> "ACTIVE"])
         /\ archives' = Without(archives, {op.id})
    [] op.moraleDone /\ op.kind = "split" ->
         /\ records' = With(Without(records, DOMAIN op.place), op.id, op.archive.baseline)
         /\ status' = With(Without(status, DOMAIN op.place), op.id, op.begun.status[op.id])
         /\ archives' = With(archives, op.id, op.archive)
    [] OTHER ->
         /\ records' = Without(records, ToSet(op.wave)) /\ status' = Without(status, ToSet(op.wave))
         /\ UNCHANGED archives

\* The other owners are restored from copies made before the first change;
\* the exception is raised again.
Rollback ==
  /\ At("rollback")
  /\ op' = Idle
  /\ RollbackMorale
  /\ targeting' = op.begun.targeting
  /\ IF op.kind = "reinforce" THEN UNCHANGED <<roster, loadouts, aggregates, nextId>>
     ELSE /\ roster' = op.begun.roster /\ loadouts' = op.begun.loadouts
          /\ aggregates' = op.begun.aggregates /\ nextId' = op.begun.nextId
  /\ UNCHANGED <<moved, faults, events, history>>

-----------------------------------------------------------------------------
(* Between the operations: battles and movement.                           *)

Happens == events < MaxEvents /\ events' = events + 1

\* A morale transition of units that are still in the fight.
Transit(us, to) ==
  /\ op = Idle /\ Happens
  /\ \A u \in us : status[u] # "DESTROYED"
  /\ records' = Joined(records, [u \in us |-> [state |-> to[u], gen |-> records[u].gen + 1]])
  /\ status' = Joined(status, [u \in us |-> RequiredStatus(to[u])])
  /\ evolved' = evolved \union (us \intersect DOMAIN aggregates)
  /\ UNCHANGED <<roster, archives, loadouts, targeting, aggregates, nextId>>
  /\ UNCHANGED <<moved, op, faults, origin>>

\* An admitted check moves to an adjacent state or stays; none leaves
\* SURRENDERED.
CheckTransition(u) ==
  /\ records[u].state # SURRENDERED
  /\ \E m \in MoraleState : m - records[u].state \in -1..1 /\ Transit({u}, [v \in {u} |-> m])

\* Melee routs a unit, a rally brings it back.
ForceTransition(u) == records[u].state <= BROKEN /\ Transit({u}, [v \in {u} |-> ROUTED])
CheckRally(u) == records[u].state = ROUTED /\ Transit({u}, [v \in {u} |-> SHAKEN])

\* A rout spreads to a batch of wavering units, all or none of them.
RoutCascade(u, batch) ==
  /\ records[u].state = ROUTED /\ status[u] # "DESTROYED"
  /\ batch # {}
  /\ \A v \in batch : records[v].state \in {SHAKEN, BROKEN}
  /\ Transit(batch, [v \in batch |-> ROUTED])

\* Combat damage ends an active unit, its morale record stays.
Destroy(u) ==
  /\ op = Idle /\ status[u] = "ACTIVE" /\ Happens
  /\ status' = [status EXCEPT ![u] = "DESTROYED"]
  /\ UNCHANGED <<roster, records, archives, loadouts, targeting, aggregates, nextId>>
  /\ UNCHANGED <<moved, op, faults, history>>

\* Strategic movement moves a proxy like any unit; the aggregate's own
\* position stays behind.
MoveProxy(a) ==
  /\ op = Idle /\ status[a] = "ACTIVE" /\ Happens
  /\ moved' = moved \union {a}
  /\ UNCHANGED <<owners, op, faults, history>>

Next ==
  \/ \E s \in Sides : \E ids \in SUBSET ToSet(roster[s]) : BeginMerge(s, ids)
  \/ \E s \in Sides : \E us \in SUBSET Units : \E wave \in SetToSeqs(us) : BeginReinforce(s, wave)
  \/ \E a \in DOMAIN aggregates : BeginSplit(a) \/ MoveProxy(a)
  \/ CommitMorale \/ RemoveProxy \/ CommitRoster \/ CommitLoadouts
  \/ CommitTargeting \/ CommitAggregates \/ Validate \/ Raise \/ Rollback
  \/ \E u \in DOMAIN records : CheckTransition(u) \/ ForceTransition(u) \/ CheckRally(u) \/ Destroy(u)
  \/ \E u \in DOMAIN records : \E batch \in SUBSET (DOMAIN records \ {u}) : RoutCascade(u, batch)

Spec == Init /\ [][Next]_vars

-----------------------------------------------------------------------------
(* Properties.                                                             *)

Record == [state : MoraleState, gen : 0..MaxEvents]

\* Every variable has its type.
TypeOK ==
  /\ roster \in [Sides -> Seq(Int)]
  /\ \A u \in DOMAIN records : records[u] \in Record
  /\ \A u \in DOMAIN status : status[u] \in {"ACTIVE", "ROUTING", "SURRENDERED", "DESTROYED"}
  /\ loadouts \subseteq Int /\ targeting \subseteq Int
  /\ \A a \in DOMAIN aggregates : a < 0 /\ DOMAIN aggregates[a] \subseteq Units
  /\ nextId \in 0..MaxProxies /\ faults \in 0..MaxFaults /\ events \in 0..MaxEvents

\* The baseline of a proxy is its constituents' worst record, constituents
\* were active, and the next proxy is a new one.
ArchivesBound(o) ==
  /\ \A a \in DOMAIN o.archives :
       /\ o.archives[a].baseline = WorstOf(o.archives[a].of)
       /\ \A u \in DOMAIN o.archives[a].of : Compatible("ACTIVE", o.archives[a].of[u])
  /\ \A a \in DOMAIN o.aggregates : a > Proxy(o.nextId)

\* Between operations the five owners agree on who exists, every unit that ever
\* arrived is in exactly one place, on the roster of its side or in one proxy,
\* and a checkpoint taken then can be restored, whatever happened to a proxy
\* (_supported_owner_topology, MoraleRuntime's stage_state,
\* _stage_aggregation_state).  The restore of a proxy that has moved is
\* refused (runtime_context.py:2139): this is about all others.
Restorable ==
  /\ TypeOK
  /\ op = Idle => OwnersBound(Owners) /\ AggregatesBound(Owners) /\ ArchivesBound(Owners)

Succeeds(kind) == op.kind = kind /\ op.todo = <<"validate">> /\ op'.kind = "none"

\* A split gives back exactly what was merged: the records of the constituents,
\* and the order of the whole side, with whatever has joined it since behind.
\* What happened to the proxy is never lost by it: a proxy whose morale was
\* touched cannot be split, not even when it is back where it was
\* (prepare_disaggregation, disaggregate).
RoundTrip ==
  [][Succeeds("split") =>
       LET was == origin[op.id]
       IN /\ \A u \in DOMAIN was.records : records'[u] = was.records[u] /\ status'[u] = "ACTIVE"
          /\ IsPrefix(was.order, roster'[op.side])
          /\ op.id \notin evolved]_vars

\* An operation that fails leaves every owner as it found it.
AllOrNothing ==
  [][At("rollback") => op'.kind = "none" /\ Owners' = op.begun]_vars
=============================================================================
