-------------------------- MODULE MCTimeOnTarget --------------------------
(***************************************************************************)
(* A small instance of TimeOnTarget: two missions of up to two batteries   *)
(* against one target.  Some of the declared times lie between boundaries  *)
(* and some plans overbook a magazine: the resolver refuses them.          *)
(***************************************************************************)
EXTENDS TimeOnTarget

MCUnitOf == [g \in Guns |-> g]
MCPlans ==
  {p \in [Missions -> [impact : {4, 8}, rounds : 1..2, flight : [Guns -> {0, 1, 2, 4}]]] :
     p[1].impact < p[2].impact}
MCTargetOf == [m \in Missions |-> 0]
=============================================================================
