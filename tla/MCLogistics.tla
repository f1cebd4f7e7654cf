---------------------------- MODULE MCLogistics ----------------------------
(***************************************************************************)
(* A small instance of Logistics: one unit from the start and one that may *)
(* arrive, ticks shorter than, longer than and not dividing the interval.  *)
(***************************************************************************)
EXTENDS Logistics
=============================================================================
