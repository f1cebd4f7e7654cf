------------------------------ MODULE MCEngine ------------------------------
(***************************************************************************)
(* Small instances of Engine: a strategic tick is worth four tactical      *)
(* ones, and a run lasts a handful of ticks, so that the time limit, the   *)
(* tick limit and an automatic checkpoint all fall within it.              *)
(***************************************************************************)
EXTENDS EngineInvariant
=============================================================================
