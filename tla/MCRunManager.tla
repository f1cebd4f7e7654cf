---------------------------- MODULE MCRunManager ----------------------------
(***************************************************************************)
(* Small instances of RunManager for TLC: a run r1 and a batch b1 contend  *)
(* for one permit and the lifecycle lock.                                  *)
(***************************************************************************)
EXTENDS RunManagerInvariant

CONSTANTS r1, b1
=============================================================================
