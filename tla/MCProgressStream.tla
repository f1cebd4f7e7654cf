-------------------------- MODULE MCProgressStream --------------------------
(***************************************************************************)
(* A small instance of ProgressStream: two handlers, queues of two         *)
(* messages, three progress messages and the sentinel, so that queues      *)
(* overflow before and at the sentinel.                                    *)
(***************************************************************************)
EXTENDS ProgressStream

CONSTANTS s1, s2
=============================================================================
