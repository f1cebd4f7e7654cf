-------------------------- MODULE MCDecisionCycle --------------------------
(***************************************************************************)
(* A small instance of DecisionCycle: two commanders, ticks that divide no *)
(* time, a way of planning that its budget cuts short and one in more,     *)
(* shorter phases.                                                         *)
(***************************************************************************)
EXTENDS DecisionCycle

MCMethods == {[phases |-> 2, time |-> 9, budget |-> 3],
              [phases |-> 4, time |-> 1, budget |-> 1]}
=============================================================================
