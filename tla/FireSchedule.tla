---------------------------- MODULE FireSchedule ----------------------------
(***************************************************************************)
(* What a scheduled fire mission promises: every fire and every impact is  *)
(* served at its own time, once, a mission's impact after all its fires,   *)
(* and the simulated time passes none of them.                             *)
(***************************************************************************)
EXTENDS Integers

VARIABLES
  time,   \* the simulated time
  open    \* the milestones still to come: mission, kind, battery, time

vars == <<time, open>>

Init ==
  /\ time = 0
  /\ \A e \in open :
       /\ e.at > time
       /\ e.kind = "fire" =>
            \E f \in open : f.kind = "impact" /\ f.mission = e.mission /\ e.at < f.at

\* At one time, what is fired leaves before anything that is hit is hit.
Serve(e) ==
  /\ e \in open /\ e.at = time
  /\ e.kind = "impact" => \A f \in open : f.kind = "fire" => f.at > time
  /\ open' = open \ {e}
  /\ UNCHANGED time

\* Time reaches at most the next milestone, and leaves none behind.
Pass ==
  /\ time' > time
  /\ \A e \in open : time < e.at /\ time' <= e.at
  /\ UNCHANGED open

Next == Pass \/ \E e \in open : Serve(e)

Spec == Init /\ [][Next]_vars
=============================================================================
