---------------------------- MODULE SupplyBooks ----------------------------
(***************************************************************************)
(* What the logistics of a side promise, whatever the ticks of the clock:  *)
(* stock is served at fixed boundaries, each once and in order; it moves   *)
(* from the depot to units within throughput and maxima, and nothing is    *)
(* lost on the way; a unit is charged its idle rate for exactly the time   *)
(* it was there, and not at all for an interval in which it was active.    *)
(***************************************************************************)
EXTENDS Integers, Functions

CONSTANTS LastUnit, Interval, Throughput, IdleRate, Initial, Maximum

VARIABLES
  boundary,   \* the last boundary that was served
  since,      \* the time from which a unit counts
  depot,      \* stock of the depot
  carried,    \* stock of the units
  stirred     \* units that have been active since the last boundary

vars == <<boundary, since, depot, carried, stirred>>

\* The time of a unit that the next boundary serves.
Seconds(u) ==
  LET from == IF since[u] > boundary THEN since[u] ELSE boundary
  IN IF from < boundary + Interval THEN boundary + Interval - from ELSE 0

\* What is given to the units from 1 to n, and to all of them.
UpTo(give) ==
  LET sum[n \in 0..LastUnit] ==
        IF n = 0 THEN 0 ELSE sum[n - 1] + (IF n \in DOMAIN give THEN give[n] ELSE 0)
  IN sum
Total(give) == UpTo(give)[LastUnit]

Init ==
  /\ boundary = 0 /\ stirred = {}
  /\ since = [u \in DOMAIN since |-> 0]
  /\ carried = [u \in DOMAIN since |-> Initial]

Arrive ==
  /\ DOMAIN since \subseteq DOMAIN since' /\ DOMAIN since' = DOMAIN carried'
  /\ since = Restrict(since', DOMAIN since) /\ carried = Restrict(carried', DOMAIN since)
  /\ \A u \in DOMAIN since' \ DOMAIN since :
       since'[u] >= boundary /\ carried'[u] = Initial
  /\ UNCHANGED <<boundary, depot, stirred>>

Stir ==
  /\ stirred \subseteq stirred' /\ stirred' \subseteq DOMAIN since
  /\ UNCHANGED <<boundary, since, depot, carried>>

\* Units still active when an interval begins are active in it.
Serve(give) ==
  /\ \A u \in DOMAIN since : give[u] <= Throughput * Seconds(u)
  /\ \A u \in DOMAIN since : give[u] > 0 => carried[u] + give[u] <= Maximum
  /\ Total(give) <= depot /\ Total(give) <= Throughput * Interval
  /\ depot' = depot - Total(give)
  /\ carried' = [u \in DOMAIN since |->
       LET charge == IF u \in stirred THEN 0 ELSE IdleRate * Seconds(u)
           stock == carried[u] + give[u]
       IN IF stock > charge THEN stock - charge ELSE 0]
  /\ boundary' = boundary + Interval
  /\ stirred' \subseteq stirred
  /\ UNCHANGED since

Next == Arrive \/ Stir \/ \E give \in [DOMAIN since -> 0..Maximum] : Serve(give)

Spec == Init /\ [][Next]_vars
=============================================================================
