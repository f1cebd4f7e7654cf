--------------------------- MODULE MCAggregation ---------------------------
(***************************************************************************)
(* A small instance of Aggregation: a side of three units and a            *)
(* reinforcement, with merges of two or more.                              *)
(***************************************************************************)
EXTENDS Aggregation

MCInitial == [s \in {"blue"} |-> <<2, 1, 3>>]
MCSideOf == [u \in Units |-> "blue"]
=============================================================================
