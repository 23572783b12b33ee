------------------------------ MODULE MCTopDown ------------------------------
(* A small instance of TopDown for TLC. *)
EXTENDS TopDown

\* Calls of latency 1 are within the objective.
SloOfOne == [m \in Methods |-> 1]
=============================================================================
