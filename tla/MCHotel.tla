------------------------------ MODULE MCHotel ------------------------------
(* A small instance of Hotel for TLC. *)
EXTENDS Hotel, TLC

Stay(in, out, rooms) ==
  [customer |-> "c1", hotel |-> "h1", in |-> in, out |-> out, rooms |-> rooms]

\* One room for the first day, one for the second, two for both.
Stays == {Stay(1, 1, 1), Stay(2, 2, 1), Stay(1, 2, 2)}

Sym == Permutations(Requests)
=============================================================================
