---------------------------- MODULE MCDagorEntry ----------------------------
(* A small instance of DagorEntry for TLC. *)
EXTENDS DagorEntry

\* Below Bmax, as all business values of hotelApp are: nobody reaches the initial level.
Business == [m \in Methods |-> 2]

CallsTwice == [m \in Methods |-> <<"s", "s">>]

\* One level that everybody reaches, one that only users of priority 2 do.
TwoLevels == {<<1, 1>>, <<2, 2>>}
=============================================================================
