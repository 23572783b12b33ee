--------------------------- MODULE MCRajomonTokens ---------------------------
(* Small instances of RajomonTokens for TLC. *)
EXTENDS RajomonTokens

Waits == [limiting |-> TRUE, waiting |-> TRUE, backoff |-> FALSE, uniform |-> FALSE]
BacksOff == [limiting |-> TRUE, waiting |-> FALSE, backoff |-> TRUE, uniform |-> TRUE]
Unlimited == [limiting |-> FALSE, waiting |-> FALSE, backoff |-> FALSE, uniform |-> FALSE]

AllKinds == {Waits, BacksOff, Unlimited}
==============================================================================
