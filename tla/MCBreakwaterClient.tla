-------------------------- MODULE MCBreakwaterClient --------------------------
(* Small instances of BreakwaterClient for TLC. *)
EXTENDS BreakwaterClient, TLC

Sym == Permutations(Requests)
=============================================================================
