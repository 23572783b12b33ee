------------------------ MODULE MCBreakwaterSystem ------------------------
(* Small instances of BreakwaterSystem for TLC. *)
EXTENDS BreakwaterSystem, TLC

Sym == Permutations(Requests)
=============================================================================
