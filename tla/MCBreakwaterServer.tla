------------------------- MODULE MCBreakwaterServer -------------------------
(* Small instances of BreakwaterServer for TLC. *)
EXTENDS BreakwaterServer, TLC

\* Clients, request slots and updater slots are interchangeable.
Sym == Permutations(Clients) \union Permutations(Requests) \union Permutations(Updaters)
=============================================================================
