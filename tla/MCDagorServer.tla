---------------------------- MODULE MCDagorServer ----------------------------
(* Small instances of DagorServer for TLC. *)
EXTENDS DagorServer, TLC

\* Calls of the highest class and of one below it.
TwoClasses == {<<1, 2>>, <<2, 2>>}

Sym == Permutations(Requests) \union Permutations(Counters)
=============================================================================
