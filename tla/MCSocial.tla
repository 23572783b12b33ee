------------------------------ MODULE MCSocial ------------------------------
(* A small instance of Social for TLC. *)
EXTENDS Social, TLC

Mutual == {<<"u1", "u2">>, <<"u2", "u1">>}

Busy == {r \in Requests : ~At(r, "idle")}

\* At most five follows, empty batches and posts together, the fifth with no other request.
FewSteps == asked + Cardinality(DOMAIN creator) + Cardinality(Busy) <= 6

Sym == Permutations(Requests) \union Permutations(Posts)
=============================================================================
