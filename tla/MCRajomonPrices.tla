--------------------------- MODULE MCRajomonPrices ---------------------------
(* Small instances of RajomonPrices for TLC. *)
EXTENDS RajomonPrices, TLC

CONSTANTS search, n1, n2

OneMethod == (search :> {n1, n2})
\* decayRate 0.8: from the second increase on it takes a small adjustment to zero.
DecayRate == (0 :> 100) @@ (1 :> 80) @@ (2 :> 64)

NoGuide == -1
==============================================================================
