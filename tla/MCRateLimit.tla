----------------------------- MODULE MCRateLimit -----------------------------
(***************************************************************************)
(* Instance of RateLimit for TLC.                                          *)
(***************************************************************************)
EXTENDS RateLimitProperties, TLC

CONSTANTS c1, c2, k1, k2

TwoConns == {c1, c2}
TwoKeys == {k1, k2}
SomeRates == {0, 1, 2}

Symmetry == Permutations(TwoConns) \union Permutations(TwoKeys)
=============================================================================
