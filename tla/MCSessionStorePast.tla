------------------------- MODULE MCSessionStorePast -------------------------
(***************************************************************************)
(* The instance of SessionStorePast for TLC: two handlers, two sessions.   *)
(***************************************************************************)
EXTENDS SessionStorePast, TLC

CONSTANTS w1, w2, a, b

TwoWriters == {w1, w2}
TwoIDs == {a, b}

Symmetry == Permutations(TwoWriters)
=============================================================================
