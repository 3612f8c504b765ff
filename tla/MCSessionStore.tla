--------------------------- MODULE MCSessionStore ---------------------------
(***************************************************************************)
(* Instances of SessionStore for TLC: two handlers, two sessions.          *)
(***************************************************************************)
EXTENDS SessionStoreProperties, TLC

CONSTANTS w1, w2, a, b

TwoWriters == {w1, w2}
TwoIDs == {a, b}

Symmetry == Permutations(TwoWriters)
=============================================================================
