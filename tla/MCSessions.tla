----------------------------- MODULE MCSessions -----------------------------
(***************************************************************************)
(* The instance of Sessions for TLC: two directories and a link, of which  *)
(* a restart may admit one only, two ids, three requests of which one is a *)
(* stream.                                                                 *)
(***************************************************************************)
EXTENDS SessionsProperties, TLC

CONSTANTS r1, r2, r3, i1, i2, d1, d2, link

ThreeReqs == {r1, r2, r3}
OneStream == {r2}
TwoIDs    == {i1, i2}
OneCareful == {i1}
TwoDirs   == {d1, d2}
OneLink   == {link}
Roots     == {{d1, d2}, {d1}}

Symmetry == Permutations({r1, r3})
=============================================================================
