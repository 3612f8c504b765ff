----------------------------- MODULE MCLifecycle -----------------------------
(***************************************************************************)
(* Instances of Lifecycle for TLC.                                         *)
(***************************************************************************)
EXTENDS LifecycleProperties

CONSTANTS s1, p1, p2     \* a streaming request and two plain ones

Plain == {p1, p2}
Mixed == {s1, p1}
Three == {s1, p1, p2}
OneStream == {s1}
NoReqs == {}

Symmetry == Permutations(Plain)
=============================================================================
