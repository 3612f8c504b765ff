------------------------------- MODULE MCRuns -------------------------------
(***************************************************************************)
(* Instances of Runs for TLC.                                              *)
(***************************************************************************)
EXTENDS RunsProperties

CONSTANTS s1, s2, p1, p2     \* streaming and plain requests

Plain == {p1, p2}
Mixed == {s1, p1}
OneStream == {s1}
TwoOfEach == {s1, s2, p1}
NoReqs == {}
TwoStreams == {s1, s2}
=============================================================================
