------------------------- MODULE MCAdaptiveLearning -------------------------
(* Two firmware versions; a controller and its successor.                   *)
EXTENDS AdaptiveLearning, TLC

CONSTANTS v1, v2

TwoVersions == {v1, v2}
VersionSymmetry == Permutations(TwoVersions)
=============================================================================
