----------------------------- MODULE MCExtents ------------------------------
(***************************************************************************)
(* Extents and read plans of a file of a few bytes.                        *)
(***************************************************************************)
EXTENDS ReadPlan, TLC

CONSTANTS s1, s2, s3

ThreeSegments == {s1, s2, s3}
Symmetry == Permutations(LogSegments)
=============================================================================
