---------------------------- MODULE MCHeadhunter ----------------------------
(***************************************************************************)
(* Small instances of Headhunter for TLC.                                  *)
(***************************************************************************)
EXTENDS Headhunter, TLC

CONSTANTS p1, p2, v1, noValue

OnePage == {p1}
TwoPages == {p1, p2}
OneValue == {v1}
Symmetry == Permutations({p1, p2})
=============================================================================
