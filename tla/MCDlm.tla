------------------------------- MODULE MCDlm -------------------------------
(***************************************************************************)
(* Instances of Dlm for TLC.                                               *)
(***************************************************************************)
EXTENDS Dlm, TLC

CONSTANTS c1, c2, c3, c4, l1, l2

Three == {c1, c2, c3}
Four == {c1, c2, c3, c4}
OneLock == {l1}
TwoLocks == {l1, l2}

\* Callers and locks are interchangeable: no property names one of them.
Symmetry == Permutations(Callers) \cup Permutations(Locks)
=============================================================================
