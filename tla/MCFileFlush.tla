---------------------------- MODULE MCFileFlush ----------------------------
(***************************************************************************)
(* Small instances of FileFlush for TLC.                                   *)
(***************************************************************************)
EXTENDS FileFlush, TLC

CONSTANTS t1, t2, i1, i2, i3, n1, n2, n3, n4, n5, none

OneThread == {t1}
TwoThreads == {t1, t2}
OneInode == {i1}
TwoInodes == {i1, i2}
ThreeInodes == {i1, i2, i3}
ThreeNumbers == {n1, n2, n3}
FourNumbers == {n1, n2, n3, n4}
FiveNumbers == {n1, n2, n3, n4, n5}

\* Threads, inodes and nonces are interchangeable.
Symmetry == Permutations(Threads) \cup Permutations(Inodes) \cup Permutations(Numbers)
=============================================================================
