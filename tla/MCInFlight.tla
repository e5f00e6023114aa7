----------------------------- MODULE MCInFlight -----------------------------
(***************************************************************************)
(* Small instances of InFlight for TLC.                                    *)
(***************************************************************************)
EXTENDS InFlight, TLC

CONSTANTS f1, f2, t1, g1, g2

TwoFiles == {f1, f2}
OneClient == {t1}
TwoGoroutines == {g1, g2}
Contexts == Files \X (1..MaxSegments)

\* Files and starvation goroutines are interchangeable.
Symmetry == Permutations(Files) \cup Permutations(Goroutines)
=============================================================================
