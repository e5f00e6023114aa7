------------------------------- MODULE RWLock -------------------------------
(***************************************************************************)
(* What package dlm promises its callers: readers-writer locks.  A step    *)
(* releases at most one owner of a lock and grants the lock to a set of    *)
(* callers, all in one mode, that is compatible with the owners left.      *)
(***************************************************************************)
EXTENDS FiniteSets, Naturals

CONSTANTS Locks, Callers

VARIABLE held

Modes == {"shared", "exclusive"}

Init == held = [l \in Locks |-> [c \in Callers |-> "none"]]

\* The callers in S may own the lock in mode m beside the callers in kept.
Compatible(l, kept, S, m) ==
    /\ m = "shared" => \A c \in kept : held[l][c] = "shared"
    /\ m = "exclusive" => kept = {} /\ \A c, d \in S : c = d

Change(l, R, S, m) ==
    LET kept == {c \in Callers \ R : held[l][c] # "none"} IN
    /\ \A c, d \in R : c = d
    /\ \A c \in R : held[l][c] # "none"
    /\ S # {} => Compatible(l, kept, S, m)
    /\ S \cap (kept \cup R) = {}
    /\ held' = [held EXCEPT ![l] =
                 [c \in Callers |-> IF c \in S THEN m
                                    ELSE IF c \in R THEN "none" ELSE held[l][c]]]

Next ==
    \E l \in Locks : \E R, S \in SUBSET Callers : \E m \in Modes : Change(l, R, S, m)

Spec == Init /\ [][Next]_held
=============================================================================
