----------------------------- MODULE DlmProofs -----------------------------
(***************************************************************************)
(* Proofs about the lock manager for any set of locks, any finite set of   *)
(* callers and any bound on the owners lists.                              *)
(*                                                                         *)
(* The argument: TrackOK relates the fields of one track to what was       *)
(* granted.  processLocalQ() preserves it whatever track it starts from    *)
(* (lemma ProcessPreserves), and commonLock() and unlock() call it on a    *)
(* track for which it holds.                                               *)
(***************************************************************************)
EXTENDS Dlm, FiniteSetTheorems, SequenceTheorems,
        WellFoundedInduction, TLAPS

HoldersIn(hld) == {c \in Callers : hld[c] # "none"}

\* The owners count and the state are exact, an exclusive owner is alone,
\* queued callers are distinct and own nothing, and the list has all owners.
TrackOK(st, q, own, list, hld) ==
    /\ own = Cardinality(HoldersIn(hld))
    /\ own = 0 => st = "stale"
    /\ \A c \in Callers : hld[c] \in {"none", st}
    /\ st = "exclusive" => \A c, d \in HoldersIn(hld) : c = d
    /\ \A i \in 1..Len(q) : hld[q[i].caller] = "none"
    /\ \A i, j \in 1..Len(q) : q[i].caller = q[j].caller => i = j
    /\ \A c \in HoldersIn(hld) : \E k \in 1..Len(list) : list[k] = c

\* The head of a queue waits for an owner.
HeadBlocked(st, q, own) ==
    q # <<>> =>
      \/ st = "exclusive" /\ own > 0
      \/ st = "shared" /\ own > 0 /\ q[1].mode = "exclusive"

Waiters(l) == {c \in Callers : call[c].lock = l}

\* What holds of the track of lock l and of the callers that wait for it.
LockOK(l) ==
    /\ TrackOK(state[l], waitReqQ[l], owners[l], listOfOwners[l], held[l])
    /\ HeadBlocked(state[l], waitReqQ[l], owners[l])
    /\ \A i \in 1..Len(waitReqQ[l]) : call[waitReqQ[l][i].caller].lock = l
    /\ waiters[l] = Cardinality(Waiters(l))
    /\ Holders(l) # {} => l \in localLockMap

\* The inductive invariant.
IInv == TypeOK /\ \A l \in Locks : LockOK(l)
-----------------------------------------------------------------------------
\* What is left of a queue without its first n entries.
LEMMA Remainder ==
    ASSUME NEW q \in Seq(QueueEntry), NEW n \in 0..Len(q), NEW w, w = SubSeq(q, n + 1, Len(q))
    PROVE  /\ Len(w) = Len(q) - n
           /\ \A i \in 1..Len(w) : w[i] = q[n + i] /\ n + i \in 1..Len(q)
<1>1. Len(q) \in Nat /\ n \in Nat /\ n <= Len(q)
  OBVIOUS
<1>2. Len(w) = Len(q) - n
  BY <1>1
<1>3. \A i \in 1..Len(w) : n + i \in 1..Len(q)
  BY <1>1, <1>2
<1>4. \A i \in 1..Len(w) : w[i] = q[n + i]
  BY <1>1, <1>2
<1> QED BY Zenon, <1>2, <1>3, <1>4

\* The prefix of length n of a queue of distinct callers has n callers.
LEMMA PrefixCardinality ==
    ASSUME NEW q \in Seq(QueueEntry), NEW n \in 0..Len(q),
           \A i, j \in 1..Len(q) : q[i].caller = q[j].caller => i = j
    PROVE  LET S == {q[i].caller : i \in 1..n}
           IN  IsFiniteSet(S) /\ Cardinality(S) = n /\ S \subseteq Callers
<1> DEFINE S == {q[i].caller : i \in 1..n}
           f == [i \in 1..n |-> q[i].caller]
<1>1. n \in Nat /\ 1..n \subseteq 1..Len(q)
  BY LenProperties
<1>2. \A i \in 1..Len(q) : q[i].caller \in Callers
  <2>1. \A i \in 1..Len(q) : q[i] \in QueueEntry
    OBVIOUS
  <2> QED BY Zenon, <2>1 DEF QueueEntry
<1>3. f \in Bijection(1..n, S)
  <2>1. f \in [1..n -> S]
    BY Zenon
  <2>2. \A i, j \in 1..n : f[i] = f[j] => i = j
    BY Zenon, <1>1
  <2>3. \A s \in S : \E i \in 1..n : f[i] = s
    BY Zenon
  <2> QED BY Zenon, <2>1, <2>2, <2>3 DEF Bijection, Injection, Surjection, IsInjective
<1>4. ExistsBijection(1..n, S)
  BY Zenon, <1>3 DEF ExistsBijection
<1>5. Cardinality(S) = n
  BY Zenon, <1>1, <1>4, FS_CountingElements
<1>6. S \subseteq Callers
  BY Zenon, <1>1, <1>2
<1>7. IsFiniteSet(S)
  BY Zenon, <1>6, CallersAssumption, FS_Subset
<1> QED BY Zenon, <1>5, <1>6, <1>7

\* processLocalQ() on a track for which TrackOK holds: TrackOK holds after it,
\* and the head of the queue that is left waits for an owner.
LEMMA ProcessPreserves ==
    ASSUME TypeOK, NEW l \in Locks,
           NEW st \in {"stale", "shared", "exclusive"},
           NEW q \in Seq(QueueEntry), NEW own \in Nat,
           NEW list \in Seq(Callers),
           NEW hld \in [Callers -> Modes \cup {"none"}],
           NEW n \in 0..Len(q),
           TrackOK(st, q, own, list, hld),
           ProcessLocalQ(l, st, q, own, list, hld, n)
    PROVE  /\ TrackOK(state'[l], waitReqQ'[l], owners'[l], listOfOwners'[l],
                      held'[l])
           /\ HeadBlocked(state'[l], waitReqQ'[l], owners'[l])
           /\ state' \in [Locks -> {"stale", "shared", "exclusive"}]
           /\ owners' \in [Locks -> Nat]
           /\ listOfOwners' \in [Locks -> Seq(Callers)]
           /\ waitReqQ' \in [Locks -> Seq(QueueEntry)]
           /\ held' \in [Locks -> [Callers -> Modes \cup {"none"}]]
<1> DEFINE granted == {q[i].caller : i \in 1..n}
           st2 == IF n = 0 THEN st ELSE q[1].mode
           new == [i \in 1..n |-> q[i].caller]
           list2 == list \o new
           q2 == SubSeq(q, n + 1, Len(q))
           hld2 == [c \in Callers |-> IF \E i \in 1..n : q[i].caller = c
                                        THEN q[1].mode ELSE hld[c]]
<1>1. /\ state' = [state EXCEPT ![l] = st2]
      /\ owners' = [owners EXCEPT ![l] = own + n]
      /\ listOfOwners' = [listOfOwners EXCEPT ![l] = list2]
      /\ waitReqQ' = [waitReqQ EXCEPT ![l] = q2]
      /\ held' = [held EXCEPT ![l] = hld2]
      /\ GrantsPrefix(st, q, n)
  BY Zenon DEF ProcessLocalQ
<1>2. /\ n \in Nat /\ Len(q) \in Nat /\ n <= Len(q)
      /\ \A i \in 1..Len(q) : q[i] \in QueueEntry
  OBVIOUS
<1>3. \A i \in 1..Len(q) : q[i].caller \in Callers /\ q[i].mode \in Modes
  BY Zenon, <1>2 DEF QueueEntry
<1>4. /\ IsFiniteSet(granted) /\ Cardinality(granted) = n
      /\ granted \subseteq Callers
  BY Zenon, PrefixCardinality DEF TrackOK
<1>5. st2 \in {"stale", "shared", "exclusive"}
  BY <1>2, <1>3 DEF Modes
<1>6. new \in Seq(Callers) /\ Len(new) = n
  BY <1>2, <1>3
<1>7. /\ list2 \in Seq(Callers) /\ Len(list2) = Len(list) + n
      /\ \A i \in 1..Len(list) : list2[i] = list[i]
      /\ \A i \in 1..n : list2[Len(list) + i] = q[i].caller
  <2> HIDE DEF new
  <2>1. /\ list2 \in Seq(Callers) /\ Len(list2) = Len(list) + Len(new)
        /\ \A i \in 1..(Len(list) + Len(new)) :
             list2[i] = IF i <= Len(list) THEN list[i] ELSE new[i - Len(list)]
    BY ZenonT(60), <1>6, ConcatProperties
  <2> HIDE DEF list2
  <2>2. Len(list) \in Nat
    OBVIOUS
  <2>3. \A i \in 1..Len(list) : list2[i] = list[i]
    BY <1>2, <1>6, <2>1, <2>2
  <2>4. ASSUME NEW i \in 1..n PROVE list2[Len(list) + i] = q[i].caller
    <3>1. /\ Len(list) + i \in 1..(Len(list) + Len(new)) /\ ~(Len(list) + i <= Len(list))
          /\ (Len(list) + i) - Len(list) = i
      BY <1>2, <1>6, <2>2
    <3>2. list2[Len(list) + i] = new[i]
      BY Zenon, <2>1, <3>1
    <3> QED BY Zenon, <3>2 DEF new
  <2> QED BY Zenon, <1>6, <2>1, <2>3, <2>4
<1>8. /\ q2 \in Seq(QueueEntry) /\ Len(q2) = Len(q) - n
      /\ \A i \in 1..(Len(q) - n) : q2[i] = q[n + i]
  BY <1>2
<1>9. hld2 \in [Callers -> Modes \cup {"none"}]
  BY <1>2, <1>3
<1>10. HoldersIn(hld2) = HoldersIn(hld) \cup granted
  BY SMTT(30), <1>2, <1>3, <1>4 DEF HoldersIn, Modes
<1>11. \A i \in 1..Len(q) : hld[q[i].caller] = "none"
  BY Zenon DEF TrackOK
<1>12. HoldersIn(hld) \cap granted = {}
  BY <1>2, <1>11 DEF HoldersIn
<1>13. own + n = Cardinality(HoldersIn(hld2))
  <2>1. IsFiniteSet(HoldersIn(hld))
    BY Zenon, CallersAssumption, FS_Subset DEF HoldersIn
  <2>2. own = Cardinality(HoldersIn(hld))
    BY Zenon DEF TrackOK
  <2>3. Cardinality(HoldersIn(hld) \cup granted) =
          own + n - Cardinality(HoldersIn(hld) \cap granted)
    BY Zenon, <2>1, <2>2, <1>4, FS_Union
  <2>4. Cardinality(HoldersIn(hld) \cap granted) = 0
    BY Zenon, <1>12, FS_EmptySet
  <2> HIDE DEF granted, hld2
  <2> QED BY <2>3, <2>4, <1>2, <1>10
<1>14. /\ n > 0 => st2 = q[1].mode /\ st2 # "stale"
       /\ n > 0 /\ st2 = "shared" => st # "exclusive"
       /\ n > 0 /\ st2 = "exclusive" => n = 1 /\ st = "stale"
  BY <1>1, <1>2, <1>3 DEF GrantsPrefix, Modes
<1>15. own + n = 0 => st2 = "stale"
  BY <1>2 DEF TrackOK
<1>1x. \A c \in Callers : hld[c] \in {"none", st} /\ hld[c] # "stale"
  BY Zenon DEF TrackOK, Modes
<1>16. \A c \in Callers : hld2[c] \in {"none", st2}
  <2>1. CASE n = 0
    BY <2>1, <1>1x
  <2>2. CASE n > 0
    <3>1. \A c \in Callers : hld[c] \in {"none", st2}
      BY Zenon, <2>2, <1>5, <1>14, <1>1x
    <3> QED BY Zenon, <3>1, <2>2, <1>14
  <2> QED BY <2>1, <2>2, <1>2
<1>17. st2 = "exclusive" => \A c, d \in HoldersIn(hld2) : c = d
  <2>1. CASE n = 0
    BY <2>1, <1>10 DEF TrackOK
  <2>2. CASE n > 0
    <3> SUFFICES ASSUME st2 = "exclusive"
                 PROVE  \A c, d \in HoldersIn(hld2) : c = d
      BY Zenon
    <3>1. HoldersIn(hld) = {}
      BY Zenon, <2>2, <1>14, <1>1x DEF HoldersIn
    <3>2. n = 1
      BY Zenon, <2>2, <1>14
    <3>3. granted = {q[1].caller}
      BY <3>2
    <3> QED BY Zenon, <3>1, <3>3, <1>10
  <2>3. n = 0 \/ n > 0
    BY <1>2
  <2> HIDE DEF st2, hld2
  <2> QED BY Zenon, <2>1, <2>2, <2>3
<1>18. \A i \in 1..Len(q2) : hld2[q2[i].caller] = "none"
  <2> SUFFICES ASSUME NEW i \in 1..Len(q2)
               PROVE  hld2[q2[i].caller] = "none"
    BY Zenon
  <2>1. q2[i] = q[n + i] /\ n + i \in 1..Len(q)
    BY <1>2, <1>8
  <2>2. \A j \in 1..n : q[j].caller # q[n + i].caller
    <3>1. \A a, b \in 1..Len(q) : q[a].caller = q[b].caller => a = b
      BY Zenon DEF TrackOK
    <3>2. \A j \in 1..n : j \in 1..Len(q) /\ j # n + i
      BY <1>2
    <3> QED BY Zenon, <2>1, <3>1, <3>2
  <2> HIDE DEF q2
  <2> QED BY Zenon, <2>1, <2>2, <1>3, <1>11
<1>19. \A i, j \in 1..Len(q2) : q2[i].caller = q2[j].caller => i = j
  <2> HIDE DEF q2
  <2> SUFFICES ASSUME NEW i \in 1..Len(q2), NEW j \in 1..Len(q2),
                      q2[i].caller = q2[j].caller
               PROVE  i = j
    BY Zenon
  <2>1. /\ n + i \in 1..Len(q) /\ n + j \in 1..Len(q)
        /\ q2[i] = q[n + i] /\ q2[j] = q[n + j]
    BY <1>2, <1>8
  <2>2. n + i = n + j
    BY Zenon, <2>1 DEF TrackOK
  <2> QED BY <1>2, <1>8, <2>2
<1>20. \A c \in HoldersIn(hld2) : \E k \in 1..Len(list2) : list2[k] = c
  <2> HIDE DEF list2
  <2>1. \A c \in HoldersIn(hld) : \E k \in 1..Len(list2) : list2[k] = c
    BY <1>2, <1>7 DEF TrackOK
  <2>2. \A c \in granted : \E k \in 1..Len(list2) : list2[k] = c
    <3> SUFFICES ASSUME NEW i \in 1..n
                 PROVE  \E k \in 1..Len(list2) : list2[k] = q[i].caller
      BY Zenon
    <3>1. Len(list) + i \in 1..Len(list2)
      BY <1>2, <1>7
    <3> QED BY Zenon, <3>1, <1>7
  <2> QED BY Zenon, <2>1, <2>2, <1>10
<1>21. TrackOK(st2, q2, own + n, list2, hld2)
  BY Zenon, <1>13, <1>15, <1>16, <1>17, <1>18, <1>19, <1>20 DEF TrackOK
<1>22. HeadBlocked(st2, q2, own + n)
  <2> HIDE DEF q2, st2
  <2>1. q2 # <<>> => n < Len(q) /\ q2[1] = q[n + 1]
    BY SMTT(30), <1>2, <1>8
  <2>2. st2 # "stale" => own + n > 0
    BY <1>21, <1>2 DEF TrackOK
  <2> QED BY <2>1, <2>2, <1>1, <1>2, <1>3, <1>14 DEF HeadBlocked, GrantsPrefix, Modes, st2
<1>23. /\ state'[l] = st2 /\ waitReqQ'[l] = q2 /\ owners'[l] = own + n
       /\ listOfOwners'[l] = list2 /\ held'[l] = hld2
  BY Zenon, <1>1 DEF TypeOK
<1>24. /\ state' \in [Locks -> {"stale", "shared", "exclusive"}]
       /\ owners' \in [Locks -> Nat]
       /\ listOfOwners' \in [Locks -> Seq(Callers)]
       /\ waitReqQ' \in [Locks -> Seq(QueueEntry)]
       /\ held' \in [Locks -> [Callers -> Modes \cup {"none"}]]
  <2> HIDE DEF st2, q2, list2, hld2
  <2> QED BY <1>1, <1>2, <1>5, <1>7, <1>8, <1>9 DEF TypeOK
<1> HIDE DEF st2, q2, list2, hld2
<1> QED BY Zenon, <1>21, <1>22, <1>23, <1>24

\* removeFromListOfOwners() loses no owner but the one it removes.
LEMMA RemoveKeepsOthers ==
    ASSUME NEW list \in Seq(Callers), NEW c \in Callers,
           \E k \in 1..Len(list) : list[k] = c
    PROVE  LET list2 == RemoveFromListOfOwners(list, c)
           IN  /\ list2 \in Seq(Callers)
               /\ \A k \in 1..Len(list) :
                    list[k] # c => \E m \in 1..Len(list2) : list2[m] = list[k]
<1> DEFINE P(i) == list[i] = c /\ \A j \in 1..(i - 1) : list[j] # c
           first == CHOOSE i \in DOMAIN list : P(i)
           list2 == [i \in 1..Len(list) |->
                       IF i < first \/ i = Len(list) THEN list[i] ELSE list[i + 1]]
<1>1. Len(list) \in Nat
  OBVIOUS
<1>d. DOMAIN list = 1..Len(list)
  OBVIOUS
<1>2. \E i \in DOMAIN list : P(i)
  <2> DEFINE T == {k \in 1..Len(list) : list[k] = c}
             R == OpToRel(<, Nat)
  <2>1. T \subseteq Nat /\ T # {}
    BY <1>1
  <2>2. \E x \in T : \A y \in T : ~(<<y, x>> \in R)
    <3> HIDE DEF T, R
    <3>1. IsWellFoundedOn(R, Nat)
      BY Zenon, NatLessThanWellFounded DEF R
    <3> QED BY Zenon, <3>1, <2>1, WFMin
  <2>3. \A y, x \in T : <<y, x>> \in R <=> y < x
    BY Zenon, <2>1 DEF OpToRel
  <2>4. PICK x \in T : \A y \in T : ~(y < x)
    BY Zenon, <2>2, <2>3
  <2>5. x \in 1..Len(list) /\ list[x] = c
    BY Zenon
  <2>6. \A j \in 1..(x - 1) : j \in 1..Len(list) /\ j < x
    BY <2>5, <1>1
  <2>7. \A j \in 1..(x - 1) : list[j] # c
    BY Zenon, <2>4, <2>6
  <2> QED BY Zenon, <2>5, <2>7, <1>d
<1>3. first \in 1..Len(list) /\ list[first] = c
  BY Zenon, <1>d, <1>2
<1>4. RemoveFromListOfOwners(list, c) = list2
  BY Zenon DEF RemoveFromListOfOwners
<1> HIDE DEF first
<1>5. list2 \in Seq(Callers) /\ Len(list2) = Len(list)
  <2>1. \A i \in 1..Len(list) : i # Len(list) => i + 1 \in 1..Len(list)
    BY <1>1
  <2>2. \A i \in 1..Len(list) : list[i] \in Callers
    OBVIOUS
  <2>3. list2 \in [1..Len(list) -> Callers]
    BY Zenon, <2>1, <2>2
  <2> HIDE DEF list2
  <2> QED BY <2>3, <1>1
<1>6. ASSUME NEW k \in 1..Len(list), list[k] # c
      PROVE  \E m \in 1..Len(list2) : list2[m] = list[k]
  <2>1. CASE k < first
    BY Zenon, <2>1, <1>1, <1>5
  <2>2. CASE k > first
    <3>1. k - 1 \in 1..Len(list) /\ ~(k - 1 < first) /\ k - 1 # Len(list)
      BY <2>2, <1>1, <1>3
    <3>2. list2[k - 1] = list[k]
      BY <3>1, <1>1
    <3> HIDE DEF list2
    <3> QED BY Zenon, <3>1, <3>2, <1>5
  <2>3. k < first \/ k > first
    BY <1>1, <1>3, <1>6
  <2> QED BY Zenon, <2>1, <2>2, <2>3
<1> HIDE DEF list2
<1> QED BY Zenon, <1>4, <1>5, <1>6

-----------------------------------------------------------------------------
LEMMA InitIInv == Init => IInv
<1> SUFFICES ASSUME Init PROVE IInv
  BY Zenon
<1>1. TypeOK
  BY DEF Init, TypeOK
<1>2. ASSUME NEW l \in Locks
      PROVE  /\ HoldersIn(held[l]) = {} /\ Holders(l) = {} /\ Waiters(l) = {}
             /\ owners[l] = 0 /\ waiters[l] = 0
             /\ state[l] = "stale" /\ waitReqQ[l] = <<>>
             /\ \A c \in Callers : held[l][c] = "none"
  BY Zenon, <1>2, LocksAssumption DEF Init, HoldersIn, Holders, Waiters, NoRequest
<1>3. Cardinality({}) = 0
  BY Zenon, FS_EmptySet
<1>4. ASSUME NEW l \in Locks PROVE 1..Len(waitReqQ[l]) = {}
  <2>1. Len(waitReqQ[l]) = 0
    BY <1>2
  <2> QED BY <2>1
<1>5. ASSUME NEW l \in Locks
      PROVE  TrackOK(state[l], waitReqQ[l], owners[l], listOfOwners[l], held[l])
  BY Zenon, <1>2, <1>3, <1>4 DEF TrackOK
<1>6. ASSUME NEW l \in Locks
      PROVE  /\ HeadBlocked(state[l], waitReqQ[l], owners[l])
             /\ \A i \in 1..Len(waitReqQ[l]) : call[waitReqQ[l][i].caller].lock = l
             /\ waiters[l] = Cardinality(Waiters(l))
             /\ Holders(l) # {} => l \in localLockMap
  BY Zenon, <1>2, <1>3, <1>4 DEF HeadBlocked
<1> QED BY Zenon, <1>1, <1>5, <1>6 DEF IInv, LockOK

\* Who queues is a caller.
LEMMA QueuedAreCallers ==
    ASSUME TypeOK, NEW k \in Locks, NEW i \in 1..Len(waitReqQ[k])
    PROVE  waitReqQ[k][i].caller \in Callers
<1>1. waitReqQ[k] \in Seq(QueueEntry)
  BY Zenon DEF TypeOK
<1>2. waitReqQ[k][i] \in QueueEntry
  BY <1>1
<1> QED BY Zenon, <1>2 DEF QueueEntry

\* What the rest of a step leaves alone: the tracks of the other locks.
LEMMA OtherTracks ==
    ASSUME TypeOK, NEW l \in Locks, NEW k \in Locks, k # l,
           NEW st, NEW q, NEW own, NEW list, NEW hld, NEW n,
           ProcessLocalQ(l, st, q, own, list, hld, n)
    PROVE  /\ state'[k] = state[k] /\ waitReqQ'[k] = waitReqQ[k]
           /\ owners'[k] = owners[k] /\ listOfOwners'[k] = listOfOwners[k]
           /\ held'[k] = held[k]
BY Zenon DEF TypeOK, ProcessLocalQ

LEMMA LockPreserves ==
    ASSUME IInv, NEW c \in Callers, NEW l \in Locks, NEW m \in Modes,
           NEW try \in BOOLEAN, Lock(c, l, m, try)
    PROVE  IInv'
<1> DEFINE e == [caller |-> c, mode |-> m]
           q == Append(waitReqQ[l], e)
           r == [lock |-> l, mode |-> m, try |-> try]
<1>1. PICK n \in 0..Len(q) :
        /\ ProcessLocalQ(l, state[l], q, owners[l], listOfOwners[l], held[l], n)
        /\ waiters' = [waiters EXCEPT ![l] = WaitersAfter(@, n = Len(q))]
        /\ call' = IF n = Len(q) THEN call ELSE [call EXCEPT ![c] = r]
  BY Zenon DEF Lock, Enqueue
<1>2. /\ TypeOK /\ call[c] = NoRequest /\ held[l][c] = "none"
      /\ localLockMap' = localLockMap \cup {l}
  BY Zenon DEF Lock, IInv
<1>3. \A k \in Locks : call[c].lock # k
  BY <1>2, LocksAssumption DEF NoRequest
<1>4. /\ waitReqQ[l] \in Seq(QueueEntry) /\ e \in QueueEntry
      /\ state[l] \in {"stale", "shared", "exclusive"} /\ owners[l] \in Nat
      /\ listOfOwners[l] \in Seq(Callers)
      /\ held[l] \in [Callers -> Modes \cup {"none"}]
      /\ r \in Request
  BY Zenon, <1>2 DEF TypeOK, QueueEntry, Request
<1>5. /\ q \in Seq(QueueEntry) /\ Len(q) = Len(waitReqQ[l]) + 1
      /\ \A i \in 1..Len(waitReqQ[l]) : q[i] = waitReqQ[l][i]
      /\ q[Len(q)] = e
  <2> HIDE DEF e
  <2> QED BY <1>4
<1>6. \A i \in 1..Len(q) : i \in 1..Len(waitReqQ[l]) \/ i = Len(q)
  BY <1>4, <1>5
<1>7. TrackOK(state[l], q, owners[l], listOfOwners[l], held[l])
  <2>1. TrackOK(state[l], waitReqQ[l], owners[l], listOfOwners[l], held[l])
    BY Zenon DEF IInv, LockOK
  <2>2. \A i \in 1..Len(waitReqQ[l]) : waitReqQ[l][i].caller # c
    BY Zenon, <1>3 DEF IInv, LockOK
  <2> HIDE DEF q
  <2>5. q[Len(q)].caller = c
    BY <1>5
  <2> HIDE DEF e
  <2>3. \A i \in 1..Len(q) : held[l][q[i].caller] = "none"
    <3> SUFFICES ASSUME NEW i \in 1..Len(q) PROVE held[l][q[i].caller] = "none"
      BY Zenon
    <3>1. CASE i = Len(q)
      BY Zenon, <1>2, <2>5, <3>1
    <3>2. CASE i \in 1..Len(waitReqQ[l])
      <4>1. q[i] = waitReqQ[l][i] /\ held[l][waitReqQ[l][i].caller] = "none"
        BY Zenon, <1>5, <2>1, <3>2 DEF TrackOK
      <4> QED BY Zenon, <4>1
    <3> QED BY Zenon, <1>6, <3>1, <3>2
  <2>4. \A i, j \in 1..Len(q) : q[i].caller = q[j].caller => i = j
    <3> SUFFICES ASSUME NEW i \in 1..Len(q), NEW j \in 1..Len(q), q[i].caller = q[j].caller
                 PROVE  i = j
      BY Zenon
    <3>1. \A k \in 1..Len(waitReqQ[l]) :
            q[k].caller = waitReqQ[l][k].caller /\ q[k].caller # c
      BY Zenon, <1>5, <2>2
    <3>2. CASE i = Len(q) \/ j = Len(q)
      BY Zenon, <1>6, <2>5, <3>1, <3>2
    <3>3. CASE i \in 1..Len(waitReqQ[l]) /\ j \in 1..Len(waitReqQ[l])
      BY Zenon, <2>1, <3>1, <3>3 DEF TrackOK
    <3> QED BY Zenon, <1>6, <3>2, <3>3
  <2> QED BY Zenon, <2>1, <2>3, <2>4 DEF TrackOK
<1>8. /\ TrackOK(state'[l], waitReqQ'[l], owners'[l], listOfOwners'[l], held'[l])
      /\ HeadBlocked(state'[l], waitReqQ'[l], owners'[l])
      /\ state' \in [Locks -> {"stale", "shared", "exclusive"}]
      /\ owners' \in [Locks -> Nat]
      /\ listOfOwners' \in [Locks -> Seq(Callers)]
      /\ waitReqQ' \in [Locks -> Seq(QueueEntry)]
      /\ held' \in [Locks -> [Callers -> Modes \cup {"none"}]]
  <2> HIDE DEF q
  <2> QED BY Zenon, <1>1, <1>2, <1>4, <1>5, <1>7, ProcessPreserves
<1>9. /\ waitReqQ'[l] = SubSeq(q, n + 1, Len(q))
      /\ Len(waitReqQ'[l]) = Len(q) - n
      /\ \A i \in 1..Len(waitReqQ'[l]) :
           waitReqQ'[l][i] = q[n + i] /\ n + i \in 1..Len(q)
  <2> HIDE DEF q
  <2>1. waitReqQ'[l] = SubSeq(q, n + 1, Len(q))
    BY Zenon, <1>1, <1>2 DEF ProcessLocalQ, TypeOK
  <2>2. PICK w : w = SubSeq(q, n + 1, Len(q))
    BY Zenon
  <2>3. q \in Seq(QueueEntry) /\ n \in 0..Len(q)
    BY Zenon, <1>1, <1>5
  <2>4. /\ Len(w) = Len(q) - n
        /\ \A i \in 1..Len(w) : w[i] = q[n + i] /\ n + i \in 1..Len(q)
    BY Zenon, <2>2, <2>3, Remainder
  <2> QED BY Zenon, <2>1, <2>2, <2>4
<1>10. /\ call' \in [Callers -> Request \cup {NoRequest}]
       /\ \A k \in Locks : k # l => waiters'[k] = waiters[k]
       /\ \A d \in Callers : d # c => call'[d] = call[d]
       /\ call'[c].lock = IF n = Len(q) THEN "none" ELSE l
       /\ waiters' = IF n = Len(q) THEN waiters
                                   ELSE [waiters EXCEPT ![l] = @ + 1]
  <2> HIDE DEF q
  <2>1. CASE n = Len(q)
    BY <2>1, <1>1, <1>2 DEF TypeOK, NoRequest, WaitersAfter
  <2>2. CASE n # Len(q)
    BY Zenon, <2>2, <1>1, <1>2, <1>4 DEF TypeOK, WaitersAfter
  <2> QED BY Zenon, <2>1, <2>2
<1>11. TypeOK'
  <2>1. waiters' \in [Locks -> Nat]
    BY <1>2, <1>10 DEF TypeOK
  <2> QED BY Zenon, <2>1, <1>2, <1>8, <1>10 DEF TypeOK
<1>12. ASSUME NEW k \in Locks
       PROVE  waiters'[k] = Cardinality(Waiters(k)')
  <2>1. waiters[k] = Cardinality(Waiters(k)) /\ IsFiniteSet(Waiters(k))
    BY Zenon, CallersAssumption, FS_Subset DEF IInv, LockOK, Waiters
  <2>2. c \notin Waiters(k)
    BY Zenon, <1>3 DEF Waiters
  <2>3. CASE k = l /\ n # Len(q)
    <3>1. Waiters(k)' = Waiters(k) \cup {c}
      BY Zenon, <2>3, <1>10 DEF Waiters
    <3>2. waiters'[k] = waiters[k] + 1
      BY Zenon, <2>3, <1>2, <1>10 DEF TypeOK
    <3> QED BY ZenonT(60), <3>1, <3>2, <2>1, <2>2, FS_AddElement
  <2>4. CASE k # l \/ n = Len(q)
    <3>1. Waiters(k)' = Waiters(k)
      BY Zenon, <2>4, <1>3, <1>10, LocksAssumption DEF Waiters
    <3>2. waiters'[k] = waiters[k]
      BY Zenon, <2>4, <1>10
    <3> QED BY Zenon, <3>1, <3>2, <2>1
  <2> QED BY Zenon, <2>3, <2>4
<1>13. ASSUME NEW k \in Locks
       PROVE  /\ TrackOK(state'[k], waitReqQ'[k], owners'[k], listOfOwners'[k], held'[k])
              /\ HeadBlocked(state'[k], waitReqQ'[k], owners'[k])
              /\ \A i \in 1..Len(waitReqQ'[k]) : call'[waitReqQ'[k][i].caller].lock = k
              /\ Holders(k)' # {} => k \in localLockMap'
  <2>1. CASE k = l
    <3>1. \A i \in 1..Len(waitReqQ'[l]) : call'[waitReqQ'[l][i].caller].lock = l
      <4> SUFFICES ASSUME NEW i \in 1..Len(waitReqQ'[l])
                   PROVE  call'[waitReqQ'[l][i].caller].lock = l
        BY Zenon
      <4> HIDE DEF q
      <4>1. waitReqQ'[l][i] = q[n + i] /\ n + i \in 1..Len(q) /\ n # Len(q)
        <5>1. Len(q) \in Nat /\ Len(waitReqQ'[l]) = Len(q) - n
          BY <1>9, <1>5
        <5> QED BY <5>1, <1>9
      <4>2. CASE n + i = Len(q)
        BY <4>1, <4>2, <1>5, <1>10
      <4>3. CASE n + i \in 1..Len(waitReqQ[l])
        <5>1. q[n + i] = waitReqQ[l][n + i] /\ call[waitReqQ[l][n + i].caller].lock = l
          BY Zenon, <4>3, <1>5 DEF IInv, LockOK
        <5>2. waitReqQ[l][n + i].caller \in Callers
          BY Zenon, <4>3, <1>2, QueuedAreCallers
        <5>3. waitReqQ[l][n + i].caller # c
          BY Zenon, <5>1, <1>3
        <5>4. call'[waitReqQ[l][n + i].caller] = call[waitReqQ[l][n + i].caller]
          BY Zenon, <5>2, <5>3, <1>10
        <5> QED BY Zenon, <4>1, <5>1, <5>4
      <4> QED BY Zenon, <4>1, <4>2, <4>3, <1>6
    <3> QED BY Zenon, <2>1, <3>1, <1>2, <1>8
  <2>2. CASE k # l
    <3>1. /\ state'[k] = state[k] /\ waitReqQ'[k] = waitReqQ[k]
          /\ owners'[k] = owners[k] /\ listOfOwners'[k] = listOfOwners[k]
          /\ held'[k] = held[k]
      <4> HIDE DEF q
      <4> QED BY Zenon, <2>2, <1>1, <1>2, OtherTracks
    <3>2. \A i \in 1..Len(waitReqQ[k]) :
            waitReqQ[k][i].caller \in Callers /\ waitReqQ[k][i].caller # c
      BY ZenonT(60), <1>2, <1>3, QueuedAreCallers DEF IInv, LockOK
    <3>3. \A i \in 1..Len(waitReqQ[k]) : call'[waitReqQ[k][i].caller].lock = k
      BY Zenon, <3>2, <1>10 DEF IInv, LockOK
    <3>4. Holders(k)' = Holders(k)
      BY Zenon, <3>1 DEF Holders
    <3>5. LockOK(k)
      BY Zenon DEF IInv
    <3> QED BY Zenon, <3>1, <3>3, <3>4, <3>5, <1>2 DEF LockOK
  <2> QED BY Zenon, <2>1, <2>2
<1>14. \A k \in Locks : LockOK(k)'
  BY Zenon, <1>12, <1>13 DEF LockOK
<1> QED BY Zenon, <1>11, <1>14 DEF IInv

LEMMA WakeUpPreserves ==
    ASSUME IInv, NEW c \in Callers, WakeUp(c)
    PROVE  IInv'
<1> DEFINE l == call[c].lock
<1>1. /\ TypeOK /\ l \in Locks /\ held[l][c] # "none"
      /\ waiters' = [waiters EXCEPT ![l] = @ - 1]
      /\ call' = [call EXCEPT ![c] = NoRequest]
      /\ UNCHANGED <<localLockMap, owners, state, listOfOwners, waitReqQ, held>>
  BY Zenon DEF WakeUp, IInv, TypeOK, Request
<1> HIDE DEF l
<1>2. /\ call'[c].lock = "none"
      /\ \A d \in Callers : d # c => call'[d] = call[d]
  BY Zenon, <1>1 DEF TypeOK, NoRequest
<1>3. ASSUME NEW k \in Locks
      PROVE  waiters'[k] = Cardinality(Waiters(k)') /\ waiters'[k] \in Nat
  <2>1. waiters[k] = Cardinality(Waiters(k)) /\ IsFiniteSet(Waiters(k))
    BY ZenonT(30), CallersAssumption, FS_Subset DEF IInv, LockOK, Waiters
  <2>2. Waiters(k)' = Waiters(k) \ {c}
    BY Zenon, <1>2, LocksAssumption DEF Waiters
  <2>3. c \in Waiters(k) <=> k = l
    BY Zenon DEF Waiters, l
  <2>4. /\ IsFiniteSet(Waiters(k) \ {c})
        /\ Cardinality(Waiters(k) \ {c}) =
             IF k = l THEN Cardinality(Waiters(k)) - 1 ELSE Cardinality(Waiters(k))
    BY Zenon, <2>1, <2>3, FS_RemoveElement
  <2>5. waiters'[k] = IF k = l THEN waiters[k] - 1 ELSE waiters[k]
    BY Zenon, <1>1 DEF TypeOK
  <2>6. Cardinality(Waiters(k) \ {c}) \in Nat
    BY Zenon, <2>4, FS_CardinalityType
  <2> QED BY Zenon, <2>1, <2>2, <2>4, <2>5, <2>6
<1>4. TypeOK'
  <2>1. waiters' \in [Locks -> Nat]
    BY Zenon, <1>1, <1>3 DEF TypeOK
  <2> QED BY Zenon, <1>1, <2>1 DEF TypeOK
<1>5. ASSUME NEW k \in Locks, NEW i \in 1..Len(waitReqQ[k])
      PROVE  call'[waitReqQ[k][i].caller].lock = k
  <2>1. call[waitReqQ[k][i].caller].lock = k /\ waitReqQ[k][i].caller \in Callers
    BY Zenon, <1>1, QueuedAreCallers DEF IInv, LockOK
  <2>2. held[k][waitReqQ[k][i].caller] = "none"
    BY Zenon DEF IInv, LockOK, TrackOK
  <2>3. waitReqQ[k][i].caller # c
    BY Zenon, <2>1, <2>2, <1>1 DEF l
  <2> QED BY Zenon, <2>1, <2>3, <1>2
<1>6. ASSUME NEW k \in Locks
      PROVE  /\ TrackOK(state'[k], waitReqQ'[k], owners'[k], listOfOwners'[k], held'[k])
             /\ HeadBlocked(state'[k], waitReqQ'[k], owners'[k])
             /\ Holders(k)' # {} => k \in localLockMap'
  <2>1. LockOK(k)
    BY Zenon DEF IInv
  <2> QED BY Zenon, <1>1, <2>1 DEF LockOK, Holders
<1>7. \A k \in Locks : LockOK(k)'
  BY Zenon, <1>1, <1>3, <1>5, <1>6 DEF LockOK
<1> QED BY Zenon, <1>4, <1>7 DEF IInv

LEMMA UnlockPreserves ==
    ASSUME IInv, NEW c \in Callers, NEW l \in Locks, Unlock(c, l)
    PROVE  IInv'
<1> DEFINE st == StateAfterRelease(l)
           q == waitReqQ[l]
           list == IF IsLastUser(l) THEN <<>>
                     ELSE RemoveFromListOfOwners(listOfOwners[l], c)
           hld == [held[l] EXCEPT ![c] = "none"]
<1>1. PICK n \in 0..Len(q) : ProcessLocalQ(l, st, q, owners[l] - 1, list, hld, n)
  BY Zenon DEF Unlock
<1>2. /\ TypeOK /\ held[l][c] # "none" /\ c \in Range(listOfOwners[l])
      /\ localLockMap' = IF IsLastUser(l) THEN localLockMap \ {l} ELSE localLockMap
      /\ call' = call /\ waiters' = waiters /\ l \in localLockMap
  BY Zenon DEF Unlock, IInv
<1>3. /\ q \in Seq(QueueEntry)
      /\ state[l] \in {"stale", "shared", "exclusive"} /\ owners[l] \in Nat
      /\ listOfOwners[l] \in Seq(Callers)
      /\ held[l] \in [Callers -> Modes \cup {"none"}]
  BY Zenon, <1>2 DEF TypeOK
<1>s. st = IF owners[l] = 1 THEN "stale" ELSE state[l]
  BY Zenon DEF StateAfterRelease
<1>4. /\ st \in {"stale", "shared", "exclusive"}
      /\ hld \in [Callers -> Modes \cup {"none"}]
      /\ \A d \in Callers : hld[d] = IF d = c THEN "none" ELSE held[l][d]
  BY Zenon, <1>3, <1>s
<1>5. TrackOK(state[l], q, owners[l], listOfOwners[l], held[l])
  BY Zenon DEF IInv, LockOK
<1>6. HoldersIn(hld) = HoldersIn(held[l]) \ {c} /\ c \in HoldersIn(held[l])
  BY Zenon, <1>2, <1>4 DEF HoldersIn
<1>7. owners[l] - 1 = Cardinality(HoldersIn(hld)) /\ owners[l] - 1 \in Nat
  <2>1. IsFiniteSet(HoldersIn(held[l])) /\ IsFiniteSet(HoldersIn(hld))
    BY Zenon, CallersAssumption, FS_Subset DEF HoldersIn
  <2>2. owners[l] = Cardinality(HoldersIn(held[l]))
    BY Zenon, <1>5 DEF TrackOK
  <2> HIDE DEF hld
  <2>3. Cardinality(HoldersIn(hld)) = owners[l] - 1
    BY Zenon, <2>1, <2>2, <1>6, FS_RemoveElement
  <2>4. Cardinality(HoldersIn(hld)) \in Nat
    BY Zenon, <2>1, FS_CardinalityType
  <2> QED BY Zenon, <2>3, <2>4
<1>8. \E k \in 1..Len(listOfOwners[l]) : listOfOwners[l][k] = c
  BY Zenon, <1>5, <1>6 DEF TrackOK
<1>9. owners[l] = 1 => HoldersIn(hld) = {}
  <2>1. IsFiniteSet(HoldersIn(hld))
    BY Zenon, CallersAssumption, FS_Subset DEF HoldersIn
  <2> HIDE DEF hld
  <2> QED BY <2>1, <1>7, FS_EmptySet
<1>10. list \in Seq(Callers) /\ \A d \in HoldersIn(hld) : \E k \in 1..Len(list) : list[k] = d
  <2>1. CASE IsLastUser(l)
    BY <2>1, <1>9 DEF IsLastUser
  <2>2. CASE ~IsLastUser(l)
    <3> DEFINE list2 == RemoveFromListOfOwners(listOfOwners[l], c)
    <3>1. /\ list2 \in Seq(Callers)
          /\ \A k \in 1..Len(listOfOwners[l]) :
               listOfOwners[l][k] # c =>
                 \E m \in 1..Len(list2) : list2[m] = listOfOwners[l][k]
      BY Zenon, <1>3, <1>8, RemoveKeepsOthers
    <3>2. \A d \in HoldersIn(hld) :
            d # c /\ \E k \in 1..Len(listOfOwners[l]) : listOfOwners[l][k] = d
      BY Zenon, <1>5, <1>6 DEF TrackOK
    <3>3. list = list2
      BY Zenon, <2>2
    <3> HIDE DEF list2, list, hld
    <3> QED BY Zenon, <3>1, <3>2, <3>3
  <2> QED BY Zenon, <2>1, <2>2
<1>11. TrackOK(st, q, owners[l] - 1, list, hld)
  <2>1. owners[l] - 1 = 0 => st = "stale"
    BY <1>3, <1>s
  <2>2. \A d \in Callers : hld[d] \in {"none", st}
    <3>1. CASE owners[l] = 1
      BY Zenon, <3>1, <1>9 DEF HoldersIn
    <3>2. CASE owners[l] # 1
      BY Zenon, <3>2, <1>4, <1>5, <1>s DEF TrackOK
    <3> QED BY Zenon, <3>1, <3>2
  <2>3. st = "exclusive" => \A d, e \in HoldersIn(hld) : d = e
    <3>1. st = "exclusive" => state[l] = "exclusive"
      BY Zenon, <1>s
    <3> HIDE DEF st, q, list, hld
    <3> QED BY Zenon, <3>1, <1>5, <1>6 DEF TrackOK
  <2>6. \A i \in 1..Len(q) : q[i].caller \in Callers /\ held[l][q[i].caller] = "none"
    BY Zenon, <1>2, <1>5, QueuedAreCallers DEF TrackOK
  <2> HIDE DEF st, q, list, hld
  <2>4. \A i \in 1..Len(q) : hld[q[i].caller] = "none"
    BY Zenon, <1>4, <2>6
  <2>5. \A i, j \in 1..Len(q) : q[i].caller = q[j].caller => i = j
    BY Zenon, <1>5 DEF TrackOK
  <2> QED BY Zenon, <2>1, <2>2, <2>3, <2>4, <2>5, <1>7, <1>10 DEF TrackOK
<1>12. /\ TrackOK(state'[l], waitReqQ'[l], owners'[l], listOfOwners'[l], held'[l])
       /\ HeadBlocked(state'[l], waitReqQ'[l], owners'[l])
       /\ state' \in [Locks -> {"stale", "shared", "exclusive"}]
       /\ owners' \in [Locks -> Nat]
       /\ listOfOwners' \in [Locks -> Seq(Callers)]
       /\ waitReqQ' \in [Locks -> Seq(QueueEntry)]
       /\ held' \in [Locks -> [Callers -> Modes \cup {"none"}]]
  <2> HIDE DEF st, q, list, hld
  <2> QED BY Zenon, <1>1, <1>2, <1>3, <1>4, <1>7, <1>10, <1>11, ProcessPreserves
<1>13. TypeOK'
  BY Zenon, <1>2, <1>12 DEF TypeOK
<1>14. \A i \in 1..Len(waitReqQ'[l]) : call'[waitReqQ'[l][i].caller].lock = l
  <2>1. waitReqQ'[l] = SubSeq(q, n + 1, Len(q))
    BY Zenon, <1>1, <1>2 DEF ProcessLocalQ, TypeOK
  <2>2. \A i \in 1..Len(q) : call[q[i].caller].lock = l
    BY Zenon DEF IInv, LockOK
  <2> HIDE DEF q
  <2>3. \A i \in 1..Len(waitReqQ'[l]) :
          waitReqQ'[l][i] = q[n + i] /\ n + i \in 1..Len(q)
    BY <2>1, <1>3
  <2> QED BY Zenon, <2>2, <2>3, <1>2
<1>15. Holders(l)' # {} => l \in localLockMap'
  <2> SUFFICES ASSUME IsLastUser(l) PROVE Holders(l)' = {}
    BY Zenon, <1>2
  <2>1. Waiters(l) = {}
    <3>1. IsFiniteSet(Waiters(l)) /\ Cardinality(Waiters(l)) = 0
      BY Zenon, CallersAssumption, FS_Subset DEF Waiters, IsLastUser, IInv, LockOK
    <3> QED BY Zenon, <3>1, FS_EmptySet
  <2>2. Len(q) = 0
    <3>1. \A i \in 1..Len(q) : q[i].caller \in Waiters(l)
      BY ZenonT(30), <1>2, QueuedAreCallers DEF IInv, LockOK, Waiters
    <3>2. ~(1 \in 1..Len(q))
      BY Zenon, <3>1, <2>1
    <3> QED BY <3>2, <1>3
  <2>3. n = 0
    BY <2>2
  <2>4. held'[l] = [d \in Callers |-> hld[d]]
    BY <2>3, <1>1, <1>2 DEF ProcessLocalQ, TypeOK
  <2>5. HoldersIn(hld) = {}
    BY Zenon, <1>9 DEF IsLastUser
  <2> HIDE DEF hld
  <2> QED BY Zenon, <2>4, <2>5 DEF Holders, HoldersIn
<1>16. ASSUME NEW k \in Locks, k # l
       PROVE  /\ state'[k] = state[k] /\ waitReqQ'[k] = waitReqQ[k]
              /\ owners'[k] = owners[k] /\ listOfOwners'[k] = listOfOwners[k]
              /\ held'[k] = held[k]
              /\ Holders(k)' = Holders(k)
              /\ k \in localLockMap => k \in localLockMap'
  <2> HIDE DEF st, q, list, hld
  <2>1. /\ state'[k] = state[k] /\ waitReqQ'[k] = waitReqQ[k]
        /\ owners'[k] = owners[k] /\ listOfOwners'[k] = listOfOwners[k]
        /\ held'[k] = held[k]
    BY Zenon, <1>16, <1>1, <1>2, OtherTracks
  <2>2. Holders(k)' = Holders(k)
    BY Zenon, <2>1 DEF Holders
  <2>3. k \in localLockMap => k \in localLockMap'
    BY Zenon, <1>2, <1>16
  <2> QED BY Zenon, <2>1, <2>2, <2>3
<1> HIDE DEF st, q, list, hld
<1>17. \A k \in Locks : Waiters(k)' = Waiters(k)
  BY Zenon, <1>2 DEF Waiters
<1>18. ASSUME NEW k \in Locks PROVE LockOK(k)'
  <2>1. LockOK(k)
    BY Zenon DEF IInv
  <2>2. waiters'[k] = Cardinality(Waiters(k)')
    BY Zenon, <1>2, <1>17, <2>1 DEF LockOK
  <2>3. CASE k = l
    BY Zenon, <2>2, <2>3, <1>12, <1>14, <1>15 DEF LockOK
  <2>4. CASE k # l
    BY Zenon, <2>1, <2>2, <2>4, <1>2, <1>16 DEF LockOK
  <2> QED BY Zenon, <2>3, <2>4
<1> QED BY Zenon, <1>13, <1>18 DEF IInv

LEMMA NextIInv == IInv /\ [Next]_vars => IInv'
<1> SUFFICES ASSUME IInv, [Next]_vars PROVE IInv'
  BY Zenon
<1>1. ASSUME NEW c \in Callers, WakeUp(c) PROVE IInv'
  BY Zenon, <1>1, WakeUpPreserves
<1>2. ASSUME NEW c \in Callers, NEW l \in Locks, Unlock(c, l) PROVE IInv'
  BY Zenon, <1>2, UnlockPreserves
<1>3. ASSUME NEW c \in Callers, NEW l \in Locks, NEW m \in Modes,
             NEW try \in BOOLEAN, Lock(c, l, m, try)
      PROVE  IInv'
  BY Zenon, <1>3, LockPreserves
<1>4. ASSUME UNCHANGED vars PROVE IInv'
  BY ZenonT(30), <1>4 DEF vars, IInv, LockOK, TypeOK, Holders, Waiters
<1>5. ASSUME NEW c \in Callers, NEW l \in Locks, NEW m \in Modes,
             TryAgain(c, l, m)
      PROVE  IInv'
  BY Zenon, <1>4, <1>5 DEF TryAgain
<1> QED BY Zenon, <1>1, <1>2, <1>3, <1>4, <1>5 DEF Next

\* The inductive invariant holds of every behaviour of the lock manager.
THEOREM InductiveInvariant == Spec => []IInv
BY InitIInv, NextIInv, PTL DEF Spec

\* Every field of every track keeps its type; in particular the counts that
\* unlock() decrements never become negative (its panic "track.owners < 0").
THEOREM TypeCorrect == Spec => []TypeOK
<1>1. IInv => TypeOK
  BY Zenon DEF IInv
<1> QED BY <1>1, InductiveInvariant, PTL

\* Mutual exclusion: no caller owns a lock that another caller was granted
\* exclusively by processLocalQ().
THEOREM Exclusion == Spec => []MutualExclusion
<1>1. IInv => MutualExclusion
  <2> SUFFICES ASSUME IInv, NEW l \in Locks, NEW c \in Callers, NEW d \in Callers,
                      held[l][c] = "exclusive", c # d
               PROVE  held[l][d] = "none"
    BY Zenon DEF MutualExclusion
  <2>1. TrackOK(state[l], waitReqQ[l], owners[l], listOfOwners[l], held[l])
    BY Zenon DEF IInv, LockOK
  <2>2. state[l] = "exclusive"
    BY Zenon, <2>1 DEF TrackOK
  <2> QED BY Zenon, <2>1, <2>2 DEF TrackOK, HoldersIn
<1> QED BY <1>1, InductiveInvariant, PTL

\* An owner can always unlock: the track is in the map and the owner in its
\* list, although removeFromListOfOwners() corrupts the list's tail.
THEOREM UnlockNeverPanics == Spec => []NoPanic
<1>1. IInv => NoPanic
  <2> SUFFICES ASSUME IInv, NEW l \in Locks, NEW c \in Holders(l)
               PROVE  l \in localLockMap /\ c \in Range(listOfOwners[l])
    BY Zenon DEF NoPanic
  <2>1. TrackOK(state[l], waitReqQ[l], owners[l], listOfOwners[l], held[l])
    BY Zenon DEF IInv, LockOK
  <2>2. \E k \in 1..Len(listOfOwners[l]) : listOfOwners[l][k] = c
    BY Zenon, <2>1 DEF TrackOK, HoldersIn, Holders
  <2>3. listOfOwners[l] \in Seq(Callers)
    BY Zenon DEF IInv, TypeOK
  <2>4. DOMAIN listOfOwners[l] = 1..Len(listOfOwners[l])
    BY <2>3
  <2>5. c \in Range(listOfOwners[l])
    BY Zenon, <2>2, <2>4 DEF Range
  <2> QED BY Zenon, <2>5 DEF IInv, LockOK
<1> QED BY <1>1, InductiveInvariant, PTL

\* The owners and waiters counts of llm.go are exact.
THEOREM CountsAreExact == Spec => []CountsExact
<1>1. IInv => CountsExact
  <2> SUFFICES ASSUME IInv, NEW l \in Locks
               PROVE  /\ owners[l] = Cardinality(Holders(l))
                      /\ waiters[l] = Cardinality({c \in Callers : call[c].lock = l})
    BY Zenon DEF CountsExact
  <2>1. owners[l] = Cardinality(HoldersIn(held[l]))
    BY Zenon DEF IInv, LockOK, TrackOK
  <2>2. HoldersIn(held[l]) = Holders(l)
    BY Zenon DEF HoldersIn, Holders
  <2>3. waiters[l] = Cardinality(Waiters(l))
    BY Zenon DEF IInv, LockOK
  <2> QED BY Zenon, <2>1, <2>2, <2>3 DEF Waiters
<1> QED BY <1>1, InductiveInvariant, PTL

\* No wakeup is lost: the head of a queue always waits for an owner that
\* conflicts with it, whose unlock() will process the queue.
THEOREM WakeupsKept == Spec => []NoLostWakeup
<1>1. IInv => NoLostWakeup
  BY Zenon DEF IInv, LockOK, HeadBlocked, NoLostWakeup
<1> QED BY <1>1, InductiveInvariant, PTL
-----------------------------------------------------------------------------
(***************************************************************************)
(* The lock manager implements readers-writer locks and grants them in the *)
(* order of arrival.  processLocalQ() grants the callers of a prefix of    *)
(* the queue.  They own nothing, by the invariant, so the step of RWLock   *)
(* is: the caller of unlock(), if any, releases, and the prefix is         *)
(* granted.                                                                *)
(***************************************************************************)
\* What processLocalQ() grants and to whom.
Prefix(q, n) == {q[i].caller : i \in 1..n}

PrefixMode(q, n) == IF n = 0 THEN "shared" ELSE q[1].mode

\* hld is what is granted in the state st of a track.
InState(hld, st) == \A c \in Callers : hld[c] \in {"none", st}

\* A call of processLocalQ(), after the callers in R have released, is a step
\* of RWLock.
LEMMA ProcessRefines ==
    ASSUME TypeOK, NEW l \in Locks, NEW R \in SUBSET Callers,
           NEW st \in {"stale", "shared", "exclusive"},
           NEW q \in Seq(QueueEntry), NEW own, NEW list,
           NEW hld \in [Callers -> Modes \cup {"none"}],
           NEW n \in 0..Len(q),
           InState(hld, st),
           \A c, d \in R : c = d,
           \A c \in R : held[l][c] # "none",
           hld = [c \in Callers |-> IF c \in R THEN "none" ELSE held[l][c]],
           \A i \in 1..Len(q) : held[l][q[i].caller] = "none",
           ProcessLocalQ(l, st, q, own, list, hld, n)
    PROVE  RW!Next
<1> DEFINE S == Prefix(q, n)
           m == PrefixMode(q, n)
           kept == {c \in Callers \ R : held[l][c] # "none"}
<1>1. /\ Len(q) \in Nat /\ n \in Nat /\ n <= Len(q)
      /\ \A i \in 1..Len(q) : q[i].caller \in Callers /\ q[i].mode \in Modes
  <2>1. \A i \in 1..Len(q) : q[i] \in QueueEntry
    OBVIOUS
  <2> QED BY <2>1 DEF QueueEntry
<1>2. S \in SUBSET Callers /\ m \in Modes
  BY <1>1 DEF Prefix, PrefixMode, Modes
<1>3. S \cap (kept \cup R) = {}
  BY <1>1 DEF Prefix
<1>4. \A c \in kept : hld[c] = held[l][c] /\ hld[c] = st /\ st \in Modes
  BY Zenon DEF InState, Modes
<1>5. GrantsPrefix(st, q, n)
  BY Zenon DEF ProcessLocalQ
<1>6. ASSUME S # {} PROVE RW!Compatible(l, kept, S, m)
  <2>1. n > 0
    BY <1>1, <1>6 DEF Prefix
  <2>2. CASE n = 1 /\ st = "stale" /\ q[1].mode = "exclusive"
    <3>1. kept = {}
      BY Zenon, <1>4, <2>2 DEF Modes
    <3>2. \A c, d \in S : c = d
      BY <2>2 DEF Prefix
    <3> QED BY Zenon, <2>2, <3>1, <3>2 DEF RW!Compatible, PrefixMode
  <2>3. CASE st # "exclusive" /\ \A i \in 1..n : q[i].mode = "shared"
    <3>1. m = "shared"
      BY <1>1, <2>1, <2>3 DEF PrefixMode
    <3>2. \A c \in kept : held[l][c] = "shared"
      BY Zenon, <1>4, <2>3 DEF Modes
    <3> QED BY Zenon, <3>1, <3>2 DEF RW!Compatible
  <2> QED BY <1>1, <1>5, <2>1, <2>2, <2>3 DEF GrantsPrefix
<1>7. held' = [held EXCEPT ![l] =
                 [c \in Callers |-> IF c \in S THEN m
                                    ELSE IF c \in R THEN "none" ELSE held[l][c]]]
  <2>1. held' = [held EXCEPT ![l] =
                  [c \in Callers |-> IF \E i \in 1..n : q[i].caller = c
                                       THEN q[1].mode ELSE hld[c]]]
    BY Zenon DEF ProcessLocalQ
  <2>2. \A c \in Callers :
          (IF \E i \in 1..n : q[i].caller = c THEN q[1].mode ELSE hld[c])
            = (IF c \in S THEN m ELSE IF c \in R THEN "none" ELSE held[l][c])
    BY <1>1 DEF Prefix, PrefixMode
  <2>3. [c \in Callers |-> IF \E i \in 1..n : q[i].caller = c THEN q[1].mode ELSE hld[c]]
          = [c \in Callers |-> IF c \in S THEN m
                               ELSE IF c \in R THEN "none" ELSE held[l][c]]
    BY <2>2, Zenon
  <2> QED BY <2>1, <2>3, Zenon
<1>8. RW!Change(l, R, S, m)
  BY Zenon, <1>3, <1>6, <1>7 DEF RW!Change
<1> QED BY <1>2, <1>8 DEF RW!Next, RW!Modes, Modes

\* commonLock() is a step of RWLock in which nobody releases.
LEMMA LockRefines ==
    ASSUME IInv, NEW c \in Callers, NEW l \in Locks, NEW mode \in Modes,
           NEW try \in BOOLEAN, Lock(c, l, mode, try)
    PROVE  RW!Next
<1> DEFINE q == Enqueue(waitReqQ[l], [caller |-> c, mode |-> mode])
           nobody == {}
<1>1. /\ TypeOK
      /\ TrackOK(state[l], waitReqQ[l], owners[l], listOfOwners[l], held[l])
  BY Zenon DEF IInv, LockOK
<1>2. [caller |-> c, mode |-> mode] \in QueueEntry
  BY Zenon DEF QueueEntry
<1>3. waitReqQ[l] \in Seq(QueueEntry) /\ state[l] \in {"stale", "shared", "exclusive"}
  BY Zenon, <1>1 DEF TypeOK
<1>4. q \in Seq(QueueEntry)
  BY <1>2, <1>3 DEF Enqueue
<1>5. held[l] \in [Callers -> Modes \cup {"none"}]
  BY Zenon, <1>1 DEF TypeOK
<1>6. \A i \in 1..Len(q) : held[l][q[i].caller] = "none"
  <2>1. held[l][c] = "none"
    BY Zenon DEF Lock
  <2>2. \A i \in 1..Len(waitReqQ[l]) : held[l][waitReqQ[l][i].caller] = "none"
    BY Zenon, <1>1 DEF TrackOK
  <2>3. /\ Len(q) = Len(waitReqQ[l]) + 1 /\ Len(waitReqQ[l]) \in Nat
        /\ \A i \in 1..Len(waitReqQ[l]) : q[i] = waitReqQ[l][i]
        /\ q[Len(waitReqQ[l]) + 1] = [caller |-> c, mode |-> mode]
    BY <1>2, <1>3 DEF Enqueue
  <2>4. \A i \in 1..Len(q) : i \in 1..Len(waitReqQ[l]) \/ i = Len(waitReqQ[l]) + 1
    BY <2>3
  <2>5. q[Len(waitReqQ[l]) + 1].caller = c
    BY <2>3
  <2> HIDE DEF q
  <2> QED BY Zenon, <2>1, <2>2, <2>3, <2>4, <2>5
<1>7. InState(held[l], state[l])
  BY Zenon, <1>1 DEF TrackOK, InState
<1>8. PICK n \in 0..Len(q) :
        ProcessLocalQ(l, state[l], q, owners[l], listOfOwners[l], held[l], n)
  BY Zenon DEF Lock
<1>9. held[l] = [d \in Callers |-> IF d \in nobody THEN "none" ELSE held[l][d]]
  BY Zenon, <1>5
<1>10. /\ nobody \in SUBSET Callers /\ \A d, e \in nobody : d = e
       /\ \A d \in nobody : held[l][d] # "none"
  BY Zenon
<1> HIDE DEF q, nobody
<1> QED BY Zenon, <1>1, <1>3, <1>4, <1>5, <1>6, <1>7, <1>8, <1>9, <1>10, ProcessRefines

\* unlock() is a step of RWLock in which its caller releases.
LEMMA UnlockRefines ==
    ASSUME IInv, NEW c \in Callers, NEW l \in Locks, Unlock(c, l)
    PROVE  RW!Next
<1> DEFINE hld == [held[l] EXCEPT ![c] = "none"]
           list == IF IsLastUser(l) THEN <<>>
                                    ELSE RemoveFromListOfOwners(listOfOwners[l], c)
<1>1. /\ TypeOK
      /\ TrackOK(state[l], waitReqQ[l], owners[l], listOfOwners[l], held[l])
  BY Zenon DEF IInv, LockOK
<1>2. /\ waitReqQ[l] \in Seq(QueueEntry) /\ owners[l] \in Nat
      /\ state[l] \in {"stale", "shared", "exclusive"}
      /\ held[l] \in [Callers -> Modes \cup {"none"}]
  BY Zenon, <1>1 DEF TypeOK
<1>3. held[l][c] # "none"
  BY Zenon DEF Unlock
<1>4. /\ hld \in [Callers -> Modes \cup {"none"}]
      /\ hld = [d \in Callers |-> IF d \in {c} THEN "none" ELSE held[l][d]]
  BY Zenon, <1>2
<1>5. StateAfterRelease(l) \in {"stale", "shared", "exclusive"}
  BY Zenon, <1>2 DEF StateAfterRelease
<1>6. InState(hld, StateAfterRelease(l))
  <2>1. CASE owners[l] = 1
    <3>1. Cardinality(HoldersIn(held[l])) = 1 /\ c \in HoldersIn(held[l])
      BY Zenon, <1>1, <1>3, <2>1 DEF TrackOK, HoldersIn
    <3>2. IsFiniteSet(HoldersIn(held[l]))
      BY Zenon, CallersAssumption, FS_Subset DEF HoldersIn
    <3>3. PICK d : HoldersIn(held[l]) = {d}
      BY Zenon, <3>1, <3>2, FS_Singleton
    <3>4. \A e \in Callers : hld[e] = "none"
      BY Zenon, <1>4, <3>1, <3>3 DEF HoldersIn
    <3> QED BY Zenon, <3>4 DEF InState
  <2>2. CASE owners[l] # 1
    BY Zenon, <1>1, <1>4, <2>2 DEF TrackOK, InState, StateAfterRelease
  <2> QED BY Zenon, <2>1, <2>2
<1>7. \A i \in 1..Len(waitReqQ[l]) : held[l][waitReqQ[l][i].caller] = "none"
  BY Zenon, <1>1 DEF TrackOK
<1>8. PICK n \in 0..Len(waitReqQ[l]) :
        ProcessLocalQ(l, StateAfterRelease(l), waitReqQ[l], owners[l] - 1,
                      list, hld, n)
  BY Zenon DEF Unlock
<1>9. {c} \in SUBSET Callers /\ \A d, e \in {c} : d = e
  BY Zenon
<1>10. \A d \in {c} : held[l][d] # "none"
  BY Zenon, <1>3
<1> HIDE DEF hld, list
<1> QED BY Zenon, <1>1, <1>2, <1>4, <1>5, <1>6, <1>7, <1>8, <1>9, <1>10, ProcessRefines

\* llm.go implements readers-writer locks: every critical section of
\* commonLock() and unlock() is a step of RWLock, or changes no owner.
THEOREM Refinement == Spec => ImplementsRWLock
<1>1. Init => RW!Init
  BY Zenon DEF Init, RW!Init
<1>2. IInv /\ [Next]_vars => [RW!Next]_held
  <2> SUFFICES ASSUME IInv, [Next]_vars PROVE [RW!Next]_held
    BY Zenon
  <2>1. CASE UNCHANGED vars
    BY Zenon, <2>1 DEF vars
  <2>2. ASSUME NEW c \in Callers, WakeUp(c) PROVE held' = held
    BY Zenon, <2>2 DEF WakeUp
  <2>3. ASSUME NEW c \in Callers, NEW l \in Locks, Unlock(c, l) PROVE RW!Next
    BY Zenon, <2>3, UnlockRefines
  <2>4. ASSUME NEW c \in Callers, NEW l \in Locks, NEW m \in Modes, TryAgain(c, l, m)
        PROVE  held' = held
    BY Zenon, <2>4 DEF TryAgain, vars
  <2>5. ASSUME NEW c \in Callers, NEW l \in Locks, NEW m \in Modes,
               NEW try \in BOOLEAN, Lock(c, l, m, try)
        PROVE  RW!Next
    BY Zenon, <2>5, LockRefines
  <2> QED BY Zenon, <2>1, <2>2, <2>3, <2>4, <2>5 DEF Next
<1> QED BY <1>1, <1>2, InductiveInvariant, PTL DEF Spec, ImplementsRWLock, RW!Spec

-----------------------------------------------------------------------------
\* Whoever is granted a lock by processLocalQ() is in a prefix of the queue that
\* is granted as a whole.
LEMMA ProcessInOrder ==
    ASSUME TypeOK, NEW l \in Locks, NEW st, NEW q \in Seq(QueueEntry), NEW own,
           NEW list, NEW hld \in [Callers -> Modes \cup {"none"}],
           NEW n \in 0..Len(q), ProcessLocalQ(l, st, q, own, list, hld, n),
           NEW c \in Callers, hld[c] = "none", held'[l][c] # "none",
           NEW i \in 1..Len(q), \A j \in 1..i : q[j].caller # c
    PROVE  held'[l][q[i].caller] # "none"
<1> DEFINE hld2 == [d \in Callers |-> IF \E k \in 1..n : q[k].caller = d
                                        THEN q[1].mode ELSE hld[d]]
<1>1. held'[l] = hld2
  BY Zenon DEF ProcessLocalQ, TypeOK
<1>2. \A k \in 1..Len(q) : q[k] \in QueueEntry
  OBVIOUS
<1>3. \A k \in 1..Len(q) : q[k].caller \in Callers /\ q[k].mode \in Modes
  BY Zenon, <1>2 DEF QueueEntry
<1>4. PICK k \in 1..n : q[k].caller = c
  BY Zenon, <1>1
<1>5. i < k
  BY <1>4
<1>6. i \in 1..n /\ 1 \in 1..Len(q)
  BY <1>5
<1>7. hld2[q[i].caller] = q[1].mode
  BY Zenon, <1>3, <1>6
<1> QED BY Zenon, <1>1, <1>3, <1>6, <1>7 DEF Modes

\* The locks are granted in the order of arrival: the queue of a track is
\* appended to by commonLock() and granted from its head by processLocalQ().
THEOREM ArrivalOrder == Spec => NoOvertaking
<1> DEFINE InOrder(l, c, i) ==
             /\ held[l][c] = "none" /\ held'[l][c] # "none"
             /\ \A j \in 1..i : waitReqQ[l][j].caller # c
             => held'[l][waitReqQ[l][i].caller] # "none"
           Ordered == \A l \in Locks : \A c \in Callers :
                        \A i \in 1..Len(waitReqQ[l]) : InOrder(l, c, i)
<1>1. ASSUME TypeOK, NEW x \in Callers, NEW m \in Locks, NEW mode \in Modes,
             NEW try \in BOOLEAN, Lock(x, m, mode, try)
      PROVE  Ordered
  <2> DEFINE q == Enqueue(waitReqQ[m], [caller |-> x, mode |-> mode])
  <2>1. waitReqQ[m] \in Seq(QueueEntry) /\ held[m] \in [Callers -> Modes \cup {"none"}]
    BY Zenon, <1>1 DEF TypeOK
  <2>2. [caller |-> x, mode |-> mode] \in QueueEntry
    BY Zenon DEF QueueEntry
  <2>3. /\ q \in Seq(QueueEntry) /\ Len(q) = Len(waitReqQ[m]) + 1
        /\ Len(waitReqQ[m]) \in Nat
        /\ \A i \in 1..Len(waitReqQ[m]) : q[i] = waitReqQ[m][i]
    BY <2>1, <2>2 DEF Enqueue
  <2>4. PICK n \in 0..Len(q) :
          ProcessLocalQ(m, state[m], q, owners[m], listOfOwners[m], held[m], n)
    BY Zenon, <1>1 DEF Lock
  <2> HIDE DEF q
  <2> SUFFICES ASSUME NEW l \in Locks, NEW c \in Callers,
                      NEW i \in 1..Len(waitReqQ[l]),
                      held[l][c] = "none", held'[l][c] # "none",
                      \A j \in 1..i : waitReqQ[l][j].caller # c
               PROVE  held'[l][waitReqQ[l][i].caller] # "none"
    BY Zenon
  <2>5. l = m
    BY Zenon, <1>1, <2>4 DEF ProcessLocalQ, TypeOK
  <2>6. i \in 1..Len(q) /\ q[i] = waitReqQ[l][i] /\ \A j \in 1..i : q[j].caller # c
    <3>1. i \in 1..Len(waitReqQ[m]) /\ \A j \in 1..i : j \in 1..Len(waitReqQ[m])
      BY <2>3, <2>5
    <3>2. i \in 1..Len(q)
      BY <2>3, <3>1
    <3> QED BY Zenon, <2>3, <2>5, <3>1, <3>2
  <2>7. held'[m][q[i].caller] # "none"
    BY ZenonT(60), <1>1, <2>1, <2>3, <2>4, <2>5, <2>6, ProcessInOrder
  <2> QED BY Zenon, <2>5, <2>6, <2>7
<1>2. ASSUME TypeOK, NEW x \in Callers, NEW m \in Locks, Unlock(x, m)
      PROVE  Ordered
  <2> DEFINE hld == [held[m] EXCEPT ![x] = "none"]
             list == IF IsLastUser(m) THEN <<>>
                                      ELSE RemoveFromListOfOwners(listOfOwners[m], x)
  <2>1. waitReqQ[m] \in Seq(QueueEntry) /\ held[m] \in [Callers -> Modes \cup {"none"}]
    BY Zenon, <1>2 DEF TypeOK
  <2>2. /\ hld \in [Callers -> Modes \cup {"none"}]
        /\ \A c \in Callers : held[m][c] = "none" => hld[c] = "none"
    BY Zenon, <2>1
  <2>3. PICK n \in 0..Len(waitReqQ[m]) :
          ProcessLocalQ(m, StateAfterRelease(m), waitReqQ[m], owners[m] - 1, list, hld, n)
    BY Zenon, <1>2 DEF Unlock
  <2> HIDE DEF hld, list
  <2> SUFFICES ASSUME NEW l \in Locks, NEW c \in Callers,
                      NEW i \in 1..Len(waitReqQ[l]),
                      held[l][c] = "none", held'[l][c] # "none",
                      \A j \in 1..i : waitReqQ[l][j].caller # c
               PROVE  held'[l][waitReqQ[l][i].caller] # "none"
    BY Zenon
  <2>4. l = m
    BY Zenon, <1>2, <2>3 DEF ProcessLocalQ, TypeOK
  <2> QED BY <1>2, <2>1, <2>2, <2>3, <2>4, ProcessInOrder
<1>3. ASSUME held' = held PROVE Ordered
  BY Zenon, <1>3
<1>4. IInv /\ [Next]_vars => Ordered
  <2> SUFFICES ASSUME IInv, [Next]_vars PROVE Ordered
    BY Zenon
  <2>1. TypeOK
    BY Zenon DEF IInv
  <2> HIDE DEF Ordered
  <2> QED BY Zenon, <1>1, <1>2, <1>3, <2>1 DEF Next, WakeUp, TryAgain, vars
<1>5. TypeOK /\ Ordered =>
        \A l \in Locks : \A c \in Callers :
          held[l][c] = "none" /\ held'[l][c] # "none" =>
            \A i \in DOMAIN waitReqQ[l] :
              (\A j \in 1..i : waitReqQ[l][j].caller # c) =>
                held'[l][waitReqQ[l][i].caller] # "none"
  <2>1. TypeOK => \A l \in Locks : DOMAIN waitReqQ[l] = 1..Len(waitReqQ[l])
    BY DEF TypeOK
  <2> QED BY Zenon, <2>1
<1>6. IInv => TypeOK
  BY DEF IInv
<1> HIDE DEF Ordered
<1> QED BY <1>4, <1>5, <1>6, InductiveInvariant, PTL DEF Spec, NoOvertaking
=============================================================================
