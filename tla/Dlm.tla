-------------------------------- MODULE Dlm --------------------------------
(***************************************************************************)
(* The local lock manager of package dlm (dlm/llm.go, dlm/api.go).         *)
(*                                                                         *)
(* Every critical section of llm.go is one action: commonLock() and        *)
(* unlock() take the track's mutex while they still hold globals.Lock, so  *)
(* whoever can reach a track either holds its mutex, or sleeps in          *)
(* Cond.Wait() and is counted in track.waiters.  A track that unlock()     *)
(* deletes from localLockMap can be reached by nobody; its fields are set  *)
(* back to those of the track commonLock() would create next.              *)
(***************************************************************************)
EXTENDS Integers, Sequences, FiniteSets, Functions

CONSTANTS
    Locks,    \* lock IDs (one per inode, see fs/locker.go makeLockID)
    Callers,  \* caller IDs, one per thread (api.go GenerateCallerID)
    MaxList   \* bound of the model on the length of an owners list

ASSUME LocksAssumption == "none" \notin Locks

ASSUME CallersAssumption == IsFiniteSet(Callers)

Modes == {"shared", "exclusive"}

NoRequest == [lock |-> "none", mode |-> "none", try |-> FALSE]

VARIABLES
    localLockMap,   \* the lock IDs that have a track
    owners,         \* track.owners
    waiters,        \* track.waiters
    state,          \* track.state
    listOfOwners,   \* track.listOfOwners
    waitReqQ,       \* track.waitReqQ: requests in arrival order
    call,           \* the request each caller is blocked in, or NoRequest
    held            \* what was granted: the mode each caller owns a lock in

vars == <<localLockMap, owners, waiters, state, listOfOwners, waitReqQ, call,
          held>>

Request == [lock : Locks, mode : Modes, try : BOOLEAN]

QueueEntry == [caller : Callers, mode : Modes]

Holders(l) == {c \in Callers : held[l][c] # "none"}

TypeOK ==
    /\ localLockMap \in SUBSET Locks
    /\ owners \in [Locks -> Nat]
    /\ waiters \in [Locks -> Nat]
    /\ state \in [Locks -> {"stale", "shared", "exclusive"}]
    /\ listOfOwners \in [Locks -> Seq(Callers)]
    /\ waitReqQ \in [Locks -> Seq(QueueEntry)]
    /\ call \in [Callers -> Request \cup {NoRequest}]
    /\ held \in [Locks -> [Callers -> Modes \cup {"none"}]]

Init ==
    /\ localLockMap = {}
    /\ owners = [l \in Locks |-> 0]
    /\ waiters = [l \in Locks |-> 0]
    /\ state = [l \in Locks |-> "stale"]
    /\ listOfOwners = [l \in Locks |-> <<>>]
    /\ waitReqQ = [l \in Locks |-> <<>>]
    /\ call = [c \in Callers |-> NoRequest]
    /\ held = [l \in Locks |-> [c \in Callers |-> "none"]]

-----------------------------------------------------------------------------
\* Mutant: an exclusive request is granted beside shared owners.
GrantsPrefixUnsafe(st, q, n) ==
    \/ n = 0 /\ (q = <<>> \/ st = "exclusive")
    \/ n = 1 /\ q # <<>> /\ st # "exclusive" /\ q[1].mode = "exclusive"
    \/ /\ n > 0 /\ n <= Len(q) /\ st # "exclusive"
       /\ \A i \in 1..n : q[i].mode = "shared"
       /\ n < Len(q) => q[n + 1].mode = "exclusive"

(***************************************************************************)
(* processLocalQ() grants a prefix of the queue: nothing while the lock is *)
(* exclusive, one exclusive request if the lock is stale, or every shared  *)
(* request up to the first exclusive one.  GrantsPrefix(st, q, n) says     *)
(* that the loop pops and grants exactly the first n requests.             *)
(***************************************************************************)
GrantsPrefix(st, q, n) ==
    \/ n = 0 /\ (q = <<>> \/ st = "exclusive")
    \/ n = 0 /\ q # <<>> /\ st = "shared" /\ q[1].mode = "exclusive"
    \/ n = 1 /\ q # <<>> /\ st = "stale" /\ q[1].mode = "exclusive"
    \/ /\ n > 0 /\ n <= Len(q) /\ st # "exclusive"
       /\ \A i \in 1..n : q[i].mode = "shared"
       /\ n < Len(q) => q[n + 1].mode = "exclusive"

\* grantAndSignal() of the first n requests of q, and the queue left over.
\* The arguments are the fields of the track as they are before the loop.
ProcessLocalQ(l, st, q, own, list, hld, n) ==
    /\ GrantsPrefix(st, q, n)
    /\ state' = [state EXCEPT ![l] = IF n = 0 THEN st ELSE q[1].mode]
    /\ owners' = [owners EXCEPT ![l] = own + n]
    /\ listOfOwners' = [listOfOwners EXCEPT ![l] =
                          list \o [i \in 1..n |-> q[i].caller]]
    /\ waitReqQ' = [waitReqQ EXCEPT ![l] = SubSeq(q, n + 1, Len(q))]
    /\ held' = [held EXCEPT ![l] =
                  [c \in Callers |-> IF \E i \in 1..n : q[i].caller = c
                                       THEN q[1].mode ELSE hld[c]]]

\* The EAGAIN test of TryWriteLock() and TryReadLock().
Busy(mode, st) ==
    \/ mode = "exclusive" /\ st # "stale"
    \/ st = "exclusive"

\* commonLock() of a try lock that returns EAGAIN.  It has created the track
\* if there was none, but a fresh track is stale and never busy.
TryAgain(c, l, mode) ==
    /\ call[c] = NoRequest
    /\ held[l][c] = "none"
    /\ Busy(mode, state[l])
    /\ UNCHANGED vars

\* Mutant: a request goes to the front of the queue.
EnqueueFront(q, e) == <<e>> \o q

Enqueue(q, e) == Append(q, e)

\* waiters is incremented on entry, and decremented again on return.
WaitersAfter(w, granted) == IF granted THEN w ELSE w + 1

\* commonLock(): the request is queued and the queue processed.  A request
\* granted at once returns in the same critical section (waiters is then back
\* where it was); any other sleeps in Cond.Wait().  The owners list of a track
\* never shrinks, so the bound accepts a request only if the list has room for
\* it and for all that are queued before it.
Lock(c, l, mode, try) ==
    /\ call[c] = NoRequest
    /\ held[l][c] = "none"
    /\ try => ~Busy(mode, state[l])
    /\ Len(listOfOwners[l]) + Len(waitReqQ[l]) < MaxList
    /\ localLockMap' = localLockMap \cup {l}
    /\ LET q == Enqueue(waitReqQ[l], [caller |-> c, mode |-> mode])
       IN  \E n \in 0..Len(q) :
             /\ ProcessLocalQ(l, state[l], q, owners[l], listOfOwners[l],
                              held[l], n)
             /\ waiters' = [waiters EXCEPT ![l] = WaitersAfter(@, n = Len(q))]
             /\ call' = IF n = Len(q) THEN call
                        ELSE [call EXCEPT ![c] =
                                [lock |-> l, mode |-> mode, try |-> try]]

\* The sleeper was granted the lock by an unlock(): it leaves Cond.Wait().
WakeUp(c) ==
    /\ call[c] # NoRequest
    /\ held[call[c].lock][c] # "none"
    /\ waiters' = [waiters EXCEPT ![call[c].lock] = @ - 1]
    /\ call' = [call EXCEPT ![c] = NoRequest]
    /\ UNCHANGED <<localLockMap, owners, state, listOfOwners, waitReqQ, held>>

\* removeFromListOfOwners() gets the slice by value: it moves the later
\* elements down in the shared array, and track.listOfOwners keeps its length,
\* so that its last element stays in place.
RemoveFromListOfOwners(list, c) ==
    LET first == CHOOSE i \in DOMAIN list :
                   list[i] = c /\ \A j \in 1..(i - 1) : list[j] # c
    IN  [i \in 1..Len(list) |->
           IF i < first \/ i = Len(list) THEN list[i] ELSE list[i + 1]]

\* unlock() of the last owner with nobody waiting deletes the track.
IsLastUser(l) == owners[l] = 1 /\ waiters[l] = 0

\* Mutant: the last owner does not make the lock stale.
StateKept(l) == state[l]

StateAfterRelease(l) == IF owners[l] = 1 THEN "stale" ELSE state[l]

\* unlock().  It panics if the lock has no track or the caller is not in
\* listOfOwners: the two guards, which NoPanic shows never to fail.
Unlock(c, l) ==
    /\ call[c] = NoRequest
    /\ held[l][c] # "none"
    /\ l \in localLockMap
    /\ c \in Range(listOfOwners[l])
    /\ localLockMap' = IF IsLastUser(l) THEN localLockMap \ {l}
                                        ELSE localLockMap
    /\ \E n \in 0..Len(waitReqQ[l]) :
         ProcessLocalQ(l,
           StateAfterRelease(l), waitReqQ[l], owners[l] - 1,
           IF IsLastUser(l) THEN <<>>
                            ELSE RemoveFromListOfOwners(listOfOwners[l], c),
           [held[l] EXCEPT ![c] = "none"],
           n)
    /\ UNCHANGED <<call, waiters>>

\* isLockHeld() with WRITELOCK (mode exclusive) or READLOCK (mode shared).
IsLockHeld(l, c, mode) ==
    /\ l \in localLockMap
    /\ state[l] = mode
    /\ c \in Range(listOfOwners[l])

Next ==
    \E c \in Callers :
      \/ WakeUp(c)
      \/ \E l \in Locks :
           \/ Unlock(c, l)
           \/ \E m \in Modes :
                \/ TryAgain(c, l, m)
                \/ \E try \in BOOLEAN : Lock(c, l, m, try)

Spec == Init /\ [][Next]_vars

\* Callers release what they hold and the Go scheduler runs a signalled
\* goroutine: every fs operation unlocks on each of its return paths.
Fairness ==
    \A c \in Callers : WF_vars(WakeUp(c)) /\ \A l \in Locks : WF_vars(Unlock(c, l))

FairSpec == Spec /\ Fairness

\* The readers-writer locks that dlm promises (dlm/api.go).
RW == INSTANCE RWLock WITH held <- held

-----------------------------------------------------------------------------
\* Nobody else owns a lock that a caller was granted exclusively, whatever
\* was granted, queued or handed over by processLocalQ() since.
MutualExclusion ==
    \A l \in Locks : \A c, d \in Callers :
      held[l][c] = "exclusive" /\ c # d => held[l][d] = "none"

\* unlock() by an owner never panics: the track is still in localLockMap and
\* the caller is still in the owners list, although removeFromListOfOwners()
\* leaves stale entries behind in that list.
NoPanic ==
    \A l \in Locks : \A c \in Holders(l) :
      l \in localLockMap /\ c \in Range(listOfOwners[l])

\* The counts that decide when a track is stale or deleted are exact: owners
\* are the callers granted the lock, waiters the callers still inside
\* commonLock(), woken or not.
CountsExact ==
    \A l \in Locks :
      /\ owners[l] = Cardinality(Holders(l))
      /\ waiters[l] = Cardinality({c \in Callers : call[c].lock = l})

\* No wakeup is lost: whoever is asleep and not yet granted the lock waits
\* behind an owner that conflicts with the head of the queue.
NoLostWakeup ==
    \A l \in Locks : waitReqQ[l] # <<>> =>
      \/ state[l] = "exclusive" /\ owners[l] > 0
      \/ state[l] = "shared" /\ owners[l] > 0 /\ waitReqQ[l][1].mode = "exclusive"

\* Grants follow the order of arrival: a caller that is granted a lock never
\* leaves behind it a request that was queued before its own.
NoOvertaking ==
    [][\A l \in Locks : \A c \in Callers :
         held[l][c] = "none" /\ held'[l][c] # "none" =>
           \A i \in DOMAIN waitReqQ[l] :
             (\A j \in 1..i : waitReqQ[l][j].caller # c) =>
               held'[l][waitReqQ[l][i].caller] # "none"]_vars

\* The lock manager implements readers-writer locks: each critical section
\* of llm.go releases at most one owner and grants compatible requests only.
ImplementsRWLock == RW!Spec

\* Every caller asleep in commonLock() is eventually granted the lock, readers
\* and writers alike, if owners release.  (One lock: with several, callers
\* that nest them in opposite orders can deadlock, which is for fs to avoid.)
EveryRequestGranted ==
    \A c \in Callers : call[c] # NoRequest ~> call[c] = NoRequest

\* api.go: IsReadHeld() and IsWriteHeld() return whether the caller holds the
\* lock for reading or for writing.
IsLockHeldSound ==
    \A l \in Locks : \A c \in Callers : \A m \in Modes :
      IsLockHeld(l, c, m) => held[l][c] = m

\* api.go: TryWriteLock() and TryReadLock() grab the lock or return EAGAIN.
TryNeverBlocks ==
    \A c \in Callers : ~call[c].try
=============================================================================
