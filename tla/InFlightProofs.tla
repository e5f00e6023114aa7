--------------------------- MODULE InFlightProofs ---------------------------
(***************************************************************************)
(* The connection pool, and the in-flight file inode data above it, for    *)
(* any finite set of users, clients, files and any capacity.               *)
(*                                                                         *)
(* The pool.  SlotsExact and ConnectionsBounded are inductive together     *)
(* with Apart: nobody sleeps, is woken or holds a connection twice over.   *)
(* Without it waking a user who already holds a connection would be        *)
(* counted twice.  StarversMatch needs in addition that starvation is      *)
(* under way exactly while somebody sleeps.                                *)
(*                                                                         *)
(* The composition.  Every step of the file system is a step of the pool   *)
(* or leaves it alone (UsesPool), so the results about the pool hold of    *)
(* the log segments of the files.  FsInv is the invariant behind           *)
(* ListInMap and UnflushedIsKnown: a log segment with a connection is the  *)
(* open one of its file or is being closed, a file under flush stays       *)
(* locked, a file with log segments or with the error of one is dirty, and *)
(* so a file that no client works on, that the map does not hold and that  *)
(* no caller got an error about has nothing left to flush.  ContextInv is  *)
(* needed for the PUT that failed for good: it is closed without giving a  *)
(* connection back, and must not hold one.                                 *)
(***************************************************************************)
EXTENDS InFlight, FiniteSetTheorems, SequenceTheorems, TLAPS

\* A user is in at most one place: in the queue, and there once, woken, or
\* with a connection.
Apart ==
    /\ \A i \in DOMAIN waiters : waiters[i] \notin woken /\ waiters[i] \notin Holders
    /\ \A i, j \in DOMAIN waiters : waiters[i] = waiters[j] => i = j
    /\ woken \cap Holders = {}

SlotsInv ==
    /\ poolInUse \in 0..poolCapacity
    /\ lifo \in Seq(Nat) /\ waiters \in Seq(Users)
    /\ woken \subseteq Users /\ connection \in [Users -> Int]
    /\ connectionNonce \in Nat
    /\ Apart
    /\ SlotsExact
    /\ ConnectionsBounded
    /\ IdleConnectionsCurrent

\* The stack of idle connections without its top.
LEMMA PopKeepsRest ==
    ASSUME NEW s \in Seq(Nat), s # <<>>, NEW f, f = SubSeq(s, 1, Len(s) - 1)
    PROVE  /\ f \in Seq(Nat) /\ Len(f) = Len(s) - 1
           /\ \A i \in DOMAIN f : f[i] = s[i] /\ i \in DOMAIN s
  <1> DEFINE n == Len(s) - 1
  <1>1. Len(s) \in Nat /\ Len(s) > 0 /\ DOMAIN s = 1..Len(s)
    OBVIOUS
  <1>2. 1 \in Int /\ n \in Int /\ n >= 0 /\ \A i \in 1..n : s[i] \in Nat /\ i \in DOMAIN s
    BY <1>1
  <1> HIDE DEF n
  <1>3. /\ f \in Seq(Nat) /\ Len(f) = IF 1 <= n THEN n - 1 + 1 ELSE 0
        /\ \A i \in 1..(n - 1 + 1) : f[i] = s[1 + i - 1]
    BY SMTT(30), <1>2, SubSeqProperties DEF n
  <1>4. Len(f) = n /\ n - 1 + 1 = n /\ \A i \in 1..n : 1 + i - 1 = i
    BY <1>2, <1>3
  <1>5. DOMAIN f = 1..n
    BY <1>3, <1>4
  <1>6. \A i \in 1..n : f[i] = s[i]
    BY Zenon, <1>3, <1>4
  <1>7. Len(f) = Len(s) - 1
    BY Zenon, <1>4 DEF n
  <1> QED BY Zenon, <1>2, <1>3, <1>5, <1>6, <1>7

\* Taking a connection for u adds u to the holders, and the number of open
\* connections grows only when none is idle.
LEMMA TakeAdds ==
    ASSUME SlotsInv, NEW u \in Users, u \notin Holders, Take(u)
    PROVE  /\ connection' \in [Users -> Int]
           /\ lifo' \in Seq(Nat)
           /\ Holders' = Holders \cup {u}
           /\ Cardinality(Holders') = Cardinality(Holders) + 1
           /\ Cardinality(Holders) \in Nat
           /\ Len(lifo') = IF lifo = <<>> THEN 0 ELSE Len(lifo) - 1
           /\ \A i \in DOMAIN lifo' : lifo'[i] = lifo[i] /\ i \in DOMAIN lifo
  <1>1. IsFiniteSet(Holders)
    BY Zenon, PoolAssumption, FS_Subset DEF Holders
  <1>2. CASE lifo = <<>>
    <2>1. connection' = [connection EXCEPT ![u] = connectionNonce] /\ lifo' = lifo
      BY Zenon, <1>2 DEF Take
    <2>2. Holders' = Holders \cup {u}
      BY <2>1 DEF Holders, SlotsInv, NoConnection
    <2>3. connection' \in [Users -> Int] /\ lifo' \in Seq(Nat) /\ Len(lifo') = 0
      BY <1>2, <2>1 DEF SlotsInv
    <2>4. \A i \in DOMAIN lifo' : lifo'[i] = lifo[i] /\ i \in DOMAIN lifo
      BY Zenon, <2>1
    <2>5. QED
      BY Zenon, <1>1, <1>2, <2>2, <2>3, <2>4, FS_AddElement, FS_CardinalityType
  <1>3. CASE lifo # <<>>
    <2>1. /\ Len(lifo) \in Nat /\ Len(lifo) > 0
          /\ lifo[Len(lifo)] \in Nat
          /\ DOMAIN lifo = 1..Len(lifo)
      BY <1>3 DEF SlotsInv
    <2>2. /\ connection' = [connection EXCEPT ![u] = lifo[Len(lifo)]]
          /\ lifo' = SubSeq(lifo, 1, Len(lifo) - 1)
      BY Zenon, <1>3 DEF Take
    <2>3. Holders' = Holders \cup {u}
      BY <2>1, <2>2 DEF Holders, SlotsInv, NoConnection
    <2>4. lifo' \in Seq(Nat) /\ Len(lifo') = Len(lifo) - 1
      BY Zenon, <1>3, <2>2, PopKeepsRest DEF SlotsInv
    <2>5. \A i \in DOMAIN lifo' : lifo'[i] = lifo[i] /\ i \in DOMAIN lifo
      <3>1. lifo \in Seq(Nat) /\ lifo' = SubSeq(lifo, 1, Len(lifo) - 1)
        BY Zenon, <2>2 DEF SlotsInv
      <3> QED BY Zenon, <1>3, <3>1, PopKeepsRest
    <2>6. connection' \in [Users -> Int]
      BY <2>1, <2>2 DEF SlotsInv
    <2>7. QED
      <3>1. Cardinality(Holders') = Cardinality(Holders) + 1 /\ Cardinality(Holders) \in Nat
        BY Zenon, <1>1, <2>3, FS_AddElement, FS_CardinalityType
      <3> QED BY Zenon, <1>3, <2>3, <2>4, <2>5, <2>6, <3>1
  <1>4. QED
    BY Zenon, <1>2, <1>3

\* No connection is open at first.
LEMMA InitSlots == PoolInit => SlotsInv
  <1> SUFFICES ASSUME PoolInit PROVE SlotsInv
    BY Zenon
  <1>1. Holders = {}
    BY Zenon DEF PoolInit, Holders
  <1>2. Cardinality(Holders) = 0 /\ Cardinality(woken) = 0
    BY Zenon, <1>1, FS_EmptySet DEF PoolInit
  <1>3. QED
    BY <1>1, <1>2, PoolAssumption
    DEF PoolInit, SlotsInv, Apart, SlotsExact, ConnectionsBounded, IdleConnectionsCurrent,
        NoConnection

\* acquireNonChunkedConnection() and its chunked twin, up to their wait.
LEMMA AcquireKeepsSlots ==
    ASSUME SlotsInv, NEW u \in Users, Acquire(u)
    PROVE  SlotsInv'
  <1>1. /\ u \notin woken /\ u \notin Holders
        /\ \A i \in DOMAIN waiters : waiters[i] # u
    BY Zenon DEF Acquire, Holders, Range
  <1>2. CASE poolInUse >= poolCapacity
    <2>1. /\ waiters' = Append(waiters, u)
          /\ UNCHANGED <<poolInUse, lifo, connection, woken, connectionNonce, draining>>
      BY Zenon, <1>2 DEF Acquire
    <2>2. Holders' = Holders
      BY Zenon, <2>1 DEF Holders
    <2>3. /\ waiters' \in Seq(Users)
          /\ DOMAIN waiters' = 1..(Len(waiters) + 1) /\ DOMAIN waiters = 1..Len(waiters)
          /\ Len(waiters) \in Nat
          /\ \A i \in 1..Len(waiters) : waiters'[i] = waiters[i]
          /\ waiters'[Len(waiters) + 1] = u
      BY <2>1 DEF SlotsInv
    <2>4. Apart'
      BY <1>1, <2>1, <2>2, <2>3 DEF SlotsInv, Apart
    <2>5. poolInUse = poolCapacity
      BY <1>2, PoolAssumption DEF SlotsInv
    <2>6. QED
      BY Zenon, <2>1, <2>2, <2>3, <2>4, <2>5
      DEF SlotsInv, SlotsExact, ConnectionsBounded, IdleConnectionsCurrent
  <1>3. CASE ~(poolInUse >= poolCapacity)
    <2>1. /\ poolInUse' = poolInUse + 1 /\ Take(u)
          /\ UNCHANGED <<waiters, woken, connectionNonce, draining>>
      BY Zenon, <1>3 DEF Acquire
    <2>2. /\ connection' \in [Users -> Int] /\ lifo' \in Seq(Nat)
          /\ Holders' = Holders \cup {u}
          /\ Cardinality(Holders') = Cardinality(Holders) + 1
          /\ Cardinality(Holders) \in Nat
          /\ Len(lifo') = IF lifo = <<>> THEN 0 ELSE Len(lifo) - 1
          /\ \A i \in DOMAIN lifo' : lifo'[i] = lifo[i] /\ i \in DOMAIN lifo
      BY Zenon, <1>1, <2>1, TakeAdds
    <2>3. Apart'
      BY Zenon, <1>1, <2>1, <2>2 DEF SlotsInv, Apart
    <2>4. Cardinality(woken) \in Nat
      BY Zenon, PoolAssumption, FS_Subset, FS_CardinalityType DEF SlotsInv
    <2>5. poolInUse \in Nat /\ poolCapacity \in Nat /\ poolInUse < poolCapacity
      BY <1>3, PoolAssumption DEF SlotsInv
    <2>6. waiters = <<>>
      BY <2>5 DEF SlotsInv, SlotsExact
    <2>7. SlotsExact' /\ poolInUse' \in 0..poolCapacity
      BY SMTT(30), <2>1, <2>2, <2>4, <2>5, <2>6 DEF SlotsInv, SlotsExact
    <2>8. ConnectionsBounded'
      <3>1. Cardinality(Holders) < poolCapacity
        BY <2>2, <2>4, <2>5 DEF SlotsInv, SlotsExact
      <3>2. Len(lifo) \in Nat /\ (lifo # <<>> => Len(lifo) > 0)
        BY DEF SlotsInv
      <3>3. QED
        BY <2>2, <2>5, <3>1, <3>2 DEF SlotsInv, ConnectionsBounded
    <2>9. IdleConnectionsCurrent'
      BY Zenon, <2>1, <2>2 DEF SlotsInv, IdleConnectionsCurrent
    <2>10. QED
      BY Zenon, <2>1, <2>2, <2>3, <2>7, <2>8, <2>9 DEF SlotsInv
  <1>4. QED
    BY Zenon, <1>2, <1>3

\* A user that was signalled takes the connection it waited for.
LEMMA ResumeKeepsSlots ==
    ASSUME SlotsInv, NEW u \in Users, Resume(u)
    PROVE  SlotsInv'
  <1>1. /\ u \in woken /\ woken' = woken \ {u} /\ Take(u)
        /\ UNCHANGED <<poolInUse, waiters, connectionNonce, draining>>
    BY Zenon DEF Resume
  <1>2. u \notin Holders
    BY Zenon, <1>1 DEF SlotsInv, Apart
  <1>3. /\ connection' \in [Users -> Int] /\ lifo' \in Seq(Nat)
        /\ Holders' = Holders \cup {u}
        /\ Cardinality(Holders') = Cardinality(Holders) + 1
        /\ Cardinality(Holders) \in Nat
        /\ Len(lifo') = IF lifo = <<>> THEN 0 ELSE Len(lifo) - 1
        /\ \A i \in DOMAIN lifo' : lifo'[i] = lifo[i] /\ i \in DOMAIN lifo
    BY Zenon, <1>1, <1>2, TakeAdds
  <1>4. IsFiniteSet(woken) /\ IsFiniteSet(woken')
    BY Zenon, <1>1, PoolAssumption, FS_Subset DEF SlotsInv
  <1>5. /\ Cardinality(woken) \in Nat /\ Cardinality(woken') \in Nat
        /\ Cardinality(woken') = Cardinality(woken) - 1
    BY Zenon, <1>1, <1>4, FS_RemoveElement, FS_CardinalityType
  <1>6. Apart'
    BY Zenon, <1>1, <1>3 DEF SlotsInv, Apart
  <1>7. SlotsExact'
    BY <1>1, <1>3, <1>5 DEF SlotsInv, SlotsExact
  <1>8. ConnectionsBounded'
    <2>1. Cardinality(Holders) < poolCapacity /\ poolCapacity \in Nat
      BY <1>3, <1>5, PoolAssumption DEF SlotsInv, SlotsExact
    <2>2. Len(lifo) \in Nat
      BY DEF SlotsInv
    <2>3. QED
      BY <1>3, <2>1, <2>2 DEF SlotsInv, ConnectionsBounded
  <1>9. IdleConnectionsCurrent'
    BY Zenon, <1>1, <1>3 DEF SlotsInv, IdleConnectionsCurrent
  <1>10. QED
    BY Zenon, <1>1, <1>3, <1>6, <1>7, <1>8, <1>9 DEF SlotsInv

\* releaseChunkedConnection() and releaseNonChunkedConnection().
LEMMA ReleaseKeepsSlots ==
    ASSUME SlotsInv, NEW u \in Users, NEW keepAlive \in BOOLEAN, Release(u, keepAlive)
    PROVE  SlotsInv'
  <1>1. /\ u \in Holders
        /\ connection' = [connection EXCEPT ![u] = NoConnection]
        /\ lifo' = IF Keeps(u, keepAlive) THEN Append(lifo, connection[u]) ELSE lifo
        /\ UNCHANGED <<connectionNonce, draining>>
    BY Zenon DEF Release, Holders
  <1>2. connection' \in [Users -> Int] /\ Holders' = Holders \ {u}
    BY <1>1 DEF SlotsInv, Holders, NoConnection
  <1>3. IsFiniteSet(Holders) /\ IsFiniteSet(woken)
    BY Zenon, PoolAssumption, FS_Subset DEF SlotsInv, Holders
  <1>4. /\ Cardinality(Holders) \in Nat /\ Cardinality(Holders') \in Nat
        /\ Cardinality(Holders') = Cardinality(Holders) - 1
        /\ Cardinality(woken) \in Nat
    <2>1. IsFiniteSet(Holders') /\ Cardinality(Holders') = Cardinality(Holders) - 1
      BY Zenon, <1>1, <1>2, <1>3, FS_RemoveElement
    <2>2. QED
      BY Zenon, <1>3, <2>1, FS_CardinalityType
  <1>5. /\ lifo' \in Seq(Nat) /\ Len(lifo) \in Nat /\ Len(lifo') \in Nat
        /\ Len(lifo') <= Len(lifo) + 1
        /\ IdleConnectionsCurrent'
    <2>1. CASE Keeps(u, keepAlive)
      <3>1. lifo' = Append(lifo, connectionNonce) /\ connectionNonce \in Nat
        BY Zenon, <1>1, <2>1 DEF Keeps, SlotsInv
      <3>2. /\ lifo' \in Seq(Nat) /\ Len(lifo) \in Nat /\ Len(lifo') = Len(lifo) + 1
            /\ DOMAIN lifo' = 1..(Len(lifo) + 1) /\ DOMAIN lifo = 1..Len(lifo)
            /\ \A i \in 1..Len(lifo) : lifo'[i] = lifo[i]
            /\ lifo'[Len(lifo) + 1] = connectionNonce
        BY <3>1 DEF SlotsInv
      <3>3. \A i \in DOMAIN lifo' : i \in DOMAIN lifo \/ i = Len(lifo) + 1
        BY <3>2
      <3>4. IdleConnectionsCurrent'
        BY Zenon, <1>1, <3>2, <3>3 DEF SlotsInv, IdleConnectionsCurrent
      <3>5. QED
        BY <3>2, <3>4
    <2>2. CASE ~Keeps(u, keepAlive)
      BY <1>1, <2>2 DEF SlotsInv, IdleConnectionsCurrent
    <2>3. QED
      BY Zenon, <2>1, <2>2
  <1>6. ConnectionsBounded'
    BY SMTT(30), <1>4, <1>5, PoolAssumption DEF SlotsInv, ConnectionsBounded
  <1>7. CASE HandsOverSlot
    <2>1. /\ woken' = woken \cup {Head(waiters)} /\ waiters' = Tail(waiters)
          /\ poolInUse' = poolInUse /\ poolInUse = poolCapacity /\ waiters # <<>>
      BY Zenon, <1>7 DEF Release, HandsOverSlot, HandedOver
    <2>2. /\ Len(waiters) \in Nat /\ Len(waiters) > 0 /\ Head(waiters) = waiters[1]
          /\ DOMAIN waiters = 1..Len(waiters)
          /\ waiters' \in Seq(Users) /\ DOMAIN waiters' = 1..(Len(waiters) - 1)
          /\ \A i \in 1..(Len(waiters) - 1) : waiters'[i] = waiters[i + 1]
      BY <2>1 DEF SlotsInv
    <2>3. /\ waiters[1] \in Users /\ waiters[1] \notin woken /\ waiters[1] \notin Holders
      <3>1. 1 \in DOMAIN waiters
        BY <2>2
      <3>2. waiters[1] \in Users
        BY <2>2, <3>1 DEF SlotsInv
      <3> QED BY Zenon, <3>1, <3>2 DEF SlotsInv, Apart
    <2>4. \A i \in DOMAIN waiters' : /\ i + 1 \in DOMAIN waiters /\ 1 \in DOMAIN waiters
                                     /\ i + 1 # 1 /\ waiters'[i] = waiters[i + 1]
      BY <2>2
    <2>5. Apart'
      <3>1. \A i \in DOMAIN waiters' : waiters'[i] \notin woken' /\ waiters'[i] \notin Holders'
        <4> SUFFICES ASSUME NEW i \in DOMAIN waiters'
                     PROVE  waiters'[i] \notin woken' /\ waiters'[i] \notin Holders'
          BY Zenon
        <4>1. /\ i + 1 \in DOMAIN waiters /\ 1 \in DOMAIN waiters /\ i + 1 # 1
              /\ waiters'[i] = waiters[i + 1]
          BY Zenon, <2>4
        <4>2. /\ waiters[i + 1] \notin woken /\ waiters[i + 1] \notin Holders
              /\ waiters[i + 1] # waiters[1]
          BY Zenon, <4>1 DEF SlotsInv, Apart
        <4>3. woken' = woken \cup {waiters[1]} /\ Holders' \subseteq Holders
          BY Zenon, <1>2, <2>1, <2>2
        <4> QED BY Zenon, <4>1, <4>2, <4>3
      <3>2. ASSUME NEW i \in DOMAIN waiters', NEW j \in DOMAIN waiters',
                   waiters'[i] = waiters'[j]
            PROVE  i = j
        <4>1. i + 1 = j + 1
          BY Zenon, <2>4, <3>2 DEF SlotsInv, Apart
        <4>2. QED
          BY <2>2, <4>1
      <3>3. woken' \cap Holders' = {}
        BY <1>2, <2>1, <2>2, <2>3 DEF SlotsInv, Apart
      <3>4. QED
        BY Zenon, <3>1, <3>2, <3>3 DEF Apart
    <2>6. Cardinality(woken') = Cardinality(woken) + 1
      BY Zenon, <1>3, <2>1, <2>2, <2>3, FS_AddElement
    <2>7. SlotsExact'
      BY <1>4, <2>1, <2>6 DEF SlotsInv, SlotsExact
    <2>8. woken' \subseteq Users
      BY Zenon, <2>1, <2>2, <2>3 DEF SlotsInv
    <2>9. QED
      BY SMTT(30), <1>1, <1>2, <1>5, <1>6, <2>1, <2>2, <2>5, <2>7, <2>8 DEF SlotsInv
  <1>8. CASE ~HandsOverSlot
    <2>1. /\ poolInUse' = poolInUse - 1 /\ UNCHANGED <<woken, waiters>>
      BY Zenon, <1>8 DEF Release
    <2>2. Apart'
      BY Zenon, <1>2, <2>1 DEF SlotsInv, Apart
    <2>3. waiters = <<>>
      BY Zenon, <1>8 DEF HandsOverSlot, SlotsInv, SlotsExact
    <2>4. SlotsExact' /\ poolInUse' \in 0..poolCapacity
      <3>1. /\ poolInUse = Cardinality(Holders) + Cardinality(woken)
            /\ poolInUse \in 0..poolCapacity
        BY Zenon DEF SlotsInv, SlotsExact
      <3>2. poolInUse' = Cardinality(Holders') + Cardinality(woken')
        BY <1>4, <2>1, <3>1
      <3>3. poolInUse' \in 0..poolCapacity
        BY <1>4, <2>1, <3>1, <3>2, PoolAssumption
      <3> QED BY Zenon, <2>1, <2>3, <3>2, <3>3 DEF SlotsExact
    <2>5. QED
      BY SMTT(30), <1>1, <1>2, <1>5, <1>6, <2>1, <2>2, <2>4 DEF SlotsInv
  <1>9. QED
    BY Zenon, <1>7, <1>8

\* Slots, connections and idle connections are untouched by a starvation
\* goroutine, and by a SIGHUP except for the nonce and the drain.
LEMMA OthersKeepSlots ==
    ASSUME SlotsInv,
           \/ Reload \/ DrainConnectionPool
           \/ \E g \in Goroutines : \/ StarvationResolved(g) \/ StarvationTick(g)
                                    \/ CallbackReturns(g)
           \/ UNCHANGED poolVars
    PROVE  SlotsInv'
  <1>1. /\ UNCHANGED <<poolInUse, waiters, woken, connection>>
        /\ \/ UNCHANGED <<lifo, connectionNonce, draining>>
           \/ UNCHANGED lifo /\ connectionNonce' = connectionNonce + 1 /\ draining' = TRUE
           \/ lifo' = <<>> /\ UNCHANGED connectionNonce
    BY Zenon DEF Reload, DrainConnectionPool, StarvationResolved, StarvationTick,
       CallbackReturns,
           poolVars
  <1>2. Holders' = Holders /\ Apart' /\ SlotsExact'
    BY Zenon, <1>1 DEF SlotsInv, Apart, SlotsExact, Holders
  <1>3. IsFiniteSet(Holders)
    BY Zenon, PoolAssumption, FS_Subset DEF Holders
  <1>4. Cardinality(Holders) \in Nat
    BY Zenon, <1>3, FS_CardinalityType
  <1>5. lifo' \in Seq(Nat) /\ connectionNonce' \in Nat
    <2>1. <<>> \in Seq(Nat)
      OBVIOUS
    <2>2. lifo' \in Seq(Nat)
      BY <1>1, <2>1, Zenon DEF SlotsInv
    <2>3. connectionNonce' = connectionNonce \/ connectionNonce' = connectionNonce + 1
      BY Zenon, <1>1
    <2>4. connectionNonce' \in Nat
      BY <2>3 DEF SlotsInv
    <2>5. QED
      BY Zenon, <2>2, <2>4
  <1>6. ConnectionsBounded'
    <2>1. Len(lifo) \in Nat /\ (lifo' = lifo \/ Len(lifo') = 0)
      BY <1>1 DEF SlotsInv
    <2>2. QED
      BY <1>2, <1>4, <2>1, PoolAssumption DEF SlotsInv, ConnectionsBounded
  <1>7. IdleConnectionsCurrent'
    BY <1>1 DEF SlotsInv, IdleConnectionsCurrent
  <1>8. QED
    BY Zenon, <1>1, <1>2, <1>5, <1>6, <1>7 DEF SlotsInv

\* SlotsInv is an invariant of the pool.
LEMMA SlotsInvariant == PoolSpec => []SlotsInv
  <1>1. SlotsInv /\ [PoolNext]_poolVars => SlotsInv'
    <2> SUFFICES ASSUME SlotsInv, [PoolNext]_poolVars PROVE SlotsInv'
      BY Zenon
    <2>1. CASE \E u \in Users : Acquire(u)
      BY Zenon, <2>1, AcquireKeepsSlots
    <2>2. CASE \E u \in Users : Resume(u)
      BY Zenon, <2>2, ResumeKeepsSlots
    <2>3. CASE \E u \in Users, keepAlive \in BOOLEAN : Release(u, keepAlive)
      BY Zenon, <2>3, ReleaseKeepsSlots
    <2>4. CASE \/ Reload \/ DrainConnectionPool
               \/ \E g \in Goroutines : \/ StarvationResolved(g) \/ StarvationTick(g)
                                        \/ CallbackReturns(g)
               \/ UNCHANGED poolVars
      BY Zenon, <2>4, OthersKeepSlots
    <2>5. QED
      BY Zenon, <2>1, <2>2, <2>3, <2>4 DEF PoolNext
  <1>2. QED
    BY <1>1, InitSlots, PTL DEF PoolSpec

\* acquireChunkedConnection() and releaseChunkedConnection() count slots
\* exactly and leave nobody asleep beside a free slot, for every number of
\* users and every capacity.
THEOREM SlotsCounted == PoolSpec => []SlotsExact
  <1>1. SlotsInv => SlotsExact
    BY Zenon DEF SlotsInv
  <1>2. QED
    BY <1>1, SlotsInvariant, PTL

\* The pool never owns more connections than its capacity, so the index of
\* releaseChunkedConnection() into lifoOfActiveConnections is in range.
THEOREM PoolNeverOverflows == PoolSpec => []ConnectionsBounded
  <1>1. SlotsInv => ConnectionsBounded
    BY Zenon DEF SlotsInv
  <1>2. QED
    BY <1>1, SlotsInvariant, PTL

\* After a drain no idle connection is older than the SIGHUP that asked for it.
THEOREM OldConnectionsClosed == PoolSpec => []IdleConnectionsCurrent
  <1>1. SlotsInv => IdleConnectionsCurrent
    BY Zenon DEF SlotsInv
  <1>2. QED
    BY <1>1, SlotsInvariant, PTL

-----------------------------------------------------------------------------
(***************************************************************************)
(* Starvation goroutines.                                                  *)
(***************************************************************************)
Active == {g \in Goroutines : starver[g] # "none"}
Calling == {g \in Goroutines : starver[g] = "callback"}

\* Starvation is under way exactly while somebody waits for a connection.
StarverInv ==
    /\ starver \in [Goroutines -> {"none", "select", "callback"}]
    /\ resolved \in 0..2 /\ starvationUnderway \in BOOLEAN
    /\ starvationUnderway <=> waiters # <<>>
    /\ StarversMatch

\* The goroutines that run, and the ones in the callback, are finitely many.
LEMMA ActiveFinite ==
    /\ IsFiniteSet(Active) /\ Cardinality(Active) \in Nat
    /\ IsFiniteSet(Calling) /\ Cardinality(Calling) \in Nat
  <1>1. Active \subseteq Goroutines /\ Calling \subseteq Goroutines
    BY Zenon DEF Active, Calling
  <1>2. IsFiniteSet(Active) /\ IsFiniteSet(Calling)
    BY Zenon, <1>1, PoolAssumption, FS_Subset
  <1> QED BY Zenon, <1>2, FS_CardinalityType

\* What StarversMatch counts, by name.
LEMMA StarversCounted ==
    StarversMatch <=>
      /\ Cardinality(Active) = resolved + (IF starvationUnderway THEN 1 ELSE 0)
      /\ Cardinality(Calling) <= 1
  BY Zenon DEF StarversMatch, Active, Calling

\* Nobody starves at first.
LEMMA InitStarvers == PoolInit => StarverInv
  <1> SUFFICES ASSUME PoolInit PROVE StarverInv
    OBVIOUS
  <1>1. Active = {} /\ Calling = {}
    BY Zenon DEF PoolInit, Active, Calling
  <1>2. Cardinality(Active) = 0 /\ Cardinality(Calling) = 0
    BY Zenon, <1>1, FS_EmptySet
  <1>3. StarversMatch
    BY <1>2, StarversCounted DEF PoolInit
  <1>4. starver \in [Goroutines -> {"none", "select", "callback"}] /\ resolved \in 0..2
    BY DEF PoolInit
  <1>5. starvationUnderway \in BOOLEAN /\ (starvationUnderway <=> waiters # <<>>)
    BY Zenon DEF PoolInit
  <1> QED BY Zenon, <1>3, <1>4, <1>5 DEF StarverInv

\* acquireChunkedConnection() starts a goroutine for the first who waits only.
LEMMA AcquireKeepsStarvers ==
    ASSUME SlotsInv, StarverInv, NEW u \in Users, Acquire(u)
    PROVE  StarverInv'
  <1>1. resolved' = resolved /\ resolved \in 0..2
    BY Zenon DEF Acquire, StarverInv
  <1>2. CASE poolInUse >= poolCapacity
    <2>1. waiters' = Append(waiters, u) /\ waiters' # <<>> /\ Starve
      BY <1>2 DEF Acquire, SlotsInv
    <2>2. CASE starvationUnderway
      <3>1. UNCHANGED <<starvationUnderway, starver>>
        BY Zenon, <2>1, <2>2 DEF Starve
      <3>2. StarversMatch'
        BY Zenon, <1>1, <3>1 DEF StarverInv, StarversMatch
      <3> QED BY Zenon, <1>1, <2>1, <2>2, <3>1, <3>2 DEF StarverInv
    <2>3. CASE ~starvationUnderway
      <3>1. PICK g \in Goroutines : /\ starver[g] = "none" /\ starvationUnderway' = TRUE
                                    /\ starver' = [starver EXCEPT ![g] = "select"]
        BY Zenon, <2>1, <2>3 DEF Starve
      <3>2. Active' = Active \cup {g} /\ g \notin Active /\ Calling' = Calling
        BY Zenon, <3>1 DEF Active, Calling, StarverInv
      <3>3. Cardinality(Active') = Cardinality(Active) + 1
        BY Zenon, <3>2, ActiveFinite, FS_AddElement
      <3>4. Cardinality(Active) = resolved /\ Cardinality(Calling) <= 1
        BY <1>1, <2>3, StarversCounted DEF StarverInv
      <3>5. Cardinality(Active)' = resolved' + 1 /\ Cardinality(Calling)' <= 1
        BY Zenon, <1>1, <3>2, <3>3, <3>4
      <3>6. StarversMatch'
        BY Zenon, <3>1, <3>5 DEF StarversMatch, Active, Calling
      <3> QED BY Zenon, <1>1, <2>1, <3>1, <3>6 DEF StarverInv
    <2> QED BY Zenon, <2>2, <2>3
  <1>3. CASE ~(poolInUse >= poolCapacity)
    <2>1. UNCHANGED <<waiters, starvationUnderway, starver>>
      BY Zenon, <1>3 DEF Acquire
    <2>2. StarversMatch'
      BY Zenon, <1>1, <2>1 DEF StarverInv, StarversMatch
    <2> QED BY Zenon, <1>1, <2>1, <2>2 DEF StarverInv
  <1> QED BY Zenon, <1>2, <1>3

\* releaseChunkedConnection() sends one message when the last waiter is served.
LEMMA ReleaseKeepsStarvers ==
    ASSUME SlotsInv, StarverInv, NEW u \in Users, NEW keepAlive \in BOOLEAN,
           Release(u, keepAlive)
    PROVE  StarverInv'
  <1>1. starver' = starver /\ resolved < 2
    BY Zenon DEF Release, MutexFree
  <1>2. Active' = Active /\ Calling' = Calling
    BY Zenon, <1>1 DEF Active, Calling
  <1>3. CASE HandsOverSlot
    <2>1. waiters # <<>> /\ waiters' = Tail(waiters) /\ starvationUnderway
      BY Zenon, <1>3 DEF Release, HandsOverSlot, StarverInv
    <2>2. CASE Tail(waiters) = <<>>
      <3>1. starvationUnderway' = FALSE /\ resolved' = resolved + 1
        BY Zenon, <1>3, <2>1, <2>2 DEF Release
      <3>2. resolved \in 0..2 /\ resolved' \in 0..2 /\ resolved' = resolved + 1
        BY <1>1, <3>1 DEF StarverInv
      <3>3. Cardinality(Active) = resolved + 1 /\ Cardinality(Calling) <= 1
        BY Zenon, <2>1, StarversCounted DEF StarverInv
      <3>4. Cardinality(Active)' = resolved' + 0 /\ Cardinality(Calling)' <= 1
        BY <1>2, <3>2, <3>3
      <3>5. StarversMatch'
        BY Zenon, <3>1, <3>4 DEF StarversMatch, Active, Calling
      <3> QED BY Zenon, <1>1, <2>1, <2>2, <3>1, <3>2, <3>5 DEF StarverInv
    <2>3. CASE Tail(waiters) # <<>>
      <3>1. UNCHANGED <<starvationUnderway, resolved>>
        BY Zenon, <1>3, <2>3 DEF Release
      <3>2. StarversMatch'
        BY Zenon, <1>1, <3>1 DEF StarverInv, StarversMatch
      <3> QED BY Zenon, <1>1, <2>1, <2>3, <3>1, <3>2 DEF StarverInv
    <2> QED BY Zenon, <2>2, <2>3
  <1>4. CASE ~HandsOverSlot
    <2>1. UNCHANGED <<waiters, starvationUnderway, resolved>>
      BY Zenon, <1>4 DEF Release
    <2>2. StarversMatch'
      BY Zenon, <1>1, <2>1 DEF StarverInv, StarversMatch
    <2> QED BY Zenon, <1>1, <2>1, <2>2 DEF StarverInv
  <1> QED BY Zenon, <1>3, <1>4

\* A goroutine that receives a message ends; one whose timer fires is the only one.
LEMMA StarverStepsKeepStarvers ==
    ASSUME SlotsInv, StarverInv, NEW g \in Goroutines,
           StarvationResolved(g) \/ StarvationTick(g) \/ CallbackReturns(g)
    PROVE  StarverInv'
  <1>1. UNCHANGED <<waiters, starvationUnderway>> /\ resolved \in 0..2
    BY Zenon DEF StarvationResolved, StarvationTick, CallbackReturns, StarverInv
  <1>2. /\ Cardinality(Active) = resolved + (IF starvationUnderway THEN 1 ELSE 0)
        /\ Cardinality(Calling) <= 1
    BY Zenon, StarversCounted DEF StarverInv
  <1>3. CASE StarvationResolved(g)
    <2>1. /\ starver[g] = "select" /\ resolved > 0 /\ resolved' = resolved - 1
          /\ starver' = [starver EXCEPT ![g] = "none"]
      BY Zenon, <1>3 DEF StarvationResolved
    <2>2. Active' = Active \ {g} /\ g \in Active /\ Calling' = Calling
      BY Zenon, <2>1 DEF Active, Calling, StarverInv
    <2>3. Cardinality(Active') = Cardinality(Active) - 1
      BY Zenon, <2>2, ActiveFinite, FS_RemoveElement
    <2>4. /\ Cardinality(Active)' = resolved' + (IF starvationUnderway' THEN 1 ELSE 0)
          /\ Cardinality(Calling)' <= 1
      BY <1>1, <1>2, <2>1, <2>2, <2>3
    <2>5. StarversMatch'
      BY Zenon, <2>4 DEF StarversMatch, Active, Calling
    <2> QED BY <1>1, <2>1, <2>5 DEF StarverInv
  <1>4. CASE StarvationTick(g)
    <2>1. /\ starver[g] = "select" /\ resolved = 0 /\ resolved' = resolved
          /\ starver' = [starver EXCEPT ![g] = "callback"]
      BY Zenon, <1>4 DEF StarvationTick
    <2>2. Active' = Active /\ Calling' \subseteq Active
      BY Zenon, <2>1 DEF Active, Calling, StarverInv
    <2>3. Cardinality(Calling') <= Cardinality(Active)
      BY Zenon, <2>2, ActiveFinite, FS_Subset
    <2>4. Cardinality(Calling') \in Nat
      <3>1. IsFiniteSet(Calling')
        BY Zenon, <2>2, ActiveFinite, FS_Subset
      <3> QED BY Zenon, <3>1, FS_CardinalityType
    <2>5. /\ Cardinality(Active)' = resolved' + (IF starvationUnderway' THEN 1 ELSE 0)
          /\ Cardinality(Calling)' <= 1
      <3>1. Cardinality(Active) <= 1 /\ Cardinality(Active) \in Nat
        BY <1>2, <2>1, ActiveFinite
      <3> QED BY <1>1, <1>2, <2>1, <2>2, <2>3, <2>4, <3>1
    <2>6. StarversMatch'
      BY Zenon, <2>5 DEF StarversMatch, Active, Calling
    <2> QED BY Zenon, <1>1, <2>1, <2>6 DEF StarverInv
  <1>5. CASE CallbackReturns(g)
    <2>1. /\ starver[g] = "callback" /\ resolved' = resolved
          /\ starver' = [starver EXCEPT ![g] = "select"]
      BY Zenon, <1>5 DEF CallbackReturns
    <2>2. Active' = Active /\ Calling' \subseteq Calling
      BY Zenon, <2>1 DEF Active, Calling, StarverInv
    <2>3. Cardinality(Calling') <= Cardinality(Calling) /\ Cardinality(Calling') \in Nat
      BY Zenon, <2>2, ActiveFinite, FS_Subset, FS_CardinalityType
    <2>4. /\ Cardinality(Active)' = resolved' + (IF starvationUnderway' THEN 1 ELSE 0)
          /\ Cardinality(Calling)' <= 1
      BY <1>1, <1>2, <2>1, <2>2, <2>3, ActiveFinite
    <2>5. StarversMatch'
      BY Zenon, <2>4 DEF StarversMatch, Active, Calling
    <2> QED BY Zenon, <1>1, <2>1, <2>5 DEF StarverInv
  <1> QED BY Zenon, <1>3, <1>4, <1>5

\* StarverInv is an invariant of the pool.
LEMMA StarverInvariant == PoolSpec => []StarverInv
  <1>1. SlotsInv /\ StarverInv /\ [PoolNext]_poolVars => StarverInv'
    <2> SUFFICES ASSUME SlotsInv, StarverInv, [PoolNext]_poolVars PROVE StarverInv'
      BY Zenon
    <2>1. CASE \E u \in Users : Acquire(u)
      BY Zenon, <2>1, AcquireKeepsStarvers
    <2>2. CASE \E u \in Users, keepAlive \in BOOLEAN : Release(u, keepAlive)
      BY Zenon, <2>2, ReleaseKeepsStarvers
    <2>3. CASE \E g \in Goroutines : StarvationResolved(g) \/ StarvationTick(g)
                                       \/ CallbackReturns(g)
      BY Zenon, <2>3, StarverStepsKeepStarvers
    <2>4. CASE \/ Reload \/ DrainConnectionPool \/ \E u \in Users : Resume(u)
               \/ UNCHANGED poolVars
      <3>1. UNCHANGED <<waiters, starver, resolved, starvationUnderway>>
        BY Zenon, <2>4 DEF Reload, DrainConnectionPool, Resume, poolVars
      <3>2. StarversMatch'
        BY Zenon, <3>1 DEF StarverInv, StarversMatch
      <3> QED BY Zenon, <3>1, <3>2 DEF StarverInv
    <2>5. QED
      BY Zenon, <2>1, <2>2, <2>3, <2>4 DEF PoolNext
  <1>2. QED
    BY <1>1, InitStarvers, SlotsInvariant, PTL DEF PoolSpec

\* A starvation goroutine is left for every message on stavationResolvedChan and
\* one while starvation is under way, and the callback never runs twice at once.
THEOREM StarversEnd == PoolSpec => []StarversMatch
  <1>1. StarverInv => StarversMatch
    BY Zenon DEF StarverInv
  <1>2. QED
    BY <1>1, StarverInvariant, PTL

-----------------------------------------------------------------------------
(***************************************************************************)
(* The file system uses the pool by its actions only.                      *)
(***************************************************************************)
LEMMA NextUsesPool == [Next]_vars => [PoolNext]_poolVars
  <1> SUFFICES ASSUME [Next]_vars PROVE PoolNext \/ UNCHANGED poolVars
    BY Zenon
  <1>1. CASE \E t \in Clients, f \in Files : WriteLocks(t, f) \/ Flush(t, f) \/ FlushReturns(t, f)
    BY Zenon, <1>1 DEF WriteLocks, Flush, FlushReturns
  <1>2. CASE \E t \in Clients : ClientStep(t)
    <2>1. PICK t \in Clients : ClientStep(t)
      BY Zenon, <1>2
    <2>2. CASE WriteOpens(t)
      <3>1. PICK u \in LogSegments(writing[t]) \ closing : Acquire(u)
        BY Zenon, <2>2 DEF WriteOpens
      <3>2. u \in Users
        BY Zenon, <3>1 DEF LogSegments
      <3> QED BY Zenon, <3>1, <3>2 DEF PoolNext
    <2>3. CASE \E full \in BOOLEAN : WriteSends(t, full)
      BY Zenon, <2>3 DEF WriteSends
    <2>4. CASE WriteRetries(t) \/ WriteFails(t)
      <3>1. \/ UNCHANGED poolVars
            \/ \E u \in LogSegments(writing[t]) : Release(u, FALSE)
        BY Zenon, <2>4 DEF WriteRetries, WriteFails
      <3>2. \A u \in LogSegments(writing[t]) : u \in Users
        BY Zenon DEF LogSegments
      <3> QED BY Zenon, <3>1, <3>2 DEF PoolNext
    <2> QED BY Zenon, <2>1, <2>2, <2>3, <2>4 DEF ClientStep
  <1>3. CASE \E u \in Users : CloseStep(u)
    BY Zenon, <1>3 DEF CloseStep, CloseLogSegment, CloseFails, CloseRetries, PoolNext
  <1>4. CASE \E e \in Entries : TrackerStep(e) \/ TrackerLocks(e)
    BY Zenon, <1>4 DEF TrackerStep, TrackerTimesOut, TrackerTold, TrackerEnds, TrackerLocks, Move
  <1>5. CASE \E g \in Goroutines : CallbackStep(g) \/ CallbackLocks(g)
    BY Zenon, <1>5 DEF CallbackStep, CallbackPicks, CallbackEnds, CallbackLocks, PoolNext
  <1>6. CASE StartDown \/ DownStep
    BY Zenon, <1>6 DEF StartDown, DownStep, DownUntracks, DownWaited, DownReturns, DownVars
  <1>7. CASE PoolStep \/ (MishapLeft /\ Reload /\ UNCHANGED fsVars)
    BY Zenon, <1>7 DEF PoolStep, PoolNext
  <1>8. CASE UNCHANGED vars
    BY Zenon, <1>8 DEF vars
  <1> QED BY Zenon, <1>1, <1>2, <1>3, <1>4, <1>5, <1>6, <1>7, <1>8 DEF Next

\* Write(), Flush(), the trackers, the callbacks and Down() leave the pool to
\* acquireChunkedConnection() and releaseChunkedConnection(): what is proved of
\* the pool holds of the file system that uses it.
THEOREM UsesPool == Spec => PoolSpec
  <1>1. Init => PoolInit
    BY Zenon DEF Init
  <1> QED BY <1>1, NextUsesPool, PTL DEF Spec, PoolSpec

\* Log segments that have asked for a connection and have not released it.
Attached == {u \in Users : u \in Holders \/ u \in woken \/ \E i \in DOMAIN waiters : waiters[i] = u}

\* What holds a connection for f is the one open log segment or is being closed.  A
\* file under flush is locked and has no open log segment.  A clean file has no log
\* segments, and no error of one.  A file that no client works on, that is not
\* tracked and that no caller got an error about is clean.
FileOK(f) ==
    /\ openLogSegment[f] \subseteq LogSegments(f)
    /\ \A u, v \in openLogSegment[f] : u = v
    /\ \A u \in LogSegments(f) : u \in Attached => u \in openLogSegment[f] \/ u \in closing
    /\ f \in flushing => inodeLock[f] # Nobody /\ openLogSegment[f] = {}
    /\ ~dirty[f] => /\ openLogSegment[f] = {} /\ f \notin segmentErrors
                    /\ \A u \in LogSegments(f) : u \notin closing
    /\ down.pc = "up" /\ inodeLock[f] \notin Clients /\ inFlightMap[f] = NoEntry
         /\ f \notin told => ~dirty[f]

\* A client that writes a file owns its lock, does not flush it, has marked it dirty,
\* and has begun before Down().
ClientOK(t) ==
    writing[t] # Nobody =>
      /\ writing[t] \in Files /\ inodeLock[writing[t]] = t /\ writing[t] \notin flushing
      /\ dirty[writing[t]] /\ down.pc = "up"

EntryRec == [file : Files \cup {Nobody}, pc : {"wait", "lock", "flush", "done"},
             control : SUBSET BOOLEAN]

\* The map leads to entries of its files, every entry of the list is in the map and
\* is listed once, and a tracker that runs has a file.
TrackInv ==
    /\ inFlightMap \in [Files -> Entries \cup {NoEntry}]
    /\ inFlightList \in Seq(Entries)
    /\ entry \in [Entries -> EntryRec]
    /\ \A f \in Files : inFlightMap[f] # NoEntry => entry[inFlightMap[f]].file = f
    /\ \A i \in DOMAIN inFlightList :
         /\ entry[inFlightList[i]].file \in Files
         /\ inFlightMap[entry[inFlightList[i]].file] = inFlightList[i]
    /\ \A i, j \in DOMAIN inFlightList : inFlightList[i] = inFlightList[j] => i = j
    /\ \A e \in Entries : entry[e].pc # "done" => entry[e].file \in Files

\* What Down() has yet to untrack is all that the map holds.
DownInv ==
    /\ down \in [pc : {"up", "untrack", "done"}, todo : SUBSET Files,
                 awaits : Entries \cup {NoEntry}]
    /\ down.pc # "up" => \A f \in Files : inFlightMap[f] # NoEntry => f \in down.todo
    /\ down.pc = "done" => down.todo = {}

\* Inodes, log segments and clients.
WorkInv ==
    /\ inodeLock \in [Files -> {Nobody} \cup Clients \cup Entries \cup Goroutines]
    /\ dirty \in [Files -> BOOLEAN]
    /\ openLogSegment \in [Files -> SUBSET Users]
    /\ writing \in [Clients -> Files \cup {Nobody}]
    /\ \A f \in Files : FileOK(f)
    /\ \A t \in Clients : ClientOK(t)

FsInv ==
    /\ WorkInv /\ TrackInv /\ DownInv
    /\ callback \in [Goroutines -> Files \cup {Nobody}]

\* A context that has failed for good has no connection and asks for none, and belongs
\* to a log segment that is open or being closed.
ContextInv ==
    /\ context \in [Users -> {"new", "sent", "fatal", "nil"}]
    /\ \A u \in Users : context[u] = "fatal" =>
         u \notin Attached /\ (u \in openLogSegment[u[1]] \/ u \in closing)

\* Who is attached: only acquireChunkedConnection() attaches a log segment, and
\* releaseChunkedConnection() detaches the one it is called for.
LEMMA AcquireAttaches ==
    ASSUME SlotsInv, NEW u \in Users, Acquire(u)
    PROVE  Attached' \subseteq Attached \cup {u}
  <1> SUFFICES ASSUME NEW v \in Attached', v # u PROVE v \in Attached
    BY Zenon
  <1>1. v \in Users /\ woken' = woken
    BY Zenon DEF Attached, Acquire
  <1>2. CASE poolInUse >= poolCapacity
    <2>1. waiters' = Append(waiters, u) /\ connection' = connection
      BY Zenon, <1>2 DEF Acquire
    <2>2. Holders' = Holders
      BY Zenon, <2>1 DEF Holders
    <2>3. \A i \in DOMAIN waiters' : waiters'[i] = v => i \in DOMAIN waiters /\ waiters[i] = v
      BY <2>1 DEF SlotsInv
    <2> QED BY Zenon, <1>1, <2>2, <2>3 DEF Attached
  <1>3. CASE ~(poolInUse >= poolCapacity)
    <2>1. waiters' = waiters /\ Take(u)
      BY Zenon, <1>3 DEF Acquire
    <2>2. u \notin Holders
      BY Zenon DEF Acquire, Holders
    <2>3. Holders' = Holders \cup {u}
      BY Zenon, <2>1, <2>2, TakeAdds
    <2> QED BY Zenon, <1>1, <2>1, <2>3 DEF Attached
  <1> QED BY Zenon, <1>2, <1>3

\* Releasing detaches the user and attaches nobody.
LEMMA ReleaseDetaches ==
    ASSUME SlotsInv, NEW u \in Users, NEW keepAlive \in BOOLEAN, Release(u, keepAlive)
    PROVE  Attached' \subseteq Attached \ {u}
  <1> SUFFICES ASSUME NEW v \in Attached' PROVE v \in Attached /\ v # u
    BY Zenon
  <1>1. v \in Users
    BY Zenon DEF Attached
  <1>2. u \in Holders /\ Holders' = Holders \ {u}
    BY Zenon DEF Release, Holders, SlotsInv, NoConnection
  <1>3. u \notin woken /\ \A i \in DOMAIN waiters : waiters[i] # u
    BY Zenon, <1>2 DEF SlotsInv, Apart
  <1>4. CASE HandsOverSlot
    <2>1. waiters # <<>> /\ waiters' = Tail(waiters) /\ woken' = woken \cup {Head(waiters)}
      BY Zenon, <1>4 DEF Release, HandsOverSlot
    <2>2. 1 \in DOMAIN waiters /\ Head(waiters) = waiters[1]
      BY <2>1 DEF SlotsInv
    <2>3. \A i \in DOMAIN waiters' : i + 1 \in DOMAIN waiters /\ waiters'[i] = waiters[i + 1]
      BY <2>1 DEF SlotsInv
    <2> QED BY Zenon, <1>1, <1>2, <1>3, <2>1, <2>2, <2>3 DEF Attached
  <1>5. CASE ~HandsOverSlot
    <2>1. UNCHANGED <<woken, waiters>>
      BY Zenon, <1>5 DEF Release
    <2> QED BY Zenon, <1>1, <1>2, <1>3, <2>1 DEF Attached
  <1> QED BY Zenon, <1>4, <1>5

\* A step that leaves the pool alone attaches nobody.
LEMMA OthersKeepAttached ==
    ASSUME SlotsInv,
           \/ \E u \in Users : Resume(u)
           \/ Reload \/ DrainConnectionPool
           \/ \E g \in Goroutines : \/ StarvationResolved(g) \/ StarvationTick(g)
                                    \/ CallbackReturns(g)
           \/ UNCHANGED poolVars
    PROVE  Attached' = Attached
  <1>1. CASE \E u \in Users : Resume(u)
    <2>1. PICK u \in Users : Resume(u)
      BY Zenon, <1>1
    <2>2. u \in woken /\ woken' = woken \ {u} /\ waiters' = waiters /\ Take(u)
      BY Zenon, <2>1 DEF Resume
    <2>3. u \notin Holders
      BY Zenon, <2>2 DEF SlotsInv, Apart
    <2>4. Holders' = Holders \cup {u}
      BY Zenon, <2>2, <2>3, TakeAdds
    <2> QED BY Zenon, <2>2, <2>4 DEF Attached
  <1>2. CASE ~\E u \in Users : Resume(u)
    <2>1. UNCHANGED <<woken, waiters, connection>>
      BY Zenon, <1>2 DEF Reload, DrainConnectionPool, StarvationResolved, StarvationTick,
                         CallbackReturns, poolVars
    <2> QED BY Zenon, <2>1 DEF Attached, Holders
  <1> QED BY Zenon, <1>1, <1>2

\* An entry is never NoEntry, and nobody is Nobody.
LEMMA NamesApart ==
    /\ \A e \in Entries : e # NoEntry /\ e # Nobody
    /\ \A t \in Clients : t # Nobody
    /\ \A g \in Goroutines : g # Nobody
    /\ Nobody \notin Clients /\ Clients \cap (Entries \cup Goroutines) = {}
    /\ Nobody \notin Files
  BY InFlightAssumption DEF Entries, NoEntry

\* trackInFlightFileInodeData() tracks f, with an entry of its own.
LEMMA TrackTracks ==
    ASSUME TrackInv, NEW f \in Files, Track(f)
    PROVE  /\ TrackInv'
           /\ inFlightMap'[f] # NoEntry
           /\ \A h \in Files \ {f} : inFlightMap'[h] = inFlightMap[h]
  <1>1. CASE inFlightMap[f] # NoEntry
    <2>1. UNCHANGED <<inFlightMap, inFlightList, entry>>
      BY Zenon, <1>1 DEF Track
    <2> QED BY Zenon, <1>1, <2>1 DEF TrackInv
  <1>2. CASE inFlightMap[f] = NoEntry
    <2>1. PICK e \in Entries :
            /\ entry[e] = FreeEntry
            /\ inFlightMap' = [inFlightMap EXCEPT ![f] = e]
            /\ inFlightList' = Append(inFlightList, e)
            /\ entry' = [entry EXCEPT ![e] = [file |-> f, pc |-> "wait", control |-> {}]]
      BY Zenon, <1>2 DEF Track, Unused
    <2>2. entry[e].file \notin Files
      BY <2>1, NamesApart DEF FreeEntry
    <2>3. /\ inFlightMap' \in [Files -> Entries \cup {NoEntry}]
          /\ inFlightMap'[f] = e
          /\ \A h \in Files \ {f} : inFlightMap'[h] = inFlightMap[h]
      BY Zenon, <2>1 DEF TrackInv
    <2>4. /\ entry' \in [Entries -> EntryRec]
          /\ entry'[e].file = f
          /\ \A d \in Entries \ {e} : entry'[d] = entry[d]
      BY Zenon, <2>1 DEF TrackInv, EntryRec
    <2>5. /\ inFlightList' \in Seq(Entries)
          /\ DOMAIN inFlightList' = 1..(Len(inFlightList) + 1)
          /\ DOMAIN inFlightList = 1..Len(inFlightList) /\ Len(inFlightList) \in Nat
          /\ inFlightList'[Len(inFlightList) + 1] = e
          /\ \A i \in DOMAIN inFlightList : inFlightList'[i] = inFlightList[i]
                                            /\ inFlightList[i] \in Entries
      BY <2>1 DEF TrackInv
    <2>6. \A i \in DOMAIN inFlightList' : i \in DOMAIN inFlightList \/ inFlightList'[i] = e
      BY <2>5
    <2>7. \A i \in DOMAIN inFlightList :
            inFlightList[i] # e /\ entry[inFlightList[i]].file # f
      <3>1. \A i \in DOMAIN inFlightList : inFlightList[i] # e
        BY Zenon, <2>2 DEF TrackInv
      <3>2. \A i \in DOMAIN inFlightList : entry[inFlightList[i]].file # f
        <4> SUFFICES ASSUME NEW i \in DOMAIN inFlightList PROVE entry[inFlightList[i]].file # f
          BY Zenon
        <4>1. inFlightMap[entry[inFlightList[i]].file] = inFlightList[i]
          BY Zenon DEF TrackInv
        <4>2. inFlightList[i] # NoEntry
          BY Zenon, <2>5, NamesApart
        <4> QED BY Zenon, <4>1, <4>2, <1>2
      <3> QED BY Zenon, <3>1, <3>2
    <2>8. \A h \in Files \ {f} : inFlightMap[h] # NoEntry =>
            inFlightMap[h] \in Entries \ {e}
      BY ZenonT(60), <2>2 DEF TrackInv
    <2>9. \A h \in Files : inFlightMap'[h] # NoEntry => entry'[inFlightMap'[h]].file = h
      <3> SUFFICES ASSUME NEW h \in Files, inFlightMap'[h] # NoEntry
                   PROVE  entry'[inFlightMap'[h]].file = h
        BY Zenon
      <3>1. CASE h = f
        BY Zenon, <3>1, <2>3, <2>4
      <3>2. CASE h # f
        <4>1. inFlightMap'[h] = inFlightMap[h] /\ inFlightMap[h] # NoEntry
          BY Zenon, <3>2, <2>3
        <4>2. entry'[inFlightMap[h]] = entry[inFlightMap[h]]
          BY Zenon, <3>2, <4>1, <2>4, <2>8
        <4> QED BY Zenon, <4>1, <4>2 DEF TrackInv
      <3> QED BY Zenon, <3>1, <3>2
    <2>10. \A i \in DOMAIN inFlightList' :
             /\ entry'[inFlightList'[i]].file \in Files
             /\ inFlightMap'[entry'[inFlightList'[i]].file] = inFlightList'[i]
      <3> SUFFICES ASSUME NEW i \in DOMAIN inFlightList'
                   PROVE  /\ entry'[inFlightList'[i]].file \in Files
                          /\ inFlightMap'[entry'[inFlightList'[i]].file] = inFlightList'[i]
        BY Zenon
      <3>1. CASE inFlightList'[i] = e
        BY Zenon, <3>1, <2>3, <2>4
      <3>2. CASE i \in DOMAIN inFlightList
        <4>1. /\ inFlightList'[i] = inFlightList[i] /\ inFlightList[i] \in Entries \ {e}
              /\ entry[inFlightList[i]].file \in Files \ {f}
          BY Zenon, <3>2, <2>5, <2>7 DEF TrackInv
        <4>2. entry'[inFlightList'[i]] = entry[inFlightList[i]]
          BY Zenon, <4>1, <2>4
        <4> QED BY Zenon, <3>2, <4>1, <4>2, <2>3 DEF TrackInv
      <3> QED BY Zenon, <2>6, <3>1, <3>2
    <2>11. \A i, j \in DOMAIN inFlightList' : inFlightList'[i] = inFlightList'[j] => i = j
      <3>1. \A i \in DOMAIN inFlightList' :
              i \in DOMAIN inFlightList \/ i = Len(inFlightList) + 1
        BY <2>5
      <3> QED BY Zenon, <3>1, <2>5, <2>7 DEF TrackInv
    <2>12. \A d \in Entries : entry'[d].pc # "done" => entry'[d].file \in Files
      BY Zenon, <2>4 DEF TrackInv
    <2>13. inFlightMap'[f] # NoEntry
      BY Zenon, <2>3, NamesApart
    <2> QED BY Zenon, <2>3, <2>4, <2>5, <2>9, <2>10, <2>11, <2>12, <2>13 DEF TrackInv
  <1> QED BY Zenon, <1>1, <1>2

\* What Unlist() leaves of the list: the entries other than the one of f, in order.
LEMMA UnlistRemoves ==
    ASSUME TrackInv, NEW f \in Files, inFlightMap[f] # NoEntry, Unlist(f)
    PROVE  /\ inFlightList' \in Seq(Entries)
           /\ \A i \in DOMAIN inFlightList' : \E j \in DOMAIN inFlightList :
                inFlightList'[i] = inFlightList[j] /\ inFlightList[j] # inFlightMap[f]
           /\ \A i, j \in DOMAIN inFlightList' : inFlightList'[i] = inFlightList'[j] => i = j
  <1>1. CASE inFlightMap[f] \notin Range(inFlightList) /\ UNCHANGED inFlightList
    BY Zenon, <1>1 DEF Range, TrackInv
  <1>2. CASE \E i \in DOMAIN inFlightList :
               /\ inFlightList[i] = inFlightMap[f]
               /\ inFlightList' = SubSeq(inFlightList, 1, i - 1)
                                    \o SubSeq(inFlightList, i + 1, Len(inFlightList))
    <2>1. PICK k \in DOMAIN inFlightList :
            /\ inFlightList[k] = inFlightMap[f]
            /\ inFlightList' = SubSeq(inFlightList, 1, k - 1)
                                 \o SubSeq(inFlightList, k + 1, Len(inFlightList))
      BY Zenon, <1>2
    <2> DEFINE n == Len(inFlightList)
               a == SubSeq(inFlightList, 1, k - 1)
               b == SubSeq(inFlightList, k + 1, n)
    <2>2. n \in Nat /\ k \in 1..n /\ DOMAIN inFlightList = 1..n
          /\ \A i \in 1..n : inFlightList[i] \in Entries
      BY DEF TrackInv
    <2>3. /\ a \in Seq(Entries) /\ Len(a) = k - 1
          /\ \A i \in 1..(k - 1) : a[i] = inFlightList[i]
      <3>1. 1 \in Int /\ k - 1 \in Int /\ \A i \in 1..(k - 1) : inFlightList[i] \in Entries
        BY <2>2
      <3>2. /\ a \in Seq(Entries) /\ Len(a) = IF 1 <= k - 1 THEN (k - 1) - 1 + 1 ELSE 0
            /\ \A i \in 1..((k - 1) - 1 + 1) : a[i] = inFlightList[1 + i - 1]
        BY SMTT(30), <3>1, SubSeqProperties
      <3> HIDE DEF a
      <3> QED BY <3>2, <2>2
    <2>4. /\ b \in Seq(Entries) /\ Len(b) = n - k
          /\ \A i \in 1..(n - k) : b[i] = inFlightList[i + k]
      <3>1. k + 1 \in Int /\ n \in Int /\ \A i \in (k + 1)..n : inFlightList[i] \in Entries
        BY <2>2
      <3>2. /\ b \in Seq(Entries) /\ Len(b) = IF k + 1 <= n THEN n - (k + 1) + 1 ELSE 0
            /\ \A i \in 1..(n - (k + 1) + 1) : b[i] = inFlightList[(k + 1) + i - 1]
        BY SMTT(30), <3>1, SubSeqProperties
      <3> HIDE DEF b
      <3> HIDE DEF n
      <3>3. Len(b) = n - k
        BY <3>2, <2>2
      <3>4. \A i \in 1..(n - k) : (k + 1) + i - 1 = i + k /\ i \in 1..(n - (k + 1) + 1)
        <4>1. n \in Nat /\ k \in Nat /\ n - (k + 1) + 1 = n - k
          BY <2>2
        <4>2. \A i \in 1..(n - k) : (k + 1) + i - 1 = i + k
          BY SMTT(30), <4>1
        <4> QED BY Zenon, <4>1, <4>2
      <3> QED BY Zenon, <3>2, <3>3, <3>4
    <2>5. inFlightList' = a \o b
      BY Zenon, <2>1
    <2> HIDE DEF a, b
    <2>6. inFlightList' \in Seq(Entries) /\ Len(inFlightList') = n - 1
          /\ DOMAIN inFlightList' = 1..(n - 1)
      <3>1. a \o b \in Seq(Entries) /\ Len(a \o b) = Len(a) + Len(b)
        BY Zenon, <2>3, <2>4, ConcatProperties
      <3>2. inFlightList' \in Seq(Entries) /\ Len(inFlightList') = (k - 1) + (n - k)
        BY Zenon, <3>1, <2>3, <2>4, <2>5
      <3>3. (k - 1) + (n - k) = n - 1
        BY <2>2
      <3> QED BY <3>2, <3>3
    <2>7. \A i \in DOMAIN inFlightList' :
            inFlightList'[i] = IF i < k THEN inFlightList[i] ELSE inFlightList[i + 1]
      <3>1. \A i \in 1..(Len(a) + Len(b)) :
              (a \o b)[i] = IF i <= Len(a) THEN a[i] ELSE b[i - Len(a)]
        BY Zenon, <2>3, <2>4, ConcatProperties
      <3> SUFFICES ASSUME NEW i \in DOMAIN inFlightList'
                   PROVE  inFlightList'[i] = IF i < k THEN inFlightList[i]
                                                      ELSE inFlightList[i + 1]
        BY Zenon
      <3>2. i \in 1..(Len(a) + Len(b)) /\ i \in 1..(n - 1)
        BY <2>2, <2>3, <2>4, <2>6
      <3>3. inFlightList'[i] = IF i <= Len(a) THEN a[i] ELSE b[i - Len(a)]
        BY Zenon, <3>1, <3>2, <2>5
      <3>4. CASE i < k
        <4>1. i <= Len(a) /\ i \in 1..(k - 1)
          BY <3>2, <3>4, <2>2, <2>3
        <4> QED BY Zenon, <4>1, <3>3, <3>4, <2>3
      <3>5. CASE ~(i < k)
        <4>1. ~(i <= Len(a)) /\ i - Len(a) \in 1..(n - k) /\ (i - Len(a)) + k = i + 1
          BY <3>2, <3>5, <2>2, <2>3
        <4>2. b[i - Len(a)] = inFlightList[(i - Len(a)) + k]
          BY Zenon, <4>1, <2>4
        <4> QED BY Zenon, <4>1, <4>2, <3>3, <3>5
      <3> QED BY Zenon, <3>4, <3>5
    <2>8. \A i \in DOMAIN inFlightList' :
            \E j \in DOMAIN inFlightList : /\ inFlightList'[i] = inFlightList[j] /\ j # k
                                           /\ j = IF i < k THEN i ELSE i + 1
      BY <2>2, <2>6, <2>7
    <2>9. \A i, j \in DOMAIN inFlightList : inFlightList[i] = inFlightList[j] => i = j
      BY Zenon DEF TrackInv
    <2>10. \A i, j \in DOMAIN inFlightList' : inFlightList'[i] = inFlightList'[j] => i = j
      <3> SUFFICES ASSUME NEW i \in DOMAIN inFlightList', NEW j \in DOMAIN inFlightList',
                          inFlightList'[i] = inFlightList'[j]
                   PROVE  i = j
        BY Zenon
      <3>1. (IF i < k THEN i ELSE i + 1) = (IF j < k THEN j ELSE j + 1)
        BY Zenon, <2>8, <2>9
      <3> QED BY <3>1, <2>2, <2>6
    <2> QED BY Zenon, <2>1, <2>6, <2>8, <2>9, <2>10
  <1> QED BY Zenon, <1>1, <1>2 DEF Unlist

\* untrackInFlightFileInodeData() leaves f untracked and off the list.
LEMMA UntrackUntracks ==
    ASSUME TrackInv, NEW f \in Files, NEW flushFirst \in BOOLEAN, Untrack(f, flushFirst)
    PROVE  /\ TrackInv'
           /\ inFlightMap'[f] = NoEntry
           /\ \A h \in Files \ {f} : inFlightMap'[h] = inFlightMap[h]
  <1>1. CASE inFlightMap[f] = NoEntry
    <2>1. UNCHANGED <<inFlightMap, inFlightList, entry>>
      BY Zenon, <1>1 DEF Untrack
    <2> QED BY Zenon, <1>1, <2>1 DEF TrackInv
  <1>2. CASE inFlightMap[f] # NoEntry
    <2> DEFINE e == inFlightMap[f]
    <2>1. e \in Entries /\ Unlist(f) /\ entry[e].file = f
      BY Zenon, <1>2 DEF Untrack, TrackInv
    <2>2. entry' = [entry EXCEPT ![e] = IF entry[e].pc = "done" THEN FreeEntry
                                        ELSE [entry[e] EXCEPT !.control = {flushFirst}]]
      BY Zenon, <1>2, <2>1 DEF Untrack, TrackInv
    <2>3. /\ entry'[e] \in EntryRec
          /\ entry'[e].pc # "done" => entry'[e].file = f
      BY <2>1, <2>2 DEF TrackInv, EntryRec, FreeEntry
    <2>4. /\ entry' \in [Entries -> EntryRec]
          /\ \A d \in Entries \ {e} : entry'[d] = entry[d]
      BY Zenon, <2>1, <2>2, <2>3 DEF TrackInv
    <2>5. /\ inFlightMap' \in [Files -> Entries \cup {NoEntry}]
          /\ inFlightMap'[f] = NoEntry
          /\ \A h \in Files \ {f} : inFlightMap'[h] = inFlightMap[h]
      BY Zenon, <2>1 DEF TrackInv, Unlist
    <2>6. \A h \in Files \ {f} : inFlightMap[h] # NoEntry => inFlightMap[h] \in Entries \ {e}
      BY Zenon, <2>1 DEF TrackInv
    <2>7. \A h \in Files : inFlightMap'[h] # NoEntry => entry'[inFlightMap'[h]].file = h
      <3> SUFFICES ASSUME NEW h \in Files, inFlightMap'[h] # NoEntry
                   PROVE  entry'[inFlightMap'[h]].file = h
        BY Zenon
      <3>1. h # f /\ inFlightMap'[h] = inFlightMap[h] /\ inFlightMap[h] # NoEntry
        BY Zenon, <2>5
      <3>2. entry'[inFlightMap[h]] = entry[inFlightMap[h]]
        BY Zenon, <3>1, <2>4, <2>6
      <3> QED BY Zenon, <3>1, <3>2 DEF TrackInv
    <2>8. /\ inFlightList' \in Seq(Entries)
          /\ \A i \in DOMAIN inFlightList' : \E j \in DOMAIN inFlightList :
               inFlightList'[i] = inFlightList[j] /\ inFlightList[j] # e
          /\ \A i, j \in DOMAIN inFlightList' : inFlightList'[i] = inFlightList'[j] => i = j
      BY Zenon, <1>2, <2>1, UnlistRemoves
    <2>9. \A i \in DOMAIN inFlightList' :
            /\ entry'[inFlightList'[i]].file \in Files
            /\ inFlightMap'[entry'[inFlightList'[i]].file] = inFlightList'[i]
      <3> SUFFICES ASSUME NEW i \in DOMAIN inFlightList'
                   PROVE  /\ entry'[inFlightList'[i]].file \in Files
                          /\ inFlightMap'[entry'[inFlightList'[i]].file] = inFlightList'[i]
        BY Zenon
      <3>1. PICK j \in DOMAIN inFlightList :
              inFlightList'[i] = inFlightList[j] /\ inFlightList[j] # e
        BY Zenon, <2>8
      <3>2. inFlightList[j] \in Entries
        BY DEF TrackInv
      <3>3. /\ entry[inFlightList[j]].file \in Files
            /\ inFlightMap[entry[inFlightList[j]].file] = inFlightList[j]
        BY Zenon DEF TrackInv
      <3>4. entry[inFlightList[j]].file # f
        BY Zenon, <3>1, <3>3
      <3>5. entry'[inFlightList'[i]] = entry[inFlightList[j]]
        BY Zenon, <3>1, <3>2, <2>4
      <3> QED BY Zenon, <3>1, <3>3, <3>4, <3>5, <2>5
    <2>10. \A d \in Entries : entry'[d].pc # "done" => entry'[d].file \in Files
      BY Zenon, <2>3, <2>4 DEF TrackInv
    <2> QED BY Zenon, <2>4, <2>5, <2>7, <2>8, <2>9, <2>10 DEF TrackInv
  <1> QED BY Zenon, <1>1, <1>2

\* A tracker moves on and keeps its file, unless it ends and is off the map.
LEMMA GoesKeepsTrack ==
    ASSUME TrackInv, NEW e \in Entries, NEW pc \in {"wait", "lock", "flush", "done"},
           entry[e].pc # "done", Goes(e, pc), UNCHANGED <<inFlightMap, inFlightList>>
    PROVE  TrackInv'
  <1>1. entry[e].file \in Files /\ entry[e] \in EntryRec
    BY Zenon DEF TrackInv
  <1>2. /\ entry' \in [Entries -> EntryRec]
        /\ \A d \in Entries \ {e} : entry'[d] = entry[d]
        /\ \/ entry'[e] = FreeEntry /\ inFlightMap[entry[e].file] # e
           \/ entry'[e].file = entry[e].file
    BY Zenon, <1>1 DEF TrackInv, Goes, EntryRec, FreeEntry
  <1>3. CASE entry'[e] = FreeEntry /\ inFlightMap[entry[e].file] # e
    <2>1. \A i \in DOMAIN inFlightList : inFlightList[i] \in Entries \ {e}
      <3>1. \A i \in DOMAIN inFlightList : inFlightList[i] \in Entries
        BY DEF TrackInv
      <3> QED BY Zenon, <1>3, <3>1 DEF TrackInv
    <2>2. \A h \in Files : inFlightMap[h] # NoEntry => inFlightMap[h] \in Entries \ {e}
      BY Zenon, <1>3 DEF TrackInv
    <2>3. entry'[e].pc = "done"
      BY <1>3 DEF FreeEntry
    <2> QED BY Zenon, <1>2, <2>1, <2>2, <2>3 DEF TrackInv
  <1>4. CASE entry'[e].file = entry[e].file
    <2>1. \A d \in Entries : entry'[d].file = entry[d].file
      BY Zenon, <1>2, <1>4
    <2>2. \A i \in DOMAIN inFlightList : inFlightList[i] \in Entries
      BY DEF TrackInv
    <2>3. \A h \in Files : inFlightMap[h] # NoEntry => inFlightMap[h] \in Entries
      BY Zenon DEF TrackInv
    <2>4. \A d \in Entries : entry'[d].pc # "done" => entry'[d].file \in Files
      BY Zenon, <1>1, <1>2, <1>4 DEF TrackInv
    <2> QED BY Zenon, <1>2, <2>1, <2>2, <2>3, <2>4 DEF TrackInv
  <1> QED BY Zenon, <1>2, <1>3, <1>4

\* The callback takes the first entry off the list.
LEMMA PickKeepsTrack ==
    ASSUME TrackInv, inFlightList # <<>>, inFlightList' = Tail(inFlightList),
           UNCHANGED <<inFlightMap, entry>>
    PROVE  TrackInv' /\ entry[Head(inFlightList)].file \in Files
  <1>1. /\ inFlightList' \in Seq(Entries) /\ 1 \in DOMAIN inFlightList
        /\ Head(inFlightList) = inFlightList[1]
        /\ DOMAIN inFlightList' \subseteq Nat
        /\ \A i \in DOMAIN inFlightList' :
             i + 1 \in DOMAIN inFlightList /\ inFlightList'[i] = inFlightList[i + 1]
    BY DEF TrackInv
  <1>2. \A i, j \in DOMAIN inFlightList' : inFlightList'[i] = inFlightList'[j] => i = j
    <2> SUFFICES ASSUME NEW i \in DOMAIN inFlightList', NEW j \in DOMAIN inFlightList',
                        inFlightList'[i] = inFlightList'[j]
                 PROVE  i = j
      BY Zenon
    <2>1. /\ i + 1 \in DOMAIN inFlightList /\ j + 1 \in DOMAIN inFlightList
          /\ inFlightList[i + 1] = inFlightList[j + 1]
      BY Zenon, <1>1
    <2>2. i + 1 = j + 1
      BY Zenon, <2>1 DEF TrackInv
    <2> QED BY <2>2, <1>1
  <1>3. \A i \in DOMAIN inFlightList' :
          /\ entry'[inFlightList'[i]].file \in Files
          /\ inFlightMap'[entry'[inFlightList'[i]].file] = inFlightList'[i]
    <2> SUFFICES ASSUME NEW i \in DOMAIN inFlightList'
                 PROVE  /\ entry[inFlightList'[i]].file \in Files
                        /\ inFlightMap[entry[inFlightList'[i]].file] = inFlightList'[i]
      BY Zenon
    <2>1. i + 1 \in DOMAIN inFlightList /\ inFlightList'[i] = inFlightList[i + 1]
      BY Zenon, <1>1
    <2>2. /\ entry[inFlightList[i + 1]].file \in Files
          /\ inFlightMap[entry[inFlightList[i + 1]].file] = inFlightList[i + 1]
      BY Zenon, <2>1 DEF TrackInv
    <2> QED BY Zenon, <2>1, <2>2
  <1> QED BY Zenon, <1>1, <1>2, <1>3 DEF TrackInv

\* A file that a step does not work on.
LEMMA FileStays ==
    ASSUME NEW h \in Files, FileOK(h),
           openLogSegment'[h] = openLogSegment[h], dirty'[h] = dirty[h],
           inodeLock'[h] = inodeLock[h], h \in flushing' => h \in flushing,
           h \in segmentErrors' => h \in segmentErrors \/ dirty[h],
           \A u \in LogSegments(h) : /\ u \in Attached' => u \in Attached \/ u \in closing'
                                     /\ u \in closing' => u \in closing
                                     /\ u \in Attached' /\ u \in closing => u \in closing',
           down'.pc = "up" =>
             /\ down.pc = "up" /\ (h \in told => h \in told')
             /\ inFlightMap'[h] = NoEntry => inFlightMap[h] = NoEntry
    PROVE  FileOK(h)'
  <1>1. openLogSegment'[h] \subseteq LogSegments(h) /\ \A u, v \in openLogSegment'[h] : u = v
    BY Zenon DEF FileOK
  <1>2. \A u \in LogSegments(h) : u \in Attached' => u \in openLogSegment'[h] \/ u \in closing'
    BY Zenon DEF FileOK
  <1>3. h \in flushing' => inodeLock'[h] # Nobody /\ openLogSegment'[h] = {}
    BY Zenon DEF FileOK
  <1>4. ~dirty'[h] => /\ openLogSegment'[h] = {} /\ h \notin segmentErrors'
                      /\ \A u \in LogSegments(h) : u \notin closing'
    BY Zenon DEF FileOK
  <1>5. down'.pc = "up" /\ inodeLock'[h] \notin Clients /\ inFlightMap'[h] = NoEntry
          /\ h \notin told' => ~dirty'[h]
    BY Zenon DEF FileOK
  <1> QED BY Zenon, <1>1, <1>2, <1>3, <1>4, <1>5 DEF FileOK

\* A client that a step does not run.
LEMMA ClientStays ==
    ASSUME NEW t \in Clients, ClientOK(t), writing'[t] = writing[t],
           writing[t] # Nobody => /\ inodeLock'[writing[t]] = inodeLock[writing[t]]
                                  /\ dirty'[writing[t]] = dirty[writing[t]]
                                  /\ writing[t] \in flushing' => writing[t] \in flushing
                                  /\ down'.pc = down.pc
    PROVE  ClientOK(t)'
  BY Zenon DEF ClientOK

\* Log segments belong to one file.
LEMMA SegmentsOfOne ==
    \A f, h \in Files : f # h => \A u \in LogSegments(f) : u \notin LogSegments(h)
  BY Zenon DEF LogSegments

\* A step of the pool alone.
LEMMA PoolKeepsWork ==
    ASSUME FsInv, Attached' \subseteq Attached, UNCHANGED fsVars
    PROVE  FsInv'
  <1>1. UNCHANGED <<inodeLock, dirty, openLogSegment, closing, flushing, writing, inFlightMap,
                    inFlightList, entry, callback, down, segmentErrors, told>>
    BY Zenon DEF fsVars, faultVars
  <1>2. \A f \in Files : FileOK(f)'
    BY Zenon, <1>1, FileStays DEF FsInv, WorkInv
  <1>3. \A t \in Clients : ClientOK(t)'
    BY Zenon, <1>1, ClientStays DEF FsInv, WorkInv
  <1>4. TrackInv' /\ DownInv'
    BY Zenon, <1>1 DEF FsInv, TrackInv, DownInv
  <1> QED BY Zenon, <1>1, <1>2, <1>3, <1>4 DEF FsInv, WorkInv

\* Whoever flushes gets the lock of a file nobody writes.
LEMMA StartFlushKeepsWork ==
    ASSUME FsInv, SlotsInv, NEW f \in Files,
           NEW owner \in Clients \cup Entries \cup Goroutines, StartFlush(owner, f),
           UNCHANGED <<poolVars, writing, inFlightMap, down>>, dirty' \in [Files -> BOOLEAN],
           \A h \in Files \ {f} : dirty'[h] = dirty[h], dirty[f] => dirty'[f],
           owner \notin Clients => dirty'[f] = dirty[f]
    PROVE  WorkInv'
  <1>1. Attached' = Attached
    BY Zenon, OthersKeepAttached
  <1>2. owner # Nobody
    BY Zenon, NamesApart
  <1>3. /\ inodeLock[f] = Nobody /\ flushing' = flushing \cup {f}
        /\ closing' = closing \cup openLogSegment[f]
        /\ inodeLock' = [inodeLock EXCEPT ![f] = owner]
        /\ openLogSegment' = [openLogSegment EXCEPT ![f] = {}]
        /\ UNCHANGED <<segmentErrors, told>>
    BY Zenon DEF StartFlush, faultVars
  <1>4. /\ inodeLock' \in [Files -> {Nobody} \cup Clients \cup Entries \cup Goroutines]
        /\ openLogSegment' \in [Files -> SUBSET Users]
        /\ inodeLock'[f] = owner /\ openLogSegment'[f] = {}
        /\ \A h \in Files \ {f} : inodeLock'[h] = inodeLock[h]
                                  /\ openLogSegment'[h] = openLogSegment[h]
    BY Zenon, <1>3 DEF FsInv, WorkInv
  <1>5. FileOK(f)'
    <2>1. FileOK(f)
      BY Zenon DEF FsInv, WorkInv
    <2>2. \A u \in LogSegments(f) : u \in Attached' => u \in closing'
      BY Zenon, <1>1, <1>3, <2>1 DEF FileOK
    <2>3. ~dirty'[f] => f \notin segmentErrors' /\ \A u \in LogSegments(f) : u \notin closing'
      BY Zenon, <1>3, <2>1 DEF FileOK
    <2>4. down'.pc = "up" /\ inodeLock'[f] \notin Clients /\ inFlightMap'[f] = NoEntry
            /\ f \notin told' => ~dirty'[f]
      BY Zenon, <1>3, <1>4, <2>1, NamesApart DEF FileOK
    <2> QED BY Zenon, <1>2, <1>4, <2>2, <2>3, <2>4 DEF FileOK
  <1>6. ASSUME NEW h \in Files \ {f} PROVE FileOK(h)'
    <2>1. \A u \in LogSegments(h) : u \in closing' <=> u \in closing
      BY Zenon, <1>3, SegmentsOfOne DEF FsInv, WorkInv, FileOK
    <2>2. h \in flushing' => h \in flushing
      BY Zenon, <1>3
    <2>3. FileOK(h)
      BY Zenon DEF FsInv, WorkInv
    <2> QED BY Zenon, <1>1, <1>3, <1>4, <2>1, <2>2, <2>3, FileStays
  <1>7. ASSUME NEW t \in Clients PROVE ClientOK(t)'
    <2>1. ClientOK(t)
      BY Zenon DEF FsInv, WorkInv
    <2>2. writing[t] # Nobody => writing[t] \in Files \ {f}
      BY Zenon, <2>1, <1>3, NamesApart DEF ClientOK
    <2> QED BY Zenon, <1>3, <1>4, <2>1, <2>2, ClientStays
  <1> QED BY Zenon, <1>4, <1>5, <1>6, <1>7 DEF FsInv, WorkInv

\* The flush ends.  One that fails leaves the file dirty: a client that flushed tells
\* its caller; the flush of anybody else fails on a dirty file only, and that is known.
LEMMA EndFlushKeepsWork ==
    ASSUME FsInv, NEW f \in Files, NEW owner, NEW ok \in BOOLEAN, EndFlush(owner, f, ok),
           Attached' = Attached, \A h \in Files \ {f} : inFlightMap'[h] = inFlightMap[h],
           told \ {f} \subseteq told',
           \/ ok \/ f \in told'
           \/ owner \notin Clients /\ UNCHANGED <<inFlightMap, told>>
    PROVE  WorkInv'
  <1>1. /\ f \in flushing /\ inodeLock[f] = owner /\ closing \cap LogSegments(f) = {}
        /\ flushing' = flushing \ {f}
        /\ inodeLock' = [inodeLock EXCEPT ![f] = Nobody]
        /\ dirty' = [dirty EXCEPT ![f] = dirty[f] /\ ~ok]
        /\ UNCHANGED <<openLogSegment, closing, writing, down, segmentErrors>>
        /\ ok => f \notin segmentErrors
        /\ ~ok => f \in segmentErrors \/ dirty[f]
    BY Zenon DEF EndFlush, Flushed
  <1>2. /\ inodeLock' \in [Files -> {Nobody} \cup Clients \cup Entries \cup Goroutines]
        /\ dirty' \in [Files -> BOOLEAN] /\ dirty'[f] = (dirty[f] /\ ~ok)
        /\ \A h \in Files \ {f} : inodeLock'[h] = inodeLock[h] /\ dirty'[h] = dirty[h]
    BY Zenon, <1>1 DEF FsInv, WorkInv
  <1>3. FileOK(f)'
    <2>1. FileOK(f) /\ openLogSegment[f] = {}
      BY Zenon, <1>1 DEF FsInv, WorkInv, FileOK
    <2>2. f \notin flushing' /\ \A u \in LogSegments(f) : u \notin closing'
      BY Zenon, <1>1
    <2>3. ~dirty'[f] => f \notin segmentErrors'
      BY Zenon, <1>1, <1>2, <2>1 DEF FileOK
    <2>4. down'.pc = "up" /\ inFlightMap'[f] = NoEntry /\ f \notin told' => ~dirty'[f]
      BY Zenon, <1>1, <1>2, <2>1 DEF FileOK
    <2> QED BY Zenon, <1>1, <2>1, <2>2, <2>3, <2>4 DEF FileOK
  <1>4. ASSUME NEW h \in Files \ {f} PROVE FileOK(h)'
    <2>1. FileOK(h) /\ (h \in flushing' => h \in flushing) /\ (h \in told => h \in told')
      BY Zenon, <1>1 DEF FsInv, WorkInv
    <2> QED BY Zenon, <1>1, <1>2, <2>1, FileStays
  <1>5. ASSUME NEW t \in Clients PROVE ClientOK(t)'
    <2>1. ClientOK(t)
      BY Zenon DEF FsInv, WorkInv
    <2>2. writing[t] # Nobody => writing[t] \in Files \ {f}
      BY Zenon, <2>1, <1>1 DEF ClientOK
    <2> QED BY Zenon, <1>1, <1>2, <2>1, <2>2, ClientStays
  <1> QED BY Zenon, <1>1, <1>2, <1>3, <1>4, <1>5 DEF FsInv, WorkInv

\* What Down() has to untrack, after a step that tracks nothing new.
LEMMA DownStays ==
    ASSUME DownInv, UNCHANGED down,
           \A h \in Files : inFlightMap'[h] # NoEntry => inFlightMap[h] # NoEntry
    PROVE  DownInv'
  BY Zenon DEF DownInv

\* Write() locks the inode and marks it dirty.
LEMMA WriteLocksKeeps ==
    ASSUME FsInv, SlotsInv, NEW t \in Clients, NEW f \in Files, WriteLocks(t, f)
    PROVE  FsInv'
  <1>1. /\ down.pc = "up" /\ writing[t] = Nobody /\ inodeLock[f] = Nobody
        /\ inodeLock' = [inodeLock EXCEPT ![f] = t]
        /\ writing' = [writing EXCEPT ![t] = f]
        /\ dirty' = [dirty EXCEPT ![f] = TRUE]
        /\ UNCHANGED <<poolVars, openLogSegment, closing, flushing, inFlightMap, inFlightList,
                       entry, callback, down, segmentErrors, told>>
    BY Zenon DEF WriteLocks, faultVars
  <1>2. Attached' = Attached /\ t # Nobody
    BY Zenon, <1>1, OthersKeepAttached, NamesApart
  <1>3. /\ inodeLock' \in [Files -> {Nobody} \cup Clients \cup Entries \cup Goroutines]
        /\ dirty' \in [Files -> BOOLEAN]
        /\ writing' \in [Clients -> Files \cup {Nobody}]
        /\ inodeLock'[f] = t /\ writing'[t] = f /\ dirty'[f]
        /\ \A h \in Files \ {f} : inodeLock'[h] = inodeLock[h] /\ dirty'[h] = dirty[h]
        /\ \A c \in Clients \ {t} : writing'[c] = writing[c]
    BY Zenon, <1>1 DEF FsInv, WorkInv
  <1>4. FileOK(f) /\ f \notin flushing
    BY Zenon, <1>1 DEF FsInv, WorkInv, FileOK
  <1>5. FileOK(f)'
    BY Zenon, <1>1, <1>2, <1>3, <1>4 DEF FileOK
  <1>6. ASSUME NEW h \in Files \ {f} PROVE FileOK(h)'
    <2>1. FileOK(h)
      BY Zenon DEF FsInv, WorkInv
    <2> QED BY Zenon, <1>1, <1>2, <1>3, <2>1, FileStays
  <1>7. ASSUME NEW c \in Clients PROVE ClientOK(c)'
    <2>1. CASE c = t
      BY Zenon, <2>1, <1>1, <1>3, <1>4 DEF ClientOK
    <2>2. CASE c # t
      <3>1. ClientOK(c) /\ writing'[c] = writing[c]
        BY Zenon, <2>2, <1>3 DEF FsInv, WorkInv
      <3>2. writing[c] # Nobody => writing[c] \in Files \ {f}
        BY Zenon, <3>1, <1>1, NamesApart DEF ClientOK
      <3> QED BY Zenon, <1>1, <1>3, <3>1, <3>2, ClientStays
    <2> QED BY Zenon, <2>1, <2>2
  <1>8. TrackInv' /\ DownInv'
    BY Zenon, <1>1 DEF FsInv, TrackInv, DownInv
  <1> QED BY Zenon, <1>1, <1>3, <1>5, <1>6, <1>7, <1>8 DEF FsInv, WorkInv

\* Write() opens a log segment and asks for its connection.
LEMMA WriteOpensKeeps ==
    ASSUME FsInv, SlotsInv, NEW t \in Clients, WriteOpens(t)
    PROVE  FsInv'
  <1>0. PICK f : f = writing[t]
    BY Zenon
  <1>1. f # Nobody /\ openLogSegment[f] = {}
        /\ UNCHANGED <<inodeLock, dirty, closing, flushing, writing, inFlightMap, inFlightList,
                       entry, callback, down, segmentErrors, told>>
    BY Zenon, <1>0 DEF WriteOpens, faultVars
  <1>2. PICK u \in LogSegments(f) \ closing :
          Acquire(u) /\ openLogSegment' = [openLogSegment EXCEPT ![f] = {u}]
    BY Zenon, <1>0 DEF WriteOpens
  <1>3. u \in Users
    BY Zenon, <1>2 DEF LogSegments
  <1>4. Attached' \subseteq Attached \cup {u}
    BY Zenon, <1>2, <1>3, AcquireAttaches
  <1>5. f \in Files /\ inodeLock[f] = t /\ f \notin flushing /\ dirty[f] /\ t # Nobody
    BY Zenon, <1>0, <1>1, NamesApart DEF FsInv, WorkInv, ClientOK
  <1>6. /\ openLogSegment' \in [Files -> SUBSET Users] /\ openLogSegment'[f] = {u}
        /\ \A h \in Files \ {f} : openLogSegment'[h] = openLogSegment[h]
    BY Zenon, <1>2, <1>3, <1>5 DEF FsInv, WorkInv
  <1>7. FileOK(f)'
    <2>1. \A v \in LogSegments(f) : v \in Attached' => v \in openLogSegment'[f] \/ v \in closing'
      BY Zenon, <1>1, <1>4, <1>5, <1>6 DEF FsInv, WorkInv, FileOK
    <2> QED BY Zenon, <1>1, <1>2, <1>5, <1>6, <2>1 DEF FileOK
  <1>8. ASSUME NEW h \in Files \ {f} PROVE FileOK(h)'
    <2>1. FileOK(h) /\ u \notin LogSegments(h)
      BY Zenon, <1>2, <1>5, SegmentsOfOne DEF FsInv, WorkInv
    <2> QED BY Zenon, <1>1, <1>4, <1>6, <2>1, FileStays
  <1>9. \A c \in Clients : ClientOK(c)'
    BY Zenon, <1>1, ClientStays DEF FsInv, WorkInv
  <1>10. TrackInv' /\ DownInv'
    BY Zenon, <1>1 DEF FsInv, TrackInv, DownInv
  <1> QED BY Zenon, <1>1, <1>6, <1>7, <1>8, <1>9, <1>10 DEF FsInv, WorkInv

\* Write() sends its chunk, and tracks the inode.
LEMMA WriteSendsKeeps ==
    ASSUME FsInv, SlotsInv, NEW t \in Clients, NEW full \in BOOLEAN, WriteSends(t, full)
    PROVE  FsInv'
  <1>0. PICK f : f = writing[t]
    BY Zenon
  <1>1. /\ f # Nobody /\ Track(f)
        /\ inodeLock' = [inodeLock EXCEPT ![f] = Nobody]
        /\ writing' = [writing EXCEPT ![t] = Nobody]
        /\ UNCHANGED <<poolVars, dirty, flushing, callback, down, segmentErrors, told>>
    BY Zenon, <1>0 DEF WriteSends, WriteReturns
  <1>2. \/ /\ closing' = closing \cup openLogSegment[f]
           /\ openLogSegment' = [openLogSegment EXCEPT ![f] = {}]
        \/ UNCHANGED <<closing, openLogSegment>>
    BY Zenon, <1>0 DEF WriteSends
  <1>3. /\ f \in Files /\ inodeLock[f] = t /\ f \notin flushing /\ dirty[f]
        /\ t # Nobody /\ down.pc = "up"
    BY Zenon, <1>0, <1>1, NamesApart DEF FsInv, WorkInv, ClientOK
  <1>4. Attached' = Attached
    BY Zenon, <1>1, OthersKeepAttached
  <1>5. /\ TrackInv' /\ inFlightMap'[f] # NoEntry
        /\ \A h \in Files \ {f} : inFlightMap'[h] = inFlightMap[h]
    BY Zenon, <1>1, <1>3, TrackTracks DEF FsInv
  <1>6. /\ openLogSegment' \in [Files -> SUBSET Users]
        /\ openLogSegment'[f] \subseteq openLogSegment[f]
        /\ \A h \in Files \ {f} : openLogSegment'[h] = openLogSegment[h]
        /\ \A u : u \in openLogSegment[f] \/ u \in closing <=> u \in openLogSegment'[f] \/ u \in closing'
        /\ \A u : u \in closing' => u \in closing \/ u \in openLogSegment[f]
        /\ closing \subseteq closing'
    BY Zenon, <1>2, <1>3 DEF FsInv, WorkInv
  <1>7. /\ inodeLock' \in [Files -> {Nobody} \cup Clients \cup Entries \cup Goroutines]
        /\ writing' \in [Clients -> Files \cup {Nobody}] /\ writing'[t] = Nobody
        /\ \A h \in Files \ {f} : inodeLock'[h] = inodeLock[h]
        /\ \A c \in Clients \ {t} : writing'[c] = writing[c]
    BY Zenon, <1>1, <1>3 DEF FsInv, WorkInv
  <1>8. FileOK(f)'
    <2>1. /\ openLogSegment'[f] \subseteq LogSegments(f)
          /\ \A u, v \in openLogSegment'[f] : u = v
          /\ \A u \in LogSegments(f) : u \in Attached' => u \in openLogSegment'[f] \/ u \in closing'
      BY Zenon, <1>3, <1>4, <1>6 DEF FsInv, WorkInv, FileOK
    <2> QED BY Zenon, <1>1, <1>3, <1>5, <2>1 DEF FileOK
  <1>9. ASSUME NEW h \in Files \ {f} PROVE FileOK(h)'
    <2>1. FileOK(h) /\ \A u \in LogSegments(h) : u \notin openLogSegment[f]
      BY Zenon, <1>3, SegmentsOfOne DEF FsInv, WorkInv, FileOK
    <2>2. \A u \in LogSegments(h) : u \in closing' <=> u \in closing
      BY Zenon, <1>6, <2>1
    <2> QED BY ZenonT(60), <1>1, <1>4, <1>5, <1>6, <1>7, <2>1, <2>2, FileStays
  <1>10. ASSUME NEW c \in Clients PROVE ClientOK(c)'
    <2>1. CASE c = t
      BY Zenon, <2>1, <1>7 DEF ClientOK
    <2>2. CASE c # t
      <3>1. ClientOK(c) /\ writing'[c] = writing[c]
        BY Zenon, <2>2, <1>7 DEF FsInv, WorkInv
      <3>2. writing[c] # Nobody => writing[c] \in Files \ {f}
        BY Zenon, <2>2, <3>1, <1>3 DEF ClientOK
      <3> QED BY Zenon, <1>1, <1>7, <3>1, <3>2, ClientStays
    <2> QED BY Zenon, <2>1, <2>2
  <1>11. DownInv'
    <2>1. "up" # "done"
      BY Zenon
    <2> QED BY Zenon, <1>1, <1>3, <2>1 DEF FsInv, DownInv
  <1> QED BY ZenonT(60), <1>1, <1>5, <1>6, <1>7, <1>8, <1>9, <1>10, <1>11 DEF FsInv, WorkInv

\* The request line of a new log segment is not sent: the log segment is given up, to
\* be opened again.
LEMMA WriteRetriesKeeps ==
    ASSUME FsInv, SlotsInv, NEW t \in Clients, WriteRetries(t)
    PROVE  FsInv'
  <1>0. PICK f : f = writing[t]
    BY Zenon
  <1>1. /\ f # Nobody /\ openLogSegment' = [openLogSegment EXCEPT ![f] = {}]
        /\ UNCHANGED <<inodeLock, dirty, closing, flushing, writing, inFlightMap, inFlightList,
                       entry, callback, down, segmentErrors, told>>
    BY Zenon, <1>0 DEF WriteRetries
  <1>2. PICK u \in openLogSegment[f] : Release(u, FALSE)
    BY Zenon, <1>0 DEF WriteRetries
  <1>3. /\ f \in Files /\ inodeLock[f] = t /\ f \notin flushing /\ dirty[f] /\ t # Nobody
        /\ FileOK(f)
    BY Zenon, <1>0, <1>1, NamesApart DEF FsInv, WorkInv, ClientOK
  <1>4. u \in Users /\ openLogSegment[f] = {u}
    BY Zenon, <1>2, <1>3 DEF FileOK, LogSegments
  <1>5. Attached' \subseteq Attached \ {u}
    BY Zenon, <1>2, <1>4, ReleaseDetaches
  <1>6. /\ openLogSegment' \in [Files -> SUBSET Users] /\ openLogSegment'[f] = {}
        /\ \A h \in Files \ {f} : openLogSegment'[h] = openLogSegment[h]
    BY Zenon, <1>1, <1>3 DEF FsInv, WorkInv
  <1>7. FileOK(f)'
    <2>1. \A v \in LogSegments(f) : v \in Attached' => v \in closing'
      BY Zenon, <1>1, <1>3, <1>4, <1>5 DEF FileOK
    <2> QED BY Zenon, <1>1, <1>3, <1>6, <2>1 DEF FileOK
  <1>8. ASSUME NEW h \in Files \ {f} PROVE FileOK(h)'
    <2>1. FileOK(h)
      BY Zenon DEF FsInv, WorkInv
    <2> QED BY Zenon, <1>1, <1>5, <1>6, <2>1, FileStays
  <1>9. \A c \in Clients : ClientOK(c)'
    BY Zenon, <1>1, ClientStays DEF FsInv, WorkInv
  <1>10. TrackInv' /\ DownInv'
    BY Zenon, <1>1 DEF FsInv, TrackInv, DownInv
  <1> QED BY Zenon, <1>1, <1>6, <1>7, <1>8, <1>9, <1>10 DEF FsInv, WorkInv

\* Write() fails: the file is dirty and is not tracked, and the caller is told.
LEMMA WriteFailsKeeps ==
    ASSUME FsInv, SlotsInv, NEW t \in Clients, WriteFails(t)
    PROVE  FsInv'
  <1>0. PICK f : f = writing[t]
    BY Zenon
  <1>1. /\ f # Nobody /\ told' = told \cup {f}
        /\ inodeLock' = [inodeLock EXCEPT ![f] = Nobody]
        /\ writing' = [writing EXCEPT ![t] = Nobody]
        /\ UNCHANGED <<dirty, openLogSegment, closing, flushing, inFlightMap, inFlightList,
                       entry, callback, down, segmentErrors>>
    BY Zenon, <1>0 DEF WriteFails, WriteReturns
  <1>2. /\ f \in Files /\ inodeLock[f] = t /\ f \notin flushing /\ dirty[f]
        /\ t # Nobody /\ FileOK(f)
    BY Zenon, <1>0, <1>1, NamesApart DEF FsInv, WorkInv, ClientOK
  <1>3. Attached' \subseteq Attached
    <2>1. CASE UNCHANGED poolVars
      BY Zenon, <2>1, OthersKeepAttached
    <2>2. CASE ~UNCHANGED poolVars
      <3>1. PICK u \in openLogSegment[f] : Release(u, FALSE)
        BY Zenon, <2>2, <1>0 DEF WriteFails
      <3>2. u \in Users
        BY Zenon, <3>1, <1>2 DEF FileOK, LogSegments
      <3> QED BY Zenon, <3>1, <3>2, ReleaseDetaches
    <2> QED BY Zenon, <2>1, <2>2
  <1>4. /\ inodeLock' \in [Files -> {Nobody} \cup Clients \cup Entries \cup Goroutines]
        /\ writing' \in [Clients -> Files \cup {Nobody}] /\ writing'[t] = Nobody
        /\ \A h \in Files \ {f} : inodeLock'[h] = inodeLock[h]
        /\ \A c \in Clients \ {t} : writing'[c] = writing[c]
    BY Zenon, <1>1, <1>2 DEF FsInv, WorkInv
  <1>5. FileOK(f)'
    <2>1. f \in told' /\ \A u \in LogSegments(f) :
                           u \in Attached' => u \in openLogSegment'[f] \/ u \in closing'
      BY Zenon, <1>1, <1>2, <1>3 DEF FileOK
    <2> QED BY Zenon, <1>1, <1>2, <2>1 DEF FileOK
  <1>6. ASSUME NEW h \in Files \ {f} PROVE FileOK(h)'
    <2>1. FileOK(h) /\ (h \in told => h \in told')
      BY Zenon, <1>1 DEF FsInv, WorkInv
    <2> QED BY Zenon, <1>1, <1>3, <1>4, <2>1, FileStays
  <1>7. ASSUME NEW c \in Clients PROVE ClientOK(c)'
    <2>1. CASE c = t
      BY Zenon, <2>1, <1>4 DEF ClientOK
    <2>2. CASE c # t
      <3>1. ClientOK(c) /\ writing'[c] = writing[c]
        BY Zenon, <2>2, <1>4 DEF FsInv, WorkInv
      <3>2. writing[c] # Nobody => writing[c] \in Files \ {f}
        BY Zenon, <2>2, <3>1, <1>2 DEF ClientOK
      <3> QED BY Zenon, <1>1, <1>4, <3>1, <3>2, ClientStays
    <2> QED BY Zenon, <2>1, <2>2
  <1>8. TrackInv' /\ DownInv'
    BY Zenon, <1>1 DEF FsInv, TrackInv, DownInv
  <1> QED BY ZenonT(60), <1>1, <1>4, <1>5, <1>6, <1>7, <1>8 DEF FsInv, WorkInv

\* The close of a log segment ends, fails, or is tried again.  An error is kept for a
\* file that the log segment has made dirty.
LEMMA CloseKeeps ==
    ASSUME FsInv, SlotsInv, ContextInv, NEW u \in Users, CloseStep(u)
    PROVE  FsInv'
  <1>1. /\ u \in closing
        /\ UNCHANGED <<inodeLock, dirty, openLogSegment, flushing, writing, inFlightMap,
                       inFlightList, entry, callback, down, told>>
    BY Zenon DEF CloseStep, CloseLogSegment, CloseFails, CloseRetries, CloseVars, fsVars,
                 faultVars
  <1>2. /\ closing' = closing \/ closing' = closing \ {u}
        /\ segmentErrors' = segmentErrors \/ segmentErrors' = segmentErrors \cup {u[1]}
    BY Zenon DEF CloseStep, CloseLogSegment, CloseFails, CloseRetries, Closed, fsVars,
                 faultVars
  <1>3. /\ Attached' \subseteq Attached \cup {u}
        /\ u \in Attached' => u \in closing'
    <2>1. CASE \E keepAlive \in BOOLEAN : Release(u, keepAlive)
      BY Zenon, <2>1, ReleaseDetaches
    <2>2. CASE CloseRetries(u)
      BY Zenon, <2>2, <1>1, AcquireAttaches DEF CloseRetries, fsVars
    <2>3. CASE UNCHANGED poolVars /\ context[u] = "fatal"
      BY Zenon, <2>3, OthersKeepAttached DEF ContextInv
    <2> QED BY Zenon, <2>1, <2>2, <2>3 DEF CloseStep, CloseLogSegment, CloseFails
  <1>4. ASSUME NEW f \in Files PROVE FileOK(f)'
    <2>1. FileOK(f)
      BY Zenon DEF FsInv, WorkInv
    <2>2. f \in segmentErrors' => f \in segmentErrors \/ dirty[f]
      BY Zenon, <1>1, <1>2, <2>1 DEF FileOK, LogSegments
    <2>3. \A v \in LogSegments(f) : /\ v \in Attached' => v \in Attached \/ v \in closing'
                                    /\ v \in closing' => v \in closing
                                    /\ v \in Attached' /\ v \in closing => v \in closing'
      BY Zenon, <1>2, <1>3
    <2> QED BY Zenon, <1>1, <2>1, <2>2, <2>3, FileStays
  <1>5. \A t \in Clients : ClientOK(t)'
    BY Zenon, <1>1, ClientStays DEF FsInv, WorkInv
  <1>6. TrackInv' /\ DownInv'
    BY Zenon, <1>1 DEF FsInv, TrackInv, DownInv
  <1> QED BY Zenon, <1>1, <1>4, <1>5, <1>6 DEF FsInv, WorkInv

\* Flush() of a client, from its lock to its unlock.
LEMMA FlushKeeps ==
    ASSUME FsInv, SlotsInv, NEW t \in Clients, NEW f \in Files,
           Flush(t, f) \/ FlushReturns(t, f)
    PROVE  FsInv'
  <1>1. CASE Flush(t, f)
    <2>1. StartFlush(t, f)
          /\ UNCHANGED <<poolVars, writing, inFlightMap, inFlightList, entry, callback, down>>
      BY Zenon, <1>1 DEF Flush
    <2>2. PICK change \in BOOLEAN : dirty' = [dirty EXCEPT ![f] = dirty[f] \/ change]
      BY Zenon, <1>1 DEF Flush
    <2>4. /\ dirty' \in [Files -> BOOLEAN] /\ (dirty[f] => dirty'[f])
          /\ \A h \in Files \ {f} : dirty'[h] = dirty[h]
      BY Zenon, <2>2 DEF FsInv, WorkInv
    <2>5. WorkInv'
      BY Zenon, <2>1, <2>4, StartFlushKeepsWork
    <2>3. TrackInv' /\ DownInv'
      BY Zenon, <2>1 DEF FsInv, TrackInv, DownInv
    <2> QED BY Zenon, <2>1, <2>3, <2>5 DEF FsInv
  <1>2. CASE FlushReturns(t, f)
    <2>0. PICK ok \in BOOLEAN : /\ EndFlush(t, f, ok)
                               /\ told' = IF ok THEN told \ {f} ELSE told \cup {f}
      BY Zenon, <1>2 DEF FlushReturns
    <2>1. /\ EndFlush(t, f, ok) /\ Untrack(f, FALSE) /\ UNCHANGED <<poolVars, callback>>
          /\ told \ {f} \subseteq told' /\ (ok \/ f \in told')
      BY Zenon, <1>2, <2>0 DEF FlushReturns
    <2>2. /\ TrackInv' /\ inFlightMap'[f] = NoEntry
          /\ \A h \in Files \ {f} : inFlightMap'[h] = inFlightMap[h]
      BY Zenon, <2>1, UntrackUntracks DEF FsInv
    <2>3. WorkInv'
      BY Zenon, <2>1, <2>2, OthersKeepAttached, EndFlushKeepsWork
    <2>4. DownInv'
      BY Zenon, <2>1, <2>2, DownStays DEF FsInv, EndFlush
    <2> QED BY Zenon, <2>1, <2>2, <2>3, <2>4 DEF FsInv
  <1> QED BY Zenon, <1>1, <1>2

\* inFlightFileInodeDataTracker(): its timer, its message and its flush.
LEMMA TrackerKeeps ==
    ASSUME FsInv, SlotsInv, NEW e \in Entries, TrackerStep(e) \/ TrackerLocks(e)
    PROVE  FsInv'
  <1>1. ASSUME NEW pc \in {"lock", "done"}, entry[e].pc = "wait", Move(e, pc)
        PROVE  FsInv'
    <2>1. Goes(e, pc) /\ UNCHANGED <<poolVars, inodeLock, dirty, openLogSegment, closing, flushing,
                                     writing, inFlightMap, inFlightList, callback, down,
                                     segmentErrors, told>>
      BY Zenon, <1>1 DEF Move, faultVars
    <2>2. TrackInv'
      <3>1. "wait" # "done" /\ pc \in {"wait", "lock", "flush", "done"}
        BY Zenon
      <3> QED BY Zenon, <1>1, <2>1, <3>1, GoesKeepsTrack DEF FsInv
    <2>3. Attached' = Attached
      BY Zenon, <2>1, OthersKeepAttached
    <2>4. \A f \in Files : FileOK(f)'
      BY Zenon, <2>1, <2>3, FileStays DEF FsInv, WorkInv
    <2>5. \A t \in Clients : ClientOK(t)'
      BY Zenon, <2>1, ClientStays DEF FsInv, WorkInv
    <2>6. DownInv'
      BY Zenon, <2>1, DownStays DEF FsInv
    <2> QED BY Zenon, <2>1, <2>2, <2>4, <2>5, <2>6 DEF FsInv, WorkInv
  <1>2. CASE TrackerTimesOut(e)
    BY Zenon, <1>1, <1>2 DEF TrackerTimesOut
  <1>3. CASE TrackerTold(e)
    BY Zenon, <1>1, <1>3 DEF TrackerTold
  <1>4. CASE TrackerLocks(e)
    <2>1. /\ entry[e].pc = "lock" /\ StartFlush(e, entry[e].file) /\ Goes(e, "flush")
          /\ UNCHANGED <<poolVars, dirty, writing, inFlightMap, inFlightList, callback, down>>
      BY Zenon, <1>4 DEF TrackerLocks
    <2>2. "lock" # "done" /\ "flush" \in {"wait", "lock", "flush", "done"}
      BY Zenon
    <2>3. entry[e].file \in Files
      BY Zenon, <2>1, <2>2 DEF FsInv, TrackInv
    <2>4. TrackInv'
      BY Zenon, <2>1, <2>2, GoesKeepsTrack DEF FsInv
    <2>5. WorkInv'
      BY Zenon, <2>1, <2>3, StartFlushKeepsWork DEF FsInv, WorkInv
    <2>6. DownInv'
      BY Zenon, <2>1, DownStays DEF FsInv
    <2> QED BY Zenon, <2>1, <2>4, <2>5, <2>6 DEF FsInv
  <1>5. CASE TrackerEnds(e)
    <2>0. PICK ok \in BOOLEAN : EndFlush(e, entry[e].file, ok) /\ NobodyTold(entry[e].file, ok)
      BY Zenon, <1>5 DEF TrackerEnds
    <2>1. /\ entry[e].pc = "flush" /\ EndFlush(e, entry[e].file, ok) /\ Goes(e, "done")
          /\ UNCHANGED <<poolVars, inFlightMap, inFlightList, callback>>
          /\ told \ {entry[e].file} \subseteq told' /\ (ok \/ UNCHANGED told) /\ e \notin Clients
      BY Zenon, <1>5, <2>0, NamesApart DEF TrackerEnds, NobodyTold
    <2>2. "flush" # "done" /\ "done" \in {"wait", "lock", "flush", "done"}
      BY Zenon
    <2>3. entry[e].file \in Files
      BY Zenon, <2>1, <2>2 DEF FsInv, TrackInv
    <2>4. TrackInv'
      BY Zenon, <2>1, <2>2, GoesKeepsTrack DEF FsInv
    <2>5. WorkInv'
      BY Zenon, <2>1, <2>3, OthersKeepAttached, EndFlushKeepsWork
    <2>6. DownInv'
      BY Zenon, <2>1, DownStays DEF FsInv, EndFlush
    <2> QED BY Zenon, <2>1, <2>4, <2>5, <2>6 DEF FsInv
  <1> QED BY Zenon, <1>2, <1>3, <1>4, <1>5 DEF TrackerStep

\* chunkedPutConnectionPoolStarvationCallback() flushes the first file listed.
LEMMA CallbackKeeps ==
    ASSUME FsInv, SlotsInv, NEW g \in Goroutines, CallbackStep(g) \/ CallbackLocks(g)
    PROVE  FsInv'
  <1>1. CASE CallbackPicks(g)
    <2>1. UNCHANGED <<inodeLock, dirty, openLogSegment, closing, flushing, writing, inFlightMap,
                      entry, down, segmentErrors, told>>
      BY Zenon, <1>1 DEF CallbackPicks, faultVars
    <2>2. Attached' = Attached
      BY Zenon, <1>1, OthersKeepAttached DEF CallbackPicks
    <2>3. TrackInv' /\ callback' \in [Goroutines -> Files \cup {Nobody}]
      <3>1. CASE UNCHANGED <<callback, inFlightList>>
        BY Zenon, <3>1, <2>1 DEF FsInv, TrackInv
      <3>2. CASE /\ inFlightList # <<>> /\ inFlightList' = Tail(inFlightList)
                 /\ callback' = [callback EXCEPT ![g] = entry[Head(inFlightList)].file]
        <4>1. TrackInv' /\ entry[Head(inFlightList)].file \in Files
          BY Zenon, <3>2, <2>1, PickKeepsTrack DEF FsInv
        <4> QED BY Zenon, <4>1, <3>2 DEF FsInv
      <3> QED BY Zenon, <1>1, <3>1, <3>2 DEF CallbackPicks
    <2>4. \A f \in Files : FileOK(f)'
      BY Zenon, <2>1, <2>2, FileStays DEF FsInv, WorkInv
    <2>5. \A t \in Clients : ClientOK(t)'
      BY Zenon, <2>1, ClientStays DEF FsInv, WorkInv
    <2>6. DownInv'
      BY Zenon, <2>1, DownStays DEF FsInv
    <2> QED BY Zenon, <2>1, <2>3, <2>4, <2>5, <2>6 DEF FsInv, WorkInv
  <1>2. CASE CallbackLocks(g)
    <2>1. /\ callback[g] # Nobody /\ StartFlush(g, callback[g])
          /\ UNCHANGED <<poolVars, dirty, writing, inFlightMap, inFlightList, entry, callback, down>>
      BY Zenon, <1>2 DEF CallbackLocks
    <2>2. callback[g] \in Files
      BY Zenon, <2>1 DEF FsInv
    <2>3. WorkInv'
      BY Zenon, <2>1, <2>2, StartFlushKeepsWork DEF FsInv, WorkInv
    <2>4. TrackInv' /\ DownInv'
      BY Zenon, <2>1 DEF FsInv, TrackInv, DownInv
    <2> QED BY Zenon, <2>1, <2>3, <2>4 DEF FsInv
  <1>3. CASE CallbackEnds(g)
    <2>0. PICK ok \in BOOLEAN : EndFlush(g, callback[g], ok) /\ NobodyTold(callback[g], ok)
      BY Zenon, <1>3 DEF CallbackEnds
    <2>1. /\ callback[g] # Nobody /\ EndFlush(g, callback[g], ok) /\ CallbackReturns(g)
          /\ callback' = [callback EXCEPT ![g] = Nobody]
          /\ UNCHANGED <<inFlightMap, inFlightList, entry>>
          /\ told \ {callback[g]} \subseteq told' /\ (ok \/ UNCHANGED told) /\ g \notin Clients
      BY Zenon, <1>3, <2>0, NamesApart DEF CallbackEnds, NobodyTold
    <2>2. callback[g] \in Files /\ callback' \in [Goroutines -> Files \cup {Nobody}]
      BY Zenon, <2>1 DEF FsInv
    <2>3. WorkInv'
      BY Zenon, <2>1, <2>2, OthersKeepAttached, EndFlushKeepsWork
    <2>4. TrackInv' /\ DownInv'
      BY Zenon, <2>1, DownStays DEF FsInv, TrackInv, EndFlush
    <2> QED BY Zenon, <2>2, <2>3, <2>4 DEF FsInv
  <1> QED BY Zenon, <1>1, <1>2, <1>3 DEF CallbackStep

\* Once Down() has begun nobody writes, so nothing new is tracked.
LEMMA DownKeeps ==
    ASSUME FsInv, SlotsInv, StartDown \/ DownStep
    PROVE  FsInv'
  <1>1. UNCHANGED <<inodeLock, dirty, openLogSegment, closing, flushing, writing, callback,
                    segmentErrors, told>>
        /\ UNCHANGED poolVars
    BY Zenon DEF StartDown, DownStep, DownUntracks, DownWaited, DownReturns, DownVars, faultVars
  <1>2. Attached' = Attached
    BY Zenon, <1>1, OthersKeepAttached
  <1>3. /\ "untrack" # "up" /\ "untrack" # "done" /\ "done" # "up"
        /\ down \in [pc : {"up", "untrack", "done"}, todo : SUBSET Files,
                     awaits : Entries \cup {NoEntry}]
    BY Zenon DEF FsInv, DownInv
  <1>4. TrackInv' /\ DownInv' /\ (down'.pc = "up" => down.pc = "up" /\ UNCHANGED inFlightMap)
    <2>1. CASE StartDown
      <3>1. /\ down' = [down EXCEPT !.pc = "untrack",
                                    !.todo = {f \in Files : inFlightMap[f] # NoEntry}]
            /\ UNCHANGED <<inFlightMap, inFlightList, entry>>
        BY ZenonT(60), <2>1 DEF StartDown
      <3>2. /\ down' \in [pc : {"up", "untrack", "done"}, todo : SUBSET Files,
                          awaits : Entries \cup {NoEntry}]
            /\ down'.pc = "untrack" /\ down'.todo = {f \in Files : inFlightMap[f] # NoEntry}
        BY ZenonT(60), <3>1, <1>3
      <3> QED BY Zenon, <1>3, <3>1, <3>2 DEF FsInv, TrackInv, DownInv
    <2>2. CASE \E f \in Files : DownUntracks(f)
      <3>1. PICK f \in Files : DownUntracks(f)
        BY Zenon, <2>2
      <3>2. /\ down.pc = "untrack" /\ Untrack(f, TRUE)
            /\ down' = [down EXCEPT !.todo = down.todo \ {f}, !.awaits = inFlightMap[f]]
        BY Zenon, <3>1 DEF DownUntracks
      <3>3. inFlightMap[f] \in Entries \cup {NoEntry}
        BY Zenon DEF FsInv, TrackInv
      <3>4. /\ down' \in [pc : {"up", "untrack", "done"}, todo : SUBSET Files,
                          awaits : Entries \cup {NoEntry}]
            /\ down'.pc = "untrack" /\ down'.todo = down.todo \ {f}
        BY ZenonT(60), <3>2, <3>3, <1>3
      <3>5. /\ TrackInv' /\ inFlightMap'[f] = NoEntry
            /\ \A h \in Files \ {f} : inFlightMap'[h] = inFlightMap[h]
        BY Zenon, <3>2, UntrackUntracks DEF FsInv
      <3>6. \A h \in Files : inFlightMap'[h] # NoEntry => h \in down'.todo
        BY Zenon, <1>3, <3>2, <3>4, <3>5 DEF FsInv, DownInv
      <3> QED BY Zenon, <1>3, <3>4, <3>5, <3>6 DEF DownInv
    <2>3. CASE DownWaited
      <3>1. down' = [down EXCEPT !.awaits = NoEntry] /\ UNCHANGED <<inFlightMap, inFlightList, entry>>
        BY Zenon, <2>3 DEF DownWaited
      <3>2. /\ down' \in [pc : {"up", "untrack", "done"}, todo : SUBSET Files,
                          awaits : Entries \cup {NoEntry}]
            /\ down'.pc = down.pc /\ down'.todo = down.todo
        BY Zenon, <3>1, <1>3
      <3> QED BY Zenon, <3>1, <3>2 DEF FsInv, TrackInv, DownInv
    <2>4. CASE DownReturns
      <3>1. /\ down.pc = "untrack" /\ down.todo = {} /\ down' = [down EXCEPT !.pc = "done"]
            /\ UNCHANGED <<inFlightMap, inFlightList, entry>>
        BY Zenon, <2>4 DEF DownReturns
      <3>2. /\ down' \in [pc : {"up", "untrack", "done"}, todo : SUBSET Files,
                          awaits : Entries \cup {NoEntry}]
            /\ down'.pc = "done" /\ down'.todo = down.todo
        BY Zenon, <3>1, <1>3
      <3> QED BY Zenon, <1>3, <3>1, <3>2 DEF FsInv, TrackInv, DownInv
    <2> QED BY Zenon, <2>1, <2>2, <2>3, <2>4 DEF DownStep
  <1>5. \A f \in Files : FileOK(f)'
    BY Zenon, <1>1, <1>2, <1>4, FileStays DEF FsInv, WorkInv
  <1>6. ASSUME NEW t \in Clients PROVE ClientOK(t)'
    <2>1. CASE StartDown
      BY Zenon, <1>1, <2>1 DEF StartDown, ClientOK
    <2>2. CASE DownStep
      <3>1. ClientOK(t)
        BY Zenon DEF FsInv, WorkInv
      <3>2. down.pc = "up" => down'.pc = down.pc
        <4>1. CASE DownWaited
          BY Zenon, <4>1, <1>3 DEF DownWaited
        <4>2. CASE ~DownWaited
          BY Zenon, <4>2, <2>2, <1>3 DEF DownStep, DownUntracks, DownReturns
        <4> QED BY Zenon, <4>1, <4>2
      <3> QED BY Zenon, <1>1, <3>1, <3>2, ClientStays DEF ClientOK
    <2> QED BY Zenon, <2>1, <2>2
  <1> QED BY Zenon, <1>1, <1>4, <1>5, <1>6 DEF FsInv, WorkInv

\* Nothing is open, dirty or tracked at first.
LEMMA InitFsInv == Init => FsInv
  <1> SUFFICES ASSUME Init PROVE FsInv
    OBVIOUS
  <1>1. /\ inodeLock = [f \in Files |-> Nobody] /\ dirty = [f \in Files |-> FALSE]
        /\ openLogSegment = [f \in Files |-> {}] /\ closing = {} /\ flushing = {}
        /\ writing = [t \in Clients |-> Nobody] /\ callback = [g \in Goroutines |-> Nobody]
        /\ segmentErrors = {}
    BY Zenon DEF Init
  <1>2. Attached = {}
    BY DEF Init, PoolInit, Attached, Holders
  <1>3. \A f \in Files : FileOK(f)
    BY Zenon, <1>1, <1>2 DEF FileOK
  <1>4. \A t \in Clients : ClientOK(t)
    BY Zenon, <1>1 DEF ClientOK
  <1>5. TrackInv
    BY DEF Init, TrackInv, EntryRec, FreeEntry, Entries, NoEntry
  <1>6. DownInv
    BY Zenon DEF Init, DownInv
  <1>7. /\ inodeLock \in [Files -> {Nobody} \cup Clients \cup Entries \cup Goroutines]
        /\ dirty \in [Files -> BOOLEAN] /\ openLogSegment \in [Files -> SUBSET Users]
        /\ writing \in [Clients -> Files \cup {Nobody}]
        /\ callback \in [Goroutines -> Files \cup {Nobody}]
    BY Zenon, <1>1
  <1> QED BY Zenon, <1>3, <1>4, <1>5, <1>6, <1>7 DEF FsInv, WorkInv

\* Every step of clients, trackers, callbacks and Down() keeps FsInv.
LEMMA NextFsInv ==
    ASSUME FsInv, SlotsInv, ContextInv, [Next]_vars
    PROVE  FsInv'
  <1>1. CASE \E t \in Clients, f \in Files : WriteLocks(t, f) \/ Flush(t, f) \/ FlushReturns(t, f)
    BY Zenon, <1>1, WriteLocksKeeps, FlushKeeps
  <1>2. CASE \E t \in Clients : ClientStep(t)
    BY Zenon, <1>2, WriteOpensKeeps, WriteSendsKeeps, WriteRetriesKeeps, WriteFailsKeeps
       DEF ClientStep
  <1>3. CASE \E u \in Users : CloseStep(u)
    BY Zenon, <1>3, CloseKeeps
  <1>4. CASE \E e \in Entries : TrackerStep(e) \/ TrackerLocks(e)
    BY Zenon, <1>4, TrackerKeeps
  <1>5. CASE \E g \in Goroutines : CallbackStep(g) \/ CallbackLocks(g)
    BY Zenon, <1>5, CallbackKeeps
  <1>6. CASE StartDown \/ DownStep
    BY Zenon, <1>6, DownKeeps
  <1>7. CASE PoolStep \/ (MishapLeft /\ Reload /\ UNCHANGED fsVars)
    <2>1. Attached' = Attached /\ UNCHANGED fsVars
      BY Zenon, <1>7, OthersKeepAttached DEF PoolStep
    <2> QED BY Zenon, <2>1, PoolKeepsWork
  <1>8. CASE UNCHANGED vars
    <2>1. UNCHANGED poolVars /\ UNCHANGED fsVars
      BY Zenon, <1>8 DEF vars
    <2>2. Attached' = Attached
      BY Zenon, <2>1, OthersKeepAttached
    <2> QED BY Zenon, <2>1, <2>2, PoolKeepsWork
  <1> QED BY Zenon, <1>1, <1>2, <1>3, <1>4, <1>5, <1>6, <1>7, <1>8 DEF Next

\* A step that changes no context, attaches nobody and forgets no log segment.
LEMMA ContextStays ==
    ASSUME ContextInv, UNCHANGED context, Attached' \subseteq Attached,
           \A u \in Users : u \in openLogSegment[u[1]] \/ u \in closing =>
                              u \in openLogSegment'[u[1]] \/ u \in closing'
    PROVE  ContextInv'
  BY Zenon DEF ContextInv

\* The first name of a log segment is its file.
LEMMA SegmentFile ==
    /\ \A u \in Users : u[1] \in Files
    /\ \A f \in Files : \A u \in LogSegments(f) : u \in Users /\ u[1] = f
  BY InFlightAssumption DEF LogSegments

\* A flush begins: the open log segment is handed over.
LEMMA StartFlushKeepsContext ==
    ASSUME FsInv, SlotsInv, ContextInv, NEW f \in Files, NEW owner, StartFlush(owner, f),
           UNCHANGED poolVars
    PROVE  ContextInv'
  <1>1. /\ closing' = closing \cup openLogSegment[f] /\ UNCHANGED context
        /\ openLogSegment' = [openLogSegment EXCEPT ![f] = {}]
    BY Zenon DEF StartFlush, faultVars
  <1>2. \A h \in Files : h = f \/ openLogSegment'[h] = openLogSegment[h]
    BY Zenon, <1>1 DEF FsInv, WorkInv
  <1>3. Attached' = Attached
    BY Zenon, OthersKeepAttached
  <1> QED BY Zenon, <1>1, <1>2, <1>3, SegmentFile, ContextStays

\* Write(): a context fails for good with its connection given back.
LEMMA ClientKeepsContext ==
    ASSUME FsInv, SlotsInv, ContextInv, NEW t \in Clients, ClientStep(t)
    PROVE  ContextInv'
  <1>0. PICK f : f = writing[t]
    BY Zenon
  <1>1. f \in Files /\ FileOK(f)
    BY Zenon, <1>0 DEF FsInv, WorkInv, ClientOK, ClientStep, WriteOpens, WriteSends,
                       WriteRetries, WriteFails
  <1>2. CASE WriteOpens(t)
    <2>1. openLogSegment[f] = {} /\ UNCHANGED <<closing, context>>
      BY Zenon, <1>0, <1>2 DEF WriteOpens, faultVars
    <2>2. PICK u \in LogSegments(f) \ closing :
            Acquire(u) /\ openLogSegment' = [openLogSegment EXCEPT ![f] = {u}]
      BY Zenon, <1>0, <1>2 DEF WriteOpens
    <2>3. u \in Users /\ u[1] = f /\ Attached' \subseteq Attached \cup {u}
      BY Zenon, <2>2, <1>1, SegmentFile, AcquireAttaches
    <2>4. context[u] # "fatal"
      BY Zenon, <2>1, <2>2, <2>3 DEF ContextInv
    <2>5. \A h \in Files : h = f \/ openLogSegment'[h] = openLogSegment[h]
      BY Zenon, <2>2 DEF FsInv, WorkInv
    <2>6. \A v \in Users : v \in openLogSegment[v[1]] => v \in openLogSegment'[v[1]]
      BY Zenon, <2>1, <2>5, SegmentFile
    <2> QED BY Zenon, <2>1, <2>3, <2>4, <2>6 DEF ContextInv
  <1>3. CASE \E full \in BOOLEAN : WriteSends(t, full)
    <2>1. /\ UNCHANGED poolVars
          /\ context' = [u \in Users |-> IF u \in openLogSegment[f] /\ context[u] = "new"
                                           THEN "sent" ELSE context[u]]
          /\ \/ /\ closing' = closing \cup openLogSegment[f]
                /\ openLogSegment' = [openLogSegment EXCEPT ![f] = {}]
             \/ UNCHANGED <<closing, openLogSegment>>
      BY Zenon, <1>0, <1>3 DEF WriteSends
    <2>2. Attached' = Attached
      BY Zenon, <2>1, OthersKeepAttached
    <2>3. \A h \in Files : h = f \/ openLogSegment'[h] = openLogSegment[h]
      BY Zenon, <2>1 DEF FsInv, WorkInv
    <2>4. \A u \in Users : u \in openLogSegment[u[1]] \/ u \in closing =>
                             u \in openLogSegment'[u[1]] \/ u \in closing'
      BY Zenon, <2>1, <2>3, SegmentFile
    <2>5. /\ context' \in [Users -> {"new", "sent", "fatal", "nil"}]
          /\ \A u \in Users : context'[u] = "fatal" => context[u] = "fatal"
      BY Zenon, <2>1 DEF ContextInv
    <2> QED BY Zenon, <2>2, <2>4, <2>5 DEF ContextInv
  <1>4. CASE WriteRetries(t)
    <2>1. /\ openLogSegment' = [openLogSegment EXCEPT ![f] = {}] /\ UNCHANGED <<closing, context>>
      BY Zenon, <1>0, <1>4 DEF WriteRetries
    <2>2. PICK u \in LogSegments(f) \cap openLogSegment[f] : context[u] = "new" /\ Release(u, FALSE)
      BY Zenon, <1>0, <1>4 DEF WriteRetries
    <2>3. u \in Users /\ u[1] = f /\ Attached' \subseteq Attached \ {u} /\ openLogSegment[f] = {u}
      <3>1. u \in Users /\ u[1] = f
        BY Zenon, <1>1, SegmentFile
      <3>2. Attached' \subseteq Attached \ {u}
        BY Zenon, <2>2, <3>1, ReleaseDetaches
      <3>3. openLogSegment[f] = {u}
        BY Zenon, <1>1 DEF FileOK
      <3> QED BY Zenon, <3>1, <3>2, <3>3
    <2>4. \A h \in Files : h = f \/ openLogSegment'[h] = openLogSegment[h]
      BY Zenon, <2>1 DEF FsInv, WorkInv
    <2>5. \A v \in Users : v = u \/ (v \in openLogSegment[v[1]] => v \in openLogSegment'[v[1]])
      BY Zenon, <2>3, <2>4, SegmentFile
    <2>6. "new" # "fatal"
      BY Zenon
    <2> QED BY Zenon, <2>1, <2>2, <2>3, <2>5, <2>6 DEF ContextInv
  <1>5. CASE WriteFails(t)
    <2>1. UNCHANGED <<openLogSegment, closing>>
      BY Zenon, <1>5 DEF WriteFails
    <2>2. CASE UNCHANGED <<poolVars, context>>
      BY Zenon, <2>1, <2>2, OthersKeepAttached, ContextStays
    <2>3. CASE ~UNCHANGED <<poolVars, context>>
      <3>1. PICK u \in LogSegments(f) \cap openLogSegment[f] :
              /\ Release(u, FALSE)
              /\ \/ context' = [context EXCEPT ![u] = "nil"]
                 \/ context' = [context EXCEPT ![u] = "fatal"]
        BY Zenon, <1>0, <1>5, <2>3 DEF WriteFails
      <3>2. u \in Users /\ u[1] = f /\ Attached' \subseteq Attached \ {u}
        BY Zenon, <3>1, <1>1, SegmentFile, ReleaseDetaches
      <3>3. /\ context' \in [Users -> {"new", "sent", "fatal", "nil"}]
            /\ \A v \in Users : v = u \/ context'[v] = context[v]
        BY Zenon, <3>1, <3>2 DEF ContextInv
      <3> QED BY Zenon, <2>1, <3>1, <3>2, <3>3 DEF ContextInv
    <2> QED BY Zenon, <2>2, <2>3
  <1> QED BY Zenon, <1>2, <1>3, <1>4, <1>5 DEF ClientStep

\* A log segment that is closed leaves a new context.
LEMMA CloseKeepsContext ==
    ASSUME SlotsInv, ContextInv, NEW u \in Users, CloseStep(u)
    PROVE  ContextInv'
  <1>1. openLogSegment' = openLogSegment
    BY Zenon DEF CloseStep, CloseLogSegment, CloseFails, CloseRetries, CloseVars, fsVars
  <1>2. CASE CloseRetries(u)
    <2>1. context[u] = "sent" /\ Acquire(u) /\ UNCHANGED <<closing, context>> /\ "sent" # "fatal"
      BY Zenon, <1>2 DEF CloseRetries, fsVars, faultVars
    <2>2. Attached' \subseteq Attached \cup {u}
      BY Zenon, <2>1, AcquireAttaches
    <2> QED BY Zenon, <1>1, <2>1, <2>2 DEF ContextInv
  <1>3. CASE ~CloseRetries(u)
    <2>1. Attached' \subseteq Attached
      <3>1. UNCHANGED poolVars \/ \E keepAlive \in BOOLEAN : Release(u, keepAlive)
        BY Zenon, <1>3 DEF CloseStep, CloseLogSegment, CloseFails
      <3> QED BY Zenon, <3>1, OthersKeepAttached, ReleaseDetaches
    <2>2. CASE UNCHANGED <<closing, context>>
      BY Zenon, <1>1, <2>1, <2>2, ContextStays
    <2>3. CASE Closed(u)
      <3>1. /\ closing' = closing \ {u} /\ context' \in [Users -> {"new", "sent", "fatal", "nil"}]
            /\ context'[u] = "new" /\ \A v \in Users : v = u \/ context'[v] = context[v]
        BY Zenon, <2>3 DEF Closed, ContextInv
      <3>2. "new" # "fatal"
        BY Zenon
      <3> QED BY Zenon, <1>1, <2>1, <3>1, <3>2 DEF ContextInv
    <2> QED BY Zenon, <1>3, <2>2, <2>3 DEF CloseStep, CloseLogSegment, CloseFails
  <1> QED BY Zenon, <1>2, <1>3

\* Every step keeps ContextInv.
LEMMA NextContextInv ==
    ASSUME FsInv, SlotsInv, ContextInv, [Next]_vars
    PROVE  ContextInv'
  <1>0. ASSUME UNCHANGED <<openLogSegment, closing, context>>, Attached' = Attached
        PROVE  ContextInv'
    BY Zenon, <1>0, ContextStays
  <1>1. CASE \E t \in Clients, f \in Files : WriteLocks(t, f) \/ FlushReturns(t, f)
    <2>1. UNCHANGED <<openLogSegment, closing, context>> /\ UNCHANGED poolVars
      BY Zenon, <1>1 DEF WriteLocks, FlushReturns, EndFlush, faultVars
    <2> QED BY Zenon, <1>0, <2>1, OthersKeepAttached
  <1>2. CASE \E t \in Clients, f \in Files : Flush(t, f)
    BY Zenon, <1>2, StartFlushKeepsContext DEF Flush
  <1>3. CASE \E t \in Clients : ClientStep(t)
    BY Zenon, <1>3, ClientKeepsContext
  <1>4. CASE \E u \in Users : CloseStep(u)
    BY Zenon, <1>4, CloseKeepsContext
  <1>5. CASE \E e \in Entries : TrackerStep(e)
    <2>1. UNCHANGED <<openLogSegment, closing, context>> /\ UNCHANGED poolVars
      BY Zenon, <1>5 DEF TrackerStep, TrackerTimesOut, TrackerTold, TrackerEnds, Move, EndFlush,
                         faultVars
    <2> QED BY Zenon, <1>0, <2>1, OthersKeepAttached
  <1>6. CASE \E e \in Entries : TrackerLocks(e)
    <2>1. PICK e \in Entries : TrackerLocks(e)
      BY Zenon, <1>6
    <2>2. entry[e].pc = "lock" /\ "lock" # "done"
      BY Zenon, <2>1 DEF TrackerLocks
    <2>3. entry[e].file \in Files
      BY Zenon, <2>2 DEF FsInv, TrackInv
    <2> QED BY Zenon, <2>1, <2>3, StartFlushKeepsContext DEF TrackerLocks
  <1>7. CASE \E g \in Goroutines : CallbackStep(g)
    <2>1. PICK g \in Goroutines : CallbackStep(g)
      BY Zenon, <1>7
    <2>2. /\ UNCHANGED <<openLogSegment, closing, context>>
          /\ CallbackReturns(g) \/ UNCHANGED poolVars
      BY Zenon, <2>1 DEF CallbackStep, CallbackPicks, CallbackEnds, EndFlush, faultVars
    <2> QED BY Zenon, <1>0, <2>2, OthersKeepAttached
  <1>8. CASE \E g \in Goroutines : CallbackLocks(g)
    <2>1. PICK g \in Goroutines : CallbackLocks(g)
      BY Zenon, <1>8
    <2>2. callback[g] \in Files
      BY Zenon, <2>1 DEF FsInv, CallbackLocks
    <2> QED BY Zenon, <2>1, <2>2, StartFlushKeepsContext DEF CallbackLocks
  <1>9. CASE StartDown \/ DownStep
    <2>1. UNCHANGED <<openLogSegment, closing, context>> /\ UNCHANGED poolVars
      BY Zenon, <1>9 DEF StartDown, DownStep, DownUntracks, DownWaited, DownReturns, DownVars,
                         faultVars
    <2> QED BY Zenon, <1>0, <2>1, OthersKeepAttached
  <1>10. CASE PoolStep \/ (MishapLeft /\ Reload /\ UNCHANGED fsVars) \/ UNCHANGED vars
    <2>1. UNCHANGED <<openLogSegment, closing, context>>
      BY Zenon, <1>10 DEF PoolStep, vars, fsVars, faultVars
    <2>2. Attached' = Attached
      BY Zenon, <1>10, OthersKeepAttached DEF PoolStep, vars
    <2> QED BY Zenon, <1>0, <2>1, <2>2
  <1> QED BY Zenon, <1>1, <1>2, <1>3, <1>4, <1>5, <1>6, <1>7, <1>8, <1>9, <1>10 DEF Next

\* FsInv and ContextInv are invariants of the file system.
LEMMA FsInvariant == Spec => [](FsInv /\ SlotsInv)
  <1>1. Spec => []SlotsInv
    BY UsesPool, SlotsInvariant, PTL
  <1>2. FsInv /\ SlotsInv /\ ContextInv /\ [Next]_vars => FsInv' /\ ContextInv'
    BY Zenon, NextFsInv, NextContextInv
  <1>3. Init => ContextInv
    <2> SUFFICES ASSUME Init PROVE ContextInv
      BY Zenon
    <2>1. context = [u \in Users |-> "new"] /\ "new" # "fatal"
      BY Zenon DEF Init
    <2> QED BY Zenon, <2>1 DEF ContextInv
  <1> QED BY <1>1, <1>2, <1>3, InitFsInv, PTL DEF Spec

\* The list of the starvation callback holds entries of the map only, each once,
\* and is empty when Down() is done: its logger.Fatalf() is not reached.
THEOREM ListFollowsMap == Spec => []ListInMap
  <1>1. FsInv => ListInMap
    <2> SUFFICES ASSUME FsInv PROVE ListInMap
      BY Zenon
    <2>1. \A e \in Range(inFlightList) : inFlightMap[entry[e].file] = e
      <3> SUFFICES ASSUME NEW i \in DOMAIN inFlightList
                   PROVE  inFlightMap[entry[inFlightList[i]].file] = inFlightList[i]
        BY Zenon DEF Range
      <3> QED BY Zenon DEF FsInv, TrackInv
    <2>2. down.pc = "done" => inFlightList = <<>>
      <3> SUFFICES ASSUME down.pc = "done", inFlightList # <<>> PROVE FALSE
        BY Zenon
      <3>1. 1 \in DOMAIN inFlightList /\ inFlightList[1] \in Entries /\ "done" # "up"
        BY DEF FsInv, TrackInv
      <3>2. inFlightMap[entry[inFlightList[1]].file] # NoEntry
            /\ entry[inFlightList[1]].file \in Files
        BY Zenon, <3>1, NamesApart DEF FsInv, TrackInv
      <3> QED BY Zenon, <3>1, <3>2 DEF FsInv, DownInv
    <2> QED BY Zenon, <2>1, <2>2 DEF ListInMap, FsInv, TrackInv
  <1> QED BY <1>1, FsInvariant, PTL

\* While the volume is up, a file with data that was not flushed, or whose log
\* segments have asked for a connection and not released it, is in the hands of a
\* client, is tracked, or its last Write() or Flush() told its caller of an error.
THEOREM UnflushedFilesKnown == Spec => []UnflushedIsKnown
  <1>1. FsInv => UnflushedIsKnown
    <2> SUFFICES ASSUME FsInv, NEW f \in Files, down.pc = "up", inodeLock[f] \notin Clients,
                        inFlightMap[f] = NoEntry, f \notin told
                 PROVE  ~dirty[f] /\ LogSegments(f) \cap (Holders \cup woken \cup Range(waiters)) = {}
      BY Zenon DEF UnflushedIsKnown
    <2>1. FileOK(f)
      BY Zenon DEF FsInv, WorkInv
    <2>2. ASSUME NEW u \in LogSegments(f), u \in Holders \cup woken \cup Range(waiters)
          PROVE  u \in Attached
      BY Zenon, <2>2 DEF Attached, LogSegments, Range
    <2> QED BY Zenon, <2>1, <2>2 DEF FileOK
  <1> QED BY <1>1, FsInvariant, PTL
=============================================================================
