--------------------------- MODULE ConnectionPool ---------------------------
(***************************************************************************)
(* The pool of connections for chunked PUTs (swiftclient/utils.go), with   *)
(* the goroutines that call the starvation callback while somebody waits   *)
(* for a connection.  The pool of the other requests is the same code      *)
(* without starvation.                                                     *)
(*                                                                         *)
(* Every action is a critical section of the pool's mutex, except the ones *)
(* of the starvation goroutines and the increment of connectionNonce.  A   *)
(* connection is the nonce it was opened under.                            *)
(***************************************************************************)
EXTENDS Integers, Sequences, FiniteSets, Functions

CONSTANTS
    Users,         \* who may hold a connection: the chunked PUTs
    poolCapacity,
    Goroutines,    \* chunkedConnectionPoolInStarvationMode(), see StarversMatch
    MaxReloads     \* bound of the model on SIGHUPs

ASSUME PoolAssumption ==
    /\ IsFiniteSet(Users)
    /\ poolCapacity \in Nat \ {0}
    /\ IsFiniteSet(Goroutines)
    /\ MaxReloads \in Nat

VARIABLES
    poolInUse,
    lifo,                \* lifoOfActiveConnections up to lifoIndex
    waiters,             \* who sleeps in cv.Wait(), in order
    woken,               \* who was signalled and has yet to get the mutex
    connection,          \* what each user holds
    connectionNonce,
    draining,            \* connectionNonce was incremented, the pool not yet drained
    starvationUnderway,
    resolved,            \* sends on stavationResolvedChan that were not received
    starver              \* where each starvation goroutine is

poolVars == <<poolInUse, lifo, waiters, woken, connection, connectionNonce, draining,
              starvationUnderway, resolved, starver>>

NoConnection == -1

PoolTypeOK ==
    /\ poolInUse \in 0..poolCapacity
    /\ lifo \in Seq(0..MaxReloads)
    /\ waiters \in Seq(Users)
    /\ woken \subseteq Users
    /\ connection \in [Users -> 0..MaxReloads \cup {NoConnection}]
    /\ connectionNonce \in 0..MaxReloads
    /\ draining \in BOOLEAN /\ starvationUnderway \in BOOLEAN
    /\ resolved \in 0..2
    /\ starver \in [Goroutines -> {"none", "select", "callback"}]

PoolInit ==
    /\ poolInUse = 0 /\ lifo = <<>> /\ waiters = <<>> /\ woken = {}
    /\ connection = [u \in Users |-> NoConnection]
    /\ connectionNonce = 0 /\ draining = FALSE
    /\ starvationUnderway = FALSE /\ resolved = 0
    /\ starver = [g \in Goroutines |-> "none"]

Holders == {u \in Users : connection[u] # NoConnection}

-----------------------------------------------------------------------------
\* The channel has room for one message: the second sender blocks inside
\* releaseChunkedConnection(), with the mutex locked.
MutexFree == resolved < 2

\* u gets the connection released last, or a new one.
Take(u) ==
    IF lifo = <<>>
      THEN connection' = [connection EXCEPT ![u] = connectionNonce] /\ UNCHANGED lifo
      ELSE /\ connection' = [connection EXCEPT ![u] = lifo[Len(lifo)]]
           /\ lifo' = SubSeq(lifo, 1, Len(lifo) - 1)

\* Mutant: a goroutine for everybody who waits.
StarveAgain ==
    /\ starvationUnderway' = TRUE
    /\ IF \E g \in Goroutines : starver[g] = "none"
         THEN \E g \in Goroutines : /\ starver[g] = "none"
                                    /\ starver' = [starver EXCEPT ![g] = "select"]
         ELSE UNCHANGED starver

\* Who is the first to wait starts the goroutine.
Starve ==
    IF starvationUnderway
      THEN UNCHANGED <<starvationUnderway, starver>>
      ELSE /\ starvationUnderway' = TRUE
           /\ \E g \in Goroutines : /\ starver[g] = "none"
                                    /\ starver' = [starver EXCEPT ![g] = "select"]

\* acquireChunkedConnection(), up to cv.Wait() if there is no free slot.
Acquire(u) ==
    /\ MutexFree
    /\ connection[u] = NoConnection /\ u \notin woken /\ u \notin Range(waiters)
    /\ IF poolInUse >= poolCapacity
         THEN /\ waiters' = Append(waiters, u)
              /\ Starve
              /\ UNCHANGED <<poolInUse, lifo, connection>>
         ELSE /\ poolInUse' = poolInUse + 1
              /\ Take(u)
              /\ UNCHANGED <<waiters, starvationUnderway, starver>>
    /\ UNCHANGED <<woken, connectionNonce, draining, resolved>>

\* cv.Wait() returns: the slot of the releaser has become u's.
Resume(u) ==
    /\ MutexFree /\ u \in woken
    /\ woken' = woken \ {u}
    /\ Take(u)
    /\ UNCHANGED <<poolInUse, waiters, connectionNonce, draining, starvationUnderway,
                   resolved, starver>>

\* The connection goes back to the pool; otherwise it is closed.
Keeps(u, keepAlive) ==
    keepAlive /\ connection[u] = connectionNonce /\ poolInUse <= poolCapacity

\* Mutant: the slot is handed over and freed.
FreesToo == poolInUse - 1

\* poolInUse of the slot that is handed to a waiter.
HandedOver == poolInUse

\* The first waiter gets the slot.
HandsOverSlot == poolInUse = poolCapacity /\ waiters # <<>>

\* releaseChunkedConnection().
Release(u, keepAlive) ==
    /\ MutexFree /\ connection[u] # NoConnection
    /\ connection' = [connection EXCEPT ![u] = NoConnection]
    /\ lifo' = IF Keeps(u, keepAlive) THEN Append(lifo, connection[u]) ELSE lifo
    /\ IF HandsOverSlot
         THEN /\ woken' = woken \cup {Head(waiters)}
              /\ waiters' = Tail(waiters)
              /\ poolInUse' = HandedOver
              /\ IF starvationUnderway /\ Tail(waiters) = <<>>
                   THEN starvationUnderway' = FALSE /\ resolved' = resolved + 1
                   ELSE UNCHANGED <<starvationUnderway, resolved>>
         ELSE /\ poolInUse' = poolInUse - 1
              /\ UNCHANGED <<woken, waiters, starvationUnderway, resolved>>
    /\ UNCHANGED <<connectionNonce, draining, starver>>

-----------------------------------------------------------------------------
\* PauseAndContract() and ExpandAndResume() increment the nonce, then drain.
Reload ==
    /\ connectionNonce < MaxReloads /\ ~draining
    /\ connectionNonce' = connectionNonce + 1
    /\ draining' = TRUE
    /\ UNCHANGED <<poolInUse, lifo, waiters, woken, connection, starvationUnderway,
                   resolved, starver>>

\* drainConnectionPools().
DrainConnectionPool ==
    /\ MutexFree /\ draining
    /\ draining' = FALSE
    /\ lifo' = <<>>
    /\ UNCHANGED <<poolInUse, waiters, woken, connection, connectionNonce,
                   starvationUnderway, resolved, starver>>

\* The select of chunkedConnectionPoolInStarvationMode().  A message that is
\* there is taken at once; the timer needs starvationCallbackFrequency.
StarvationResolved(g) ==
    /\ starver[g] = "select" /\ resolved > 0
    /\ resolved' = resolved - 1
    /\ starver' = [starver EXCEPT ![g] = "none"]
    /\ UNCHANGED <<poolInUse, lifo, waiters, woken, connection, connectionNonce, draining,
                   starvationUnderway>>

StarvationTick(g) ==
    /\ starver[g] = "select" /\ resolved = 0
    /\ starver' = [starver EXCEPT ![g] = "callback"]
    /\ UNCHANGED <<poolInUse, lifo, waiters, woken, connection, connectionNonce, draining,
                   starvationUnderway, resolved>>

CallbackReturns(g) ==
    /\ starver[g] = "callback"
    /\ starver' = [starver EXCEPT ![g] = "select"]
    /\ UNCHANGED <<poolInUse, lifo, waiters, woken, connection, connectionNonce, draining,
                   starvationUnderway, resolved>>

PoolNext ==
    \/ \E u \in Users : \/ Acquire(u) \/ Resume(u)
                        \/ \E keepAlive \in BOOLEAN : Release(u, keepAlive)
    \/ Reload \/ DrainConnectionPool
    \/ \E g \in Goroutines : StarvationResolved(g) \/ StarvationTick(g) \/ CallbackReturns(g)

PoolSpec == PoolInit /\ [][PoolNext]_poolVars

-----------------------------------------------------------------------------
\* acquireChunkedConnection() and releaseChunkedConnection() count slots
\* exactly: poolInUse is the number of users that hold a connection or were
\* promised one, and nobody sleeps while a slot is free.
SlotsExact ==
    /\ poolInUse = Cardinality(Holders) + Cardinality(woken)
    /\ waiters # <<>> => poolInUse = poolCapacity

\* No more connections are open than the pool has room for, idle ones included:
\* releaseChunkedConnection() never indexes lifoOfActiveConnections beyond its end.
ConnectionsBounded == Len(lifo) + Cardinality(Holders) <= poolCapacity

\* config.go of connectionNonce, "older connections always closed": once a
\* SIGHUP has drained the pool, every idle connection was opened after it.
IdleConnectionsCurrent == ~draining => \A i \in DOMAIN lifo : lifo[i] = connectionNonce

\* Starvation goroutines come and go with the messages that end them: one is
\* left for every message and one while starvation is under way.  So two suffice,
\* a message always finds its receiver, and the callback never runs twice at once.
StarversMatch ==
    /\ Cardinality({g \in Goroutines : starver[g] # "none"})
         = resolved + (IF starvationUnderway THEN 1 ELSE 0)
    /\ Cardinality({g \in Goroutines : starver[g] = "callback"}) <= 1
=============================================================================
