-------------------------- MODULE HeadhunterProofs --------------------------
(***************************************************************************)
(* Nonces are never returned twice, for any number of trees, pages and     *)
(* values, any size of reservation, any number of crashes and of Swift     *)
(* errors.                                                                 *)
(*                                                                         *)
(* The argument: while the volume is served, the reservation in memory is  *)
(* the one in Swift, and nextNonce never passes it; so a mount, which      *)
(* starts at the reservation, starts above every nonce returned before.    *)
(*                                                                         *)
(* Then checkpoints are durable, for any number of trees, pages and        *)
(* values, any size of objects and any number of crashes: the volume can   *)
(* be mounted at any time, layouts count exactly, and the store implements *)
(* DurableStore.  This holds as long as no Swift request of a flush fails  *)
(* and no reservation of nonces runs out between two objects of a          *)
(* checkpoint, which is what NoFault says.  Without it the code does not   *)
(* keep the invariant.                                                     *)
(*                                                                         *)
(* The argument: what the header leads to, and what is clean in memory, is *)
(* in objects that no delete is queued for.  Until the next header is      *)
(* posted a durable node is in use or stale, so its layout counts it; when *)
(* layouts drop to zero, the new header has left the object behind.        *)
(***************************************************************************)
EXTENDS Headhunter, TLAPS, FiniteSetTheorems

NonceInv ==
    /\ header \in [number : Int, reserved : Nat]
    /\ issued \subseteq Nat
    /\ \A n \in issued : n < header.reserved
    /\ up => /\ reserved = header.reserved
             /\ nextNonce \in Nat
             /\ nextNonce <= reserved
             /\ hdrObject \in Int
             /\ \A n \in issued : n < nextNonce

\* A volume that was never mounted has handed out no nonce.
LEMMA InitNonceInv == Init => NonceInv
BY DEF Init, NonceInv, firstNonceToProvide

\* fetchNonceWhileLocked() keeps the reservation in Swift ahead of what it
\* returns, whatever object number the header in memory has meanwhile.
LEMMA FetchNonceKeepsNonceInv ==
    ASSUME NonceInv, up, FetchNonceWhileLocked, up' = up, hdrObject' \in Int
    PROVE  NonceInv'
<1> DEFINE upTo == reserved + NonceValuesToReserve
<1>1. /\ header \in [number : Int, reserved : Nat] /\ issued \subseteq Nat
      /\ \A n \in issued : n < nextNonce
      /\ reserved = header.reserved /\ reserved \in Nat
      /\ nextNonce \in Nat /\ nextNonce <= reserved /\ hdrObject \in Int
  BY Zenon DEF NonceInv
<1>2. upTo \in Nat /\ upTo > reserved
  BY <1>1, ReserveAssumption
<1>3. /\ nextNonce' = nextNonce + 1
      /\ issued' = issued \cup {nextNonce}
  BY Zenon DEF FetchNonceWhileLocked
<1>4. /\ header' \in [number : Int, reserved : Nat]
      /\ header'.reserved = reserved' /\ nextNonce < reserved'
  <2>1. CASE nextNonce = reserved
    <3>1. header' = [number |-> hdrObject, reserved |-> upTo] /\ reserved' = upTo
      BY Zenon, <2>1 DEF FetchNonceWhileLocked
    <3> QED BY Zenon, <2>1, <3>1, <1>1, <1>2
  <2>2. CASE nextNonce # reserved
    <3>1. header' = header /\ reserved' = reserved
      BY Zenon, <2>2 DEF FetchNonceWhileLocked
    <3> QED BY <2>2, <3>1, <1>1
  <2> QED BY Zenon, <2>1, <2>2
<1>5. issued' \subseteq Nat /\ nextNonce' \in Nat /\ nextNonce' <= reserved'
  BY <1>1, <1>3, <1>4
<1>6. \A n \in issued' : n < nextNonce' /\ n < header'.reserved
  BY <1>1, <1>3, <1>4
<1> QED BY Zenon, <1>4, <1>5, <1>6 DEF NonceInv

\* No step hands out a nonce twice or lets memory run past the reservation.
LEMMA NextNonceInv == NonceInv /\ [Next]_vars => NonceInv'
<1> SUFFICES ASSUME NonceInv, [Next]_vars PROVE NonceInv'
  BY Zenon
<1> USE DEF NonceInv
<1>1. CASE Mount
  BY <1>1 DEF Mount, swiftVars
<1>2. CASE Crash
  BY Zenon, <1>2 DEF Crash, swiftVars
<1>3. ASSUME NEW S, NEW v, Put(S, v) PROVE NonceInv'
  BY Zenon, <1>3 DEF Put, swiftVars, nonceVars
<1>4. CASE FetchWaitGroup
  BY Zenon, <1>4 DEF FetchWaitGroup, swiftVars, nonceVars
<1>5. CASE FetchNonce
  BY Zenon, <1>5, FetchNonceKeepsNonceInv DEF FetchNonce
<1>6. CASE BeginCheckpoint
  BY Zenon, <1>6 DEF BeginCheckpoint, swiftVars, nonceVars
<1>7. CASE OpenContext
  BY <1>7, FetchNonceKeepsNonceInv DEF OpenContext
<1>8. ASSUME NEW n \in Node, PutNode(n) PROVE NonceInv'
  BY Zenon, <1>8 DEF PutNode, nonceVars
<1>9. ASSUME NEW n \in Node, PostNodeFails(n) PROVE NonceInv'
  BY Zenon, <1>9 DEF PostNodeFails, Swallow, swiftVars, nonceVars
<1>10. ASSUME NEW n \in Node, OpenFails(n) PROVE NonceInv'
  BY <1>10 DEF OpenFails, Swallow, swiftVars
<1>11. ASSUME NEW n \in Node, FetchContextFails(n) PROVE NonceInv'
  <2>1. up /\ up' = up /\ FetchNonceWhileLocked /\ hdrObject' \in Int
    BY <1>11 DEF FetchContextFails, Swallow
  <2> QED BY Zenon, <2>1, FetchNonceKeepsNonceInv
<1>12. ASSUME NEW n \in Node, CloseFails(n) PROVE NonceInv'
  BY Zenon, <1>12 DEF CloseFails, Swallow, swiftVars, nonceVars
<1>13. CASE Prune
  BY Zenon, <1>13 DEF Prune, swiftVars, nonceVars
<1>14. CASE WriteTrailer
  BY Zenon, <1>14 DEF WriteTrailer, nonceVars
<1>15. CASE PostHeader
  BY Zenon, <1>15 DEF PostHeader, nonceVars
<1>16. CASE Collect
  BY Zenon, <1>16 DEF Collect, swiftVars, nonceVars
<1>17. ASSUME NEW o, DeleteObject(o) PROVE NonceInv'
  BY Zenon, <1>17 DEF DeleteObject, nonceVars
<1>18. CASE UNCHANGED vars
  BY Zenon, <1>18 DEF vars, swiftVars, nonceVars
<1> QED BY Zenon, <1>1, <1>2, <1>3, <1>4, <1>5, <1>6, <1>7, <1>8, <1>9, <1>10, <1>11,
           <1>12, <1>13, <1>14, <1>15, <1>16, <1>17, <1>18 DEF Next, CheckpointStep

\* No nonce is returned twice by FetchNonce() or used twice as the number of a
\* checkpoint object, crashes, remounts and Swift errors included.
THEOREM NoncesNeverRepeat == Spec => []NoncesFresh
<1>1. NonceInv => NoncesFresh
  BY Zenon DEF NonceInv, NoncesFresh
<1> QED BY <1>1, InitNonceInv, NextNonceInv, PTL DEF Spec

-----------------------------------------------------------------------------
\* fetchNonceWhileLocked() is about to post a header whose object number is
\* that of an object of the checkpoint in progress.
ReservesMidCheckpoint ==
    /\ pc \in {"flush", "trailer"} /\ context = NoContext
    /\ hdrObject # header.number /\ nextNonce = reserved

NoFault == errors = 0 /\ ~ReservesMidCheckpoint

-----------------------------------------------------------------------------
(***************************************************************************)
(* The inductive invariant.                                                *)
(***************************************************************************)
\* The object x holds node n of the trees with locations l and leaves m.
Holds(x, n, l, m) ==
    IF n[2] = Root
      THEN n[1] \in DOMAIN x.root /\ x.root[n[1]] = [p \in Pages |-> l[<<n[1], p>>]]
      ELSE n \in DOMAIN x.leaf /\ x.leaf[n] = m[n]

InSwift(n, l, m) == l[n] \in DOMAIN objects /\ Holds(objects[l[n]], n, l, m)

InContext(n) == loc[n] = context.number /\ Holds(context, n, loc, mem)

\* The nodes of tree t in object o that are in use or yet to be discarded.
Used(l, st, t, o) == {n \in Node : n[1] = t /\ (l[n] = o \/ <<n, o>> \in st)}

Count(lay, t, o) == IF o \in DOMAIN lay[t] THEN lay[t][o] ELSE 0

Exact(lay, l, st) ==
    /\ DOMAIN lay = Trees
    /\ \A t \in Trees :
         /\ DOMAIN lay[t] \subseteq issued
         /\ \A o \in 1..MaxNonce : Count(lay, t, o) = Cardinality(Used(l, st, t, o))

Trailer == objects[header.number].trailer

TypeInv ==
    /\ header \in [number : Nat, reserved : Nat] /\ header.reserved >= 1
    /\ up => nextNonce >= 1
    /\ issued \subseteq 1..MaxNonce
    /\ DOMAIN objects \subseteq issued
    /\ deletes \subseteq issued
    /\ mem \in [Keys -> Values \cup {NoValue}]
    /\ loc \in [Node -> issued \cup {0}]
    /\ stale \subseteq Node \X issued
    /\ hdrObject \in issued \cup {0}
    /\ context = [number |-> context.number, leaf |-> context.leaf,
                  root |-> context.root]
    /\ context.number \in issued \cup {0}
    /\ context.number = 0 => context = NoContext
    /\ pc \in {"idle", "flush", "trailer", "post", "collect"}
    /\ flushed \in BOOLEAN
    /\ errors \in Nat

\* What the header in Swift leads to is complete and not about to be deleted.
DurableInv ==
    /\ DurableRecs \in [Keys -> Values \cup {NoValue}]
    /\ header.number # 0 =>
         /\ header.number \in DOMAIN objects \ deletes
         /\ Trailer # NoTrailer
         /\ \A n \in Node : /\ InSwift(n, DurableLoc, DurableRecs)
                            /\ DurableLoc[n] \notin deletes
         /\ Exact(Trailer.layout, DurableLoc, {})

\* What is clean in memory is written and not about to be deleted.
MemoryInv ==
    up => /\ \A n \in Node : loc[n] # 0 => InSwift(n, loc, mem) \/ InContext(n)
          /\ \A n \in Node : loc[n] \notin deletes
          /\ hdrObject \notin deletes
          /\ \A t \in Trees, p \in Pages : loc[<<t, Root>>] # 0 => loc[<<t, p>>] # 0
          /\ \A s \in stale : loc[s[1]] # s[2] /\ s[2] # context.number
          /\ Exact(layout, loc, stale)

\* The checkpoint object is in use if a layout mentions it.
ObjectUsed ==
    \A t \in Trees : hdrObject \in DOMAIN layout[t] =>
      \E n \in Node : n[1] = t /\ loc[n] = hdrObject

AllClean == \A n \in Node : loc[n] # 0

\* Nodes are clean only if they are durable.
CleanDurable == \A n \in Node : loc[n] # 0 => loc[n] = DurableLoc[n]

\* Durable nodes are in use or remembered as stale: they count in the layouts.
DurableCounted ==
    \A n \in Node : DurableLoc[n] # 0 =>
      DurableLoc[n] = loc[n] \/ <<n, DurableLoc[n]>> \in stale

NewTrailer == [root |-> [t \in Trees |-> loc[<<t, Root>>]], layout |-> layout]

InIdle ==
    /\ context = NoContext /\ hdrObject = header.number
    /\ CleanDurable /\ DurableCounted

InFlush ==
    /\ todo = {n \in Node : loc[n] = 0}
    /\ DurableCounted
    /\ ~flushed => CleanDurable
    /\ ~flushed /\ todo = {} => context = NoContext /\ hdrObject = header.number

InPost ==
    /\ ObjectUsed /\ hdrObject \in DOMAIN objects
    /\ objects[hdrObject].trailer = NewTrailer

InCollect ==
    /\ ObjectUsed /\ hdrObject = header.number /\ header.number # 0
    /\ DurableLoc = loc /\ DurableRecs = mem

PhaseInv ==
    /\ ~up => /\ pc = "idle" /\ context = NoContext /\ stale = {} /\ deletes = {}
              /\ loc = AllDirty /\ layout = NoLayout
    /\ context # NoContext =>
         /\ pc \in {"flush", "trailer"} /\ ObjectUsed
         /\ context.number = hdrObject /\ hdrObject \notin DOMAIN objects
    /\ up /\ pc = "idle" => InIdle
    /\ up /\ pc = "flush" => InFlush
    /\ pc \in {"trailer", "post", "collect"} => stale = {} /\ AllClean
    /\ pc = "post" => InPost
    /\ pc = "collect" => InCollect
    /\ up /\ pc # "collect" => promised = DurableRecs

IInv == NonceInv /\ TypeInv /\ DurableInv /\ MemoryInv /\ PhaseInv

-----------------------------------------------------------------------------
(***************************************************************************)
(* Lemmas.                                                                 *)
(***************************************************************************)
LEMMA NodeFinite == IsFiniteSet(Node)
<1>1. IsFiniteSet(Trees)
  BY NodeAssumption, FS_Interval DEF Trees
<1>2. IsFiniteSet(Pages \cup {Root})
  BY Zenon, NodeAssumption, FS_AddElement
<1> QED BY Zenon, <1>1, <1>2, FS_Product DEF Node

\* A tree has finitely many nodes in an object, so they can be counted.
LEMMA UsedFinite ==
    ASSUME NEW l, NEW st, NEW t, NEW o
    PROVE  /\ IsFiniteSet(Used(l, st, t, o))
           /\ Cardinality(Used(l, st, t, o)) \in Nat
           /\ Cardinality(Used(l, st, t, o)) = 0 <=> Used(l, st, t, o) = {}
<1>1. IsFiniteSet(Used(l, st, t, o))
  BY Zenon, NodeFinite, FS_Subset DEF Used
<1> HIDE DEF Used
<1>2. Cardinality(Used(l, st, t, o)) \in Nat
  BY Zenon, <1>1, FS_CardinalityType
<1> QED BY Zenon, <1>1, <1>2, FS_EmptySet

\* A node is the root of a tree or one of the pages below it.
LEMMA NodeParts ==
    /\ \A n \in Node : n = <<n[1], n[2]>> /\ n[1] \in Trees
    /\ \A n \in Node : n[2] # Root => n \in Keys /\ n[2] \in Pages
    /\ \A t \in Trees : <<t, Root>> \in Node
    /\ \A t \in Trees, p \in Pages : <<t, p>> \in Node /\ <<t, p>> \in Keys /\ p # Root
    /\ \A k \in Keys : k \in Node /\ k[2] # Root /\ k[1] \in Trees /\ k[2] \in Pages
BY NodeAssumption DEF Node, Keys

\* Before the first checkpoint.
LEMMA NothingDurable ==
    /\ header.number = 0 => DurableLoc = AllDirty /\ DurableRecs = Empty
    /\ header'.number = 0 => DurableLoc' = AllDirty /\ DurableRecs' = Empty
<1>1. header.number = 0 => DurableLoc = AllDirty
  BY Zenon DEF DurableLoc, AllDirty
<1>2. DurableLoc = AllDirty => DurableRecs = Empty
  BY Zenon, NodeParts DEF DurableRecs, AllDirty, Empty
<1>3. header'.number = 0 => DurableLoc' = AllDirty
  BY Zenon DEF DurableLoc, AllDirty
<1>4. DurableLoc' = AllDirty => DurableRecs' = Empty
  BY Zenon, NodeParts DEF DurableRecs, AllDirty, Empty
<1> QED BY Zenon, <1>1, <1>2, <1>3, <1>4

\* The objects that are not about to be deleted stay as they are.
Kept ==
    \A o \in DOMAIN objects \ deletes :
      o \in DOMAIN objects' /\ objects'[o] = objects[o]

\* Then so does what can be reached from the header.
LEMMA DurableKept ==
    ASSUME TypeInv, DurableInv, Kept, header'.number = header.number
    PROVE  /\ DurableLoc' = DurableLoc /\ DurableRecs' = DurableRecs
           /\ header.number # 0 =>
                /\ header.number \in DOMAIN objects'
                /\ Trailer' = Trailer
                /\ \A n \in Node : InSwift(n, DurableLoc, DurableRecs)'
<1>1. CASE header.number = 0
  BY Zenon, <1>1, NothingDurable
<1>2. CASE header.number # 0
  <2>1. /\ header.number \in DOMAIN objects'
        /\ objects'[header.number] = objects[header.number]
    BY Zenon, <1>2 DEF DurableInv, Kept
  <2>2. \A t \in Trees : RootAt(t)' = RootAt(t)
    BY Zenon, <2>1 DEF RootAt
  <2>3. \A n \in Node : /\ DurableLoc[n] \in DOMAIN objects
                        /\ DurableLoc[n] \in DOMAIN objects'
                        /\ objects'[DurableLoc[n]] = objects[DurableLoc[n]]
                        /\ Holds(objects[DurableLoc[n]], n, DurableLoc, DurableRecs)
    BY Zenon, <1>2 DEF DurableInv, Kept, InSwift
  <2>4. \A n \in Node : DurableLoc[n] # 0
    BY <2>3 DEF TypeInv
  <2>5. \A t \in Trees : RootAt(t) # 0 /\ DurableLoc[<<t, Root>>] = RootAt(t)
    BY Zenon, <2>4, <1>2, NodeParts DEF DurableLoc
  <2>6. \A t \in Trees : objects'[RootAt(t)] = objects[RootAt(t)]
    BY Zenon, <2>3, <2>5, NodeParts
  <2>7. DurableLoc' = DurableLoc
    BY <1>2, <2>2, <2>5, <2>6, NodeParts DEF DurableLoc
  <2>8. DurableRecs' = DurableRecs
    BY Zenon, <2>3, <2>7, NodeParts DEF DurableRecs
  <2> QED BY Zenon, <2>1, <2>3, <2>7, <2>8 DEF InSwift, Trailer
<1> QED BY Zenon, <1>1, <1>2

\* And what memory refers to.
LEMMA CleanKept ==
    ASSUME Kept, loc' = loc, mem' = mem, NEW n \in Node, loc[n] \notin deletes,
           InSwift(n, loc, mem)
    PROVE  InSwift(n, loc, mem)'
BY Zenon DEF Kept, InSwift

\* fetchNonceWhileLocked() yields a nonce that was never issued.
LEMMA FetchNonceFacts ==
    ASSUME NonceInv, TypeInv, up, FetchNonceWhileLocked
    PROVE  /\ nextNonce \in 1..MaxNonce /\ nextNonce \notin issued
           /\ issued' = issued \cup {nextNonce} /\ nextNonce' >= 1
           /\ header' \in [number : Nat, reserved : Nat] /\ header'.reserved >= 1
           /\ nextNonce # reserved => header' = header
           /\ nextNonce = reserved => header'.number = hdrObject
<1>1. /\ nextNonce \in Nat /\ nextNonce >= 1 /\ nextNonce <= MaxNonce
      /\ \A n \in issued : n < nextNonce
      /\ issued' = issued \cup {nextNonce} /\ nextNonce' = nextNonce + 1
      /\ header \in [number : Nat, reserved : Nat] /\ header.reserved >= 1
      /\ reserved = header.reserved /\ issued \subseteq 1..MaxNonce
  BY Zenon DEF NonceInv, TypeInv, FetchNonceWhileLocked
<1>2. hdrObject \in Nat
  BY <1>1 DEF TypeInv
<1>3. nextNonce \in 1..MaxNonce /\ nextNonce \notin issued
  BY <1>1
<1>4. CASE nextNonce = reserved
  <2>1. header' = [number |-> hdrObject, reserved |-> reserved + NonceValuesToReserve]
    BY Zenon, <1>4 DEF FetchNonceWhileLocked
  <2> QED BY <1>1, <1>2, <1>3, <1>4, <2>1, ReserveAssumption
<1>5. CASE nextNonce # reserved
  BY <1>1, <1>3, <1>5 DEF FetchNonceWhileLocked
<1> QED BY Zenon, <1>4, <1>5

\* The object under construction stays one.
LEMMA WithNodeFacts ==
    ASSUME TypeInv, NEW n \in Node
    PROVE  /\ WithNode(n).number = context.number
           /\ WithNode(n) = [number |-> context.number, leaf |-> WithNode(n).leaf,
                             root |-> WithNode(n).root]
           /\ n[2] # Root => /\ WithNode(n).root = context.root
                             /\ WithNode(n).leaf = With(context.leaf, n, mem[n])
           /\ n[2] = Root => /\ WithNode(n).leaf = context.leaf
                             /\ WithNode(n).root =
                                  With(context.root, n[1],
                                       [p \in Pages |-> loc[<<n[1], p>>]])
<1>1. context = [number |-> context.number, leaf |-> context.leaf, root |-> context.root]
  BY Zenon DEF TypeInv
<1> DEFINE r == With(context.root, n[1], [p \in Pages |-> loc[<<n[1], p>>]])
           f == With(context.leaf, n, mem[n])
<1>2. CASE n[2] = Root
  <2>1. WithNode(n) = [context EXCEPT !.root = r]
    BY Zenon, <1>2 DEF WithNode
  <2> HIDE DEF r
  <2>2. WithNode(n) = [number |-> context.number, leaf |-> context.leaf, root |-> r]
    BY Zenon, <1>1, <2>1
  <2> QED BY <1>2, <2>2 DEF r
<1>3. CASE n[2] # Root
  <2>1. WithNode(n) = [context EXCEPT !.leaf = f]
    BY Zenon, <1>3 DEF WithNode
  <2> HIDE DEF f
  <2>2. WithNode(n) = [number |-> context.number, leaf |-> f, root |-> context.root]
    BY Zenon, <1>1, <2>1
  <2> QED BY <1>3, <2>2 DEF f
<1> QED BY Zenon, <1>2, <1>3

\* Every step keeps the variables in their types.
LEMMA TypePreserved == IInv /\ NoFault /\ [Next]_vars /\ errors' = 0 => TypeInv'
<1> SUFFICES ASSUME IInv, NoFault, [Next]_vars, errors' = 0 PROVE TypeInv'
  BY Zenon
<1>0. NonceInv /\ TypeInv /\ DurableInv /\ MemoryInv /\ PhaseInv /\ errors = 0
  BY Zenon DEF IInv, NoFault
<1> USE <1>0
<1>1. CASE Mount
  <2>1. DurableLoc \in [Node -> issued \cup {0}]
    <3>1. CASE header.number = 0
      BY Zenon, <3>1, NothingDurable DEF AllDirty
    <3>2. CASE header.number # 0
      <4>1. \A n \in Node : DurableLoc[n] \in issued
        BY Zenon, <3>2 DEF DurableInv, InSwift, TypeInv
      <4> QED BY Zenon, <4>1 DEF DurableLoc
    <3> QED BY Zenon, <3>1, <3>2
  <2>2. DurableRecs \in [Keys -> Values \cup {NoValue}]
    BY Zenon DEF DurableInv
  <2> QED BY Zenon, <1>1, <2>1, <2>2 DEF Mount, swiftVars, ckptVars, TypeInv, DurableInv
<1>2. CASE Crash
  BY Zenon, <1>2, NodeParts DEF Crash, swiftVars, TypeInv, Empty, AllDirty, NoContext
<1>3. ASSUME NEW S \in SUBSET Keys, NEW v \in Values \cup {NoValue}, Put(S, v)
      PROVE  TypeInv'
  <2>1. Path(S) \subseteq Node
    BY Zenon, NodeParts DEF Path
  <2>2. stale' \subseteq Node \X issued
    BY <1>3, <2>1 DEF Put, TypeInv
  <2> QED BY Zenon, <1>3, <2>2 DEF Put, swiftVars, nonceVars, ckptVars, TypeInv
<1>4. CASE FetchWaitGroup
  BY Zenon, <1>4 DEF FetchWaitGroup, swiftVars, treeVars, nonceVars, ckptVars, TypeInv
<1>5. CASE FetchNonce
  BY Zenon, <1>5, FetchNonceFacts DEF FetchNonce, treeVars, ckptVars, TypeInv
<1>6. CASE BeginCheckpoint
  BY Zenon, <1>6 DEF BeginCheckpoint, swiftVars, treeVars, nonceVars, TypeInv
<1>7. CASE OpenContext
  BY Zenon, <1>7, FetchNonceFacts DEF OpenContext, treeVars, TypeInv, NoContext
<1>8. ASSUME NEW n \in Node, PutNode(n) PROVE TypeInv'
  <2>1. /\ context.number \in issued /\ issued' = issued /\ header' = header
        /\ UNCHANGED <<up, mem, stale, hdrObject, nextNonce, pc, deletes, errors>>
        /\ loc' = [loc EXCEPT ![n] = context.number] /\ flushed' = TRUE
    BY Zenon, <1>8 DEF PutNode, nonceVars, TypeInv
  <2>2. CASE Full(WithNode(n))
    <3>1. objects' = Complete(WithNode(n), NoTrailer) /\ context' = NoContext
      BY Zenon, <1>8, <2>2 DEF PutNode
    <3>2. DOMAIN objects' \subseteq issued
      BY Zenon, <2>1, <3>1, WithNodeFacts DEF Complete, With, TypeInv
    <3> QED BY Zenon, <2>1, <3>1, <3>2 DEF TypeInv, NoContext
  <2>3. CASE ~Full(WithNode(n))
    <3>1. objects' = objects /\ context' = WithNode(n)
      BY Zenon, <1>8, <2>3 DEF PutNode
    <3>2. /\ context'.number = context.number
          /\ context' = [number |-> context'.number, leaf |-> context'.leaf,
                         root |-> context'.root]
      BY Zenon, <3>1, WithNodeFacts
    <3>3. context.number # 0
      BY <2>1 DEF TypeInv
    <3> HIDE DEF WithNode
    <3> QED BY Zenon, <2>1, <3>1, <3>2, <3>3 DEF TypeInv
  <2> QED BY Zenon, <2>2, <2>3
<1>9. ASSUME NEW n \in Node, PostNodeFails(n) PROVE TypeInv'
  BY Zenon, <1>9 DEF PostNodeFails, Swallow, swiftVars, nonceVars, TypeInv
<1>10. ASSUME NEW n \in Node, OpenFails(n) \/ FetchContextFails(n) \/ CloseFails(n)
       PROVE FALSE
  BY <1>10 DEF OpenFails, FetchContextFails, CloseFails
<1>13. CASE Prune
  BY Zenon, <1>13 DEF Prune, swiftVars, nonceVars, TypeInv
<1>14. CASE WriteTrailer
  BY Zenon, <1>14 DEF WriteTrailer, treeVars, nonceVars, Complete, With, TypeInv, NoContext
<1>15. CASE PostHeader
  BY Zenon, <1>15 DEF PostHeader, treeVars, nonceVars, TypeInv, NonceInv, PhaseInv
<1>16. CASE Collect
  <2>1. \A t \in Trees : DOMAIN layout[t] \subseteq issued
    BY Zenon, <1>16 DEF Collect, MemoryInv, Exact
  <2>2. deletes' \subseteq issued
    BY Zenon, <1>16, <2>1 DEF Collect, TypeInv
  <2> QED BY Zenon, <1>16, <2>2 DEF Collect, swiftVars, nonceVars, TypeInv
<1>17. ASSUME NEW o, DeleteObject(o) PROVE TypeInv'
  BY Zenon, <1>17 DEF DeleteObject, treeVars, nonceVars, ckptVars, TypeInv, Restrict
<1>18. CASE UNCHANGED vars
  BY Zenon, <1>18 DEF vars, swiftVars, treeVars, nonceVars, ckptVars, TypeInv
<1>19. \A t \in Trees, P \in SUBSET Pages : {t} \X P \in SUBSET Keys
  BY Zenon DEF Keys
<1> QED BY ZenonT(30), <1>1, <1>2, <1>3, <1>4, <1>5, <1>6, <1>7, <1>8, <1>9, <1>10,
           <1>13, <1>14, <1>15, <1>16, <1>17, <1>18, <1>19 DEF Next, CheckpointStep

-----------------------------------------------------------------------------
(***************************************************************************)
(* The steps that leave the header's object number alone, or the memory.   *)
(***************************************************************************)
LEMMA DurableStays ==
    ASSUME TypeInv, DurableInv, Kept, header'.number = header.number,
           deletes' \subseteq deletes, issued \subseteq issued'
    PROVE  DurableInv' /\ DurableLoc' = DurableLoc /\ DurableRecs' = DurableRecs
<1>1. DurableLoc' = DurableLoc /\ DurableRecs' = DurableRecs
  BY Zenon, DurableKept
<1>2. DurableRecs' \in [Keys -> Values \cup {NoValue}]
  BY Zenon, <1>1 DEF DurableInv
<1>3. ASSUME header.number # 0
      PROVE  /\ header'.number \in DOMAIN objects' \ deletes'
             /\ Trailer' # NoTrailer
             /\ \A n \in Node : /\ InSwift(n, DurableLoc, DurableRecs)'
                                /\ DurableLoc'[n] \notin deletes'
             /\ Exact(Trailer.layout, DurableLoc, {})'
  <2>1. /\ header.number \in DOMAIN objects' /\ Trailer' = Trailer
        /\ \A n \in Node : InSwift(n, DurableLoc, DurableRecs)'
    BY Zenon, <1>3, DurableKept
  <2>2. /\ header.number \notin deletes /\ Trailer # NoTrailer
        /\ \A n \in Node : DurableLoc[n] \notin deletes
        /\ Exact(Trailer.layout, DurableLoc, {})
    BY Zenon, <1>3 DEF DurableInv
  <2>3. Exact(Trailer.layout, DurableLoc, {})'
    BY SMTT(30), <1>1, <2>1, <2>2 DEF Exact
  <2> QED BY Zenon, <1>1, <2>1, <2>2, <2>3
<1> QED BY Zenon, <1>1, <1>2, <1>3 DEF DurableInv

\* A step that changes neither the trees nor what Swift holds of them keeps
\* the invariant of the trees in memory.
LEMMA MemoryStays ==
    ASSUME MemoryInv, Kept, deletes' \subseteq deletes, issued \subseteq issued',
           UNCHANGED <<up, mem, loc, stale, layout, context, hdrObject>>
    PROVE  MemoryInv'
<1> SUFFICES ASSUME up PROVE MemoryInv'
  BY Zenon DEF MemoryInv
<1>1. \A n \in Node : loc[n] # 0 => InSwift(n, loc, mem)' \/ InContext(n)'
  BY Zenon, CleanKept DEF MemoryInv, InContext
<1>2. Exact(layout, loc, stale)'
  BY Zenon DEF MemoryInv, Exact
<1> QED BY SMTT(30), <1>1, <1>2 DEF MemoryInv

\* All but the steps of a checkpoint, mounts and crashes.
LEMMA PhaseStays ==
    ASSUME TypeInv, PhaseInv, DurableLoc' = DurableLoc, DurableRecs' = DurableRecs,
           header'.number = header.number, Kept, hdrObject \notin deletes,
           DOMAIN objects' \subseteq DOMAIN objects, ~up => deletes' = {},
           UNCHANGED <<up, mem, loc, stale, layout, context, hdrObject, pc, todo,
                       flushed, promised>>
    PROVE  PhaseInv'
<1>1. ObjectUsed' = ObjectUsed /\ AllClean' = AllClean /\ NewTrailer' = NewTrailer
  BY Zenon DEF ObjectUsed, AllClean, NewTrailer
<1>2. CleanDurable' = CleanDurable /\ DurableCounted' = DurableCounted
  BY Zenon DEF CleanDurable, DurableCounted
<1>3. InIdle' = InIdle /\ InFlush' = InFlush /\ InCollect' = InCollect
  BY Zenon, <1>1, <1>2 DEF InIdle, InFlush, InCollect
<1>4. InPost => InPost'
  BY Zenon, <1>1 DEF InPost, Kept
<1> QED BY Zenon, <1>1, <1>3, <1>4 DEF PhaseInv
-----------------------------------------------------------------------------
(***************************************************************************)
(* Mounts, crashes, the operations of the volume handle, deletes and the   *)
(* flush of the trees preserve the inductive invariant and leave the       *)
(* durable records alone: one lemma per action.                            *)
(***************************************************************************)
Inv == DurableInv /\ MemoryInv /\ PhaseInv

\* The Put... and Delete... operations dirty a path and make its old place stale.
LEMMA PutKeeps ==
    ASSUME IInv, NEW S \in SUBSET Keys, NEW v \in Values \cup {NoValue}, Put(S, v)
    PROVE  Inv' /\ DurableRecs' = DurableRecs
<1> DEFINE touched == Path(S)
<1>1. NonceInv /\ TypeInv /\ DurableInv /\ MemoryInv /\ PhaseInv
  BY Zenon DEF IInv
<1>2. /\ up /\ pc = "idle" /\ InIdle /\ context.number = 0
      /\ UNCHANGED <<header, objects, up, layout, hdrObject, issued, context, pc,
                     deletes, promised>>
      /\ mem' = [k \in Keys |-> IF k \in S THEN v ELSE mem[k]]
      /\ loc' = [n \in Node |-> IF n \in touched THEN 0 ELSE loc[n]]
      /\ stale' = stale \cup {<<n, loc[n]>> : n \in {m \in touched : loc[m] # 0}}
  BY <1>1 DEF Put, swiftVars, nonceVars, ckptVars, PhaseInv, InIdle, NoContext
<1>3. /\ touched \subseteq Node /\ S \subseteq touched
      /\ \A k \in S : <<k[1], Root>> \in touched
  BY Zenon, NodeParts DEF Path
<1>4. Kept
  BY Zenon, <1>2 DEF Kept
<1>5. DurableInv' /\ DurableLoc' = DurableLoc /\ DurableRecs' = DurableRecs
  BY Zenon, <1>1, <1>2, <1>4, DurableStays
<1> HIDE DEF touched
<1>6. ASSUME NEW n \in Node, loc'[n] # 0 PROVE InSwift(n, loc, mem)'
  <2>1. loc'[n] = loc[n] /\ loc[n] # 0 /\ n \notin touched
    BY Zenon, <1>2, <1>6
  <2>2. InSwift(n, loc, mem)
    BY Zenon, <1>1, <1>2, <2>1 DEF MemoryInv, InContext
  <2>3. CASE n[2] = Root
    <3>1. \A p \in Pages : <<n[1], p>> \notin touched
      <4> SUFFICES ASSUME NEW p \in Pages, <<n[1], p>> \in touched PROVE FALSE
        BY Zenon
      <4>1. <<n[1], p>> \in S
        BY Zenon, NodeParts, NodeAssumption DEF touched, Path
      <4>2. n = <<n[1], Root>>
        BY Zenon, <2>3, NodeParts
      <4> QED BY Zenon, <1>3, <2>1, <4>1, <4>2
    <3>2. [p \in Pages |-> loc'[<<n[1], p>>]] = [p \in Pages |-> loc[<<n[1], p>>]]
      BY Zenon, <1>2, <3>1, NodeParts
    <3> QED BY Zenon, <1>2, <2>1, <2>2, <2>3, <3>2 DEF InSwift, Holds
  <2>4. CASE n[2] # Root
    BY Zenon, <1>2, <1>3, <2>1, <2>2, <2>4, NodeParts DEF InSwift, Holds
  <2> QED BY Zenon, <2>3, <2>4
<1>7. \A t \in Trees, p \in Pages : loc'[<<t, Root>>] # 0 => loc'[<<t, p>>] # 0
  <2> SUFFICES ASSUME NEW t \in Trees, NEW p \in Pages, loc'[<<t, Root>>] # 0,
                      <<t, p>> \in touched
               PROVE  FALSE
    BY Zenon, <1>1, <1>2, NodeParts DEF MemoryInv
  <2>1. <<t, p>> \in S
    BY Zenon, NodeParts, NodeAssumption DEF touched, Path
  <2> QED BY Zenon, <1>2, <1>3, <2>1, NodeParts
<1>8. \A s \in stale' : loc'[s[1]] # s[2] /\ s[2] # context.number
  BY <1>1, <1>2, <1>3 DEF MemoryInv, TypeInv
<1>9. \A t \in Trees, o \in 1..MaxNonce :
        Used(loc', stale', t, o) = Used(loc, stale, t, o)
  BY <1>1, <1>2, <1>3 DEF Used, TypeInv
<1>10. Exact(layout, loc, stale)'
  BY <1>1, <1>2, <1>9 DEF MemoryInv, Exact, Count
<1>11. \A n \in Node : loc'[n] \notin deletes
  BY <1>1, <1>2 DEF MemoryInv, TypeInv
<1>12. MemoryInv'
  BY Zenon, <1>1, <1>2, <1>6, <1>7, <1>8, <1>10, <1>11 DEF MemoryInv
<1>13. CleanDurable' /\ DurableCounted'
  BY Zenon, <1>2, <1>3, <1>5 DEF InIdle, CleanDurable, DurableCounted
<1>14. InIdle'
  BY Zenon, <1>2, <1>13 DEF InIdle
<1>15. PhaseInv'
  BY Zenon, <1>1, <1>2, <1>5, <1>14 DEF PhaseInv, InIdle
<1> QED BY Zenon, <1>5, <1>12, <1>15 DEF Inv

\* FetchWaitGroup, and steps that change no variable.
LEMMA StutterKeeps ==
    ASSUME IInv, UNCHANGED <<swiftVars, up, treeVars, nonceVars, ckptVars, deletes,
                             promised>>
    PROVE  Inv' /\ DurableRecs' = DurableRecs
<1>1. TypeInv /\ DurableInv /\ MemoryInv /\ PhaseInv
  BY Zenon DEF IInv
<1>2. UNCHANGED <<header, objects, up, mem, loc, stale, layout, hdrObject, issued,
                  context, pc, todo, flushed, deletes, promised>>
  BY Zenon DEF swiftVars, treeVars, nonceVars, ckptVars
<1>3. Kept
  BY Zenon, <1>2 DEF Kept
<1>4. DurableInv' /\ DurableLoc' = DurableLoc /\ DurableRecs' = DurableRecs
  BY Zenon, <1>1, <1>2, <1>3, DurableStays
<1>5. MemoryInv'
  BY Zenon, <1>1, <1>2, <1>3, MemoryStays
<1>6. ObjectUsed' = ObjectUsed /\ AllClean' = AllClean /\ NewTrailer' = NewTrailer
  BY Zenon, <1>2 DEF ObjectUsed, AllClean, NewTrailer
<1>7. CleanDurable' = CleanDurable /\ DurableCounted' = DurableCounted
  BY Zenon, <1>2, <1>4 DEF CleanDurable, DurableCounted
<1>8. /\ InIdle' = InIdle /\ InFlush' = InFlush /\ InPost' = InPost
      /\ InCollect' = InCollect
  BY Zenon, <1>2, <1>4, <1>6, <1>7 DEF InIdle, InFlush, InPost, InCollect
<1>9. PhaseInv'
  BY <1>1, <1>2, <1>4, <1>6, <1>8 DEF PhaseInv
<1> QED BY Zenon, <1>4, <1>5, <1>9 DEF Inv

\* FetchNonce() touches no tree, and between checkpoints a reservation posts the
\* object number that the header has already.
LEMMA FetchNonceKeeps ==
    ASSUME IInv, FetchNonce
    PROVE  Inv' /\ DurableRecs' = DurableRecs
<1>1. NonceInv /\ TypeInv /\ DurableInv /\ MemoryInv /\ PhaseInv
  BY Zenon DEF IInv
<1>2. /\ up /\ pc = "idle" /\ FetchNonceWhileLocked
      /\ UNCHANGED <<objects, up, mem, loc, stale, layout, hdrObject, context, pc, todo,
                     flushed, deletes, promised>>
  BY Zenon DEF FetchNonce, treeVars, ckptVars
<1>3. hdrObject = header.number /\ hdrObject \notin deletes
  BY Zenon, <1>1, <1>2 DEF PhaseInv, InIdle, MemoryInv
<1>4. header'.number = header.number /\ issued \subseteq issued'
  BY Zenon, <1>1, <1>2, <1>3, FetchNonceFacts
<1>5. Kept
  BY Zenon, <1>2 DEF Kept
<1>6. DurableInv' /\ DurableLoc' = DurableLoc /\ DurableRecs' = DurableRecs
  BY Zenon, <1>1, <1>2, <1>4, <1>5, DurableStays
<1>7. MemoryInv'
  BY Zenon, <1>1, <1>2, <1>4, <1>5, MemoryStays
<1>8. PhaseInv'
  BY Zenon, <1>1, <1>2, <1>3, <1>4, <1>5, <1>6, PhaseStays
<1> QED BY Zenon, <1>6, <1>7, <1>8 DEF Inv

\* A queued delete removes an object that nothing refers to.
LEMMA DeleteObjectKeeps ==
    ASSUME IInv, NEW o, DeleteObject(o)
    PROVE  Inv' /\ DurableRecs' = DurableRecs
<1>1. TypeInv /\ DurableInv /\ MemoryInv /\ PhaseInv
  BY Zenon DEF IInv
<1>2. /\ o \in deletes /\ deletes' = deletes \ {o}
      /\ objects' = Restrict(objects, DOMAIN objects \ {o})
      /\ UNCHANGED <<header, up, mem, loc, stale, layout, hdrObject, issued, context,
                     pc, todo, flushed, promised>>
  BY Zenon DEF DeleteObject, treeVars, nonceVars, ckptVars
<1>3. Kept /\ DOMAIN objects' \subseteq DOMAIN objects
  BY Zenon, <1>2 DEF Kept, Restrict
<1>4. up /\ hdrObject \notin deletes
  BY Zenon, <1>1, <1>2 DEF PhaseInv, MemoryInv
<1>5. DurableInv' /\ DurableLoc' = DurableLoc /\ DurableRecs' = DurableRecs
  BY Zenon, <1>1, <1>2, <1>3, DurableStays
<1>6. MemoryInv'
  BY Zenon, <1>1, <1>2, <1>3, MemoryStays
<1>7. PhaseInv'
  BY Zenon, <1>1, <1>2, <1>3, <1>4, <1>5, PhaseStays
<1> QED BY Zenon, <1>5, <1>6, <1>7 DEF Inv

\* getCheckpoint() loads the durable trees, all clean and exactly counted.
LEMMA MountKeeps ==
    ASSUME IInv, Mount
    PROVE  Inv' /\ DurableRecs' = DurableRecs
<1>1. TypeInv /\ DurableInv /\ MemoryInv /\ PhaseInv
  BY Zenon DEF IInv
<1>2. /\ ~up /\ up' = TRUE /\ mem' = DurableRecs /\ loc' = DurableLoc
      /\ layout' = IF header.number = 0 THEN NoLayout ELSE Trailer.layout
      /\ hdrObject' = header.number /\ promised' = DurableRecs
      /\ UNCHANGED <<header, objects, stale, issued, context, pc, todo, flushed, deletes>>
  BY Zenon DEF Mount, swiftVars, ckptVars, Trailer
<1>3. pc = "idle" /\ context = NoContext /\ stale = {} /\ deletes = {}
  BY Zenon, <1>1, <1>2 DEF PhaseInv
<1>4. Kept
  BY Zenon, <1>2 DEF Kept
<1>5. DurableInv' /\ DurableLoc' = DurableLoc /\ DurableRecs' = DurableRecs
  BY Zenon, <1>1, <1>2, <1>4, DurableStays
<1>6. ASSUME header.number = 0 PROVE MemoryInv'
  <2>1. \A n \in Node : loc'[n] = 0
    BY Zenon, <1>2, <1>6, NothingDurable DEF AllDirty
  <2>2. \A t \in Trees, o \in 1..MaxNonce : Used(loc', {}, t, o) = {}
    BY <2>1 DEF Used
  <2>3. DOMAIN layout' = Trees /\ \A t \in Trees : layout'[t] = <<>>
    BY Zenon, <1>2, <1>6 DEF NoLayout
  <2>4. \A t \in Trees : /\ DOMAIN layout'[t] = {}
                         /\ \A o \in 1..MaxNonce : Count(layout', t, o) = 0
    BY <2>3 DEF Count
  <2>5. Exact(layout, loc, stale)'
    <3>1. stale' = {} /\ Cardinality({}) = 0
      BY Zenon, <1>2, <1>3, FS_EmptySet
    <3>2. \A t \in Trees, o \in 1..MaxNonce :
            Count(layout', t, o) = Cardinality(Used(loc', stale', t, o))
      BY Zenon, <2>2, <2>4, <3>1
    <3> QED BY Zenon, <2>3, <2>4, <3>2 DEF Exact
  <2> QED BY Zenon, <1>1, <1>2, <1>3, <2>1, <2>5, NodeParts DEF MemoryInv
<1>7. ASSUME header.number # 0 PROVE MemoryInv'
  <2>1. \A n \in Node : InSwift(n, loc, mem)' /\ loc'[n] # 0
    BY <1>1, <1>2, <1>5, <1>7 DEF DurableInv, InSwift, TypeInv
  <2>2. Exact(layout, loc, stale)'
    BY Zenon, <1>1, <1>2, <1>3, <1>7 DEF DurableInv, Exact
  <2> QED BY Zenon, <1>2, <1>3, <2>1, <2>2, NodeParts DEF MemoryInv
<1>8. PhaseInv'
  <2>1. CleanDurable' /\ DurableCounted'
    BY Zenon, <1>2, <1>5 DEF CleanDurable, DurableCounted
  <2>2. InIdle'
    BY Zenon, <1>2, <1>3, <2>1 DEF InIdle
  <2> QED BY Zenon, <1>2, <1>3, <1>5, <2>2 DEF PhaseInv
<1> QED BY Zenon, <1>5, <1>6, <1>7, <1>8 DEF Inv

\* A crash loses the trees in memory and nothing of Swift.
LEMMA CrashKeeps ==
    ASSUME IInv, Crash
    PROVE  Inv' /\ DurableRecs' = DurableRecs
<1>1. TypeInv /\ DurableInv
  BY Zenon DEF IInv
<1>2. /\ ~up' /\ stale' = {} /\ context' = NoContext /\ pc' = "idle" /\ deletes' = {}
      /\ loc' = AllDirty /\ layout' = NoLayout
      /\ UNCHANGED <<header, objects, issued>>
  BY Zenon DEF Crash, swiftVars
<1>3. Kept
  BY Zenon, <1>2 DEF Kept
<1>4. DurableInv' /\ DurableRecs' = DurableRecs
  BY Zenon, <1>1, <1>2, <1>3, DurableStays
<1> QED BY Zenon, <1>2, <1>4 DEF Inv, MemoryInv, PhaseInv

\* putCheckpoint() starts with the dirty nodes of the trees.
LEMMA BeginCheckpointKeeps ==
    ASSUME IInv, BeginCheckpoint
    PROVE  Inv' /\ DurableRecs' = DurableRecs
<1>1. TypeInv /\ DurableInv /\ MemoryInv /\ PhaseInv
  BY DEF IInv
<1>2. /\ up /\ pc = "idle" /\ pc' = "flush" /\ flushed' = FALSE
      /\ todo' = {n \in Node : loc[n] = 0}
      /\ UNCHANGED <<header, objects, up, mem, loc, stale, layout, hdrObject, issued,
                     context, deletes, promised>>
  BY Zenon DEF BeginCheckpoint, swiftVars, treeVars, nonceVars
<1>3. InIdle
  BY Zenon, <1>1, <1>2 DEF PhaseInv
<1>4. Kept
  BY Zenon, <1>2 DEF Kept
<1>5. DurableInv' /\ DurableLoc' = DurableLoc /\ DurableRecs' = DurableRecs
  BY Zenon, <1>1, <1>2, <1>4, DurableStays
<1>6. MemoryInv'
  BY Zenon, <1>1, <1>2, <1>4, MemoryStays
<1>7. CleanDurable' /\ DurableCounted'
  BY Zenon, <1>2, <1>3, <1>5 DEF InIdle, CleanDurable, DurableCounted
<1>8. InFlush'
  BY Zenon, <1>2, <1>3, <1>7 DEF InIdle, InFlush
<1>9. PhaseInv'
  BY Zenon, <1>1, <1>2, <1>3, <1>5, <1>8 DEF PhaseInv, InIdle
<1> QED BY <1>5, <1>6, <1>9 DEF Inv

\* openCheckpointChunkedPutContextIfNecessary() starts an object under a fresh nonce.
LEMMA OpenContextKeeps ==
    ASSUME IInv, NoFault, OpenContext
    PROVE  Inv' /\ DurableRecs' = DurableRecs
<1>1. NonceInv /\ TypeInv /\ DurableInv /\ MemoryInv /\ PhaseInv /\ ~ReservesMidCheckpoint
  BY Zenon DEF IInv, NoFault
<1>2. /\ up /\ NeedsContext /\ context = NoContext /\ FetchNonceWhileLocked
      /\ hdrObject' = nextNonce /\ context' = [NoContext EXCEPT !.number = nextNonce]
      /\ UNCHANGED <<objects, up, mem, loc, stale, layout, pc, todo, flushed, deletes,
                     promised>>
  BY Zenon DEF OpenContext, treeVars
<1>3. /\ nextNonce \in 1..MaxNonce /\ nextNonce \notin issued
      /\ issued' = issued \cup {nextNonce}
      /\ nextNonce # reserved => header' = header
      /\ nextNonce = reserved => header'.number = hdrObject
  BY Zenon, <1>1, <1>2, FetchNonceFacts
<1>4. pc \in {"flush", "trailer"} /\ (pc = "flush" => todo # {})
  BY Zenon, <1>2 DEF NeedsContext, NextToFlush
<1>5. header'.number = header.number
  BY Zenon, <1>1, <1>2, <1>3, <1>4 DEF ReservesMidCheckpoint
<1>6. context.number = 0 /\ context'.number = nextNonce /\ context' # NoContext
  BY <1>2, <1>3 DEF NoContext
<1>7. Kept
  BY Zenon, <1>2 DEF Kept
<1>8. DurableInv' /\ DurableLoc' = DurableLoc /\ DurableRecs' = DurableRecs
  BY Zenon, <1>1, <1>2, <1>3, <1>5, <1>7, DurableStays
<1>9. MemoryInv'
  <2>1. \A n \in Node : loc[n] # 0 => InSwift(n, loc, mem)'
    BY Zenon, <1>1, <1>2, <1>6, <1>7, CleanKept DEF MemoryInv, InContext
  <2>2. \A s \in stale : s[2] # nextNonce
    BY Zenon, <1>1, <1>3 DEF TypeInv
  <2>3. nextNonce \notin deletes
    BY Zenon, <1>1, <1>3 DEF TypeInv
  <2>4. Exact(layout, loc, stale)'
    BY Zenon, <1>1, <1>2, <1>3 DEF MemoryInv, Exact
  <2> QED BY Zenon, <1>1, <1>2, <1>6, <2>1, <2>2, <2>3, <2>4 DEF MemoryInv
<1>10. PhaseInv'
  <2>1. ObjectUsed'
    BY Zenon, <1>1, <1>2, <1>3 DEF ObjectUsed, MemoryInv, Exact
  <2>2. nextNonce \notin DOMAIN objects
    BY Zenon, <1>1, <1>3 DEF TypeInv
  <2>3. pc = "flush" => InFlush'
    BY Zenon, <1>1, <1>2, <1>4, <1>8 DEF PhaseInv, InFlush, CleanDurable, DurableCounted
  <2>4. pc = "trailer" => stale' = {} /\ AllClean'
    BY Zenon, <1>1, <1>2 DEF PhaseInv, AllClean
  <2> QED BY Zenon, <1>1, <1>2, <1>4, <1>6, <1>8, <2>1, <2>2, <2>3, <2>4 DEF PhaseInv
<1> QED BY Zenon, <1>8, <1>9, <1>10 DEF Inv

\* postNode() finds no dirty child as long as no request fails.
LEMMA PostNodeSucceeds ==
    ASSUME IInv, NEW n \in Node, PostNodeFails(n)
    PROVE  FALSE
<1>1. /\ pc = "flush" /\ up /\ NextToFlush(n) /\ ~Postable(n)
  BY Zenon DEF PostNodeFails, Swallow
<1>2. todo = {m \in Node : loc[m] = 0}
  BY Zenon, <1>1 DEF IInv, PhaseInv, InFlush
<1>3. PICK p \in Pages : n[2] = Root /\ loc[<<n[1], p>>] = 0
  BY Zenon, <1>1 DEF Postable
<1>4. <<n[1], p>> \in todo
  BY Zenon, <1>2, <1>3, NodeParts
<1> QED BY Zenon, <1>1, <1>3, <1>4 DEF NextToFlush

\* PutNode() adds a dirty node to the object under construction, which is the
\* one that the header in memory names.
LEMMA PutNodeFacts ==
    ASSUME IInv, NEW n \in Node, PutNode(n)
    PROVE  /\ InFlush /\ ObjectUsed /\ context.number = hdrObject
           /\ context.number \notin DOMAIN objects
           /\ context.number \in issued /\ context.number \in 1..MaxNonce
           /\ context.number # 0 /\ loc[n] = 0 /\ n[1] \in Trees
           /\ \A m \in Node : loc'[m] = IF m = n THEN context.number ELSE loc[m]
           /\ \/ /\ objects' = Complete(WithNode(n), NoTrailer)
                 /\ context' = NoContext
              \/ objects' = objects /\ context' = WithNode(n)
           /\ Kept
<1>1. TypeInv /\ PhaseInv
  BY Zenon DEF IInv
<1>2. /\ up /\ pc = "flush" /\ NextToFlush(n) /\ context # NoContext
      /\ loc' = [loc EXCEPT ![n] = context.number]
      /\ \/ objects' = Complete(WithNode(n), NoTrailer) /\ context' = NoContext
         \/ objects' = objects /\ context' = WithNode(n)
  BY Zenon DEF PutNode
<1>3. /\ InFlush /\ ObjectUsed /\ context.number = hdrObject
      /\ context.number \notin DOMAIN objects
  BY Zenon, <1>1, <1>2 DEF PhaseInv
<1>4. /\ context.number \in issued /\ context.number \in 1..MaxNonce
      /\ context.number # 0
  BY Zenon, <1>1, <1>2 DEF TypeInv
<1>5. loc[n] = 0 /\ n[1] \in Trees
  BY Zenon, <1>2, <1>3, NodeParts DEF InFlush, NextToFlush
<1>6. \A m \in Node : loc'[m] = IF m = n THEN context.number ELSE loc[m]
  BY Zenon, <1>1, <1>2 DEF TypeInv
<1>7. WithNode(n).number = context.number
  BY Zenon, <1>1, WithNodeFacts
<1>8. Kept
  BY Zenon, <1>2, <1>3, <1>7 DEF Kept, Complete, With
<1> QED BY Zenon, <1>2, <1>3, <1>4, <1>5, <1>6, <1>8

\* The object under construction holds the nodes that are located in it.
LEMMA PutNodeHolds ==
    ASSUME IInv, NEW n \in Node, PutNode(n)
    PROVE  /\ \A m \in Node : loc'[m] # 0 /\ m[2] = Root =>
                [p \in Pages |-> loc'[<<m[1], p>>]] = [p \in Pages |-> loc[<<m[1], p>>]]
           /\ \A m \in Node : loc'[m] = context.number =>
                Holds(WithNode(n), m, loc', mem)
<1> DEFINE c == context.number
           W == WithNode(n)
<1>1. TypeInv /\ MemoryInv
  BY Zenon DEF IInv
<1>2. up
  BY Zenon DEF PutNode
<1>3. c \notin DOMAIN objects
  BY Zenon, PutNodeFacts
<1>4. /\ c # 0 /\ loc[n] = 0 /\ n[1] \in Trees
      /\ \A m \in Node : loc'[m] = IF m = n THEN c ELSE loc[m]
  BY Zenon, PutNodeFacts
<1> HIDE DEF W, c
\* The nodes below a clean root are clean: they are not n.
<1>7. \A m \in Node : loc'[m] # 0 /\ m[2] = Root =>
        [p \in Pages |-> loc'[<<m[1], p>>]] = [p \in Pages |-> loc[<<m[1], p>>]]
  <2> SUFFICES ASSUME NEW m \in Node, loc'[m] # 0, m[2] = Root, NEW p \in Pages
               PROVE  loc'[<<m[1], p>>] = loc[<<m[1], p>>]
    BY Zenon
  <2>1. <<m[1], p>> \in Node /\ p # Root /\ m = <<m[1], Root>> /\ m[1] \in Trees
    BY Zenon, NodeParts
  <2>2. CASE m = n
    <3>1. <<m[1], p>> # n
      BY <2>1, <2>2
    <3> QED BY Zenon, <1>4, <2>1, <3>1
  <2>3. CASE m # n
    <3>1. loc[<<m[1], p>>] # 0
      BY Zenon, <1>1, <1>2, <1>4, <2>1, <2>3 DEF MemoryInv
    <3> QED BY Zenon, <1>4, <2>1, <3>1
  <2> QED BY Zenon, <2>2, <2>3
<1>8. ASSUME NEW m \in Node, loc'[m] = c PROVE Holds(W, m, loc', mem)
  <2>1. CASE m = n
    <3>1. CASE n[2] = Root
      <4>1. W.root = With(context.root, n[1], [p \in Pages |-> loc[<<n[1], p>>]])
        BY Zenon, <1>1, <3>1, WithNodeFacts DEF W
      <4> QED BY <1>4, <1>7, <2>1, <3>1, <4>1 DEF Holds, With
    <3>2. CASE n[2] # Root
      <4>1. W.leaf = With(context.leaf, n, mem[n])
        BY Zenon, <1>1, <3>2, WithNodeFacts DEF W
      <4> QED BY Zenon, <2>1, <3>2, <4>1 DEF Holds, With
    <3> QED BY Zenon, <3>1, <3>2
  <2>2. CASE m # n
    <3>1. loc[m] = c /\ Holds(context, m, loc, mem)
      BY Zenon, <1>1, <1>2, <1>3, <1>4, <1>8, <2>2 DEF MemoryInv, InSwift, InContext, c
    <3>2. CASE m[2] = Root
      <4>1. /\ m[1] \in DOMAIN context.root
            /\ context.root[m[1]] = [p \in Pages |-> loc'[<<m[1], p>>]]
        BY Zenon, <1>4, <1>7, <1>8, <3>1, <3>2 DEF Holds
      <4>2. m[1] \in DOMAIN W.root /\ W.root[m[1]] = context.root[m[1]]
        <5>1. CASE n[2] = Root
          <6>1. n[1] # m[1]
            BY Zenon, <2>2, <3>2, <5>1, NodeParts
          <6>2. W.root = With(context.root, n[1], [p \in Pages |-> loc[<<n[1], p>>]])
            BY <1>1, <5>1, WithNodeFacts DEF W
          <6> QED BY Zenon, <4>1, <6>1, <6>2 DEF With
        <5>2. CASE n[2] # Root
          BY Zenon, <1>1, <4>1, <5>2, WithNodeFacts DEF W
        <5> QED BY Zenon, <5>1, <5>2
      <4> QED BY Zenon, <3>2, <4>1, <4>2 DEF Holds
    <3>3. CASE m[2] # Root
      <4>1. m \in DOMAIN context.leaf /\ context.leaf[m] = mem[m]
        BY Zenon, <3>1, <3>3 DEF Holds
      <4>2. \/ W.leaf = With(context.leaf, n, mem[n])
            \/ W.leaf = context.leaf
        BY Zenon, <1>1, WithNodeFacts DEF W
      <4>3. m \in DOMAIN W.leaf /\ W.leaf[m] = mem[m]
        BY Zenon, <2>2, <4>1, <4>2 DEF With
      <4> QED BY Zenon, <3>3, <4>3 DEF Holds
    <3> QED BY Zenon, <3>2, <3>3
  <2> QED BY Zenon, <2>1, <2>2
<1> QED BY Zenon, <1>7, <1>8 DEF W, c

\* Every clean node is in a complete object or in the one under construction.
LEMMA PutNodeWrites ==
    ASSUME IInv, NEW n \in Node, PutNode(n), NEW m \in Node, loc'[m] # 0
    PROVE  InSwift(m, loc, mem)' \/ InContext(m)'
<1> DEFINE c == context.number
           W == WithNode(n)
<1>1. TypeInv /\ MemoryInv
  BY Zenon DEF IInv
<1>2. up /\ mem' = mem
  BY Zenon DEF PutNode
<1>3. /\ loc'[m] = IF m = n THEN c ELSE loc[m]
      /\ \/ objects' = Complete(W, NoTrailer)
         \/ objects' = objects /\ context' = W
  BY Zenon, PutNodeFacts
<1>4. W.number = c
  BY Zenon, <1>1, WithNodeFacts
<1>5. Kept
  BY Zenon, PutNodeFacts
<1>6. loc'[m] = c => Holds(W, m, loc', mem)
  BY Zenon, PutNodeHolds
<1>7. loc'[m] # 0 /\ m[2] = Root =>
        [p \in Pages |-> loc'[<<m[1], p>>]] = [p \in Pages |-> loc[<<m[1], p>>]]
  BY Zenon, PutNodeHolds
<1> HIDE DEF W, c
<1>8. CASE loc'[m] = c
  <2>1. Holds(W, m, loc', mem)
    BY Zenon, <1>6, <1>8
  <2>2. CASE objects' = objects /\ context' = W
    BY SMTT(30), <1>2, <1>4, <1>8, <2>1, <2>2 DEF InContext
  <2>3. CASE objects' = Complete(W, NoTrailer)
    <3>1. /\ c \in DOMAIN objects'
          /\ objects'[c] = [leaf |-> W.leaf, root |-> W.root, trailer |-> NoTrailer]
      BY Zenon, <1>4, <2>3 DEF Complete, With
    <3>2. Holds(objects'[c], m, loc', mem)
      BY <2>1, <3>1 DEF Holds
    <3> QED BY Zenon, <1>2, <1>8, <3>1, <3>2 DEF InSwift
  <2> QED BY Zenon, <1>3, <2>2, <2>3
<1>9. CASE loc'[m] # c
  <2>1. loc'[m] = loc[m] /\ InSwift(m, loc, mem) /\ loc[m] \notin deletes
    BY Zenon, <1>1, <1>2, <1>3, <1>9 DEF MemoryInv, InContext, c
  <2>2. Holds(objects[loc[m]], m, loc', mem)
    BY Zenon, <1>7, <2>1 DEF InSwift, Holds
  <2> QED BY SMTT(30), <1>2, <1>5, <2>1, <2>2 DEF InSwift, Kept
<1> QED BY Zenon, <1>8, <1>9

\* The layout of the node's tree counts it.
LEMMA PutNodeCounts ==
    ASSUME IInv, NEW n \in Node, PutNode(n)
    PROVE  Exact(layout, loc, stale)'
<1> DEFINE c == context.number
<1>1. MemoryInv
  BY Zenon DEF IInv
<1>2. /\ up /\ stale' = stale /\ issued' = issued
      /\ layout' = [layout EXCEPT ![n[1]] = AddTo(layout[n[1]], c)]
  BY Zenon DEF PutNode, nonceVars
<1>4. /\ c \in issued /\ c \in 1..MaxNonce /\ c # 0 /\ loc[n] = 0 /\ n[1] \in Trees
      /\ \A m \in Node : loc'[m] = IF m = n THEN c ELSE loc[m]
  BY SMTT(30), PutNodeFacts
<1> HIDE DEF c
<1>5. /\ DOMAIN layout = Trees
      /\ \A t \in Trees : /\ DOMAIN layout[t] \subseteq issued
                          /\ \A o \in 1..MaxNonce : Count(layout, t, o) =
                               Cardinality(Used(loc, stale, t, o))
  BY SMTT(30), <1>1, <1>2 DEF MemoryInv, Exact
<1>6. DOMAIN layout' = Trees /\ layout'[n[1]] = AddTo(layout[n[1]], c)
  BY Zenon, <1>2, <1>4, <1>5
<1>7. \A t \in Trees : t # n[1] => layout'[t] = layout[t]
  BY Zenon, <1>2, <1>5
<1>8. \A t \in Trees : DOMAIN layout'[t] \subseteq issued
  BY Zenon, <1>4, <1>5, <1>6, <1>7 DEF AddTo, With
<1>9. ASSUME NEW t \in Trees, NEW o \in 1..MaxNonce, t # n[1] \/ o # c
      PROVE  Count(layout', t, o) = Cardinality(Used(loc', stale', t, o))
  <2>1. Used(loc', stale', t, o) = Used(loc, stale, t, o)
    BY <1>2, <1>4, <1>9 DEF Used
  <2>2. Count(layout', t, o) = Count(layout, t, o)
    BY ZenonT(60), <1>6, <1>7, <1>9 DEF Count, AddTo, With
  <2> QED BY Zenon, <1>5, <2>1, <2>2
<1>10. Count(layout', n[1], c) = Cardinality(Used(loc', stale', n[1], c))
  <2>1. <<n, c>> \notin stale
    BY Zenon, <1>1, <1>2 DEF MemoryInv, c
  <2>2. /\ n \notin Used(loc, stale, n[1], c)
        /\ Used(loc', stale', n[1], c) = Used(loc, stale, n[1], c) \cup {n}
    BY Zenon, <1>2, <1>4, <2>1 DEF Used
  <2>3. Cardinality(Used(loc', stale', n[1], c)) = Cardinality(Used(loc, stale, n[1], c)) + 1
    BY Zenon, <2>2, UsedFinite, FS_AddElement
  <2>4. Count(layout', n[1], c) = Count(layout, n[1], c) + 1
    BY Zenon, <1>6 DEF Count, AddTo, With
  <2> QED BY SMTT(30), <1>4, <1>5, <2>3, <2>4
<1>11. \A t \in Trees, o \in 1..MaxNonce :
        Count(layout', t, o) = Cardinality(Used(loc', stale', t, o))
  BY Zenon, <1>9, <1>10
<1> QED BY Zenon, <1>2, <1>6, <1>8, <1>11 DEF Exact

\* A root is added after the nodes below it.
LEMMA PutNodeOrder ==
    ASSUME IInv, NEW n \in Node, PutNode(n), NEW t \in Trees, NEW p \in Pages,
           loc'[<<t, Root>>] # 0
    PROVE  loc'[<<t, p>>] # 0
<1>1. MemoryInv
  BY Zenon DEF IInv
<1>2. up /\ Postable(n)
  BY Zenon DEF PutNode
<1>3. <<t, p>> \in Node /\ <<t, Root>> \in Node
  BY Zenon, NodeParts
<1>4. /\ context.number # 0
      /\ \A m \in Node : loc'[m] = IF m = n THEN context.number ELSE loc[m]
  BY Zenon, PutNodeFacts
<1>5. loc[<<t, p>>] # 0
  BY SMTT(30), <1>1, <1>2, <1>3, <1>4 DEF MemoryInv, Postable
<1> QED BY Zenon, <1>3, <1>4, <1>5

\* The checkpoint goes on with the nodes that are still to be flushed.
LEMMA PutNodePhase ==
    ASSUME IInv, NEW n \in Node, PutNode(n)
    PROVE  PhaseInv'
<1> DEFINE c == context.number
<1>1. TypeInv /\ DurableInv /\ MemoryInv /\ PhaseInv
  BY Zenon DEF IInv
<1>2. /\ up /\ pc = "flush" /\ flushed' = TRUE /\ todo' = todo \ {n}
      /\ layout' = [layout EXCEPT ![n[1]] = AddTo(layout[n[1]], c)]
      /\ UNCHANGED <<header, up, mem, stale, hdrObject, issued, pc, deletes, promised>>
  BY Zenon DEF PutNode, nonceVars
<1>3. InFlush /\ ObjectUsed /\ c = hdrObject /\ c \notin DOMAIN objects
  BY Zenon, PutNodeFacts
<1>4. /\ c # 0 /\ loc[n] = 0
      /\ \A m \in Node : loc'[m] = IF m = n THEN c ELSE loc[m]
  BY Zenon, PutNodeFacts
<1>5. Kept
  BY Zenon, PutNodeFacts
<1>6. DurableInv' /\ DurableLoc' = DurableLoc /\ DurableRecs' = DurableRecs
  BY SMTT(30), <1>1, <1>2, <1>5, DurableStays
<1>7. \/ context' = NoContext
      \/ objects' = objects /\ context'.number = c /\ context' # NoContext
  <2>1. WithNode(n).number = c
    BY Zenon, <1>1, WithNodeFacts
  <2> QED BY Zenon, <1>4, <2>1, PutNodeFacts DEF NoContext
<1> HIDE DEF c
<1>8. ObjectUsed'
  <2> SUFFICES ASSUME NEW t \in Trees, hdrObject \in DOMAIN layout'[t]
               PROVE  \E m \in Node : m[1] = t /\ loc'[m] = hdrObject
    BY Zenon, <1>2 DEF ObjectUsed
  <2>1. CASE t = n[1]
    BY Zenon, <1>3, <1>4, <2>1
  <2>2. CASE t # n[1]
    <3>1. layout'[t] = layout[t]
      BY Zenon, <1>1, <1>2, <2>2 DEF MemoryInv, Exact
    <3>2. PICK m \in Node : m[1] = t /\ loc[m] = hdrObject
      BY Zenon, <1>3, <3>1 DEF ObjectUsed
    <3> QED BY SMTT(30), <1>3, <1>4, <3>2
  <2> QED BY Zenon, <2>1, <2>2
<1>9. InFlush'
  BY Zenon, <1>2, <1>3, <1>4, <1>6 DEF InFlush, DurableCounted
<1>10. context' # NoContext => objects' = objects /\ context'.number = c
  BY Zenon, <1>7
<1> QED BY Zenon, <1>1, <1>2, <1>3, <1>6, <1>8, <1>9, <1>10 DEF PhaseInv

\* PutNode() preserves the invariant and the durable records.
LEMMA PutNodeKeeps ==
    ASSUME IInv, NEW n \in Node, PutNode(n)
    PROVE  Inv' /\ DurableRecs' = DurableRecs
<1> DEFINE c == context.number
<1>1. TypeInv /\ DurableInv /\ MemoryInv /\ PhaseInv
  BY DEF IInv
<1>2. /\ up
      /\ UNCHANGED <<header, up, mem, stale, hdrObject, issued, pc, deletes, promised>>
  BY Zenon DEF PutNode, nonceVars
<1>3. c = hdrObject
  BY Zenon, PutNodeFacts
<1>4. /\ c # 0 /\ loc[n] = 0
      /\ \A m \in Node : loc'[m] = IF m = n THEN c ELSE loc[m]
  BY PutNodeFacts
<1>5. Kept
  BY PutNodeFacts
<1>6. DurableInv' /\ DurableLoc' = DurableLoc /\ DurableRecs' = DurableRecs
  BY Zenon, <1>1, <1>2, <1>5, DurableStays
<1>7. \/ context' = NoContext
      \/ objects' = objects /\ context'.number = c /\ context' # NoContext
  <2>1. WithNode(n).number = c
    BY Zenon, <1>1, WithNodeFacts
  <2> QED BY <1>4, <2>1, PutNodeFacts DEF NoContext
<1>8. \A m \in Node : loc'[m] # 0 => InSwift(m, loc, mem)' \/ InContext(m)'
  BY Zenon, PutNodeWrites
<1>10. Exact(layout, loc, stale)'
  BY Zenon, PutNodeCounts
<1> HIDE DEF c
<1>11. \A s \in stale : loc'[s[1]] # s[2] /\ s[2] # context'.number
  <2>1. context'.number \in {c, 0}
    BY <1>7 DEF NoContext
  <2> QED BY <1>1, <1>2, <1>4, <2>1 DEF MemoryInv, TypeInv, c
<1>12. \A t \in Trees, p \in Pages : loc'[<<t, Root>>] # 0 => loc'[<<t, p>>] # 0
  BY Zenon, PutNodeOrder
<1>13. MemoryInv'
  <2>1. hdrObject \notin deletes /\ \A m \in Node : loc[m] \notin deletes
    BY Zenon, <1>1, <1>2 DEF MemoryInv
  <2>2. \A m \in Node : loc'[m] \notin deletes
    BY Zenon, <1>3, <1>4, <2>1
  <2> QED BY Zenon, <1>2, <1>8, <1>10, <1>11, <1>12, <2>1, <2>2 DEF MemoryInv
<1>14. PhaseInv'
  BY Zenon, PutNodePhase
<1> QED BY Zenon, <1>6, <1>13, <1>14 DEF Inv

-----------------------------------------------------------------------------
(***************************************************************************)
(* The steps that end a checkpoint preserve the inductive invariant:       *)
(* Prune(), the trailer, the header and the collection of objects.         *)
(***************************************************************************)
\* What is in use and what is stale are counted apart, each node once.
LEMMA UsedSplit ==
    ASSUME TypeInv, \A s \in stale : loc[s[1]] # s[2], NEW t \in Trees, NEW o
    PROVE  Cardinality(Used(loc, stale, t, o)) =
             Cardinality(Used(loc, {}, t, o)) + Cardinality(InObject(t, o))
<1> DEFINE A == Used(loc, {}, t, o)
           B == {n \in Node : n[1] = t /\ <<n, o>> \in stale}
           f == [n \in B |-> <<n, o>>]
<1>1. IsFiniteSet(A) /\ Cardinality(A) \in Nat
  BY Zenon, UsedFinite
<1>2. IsFiniteSet(B)
  BY Zenon, NodeFinite, FS_Subset
<1>3. Cardinality(B) \in Nat
  BY Zenon, <1>2, FS_CardinalityType
<1>4. Used(loc, stale, t, o) = A \cup B
  BY Zenon DEF Used
<1>5. A \cap B = {}
  BY Zenon DEF Used
<1>6. \A s \in InObject(t, o) : s[1] \in B /\ s = <<s[1], o>>
  BY DEF InObject, TypeInv
<1>7. \A n \in B : <<n, o>> \in InObject(t, o)
  BY Zenon DEF InObject
<1>8. f \in Bijection(B, InObject(t, o))
  <2>1. f \in [B -> InObject(t, o)]
    BY Zenon, <1>7
  <2>2. f \in Injection(B, InObject(t, o))
    BY Zenon, <2>1 DEF Injection, IsInjective
  <2>3. f \in Surjection(B, InObject(t, o))
    BY Zenon, <1>6, <2>1 DEF Surjection
  <2> QED BY Zenon, <2>2, <2>3 DEF Bijection
<1> HIDE DEF A, B, f
<1>9. Cardinality(InObject(t, o)) = Cardinality(B)
  BY Zenon, <1>2, <1>8, FS_Bijection DEF ExistsBijection
<1>10. Cardinality(A \cup B) = Cardinality(A) + Cardinality(B) - Cardinality(A \cap B)
  BY Zenon, <1>1, <1>2, FS_Union
<1>11. Cardinality(A \cap B) = 0
  BY Zenon, <1>5, FS_EmptySet
<1>12. Cardinality(A \cup B) = Cardinality(A) + Cardinality(B)
  BY <1>1, <1>3, <1>10, <1>11
<1> QED BY Zenon, <1>4, <1>9, <1>12 DEF A

\* If every node is clean where it is durable, nothing is left to be written.
LEMMA CleanIsDurable ==
    ASSUME TypeInv, AllClean, CleanDurable, \A n \in Node : InSwift(n, loc, mem)
    PROVE  DurableRecs = mem
<1>1. \A k \in Keys : /\ DurableLoc[k] = loc[k] /\ loc[k] # 0
                      /\ objects[loc[k]].leaf[k] = mem[k]
  BY Zenon, NodeParts DEF AllClean, CleanDurable, InSwift, Holds
<1> QED BY Zenon, <1>1 DEF DurableRecs, TypeInv

\* The flush ends when no node is dirty; the stale places leave the layouts.
LEMMA PruneKeeps ==
    ASSUME IInv, Prune
    PROVE  Inv' /\ DurableRecs' = DurableRecs
<1>1. TypeInv /\ DurableInv /\ MemoryInv /\ PhaseInv
  BY DEF IInv
<1>2. /\ up /\ pc = "flush" /\ todo = {}
      /\ UNCHANGED <<header, objects, up, mem, loc, hdrObject, issued, context, deletes>>
  BY Zenon DEF Prune, swiftVars, nonceVars
<1>3. InFlush /\ AllClean
  BY Zenon, <1>1, <1>2 DEF PhaseInv, InFlush, AllClean
<1>4. Kept
  BY Zenon, <1>2 DEF Kept
<1>5. DurableInv' /\ DurableLoc' = DurableLoc /\ DurableRecs' = DurableRecs
  BY Zenon, <1>1, <1>2, <1>4, DurableStays
<1>6. CASE flushed
  <2>1. /\ pc' = "trailer" /\ stale' = {} /\ promised' = promised
        /\ layout' = [t \in Trees |-> [o \in DOMAIN layout[t] |->
                         layout[t][o] - Cardinality(InObject(t, o))]]
    BY Zenon, <1>6 DEF Prune
  <2>2. Exact(layout, loc, stale)'
    <3>1. \A t \in Trees : /\ DOMAIN layout[t] \subseteq issued
                           /\ \A o \in 1..MaxNonce :
                                Count(layout, t, o) = Cardinality(Used(loc, stale, t, o))
      BY Zenon, <1>1, <1>2 DEF MemoryInv, Exact
    <3>2. ASSUME NEW t \in Trees, NEW o \in 1..MaxNonce
          PROVE  Count(layout', t, o) = Cardinality(Used(loc, {}, t, o))
      <4>1. Cardinality(Used(loc, stale, t, o)) =
              Cardinality(Used(loc, {}, t, o)) + Cardinality(InObject(t, o))
        BY Zenon, <1>1, <1>2, UsedSplit DEF MemoryInv
      <4>2. Cardinality(Used(loc, {}, t, o)) \in Nat
        BY Zenon, UsedFinite
      <4>3. Cardinality(InObject(t, o)) \in Nat
        <5>1. IsFiniteSet(Node \X {o})
          BY Zenon, NodeFinite, FS_Singleton, FS_Product
        <5>2. InObject(t, o) \subseteq Node \X {o}
          BY Zenon, <1>1 DEF InObject, TypeInv
        <5> QED BY Zenon, <5>1, <5>2, FS_Subset, FS_CardinalityType
      <4>4. CASE o \in DOMAIN layout[t]
        <5>1. Count(layout', t, o) = layout[t][o] - Cardinality(InObject(t, o))
          BY Zenon, <2>1, <4>4 DEF Count
        <5>2. layout[t][o] = Cardinality(Used(loc, stale, t, o))
          BY Zenon, <3>1, <4>4 DEF Count
        <5> QED BY <4>1, <4>2, <4>3, <5>1, <5>2
      <4>5. CASE o \notin DOMAIN layout[t]
        <5>1. Count(layout', t, o) = 0
          BY Zenon, <2>1, <4>5 DEF Count
        <5>2. Cardinality(Used(loc, stale, t, o)) = 0
          BY Zenon, <3>1, <4>5 DEF Count
        <5> QED BY <4>1, <4>2, <4>3, <5>1, <5>2
      <4> QED BY Zenon, <4>4, <4>5
    <3>3. DOMAIN layout' = Trees /\ \A t \in Trees : DOMAIN layout'[t] \subseteq issued
      BY Zenon, <2>1, <3>1
    <3> QED BY Zenon, <1>2, <2>1, <3>2, <3>3 DEF Exact
  <2>3. MemoryInv'
    <3>1. \A n \in Node : loc[n] # 0 => InSwift(n, loc, mem)' \/ InContext(n)'
      BY Zenon, <1>1, <1>2, <1>4, CleanKept DEF MemoryInv, InContext
    <3> QED BY Zenon, <1>1, <1>2, <2>1, <2>2, <3>1 DEF MemoryInv
  <2>4. ObjectUsed => ObjectUsed'
    BY Zenon, <1>2, <2>1 DEF ObjectUsed
  <2>5. PhaseInv'
    BY Zenon, <1>1, <1>2, <1>3, <1>5, <2>1, <2>4 DEF PhaseInv, AllClean
  <2> QED BY <1>5, <2>3, <2>5 DEF Inv
<1>7. CASE ~flushed
  <2>1. /\ pc' = "idle" /\ promised' = mem /\ UNCHANGED <<layout, stale>>
    BY Zenon, <1>7 DEF Prune, Done
  <2>2. CleanDurable /\ DurableCounted /\ context = NoContext /\ hdrObject = header.number
    BY Zenon, <1>2, <1>3, <1>7 DEF InFlush
  <2>3. \A n \in Node : InSwift(n, loc, mem)
    BY Zenon, <1>1, <1>2, <1>3, <2>2 DEF MemoryInv, AllClean, InContext, NoContext
  <2>4. DurableRecs = mem
    BY Zenon, <1>1, <1>3, <2>2, <2>3, CleanIsDurable
  <2>5. MemoryInv'
    BY Zenon, <1>1, <1>2, <1>4, <2>1, MemoryStays
  <2>6. InIdle'
    BY Zenon, <1>2, <1>5, <2>1, <2>2 DEF InIdle, CleanDurable, DurableCounted
  <2>7. PhaseInv'
    BY SMTT(30), <1>2, <1>5, <2>1, <2>2, <2>4, <2>6 DEF PhaseInv
  <2> QED BY <1>5, <2>5, <2>7 DEF Inv
<1> QED BY Zenon, <1>1, <1>6, <1>7 DEF TypeInv

\* The trailer closes the object with the locations of the roots and the layouts.
LEMMA WriteTrailerKeeps ==
    ASSUME IInv, WriteTrailer
    PROVE  Inv' /\ DurableRecs' = DurableRecs
<1> DEFINE c == context.number
<1>1. TypeInv /\ DurableInv /\ MemoryInv /\ PhaseInv
  BY DEF IInv
<1>2. /\ up /\ pc = "trailer" /\ pc' = "post" /\ context # NoContext /\ context' = NoContext
      /\ objects' = With(objects, c, [leaf |-> context.leaf, root |-> context.root,
                                      trailer |-> NewTrailer])
      /\ UNCHANGED <<header, up, mem, loc, stale, layout, hdrObject, issued, deletes,
                     promised>>
  BY Zenon DEF WriteTrailer, Complete, NewTrailer, treeVars, nonceVars
<1>3. /\ ObjectUsed /\ c = hdrObject /\ c \notin DOMAIN objects /\ stale = {} /\ AllClean
  BY Zenon, <1>1, <1>2 DEF PhaseInv
<1>4. /\ c \in DOMAIN objects' /\ objects'[c].leaf = context.leaf
      /\ objects'[c].root = context.root /\ objects'[c].trailer = NewTrailer
  BY Zenon, <1>2 DEF With
<1>5. Kept
  BY Zenon, <1>2, <1>3 DEF Kept, With
<1>6. DurableInv' /\ DurableLoc' = DurableLoc /\ DurableRecs' = DurableRecs
  BY Zenon, <1>1, <1>2, <1>5, DurableStays
<1>7. ASSUME NEW n \in Node, loc[n] # 0 PROVE InSwift(n, loc, mem)'
  <2>1. CASE InSwift(n, loc, mem)
    BY SMTT(30), <1>1, <1>2, <1>5, <2>1, CleanKept DEF MemoryInv
  <2>2. CASE InContext(n)
    BY Zenon, <1>2, <1>4, <2>2 DEF InContext, InSwift, Holds
  <2> QED BY ZenonT(60), <1>1, <1>2, <1>7, <2>1, <2>2 DEF MemoryInv
<1>8. Exact(layout, loc, stale)'
  BY SMTT(30), <1>1, <1>2 DEF MemoryInv, Exact
<1>9. MemoryInv'
  BY Zenon, <1>1, <1>2, <1>3, <1>7, <1>8 DEF MemoryInv
<1>10. ObjectUsed' /\ AllClean' /\ NewTrailer' = NewTrailer
  BY Zenon, <1>2, <1>3 DEF ObjectUsed, AllClean, NewTrailer
<1>11. InPost'
  BY Zenon, <1>2, <1>3, <1>4, <1>10 DEF InPost
<1>12. PhaseInv'
  BY Zenon, <1>1, <1>2, <1>3, <1>6, <1>10, <1>11 DEF PhaseInv
<1> QED BY <1>6, <1>9, <1>12 DEF Inv

\* The header makes durable exactly what was flushed.
LEMMA PostHeaderKeeps ==
    ASSUME IInv, PostHeader
    PROVE  Inv' /\ DurableRecs' = mem
<1>1. NonceInv /\ TypeInv /\ DurableInv /\ MemoryInv /\ PhaseInv
  BY DEF IInv
<1>2. /\ up /\ pc = "post" /\ pc' = "collect"
      /\ header' = [number |-> hdrObject, reserved |-> reserved]
      /\ UNCHANGED <<objects, up, mem, loc, stale, layout, hdrObject, issued, context,
                     deletes, promised>>
  BY Zenon DEF PostHeader, treeVars, nonceVars
<1>3. /\ ObjectUsed /\ hdrObject \in DOMAIN objects
      /\ objects[hdrObject].trailer = NewTrailer
      /\ stale = {} /\ AllClean /\ context = NoContext
  BY Zenon, <1>1, <1>2 DEF PhaseInv, InPost
<1>4. header'.number = hdrObject /\ hdrObject # 0
  BY <1>1, <1>2, <1>3 DEF TypeInv
<1>5. \A n \in Node : InSwift(n, loc, mem) /\ loc[n] # 0
  BY Zenon, <1>1, <1>2, <1>3 DEF MemoryInv, AllClean, InContext, NoContext
<1>6. \A t \in Trees : RootAt(t)' = loc[<<t, Root>>]
  BY <1>2, <1>3, <1>4 DEF RootAt, NewTrailer
<1>7. \A t \in Trees, p \in Pages :
        objects[loc[<<t, Root>>]].root[t][p] = loc[<<t, p>>]
  <2> SUFFICES ASSUME NEW t \in Trees, NEW p \in Pages
               PROVE  objects[loc[<<t, Root>>]].root[t][p] = loc[<<t, p>>]
    BY Zenon
  <2>1. InSwift(<<t, Root>>, loc, mem)
    BY Zenon, <1>5, NodeParts
  <2>2. objects[loc[<<t, Root>>]].root[t] = [q \in Pages |-> loc[<<t, q>>]]
    BY Zenon, <2>1 DEF InSwift, Holds
  <2> QED BY Zenon, <2>2
<1>8. DurableLoc' = loc
  <2>1. \A n \in Node :
          loc[n] = IF header'.number = 0 \/ RootAt(n[1])' = 0 THEN 0
                   ELSE IF n[2] = Root THEN RootAt(n[1])'
                   ELSE objects'[RootAt(n[1])'].root[n[1]][n[2]]
    <3> TAKE n \in Node
    <3>1. n[1] \in Trees /\ n = <<n[1], n[2]>> /\ (n[2] # Root => n[2] \in Pages)
      BY Zenon, NodeParts
    <3>2. RootAt(n[1])' = loc[<<n[1], Root>>] /\ loc[<<n[1], Root>>] # 0
      BY Zenon, <1>5, <1>6, <3>1, NodeParts
    <3> QED BY Zenon, <1>2, <1>4, <1>7, <3>1, <3>2
  <2> QED BY Zenon, <1>1, <2>1 DEF DurableLoc, TypeInv
<1>9. DurableRecs' = mem
  <2>1. \A k \in Keys : objects[loc[k]].leaf[k] = mem[k] /\ loc[k] # 0
    BY Zenon, <1>5, NodeParts DEF InSwift, Holds
  <2> QED BY Zenon, <1>1, <1>2, <1>8, <2>1 DEF DurableRecs, TypeInv
<1>10. DurableInv'
  <2>1. Trailer' = NewTrailer
    BY Zenon, <1>2, <1>3, <1>4 DEF Trailer
  <2>2. NewTrailer # NoTrailer
    <3>1. 1 \in Trees
      BY NodeAssumption DEF Trees
    <3>2. 1 \in DOMAIN NewTrailer.root
      BY Zenon, <3>1 DEF NewTrailer
    <3>3. 1 \notin DOMAIN NoTrailer.root
      BY DEF NoTrailer
    <3> QED BY Zenon, <3>2, <3>3
  <2>3. Exact(Trailer.layout, DurableLoc, {})'
    BY Zenon, <1>1, <1>2, <1>3, <1>8, <2>1 DEF MemoryInv, Exact, NewTrailer
  <2>4. \A n \in Node : InSwift(n, DurableLoc, DurableRecs)'
    BY Zenon, <1>2, <1>5, <1>8, <1>9 DEF InSwift
  <2>5. \A n \in Node : DurableLoc'[n] \notin deletes'
    BY Zenon, <1>1, <1>2, <1>8 DEF MemoryInv
  <2>6. header'.number \in DOMAIN objects' \ deletes'
    BY Zenon, <1>1, <1>2, <1>3, <1>4 DEF MemoryInv
  <2>7. DurableRecs' \in [Keys -> Values \cup {NoValue}]
    BY Zenon, <1>1, <1>9 DEF TypeInv
  <2> QED BY Zenon, <2>1, <2>2, <2>3, <2>4, <2>5, <2>6, <2>7 DEF DurableInv
<1>11. Kept
  BY Zenon, <1>2 DEF Kept
<1>12. MemoryInv'
  BY Zenon, <1>1, <1>2, <1>11, MemoryStays
<1>13. InCollect' /\ AllClean'
  BY Zenon, <1>2, <1>3, <1>4, <1>8, <1>9 DEF InCollect, ObjectUsed, AllClean
<1>14. PhaseInv'
  BY Zenon, <1>2, <1>3, <1>13 DEF PhaseInv
<1> QED BY Zenon, <1>9, <1>10, <1>12, <1>14 DEF Inv

\* The objects whose count is zero are queued for deletion; none is durable.
LEMMA CollectKeeps ==
    ASSUME IInv, Collect
    PROVE  Inv' /\ DurableRecs' = DurableRecs
<1> DEFINE dead == {o \in UNION {DOMAIN layout[t] : t \in Trees} : ~InUse(o)}
<1>1. TypeInv /\ DurableInv /\ MemoryInv /\ PhaseInv
  BY DEF IInv
<1>2. /\ up /\ pc = "collect" /\ pc' = "idle" /\ promised' = mem
      /\ layout' = [t \in Trees |-> Restrict(layout[t], DOMAIN layout[t] \ dead)]
      /\ deletes' = deletes \cup dead
      /\ UNCHANGED <<header, objects, up, mem, loc, stale, hdrObject, issued, context>>
  BY Zenon DEF Collect, Done, swiftVars, nonceVars
<1>3. /\ ObjectUsed /\ hdrObject = header.number /\ header.number # 0
      /\ DurableLoc = loc /\ DurableRecs = mem /\ stale = {} /\ AllClean
      /\ context = NoContext
  BY Zenon, <1>1, <1>2 DEF PhaseInv, InCollect
<1>4. /\ DOMAIN layout = Trees
      /\ \A t \in Trees : /\ DOMAIN layout[t] \subseteq issued
                          /\ \A o \in 1..MaxNonce :
                               Count(layout, t, o) = Cardinality(Used(loc, stale, t, o))
  BY Zenon, <1>1, <1>2 DEF MemoryInv, Exact
<1>5. \A n \in Node : InUse(loc[n])
  <2> SUFFICES ASSUME NEW n \in Node PROVE InUse(loc[n])
    BY Zenon
  <2>1. n[1] \in Trees /\ loc[n] \in 1..MaxNonce
    BY Zenon, <1>1, <1>3, NodeParts DEF AllClean, TypeInv
  <2>2. Used(loc, stale, n[1], loc[n]) # {}
    BY Zenon DEF Used
  <2>3. Count(layout, n[1], loc[n]) # 0
    BY Zenon, <1>4, <2>1, <2>2, UsedFinite
  <2> QED BY Zenon, <2>1, <2>3 DEF Count, InUse
<1>6. \A n \in Node : loc[n] \notin dead
  BY Zenon, <1>5
<1>7. hdrObject \notin dead
  <2> SUFFICES ASSUME hdrObject \in dead PROVE FALSE
    BY Zenon
  <2>1. PICK t \in Trees : hdrObject \in DOMAIN layout[t]
    BY Zenon
  <2>2. PICK n \in Node : loc[n] = hdrObject
    BY Zenon, <1>3, <2>1 DEF ObjectUsed
  <2> QED BY Zenon, <1>6, <2>2
<1>8. Kept
  BY Zenon, <1>2 DEF Kept
<1>9. DurableLoc' = DurableLoc /\ DurableRecs' = DurableRecs
  BY Zenon, <1>1, <1>2, <1>8, DurableKept
<1>10. \A t \in Trees : /\ DOMAIN layout'[t] = DOMAIN layout[t] \ dead
                        /\ \A o : Count(layout', t, o) = Count(layout, t, o)
  <2> SUFFICES ASSUME NEW t \in Trees
               PROVE  /\ DOMAIN layout'[t] = DOMAIN layout[t] \ dead
                      /\ \A o : Count(layout', t, o) = Count(layout, t, o)
    BY Zenon
  <2>1. \A o \in dead : o \in DOMAIN layout[t] => layout[t][o] = 0
    BY Zenon DEF InUse
  <2>2. layout'[t] = Restrict(layout[t], DOMAIN layout[t] \ dead)
    BY Zenon, <1>2
  <2> HIDE DEF dead
  <2> QED BY Zenon, <2>1, <2>2 DEF Restrict, Count
<1> HIDE DEF dead
<1>11. DurableInv'
  <2>1. /\ header.number \in DOMAIN objects \ deletes /\ Trailer # NoTrailer
        /\ \A n \in Node : InSwift(n, DurableLoc, DurableRecs) /\ DurableLoc[n] \notin deletes
        /\ Exact(Trailer.layout, DurableLoc, {})
        /\ DurableRecs \in [Keys -> Values \cup {NoValue}]
    BY ZenonT(60), <1>1, <1>3 DEF DurableInv
  <2>2. /\ header'.number \in DOMAIN objects' \ deletes' /\ Trailer' # NoTrailer
        /\ \A n \in Node : InSwift(n, DurableLoc, DurableRecs)'
    BY SMTT(30), <1>2, <1>3, <1>7, <1>9, <2>1 DEF Trailer, InSwift
  <2>3. \A n \in Node : DurableLoc'[n] \notin deletes'
    BY SMTT(30), <1>2, <1>3, <1>6, <1>9, <2>1
  <2>4. Exact(Trailer.layout, DurableLoc, {})'
    BY SMTT(30), <1>2, <1>9, <2>1 DEF Exact, Trailer
  <2> QED BY Zenon, <1>9, <2>1, <2>2, <2>3, <2>4 DEF DurableInv
<1>12. MemoryInv'
  <2>1. Exact(layout, loc, stale)'
    <3>1. loc' = loc /\ stale' = stale /\ issued' = issued /\ DOMAIN layout' = Trees
      BY Zenon, <1>2
    <3>2. \A t \in Trees, o \in 1..MaxNonce :
            Count(layout', t, o) = Cardinality(Used(loc', stale', t, o))
      BY Zenon, <1>4, <1>10, <3>1
    <3>3. \A t \in Trees : DOMAIN layout'[t] \subseteq issued'
      BY Zenon, <1>4, <1>10, <3>1
    <3> QED BY Zenon, <3>1, <3>2, <3>3 DEF Exact
  <2>2. \A n \in Node : loc[n] # 0 => InSwift(n, loc, mem)' \/ InContext(n)'
    BY SMTT(30), <1>1, <1>2, <1>8, CleanKept DEF MemoryInv, InContext
  <2>3. hdrObject \notin deletes' /\ \A n \in Node : loc[n] \notin deletes'
    BY Zenon, <1>1, <1>2, <1>6, <1>7 DEF MemoryInv
  <2> QED BY Zenon, <1>1, <1>2, <2>1, <2>2, <2>3 DEF MemoryInv
<1>13. InIdle'
  BY Zenon, <1>2, <1>3, <1>9 DEF InIdle, CleanDurable, DurableCounted
<1>14. PhaseInv'
  BY Zenon, <1>2, <1>3, <1>9, <1>13 DEF PhaseInv
<1> QED BY Zenon, <1>9, <1>11, <1>12, <1>14 DEF Inv
-----------------------------------------------------------------------------
\* The invariant holds of a volume that was never mounted.
LEMMA InitIInv == Init => IInv
<1> SUFFICES ASSUME Init PROVE IInv
  BY Zenon
<1>1. NonceInv
  BY Zenon, InitNonceInv
<1>2. header.number = 0
  BY Zenon DEF Init
<1>3. TypeInv
  <2>1. DOMAIN objects = {}
    BY DEF Init
  <2>2. mem \in [Keys -> Values \cup {NoValue}] /\ loc \in [Node -> {0}]
    BY Zenon DEF Init, Empty, AllDirty
  <2>3. /\ context = [number |-> context.number, leaf |-> context.leaf,
                     root |-> context.root]
        /\ context = NoContext /\ context.number = 0
    BY Zenon DEF Init, NoContext
  <2>4. header \in [number : Nat, reserved : Nat] /\ header.reserved >= 1
    BY DEF Init, firstNonceToProvide
  <2> QED BY Zenon, <2>1, <2>2, <2>3, <2>4 DEF Init, TypeInv
<1>4. DurableInv
  BY Zenon, <1>2, NothingDurable DEF DurableInv, Empty
<1>5. MemoryInv /\ PhaseInv
  BY Zenon DEF Init, MemoryInv, PhaseInv
<1> QED BY Zenon, <1>1, <1>3, <1>4, <1>5 DEF IInv

\* What a step may do to the records, as DurableStore says.
StoreStep == Store!Next \/ UNCHANGED Store!vars

\* Every step preserves the invariant.
LEMMA NextIInv ==
    ASSUME IInv, NoFault, [Next]_vars, NoFault' PROVE IInv' /\ StoreStep
<1>1. NonceInv'
  BY Zenon, NextNonceInv DEF IInv
<1>2. TypeInv'
  BY Zenon, TypePreserved DEF NoFault
<1> DEFINE Same == Inv' /\ DurableRecs' = DurableRecs
           Goal == Inv' /\ StoreStep
           Quiet == UNCHANGED <<up, mem, waiting>>
<1> SUFFICES Goal
  BY Zenon, <1>1, <1>2 DEF Inv, IInv
<1>3. errors = 0 /\ errors' = 0 /\ PhaseInv
  BY Zenon DEF NoFault, IInv
<1>4. ASSUME Same, Quiet PROVE Goal
  BY Zenon, <1>4 DEF StoreStep, Store!vars
<1> HIDE DEF Quiet
<1>5. CASE Mount
  <2>1. Same
    BY Zenon, <1>5, MountKeeps
  <2>2. ~up /\ up' /\ mem' = DurableRecs /\ waiting' = waiting
    BY Zenon, <1>5 DEF Mount
  <2> QED BY Zenon, <2>1, <2>2 DEF StoreStep, Store!vars
<1>6. CASE Crash
  <2>1. Same
    BY <1>6, CrashKeeps
  <2>2. ~up' /\ waiting' = FALSE
    BY Zenon, <1>6 DEF Crash
  <2> QED BY Zenon, <2>1, <2>2 DEF StoreStep, Store!Next, Store!Crash
<1>7. ASSUME NEW S \in SUBSET Keys, NEW v \in Values \cup {NoValue}, Put(S, v) PROVE Goal
  <2>1. Same
    BY Zenon, <1>7, PutKeeps
  <2>2. up /\ up' /\ waiting' = waiting /\ mem' \in [Keys -> Values \cup {NoValue}]
    BY Zenon, <1>2, <1>7 DEF Put, TypeInv
  <2> QED BY Zenon, <2>1, <2>2 DEF StoreStep, Store!Next, Store!Put
<1>8. CASE FetchWaitGroup
  <2>1. UNCHANGED <<swiftVars, up, treeVars, nonceVars, ckptVars, deletes, promised>>
    BY Zenon, <1>8 DEF FetchWaitGroup
  <2>2. Same
    BY Zenon, <2>1, StutterKeeps
  <2>3. up /\ up' /\ waiting' = TRUE /\ mem' = mem
    BY Zenon, <1>8 DEF FetchWaitGroup, treeVars
  <2> QED BY Zenon, <2>2, <2>3 DEF StoreStep, Store!Next, Store!FetchWaitGroup
<1>9. CASE FetchNonce
  <2>1. Same
    BY <1>9, FetchNonceKeeps
  <2>2. Quiet
    BY Zenon, <1>9 DEF FetchNonce, treeVars, Quiet
  <2> QED BY Zenon, <1>4, <2>1, <2>2
<1>10. CASE BeginCheckpoint
  <2>1. Same
    BY <1>10, BeginCheckpointKeeps
  <2>2. Quiet
    BY Zenon, <1>10 DEF BeginCheckpoint, treeVars, Quiet
  <2> QED BY <1>4, <2>1, <2>2
<1>11. CASE OpenContext
  <2>1. Same
    BY Zenon, <1>11, OpenContextKeeps
  <2>2. Quiet
    BY Zenon, <1>11 DEF OpenContext, treeVars, Quiet
  <2> QED BY <1>4, <2>1, <2>2
<1>12. ASSUME NEW n \in Node, PutNode(n) PROVE Goal
  <2>1. Same
    BY Zenon, <1>12, PutNodeKeeps
  <2>2. Quiet
    BY Zenon, <1>12 DEF PutNode, Quiet
  <2> QED BY Zenon, <1>4, <2>1, <2>2
<1>13. ASSUME NEW n \in Node, PostNodeFails(n) PROVE Goal
  BY Zenon, <1>13, PostNodeSucceeds
<1>14. ASSUME NEW n \in Node, OpenFails(n) \/ FetchContextFails(n) \/ CloseFails(n)
       PROVE  Goal
  BY <1>3, <1>14 DEF OpenFails, FetchContextFails, CloseFails
<1>15. CASE Prune
  <2>1. Same
    BY <1>15, PruneKeeps
  <2>2. up /\ up' /\ mem' = mem
    BY Zenon, <1>15 DEF Prune
  <2>3. CASE waiting' = waiting
    BY Zenon, <1>4, <2>1, <2>2, <2>3 DEF Quiet
  <2>4. CASE waiting' # waiting
    <3>1. pc' = "idle" /\ waiting' = FALSE /\ promised' = mem
      BY Zenon, <1>15, <2>4 DEF Prune, Done
    <3>2. DurableRecs = mem
      BY Zenon, <2>1, <2>2, <3>1 DEF Inv, PhaseInv
    <3> QED BY Zenon, <2>1, <2>2, <3>1, <3>2 DEF StoreStep, Store!Next, Store!SignalWaitGroup
  <2> QED BY Zenon, <2>3, <2>4
<1>16. CASE WriteTrailer
  <2>1. Same
    BY <1>16, WriteTrailerKeeps
  <2>2. Quiet
    BY Zenon, <1>16 DEF WriteTrailer, treeVars, Quiet
  <2> QED BY <1>4, <2>1, <2>2
<1>17. CASE PostHeader
  <2>1. Inv' /\ DurableRecs' = mem
    BY Zenon, <1>17, PostHeaderKeeps
  <2>2. up /\ up' /\ mem' = mem /\ waiting' = waiting
    BY Zenon, <1>17 DEF PostHeader, treeVars
  <2> QED BY Zenon, <2>1, <2>2 DEF StoreStep, Store!Next, Store!Checkpoint
<1>18. CASE Collect
  <2>1. Same
    BY <1>18, CollectKeeps
  <2>2. /\ up /\ up' /\ mem' = mem /\ pc' = "idle"
        /\ waiting' = FALSE /\ promised' = mem
    BY Zenon, <1>18 DEF Collect, Done
  <2>3. DurableRecs = mem
    BY Zenon, <2>1, <2>2 DEF Inv, PhaseInv
  <2> QED BY Zenon, <2>1, <2>2, <2>3 DEF StoreStep, Store!Next, Store!SignalWaitGroup
<1>19. ASSUME NEW o, DeleteObject(o) PROVE Goal
  <2>1. Same
    BY Zenon, <1>19, DeleteObjectKeeps
  <2>2. Quiet
    BY Zenon, <1>19 DEF DeleteObject, treeVars, Quiet
  <2> QED BY <1>4, <2>1, <2>2
<1>20. CASE UNCHANGED vars
  <2>1. UNCHANGED <<swiftVars, up, treeVars, nonceVars, ckptVars, deletes, promised>>
    BY Zenon, <1>20 DEF vars
  <2>2. Same
    BY <2>1, StutterKeeps
  <2>3. Quiet
    BY Zenon, <1>20 DEF vars, treeVars, Quiet
  <2> QED BY <1>4, <2>2, <2>3
<1>21. \A t \in Trees, P \in SUBSET Pages : {t} \X P \in SUBSET Keys
  BY Zenon DEF Keys
<1> HIDE DEF Goal
<1> QED BY ZenonT(60), <1>5, <1>6, <1>7, <1>8, <1>9, <1>10, <1>11, <1>12, <1>13,
           <1>14, <1>15,
           <1>16, <1>17, <1>18, <1>19, <1>20, <1>21 DEF Next, CheckpointStep

\* The inductive invariant, as long as no fault of the kinds above happens.
THEOREM CheckpointInvariant == Spec /\ []NoFault => []IInv
BY InitIInv, NextIInv, PTL DEF Spec

\* Whenever the process dies, what getCheckpoint() needs is in Swift: the object
\* that the header names, its trailer and every node of the trees.
THEOREM VolumeMountable == Spec /\ []NoFault => []DurableReadable
<1>1. IInv => DurableReadable
  <2> SUFFICES ASSUME IInv, header.number # 0
               PROVE  /\ header.number \in DOMAIN objects
                      /\ objects[header.number].trailer # NoTrailer
                      /\ \A t \in Trees : RootReadable(t)
    BY Zenon DEF DurableReadable, Readable
  <2>1. /\ header.number \in DOMAIN objects
        /\ objects[header.number].trailer # NoTrailer
        /\ \A n \in Node : InSwift(n, DurableLoc, DurableRecs)
    BY Zenon DEF IInv, DurableInv, Trailer
  <2>2. ASSUME NEW t \in Trees PROVE RootReadable(t)
    <3>1. DurableLoc[<<t, Root>>] # 0
      BY <2>1, NodeParts DEF InSwift, IInv, TypeInv
    <3>2. DurableLoc[<<t, Root>>] = RootAt(t)
      BY Zenon, <3>1, NodeParts DEF DurableLoc
    <3>3. /\ RootAt(t) \in DOMAIN objects /\ t \in DOMAIN objects[RootAt(t)].root
          /\ objects[RootAt(t)].root[t] = [p \in Pages |-> DurableLoc[<<t, p>>]]
      BY <2>1, <3>2, NodeParts DEF InSwift, Holds
    <3>4. ASSUME NEW p \in Pages
          PROVE  LET o == objects[RootAt(t)].root[t][p]
                 IN  o \in DOMAIN objects /\ <<t, p>> \in DOMAIN objects[o].leaf
      <4>1. objects[RootAt(t)].root[t][p] = DurableLoc[<<t, p>>]
        BY Zenon, <3>3
      <4>2. InSwift(<<t, p>>, DurableLoc, DurableRecs) /\ p # Root
        BY Zenon, <2>1, NodeParts
      <4> QED BY Zenon, <4>1, <4>2 DEF InSwift, Holds
    <3> QED BY Zenon, <3>3, <3>4 DEF RootReadable
  <2> QED BY Zenon, <2>1, <2>2
<1> QED BY <1>1, CheckpointInvariant, PTL

\* GetNode() finds every node that is clean in memory, once the object under
\* construction is complete: none is in an object that was deleted.
THEOREM CleanNodesReadable == Spec /\ []NoFault => []CleanNodesExist
<1>1. IInv => CleanNodesExist
  <2> SUFFICES ASSUME IInv, NEW n \in Node, loc[n] # 0
               PROVE  \/ loc[n] \in DOMAIN objects /\ n \in DOMAIN objects[loc[n]].leaf
                      \/ /\ loc[n] \in DOMAIN objects
                         /\ n[2] = Root /\ n[1] \in DOMAIN objects[loc[n]].root
                      \/ loc[n] = context.number
    BY Zenon DEF CleanNodesExist
  <2>1. up
    BY Zenon DEF IInv, PhaseInv, AllDirty
  <2>2. InSwift(n, loc, mem) \/ InContext(n)
    BY Zenon, <2>1 DEF IInv, MemoryInv
  <2> QED BY Zenon, <2>2 DEF InSwift, InContext, Holds
<1> QED BY <1>1, CheckpointInvariant, PTL

\* A layout counts exactly the nodes of a tree in an object: DiscardNode() never
\* finds too few of them.
THEOREM LayoutsCount == Spec /\ []NoFault => []LayoutExact
<1>1. IInv => LayoutExact
  <2> SUFFICES ASSUME IInv, NEW t \in Trees, NEW o \in 1..MaxNonce
               PROVE  Count(layout, t, o) =
                        Cardinality({n \in Node : n[1] = t /\ loc[n] = o})
                          + Cardinality(InObject(t, o))
    BY Zenon DEF LayoutExact, Count
  <2>1. TypeInv /\ MemoryInv /\ PhaseInv
    BY Zenon DEF IInv
  <2>2. Used(loc, {}, t, o) = {n \in Node : n[1] = t /\ loc[n] = o}
    BY Zenon DEF Used
  <2>3. CASE up
    <3>1. /\ \A s \in stale : loc[s[1]] # s[2]
          /\ Count(layout, t, o) = Cardinality(Used(loc, stale, t, o))
      BY Zenon, <2>1, <2>3 DEF MemoryInv, Exact
    <3>2. Cardinality(Used(loc, stale, t, o)) =
            Cardinality(Used(loc, {}, t, o)) + Cardinality(InObject(t, o))
      BY Zenon, <2>1, <3>1, UsedSplit
    <3> QED BY Zenon, <2>2, <3>1, <3>2
  <2>4. CASE ~up
    <3>1. loc = AllDirty /\ layout = NoLayout /\ stale = {}
      BY Zenon, <2>1, <2>4 DEF PhaseInv
    <3>2. InObject(t, o) = {} /\ {n \in Node : n[1] = t /\ loc[n] = o} = {}
      BY <3>1 DEF InObject, AllDirty
    <3>3. layout[t] = <<>>
      BY Zenon, <3>1 DEF NoLayout
    <3>4. Count(layout, t, o) = 0
      BY <3>3 DEF Count
    <3>5. Cardinality(InObject(t, o)) = 0
      BY Zenon, <3>2, FS_EmptySet
    <3>6. Cardinality({n \in Node : n[1] = t /\ loc[n] = o}) = 0
      BY Zenon, <3>2, FS_EmptySet
    <3> QED BY <3>4, <3>5, <3>6
  <2> QED BY Zenon, <2>3, <2>4
<1> QED BY <1>1, CheckpointInvariant, PTL

\* When putCheckpoint() has returned, what was in memory is durable.
THEOREM CheckpointsDurable == Spec /\ []NoFault => []CheckpointDurable
<1>1. IInv => (up /\ pc = "idle" => DurableRecs = promised)
  BY Zenon DEF IInv, PhaseInv
<1>2. DurableReadable <=> Readable
  BY Zenon DEF DurableReadable
<1> QED BY <1>1, <1>2, CheckpointInvariant, VolumeMountable, PTL DEF CheckpointDurable

\* Package headhunter implements a store whose records become durable all at
\* once, and wakes who waits for a checkpoint only when it is durable.
THEOREM StoreRefinement == Spec /\ []NoFault => ImplementsDurableStore
<1>1. Init => Store!Init
  <2> SUFFICES ASSUME Init PROVE Store!Init
    OBVIOUS
  <2>1. header.number = 0 /\ ~up /\ waiting = FALSE
    BY Zenon DEF Init
  <2> QED BY Zenon, <2>1, NothingDurable DEF Store!Init, Empty
<1>2. IInv /\ NoFault /\ NoFault' /\ [Next]_vars => [Store!Next]_(Store!vars)
  BY Zenon, NextIInv DEF StoreStep
<1> QED BY <1>1, <1>2, CheckpointInvariant, PTL
    DEF Spec, ImplementsDurableStore, Store!Spec
=============================================================================
