----------------------------- MODULE Headhunter -----------------------------
(***************************************************************************)
(* The checkpoint store of package headhunter for one volume, with version *)
(* 2 headers (headhunter/api_internal.go, headhunter/config.go).           *)
(*                                                                         *)
(* volume.Lock() is held by every operation and by the daemon for the      *)
(* whole of putCheckpoint(), which is cut into one action per Swift        *)
(* request so that the process can crash between any two of them.          *)
(*                                                                         *)
(* A B+Tree is a root over one leaf node per page.  Dirtying a leaf        *)
(* dirties the root; a node is written at most once to an object, so that  *)
(* the object's number alone locates it.  All nodes have length 1.         *)
(***************************************************************************)
EXTENDS Integers, Sequences, FiniteSets, Functions

CONSTANTS
    NumTrees,              \* inodeRec, logSegmentRec, bPlusTreeObject: 3
    Pages,                 \* the leaf nodes of each tree
    Values, NoValue,       \* contents of a leaf; NoValue before any Put
    NonceValuesToReserve,  \* nonces per reservation
    MaxFlushNodes,         \* maxFlushSize, in nodes
    MaxNonce,              \* bound of the model on nonces
    MaxErrors              \* bound of the model on Swift errors in a flush

ASSUME ReserveAssumption == NonceValuesToReserve \in Nat \ {0}

ASSUME FlushAssumption == MaxFlushNodes \in Nat \ {0}

firstNonceToProvide == 2

Trees == 1..NumTrees
Root == "root"
Keys == Trees \X Pages
Node == Trees \X (Pages \cup {Root})

ASSUME NodeAssumption == /\ NumTrees \in Nat \ {0}
                         /\ IsFiniteSet(Pages) /\ Root \notin Pages

VARIABLES
    header,     \* Swift: the checkpoint container's header
    objects,    \* Swift: complete objects of the checkpoint container
    up,         \* the volume is served
    mem,        \* contents of the leaves in memory
    loc,        \* where each node was written; 0 if it is dirty
    stale,      \* staleOnDiskReferences: nodes replaced since the last Prune()
    layout,     \* {inodeRec|...}BPlusTreeLayout: nodes in use per object
    hdrObject,  \* checkpointHeader.CheckpointObjectTrailerV2StructObjectNumber
    reserved,   \* checkpointHeader.ReservedToNonce
    nextNonce,
    context,    \* checkpointChunkedPutContext
    pc, todo,   \* progress of putCheckpoint(): its phase, nodes left to flush
    flushed,    \* checkpointFlushedData
    waiting,    \* checkpointDoneWaitGroup # nil
    deletes,    \* objects queued for ObjectDeleteAsync, their gate open
    errors,     \* Swift errors so far (bound)
    issued,     \* every nonce ever returned (history)
    promised    \* the records as of the last checkpoint reported done (history)

swiftVars == <<header, objects>>
treeVars == <<mem, loc, stale, layout>>
nonceVars == <<hdrObject, reserved, nextNonce, issued>>
ckptVars == <<context, pc, todo, flushed>>
vars == <<swiftVars, up, treeVars, nonceVars, ckptVars, waiting, deletes, errors,
          promised>>

NoTrailer == [root |-> <<>>, layout |-> <<>>]
NoContext == [number |-> 0, leaf |-> <<>>, root |-> <<>>]
NilContext == [NoContext EXCEPT !.number = -1]

Empty == [k \in Keys |-> NoValue]
AllDirty == [n \in Node |-> 0]
NoLayout == [t \in Trees |-> <<>>]

TypeOK ==
    /\ header \in [number : 0..MaxNonce, reserved : Nat]
    /\ DOMAIN objects \subseteq 1..MaxNonce
    /\ up \in BOOLEAN
    /\ mem \in [Keys -> Values \cup {NoValue}]
    /\ loc \in [Node -> 0..MaxNonce]
    /\ stale \in SUBSET (Node \X (1..MaxNonce))
    /\ \A t \in Trees : /\ DOMAIN layout[t] \subseteq 1..MaxNonce
                        /\ \A o \in DOMAIN layout[t] : layout[t][o] \in Nat
    /\ hdrObject \in 0..MaxNonce
    /\ {reserved, nextNonce} \subseteq Nat
    /\ pc \in {"idle", "flush", "trailer", "post", "collect"}
    /\ todo \subseteq Node
    /\ {flushed, waiting} \subseteq BOOLEAN
    /\ deletes \subseteq 1..MaxNonce
    /\ errors \in 0..MaxErrors
    /\ issued \subseteq 1..MaxNonce
    /\ promised \in [Keys -> Values \cup {NoValue}]

\* The volume as Format() leaves its container, nothing mounted.
Init ==
    /\ header = [number |-> 0, reserved |-> firstNonceToProvide - 1]
    /\ objects = <<>>
    /\ up = FALSE
    /\ mem = Empty /\ loc = AllDirty /\ stale = {} /\ layout = NoLayout
    /\ hdrObject = 0 /\ reserved = 0 /\ nextNonce = 0 /\ issued = {}
    /\ context = NoContext /\ pc = "idle" /\ todo = {} /\ flushed = FALSE
    /\ waiting = FALSE /\ deletes = {} /\ errors = 0 /\ promised = Empty

-----------------------------------------------------------------------------
(***************************************************************************)
(* What getCheckpoint() finds in Swift.                                    *)
(***************************************************************************)
RootAt(t) == objects[header.number].trailer.root[t]

RootReadable(t) ==
    LET r == RootAt(t)
    IN  r # 0 => /\ r \in DOMAIN objects
                 /\ t \in DOMAIN objects[r].root
                 /\ \A p \in Pages :
                      LET o == objects[r].root[t][p]
                      IN  o \in DOMAIN objects /\ <<t, p>> \in DOMAIN objects[o].leaf

Readable ==
    header.number # 0 =>
      /\ header.number \in DOMAIN objects
      /\ objects[header.number].trailer # NoTrailer
      /\ \A t \in Trees : RootReadable(t)

\* A tree without a root in the trailer is new: empty and dirty.
DurableLoc ==
    [n \in Node |->
       IF header.number = 0 \/ RootAt(n[1]) = 0 THEN 0
       ELSE IF n[2] = Root THEN RootAt(n[1])
       ELSE objects[RootAt(n[1])].root[n[1]][n[2]]]

DurableRecs ==
    [k \in Keys |-> IF DurableLoc[k] = 0 THEN NoValue
                    ELSE objects[DurableLoc[k]].leaf[k]]

\* getCheckpoint(), then upVolume() starts the checkpoint daemon.
Mount ==
    /\ ~up
    /\ Readable
    /\ up' = TRUE
    /\ mem' = DurableRecs
    /\ loc' = DurableLoc
    /\ layout' = IF header.number = 0 THEN NoLayout
                 ELSE objects[header.number].trailer.layout
    /\ hdrObject' = header.number
    /\ reserved' = header.reserved
    /\ nextNonce' = header.reserved
    /\ promised' = DurableRecs
    /\ UNCHANGED <<swiftVars, stale, ckptVars, waiting, deletes, errors, issued>>

\* The process dies, or exits: after an error of putCheckpoint() other than
\* those of Flush() (logger.Fatalf), or in downVolume() after a checkpoint.
Crash ==
    /\ up
    /\ up' = FALSE
    /\ mem' = Empty /\ loc' = AllDirty /\ stale' = {} /\ layout' = NoLayout
    /\ hdrObject' = 0 /\ reserved' = 0 /\ nextNonce' = 0
    /\ context' = NoContext /\ pc' = "idle" /\ todo' = {} /\ flushed' = FALSE
    /\ waiting' = FALSE /\ deletes' = {}
    /\ UNCHANGED <<swiftVars, errors, issued, promised>>

-----------------------------------------------------------------------------
(***************************************************************************)
(* Operations of the volume handle.  They need volume.Lock(), which the    *)
(* daemon holds during a checkpoint.                                       *)
(***************************************************************************)
\* Mutant: the root does not become dirty.
LeavesOnly(S) == S

\* The nodes from the leaves in S to the root.
Path(S) == S \cup {<<k[1], Root>> : k \in S}

\* Put{InodeRec|InodeRecs|LogSegmentRec|BPlusTreeObject}() and Delete...(), a
\* deleted record being NoValue: the leaves and their roots become dirty and
\* markNodeDirty() remembers where they were, once.
Put(S, v) ==
    LET touched == Path(S) IN
    /\ up /\ pc = "idle"
    /\ mem' = [k \in Keys |-> IF k \in S THEN v ELSE mem[k]]
    /\ loc' = [n \in Node |-> IF n \in touched THEN 0 ELSE loc[n]]
    /\ stale' = stale \cup {<<n, loc[n]>> : n \in {m \in touched : loc[m] # 0}}
    /\ UNCHANGED <<swiftVars, up, layout, nonceVars, ckptVars, waiting, deletes,
                   errors, promised>>

\* FetchNextCheckPointDoneWaitGroup().
FetchWaitGroup ==
    /\ up /\ pc = "idle"
    /\ waiting' = TRUE
    /\ UNCHANGED <<swiftVars, up, treeVars, nonceVars, ckptVars, deletes, errors, promised>>

\* Mutant: the reservation is not posted.
FetchNonceUnposted ==
    /\ nextNonce <= MaxNonce
    /\ reserved' = IF nextNonce = reserved THEN reserved + NonceValuesToReserve
                                           ELSE reserved
    /\ nextNonce' = nextNonce + 1
    /\ issued' = issued \cup {nextNonce}
    /\ UNCHANGED header

\* fetchNonceWhileLocked(): at the end of the reservation the next one is
\* first posted in the header, with the object number found in memory.
FetchNonceWhileLocked ==
    LET exhausted == nextNonce = reserved
        upTo == reserved + NonceValuesToReserve
    IN  /\ nextNonce <= MaxNonce
        /\ header' = IF exhausted THEN [number |-> hdrObject, reserved |-> upTo]
                                  ELSE header
        /\ reserved' = IF exhausted THEN upTo ELSE reserved
        /\ nextNonce' = nextNonce + 1
        /\ issued' = issued \cup {nextNonce}

FetchNonce ==
    /\ up /\ pc = "idle"
    /\ FetchNonceWhileLocked
    /\ UNCHANGED <<objects, up, treeVars, hdrObject, ckptVars, waiting, deletes,
                   errors, promised>>

-----------------------------------------------------------------------------
(***************************************************************************)
(* checkpointDaemon() and putCheckpoint().                                 *)
(***************************************************************************)
NoncesLeft ==
    nextNonce + Cardinality({n \in Node : loc[n] = 0}) \div MaxFlushNodes <= MaxNonce

\* A timer or a request starts a checkpoint.  The bound leaves it the nonces
\* it can need.
BeginCheckpoint ==
    /\ up /\ pc = "idle"
    /\ NoncesLeft
    /\ pc' = "flush"
    /\ flushed' = FALSE
    /\ todo' = {n \in Node : loc[n] = 0}
    /\ UNCHANGED <<swiftVars, up, treeVars, nonceVars, context, waiting, deletes,
                   errors, promised>>

\* Flush() posts the trees in order and, in a tree, the leaves before the root.
NextToFlush(n) ==
    /\ n \in todo
    /\ \A m \in todo : n[1] <= m[1]
    /\ n[2] = Root => ~\E p \in Pages : <<n[1], p>> \in todo

\* postNode() refuses a node with a dirty child before it calls PutNode().
Postable(n) == n[2] = Root => \A p \in Pages : loc[<<n[1], p>>] # 0

\* PutNode() is about to run, or the trailer to be sent.
NeedsContext ==
    \/ pc = "flush" /\ \E n \in todo : NextToFlush(n) /\ Postable(n)
    \/ pc = "trailer"

\* openCheckpointChunkedPutContextIfNecessary(): the new object's number
\* replaces the old one in the header in memory.
OpenContext ==
    /\ up /\ NeedsContext /\ context = NoContext
    /\ FetchNonceWhileLocked
    /\ hdrObject' = nextNonce
    /\ context' = [NoContext EXCEPT !.number = nextNonce]
    /\ UNCHANGED <<objects, up, treeVars, pc, todo, flushed, waiting, deletes, errors, promised>>

\* f[x] = v, an assignment to an entry of a map that may be new.
With(f, x, v) == [y \in DOMAIN f \cup {x} |-> IF y = x THEN v ELSE f[y]]

\* Mutant: what the object held before is forgotten.
SetTo(l, o) == With(l, o, 1)

AddTo(l, o) == With(l, o, (IF o \in DOMAIN l THEN l[o] ELSE 0) + 1)

\* The object under construction with node n added to it.
WithNode(n) ==
    IF n[2] = Root
      THEN [context EXCEPT !.root = With(@, n[1], [p \in Pages |-> loc[<<n[1], p>>]])]
      ELSE [context EXCEPT !.leaf = With(@, n, mem[n])]

Full(c) == Cardinality(DOMAIN c.leaf) + Cardinality(DOMAIN c.root) >= MaxFlushNodes

Complete(c, trailer) ==
    With(objects, c.number, [leaf |-> c.leaf, root |-> c.root, trailer |-> trailer])

\* PutNode(): the node is sent, and the object completed if it is full.
PutNode(n) ==
    /\ up /\ pc = "flush" /\ NextToFlush(n) /\ Postable(n)
    /\ context \notin {NoContext, NilContext}
    /\ flushed' = TRUE
    /\ todo' = todo \ {n}
    /\ loc' = [loc EXCEPT ![n] = context.number]
    /\ layout' = [layout EXCEPT ![n[1]] = AddTo(@, context.number)]
    /\ LET c == WithNode(n)
       IN  IF Full(c)
             THEN objects' = Complete(c, NoTrailer) /\ context' = NoContext
             ELSE context' = c /\ UNCHANGED objects
    /\ UNCHANGED <<header, up, mem, stale, nonceVars, pc, waiting, deletes, errors, promised>>

\* Errors inside Flush() are lost: flushNode() ignores what postNode() returns.
\* The node stays dirty and the flush goes on with the next one.
Swallow(n) ==
    /\ up /\ pc = "flush" /\ NextToFlush(n)
    /\ todo' = todo \ {n}
    /\ UNCHANGED <<up, mem, loc, stale, pc, waiting, deletes, promised>>

\* postNode() finds a dirty child.
PostNodeFails(n) ==
    /\ Swallow(n) /\ ~Postable(n)
    /\ UNCHANGED <<swiftVars, layout, nonceVars, context, flushed, errors>>

\* The reservation of nonces cannot be posted: the object number becomes 0.
OpenFails(n) ==
    /\ errors < MaxErrors /\ errors' = errors + 1
    /\ Swallow(n) /\ Postable(n)
    /\ context = NoContext /\ nextNonce = reserved
    /\ hdrObject' = 0
    /\ UNCHANGED <<swiftVars, layout, reserved, nextNonce, issued, context, flushed>>

\* The object cannot be opened.  ObjectFetchChunkedPutContext() then returns a
\* nil pointer in an interface that is not nil: the next use of it panics.
FetchContextFails(n) ==
    /\ errors < MaxErrors /\ errors' = errors + 1
    /\ Swallow(n) /\ Postable(n)
    /\ context = NoContext
    /\ FetchNonceWhileLocked
    /\ hdrObject' = nextNonce
    /\ context' = NilContext
    /\ UNCHANGED <<objects, layout, flushed>>

\* The full object cannot be completed: what was sent to it before is lost too.
CloseFails(n) ==
    /\ errors < MaxErrors /\ errors' = errors + 1
    /\ Swallow(n) /\ Postable(n)
    /\ context \notin {NoContext, NilContext} /\ Full(WithNode(n))
    /\ flushed' = TRUE
    /\ layout' = [layout EXCEPT ![n[1]] = AddTo(@, context.number)]
    /\ context' = NoContext
    /\ UNCHANGED <<swiftVars, nonceVars>>

\* Mutant: the wait group of the next checkpoint is not signalled.
DoneUnsignalled == waiting' = waiting /\ promised' = mem

\* The daemon signals the requestor and checkpointDoneWaitGroup.
Done == waiting' = FALSE /\ promised' = mem

InObject(t, o) == {s \in stale : s[1][1] = t /\ s[2] = o}

\* The trees are flushed.  If anything was written, Prune() calls DiscardNode()
\* for the stale references; otherwise the checkpoint is over.
Prune ==
    /\ up /\ pc = "flush" /\ todo = {}
    /\ IF flushed
         THEN /\ pc' = "trailer"
              /\ layout' = [t \in Trees |-> [o \in DOMAIN layout[t] |->
                              layout[t][o] - Cardinality(InObject(t, o))]]
              /\ stale' = {}
              /\ UNCHANGED <<waiting, promised>>
         ELSE /\ pc' = "idle"
              /\ Done
              /\ UNCHANGED <<layout, stale>>
    /\ UNCHANGED <<swiftVars, up, mem, loc, nonceVars, context, todo, flushed,
                   deletes, errors>>

\* The trailer and the layouts end the object, which is completed.
WriteTrailer ==
    /\ up /\ pc = "trailer" /\ context \notin {NoContext, NilContext}
    /\ objects' = Complete(context, [root |-> [t \in Trees |-> loc[<<t, Root>>]],
                                     layout |-> layout])
    /\ context' = NoContext
    /\ pc' = "post"
    /\ UNCHANGED <<header, up, treeVars, nonceVars, todo, flushed, waiting, deletes,
                   errors, promised>>

PostHeader ==
    /\ up /\ pc = "post"
    /\ header' = [number |-> hdrObject, reserved |-> reserved]
    /\ pc' = "collect"
    /\ UNCHANGED <<objects, up, treeVars, nonceVars, context, todo, flushed, waiting,
                   deletes, errors, promised>>

\* Mutant: an object is dead while one node of it is in use.
InUseOffByOne(o) == \E t \in Trees : o \in DOMAIN layout[t] /\ layout[t][o] > 1

\* Mutant: an object is dead as soon as one tree uses none of it.
InUseByAll(o) == \A t \in Trees : o \in DOMAIN layout[t] => layout[t][o] # 0

InUse(o) == \E t \in Trees : o \in DOMAIN layout[t] /\ layout[t][o] # 0

\* Objects of which no tree uses a byte are queued for deletion, gated by the
\* wait group that the daemon signals before it releases the lock.
Collect ==
    LET dead == {o \in UNION {DOMAIN layout[t] : t \in Trees} : ~InUse(o)} IN
    /\ up /\ pc = "collect"
    /\ layout' = [t \in Trees |-> Restrict(layout[t], DOMAIN layout[t] \ dead)]
    /\ deletes' = deletes \cup dead
    /\ Done
    /\ pc' = "idle"
    /\ UNCHANGED <<swiftVars, up, mem, loc, stale, nonceVars, context, todo, flushed,
                   errors>>

\* swiftclient's objectDeleteAsyncDaemon() deletes an object.
DeleteObject(o) ==
    /\ o \in deletes
    /\ objects' = Restrict(objects, DOMAIN objects \ {o})
    /\ deletes' = deletes \ {o}
    /\ UNCHANGED <<header, up, treeVars, nonceVars, ckptVars, waiting, errors, promised>>

CheckpointStep ==
    \/ OpenContext
    \/ \E n \in Node : PutNode(n) \/ PostNodeFails(n)
    \/ Prune \/ WriteTrailer \/ PostHeader \/ Collect

Next ==
    \/ Mount \/ Crash
    \/ \E t \in Trees, P \in SUBSET Pages \ {{}}, v \in Values \cup {NoValue} :
         Put({t} \X P, v)
    \/ FetchWaitGroup \/ FetchNonce
    \/ BeginCheckpoint \/ CheckpointStep
    \/ \E n \in Node : OpenFails(n) \/ FetchContextFails(n) \/ CloseFails(n)
    \/ \E o \in deletes : DeleteObject(o)

Spec == Init /\ [][Next]_vars

\* The nil context of FetchContextFails is used: the process panics.
Panic == NeedsContext /\ context = NilContext /\ Crash

\* The daemon and the Swift client keep running, and the timer fires.
FairSpec ==
    /\ Spec
    /\ WF_vars(BeginCheckpoint) /\ WF_vars(CheckpointStep) /\ WF_vars(Panic)
    /\ \A o \in 1..MaxNonce : WF_vars(DeleteObject(o))

\* The store that headhunter implements.  While nothing is mounted, the
\* records are the ones that the next mount will find.
Store == INSTANCE DurableStore WITH
    recs <- IF up THEN mem ELSE DurableRecs,
    durable <- DurableRecs

-----------------------------------------------------------------------------
\* Whenever the process dies, getCheckpoint() can mount what is in Swift: the
\* header names a complete object with a trailer, and every node reachable
\* from it was written and not deleted.
DurableReadable == Readable

\* Nodes that are clean in memory can be read back by GetNode() once evicted.
CleanNodesExist ==
    \A n \in Node : loc[n] # 0 =>
      LET o == loc[n] IN
      \/ o \in DOMAIN objects /\ n \in DOMAIN objects[o].leaf
      \/ o \in DOMAIN objects /\ n[2] = Root /\ n[1] \in DOMAIN objects[o].root
      \/ o = context.number

\* A layout counts the nodes of a tree in an object exactly: those in use and
\* those Prune() has yet to discard.  DiscardNode() thus never reports a logic
\* error and an object is deleted when its last node is, not before.
LayoutExact ==
    \A t \in Trees : \A o \in 1..MaxNonce :
      (IF o \in DOMAIN layout[t] THEN layout[t][o] ELSE 0) =
        Cardinality({n \in Node : n[1] = t /\ loc[n] = o})
          + Cardinality(InObject(t, o))

\* FetchNonce() never returns a nonce twice, crashes included: every nonce
\* returned before is below the next one and below the durable reservation.
NoncesFresh ==
    /\ \A n \in issued : n < header.reserved
    /\ up => \A n \in issued : n < nextNonce

\* The checkpoint store is a store of records that become durable all at once,
\* and a wait group is signalled only when its checkpoint is durable.
ImplementsDurableStore == Store!Spec

\* When putCheckpoint() returns no error, what was in memory is durable: the
\* garbage collection that awaits the checkpoint may proceed.
CheckpointDurable == up /\ pc = "idle" => Readable /\ DurableRecs = promised

\* Whoever waits for the next checkpoint is woken, unless the process dies or
\* the model's nonces run out.
WaitGroupSignalled == waiting ~> ~waiting \/ (pc = "idle" /\ ~NoncesLeft)

\* config.go: firstNonceToProvide must skip 0 (unassigned) and 1 (the root
\* directory's inode number).
NoncesSkipReserved == \A n \in issued : n >= firstNonceToProvide
=============================================================================
