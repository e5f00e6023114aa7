----------------------------- MODULE FileFlush -----------------------------
(***************************************************************************)
(* The life of file data in package inode: log segments written by         *)
(* chunked PUTs, extent maps and inode records put in headhunter, and the  *)
(* garbage collection of log segments (inode/file.go, file_flusher.go,     *)
(* inode.go, payload.go), on top of what headhunter promises               *)
(* (DurableStore).                                                         *)
(*                                                                         *)
(* A thread that runs an operation owns the inode locks it needs, but      *)
(* checkpoints, the flushers of log segments, the delete daemon and other  *)
(* threads run between any two of its headhunter calls.  An extent map is  *)
(* the set of log segments it refers to, in a B+Tree of one node; a        *)
(* LogSegmentMap entry that counts 0 bytes is a segment in segs and not in *)
(* data.                                                                   *)
(***************************************************************************)
EXTENDS Integers, FiniteSets

CONSTANTS
    Threads,
    Inodes,     \* inode numbers (bound of the model)
    Numbers,    \* the other nonces: log segments and payload objects (bound)
    None,       \* no log segment, no payload object, no record
    MaxErrors   \* bound of the model on log segments that cannot be completed

VARIABLES
    recs, durable, waiting,  \* headhunter, see DurableStore
    swift,       \* log segments that are complete objects in Swift
    inodeCache,  \* in-memory inodes
    op,          \* the multi-step operation each thread is in
    deletes,     \* queue of ObjectDeleteAsync()
    used,        \* nonces taken
    errors       \* chunked PUTs that failed (bound)

storeVars == <<recs, durable, waiting>>
vars == <<storeVars, swift, inodeCache, op, deletes, used, errors>>

Inode(i) == <<"inode", i>>
Segment(s) == <<"segment", s>>
Payload(n) == <<"payload", n>>

Keys == {Inode(i) : i \in Inodes} \cup {Segment(s) : s \in Numbers}
          \cup {Payload(n) : n \in Numbers}
InodeRec == [payload : Numbers, segs : SUBSET Numbers, linked : BOOLEAN]
Values == InodeRec \cup (SUBSET Numbers) \cup {"container"}

ASSUME NoneAssumption ==
    /\ None \notin Inodes \cup Numbers
    /\ \A r \in InodeRec : r # None
    /\ \A S \in SUBSET Numbers : S # None
    /\ "container" # None

Store == INSTANCE DurableStore WITH NoValue <- None

\* The fields of inMemoryInodeStruct that matter here.  node is the object of
\* the extent map's B+Tree, None while the tree is dirty; stale are the objects
\* it had before and has yet to Prune(); linked says that a directory names the
\* inode (LinkCount > 0).
InMemoryInode ==
    [data : SUBSET Numbers, segs : SUBSET Numbers,
     node : Numbers \cup {None}, stale : SUBSET Numbers, dirty : BOOLEAN,
     openLogSegment : Numbers \cup {None}, inFlight : SUBSET Numbers,
     failed : BOOLEAN, linked : BOOLEAN]

Nothing == [x \in {} |-> None]

NoOp == [pc |-> "idle", locked |-> {}, todo |-> {}, batch |-> Nothing, empty |-> {},
         gate |-> "open", victims |-> {}]

TypeOK ==
    /\ \A r \in {recs, durable} :
         /\ \A i \in Inodes : r[Inode(i)] = None \/ r[Inode(i)] \in InodeRec
         /\ \A n \in Numbers : /\ r[Payload(n)] = None \/ r[Payload(n)] \subseteq Numbers
                              /\ r[Segment(n)] \in {None, "container"}
    /\ waiting \in BOOLEAN
    /\ swift \subseteq Numbers
    /\ DOMAIN inodeCache \subseteq Inodes
    /\ \A i \in DOMAIN inodeCache : inodeCache[i] \in InMemoryInode
    /\ \A t \in Threads :
         /\ op[t].pc \in {"idle", "flush", "prune", "put", "drop", "discard", "wait", "gc"}
         /\ op[t].todo \subseteq op[t].locked /\ op[t].locked \subseteq Inodes
         /\ op[t].empty \subseteq Numbers
         /\ op[t].gate \in {"open", "closed"}
    /\ deletes \subseteq Numbers \X {"open", "closed"}
    /\ used \subseteq Inodes \cup Numbers

Init ==
    /\ Store!Init
    /\ swift = {} /\ inodeCache = Nothing /\ deletes = {} /\ used = {} /\ errors = 0
    /\ op = [t \in Threads |-> NoOp]

-----------------------------------------------------------------------------
\* f with the value v at x, which may be new to f.
With(f, x, v) == [y \in DOMAIN f \cup {x} |-> IF y = x THEN v ELSE f[y]]

Set(i, fields) == With(inodeCache, i, fields)

Remove(I) == [j \in DOMAIN inodeCache \ I |-> inodeCache[j]]

\* The inode locks of package dlm: an operation on i may start.
Unlocked(i) == i \in DOMAIN inodeCache /\ \A t \in Threads : i \notin op[t].locked

\* Bound of the model: k nonces are left beside those that the operations under
\* way need for payload objects.
Room(k) ==
    LET pending == UNION {{i \in op[t].todo : op[t].pc = "flush" /\ inodeCache[i].node = None}
                          : t \in Threads}
    IN  Cardinality(Numbers \ used) >= Cardinality(pending) + k

\* Mutant: the inode is not marked dirty.
WithDataClean(inode, data) ==
    [inode EXCEPT !.data = data, !.node = None,
                  !.stale = @ \cup ({inode.node} \ {None})]

\* The extent map changes: its node becomes stale (markNodeDirty).
WithData(inode, data) ==
    [inode EXCEPT !.data = data, !.dirty = TRUE, !.node = None,
                  !.stale = @ \cup ({inode.node} \ {None})]

\* createFileInode(): an inode number, and an inode that is only in memory.  The
\* directory entry that Link() adds is not modelled apart.
NewInode == [data |-> {}, segs |-> {}, node |-> None, stale |-> {}, dirty |-> TRUE,
             openLogSegment |-> None, inFlight |-> {}, failed |-> FALSE, linked |-> TRUE]

CreateFile(i) ==
    /\ i \notin used
    /\ used' = used \cup {i}
    /\ inodeCache' = Set(i, NewInode)
    /\ UNCHANGED <<storeVars, swift, op, deletes, errors>>

\* fetchOnDiskInode() of an inode that is not cached and that a path leads to.
\* It needs the payload.
FetchInode(i) ==
    /\ i \notin DOMAIN inodeCache /\ \A t \in Threads : i \notin op[t].locked
    /\ recs[Inode(i)] # None /\ recs[Inode(i)].linked
    /\ recs[Payload(recs[Inode(i)].payload)] # None
    /\ LET rec == recs[Inode(i)] IN
       inodeCache' = Set(i, [NewInode EXCEPT !.data = recs[Payload(rec.payload)],
                                             !.segs = rec.segs, !.node = rec.payload])
    /\ UNCHANGED <<storeVars, swift, op, deletes, used, errors>>

\* Purge() refuses a dirty inode.
Purge(i) ==
    /\ Unlocked(i) /\ ~inodeCache[i].dirty
    /\ inodeCache' = Remove({i})
    /\ UNCHANGED <<storeVars, swift, op, deletes, used, errors>>

\* Write() into log segment s: doSendChunk() opens it if none is open, the
\* extents of the segments in R are overwritten.  A full segment is handed to
\* its flusher.
Write(i, s, R, full) ==
    LET inode == inodeCache[i]
        opened == inode.openLogSegment = None IN
    /\ Unlocked(i)
    /\ IF opened THEN s \in Numbers \ used /\ Room(1) ELSE s = inode.openLogSegment
    /\ used' = used \cup {s}
    /\ recs' = [recs EXCEPT ![Segment(s)] = "container"]
    /\ R \subseteq inode.data \ {s}
    /\ inodeCache' = Set(i, [WithData(inode, (inode.data \ R) \cup {s}) EXCEPT
                               !.segs = @ \cup {s},
                               !.inFlight = @ \cup {s},
                               !.openLogSegment = IF full THEN None ELSE s])
    /\ UNCHANGED <<durable, waiting, swift, op, deletes, errors>>

\* inFlightLogSegmentFlusher(): Close() completes the object, or fails.
CloseLogSegment(i, s) ==
    /\ i \in DOMAIN inodeCache
    /\ s \in inodeCache[i].inFlight \ {inodeCache[i].openLogSegment}
    /\ swift' = swift \cup {s}
    /\ inodeCache' = [inodeCache EXCEPT ![i].inFlight = @ \ {s}]
    /\ UNCHANGED <<storeVars, op, deletes, used, errors>>

CloseFails(i, s) ==
    /\ errors < MaxErrors /\ errors' = errors + 1
    /\ i \in DOMAIN inodeCache
    /\ s \in inodeCache[i].inFlight \ {inodeCache[i].openLogSegment}
    /\ inodeCache' = [inodeCache EXCEPT ![i].inFlight = @ \ {s},
                                        ![i].failed = TRUE]
    /\ UNCHANGED <<storeVars, swift, op, deletes, used>>

-----------------------------------------------------------------------------
(***************************************************************************)
(* Operations that end in flushInodes().                                   *)
(***************************************************************************)
\* Mutant: the open log segment is left open.
KeepsOpen(inode) == inode

\* doFileInodeDataFlush() hands the open log segment to its flusher.
HandsOver(inode) == [inode EXCEPT !.openLogSegment = None]

\* The operation goes on to flush the inodes I, and to destroy those in V.
StartFlush(t, I, V) ==
    op' = [op EXCEPT ![t] = [NoOp EXCEPT !.pc = "flush", !.locked = I, !.todo = I,
                                         !.victims = V]]

Flush(t, i) ==
    /\ op[t] = NoOp /\ Unlocked(i) /\ inodeCache[i].dirty
    /\ inodeCache[i].node = None => Room(1)
    /\ inodeCache' = Set(i, HandsOver(inodeCache[i]))
    /\ StartFlush(t, {i}, {})
    /\ UNCHANGED <<storeVars, swift, deletes, used, errors>>

\* fs.Unlink() of the last link: inode.Unlink() flushes, then inode.Destroy().
Unlink(t, i) ==
    /\ op[t] = NoOp /\ Unlocked(i)
    /\ inodeCache[i].node = None => Room(1)
    /\ inodeCache' = Set(i, [HandsOver(inodeCache[i]) EXCEPT !.dirty = TRUE, !.linked = FALSE])
    /\ StartFlush(t, {i}, {i})
    /\ UNCHANGED <<storeVars, swift, deletes, used, errors>>

\* SetSize(): the extents of the segments in R are cut off.
SetSize(t, i, R) ==
    LET inode == inodeCache[i] IN
    /\ op[t] = NoOp /\ Unlocked(i)
    /\ R # {} /\ R \subseteq inode.data /\ Room(1)
    /\ inodeCache' = Set(i, HandsOver(WithData(inode, inode.data \ R)))
    /\ StartFlush(t, {i}, {})
    /\ UNCHANGED <<storeVars, swift, deletes, used, errors>>

\* Wrote(): Swift's middleware has PUT object s, which becomes a log segment of
\* the file.  A dirty inode is flushed first.
Wrote(t, i, s, R) ==
    LET inode == inodeCache[i] IN
    /\ op[t] = NoOp /\ Unlocked(i) /\ ~inode.dirty
    /\ s \in Numbers \ used /\ used' = used \cup {s} /\ Room(2)
    /\ R \subseteq inode.data
    /\ swift' = swift \cup {s}
    /\ recs' = [recs EXCEPT ![Segment(s)] = "container"]
    /\ inodeCache' = Set(i, [WithData(inode, (inode.data \ R) \cup {s}) EXCEPT
                               !.segs = @ \cup {s}])
    /\ StartFlush(t, {i}, {})
    /\ UNCHANGED <<durable, waiting, deletes, errors>>

\* Mutant: the elements keep the log segments that the combination stole.
Unshared(segs) == segs

\* What is left of an element's LogSegmentMap.
Robbed(segs) == {}

\* Coalesce(): the new inode c takes over the log segments of the elements E,
\* which were flushed by GetReadPlan() and are destroyed in the end.
Coalesce(t, c, E) ==
    /\ op[t] = NoOp /\ c \notin used /\ E # {} /\ Room(1)
    /\ \A i \in E : Unlocked(i) /\ ~inodeCache[i].dirty
    /\ used' = used \cup {c}
    /\ LET stolen == UNION {inodeCache[i].data : i \in E} IN
       inodeCache' =
         [i \in DOMAIN inodeCache \cup {c} |->
            IF i = c THEN [NewInode EXCEPT !.data = stolen, !.segs = stolen]
            ELSE IF i \in E THEN [inodeCache[i] EXCEPT !.segs = Robbed(@), !.dirty = TRUE,
                                                       !.linked = FALSE]
            ELSE inodeCache[i]]
    /\ StartFlush(t, E \cup {c}, E)
    /\ UNCHANGED <<storeVars, swift, deletes, errors>>

\* flushInodes() of one inode: once its log segments are complete, the entries
\* of LogSegmentMap that count 0 go, and the extent map's node is put, if dirty,
\* as payload object n.
FlushInode(t, i, n) ==
    LET inode == inodeCache[i] IN
    /\ op[t].pc = "flush" /\ i \in op[t].todo
    /\ inode.inFlight = {} /\ ~inode.failed
    /\ IF inode.node = None
         THEN /\ n \in Numbers \ used /\ used' = used \cup {n}
              /\ recs' = [recs EXCEPT ![Payload(n)] = inode.data]
         ELSE n = inode.node /\ UNCHANGED <<recs, used>>
    /\ inodeCache' = Set(i, [inode EXCEPT !.segs = @ \cap inode.data, !.node = n])
    /\ op' = [op EXCEPT ![t].pc = "prune", ![t].todo = @ \ {i},
                        ![t].empty = @ \cup (inode.segs \ inode.data),
                        ![t].batch = With(@, i, [payload |-> n,
                                                 segs |-> inode.segs \cap inode.data,
                                                 linked |-> inode.linked])]
    /\ UNCHANGED <<durable, waiting, swift, deletes, errors>>

\* Mutant: the old payload objects of every inode.
StaleOfAll(t) == UNION {inodeCache[i].stale : i \in DOMAIN inodeCache}

\* The old payload objects of the inodes that are flushed.
StaleOf(t) == UNION {inodeCache[i].stale : i \in DOMAIN op[t].batch}

\* convertToOnDiskInodeV1() calls Prune(): the old payload objects are deleted.
Prune(t) ==
    LET stale == StaleOf(t) IN
    /\ op[t].pc = "prune"
    /\ recs' = [k \in Keys |-> IF \E n \in stale : k = Payload(n) THEN None ELSE recs[k]]
    /\ inodeCache' = [i \in DOMAIN inodeCache |->
                        IF i \in DOMAIN op[t].batch
                          THEN [inodeCache[i] EXCEPT !.stale = {}] ELSE inodeCache[i]]
    /\ op' = [op EXCEPT ![t].pc = IF op[t].todo = {} THEN "put" ELSE "flush"]
    /\ UNCHANGED <<durable, waiting, swift, deletes, used, errors>>

\* A log segment of an inode could not be completed: the operation fails.
FlushFails(t, i) ==
    /\ op[t].pc = "flush" /\ i \in op[t].todo
    /\ inodeCache[i].inFlight = {} /\ inodeCache[i].failed
    /\ op' = [op EXCEPT ![t] = NoOp]
    /\ UNCHANGED <<storeVars, swift, inodeCache, deletes, used, errors>>

\* Mutant: one record at a time could become durable.
PutOneByOne(batch) ==
    LET linked == {i \in DOMAIN batch : batch[i].linked}
    IN  IF linked = {} THEN DOMAIN batch ELSE linked

\* The inodes whose records are put in one headhunter call.
PutTogether(batch) == DOMAIN batch

PutInodeRecs(t) ==
    LET now == PutTogether(op[t].batch) IN
    /\ op[t].pc = "put"
    /\ recs' = [k \in Keys |-> IF \E i \in now : k = Inode(i)
                                 THEN op[t].batch[k[2]] ELSE recs[k]]
    /\ inodeCache' = [i \in DOMAIN inodeCache |->
                        IF i \in now THEN [inodeCache[i] EXCEPT !.dirty = FALSE]
                                     ELSE inodeCache[i]]
    /\ op' = [op EXCEPT ![t].batch = [i \in DOMAIN @ \ now |-> @[i]],
                        ![t].pc = IF DOMAIN op[t].batch = now THEN "wait" ELSE "put"]
    /\ UNCHANGED <<durable, waiting, swift, deletes, used, errors>>

-----------------------------------------------------------------------------
(***************************************************************************)
(* Destroy() of the victims of an operation that unlinked them.            *)
(***************************************************************************)
DeleteInodeRec(t, i) ==
    /\ op[t].pc = "drop" /\ i \in op[t].todo /\ inodeCache[i].inFlight = {}
    /\ recs' = [recs EXCEPT ![Inode(i)] = None]
    /\ op' = [op EXCEPT ![t].pc = "discard", ![t].todo = {i},
                        ![t].victims = (@ \cup op[t].todo) \ {i}]
    /\ UNCHANGED <<durable, waiting, swift, inodeCache, deletes, used, errors>>

\* extents.Discard() deletes the node of the tree if it is clean; stale nodes
\* are forgotten.
Discard(t, i) ==
    /\ op[t].pc = "discard" /\ i \in op[t].todo
    /\ recs' = [k \in Keys |-> IF k = Payload(inodeCache[i].node) THEN None ELSE recs[k]]
    /\ inodeCache' = Remove({i})
    /\ op' = [op EXCEPT ![t].pc = "wait", ![t].todo = {}, ![t].empty = inodeCache[i].segs]
    /\ UNCHANGED <<durable, waiting, swift, deletes, used, errors>>

-----------------------------------------------------------------------------
(***************************************************************************)
(* Garbage collection, and headhunter's checkpoints.                       *)
(***************************************************************************)
\* Mutant: deletion does not wait for the checkpoint.
GateOpen == "open"

GateClosed == "closed"

FetchWaitGroup(t) ==
    /\ op[t].pc = "wait"
    /\ Store!FetchWaitGroup
    /\ op' = [op EXCEPT ![t].pc = "gc", ![t].gate = GateClosed]
    /\ UNCHANGED <<swift, inodeCache, deletes, used, errors>>

\* deleteLogSegmentAsync().
DeleteLogSegment(t, s) ==
    /\ op[t].pc = "gc" /\ s \in op[t].empty
    /\ recs' = [recs EXCEPT ![Segment(s)] = None]
    /\ deletes' = deletes \cup {<<s, op[t].gate>>}
    /\ op' = [op EXCEPT ![t].empty = @ \ {s}]
    /\ UNCHANGED <<durable, waiting, swift, inodeCache, used, errors>>

\* The operation returns; Coalesce() goes on to destroy its elements.
Return(t) ==
    /\ op[t].pc = "gc" /\ op[t].empty = {}
    /\ op' = [op EXCEPT ![t] =
                IF @.victims = {} THEN NoOp
                ELSE [NoOp EXCEPT !.pc = "drop", !.locked = op[t].locked,
                                  !.todo = op[t].victims]]
    /\ UNCHANGED <<storeVars, swift, inodeCache, deletes, used, errors>>

\* objectDeleteAsyncDaemon(): an error of the DELETE is ignored.
DeleteObject(s) ==
    /\ <<s, "open">> \in deletes
    /\ deletes' = deletes \ {<<s, "open">>}
    /\ swift' \in {swift \ {s}, swift}
    /\ UNCHANGED <<storeVars, inodeCache, op, used, errors>>

Checkpoint ==
    /\ durable # recs
    /\ Store!Checkpoint
    /\ UNCHANGED <<swift, inodeCache, op, deletes, used, errors>>

\* Mutant: the deletes already queued are not released.
StillGated(D) == D

Released(D) == {<<d[1], "open">> : d \in D}

\* Every wait group fetched since the last signal is one and the same.
SignalWaitGroup ==
    /\ waiting
    /\ Store!SignalWaitGroup
    /\ op' = [t \in Threads |-> [op[t] EXCEPT !.gate = "open"]]
    /\ deletes' = Released(deletes)
    /\ UNCHANGED <<swift, inodeCache, used, errors>>

Crash ==
    /\ Store!Crash
    /\ inodeCache' = Nothing /\ deletes' = {}
    /\ op' = [t \in Threads |-> NoOp]
    /\ UNCHANGED <<swift, used, errors>>

Step(t) ==
    \/ \E i \in op[t].todo : \/ \E n \in Numbers : FlushInode(t, i, n)
                             \/ FlushFails(t, i)
                             \/ DeleteInodeRec(t, i)
                             \/ Discard(t, i)
    \/ Prune(t) \/ PutInodeRecs(t) \/ FetchWaitGroup(t)
    \/ \E s \in op[t].empty : DeleteLogSegment(t, s)
    \/ Return(t)

Next ==
    \/ \E i \in Inodes :
         \/ CreateFile(i) \/ FetchInode(i) \/ Purge(i)
         \/ \E s \in Numbers, R \in SUBSET Numbers, full \in BOOLEAN : Write(i, s, R, full)
         \/ \E s \in Numbers : CloseLogSegment(i, s) \/ CloseFails(i, s)
         \/ \E t \in Threads :
              \/ Flush(t, i) \/ Unlink(t, i)
              \/ \E R \in SUBSET Numbers :
                   SetSize(t, i, R) \/ \E s \in Numbers : Wrote(t, i, s, R)
              \/ \E E \in SUBSET Inodes : Coalesce(t, i, E)
    \/ \E t \in Threads : Step(t)
    \/ \E s \in Numbers : DeleteObject(s)
    \/ Checkpoint \/ SignalWaitGroup \/ Crash

Spec == Init /\ [][Next]_vars

\* Threads, flushers, the checkpoint daemon and the delete daemon keep running.
\* The daemon signals under the lock under which it wrote the checkpoint: puts
\* that come between the two in the model cannot hold it up forever.
FairSpec ==
    /\ Spec
    /\ \A t \in Threads : WF_vars(Step(t))
    /\ \A i \in Inodes, s \in Numbers : WF_vars(CloseLogSegment(i, s))
    /\ \A s \in Numbers : WF_vars(DeleteObject(s))
    /\ WF_vars(Checkpoint) /\ SF_vars(SignalWaitGroup)

-----------------------------------------------------------------------------
\* Garbage collection never deletes what the last checkpoint needs: whenever
\* the process dies, every log segment in the LogSegmentMap of a durable inode
\* is a complete object in Swift with a record that names its container.
DurableSegmentsKept ==
    \A i \in Inodes : durable[Inode(i)] # None =>
      \A s \in durable[Inode(i)].segs :
        s \in swift /\ durable[Segment(s)] = "container"

\* No log segment belongs to two inodes at once in a checkpoint, although
\* Coalesce() passes segments from inode to inode.
SegmentsNotShared ==
    \A i, j \in Inodes :
      i # j /\ durable[Inode(i)] # None /\ durable[Inode(j)] # None =>
        durable[Inode(i)].segs \cap durable[Inode(j)].segs = {}

\* An inode that no operation holds can be evicted and fetched again: if it is
\* clean, its record and its extent map are in headhunter as they are in memory.
CleanMatchesStore ==
    \A i \in DOMAIN inodeCache : ~inodeCache[i].dirty /\ Unlocked(i) =>
      LET rec == recs[Inode(i)] IN
      /\ rec = [payload |-> inodeCache[i].node, segs |-> inodeCache[i].segs,
                linked |-> TRUE]
      /\ recs[Payload(rec.payload)] = inodeCache[i].data

\* What was written can be read: each log segment of a file in memory is in
\* Swift or still in flight, unless its chunked PUT failed, and then flushing
\* the file keeps failing.
DataReadable ==
    \A i \in DOMAIN inodeCache : inodeCache[i].linked =>
      inodeCache[i].data \subseteq swift \cup inodeCache[i].inFlight \/ inodeCache[i].failed

\* Every operation that flushes or destroys an inode returns.
OperationsReturn == \A t \in Threads : op[t] # NoOp ~> op[t] = NoOp

\* A log segment that was queued for deletion leaves the queue: the checkpoint
\* it awaits is made and signalled, or the process dies.
DeletesHappen ==
    \A s \in Numbers :
      (\E d \in deletes : d[1] = s) ~> (\A d \in deletes : d[1] # s)

\* In the records r, the extent map that inode i's record names is there.
HasPayload(r, i) == r[Inode(i)] = None \/ r[Payload(r[Inode(i)].payload)] # None

\* An inode's record in headhunter names an extent map that is there, except
\* between Prune() and PutInodeRecs() of the flush that replaces the record.  If a
\* checkpoint falls between the two, the durable record names a deleted extent
\* map, and a crash brings that record back: this is the second exception.
PayloadKept ==
    \A i \in Inodes :
      \/ HasPayload(recs, i)
      \/ \E t \in Threads : i \in DOMAIN op[t].batch /\ op[t].pc \in {"prune", "flush", "put"}
      \/ ~HasPayload(durable, i)
=============================================================================
