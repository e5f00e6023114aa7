-------------------------- MODULE FileFlushProofs ---------------------------
(***************************************************************************)
(* The inductive invariant of FileFlush, its proof and the theorems that   *)
(* follow from it.  The argument is one of ownership: every log segment    *)
(* belongs to one inode, to one operation that is to delete it, or to the  *)
(* delete queue, and what a durable record names is not in the queue once  *)
(* its gate is open.                                                       *)
(***************************************************************************)
EXTENDS FileFlush, TLAPS

\* The inodes in memory.
Cached == DOMAIN inodeCache

\* Thread t is in flushInodes(): it has yet to put the records of its inodes.
Busy(t) == op[t].pc \in {"flush", "prune", "put"}

\* What an operation does after its records were put.
Late == {"wait", "gc", "drop", "discard"}

\* The LogSegmentMap of inode i in the records r.
Segs(r, i) == IF r[Inode(i)] = None THEN {} ELSE r[Inode(i)].segs

\* The log segments that inode i owns: in memory if it is cached.
Own(i) == IF i \in Cached THEN inodeCache[i].segs ELSE Segs(recs, i)

\* The payload objects that belong to inode i.
Mine(i) ==
    (IF i \in Cached THEN ({inodeCache[i].node} \cup inodeCache[i].stale) \ {None} ELSE {})
      \cup (IF recs[Inode(i)] = None THEN {} ELSE {recs[Inode(i)].payload})

\* What flushInodes() has collected for PutInodeRecs().
Batches == UNION {[D -> InodeRec] : D \in SUBSET Inodes}

\* What a thread's operation remembers.
Operation ==
    [pc : {"idle", "flush", "prune", "put"} \cup Late, locked : SUBSET Inodes,
     todo : SUBSET Inodes, batch : Batches, empty : SUBSET Numbers,
     gate : {"open", "closed"}, victims : SUBSET Inodes]

\* Each key of the store holds what belongs there.
IsStore(r) ==
    /\ r \in [Keys -> Values \cup {None}]
    /\ \A i \in Inodes : r[Inode(i)] \in InodeRec \cup {None}
    /\ \A n \in Numbers : /\ r[Payload(n)] \in (SUBSET Numbers) \cup {None}
                          /\ r[Segment(n)] \in {"container", None}

\* The types of what the proofs read.
TypeInv ==
    /\ IsStore(recs) /\ IsStore(durable)
    /\ Cached \subseteq Inodes
    /\ inodeCache \in [Cached -> InMemoryInode]
    /\ op \in [Threads -> Operation]
    /\ deletes \subseteq Numbers \X {"open", "closed"}

\* What makes the records r, of the process or of a checkpoint, whole: a log
\* segment that a LogSegmentMap names is in Swift, has a record and belongs to one
\* inode; payload objects belong to one inode; and the extent map of a linked file
\* names the segments of its LogSegmentMap.
StoreOK(r) ==
    /\ \A i \in Inodes : \A s \in Segs(r, i) :
         s \in swift /\ s \in used /\ r[Segment(s)] = "container"
    /\ \A i, j \in Inodes : i # j => Segs(r, i) \cap Segs(r, j) = {}
    /\ \A i \in Inodes : r[Inode(i)] # None => i \in used /\ r[Inode(i)].payload \in used
    /\ \A i, j \in Inodes : i # j /\ r[Inode(i)] # None /\ r[Inode(j)] # None =>
         r[Inode(i)].payload # r[Inode(j)].payload
    /\ \A i \in Inodes :
         r[Inode(i)] # None /\ r[Inode(i)].linked /\ HasPayload(r, i) =>
           r[Payload(r[Inode(i)].payload)] = r[Inode(i)].segs

\* Every log segment has one owner: an inode, an operation that is about to delete
\* it (empty), or the delete queue.  What an inode or an operation owns has its
\* record.
OwnInv ==
    /\ \A i, j \in Inodes : i # j => Own(i) \cap Own(j) = {}
    /\ \A i \in Inodes, t \in Threads : Own(i) \cap op[t].empty = {}
    /\ \A t, u \in Threads : t # u => op[t].empty \cap op[u].empty = {}
    /\ \A d \in deletes : /\ d[1] \in used
                          /\ \A i \in Inodes : d[1] \notin Own(i)
                          /\ \A t \in Threads : d[1] \notin op[t].empty
    /\ \A i \in Inodes : \A s \in Own(i) : s \in used /\ recs[Segment(s)] = "container"
    /\ \A t \in Threads : \A s \in op[t].empty : s \in used /\ recs[Segment(s)] = "container"

\* No flush that could still change the record of i is under way.
Settled(i) == \A t \in Threads : Busy(t) => i \notin op[t].locked

\* A settled inode owns what its record names.  During a flush the segments named
\* by the old records of the locked inodes belong to those inodes or are about to be
\* deleted by the same operation: Coalesce() moves them between its inodes.
RecInv ==
    /\ \A i \in Inodes : Settled(i) => Segs(recs, i) \subseteq Own(i)
    /\ \A t \in Threads : Busy(t) => \A i \in op[t].locked : \A s \in Segs(recs, i) :
         s \in op[t].empty \/ \E j \in op[t].locked : s \in Own(j)

\* A log segment that may be deleted now is named by no durable record, and neither
\* is one whose wait group was signalled before it is queued.
GcInv ==
    /\ \A d \in deletes : d[2] = "open" => \A i \in Inodes : d[1] \notin Segs(durable, i)
    /\ \A t \in Threads : op[t].pc = "gc" /\ op[t].gate = "open" =>
         \A i \in Inodes : op[t].empty \cap Segs(durable, i) = {}

\* Destroy() has deleted the record of i and has yet to discard its extent map.
Gone(i) == \E t \in Threads : op[t].pc = "discard" /\ i \in op[t].todo

\* An operation is to destroy i, or is doing so.
Unlinked(i) ==
    \E t \in Threads : \/ i \in op[t].victims
                       \/ op[t].pc \in {"drop", "discard"} /\ i \in op[t].todo

\* An inode in memory: the segment it writes to is in flight, what it can read is
\* in Swift or in flight, its extent map is put under its node, only an operation
\* that destroys it or a failed flush leaves it unlinked, and what is clean is in
\* headhunter.
InodeOK(i) ==
    LET m == inodeCache[i] IN
    /\ i \in used
    /\ m.openLogSegment # None => m.openLogSegment \in m.inFlight
    /\ m.inFlight \subseteq m.segs
    /\ m.linked => m.data \subseteq m.segs
    /\ m.data \cap m.segs \subseteq swift \cup m.inFlight \/ m.failed
    /\ m.node # None => m.node \in used /\ recs[Payload(m.node)] = m.data
    /\ m.stale \subseteq used /\ m.node \notin m.stale
    /\ ~m.linked => m.failed \/ Unlinked(i)
    /\ ~m.dirty => /\ ~m.failed /\ m.inFlight = {} /\ m.node # None
                   /\ m.segs \subseteq m.data
                   /\ ~Gone(i) => recs[Inode(i)] = [payload |-> m.node, segs |-> m.segs,
                                                    linked |-> m.linked]

\* Every inode in memory is as it should be.
MemInv == \A i \in Cached : InodeOK(i)

\* No payload object belongs to two inodes, so that Prune() and Discard() of one
\* inode never delete the extent map of another.
PayInv ==
    /\ \A i, j \in Inodes : i # j => Mine(i) \cap Mine(j) = {}
    /\ \A i \in Inodes :
         \/ HasPayload(recs, i)
         \/ \E t \in Threads : Busy(t) /\ i \in DOMAIN op[t].batch
         \/ i \notin Cached /\ ~HasPayload(durable, i)

\* All log segments of the inode are in Swift.
Complete(m) == ~m.failed /\ m.inFlight = {}

\* An operation in flushInodes(): what it collected is what its inodes are.  When
\* one of its inodes can still fail to flush, it is the only one: a failed flush
\* forgets no segment and leaves no other inode half done.
FlushOK(t) ==
    LET o == op[t] IN
    /\ o.locked \subseteq Cached
    /\ \A i \in o.locked : inodeCache[i].dirty
    /\ DOMAIN o.batch = o.locked \ o.todo
    /\ \A i \in DOMAIN o.batch :
         /\ inodeCache[i].node # None /\ Complete(inodeCache[i])
         /\ inodeCache[i].segs \subseteq inodeCache[i].data
         /\ o.batch[i] = [payload |-> inodeCache[i].node, segs |-> inodeCache[i].segs,
                          linked |-> inodeCache[i].linked]
    /\ \/ \A i \in o.locked : Complete(inodeCache[i])
       \/ o.todo = o.locked /\ o.empty = {} /\ \A i, j \in o.locked : i = j
    /\ o.pc = "put" => o.todo = {}

\* An operation after PutInodeRecs(): its inodes are clean.
LateOK(t) ==
    LET o == op[t] IN
    /\ DOMAIN o.batch = {}
    /\ o.victims \cup o.todo \subseteq Cached
    /\ \A i \in o.locked \cap Cached : ~inodeCache[i].dirty
    /\ o.pc \in {"wait", "gc"} => o.todo = {}
    /\ o.pc \in {"drop", "discard"} => o.empty = {}
    /\ o.pc = "drop" => o.victims = {}
    /\ o.pc = "discard" => /\ \A i, j \in o.todo : i = j
                           /\ \A i \in o.todo : recs[Inode(i)] = None /\ i \notin o.victims

\* What holds of the operation of thread t.
ThreadOK(t) ==
    /\ op[t].todo \subseteq op[t].locked /\ op[t].victims \subseteq op[t].locked
    /\ op[t].locked \subseteq used
    /\ op[t].pc = "idle" => op[t] = NoOp
    /\ Busy(t) => FlushOK(t)
    /\ op[t].pc \in Late => LateOK(t)

\* No inode is locked twice, and every operation is as it should be.
OpInv ==
    /\ \A t, u \in Threads : t # u => op[t].locked \cap op[u].locked = {}
    /\ \A t \in Threads : ThreadOK(t)

\* The inductive invariant.
IInv ==
    /\ TypeInv /\ StoreOK(recs) /\ StoreOK(durable) /\ OwnInv /\ RecInv /\ GcInv
    /\ MemInv /\ PayInv /\ OpInv
-----------------------------------------------------------------------------
\* The keys of records, segments and payload objects are distinct.
LEMMA KeyFacts ==
    /\ \A i \in Inodes : Inode(i) \in Keys
    /\ \A n \in Numbers : Payload(n) \in Keys /\ Segment(n) \in Keys
    /\ \A i, j : Inode(i) = Inode(j) => i = j
    /\ \A i, j : Payload(i) = Payload(j) => i = j
    /\ \A i, j : Segment(i) = Segment(j) => i = j
    /\ \A i, n : Inode(i) # Payload(n) /\ Inode(i) # Segment(n) /\ Payload(i) # Segment(n)
<1>1. "inode" # "payload" /\ "inode" # "segment" /\ "payload" # "segment"
  BY Zenon
<1>2. /\ \A i \in Inodes : Inode(i) \in Keys
      /\ \A n \in Numbers : Payload(n) \in Keys /\ Segment(n) \in Keys
  BY Zenon DEF Keys
<1> QED BY Zenon, <1>1, <1>2 DEF Inode, Payload, Segment

\* An inode in memory that a step does not touch stays as it should be.
LEMMA InodeStays ==
    ASSUME NEW i, i \in Cached, InodeOK(i), inodeCache'[i] = inodeCache[i],
           used \subseteq used', swift \subseteq swift',
           inodeCache[i].node # None =>
             recs'[Payload(inodeCache[i].node)] = recs[Payload(inodeCache[i].node)],
           recs'[Inode(i)] = recs[Inode(i)],
           Unlinked(i) => Unlinked(i)', Gone(i) => Gone(i)'
    PROVE  InodeOK(i)'
BY Zenon DEF InodeOK

\* So do records, when no object leaves Swift.
LEMMA StoreStays ==
    ASSUME StoreOK(durable), durable' = durable, used \subseteq used', swift \subseteq swift'
    PROVE  StoreOK(durable)'
BY Zenon DEF StoreOK, Segs, HasPayload

\* Ownership stays as it is when no owner gains a segment and no container record
\* of a log segment goes.
LEMMA OwnStays ==
    ASSUME OwnInv, used \subseteq used', deletes' = deletes,
           \A i \in Inodes : Own(i)' = Own(i),
           \A t \in Threads : op'[t].empty = op[t].empty,
           \A n \in Numbers : recs[Segment(n)] = "container" => recs'[Segment(n)] = "container",
           \A i \in Inodes : Own(i) \subseteq Numbers,
           \A t \in Threads : op[t].empty \subseteq Numbers
    PROVE  OwnInv'
BY Zenon DEF OwnInv

\* What is owned are numbers, and what is locked are inodes.
LEMMA OwnTypes ==
    ASSUME IInv
    PROVE  /\ \A i \in Inodes : Own(i) \subseteq Numbers
           /\ \A t \in Threads : op[t].empty \subseteq Numbers /\ op[t].locked \subseteq Inodes
<1>1. \A i \in Inodes : Own(i) \subseteq Numbers
  BY Zenon DEF IInv, TypeInv, Own, Segs, IsStore, InodeRec, InMemoryInode
<1>2. \A t \in Threads : op[t].empty \subseteq Numbers /\ op[t].locked \subseteq Inodes
  BY Zenon DEF IInv, TypeInv, Operation
<1> QED BY Zenon, <1>1, <1>2

\* Ownership when no owner changes and nothing new waits to be deleted.
LEMMA OwnSame ==
    ASSUME IInv, used' = used, recs' = recs,
           \A d \in deletes' : \E e \in deletes : d[1] = e[1],
           \A i \in Inodes : Own(i)' = Own(i),
           \A t \in Threads : op'[t].empty = op[t].empty
    PROVE  OwnInv'
<1> OwnInv
  BY Zenon DEF IInv
<1>1. ASSUME NEW d \in deletes'
      PROVE  /\ d[1] \in used'
             /\ \A i \in Inodes : d[1] \notin Own(i)'
             /\ \A t \in Threads : d[1] \notin op'[t].empty
  <2>1. PICK e \in deletes : d[1] = e[1]
    BY Zenon
  <2>2. /\ e[1] \in used
        /\ \A i \in Inodes : e[1] \notin Own(i)
        /\ \A t \in Threads : e[1] \notin op[t].empty
    BY Zenon DEF OwnInv
  <2> QED BY Zenon, <2>1, <2>2
<1>2. \A i, j \in Inodes : i # j => Own(i)' \cap Own(j)' = {}
  BY Zenon DEF OwnInv
<1>3. \A i \in Inodes, t \in Threads : Own(i)' \cap op'[t].empty = {}
  BY Zenon DEF OwnInv
<1>4. \A t, u \in Threads : t # u => op'[t].empty \cap op'[u].empty = {}
  BY Zenon DEF OwnInv
<1>5. \A i \in Inodes : \A s \in Own(i)' : s \in used' /\ recs'[Segment(s)] = "container"
  BY Zenon DEF OwnInv
<1>6. \A t \in Threads : \A s \in op'[t].empty : s \in used' /\ recs'[Segment(s)] = "container"
  BY Zenon DEF OwnInv
<1> QED BY Zenon, <1>1, <1>2, <1>3, <1>4, <1>5, <1>6 DEF OwnInv

\* The records go on naming what the inodes own while no operation that may still
\* change them loses an inode or a segment.
LEMMA RecStays ==
    ASSUME IInv,
           \A i \in Inodes : Settled(i)' => Segs(recs, i)' \subseteq Own(i)',
           \A t \in Threads : Busy(t)' =>
             /\ Busy(t) /\ op'[t].locked = op[t].locked /\ op'[t].empty = op[t].empty
             /\ \A i \in op[t].locked : /\ Segs(recs, i)' \subseteq Segs(recs, i)
                                       /\ Own(i)' = Own(i)
    PROVE  RecInv'
<1>1. ASSUME NEW t \in Threads, Busy(t)', NEW i \in op'[t].locked, NEW s \in Segs(recs, i)'
      PROVE  s \in op'[t].empty \/ \E j \in op'[t].locked : s \in Own(j)'
  <2>1. /\ Busy(t) /\ op'[t].locked = op[t].locked /\ op'[t].empty = op[t].empty
        /\ i \in op[t].locked /\ s \in Segs(recs, i)
    BY Zenon, <1>1
  <2>2. s \in op[t].empty \/ \E j \in op[t].locked : s \in Own(j)
    BY Zenon, <2>1 DEF IInv, RecInv
  <2>3. \A j \in op[t].locked : Own(j)' = Own(j)
    BY Zenon, <1>1
  <2> QED BY Zenon, <2>1, <2>2, <2>3
<1> QED BY Zenon, <1>1 DEF RecInv

\* The same when nothing of what RecInv speaks of changes.
LEMMA RecSame ==
    ASSUME IInv,
           \A i \in Inodes : /\ Settled(i)' <=> Settled(i)
                             /\ Segs(recs, i)' \subseteq Segs(recs, i)
                             /\ Own(i)' = Own(i),
           \A t \in Threads : Busy(t)' =>
             Busy(t) /\ op'[t].locked = op[t].locked /\ op'[t].empty = op[t].empty
    PROVE  RecInv'
<1>1. \A i \in Inodes : Settled(i)' => Segs(recs, i)' \subseteq Own(i)'
  BY Zenon DEF IInv, RecInv
<1>2. \A t \in Threads : Busy(t)' => \A i \in op[t].locked :
        Segs(recs, i)' \subseteq Segs(recs, i) /\ Own(i)' = Own(i)
  BY Zenon, OwnTypes
<1> QED BY Zenon, <1>1, <1>2, RecStays

\* The operations of threads whose inodes a step does not touch.
LEMMA ThreadsStay ==
    ASSUME NEW U \in SUBSET Threads, OpInv, used \subseteq used',
           \A u \in U : op'[u] = op[u],
           \A u \in U : \A i \in op[u].locked :
             /\ i \in Cached' <=> i \in Cached
             /\ i \in Cached => inodeCache'[i] = inodeCache[i]
             /\ recs'[Inode(i)] = recs[Inode(i)]
    PROVE  \A u \in U : ThreadOK(u)'
<1> SUFFICES ASSUME NEW u \in U PROVE ThreadOK(u)'
  BY Zenon
<1>1. ThreadOK(u) /\ op'[u] = op[u]
  BY Zenon DEF OpInv
<1>2. Busy(u) => FlushOK(u)'
  BY <1>1 DEF ThreadOK, FlushOK, Complete
<1>3. op[u].pc \in Late => LateOK(u)'
  BY <1>1 DEF ThreadOK, LateOK
<1> QED BY Zenon, <1>1, <1>2, <1>3 DEF ThreadOK, Busy

\* The payload object that the record of i names.
PayloadOf(i) == recs[Inode(i)].payload

\* The records stay whole when only payload objects and unneeded log segment
\* records go.
LEMMA RecsStay ==
    ASSUME IInv, used \subseteq used', swift \subseteq swift',
           \A i \in Inodes : recs'[Inode(i)] = recs[Inode(i)],
           \A i \in Inodes : recs[Inode(i)] # None =>
             \/ recs'[Payload(PayloadOf(i))] = recs[Payload(PayloadOf(i))]
             \/ recs'[Payload(PayloadOf(i))] = None,
           \A i \in Inodes : \A s \in Segs(recs, i) : recs'[Segment(s)] = "container"
    PROVE  /\ StoreOK(recs)'
           /\ \A i \in Inodes : Segs(recs, i)' = Segs(recs, i)
<1>1. \A i \in Inodes : Segs(recs, i)' = Segs(recs, i)
  BY Zenon DEF Segs
<1>2. \A i \in Inodes : recs[Inode(i)] # None /\ HasPayload(recs, i)' =>
        /\ HasPayload(recs, i)
        /\ recs'[Payload(PayloadOf(i))] = recs[Payload(PayloadOf(i))]
  BY Zenon DEF HasPayload, PayloadOf
<1>3. StoreOK(recs)'
  BY <1>1, <1>2 DEF IInv, StoreOK, PayloadOf
<1> QED BY Zenon, <1>1, <1>3

\* The records stay whole when the inode records and the payloads do not change.
LEMMA QuietStore ==
    ASSUME IInv, durable' = durable,
           used \subseteq used', swift \subseteq swift',
           \A i \in Inodes : recs'[Inode(i)] = recs[Inode(i)],
           \A n \in Numbers : recs'[Payload(n)] = recs[Payload(n)],
           \A n \in Numbers : recs[Segment(n)] = "container" => recs'[Segment(n)] = "container"
    PROVE  /\ StoreOK(recs)' /\ StoreOK(durable)'
           /\ \A i \in Inodes : /\ Segs(recs, i)' = Segs(recs, i)
                                /\ HasPayload(recs, i)' <=> HasPayload(recs, i)
                                /\ HasPayload(durable, i)' <=> HasPayload(durable, i)
<1>1. \A i \in Inodes : Segs(recs, i) \subseteq Numbers
  BY Zenon DEF Segs, IInv, TypeInv, IsStore, InodeRec
<1>2. \A i \in Inodes : \A s \in Segs(recs, i) : recs'[Segment(s)] = "container"
  BY Zenon, <1>1 DEF IInv, StoreOK
<1>3. StoreOK(durable)'
  BY Zenon, StoreStays DEF IInv
<1>4. \A i \in Inodes : recs[Inode(i)] # None => PayloadOf(i) \in Numbers
  BY Zenon DEF PayloadOf, IInv, TypeInv, IsStore, InodeRec
<1>5. StoreOK(recs)' /\ \A i \in Inodes : Segs(recs, i)' = Segs(recs, i)
  BY Zenon, <1>2, <1>4, RecsStay
<1>6. \A i \in Inodes : HasPayload(recs, i)' <=> HasPayload(recs, i)
  BY Zenon, <1>4 DEF HasPayload, PayloadOf
<1> QED BY Zenon, <1>3, <1>5, <1>6 DEF HasPayload

\* As QuietStore, for a step that changes no operation either.
LEMMA Quiet ==
    ASSUME IInv, op' = op, durable' = durable, deletes' = deletes,
           used \subseteq used', swift \subseteq swift',
           \A i \in Inodes : recs'[Inode(i)] = recs[Inode(i)],
           \A n \in Numbers : recs'[Payload(n)] = recs[Payload(n)],
           \A n \in Numbers : recs[Segment(n)] = "container" => recs'[Segment(n)] = "container"
    PROVE  /\ StoreOK(recs)' /\ StoreOK(durable)' /\ GcInv'
           /\ \A i \in Inodes : /\ Segs(recs, i)' = Segs(recs, i)
                                /\ HasPayload(recs, i)' <=> HasPayload(recs, i)
                                /\ HasPayload(durable, i)' <=> HasPayload(durable, i)
                                /\ Settled(i)' <=> Settled(i)
                                /\ Unlinked(i)' <=> Unlinked(i)
                                /\ Gone(i)' <=> Gone(i)
           /\ \A t \in Threads : Busy(t)' <=> Busy(t)
<1>1. GcInv'
  BY Zenon DEF IInv, GcInv, Segs
<1> QED BY Zenon, <1>1, QuietStore DEF Settled, Unlinked, Gone, Busy

\* A step of an operation that changes one inode that nobody has locked.
LEMMA OneInode ==
    ASSUME IInv, TypeInv', op' = op, durable' = durable, deletes' = deletes,
           used \subseteq used', swift \subseteq swift',
           \A j \in Inodes : recs'[Inode(j)] = recs[Inode(j)],
           \A n \in Numbers : recs'[Payload(n)] = recs[Payload(n)],
           \A n \in Numbers : recs[Segment(n)] = "container" => recs'[Segment(n)] = "container",
           NEW i \in Inodes, \A t \in Threads : i \notin op[t].locked,
           \A j \in Inodes \ {i} : /\ j \in Cached' <=> j \in Cached
                                   /\ j \in Cached => inodeCache'[j] = inodeCache[j],
           i \in Cached' => InodeOK(i)',
           Own(i) \subseteq Own(i)',
           \A s \in Own(i)' \ Own(i) :
             s \notin used /\ s \in used' /\ recs'[Segment(s)] = "container",
           Mine(i)' \subseteq Mine(i), HasPayload(recs, i)
    PROVE  IInv'
<1>1. /\ StoreOK(recs)' /\ StoreOK(durable)' /\ GcInv'
      /\ \A j \in Inodes : /\ Segs(recs, j)' = Segs(recs, j)
                           /\ HasPayload(recs, j)' <=> HasPayload(recs, j)
                           /\ HasPayload(durable, j)' <=> HasPayload(durable, j)
                           /\ Settled(j)' <=> Settled(j)
                           /\ Unlinked(j)' <=> Unlinked(j)
                           /\ Gone(j)' <=> Gone(j)
      /\ \A t \in Threads : Busy(t)' <=> Busy(t)
  BY Zenon, Quiet
<1>2. \A j \in Inodes \ {i} : Own(j)' = Own(j)
  BY Zenon, <1>1 DEF Own
<1>3. \A j \in Inodes : Own(j) \subseteq Numbers
  BY Zenon DEF IInv, TypeInv, Own, Segs, IsStore, InodeRec, InMemoryInode
<1>4. \A t \in Threads : op[t].empty \subseteq Numbers
  BY Zenon DEF IInv, TypeInv, Operation
<1>5. OwnInv'
  <2>1. \A j \in Inodes : \A s \in Own(j)' :
          \/ s \in Own(j)
          \/ j = i /\ s \notin used /\ s \in used' /\ recs'[Segment(s)] = "container"
    BY Zenon, <1>2
  <2>2. \A j, k \in Inodes : j # k => Own(j)' \cap Own(k)' = {}
    <3> SUFFICES ASSUME NEW j \in Inodes, NEW k \in Inodes, j # k,
                        NEW s \in Own(j)', s \in Own(k)'
                 PROVE  FALSE
      BY Zenon
    <3> QED BY ZenonT(60), <2>1 DEF IInv, OwnInv
  <2>3. \A j \in Inodes, t \in Threads : Own(j)' \cap op'[t].empty = {}
    BY Zenon, <2>1 DEF IInv, OwnInv
  <2>4. \A d \in deletes' : /\ d[1] \in used'
                            /\ \A j \in Inodes : d[1] \notin Own(j)'
                            /\ \A t \in Threads : d[1] \notin op'[t].empty
    BY Zenon, <2>1 DEF IInv, OwnInv
  <2>5. \A j \in Inodes : \A s \in Own(j)' : s \in used' /\ recs'[Segment(s)] = "container"
    BY Zenon, <2>1, <1>3 DEF IInv, OwnInv
  <2>6. \A t \in Threads : \A s \in op'[t].empty :
          s \in used' /\ recs'[Segment(s)] = "container"
    BY Zenon, <1>4 DEF IInv, OwnInv
  <2> QED BY Zenon, <2>2, <2>3, <2>4, <2>5, <2>6 DEF IInv, OwnInv
<1>6. RecInv'
  <2>1. \A j \in Inodes : Own(j) \subseteq Own(j)'
    BY Zenon, <1>2
  <2>2. \A t \in Threads : op[t].locked \subseteq Inodes
    BY Zenon DEF IInv, TypeInv, Operation
  <2> QED BY Zenon, <1>1, <2>1, <2>2 DEF IInv, RecInv
<1>7. MemInv'
  <2>1. Cached' \subseteq Inodes /\ \A j \in Cached : inodeCache[j].node \in Numbers \cup {None}
    BY Zenon DEF IInv, TypeInv, InMemoryInode
  <2> SUFFICES ASSUME NEW j \in Cached', j # i PROVE InodeOK(j)'
    BY Zenon DEF MemInv
  <2>2. j \in Cached /\ j \in Inodes /\ InodeOK(j)
    BY Zenon, <2>1 DEF IInv, MemInv
  <2> QED BY Zenon, <2>1, <2>2, <1>1, InodeStays
<1>8. PayInv'
  <2>1. \A j \in Inodes \ {i} : Mine(j)' = Mine(j)
    BY Zenon DEF Mine
  <2>2. \A j, k \in Inodes : j # k => Mine(j)' \cap Mine(k)' = {}
    BY <2>1 DEF IInv, PayInv
  <2> QED BY Zenon, <1>1, <2>2 DEF IInv, PayInv
<1>9. OpInv'
  <2>1. \A t \in Threads : op[t].locked \subseteq Inodes
    BY Zenon DEF IInv, TypeInv, Operation
  <2>2. \A t \in Threads : \A j \in op[t].locked :
             /\ j \in Cached' <=> j \in Cached
             /\ j \in Cached => inodeCache'[j] = inodeCache[j]
             /\ recs'[Inode(j)] = recs[Inode(j)]
    BY Zenon, <2>1
  <2>3. OpInv /\ Threads \in SUBSET Threads /\ \A t \in Threads : op'[t] = op[t]
    BY Zenon DEF IInv
  <2>4. \A t \in Threads : ThreadOK(t)'
    BY Zenon, <2>2, <2>3, ThreadsStay
  <2> QED BY Zenon, <2>3, <2>4 DEF OpInv
<1> QED BY Zenon, <1>1, <1>5, <1>6, <1>7, <1>8, <1>9 DEF IInv

\* What the invariant says of an inode in memory, and of one that is not locked.
LEMMA NodeFacts ==
    ASSUME IInv
    PROVE  /\ \A i \in Cached : i \in Inodes /\ inodeCache[i] \in InMemoryInode
           /\ \A i \in Cached : InodeOK(i)
           /\ \A i \in Cached : (\A t \in Threads : i \notin op[t].locked) =>
                /\ HasPayload(recs, i) /\ Segs(recs, i) \subseteq Own(i)
                /\ ~Gone(i) /\ ~Unlinked(i)
<1>1. \A i \in Cached : i \in Inodes /\ inodeCache[i] \in InMemoryInode
  BY Zenon DEF IInv, TypeInv
<1>2. \A t \in Threads : /\ op[t].todo \subseteq op[t].locked /\ op[t].victims \subseteq op[t].locked
                         /\ Busy(t) => DOMAIN op[t].batch \subseteq op[t].locked
  BY DEF IInv, OpInv, ThreadOK, FlushOK
<1> QED BY Zenon, <1>1, <1>2 DEF IInv, MemInv, PayInv, RecInv, Settled, Gone, Unlinked

\* createFileInode().
LEMMA CreateFilePreserves ==
    ASSUME IInv, NEW i \in Inodes, CreateFile(i)
    PROVE  IInv'
<1>1. /\ i \notin used /\ used' = used \cup {i} /\ recs' = recs /\ durable' = durable
      /\ swift' = swift /\ op' = op /\ deletes' = deletes
      /\ Cached' = Cached \cup {i}
      /\ inodeCache' = [j \in Cached \cup {i} |-> IF j = i THEN NewInode ELSE inodeCache[j]]
  BY Zenon DEF CreateFile, storeVars, Set, With, Cached
<1>2. i \notin Cached /\ recs[Inode(i)] = None /\ \A t \in Threads : i \notin op[t].locked
  BY Zenon, <1>1, NodeFacts DEF IInv, InodeOK, StoreOK, OpInv, ThreadOK
<1>3. NewInode \in InMemoryInode
  BY Zenon DEF NewInode, InMemoryInode
<1>4. TypeInv'
  BY Zenon, <1>1, <1>3 DEF IInv, TypeInv, IsStore
<1>5. InodeOK(i)'
  BY Zenon, <1>1, <1>2 DEF InodeOK, NewInode
<1>6. Own(i) = {} /\ Own(i)' = {} /\ Mine(i)' = {} /\ HasPayload(recs, i)
  BY Zenon, <1>1, <1>2 DEF Own, Segs, NewInode, Mine, HasPayload
<1> QED BY Zenon, <1>1, <1>2, <1>4, <1>5, <1>6, OneInode

\* fetchOnDiskInode(): what was durable and whole is readable in memory.
LEMMA FetchInodePreserves ==
    ASSUME IInv, NEW i \in Inodes, FetchInode(i)
    PROVE  IInv'
<1> DEFINE rec == recs[Inode(i)]
           inode == [NewInode EXCEPT !.data = recs[Payload(rec.payload)],
                                     !.segs = rec.segs, !.node = rec.payload]
<1>1. /\ used' = used /\ recs' = recs /\ durable' = durable
      /\ swift' = swift /\ op' = op /\ deletes' = deletes
      /\ Cached' = Cached \cup {i}
      /\ inodeCache' = [j \in Cached \cup {i} |-> IF j = i THEN inode ELSE inodeCache[j]]
      /\ i \notin Cached /\ \A t \in Threads : i \notin op[t].locked
      /\ rec # None /\ rec.linked /\ recs[Payload(rec.payload)] # None
  BY Zenon DEF FetchInode, storeVars, Set, With, Cached
<1>2. /\ rec \in InodeRec /\ recs[Payload(rec.payload)] \in SUBSET Numbers
      /\ rec.payload # None
  <2>1. rec \in InodeRec
    BY Zenon, <1>1 DEF IInv, TypeInv, IsStore
  <2>2. rec.payload \in Numbers
    BY Zenon, <2>1 DEF InodeRec
  <2>3. recs[Payload(rec.payload)] \in (SUBSET Numbers) \cup {None}
    BY Zenon, <2>2 DEF IInv, TypeInv, IsStore
  <2> QED BY Zenon, <1>1, <2>1, <2>2, <2>3, NoneAssumption
<1>3. HasPayload(recs, i)
  BY Zenon, <1>1 DEF HasPayload
<1>4. /\ rec.payload \in used /\ i \in used /\ recs[Payload(rec.payload)] = rec.segs
      /\ rec.segs \subseteq swift
  BY Zenon, <1>1, <1>3 DEF IInv, StoreOK, Segs
<1>5. /\ inode \in InMemoryInode /\ inode.data = rec.segs /\ inode.segs = rec.segs
      /\ inode.node = rec.payload /\ inode.dirty /\ inode.linked /\ ~inode.failed
      /\ inode.stale = {} /\ inode.inFlight = {} /\ inode.openLogSegment = None
  BY ZenonT(60), <1>2, <1>4 DEF NewInode, InMemoryInode, InodeRec
<1> HIDE DEF inode
<1>6. TypeInv'
  BY Zenon, <1>1, <1>5 DEF IInv, TypeInv, IsStore
<1>7. InodeOK(i)'
  BY Zenon, <1>1, <1>4, <1>5 DEF InodeOK
<1>8. Own(i) = Own(i)' /\ Mine(i)' = Mine(i)
  BY Zenon, <1>1, <1>2, <1>5 DEF Own, Segs, Mine
<1> QED BY Zenon, <1>1, <1>3, <1>6, <1>7, <1>8, OneInode

\* Purge() of a clean inode loses nothing: its record owns the same segments.
LEMMA PurgePreserves ==
    ASSUME IInv, NEW i \in Inodes, Purge(i)
    PROVE  IInv'
<1>1. /\ used' = used /\ recs' = recs /\ durable' = durable
      /\ swift' = swift /\ op' = op /\ deletes' = deletes
      /\ Cached' = Cached \ {i}
      /\ inodeCache' = [j \in Cached \ {i} |-> inodeCache[j]]
      /\ i \in Cached /\ \A t \in Threads : i \notin op[t].locked
      /\ ~inodeCache[i].dirty
  BY Zenon DEF Purge, Unlocked, storeVars, Remove, Cached
<1>2. TypeInv'
  BY Zenon, <1>1 DEF IInv, TypeInv, IsStore
<1>3. recs[Inode(i)] = [payload |-> inodeCache[i].node, segs |-> inodeCache[i].segs,
                        linked |-> inodeCache[i].linked] /\ HasPayload(recs, i)
  BY Zenon, <1>1, NodeFacts DEF InodeOK
<1>4. Own(i)' = Own(i)
  <2>1. recs[Inode(i)] # None
    BY <1>3, <1>1, NodeFacts, NoneAssumption DEF InMemoryInode, InodeRec, InodeOK
  <2> QED BY <1>1, <1>3, <2>1 DEF Own, Segs
<1>5. Mine(i)' \subseteq Mine(i)
  BY Zenon, <1>1 DEF Mine
<1> QED BY Zenon, <1>1, <1>2, <1>3, <1>4, <1>5, OneInode

\* Write(): a new log segment has a number that nobody has used.
LEMMA WritePreserves ==
    ASSUME IInv, NEW i \in Inodes, NEW s \in Numbers, NEW R \in SUBSET Numbers,
           NEW full \in BOOLEAN, Write(i, s, R, full)
    PROVE  IInv'
<1> DEFINE inode == inodeCache[i]
           new == [WithData(inode, (inode.data \ R) \cup {s}) EXCEPT
                     !.segs = @ \cup {s}, !.inFlight = @ \cup {s},
                     !.openLogSegment = IF full THEN None ELSE s]
<1>1. /\ used' = used \cup {s} /\ durable' = durable
      /\ recs' = [recs EXCEPT ![Segment(s)] = "container"]
      /\ swift' = swift /\ op' = op /\ deletes' = deletes
      /\ i \in Cached /\ \A t \in Threads : i \notin op[t].locked
      /\ inode.openLogSegment # None => s = inode.openLogSegment
      /\ inode.openLogSegment = None => s \notin used
  BY Zenon DEF Write, Unlocked, Cached
<1>2. /\ Cached' = Cached
      /\ inodeCache' = [j \in Cached |-> IF j = i THEN new ELSE inodeCache[j]]
  BY Zenon, <1>1 DEF Write, Set, With, Cached
<1>3. inode \in InMemoryInode /\ InodeOK(i) /\ s # None
  BY Zenon, <1>1, NodeFacts, NoneAssumption
<1>4. /\ new \in InMemoryInode /\ new.data = (inode.data \ R) \cup {s}
      /\ new.segs = inode.segs \cup {s} /\ new.inFlight = inode.inFlight \cup {s}
      /\ new.openLogSegment = IF full THEN None ELSE s
      /\ new.node = None /\ new.stale = inode.stale \cup ({inode.node} \ {None})
      /\ new.dirty /\ (new.linked <=> inode.linked) /\ (new.failed <=> inode.failed)
  BY ZenonT(60), <1>3 DEF WithData, InMemoryInode
<1> HIDE DEF new
<1>5. /\ \A j \in Inodes : recs'[Inode(j)] = recs[Inode(j)]
      /\ \A n \in Numbers : recs'[Payload(n)] = recs[Payload(n)]
      /\ \A n \in Numbers : recs'[Segment(n)] = IF n = s THEN "container" ELSE recs[Segment(n)]
      /\ recs' \in [Keys -> Values \cup {None}]
  <2>1. recs \in [Keys -> Values \cup {None}]
    BY Zenon DEF IInv, TypeInv, IsStore
  <2>2. "container" \in Values
    BY Zenon DEF Values
  <2> QED BY Zenon, <1>1, <2>1, <2>2, KeyFacts
<1>6. TypeInv'
  BY <1>1, <1>2, <1>4, <1>5 DEF IInv, TypeInv, IsStore
<1>7. Unlinked(i)' <=> Unlinked(i)
  BY Zenon, <1>1 DEF Unlinked
<1>8. InodeOK(i)'
  <2>1. inodeCache'[i] = new
    BY Zenon, <1>1, <1>2
  <2>2. new.data \cap new.segs \subseteq swift' \cup new.inFlight \/ new.failed
    BY Zenon, <1>1, <1>3, <1>4 DEF InodeOK
  <2>3. new.stale \subseteq used' /\ new.node \notin new.stale
    BY <1>1, <1>3, <1>4, NoneAssumption DEF InodeOK, InMemoryInode
  <2>4. /\ i \in used' /\ new.inFlight \subseteq new.segs
        /\ new.openLogSegment # None => new.openLogSegment \in new.inFlight
        /\ new.linked => new.data \subseteq new.segs
    BY Zenon, <1>1, <1>3, <1>4 DEF InodeOK
  <2> QED BY Zenon, <2>1, <2>2, <2>3, <2>4, <1>3, <1>4, <1>7 DEF InodeOK
<1>9. /\ Own(i) = inode.segs /\ Own(i)' = inode.segs \cup {s}
  BY Zenon, <1>1, <1>2, <1>4 DEF Own
<1>10. \A x \in Own(i)' \ Own(i) : x \notin used /\ x \in used' /\ recs'[Segment(x)] = "container"
  BY <1>1, <1>3, <1>5, <1>9 DEF InodeOK
<1>11. Mine(i)' \subseteq Mine(i)
  BY Zenon, <1>1, <1>2, <1>4, <1>5 DEF Mine
<1>12. /\ used \subseteq used' /\ swift \subseteq swift' /\ Own(i) \subseteq Own(i)'
       /\ HasPayload(recs, i)
  BY Zenon, <1>1, <1>9, NodeFacts
<1>13. \A j \in Inodes \ {i} : /\ j \in Cached' <=> j \in Cached
                               /\ j \in Cached => inodeCache'[j] = inodeCache[j]
  BY Zenon, <1>2
<1>14. \A n \in Numbers : recs[Segment(n)] = "container" => recs'[Segment(n)] = "container"
  BY Zenon, <1>5
<1> QED BY Zenon, <1>1, <1>5, <1>6, <1>8, <1>10, <1>11, <1>12, <1>13, <1>14, OneInode

\* The flusher of a log segment ends, with or without an error.
LEMMA ClosePreserves ==
    ASSUME IInv, NEW i \in Cached, NEW s \in inodeCache[i].inFlight, NEW failed \in BOOLEAN,
           s # inodeCache[i].openLogSegment,
           recs' = recs, durable' = durable, op' = op, deletes' = deletes, used' = used,
           swift' = IF failed THEN swift ELSE swift \cup {s},
           Cached' = Cached,
           inodeCache' = [j \in Cached |->
             IF j = i THEN [inodeCache[i] EXCEPT !.inFlight = @ \ {s},
                                                 !.failed = @ \/ failed]
             ELSE inodeCache[j]]
    PROVE  IInv'
<1> DEFINE inode == inodeCache[i]
           new == [inode EXCEPT !.inFlight = @ \ {s}, !.failed = @ \/ failed]
<1>1. inode \in InMemoryInode /\ InodeOK(i) /\ i \in Inodes
  BY Zenon, NodeFacts
<1>2. /\ new \in InMemoryInode /\ new.data = inode.data
      /\ new.segs = inode.segs /\ new.inFlight = inode.inFlight \ {s}
      /\ new.openLogSegment = inode.openLogSegment
      /\ new.node = inode.node /\ new.stale = inode.stale
      /\ new.dirty = inode.dirty /\ new.linked = inode.linked
      /\ new.failed = (inode.failed \/ failed)
  BY Zenon, <1>1 DEF InMemoryInode
<1>3. /\ inodeCache'[i] = new
      /\ \A j \in Cached \ {i} : inodeCache'[j] = inodeCache[j]
      /\ inodeCache' \in [Cached' -> InMemoryInode]
      /\ swift \subseteq swift'
  BY Zenon, <1>2 DEF IInv, TypeInv
<1> HIDE DEF new
<1>4. TypeInv'
  BY Zenon, <1>3 DEF IInv, TypeInv, IsStore
<1>5. /\ StoreOK(recs)' /\ StoreOK(durable)' /\ GcInv'
      /\ \A j \in Inodes : /\ Segs(recs, j)' = Segs(recs, j)
                           /\ HasPayload(recs, j)' <=> HasPayload(recs, j)
                           /\ HasPayload(durable, j)' <=> HasPayload(durable, j)
                           /\ Settled(j)' <=> Settled(j)
                           /\ Unlinked(j)' <=> Unlinked(j)
                           /\ Gone(j)' <=> Gone(j)
      /\ \A t \in Threads : Busy(t)' <=> Busy(t)
  BY Zenon, <1>3, Quiet
<1>6. \A j \in Inodes : Own(j)' = Own(j) /\ Mine(j)' = Mine(j)
  BY <1>2, <1>3, <1>5 DEF Own, Mine
<1>7. OwnInv'
  BY Zenon, <1>6, OwnSame
<1>8. RecInv'
  BY Zenon, <1>5, <1>6, RecSame
<1>9. inode.dirty
  BY Zenon, <1>1 DEF InodeOK
<1>10. MemInv'
  <2>1. InodeOK(i)'
    BY ZenonT(60), <1>1, <1>2, <1>3, <1>5, <1>9 DEF InodeOK, InMemoryInode
  <2>2. ASSUME NEW j \in Cached \ {i} PROVE InodeOK(j)'
    BY Zenon, <1>3, <1>5, InodeStays, NodeFacts
  <2> QED BY Zenon, <2>1, <2>2 DEF MemInv
<1>11. PayInv'
  BY Zenon, <1>5, <1>6 DEF IInv, PayInv
<1>12. OpInv'
  <2> SUFFICES ASSUME NEW t \in Threads PROVE ThreadOK(t)'
    BY Zenon DEF IInv, OpInv
  <2>1. ThreadOK(t)
    BY Zenon DEF IInv, OpInv
  <2>2. CASE i \notin op[t].locked
    <3>1. {t} \in SUBSET Threads /\ OpInv /\ used \subseteq used'
      BY Zenon DEF IInv
    <3> QED BY Zenon, <2>2, <3>1, <1>3, ThreadsStay
  <2>3. CASE i \in op[t].locked
    <3>1. op[t].pc \notin Late
      BY Zenon, <2>1, <2>3, <1>9 DEF ThreadOK, LateOK
    <3>2. Busy(t) => FlushOK(t)'
      <4> SUFFICES ASSUME Busy(t) PROVE FlushOK(t)'
        BY Zenon
      <4>1. FlushOK(t)
        BY Zenon, <2>1 DEF ThreadOK
      <4>2. i \notin DOMAIN op[t].batch
        BY Zenon, <4>1 DEF FlushOK, Complete
      <4>3. ~Complete(inodeCache[i])
        BY Zenon DEF Complete
      <4> QED BY ZenonT(60), <4>1, <4>2, <4>3, <2>3, <1>2, <1>3 DEF FlushOK, Complete
    <3> QED BY Zenon, <2>1, <3>1, <3>2 DEF ThreadOK, Busy
  <2> QED BY Zenon, <2>2, <2>3
<1> QED BY Zenon, <1>4, <1>5, <1>7, <1>8, <1>10, <1>11, <1>12 DEF IInv

\* inFlightLogSegmentFlusher(), whether Close() succeeds or fails.
LEMMA CloseLogSegmentPreserves ==
    ASSUME IInv, NEW i \in Inodes, NEW s \in Numbers,
           CloseLogSegment(i, s) \/ CloseFails(i, s)
    PROVE  IInv'
<1>1. CASE CloseLogSegment(i, s)
  <2>1. /\ i \in Cached /\ s \in inodeCache[i].inFlight /\ s # inodeCache[i].openLogSegment
        /\ recs' = recs /\ durable' = durable /\ op' = op /\ deletes' = deletes
        /\ used' = used /\ swift' = swift \cup {s} /\ Cached' = Cached
    BY Zenon, <1>1 DEF CloseLogSegment, storeVars, Cached
  <2>2. inodeCache[i] \in InMemoryInode
    BY Zenon, <2>1, NodeFacts
  <2>3. inodeCache' = [j \in Cached |->
             IF j = i THEN [inodeCache[i] EXCEPT !.inFlight = @ \ {s},
                                                 !.failed = @ \/ FALSE]
             ELSE inodeCache[j]]
    BY ZenonT(60), <1>1, <2>1, <2>2 DEF CloseLogSegment, IInv, TypeInv, InMemoryInode
  <2> QED BY Zenon, <2>1, <2>3, ClosePreserves
<1>2. CASE CloseFails(i, s)
  <2>1. /\ i \in Cached /\ s \in inodeCache[i].inFlight /\ s # inodeCache[i].openLogSegment
        /\ recs' = recs /\ durable' = durable /\ op' = op /\ deletes' = deletes
        /\ used' = used /\ swift' = swift /\ Cached' = Cached
    BY Zenon, <1>2 DEF CloseFails, storeVars, Cached
  <2>2. inodeCache[i] \in InMemoryInode
    BY Zenon, <2>1, NodeFacts
  <2>3. inodeCache' = [j \in Cached |->
             IF j = i THEN [inodeCache[i] EXCEPT !.inFlight = @ \ {s},
                                                 !.failed = @ \/ TRUE]
             ELSE inodeCache[j]]
    BY Zenon, <1>2, <2>1, <2>2 DEF CloseFails, IInv, TypeInv, InMemoryInode
  <2> QED BY Zenon, <2>1, <2>3, ClosePreserves
<1> QED BY Zenon, <1>1, <1>2

-----------------------------------------------------------------------------
(***************************************************************************)
(* The steps that begin an operation.                                      *)
(***************************************************************************)
\* The start of an operation that flushes the inodes L and destroys those in V.
LEMMA Starts ==
    ASSUME IInv, NEW t \in Threads, NEW L, NEW V, L \subseteq Inodes, V \subseteq L,
           op[t] = NoOp, durable' = durable, deletes' = deletes,
           StartFlush(t, L, V)
    PROVE  /\ op'[t].pc = "flush" /\ op'[t].locked = L /\ op'[t].todo = L
           /\ op'[t].victims = V /\ op'[t].empty = {} /\ DOMAIN op'[t].batch = {}
           /\ \A u \in Threads \ {t} : op'[u] = op[u] /\ (Busy(u)' <=> Busy(u))
           /\ ~Busy(t) /\ Busy(t)'
           /\ op' \in [Threads -> Operation] /\ GcInv'
           /\ \A i \in Inodes : /\ Settled(i)' <=> Settled(i) /\ i \notin L
                                /\ Unlinked(i)' <=> Unlinked(i) \/ i \in V
                                /\ Gone(i)' <=> Gone(i)
<1> DEFINE new == [NoOp EXCEPT !.pc = "flush", !.locked = L, !.todo = L, !.victims = V]
<1>1. /\ op'[t] = new /\ op' \in [Threads -> Operation]
      /\ \A u \in Threads \ {t} : op'[u] = op[u]
  <2>1. Nothing \in Batches
    <3>1. {} \in SUBSET Inodes /\ Nothing \in [{} -> InodeRec]
      BY Zenon DEF Nothing
    <3> QED BY Zenon, <3>1 DEF Batches
  <2>2. new \in Operation
    BY ZenonT(60), <2>1 DEF NoOp, Operation
  <2>3. op \in [Threads -> Operation]
    BY Zenon DEF IInv, TypeInv
  <2> HIDE DEF new
  <2>4. op' = [op EXCEPT ![t] = new]
    BY Zenon DEF StartFlush, new
  <2> QED BY Zenon, <2>2, <2>3, <2>4
<1>2. /\ new.pc = "flush" /\ new.locked = L /\ new.todo = L /\ new.victims = V
      /\ new.empty = {} /\ new.batch = Nothing
  BY Zenon DEF NoOp
<1>3. DOMAIN Nothing = {}
  BY Zenon DEF Nothing
<1>4. op[t].pc = "idle" /\ op[t].victims = {} /\ op[t].todo = {}
  BY DEF NoOp
<1> HIDE DEF new
<1>5. GcInv'
  BY Zenon, <1>1, <1>2 DEF IInv, GcInv, Segs
<1>6. /\ \A u \in Threads \ {t} : Busy(u)' <=> Busy(u)
      /\ ~Busy(t) /\ Busy(t)'
  BY Zenon, <1>1, <1>2, <1>4 DEF Busy
<1>7. \A i \in Inodes : /\ Settled(i)' <=> Settled(i) /\ i \notin L
                        /\ Unlinked(i)' <=> Unlinked(i) \/ i \in V
                        /\ Gone(i)' <=> Gone(i)
  BY ZenonT(60), <1>1, <1>2, <1>4, <1>6 DEF Settled, Unlinked, Gone
<1> QED BY Zenon, <1>1, <1>2, <1>3, <1>5, <1>6, <1>7 DEF new

\* The start of an operation on one inode, which gains at most a new segment.
LEMMA StartsOne ==
    ASSUME IInv, TypeInv', NEW t \in Threads, NEW i \in Cached, NEW V \in SUBSET {i},
           op[t] = NoOp, \A u \in Threads : i \notin op[u].locked,
           durable' = durable, deletes' = deletes,
           StartFlush(t, {i}, V),
           used \subseteq used', swift \subseteq swift',
           \A j \in Inodes : recs'[Inode(j)] = recs[Inode(j)],
           \A n \in Numbers : recs'[Payload(n)] = recs[Payload(n)],
           \A n \in Numbers : recs[Segment(n)] = "container" => recs'[Segment(n)] = "container",
           Cached' = Cached, \A j \in Cached \ {i} : inodeCache'[j] = inodeCache[j],
           InodeOK(i)', inodeCache'[i].dirty,
           Own(i) \subseteq Own(i)',
           \A s \in Own(i)' \ Own(i) :
             s \notin used /\ s \in used' /\ recs'[Segment(s)] = "container",
           Mine(i)' \subseteq Mine(i)
    PROVE  IInv'
<1>1. /\ op'[t].pc = "flush" /\ op'[t].locked = {i} /\ op'[t].todo = {i}
      /\ op'[t].victims = V /\ op'[t].empty = {} /\ DOMAIN op'[t].batch = {}
      /\ \A u \in Threads \ {t} : op'[u] = op[u] /\ (Busy(u)' <=> Busy(u))
      /\ ~Busy(t) /\ Busy(t)'
      /\ GcInv'
      /\ \A j \in Inodes : /\ Settled(j)' <=> Settled(j) /\ j # i
                           /\ Unlinked(j)' <=> Unlinked(j) \/ j \in V
                           /\ Gone(j)' <=> Gone(j)
  <2>1. {i} \subseteq Inodes /\ V \subseteq {i}
    BY Zenon, NodeFacts
  <2> QED BY <2>1, Starts
<1>2. /\ StoreOK(recs)' /\ StoreOK(durable)'
      /\ \A j \in Inodes : /\ Segs(recs, j)' = Segs(recs, j)
                           /\ HasPayload(recs, j)' <=> HasPayload(recs, j)
                           /\ HasPayload(durable, j)' <=> HasPayload(durable, j)
  BY Zenon, QuietStore
<1>3. i \in Inodes /\ HasPayload(recs, i) /\ Segs(recs, i) \subseteq Own(i)
  BY Zenon, NodeFacts
<1>4. \A j \in Inodes \ {i} : Own(j)' = Own(j) /\ Mine(j)' = Mine(j)
  BY Zenon, <1>2 DEF Own, Mine
<1>5. op[t].empty = {}
  BY DEF NoOp
<1>6. OwnInv'
  <2>1. \A j \in Inodes : Own(j) \subseteq Numbers
    BY Zenon DEF IInv, TypeInv, Own, Segs, IsStore, InodeRec, InMemoryInode
  <2>2. \A u \in Threads : op[u].empty \subseteq Numbers
    BY Zenon DEF IInv, TypeInv, Operation
  <2>3. \A u \in Threads : op'[u].empty = op[u].empty
    BY ZenonT(60), <1>1, <1>5
  <2>4. \A j \in Inodes : \A s \in Own(j)' :
          \/ s \in Own(j)
          \/ j = i /\ s \notin used /\ s \in used' /\ recs'[Segment(s)] = "container"
    BY Zenon, <1>4
  <2>5. \A j, k \in Inodes : j # k => Own(j)' \cap Own(k)' = {}
    <3> SUFFICES ASSUME NEW j \in Inodes, NEW k \in Inodes, j # k,
                        NEW s \in Own(j)', s \in Own(k)'
                 PROVE  FALSE
      BY Zenon
    <3> QED BY ZenonT(60), <2>4 DEF IInv, OwnInv
  <2>6. \A j \in Inodes, u \in Threads : Own(j)' \cap op'[u].empty = {}
    BY Zenon, <2>3, <2>4 DEF IInv, OwnInv
  <2>7. \A d \in deletes' : /\ d[1] \in used'
                            /\ \A j \in Inodes : d[1] \notin Own(j)'
                            /\ \A u \in Threads : d[1] \notin op'[u].empty
    BY Zenon, <2>3, <2>4 DEF IInv, OwnInv
  <2>8. \A j \in Inodes : \A s \in Own(j)' : s \in used' /\ recs'[Segment(s)] = "container"
    BY Zenon, <2>1, <2>4 DEF IInv, OwnInv
  <2>9. \A u \in Threads : \A s \in op'[u].empty :
          s \in used' /\ recs'[Segment(s)] = "container"
    BY Zenon, <2>2, <2>3 DEF IInv, OwnInv
  <2>10. \A u, v \in Threads : u # v => op'[u].empty \cap op'[v].empty = {}
    BY Zenon, <2>3 DEF IInv, OwnInv
  <2> QED BY Zenon, <2>5, <2>6, <2>7, <2>8, <2>9, <2>10 DEF OwnInv
<1>7. RecInv'
  <2>1. \A j \in Inodes : Own(j) \subseteq Own(j)'
    BY <1>4
  <2>2. \A u \in Threads : op[u].locked \subseteq Inodes
    BY Zenon DEF IInv, TypeInv, Operation
  <2>3. \A j \in Inodes : Settled(j)' => Segs(recs, j)' \subseteq Own(j)'
    BY Zenon, <1>1, <1>2, <2>1 DEF IInv, RecInv
  <2>4. ASSUME NEW u \in Threads, Busy(u)', NEW j \in op'[u].locked, NEW s \in Segs(recs, j)'
        PROVE  s \in op'[u].empty \/ \E k \in op'[u].locked : s \in Own(k)'
    <3>1. CASE u = t
      BY Zenon, <3>1, <2>1, <2>4, <1>1, <1>2, <1>3
    <3>2. CASE u # t
      <4>1. op'[u] = op[u] /\ Busy(u)
        BY Zenon, <2>4, <3>2, <1>1
      <4>2. j \in Inodes /\ s \in Segs(recs, j)
        BY Zenon, <2>2, <2>4, <4>1, <1>2
      <4>3. s \in op[u].empty \/ \E k \in op[u].locked : s \in Own(k)
        BY Zenon, <2>4, <4>1, <4>2 DEF IInv, RecInv
      <4> QED BY Zenon, <2>1, <2>2, <4>1, <4>3
    <3> QED BY Zenon, <3>1, <3>2
  <2> QED BY Zenon, <2>3, <2>4 DEF RecInv
<1>8. MemInv'
  <2>1. \A j \in Cached : inodeCache[j].node \in Numbers \cup {None}
    BY Zenon, NodeFacts DEF InMemoryInode
  <2> SUFFICES ASSUME NEW j \in Cached, j # i PROVE InodeOK(j)'
    BY Zenon DEF MemInv
  <2>2. j \in Inodes /\ InodeOK(j)
    BY Zenon, NodeFacts
  <2> QED BY Zenon, <2>1, <2>2, <1>1, InodeStays
<1>9. PayInv'
  <2>1. \A j, k \in Inodes : j # k => Mine(j)' \cap Mine(k)' = {}
    BY <1>4 DEF IInv, PayInv
  <2>2. \A j \in Inodes :
          \/ HasPayload(recs, j)'
          \/ \E u \in Threads : Busy(u)' /\ j \in DOMAIN op'[u].batch
          \/ j \notin Cached' /\ ~HasPayload(durable, j)'
    BY Zenon, <1>1, <1>2, <1>3 DEF IInv, PayInv
  <2> QED BY Zenon, <2>1, <2>2 DEF PayInv
<1>10. OpInv'
  <2>1. \A u \in Threads : op[u].locked \subseteq Inodes
    BY Zenon DEF IInv, TypeInv, Operation
  <2>2. \A u \in Threads \ {t} : \A j \in op[u].locked :
             /\ j \in Cached' <=> j \in Cached
             /\ j \in Cached => inodeCache'[j] = inodeCache[j]
             /\ recs'[Inode(j)] = recs[Inode(j)]
    BY Zenon, <2>1
  <2>3. OpInv /\ Threads \ {t} \in SUBSET Threads /\ \A u \in Threads \ {t} : op'[u] = op[u]
    BY Zenon, <1>1 DEF IInv
  <2>4. \A u \in Threads \ {t} : ThreadOK(u)'
    BY ZenonT(60), <2>2, <2>3, ThreadsStay
  <2>5. FlushOK(t)'
    BY Zenon, <1>1 DEF FlushOK
  <2>6. ThreadOK(t)'
    BY Zenon, <2>5, <1>1 DEF ThreadOK, InodeOK, Late
  <2>7. \A u, v \in Threads : u # v => op'[u].locked \cap op'[v].locked = {}
    <3>1. \A u \in Threads : u # t => op'[u].locked = op[u].locked
      BY ZenonT(60), <1>1
    <3>2. \A u, v \in Threads : u # v => op[u].locked \cap op[v].locked = {}
      BY Zenon DEF IInv, OpInv
    <3>3. op'[t].locked = {i}
      BY Zenon, <1>1
    <3>4. \A v \in Threads : op[v].locked \cap {i} = {} /\ {i} \cap op[v].locked = {}
      BY Zenon
    <3> QED BY ZenonT(60), <3>1, <3>2, <3>3, <3>4
  <2> QED BY Zenon, <2>4, <2>6, <2>7 DEF OpInv
<1> QED BY Zenon, <1>1, <1>2, <1>6, <1>7, <1>8, <1>9, <1>10 DEF IInv

\* Flush().
LEMMA FlushPreserves ==
    ASSUME IInv, NEW t \in Threads, NEW i \in Inodes, Flush(t, i)
    PROVE  IInv'
<1> DEFINE inode == inodeCache[i]
           new == HandsOver(inode)
<1>1. /\ used' = used /\ durable' = durable /\ recs' = recs /\ swift' = swift
      /\ deletes' = deletes /\ op[t] = NoOp /\ inode.dirty
      /\ i \in Cached /\ \A u \in Threads : i \notin op[u].locked
  BY Zenon DEF Flush, Unlocked, Cached, storeVars
<1>2. /\ Cached' = Cached
      /\ inodeCache' = [j \in Cached |-> IF j = i THEN new ELSE inodeCache[j]]
  BY ZenonT(60), <1>1 DEF Flush, Set, With, Cached
<1>3. StartFlush(t, {i}, {})
  BY Zenon DEF Flush
<1>4. inode \in InMemoryInode /\ InodeOK(i)
  BY Zenon, <1>1, NodeFacts
<1>5. /\ new \in InMemoryInode /\ new.data = inode.data /\ new.segs = inode.segs
      /\ new.inFlight = inode.inFlight /\ new.openLogSegment = None
      /\ new.node = inode.node /\ new.stale = inode.stale
      /\ new.dirty /\ (new.linked <=> inode.linked) /\ (new.failed <=> inode.failed)
  BY Zenon, <1>1, <1>4 DEF HandsOver, InMemoryInode
<1> HIDE DEF new
<1>6. op' \in [Threads -> Operation] /\ (Unlinked(i)' <=> Unlinked(i))
  <2>1. {i} \subseteq Inodes /\ {} \subseteq {i}
    BY Zenon
  <2> QED BY <1>1, <1>3, <2>1, Starts
<1>7. TypeInv'
  BY Zenon, <1>1, <1>2, <1>5, <1>6 DEF IInv, TypeInv, IsStore
<1>8. InodeOK(i)'
  BY Zenon, <1>1, <1>2, <1>4, <1>5, <1>6 DEF InodeOK
<1>9. Own(i)' = Own(i) /\ Mine(i)' = Mine(i)
  BY Zenon, <1>1, <1>2, <1>5 DEF Own, Mine
<1>10. /\ {} \in SUBSET {i} /\ inodeCache'[i].dirty
       /\ \A j \in Cached \ {i} : inodeCache'[j] = inodeCache[j]
  BY Zenon, <1>1, <1>2, <1>5
<1> QED BY Zenon, <1>1, <1>2, <1>3, <1>7, <1>8, <1>9, <1>10, StartsOne

\* Unlink() of the last link.
LEMMA UnlinkPreserves ==
    ASSUME IInv, NEW t \in Threads, NEW i \in Inodes, Unlink(t, i)
    PROVE  IInv'
<1> DEFINE inode == inodeCache[i]
           new == [HandsOver(inode) EXCEPT !.dirty = TRUE, !.linked = FALSE]
<1>1. /\ used' = used /\ durable' = durable /\ recs' = recs /\ swift' = swift
      /\ deletes' = deletes /\ op[t] = NoOp
      /\ StartFlush(t, {i}, {i})
      /\ i \in Cached /\ \A u \in Threads : i \notin op[u].locked
  BY Zenon DEF Unlink, Unlocked, Cached, storeVars
<1>2. /\ Cached' = Cached
      /\ inodeCache' = [j \in Cached |-> IF j = i THEN new ELSE inodeCache[j]]
  BY Zenon, <1>1 DEF Unlink, Set, With, Cached
<1>3. inode \in InMemoryInode /\ InodeOK(i)
  BY Zenon, <1>1, NodeFacts
<1>4. /\ new \in InMemoryInode /\ new.data = inode.data /\ new.segs = inode.segs
      /\ new.inFlight = inode.inFlight /\ new.openLogSegment = None
      /\ new.node = inode.node /\ new.stale = inode.stale
      /\ new.dirty /\ ~new.linked /\ (new.failed <=> inode.failed)
  BY Zenon, <1>1, <1>3 DEF HandsOver, InMemoryInode
<1> HIDE DEF new
<1>5. op' \in [Threads -> Operation] /\ Unlinked(i)'
  <2>1. {i} \subseteq Inodes /\ {i} \subseteq {i}
    BY Zenon
  <2> QED BY <1>1, <2>1, Starts
<1>6. TypeInv'
  BY Zenon, <1>1, <1>2, <1>4, <1>5 DEF IInv, TypeInv, IsStore
<1>7. InodeOK(i)'
  BY ZenonT(60), <1>1, <1>2, <1>3, <1>4, <1>5 DEF InodeOK
<1>8. Own(i)' = Own(i) /\ Mine(i)' = Mine(i)
  BY Zenon, <1>1, <1>2, <1>4 DEF Own, Mine
<1>9. /\ {i} \in SUBSET {i} /\ inodeCache'[i].dirty
      /\ \A j \in Cached \ {i} : inodeCache'[j] = inodeCache[j]
  BY Zenon, <1>1, <1>2, <1>4
<1> QED BY Zenon, <1>1, <1>2, <1>6, <1>7, <1>8, <1>9, StartsOne

\* SetSize().
LEMMA SetSizePreserves ==
    ASSUME IInv, NEW t \in Threads, NEW i \in Inodes, NEW R \in SUBSET Numbers,
           SetSize(t, i, R)
    PROVE  IInv'
<1> DEFINE inode == inodeCache[i]
           new == HandsOver(WithData(inode, inode.data \ R))
<1>1. /\ used' = used /\ durable' = durable /\ recs' = recs /\ swift' = swift
      /\ deletes' = deletes /\ op[t] = NoOp
      /\ i \in Cached /\ \A u \in Threads : i \notin op[u].locked
  BY Zenon DEF SetSize, Unlocked, Cached, storeVars
<1>2. /\ Cached' = Cached
      /\ inodeCache' = [j \in Cached |-> IF j = i THEN new ELSE inodeCache[j]]
  BY Zenon, <1>1 DEF SetSize, Set, With, Cached
<1>3. StartFlush(t, {i}, {})
  BY Zenon DEF SetSize
<1>4. inode \in InMemoryInode /\ InodeOK(i)
  BY Zenon, <1>1, NodeFacts
<1>5. /\ new \in InMemoryInode /\ new.data = inode.data \ R /\ new.segs = inode.segs
      /\ new.inFlight = inode.inFlight /\ new.openLogSegment = None
      /\ new.node = None /\ new.stale = inode.stale \cup ({inode.node} \ {None})
      /\ new.dirty /\ (new.linked <=> inode.linked) /\ (new.failed <=> inode.failed)
  BY Zenon, <1>1, <1>4 DEF HandsOver, WithData, InMemoryInode
<1> HIDE DEF new
<1>6. op' \in [Threads -> Operation] /\ (Unlinked(i)' <=> Unlinked(i))
  <2>1. {i} \subseteq Inodes /\ {} \subseteq {i}
    BY Zenon
  <2> QED BY <1>1, <1>3, <2>1, Starts
<1>7. TypeInv'
  BY Zenon, <1>1, <1>2, <1>5, <1>6 DEF IInv, TypeInv, IsStore
<1>8. InodeOK(i)'
  <2>1. new.stale \subseteq used /\ new.node \notin new.stale
    BY Zenon, <1>4, <1>5, NoneAssumption DEF InodeOK, InMemoryInode
  <2> QED BY Zenon, <1>1, <1>2, <1>4, <1>5, <1>6, <2>1 DEF InodeOK
<1>9. Own(i)' = Own(i) /\ Mine(i)' = Mine(i)
  BY Zenon, <1>1, <1>2, <1>5 DEF Own, Mine
<1>10. /\ {} \in SUBSET {i} /\ inodeCache'[i].dirty
       /\ \A j \in Cached \ {i} : inodeCache'[j] = inodeCache[j]
  BY Zenon, <1>1, <1>2, <1>5
<1> QED BY Zenon, <1>1, <1>2, <1>3, <1>7, <1>8, <1>9, <1>10, StartsOne

\* Wrote(): the object that the middleware PUT becomes a segment of the file.
LEMMA WrotePreserves ==
    ASSUME IInv, NEW t \in Threads, NEW i \in Inodes, NEW s \in Numbers,
           NEW R \in SUBSET Numbers, Wrote(t, i, s, R)
    PROVE  IInv'
<1> DEFINE inode == inodeCache[i]
           new == [WithData(inode, (inode.data \ R) \cup {s}) EXCEPT !.segs = @ \cup {s}]
<1>1. /\ used' = used \cup {s} /\ s \notin used /\ durable' = durable
      /\ recs' = [recs EXCEPT ![Segment(s)] = "container"] /\ swift' = swift \cup {s}
      /\ deletes' = deletes /\ op[t] = NoOp /\ ~inode.dirty
      /\ i \in Cached /\ \A u \in Threads : i \notin op[u].locked
  BY Zenon DEF Wrote, Unlocked, Cached
<1>2. /\ Cached' = Cached
      /\ inodeCache' = [j \in Cached |-> IF j = i THEN new ELSE inodeCache[j]]
  BY Zenon, <1>1 DEF Wrote, Set, With, Cached
<1>3. StartFlush(t, {i}, {})
  BY Zenon DEF Wrote
<1>4. inode \in InMemoryInode /\ InodeOK(i)
  BY Zenon, <1>1, NodeFacts
<1>5. /\ new \in InMemoryInode /\ new.data = (inode.data \ R) \cup {s}
      /\ new.segs = inode.segs \cup {s}
      /\ new.inFlight = inode.inFlight /\ new.openLogSegment = inode.openLogSegment
      /\ new.node = None /\ new.stale = inode.stale \cup ({inode.node} \ {None})
      /\ new.dirty /\ (new.linked <=> inode.linked) /\ (new.failed <=> inode.failed)
  BY ZenonT(60), <1>1, <1>4 DEF WithData, InMemoryInode
<1> HIDE DEF new
<1>6. op' \in [Threads -> Operation] /\ (Unlinked(i)' <=> Unlinked(i))
  <2>1. {i} \subseteq Inodes /\ {} \subseteq {i}
    BY Zenon
  <2> QED BY <1>1, <1>3, <2>1, Starts
<1>7. /\ \A j \in Inodes : recs'[Inode(j)] = recs[Inode(j)]
      /\ \A n \in Numbers : recs'[Payload(n)] = recs[Payload(n)]
      /\ \A n \in Numbers : recs'[Segment(n)] = IF n = s THEN "container" ELSE recs[Segment(n)]
      /\ recs' \in [Keys -> Values \cup {None}]
  <2>1. recs \in [Keys -> Values \cup {None}]
    BY Zenon DEF IInv, TypeInv, IsStore
  <2>2. "container" \in Values
    BY Zenon DEF Values
  <2> QED BY ZenonT(60), <1>1, <2>1, <2>2, KeyFacts
<1>8. TypeInv'
  BY <1>1, <1>2, <1>5, <1>6, <1>7 DEF IInv, TypeInv, IsStore
<1>9. InodeOK(i)'
  <2>1. new.stale \subseteq used /\ new.node \notin new.stale
    BY ZenonT(60), <1>4, <1>5, NoneAssumption DEF InodeOK, InMemoryInode
  <2>2. new.data \cap new.segs \subseteq swift'
    BY Zenon, <1>1, <1>4, <1>5 DEF InodeOK
  <2> QED BY Zenon, <1>1, <1>2, <1>4, <1>5, <1>6, <2>1, <2>2 DEF InodeOK
<1>10. Own(i) = inode.segs /\ Own(i)' = inode.segs \cup {s} /\ Mine(i)' = Mine(i)
  BY ZenonT(60), <1>1, <1>2, <1>5, <1>7 DEF Own, Mine
<1>11. /\ {} \in SUBSET {i} /\ inodeCache'[i].dirty
       /\ \A j \in Cached \ {i} : inodeCache'[j] = inodeCache[j]
       /\ used \subseteq used' /\ swift \subseteq swift'
       /\ Own(i) \subseteq Own(i)' /\ Mine(i)' \subseteq Mine(i)
  BY Zenon, <1>1, <1>2, <1>5, <1>10
<1>12. \A x \in Own(i)' \ Own(i) :
         x \notin used /\ x \in used' /\ recs'[Segment(x)] = "container"
  BY Zenon, <1>1, <1>7, <1>10
<1>13. \A n \in Numbers : recs[Segment(n)] = "container" => recs'[Segment(n)] = "container"
  BY Zenon, <1>7
<1> QED BY Zenon, <1>1, <1>2, <1>3, <1>7, <1>8, <1>9, <1>11, <1>12, <1>13, StartsOne

-----------------------------------------------------------------------------
(***************************************************************************)
(* Garbage collection, checkpoints and crashes.                            *)
(***************************************************************************)

\* A step that ends a phase of thread t's operation and changes nothing else.
LEMMA OpOnly ==
    ASSUME IInv, TypeInv', recs' = recs, durable' = durable, inodeCache' = inodeCache,
           used' = used, swift' = swift, deletes' = deletes,
           NEW t \in Threads, \A u \in Threads \ {t} : op'[u] = op[u],
           op'[t].empty = op[t].empty, op'[t].locked \subseteq op[t].locked,
           ThreadOK(t)', ~Busy(t)',
           op'[t].pc = "gc" => op'[t].gate = "closed",
           Busy(t) => /\ DOMAIN op[t].batch = {}
                      /\ \A i \in op[t].locked : Segs(recs, i) \subseteq Own(i),
           \A i \in Cached : Unlinked(i) => Unlinked(i)' \/ inodeCache[i].failed,
           op[t].pc # "discard"
    PROVE  IInv'
<1>1. \A u \in Threads \ {t} : Busy(u)' <=> Busy(u)
  BY Zenon DEF Busy
<1>2. Cached' = Cached /\ \A u \in Threads : op'[u].empty = op[u].empty
  BY Zenon DEF Cached
<1>3. \A i \in Inodes : /\ Own(i)' = Own(i) /\ Mine(i)' = Mine(i)
                        /\ Segs(recs, i)' = Segs(recs, i)
                        /\ HasPayload(recs, i)' <=> HasPayload(recs, i)
                        /\ HasPayload(durable, i)' <=> HasPayload(durable, i)
  BY Zenon, <1>2 DEF Own, Mine, Segs, HasPayload
<1>4. StoreOK(recs)' /\ StoreOK(durable)'
  BY Zenon, QuietStore
<1>5. OwnInv'
  BY Zenon, <1>2, <1>3, OwnSame
<1>6. \A u \in Threads : op[u].locked \subseteq Inodes
  BY ZenonT(60) DEF IInv, TypeInv, Operation
<1>7. RecInv'
  <2>1. \A i \in Inodes : Settled(i)' => Segs(recs, i)' \subseteq Own(i)'
    <3> SUFFICES ASSUME NEW i \in Inodes, Settled(i)' PROVE Segs(recs, i) \subseteq Own(i)
      BY Zenon, <1>3
    <3>1. CASE Busy(t) /\ i \in op[t].locked
      BY Zenon, <3>1
    <3>2. CASE ~(Busy(t) /\ i \in op[t].locked)
      <4>1. Settled(i)
        BY Zenon, <3>2, <1>1 DEF Settled
      <4> QED BY Zenon, <4>1 DEF IInv, RecInv
    <3> QED BY Zenon, <3>1, <3>2
  <2>2. \A u \in Threads : Busy(u)' => op'[u] = op[u] /\ Busy(u)
    BY Zenon, <1>1
  <2>3. \A u \in Threads : Busy(u)' => \A i \in op[u].locked :
          Segs(recs, i)' \subseteq Segs(recs, i) /\ Own(i)' = Own(i)
    BY Zenon, <1>3, <1>6
  <2> QED BY Zenon, <2>1, <2>2, <2>3, RecStays
<1>8. GcInv'
  BY ZenonT(60) DEF IInv, GcInv, Segs
<1>9. MemInv'
  <2> SUFFICES ASSUME NEW i \in Cached PROVE InodeOK(i)'
    BY Zenon, <1>2 DEF MemInv
  <2>1. InodeOK(i)
    BY Zenon, NodeFacts
  <2>2. Gone(i) => Gone(i)'
    BY Zenon DEF Gone
  <2> QED BY Zenon, <2>1, <2>2 DEF InodeOK
<1>10. PayInv'
  <2>1. \A i \in Inodes : (\E u \in Threads : Busy(u) /\ i \in DOMAIN op[u].batch) =>
                          (\E u \in Threads : Busy(u)' /\ i \in DOMAIN op'[u].batch)
    BY Zenon, <1>1
  <2> QED BY Zenon, <1>2, <1>3, <2>1 DEF IInv, PayInv
<1>11. OpInv'
  <2>1. OpInv /\ Threads \ {t} \in SUBSET Threads
    BY Zenon DEF IInv
  <2>2. \A u \in Threads \ {t} : ThreadOK(u)'
    BY Zenon, <1>2, <2>1, ThreadsStay
  <2>3. \A u, v \in Threads : u # v => op'[u].locked \cap op'[v].locked = {}
    <3>1. \A u \in Threads : op'[u].locked \subseteq op[u].locked
      BY Zenon
    <3> QED BY Zenon, <2>1, <3>1 DEF OpInv
  <2> QED BY Zenon, <2>2, <2>3 DEF OpInv
<1> QED BY Zenon, <1>4, <1>5, <1>7, <1>8, <1>9, <1>10, <1>11 DEF IInv

\* A thread that runs no operation.
LEMMA NoOpFacts ==
    /\ NoOp.pc = "idle" /\ NoOp.locked = {} /\ NoOp.todo = {} /\ NoOp.batch = Nothing
    /\ NoOp.empty = {} /\ NoOp.gate = "open" /\ NoOp.victims = {}
    /\ DOMAIN Nothing = {} /\ NoOp \in Operation
<1>1. Nothing \in Batches
  <2>1. {} \in SUBSET Inodes /\ Nothing \in [{} -> InodeRec]
    BY Zenon DEF Nothing
  <2> QED BY Zenon, <2>1 DEF Batches
<1>2. DOMAIN Nothing = {}
  BY Zenon DEF Nothing
<1> QED BY Zenon, <1>1, <1>2 DEF NoOp, Operation

\* Such a thread is as it should be.
LEMMA IdleOK ==
    ASSUME NEW t \in Threads, op'[t] = NoOp
    PROVE  ThreadOK(t)' /\ ~Busy(t)'
BY Zenon, NoOpFacts DEF ThreadOK, Busy, Late

\* flushInodes() fails before it has changed anything.
LEMMA FlushFailsPreserves ==
    ASSUME IInv, NEW t \in Threads, NEW i \in op[t].todo, FlushFails(t, i)
    PROVE  IInv'
<1>1. /\ op[t].pc = "flush" /\ inodeCache[i].failed
      /\ op' = [op EXCEPT ![t] = NoOp]
      /\ recs' = recs /\ durable' = durable /\ inodeCache' = inodeCache
      /\ used' = used /\ swift' = swift /\ deletes' = deletes
  BY Zenon DEF FlushFails, storeVars
<1>2. op \in [Threads -> Operation]
  BY Zenon DEF IInv, TypeInv
<1>3. /\ op'[t] = NoOp /\ \A u \in Threads \ {t} : op'[u] = op[u]
      /\ op' \in [Threads -> Operation]
  BY Zenon, <1>1, <1>2, NoOpFacts
<1>4. ThreadOK(t) /\ Busy(t) /\ FlushOK(t)
  BY Zenon, <1>1 DEF IInv, OpInv, ThreadOK, Busy
<1>5. op[t].locked = {i} /\ op[t].empty = {} /\ DOMAIN op[t].batch = {}
  BY ZenonT(60), <1>1, <1>4 DEF ThreadOK, FlushOK, Complete
<1>6. TypeInv'
  BY Zenon, <1>1, <1>3 DEF IInv, TypeInv, Cached, IsStore
<1>7. \A j \in Cached : Unlinked(j) => Unlinked(j)' \/ inodeCache[j].failed
  <2>1. op[t].todo \subseteq {i} /\ op[t].victims \subseteq {i}
    BY Zenon, <1>4, <1>5 DEF ThreadOK
  <2> QED BY Zenon, <2>1, <1>1, <1>3 DEF Unlinked
<1>8. \A j \in op[t].locked : Segs(recs, j) \subseteq Own(j)
  BY Zenon, <1>4, <1>5 DEF IInv, RecInv
<1>9. /\ op'[t].empty = op[t].empty /\ op'[t].locked \subseteq op[t].locked
      /\ op'[t].pc # "gc" /\ op[t].pc # "discard"
  BY Zenon, <1>1, <1>3, <1>5, NoOpFacts
<1>10. ThreadOK(t)' /\ ~Busy(t)'
  BY Zenon, <1>3, IdleOK
<1> QED BY Zenon, <1>1, <1>3, <1>5, <1>6, <1>7, <1>8, <1>9, <1>10, OpOnly

\* FetchNextCheckPointDoneWaitGroup().
LEMMA FetchWaitGroupPreserves ==
    ASSUME IInv, NEW t \in Threads, FetchWaitGroup(t)
    PROVE  IInv'
<1>1. /\ op[t].pc = "wait"
      /\ op' = [op EXCEPT ![t].pc = "gc", ![t].gate = "closed"]
      /\ recs' = recs /\ durable' = durable /\ inodeCache' = inodeCache
      /\ used' = used /\ swift' = swift /\ deletes' = deletes
  BY Zenon DEF FetchWaitGroup, Store!FetchWaitGroup, GateClosed
<1>2. op \in [Threads -> Operation] /\ op[t] \in Operation
  BY Zenon DEF IInv, TypeInv
<1>3. /\ op'[t].pc = "gc" /\ op'[t].gate = "closed" /\ op'[t].locked = op[t].locked
      /\ op'[t].todo = op[t].todo /\ op'[t].victims = op[t].victims
      /\ op'[t].empty = op[t].empty /\ op'[t].batch = op[t].batch
      /\ \A u \in Threads \ {t} : op'[u] = op[u]
      /\ op' \in [Threads -> Operation]
  BY Zenon, <1>1, <1>2 DEF Operation, Late
<1>4. ThreadOK(t) /\ ~Busy(t) /\ ~Busy(t)' /\ LateOK(t)
  BY Zenon, <1>1, <1>3 DEF IInv, OpInv, ThreadOK, Busy, Late
<1>5. TypeInv'
  BY Zenon, <1>1, <1>3 DEF IInv, TypeInv, Cached, IsStore
<1>6. \A j \in Cached : Unlinked(j) => Unlinked(j)'
  BY Zenon, <1>1, <1>3 DEF Unlinked
<1>7. LateOK(t)'
  BY Zenon, <1>1, <1>3, <1>4 DEF LateOK, Cached
<1>8. ThreadOK(t)'
  BY Zenon, <1>1, <1>3, <1>4, <1>7 DEF ThreadOK
<1> QED BY Zenon, <1>1, <1>3, <1>4, <1>5, <1>6, <1>8, OpOnly

\* The operation returns, or goes on to destroy its victims.
LEMMA ReturnPreserves ==
    ASSUME IInv, NEW t \in Threads, Return(t)
    PROVE  IInv'
<1> DEFINE drop == [NoOp EXCEPT !.pc = "drop", !.locked = op[t].locked,
                                !.todo = op[t].victims]
<1>1. /\ op[t].pc = "gc" /\ op[t].empty = {}
      /\ op' = [op EXCEPT ![t] = IF op[t].victims = {} THEN NoOp ELSE drop]
      /\ recs' = recs /\ durable' = durable /\ inodeCache' = inodeCache
      /\ used' = used /\ swift' = swift /\ deletes' = deletes
  BY Zenon DEF Return, storeVars
<1>2. op \in [Threads -> Operation] /\ op[t] \in Operation
  BY Zenon DEF IInv, TypeInv
<1>3. /\ drop \in Operation /\ drop.pc = "drop" /\ drop.locked = op[t].locked
      /\ drop.todo = op[t].victims /\ drop.victims = {} /\ drop.empty = {}
      /\ drop.batch = Nothing
  BY Zenon, <1>2, NoOpFacts DEF NoOp, Operation, Late
<1> HIDE DEF drop
<1>4. /\ op'[t] = (IF op[t].victims = {} THEN NoOp ELSE drop)
      /\ op'[t] \in Operation
      /\ \A u \in Threads \ {t} : op'[u] = op[u]
      /\ op' \in [Threads -> Operation]
  BY Zenon, <1>1, <1>2, <1>3, NoOpFacts
<1>5. ThreadOK(t) /\ ~Busy(t) /\ LateOK(t)
  BY Zenon, <1>1 DEF IInv, OpInv, ThreadOK, Busy, Late
<1>6. TypeInv'
  BY Zenon, <1>1, <1>4 DEF IInv, TypeInv, Cached, IsStore
<1>7. \A j \in Cached : Unlinked(j) => Unlinked(j)'
  BY Zenon, <1>1, <1>3, <1>4 DEF Unlinked
<1>8. ThreadOK(t)' /\ ~Busy(t)'
  <2>1. CASE op[t].victims = {}
    BY Zenon, <2>1, <1>4, IdleOK
  <2>2. CASE op[t].victims # {}
    <3>1. op'[t] = drop
      BY Zenon, <2>2, <1>4
    <3>2. LateOK(t)'
      BY Zenon, <1>1, <1>3, <1>5, <3>1, NoOpFacts DEF LateOK, Cached
    <3> QED BY Zenon, <1>1, <1>3, <1>5, <3>1, <3>2 DEF ThreadOK, Busy
  <2> QED BY Zenon, <2>1, <2>2
<1>9. /\ op'[t].empty = op[t].empty /\ op'[t].locked \subseteq op[t].locked
      /\ op'[t].pc # "gc" /\ op[t].pc # "discard"
  BY Zenon, <1>1, <1>3, <1>4, NoOpFacts
<1> QED BY Zenon, <1>1, <1>4, <1>5, <1>6, <1>7, <1>8, <1>9, OpOnly

-----------------------------------------------------------------------------
(***************************************************************************)
(* Garbage collection, checkpoints and crashes.                            *)
(***************************************************************************)
\* What waits to be deleted is in no record.
LEMMA GarbageUnrecorded ==
    ASSUME IInv
    PROVE  /\ \A d \in deletes : \A i \in Inodes : d[1] \notin Segs(recs, i)
           /\ \A t \in Threads : ~Busy(t) =>
                \A i \in Inodes : op[t].empty \cap Segs(recs, i) = {}
<1>1. \A i \in Inodes : \A s \in Segs(recs, i) :
        \/ \E j \in Inodes : s \in Own(j)
        \/ \E t \in Threads : Busy(t) /\ s \in op[t].empty
  <2>1. \A t \in Threads : op[t].locked \subseteq Inodes
    BY Zenon DEF IInv, TypeInv, Operation
  <2> TAKE i \in Inodes
  <2> TAKE s \in Segs(recs, i)
  <2>2. CASE Settled(i)
    BY Zenon, <2>2 DEF IInv, RecInv
  <2>3. CASE ~Settled(i)
    BY Zenon, <2>1, <2>3 DEF Settled, IInv, RecInv
  <2> QED BY Zenon, <2>2, <2>3
<1>2. \A d \in deletes : \A i \in Inodes : d[1] \notin Segs(recs, i)
  BY Zenon, <1>1 DEF IInv, OwnInv
<1>3. ASSUME NEW t \in Threads, ~Busy(t), NEW i \in Inodes, NEW s \in op[t].empty,
             s \in Segs(recs, i)
      PROVE  FALSE
  <2>1. \A j \in Inodes : s \notin Own(j)
    BY Zenon, <1>3 DEF IInv, OwnInv
  <2>2. PICK u \in Threads : Busy(u) /\ s \in op[u].empty
    BY Zenon, <1>1, <1>3, <2>1
  <2> QED BY Zenon, <1>3, <2>2 DEF IInv, OwnInv
<1> QED BY Zenon, <1>2, <1>3

\* The daemon deletes a log segment that no record names, in memory or durable.
LEMMA DeleteObjectPreserves ==
    ASSUME IInv, NEW s \in Numbers, DeleteObject(s)
    PROVE  IInv'
<1>1. /\ <<s, "open">> \in deletes /\ deletes' \subseteq deletes
      /\ recs' = recs /\ durable' = durable /\ inodeCache' = inodeCache /\ Cached' = Cached
      /\ used' = used /\ op' = op /\ \A x \in swift : x = s \/ x \in swift'
  BY Zenon DEF DeleteObject, storeVars, Cached
<1>2. /\ \A i \in Inodes : s \notin Own(i)
      /\ \A i \in Inodes : s \notin Segs(recs, i)
      /\ \A i \in Inodes : s \notin Segs(durable, i)
  BY Zenon, <1>1, GarbageUnrecorded DEF IInv, OwnInv, GcInv
<1>3. TypeInv'
  BY Zenon, <1>1 DEF IInv, TypeInv, IsStore
<1>4. StoreOK(recs)' /\ StoreOK(durable)'
  <2>1. \A i \in Inodes : \A x \in Segs(recs, i) : x \in swift'
    BY Zenon, <1>1, <1>2 DEF IInv, StoreOK
  <2>2. \A i \in Inodes : \A x \in Segs(durable, i) : x \in swift'
    BY Zenon, <1>1, <1>2 DEF IInv, StoreOK
  <2> QED BY ZenonT(60), <1>1, <2>1, <2>2 DEF IInv, StoreOK, Segs, HasPayload
<1>5. \A i \in Inodes : Own(i)' = Own(i) /\ Mine(i)' = Mine(i)
  BY Zenon, <1>1 DEF Own, Mine, Segs
<1>6. OwnInv'
  <2>1. \A t \in Threads : op'[t].empty = op[t].empty
    BY Zenon, <1>1
  <2>2. \A d \in deletes' : \E e \in deletes : d[1] = e[1]
    BY Zenon, <1>1
  <2> QED BY Zenon, <1>1, <1>5, <2>1, <2>2, OwnSame
<1>7. RecInv'
  BY Zenon, <1>1 DEF IInv, RecInv, Settled, Busy, Own, Segs
<1>8. GcInv'
  BY Zenon, <1>1 DEF IInv, GcInv, Segs
<1>9. MemInv'
  <2> SUFFICES ASSUME NEW i \in Cached PROVE InodeOK(i)'
    BY Zenon, <1>1 DEF MemInv
  <2>1. InodeOK(i) /\ s \notin inodeCache[i].segs
    BY Zenon, <1>2, NodeFacts DEF Own
  <2> QED BY Zenon, <2>1, <1>1 DEF InodeOK, Gone, Unlinked
<1>10. PayInv'
  BY ZenonT(60), <1>1, <1>5 DEF IInv, PayInv, Busy, HasPayload
<1>11. OpInv'
  <2>1. OpInv /\ used \subseteq used' /\ Threads \in SUBSET Threads
    BY Zenon, <1>1 DEF IInv
  <2>2. /\ \A u \in Threads : op'[u] = op[u]
        /\ \A u \in Threads : \A i \in op[u].locked :
             /\ i \in Cached' <=> i \in Cached
             /\ i \in Cached => inodeCache'[i] = inodeCache[i]
             /\ recs'[Inode(i)] = recs[Inode(i)]
    BY Zenon, <1>1 DEF Cached
  <2>3. \A u \in Threads : ThreadOK(u)'
    BY Zenon, <2>1, <2>2, ThreadsStay
  <2> QED BY Zenon, <1>1, <2>1, <2>3 DEF OpInv
<1> QED BY Zenon, <1>3, <1>4, <1>6, <1>7, <1>8, <1>9, <1>10, <1>11 DEF IInv

\* A checkpoint makes the records durable, which are whole: here the deletes that
\* were released before the checkpoint must not be named by the new one.
LEMMA CheckpointPreserves ==
    ASSUME IInv, Checkpoint
    PROVE  IInv'
<1>1. /\ durable' = recs /\ recs' = recs /\ inodeCache' = inodeCache /\ Cached' = Cached
      /\ used' = used /\ op' = op /\ swift' = swift /\ deletes' = deletes
  BY Zenon DEF Checkpoint, Store!Checkpoint, Cached
<1>2. TypeInv'
  BY Zenon, <1>1 DEF IInv, TypeInv, IsStore
<1>3. StoreOK(recs)' /\ StoreOK(durable)'
  BY Zenon, <1>1 DEF IInv, StoreOK, Segs, HasPayload
<1>4. OwnInv'
  BY Zenon, <1>1 DEF IInv, OwnInv, Own, Segs
<1>5. RecInv'
  BY Zenon, <1>1 DEF IInv, RecInv, Settled, Busy, Own, Segs
<1>6. GcInv'
  <2>1. \A i \in Inodes : Segs(durable, i)' = Segs(recs, i)
    BY ZenonT(60), <1>1 DEF Segs
  <2> QED BY Zenon, <1>1, <2>1, GarbageUnrecorded DEF GcInv, Busy
<1>7. MemInv'
  BY <1>1 DEF IInv, MemInv, InodeOK, Gone, Unlinked
<1>8. PayInv'
  <2>1. \A i \in Inodes : /\ Mine(i)' = Mine(i)
                          /\ HasPayload(recs, i)' <=> HasPayload(recs, i)
                          /\ HasPayload(durable, i)' <=> HasPayload(recs, i)
    BY ZenonT(60), <1>1 DEF Mine, HasPayload
  <2> QED BY Zenon, <1>1, <2>1 DEF IInv, PayInv, Busy
<1>9. OpInv'
  BY <1>1 DEF IInv, OpInv, ThreadOK, FlushOK, LateOK, Busy, Complete
<1> QED BY Zenon, <1>2, <1>3, <1>4, <1>5, <1>6, <1>7, <1>8, <1>9 DEF IInv

\* The wait group is signalled when the records are durable as they are, so that
\* what it releases is named by no durable record.
LEMMA SignalWaitGroupPreserves ==
    ASSUME IInv, SignalWaitGroup
    PROVE  IInv'
<1>1. /\ durable = recs /\ durable' = durable /\ recs' = recs /\ inodeCache' = inodeCache
      /\ Cached' = Cached /\ used' = used /\ swift' = swift
      /\ op' = [t \in Threads |-> [op[t] EXCEPT !.gate = "open"]]
      /\ deletes' = {<<d[1], "open">> : d \in deletes}
  BY Zenon DEF SignalWaitGroup, Store!SignalWaitGroup, Cached, Released
<1>2. \A t \in Threads : op[t] \in Operation
  BY Zenon DEF IInv, TypeInv
<1>3. \A t \in Threads : /\ op'[t].pc = op[t].pc /\ op'[t].locked = op[t].locked
                         /\ op'[t].todo = op[t].todo /\ op'[t].victims = op[t].victims
                         /\ op'[t].empty = op[t].empty /\ op'[t].batch = op[t].batch
                         /\ op'[t] \in Operation /\ (op[t] = NoOp => op'[t] = NoOp)
  <2> TAKE t \in Threads
  <2>1. op[t] = NoOp => op'[t] = NoOp
    BY <1>1 DEF NoOp
  <2> QED BY Zenon, <1>1, <1>2, <2>1 DEF Operation
<1>4. \A d \in deletes' : \E e \in deletes : d[1] = e[1] /\ d = <<e[1], "open">>
  BY <1>1
<1>5. TypeInv'
  <2>1. deletes' \subseteq Numbers \X {"open", "closed"}
    BY <1>1 DEF IInv, TypeInv
  <2>2. op' \in [Threads -> Operation]
    BY Zenon, <1>1, <1>3
  <2> QED BY Zenon, <1>1, <2>1, <2>2 DEF IInv, TypeInv, IsStore
<1>6. StoreOK(recs)' /\ StoreOK(durable)'
  BY <1>1 DEF IInv, StoreOK, Segs, HasPayload
<1>7. \A i \in Inodes : /\ Own(i)' = Own(i) /\ Mine(i)' = Mine(i)
                        /\ Segs(recs, i)' = Segs(recs, i)
                        /\ Segs(durable, i)' = Segs(recs, i)
                        /\ HasPayload(recs, i)' <=> HasPayload(recs, i)
                        /\ HasPayload(durable, i)' <=> HasPayload(durable, i)
  BY Zenon, <1>1 DEF Own, Mine, Segs, HasPayload
<1>8. \A t \in Threads : Busy(t)' <=> Busy(t)
  BY Zenon, <1>3 DEF Busy
<1>9. OwnInv'
  BY Zenon, <1>1, <1>3, <1>4, <1>7, OwnSame
<1>10. RecInv'
  <2>1. \A i \in Inodes : Settled(i)' <=> Settled(i)
    BY Zenon, <1>3, <1>8 DEF Settled
  <2> QED BY Zenon, <1>3, <1>7, <1>8, <2>1, RecSame
<1>11. GcInv'
  <2>1. \A d \in deletes' : \A i \in Inodes : d[1] \notin Segs(durable, i)'
    BY Zenon, <1>4, <1>7, GarbageUnrecorded
  <2>2. \A t \in Threads : op'[t].pc = "gc" =>
          \A i \in Inodes : op'[t].empty \cap Segs(durable, i)' = {}
    BY Zenon, <1>3, <1>7, GarbageUnrecorded DEF Busy
  <2> QED BY Zenon, <2>1, <2>2 DEF GcInv
<1>12. MemInv'
  <2> SUFFICES ASSUME NEW i \in Cached PROVE InodeOK(i)'
    BY Zenon, <1>1 DEF MemInv
  <2>1. (Gone(i)' <=> Gone(i)) /\ (Unlinked(i)' <=> Unlinked(i))
    BY Zenon, <1>3 DEF Gone, Unlinked
  <2> QED BY Zenon, <1>1, <2>1, InodeStays, NodeFacts
<1>13. PayInv'
  BY Zenon, <1>1, <1>3, <1>7, <1>8 DEF IInv, PayInv
<1>14. OpInv'
  <2> SUFFICES ASSUME NEW t \in Threads PROVE ThreadOK(t)'
    BY Zenon, <1>3 DEF IInv, OpInv
  <2>1. ThreadOK(t)
    BY Zenon DEF IInv, OpInv
  <2>2. FlushOK(t) => FlushOK(t)'
    <3>1. /\ op'[t].pc = op[t].pc /\ op'[t].locked = op[t].locked
          /\ op'[t].todo = op[t].todo /\ op'[t].empty = op[t].empty
          /\ op'[t].batch = op[t].batch
      BY Zenon, <1>3
    <3>2. inodeCache' = inodeCache /\ Cached' = Cached
      BY Zenon, <1>1
    <3> QED BY ZenonT(60), <3>1, <3>2 DEF FlushOK, Complete
  <2>3. LateOK(t) => LateOK(t)'
    BY Zenon, <1>1, <1>3 DEF LateOK
  <2> QED BY Zenon, <1>1, <1>3, <1>8, <2>1, <2>2, <2>3 DEF ThreadOK
<1> QED BY Zenon, <1>5, <1>6, <1>9, <1>10, <1>11, <1>12, <1>13, <1>14 DEF IInv

\* After a crash the records are those of the last checkpoint, and the garbage of
\* unfinished operations stays.
LEMMA CrashPreserves ==
    ASSUME IInv, Crash
    PROVE  IInv'
<1>1. /\ durable' = durable /\ recs' = durable /\ inodeCache' = Nothing /\ Cached' = {}
      /\ used' = used /\ swift' = swift /\ op' = [t \in Threads |-> NoOp] /\ deletes' = {}
  BY Zenon, NoOpFacts DEF Crash, Store!Crash, Cached
<1>2. \A t \in Threads : /\ op'[t] = NoOp /\ op'[t].empty = {} /\ op'[t].locked = {}
                         /\ op'[t].pc = "idle" /\ ThreadOK(t)' /\ ~Busy(t)'
  BY Zenon, <1>1, NoOpFacts, IdleOK
<1>3. TypeInv'
  <2>1. inodeCache' \in [Cached' -> InMemoryInode]
    BY Zenon, <1>1 DEF Nothing
  <2>2. op' \in [Threads -> Operation]
    BY Zenon, <1>1, NoOpFacts
  <2> QED BY Zenon, <1>1, <2>1, <2>2 DEF IInv, TypeInv, IsStore
<1>4. StoreOK(recs)' /\ StoreOK(durable)'
  BY ZenonT(60), <1>1 DEF IInv, StoreOK, Segs, HasPayload
<1>5. \A i \in Inodes : /\ Own(i)' = Segs(durable, i) /\ Segs(recs, i)' = Segs(durable, i)
                        /\ HasPayload(recs, i)' <=> HasPayload(durable, i)
                        /\ HasPayload(durable, i)' <=> HasPayload(durable, i)
  BY Zenon, <1>1 DEF Own, Segs, HasPayload
<1>6. OwnInv'
  <2>1. deletes' = {} /\ \A t \in Threads : op'[t].empty = {}
    BY Zenon, <1>1, <1>2
  <2>2. \A i, j \in Inodes : i # j => Own(i)' \cap Own(j)' = {}
    BY Zenon, <1>5 DEF IInv, StoreOK
  <2>3. \A i \in Inodes : \A s \in Own(i)' : s \in used' /\ recs'[Segment(s)] = "container"
    BY Zenon, <1>1, <1>5 DEF IInv, StoreOK
  <2>4. /\ \A i \in Inodes, t \in Threads : Own(i)' \cap op'[t].empty = {}
        /\ \A t, u \in Threads : t # u => op'[t].empty \cap op'[u].empty = {}
    BY Zenon, <2>1
  <2> QED BY Zenon, <2>1, <2>2, <2>3, <2>4 DEF OwnInv
<1>7. RecInv' /\ GcInv' /\ MemInv'
  BY Zenon, <1>1, <1>2, <1>5 DEF RecInv, GcInv, MemInv
<1>8. PayInv'
  <2>1. \A i \in Inodes : Mine(i)' = IF durable[Inode(i)] = None THEN {}
                                     ELSE {durable[Inode(i)].payload}
    BY Zenon, <1>1 DEF Mine
  <2>2. \A i, j \in Inodes : i # j => Mine(i)' \cap Mine(j)' = {}
    BY <2>1 DEF IInv, StoreOK
  <2> QED BY Zenon, <1>1, <1>5, <2>2 DEF PayInv
<1>9. OpInv'
  BY Zenon, <1>2 DEF OpInv
<1> QED BY Zenon, <1>3, <1>4, <1>6, <1>7, <1>8, <1>9 DEF IInv

\* deleteLogSegmentAsync() hands a segment over to the delete queue.
LEMMA DeleteLogSegmentPreserves ==
    ASSUME IInv, NEW t \in Threads, NEW s \in op[t].empty, DeleteLogSegment(t, s)
    PROVE  IInv'
<1>1. /\ op[t].pc = "gc" /\ deletes' = deletes \cup {<<s, op[t].gate>>}
      /\ recs' = [recs EXCEPT ![Segment(s)] = None]
      /\ op' = [op EXCEPT ![t].empty = @ \ {s}]
      /\ durable' = durable /\ inodeCache' = inodeCache /\ Cached' = Cached
      /\ used' = used /\ swift' = swift
  BY Zenon DEF DeleteLogSegment, Cached
<1>2. op \in [Threads -> Operation] /\ op[t] \in Operation /\ s \in Numbers
  BY Zenon DEF IInv, TypeInv, Operation
<1>3. /\ op'[t].empty = op[t].empty \ {s}
      /\ \A u \in Threads : /\ op'[u].pc = op[u].pc /\ op'[u].locked = op[u].locked
                            /\ op'[u].todo = op[u].todo /\ op'[u].victims = op[u].victims
                            /\ op'[u].gate = op[u].gate /\ op'[u].batch = op[u].batch
      /\ \A u \in Threads \ {t} : op'[u] = op[u]
      /\ op' \in [Threads -> Operation]
  BY Zenon, <1>1, <1>2 DEF Operation
<1>4. /\ \A j \in Inodes : recs'[Inode(j)] = recs[Inode(j)]
      /\ \A n \in Numbers : recs'[Payload(n)] = recs[Payload(n)]
      /\ \A n \in Numbers : recs'[Segment(n)] = IF n = s THEN None ELSE recs[Segment(n)]
      /\ recs' \in [Keys -> Values \cup {None}]
  <2>1. recs \in [Keys -> Values \cup {None}]
    BY Zenon DEF IInv, TypeInv, IsStore
  <2> QED BY Zenon, <1>1, <1>2, <2>1, KeyFacts
<1>5. TypeInv'
  BY <1>1, <1>2, <1>3, <1>4 DEF IInv, TypeInv, IsStore, Operation
<1>6. ~Busy(t) /\ \A u \in Threads : Busy(u)' <=> Busy(u)
  BY Zenon, <1>1, <1>3 DEF Busy
<1>7. /\ \A j \in Inodes : s \notin Own(j) /\ s \notin Segs(recs, j)
      /\ \A u \in Threads \ {t} : s \notin op[u].empty
      /\ s \in used
  BY Zenon, <1>6, GarbageUnrecorded DEF IInv, OwnInv
<1>8. \A j \in Inodes : /\ Segs(recs, j)' = Segs(recs, j) /\ Own(j)' = Own(j)
                        /\ Segs(durable, j)' = Segs(durable, j)
  BY <1>1, <1>4 DEF Own, Segs
<1>9. \A j \in Inodes : recs[Inode(j)] # None => recs[Inode(j)].payload \in Numbers
  BY Zenon DEF IInv, TypeInv, IsStore, InodeRec
<1>10. \A j \in Inodes : /\ Mine(j)' = Mine(j)
                         /\ HasPayload(recs, j)' <=> HasPayload(recs, j)
                         /\ HasPayload(durable, j)' <=> HasPayload(durable, j)
  BY Zenon, <1>1, <1>4, <1>9 DEF Mine, HasPayload
<1>11. StoreOK(recs)'
  <2>1. \A j \in Inodes : Segs(recs, j) \subseteq Numbers
    BY Zenon DEF Segs, IInv, TypeInv, IsStore, InodeRec
  <2>2. \A j \in Inodes : \A x \in Segs(recs, j) : recs'[Segment(x)] = "container"
    BY Zenon, <2>1, <1>4, <1>7 DEF IInv, StoreOK
  <2>3. \A j \in Inodes : recs[Inode(j)] # None =>
          recs'[Payload(PayloadOf(j))] = recs[Payload(PayloadOf(j))]
    BY Zenon, <1>4, <1>9 DEF PayloadOf
  <2> QED BY Zenon, <1>1, <1>4, <2>2, <2>3, RecsStay
<1>12. StoreOK(durable)'
  BY Zenon, <1>1, StoreStays DEF IInv
<1>13. OwnInv'
  <2>1. \A u \in Threads : op'[u].empty \subseteq op[u].empty /\ s \notin op'[u].empty
    BY Zenon, <1>3, <1>7
  <2>2. \A d \in deletes' : d \in deletes \/ d[1] = s
    BY <1>1
  <2>3. \A d \in deletes' : /\ d[1] \in used'
                            /\ \A i \in Inodes : d[1] \notin Own(i)'
                            /\ \A u \in Threads : d[1] \notin op'[u].empty
    <3> SUFFICES ASSUME NEW d \in deletes'
                 PROVE  /\ d[1] \in used
                        /\ \A i \in Inodes : d[1] \notin Own(i)
                        /\ \A u \in Threads : d[1] \notin op'[u].empty
      BY Zenon, <1>1, <1>8
    <3>1. CASE d \in deletes
      BY Zenon, <2>1, <3>1 DEF IInv, OwnInv
    <3>2. CASE d[1] = s
      BY Zenon, <1>7, <2>1, <3>2
    <3> QED BY Zenon, <2>2, <3>1, <3>2
  <2>4. /\ \A i \in Inodes : Own(i) \subseteq Numbers
        /\ \A u \in Threads : op[u].empty \subseteq Numbers
    BY Zenon, <1>2 DEF IInv, TypeInv, Own, Segs, IsStore, InodeRec, InMemoryInode, Operation
  <2>5. /\ \A i \in Inodes : \A x \in Own(i)' : x \in used' /\ recs'[Segment(x)] = "container"
        /\ \A u \in Threads : \A x \in op'[u].empty :
             x \in used' /\ recs'[Segment(x)] = "container"
    <3>1. \A x \in Numbers : x # s => recs'[Segment(x)] = recs[Segment(x)]
      BY Zenon, <1>4
    <3>2. \A i \in Inodes : \A x \in Own(i) : x # s /\ x \in used /\ recs[Segment(x)] = "container"
      BY Zenon, <1>7 DEF IInv, OwnInv
    <3>3. \A u \in Threads : \A x \in op'[u].empty :
            x # s /\ x \in Numbers /\ x \in used /\ recs[Segment(x)] = "container"
      <4> SUFFICES ASSUME NEW u \in Threads, NEW x \in op'[u].empty
                   PROVE  x # s /\ x \in Numbers /\ x \in used /\ recs[Segment(x)] = "container"
        BY Zenon
      <4>1. x \in op[u].empty /\ x # s
        BY Zenon, <2>1
      <4> QED BY Zenon, <2>4, <4>1 DEF IInv, OwnInv
    <3> QED BY Zenon, <1>1, <1>8, <2>4, <3>1, <3>2, <3>3
  <2>6. /\ \A i, j \in Inodes : i # j => Own(i)' \cap Own(j)' = {}
        /\ \A i \in Inodes, u \in Threads : Own(i)' \cap op'[u].empty = {}
        /\ \A u, v \in Threads : u # v => op'[u].empty \cap op'[v].empty = {}
    <3>1. \A i, j \in Inodes : i # j => Own(i)' \cap Own(j)' = {}
      BY Zenon, <1>8 DEF IInv, OwnInv
    <3>2. ASSUME NEW i \in Inodes, NEW u \in Threads, NEW x \in Own(i)', x \in op'[u].empty
          PROVE  FALSE
      <4>1. x \in Own(i) /\ x \in op[u].empty
        BY Zenon, <1>8, <2>1, <3>2
      <4> QED BY Zenon, <4>1 DEF IInv, OwnInv
    <3>3. ASSUME NEW u \in Threads, NEW v \in Threads, u # v,
                 NEW x \in op'[u].empty, x \in op'[v].empty
          PROVE  FALSE
      <4>1. x \in op[u].empty /\ x \in op[v].empty
        BY Zenon, <2>1, <3>3
      <4> QED BY Zenon, <3>3, <4>1 DEF IInv, OwnInv
    <3> QED BY Zenon, <3>1, <3>2, <3>3
  <2> QED BY Zenon, <2>3, <2>5, <2>6 DEF OwnInv
<1>14. RecInv'
  <2>1. \A i \in Inodes : Settled(i)' <=> Settled(i)
    BY Zenon, <1>3, <1>6 DEF Settled
  <2>2. \A u \in Threads : Busy(u)' => Busy(u) /\ op'[u] = op[u]
    BY Zenon, <1>3, <1>6
  <2> QED BY Zenon, <1>8, <2>1, <2>2, RecSame
<1>15. GcInv'
  <2>1. \A d \in deletes' : d \in deletes \/ d = <<s, op[t].gate>>
    BY Zenon, <1>1
  <2>2. \A d \in deletes' : d[2] = "open" => \A i \in Inodes : d[1] \notin Segs(durable, i)
    <3> SUFFICES ASSUME NEW d \in deletes', d \notin deletes, d[2] = "open"
                 PROVE  \A i \in Inodes : d[1] \notin Segs(durable, i)
      BY Zenon DEF IInv, GcInv
    <3>1. d[1] = s /\ op[t].gate = "open"
      BY <2>1
    <3> QED BY Zenon, <1>1, <3>1 DEF IInv, GcInv
  <2>3. \A u \in Threads : op'[u].empty \subseteq op[u].empty
    BY Zenon, <1>3
  <2>4. \A u \in Threads : op'[u].pc = "gc" /\ op'[u].gate = "open" =>
          \A i \in Inodes : op'[u].empty \cap Segs(durable, i) = {}
    BY <1>3, <2>3 DEF IInv, GcInv
  <2> QED BY Zenon, <1>8, <2>2, <2>4 DEF GcInv
<1>16. MemInv'
  <2> SUFFICES ASSUME NEW i \in Cached PROVE InodeOK(i)'
    BY Zenon, <1>1 DEF MemInv
  <2>1. (Gone(i)' <=> Gone(i)) /\ (Unlinked(i)' <=> Unlinked(i))
    BY ZenonT(60), <1>3 DEF Gone, Unlinked
  <2>2. i \in Inodes /\ InodeOK(i) /\ inodeCache[i].node \in Numbers \cup {None}
    BY Zenon, NodeFacts DEF InMemoryInode
  <2> QED BY Zenon, <1>1, <1>4, <2>1, <2>2, InodeStays
<1>17. PayInv'
  BY Zenon, <1>1, <1>3, <1>6, <1>10 DEF IInv, PayInv
<1>18. OpInv'
  <2>1. OpInv /\ Threads \ {t} \in SUBSET Threads
    BY Zenon DEF IInv
  <2>2. \A u \in Threads : op[u].locked \subseteq Inodes
    BY Zenon, <1>2 DEF Operation
  <2>3. \A u \in Threads \ {t} : ThreadOK(u)'
    <3>1. \A u \in Threads \ {t} : \A i \in op[u].locked :
             /\ i \in Cached' <=> i \in Cached
             /\ i \in Cached => inodeCache'[i] = inodeCache[i]
             /\ recs'[Inode(i)] = recs[Inode(i)]
      BY Zenon, <1>1, <1>4, <2>2
    <3>2. used \subseteq used' /\ \A u \in Threads \ {t} : op'[u] = op[u]
      BY Zenon, <1>1, <1>3
    <3> QED BY Zenon, <2>1, <3>1, <3>2, ThreadsStay
  <2>4. ThreadOK(t) /\ LateOK(t)
    BY Zenon, <1>1, <2>1 DEF OpInv, ThreadOK, Late
  <2>5. LateOK(t)'
    BY Zenon, <1>1, <1>3, <2>4 DEF LateOK
  <2>6. ThreadOK(t)'
    BY Zenon, <1>1, <1>3, <1>6, <2>4, <2>5 DEF ThreadOK
  <2> QED BY ZenonT(60), <1>3, <2>1, <2>3, <2>6 DEF OpInv
<1> QED BY Zenon, <1>5, <1>11, <1>12, <1>13, <1>14, <1>15, <1>16, <1>17, <1>18 DEF IInv

-----------------------------------------------------------------------------

\* flushInodes() of one inode puts its extent map under a new payload object and
\* takes the empty log segments out of its LogSegmentMap.
LEMMA FlushInodePreserves ==
    ASSUME IInv, NEW t \in Threads, NEW i \in op[t].todo, NEW n \in Numbers,
           FlushInode(t, i, n)
    PROVE  IInv'
<1> DEFINE inode == inodeCache[i]
           new == [inode EXCEPT !.segs = @ \cap inode.data, !.node = n]
           rec == [payload |-> n, segs |-> inode.segs \cap inode.data, linked |-> inode.linked]
           E == inode.segs \ inode.data
<1>1. /\ op[t].pc = "flush" /\ inode.inFlight = {} /\ ~inode.failed
      /\ inode.node = None => n \notin used /\ used' = used \cup {n}
                              /\ recs' = [recs EXCEPT ![Payload(n)] = inode.data]
      /\ inode.node # None => n = inode.node /\ recs' = recs /\ used' = used
      /\ inodeCache' = Set(i, new)
      /\ op' = [op EXCEPT ![t].pc = "prune", ![t].todo = @ \ {i}, ![t].empty = @ \cup E,
                          ![t].batch = With(@, i, rec)]
      /\ durable' = durable /\ swift' = swift /\ deletes' = deletes
  BY Zenon DEF FlushInode
<1>2. Busy(t) /\ ThreadOK(t) /\ FlushOK(t)
  BY Zenon, <1>1 DEF IInv, OpInv, ThreadOK, Busy
<1>3. i \in op[t].locked /\ i \in Cached /\ i \in Inodes /\ inode.dirty
  BY Zenon, <1>2, NodeFacts DEF ThreadOK, FlushOK
<1>4. inode \in InMemoryInode /\ InodeOK(i)
  BY Zenon, <1>3, NodeFacts
<1>5. /\ new \in InMemoryInode /\ new.data = inode.data
      /\ new.segs = inode.segs \cap inode.data
      /\ new.inFlight = inode.inFlight /\ new.openLogSegment = inode.openLogSegment
      /\ new.node = n /\ new.stale = inode.stale
      /\ new.dirty /\ (new.linked <=> inode.linked) /\ (new.failed <=> inode.failed)
      /\ new.linked = inode.linked
  BY Zenon, <1>3, <1>4 DEF InMemoryInode
<1>6. rec \in InodeRec /\ E \in SUBSET Numbers
  BY Zenon, <1>4 DEF InMemoryInode, InodeRec
<1> HIDE DEF new
<1>7. /\ Cached' = Cached /\ inodeCache'[i] = new
      /\ \A j \in Cached \ {i} : inodeCache'[j] = inodeCache[j]
      /\ inodeCache' \in [Cached -> InMemoryInode]
  BY Zenon, <1>1, <1>3, <1>5 DEF IInv, TypeInv, Set, With, Cached
<1>8. /\ used' = used \cup {n} /\ n # None
      /\ \A j \in Inodes : recs'[Inode(j)] = recs[Inode(j)]
      /\ \A m \in Numbers : recs'[Segment(m)] = recs[Segment(m)]
      /\ \A m \in Numbers : recs'[Payload(m)] = IF m = n THEN inode.data ELSE recs[Payload(m)]
      /\ \A m \in Numbers : m \in used => recs'[Payload(m)] = recs[Payload(m)]
      /\ recs' \in [Keys -> Values \cup {None}]
  <2>1. recs \in [Keys -> Values \cup {None}] /\ n # None
    BY Zenon, NoneAssumption DEF IInv, TypeInv, IsStore
  <2>2. inode.data \in Values
    BY Zenon, <1>4 DEF InMemoryInode, Values
  <2>3. CASE inode.node = None
    <3>1. recs' = [recs EXCEPT ![Payload(n)] = inode.data] /\ used' = used \cup {n} /\ n \notin used
      BY Zenon, <1>1, <2>3
    <3>2. \A m \in Numbers : recs'[Payload(m)] = IF m = n THEN inode.data ELSE recs[Payload(m)]
      BY Zenon, <2>1, <3>1, KeyFacts
    <3>3. \A j \in Inodes : recs'[Inode(j)] = recs[Inode(j)]
      BY Zenon, <2>1, <3>1, KeyFacts
    <3>4. \A m \in Numbers : recs'[Segment(m)] = recs[Segment(m)]
      BY Zenon, <2>1, <3>1, KeyFacts
    <3>5. recs' \in [Keys -> Values \cup {None}]
      BY Zenon, <2>1, <2>2, <3>1, KeyFacts
    <3> QED BY Zenon, <2>1, <3>1, <3>2, <3>3, <3>4, <3>5
  <2>4. CASE inode.node # None
    BY Zenon, <1>1, <1>4, <2>1, <2>4 DEF InodeOK
  <2> QED BY Zenon, <2>3, <2>4
<1>9. op \in [Threads -> Operation] /\ op[t] \in Operation
  BY Zenon DEF IInv, TypeInv
<1>10. /\ With(op[t].batch, i, rec) \in Batches
       /\ DOMAIN With(op[t].batch, i, rec) = DOMAIN op[t].batch \cup {i}
       /\ With(op[t].batch, i, rec)[i] = rec
       /\ \A j \in DOMAIN op[t].batch \ {i} : With(op[t].batch, i, rec)[j] = op[t].batch[j]
  <2>1. op[t].batch \in Batches
    BY Zenon, <1>9 DEF Operation
  <2>2. PICK D \in SUBSET Inodes : op[t].batch \in [D -> InodeRec]
    BY Zenon, <2>1 DEF Batches
  <2> HIDE DEF rec
  <2>3. With(op[t].batch, i, rec) \in [D \cup {i} -> InodeRec]
    BY Zenon, <2>2, <1>6 DEF With
  <2>4. D \cup {i} \in SUBSET Inodes
    BY Zenon, <2>2, <1>3
  <2>5. With(op[t].batch, i, rec) \in Batches
    BY Zenon, <2>3, <2>4 DEF Batches
  <2> QED BY Zenon, <2>5 DEF With
<1>11. /\ op'[t].pc = "prune" /\ op'[t].locked = op[t].locked
       /\ op'[t].todo = op[t].todo \ {i} /\ op'[t].victims = op[t].victims
       /\ op'[t].empty = op[t].empty \cup E
       /\ op'[t].batch = With(op[t].batch, i, rec)
       /\ \A u \in Threads \ {t} : op'[u] = op[u]
       /\ op' \in [Threads -> Operation]
  <2> DEFINE b == With(op[t].batch, i, rec)
  <2>1. b \in Batches
    BY Zenon, <1>10
  <2>2. op' = [op EXCEPT ![t].pc = "prune", ![t].todo = @ \ {i}, ![t].empty = @ \cup E,
                         ![t].batch = b]
    BY Zenon, <1>1
  <2> HIDE DEF b, E
  <2>3. /\ op'[t].pc = "prune" /\ op'[t].locked = op[t].locked
       /\ op'[t].todo = op[t].todo \ {i} /\ op'[t].victims = op[t].victims
       /\ op'[t].empty = op[t].empty \cup E
       /\ op'[t].batch = b
       /\ \A u \in Threads \ {t} : op'[u] = op[u]
    BY Zenon, <2>2, <1>9 DEF Operation
  <2>4. op'[t] \in Operation
    BY Zenon, <2>1, <2>2, <1>6, <1>9 DEF Operation
  <2>5. op' \in [Threads -> Operation]
    BY Zenon, <2>2, <2>3, <2>4, <1>9
  <2> QED BY Zenon, <2>3, <2>5 DEF b
<1> HIDE DEF E
<1>12. TypeInv'
  BY ZenonT(60), <1>1, <1>4, <1>7, <1>8, <1>11 DEF IInv, TypeInv, IsStore, InMemoryInode
<1>13. /\ \A u \in Threads : Busy(u)' <=> Busy(u)
       /\ \A u \in Threads : op'[u].locked = op[u].locked
       /\ \A j \in Inodes : /\ Settled(j)' <=> Settled(j)
                            /\ Unlinked(j)' <=> Unlinked(j)
                            /\ Gone(j)' <=> Gone(j)
  <2>1. /\ \A u \in Threads : Busy(u)' <=> Busy(u)
        /\ \A u \in Threads : op'[u].locked = op[u].locked
    BY Zenon, <1>1, <1>11 DEF Busy
  <2> QED BY <1>1, <1>11, <2>1 DEF Settled, Unlinked, Gone
<1>14. /\ Own(i)' = Own(i) \ E /\ E \subseteq Own(i)
       /\ \A j \in Inodes \ {i} : Own(j)' = Own(j)
       /\ \A j \in Inodes : Segs(recs, j)' = Segs(recs, j)
  BY Zenon, <1>3, <1>5, <1>7, <1>8 DEF Own, Segs, E
<1>15. \A j \in Inodes : recs[Inode(j)] # None => PayloadOf(j) \in Numbers /\ PayloadOf(j) \in used
  BY Zenon DEF PayloadOf, IInv, TypeInv, IsStore, InodeRec, StoreOK
<1>16. StoreOK(recs)' /\ StoreOK(durable)'
  <2>1. \A j \in Inodes : \A s \in Segs(recs, j) : recs'[Segment(s)] = "container"
    <3>1. \A j \in Inodes : Segs(recs, j) \subseteq Numbers
      BY Zenon DEF Segs, IInv, TypeInv, IsStore, InodeRec
    <3> QED BY Zenon, <3>1, <1>8 DEF IInv, StoreOK
  <2>2. used \subseteq used' /\ swift \subseteq swift'
    BY Zenon, <1>1, <1>8
  <2>3. StoreOK(recs)'
    BY Zenon, <1>8, <1>15, <2>1, <2>2, RecsStay
  <2> QED BY Zenon, <1>1, <2>2, <2>3, StoreStays DEF IInv
<1>17. OwnInv'
  <2>1. /\ \A j \in Inodes : Own(j) \subseteq Numbers
        /\ \A u \in Threads : op[u].empty \subseteq Numbers
    BY Zenon DEF IInv, TypeInv, Own, Segs, IsStore, InodeRec, InMemoryInode, Operation
  <2>2. \A u \in Threads : \A s \in op'[u].empty : s \in op[u].empty \/ (u = t /\ s \in E)
    <3>1. op'[t].empty = op[t].empty \cup E
      BY Zenon, <1>11
    <3>2. \A u \in Threads \ {t} : op'[u].empty = op[u].empty
      BY Zenon, <1>11
    <3> QED BY Zenon, <3>1, <3>2
  <2>3. \A j \in Inodes : \A s \in Own(j)' : s \in Own(j) /\ s \notin E
    <3>1. \A j \in Inodes : j # i => Own(i) \cap Own(j) = {}
      BY Zenon, <1>3 DEF IInv, OwnInv
    <3> QED BY Zenon, <1>3, <1>14, <3>1
  <2>4. /\ \A j, k \in Inodes : j # k => Own(j)' \cap Own(k)' = {}
        /\ \A j \in Inodes, u \in Threads : Own(j)' \cap op'[u].empty = {}
    BY Zenon, <2>2, <2>3 DEF IInv, OwnInv
  <2>5. \A u, v \in Threads : u # v => op'[u].empty \cap op'[v].empty = {}
    <3> SUFFICES ASSUME NEW u \in Threads, NEW v \in Threads, u # v,
                        NEW s \in op'[u].empty, s \in op'[v].empty
                 PROVE  FALSE
      BY Zenon
    <3>1. \A x \in Threads : s \in op[x].empty => s \notin Own(i)
      BY Zenon, <1>3 DEF IInv, OwnInv
    <3>2. \A x, y \in Threads : s \in op[x].empty /\ s \in op[y].empty => x = y
      BY Zenon DEF IInv, OwnInv
    <3> QED BY Zenon, <1>14, <2>2, <3>1, <3>2
  <2>6. \A d \in deletes' : /\ d[1] \in used'
                            /\ \A j \in Inodes : d[1] \notin Own(j)'
                            /\ \A u \in Threads : d[1] \notin op'[u].empty
    BY ZenonT(60), <1>1, <1>3, <1>8, <1>14, <2>2, <2>3 DEF IInv, OwnInv
  <2>7. /\ \A j \in Inodes : \A s \in Own(j)' : s \in used' /\ recs'[Segment(s)] = "container"
        /\ \A u \in Threads : \A s \in op'[u].empty :
             s \in used' /\ recs'[Segment(s)] = "container"
    <3>1. /\ \A j \in Inodes : \A s \in Own(j) :
               s \in Numbers /\ s \in used /\ recs[Segment(s)] = "container"
          /\ \A u \in Threads : \A s \in op[u].empty :
               s \in Numbers /\ s \in used /\ recs[Segment(s)] = "container"
      BY Zenon, <2>1 DEF IInv, OwnInv
    <3>2. \A s \in E : s \in Own(i)
      BY Zenon, <1>14
    <3> QED BY ZenonT(60), <1>3, <1>8, <2>2, <2>3, <3>1, <3>2
  <2> QED BY Zenon, <2>4, <2>5, <2>6, <2>7 DEF OwnInv
<1>18. RecInv'
  <2>1. \A u \in Threads : op[u].locked \subseteq Inodes
    BY Zenon, <1>9 DEF Operation
  <2>2. \A j \in Inodes : Settled(j) => j # i
    BY Zenon, <1>2, <1>3 DEF Settled
  <2>3. \A j \in Inodes : Settled(j)' => Segs(recs, j)' \subseteq Own(j)'
    BY Zenon, <1>13, <1>14, <2>2 DEF IInv, RecInv
  <2>4. \A u \in Threads \ {t} : i \notin op[u].locked
    BY Zenon, <1>3 DEF IInv, OpInv
  <2>5. ASSUME NEW u \in Threads, Busy(u)', NEW j \in op'[u].locked, NEW s \in Segs(recs, j)'
        PROVE  s \in op'[u].empty \/ \E k \in op'[u].locked : s \in Own(k)'
    <3>1. Busy(u) /\ j \in op[u].locked /\ j \in Inodes /\ s \in Segs(recs, j)
      BY Zenon, <2>1, <2>5, <1>13, <1>14
    <3>2. s \in op[u].empty \/ \E k \in op[u].locked : s \in Own(k)
      BY Zenon, <3>1 DEF IInv, RecInv
    <3>3. CASE u = t
      BY Zenon, <3>2, <3>3, <2>1, <1>11, <1>14
    <3>4. CASE u # t
      <4>1. op'[u] = op[u] /\ \A k \in op[u].locked : Own(k)' = Own(k)
        BY Zenon, <3>4, <2>1, <2>4, <1>11, <1>14
      <4> QED BY Zenon, <3>2, <4>1
    <3> QED BY Zenon, <3>3, <3>4
  <2> QED BY Zenon, <2>3, <2>5 DEF RecInv
<1>19. GcInv'
  BY Zenon, <1>1, <1>11 DEF IInv, GcInv, Segs
<1>20. MemInv'
  <2>1. InodeOK(i)'
    <3>1. new.stale \subseteq used' /\ new.node \notin new.stale
      BY Zenon, <1>1, <1>4, <1>5, <1>8 DEF InodeOK
    <3>2. new.openLogSegment = None
      BY Zenon, <1>1, <1>4, <1>5 DEF InodeOK
    <3>3. n \in used' /\ recs'[Payload(n)] = new.data
      BY Zenon, <1>5, <1>8
    <3>4. /\ new.linked => new.data \subseteq new.segs
          /\ ~new.linked => new.failed \/ Unlinked(i)'
          /\ new.data \cap new.segs \subseteq swift'
      BY Zenon, <1>1, <1>3, <1>4, <1>5, <1>13 DEF InodeOK
    <3> QED BY Zenon, <1>1, <1>4, <1>5, <1>7, <1>8, <3>1, <3>2, <3>3, <3>4 DEF InodeOK
  <2>2. ASSUME NEW j \in Cached, j # i PROVE InodeOK(j)'
    <3>1. j \in Inodes /\ InodeOK(j) /\ inodeCache[j] \in InMemoryInode
      BY Zenon, NodeFacts
    <3>2. inodeCache[j].node # None =>
            recs'[Payload(inodeCache[j].node)] = recs[Payload(inodeCache[j].node)]
      BY Zenon, <3>1, <1>8 DEF InodeOK, InMemoryInode
    <3>3. used \subseteq used' /\ swift \subseteq swift' /\ inodeCache'[j] = inodeCache[j]
      BY Zenon, <1>1, <1>7, <1>8, <2>2
    <3> QED BY Zenon, <3>1, <3>2, <3>3, <1>8, <1>13, InodeStays
  <2> QED BY Zenon, <1>7, <2>1, <2>2 DEF MemInv
<1>21. PayInv'
  <2>1. \A j \in Inodes \ {i} : Mine(j)' = Mine(j)
    BY Zenon, <1>7, <1>8 DEF Mine
  <2>2. Mine(i)' \subseteq Mine(i) \cup {n} /\ (n \in used => n \in Mine(i))
    BY Zenon, <1>1, <1>3, <1>5, <1>7, <1>8 DEF Mine
  <2>3. \A j \in Inodes : Mine(j) \subseteq used
    BY ZenonT(60), <1>15, NodeFacts DEF Mine, InodeOK, PayloadOf
  <2>4. \A j, k \in Inodes : j # k => Mine(j)' \cap Mine(k)' = {}
    BY <2>1, <2>2, <2>3 DEF IInv, PayInv
  <2>5. \A j \in Inodes : /\ HasPayload(recs, j)' <=> HasPayload(recs, j)
                          /\ HasPayload(durable, j)' <=> HasPayload(durable, j)
    BY Zenon, <1>1, <1>8, <1>15 DEF HasPayload, PayloadOf
  <2>6. \A u \in Threads : DOMAIN op[u].batch \subseteq DOMAIN op'[u].batch
    BY Zenon, <1>10, <1>11
  <2> QED BY Zenon, <1>7, <1>13, <2>4, <2>5, <2>6 DEF IInv, PayInv
<1>22. OpInv'
  <2>1. OpInv /\ Threads \ {t} \in SUBSET Threads
    BY Zenon DEF IInv
  <2>2. \A u \in Threads \ {t} : ThreadOK(u)'
    <3>1. \A u \in Threads \ {t} : i \notin op[u].locked /\ op[u].locked \subseteq Inodes
      BY Zenon, <1>3, <1>9, <2>1 DEF OpInv, Operation
    <3>2. \A u \in Threads \ {t} : \A j \in op[u].locked :
             /\ j \in Cached' <=> j \in Cached
             /\ j \in Cached => inodeCache'[j] = inodeCache[j]
             /\ recs'[Inode(j)] = recs[Inode(j)]
      BY Zenon, <1>7, <1>8, <3>1
    <3>3. used \subseteq used' /\ \A u \in Threads \ {t} : op'[u] = op[u]
      BY Zenon, <1>8, <1>11
    <3> QED BY Zenon, <2>1, <3>2, <3>3, ThreadsStay
  <2>3. FlushOK(t)'
    <3>1. /\ op'[t].locked \subseteq Cached' /\ \A j \in op'[t].locked : inodeCache'[j].dirty
          /\ DOMAIN op'[t].batch = op'[t].locked \ op'[t].todo
      <4>1. /\ op[t].locked \subseteq Cached /\ \A j \in op[t].locked : inodeCache[j].dirty
            /\ DOMAIN op[t].batch = op[t].locked \ op[t].todo
        BY Zenon, <1>2 DEF FlushOK
      <4>2. op'[t].locked \subseteq Cached' /\ \A j \in op'[t].locked : inodeCache'[j].dirty
        BY Zenon, <4>1, <1>3, <1>5, <1>7, <1>11
      <4>3. DOMAIN op'[t].batch = op'[t].locked \ op'[t].todo
        BY ZenonT(60), <4>1, <1>3, <1>10, <1>11
      <4> QED BY Zenon, <4>2, <4>3
    <3>2. \A j \in op'[t].locked : Complete(inodeCache[j])'
      <4>1. CASE \A j \in op[t].locked : Complete(inodeCache[j])
        BY <4>1, <1>1, <1>2, <1>5, <1>7, <1>11 DEF Complete, FlushOK
      <4>2. CASE \A j, k \in op[t].locked : j = k
        BY <4>2, <1>3, <1>1, <1>5, <1>7, <1>11 DEF Complete
      <4> QED BY Zenon, <4>1, <4>2, <1>2 DEF FlushOK
    <3>3. ASSUME NEW j \in DOMAIN op'[t].batch
          PROVE  /\ inodeCache'[j].node # None
                 /\ inodeCache'[j].segs \subseteq inodeCache'[j].data
                 /\ op'[t].batch[j] = [payload |-> inodeCache'[j].node,
                                       segs |-> inodeCache'[j].segs,
                                       linked |-> inodeCache'[j].linked]
      <4>1. CASE j = i
        BY Zenon, <4>1, <1>5, <1>7, <1>8, <1>10, <1>11
      <4>2. CASE j # i
        <5>1. /\ j \in DOMAIN op[t].batch /\ j \in Cached /\ inodeCache'[j] = inodeCache[j]
              /\ op'[t].batch[j] = op[t].batch[j]
          <6>1. j \in DOMAIN op[t].batch /\ op'[t].batch[j] = op[t].batch[j]
            BY Zenon, <4>2, <3>3, <1>10, <1>11
          <6>2. DOMAIN op[t].batch \subseteq Cached
            BY Zenon, <1>2 DEF FlushOK
          <6> QED BY Zenon, <4>2, <6>1, <6>2, <1>7
        <5> QED BY Zenon, <5>1, <1>2 DEF FlushOK
      <4> QED BY Zenon, <4>1, <4>2
    <3>4. DOMAIN op'[t].batch \subseteq op'[t].locked /\ op'[t].pc # "put"
      BY Zenon, <3>1, <1>11
    <3> QED BY Zenon, <3>1, <3>2, <3>3, <3>4 DEF FlushOK
  <2>4. ThreadOK(t)'
    BY Zenon, <1>2, <1>8, <1>11, <2>3 DEF ThreadOK, Late
  <2> QED BY Zenon, <1>13, <2>1, <2>2, <2>4 DEF OpInv
<1> QED BY Zenon, <1>12, <1>16, <1>17, <1>18, <1>19, <1>20, <1>21, <1>22 DEF IInv

\* Prune() deletes the old payload objects of the inodes flushed: the records that
\* name them are replaced by the same operation.
LEMMA PrunePreserves ==
    ASSUME IInv, NEW t \in Threads, Prune(t)
    PROVE  IInv'
<1> DEFINE B == DOMAIN op[t].batch
           stale == StaleOf(t)
           pruned(i) == [inodeCache[i] EXCEPT !.stale = {}]
<1>1. /\ op[t].pc = "prune"
      /\ recs' = [k \in Keys |-> IF \E n \in stale : k = Payload(n) THEN None ELSE recs[k]]
      /\ inodeCache' = [i \in Cached |-> IF i \in B THEN pruned(i) ELSE inodeCache[i]]
      /\ op' = [op EXCEPT ![t].pc = IF op[t].todo = {} THEN "put" ELSE "flush"]
      /\ Cached' = Cached
      /\ durable' = durable /\ swift' = swift /\ deletes' = deletes /\ used' = used
  BY Zenon DEF Prune, Cached
<1>2. Busy(t) /\ ThreadOK(t) /\ FlushOK(t)
  BY Zenon, <1>1 DEF IInv, OpInv, ThreadOK, Busy
<1>3. /\ B \subseteq op[t].locked /\ B \subseteq Cached /\ B \subseteq Inodes
      /\ \A i \in B : inodeCache[i] \in InMemoryInode
  BY Zenon, <1>2, NodeFacts DEF FlushOK
<1>4. \A i \in B : /\ pruned(i) \in InMemoryInode /\ pruned(i).data = inodeCache[i].data
                   /\ pruned(i).segs = inodeCache[i].segs
                   /\ pruned(i).inFlight = inodeCache[i].inFlight
                   /\ pruned(i).openLogSegment = inodeCache[i].openLogSegment
                   /\ pruned(i).node = inodeCache[i].node /\ pruned(i).stale = {}
                   /\ pruned(i).dirty = inodeCache[i].dirty
                   /\ pruned(i).linked = inodeCache[i].linked
                   /\ pruned(i).failed = inodeCache[i].failed
  BY Zenon, <1>3 DEF InMemoryInode
<1>5. \A i \in B : inodeCache'[i] = pruned(i)
  BY Zenon, <1>1, <1>3
<1> HIDE DEF pruned
<1>6. /\ \A i \in Cached : /\ inodeCache'[i].data = inodeCache[i].data
                           /\ inodeCache'[i].segs = inodeCache[i].segs
                           /\ inodeCache'[i].inFlight = inodeCache[i].inFlight
                           /\ inodeCache'[i].openLogSegment = inodeCache[i].openLogSegment
                           /\ inodeCache'[i].node = inodeCache[i].node
                           /\ inodeCache'[i].stale \subseteq inodeCache[i].stale
                           /\ inodeCache'[i].dirty = inodeCache[i].dirty
                           /\ inodeCache'[i].linked = inodeCache[i].linked
                           /\ inodeCache'[i].failed = inodeCache[i].failed
      /\ \A i \in Cached \ B : inodeCache'[i] = inodeCache[i]
      /\ inodeCache' \in [Cached -> InMemoryInode]
  BY Zenon, <1>1, <1>4, <1>5, NodeFacts
<1>7. \A n \in stale : \E i \in B : n \in inodeCache[i].stale
  BY Zenon DEF StaleOf
<1>8. stale \subseteq Numbers
  BY Zenon, <1>3, <1>7 DEF InMemoryInode
<1> HIDE DEF stale
<1>9. /\ \A j \in Inodes : recs'[Inode(j)] = recs[Inode(j)]
      /\ \A m \in Numbers : recs'[Segment(m)] = recs[Segment(m)]
      /\ \A m \in Numbers : recs'[Payload(m)] = IF m \in stale THEN None ELSE recs[Payload(m)]
      /\ recs' \in [Keys -> Values \cup {None}]
  <2>1. recs \in [Keys -> Values \cup {None}]
    BY Zenon DEF IInv, TypeInv, IsStore
  <2> QED BY Zenon, <1>1, <2>1, KeyFacts
<1>10. op \in [Threads -> Operation] /\ op[t] \in Operation
  BY Zenon DEF IInv, TypeInv
<1>11. /\ op'[t].pc = IF op[t].todo = {} THEN "put" ELSE "flush"
       /\ \A u \in Threads : /\ op'[u].locked = op[u].locked /\ op'[u].empty = op[u].empty
                             /\ op'[u].todo = op[u].todo /\ op'[u].victims = op[u].victims
                             /\ op'[u].batch = op[u].batch
       /\ \A u \in Threads \ {t} : op'[u] = op[u]
       /\ op' \in [Threads -> Operation]
  BY Zenon, <1>1, <1>10 DEF Operation
<1>12. TypeInv'
  BY <1>1, <1>6, <1>9, <1>11 DEF IInv, TypeInv, IsStore
<1>13. /\ \A u \in Threads : Busy(u)' <=> Busy(u)
       /\ \A j \in Inodes : /\ Settled(j)' <=> Settled(j)
                            /\ Unlinked(j)' <=> Unlinked(j)
                            /\ Gone(j)' <=> Gone(j)
  <2>1. \A u \in Threads : Busy(u)' <=> Busy(u)
    BY Zenon, <1>1, <1>11 DEF Busy
  <2> QED BY <1>1, <1>11, <2>1 DEF Settled, Unlinked, Gone
<1>14. \A j \in Inodes : Own(j)' = Own(j) /\ Segs(recs, j)' = Segs(recs, j)
  <2> SUFFICES ASSUME NEW j \in Inodes PROVE Own(j)' = Own(j) /\ Segs(recs, j)' = Segs(recs, j)
    BY Zenon
  <2>1. recs'[Inode(j)] = recs[Inode(j)]
    BY Zenon, <1>9
  <2>2. Segs(recs, j)' = Segs(recs, j)
    BY Zenon, <2>1 DEF Segs
  <2>3. Own(j)' = Own(j)
    BY Zenon, <1>1, <1>6, <2>2 DEF Own
  <2> QED BY Zenon, <2>2, <2>3
<1>15. \A j \in Inodes : Mine(j)' \subseteq Mine(j)
  BY <1>1, <1>6, <1>9 DEF Mine
<1>16. \A j \in Inodes \ B : \A n \in Mine(j) : n \notin stale
  <2>1. \A i \in B : inodeCache[i].stale \subseteq Mine(i)
    BY Zenon, <1>3, NoneAssumption DEF Mine, InMemoryInode
  <2> QED BY <1>3, <1>7, <2>1 DEF IInv, PayInv
<1>17. \A j \in Inodes : recs[Inode(j)] # None =>
         PayloadOf(j) \in Numbers /\ PayloadOf(j) \in Mine(j)
  BY Zenon DEF PayloadOf, Mine, IInv, TypeInv, IsStore, InodeRec
<1>18. StoreOK(recs)' /\ StoreOK(durable)'
  <2>1. \A j \in Inodes : \A s \in Segs(recs, j) : recs'[Segment(s)] = "container"
    <3>1. \A j \in Inodes : Segs(recs, j) \subseteq Numbers
      BY Zenon DEF Segs, IInv, TypeInv, IsStore, InodeRec
    <3> QED BY Zenon, <3>1, <1>9 DEF IInv, StoreOK
  <2>2. StoreOK(recs)'
    BY Zenon, <1>1, <1>9, <1>17, <2>1, RecsStay
  <2> QED BY Zenon, <1>1, <2>2, StoreStays DEF IInv
<1>19. OwnInv'
  <2>1. /\ \A j \in Inodes : Own(j) \subseteq Numbers
        /\ \A u \in Threads : op[u].empty \subseteq Numbers
    BY Zenon DEF IInv, TypeInv, Own, Segs, IsStore, InodeRec, InMemoryInode, Operation
  <2>2. /\ OwnInv /\ used \subseteq used' /\ deletes' = deletes
        /\ \A u \in Threads : op'[u].empty = op[u].empty
        /\ \A n \in Numbers : recs[Segment(n)] = "container" => recs'[Segment(n)] = "container"
    BY ZenonT(60), <1>1, <1>9, <1>11 DEF IInv
  <2> QED BY Zenon, <1>14, <2>1, <2>2, OwnStays
<1>20. RecInv'
  BY Zenon, <1>11, <1>13, <1>14, RecSame
<1>21. GcInv'
  BY <1>1, <1>11 DEF IInv, GcInv, Segs
<1>22. MemInv'
  <2> SUFFICES ASSUME NEW i \in Cached PROVE InodeOK(i)'
    BY Zenon, <1>1 DEF MemInv
  <2>1. i \in Inodes /\ InodeOK(i) /\ inodeCache[i] \in InMemoryInode
    BY Zenon, NodeFacts
  <2>2. inodeCache[i].node # None =>
          recs'[Payload(inodeCache[i].node)] = recs[Payload(inodeCache[i].node)]
    <3> SUFFICES ASSUME inodeCache[i].node # None PROVE inodeCache[i].node \notin stale
      BY Zenon, <2>1, <1>9 DEF InMemoryInode
    <3>1. inodeCache[i].node \in Mine(i)
      BY Zenon DEF Mine
    <3>2. CASE i \notin B
      BY Zenon, <2>1, <3>1, <3>2, <1>16
    <3>3. CASE i \in B
      <4> SUFFICES ASSUME NEW j \in B, inodeCache[i].node \in inodeCache[j].stale PROVE FALSE
        BY Zenon, <1>7
      <4>1. CASE j = i
        BY Zenon, <2>1, <4>1 DEF InodeOK
      <4>2. CASE j # i
        <5>1. inodeCache[i].node \in Mine(j)
          BY Zenon, <1>3 DEF Mine
        <5> QED BY Zenon, <2>1, <3>1, <4>2, <5>1, <1>3 DEF IInv, PayInv
      <4> QED BY Zenon, <4>1, <4>2
    <3> QED BY Zenon, <3>2, <3>3
  <2>3. /\ inodeCache'[i].data = inodeCache[i].data
        /\ inodeCache'[i].segs = inodeCache[i].segs
        /\ inodeCache'[i].inFlight = inodeCache[i].inFlight
        /\ inodeCache'[i].openLogSegment = inodeCache[i].openLogSegment
        /\ inodeCache'[i].node = inodeCache[i].node
        /\ inodeCache'[i].stale \subseteq inodeCache[i].stale
        /\ inodeCache'[i].dirty = inodeCache[i].dirty
        /\ inodeCache'[i].linked = inodeCache[i].linked
        /\ inodeCache'[i].failed = inodeCache[i].failed
    BY Zenon, <1>6
  <2>4. /\ Unlinked(i)' <=> Unlinked(i)
        /\ Gone(i)' <=> Gone(i)
        /\ recs'[Inode(i)] = recs[Inode(i)]
    BY Zenon, <2>1, <1>9, <1>13
  <2> QED BY <1>1, <2>1, <2>2, <2>3, <2>4 DEF InodeOK
<1>23. PayInv'
  <2>1. \A j, k \in Inodes : j # k => Mine(j)' \cap Mine(k)' = {}
    BY Zenon, <1>15 DEF IInv, PayInv
  <2>2. \A j \in Inodes \ B : HasPayload(recs, j) => HasPayload(recs, j)'
    BY Zenon, <1>9, <1>16, <1>17 DEF HasPayload, PayloadOf
  <2>3. \A j \in Inodes : HasPayload(durable, j)' <=> HasPayload(durable, j)
    BY Zenon, <1>1 DEF HasPayload
  <2>4. \A j \in Inodes :
          \/ HasPayload(recs, j)'
          \/ \E u \in Threads : Busy(u)' /\ j \in DOMAIN op'[u].batch
          \/ j \notin Cached' /\ ~HasPayload(durable, j)'
    <3> TAKE j \in Inodes
    <3>1. CASE j \in B
      BY Zenon, <3>1, <1>2, <1>11, <1>13
    <3>2. CASE j \notin B
      <4>1. (\E u \in Threads : Busy(u) /\ j \in DOMAIN op[u].batch) =>
            (\E u \in Threads : Busy(u)' /\ j \in DOMAIN op'[u].batch)
        BY Zenon, <1>11, <1>13
      <4> QED BY Zenon, <3>2, <4>1, <1>1, <2>2, <2>3 DEF IInv, PayInv
    <3> QED BY Zenon, <3>1, <3>2
  <2> QED BY Zenon, <2>1, <2>4 DEF PayInv
<1>24. OpInv'
  <2>1. OpInv /\ Threads \ {t} \in SUBSET Threads
    BY Zenon DEF IInv
  <2>2. \A u \in Threads \ {t} : ThreadOK(u)'
    <3>1. \A u \in Threads \ {t} : \A j \in op[u].locked : j \notin B /\ j \in Inodes
      BY Zenon, <1>3, <1>10, <2>1 DEF OpInv, Operation
    <3>2. \A u \in Threads \ {t} : \A j \in op[u].locked :
             /\ j \in Cached' <=> j \in Cached
             /\ j \in Cached => inodeCache'[j] = inodeCache[j]
             /\ recs'[Inode(j)] = recs[Inode(j)]
      BY Zenon, <1>1, <1>6, <1>9, <3>1
    <3>3. used \subseteq used' /\ \A u \in Threads \ {t} : op'[u] = op[u]
      BY Zenon, <1>1, <1>11
    <3> QED BY Zenon, <2>1, <3>2, <3>3, ThreadsStay
  <2>3. FlushOK(t)'
    <3>1. /\ op'[t].locked = op[t].locked /\ op'[t].empty = op[t].empty
          /\ op'[t].todo = op[t].todo /\ op'[t].batch = op[t].batch
          /\ op'[t].pc = "put" => op'[t].todo = {}
      BY Zenon, <1>11
    <3>2. op[t].locked \subseteq Cached
      BY Zenon, <1>2 DEF FlushOK
    <3>3. \A i \in op[t].locked :
            /\ inodeCache'[i].dirty = inodeCache[i].dirty
            /\ Complete(inodeCache[i])' <=> Complete(inodeCache[i])
            /\ inodeCache'[i].node = inodeCache[i].node
            /\ inodeCache'[i].segs = inodeCache[i].segs
            /\ inodeCache'[i].data = inodeCache[i].data
            /\ inodeCache'[i].linked = inodeCache[i].linked
      BY Zenon, <1>6, <3>2 DEF Complete
    <3>4. /\ op'[t].locked \subseteq Cached' /\ \A i \in op'[t].locked : inodeCache'[i].dirty
          /\ DOMAIN op'[t].batch = op'[t].locked \ op'[t].todo
      BY Zenon, <1>1, <1>2, <3>1, <3>3 DEF FlushOK
    <3>5. \A i \in DOMAIN op'[t].batch :
            /\ inodeCache'[i].node # None /\ Complete(inodeCache[i])'
            /\ inodeCache'[i].segs \subseteq inodeCache'[i].data
            /\ op'[t].batch[i] = [payload |-> inodeCache'[i].node,
                                  segs |-> inodeCache'[i].segs,
                                  linked |-> inodeCache'[i].linked]
      BY <1>2, <1>3, <3>1, <3>3 DEF FlushOK
    <3>6. \/ \A i \in op'[t].locked : Complete(inodeCache[i])'
          \/ op'[t].todo = op'[t].locked /\ op'[t].empty = {} /\ \A i, j \in op'[t].locked : i = j
      BY ZenonT(60), <1>2, <3>1, <3>3 DEF FlushOK
    <3> QED BY Zenon, <3>1, <3>4, <3>5, <3>6 DEF FlushOK
  <2>4. ThreadOK(t)'
    BY <1>1, <1>2, <1>11, <2>3 DEF ThreadOK, Late
  <2> QED BY Zenon, <1>11, <2>1, <2>2, <2>4 DEF OpInv
<1> QED BY Zenon, <1>12, <1>18, <1>19, <1>20, <1>21, <1>22, <1>23, <1>24 DEF IInv

\* PutInodeRecs() replaces the records of all inodes of the operation at once: this
\* is what keeps a segment from being named by two records after Coalesce().
LEMMA PutInodeRecsPreserves ==
    ASSUME IInv, NEW t \in Threads, PutInodeRecs(t)
    PROVE  IInv'
<1> DEFINE B == DOMAIN op[t].batch
           clean(i) == [inodeCache[i] EXCEPT !.dirty = FALSE]
           rec(i) == [payload |-> inodeCache[i].node, segs |-> inodeCache[i].segs,
                      linked |-> inodeCache[i].linked]
<1>1. /\ op[t].pc = "put"
      /\ recs' = [k \in Keys |-> IF \E i \in B : k = Inode(i) THEN op[t].batch[k[2]]
                                                               ELSE recs[k]]
      /\ inodeCache' = [i \in Cached |-> IF i \in B THEN clean(i) ELSE inodeCache[i]]
      /\ op' = [op EXCEPT ![t].batch = [i \in DOMAIN @ \ B |-> @[i]],
                          ![t].pc = "wait"]
      /\ Cached' = Cached
      /\ durable' = durable /\ swift' = swift /\ deletes' = deletes /\ used' = used
  BY Zenon DEF PutInodeRecs, PutTogether, Cached
<1>2. Busy(t) /\ ThreadOK(t) /\ FlushOK(t)
  BY Zenon, <1>1 DEF IInv, OpInv, ThreadOK, Busy
<1>3. /\ B = op[t].locked /\ op[t].todo = {} /\ B \subseteq Cached /\ B \subseteq Inodes
      /\ \A i \in B : inodeCache[i] \in InMemoryInode
  BY Zenon, <1>1, <1>2, NodeFacts DEF FlushOK
<1>4. \A i \in B : /\ clean(i) \in InMemoryInode /\ clean(i).data = inodeCache[i].data
                   /\ clean(i).segs = inodeCache[i].segs
                   /\ clean(i).inFlight = inodeCache[i].inFlight
                   /\ clean(i).openLogSegment = inodeCache[i].openLogSegment
                   /\ clean(i).node = inodeCache[i].node
                   /\ clean(i).stale = inodeCache[i].stale
                   /\ ~clean(i).dirty
                   /\ clean(i).linked = inodeCache[i].linked
                   /\ clean(i).failed = inodeCache[i].failed
  BY ZenonT(60), <1>3 DEF InMemoryInode
<1>5. /\ \A i \in B : inodeCache'[i] = clean(i)
      /\ \A i \in Cached \ B : inodeCache'[i] = inodeCache[i]
      /\ inodeCache' \in [Cached -> InMemoryInode]
  BY Zenon, <1>1, <1>3, <1>4, NodeFacts
<1> HIDE DEF clean
<1>6. \A i \in B : /\ op[t].batch[i] = rec(i) /\ rec(i) \in InodeRec /\ rec(i) # None
                   /\ inodeCache[i].node \in Numbers
                   /\ inodeCache[i].segs \subseteq inodeCache[i].data
                   /\ Complete(inodeCache[i])
  <2> SUFFICES ASSUME NEW i \in B
               PROVE  /\ op[t].batch[i] = rec(i) /\ rec(i) \in InodeRec /\ rec(i) # None
                      /\ inodeCache[i].node \in Numbers
                      /\ inodeCache[i].segs \subseteq inodeCache[i].data
                      /\ Complete(inodeCache[i])
    BY Zenon
  <2>1. /\ op[t].batch[i] = rec(i) /\ inodeCache[i].node # None
        /\ inodeCache[i].segs \subseteq inodeCache[i].data /\ Complete(inodeCache[i])
    BY Zenon, <1>2 DEF FlushOK
  <2>2. inodeCache[i].node \in Numbers
    BY Zenon, <2>1, <1>3 DEF InMemoryInode
  <2>3. rec(i) \in InodeRec
    BY Zenon, <2>2, <1>3 DEF InMemoryInode, InodeRec
  <2> QED BY Zenon, <2>1, <2>2, <2>3, NoneAssumption
<1>7. \A i \in B : rec(i).payload = inodeCache[i].node /\ rec(i).segs = inodeCache[i].segs
                   /\ rec(i).linked = inodeCache[i].linked
  BY Zenon
<1> HIDE DEF rec
<1>8. /\ \A j \in Inodes : recs'[Inode(j)] = IF j \in B THEN rec(j) ELSE recs[Inode(j)]
      /\ \A m \in Numbers : recs'[Segment(m)] = recs[Segment(m)]
      /\ \A m \in Numbers : recs'[Payload(m)] = recs[Payload(m)]
      /\ recs' \in [Keys -> Values \cup {None}]
  <2>1. recs \in [Keys -> Values \cup {None}]
    BY Zenon DEF IInv, TypeInv, IsStore
  <2>2. \A i : Inode(i)[2] = i
    BY Zenon DEF Inode
  <2>3. \A i \in B : rec(i) \in Values
    BY Zenon, <1>6 DEF Values
  <2> QED BY SMTT(30), <1>1, <1>3, <1>6, <2>1, <2>2, <2>3, KeyFacts
<1>9. op \in [Threads -> Operation] /\ op[t] \in Operation
  BY Zenon DEF IInv, TypeInv
<1>10. /\ op'[t].pc = "wait" /\ DOMAIN op'[t].batch = {}
       /\ \A u \in Threads : /\ op'[u].locked = op[u].locked /\ op'[u].empty = op[u].empty
                             /\ op'[u].todo = op[u].todo /\ op'[u].victims = op[u].victims
       /\ \A u \in Threads \ {t} : op'[u] = op[u]
       /\ op' \in [Threads -> Operation]
  <2> DEFINE b == [i \in DOMAIN op[t].batch \ B |-> op[t].batch[i]]
  <2>1. op' = [op EXCEPT ![t].batch = b, ![t].pc = "wait"]
    BY Zenon, <1>1
  <2>2. DOMAIN b = {} /\ b \in [{} -> InodeRec]
    BY Zenon
  <2>3. b \in Batches
    <3>1. {} \in SUBSET Inodes
      BY Zenon
    <3> HIDE DEF b
    <3> QED BY Zenon, <2>2, <3>1 DEF Batches
  <2> HIDE DEF b
  <2>4. op'[t] \in Operation
    BY Zenon, <2>1, <2>3, <1>9 DEF Operation, Late
  <2> QED BY Zenon, <2>1, <2>2, <2>4, <1>9 DEF Operation
<1>11. TypeInv'
  <2>1. \A j \in Inodes : recs'[Inode(j)] \in InodeRec \cup {None}
    BY <1>6, <1>8 DEF IInv, TypeInv, IsStore
  <2>2. IsStore(recs)'
    BY Zenon, <1>8, <2>1 DEF IInv, TypeInv, IsStore
  <2>3. IsStore(durable)'
    BY Zenon, <1>1 DEF IInv, TypeInv, IsStore
  <2> QED BY ZenonT(60), <1>1, <1>5, <1>10, <2>2, <2>3 DEF IInv, TypeInv
<1>12. /\ ~Busy(t)' /\ \A u \in Threads \ {t} : Busy(u)' <=> Busy(u)
       /\ \A j \in Inodes : /\ Settled(j)' <=> Settled(j) \/ j \in B
                            /\ Unlinked(j)' <=> Unlinked(j)
                            /\ Gone(j)' <=> Gone(j)
  <2>1. ~Busy(t)' /\ \A u \in Threads \ {t} : Busy(u)' <=> Busy(u)
    BY Zenon, <1>1, <1>10 DEF Busy
  <2>2. \A j \in Inodes : Settled(j)' <=> Settled(j) \/ j \in B
    <3>1. \A j \in B : \A u \in Threads \ {t} : j \notin op[u].locked
      BY Zenon, <1>3 DEF IInv, OpInv
    <3> QED BY <1>2, <1>3, <1>10, <2>1, <3>1 DEF Settled
  <2> QED BY ZenonT(60), <1>1, <1>10, <2>1, <2>2 DEF Unlinked, Gone
<1>13. \A j \in Inodes : Own(j)' = Own(j)
  <2>1. \A j \in B : inodeCache'[j].segs = inodeCache[j].segs
    BY Zenon, <1>4, <1>5
  <2>2. \A j \in Cached : inodeCache'[j].segs = inodeCache[j].segs
    BY Zenon, <1>5, <2>1
  <2>3. \A j \in Inodes \ Cached : Segs(recs, j)' = Segs(recs, j)
    BY Zenon, <1>3, <1>8 DEF Segs
  <2> QED BY Zenon, <1>1, <2>2, <2>3 DEF Own
<1>14. \A j \in Inodes : Segs(recs, j)' = IF j \in B THEN Own(j) ELSE Segs(recs, j)
  BY <1>3, <1>6, <1>7, <1>8 DEF Own, Segs
<1>15. \A j \in Inodes : Mine(j)' \subseteq Mine(j)
  <2>1. \A j \in Inodes \ B : Mine(j)' = Mine(j)
    <3> SUFFICES ASSUME NEW j \in Inodes \ B PROVE Mine(j)' = Mine(j)
      BY Zenon
    <3>1. /\ j \in Cached' <=> j \in Cached
          /\ j \in Cached => inodeCache'[j] = inodeCache[j]
          /\ recs'[Inode(j)] = recs[Inode(j)]
      BY ZenonT(60), <1>1, <1>5, <1>8 DEF Cached
    <3> QED BY Zenon, <3>1 DEF Mine
  <2>2. \A j \in B : inodeCache[j].node # None
    BY Zenon, <1>2 DEF FlushOK
  <2>3. ASSUME NEW j \in B PROVE Mine(j)' \subseteq Mine(j)
    <3>1. /\ j \in Inodes /\ j \in Cached /\ inodeCache[j].node # None
          /\ inodeCache'[j].node = inodeCache[j].node
          /\ inodeCache'[j].stale = inodeCache[j].stale
      BY Zenon, <1>3, <1>4, <1>5, <2>2
    <3>2. recs'[Inode(j)].payload = inodeCache[j].node
      BY Zenon, <1>7, <1>8, <3>1
    <3> QED BY Zenon, <1>1, <3>1, <3>2 DEF Mine
  <2> QED BY Zenon, <2>1, <2>3
<1>16. \A j \in Inodes : recs[Inode(j)] # None => PayloadOf(j) \in Numbers
  BY Zenon DEF PayloadOf, IInv, TypeInv, IsStore, InodeRec
<1>17. \A j \in B : /\ InodeOK(j) /\ inodeCache[j].node \in used
                    /\ recs[Payload(inodeCache[j].node)] = inodeCache[j].data
  <2>1. \A j \in B : InodeOK(j) /\ inodeCache[j].node # None
    BY Zenon, <1>2, <1>3, NodeFacts DEF FlushOK
  <2> QED BY Zenon, <2>1 DEF InodeOK
<1>18. StoreOK(recs)'
  <2>1. \A j \in B : Own(j) = inodeCache[j].segs /\ Own(j) \subseteq swift
    BY ZenonT(60), <1>3, <1>6, <1>17 DEF Own, InodeOK, Complete
  <2>2. \A j \in Inodes : Own(j) \subseteq Numbers /\ Segs(recs, j) \subseteq Numbers
    BY Zenon DEF IInv, TypeInv, Own, Segs, IsStore, InodeRec, InMemoryInode
  <2>3. \A j \in Inodes : \A s \in Segs(recs, j)' :
          s \in swift' /\ s \in used' /\ recs'[Segment(s)] = "container"
    <3>1. \A j \in B : \A s \in Own(j) :
            s \in swift /\ s \in used /\ recs'[Segment(s)] = "container"
      BY Zenon, <1>3, <1>8, <2>1, <2>2 DEF IInv, OwnInv
    <3>2. \A j \in Inodes : \A s \in Segs(recs, j) :
            s \in swift /\ s \in used /\ recs'[Segment(s)] = "container"
      BY ZenonT(60), <1>8, <2>2 DEF IInv, StoreOK
    <3> QED BY Zenon, <1>1, <1>14, <3>1, <3>2
  <2>4. \A j, k \in Inodes : j # k => Segs(recs, j)' \cap Segs(recs, k)' = {}
    <3>1. \A j \in Inodes \ B, k \in B : Segs(recs, j) \cap Own(k) = {}
      <4> SUFFICES ASSUME NEW j \in Inodes \ B, NEW k \in B, NEW s \in Segs(recs, j), s \in Own(k)
                   PROVE  FALSE
        BY Zenon
      <4>1. CASE Settled(j)
        BY Zenon, <4>1, <1>3 DEF IInv, RecInv, OwnInv
      <4>2. CASE ~Settled(j)
        <5>1. PICK u \in Threads : Busy(u) /\ j \in op[u].locked
          BY Zenon, <4>2 DEF Settled
        <5>2. u # t
          BY Zenon, <5>1, <1>3
        <5>3. s \in op[u].empty \/ \E x \in op[u].locked : s \in Own(x)
          BY Zenon, <5>1 DEF IInv, RecInv
        <5>4. \A x \in op[u].locked : x # k /\ x \in Inodes
          BY Zenon, <5>2, <1>3, <1>9 DEF IInv, OpInv, Operation
        <5> QED BY Zenon, <5>3, <5>4, <1>3 DEF IInv, OwnInv
      <4> QED BY Zenon, <4>1, <4>2
    <3>2. \A j, k \in B : j # k => Own(j) \cap Own(k) = {}
      BY Zenon, <1>3 DEF IInv, OwnInv
    <3>3. \A j, k \in Inodes : j # k => Segs(recs, j) \cap Segs(recs, k) = {}
      BY Zenon DEF IInv, StoreOK
    <3> SUFFICES ASSUME NEW j \in Inodes, NEW k \in Inodes, j # k,
                        NEW s \in Segs(recs, j)', s \in Segs(recs, k)'
                 PROVE  FALSE
      BY Zenon
    <3>4. /\ s \in IF j \in B THEN Own(j) ELSE Segs(recs, j)
          /\ s \in IF k \in B THEN Own(k) ELSE Segs(recs, k)
      BY Zenon, <1>14
    <3> QED BY Zenon, <3>1, <3>2, <3>3, <3>4
  <2>5. \A j \in Inodes : recs'[Inode(j)] # None =>
          j \in used' /\ recs'[Inode(j)].payload \in used'
    <3>1. \A j \in B : j \in used /\ recs'[Inode(j)].payload \in used
      <4> SUFFICES ASSUME NEW j \in B PROVE j \in used /\ recs'[Inode(j)].payload \in used
        BY Zenon
      <4>1. recs'[Inode(j)].payload = inodeCache[j].node
        BY Zenon, <1>3, <1>7, <1>8
      <4>2. j \in used /\ inodeCache[j].node \in used
        BY Zenon, <1>17 DEF InodeOK
      <4> QED BY Zenon, <4>1, <4>2
    <3>2. \A j \in Inodes \ B : recs'[Inode(j)] = recs[Inode(j)]
      BY Zenon, <1>8
    <3>3. \A j \in Inodes : recs[Inode(j)] # None => j \in used /\ recs[Inode(j)].payload \in used
      BY Zenon DEF IInv, StoreOK
    <3>4. used' = used
      BY Zenon, <1>1
    <3>5. ASSUME NEW j \in Inodes, recs'[Inode(j)] # None
          PROVE  j \in used /\ recs'[Inode(j)].payload \in used
      <4>1. CASE j \in B
        BY Zenon, <4>1, <3>1
      <4>2. CASE j \notin B
        <5>1. recs'[Inode(j)] = recs[Inode(j)]
          BY Zenon, <4>2, <3>2
        <5> QED BY Zenon, <5>1, <3>3, <3>5
      <4> QED BY Zenon, <4>1, <4>2
    <3> QED BY Zenon, <3>4, <3>5
  <2>6. \A j \in Inodes : recs'[Inode(j)] # None => recs'[Inode(j)].payload \in Mine(j)'
    BY Zenon DEF Mine
  <2>7. \A j, k \in Inodes : j # k /\ recs'[Inode(j)] # None /\ recs'[Inode(k)] # None =>
          recs'[Inode(j)].payload # recs'[Inode(k)].payload
    BY <1>15, <2>6 DEF IInv, PayInv
  <2>8. \A j \in Inodes :
         recs'[Inode(j)] # None /\ recs'[Inode(j)].linked /\ HasPayload(recs, j)' =>
           recs'[Payload(recs'[Inode(j)].payload)] = recs'[Inode(j)].segs
    <3> TAKE j \in Inodes
    <3>1. CASE j \in B
      <4>1. /\ recs'[Inode(j)].payload = inodeCache[j].node
            /\ recs'[Inode(j)].segs = inodeCache[j].segs
            /\ recs'[Inode(j)].linked = inodeCache[j].linked
        BY Zenon, <3>1, <1>7, <1>8
      <4>2. recs'[Payload(inodeCache[j].node)] = inodeCache[j].data
        BY Zenon, <3>1, <1>6, <1>8, <1>17
      <4>3. inodeCache[j].linked => inodeCache[j].data = inodeCache[j].segs
        BY ZenonT(60), <3>1, <1>6, <1>17 DEF InodeOK
      <4> QED BY Zenon, <4>1, <4>2, <4>3
    <3>2. CASE j \notin B
      BY <3>2, <1>8, <1>16 DEF IInv, StoreOK, HasPayload, PayloadOf
    <3> QED BY Zenon, <3>1, <3>2
  <2> QED BY Zenon, <2>3, <2>4, <2>5, <2>7, <2>8 DEF StoreOK
<1>19. StoreOK(durable)'
  BY Zenon, <1>1, StoreStays DEF IInv
<1>20. OwnInv'
  <2>1. /\ \A j \in Inodes : Own(j) \subseteq Numbers
        /\ \A u \in Threads : op[u].empty \subseteq Numbers
    BY Zenon, OwnTypes
  <2>2. /\ OwnInv /\ used \subseteq used' /\ deletes' = deletes
        /\ \A u \in Threads : op'[u].empty = op[u].empty
        /\ \A n \in Numbers : recs[Segment(n)] = "container" => recs'[Segment(n)] = "container"
    BY ZenonT(60), <1>1, <1>8, <1>10 DEF IInv
  <2> QED BY Zenon, <1>13, <2>1, <2>2, OwnStays
<1>21. RecInv'
  <2>1. \A u \in Threads : op[u].locked \subseteq Inodes
    BY Zenon, <1>9 DEF Operation
  <2>2. \A j \in Inodes : Settled(j)' => Segs(recs, j)' \subseteq Own(j)'
    BY Zenon, <1>12, <1>13, <1>14 DEF IInv, RecInv
  <2>3. \A u \in Threads : Busy(u)' => /\ Busy(u) /\ op'[u] = op[u]
                                       /\ \A j \in op[u].locked : j \notin B
    BY Zenon, <1>3, <1>10, <1>12 DEF IInv, OpInv
  <2>4. \A u \in Threads : Busy(u)' => \A j \in op[u].locked :
          Segs(recs, j)' \subseteq Segs(recs, j) /\ Own(j)' = Own(j)
    BY Zenon, <1>13, <1>14, <2>1, <2>3
  <2> QED BY Zenon, <2>2, <2>3, <2>4, RecStays
<1>22. GcInv'
  BY Zenon, <1>1, <1>10 DEF IInv, GcInv, Segs
<1>23. MemInv'
  <2> SUFFICES ASSUME NEW i \in Cached PROVE InodeOK(i)'
    BY Zenon, <1>1 DEF MemInv
  <2>1. i \in Inodes /\ InodeOK(i) /\ inodeCache[i] \in InMemoryInode
    BY Zenon, NodeFacts
  <2>2. CASE i \in B
    <3>1. recs'[Inode(i)] = rec(i) /\ recs'[Payload(inodeCache[i].node)] = inodeCache[i].data
      BY Zenon, <2>1, <2>2, <1>6, <1>8, <1>17
    <3>2. /\ inodeCache'[i].data = inodeCache[i].data
          /\ inodeCache'[i].segs = inodeCache[i].segs
          /\ inodeCache'[i].inFlight = inodeCache[i].inFlight
          /\ inodeCache'[i].openLogSegment = inodeCache[i].openLogSegment
          /\ inodeCache'[i].node = inodeCache[i].node
          /\ inodeCache'[i].stale = inodeCache[i].stale
          /\ inodeCache'[i].linked = inodeCache[i].linked
          /\ inodeCache'[i].failed = inodeCache[i].failed
      BY ZenonT(60), <2>2, <1>4, <1>5
    <3>3. inodeCache[i].segs \subseteq inodeCache[i].data /\ Complete(inodeCache[i])
      BY Zenon, <2>2, <1>6
    <3>4. inodeCache[i].node # None /\ (Unlinked(i)' <=> Unlinked(i))
      BY Zenon, <2>1, <2>2, <1>2, <1>12 DEF FlushOK
    <3>5. recs'[Inode(i)] = [payload |-> inodeCache'[i].node, segs |-> inodeCache'[i].segs,
                             linked |-> inodeCache'[i].linked]
      BY Zenon, <3>1, <3>2 DEF rec
    <3> QED BY Zenon, <1>1, <2>1, <3>1, <3>2, <3>3, <3>4, <3>5 DEF InodeOK, Complete
  <2>3. CASE i \notin B
    <3>1. /\ recs'[Inode(i)] = recs[Inode(i)] /\ inodeCache'[i] = inodeCache[i]
          /\ inodeCache[i].node # None =>
               recs'[Payload(inodeCache[i].node)] = recs[Payload(inodeCache[i].node)]
      BY Zenon, <2>1, <2>3, <1>5, <1>8 DEF InMemoryInode
    <3> QED BY Zenon, <2>1, <3>1, <1>1, <1>12, InodeStays
  <2> QED BY Zenon, <2>2, <2>3
<1>24. PayInv'
  <2>1. \A j, k \in Inodes : j # k => Mine(j)' \cap Mine(k)' = {}
    BY Zenon, <1>15 DEF IInv, PayInv
  <2>2. \A j \in B : HasPayload(recs, j)'
    <3> SUFFICES ASSUME NEW j \in B PROVE recs'[Payload(recs'[Inode(j)].payload)] # None
      BY Zenon DEF HasPayload
    <3>1. recs'[Inode(j)].payload = inodeCache[j].node
      BY Zenon, <1>3, <1>7, <1>8
    <3>2. recs'[Payload(inodeCache[j].node)] = inodeCache[j].data
      BY Zenon, <1>6, <1>8, <1>17
    <3>3. inodeCache[j].data # None
      BY Zenon, <1>3, NoneAssumption DEF InMemoryInode
    <3> QED BY Zenon, <3>1, <3>2, <3>3
  <2>3. \A j \in Inodes \ B : HasPayload(recs, j)' <=> HasPayload(recs, j)
    BY Zenon, <1>8, <1>16 DEF HasPayload, PayloadOf
  <2>4. \A j \in Inodes : HasPayload(durable, j)' <=> HasPayload(durable, j)
    BY Zenon, <1>1 DEF HasPayload
  <2>5. \A j \in Inodes \ B : (\E u \in Threads : Busy(u) /\ j \in DOMAIN op[u].batch) =>
                              (\E u \in Threads : Busy(u)' /\ j \in DOMAIN op'[u].batch)
    BY Zenon, <1>10, <1>12
  <2>6. \A j \in Inodes :
          \/ HasPayload(recs, j)'
          \/ \E u \in Threads : Busy(u)' /\ j \in DOMAIN op'[u].batch
          \/ j \notin Cached' /\ ~HasPayload(durable, j)'
    BY Zenon, <1>1, <2>2, <2>3, <2>4, <2>5 DEF IInv, PayInv
  <2> QED BY Zenon, <2>1, <2>6 DEF PayInv
<1>25. OpInv'
  <2>1. OpInv /\ Threads \ {t} \in SUBSET Threads
    BY Zenon DEF IInv
  <2>2. \A u \in Threads \ {t} : ThreadOK(u)'
    <3>1. \A u \in Threads \ {t} : \A j \in op[u].locked : j \notin B /\ j \in Inodes
      BY Zenon, <1>3, <1>9, <2>1 DEF OpInv, Operation
    <3>2. \A u \in Threads \ {t} : \A j \in op[u].locked :
             /\ j \in Cached' <=> j \in Cached
             /\ j \in Cached => inodeCache'[j] = inodeCache[j]
             /\ recs'[Inode(j)] = recs[Inode(j)]
      BY ZenonT(60), <1>1, <1>5, <1>8, <3>1
    <3>3. used \subseteq used' /\ \A u \in Threads \ {t} : op'[u] = op[u]
      BY Zenon, <1>1, <1>10
    <3> QED BY ZenonT(60), <2>1, <3>2, <3>3, ThreadsStay
  <2>3. LateOK(t)'
    <3>1. \A i \in op'[t].locked \cap Cached' : ~inodeCache'[i].dirty
      BY Zenon, <1>1, <1>3, <1>4, <1>5, <1>10
    <3>2. op'[t].victims \cup op'[t].todo \subseteq Cached' /\ op'[t].todo = {}
      BY Zenon, <1>1, <1>2, <1>3, <1>10 DEF ThreadOK
    <3> QED BY Zenon, <1>10, <3>1, <3>2 DEF LateOK
  <2>4. ThreadOK(t)'
    BY Zenon, <1>1, <1>2, <1>10, <1>12, <2>3 DEF ThreadOK
  <2> QED BY Zenon, <1>10, <2>1, <2>2, <2>4 DEF OpInv
<1> QED BY Zenon, <1>11, <1>18, <1>19, <1>20, <1>21, <1>22, <1>23, <1>24, <1>25 DEF IInv

\* Destroy() deletes the record of an inode.
LEMMA DeleteInodeRecPreserves ==
    ASSUME IInv, NEW t \in Threads, NEW i \in op[t].todo, DeleteInodeRec(t, i)
    PROVE  IInv'
<1>1. /\ op[t].pc = "drop"
      /\ recs' = [recs EXCEPT ![Inode(i)] = None]
      /\ op' = [op EXCEPT ![t].pc = "discard", ![t].todo = {i},
                          ![t].victims = (@ \cup op[t].todo) \ {i}]
      /\ durable' = durable /\ swift' = swift /\ deletes' = deletes /\ used' = used
      /\ inodeCache' = inodeCache /\ Cached' = Cached
  BY Zenon DEF DeleteInodeRec, Cached
<1>2. op \in [Threads -> Operation] /\ op[t] \in Operation
  BY Zenon DEF IInv, TypeInv
<1>3. ~Busy(t) /\ ThreadOK(t) /\ LateOK(t)
  BY Zenon, <1>1 DEF IInv, OpInv, ThreadOK, Busy, Late
<1>4. i \in op[t].locked /\ i \in Cached /\ i \in Inodes /\ ~inodeCache[i].dirty
  BY Zenon, <1>3, NodeFacts DEF ThreadOK, LateOK
<1>5. /\ op'[t].pc = "discard" /\ op'[t].todo = {i}
      /\ op'[t].victims = (op[t].victims \cup op[t].todo) \ {i}
      /\ op'[t].batch = op[t].batch
      /\ \A u \in Threads : op'[u].locked = op[u].locked /\ op'[u].empty = op[u].empty
      /\ \A u \in Threads \ {t} : op'[u] = op[u]
      /\ op' \in [Threads -> Operation]
  <2>1. {i} \in SUBSET Inodes
    BY Zenon, <1>4
  <2> QED BY Zenon, <1>1, <1>2, <2>1 DEF Operation, Late
<1>6. /\ \A j \in Inodes : recs'[Inode(j)] = IF j = i THEN None ELSE recs[Inode(j)]
      /\ \A m \in Numbers : recs'[Segment(m)] = recs[Segment(m)]
      /\ \A m \in Numbers : recs'[Payload(m)] = recs[Payload(m)]
      /\ recs' \in [Keys -> Values \cup {None}]
  <2>1. recs \in [Keys -> Values \cup {None}]
    BY Zenon DEF IInv, TypeInv, IsStore
  <2> QED BY Zenon, <1>1, <1>4, <2>1, KeyFacts
<1>7. TypeInv'
  BY <1>1, <1>5, <1>6 DEF IInv, TypeInv, IsStore
<1>8. /\ \A u \in Threads : Busy(u)' <=> Busy(u)
      /\ \A j \in Inodes : /\ Settled(j)' <=> Settled(j)
                           /\ Unlinked(j) => Unlinked(j)'
                           /\ Gone(j) => Gone(j)'
      /\ Gone(i)'
  <2>1. \A u \in Threads : Busy(u)' <=> Busy(u)
    BY Zenon, <1>1, <1>5 DEF Busy
  <2>2. \A j \in Inodes : Unlinked(j) => Unlinked(j)'
    <3>1. \A j \in Inodes : j \in op[t].victims \cup op[t].todo =>
                            j \in op'[t].victims \cup op'[t].todo
      BY Zenon, <1>5
    <3> QED BY Zenon, <1>5, <3>1 DEF Unlinked
  <2>3. \A j \in Inodes : Gone(j) => Gone(j)'
    BY Zenon, <1>1, <1>5 DEF Gone
  <2> QED BY Zenon, <1>5, <2>1, <2>2, <2>3 DEF Settled, Gone
<1>9. \A j \in Inodes : /\ Own(j)' = Own(j) /\ Mine(j)' \subseteq Mine(j)
                        /\ Segs(recs, j)' = IF j = i THEN {} ELSE Segs(recs, j)
  BY <1>1, <1>4, <1>6 DEF Own, Mine, Segs
<1>10. \A j \in Inodes : recs[Inode(j)] # None => PayloadOf(j) \in Numbers
  BY Zenon DEF PayloadOf, IInv, TypeInv, IsStore, InodeRec
<1>11. \A j \in Inodes : /\ HasPayload(recs, j) => HasPayload(recs, j)'
                         /\ HasPayload(durable, j)' <=> HasPayload(durable, j)
  BY <1>1, <1>6, <1>10 DEF HasPayload, PayloadOf
<1>12. StoreOK(recs)'
  <2>1. \A j \in Inodes : Segs(recs, j) \subseteq Numbers
    BY Zenon DEF Segs, IInv, TypeInv, IsStore, InodeRec
  <2>2. \A j \in Inodes : \A s \in Segs(recs, j)' :
          s \in swift' /\ s \in used' /\ recs'[Segment(s)] = "container"
    BY Zenon, <1>1, <1>6, <1>9, <2>1 DEF IInv, StoreOK
  <2>3. \A j, k \in Inodes : j # k => Segs(recs, j)' \cap Segs(recs, k)' = {}
    BY Zenon, <1>9 DEF IInv, StoreOK
  <2>4. \A j \in Inodes : recs'[Inode(j)] # None =>
          j # i /\ recs'[Inode(j)] = recs[Inode(j)]
    BY Zenon, <1>6
  <2>5. \A j \in Inodes : j # i /\ recs[Inode(j)] # None =>
          recs'[Payload(PayloadOf(j))] = recs[Payload(PayloadOf(j))]
    BY Zenon, <1>6, <1>10
  <2>6. \A j, k \in Inodes : j # k /\ recs'[Inode(j)] # None /\ recs'[Inode(k)] # None =>
          recs'[Inode(j)].payload # recs'[Inode(k)].payload
    BY ZenonT(60), <2>4 DEF IInv, StoreOK
  <2>7. \A j \in Inodes : recs'[Inode(j)] # None => j \in used' /\ recs'[Inode(j)].payload \in used'
    BY <1>1, <2>4 DEF IInv, StoreOK
  <2>8. ASSUME NEW j \in Inodes, recs'[Inode(j)] # None, recs'[Inode(j)].linked,
               HasPayload(recs, j)'
        PROVE  recs'[Payload(recs'[Inode(j)].payload)] = recs'[Inode(j)].segs
    <3>1. /\ recs'[Inode(j)] = recs[Inode(j)]
          /\ recs'[Payload(recs[Inode(j)].payload)] = recs[Payload(recs[Inode(j)].payload)]
      BY Zenon, <2>4, <2>5, <2>8 DEF PayloadOf
    <3>2. HasPayload(recs, j)
      BY Zenon, <2>8, <3>1 DEF HasPayload
    <3>3. recs[Payload(recs[Inode(j)].payload)] = recs[Inode(j)].segs
      BY Zenon, <2>8, <3>1, <3>2 DEF IInv, StoreOK
    <3> QED BY Zenon, <3>1, <3>3
  <2> QED BY Zenon, <2>2, <2>3, <2>6, <2>7, <2>8 DEF StoreOK
<1>13. StoreOK(durable)'
  BY Zenon, <1>1, StoreStays DEF IInv
<1>14. OwnInv'
  <2>1. /\ \A j \in Inodes : Own(j) \subseteq Numbers
        /\ \A u \in Threads : op[u].empty \subseteq Numbers
    BY Zenon DEF IInv, TypeInv, Own, Segs, IsStore, InodeRec, InMemoryInode, Operation
  <2>2. /\ OwnInv /\ used \subseteq used' /\ deletes' = deletes
        /\ \A u \in Threads : op'[u].empty = op[u].empty
        /\ \A n \in Numbers : recs[Segment(n)] = "container" => recs'[Segment(n)] = "container"
    BY ZenonT(60), <1>1, <1>5, <1>6 DEF IInv
  <2> QED BY Zenon, <1>9, <2>1, <2>2, OwnStays
<1>15. RecInv'
  <2>1. \A j \in Inodes : Segs(recs, j)' \subseteq Segs(recs, j)
    BY Zenon, <1>9
  <2>2. \A u \in Threads : op'[u].locked = op[u].locked /\ op'[u].empty = op[u].empty
    BY Zenon, <1>5
  <2> QED BY Zenon, <1>8, <1>9, <2>1, <2>2, RecSame
<1>16. GcInv'
  BY Zenon, <1>1, <1>5 DEF IInv, GcInv, Segs
<1>17. MemInv'
  <2> SUFFICES ASSUME NEW j \in Cached PROVE InodeOK(j)'
    BY Zenon, <1>1 DEF MemInv
  <2>1. j \in Inodes /\ InodeOK(j) /\ inodeCache[j].node \in Numbers \cup {None}
    BY Zenon, NodeFacts DEF InMemoryInode
  <2>2. CASE j = i
    BY Zenon, <1>1, <1>6, <1>8, <2>1, <2>2 DEF InodeOK
  <2>3. CASE j # i
    BY Zenon, <1>1, <1>6, <1>8, <2>1, <2>3, InodeStays
  <2> QED BY Zenon, <2>2, <2>3
<1>18. PayInv'
  <2>1. \A j, k \in Inodes : j # k => Mine(j)' \cap Mine(k)' = {}
    BY Zenon, <1>9 DEF IInv, PayInv
  <2>2. \A u \in Threads : op'[u].batch = op[u].batch
    BY Zenon, <1>5
  <2> QED BY Zenon, <1>1, <1>8, <1>11, <2>1, <2>2 DEF IInv, PayInv
<1>19. OpInv'
  <2>1. OpInv /\ Threads \ {t} \in SUBSET Threads
    BY Zenon DEF IInv
  <2>2. \A u \in Threads \ {t} : ThreadOK(u)'
    <3>1. \A u \in Threads \ {t} : \A j \in op[u].locked : j # i /\ j \in Inodes
      BY Zenon, <1>2, <1>4, <2>1 DEF OpInv, Operation
    <3>2. \A u \in Threads \ {t} : \A j \in op[u].locked :
             /\ j \in Cached' <=> j \in Cached
             /\ j \in Cached => inodeCache'[j] = inodeCache[j]
             /\ recs'[Inode(j)] = recs[Inode(j)]
      BY Zenon, <1>1, <1>6, <3>1
    <3>3. used \subseteq used' /\ \A u \in Threads \ {t} : op'[u] = op[u]
      BY Zenon, <1>1, <1>5
    <3> QED BY Zenon, <2>1, <3>2, <3>3, ThreadsStay
  <2>3. LateOK(t)'
    <3>1. op'[t].victims \cup op'[t].todo \subseteq Cached'
      BY Zenon, <1>1, <1>3, <1>4, <1>5 DEF LateOK
    <3>2. recs'[Inode(i)] = None
      BY Zenon, <1>4, <1>6
    <3> QED BY Zenon, <1>1, <1>3, <1>5, <3>1, <3>2 DEF LateOK
  <2>4. ThreadOK(t)'
    BY Zenon, <1>1, <1>3, <1>4, <1>5, <1>8, <2>3 DEF ThreadOK
  <2> QED BY Zenon, <1>5, <2>1, <2>2, <2>4 DEF OpInv
<1> QED BY Zenon, <1>7, <1>12, <1>13, <1>14, <1>15, <1>16, <1>17, <1>18, <1>19 DEF IInv

\* Destroy() deletes its extent map; its log segments are now the operation's.
LEMMA DiscardPreserves ==
    ASSUME IInv, NEW t \in Threads, NEW i \in op[t].todo, Discard(t, i)
    PROVE  IInv'
<1> DEFINE inode == inodeCache[i]
<1>1. /\ op[t].pc = "discard"
      /\ recs' = [k \in Keys |-> IF k = Payload(inode.node) THEN None ELSE recs[k]]
      /\ op' = [op EXCEPT ![t].pc = "wait", ![t].todo = {}, ![t].empty = inode.segs]
      /\ durable' = durable /\ swift' = swift /\ deletes' = deletes /\ used' = used
      /\ inodeCache' = [j \in Cached \ {i} |-> inodeCache[j]] /\ Cached' = Cached \ {i}
  BY Zenon DEF Discard, Cached, Remove
<1>2. op \in [Threads -> Operation] /\ op[t] \in Operation
  BY Zenon DEF IInv, TypeInv
<1>3. ~Busy(t) /\ ThreadOK(t) /\ LateOK(t)
  BY Zenon, <1>1 DEF IInv, OpInv, ThreadOK, Busy, Late
<1>4. /\ i \in op[t].locked /\ i \in Cached /\ i \in Inodes /\ inode \in InMemoryInode
      /\ op[t].todo = {i} /\ op[t].empty = {} /\ i \notin op[t].victims
      /\ recs[Inode(i)] = None
  BY Zenon, <1>1, <1>3, NodeFacts DEF ThreadOK, LateOK
<1>5. /\ op'[t].pc = "wait" /\ op'[t].todo = {} /\ op'[t].empty = inode.segs
      /\ \A u \in Threads : op'[u].locked = op[u].locked /\ op'[u].batch = op[u].batch
                            /\ op'[u].victims = op[u].victims
      /\ \A u \in Threads \ {t} : op'[u] = op[u]
      /\ op' \in [Threads -> Operation]
  <2>1. inode.segs \in SUBSET Numbers
    BY Zenon, <1>4 DEF InMemoryInode
  <2> QED BY Zenon, <1>1, <1>2, <2>1 DEF Operation, Late
<1>6. /\ \A j \in Inodes : recs'[Inode(j)] = recs[Inode(j)]
      /\ \A m \in Numbers : recs'[Segment(m)] = recs[Segment(m)]
      /\ \A m \in Numbers : recs'[Payload(m)] = IF m = inode.node THEN None ELSE recs[Payload(m)]
      /\ recs' \in [Keys -> Values \cup {None}]
  <2>1. recs \in [Keys -> Values \cup {None}]
    BY Zenon DEF IInv, TypeInv, IsStore
  <2> QED BY ZenonT(60), <1>1, <2>1, KeyFacts
<1>7. /\ \A j \in Cached' : inodeCache'[j] = inodeCache[j] /\ j # i
      /\ inodeCache' \in [Cached' -> InMemoryInode]
  BY Zenon, <1>1, NodeFacts
<1>8. TypeInv'
  BY <1>1, <1>5, <1>6, <1>7 DEF IInv, TypeInv, IsStore
<1>9. /\ \A u \in Threads : Busy(u)' <=> Busy(u)
      /\ \A j \in Inodes : Settled(j)' <=> Settled(j)
      /\ \A j \in Inodes \ {i} : /\ Unlinked(j) => Unlinked(j)'
                                 /\ Gone(j) => Gone(j)'
  <2>1. \A u \in Threads : Busy(u)' <=> Busy(u)
    BY Zenon, <1>1, <1>5 DEF Busy
  <2> QED BY Zenon, <1>4, <1>5, <2>1 DEF Settled, Unlinked, Gone
<1>10. /\ \A j \in Inodes \ {i} : Own(j)' = Own(j)
       /\ Own(i) = inode.segs /\ Own(i)' = {}
       /\ \A j \in Inodes : /\ Mine(j)' \subseteq Mine(j)
                            /\ Segs(recs, j)' = Segs(recs, j)
       /\ Segs(recs, i) = {}
  BY <1>1, <1>4, <1>6, <1>7 DEF Own, Mine, Segs
<1>11. \A j \in Inodes \ {i} : \A m \in Mine(j) : m # inode.node
  <2>1. inode.node # None => inode.node \in Mine(i)
    BY Zenon, <1>4 DEF Mine
  <2>2. \A j \in Inodes : None \notin Mine(j)
    BY NoneAssumption, NodeFacts DEF Mine, IInv, TypeInv, IsStore, InodeRec, InMemoryInode
  <2> QED BY Zenon, <1>4, <2>1, <2>2 DEF IInv, PayInv
<1>12. \A j \in Inodes : recs[Inode(j)] # None =>
         /\ PayloadOf(j) \in Numbers /\ PayloadOf(j) \in Mine(j) /\ j # i
         /\ recs'[Payload(PayloadOf(j))] = recs[Payload(PayloadOf(j))]
  <2>1. \A j \in Inodes : recs[Inode(j)] # None =>
          PayloadOf(j) \in Numbers /\ PayloadOf(j) \in Mine(j)
    BY Zenon DEF PayloadOf, Mine, IInv, TypeInv, IsStore, InodeRec
  <2> QED BY Zenon, <1>4, <1>6, <1>11, <2>1
<1>13. StoreOK(recs)' /\ StoreOK(durable)'
  <2>1. \A j \in Inodes : \A s \in Segs(recs, j) : recs'[Segment(s)] = "container"
    <3>1. \A j \in Inodes : Segs(recs, j) \subseteq Numbers
      BY Zenon DEF Segs, IInv, TypeInv, IsStore, InodeRec
    <3> QED BY Zenon, <3>1, <1>6 DEF IInv, StoreOK
  <2>2. StoreOK(recs)'
    BY Zenon, <1>1, <1>6, <1>12, <2>1, RecsStay
  <2> QED BY Zenon, <1>1, <2>2, StoreStays DEF IInv
<1>14. OwnInv'
  <2>1. /\ \A j \in Inodes : Own(j) \subseteq Numbers
        /\ \A u \in Threads : op[u].empty \subseteq Numbers
    BY Zenon, OwnTypes
  <2>2. \A u \in Threads : \A s \in op'[u].empty : s \in op[u].empty \/ (u = t /\ s \in Own(i))
    <3>1. op'[t].empty = Own(i)
      BY Zenon, <1>5, <1>10
    <3>2. \A u \in Threads \ {t} : op'[u].empty = op[u].empty
      BY Zenon, <1>5
    <3> QED BY Zenon, <3>1, <3>2
  <2>3. \A j \in Inodes : \A s \in Own(j)' : s \in Own(j) /\ j # i
    BY ZenonT(60), <1>10
  <2>4. /\ \A j, k \in Inodes : j # k => Own(j)' \cap Own(k)' = {}
        /\ \A j \in Inodes, u \in Threads : Own(j)' \cap op'[u].empty = {}
    <3>1. \A j, k \in Inodes : j # k => Own(j)' \cap Own(k)' = {}
      BY Zenon, <2>3 DEF IInv, OwnInv
    <3>2. ASSUME NEW j \in Inodes, NEW u \in Threads, NEW s \in Own(j)', s \in op'[u].empty
          PROVE  FALSE
      <4>1. s \in Own(j) /\ j # i /\ (s \in op[u].empty \/ s \in Own(i))
        BY Zenon, <2>2, <2>3, <3>2
      <4> QED BY Zenon, <1>4, <4>1 DEF IInv, OwnInv
    <3> QED BY Zenon, <3>1, <3>2
  <2>5. \A u, v \in Threads : u # v => op'[u].empty \cap op'[v].empty = {}
    <3> SUFFICES ASSUME NEW u \in Threads, NEW v \in Threads, u # v,
                        NEW s \in op'[u].empty, s \in op'[v].empty
                 PROVE  FALSE
      BY Zenon
    <3>1. \A x \in Threads : s \in op[x].empty => s \notin Own(i)
      BY Zenon, <1>4 DEF IInv, OwnInv
    <3>2. \A x, y \in Threads : s \in op[x].empty /\ s \in op[y].empty => x = y
      BY Zenon DEF IInv, OwnInv
    <3> QED BY Zenon, <2>2, <3>1, <3>2
  <2>6. \A d \in deletes' : /\ d[1] \in used'
                            /\ \A j \in Inodes : d[1] \notin Own(j)'
                            /\ \A u \in Threads : d[1] \notin op'[u].empty
    BY Zenon, <1>1, <1>4, <2>2, <2>3 DEF IInv, OwnInv
  <2>7. /\ \A j \in Inodes : \A s \in Own(j)' : s \in used' /\ recs'[Segment(s)] = "container"
        /\ \A u \in Threads : \A s \in op'[u].empty :
             s \in used' /\ recs'[Segment(s)] = "container"
    <3>1. /\ \A j \in Inodes : \A s \in Own(j) : s \in Numbers /\ s \in used /\ recs[Segment(s)] = "container"
          /\ \A u \in Threads : \A s \in op[u].empty :
               s \in Numbers /\ s \in used /\ recs[Segment(s)] = "container"
      BY Zenon, <2>1 DEF IInv, OwnInv
    <3> QED BY ZenonT(60), <1>1, <1>4, <1>6, <2>2, <2>3, <3>1
  <2> QED BY Zenon, <2>4, <2>5, <2>6, <2>7 DEF OwnInv
<1>15. RecInv'
  <2>1. \A u \in Threads : op[u].locked \subseteq Inodes
    BY Zenon, <1>2 DEF Operation
  <2>2. \A u \in Threads : Busy(u)' => /\ Busy(u) /\ op'[u] = op[u]
                                       /\ \A k \in op[u].locked : Own(k)' = Own(k)
    <3>1. \A u \in Threads \ {t} : i \notin op[u].locked
      BY Zenon, <1>4 DEF IInv, OpInv
    <3> QED BY Zenon, <1>3, <1>5, <1>9, <1>10, <2>1, <3>1
  <2>3. \A j \in Inodes : Settled(j)' => Segs(recs, j)' \subseteq Own(j)'
    BY ZenonT(60), <1>9, <1>10 DEF IInv, RecInv
  <2>4. \A u \in Threads : Busy(u)' => \A j \in op[u].locked :
          Segs(recs, j)' \subseteq Segs(recs, j) /\ Own(j)' = Own(j)
    BY Zenon, <1>10, <2>1, <2>2
  <2> QED BY Zenon, <2>2, <2>3, <2>4, RecStays
<1>16. GcInv'
  BY ZenonT(60), <1>1, <1>5 DEF IInv, GcInv, Segs
<1>17. MemInv'
  <2> SUFFICES ASSUME NEW j \in Cached' PROVE InodeOK(j)'
    BY Zenon DEF MemInv
  <2>1. /\ j \in Cached /\ j # i /\ j \in Inodes /\ InodeOK(j)
        /\ inodeCache[j].node \in Numbers \cup {None}
    BY Zenon, <1>1, NodeFacts DEF InMemoryInode
  <2>2. inodeCache[j].node # None =>
          recs'[Payload(inodeCache[j].node)] = recs[Payload(inodeCache[j].node)]
    <3>1. inodeCache[j].node # None => inodeCache[j].node \in Mine(j)
      BY Zenon, <2>1 DEF Mine
    <3> QED BY Zenon, <2>1, <3>1, <1>6, <1>11
  <2> QED BY Zenon, <1>1, <1>6, <1>7, <1>9, <2>1, <2>2, InodeStays
<1>18. PayInv'
  <2>1. \A j, k \in Inodes : j # k => Mine(j)' \cap Mine(k)' = {}
    BY Zenon, <1>10 DEF IInv, PayInv
  <2>2. \A j \in Inodes : /\ HasPayload(recs, j)' <=> HasPayload(recs, j)
                          /\ HasPayload(durable, j)' <=> HasPayload(durable, j)
    BY Zenon, <1>1, <1>6, <1>12 DEF HasPayload, PayloadOf
  <2> QED BY Zenon, <1>1, <1>5, <1>9, <2>1, <2>2 DEF IInv, PayInv
<1>19. OpInv'
  <2>1. OpInv /\ Threads \ {t} \in SUBSET Threads
    BY Zenon DEF IInv
  <2>2. \A u \in Threads \ {t} : ThreadOK(u)'
    <3>1. \A u \in Threads \ {t} : \A j \in op[u].locked : j # i /\ j \in Inodes
      BY Zenon, <1>2, <1>4, <2>1 DEF OpInv, Operation
    <3>2. \A u \in Threads \ {t} : \A j \in op[u].locked :
             /\ j \in Cached' <=> j \in Cached
             /\ j \in Cached => inodeCache'[j] = inodeCache[j]
             /\ recs'[Inode(j)] = recs[Inode(j)]
      BY Zenon, <1>1, <1>6, <1>7, <3>1
    <3>3. used \subseteq used' /\ \A u \in Threads \ {t} : op'[u] = op[u]
      BY Zenon, <1>1, <1>5
    <3> QED BY ZenonT(60), <2>1, <3>2, <3>3, ThreadsStay
  <2>3. LateOK(t)'
    <3>1. op'[t].victims \cup op'[t].todo \subseteq Cached'
      BY Zenon, <1>1, <1>3, <1>4, <1>5 DEF LateOK
    <3>2. \A j \in op'[t].locked \cap Cached' : ~inodeCache'[j].dirty
      BY Zenon, <1>1, <1>3, <1>5, <1>7 DEF LateOK
    <3> QED BY Zenon, <1>3, <1>5, <3>1, <3>2 DEF LateOK
  <2>4. ThreadOK(t)'
    BY Zenon, <1>1, <1>3, <1>4, <1>5, <1>9, <2>3 DEF ThreadOK
  <2> QED BY ZenonT(60), <1>5, <2>1, <2>2, <2>4 DEF OpInv
<1> QED BY Zenon, <1>8, <1>13, <1>14, <1>15, <1>16, <1>17, <1>18, <1>19 DEF IInv

\* Coalesce(): the new inode takes over the log segments of the elements.
LEMMA CoalescePreserves ==
    ASSUME IInv, NEW t \in Threads, NEW c \in Inodes, NEW E \in SUBSET Inodes,
           Coalesce(t, c, E)
    PROVE  IInv'
<1> DEFINE stolen == UNION {inodeCache[i].data : i \in E}
           L == E \cup {c}
           elder == [NewInode EXCEPT !.data = stolen, !.segs = stolen]
           robbed(i) == [inodeCache[i] EXCEPT !.segs = Robbed(@), !.dirty = TRUE,
                                              !.linked = FALSE]
<1>1. /\ c \notin used /\ used' = used \cup {c} /\ op[t] = NoOp
      /\ recs' = recs /\ durable' = durable /\ swift' = swift /\ deletes' = deletes
      /\ \A i \in E : i \in Cached /\ ~inodeCache[i].dirty
      /\ \A i \in E : \A u \in Threads : i \notin op[u].locked
      /\ Cached' = Cached \cup {c}
      /\ inodeCache' = [i \in Cached \cup {c} |->
                          IF i = c THEN elder ELSE IF i \in E THEN robbed(i) ELSE inodeCache[i]]
      /\ StartFlush(t, L, E)
  BY ZenonT(60) DEF Coalesce, Unlocked, Cached, storeVars
<1>2. c \notin Cached /\ recs[Inode(c)] = None /\ \A u \in Threads : c \notin op[u].locked
  BY ZenonT(60), <1>1, NodeFacts DEF IInv, InodeOK, StoreOK, OpInv, ThreadOK
<1>3. \A i \in E : /\ i # c /\ inodeCache[i] \in InMemoryInode /\ InodeOK(i)
                   /\ HasPayload(recs, i) /\ Segs(recs, i) \subseteq Own(i)
                   /\ ~Unlinked(i)
  BY ZenonT(60), <1>1, <1>2, NodeFacts
<1>4. \A i \in E : /\ inodeCache[i].data = inodeCache[i].segs /\ Own(i) = inodeCache[i].segs
                   /\ inodeCache[i].segs \subseteq swift
                   /\ inodeCache[i].inFlight = {} /\ ~inodeCache[i].failed
                   /\ inodeCache[i].openLogSegment = None
  BY ZenonT(60), <1>1, <1>3 DEF InodeOK, Own
<1>5. stolen \subseteq swift /\ stolen \subseteq Numbers /\ \A s : s \in stolen <=> \E i \in E : s \in Own(i)
  BY <1>3, <1>4 DEF InMemoryInode
<1> HIDE DEF stolen
<1>6. /\ elder \in InMemoryInode /\ elder.data = stolen /\ elder.segs = stolen
      /\ elder.node = None /\ elder.stale = {} /\ elder.dirty /\ elder.linked
      /\ ~elder.failed /\ elder.inFlight = {} /\ elder.openLogSegment = None
  BY Zenon, <1>5 DEF NewInode, InMemoryInode
<1>7. \A i \in E :
      /\ robbed(i) \in InMemoryInode /\ robbed(i).segs = {} /\ robbed(i).dirty
      /\ ~robbed(i).linked /\ robbed(i).data = inodeCache[i].data
      /\ robbed(i).node = inodeCache[i].node /\ robbed(i).stale = inodeCache[i].stale
      /\ robbed(i).openLogSegment = inodeCache[i].openLogSegment
      /\ robbed(i).inFlight = inodeCache[i].inFlight
      /\ (robbed(i).failed <=> inodeCache[i].failed)
  BY ZenonT(60), <1>3 DEF Robbed, InMemoryInode
<1>8. /\ inodeCache'[c] = elder /\ \A i \in E : inodeCache'[i] = robbed(i)
      /\ \A i \in Cached \ E : inodeCache'[i] = inodeCache[i]
      /\ inodeCache' \in [Cached' -> InMemoryInode]
  BY Zenon, <1>1, <1>2, <1>3, <1>6, <1>7, NodeFacts
<1> HIDE DEF elder, robbed
<1>9. /\ op'[t].pc = "flush" /\ op'[t].locked = L /\ op'[t].todo = L
      /\ op'[t].victims = E /\ op'[t].empty = {} /\ DOMAIN op'[t].batch = {}
      /\ \A u \in Threads \ {t} : op'[u] = op[u] /\ (Busy(u)' <=> Busy(u))
      /\ ~Busy(t) /\ Busy(t)'
      /\ op' \in [Threads -> Operation] /\ GcInv'
      /\ \A j \in Inodes : /\ Settled(j)' <=> Settled(j) /\ j \notin L
                           /\ Unlinked(j)' <=> Unlinked(j) \/ j \in E
                           /\ Gone(j)' <=> Gone(j)
  <2>1. L \subseteq Inodes /\ E \subseteq L
    BY Zenon
  <2> QED BY Zenon, <1>1, <2>1, Starts
<1>10. TypeInv'
  <2>1. Cached' \subseteq Inodes
    BY Zenon, <1>1, NodeFacts
  <2> QED BY Zenon, <1>1, <1>8, <1>9, <2>1 DEF IInv, TypeInv, IsStore
<1>11. /\ StoreOK(recs)' /\ StoreOK(durable)'
       /\ \A j \in Inodes : /\ Segs(recs, j)' = Segs(recs, j)
                            /\ HasPayload(recs, j)' <=> HasPayload(recs, j)
                            /\ HasPayload(durable, j)' <=> HasPayload(durable, j)
  BY Zenon, <1>1, QuietStore
<1>12. /\ Own(c) = {} /\ Own(c)' = stolen /\ Mine(c)' = {} /\ Segs(recs, c) = {}
       /\ HasPayload(recs, c)
       /\ \A i \in E : Own(i)' = {} /\ Mine(i)' = Mine(i)
       /\ \A j \in Inodes \ L : Own(j)' = Own(j) /\ Mine(j)' = Mine(j)
  <2>1. Own(c) = {} /\ Own(c)' = stolen /\ Mine(c)' = {} /\ Segs(recs, c) = {} /\ HasPayload(recs, c)
    BY Zenon, <1>1, <1>2, <1>6, <1>8 DEF Own, Mine, Segs, HasPayload
  <2>2. \A i \in E : Own(i)' = {} /\ Mine(i)' = Mine(i)
    BY ZenonT(60), <1>1, <1>7, <1>8 DEF Own, Mine
  <2>3. \A j \in Inodes \ L : Own(j)' = Own(j) /\ Mine(j)' = Mine(j)
    BY Zenon, <1>1, <1>8, <1>11 DEF Own, Mine
  <2> QED BY Zenon, <2>1, <2>2, <2>3
<1>13. OwnInv'
  <2>1. \A j \in Inodes : \A s \in Own(j)' :
          \/ j \notin L /\ s \in Own(j)
          \/ j = c /\ \E i \in E : s \in Own(i)
    BY Zenon, <1>5, <1>12
  <2>2. op[t].empty = {} /\ \A u \in Threads : op'[u].empty = op[u].empty
    <3>1. op[t].empty = {}
      BY <1>1 DEF NoOp
    <3>2. op'[t].empty = {} /\ \A u \in Threads : u # t => op'[u].empty = op[u].empty
      BY Zenon, <1>9
    <3> QED BY ZenonT(60), <3>1, <3>2
  <2>3. \A j, k \in Inodes : j # k => Own(j)' \cap Own(k)' = {}
    <3> SUFFICES ASSUME NEW j \in Inodes, NEW k \in Inodes, j # k,
                        NEW s \in Own(j)', s \in Own(k)'
                 PROVE  FALSE
      BY Zenon
    <3> QED BY ZenonT(60), <2>1 DEF IInv, OwnInv
  <2>4. \A j \in Inodes, u \in Threads : Own(j)' \cap op'[u].empty = {}
    BY Zenon, <2>1, <2>2 DEF IInv, OwnInv
  <2>5. \A d \in deletes' : /\ d[1] \in used'
                            /\ \A j \in Inodes : d[1] \notin Own(j)'
                            /\ \A u \in Threads : d[1] \notin op'[u].empty
    BY Zenon, <1>1, <2>1, <2>2 DEF IInv, OwnInv
  <2>6. \A j \in Inodes : \A s \in Own(j)' : s \in used' /\ recs'[Segment(s)] = "container"
    BY Zenon, <1>1, <2>1 DEF IInv, OwnInv
  <2>7. \A u \in Threads : \A s \in op'[u].empty :
          s \in used' /\ recs'[Segment(s)] = "container"
    BY Zenon, <1>1, <2>2 DEF IInv, OwnInv
  <2>8. \A u, v \in Threads : u # v => op'[u].empty \cap op'[v].empty = {}
    BY Zenon, <2>2 DEF IInv, OwnInv
  <2> QED BY Zenon, <2>3, <2>4, <2>5, <2>6, <2>7, <2>8 DEF OwnInv
<1>14. RecInv'
  <2>1. \A u \in Threads : op[u].locked \subseteq Inodes
    BY ZenonT(60) DEF IInv, TypeInv, Operation
  <2>2. \A j \in Inodes : Settled(j)' => Segs(recs, j)' \subseteq Own(j)'
    <3> SUFFICES ASSUME NEW j \in Inodes, Settled(j)' PROVE Segs(recs, j) \subseteq Own(j)'
      BY Zenon, <1>11
    <3>1. Settled(j) /\ j \notin L
      BY Zenon, <1>9
    <3> QED BY Zenon, <1>12, <3>1 DEF IInv, RecInv
  <2>3. ASSUME NEW u \in Threads, Busy(u)', NEW j \in op'[u].locked, NEW s \in Segs(recs, j)'
        PROVE  s \in op'[u].empty \/ \E k \in op'[u].locked : s \in Own(k)'
    <3>1. CASE u = t
      <4>1. j \in L /\ c \in op'[u].locked /\ s \in Segs(recs, j)
        BY Zenon, <1>9, <1>11, <2>3, <3>1
      <4>2. s \in stolen
        BY Zenon, <1>3, <1>5, <1>12, <4>1
      <4> QED BY Zenon, <1>12, <4>1, <4>2
    <3>2. CASE u # t
      <4>1. op'[u] = op[u] /\ Busy(u)
        BY Zenon, <1>9, <2>3, <3>2
      <4>2. j \in Inodes /\ s \in Segs(recs, j)
        BY Zenon, <1>11, <2>1, <2>3, <4>1
      <4>3. s \in op[u].empty \/ \E k \in op[u].locked : s \in Own(k)
        BY Zenon, <2>3, <4>1, <4>2 DEF IInv, RecInv
      <4>4. \A k \in op[u].locked : k \in Inodes \ L
        BY Zenon, <1>1, <1>2, <2>1
      <4> QED BY Zenon, <1>12, <4>1, <4>3, <4>4
    <3> QED BY Zenon, <3>1, <3>2
  <2> QED BY Zenon, <2>2, <2>3 DEF RecInv
<1>15. MemInv'
  <2> SUFFICES ASSUME NEW j \in Cached' PROVE InodeOK(j)'
    BY Zenon DEF MemInv
  <2>1. CASE j = c
    BY Zenon, <1>1, <1>5, <1>6, <1>8, <2>1 DEF InodeOK
  <2>2. CASE j \in E
    <3>1. Unlinked(j)' /\ InodeOK(j)
      BY Zenon, <1>3, <1>9, <2>2
    <3> QED BY ZenonT(60), <1>1, <1>4, <1>7, <1>8, <2>2, <3>1 DEF InodeOK
  <2>3. CASE j \in Cached \ E
    <3>1. j \in Inodes /\ InodeOK(j)
      BY Zenon, <2>3, NodeFacts
    <3> QED BY Zenon, <1>1, <1>8, <1>9, <2>3, <3>1, InodeStays
  <2> QED BY Zenon, <1>1, <2>1, <2>2, <2>3
<1>16. PayInv'
  <2>1. \A j \in Inodes : Mine(j)' \subseteq Mine(j)
    BY Zenon, <1>12
  <2>2. \A j, k \in Inodes : j # k => Mine(j)' \cap Mine(k)' = {}
    BY Zenon, <2>1 DEF IInv, PayInv
  <2>3. ASSUME NEW j \in Inodes
        PROVE  \/ HasPayload(recs, j)'
               \/ \E u \in Threads : Busy(u)' /\ j \in DOMAIN op'[u].batch
               \/ j \notin Cached' /\ ~HasPayload(durable, j)'
    <3>1. CASE j = c
      BY Zenon, <1>11, <1>12, <3>1
    <3>2. CASE j # c
      BY ZenonT(60), <1>1, <1>9, <1>11, <3>2 DEF IInv, PayInv
    <3> QED BY Zenon, <3>1, <3>2
  <2> QED BY Zenon, <2>2, <2>3 DEF PayInv
<1>17. OpInv'
  <2>1. \A u \in Threads : op[u].locked \subseteq Inodes /\ op[u].locked \cap L = {}
    BY Zenon, <1>1, <1>2 DEF IInv, TypeInv, Operation
  <2>2. \A u \in Threads \ {t} : \A j \in op[u].locked :
             /\ j \in Cached' <=> j \in Cached
             /\ j \in Cached => inodeCache'[j] = inodeCache[j]
             /\ recs'[Inode(j)] = recs[Inode(j)]
    BY Zenon, <1>1, <1>8, <2>1
  <2>3. /\ OpInv /\ Threads \ {t} \in SUBSET Threads /\ used \subseteq used'
        /\ \A u \in Threads \ {t} : op'[u] = op[u]
    BY Zenon, <1>1, <1>9 DEF IInv
  <2>4. \A u \in Threads \ {t} : ThreadOK(u)'
    BY ZenonT(60), <2>2, <2>3, ThreadsStay
  <2>5. L \subseteq Cached' /\ \A i \in L : inodeCache'[i].dirty /\ Complete(inodeCache'[i])
    BY Zenon, <1>1, <1>4, <1>6, <1>7, <1>8 DEF Complete
  <2>6. FlushOK(t)'
    BY Zenon, <1>9, <2>5 DEF FlushOK, Complete
  <2>7. L \subseteq used'
    BY ZenonT(60), <1>1, <1>3 DEF InodeOK
  <2>8. ThreadOK(t)'
    BY Zenon, <1>9, <2>6, <2>7 DEF ThreadOK, Late
  <2>9. \A u, v \in Threads : u # v => op'[u].locked \cap op'[v].locked = {}
    <3>1. \A u \in Threads : u # t => op'[u].locked = op[u].locked
      BY Zenon, <1>9
    <3>2. \A u, v \in Threads : u # v => op[u].locked \cap op[v].locked = {}
      BY Zenon DEF IInv, OpInv
    <3>3. op'[t].locked = L
      BY Zenon, <1>9
    <3> HIDE DEF L
    <3> QED BY Zenon, <2>1, <3>1, <3>2, <3>3
  <2> QED BY Zenon, <2>4, <2>8, <2>9 DEF OpInv
<1> QED BY Zenon, <1>9, <1>10, <1>11, <1>13, <1>14, <1>15, <1>16, <1>17 DEF IInv

-----------------------------------------------------------------------------
\* A newly formatted volume satisfies the invariant.
LEMMA InitIInv == Init => IInv
<1> SUFFICES ASSUME Init PROVE IInv
  BY Zenon
<1>1. /\ recs = [k \in Keys |-> None] /\ durable = recs /\ swift = {} /\ deletes = {}
      /\ op = [t \in Threads |-> NoOp] /\ inodeCache = Nothing
  BY Zenon DEF Init, Store!Init
<1>2. Cached = {}
  BY Zenon, <1>1 DEF Cached, Nothing
<1>3. NoOp \in Operation
  <2>1. {} \in SUBSET Inodes /\ Nothing \in [{} -> InodeRec]
    BY Zenon DEF Nothing
  <2>2. Nothing \in Batches
    BY Zenon, <2>1 DEF Batches
  <2> QED BY Zenon, <2>2 DEF NoOp, Operation
<1>4. /\ \A i \in Inodes : recs[Inode(i)] = None
      /\ \A n \in Numbers : recs[Payload(n)] = None /\ recs[Segment(n)] = None
  BY Zenon, <1>1, KeyFacts
<1>5. \A i \in Inodes : Segs(recs, i) = {} /\ Own(i) = {} /\ Mine(i) = {} /\ HasPayload(recs, i)
  BY Zenon, <1>2, <1>4 DEF Segs, Own, Mine, HasPayload
<1>6. \A t \in Threads : /\ op[t] = NoOp /\ op[t].pc = "idle" /\ op[t].locked = {}
                         /\ op[t].empty = {} /\ op[t].todo = {} /\ op[t].victims = {}
  BY Zenon, <1>1 DEF NoOp
<1>7. \A t \in Threads : ~Busy(t) /\ op[t].pc \notin Late /\ op[t].pc # "gc"
  BY Zenon, <1>6 DEF Busy, Late
<1>8. TypeInv
  <2>1. inodeCache \in [Cached -> InMemoryInode]
    BY Zenon, <1>1, <1>2 DEF Nothing
  <2>2. op \in [Threads -> Operation]
    BY Zenon, <1>1, <1>3
  <2> QED BY Zenon, <1>1, <1>2, <1>4, <2>1, <2>2 DEF TypeInv, IsStore
<1>9. StoreOK(recs) /\ StoreOK(durable)
  BY Zenon, <1>1, <1>4, <1>5 DEF StoreOK
<1>10. OwnInv /\ RecInv /\ GcInv
  BY Zenon, <1>1, <1>5, <1>6, <1>7 DEF OwnInv, RecInv, GcInv
<1>11. MemInv /\ PayInv
  BY Zenon, <1>2, <1>5 DEF MemInv, PayInv
<1>12. OpInv
  <2>1. \A t \in Threads : ThreadOK(t)
    BY Zenon, <1>6, <1>7 DEF ThreadOK
  <2> QED BY Zenon, <1>6, <2>1 DEF OpInv
<1> QED BY Zenon, <1>8, <1>9, <1>10, <1>11, <1>12 DEF IInv

\* Every step preserves it.
LEMMA NextIInv == IInv /\ [Next]_vars => IInv'
<1> SUFFICES ASSUME IInv, [Next]_vars PROVE IInv'
  BY Zenon
<1>1. CASE UNCHANGED vars
  <2>1. /\ recs' = recs /\ durable' = durable /\ swift' = swift /\ inodeCache' = inodeCache
        /\ op' = op /\ deletes' = deletes /\ used' = used /\ Cached' = Cached
    BY Zenon, <1>1 DEF vars, storeVars, Cached
  <2>2. /\ \A t \in Threads : Busy(t)' <=> Busy(t)
        /\ \A i \in Inodes : /\ Own(i)' = Own(i) /\ Mine(i)' = Mine(i)
                             /\ Segs(recs, i)' = Segs(recs, i)
                             /\ Segs(durable, i)' = Segs(durable, i)
                             /\ Unlinked(i)' <=> Unlinked(i)
                             /\ Gone(i)' <=> Gone(i)
                             /\ HasPayload(recs, i)' <=> HasPayload(recs, i)
                             /\ HasPayload(durable, i)' <=> HasPayload(durable, i)
    BY Zenon, <2>1 DEF Busy, Own, Mine, Segs, Unlinked, Gone, HasPayload
  <2>3. \A i \in Inodes : Settled(i)' <=> Settled(i)
    BY Zenon, <2>1, <2>2 DEF Settled
  <2>4. TypeInv' /\ StoreOK(recs)' /\ StoreOK(durable)'
    BY Zenon, <2>1, <2>2 DEF IInv, TypeInv, IsStore, StoreOK
  <2>5. OwnInv' /\ RecInv' /\ GcInv'
    <3>1. \A t \in Threads : op[t].locked \subseteq Inodes
      BY ZenonT(60) DEF IInv, TypeInv, Operation
    <3>2. OwnInv'
      BY Zenon, <2>1, <2>2, OwnSame
    <3>3. RecInv'
      BY Zenon, <2>1, <2>2, <2>3, RecSame
    <3>4. GcInv'
      BY Zenon, <2>1, <2>2, <2>3, <3>1 DEF IInv, GcInv
    <3> QED BY Zenon, <3>2, <3>3, <3>4
  <2>6. MemInv' /\ PayInv'
    <3>1. \A i \in Cached : InodeOK(i)'
      <4> SUFFICES ASSUME NEW i \in Cached PROVE InodeOK(i)'
        BY Zenon
      <4> QED BY Zenon, <2>1, <2>2, NodeFacts, InodeStays
    <3> QED BY Zenon, <2>1, <2>2, <3>1 DEF IInv, MemInv, PayInv
  <2>7. OpInv'
    <3>1. Threads \in SUBSET Threads /\ OpInv
      BY Zenon DEF IInv
    <3>2. \A t \in Threads : ThreadOK(t)'
      BY Zenon, <2>1, <3>1, ThreadsStay
    <3> QED BY Zenon, <2>1, <3>1, <3>2 DEF OpInv
  <2> QED BY Zenon, <2>4, <2>5, <2>6, <2>7 DEF IInv
<1>2. ASSUME NEW i \in Inodes,
             \/ CreateFile(i) \/ FetchInode(i) \/ Purge(i)
             \/ \E s \in Numbers, R \in SUBSET Numbers, full \in BOOLEAN : Write(i, s, R, full)
             \/ \E s \in Numbers : CloseLogSegment(i, s) \/ CloseFails(i, s)
      PROVE  IInv'
  BY Zenon, <1>2, CreateFilePreserves, FetchInodePreserves, PurgePreserves, WritePreserves,
     CloseLogSegmentPreserves
<1>3. ASSUME NEW i \in Inodes, NEW t \in Threads,
             \/ Flush(t, i) \/ Unlink(t, i)
             \/ \E R \in SUBSET Numbers :
                  SetSize(t, i, R) \/ \E s \in Numbers : Wrote(t, i, s, R)
             \/ \E E \in SUBSET Inodes : Coalesce(t, i, E)
      PROVE  IInv'
  BY Zenon, <1>3, FlushPreserves, UnlinkPreserves, SetSizePreserves, WrotePreserves,
     CoalescePreserves
<1>4. ASSUME NEW t \in Threads, Step(t) PROVE IInv'
  BY Zenon, <1>4, FlushInodePreserves, FlushFailsPreserves, DeleteInodeRecPreserves,
     DiscardPreserves, PrunePreserves, PutInodeRecsPreserves, FetchWaitGroupPreserves,
     DeleteLogSegmentPreserves, ReturnPreserves DEF Step
<1>5. CASE (\E s \in Numbers : DeleteObject(s)) \/ Checkpoint \/ SignalWaitGroup \/ Crash
  BY Zenon, <1>5, DeleteObjectPreserves, CheckpointPreserves, SignalWaitGroupPreserves,
     CrashPreserves
<1> QED BY ZenonT(60), <1>1, <1>2, <1>3, <1>4, <1>5 DEF Next

\* The invariant holds whatever threads, flushers, daemons and crashes do, for any
\* number of threads, inodes and log segments.
THEOREM FileInvariant == Spec => []IInv
BY InitIInv, NextIInv, PTL DEF Spec

\* deleteLogSegmentAsync() and its wait group never let the delete daemon remove a
\* log segment that the last checkpoint names.
THEOREM DurableFilesWhole == Spec => []DurableSegmentsKept
<1>1. IInv => DurableSegmentsKept
  <2> SUFFICES ASSUME StoreOK(durable) PROVE DurableSegmentsKept
    BY Zenon DEF IInv
  <2> QED BY Zenon DEF StoreOK, Segs, DurableSegmentsKept
<1> QED BY <1>1, FileInvariant, PTL

\* No checkpoint names a log segment in two inodes: Coalesce() and PutInodeRecs()
\* pass segments on atomically.
THEOREM SegmentsHaveOneOwner == Spec => []SegmentsNotShared
<1>1. IInv => SegmentsNotShared
  BY ZenonT(60) DEF IInv, StoreOK, Segs, SegmentsNotShared
<1> QED BY <1>1, FileInvariant, PTL

\* Purge() may drop any clean, unlocked inode: headhunter holds the same.
THEOREM CleanCanBeEvicted == Spec => []CleanMatchesStore
<1>1. IInv => CleanMatchesStore
  <2> SUFFICES ASSUME IInv, NEW i \in Cached, ~inodeCache[i].dirty, Unlocked(i)
               PROVE  /\ recs[Inode(i)] = [payload |-> inodeCache[i].node,
                                           segs |-> inodeCache[i].segs, linked |-> TRUE]
                      /\ recs[Payload(recs[Inode(i)].payload)] = inodeCache[i].data
    BY Zenon DEF CleanMatchesStore, Cached
  <2>1. /\ i \in Inodes /\ InodeOK(i) /\ ~Gone(i) /\ ~Unlinked(i)
        /\ inodeCache[i].linked \in BOOLEAN
    BY Zenon, NodeFacts DEF Unlocked, InMemoryInode
  <2>2. inodeCache[i].linked = TRUE
    BY Zenon, <2>1 DEF InodeOK
  <2>3. /\ recs[Inode(i)] = [payload |-> inodeCache[i].node,
                             segs |-> inodeCache[i].segs, linked |-> TRUE]
        /\ inodeCache[i].node # None
    BY Zenon, <2>1, <2>2 DEF InodeOK
  <2>4. recs[Payload(inodeCache[i].node)] = inodeCache[i].data
    BY Zenon, <2>1, <2>3 DEF InodeOK
  <2> QED BY <2>3, <2>4
<1> QED BY <1>1, FileInvariant, PTL

\* What Write() and Wrote() wrote stays readable until it is overwritten, whatever
\* is flushed, coalesced, destroyed or deleted meanwhile, unless a PUT failed.
THEOREM WrittenDataReadable == Spec => []DataReadable
<1>1. IInv => DataReadable
  <2> SUFFICES ASSUME IInv, NEW i \in Cached, inodeCache[i].linked
               PROVE  \/ inodeCache[i].data \subseteq swift \cup inodeCache[i].inFlight
                      \/ inodeCache[i].failed
    BY Zenon DEF DataReadable, Cached
  <2> QED BY Zenon, NodeFacts DEF InodeOK
<1> QED BY <1>1, FileInvariant, PTL

\* Prune() and Discard() delete the extent map that a record names only between
\* Prune() and PutInodeRecs() of the flush that replaces the record.
THEOREM ExtentMapsKept == Spec => []PayloadKept
<1>1. IInv => PayloadKept
  BY Zenon DEF IInv, PayInv, PayloadKept, Busy
<1> QED BY <1>1, FileInvariant, PTL

-----------------------------------------------------------------------------
\* The rest of TypeOK: what the invariant does not read.
RestOK == waiting \in BOOLEAN /\ swift \subseteq Numbers /\ used \subseteq Inodes \cup Numbers

\* Every step keeps it.
LEMMA RestStays == IInv /\ RestOK /\ [Next]_vars => RestOK'
<1> SUFFICES ASSUME IInv, RestOK, [Next]_vars PROVE RestOK'
  BY Zenon
<1> USE DEF RestOK, storeVars
<1>1. CASE UNCHANGED vars
  BY Zenon, <1>1 DEF vars
<1>2. ASSUME NEW i \in Inodes,
             \/ CreateFile(i) \/ FetchInode(i) \/ Purge(i)
             \/ \E s \in Numbers, R \in SUBSET Numbers, full \in BOOLEAN : Write(i, s, R, full)
             \/ \E s \in Numbers : CloseLogSegment(i, s) \/ CloseFails(i, s)
      PROVE  RestOK'
  <2>1. CASE CreateFile(i) \/ FetchInode(i) \/ Purge(i)
    BY Zenon, <2>1 DEF CreateFile, FetchInode, Purge
  <2>2. ASSUME NEW s \in Numbers, NEW R \in SUBSET Numbers, NEW full \in BOOLEAN,
               Write(i, s, R, full)
        PROVE  RestOK'
    BY Zenon, <2>2 DEF Write
  <2>3. ASSUME NEW s \in Numbers, CloseLogSegment(i, s) \/ CloseFails(i, s) PROVE RestOK'
    BY Zenon, <2>3 DEF CloseLogSegment, CloseFails
  <2> QED BY Zenon, <1>2, <2>1, <2>2, <2>3
<1>3. ASSUME NEW i \in Inodes, NEW t \in Threads,
             \/ Flush(t, i) \/ Unlink(t, i)
             \/ \E R \in SUBSET Numbers :
                  SetSize(t, i, R) \/ \E s \in Numbers : Wrote(t, i, s, R)
             \/ \E E \in SUBSET Inodes : Coalesce(t, i, E)
      PROVE  RestOK'
  <2>1. CASE Flush(t, i) \/ Unlink(t, i)
    BY Zenon, <2>1 DEF Flush, Unlink
  <2>2. ASSUME NEW R \in SUBSET Numbers, SetSize(t, i, R) PROVE RestOK'
    BY Zenon, <2>2 DEF SetSize
  <2>3. ASSUME NEW R \in SUBSET Numbers, NEW s \in Numbers, Wrote(t, i, s, R) PROVE RestOK'
    BY Zenon, <2>3 DEF Wrote
  <2>4. ASSUME NEW E \in SUBSET Inodes, Coalesce(t, i, E) PROVE RestOK'
    BY ZenonT(60), <2>4 DEF Coalesce
  <2> QED BY Zenon, <1>3, <2>1, <2>2, <2>3, <2>4
<1>4. ASSUME NEW t \in Threads, Step(t) PROVE RestOK'
  <2>1. ASSUME NEW i \in op[t].todo, NEW n \in Numbers, FlushInode(t, i, n) PROVE RestOK'
    BY Zenon, <2>1 DEF FlushInode
  <2>2. ASSUME NEW i \in op[t].todo,
               FlushFails(t, i) \/ DeleteInodeRec(t, i) \/ Discard(t, i)
        PROVE  RestOK'
    BY Zenon, <2>2 DEF FlushFails, DeleteInodeRec, Discard
  <2>3. CASE Prune(t) \/ PutInodeRecs(t) \/ FetchWaitGroup(t) \/ Return(t)
    BY Zenon, <2>3 DEF Prune, PutInodeRecs, FetchWaitGroup, Store!FetchWaitGroup, Return
  <2>4. ASSUME NEW s \in op[t].empty, DeleteLogSegment(t, s) PROVE RestOK'
    BY Zenon, <2>4 DEF DeleteLogSegment
  <2> QED BY Zenon, <1>4, <2>1, <2>2, <2>3, <2>4 DEF Step
<1>5. CASE (\E s \in Numbers : DeleteObject(s)) \/ Checkpoint \/ SignalWaitGroup \/ Crash
  BY Zenon, <1>5 DEF DeleteObject, Checkpoint, Store!Checkpoint, SignalWaitGroup,
              Store!SignalWaitGroup, Crash, Store!Crash
<1> QED BY Zenon, <1>1, <1>2, <1>3, <1>4, <1>5 DEF Next

\* The variables keep their types.
THEOREM TypeCorrect == Spec => []TypeOK
<1>1. Init => RestOK
  BY ZenonT(60) DEF Init, Store!Init, RestOK
<1>2. IInv /\ RestOK => TypeOK
  <2> SUFFICES ASSUME IInv, RestOK PROVE TypeOK
    BY Zenon
  <2>1. \A t \in Threads :
         /\ op[t].pc \in {"idle", "flush", "prune", "put", "drop", "discard", "wait", "gc"}
         /\ op[t].todo \subseteq op[t].locked /\ op[t].locked \subseteq Inodes
         /\ op[t].empty \subseteq Numbers
         /\ op[t].gate \in {"open", "closed"}
    BY Zenon DEF IInv, TypeInv, OpInv, ThreadOK, Operation, Late
  <2>2. /\ DOMAIN inodeCache \subseteq Inodes
        /\ \A i \in DOMAIN inodeCache : inodeCache[i] \in InMemoryInode
    BY Zenon, NodeFacts DEF Cached
  <2>3. \A r \in {recs, durable} :
         /\ \A i \in Inodes : r[Inode(i)] = None \/ r[Inode(i)] \in InodeRec
         /\ \A n \in Numbers : /\ r[Payload(n)] = None \/ r[Payload(n)] \subseteq Numbers
                              /\ r[Segment(n)] \in {None, "container"}
    BY Zenon DEF IInv, TypeInv, IsStore
  <2> QED BY Zenon, <2>1, <2>2, <2>3 DEF RestOK, IInv, TypeInv, TypeOK
<1> QED BY <1>1, <1>2, RestStays, FileInvariant, PTL DEF Spec

\* Every step of package inode is a step of the store that headhunter promises,
\* or leaves the store alone.
LEMMA StoreStep == IInv' /\ [Next]_vars => [Store!Next]_(Store!vars)
<1> SUFFICES ASSUME IInv', [Next]_vars PROVE Store!Next \/ UNCHANGED Store!vars
  BY Zenon
<1>1. recs' \in [Keys -> Values \cup {None}]
  BY Zenon DEF IInv, TypeInv, IsStore
<1>2. durable' = durable /\ waiting' = waiting => Store!Next
  BY Zenon, <1>1 DEF Store!Next, Store!Put
<1>3. CASE UNCHANGED vars
  BY Zenon, <1>3 DEF vars, storeVars, Store!vars
<1>4. ASSUME NEW i \in Inodes,
             \/ CreateFile(i) \/ FetchInode(i) \/ Purge(i)
             \/ \E s \in Numbers, R \in SUBSET Numbers, full \in BOOLEAN : Write(i, s, R, full)
             \/ \E s \in Numbers : CloseLogSegment(i, s) \/ CloseFails(i, s)
      PROVE  durable' = durable /\ waiting' = waiting
  BY ZenonT(60), <1>4 DEF CreateFile, FetchInode, Purge, Write, CloseLogSegment, CloseFails, storeVars
<1>5. ASSUME NEW i \in Inodes, NEW t \in Threads,
             \/ Flush(t, i) \/ Unlink(t, i)
             \/ \E R \in SUBSET Numbers :
                  SetSize(t, i, R) \/ \E s \in Numbers : Wrote(t, i, s, R)
             \/ \E E \in SUBSET Inodes : Coalesce(t, i, E)
      PROVE  durable' = durable /\ waiting' = waiting
  BY Zenon, <1>5 DEF Flush, Unlink, SetSize, Wrote, Coalesce, storeVars
<1>6. ASSUME NEW t \in Threads, Step(t) PROVE Store!Next \/ UNCHANGED Store!vars
  <2>1. CASE FetchWaitGroup(t)
    BY Zenon, <2>1 DEF FetchWaitGroup, Store!Next
  <2>2. CASE ~FetchWaitGroup(t)
    <3>1. durable' = durable /\ waiting' = waiting
      BY Zenon, <1>6, <2>2 DEF Step, FlushInode, FlushFails, DeleteInodeRec, Discard, Prune,
                        PutInodeRecs, DeleteLogSegment, Return, storeVars
    <3> QED BY Zenon, <1>2, <3>1
  <2> QED BY Zenon, <2>1, <2>2
<1>7. ASSUME NEW s \in Numbers, DeleteObject(s) PROVE durable' = durable /\ waiting' = waiting
  BY Zenon, <1>7 DEF DeleteObject, storeVars
<1>8. CASE Checkpoint \/ SignalWaitGroup \/ Crash
  BY Zenon, <1>8 DEF Checkpoint, SignalWaitGroup, Crash, Store!Next
<1> QED BY Zenon, <1>2, <1>3, <1>4, <1>5, <1>6, <1>7, <1>8 DEF Next

\* Package inode asks of headhunter only what DurableStore promises, which is what
\* the headhunter modules show of headhunter itself.
THEOREM UsesDurableStore == Spec => Store!Spec
<1>1. Init => Store!Init
  BY Zenon DEF Init
<1> QED BY <1>1, StoreStep, FileInvariant, PTL DEF Spec, Store!Spec
=============================================================================
