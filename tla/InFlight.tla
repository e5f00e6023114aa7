------------------------------ MODULE InFlight ------------------------------
(***************************************************************************)
(* How package fs sees to it that written file data is flushed in time     *)
(* (fs/api_internal.go, fs/config.go): Write() tracks the file, a tracker  *)
(* goroutine flushes it after maxFlushTime, Flush() untracks it, Down()    *)
(* flushes what is still tracked, and the starvation callback flushes a    *)
(* file when writers wait for a connection.  Each open or closing log      *)
(* segment holds a connection of the pool, see ConnectionPool.             *)
(*                                                                         *)
(* An inode lock is taken in one step when it is free; package dlm grants  *)
(* it in order.  The requests of the clients have ended when Down() runs.  *)
(* A request to Swift or to headhunter may fail; a flush or a write that   *)
(* fails leaves the inode dirty.                                           *)
(***************************************************************************)
EXTENDS ConnectionPool

CONSTANTS
    Files,
    Clients,       \* threads that run Write() and Flush()
    MaxEntries,    \* bound of the model on inFlightFileInodeDataStruct's in use
    MaxSegments,   \* bound of the model on the log segments in flight of a file
    MaxMishaps,    \* bound of the model on failed requests and SIGHUPs together
    Nobody         \* no lock owner

Entries == 1..MaxEntries
NoEntry == 0

\* Log segments of a file, open or closing.
LogSegments(f) == {u \in Users : u[1] = f}

ASSUME InFlightAssumption ==
    /\ Users = Files \X (1..MaxSegments)
    /\ MaxEntries \in Nat /\ MaxSegments \in Nat
    /\ Nobody \notin Files \cup Clients \cup Entries \cup Goroutines
    /\ Clients \cap (Entries \cup Goroutines) = {}
    /\ MaxMishaps \in Nat

VARIABLES
    inodeLock,         \* owner of each inode lock
    dirty,             \* the inode has data that was not flushed
    openLogSegment,    \* set of at most one log segment
    closing,           \* log segments of inFlightLogSegmentFlusher()
    context,           \* state of the ChunkedPutContext of each log segment
    segmentErrors,     \* files whose inFlightLogSegmentErrors is not empty
    failures,          \* requests that have failed
    told,              \* history: files that a caller got an error about, and that
                       \* were not flushed since
    flushing,          \* files whose lock's owner waits in doFileInodeDataFlush()
    writing,           \* the file each client is writing, or Nobody
    inFlightMap,       \* inFlightFileInodeDataMap: file to entry
    inFlightList,      \* inFlightFileInodeDataList
    entry,             \* the entries and their trackers
    callback,          \* the file that each callback flushes, or Nobody
    down               \* progress of Down(): files to untrack, tracker awaited

faultVars == <<context, segmentErrors, failures, told>>
fsVars == <<inodeLock, dirty, openLogSegment, closing, flushing, writing, inFlightMap,
            inFlightList, entry, callback, down, faultVars>>
vars == <<poolVars, fsVars>>

FreeEntry == [file |-> Nobody, pc |-> "done", control |-> {}]

TypeOK ==
    /\ PoolTypeOK
    /\ inodeLock \in [Files -> {Nobody} \cup Clients \cup Entries \cup Goroutines]
    /\ dirty \in [Files -> BOOLEAN]
    /\ openLogSegment \in [Files -> SUBSET Users] /\ closing \subseteq Users
    /\ context \in [Users -> {"new", "sent", "fatal", "nil"}]
    /\ segmentErrors \subseteq Files /\ told \subseteq Files
    /\ failures \in 0..MaxMishaps
    /\ flushing \subseteq Files
    /\ writing \in [Clients -> Files \cup {Nobody}]
    /\ inFlightMap \in [Files -> Entries \cup {NoEntry}]
    /\ inFlightList \in Seq(Entries)
    /\ entry \in [Entries -> [file : Files \cup {Nobody},
                              pc : {"wait", "lock", "flush", "done"},
                              control : SUBSET BOOLEAN]]
    /\ callback \in [Goroutines -> Files \cup {Nobody}]
    /\ down \in [pc : {"up", "untrack", "done"}, todo : SUBSET Files,
                 awaits : Entries \cup {NoEntry}]

Init ==
    /\ PoolInit
    /\ inodeLock = [f \in Files |-> Nobody]
    /\ dirty = [f \in Files |-> FALSE]
    /\ openLogSegment = [f \in Files |-> {}] /\ closing = {} /\ flushing = {}
    /\ context = [u \in Users |-> "new"] /\ segmentErrors = {}
    /\ failures = 0 /\ told = {}
    /\ writing = [t \in Clients |-> Nobody]
    /\ inFlightMap = [f \in Files |-> NoEntry] /\ inFlightList = <<>>
    /\ entry = [e \in Entries |-> FreeEntry]
    /\ callback = [g \in Goroutines |-> Nobody]
    /\ down = [pc |-> "up", todo |-> {}, awaits |-> NoEntry]

-----------------------------------------------------------------------------
(***************************************************************************)
(* Tracking.                                                               *)
(***************************************************************************)
\* An entry nobody refers to any more, for a new inFlightFileInodeDataStruct.
Unused(e) == entry[e] = FreeEntry /\ down.awaits # e

\* trackInFlightFileInodeData(): nothing is done if the map has an entry.
Track(f) ==
    IF inFlightMap[f] # NoEntry
      THEN UNCHANGED <<inFlightMap, inFlightList, entry>>
      ELSE \E e \in Entries :
             /\ Unused(e) /\ \A d \in Entries : d < e => ~Unused(d)
             /\ inFlightMap' = [inFlightMap EXCEPT ![f] = e]
             /\ inFlightList' = Append(inFlightList, e)
             /\ entry' = [entry EXCEPT ![e] = [file |-> f, pc |-> "wait", control |-> {}]]

\* Mutant: the element of the global list is left.
OffTheMap(f) ==
    /\ inFlightMap' = [inFlightMap EXCEPT ![f] = NoEntry]
    /\ UNCHANGED inFlightList

\* The entry leaves the map and the list.
Unlist(f) ==
    /\ inFlightMap' = [inFlightMap EXCEPT ![f] = NoEntry]
    /\ \/ /\ inFlightMap[f] \notin Range(inFlightList)    \* globalsListElement is nil
          /\ UNCHANGED inFlightList
       \/ \E i \in DOMAIN inFlightList :
            /\ inFlightList[i] = inFlightMap[f]
            /\ inFlightList' = SubSeq(inFlightList, 1, i - 1)
                                 \o SubSeq(inFlightList, i + 1, Len(inFlightList))

\* untrackInFlightFileInodeData(), without the wait for the tracker.  A tracker
\* that has ended does not read the message.
Untrack(f, flushFirst) ==
    IF inFlightMap[f] = NoEntry
      THEN UNCHANGED <<inFlightMap, inFlightList, entry>>
      ELSE /\ Unlist(f)
           /\ entry' = [entry EXCEPT ![inFlightMap[f]] =
                          IF @.pc = "done" THEN FreeEntry
                                           ELSE [@ EXCEPT !.control = {flushFirst}]]

-----------------------------------------------------------------------------
(***************************************************************************)
(* Write().                                                                *)
(***************************************************************************)
\* Bound of the model: an entry is left for every Write() that may need one.
EntryLeft(f) ==
    inFlightMap[f] = NoEntry =>
      Cardinality({t \in Clients : writing[t] # Nobody /\ inFlightMap[writing[t]] = NoEntry})
        < Cardinality({e \in Entries : Unused(e)})

WriteLocks(t, f) ==
    /\ EntryLeft(f)
    /\ down.pc = "up" /\ writing[t] = Nobody /\ \A h \in Files : inodeLock[h] # t
    /\ inodeLock[f] = Nobody
    /\ inodeLock' = [inodeLock EXCEPT ![f] = t]
    /\ writing' = [writing EXCEPT ![t] = f]
    /\ dirty' = [dirty EXCEPT ![f] = TRUE]
    /\ UNCHANGED <<poolVars, openLogSegment, closing, flushing, inFlightMap, inFlightList,
                   entry, callback, down, faultVars>>

\* doSendChunk() opens a log segment, which may have to wait for a connection.
WriteOpens(t) ==
    /\ writing[t] # Nobody /\ openLogSegment[writing[t]] = {}
    /\ \E u \in LogSegments(writing[t]) \ closing :
         /\ \A v \in LogSegments(writing[t]) \ closing : u[2] <= v[2]
         /\ Acquire(u)
         /\ openLogSegment' = [openLogSegment EXCEPT ![writing[t]] = {u}]
    /\ UNCHANGED <<inodeLock, dirty, closing, flushing, writing, inFlightMap, inFlightList,
                   entry, callback, down, faultVars>>

MishapLeft == failures + connectionNonce < MaxMishaps

\* A request fails.
Fail == MishapLeft /\ failures' = failures + 1

\* Write() returns: the file is unlocked.
WriteReturns(t) ==
    /\ inodeLock' = [inodeLock EXCEPT ![writing[t]] = Nobody]
    /\ writing' = [writing EXCEPT ![t] = Nobody]
    /\ UNCHANGED <<dirty, flushing, callback, down, segmentErrors>>

\* The request line and the chunk are sent, a full log segment is handed to its
\* flusher, and the file is tracked.  A chunk for a context that has failed for
\* good is kept and not sent.
WriteSends(t, full) ==
    LET f == writing[t] IN
    /\ f # Nobody /\ openLogSegment[f] # {}
    /\ \A u \in openLogSegment[f] : u \in Holders \/ context[u] = "fatal"
    /\ context' = [u \in Users |-> IF u \in openLogSegment[f] /\ context[u] = "new"
                                     THEN "sent" ELSE context[u]]
    /\ IF full THEN /\ closing' = closing \cup openLogSegment[f]
                    /\ openLogSegment' = [openLogSegment EXCEPT ![f] = {}]
               ELSE UNCHANGED <<closing, openLogSegment>>
    /\ Track(f)
    /\ WriteReturns(t)
    /\ UNCHANGED <<poolVars, failures, told>>

\* The request line cannot be written: objectFetchChunkedPutContext() gives the
\* connection back and is called again.
WriteRetries(t) ==
    /\ Fail /\ writing[t] # Nobody
    /\ \E u \in LogSegments(writing[t]) \cap openLogSegment[writing[t]] :
         context[u] = "new" /\ Release(u, FALSE)
    /\ openLogSegment' = [openLogSegment EXCEPT ![writing[t]] = {}]
    /\ UNCHANGED <<inodeLock, dirty, closing, flushing, writing, inFlightMap, inFlightList,
                   entry, callback, down, context, segmentErrors, told>>

\* Write() returns an error and tracks nothing, the inode stays dirty.  Either no
\* log segment could be provisioned; or the retries are used up, and the open log
\* segment has no context: its next use is a nil dereference, which ends the process
\* (no step of the model uses it); or SendChunk() refused a buffer of length zero.
WriteFails(t) ==
    /\ Fail /\ writing[t] # Nobody
    /\ \/ openLogSegment[writing[t]] = {} /\ UNCHANGED <<poolVars, context>>
       \/ \E u \in LogSegments(writing[t]) \cap openLogSegment[writing[t]] :
            /\ Release(u, FALSE)
            /\ \/ context[u] = "new" /\ context' = [context EXCEPT ![u] = "nil"]
               \/ context' = [context EXCEPT ![u] = "fatal"]
    /\ told' = told \cup {writing[t]}
    /\ WriteReturns(t)
    /\ UNCHANGED <<openLogSegment, closing, inFlightMap, inFlightList, entry>>

\* The log segment is done with; its context is garbage.
Closed(u) ==
    /\ closing' = closing \ {u}
    /\ context' = [context EXCEPT ![u] = "new"]

CloseVars == <<inodeLock, dirty, openLogSegment, flushing, writing, inFlightMap, inFlightList,
               entry, callback, down, told>>

\* inFlightLogSegmentFlusher(): Close() releases the connection.
CloseLogSegment(u) ==
    /\ u \in closing
    /\ \E keepAlive \in BOOLEAN : Release(u, keepAlive)
    /\ Closed(u)
    /\ UNCHANGED <<CloseVars, segmentErrors, failures>>

\* Close() fails and releases the connection.  It goes on with retry(), or its
\* retries are used up and the error is kept.  A context that has failed for good
\* has no connection and is not retried.
CloseFails(u) ==
    /\ u \in closing
    /\ \/ Fail /\ Release(u, FALSE) /\ UNCHANGED <<closing, context, segmentErrors>>
       \/ /\ \/ Fail /\ Release(u, FALSE)
             \/ context[u] = "fatal" /\ UNCHANGED <<poolVars, failures>>
          /\ Closed(u)
          /\ segmentErrors' = segmentErrors \cup {u[1]}
    /\ UNCHANGED CloseVars

\* retry() asks for another connection.
CloseRetries(u) ==
    /\ u \in closing /\ context[u] = "sent"
    /\ Acquire(u)
    /\ UNCHANGED fsVars

-----------------------------------------------------------------------------
(***************************************************************************)
(* Flush(), and the others that flush: trackers and callbacks.             *)
(***************************************************************************)
\* The owner gets the inode lock and hands over the open log segment.
StartFlush(owner, f) ==
    /\ inodeLock[f] = Nobody
    /\ inodeLock' = [inodeLock EXCEPT ![f] = owner]
    /\ flushing' = flushing \cup {f}
    /\ closing' = closing \cup openLogSegment[f]
    /\ openLogSegment' = [openLogSegment EXCEPT ![f] = {}]
    /\ UNCHANGED faultVars

\* Mutant: the log segments that are closing are not waited for.
FlushedAtOnce(f) == TRUE

Flushed(f) == closing \cap LogSegments(f) = {}

\* The log segments are closed: the inode is flushed, or is not, because one of
\* them has ever failed to close or because its record cannot be stored.  Then it
\* stays dirty.  It is unlocked.
EndFlush(owner, f, ok) ==
    /\ f \in flushing /\ inodeLock[f] = owner /\ Flushed(f)
    /\ \/ ok /\ f \notin segmentErrors /\ UNCHANGED failures
       \/ ~ok /\ f \in segmentErrors /\ UNCHANGED failures
       \/ ~ok /\ dirty[f] /\ f \notin segmentErrors /\ Fail
    /\ flushing' = flushing \ {f}
    /\ inodeLock' = [inodeLock EXCEPT ![f] = Nobody]
    /\ dirty' = [dirty EXCEPT ![f] = @ /\ ~ok]
    /\ UNCHANGED <<openLogSegment, closing, writing, down, context, segmentErrors>>

\* The error of a flush that no client called for goes to the log.
NobodyTold(f, ok) == told' = IF ok THEN told \ {f} ELSE told

\* Flush(); Resize(), SetXAttr() and RemoveXAttr() change the inode first.
Flush(t, f) ==
    /\ down.pc = "up" /\ writing[t] = Nobody /\ \A h \in Files : inodeLock[h] # t
    /\ StartFlush(t, f)
    /\ \E change \in BOOLEAN : dirty' = [dirty EXCEPT ![f] = @ \/ change]
    /\ UNCHANGED <<poolVars, writing, inFlightMap, inFlightList, entry, callback, down>>

\* The file is untracked whether it was flushed or not.
FlushReturns(t, f) ==
    /\ \E ok \in BOOLEAN : /\ EndFlush(t, f, ok)
                           /\ told' = IF ok THEN told \ {f} ELSE told \cup {f}
    /\ Untrack(f, FALSE)
    /\ UNCHANGED <<poolVars, callback>>

\* A tracker moves on; its entry is garbage once it has ended and is off the map.
Goes(e, pc) ==
    /\ entry' = [entry EXCEPT ![e] = IF pc = "done" /\ inFlightMap[@.file] # e THEN FreeEntry
                                     ELSE [@ EXCEPT !.pc = pc]]

\* inFlightFileInodeDataTracker(): maxFlushTime is over, or a message is there.
Move(e, pc) ==
    /\ Goes(e, pc)
    /\ UNCHANGED <<poolVars, inodeLock, dirty, openLogSegment, closing, flushing, writing,
                   inFlightMap, inFlightList, callback, down, faultVars>>

TrackerTimesOut(e) == entry[e].pc = "wait" /\ Move(e, "lock")

TrackerTold(e) ==
    /\ entry[e].pc = "wait"
    /\ \E flushFirst \in entry[e].control : Move(e, IF flushFirst THEN "lock" ELSE "done")

\* inFlightFileInodeDataFlusher() of a tracker.
TrackerLocks(e) ==
    /\ entry[e].pc = "lock"
    /\ StartFlush(e, entry[e].file)
    /\ Goes(e, "flush")
    /\ UNCHANGED <<poolVars, dirty, writing, inFlightMap, inFlightList, callback, down>>

\* The tracker ends.  Its entry stays in the map.
TrackerEnds(e) ==
    /\ entry[e].pc = "flush"
    /\ \E ok \in BOOLEAN : EndFlush(e, entry[e].file, ok) /\ NobodyTold(entry[e].file, ok)
    /\ Goes(e, "done")
    /\ UNCHANGED <<poolVars, inFlightMap, inFlightList, callback>>

\* chunkedPutConnectionPoolStarvationCallback() takes the first file of the list.
CallbackPicks(g) ==
    /\ starver[g] = "callback" /\ callback[g] = Nobody
    /\ IF down.pc # "up" \/ inFlightList = <<>>
         THEN CallbackReturns(g) /\ UNCHANGED <<callback, inFlightList>>
         ELSE /\ callback' = [callback EXCEPT ![g] = entry[Head(inFlightList)].file]
              /\ inFlightList' = Tail(inFlightList)
              /\ UNCHANGED poolVars
    /\ UNCHANGED <<inodeLock, dirty, openLogSegment, closing, flushing, writing, inFlightMap,
                   entry, down, faultVars>>

CallbackLocks(g) ==
    /\ callback[g] # Nobody
    /\ StartFlush(g, callback[g])
    /\ UNCHANGED <<poolVars, dirty, writing, inFlightMap, inFlightList, entry, callback, down>>

CallbackEnds(g) ==
    /\ callback[g] # Nobody
    /\ \E ok \in BOOLEAN : EndFlush(g, callback[g], ok) /\ NobodyTold(callback[g], ok)
    /\ callback' = [callback EXCEPT ![g] = Nobody]
    /\ CallbackReturns(g)
    /\ UNCHANGED <<inFlightMap, inFlightList, entry>>

-----------------------------------------------------------------------------
(***************************************************************************)
(* Down(): the callback is unset, untrackInFlightFileInodeDataAll() takes  *)
(* the files of the map one by one, and waits for each tracker.            *)
(***************************************************************************)
DownVars == <<poolVars, inodeLock, dirty, openLogSegment, closing, flushing, writing, callback,
              faultVars>>

StartDown ==
    /\ down.pc = "up"
    /\ \A t \in Clients : writing[t] = Nobody /\ \A f \in Files : inodeLock[f] # t
    /\ down' = [down EXCEPT !.pc = "untrack",
                            !.todo = {f \in Files : inFlightMap[f] # NoEntry}]
    /\ UNCHANGED <<DownVars, inFlightMap, inFlightList, entry>>

DownUntracks(f) ==
    /\ down.pc = "untrack" /\ down.awaits = NoEntry /\ f \in down.todo
    /\ Untrack(f, TRUE)
    /\ down' = [down EXCEPT !.todo = @ \ {f}, !.awaits = inFlightMap[f]]
    /\ UNCHANGED DownVars

\* wg.Wait() returns.
DownWaited ==
    /\ down.awaits # NoEntry /\ entry[down.awaits].pc = "done"
    /\ down' = [down EXCEPT !.awaits = NoEntry]
    /\ UNCHANGED <<DownVars, inFlightMap, inFlightList, entry>>

DownReturns ==
    /\ down.pc = "untrack" /\ down.todo = {} /\ down.awaits = NoEntry
    /\ down' = [down EXCEPT !.pc = "done"]
    /\ UNCHANGED <<DownVars, inFlightMap, inFlightList, entry>>

\* What the pool does by itself.
PoolStep ==
    /\ \/ \E u \in Users : Resume(u)
       \/ \E g \in Goroutines : StarvationResolved(g) \/ StarvationTick(g)
       \/ DrainConnectionPool
    /\ UNCHANGED fsVars

ClientStep(t) ==
    \/ WriteOpens(t) \/ WriteRetries(t) \/ WriteFails(t)
    \/ \E full \in BOOLEAN : WriteSends(t, full)

CloseStep(u) == CloseLogSegment(u) \/ CloseFails(u) \/ CloseRetries(u)

TrackerStep(e) == TrackerTimesOut(e) \/ TrackerTold(e) \/ TrackerEnds(e)

CallbackStep(g) == CallbackPicks(g) \/ CallbackEnds(g)

DownStep == (\E f \in Files : DownUntracks(f)) \/ DownWaited \/ DownReturns

Next ==
    \/ \E t \in Clients, f \in Files : WriteLocks(t, f) \/ Flush(t, f) \/ FlushReturns(t, f)
    \/ \E t \in Clients : ClientStep(t)
    \/ \E u \in Users : CloseStep(u)
    \/ \E e \in Entries : TrackerStep(e) \/ TrackerLocks(e)
    \/ \E g \in Goroutines : CallbackStep(g) \/ CallbackLocks(g)
    \/ StartDown \/ DownStep
    \/ PoolStep
    \/ MishapLeft /\ Reload /\ UNCHANGED fsVars

Spec == Init /\ [][Next]_vars

\* Goroutines keep running and timers fire; clients need not start anything.
\* Inode locks are granted in order (package dlm): who waits for one that is
\* free again and again gets it.
FairSpec ==
    /\ Spec
    /\ \A t \in Clients : WF_vars(ClientStep(t))
    /\ \A t \in Clients, f \in Files : WF_vars(FlushReturns(t, f))
    /\ \A u \in Users : /\ WF_vars(CloseStep(u))
                        /\ WF_vars(Resume(u) /\ UNCHANGED fsVars)
    /\ \A e \in Entries : WF_vars(TrackerStep(e)) /\ SF_vars(TrackerLocks(e))
    /\ \A g \in Goroutines :
         /\ WF_vars(CallbackStep(g)) /\ SF_vars(CallbackLocks(g))
         /\ WF_vars((StarvationResolved(g) \/ StarvationTick(g)) /\ UNCHANGED fsVars)
    /\ WF_vars(DownStep)

-----------------------------------------------------------------------------
\* The global list that the starvation callback works through never holds an
\* entry that untrackInFlightFileInodeData() has taken out of the map, and no
\* entry twice.  So Down() does not end in logger.Fatalf(), which it calls when it
\* finds the list non-empty.
ListInMap ==
    /\ \A e \in Range(inFlightList) : inFlightMap[entry[e].file] = e
    /\ \A i, j \in DOMAIN inFlightList : inFlightList[i] = inFlightList[j] => i = j
    /\ down.pc = "done" => inFlightList = <<>>

\* While the volume is up, a file with data that was not flushed, or whose log
\* segments hold or await a connection, is in the hands of a client, is tracked, or
\* a client's last word on it was an error: Flush(), Resize() and the calls on
\* extended attributes untrack a file that they failed to flush, and a Write() that
\* fails marks the file dirty and does not track it.  The flushes of trackers and
\* callbacks, whose errors nobody gets, lose track of nothing.
UnflushedIsKnown ==
    \A f \in Files :
      /\ down.pc = "up" /\ inodeLock[f] \notin Clients
      /\ dirty[f] \/ LogSegments(f) \cap (Holders \cup woken \cup Range(waiters)) # {}
      => inFlightMap[f] # NoEntry \/ f \in told

\* untrackInFlightFileInodeDataAll() is called to flush all current elements of
\* the map: after Down() no file has data that was not flushed.
DownFlushesAll == down.pc = "done" => \A f \in Files : ~dirty[f]

\* Whoever waits for a connection gets one: the starvation callback relieves
\* the exhaustion of the pool.  The code does not achieve this: the callback may
\* wait for the inode lock of a Write() that waits for a connection itself.
WaitersServed == \A u \in Users : u \in Range(waiters) ~> u \notin Range(waiters)
=============================================================================
