# ProxyFS: models and proofs

ProxyFS is a file system kept in OpenStack Swift. This directory holds TLA+
models of its core, the TLC configurations that check them on small instances,
and TLAPS proofs that hold for every value of the constants.

1. The system (inventory)
2. Modules and how they fit together
3. Module by module: state and actions against the code
4. What TLC checks
5. What is proved
6. Where the code and its documentation disagree
7. What is not modelled
8. Plan

## 1. The system

Requests come in through `fuse`, `jrpcfs` (Samba, and Swift's `pfs_middleware`)
and `httpserver`, and go down through

    fs -> inode -> headhunter -> swiftclient -> Swift
      \-> dlm (inode locks)

| Component | State | Operations | What makes it hard |
|---|---|---|---|
| `dlm` | a track per lock: owners, waiters, state, owners list, queue | `WriteLock`, `ReadLock`, `TryWriteLock`, `TryReadLock`, `Unlock`, `IsLockHeld` | grants made on behalf of sleepers, tracks created and deleted under contention |
| `headhunter` | three B+Trees, their layouts, header, nonces, wait group | `Put*`, `Delete*`, `FetchNonce`, `DoCheckpoint`, the checkpoint daemon, mount | crashes between Swift requests, objects deleted by layout counts, errors inside a flush |
| `inode` | cached inodes, extent maps, log segments in flight, payload trees | `Write`, `Flush`, `SetSize`, `Link`, `Unlink`, `Move`, `Destroy`, `Coalesce`, read cache | several records per operation, garbage collection gated by checkpoints, offset arithmetic |
| `fs` | in-flight file inodes, POSIX file locks, inode locks | the POSIX and the middleware operations | lock order, retries, timed flushes racing with writes |
| `swiftclient` | connection pools, chunked PUT contexts, queue of deletes | object, container and account requests, retries | a bounded pool and its starvation callback, retry of a chunked PUT, deletes after a checkpoint |
| `sortedmap` (vendored) | B+Tree nodes, clean or dirty, in memory or not | `Put`, `Flush`, `Prune`, `Touch` | what is dirty decides what a checkpoint writes |
| `ramswift` | accounts, containers and objects in memory | the HTTP methods, injected failures, SIGHUP | handlers that lock one struct at a time while others unlink it |
| `mkproxyfs` | none | `Format()` | empties an account request by request |
| `fuse`, `jrpcfs`, `httpserver`, `proxyfsd` | handles, mounts, jobs | translate requests, start and stop the packages | order of `Up` and `Down` |

How they interact, along the life of a write:

1. `fs.Write()` takes the inode's write lock from `dlm`, calls `inode.Write()`,
   and has the file tracked so that it is flushed within `maxFlushTime`.
2. `inode.Write()` appends the bytes to a log segment, an object of Swift that is
   written by one chunked PUT and therefore holds one connection of a bounded
   pool until it is closed; it records extents (file offset to place in a log
   segment) and counts the bytes of each log segment that are in use.
3. A flush waits for the log segments to be complete, writes the extent map as a
   payload object and the inode record, both through `headhunter`. Log segments
   that are no longer used are deleted, but only after the next checkpoint.
4. `headhunter` keeps the records in B+Trees. A checkpoint appends the dirty nodes
   to new objects, then posts one header to the checkpoint container. A restart
   sees the last header that was posted and nothing else.
5. Objects of Swift are never overwritten: their names are nonces, which
   `headhunter` gives out of reservations that are posted ahead.

What must be right, in the order of importance: no data that a checkpoint refers
to is ever missing (points 3 to 5); a file reads as it was written last (2); inode
locks exclude and are granted (1); names, link counts and parents agree whichever
calls race; what Swift acknowledged is what was sent, retries included (2, 3); connections are neither leaked nor exceeded,
and written data is flushed in time (1, 2). The hazards behind these are listed
with their source lines in `PROJECT.json`.

## 2. Modules and how they fit together

| Module | Models | Used by |
|---|---|---|
| `RWLock` | what `dlm` promises: readers-writer locks | refined by `Dlm` |
| `Dlm` | `dlm/llm.go` | `MCDlm`, `DlmProofs` |
| `DurableStore` | what `headhunter` promises: records that become durable all at once | refined by `Headhunter`; `FileFlush` runs on it |
| `Headhunter` | `headhunter/api_internal.go`, `config.go` | `MCHeadhunter`, `HeadhunterProofs` |
| `FileFlush` | flushing, garbage collection and coalescing in `inode` | `MCFileFlush`, `FileFlushProofs` |
| `ConnectionPool` | the chunked connection pool of `swiftclient/utils.go` | `InFlight` |
| `InFlight` | tracking of unflushed data in `fs`, composed with the pool | `MCInFlight`, `InFlightProofs` |
| `Extents` | extents and byte counts of a file inode | `ReadPlan`, `ExtentsProofs` |
| `ReadPlan` | read plans, and the extents that `Coalesce()` makes | `MCExtents` |
| `Namespace` | the table of inodes, and `inode/dir.go` and `symlink.go` as operators on it | `FsOps` |
| `FsOps` | the operations of `fs` on names and inodes, under inode locks | `Middleware` |
| `Middleware` | the calls of Swift's middleware, among those of `FsOps` | `MCMiddleware`, `MiddlewareProofs` |
| `RamSwift` | `ramswift/daemon.go`, as a server of keep-alive connections | `SwiftClient` |
| `SwiftClient` | requests, retries, chunked PUT and copy of `swiftclient`, `Format()` of `mkproxyfs`, composed with `RamSwift` | `MCSwift`, `SwiftClientProofs`, `ChunkedPutProofs` |

`DurableStore` joins the two largest parts: `Headhunter`, with its objects, headers
and crashes, implements it (a run and a theorem, `StoreRefinement`), and `FileFlush` takes its steps from
it instead of repeating them. `FileFlush` and `Extents` look at the same functions
at two levels: `FileFlush` keeps of an extent map only the set of log segments it
refers to, and has the interleavings, checkpoints and crashes; `Extents` has the
offsets and counts, for one inode under its lock. `ConnectionPool` has its own
`PoolSpec`, and `InFlight` conjoins its actions with those of package `fs`.
`FsOps` takes an inode lock for what `Dlm` shows it to be, a queue served in the order
of arrival. `SwiftClient` has both pools as counters with a stack: how those who wait
for a connection sleep and are woken is in `ConnectionPool`.

Operators defined right before a definition, with a comment that begins "Mutant",
are wrong versions of it. They are used nowhere; replacing the definition by one of
them makes TLC report the property that `PROJECT.json` names with it, which shows
that the property depends on that piece of code.

## 3. Module by module

### Dlm, RWLock (`dlm/llm.go`, `dlm/api.go`)

The variables are the fields of `localLockTrack`, one function per field, indexed by
lock; `call` says what each caller is blocked in, and `held` what was granted to it
(the caller's own knowledge, which the code does not keep). `commonLock()` and
`unlock()` take the track's mutex before they let go of `globals.Lock`, so each
critical section is one action: `Lock` runs up to the grant, the `EAGAIN` of a try
lock or the call of `Cond.Wait()`; `WakeUp` is what a signalled sleeper does;
`Unlock` releases, calls `processLocalQ()` and deletes the track when it was the last
user. `ProcessLocalQ` grants a prefix of the queue, as the loop of the code does.
`removeFromListOfOwners()` gets its slice by value: the track keeps a list of
the old length, which `RemoveFromListOfOwners` models as it is. A caller does not
lock what it owns already; package `fs` never does so on purpose, and the code has
no upgrade.

`RWLock` has the one variable `held`. Its step releases at most one owner and grants
the lock to callers in one mode that is compatible with the owners left.

### Headhunter, DurableStore (`headhunter/api_internal.go`, `config.go`)

Swift is `header` and `objects` (external, modelled from its use: a PUT is complete
or absent, a POST of a header is atomic). The process has the B+Trees (`mem`, the
contents of leaves, `loc`, the object in which each node was last written, 0 for a
dirty node, `stale`, the nodes that `Prune()` has yet to discard, `layout`), the
header it would post (`hdrObject`, `reserved`), `nextNonce`, and the checkpoint under
way (`pc`, `context`, `todo`). `issued` and `promised` remember what was returned to
callers; the code has no such variables.

`volume.Lock()` is held for the whole of `putCheckpoint()`, which is nevertheless cut
into one action per Swift request (`OpenContext`, `PutNode`, `WriteTrailer`,
`PostHeader`, `Collect`), because the process may die (`Crash`) between any two.
`FetchNonceWhileLocked` is called by `FetchNonce` and by `OpenContext`, as in the
code, and posts the header when the reservation is used up. `OpenFails`,
`FetchContextFails` and `CloseFails` are Swift errors in the middle of a flush, each
with the effect the code gives it: `sortedmap` ignores the error of `PutNode()`.
`Mount` is `getCheckpoint()`, `DeleteObject` the delete daemon of `swiftclient`.

Abstractions: a tree is a root over one leaf per page, nodes have length 1, so that
an object's number alone locates a node. Three trees of the code are `NumTrees`.

`DurableStore` has the records in memory, the durable ones, and whether somebody
waits. The mapping takes for `durable` what `getCheckpoint()` would read from Swift,
and for `recs` the trees in memory, or the durable ones while nothing is mounted.

### FileFlush (`inode/file.go`, `file_flusher.go`, `inode.go`, `payload.go`)

`recs`, `durable` and `waiting` are a `DurableStore` with three kinds of keys: inode
records, log segment records, payload objects. `swift` is the set of complete log
segments, `inodeCache` the inodes in memory (extent map as a set of log segments,
`LogSegmentMap`, node of the payload tree, stale nodes, open log segment, log segments
in flight), `op` the progress of the operation each thread runs, `deletes` the queue of
`ObjectDeleteAsync()` with the gate each element waits for.

`Write`, `Flush`, `SetSize`, `Wrote`, `Unlink` and `Coalesce` start an operation under
its inode locks; `FlushInode`, `Prune`, `PutInodeRecs` are `flushInodes()`, one action
per call of `headhunter`, since other threads and the checkpoint daemon run in
between; `DeleteInodeRec` and `Discard` are `Destroy()`; `FetchWaitGroup`,
`DeleteLogSegment`, `SignalWaitGroup` and `DeleteObject` are the garbage collection.
`Crash` keeps Swift and the durable records only.

### ConnectionPool, InFlight (`swiftclient/utils.go`, `fs/api_internal.go`)

`ConnectionPool` has `poolInUse`, the stack of idle connections, the queue of waiters,
those that were signalled, the connection each user holds (with the
`connectionNonce` under which it was opened) and the starvation goroutines with their
channels. `Acquire`, `Resume`, `Release`, `DrainConnectionPool`, `Reload` (SIGHUP) and
the steps of a starvation goroutine are its actions. A release to a waiter hands over
the slot without counting it.

`InFlight` adds package `fs`: `inFlightFileInodeDataMap`, the global list, and one
tracker goroutine per entry with its control channel. A write is `WriteLocks`,
`WriteOpens` (which may wait for a connection while it owns the inode lock),
`WriteSends`; a flush, a tracker and a starvation callback all run `StartFlush` and
`EndFlush`. `Down()` takes the tracked files one by one and waits for their trackers;
requests of clients have ended by then, as `proxyfsd/daemon.go` stops the servers first.

### Extents, ReadPlan (`inode/file.go`)

`extents` is the B+Tree as a function from file offset to the rest of the extent.
`Split`, `Prune` and `Insert` are the three phases of `recordWrite()`, `Truncate` is
`setSizeInMemory()`, `Decrement` and `Increment` the counters of `LogSegmentMap`.
`content` is the reference: an array of bytes that each operation changes in the
obvious way. A byte is the place it came from, so two bytes are equal only if the
code reads the right one.

`ReadPlan` has `getReadPlanHelper()` as a fold over the extents from
`BisectLeft(offset)` on, with the 64-bit arithmetic of the offsets kept (`Word`), and
the extents that `Coalesce()` computes. Both are compared with `content` in every
reachable state of `Extents`.

### Namespace, FsOps, Middleware (`fs/api_internal.go`, `fs/locker.go`, `inode/dir.go`)

`t` is the table of inodes: type, link count, entries, target of a symbolic link,
whether the permission bits let clients in, and whether there is a record in
`headhunter`. `Link`, `Unlink`, `Move` and `Destroy` of `Namespace` are the functions of
package `inode`, each with the condition on which it succeeds. `locks` has the
requests for each inode's lock in the order of arrival, `cl` where each client is.

A call is cut at its lock requests: `Begins` asks for the first lock, and each further
step is taken once the lock was granted. `Rename` tries its second lock and starts
again (`RenameTries`, `RenameAgain`); its `Move()` is cut once more (`RenameReads`,
`RenameWrites`), because it reads the link count of an inode that it has not locked.
The same holds for `Coalesce`. `ResolveLooksUp` and `ResolveGoesOn` are
`resolvePath()`, with the locks its caller has already (`Ensures`); `PutFindsContainer`,
`PutWalks`, `PutMakes` and `PutLinks` are `putObjectHelper()`.

`raced` and `leaked` are history: the inodes whose link count such a race has made
wrong, and the inodes without a name that the code does not destroy. Properties
except them, and only them. Clients name inodes that an earlier lookup may have
given them (`Known`), destroyed ones included.

Abstractions: names are numbers in the order of the strings; owners, times, sizes,
streams and data are left out; calls that read one inode and keep nothing share
`ReadLocks`. After a panic the model stops, as the daemon does.

### RamSwift, SwiftClient (`ramswift/daemon.go`, `swiftclient/*.go`, `mkproxyfs/api.go`)

`node` has the accounts, containers and objects as one kind of struct with a mutex;
a handler (`handler`, one per connection) goes from one to the next, so the struct it
works on may have been unlinked. `wire` is what is under way on a connection: the
body, its end, the reply. `ServeHTTP` is a step of a handler: `DoDelete`, `DoGet`,
`DoHead`, `DoPost`, or the steps of `doPut()`, which holds the object's mutex while it
reads the body. `chaos` counts the requests of which every n-th fails. `UpdateConf` and
`Reloads` are a SIGHUP.

`worker` is a caller of `swiftclient`. `Sends` and `Awaits` are any simple request, with
`TriesAgain` for `RequestWithRetry()`; `FetchesContext`, `SendsChunk`, `RefusesChunk`,
`Closes`, `AwaitsClose` and `Reopens` are a chunked PUT with its `retry()`;
`CopiesChunk` is `objectCopy()`, `Formats` and `FormatsNext` are `Format()`.
Connections break at any moment (`Breaks`, external); a write to a broken one may
go unnoticed, a read fails.

## 4. What TLC checks

Each run is a configuration in this directory; run one with, for example,
`tlc -config MCHeadhunter.cfg MCHeadhunter`.

| Run | Configuration | Instance | Shows |
|---|---|---|---|
| `dlm` | `MCDlm` | 3 callers, 1 lock | first come first served, refinement of `RWLock` (hence exclusion), every request is granted |
| `checkpoint` | `MCHeadhunter` | 2 trees of 1 page, objects of 3 nodes, one reservation of nonces, no Swift errors | a crash at any point leaves a mountable volume; layouts count exactly; clean nodes can be read; refinement of `DurableStore` |
| `checkpoint_live` | `MCHeadhunterLive` | 1 tree, reservations of 2 nonces, 1 Swift error | nonces are fresh, waiters for a checkpoint are woken |
| `checkpoint_reserve` | `MCHeadhunterReserve` | objects of 2 nodes, reservations of 2 nonces | fails, see 6.1 |
| `fileflush` | `MCFileFlush` | 2 threads, 2 inodes, 4 nonces | durable inodes keep their log segments, segments belong to one inode, clean inodes may be evicted, data can be read, records name extent maps that exist |
| `fileflush_live` | `MCFileFlushLive` | 1 thread, 1 inode, 3 nonces, 1 failed PUT | operations return, queued deletes leave the queue |
| `inflight` | `MCInFlight` | 2 files, 2 clients, 1 connection, 1 SIGHUP | pool accounting, starvation goroutines and messages match, map and list of tracked files agree, untracked files are flushed |
| `inflight_down` | `MCInFlightDown` | 2 files, 1 client | fails, see 6.2 |
| `extents` | `MCExtents` | file of 5 bytes, log segments closed at 3 bytes, 3 log segments in use | a file, its read plans and its coalesced copy have the bytes written last; byte counts are exact |
| `volume` | `MCMiddleware` | 2 clients, 2 calls, 4 volumes of up to 6 inodes | names, link counts and parents agree, inodes are not lost, locks are taken downwards and given back |
| `volume_put` | `MCMiddlewarePut` | the same | fails, see 6.3 |
| `swift` | `MCSwift` | 2 callers, 29 starts, 1 retry, pools of 1, 1 broken connection | success means stored, connections and retries are accounted for, every call returns |

### The properties

Invariants that section 5 proves for every instance are in a run only where they
stand for their proof (`NoncesFresh`, `SlotsExact`, `DataAsWritten`), and type invariants
are in none; all of them hold in the configurations above.

*Locks.* `ImplementsRWLock`, `NoOvertaking` (a queued request is not passed by a later
one), `EveryRequestGranted`. Proved: `MutualExclusion`, `NoPanic` (an unlock finds its
track and an owner), `CountsExact` (`owners` and `waiters` are the numbers of owners and
sleepers), `NoLostWakeup` (the head of a queue waits for an owner, never for nobody).

*Checkpoints.* `DurableReadable` says that the header in Swift leads to complete
trees; `CleanNodesExist` that a node which memory believes to be in Swift is there;
`LayoutExact` that layouts, by which objects are deleted, count nodes exactly;
`CheckpointDurable` that after `putCheckpoint()` memory and Swift agree; `NoncesFresh`
that no nonce is returned twice, crashes included; `WaitGroupSignalled` that whoever
waits for a checkpoint is woken.

*File data.* `DurableSegmentsKept`: every log segment of a durable inode is in Swift
and has its record. `SegmentsNotShared`: at most one durable inode has it.
`CleanMatchesStore`: a clean inode that nobody holds is in `headhunter` as it is in
memory. `DataReadable`: what a file in memory refers to is in Swift or in flight, or
the file keeps failing to flush. `PayloadKept`: an inode's record names an extent map
that exists, but for the window of 6.5 and what a crash brings back of it.
`OperationsReturn`, `DeletesHappen`.

*Pool and tracking.* `SlotsExact`, `StarversMatch`, `ListInMap`, `UntrackedIsFlushed`.
Proved: `ConnectionsBounded`, `IdleConnectionsCurrent`.

*Extents.* `DataAsWritten`, `BytesCounted`, `ReadPlanExact`, `CoalesceExact`. Proved:
`NoOverlap`, `ExtentsInFile`.

*Names.* `LinkCountsMatch`, `DotDotIsParent`; `EntriesRefer` (no entry refers to a
destroyed inode, and `Move()` never panics after the checks of `Rename()`); `NoInodeLost`
(no inode without a name but those in the hands of a call and the known leaks);
`NoLockLeft` (a call that has returned has no lock); `LockOrderIsDownward` (calls wait
for one another in a circle only if one of them goes up the tree, is `SetXAttr()` or
fetches elements of a `Coalesce()`, and never if all are `Coalesce()`);
`OnlyHoldersChange`; `NonEmptyDirsStayOtherwise` (no call but `Coalesce()` takes the
name of a directory with entries).

*Swift.* `ClosedMeansStored` (a successful `Close()` stands for every chunk, once, in
order, and a copy for the bytes of its source); `ConnectionsAccounted` (a connection has
one owner and is given back once, and no reply is to come on one that waits in a pool);
`ReadsBack`; `GivesUpLast` (exactly the configured number of retries); `FormatEmpties` and
`StaysStored`, for a caller beside whom nobody changes anything; `CallsReturn`. Three of
these have exceptions, see 6.9 to 6.11.

### Bounds, and why they are enough

- `dlm`: three callers give a reader and a writer in the queue behind an owner, the
  smallest case where a prefix is granted and something is left. Tracks do not
  interact. `MaxList` bounds the owners list, which the code lets grow while a track
  is contended; the proofs hold for every bound.
- `checkpoint`: `MaxNonce` bounds how many checkpoints a behaviour may have. With 5
  nonces there are several, an object goes out of use and is deleted, and the volume
  is mounted again after crashes. Two trees are the fewest for which "no tree uses
  the object" differs from "one tree does not". The reservation covers all nonces,
  because of 6.1, and there are no Swift errors, because of 6.4; `checkpoint_live`
  has both, in the smallest form.
- `fileflush`: two inodes are needed for `Coalesce()` (one element and the result) and
  for operations that overlap; four nonces allow two log segments and two payload
  objects, hence a rewrite and its garbage collection. `MaxErrors` bounds failed PUTs.
- `inflight`: with one connection two files already compete, and a writer may wait
  while it owns an inode lock. `MaxSegments` bounds the log segments of a file that
  are open or closing; `MaxEntries` the tracker entries in use, old ones included.
- `extents`: in five bytes one extent can have a neighbour on each side, with a hole
  between two of them, and be split in three. `Word` stands for 2^64 and is more than
  twice the file size, so that an addition wraps only where it does in the code.
- `volume`: two calls are enough for every pair of operations to race, with every
  interleaving of their lock requests; longer histories are in the initial volumes (a
  file with two names, two directories, a tree of depth 3, symbolic links up and to the
  top), which are built with the operators of `Namespace`. `MaxInode` leaves room for
  the inodes that both calls make. Races of three calls are beyond the instance.
- `swift`: a start fixes what the server stores and the calls of each worker, so that a
  PUT, a copy or a reformat meets each kind of request, a second PUT, or a SIGHUP.
  `MaxBreaks` and `RetryLimit` are 1: one failure that is retried, or with an injected one
  two, after which the call gives up. Three connections are one per pool and one that was
  abandoned. `Long` has a name that makes a listing chunked; `CopySizes` has a chunk within
  the object and one that reaches beyond it.
- Symmetry is used for sets of model values that no property singles out, and never
  with a liveness property.

Deadlock is checked in `dlm`, `checkpoint`, `fileflush`, `fileflush_live` and
`extents`. It is not in `checkpoint_live`, where a behaviour ends when the nonces of
the model are used up, nor in the `inflight` runs, where everything ends with `Down()`, nor in `volume` and
`swift`, where the number of calls is bounded; circles of waiting calls are what
`LockOrderIsDownward` and `CallsReturn` are about.

### Fairness

Weak fairness of the steps of goroutines that are running: the Go scheduler runs
what can run, Swift answers, timers fire. Nothing forces a client to start an
operation, or the process to die. In particular:

- `Dlm`: a signalled sleeper wakes up, and owners unlock: every operation of `fs`
  unlocks on each of its return paths.
- `Headhunter`: the daemon starts a checkpoint (its timer) and finishes it.
- `FileFlush`: `SignalWaitGroup` has strong fairness. In the code the daemon signals
  under the lock under which it wrote the checkpoint, so that puts which come between
  the two in the model cannot hold it up forever.
- `InFlight`: taking an inode lock has strong fairness, because `dlm` grants locks in
  the order of arrival (`NoOvertaking`).
- `SwiftClient`: each caller in a call, each handler of ramswift and a reload that has
  begun go on. Nobody is made to call, to send a SIGHUP or to break a connection.

## 5. What is proved

TLAPS checks the following for every value of the constants that satisfies the named
assumptions of the modules. `tlapm DlmProofs.tla` and so on rechecks them.

**DlmProofs** (any set of locks, any finite set of callers). `InductiveInvariant`
proves `IInv`; from it follow `TypeCorrect`, `Exclusion` (`MutualExclusion`),
`UnlockNeverPanics` (`NoPanic`), `CountsAreExact` (`CountsExact`) and `WakeupsKept`
(`NoLostWakeup`). None of these is inductive alone: exclusion needs the queue, since
grants are made from it, and the queue needs the counts. `IInv` therefore says for
each track that the owners count and the state are those of the callers who were
granted the lock, that queued callers are distinct, own nothing and are blocked in a
call on this lock, and that the head of the queue is blocked by an owner. The heart is
`ProcessPreserves`: `processLocalQ()` keeps this whatever track it starts from.

In the same module `Refinement` proves `ImplementsRWLock`: an
`Unlock` maps to a release followed by grants, every other critical section to grants
or a stutter. The lemma `ProcessRefines` does the work, for any track: the callers
that `processLocalQ()` grants are either one writer that finds the lock free or readers
that find no writer. `ArrivalOrder` proves `NoOvertaking`, from `ProcessInOrder`: what
is granted is a prefix of the queue.

**HeadhunterProofs** (any number of trees, pages, crashes and Swift errors, any size
of reservation). `NoncesNeverRepeat` proves `NoncesFresh`. The invariant adds that
while a volume is served the reservation in memory is the one in Swift and
`nextNonce` does not pass it. It holds although the header's object number may be
wrong at that time (6.1).

The results about checkpoints in the same module hold for any number of trees and
values, any finite set of pages, any size of objects and reservations, any number of
crashes (`NodeAssumption`: at least one tree, and pages that differ from the root).
`VolumeMountable`, `CleanNodesReadable`, `LayoutsCount`, `CheckpointsDurable` and
`StoreRefinement` prove `DurableReadable`, `CleanNodesExist`, `LayoutExact`,
`CheckpointDurable` and `ImplementsDurableStore`. All of them are under the hypothesis
`[]NoFault`, and each half of it is needed: no PUT fails inside `Flush()` (else 6.4),
and no reservation of nonces is posted between two objects of one checkpoint (else
6.1; the run `checkpoint_reserve` has such a behaviour). A checkpoint of one object,
whatever the reservation, satisfies the second half by itself.

The invariant `IInv` has three parts besides the types and the nonces. `DurableInv`: the header names
an object with a trailer, every node that the trailer leads to is in an object for
which no delete is queued, and the trailer's layouts count those nodes. `MemoryInv`:
every clean node is in such an object or in the one under construction, a clean root
has clean pages, and the layouts in memory count the nodes in use and the stale ones.
`PhaseInv` says for each phase of `putCheckpoint()` what memory and Swift have in
common. Its central clause is `DurableCounted`: until the next header is posted, a
node of the durable trees is in use or stale. Without it nothing would keep `Collect`
from an object that the posted header still needs. There is one lemma per action
(`PutNodeKeeps`, `PostHeaderKeeps`, `CollectKeeps` and so on), and TLC has checked
`IInv` on the instance of the run `checkpoint` as well.

**InFlightProofs** (any finite set of users and goroutines, any files, clients and
entries, any capacity). `SlotsCounted`, `PoolNeverOverflows`, `OldConnectionsClosed`
prove `SlotsExact`, `ConnectionsBounded` and `IdleConnectionsCurrent` of `PoolSpec`.
They are inductive together with `Apart`: a user is in one place only, in the queue and
there once, woken, or with a connection. `StarversEnd` proves `StarversMatch`, from
`StarverInv`: starvation is under way exactly while somebody sleeps, so that a release
that empties the queue sends one message and the next sleeper starts one goroutine. `UsesPool` proves that the composition,
`Spec` of `InFlight`, implements `PoolSpec`, so that all of this holds of the log
segments of files.

`ListFollowsMap` and `UntrackedFilesFlushed` prove `ListInMap` and `UntrackedIsFlushed`
of the composition. The second says of a file without lock and without entry that
nothing is left to flush. This alone is not inductive, since `Flush()` untracks a file
while its log segments are being closed and other goroutines may flush it at the same
time. `FsInv` adds what makes it so. `FileOK`: whoever has or awaits a connection for a
file is its open log segment or one that is being closed, and a file under flush is
locked and has no open log segment. `ClientOK`: who writes owns the lock. `TrackInv`: the
map leads to entries of its own files, and the list has each of them once. `DownInv`: what
the map still holds is what `Down()` has yet to untrack.

**FileFlushProofs** (any sets of threads, inodes and numbers, any number of crashes; `NoneAssumption`: the value that stands for nothing is
none of the others). `FileInvariant` proves the inductive invariant `IInv`, and from it
`DurableFilesWhole` (`DurableSegmentsKept`), `SegmentsHaveOneOwner`
(`SegmentsNotShared`), `CleanCanBeEvicted` (`CleanMatchesStore`), `WrittenDataReadable`
(`DataReadable`), `ExtentMapsKept` (`PayloadKept`) and `TypeCorrect`. `UsesDurableStore`
proves `Spec => Store!Spec`: package `inode` asks of the store only what `DurableStore`
promises, which is what `StoreRefinement` shows of `headhunter`.

The argument is one of ownership. `OwnInv`: every log segment belongs to one inode, to
one operation that is about to delete it, or to the delete queue. `RecInv`: what the
record of an inode names belongs to that inode, except while a flush is under way, when
it may belong to any inode the same operation has locked or to its list of empty
segments; this is what lets `Coalesce()` move segments before any record is put.
`GcInv`: what may be deleted now is named by no durable record. That one holds because
`PutInodeRecs` comes before the wait group is fetched and the deletes it gates become
possible only after the next checkpoint, whose records no longer name the segment. `InodeOK`
says how memory and records agree for one inode, `PayInv` that payload objects have one
owner, and `StoreOK` that records, those of the process and those of the last
checkpoint, are whole, so that a crash leads to a state in which all this holds again.
TLC has checked `IInv` on the instance of the run `fileflush` as well.

**ExtentsProofs** (any file size, any set of log segments, any `maxFlushSize`).
`ReadsLastWrite`, `ExtentsDisjoint` and `ExtentsEndWithFile` prove `DataAsWritten`,
`NoOverlap` and `ExtentsInFile`. One lemma each for `Split`, `Prune`, `Insert` and
`Truncate` says which bytes are where afterwards, given extents that do not overlap;
that the code looks at one preceding extent only is right for that reason.
`LogSegmentsCounted` proves `BytesCounted`. `SumOfSizes` shows by induction over subsets
that a sum over sets without common elements is the size of their union. Extents that do not
overlap are such sets, so `LogSegmentMap` counts bytes of the file, and what happens to
those the lemmas above say. The induction takes a minimal counterexample
(`WFMin`) instead of an induction theorem with a predicate as parameter.

**MiddlewareProofs** (any clients, inodes and names, any number of calls, no assumption
on the constants). `CallsReturnTheirLocks` proves `NoLockLeft`: whatever a call of `fs`
met on its way, it has no lock and waits for none when it returns. The property speaks
of idle clients only. `LocksInv` says for each place in a call in which inodes the client
has requests, and it does so by bounding them from above (`Bounded`): nowhere but in the
inodes that the `Unlock()`s still to come are for. That is inductive because a step of
one client leaves the requests of the others as they are and in their order
(`Undisturbed`), which is shown of the operators on queues first (`WithoutOthers`,
`AppendOthers`, `CutOthers`). Two places need more. `resolvePath()` gives back only the last
request for a directory it meets twice, so that `Resolves` adds for `MiddlewareDelete()`
that there is one request at most where one is given back, and that it is exclusive. The
calls that give back everything they have need no bound.

**SwiftClientProofs** (any number of calls, failures and breaks; `SwiftAssumption`: a
finite set of callers, numbered connections, a natural `RetryLimit`, and plans made of the
known kinds of calls, a chunked PUT being of an object and with a list of chunks). `ConnectionsGoBack` proves `ConnectionsAccounted` and
`TriesAreUsedUp` proves `GivesUpLast`. The invariant `SwiftInv` has two parts. `Placed`
says for each place in a call which connections it holds, in particular that a failed PUT
reaches `Close()` with a connection or with an error, which is what `closeHelper()`
goes by. `PoolInv` says that connections held or pooled are open or broken, never closed
or unused, so that a new connection is nobody's, and that no reply comes before the
handler has ended, so that a connection on which the reply was read is quiet when it goes back.
One lemma per kind of step on a connection (`WriterStep`, `DiscardStep`,
`StayStep` and so on) keeps the accounts; the lemmas on the steps of a caller cite them.

**ChunkedPutProofs** (the same assumption). `PutsAreStored` proves `PutsStored`, which is
what `ClosedMeansStored` says of `Close()`: success means that the server has acknowledged
one PUT with every chunk, each once and in order, whatever the tries before it met. The
invariant `PutInv` follows the bytes. `Given`: the chunks kept in `bytesPutTree` are those
the caller has given to `SendChunk()`. `Carries`: on a connection that works, for a caller
that remembers no error, the body so far is the concatenation of these chunks, it ends only when
`closeHelper()` has ended it, the handler serves the PUT of an object, and a reply of
success stands for the whole body. `Putting`: whoever is in `closeHelper()` or `retry()`
has all chunks, or a chunk was refused and `closeHelper()` fails for good; that is why
`Close()` must not call `retry()` after `SendChunk()` has refused one. A step of the
server needs `SwiftInv`, since a connection with two owners would carry the chunks of
both. `Concat` is a recursive function; `ConcatJoins` and `ConcatAppend` show by induction
on its length (`NatInduct`, from `WFMin`) what it is for a list of any length. TLC has
checked `PutInv` on the instance of the run `swift` as well.

Only model-checked:

- liveness (`EveryRequestGranted`, `WaitGroupSignalled`, `OperationsReturn`,
  `DeletesHappen`, `CallsReturn`): fairness and `ENABLED` are beyond the prover;
- `ReadPlanExact` and `CoalesceExact`, which fold a sorted sequence of extents: what the
  fold computes for every file needs an induction along a sequence that the library picks
  by `CHOOSE`, which was not attempted;
- `LinkCountsMatch`, `EntriesRefer`, `NoInodeLost`, `DotDotIsParent`, `OnlyHoldersChange`
  and `NonEmptyDirsStayOtherwise`: they need to know, at each step of each call, which inodes it holds
  exclusively and what the calls that do not lock (6.8) may have changed under it.
  `MiddlewareProofs` shows where a call has requests, not yet that they were granted;
- `LockOrderIsDownward`, which is about circles in a graph of calls;
- the half of `ClosedMeansStored` about `ObjectCopy()`, `FormatEmpties` and
  `StaysStored`, which relate what one call was told to the tree of the server over many
  requests, while no other caller changes it;
- `ReadsBack`, whose bisection picks chunks by `Min` and `Max` of sets of positions.

## 6. Where the code and its documentation disagree

The first three have a run that fails with a short counterexample.

1. `checkpoint_reserve`: the number of an object of a checkpoint under way is in the
   header that a reservation of nonces posts (`headhunter/api_internal.go:663`, 1049).
   If the checkpoint takes several objects, a crash before its end leaves a header
   that names an object without a trailer. `docs/checkpoint.uml:20` computes a new
   header from the last one posted.
2. `inflight_down`: a tracker that ends on its timer leaves its entry in the map, so a
   later `Write()` starts no tracker and `Down()` does not flush the file
   (`fs/api_internal.go:193`), although that is what `Down()` calls it for (line 109).
3. `volume_put`: `fetchInodeType()` is to return `NotFoundError` for an inode that is not
   allocated and dereferences it instead (`inode/inode.go:230`). A middleware PUT reaches
   it: the container is looked up, and may be removed before its inode is locked
   (`fs/api_internal.go:1676`, 1696).

The others have no run of their own. The models contain the behaviour, and the
properties that hold name it as an exception or are checked without it:

4. `sortedmap` drops the error of `PutNode()`, so that `putCheckpoint()` posts a header
   over trees with unwritten nodes and wakes those who wait for it, which the comment at
   `headhunter/api_internal.go:756` excludes. With `MaxErrors = 1` in `MCHeadhunter.cfg`
   TLC refutes `CheckpointDurable`.
5. The old payload objects are deleted before the inode record that names them is
   replaced (`inode/inode.go:308`, 432). A checkpoint in between makes an inode durable
   whose extent map is gone; `docs/flush.uml:84` says "atomically". `PayloadKept` without
   its last disjunct fails in `MCFileFlush`.
6. The starvation callback may wait for the inode lock of a writer that waits for a
   connection itself; it is then not called "continually ... until the exhauted state is
   relieved" (`swiftclient/api.go:38`). `WaitersServed` fails under `FairSpec` of `InFlight`.
7. `Coalesce()` takes a directory with a link count of 2 for empty (`inode/file.go:896`,
   "can't remove a non-empty dir"), so that one that holds files is replaced and they are
   lost. `NonEmptyDirsStay` of `Middleware` fails.
8. `Rename()` does not lock what it moves and replaces (a TODO at `fs/api_internal.go:2193`)
   and may write back an old link count. It does not destroy a file it replaces;
   `putObjectHelper()` does not either, as the lookup is into a shadowed variable (1821).
9. `ramswift` ignores the error of `ReadAll()` (`ramswift/daemon.go:1031`): a body that was
   cut off is stored, possibly after the PUT was repeated. `StaysStored` is therefore
   stated for behaviours in which no connection breaks.
10. `accountGet()` does not read a listing in chunked encoding (a TODO in
    `swiftclient/account.go`), so that `mkproxyfs` would take a long list for an empty one
    ("consider it empty only if no containers therein", `mkproxyfs/api.go:113`).
    `FormatEmpties` is stated for lists that need no chunked encoding.
11. A GET of a range behind the end of an object makes the handler of `ramswift` panic with
    the object's mutex locked. `CallsReturn` excepts it (`MutexLost`).
12. Calls that go up the tree deadlock with those that go down: `readdirHelper()` with "..",
    a symbolic link with "..", `Coalesce()` with its elements. `SetXAttr()` with a flag
    waits for itself (`fs/api_internal.go:2717`).

Some definitions state what a comment asks for and are not part of a run:
`IsLockHeldSound` and `TryNeverBlocks` of `Dlm`, `NoncesSkipReserved` of `Headhunter`
(a formatted volume gives out nonce 1, the root directory's inode number, against
`headhunter/config.go:17`), `WaitersServed` of `InFlight` and `NonEmptyDirsStay` of
`Middleware`.

Noted while reading, in code not modelled: the lengths computed by `Flock()` when it
merges and splits ranges (`fs/api_internal.go:426`, 441, 547); `Validate()` of a mount
calls itself (2887); `validateFileExtents()` rejects a hole (`inode/inode.go:1361`);
`capReadCache()` never shortens the map it measures (`inode/file_flusher.go:16`).

## 7. What is not modelled

- Byte-range locks, the read cache, container provisioning, validation and the tree walk:
  see the plan.
- Streams, the values of extended attributes, times and owners: data that no property
  tells apart. `MiddlewareGetContainer()` and `MiddlewareGetAccount()`, which only list.
- Two readers that fetch the same inode into the cache at once (`inode/inode.go:217`).
- `jrpcfs`, `fuse`, `httpserver`, `pfs_middleware`: they translate requests and keep no
  state of the file system.
- Swift itself is external. In `Headhunter` and `FileFlush` it is modelled from its use
  (complete objects, atomic header POSTs); in `SwiftClient` its place is taken by
  `ramswift`, whose code is in the repository.
- Delays and their growth between retries, and the timeout of swiftclient, which the code
  does not enforce.
- `sortedmap` beyond what decides durability (dirty, clean and stale nodes, `Flush`,
  `Prune`, `Discard`): balancing and node layout are vendored code.
- Version 1 headers of `headhunter`, workout and cleaning tools, logging, statistics,
  configuration parsing.

`PROJECT.json` lists every part with its status and reason.

## 8. Plan

1. `Flock`: the lists of `fs/api_internal.go:333-629` against a table of owners per byte
   as fcntl(2) describes it, with the width of `Start + Len` kept; two callers under a
   read lock.
2. `ReadCache`: cache lines under concurrent misses and a changing capacity; with it the
   race of two readers that miss the inode cache.
3. Container provisioning and validation.
4. Proofs: `LinkCountsMatch` and `DotDotIsParent` for any number of clients.
