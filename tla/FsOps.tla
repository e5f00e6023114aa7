-------------------------------- MODULE FsOps --------------------------------
(***************************************************************************)
(* The operations of a mounted volume (fs/api_internal.go) on inodes,      *)
(* directories and names, by concurrent clients, under the inode locks of  *)
(* fs/locker.go.                                                           *)
(*                                                                         *)
(* An inode lock is the queue of its requests in arrival order: package    *)
(* dlm grants the longest prefix of shared requests, or one exclusive      *)
(* request at the head (module Dlm).  A client is a thread in a call; its  *)
(* record says where it is.  Between two lock requests a call is one step  *)
(* where it only touches what it has locked, but for the flush that ends   *)
(* Link(), Move() and Coalesce(): what it records others may have changed  *)
(* meanwhile, and it may fail.                                             *)
(***************************************************************************)
EXTENDS Namespace

CONSTANTS
    Clients,
    Volumes,   \* tables of inodes that earlier calls have left
    MaxCalls   \* bound of the model on the number of calls

VARIABLES
    t,       \* the inodes of the volume, cached and recorded
    locks,   \* the requests for each inode's lock
    cl,      \* what each client is doing
    calls,   \* the number of calls so far
    spoilt,  \* history: inodes with a LinkCount or a name, in the cache or in
             \* headhunter, that a race or a failed flush has left wrong
    leaked   \* history: inodes without a name that were not destroyed

vars == <<t, locks, cl, calls, spoilt, leaked>>

Idle == [pc |-> "idle"]

-----------------------------------------------------------------------------
\* ReadLock(), WriteLock(), TryWriteLock() and Unlock() of package dlm.
Requests(L, c, i, m) == [L EXCEPT ![i] = Append(@, [c |-> c, m |-> m])]

\* A queue without the requests of c.
Without(q, c) ==
    LET kept[k \in 0..Len(q)] ==
          IF k = 0 THEN <<>>
          ELSE IF q[k].c = c THEN kept[k - 1] ELSE Append(kept[k - 1], q[k])
    IN  kept[Len(q)]

Releases(L, c, i) == [L EXCEPT ![i] = Without(@, c)]

IsGranted(q, k) == k = 1 \/ \A j \in 1..k : q[j].m = "shared"

Granted(c, i) ==
    \A k \in DOMAIN locks[i] : locks[i][k].c = c => IsGranted(locks[i], k)

HoldsExclusive(c, i) ==
    locks[i] # <<>> /\ locks[i][1] = [c |-> c, m |-> "exclusive"]

NotBusy(i) == locks[i] = <<>>

MayBegin(c) == cl[c] = Idle /\ calls < MaxCalls

\* Client c, which may begin a call, asks for the lock of i.
Begins(c, i, m, rec) ==
    /\ calls' = calls + 1
    /\ locks' = Requests(locks, c, i, m)
    /\ cl' = [cl EXCEPT ![c] = rec]
    /\ UNCHANGED <<spoilt, leaked>>

At(c, pc) == cl[c].pc = pc

\* The inodes that calls have made and not linked yet ("new"), and those they
\* have unlinked and still have to deal with ("old").
InHand(f) == UNION {cl[c][f] : c \in {x \in Clients : f \in DOMAIN cl[x]}}

Unlinked == InHand("new")

\* The inodes a client may name in a call, from an earlier lookup.
Known == Allocated(t) \ (Unlinked \cup leaked)

\* As a directory it names one: the type of an inode never changes.
KnownDirs == {d \in Known : t[d].type = "dir"}

\* Client c returns, and its deferred Unlock()s are run.
Returns(c, held) ==
    /\ cl' = [cl EXCEPT ![c] = Idle]
    /\ locks' = [i \in Inodes |->
                   IF i \in held THEN Releases(locks, c, i)[i] ELSE locks[i]]

-----------------------------------------------------------------------------
\* The calls that lock one inode shared, look at it, and return what they saw
\* or an error; the result is not kept.
ReadLocks(c) ==
    MayBegin(c) /\ \E i \in Known :
      /\ Begins(c, i, "shared", [pc |-> "read", i |-> i])
      /\ UNCHANGED t

Getstat(c) == ReadLocks(c)
GetType(c) == ReadLocks(c)
GetXAttr(c) == ReadLocks(c)
ListXAttr(c) == ReadLocks(c)
IsDirCall(c) == ReadLocks(c)
IsFileCall(c) == ReadLocks(c)
IsSymlinkCall(c) == ReadLocks(c)
LookupCall(c) == ReadLocks(c)
Readsymlink(c) == ReadLocks(c)
Read(c) == ReadLocks(c)

ReadReturns(c) ==
    /\ At(c, "read") /\ Granted(c, cl[c].i)
    /\ Returns(c, {cl[c].i})
    /\ UNCHANGED <<t, calls, spoilt, leaked>>

\* The calls that lock one inode exclusively, change it and flush it.  Resize()
\* changes the size and the streams calls the streams, which the table leaves
\* out; Setstat() sets the times, the size, the owner and the mode in this
\* order, each with a flush of its own, and stops at the first that fails.
Flushes(i) == t' \in {t, Flush(t, {i})}

WriteLocks(c, op) ==
    MayBegin(c) /\ \E i \in Known :
      /\ Begins(c, i, "exclusive", [pc |-> op, i |-> i])
      /\ UNCHANGED t

Resize(c) == WriteLocks(c, "write")
RemoveXAttr(c) == WriteLocks(c, "write")

WriteReturns(c) ==
    /\ At(c, "write") /\ Granted(c, cl[c].i)
    /\ Flushes(cl[c].i)
    /\ Returns(c, {cl[c].i})
    /\ UNCHANGED <<calls, spoilt, leaked>>

Setstat(c) ==
    LET i == cl[c].i IN
    \/ WriteLocks(c, "Setstat")
    \/ /\ At(c, "Setstat") /\ Granted(c, i)
       /\ \/ Flushes(i)
          \/ /\ Access(t, i, "P_OK")
             /\ \E open \in BOOLEAN :
                  LET set == SetPermMode(t, i, open)
                  IN  t' \in {set, Flush(set, {i})}
       /\ Returns(c, {i})
       /\ UNCHANGED <<calls, spoilt, leaked>>

\* With the create or replace flag SetXAttr() calls GetXAttr(), which asks for
\* the lock SetXAttr() holds under a caller ID of its own: the request is never
\* granted, and no step of the client follows.
SetXAttr(c) ==
    LET i == cl[c].i IN
    \/ WriteLocks(c, "SetXAttr")
    \/ /\ At(c, "SetXAttr") /\ Granted(c, i)
       /\ \/ Flushes(i) /\ Returns(c, {i})
          \/ /\ Access(t, i, "W_OK")
             /\ locks' = Requests(locks, c, i, "shared")
             /\ cl' = [cl EXCEPT ![c].pc = "SetXAttrGets"]
             /\ t' = t
       /\ UNCHANGED <<calls, spoilt, leaked>>

-----------------------------------------------------------------------------
\* Mutant: the new inode is not destroyed when Link() fails.
LinkOnly(c, t1, d, n, i) ==
    LET can == Access(t1, d, "W_OK") /\ CanLink(t1, d, n, i) IN
    \/ /\ can
       /\ t' = AddDirEntry(PreFlush(t1, i), d, n, i)
       /\ cl' = [cl EXCEPT ![c] = [pc |-> "MadeFlushes", d |-> d, new |-> {i}]]
       /\ locks' = locks
    \/ /\ can => t1[i].type = "file"
       /\ t' = t1
       /\ Returns(c, {d})

\* Create() locks the directory first; Mkdir() and Symlink() make the inode
\* first.  When there is no access to the directory, or Link() fails, the new
\* inode is destroyed.  The flush of a file before it is linked may fail.
LinkOrDestroy(c, t1, d, n, i) ==
    LET can == Access(t1, d, "W_OK") /\ CanLink(t1, d, n, i) IN
    \/ /\ can
       /\ t' = AddDirEntry(PreFlush(t1, i), d, n, i)
       /\ cl' = [cl EXCEPT ![c] = [pc |-> "MadeFlushes", d |-> d, new |-> {i}]]
       /\ locks' = locks
    \/ /\ can => t1[i].type = "file"
       /\ t' = Destroy(t1, i)
       /\ Returns(c, {d})

\* The flush that ends Link(): when it fails the name is in the directory, and
\* in its next record, but the inode is destroyed all the same.
MadeFlushes(c) ==
    LET r == cl[c] IN
    /\ At(c, "MadeFlushes")
    /\ \E i \in r.new :
         \/ t' = Flush(t, {r.d, i}) /\ spoilt' = spoilt
         \/ /\ t' = Destroy(t, i)
            /\ spoilt' = spoilt \cup {i} \cup Range(t[i].ents)
    /\ Returns(c, {r.d})
    /\ UNCHANGED <<calls, leaked>>

Create(c) ==
    \/ MayBegin(c) /\ \E d \in KnownDirs, n \in Names :
         /\ Begins(c, d, "exclusive", [pc |-> "Create", d |-> d, n |-> n])
         /\ UNCHANGED t
    \/ /\ At(c, "Create") /\ Granted(c, cl[c].d)
       /\ \/ /\ ~Access(t, cl[c].d, "W_OK") /\ t' = t
             /\ Returns(c, {cl[c].d})
          \/ /\ Access(t, cl[c].d, "W_OK") /\ CanAllocate(t)
             /\ LinkOrDestroy(c, CreateFile(t), cl[c].d, cl[c].n, NextInode(t))
       /\ UNCHANGED <<calls, spoilt, leaked>>

Made(c, t1) ==
    /\ MayBegin(c) /\ CanAllocate(t)
    /\ \E d \in KnownDirs, n \in Names :
         Begins(c, d, "exclusive",
                [pc |-> "Link", d |-> d, n |-> n, new |-> {NextInode(t)}])
    /\ t' = t1

LinksMade(c) ==
    /\ At(c, "Link") /\ Granted(c, cl[c].d)
    /\ \E i \in cl[c].new : LinkOrDestroy(c, t, cl[c].d, cl[c].n, i)
    /\ UNCHANGED <<calls, spoilt, leaked>>

Mkdir(c) == Made(c, CreateDir(t))

Symlink(c) == \E target \in Targets : Made(c, CreateSymlink(t, target))

\* fs.Link(): the target's type is looked at under its lock, which is given up
\* to take the directory's lock first.  When the last flush fails the name stays
\* in the directory.
LinkCall(c) ==
    LET r == cl[c] IN
    \/ MayBegin(c) /\ \E d \in KnownDirs, i \in Known, n \in Names :
         /\ d # i
         /\ Begins(c, i, "exclusive",
                   [pc |-> "LinkType", d |-> d, n |-> n, i |-> i])
         /\ UNCHANGED t
    \/ /\ At(c, "LinkType") /\ Granted(c, r.i)
       /\ IF t[r.i].live /\ t[r.i].type # "dir"
            THEN /\ locks' = Releases(locks, c, r.i)
                 /\ cl' = [cl EXCEPT ![c].pc = "LinkDrops"]
            ELSE Returns(c, {r.i})
       /\ UNCHANGED <<t, calls, spoilt, leaked>>
    \/ /\ At(c, "LinkDrops")
       /\ locks' = Requests(locks, c, r.d, "exclusive")
       /\ cl' = [cl EXCEPT ![c].pc = "LinkDir"]
       /\ UNCHANGED <<t, calls, spoilt, leaked>>
    \/ /\ At(c, "LinkDir") /\ Granted(c, r.d)
       /\ locks' = Requests(locks, c, r.i, "exclusive")
       /\ cl' = [cl EXCEPT ![c].pc = "LinkBoth"]
       /\ UNCHANGED <<t, calls, spoilt, leaked>>
    \/ /\ At(c, "LinkBoth") /\ Granted(c, r.i)
       /\ \/ /\ Access(t, r.d, "W_OK") /\ CanLink(t, r.d, r.n, r.i)
             /\ t' = AddDirEntry(PreFlush(t, r.i), r.d, r.n, r.i)
             /\ cl' = [cl EXCEPT ![c].pc = "LinkFlushes"]
             /\ locks' = locks
          \/ /\ Access(t, r.d, "W_OK") /\ CanLink(t, r.d, r.n, r.i)
                => t[r.i].type = "file"
             /\ t' \in {t, IF Access(t, r.d, "W_OK") THEN PreFlush(t, r.i) ELSE t}
             /\ Returns(c, {r.d, r.i})
       /\ UNCHANGED <<calls, spoilt, leaked>>
    \/ /\ At(c, "LinkFlushes")
       /\ t' \in {t, Flush(t, {r.d, r.i})}
       /\ Returns(c, {r.d, r.i})
       /\ UNCHANGED <<calls, spoilt, leaked>>
-----------------------------------------------------------------------------
\* Unlink() and Rmdir() lock the directory, look the name up, lock what it
\* refers to, and remove the name and, with its last link, the inode.
RemoveBegins(c, op) ==
    MayBegin(c) /\ \E d \in KnownDirs, n \in Names :
      /\ Begins(c, d, "exclusive", [pc |-> op, d |-> d, n |-> n])
      /\ UNCHANGED t

\* Mutant: what the name refers to is not locked.
FindsChild(c, op, next) ==
    LET r == cl[c] IN
    /\ At(c, op) /\ Granted(c, r.d)
    /\ IF Access(t, r.d, "W_OK") /\ Has(t, r.d, r.n)
         THEN /\ locks' = locks
              /\ cl' = [cl EXCEPT ![c] = [pc |-> next, d |-> r.d, n |-> r.n,
                                         i |-> Lookup(t, r.d, r.n)]]
         ELSE Returns(c, {r.d})
    /\ UNCHANGED <<t, calls, spoilt, leaked>>

LocksChild(c, op, next) ==
    LET r == cl[c] IN
    /\ At(c, op) /\ Granted(c, r.d)
    /\ IF Access(t, r.d, "W_OK") /\ Has(t, r.d, r.n)
         THEN LET i == Lookup(t, r.d, r.n) IN
              /\ locks' = Requests(locks, c, i, "exclusive")
              /\ cl' = [cl EXCEPT ![c] =
                          [pc |-> next, d |-> r.d, n |-> r.n, i |-> i]]
         ELSE Returns(c, {r.d})
    /\ UNCHANGED <<t, calls, spoilt, leaked>>

\* When the flush that ends Unlink() fails, the name is gone from the cache, not
\* from headhunter, and the inode is not destroyed.
UnlinkFails(d, n, lost) ==
    LET i == Lookup(t, d, n) IN
    /\ t' = RemoveDirEntry(t, d, n)
    /\ spoilt' = spoilt \cup {i}
    /\ leaked' = leaked \cup lost \cup {k \in {i} : IsDir(t, k) \/ t[k].links = 1}

Removes(c, pc, may, destroys) ==
    LET r == cl[c] IN
    /\ At(c, pc) /\ Granted(c, r.i)
    /\ \/ /\ ~(t[r.i].live /\ may)
          /\ UNCHANGED <<t, spoilt, leaked>>
       \/ /\ t[r.i].live /\ may
          /\ t' = IF destroys THEN Destroy(Unlink(t, r.d, r.n), r.i)
                              ELSE Unlink(t, r.d, r.n)
          /\ UNCHANGED <<spoilt, leaked>>
       \/ t[r.i].live /\ may /\ UnlinkFails(r.d, r.n, {})
    /\ Returns(c, {r.d, r.i})
    /\ UNCHANGED calls

\* Mutant: the inode is destroyed with the first of its names.
UnlinkDestroys(c) ==
    LET i == cl[c].i IN
    \/ RemoveBegins(c, "Unlink")
    \/ LocksChild(c, "Unlink", "UnlinkBoth")
    \/ /\ At(c, "UnlinkBoth")
       /\ Removes(c, "UnlinkBoth", t[i].type # "dir", TRUE)

UnlinkCall(c) ==
    LET i == cl[c].i IN
    \/ RemoveBegins(c, "Unlink")
    \/ LocksChild(c, "Unlink", "UnlinkBoth")
    \/ /\ At(c, "UnlinkBoth")
       /\ Removes(c, "UnlinkBoth", t[i].type # "dir", t[i].links = 1)

Rmdir(c) ==
    LET i == cl[c].i IN
    \/ RemoveBegins(c, "Rmdir")
    \/ LocksChild(c, "Rmdir", "RmdirBoth")
    \/ /\ At(c, "RmdirBoth")
       /\ Removes(c, "RmdirBoth",
                  t[i].type = "dir" /\ NumDirEntries(t, i) = 2, TRUE)

-----------------------------------------------------------------------------
\* Rename() locks the source directory, and tries the destination directory;
\* when that is busy it gives up both and starts again.
RenameBegins(c) ==
    MayBegin(c) /\ \E sd, dd \in KnownDirs, sn, dn \in Names :
      /\ Begins(c, sd, "exclusive",
                [pc |-> "Rename", sd |-> sd, sn |-> sn, dd |-> dd, dn |-> dn])
      /\ UNCHANGED t

\* Mutant: Rename() waits for the lock of the destination directory.
RenameWaits(c) ==
    LET r == cl[c] IN
    /\ At(c, "Rename") /\ Granted(c, r.sd)
    /\ IF Access(t, r.sd, "W_OK")
         THEN /\ locks' = IF r.sd = r.dd THEN locks
                            ELSE Requests(locks, c, r.dd, "exclusive")
              /\ cl' = [cl EXCEPT ![c].pc = "Move"]
         ELSE Returns(c, {r.sd})
    /\ UNCHANGED <<t, calls, spoilt, leaked>>

RenameTries(c) ==
    LET r == cl[c] IN
    /\ At(c, "Rename") /\ Granted(c, r.sd)
    /\ \/ /\ Access(t, r.sd, "W_OK") /\ r.sd # r.dd /\ ~NotBusy(r.dd)
          /\ locks' = Releases(locks, c, r.sd)
          /\ cl' = [cl EXCEPT ![c].pc = "RenameAgain"]
       \/ /\ Access(t, r.sd, "W_OK") /\ r.sd # r.dd /\ NotBusy(r.dd)
          /\ locks' = Requests(locks, c, r.dd, "exclusive")
          /\ cl' = [cl EXCEPT ![c].pc = "Move"]
       \/ /\ Access(t, r.sd, "W_OK") /\ r.sd = r.dd
          /\ locks' = locks
          /\ cl' = [cl EXCEPT ![c].pc = "Move"]
       \/ ~Access(t, r.sd, "W_OK") /\ Returns(c, {r.sd})
    /\ UNCHANGED <<t, calls, spoilt, leaked>>

RenameAgain(c) ==
    /\ At(c, "RenameAgain")
    /\ locks' = Requests(locks, c, cl[c].sd, "exclusive")
    /\ cl' = [cl EXCEPT ![c].pc = "Rename"]
    /\ UNCHANGED <<t, calls, spoilt, leaked>>

\* The daemon goes down in Move() when an entry has no inode.
RenamePanics(c) ==
    LET r == cl[c] IN
    /\ At(c, "Move") /\ Access(t, r.dd, "W_OK")
    /\ \/ MovePanics(t, r.sd, r.dd)
       \/ Has(t, r.sd, r.sn) /\ ~t[Lookup(t, r.sd, r.sn)].live
       \/ \E i \in Replaced(t, r.dd, r.dn) : ~t[i].live

\* Mutant: only the source directory is unlocked.
RenameKeepsLock(c) ==
    LET r == cl[c] IN
    /\ At(c, "Move") /\ ~RenamePanics(c)
    /\ t' = t
    /\ Returns(c, {r.sd})
    /\ UNCHANGED <<calls, spoilt, leaked>>

\* Move() when it refuses, or when no inode is replaced.
RenameMoves(c) ==
    LET r == cl[c]
        may == Access(t, r.dd, "W_OK") /\ CanMove(t, r.sd, r.sn, r.dd, r.dn)
    IN
    /\ At(c, "Move") /\ ~RenamePanics(c)
    /\ \/ ~may /\ t' = t /\ Returns(c, {r.sd, r.dd})
       \/ /\ may /\ Replaced(t, r.dd, r.dn) = {}
          /\ LET i == Lookup(t, r.sd, r.sn) IN
             /\ t' = Move(t, r.sd, r.sn, r.dd, r.dn, i, 0)
             /\ cl' = [cl EXCEPT ![c] = [pc |-> "MoveFlushes", sd |-> r.sd,
                                        dd |-> r.dd, flush |-> {r.sd, r.dd, i}]]
          /\ locks' = locks
    /\ UNCHANGED <<calls, spoilt, leaked>>

\* Nobody has locked the inode that Move() replaces: LinkCount-- reads it, and
\* writes it later.
RenameReads(c) ==
    LET r == cl[c] IN
    /\ At(c, "Move") /\ ~RenamePanics(c)
    /\ Access(t, r.dd, "W_OK") /\ CanMove(t, r.sd, r.sn, r.dd, r.dn)
    /\ \E i \in Replaced(t, r.dd, r.dn) :
         cl' = [cl EXCEPT ![c] =
                  [pc |-> "MoveWrites", sd |-> r.sd, sn |-> r.sn, dd |-> r.dd,
                   dn |-> r.dn, moved |-> Lookup(t, r.sd, r.sn), i |-> i,
                   links |-> t[i].links - 1]]
    /\ UNCHANGED <<t, locks, calls, spoilt, leaked>>

RenameWrites(c) ==
    LET r == cl[c] IN
    /\ At(c, "MoveWrites")
    /\ t' = Move(t, r.sd, r.sn, r.dd, r.dn, r.moved, r.links)
    /\ spoilt' = IF t[r.i].links = r.links + 1 THEN spoilt ELSE spoilt \cup {r.i}
    /\ leaked' = IF r.links = 0 THEN leaked \cup {r.i} ELSE leaked
    /\ cl' = [cl EXCEPT ![c] = [pc |-> "MoveFlushes", sd |-> r.sd, dd |-> r.dd,
                               flush |-> {r.sd, r.dd, r.moved, r.i}]]
    /\ UNCHANGED <<locks, calls>>

\* The flush that ends Move(): the daemon goes down when it fails, and when it
\* comes to a file that another call has destroyed since, whose tree is gone.  A
\* symlink has no tree, and gets its record back.  Nobody has locked the inode
\* that was moved: a directory is recorded with an entry that another call has
\* just added to it.
RenameFlushPanics(c) ==
    At(c, "MoveFlushes") /\ \E i \in cl[c].flush : ~t[i].live /\ t[i].type # "symlink"

RenameFlushes(c) ==
    LET r == cl[c] IN
    /\ At(c, "MoveFlushes") /\ ~RenameFlushPanics(c)
    /\ t' = Flush([i \in Inodes |-> IF i \in r.flush THEN [t[i] EXCEPT !.live = TRUE]
                                    ELSE t[i]], r.flush)
    /\ leaked' = leaked \cup {i \in r.flush : ~t[i].live}
    /\ Returns(c, {r.sd, r.dd})
    /\ UNCHANGED <<calls, spoilt>>

Rename(c) ==
    \/ RenameBegins(c) \/ RenameTries(c) \/ RenameAgain(c) \/ RenameMoves(c)
    \/ RenameReads(c) \/ RenameWrites(c) \/ RenameFlushes(c)
-----------------------------------------------------------------------------
\* Readdir(), ReaddirOne() and, with plus, ReaddirPlus(), ReaddirOnePlus().
ReaddirBegins(c, plus) ==
    MayBegin(c) /\ \E d \in KnownDirs :
      /\ Begins(c, d, "shared", [pc |-> "Readdir", d |-> d, plus |-> plus])
      /\ UNCHANGED t

\* readdirHelper() and readdirOneHelper() take the lock of every entry but "."
\* in turn, to get its type, while they hold that of the directory.
EntriesOf(d, names) ==
    SelectSeq([k \in DOMAIN names |-> t[d].ents[names[k]]], LAMBDA i : i # d)

ReaddirReads(c, names) ==
    LET r == cl[c] IN
    /\ At(c, "Readdir") /\ Granted(c, r.d)
    /\ IF Access(t, r.d, "X_OK") /\ IsDir(t, r.d)
         THEN /\ cl' = [cl EXCEPT ![c] =
                          [pc |-> "Types", d |-> r.d, plus |-> r.plus,
                           todo |-> EntriesOf(r.d, names),
                           all |-> EntriesOf(r.d, names)]]
              /\ locks' = locks
         ELSE Returns(c, {r.d})
    /\ UNCHANGED <<t, calls, spoilt, leaked>>

\* Both helpers: ReadDir() from a previous name, or from a location.
Readdir(c) ==
    \/ ReaddirBegins(c, FALSE)
    \/ \E prev \in {-1, DotDot}, max \in {0, 1} :
         At(c, "Readdir") /\ ReaddirReads(c, ReadDir(t, cl[c].d, prev, max))

ReaddirOne(c) ==
    \/ ReaddirBegins(c, FALSE)
    \/ \E location \in -1..2 :
         At(c, "Readdir") /\ ReaddirReads(c, ReadDirAt(t, cl[c].d, location))

ReaddirTypes(c) ==
    LET r == cl[c] IN
    \/ /\ At(c, "Types") /\ r.todo # <<>>
       /\ locks' = Requests(locks, c, Head(r.todo), "shared")
       /\ cl' = [cl EXCEPT ![c].pc = "Entry"]
       /\ UNCHANGED <<t, calls, spoilt, leaked>>
    \/ /\ At(c, "Entry") /\ Granted(c, Head(r.todo))
       /\ locks' = Releases(locks, c, Head(r.todo))
       /\ cl' = [cl EXCEPT ![c].pc = "Types", ![c].todo = Tail(@)]
       /\ UNCHANGED <<t, calls, spoilt, leaked>>
    \/ /\ At(c, "Types") /\ r.todo = <<>> /\ ~r.plus
       /\ Returns(c, {r.d})
       /\ UNCHANGED <<t, calls, spoilt, leaked>>

\* The plus forms then give up the directory and lock each entry, to get its
\* stat; an entry that was destroyed meanwhile ends the call with an error.
ReaddirPlus(c) ==
    LET r == cl[c] IN
    \/ ReaddirBegins(c, TRUE)
    \/ /\ At(c, "Types") /\ r.todo = <<>> /\ r.plus
       /\ locks' = Releases(locks, c, r.d)
       /\ cl' = [cl EXCEPT ![c] = [pc |-> "Stats", todo |-> r.all]]
       /\ UNCHANGED <<t, calls, spoilt, leaked>>
    \/ /\ At(c, "Stats") /\ r.todo # <<>>
       /\ locks' = Requests(locks, c, Head(r.todo), "shared")
       /\ cl' = [cl EXCEPT ![c].pc = "Stat"]
       /\ UNCHANGED <<t, calls, spoilt, leaked>>
    \/ /\ At(c, "Stat") /\ Granted(c, Head(r.todo))
       /\ locks' = Releases(locks, c, Head(r.todo))
       /\ cl' = [cl EXCEPT ![c] =
                   IF t[Head(r.todo)].live
                     THEN [pc |-> "Stats", todo |-> Tail(r.todo)] ELSE Idle]
       /\ UNCHANGED <<t, calls, spoilt, leaked>>
    \/ /\ At(c, "Stats") /\ r.todo = <<>>
       /\ Returns(c, {})
       /\ UNCHANGED <<t, calls, spoilt, leaked>>

-----------------------------------------------------------------------------
Init ==
    /\ t \in Volumes
    /\ locks = [i \in Inodes |-> <<>>]
    /\ cl = [c \in Clients |-> Idle]
    /\ calls = 0
    /\ spoilt = {}
    /\ leaked = {}

Looks(c) ==
    \/ Getstat(c) \/ GetType(c) \/ GetXAttr(c) \/ ListXAttr(c) \/ IsDirCall(c)
    \/ IsFileCall(c) \/ IsSymlinkCall(c) \/ LookupCall(c) \/ Readsymlink(c)
    \/ Read(c) \/ ReadReturns(c) \/ Readdir(c) \/ ReaddirOne(c)
    \/ ReaddirTypes(c) \/ ReaddirPlus(c)

Alters(c) ==
    \/ Resize(c) \/ WriteReturns(c) \/ Setstat(c) \/ SetXAttr(c) \/ RemoveXAttr(c) \/ Create(c)
    \/ Mkdir(c) \/ Symlink(c) \/ LinksMade(c) \/ MadeFlushes(c) \/ LinkCall(c)
    \/ UnlinkCall(c) \/ Rmdir(c) \/ Rename(c)

-----------------------------------------------------------------------------
TypeOK ==
    /\ DOMAIN t = Inodes
    /\ \A i \in Inodes :
         /\ t[i].type \in {"none", "dir", "file", "symlink"}
         /\ t[i].links \in Int
         /\ ~t[i].live => t[i].ents = <<>> /\ t[i].rec = <<>> /\ ~t[i].onDisk
         /\ \A k \in DOMAIN locks[i] : locks[i][k].c \in Clients
    /\ DOMAIN cl = Clients
    /\ spoilt \subseteq Inodes /\ leaked \subseteq Inodes

\* The LinkCount of every inode is the number of entries that refer to it, in
\* the cache, whichever calls link, unlink and move it and wherever their
\* flushes fail.  The exceptions (spoilt) are an inode that a Rename or a
\* Coalesce() replaced while another call changed its links, and those of a
\* Link() whose flush failed after it had put the name of what is destroyed;
\* what a failed flush has left with a name in headhunter only goes with them.
LinkCountsMatch ==
    \A i \in Live(t) \ spoilt : t[i].links = LinksOf(t, i)

\* No entry of a directory refers to an inode that was destroyed, and what an
\* entry refers to in a directory's record has a record as well, so that it is
\* there after a restart: Unlink() and Rmdir() destroy an inode only after its
\* last name is gone from headhunter too.  Until a call has flushed what it has
\* linked, moved or replaced, the record of a directory may be ahead of it or
\* behind (Rename() flushes a directory it has not locked, and replaces a file
\* whose other name Unlink() may remove first).  The code fails in this when the
\* flush of Link() fails: Create(), Mkdir() and Symlink() then destroy what the
\* new name refers to; and when that of Unlink() or Coalesce() fails, a name
\* stays in headhunter (spoilt).  Without such a failure or a race Move() never
\* finds a directory gone, or an entry without an inode, after the checks of
\* Rename(): it would panic.
EntriesRefer ==
    /\ \A d \in Live(t) : \A n \in DOMAIN t[d].ents :
         t[d].ents[n] \in spoilt \/ t[t[d].ents[n]].live
    /\ \A d \in Live(t) \ leaked : \A n \in DOMAIN t[d].rec :
         \/ t[t[d].rec[n]].onDisk
         \/ t[d].rec[n] \in spoilt \cup Unlinked \cup InHand("flush") \cup InHand("gone")
    /\ spoilt = {} => \A c \in Clients : ~RenamePanics(c)

\* An inode that nothing refers to is in the hands of a call that made it or
\* unlinked it, or is one of those the code is known to leave behind (leaked:
\* what Rename(), a middleware PUT or Coalesce() replaces, what a PUT or
\* Coalesce() made in vain, and what Unlink() and Rmdir() do not destroy when
\* the flush fails).  No other path, failures included, loses an inode.
NoInodeLost ==
    \A i \in Live(t) \ (spoilt \cup leaked \cup {RootDir}) :
      \/ \E d \in Live(t), n \in Names : n \in DOMAIN t[d].ents /\ t[d].ents[n] = i
      \/ i \in Unlinked \cup InHand("old")

\* A directory has one name, and its ".." entry is the directory that has it,
\* whichever way Mkdir(), Rmdir() and Rename() of it, of its parent and of its
\* new parent interleave.
DotDotIsParent ==
    \A d \in Live(t) : \A n \in DOMAIN t[d].ents \cap Names :
      LET i == t[d].ents[n] IN
      IsDir(t, i) =>
        /\ t[i].ents[DotDot] = d
        /\ \A m \in DOMAIN t[d].ents \cap Names : t[d].ents[m] = i => m = n

\* A call that has returned has left no lock and no request for one behind,
\* whichever error it returned with and however often Rename() started again.
NoLockLeft ==
    \A i \in Inodes : \A k \in DOMAIN locks[i] : cl[locks[i][k].c] # Idle

\* Client c waits for a request of client x that is before its own.
WaitsFor(c, x) ==
    \E i \in Inodes : \E j, k \in DOMAIN locks[i] :
      /\ j < k /\ locks[i][j].c = x /\ locks[i][k].c = c
      /\ ~IsGranted(locks[i], k)
      /\ \E m \in j..k : locks[i][m].m = "exclusive"

\* The clients in S wait for one another: none of them ever goes on.
Deadlocked(S) == S # {} /\ \A c \in S : \E x \in S : WaitsFor(c, x)

\* Going up from every directory that is linked one comes to the root.
Rooted ==
    \A i \in {k \in Live(t) \ leaked : Has(t, k, DotDot)} :
      LET up[k \in 0..MaxInode] ==
            IF k = 0 THEN i ELSE t[up[k - 1]].ents[DotDot]
      IN  up[MaxInode] = RootDir

=============================================================================
