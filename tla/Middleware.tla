------------------------------ MODULE Middleware ------------------------------
(***************************************************************************)
(* The calls the Swift middleware makes on a mounted volume (the           *)
(* Middleware*() functions, LookupPath() and resolvePath() of              *)
(* fs/api_internal.go), among the calls of module FsOps.                   *)
(*                                                                         *)
(* A path is a sequence of names; ".." is in symlink targets only, as the  *)
(* callers' paths are cleaned.  The middleware is root, so no access is    *)
(* refused to it.  The streams of an inode and the data of a file are left *)
(* out.                                                                    *)
(***************************************************************************)
EXTENDS FsOps

CONSTANTS
    Paths,       \* paths the middleware asks for
    Merges,      \* what it coalesces: [dest, n, elems]
    MaxSymlinks  \* symlinks resolvePath() follows

\* One request less of c for the lock of i: Unlock() of one of two locks.
Drops(L, c, i) ==
    LET mine == {k \in DOMAIN L[i] : L[i][k].c = c}
    IN  IF mine = {} THEN L
        ELSE LET k == CHOOSE k \in mine : \A j \in mine : j <= k
             IN  [L EXCEPT ![i] = SubSeq(@, 1, k - 1) \o SubSeq(@, k + 1, Len(@))]

\* ensureReadLock(), ensureWriteLock(): not when the caller holds it.
Ensures(L, c, i, m, held) == IF i \in held THEN L ELSE Requests(L, c, i, m)

Lets(L, c, i, held) == IF i \in held THEN L ELSE Drops(L, c, i)

\* The fields of rec, and those of r that rec does not have.
Over(rec, r) ==
    [f \in DOMAIN rec \cup DOMAIN r |-> IF f \in DOMAIN rec THEN rec[f] ELSE r[f]]

Goes(c, rec) == cl' = [cl EXCEPT ![c] = Over(rec, cl[c])]

-----------------------------------------------------------------------------
(***************************************************************************)
(* resolvePath(): from the lock of a directory to that of the entry, which *)
(* it takes before it gives up the directory's.  op is what comes then,    *)
(* held the locks the caller of resolvePath() had taken with the same      *)
(* caller ID.                                                              *)
(***************************************************************************)
Resolving(op, m, path, args) ==
    Over([pc |-> "Dir", op |-> op, m |-> m, segs |-> path, d |-> RootDir,
          follows |-> MaxSymlinks, held |-> {}], args)

ResolveBegins(c, op, m, path, args) ==
    /\ MayBegin(c)
    /\ Begins(c, RootDir, m, Resolving(op, m, path, args))
    /\ UNCHANGED t

ResolveLooksUp(c) ==
    LET r == cl[c] IN
    /\ At(c, "Dir") /\ Granted(c, r.d)
    /\ \/ /\ r.segs = <<>>
          /\ Goes(c, [pc |-> "Found", i |-> r.d])
          /\ locks' = locks
       \/ /\ r.segs # <<>> /\ ~Has(t, r.d, Head(r.segs))
          /\ Returns(c, Inodes)
       \/ /\ r.segs # <<>> /\ Has(t, r.d, Head(r.segs))
          /\ LET i == Lookup(t, r.d, Head(r.segs)) IN
             /\ locks' = Ensures(locks, c, i, r.m, r.held)
             /\ Goes(c, [pc |-> "Cursor", i |-> i, segs |-> Tail(r.segs)])
    /\ UNCHANGED <<t, calls, spoilt, leaked>>

\* A symlink: its target goes before the rest of the path.
FollowsLink(c, next, follows) ==
    LET r == cl[c]
        target == GetSymlink(t, r.i)
        L == Lets(locks, c, r.i, r.held)
    IN  /\ locks' = IF target.abs
                      THEN Ensures(Lets(L, c, r.d, r.held), c, RootDir, r.m, r.held)
                      ELSE L
        /\ Goes(c, [pc |-> next, segs |-> target.segs \o r.segs,
                    d |-> IF target.abs THEN RootDir ELSE r.d,
                    follows |-> follows])

ResolveGoesOn(c) ==
    LET r == cl[c] IN
    /\ At(c, "Cursor") /\ Granted(c, r.i)
    /\ \/ /\ \/ ~t[r.i].live
             \/ t[r.i].type = "symlink" /\ r.follows = 0
             \/ t[r.i].type = "file" /\ r.segs # <<>>
          /\ Returns(c, Inodes)
       \/ /\ t[r.i].live /\ t[r.i].type = "symlink" /\ r.follows > 0
          /\ FollowsLink(c, "Dir", r.follows - 1)
       \/ /\ t[r.i].live /\ t[r.i].type # "symlink" /\ r.segs = <<>>
          /\ locks' = Lets(locks, c, r.d, r.held)
          /\ Goes(c, [pc |-> "Found"])
       \/ /\ IsDir(t, r.i) /\ r.segs # <<>>
          /\ locks' = Lets(locks, c, r.d, r.held)
          /\ Goes(c, [pc |-> "Dir", d |-> r.i])
    /\ UNCHANGED <<t, calls, spoilt, leaked>>

Found(c, op) == At(c, "Found") /\ cl[c].op = op

\* The calls that look at, or set a stream of, what the path resolves to.
ResolvesAndReturns(c, op, m) ==
    \/ \E p \in Paths : ResolveBegins(c, op, m, p, <<>>)
    \/ /\ Found(c, op)
       /\ IF m = "exclusive" THEN Flushes(cl[c].i) ELSE t' = t
       /\ Returns(c, Inodes)
       /\ UNCHANGED <<calls, spoilt, leaked>>

MiddlewareGetObject(c) == ResolvesAndReturns(c, "Look", "shared")
MiddlewareHeadResponse(c) == ResolvesAndReturns(c, "Look", "shared")
MiddlewarePost(c) == ResolvesAndReturns(c, "Post", "exclusive")

\* It goes on to lock the entry; an inode that is no directory has none.
MiddlewareDelete(c) ==
    LET r == cl[c] IN
    \/ \E p \in Paths, n \in Names :
         ResolveBegins(c, "Delete", "exclusive", p, [n |-> n])
    \/ /\ Found(c, "Delete")
       /\ IF Has(t, r.i, r.n)
            THEN LET i == Lookup(t, r.i, r.n) IN
                 /\ locks' = Requests(locks, c, i, "exclusive")
                 /\ cl' = [cl EXCEPT ![c] =
                             [pc |-> "DeleteBoth", d |-> r.i, n |-> r.n, i |-> i]]
            ELSE Returns(c, Inodes)
       /\ UNCHANGED <<t, calls, spoilt, leaked>>
    \/ /\ At(c, "DeleteBoth")
       /\ Removes(c, "DeleteBoth",
                  t[r.i].type = "dir" => NumDirEntries(t, r.i) = 2,
                  t[r.i].type = "dir" \/ t[r.i].links = 1)

\* LookupPath() holds one lock at a time.
LookupPath(c) ==
    LET r == cl[c] IN
    \/ MayBegin(c) /\ \E p \in Paths :
         /\ p # <<>>
         /\ Begins(c, RootDir, "shared", [pc |-> "Path", d |-> RootDir, segs |-> p])
         /\ UNCHANGED t
    \/ /\ At(c, "Path") /\ Granted(c, r.d)
       /\ IF /\ Access(t, r.d, "X_OK") /\ Has(t, r.d, Head(r.segs))
             /\ Tail(r.segs) # <<>>
            THEN /\ locks' = Releases(locks, c, r.d)
                 /\ Goes(c, [pc |-> "PathNext", segs |-> Tail(r.segs),
                             d |-> Lookup(t, r.d, Head(r.segs))])
            ELSE Returns(c, Inodes)
       /\ UNCHANGED <<t, calls, spoilt, leaked>>
    \/ /\ At(c, "PathNext")
       /\ locks' = Requests(locks, c, r.d, "shared")
       /\ Goes(c, [pc |-> "Path"])
       /\ UNCHANGED <<t, calls, spoilt, leaked>>

\* A new container gets its metadata, which may fail, and is linked; an existing
\* one is locked to set its metadata.
MiddlewarePutContainer(c) ==
    LET r == cl[c] IN
    \/ MayBegin(c) /\ \E n \in Names :
         /\ Begins(c, RootDir, "exclusive", [pc |-> "PutContainer", n |-> n])
         /\ UNCHANGED t
    \/ /\ At(c, "PutContainer") /\ Granted(c, RootDir)
       /\ \/ /\ ~Has(t, RootDir, r.n) /\ CanAllocate(t)
             /\ t' = CreateDir(t)
             /\ Returns(c, Inodes)
             /\ leaked' = leaked \cup {NextInode(t)}
          \/ /\ ~Has(t, RootDir, r.n) /\ CanAllocate(t)
             /\ t' = AddDirEntry(Flush(CreateDir(t), {NextInode(t)}), RootDir, r.n,
                                NextInode(t))
             /\ cl' = [cl EXCEPT ![c] = [pc |-> "PutFlushes", d |-> RootDir,
                                        new |-> {NextInode(t)}, old |-> {}]]
             /\ UNCHANGED <<locks, leaked>>
          \/ /\ Has(t, RootDir, r.n)
             /\ LET i == Lookup(t, RootDir, r.n) IN
                /\ locks' = Requests(locks, c, i, "exclusive")
                /\ Goes(c, [pc |-> "PutContainerBoth", i |-> i])
             /\ UNCHANGED <<t, leaked>>
       /\ UNCHANGED <<calls, spoilt>>
    \/ /\ At(c, "PutContainerBoth") /\ Granted(c, r.i)
       /\ Flushes(r.i)
       /\ Returns(c, Inodes)
       /\ UNCHANGED <<calls, spoilt, leaked>>

-----------------------------------------------------------------------------
(***************************************************************************)
(* putObjectHelper(), for MiddlewarePutComplete() and MiddlewareMkdir():   *)
(* the container is looked up and unlocked, locked again, and the path is  *)
(* followed with the lock of one directory taken before that of the last   *)
(* is given up.                                                            *)
(***************************************************************************)
PutBegins(c, type) ==
    MayBegin(c) /\ \E p \in Paths :
      /\ Len(p) > 1
      /\ Begins(c, RootDir, "shared",
                [pc |-> "PutFinds", type |-> type, n |-> p[1], d |-> RootDir,
                 segs |-> SubSeq(p, 2, Len(p) - 1), base |-> p[Len(p)],
                 m |-> "exclusive", held |-> {}, follows |-> 0])
      /\ UNCHANGED t

PutFindsContainer(c) ==
    LET r == cl[c] IN
    \/ /\ At(c, "PutFinds") /\ Granted(c, RootDir)
       /\ IF Has(t, RootDir, r.n)
            THEN /\ locks' = Releases(locks, c, RootDir)
                 /\ Goes(c, [pc |-> "PutAsks", d |-> Lookup(t, RootDir, r.n)])
            ELSE Returns(c, Inodes)
       /\ UNCHANGED <<t, calls, spoilt, leaked>>
    \/ /\ At(c, "PutAsks")
       /\ locks' = Requests(locks, c, r.d, "exclusive")
       /\ Goes(c, [pc |-> "PutDir"])
       /\ UNCHANGED <<t, calls, spoilt, leaked>>

\* fetchInodeType() dereferences the inode it has not found: the daemon dies.
PutPanics(c) == At(c, "PutDir") /\ Granted(c, cl[c].d) /\ ~t[cl[c].d].live

\* Lookup() in what is no directory fails, and the loop tries it again, with
\* the lock held: no step of the client follows.
PutSpins(c) ==
    At(c, "PutDir") /\ cl[c].segs # <<>> /\ t[cl[c].d].live /\ ~IsDir(t, cl[c].d)

PutWalks(c) ==
    LET r == cl[c] IN
    \/ /\ At(c, "PutDir") /\ Granted(c, r.d)
       /\ r.segs # <<>> /\ Has(t, r.d, Head(r.segs))
       /\ LET i == Lookup(t, r.d, Head(r.segs)) IN
          /\ locks' = Requests(locks, c, i, "exclusive")
          /\ Goes(c, [pc |-> "PutEntry", i |-> i, segs |-> Tail(r.segs)])
       /\ UNCHANGED <<t, calls, spoilt, leaked>>
    \/ /\ At(c, "PutEntry") /\ Granted(c, r.i)
       /\ \/ /\ ~t[r.i].live \/ t[r.i].type = "file"
             /\ Returns(c, Inodes)
          \/ /\ t[r.i].live /\ t[r.i].type = "symlink"
             /\ FollowsLink(c, "PutDir", 0)
          \/ /\ IsDir(t, r.i)
             /\ locks' = Drops(locks, c, r.d)
             /\ Goes(c, [pc |-> "PutDir", d |-> r.i])
       /\ UNCHANGED <<t, calls, spoilt, leaked>>

\* makeInodeFunc() and the first k of the missing directories above the new
\* inode, each linked to the one before: what is left is to link the last.
PutMade(t1, type, base, dirs, k) ==
    LET t2 == IF type = "dir" THEN CreateDir(t1)
              ELSE Flush(CreateFile(t1), {NextInode(t1)})
        up[j \in 0..k] ==
          IF j = 0 THEN t2
          ELSE LET tj == CreateDir(up[j - 1])
                   n == IF j = 1 THEN base ELSE dirs[Len(dirs) - j + 2]
               IN  Link(tj, NextInode(up[j - 1]), n, NextInode(up[j - 1]) - 1)
    IN  up[k]

\* Nothing is in the way when a directory was missing; what has the object's
\* name is locked.  When a step of the making fails, or there is no directory to
\* link to, what was made is left behind.
PutMakes(c) ==
    LET r == cl[c]
        made(k) == PutMade(t, r.type, r.base, r.segs, k)
        all == made(Len(r.segs))
        top == NextInode(t) + Len(r.segs)
        missing == r.segs # <<>> /\ IsDir(t, r.d) /\ ~Has(t, r.d, Head(r.segs))
    IN
    /\ At(c, "PutDir") /\ Granted(c, r.d) /\ t[r.d].live
    /\ Cardinality(Allocated(t)) + Len(r.segs) < MaxInode
    /\ \/ /\ r.segs = <<>> \/ missing
          /\ \E k \in 0..Len(r.segs) :
               /\ t' = made(k)
               /\ leaked' = leaked \cup (Allocated(made(k)) \ Allocated(t))
          /\ Returns(c, Inodes)
       \/ \E n \in Names :
            /\ \/ missing /\ n = Head(r.segs)
               \/ r.segs = <<>> /\ IsDir(t, r.d) /\ ~Has(t, r.d, n) /\ n = r.base
            /\ t' = AddDirEntry(all, r.d, n, top)
            /\ cl' = [cl EXCEPT ![c] = [pc |-> "PutFlushes", d |-> r.d, new |-> {top},
                                       old |-> {}]]
            /\ UNCHANGED <<locks, leaked>>
       \/ /\ r.segs = <<>> /\ Has(t, r.d, r.base)
          /\ LET i == Lookup(t, r.d, r.base) IN
             /\ locks' = Requests(locks, c, i, "exclusive")
             /\ cl' = [cl EXCEPT ![c] =
                         [pc |-> "PutObstacle", d |-> r.d, base |-> r.base,
                          i |-> i, new |-> {top}]]
          /\ t' = all
          /\ leaked' = leaked
    /\ UNCHANGED <<calls, spoilt>>

\* Mutant: one entry besides "." and ".." is let go.
RemoveObstacleOffByOne(c) ==
    LET r == cl[c] IN
    /\ At(c, "PutObstacle") /\ Granted(c, r.i)
    /\ IF ~t[r.i].live \/ (IsDir(t, r.i) /\ NumDirEntries(t, r.i) > 3)
         THEN /\ t' = t
              /\ Returns(c, Inodes)
              /\ leaked' = leaked \cup r.new
         ELSE /\ t' = Unlink(t, r.d, r.base)
              /\ Goes(c, [pc |-> "PutLinks", old |-> {r.i}])
              /\ locks' = locks /\ leaked' = leaked
    /\ UNCHANGED <<calls, spoilt>>

\* removeObstacleToObjectPut(): unlinked, with a flush, and not destroyed.
RemoveObstacleToObjectPut(c) ==
    LET r == cl[c]
        refuses == ~t[r.i].live \/ (IsDir(t, r.i) /\ NumDirEntries(t, r.i) >= 3)
    IN
    /\ At(c, "PutObstacle") /\ Granted(c, r.i)
    /\ \/ /\ refuses
          /\ t' = t
          /\ Returns(c, Inodes)
          /\ leaked' = leaked \cup r.new /\ spoilt' = spoilt
       \/ /\ ~refuses
          /\ t' = Unlink(t, r.d, r.base)
          /\ Goes(c, [pc |-> "PutLinks", old |-> {r.i}])
          /\ UNCHANGED <<locks, spoilt, leaked>>
       \/ ~refuses /\ UnlinkFails(r.d, r.base, r.new) /\ Returns(c, Inodes)
    /\ UNCHANGED calls

\* The last Link(), with something unlinked to make place for it.
PutLinks(c) ==
    LET r == cl[c] IN
    /\ At(c, "PutLinks")
    /\ \E i \in r.new :
         \/ /\ CanLink(t, r.d, r.base, i)
            /\ t' = AddDirEntry(PreFlush(t, i), r.d, r.base, i)
            /\ Goes(c, [pc |-> "PutFlushes"])
         \/ /\ CanLink(t, r.d, r.base, i) => t[i].type = "file"
            /\ t' = t
            /\ Goes(c, [pc |-> "PutRelinks"])
    /\ UNCHANGED <<locks, calls, spoilt, leaked>>

\* The flush that ends Link().  The variable that is then given to Destroy() is
\* not the one that was set: inode 0 is not found, and what was replaced stays,
\* named elsewhere or not.  After a failure the name stays in the cache, its
\* inode perhaps without a record; what was replaced is to be linked again.
PutFlushes(c) ==
    LET r == cl[c] IN
    /\ At(c, "PutFlushes")
    /\ \/ /\ t' = Flush(t, {r.d} \cup r.new)
          /\ leaked' = leaked \cup {i \in r.old : IsDir(t, i) \/ t[i].links = 0}
          /\ Returns(c, Inodes)
          /\ UNCHANGED <<calls, spoilt>>
       \/ /\ r.old = {}
          /\ spoilt' = spoilt \cup {i \in r.new : ~t[i].onDisk}
          /\ Returns(c, Inodes)
          /\ UNCHANGED <<t, calls, leaked>>
       \/ /\ r.old # {}
          /\ Goes(c, [pc |-> "PutRelinks"])
          /\ UNCHANGED <<t, locks, calls, spoilt, leaked>>

\* It is inode 0 that is linked again: Link() dereferences what it has not found.
RelinkPanics(c) == At(c, "PutRelinks")

MiddlewarePutComplete(c) == PutBegins(c, "file")

MiddlewareMkdir(c) == PutBegins(c, "dir")

PutObjectHelper(c) ==
    \/ PutFindsContainer(c) \/ PutWalks(c) \/ PutMakes(c)
    \/ RemoveObstacleToObjectPut(c) \/ PutLinks(c) \/ PutFlushes(c)

-----------------------------------------------------------------------------
(***************************************************************************)
(* MiddlewareCoalesce(): with the root locked, the directory of the        *)
(* destination is walked to and what is missing of it made, then the       *)
(* directory of each element and the element itself are locked, and        *)
(* inode.Coalesce() is called.  kept are the locks held to the end, cur is *)
(* the destination directory, own whether cursorInodeLock is its lock.     *)
(***************************************************************************)
CoalesceBegins(c) ==
    MayBegin(c) /\ \E g \in Merges :
      /\ Begins(c, RootDir, "exclusive",
                [pc |-> "CoalesceWalks", dest |-> g.dest, n |-> g.n,
                 todo |-> g.elems, done |-> <<>>, cur |-> RootDir,
                 own |-> FALSE, kept |-> {RootDir}])
      /\ UNCHANGED t

CoalesceHeld(r) == r.kept \cup {d \in {r.cur} : r.own}

DropsCursor(c) == IF cl[c].own THEN Drops(locks, c, cl[c].cur) ELSE locks

\* One resolvePath() per name of the destination path; what it has resolved to
\* is the next directory.  The lock of the last one is given up even if a symlink
\* has led back to it: ensureWriteLock() has not locked it again then, and it is
\* not locked any more.
CoalesceWalks(c) ==
    LET r == cl[c] IN
    \/ /\ At(c, "CoalesceWalks") /\ Granted(c, r.cur)
       /\ r.dest # <<>> /\ Has(t, r.cur, Head(r.dest))
       /\ locks' = Ensures(locks, c, r.cur, "exclusive", CoalesceHeld(r))
       /\ cl' = [cl EXCEPT ![c] =
                   Over([Resolving("CoalesceInto", "exclusive", <<Head(r.dest)>>, <<>>)
                           EXCEPT !.d = r.cur, !.held = CoalesceHeld(r)],
                        [r EXCEPT !.dest = Tail(@)])]
       /\ UNCHANGED <<t, calls, spoilt, leaked>>
    \/ /\ At(c, "CoalesceWalks") /\ Granted(c, r.cur)
       /\ r.dest # <<>> /\ IsDir(t, r.cur) /\ ~Has(t, r.cur, Head(r.dest))
       /\ Goes(c, [pc |-> "CoalesceMakes"])
       /\ UNCHANGED <<t, locks, calls, spoilt, leaked>>
    \/ /\ Found(c, "CoalesceInto")
       /\ IF IsDir(t, r.i)
            THEN /\ locks' = DropsCursor(c)
                 /\ Goes(c, [pc |-> "CoalesceWalks", cur |-> r.i,
                             own |-> r.i \notin r.held])
            ELSE Returns(c, Inodes)
       /\ UNCHANGED <<t, calls, spoilt, leaked>>

\* From the first that is missing on every directory is made and linked; its
\* parent is unlocked before it is locked.  It is destroyed when Link() fails.
CoalesceMakes(c) ==
    LET r == cl[c] IN
    \/ /\ At(c, "CoalesceMakes") /\ Granted(c, r.cur)
       /\ r.dest # <<>> /\ IsDir(t, r.cur) /\ CanAllocate(t)
       /\ IF Has(t, r.cur, Head(r.dest))
            THEN /\ t' = Destroy(CreateDir(t), NextInode(t))
                 /\ Returns(c, Inodes)
            ELSE /\ t' = AddDirEntry(CreateDir(t), r.cur, Head(r.dest), NextInode(t))
                 /\ Goes(c, [pc |-> "CoalesceLinks", new |-> {NextInode(t)}])
                 /\ locks' = locks
       /\ UNCHANGED <<calls, spoilt, leaked>>
    \/ /\ At(c, "CoalesceLinks")
       /\ \E i \in r.new :
            \/ /\ t' = Flush(t, {r.cur, i})
               /\ locks' = DropsCursor(c)
               /\ Goes(c, [pc |-> "CoalesceLocks", cur |-> i, own |-> FALSE,
                           dest |-> Tail(r.dest), new |-> {}])
               /\ spoilt' = spoilt
            \/ /\ t' = Destroy(t, i)
               /\ spoilt' = spoilt \cup {i} \cup Range(t[i].ents)
               /\ Returns(c, Inodes)
       /\ UNCHANGED <<calls, leaked>>
    \/ /\ At(c, "CoalesceLocks")
       /\ locks' = Requests(locks, c, r.cur, "exclusive")
       /\ Goes(c, [pc |-> "CoalesceMakes", own |-> TRUE])
       /\ UNCHANGED <<t, calls, spoilt, leaked>>

\* The destination directory is there, and locked unless that was lost.
CoalesceThere(c) ==
    /\ At(c, "CoalesceWalks") \/ At(c, "CoalesceMakes")
    /\ Granted(c, cl[c].cur) /\ cl[c].dest = <<>>

\* The directory of an element is resolved from the root.
CoalesceElement(c) ==
    LET r == cl[c] IN
    \/ /\ CoalesceThere(c) /\ r.todo # <<>>
       /\ cl' = [cl EXCEPT ![c] =
                   Over([Resolving("CoalesceFrom", "exclusive", Head(r.todo).dir, <<>>)
                           EXCEPT !.held = CoalesceHeld(r)], r)]
       /\ UNCHANGED <<t, locks, calls, spoilt, leaked>>
    \/ /\ Found(c, "CoalesceFrom")
       /\ IF Has(t, r.i, Head(r.todo).n)
            THEN LET i == Lookup(t, r.i, Head(r.todo).n) IN
                 /\ locks' = Ensures(locks, c, i, "exclusive", CoalesceHeld(r) \cup {r.i})
                 /\ Goes(c, [pc |-> "CoalesceFile", d |-> r.i, i |-> i,
                             kept |-> r.kept \cup ({r.i} \ r.held)])
            ELSE Returns(c, Inodes)
       /\ UNCHANGED <<t, calls, spoilt, leaked>>
    \/ /\ At(c, "CoalesceFile") /\ Granted(c, r.i)
       /\ IF t[r.i].live /\ t[r.i].type = "file"
            THEN /\ Goes(c, [pc |-> "CoalesceWalks", todo |-> Tail(r.todo),
                             kept |-> r.kept \cup {r.i},
                             done |-> Append(r.done, [d |-> r.d, n |-> Head(r.todo).n,
                                                      i |-> r.i])])
                 /\ locks' = locks
            ELSE Returns(c, Inodes)
       /\ UNCHANGED <<t, calls, spoilt, leaked>>

\* inode.Coalesce() takes the elements out of their directories, in memory,
Removed(t1, done) ==
    LET out[k \in 0..Len(done)] ==
          IF k = 0 THEN CreateFile(t1)
          ELSE RemoveDirEntry(out[k - 1], done[k].d, done[k].n)
    IN  out[Len(done)]

\* and what it has found in the way, gone, out of the destination directory, with
\* the LinkCount less one that was read.
WithoutObstacle(t1, d, n, gone, links) ==
    LET up == IF \E i \in gone : IsDir(t1, i) THEN 1 ELSE 0
        t2 == [t1 EXCEPT ![d].ents = WithoutName(@, n), ![d].links = @ - up]
    IN  [i \in Inodes |->
           IF i \in gone /\ t2[i].live
             THEN [t2[i] EXCEPT !.links = links, !.ents = WithoutName(@, DotDot)]
             ELSE t2[i]]

DestroyAll(t1, S) == [i \in Inodes |-> IF i \in S THEN Destroy(t1, i)[i] ELSE t1[i]]

Elements(r) == {r.done[k].i : k \in DOMAIN r.done}

CoalesceReady(c) == CoalesceThere(c) /\ cl[c].todo = <<>>

\* An element twice, or an element with another name: nothing has been done.
CoalesceRefuses(r) ==
    \/ \E j, k \in DOMAIN r.done : j # k /\ r.done[j].i = r.done[k].i
    \/ \E k \in DOMAIN r.done : t[r.done[k].i].links > 1

\* The destination directory was removed before it could be locked, or was not
\* locked at all; or what is in the way has gone, or what was made.
CoalescePanics(c) ==
    LET r == cl[c] IN
    \/ /\ At(c, "CoalesceWalks") \/ At(c, "CoalesceMakes")
       /\ Granted(c, r.cur) /\ ~t[r.cur].live
       /\ r.dest # <<>> \/ (CoalesceReady(c) /\ ~CoalesceRefuses(r))
    \/ /\ At(c, "Dir") /\ r.op = "CoalesceInto"
       /\ Granted(c, r.d) /\ ~t[r.d].live
    \/ /\ At(c, "CoalesceLinks") \/ At(c, "CoalesceFlushes")
       /\ \E i \in {r.cur} \cup r.new : ~t[i].live
    \/ /\ At(c, "CoalesceWrites")
       /\ \/ ~t[r.cur].live
          \/ r.gone # {} /\ ~Has(t, r.cur, r.n)
          \/ \E i \in r.gone : t[i].type = "dir" /\ ~Has(t, i, DotDot)

\* The read plan of an element may fail.  A directory in the way that has
\* subdirectories is an error, or an entry without an inode, with the names of
\* the elements gone already.  Nobody has locked what is in the way: its
\* LinkCount is read, and written later.
CoalesceReads(c) ==
    LET r == cl[c]
        out == Removed(t, r.done)
        gone == Replaced(out, r.cur, r.n)
        blocked == \E i \in gone : ~out[i].live \/ (IsDir(out, i) /\ out[i].links > 2)
        proceeds == ~CoalesceRefuses(r) /\ IsDir(t, r.cur) /\ CanAllocate(t)
    IN
    /\ CoalesceReady(c)
    /\ \/ /\ CoalesceRefuses(r)
          /\ Returns(c, Inodes)
          /\ UNCHANGED <<t, leaked>>
       \/ /\ proceeds
          /\ t' = CreateFile(t)
          /\ leaked' = leaked \cup {NextInode(t)}
          /\ Returns(c, Inodes)
       \/ /\ proceeds /\ blocked
          /\ t' = out
          /\ leaked' = leaked \cup Elements(r) \cup {NextInode(t)}
          /\ Returns(c, Inodes)
       \/ /\ proceeds /\ ~blocked
          /\ Goes(c, [pc |-> "CoalesceWrites", gone |-> gone,
                      links |-> SumFunctionOnSet([i \in gone |-> out[i].links], gone) - 1])
          /\ UNCHANGED <<t, locks, leaked>>
    /\ UNCHANGED <<calls, spoilt>>

\* The new file is linked; it is not when another call has used the name in a
\* directory that is not locked.
CoalesceWrites(c) ==
    LET r == cl[c]
        out == Removed(t, r.done)
        i == NextInode(t)
        taken == r.gone = {} /\ Has(out, r.cur, r.n)
        unlocked == {r.cur} \ CoalesceHeld(r)
    IN
    /\ At(c, "CoalesceWrites") /\ CanAllocate(t)
    /\ \/ /\ taken
          /\ t' = out
          /\ leaked' = leaked \cup Elements(r) \cup {i}
          /\ Returns(c, Inodes)
          /\ spoilt' = spoilt
       \/ /\ ~taken
          /\ t' = AddDirEntry(WithoutObstacle(out, r.cur, r.n, r.gone, r.links),
                              r.cur, r.n, i)
          /\ spoilt' = spoilt \cup {k \in r.gone : t[k].links # r.links + 1}
                         \cup UNION {{d, i} \cup r.gone \cup Replaced(t, d, r.n)
                                       : d \in unlocked}
          /\ leaked' = leaked \cup {k \in r.gone : IsDir(t, k) \/ r.links = 0}
          /\ Goes(c, [pc |-> "CoalesceFlushes", new |-> {i}, old |-> Elements(r)])
          /\ locks' = locks
    /\ UNCHANGED calls

\* All of them are flushed, but what was in the way, and the elements destroyed;
\* after a failure they stay behind, and the new file has no record.
CoalesceFlushes(c) ==
    LET r == cl[c]
        dirs == {r.done[k].d : k \in DOMAIN r.done}
    IN
    /\ At(c, "CoalesceFlushes")
    /\ \/ /\ t' = DestroyAll(Flush(t, {r.cur} \cup r.new \cup dirs), Elements(r))
          /\ UNCHANGED <<spoilt, leaked>>
       \/ /\ t' = t
          /\ spoilt' = spoilt \cup r.new \cup r.gone
          /\ leaked' = leaked \cup Elements(r)
    /\ Returns(c, Inodes)
    /\ UNCHANGED calls

Coalesce(c) == CoalesceReads(c) \/ CoalesceWrites(c) \/ CoalesceFlushes(c)

MiddlewareCoalesce(c) ==
    \/ CoalesceBegins(c) \/ CoalesceWalks(c) \/ CoalesceMakes(c)
    \/ CoalesceElement(c) \/ Coalesce(c)

-----------------------------------------------------------------------------
MiddlewareCalls(c) ==
    \/ MiddlewareGetObject(c) \/ MiddlewareHeadResponse(c) \/ MiddlewarePost(c)
    \/ ResolveLooksUp(c) \/ ResolveGoesOn(c) \/ MiddlewareDelete(c)
    \/ LookupPath(c) \/ MiddlewarePutContainer(c) \/ MiddlewarePutComplete(c)
    \/ MiddlewareMkdir(c) \/ PutObjectHelper(c) \/ MiddlewareCoalesce(c)

\* A panic in one call takes the daemon, and all the calls, with it.
Panics(c) ==
    \/ RenamePanics(c) \/ RenameFlushPanics(c) \/ PutPanics(c) \/ RelinkPanics(c)
    \/ CoalescePanics(c)

Next ==
    /\ \A c \in Clients : ~Panics(c)
    /\ \E c \in Clients : Looks(c) \/ Alters(c) \/ MiddlewareCalls(c)

Spec == Init /\ [][Next]_vars

-----------------------------------------------------------------------------
\* Client c waits for the lock of inode i against the order from a directory to
\* its entries: readdirHelper() and a symlink ask for "..", SetXAttr() for the
\* lock it holds, and Coalesce() for its elements wherever they are.
AsksUp(c) ==
    \/ At(c, "SetXAttrGets") \/ At(c, "CoalesceFile")
    \/ At(c, "Cursor") /\ cl[c].op = "CoalesceFrom"
    \/ /\ At(c, "Entry")
       /\ ~\E n \in Names : Has(t, cl[c].d, n) /\ Lookup(t, cl[c].d, n) = Head(cl[c].todo)
    \/ /\ At(c, "Cursor") \/ At(c, "PutEntry")
       /\ ~\E n \in Names : Has(t, cl[c].d, n) /\ Lookup(t, cl[c].d, n) = cl[c].i

InCoalesce(c) ==
    \/ \E pc \in {"CoalesceWalks", "CoalesceMakes", "CoalesceLinks", "CoalesceLocks",
                  "CoalesceFile", "CoalesceWrites", "CoalesceFlushes"} : At(c, pc)
    \/ /\ At(c, "Cursor") \/ At(c, "Dir")
       /\ cl[c].op \in {"CoalesceInto", "CoalesceFrom"}

\* The calls never wait for one another in a circle, unless one of them asks
\* for a lock upwards: the others lock a directory before its entries, give it
\* up only after that, and Rename() does not wait for its second lock.  (A
\* directory moved below itself is its own ancestor; the callers of Rename()
\* are trusted not to ask for it.)  Calls of Coalesce() alone never do, whatever
\* order they name their elements in: each has the lock of the root first.
LockOrderIsDownward ==
    \A S \in SUBSET Clients : Deadlocked(S) =>
      /\ ~Rooted \/ \E c \in S : AsksUp(c)
      /\ \E c \in S : ~InCoalesce(c)

\* A call changes only the inodes it has locked or made, so that what a client
\* has locked nobody else changes, but for Rename(), which does not lock the two
\* inodes it moves and replaces, and Coalesce(), which does not lock what it
\* replaces, and which has lost the lock of its destination directory when a
\* symlink in the path has led back to it.
OnlyHoldersChange ==
    [][\A i \in Allocated(t) : t'[i] # t[i] =>
         \E c \in Clients :
           /\ cl'[c] # cl[c]
           /\ \/ HoldsExclusive(c, i)
              \/ "new" \in DOMAIN cl[c] /\ i \in cl[c].new
              \/ At(c, "Move") /\ i = Lookup(t, cl[c].sd, cl[c].sn)
              \/ At(c, "MoveWrites") /\ i \in {cl[c].moved, cl[c].i}
              \/ At(c, "MoveFlushes") /\ i \in cl[c].flush
              \/ At(c, "CoalesceWrites") /\ i \in cl[c].gone
              \/ /\ InCoalesce(c)
                 /\ i = cl[c].cur /\ i \notin CoalesceHeld(cl[c])]_vars

Named(t1, i) == \E d \in Live(t1), n \in Names : Has(t1, d, n) /\ Lookup(t1, d, n) = i

Empties(t1, d) == DOMAIN t1[d].ents \cap Names = {}

\* A directory with entries never loses its name, whichever calls race to fill
\* it and to remove or replace it.
NonEmptyDirsStay ==
    [][\A d \in Live(t) : IsDir(t, d) /\ ~Empties(t, d) /\ Named(t, d)
         => Named(t', d)]_vars

\* The same of all the calls but Coalesce(), which takes a directory that has
\* no subdirectory for an empty one.
NonEmptyDirsStayOtherwise ==
    [][(\A c \in Clients : At(c, "CoalesceWrites") => cl'[c] = cl[c]) =>
         \A d \in Live(t) : IsDir(t, d) /\ ~Empties(t, d) /\ Named(t, d)
           => Named(t', d)]_vars

\* A PUT of an object never takes the daemon down by using a container that
\* another call has removed after it was looked up.  (A container whose Mkdir()
\* has failed in its flush is a name without an inode: spoilt.)
PutNeverPanics == spoilt = {} => \A c \in Clients : ~PutPanics(c)
=============================================================================
