------------------------------ MODULE Namespace ------------------------------
(***************************************************************************)
(* The inodes of a volume as package inode keeps them, and its operations  *)
(* on directories (inode/dir.go, inode/symlink.go, inode/inode.go), as     *)
(* operators on a table t of inodes.  An operation returns the new table;  *)
(* the condition on which it succeeds is an operator of its own.  Link(),  *)
(* Unlink() and Move() change the inodes in memory, and then flush them:   *)
(* each part is an operator, as the flush may fail.                        *)
(*                                                                         *)
(* Names are numbers in the order of the strings they stand for: "." and   *)
(* ".." sort before every name a client uses.  Times, sizes and owners are *)
(* left out; the permission bits are one flag, whether they let the        *)
(* clients (who are not root) in.                                          *)
(***************************************************************************)
EXTENDS Integers, Sequences, FiniteSets, Functions

CONSTANTS
    Names,     \* the names clients use
    MaxInode,  \* bound of the model on inode numbers
    Targets    \* symlink targets: [abs : BOOLEAN, segs : Seq(Names)]

Dot == 0
DotDot == 1

ASSUME NamesAssumption == Names \subseteq Nat \ {Dot, DotDot}

Inodes == 1..MaxInode

RootDir == 1

NoTarget == [abs |-> FALSE, segs |-> <<>>]

\* The inodeRec fields the operations look at.  Inode numbers are nonces, so a
\* destroyed inode is never allocated again: it keeps its type, as whoever
\* remembers its number does.  onDisk: the inode has a record in headhunter;
\* rec: the entries of a directory in that record.
NewInode(type) ==
    [type |-> type, live |-> TRUE, links |-> 0, ents |-> <<>>, open |-> TRUE,
     target |-> NoTarget, onDisk |-> FALSE, rec |-> <<>>]

\* makeInMemoryInode(): FetchNonce() hands out numbers in increasing order.
Unallocated == [NewInode("none") EXCEPT !.live = FALSE]

Allocated(t) == {i \in Inodes : t[i].type # "none"}

Live(t) == {i \in Inodes : t[i].live}

CanAllocate(t) == Cardinality(Allocated(t)) < MaxInode

NextInode(t) == Cardinality(Allocated(t)) + 1

IsDir(t, i) == t[i].live /\ t[i].type = "dir"

-----------------------------------------------------------------------------
\* createRootOrSubDir(): the root is flushed at once, with both its entries; a
\* subdirectory is in the cache only, and has no ".." until it is linked.
RootInode ==
    [NewInode("dir") EXCEPT !.links = 2, !.onDisk = TRUE,
       !.ents = [n \in {Dot, DotDot} |-> RootDir],
       !.rec = [n \in {Dot, DotDot} |-> RootDir]]

CreateDir(t) ==
    [t EXCEPT ![NextInode(t)] =
       [NewInode("dir") EXCEPT !.links = 1, !.ents = [n \in {Dot} |-> NextInode(t)]]]

CreateFile(t) == [t EXCEPT ![NextInode(t)] = NewInode("file")]

CreateSymlink(t, target) ==
    [t EXCEPT ![NextInode(t)] =
       [NewInode("symlink") EXCEPT !.target = target, !.onDisk = TRUE]]

\* GetSymlink(), Lookup() and NumDirEntries() on an inode of the right type.
GetSymlink(t, i) == t[i].target

Has(t, d, n) == IsDir(t, d) /\ n \in DOMAIN t[d].ents

Lookup(t, d, n) == t[d].ents[n]

NumDirEntries(t, d) == Cardinality(DOMAIN t[d].ents)

\* flushInodes() of the inodes in S: one PutInodeRecs() of all their records,
\* or, when it fails, of none of them.
Flush(t, S) ==
    [i \in Inodes |-> IF i \in S /\ t[i].live
                        THEN [t[i] EXCEPT !.onDisk = TRUE, !.rec = t[i].ents]
                        ELSE t[i]]

\* Link() and Unlink() flush a file before they change anything.
PreFlush(t, i) == IF t[i].type = "file" THEN Flush(t, {i}) ELSE t

\* Link(): it fetches the directory with its type, then the target, flushes a
\* file, and puts the entry unless there is one of that name.
CanLink(t, d, n, i) == IsDir(t, d) /\ t[i].live /\ n \notin DOMAIN t[d].ents

WithName(ents, n, i) ==
    [m \in DOMAIN ents \cup {n} |-> IF m = n THEN i ELSE ents[m]]

WithoutName(ents, n) == [m \in DOMAIN ents \ {n} |-> ents[m]]

\* addDirEntryInMemory().  A directory's ".." counts as a link to its parent.
AddDirEntry(t, d, n, i) ==
    [t EXCEPT ![d].ents = WithName(@, n, i),
              ![d].links = @ + (IF IsDir(t, i) THEN 1 ELSE 0),
              ![i].links = @ + 1,
              ![i].ents = IF IsDir(t, i) THEN WithName(@, DotDot, d) ELSE @]

Link(t, d, n, i) == Flush(AddDirEntry(t, d, n, i), {d, i})

\* Mutant: the link of a subdirectory's ".." to its parent stays counted.
RemoveUncounted(t, d, n) ==
    LET i == Lookup(t, d, n)
    IN  [t EXCEPT ![d].ents = WithoutName(@, n),
                  ![i].links = @ - 1,
                  ![i].ents = IF IsDir(t, i) THEN WithoutName(@, DotDot) ELSE @]

\* removeDirEntryInMemory().
RemoveDirEntry(t, d, n) ==
    LET i == Lookup(t, d, n)
        up == IF IsDir(t, i) THEN 1 ELSE 0
    IN  [t EXCEPT ![d].ents = WithoutName(@, n),
                  ![d].links = @ - up,
                  ![i].links = @ - 1,
                  ![i].ents = IF IsDir(t, i) THEN WithoutName(@, DotDot) ELSE @]

\* Unlink() has flushed the inode before, and panics when that fails.
Unlink(t, d, n) == Flush(RemoveDirEntry(t, d, n), {d, Lookup(t, d, n)})

\* Destroy(): out of the cache, and DeleteInodeRec().
Destroy(t, i) ==
    [t EXCEPT ![i] = [Unallocated EXCEPT !.type = t[i].type]]

\* Move() refuses identical names, a missing source, and a target that is a
\* directory; it panics unless both directories are directories.
CanMove(t, sd, sn, dd, dn) ==
    /\ <<sd, sn>> # <<dd, dn>>
    /\ Has(t, sd, sn)
    /\ Has(t, dd, dn) => t[Lookup(t, dd, dn)].type # "dir"

MovePanics(t, sd, dd) == ~IsDir(t, sd) \/ ~IsDir(t, dd)

\* The inode Move() puts another one in the place of.
Replaced(t, dd, dn) == IF Has(t, dd, dn) THEN {Lookup(t, dd, dn)} ELSE {}

\* Mutant: a moved directory keeps its ".." entry.
MoveKeepsDotDot(t, sd, sn, dd, dn, i, links) ==
    LET gone == Replaced(t, dd, dn)
        t1 == [t EXCEPT ![sd].ents = WithoutName(@, sn),
                 ![sd].links = IF sd # dd /\ IsDir(t, i) THEN @ - 1 ELSE @]
        t2 == [t1 EXCEPT ![dd].ents = WithName(@, dn, i),
                 ![dd].links = IF sd # dd /\ IsDir(t, i) THEN @ + 1 ELSE @]
    IN  [k \in Inodes |-> IF k \in gone THEN [t2[k] EXCEPT !.links = links]
                          ELSE t2[k]]

(***************************************************************************)
(* Move() of inode i, in memory: the name goes from one directory to the   *)
(* other, and with a directory the link its ".." makes; a file it replaces *)
(* loses a link.  links is what Move() writes to the replaced inode's      *)
(* LinkCount: what it read there, less one.  One flushInodes() of all of   *)
(* them ends it, and the daemon goes down when it fails.                   *)
(***************************************************************************)
Move(t, sd, sn, dd, dn, i, links) ==
    LET across == sd # dd /\ IsDir(t, i)
        gone == Replaced(t, dd, dn)
        t1 == [t EXCEPT ![sd].ents = WithoutName(@, sn),
                        ![sd].links = IF across THEN @ - 1 ELSE @,
                        ![i].ents = IF across THEN WithName(@, DotDot, dd) ELSE @]
        t2 == [t1 EXCEPT ![dd].ents = WithName(@, dn, i),
                         ![dd].links = IF across THEN @ + 1 ELSE @]
    IN  [k \in Inodes |-> IF k \in gone THEN [t2[k] EXCEPT !.links = links]
                          ELSE t2[k]]

-----------------------------------------------------------------------------
\* ReadDir() with a previous name: the entries after it in name order, at most
\* max of them (0: no maximum).  It is an error to start beyond the last one.
InOrder(S) ==
    [k \in 1..Cardinality(S) |-> CHOOSE n \in S : Cardinality({m \in S : m < n}) = k - 1]

After(t, d, prev) == InOrder({n \in DOMAIN t[d].ents : n > prev})

ReadDir(t, d, prev, max) ==
    LET names == After(t, d, prev)
    IN  IF max = 0 \/ max >= Len(names) THEN names ELSE SubSeq(names, 1, max)

\* ReadDir() with a previous location: the entry at the next index.
ReadDirAt(t, d, location) ==
    LET names == ReadDir(t, d, -1, 0)
    IN  IF location + 1 < Len(names) THEN <<names[location + 2]>> ELSE <<>>

-----------------------------------------------------------------------------
\* In memory; a flush follows.
SetPermMode(t, i, open) == [t EXCEPT ![i].open = open]

\* Access(): F_OK asks if the inode is allocated; P_OK if the caller owns it,
\* which every client does; the others ask its permission bits.
Access(t, i, mode) ==
    t[i].live /\ (mode \in {"F_OK", "P_OK"} \/ t[i].open)

\* What an inode's LinkCount counts: the entries that refer to it, a
\* directory's own "." and its children's ".." among them.
LinksOf(t, i) ==
    SumFunctionOnSet([d \in Live(t) |->
                        Cardinality({n \in DOMAIN t[d].ents : t[d].ents[n] = i})],
                     Live(t))
=============================================================================
