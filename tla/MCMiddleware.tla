----------------------------- MODULE MCMiddleware -----------------------------
EXTENDS Middleware, TLC

Up == [abs |-> FALSE, segs |-> <<DotDot>>]
Top == [abs |-> TRUE, segs |-> <<2>>]

MCTargets == {Top}

MCPaths == {<<>>, <<2>>, <<3, 3>>, <<2, 2, 3>>}

Elem(d, n) == [dir |-> <<d>>, n |-> n]

MCMerges ==
    {[dest |-> <<2, 3>>, n |-> 2, elems |-> <<Elem(2, 2)>>],
     [dest |-> <<3>>, n |-> 3, elems |-> <<Elem(2, 3), Elem(3, 2)>>],
     [dest |-> <<3>>, n |-> 3, elems |-> <<Elem(2, 3)>>],
     [dest |-> <<2, 2>>, n |-> 3, elems |-> <<Elem(3, 3)>>],
     [dest |-> <<2, 2, 3>>, n |-> 2, elems |-> <<Elem(3, 3)>>]}

Empty == [i \in Inodes |-> IF i = RootDir THEN RootInode ELSE Unallocated]

\* mkdir 2; create 2/2; link 2/2 as 3.
Linked ==
    LET t1 == Link(CreateDir(Empty), 1, 2, 2)
        t2 == Link(CreateFile(t1), 2, 2, 3)
    IN  Link(t2, 1, 3, 3)

\* mkdir 2; create 2/3; mkdir 3.
TwoDirs ==
    LET t1 == Link(CreateDir(Empty), 1, 2, 2)
        t2 == Link(CreateFile(t1), 2, 3, 3)
    IN  Link(CreateDir(t2), 1, 3, 4)

\* The same; mkdir 3/3; create 3/3/2.
Tree == Link(CreateFile(Link(CreateDir(TwoDirs), 4, 3, 5)), 5, 2, 6)

\* mkdir 2; create 2/3; symlink 3 -> "/2"; symlink 2/2 -> "..".
Symlinks ==
    LET t1 == Link(CreateDir(Empty), 1, 2, 2)
        t2 == Link(CreateFile(t1), 2, 3, 3)
        t3 == Link(CreateSymlink(t2, Top), 1, 3, 4)
    IN  Link(CreateSymlink(t3, Up), 2, 2, 5)

\* mkdir 2; mkdir 3; create 3/3; symlink 2/2 -> "/2".
Loop ==
    LET t1 == Link(CreateDir(Link(CreateDir(Empty), 1, 2, 2)), 1, 3, 3)
        t2 == Link(CreateFile(t1), 3, 3, 4)
    IN  Link(CreateSymlink(t2, Top), 2, 2, 5)

MCVolumes == {Linked, TwoDirs, Tree, Symlinks, Loop}

MCSymmetry == Permutations(Clients)
=============================================================================
