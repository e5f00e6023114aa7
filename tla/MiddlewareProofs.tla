--------------------------- MODULE MiddlewareProofs ---------------------------
(***************************************************************************)
(* No call of Middleware leaves a lock behind: Spec => []NoLockLeft.       *)
(*                                                                         *)
(* A call ends with Unlock()s of the inodes it remembers.  The inductive   *)
(* invariant LocksInv says of each place in a call that the client has no  *)
(* request in any other inode (Bounded), so that these Unlock()s leave it  *)
(* none.  For resolvePath(), which gives up one of its requests at a time, *)
(* it says in addition that a client has one request only in the directory *)
(* it is about to give up: it asks for exclusive locks, and two of them in *)
(* one queue are never both granted (GrantedOnce).  A step of one client   *)
(* disturbs none of the requests of the others (Undisturbed).              *)
(***************************************************************************)
EXTENDS Middleware, TLAPS, WellFoundedInduction

\* Induction over the natural numbers, for a set instead of a predicate.
LEMMA Induction ==
    ASSUME NEW S, 0 \in S, \A n \in Nat : n \in S => n + 1 \in S
    PROVE  Nat \subseteq S
  <1> DEFINE Bad == Nat \ S
  <1>1. ASSUME NEW x \in Bad PROVE \E y \in Bad : y < x
    <2>1. x - 1 \in Nat /\ x - 1 < x
      BY <1>1
    <2> QED BY <2>1, <1>1
  <1>2. \A x, y \in Nat : y < x => <<y, x>> \in OpToRel(<, Nat)
    BY Zenon DEF OpToRel
  <1>3. Bad \subseteq Nat
    BY Zenon
  <1> HIDE DEF Bad
  <1>4. Bad = {}
    BY Zenon, <1>1, <1>2, <1>3, WFMin, NatLessThanWellFounded
  <1> QED BY Zenon, <1>4 DEF Bad

\* A set of places in a queue that is not empty has a last one: Drops takes it.
LEMMA Largest ==
    ASSUME NEW n \in Nat, NEW T \in SUBSET (1..n), T # {}
    PROVE  \E k \in T : \A j \in T : j <= k
  <1> DEFINE Topped(U) == \E k \in U : \A j \in U : j <= k
             S == {m \in Nat : \A U \in SUBSET (1..m) : U # {} => Topped(U)}
  <1>1. 0 \in S
    <2>1. \A U \in SUBSET (1..0) : U = {}
      OBVIOUS
    <2> QED BY Zenon, <2>1
  <1>2. ASSUME NEW m \in Nat, m \in S PROVE m + 1 \in S
    <2> SUFFICES ASSUME NEW U \in SUBSET (1..(m + 1)), U # {} PROVE Topped(U)
      OBVIOUS
    <2>1. CASE m + 1 \in U
      BY <2>1
    <2>2. CASE m + 1 \notin U
      <3>1. U \in SUBSET (1..m)
        BY <2>2
      <3> QED BY Zenon, <3>1, <1>2
    <2> QED BY Zenon, <2>1, <2>2
  <1> HIDE DEF S
  <1>3. n \in S
    BY Zenon, <1>1, <1>2, Induction
  <1> QED BY Zenon, <1>3 DEF S

\* f is the function that Without() computes, up to the n-th request.
KeptAt(q, c, f, k) == IF q[k].c = c THEN f[k - 1] ELSE Append(f[k - 1], q[k])

Kept(q, c, f, n) ==
    /\ f = [k \in 0..n |-> f[k]]
    /\ f[0] = <<>>
    /\ \A k \in 1..n : f[k] = KeptAt(q, c, f, k)

\* The recursive function in Without has the values its definition gives.
LEMMA KeptExists ==
    ASSUME NEW R, NEW q \in Seq(R), NEW c
    PROVE  \E f : Kept(q, c, f, Len(q))
  <1> DEFINE S == {n \in Nat : \E f : Kept(q, c, f, n)}
  <1>1. 0 \in S
    <2>1. Kept(q, c, [k \in 0..0 |-> <<>>], 0)
      BY DEF Kept
    <2> QED BY Zenon, <2>1
  <1>2. ASSUME NEW n \in Nat, n \in S PROVE n + 1 \in S
    <2>1. PICK f : Kept(q, c, f, n)
      BY Zenon, <1>2
    <2> DEFINE g == [k \in 0..(n + 1) |-> IF k = n + 1 THEN KeptAt(q, c, f, n + 1) ELSE f[k]]
    <2>2. g[0] = <<>> /\ g[n + 1] = KeptAt(q, c, f, n + 1) /\ \A k \in 0..n : g[k] = f[k]
      BY <2>1 DEF Kept
    <2>3. g = [k \in 0..(n + 1) |-> g[k]]
      BY Zenon
    <2> HIDE DEF g
    <2>4. ASSUME NEW k \in 1..(n + 1) PROVE KeptAt(q, c, g, k) = KeptAt(q, c, f, k)
      <3>1. k - 1 \in 0..n
        OBVIOUS
      <3>2. g[k - 1] = f[k - 1]
        BY Zenon, <2>2, <3>1
      <3> QED BY Zenon, <3>2 DEF KeptAt
    <2>5. \A k \in 1..(n + 1) : g[k] = KeptAt(q, c, g, k)
      <3> TAKE k \in 1..(n + 1)
      <3>1. CASE k \in 1..n
        BY <2>1, <2>2, <2>4, <3>1 DEF Kept
      <3>2. CASE k = n + 1
        BY Zenon, <2>2, <2>4, <3>2
      <3> QED BY <3>1, <3>2
    <2>6. Kept(q, c, g, n + 1)
      BY Zenon, <2>2, <2>3, <2>5 DEF Kept
    <2> QED BY <2>6
  <1> HIDE DEF S
  <1>3. Nat \subseteq S
    BY Zenon, <1>1, <1>2, Induction
  <1> QED BY <1>3 DEF S

\* s is what is left of the first n requests of q, in the same order: f says where
\* they were.
Places(s, q, n, f) ==
    /\ f \in [1..Len(s) -> 1..n]
    /\ \A j, k \in 1..Len(s) : j < k => f[j] < f[k]
    /\ \A j \in 1..Len(s) : s[j] = q[f[j]]

Subsequence(s, q) == \E f : Places(s, q, Len(q), f)

\* Unlock() of client c keeps the requests of the others in their order, and the
\* first one at the head if it is not one of c.
LEMMA WithoutKeepsOrder ==
    ASSUME NEW R, NEW q \in Seq(R), NEW c
    PROVE  /\ Without(q, c) \in Seq(R)
           /\ \A k \in DOMAIN Without(q, c) : Without(q, c)[k].c # c
           /\ Subsequence(Without(q, c), q)
           /\ q # <<>> /\ q[1].c # c =>
                Without(q, c) # <<>> /\ Without(q, c)[1] = q[1]
  <1> DEFINE Fold(f) == f = [k \in 0..Len(q) |->
                      IF k = 0 THEN <<>>
                      ELSE IF q[k].c = c THEN f[k - 1] ELSE Append(f[k - 1], q[k])]
             kept == CHOOSE f : Fold(f)
  <1>a. ASSUME NEW f PROVE Fold(f) <=> Kept(q, c, f, Len(q))
    <2>1. ASSUME Fold(f) PROVE Kept(q, c, f, Len(q))
      <3> DEFINE b == [k \in 0..Len(q) |->
                      IF k = 0 THEN <<>>
                      ELSE IF q[k].c = c THEN f[k - 1] ELSE Append(f[k - 1], q[k])]
      <3>1. f = b
        BY Zenon, <2>1, Zenon
      <3>2. b[0] = <<>> /\ \A k \in 1..Len(q) : b[k] = KeptAt(q, c, f, k)
        BY DEF KeptAt
      <3>3. b = [k \in 0..Len(q) |-> b[k]]
        BY Zenon
      <3> HIDE DEF b
      <3> QED BY Zenon, <3>1, <3>2, <3>3 DEF Kept
    <2>2. ASSUME Kept(q, c, f, Len(q)) PROVE Fold(f)
      <3>1. f = [k \in 0..Len(q) |-> f[k]]
        BY Zenon, <2>2 DEF Kept
      <3>2. ASSUME NEW k \in 0..Len(q)
            PROVE  f[k] = IF k = 0 THEN <<>>
                          ELSE IF q[k].c = c THEN f[k - 1] ELSE Append(f[k - 1], q[k])
        <4>1. CASE k = 0
          BY Zenon, <2>2, <4>1 DEF Kept
        <4>2. CASE k # 0
          <5>1. k \in 1..Len(q)
            BY <4>2
          <5> QED BY Zenon, <2>2, <4>2, <5>1 DEF Kept, KeptAt
        <4> QED BY Zenon, <4>1, <4>2
      <3>3. [k \in 0..Len(q) |-> f[k]]
              = [k \in 0..Len(q) |-> IF k = 0 THEN <<>>
                  ELSE IF q[k].c = c THEN f[k - 1] ELSE Append(f[k - 1], q[k])]
        BY Zenon, <3>2
      <3> QED BY Zenon, <3>1, <3>3
    <2> QED BY Zenon, <2>1, <2>2
  <1>b. Without(q, c) = kept[Len(q)]
    BY Zenon DEF Without
  <1>c. Fold(kept)
    <2> HIDE DEF Fold
    <2> QED BY Zenon, <1>a, KeptExists
  <1> HIDE DEF kept, Fold
  <1>1. Kept(q, c, kept, Len(q)) /\ Without(q, c) = kept[Len(q)]
    BY Zenon, <1>a, <1>b, <1>c
  <1> DEFINE Good(s, n) ==
        /\ s \in Seq(R) /\ Len(s) \in 0..n
        /\ \A k \in 1..Len(s) : s[k].c # c
        /\ \E f : Places(s, q, n, f)
        /\ n > 0 /\ q[1].c # c => Len(s) > 0 /\ s[1] = q[1]
  <1> DEFINE S == {n \in Nat : n <= Len(q) => Good(kept[n], n)}
  <1>2. 0 \in S
    <2>1. kept[0] = <<>>
      BY Zenon, <1>1 DEF Kept
    <2>2. Places(<<>>, q, 0, [j \in 1..0 |-> j])
      BY DEF Places
    <2>3. Good(<<>>, 0)
      BY <2>2
    <2> QED BY Zenon, <2>1, <2>3
  <1>3. ASSUME NEW n \in Nat, n \in S PROVE n + 1 \in S
    <2> SUFFICES ASSUME n + 1 <= Len(q) PROVE Good(kept[n + 1], n + 1)
      OBVIOUS
    <2> DEFINE s == kept[n]
    <2>1. Good(s, n) /\ q[n + 1] \in R
      BY <1>3
    <2>2. kept[n + 1] = IF q[n + 1].c = c THEN s ELSE Append(s, q[n + 1])
      <3>1. n + 1 \in 1..Len(q) /\ (n + 1) - 1 = n
        OBVIOUS
      <3> QED BY Zenon, <1>1, <3>1 DEF Kept, KeptAt
    <2> HIDE DEF s
    <2>3. PICK f : Places(s, q, n, f)
      BY Zenon, <2>1
    <2>4. CASE q[n + 1].c = c
      <3>1. Places(s, q, n + 1, f)
        BY <2>1, <2>3 DEF Places
      <3>2. q[1].c # c => n > 0
        BY <2>4
      <3>3. Good(s, n + 1)
        BY <2>1, <2>3, <3>1, <3>2
      <3> QED BY Zenon, <2>2, <2>4, <3>3
    <2>5. CASE q[n + 1].c # c
      <3> DEFINE u == Append(s, q[n + 1])
                 g == [j \in 1..(Len(s) + 1) |-> IF j <= Len(s) THEN f[j] ELSE n + 1]
      <3>1. u \in Seq(R) /\ Len(u) = Len(s) + 1 /\ Len(s) \in Nat
            /\ (\A j \in 1..Len(s) : u[j] = s[j]) /\ u[Len(s) + 1] = q[n + 1]
        BY <2>1
      <3>2. g \in [1..Len(u) -> 1..(n + 1)]
        BY <3>1, <2>1, <2>3 DEF Places
      <3>9. \A j \in 1..Len(s) : f[j] \in 1..n
        BY Zenon, <2>3 DEF Places
      <3>10. Len(s) \in Nat
        BY Zenon, <3>1
      <3>11. (\A j \in 1..Len(s) : g[j] = f[j]) /\ g[Len(s) + 1] = n + 1
        BY <3>10
      <3>12. /\ \A j \in 1..Len(s) : g[j] = f[j] /\ f[j] \in 1..n
            /\ g[Len(s) + 1] = n + 1
        BY Zenon, <3>9, <3>11
      <3> HIDE DEF u, g
      <3>3. \A j, k \in 1..Len(u) : j < k => g[j] < g[k]
        <4> TAKE j, k \in 1..Len(u)
        <4>1. CASE k \in 1..Len(s)
          BY SMTT(60), <4>1, <3>12, <2>3 DEF Places
        <4>2. CASE k = Len(s) + 1
          <5>1. j < k => j \in 1..Len(s)
            BY <4>2, <3>1
          <5> QED BY <5>1, <4>2, <3>12
        <4> QED BY <4>1, <4>2, <3>1
      <3>4. \A j \in 1..Len(u) : u[j] = q[g[j]]
        <4> TAKE j \in 1..Len(u)
        <4>1. CASE j \in 1..Len(s)
          BY Zenon, <4>1, <3>12, <2>3, <3>1 DEF Places
        <4>2. CASE j = Len(s) + 1
          BY Zenon, <3>1, <4>2, <3>12
        <4> QED BY <4>1, <4>2, <3>1
      <3>5. \A j \in 1..Len(u) : u[j].c # c
        BY <3>1, <2>1, <2>5
      <3>6. q[1].c # c => Len(u) > 0 /\ u[1] = q[1]
        <4>1. CASE n = 0
          <5>1. Len(s) = 0
            BY <2>1, <4>1
          <5> QED BY <5>1, <3>1, <4>1
        <4>2. CASE n > 0
          BY <3>1, <2>1, <4>2
        <4> QED BY <4>1, <4>2
      <3>7. Places(u, q, n + 1, g)
        BY Zenon, <3>2, <3>3, <3>4 DEF Places
      <3>8. Good(u, n + 1)
        BY <3>1, <3>5, <3>6, <3>7, <2>1
      <3> QED BY Zenon, <3>8, <2>2, <2>5 DEF u
    <2> QED BY Zenon, <2>4, <2>5
  <1> HIDE DEF S
  <1>4. Nat \subseteq S
    BY Zenon, <1>2, <1>3, Induction
  <1>5. Good(kept[Len(q)], Len(q))
    <2>1. Len(q) \in S
      BY <1>4
    <2> QED BY <2>1 DEF S
  <1> QED BY <1>1, <1>5 DEF Subsequence

-----------------------------------------------------------------------------
\* The lock tables.
Mode == {"shared", "exclusive"}
Asked == [c : Clients, m : Mode]
Tables == [Inodes -> Seq(Asked)]

\* Client x has no request in the queue q; it has no two; it has exclusive ones
\* only; it is the first.
HasNone(q, x) == \A k \in 1..Len(q) : q[k].c # x
Once(q, x) == \A j, k \in 1..Len(q) : q[j].c = x /\ q[k].c = x => j = k
Exclusive(q, x) == \A k \in 1..Len(q) : q[k].c = x => q[k].m = "exclusive"
First(q, x) == Len(q) > 0 /\ q[1].c = x

\* From q to u nothing changes for client x.
Undisturbed(q, u, x) ==
    /\ HasNone(q, x) => HasNone(u, x)
    /\ Once(q, x) => Once(u, x)
    /\ Exclusive(q, x) => Exclusive(u, x)
    /\ First(q, x) => First(u, x) /\ u[1] = q[1]

\* From L to M nothing changes for the clients other than c.
Others(L, M, c) ==
    \A x \in Clients \ {c} : \A i \in Inodes : Undisturbed(L[i], M[i], x)

\* For a client whose request stays first, a queue with some requests less is as
\* good as before.
LEMMA UndisturbedBySubsequence ==
    ASSUME NEW q \in Seq(Asked), NEW u \in Seq(Asked), NEW x, Subsequence(u, q),
           First(q, x) => First(u, x) /\ u[1] = q[1]
    PROVE  Undisturbed(q, u, x)
  <1>1. PICK f : Places(u, q, Len(q), f)
    BY Zenon DEF Subsequence
  <1>2. \A j \in 1..Len(u) : f[j] \in 1..Len(q) /\ u[j] = q[f[j]]
    BY Zenon, <1>1 DEF Places
  <1>3. \A j, k \in 1..Len(u) : f[j] = f[k] => j = k
    BY <1>1, <1>2 DEF Places
  <1>4. HasNone(q, x) => HasNone(u, x)
    BY Zenon, <1>2 DEF HasNone
  <1>5. Once(q, x) => Once(u, x)
    BY SMTT(30), <1>2, <1>3 DEF Once
  <1>6. Exclusive(q, x) => Exclusive(u, x)
    BY Zenon, <1>2 DEF Exclusive
  <1> QED BY Zenon, <1>4, <1>5, <1>6 DEF Undisturbed

\* A queue that does not change disturbs nobody.
LEMMA SameIsUndisturbed ==
    ASSUME NEW q, NEW x
    PROVE  Undisturbed(q, q, x)
  BY Zenon DEF Undisturbed

\* Two changes of the lock table that disturb no other client are one such change.
LEMMA OthersTwice ==
    ASSUME NEW c, NEW L, NEW M, NEW N, Others(L, M, c), Others(M, N, c)
    PROVE  Others(L, N, c)
  BY DEF Others, Undisturbed

\* Unlock(): c has no request left in the queue, and the others are not disturbed.
LEMMA WithoutOthers ==
    ASSUME NEW q \in Seq(Asked), NEW c
    PROVE  /\ Without(q, c) \in Seq(Asked)
           /\ HasNone(Without(q, c), c)
           /\ \A x : x # c => Undisturbed(q, Without(q, c), x)
  <1> DEFINE u == Without(q, c)
  <1>1. /\ u \in Seq(Asked)
        /\ \A k \in DOMAIN u : u[k].c # c
        /\ Subsequence(u, q)
        /\ q # <<>> /\ q[1].c # c => u # <<>> /\ u[1] = q[1]
    BY Zenon, WithoutKeepsOrder, Zenon
  <1> HIDE DEF u
  <1>2. HasNone(u, c)
    BY <1>1 DEF HasNone
  <1>3. ASSUME NEW x, x # c PROVE First(q, x) => First(u, x) /\ u[1] = q[1]
    BY <1>1, <1>3 DEF First
  <1>4. \A x : x # c => Undisturbed(q, u, x)
    BY Zenon, <1>1, <1>3, UndisturbedBySubsequence
  <1> QED BY Zenon, <1>1, <1>2, <1>4 DEF u

\* ReadLock() and WriteLock(): a request at the end disturbs no other client.
LEMMA AppendOthers ==
    ASSUME NEW q \in Seq(Asked), NEW r \in Asked
    PROVE  /\ Append(q, r) \in Seq(Asked)
           /\ \A x : x # r.c => Undisturbed(q, Append(q, r), x)
           /\ r.m = "exclusive" /\ Exclusive(q, r.c) => Exclusive(Append(q, r), r.c)
  <1> DEFINE u == Append(q, r)
  <1>1. /\ u \in Seq(Asked) /\ Len(u) = Len(q) + 1 /\ Len(q) \in Nat
        /\ (\A k \in 1..Len(q) : u[k] = q[k]) /\ u[Len(q) + 1] = r
    OBVIOUS
  <1> HIDE DEF u
  <1>2. ASSUME NEW x, x # r.c PROVE Undisturbed(q, u, x)
    <2>1. HasNone(q, x) => HasNone(u, x)
      BY <1>1, <1>2 DEF HasNone
    <2>2. Once(q, x) => Once(u, x)
      BY <1>1, <1>2 DEF Once
    <2>3. Exclusive(q, x) => Exclusive(u, x)
      BY <1>1, <1>2 DEF Exclusive
    <2>4. First(q, x) => First(u, x) /\ u[1] = q[1]
      BY <1>1, <1>2 DEF First
    <2> QED BY Zenon, <2>1, <2>2, <2>3, <2>4 DEF Undisturbed
  <1>3. r.m = "exclusive" /\ Exclusive(q, r.c) => Exclusive(u, r.c)
    BY <1>1 DEF Exclusive
  <1> QED BY Zenon, <1>1, <1>2, <1>3 DEF u

\* One request less.
Cut(q, k) == SubSeq(q, 1, k - 1) \o SubSeq(q, k + 1, Len(q))

\* Unlock() of one of two locks: without one request of c the others are not
\* disturbed, and c has none left if it had one.
LEMMA CutOthers ==
    ASSUME NEW q \in Seq(Asked), NEW k \in 1..Len(q)
    PROVE  /\ Cut(q, k) \in Seq(Asked)
           /\ \A x : x # q[k].c => Undisturbed(q, Cut(q, k), x)
           /\ HasNone(q, q[k].c) => HasNone(Cut(q, k), q[k].c)
           /\ Once(q, q[k].c) => HasNone(Cut(q, k), q[k].c)
           /\ Exclusive(q, q[k].c) => Exclusive(Cut(q, k), q[k].c)
  <1> DEFINE u == Cut(q, k)
             f == [j \in 1..(Len(q) - 1) |-> IF j < k THEN j ELSE j + 1]
  <1>a. PICK a : a = SubSeq(q, 1, k - 1)
    BY Zenon
  <1>b. PICK b : b = SubSeq(q, k + 1, Len(q))
    BY Zenon
  <1>1. /\ a \in Seq(Asked) /\ Len(a) = k - 1
        /\ \A j \in 1..(k - 1) : a[j] = q[j]
    BY <1>a
  <1>2. /\ b \in Seq(Asked) /\ Len(b) = Len(q) - k
        /\ \A j \in 1..(Len(q) - k) : b[j] = q[k + j]
    BY <1>b
  <1>c. u = a \o b
    BY Zenon, <1>a, <1>b DEF Cut
  <1>g. a \in Seq(Asked) /\ b \in Seq(Asked)
    BY Zenon, <1>1, <1>2
  <1>h. Len(a \o b) = Len(a) + Len(b)
    BY <1>g
  <1>d. a \o b \in Seq(Asked) /\ Len(a \o b) = Len(a) + Len(b)
    BY <1>g, <1>h
  <1>e. u \in Seq(Asked) /\ Len(u) = Len(a) + Len(b)
    BY Zenon, <1>c, <1>d
  <1>f. Len(a) + Len(b) = Len(q) - 1
    BY <1>1, <1>2
  <1>3. u \in Seq(Asked) /\ Len(u) = Len(q) - 1
    BY Zenon, <1>e, <1>f
  <1>4. \A j \in 1..(Len(q) - 1) : f[j] \in 1..Len(q) /\ f[j] # k
    OBVIOUS
  <1>5. \A i, j \in 1..(Len(q) - 1) : i < j => f[i] < f[j]
    OBVIOUS
  <1>6. \A j \in 1..(Len(q) - 1) : u[j] = q[f[j]]
    <2> TAKE j \in 1..(Len(q) - 1)
    <2>1. CASE j < k
      BY <1>1, <1>2, <1>c, <2>1
    <2>2. CASE j >= k
      <3>1. u[j] = b[j - (k - 1)]
        BY <1>1, <1>2, <1>c, <2>2
      <3>2. j - (k - 1) \in 1..(Len(q) - k) /\ k + (j - (k - 1)) = j + 1
        BY <2>2
      <3> QED BY <1>2, <2>2, <3>1, <3>2
    <2> QED BY <2>1, <2>2
  <1>7. f \in [1..(Len(q) - 1) -> 1..Len(q)]
    OBVIOUS
  <1> HIDE DEF u, f
  <1>8. Subsequence(u, q)
    BY Zenon, <1>3, <1>5, <1>6, <1>7 DEF Subsequence, Places
  <1>9. ASSUME NEW x, x # q[k].c, First(q, x) PROVE First(u, x) /\ u[1] = q[1]
    <2>1. k > 1 /\ Len(q) > 1
      BY <1>9 DEF First
    <2>2. u[1] = q[1]
      BY <2>1, <1>6 DEF f
    <2> QED BY <2>1, <2>2, <1>3, <1>9 DEF First
  <1>10. \A x : x # q[k].c => Undisturbed(q, u, x)
    BY Zenon, <1>3, <1>8, <1>9, UndisturbedBySubsequence
  <1>11. Once(q, q[k].c) => HasNone(u, q[k].c)
    BY ZenonT(60), <1>3, <1>4, <1>6 DEF Once, HasNone
  <1>12. Exclusive(q, q[k].c) => Exclusive(u, q[k].c)
    BY SMTT(60), <1>3, <1>4, <1>6 DEF Exclusive
  <1>13. HasNone(q, q[k].c) => HasNone(u, q[k].c)
    BY Zenon DEF HasNone
  <1> QED BY Zenon, <1>3, <1>10, <1>11, <1>12, <1>13 DEF u

-----------------------------------------------------------------------------
\* All the requests of client x are for inodes of S.
Within(L, x, S) == \A i \in Inodes \ S : HasNone(L[i], x)

AllExclusive(L, x) == \A i \in Inodes : Exclusive(L[i], x)

\* What a request for the lock of i does to the lock table.
LEMMA RequestsTable ==
    ASSUME NEW L \in Tables, NEW c \in Clients, NEW i, NEW m \in Mode
    PROVE  /\ Requests(L, c, i, m) \in Tables
           /\ Others(L, Requests(L, c, i, m), c)
           /\ \A S : Within(L, c, S) => Within(Requests(L, c, i, m), c, S \cup {i})
           /\ \A j \in Inodes : j # i => Requests(L, c, i, m)[j] = L[j]
           /\ m = "exclusive" /\ AllExclusive(L, c) => AllExclusive(Requests(L, c, i, m), c)
  <1> DEFINE M == Requests(L, c, i, m)
             r == [c |-> c, m |-> m]
  <1>1. r \in Asked /\ r.c = c /\ r.m = m
    BY Zenon DEF Asked
  <1>2. M = [L EXCEPT ![i] = Append(L[i], r)]
    BY Zenon DEF Requests, Tables
  <1> HIDE DEF M, r
  <1>3. ASSUME NEW j \in Inodes
        PROVE  /\ L[j] \in Seq(Asked)
               /\ j = i => M[j] = Append(L[j], r)
               /\ j # i => M[j] = L[j]
    BY Zenon, <1>2 DEF Tables
  <1>4. ASSUME NEW j \in Inodes
        PROVE  /\ M[j] \in Seq(Asked)
               /\ \A x : x # c => Undisturbed(L[j], M[j], x)
               /\ m = "exclusive" /\ Exclusive(L[j], c) => Exclusive(M[j], c)
    BY Zenon, <1>1, <1>3, AppendOthers, SameIsUndisturbed
  <1>5. M \in Tables
    BY Zenon, <1>2, <1>4 DEF Tables
  <1>6. Others(L, M, c)
    BY Zenon, <1>4 DEF Others
  <1>7. \A S : Within(L, c, S) => Within(M, c, S \cup {i})
    BY Zenon, <1>3 DEF Within
  <1>8. m = "exclusive" /\ AllExclusive(L, c) => AllExclusive(M, c)
    BY Zenon, <1>4 DEF AllExclusive
  <1> QED BY Zenon, <1>3, <1>5, <1>6, <1>7, <1>8 DEF M

\* What Unlock() of all that c has in i does to the lock table.
LEMMA ReleasesTable ==
    ASSUME NEW L \in Tables, NEW c \in Clients, NEW i
    PROVE  /\ Releases(L, c, i) \in Tables
           /\ Others(L, Releases(L, c, i), c)
           /\ \A S : Within(L, c, S) => Within(Releases(L, c, i), c, S \ {i})
  <1> DEFINE M == Releases(L, c, i)
  <1>2. M = [L EXCEPT ![i] = Without(L[i], c)]
    BY Zenon DEF Releases, Tables
  <1> HIDE DEF M
  <1>3. ASSUME NEW j \in Inodes
        PROVE  /\ L[j] \in Seq(Asked)
               /\ j = i => M[j] = Without(L[j], c)
               /\ j # i => M[j] = L[j]
    BY Zenon, <1>2 DEF Tables
  <1>4. ASSUME NEW j \in Inodes
        PROVE  /\ M[j] \in Seq(Asked)
               /\ \A x : x # c => Undisturbed(L[j], M[j], x)
               /\ j = i => HasNone(M[j], c)
    BY Zenon, <1>3, WithoutOthers, SameIsUndisturbed
  <1>5. M \in Tables
    BY Zenon, <1>2, <1>4 DEF Tables
  <1>6. Others(L, M, c)
    BY Zenon, <1>4 DEF Others
  <1>7. \A S : Within(L, c, S) => Within(M, c, S \ {i})
    BY Zenon, <1>3, <1>4 DEF Within
  <1> QED BY Zenon, <1>5, <1>6, <1>7 DEF M

\* What Unlock() of one request of c in i does to the lock table.
LEMMA DropsTable ==
    ASSUME NEW L \in Tables, NEW c \in Clients, NEW i
    PROVE  /\ Drops(L, c, i) \in Tables
           /\ Others(L, Drops(L, c, i), c)
           /\ \A S : Within(L, c, S) => Within(Drops(L, c, i), c, S)
           /\ \A S : Within(L, c, S) /\ (i \in Inodes => Once(L[i], c))
                       => Within(Drops(L, c, i), c, S \ {i})
           /\ \A j \in Inodes : j # i => Drops(L, c, i)[j] = L[j]
           /\ AllExclusive(L, c) => AllExclusive(Drops(L, c, i), c)
  <1> DEFINE M == Drops(L, c, i)
             mine == {k \in DOMAIN L[i] : L[i][k].c = c}
             last == CHOOSE k \in mine : \A j \in mine : j <= k
  <1>1. M = IF mine = {} THEN L ELSE [L EXCEPT ![i] = Cut(L[i], last)]
    BY Zenon DEF Drops, Cut, Tables
  <1>2. CASE i \notin Inodes
    <2>1. M = L
      BY Zenon, <1>1, <1>2 DEF Tables
    <2>2. Others(L, L, c)
      BY Zenon, SameIsUndisturbed DEF Others
    <2>3. \A S : Within(L, c, S) => Within(L, c, S \ {i})
      BY Zenon, <1>2 DEF Within
    <2> QED BY Zenon, <2>1, <2>2, <2>3
  <1>3. CASE i \in Inodes
    <2>1. L[i] \in Seq(Asked) /\ mine \subseteq 1..Len(L[i])
      BY <1>3 DEF Tables
    <2>2. CASE mine = {}
      <3>1. M = L
        BY Zenon, <1>1, <2>2
      <3>2. HasNone(L[i], c)
        BY <2>1, <2>2 DEF HasNone
      <3>3. Others(L, L, c)
        BY Zenon, SameIsUndisturbed DEF Others
      <3>4. \A S : Within(L, c, S) => Within(L, c, S \ {i})
        BY Zenon, <3>2 DEF Within
      <3> QED BY Zenon, <3>1, <3>3, <3>4
    <2>3. CASE mine # {}
      <3>1. last \in mine
        <4>1. \E k \in mine : \A j \in mine : j <= k
          <5>1. Len(L[i]) \in Nat /\ mine \in SUBSET (1..Len(L[i]))
            BY <2>1
          <5> HIDE DEF mine
          <5> QED BY Zenon, <5>1, <2>3, Largest
        <4> QED BY Zenon, <4>1
      <3>2. last \in 1..Len(L[i]) /\ L[i][last].c = c
        BY Zenon, <2>1, <3>1
      <3>3. M = [L EXCEPT ![i] = Cut(L[i], last)]
        BY Zenon, <1>1, <2>3
      <3> HIDE DEF M, last, mine
      <3>4. ASSUME NEW j \in Inodes
            PROVE  /\ L[j] \in Seq(Asked)
                   /\ j = i => M[j] = Cut(L[j], last)
                   /\ j # i => M[j] = L[j]
        BY Zenon, <3>3 DEF Tables
      <3>5. ASSUME NEW j \in Inodes
            PROVE  /\ M[j] \in Seq(Asked)
                   /\ \A x : x # c => Undisturbed(L[j], M[j], x)
                   /\ HasNone(L[j], c) => HasNone(M[j], c)
                   /\ j = i /\ Once(L[j], c) => HasNone(M[j], c)
                   /\ Exclusive(L[j], c) => Exclusive(M[j], c)
        <4>1. CASE j = i
          BY Zenon, <3>2, <3>4, <4>1, CutOthers
        <4>2. CASE j # i
          BY Zenon, <3>4, <4>2, SameIsUndisturbed
        <4> QED BY Zenon, <4>1, <4>2
      <3>6. M \in Tables
        BY Zenon, <3>3, <3>5 DEF Tables
      <3>7. Others(L, M, c)
        BY Zenon, <3>5 DEF Others
      <3>8. /\ \A S : Within(L, c, S) => Within(M, c, S)
            /\ \A S : Within(L, c, S) /\ Once(L[i], c) => Within(M, c, S \ {i})
        BY Zenon, <3>4, <3>5, <1>3 DEF Within
      <3>9. AllExclusive(L, c) => AllExclusive(M, c)
        BY Zenon, <3>5 DEF AllExclusive
      <3> QED BY Zenon, <1>3, <3>4, <3>6, <3>7, <3>8, <3>9 DEF M
    <2> QED BY Zenon, <2>2, <2>3
  <1> QED BY Zenon, <1>2, <1>3

-----------------------------------------------------------------------------
\* The fields a call keeps when it goes on.
Shape(r) ==
    /\ "pc" \in DOMAIN r
    /\ r.pc \in {"LinkType", "LinkDrops", "LinkDir", "LinkBoth", "LinkFlushes"} =>
         {"d", "i"} \subseteq DOMAIN r
    /\ r.pc \in {"Rename", "RenameAgain", "Move"} => {"sd", "dd"} \subseteq DOMAIN r
    /\ r.pc \in {"Types", "Entry"} => {"d", "todo"} \subseteq DOMAIN r
    /\ r.pc \in {"Stats", "Stat"} => "todo" \in DOMAIN r
    /\ r.pc \in {"Dir", "Cursor", "Found"} => {"op", "held", "d"} \subseteq DOMAIN r
    /\ r.pc \in {"Cursor", "Found"} => "i" \in DOMAIN r
    /\ r.pc \in {"Dir", "Cursor", "PutFinds", "PutAsks", "PutDir", "PutEntry"} =>
         "m" \in DOMAIN r /\ r.m \in Mode

\* Where resolvePath() has requests when MiddlewareDelete() calls it.
Resolves(L, x, r) ==
    /\ r.pc # "Found" => r.m = "exclusive" /\ AllExclusive(L, x)
    /\ r.held = {}
    /\ r.pc = "Dir" => Within(L, x, {r.d})
    /\ r.pc = "Found" => Within(L, x, {r.i})
    /\ r.pc = "Cursor" =>
         /\ Within(L, x, {r.d, r.i})
         /\ r.d # r.i => \A j \in Inodes : j = r.d => Once(L[j], x)

\* Where client x, which is at r, has requests: nowhere but in the inodes that its
\* Unlock()s are for.  The calls that unlock whatever they have are left out.
Bounded(L, x, r) ==
    /\ r.pc \in {"idle", "LinkDrops", "RenameAgain", "Stats"} => Within(L, x, {})
    /\ r.pc \in {"read", "write", "Setstat", "SetXAttr", "LinkType"} => Within(L, x, {r.i})
    /\ r.pc \in {"Create", "Link", "MadeFlushes", "Unlink", "Rmdir", "LinkDir", "Readdir",
                 "Types"} =>
         Within(L, x, {r.d})
    /\ r.pc \in {"LinkBoth", "LinkFlushes", "UnlinkBoth", "RmdirBoth", "DeleteBoth"} =>
         Within(L, x, {r.d, r.i})
    /\ r.pc = "Entry" => Within(L, x, {r.d, Head(r.todo)})
    /\ r.pc = "Stat" => Within(L, x, {Head(r.todo)})
    /\ r.pc = "Rename" => Within(L, x, {r.sd})
    /\ r.pc \in {"Move", "MoveWrites", "MoveFlushes"} => Within(L, x, {r.sd, r.dd})
    /\ r.pc \in {"Dir", "Cursor", "Found"} /\ r.op = "Delete" => Resolves(L, x, r)

Placed(L, x, r) == Shape(r) /\ Bounded(L, x, r)

LocksInv ==
    /\ locks \in Tables
    /\ cl = [c \in Clients |-> cl[c]]
    /\ \A c \in Clients : Placed(locks, c, cl[c])

\* What a step of client c must do.
Stepped(c) ==
    /\ locks' \in Tables
    /\ Others(locks, locks', c)
    /\ cl' = [cl EXCEPT ![c] = cl'[c]]
    /\ Placed(locks', c, cl'[c])

\* What is known of the requests of another client survives a step of c.
LEMMA OthersBounded ==
    ASSUME NEW L, NEW M, NEW c, Others(L, M, c), NEW x \in Clients, x # c, NEW r,
           Bounded(L, x, r)
    PROVE  Bounded(M, x, r)
  <1>1. \A S : Within(L, x, S) => Within(M, x, S)
    BY Zenon DEF Others, Undisturbed, Within
  <1>2. AllExclusive(L, x) => AllExclusive(M, x)
    BY Zenon DEF Others, Undisturbed, AllExclusive
  <1>3. \A j \in Inodes : Once(L[j], x) => Once(M[j], x)
    BY Zenon DEF Others, Undisturbed
  <1>4. Resolves(L, x, r) => Resolves(M, x, r)
    BY Zenon, <1>1, <1>2, <1>3 DEF Resolves
  <1> QED BY Zenon, <1>1, <1>4 DEF Bounded

\* A step that is right for its own client and disturbs no other keeps the
\* invariant.
LEMMA SteppedKeeps ==
    ASSUME LocksInv, NEW c \in Clients, Stepped(c)
    PROVE  LocksInv'
  <1>1. cl' = [x \in Clients |-> cl'[x]] /\ \A x \in Clients : x # c => cl'[x] = cl[x]
    BY Zenon DEF LocksInv, Stepped
  <1>2. ASSUME NEW x \in Clients PROVE Placed(locks', x, cl'[x])
    <2>1. CASE x = c
      BY Zenon, <2>1 DEF Stepped
    <2>2. CASE x # c
      BY Zenon, <1>1, <2>2, OthersBounded DEF Stepped, LocksInv, Placed
    <2> QED BY Zenon, <2>1, <2>2
  <1> QED BY Zenon, <1>1, <1>2 DEF LocksInv, Stepped

\* A call begins: it has asked for the lock of i only.
LEMMA Begun ==
    ASSUME LocksInv, NEW c \in Clients, MayBegin(c), NEW i, NEW m \in Mode, NEW rec,
           Begins(c, i, m, rec)
    PROVE  /\ locks' \in Tables /\ Others(locks, locks', c)
           /\ cl' = [cl EXCEPT ![c] = cl'[c]] /\ cl'[c] = rec
           /\ Within(locks', c, {i})
           /\ m = "exclusive" => AllExclusive(locks', c)
  <1>a. Bounded(locks, c, Idle)
    BY Zenon DEF LocksInv, Placed, MayBegin
  <1>1. Within(locks, c, {})
    BY Zenon, <1>a DEF Bounded, Idle
  <1>2. AllExclusive(locks, c)
    BY Zenon, <1>1 DEF Within, AllExclusive, HasNone, Exclusive
  <1>3. locks' = Requests(locks, c, i, m) /\ locks \in Tables
    BY Zenon DEF Begins, LocksInv
  <1>4. cl' = [cl EXCEPT ![c] = rec] /\ cl = [x \in Clients |-> cl[x]]
    BY Zenon DEF Begins, LocksInv
  <1>5. Within(locks', c, {} \cup {i})
    BY Zenon, <1>1, <1>3, RequestsTable
  <1>6. {} \cup {i} = {i}
    BY Zenon
  <1> QED BY Zenon, <1>2, <1>3, <1>4, <1>5, <1>6, RequestsTable

\* A call returns, and has no request left.
LEMMA Returned ==
    ASSUME LocksInv, NEW c \in Clients, NEW held, Returns(c, held),
           Within(locks, c, held)
    PROVE  Stepped(c)
  <1>1. locks \in Tables /\ locks' = [i \in Inodes |->
                   IF i \in held THEN Releases(locks, c, i)[i] ELSE locks[i]]
    BY Zenon DEF LocksInv, Returns
  <1>2. ASSUME NEW i \in Inodes PROVE locks[i] \in Seq(Asked) /\ Releases(locks, c, i)[i] = Without(locks[i], c)
    BY Zenon, <1>1 DEF Releases, Tables
  <1>3. ASSUME NEW i \in Inodes
        PROVE  /\ locks'[i] \in Seq(Asked)
               /\ HasNone(locks'[i], c)
               /\ \A x : x # c => Undisturbed(locks[i], locks'[i], x)
    <2>1. CASE i \in held
      BY Zenon, <1>1, <1>2, <2>1, WithoutOthers
    <2>2. CASE i \notin held
      BY Zenon, <1>1, <1>2, <2>2, SameIsUndisturbed DEF Within
    <2> QED BY Zenon, <2>1, <2>2
  <1>4. locks' \in Tables
    BY Zenon, <1>1, <1>3 DEF Tables
  <1>5. Others(locks, locks', c) /\ Within(locks', c, {})
    BY Zenon, <1>3 DEF Others, Within
  <1>6. cl' = [cl EXCEPT ![c] = cl'[c]] /\ cl'[c] = Idle
    BY Zenon DEF Returns, LocksInv
  <1>7. Placed(locks', c, Idle)
    BY Zenon, <1>5 DEF Placed, Shape, Bounded, Idle
  <1> QED BY Zenon, <1>4, <1>5, <1>6, <1>7 DEF Stepped

\* The calls that keep a list of their locks unlock all of them when they return.
LEMMA ReturnedAll ==
    ASSUME LocksInv, NEW c \in Clients, Returns(c, Inodes)
    PROVE  Stepped(c)
  BY Zenon, Returned DEF Within

\* A call that only goes on to the next place keeps what it remembers.
LEMMA PcSet ==
    ASSUME LocksInv, NEW c \in Clients, NEW p, cl' = [cl EXCEPT ![c].pc = p]
    PROVE  /\ cl' = [cl EXCEPT ![c] = cl'[c]]
           /\ cl'[c].pc = p
           /\ DOMAIN cl'[c] = DOMAIN cl[c]
           /\ \A f \in DOMAIN cl[c] : f # "pc" => cl'[c][f] = cl[c][f]
  <1>1. "pc" \in DOMAIN cl[c] /\ cl = [x \in Clients |-> cl[x]]
    BY Zenon DEF LocksInv, Placed, Shape
  <1>2. cl'[c] = [cl[c] EXCEPT !.pc = p]
    BY Zenon, <1>1
  <1> QED BY Zenon, <1>1, <1>2

\* A call that remembers something else.
LEMMA RecSet ==
    ASSUME LocksInv, NEW c \in Clients, NEW r, cl' = [cl EXCEPT ![c] = r]
    PROVE  cl' = [cl EXCEPT ![c] = cl'[c]] /\ cl'[c] = r
  BY Zenon DEF LocksInv

\* The fields of Over.
LEMMA OverFields ==
    ASSUME NEW rec, NEW r
    PROVE  /\ DOMAIN Over(rec, r) = DOMAIN rec \cup DOMAIN r
           /\ \A f \in DOMAIN rec : Over(rec, r)[f] = rec[f]
           /\ \A f \in DOMAIN r \ DOMAIN rec : Over(rec, r)[f] = r[f]
  BY Zenon DEF Over

\* Getstat(), Lookup(), Read() and the other calls with one shared lock.
LEMMA ReadSteps ==
    ASSUME LocksInv, NEW c \in Clients, ReadLocks(c) \/ ReadReturns(c)
    PROVE  Stepped(c)
  <1>1. CASE ReadLocks(c)
    <2>1. PICK i : MayBegin(c) /\ Begins(c, i, "shared", [pc |-> "read", i |-> i])
      BY Zenon, <1>1 DEF ReadLocks
    <2>2. Placed(locks', c, [pc |-> "read", i |-> i])
      BY Zenon, <2>1, Begun DEF Placed, Shape, Bounded, Mode
    <2> QED BY Zenon, <2>1, <2>2, Begun DEF Stepped, Mode
  <1>2. CASE ReadReturns(c)
    <2>1. Within(locks, c, {cl[c].i})
      BY Zenon, <1>2 DEF ReadReturns, At, LocksInv, Placed, Bounded
    <2> QED BY Zenon, <1>2, <2>1, Returned DEF ReadReturns
  <1> QED BY Zenon, <1>1, <1>2

\* Setstat(), SetXAttr() and the other calls with one exclusive lock.
LEMMA WriteSteps ==
    ASSUME LocksInv, NEW c \in Clients,
           Resize(c) \/ RemoveXAttr(c) \/ WriteReturns(c) \/ Setstat(c) \/ SetXAttr(c)
    PROVE  Stepped(c)
  <1>1. ASSUME NEW op \in {"write", "Setstat", "SetXAttr"}, WriteLocks(c, op) PROVE Stepped(c)
    <2>1. PICK i : MayBegin(c) /\ Begins(c, i, "exclusive", [pc |-> op, i |-> i])
      BY Zenon, <1>1 DEF WriteLocks
    <2>2. Within(locks', c, {i})
      BY Zenon, <2>1, Begun DEF Mode
    <2>3. Placed(locks', c, [pc |-> op, i |-> i])
      BY Zenon, <2>2 DEF Placed, Shape, Bounded
    <2> QED BY Zenon, <2>1, <2>3, Begun DEF Stepped, Mode
  <1>2. ASSUME cl[c].pc \in {"write", "Setstat", "SetXAttr"}, Returns(c, {cl[c].i})
        PROVE  Stepped(c)
    <2>1. Within(locks, c, {cl[c].i})
      BY ZenonT(60), <1>2 DEF LocksInv, Placed, Bounded
    <2> QED BY Zenon, <1>2, <2>1, Returned
  <1>3. CASE Resize(c) \/ RemoveXAttr(c)
    BY Zenon, <1>1, <1>3 DEF Resize, RemoveXAttr
  <1>4. CASE WriteReturns(c)
    BY Zenon, <1>2, <1>4 DEF WriteReturns, At
  <1>5. CASE Setstat(c)
    BY Zenon, <1>1, <1>2, <1>5 DEF Setstat, At
  <1>6. CASE SetXAttr(c)
    <2>1. CASE WriteLocks(c, "SetXAttr")
      BY Zenon, <1>1, <2>1
    <2>2. CASE At(c, "SetXAttr") /\ Returns(c, {cl[c].i})
      BY Zenon, <1>2, <2>2 DEF At
    <2>3. CASE /\ locks' = Requests(locks, c, cl[c].i, "shared")
               /\ cl' = [cl EXCEPT ![c].pc = "SetXAttrGets"]
      <3>1. locks' \in Tables /\ Others(locks, locks', c)
        BY Zenon, <2>3, RequestsTable DEF LocksInv, Mode
      <3>2. cl' = [cl EXCEPT ![c] = cl'[c]] /\ cl'[c].pc = "SetXAttrGets" /\ "pc" \in DOMAIN cl'[c]
        BY Zenon, <2>3, PcSet DEF LocksInv, Placed, Shape
      <3>3. Placed(locks', c, cl'[c])
        BY Zenon, <3>2 DEF Placed, Shape, Bounded
      <3> QED BY Zenon, <3>1, <3>2, <3>3 DEF Stepped
    <2> QED BY Zenon, <1>6, <2>1, <2>2, <2>3 DEF SetXAttr
  <1> QED BY Zenon, <1>3, <1>4, <1>5, <1>6

\* A step that leaves the lock table alone.
LEMMA Stays ==
    ASSUME LocksInv, NEW c \in Clients, locks' = locks
    PROVE  locks' \in Tables /\ Others(locks, locks', c)
  BY Zenon, SameIsUndisturbed DEF LocksInv, Others

\* Create(), Mkdir() and Symlink(), failures included.
LEMMA CreateSteps ==
    ASSUME LocksInv, NEW c \in Clients,
           Create(c) \/ Mkdir(c) \/ Symlink(c) \/ LinksMade(c) \/ MadeFlushes(c)
    PROVE  Stepped(c)
  <1>1. ASSUME NEW d, NEW rec, MayBegin(c), Begins(c, d, "exclusive", rec), "pc" \in DOMAIN rec,
               rec.pc \in {"Create", "Link"}, rec.d = d
        PROVE  Stepped(c)
    <2>1. Within(locks', c, {d})
      BY ZenonT(60), <1>1, Begun DEF Mode
    <2>2. Placed(locks', c, rec)
      BY Zenon, <1>1, <2>1 DEF Placed, Shape, Bounded
    <2> QED BY Zenon, <1>1, <2>2, Begun DEF Stepped, Mode
  <1>2. ASSUME cl[c].pc \in {"Create", "Link", "MadeFlushes"}, Returns(c, {cl[c].d})
        PROVE  Stepped(c)
    <2>1. Within(locks, c, {cl[c].d})
      BY Zenon, <1>2 DEF LocksInv, Placed, Bounded
    <2> QED BY Zenon, <1>2, <2>1, Returned
  <1>3. ASSUME NEW t1, Made(c, t1) PROVE Stepped(c)
    <2>1. PICK d, n : /\ MayBegin(c)
                      /\ Begins(c, d, "exclusive", [pc |-> "Link", d |-> d, n |-> n,
                                                    new |-> {NextInode(t)}])
      BY Zenon, <1>3 DEF Made
    <2> QED BY <1>1, <2>1
  <1>7. ASSUME cl[c].pc \in {"Create", "Link"}, NEW t1, NEW i,
               LinkOrDestroy(c, t1, cl[c].d, cl[c].n, i)
        PROVE  Stepped(c)
    <2>1. CASE /\ cl' = [cl EXCEPT ![c] = [pc |-> "MadeFlushes", d |-> cl[c].d, new |-> {i}]]
               /\ locks' = locks
      <3>1. Within(locks', c, {cl[c].d})
        BY Zenon, <1>7, <2>1 DEF LocksInv, Placed, Bounded
      <3>2. Placed(locks', c, [pc |-> "MadeFlushes", d |-> cl[c].d, new |-> {i}])
        BY Zenon, <3>1 DEF Placed, Shape, Bounded
      <3> QED BY Zenon, <2>1, <3>2, RecSet, Stays DEF Stepped
    <2> QED BY Zenon, <1>2, <1>7, <2>1 DEF LinkOrDestroy
  <1>4. CASE Create(c)
    <2>1. CASE \E d, n : /\ MayBegin(c)
                         /\ Begins(c, d, "exclusive", [pc |-> "Create", d |-> d, n |-> n])
      BY <1>1, <2>1
    <2>2. CASE At(c, "Create") /\ Returns(c, {cl[c].d})
      BY Zenon, <1>2, <2>2 DEF At
    <2>3. CASE /\ At(c, "Create")
               /\ LinkOrDestroy(c, CreateFile(t), cl[c].d, cl[c].n, NextInode(t))
      BY Zenon, <1>7, <2>3 DEF At
    <2> QED BY Zenon, <1>4, <2>1, <2>2, <2>3 DEF Create
  <1>5. CASE LinksMade(c) \/ MadeFlushes(c)
    BY Zenon, <1>2, <1>5, <1>7 DEF LinksMade, MadeFlushes, At
  <1>6. CASE Mkdir(c) \/ Symlink(c)
    BY Zenon, <1>3, <1>6 DEF Mkdir, Symlink
  <1> QED BY Zenon, <1>4, <1>5, <1>6

\* A call asks for the lock of i.
LEMMA Asks ==
    ASSUME LocksInv, NEW c \in Clients, NEW i, NEW m \in Mode, NEW S, Within(locks, c, S),
           locks' = Requests(locks, c, i, m)
    PROVE  locks' \in Tables /\ Others(locks, locks', c) /\ Within(locks', c, S \cup {i})
  BY Zenon, RequestsTable DEF LocksInv

\* A call gives up the lock of i.
LEMMA GivesUp ==
    ASSUME LocksInv, NEW c \in Clients, NEW i, NEW S, Within(locks, c, S),
           locks' = Releases(locks, c, i)
    PROVE  locks' \in Tables /\ Others(locks, locks', c) /\ Within(locks', c, S \ {i})
  BY Zenon, ReleasesTable DEF LocksInv

\* Link() unlocks the target, and locks the directory and the target again.
LEMMA LinkSteps ==
    ASSUME LocksInv, NEW c \in Clients, LinkCall(c)
    PROVE  Stepped(c)
  <1> DEFINE r == cl[c]
  <1>0. Placed(locks, c, r) /\ Mode = {"shared", "exclusive"}
    BY Zenon DEF LocksInv, Mode
  <1>a. ASSUME NEW p \in {"LinkDrops", "LinkDir", "LinkBoth", "LinkFlushes"},
               r.pc \in {"LinkType", "LinkDrops", "LinkDir", "LinkBoth"},
               cl' = [cl EXCEPT ![c].pc = p]
        PROVE  /\ cl' = [cl EXCEPT ![c] = cl'[c]] /\ Shape(cl'[c]) /\ cl'[c].pc = p
               /\ cl'[c].d = r.d /\ cl'[c].i = r.i
    <2>1. {"pc", "d", "i"} \subseteq DOMAIN r
      BY Zenon, <1>0, <1>a DEF Placed, Shape
    <2> QED BY ZenonT(60), <1>a, <2>1, PcSet DEF Shape
  <1>1. CASE \E d, i, n : /\ MayBegin(c)
                          /\ Begins(c, i, "exclusive",
                                    [pc |-> "LinkType", d |-> d, n |-> n, i |-> i])
    <2>1. PICK d, i, n : /\ MayBegin(c)
                         /\ Begins(c, i, "exclusive",
                                   [pc |-> "LinkType", d |-> d, n |-> n, i |-> i])
      BY ZenonT(60), <1>1
    <2>2. Within(locks', c, {i})
      BY Zenon, <1>0, <2>1, Begun
    <2>3. Placed(locks', c, [pc |-> "LinkType", d |-> d, n |-> n, i |-> i])
      BY Zenon, <2>2 DEF Placed, Shape, Bounded
    <2> QED BY Zenon, <1>0, <2>1, <2>3, Begun DEF Stepped
  <1>2. CASE r.pc = "LinkType" /\ Returns(c, {r.i})
    BY Zenon, <1>0, <1>2, Returned DEF Placed, Bounded
  <1>3. CASE /\ r.pc = "LinkType" /\ locks' = Releases(locks, c, r.i)
             /\ cl' = [cl EXCEPT ![c].pc = "LinkDrops"]
    <2>1. Within(locks, c, {r.i})
      BY Zenon, <1>0, <1>3 DEF Placed, Bounded
    <2>2. {r.i} \ {r.i} = {}
      BY Zenon
    <2>3. locks' \in Tables /\ Others(locks, locks', c) /\ Within(locks', c, {})
      BY Zenon, <1>3, <2>1, <2>2, GivesUp
    <2> QED BY Zenon, <1>a, <1>3, <2>3 DEF Stepped, Placed, Bounded
  <1>4. CASE /\ r.pc = "LinkDrops" /\ locks' = Requests(locks, c, r.d, "exclusive")
             /\ cl' = [cl EXCEPT ![c].pc = "LinkDir"]
    <2>1. Within(locks, c, {})
      BY Zenon, <1>0, <1>4 DEF Placed, Bounded
    <2>2. {} \cup {r.d} = {r.d}
      BY Zenon
    <2>3. locks' \in Tables /\ Others(locks, locks', c) /\ Within(locks', c, {r.d})
      BY Zenon, <1>0, <1>4, <2>1, <2>2, Asks
    <2> QED BY Zenon, <1>a, <1>4, <2>3 DEF Stepped, Placed, Bounded
  <1>5. CASE /\ r.pc = "LinkDir" /\ locks' = Requests(locks, c, r.i, "exclusive")
             /\ cl' = [cl EXCEPT ![c].pc = "LinkBoth"]
    <2>1. Within(locks, c, {r.d})
      BY Zenon, <1>0, <1>5 DEF Placed, Bounded
    <2>2. {r.d} \cup {r.i} = {r.d, r.i}
      BY Zenon
    <2>3. locks' \in Tables /\ Others(locks, locks', c) /\ Within(locks', c, {r.d, r.i})
      BY <1>0, <1>5, <2>1, <2>2, Asks
    <2> QED BY ZenonT(60), <1>a, <1>5, <2>3 DEF Stepped, Placed, Bounded
  <1>6. CASE r.pc \in {"LinkBoth", "LinkFlushes"} /\ Returns(c, {r.d, r.i})
    <2>1. Within(locks, c, {r.d, r.i})
      BY Zenon, <1>0, <1>6 DEF Placed, Bounded
    <2> QED BY Zenon, <1>6, <2>1, Returned
  <1>7. CASE r.pc = "LinkBoth" /\ locks' = locks /\ cl' = [cl EXCEPT ![c].pc = "LinkFlushes"]
    <2>1. Within(locks', c, {r.d, r.i})
      BY Zenon, <1>0, <1>7 DEF Placed, Bounded
    <2>2. locks' \in Tables /\ Others(locks, locks', c)
      BY Zenon, <1>7, Stays
    <2> QED BY ZenonT(60), <1>a, <1>7, <2>1, <2>2 DEF Stepped, Placed, Bounded
  <1> QED BY ZenonT(60), <1>1, <1>2, <1>3, <1>4, <1>5, <1>6, <1>7 DEF LinkCall, At

\* Unlink() and Rmdir() lock the directory, then what the name refers to.
LEMMA RemoveSteps ==
    ASSUME LocksInv, NEW c \in Clients, UnlinkCall(c) \/ Rmdir(c)
    PROVE  Stepped(c)
  <1> DEFINE r == cl[c]
  <1>0. Placed(locks, c, r) /\ Mode = {"shared", "exclusive"}
    BY Zenon DEF LocksInv, Mode
  <1>1. ASSUME NEW op \in {"Unlink", "Rmdir"}, RemoveBegins(c, op) PROVE Stepped(c)
    <2>1. PICK d, n : MayBegin(c) /\ Begins(c, d, "exclusive", [pc |-> op, d |-> d, n |-> n])
      BY Zenon, <1>1 DEF RemoveBegins
    <2>2. Within(locks', c, {d})
      BY Zenon, <1>0, <2>1, Begun
    <2>3. Placed(locks', c, [pc |-> op, d |-> d, n |-> n])
      BY Zenon, <2>2 DEF Placed, Shape, Bounded
    <2> QED BY Zenon, <1>0, <2>1, <2>3, Begun DEF Stepped
  <1>2. ASSUME NEW op \in {"Unlink", "Rmdir"}, NEW next \in {"UnlinkBoth", "RmdirBoth"},
               LocksChild(c, op, next)
        PROVE  Stepped(c)
    <2>1. r.pc = op /\ Within(locks, c, {r.d})
      BY Zenon, <1>0, <1>2 DEF LocksChild, At, Placed, Bounded
    <2>2. CASE Returns(c, {r.d})
      BY Zenon, <2>1, <2>2, Returned
    <2>3. CASE \E i : /\ locks' = Requests(locks, c, i, "exclusive")
                      /\ cl' = [cl EXCEPT ![c] = [pc |-> next, d |-> r.d, n |-> r.n, i |-> i]]
      <3>1. PICK i : /\ locks' = Requests(locks, c, i, "exclusive")
                     /\ cl' = [cl EXCEPT ![c] = [pc |-> next, d |-> r.d, n |-> r.n, i |-> i]]
        BY Zenon, <2>3
      <3>2. {r.d} \cup {i} = {r.d, i}
        BY Zenon
      <3>3. locks' \in Tables /\ Others(locks, locks', c) /\ Within(locks', c, {r.d, i})
        BY <1>0, <2>1, <3>1, <3>2, Asks
      <3>4. Placed(locks', c, [pc |-> next, d |-> r.d, n |-> r.n, i |-> i])
        BY Zenon, <3>3 DEF Placed, Shape, Bounded
      <3> QED BY Zenon, <3>1, <3>3, <3>4, RecSet DEF Stepped
    <2> QED BY Zenon, <1>2, <2>2, <2>3 DEF LocksChild
  <1>3. ASSUME NEW pc \in {"UnlinkBoth", "RmdirBoth"}, NEW may, NEW destroys,
               Removes(c, pc, may, destroys)
        PROVE  Stepped(c)
    <2>1. Within(locks, c, {r.d, r.i})
      BY Zenon, <1>0, <1>3 DEF Removes, At, Placed, Bounded
    <2> QED BY Zenon, <1>3, <2>1, Returned DEF Removes
  <1>4. CASE UnlinkCall(c)
    BY Zenon, <1>1, <1>2, <1>3, <1>4 DEF UnlinkCall
  <1>5. CASE Rmdir(c)
    BY Zenon, <1>1, <1>2, <1>3, <1>5 DEF Rmdir
  <1> QED BY Zenon, <1>4, <1>5

\* Rename(), however often it gives up its first lock and starts again.
LEMMA RenameSteps ==
    ASSUME LocksInv, NEW c \in Clients, Rename(c)
    PROVE  Stepped(c)
  <1> DEFINE r == cl[c]
  <1>0. Placed(locks, c, r) /\ Mode = {"shared", "exclusive"}
    BY Zenon DEF LocksInv, Mode
  <1>a. ASSUME NEW p \in {"Rename", "RenameAgain", "Move"},
               r.pc \in {"Rename", "RenameAgain"}, cl' = [cl EXCEPT ![c].pc = p]
        PROVE  /\ cl' = [cl EXCEPT ![c] = cl'[c]] /\ Shape(cl'[c]) /\ cl'[c].pc = p
               /\ cl'[c].sd = r.sd /\ cl'[c].dd = r.dd
    <2>1. {"pc", "sd", "dd"} \subseteq DOMAIN r
      BY Zenon, <1>0, <1>a DEF Placed, Shape
    <2> QED BY ZenonT(60), <1>a, <2>1, PcSet DEF Shape
  <1>1. CASE RenameBegins(c)
    <2>1. PICK sd, dd, sn, dn :
             /\ MayBegin(c)
             /\ Begins(c, sd, "exclusive",
                       [pc |-> "Rename", sd |-> sd, sn |-> sn, dd |-> dd, dn |-> dn])
      BY Zenon, <1>1 DEF RenameBegins
    <2>2. Within(locks', c, {sd})
      BY Zenon, <1>0, <2>1, Begun
    <2>3. Placed(locks', c, [pc |-> "Rename", sd |-> sd, sn |-> sn, dd |-> dd, dn |-> dn])
      BY Zenon, <2>2 DEF Placed, Shape, Bounded
    <2> QED BY Zenon, <1>0, <2>1, <2>3, Begun DEF Stepped
  <1>2. CASE RenameTries(c)
    <2>1. r.pc = "Rename" /\ Within(locks, c, {r.sd})
      BY Zenon, <1>0, <1>2 DEF RenameTries, At, Placed, Bounded
    <2>2. CASE locks' = Releases(locks, c, r.sd) /\ cl' = [cl EXCEPT ![c].pc = "RenameAgain"]
      <3>1. {r.sd} \ {r.sd} = {}
        BY Zenon
      <3>2. locks' \in Tables /\ Others(locks, locks', c) /\ Within(locks', c, {})
        BY Zenon, <2>1, <2>2, <3>1, GivesUp
      <3> QED BY Zenon, <1>a, <2>1, <2>2, <3>2 DEF Stepped, Placed, Bounded
    <2>3. CASE /\ locks' = Requests(locks, c, r.dd, "exclusive")
               /\ cl' = [cl EXCEPT ![c].pc = "Move"]
      <3>1. {r.sd} \cup {r.dd} = {r.sd, r.dd}
        BY Zenon
      <3>2. locks' \in Tables /\ Others(locks, locks', c) /\ Within(locks', c, {r.sd, r.dd})
        BY <1>0, <2>1, <2>3, <3>1, Asks
      <3> QED BY Zenon, <1>a, <2>1, <2>3, <3>2 DEF Stepped, Placed, Bounded
    <2>4. CASE locks' = locks /\ cl' = [cl EXCEPT ![c].pc = "Move"]
      <3>1. Within(locks', c, {r.sd, r.dd})
        BY Zenon, <2>1, <2>4 DEF Within
      <3> QED BY Zenon, <1>a, <2>1, <2>4, <3>1, Stays DEF Stepped, Placed, Bounded
    <2>5. CASE Returns(c, {r.sd})
      BY Zenon, <2>1, <2>5, Returned
    <2> QED BY Zenon, <1>2, <2>2, <2>3, <2>4, <2>5 DEF RenameTries
  <1>3. CASE RenameAgain(c)
    <2>1. r.pc = "RenameAgain" /\ Within(locks, c, {})
      BY Zenon, <1>0, <1>3 DEF RenameAgain, At, Placed, Bounded
    <2>2. {} \cup {r.sd} = {r.sd}
      BY Zenon
    <2>3. locks' \in Tables /\ Others(locks, locks', c) /\ Within(locks', c, {r.sd})
      BY Zenon, <1>0, <1>3, <2>1, <2>2, Asks DEF RenameAgain
    <2>4. cl' = [cl EXCEPT ![c].pc = "Rename"]
      BY Zenon, <1>3 DEF RenameAgain
    <2> QED BY Zenon, <1>a, <2>1, <2>3, <2>4 DEF Stepped, Placed, Bounded
  <1>4. ASSUME r.pc \in {"Move", "MoveWrites", "MoveFlushes"}
        PROVE  /\ Within(locks, c, {r.sd, r.dd})
               /\ Returns(c, {r.sd, r.dd}) => Stepped(c)
    <2>1. Within(locks, c, {r.sd, r.dd})
      BY Zenon, <1>0, <1>4 DEF Placed, Bounded
    <2> QED BY Zenon, <2>1, Returned
  <1>5. ASSUME r.pc \in {"Move", "MoveWrites"}, locks' = locks, NEW rec,
               cl' = [cl EXCEPT ![c] = rec], "pc" \in DOMAIN rec,
               rec.pc \in {"MoveWrites", "MoveFlushes"}, rec.sd = r.sd, rec.dd = r.dd
        PROVE  Stepped(c)
    <2>1. Within(locks', c, {rec.sd, rec.dd})
      BY Zenon, <1>4, <1>5
    <2>2. Placed(locks', c, rec)
      BY Zenon, <1>5, <2>1 DEF Placed, Shape, Bounded
    <2> QED BY Zenon, <1>5, <2>2, RecSet, Stays DEF Stepped
  <1>6. CASE RenameMoves(c)
    <2>1. CASE Returns(c, {r.sd, r.dd})
      BY Zenon, <1>4, <1>6, <2>1 DEF RenameMoves, At
    <2>2. CASE \E i : /\ locks' = locks
                      /\ cl' = [cl EXCEPT ![c] = [pc |-> "MoveFlushes", sd |-> r.sd,
                                                  dd |-> r.dd, flush |-> {r.sd, r.dd, i}]]
      <3>1. PICK i : cl' = [cl EXCEPT ![c] = [pc |-> "MoveFlushes", sd |-> r.sd,
                                              dd |-> r.dd, flush |-> {r.sd, r.dd, i}]]
        BY Zenon, <2>2
      <3>2. PICK rec : rec = [pc |-> "MoveFlushes", sd |-> r.sd,
                              dd |-> r.dd, flush |-> {r.sd, r.dd, i}]
        BY Zenon
      <3>3. /\ cl' = [cl EXCEPT ![c] = rec] /\ "pc" \in DOMAIN rec
            /\ rec.pc = "MoveFlushes" /\ rec.sd = r.sd /\ rec.dd = r.dd
        BY Zenon, <3>1, <3>2
      <3>4. r.pc = "Move"
        BY Zenon, <1>6 DEF RenameMoves, At
      <3> QED BY Zenon, <1>5, <2>2, <3>3, <3>4
    <2> QED BY Zenon, <1>6, <2>1, <2>2 DEF RenameMoves
  <1>7. CASE RenameReads(c)
    <2>1. PICK i, links : /\ r.pc = "Move" /\ locks' = locks
                   /\ cl' = [cl EXCEPT ![c] =
                        [pc |-> "MoveWrites", sd |-> r.sd, sn |-> r.sn, dd |-> r.dd,
                         dn |-> r.dn, moved |-> Lookup(t, r.sd, r.sn), i |-> i,
                         links |-> links]]
      BY ZenonT(60), <1>7 DEF RenameReads, At
    <2>2. PICK rec : rec = [pc |-> "MoveWrites", sd |-> r.sd, sn |-> r.sn, dd |-> r.dd,
                            dn |-> r.dn, moved |-> Lookup(t, r.sd, r.sn), i |-> i,
                            links |-> links]
      BY Zenon
    <2>3. /\ cl' = [cl EXCEPT ![c] = rec] /\ "pc" \in DOMAIN rec
          /\ rec.pc = "MoveWrites" /\ rec.sd = r.sd /\ rec.dd = r.dd
      BY Zenon, <2>1, <2>2
    <2> QED BY Zenon, <1>5, <2>1, <2>3
  <1>8. CASE RenameWrites(c)
    <2>1. /\ r.pc = "MoveWrites" /\ locks' = locks
          /\ cl' = [cl EXCEPT ![c] = [pc |-> "MoveFlushes", sd |-> r.sd, dd |-> r.dd,
                                      flush |-> {r.sd, r.dd, r.moved, r.i}]]
      BY Zenon, <1>8 DEF RenameWrites, At
    <2>2. PICK rec : rec = [pc |-> "MoveFlushes", sd |-> r.sd, dd |-> r.dd,
                            flush |-> {r.sd, r.dd, r.moved, r.i}]
      BY Zenon
    <2>3. /\ cl' = [cl EXCEPT ![c] = rec] /\ "pc" \in DOMAIN rec
          /\ rec.pc = "MoveFlushes" /\ rec.sd = r.sd /\ rec.dd = r.dd
      BY Zenon, <2>1, <2>2
    <2> QED BY Zenon, <1>5, <2>1, <2>3
  <1>9. CASE RenameFlushes(c)
    BY Zenon, <1>4, <1>9 DEF RenameFlushes, At
  <1> QED BY Zenon, <1>1, <1>2, <1>3, <1>6, <1>7, <1>8, <1>9 DEF Rename

\* Readdir(), ReaddirOne() and their plus forms lock one entry at a time, and
\* the plus forms return early when an entry is gone.
LEMMA ReaddirSteps ==
    ASSUME LocksInv, NEW c \in Clients,
           Readdir(c) \/ ReaddirOne(c) \/ ReaddirTypes(c) \/ ReaddirPlus(c)
    PROVE  Stepped(c)
  <1> DEFINE r == cl[c]
  <1>0. Placed(locks, c, r) /\ Mode = {"shared", "exclusive"}
    BY Zenon DEF LocksInv, Mode
  <1>1. ASSUME NEW plus, ReaddirBegins(c, plus) PROVE Stepped(c)
    <2>1. PICK d : /\ MayBegin(c)
                   /\ Begins(c, d, "shared", [pc |-> "Readdir", d |-> d, plus |-> plus])
      BY Zenon, <1>1 DEF ReaddirBegins
    <2>2. Within(locks', c, {d})
      BY Zenon, <1>0, <2>1, Begun
    <2>3. Placed(locks', c, [pc |-> "Readdir", d |-> d, plus |-> plus])
      BY Zenon, <2>2 DEF Placed, Shape, Bounded
    <2> QED BY ZenonT(60), <1>0, <2>1, <2>3, Begun DEF Stepped
  <1>2. ASSUME NEW names, ReaddirReads(c, names) PROVE Stepped(c)
    <2>1. Within(locks, c, {r.d})
      BY Zenon, <1>0, <1>2 DEF ReaddirReads, At, Placed, Bounded
    <2>2. CASE Returns(c, {r.d})
      BY Zenon, <2>1, <2>2, Returned
    <2>3. CASE /\ cl' = [cl EXCEPT ![c] = [pc |-> "Types", d |-> r.d, plus |-> r.plus,
                           todo |-> EntriesOf(r.d, names), all |-> EntriesOf(r.d, names)]]
               /\ locks' = locks
      <3>1. Placed(locks', c, [pc |-> "Types", d |-> r.d, plus |-> r.plus,
                           todo |-> EntriesOf(r.d, names), all |-> EntriesOf(r.d, names)])
        BY Zenon, <2>1, <2>3 DEF Placed, Shape, Bounded
      <3> QED BY Zenon, <2>3, <3>1, RecSet, Stays DEF Stepped
    <2> QED BY Zenon, <1>2, <2>2, <2>3 DEF ReaddirReads
  <1>3. CASE Readdir(c)
    BY Zenon, <1>1, <1>2, <1>3 DEF Readdir
  <1>4. CASE ReaddirOne(c)
    BY Zenon, <1>1, <1>2, <1>4 DEF ReaddirOne
  <1>5. CASE /\ r.pc = "Types" /\ locks' = Requests(locks, c, Head(r.todo), "shared")
             /\ cl' = [cl EXCEPT ![c].pc = "Entry"]
    <2>1. Within(locks, c, {r.d}) /\ {"pc", "d", "todo"} \subseteq DOMAIN r
      BY Zenon, <1>0, <1>5 DEF Placed, Shape, Bounded
    <2>2. {r.d} \cup {Head(r.todo)} = {r.d, Head(r.todo)}
      BY Zenon
    <2>3. locks' \in Tables /\ Others(locks, locks', c) /\ Within(locks', c, {r.d, Head(r.todo)})
      BY ZenonT(60), <1>0, <1>5, <2>1, <2>2, Asks
    <2>4. /\ cl' = [cl EXCEPT ![c] = cl'[c]] /\ cl'[c].pc = "Entry" /\ cl'[c].d = r.d
          /\ cl'[c].todo = r.todo /\ DOMAIN cl'[c] = DOMAIN r
      BY Zenon, <1>5, <2>1, PcSet
    <2>5. Shape(cl'[c]) /\ Bounded(locks', c, cl'[c])
      BY Zenon, <2>1, <2>3, <2>4 DEF Shape, Bounded
    <2> QED BY Zenon, <2>3, <2>4, <2>5 DEF Stepped, Placed
  <1>6. CASE /\ r.pc = "Entry" /\ locks' = Releases(locks, c, Head(r.todo))
             /\ cl' = [cl EXCEPT ![c].pc = "Types", ![c].todo = Tail(@)]
    <2>1. Within(locks, c, {r.d, Head(r.todo)}) /\ {"pc", "d", "todo"} \subseteq DOMAIN r
      BY Zenon, <1>0, <1>6 DEF Placed, Shape, Bounded
    <2>2. locks' \in Tables /\ Others(locks, locks', c)
          /\ Within(locks', c, {r.d, Head(r.todo)} \ {Head(r.todo)})
      BY Zenon, <1>6, <2>1, GivesUp
    <2>3. Within(locks', c, {r.d})
      BY Zenon, <2>2 DEF Within
    <2>4. cl'[c] = [r EXCEPT !.pc = "Types", !.todo = Tail(@)] /\ cl' = [cl EXCEPT ![c] = cl'[c]]
      BY ZenonT(60), <1>6 DEF LocksInv
    <2>5. cl'[c].pc = "Types" /\ cl'[c].d = r.d /\ DOMAIN cl'[c] = DOMAIN r
      BY Zenon, <2>1, <2>4
    <2>6. Shape(cl'[c]) /\ Bounded(locks', c, cl'[c])
      BY Zenon, <2>1, <2>3, <2>5 DEF Shape, Bounded
    <2> QED BY Zenon, <2>2, <2>4, <2>6 DEF Stepped, Placed
  <1>7. CASE r.pc = "Types" /\ Returns(c, {r.d})
    BY Zenon, <1>0, <1>7, Returned DEF Placed, Bounded
  <1>8. CASE /\ r.pc = "Types" /\ locks' = Releases(locks, c, r.d)
             /\ cl' = [cl EXCEPT ![c] = [pc |-> "Stats", todo |-> r.all]]
    <2>1. Within(locks, c, {r.d}) /\ {r.d} \ {r.d} = {}
      BY Zenon, <1>0, <1>8 DEF Placed, Bounded
    <2>2. locks' \in Tables /\ Others(locks, locks', c) /\ Within(locks', c, {})
      BY Zenon, <1>8, <2>1, GivesUp
    <2>3. Placed(locks', c, [pc |-> "Stats", todo |-> r.all])
      BY Zenon, <2>2 DEF Placed, Shape, Bounded
    <2> QED BY ZenonT(60), <1>8, <2>2, <2>3, RecSet DEF Stepped
  <1>9. CASE /\ r.pc = "Stats" /\ locks' = Requests(locks, c, Head(r.todo), "shared")
             /\ cl' = [cl EXCEPT ![c].pc = "Stat"]
    <2>1. Within(locks, c, {}) /\ {"pc", "todo"} \subseteq DOMAIN r
      BY Zenon, <1>0, <1>9 DEF Placed, Shape, Bounded
    <2>2. {} \cup {Head(r.todo)} = {Head(r.todo)}
      BY Zenon
    <2>3. locks' \in Tables /\ Others(locks, locks', c) /\ Within(locks', c, {Head(r.todo)})
      BY Zenon, <1>0, <1>9, <2>1, <2>2, Asks
    <2>4. /\ cl' = [cl EXCEPT ![c] = cl'[c]] /\ cl'[c].pc = "Stat"
          /\ cl'[c].todo = r.todo /\ DOMAIN cl'[c] = DOMAIN r
      BY Zenon, <1>9, <2>1, PcSet
    <2>5. Shape(cl'[c]) /\ Bounded(locks', c, cl'[c])
      BY Zenon, <2>1, <2>3, <2>4 DEF Shape, Bounded
    <2> QED BY Zenon, <2>3, <2>4, <2>5 DEF Stepped, Placed
  <1>10. CASE /\ r.pc = "Stat" /\ locks' = Releases(locks, c, Head(r.todo))
              /\ cl' = [cl EXCEPT ![c] = IF t[Head(r.todo)].live
                     THEN [pc |-> "Stats", todo |-> Tail(r.todo)] ELSE Idle]
    <2>1. Within(locks, c, {Head(r.todo)}) /\ {Head(r.todo)} \ {Head(r.todo)} = {}
      BY Zenon, <1>0, <1>10 DEF Placed, Bounded
    <2>2. locks' \in Tables /\ Others(locks, locks', c) /\ Within(locks', c, {})
      BY Zenon, <1>10, <2>1, GivesUp
    <2>3. Placed(locks', c, [pc |-> "Stats", todo |-> Tail(r.todo)]) /\ Placed(locks', c, Idle)
      BY Zenon, <2>2 DEF Placed, Shape, Bounded, Idle
    <2> QED BY ZenonT(60), <1>10, <2>2, <2>3, RecSet DEF Stepped
  <1>11. CASE r.pc = "Stats" /\ Returns(c, {})
    BY Zenon, <1>0, <1>11, Returned DEF Placed, Bounded
  <1>12. CASE ReaddirTypes(c)
    BY Zenon, <1>5, <1>6, <1>7, <1>12 DEF ReaddirTypes, At
  <1>13. CASE ReaddirPlus(c)
    BY ZenonT(60), <1>1, <1>8, <1>9, <1>10, <1>11, <1>13 DEF ReaddirPlus, At
  <1> QED BY Zenon, <1>3, <1>4, <1>12, <1>13

-----------------------------------------------------------------------------
\* Of a client that has asked for exclusive locks only, and that has what it asked
\* for of the lock of i, there is one request.
LEMMA GrantedOnce ==
    ASSUME LocksInv, NEW c \in Clients, NEW i \in Inodes, AllExclusive(locks, c), Granted(c, i)
    PROVE  Once(locks[i], c)
  <1>1. locks[i] \in Seq(Asked) /\ DOMAIN locks[i] = 1..Len(locks[i])
    BY DEF LocksInv, Tables
  <1>2. ASSUME NEW k \in 1..Len(locks[i]), locks[i][k].c = c PROVE k = 1
    <2>1. IsGranted(locks[i], k) /\ locks[i][k].m = "exclusive"
      BY Zenon, <1>1, <1>2 DEF Granted, AllExclusive, Exclusive
    <2> QED BY <2>1 DEF IsGranted
  <1> QED BY Zenon, <1>2 DEF Once

\* The calls of resolvePath() other than that of MiddlewareDelete() unlock whatever
\* they have.
LEMMA AnyPlace ==
    ASSUME NEW L, NEW x, NEW r, Shape(r),
           \/ /\ r.pc \in {"Dir", "Cursor", "Found"}
              /\ r.op # "Delete"
           \/ r.pc \in {"Path", "PathNext", "PutContainer", "PutContainerBoth", "PutFinds",
                        "PutAsks", "PutDir", "PutEntry", "PutObstacle", "PutLinks",
                        "PutFlushes", "PutRelinks", "CoalesceWalks", "CoalesceMakes",
                        "CoalesceLinks", "CoalesceLocks", "CoalesceFile", "CoalesceWrites",
                        "CoalesceFlushes"}
    PROVE  Placed(L, x, r)
  BY Zenon DEF Placed, Bounded

\* What giving up a lock does that the caller of resolvePath() may have taken.
LEMMA LetsTable ==
    ASSUME NEW L \in Tables, NEW c \in Clients, NEW i, NEW held
    PROVE  Lets(L, c, i, held) \in Tables /\ Others(L, Lets(L, c, i, held), c)
  BY Zenon, DropsTable, SameIsUndisturbed DEF Lets, Others

\* What ensureReadLock() and ensureWriteLock() do to the lock table.
LEMMA EnsuresTable ==
    ASSUME NEW L \in Tables, NEW c \in Clients, NEW i, NEW m \in Mode, NEW held
    PROVE  Ensures(L, c, i, m, held) \in Tables /\ Others(L, Ensures(L, c, i, m, held), c)
  BY Zenon, RequestsTable, SameIsUndisturbed DEF Ensures, Others

\* A client with one request in i that gives it up has none left there.
LEMMA LetsWithin ==
    ASSUME NEW L \in Tables, NEW c \in Clients, NEW i, NEW S, Within(L, c, S),
           i \in Inodes => Once(L[i], c), AllExclusive(L, c)
    PROVE  /\ Lets(L, c, i, {}) \in Tables /\ Others(L, Lets(L, c, i, {}), c)
           /\ Within(Lets(L, c, i, {}), c, S \ {i})
           /\ AllExclusive(Lets(L, c, i, {}), c)
           /\ \A j \in Inodes : j # i => Lets(L, c, i, {})[j] = L[j]
  <1>1. Lets(L, c, i, {}) = Drops(L, c, i)
    BY Zenon DEF Lets
  <1> QED BY <1>1, DropsTable

\* The fields of a client that goes on with some of them changed.
LEMMA Gone ==
    ASSUME LocksInv, NEW c \in Clients, NEW rec, Goes(c, rec)
    PROVE  /\ cl' = [cl EXCEPT ![c] = cl'[c]] /\ cl'[c] = Over(rec, cl[c])
           /\ DOMAIN cl'[c] = DOMAIN rec \cup DOMAIN cl[c]
           /\ \A f \in DOMAIN rec : cl'[c][f] = rec[f]
           /\ \A f \in DOMAIN cl[c] : f \notin DOMAIN rec => cl'[c][f] = cl[c][f]
  <1>1. cl' = [cl EXCEPT ![c] = cl'[c]] /\ cl'[c] = Over(rec, cl[c])
    BY Zenon DEF Goes, LocksInv
  <1>2. /\ DOMAIN Over(rec, cl[c]) = DOMAIN rec \cup DOMAIN cl[c]
        /\ \A f \in DOMAIN rec : Over(rec, cl[c])[f] = rec[f]
        /\ \A f \in DOMAIN cl[c] \ DOMAIN rec : Over(rec, cl[c])[f] = cl[c][f]
    BY Zenon, OverFields, Zenon
  <1> QED BY Zenon, <1>1, <1>2

\* The step of a client that unlocks whatever it has in the end.
LEMMA Anywhere ==
    ASSUME LocksInv, NEW c \in Clients, locks' \in Tables, Others(locks, locks', c),
           cl' = [cl EXCEPT ![c] = cl'[c]], Shape(cl'[c]),
           \/ /\ cl'[c].pc \in {"Dir", "Cursor", "Found"}
              /\ cl'[c].op # "Delete"
           \/ cl'[c].pc \in {"Path", "PathNext", "PutContainer", "PutContainerBoth", "PutFinds",
                        "PutAsks", "PutDir", "PutEntry", "PutObstacle", "PutLinks",
                        "PutFlushes", "PutRelinks", "CoalesceWalks", "CoalesceMakes",
                        "CoalesceLinks", "CoalesceLocks", "CoalesceFile", "CoalesceWrites",
                        "CoalesceFlushes"}
    PROVE  Stepped(c)
  BY Zenon, AnyPlace DEF Stepped

\* resolvePath() begins with the lock of the root directory.
LEMMA ResolveBegun ==
    ASSUME LocksInv, NEW c \in Clients, NEW op, NEW m \in Mode, NEW path, NEW args,
           ResolveBegins(c, op, m, path, args), op = "Delete" => m = "exclusive"
    PROVE  Stepped(c)
  <1> DEFINE r == Resolving(op, m, path, args)
  <1>1. MayBegin(c) /\ Begins(c, RootDir, m, r)
    BY Zenon DEF ResolveBegins
  <1>2. /\ {"pc", "op", "m", "d", "held"} \subseteq DOMAIN r
        /\ r.pc = "Dir" /\ r.op = op /\ r.m = m /\ r.d = RootDir /\ r.held = {}
    <2>1. PICK rec : rec = [pc |-> "Dir", op |-> op, m |-> m, segs |-> path, d |-> RootDir,
                            follows |-> MaxSymlinks, held |-> {}]
      BY Zenon
    <2>2. /\ {"pc", "op", "m", "d", "held"} \subseteq DOMAIN rec
          /\ rec.pc = "Dir" /\ rec.op = op /\ rec.m = m /\ rec.d = RootDir /\ rec.held = {}
      BY Zenon, <2>1
    <2>3. r = Over(rec, args)
      BY Zenon, <2>1 DEF Resolving
    <2> HIDE DEF r
    <2>4. DOMAIN r = DOMAIN rec \cup DOMAIN args /\ \A f \in DOMAIN rec : r[f] = rec[f]
      BY <2>3, OverFields, Zenon
    <2> QED BY Zenon, <2>2, <2>4
  <1> HIDE DEF r
  <1>3. /\ locks' \in Tables /\ Others(locks, locks', c)
        /\ cl' = [cl EXCEPT ![c] = cl'[c]] /\ cl'[c] = r
        /\ Within(locks', c, {RootDir})
        /\ m = "exclusive" => AllExclusive(locks', c)
    BY ZenonT(60), <1>1, Begun
  <1>4. Shape(r)
    BY Zenon, <1>2 DEF Shape
  <1>5. op = "Delete" => Resolves(locks', c, r)
    BY Zenon, <1>2, <1>3 DEF Resolves
  <1>6. Bounded(locks', c, r)
    BY Zenon, <1>2, <1>5 DEF Bounded
  <1> QED BY Zenon, <1>3, <1>4, <1>6 DEF Stepped, Placed

\* resolvePath() locks the entry while it has the directory.
LEMMA LooksUpSteps ==
    ASSUME LocksInv, NEW c \in Clients, ResolveLooksUp(c)
    PROVE  Stepped(c)
  <1> DEFINE r == cl[c]
  <1>0. /\ Placed(locks, c, r) /\ Mode = {"shared", "exclusive"} /\ r.pc = "Dir"
        /\ locks \in Tables
    BY Zenon DEF LocksInv, Mode, ResolveLooksUp, At
  <1>1. {"pc", "op", "held", "d", "m"} \subseteq DOMAIN r /\ r.m \in Mode
    BY Zenon, <1>0 DEF Placed, Shape
  <1>2. r.op = "Delete" =>
           /\ r.m = "exclusive" /\ AllExclusive(locks, c) /\ r.held = {}
           /\ Within(locks, c, {r.d})
    BY Zenon, <1>0 DEF Placed, Bounded, Resolves
  <1>3. CASE Goes(c, [pc |-> "Found", i |-> r.d]) /\ locks' = locks
    <2>1. /\ cl' = [cl EXCEPT ![c] = cl'[c]]
          /\ {"pc", "op", "held", "d", "m", "i"} \subseteq DOMAIN cl'[c]
          /\ cl'[c].pc = "Found" /\ cl'[c].i = r.d /\ cl'[c].op = r.op /\ cl'[c].held = r.held
      BY <1>1, <1>3, Gone
    <2>2. Shape(cl'[c])
      BY Zenon, <2>1 DEF Shape
    <2>3. r.op = "Delete" => Resolves(locks', c, cl'[c])
      BY Zenon, <1>2, <1>3, <2>1 DEF Resolves
    <2>4. Bounded(locks', c, cl'[c])
      BY Zenon, <2>1, <2>3 DEF Bounded
    <2> QED BY ZenonT(60), <1>3, <2>1, <2>2, <2>4, Stays DEF Stepped, Placed
  <1>4. CASE Returns(c, Inodes)
    BY Zenon, <1>4, ReturnedAll
  <1>5. ASSUME NEW i, NEW segs, locks' = Ensures(locks, c, i, r.m, r.held),
               Goes(c, [pc |-> "Cursor", i |-> i, segs |-> segs])
        PROVE  Stepped(c)
    <2>1. /\ cl' = [cl EXCEPT ![c] = cl'[c]]
          /\ {"pc", "op", "held", "d", "m", "i"} \subseteq DOMAIN cl'[c]
          /\ cl'[c].pc = "Cursor" /\ cl'[c].i = i /\ cl'[c].op = r.op
          /\ cl'[c].held = r.held /\ cl'[c].m = r.m /\ cl'[c].d = r.d
      BY <1>1, <1>5, Gone
    <2>2. Shape(cl'[c])
      BY Zenon, <1>1, <2>1 DEF Shape
    <2>3. locks' \in Tables /\ Others(locks, locks', c)
      BY Zenon, <1>0, <1>1, <1>5, EnsuresTable
    <2>4. ASSUME r.op = "Delete" PROVE Resolves(locks', c, cl'[c])
      <3>1. locks' = Requests(locks, c, i, "exclusive")
        BY Zenon, <1>2, <1>5, <2>4 DEF Ensures
      <3>2. {r.d} \cup {i} = {r.d, i}
        BY Zenon
      <3>3. Within(locks', c, {r.d, i}) /\ AllExclusive(locks', c)
        BY <1>0, <1>2, <2>4, <3>1, <3>2, RequestsTable
      <3>4. ASSUME NEW j \in Inodes, j = r.d, r.d # i PROVE Once(locks'[j], c)
        <4>1. Granted(c, j)
          BY Zenon, <3>4 DEF ResolveLooksUp
        <4>2. Once(locks[j], c)
          BY ZenonT(60), <1>2, <2>4, <4>1, GrantedOnce
        <4>3. locks'[j] = locks[j]
          BY <1>0, <3>1, <3>4, RequestsTable
        <4> QED BY Zenon, <4>2, <4>3
      <3> QED BY ZenonT(60), <1>2, <2>1, <2>4, <3>3, <3>4 DEF Resolves
    <2>5. Bounded(locks', c, cl'[c])
      BY Zenon, <2>1, <2>4 DEF Bounded
    <2> QED BY ZenonT(60), <2>1, <2>2, <2>3, <2>5 DEF Stepped, Placed
  <1> QED BY Zenon, <1>3, <1>4, <1>5 DEF ResolveLooksUp

\* Following a symlink leaves the requests of the client where it goes on.
LEMMA FollowsTable ==
    ASSUME LocksInv, NEW c \in Clients, NEW next \in {"Dir", "PutDir"}, NEW follows,
           FollowsLink(c, next, follows), cl[c].m \in Mode
    PROVE  locks' \in Tables /\ Others(locks, locks', c)
  <1> DEFINE r == cl[c]
             L == Lets(locks, c, r.i, r.held)
             M == Lets(L, c, r.d, r.held)
             N == Ensures(M, c, RootDir, r.m, r.held)
  <1>1. L \in Tables /\ Others(locks, L, c)
    BY Zenon, LetsTable DEF LocksInv
  <1>2. M \in Tables /\ Others(L, M, c)
    BY Zenon, <1>1, LetsTable
  <1>3. N \in Tables /\ Others(M, N, c)
    BY Zenon, <1>2, EnsuresTable
  <1>4. locks' = L \/ locks' = N
    BY Zenon DEF FollowsLink
  <1> HIDE DEF L, M, N
  <1> QED BY Zenon, <1>1, <1>2, <1>3, <1>4, OthersTwice

\* resolvePath() for MiddlewareDelete(): what it gives up on the way, symlinks and
\* "." or ".." included, leaves it with the lock of the place it is at only.
LEMMA GoesOnDelete ==
    ASSUME LocksInv, NEW c \in Clients, ResolveGoesOn(c), cl[c].op = "Delete"
    PROVE  Stepped(c)
  <1> DEFINE r == cl[c]
  <1>0. /\ Placed(locks, c, r) /\ Mode = {"shared", "exclusive"} /\ r.pc = "Cursor"
        /\ locks \in Tables
    BY Zenon DEF LocksInv, Mode, ResolveGoesOn, At
  <1>1. {"pc", "op", "held", "d", "m", "i"} \subseteq DOMAIN r /\ r.m \in Mode
    BY Zenon, <1>0 DEF Placed, Shape
  <1>2. /\ r.m = "exclusive" /\ AllExclusive(locks, c) /\ r.held = {}
        /\ Within(locks, c, {r.d, r.i})
        /\ r.d # r.i => \A j \in Inodes : j = r.d => Once(locks[j], c)
    BY Zenon, <1>0 DEF Placed, Bounded, Resolves
  <1>3. r.i \in Inodes => Once(locks[r.i], c)
    BY Zenon, <1>2, GrantedOnce DEF ResolveGoesOn
  <1>4. r.d \in Inodes => Once(locks[r.d], c)
    BY Zenon, <1>2, <1>3
  <1>5. ASSUME NEW rec, Goes(c, rec), DOMAIN rec \cap {"op", "held", "m"} = {}, "pc" \in DOMAIN rec,
               locks' \in Tables, Others(locks, locks', c), AllExclusive(locks', c),
               \/ /\ rec.pc = "Dir" /\ "d" \in DOMAIN rec
                  /\ Within(locks', c, {rec.d})
               \/ /\ rec.pc = "Found" /\ "i" \notin DOMAIN rec
                  /\ Within(locks', c, {r.i})
        PROVE  Stepped(c)
    <2>1. /\ cl' = [cl EXCEPT ![c] = cl'[c]]
          /\ {"pc", "op", "held", "d", "m", "i"} \subseteq DOMAIN cl'[c]
          /\ cl'[c].pc = rec.pc /\ cl'[c].op = r.op
          /\ cl'[c].held = r.held /\ cl'[c].m = r.m
          /\ "i" \notin DOMAIN rec => cl'[c].i = r.i
          /\ "d" \in DOMAIN rec => cl'[c].d = rec.d
      BY <1>1, <1>5, Gone
    <2>2. Shape(cl'[c])
      BY Zenon, <1>1, <1>5, <2>1 DEF Shape
    <2>3. Resolves(locks', c, cl'[c])
      BY Zenon, <1>2, <1>5, <2>1 DEF Resolves
    <2>4. Bounded(locks', c, cl'[c])
      BY Zenon, <1>5, <2>1, <2>3 DEF Bounded
    <2> QED BY ZenonT(60), <1>5, <2>1, <2>2, <2>4 DEF Stepped, Placed
  <1>6. CASE Returns(c, Inodes)
    BY Zenon, <1>6, ReturnedAll
  <1>7. ASSUME NEW follows, FollowsLink(c, "Dir", follows)
        PROVE  Stepped(c)
    <2> DEFINE target == GetSymlink(t, r.i)
               L == Lets(locks, c, r.i, {})
               M == Lets(L, c, r.d, {})
               rec == [pc |-> "Dir", segs |-> target.segs \o r.segs,
                       d |-> IF target.abs THEN RootDir ELSE r.d, follows |-> follows]
    <2>1. /\ Goes(c, rec)
          /\ locks' = IF target.abs THEN Ensures(M, c, RootDir, "exclusive", {}) ELSE L
      BY Zenon, <1>2, <1>7 DEF FollowsLink
    <2>2. /\ L \in Tables /\ Others(locks, L, c) /\ AllExclusive(L, c)
          /\ Within(L, c, {r.d, r.i} \ {r.i})
          /\ \A j \in Inodes : j # r.i => L[j] = locks[j]
      BY ZenonT(60), <1>0, <1>2, <1>3, LetsWithin
    <2>3. r.d \in Inodes => Once(L[r.d], c)
      <3>1. CASE r.d = r.i
        BY Zenon, <2>2, <3>1 DEF Within, HasNone, Once
      <3>2. CASE r.d # r.i
        BY Zenon, <1>4, <2>2, <3>2
      <3> QED BY Zenon, <3>1, <3>2
    <2>4. /\ M \in Tables /\ Others(L, M, c) /\ AllExclusive(M, c)
          /\ Within(M, c, ({r.d, r.i} \ {r.i}) \ {r.d})
      BY ZenonT(60), <2>2, <2>3, LetsWithin
    <2>5. ({r.d, r.i} \ {r.i}) \ {r.d} = {} /\ {} \cup {RootDir} = {RootDir}
      BY Zenon
    <2>6. rec.pc = "Dir" /\ DOMAIN rec = {"pc", "segs", "d", "follows"}
          /\ rec.d = IF target.abs THEN RootDir ELSE r.d
      BY Zenon
    <2> HIDE DEF L, M, rec, target
    <2>7. CASE target.abs
      <3>1. locks' = Requests(M, c, RootDir, "exclusive")
        BY Zenon, <2>1, <2>7 DEF Ensures
      <3>2. /\ locks' \in Tables /\ Others(M, locks', c) /\ AllExclusive(locks', c)
            /\ Within(locks', c, {RootDir})
        BY <1>0, <2>4, <2>5, <3>1, RequestsTable
      <3>3. Others(locks, locks', c)
        BY Zenon, <2>2, <2>4, <3>2, OthersTwice
      <3> QED BY Zenon, <1>5, <2>1, <2>6, <2>7, <3>2, <3>3
    <2>8. CASE ~target.abs
      <3>1. locks' = L /\ rec.d = r.d /\ Within(L, c, {r.d})
        BY Zenon, <2>1, <2>2, <2>6, <2>8 DEF Within
      <3> QED BY Zenon, <1>5, <2>1, <2>2, <2>6, <3>1
    <2> QED BY Zenon, <2>7, <2>8
  <1>8. ASSUME locks' = Lets(locks, c, r.d, r.held)
        PROVE  /\ locks' \in Tables /\ Others(locks, locks', c) /\ AllExclusive(locks', c)
               /\ Within(locks', c, {r.i})
    <2>1. /\ locks' \in Tables /\ Others(locks, locks', c) /\ AllExclusive(locks', c)
          /\ Within(locks', c, {r.d, r.i} \ {r.d})
      BY Zenon, <1>0, <1>2, <1>4, <1>8, LetsWithin
    <2> QED BY Zenon, <2>1 DEF Within
  <1>9. CASE locks' = Lets(locks, c, r.d, r.held) /\ Goes(c, [pc |-> "Found"])
    BY ZenonT(60), <1>5, <1>8, <1>9
  <1>10. CASE locks' = Lets(locks, c, r.d, r.held) /\ Goes(c, [pc |-> "Dir", d |-> r.i])
    BY Zenon, <1>5, <1>8, <1>10
  <1> QED BY Zenon, <1>6, <1>7, <1>9, <1>10 DEF ResolveGoesOn

\* resolvePath() goes on, for any caller.
LEMMA GoesOnSteps ==
    ASSUME LocksInv, NEW c \in Clients, ResolveGoesOn(c)
    PROVE  Stepped(c)
  <1> DEFINE r == cl[c]
  <1>0. /\ Placed(locks, c, r) /\ r.pc = "Cursor" /\ locks \in Tables
    BY Zenon DEF LocksInv, ResolveGoesOn, At
  <1>1. {"pc", "op", "held", "d", "m", "i"} \subseteq DOMAIN r /\ r.m \in Mode
    BY Zenon, <1>0 DEF Placed, Shape
  <1>2. CASE r.op = "Delete"
    BY Zenon, <1>2, GoesOnDelete
  <1>3. CASE Returns(c, Inodes)
    BY Zenon, <1>3, ReturnedAll
  <1>4. ASSUME r.op # "Delete", NEW rec, Goes(c, rec), DOMAIN rec \cap {"op", "m"} = {},
               "pc" \in DOMAIN rec, rec.pc \in {"Dir", "Found"},
               locks' \in Tables, Others(locks, locks', c)
        PROVE  Stepped(c)
    <2>1. /\ cl' = [cl EXCEPT ![c] = cl'[c]]
          /\ {"pc", "op", "held", "d", "m", "i"} \subseteq DOMAIN cl'[c]
          /\ cl'[c].pc = rec.pc /\ cl'[c].op = r.op /\ cl'[c].m = r.m
      BY <1>1, <1>4, Gone
    <2>2. Shape(cl'[c])
      BY Zenon, <1>1, <1>4, <2>1 DEF Shape
    <2> QED BY Zenon, <1>4, <2>1, <2>2, Anywhere
  <1>5. ASSUME r.op # "Delete", NEW follows, FollowsLink(c, "Dir", follows)
        PROVE  Stepped(c)
    <2>1. locks' \in Tables /\ Others(locks, locks', c)
      BY ZenonT(60), <1>1, <1>5, FollowsTable
    <2>2. PICK rec : Goes(c, rec) /\ rec.pc = "Dir" /\ DOMAIN rec = {"pc", "segs", "d", "follows"}
      BY <1>5 DEF FollowsLink
    <2> QED BY Zenon, <1>4, <1>5, <2>1, <2>2
  <1>6. CASE r.op # "Delete" /\ locks' = Lets(locks, c, r.d, r.held) /\ Goes(c, [pc |-> "Found"])
    BY Zenon, <1>0, <1>4, <1>6, LetsTable
  <1>7. CASE r.op # "Delete" /\ locks' = Lets(locks, c, r.d, r.held)
             /\ Goes(c, [pc |-> "Dir", d |-> r.i])
    BY Zenon, <1>0, <1>4, <1>7, LetsTable
  <1> QED BY ZenonT(60), <1>2, <1>3, <1>5, <1>6, <1>7 DEF ResolveGoesOn

\* The calls that resolve a path, look, and return.
LEMMA ResolveSteps ==
    ASSUME LocksInv, NEW c \in Clients,
           \/ MiddlewareGetObject(c) \/ MiddlewareHeadResponse(c) \/ MiddlewarePost(c)
           \/ ResolveLooksUp(c) \/ ResolveGoesOn(c)
    PROVE  Stepped(c)
  <1>1. ASSUME NEW op \in {"Look", "Post"}, NEW m \in Mode, ResolvesAndReturns(c, op, m)
        PROVE  Stepped(c)
    <2>1. CASE \E p \in Paths : ResolveBegins(c, op, m, p, <<>>)
      BY Zenon, <1>1, <2>1, ResolveBegun
    <2>2. CASE Returns(c, Inodes)
      BY Zenon, <2>2, ReturnedAll
    <2> QED BY Zenon, <1>1, <2>1, <2>2 DEF ResolvesAndReturns
  <1>2. CASE MiddlewareGetObject(c) \/ MiddlewareHeadResponse(c) \/ MiddlewarePost(c)
    BY Zenon, <1>1, <1>2 DEF MiddlewareGetObject, MiddlewareHeadResponse, MiddlewarePost, Mode
  <1> QED BY Zenon, <1>2, LooksUpSteps, GoesOnSteps

\* MiddlewareDelete() returns with two Unlock()s, of the directory and the entry,
\* and these are all it has.
LEMMA DeleteSteps ==
    ASSUME LocksInv, NEW c \in Clients, MiddlewareDelete(c)
    PROVE  Stepped(c)
  <1> DEFINE r == cl[c]
  <1>0. Placed(locks, c, r) /\ Mode = {"shared", "exclusive"}
    BY Zenon DEF LocksInv, Mode
  <1>1. CASE \E p \in Paths, n \in Names : ResolveBegins(c, "Delete", "exclusive", p, [n |-> n])
    BY Zenon, <1>0, <1>1, ResolveBegun
  <1>2. CASE Returns(c, Inodes)
    BY Zenon, <1>2, ReturnedAll
  <1>3. ASSUME NEW i, Found(c, "Delete"), locks' = Requests(locks, c, i, "exclusive"),
               cl' = [cl EXCEPT ![c] = [pc |-> "DeleteBoth", d |-> r.i, n |-> r.n, i |-> i]]
        PROVE  Stepped(c)
    <2>1. Within(locks, c, {r.i}) /\ {r.i} \cup {i} = {r.i, i}
      BY Zenon, <1>0, <1>3 DEF Found, At, Placed, Bounded, Resolves
    <2>2. locks' \in Tables /\ Others(locks, locks', c) /\ Within(locks', c, {r.i, i})
      BY ZenonT(60), <1>0, <1>3, <2>1, Asks
    <2>3. Placed(locks', c, [pc |-> "DeleteBoth", d |-> r.i, n |-> r.n, i |-> i])
      BY Zenon, <2>2 DEF Placed, Shape, Bounded
    <2> QED BY ZenonT(60), <1>3, <2>2, <2>3, RecSet DEF Stepped
  <1>4. ASSUME NEW may, NEW destroys, Removes(c, "DeleteBoth", may, destroys)
        PROVE  Stepped(c)
    <2>1. Within(locks, c, {r.d, r.i})
      BY Zenon, <1>0, <1>4 DEF Removes, At, Placed, Bounded
    <2> QED BY Zenon, <1>4, <2>1, Returned DEF Removes
  <1> QED BY Zenon, <1>1, <1>2, <1>3, <1>4 DEF MiddlewareDelete

\* The places of the calls that unlock whatever they have, but for those in
\* resolvePath() and those of putObjectHelper() that know a mode.
Loose == {"Path", "PathNext", "PutContainer", "PutContainerBoth", "PutObstacle", "PutLinks",
          "PutFlushes", "PutRelinks", "CoalesceWalks", "CoalesceMakes", "CoalesceLinks",
          "CoalesceLocks", "CoalesceFile", "CoalesceWrites", "CoalesceFlushes"}

Putting == {"PutFinds", "PutAsks", "PutDir", "PutEntry"}

\* A step of one of these calls, with all that it remembers given.
LEMMA LooseSet ==
    ASSUME LocksInv, NEW c \in Clients, locks' \in Tables, Others(locks, locks', c),
           NEW rec, cl' = [cl EXCEPT ![c] = rec], "pc" \in DOMAIN rec,
           \/ rec.pc \in Loose
           \/ rec.pc \in Putting /\ "m" \in DOMAIN rec /\ rec.m \in Mode
    PROVE  Stepped(c)
  <1>1. cl' = [cl EXCEPT ![c] = cl'[c]] /\ cl'[c] = rec
    BY ZenonT(60), RecSet
  <1>2. Shape(rec)
    BY Zenon DEF Shape, Loose, Putting
  <1> QED BY Zenon, <1>1, <1>2, Anywhere DEF Loose, Putting

\* A step of one of these calls, with what changes given.
LEMMA LooseGoes ==
    ASSUME LocksInv, NEW c \in Clients, locks' \in Tables, Others(locks, locks', c),
           NEW rec, Goes(c, rec), "pc" \in DOMAIN rec,
           \/ rec.pc \in Loose
           \/ rec.pc \in Putting /\ cl[c].pc \in Putting /\ "m" \notin DOMAIN rec
    PROVE  Stepped(c)
  <1>1. /\ cl' = [cl EXCEPT ![c] = cl'[c]]
        /\ DOMAIN cl'[c] = DOMAIN rec \cup DOMAIN cl[c]
        /\ \A f \in DOMAIN rec : cl'[c][f] = rec[f]
        /\ \A f \in DOMAIN cl[c] : f \notin DOMAIN rec => cl'[c][f] = cl[c][f]
    BY Gone
  <1>2. CASE rec.pc \in Loose
    BY Zenon, <1>1, <1>2, LooseSet
  <1>3. CASE rec.pc \in Putting /\ cl[c].pc \in Putting /\ "m" \notin DOMAIN rec
    <2>1. "m" \in DOMAIN cl[c] /\ cl[c].m \in Mode
      BY Zenon, <1>3 DEF LocksInv, Placed, Shape, Putting
    <2> QED BY Zenon, <1>1, <1>3, <2>1, LooseSet
  <1> QED BY Zenon, <1>2, <1>3

\* One of these calls begins.
LEMMA LooseBegins ==
    ASSUME LocksInv, NEW c \in Clients, MayBegin(c), NEW i, NEW m \in Mode, NEW rec,
           Begins(c, i, m, rec), "pc" \in DOMAIN rec,
           \/ rec.pc \in Loose
           \/ rec.pc \in Putting /\ "m" \in DOMAIN rec /\ rec.m \in Mode
    PROVE  Stepped(c)
  <1>1. locks' \in Tables /\ Others(locks, locks', c)
    BY ZenonT(60), Begun
  <1>2. cl' = [cl EXCEPT ![c] = rec]
    BY Zenon DEF Begins
  <1> QED BY Zenon, <1>1, <1>2, LooseSet

\* A new name is in its directory, and is to be flushed.
LEMMA PutFlushSet ==
    ASSUME LocksInv, NEW c \in Clients, locks' = locks, NEW d, NEW new, NEW old,
           cl' = [cl EXCEPT ![c] = [pc |-> "PutFlushes", d |-> d, new |-> new, old |-> old]]
    PROVE  Stepped(c)
  <1>1. PICK rec : rec = [pc |-> "PutFlushes", d |-> d, new |-> new, old |-> old]
    BY Zenon
  <1>2. cl' = [cl EXCEPT ![c] = rec] /\ "pc" \in DOMAIN rec /\ rec.pc = "PutFlushes"
    BY Zenon, <1>1
  <1> QED BY Zenon, <1>2, Stays, LooseSet DEF Loose

\* LookupPath().
LEMMA LookupPathSteps ==
    ASSUME LocksInv, NEW c \in Clients, LookupPath(c)
    PROVE  Stepped(c)
  <1> DEFINE r == cl[c]
  <1>0. Mode = {"shared", "exclusive"} /\ locks \in Tables
    BY Zenon DEF LocksInv, Mode
  <1>1. CASE \E p : /\ MayBegin(c)
                    /\ Begins(c, RootDir, "shared", [pc |-> "Path", d |-> RootDir, segs |-> p])
    BY SMTT(30), <1>0, <1>1, LooseBegins DEF Loose
  <1>2. CASE Returns(c, Inodes)
    BY Zenon, <1>2, ReturnedAll
  <1>3. CASE \E segs, d : /\ locks' = Releases(locks, c, r.d)
                          /\ Goes(c, [pc |-> "PathNext", segs |-> segs, d |-> d])
    BY Zenon, <1>0, <1>3, ReleasesTable, LooseGoes DEF Loose
  <1>4. CASE locks' = Requests(locks, c, r.d, "shared") /\ Goes(c, [pc |-> "Path"])
    BY Zenon, <1>0, <1>4, RequestsTable, LooseGoes DEF Loose
  <1> QED BY Zenon, <1>1, <1>2, <1>3, <1>4 DEF LookupPath

\* MiddlewarePutContainer().
LEMMA PutContainerSteps ==
    ASSUME LocksInv, NEW c \in Clients, MiddlewarePutContainer(c)
    PROVE  Stepped(c)
  <1> DEFINE r == cl[c]
  <1>0. Mode = {"shared", "exclusive"} /\ locks \in Tables
    BY Zenon DEF LocksInv, Mode
  <1>1. CASE \E n : /\ MayBegin(c)
                    /\ Begins(c, RootDir, "exclusive", [pc |-> "PutContainer", n |-> n])
    BY <1>0, <1>1, LooseBegins DEF Loose
  <1>2. CASE Returns(c, Inodes)
    BY Zenon, <1>2, ReturnedAll
  <1>3. CASE \E i : /\ locks' = Requests(locks, c, i, "exclusive")
                    /\ Goes(c, [pc |-> "PutContainerBoth", i |-> i])
    BY Zenon, <1>0, <1>3, RequestsTable, LooseGoes DEF Loose
  <1>4. CASE \E new : /\ locks' = locks
                      /\ cl' = [cl EXCEPT ![c] = [pc |-> "PutFlushes", d |-> RootDir,
                                                  new |-> new, old |-> {}]]
    BY Zenon, <1>4, PutFlushSet
  <1> QED BY ZenonT(60), <1>1, <1>2, <1>3, <1>4 DEF MiddlewarePutContainer

\* putObjectHelper(), for MiddlewarePutComplete() and MiddlewareMkdir().
LEMMA PutSteps ==
    ASSUME LocksInv, NEW c \in Clients,
           MiddlewarePutComplete(c) \/ MiddlewareMkdir(c) \/ PutObjectHelper(c)
    PROVE  Stepped(c)
  <1> DEFINE r == cl[c]
  <1>0. Mode = {"shared", "exclusive"} /\ locks \in Tables
    BY Zenon DEF LocksInv, Mode
  <1>r. CASE Returns(c, Inodes)
    BY Zenon, <1>r, ReturnedAll
  <1>1. ASSUME NEW type, PutBegins(c, type) PROVE Stepped(c)
    <2>1. PICK rec : /\ MayBegin(c) /\ Begins(c, RootDir, "shared", rec)
                     /\ rec.pc = "PutFinds" /\ rec.m = "exclusive" /\ {"pc", "m"} \subseteq DOMAIN rec
      BY <1>1 DEF PutBegins
    <2> QED BY Zenon, <1>0, <2>1, LooseBegins DEF Putting
  <1>2. CASE PutFindsContainer(c)
    <2>1. CASE \E d : /\ r.pc = "PutFinds" /\ locks' = Releases(locks, c, RootDir)
                      /\ Goes(c, [pc |-> "PutAsks", d |-> d])
      BY Zenon, <1>0, <2>1, ReleasesTable, LooseGoes DEF Putting
    <2>2. CASE /\ r.pc = "PutAsks" /\ locks' = Requests(locks, c, r.d, "exclusive")
               /\ Goes(c, [pc |-> "PutDir"])
      BY Zenon, <1>0, <2>2, RequestsTable, LooseGoes DEF Putting
    <2> QED BY ZenonT(60), <1>r, <1>2, <2>1, <2>2 DEF PutFindsContainer, At
  <1>3. CASE PutWalks(c)
    <2>1. CASE \E i, segs : /\ r.pc = "PutDir" /\ locks' = Requests(locks, c, i, "exclusive")
                            /\ Goes(c, [pc |-> "PutEntry", i |-> i, segs |-> segs])
      BY Zenon, <1>0, <2>1, RequestsTable, LooseGoes DEF Putting
    <2>2. CASE r.pc = "PutEntry" /\ FollowsLink(c, "PutDir", 0)
      <3>1. r.m \in Mode
        BY Zenon, <2>2 DEF LocksInv, Placed, Shape
      <3>2. locks' \in Tables /\ Others(locks, locks', c)
        BY ZenonT(60), <2>2, <3>1, FollowsTable
      <3>3. PICK rec : Goes(c, rec) /\ rec.pc = "PutDir" /\ DOMAIN rec = {"pc", "segs", "d", "follows"}
        BY <2>2 DEF FollowsLink
      <3> QED BY Zenon, <2>2, <3>2, <3>3, LooseGoes DEF Putting
    <2>3. CASE /\ r.pc = "PutEntry" /\ locks' = Drops(locks, c, r.d)
               /\ Goes(c, [pc |-> "PutDir", d |-> r.i])
      BY Zenon, <1>0, <2>3, DropsTable, LooseGoes DEF Putting
    <2> QED BY ZenonT(60), <1>r, <1>3, <2>1, <2>2, <2>3 DEF PutWalks, At
  <1>4. CASE PutMakes(c)
    <2>1. CASE \E i, new : /\ locks' = Requests(locks, c, i, "exclusive")
                           /\ cl' = [cl EXCEPT ![c] = [pc |-> "PutObstacle", d |-> r.d,
                                         base |-> r.base, i |-> i, new |-> new]]
      <3>3. PICK i, new : /\ locks' = Requests(locks, c, i, "exclusive")
                          /\ cl' = [cl EXCEPT ![c] = [pc |-> "PutObstacle", d |-> r.d,
                                        base |-> r.base, i |-> i, new |-> new]]
        BY Zenon, <2>1
      <3>4. PICK rec : rec = [pc |-> "PutObstacle", d |-> r.d,
                              base |-> r.base, i |-> i, new |-> new]
        BY ZenonT(60)
      <3>1. /\ locks' = Requests(locks, c, i, "exclusive")
            /\ cl' = [cl EXCEPT ![c] = rec]
            /\ "pc" \in DOMAIN rec /\ rec.pc = "PutObstacle"
        BY Zenon, <3>3, <3>4
      <3>2. locks' \in Tables /\ Others(locks, locks', c)
        BY Zenon, <1>0, <3>1, RequestsTable
      <3> QED BY Zenon, <3>1, <3>2, LooseSet DEF Loose
    <2>2. CASE \E new : /\ locks' = locks
                        /\ cl' = [cl EXCEPT ![c] = [pc |-> "PutFlushes", d |-> r.d,
                                                    new |-> new, old |-> {}]]
      BY Zenon, <2>2, PutFlushSet
    <2> QED BY ZenonT(60), <1>r, <1>4, <2>1, <2>2 DEF PutMakes
  <1>5. CASE RemoveObstacleToObjectPut(c)
    <2>1. CASE locks' = locks /\ Goes(c, [pc |-> "PutLinks", old |-> {r.i}])
      BY Zenon, <2>1, Stays, LooseGoes DEF Loose
    <2> QED BY Zenon, <1>r, <1>5, <2>1 DEF RemoveObstacleToObjectPut
  <1>6. CASE PutLinks(c) \/ PutFlushes(c)
    <2>1. ASSUME NEW p \in {"PutFlushes", "PutRelinks"}, locks' = locks, Goes(c, [pc |-> p])
          PROVE  Stepped(c)
      BY Zenon, <2>1, Stays, LooseGoes DEF Loose
    <2> QED BY Zenon, <1>r, <1>6, <2>1 DEF PutLinks, PutFlushes
  <1>7. CASE MiddlewarePutComplete(c) \/ MiddlewareMkdir(c)
    BY Zenon, <1>1, <1>7 DEF MiddlewarePutComplete, MiddlewareMkdir
  <1> QED BY ZenonT(60), <1>2, <1>3, <1>4, <1>5, <1>6, <1>7 DEF PutObjectHelper

\* MiddlewareCoalesce() calls resolvePath() with locks it has.
LEMMA CoalesceResolves ==
    ASSUME LocksInv, NEW c \in Clients, locks' \in Tables, Others(locks, locks', c),
           NEW op, op # "Delete", NEW path, NEW d, NEW held, NEW r,
           \/ cl' = [cl EXCEPT ![c] = Over([Resolving(op, "exclusive", path, <<>>)
                                              EXCEPT !.d = d, !.held = held], r)]
           \/ cl' = [cl EXCEPT ![c] = Over([Resolving(op, "exclusive", path, <<>>)
                                              EXCEPT !.held = held], r)]
    PROVE  Stepped(c)
  <1>1. PICK base : base = Resolving(op, "exclusive", path, <<>>)
    BY Zenon
  <1>2. PICK rec : rec = [pc |-> "Dir", op |-> op, m |-> "exclusive", segs |-> path,
                          d |-> RootDir, follows |-> MaxSymlinks, held |-> {}]
    BY Zenon
  <1>3. base = Over(rec, <<>>)
    BY Zenon, <1>1, <1>2 DEF Resolving
  <1>4. /\ DOMAIN Over(rec, <<>>) = DOMAIN rec \cup DOMAIN <<>>
        /\ \A f \in DOMAIN rec : Over(rec, <<>>)[f] = rec[f]
    BY Zenon DEF Over
  <1>5. /\ {"pc", "op", "m", "d", "held"} \subseteq DOMAIN base
        /\ base.pc = "Dir" /\ base.op = op /\ base.m = "exclusive"
    BY Zenon, <1>2, <1>3, <1>4
  <1>6. PICK new : /\ cl' = [cl EXCEPT ![c] = Over(new, r)]
                   /\ new = [base EXCEPT !.d = d, !.held = held] \/ new = [base EXCEPT !.held = held]
    BY Zenon, <1>1
  <1>7. /\ {"pc", "op", "m", "d", "held"} \subseteq DOMAIN new
        /\ new.pc = "Dir" /\ new.op = op /\ new.m = "exclusive"
    BY Zenon, <1>5, <1>6
  <1>8. cl' = [cl EXCEPT ![c] = cl'[c]] /\ cl'[c] = Over(new, r)
    BY Zenon, <1>6, RecSet
  <1>9. /\ DOMAIN Over(new, r) = DOMAIN new \cup DOMAIN r
        /\ \A f \in DOMAIN new : Over(new, r)[f] = new[f]
    BY Zenon DEF Over
  <1>10. /\ {"pc", "op", "m", "d", "held"} \subseteq DOMAIN cl'[c]
         /\ cl'[c].pc = "Dir" /\ cl'[c].op = op /\ cl'[c].m = "exclusive"
    BY Zenon, <1>7, <1>8, <1>9
  <1>11. Shape(cl'[c])
    BY Zenon, <1>10 DEF Shape, Mode
  <1> QED BY Zenon, <1>8, <1>10, <1>11, Anywhere

\* MiddlewareCoalesce() and inode.Coalesce(), errors included.
LEMMA CoalesceSteps ==
    ASSUME LocksInv, NEW c \in Clients, MiddlewareCoalesce(c)
    PROVE  Stepped(c)
  <1> DEFINE r == cl[c]
  <1>0. Mode = {"shared", "exclusive"} /\ locks \in Tables
    BY Zenon DEF LocksInv, Mode
  <1>r. CASE Returns(c, Inodes)
    BY Zenon, <1>r, ReturnedAll
  <1>1. CASE CoalesceBegins(c)
    <2>1. PICK rec : /\ MayBegin(c) /\ Begins(c, RootDir, "exclusive", rec)
                     /\ rec.pc = "CoalesceWalks" /\ "pc" \in DOMAIN rec
      BY <1>1 DEF CoalesceBegins
    <2> QED BY Zenon, <1>0, <2>1, LooseBegins DEF Loose
  <1>d. DropsCursor(c) \in Tables /\ Others(locks, DropsCursor(c), c)
    BY Zenon, <1>0, DropsTable, SameIsUndisturbed DEF DropsCursor, Others
  <1>2. CASE CoalesceWalks(c)
    <2>1. CASE /\ cl' = [cl EXCEPT ![c] =
                   Over([Resolving("CoalesceInto", "exclusive", <<Head(r.dest)>>, <<>>)
                           EXCEPT !.d = r.cur, !.held = CoalesceHeld(r)],
                        [r EXCEPT !.dest = Tail(@)])]
               /\ locks' = Ensures(locks, c, r.cur, "exclusive", CoalesceHeld(r))
      <3>1. locks' \in Tables /\ Others(locks, locks', c)
        BY Zenon, <1>0, <2>1, EnsuresTable
      <3> QED BY ZenonT(60), <2>1, <3>1, CoalesceResolves
    <2>2. CASE locks' = locks /\ Goes(c, [pc |-> "CoalesceMakes"])
      BY Zenon, <2>2, Stays, LooseGoes DEF Loose
    <2>3. CASE \E own : /\ locks' = DropsCursor(c)
                        /\ Goes(c, [pc |-> "CoalesceWalks", cur |-> r.i, own |-> own])
      BY Zenon, <1>d, <2>3, LooseGoes DEF Loose
    <2> QED BY Zenon, <1>r, <1>2, <2>1, <2>2, <2>3 DEF CoalesceWalks
  <1>3. CASE CoalesceMakes(c)
    <2>1. CASE \E new : locks' = locks /\ Goes(c, [pc |-> "CoalesceLinks", new |-> new])
      BY Zenon, <2>1, Stays, LooseGoes DEF Loose
    <2>2. CASE \E cur, dest :
                 /\ locks' = DropsCursor(c)
                 /\ Goes(c, [pc |-> "CoalesceLocks", cur |-> cur, own |-> FALSE,
                             dest |-> dest, new |-> {}])
      <3>1. PICK rec : Goes(c, rec) /\ "pc" \in DOMAIN rec /\ rec.pc = "CoalesceLocks"
        BY <2>2
      <3> QED BY ZenonT(60), <1>d, <2>2, <3>1, LooseGoes DEF Loose
    <2>3. CASE /\ locks' = Requests(locks, c, r.cur, "exclusive")
               /\ Goes(c, [pc |-> "CoalesceMakes", own |-> TRUE])
      BY Zenon, <1>0, <2>3, RequestsTable, LooseGoes DEF Loose
    <2> QED BY ZenonT(60), <1>r, <1>3, <2>1, <2>2, <2>3 DEF CoalesceMakes
  <1>4. CASE CoalesceElement(c)
    <2>1. CASE /\ cl' = [cl EXCEPT ![c] =
                   Over([Resolving("CoalesceFrom", "exclusive", Head(r.todo).dir, <<>>)
                           EXCEPT !.held = CoalesceHeld(r)], r)]
               /\ locks' = locks
      BY Zenon, <2>1, Stays, CoalesceResolves
    <2>2. CASE \E i, held, kept :
                 /\ locks' = Ensures(locks, c, i, "exclusive", held)
                 /\ Goes(c, [pc |-> "CoalesceFile", d |-> r.i, i |-> i, kept |-> kept])
      <3>1. PICK i, held, kept :
              /\ locks' = Ensures(locks, c, i, "exclusive", held)
              /\ Goes(c, [pc |-> "CoalesceFile", d |-> r.i, i |-> i, kept |-> kept])
        BY Zenon, <2>2
      <3>2. PICK rec : rec = [pc |-> "CoalesceFile", d |-> r.i, i |-> i, kept |-> kept]
        BY Zenon
      <3>3. "pc" \in DOMAIN rec /\ rec.pc = "CoalesceFile"
        BY Zenon, <3>2
      <3>4. Goes(c, rec)
        BY Zenon, <3>1, <3>2
      <3>5. locks' \in Tables /\ Others(locks, locks', c)
        BY Zenon, <1>0, <3>1, EnsuresTable
      <3> QED BY Zenon, <3>3, <3>4, <3>5, LooseGoes DEF Loose
    <2>3. CASE \E todo, kept, done :
                 /\ locks' = locks
                 /\ Goes(c, [pc |-> "CoalesceWalks", todo |-> todo, kept |-> kept, done |-> done])
      <3>1. PICK rec : Goes(c, rec) /\ "pc" \in DOMAIN rec /\ rec.pc = "CoalesceWalks"
        BY <2>3
      <3> QED BY ZenonT(60), <2>3, <3>1, Stays, LooseGoes DEF Loose
    <2> QED BY ZenonT(60), <1>r, <1>4, <2>1, <2>2, <2>3 DEF CoalesceElement
  <1>5. CASE Coalesce(c)
    <2>1. CASE \E gone, links :
                 /\ locks' = locks
                 /\ Goes(c, [pc |-> "CoalesceWrites", gone |-> gone, links |-> links])
      BY Zenon, <2>1, Stays, LooseGoes DEF Loose
    <2>2. CASE \E new, old :
                 /\ locks' = locks
                 /\ Goes(c, [pc |-> "CoalesceFlushes", new |-> new, old |-> old])
      BY Zenon, <2>2, Stays, LooseGoes DEF Loose
    <2>3. CASE CoalesceReads(c)
      BY Zenon, <1>r, <2>1, <2>3 DEF CoalesceReads
    <2>4. CASE CoalesceWrites(c)
      BY Zenon, <1>r, <2>2, <2>4 DEF CoalesceWrites
    <2>5. CASE CoalesceFlushes(c)
      BY Zenon, <1>r, <2>5 DEF CoalesceFlushes
    <2> QED BY Zenon, <1>5, <2>3, <2>4, <2>5 DEF Coalesce
  <1> QED BY Zenon, <1>1, <1>2, <1>3, <1>4, <1>5 DEF MiddlewareCoalesce

-----------------------------------------------------------------------------
\* Nobody has asked for a lock at first.
LEMMA LocksInit == Init => LocksInv
  <1> SUFFICES ASSUME Init PROVE LocksInv
    BY Zenon
  <1>1. locks \in Tables
    BY DEF Init, Tables
  <1>2. cl = [c \in Clients |-> cl[c]] /\ \A c \in Clients : cl[c] = Idle
    BY Zenon DEF Init
  <1>3. ASSUME NEW c \in Clients PROVE Within(locks, c, {})
    BY DEF Init, Within, HasNone
  <1>4. ASSUME NEW c \in Clients PROVE Placed(locks, c, Idle)
    BY Zenon, <1>3 DEF Placed, Shape, Bounded, Idle
  <1> QED BY Zenon, <1>1, <1>2, <1>4 DEF LocksInv

\* Every step of every call keeps the invariant.
LEMMA LocksNext == LocksInv /\ [Next]_vars => LocksInv'
  <1> SUFFICES ASSUME LocksInv, [Next]_vars PROVE LocksInv'
    BY Zenon
  <1>1. CASE UNCHANGED vars
    BY Zenon, <1>1 DEF vars, LocksInv
  <1>2. ASSUME NEW c \in Clients, Looks(c) PROVE Stepped(c)
    <2>1. CASE ReadLocks(c) \/ ReadReturns(c)
      BY Zenon, <2>1, ReadSteps
    <2>2. CASE Readdir(c) \/ ReaddirOne(c) \/ ReaddirTypes(c) \/ ReaddirPlus(c)
      BY Zenon, <2>2, ReaddirSteps
    <2> QED BY Zenon, <1>2, <2>1, <2>2 DEF Looks, Getstat, GetType, GetXAttr, ListXAttr, IsDirCall,
               IsFileCall, IsSymlinkCall, LookupCall, Readsymlink, Read
  <1>3. ASSUME NEW c \in Clients, Alters(c) PROVE Stepped(c)
    BY ZenonT(60), <1>3, WriteSteps, CreateSteps, LinkSteps, RemoveSteps, RenameSteps DEF Alters
  <1>4. ASSUME NEW c \in Clients, MiddlewareCalls(c) PROVE Stepped(c)
    BY ZenonT(60), <1>4, ResolveSteps, DeleteSteps, LookupPathSteps, PutContainerSteps, PutSteps,
       CoalesceSteps DEF MiddlewareCalls
  <1>5. CASE Next
    <2>1. PICK c \in Clients : Looks(c) \/ Alters(c) \/ MiddlewareCalls(c)
      BY Zenon, <1>5 DEF Next
    <2>2. Stepped(c)
      BY Zenon, <1>2, <1>3, <1>4, <2>1
    <2> QED BY Zenon, <2>2, SteppedKeeps
  <1> QED BY Zenon, <1>1, <1>5

\* Of a client that is idle the invariant says what NoLockLeft does.
LEMMA LocksLeft == LocksInv => NoLockLeft
  <1> SUFFICES ASSUME LocksInv, NEW i \in Inodes, NEW k \in DOMAIN locks[i],
                      cl[locks[i][k].c] = Idle
               PROVE  FALSE
    BY Zenon DEF NoLockLeft
  <1>1. locks[i] \in Seq(Asked)
    BY Zenon DEF LocksInv, Tables
  <1>2. k \in 1..Len(locks[i]) /\ locks[i][k] \in Asked
    BY <1>1
  <1>3. PICK x \in Clients : x = locks[i][k].c
    BY Zenon, <1>2 DEF Asked
  <1>4. Bounded(locks, x, Idle)
    BY Zenon, <1>3 DEF LocksInv, Placed
  <1>5. Within(locks, x, {})
    BY Zenon, <1>4 DEF Bounded, Idle
  <1> QED BY Zenon, <1>2, <1>3, <1>5 DEF Within, HasNone

\* Every call of package fs, those of the middleware included, returns without a
\* lock or a request for one, whichever path through errors, retries, symlinks and
\* missing entries it takes, for any number of clients, inodes, names and calls.
THEOREM CallsReturnTheirLocks == Spec => []NoLockLeft
  BY LocksInit, LocksNext, LocksLeft, PTL DEF Spec
=============================================================================
