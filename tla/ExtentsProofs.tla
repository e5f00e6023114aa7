---------------------------- MODULE ExtentsProofs ---------------------------
(***************************************************************************)
(* A file has the bytes that were written last, for every sequence of      *)
(* Write(), Wrote(), SetSize() and Flush() and every size of the file.     *)
(*                                                                         *)
(* Each of Split, Prune, Insert and Truncate gets a lemma: it keeps the    *)
(* extents sound (not empty, not overlapping), and says which byte is      *)
(* where afterwards.  The code looks at one preceding extent only; that    *)
(* this is enough is where NoOverlap is needed.  What LogSegmentMap counts *)
(* follows from the same lemmas, once sums over extents are known to be    *)
(* numbers of bytes.                                                       *)
(***************************************************************************)
EXTENDS Extents, FiniteSetTheorems, TLAPS

\* NoOverlap and the type of the extents, for any map of extents.
Sound(x) ==
    /\ DOMAIN x \subseteq Nat
    /\ \A k \in DOMAIN x : /\ x[k] \in Extent
                           /\ x[k].Length > 0
    /\ \A k, j \in DOMAIN x : k < j => End(x, k) <= j

\* No extent has bytes on both sides of o.
CutAt(x, o) == \A k \in DOMAIN x : k < o => End(x, k) <= o

Within(x, size) == \A k \in DOMAIN x : End(x, k) <= size

\* What the types say of one extent.
LEMMA FieldTypes ==
    ASSUME NEW x, Sound(x), NEW k \in DOMAIN x
    PROVE  /\ k \in Nat
           /\ x[k].Length \in Nat /\ x[k].Length > 0
           /\ x[k].LogSegmentNumber \in LogSegments
           /\ x[k].LogSegmentOffset \in Nat
           /\ End(x, k) \in Nat /\ End(x, k) = k + x[k].Length
  <1>1. x[k] \in Extent /\ k \in Nat /\ x[k].Length > 0
    BY Zenon DEF Sound
  <1>2. QED
    BY <1>1 DEF Extent, End

\* At most one extent has the byte at p.
LEMMA ByteUnique ==
    ASSUME NEW x, Sound(x), NEW p \in Nat, NEW k \in Bytes(x, p)
    PROVE  ByteAt(x, p) = <<x[k].LogSegmentNumber, x[k].LogSegmentOffset + (p - k)>>
  <1>1. ASSUME NEW j \in Bytes(x, p) PROVE j = k
    <2>1. /\ j \in DOMAIN x /\ j <= p /\ p < End(x, j)
          /\ k \in DOMAIN x /\ k <= p /\ p < End(x, k)
      BY Zenon, <1>1 DEF Bytes
    <2>2. (k < j => End(x, k) <= j) /\ (j < k => End(x, j) <= k)
      BY Zenon, <2>1 DEF Sound
    <2>3. j \in Nat /\ k \in Nat /\ End(x, k) \in Nat /\ End(x, j) \in Nat
      BY Zenon, <2>1, FieldTypes
    <2>4. QED
      BY <2>1, <2>2, <2>3
  <1>2. (CHOOSE j \in Bytes(x, p) : TRUE) = k
    BY Zenon, <1>1
  <1>3. QED
    BY Zenon, <1>2 DEF ByteAt

\* Two maps of extents that find the byte at p in the same place.
LEMMA SameByte ==
    ASSUME NEW x, Sound(x), NEW y, Sound(y), NEW p \in Nat,
           \A k \in Bytes(x, p) : \E j \in Bytes(y, p) :
              /\ y[j].LogSegmentNumber = x[k].LogSegmentNumber
              /\ y[j].LogSegmentOffset + (p - j) = x[k].LogSegmentOffset + (p - k),
           Bytes(x, p) = {} => Bytes(y, p) = {}
    PROVE  ByteAt(y, p) = ByteAt(x, p)
  <1>1. CASE Bytes(x, p) = {}
    BY Zenon, <1>1 DEF ByteAt
  <1>2. CASE Bytes(x, p) # {}
    <2>1. PICK k \in Bytes(x, p) : TRUE
      BY Zenon, <1>2
    <2>2. PICK j \in Bytes(y, p) :
              /\ y[j].LogSegmentNumber = x[k].LogSegmentNumber
              /\ y[j].LogSegmentOffset + (p - j) = x[k].LogSegmentOffset + (p - k)
      BY Zenon, <2>1
    <2>3. /\ ByteAt(x, p) = <<x[k].LogSegmentNumber, x[k].LogSegmentOffset + (p - k)>>
          /\ ByteAt(y, p) = <<y[j].LogSegmentNumber, y[j].LogSegmentOffset + (p - j)>>
      BY Zenon, ByteUnique
    <2>4. QED
      BY Zenon, <2>2, <2>3
  <1>3. QED
    BY Zenon, <1>1, <1>2

\* Splitting an extent moves no byte.
LEMMA SplitLemma ==
    ASSUME NEW x, Sound(x), NEW o \in Nat, NEW size \in Nat, Within(x, size)
    PROVE  /\ Sound(Split(x, o)) /\ CutAt(Split(x, o), o) /\ Within(Split(x, o), size)
           /\ \A p \in Nat : ByteAt(Split(x, o), p) = ByteAt(x, p)
  <1> DEFINE split == {k \in Preceding(x, o) : o \notin DOMAIN x /\ End(x, k) > o}
             y == Split(x, o)
  <1>1. CASE split = {}
    <2>1. y = [k \in DOMAIN x |-> x[k]]
      BY Zenon, <1>1 DEF Split
    <2>2. \A k \in DOMAIN x : y[k] = x[k] /\ End(y, k) = End(x, k)
      BY Zenon, <2>1 DEF End
    <2>3. DOMAIN y = DOMAIN x
      BY Zenon, <2>1
    <2>4. Sound(y) /\ Within(y, size)
      BY Zenon, <2>2, <2>3 DEF Sound, Within
    <2>5. ASSUME NEW k \in DOMAIN x, k < o PROVE End(x, k) <= o
      <3>1. /\ k \in Nat /\ End(x, k) \in Nat
            /\ \A j \in DOMAIN x : j \in Nat /\ (k < j => End(x, k) <= j)
        BY Zenon, FieldTypes DEF Sound
      <3>2. SUFFICES ASSUME End(x, k) > o PROVE FALSE
        BY <3>1
      <3>3. o \notin DOMAIN x
        BY <2>5, <3>1, <3>2
      <3>4. k \in Preceding(x, o)
        BY <2>5, <3>1, <3>2 DEF Preceding
      <3>5. QED
        BY Zenon, <1>1, <3>2, <3>3, <3>4
    <2>6. CutAt(y, o)
      BY Zenon, <2>2, <2>3, <2>5 DEF CutAt
    <2>7. \A p \in Nat : ByteAt(y, p) = ByteAt(x, p)
      <3>1. \A p \in Nat : Bytes(y, p) = Bytes(x, p) /\ \A k \in Bytes(x, p) : y[k] = x[k]
        BY Zenon, <2>2, <2>3 DEF Bytes
      <3>2. QED
        BY Zenon, <2>4, <3>1, SameByte
    <2>8. QED
      BY Zenon, <2>4, <2>6, <2>7
  <1>2. CASE split # {}
    <2>1. PICK l \in split : TRUE
      BY Zenon, <1>2
    <2>2. /\ l \in DOMAIN x /\ l < o /\ o \notin DOMAIN x /\ o < End(x, l)
          /\ \A j \in DOMAIN x : j < o => j <= l
      BY Zenon, <2>1 DEF Preceding
    <2>3. /\ l \in Nat /\ End(x, l) \in Nat /\ End(x, l) = l + x[l].Length
          /\ x[l] \in Extent
          /\ x[l].Length \in Nat /\ x[l].LogSegmentOffset \in Nat
          /\ x[l].LogSegmentNumber \in LogSegments
      BY Zenon, <2>2, FieldTypes DEF Sound
    <2>4. \A k \in split : k = l
      <3>1. \A k \in split : k \in Nat /\ k <= l /\ l <= k
        BY Zenon, <2>2, <2>3 DEF Preceding, Sound
      <3>2. QED
        BY <2>3, <3>1
    <2>5. split = {l}
      BY Zenon, <2>1, <2>4
    <2>6. (CHOOSE k \in split : TRUE) = l
      BY Zenon, <2>5
    <2>7. y = [k \in DOMAIN x \cup {o} |->
                 IF k = l THEN [x[l] EXCEPT !.Length = o - l]
                 ELSE IF k \in DOMAIN x THEN x[k] ELSE Without(x[l], o - l)]
      BY Zenon, <2>5, <2>6 DEF Split
    <2> HIDE DEF split, y
    <2>8. /\ DOMAIN y = DOMAIN x \cup {o}
          /\ y[l] = [x[l] EXCEPT !.Length = o - l]
          /\ y[o] = Without(x[l], o - l)
          /\ \A k \in DOMAIN x : k # l => y[k] = x[k]
      BY Zenon, <2>2, <2>7
    <2>9. /\ y[l].Length = o - l /\ y[l].LogSegmentNumber = x[l].LogSegmentNumber
          /\ y[l].LogSegmentOffset = x[l].LogSegmentOffset /\ y[l] \in Extent
      BY <2>2, <2>3, <2>8 DEF Extent
    <2>10. /\ y[o].Length = x[l].Length - (o - l)
           /\ y[o].LogSegmentNumber = x[l].LogSegmentNumber
           /\ y[o].LogSegmentOffset = x[l].LogSegmentOffset + (o - l)
           /\ y[o] \in Extent
      BY <2>2, <2>3, <2>8 DEF Extent, Without
    <2>11. /\ End(y, l) = o /\ End(y, o) = End(x, l)
           /\ \A k \in DOMAIN x : k # l => End(y, k) = End(x, k)
      BY <2>2, <2>3, <2>8, <2>9, <2>10 DEF End
    <2>12. \A k \in DOMAIN x : k \in Nat /\ End(x, k) \in Nat /\ x[k] \in Extent
                               /\ x[k].Length > 0 /\ x[k].LogSegmentOffset \in Nat
      BY Zenon, FieldTypes DEF Sound
    <2>13. \A k, j \in DOMAIN x : k < j => End(x, k) <= j
      BY Zenon DEF Sound
    <2>14. Sound(y)
      <3>1. DOMAIN y \subseteq Nat
        BY Zenon, <2>8, <2>12
      <3>2. \A k \in DOMAIN y : y[k] \in Extent /\ y[k].Length > 0
        <4>1. y[l].Length > 0 /\ y[o].Length > 0
          BY <2>2, <2>3, <2>9, <2>10
        <4>2. QED
          BY Zenon, <2>8, <2>9, <2>10, <2>12, <4>1
      <3>3. ASSUME NEW k \in DOMAIN y, NEW j \in DOMAIN y, k < j PROVE End(y, k) <= j
        <4>1. CASE k = o
          BY <2>2, <2>3, <2>8, <2>11, <2>12, <2>13, <3>3, <4>1
        <4>2. CASE k = l
          BY <2>2, <2>3, <2>8, <2>11, <2>12, <2>13, <3>3, <4>2
        <4>3. CASE k # o /\ k # l
          BY <2>2, <2>3, <2>8, <2>11, <2>12, <2>13, <3>3, <4>3
        <4>4. QED
          BY Zenon, <4>1, <4>2, <4>3
      <3>4. QED
        BY Zenon, <3>1, <3>2, <3>3 DEF Sound
    <2>15. CutAt(y, o)
      BY <2>2, <2>3, <2>8, <2>11, <2>12, <2>13 DEF CutAt
    <2>16. Within(y, size)
      BY <2>2, <2>3, <2>8, <2>11, <2>12 DEF Within
    <2>17. ASSUME NEW p \in Nat PROVE ByteAt(y, p) = ByteAt(x, p)
      <3>1. ASSUME NEW k \in Bytes(x, p)
            PROVE  \E j \in Bytes(y, p) :
                     /\ y[j].LogSegmentNumber = x[k].LogSegmentNumber
                     /\ y[j].LogSegmentOffset + (p - j) = x[k].LogSegmentOffset + (p - k)
        <4>1. k \in DOMAIN x /\ k <= p /\ p < End(x, k)
          BY Zenon, <3>1 DEF Bytes
        <4>2. CASE k # l
          BY Zenon, <2>8, <2>11, <4>1, <4>2 DEF Bytes
        <4>3. CASE k = l /\ p < o
          BY Zenon, <2>8, <2>9, <2>11, <4>1, <4>3 DEF Bytes
        <4>4. CASE k = l /\ ~(p < o)
          <5>1. o \in Bytes(y, p)
            BY <2>8, <2>11, <4>1, <4>4 DEF Bytes
          <5>2. y[o].LogSegmentOffset + (p - o) = x[k].LogSegmentOffset + (p - k)
            BY <2>3, <2>10, <4>4
          <5>3. QED
            BY Zenon, <2>10, <4>4, <5>1, <5>2
        <4>5. QED
          BY Zenon, <4>2, <4>3, <4>4
      <3>2. ASSUME NEW j \in Bytes(y, p) PROVE Bytes(x, p) # {}
        <4>1. j \in DOMAIN y /\ j <= p /\ p < End(y, j)
          BY Zenon, <3>2 DEF Bytes
        <4>2. CASE j = o \/ j = l
          <5>1. l <= p /\ p < End(x, l)
            BY <2>2, <2>3, <2>11, <4>1, <4>2
          <5>2. QED
            BY Zenon, <2>2, <5>1 DEF Bytes
        <4>3. CASE j # o /\ j # l
          BY Zenon, <2>8, <2>11, <4>1, <4>3 DEF Bytes
        <4>4. QED
          BY Zenon, <4>2, <4>3
      <3>3. QED
        BY Zenon, <2>14, <3>1, <3>2, SameByte
    <2>18. QED
      BY Zenon, <2>14, <2>15, <2>16, <2>17 DEF y
  <1>3. QED
    BY Zenon, <1>1, <1>2

\* Pruning empties [o, end) and moves no other byte.
LEMMA PruneLemma ==
    ASSUME NEW x, Sound(x), NEW o \in Nat, NEW end \in Nat, o < end, CutAt(x, o),
           NEW size \in Nat, Within(x, size)
    PROVE  /\ Sound(Prune(x, o, end)) /\ Within(Prune(x, o, end), size)
           /\ \A k \in DOMAIN Prune(x, o, end) :
                (k < o /\ End(Prune(x, o, end), k) <= o) \/ k >= end
           /\ \A p \in Nat : ByteAt(Prune(x, o, end), p) =
                               IF o <= p /\ p < end THEN Hole ELSE ByteAt(x, p)
  <1> DEFINE over == Overlapping(x, o, end)
             partly == {k \in over : End(x, k) > end}
             y == Prune(x, o, end)
  <1>1. \A k \in DOMAIN x : k \in Nat /\ End(x, k) \in Nat /\ x[k] \in Extent
                            /\ x[k].Length > 0 /\ x[k].LogSegmentOffset \in Nat
                            /\ k < End(x, k)
    BY FieldTypes DEF Sound
  <1>2. \A k, j \in DOMAIN x : k < j => End(x, k) <= j
    BY Zenon DEF Sound
  <1>3. \A k \in DOMAIN x : k \in over <=> o <= k /\ k < end
    BY Zenon DEF Overlapping
  <1>4. over \subseteq DOMAIN x
    BY Zenon DEF Overlapping
  \* What is left of x, and at most a new extent at end.
  <1>5. /\ DOMAIN x \ over \subseteq DOMAIN y
        /\ \A k \in DOMAIN x \ over : y[k] = x[k] /\ End(y, k) = End(x, k)
        /\ \A k \in DOMAIN y : k \in DOMAIN x \ over \/ k = end
    BY Zenon DEF Prune, End
  <1>6. ASSUME NEW l \in partly
        PROVE  /\ l \in DOMAIN x /\ l < end /\ o <= l /\ end < End(x, l)
               /\ end \notin DOMAIN x /\ end \in DOMAIN y /\ y[end] = Without(x[l], end - l)
    <2>1. l \in DOMAIN x /\ l < end /\ o <= l /\ end < End(x, l)
      BY Zenon, <1>1, <1>3, <1>4, <1>6
    <2>2. end \notin DOMAIN x
      BY <1>1, <1>2, <2>1
    <2>3. \A k \in partly : k = l
      <3>1. ASSUME NEW k \in partly PROVE k = l
        <4>1. k \in DOMAIN x /\ k < end /\ end < End(x, k) /\ k \in Nat /\ l \in Nat
              /\ End(x, k) \in Nat /\ End(x, l) \in Nat
          BY Zenon, <1>1, <1>3, <1>4, <2>1, <3>1
        <4>2. (k < l => End(x, k) <= l) /\ (l < k => End(x, l) <= k)
          BY Zenon, <1>2, <2>1, <4>1
        <4>3. QED
          BY <2>1, <4>1, <4>2
      <3>2. QED
        BY Zenon, <3>1
    <2>4. (CHOOSE k \in partly : TRUE) = l
      BY Zenon, <1>6, <2>3
    <2>5. end \in DOMAIN y /\ y[end] = Without(x[l], end - l)
      BY Zenon, <1>6, <2>2, <2>4 DEF Prune
    <2>6. QED
      BY Zenon, <2>1, <2>2, <2>5
  <1>7. end \in DOMAIN y /\ end \notin DOMAIN x \ over => partly # {}
    BY Zenon DEF Prune
  <1> HIDE DEF y, over, partly
  <1>8. ASSUME NEW l \in partly
        PROVE  /\ y[end] \in Extent /\ y[end].Length > 0 /\ End(y, end) = End(x, l)
               /\ y[end].LogSegmentNumber = x[l].LogSegmentNumber
               /\ y[end].LogSegmentOffset = x[l].LogSegmentOffset + (end - l)
    <2>1. /\ l \in Nat /\ l < end /\ end < l + x[l].Length /\ End(x, l) = l + x[l].Length
          /\ x[l].Length \in Nat /\ x[l].LogSegmentOffset \in Nat
          /\ x[l].LogSegmentNumber \in LogSegments
      BY Zenon, <1>6, <1>8, FieldTypes
    <2>2. /\ y[end].Length = x[l].Length - (end - l)
          /\ y[end].LogSegmentNumber = x[l].LogSegmentNumber
          /\ y[end].LogSegmentOffset = x[l].LogSegmentOffset + (end - l)
      <3>1. y[end] = Without(x[l], end - l)
        BY Zenon, <1>6, <1>8
      <3>2. QED
        BY <3>1 DEF Without
    <2>3. y[end] \in Extent
      <3>1. y[end] = Without(x[l], end - l)
        BY <1>6, <1>8
      <3>2. QED
        BY <2>1, <3>1 DEF Without, Extent
    <2>4. y[end].Length > 0 /\ End(y, end) = End(x, l)
      BY <2>1, <2>2 DEF End
    <2>5. QED
      BY Zenon, <2>2, <2>3, <2>4
  <1>9. \A k \in DOMAIN y : k \in DOMAIN x \ over \/ (k = end /\ \E l \in partly : TRUE)
    BY Zenon, <1>5, <1>7
  <1>10. \A k \in DOMAIN y : (k < o /\ End(y, k) <= o) \/ k >= end
    BY <1>1, <1>3, <1>5 DEF CutAt
  <1>11. Sound(y)
    <2>1. DOMAIN y \subseteq Nat
      BY Zenon, <1>1, <1>5
    <2>2. \A k \in DOMAIN y : y[k] \in Extent /\ y[k].Length > 0
      BY Zenon, <1>1, <1>5, <1>8, <1>9
    <2>3. ASSUME NEW k \in DOMAIN y, NEW j \in DOMAIN y, k < j PROVE End(y, k) <= j
      <3>1. CASE k \in DOMAIN x \ over /\ j \in DOMAIN x \ over
        BY Zenon, <1>2, <1>5, <2>3, <3>1
      <3>2. CASE k \in DOMAIN x \ over /\ j = end
        <4>1. k < end /\ k \in Nat /\ End(y, k) \in Nat
          BY Zenon, <1>1, <1>5, <2>3, <3>2
        <4>2. QED
          BY <1>10, <3>2, <4>1
      <3>3. CASE k = end /\ k \notin DOMAIN x \ over
        <4>1. PICK l \in partly : TRUE
          BY Zenon, <1>9, <3>3
        <4>2. l \in DOMAIN x /\ l < end /\ End(y, k) = End(x, l) /\ l \in Nat
          BY Zenon, <1>1, <1>6, <1>8, <3>3
        <4>3. j \in DOMAIN x
          BY <1>5, <2>1, <2>3, <3>3
        <4>4. l < j
          BY <1>1, <2>3, <3>3, <4>2, <4>3
        <4>5. QED
          BY Zenon, <1>2, <4>2, <4>3, <4>4
      <3>4. QED
        BY Zenon, <1>5, <3>1, <3>2, <3>3
    <2>4. QED
      BY Zenon, <2>1, <2>2, <2>3 DEF Sound
  <1>12. Within(y, size)
    BY Zenon, <1>5, <1>6, <1>8, <1>9 DEF Within
  <1>13. ASSUME NEW p \in Nat, o <= p, p < end PROVE ByteAt(y, p) = Hole
    <2>1. ASSUME NEW k \in Bytes(y, p) PROVE FALSE
      <3>1. k \in DOMAIN y /\ k <= p /\ p < End(y, k)
        BY Zenon, <2>1 DEF Bytes
      <3>2. k \in Nat /\ End(y, k) \in Nat
        BY Zenon, <1>11, <3>1, FieldTypes
      <3>3. QED
        BY <1>10, <1>13, <3>1, <3>2
    <2>2. QED
      BY Zenon, <2>1 DEF ByteAt
  <1>14. ASSUME NEW p \in Nat, ~(o <= p /\ p < end) PROVE ByteAt(y, p) = ByteAt(x, p)
    <2>1. ASSUME NEW k \in Bytes(x, p)
          PROVE  \E j \in Bytes(y, p) :
                   /\ y[j].LogSegmentNumber = x[k].LogSegmentNumber
                   /\ y[j].LogSegmentOffset + (p - j) = x[k].LogSegmentOffset + (p - k)
      <3>1. k \in DOMAIN x /\ k <= p /\ p < End(x, k) /\ k \in Nat /\ End(x, k) \in Nat
            /\ x[k].LogSegmentOffset \in Nat
        BY Zenon, <1>1, <2>1 DEF Bytes
      <3>2. CASE k \notin over
        BY Zenon, <1>5, <3>1, <3>2 DEF Bytes
      <3>3. CASE k \in over
        <4>1. end <= p /\ End(x, k) > end
          BY <1>3, <1>14, <3>1, <3>3
        <4>2. k \in partly
          BY Zenon, <3>3, <4>1 DEF partly
        <4>3. end \in Bytes(y, p)
          BY Zenon, <1>6, <1>8, <3>1, <4>1, <4>2 DEF Bytes
        <4>4. y[end].LogSegmentOffset + (p - end) = x[k].LogSegmentOffset + (p - k)
          BY <1>8, <3>1, <4>2
        <4>5. QED
          BY Zenon, <1>8, <4>2, <4>3, <4>4
      <3>4. QED
        BY Zenon, <3>2, <3>3
    <2>2. ASSUME NEW j \in Bytes(y, p) PROVE Bytes(x, p) # {}
      <3>1. j \in DOMAIN y /\ j <= p /\ p < End(y, j)
        BY <2>2 DEF Bytes
      <3>2. CASE j \in DOMAIN x \ over
        BY Zenon, <1>5, <3>1, <3>2 DEF Bytes
      <3>3. CASE j \notin DOMAIN x \ over
        <4>1. PICK l \in partly : TRUE
          BY Zenon, <1>9, <3>1, <3>3
        <4>2. j = end /\ l \in DOMAIN x /\ l < end /\ End(y, end) = End(x, l) /\ l \in Nat
          BY Zenon, <1>1, <1>5, <1>6, <1>8, <3>1, <3>3
        <4>3. l <= p /\ p < End(x, l)
          BY <3>1, <4>2
        <4>4. QED
          BY Zenon, <4>2, <4>3 DEF Bytes
      <3>4. QED
        BY Zenon, <3>2, <3>3
    <2>3. QED
      BY Zenon, <1>11, <2>1, <2>2, SameByte
  <1>15. QED
    BY Zenon, <1>10, <1>11, <1>12, <1>13, <1>14 DEF y

\* Inserting into an empty range writes that range and moves no other byte.
LEMMA InsertLemma ==
    ASSUME NEW x, Sound(x), NEW o \in Nat, NEW length \in Nat, length > 0,
           NEW s \in LogSegments, NEW so \in Nat,
           \A k \in DOMAIN x : (k < o /\ End(x, k) <= o) \/ k >= o + length,
           NEW size \in Nat, Within(x, size)
    PROVE  /\ Sound(Insert(x, o, length, s, so))
           /\ Within(Insert(x, o, length, s, so), Larger(size, o + length))
           /\ \A p \in Nat : ByteAt(Insert(x, o, length, s, so), p) =
                               IF o <= p /\ p < o + length THEN <<s, so + (p - o)>>
                                                           ELSE ByteAt(x, p)
  <1> DEFINE prev == {k \in Preceding(x, o) : /\ x[k].LogSegmentNumber = s
                                              /\ End(x, k) = o
                                              /\ x[k].LogSegmentOffset + x[k].Length = so}
             y == Insert(x, o, length, s, so)
             range(p) == o <= p /\ p < o + length
  <1>1. \A k \in DOMAIN x : k \in Nat /\ End(x, k) \in Nat /\ x[k] \in Extent
                            /\ x[k].Length > 0 /\ x[k].LogSegmentOffset \in Nat
                            /\ k < End(x, k)
    BY FieldTypes DEF Sound
  <1>2. \A k, j \in DOMAIN x : k < j => End(x, k) <= j
    BY Zenon DEF Sound
  <1>3. o \notin DOMAIN x
    OBVIOUS
  \* In both cases one extent of y, at l, has the range, and the others are those of x.
  <1>4. \E l \in DOMAIN y :
          /\ DOMAIN y = DOMAIN x \cup {l} /\ l \in Nat /\ l <= o
          /\ y[l] \in Extent /\ End(y, l) = o + length
          /\ y[l].LogSegmentNumber = s /\ y[l].LogSegmentOffset + (o - l) = so
          /\ \A k \in DOMAIN x : k # l => y[k] = x[k] /\ End(y, k) = End(x, k)
          /\ IF l \in DOMAIN x
               THEN /\ End(x, l) = o
                    /\ y[l].LogSegmentNumber = x[l].LogSegmentNumber
                    /\ y[l].LogSegmentOffset = x[l].LogSegmentOffset
               ELSE l = o
    <2>1. CASE prev # {}
      <3>1. PICK l \in prev : TRUE
        BY Zenon, <2>1
      <3>2. /\ l \in DOMAIN x /\ l < o /\ End(x, l) = o /\ x[l].LogSegmentNumber = s
            /\ x[l].LogSegmentOffset + x[l].Length = so
            /\ \A j \in DOMAIN x : j < o => j <= l
        BY Zenon, <3>1 DEF Preceding
      <3>3. \A k \in prev : k = l
        <4>1. \A k \in prev : k \in Nat /\ k <= l /\ l <= k
          BY Zenon, <1>1, <3>1, <3>2 DEF Preceding
        <4>2. QED
          BY <1>1, <3>2, <4>1
      <3>4. prev = {l}
        BY Zenon, <3>1, <3>3
      <3>5. y = [k \in DOMAIN x |-> IF k = l THEN [x[l] EXCEPT !.Length = @ + length] ELSE x[k]]
        BY Zenon, <3>4 DEF Insert
      <3> HIDE DEF y, prev
      <3>6. /\ DOMAIN y = DOMAIN x /\ y[l] = [x[l] EXCEPT !.Length = @ + length]
            /\ \A k \in DOMAIN x : k # l => y[k] = x[k] /\ End(y, k) = End(x, k)
        BY Zenon, <3>2, <3>5 DEF End
      <3>7. /\ l \in Nat /\ x[l] \in Extent /\ x[l].Length \in Nat
            /\ x[l].LogSegmentOffset \in Nat /\ o = l + x[l].Length
        BY Zenon, <3>2, FieldTypes DEF Sound
      <3>8. /\ y[l].Length = x[l].Length + length
            /\ y[l].LogSegmentNumber = x[l].LogSegmentNumber
            /\ y[l].LogSegmentOffset = x[l].LogSegmentOffset
            /\ y[l] \in Extent
        BY <3>6, <3>7 DEF Extent
      <3>9. End(y, l) = o + length /\ y[l].LogSegmentOffset + (o - l) = so
        BY <3>2, <3>7, <3>8 DEF End
      <3>10. l \in DOMAIN y /\ DOMAIN y = DOMAIN x \cup {l}
        BY Zenon, <3>2, <3>6
      <3>11. l <= o
        BY <3>2, <3>7
      <3>12. QED
        BY Zenon, <3>2, <3>6, <3>7, <3>8, <3>9, <3>10, <3>11
    <2>2. CASE prev = {}
      <3>1. y = [k \in DOMAIN x \cup {o} |->
                   IF k = o THEN [Length |-> length, LogSegmentNumber |-> s,
                                  LogSegmentOffset |-> so]
                            ELSE x[k]]
        BY Zenon, <2>2 DEF Insert
      <3> HIDE DEF y, prev
      <3>2. /\ DOMAIN y = DOMAIN x \cup {o}
            /\ y[o] = [Length |-> length, LogSegmentNumber |-> s, LogSegmentOffset |-> so]
            /\ \A k \in DOMAIN x : k # o => y[k] = x[k] /\ End(y, k) = End(x, k)
        BY Zenon, <3>1 DEF End
      <3>3. /\ y[o] \in Extent /\ End(y, o) = o + length
            /\ y[o].LogSegmentNumber = s /\ y[o].LogSegmentOffset + (o - o) = so
        BY <3>2 DEF End, Extent
      <3>4. o \in DOMAIN y /\ o <= o
        BY <3>2
      <3>5. QED
        BY Zenon, <1>3, <3>2, <3>3, <3>4
    <2>3. QED
      BY Zenon, <2>1, <2>2
  <1> HIDE DEF y, prev
  <1>5. PICK l \in DOMAIN y :
          /\ DOMAIN y = DOMAIN x \cup {l} /\ l \in Nat /\ l <= o
          /\ y[l] \in Extent /\ End(y, l) = o + length
          /\ y[l].LogSegmentNumber = s /\ y[l].LogSegmentOffset + (o - l) = so
          /\ \A k \in DOMAIN x : k # l => y[k] = x[k] /\ End(y, k) = End(x, k)
          /\ IF l \in DOMAIN x
               THEN /\ End(x, l) = o
                    /\ y[l].LogSegmentNumber = x[l].LogSegmentNumber
                    /\ y[l].LogSegmentOffset = x[l].LogSegmentOffset
               ELSE l = o
    BY Zenon, <1>4
  <1>6. y[l].Length \in Nat /\ y[l].LogSegmentOffset \in Nat
    BY Zenon, <1>5 DEF Extent
  <1>7. y[l].Length > 0
    BY <1>5, <1>6 DEF End
  \* No other extent lies between l and the end of the range.
  <1>8. \A k \in DOMAIN x : k # l => \/ k < l /\ End(x, k) <= l
                                     \/ k >= o + length
    <2>1. SUFFICES ASSUME NEW k \in DOMAIN x, k # l
                   PROVE  (k < l /\ End(x, k) <= l) \/ k >= o + length
      BY Zenon
    <2>2. CASE l \in DOMAIN x
      <3>1. k \in Nat /\ l \in Nat /\ End(x, k) \in Nat /\ k < End(x, k) /\ End(x, l) = o
        BY Zenon, <1>1, <1>5, <2>2
      <3>2. (k < l => End(x, k) <= l) /\ (l < k => o <= k)
        BY Zenon, <1>2, <2>2, <3>1
      <3>3. QED
        BY <2>1, <3>1, <3>2
    <2>3. CASE l \notin DOMAIN x
      BY Zenon, <1>1, <1>5, <2>3
    <2>4. QED
      BY Zenon, <2>2, <2>3
  <1>9. Sound(y)
    <2>1. DOMAIN y \subseteq Nat
      BY Zenon, <1>1, <1>5
    <2>2. \A k \in DOMAIN y : y[k] \in Extent /\ y[k].Length > 0
      BY Zenon, <1>1, <1>5, <1>7
    <2>3. ASSUME NEW k \in DOMAIN y, NEW j \in DOMAIN y, k < j PROVE End(y, k) <= j
      <3>1. k \in Nat /\ j \in Nat
        BY Zenon, <2>1
      <3>2. CASE k = l
        BY <1>1, <1>5, <1>8, <2>3, <3>1, <3>2
      <3>3. CASE k # l /\ j = l
        <4>1. k \in DOMAIN x /\ End(y, k) = End(x, k)
          BY Zenon, <1>5, <3>3
        <4>2. k < l
          BY Zenon, <2>3, <3>3
        <4>3. QED
          BY <1>1, <1>5, <1>8, <3>1, <3>3, <4>1, <4>2
      <3>4. CASE k # l /\ j # l
        BY Zenon, <1>2, <1>5, <2>3, <3>4
      <3>5. QED
        BY Zenon, <3>2, <3>3, <3>4
    <2>4. QED
      BY Zenon, <2>1, <2>2, <2>3 DEF Sound
  <1>10. Within(y, Larger(size, o + length))
    <2>1. \A k \in DOMAIN y : End(y, k) <= size \/ End(y, k) = o + length
      BY Zenon, <1>5 DEF Within
    <2>2. \A k \in DOMAIN y : End(y, k) \in Nat
      BY Zenon, <1>9, FieldTypes
    <2>3. QED
      BY <2>1, <2>2 DEF Within, Larger
  <1>11. ASSUME NEW p \in Nat, range(p) PROVE ByteAt(y, p) = <<s, so + (p - o)>>
    <2>1. l \in Bytes(y, p)
      BY <1>5, <1>11 DEF Bytes
    <2>2. ByteAt(y, p) = <<y[l].LogSegmentNumber, y[l].LogSegmentOffset + (p - l)>>
      BY Zenon, <1>9, <2>1, ByteUnique
    <2>3. y[l].LogSegmentOffset + (p - l) = so + (p - o)
      BY <1>5, <1>6
    <2>4. QED
      BY Zenon, <1>5, <2>2, <2>3
  <1>12. ASSUME NEW p \in Nat, ~range(p) PROVE ByteAt(y, p) = ByteAt(x, p)
    <2>1. ASSUME NEW k \in Bytes(x, p)
          PROVE  \E j \in Bytes(y, p) :
                   /\ y[j].LogSegmentNumber = x[k].LogSegmentNumber
                   /\ y[j].LogSegmentOffset + (p - j) = x[k].LogSegmentOffset + (p - k)
      <3>1. k \in DOMAIN x /\ k <= p /\ p < End(x, k)
        BY Zenon, <2>1 DEF Bytes
      <3>2. CASE k # l
        BY Zenon, <1>5, <3>1, <3>2 DEF Bytes
      <3>3. CASE k = l
        <4>1. p < End(y, l)
          BY <1>1, <1>5, <3>1, <3>3
        <4>2. QED
          BY Zenon, <1>5, <3>1, <3>3, <4>1 DEF Bytes
      <3>4. QED
        BY Zenon, <3>2, <3>3
    <2>2. ASSUME NEW j \in Bytes(y, p) PROVE Bytes(x, p) # {}
      <3>1. j \in DOMAIN y /\ j <= p /\ p < End(y, j)
        BY Zenon, <2>2 DEF Bytes
      <3>2. CASE j # l
        BY Zenon, <1>5, <3>1, <3>2 DEF Bytes
      <3>3. CASE j = l
        <4>1. p < o
          BY <1>5, <1>12, <3>1, <3>3
        <4>2. l \in DOMAIN x /\ End(x, l) = o
          BY <1>5, <3>1, <3>3, <4>1
        <4>3. QED
          BY Zenon, <3>1, <3>3, <4>1, <4>2 DEF Bytes
      <3>4. QED
        BY Zenon, <3>2, <3>3
    <2>3. QED
      BY Zenon, <1>9, <2>1, <2>2, SameByte
  <1>13. QED
    BY Zenon, <1>9, <1>10, <1>11, <1>12 DEF y

\* Truncating moves no byte before size and leaves none behind it.
LEMMA TruncateLemma ==
    ASSUME NEW x, Sound(x), NEW size \in Nat
    PROVE  /\ Sound(Truncate(x, size)) /\ Within(Truncate(x, size), size)
           /\ \A p \in Nat : ByteAt(Truncate(x, size), p) =
                               IF p < size THEN ByteAt(x, p) ELSE Hole
  <1> DEFINE y == Truncate(x, size)
             trims(k) == size \notin DOMAIN x /\ k \in Preceding(x, size) /\ End(x, k) > size
  <1>1. \A k \in DOMAIN x : k \in Nat /\ End(x, k) \in Nat /\ x[k] \in Extent
                            /\ x[k].Length > 0 /\ x[k].LogSegmentOffset \in Nat
                            /\ k < End(x, k)
    BY FieldTypes DEF Sound
  <1>2. \A k, j \in DOMAIN x : k < j => End(x, k) <= j
    BY Zenon DEF Sound
  <1>3. \A k \in DOMAIN y : k \in DOMAIN x /\ k < size
    BY Zenon DEF Truncate
  <1>4. \A k \in DOMAIN x : k < size => k \in DOMAIN y
    BY Zenon DEF Truncate
  <1>5. ASSUME NEW k \in DOMAIN x, k < size, End(x, k) > size PROVE trims(k)
    <2>1. size \notin DOMAIN x
      BY <1>1, <1>2, <1>5
    <2>2. \A j \in DOMAIN x : j < size => j <= k
      BY <1>1, <1>2, <1>5
    <2>3. QED
      BY Zenon, <1>5, <2>1, <2>2 DEF Preceding
  <1>6. ASSUME NEW k \in DOMAIN y, End(x, k) > size
        PROVE  /\ y[k] \in Extent /\ y[k].Length > 0 /\ End(y, k) = size
               /\ y[k].LogSegmentNumber = x[k].LogSegmentNumber
               /\ y[k].LogSegmentOffset = x[k].LogSegmentOffset
    <2>1. y[k] = [x[k] EXCEPT !.Length = size - k]
      BY Zenon, <1>3, <1>5, <1>6 DEF Truncate
    <2>2. k \in Nat /\ k < size /\ x[k] \in Extent
      BY Zenon, <1>1, <1>3
    <2> HIDE DEF y
    <2>3. QED
      BY <2>1, <2>2 DEF End, Extent
  <1>7. ASSUME NEW k \in DOMAIN y, ~(End(x, k) > size)
        PROVE  y[k] = x[k] /\ End(y, k) = End(x, k) /\ End(y, k) <= size
    <2>1. y[k] = x[k]
      BY Zenon, <1>3, <1>7 DEF Truncate
    <2>2. End(x, k) \in Nat
      BY Zenon, <1>1, <1>3
    <2> HIDE DEF y
    <2>3. QED
      BY <1>7, <2>1, <2>2 DEF End
  <1> HIDE DEF y, trims
  <1>8. Sound(y)
    <2>1. DOMAIN y \subseteq Nat
      BY Zenon, <1>1, <1>3
    <2>2. \A k \in DOMAIN y : y[k] \in Extent /\ y[k].Length > 0
      BY Zenon, <1>1, <1>3, <1>6, <1>7
    <2>3. ASSUME NEW k \in DOMAIN y, NEW j \in DOMAIN y, k < j PROVE End(y, k) <= j
      <3>1. /\ k \in DOMAIN x /\ j \in DOMAIN x /\ j < size /\ End(x, k) <= j
            /\ End(x, k) \in Nat /\ j \in Nat
        BY Zenon, <1>1, <1>2, <1>3, <2>3
      <3>2. ~(End(x, k) > size)
        BY <3>1
      <3>3. QED
        BY Zenon, <1>7, <3>1, <3>2
    <2>4. QED
      BY Zenon, <2>1, <2>2, <2>3 DEF Sound
  <1>9. Within(y, size)
    <2>1. ASSUME NEW k \in DOMAIN y PROVE End(y, k) <= size
      BY <1>6, <1>7
    <2>2. QED
      BY Zenon, <2>1 DEF Within
  <1>10. ASSUME NEW p \in Nat, p < size PROVE ByteAt(y, p) = ByteAt(x, p)
    <2>1. ASSUME NEW k \in Bytes(x, p)
          PROVE  \E j \in Bytes(y, p) :
                   /\ y[j].LogSegmentNumber = x[k].LogSegmentNumber
                   /\ y[j].LogSegmentOffset + (p - j) = x[k].LogSegmentOffset + (p - k)
      <3>1. k \in DOMAIN x /\ k <= p /\ p < End(x, k) /\ k \in Nat
        BY Zenon, <1>1, <2>1 DEF Bytes
      <3>2. k \in DOMAIN y
        BY <1>4, <1>10, <3>1
      <3>3. p < End(y, k)
        BY Zenon, <1>6, <1>7, <1>10, <3>1, <3>2
      <3>4. k \in Bytes(y, p)
        BY Zenon, <3>1, <3>2, <3>3 DEF Bytes
      <3>5. QED
        BY Zenon, <1>6, <1>7, <3>2, <3>4
    <2>2. ASSUME NEW j \in Bytes(y, p) PROVE Bytes(x, p) # {}
      <3>1. j \in DOMAIN y /\ j <= p /\ p < End(y, j)
        BY Zenon, <2>2 DEF Bytes
      <3>2. j \in DOMAIN x /\ End(x, j) \in Nat
        BY Zenon, <1>1, <1>3, <3>1
      <3>3. p < End(x, j)
        BY <1>6, <1>7, <1>10, <3>1, <3>2
      <3>4. QED
        BY Zenon, <3>1, <3>2, <3>3 DEF Bytes
    <2>3. QED
      BY Zenon, <1>8, <2>1, <2>2, SameByte
  <1>11. ASSUME NEW p \in Nat, ~(p < size) PROVE ByteAt(y, p) = Hole
    <2>1. ASSUME NEW k \in Bytes(y, p) PROVE FALSE
      <3>1. k \in DOMAIN y /\ p < End(y, k)
        BY Zenon, <2>1 DEF Bytes
      <3>2. End(y, k) \in Nat /\ End(y, k) <= size
        BY Zenon, <1>8, <1>9, <3>1, FieldTypes DEF Within
      <3>3. QED
        BY <1>11, <3>1, <3>2
    <2>2. QED
      BY Zenon, <2>1 DEF ByteAt
  <1>12. QED
    BY Zenon, <1>8, <1>9, <1>10, <1>11 DEF y

\* y is x with [o, o + length) replaced by bytes of s from so on.
Replaces(y, x, o, length, s, so) ==
    \A p \in Nat : ByteAt(y, p) = IF o <= p /\ p < o + length THEN <<s, so + (p - o)>>
                                                               ELSE ByteAt(x, p)

\* recordWrite(): the range has the new bytes, the rest of the file is as before.
LEMMA RecordWriteLemma ==
    ASSUME NEW x, Sound(x), NEW o \in Nat, NEW length \in Nat, length > 0,
           NEW s \in LogSegments, NEW so \in Nat, NEW size \in Nat, Within(x, size)
    PROVE  /\ Sound(RecordWrite(x, o, length, s, so))
           /\ Within(RecordWrite(x, o, length, s, so), Larger(size, o + length))
           /\ Replaces(RecordWrite(x, o, length, s, so), x, o, length, s, so)
  <1> DEFINE y == Split(x, o)
             z == Prune(y, o, o + length)
  <1>1. /\ Sound(y) /\ CutAt(y, o) /\ Within(y, size)
        /\ \A p \in Nat : ByteAt(y, p) = ByteAt(x, p)
    BY Zenon, SplitLemma
  <1> HIDE DEF y
  <1>2. o + length \in Nat /\ o < o + length
    OBVIOUS
  <1>3. /\ Sound(z) /\ Within(z, size)
        /\ \A k \in DOMAIN z : (k < o /\ End(z, k) <= o) \/ k >= o + length
        /\ \A p \in Nat : ByteAt(z, p) =
                            IF o <= p /\ p < o + length THEN Hole ELSE ByteAt(y, p)
    BY Zenon, <1>1, <1>2, PruneLemma
  <1> HIDE DEF z
  <1>4. /\ Sound(Insert(z, o, length, s, so))
        /\ Within(Insert(z, o, length, s, so), Larger(size, o + length))
        /\ \A p \in Nat : ByteAt(Insert(z, o, length, s, so), p) =
                            IF o <= p /\ p < o + length THEN <<s, so + (p - o)>>
                                                        ELSE ByteAt(z, p)
    BY <1>3, InsertLemma
  <1>5. QED
    BY Zenon, <1>1, <1>3, <1>4 DEF RecordWrite, Replaces, y, z

\* The induction.  LogSegmentMap is left out: it decides nothing about the extents.
ContentInv ==
    /\ Sound(extents)
    /\ Size \in 0..MaxSize
    /\ Within(extents, Size)
    /\ \A l \in openLogSegment : l.bytesPut \in Nat
    /\ \A p \in Offsets : content[p] = ByteAt(extents, p)

\* A new file has no extents and no content.
LEMMA InitContent == Init => ContentInv
  <1> SUFFICES ASSUME Init PROVE ContentInv
    BY Zenon
  <1>1. DOMAIN extents = {}
    BY Zenon DEF Init, Empty
  <1>2. \A p : Bytes(extents, p) = {}
    BY Zenon, <1>1 DEF Bytes
  <1>3. Sound(extents) /\ Within(extents, Size)
    BY Zenon, <1>1 DEF Sound, Within
  <1>4. QED
    BY <1>2, <1>3, ExtentsAssumption DEF Init, ContentInv, ByteAt

\* Write() replaces the bytes it writes.
LEMMA WriteContent ==
    ASSUME ContentInv, NEW o \in Offsets, NEW length \in 1..(MaxSize - o), Write(o, length)
    PROVE  ContentInv'
  <1>0. o \in Nat /\ length \in Nat /\ length > 0 /\ o + length <= MaxSize
        /\ MaxSize \in Nat /\ Size \in Nat /\ Size <= MaxSize
    BY ExtentsAssumption DEF Offsets, ContentInv
  <1> DEFINE so == IF openLogSegment = {} THEN 0
                   ELSE (CHOOSE l \in openLogSegment : TRUE).bytesPut
  <1>1. so \in Nat
    BY Zenon DEF ContentInv
  <1>2. PICK s \in LogSegments :
          /\ openLogSegment' = IF so + length >= maxFlushSize THEN {}
                               ELSE {[number |-> s, bytesPut |-> so + length]}
          /\ extents' = RecordWrite(extents, o, length, s, so)
          /\ Size' = Larger(Size, o + length)
          /\ content' = Written(content, o, length, s, so)
    BY Zenon DEF Write
  <1> HIDE DEF so
  <1>3. /\ Sound(extents') /\ Within(extents', Size')
        /\ Replaces(extents', extents, o, length, s, so)
    BY Zenon, <1>0, <1>1, <1>2, RecordWriteLemma DEF ContentInv
  <1>4. Size' \in 0..MaxSize
    BY <1>0, <1>2 DEF Larger
  <1>5. \A l \in openLogSegment' : l.bytesPut \in Nat
    <2>1. so + length \in Nat
      BY <1>0, <1>1
    <2>2. QED
      BY <1>2, <2>1
  <1>6. ASSUME NEW p \in Offsets PROVE content'[p] = ByteAt(extents', p)
    <2>1. p \in Nat
      BY DEF Offsets
    <2>2. content'[p] = IF o <= p /\ p < o + length THEN <<s, so + (p - o)>> ELSE content[p]
      BY Zenon, <1>2 DEF Written
    <2>3. content[p] = ByteAt(extents, p)
      BY Zenon DEF ContentInv
    <2>4. QED
      BY Zenon, <1>3, <2>1, <2>2, <2>3 DEF Replaces
  <1>7. QED
    BY Zenon, <1>3, <1>4, <1>5, <1>6 DEF ContentInv

\* Wrote() replaces bytes, or the whole file.
LEMMA WroteContent ==
    ASSUME ContentInv, NEW o \in Offsets, NEW length \in 1..(MaxSize - o),
           NEW so \in Nat, NEW patchOnly \in BOOLEAN, Wrote(o, length, so, patchOnly)
    PROVE  ContentInv'
  <1>0. o \in Nat /\ length \in Nat /\ length > 0 /\ o + length <= MaxSize /\ so \in Nat
        /\ MaxSize \in Nat /\ Size \in Nat /\ Size <= MaxSize
    BY ExtentsAssumption DEF Offsets, ContentInv
  <1> DEFINE x(s) == RecordWrite(extents, o, length, s, so)
             c(s) == Written(content, o, length, s, so)
  <1>1. PICK s \in LogSegments :
          /\ openLogSegment' = {}
          /\ IF patchOnly
               THEN /\ extents' = x(s) /\ content' = c(s)
                    /\ Size' = Larger(Size, o + length)
               ELSE /\ extents' = Truncate(x(s), length)
                    /\ content' = Cleared(c(s), length)
                    /\ Size' = length
    BY Zenon DEF Wrote
  <1>2. /\ Sound(x(s)) /\ Within(x(s), Larger(Size, o + length))
        /\ Replaces(x(s), extents, o, length, s, so)
    <2>1. Sound(extents) /\ Within(extents, Size)
      BY Zenon DEF ContentInv
    <2>2. Sound(x(s))
      BY Zenon, <1>0, <2>1, RecordWriteLemma
    <2>3. Within(x(s), Larger(Size, o + length))
      BY Zenon, <1>0, <2>1, RecordWriteLemma
    <2>4. Replaces(x(s), extents, o, length, s, so)
      BY Zenon, <1>0, <2>1, RecordWriteLemma
    <2>5. QED
      BY Zenon, <2>2, <2>3, <2>4
  <1>3. ASSUME NEW p \in Offsets PROVE c(s)[p] = ByteAt(x(s), p)
    <2>1. p \in Nat
      BY DEF Offsets
    <2>2. c(s)[p] = IF o <= p /\ p < o + length THEN <<s, so + (p - o)>> ELSE content[p]
      BY Zenon DEF Written
    <2>3. content[p] = ByteAt(extents, p)
      BY Zenon DEF ContentInv
    <2> HIDE DEF x, c
    <2>4. QED
      BY Zenon, <1>2, <2>1, <2>2, <2>3 DEF Replaces
  <1> HIDE DEF x, c
  <1>4. CASE patchOnly
    <2>1. Size' \in 0..MaxSize
      BY <1>0, <1>1, <1>4 DEF Larger
    <2>2. QED
      BY Zenon, <1>1, <1>2, <1>3, <1>4, <2>1 DEF ContentInv
  <1>5. CASE ~patchOnly
    <2>1. /\ Sound(extents') /\ Within(extents', Size')
          /\ \A p \in Nat : ByteAt(extents', p) = IF p < length THEN ByteAt(x(s), p) ELSE Hole
      BY Zenon, <1>0, <1>1, <1>2, <1>5, TruncateLemma
    <2>2. ASSUME NEW p \in Offsets PROVE content'[p] = ByteAt(extents', p)
      <3>1. p \in Nat
        BY DEF Offsets
      <3>2. content'[p] = IF p < length THEN c(s)[p] ELSE Hole
        BY Zenon, <1>1, <1>5 DEF Cleared
      <3>3. QED
        BY Zenon, <1>3, <2>1, <3>1, <3>2
    <2>3. Size' \in 0..MaxSize
      BY <1>0, <1>1, <1>5
    <2>4. QED
      BY Zenon, <1>1, <2>1, <2>2, <2>3 DEF ContentInv
  <1>6. QED
    BY Zenon, <1>4, <1>5

\* SetSize() cuts off what is beyond the new size.
LEMMA SetSizeContent ==
    ASSUME ContentInv, NEW size \in 0..MaxSize, SetSize(size)
    PROVE  ContentInv'
  <1>1. size \in Nat
    BY ExtentsAssumption
  <1>2. /\ Sound(extents') /\ Within(extents', Size')
        /\ \A p \in Nat : ByteAt(extents', p) = IF p < size THEN ByteAt(extents, p) ELSE Hole
    BY Zenon, <1>1, TruncateLemma DEF SetSize, ContentInv
  <1>3. ASSUME NEW p \in Offsets PROVE content'[p] = ByteAt(extents', p)
    <2>1. p \in Nat
      BY DEF Offsets
    <2>2. content'[p] = IF p < size THEN content[p] ELSE Hole
      BY Zenon DEF SetSize, Cleared
    <2>3. content[p] = ByteAt(extents, p)
      BY Zenon DEF ContentInv
    <2>4. QED
      BY Zenon, <1>2, <2>1, <2>2, <2>3
  <1>4. Size' \in 0..MaxSize /\ openLogSegment' = {}
    BY Zenon DEF SetSize
  <1>5. QED
    BY Zenon, <1>2, <1>3, <1>4 DEF ContentInv

\* ContentInv is an invariant.
LEMMA ContentInvariant == Spec => []ContentInv
  <1>1. ContentInv /\ [Next]_vars => ContentInv'
    <2> SUFFICES ASSUME ContentInv, [Next]_vars PROVE ContentInv'
      BY Zenon
    <2>1. CASE \E o \in Offsets : \E length \in 1..(MaxSize - o) : Write(o, length)
      BY Zenon, <2>1, WriteContent
    <2>2. CASE \E o \in Offsets : \E length \in 1..(MaxSize - o), so \in 0..1,
                  patchOnly \in BOOLEAN : Wrote(o, length, so, patchOnly)
      BY <2>2, WroteContent
    <2>3. CASE \E size \in 0..MaxSize : SetSize(size)
      BY Zenon, <2>3, SetSizeContent
    <2>4. CASE Flush
      BY Zenon, <2>4 DEF Flush, ContentInv
    <2>5. CASE UNCHANGED vars
      BY Zenon, <2>5 DEF vars, ContentInv
    <2>6. QED
      BY Zenon, <2>1, <2>2, <2>3, <2>4, <2>5 DEF Next
  <1>2. QED
    BY <1>1, InitContent, PTL DEF Spec

\* Whatever the size of the file and the order of the calls: every byte is the one
\* that Write() or Wrote() wrote last, and what SetSize() cut off stays cut off.
THEOREM ReadsLastWrite == Spec => []DataAsWritten
  <1>1. ContentInv => DataAsWritten
    BY Zenon DEF ContentInv, DataAsWritten
  <1>2. QED
    BY <1>1, ContentInvariant, PTL

\* Extents are never empty and never overlap, so it is enough that the code looks at
\* the preceding one.
THEOREM ExtentsDisjoint == Spec => []NoOverlap
  <1>1. ContentInv => NoOverlap
    BY Zenon DEF ContentInv, NoOverlap, Sound
  <1>2. QED
    BY <1>1, ContentInvariant, PTL

\* No extent reaches beyond Size.
THEOREM ExtentsEndWithFile == Spec => []ExtentsInFile
  <1>1. ContentInv => ExtentsInFile
    BY Zenon DEF ContentInv, ExtentsInFile, Within
  <1>2. QED
    BY <1>1, ContentInvariant, PTL
-----------------------------------------------------------------------------
(***************************************************************************)
(* LogSegmentMap.  Since extents do not overlap, a sum over extents is the *)
(* number of bytes of the file that they hold, and the lemmas above say    *)
(* what happens to those.                                                  *)
(***************************************************************************)
\* g is what SumFunctionOnSet() computes, for every subset of S.
Sums(f, S, g) ==
    g = [s \in SUBSET S |-> IF s = {} THEN 0
                            ELSE f[CHOOSE x \in s : TRUE] + g[s \ {CHOOSE x \in s : TRUE}]]

\* If the equation has one solution, this is the sum.
LEMMA SumIs ==
    ASSUME NEW f, NEW S, NEW w, Sums(f, S, w), \A g : Sums(f, S, g) => g = w
    PROVE  SumFunctionOnSet(f, S) = w[S]
  <1>1. SumFunctionOnSet(f, S) = (CHOOSE g : Sums(f, S, g))[S]
    BY Zenon DEF SumFunctionOnSet, FoldFunctionOnSet, MapThenFoldSet, Sums
  <1>2. Sums(f, S, CHOOSE g : Sums(f, S, g))
    BY Zenon
  <1> QED BY Zenon, <1>1, <1>2

\* Only one function satisfies the equation, by induction on subsets.
LEMMA SumsUnique ==
    ASSUME NEW f, NEW S, IsFiniteSet(S), NEW g, Sums(f, S, g), NEW w, Sums(f, S, w)
    PROVE  g = w
  <1> DEFINE Bad == {t \in SUBSET S : g[t] # w[t]}
             Order == StrictSubsetOrdering(S)
             c(t) == CHOOSE x \in t : TRUE
  <1>1. \A t \in SUBSET S : IsFiniteSet(t)
    BY Zenon, FS_Subset
  <1>2. Bad \subseteq FiniteSubsetsOf(S)
    BY Zenon, <1>1 DEF FiniteSubsetsOf
  <1>3. ASSUME NEW t \in Bad, \A u \in Bad : <<u, t>> \notin Order PROVE FALSE
    <2>1. t \in SUBSET S /\ g[t] # w[t]
      BY Zenon
    <2>2. /\ g[t] = IF t = {} THEN 0 ELSE f[c(t)] + g[t \ {c(t)}]
          /\ w[t] = IF t = {} THEN 0 ELSE f[c(t)] + w[t \ {c(t)}]
      BY Zenon, <2>1 DEF Sums
    <2>3. t # {} /\ g[t \ {c(t)}] # w[t \ {c(t)}]
      BY Zenon, <2>1, <2>2
    <2>4. c(t) \in t
      BY Zenon, <2>3
    <2> HIDE DEF c
    <2>5. t \ {c(t)} \in Bad /\ <<t \ {c(t)}, t>> \in Order
      BY Zenon, <2>1, <2>3, <2>4 DEF StrictSubsetOrdering
    <2> QED BY Zenon, <1>3, <2>5
  <1> HIDE DEF Bad, Order
  <1>4. Bad = {}
    BY Zenon, <1>2, <1>3, WFMin, FS_StrictSubsetOrderingWellFounded DEF Order
  <1>5. DOMAIN g = SUBSET S /\ DOMAIN w = SUBSET S /\ g = [t \in DOMAIN g |-> g[t]]
        /\ w = [t \in DOMAIN w |-> w[t]]
    BY Zenon DEF Sums
  <1>6. \A t \in SUBSET S : g[t] = w[t]
    BY Zenon, <1>4 DEF Bad
  <1> QED BY Zenon, <1>5, <1>6

\* Finite sets that have nothing in common have as many elements together as one by
\* one.
LEMMA SumOfSizes ==
    ASSUME NEW S, IsFiniteSet(S), NEW A, \A k \in S : IsFiniteSet(A[k]),
           \A k, j \in S : k # j => A[k] \cap A[j] = {},
           NEW f, \A k \in S : f[k] = Cardinality(A[k])
    PROVE  SumFunctionOnSet(f, S) = Cardinality(UNION {A[k] : k \in S})
  <1> DEFINE U(t) == UNION {A[k] : k \in t}
             w == [t \in SUBSET S |-> Cardinality(U(t))]
             c(t) == CHOOSE x \in t : TRUE
  <1>1. ASSUME NEW t \in SUBSET S PROVE IsFiniteSet(U(t))
    <2> DEFINE g == [k \in t |-> A[k]]
               T == {A[k] : k \in t}
    <2>1. IsFiniteSet(t)
      BY Zenon, FS_Subset
    <2>2. g \in Surjection(t, T)
      BY Zenon DEF Surjection
    <2>3. IsFiniteSet(T)
      BY Zenon, <2>1, <2>2, FS_Surjection
    <2>4. \A B \in T : IsFiniteSet(B)
      BY Zenon
    <2> HIDE DEF T
    <2>5. IsFiniteSet(UNION T)
      BY Zenon, <2>3, <2>4, FS_UNION
    <2> QED BY Zenon, <2>5 DEF T
  <1>2. ASSUME NEW t \in SUBSET S, NEW x \in t
        PROVE  Cardinality(U(t)) = Cardinality(A[x]) + Cardinality(U(t \ {x}))
    <2>1. U(t) = A[x] \cup U(t \ {x}) /\ A[x] \cap U(t \ {x}) = {}
      BY Zenon
    <2>2. IsFiniteSet(A[x]) /\ IsFiniteSet(U(t \ {x}))
      BY Zenon, <1>1
    <2> HIDE DEF U
    <2>3. Cardinality(A[x] \cup U(t \ {x}))
            = Cardinality(A[x]) + Cardinality(U(t \ {x})) - Cardinality(A[x] \cap U(t \ {x}))
      BY Zenon, <2>2, FS_Union
    <2>5. Cardinality(A[x] \cap U(t \ {x})) = 0
      BY Zenon, <2>1, FS_EmptySet
    <2>4. Cardinality(A[x]) \in Nat /\ Cardinality(U(t \ {x})) \in Nat
      BY Zenon, <2>2, FS_CardinalityType
    <2> QED BY <2>1, <2>3, <2>4, <2>5
  <1>3. U({}) = {}
    BY Zenon
  <1> HIDE DEF U
  <1>4. Sums(f, S, w)
    <2> SUFFICES ASSUME NEW t \in SUBSET S
                 PROVE  w[t] = IF t = {} THEN 0 ELSE f[c(t)] + w[t \ {c(t)}]
      BY Zenon DEF Sums
    <2>1. CASE t = {}
      BY Zenon, <2>1, <1>3, FS_EmptySet
    <2>2. CASE t # {}
      <3>1. c(t) \in t
        BY Zenon, <2>2
      <3> HIDE DEF c
      <3> QED BY Zenon, <2>2, <3>1, <1>2
    <2> QED BY Zenon, <2>1, <2>2
  <1>5. \A g : Sums(f, S, g) => g = w
    BY Zenon, <1>4, SumsUnique
  <1>6. SumFunctionOnSet(f, S) = w[S]
    <2> HIDE DEF w
    <2> QED BY Zenon, <1>4, <1>5, SumIs
  <1> QED BY Zenon, <1>6 DEF U

\* The bytes of the file that log segment s holds.
BytesOf(x, s) == {p \in Nat : \E k \in Bytes(x, p) : x[k].LogSegmentNumber = s}

\* f has the lengths of the extents K of x, each up to e.
Lengths(f, e, K, x) ==
    \A k \in K : /\ k \in DOMAIN x
                 /\ e[k] \in Nat /\ k <= e[k] /\ e[k] <= End(x, k)
                 /\ f[k] = e[k] - k

\* The sum of such lengths is the number of bytes.
LEMMA SumOfExtents ==
    ASSUME NEW x, Sound(x), NEW size \in Nat, Within(x, size),
           NEW K, NEW e, NEW f, Lengths(f, e, K, x)
    PROVE  SumFunctionOnSet(f, K) = Cardinality(UNION {k..(e[k] - 1) : k \in K})
  <1> DEFINE A == [k \in K |-> k..(e[k] - 1)]
  <1>1. \A k \in K : k \in Nat /\ e[k] \in Nat /\ k <= e[k] /\ e[k] <= End(x, k)
                     /\ End(x, k) \in Nat /\ End(x, k) <= size /\ k < End(x, k)
                     /\ k \in DOMAIN x /\ f[k] = e[k] - k
    BY FieldTypes DEF Within, Lengths
  <1>2. IsFiniteSet(K)
    <2>1. K \subseteq 0..size
      BY <1>1
    <2>2. 0 \in Int /\ size \in Int
      OBVIOUS
    <2>3. IsFiniteSet(0..size)
      BY Zenon, <2>2, FS_Interval
    <2> QED BY Zenon, <2>1, <2>3, FS_Subset
  <1>3. \A k \in K : IsFiniteSet(A[k]) /\ f[k] = Cardinality(A[k])
    <2> SUFFICES ASSUME NEW k \in K PROVE IsFiniteSet(A[k]) /\ f[k] = Cardinality(A[k])
      BY Zenon
    <2>1. k \in Int /\ e[k] - 1 \in Int /\ A[k] = k..(e[k] - 1) /\ k <= e[k] /\ k \in Nat
          /\ e[k] \in Nat
      BY <1>1
    <2>2. IsFiniteSet(A[k]) /\ Cardinality(A[k]) = IF k > e[k] - 1 THEN 0 ELSE (e[k] - 1) - k + 1
      BY Zenon, <2>1, FS_Interval
    <2>3. f[k] = e[k] - k
      BY Zenon, <1>1
    <2> QED BY <2>1, <2>2, <2>3
  <1>4. \A k, j \in K : k # j => A[k] \cap A[j] = {}
    <2> SUFFICES ASSUME NEW k \in K, NEW j \in K, k # j, NEW p \in A[k], p \in A[j]
                 PROVE  FALSE
      BY Zenon
    <2>1. p \in Int /\ k <= p /\ p < e[k] /\ j <= p /\ p < e[j]
      BY <1>1
    <2>2. (k < j => End(x, k) <= j) /\ (j < k => End(x, j) <= k)
      BY Zenon, <1>1 DEF Sound
    <2> QED BY <1>1, <2>1, <2>2
  <1>5. {A[k] : k \in K} = {k..(e[k] - 1) : k \in K}
    BY Zenon
  <1> HIDE DEF A
  <1>6. SumFunctionOnSet(f, K) = Cardinality(UNION {A[k] : k \in K})
    BY <1>2, <1>3, <1>4, SumOfSizes
  <1> QED BY Zenon, <1>5, <1>6

\* The bytes of a log segment are finitely many.
LEMMA BytesFinite ==
    ASSUME NEW x, Sound(x), NEW size \in Nat, Within(x, size), NEW s
    PROVE  BytesOf(x, s) \subseteq 0..(size - 1) /\ IsFiniteSet(BytesOf(x, s))
  <1>1. BytesOf(x, s) \subseteq 0..(size - 1)
    <2> SUFFICES ASSUME NEW p \in BytesOf(x, s) PROVE p \in 0..(size - 1)
      BY Zenon
    <2>1. PICK k \in DOMAIN x : p < End(x, k) /\ p \in Nat
      BY Zenon DEF BytesOf, Bytes
    <2>2. End(x, k) \in Nat /\ End(x, k) <= size
      BY Zenon, FieldTypes DEF Within
    <2> QED BY <2>1, <2>2
  <1>2. 0 \in Int /\ size - 1 \in Int
    OBVIOUS
  <1>3. IsFiniteSet(0..(size - 1))
    BY Zenon, <1>2, FS_Interval
  <1> QED BY Zenon, <1>1, <1>3, FS_Subset

\* What BytesCounted sums up is the number of bytes that s holds.
LEMMA CountedBytes ==
    ASSUME NEW x, Sound(x), NEW size \in Nat, Within(x, size), NEW s
    PROVE  SumFunctionOnSet([k \in DOMAIN x |-> x[k].Length],
                            {k \in DOMAIN x : x[k].LogSegmentNumber = s})
             = Cardinality(BytesOf(x, s))
  <1> DEFINE K == {k \in DOMAIN x : x[k].LogSegmentNumber = s}
             f == [k \in DOMAIN x |-> x[k].Length]
             e == [k \in DOMAIN x |-> End(x, k)]
  <1>1. \A k \in DOMAIN x : /\ k \in Nat /\ End(x, k) \in Nat /\ x[k].Length \in Nat
                            /\ End(x, k) = k + x[k].Length
    BY Zenon, FieldTypes
  <1>2. \A k \in K : /\ e[k] \in Nat /\ k <= e[k] /\ e[k] <= End(x, k)
                     /\ f[k] = e[k] - k
    BY <1>1
  <1>3. UNION {k..(e[k] - 1) : k \in K} = BytesOf(x, s)
    <2>1. ASSUME NEW p PROVE p \in BytesOf(x, s) <=> \E k \in K : p \in k..(e[k] - 1)
      <3>1. \A k \in DOMAIN x : p \in k..(e[k] - 1) <=> p \in Nat /\ k <= p /\ p < End(x, k)
        BY <1>1
      <3> QED BY Zenon, <3>1 DEF BytesOf, Bytes
    <2> HIDE DEF K, e
    <2> QED BY Zenon, <2>1
  <1> HIDE DEF e, f
  <1>5. K \in SUBSET DOMAIN x
    BY Zenon
  <1> HIDE DEF K
  <1>4. SumFunctionOnSet(f, K) = Cardinality(UNION {k..(e[k] - 1) : k \in K})
    <2>1. Lengths(f, e, K, x)
      BY Zenon, <1>2, <1>5 DEF Lengths
    <2> QED BY SMTT(30), <2>1, SumOfExtents
  <1> QED BY Zenon, <1>3, <1>4 DEF f, K

\* decrementLogSegmentMapFileData() takes off the bytes of s in [o, end), if no
\* extent reaches across o.
LEMMA LostBytes ==
    ASSUME NEW x, Sound(x), NEW size \in Nat, Within(x, size), NEW o \in Nat, CutAt(x, o),
           NEW end \in Nat, NEW s
    PROVE  Lost(x, o, end, s) = Cardinality(BytesOf(x, s) \cap (o..(end - 1)))
  <1> DEFINE K == {k \in Overlapping(x, o, end) : x[k].LogSegmentNumber = s}
             f == [k \in DOMAIN x |-> Min({End(x, k), end}) - k]
             e == [k \in DOMAIN x |-> Min({End(x, k), end})]
  <1>1. \A k \in DOMAIN x : k \in Nat /\ End(x, k) \in Nat /\ k < End(x, k)
    BY FieldTypes
  <1>2. \A k \in DOMAIN x : Min({End(x, k), end}) = IF End(x, k) <= end THEN End(x, k) ELSE end
    BY <1>1 DEF Min
  <1>3. \A k \in K : /\ e[k] \in Nat /\ k <= e[k] /\ e[k] <= End(x, k)
                     /\ f[k] = e[k] - k
    BY <1>1, <1>2 DEF Overlapping
  <1>4. UNION {k..(e[k] - 1) : k \in K} = BytesOf(x, s) \cap (o..(end - 1))
    <2>1. ASSUME NEW p
          PROVE  p \in BytesOf(x, s) \cap (o..(end - 1)) <=> \E k \in K : p \in k..(e[k] - 1)
      <3>1. ASSUME NEW k \in DOMAIN x
            PROVE  p \in Nat /\ k <= p /\ p < End(x, k) /\ p \in o..(end - 1)
                     <=> o <= k /\ k < end /\ p \in k..(e[k] - 1)
        BY <1>1, <1>2 DEF CutAt
      <3>2. \A k : k \in K <=> /\ k \in DOMAIN x /\ o <= k /\ k < end
                               /\ x[k].LogSegmentNumber = s
        BY Zenon DEF Overlapping
      <3> HIDE DEF K, e
      <3> QED BY Zenon, <3>1, <3>2 DEF BytesOf, Bytes
    <2> HIDE DEF K, e
    <2> QED BY Zenon, <2>1
  <1>5. K \subseteq DOMAIN x
    BY Zenon DEF Overlapping
  <1> HIDE DEF e, f, K
  <1>6. SumFunctionOnSet(f, K) = Cardinality(UNION {k..(e[k] - 1) : k \in K})
    <2>1. Lengths(f, e, K, x)
      BY Zenon, <1>3, <1>5 DEF Lengths
    <2> QED BY SMTT(30), <2>1, SumOfExtents
  <1> QED BY Zenon, <1>4, <1>6 DEF f, K, Lost

\* A byte is in s if this is where it is found.
LEMMA BytesByPlace ==
    ASSUME NEW x, Sound(x), NEW p \in Nat, NEW s
    PROVE  p \in BytesOf(x, s) <=> ByteAt(x, p) # Hole /\ ByteAt(x, p)[1] = s
  <1>1. CASE Bytes(x, p) = {}
    BY Zenon, <1>1 DEF BytesOf, ByteAt
  <1>2. CASE Bytes(x, p) # {}
    <2>1. PICK k \in Bytes(x, p) : TRUE
      BY Zenon, <1>2
    <2>2. \A j \in Bytes(x, p) :
            ByteAt(x, p) = <<x[j].LogSegmentNumber, x[j].LogSegmentOffset + (p - j)>>
      BY Zenon, ByteUnique
    <2>3. /\ x[k].LogSegmentNumber \in LogSegments /\ x[k].LogSegmentOffset + (p - k) \in Nat
      <3>1. k \in DOMAIN x /\ k <= p
        BY Zenon DEF Bytes
      <3>2. x[k].LogSegmentNumber \in LogSegments /\ x[k].LogSegmentOffset \in Nat /\ k \in Nat
        BY Zenon, <3>1, FieldTypes
      <3> QED BY <3>1, <3>2
    <2>4. ByteAt(x, p) # Hole
      BY <2>2, <2>3, ExtentsAssumption
    <2>5. \A j \in Bytes(x, p) : ByteAt(x, p)[1] = x[j].LogSegmentNumber
      BY <2>2
    <2> QED BY Zenon, <2>1, <2>4, <2>5 DEF BytesOf
  <1> QED BY Zenon, <1>1, <1>2

\* The map m counts the bytes of every log segment, and knows every log segment in
\* use.
Counts(m, x) ==
    /\ \A s : BytesOf(x, s) # {} => s \in DOMAIN m
    /\ \A s \in DOMAIN m : m[s] = Cardinality(BytesOf(x, s))

\* flushInodes() forgets log segments without bytes in use only.
LEMMA InUseCounts ==
    ASSUME NEW x, Sound(x), NEW size \in Nat, Within(x, size), NEW m, Counts(m, x)
    PROVE  Counts(InUse(m), x)
  <1>1. \A s : IsFiniteSet(BytesOf(x, s))
    BY Zenon, BytesFinite
  <1>2. \A s \in DOMAIN m : m[s] = 0 <=> BytesOf(x, s) = {}
    BY Zenon, <1>1, FS_EmptySet DEF Counts
  <1>3. DOMAIN InUse(m) = {t \in DOMAIN m : m[t] # 0}
        /\ \A s \in DOMAIN InUse(m) : InUse(m)[s] = m[s]
    BY Zenon DEF InUse
  <1> QED BY Zenon, <1>2, <1>3 DEF Counts

\* What is left of m, once the bytes of [o, end) are taken off.
LEMMA DecrementCounts ==
    ASSUME NEW x, Sound(x), NEW size \in Nat, Within(x, size), NEW m, Counts(m, x),
           NEW o \in Nat, NEW end \in Nat
    PROVE  /\ DOMAIN Decrement(m, Split(x, o), o, end) = DOMAIN m
           /\ \A s \in DOMAIN m : Decrement(m, Split(x, o), o, end)[s]
                = Cardinality(BytesOf(x, s) \ (o..(end - 1)))
  <1> DEFINE y == Split(x, o)
  <1>1. Sound(y) /\ CutAt(y, o) /\ Within(y, size) /\ \A p \in Nat : ByteAt(y, p) = ByteAt(x, p)
    BY Zenon, SplitLemma
  <1> HIDE DEF y
  <1>2. ASSUME NEW s PROVE BytesOf(y, s) = BytesOf(x, s)
    <2>1. \A p \in Nat : p \in BytesOf(y, s) <=> p \in BytesOf(x, s)
      BY <1>1, BytesByPlace
    <2> QED BY Zenon, <2>1 DEF BytesOf
  <1>3. \A s : Lost(y, o, end, s) = Cardinality(BytesOf(x, s) \cap (o..(end - 1)))
    BY <1>1, <1>2, LostBytes
  <1>4. \A s : Cardinality(BytesOf(x, s) \ (o..(end - 1)))
                 = Cardinality(BytesOf(x, s)) - Cardinality(BytesOf(x, s) \cap (o..(end - 1)))
    BY Zenon, BytesFinite, FS_Difference
  <1>5. DOMAIN Decrement(m, y, o, end) = DOMAIN m
        /\ \A s \in DOMAIN m : Decrement(m, y, o, end)[s] = m[s] - Lost(y, o, end, s)
    BY Zenon DEF Decrement
  <1> QED BY Zenon, <1>3, <1>4, <1>5 DEF Counts, y

\* recordWrite() with its counts.
LEMMA WriteCounts ==
    ASSUME NEW x, Sound(x), NEW size \in Nat, Within(x, size), NEW m, Counts(m, x),
           NEW o \in Nat, NEW length \in Nat, length > 0, NEW s \in LogSegments, NEW so \in Nat
    PROVE  Counts(Increment(Decrement(m, Split(x, o), o, o + length), s, length),
                  RecordWrite(x, o, length, s, so))
  <1> DEFINE y == RecordWrite(x, o, length, s, so)
             d == Decrement(m, Split(x, o), o, o + length)
             n == Increment(d, s, length)
             new == o..(o + length - 1)
  <1>1. Sound(y) /\ Within(y, Larger(size, o + length)) /\ Replaces(y, x, o, length, s, so)
    BY Zenon, RecordWriteLemma
  <1>2. /\ DOMAIN d = DOMAIN m
        /\ \A t \in DOMAIN m : d[t] = Cardinality(BytesOf(x, t) \ new)
    BY o + length \in Nat, DecrementCounts
  <1> HIDE DEF y, d
  <1>3. \A t : \A p \in Nat :
          p \in BytesOf(y, t) <=> IF p \in new THEN t = s ELSE p \in BytesOf(x, t)
    <2> SUFFICES ASSUME NEW t, NEW p \in Nat
                 PROVE  p \in BytesOf(y, t) <=> IF p \in new THEN t = s ELSE p \in BytesOf(x, t)
      BY Zenon
    <2>1. p \in new <=> o <= p /\ p < o + length
      OBVIOUS
    <2>2. ByteAt(y, p) = IF p \in new THEN <<s, so + (p - o)>> ELSE ByteAt(x, p)
      BY Zenon, <1>1, <2>1 DEF Replaces
    <2>3. p \in new => so + (p - o) \in Nat
      BY <2>1
    <2>4. p \in new => <<s, so + (p - o)>> # Hole
      BY <2>3, ExtentsAssumption
    <2> HIDE DEF new
    <2> QED BY <1>1, <2>2, <2>4, BytesByPlace
  <1>4. new \subseteq Nat /\ IsFiniteSet(new) /\ Cardinality(new) = length
    <2>1. o \in Int /\ o + length - 1 \in Int
      OBVIOUS
    <2>2. IsFiniteSet(new)
          /\ Cardinality(new) = IF o > o + length - 1 THEN 0 ELSE (o + length - 1) - o + 1
      BY Zenon, <2>1, FS_Interval
    <2> QED BY <2>2
  <1> HIDE DEF new
  <1>5. BytesOf(y, s) = (BytesOf(x, s) \ new) \cup new
        /\ \A t : t # s => BytesOf(y, t) = BytesOf(x, t) \ new
    BY Zenon, <1>3, <1>4 DEF BytesOf
  <1>6. Cardinality(BytesOf(y, s)) = Cardinality(BytesOf(x, s) \ new) + length
        /\ Cardinality(BytesOf(x, s) \ new) \in Nat
    <2> DEFINE old == BytesOf(x, s) \ new
    <2>1. IsFiniteSet(old)
      BY Zenon, BytesFinite, FS_Difference
    <2>2. Cardinality(old \cup new)
            = Cardinality(old) + Cardinality(new) - Cardinality(old \cap new)
      BY Zenon, <1>4, <2>1, FS_Union
    <2>3. old \cap new = {}
      BY Zenon
    <2>4. Cardinality(old \cap new) = 0
      BY Zenon, <2>3, FS_EmptySet
    <2>5. Cardinality(old) \in Nat
      BY Zenon, <2>1, FS_CardinalityType
    <2> HIDE DEF old
    <2>6. Cardinality(old \cup new) = Cardinality(old) + length
      BY <1>4, <2>2, <2>4, <2>5
    <2> QED BY Zenon, <1>5, <2>5, <2>6 DEF old
  <1>7. s \notin DOMAIN m => Cardinality(BytesOf(x, s) \ new) = 0
    <2>1. s \notin DOMAIN m => BytesOf(x, s) \ new = {}
      BY Zenon DEF Counts
    <2> QED BY Zenon, <2>1, FS_EmptySet
  <1>8. /\ DOMAIN n = DOMAIN m \cup {s}
        /\ n[s] = IF s \in DOMAIN m THEN d[s] + length ELSE length
        /\ \A t \in DOMAIN m : t # s => n[t] = d[t]
    <2>1. n = [t \in DOMAIN d \cup {s} |->
                 IF t # s THEN d[t] ELSE IF s \in DOMAIN d THEN d[s] + length ELSE length]
      BY Zenon DEF Increment
    <2>2. DOMAIN d = DOMAIN m
      BY Zenon, <1>2
    <2> HIDE DEF n
    <2> QED BY Zenon, <2>1, <2>2
  <1> HIDE DEF n
  <1>9. n[s] = Cardinality(BytesOf(y, s))
    <2>1. CASE s \in DOMAIN m
      BY Zenon, <1>2, <1>6, <1>8, <2>1
    <2>2. CASE s \notin DOMAIN m
      <3>1. Cardinality(BytesOf(y, s)) = 0 + length
        BY Zenon, <1>6, <1>7, <2>2
      <3> QED BY <1>8, <2>2, <3>1
    <2> QED BY Zenon, <2>1, <2>2
  <1>10. \A t \in DOMAIN n : n[t] = Cardinality(BytesOf(y, t))
    <2> SUFFICES ASSUME NEW t \in DOMAIN n, t # s PROVE n[t] = Cardinality(BytesOf(y, t))
      BY Zenon, <1>9
    <2>1. t \in DOMAIN m
      BY Zenon, <1>8
    <2>2. n[t] = d[t] /\ d[t] = Cardinality(BytesOf(x, t) \ new)
      BY Zenon, <1>2, <1>8, <2>1
    <2>3. BytesOf(y, t) = BytesOf(x, t) \ new
      BY Zenon, <1>5
    <2> QED BY Zenon, <2>2, <2>3
  <1>11. \A t : BytesOf(y, t) # {} => t \in DOMAIN n
    <2> SUFFICES ASSUME NEW t, t # s, BytesOf(y, t) # {} PROVE t \in DOMAIN m
      BY Zenon, <1>8
    <2>1. BytesOf(x, t) # {}
      BY Zenon, <1>5
    <2> QED BY Zenon, <2>1 DEF Counts
  <1> QED BY Zenon, <1>10, <1>11 DEF Counts, n, d, y

\* setSizeInMemory() with its counts.
LEMMA TrimCounts ==
    ASSUME NEW x, Sound(x), Within(x, MaxSize), NEW m, Counts(m, x),
           NEW size \in Nat, size <= MaxSize
    PROVE  Counts(Trimmed(m, x, size), Truncate(x, size))
  <1> DEFINE y == Truncate(x, size)
             n == Trimmed(m, x, size)
  <1>1. MaxSize \in Nat
    BY Zenon, ExtentsAssumption
  <1>2. Sound(y) /\ \A p \in Nat : ByteAt(y, p) = IF p < size THEN ByteAt(x, p) ELSE Hole
    BY Zenon, TruncateLemma
  <1>3. DOMAIN n = DOMAIN m
        /\ \A s \in DOMAIN m : n[s] = Cardinality(BytesOf(x, s) \ (size..(MaxSize - 1)))
    BY <1>1, DecrementCounts DEF Trimmed
  <1> HIDE DEF y, n
  <1>4. ASSUME NEW s PROVE BytesOf(y, s) = BytesOf(x, s) \ (size..(MaxSize - 1))
    <2>1. \A p \in Nat : p \in BytesOf(y, s) <=> p < size /\ p \in BytesOf(x, s)
      BY <1>2, BytesByPlace
    <2>2. BytesOf(x, s) \subseteq 0..(MaxSize - 1)
      BY Zenon, <1>1, BytesFinite
    <2>3. BytesOf(y, s) \subseteq Nat
      BY Zenon DEF BytesOf
    <2> QED BY <1>1, <2>1, <2>2, <2>3
  <1> QED BY Zenon, <1>3, <1>4 DEF Counts, y, n

\* The extents and what LogSegmentMap counts.
CountInv == ContentInv /\ Counts(LogSegmentMap, extents)

\* One step of the induction for LogSegmentMap.
LEMMA NextCounts ==
    ASSUME CountInv, [Next]_vars
    PROVE  Counts(LogSegmentMap, extents)'
  <1>1. /\ Sound(extents) /\ Size \in Nat /\ Size <= MaxSize /\ MaxSize \in Nat
        /\ Within(extents, Size) /\ Counts(LogSegmentMap, extents)
    BY ExtentsAssumption DEF CountInv, ContentInv
  <1>2. Within(extents, MaxSize)
    <2>1. \A k \in DOMAIN extents : End(extents, k) \in Nat
      BY Zenon, <1>1, FieldTypes
    <2> QED BY <1>1, <2>1 DEF Within
  <1>3. ASSUME NEW o \in Offsets, NEW length \in 1..(MaxSize - o), Write(o, length)
        PROVE  Counts(LogSegmentMap', extents')
    <2> DEFINE so == IF openLogSegment = {} THEN 0
                     ELSE (CHOOSE l \in openLogSegment : TRUE).bytesPut
    <2>1. so \in Nat
      BY Zenon DEF CountInv, ContentInv
    <2>2. PICK s \in LogSegments :
            /\ extents' = RecordWrite(extents, o, length, s, so)
            /\ LogSegmentMap' =
                 Increment(Decrement(LogSegmentMap, Split(extents, o), o, o + length), s, length)
      BY Zenon, <1>3 DEF Write
    <2> HIDE DEF so
    <2>3. o \in Nat /\ length \in Nat /\ length > 0
      BY <1>1 DEF Offsets
    <2>4. Counts(Increment(Decrement(LogSegmentMap, Split(extents, o), o, o + length), s, length),
                 RecordWrite(extents, o, length, s, so))
      BY Zenon, <1>1, <2>1, <2>3, WriteCounts
    <2> QED BY Zenon, <2>2, <2>4
  <1>4. ASSUME NEW o \in Offsets, NEW length \in 1..(MaxSize - o), NEW so \in 0..1,
               NEW patchOnly \in BOOLEAN, Wrote(o, length, so, patchOnly)
        PROVE  Counts(LogSegmentMap', extents')
    <2> DEFINE m(s) == Increment(Decrement(InUse(LogSegmentMap), Split(extents, o), o, o + length),
                                 s, length)
               x(s) == RecordWrite(extents, o, length, s, so)
    <2>1. PICK s \in LogSegments :
            IF patchOnly
              THEN extents' = x(s) /\ LogSegmentMap' = InUse(m(s))
              ELSE /\ extents' = Truncate(x(s), length)
                   /\ LogSegmentMap' = InUse(Trimmed(m(s), x(s), length))
      BY Zenon, <1>4 DEF Wrote
    <2>2. o \in Nat /\ length \in Nat /\ length > 0 /\ so \in Nat /\ length <= MaxSize
          /\ o + length \in Nat /\ o + length <= MaxSize
      BY <1>1 DEF Offsets
    <2>3. Counts(InUse(LogSegmentMap), extents)
      BY Zenon, <1>1, InUseCounts
    <2>4. Counts(m(s), x(s))
      BY Zenon, <1>1, <2>2, <2>3, WriteCounts
    <2>5. Sound(x(s)) /\ Within(x(s), Larger(Size, o + length))
      BY Zenon, <1>1, <2>2, RecordWriteLemma
    <2> HIDE DEF m, x
    <2>6. Within(x(s), MaxSize)
      <3>1. \A k \in DOMAIN x(s) : End(x(s), k) \in Nat
        BY Zenon, <2>5, FieldTypes
      <3>2. Larger(Size, o + length) \in Nat /\ Larger(Size, o + length) <= MaxSize
        BY Zenon, <1>1, <2>2 DEF Larger
      <3> HIDE DEF Larger
      <3> QED BY <1>1, <2>5, <3>1, <3>2 DEF Within
    <2>7. CASE patchOnly
      <3>1. Counts(InUse(m(s)), x(s))
        BY Zenon, <1>1, <2>4, <2>5, <2>6, InUseCounts
      <3> QED BY Zenon, <2>1, <2>7, <3>1
    <2>8. CASE ~patchOnly
      <3>1. Counts(Trimmed(m(s), x(s), length), Truncate(x(s), length))
        BY Zenon, <2>2, <2>4, <2>5, <2>6, TrimCounts
      <3>2. Sound(Truncate(x(s), length)) /\ Within(Truncate(x(s), length), length)
        BY Zenon, <2>2, <2>5, TruncateLemma
      <3>3. Counts(InUse(Trimmed(m(s), x(s), length)), Truncate(x(s), length))
        BY Zenon, <2>2, <3>1, <3>2, InUseCounts
      <3> QED BY Zenon, <2>1, <2>8, <3>3
    <2> QED BY Zenon, <2>7, <2>8
  <1>5. ASSUME NEW size \in 0..MaxSize, SetSize(size)
        PROVE  Counts(LogSegmentMap', extents')
    <2>1. size \in Nat /\ size <= MaxSize
      BY <1>1
    <2>2. Counts(Trimmed(LogSegmentMap, extents, size), Truncate(extents, size))
      BY Zenon, <1>1, <1>2, <2>1, TrimCounts
    <2>3. Sound(Truncate(extents, size)) /\ Within(Truncate(extents, size), size)
      BY Zenon, <1>1, <2>1, TruncateLemma
    <2>4. Counts(InUse(Trimmed(LogSegmentMap, extents, size)), Truncate(extents, size))
      BY Zenon, <2>1, <2>2, <2>3, InUseCounts
    <2> QED BY Zenon, <1>5, <2>4 DEF SetSize
  <1>6. CASE Flush
    <2>1. Counts(InUse(LogSegmentMap), extents)
      BY Zenon, <1>1, InUseCounts
    <2>2. LogSegmentMap' = InUse(LogSegmentMap) /\ extents' = extents
      BY Zenon, <1>6 DEF Flush
    <2> QED BY Zenon, <2>1, <2>2
  <1>7. CASE UNCHANGED vars
    BY Zenon, <1>1, <1>7 DEF vars
  <1>8. Counts(LogSegmentMap', extents')
    BY Zenon, <1>3, <1>4, <1>5, <1>6, <1>7 DEF Next
  <1> QED BY Zenon, <1>8 DEF Counts, BytesOf, Bytes, End

\* LogSegmentMap counts the bytes in use of every log segment exactly, whatever the
\* size of the file and the order of the calls, so that flushInodes() deletes a log
\* segment when its last byte is overwritten or cut off and not before, and
\* decrementLogSegmentMapFileData() never goes below zero.
THEOREM LogSegmentsCounted == Spec => []BytesCounted
  <1>1. Init => Counts(LogSegmentMap, extents)
    <2> SUFFICES ASSUME Init PROVE Counts(LogSegmentMap, extents)
      BY Zenon
    <2>1. DOMAIN extents = {} /\ DOMAIN LogSegmentMap = {}
      BY Zenon DEF Init, Empty
    <2>2. \A s : BytesOf(extents, s) = {}
      BY Zenon, <2>1 DEF BytesOf, Bytes
    <2> QED BY Zenon, <2>1, <2>2 DEF Counts
  <1>2. Init => CountInv
    BY Zenon, <1>1, InitContent DEF CountInv
  <1>3. ContentInv /\ ContentInv' /\ Counts(LogSegmentMap, extents) /\ [Next]_vars
          => Counts(LogSegmentMap, extents)'
    BY Zenon, NextCounts DEF CountInv
  <1>4. CountInv => BytesCounted
    <2> SUFFICES ASSUME CountInv PROVE BytesCounted
      BY Zenon
    <2>1. Sound(extents) /\ Size \in Nat /\ Within(extents, Size)
          /\ Counts(LogSegmentMap, extents)
      BY ExtentsAssumption DEF CountInv, ContentInv
    <2>2. ASSUME NEW k \in DOMAIN extents
          PROVE  extents[k].LogSegmentNumber \in DOMAIN LogSegmentMap
      <3>1. k \in Nat /\ End(extents, k) \in Nat /\ k < End(extents, k)
        BY <2>1, FieldTypes
      <3>2. k \in BytesOf(extents, extents[k].LogSegmentNumber)
        BY <3>1 DEF BytesOf, Bytes
      <3> QED BY Zenon, <2>1, <3>2 DEF Counts
    <2>3. \A s \in DOMAIN LogSegmentMap :
            LogSegmentMap[s] = SumFunctionOnSet([k \in DOMAIN extents |-> extents[k].Length],
                                 {k \in DOMAIN extents : extents[k].LogSegmentNumber = s})
      BY Zenon, <2>1, CountedBytes DEF Counts
    <2> QED BY Zenon, <2>2, <2>3 DEF BytesCounted
  <1>5. CountInv <=> ContentInv /\ Counts(LogSegmentMap, extents)
    BY Zenon DEF CountInv
  <1> QED BY <1>1, <1>3, <1>4, <1>5, ContentInvariant, PTL DEF Spec
=============================================================================
