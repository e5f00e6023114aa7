------------------------------- MODULE Extents ------------------------------
(***************************************************************************)
(* The extents of a file inode (inode/file.go): which bytes of which log   *)
(* segment make up the file, how Write(), Wrote() and SetSize() change     *)
(* them, and how many bytes of each log segment are still in use, by which *)
(* flushInodes() decides what is garbage.                                  *)
(*                                                                         *)
(* One inode, under its lock.  The B+Tree is a function from file offset   *)
(* to the rest of a fileExtentStruct.  A byte of data is its place: log    *)
(* segment number and offset.  content is what the callers wrote, byte by  *)
(* byte; the code has no such variable.                                    *)
(*                                                                         *)
(* A write of no bytes fails in SendChunk(), before it reaches the extents.*)
(***************************************************************************)
EXTENDS Integers, FiniteSets, FiniteSetsExt

CONSTANTS
    LogSegments,     \* log segment numbers; an unused one stands for a new one
    MaxSize,         \* bound of the model on file offsets
    maxFlushSize,    \* an open log segment of this size is closed
    Hole             \* a byte that nobody wrote

ASSUME ExtentsAssumption ==
    /\ MaxSize \in Nat /\ maxFlushSize \in Nat
    /\ Hole \notin LogSegments \X Nat

VARIABLES
    extents,
    LogSegmentMap,   \* bytes in use of each log segment
    Size,
    openLogSegment,  \* set of at most one log segment, with its bytesPut
    content

vars == <<extents, LogSegmentMap, Size, openLogSegment, content>>

Offsets == 0..(MaxSize - 1)
Extent == [Length : Nat, LogSegmentNumber : LogSegments, LogSegmentOffset : Nat]

TypeOK ==
    /\ DOMAIN extents \subseteq Offsets /\ \A k \in DOMAIN extents : extents[k] \in Extent
    /\ DOMAIN LogSegmentMap \subseteq LogSegments
    /\ \A s \in DOMAIN LogSegmentMap : LogSegmentMap[s] \in Nat
    /\ Size \in 0..MaxSize
    /\ openLogSegment \subseteq [number : LogSegments, bytesPut : Nat]
    /\ content \in [Offsets -> (LogSegments \X Nat) \cup {Hole}]

Empty == [k \in {} |-> 0]

Init ==
    /\ extents = Empty /\ LogSegmentMap = Empty /\ Size = 0 /\ openLogSegment = {}
    /\ content = [p \in Offsets |-> Hole]

-----------------------------------------------------------------------------
(***************************************************************************)
(* recordWrite().                                                          *)
(***************************************************************************)
End(x, k) == k + x[k].Length

\* The extent without its first d bytes.
Without(e, d) ==
    [Length |-> e.Length - d, LogSegmentNumber |-> e.LogSegmentNumber,
     LogSegmentOffset |-> e.LogSegmentOffset + d]

\* The last extent that begins before o, as a set.
Preceding(x, o) == {k \in DOMAIN x : k < o /\ \A j \in DOMAIN x : j < o => j <= k}

\* Mutant: the second half of a split begins where the first one does.
SecondHalfUnmoved(x, o) ==
    LET split == {k \in Preceding(x, o) : o \notin DOMAIN x /\ End(x, k) > o} IN
    [k \in DOMAIN x \cup {o : l \in split} |->
       IF k \in split THEN [x[k] EXCEPT !.Length = o - k]
       ELSE IF k \in DOMAIN x THEN x[k]
       ELSE LET l == CHOOSE l \in split : TRUE IN [x[l] EXCEPT !.Length = @ - (o - l)]]

\* The extent around o is split there.
Split(x, o) ==
    LET split == {k \in Preceding(x, o) : o \notin DOMAIN x /\ End(x, k) > o} IN
    [k \in DOMAIN x \cup {o : l \in split} |->
       IF k \in split THEN [x[k] EXCEPT !.Length = o - k]
       ELSE IF k \in DOMAIN x THEN x[k]
       ELSE LET l == CHOOSE l \in split : TRUE IN Without(x[l], o - l)]

\* Extents that begin in [o, end).
Overlapping(x, o, end) == {k \in DOMAIN x : o <= k /\ k < end}

\* Extents of [o, end) are deleted, the last one up to end only.
Prune(x, o, end) ==
    LET over == Overlapping(x, o, end)
        partly == {k \in over : End(x, k) > end} IN
    [k \in (DOMAIN x \ over) \cup {end : l \in partly} |->
       IF k \in DOMAIN x \ over THEN x[k]
       ELSE LET l == CHOOSE l \in partly : TRUE IN Without(x[l], end - l)]

\* The preceding extent is lengthened if the new one continues it.
Insert(x, o, length, s, so) ==
    LET prev == {k \in Preceding(x, o) : /\ x[k].LogSegmentNumber = s
                                         /\ End(x, k) = o
                                         /\ x[k].LogSegmentOffset + x[k].Length = so} IN
    IF prev # {}
      THEN [k \in DOMAIN x |-> IF k \in prev THEN [x[k] EXCEPT !.Length = @ + length] ELSE x[k]]
      ELSE [k \in DOMAIN x \cup {o} |->
              IF k = o THEN [Length |-> length, LogSegmentNumber |-> s, LogSegmentOffset |-> so]
                       ELSE x[k]]

RecordWrite(x, o, length, s, so) ==
    Insert(Prune(Split(x, o), o, o + length), o, length, s, so)

-----------------------------------------------------------------------------
(***************************************************************************)
(* incrementLogSegmentMapFileData(), decrementLogSegmentMapFileData().     *)
(***************************************************************************)
\* Mutant: all of an extent counts as overwritten.
WholeExtents(x, o, end, s) ==
    SumFunctionOnSet([k \in DOMAIN x |-> x[k].Length],
                     {k \in Overlapping(x, o, end) : x[k].LogSegmentNumber = s})

\* Bytes of log segment s that [o, end) loses.
Lost(x, o, end, s) ==
    SumFunctionOnSet([k \in DOMAIN x |-> Min({End(x, k), end}) - k],
                     {k \in Overlapping(x, o, end) : x[k].LogSegmentNumber = s})

Decrement(m, x, o, end) == [s \in DOMAIN m |-> m[s] - Lost(x, o, end, s)]

Increment(m, s, length) ==
    [t \in DOMAIN m \cup {s} |->
       IF t # s THEN m[t] ELSE IF s \in DOMAIN m THEN m[s] + length ELSE length]

-----------------------------------------------------------------------------
(***************************************************************************)
(* setSizeInMemory().                                                      *)
(***************************************************************************)
\* The preceding extent is trimmed, the others are deleted.
Truncate(x, size) ==
    [k \in {j \in DOMAIN x : j < size} |->
       IF size \notin DOMAIN x /\ k \in Preceding(x, size) /\ End(x, k) > size
         THEN [x[k] EXCEPT !.Length = size - k] ELSE x[k]]

\* What setSizeInMemory() takes off LogSegmentMap, MaxSize being beyond every extent.
Trimmed(m, x, size) == Decrement(m, Split(x, size), size, MaxSize)

-----------------------------------------------------------------------------
\* doFileInodeDataFlush() and the loop of flushInodes() over LogSegmentMap.
InUse(m) == [s \in {t \in DOMAIN m : m[t] # 0} |-> m[s]]

NewLogSegment(s) == s \notin DOMAIN LogSegmentMap /\ \A l \in openLogSegment : l.number # s

Written(c, o, length, s, so) ==
    [p \in Offsets |-> IF o <= p /\ p < o + length THEN <<s, so + (p - o)>> ELSE c[p]]

Cleared(c, size) == [p \in Offsets |-> IF p < size THEN c[p] ELSE Hole]

Larger(m, n) == IF m > n THEN m ELSE n

\* Write(), with doSendChunk().
Write(o, length) ==
    \E s \in LogSegments :
      LET so == IF openLogSegment = {} THEN 0 ELSE (CHOOSE l \in openLogSegment : TRUE).bytesPut
      IN
      /\ IF openLogSegment = {} THEN NewLogSegment(s)
                                ELSE \E l \in openLogSegment : l.number = s
      /\ openLogSegment' = IF so + length >= maxFlushSize THEN {}
                           ELSE {[number |-> s, bytesPut |-> so + length]}
      /\ extents' = RecordWrite(extents, o, length, s, so)
      /\ LogSegmentMap' =
           Increment(Decrement(LogSegmentMap, Split(extents, o), o, o + length), s, length)
      /\ Size' = Larger(Size, o + length)
      /\ content' = Written(content, o, length, s, so)

\* Wrote(): a log segment that somebody else has PUT.  It flushes before and after.
Wrote(o, length, so, patchOnly) ==
    \E s \in LogSegments :
      LET m == Increment(Decrement(InUse(LogSegmentMap), Split(extents, o), o, o + length),
                         s, length)
          x == RecordWrite(extents, o, length, s, so)
          c == Written(content, o, length, s, so) IN
      /\ NewLogSegment(s)
      /\ ~patchOnly => o = 0 /\ so = 0
      /\ openLogSegment' = {}
      /\ IF patchOnly
           THEN /\ extents' = x /\ LogSegmentMap' = InUse(m) /\ content' = c
                /\ Size' = Larger(Size, o + length)
           ELSE /\ extents' = Truncate(x, length)
                /\ LogSegmentMap' = InUse(Trimmed(m, x, length))
                /\ content' = Cleared(c, length)
                /\ Size' = length

SetSize(size) ==
    /\ extents' = Truncate(extents, size)
    /\ LogSegmentMap' = InUse(Trimmed(LogSegmentMap, extents, size))
    /\ Size' = size
    /\ openLogSegment' = {}
    /\ content' = Cleared(content, size)

Flush ==
    /\ openLogSegment' = {}
    /\ LogSegmentMap' = InUse(LogSegmentMap)
    /\ UNCHANGED <<extents, Size, content>>

Next ==
    \/ \E o \in Offsets : \E length \in 1..(MaxSize - o) :
         \/ Write(o, length)
         \/ \E so \in 0..1, patchOnly \in BOOLEAN : Wrote(o, length, so, patchOnly)
    \/ \E size \in 0..MaxSize : SetSize(size)
    \/ Flush

Spec == Init /\ [][Next]_vars

-----------------------------------------------------------------------------
\* Where the extents say that the byte at file offset p is.
Bytes(x, p) == {k \in DOMAIN x : k <= p /\ p < End(x, k)}

ByteAt(x, p) ==
    IF Bytes(x, p) = {} THEN Hole
    ELSE LET k == CHOOSE k \in Bytes(x, p) : TRUE IN
         <<x[k].LogSegmentNumber, x[k].LogSegmentOffset + (p - k)>>

\* The keys of the B+Tree are enough to find a byte: extents are not empty and
\* do not overlap, so that recordWrite(), setSizeInMemory() and
\* getReadPlanHelper() may look at the preceding extent only.
NoOverlap ==
    /\ \A k \in DOMAIN extents : extents[k].Length > 0
    /\ \A k, j \in DOMAIN extents : k < j => End(extents, k) <= j

\* After any sequence of Write(), Wrote() and SetSize() every byte of the file is
\* the one written last.  What was cut off reads as a hole, also when the file
\* grows again.
DataAsWritten == \A p \in Offsets : ByteAt(extents, p) = content[p]

\* No extent reaches beyond the end of the file.
ExtentsInFile == \A k \in DOMAIN extents : End(extents, k) <= Size

\* LogSegmentMap counts the bytes that extents refer to: flushInodes() deletes a
\* log segment exactly when no extent refers to it, and
\* decrementLogSegmentMapFileData() never panics.
BytesCounted ==
    /\ \A k \in DOMAIN extents : extents[k].LogSegmentNumber \in DOMAIN LogSegmentMap
    /\ \A s \in DOMAIN LogSegmentMap :
         LogSegmentMap[s] = SumFunctionOnSet([k \in DOMAIN extents |-> extents[k].Length],
                              {k \in DOMAIN extents : extents[k].LogSegmentNumber = s})
=============================================================================
