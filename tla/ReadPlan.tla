------------------------------ MODULE ReadPlan ------------------------------
(***************************************************************************)
(* What package inode computes from the extents of a file: the read plan   *)
(* of getReadPlanHelper(), by which the middleware and doReadPlan() read,  *)
(* and the extents of the combination that Coalesce() makes.               *)
(***************************************************************************)
EXTENDS Extents, Sequences, SequencesExt

CONSTANTS
    Word,    \* 2^64 of the code: file offsets and lengths wrap around here
    Nil      \* an offset or length the request does not have

ASSUME WordAssumption == Word > 2 * MaxSize /\ Nil \notin Nat

\* offset and readPlanBytes of a request.
Requested(size, requestedOffset, requestedLength) ==
    LET offset == IF requestedOffset = Nil THEN (size - requestedLength) % Word
                                           ELSE requestedOffset
        bytes == IF requestedLength = Nil THEN (size - requestedOffset) % Word
                                          ELSE requestedLength IN
    [offset |-> offset,
     bytes |-> IF (offset + bytes) % Word <= size THEN bytes
               ELSE IF size > offset THEN size - offset ELSE 0]

\* The extents from BisectLeft(offset) on, in order.
From(x, offset) ==
    SetToSortSeq({k \in DOMAIN x : \A j \in DOMAIN x : k < j => j > offset}, <)

\* LogSegmentNumber 0 of the code is Hole.
ZeroFill(length) == [LogSegmentNumber |-> Hole, Offset |-> 0, Length |-> length]

\* Mutant: the step begins where the extent does.
UnskippedStep(x, k, cur, end) ==
    [LogSegmentNumber |-> x[k].LogSegmentNumber, Offset |-> x[k].LogSegmentOffset,
     Length |-> end - cur]

\* The part [cur, end) of the extent at k.
StepOf(x, k, cur, end) ==
    [LogSegmentNumber |-> x[k].LogSegmentNumber,
     Offset |-> x[k].LogSegmentOffset + (cur - k), Length |-> end - cur]

\* One extent of the loop of getReadPlanHelper().
Advance(x, terminal, plan, k) ==
    IF k >= terminal \/ End(x, k) <= plan.cur THEN plan
    ELSE LET cur == Larger(plan.cur, k)
             end == Min({terminal, End(x, k)}) IN
         [cur |-> end,
          steps |-> plan.steps \o (IF plan.cur < k THEN <<ZeroFill(k - plan.cur)>> ELSE <<>>)
                      \o <<StepOf(x, k, cur, end)>>]

GetReadPlan(x, size, requestedOffset, requestedLength) ==
    LET request == Requested(size, requestedOffset, requestedLength)
        terminal == (request.offset + request.bytes) % Word
        plan == FoldLeft(LAMBDA q, k : Advance(x, terminal, q, k),
                         [cur |-> request.offset, steps |-> <<>>],
                         From(x, request.offset)) IN
    IF request.bytes = 0 THEN <<>>
    ELSE plan.steps \o (IF plan.cur < terminal THEN <<ZeroFill(terminal - plan.cur)>> ELSE <<>>)

-----------------------------------------------------------------------------
\* Mutant: holes between extents are closed.
DenseStep(c, step) ==
    IF step.LogSegmentNumber = Hole THEN c
    ELSE [extents |-> RecordWrite(c.extents, c.size, step.Length, step.LogSegmentNumber,
                                  step.Offset),
          counts |-> Increment(c.counts, step.LogSegmentNumber, step.Length),
          size |-> c.size + step.Length]

\* Coalesce() gives the combination one step of an element's read plan.
CoalesceStep(c, step) ==
    [extents |-> IF step.LogSegmentNumber = Hole THEN c.extents
                 ELSE RecordWrite(c.extents, c.size, step.Length, step.LogSegmentNumber,
                                  step.Offset),
     counts |-> IF step.LogSegmentNumber = Hole THEN c.counts
                ELSE Increment(c.counts, step.LogSegmentNumber, step.Length),
     size |-> c.size + step.Length]

Coalesce(elements) ==
    FoldLeft(LAMBDA c, e : FoldLeft(CoalesceStep, c, GetReadPlan(e.extents, e.size, 0, e.size)),
             [extents |-> Empty, counts |-> Empty, size |-> 0], elements)

-----------------------------------------------------------------------------
StepBytes(step) ==
    [i \in 1..step.Length |-> IF step.LogSegmentNumber = Hole THEN Hole
                              ELSE <<step.LogSegmentNumber, step.Offset + i - 1>>]

PlanBytes(plan) == FlattenSeq([i \in DOMAIN plan |-> StepBytes(plan[i])])

\* The bytes [from, to) that the callers wrote.
Slice(from, to) == [i \in 1..(IF to > from THEN to - from ELSE 0) |-> content[from + i - 1]]

\* A read plan yields the bytes that were written, no more and no fewer: of a
\* range, wherever it begins and ends, of a prefix request ("bytes=25-", also
\* beyond the end) and of a suffix request ("bytes=-10") up to the whole file.
ReadPlanExact ==
    /\ \A offset, length \in 0..(MaxSize + 1) :
         PlanBytes(GetReadPlan(extents, Size, offset, length))
           = Slice(offset, Min({Size, offset + length}))
    /\ \A offset \in 0..(MaxSize + 1) :
         PlanBytes(GetReadPlan(extents, Size, offset, Nil)) = Slice(offset, Size)
    /\ \A length \in 0..Size :
         PlanBytes(GetReadPlan(extents, Size, Nil, length)) = Slice(Size - length, Size)

\* A second file, with the same extents in log segments of its own.
Copy == [k \in DOMAIN extents |->
           [extents[k] EXCEPT !.LogSegmentNumber = <<@, "copy">>]]

\* Coalesce() of this file and another: the combination has the bytes of both, one
\* after the other, holes included, and counts the bytes of every log segment that
\* it steals.
CoalesceExact ==
    LET c == Coalesce(<<[extents |-> extents, size |-> Size],
                        [extents |-> Copy, size |-> Size]>>) IN
    /\ c.size = 2 * Size
    /\ \A p \in 0..(Size - 1) : /\ ByteAt(c.extents, p) = content[p]
                                /\ ByteAt(c.extents, Size + p) = ByteAt(Copy, p)
    /\ \A s \in DOMAIN c.counts :
         c.counts[s] = SumFunctionOnSet([k \in DOMAIN c.extents |-> c.extents[k].Length],
                         {k \in DOMAIN c.extents : c.extents[k].LogSegmentNumber = s})
=============================================================================
