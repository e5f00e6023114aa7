-------------------------- MODULE SwiftClientProofs --------------------------
(***************************************************************************)
(* The connections and the tries of SwiftClient:                           *)
(* Spec => []ConnectionsAccounted and Spec => []GivesUpLast.               *)
(*                                                                         *)
(* Neither is inductive.  Whether a caller may take or must give back a    *)
(* connection depends on where it is in its call, which Placed says for    *)
(* each place: with which kind of call it is there, and which of the two   *)
(* connections it has.  PoolInv adds that a connection which is held or    *)
(* pooled is open or broken, never closed, and that a reply is on a        *)
(* connection only when its handler has ended, so that one whose reply was *)
(* read can go back to its pool.                                           *)
(***************************************************************************)
EXTENDS SwiftClient, FiniteSetTheorems, TLAPS

\* The fields of what a caller remembers, of a ChunkedPutContext and of a connection.
Fields == {"pc", "call", "plan", "req", "tries", "connection", "context", "closed", "result",
           "size", "position", "todo", "torn"}
ContextFields == {"connection", "active", "err", "fatal", "bytesPut"}
WireFields == {"state", "body", "ended", "reply", "left"}

\* The calls that a worker has yet to make.
Planned(plan) == \E S : plan \in Seq(S) /\ \A call \in S : WellFormed(call)

\* What a caller remembers, whatever it is doing.
Shape(r) ==
    /\ DOMAIN r = Fields /\ DOMAIN r.context = ContextFields
    /\ Planned(r.plan)
    /\ r.tries \in 0..(RetryLimit + 1)
    /\ r.connection \in Conns \cup {Nobody}
    /\ r.context.connection \in Conns \cup {Nobody}

\* What GivesUpLast says of a call that has returned.
Settled(r) ==
    \/ r.result.err \in {Succeeded, "not empty"}
    \/ r.context.fatal
    \/ r.tries = RetryLimit + 1

\* Which connections a caller holds, by what it is doing.
Placed(r) ==
    /\ r.connection # Nobody <=> r.pc = "await"
    /\ r.pc = "idle" => r.context.connection = Nobody /\ (r.call.kind # "none" => Settled(r))
    /\ r.pc \in {"send", "await"} =>
         /\ r.call.kind \in {"request", "copy", "format"}
         /\ r.call.kind = "copy" => r.req.method \in {"GET", "HEAD"}
         /\ r.context.connection # Nobody <=> r.call.kind = "copy" /\ r.req.method = "GET"
    /\ r.pc \in {"fetch", "reopen"} => r.context.connection = Nobody /\ r.call.kind \in {"put", "copy"}
    /\ r.pc = "fetch" => r.req.method = "PUT"
    /\ r.pc \in {"open", "chunk", "close", "closing"} => r.call.kind \in {"put", "copy"}
    /\ r.pc \in {"open", "chunk", "closing"} => r.context.connection # Nobody
    /\ r.pc = "close" => r.context.connection # Nobody \/ r.context.err

\* What holds of a caller at any time.
Sound(r) == Shape(r) /\ Placed(r)

\* What is on a connection: no reply before the handler has ended.
Quiet(c) ==
    /\ DOMAIN wire[c] = WireFields
    /\ wire[c].reply # NoReply => handler[c] = Waiting

\* Connection c can be used.
Alive(c) == wire[c].state \in {"open", "broken"}

\* The pools and what is on the wires.
PoolInv ==
    /\ wire = [c \in Conns |-> wire[c]] /\ handler = [c \in Conns |-> handler[c]]
    /\ inUse = [p \in Pools |-> inUse[p]]
    /\ lifo \in [Pools -> Seq(Conns)]
    /\ \A c \in Conns : Quiet(c)
    /\ \A p \in Pools, w \in Workers : Holding(w, p) # Nobody => Alive(Holding(w, p))
    /\ \A p \in Pools : \A i \in 1..Len(lifo[p]) : Alive(lifo[p][i])
    /\ ConnectionsAccounted

\* The inductive invariant.
SwiftInv ==
    /\ worker = [w \in Workers |-> worker[w]]
    /\ \A w \in Workers : Sound(worker[w])
    /\ PoolInv

-----------------------------------------------------------------------------
\* A call that returns an error has used up its tries, or was refused.
LEMMA ReturnsSound ==
    ASSUME NEW r, NEW result, Shape(r), r.connection = Nobody, r.context.connection = Nobody,
           \/ result.err \in {Succeeded, "not empty"}
           \/ r.context.fatal
           \/ r.tries = RetryLimit + 1
    PROVE  /\ Sound(Returns(r, result)) /\ Returns(r, result).connection = Nobody
           /\ Returns(r, result).context = r.context
  <1>1. PICK u : u = Returns(r, result)
    BY Zenon
  <1>2. /\ DOMAIN u = Fields /\ u.pc = "idle" /\ u.result = result /\ u.context = r.context
        /\ u.plan = r.plan /\ u.tries = r.tries /\ u.connection = r.connection
    BY Zenon, <1>1 DEF Returns, Shape, Fields
  <1>3. Shape(u)
    BY Zenon, <1>2 DEF Shape
  <1>4. Settled(u)
    BY Zenon, <1>2 DEF Settled
  <1>5. Placed(u)
    BY Zenon, <1>2, <1>4 DEF Placed
  <1> QED BY Zenon, <1>1, <1>2, <1>3, <1>5 DEF Sound

\* A request that is begun counts its tries from one.
LEMMA AsksSound ==
    ASSUME NEW r, NEW pc, NEW req, Shape(r), r.connection = Nobody, RetryLimit \in Nat,
           \/ /\ pc = "send" /\ r.call.kind \in {"request", "copy", "format"}
              /\ r.call.kind = "copy" => req.method \in {"GET", "HEAD"}
              /\ r.context.connection # Nobody <=> r.call.kind = "copy" /\ req.method = "GET"
           \/ /\ pc = "fetch" /\ r.context.connection = Nobody /\ r.call.kind \in {"put", "copy"}
              /\ req.method = "PUT"
    PROVE  /\ Sound(Asks(r, pc, req)) /\ Asks(r, pc, req).connection = Nobody
           /\ Asks(r, pc, req).context = r.context
  <1>1. PICK u : u = Asks(r, pc, req)
    BY Zenon
  <1>2. /\ DOMAIN u = Fields /\ u.pc = pc /\ u.req = req /\ u.context = r.context
        /\ u.plan = r.plan /\ u.tries = 1 /\ u.connection = r.connection /\ u.call = r.call
    BY Zenon, <1>1 DEF Asks, Shape, Fields
  <1>3. Shape(u)
    BY <1>2 DEF Shape
  <1>4. Placed(u)
    BY Zenon, <1>2 DEF Placed
  <1> QED BY Zenon, <1>1, <1>2, <1>3, <1>4 DEF Sound

\* The fields todo, size and position are not looked at.
LEMMA TodoSound ==
    ASSUME NEW r, NEW x, NEW f \in {"todo", "size", "position"}, NEW u, u = [r EXCEPT ![f] = x]
    PROVE  /\ Shape(r) => Shape(u)
           /\ Sound(r) => Sound(u)
           /\ Shape(r) => /\ u.connection = r.connection /\ u.context = r.context
                          /\ u.call = r.call /\ u.tries = r.tries /\ u.req = r.req
  <1>1. ASSUME Shape(r)
        PROVE  /\ DOMAIN u = Fields /\ u.pc = r.pc /\ u.req = r.req /\ u.context = r.context
               /\ u.plan = r.plan /\ u.tries = r.tries /\ u.connection = r.connection
               /\ u.call = r.call /\ u.result = r.result
    BY Zenon, <1>1 DEF Shape, Fields
  <1>2. Shape(r) => Shape(u)
    BY Zenon, <1>1 DEF Shape
  <1>3. Shape(r) /\ Placed(r) => Placed(u)
    BY Zenon, <1>1 DEF Placed, Settled
  <1> QED BY Zenon, <1>1, <1>2, <1>3 DEF Sound

\* A call that goes on without a chunked connection.
Fresh(r) == Shape(r) /\ r.connection = Nobody /\ r.context.connection = Nobody

\* It has no plain connection, and the chunked one it had.
Frees(u, r) == Sound(u) /\ u.connection = Nobody /\ u.context.connection = r.context.connection

\* Format() goes on with the next container, or returns.
LEMMA FormatsNextSound ==
    ASSUME NEW r, Fresh(r), r.call.kind = "format", RetryLimit \in Nat
    PROVE  Frees(FormatsNext(r), r)
  <1>1. CASE r.todo = <<>>
    <2>1. PICK result : result = [err |-> Succeeded, data |-> <<>>]
      BY Zenon
    <2>2. FormatsNext(r) = Returns(r, result) /\ result.err = Succeeded
      BY Zenon, <1>1, <2>1 DEF FormatsNext
    <2> QED BY Zenon, <2>2, ReturnsSound DEF Fresh, Frees
  <1>2. CASE r.todo # <<>>
    <2>1. PICK a : a = Asks(r, "send", Head(r.todo))
      BY Zenon
    <2>2. Sound(a) /\ a.connection = Nobody /\ a.context = r.context
      BY Zenon, <2>1, AsksSound DEF Fresh
    <2>3. PICK x : FormatsNext(r) = [a EXCEPT !.todo = x]
      BY Zenon, <1>2, <2>1 DEF FormatsNext
    <2> QED BY <2>2, <2>3, TodoSound DEF Frees, Sound
  <1> QED BY Zenon, <1>1, <1>2

\* Format() takes what a request has answered.
LEMMA FormatsSound ==
    ASSUME NEW r, NEW result, Fresh(r), r.call.kind = "format", RetryLimit \in Nat,
           result.err = Succeeded \/ r.tries = RetryLimit + 1
    PROVE  Frees(Formats(r, result), r)
  <1>1. ASSUME NEW todo PROVE Frees(FormatsNext([r EXCEPT !.todo = todo]), r)
    <2>1. PICK u : u = [r EXCEPT !.todo = todo]
      BY Zenon
    <2>2. Fresh(u) /\ u.call.kind = "format" /\ u.context = r.context
      BY <2>1, TodoSound DEF Fresh
    <2>3. Frees(FormatsNext(u), u)
      BY Zenon, <2>2, FormatsNextSound
    <2> QED BY Zenon, <2>1, <2>2, <2>3 DEF Frees
  <1>2. Frees(FormatsNext(r), r)
    BY Zenon, FormatsNextSound
  <1>3. Frees(Returns(r, result), r)
    BY Zenon, ReturnsSound DEF Fresh, Frees
  <1>4. ASSUME NEW err \in {Succeeded, "not empty"} PROVE Frees(Returns(r, Fails(err)), r)
    <2>1. Fails(err).err = err
      BY Zenon DEF Fails
    <2> QED BY Zenon, <2>1, ReturnsSound DEF Fresh, Frees
  <1>5. \/ Formats(r, result) = FormatsNext(r)
        \/ Formats(r, result) = Returns(r, result)
        \/ \E todo : Formats(r, result) = FormatsNext([r EXCEPT !.todo = todo])
        \/ \E err \in {Succeeded, "not empty"} : Formats(r, result) = Returns(r, Fails(err))
    <2> DEFINE listed == r.req = AccountGet(r.call.account)
    <2>1. CASE listed /\ result.err = "NotFoundError"
      BY Zenon, <2>1 DEF Formats, Succeeded
    <2>2. CASE result.err # Succeeded /\ ~(listed /\ result.err = "NotFoundError")
      BY Zenon, <2>2 DEF Formats
    <2>3. CASE result.err = Succeeded /\ listed
      BY Zenon, <2>3 DEF Formats, Succeeded
    <2>4. CASE result.err = Succeeded /\ ~listed
      BY Zenon, <2>4 DEF Formats
    <2> QED BY Zenon, <2>1, <2>2, <2>3, <2>4
  <1> QED BY Zenon, <1>1, <1>2, <1>3, <1>4, <1>5

\* objectCopy() takes what a request has answered.
LEMMA CopiesSound ==
    ASSUME NEW r, NEW result, Shape(r), r.connection = Nobody, r.call.kind = "copy",
           RetryLimit \in Nat, r.req.method \in {"GET", "HEAD"},
           r.context.connection # Nobody <=> r.req.method = "GET",
           result.err = Succeeded \/ r.tries = RetryLimit + 1
    PROVE  Frees(Copies(r, result), r)
  <1>1. CASE r.req.method = "GET"
    <2>1. PICK u : u = [r EXCEPT !.pc = "chunk", !.todo = <<result.data>>,
                                 !.torn = @ \/ result.err # Succeeded]
      BY Zenon
    <2>2. /\ DOMAIN u = Fields /\ u.pc = "chunk" /\ u.context = r.context /\ u.call = r.call
          /\ u.plan = r.plan /\ u.tries = r.tries /\ u.connection = r.connection
      BY Zenon, <2>1 DEF Shape, Fields
    <2>3. Shape(u)
      BY Zenon, <2>2 DEF Shape
    <2>4. Placed(u)
      BY Zenon, <1>1, <2>2 DEF Placed
    <2>5. Copies(r, result) = u
      BY Zenon, <1>1, <2>1 DEF Copies
    <2> QED BY Zenon, <2>2, <2>3, <2>4, <2>5 DEF Frees, Sound
  <1>2. CASE r.req.method = "HEAD" /\ result.err = Succeeded
    <2>1. PICK a : a = Asks(r, "fetch", ObjectPut(r.call.to))
      BY Zenon
    <2>2. Sound(a) /\ a.connection = Nobody /\ a.context = r.context
      <3>1. ObjectPut(r.call.to).method = "PUT"
        BY Zenon DEF ObjectPut, Request
      <3> QED BY Zenon, <1>2, <2>1, <3>1, AsksSound
    <2>3. Copies(r, result) = [a EXCEPT !.size = result.data]
      BY Zenon, <1>2, <2>1 DEF Copies
    <2> QED BY <2>2, <2>3, TodoSound DEF Frees, Sound
  <1>3. CASE r.req.method = "HEAD" /\ result.err # Succeeded
    <2>1. Copies(r, result) = Returns(r, result)
      BY Zenon, <1>3 DEF Copies
    <2> QED BY Zenon, <1>3, <2>1, ReturnsSound DEF Frees
  <1> QED BY Zenon, <1>1, <1>2, <1>3

\* A caller whose request has returned, with its connection given back.
Answered(r) ==
    /\ Shape(r) /\ r.connection = Nobody
    /\ r.call.kind \in {"request", "copy", "format"}
    /\ r.call.kind = "copy" => r.req.method \in {"GET", "HEAD"}
    /\ r.context.connection # Nobody <=> r.call.kind = "copy" /\ r.req.method = "GET"

\* A call takes what a request has answered.
LEMMA ContinuesSound ==
    ASSUME NEW r, NEW result, Answered(r), RetryLimit \in Nat,
           result.err = Succeeded \/ r.tries = RetryLimit + 1
    PROVE  Frees(Continues(r, result), r)
  <1>1. CASE r.call.kind = "format"
    BY Zenon, <1>1, FormatsSound DEF Continues, Answered, Fresh
  <1>2. CASE r.call.kind = "copy"
    BY Zenon, <1>2, CopiesSound DEF Continues, Answered
  <1>3. CASE r.call.kind = "request"
    BY Zenon, <1>3, ReturnsSound DEF Continues, Answered, Frees
  <1> QED BY Zenon, <1>1, <1>2, <1>3 DEF Answered

\* RequestWithRetry() tries again as long as it may.
LEMMA TriesAgainSound ==
    ASSUME NEW r, NEW pc, NEW failed, RetryLimit \in Nat,
           \/ pc = "send" /\ Answered(r)
           \/ /\ pc = "fetch" /\ Fresh(r) /\ r.call.kind \in {"put", "copy"}
              /\ r.req.method = "PUT"
    PROVE  Frees(TriesAgain(r, pc, failed), r)
  <1>1. CASE MayRetry(r)
    <2>1. PICK u : u = [r EXCEPT !.pc = pc, !.tries = @ + 1]
      BY Zenon
    <2>2. Shape(r) /\ r.tries \in 0..RetryLimit
      BY <1>1 DEF Fresh, Answered, Shape, MayRetry
    <2>3. /\ DOMAIN u = Fields /\ u.pc = pc /\ u.context = r.context /\ u.call = r.call
          /\ u.plan = r.plan /\ u.tries = r.tries + 1 /\ u.connection = r.connection /\ u.req = r.req
      BY Zenon, <2>1, <2>2 DEF Shape, Fields
    <2>4. Shape(u)
      BY <2>2, <2>3 DEF Shape
    <2>5. Placed(u)
      BY Zenon, <2>3 DEF Placed, Answered, Fresh
    <2>6. TriesAgain(r, pc, failed) = u
      BY Zenon, <1>1, <2>1 DEF TriesAgain
    <2> QED BY Zenon, <2>3, <2>4, <2>5, <2>6 DEF Frees, Sound, Answered, Fresh
  <1>2. CASE ~MayRetry(r)
    <2>1. r.tries = RetryLimit + 1
      BY <1>2 DEF Fresh, Answered, Shape, MayRetry
    <2>2. TriesAgain(r, pc, failed) = Continues(r, failed)
      BY Zenon, <1>2 DEF TriesAgain
    <2>3. CASE Answered(r)
      BY Zenon, <2>1, <2>2, <2>3, ContinuesSound
    <2>4. CASE Fresh(r) /\ r.call.kind = "put"
      <3>1. Continues(r, failed) = Returns(r, failed)
        BY Zenon, <2>4 DEF Continues
      <3> QED BY Zenon, <2>1, <2>2, <2>4, <3>1, ReturnsSound DEF Fresh, Frees
    <2>5. CASE Fresh(r) /\ r.call.kind = "copy" /\ r.req.method = "PUT"
      <3>1. Continues(r, failed) = Returns(r, failed)
        BY Zenon, <2>5 DEF Continues, Copies
      <3> QED BY Zenon, <2>1, <2>2, <2>5, <3>1, ReturnsSound DEF Fresh, Frees
    <2> QED BY Zenon, <2>3, <2>4, <2>5
  <1> QED BY Zenon, <1>1, <1>2

\* closeHelper() has failed, and has given up the connection.
LEMMA CloseFailsSound ==
    ASSUME NEW r, NEW err, Shape(r), r.connection = Nobody, r.call.kind \in {"put", "copy"},
           RetryLimit \in Nat
    PROVE  /\ Sound(CloseFails(r, err)) /\ CloseFails(r, err).connection = Nobody
           /\ CloseFails(r, err).context.connection = Nobody
  <1>1. PICK h : h = HasClosed(r)
    BY Zenon
  <1>2. /\ DOMAIN h = Fields /\ DOMAIN h.context = ContextFields /\ h.context.connection = Nobody
        /\ h.context.fatal = r.context.fatal /\ h.plan = r.plan /\ h.tries = r.tries
        /\ h.connection = Nobody /\ h.call = r.call
    BY Zenon, <1>1 DEF HasClosed, Shape, Fields, ContextFields
  <1>3. Shape(h)
    BY Zenon, <1>2 DEF Shape
  <1>4. ASSUME NEW u, NEW n \in 0..(RetryLimit + 1), DOMAIN u = Fields, u.pc = "reopen", u.tries = n,
               u.context = h.context, u.plan = h.plan, u.connection = Nobody, u.call = h.call
        PROVE  Sound(u)
    <2>1. Shape(u)
      BY Zenon, <1>3, <1>4 DEF Shape
    <2>2. Placed(u)
      BY Zenon, <1>2, <1>4 DEF Placed
    <2> QED BY Zenon, <2>1, <2>2 DEF Sound
  <1>5. CASE ~r.closed /\ ~Hopeless(r)
    <2>1. PICK u : u = [h EXCEPT !.pc = "reopen", !.closed = TRUE, !.tries = 1]
      BY Zenon
    <2>2. /\ DOMAIN u = Fields /\ u.pc = "reopen" /\ u.tries = 1 /\ u.context = h.context
          /\ u.plan = h.plan /\ u.connection = Nobody /\ u.call = h.call
      BY Zenon, <1>2, <2>1 DEF Fields
    <2>3. CloseFails(r, err) = u
      BY Zenon, <1>1, <1>5, <2>1 DEF CloseFails
    <2> QED BY <1>2, <1>4, <2>2, <2>3
  <1>6. CASE r.closed /\ MayRetry(r)
    <2>1. PICK u : u = [h EXCEPT !.pc = "reopen", !.tries = @ + 1]
      BY Zenon
    <2>2. /\ DOMAIN u = Fields /\ u.pc = "reopen" /\ u.tries = r.tries + 1 /\ u.context = h.context
          /\ u.plan = h.plan /\ u.connection = Nobody /\ u.call = h.call
      BY Zenon, <1>2, <2>1 DEF Fields
    <2>3. r.tries + 1 \in 0..(RetryLimit + 1)
      BY <1>6 DEF MayRetry, Shape
    <2>4. CloseFails(r, err) = u
      BY Zenon, <1>1, <1>6, <2>1 DEF CloseFails
    <2> QED BY Zenon, <1>2, <1>4, <2>2, <2>3, <2>4
  <1>7. CASE (~r.closed /\ Hopeless(r)) \/ (r.closed /\ ~MayRetry(r))
    <2>1. CloseFails(r, err) = Returns(h, Fails(err))
      BY Zenon, <1>1, <1>7 DEF CloseFails
    <2>2. h.context.fatal \/ h.tries = RetryLimit + 1
      BY <1>2, <1>7 DEF Hopeless, MayRetry, Shape
    <2> QED BY Zenon, <1>2, <1>3, <2>1, <2>2, ReturnsSound
  <1> QED BY Zenon, <1>5, <1>6, <1>7

-----------------------------------------------------------------------------
\* A set of numbers that is not empty has a least one.
LEMMA Least ==
    ASSUME NEW S \in SUBSET Nat, S # {}
    PROVE  Min(S) \in S
  <1>1. \A x, y \in Nat : y < x => <<y, x>> \in OpToRel(<, Nat)
    BY Zenon DEF OpToRel
  <1>2. \E x \in S : \A y \in S : ~(<<y, x>> \in OpToRel(<, Nat))
    BY WFMin, NatLessThanWellFounded, Zenon
  <1>3. PICK x \in S : \A y \in S : ~(<<y, x>> \in OpToRel(<, Nat))
    BY Zenon, <1>2
  <1>4. \A y \in S : ~(y < x)
    BY <1>1, <1>3, Zenon
  <1>5. \A y \in S : x =< y
    BY <1>4
  <1> QED BY Zenon, <1>5 DEF Min

\* Connection c is free: no caller holds it, and it is in no pool but at the
\* place n of pool p.
Spare(c, p, n) ==
    /\ c \in Conns
    /\ \A q \in Pools, w \in Workers : Holding(w, q) # c
    /\ \A q \in Pools : \A i \in 1..Len(lifo[q]) : lifo[q][i] = c => q = p /\ i = n

\* The connection that acquireChunkedConnection() and acquireNonChunkedConnection()
\* return is nobody's, and only the top of its pool is taken.
LEMMA AcquiredSpare ==
    ASSUME SwiftInv, NEW p \in Pools, MayAcquire(p)
    PROVE  /\ Spare(Acquired(p), p, Len(lifo[p]))
           /\ DOMAIN Wire(p) = WireFields /\ Wire(p).reply = NoReply
           /\ Wire(p).state \in {"open", "broken"}
           /\ handler[Acquired(p)] = Waiting \/ lifo[p] = <<>>
           /\ lifo[p] = <<>> => Wire(p).state = "open"
  <1>1. lifo \in [Pools -> Seq(Conns)] /\ ConnectionsAccounted
    BY Zenon DEF SwiftInv, PoolInv
  <1>2. \A q \in Pools : DOMAIN lifo[q] = 1..Len(lifo[q])
    BY <1>1
  <1>3. CASE lifo[p] # <<>>
    <2>1. PICK n \in 1..Len(lifo[p]) : n = Len(lifo[p])
      BY <1>1, <1>3
    <2>2. PICK c \in Conns : c = lifo[p][n]
      BY <1>1, <2>1
    <2>3. Acquired(p) = c /\ Wire(p) = wire[c]
      BY Zenon, <1>3, <2>1, <2>2 DEF Acquired, Wire
    <2>4. Spare(c, p, n)
      BY <1>1, <1>2, <2>1, <2>2 DEF Spare, ConnectionsAccounted
    <2>5. handler[c] = Waiting /\ wire[c].reply = NoReply
      BY Zenon, <1>1, <1>2, <2>1, <2>2 DEF ConnectionsAccounted
    <2>6. Quiet(c) /\ Alive(c)
      BY Zenon, <2>1, <2>2 DEF SwiftInv, PoolInv
    <2> QED BY Zenon, <1>3, <2>1, <2>3, <2>4, <2>5, <2>6 DEF Quiet, Alive
  <1>4. CASE lifo[p] = <<>>
    <2>1. Unopened # {} /\ Unopened \in SUBSET Nat
      BY Zenon, <1>4, SwiftAssumption DEF MayAcquire, Unopened
    <2>2. PICK c \in Unopened : c = Min(Unopened)
      BY Zenon, <2>1, Least
    <2>3. Acquired(p) = c /\ c \in Conns /\ wire[c] = Unused
      BY Zenon, <1>4, <2>2 DEF Acquired, Unopened
    <2>4. ~Alive(c)
      BY <2>3 DEF Alive, Unused
    <2>5. Spare(c, p, Len(lifo[p]))
      BY Zenon, <2>3, <2>4, SwiftAssumption DEF Spare, SwiftInv, PoolInv, Nobody
    <2>6. Wire(p) = [Unused EXCEPT !.state = "open"]
      BY Zenon, <1>4 DEF Wire
    <2>7. DOMAIN Wire(p) = WireFields /\ Wire(p).reply = NoReply /\ Wire(p).state = "open"
      BY Zenon, <2>6 DEF Unused, WireFields
    <2> QED BY Zenon, <1>4, <2>3, <2>5, <2>7
  <1> QED BY Zenon, <1>3, <1>4

-----------------------------------------------------------------------------
\* Nothing but connection c changes.
Only(c) ==
    /\ wire' = [d \in Conns |-> wire'[d]] /\ handler' = [d \in Conns |-> handler'[d]]
    /\ \A d \in Conns \ {c} : wire'[d] = wire[d] /\ handler'[d] = handler[d]

\* Nobody but w takes or gives up a connection, and w only one of pool p.
OnlyHolder(w, p) == \A v \in Workers, q \in Pools : v # w \/ q # p => Holding(v, q)' = Holding(v, q)

\* All of a sequence but its last element.
LEMMA ButLast ==
    ASSUME NEW S, NEW s \in Seq(S), Len(s) # 0, NEW t, t = SubSeq(s, 1, Len(s) - 1)
    PROVE  t \in Seq(S) /\ Len(t) = Len(s) - 1 /\ \A i \in 1..Len(t) : t[i] = s[i]
  <1>1. PICK n \in Nat : Len(s) = n + 1
    BY Len(s) - 1 \in Nat
  <1>2. t = SubSeq(s, 1, n)
    BY <1>1
  <1>3. t \in Seq(S) /\ Len(t) = n /\ \A i \in 1..n : t[i] = s[i]
    BY <1>1, <1>2
  <1> QED BY <1>1, <1>3

\* What stays in the pools.
LEMMA PopsPool ==
    ASSUME NEW p \in Pools, lifo \in [Pools -> Seq(Conns)], Pops(p)
    PROVE  /\ lifo' \in [Pools -> Seq(Conns)]
           /\ \A q \in Pools : \A i \in 1..Len(lifo'[q]) :
                /\ i \in 1..Len(lifo[q]) /\ lifo'[q][i] = lifo[q][i]
                /\ q = p => i # Len(lifo[p])
  <1>1. CASE lifo[p] = <<>>
    <2>1. lifo' = lifo
      BY Zenon, <1>1 DEF Pops
    <2> QED BY <1>1, <2>1
  <1>2. CASE lifo[p] # <<>>
    <2>1. PICK s \in Seq(Conns) : s = lifo[p]
      BY Zenon, <1>1
    <2>2. PICK t : t = SubSeq(s, 1, Len(s) - 1)
      BY Zenon
    <2>3. Len(s) \in Nat \ {0}
      BY <1>2, <2>1
    <2>a. Len(s) # 0
      BY <2>3
    <2>4. t \in Seq(Conns) /\ Len(t) = Len(s) - 1 /\ \A i \in 1..Len(t) : t[i] = s[i]
      BY ZenonT(60), <2>a, <2>2, ButLast
    <2>5. lifo' = [lifo EXCEPT ![p] = t]
      BY Zenon, <1>2, <2>1, <2>2 DEF Pops
    <2>6. lifo'[p] = t /\ \A q \in Pools \ {p} : lifo'[q] = lifo[q]
      BY Zenon, <2>5
    <2>7. \A i \in 1..Len(t) : i \in 1..Len(s) /\ i # Len(s)
      BY <2>3, <2>4
    <2> QED BY Zenon, <2>1, <2>4, <2>5, <2>6, <2>7
  <1> QED BY Zenon, <1>1, <1>2

\* What follows for connections and pools when the rest of the invariant holds
\* of the next state.
LEMMA Accounts ==
    ASSUME SwiftInv, NEW c \in Conns, Only(c), Quiet(c)',
           inUse' = [p \in Pools |-> inUse'[p]],
           lifo' \in [Pools -> Seq(Conns)],
           \A p \in Pools : inUse'[p] = Cardinality(Holders(p)'),
           \A p, q \in Pools, v, w \in Workers :
             Holding(v, p)' # Nobody /\ Holding(v, p)' = Holding(w, q)' => v = w /\ p = q,
           \A p, q \in Pools : \A i \in 1..Len(lifo'[p]), j \in 1..Len(lifo'[q]) :
             lifo'[p][i] = lifo'[q][j] => p = q /\ i = j,
           \A p, q \in Pools, w \in Workers : \A i \in 1..Len(lifo'[q]) : Holding(w, p)' # lifo'[q][i],
           \A p \in Pools, w \in Workers :
             \/ Holding(w, p)' \in {c, Nobody}
             \/ Holding(w, p)' = Holding(w, p),
           \A p \in Pools : \A i \in 1..Len(lifo'[p]) :
             \/ lifo'[p][i] = c /\ wire'[c].reply = NoReply /\ handler'[c] = Waiting
             \/ lifo'[p][i] # c /\ \E j \in 1..Len(lifo[p]) : lifo'[p][i] = lifo[p][j],
           \/ Alive(c)'
           \/ \A p \in Pools : /\ \A w \in Workers : Holding(w, p)' # c
                               /\ \A i \in 1..Len(lifo'[p]) : lifo'[p][i] # c
    PROVE  PoolInv'
  <1>1. \A p \in Pools : DOMAIN lifo[p] = 1..Len(lifo[p]) /\ DOMAIN lifo'[p] = 1..Len(lifo'[p])
    BY DEF SwiftInv, PoolInv
  <1>2. \A d \in Conns : Quiet(d)'
    BY Zenon DEF Only, Quiet, SwiftInv, PoolInv
  <1>3. \A d \in Conns \ {c} : Alive(d) => Alive(d)'
    BY Zenon DEF Only, Alive
  <1>4. ASSUME NEW p \in Pools, NEW w \in Workers, Holding(w, p)' # Nobody
        PROVE  Alive(Holding(w, p))'
    <2>1. CASE Holding(w, p)' = c
      BY Zenon, <1>4, <2>1
    <2>2. CASE Holding(w, p)' # c
      <3>1. Holding(w, p)' = Holding(w, p)
        BY Zenon, <1>4, <2>2
      <3>2. Sound(worker[w]) /\ Alive(Holding(w, p))
        BY Zenon, <1>4, <3>1 DEF SwiftInv, PoolInv
      <3>3. Holding(w, p) \in Conns
        BY Zenon, <1>4, <3>1, <3>2 DEF Holding, Sound, Shape
      <3> QED BY Zenon, <1>3, <2>2, <3>1, <3>2, <3>3
    <2> QED BY Zenon, <2>1, <2>2
  <1>5. ASSUME NEW p \in Pools, NEW i \in 1..Len(lifo'[p])
        PROVE  /\ Alive(lifo[p][i])'
               /\ handler'[lifo'[p][i]] = Waiting /\ wire'[lifo'[p][i]].reply = NoReply
    <2>1. CASE lifo'[p][i] = c
      BY Zenon, <1>5, <2>1
    <2>2. CASE lifo'[p][i] # c
      <3>1. PICK j \in 1..Len(lifo[p]) : lifo'[p][i] = lifo[p][j]
        BY Zenon, <1>5, <2>2
      <3>2. lifo[p][j] \in Conns \ {c}
        BY <2>2, <3>1 DEF SwiftInv, PoolInv
      <3>3. Alive(lifo[p][j])
        BY Zenon DEF SwiftInv, PoolInv
      <3>4. handler[lifo[p][j]] = Waiting /\ wire[lifo[p][j]].reply = NoReply
        BY ZenonT(60), <1>1 DEF SwiftInv, PoolInv, ConnectionsAccounted
      <3> QED BY Zenon, <1>3, <3>1, <3>2, <3>3, <3>4 DEF Only
    <2> QED BY Zenon, <2>1, <2>2
  <1>6. ConnectionsAccounted'
    <2>1. \A p, q \in Pools : \A i \in DOMAIN lifo'[p], j \in DOMAIN lifo'[q] :
            lifo'[p][i] = lifo'[q][j] => p = q /\ i = j
      <3> TAKE p, q \in Pools
      <3>1. DOMAIN lifo'[p] = 1..Len(lifo'[p]) /\ DOMAIN lifo'[q] = 1..Len(lifo'[q])
        BY <1>1, Zenon
      <3>2. ASSUME NEW i \in 1..Len(lifo'[p]), NEW j \in 1..Len(lifo'[q]), lifo'[p][i] = lifo'[q][j]
            PROVE  p = q /\ i = j
        BY <3>2
      <3> QED BY <3>1, <3>2, Zenon
    <2>2. \A p, q \in Pools, w \in Workers : \A i \in DOMAIN lifo'[q] : Holding(w, p)' # lifo'[q][i]
      BY <1>1
    <2>3. \A p \in Pools : \A i \in DOMAIN lifo'[p] :
            handler'[lifo'[p][i]] = Waiting /\ wire'[lifo'[p][i]].reply = NoReply
      BY <1>1, <1>5
    <2> QED BY <2>1, <2>2, <2>3, Zenon DEF ConnectionsAccounted
  <1>7. /\ \A p \in Pools, w \in Workers : Holding(w, p)' # Nobody => Alive(Holding(w, p))'
        /\ \A p \in Pools : \A i \in 1..Len(lifo'[p]) : Alive(lifo[p][i])'
    BY Zenon, <1>4, <1>5
  <1> QED BY Zenon, <1>2, <1>6, <1>7 DEF PoolInv, Only

-----------------------------------------------------------------------------
\* The connection a caller takes is nobody else's.
LEMMA Grabs ==
    ASSUME SwiftInv, NEW w \in Workers, NEW p \in Pools, NEW c \in Conns, c # Nobody,
           Spare(c, p, Len(lifo[p])), Pops(p),
           inUse' = [inUse EXCEPT ![p] = @ + 1],
           Only(c), DOMAIN wire'[c] = WireFields, wire'[c].reply = NoReply, Alive(c)',
           Holding(w, p) = Nobody, Holding(w, p)' = c, OnlyHolder(w, p)
    PROVE  PoolInv'
  <1>1. PoolInv /\ ConnectionsAccounted
    BY Zenon DEF SwiftInv, PoolInv
  <1>2. /\ lifo' \in [Pools -> Seq(Conns)]
        /\ \A q \in Pools : \A i \in 1..Len(lifo'[q]) :
             /\ i \in 1..Len(lifo[q]) /\ lifo'[q][i] = lifo[q][i]
             /\ q = p => i # Len(lifo[p])
    BY Zenon, <1>1, PopsPool DEF PoolInv
  <1>3. \A q \in Pools : \A i \in 1..Len(lifo'[q]) : lifo'[q][i] # c
    BY <1>2 DEF Spare
  <1>4. \A q \in Pools : IsFiniteSet(Holders(q)) /\ Holders(q) \subseteq Workers
    BY Zenon, SwiftAssumption, FS_Subset DEF Holders
  <1>5. \A q \in Pools \ {p} : Holders(q)' = Holders(q)
    BY Zenon DEF Holders, OnlyHolder
  <1>6. Holders(p)' = Holders(p) \cup {w} /\ w \notin Holders(p)
    BY DEF Holders, OnlyHolder
  <1>7. Cardinality(Holders(p)') = Cardinality(Holders(p)) + 1
    BY Zenon, <1>4, <1>6, FS_AddElement
  <1>8. \A q \in Pools : inUse'[q] = Cardinality(Holders(q)')
    BY <1>1, <1>5, <1>7 DEF PoolInv, ConnectionsAccounted
  <1>9. inUse' = [q \in Pools |-> inUse'[q]]
    BY Zenon, <1>1 DEF PoolInv
  <1>10. \A q, o \in Pools, v, u \in Workers :
           Holding(v, q)' # Nobody /\ Holding(v, q)' = Holding(u, o)' => v = u /\ q = o
    BY <1>1 DEF ConnectionsAccounted, OnlyHolder, Spare
  <1>11. \A q, o \in Pools : \A i \in 1..Len(lifo'[q]), j \in 1..Len(lifo'[o]) :
           lifo'[q][i] = lifo'[o][j] => q = o /\ i = j
    <2> TAKE q, o \in Pools
    <2> TAKE i \in 1..Len(lifo'[q]), j \in 1..Len(lifo'[o])
    <2>1. lifo'[q][i] = lifo[q][i] /\ lifo'[o][j] = lifo[o][j]
      BY <1>2, Zenon
    <2>2. i \in DOMAIN lifo[q] /\ j \in DOMAIN lifo[o]
      BY <1>1, <1>2 DEF PoolInv
    <2>3. lifo[q][i] = lifo[o][j] => q = o /\ i = j
      BY <1>1, <2>2 DEF ConnectionsAccounted
    <2> QED BY <2>1, <2>3, Zenon
  <1>12. \A q, o \in Pools, v \in Workers : \A i \in 1..Len(lifo'[o]) : Holding(v, q)' # lifo'[o][i]
    BY <1>1, <1>2, <1>3 DEF ConnectionsAccounted, PoolInv, OnlyHolder
  <1>13. \A q \in Pools, v \in Workers :
           Holding(v, q)' \in {c, Nobody} \/ Holding(v, q)' = Holding(v, q)
    BY Zenon DEF OnlyHolder
  <1>14. \A q \in Pools : \A i \in 1..Len(lifo'[q]) :
           \/ lifo'[q][i] = c /\ wire'[c].reply = NoReply /\ handler'[c] = Waiting
           \/ lifo'[q][i] # c /\ \E j \in 1..Len(lifo[q]) : lifo'[q][i] = lifo[q][j]
    BY Zenon, <1>2, <1>3
  <1>15. Quiet(c)'
    BY Zenon DEF Quiet
  <1>16. \/ Alive(c)'
         \/ \A q \in Pools : /\ \A v \in Workers : Holding(v, q)' # c
                             /\ \A i \in 1..Len(lifo'[q]) : lifo'[q][i] # c
    BY Zenon
  <1> QED BY ZenonT(60), <1>2, <1>8, <1>9, <1>10, <1>11, <1>12, <1>13, <1>14, <1>15, <1>16, Accounts

\* A connection that could not be written to is closed at once.
LEMMA Discards ==
    ASSUME SwiftInv, NEW p \in Pools, NEW c \in Conns, Spare(c, p, Len(lifo[p])), Pops(p),
           inUse' = inUse, Only(c), wire'[c] = Unused,
           \A v \in Workers, q \in Pools : Holding(v, q)' = Holding(v, q)
    PROVE  PoolInv'
  <1>1. PoolInv /\ ConnectionsAccounted
    BY Zenon DEF SwiftInv, PoolInv
  <1>2. /\ lifo' \in [Pools -> Seq(Conns)]
        /\ \A q \in Pools : \A i \in 1..Len(lifo'[q]) :
             /\ i \in 1..Len(lifo[q]) /\ lifo'[q][i] = lifo[q][i]
             /\ q = p => i # Len(lifo[p])
    BY Zenon, <1>1, PopsPool DEF PoolInv
  <1>3. \A q \in Pools : /\ \A i \in 1..Len(lifo'[q]) : lifo'[q][i] # c
                         /\ \A v \in Workers : Holding(v, q)' # c
    BY SMTT(60), <1>2 DEF Spare
  <1>5. \A q \in Pools : Holders(q)' = Holders(q)
    BY Zenon DEF Holders
  <1>8. \A q \in Pools : inUse'[q] = Cardinality(Holders(q)')
    BY Zenon, <1>1, <1>5 DEF ConnectionsAccounted
  <1>9. inUse' = [q \in Pools |-> inUse'[q]]
    BY Zenon, <1>1 DEF PoolInv
  <1>10. \A q, o \in Pools, v, u \in Workers :
           Holding(v, q)' # Nobody /\ Holding(v, q)' = Holding(u, o)' => v = u /\ q = o
    BY <1>1 DEF ConnectionsAccounted
  <1>11. \A q, o \in Pools : \A i \in 1..Len(lifo'[q]), j \in 1..Len(lifo'[o]) :
           lifo'[q][i] = lifo'[o][j] => q = o /\ i = j
    <2> TAKE q, o \in Pools
    <2> TAKE i \in 1..Len(lifo'[q]), j \in 1..Len(lifo'[o])
    <2>1. lifo'[q][i] = lifo[q][i] /\ lifo'[o][j] = lifo[o][j]
      BY <1>2, Zenon
    <2>2. i \in DOMAIN lifo[q] /\ j \in DOMAIN lifo[o]
      BY <1>1, <1>2 DEF PoolInv
    <2>3. lifo[q][i] = lifo[o][j] => q = o /\ i = j
      BY <1>1, <2>2 DEF ConnectionsAccounted
    <2> QED BY <2>1, <2>3, Zenon
  <1>12. \A q, o \in Pools, v \in Workers : \A i \in 1..Len(lifo'[o]) : Holding(v, q)' # lifo'[o][i]
    BY <1>1, <1>2 DEF ConnectionsAccounted, PoolInv
  <1>14. \A q \in Pools : \A i \in 1..Len(lifo'[q]) :
           \/ lifo'[q][i] = c /\ wire'[c].reply = NoReply /\ handler'[c] = Waiting
           \/ lifo'[q][i] # c /\ \E j \in 1..Len(lifo[q]) : lifo'[q][i] = lifo[q][j]
    BY Zenon, <1>2, <1>3
  <1>15. Quiet(c)'
    BY DEF Quiet, Unused, WireFields
  <1>13. \A q \in Pools, v \in Workers :
           Holding(v, q)' \in {c, Nobody} \/ Holding(v, q)' = Holding(v, q)
    BY Zenon
  <1>16. \/ Alive(c)'
         \/ \A q \in Pools : /\ \A v \in Workers : Holding(v, q)' # c
                             /\ \A i \in 1..Len(lifo'[q]) : lifo'[q][i] # c
    BY Zenon, <1>3
  <1> QED BY ZenonT(60), <1>2, <1>8, <1>9, <1>10, <1>11, <1>12, <1>13, <1>14, <1>15, <1>16, Accounts

\* A caller gives up its connection, which is closed or put on top of the pool.
LEMMA GivesUp ==
    ASSUME SwiftInv, NEW w \in Workers, NEW p \in Pools, NEW c \in Conns, c # Nobody,
           inUse' = [inUse EXCEPT ![p] = @ - 1],
           Only(c), DOMAIN wire'[c] = WireFields, wire'[c].reply = NoReply,
           Holding(w, p) = c, Holding(w, p)' = Nobody, OnlyHolder(w, p),
           \/ lifo' = lifo
           \/ /\ lifo' = [lifo EXCEPT ![p] = Append(@, c)]
              /\ Alive(c)' /\ handler'[c] = Waiting
    PROVE  PoolInv'
  <1>1. PoolInv /\ ConnectionsAccounted
    BY Zenon DEF SwiftInv, PoolInv
  <1>2. \A q \in Pools : DOMAIN lifo[q] = 1..Len(lifo[q])
    BY <1>1 DEF PoolInv
  <1>3. /\ lifo' \in [Pools -> Seq(Conns)]
        /\ \A q \in Pools : \A i \in 1..Len(lifo'[q]) :
             \/ i \in 1..Len(lifo[q]) /\ lifo'[q][i] = lifo[q][i]
             \/ /\ q = p /\ i = Len(lifo[q]) + 1 /\ lifo'[q][i] = c
                /\ Alive(c)' /\ handler'[c] = Waiting
    <2>1. CASE lifo' = lifo
      BY Zenon, <1>1, <2>1 DEF PoolInv
    <2>2. CASE lifo' = [lifo EXCEPT ![p] = Append(@, c)] /\ Alive(c)' /\ handler'[c] = Waiting
      <3>1. PICK s \in Seq(Conns) : s = lifo[p]
        BY Zenon, <1>1 DEF PoolInv
      <3>2. PICK t : t = Append(s, c)
        BY Zenon
      <3>3. /\ t \in Seq(Conns) /\ Len(t) = Len(s) + 1 /\ t[Len(s) + 1] = c
            /\ \A i \in 1..Len(s) : t[i] = s[i]
        BY <3>2
      <3>4. lifo' = [lifo EXCEPT ![p] = t] /\ lifo \in [Pools -> Seq(Conns)]
        BY Zenon, <1>1, <2>2, <3>1, <3>2 DEF PoolInv
      <3>5. lifo'[p] = t /\ \A q \in Pools \ {p} : lifo'[q] = lifo[q]
        BY Zenon, <3>4
      <3>6. \A i \in 1..Len(t) : i \in 1..Len(s) \/ i = Len(s) + 1
        BY <3>3
      <3> QED BY ZenonT(60), <2>2, <3>1, <3>3, <3>4, <3>5, <3>6
    <2> QED BY Zenon, <2>1, <2>2
  <1>4. \A q \in Pools : /\ \A i \in 1..Len(lifo[q]) : lifo[q][i] # c
                         /\ \A v \in Workers : Holding(v, q)' # c
    BY <1>1, <1>2 DEF ConnectionsAccounted, OnlyHolder
  <1>5. \A q \in Pools \ {p} : Holders(q)' = Holders(q)
    BY Zenon DEF Holders, OnlyHolder
  <1>6. Holders(p)' = Holders(p) \ {w} /\ w \in Holders(p)
    BY Zenon DEF Holders, OnlyHolder
  <1>7. IsFiniteSet(Holders(p))
    BY Zenon, SwiftAssumption, FS_Subset DEF Holders
  <1>8. Cardinality(Holders(p)') = Cardinality(Holders(p)) - 1
    BY ZenonT(60), <1>6, <1>7, FS_RemoveElement
  <1>9. inUse' = [q \in Pools |-> inUse'[q]] /\ \A q \in Pools : inUse'[q] = Cardinality(Holders(q)')
    BY SMTT(30), <1>1, <1>5, <1>8 DEF PoolInv, ConnectionsAccounted
  <1>10. \A q, o \in Pools, v, u \in Workers :
           Holding(v, q)' # Nobody /\ Holding(v, q)' = Holding(u, o)' => v = u /\ q = o
    BY <1>1 DEF ConnectionsAccounted, OnlyHolder
  <1>11. \A q, o \in Pools : \A i \in 1..Len(lifo'[q]), j \in 1..Len(lifo'[o]) :
           lifo'[q][i] = lifo'[o][j] => q = o /\ i = j
    BY <1>1, <1>2, <1>3, <1>4 DEF ConnectionsAccounted
  <1>12. \A q, o \in Pools, v \in Workers : \A i \in 1..Len(lifo'[o]) : Holding(v, q)' # lifo'[o][i]
    <2> TAKE q, o \in Pools, v \in Workers
    <2> TAKE i \in 1..Len(lifo'[o])
    <2>1. CASE i \in 1..Len(lifo[o]) /\ lifo'[o][i] = lifo[o][i]
      <3>1. Holding(v, q) # lifo[o][i]
        BY <1>1, <1>2, <2>1 DEF ConnectionsAccounted
      <3>2. lifo[o][i] \in Conns /\ Nobody \notin Conns
        BY <1>1, <2>1, SwiftAssumption DEF PoolInv, Nobody
      <3> QED BY ZenonT(60), <2>1, <3>1, <3>2 DEF OnlyHolder
    <2>2. CASE lifo'[o][i] = c
      BY Zenon, <1>4, <2>2
    <2> QED BY Zenon, <1>3, <2>1, <2>2
  <1>13. \A q \in Pools, v \in Workers :
           Holding(v, q)' \in {c, Nobody} \/ Holding(v, q)' = Holding(v, q)
    BY Zenon DEF OnlyHolder
  <1>14. \A q \in Pools : \A i \in 1..Len(lifo'[q]) :
           \/ lifo'[q][i] = c /\ wire'[c].reply = NoReply /\ handler'[c] = Waiting
           \/ lifo'[q][i] # c /\ \E j \in 1..Len(lifo[q]) : lifo'[q][i] = lifo[q][j]
    BY Zenon, <1>3, <1>4
  <1>15. Quiet(c)'
    BY Zenon DEF Quiet
  <1>16. \/ Alive(c)'
         \/ \A q \in Pools : /\ \A v \in Workers : Holding(v, q)' # c
                             /\ \A i \in 1..Len(lifo'[q]) : lifo'[q][i] # c
    BY Zenon, <1>3, <1>4
  <1> QED BY ZenonT(60), <1>3, <1>9, <1>10, <1>11, <1>12, <1>13, <1>14, <1>15, <1>16, Accounts

\* Nobody takes or gives up a connection.
LEMMA Keeps ==
    ASSUME SwiftInv, inUse' = inUse, lifo' = lifo,
           \A v \in Workers, q \in Pools : Holding(v, q)' = Holding(v, q),
           wire' = [d \in Conns |-> wire'[d]], handler' = [d \in Conns |-> handler'[d]],
           \A c \in Conns :
             \/ wire'[c] = wire[c] /\ handler'[c] = handler[c]
             \/ /\ Quiet(c)' /\ (Alive(c) => Alive(c)')
                /\ \/ handler[c] # Waiting
                   \/ /\ handler'[c] = Waiting
                      /\ wire[c].reply = NoReply => wire'[c].reply = NoReply
    PROVE  PoolInv'
  <1>1. PoolInv /\ ConnectionsAccounted
    BY Zenon DEF SwiftInv, PoolInv
  <1>2. \A c \in Conns : Quiet(c)' /\ (Alive(c) => Alive(c)')
    BY Zenon, <1>1 DEF PoolInv, Quiet, Alive
  <1>3. \A p \in Pools : lifo'[p] \in Seq(Conns) /\ DOMAIN lifo[p] = 1..Len(lifo[p])
    BY <1>1 DEF PoolInv
  <1>4. \A p \in Pools : \A i \in 1..Len(lifo'[p]) :
          /\ lifo[p][i] \in Conns /\ Alive(lifo[p][i])
          /\ handler[lifo[p][i]] = Waiting /\ wire[lifo[p][i]].reply = NoReply
    <2> TAKE p \in Pools
    <2> TAKE i \in 1..Len(lifo'[p])
    <2>1. i \in DOMAIN lifo[p] /\ lifo[p][i] \in Conns
      BY <1>3
    <2>2. Alive(lifo[p][i])
      BY Zenon, <1>1 DEF PoolInv
    <2>3. handler[lifo[p][i]] = Waiting /\ wire[lifo[p][i]].reply = NoReply
      BY Zenon, <1>1, <2>1 DEF ConnectionsAccounted
    <2> QED BY <2>1, <2>2, <2>3, Zenon
  <1>5. ASSUME NEW p \in Pools, NEW i \in 1..Len(lifo'[p])
        PROVE  /\ Alive(lifo[p][i])'
               /\ handler'[lifo'[p][i]] = Waiting /\ wire'[lifo'[p][i]].reply = NoReply
    <2>1. PICK c \in Conns : c = lifo[p][i] /\ c = lifo'[p][i]
      BY Zenon, <1>4
    <2>2. Alive(c)' /\ handler[c] = Waiting /\ wire[c].reply = NoReply
      BY <1>2, <1>4, <2>1
    <2>3. handler'[c] = Waiting /\ wire'[c].reply = NoReply
      BY Zenon, <2>2
    <2> QED BY Zenon, <2>1, <2>2, <2>3 DEF Alive
  <1>6. ASSUME NEW p \in Pools, NEW w \in Workers, Holding(w, p)' # Nobody
        PROVE  Alive(Holding(w, p))'
    <2>1. Sound(worker[w]) /\ Alive(Holding(w, p))
      BY Zenon, <1>6 DEF SwiftInv, PoolInv
    <2>2. Holding(w, p) \in Conns
      BY Zenon, <1>6, <2>1 DEF Holding, Sound, Shape
    <2> QED BY Zenon, <1>2, <2>1, <2>2 DEF Alive
  <1>7. \A p \in Pools : Holders(p)' = Holders(p)
    BY Zenon DEF Holders
  <1>8. ConnectionsAccounted'
    <2>1. \A p \in Pools : \A i \in DOMAIN lifo'[p] :
            handler'[lifo'[p][i]] = Waiting /\ wire'[lifo'[p][i]].reply = NoReply
      BY <1>3, <1>5
    <2>2. \A p \in Pools : inUse'[p] = Cardinality(Holders(p)')
      BY ZenonT(60), <1>1, <1>7 DEF ConnectionsAccounted
    <2>3. \A p, q \in Pools, v, w \in Workers :
            Holding(v, p)' # Nobody /\ Holding(v, p)' = Holding(w, q)' => v = w /\ p = q
      BY <1>1 DEF ConnectionsAccounted
    <2>4. \A p, q \in Pools, w \in Workers : \A i \in DOMAIN lifo'[q] : Holding(w, p)' # lifo'[q][i]
      BY <1>1 DEF ConnectionsAccounted
    <2>5. \A p, q \in Pools : \A i \in DOMAIN lifo'[p], j \in DOMAIN lifo'[q] :
            lifo'[p][i] = lifo'[q][j] => p = q /\ i = j
      BY <1>1 DEF ConnectionsAccounted
    <2> QED BY <2>1, <2>2, <2>3, <2>4, <2>5, ZenonT(60) DEF ConnectionsAccounted
  <1>9. /\ \A p \in Pools, w \in Workers : Holding(w, p)' # Nobody => Alive(Holding(w, p))'
        /\ \A p \in Pools : \A i \in 1..Len(lifo'[p]) : Alive(lifo[p][i])'
    BY Zenon, <1>5, <1>6
  <1>10. inUse' = [p \in Pools |-> inUse'[p]] /\ lifo' \in [Pools -> Seq(Conns)]
    BY Zenon, <1>1 DEF PoolInv
  <1> QED BY Zenon, <1>2, <1>8, <1>9, <1>10 DEF PoolInv

-----------------------------------------------------------------------------
\* The server's side.
LEMMA RepliesQuiet ==
    ASSUME PoolInv, NEW c \in Conns, NEW reply, Replies(c, reply)
    PROVE  /\ Only(c) /\ Quiet(c)' /\ (Alive(c) => Alive(c)')
  <1>1. /\ wire' = [wire EXCEPT ![c] = IF @.state = "closed" THEN Unused ELSE [@ EXCEPT !.reply = reply]]
        /\ handler' = [handler EXCEPT ![c] = Waiting]
        /\ wire = [d \in Conns |-> wire[d]] /\ handler = [d \in Conns |-> handler[d]]
        /\ DOMAIN wire[c] = WireFields
    BY Zenon DEF Replies, PoolInv, Quiet
  <1>2. Only(c) /\ handler'[c] = Waiting
    BY Zenon, <1>1 DEF Only
  <1>3. CASE wire[c].state = "closed"
    BY Zenon, <1>1, <1>2, <1>3 DEF Quiet, Alive, Unused, WireFields
  <1>4. CASE wire[c].state # "closed"
    <2>1. PICK x : x = [wire[c] EXCEPT !.reply = reply]
      BY Zenon
    <2>2. wire'[c] = x
      BY Zenon, <1>1, <1>4, <2>1
    <2>3. DOMAIN x = WireFields /\ x.state = wire[c].state
      BY Zenon, <1>1, <2>1 DEF WireFields
    <2> QED BY Zenon, <1>2, <2>2, <2>3 DEF Quiet, Alive
  <1> QED BY Zenon, <1>3, <1>4, <1>2

\* What a handler does with its connection: it replies, goes on, or panics.
LEMMA ServesAs ==
    ASSUME NEW c \in Conns, ServeHTTP(c)
    PROVE  \/ \E reply : Replies(c, reply)
           \/ \E h : handler' = [handler EXCEPT ![c] = h] /\ wire' = wire
           \/ /\ handler' = [handler EXCEPT ![c] = Waiting]
              /\ wire' = [wire EXCEPT ![c] = IF @.state = "closed" THEN Unused
                                             ELSE [@ EXCEPT !.state = "broken"]]
  <1>1. CASE Locates(c)
    BY <1>1, Zenon DEF Locates
  <1>2. CASE Chaos(c)
    BY <1>2, Zenon DEF Chaos
  <1>3. CASE DoDelete(c)
    BY <1>3, Zenon DEF DoDelete
  <1>4. CASE DoUnlink(c)
    BY <1>4, Zenon DEF DoUnlink
  <1>5. CASE DoGet(c)
    BY <1>5, ZenonT(60) DEF DoGet
  <1>6. CASE DoHead(c)
    BY <1>6, Zenon DEF DoHead
  <1>7. CASE DoPost(c)
    BY <1>7, Zenon DEF DoPost
  <1>8. CASE CreatesOrLocates(c)
    BY <1>8, Zenon DEF CreatesOrLocates
  <1>9. CASE PutsHeaders(c)
    BY <1>9, Zenon DEF PutsHeaders
  <1>10. CASE LocksObject(c)
    BY <1>10, Zenon DEF LocksObject
  <1>11. CASE ReadsBody(c)
    BY <1>11, Zenon DEF ReadsBody
  <1> QED BY SMTT(30), <1>1, <1>2, <1>3, <1>4, <1>5, <1>6, <1>7, <1>8, <1>9, <1>10, <1>11 DEF ServeHTTP

\* A handler of ramswift touches its own connection, and one that is not idle.
LEMMA ServesQuiet ==
    ASSUME PoolInv, NEW c \in Conns, ServeHTTP(c)
    PROVE  /\ Only(c) /\ Quiet(c)' /\ (Alive(c) => Alive(c)')
           /\ handler[c] # Waiting
  <1>0. /\ wire = [d \in Conns |-> wire[d]] /\ handler = [d \in Conns |-> handler[d]]
        /\ Quiet(c)
    BY Zenon DEF PoolInv
  <1>1. handler[c] # Waiting
    <2>1. \E step \in {"walk", "unlink", "fill", "read"} : Steps(c, step)
      BY Zenon DEF ServeHTTP, Locates, Chaos, DoDelete, DoUnlink, DoGet, DoHead, DoPost,
                   CreatesOrLocates, PutsHeaders, LocksObject, ReadsBody, Walked
    <2> QED BY <2>1 DEF Steps, Waiting
  <1>2. ASSUME NEW h, handler' = [handler EXCEPT ![c] = h], wire' = wire
        PROVE  Only(c) /\ Quiet(c)' /\ (Alive(c) => Alive(c)')
    BY ZenonT(60), <1>0, <1>1, <1>2 DEF Only, Quiet, Alive
  <1>3. \/ \E reply : Replies(c, reply)
        \/ \E h : handler' = [handler EXCEPT ![c] = h] /\ wire' = wire
        \/ /\ handler' = [handler EXCEPT ![c] = Waiting]
           /\ wire' = [wire EXCEPT ![c] = IF @.state = "closed" THEN Unused
                                          ELSE [@ EXCEPT !.state = "broken"]]
    BY Zenon, ServesAs
  <1>4. CASE /\ handler' = [handler EXCEPT ![c] = Waiting]
             /\ wire' = [wire EXCEPT ![c] = IF @.state = "closed" THEN Unused
                                            ELSE [@ EXCEPT !.state = "broken"]]
    <2>1. Only(c) /\ handler'[c] = Waiting
      BY Zenon, <1>0, <1>4 DEF Only
    <2>2. CASE wire[c].state = "closed"
      BY Zenon, <1>0, <1>1, <1>4, <2>1, <2>2 DEF Quiet, Alive, Unused, WireFields
    <2>3. CASE wire[c].state # "closed"
      <3>1. PICK x : x = [wire[c] EXCEPT !.state = "broken"]
        BY Zenon
      <3>2. wire'[c] = x
        BY Zenon, <1>0, <1>4, <2>3, <3>1
      <3>3. DOMAIN x = WireFields /\ x.state = "broken"
        BY Zenon, <1>0, <3>1 DEF WireFields, Quiet
      <3> QED BY Zenon, <1>1, <2>1, <3>2, <3>3 DEF Quiet, Alive
    <2> QED BY Zenon, <1>1, <2>1, <2>2, <2>3
  <1> QED BY Zenon, <1>1, <1>2, <1>3, <1>4, RepliesQuiet

\* A connection that breaks takes its reply along.
LEMMA BreaksQuiet ==
    ASSUME PoolInv, NEW c \in Conns, Breaks(c)
    PROVE  /\ Only(c) /\ Quiet(c)' /\ (Alive(c) => Alive(c)')
           /\ wire'[c].reply = NoReply
           /\ handler[c] # Waiting \/ handler'[c] = Waiting
  <1>0. /\ wire = [d \in Conns |-> wire[d]] /\ handler = [d \in Conns |-> handler[d]]
        /\ DOMAIN wire[c] = WireFields
    BY Zenon DEF PoolInv, Quiet
  <1>1. PICK x : x = [wire[c] EXCEPT !.state = "broken", !.reply = NoReply]
    BY Zenon
  <1>2. wire' = [wire EXCEPT ![c] = x]
    BY Zenon, <1>1 DEF Breaks
  <1>3. DOMAIN x = WireFields /\ x.state = "broken" /\ x.reply = NoReply
    BY Zenon, <1>0, <1>1 DEF WireFields
  <1>4. handler' = handler \/ handler' = [handler EXCEPT ![c] = Waiting]
    BY Zenon DEF Breaks
  <1> QED BY Zenon, <1>0, <1>2, <1>3, <1>4 DEF Only, Quiet, Alive

\* A step of ramswift or of the network keeps the invariant.
LEMMA ServerStep ==
    ASSUME SwiftInv, NEW c \in Conns, ServeHTTP(c) \/ Breaks(c), UNCHANGED <<worker, inUse, lifo>>
    PROVE  SwiftInv'
  <1>1. \A v \in Workers, q \in Pools : Holding(v, q)' = Holding(v, q)
    BY Zenon DEF Holding
  <1>2. PoolInv
    BY Zenon DEF SwiftInv
  <1>3. /\ Only(c) /\ Quiet(c)' /\ (Alive(c) => Alive(c)')
        /\ \/ handler[c] # Waiting
           \/ handler'[c] = Waiting /\ wire'[c].reply = NoReply
    BY Zenon, <1>2, ServesQuiet, BreaksQuiet
  <1>4. PoolInv'
    BY Zenon, <1>1, <1>3, Keeps DEF Only
  <1> QED BY Zenon, <1>4 DEF SwiftInv

-----------------------------------------------------------------------------
\* The caller's side.
Held(r, p) == IF p = "plain" THEN r.connection ELSE r.context.connection

\* Caller w goes on as u says.
Becomes(w, u) == worker' = [worker EXCEPT ![w] = u] /\ Sound(u)

\* What a step of one caller does to the connections callers hold.
LEMMA WorkerStep ==
    ASSUME SwiftInv, NEW w \in Workers, NEW u, Becomes(w, u)
    PROVE  /\ worker' = [v \in Workers |-> worker'[v]]
           /\ \A v \in Workers : Sound(worker'[v])
           /\ \A q \in Pools : Holding(w, q) = Held(worker[w], q) /\ Holding(w, q)' = Held(u, q)
           /\ \A v \in Workers \ {w}, q \in Pools : Holding(v, q)' = Holding(v, q)
  <1>1. worker = [v \in Workers |-> worker[v]] /\ \A v \in Workers : Sound(worker[v])
    BY Zenon DEF SwiftInv
  <1>2. worker'[w] = u /\ \A v \in Workers \ {w} : worker'[v] = worker[v]
    BY Zenon, <1>1 DEF Becomes
  <1>3. worker' = [v \in Workers |-> worker'[v]]
    BY Zenon, <1>1 DEF Becomes
  <1> QED BY Zenon, <1>1, <1>2, <1>3 DEF Holding, Held, Becomes

\* The other pool's connection, if there is one, is kept.
Apart(r, u, p) == \A q \in Pools \ {p} : Held(u, q) = Held(r, q)

\* It takes or gives up none but the one of pool p.
LEMMA ApartHolders ==
    ASSUME SwiftInv, NEW w \in Workers, NEW u, Becomes(w, u), NEW p \in Pools,
           Apart(worker[w], u, p)
    PROVE  OnlyHolder(w, p)
  <1>1. \A v \in Workers, q \in Pools : v # w \/ q # p => Holding(v, q)' = Holding(v, q)
    BY WorkerStep DEF Apart
  <1> QED BY Zenon, <1>1 DEF OnlyHolder

\* The value that stands for no connection is none.
LEMMA NobodyIsNoConnection == Nobody \notin Conns
  BY Zenon, SwiftAssumption DEF Nobody

\* A caller takes a connection and writes a request.
LEMMA WriterStep ==
    ASSUME SwiftInv, NEW w \in Workers, NEW u, Becomes(w, u), NEW p \in Pools,
           NEW req, NEW body, MayAcquire(p), Writes(p, req, body),
           Held(worker[w], p) = Nobody, Held(u, p) = Acquired(p), Apart(worker[w], u, p)
    PROVE  SwiftInv'
  <1>1. PICK c : c = Acquired(p)
    BY Zenon
  <1>2. PICK x : x = [Wire(p) EXCEPT !.body = body, !.ended = FALSE]
    BY Zenon
  <1>3. /\ Spare(c, p, Len(lifo[p]))
        /\ DOMAIN Wire(p) = WireFields /\ Wire(p).reply = NoReply
        /\ Wire(p).state \in {"open", "broken"}
    BY Zenon, <1>1, AcquiredSpare
  <1>4. c \in Conns /\ c # Nobody
    BY Zenon, <1>3, NobodyIsNoConnection DEF Spare
  <1>5. DOMAIN x = WireFields /\ x.reply = NoReply /\ x.state \in {"open", "broken"}
    BY Zenon, <1>2, <1>3 DEF WireFields
  <1>6. wire' = [wire EXCEPT ![c] = x] /\ \E h : handler' = handler \/ handler' = [handler EXCEPT ![c] = h]
    BY <1>1, <1>2, Zenon DEF Writes
  <1>7. wire = [d \in Conns |-> wire[d]] /\ handler = [d \in Conns |-> handler[d]]
    BY Zenon DEF SwiftInv, PoolInv
  <1>8. Only(c) /\ wire'[c] = x
    BY Zenon, <1>4, <1>6, <1>7 DEF Only
  <1>9. Alive(c)'
    BY Zenon, <1>5, <1>8 DEF Alive
  <1>10. Pops(p) /\ inUse' = [inUse EXCEPT ![p] = @ + 1]
    BY Zenon DEF Writes
  <1>11. Holding(w, p) = Nobody /\ Holding(w, p)' = c /\ OnlyHolder(w, p)
    BY ZenonT(60), <1>1, WorkerStep, ApartHolders
  <1>12. PoolInv'
    BY Zenon, <1>3, <1>4, <1>5, <1>8, <1>9, <1>10, <1>11, Grabs
  <1> QED BY Zenon, <1>12, WorkerStep DEF SwiftInv

\* The write fails: the connection is closed, and the caller has none.
LEMMA DiscardStep ==
    ASSUME SwiftInv, NEW w \in Workers, NEW u, Becomes(w, u), NEW p \in Pools,
           MayAcquire(p), Pops(p), wire' = [wire EXCEPT ![Acquired(p)] = Unused],
           UNCHANGED <<inUse, handler>>,
           \A q \in Pools : Held(u, q) = Held(worker[w], q)
    PROVE  SwiftInv'
  <1>1. PICK c : c = Acquired(p)
    BY Zenon
  <1>2. Spare(c, p, Len(lifo[p]))
    BY Zenon, <1>1, AcquiredSpare
  <1>3. c \in Conns
    BY Zenon, <1>2 DEF Spare
  <1>4. wire = [d \in Conns |-> wire[d]] /\ handler = [d \in Conns |-> handler[d]]
    BY Zenon DEF SwiftInv, PoolInv
  <1>5. Only(c) /\ wire'[c] = Unused
    BY Zenon, <1>1, <1>3, <1>4 DEF Only
  <1>6. \A v \in Workers, q \in Pools : Holding(v, q)' = Holding(v, q)
    BY WorkerStep
  <1>7. PoolInv'
    BY Zenon, <1>2, <1>3, <1>5, <1>6, Discards
  <1> QED BY Zenon, <1>7, WorkerStep DEF SwiftInv

\* A connection that was closed has no reply.
LEMMA HangupFields ==
    ASSUME NEW c, NEW x, DOMAIN x = WireFields
    PROVE  DOMAIN Hangup(c, x) = WireFields /\ Hangup(c, x).reply = NoReply
  <1>1. CASE handler[c] = Waiting
    BY Zenon, <1>1 DEF Hangup, Unused, WireFields
  <1>2. CASE handler[c] # Waiting
    <2>1. PICK y : y = [x EXCEPT !.state = "closed", !.reply = NoReply]
      BY Zenon
    <2>2. DOMAIN y = WireFields /\ y.reply = NoReply
      BY Zenon, <2>1 DEF WireFields
    <2> QED BY Zenon, <1>2, <2>1, <2>2 DEF Hangup
  <1> QED BY Zenon, <1>1, <1>2

\* A caller closes its connection and gives up its place in the pool.
LEMMA ReleaseStep ==
    ASSUME SwiftInv, NEW w \in Workers, NEW u, Becomes(w, u), NEW p \in Pools, NEW c,
           c = Held(worker[w], p), c # Nobody, Releases(c, p),
           Held(u, p) = Nobody, Apart(worker[w], u, p)
    PROVE  SwiftInv'
  <1>1. c \in Conns
    BY Zenon DEF SwiftInv, Sound, Shape, Held
  <1>2. /\ wire = [d \in Conns |-> wire[d]] /\ handler = [d \in Conns |-> handler[d]]
        /\ DOMAIN wire[c] = WireFields
    BY Zenon, <1>1 DEF SwiftInv, PoolInv, Quiet
  <1>3. PICK x : x = Hangup(c, wire[c])
    BY Zenon
  <1>4. DOMAIN x = WireFields /\ x.reply = NoReply
    BY Zenon, <1>2, <1>3, HangupFields
  <1>5. /\ wire' = [wire EXCEPT ![c] = x] /\ handler' = handler /\ lifo' = lifo
        /\ inUse' = [inUse EXCEPT ![p] = @ - 1]
    BY Zenon, <1>3 DEF Releases
  <1>6. Only(c) /\ wire'[c] = x
    BY Zenon, <1>1, <1>2, <1>5 DEF Only
  <1>7. Holding(w, p) = c /\ Holding(w, p)' = Nobody /\ OnlyHolder(w, p)
    BY Zenon, WorkerStep, ApartHolders
  <1>8. PoolInv'
    BY Zenon, <1>1, <1>4, <1>5, <1>6, <1>7, GivesUp
  <1> QED BY Zenon, <1>8, WorkerStep DEF SwiftInv

\* A caller that has read the whole reply puts its connection back.
LEMMA KeepsAliveStep ==
    ASSUME SwiftInv, NEW w \in Workers, NEW u, Becomes(w, u), NEW p \in Pools, NEW c, NEW left,
           c = Held(worker[w], p), c # Nobody, KeepsAlive(c, p, left), wire[c].reply # NoReply,
           Held(u, p) = Nobody, Apart(worker[w], u, p)
    PROVE  SwiftInv'
  <1>1. c \in Conns
    BY Zenon DEF SwiftInv, Sound, Shape, Held
  <1>2. /\ wire = [d \in Conns |-> wire[d]] /\ handler = [d \in Conns |-> handler[d]]
        /\ DOMAIN wire[c] = WireFields /\ handler[c] = Waiting
    BY Zenon, <1>1 DEF SwiftInv, PoolInv, Quiet
  <1>3. PICK x : x = [wire[c] EXCEPT !.reply = NoReply, !.left = left]
    BY Zenon
  <1>4. DOMAIN x = WireFields /\ x.reply = NoReply /\ x.state = wire[c].state
    BY Zenon, <1>2, <1>3 DEF WireFields
  <1>5. /\ wire' = [wire EXCEPT ![c] = x] /\ handler' = handler
        /\ lifo' = [lifo EXCEPT ![p] = Append(@, c)]
        /\ inUse' = [inUse EXCEPT ![p] = @ - 1]
    BY Zenon, <1>3 DEF KeepsAlive
  <1>6. Only(c) /\ wire'[c] = x
    BY Zenon, <1>1, <1>2, <1>5 DEF Only
  <1>7. Holding(w, p) = c /\ Holding(w, p)' = Nobody /\ OnlyHolder(w, p)
    BY Zenon, WorkerStep, ApartHolders
  <1>8. Alive(c)
    BY Zenon, <1>7 DEF SwiftInv, PoolInv
  <1>9. Alive(c)' /\ handler'[c] = Waiting
    BY ZenonT(60), <1>2, <1>4, <1>5, <1>6, <1>8 DEF Alive
  <1>10. PoolInv'
    BY Zenon, <1>1, <1>4, <1>5, <1>6, <1>7, <1>9, GivesUp
  <1> QED BY Zenon, <1>10, WorkerStep DEF SwiftInv

\* What has come back and whether the connection is in order stay as they are.
LEMMA StayStep ==
    ASSUME SwiftInv, NEW w \in Workers, NEW u, Becomes(w, u),
           UNCHANGED <<handler, inUse, lifo>>, wire' = [d \in Conns |-> wire'[d]],
           \A d \in Conns : \/ wire'[d] = wire[d]
                            \/ /\ DOMAIN wire'[d] = WireFields
                               /\ wire'[d].state = wire[d].state /\ wire'[d].reply = wire[d].reply,
           \A q \in Pools : Held(u, q) = Held(worker[w], q)
    PROVE  SwiftInv'
  <1>1. \A v \in Workers, q \in Pools : Holding(v, q)' = Holding(v, q)
    BY WorkerStep
  <1>2. PoolInv
    BY Zenon DEF SwiftInv
  <1>3. handler' = [d \in Conns |-> handler'[d]]
    BY Zenon, <1>2 DEF PoolInv
  <1>4. ASSUME NEW c \in Conns
        PROVE  \/ wire'[c] = wire[c] /\ handler'[c] = handler[c]
               \/ /\ Quiet(c)' /\ (Alive(c) => Alive(c)')
                  /\ \/ handler[c] # Waiting
                     \/ /\ handler'[c] = Waiting
                        /\ wire[c].reply = NoReply => wire'[c].reply = NoReply
    <2>1. Quiet(c)
      BY Zenon, <1>2 DEF PoolInv
    <2> QED BY Zenon, <2>1 DEF Quiet, Alive
  <1>5. PoolInv'
    BY ZenonT(60), <1>1, <1>3, <1>4, Keeps
  <1> QED BY Zenon, <1>5, WorkerStep DEF SwiftInv

-----------------------------------------------------------------------------
\* A call begins.
LEMMA BeginsSound ==
    ASSUME SwiftInv, NEW w \in Workers, Begins(w)
    PROVE  SwiftInv'
  <1>0. RetryLimit \in Nat
    BY Zenon, SwiftAssumption
  <1>1. PICK r : r = worker[w]
    BY Zenon
  <1>2. Sound(r) /\ r.pc = "idle" /\ r.plan # <<>>
    BY Zenon, <1>1 DEF Begins, SwiftInv
  <1>3. PICK S : r.plan \in Seq(S) /\ \A call \in S : WellFormed(call)
    BY Zenon, <1>2 DEF Sound, Shape, Planned
  <1>4. PICK call, plan : call = Head(r.plan) /\ plan = Tail(r.plan)
    BY Zenon
  <1>5. call \in S /\ plan \in Seq(S)
    BY <1>2, <1>3, <1>4
  <1>6. call.kind \in Calls /\ Planned(plan)
    BY Zenon, <1>3, <1>5 DEF Planned, WellFormed
  <1>7. PICK fresh : fresh = [Idle EXCEPT !.plan = plan, !.call = call]
    BY Zenon
  <1>8. /\ DOMAIN fresh = Fields /\ fresh.plan = plan /\ fresh.call = call /\ fresh.tries = 0
        /\ fresh.connection = Nobody /\ fresh.context = NoContext
    BY Zenon, <1>7 DEF Idle, Fields
  <1>9. DOMAIN fresh.context = ContextFields /\ fresh.context.connection = Nobody
    BY <1>8 DEF NoContext, ContextFields
  <1>10. Shape(fresh)
    BY <1>0, <1>6, <1>8, <1>9 DEF Shape
  <1>11. PICK u : u = CASE call.kind = "request" -> Asks(fresh, "send", call.req)
                        [] call.kind = "put"     -> Asks(fresh, "fetch", ObjectPut(call.to))
                        [] call.kind = "copy"    -> Asks(fresh, "send", ObjectContentLength(call.from))
                        [] call.kind = "format"  -> Asks(fresh, "send", AccountGet(call.account))
    BY Zenon
  <1>12. ObjectPut(call.to).method = "PUT" /\ ObjectContentLength(call.from).method = "HEAD"
    BY Zenon DEF ObjectPut, ObjectContentLength, Request
  <1>13. Sound(u) /\ u.connection = Nobody /\ u.context.connection = Nobody
    <2>1. CASE call.kind = "request"
      BY SMTT(30), <1>0, <1>8, <1>9, <1>10, <1>11, <2>1, AsksSound
    <2>2. CASE call.kind = "put"
      BY SMTT(30), <1>0, <1>8, <1>9, <1>10, <1>11, <1>12, <2>2, AsksSound
    <2>3. CASE call.kind = "copy"
      BY SMTT(30), <1>0, <1>8, <1>9, <1>10, <1>11, <1>12, <2>3, AsksSound
    <2>4. CASE call.kind = "format"
      BY SMTT(30), <1>0, <1>8, <1>9, <1>10, <1>11, <2>4, AsksSound
    <2> QED BY ZenonT(60), <1>6, <2>1, <2>2, <2>3, <2>4 DEF Calls
  <1>14. worker' = [worker EXCEPT ![w] = u]
    BY <1>1, <1>4, <1>7, <1>11, ZenonT(60) DEF Begins
  <1>15. \A q \in Pools : Held(u, q) = Held(worker[w], q)
    BY Zenon, <1>1, <1>2, <1>13 DEF Held, Sound, Placed
  <1>16. UNCHANGED <<wire, handler, inUse, lifo>>
    BY Zenon DEF Begins, serverVars
  <1>17. wire' = [d \in Conns |-> wire'[d]]
    BY Zenon, <1>16 DEF SwiftInv, PoolInv
  <1> QED BY ZenonT(60), <1>13, <1>14, <1>15, <1>16, <1>17, StayStep DEF Becomes

\* A request is sent, or cannot be.
LEMMA SendsSound ==
    ASSUME SwiftInv, NEW w \in Workers, Sends(w)
    PROVE  SwiftInv'
  <1>0. RetryLimit \in Nat /\ "plain" \in Pools
    BY Zenon, SwiftAssumption DEF Pools
  <1>1. PICK r : r = worker[w]
    OBVIOUS
  <1>2. Sound(r) /\ r.pc = "send" /\ MayAcquire("plain") /\ DOMAIN r = Fields
    BY Zenon, <1>1 DEF Sends, SwiftInv, Sound, Shape
  <1>3. CASE /\ Writes("plain", r.req, <<>>)
             /\ worker' = [worker EXCEPT ![w].pc = "await", ![w].connection = Acquired("plain")]
    <2>1. PICK c : c = Acquired("plain")
      BY Zenon
    <2>2. c \in Conns /\ c # Nobody
      BY Zenon, <1>0, <1>2, <2>1, AcquiredSpare, NobodyIsNoConnection DEF Spare
    <2>3. PICK u : u = [r EXCEPT !.pc = "await", !.connection = c]
      BY Zenon
    <2>4. worker' = [worker EXCEPT ![w] = u]
      BY Zenon, <1>1, <1>3, <2>1, <2>3 DEF SwiftInv
    <2>5. /\ DOMAIN u = Fields /\ u.pc = "await" /\ u.connection = c /\ u.context = r.context
          /\ u.plan = r.plan /\ u.tries = r.tries /\ u.call = r.call /\ u.req = r.req
      BY Zenon, <1>2, <2>3 DEF Fields
    <2>6. Shape(u)
      BY Zenon, <1>2, <2>2, <2>5 DEF Shape, Sound
    <2>7. Placed(u)
      BY Zenon, <1>2, <2>2, <2>5 DEF Placed, Sound
    <2>8. Held(r, "plain") = Nobody /\ Held(u, "plain") = c /\ Apart(r, u, "plain")
      BY Zenon, <1>2, <2>5 DEF Held, Apart, Sound, Placed
    <2> QED BY ZenonT(60), <1>0, <1>1, <1>2, <1>3, <2>1, <2>4, <2>6, <2>7, <2>8, WriterStep DEF Becomes, Sound
  <1>4. CASE /\ WriteFails("plain")
             /\ worker' = [worker EXCEPT ![w] = TriesAgain(r, "send", Fails("BadHTTPError"))]
    <2>1. PICK u : u = TriesAgain(r, "send", Fails("BadHTTPError"))
      BY Zenon
    <2>2. Answered(r)
      BY Zenon, <1>2 DEF Answered, Sound, Placed
    <2>3. Frees(u, r)
      BY Zenon, <1>0, <2>1, <2>2, TriesAgainSound
    <2>4. \A q \in Pools : Held(u, q) = Held(r, q)
      BY Zenon, <1>2, <2>3 DEF Held, Frees, Sound, Placed
    <2>5. Becomes(w, u)
      BY Zenon, <1>4, <2>1, <2>3 DEF Becomes, Frees
    <2> QED BY ZenonT(60), <1>0, <1>1, <1>2, <1>4, <2>4, <2>5, DiscardStep DEF WriteFails
  <1> QED BY Zenon, <1>1, <1>3, <1>4 DEF Sends

\* A reply is read, or cannot be.
LEMMA AwaitsSound ==
    ASSUME SwiftInv, NEW w \in Workers, Awaits(w)
    PROVE  SwiftInv'
  <1>0. RetryLimit \in Nat /\ "plain" \in Pools
    BY SwiftAssumption DEF Pools
  <1>1. PICK r : r = worker[w]
    OBVIOUS
  <1>2. Sound(r) /\ r.pc = "await" /\ DOMAIN r = Fields
    BY Zenon, <1>1 DEF Awaits, SwiftInv, Sound, Shape
  <1>3. PICK c : c = r.connection
    BY Zenon
  <1>4. c # Nobody /\ c = Held(worker[w], "plain")
    BY Zenon, <1>1, <1>2, <1>3 DEF Sound, Placed, Held
  <1>5. PICK done : done = [r EXCEPT !.connection = Nobody]
    BY Zenon
  <1>6. /\ DOMAIN done = Fields /\ done.connection = Nobody /\ done.context = r.context
        /\ done.plan = r.plan /\ done.tries = r.tries /\ done.call = r.call /\ done.req = r.req
    BY Zenon, <1>2, <1>5 DEF Fields
  <1>7. Shape(done)
    BY Zenon, <1>2, <1>6 DEF Shape, Sound
  <1>8. Answered(done)
    BY Zenon, <1>2, <1>6, <1>7 DEF Answered, Sound, Placed
  <1>9. ASSUME NEW u, Frees(u, done)
        PROVE  Sound(u) /\ Held(u, "plain") = Nobody /\ Apart(worker[w], u, "plain")
    BY Zenon, <1>1, <1>6, <1>9 DEF Held, Apart, Frees
  <1>10. CASE \E failed : /\ Releases(c, "plain")
                          /\ worker' = [worker EXCEPT ![w] = TriesAgain(done, "send", failed)]
    <2>1. PICK failed : /\ Releases(c, "plain")
                        /\ worker' = [worker EXCEPT ![w] = TriesAgain(done, "send", failed)]
      BY Zenon, <1>10
    <2>2. PICK u : u = TriesAgain(done, "send", failed)
      BY Zenon
    <2>3. Frees(u, done)
      BY Zenon, <1>0, <1>8, <2>2, TriesAgainSound
    <2>4. Becomes(w, u) /\ Held(u, "plain") = Nobody /\ Apart(worker[w], u, "plain")
      BY Zenon, <1>9, <2>1, <2>2, <2>3 DEF Becomes
    <2> QED BY Zenon, <1>0, <1>4, <2>1, <2>4, ReleaseStep
  <1>11. CASE \E data, left :
                /\ wire[c].reply # NoReply /\ KeepsAlive(c, "plain", left)
                /\ worker' = [worker EXCEPT ![w] = Continues(done, [err |-> Succeeded, data |-> data])]
    <2>1. PICK data, left :
            /\ wire[c].reply # NoReply /\ KeepsAlive(c, "plain", left)
            /\ worker' = [worker EXCEPT ![w] = Continues(done, [err |-> Succeeded, data |-> data])]
      BY Zenon, <1>11
    <2>2. PICK result : result = [err |-> Succeeded, data |-> data]
      BY Zenon
    <2>3. result.err = Succeeded
      BY Zenon, <2>2
    <2>4. PICK u : u = Continues(done, result)
      BY Zenon
    <2>5. Frees(u, done)
      BY ZenonT(60), <1>0, <1>8, <2>3, <2>4, ContinuesSound
    <2>6. Becomes(w, u) /\ Held(u, "plain") = Nobody /\ Apart(worker[w], u, "plain")
      BY ZenonT(60), <1>9, <2>1, <2>2, <2>4, <2>5 DEF Becomes
    <2> QED BY ZenonT(60), <1>0, <1>4, <2>1, <2>6, KeepsAliveStep
  <1> QED BY <1>1, <1>3, <1>5, <1>10, <1>11, ZenonT(60) DEF Awaits

\* The same call at another place, with another context.
Moved(u, r, pc, k) ==
    /\ DOMAIN u = Fields /\ u.pc = pc /\ u.context = k /\ u.connection = r.connection
    /\ u.plan = r.plan /\ u.tries = r.tries /\ u.call = r.call

\* A chunked PUT goes on with its connection, or with an error to be reported.
LEMMA MovedSound ==
    ASSUME NEW r, NEW pc, NEW k, NEW u, Shape(r), r.connection = Nobody,
           r.call.kind \in {"put", "copy"},
           DOMAIN k = ContextFields, k.connection \in Conns \cup {Nobody},
           \/ pc \in {"open", "chunk", "close", "closing"} /\ k.connection # Nobody
           \/ pc = "close" /\ k.err,
           Moved(u, r, pc, k)
    PROVE  Sound(u) /\ u.connection = Nobody /\ u.context = k
  <1>2. Shape(u)
    BY Zenon DEF Shape, Moved
  <1>3. Placed(u)
    BY Zenon DEF Placed, Moved
  <1> QED BY Zenon, <1>2, <1>3 DEF Sound, Moved

\* objectFetchChunkedPutContext() opens a chunked PUT, or fails to.
LEMMA FetchesContextSound ==
    ASSUME SwiftInv, NEW w \in Workers, FetchesContext(w)
    PROVE  SwiftInv'
  <1>0. RetryLimit \in Nat /\ "chunked" \in Pools
    BY Zenon, SwiftAssumption DEF Pools
  <1>1. PICK r : r = worker[w]
    OBVIOUS
  <1>2. Sound(r) /\ r.pc = "fetch" /\ MayAcquire("chunked") /\ DOMAIN r = Fields
    BY Zenon, <1>1 DEF FetchesContext, SwiftInv, Sound, Shape
  <1>3. /\ Shape(r) /\ r.connection = Nobody /\ r.context.connection = Nobody
        /\ r.call.kind \in {"put", "copy"} /\ r.req.method = "PUT"
    BY Zenon, <1>2 DEF Sound, Placed
  <1>4. CASE /\ Writes("chunked", r.req, <<>>)
             /\ worker' = [worker EXCEPT ![w].pc = "open",
                             ![w].context = [NoContext EXCEPT !.connection = Acquired("chunked"),
                                                              !.active = TRUE]]
    <2>1. PICK c : c = Acquired("chunked")
      BY Zenon
    <2>2. c \in Conns /\ c # Nobody
      BY Zenon, <1>0, <1>2, <2>1, AcquiredSpare, NobodyIsNoConnection DEF Spare
    <2>3. PICK k : k = [NoContext EXCEPT !.connection = c, !.active = TRUE]
      BY Zenon
    <2>4. DOMAIN k = ContextFields /\ k.connection = c
      BY Zenon, <2>3 DEF NoContext, ContextFields
    <2>5. PICK u : u = [r EXCEPT !.pc = "open", !.context = k]
      BY Zenon
    <2>6. worker' = [worker EXCEPT ![w] = u]
      BY ZenonT(60), <1>1, <1>4, <2>1, <2>3, <2>5 DEF SwiftInv
    <2>9. Moved(u, r, "open", k)
      BY ZenonT(60), <1>2, <2>5 DEF Moved, Fields
    <2>7. Sound(u) /\ u.connection = Nobody /\ u.context = k
      BY <1>3, <2>2, <2>4, <2>9, MovedSound
    <2>8. Held(r, "chunked") = Nobody /\ Held(u, "chunked") = c /\ Apart(r, u, "chunked")
      BY Zenon, <1>3, <2>4, <2>7 DEF Held, Apart, Pools
    <2> QED BY Zenon, <1>0, <1>1, <1>2, <1>4, <2>1, <2>6, <2>7, <2>8, WriterStep DEF Becomes
  <1>5. CASE /\ Pops("chunked") /\ wire' = [wire EXCEPT ![Acquired("chunked")] = Unused]
             /\ UNCHANGED <<inUse, handler>>
             /\ worker' = [worker EXCEPT ![w] = TriesAgain(r, "fetch", Fails("BadHTTPPutError"))]
    <2>1. PICK u : u = TriesAgain(r, "fetch", Fails("BadHTTPPutError"))
      BY Zenon
    <2>2. Frees(u, r)
      BY Zenon, <1>0, <1>3, <2>1, TriesAgainSound DEF Fresh
    <2>3. \A q \in Pools : Held(u, q) = Held(r, q)
      BY Zenon, <1>3, <2>2 DEF Held, Frees
    <2>4. Becomes(w, u)
      BY Zenon, <1>5, <2>1, <2>2 DEF Becomes, Frees
    <2> QED BY ZenonT(60), <1>0, <1>1, <1>2, <1>5, <2>3, <2>4, DiscardStep
  <1> QED BY Zenon, <1>1, <1>4, <1>5 DEF FetchesContext, WriteFails

\* The state of a caller that has a context.
LEMMA HasContext ==
    ASSUME SwiftInv, NEW w \in Workers, NEW r, r = worker[w],
           HasChunk(r) \/ Complete(r) \/ r.pc \in {"open", "closing"}
    PROVE  /\ Sound(r) /\ Shape(r) /\ r.connection = Nobody /\ r.call.kind \in {"put", "copy"}
           /\ DOMAIN r = Fields /\ DOMAIN r.context = ContextFields
           /\ r.context.connection \in Conns \cup {Nobody}
           /\ r.context.connection # Nobody \/ (r.pc = "close" /\ r.context.err)
           /\ r.pc \in {"open", "chunk", "close", "closing"}
           /\ HasChunk(r) => r.pc \in {"open", "chunk"}
  BY Zenon DEF SwiftInv, Sound, Shape, Placed, HasChunk, Complete

\* SendChunk() refuses a chunk of no bytes.
LEMMA RefusesChunkSound ==
    ASSUME SwiftInv, NEW w \in Workers, RefusesChunk(w)
    PROVE  SwiftInv'
  <1>0. RetryLimit \in Nat /\ "chunked" \in Pools
    BY SwiftAssumption DEF Pools
  <1>1. PICK r : r = worker[w]
    OBVIOUS
  <1>2. HasChunk(r)
    BY Zenon, <1>1 DEF RefusesChunk
  <1>3. /\ Shape(r) /\ r.connection = Nobody /\ r.call.kind \in {"put", "copy"}
        /\ DOMAIN r = Fields /\ DOMAIN r.context = ContextFields /\ r.context.connection # Nobody
    BY Zenon, <1>1, <1>2, HasContext
  <1>4. PICK c : c = r.context.connection
    BY Zenon
  <1>5. c # Nobody /\ c = Held(worker[w], "chunked") /\ Releases(c, "chunked")
    BY Zenon, <1>1, <1>3, <1>4 DEF Held, RefusesChunk
  <1>6. PICK k : k = [r.context EXCEPT !.err = TRUE, !.fatal = TRUE, !.connection = Nobody]
    BY Zenon
  <1>7. DOMAIN k = ContextFields /\ k.connection = Nobody /\ k.err /\ k.fatal
    BY Zenon, <1>3, <1>6 DEF ContextFields
  <1>8. PICK refused : refused = [r EXCEPT !.context = k]
    BY Zenon
  <1>9. refused = [r EXCEPT !.context.err = TRUE, !.context.fatal = TRUE, !.context.connection = Nobody]
    BY Zenon, <1>3, <1>6, <1>8 DEF Fields
  <1>10. /\ DOMAIN refused = Fields /\ refused.context = k /\ refused.connection = Nobody
         /\ refused.plan = r.plan /\ refused.tries = r.tries /\ refused.call = r.call
    BY Zenon, <1>3, <1>8 DEF Fields
  <1>11. Shape(refused)
    BY Zenon, <1>3, <1>7, <1>10 DEF Shape
  <1>12. ASSUME NEW u, Sound(u), u.connection = Nobody, u.context = k,
                worker' = [worker EXCEPT ![w] = u]
         PROVE  SwiftInv'
    <2>1. Held(u, "chunked") = Nobody /\ Apart(worker[w], u, "chunked")
      BY Zenon, <1>1, <1>3, <1>7, <1>12 DEF Held, Apart, Pools
    <2>2. Becomes(w, u)
      BY Zenon, <1>12 DEF Becomes
    <2> QED BY Zenon, <1>0, <1>5, <2>1, <2>2, ReleaseStep
  <1>13. CASE worker' = [worker EXCEPT ![w] = Returns(refused, Fails("BadHTTPPutError"))]
    <2>1. PICK u : u = Returns(refused, Fails("BadHTTPPutError"))
      BY Zenon
    <2>2. Sound(u) /\ u.connection = Nobody /\ u.context = k
      BY Zenon, <1>7, <1>10, <1>11, <2>1, ReturnsSound
    <2> QED BY Zenon, <1>12, <1>13, <2>1, <2>2
  <1>14. CASE worker' = [worker EXCEPT ![w] = [refused EXCEPT !.pc = "close"]]
    <2>1. PICK u : u = [refused EXCEPT !.pc = "close"]
      BY Zenon
    <2>2. Moved(u, refused, "close", k)
      BY Zenon, <1>10, <2>1 DEF Moved, Fields
    <2>3. Sound(u) /\ u.connection = Nobody /\ u.context = k
      BY SMTT(30), <1>3, <1>7, <1>10, <1>11, <2>2, MovedSound
    <2> QED BY Zenon, <1>12, <1>14, <2>1, <2>3
  <1> QED BY <1>1, <1>9, <1>13, <1>14, Zenon DEF RefusesChunk

\* SendChunk() sends a chunk, or remembers that it could not.
LEMMA SendsChunkSound ==
    ASSUME SwiftInv, NEW w \in Workers, SendsChunk(w)
    PROVE  SwiftInv'
  <1>1. PICK r : r = worker[w]
    OBVIOUS
  <1>2. HasChunk(r)
    BY Zenon, <1>1 DEF SendsChunk
  <1>3. /\ Shape(r) /\ r.connection = Nobody /\ r.call.kind \in {"put", "copy"}
        /\ DOMAIN r = Fields /\ DOMAIN r.context = ContextFields /\ r.context.connection # Nobody
        /\ r.context.connection \in Conns /\ r.pc \in {"open", "chunk"}
    BY Zenon, <1>1, <1>2, HasContext
  <1>4. PICK c : c = r.context.connection
    OBVIOUS
  <1>5. ASSUME NEW k, DOMAIN k = ContextFields, k.connection = c,
               worker' = [worker EXCEPT ![w] = [ChunkSent(r) EXCEPT !.context = k]]
        PROVE  \E u : Becomes(w, u) /\ \A q \in Pools : Held(u, q) = Held(worker[w], q)
    <2>1. PICK s : s = ChunkSent(r)
      BY Zenon
    <2>2. /\ DOMAIN s = Fields /\ s.connection = Nobody /\ s.plan = r.plan /\ s.tries = r.tries
          /\ s.call = r.call /\ s.pc \in {"open", "chunk"} /\ s.context = r.context
      BY Zenon, <1>3, <2>1 DEF ChunkSent, Fields
    <2>3. Shape(s)
      BY Zenon, <1>3, <2>2 DEF Shape
    <2>4. PICK u : u = [s EXCEPT !.context = k]
      BY Zenon
    <2>5. Moved(u, s, s.pc, k)
      BY Zenon, <2>2, <2>4 DEF Moved, Fields
    <2>6. Sound(u) /\ u.connection = Nobody /\ u.context = k
      BY <1>3, <1>4, <1>5, <2>2, <2>3, <2>5, MovedSound
    <2>7. Becomes(w, u)
      BY Zenon, <1>5, <2>1, <2>4, <2>6 DEF Becomes
    <2>8. \A q \in Pools : Held(u, q) = Held(worker[w], q)
      BY ZenonT(60), <1>1, <1>3, <1>4, <1>5, <2>6 DEF Held
    <2> QED BY Zenon, <2>7, <2>8
  <1>6. PICK k : k = Stashed(r)
    OBVIOUS
  <1>7. DOMAIN k = ContextFields /\ k.connection = c
    BY Zenon, <1>3, <1>4, <1>6 DEF Stashed, ContextFields
  <1>8. PICK e : e = [Stashed(r) EXCEPT !.err = TRUE]
    BY Zenon
  <1>9. DOMAIN e = ContextFields /\ e.connection = c
    BY Zenon, <1>6, <1>7, <1>8 DEF ContextFields
  <1>10. /\ \/ worker' = [worker EXCEPT ![w] = [ChunkSent(r) EXCEPT !.context = k]]
            \/ worker' = [worker EXCEPT ![w] = [ChunkSent(r) EXCEPT !.context = e]]
         /\ wire' = wire
            \/ wire' = [wire EXCEPT ![c].body = IF wire[c].state = "broken" THEN @ ELSE @ \o Buf(r)]
         /\ UNCHANGED <<handler, inUse, lifo>>
    BY <1>1, <1>4, <1>6, <1>8, Zenon DEF SendsChunk
  <1>11. PICK u : Becomes(w, u) /\ \A q \in Pools : Held(u, q) = Held(worker[w], q)
    BY Zenon, <1>5, <1>7, <1>9, <1>10
  <1>12. PoolInv /\ c \in Conns
    BY Zenon, <1>3, <1>4 DEF SwiftInv
  <1>13. wire = [d \in Conns |-> wire[d]] /\ DOMAIN wire[c] = WireFields
    BY Zenon, <1>12 DEF PoolInv, Quiet
  <1>14. /\ wire' = [d \in Conns |-> wire'[d]]
         /\ \A d \in Conns : \/ wire'[d] = wire[d]
                             \/ /\ DOMAIN wire'[d] = WireFields
                                /\ wire'[d].state = wire[d].state /\ wire'[d].reply = wire[d].reply
    <2>1. CASE wire' = wire
      BY Zenon, <1>13, <2>1
    <2>2. CASE wire' = [wire EXCEPT ![c].body = IF wire[c].state = "broken" THEN @ ELSE @ \o Buf(r)]
      <3>1. PICK b : b = IF wire[c].state = "broken" THEN wire[c].body ELSE wire[c].body \o Buf(r)
        BY Zenon
      <3>2. PICK x : x = [wire[c] EXCEPT !.body = b]
        BY Zenon
      <3>3. DOMAIN x = WireFields /\ x.state = wire[c].state /\ x.reply = wire[c].reply
        BY Zenon, <1>13, <3>2 DEF WireFields
      <3>4. wire' = [wire EXCEPT ![c] = x]
        BY Zenon, <2>2, <3>1, <3>2
      <3> QED BY Zenon, <1>12, <1>13, <3>3, <3>4
    <2> QED BY Zenon, <1>10, <2>1, <2>2
  <1> QED BY <1>10, <1>11, <1>14, StayStep

\* closeHelper() fails with the connection still held.
LEMMA CloseFailsStep ==
    ASSUME SwiftInv, NEW w \in Workers, NEW r, r = worker[w], NEW err,
           Shape(r), r.connection = Nobody, r.call.kind \in {"put", "copy"},
           worker' = [worker EXCEPT ![w] = CloseFails(r, err)],
           \/ r.context.connection # Nobody /\ Releases(r.context.connection, "chunked")
           \/ r.context.connection = Nobody /\ UNCHANGED <<wire, handler, inUse, lifo>>
    PROVE  SwiftInv'
  <1>0. RetryLimit \in Nat /\ "chunked" \in Pools
    BY Zenon, SwiftAssumption DEF Pools
  <1>1. PICK u : u = CloseFails(r, err)
    BY Zenon
  <1>2. Sound(u) /\ u.connection = Nobody /\ u.context.connection = Nobody
    BY Zenon, <1>0, <1>1, CloseFailsSound
  <1>3. Becomes(w, u)
    BY Zenon, <1>1, <1>2 DEF Becomes
  <1>4. CASE r.context.connection # Nobody /\ Releases(r.context.connection, "chunked")
    <2>1. PICK c : c = r.context.connection
      BY Zenon
    <2>2. /\ c = Held(worker[w], "chunked") /\ c # Nobody /\ Releases(c, "chunked")
          /\ Held(u, "chunked") = Nobody /\ Apart(worker[w], u, "chunked")
      BY ZenonT(60), <1>2, <1>4, <2>1 DEF Held, Apart, Pools
    <2> QED BY ZenonT(60), <1>0, <1>3, <2>2, ReleaseStep
  <1>5. CASE r.context.connection = Nobody /\ UNCHANGED <<wire, handler, inUse, lifo>>
    <2>1. \A q \in Pools : Held(u, q) = Held(worker[w], q)
      BY Zenon, <1>2, <1>5 DEF Held
    <2>2. wire' = [d \in Conns |-> wire'[d]] /\ \A d \in Conns : wire'[d] = wire[d]
      BY Zenon, <1>5 DEF SwiftInv, PoolInv
    <2> QED BY SMTT(30), <1>3, <1>5, <2>1, <2>2, StayStep
  <1> QED BY Zenon, <1>4, <1>5

\* closeHelper() ends the body, or finds that the PUT has failed already.
LEMMA ClosesSound ==
    ASSUME SwiftInv, NEW w \in Workers, Closes(w)
    PROVE  SwiftInv'
  <1>1. PICK r : r = worker[w]
    OBVIOUS
  <1>2. Complete(r)
    BY Zenon, <1>1 DEF Closes
  <1>3. /\ Shape(r) /\ r.connection = Nobody /\ r.call.kind \in {"put", "copy"}
        /\ DOMAIN r = Fields /\ DOMAIN r.context = ContextFields
        /\ r.context.connection \in Conns \cup {Nobody}
        /\ r.context.connection # Nobody \/ r.context.err
    BY ZenonT(60), <1>1, <1>2, HasContext
  <1>4. CASE ClosesFailed(w) /\ worker' = [worker EXCEPT ![w] = CloseFails(r, "BadHTTPPutError")]
    <2>1. \/ r.context.connection # Nobody /\ Releases(r.context.connection, "chunked")
          \/ r.context.connection = Nobody /\ UNCHANGED <<wire, handler, inUse, lifo>>
      BY Zenon, <1>1, <1>4 DEF ClosesFailed
    <2> QED BY ZenonT(60), <1>1, <1>3, <1>4, <2>1, CloseFailsStep
  <1>5. CASE /\ ~r.context.err /\ Releases(r.context.connection, "chunked")
             /\ worker' = [worker EXCEPT ![w] = CloseFails(r, "BadHTTPPutError")]
    BY ZenonT(60), <1>1, <1>3, <1>5, CloseFailsStep
  <1>6. CASE /\ ~r.context.err
             /\ wire' = [wire EXCEPT ![r.context.connection].ended =
                           wire[r.context.connection].state # "broken"]
             /\ worker' = [worker EXCEPT ![w].pc = "closing", ![w].context.active = FALSE]
             /\ UNCHANGED <<lifo, inUse, handler>>
    <2>1. PICK c \in Conns : c = r.context.connection
      BY Zenon, <1>3, <1>6
    <2>2. PICK k : k = [r.context EXCEPT !.active = FALSE]
      BY Zenon
    <2>3. DOMAIN k = ContextFields /\ k.connection = c
      BY ZenonT(60), <1>3, <2>1, <2>2 DEF ContextFields
    <2>4. PICK u : u = [r EXCEPT !.pc = "closing", !.context = k]
      BY Zenon
    <2>5. Moved(u, r, "closing", k)
      BY Zenon, <1>3, <2>4 DEF Moved, Fields
    <2>6. c # Nobody
      BY ZenonT(60), <1>3, <1>6, <2>1
    <2>7. Sound(u) /\ u.connection = Nobody /\ u.context = k
      BY SMTT(30), <1>3, <2>3, <2>5, <2>6, MovedSound
    <2>8. worker' = [worker EXCEPT ![w] = u]
      BY ZenonT(60), <1>1, <1>3, <1>6, <2>2, <2>4 DEF SwiftInv, Fields
    <2>9. \A q \in Pools : Held(u, q) = Held(worker[w], q)
      BY ZenonT(60), <1>1, <1>3, <2>1, <2>3, <2>7 DEF Held
    <2>10. PoolInv
      BY Zenon DEF SwiftInv
    <2>11. wire = [d \in Conns |-> wire[d]] /\ DOMAIN wire[c] = WireFields
      BY Zenon, <2>10 DEF PoolInv, Quiet
    <2>12. PICK x : x = [wire[c] EXCEPT !.ended = wire[c].state # "broken"]
      BY Zenon
    <2>13. DOMAIN x = WireFields /\ x.state = wire[c].state /\ x.reply = wire[c].reply
      BY Zenon, <2>11, <2>12 DEF WireFields
    <2>14. wire' = [wire EXCEPT ![c] = x]
      BY ZenonT(60), <1>6, <2>1, <2>12
    <2>15. /\ wire' = [d \in Conns |-> wire'[d]]
           /\ \A d \in Conns : \/ wire'[d] = wire[d]
                               \/ /\ DOMAIN wire'[d] = WireFields
                                  /\ wire'[d].state = wire[d].state /\ wire'[d].reply = wire[d].reply
      BY ZenonT(60), <2>11, <2>13, <2>14
    <2> QED BY ZenonT(60), <1>6, <2>7, <2>8, <2>9, <2>15, StayStep DEF Becomes
  <1> QED BY <1>1, <1>4, <1>5, <1>6, ZenonT(60) DEF Closes

\* closeHelper() reads the reply, or cannot.
LEMMA AwaitsCloseSound ==
    ASSUME SwiftInv, NEW w \in Workers, AwaitsClose(w)
    PROVE  SwiftInv'
  <1>0. "chunked" \in Pools
    BY Zenon DEF Pools
  <1>1. PICK r : r = worker[w]
    OBVIOUS
  <1>2. r.pc = "closing"
    BY Zenon, <1>1 DEF AwaitsClose
  <1>3. /\ Shape(r) /\ r.connection = Nobody /\ r.call.kind \in {"put", "copy"}
        /\ DOMAIN r = Fields /\ DOMAIN r.context = ContextFields
        /\ r.context.connection # Nobody
    BY Zenon, <1>1, <1>2, HasContext
  <1>4. CASE \E err : /\ Releases(r.context.connection, "chunked")
                      /\ worker' = [worker EXCEPT ![w] = CloseFails(r, err)]
    BY ZenonT(60), <1>1, <1>3, <1>4, CloseFailsStep
  <1>5. CASE \E data :
               /\ wire[r.context.connection].reply # NoReply
               /\ KeepsAlive(r.context.connection, "chunked", FALSE)
               /\ worker' = [worker EXCEPT ![w] = Returns(HasClosed(r), [err |-> Succeeded, data |-> data])]
    <2>1. PICK data :
            /\ wire[r.context.connection].reply # NoReply
            /\ KeepsAlive(r.context.connection, "chunked", FALSE)
            /\ worker' = [worker EXCEPT ![w] = Returns(HasClosed(r), [err |-> Succeeded, data |-> data])]
      BY Zenon, <1>5
    <2>2. PICK c : c = r.context.connection
      OBVIOUS
    <2>3. PICK h : h = HasClosed(r)
      OBVIOUS
    <2>4. /\ DOMAIN h = Fields /\ DOMAIN h.context = ContextFields /\ h.context.connection = Nobody
          /\ h.plan = r.plan /\ h.tries = r.tries /\ h.connection = Nobody
      BY ZenonT(60), <1>3, <2>3 DEF HasClosed, Fields, ContextFields
    <2>5. Shape(h)
      BY <1>3, <2>4 DEF Shape
    <2>6. PICK result : result = [err |-> Succeeded, data |-> data]
      BY Zenon
    <2>7. result.err = Succeeded
      BY <2>6
    <2>8. PICK u : u = Returns(h, result)
      OBVIOUS
    <2>9. Sound(u) /\ u.connection = Nobody /\ u.context = h.context
      BY Zenon, <2>4, <2>5, <2>7, <2>8, ReturnsSound
    <2>10. worker' = [worker EXCEPT ![w] = u]
      BY ZenonT(60), <2>1, <2>3, <2>6, <2>8
    <2>11. /\ c = Held(worker[w], "chunked") /\ c # Nobody /\ KeepsAlive(c, "chunked", FALSE)
           /\ wire[c].reply # NoReply
           /\ Held(u, "chunked") = Nobody /\ Apart(worker[w], u, "chunked")
      BY ZenonT(60), <1>1, <1>3, <2>1, <2>2, <2>4, <2>9 DEF Held, Apart, Pools
    <2> QED BY ZenonT(60), <1>0, <2>9, <2>10, <2>11, KeepsAliveStep DEF Becomes
  <1> QED BY <1>1, <1>4, <1>5, Zenon DEF AwaitsClose

\* retry() sends the chunks again on another connection, or fails to open one.
LEMMA ReopensSound ==
    ASSUME SwiftInv, NEW w \in Workers, Reopens(w)
    PROVE  SwiftInv'
  <1>0. "chunked" \in Pools
    BY DEF Pools
  <1>1. PICK r : r = worker[w]
    OBVIOUS
  <1>2. Sound(r) /\ r.pc = "reopen" /\ MayAcquire("chunked")
    BY Zenon, <1>1 DEF Reopens, SwiftInv
  <1>3. /\ Shape(r) /\ r.connection = Nobody /\ r.context.connection = Nobody
        /\ r.call.kind \in {"put", "copy"} /\ DOMAIN r = Fields /\ DOMAIN r.context = ContextFields
    BY Zenon, <1>2 DEF Sound, Placed, Shape
  <1>4. PICK c : c = Acquired("chunked")
    OBVIOUS
  <1>5. c \in Conns /\ c # Nobody
    BY SMTT(30), <1>0, <1>2, <1>4, AcquiredSpare, NobodyIsNoConnection DEF Spare
  <1>6. ASSUME NEW k, NEW u, NEW req, NEW body, DOMAIN k = ContextFields, k.connection = c,
               u = [r EXCEPT !.pc = "close", !.context = k], worker' = [worker EXCEPT ![w] = u],
               Writes("chunked", req, body)
        PROVE  SwiftInv'
    <2>1. Moved(u, r, "close", k)
      BY Zenon, <1>3, <1>6 DEF Moved, Fields
    <2>2. Sound(u) /\ u.connection = Nobody /\ u.context = k
      BY <1>3, <1>5, <1>6, <2>1, MovedSound
    <2>3. Held(r, "chunked") = Nobody /\ Held(u, "chunked") = c /\ Apart(r, u, "chunked")
      BY Zenon, <1>3, <1>6, <2>2 DEF Held, Apart, Pools
    <2> QED BY ZenonT(60), <1>0, <1>1, <1>2, <1>4, <1>6, <2>2, <2>3, WriterStep DEF Becomes
  <1>7. PICK opened : opened = [r EXCEPT !.pc = "close", !.context.connection = c,
                                         !.context.active = TRUE, !.context.err = FALSE]
    BY Zenon
  <1>8. PICK k : k = [r.context EXCEPT !.connection = c, !.active = TRUE, !.err = FALSE]
    BY Zenon
  <1>9. DOMAIN k = ContextFields /\ k.connection = c /\ opened = [r EXCEPT !.pc = "close", !.context = k]
    BY ZenonT(60), <1>3, <1>7, <1>8 DEF ContextFields, Fields
  <1>10. PICK e : e = [k EXCEPT !.err = TRUE]
    BY Zenon
  <1>11. /\ DOMAIN e = ContextFields /\ e.connection = c
         /\ [opened EXCEPT !.context.err = TRUE] = [r EXCEPT !.pc = "close", !.context = e]
    BY Zenon, <1>3, <1>9, <1>10 DEF ContextFields, Fields
  <1>12. \E req, body : Writes("chunked", req, body)
    BY Zenon DEF Reopens
  <1>13. \/ worker' = [worker EXCEPT ![w] = opened]
         \/ worker' = [worker EXCEPT ![w] = [opened EXCEPT !.context.err = TRUE]]
    BY <1>1, <1>4, <1>7, ZenonT(60) DEF Reopens
  <1> QED BY ZenonT(60), <1>6, <1>9, <1>11, <1>12, <1>13

\* objectCopy() asks for the next chunk of its source.
LEMMA CopiesChunkSound ==
    ASSUME SwiftInv, NEW w \in Workers, CopiesChunk(w)
    PROVE  SwiftInv'
  <1>0. RetryLimit \in Nat
    BY SwiftAssumption
  <1>1. PICK r : r = worker[w]
    OBVIOUS
  <1>2. r.pc = "open" /\ r.call.kind = "copy"
    BY Zenon, <1>1 DEF CopiesChunk
  <1>3. /\ Shape(r) /\ r.connection = Nobody /\ DOMAIN r = Fields /\ DOMAIN r.context = ContextFields
        /\ r.context.connection \in Conns \cup {Nobody} /\ r.context.connection # Nobody
    BY Zenon, <1>1, <1>2, HasContext
  <1>4. UNCHANGED <<wire, handler, inUse, lifo>>
    BY Zenon DEF CopiesChunk, serverVars
  <1>5. wire' = [d \in Conns |-> wire'[d]]
    BY <1>4 DEF SwiftInv, PoolInv
  <1>6. ASSUME NEW u, Sound(u), u.connection = Nobody, u.context = r.context,
               worker' = [worker EXCEPT ![w] = u]
        PROVE  SwiftInv'
    <2>1. \A q \in Pools : Held(u, q) = Held(worker[w], q)
      BY Zenon, <1>1, <1>3, <1>6 DEF Held
    <2> QED BY Zenon, <1>4, <1>5, <1>6, <2>1, StayStep DEF Becomes
  <1>7. CASE worker' = [worker EXCEPT ![w] = [r EXCEPT !.pc = "close"]]
    <2>1. PICK u : u = [r EXCEPT !.pc = "close"]
      BY Zenon
    <2>2. Moved(u, r, "close", r.context)
      BY Zenon, <1>3, <2>1 DEF Moved, Fields
    <2>3. Sound(u) /\ u.connection = Nobody /\ u.context = r.context
      BY <1>2, <1>3, <2>2, MovedSound
    <2> QED BY Zenon, <1>6, <1>7, <2>1, <2>3
  <1>8. CASE \E req, n : /\ req.method = "GET"
                         /\ worker' = [worker EXCEPT ![w] = [Asks(r, "send", req) EXCEPT !.position = n]]
    <2>1. PICK req, n : /\ req.method = "GET"
                        /\ worker' = [worker EXCEPT ![w] = [Asks(r, "send", req) EXCEPT !.position = n]]
      BY Zenon, <1>8
    <2>2. PICK a : a = Asks(r, "send", req)
      OBVIOUS
    <2>3. Sound(a) /\ a.connection = Nobody /\ a.context = r.context
      BY ZenonT(60), <1>0, <1>2, <1>3, <2>1, <2>2, AsksSound
    <2>4. PICK u : u = [a EXCEPT !.position = n]
      BY Zenon
    <2>5. Sound(u) /\ u.connection = Nobody /\ u.context = r.context
      BY <2>3, <2>4, TodoSound DEF Sound
    <2> QED BY Zenon, <1>6, <2>1, <2>2, <2>4, <2>5
  <1>9. \/ worker' = [worker EXCEPT ![w] = [r EXCEPT !.pc = "close"]]
        \/ \E req, n : /\ req.method = "GET"
                       /\ worker' = [worker EXCEPT ![w] = [Asks(r, "send", req) EXCEPT !.position = n]]
    <2>1. PICK rest : rest = r.size - r.position
      BY Zenon
    <2>2. PICK n : worker' = [worker EXCEPT ![w] =
                     IF n = 0 THEN [r EXCEPT !.pc = "close"]
                     ELSE [Asks(r, "send", IF n > rest THEN Tails(r.call.from, rest, n)
                                           ELSE ObjectGet(r.call.from, r.position, n))
                             EXCEPT !.position = @ + Min({n, rest})]]
      BY <1>1, <2>1, Zenon DEF CopiesChunk
    <2>3. PICK req : req = IF n > rest THEN Tails(r.call.from, rest, n)
                           ELSE ObjectGet(r.call.from, r.position, n)
      BY Zenon
    <2>4. req.method = "GET"
      BY Zenon, <2>3 DEF Tails, ObjectTail, ObjectGet, Request
    <2>5. PICK a : a = Asks(r, "send", req)
      OBVIOUS
    <2>6. PICK m : m = a.position + Min({n, rest})
      BY Zenon
    <2>7. CASE n = 0
      BY Zenon, <2>2, <2>7
    <2>8. CASE n # 0
      <3>1. worker' = [worker EXCEPT ![w] = [a EXCEPT !.position = @ + Min({n, rest})]]
        BY <2>2, <2>3, <2>5, <2>8, Zenon
      <3>2. [a EXCEPT !.position = @ + Min({n, rest})] = [a EXCEPT !.position = m]
        BY Zenon, <2>6
      <3> QED BY <2>4, <2>5, <3>1, <3>2, Zenon
    <2> QED BY Zenon, <2>7, <2>8
  <1> QED BY ZenonT(60), <1>7, <1>8, <1>9

-----------------------------------------------------------------------------
\* The invariant holds before the first call.
LEMMA SwiftInit == Init => SwiftInv
  <1> SUFFICES ASSUME Init PROVE SwiftInv
    BY Zenon
  <1>0. RetryLimit \in Nat
    BY Zenon, SwiftAssumption
  <1>1. PICK s \in Starts : worker = [w \in Workers |-> [Idle EXCEPT !.plan = s.plan[w]]]
    BY Zenon DEF Init
  <1>2. /\ wire = [c \in Conns |-> Unused] /\ handler = [c \in Conns |-> Waiting]
        /\ inUse = [p \in Pools |-> 0] /\ lifo = [p \in Pools |-> <<>>]
    BY Zenon DEF Init
  <1>3. ASSUME NEW w \in Workers
        PROVE  /\ Sound(worker[w]) /\ worker[w].connection = Nobody
               /\ worker[w].context.connection = Nobody
    <2>1. PICK u : u = [Idle EXCEPT !.plan = s.plan[w]]
      BY Zenon
    <2>2. /\ DOMAIN u = Fields /\ u.pc = "idle" /\ u.plan = s.plan[w] /\ u.tries = 0
          /\ u.connection = Nobody /\ u.context = NoContext /\ u.call = [kind |-> "none"]
      BY Zenon, <2>1 DEF Idle, Fields
    <2>3. /\ DOMAIN u.context = ContextFields /\ u.context.connection = Nobody
          /\ u.call.kind = "none"
      BY <2>2 DEF NoContext, ContextFields
    <2>4. Planned(u.plan)
      <3>1. PICK S : S = {call \in Range(s.plan[w]) : WellFormed(call)}
        BY Zenon
      <3>2. s.plan[w] \in Seq(S)
        BY <3>1, SwiftAssumption, Zenon
      <3>3. \A call \in S : WellFormed(call)
        BY <3>1, Zenon
      <3> QED BY <2>2, <3>2, <3>3, Zenon DEF Planned
    <2>5. Shape(u)
      BY <1>0, <2>2, <2>3, <2>4 DEF Shape
    <2>6. Placed(u)
      BY Zenon, <2>2, <2>3 DEF Placed
    <2> QED BY ZenonT(60), <1>1, <2>1, <2>2, <2>3, <2>5, <2>6 DEF Sound
  <1>4. \A p \in Pools, w \in Workers : Holding(w, p) = Nobody
    BY Zenon, <1>3 DEF Holding
  <1>5. \A p \in Pools : Holders(p) = {}
    BY Zenon, <1>4 DEF Holders
  <1>6. \A p \in Pools : lifo[p] = <<>> /\ DOMAIN lifo[p] = {} /\ 1..Len(lifo[p]) = {}
    BY <1>2
  <1>7. \A p \in Pools : inUse[p] = Cardinality(Holders(p))
    BY Zenon, <1>2, <1>5, FS_EmptySet
  <1>8. ConnectionsAccounted
    BY Zenon, <1>4, <1>6, <1>7 DEF ConnectionsAccounted
  <1>9. \A c \in Conns : Quiet(c)
    BY Zenon, <1>2 DEF Quiet, Unused, WireFields
  <1>10. lifo \in [Pools -> Seq(Conns)]
    BY <1>2
  <1>11. PoolInv
    BY ZenonT(60), <1>2, <1>4, <1>6, <1>8, <1>9, <1>10 DEF PoolInv
  <1> QED BY Zenon, <1>1, <1>3, <1>11 DEF SwiftInv

\* Every step of a caller, of ramswift and of the network keeps the invariant.
LEMMA SwiftNext == SwiftInv /\ [Next]_vars => SwiftInv'
  <1> SUFFICES ASSUME SwiftInv, [Next]_vars PROVE SwiftInv'
    BY Zenon
  <1>1. CASE UNCHANGED <<wire, handler, worker, inUse, lifo>>
    <2>1. \A v \in Workers, q \in Pools : Holding(v, q)' = Holding(v, q)
      BY Zenon, <1>1 DEF Holding
    <2>2. wire' = [d \in Conns |-> wire'[d]] /\ handler' = [d \in Conns |-> handler'[d]]
      BY Zenon, <1>1 DEF SwiftInv, PoolInv
    <2>3. PoolInv'
      BY Zenon, <1>1, <2>1, <2>2, Keeps
    <2> QED BY Zenon, <1>1, <2>3 DEF SwiftInv
  <1>2. ASSUME NEW w \in Workers, Begins(w) \/ Client(w) PROVE SwiftInv'
    BY SMTT(30), <1>2, BeginsSound, SendsSound, AwaitsSound, FetchesContextSound, RefusesChunkSound,
       SendsChunkSound, ClosesSound, AwaitsCloseSound, ReopensSound, CopiesChunkSound DEF Client
  <1>3. ASSUME NEW c \in Conns, ServeHTTP(c) \/ Breaks(c), UNCHANGED <<worker, inUse, lifo>>
        PROVE  SwiftInv'
    BY Zenon, <1>3, ServerStep
  <1>4. CASE (UpdateConf \/ Reloads) /\ UNCHANGED <<worker, inUse, lifo>>
    <2>1. UNCHANGED <<wire, handler>>
      BY Zenon, <1>4 DEF UpdateConf, Reloads, DeletesAccount, CreatesAccount, ConfUpdated
    <2> QED BY Zenon, <1>1, <1>4, <2>1
  <1>5. CASE UNCHANGED vars
    BY Zenon, <1>1, <1>5 DEF vars, serverVars
  <1> QED BY Zenon, <1>2, <1>3, <1>4, <1>5 DEF Next

\* The invariant holds in every state.
LEMMA SwiftSafe == Spec => []SwiftInv
  BY SwiftInit, SwiftNext, PTL DEF Spec

\* The two pools of swiftclient count the connections that callers hold, no
\* connection is held or pooled twice, and a pooled one is idle, for any number of
\* callers and connections, whatever requests fail, connections break and chunks are
\* refused.
THEOREM ConnectionsGoBack == Spec => []ConnectionsAccounted
  <1>1. SwiftInv => ConnectionsAccounted
    BY Zenon DEF SwiftInv, PoolInv
  <1> QED BY <1>1, SwiftSafe, PTL

\* RequestWithRetry() and Close() return an error only after retryLimit + 1 tries,
\* and never try more often, for any limit.
THEOREM TriesAreUsedUp == Spec => []GivesUpLast
  <1>1. SwiftInv => GivesUpLast
    <2> SUFFICES ASSUME SwiftInv PROVE GivesUpLast
      BY Zenon
    <2>0. RetryLimit \in Nat
      BY SwiftAssumption
    <2>1. ASSUME NEW w \in Workers
          PROVE  /\ worker[w].tries <= RetryLimit + 1
                 /\ ~Busy(w) /\ worker[w].call.kind # "none" => Settled(worker[w])
      <3>1. Sound(worker[w])
        BY Zenon DEF SwiftInv
      <3>2. worker[w].tries <= RetryLimit + 1
        BY <2>0, <3>1 DEF Sound, Shape
      <3> QED BY Zenon, <3>1, <3>2 DEF Sound, Placed, Busy
    <2> QED BY Zenon, <2>1 DEF GivesUpLast, Settled
  <1> QED BY <1>1, SwiftSafe, PTL
==============================================================================
