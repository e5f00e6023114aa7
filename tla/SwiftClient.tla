---------------------------- MODULE SwiftClient -----------------------------
(***************************************************************************)
(* The requests of swiftclient (account.go, container.go, object.go) with  *)
(* their retries (retry.go), composed with RamSwift: callers that send     *)
(* simple requests, PUT objects in chunks, copy objects, or reformat an    *)
(* account (mkproxyfs/api.go).                                             *)
(*                                                                         *)
(* A simple request takes a connection of the pool, writes the request,    *)
(* reads status and headers, and gives the connection back; a connection   *)
(* that failed is closed.  Whoever has to wait for a connection waits here *)
(* until there is a slot; ConnectionPool models how.  A write to a broken  *)
(* connection fails or is noticed later; a read from one always fails.     *)
(***************************************************************************)
EXTENDS RamSwift

CONSTANTS
    Workers,      \* goroutines that call swiftclient
    Starts,       \* what the server has stored at first, the calls that will
                  \* be made, a sequence for each worker, and SIGHUPs to come
    RetryLimit,   \* retryLimit and retryLimitObject
    PoolSize,     \* capacity of either pool
    CopySizes     \* what BytesRemaining() of a ChunkedCopyContext may answer

\* The calls a caller may plan: a chunked PUT is of an object, with a list of
\* chunks.
Calls == {"request", "put", "copy", "format"}

WellFormed(call) ==
    /\ call.kind \in Calls
    /\ call.kind = "put" => Len(call.to) = Object /\ call.chunks \in Seq(Range(call.chunks))

\* Connections are numbered, and every caller plans a list of such calls.
ASSUME SwiftAssumption ==
    /\ IsFiniteSet(Workers)
    /\ Conns \subseteq Nat \ {0}
    /\ RetryLimit \in Nat
    /\ \A s \in Starts : \A w \in Workers :
         s.plan[w] \in Seq({call \in Range(s.plan[w]) : WellFormed(call)})

VARIABLES
    worker,       \* the caller's call and where it is
    inUse, lifo   \* the two pools

vars == <<serverVars, worker, inUse, lifo>>

Pools == {"chunked", "plain"}
Succeeded == "ok"

\* The connection, whether it is used for a PUT that was neither completed nor
\* given up, the error of a chunk that was not sent, and bytesPutTree.
NoContext == [connection |-> Nobody, active |-> FALSE, err |-> FALSE, fatal |-> FALSE,
              bytesPut |-> <<>>]

\* torn is history: objectCopy() has ignored the error of a GET.
Idle == [pc |-> "idle", call |-> [kind |-> "none"], plan |-> <<>>, req |-> <<>>, tries |-> 0,
         connection |-> Nobody, context |-> NoContext, closed |-> FALSE, result |-> <<>>,
         size |-> 0, position |-> 0, todo |-> <<>>, torn |-> FALSE]

\* Mutant: one try less.
TriesLess(r) == r.tries < RetryLimit

\* RequestWithRetry(): every request declares every error retriable.
MayRetry(r) == r.tries <= RetryLimit

\* httpStatusIsError().
FsErr(status) ==
    CASE status \in 200..299    -> Succeeded
      [] status \in {401, 403}  -> "NotPermError"
      [] status = 404           -> "NotFoundError"
      [] status = 409           -> "NotEmptyError"
      [] OTHER                  -> "NotImplementedError"

\* Byte sequences one behind the other, and a set as a list without duplicates.
Concat(seqs) ==
    LET upto[i \in 0..Len(seqs)] == IF i = 0 THEN <<>> ELSE upto[i - 1] \o seqs[i]
    IN  upto[Len(seqs)]

InSomeOrder(S) == CHOOSE s \in [1..Cardinality(S) -> S] : IsInjective(s)

Fails(err) == [err |-> err, data |-> <<>>]

-----------------------------------------------------------------------------
\* What a caller does when a request, or a PUT, has returned.
Returns(r, result) == [r EXCEPT !.pc = "idle", !.result = result]

Asks(r, pc, req) == [r EXCEPT !.pc = pc, !.req = req, !.tries = 1]

\* A request, and what the function that makes it does with the payload of the
\* reply: ignore it, read it as lines, or read it as bytes.
Request(method, path, arg, reads) == [method |-> method, path |-> path, arg |-> arg, reads |-> reads]

AccountDelete(a) == Request("DELETE", <<a>>, "absent", "nothing")
AccountGet(a) == Request("GET", <<a>>, "absent", "lines")
AccountHead(a) == Request("HEAD", <<a>>, "absent", "nothing")
AccountPost(a, header) == Request("POST", <<a>>, header, "nothing")
AccountPut(a, header) == Request("PUT", <<a>>, header, "nothing")

ContainerDelete(a, c) == Request("DELETE", <<a, c>>, "absent", "nothing")
ContainerGet(a, c) == Request("GET", <<a, c>>, "absent", "lines")
ContainerHead(a, c) == Request("HEAD", <<a, c>>, "absent", "nothing")
ContainerPost(a, c, header) == Request("POST", <<a, c>>, header, "nothing")
ContainerPut(a, c, header) == Request("PUT", <<a, c>>, header, "nothing")

\* objectContentLength() takes the length from the headers.
ObjectContentLength(path) == Request("HEAD", path, "absent", "bytes")
ObjectHead(path) == Request("HEAD", path, "absent", "nothing")
ObjectDeleteSync(path) == Request("DELETE", path, "absent", "nothing")
ObjectGet(path, offset, length) ==
    Request("GET", path, [start |-> offset, stop |-> offset + length - 1], "bytes")
ObjectLoad(path) == Request("GET", path, [whole |-> TRUE], "bytes")
ObjectTail(path, length) == Request("GET", path, [last |-> length], "bytes")
ObjectPut(path) == Request("PUT", path, "absent", "nothing")

\* Format(): the next request, if there is one left.
FormatsNext(r) ==
    IF r.todo = <<>> THEN Returns(r, [err |-> Succeeded, data |-> <<>>])
    ELSE [Asks(r, "send", Head(r.todo)) EXCEPT !.todo = Tail(@)]

\* Mutant: the containers are emptied and left.
ClearsObjects(account, names) == [i \in DOMAIN names |-> ContainerGet(account, names[i])]

Clears(account, names) ==
    Concat([i \in DOMAIN names |->
                  <<ContainerGet(account, names[i]), ContainerDelete(account, names[i])>>])

\* Format() with the result of AccountGet(), ContainerGet() or a DELETE.  An
\* account that is not found is empty.  Only ModeReformat gets past an account
\* that is not.
Formats(r, result) ==
    LET account == r.call.account
        names == InSomeOrder(result.data)
        objects == [i \in DOMAIN names |-> ObjectDeleteSync(Append(r.req.path, names[i]))]
        listed == r.req = AccountGet(account)
    IN
    CASE listed /\ result.err = "NotFoundError" -> FormatsNext(r)
      [] result.err # Succeeded /\ ~(listed /\ result.err = "NotFoundError") -> Returns(r, result)
      [] result.err = Succeeded /\ listed ->
           IF result.data = {} \/ r.call.mode = "reformat"
             THEN FormatsNext([r EXCEPT !.todo = Clears(account, names)])
             ELSE Returns(r, Fails(IF r.call.mode = "new" THEN "not empty" ELSE Succeeded))
      [] result.err = Succeeded /\ ~listed /\ r.req.reads = "lines" ->
           FormatsNext([r EXCEPT !.todo = objects \o @])
      [] OTHER -> FormatsNext(r)

\* objectCopy() with the result of objectContentLengthWithRetry() or of a GET,
\* whose error is ignored: whatever bytes it returned are the next chunk.
Copies(r, result) ==
    CASE r.req.method = "HEAD" /\ result.err = Succeeded ->
           [Asks(r, "fetch", ObjectPut(r.call.to)) EXCEPT !.size = result.data]
      [] r.req.method = "GET" ->
           [r EXCEPT !.pc = "chunk", !.todo = <<result.data>>, !.torn = @ \/ result.err # Succeeded]
      [] OTHER -> Returns(r, result)

Continues(r, result) ==
    CASE r.call.kind = "format" -> Formats(r, result)
      [] r.call.kind = "copy" -> Copies(r, result)
      [] OTHER -> Returns(r, result)

\* A try has failed: the next one, from pc, or what this one has returned.
TriesAgain(r, pc, failed) ==
    IF MayRetry(r) THEN [r EXCEPT !.pc = pc, !.tries = @ + 1] ELSE Continues(r, failed)

-----------------------------------------------------------------------------
\* acquireChunkedConnection() and acquireNonChunkedConnection(): the connection
\* that was released last, or a new one.
Unopened == {c \in Conns : wire[c] = Unused}

MayAcquire(p) == inUse[p] < PoolSize /\ (lifo[p] # <<>> \/ Unopened # {})
Acquired(p) == IF lifo[p] # <<>> THEN lifo[p][Len(lifo[p])] ELSE Min(Unopened)
Wire(p) == IF lifo[p] # <<>> THEN wire[Acquired(p)] ELSE [Unused EXCEPT !.state = "open"]
Pops(p) == lifo' = [lifo EXCEPT ![p] = IF @ = <<>> THEN @ ELSE SubSeq(@, 1, Len(@) - 1)]

\* releaseChunkedConnection() and releaseNonChunkedConnection().
Hangup(c, x) == IF handler[c] = Waiting THEN Unused ELSE [x EXCEPT !.state = "closed", !.reply = NoReply]

Releases(c, p) ==
    /\ wire' = [wire EXCEPT ![c] = Hangup(c, @)]
    /\ inUse' = [inUse EXCEPT ![p] = @ - 1]
    /\ UNCHANGED <<lifo, handler>>

KeepsAlive(c, p, left) ==
    /\ wire' = [wire EXCEPT ![c] = [@ EXCEPT !.reply = NoReply, !.left = left]]
    /\ lifo' = [lifo EXCEPT ![p] = Append(@, c)]
    /\ inUse' = [inUse EXCEPT ![p] = @ - 1]
    /\ UNCHANGED handler

\* writeHTTPRequestLineAndHeaders() and the chunks that follow at once.
Writes(p, req, body) ==
    /\ Pops(p)
    /\ inUse' = [inUse EXCEPT ![p] = @ + 1]
    /\ wire' = [wire EXCEPT ![Acquired(p)] = [Wire(p) EXCEPT !.body = body, !.ended = FALSE]]
    /\ handler' = IF Wire(p).state = "broken" THEN handler
                  ELSE [handler EXCEPT ![Acquired(p)] = Started(req)]

\* The request could not be written, and the connection is closed.
WriteFails(p) ==
    /\ Wire(p).state = "broken"
    /\ Pops(p)
    /\ wire' = [wire EXCEPT ![Acquired(p)] = Unused]
    /\ UNCHANGED <<inUse, handler, breaks>>

\* An error that a test injects with the connection in order, or a connection
\* that breaks while it is read or written.
Injects == breaks < MaxBreaks /\ breaks' = breaks + 1

-----------------------------------------------------------------------------
\* A call begins.
Begins(w) ==
    LET r == worker[w]
        call == Head(r.plan)
        fresh == [Idle EXCEPT !.plan = Tail(r.plan), !.call = call]
    IN
    /\ r.pc = "idle" /\ r.plan # <<>>
    /\ worker' = [worker EXCEPT ![w] =
         CASE call.kind = "request" -> Asks(fresh, "send", call.req)
           [] call.kind = "put"     -> Asks(fresh, "fetch", ObjectPut(call.to))
           [] call.kind = "copy"    -> Asks(fresh, "send", ObjectContentLength(call.from))
           [] call.kind = "format"  -> Asks(fresh, "send", AccountGet(call.account))]
    /\ UNCHANGED <<serverVars, inUse, lifo>>

\* accountDelete(), accountGet(), ... objectTail(), up to the reply.
Sends(w) ==
    LET r == worker[w] IN
    /\ r.pc = "send" /\ MayAcquire("plain")
    /\ \/ /\ Writes("plain", r.req, <<>>)
          /\ worker' = [worker EXCEPT ![w].pc = "await", ![w].connection = Acquired("plain")]
          /\ UNCHANGED breaks
       \/ /\ WriteFails("plain")
          /\ worker' = [worker EXCEPT ![w] = TriesAgain(r, "send", Fails("BadHTTPError"))]
    /\ UNCHANGED <<node, made, chaos, reload, reloads>>

\* readHTTPStatusAndHeaders() finds no status line.
ReadFails(c) == wire[c].state = "broken" \/ wire[c].left

\* readHTTPPayloadLines() takes a listing in chunked encoding for an empty one,
\* and leaves its bytes unread.
Unread(req, reply) == req.reads = "lines" /\ reply.chunked
Payload(req, reply) ==
    IF req.reads = "nothing" THEN <<>> ELSE IF Unread(req, reply) THEN {} ELSE reply.data

\* What readBytesFromTCPConn() or readHTTPChunk() leave in the buffer when the
\* connection breaks before the last byte: the bytes that came, and zeros for the
\* rest of the Content-Length, if there is one.
Partly(req, reply) ==
    IF req.reads = "lines" THEN {<<>>}
    ELSE UNION {{SubSeq(reply.data, 1, n),
                 [i \in DOMAIN reply.data |-> IF i <= n THEN reply.data[i] ELSE 0]} :
                n \in 0..Len(reply.data) - 1}

HasPayload(req, reply) ==
    /\ req.method = "GET" /\ ~Unread(req, reply)
    /\ IF req.reads = "lines" THEN reply.data # {} ELSE reply.data # <<>>

Awaits(w) ==
    LET r == worker[w]
        c == r.connection
        reply == wire[c].reply
        done == [r EXCEPT !.connection = Nobody]
    IN
    /\ r.pc = "await"
    /\ \/ /\ ReadFails(c)
          /\ Releases(c, "plain")
          /\ worker' = [worker EXCEPT ![w] = TriesAgain(done, "send", Fails("BadHTTPError"))]
          /\ UNCHANGED breaks
       \/ /\ ~ReadFails(c) /\ reply # NoReply /\ FsErr(reply.status) # Succeeded
          /\ Releases(c, "plain")
          /\ worker' = [worker EXCEPT ![w] = TriesAgain(done, "send", Fails(FsErr(reply.status)))]
          /\ UNCHANGED breaks
       \/ /\ ~ReadFails(c) /\ reply # NoReply /\ FsErr(reply.status) = Succeeded
          /\ HasPayload(r.req, reply) /\ Injects
          /\ Releases(c, "plain")
          /\ \E data \in Partly(r.req, reply) :
               worker' = [worker EXCEPT ![w] =
                            TriesAgain(done, "send", [err |-> "BadHTTPError", data |-> data])]
       \/ /\ ~ReadFails(c) /\ reply # NoReply /\ FsErr(reply.status) = Succeeded
          /\ KeepsAlive(c, "plain", Unread(r.req, reply))
          /\ worker' = [worker EXCEPT ![w] =
                          Continues(done, [err |-> Succeeded, data |-> Payload(r.req, reply)])]
          /\ UNCHANGED breaks
    /\ UNCHANGED <<node, made, chaos, reload, reloads>>

-----------------------------------------------------------------------------
\* objectFetchChunkedPutContext().
FetchesContext(w) ==
    LET r == worker[w] IN
    /\ r.pc = "fetch" /\ MayAcquire("chunked")
    /\ \/ /\ Writes("chunked", r.req, <<>>)
          /\ worker' = [worker EXCEPT ![w].pc = "open",
                          ![w].context = [NoContext EXCEPT !.connection = Acquired("chunked"),
                                                           !.active = TRUE]]
          /\ UNCHANGED breaks
       \/ /\ \/ WriteFails("chunked")
             \/ /\ Injects /\ Pops("chunked")
                /\ wire' = [wire EXCEPT ![Acquired("chunked")] = Unused]
                /\ UNCHANGED <<inUse, handler>>
          /\ worker' = [worker EXCEPT ![w] = TriesAgain(r, "fetch", Fails("BadHTTPPutError"))]
    /\ UNCHANGED <<node, made, chaos, reload, reloads>>

Bytes(context) == Concat(context.bytesPut)

\* Read(): the chunk that holds the first byte, by bisection, then the chunks
\* behind it, the last one up to the limit.
Start(chunks, i) == Len(Concat(SubSeq(chunks, 1, i - 1)))

\* Mutant: the last chunk is taken whole.
Unlimited(chunks, i, limit) == FALSE

Limited(chunks, i, limit) == limit - Start(chunks, i) < Len(chunks[i])

ReadContext(context, offset, length) ==
    LET chunks == context.bytesPut
        limit == offset + length
        first == Max({i \in DOMAIN chunks : Start(chunks, i) <= offset})
        Upto(i) == IF Limited(chunks, i, limit) THEN SubSeq(chunks[i], 1, limit - Start(chunks, i))
                   ELSE chunks[i]
        next == {i \in DOMAIN chunks : i > first /\ Start(chunks, i) < limit}
    IN IF limit - Start(chunks, first) <= Len(chunks[first])
         THEN SubSeq(chunks[first], offset - Start(chunks, first) + 1, limit - Start(chunks, first))
         ELSE SubSeq(chunks[first], offset - Start(chunks, first) + 1, Len(chunks[first]))
              \o Concat([j \in 1..Cardinality(next) |-> Upto(first + j)])

\* The chunk to send next: of a PUT one of the caller's, of a copy what the GET
\* returned.
Buf(r) == IF r.call.kind = "put" THEN r.call.chunks[r.position + 1] ELSE Head(r.todo)
HasChunk(r) == \/ r.pc = "open" /\ r.call.kind = "put" /\ r.position < Len(r.call.chunks)
               \/ r.pc = "chunk"
ChunkSent(r) == IF r.call.kind = "put" THEN [r EXCEPT !.position = @ + 1]
                ELSE [r EXCEPT !.pc = "open", !.todo = <<>>]

\* SendChunk() of a chunk of no bytes: the PUT has failed for good.  The caller
\* closes the context, or leaves it as objectCopy() does.
RefusesChunk(w) ==
    LET r == worker[w]
        refused == [r EXCEPT !.context.err = TRUE, !.context.fatal = TRUE, !.context.connection = Nobody]
    IN
    /\ HasChunk(r) /\ Buf(r) = <<>>
    /\ Releases(r.context.connection, "chunked")
    /\ \/ worker' = [worker EXCEPT ![w] = Returns(refused, Fails("BadHTTPPutError"))]
       \/ /\ r.call.kind = "put"
          /\ worker' = [worker EXCEPT ![w] = [refused EXCEPT !.pc = "close"]]
    /\ UNCHANGED <<node, made, chaos, reload, breaks, reloads>>

\* Mutant: a chunk that could not be sent is not kept.
DropsChunk(r) == IF r.context.err THEN r.context ELSE [r.context EXCEPT !.bytesPut = Append(@, Buf(r))]

\* bytesPutTree keeps every chunk for Close() to send again.
Stashed(r) == [r.context EXCEPT !.bytesPut = Append(@, Buf(r))]

\* SendChunk().  After an error the chunk is kept only.
SendsChunk(w) ==
    LET r == worker[w]
        c == r.context.connection
    IN
    /\ HasChunk(r) /\ Buf(r) # <<>>
    /\ \/ /\ r.context.err
          /\ worker' = [worker EXCEPT ![w] = [ChunkSent(r) EXCEPT !.context = Stashed(r)]]
          /\ UNCHANGED <<wire, breaks>>
       \/ /\ ~r.context.err
          /\ wire' = [wire EXCEPT ![c].body = IF wire[c].state = "broken" THEN @ ELSE @ \o Buf(r)]
          /\ worker' = [worker EXCEPT ![w] = [ChunkSent(r) EXCEPT !.context = Stashed(r)]]
          /\ UNCHANGED breaks
       \/ /\ ~r.context.err
          /\ \/ Injects
             \/ wire[c].state = "broken" /\ UNCHANGED breaks
          /\ worker' = [worker EXCEPT ![w] = [ChunkSent(r) EXCEPT
                                                !.context = [Stashed(r) EXCEPT !.err = TRUE]]]
          /\ UNCHANGED wire
    /\ UNCHANGED <<node, made, chaos, handler, reload, reloads, inUse, lifo>>

-----------------------------------------------------------------------------
HasClosed(r) == [r EXCEPT !.context.active = FALSE, !.context.connection = Nobody]

\* An error that no retry can cure: a chunk was not kept.
Hopeless(r) == r.context.fatal

\* closeHelper() has failed: Close() tries again with retry(), as often as
\* RequestWithRetry() lets it.
CloseFails(r, err) ==
    LET c == HasClosed(r) IN
    CASE ~r.closed /\ Hopeless(r)  -> Returns(c, Fails(err))
      [] ~r.closed /\ ~Hopeless(r) -> [c EXCEPT !.pc = "reopen", !.closed = TRUE, !.tries = 1]
      [] r.closed /\ MayRetry(r)   -> [c EXCEPT !.pc = "reopen", !.tries = @ + 1]
      [] OTHER                     -> Returns(c, Fails(err))

Complete(r) ==
    \/ r.pc = "close"
    \/ r.pc = "open" /\ r.call.kind = "put" /\ r.position = Len(r.call.chunks)
    \/ r.pc = "open" /\ r.call.kind = "copy" /\ r.position >= r.size

\* Mutant: the connection of a PUT that has failed is not released.
ForgetsConnection(w) ==
    /\ worker[w].context.err
    /\ UNCHANGED <<wire, lifo, inUse, handler>>

\* closeHelper() after an error.
ClosesFailed(w) ==
    /\ worker[w].context.err
    /\ IF worker[w].context.connection = Nobody
         THEN UNCHANGED <<wire, lifo, inUse, handler>>
         ELSE Releases(worker[w].context.connection, "chunked")

\* closeHelper(), up to the last chunk.
Closes(w) ==
    LET r == worker[w]
        c == r.context.connection
    IN
    /\ Complete(r)
    /\ \/ /\ ClosesFailed(w)
          /\ worker' = [worker EXCEPT ![w] = CloseFails(r, "BadHTTPPutError")]
       \/ /\ ~r.context.err /\ wire[c].state = "broken"
          /\ Releases(c, "chunked")
          /\ worker' = [worker EXCEPT ![w] = CloseFails(r, "BadHTTPPutError")]
       \/ /\ ~r.context.err
          /\ wire' = [wire EXCEPT ![c].ended = wire[c].state # "broken"]
          /\ worker' = [worker EXCEPT ![w].pc = "closing", ![w].context.active = FALSE]
          /\ UNCHANGED <<lifo, inUse, handler>>
    /\ UNCHANGED <<node, made, chaos, reload, breaks, reloads>>

\* closeHelper(), with the status.
AwaitsClose(w) ==
    LET r == worker[w]
        c == r.context.connection
        reply == wire[c].reply
    IN
    /\ r.pc = "closing"
    /\ \/ /\ ReadFails(c)
          /\ Releases(c, "chunked")
          /\ worker' = [worker EXCEPT ![w] = CloseFails(r, "BadHTTPPutError")]
       \/ /\ ~ReadFails(c) /\ reply # NoReply /\ FsErr(reply.status) # Succeeded
          /\ Releases(c, "chunked")
          /\ worker' = [worker EXCEPT ![w] = CloseFails(r, FsErr(reply.status))]
       \/ /\ ~ReadFails(c) /\ reply # NoReply /\ FsErr(reply.status) = Succeeded
          /\ KeepsAlive(c, "chunked", FALSE)
          /\ worker' = [worker EXCEPT ![w] = Returns(HasClosed(r), [err |-> Succeeded, data |-> reply.data])]
    /\ UNCHANGED <<node, made, chaos, reload, breaks, reloads>>

\* retry(): the request and all its chunks once more, or as many as can be sent.
Reopens(w) ==
    LET r == worker[w]
        chunks == r.context.bytesPut
        opened == [r EXCEPT !.pc = "close", !.context.connection = Acquired("chunked"),
                            !.context.active = TRUE, !.context.err = FALSE]
    IN
    /\ r.pc = "reopen" /\ MayAcquire("chunked")
    /\ \/ /\ Writes("chunked", ObjectPut(r.call.to), Concat(chunks))
          /\ worker' = [worker EXCEPT ![w] = opened]
          /\ UNCHANGED breaks
       \/ /\ \/ Injects
             \/ Wire("chunked").state = "broken" /\ UNCHANGED breaks
          /\ \E n \in 0..Len(chunks) - 1 :
               Writes("chunked", ObjectPut(r.call.to), Concat(SubSeq(chunks, 1, n)))
          /\ worker' = [worker EXCEPT ![w] = [opened EXCEPT !.context.err = TRUE]]
    /\ UNCHANGED <<node, made, chaos, reload, reloads>>

Tails(path, rest, n) == ObjectTail(path, rest)

\* The loop of objectCopy().  A chunk that reaches beyond the end is read from
\* the end of the object.
CopiesChunk(w) ==
    LET r == worker[w]
        rest == r.size - r.position
    IN
    /\ r.pc = "open" /\ r.call.kind = "copy" /\ r.position < r.size
    /\ \E n \in CopySizes \cup {0} :
         worker' = [worker EXCEPT ![w] =
           IF n = 0 THEN [r EXCEPT !.pc = "close"]
           ELSE [Asks(r, "send", IF n > rest THEN Tails(r.call.from, rest, n)
                                 ELSE ObjectGet(r.call.from, r.position, n))
                   EXCEPT !.position = @ + Min({n, rest})]]
    /\ UNCHANGED <<serverVars, inUse, lifo>>

-----------------------------------------------------------------------------
Client(w) ==
    \/ Sends(w) \/ Awaits(w) \/ FetchesContext(w) \/ RefusesChunk(w) \/ SendsChunk(w)
    \/ Closes(w) \/ AwaitsClose(w) \/ Reopens(w) \/ CopiesChunk(w)

Init ==
    /\ \E s \in Starts :
         /\ node = s.node /\ made = s.made /\ reloads = s.reloads
         /\ worker = [w \in Workers |-> [Idle EXCEPT !.plan = s.plan[w]]]
    /\ chaos = [k \in DOMAIN ChaosRate |-> 0]
    /\ wire = [c \in Conns |-> Unused] /\ handler = [c \in Conns |-> Waiting]
    /\ reload = [step |-> "none"] /\ breaks = 0
    /\ inUse = [p \in Pools |-> 0] /\ lifo = [p \in Pools |-> <<>>]

Next ==
    \/ \E w \in Workers : Begins(w) \/ Client(w)
    \/ \E c \in Conns : (ServeHTTP(c) \/ Breaks(c)) /\ UNCHANGED <<worker, inUse, lifo>>
    \/ (UpdateConf \/ Reloads) /\ UNCHANGED <<worker, inUse, lifo>>

\* Goroutines of both processes run; nobody is made to call, to send a SIGHUP
\* or to break a connection.
Fairness ==
    /\ \A w \in Workers : WF_vars(Client(w))
    /\ \A c \in Conns : WF_vars(ServeHTTP(c) /\ UNCHANGED <<worker, inUse, lifo>>)
    /\ WF_vars(Reloads /\ UNCHANGED <<worker, inUse, lifo>>)

Spec == Init /\ [][Next]_vars /\ Fairness

-----------------------------------------------------------------------------
\* The values of the variables.
TypeOK ==
    /\ made \in 0..MaxNodes
    /\ \A i \in 0..MaxNodes :
         /\ node[i].kids \in [Names -> 0..made]
         /\ node[i].headers \in Values \cup {NoHeader} /\ node[i].lock \in Conns \cup {Nobody, Gone}
         /\ i > made => node[i] = EmptyNode
    /\ \A k \in DOMAIN ChaosRate : chaos[k] \in 0..Max({0, ChaosRate[k] - 1})
    /\ \A c \in Conns :
         /\ wire[c].state \in {"none", "open", "broken", "closed"}
         /\ wire[c] = Unused => handler[c] = Waiting
         /\ wire[c].state = "closed" => handler[c] # Waiting
    /\ \A p \in Pools : inUse[p] \in 0..PoolSize /\ lifo[p] \in Seq(Conns)
    /\ breaks \in 0..MaxBreaks
    /\ reload.step \in {"none", "apply", "done"}

Busy(w) == worker[w].pc # "idle"
Made(w, kind) == worker[w].pc = "idle" /\ worker[w].call.kind = kind
Done(w, kind) == Made(w, kind) /\ worker[w].result.err = Succeeded

Holding(w, p) == IF p = "plain" THEN worker[w].connection ELSE worker[w].context.connection
Holders(p) == {w \in Workers : Holding(w, p) # Nobody}

\* Every path through a request, error paths, retry() and closeHelper()
\* included, gives back the connection it took, once: a pool counts exactly the
\* callers that hold one, and no connection has two owners, be they callers or
\* pools (releaseChunkedConnection(), releaseNonChunkedConnection()).  Nor is a
\* request being served on a connection that waits in a pool, or the reply to one
\* still to come, which the next caller would take for its own.  Excepted are the
\* bytes that readHTTPPayloadLines() leaves behind a listing in chunked encoding
\* (wire's left): they do wait in the pool of plain connections, and the next
\* caller reads them for its status line, fails, and closes the connection.
ConnectionsAccounted ==
    /\ \A p \in Pools : inUse[p] = Cardinality(Holders(p))
    /\ \A p, q \in Pools, v, w \in Workers :
         Holding(v, p) # Nobody /\ Holding(v, p) = Holding(w, q) => v = w /\ p = q
    /\ \A p, q \in Pools : \A i \in DOMAIN lifo[p], j \in DOMAIN lifo[q] :
         lifo[p][i] = lifo[q][j] => p = q /\ i = j
    /\ \A p, q \in Pools, w \in Workers : \A i \in DOMAIN lifo[q] : Holding(w, p) # lifo[q][i]
    /\ \A p \in Pools : \A i \in DOMAIN lifo[p] :
         handler[lifo[p][i]] = Waiting /\ wire[lifo[p][i]].reply = NoReply

\* Read() of a chunked PUT returns what was given to SendChunk(), also when a
\* range spans chunks, for every range within BytesPut().
ReadsBack ==
    \A w \in Workers :
        LET sent == Bytes(worker[w].context) IN
        \A offset \in 0..Len(sent), length \in 1..Len(sent) :
            offset + length <= Len(sent) =>
                ReadContext(worker[w].context, offset, length) = SubSeq(sent, offset + 1, offset + length)

\* RequestWithRetry() gives up after RetryLimit retries and not before: a call
\* that returns an error was tried RetryLimit + 1 times, unless a chunk was
\* refused or the account to be formatted is in use.
GivesUpLast ==
    \A w \in Workers :
        /\ worker[w].tries <= RetryLimit + 1
        /\ ~Busy(w) /\ worker[w].call.kind # "none" =>
             \/ worker[w].result.err \in {Succeeded, "not empty"}
             \/ worker[w].context.fatal
             \/ worker[w].tries = RetryLimit + 1

\* The calls of a worker, the ones to come included.
AllCalls(w) == {worker[w].call} \cup Range(worker[w].plan)
Changes(call) == \/ call.kind \in {"put", "copy", "format"}
                 \/ call.kind = "request" /\ call.req.method \in {"PUT", "POST", "DELETE"}
Alone(w) ==
    /\ \A v \in Workers \ {w} : \A call \in AllCalls(v) : ~Changes(call)
    /\ reload.step = "none"

\* Close() returns success only when the server has acknowledged one PUT that
\* carried every chunk the caller gave to SendChunk(), each once and in order,
\* whatever tries, injected errors and broken connections came before, and
\* never when one of the chunks was refused (object.go, Close(), retry()).
PutsStored ==
    \A w \in Workers : Done(w, "put") =>
        /\ worker[w].result.data = Concat(worker[w].call.chunks)
        /\ \A i \in DOMAIN worker[w].call.chunks : worker[w].call.chunks[i] # <<>>

\* The same, and the chunks of ObjectCopy() are the source's bytes, each once, as
\* far as the caller let it copy, when nobody else changes the source: also when
\* the last chunk asks for more than is left, and whatever tries of its GETs have
\* failed before one succeeded.  Not so when all the tries of a GET failed (torn):
\* objectCopy() overwrites the error, sends what the last try has left in its
\* buffer, bytes cut off or zeros, for a chunk, and Close() returns success.
ClosedMeansStored ==
    /\ PutsStored
    /\ \A w \in Workers : Done(w, "copy") /\ Alone(w) /\ ~worker[w].torn =>
         LET source == node[At(Globals, worker[w].call.from)].contents IN
         worker[w].result.data = SubSeq(source, 1, worker[w].position)

\* mkproxyfs formats an account that it found or made empty: when Format() of
\* ModeNew or ModeReformat gets as far as headhunter.Format(), the account has no
\* containers, if nobody else writes to it and the list of its containers needs
\* no chunked encoding.
FormatEmpties ==
    \A w \in Workers :
        Done(w, "format") /\ worker[w].call.mode # "onlyIfNeeded" /\ Alone(w) =>
            \/ ~Reachable(<<worker[w].call.account>>)
            \/ IsEmpty(At(Globals, <<worker[w].call.account>>))

MutexLost == \E i \in 0..made : node[i].lock = Gone

\* Every call of swiftclient returns, whatever breaks, so that one day no call
\* is under way: nobody waits for a connection, a mutex, the end of a body or a
\* reply for ever, unless a GET of a range behind an object's end has made
\* ramswift's handler panic.
CallsReturn == (\E w \in Workers : Busy(w)) ~> ((\A w \in Workers : ~Busy(w)) \/ MutexLost)

\* What a caller stored stays: when Close() has returned success the object has
\* the caller's bytes for as long as nobody else writes or deletes, however
\* often the PUT was tried.  Not so when a connection broke: ramswift stores what
\* arrived of the body that was cut off, and may do so after the next try.
StaysStored ==
    \A w \in Workers :
        Done(w, "put") /\ Alone(w) /\ breaks = 0 =>
            /\ Reachable(worker[w].call.to)
            /\ node[At(Globals, worker[w].call.to)].contents = Concat(worker[w].call.chunks)
=============================================================================
