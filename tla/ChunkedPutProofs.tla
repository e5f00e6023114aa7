--------------------------- MODULE ChunkedPutProofs ---------------------------
(***************************************************************************)
(* What Close() of a chunked PUT promises: the server has stored every     *)
(* chunk, each once and in order.  The invariant follows the chunks from   *)
(* the caller to bytesPutTree, from there to the body on the connection    *)
(* and from the body to the object, through every try.  It rests on        *)
(* SwiftClientProofs: a connection has one owner, and no reply is on it    *)
(* before the handler of the request has ended.                            *)
(***************************************************************************)
EXTENDS SwiftClientProofs

-----------------------------------------------------------------------------
\* Induction over the natural numbers, for a set instead of a predicate.
LEMMA NatInduct ==
    ASSUME NEW S, 0 \in S, \A n \in Nat : n \in S => n + 1 \in S
    PROVE  Nat \subseteq S
  <1> DEFINE Bad == Nat \ S
  <1>1. ASSUME NEW x \in Bad PROVE \E y \in Bad : y < x
    <2>1. x - 1 \in Nat /\ x - 1 < x
      BY <1>1
    <2> QED BY <2>1, <1>1
  <1>2. \A x, y \in Nat : y < x => <<y, x>> \in OpToRel(<, Nat)
    BY Zenon DEF OpToRel
  <1>3. Bad \subseteq Nat
    BY Zenon
  <1> HIDE DEF Bad
  <1>4. Bad = {}
    BY Zenon, <1>1, <1>2, <1>3, WFMin, NatLessThanWellFounded
  <1> QED BY Zenon, <1>4 DEF Bad

\* f[k] is the concatenation of the first k chunks.
Joins(s, f, n) ==
    /\ f = [k \in 0..n |-> f[k]]
    /\ f[0] = <<>>
    /\ \A k \in 1..n : f[k] = f[k - 1] \o s[k]

\* Such a function exists.
LEMMA JoinsExists ==
    ASSUME NEW s, NEW n \in Nat
    PROVE  \E f : Joins(s, f, n)
  <1> DEFINE S == {m \in Nat : \E f : Joins(s, f, m)}
  <1>1. 0 \in S
    <2>1. Joins(s, [k \in 0..0 |-> <<>>], 0)
      BY DEF Joins
    <2> QED BY Zenon, <2>1
  <1>2. ASSUME NEW m \in Nat, m \in S PROVE m + 1 \in S
    <2>1. PICK f : Joins(s, f, m)
      BY ZenonT(60), <1>2
    <2> DEFINE g == [k \in 0..(m + 1) |-> IF k = m + 1 THEN f[m] \o s[m + 1] ELSE f[k]]
    <2>2. g[0] = <<>> /\ g[m + 1] = f[m] \o s[m + 1] /\ \A k \in 0..m : g[k] = f[k]
      BY <2>1 DEF Joins
    <2>3. g = [k \in 0..(m + 1) |-> g[k]]
      BY Zenon
    <2> HIDE DEF g
    <2>4. ASSUME NEW k \in 1..(m + 1) PROVE g[k] = g[k - 1] \o s[k]
      <3>1. k - 1 \in 0..m
        OBVIOUS
      <3>2. g[k - 1] = f[k - 1]
        BY Zenon, <2>2, <3>1
      <3>3. CASE k \in 1..m
        <4>1. g[k] = f[k]
          BY <2>2, <3>3
        <4> QED BY Zenon, <2>1, <3>2, <3>3, <4>1 DEF Joins
      <3>4. CASE k = m + 1
        <4>1. k - 1 = m
          BY <3>4
        <4> QED BY Zenon, <2>2, <3>2, <3>4, <4>1
      <3>5. k \in 1..m \/ k = m + 1
        OBVIOUS
      <3> QED BY Zenon, <3>3, <3>4, <3>5
    <2>5. Joins(s, g, m + 1)
      BY Zenon, <2>2, <2>3, <2>4 DEF Joins
    <2> QED BY <2>5
  <1> HIDE DEF S
  <1>3. Nat \subseteq S
    BY Zenon, <1>1, <1>2, NatInduct
  <1> QED BY Zenon, <1>3 DEF S

\* Two of them agree as far as the chunks do.
LEMMA JoinsAgree ==
    ASSUME NEW s, NEW u, NEW f, NEW g, NEW m \in Nat, NEW n \in Nat, NEW k \in Nat,
           k <= m, k <= n, Joins(s, f, m), Joins(u, g, n), \A i \in 1..k : s[i] = u[i]
    PROVE  f[k] = g[k]
  <1> DEFINE S == {j \in Nat : j <= k => f[j] = g[j]}
  <1>1. 0 \in S
    BY Zenon DEF Joins
  <1>2. ASSUME NEW j \in Nat, j \in S PROVE j + 1 \in S
    <2>1. CASE j + 1 <= k
      <3>1. j + 1 \in 1..m /\ j + 1 \in 1..n /\ j + 1 \in 1..k /\ j <= k /\ (j + 1) - 1 = j
        BY <2>1
      <3>2. f[j + 1] = f[(j + 1) - 1] \o s[j + 1] /\ g[j + 1] = g[(j + 1) - 1] \o u[j + 1]
        BY Zenon, <3>1 DEF Joins
      <3>3. f[j] = g[j]
        BY Zenon, <1>2, <3>1
      <3>4. f[j + 1] = g[j + 1]
        BY Zenon, <3>1, <3>2, <3>3
      <3>5. j + 1 \in Nat
        OBVIOUS
      <3> QED BY Zenon, <3>4, <3>5
    <2>2. CASE ~(j + 1 <= k)
      BY <2>2
    <2> QED BY Zenon, <2>1, <2>2
  <1> HIDE DEF S
  <1>3. Nat \subseteq S
    BY Zenon, <1>1, <1>2, NatInduct
  <1> QED BY <1>3 DEF S

\* Concat is the last of its values.
LEMMA ConcatJoins ==
    ASSUME NEW s, Len(s) \in Nat
    PROVE  \E f : Joins(s, f, Len(s)) /\ Concat(s) = f[Len(s)]
  <1> DEFINE D(f) == f = [i \in 0..Len(s) |-> IF i = 0 THEN <<>> ELSE f[i - 1] \o s[i]]
  <1>1. PICK h : Joins(s, h, Len(s))
    BY Zenon, JoinsExists
  <1>2. D(h)
    <2>1. ASSUME NEW i \in 0..Len(s) PROVE h[i] = IF i = 0 THEN <<>> ELSE h[i - 1] \o s[i]
      <3>1. CASE i = 0
        BY Zenon, <1>1, <3>1 DEF Joins
      <3>2. CASE i # 0
        <4>1. i \in 1..Len(s)
          BY <3>2
        <4> QED BY Zenon, <1>1, <3>2, <4>1 DEF Joins
      <3> QED BY Zenon, <3>1, <3>2
    <2> QED BY Zenon, <1>1, <2>1 DEF Joins
  <1>3. PICK f : f = CHOOSE g : D(g)
    BY Zenon
  <1>4. D(f)
    BY Zenon, <1>2, <1>3
  <1>5. Concat(s) = f[Len(s)]
    BY Zenon, <1>3 DEF Concat
  <1>6. Joins(s, f, Len(s))
    <2>1. f = [k \in 0..Len(s) |-> f[k]]
      BY Zenon, <1>4
    <2>2. f[0] = <<>>
      BY <1>4
    <2>3. ASSUME NEW k \in 1..Len(s) PROVE f[k] = f[k - 1] \o s[k]
      <3>1. k \in 0..Len(s) /\ k # 0
        OBVIOUS
      <3> QED BY Zenon, <1>4, <3>1
    <2> QED BY Zenon, <2>1, <2>2, <2>3 DEF Joins
  <1> QED BY Zenon, <1>5, <1>6

\* What is sent before the first chunk.
LEMMA ConcatEmpty == Concat(<<>>) = <<>>
  <1>1. Len(<<>>) = 0 /\ 0 \in Nat
    OBVIOUS
  <1> QED BY Zenon, <1>1, ConcatJoins DEF Joins

\* One more chunk.
LEMMA ConcatAppend ==
    ASSUME NEW S, NEW s \in Seq(S), NEW x \in S
    PROVE  Concat(Append(s, x)) = Concat(s) \o x
  <1>1. PICK n \in Nat : n = Len(s)
    OBVIOUS
  <1>2. PICK u : u = Append(s, x)
    BY Zenon
  <1>3. Len(u) = n + 1 /\ u[n + 1] = x /\ \A i \in 1..n : s[i] = u[i]
    BY <1>1, <1>2
  <1>4. n + 1 \in Nat /\ n <= n /\ n <= n + 1 /\ (n + 1) - 1 = n /\ n + 1 \in 1..(n + 1)
    OBVIOUS
  <1>5. PICK f : Joins(s, f, n) /\ Concat(s) = f[n]
    BY Zenon, <1>1, ConcatJoins
  <1>6. PICK g : Joins(u, g, n + 1) /\ Concat(u) = g[n + 1]
    BY Zenon, <1>3, <1>4, ConcatJoins
  <1>7. f[n] = g[n]
    BY <1>3, <1>4, <1>5, <1>6, JoinsAgree
  <1>8. g[n + 1] = g[(n + 1) - 1] \o u[n + 1]
    BY Zenon, <1>4, <1>6 DEF Joins
  <1> QED BY Zenon, <1>2, <1>3, <1>4, <1>5, <1>6, <1>7, <1>8

-----------------------------------------------------------------------------
\* What SendChunk() was given so far, none of it empty.
Given(r) ==
    /\ r.position \in 0..Len(r.call.chunks)
    /\ r.context.bytesPut = SubSeq(r.call.chunks, 1, r.position)
    /\ \A i \in 1..r.position : r.call.chunks[i] # <<>>

\* It was given all of them.
Whole(r) == Given(r) /\ r.position = Len(r.call.chunks)

\* What a caller of a chunked PUT knows: retry() and closeHelper() start from all
\* chunks unless one was refused, and then closeHelper() fails for good.
Putting(r) ==
    /\ r.pc \in {"fetch", "open", "close", "closing", "reopen", "idle"}
    /\ r.pc \in {"fetch", "open"} => ~r.closed /\ ~r.context.fatal
    /\ r.pc = "fetch" => r.position = 0 /\ r.req = ObjectPut(r.call.to)
    /\ r.pc = "open" => Given(r)
    /\ r.pc \in {"close", "closing", "reopen"} =>
         \/ r.pc = "close" /\ r.context.fatal /\ r.context.err /\ ~r.closed
         \/ ~r.context.fatal /\ Whole(r)
    /\ r.pc = "closing" => ~r.context.err
    /\ r.pc = "idle" /\ r.result.err = Succeeded =>
         /\ r.result.data = Concat(r.call.chunks)
         /\ \A i \in DOMAIN r.call.chunks : r.call.chunks[i] # <<>>

\* Handler h is busy with the PUT of an object.
Serves(h) ==
    /\ {"step", "req"} \subseteq DOMAIN h /\ h.step \in {"walk", "fill", "read"}
    /\ h.req.method = "PUT" /\ Level(h.req) = Object

\* Caller r goes by what it has sent on connection x and by the reply.
Watched(r, x) == r.pc \in {"open", "close", "closing"} /\ ~r.context.err /\ x.state # "broken"

\* Connection x with its handler h carries what caller r has sent: the body so
\* far is bytesPutTree, and a reply of success follows the whole of it.
Carries(r, x, h) ==
    Watched(r, x) =>
      /\ x.body = Concat(r.context.bytesPut)
      /\ x.ended => r.pc = "closing"
      /\ x.reply # NoReply =>
           \/ FsErr(x.reply.status) # Succeeded
           \/ r.pc = "closing" /\ x.reply.data = x.body
      /\ h # Waiting => Serves(h)

\* A chunked PUT of caller w, with what is on its connection.
PutOK(w) ==
    worker[w].call.kind = "put" =>
      /\ WellFormed(worker[w].call)
      /\ Putting(worker[w])
      /\ \A c \in Conns : c = worker[w].context.connection => Carries(worker[w], wire[c], handler[c])

\* The inductive invariant, with SwiftInv.
PutInv == \A w \in Workers : PutOK(w)

-----------------------------------------------------------------------------
\* The handler of a PUT of an object goes on, fails, or stores the body once its
\* last chunk has arrived.
LEMMA ServesPut ==
    ASSUME PoolInv, NEW c \in Conns, ServeHTTP(c), Serves(handler[c])
    PROVE  \/ wire' = wire /\ Serves(handler'[c])
           \/ \E reply : /\ Replies(c, reply)
                         /\ \/ FsErr(reply.status) # Succeeded
                            \/ wire[c].ended /\ reply.data = wire[c].body
                            \/ Aborted(c)
  <1> DEFINE Goal == \/ wire' = wire /\ Serves(handler'[c])
                     \/ \E reply : /\ Replies(c, reply)
                                   /\ \/ FsErr(reply.status) # Succeeded
                                      \/ wire[c].ended /\ reply.data = wire[c].body
                                      \/ Aborted(c)
  <1>0. handler = [d \in Conns |-> handler[d]]
    BY Zenon DEF PoolInv
  <1>1. PICK h : h = handler[c]
    OBVIOUS
  <1>2. /\ {"step", "req"} \subseteq DOMAIN h /\ h.step \in {"walk", "fill", "read"}
        /\ h.req.method = "PUT" /\ Level(h.req) = Object
    BY Zenon, <1>1 DEF Serves
  <1>3. ASSUME NEW g, handler' = [handler EXCEPT ![c] = g], wire' = wire,
               {"step", "req"} \subseteq DOMAIN g, g.step \in {"walk", "fill", "read"}, g.req = h.req
        PROVE  Goal
    <2>1. handler'[c] = g
      BY Zenon, <1>0, <1>3
    <2> QED BY Zenon, <1>2, <1>3, <2>1 DEF Serves
  <1>4. FsErr(Status(403).status) # Succeeded /\ FsErr(Status(500).status) # Succeeded
    BY DEF FsErr, Succeeded, Status
  <1>5. ASSUME NEW reply, Replies(c, reply), FsErr(reply.status) # Succeeded PROVE Goal
    BY Zenon, <1>5
  <1> HIDE DEF Goal
  <1>6. ASSUME Locates(c) PROVE Goal
    <2>1. Req(c).method = "PUT"
      BY Zenon, <1>1, <1>2 DEF Req
    <2>2. \/ Replies(c, Status(IF Req(c).method = "PUT" THEN 403 ELSE 404))
          \/ \E next : /\ handler' = [handler EXCEPT ![c].at = next, ![c].depth = @ + 1]
                       /\ wire' = wire
      BY Zenon, <1>6 DEF Locates
    <2>3. CASE Replies(c, Status(IF Req(c).method = "PUT" THEN 403 ELSE 404))
      BY ZenonT(60), <1>4, <1>5, <2>1, <2>3
    <2>4. ASSUME NEW next, handler' = [handler EXCEPT ![c].at = next, ![c].depth = @ + 1], wire' = wire
          PROVE  Goal
      <3>1. PICK g : g = [[h EXCEPT !.at = next] EXCEPT !.depth = @ + 1]
        BY Zenon
      <3>2. handler' = [handler EXCEPT ![c] = g]
        BY Zenon, <1>0, <1>1, <2>4, <3>1
      <3>3. {"step", "req"} \subseteq DOMAIN g /\ g.step = h.step /\ g.req = h.req
        BY Zenon, <1>2, <3>1
      <3> QED BY Zenon, <1>2, <1>3, <2>4, <3>2, <3>3
    <2> QED BY Zenon, <2>2, <2>3, <2>4
  <1>7. ASSUME Chaos(c) PROVE Goal
    <2>1. \/ Replies(c, Status(500))
          \/ handler' = [handler EXCEPT ![c].spared = TRUE] /\ wire' = wire
      BY Zenon, <1>7 DEF Chaos
    <2>2. CASE Replies(c, Status(500))
      BY ZenonT(60), <1>4, <1>5, <2>2
    <2>3. CASE handler' = [handler EXCEPT ![c].spared = TRUE] /\ wire' = wire
      <3>1. PICK g : g = [h EXCEPT !.spared = TRUE]
        BY Zenon
      <3>2. handler' = [handler EXCEPT ![c] = g]
        BY Zenon, <1>0, <1>1, <2>3, <3>1
      <3>3. {"step", "req"} \subseteq DOMAIN g /\ g.step = h.step /\ g.req = h.req
        BY Zenon, <1>2, <3>1
      <3> QED BY Zenon, <1>2, <1>3, <2>3, <3>2, <3>3
    <2> QED BY Zenon, <2>1, <2>2, <2>3
  <1>8. ASSUME DoDelete(c) \/ DoGet(c) \/ DoHead(c) \/ DoPost(c) PROVE Goal
    BY Zenon, <1>1, <1>2, <1>8 DEF DoDelete, DoGet, DoHead, DoPost, Req
  <1>9. ASSUME DoUnlink(c) \/ PutsHeaders(c) PROVE Goal
    BY Zenon, <1>1, <1>2, <1>9 DEF DoUnlink, PutsHeaders, Steps, Req
  <1>10. ASSUME CreatesOrLocates(c) PROVE Goal
    <2>1. wire' = wire
      BY Zenon, <1>10 DEF CreatesOrLocates
    <2>2. PICK at, created :
            \/ handler' = [handler EXCEPT ![c].step = "fill", ![c].at = at]
            \/ handler' = [handler EXCEPT ![c].step = "fill", ![c].at = at, ![c].created = created]
      BY Zenon, <1>10 DEF CreatesOrLocates
    <2>3. PICK g : /\ handler' = [handler EXCEPT ![c] = g]
                   /\ \/ g = [[h EXCEPT !.step = "fill"] EXCEPT !.at = at]
                      \/ g = [[[h EXCEPT !.step = "fill"] EXCEPT !.at = at] EXCEPT !.created = created]
      BY Zenon, <1>0, <1>1, <2>2
    <2>4. {"step", "req"} \subseteq DOMAIN g /\ g.step = "fill" /\ g.req = h.req
      BY Zenon, <1>2, <2>3
    <2> QED BY Zenon, <1>3, <2>1, <2>3, <2>4
  <1>11. ASSUME LocksObject(c) PROVE Goal
    <2>1. wire' = wire /\ handler' = [handler EXCEPT ![c].step = "read"]
      BY Zenon, <1>11 DEF LocksObject
    <2>2. PICK g : g = [h EXCEPT !.step = "read"]
      BY Zenon
    <2>3. handler' = [handler EXCEPT ![c] = g]
      BY Zenon, <1>0, <1>1, <2>1, <2>2
    <2>4. {"step", "req"} \subseteq DOMAIN g /\ g.step = "read" /\ g.req = h.req
      BY Zenon, <1>2, <2>2
    <2> QED BY Zenon, <1>3, <2>1, <2>3, <2>4
  <1>12. ASSUME ReadsBody(c) PROVE Goal
    <2>1. [Stored(c) EXCEPT !.data = wire[c].body].data = wire[c].body
      BY Zenon DEF Stored, Status
    <2> QED BY Zenon, <1>12, <2>1 DEF ReadsBody, Goal
  <1>13. Goal
    BY Zenon, <1>6, <1>7, <1>8, <1>9, <1>10, <1>11, <1>12 DEF ServeHTTP
  <1> QED BY Zenon, <1>13 DEF Goal

\* A connection that has broken stays so.
LEMMA StaysBroken ==
    ASSUME PoolInv, NEW c \in Conns, Alive(c), ServeHTTP(c) \/ Breaks(c), wire'[c].state # "broken"
    PROVE  /\ wire[c].state # "broken" /\ ServeHTTP(c)
           /\ \A reply : Replies(c, reply) => wire'[c] = [wire[c] EXCEPT !.reply = reply]
  <1>0. wire = [d \in Conns |-> wire[d]] /\ DOMAIN wire[c] = WireFields /\ wire[c].state # "closed"
    BY Zenon DEF PoolInv, Quiet, Alive
  <1>1. ASSUME NEW x, wire' = [wire EXCEPT ![c] = x]
        PROVE  wire'[c] = x
    BY Zenon, <1>0, <1>1
  <1>2. ASSUME NEW reply, Replies(c, reply)
        PROVE  wire'[c] = [wire[c] EXCEPT !.reply = reply]
    BY Zenon, <1>0, <1>2 DEF Replies
  <1>3. ASSUME NEW x, x = [[wire[c] EXCEPT !.state = "broken"] EXCEPT !.reply = NoReply]
        PROVE  x.state = "broken"
    BY Zenon, <1>0, <1>3 DEF WireFields
  <1>4. ~Breaks(c)
    BY Zenon, <1>1, <1>3 DEF Breaks
  <1>5. ASSUME NEW reply, Replies(c, reply)
        PROVE  wire'[c].state = wire[c].state
    BY Zenon, <1>0, <1>2, <1>5 DEF WireFields
  <1>6. ASSUME wire' = [wire EXCEPT ![c] = IF @.state = "closed" THEN Unused
                                             ELSE [@ EXCEPT !.state = "broken"]]
        PROVE  FALSE
    BY Zenon, <1>0, <1>6 DEF WireFields
  <1>7. wire[c].state # "broken"
    BY Zenon, <1>4, <1>5, <1>6, ServesAs
  <1> QED BY Zenon, <1>2, <1>4, <1>7

\* What the server does to the connection of a chunked PUT.
LEMMA ServerCarries ==
    ASSUME PoolInv, NEW c \in Conns, Alive(c), ServeHTTP(c) \/ Breaks(c), NEW r,
           Carries(r, wire[c], handler[c])
    PROVE  Carries(r, wire'[c], handler'[c])
  <1> SUFFICES ASSUME Watched(r, wire'[c])
               PROVE  /\ wire'[c].body = Concat(r.context.bytesPut)
                      /\ wire'[c].ended => r.pc = "closing"
                      /\ wire'[c].reply # NoReply =>
                           \/ FsErr(wire'[c].reply.status) # Succeeded
                           \/ r.pc = "closing" /\ wire'[c].reply.data = wire'[c].body
                      /\ handler'[c] # Waiting => Serves(handler'[c])
    BY Zenon DEF Carries
  <1>1. wire'[c].state # "broken"
    BY Zenon DEF Watched
  <1>2. /\ wire[c].state # "broken" /\ ServeHTTP(c)
        /\ \A reply : Replies(c, reply) => wire'[c] = [wire[c] EXCEPT !.reply = reply]
    BY Zenon, <1>1, StaysBroken
  <1>3. Watched(r, wire[c])
    BY Zenon, <1>2 DEF Watched
  <1>4. handler[c] # Waiting
    BY Zenon, <1>2, ServesQuiet
  <1>5. Serves(handler[c])
    BY Zenon, <1>3, <1>4 DEF Carries
  <1>6. ~Aborted(c)
    BY Zenon, <1>2 DEF Aborted, Alive
  <1>7. CASE wire' = wire /\ Serves(handler'[c])
    BY Zenon, <1>3, <1>7 DEF Carries
  <1>8. ASSUME NEW reply, Replies(c, reply),
               \/ FsErr(reply.status) # Succeeded
               \/ wire[c].ended /\ reply.data = wire[c].body
        PROVE  /\ wire'[c].body = Concat(r.context.bytesPut)
               /\ wire'[c].ended => r.pc = "closing"
               /\ wire'[c].reply # NoReply =>
                    \/ FsErr(wire'[c].reply.status) # Succeeded
                    \/ r.pc = "closing" /\ wire'[c].reply.data = wire'[c].body
               /\ handler'[c] # Waiting => Serves(handler'[c])
    <2>1. wire'[c] = [wire[c] EXCEPT !.reply = reply] /\ DOMAIN wire[c] = WireFields
      BY Zenon, <1>2, <1>8 DEF PoolInv, Quiet
    <2>2. wire'[c].body = wire[c].body /\ wire'[c].ended = wire[c].ended /\ wire'[c].reply = reply
      BY Zenon, <2>1 DEF WireFields
    <2>3. handler'[c] = Waiting
      BY Zenon, <1>8 DEF Replies, PoolInv
    <2> QED BY Zenon, <1>3, <1>8, <2>2, <2>3 DEF Carries
  <1> QED BY Zenon, <1>2, <1>5, <1>6, <1>7, <1>8, ServesPut

-----------------------------------------------------------------------------
\* A step of the server, or of another caller.
LEMMA OthersPut ==
    ASSUME NEW w \in Workers, PutOK(w), worker'[w] = worker[w],
           \A c \in Conns : c = worker[w].context.connection =>
             \/ wire'[c] = wire[c] /\ handler'[c] = handler[c]
             \/ Carries(worker[w], wire[c], handler[c]) => Carries(worker[w], wire'[c], handler'[c])
    PROVE  PutOK(w)'
  BY Zenon DEF PutOK

\* Every step of ramswift, and a broken connection, keep the invariant.
LEMMA ServerPut ==
    ASSUME SwiftInv, PutInv, NEW c \in Conns, ServeHTTP(c) \/ Breaks(c), UNCHANGED worker
    PROVE  PutInv'
  <1>1. PoolInv /\ Only(c)
    BY Zenon, ServesQuiet, BreaksQuiet DEF SwiftInv
  <1>2. ASSUME NEW w \in Workers PROVE PutOK(w)'
    <2>1. PutOK(w) /\ worker'[w] = worker[w]
      BY Zenon DEF PutInv
    <2>2. ASSUME NEW d \in Conns, d = worker[w].context.connection
          PROVE  \/ wire'[d] = wire[d] /\ handler'[d] = handler[d]
                 \/ Carries(worker[w], wire[d], handler[d]) => Carries(worker[w], wire'[d], handler'[d])
      <3>1. CASE d # c
        BY Zenon, <1>1, <3>1 DEF Only
      <3>2. CASE d = c
        <4>1. "chunked" \in Pools /\ Holding(w, "chunked") = c /\ c # Nobody
          BY Zenon, <2>2, <3>2, NobodyIsNoConnection DEF Pools, Holding
        <4>2. Alive(c)
          BY Zenon, <1>1, <4>1 DEF PoolInv
        <4> QED BY Zenon, <1>1, <3>2, <4>2, ServerCarries
      <3> QED BY Zenon, <3>1, <3>2
    <2> QED BY Zenon, <2>1, <2>2, OthersPut
  <1> QED BY Zenon, <1>2 DEF PutInv

\* A connection that no caller but w has for a chunked PUT.
Unshared(w, c) == c \in Conns /\ \A v \in Workers \ {w} : worker[v].context.connection # c

\* A connection that w holds is its own.
LEMMA HeldApart ==
    ASSUME SwiftInv, NEW w \in Workers, NEW p \in Pools, NEW c, c = Held(worker[w], p), c # Nobody
    PROVE  Unshared(w, c)
  <1>1. Holding(w, p) = c /\ "chunked" \in Pools
    BY Zenon DEF Holding, Held, Pools
  <1>2. c \in Conns
    BY Zenon DEF SwiftInv, Sound, Shape, Held
  <1>3. ASSUME NEW v \in Workers \ {w} PROVE worker[v].context.connection # c
    <2>1. Holding(v, "chunked") = worker[v].context.connection
      BY Zenon DEF Holding
    <2>2. \A q \in Pools, x, y \in Workers :
            Holding(x, p) # Nobody /\ Holding(x, p) = Holding(y, q) => x = y
      BY Zenon DEF SwiftInv, PoolInv, ConnectionsAccounted
    <2>3. v \in Workers /\ v # w
      BY Zenon
    <2> QED BY Zenon, <1>1, <2>1, <2>2, <2>3
  <1> QED BY Zenon, <1>2, <1>3 DEF Unshared

\* The connection that acquireChunkedConnection() returns was nobody's.
LEMMA AcquiredApart ==
    ASSUME SwiftInv, NEW w \in Workers, NEW p \in Pools, MayAcquire(p)
    PROVE  Unshared(w, Acquired(p))
  <1>1. "chunked" \in Pools
    BY Zenon DEF Pools
  <1>2. ASSUME NEW v \in Workers \ {w} PROVE Holding(v, "chunked") = worker[v].context.connection
    BY Zenon DEF Holding
  <1>3. Acquired(p) \in Conns /\ \A v \in Workers : Holding(v, "chunked") # Acquired(p)
    BY Zenon, <1>1, AcquiredSpare DEF Spare
  <1> QED BY Zenon, <1>2, <1>3 DEF Unshared

\* What caller w becomes, with what is on its connection then.
Goes(w, u) ==
    /\ worker' = [worker EXCEPT ![w] = u]
    /\ u.call.kind = "put" =>
         /\ WellFormed(u.call)
         /\ Putting(u)
         /\ \A c \in Conns : c = u.context.connection => Carries(u, wire'[c], handler'[c])

\* A caller that does so, on a connection of its own, keeps the invariant.
LEMMA CallerPut ==
    ASSUME SwiftInv, PutInv, NEW w \in Workers, NEW u, Goes(w, u),
           \/ UNCHANGED <<wire, handler>>
           \/ \E c : Unshared(w, c) /\ Only(c)
    PROVE  PutInv'
  <1>1. worker = [v \in Workers |-> worker[v]]
    BY Zenon DEF SwiftInv
  <1>2. worker'[w] = u /\ \A v \in Workers \ {w} : worker'[v] = worker[v]
    BY Zenon, <1>1 DEF Goes
  <1>3. PutOK(w)'
    BY Zenon, <1>2 DEF PutOK, Goes
  <1>4. ASSUME NEW v \in Workers \ {w} PROVE PutOK(v)'
    <2>1. PutOK(v) /\ worker'[v] = worker[v] /\ v \in Workers
      BY Zenon, <1>2 DEF PutInv
    <2>2. ASSUME NEW d \in Conns, d = worker[v].context.connection
          PROVE  wire'[d] = wire[d] /\ handler'[d] = handler[d]
      BY Zenon, <2>2 DEF Unshared, Only
    <2> QED BY Zenon, <2>1, <2>2, OthersPut
  <1> QED BY Zenon, <1>3, <1>4 DEF PutInv

\* writeHTTPRequestLineAndHeaders() starts a body and a handler.
LEMMA WritesOnly ==
    ASSUME SwiftInv, NEW p \in Pools, NEW req, NEW body, MayAcquire(p), Writes(p, req, body)
    PROVE  /\ Only(Acquired(p)) /\ Acquired(p) \in Conns
           /\ wire'[Acquired(p)].body = body /\ wire'[Acquired(p)].ended = FALSE
           /\ wire'[Acquired(p)].reply = NoReply
           /\ \/ wire'[Acquired(p)].state = "broken"
              \/ handler'[Acquired(p)] = Started(req)
  <1>1. PICK c : c = Acquired(p)
    BY Zenon
  <1>2. /\ c \in Conns /\ DOMAIN Wire(p) = WireFields /\ Wire(p).reply = NoReply
    BY Zenon, <1>1, AcquiredSpare DEF Spare
  <1>3. wire = [d \in Conns |-> wire[d]] /\ handler = [d \in Conns |-> handler[d]]
    BY Zenon DEF SwiftInv, PoolInv
  <1>4. PICK x : x = [[Wire(p) EXCEPT !.body = body] EXCEPT !.ended = FALSE]
    BY Zenon
  <1>5. x.body = body /\ x.ended = FALSE /\ x.reply = NoReply /\ x.state = Wire(p).state
    BY Zenon, <1>2, <1>4 DEF WireFields
  <1>6. wire' = [wire EXCEPT ![c] = x]
    BY Zenon, <1>1, <1>4 DEF Writes
  <1>7. \/ handler' = handler /\ Wire(p).state = "broken"
        \/ handler' = [handler EXCEPT ![c] = Started(req)]
    BY Zenon, <1>1 DEF Writes
  <1>8. Only(c) /\ wire'[c] = x
    BY Zenon, <1>2, <1>3, <1>6, <1>7 DEF Only
  <1>9. \/ handler' = handler /\ Wire(p).state = "broken"
        \/ handler'[c] = Started(req)
    BY Zenon, <1>2, <1>3, <1>7
  <1> QED BY Zenon, <1>1, <1>2, <1>5, <1>8, <1>9

\* One connection changes.
LEMMA ChangesOnly ==
    ASSUME SwiftInv, NEW c \in Conns, NEW x, wire' = [wire EXCEPT ![c] = x], handler' = handler
    PROVE  Only(c) /\ wire'[c] = x /\ handler'[c] = handler[c]
  <1>3. wire = [d \in Conns |-> wire[d]] /\ handler = [d \in Conns |-> handler[d]]
    BY Zenon DEF SwiftInv, PoolInv
  <1> QED BY Zenon, <1>3 DEF Only

\* releaseChunkedConnection() and releaseNonChunkedConnection().
LEMMA ReleasesOnly ==
    ASSUME SwiftInv, NEW c \in Conns, NEW p, NEW left, Releases(c, p) \/ KeepsAlive(c, p, left)
    PROVE  Only(c)
  <1>1. PICK x : wire' = [wire EXCEPT ![c] = x] /\ handler' = handler
    BY Zenon DEF Releases, KeepsAlive
  <1> QED BY Zenon, <1>1, ChangesOnly

-----------------------------------------------------------------------------
\* A call stays the same until it returns: when it sends a request,
LEMMA AsksCall ==
    ASSUME NEW r, DOMAIN r = Fields, NEW pc, NEW req
    PROVE  Asks(r, pc, req).call = r.call /\ DOMAIN Asks(r, pc, req) = Fields
  BY Zenon DEF Asks, Fields

\* when it returns,
LEMMA ReturnsCall ==
    ASSUME NEW r, DOMAIN r = Fields, NEW result
    PROVE  Returns(r, result).call = r.call
  BY Zenon DEF Returns, Fields

\* when Format() has another request to make,
LEMMA FormatsNextCall ==
    ASSUME NEW r, DOMAIN r = Fields
    PROVE  FormatsNext(r).call = r.call
  <1>1. PICK u : u = Asks(r, "send", Head(r.todo))
    BY Zenon
  <1>2. u.call = r.call /\ DOMAIN u = Fields
    BY Zenon, <1>1, AsksCall
  <1>3. [u EXCEPT !.todo = Tail(@)].call = r.call
    BY Zenon, <1>2 DEF Fields
  <1>4. Returns(r, [err |-> Succeeded, data |-> <<>>]).call = r.call
    BY Zenon, ReturnsCall
  <1> QED BY Zenon, <1>1, <1>3, <1>4 DEF FormatsNext

\* when Format() has a reply,
LEMMA FormatsCall ==
    ASSUME NEW r, DOMAIN r = Fields, NEW result
    PROVE  Formats(r, result).call = r.call
  <1>1. ASSUME NEW todo PROVE FormatsNext([r EXCEPT !.todo = todo]).call = r.call
    <2>1. PICK u : u = [r EXCEPT !.todo = todo]
      BY Zenon
    <2>2. u.call = r.call /\ DOMAIN u = Fields
      BY Zenon, <2>1 DEF Fields
    <2> QED BY Zenon, <2>1, <2>2, FormatsNextCall
  <1>2. FormatsNext(r).call = r.call
    BY Zenon, FormatsNextCall
  <1>3. \A x : Returns(r, x).call = r.call
    BY Zenon, ReturnsCall
  <1>4. PICK todo, objects, err :
          Formats(r, result) \in {FormatsNext(r), Returns(r, result), Returns(r, err),
                                  FormatsNext([r EXCEPT !.todo = todo]),
                                  FormatsNext([r EXCEPT !.todo = objects \o @])}
    BY ZenonT(60) DEF Formats
  <1> QED BY Zenon, <1>1, <1>2, <1>3, <1>4

\* when objectCopy() has one,
LEMMA CopiesCall ==
    ASSUME NEW r, DOMAIN r = Fields, NEW result
    PROVE  Copies(r, result).call = r.call
  <1>1. PICK u : u = Asks(r, "fetch", ObjectPut(r.call.to))
    BY Zenon
  <1>2. u.call = r.call /\ DOMAIN u = Fields
    BY Zenon, <1>1, AsksCall
  <1>3. [u EXCEPT !.size = result.data].call = r.call
    BY Zenon, <1>2 DEF Fields
  <1>4. [r EXCEPT !.pc = "chunk", !.todo = <<result.data>>,
                  !.torn = @ \/ result.err # Succeeded].call = r.call
    BY Zenon DEF Fields
  <1>5. Returns(r, result).call = r.call
    BY Zenon, ReturnsCall
  <1> QED BY Zenon, <1>1, <1>3, <1>4, <1>5 DEF Copies

\* when any call has one,
LEMMA ContinuesCall ==
    ASSUME NEW r, DOMAIN r = Fields, NEW result
    PROVE  Continues(r, result).call = r.call
  BY Zenon, FormatsCall, CopiesCall, ReturnsCall DEF Continues

\* and when a try has failed.
LEMMA TriesAgainCall ==
    ASSUME NEW r, DOMAIN r = Fields, NEW pc, NEW failed
    PROVE  TriesAgain(r, pc, failed).call = r.call
  <1>1. [r EXCEPT !.pc = pc, !.tries = @ + 1].call = r.call
    BY Zenon DEF Fields
  <1>2. Continues(r, failed).call = r.call
    BY Zenon, ContinuesCall
  <1> QED BY Zenon, <1>1, <1>2 DEF TriesAgain

\* A request that is no chunked PUT is sent.
LEMMA SendsPut ==
    ASSUME SwiftInv, PutInv, NEW w \in Workers, Sends(w)
    PROVE  PutInv'
  <1>1. PICK r : r = worker[w]
    OBVIOUS
  <1>2. DOMAIN r = Fields /\ r.call.kind # "put" /\ MayAcquire("plain") /\ "plain" \in Pools
    BY Zenon, <1>1 DEF Sends, SwiftInv, Sound, Shape, Placed, Pools
  <1>3. \E u : worker' = [worker EXCEPT ![w] = u] /\ u.call = r.call
    <2>1. CASE worker' = [worker EXCEPT ![w].pc = "await", ![w].connection = Acquired("plain")]
      <3>1. PICK u : u = [[r EXCEPT !.pc = "await"] EXCEPT !.connection = Acquired("plain")]
        BY Zenon
      <3>2. worker' = [worker EXCEPT ![w] = u]
        BY Zenon, <1>1, <2>1, <3>1 DEF SwiftInv
      <3>3. u.call = r.call
        BY Zenon, <1>2, <3>1 DEF Fields
      <3> QED BY Zenon, <3>2, <3>3
    <2>2. CASE worker' = [worker EXCEPT ![w] = TriesAgain(r, "send", Fails("BadHTTPError"))]
      BY Zenon, <1>2, <2>2, TriesAgainCall
    <2> QED BY Zenon, <1>1, <2>1, <2>2 DEF Sends
  <1>4. Unshared(w, Acquired("plain"))
    BY Zenon, <1>2, AcquiredApart
  <1>5. Only(Acquired("plain"))
    <2>1. CASE Writes("plain", r.req, <<>>)
      BY Zenon, <1>2, <2>1, WritesOnly
    <2>2. CASE WriteFails("plain")
      BY Zenon, <1>4, <2>2, ChangesOnly DEF WriteFails, Unshared
    <2> QED BY Zenon, <1>1, <2>1, <2>2 DEF Sends
  <1> QED BY Zenon, <1>2, <1>3, <1>4, <1>5, CallerPut DEF Goes

\* A request that is no chunked PUT has its reply.
LEMMA AwaitsPut ==
    ASSUME SwiftInv, PutInv, NEW w \in Workers, Awaits(w)
    PROVE  PutInv'
  <1>1. PICK r : r = worker[w]
    OBVIOUS
  <1>2. /\ DOMAIN r = Fields /\ r.call.kind # "put" /\ "plain" \in Pools
        /\ r.connection # Nobody /\ r.connection = Held(r, "plain")
    BY <1>1 DEF Awaits, SwiftInv, Sound, Shape, Placed, Pools, Held
  <1>3. \E u : worker' = [worker EXCEPT ![w] = u] /\ u.call = r.call
    <2>1. PICK done : done = [r EXCEPT !.connection = Nobody]
      BY Zenon
    <2>2. done.call = r.call /\ DOMAIN done = Fields
      BY Zenon, <1>2, <2>1 DEF Fields
    <2>3. PICK u : /\ worker' = [worker EXCEPT ![w] = u]
                   /\ \/ \E failed : u = TriesAgain(done, "send", failed)
                      \/ \E result : u = Continues(done, result)
      BY Zenon, <1>1, <2>1 DEF Awaits
    <2>4. ASSUME NEW failed, u = TriesAgain(done, "send", failed) PROVE u.call = r.call
      BY Zenon, <2>2, <2>4, TriesAgainCall
    <2>5. ASSUME NEW result, u = Continues(done, result) PROVE u.call = r.call
      BY Zenon, <2>2, <2>5, ContinuesCall
    <2>6. u.call = r.call
      BY Zenon, <2>3, <2>4, <2>5
    <2> QED BY Zenon, <2>3, <2>6
  <1>4. Unshared(w, r.connection)
    BY Zenon, <1>1, <1>2, HeldApart
  <1>5. Releases(r.connection, "plain") \/ \E left : KeepsAlive(r.connection, "plain", left)
    BY Zenon, <1>1 DEF Awaits
  <1>6. Only(r.connection)
    BY Zenon, <1>4, <1>5, ReleasesOnly DEF Unshared
  <1> QED BY ZenonT(60), <1>2, <1>3, <1>4, <1>6, CallerPut DEF Goes

-----------------------------------------------------------------------------
\* The first n chunks of a list.
LEMMA Prefixes ==
    ASSUME NEW S, NEW s \in Seq(S)
    PROVE  /\ SubSeq(s, 1, 0) = <<>> /\ SubSeq(s, 1, Len(s)) = s /\ DOMAIN s = 1..Len(s)
           /\ Len(s) \in Nat
           /\ \A n \in 0..Len(s) : SubSeq(s, 1, n) \in Seq(S)
           /\ \A n \in Nat : n < Len(s) =>
                s[n + 1] \in S /\ SubSeq(s, 1, n + 1) = Append(SubSeq(s, 1, n), s[n + 1])
  OBVIOUS

\* A caller whose chunks stay the same.
LEMMA SameChunks ==
    ASSUME NEW r, NEW u, u.call = r.call, u.position = r.position,
           u.context.bytesPut = r.context.bytesPut
    PROVE  (Given(r) => Given(u)) /\ (Whole(r) => Whole(u))
  BY Zenon DEF Given, Whole

\* A PUT that has failed promises nothing.
LEMMA FailedPut ==
    ASSUME NEW u, u.pc = "idle", u.result.err # Succeeded
    PROVE  Putting(u)
  BY Zenon DEF Putting

\* The handler that a chunked PUT starts is busy with the PUT of an object.
LEMMA StartedPut ==
    ASSUME NEW call, WellFormed(call), call.kind = "put"
    PROVE  Serves(Started(ObjectPut(call.to)))
  <1>1. PICK req : req = ObjectPut(call.to)
    BY Zenon
  <1>2. req.method = "PUT" /\ Level(req) = Object
    BY Zenon, <1>1 DEF ObjectPut, Request, Level, WellFormed
  <1>3. PICK h : h = Started(req)
    BY Zenon
  <1>4. {"step", "req"} \subseteq DOMAIN h /\ h.step = "walk" /\ h.req = req
    BY Zenon, <1>3 DEF Started
  <1> QED BY Zenon, <1>1, <1>2, <1>3, <1>4 DEF Serves

\* A caller without a connection for a chunked PUT.
LEMMA NoConnection ==
    ASSUME NEW u, u.context.connection = Nobody
    PROVE  \A c \in Conns : c = u.context.connection => Carries(u, wire'[c], handler'[c])
  BY Zenon, NobodyIsNoConnection

\* A call begins, with none of its chunks sent.
LEMMA BeginsPut ==
    ASSUME SwiftInv, PutInv, NEW w \in Workers, Begins(w)
    PROVE  PutInv'
  <1>1. PICK r : r = worker[w]
    OBVIOUS
  <1>2. PICK S : r.plan \in Seq(S) /\ \A call \in S : WellFormed(call)
    BY Zenon, <1>1 DEF SwiftInv, Sound, Shape, Planned
  <1>3. PICK call : call = Head(r.plan)
    BY Zenon
  <1>4. WellFormed(call)
    <2>1. r.plan # <<>>
      BY Zenon, <1>1 DEF Begins
    <2>2. call \in S
      BY <1>2, <1>3, <2>1
    <2> QED BY Zenon, <1>2, <2>2
  <1>5. PICK fresh : fresh = [[Idle EXCEPT !.plan = Tail(r.plan)] EXCEPT !.call = call]
    BY Zenon
  <1>6. /\ DOMAIN fresh = Fields /\ fresh.call = call /\ fresh.context = NoContext
        /\ fresh.closed = FALSE /\ fresh.position = 0
    BY Zenon, <1>5 DEF Idle, Fields
  <1>7. call.kind \in Calls
    BY Zenon, <1>4 DEF WellFormed
  <1>8. PICK pc, req : /\ worker' = [worker EXCEPT ![w] = Asks(fresh, pc, req)]
                       /\ call.kind = "put" => pc = "fetch" /\ req = ObjectPut(call.to)
    <2>1. CASE call.kind = "request"
      BY Zenon, <1>1, <1>3, <1>5, <2>1 DEF Begins
    <2>2. CASE call.kind = "put"
      BY Zenon, <1>1, <1>3, <1>5, <2>2 DEF Begins
    <2>3. CASE call.kind = "copy"
      BY Zenon, <1>1, <1>3, <1>5, <2>3 DEF Begins
    <2>4. CASE call.kind = "format"
      BY Zenon, <1>1, <1>3, <1>5, <2>4 DEF Begins
    <2> QED BY Zenon, <1>7, <2>1, <2>2, <2>3, <2>4 DEF Calls
  <1>9. PICK u : u = Asks(fresh, pc, req)
    BY Zenon
  <1>10. /\ u.call = call /\ u.pc = pc /\ u.req = req /\ u.context = NoContext
         /\ u.closed = FALSE /\ u.position = 0
    BY Zenon, <1>6, <1>9 DEF Asks, Fields
  <1>11. u.context.connection = Nobody /\ u.context.fatal = FALSE
    BY <1>10 DEF NoContext
  <1>12. call.kind = "put" => Putting(u)
    <2> HAVE call.kind = "put"
    <2>1. u.pc = "fetch" /\ u.req = ObjectPut(u.call.to) /\ ~u.closed /\ ~u.context.fatal
      BY Zenon, <1>8, <1>10, <1>11
    <2> QED BY Zenon, <1>10, <2>1 DEF Putting
  <1>13. Goes(w, u)
    BY Zenon, <1>4, <1>8, <1>9, <1>10, <1>11, <1>12, NoConnection DEF Goes
  <1>14. UNCHANGED <<wire, handler>>
    BY Zenon DEF Begins, serverVars
  <1> QED BY Zenon, <1>13, <1>14, CallerPut

\* objectFetchChunkedPutContext() starts a PUT without a chunk, or fails to.
LEMMA FetchesContextPut ==
    ASSUME SwiftInv, PutInv, NEW w \in Workers, FetchesContext(w)
    PROVE  PutInv'
  <1>1. PICK r : r = worker[w]
    OBVIOUS
  <1>2. /\ DOMAIN r = Fields /\ r.pc = "fetch" /\ r.context.connection = Nobody
        /\ MayAcquire("chunked") /\ "chunked" \in Pools
    BY Zenon, <1>1 DEF FetchesContext, SwiftInv, Sound, Shape, Placed, Pools
  <1>3. r.call.kind = "put" =>
          /\ WellFormed(r.call) /\ ~r.closed /\ ~r.context.fatal
          /\ r.position = 0 /\ r.req = ObjectPut(r.call.to)
    BY Zenon, <1>1, <1>2 DEF PutInv, PutOK, Putting
  <1>4. PICK c : c = Acquired("chunked")
    BY Zenon
  <1>5. Unshared(w, c) /\ c \in Conns
    BY Zenon, <1>2, <1>4, AcquiredApart DEF Unshared
  <1>6. CASE /\ Writes("chunked", r.req, <<>>)
             /\ worker' = [worker EXCEPT ![w].pc = "open",
                             ![w].context = [NoContext EXCEPT !.connection = Acquired("chunked"),
                                                              !.active = TRUE]]
    <2>1. PICK k : k = [NoContext EXCEPT !.connection = c, !.active = TRUE]
      BY Zenon
    <2>2. k.connection = c /\ k.fatal = FALSE /\ k.bytesPut = <<>>
      BY Zenon, <2>1 DEF NoContext
    <2>3. PICK u : u = [r EXCEPT !.pc = "open", !.context = k]
      BY Zenon
    <2>4. worker' = [worker EXCEPT ![w] = u]
      BY ZenonT(60), <1>1, <1>4, <1>6, <2>1, <2>3 DEF SwiftInv
    <2>5. /\ u.pc = "open" /\ u.context = k /\ u.call = r.call /\ u.position = r.position
          /\ u.closed = r.closed
      BY Zenon, <1>2, <2>3 DEF Fields
    <2>6. /\ Only(c) /\ wire'[c].body = <<>> /\ wire'[c].ended = FALSE /\ wire'[c].reply = NoReply
          /\ wire'[c].state = "broken" \/ handler'[c] = Started(r.req)
      BY Zenon, <1>2, <1>4, <1>6, WritesOnly
    <2>7. ASSUME u.call.kind = "put"
          PROVE  /\ WellFormed(u.call) /\ Putting(u)
                 /\ \A d \in Conns : d = u.context.connection => Carries(u, wire'[d], handler'[d])
      <3>1. /\ WellFormed(r.call) /\ ~r.closed /\ r.position = 0 /\ r.req = ObjectPut(r.call.to)
            /\ r.call.kind = "put"
        BY Zenon, <1>3, <2>5, <2>7
      <3>2. r.call.chunks \in Seq(Range(r.call.chunks))
        BY Zenon, <3>1 DEF WellFormed
      <3>3. SubSeq(r.call.chunks, 1, 0) = <<>> /\ Len(r.call.chunks) \in Nat
        BY Zenon, <3>2, Prefixes
      <3>4. Given(u)
        <4>1. u.position = 0 /\ u.context.bytesPut = SubSeq(u.call.chunks, 1, 0)
          BY Zenon, <2>2, <2>5, <3>1, <3>3
        <4>2. 0 \in 0..Len(u.call.chunks) /\ 1..0 = {}
          BY <2>5, <3>3
        <4> QED BY Zenon, <4>1, <4>2 DEF Given
      <3>5. Putting(u)
        BY Zenon, <2>2, <2>5, <3>1, <3>4 DEF Putting
      <3>6. Serves(Started(r.req))
        BY Zenon, <3>1, StartedPut
      <3>7. Carries(u, wire'[c], handler'[c])
        BY Zenon, <2>2, <2>5, <2>6, <3>6, ConcatEmpty DEF Carries, Watched
      <3> QED BY Zenon, <2>2, <2>5, <3>1, <3>5, <3>7
    <2>8. Goes(w, u)
      BY Zenon, <2>4, <2>7 DEF Goes
    <2> QED BY Zenon, <1>5, <2>6, <2>8, CallerPut
  <1>7. CASE /\ wire' = [wire EXCEPT ![Acquired("chunked")] = Unused] /\ handler' = handler
             /\ worker' = [worker EXCEPT ![w] = TriesAgain(r, "fetch", Fails("BadHTTPPutError"))]
    <2>1. PICK u : u = TriesAgain(r, "fetch", Fails("BadHTTPPutError"))
      BY Zenon
    <2>2. u.call = r.call
      BY Zenon, <1>2, <2>1, TriesAgainCall
    <2>3. ASSUME u.call.kind = "put"
          PROVE  /\ WellFormed(u.call) /\ Putting(u)
                 /\ \A d \in Conns : d = u.context.connection => Carries(u, wire'[d], handler'[d])
      <3>1. r.call.kind = "put"
        BY Zenon, <2>2, <2>3
      <3>2. \/ u = [r EXCEPT !.pc = "fetch", !.tries = @ + 1]
            \/ u = Returns(r, Fails("BadHTTPPutError"))
        BY <2>1, <3>1, Zenon DEF TriesAgain, Continues
      <3>3. CASE u = [r EXCEPT !.pc = "fetch", !.tries = @ + 1]
        <4>1. /\ u.pc = "fetch" /\ u.context = r.context /\ u.position = r.position
              /\ u.closed = r.closed /\ u.req = r.req
          BY Zenon, <1>2, <3>3 DEF Fields
        <4>2. Putting(u)
          BY Zenon, <1>3, <2>2, <3>1, <4>1 DEF Putting
        <4> QED BY Zenon, <1>2, <1>3, <2>2, <3>1, <4>1, <4>2, NoConnection
      <3>4. CASE u = Returns(r, Fails("BadHTTPPutError"))
        <4>1. u.pc = "idle" /\ u.result = Fails("BadHTTPPutError") /\ u.context = r.context
          BY Zenon, <1>2, <3>4 DEF Fields, Returns
        <4>2. u.result.err # Succeeded
          BY <4>1 DEF Fails, Succeeded
        <4> QED BY Zenon, <1>2, <1>3, <2>2, <3>1, <4>1, <4>2, NoConnection, FailedPut
      <3> QED BY Zenon, <3>2, <3>3, <3>4
    <2>4. Goes(w, u)
      BY Zenon, <1>7, <2>1, <2>3 DEF Goes
    <2>5. Only(c)
      BY Zenon, <1>4, <1>5, <1>7, ChangesOnly
    <2> QED BY Zenon, <1>5, <2>4, <2>5, CallerPut
  <1> QED BY Zenon, <1>1, <1>6, <1>7 DEF FetchesContext, WriteFails

\* SendChunk() refuses a chunk of no bytes.
LEMMA RefusesChunkPut ==
    ASSUME SwiftInv, PutInv, NEW w \in Workers, RefusesChunk(w)
    PROVE  PutInv'
  <1>1. PICK r : r = worker[w]
    OBVIOUS
  <1>2. HasChunk(r)
    BY Zenon, <1>1 DEF RefusesChunk
  <1>3. /\ DOMAIN r = Fields /\ DOMAIN r.context = ContextFields /\ r.context.connection # Nobody
        /\ "chunked" \in Pools
    BY Zenon, <1>1, <1>2, HasContext DEF Pools
  <1>4. PICK c : c = r.context.connection
    BY Zenon
  <1>5. c # Nobody /\ c = Held(worker[w], "chunked") /\ Releases(c, "chunked")
    BY Zenon, <1>1, <1>3, <1>4 DEF Held, RefusesChunk
  <1>6. Unshared(w, c) /\ Only(c)
    <2>1. Unshared(w, c)
      BY Zenon, <1>3, <1>5, HeldApart
    <2> QED BY Zenon, <1>5, <2>1, ReleasesOnly DEF Unshared
  <1>7. PICK k : k = [r.context EXCEPT !.err = TRUE, !.fatal = TRUE, !.connection = Nobody]
    BY Zenon
  <1>8. k.connection = Nobody /\ k.err /\ k.fatal
    BY Zenon, <1>3, <1>7 DEF ContextFields
  <1>9. PICK refused : refused = [r EXCEPT !.context = k]
    BY Zenon
  <1>10. refused = [r EXCEPT !.context.err = TRUE, !.context.fatal = TRUE, !.context.connection = Nobody]
    BY Zenon, <1>3, <1>7, <1>9 DEF Fields
  <1>11. /\ DOMAIN refused = Fields /\ refused.context = k /\ refused.call = r.call
         /\ refused.closed = r.closed
    BY Zenon, <1>3, <1>9 DEF Fields
  <1>12. r.call.kind = "put" => WellFormed(r.call) /\ ~r.closed
    <2> HAVE r.call.kind = "put"
    <2>1. r.pc = "open"
      BY Zenon, <1>1, <1>2 DEF HasChunk, PutInv, PutOK, Putting
    <2> QED BY Zenon, <1>1, <2>1 DEF PutInv, PutOK, Putting
  <1>13. ASSUME NEW u, u.call = r.call, u.context = k, Putting(u), worker' = [worker EXCEPT ![w] = u]
         PROVE  PutInv'
    <2>1. Goes(w, u)
      BY Zenon, <1>8, <1>12, <1>13, NoConnection DEF Goes
    <2> QED BY Zenon, <1>6, <2>1, CallerPut
  <1>14. CASE worker' = [worker EXCEPT ![w] = Returns(refused, Fails("BadHTTPPutError"))]
    <2>1. PICK u : u = Returns(refused, Fails("BadHTTPPutError"))
      BY Zenon
    <2>2. /\ u.call = r.call /\ u.context = k /\ u.pc = "idle"
          /\ u.result = Fails("BadHTTPPutError")
      BY Zenon, <1>11, <2>1 DEF Returns, Fields
    <2>3. u.result.err # Succeeded
      BY <2>2 DEF Fails, Succeeded
    <2> QED BY Zenon, <1>13, <1>14, <2>1, <2>2, <2>3, FailedPut
  <1>15. CASE worker' = [worker EXCEPT ![w] = [refused EXCEPT !.pc = "close"]] /\ r.call.kind = "put"
    <2>1. PICK u : u = [refused EXCEPT !.pc = "close"]
      BY Zenon
    <2>2. u.call = r.call /\ u.context = k /\ u.pc = "close" /\ u.closed = r.closed
      BY Zenon, <1>11, <2>1 DEF Fields
    <2>3. Putting(u)
      BY Zenon, <1>8, <1>12, <1>15, <2>2 DEF Putting
    <2> QED BY Zenon, <1>13, <1>15, <2>1, <2>2, <2>3
  <1> QED BY <1>1, <1>10, <1>14, <1>15, Zenon DEF RefusesChunk

\* SendChunk() keeps a chunk, and sends it unless an earlier one failed.
LEMMA SendsChunkPut ==
    ASSUME SwiftInv, PutInv, NEW w \in Workers, SendsChunk(w)
    PROVE  PutInv'
  <1>1. PICK r : r = worker[w]
    OBVIOUS
  <1>2. HasChunk(r) /\ Buf(r) # <<>>
    BY Zenon, <1>1 DEF SendsChunk
  <1>3. /\ DOMAIN r = Fields /\ DOMAIN r.context = ContextFields /\ r.context.connection # Nobody
        /\ r.context.connection \in Conns /\ "chunked" \in Pools
    BY Zenon, <1>1, <1>2, HasContext DEF Pools
  <1>4. PICK c \in Conns : c = r.context.connection
    BY Zenon, <1>3
  <1>5. Unshared(w, c)
    BY Zenon, <1>1, <1>3, <1>4, HeldApart DEF Held
  <1>6. PICK s : s = ChunkSent(r)
    BY Zenon
  <1>7. DOMAIN s = Fields /\ s.call = r.call
    BY Zenon, <1>3, <1>6 DEF ChunkSent, Fields
  <1>8. PICK k : k = Stashed(r)
    BY Zenon
  <1>9. /\ DOMAIN k = ContextFields /\ k.connection = c /\ k.err = r.context.err
        /\ k.fatal = r.context.fatal /\ k.bytesPut = Append(r.context.bytesPut, Buf(r))
    BY Zenon, <1>3, <1>4, <1>8 DEF Stashed, ContextFields
  <1>10. PICK e : e = [k EXCEPT !.err = TRUE]
    BY Zenon
  <1>11. /\ e.connection = c /\ e.err = TRUE /\ e.fatal = k.fatal /\ e.bytesPut = k.bytesPut
    BY Zenon, <1>9, <1>10 DEF ContextFields
  <1>12. PICK x : x = [wire[c] EXCEPT !.body = IF wire[c].state = "broken" THEN @ ELSE @ \o Buf(r)]
    BY Zenon
  <1>13. /\ x.state = wire[c].state /\ x.ended = wire[c].ended /\ x.reply = wire[c].reply
         /\ wire[c].state # "broken" => x.body = wire[c].body \o Buf(r)
    <2>1. DOMAIN wire[c] = WireFields
      BY Zenon DEF SwiftInv, PoolInv, Quiet
    <2> QED BY Zenon, <1>12, <2>1 DEF WireFields
  <1>14. PICK n, d :
           /\ worker' = [worker EXCEPT ![w] = [s EXCEPT !.context = n]]
           /\ wire' = [wire EXCEPT ![c] = d] /\ handler' = handler
           /\ \/ n = k /\ r.context.err
              \/ n = e
              \/ n = k /\ ~r.context.err /\ d = x
    <2>1. handler' = handler
      BY Zenon DEF SendsChunk
    <2>2. wire' = wire => wire' = [wire EXCEPT ![c] = wire[c]]
      BY Zenon DEF SwiftInv, PoolInv
    <2>3. CASE /\ r.context.err /\ wire' = wire
               /\ worker' = [worker EXCEPT ![w] = [ChunkSent(r) EXCEPT !.context = Stashed(r)]]
      BY Zenon, <1>6, <1>8, <2>1, <2>2, <2>3
    <2>4. CASE /\ ~r.context.err
               /\ wire' = [wire EXCEPT ![c].body = IF wire[c].state = "broken" THEN @ ELSE @ \o Buf(r)]
               /\ worker' = [worker EXCEPT ![w] = [ChunkSent(r) EXCEPT !.context = Stashed(r)]]
      BY Zenon, <1>6, <1>8, <1>12, <2>1, <2>4
    <2>5. CASE /\ wire' = wire
               /\ worker' = [worker EXCEPT ![w] = [ChunkSent(r) EXCEPT
                                                     !.context = [Stashed(r) EXCEPT !.err = TRUE]]]
      BY Zenon, <1>6, <1>8, <1>10, <2>1, <2>2, <2>5
    <2> QED BY <1>1, <1>4, <2>3, <2>4, <2>5, Zenon DEF SendsChunk
  <1>15. PICK u : u = [s EXCEPT !.context = n]
    BY Zenon
  <1>16. /\ u.call = r.call /\ u.context = n /\ u.pc = s.pc /\ u.position = s.position
         /\ u.closed = s.closed
    BY Zenon, <1>7, <1>15 DEF Fields
  <1>17. /\ n.connection = c /\ n.fatal = r.context.fatal
         /\ n.bytesPut = Append(r.context.bytesPut, Buf(r))
    BY Zenon, <1>9, <1>11, <1>14
  <1>18. Only(c) /\ wire'[c] = d /\ handler'[c] = handler[c]
    BY Zenon, <1>14, ChangesOnly
  <1>19. ASSUME u.call.kind = "put"
         PROVE  /\ WellFormed(u.call) /\ Putting(u)
                /\ \A b \in Conns : b = u.context.connection => Carries(u, wire'[b], handler'[b])
    <2>1. r.call.kind = "put"
      BY Zenon, <1>16, <1>19
    <2>2. WellFormed(r.call) /\ Putting(r) /\ Carries(r, wire[c], handler[c])
      BY ZenonT(60), <1>1, <1>4, <2>1 DEF PutInv, PutOK
    <2>3. r.pc = "open" /\ r.position < Len(r.call.chunks)
      BY Zenon, <1>2, <2>2 DEF HasChunk, Putting
    <2>4. ~r.closed /\ ~r.context.fatal /\ Given(r)
      BY Zenon, <2>2, <2>3 DEF Putting
    <2>5. PICK chunks : chunks = r.call.chunks
      BY Zenon
    <2>6. PICK S : chunks \in Seq(S)
      BY Zenon, <2>1, <2>2, <2>5 DEF WellFormed
    <2>7. PICK i : i = r.position
      BY Zenon
    <2>8. /\ i \in 0..Len(chunks) /\ r.context.bytesPut = SubSeq(chunks, 1, i)
          /\ \A j \in 1..i : chunks[j] # <<>>
      BY ZenonT(60), <2>4, <2>5, <2>7 DEF Given
    <2>9. Buf(r) = chunks[i + 1] /\ s.position = i + 1 /\ s.pc = "open" /\ s.closed = r.closed
      BY Zenon, <1>3, <1>6, <2>1, <2>3, <2>5, <2>7 DEF Buf, ChunkSent, Fields
    <2>10. i \in Nat /\ i < Len(chunks) /\ Len(chunks) \in Nat /\ i + 1 \in 0..Len(chunks)
      BY <2>3, <2>5, <2>6, <2>7, <2>8
    <2>11. /\ chunks[i + 1] \in S /\ SubSeq(chunks, 1, i) \in Seq(S)
           /\ SubSeq(chunks, 1, i + 1) = Append(SubSeq(chunks, 1, i), chunks[i + 1])
      <3>1. SubSeq(chunks, 1, i) \in Seq(S)
        BY Zenon, <2>6, <2>8, Prefixes
      <3>2. /\ chunks[i + 1] \in S
            /\ SubSeq(chunks, 1, i + 1) = Append(SubSeq(chunks, 1, i), chunks[i + 1])
        BY ZenonT(60), <2>6, <2>10, Prefixes
      <3> QED BY Zenon, <3>1, <3>2
    <2>12. n.bytesPut = SubSeq(chunks, 1, i + 1)
      BY Zenon, <1>17, <2>8, <2>9, <2>11
    <2>13. \A j \in 1..(i + 1) : chunks[j] # <<>>
      BY <1>2, <2>8, <2>9, <2>10
    <2>14. Given(u)
      BY Zenon, <1>16, <2>5, <2>9, <2>10, <2>12, <2>13 DEF Given
    <2>15. Putting(u)
      BY Zenon, <1>16, <1>17, <2>4, <2>9, <2>14 DEF Putting
    <2>16. Concat(n.bytesPut) = Concat(r.context.bytesPut) \o Buf(r)
      <3>1. PICK front, chunk : front = SubSeq(chunks, 1, i) /\ chunk = chunks[i + 1]
        BY Zenon
      <3>2. Concat(Append(front, chunk)) = Concat(front) \o chunk
        BY Zenon, <2>11, <3>1, ConcatAppend
      <3> QED BY Zenon, <2>8, <2>9, <2>11, <2>12, <3>1, <3>2
    <2>17. ASSUME Watched(u, d)
           PROVE  /\ d.body = Concat(n.bytesPut)
                  /\ d.ended => u.pc = "closing"
                  /\ d.reply # NoReply =>
                       \/ FsErr(d.reply.status) # Succeeded
                       \/ u.pc = "closing" /\ d.reply.data = d.body
                  /\ handler'[c] # Waiting => Serves(handler'[c])
      <3>1. ~n.err /\ d.state # "broken"
        BY Zenon, <1>16, <2>17 DEF Watched
      <3>2. n = k /\ ~r.context.err /\ d = x
        BY Zenon, <1>9, <1>11, <1>14, <3>1
      <3>3. wire[c].state # "broken"
        BY Zenon, <1>13, <3>1, <3>2
      <3>4. Watched(r, wire[c])
        BY Zenon, <2>3, <3>2, <3>3 DEF Watched
      <3>5. /\ wire[c].body = Concat(r.context.bytesPut) /\ ~wire[c].ended
            /\ wire[c].reply # NoReply => FsErr(wire[c].reply.status) # Succeeded
            /\ handler[c] # Waiting => Serves(handler[c])
        BY Zenon, <2>2, <2>3, <3>4 DEF Carries
      <3> QED BY Zenon, <1>13, <1>18, <2>16, <3>2, <3>3, <3>5
    <2>18. Carries(u, d, handler'[c])
      BY Zenon, <1>16, <2>17 DEF Carries
    <2> QED BY Zenon, <1>16, <1>17, <1>18, <2>1, <2>2, <2>15, <2>18
  <1>20. Goes(w, u)
    BY ZenonT(60), <1>14, <1>15, <1>19 DEF Goes
  <1> QED BY Zenon, <1>5, <1>18, <1>20, CallerPut

\* What a caller becomes when closeHelper() has failed.
LEMMA CloseFailsPut ==
    ASSUME NEW r, DOMAIN r = Fields, DOMAIN r.context = ContextFields, NEW err, err # Succeeded
    PROVE  /\ CloseFails(r, err).call = r.call
           /\ CloseFails(r, err).context.connection = Nobody
           /\ \/ r.context.fatal /\ ~r.closed
              \/ ~r.context.fatal /\ Whole(r)
              => Putting(CloseFails(r, err))
  <1>1. PICK h : h = HasClosed(r)
    BY Zenon
  <1>2. /\ DOMAIN h = Fields /\ h.context.connection = Nobody /\ h.context.fatal = r.context.fatal
        /\ h.context.bytesPut = r.context.bytesPut /\ h.call = r.call /\ h.position = r.position
    BY Zenon, <1>1 DEF HasClosed, Fields, ContextFields
  <1>3. CASE \E a, b : CloseFails(r, err) = [h EXCEPT !.pc = "reopen", !.closed = a, !.tries = b]
             /\ ~(r.context.fatal /\ ~r.closed)
    <2>1. PICK a, b : CloseFails(r, err) = [h EXCEPT !.pc = "reopen", !.closed = a, !.tries = b]
      BY Zenon, <1>3
    <2>2. PICK u : u = [h EXCEPT !.pc = "reopen", !.closed = a, !.tries = b]
      BY Zenon
    <2>3. u.pc = "reopen" /\ u.context = h.context /\ u.call = r.call /\ u.position = r.position
      BY Zenon, <1>2, <2>2 DEF Fields
    <2>4. Whole(r) => Whole(u)
      BY Zenon, <1>2, <2>3, SameChunks
    <2>5. ~r.context.fatal /\ Whole(r) => Putting(u)
      BY Zenon, <1>2, <2>3, <2>4 DEF Putting
    <2> QED BY Zenon, <1>2, <1>3, <2>1, <2>2, <2>3, <2>5
  <1>4. CASE CloseFails(r, err) = Returns(h, Fails(err))
    <2>1. PICK u : u = Returns(h, Fails(err))
      BY Zenon
    <2>2. u.pc = "idle" /\ u.context = h.context /\ u.call = r.call /\ u.result = Fails(err)
      BY Zenon, <1>2, <2>1 DEF Fields, Returns
    <2>3. u.result.err # Succeeded
      BY <2>2 DEF Fails
    <2> QED BY ZenonT(60), <1>2, <1>4, <2>1, <2>2, <2>3, FailedPut
  <1>5. CASE ~r.closed /\ ~r.context.fatal
    <2>1. CloseFails(r, err) = [h EXCEPT !.pc = "reopen", !.closed = TRUE, !.tries = 1]
      BY Zenon, <1>1, <1>5 DEF CloseFails, Hopeless
    <2> QED BY Zenon, <1>3, <1>5, <2>1
  <1>6. CASE r.closed /\ MayRetry(r)
    <2>1. CloseFails(r, err) = [h EXCEPT !.pc = "reopen", !.tries = @ + 1]
      BY Zenon, <1>1, <1>6 DEF CloseFails
    <2>2. [h EXCEPT !.pc = "reopen", !.tries = @ + 1]
            = [h EXCEPT !.pc = "reopen", !.closed = h.closed, !.tries = h.tries + 1]
      BY Zenon, <1>2 DEF Fields
    <2> QED BY Zenon, <1>3, <1>6, <2>1, <2>2
  <1>7. CASE (~r.closed /\ r.context.fatal) \/ (r.closed /\ ~MayRetry(r))
    BY Zenon, <1>1, <1>4, <1>7 DEF CloseFails, Hopeless
  <1> QED BY Zenon, <1>5, <1>6, <1>7

\* closeHelper() fails and gives back the connection, if there is one.
LEMMA ClosesBadly ==
    ASSUME SwiftInv, PutInv, NEW w \in Workers, NEW r, r = worker[w],
           Complete(r) \/ r.pc = "closing", NEW err, err # Succeeded,
           worker' = [worker EXCEPT ![w] = CloseFails(r, err)],
           \/ r.context.connection # Nobody /\ Releases(r.context.connection, "chunked")
           \/ UNCHANGED <<wire, handler>>
    PROVE  PutInv'
  <1>1. DOMAIN r = Fields /\ DOMAIN r.context = ContextFields /\ "chunked" \in Pools
    BY Zenon, HasContext DEF Pools
  <1>2. PICK u : u = CloseFails(r, err)
    BY Zenon
  <1>3. ASSUME r.call.kind = "put"
        PROVE  /\ WellFormed(r.call)
               /\ \/ r.context.fatal /\ ~r.closed
                  \/ ~r.context.fatal /\ Whole(r)
    <2>1. WellFormed(r.call) /\ Putting(r)
      BY Zenon, <1>3 DEF PutInv, PutOK
    <2>2. CASE r.pc \in {"close", "closing"}
      BY Zenon, <2>1, <2>2 DEF Putting
    <2>3. CASE r.pc = "open" /\ r.position = Len(r.call.chunks)
      BY Zenon, <2>1, <2>3 DEF Putting, Whole
    <2> QED BY Zenon, <1>3, <2>2, <2>3 DEF Complete
  <1>4. Goes(w, u)
    <2>1. u.call = r.call /\ u.context.connection = Nobody
      BY Zenon, <1>1, <1>2, CloseFailsPut
    <2>2. u.call.kind = "put" => WellFormed(u.call) /\ Putting(u)
      BY Zenon, <1>1, <1>2, <1>3, <2>1, CloseFailsPut
    <2> QED BY Zenon, <1>2, <2>1, <2>2, NoConnection DEF Goes
  <1>5. CASE r.context.connection # Nobody /\ Releases(r.context.connection, "chunked")
    <2>1. PICK c : c = r.context.connection
      BY Zenon
    <2>2. c # Nobody /\ c = Held(worker[w], "chunked") /\ Releases(c, "chunked")
      BY Zenon, <1>5, <2>1 DEF Held
    <2>3. Unshared(w, c)
      BY Zenon, <1>1, <2>2, HeldApart
    <2>4. Only(c)
      BY Zenon, <2>2, <2>3, ReleasesOnly DEF Unshared
    <2> QED BY Zenon, <1>4, <2>3, <2>4, CallerPut
  <1>6. CASE UNCHANGED <<wire, handler>>
    BY Zenon, <1>4, <1>6, CallerPut
  <1> QED BY Zenon, <1>5, <1>6

\* closeHelper() ends the body, or finds that the PUT has failed already.
LEMMA ClosesPut ==
    ASSUME SwiftInv, PutInv, NEW w \in Workers, Closes(w)
    PROVE  PutInv'
  <1>1. PICK r : r = worker[w]
    OBVIOUS
  <1>2. Complete(r)
    BY Zenon, <1>1 DEF Closes
  <1>3. /\ DOMAIN r = Fields /\ DOMAIN r.context = ContextFields
        /\ r.context.connection \in Conns \cup {Nobody} /\ "chunked" \in Pools
        /\ r.context.connection # Nobody \/ r.context.err
    BY ZenonT(60), <1>1, <1>2, HasContext DEF Pools
  <1>4. "BadHTTPPutError" # Succeeded
    BY Zenon DEF Succeeded
  <1>5. CASE ClosesFailed(w) /\ worker' = [worker EXCEPT ![w] = CloseFails(r, "BadHTTPPutError")]
    <2>1. \/ r.context.connection # Nobody /\ Releases(r.context.connection, "chunked")
          \/ UNCHANGED <<wire, handler>>
      BY Zenon, <1>1, <1>5 DEF ClosesFailed
    <2> QED BY ZenonT(60), <1>1, <1>2, <1>4, <1>5, <2>1, ClosesBadly
  <1>6. CASE /\ ~r.context.err /\ Releases(r.context.connection, "chunked")
             /\ worker' = [worker EXCEPT ![w] = CloseFails(r, "BadHTTPPutError")]
    BY ZenonT(60), <1>1, <1>2, <1>3, <1>4, <1>6, ClosesBadly
  <1>7. CASE /\ ~r.context.err
             /\ wire' = [wire EXCEPT ![r.context.connection].ended =
                           wire[r.context.connection].state # "broken"]
             /\ worker' = [worker EXCEPT ![w].pc = "closing", ![w].context.active = FALSE]
             /\ handler' = handler
    <2>1. PICK c \in Conns : c = r.context.connection
      BY Zenon, <1>3, <1>7
    <2>2. c # Nobody
      BY Zenon, NobodyIsNoConnection
    <2>3. Unshared(w, c)
      BY Zenon, <1>1, <1>3, <2>1, <2>2, HeldApart DEF Held
    <2>4. PICK k : k = [r.context EXCEPT !.active = FALSE]
      BY Zenon
    <2>5. /\ k.connection = c /\ k.err = r.context.err /\ k.fatal = r.context.fatal
          /\ k.bytesPut = r.context.bytesPut
      BY ZenonT(60), <1>3, <2>1, <2>4 DEF ContextFields
    <2>6. PICK u : u = [r EXCEPT !.pc = "closing", !.context = k]
      BY Zenon
    <2>7. u.pc = "closing" /\ u.context = k /\ u.call = r.call /\ u.position = r.position
      BY Zenon, <1>3, <2>6 DEF Fields
    <2>8. worker' = [worker EXCEPT ![w] = u]
      BY ZenonT(60), <1>1, <1>3, <1>7, <2>4, <2>6 DEF SwiftInv, Fields
    <2>9. PICK x : x = [wire[c] EXCEPT !.ended = wire[c].state # "broken"]
      BY Zenon
    <2>10. x.state = wire[c].state /\ x.reply = wire[c].reply /\ x.body = wire[c].body
      <3>1. DOMAIN wire[c] = WireFields
        BY Zenon DEF SwiftInv, PoolInv, Quiet
      <3> QED BY Zenon, <2>9, <3>1 DEF WireFields
    <2>11. wire' = [wire EXCEPT ![c] = x]
      BY ZenonT(60), <1>7, <2>1, <2>9
    <2>12. Only(c) /\ wire'[c] = x /\ handler'[c] = handler[c]
      BY Zenon, <1>7, <2>11, ChangesOnly
    <2>13. ASSUME u.call.kind = "put"
           PROVE  /\ WellFormed(u.call) /\ Putting(u)
                  /\ \A d \in Conns : d = u.context.connection => Carries(u, wire'[d], handler'[d])
      <3>1. /\ r.call.kind = "put" /\ WellFormed(r.call) /\ Putting(r)
            /\ Carries(r, wire[c], handler[c])
        BY Zenon, <1>1, <2>1, <2>7, <2>13 DEF PutInv, PutOK
      <3>2. r.pc \in {"open", "close"} /\ ~r.context.fatal /\ Whole(r)
        <4>1. CASE r.pc = "close"
          BY Zenon, <1>7, <3>1, <4>1 DEF Putting
        <4>2. CASE r.pc = "open" /\ r.position = Len(r.call.chunks)
          BY Zenon, <3>1, <4>2 DEF Putting, Whole
        <4> QED BY Zenon, <1>2, <3>1, <4>1, <4>2 DEF Complete
      <3>3. Whole(u)
        BY Zenon, <2>5, <2>7, <3>2, SameChunks
      <3>4. Putting(u)
        BY Zenon, <1>7, <2>5, <2>7, <3>2, <3>3 DEF Putting
      <3>5. ASSUME x.state # "broken" PROVE Carries(u, x, handler[c])
        <4>1. Watched(r, wire[c]) /\ r.pc # "closing"
          BY Zenon, <1>7, <2>10, <3>2, <3>5 DEF Watched
        <4>2. /\ wire[c].body = Concat(r.context.bytesPut)
              /\ wire[c].reply # NoReply => FsErr(wire[c].reply.status) # Succeeded
              /\ handler[c] # Waiting => Serves(handler[c])
          BY Zenon, <3>1, <4>1 DEF Carries
        <4> QED BY Zenon, <2>5, <2>7, <2>10, <4>2 DEF Carries
      <3>6. Carries(u, x, handler[c])
        BY Zenon, <3>5 DEF Carries, Watched
      <3> QED BY Zenon, <2>5, <2>7, <2>12, <3>1, <3>4, <3>6
    <2>14. Goes(w, u)
      BY Zenon, <2>8, <2>13 DEF Goes
    <2> QED BY Zenon, <2>3, <2>12, <2>14, CallerPut
  <1> QED BY <1>1, <1>5, <1>6, <1>7, ZenonT(60) DEF Closes

\* closeHelper() reads the reply to the whole body, or cannot.
LEMMA AwaitsClosePut ==
    ASSUME SwiftInv, PutInv, NEW w \in Workers, AwaitsClose(w)
    PROVE  PutInv'
  <1>1. PICK r : r = worker[w]
    OBVIOUS
  <1>2. r.pc = "closing"
    BY Zenon, <1>1 DEF AwaitsClose
  <1>3. /\ DOMAIN r = Fields /\ DOMAIN r.context = ContextFields
        /\ r.context.connection # Nobody /\ r.context.connection \in Conns /\ "chunked" \in Pools
    BY Zenon, <1>1, <1>2, HasContext DEF Pools
  <1>4. PICK c \in Conns : c = r.context.connection
    BY Zenon, <1>3
  <1>5. "BadHTTPPutError" # Succeeded
    BY Zenon DEF Succeeded
  <1>6. CASE \E err : /\ err # Succeeded /\ Releases(c, "chunked")
                      /\ worker' = [worker EXCEPT ![w] = CloseFails(r, err)]
    <2>1. PICK err : /\ err # Succeeded /\ Releases(c, "chunked")
                     /\ worker' = [worker EXCEPT ![w] = CloseFails(r, err)]
      BY Zenon, <1>6
    <2>2. r.context.connection # Nobody /\ Releases(r.context.connection, "chunked")
      BY Zenon, <1>3, <1>4, <2>1
    <2> QED BY ZenonT(60), <1>1, <1>2, <2>1, <2>2, ClosesBadly
  <1>7. CASE /\ wire[c].state # "broken" /\ wire[c].reply # NoReply
             /\ FsErr(wire[c].reply.status) = Succeeded
             /\ KeepsAlive(c, "chunked", FALSE)
             /\ worker' = [worker EXCEPT ![w] =
                             Returns(HasClosed(r), [err |-> Succeeded, data |-> wire[c].reply.data])]
    <2>1. PICK h : h = HasClosed(r)
      OBVIOUS
    <2>2. DOMAIN h = Fields /\ h.context.connection = Nobody /\ h.call = r.call
      BY ZenonT(60), <1>3, <2>1 DEF HasClosed, Fields, ContextFields
    <2>3. PICK result : result = [err |-> Succeeded, data |-> wire[c].reply.data]
      BY Zenon
    <2>4. result.data = wire[c].reply.data
      BY <2>3
    <2>5. PICK u : u = Returns(h, result)
      BY Zenon
    <2>6. u.pc = "idle" /\ u.result = result /\ u.call = r.call /\ u.context = h.context
      BY Zenon, <2>2, <2>5 DEF Returns, Fields
    <2>7. ASSUME u.call.kind = "put" PROVE WellFormed(u.call) /\ Putting(u)
      <3>1. /\ r.call.kind = "put" /\ WellFormed(r.call) /\ Putting(r)
            /\ Carries(r, wire[c], handler[c])
        BY Zenon, <1>1, <1>4, <2>6, <2>7 DEF PutInv, PutOK
      <3>2. ~r.context.err /\ ~r.context.fatal /\ Whole(r)
        BY Zenon, <1>2, <3>1 DEF Putting
      <3>3. Watched(r, wire[c])
        BY Zenon, <1>2, <1>7, <3>2 DEF Watched
      <3>4. wire[c].reply.data = Concat(r.context.bytesPut)
        BY ZenonT(60), <1>7, <3>1, <3>3 DEF Carries
      <3>5. PICK chunks : chunks = r.call.chunks
        BY Zenon
      <3>6. PICK S : chunks \in Seq(S)
        BY Zenon, <3>1, <3>5 DEF WellFormed
      <3>7. /\ r.position = Len(chunks) /\ r.context.bytesPut = SubSeq(chunks, 1, Len(chunks))
            /\ \A i \in 1..Len(chunks) : chunks[i] # <<>>
        BY Zenon, <3>2, <3>5 DEF Whole, Given
      <3>8. SubSeq(chunks, 1, Len(chunks)) = chunks /\ DOMAIN chunks = 1..Len(chunks)
        BY Zenon, <3>6, Prefixes
      <3>9. u.result.data = Concat(u.call.chunks)
        BY Zenon, <2>4, <2>6, <3>4, <3>5, <3>7, <3>8
      <3>10. \A i \in DOMAIN u.call.chunks : u.call.chunks[i] # <<>>
        BY Zenon, <2>6, <3>5, <3>7, <3>8
      <3> QED BY ZenonT(60), <2>6, <3>1, <3>9, <3>10 DEF Putting
    <2>8. Goes(w, u)
      BY ZenonT(60), <1>7, <2>1, <2>2, <2>3, <2>5, <2>6, <2>7, NoConnection DEF Goes
    <2>9. Unshared(w, c)
      BY Zenon, <1>1, <1>3, <1>4, HeldApart DEF Held
    <2>10. Only(c)
      BY Zenon, <1>7, ReleasesOnly
    <2> QED BY Zenon, <2>8, <2>9, <2>10, CallerPut
  <1> QED BY <1>1, <1>4, <1>5, <1>6, <1>7, ZenonT(60) DEF AwaitsClose, ReadFails

\* retry() sends all chunks again, or remembers that it could not.
LEMMA ReopensPut ==
    ASSUME SwiftInv, PutInv, NEW w \in Workers, Reopens(w)
    PROVE  PutInv'
  <1>1. PICK r : r = worker[w]
    OBVIOUS
  <1>2. /\ DOMAIN r = Fields /\ DOMAIN r.context = ContextFields /\ r.pc = "reopen"
        /\ MayAcquire("chunked") /\ "chunked" \in Pools
    BY Zenon, <1>1 DEF Reopens, SwiftInv, Sound, Shape, Pools
  <1>3. PICK c : c = Acquired("chunked")
    BY Zenon
  <1>4. Unshared(w, c)
    BY Zenon, <1>2, <1>3, AcquiredApart
  <1>5. PICK opened : opened = [r EXCEPT !.pc = "close", !.context.connection = c,
                                         !.context.active = TRUE, !.context.err = FALSE]
    BY Zenon
  <1>6. PICK k : k = [r.context EXCEPT !.connection = c, !.active = TRUE, !.err = FALSE]
    BY Zenon
  <1>7. /\ DOMAIN k = ContextFields /\ k.connection = c /\ k.fatal = r.context.fatal
        /\ k.bytesPut = r.context.bytesPut /\ opened = [r EXCEPT !.pc = "close", !.context = k]
    BY ZenonT(60), <1>2, <1>5, <1>6 DEF ContextFields, Fields
  <1>8. PICK e : e = [k EXCEPT !.err = TRUE]
    BY Zenon
  <1>9. /\ e.connection = c /\ e.err = TRUE /\ e.fatal = r.context.fatal
        /\ e.bytesPut = r.context.bytesPut
        /\ [opened EXCEPT !.context.err = TRUE] = [r EXCEPT !.pc = "close", !.context = e]
    BY Zenon, <1>2, <1>7, <1>8 DEF ContextFields, Fields
  <1>10. PICK n, body :
           /\ worker' = [worker EXCEPT ![w] = [r EXCEPT !.pc = "close", !.context = n]]
           /\ Writes("chunked", ObjectPut(r.call.to), body)
           /\ \/ n = k /\ body = Concat(r.context.bytesPut)
              \/ n = e
    <2>1. CASE /\ Writes("chunked", ObjectPut(r.call.to), Concat(r.context.bytesPut))
               /\ worker' = [worker EXCEPT ![w] = opened]
      BY Zenon, <1>7, <2>1
    <2>2. CASE /\ \E body : Writes("chunked", ObjectPut(r.call.to), body)
               /\ worker' = [worker EXCEPT ![w] = [opened EXCEPT !.context.err = TRUE]]
      BY Zenon, <1>9, <2>2
    <2> QED BY <1>1, <1>3, <1>5, <2>1, <2>2, ZenonT(60) DEF Reopens
  <1>11. PICK u : u = [r EXCEPT !.pc = "close", !.context = n]
    BY Zenon
  <1>12. u.pc = "close" /\ u.context = n /\ u.call = r.call /\ u.position = r.position
    BY Zenon, <1>2, <1>11 DEF Fields
  <1>13. /\ n.connection = c /\ n.fatal = r.context.fatal /\ n.bytesPut = r.context.bytesPut
         /\ n.err \/ body = Concat(n.bytesPut)
    BY Zenon, <1>7, <1>9, <1>10
  <1>14. PICK req : req = ObjectPut(r.call.to)
    BY Zenon
  <1>15. /\ Only(c) /\ wire'[c].body = body /\ wire'[c].ended = FALSE /\ wire'[c].reply = NoReply
         /\ wire'[c].state = "broken" \/ handler'[c] = Started(req)
    BY Zenon, <1>2, <1>3, <1>10, <1>14, WritesOnly
  <1>16. ASSUME u.call.kind = "put"
         PROVE  /\ WellFormed(u.call) /\ Putting(u)
                /\ \A d \in Conns : d = u.context.connection => Carries(u, wire'[d], handler'[d])
    <2>1. r.call.kind = "put" /\ WellFormed(r.call) /\ Putting(r)
      BY Zenon, <1>1, <1>12, <1>16 DEF PutInv, PutOK
    <2>2. ~r.context.fatal /\ Whole(r)
      BY Zenon, <1>2, <2>1 DEF Putting
    <2>3. Whole(u)
      BY Zenon, <1>12, <1>13, <2>2, SameChunks
    <2>4. Putting(u)
      BY Zenon, <1>12, <1>13, <2>2, <2>3 DEF Putting
    <2>5. Serves(Started(req))
      BY Zenon, <1>14, <2>1, StartedPut
    <2>6. Carries(u, wire'[c], handler'[c])
      BY Zenon, <1>12, <1>13, <1>15, <2>5 DEF Carries, Watched
    <2> QED BY Zenon, <1>12, <1>13, <2>1, <2>4, <2>6
  <1>17. Goes(w, u)
    BY Zenon, <1>10, <1>11, <1>16 DEF Goes
  <1> QED BY Zenon, <1>4, <1>15, <1>17, CallerPut

\* The loop of objectCopy() is of no PUT.
LEMMA CopiesChunkPut ==
    ASSUME SwiftInv, PutInv, NEW w \in Workers, CopiesChunk(w)
    PROVE  PutInv'
  <1>1. PICK r : r = worker[w]
    OBVIOUS
  <1>2. r.call.kind = "copy" /\ DOMAIN r = Fields
    BY Zenon, <1>1 DEF CopiesChunk, SwiftInv, Sound, Shape
  <1>3. UNCHANGED <<wire, handler>>
    BY Zenon DEF CopiesChunk, serverVars
  <1>4. PICK pc, req, n, m :
          worker' = [worker EXCEPT ![w] = IF n = 0 THEN [r EXCEPT !.pc = pc]
                                          ELSE [Asks(r, "send", req) EXCEPT !.position = @ + m]]
    <2>1. PICK rest : rest = r.size - r.position
      BY Zenon
    <2>2. PICK n : worker' = [worker EXCEPT ![w] =
                     IF n = 0 THEN [r EXCEPT !.pc = "close"]
                     ELSE [Asks(r, "send", IF n > rest THEN Tails(r.call.from, rest, n)
                                           ELSE ObjectGet(r.call.from, r.position, n))
                             EXCEPT !.position = @ + Min({n, rest})]]
      BY Zenon, <1>1, <2>1, Zenon DEF CopiesChunk
    <2>3. PICK req : req = IF n > rest THEN Tails(r.call.from, rest, n)
                           ELSE ObjectGet(r.call.from, r.position, n)
      BY Zenon
    <2> QED BY Zenon, <2>2, <2>3
  <1>5. PICK u : u = IF n = 0 THEN [r EXCEPT !.pc = pc]
                     ELSE [Asks(r, "send", req) EXCEPT !.position = @ + m]
    BY Zenon
  <1>6. u.call = r.call
    <2>1. [r EXCEPT !.pc = pc].call = r.call
      BY Zenon, <1>2 DEF Fields
    <2>2. PICK a : a = Asks(r, "send", req)
      BY Zenon
    <2>3. a.call = r.call /\ DOMAIN a = Fields
      BY Zenon, <1>2, <2>2, AsksCall
    <2>4. [a EXCEPT !.position = @ + m].call = r.call
      BY Zenon, <2>3 DEF Fields
    <2> QED BY Zenon, <1>5, <2>1, <2>2, <2>4
  <1>7. u.call.kind # "put"
    BY Zenon, <1>2, <1>6
  <1>8. Goes(w, u)
    BY Zenon, <1>4, <1>5, <1>7 DEF Goes
  <1> QED BY Zenon, <1>3, <1>8, CallerPut

-----------------------------------------------------------------------------
\* No caller has begun a PUT.
LEMMA PutInit == Init => PutInv
  <1> SUFFICES ASSUME Init, NEW w \in Workers PROVE PutOK(w)
    BY Zenon DEF PutInv
  <1>1. PICK s : worker = [v \in Workers |-> [Idle EXCEPT !.plan = s.plan[v]]]
    BY Zenon DEF Init
  <1>2. PICK u : u = [Idle EXCEPT !.plan = s.plan[w]]
    BY Zenon
  <1>3. u.call = [kind |-> "none"]
    BY Zenon, <1>2 DEF Idle
  <1>4. u.call.kind # "put"
    BY <1>3
  <1> QED BY Zenon, <1>1, <1>2, <1>4 DEF PutOK

\* Every step of a caller, of ramswift and of the network keeps the invariant.
LEMMA PutNext == SwiftInv /\ PutInv /\ [Next]_vars => PutInv'
  <1> SUFFICES ASSUME SwiftInv, PutInv, [Next]_vars PROVE PutInv'
    BY Zenon
  <1>1. CASE UNCHANGED <<wire, handler, worker>>
    BY Zenon, <1>1 DEF PutInv, PutOK
  <1>2. ASSUME NEW w \in Workers, Begins(w) \/ Client(w) PROVE PutInv'
    BY Zenon, <1>2, BeginsPut, SendsPut, AwaitsPut, FetchesContextPut, RefusesChunkPut,
       SendsChunkPut, ClosesPut, AwaitsClosePut, ReopensPut, CopiesChunkPut DEF Client
  <1>3. ASSUME NEW c \in Conns, ServeHTTP(c) \/ Breaks(c), UNCHANGED <<worker, inUse, lifo>>
        PROVE  PutInv'
    BY Zenon, <1>3, ServerPut
  <1>4. CASE (UpdateConf \/ Reloads) /\ UNCHANGED <<worker, inUse, lifo>>
    <2>1. UNCHANGED <<wire, handler>>
      BY Zenon, <1>4 DEF UpdateConf, Reloads, DeletesAccount, CreatesAccount, ConfUpdated
    <2> QED BY Zenon, <1>1, <1>4, <2>1
  <1>5. CASE UNCHANGED vars
    BY Zenon, <1>1, <1>5 DEF vars, serverVars
  <1> QED BY Zenon, <1>2, <1>3, <1>4, <1>5 DEF Next

\* Close() of a chunked PUT returns success only when the server has acknowledged
\* one PUT that carried every chunk the caller gave to SendChunk(), each once and in
\* order, and none was empty: for any number of callers, connections, tries and
\* chunks, whatever breaks and whenever the server reads (object.go, SendChunk(),
\* Close(), retry()).
THEOREM PutsAreStored == Spec => []PutsStored
  <1>1. PutInv => PutsStored
    BY Zenon DEF PutInv, PutOK, Putting, PutsStored, Done, Made
  <1>2. Spec => []PutInv
    BY PutInit, PutNext, SwiftSafe, PTL DEF Spec
  <1> QED BY <1>1, <1>2, PTL
=============================================================================
