------------------------------ MODULE RamSwift ------------------------------
(***************************************************************************)
(* The in-memory emulation of Swift (ramswift/daemon.go) that the tests of *)
(* ProxyFS run against, as a server of keep-alive HTTP connections.        *)
(*                                                                         *)
(* The map of accounts, an account's tree of containers and a container's  *)
(* tree of objects are one kind of node here: a node has the nodes below   *)
(* it by name, headers, contents and the handler that holds its mutex.     *)
(* Node Globals is the map of accounts.  A handler keeps pointers to nodes *)
(* and locks them one at a time, so the node it works on may have been     *)
(* unlinked from the tree meanwhile.  A request's path is the sequence of  *)
(* the names of its account, container and object, as parsePath() splits   *)
(* it.  One header stands for all of them.                                 *)
(***************************************************************************)
EXTENDS Integers, Sequences, FiniteSets, FiniteSetsExt

CONSTANTS
    Names,       \* names of accounts, containers and objects
    Values,      \* values of the header
    MaxNodes,    \* bound of the model on the structs ever made
    Conns,       \* TCP connections that may exist at once, numbers
    ChaosRate,   \* <<level, method>> -> fail every n-th such request, 0 for never
    Long,        \* names that stand for more than fits a reply's buffer
    Configs,     \* sets of accounts a reloaded configuration may list
    MaxBreaks    \* bound of the model on connections that break

VARIABLES
    node, made,       \* the structs, and how many of them were ever made
    chaos,            \* requests counted, modulo the rate
    wire,             \* what is under way on a connection
    handler,          \* what the server does for it
    reload,           \* where updateConf() is
    reloads,          \* SIGHUPs to come, a bound of the model
    breaks            \* connections that broke

serverVars == <<node, made, chaos, wire, handler, reload, breaks, reloads>>

Globals == 0
Nobody == 0           \* no handler, no node
Gone == -1            \* a handler that panicked
NoHeader == ""
Methods == {"DELETE", "GET", "HEAD", "POST", "PUT"}

Account == 1
Container == 2
Object == 3
Level(req) == Len(req.path)

\* What may be on the wire: the bytes of a body, whether its last chunk was
\* sent, the reply, and whether bytes are left behind the part of it that the
\* client reads.
NoReply == [status |-> 0]
Unused == [state |-> "none", body |-> <<>>, ended |-> FALSE, reply |-> NoReply, left |-> FALSE]
Waiting == [step |-> "none"]

EmptyNode == [kids |-> [n \in Names |-> Nobody], headers |-> NoHeader, contents |-> <<>>,
              lock |-> Nobody]

Child(i, name) == node[i].kids[name]
Listing(i) == {n \in Names : Child(i, n) # Nobody}
Free(i) == node[i].lock = Nobody

\* The node at a path, if it can be reached.
At(i, path) ==
    LET down[k \in 0..Len(path)] ==
          IF k = 0 THEN i
          ELSE IF down[k - 1] = -1 \/ Child(down[k - 1], path[k]) = Nobody THEN -1
          ELSE Child(down[k - 1], path[k])
    IN  down[Len(path)]
Reachable(path) == At(Globals, path) # -1

-----------------------------------------------------------------------------
\* The walk to the node a request is about.  DELETE and PUT need its parent
\* only, and POST never looks at objects.
Ancestors(req) ==
    IF req.method \in {"DELETE", "PUT"} \/ (req.method = "POST" /\ Level(req) = Object)
      THEN Level(req) - 1 ELSE Level(req)

\* The chaos counter is looked at when that much of the path is known to exist.
ChaosAt(req) ==
    IF req.method \in {"DELETE", "PUT"} THEN Min({1, Level(req) - 1}) ELSE Min({2, Level(req)})

\* A request arrives.  One whose kind never fails need not look at the counter.
Started(req) ==
    [step |-> "walk", req |-> req, at |-> Globals, depth |-> 0, created |-> FALSE,
     spared |-> ChaosRate[<<Level(req), req.method>>] = 0]

\* The end of a handler.  Nobody reads the reply on a connection that the
\* client has closed.
Replies(c, reply) ==
    /\ handler' = [handler EXCEPT ![c] = Waiting]
    /\ wire' = [wire EXCEPT ![c] = IF @.state = "closed" THEN Unused ELSE [@ EXCEPT !.reply = reply]]

Status(s) == [status |-> s, data |-> <<>>, chunked |-> FALSE]

Steps(c, step) == handler[c].step = step
Here(c) == handler[c].at
Req(c) == handler[c].req
Walked(c) == Steps(c, "walk") /\ handler[c].spared /\ handler[c].depth = Ancestors(Req(c))
Target(c) == Req(c).path[Level(Req(c))]

\* locateSwiftAccount(), locateSwiftContainer() and locateSwiftObject().
Locates(c) ==
    LET next == Child(Here(c), Req(c).path[handler[c].depth + 1]) IN
    /\ Steps(c, "walk") /\ handler[c].depth < Ancestors(Req(c))
    /\ handler[c].spared \/ handler[c].depth < ChaosAt(Req(c))
    /\ Free(Here(c))
    /\ IF next = Nobody
         THEN Replies(c, Status(IF Req(c).method = "PUT" THEN 403 ELSE 404))
         ELSE /\ handler' = [handler EXCEPT ![c].at = next, ![c].depth = @ + 1]
              /\ UNCHANGED wire
    /\ UNCHANGED <<node, made, chaos>>

\* Every n-th request of its kind fails.
Chaos(c) ==
    LET kind == <<Level(Req(c)), Req(c).method>>
        count == (chaos[kind] + 1) % ChaosRate[kind]
    IN
    /\ Steps(c, "walk") /\ ~handler[c].spared /\ handler[c].depth = ChaosAt(Req(c))
    /\ chaos' = [chaos EXCEPT ![kind] = count]
    /\ IF count = 0
         THEN Replies(c, Status(500))
         ELSE handler' = [handler EXCEPT ![c].spared = TRUE] /\ UNCHANGED wire
    /\ UNCHANGED <<node, made>>

-----------------------------------------------------------------------------
Unlink(i, name) == [node EXCEPT ![i].kids[name] = Nobody]

IsEmpty(i) == Listing(i) = {}

\* doDelete(), deleteSwiftAccount() and deleteSwiftContainer() up to the check
\* that there is nothing below.  The mutex of the node is unlocked after the
\* check, the one of its parent stays locked.  deleteSwiftObject().
DoDelete(c) ==
    LET i == Child(Here(c), Target(c)) IN
    /\ Walked(c) /\ Req(c).method = "DELETE" /\ Free(Here(c))
    /\ CASE i = Nobody ->
              Replies(c, Status(404)) /\ UNCHANGED node
         [] i # Nobody /\ Level(Req(c)) = Object ->
              Replies(c, Status(204)) /\ node' = Unlink(Here(c), Target(c))
         [] i # Nobody /\ Level(Req(c)) # Object /\ ~IsEmpty(i) ->
              Free(i) /\ Replies(c, Status(409)) /\ UNCHANGED node
         [] OTHER ->
              /\ Free(i)
              /\ node' = [node EXCEPT ![Here(c)].lock = c]
              /\ handler' = [handler EXCEPT ![c].step = "unlink"]
              /\ UNCHANGED wire
    /\ UNCHANGED <<made, chaos>>

DoUnlink(c) ==
    /\ Steps(c, "unlink")
    /\ node' = [Unlink(Here(c), Target(c)) EXCEPT ![Here(c)].lock = Nobody]
    /\ Replies(c, Status(204))
    /\ UNCHANGED <<made, chaos>>

\* parseRangeHeader() and the cases of doGet(): the first and the last byte
\* asked for, or how many bytes from the end, or no such header.
Slice(contents, range) ==
    LET n == Len(contents)
        start == IF "start" \in DOMAIN range THEN range.start
                 ELSE IF "last" \in DOMAIN range THEN Max({0, n - range.last}) ELSE 0
        stop == IF "start" \in DOMAIN range THEN Min({range.stop, n - 1}) ELSE n - 1
    IN [ok |-> start <= stop + 1, bytes |-> SubSeq(contents, start + 1, stop + 1)]

\* doGet().  A listing that does not fit the server's buffer is sent with
\* chunked encoding.  A range that starts behind the object's end panics: the
\* server closes the connection, and the object's mutex stays locked.
DoGet(c) ==
    LET names == Listing(Here(c))
        range == Req(c).arg
        slice == Slice(node[Here(c)].contents, range)
    IN
    /\ Walked(c) /\ Req(c).method = "GET" /\ Free(Here(c))
    /\ CASE Level(Req(c)) # Object ->
              Replies(c, [status |-> IF names = {} THEN 204 ELSE 200, data |-> names,
                          headers |-> node[Here(c)].headers, chunked |-> names \cap Long # {}])
         [] Level(Req(c)) = Object /\ slice.ok ->
              Replies(c, [status |-> IF "whole" \in DOMAIN range THEN 200 ELSE 206, data |-> slice.bytes, chunked |-> FALSE])
         [] OTHER ->
              /\ handler' = [handler EXCEPT ![c] = Waiting]
              /\ wire' = [wire EXCEPT ![c] = IF @.state = "closed" THEN Unused
                                             ELSE [@ EXCEPT !.state = "broken"]]
    /\ node' = [node EXCEPT ![Here(c)].lock = IF Level(Req(c)) = Object /\ ~slice.ok THEN Gone ELSE @]
    /\ UNCHANGED <<made, chaos>>

\* doHead().  The length of an object is read without its mutex.
DoHead(c) ==
    /\ Walked(c) /\ Req(c).method = "HEAD"
    /\ IF Level(Req(c)) = Object
         THEN Replies(c, [status |-> 200, data |-> Len(node[Here(c)].contents), chunked |-> FALSE])
         ELSE Free(Here(c)) /\ Replies(c, [status |-> 204, data |-> <<>>,
                                           headers |-> node[Here(c)].headers, chunked |-> FALSE])
    /\ UNCHANGED <<node, made, chaos>>

\* A header is replaced, and deleted by an empty value.
NewHeaders(old, new) == IF new = "absent" THEN old ELSE IF new = "empty" THEN NoHeader ELSE new

\* doPost().
DoPost(c) ==
    /\ Walked(c) /\ Req(c).method = "POST"
    /\ IF Level(Req(c)) = Object
         THEN Replies(c, Status(403)) /\ UNCHANGED node
         ELSE /\ Free(Here(c))
              /\ node' = [node EXCEPT ![Here(c)].headers = NewHeaders(@, Req(c).arg)]
              /\ Replies(c, Status(204))
    /\ UNCHANGED <<made, chaos>>

\* A new struct below another.
Adds(i, name) == [node EXCEPT ![i].kids[name] = made + 1]

\* doPut(): createOrLocateSwiftAccount(), createOrLocateSwiftContainer() and
\* createOrLocateSwiftObject(), with the parent's mutex.
CreatesOrLocates(c) ==
    LET old == Child(Here(c), Target(c)) IN
    /\ Walked(c) /\ Req(c).method = "PUT" /\ Free(Here(c))
    /\ IF old # Nobody
         THEN /\ handler' = [handler EXCEPT ![c].step = "fill", ![c].at = old]
              /\ UNCHANGED <<node, made>>
         ELSE /\ made < MaxNodes
              /\ made' = made + 1
              /\ node' = Adds(Here(c), Target(c))
              /\ handler' = [handler EXCEPT ![c].step = "fill", ![c].at = made + 1,
                                            ![c].created = TRUE]
    /\ UNCHANGED <<wire, chaos>>

Stored(c) == Status(IF handler[c].created THEN 201 ELSE 202)

\* ... then its own mutex, to set the headers, of a new one from none: a POST that
\* came between is lost
PutsHeaders(c) ==
    /\ Steps(c, "fill") /\ Level(Req(c)) # Object /\ Free(Here(c))
    /\ node' = [node EXCEPT ![Here(c)].headers =
                  NewHeaders(IF handler[c].created THEN NoHeader ELSE @, Req(c).arg)]
    /\ Replies(c, Stored(c))
    /\ UNCHANGED <<made, chaos>>

\* ... or for as long as the body of the object takes.
LocksObject(c) ==
    /\ Steps(c, "fill") /\ Level(Req(c)) = Object /\ Free(Here(c))
    /\ node' = [node EXCEPT ![Here(c)].lock = c]
    /\ handler' = [handler EXCEPT ![c].step = "read"]
    /\ UNCHANGED <<made, chaos, wire>>

Aborted(c) == wire[c].state \in {"closed", "broken"}

\* Mutant: the bytes are added to those of the object before.
Appended(old, body) == old \o body

NewContents(old, body) == body

\* The error of ReadAll() is ignored: of a body that was cut off, what has
\* arrived is stored.
ReadsBody(c) ==
    LET Fill(body) == [node EXCEPT ![Here(c)].contents = NewContents(@, body), ![Here(c)].lock = Nobody]
    IN
    /\ Steps(c, "read")
    /\ \/ /\ wire[c].ended
          /\ node' = Fill(wire[c].body)
          /\ Replies(c, [Stored(c) EXCEPT !.data = wire[c].body])
       \/ /\ Aborted(c)
          /\ \E n \in 0..Len(wire[c].body) : node' = Fill(SubSeq(wire[c].body, 1, n))
          /\ Replies(c, Stored(c))
    /\ UNCHANGED <<made, chaos>>

\* ServeHTTP(): every request has a goroutine of its own, one per connection.
ServeHTTP(c) ==
    /\ \/ Locates(c) \/ Chaos(c) \/ DoDelete(c) \/ DoUnlink(c) \/ DoGet(c) \/ DoHead(c)
       \/ DoPost(c) \/ CreatesOrLocates(c) \/ PutsHeaders(c) \/ LocksObject(c) \/ ReadsBody(c)
    /\ UNCHANGED <<reload, breaks, reloads>>

-----------------------------------------------------------------------------
\* A SIGHUP: updateConf() lists the accounts, ...
UpdateConf ==
    /\ reload.step # "apply" /\ reloads > 0
    /\ reloads' = reloads - 1
    /\ \E accounts \in Configs :
         reload' = [step |-> "apply", gone |-> Listing(Globals) \ accounts, new |-> accounts]
    /\ UNCHANGED <<node, made, chaos, wire, handler, breaks>>

\* ... deletes the ones that the new configuration has no volume for, whatever
\* they contain, ...
DeletesAccount ==
    /\ reload.step = "apply" /\ Free(Globals)
    /\ \E a \in reload.gone :
         /\ node' = Unlink(Globals, a)
         /\ reload' = [reload EXCEPT !.gone = @ \ {a}]
    /\ UNCHANGED <<made, chaos, wire, handler, breaks, reloads>>

\* ... and creates the ones that are missing.
CreatesAccount ==
    /\ reload.step = "apply" /\ reload.gone = {} /\ Free(Globals)
    /\ \E a \in reload.new :
         /\ reload' = [reload EXCEPT !.new = @ \ {a}]
         /\ IF Child(Globals, a) # Nobody
              THEN UNCHANGED <<node, made>>
              ELSE /\ made < MaxNodes
                   /\ made' = made + 1
                   /\ node' = Adds(Globals, a)
    /\ UNCHANGED <<chaos, wire, handler, breaks, reloads>>

ConfUpdated ==
    /\ reload.step = "apply" /\ reload.gone = {} /\ reload.new = {}
    /\ reload' = [step |-> "done"]
    /\ UNCHANGED <<node, made, chaos, wire, handler, breaks, reloads>>

\* The network, or a server that closes idle connections.  The request may not
\* have arrived yet, and the reply gets lost.
Breaks(c) ==
    /\ breaks < MaxBreaks /\ wire[c].state = "open"
    /\ breaks' = breaks + 1
    /\ wire' = [wire EXCEPT ![c] = [@ EXCEPT !.state = "broken", !.reply = NoReply]]
    /\ \/ UNCHANGED handler
       \/ /\ Steps(c, "walk") /\ handler[c] = Started(Req(c))
          /\ handler' = [handler EXCEPT ![c] = Waiting]
    /\ UNCHANGED <<node, made, chaos, reload, reloads>>

Reloads == DeletesAccount \/ CreatesAccount \/ ConfUpdated
=============================================================================
