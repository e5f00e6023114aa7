------------------------------- MODULE MCSwift -------------------------------
(***************************************************************************)
(* Two callers of swiftclient, one ramswift with an account, a container   *)
(* and an object.                                                          *)
(***************************************************************************)
EXTENDS SwiftClient

O == <<1, 1, 1>>
P == <<1, 1, 2>>

\* The names below an account or container, and the node each has.
With(kids) == [EmptyNode EXCEPT !.kids = [n \in Names |-> IF n \in DOMAIN kids THEN kids[n] ELSE Nobody]]

\* The account, the container and the object of the first start.
MCNode == [i \in 0..MaxNodes |->
             CASE i = 0 -> With(<<1>>) [] i = 1 -> With(<<2>>) [] i = 2 -> With(<<3>>)
               [] i = 3 -> [EmptyNode EXCEPT !.contents = <<7, 8>>]
               [] OTHER -> EmptyNode]

Ask(req) == [kind |-> "request", req |-> req]
Put(chunks) == [kind |-> "put", to |-> O, chunks |-> chunks]
Copy == [kind |-> "copy", from |-> O, to |-> P]
Format(mode) == [kind |-> "format", account |-> 1, mode |-> mode]

\* A container with a long list of objects.
MCLongNode == [MCNode EXCEPT ![2] = With(<<3, 4>>)]

\* What one of the two does beside the other's PUT or reformat, ...
Beside == {Put(<<<<4>>>>)} \cup
          {Ask(r) : r \in {AccountPost(1, "h"), ContainerDelete(1, 1), ContainerGet(1, 1),
                           ContainerPut(1, 1, "absent"), ObjectDeleteSync(O), ObjectGet(O, 1, 2)}}

\* ... and the other requests, one behind the other.
Others == <<Ask(AccountPut(1, "h")), Ask(AccountHead(1)), Ask(ContainerPost(1, 1, "empty")),
            Ask(ContainerHead(1, 1)), Ask(ObjectHead(O)), Ask(ObjectTail(O, 1)), Ask(AccountDelete(1))>>

Begin(plan, sighups) == [node |-> MCNode, made |-> 3, plan |-> plan, reloads |-> sighups]

MCStarts ==
    {Begin(<<<<a>>, <<b>>>>, 0) :
        a \in {Put(<<<<1>>, <<2, 3>>>>), Format("reformat")}, b \in Beside}
    \cup {Begin(<<<<Put(<<<<1>>, <<>>>>)>>, <<b>>>>, 0) : b \in {Put(<<<<4>>>>), Ask(ObjectDeleteSync(O))}}
    \cup {Begin(<<<<Copy>>, <<Ask(b)>>>>, 0) : b \in {ObjectLoad(O), ObjectDeleteSync(O)}}
    \cup {Begin(<<Others, <<Format(m)>>>>, 0) : m \in {"new", "onlyIfNeeded"}}
    \cup {Begin(<<<<Format("reformat")>>, <<>>>>, 1), Begin(<<<<Put(<<<<4>>>>)>>, <<>>>>, 1),
          Begin(<<<<Put(<<<<1>>>>)>>, <<Put(<<<<4>>>>), Put(<<<<4>>>>)>>>>, 0),
          [Begin(<<<<Format("reformat")>>, <<Ask(ContainerGet(1, 1))>>>>, 0) EXCEPT !.node = MCLongNode, !.made = 4]}

MCChaosRate == [k \in (1..3) \X Methods |-> IF k \in {<<3, "PUT">>, <<3, "GET">>} THEN 2 ELSE 0]
MCConfigs == {{}, {1}, {2}}
=============================================================================
