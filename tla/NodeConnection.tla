---------------------------- MODULE NodeConnection ----------------------------
(***************************************************************************)
(* ordex/net/connection.py, class NodeConnection: framed messages over a   *)
(* byte stream to one peer, read by one asyncio task.                      *)
(*                                                                         *)
(* A message is a header and, unless it is a verack, a payload, which      *)
(* arrive one after the other; the stream is what arrived and was not      *)
(* read, the wire what was sent and has not arrived.  A payload read where *)
(* a header is due fails the check of the magic bytes, and what the read   *)
(* left of it, or of the next part, fails it again: such a rest is a       *)
(* payload too.                                                            *)
(***************************************************************************)
EXTENDS Integers, Sequences, FiniteSets

CONSTANTS None

VARIABLES
    scope,      \* bounds: the operations a behaviour runs, and what the peer may do
    used,       \* how many operations were started
    moved,      \* how many things the peer did of its own accord
    task,       \* the operation that runs and its local variables
    wire,       \* parts on their way from the peer
    stream,     \* parts that arrived: the StreamReader
    requests,   \* messages the peer has not answered yet
    cut         \* history: a payload timed out on this connection

connVars == <<wire, stream, requests, cut>>

Part(message, part) == [part |-> part, message |-> message]

Framed(message) ==
    IF message.kind = "verack"
    THEN <<Part(message, "header")>>
    ELSE <<Part(message, "header"), Part(message, "payload")>>

\* recv_message begins: the task waits for a header.
Receiving(f) == [f EXCEPT !.at = "header"]

\* An answer is still to come, or to be read.
Outstanding ==
    \/ requests # <<>>
    \/ \E i \in DOMAIN (stream \o wire) :
         (stream \o wire)[i].message.kind \notin {"ping", "inv"}

\* Mutant: a ping is answered without reading its payload.
ReadHeaderOfPing ==
    LET part == Head(stream)
    IN /\ task.at = "header" /\ stream # <<>> /\ part.part = "header"
       /\ stream' = Tail(stream)
       /\ task' = [task EXCEPT !.message = part.message,
                               !.at = IF Len(Framed(part.message)) = 1 THEN "received"
                                      ELSE IF part.message.kind = "ping"
                                      THEN "header" ELSE "payload"]
       /\ UNCHANGED <<scope, used, moved, wire, requests, cut>>

\* readexactly of the header, and the check of the magic bytes.
ReadHeader ==
    LET part == Head(stream)
    IN /\ task.at = "header" /\ stream # <<>> /\ part.part = "header"
       /\ stream' = Tail(stream)
       /\ task' = [task EXCEPT !.message = part.message,
                               !.at = IF Len(Framed(part.message)) = 1
                                      THEN "received" ELSE "payload"]
       /\ UNCHANGED <<scope, used, moved, wire, requests, cut>>

\* The first part of s has lost its first bytes.
Rest(s) == [s EXCEPT ![1] = Part(@.message, "payload")]

\* The same of a payload: the header's number of bytes is a part of it, all of
\* it, or it and a part of what follows.
Misread ==
    /\ task.at = "header" /\ stream # <<>> /\ Head(stream).part = "payload"
    /\ \/ stream' = Rest(stream)
       \/ stream' = Tail(stream)
       \/ Tail(stream) # <<>> /\ stream' = Rest(Tail(stream))
    /\ task' = [task EXCEPT !.at = "raised"]
    /\ UNCHANGED <<scope, used, moved, wire, requests, cut>>

\* readexactly of the payload; a ping is answered, and the next message read.
ReadPayload ==
    /\ task.at = "payload" /\ stream # <<>>
    /\ stream' = Tail(stream)
    /\ task' = [task EXCEPT !.at = IF task.message.kind = "ping" THEN "header"
                                   ELSE "received"]
    /\ UNCHANGED <<scope, used, moved, wire, requests, cut>>

\* wait_for gives up.  The header is read by then, or it is not; a rest that
\* is shorter than a header stays.
Timeout ==
    /\ task.at \in {"header", "payload"}
    /\ \/ stream = <<>>
       \/ task.at = "header" /\ Len(stream) = 1 /\ Head(stream).part = "payload"
    /\ cut' = (cut \/ task.at = "payload")
    /\ task' = [task EXCEPT !.at = "timeout"]
    /\ UNCHANGED <<scope, used, moved, wire, stream, requests>>

\* A part arrives.
Arrive ==
    /\ wire # <<>>
    /\ stream' = Append(stream, Head(wire))
    /\ wire' = Tail(wire)
    /\ UNCHANGED <<scope, used, moved, task, requests, cut>>

\* connect, and the first message of handshake.
Connect ==
    /\ task.at = "closed"
    /\ used < scope.operations /\ used' = used + 1
    /\ task' = [at |-> "header", operation |-> "version", message |-> None]
    /\ wire' = <<>> /\ stream' = <<>>
    /\ requests' = <<[kind |-> "version"]>>
    /\ cut' = FALSE
    /\ UNCHANGED <<scope, moved>>

\* handshake: the first message must be the peer's version; whatever follows
\* is taken for its verack.
Handshake ==
    /\ task.at = "received" /\ task.operation \in {"version", "verack"}
    /\ task' = CASE task.operation = "version" /\ task.message.kind = "version" ->
                        [Receiving(task) EXCEPT !.operation = "verack"]
                 [] task.operation = "version" /\ task.message.kind # "version" ->
                        [task EXCEPT !.at = "raised"]
                 [] task.operation = "verack" ->
                        [task EXCEPT !.at = "idle"]
    /\ UNCHANGED <<scope, used, moved, wire, stream, requests, cut>>

\* close, which also answers an exception here.
Close ==
    /\ task.at \in {"raised", "idle"}
    /\ task' = [task EXCEPT !.at = "closed"]
    /\ UNCHANGED <<scope, used, moved, wire, stream, requests, cut>>

\* listen: messages go to their handlers until a timeout ends the loop.
Listen ==
    /\ task.at = "idle" /\ "listen" \in scope.kinds
    /\ used < scope.operations /\ used' = used + 1
    /\ task' = [at |-> "header", operation |-> "listen", message |-> None]
    /\ UNCHANGED <<scope, moved, wire, stream, requests, cut>>

Dispatch ==
    /\ task.at = "received" /\ task.operation = "listen"
    /\ task' = Receiving(task)
    /\ UNCHANGED <<scope, used, moved, wire, stream, requests, cut>>

\* A timeout of the handshake is raised; listen ends with any exception, and
\* the caller of another operation may go on after one.
GiveUp ==
    LET handshaking == task.operation \in {"version", "verack"}
    IN /\ \/ task.at = "timeout" /\ (handshaking \/ task.operation = "listen")
          \/ task.at = "raised" /\ ~handshaking
       /\ task' = [task EXCEPT !.at = IF handshaking THEN "raised" ELSE "idle"]
       /\ UNCHANGED <<scope, used, moved, wire, stream, requests, cut>>

Init ==
    /\ used = 0 /\ moved = 0
    /\ task = [at |-> "closed", operation |-> "none", message |-> None]
    /\ wire = <<>> /\ stream = <<>> /\ requests = <<>>
    /\ cut = FALSE

Step == \/ ReadHeader \/ Misread \/ ReadPayload \/ Timeout \/ Handshake \/ Dispatch \/ GiveUp
        \/ Arrive

Begin == Connect \/ Close \/ Listen
=============================================================================
