-------------------------- MODULE BlockSynchronizer --------------------------
(***************************************************************************)
(* ordex/net/sync.py, classes ChainState and BlockSynchronizer: headers    *)
(* and blocks fetched from one peer over its NodeConnection.               *)
(*                                                                         *)
(* The answer to a request is the next message that is not a ping.  The    *)
(* peer answers requests in order and may announce blocks at any time.     *)
(***************************************************************************)
EXTENDS NodeConnection

CONSTANTS
    Block,          \* the blocks the peer may ever have; a block is its header
    Genesis,
    Parent, Time,   \* functions on Block
    MaxPerMessage,  \* MAX_HEADERS_PER_MSG
    MaxHeaders,     \* max_headers
    MaxBlocks       \* max_blocks of download_blocks

VARIABLES
    headers,        \* ChainState.headers and known_blocks
    tip, height,    \* of ChainState
    peerTip,        \* the peer's best block
    returned        \* history: what the last request_block asked for and returned

syncVars == <<headers, tip, height, peerTip, returned>>

Ancestors(b) ==
    LET up[x \in Block] == {x} \cup IF x = Genesis THEN {} ELSE up[Parent[x]]
    IN up[b]

ParentOf(b) == IF b = Genesis THEN None ELSE Parent[b]

-----------------------------------------------------------------------------
(* ChainState.                                                              *)

\* add_header: the tip is the header with the latest time, and the height
\* counts the tips there were.
AddHeader(chain, b) ==
    LET newTip == chain.tip = None \/ Time[b] > Time[chain.tip]
    IN IF b \in chain.headers
       THEN chain
       ELSE [headers |-> chain.headers \cup {b},
             tip |-> IF newTip THEN b ELSE chain.tip,
             height |-> IF newTip THEN chain.height + 1 ELSE chain.height]

\* add_header of one header after the other.
AddHeaders(new) ==
    LET chain[n \in 0..Len(new)] ==
          IF n = 0 THEN [headers |-> headers, tip |-> tip, height |-> height]
          ELSE AddHeader(chain[n - 1], new[n])
    IN chain[Len(new)]

\* get_locator: ten headers back from the tip, as far as they are known, and
\* the zero hash, None.
GetLocator ==
    LET back[n \in 1..10] ==
          IF n = 1 THEN tip
          ELSE IF back[n - 1] \in headers /\ ParentOf(back[n - 1]) \in headers
          THEN ParentOf(back[n - 1]) ELSE None
        known == Cardinality({n \in 1..10 : back[n] # None})
    IN [n \in 1..known + 1 |-> IF n <= known THEN back[n] ELSE None]

-----------------------------------------------------------------------------
(* Operations.                                                              *)

Send(message) == requests' = Append(requests, message)

\* A request is made, for the block asked if it is for one; clean says that no
\* answer was outstanding.
Start(kind, asked) ==
    /\ task.at = "idle" /\ kind \in scope.kinds
    /\ used < scope.operations /\ used' = used + 1
    /\ task' = [at |-> "header", operation |-> kind, message |-> None,
                clean |-> ~Outstanding, asked |-> asked, round |-> 1,
                got |-> 0, complete |-> FALSE]
    /\ UNCHANGED <<scope, moved, wire, stream, cut>>

Finish(f) == [f EXCEPT !.at = "idle"]

\* download_headers up to the first answer.
DownloadHeaders ==
    /\ Start("headers", None)
    /\ Send([kind |-> "getheaders", locator |-> GetLocator])
    /\ UNCHANGED syncVars

\* Mutant: a full message counts as the last one.
ShortOrFull(new) == Len(new) <= MaxPerMessage

\* The peer has no more than this.
Short(new) == Len(new) < MaxPerMessage

\* An answer to getheaders, or another message in its place.
TakeHeaders ==
    LET new == task.message.headers
        chain == AddHeaders(new)
        got == task.got + Len(new)
        short == Short(new)
    IN /\ task.at = "received" /\ task.operation = "headers"
       /\ IF task.message.kind = "headers"
          THEN /\ headers' = chain.headers
               /\ tip' = chain.tip
               /\ height' = chain.height
               /\ IF short \/ got >= MaxHeaders
                  THEN /\ task' = [Finish(task) EXCEPT !.got = got, !.complete = short]
                       /\ UNCHANGED requests
                  ELSE /\ task' = [Receiving(task) EXCEPT !.got = got]
                       /\ Send([kind |-> "getheaders", locator |-> <<new[Len(new)]>>])
          ELSE /\ task' = Finish(task)
               /\ UNCHANGED <<headers, tip, height, requests>>
       /\ UNCHANGED <<scope, used, moved, wire, stream, cut, peerTip, returned>>

\* Mutant: the tip is requested, if there is one.
RequestTip(b) ==
    /\ Start("block", b)
    /\ Send([kind |-> "getdata", block |-> IF tip = None THEN b ELSE tip])
    /\ UNCHANGED syncVars

\* request_block up to the answer.
RequestBlock(b) ==
    /\ Start("block", b)
    /\ Send([kind |-> "getdata", block |-> b])
    /\ UNCHANGED syncVars

\* What request_block returns for the message received, or for a timeout.
Returned(f) ==
    [asked |-> f.asked, clean |-> f.clean,
     block |-> IF f.at = "received" /\ f.message.kind = "block" THEN f.message.block ELSE None]

TakeBlock ==
    /\ task.at \in {"received", "timeout"} /\ task.operation = "block"
    /\ returned' = Returned(task)
    /\ task' = Finish(task)
    /\ UNCHANGED <<scope, used, moved, connVars, headers, tip, height, peerTip>>

\* download_blocks from the tip, up to the first message.  asked is the block
\* of the inner request_block that waits, if one does.
DownloadBlocks ==
    /\ tip # None
    /\ Start("blocks", None)
    /\ Send([kind |-> "getdata", block |-> tip])
    /\ UNCHANGED syncVars

\* The loop of download_blocks: a block is kept, an announced one requested
\* and dropped, and notfound or a timeout ends it.
TakeBlocks ==
    LET next == IF task.round >= MaxBlocks THEN Finish(task)
                ELSE [Receiving(task) EXCEPT !.round = @ + 1, !.asked = None]
        kind == IF task.at = "timeout" THEN "timeout" ELSE task.message.kind
    IN /\ task.at \in {"received", "timeout"} /\ task.operation = "blocks"
       /\ \/ /\ task.asked # None
             /\ returned' = Returned(task)
             /\ task' = next
             /\ UNCHANGED requests
          \/ /\ task.asked = None /\ kind = "inv"
             /\ task' = [Receiving(task) EXCEPT !.asked = task.message.block,
                                                !.clean = ~Outstanding]
             /\ Send([kind |-> "getdata", block |-> task.message.block])
             /\ UNCHANGED returned
          \/ /\ task.asked = None /\ kind # "inv"
             /\ task' = IF kind \in {"notfound", "timeout"} THEN Finish(task) ELSE next
             /\ UNCHANGED <<requests, returned>>
       /\ UNCHANGED <<scope, used, moved, wire, stream, cut, headers, tip, height, peerTip>>

\* A timeout of download_headers is raised to the caller.
HeadersTimeout ==
    /\ task.at = "timeout" /\ task.operation = "headers"
    /\ task' = Finish(task)
    /\ UNCHANGED <<scope, used, moved, connVars, syncVars>>

-----------------------------------------------------------------------------
(* The peer.                                                                *)

\* The first block of the locator that is on the chain of b.
LastShared(locator, b) ==
    LET shared == {i \in DOMAIN locator : locator[i] # None /\ locator[i] \in Ancestors(b)}
    IN IF shared = {} THEN Genesis
       ELSE locator[CHOOSE i \in shared : \A j \in shared : i <= j]

\* The chain of b after the block from, each block after its parent.
After(from, b) ==
    LET new == Ancestors(b) \ Ancestors(from)
    IN CHOOSE s \in [1..Cardinality(new) -> new] :
         /\ {s[i] : i \in DOMAIN s} = new
         /\ \A i \in DOMAIN s : Parent[s[i]] \in Ancestors(from) \cup {s[j] : j \in 1..i - 1}

\* The parts of the messages that answer a request.
Answers(request) ==
    CASE request.kind = "version" ->
            Framed([kind |-> "version"]) \o Framed([kind |-> "verack"])
      [] request.kind = "getheaders" ->
            LET new == After(LastShared(request.locator, peerTip), peerTip)
            IN Framed([kind |-> "headers", upTo |-> peerTip,
                       headers |-> SubSeq(new, 1, IF Len(new) < MaxPerMessage
                                                  THEN Len(new) ELSE MaxPerMessage)])
      [] request.kind = "getdata" ->
            IF request.block \in Ancestors(peerTip)
            THEN Framed([kind |-> "block", block |-> request.block])
            ELSE Framed([kind |-> "notfound"])

PeerAnswers ==
    /\ requests # <<>>
    /\ wire' = wire \o Answers(Head(requests))
    /\ requests' = Tail(requests)
    /\ UNCHANGED <<scope, used, moved, task, stream, cut, syncVars>>

Moves == moved < scope.moves /\ moved' = moved + 1

PeerMoves ==
    /\ Moves
    /\ peerTip' \in Block \ {peerTip}
    /\ UNCHANGED <<scope, used, task, connVars, headers, tip, height, returned>>

PeerSpeaks ==
    /\ Moves /\ task.at # "closed"
    /\ \E m \in {[kind |-> "ping"], [kind |-> "inv", block |-> peerTip]} :
         wire' = wire \o Framed(m)
    /\ UNCHANGED <<scope, used, task, stream, requests, cut, syncVars>>

-----------------------------------------------------------------------------

Init2 ==
    /\ headers = {} /\ tip = None /\ height = 0
    /\ peerTip \in Block
    /\ returned = None

Take == TakeHeaders \/ TakeBlock \/ TakeBlocks \/ HeadersTimeout

Operate == DownloadHeaders \/ DownloadBlocks \/ \E b \in Block : RequestBlock(b)

Peer == PeerAnswers \/ PeerMoves \/ PeerSpeaks

-----------------------------------------------------------------------------

\* The stream is out of step only after a payload timed out: no magic bytes
\* are missed before (recv_message).
FramingLostByTimeout ==
    \/ cut
    \/ /\ task.at = "header" /\ stream # <<>> => Head(stream).part = "header"
       /\ task.at = "payload" /\ stream # <<>> =>
            Head(stream) = Part(task.message, "payload")

\* A block that was asked for while no answer was outstanding is the block
\* asked for, or none.  (One asked for after a timeout, or after an
\* announcement was taken for its answer, may be another.)
RightBlock ==
    returned # None => \/ returned.block \in {returned.asked, None}
                       \/ ~returned.clean

\* A download of headers that ended with a short answer knows the peer's whole
\* chain as of that answer; no header known is later than the tip; and the tip
\* is the peer's, when no other header known is as late.  The answer may be the
\* late one of an earlier request.
SyncReachesTip ==
    LET upTo == task.message.upTo
    IN (task.at = "idle" /\ task.operation = "headers" /\ task.complete) =>
         /\ Ancestors(upTo) \ {Genesis} \subseteq headers
         /\ \A b \in headers : Time[b] <= Time[tip]
         /\ \/ upTo = Genesis \/ tip = upTo
            \/ \E b \in headers \ {upTo} : Time[b] >= Time[upTo]
=============================================================================
