----------------------------- MODULE PeerManager -----------------------------
(***************************************************************************)
(* ordex/net/sync.py, class PeerManager: connections to peers, the heights *)
(* they reported, and the best of them.  The tasks of one event loop give  *)
(* up control at every await.                                              *)
(***************************************************************************)
EXTENDS Integers, FiniteSets, Sequences

CONSTANTS
    Caller,         \* asyncio tasks
    PeerName,       \* host:port
    PeerHeight,     \* the heights a peer may report
    None

VARIABLES
    scope,          \* bounds, see Network
    used,           \* how many operations were started
    caller,         \* per task: the operation it runs
    opened,         \* how many connections were opened
    connections,    \* peer -> number of the connection
    open,           \* numbers of the connections that are open
    peerHeights,    \* peer -> height
    bestPeer

peerVars == <<caller, opened, connections, open, peerHeights, bestPeer>>

Without(f, key) == [k \in DOMAIN f \ {key} |-> f[k]]
With(f, key, value) == [k \in DOMAIN f \cup {key} |-> IF k = key THEN value ELSE f[k]]

Resting == [at |-> "idle"]

Begin(c, f) ==
    /\ caller[c] = Resting /\ "peers" \in scope.kinds
    /\ used < scope.operations /\ used' = used + 1
    /\ caller' = [caller EXCEPT ![c] = f]
    /\ UNCHANGED scope

Continue(c, f) ==
    /\ caller' = [caller EXCEPT ![c] = f]
    /\ UNCHANGED <<scope, used>>

\* _update_best_peer: the first of the peers with the greatest height.
Best(heights) == {p \in DOMAIN heights : \A q \in DOMAIN heights : heights[q] <= heights[p]}

\* add_peer up to the await of connect and handshake.
AddPeer(c, peer) ==
    /\ opened' = opened + 1
    /\ open' = open \cup {opened'}
    /\ Begin(c, [at |-> "handshake", peer |-> peer, connection |-> opened'])
    /\ UNCHANGED <<connections, peerHeights, bestPeer>>

\* The handshake succeeds, or raises: the connection stays open then.
Handshaken(c) ==
    LET f == caller[c]
    IN /\ f.at = "handshake"
       /\ Continue(c, Resting)
       /\ \/ UNCHANGED <<connections, peerHeights, bestPeer>>
          \/ /\ connections' = With(connections, f.peer, f.connection)
             /\ \E h \in PeerHeight : peerHeights' = With(peerHeights, f.peer, h)
             /\ bestPeer' \in Best(peerHeights')
       /\ UNCHANGED <<opened, open>>

\* disconnect_peer up to the await of close.
DisconnectPeer(c, peer) ==
    /\ IF peer \in DOMAIN connections
       THEN /\ open' = open \ {connections[peer]}
            /\ Begin(c, [at |-> "closing", peer |-> peer])
       ELSE Begin(c, Resting) /\ UNCHANGED open
    /\ UNCHANGED <<opened, connections, peerHeights, bestPeer>>

\* Mutant: the best peer is left as it is.
DisconnectedQuietly(c) ==
    LET f == caller[c]
    IN /\ f.at = "closing"
       /\ Continue(c, Resting)
       /\ IF f.peer \in DOMAIN connections
          THEN /\ connections' = Without(connections, f.peer)
               /\ peerHeights' = Without(peerHeights, f.peer)
               /\ bestPeer' = bestPeer
          ELSE UNCHANGED <<connections, peerHeights, bestPeer>>
       /\ UNCHANGED <<opened, open>>

\* The rest of disconnect_peer: a KeyError if the peer is gone by now.
Disconnected(c) ==
    LET f == caller[c]
    IN /\ f.at = "closing"
       /\ Continue(c, Resting)
       /\ IF f.peer \in DOMAIN connections
          THEN /\ connections' = Without(connections, f.peer)
               /\ peerHeights' = Without(peerHeights, f.peer)
               /\ IF bestPeer # f.peer THEN bestPeer' = bestPeer
                  ELSE IF DOMAIN peerHeights' = {} THEN bestPeer' = None
                  ELSE bestPeer' \in Best(peerHeights')
          ELSE UNCHANGED <<connections, peerHeights, bestPeer>>
       /\ UNCHANGED <<opened, open>>

\* close_all closes the connections there were when it began, one after the
\* other, and then forgets all, those added meanwhile too.
CloseAll(c) ==
    /\ Begin(c, [at |-> "closingAll", todo |-> {connections[p] : p \in DOMAIN connections}])
    /\ UNCHANGED <<opened, connections, open, peerHeights, bestPeer>>

CloseNext(c) ==
    LET f == caller[c]
    IN /\ f.at = "closingAll"
       /\ IF f.todo = {}
          THEN /\ connections' = <<>> /\ peerHeights' = <<>> /\ bestPeer' = None
               /\ Continue(c, Resting)
               /\ UNCHANGED open
          ELSE /\ \E n \in f.todo : /\ open' = open \ {n}
                                    /\ Continue(c, [f EXCEPT !.todo = @ \ {n}])
               /\ UNCHANGED <<connections, peerHeights, bestPeer>>
       /\ UNCHANGED opened

Init ==
    /\ caller = [c \in Caller |-> Resting]
    /\ opened = 0 /\ open = {}
    /\ connections = <<>> /\ peerHeights = <<>>
    /\ bestPeer = None

Next ==
    \E c \in Caller :
        \/ \E p \in PeerName : AddPeer(c, p) \/ DisconnectPeer(c, p)
        \/ CloseAll(c)
        \/ Handshaken(c) \/ Disconnected(c) \/ CloseNext(c)

\* The manager by itself, whatever bounds its scope sets and whoever counts.
Spec == Init /\ [][Next]_peerVars

-----------------------------------------------------------------------------

\* Whatever tasks add, disconnect and close at once: the best peer is one that
\* is connected, with no connected peer higher, there is one whenever a peer is
\* connected, and a connection of the table is open unless a task is closing
\* it (add_peer, disconnect_peer, close_all).
PeersAgree ==
    /\ DOMAIN connections = DOMAIN peerHeights
    /\ IF DOMAIN connections = {} THEN bestPeer = None ELSE bestPeer \in Best(peerHeights)
    /\ \A p \in DOMAIN connections :
         \/ connections[p] \in open
         \/ \E c \in Caller :
              \/ caller[c].at = "closingAll"
              \/ caller[c].at = "closing" /\ caller[c].peer = p
=============================================================================
