------------------------------- MODULE Network -------------------------------
(***************************************************************************)
(* ordex/net: the synchroniser with its connection to one peer, and the    *)
(* manager of many peers, in one event loop.  A behaviour's scope says     *)
(* which of their operations it runs.                                      *)
(***************************************************************************)
EXTENDS Integers, Sequences, FiniteSets

CONSTANTS
    None,
    Scopes,         \* bounds: the scopes a behaviour may have
    Block, Genesis, Parent, Time, MaxPerMessage, MaxHeaders, MaxBlocks,
    Caller, PeerName, PeerHeight

ASSUME NetworkAssumption ==
    /\ Genesis \in Block /\ None \notin Block
    /\ Parent \in [Block \ {Genesis} -> Block]
    /\ \A blocks \in SUBSET Block : blocks # {} =>
         \E b \in blocks : b = Genesis \/ Parent[b] \notin blocks
    /\ Time \in [Block -> Nat]
    /\ MaxPerMessage \in Nat \ {0} /\ MaxHeaders \in Nat \ {0} /\ MaxBlocks \in Nat \ {0}
    /\ \A s \in Scopes : s.operations \in Nat /\ s.moves \in Nat

VARIABLES
    scope, used, moved, task, wire, stream, requests, cut,
    headers, tip, height, peerTip, returned,
    caller, opened, connections, open, peerHeights, bestPeer

Sync == INSTANCE BlockSynchronizer
Peers == INSTANCE PeerManager

syncVars == <<headers, tip, height, peerTip, returned>>
peerVars == <<caller, opened, connections, open, peerHeights, bestPeer>>
vars == <<scope, used, moved, task, wire, stream, requests, cut, syncVars, peerVars>>

Init ==
    /\ scope \in Scopes
    /\ Sync!Init /\ Sync!Init2 /\ Peers!Init

\* The connection reads, waits, opens and closes.
OnConnection ==
    /\ "sync" \in scope.kinds
    /\ Sync!Step \/ Sync!Begin
    /\ UNCHANGED <<syncVars, peerVars>>

\* The synchroniser asks, and takes the answer; the peer acts.
OnSync ==
    /\ "sync" \in scope.kinds
    /\ Sync!Operate \/ Sync!Take \/ Sync!Peer
    /\ UNCHANGED peerVars

OnPeers ==
    /\ Peers!Next
    /\ UNCHANGED <<moved, task, wire, stream, requests, cut, syncVars>>

Next == OnConnection \/ OnSync \/ OnPeers

Spec == Init /\ [][Next]_vars

-----------------------------------------------------------------------------

FramingLostByTimeout == Sync!FramingLostByTimeout
RightBlock == Sync!RightBlock
SyncReachesTip == Sync!SyncReachesTip
PeersAgree == Peers!PeersAgree
=============================================================================
