----------------------------- MODULE NetworkProofs -----------------------------
(***************************************************************************)
(* Theorems about Network, for any tasks, peers, blocks and bounds: the    *)
(* table of peers agrees with the connections and the best peer, messages  *)
(* are framed unless a payload timed out, a clean request is answered with *)
(* the right block, and a complete download of headers has the peer's      *)
(* whole chain.                                                            *)
(***************************************************************************)
EXTENDS Network, FiniteSetTheorems, WellFoundedInduction, TLAPS

-----------------------------------------------------------------------------
(* The manager of peers.                                                    *)

PeerFrame ==
    [at : {"idle"}]
    \cup [at : {"handshake"}, peer : PeerName, connection : Nat]
    \cup [at : {"closing"}, peer : PeerName]
    \cup [at : {"closingAll"}, todo : SUBSET Nat]

\* Connections are numbered as they are opened.
Numbered ==
    /\ caller \in [Caller -> PeerFrame]
    /\ opened \in Nat
    /\ \A n \in open : n \in Nat /\ n <= opened
    /\ \A p \in DOMAIN connections : connections[p] \in Nat /\ connections[p] <= opened
    /\ \A c \in Caller : \A n \in Nat :
         caller[c].at = "closingAll" /\ n \in caller[c].todo => n <= opened

\* A connection in its handshake is open, and nobody else knows it.
HandshakeIsPrivate ==
    \A c \in Caller : caller[c].at = "handshake" =>
        /\ caller[c].connection \in open
        /\ \A d \in Caller \ {c} :
             /\ caller[d].at = "handshake" => caller[d].connection # caller[c].connection
             /\ caller[d].at = "closingAll" => caller[c].connection \notin caller[d].todo
        /\ \A p \in DOMAIN connections : connections[p] # caller[c].connection

\* No two peers share a connection.
ConnectionsDiffer ==
    \A p, q \in DOMAIN connections : connections[p] = connections[q] => p = q

PeersInv == Numbered /\ HandshakeIsPrivate /\ ConnectionsDiffer /\ Peers!PeersAgree

(* With no peers and no operation the invariant holds.                      *)
LEMMA PeersInitially == Peers!Init => PeersInv
<1> SUFFICES ASSUME Peers!Init PROVE PeersInv
  OBVIOUS
<1> USE DEF Peers!Init, Peers!Resting
<1>1. Numbered
  BY DEF Numbered, PeerFrame
<1>2. HandshakeIsPrivate
  BY DEF HandshakeIsPrivate
<1>3. ConnectionsDiffer
  BY DEF ConnectionsDiffer
<1>4. Peers!PeersAgree
  BY DEF Peers!PeersAgree
<1> QED BY <1>1, <1>2, <1>3, <1>4 DEF PeersInv

(* A new connection has a number nobody knows yet.                          *)
LEMMA AddPeerKeeps ==
    ASSUME PeersInv, NEW c \in Caller, NEW p \in PeerName, Peers!AddPeer(c, p)
    PROVE  PeersInv'
<1> USE DEF PeersInv, Peers!AddPeer, Peers!Begin, Peers!Resting
<1>1. Numbered'
  BY DEF Numbered, PeerFrame, Peers!With, Peers!Without
<1>2. HandshakeIsPrivate'
  BY DEF Numbered, PeerFrame, HandshakeIsPrivate, Peers!With, Peers!Without
<1>3. ConnectionsDiffer'
  BY DEF Numbered, PeerFrame, HandshakeIsPrivate, ConnectionsDiffer, Peers!With, Peers!Without
<1>4. Peers!PeersAgree'
  BY DEF Numbered, PeerFrame, HandshakeIsPrivate, ConnectionsDiffer, Peers!PeersAgree, Peers!With, Peers!Without, Peers!Best
<1> QED BY <1>1, <1>2, <1>3, <1>4

(* A peer enters the table with a connection no other peer has.             *)
LEMMA HandshakenKeeps ==
    ASSUME PeersInv, NEW c \in Caller, Peers!Handshaken(c)
    PROVE  PeersInv'
<1> DEFINE f == caller[c]
<1> USE DEF PeersInv, Peers!Handshaken, Peers!Continue, Peers!Resting
<1>1. Numbered'
  <2>1. f \in PeerFrame /\ f.at = "handshake" /\ f.connection \in Nat /\ f.connection <= opened
    BY DEF Numbered, PeerFrame, HandshakeIsPrivate
  <2>2. caller' \in [Caller -> PeerFrame]
    BY DEF Numbered, PeerFrame
  <2>3. \A p \in DOMAIN connections' :
          connections'[p] \in Nat /\ connections'[p] <= opened
    BY <2>1 DEF Numbered, Peers!With
  <2>4. \A d \in Caller : \A n \in Nat :
          caller'[d].at = "closingAll" /\ n \in caller'[d].todo => n <= opened
    BY DEF Numbered
  <2> QED BY <2>2, <2>3, <2>4 DEF Numbered
<1>2. HandshakeIsPrivate'
  BY DEF Numbered, PeerFrame, HandshakeIsPrivate, Peers!With, Peers!Without
<1>3. ConnectionsDiffer'
  BY DEF Numbered, PeerFrame, HandshakeIsPrivate, ConnectionsDiffer, Peers!With, Peers!Without
<1>4. Peers!PeersAgree'
  BY DEF Numbered, PeerFrame, HandshakeIsPrivate, ConnectionsDiffer, Peers!PeersAgree, Peers!With, Peers!Without, Peers!Best
<1> QED BY <1>1, <1>2, <1>3, <1>4

(* Closing starts with the one connection of its peer.                      *)
LEMMA DisconnectPeerKeeps ==
    ASSUME PeersInv, NEW c \in Caller, NEW p \in PeerName, Peers!DisconnectPeer(c, p)
    PROVE  PeersInv'
<1> USE DEF PeersInv, Peers!DisconnectPeer, Peers!Begin, Peers!Resting
<1>1. Numbered'
  BY DEF Numbered, PeerFrame, Peers!With, Peers!Without
<1>2. HandshakeIsPrivate'
  BY DEF Numbered, PeerFrame, HandshakeIsPrivate, Peers!With, Peers!Without
<1>3. ConnectionsDiffer'
  BY DEF Numbered, PeerFrame, HandshakeIsPrivate, ConnectionsDiffer, Peers!With, Peers!Without
<1>4. Peers!PeersAgree'
  BY DEF Numbered, PeerFrame, HandshakeIsPrivate, ConnectionsDiffer, Peers!PeersAgree, Peers!With, Peers!Without, Peers!Best
<1> QED BY <1>1, <1>2, <1>3, <1>4

(* A peer that leaves takes its height along; another is the best then.     *)
LEMMA DisconnectedKeeps ==
    ASSUME PeersInv, NEW c \in Caller, Peers!Disconnected(c)
    PROVE  PeersInv'
<1> USE DEF PeersInv, Peers!Disconnected, Peers!Continue, Peers!Resting
<1>1. Numbered'
  BY DEF Numbered, PeerFrame, Peers!With, Peers!Without
<1>2. HandshakeIsPrivate'
  BY DEF Numbered, PeerFrame, HandshakeIsPrivate, Peers!With, Peers!Without
<1>3. ConnectionsDiffer'
  BY DEF Numbered, PeerFrame, HandshakeIsPrivate, ConnectionsDiffer, Peers!With, Peers!Without
<1>4. Peers!PeersAgree'
  <2> DEFINE f == caller[c]
  <2>1. CASE f.peer \notin DOMAIN connections
    BY <2>1 DEF Peers!PeersAgree, Peers!Best, Numbered
  <2>2. CASE f.peer \in DOMAIN connections
    <3>1. /\ DOMAIN connections' = DOMAIN connections \ {f.peer}
          /\ DOMAIN peerHeights' = DOMAIN peerHeights \ {f.peer}
          /\ \A p \in DOMAIN connections' : connections'[p] = connections[p]
          /\ \A p \in DOMAIN peerHeights' : peerHeights'[p] = peerHeights[p]
      BY <2>2 DEF Peers!Without
    <3>2. bestPeer \in Peers!Best(peerHeights)
      BY <2>2 DEF Peers!PeersAgree
    <3>3. IF DOMAIN connections' = {} THEN bestPeer' = None
          ELSE bestPeer' \in Peers!Best(peerHeights')
      <4>1. CASE bestPeer # f.peer
        BY <2>2, <3>1, <3>2, <4>1 DEF Peers!PeersAgree, Peers!Best
      <4>2. CASE bestPeer = f.peer
        BY <2>2, <3>1, <4>2 DEF Peers!PeersAgree
      <4> QED BY <4>1, <4>2
    <3>4. \A p \in DOMAIN connections' :
             \/ connections'[p] \in open'
             \/ \E d \in Caller :
                  \/ caller'[d].at = "closingAll"
                  \/ caller'[d].at = "closing" /\ caller'[d].peer = p
      <4> TAKE p \in DOMAIN connections'
      <4>1. p \in DOMAIN connections /\ p # f.peer /\ connections'[p] = connections[p]
        BY <3>1
      <4>2. CASE connections[p] \in open
        BY <4>1, <4>2
      <4>3. ASSUME NEW d \in Caller,
                   \/ caller[d].at = "closingAll"
                   \/ caller[d].at = "closing" /\ caller[d].peer = p
            PROVE  d # c /\ caller'[d] = caller[d]
        BY <4>1, <4>3 DEF Numbered
      <4>4. CASE connections[p] \notin open
        <5>1. PICK d \in Caller :
                  \/ caller[d].at = "closingAll"
                  \/ caller[d].at = "closing" /\ caller[d].peer = p
          BY <4>1, <4>4 DEF Peers!PeersAgree
        <5>2. caller'[d] = caller[d]
          BY <4>3, <5>1
        <5> QED BY <5>1, <5>2
      <4> QED BY <4>2, <4>4
    <3>5. DOMAIN connections' = DOMAIN peerHeights'
      BY <3>1 DEF Peers!PeersAgree
    <3> QED BY <3>3, <3>4, <3>5 DEF Peers!PeersAgree
  <2> QED BY <2>1, <2>2
<1> QED BY <1>1, <1>2, <1>3, <1>4

(* close_all takes its list from the table.                                 *)
LEMMA CloseAllKeeps ==
    ASSUME PeersInv, NEW c \in Caller, Peers!CloseAll(c)
    PROVE  PeersInv'
<1> USE DEF PeersInv, Peers!CloseAll, Peers!Begin, Peers!Resting
<1>1. Numbered'
  BY DEF Numbered, PeerFrame, Peers!With, Peers!Without
<1>2. HandshakeIsPrivate'
  BY DEF Numbered, PeerFrame, HandshakeIsPrivate, Peers!With, Peers!Without
<1>3. ConnectionsDiffer'
  BY DEF Numbered, PeerFrame, HandshakeIsPrivate, ConnectionsDiffer, Peers!With, Peers!Without
<1>4. Peers!PeersAgree'
  BY DEF Numbered, PeerFrame, HandshakeIsPrivate, ConnectionsDiffer, Peers!PeersAgree, Peers!With, Peers!Without, Peers!Best
<1> QED BY <1>1, <1>2, <1>3, <1>4

(* Closing ends in an empty table, and spares the connections in handshake. *)
LEMMA CloseNextKeeps ==
    ASSUME PeersInv, NEW c \in Caller, Peers!CloseNext(c)
    PROVE  PeersInv'
<1> USE DEF PeersInv, Peers!CloseNext, Peers!Continue, Peers!Resting
<1>1. Numbered'
  BY DEF Numbered, PeerFrame, Peers!With, Peers!Without
<1>2. HandshakeIsPrivate'
  BY DEF Numbered, PeerFrame, HandshakeIsPrivate, Peers!With, Peers!Without
<1>3. ConnectionsDiffer'
  BY DEF Numbered, PeerFrame, HandshakeIsPrivate, ConnectionsDiffer, Peers!With, Peers!Without
<1>4. Peers!PeersAgree'
  BY DEF Numbered, PeerFrame, HandshakeIsPrivate, ConnectionsDiffer, Peers!PeersAgree, Peers!With, Peers!Without, Peers!Best
<1> QED BY <1>1, <1>2, <1>3, <1>4

(* The strengthened invariant holds in every reachable state.               *)
LEMMA PeersInductive == Peers!Spec => []PeersInv
<1>1. Peers!Init => PeersInv
  BY PeersInitially
<1>2. PeersInv /\ [Peers!Next]_Peers!peerVars => PeersInv'
  <2> SUFFICES ASSUME PeersInv, [Peers!Next]_Peers!peerVars PROVE PeersInv'
    OBVIOUS
  <2>1. CASE UNCHANGED Peers!peerVars
    BY <2>1 DEF Peers!peerVars, PeersInv, Numbered, HandshakeIsPrivate, ConnectionsDiffer,
                Peers!PeersAgree, Peers!Best
  <2>2. CASE Peers!Next
    <3> SUFFICES ASSUME NEW c \in Caller,
                        \/ \E p \in PeerName : Peers!AddPeer(c, p) \/ Peers!DisconnectPeer(c, p)
                        \/ Peers!CloseAll(c)
                        \/ Peers!Handshaken(c) \/ Peers!Disconnected(c) \/ Peers!CloseNext(c)
                 PROVE  PeersInv'
      BY <2>2 DEF Peers!Next
    <3>1. CASE \E p \in PeerName : Peers!AddPeer(c, p) \/ Peers!DisconnectPeer(c, p)
      BY <3>1, AddPeerKeeps, DisconnectPeerKeeps
    <3>2. CASE Peers!CloseAll(c)
      BY <3>2, CloseAllKeeps
    <3>3. CASE Peers!Handshaken(c)
      BY <3>3, HandshakenKeeps
    <3>4. CASE Peers!Disconnected(c)
      BY <3>4, DisconnectedKeeps
    <3>5. CASE Peers!CloseNext(c)
      BY <3>5, CloseNextKeeps
    <3> QED BY <3>1, <3>2, <3>3, <3>4, <3>5
  <2> QED BY <2>1, <2>2
<1> QED BY <1>1, <1>2, PTL DEF Peers!Spec

(* Whatever tasks add, disconnect and close at once, the table of peers, the *)
(* best peer and the open connections agree.                                *)
THEOREM PeersAlwaysAgree == Peers!Spec => []Peers!PeersAgree
<1>1. PeersInv => Peers!PeersAgree
  BY DEF PeersInv
<1> QED BY <1>1, PeersInductive, PTL

(* No step of the synchroniser or of its connection touches the manager.    *)
LEMMA ManagerImplemented == Spec => Peers!Spec
<1>1. Init => Peers!Init
  BY DEF Init
<1>2. [Next]_vars => [Peers!Next]_(Peers!peerVars)
  BY DEF Next, OnConnection, OnSync, OnPeers, vars, peerVars, Peers!peerVars
<1> QED BY <1>1, <1>2, PTL DEF Spec, Peers!Spec

(* Beside a synchroniser at work on the same event loop, too, the table of   *)
(* peers, the best peer and the open connections agree.                     *)
THEOREM PeersAgreeInNetwork == Spec => []PeersAgree
  BY ManagerImplemented, PeersAlwaysAgree, PTL DEF PeersAgree

-----------------------------------------------------------------------------
(* The connection and the synchroniser.                                     *)

\* A sequence of whatever it holds.
IsSequence(s) == s \in Seq({s[i] : i \in DOMAIN s})

\* The parts that are still to be read, in their order.
Coming == stream \o wire

Sequences == IsSequence(stream) /\ IsSequence(wire) /\ IsSequence(requests)

\* What is asked of the peer.
Asking ==
    \A i \in DOMAIN requests : requests[i].kind \in {"version", "getheaders", "getdata"}

\* A header is followed by its payload, and a payload follows its header.
Framing(s) ==
    /\ \A i \in DOMAIN s : s[i].part \in {"header", "payload"}
    /\ \A i \in DOMAIN s : s[i].part = "header" /\ s[i].message.kind # "verack" =>
         i + 1 \in DOMAIN s /\ s[i + 1] = Sync!Part(s[i].message, "payload")
    /\ \A i \in DOMAIN s : i + 1 \in DOMAIN s /\ s[i + 1].part = "payload" =>
         s[i].part = "header" /\ s[i].message.kind # "verack"

\* The next part is the one the task takes it for.
Aligned ==
    /\ Framing(Coming)
    /\ IF task.at = "payload"
       THEN Coming # <<>> /\ Coming[1] = Sync!Part(task.message, "payload")
       ELSE Coming # <<>> => Coming[1].part = "header"

\* The fields of a task that was given a request.
Requesting ==
    task.operation \in {"block", "blocks", "headers"} =>
        /\ DOMAIN task = {"at", "operation", "message", "clean", "asked", "round", "got", "complete"}
        /\ task.clean \in BOOLEAN
        /\ task.operation = "block" => task.asked # None

TaskTyped ==
    /\ {"at", "operation", "message"} \subseteq DOMAIN task
    /\ task = [k \in DOMAIN task |-> task[k]]
    /\ Requesting

\* The message m is no block, or the one that was asked for.
Fits(m) == m.kind = "block" => m.block = task.asked

\* After a clean request for a block nothing else is asked of the peer, and no
\* other block comes, until the request returns.
Answering ==
    /\ task.operation \in {"block", "blocks"} /\ task.asked # None /\ task.clean
    /\ task.at \in {"header", "payload", "received"}
    => /\ \A i \in DOMAIN Coming : Fits(Coming[i].message)
       /\ \A i \in DOMAIN requests :
            requests[i].kind = "getdata" /\ requests[i].block = task.asked
       /\ task.at \in {"payload", "received"} => Fits(task.message)

SyncInv ==
    /\ Sequences /\ Asking /\ TaskTyped /\ cut \in BOOLEAN
    /\ ~cut => Aligned
    /\ Answering
    /\ RightBlock

(* What is a sequence of anything is one of what it holds.                  *)
LEMMA SequenceOfItsOwn ==
    ASSUME NEW S, NEW s \in Seq(S)
    PROVE  IsSequence(s)
<1>1. s \in [1 .. Len(s) -> {s[i] : i \in DOMAIN s}] /\ Len(s) \in Nat
  OBVIOUS
<1> QED BY <1>1 DEF IsSequence

(* The operations on sequences lead to sequences.                           *)
LEMMA SequenceOperations ==
    ASSUME NEW s, IsSequence(s)
    PROVE  /\ Len(s) \in Nat /\ DOMAIN s = 1 .. Len(s)
           /\ \A x : /\ IsSequence(Append(s, x)) /\ Len(Append(s, x)) = Len(s) + 1
                     /\ \A i \in 1 .. Len(s) : Append(s, x)[i] = s[i]
                     /\ Append(s, x)[Len(s) + 1] = x
           /\ s # <<>> => /\ Len(s) >= 1 /\ IsSequence(Tail(s)) /\ Len(Tail(s)) = Len(s) - 1
                          /\ DOMAIN Tail(s) = 1 .. Len(s) - 1 /\ Head(s) = s[1]
                          /\ \A i \in 1 .. Len(s) - 1 : Tail(s)[i] = s[i + 1]
<1> DEFINE S == {s[i] : i \in DOMAIN s}
<1>1. s \in Seq(S)
  BY DEF IsSequence
<1>2. Len(s) \in Nat /\ DOMAIN s = 1 .. Len(s)
  BY <1>1
<1>3. ASSUME NEW x
      PROVE  /\ IsSequence(Append(s, x)) /\ Len(Append(s, x)) = Len(s) + 1
             /\ \A i \in 1 .. Len(s) : Append(s, x)[i] = s[i]
             /\ Append(s, x)[Len(s) + 1] = x
  <2>1. s \in Seq(S \cup {x}) /\ x \in S \cup {x}
    <3> HIDE DEF S
    <3>1. s \in [1 .. Len(s) -> S \cup {x}]
      BY <1>1
    <3> QED BY <1>2, <3>1
  <2> HIDE DEF S
  <2>2. Append(s, x) \in Seq(S \cup {x})
    BY <2>1
  <2>3. IsSequence(Append(s, x))
    BY <2>2, SequenceOfItsOwn
  <2> QED BY <2>1, <2>3
<1>4. ASSUME s # <<>>
      PROVE  /\ Len(s) >= 1 /\ IsSequence(Tail(s)) /\ Len(Tail(s)) = Len(s) - 1
             /\ DOMAIN Tail(s) = 1 .. Len(s) - 1 /\ Head(s) = s[1]
             /\ \A i \in 1 .. Len(s) - 1 : Tail(s)[i] = s[i + 1]
  <2> HIDE DEF S
  <2>1. Tail(s) \in Seq(S) /\ Len(s) >= 1
    BY <1>1, <1>4
  <2>2. IsSequence(Tail(s))
    BY <2>1, SequenceOfItsOwn
  <2> QED BY <1>1, <1>4, <2>1, <2>2
<1> HIDE DEF S
<1> QED BY <1>2, <1>3, <1>4

(* Two sequences make one.                                                  *)
LEMMA Concatenation ==
    ASSUME NEW s, NEW r, IsSequence(s), IsSequence(r)
    PROVE  /\ IsSequence(s \o r) /\ Len(s \o r) = Len(s) + Len(r)
           /\ Len(s) \in Nat /\ Len(r) \in Nat
           /\ DOMAIN (s \o r) = 1 .. Len(s) + Len(r)
           /\ DOMAIN s = 1 .. Len(s) /\ DOMAIN r = 1 .. Len(r)
           /\ \A i \in 1 .. Len(s) + Len(r) :
                (s \o r)[i] = IF i <= Len(s) THEN s[i] ELSE r[i - Len(s)]
<1> DEFINE S == {s[i] : i \in DOMAIN s} \cup {r[i] : i \in DOMAIN r}
<1>1. s \in Seq(S) /\ r \in Seq(S)
  <2>1. /\ s \in Seq({s[i] : i \in DOMAIN s}) /\ r \in Seq({r[i] : i \in DOMAIN r})
    BY DEF IsSequence
  <2>2. /\ s \in [1 .. Len(s) -> S] /\ r \in [1 .. Len(r) -> S]
        /\ Len(s) \in Nat /\ Len(r) \in Nat
    BY <2>1
  <2> HIDE DEF S
  <2> QED BY <2>2
<1> HIDE DEF S
<1>2. s \o r \in Seq(S)
  BY <1>1
<1>3. IsSequence(s \o r)
  BY <1>2, SequenceOfItsOwn
<1> QED BY <1>1, <1>2, <1>3

(* Sequences with the same elements are the same.                           *)
LEMMA SameSequence ==
    ASSUME NEW s, NEW r, IsSequence(s), IsSequence(r), Len(s) = Len(r),
           \A i \in 1 .. Len(s) : s[i] = r[i]
    PROVE  s = r
<1>1. s \in [1 .. Len(s) -> {s[i] : i \in DOMAIN s}]
      /\ r \in [1 .. Len(r) -> {r[i] : i \in DOMAIN r}]
  BY DEF IsSequence
<1>2. /\ DOMAIN s = 1 .. Len(s) /\ DOMAIN r = 1 .. Len(r)
      /\ s = [i \in DOMAIN s |-> s[i]] /\ r = [i \in DOMAIN r |-> r[i]]
  BY <1>1
<1> QED BY <1>2

(* What arrives leaves the wire for the stream: what is coming is the same. *)
LEMMA ArrivalKeepsOrder ==
    ASSUME NEW s, NEW w, IsSequence(s), IsSequence(w), w # <<>>
    PROVE  Append(s, Head(w)) \o Tail(w) = s \o w
<1> DEFINE a == Append(s, Head(w))
           t == Tail(w)
<1>1. /\ IsSequence(a) /\ Len(a) = Len(s) + 1 /\ Len(s) \in Nat
      /\ \A i \in 1 .. Len(s) : a[i] = s[i]
      /\ a[Len(s) + 1] = w[1]
  BY SequenceOperations
<1>2. /\ IsSequence(t) /\ Len(t) = Len(w) - 1 /\ Len(w) \in Nat /\ Len(w) >= 1
      /\ \A i \in 1 .. Len(w) - 1 : t[i] = w[i + 1]
  BY SequenceOperations
<1> HIDE DEF a, t
<1>3. /\ IsSequence(a \o t) /\ Len(a \o t) = Len(a) + Len(t)
      /\ \A i \in 1 .. Len(a) + Len(t) : (a \o t)[i] = IF i <= Len(a) THEN a[i] ELSE t[i - Len(a)]
  BY <1>1, <1>2, Concatenation
<1>4. /\ IsSequence(s \o w) /\ Len(s \o w) = Len(s) + Len(w)
      /\ \A i \in 1 .. Len(s) + Len(w) : (s \o w)[i] = IF i <= Len(s) THEN s[i] ELSE w[i - Len(s)]
  BY Concatenation
<1>5. Len(a \o t) = Len(s \o w)
  BY <1>1, <1>2, <1>3, <1>4
<1>6. ASSUME NEW i \in 1 .. Len(a \o t) PROVE (a \o t)[i] = (s \o w)[i]
  <2>1. CASE i <= Len(s)
    BY <1>1, <1>2, <1>3, <1>4, <1>5, <2>1
  <2>2. CASE i = Len(s) + 1
    BY <1>1, <1>2, <1>3, <1>4, <1>5, <2>2
  <2>3. CASE i > Len(s) + 1
    <3>1. i - Len(a) \in 1 .. Len(w) - 1 /\ (i - Len(a)) + 1 = i - Len(s)
      BY <1>1, <1>2, <1>3, <1>4, <1>5, <2>3
    <3>2. (a \o t)[i] = t[i - Len(a)] /\ (s \o w)[i] = w[i - Len(s)]
      BY <1>1, <1>2, <1>3, <1>4, <1>5, <2>3
    <3> QED BY <1>2, <3>1, <3>2
  <2> QED BY <1>1, <1>2, <1>3, <2>1, <2>2, <2>3
<1>7. a \o t = s \o w
  BY <1>3, <1>4, <1>5, <1>6, SameSequence
<1> QED BY <1>7 DEF a, t

(* Reading takes the first part of what is coming.                          *)
LEMMA ReadingKeepsOrder ==
    ASSUME NEW s, NEW w, IsSequence(s), IsSequence(w), s # <<>>
    PROVE  /\ s \o w # <<>> /\ (s \o w)[1] = Head(s)
           /\ Tail(s) \o w = Tail(s \o w)
<1> DEFINE t == Tail(s)
<1>1. /\ IsSequence(t) /\ Len(t) = Len(s) - 1 /\ Len(s) \in Nat /\ Len(s) >= 1
      /\ Head(s) = s[1]
      /\ \A i \in 1 .. Len(s) - 1 : t[i] = s[i + 1]
  BY SequenceOperations
<1> HIDE DEF t
<1>2. /\ IsSequence(s \o w) /\ Len(s \o w) = Len(s) + Len(w) /\ Len(w) \in Nat
      /\ \A i \in 1 .. Len(s) + Len(w) : (s \o w)[i] = IF i <= Len(s) THEN s[i] ELSE w[i - Len(s)]
  BY Concatenation
<1>3. /\ IsSequence(t \o w) /\ Len(t \o w) = Len(t) + Len(w)
      /\ \A i \in 1 .. Len(t) + Len(w) : (t \o w)[i] = IF i <= Len(t) THEN t[i] ELSE w[i - Len(t)]
  BY <1>1, Concatenation
<1>4. s \o w # <<>> /\ (s \o w)[1] = s[1]
  BY <1>1, <1>2
<1> DEFINE c == s \o w
<1>5. /\ IsSequence(Tail(c)) /\ Len(Tail(c)) = Len(c) - 1
      /\ \A i \in 1 .. Len(c) - 1 : Tail(c)[i] = c[i + 1]
  BY <1>2, <1>4, SequenceOperations
<1>6. ASSUME NEW i \in 1 .. Len(t \o w) PROVE (t \o w)[i] = Tail(c)[i]
  <2>1. Tail(c)[i] = c[i + 1]
    BY <1>1, <1>2, <1>3, <1>5
  <2>2. CASE i <= Len(t)
    BY <1>1, <1>2, <1>3, <2>1, <2>2
  <2>3. CASE i > Len(t)
    <3>1. i - Len(t) = (i + 1) - Len(s)
      BY <1>1, <1>3, <2>3
    <3>2. (t \o w)[i] = w[i - Len(t)] /\ c[i + 1] = w[(i + 1) - Len(s)]
      BY <1>1, <1>2, <1>3, <2>3
    <3> QED BY <2>1, <3>1, <3>2
  <2> QED BY <1>1, <1>3, <2>2, <2>3
<1>7. Len(t \o w) = Len(Tail(c))
  BY <1>1, <1>2, <1>3, <1>5
<1>8. t \o w = Tail(c)
  <2> HIDE DEF c
  <2> QED BY <1>3, <1>5, <1>6, <1>7, SameSequence
<1> QED BY <1>1, <1>4, <1>8 DEF t

(* What is sent comes after what is coming.                                 *)
LEMMA SendingKeepsOrder ==
    ASSUME NEW s, NEW w, NEW m, IsSequence(s), IsSequence(w), IsSequence(m)
    PROVE  s \o (w \o m) = (s \o w) \o m
<1> DEFINE wm == w \o m
           sw == s \o w
<1>1. /\ IsSequence(wm) /\ Len(wm) = Len(w) + Len(m)
      /\ Len(w) \in Nat /\ Len(m) \in Nat
      /\ \A i \in 1 .. Len(w) + Len(m) : wm[i] = IF i <= Len(w) THEN w[i] ELSE m[i - Len(w)]
  BY Concatenation
<1>2. /\ IsSequence(sw) /\ Len(sw) = Len(s) + Len(w) /\ Len(s) \in Nat
      /\ \A i \in 1 .. Len(s) + Len(w) : sw[i] = IF i <= Len(s) THEN s[i] ELSE w[i - Len(s)]
  BY Concatenation
<1> HIDE DEF wm, sw
<1>3. /\ IsSequence(s \o wm) /\ Len(s \o wm) = Len(s) + Len(wm)
      /\ \A i \in 1 .. Len(s) + Len(wm) : (s \o wm)[i] = IF i <= Len(s) THEN s[i] ELSE wm[i - Len(s)]
  BY <1>1, Concatenation
<1>4. /\ IsSequence(sw \o m) /\ Len(sw \o m) = Len(sw) + Len(m)
      /\ \A i \in 1 .. Len(sw) + Len(m) : (sw \o m)[i] = IF i <= Len(sw) THEN sw[i] ELSE m[i - Len(sw)]
  BY <1>2, Concatenation
<1>5. ASSUME NEW i \in 1 .. Len(s \o wm) PROVE (s \o wm)[i] = (sw \o m)[i]
  <2>1. CASE i <= Len(s)
    BY <1>1, <1>2, <1>3, <1>4, <2>1
  <2>2. CASE i > Len(s) /\ i <= Len(sw)
    <3>1. i - Len(s) \in 1 .. Len(w)
      BY <1>1, <1>2, <2>2
    <3>2. (s \o wm)[i] = wm[i - Len(s)] /\ (sw \o m)[i] = sw[i] /\ sw[i] = w[i - Len(s)]
      BY <1>1, <1>2, <1>3, <1>4, <2>2
    <3>3. wm[i - Len(s)] = w[i - Len(s)]
      BY <1>1, <3>1
    <3> QED BY <3>2, <3>3
  <2>3. CASE i > Len(sw)
    <3>1. /\ i - Len(s) \in 1 .. Len(w) + Len(m) /\ i - Len(s) > Len(w)
          /\ (i - Len(s)) - Len(w) = i - Len(sw)
      <4>1. i \in Int /\ i <= Len(s) + Len(w) + Len(m)
        BY <1>1, <1>2, <1>3
      <4>2. Len(s) \in Nat /\ Len(w) \in Nat /\ Len(m) \in Nat /\ Len(sw) = Len(s) + Len(w)
        BY <1>1, <1>2
      <4> QED BY <4>1, <4>2, <2>3
    <3>2. (s \o wm)[i] = wm[i - Len(s)] /\ (sw \o m)[i] = m[i - Len(sw)]
      <4>1. i \in 1 .. Len(s) + Len(wm) /\ ~(i <= Len(s))
        BY <1>1, <1>2, <1>3, <2>3
      <4>2. i \in 1 .. Len(sw) + Len(m) /\ ~(i <= Len(sw))
        BY <1>1, <1>2, <1>3, <2>3
      <4>3. (s \o wm)[i] = wm[i - Len(s)]
        BY <1>3, <4>1
      <4>4. (sw \o m)[i] = m[i - Len(sw)]
        BY <1>4, <4>2
      <4> QED BY <4>3, <4>4
    <3>3. wm[i - Len(s)] = m[(i - Len(s)) - Len(w)]
      BY <1>1, <3>1
    <3> QED BY <3>1, <3>2, <3>3
  <2> QED BY <1>1, <1>2, <1>3, <2>1, <2>2, <2>3
<1>6. Len(s \o wm) = Len(sw \o m)
  BY <1>1, <1>2, <1>3, <1>4
<1>7. s \o wm = sw \o m
  BY <1>3, <1>4, <1>5, <1>6, SameSequence
<1> QED BY <1>7 DEF wm, sw

(* Frames after frames are frames.                                          *)
LEMMA FramingExtended ==
    ASSUME NEW s, NEW r, IsSequence(s), IsSequence(r), Framing(s), Framing(r),
           r # <<>> => r[1].part = "header"
    PROVE  /\ IsSequence(s \o r) /\ Framing(s \o r)
           /\ s # <<>> => s \o r # <<>> /\ (s \o r)[1] = s[1]
           /\ s = <<>> => s \o r = r
<1>1. /\ IsSequence(s \o r) /\ Len(s \o r) = Len(s) + Len(r)
      /\ Len(s) \in Nat /\ Len(r) \in Nat
      /\ DOMAIN (s \o r) = 1 .. Len(s) + Len(r)
      /\ DOMAIN s = 1 .. Len(s) /\ DOMAIN r = 1 .. Len(r)
      /\ \A i \in 1 .. Len(s) + Len(r) :
           (s \o r)[i] = IF i <= Len(s) THEN s[i] ELSE r[i - Len(s)]
  BY Concatenation
<1> DEFINE c == s \o r
<1> HIDE DEF c
<1>2. ASSUME NEW i \in 1 .. Len(s) + Len(r)
      PROVE  \/ i \in 1 .. Len(s) /\ c[i] = s[i]
             \/ i - Len(s) \in 1 .. Len(r) /\ c[i] = r[i - Len(s)] /\ i > Len(s)
  BY <1>1 DEF c
<1>3. DOMAIN c = 1 .. Len(s) + Len(r)
  BY <1>1 DEF c
<1>4. ASSUME NEW i \in DOMAIN c PROVE c[i].part \in {"header", "payload"}
  <2>1. CASE i \in DOMAIN s /\ c[i] = s[i]
    BY <2>1 DEF Framing
  <2>2. CASE i - Len(s) \in DOMAIN r /\ c[i] = r[i - Len(s)]
    BY <2>2 DEF Framing
  <2> QED BY <1>1, <1>2, <1>3, <2>1, <2>2
<1>5. ASSUME NEW i \in DOMAIN c, c[i].part = "header", c[i].message.kind # "verack"
      PROVE  i + 1 \in DOMAIN c /\ c[i + 1] = Sync!Part(c[i].message, "payload")
  <2>1. CASE i \in 1 .. Len(s) /\ c[i] = s[i]
    <3>1. i + 1 \in DOMAIN s /\ s[i + 1] = Sync!Part(s[i].message, "payload")
      BY <1>1, <1>5, <2>1 DEF Framing
    <3> QED BY <1>1, <1>3, <2>1, <3>1 DEF c
  <2>2. CASE i - Len(s) \in 1 .. Len(r) /\ c[i] = r[i - Len(s)] /\ i > Len(s)
    <3>1. /\ (i - Len(s)) + 1 \in DOMAIN r
          /\ r[(i - Len(s)) + 1] = Sync!Part(r[i - Len(s)].message, "payload")
      BY <1>1, <1>5, <2>2 DEF Framing
    <3>2. (i - Len(s)) + 1 = (i + 1) - Len(s) /\ i + 1 \in 1 .. Len(s) + Len(r) /\ ~(i + 1 <= Len(s))
      BY <1>1, <1>3, <2>2, <3>1
    <3>3. c[i + 1] = r[(i + 1) - Len(s)]
      BY <1>1, <3>2 DEF c
    <3> QED BY <1>3, <2>2, <3>1, <3>2, <3>3
  <2> QED BY <1>2, <1>3, <2>1, <2>2
<1>6. ASSUME NEW i \in DOMAIN c, i + 1 \in DOMAIN c, c[i + 1].part = "payload"
      PROVE  c[i].part = "header" /\ c[i].message.kind # "verack"
  <2>1. CASE i + 1 \in 1 .. Len(s) /\ c[i + 1] = s[i + 1]
    <3>1. i \in 1 .. Len(s) /\ c[i] = s[i]
      BY <1>1, <1>2, <1>3, <2>1
    <3> QED BY <1>1, <1>6, <2>1, <3>1 DEF Framing
  <2>2. CASE (i + 1) - Len(s) \in 1 .. Len(r) /\ c[i + 1] = r[(i + 1) - Len(s)]
    <3>1. CASE (i + 1) - Len(s) = 1
      BY <1>1, <1>6, <2>2, <3>1
    <3>2. CASE (i + 1) - Len(s) > 1
      <4>1. i - Len(s) \in 1 .. Len(r) /\ (i + 1) - Len(s) = (i - Len(s)) + 1 /\ ~(i <= Len(s))
        BY <1>1, <1>3, <2>2, <3>2
      <4>2. c[i] = r[i - Len(s)]
        BY <1>1, <1>3, <4>1 DEF c
      <4> QED BY <1>1, <1>6, <2>2, <4>1, <4>2 DEF Framing
    <3> QED BY <1>1, <1>3, <2>2, <3>1, <3>2
  <2> QED BY <1>2, <1>3, <1>6, <2>1, <2>2
<1>7. Framing(c)
  BY <1>4, <1>5, <1>6 DEF Framing
<1>8. s # <<>> => c # <<>> /\ c[1] = s[1]
  <2>1. SUFFICES ASSUME s # <<>> PROVE c # <<>> /\ c[1] = s[1]
    OBVIOUS
  <2>2. Len(s) >= 1
    BY <2>1, SequenceOperations
  <2>3. c # <<>>
    BY <1>1, <2>2 DEF c
  <2> QED BY <1>1, <2>2, <2>3 DEF c
<1>9. s = <<>> => c = r
  <2>1. SUFFICES ASSUME s = <<>> PROVE c = r
    OBVIOUS
  <2>2. Len(s) = 0
    BY <2>1
  <2>3. \A i \in 1 .. Len(c) : c[i] = r[i]
    BY <1>1, <2>2 DEF c
  <2>4. IsSequence(c) /\ Len(c) = Len(r)
    BY <1>1, <2>2 DEF c
  <2> QED BY <2>3, <2>4, SameSequence
<1> QED BY <1>1, <1>7, <1>8, <1>9 DEF c

(* The rest of a row of frames, once its first part is read.                *)
LEMMA FramingRead ==
    ASSUME NEW s, IsSequence(s), Framing(s), s # <<>>
    PROVE  /\ IsSequence(Tail(s)) /\ Framing(Tail(s))
           /\ IF s[1].part = "header" /\ s[1].message.kind # "verack"
              THEN Tail(s) # <<>> /\ Tail(s)[1] = Sync!Part(s[1].message, "payload")
              ELSE Tail(s) # <<>> => Tail(s)[1].part = "header"
<1> DEFINE t == Tail(s)
<1>1. /\ IsSequence(t) /\ Len(t) = Len(s) - 1 /\ Len(s) \in Nat /\ Len(s) >= 1
      /\ DOMAIN s = 1 .. Len(s) /\ DOMAIN t = 1 .. Len(s) - 1
      /\ \A i \in 1 .. Len(s) - 1 : t[i] = s[i + 1]
      /\ t # <<>> => 1 \in DOMAIN t
  <2>1. IsSequence(t)
    BY SequenceOperations
  <2>2. t # <<>> => Len(t) >= 1
    <3> HIDE DEF t
    <3> QED BY <2>1, SequenceOperations
  <2> HIDE DEF t
  <2>3. /\ Len(t) = Len(s) - 1 /\ Len(s) \in Nat /\ Len(s) >= 1
        /\ DOMAIN s = 1 .. Len(s) /\ DOMAIN t = 1 .. Len(s) - 1
        /\ \A i \in 1 .. Len(s) - 1 : t[i] = s[i + 1]
    BY SequenceOperations DEF t
  <2> QED BY <2>1, <2>2, <2>3
<1> HIDE DEF t
<1>2. Framing(t)
  <2>1. \A i \in DOMAIN t : t[i].part \in {"header", "payload"}
    BY <1>1 DEF Framing
  <2>2. ASSUME NEW i \in DOMAIN t, t[i].part = "header", t[i].message.kind # "verack"
        PROVE  i + 1 \in DOMAIN t /\ t[i + 1] = Sync!Part(t[i].message, "payload")
    <3>1. i + 1 \in DOMAIN s /\ t[i] = s[i + 1]
      BY <1>1
    <3>2. (i + 1) + 1 \in DOMAIN s /\ s[(i + 1) + 1] = Sync!Part(s[i + 1].message, "payload")
      BY <2>2, <3>1 DEF Framing
    <3> QED BY <1>1, <3>1, <3>2
  <2>3. ASSUME NEW i \in DOMAIN t, i + 1 \in DOMAIN t, t[i + 1].part = "payload"
        PROVE  t[i].part = "header" /\ t[i].message.kind # "verack"
    <3>1. /\ i + 1 \in DOMAIN s /\ (i + 1) + 1 \in DOMAIN s
          /\ t[i] = s[i + 1] /\ t[i + 1] = s[(i + 1) + 1]
      BY <1>1, <2>3
    <3> QED BY <2>3, <3>1 DEF Framing
  <2> QED BY <2>1, <2>2, <2>3 DEF Framing
<1>3. ASSUME s[1].part = "header", s[1].message.kind # "verack"
      PROVE  t # <<>> /\ t[1] = Sync!Part(s[1].message, "payload")
  <2>1. 1 + 1 \in DOMAIN s /\ s[1 + 1] = Sync!Part(s[1].message, "payload")
    BY <1>1, <1>3 DEF Framing
  <2>2. 1 \in DOMAIN t
    BY <1>1, <2>1
  <2>3. t # <<>>
    BY <2>2
  <2> QED BY <1>1, <2>1, <2>2, <2>3
<1>4. ASSUME ~(s[1].part = "header" /\ s[1].message.kind # "verack"), t # <<>>
      PROVE  t[1].part = "header"
  <2>1. 1 + 1 \in DOMAIN s /\ t[1] = s[1 + 1] /\ 1 \in DOMAIN s /\ 1 \in DOMAIN t
    BY <1>1, <1>4
  <2>2. s[1 + 1].part # "payload"
    BY <1>4, <2>1 DEF Framing
  <2> QED BY <2>1, <2>2 DEF Framing
<1> QED BY <1>1, <1>2, <1>3, <1>4 DEF t

(* A message is framed as a header and, unless it is a verack, a payload.    *)
LEMMA MessageFramed ==
    ASSUME NEW m
    PROVE  LET f == Sync!Framed(m)
           IN /\ IsSequence(f) /\ Framing(f) /\ f # <<>> /\ f[1].part = "header"
              /\ \A i \in DOMAIN f : f[i].message = m
<1> DEFINE f == Sync!Framed(m)
           h == Sync!Part(m, "header")
           p == Sync!Part(m, "payload")
<1>1. /\ h.part = "header" /\ p.part = "payload" /\ h.message = m /\ p.message = m
  BY DEF Sync!Part
<1> HIDE DEF h
<1>2. CASE m.kind = "verack"
  <2>1. f = <<h>>
    BY <1>2 DEF Sync!Framed, h
  <2> HIDE DEF f
  <2>2. DOMAIN f = {1} /\ f[1] = h /\ f # <<>> /\ f \in Seq({h})
    BY <2>1
  <2>3. IsSequence(f)
    BY <2>2, SequenceOfItsOwn
  <2>4. Framing(f)
    BY <1>1, <1>2, <2>2 DEF Framing
  <2> QED BY <1>1, <2>2, <2>3, <2>4 DEF f
<1>3. CASE m.kind # "verack"
  <2>1. f = <<h, p>>
    BY <1>3 DEF Sync!Framed, h
  <2> HIDE DEF f, p
  <2>2. DOMAIN f = {1, 2} /\ f[1] = h /\ f[2] = p /\ f # <<>> /\ f \in Seq({h, p})
    BY <2>1
  <2>3. IsSequence(f)
    BY <2>2, SequenceOfItsOwn
  <2>4. Framing(f)
    BY <1>1, <1>3, <2>2 DEF Framing, p
  <2> QED BY <1>1, <2>2, <2>3, <2>4 DEF f, p
<1> QED BY <1>2, <1>3

(* An answer is made of frames, and a block answers the request for it.     *)
LEMMA AnswerFramed ==
    ASSUME NEW request, request.kind \in {"version", "getheaders", "getdata"}
    PROVE  LET a == Sync!Answers(request)
           IN /\ IsSequence(a) /\ Framing(a) /\ a # <<>> /\ a[1].part = "header"
              /\ \A i \in DOMAIN a :
                   /\ a[i].message.kind = "block" =>
                        request.kind = "getdata" /\ a[i].message.block = request.block
<1> DEFINE a == Sync!Answers(request)
<1>1. CASE request.kind = "version"
  <2> DEFINE v == Sync!Framed([kind |-> "version"])
             w == Sync!Framed([kind |-> "verack"])
  <2>1. a = v \o w
    BY <1>1 DEF Sync!Answers
  <2>2. /\ IsSequence(v) /\ Framing(v) /\ v # <<>> /\ v[1].part = "header"
        /\ \A i \in DOMAIN v : v[i].message.kind = "version"
    BY MessageFramed
  <2>3. /\ IsSequence(w) /\ Framing(w) /\ w[1].part = "header"
        /\ \A i \in DOMAIN w : w[i].message.kind = "verack"
    BY MessageFramed
  <2> HIDE DEF v, w, a
  <2>4. IsSequence(a) /\ Framing(a) /\ a # <<>> /\ a[1].part = "header"
    BY <2>1, <2>2, <2>3, FramingExtended
  <2>5. \A i \in DOMAIN a : a[i].message.kind \in {"version", "verack"}
    <3>1. /\ DOMAIN (v \o w) = 1 .. Len(v) + Len(w) /\ Len(v) \in Nat /\ Len(w) \in Nat
          /\ DOMAIN v = 1 .. Len(v) /\ DOMAIN w = 1 .. Len(w)
          /\ \A i \in 1 .. Len(v) + Len(w) :
                (v \o w)[i] = IF i <= Len(v) THEN v[i] ELSE w[i - Len(v)]
      BY <2>2, <2>3, Concatenation
    <3> QED BY <2>1, <2>2, <2>3, <3>1
  <2> QED BY <2>4, <2>5 DEF a
<1>2. CASE request.kind = "getheaders"
  <2>1. \E m : m.kind = "headers" /\ a = Sync!Framed(m)
    BY <1>2 DEF Sync!Answers
  <2> HIDE DEF a
  <2>2. PICK m : m.kind = "headers" /\ a = Sync!Framed(m)
    BY <2>1
  <2> QED BY <2>2, MessageFramed DEF a
<1>3. CASE request.kind = "getdata" /\ request.block \in Sync!Ancestors(peerTip)
  <2>1. a = Sync!Framed([kind |-> "block", block |-> request.block])
    BY <1>3 DEF Sync!Answers
  <2> HIDE DEF a
  <2> QED BY <1>3, <2>1, MessageFramed DEF a
<1>4. CASE request.kind = "getdata" /\ request.block \notin Sync!Ancestors(peerTip)
  <2>1. a = Sync!Framed([kind |-> "notfound"])
    BY <1>4 DEF Sync!Answers
  <2> HIDE DEF a
  <2> QED BY <1>4, <2>1, MessageFramed DEF a
<1> QED BY <1>1, <1>2, <1>3, <1>4

(* Nothing is asked, sent or run at first.                                  *)
LEMMA SyncInitially == Init => SyncInv
<1> SUFFICES ASSUME Init PROVE SyncInv
  OBVIOUS
<1> USE DEF Init, Sync!Init, Sync!Init2
<1>1. Sequences
  BY SequenceOfItsOwn, <<>> \in Seq({}) DEF Sequences
<1>2. Coming = <<>>
  BY DEF Coming
<1>3. Framing(<<>>)
  BY DEF Framing
<1>4. TaskTyped /\ Answering
  BY DEF TaskTyped, Requesting, Answering
<1>5. Asking
  BY DEF Asking
<1>7. RightBlock /\ cut \in BOOLEAN
  BY DEF RightBlock, Sync!RightBlock
<1>6. Aligned
  BY <1>2, <1>3 DEF Aligned
<1> QED BY <1>1, <1>4, <1>5, <1>6, <1>7 DEF SyncInv

(* A step that neither reads nor sends keeps the frames in order.           *)
LEMMA AlignedKept ==
    ASSUME SyncInv, UNCHANGED <<wire, stream, cut>>,
           task.at # "payload", task'.at # "payload"
    PROVE  (~cut => Aligned)'
  BY DEF SyncInv, Aligned, Coming

(* The rest of a sequence whose first part has lost its first bytes: it has  *)
(* the same messages.                                                       *)
LEMMA RestIsSequence ==
    ASSUME NEW s, IsSequence(s), s # <<>>
    PROVE  /\ IsSequence(Sync!Rest(s)) /\ DOMAIN Sync!Rest(s) = DOMAIN s
           /\ \A i \in DOMAIN s : Sync!Rest(s)[i].message = s[i].message
<1> DEFINE r == Sync!Rest(s)
           S == {s[i] : i \in DOMAIN s} \cup {r[1]}
<1>1. s \in Seq({s[i] : i \in DOMAIN s}) /\ DOMAIN s = 1 .. Len(s) /\ Len(s) \in Nat
      /\ Len(s) >= 1
  BY SequenceOperations DEF IsSequence
<1>2. r = [i \in 1 .. Len(s) |-> IF i = 1 THEN Sync!Part(s[1].message, "payload") ELSE s[i]]
  BY <1>1 DEF Sync!Rest
<1> HIDE DEF r
<1>3. r \in [1 .. Len(s) -> S]
  BY <1>1, <1>2
<1> HIDE DEF S
<1>4. IsSequence(r)
  <2>1. r \in Seq(S)
    BY <1>1, <1>3
  <2> QED BY <2>1, SequenceOfItsOwn
<1>5. \A i \in DOMAIN s : r[i].message = s[i].message
  BY <1>1, <1>2 DEF Sync!Part
<1> QED BY <1>1, <1>2, <1>4, <1>5 DEF r

(* A payload is not taken for a header before the stream was cut, and the    *)
(* operation ends with it.                                                  *)
LEMMA MisreadKeeps == SyncInv /\ Sync!Misread /\ UNCHANGED syncVars => SyncInv'
<1> SUFFICES ASSUME SyncInv, Sync!Misread, UNCHANGED syncVars PROVE SyncInv'
  OBVIOUS
<1>1. /\ task' = [task EXCEPT !.at = "raised"] /\ task'.at = "raised"
      /\ UNCHANGED <<wire, requests, cut, returned>>
      /\ task.at = "header" /\ stream # <<>> /\ Head(stream).part = "payload"
  BY DEF Sync!Misread, SyncInv, TaskTyped, syncVars
<1>2. Sequences'
  <2>1. IsSequence(stream) /\ IsSequence(wire) /\ IsSequence(requests)
    BY DEF SyncInv, Sequences
  <2>2. IsSequence(Tail(stream))
    BY <1>1, <2>1, SequenceOperations
  <2>3. IsSequence(stream')
    <3>1. \/ stream' = Sync!Rest(stream)
          \/ stream' = Tail(stream)
          \/ Tail(stream) # <<>> /\ stream' = Sync!Rest(Tail(stream))
      BY DEF Sync!Misread
    <3>2. ASSUME NEW s, IsSequence(s), s # <<>> PROVE IsSequence(Sync!Rest(s))
      BY <3>2, RestIsSequence
    <3>3. CASE stream' = Sync!Rest(stream)
      <4>1. IsSequence(Sync!Rest(stream))
        BY <1>1, <2>1, <3>2
      <4> QED BY <3>3, <4>1
    <3>4. CASE stream' = Tail(stream)
      BY <2>2, <3>4
    <3>5. CASE Tail(stream) # <<>> /\ stream' = Sync!Rest(Tail(stream))
      <4>1. IsSequence(Sync!Rest(Tail(stream)))
        BY <2>2, <3>2, <3>5
      <4> QED BY <3>5, <4>1
    <3> QED BY <3>1, <3>3, <3>4, <3>5
  <2> QED BY <1>1, <2>1, <2>3 DEF Sequences
<1>3. Asking' /\ TaskTyped' /\ cut' \in BOOLEAN /\ RightBlock'
  BY <1>1 DEF SyncInv, Asking, TaskTyped, Requesting, RightBlock, Sync!RightBlock
<1>4. cut
  <2>1. Coming # <<>> /\ Coming[1] = Head(stream)
    BY <1>1, ReadingKeepsOrder DEF SyncInv, Sequences, Coming
  <2> QED BY <1>1, <2>1 DEF SyncInv, Aligned
<1>5. Answering'
  BY <1>1 DEF Answering
<1> QED BY <1>1, <1>2, <1>3, <1>4, <1>5 DEF SyncInv

(* Reading the header of a message.                                         *)
LEMMA ReadHeaderKeeps == SyncInv /\ Sync!ReadHeader /\ UNCHANGED syncVars => SyncInv'
<1> SUFFICES ASSUME SyncInv, Sync!ReadHeader, UNCHANGED syncVars PROVE SyncInv'
  OBVIOUS
<1> DEFINE part == Head(stream)
<1>1. /\ Coming # <<>> /\ Coming[1] = part /\ Coming' = Tail(Coming)
      /\ IsSequence(Coming) /\ IsSequence(stream')
      /\ \A i \in DOMAIN Coming' : i + 1 \in DOMAIN Coming /\ Coming'[i] = Coming[i + 1]
      /\ 1 \in DOMAIN Coming
  <2>1. IsSequence(stream) /\ IsSequence(wire) /\ stream # <<>> /\ stream' = Tail(stream) /\ wire' = wire
    BY DEF SyncInv, Sequences, Sync!ReadHeader
  <2>2. IsSequence(Coming) /\ IsSequence(stream')
    BY <2>1, Concatenation, SequenceOperations DEF Coming
  <2>3. Coming # <<>> /\ Coming[1] = part /\ Coming' = Tail(Coming)
    BY <2>1, ReadingKeepsOrder DEF Coming
  <2>4. /\ \A i \in DOMAIN Tail(Coming) : i + 1 \in DOMAIN Coming /\ Tail(Coming)[i] = Coming[i + 1]
        /\ 1 \in DOMAIN Coming
    BY <2>2, <2>3, SequenceOperations
  <2> QED BY <2>2, <2>3, <2>4
<1>2. /\ \/ task' = [task EXCEPT !.message = part.message, !.at = "received"]
         \/ task' = [task EXCEPT !.message = part.message, !.at = "payload"]
      /\ UNCHANGED <<wire, requests, cut, returned>>
      /\ task.at = "header"
  BY DEF Sync!ReadHeader, syncVars
<1>3. Sequences' /\ Asking' /\ TaskTyped' /\ cut' \in BOOLEAN /\ RightBlock'
  <2>1. TaskTyped'
    <3>1. TaskTyped
      BY DEF SyncInv
    <3>2. \E at : task' = [task EXCEPT !.message = part.message, !.at = at]
      BY <1>2
    <3> QED BY <3>1, <3>2 DEF TaskTyped, Requesting
  <2>2. Sequences' /\ Asking' /\ cut' \in BOOLEAN /\ RightBlock'
    BY <1>1, <1>2 DEF SyncInv, Sequences, Asking, RightBlock, Sync!RightBlock
  <2> QED BY <2>1, <2>2
<1>4. (~cut => Aligned)'
  <2> SUFFICES ASSUME ~cut PROVE Aligned'
    BY <1>2
  <2>1. Framing(Coming) /\ part.part = "header"
    BY <1>1, <1>2 DEF SyncInv, Aligned
  <2>2. /\ Framing(Coming')
        /\ IF part.message.kind # "verack"
           THEN Coming' # <<>> /\ Coming'[1] = Sync!Part(part.message, "payload")
           ELSE Coming' # <<>> => Coming'[1].part = "header"
    BY <1>1, <2>1, FramingRead
  <2>3. /\ task'.at = IF part.message.kind # "verack" THEN "payload" ELSE "received"
        /\ task'.message = part.message
    BY <2>1 DEF Sync!ReadHeader, Sync!Framed, SyncInv, TaskTyped
  <2> QED BY <2>2, <2>3 DEF Aligned
<1>5. Answering'
  <2> SUFFICES ASSUME task'.operation \in {"block", "blocks"}, task'.asked # None, task'.clean,
                      task'.at \in {"header", "payload", "received"}
               PROVE  /\ \A i \in DOMAIN Coming' : Fits(Coming[i].message)'
                      /\ \A i \in DOMAIN requests' :
                           requests'[i].kind = "getdata" /\ requests'[i].block = task'.asked
                      /\ Fits(task.message)'
    BY DEF Answering
  <2>1. /\ task.operation \in {"block", "blocks"} /\ task.asked # None /\ task.clean
        /\ task'.asked = task.asked /\ task'.message = part.message
    BY <1>2 DEF SyncInv, TaskTyped, Requesting
  <2>2. /\ \A i \in DOMAIN Coming : Fits(Coming[i].message)
        /\ \A i \in DOMAIN requests :
             requests[i].kind = "getdata" /\ requests[i].block = task.asked
    BY <1>2, <2>1 DEF SyncInv, Answering
  <2> QED BY <1>1, <1>2, <2>1, <2>2 DEF Fits
<1> QED BY <1>3, <1>4, <1>5 DEF SyncInv

(* Reading the payload that follows.                                        *)
LEMMA ReadPayloadKeeps == SyncInv /\ Sync!ReadPayload /\ UNCHANGED syncVars => SyncInv'
<1> SUFFICES ASSUME SyncInv, Sync!ReadPayload, UNCHANGED syncVars PROVE SyncInv'
  OBVIOUS
<1>1. /\ Coming # <<>> /\ Coming' = Tail(Coming)
      /\ IsSequence(Coming) /\ IsSequence(stream')
      /\ \A i \in DOMAIN Coming' : i + 1 \in DOMAIN Coming /\ Coming'[i] = Coming[i + 1]
  <2>1. IsSequence(stream) /\ IsSequence(wire) /\ stream # <<>> /\ stream' = Tail(stream) /\ wire' = wire
    BY DEF SyncInv, Sequences, Sync!ReadPayload
  <2>2. IsSequence(Coming) /\ IsSequence(stream')
    BY <2>1, Concatenation, SequenceOperations DEF Coming
  <2>3. Coming # <<>> /\ Coming' = Tail(Coming)
    BY <2>1, ReadingKeepsOrder DEF Coming
  <2>4. \A i \in DOMAIN Tail(Coming) : i + 1 \in DOMAIN Coming /\ Tail(Coming)[i] = Coming[i + 1]
    BY <2>2, <2>3, SequenceOperations
  <2> QED BY <2>2, <2>3, <2>4
<1>2. /\ task' = [task EXCEPT !.at = "header"] \/ task' = [task EXCEPT !.at = "received"]
      /\ UNCHANGED <<wire, requests, cut, returned>>
      /\ task.at = "payload"
  BY DEF Sync!ReadPayload, syncVars
<1>3. Sequences' /\ Asking' /\ TaskTyped' /\ cut' \in BOOLEAN /\ RightBlock'
  <2>1. TaskTyped'
    BY <1>2 DEF SyncInv, TaskTyped, Requesting
  <2>2. Sequences' /\ Asking' /\ cut' \in BOOLEAN /\ RightBlock'
    BY <1>1, <1>2 DEF SyncInv, Sequences, Asking, RightBlock, Sync!RightBlock
  <2> QED BY <2>1, <2>2
<1>4. (~cut => Aligned)'
  <2> SUFFICES ASSUME ~cut PROVE Aligned'
    BY <1>2
  <2>1. Framing(Coming) /\ Coming[1].part = "payload"
    BY <1>1, <1>2 DEF SyncInv, Aligned, Sync!Part
  <2>2. Framing(Coming') /\ (Coming' # <<>> => Coming'[1].part = "header")
    BY <1>1, <2>1, FramingRead
  <2>3. task'.at # "payload"
    BY <1>2 DEF SyncInv, TaskTyped
  <2> QED BY <2>2, <2>3 DEF Aligned
<1>5. Answering'
  <2> SUFFICES ASSUME task'.operation \in {"block", "blocks"}, task'.asked # None, task'.clean,
                      task'.at \in {"header", "payload", "received"}
               PROVE  /\ \A i \in DOMAIN Coming' : Fits(Coming[i].message)'
                      /\ \A i \in DOMAIN requests' :
                           requests'[i].kind = "getdata" /\ requests'[i].block = task'.asked
                      /\ Fits(task.message)'
    BY DEF Answering
  <2>1. /\ task.operation \in {"block", "blocks"} /\ task.asked # None /\ task.clean
        /\ task'.asked = task.asked /\ task'.message = task.message
    BY <1>2 DEF SyncInv, TaskTyped, Requesting
  <2>2. /\ \A i \in DOMAIN Coming : Fits(Coming[i].message)
        /\ \A i \in DOMAIN requests :
             requests[i].kind = "getdata" /\ requests[i].block = task.asked
        /\ Fits(task.message)
    BY <1>2, <2>1 DEF SyncInv, Answering
  <2> QED BY <1>1, <1>2, <2>1, <2>2 DEF Fits
<1> QED BY <1>3, <1>4, <1>5 DEF SyncInv

(* A payload that does not come leaves the stream out of step.              *)
LEMMA TimeoutKeeps == SyncInv /\ Sync!Timeout /\ UNCHANGED syncVars => SyncInv'
<1> SUFFICES ASSUME SyncInv, Sync!Timeout, UNCHANGED syncVars PROVE SyncInv'
  OBVIOUS
<1>1. /\ task' = [task EXCEPT !.at = "timeout"] /\ task'.at = "timeout"
      /\ cut' = (cut \/ task.at = "payload") /\ task.at \in {"header", "payload"}
      /\ UNCHANGED <<wire, stream, requests, returned>>
  BY DEF Sync!Timeout, SyncInv, TaskTyped, syncVars
<1>2. Sequences' /\ Asking' /\ TaskTyped' /\ cut' \in BOOLEAN /\ RightBlock'
  BY <1>1 DEF SyncInv, Sequences, Asking, TaskTyped, Requesting, RightBlock, Sync!RightBlock
<1>3. (~cut => Aligned)'
  BY <1>1 DEF SyncInv, Aligned, Coming
<1>4. Answering'
  BY <1>1 DEF Answering
<1> QED BY <1>2, <1>3, <1>4 DEF SyncInv

(* Arrival changes nothing of what is to be read.                           *)
LEMMA ArriveKeeps == SyncInv /\ Sync!Arrive /\ UNCHANGED syncVars => SyncInv'
<1> SUFFICES ASSUME SyncInv, Sync!Arrive, UNCHANGED syncVars PROVE SyncInv'
  OBVIOUS
<1>1. UNCHANGED <<task, requests, cut, returned>>
  BY DEF Sync!Arrive, syncVars
<1>2. IsSequence(stream) /\ IsSequence(wire) /\ wire # <<>>
      /\ stream' = Append(stream, Head(wire)) /\ wire' = Tail(wire)
  BY DEF SyncInv, Sequences, Sync!Arrive
<1>3. Coming' = Coming
  BY <1>2, ArrivalKeepsOrder DEF Coming
<1>4. Sequences'
  BY <1>1, <1>2, SequenceOperations DEF SyncInv, Sequences
<1>5. Asking' /\ TaskTyped' /\ cut' \in BOOLEAN /\ RightBlock'
  BY <1>1 DEF SyncInv, Asking, TaskTyped, Requesting, RightBlock, Sync!RightBlock
<1>6. (~cut => Aligned)' /\ Answering'
  BY <1>1, <1>3 DEF SyncInv, Aligned, Answering, Fits
<1> QED BY <1>4, <1>5, <1>6 DEF SyncInv

(* The task goes on and leaves the stream alone.                            *)
LEMMA TaskMoves ==
    ASSUME SyncInv, UNCHANGED <<wire, stream, requests, cut>>,
           task.at \notin {"header", "payload"}, task'.at # "payload",
           TaskTyped', Answering', RightBlock'
    PROVE  SyncInv'
<1>1. Sequences' /\ Asking' /\ cut' \in BOOLEAN
  BY DEF SyncInv, Sequences, Asking
<1>2. (~cut => Aligned)'
  BY AlignedKept
<1> QED BY <1>1, <1>2 DEF SyncInv

(* Outside a request for a block there is nothing to answer.                *)
LEMMA NothingAnswered ==
    ASSUME task.operation \notin {"block", "blocks"} \/ task.asked = None
           \/ task.at \notin {"header", "payload", "received"}
    PROVE  Answering
  BY DEF Answering

(* Connecting forgets what was coming.                                      *)
LEMMA ConnectKeeps == SyncInv /\ Sync!Connect /\ UNCHANGED syncVars => SyncInv'
<1> SUFFICES ASSUME SyncInv, Sync!Connect, UNCHANGED syncVars PROVE SyncInv'
  OBVIOUS
<1> USE DEF Sync!Connect, syncVars
<1>1. Sequences'
  <2>1. <<>> \in Seq({}) /\ <<[kind |-> "version"]>> \in Seq({[kind |-> "version"]})
    OBVIOUS
  <2> QED BY <2>1, SequenceOfItsOwn DEF Sequences
<1>2. Coming' = <<>>
  BY DEF Coming
<1>3. Asking' /\ TaskTyped'
  BY DEF Asking, TaskTyped, Requesting
<1>4. Aligned'
  <2>1. Framing(<<>>)
    BY DEF Framing
  <2>2. task'.at # "payload"
    OBVIOUS
  <2> QED BY <1>2, <2>1, <2>2 DEF Aligned
<1>5. Answering'
  BY DEF Answering
<1>6. RightBlock' /\ cut' \in BOOLEAN
  BY DEF SyncInv, RightBlock, Sync!RightBlock
<1> QED BY <1>1, <1>3, <1>4, <1>5, <1>6 DEF SyncInv

(* The handshake, closing, listening and giving up ask for no block.        *)
LEMMA HandshakeKeeps == SyncInv /\ Sync!Handshake /\ UNCHANGED syncVars => SyncInv'
<1> SUFFICES ASSUME SyncInv, Sync!Handshake, UNCHANGED syncVars PROVE SyncInv'
  OBVIOUS
<1>1. /\ UNCHANGED <<wire, stream, requests, cut, returned>>
      /\ task.at = "received" /\ task.operation \in {"version", "verack"}
      /\ \/ task' = [task EXCEPT !.at = "header", !.operation = "verack"]
         \/ task' = [task EXCEPT !.at = "raised"]
         \/ task' = [task EXCEPT !.at = "idle"]
  BY DEF Sync!Handshake, Sync!Receiving, syncVars
<1>2. /\ TaskTyped' /\ task'.at # "payload" /\ task'.operation \in {"version", "verack"}
  <2>1. TaskTyped
    BY DEF SyncInv
  <2>2. CASE task' = [task EXCEPT !.at = "header", !.operation = "verack"]
    BY <1>1, <2>1, <2>2 DEF TaskTyped, Requesting
  <2>3. CASE \E at \in {"raised", "idle"} : task' = [task EXCEPT !.at = at]
    BY <1>1, <2>1, <2>3 DEF TaskTyped, Requesting
  <2> QED BY <1>1, <2>2, <2>3
<1>3. Answering' /\ RightBlock'
  BY <1>1, <1>2 DEF SyncInv, Answering, RightBlock, Sync!RightBlock
<1> QED BY <1>1, <1>2, <1>3, TaskMoves

LEMMA CloseKeeps == SyncInv /\ Sync!Close /\ UNCHANGED syncVars => SyncInv'
<1> SUFFICES ASSUME SyncInv, Sync!Close, UNCHANGED syncVars PROVE SyncInv'
  OBVIOUS
<1>1. /\ UNCHANGED <<wire, stream, requests, cut, returned>>
      /\ task.at \in {"raised", "idle"} /\ task' = [task EXCEPT !.at = "closed"]
  BY DEF Sync!Close, syncVars
<1>2. TaskTyped' /\ task'.at = "closed"
  BY <1>1 DEF SyncInv, TaskTyped, Requesting
<1>3. Answering' /\ RightBlock'
  BY <1>1, <1>2 DEF SyncInv, Answering, RightBlock, Sync!RightBlock
<1> QED BY <1>1, <1>2, <1>3, TaskMoves

LEMMA ListenKeeps == SyncInv /\ Sync!Listen /\ UNCHANGED syncVars => SyncInv'
<1> SUFFICES ASSUME SyncInv, Sync!Listen, UNCHANGED syncVars PROVE SyncInv'
  OBVIOUS
<1>1. /\ UNCHANGED <<wire, stream, requests, cut, returned>>
      /\ task.at = "idle" /\ task' = [at |-> "header", operation |-> "listen", message |-> None]
  BY DEF Sync!Listen, syncVars
<1>2. TaskTyped' /\ task'.at = "header" /\ task'.operation = "listen"
  BY <1>1 DEF SyncInv, TaskTyped, Requesting
<1>3. Answering' /\ RightBlock'
  BY <1>1, <1>2 DEF SyncInv, Answering, RightBlock, Sync!RightBlock
<1> QED BY <1>1, <1>2, <1>3, TaskMoves

LEMMA DispatchKeeps == SyncInv /\ Sync!Dispatch /\ UNCHANGED syncVars => SyncInv'
<1> SUFFICES ASSUME SyncInv, Sync!Dispatch, UNCHANGED syncVars PROVE SyncInv'
  OBVIOUS
<1>1. /\ UNCHANGED <<wire, stream, requests, cut, returned>>
      /\ task.at = "received" /\ task.operation = "listen" /\ task' = [task EXCEPT !.at = "header"]
  BY DEF Sync!Dispatch, Sync!Receiving, syncVars
<1>2. TaskTyped' /\ task'.at = "header" /\ task'.operation = "listen"
  BY <1>1 DEF SyncInv, TaskTyped, Requesting
<1>3. Answering' /\ RightBlock'
  BY <1>1, <1>2 DEF SyncInv, Answering, RightBlock, Sync!RightBlock
<1> QED BY <1>1, <1>2, <1>3, TaskMoves

LEMMA GiveUpKeeps == SyncInv /\ Sync!GiveUp /\ UNCHANGED syncVars => SyncInv'
<1> SUFFICES ASSUME SyncInv, Sync!GiveUp, UNCHANGED syncVars PROVE SyncInv'
  OBVIOUS
<1>1. /\ UNCHANGED <<wire, stream, requests, cut, returned>>
      /\ task.at \in {"timeout", "raised"}
      /\ task' = [task EXCEPT !.at = "raised"] \/ task' = [task EXCEPT !.at = "idle"]
  BY DEF Sync!GiveUp, syncVars
<1>2. TaskTyped' /\ task'.at \in {"raised", "idle"}
  BY <1>1 DEF SyncInv, TaskTyped, Requesting
<1>3. Answering' /\ RightBlock'
  BY <1>1, <1>2 DEF SyncInv, Answering, RightBlock, Sync!RightBlock
<1> QED BY <1>1, <1>2, <1>3, TaskMoves

(* A request is one more in the queue of the peer.                          *)
LEMMA Requested ==
    ASSUME SyncInv, NEW m, Sync!Send(m), m.kind \in {"version", "getheaders", "getdata"}
    PROVE  /\ IsSequence(requests') /\ Asking'
           /\ requests = <<>> => \A i \in DOMAIN requests' : requests'[i] = m
<1>1. IsSequence(requests) /\ requests' = Append(requests, m)
  BY DEF SyncInv, Sequences, Sync!Send
<1> DEFINE r == Append(requests, m)
<1>2. /\ IsSequence(r) /\ Len(r) = Len(requests) + 1 /\ Len(requests) \in Nat
      /\ DOMAIN requests = 1 .. Len(requests)
      /\ \A i \in 1 .. Len(requests) : r[i] = requests[i]
      /\ r[Len(requests) + 1] = m
  BY <1>1, SequenceOperations
<1> HIDE DEF r
<1>3. DOMAIN r = 1 .. Len(r)
  BY <1>2, SequenceOperations
<1>4. \A i \in DOMAIN r : r[i].kind \in {"version", "getheaders", "getdata"}
  BY <1>2, <1>3 DEF SyncInv, Asking
<1>5. requests = <<>> => \A i \in DOMAIN r : r[i] = m
  <2>1. requests = <<>> => Len(requests) = 0
    OBVIOUS
  <2> QED BY <1>2, <1>3, <2>1
<1> QED BY <1>1, <1>2, <1>4, <1>5 DEF r, Asking

(* When no answer is outstanding, neither is a block coming.                *)
LEMMA NoBlockComes ==
    ASSUME ~Sync!Outstanding
    PROVE  requests = <<>> /\ \A i \in DOMAIN Coming : Coming[i].message.kind # "block"
  BY DEF Sync!Outstanding, Coming

(* A request starts with the peer's next message.                           *)
LEMMA RequestStarts ==
    ASSUME SyncInv, NEW kind, NEW asked, NEW m, Sync!Start(kind, asked), Sync!Send(m),
           kind \in {"headers", "block", "blocks"}, returned' = returned,
           m.kind \in {"getheaders", "getdata"},
           kind = "block" => asked # None,
           asked # None => m.kind = "getdata" /\ m.block = asked
    PROVE  SyncInv'
<1>1. /\ task' = [at |-> "header", operation |-> kind, message |-> None,
                  clean |-> ~Sync!Outstanding, asked |-> asked, round |-> 1,
                  got |-> 0, complete |-> FALSE]
      /\ UNCHANGED <<wire, stream, cut>> /\ task.at = "idle"
  BY DEF Sync!Start
<1>2. /\ task'.at = "header" /\ task'.asked = asked /\ task'.clean = ~Sync!Outstanding
      /\ task'.clean \in BOOLEAN /\ task'.operation = kind
      /\ task' = [k \in DOMAIN task' |-> task'[k]]
      /\ DOMAIN task' = {"at", "operation", "message", "clean", "asked", "round", "got", "complete"}
  BY <1>1
<1>3. /\ IsSequence(requests') /\ Asking'
      /\ requests = <<>> => \A i \in DOMAIN requests' : requests'[i] = m
  BY Requested
<1>4. Sequences' /\ cut' \in BOOLEAN /\ RightBlock'
  BY <1>1, <1>3 DEF SyncInv, Sequences, RightBlock, Sync!RightBlock
<1>5. TaskTyped'
  BY <1>2 DEF TaskTyped, Requesting
<1>6. (~cut => Aligned)'
  BY <1>1, <1>2, AlignedKept
<1>7. Answering'
  <2> SUFFICES ASSUME asked # None, ~Sync!Outstanding
               PROVE  /\ \A i \in DOMAIN Coming' : Fits(Coming[i].message)'
                      /\ \A i \in DOMAIN requests' :
                           requests'[i].kind = "getdata" /\ requests'[i].block = task'.asked
    BY <1>2 DEF Answering
  <2>1. /\ requests = <<>> /\ Coming' = Coming
        /\ \A i \in DOMAIN Coming : Coming[i].message.kind # "block"
    BY <1>1, NoBlockComes DEF Coming
  <2> QED BY <1>2, <1>3, <2>1 DEF Fits
<1> QED BY <1>3, <1>4, <1>5, <1>6, <1>7 DEF SyncInv

(* The synchroniser asks for headers, or for a block.                       *)
LEMMA OperateKeeps == NetworkAssumption /\ SyncInv /\ Sync!Operate => SyncInv'
<1> SUFFICES ASSUME NetworkAssumption, SyncInv, Sync!Operate PROVE SyncInv'
  OBVIOUS
<1>1. CASE Sync!DownloadHeaders
  <2> DEFINE m == [kind |-> "getheaders", locator |-> Sync!GetLocator]
  <2>1. Sync!Start("headers", None) /\ Sync!Send(m) /\ returned' = returned
    BY <1>1 DEF Sync!DownloadHeaders, Sync!syncVars
  <2>2. m.kind = "getheaders"
    OBVIOUS
  <2> HIDE DEF m
  <2> QED BY <2>1, <2>2, RequestStarts
<1>2. CASE Sync!DownloadBlocks
  <2> DEFINE m == [kind |-> "getdata", block |-> tip]
  <2>1. Sync!Start("blocks", None) /\ Sync!Send(m) /\ returned' = returned
    BY <1>2 DEF Sync!DownloadBlocks, Sync!syncVars
  <2>2. m.kind = "getdata"
    OBVIOUS
  <2> HIDE DEF m
  <2> QED BY <2>1, <2>2, RequestStarts
<1>3. ASSUME NEW b \in Block, Sync!RequestBlock(b) PROVE SyncInv'
  <2> DEFINE m == [kind |-> "getdata", block |-> b]
  <2>1. Sync!Start("block", b) /\ Sync!Send(m) /\ returned' = returned
    BY <1>3 DEF Sync!RequestBlock, Sync!syncVars
  <2>2. m.kind = "getdata" /\ m.block = b /\ b # None
    BY DEF NetworkAssumption
  <2> HIDE DEF m
  <2> QED BY <2>1, <2>2, RequestStarts
<1> QED BY <1>1, <1>2, <1>3 DEF Sync!Operate

(* Headers are taken, and more asked for.                                   *)
LEMMA TakeHeadersKeeps == SyncInv /\ Sync!TakeHeaders => SyncInv'
<1> SUFFICES ASSUME SyncInv, Sync!TakeHeaders PROVE SyncInv'
  OBVIOUS
<1>1. /\ UNCHANGED <<wire, stream, cut, returned>>
      /\ task.at = "received" /\ task.operation = "headers"
  BY DEF Sync!TakeHeaders
<1>2. /\ \/ \E got, complete : task' = [task EXCEPT !.at = "idle", !.got = got, !.complete = complete]
         \/ \E got : task' = [task EXCEPT !.at = "header", !.got = got]
         \/ task' = [task EXCEPT !.at = "idle"]
      /\ \/ requests' = requests
         \/ \E m : m.kind = "getheaders" /\ Sync!Send(m)
  <2> DEFINE new == task.message.headers
             got == task.got + Len(new)
             short == Sync!Short(new)
  <2>1. CASE task.message.kind = "headers" /\ (short \/ got >= MaxHeaders)
    <3>1. task' = [task EXCEPT !.at = "idle", !.got = got, !.complete = short] /\ requests' = requests
      BY <2>1 DEF Sync!TakeHeaders, Sync!Finish
    <3> QED BY <3>1
  <2>2. CASE task.message.kind = "headers" /\ ~(short \/ got >= MaxHeaders)
    <3>1. /\ task' = [task EXCEPT !.at = "header", !.got = got]
          /\ \E m : m.kind = "getheaders" /\ Sync!Send(m)
      BY <2>2 DEF Sync!TakeHeaders, Sync!Receiving
    <3> QED BY <3>1
  <2>3. CASE task.message.kind # "headers"
    BY <2>3 DEF Sync!TakeHeaders, Sync!Finish
  <2> QED BY <2>1, <2>2, <2>3
<1>3. /\ TaskTyped' /\ task'.at # "payload" /\ task'.operation = "headers"
  <2>1. CASE \E got, complete : task' = [task EXCEPT !.at = "idle", !.got = got, !.complete = complete]
    BY <1>1, <2>1 DEF SyncInv, TaskTyped, Requesting
  <2>2. CASE \E got : task' = [task EXCEPT !.at = "header", !.got = got]
    BY <1>1, <2>2 DEF SyncInv, TaskTyped, Requesting
  <2>3. CASE task' = [task EXCEPT !.at = "idle"]
    BY <1>1, <2>3 DEF SyncInv, TaskTyped, Requesting
  <2> QED BY <1>2, <2>1, <2>2, <2>3
<1>4. IsSequence(requests') /\ Asking'
  BY <1>2, Requested DEF SyncInv, Sequences, Asking
<1>5. Sequences' /\ cut' \in BOOLEAN /\ RightBlock'
  BY <1>1, <1>4 DEF SyncInv, Sequences, RightBlock, Sync!RightBlock
<1>6. (~cut => Aligned)'
  BY <1>1, <1>3, AlignedKept
<1>7. Answering'
  BY <1>3 DEF Answering
<1> QED BY <1>3, <1>4, <1>5, <1>6, <1>7 DEF SyncInv

(* What a request for a block returns.                                      *)
LEMMA BlockReturned ==
    ASSUME SyncInv, task.operation \in {"block", "blocks"}, task.asked # None,
           task.at \in {"received", "timeout"}, returned' = Sync!Returned(task)
    PROVE  RightBlock'
<1>1. /\ returned'.asked = task.asked /\ returned'.clean = task.clean
      /\ returned'.block = IF task.at = "received" /\ task.message.kind = "block"
                           THEN task.message.block ELSE None
  BY DEF Sync!Returned
<1>2. CASE returned'.clean /\ task.at = "received" /\ task.message.kind = "block"
  BY <1>1, <1>2 DEF SyncInv, Answering, Fits, RightBlock, Sync!RightBlock
<1>3. CASE ~returned'.clean \/ ~(task.at = "received" /\ task.message.kind = "block")
  BY <1>1, <1>3 DEF RightBlock, Sync!RightBlock
<1> QED BY <1>2, <1>3

LEMMA TakeBlockKeeps == SyncInv /\ Sync!TakeBlock => SyncInv'
<1> SUFFICES ASSUME SyncInv, Sync!TakeBlock PROVE SyncInv'
  OBVIOUS
<1>1. /\ UNCHANGED <<wire, stream, requests, cut>>
      /\ task.at \in {"received", "timeout"} /\ task.operation = "block"
      /\ task' = [task EXCEPT !.at = "idle"] /\ returned' = Sync!Returned(task)
  BY DEF Sync!TakeBlock, Sync!Finish, Sync!connVars
<1>2. TaskTyped' /\ task'.at = "idle"
  BY <1>1 DEF SyncInv, TaskTyped, Requesting
<1>3. RightBlock'
  BY <1>1, BlockReturned DEF SyncInv, TaskTyped, Requesting
<1>4. Answering'
  BY <1>2 DEF Answering
<1> QED BY <1>1, <1>2, <1>3, <1>4, TaskMoves

(* The loop of download_blocks takes a message.                             *)
LEMMA TakeBlocksKeeps == SyncInv /\ Sync!TakeBlocks => SyncInv'
<1> SUFFICES ASSUME SyncInv, Sync!TakeBlocks PROVE SyncInv'
  OBVIOUS
<1>1. /\ UNCHANGED <<wire, stream, cut>>
      /\ task.at \in {"received", "timeout"} /\ task.operation = "blocks"
  BY DEF Sync!TakeBlocks
<1>2. /\ task = [k \in DOMAIN task |-> task[k]]
      /\ DOMAIN task = {"at", "operation", "message", "clean", "asked", "round", "got", "complete"}
      /\ task.clean \in BOOLEAN
  BY <1>1 DEF SyncInv, TaskTyped, Requesting
<1> DEFINE goes == \/ task' = [task EXCEPT !.at = "idle"]
                   \/ task' = [task EXCEPT !.at = "header", !.round = @ + 1, !.asked = None]
<1>3. ASSUME goes
      PROVE  TaskTyped' /\ task'.at # "payload" /\ Answering'
  <2>1. CASE task' = [task EXCEPT !.at = "idle"]
    <3>1. TaskTyped' /\ task'.at = "idle"
      BY <1>1, <1>2, <2>1 DEF TaskTyped, Requesting
    <3> QED BY <3>1 DEF Answering
  <2>2. CASE task' = [task EXCEPT !.at = "header", !.round = @ + 1, !.asked = None]
    <3>1. TaskTyped' /\ task'.at = "header" /\ task'.asked = None
      BY <1>1, <1>2, <2>2 DEF TaskTyped, Requesting
    <3> QED BY <3>1 DEF Answering
  <2> QED BY <1>3, <2>1, <2>2
<1>4. CASE task.asked # None /\ returned' = Sync!Returned(task) /\ goes /\ requests' = requests
  <2>1. RightBlock'
    BY <1>1, <1>4, BlockReturned
  <2> QED BY <1>1, <1>3, <1>4, <2>1, TaskMoves
<1>5. CASE goes /\ UNCHANGED <<requests, returned>>
  <2>1. RightBlock'
    BY <1>5 DEF SyncInv, RightBlock, Sync!RightBlock
  <2> QED BY <1>1, <1>3, <1>5, <2>1, TaskMoves
<1>6. CASE \E b : /\ task' = [task EXCEPT !.at = "header", !.asked = b, !.clean = ~Sync!Outstanding]
                  /\ Sync!Send([kind |-> "getdata", block |-> b])
                  /\ returned' = returned
  <2>1. PICK b : /\ task' = [task EXCEPT !.at = "header", !.asked = b, !.clean = ~Sync!Outstanding]
                 /\ Sync!Send([kind |-> "getdata", block |-> b])
                 /\ returned' = returned
    BY <1>6
  <2> DEFINE m == [kind |-> "getdata", block |-> b]
  <2>2. m.kind = "getdata" /\ m.block = b /\ Sync!Send(m)
    BY <2>1
  <2> HIDE DEF m
  <2>3. /\ IsSequence(requests') /\ Asking'
        /\ requests = <<>> => \A i \in DOMAIN requests' : requests'[i] = m
    BY <2>2, Requested
  <2>4. TaskTyped' /\ task'.at = "header" /\ task'.asked = b /\ task'.clean = ~Sync!Outstanding
    BY <1>1, <1>2, <2>1 DEF TaskTyped, Requesting
  <2>5. Sequences' /\ cut' \in BOOLEAN /\ RightBlock'
    BY <1>1, <2>1, <2>3 DEF SyncInv, Sequences, RightBlock, Sync!RightBlock
  <2>6. (~cut => Aligned)'
    BY <1>1, <2>4, AlignedKept
  <2>7. Answering'
    <3> SUFFICES ASSUME ~Sync!Outstanding
                 PROVE  /\ \A i \in DOMAIN Coming' : Fits(Coming[i].message)'
                        /\ \A i \in DOMAIN requests' :
                             requests'[i].kind = "getdata" /\ requests'[i].block = task'.asked
      BY <2>4 DEF Answering
    <3>1. /\ requests = <<>> /\ Coming' = Coming
          /\ \A i \in DOMAIN Coming : Coming[i].message.kind # "block"
      BY <1>1, NoBlockComes DEF Coming
    <3> QED BY <2>2, <2>3, <2>4, <3>1 DEF Fits
  <2> QED BY <2>3, <2>4, <2>5, <2>6, <2>7 DEF SyncInv
<1>7. /\ \/ /\ task.asked # None /\ returned' = Sync!Returned(task) /\ requests' = requests
            /\ task' = [task EXCEPT !.at = "idle"] \/ task' = [task EXCEPT !.at = "header", !.round = @ + 1, !.asked = None]
         \/ \E b : /\ task' = [task EXCEPT !.at = "header", !.asked = b, !.clean = ~Sync!Outstanding]
                   /\ Sync!Send([kind |-> "getdata", block |-> b])
                   /\ returned' = returned
         \/ /\ task' = [task EXCEPT !.at = "idle"] \/ task' = [task EXCEPT !.at = "header", !.round = @ + 1, !.asked = None]
            /\ UNCHANGED <<requests, returned>>
  BY <1>2 DEF Sync!TakeBlocks, Sync!Finish, Sync!Receiving
<1> QED BY <1>4, <1>5, <1>6, <1>7

LEMMA HeadersTimeoutKeeps == SyncInv /\ Sync!HeadersTimeout => SyncInv'
<1> SUFFICES ASSUME SyncInv, Sync!HeadersTimeout PROVE SyncInv'
  OBVIOUS
<1>1. /\ UNCHANGED <<wire, stream, requests, cut, returned>>
      /\ task.at = "timeout" /\ task.operation = "headers" /\ task' = [task EXCEPT !.at = "idle"]
  BY DEF Sync!HeadersTimeout, Sync!Finish, Sync!connVars, Sync!syncVars
<1>2. TaskTyped' /\ task'.at = "idle"
  BY <1>1 DEF SyncInv, TaskTyped, Requesting
<1>3. Answering' /\ RightBlock'
  BY <1>1, <1>2 DEF SyncInv, Answering, RightBlock, Sync!RightBlock
<1> QED BY <1>1, <1>2, <1>3, TaskMoves

(* What comes later is at the end of the wire.                              *)
LEMMA ComingLater ==
    ASSUME NEW m, wire' = wire \o m, stream' = stream,
           IsSequence(stream), IsSequence(wire), IsSequence(m)
    PROVE  Coming' = Coming \o m
  BY SendingKeepsOrder DEF Coming

(* The peer's frames follow those that are coming.                          *)
LEMMA MessagesSent ==
    ASSUME SyncInv, NEW m, wire' = wire \o m, UNCHANGED <<task, stream, cut, returned>>,
           IsSequence(m), Framing(m), m # <<>>, m[1].part = "header",
           IsSequence(requests'), Asking',
           \A i \in DOMAIN requests' : \E j \in DOMAIN requests : requests'[i] = requests[j],
           \A i \in DOMAIN m : m[i].message.kind = "block" =>
              \E j \in DOMAIN requests : /\ requests[j].kind = "getdata"
                                         /\ m[i].message.block = requests[j].block
    PROVE  SyncInv'
<1>1. /\ IsSequence(stream) /\ IsSequence(wire)
      /\ IsSequence(wire') /\ IsSequence(Coming) /\ Coming' = Coming \o m
  <2>1. IsSequence(stream) /\ IsSequence(wire)
    BY DEF SyncInv, Sequences
  <2>2. IsSequence(wire') /\ IsSequence(Coming)
    BY <2>1, Concatenation DEF Coming
  <2>3. Coming' = Coming \o m
    BY <2>1, ComingLater
  <2> QED BY <2>1, <2>2, <2>3
<1>2. Sequences' /\ TaskTyped' /\ cut' \in BOOLEAN /\ RightBlock'
  BY <1>1 DEF SyncInv, Sequences, TaskTyped, Requesting, RightBlock, Sync!RightBlock
<1>3. (~cut => Aligned)'
  <2> SUFFICES ASSUME ~cut PROVE Aligned'
    OBVIOUS
  <2>1. Framing(Coming)
    BY DEF SyncInv, Aligned
  <2>2. /\ Framing(Coming')
        /\ Coming # <<>> => Coming' # <<>> /\ Coming'[1] = Coming[1]
        /\ Coming = <<>> => Coming' = m
    BY <1>1, <2>1, FramingExtended
  <2> QED BY <2>2 DEF SyncInv, Aligned
<1>4. Answering'
  <2> SUFFICES ASSUME task.operation \in {"block", "blocks"}, task.asked # None, task.clean,
                      task.at \in {"header", "payload", "received"}
               PROVE  /\ \A i \in DOMAIN Coming' : Fits(Coming[i].message)'
                      /\ \A i \in DOMAIN requests' :
                           requests'[i].kind = "getdata" /\ requests'[i].block = task.asked
                      /\ task.at \in {"payload", "received"} => Fits(task.message)'
    BY DEF Answering
  <2>1. /\ \A i \in DOMAIN Coming : Fits(Coming[i].message)
        /\ \A i \in DOMAIN requests :
             requests[i].kind = "getdata" /\ requests[i].block = task.asked
        /\ task.at \in {"payload", "received"} => Fits(task.message)
    BY DEF SyncInv, Answering
  <2>2. \A i \in DOMAIN m : Fits(m[i].message)
    BY <2>1 DEF Fits
  <2> DEFINE c == Coming
  <2>3. /\ DOMAIN (c \o m) = 1 .. Len(c) + Len(m) /\ Len(c) \in Nat /\ Len(m) \in Nat
        /\ DOMAIN c = 1 .. Len(c) /\ DOMAIN m = 1 .. Len(m)
        /\ \A i \in 1 .. Len(c) + Len(m) : (c \o m)[i] = IF i <= Len(c) THEN c[i] ELSE m[i - Len(c)]
    <3> HIDE DEF c
    <3> QED BY <1>1, Concatenation DEF c
  <2>4. \A i \in DOMAIN (c \o m) : Fits((c \o m)[i].message)
    <3>1. \A i \in DOMAIN c : Fits(c[i].message)
      BY <2>1
    <3> HIDE DEF c
    <3> QED BY <2>2, <2>3, <3>1
  <2>5. \A i \in DOMAIN Coming' : Fits(Coming[i].message)'
    BY <1>1, <2>4 DEF Fits
  <2> QED BY <2>1, <2>5 DEF Fits
<1> QED BY <1>2, <1>3, <1>4 DEF SyncInv

LEMMA PeerAnswersKeeps == SyncInv /\ Sync!PeerAnswers => SyncInv'
<1> SUFFICES ASSUME SyncInv, Sync!PeerAnswers PROVE SyncInv'
  OBVIOUS
<1> DEFINE m == Sync!Answers(Head(requests))
<1>1. /\ wire' = wire \o m /\ UNCHANGED <<task, stream, cut, returned>>
      /\ requests # <<>> /\ requests' = Tail(requests) /\ IsSequence(requests)
  BY DEF Sync!PeerAnswers, Sync!syncVars, SyncInv, Sequences
<1>2. /\ 1 \in DOMAIN requests /\ Head(requests) = requests[1]
      /\ IsSequence(requests')
      /\ \A i \in DOMAIN requests' : i + 1 \in DOMAIN requests /\ requests'[i] = requests[i + 1]
  BY <1>1, SequenceOperations
<1>3. /\ IsSequence(m) /\ Framing(m) /\ m # <<>> /\ m[1].part = "header"
      /\ \A i \in DOMAIN m :
           m[i].message.kind = "block" =>
             Head(requests).kind = "getdata" /\ m[i].message.block = Head(requests).block
  <2>1. Head(requests).kind \in {"version", "getheaders", "getdata"}
    BY <1>2 DEF SyncInv, Asking
  <2> QED BY <2>1, AnswerFramed
<1> HIDE DEF m
<1>4. Asking'
  BY <1>2 DEF SyncInv, Asking
<1> QED BY <1>1, <1>2, <1>3, <1>4, MessagesSent

LEMMA PeerSpeaksKeeps == SyncInv /\ Sync!PeerSpeaks => SyncInv'
<1> SUFFICES ASSUME SyncInv, Sync!PeerSpeaks PROVE SyncInv'
  OBVIOUS
<1>1. /\ UNCHANGED <<task, stream, requests, cut, returned>>
      /\ \E p : p.kind # "block" /\ wire' = wire \o Sync!Framed(p)
  BY DEF Sync!PeerSpeaks, Sync!syncVars
<1>2. PICK p : p.kind # "block" /\ wire' = wire \o Sync!Framed(p)
  BY <1>1
<1> DEFINE m == Sync!Framed(p)
<1>3. /\ IsSequence(m) /\ Framing(m) /\ m # <<>> /\ m[1].part = "header"
      /\ \A i \in DOMAIN m : m[i].message = p
  BY MessageFramed
<1>4. IsSequence(requests') /\ Asking' /\ wire' = wire \o m
  BY <1>1, <1>2 DEF SyncInv, Sequences, Asking
<1> HIDE DEF m
<1> QED BY <1>1, <1>2, <1>3, <1>4, MessagesSent

(* What is none of the connection's or of the synchroniser's business.      *)
LEMMA SyncUntouched ==
    ASSUME SyncInv, UNCHANGED <<task, wire, stream, requests, cut, returned>>
    PROVE  SyncInv'
<1>1. Coming' = Coming
  BY DEF Coming
<1>2. (Sequences /\ Asking /\ cut \in BOOLEAN)' /\ RightBlock'
  BY DEF SyncInv, Sequences, Asking, RightBlock, Sync!RightBlock
<1>3. TaskTyped'
  BY DEF SyncInv, TaskTyped, Requesting
<1>4. (~cut => Aligned)'
  BY <1>1 DEF SyncInv, Aligned
<1>5. Answering'
  BY <1>1 DEF SyncInv, Answering, Fits
<1> QED BY <1>2, <1>3, <1>4, <1>5 DEF SyncInv

(* The strengthened invariant holds in every reachable state.               *)
LEMMA SyncInductive == Spec => []SyncInv
<1>1. Init => SyncInv
  BY SyncInitially
<1>2. SyncInv /\ [Next]_vars => SyncInv'
  <2> SUFFICES ASSUME SyncInv, [Next]_vars PROVE SyncInv'
    OBVIOUS
  <2>1. CASE UNCHANGED vars
    BY <2>1, SyncUntouched DEF vars, syncVars
  <2>2. CASE OnConnection
    <3>1. UNCHANGED syncVars /\ (Sync!Step \/ Sync!Begin)
      BY <2>2 DEF OnConnection
    <3> QED BY <3>1, ReadHeaderKeeps, MisreadKeeps, ReadPayloadKeeps, TimeoutKeeps, HandshakeKeeps, DispatchKeeps,
               GiveUpKeeps, ArriveKeeps, ConnectKeeps, CloseKeeps, ListenKeeps
            DEF Sync!Step, Sync!Begin
  <2>3. CASE OnSync
    <3>1. CASE Sync!Operate
      BY <3>1, OperateKeeps, NetworkAssumption
    <3>2. CASE Sync!Take
      BY <3>2, TakeHeadersKeeps, TakeBlockKeeps, TakeBlocksKeeps, HeadersTimeoutKeeps DEF Sync!Take
    <3>3. CASE Sync!Peer
      <4>1. CASE Sync!PeerMoves
        BY <4>1, SyncUntouched DEF Sync!PeerMoves, Sync!connVars
      <4> QED BY <3>3, <4>1, PeerAnswersKeeps, PeerSpeaksKeeps DEF Sync!Peer
    <3> QED BY <2>3, <3>1, <3>2, <3>3 DEF OnSync
  <2>4. CASE OnPeers
    BY <2>4, SyncUntouched DEF OnPeers, syncVars
  <2> QED BY <2>1, <2>2, <2>3, <2>4 DEF Next
<1> QED BY <1>1, <1>2, PTL DEF Spec

(* However parts arrive, however the peer answers, announces and pings, and  *)
(* whatever times out: until a payload times out, the task takes headers for *)
(* headers, and the payload that follows a header for its payload.          *)
THEOREM FramedUntilTimeout == Spec => []FramingLostByTimeout
<1>1. SyncInv => FramingLostByTimeout
  <2> SUFFICES ASSUME SyncInv, ~cut, stream # <<>>
               PROVE  /\ task.at = "header" => Head(stream).part = "header"
                      /\ task.at = "payload" => Head(stream) = Sync!Part(task.message, "payload")
    BY DEF FramingLostByTimeout, Sync!FramingLostByTimeout
  <2>1. Coming # <<>> /\ Coming[1] = Head(stream)
    BY ReadingKeepsOrder DEF SyncInv, Sequences, Coming
  <2> QED BY <2>1 DEF SyncInv, Aligned
<1> QED BY <1>1, SyncInductive, PTL

(* A block requested while no answer was outstanding is the one asked for,   *)
(* or none, whatever arrived in between.                                    *)
THEOREM CleanRequestsGetTheirBlock == Spec => []RightBlock
<1>1. SyncInv => RightBlock
  BY DEF SyncInv
<1> QED BY <1>1, SyncInductive, PTL

-----------------------------------------------------------------------------
(* The headers.                                                             *)

\* A set of headers with all that comes before them.
Rooted(known) ==
    /\ known \subseteq Block \ {Genesis}
    /\ \A b \in known : Parent[b] \in known \cup {Genesis}

\* The tip is the latest header.
TipIsLatest(known, latest) ==
    /\ latest \in known \cup {None}
    /\ latest = None => known = {}
    /\ \A b \in known : Time[b] <= Time[latest]

\* Each header of a sequence comes after its parent, or the parent is known.
Links(s, known) ==
    /\ s \in Seq(Block \ {Genesis})
    /\ \A i \in DOMAIN s : Parent[s[i]] \in known \cup {Genesis} \cup {s[j] : j \in 1 .. i - 1}

\* The headers of a message go on from those known, and a message that is not
\* full goes all the way to the block it was sent for.
Known(m, known) ==
    m.kind = "headers" =>
        /\ m.upTo \in Block
        /\ Links(m.headers, known)
        /\ Len(m.headers) < MaxPerMessage =>
             Sync!Ancestors(m.upTo) \subseteq
                known \cup {Genesis} \cup {m.headers[i] : i \in DOMAIN m.headers}

AllKnown(s, known) == \A i \in DOMAIN s : Known(s[i].message, known)

\* A locator has headers that are known, and the zero hash.
Locates(locator, known) == locator \in Seq(known \cup {None})

AllLocate(s, known) ==
    \A i \in DOMAIN s : s[i].kind = "getheaders" => Locates(s[i].locator, known)

\* A download that is complete took a message that was not full.
Downloading ==
    task.operation = "headers" =>
        /\ task.at \notin {"idle", "closed"} => ~task.complete
        /\ task.at = "idle" /\ task.complete =>
             /\ task.message.upTo \in Block
             /\ Sync!Ancestors(task.message.upTo) \subseteq headers \cup {Genesis}

ChainInv == Rooted(headers) /\ TipIsLatest(headers, tip) /\ height \in Nat

HeadersInv ==
    /\ ChainInv
    /\ peerTip \in Block
    /\ AllKnown(stream, headers) /\ AllKnown(wire, headers)
    /\ AllLocate(requests, headers)
    /\ task.at \in {"payload", "received"} => Known(task.message, headers)
    /\ Downloading

(* A set of numbers has a least one.                                        *)
LEMMA LeastNumber ==
    ASSUME NEW S \in SUBSET Nat, S # {}
    PROVE  \E n \in S : \A m \in S : n <= m
<1> DEFINE R == {ss \in Nat \X Nat : ss[1] < ss[2]}
<1>1. IsWellFoundedOn(R, Nat)
  BY NatLessThanWellFounded DEF OpToRel
<1>2. PICK n \in S : \A m \in S : ~(<<m, n>> \in R)
  BY <1>1, WFMin
<1>3. ASSUME NEW m \in S PROVE n <= m
  <2>1. m \in Nat /\ n \in Nat /\ ~(<<m, n>> \in R)
    BY <1>2
  <2>2. ~(m < n)
    BY <2>1
  <2> QED BY <2>1, <2>2
<1> QED BY <1>3

\* f repeats a step N times, from some first value.
Repeats(f, S, N, first, step) ==
    /\ f \in [0 .. N -> S] /\ f[0] = first
    /\ \A n \in 1 .. N : f[n] = step[n][f[n - 1]]

(* A step that leads from S to S can be repeated.                           *)
LEMMA Repeated ==
    ASSUME NEW S, NEW N \in Nat, NEW first \in S, NEW step \in [1 .. N -> [S -> S]]
    PROVE  \E f : Repeats(f, S, N, first, step)
<1> USE DEF Repeats
<1> DEFINE Reach(k) == \E f : Repeats(f, S, k, first, step)
           missed == {k \in 0 .. N : ~Reach(k)}
<1>1. SUFFICES ASSUME missed # {} PROVE FALSE
  <2>1. N \in 0 .. N
    OBVIOUS
  <2> QED BY <2>1
<1>2. missed \in SUBSET Nat
  OBVIOUS
<1>3. PICK k \in missed : \A m \in missed : k <= m
  <2> HIDE DEF missed
  <2> QED BY <1>1, <1>2, LeastNumber
<1>4. k \in 0 .. N /\ ~Reach(k)
  OBVIOUS
<1>5. CASE k = 0
  <2> DEFINE f == [n \in 0 .. 0 |-> first]
  <2>1. f \in [0 .. 0 -> S]
    OBVIOUS
  <2>2. f[0] = first /\ \A n \in 1 .. 0 : f[n] = step[n][f[n - 1]]
    OBVIOUS
  <2> QED BY <1>4, <1>5, <2>1, <2>2
<1>6. CASE k # 0
  <2>1. k - 1 \in 0 .. N /\ k \in 1 .. N
    BY <1>4, <1>6
  <2>2. Reach(k - 1)
    <3>1. k - 1 \notin missed
      <4> HIDE DEF missed
      <4> QED BY <1>2, <1>3
    <3> HIDE DEF Reach
    <3> QED BY <2>1, <3>1
  <2>3. PICK g : Repeats(g, S, k - 1, first, step)
    BY <2>2
  <2> DEFINE f == [n \in 0 .. k |-> IF n < k THEN g[n] ELSE step[k][g[k - 1]]]
  <2>4. g[k - 1] \in S /\ step[k][g[k - 1]] \in S
    <3>1. g[k - 1] \in S
      BY <2>1, <2>3
    <3> QED BY <2>1, <3>1
  <2>5. f \in [0 .. k -> S]
    BY <2>1, <2>3, <2>4
  <2>6. /\ f[k] = step[k][g[k - 1]]
        /\ \A n \in 0 .. k - 1 : f[n] = g[n]
    BY <2>1
  <2> HIDE DEF f
  <2>7. ASSUME NEW n \in 1 .. k PROVE f[n] = step[n][f[n - 1]]
    <3>1. f[n - 1] = g[n - 1]
      BY <2>1, <2>6
    <3>2. CASE n = k
      BY <2>6, <3>1, <3>2
    <3>3. CASE n # k
      <4>1. n \in 1 .. k - 1 /\ n \in 0 .. k - 1
        BY <2>1, <3>3
      <4> QED BY <2>3, <2>6, <3>1, <4>1
    <3> QED BY <3>2, <3>3
  <2>8. f[0] = first
    BY <2>1, <2>3, <2>6
  <2>9. Reach(k)
    BY <2>5, <2>7, <2>8
  <2> QED BY <1>4, <2>9
<1> QED BY <1>5, <1>6

(* There are n numbers from 1 to n, and no more in a part of them.           *)
LEMMA PartOfInterval ==
    ASSUME NEW n \in Nat, NEW S \in SUBSET (1 .. n)
    PROVE  Cardinality(S) \in 0 .. n
<1>1. IsFiniteSet(1 .. n) /\ Cardinality(1 .. n) = n
  BY FS_Interval
<1>2. IsFiniteSet(S) /\ Cardinality(S) <= Cardinality(1 .. n)
  BY <1>1, FS_Subset
<1> QED BY <1>1, <1>2, FS_CardinalityType

(* Whatever holds of the genesis block, and of a block when it holds of its *)
(* parent, holds of every block: a set of exceptions has no first one.      *)
LEMMA FirstBlock ==
    ASSUME NetworkAssumption, NEW S \in SUBSET Block, S # {}
    PROVE  \E b \in S : b = Genesis \/ Parent[b] \notin S
  BY DEF NetworkAssumption

LEMMA ParentIsBlock ==
    ASSUME NetworkAssumption, NEW b \in Block, b # Genesis
    PROVE  Parent[b] \in Block
  BY DEF NetworkAssumption

(* The ancestors of a block are it and those of its parent.                 *)
LEMMA AncestorsAre ==
    ASSUME NetworkAssumption, NEW b \in Block
    PROVE  Sync!Ancestors(b) = {b} \cup IF b = Genesis THEN {} ELSE Sync!Ancestors(Parent[b])
<1> DEFINE Closed(S) == \A x \in S : x # Genesis => Parent[x] \in S
           Above(x) == {y \in Block : \A S \in SUBSET Block : x \in S /\ Closed(S) => y \in S}
           Up(u) == u = [x \in Block |-> {x} \cup IF x = Genesis THEN {} ELSE u[Parent[x]]]
           above == [x \in Block |-> Above(x)]
           up == CHOOSE u : Up(u)
<1>1. ASSUME NEW x \in Block
      PROVE  Above(x) = {x} \cup IF x = Genesis THEN {} ELSE Above(Parent[x])
  <2>1. CASE x = Genesis
    <3>1. {x} \in SUBSET Block /\ Closed({x})
      BY <2>1
    <3> QED BY <2>1, <3>1
  <2>2. CASE x # Genesis
    <3>1. Parent[x] \in Block
      BY <2>2, ParentIsBlock
    <3> DEFINE T == {x} \cup Above(Parent[x])
    <3>2. T \in SUBSET Block
      OBVIOUS
    <3>3. Parent[x] \in T
      BY <3>1
    <3>4. Closed(T)
      <4> SUFFICES ASSUME NEW y \in Above(Parent[x]), y # Genesis PROVE Parent[y] \in Above(Parent[x])
        BY <3>3
      <4>1. Parent[y] \in Block
        BY ParentIsBlock
      <4> QED BY <4>1
    <3>5. Above(x) \subseteq T
      BY <3>2, <3>4
    <3>6. Above(Parent[x]) \subseteq Above(x) /\ x \in Above(x)
      BY <2>2
    <3> QED BY <2>2, <3>5, <3>6
  <2> QED BY <2>1, <2>2
<1> HIDE DEF Above
<1>2. Up(above)
  <2>1. \A x \in Block : x # Genesis => above[Parent[x]] = Above(Parent[x])
    BY ParentIsBlock
  <2> QED BY <1>1, <2>1
<1>3. Up(up)
  <2> HIDE DEF Up, above
  <2> QED BY <1>2
<1>4. \A x \in Block : Sync!Ancestors(x) = up[x]
  BY DEF Sync!Ancestors
<1> HIDE DEF up
<1>5. up[b] = {b} \cup IF b = Genesis THEN {} ELSE up[Parent[b]]
  BY <1>3
<1> QED BY <1>4, <1>5, ParentIsBlock

(* The ancestors of a block are a chain that ends in the genesis block.      *)
LEMMA AncestorsChain ==
    ASSUME NetworkAssumption, NEW b \in Block
    PROVE  /\ Sync!Ancestors(b) \subseteq Block
           /\ b \in Sync!Ancestors(b) /\ Genesis \in Sync!Ancestors(b)
           /\ \A x \in Sync!Ancestors(b) : x # Genesis => Parent[x] \in Sync!Ancestors(b)
           /\ IsFiniteSet(Sync!Ancestors(b))
<1> DEFINE A(x) == Sync!Ancestors(x)
           Good(x) == /\ A(x) \subseteq Block
                      /\ x \in A(x) /\ Genesis \in A(x)
                      /\ \A y \in A(x) : y # Genesis => Parent[y] \in A(x)
                      /\ IsFiniteSet(A(x))
           bad == {x \in Block : ~Good(x)}
<1>1. ASSUME bad # {} PROVE FALSE
  <2>1. PICK x \in bad : x = Genesis \/ Parent[x] \notin bad
    <3> HIDE DEF bad
    <3>1. bad \in SUBSET Block
      BY DEF bad
    <3> QED BY <1>1, <3>1, FirstBlock
  <2>2. x \in Block /\ ~Good(x)
    OBVIOUS
  <2>3. CASE x = Genesis
    <3>1. A(x) = {x}
      BY <2>2, <2>3, AncestorsAre
    <3>2. IsFiniteSet({x})
      BY FS_Singleton
    <3> QED BY <2>2, <2>3, <3>1, <3>2
  <2>4. CASE x # Genesis
    <3>1. Parent[x] \in Block /\ A(x) = {x} \cup A(Parent[x])
      BY <2>2, <2>4, AncestorsAre, ParentIsBlock
    <3>2. Good(Parent[x])
      BY <2>1, <2>4, <3>1
    <3>3. IsFiniteSet(A(Parent[x]) \cup {x})
      BY <3>2, FS_AddElement
    <3>4. IsFiniteSet(A(x))
      <4>1. A(x) = A(Parent[x]) \cup {x}
        BY <3>1
      <4> QED BY <3>3, <4>1
    <3> HIDE DEF A
    <3> QED BY <2>2, <2>4, <3>1, <3>2, <3>4
  <2> QED BY <2>3, <2>4
<1> HIDE DEF Good
<1>2. Good(b)
  BY <1>1
<1> QED BY <1>2 DEF Good

(* Whatever has the block, and the parent of each that it has, has all the  *)
(* ancestors of the block.                                                  *)
LEMMA RootedHasAncestors ==
    ASSUME NetworkAssumption, NEW S \in SUBSET Block, NEW b \in S,
           \A x \in S : x # Genesis => Parent[x] \in S
    PROVE  Sync!Ancestors(b) \subseteq S
<1> DEFINE A(x) == Sync!Ancestors(x)
           bad == {x \in S : ~(A(x) \subseteq S)}
<1>1. ASSUME bad # {} PROVE FALSE
  <2>1. PICK x \in bad : x = Genesis \/ Parent[x] \notin bad
    <3> HIDE DEF bad
    <3>1. bad \in SUBSET Block
      BY DEF bad
    <3> QED BY <1>1, <3>1, FirstBlock
  <2>2. x \in S /\ ~(A(x) \subseteq S)
    OBVIOUS
  <2>3. A(x) = {x} \cup IF x = Genesis THEN {} ELSE A(Parent[x])
    BY <2>2, AncestorsAre
  <2>4. x # Genesis => A(Parent[x]) \subseteq S
    BY <2>1, <2>2
  <2> HIDE DEF A, bad
  <2> QED BY <2>2, <2>3, <2>4
<1> QED BY <1>1

(* No block is an ancestor of its parent.                                   *)
LEMMA NoCycle ==
    ASSUME NetworkAssumption, NEW b \in Block, b # Genesis
    PROVE  b \notin Sync!Ancestors(Parent[b])
<1> DEFINE A(x) == Sync!Ancestors(x)
           C == {x \in A(b) : b \in A(x)}
<1> SUFFICES ASSUME b \in A(Parent[b]) PROVE FALSE
  OBVIOUS
<1>1. A(b) \subseteq Block /\ b \in A(b) /\ \A x \in A(b) : x # Genesis => Parent[x] \in A(b)
  BY AncestorsChain
<1>2. PICK x \in C : x = Genesis \/ Parent[x] \notin C
  <2> HIDE DEF A
  <2>1. C \in SUBSET Block /\ C # {}
    BY <1>1
  <2> HIDE DEF C
  <2> QED BY <2>1, FirstBlock
<1>3. x \in Block /\ x \in A(b) /\ b \in A(x)
  BY <1>1
<1>4. A(x) = {x} \cup IF x = Genesis THEN {} ELSE A(Parent[x])
  BY <1>3, AncestorsAre
<1> HIDE DEF A
<1>5. CASE x = Genesis
  BY <1>3, <1>4, <1>5
<1>6. CASE x # Genesis
  <2>1. b \notin A(Parent[x])
    BY <1>1, <1>2, <1>3, <1>6
  <2> QED BY <1>3, <1>4, <1>6, <2>1
<1> QED BY <1>5, <1>6

LEMMA SyncCounts == ASSUME NEW S PROVE Sync!Cardinality(S) = Cardinality(S)
  BY DEF Sync!Cardinality, Cardinality

\* The blocks of the chain of b that are not on that of from.
Beyond(from, b) == Sync!Ancestors(b) \ Sync!Ancestors(from)

\* They are all in s, each after its parent.
Orders(s, from, b) ==
    /\ s \in [1 .. Cardinality(Beyond(from, b)) -> Beyond(from, b)]
    /\ {s[i] : i \in DOMAIN s} = Beyond(from, b)
    /\ \A i \in DOMAIN s :
         Parent[s[i]] \in Sync!Ancestors(from) \cup {s[j] : j \in 1 .. i - 1}

(* What is beyond a chain can be counted, and the genesis block is not.     *)
LEMMA BeyondIsFinite ==
    ASSUME NetworkAssumption, NEW from \in Block, NEW b \in Block
    PROVE  /\ Beyond(from, b) \subseteq Block \ {Genesis}
           /\ IsFiniteSet(Beyond(from, b)) /\ Cardinality(Beyond(from, b)) \in Nat
<1>1. /\ Sync!Ancestors(b) \subseteq Block /\ IsFiniteSet(Sync!Ancestors(b))
      /\ Genesis \in Sync!Ancestors(from)
  BY AncestorsChain
<1>2. IsFiniteSet(Beyond(from, b))
  BY <1>1, FS_Difference DEF Beyond
<1> QED BY <1>1, <1>2, FS_CardinalityType DEF Beyond

(* The chain goes on in order.                                              *)
LEMMA AnOrder ==
    ASSUME NetworkAssumption, NEW from \in Block, NEW b \in Block
    PROVE  \E s : Orders(s, from, b)
<1> DEFINE bad == {x \in Block : ~ \E s : Orders(s, from, x)}
<1> SUFFICES ASSUME bad # {} PROVE FALSE
  OBVIOUS
<1>1. PICK x \in bad : x = Genesis \/ Parent[x] \notin bad
  <2>1. bad \in SUBSET Block
    OBVIOUS
  <2> HIDE DEF bad
  <2> QED BY <2>1, FirstBlock
<1>2. x \in Block /\ ~ \E s : Orders(s, from, x)
  OBVIOUS
<1>3. /\ Sync!Ancestors(from) \subseteq Block /\ Genesis \in Sync!Ancestors(from)
      /\ \A y \in Sync!Ancestors(from) : y # Genesis => Parent[y] \in Sync!Ancestors(from)
  BY AncestorsChain
<1>4. CASE x \in Sync!Ancestors(from)
  <2>1. Sync!Ancestors(x) \subseteq Sync!Ancestors(from)
    BY <1>3, <1>4, RootedHasAncestors
  <2>2. Beyond(from, x) = {} /\ Cardinality({}) = 0
    BY <2>1, FS_EmptySet DEF Beyond
  <2> DEFINE s == [i \in 1 .. 0 |-> x]
  <2>3. s \in [1 .. 0 -> {}] /\ DOMAIN s = {}
    OBVIOUS
  <2>4. {s[i] : i \in DOMAIN s} = {}
    BY <2>3
  <2> HIDE DEF s
  <2>5. Orders(s, from, x)
    BY <2>2, <2>3, <2>4 DEF Orders
  <2> QED BY <1>2, <2>5
<1>5. CASE x \notin Sync!Ancestors(from)
  <2>1. x # Genesis
    BY <1>3, <1>5
  <2> DEFINE p == Parent[x]
             N == Beyond(from, p)
             k == Cardinality(N)
  <2>2. p \in Block /\ p \notin bad
    BY <1>1, <1>2, <2>1, ParentIsBlock
  <2>3. PICK s : Orders(s, from, p)
    BY <2>2
  <2>4. IsFiniteSet(N) /\ k \in Nat
    BY <2>2, BeyondIsFinite
  <2>5. Beyond(from, x) = N \cup {x} /\ x \notin N
    <3>1. Sync!Ancestors(x) = {x} \cup Sync!Ancestors(p)
      BY <1>2, <2>1, AncestorsAre
    <3>2. x \notin Sync!Ancestors(p)
      BY <1>2, <2>1, NoCycle
    <3> QED BY <1>5, <3>1, <3>2 DEF Beyond
  <2>6. Cardinality(Beyond(from, x)) = k + 1
    <3> HIDE DEF N
    <3> QED BY <2>4, <2>5, FS_AddElement
  <2>7. p \in Sync!Ancestors(from) \cup N
    <3>1. p \in Sync!Ancestors(p)
      BY <2>2, AncestorsChain
    <3> QED BY <3>1 DEF Beyond
  <2>8. /\ s \in [1 .. k -> N] /\ {s[i] : i \in 1 .. k} = N
        /\ \A i \in 1 .. k : Parent[s[i]] \in Sync!Ancestors(from) \cup {s[j] : j \in 1 .. i - 1}
    <3>1. s \in [1 .. k -> N] /\ DOMAIN s = 1 .. k
      BY <2>3 DEF Orders
    <3> QED BY <2>3, <3>1 DEF Orders
  <2> DEFINE r == [i \in 1 .. k + 1 |-> IF i <= k THEN s[i] ELSE x]
  <2> HIDE DEF N, k, p
  <2>9. r \in [1 .. k + 1 -> N \cup {x}] /\ DOMAIN r = 1 .. k + 1
    BY <2>4, <2>8
  <2>10. r[k + 1] = x /\ \A i \in 1 .. k : r[i] = s[i] /\ i \in 1 .. k + 1
    BY <2>4
  <2> HIDE DEF r
  <2>11. {r[i] : i \in 1 .. k + 1} = N \cup {x}
    <3>1. ASSUME NEW y \in N PROVE \E i \in 1 .. k + 1 : r[i] = y
      <4>1. PICK i \in 1 .. k : s[i] = y
        BY <2>8
      <4> QED BY <2>10, <4>1
    <3>2. \E i \in 1 .. k + 1 : r[i] = x
      BY <2>4, <2>10
    <3>3. \A i \in 1 .. k + 1 : r[i] \in N \cup {x}
      BY <2>9
    <3> QED BY <3>1, <3>2, <3>3
  <2>12. ASSUME NEW i \in 1 .. k + 1
         PROVE  Parent[r[i]] \in Sync!Ancestors(from) \cup {r[j] : j \in 1 .. i - 1}
    <3>1. CASE i <= k
      <4>1. i \in 1 .. k /\ r[i] = s[i]
        BY <2>4, <2>10, <3>1
      <4>2. \A j \in 1 .. i - 1 : r[j] = s[j]
        BY <2>4, <2>10, <4>1
      <4>3. Parent[s[i]] \in Sync!Ancestors(from) \cup {s[j] : j \in 1 .. i - 1}
        BY <2>8, <4>1
      <4> QED BY <4>1, <4>2, <4>3
    <3>2. CASE i = k + 1
      <4>1. Parent[r[i]] = p /\ i - 1 = k
        BY <2>4, <2>10, <3>2 DEF p
      <4>2. ASSUME p \in N PROVE \E j \in 1 .. k : r[j] = p
        <5>1. PICK j \in 1 .. k : s[j] = p
          BY <2>8, <4>2
        <5> QED BY <2>10, <5>1
      <4> QED BY <2>7, <4>1, <4>2
    <3> QED BY <2>4, <3>1, <3>2
  <2>13. Orders(r, from, x)
    BY <2>5, <2>6, <2>9, <2>11, <2>12 DEF Orders
  <2> QED BY <1>2, <2>13
<1> QED BY <1>4, <1>5

(* The peer sends what is beyond the block it shares, in order.             *)
LEMMA AfterOrders ==
    ASSUME NetworkAssumption, NEW from \in Block, NEW b \in Block
    PROVE  /\ Orders(Sync!After(from, b), from, b)
           /\ Sync!After(from, b) \in Seq(Block \ {Genesis})
<1> DEFINE new == Beyond(from, b)
           Good(s) == /\ s \in [1 .. Cardinality(new) -> new]
                      /\ {s[i] : i \in DOMAIN s} = new
                      /\ \A i \in DOMAIN s :
                           Parent[s[i]] \in Sync!Ancestors(from) \cup {s[j] : j \in 1 .. i - 1}
           after == CHOOSE s : Good(s)
<1>1. Sync!After(from, b) = after
  BY SyncCounts DEF Sync!After, Beyond
<1>2. \A s : Good(s) <=> Orders(s, from, b)
  BY DEF Orders
<1> HIDE DEF Good
<1>3. Orders(after, from, b)
  BY <1>2, AnOrder
<1>4. after \in [1 .. Cardinality(new) -> new]
  BY <1>3 DEF Orders
<1> HIDE DEF after, new
<1>5. after \in Seq(new) /\ new \subseteq Block \ {Genesis}
  <2>1. Cardinality(new) \in Nat /\ new \subseteq Block \ {Genesis}
    BY BeyondIsFinite DEF new
  <2> DEFINE k == Cardinality(new)
  <2>2. after \in [1 .. k -> new] /\ k \in Nat
    BY <1>4, <2>1
  <2> HIDE DEF k
  <2> QED BY <2>1, <2>2
<1>6. after \in Seq(Block \ {Genesis})
  <2>1. Len(after) \in Nat /\ after \in [1 .. Len(after) -> new]
    BY <1>5
  <2>2. after \in [1 .. Len(after) -> Block \ {Genesis}]
    BY <1>5, <2>1
  <2> QED BY <2>1, <2>2
<1> QED BY <1>1, <1>3, <1>6

-----------------------------------------------------------------------------
(* ChainState.                                                              *)

\* The records AddHeader works on.
Chains == [headers : SUBSET Block, tip : Block \cup {None}, height : Nat]

GoodChain(c) == Rooted(c.headers) /\ TipIsLatest(c.headers, c.tip)

(* One more header leaves the chain rooted and its tip the latest.          *)
LEMMA AddHeaderKeeps ==
    ASSUME NetworkAssumption, NEW c \in Chains, NEW b \in Block
    PROVE  /\ Sync!AddHeader(c, b) \in Chains
           /\ Sync!AddHeader(c, b).headers = c.headers \cup {b}
           /\ GoodChain(c) /\ b # Genesis /\ Parent[b] \in c.headers \cup {Genesis}
              => GoodChain(Sync!AddHeader(c, b))
<1> DEFINE d == Sync!AddHeader(c, b)
<1>1. c.headers \subseteq Block /\ c.tip \in Block \cup {None} /\ c.height \in Nat
  BY DEF Chains
<1>2. /\ None \notin Block /\ \A x \in Block : Time[x] \in Nat
  BY DEF NetworkAssumption
<1>3. CASE b \in c.headers
  <2>1. d = c
    BY <1>3 DEF Sync!AddHeader
  <2> QED BY <1>1, <1>3, <2>1
<1>4. CASE b \notin c.headers
  <2>1. d \in Chains /\ d.headers = c.headers \cup {b}
    BY <1>1, <1>4 DEF Sync!AddHeader, Chains
  <2>2. d.tip = IF c.tip = None \/ Time[b] > Time[c.tip] THEN b ELSE c.tip
    BY <1>4 DEF Sync!AddHeader
  <2>3. ASSUME GoodChain(c), b # Genesis, Parent[b] \in c.headers \cup {Genesis}
        PROVE  Rooted(d.headers)
    BY <2>1, <2>3 DEF GoodChain, Rooted
  <2>4. ASSUME GoodChain(c)
        PROVE  TipIsLatest(d.headers, d.tip)
    <3>1. CASE c.tip = None
      <4>1. d.headers = {b} /\ d.tip = b
        BY <2>1, <2>2, <2>4, <3>1 DEF GoodChain, TipIsLatest
      <4> QED BY <1>2, <4>1 DEF TipIsLatest
    <3>2. CASE c.tip # None
      <4>1. c.tip \in c.headers /\ \A x \in c.headers : Time[x] <= Time[c.tip]
        BY <2>4, <3>2 DEF GoodChain, TipIsLatest
      <4>2. \A x \in d.headers : Time[x] <= Time[d.tip]
        BY <1>1, <1>2, <2>1, <2>2, <3>2, <4>1
      <4>3. d.tip \in d.headers /\ d.tip # None
        BY <1>2, <2>1, <2>2, <3>2, <4>1
      <4> QED BY <4>2, <4>3 DEF TipIsLatest
    <3> QED BY <3>1, <3>2
  <2> QED BY <2>1, <2>3, <2>4 DEF GoodChain
<1> QED BY <1>3, <1>4

(* All the headers of a message are added, one after the other.             *)
LEMMA AddHeadersKeeps ==
    ASSUME NetworkAssumption, ChainInv,
           NEW new, Links(new, headers)
    PROVE  LET chain == Sync!AddHeaders(new)
           IN /\ chain.headers = headers \cup {new[i] : i \in DOMAIN new}
              /\ Rooted(chain.headers) /\ TipIsLatest(chain.headers, chain.tip)
              /\ chain.height \in Nat
<1> DEFINE N == Len(new)
           first == [headers |-> headers, tip |-> tip, height |-> height]
           step == [n \in 1 .. N |-> [c \in Chains |-> Sync!AddHeader(c, new[n])]]
           Adds(f) == f = [n \in 0 .. N |-> IF n = 0 THEN first
                                            ELSE Sync!AddHeader(f[n - 1], new[n])]
           chain == CHOOSE f : Adds(f)
<1>1. /\ N \in Nat /\ DOMAIN new = 1 .. N
      /\ \A i \in 1 .. N : new[i] \in Block \ {Genesis}
  BY DEF Links
<1>2. first \in Chains /\ GoodChain(first)
  BY DEF ChainInv, Chains, GoodChain, Rooted, TipIsLatest
<1>3. step \in [1 .. N -> [Chains -> Chains]]
  BY <1>1, AddHeaderKeeps
<1>4. /\ chain \in [0 .. N -> Chains] /\ chain[0] = first
      /\ \A n \in 1 .. N : chain[n] = Sync!AddHeader(chain[n - 1], new[n])
  <2>1. PICK f : Repeats(f, Chains, N, first, step)
    <3> HIDE DEF N, first, step
    <3> QED BY <1>1, <1>2, <1>3, Repeated
  <2> USE DEF Repeats
  <2>2. \A n \in 0 .. N : f[n] = IF n = 0 THEN first ELSE Sync!AddHeader(f[n - 1], new[n])
    <3> TAKE n \in 0 .. N
    <3>1. CASE n = 0
      BY <2>1, <3>1
    <3>2. CASE n # 0
      <4>1. n \in 1 .. N /\ n - 1 \in 0 .. N
        <5> HIDE DEF N
        <5> QED BY <1>1, <3>2
      <4>2. f[n - 1] \in Chains
        BY <2>1, <4>1
      <4>3. f[n] = step[n][f[n - 1]]
        <5> HIDE DEF step, first
        <5> QED BY <2>1, <4>1
      <4> QED BY <3>2, <4>1, <4>2, <4>3
    <3> QED BY <3>1, <3>2
  <2> HIDE DEF first, step
  <2>3. f = [n \in 0 .. N |-> f[n]]
    BY <2>1
  <2>4. Adds(f)
    BY <2>2, <2>3
  <2> HIDE DEF Adds
  <2>5. Adds(chain)
    BY <2>4
  <2> HIDE DEF chain
  <2> USE DEF Adds
  <2>6. \A n \in 0 .. N : chain[n] = IF n = 0 THEN first ELSE Sync!AddHeader(chain[n - 1], new[n])
    BY <2>5
  <2>7. chain[0] = first /\ \A n \in 1 .. N : chain[n] = Sync!AddHeader(chain[n - 1], new[n])
    BY <1>1, <2>6
  <2> DEFINE ill == {n \in 0 .. N : chain[n] \notin Chains}
  <2>8. ASSUME ill # {} PROVE FALSE
    <3>1. PICK n \in ill : \A m \in ill : n <= m
      <4>1. ill \in SUBSET Nat
        OBVIOUS
      <4> HIDE DEF ill
      <4> QED BY <2>8, <4>1, LeastNumber
    <3>2. n # 0
      BY <1>2, <2>7
    <3>3. n \in 1 .. N /\ n - 1 \in 0 .. N /\ n - 1 \notin ill
      <4>1. n \in 1 .. N /\ n - 1 \in 0 .. N
        BY <1>1, <3>2
      <4> HIDE DEF ill
      <4> QED BY <3>1, <4>1
    <3>4. chain[n - 1] \in Chains
      BY <3>3
    <3>5. new[n] \in Block /\ chain[n] = Sync!AddHeader(chain[n - 1], new[n])
      BY <1>1, <2>7, <3>3
    <3>6. chain[n] \in Chains
      BY <3>4, <3>5, AddHeaderKeeps
    <3> QED BY <3>6
  <2>9. chain \in [0 .. N -> Chains]
    <3>1. chain = [n \in 0 .. N |-> chain[n]]
      BY <2>5
    <3> QED BY <2>8, <3>1
  <2> QED BY <2>7, <2>9
<1>5. Sync!AddHeaders(new) = chain[N]
  BY DEF Sync!AddHeaders
<1> HIDE DEF chain, first, step
<1> DEFINE Right(n) == /\ GoodChain(chain[n])
                       /\ chain[n].headers = headers \cup {new[j] : j \in 1 .. n}
           wrong == {n \in 0 .. N : ~Right(n)}
<1>6. ASSUME wrong # {} PROVE FALSE
  <2>1. PICK n \in wrong : \A m \in wrong : n <= m
    <3>1. wrong \in SUBSET Nat
      OBVIOUS
    <3> HIDE DEF wrong
    <3> QED BY <1>6, <3>1, LeastNumber
  <2>2. n \in 0 .. N /\ ~Right(n)
    OBVIOUS
  <2>3. CASE n = 0
    BY <1>2, <1>4, <2>2, <2>3 DEF first
  <2>4. CASE n # 0
    <3>1. n \in 1 .. N /\ n - 1 \in 0 .. N /\ n - 1 \notin wrong
      <4>1. n \in 1 .. N /\ n - 1 \in 0 .. N
        BY <1>1, <2>2, <2>4
      <4> HIDE DEF wrong
      <4> QED BY <2>1, <4>1
    <3>2. Right(n - 1)
      BY <3>1
    <3> DEFINE c == chain[n - 1]
               d == chain[n]
    <3>3. c \in Chains /\ d = Sync!AddHeader(c, new[n]) /\ new[n] \in Block \ {Genesis}
      BY <1>1, <1>4, <3>1
    <3>4. Parent[new[n]] \in c.headers \cup {Genesis}
      BY <1>1, <3>1, <3>2 DEF Links
    <3>5. d.headers = c.headers \cup {new[n]} /\ GoodChain(d)
      <4> HIDE DEF c, d
      <4> QED BY <3>2, <3>3, <3>4, AddHeaderKeeps DEF c
    <3>6. {new[j] : j \in 1 .. n} = {new[j] : j \in 1 .. n - 1} \cup {new[n]}
      BY <1>1, <3>1
    <3>7. d.headers = headers \cup {new[j] : j \in 1 .. n}
      BY <3>2, <3>5, <3>6
    <3> QED BY <2>2, <3>5, <3>7
  <2> QED BY <2>3, <2>4
<1>7. Right(N) /\ chain[N] \in Chains
  BY <1>1, <1>4, <1>6
<1> HIDE DEF N
<1> QED BY <1>1, <1>5, <1>7 DEF GoodChain, Chains

(* A locator names headers that are known.                                  *)
LEMMA LocatorLocates ==
    ASSUME NetworkAssumption, ChainInv
    PROVE  Locates(Sync!GetLocator, headers)
<1> DEFINE S == headers \cup {None}
           Next1(x) == IF x \in headers /\ Sync!ParentOf(x) \in headers
                       THEN Sync!ParentOf(x) ELSE None
           step == [n \in 1 .. 9 |-> [x \in S |-> Next1(x)]]
           Back(f) == f = [n \in 1 .. 10 |-> IF n = 1 THEN tip
                                             ELSE IF f[n - 1] \in headers /\ Sync!ParentOf(f[n - 1]) \in headers
                                             THEN Sync!ParentOf(f[n - 1]) ELSE None]
           back == CHOOSE f : Back(f)
           some == {n \in 1 .. 10 : back[n] # None}
           known == Sync!Cardinality(some)
<1>1. tip \in S /\ step \in [1 .. 9 -> [S -> S]]
  BY DEF ChainInv, TipIsLatest
<1>2. PICK f : Repeats(f, S, 9, tip, step)
  <2>1. 9 \in Nat
    OBVIOUS
  <2> HIDE DEF S, step
  <2> QED BY <1>1, <2>1, Repeated
<1> USE DEF Repeats
<1>3. \A n \in 1 .. 9 : f[n] = Next1(f[n - 1])
  <2> TAKE n \in 1 .. 9
  <2>1. f[n - 1] \in S
    BY <1>2
  <2>2. f[n] = step[n][f[n - 1]]
    BY <1>2
  <2>3. step[n][f[n - 1]] = Next1(f[n - 1])
    BY <2>1
  <2> QED BY <2>2, <2>3
<1> DEFINE g == [n \in 1 .. 10 |-> f[n - 1]]
<1>4. \A n \in 1 .. 10 : g[n] = IF n = 1 THEN tip ELSE Next1(g[n - 1])
  <2> TAKE n \in 1 .. 10
  <2>1. n - 1 \in 0 .. 9 /\ (n # 1 => n - 1 \in 1 .. 10 /\ n - 1 \in 1 .. 9) /\ (n - 1 = 0 <=> n = 1)
    OBVIOUS
  <2> HIDE DEF Next1
  <2> QED BY <1>2, <1>3, <2>1
<1>5. Back(back)
  <2>1. Back(g)
    <3>1. g = [n \in 1 .. 10 |-> g[n]]
      OBVIOUS
    <3> HIDE DEF g
    <3> QED BY <1>4, <3>1
  <2> HIDE DEF Back, g
  <2> QED BY <2>1
<1>6. Sync!GetLocator = [n \in 1 .. known + 1 |-> IF n <= known THEN back[n] ELSE None]
  BY DEF Sync!GetLocator
<1> HIDE DEF back
<1>7. \A n \in 1 .. 10 : back[n] \in S
  <2>1. \A n \in 1 .. 10 : back[n] = tip \/ back[n] \in headers \/ back[n] = None
    BY <1>5
  <2> QED BY <1>1, <2>1
<1>8. known \in 0 .. 10
  <2>1. some \subseteq 1 .. 10 /\ 10 \in Nat
    OBVIOUS
  <2> HIDE DEF some
  <2> QED BY <2>1, PartOfInterval, SyncCounts
<1> HIDE DEF known, S, some
<1>9. /\ Sync!GetLocator = [n \in 1 .. known + 1 |-> IF n <= known THEN back[n] ELSE None]
      /\ known \in Nat /\ None \in S /\ \A n \in 1 .. known : back[n] \in S
  <2>1. \A n \in 1 .. known : n \in 1 .. 10
    BY <1>8
  <2>2. known \in Nat
    BY <1>8
  <2>3. None \in S
    BY DEF S
  <2> QED BY <1>6, <1>7, <2>1, <2>2, <2>3
<1>10. Sync!GetLocator \in [1 .. known + 1 -> S]
  BY <1>9
<1>11. Sync!GetLocator \in Seq(S)
  BY <1>9, <1>10
<1> QED BY <1>11 DEF Locates, S

-----------------------------------------------------------------------------
(* The messages of a download.                                              *)

(* What is known stays known as headers are added.                          *)
LEMMA KnownGrows ==
    ASSUME NEW known, NEW more, known \subseteq more
    PROVE  /\ \A m : Known(m, known) => Known(m, more)
           /\ \A s : AllKnown(s, known) => AllKnown(s, more)
           /\ \A l : Locates(l, known) => Locates(l, more)
           /\ \A s : AllLocate(s, known) => AllLocate(s, more)
<1>1. ASSUME NEW m, Known(m, known) PROVE Known(m, more)
  <2> SUFFICES ASSUME m.kind = "headers"
               PROVE  /\ m.upTo \in Block
                      /\ Links(m.headers, more)
                      /\ Len(m.headers) < MaxPerMessage =>
                           Sync!Ancestors(m.upTo) \subseteq
                              more \cup {Genesis} \cup {m.headers[i] : i \in DOMAIN m.headers}
    BY DEF Known
  <2> DEFINE s == m.headers
  <2>1. /\ m.upTo \in Block /\ Links(s, known)
        /\ Len(s) < MaxPerMessage =>
             Sync!Ancestors(m.upTo) \subseteq known \cup {Genesis} \cup {s[i] : i \in DOMAIN s}
    BY <1>1 DEF Known
  <2> HIDE DEF s
  <2>2. Links(s, more)
    <3>1. s \in Seq(Block \ {Genesis})
      BY <2>1 DEF Links
    <3>2. ASSUME NEW i \in DOMAIN s
          PROVE  Parent[s[i]] \in more \cup {Genesis} \cup {s[j] : j \in 1 .. i - 1}
      BY <2>1 DEF Links
    <3> QED BY <3>1, <3>2 DEF Links
  <2>3. Len(s) < MaxPerMessage =>
          Sync!Ancestors(m.upTo) \subseteq more \cup {Genesis} \cup {s[i] : i \in DOMAIN s}
    BY <2>1
  <2> QED BY <2>1, <2>2, <2>3 DEF s
<1>2. ASSUME NEW l, Locates(l, known) PROVE Locates(l, more)
  <2>1. l \in [1 .. Len(l) -> known \cup {None}] /\ Len(l) \in Nat
    BY <1>2 DEF Locates
  <2>2. l \in [1 .. Len(l) -> more \cup {None}]
    BY <2>1
  <2> QED BY <2>1, <2>2 DEF Locates
<1>3. \A s : AllKnown(s, known) => AllKnown(s, more)
  BY <1>1 DEF AllKnown
<1>4. \A s : AllLocate(s, known) => AllLocate(s, more)
  BY <1>2 DEF AllLocate
<1> QED BY <1>1, <1>2, <1>3, <1>4

(* What holds of the messages in the stream holds of the rest when one is   *)
(* read, and of all when one more arrives.                                  *)
LEMMA KnownMoves ==
    ASSUME NEW known, NEW s, IsSequence(s), AllKnown(s, known)
    PROVE  /\ s # <<>> => Known(Head(s).message, known) /\ AllKnown(Tail(s), known)
           /\ \A p : Known(p.message, known) => AllKnown(Append(s, p), known)
           /\ \A r : IsSequence(r) /\ AllKnown(r, known) => AllKnown(s \o r, known)
<1>1. ASSUME s # <<>>
      PROVE  Known(Head(s).message, known) /\ AllKnown(Tail(s), known)
  <2> DEFINE t == Tail(s)
  <2>1. /\ DOMAIN s = 1 .. Len(s) /\ Len(s) \in Nat /\ Len(s) >= 1
        /\ DOMAIN t = 1 .. Len(s) - 1 /\ Head(s) = s[1]
        /\ \A i \in 1 .. Len(s) - 1 : t[i] = s[i + 1]
    BY <1>1, SequenceOperations
  <2> HIDE DEF t
  <2>2. AllKnown(t, known)
    BY <2>1 DEF AllKnown
  <2> QED BY <2>1, <2>2 DEF AllKnown, t
<1>2. ASSUME NEW p, Known(p.message, known)
      PROVE  AllKnown(Append(s, p), known)
  <2> DEFINE a == Append(s, p)
  <2>1. /\ DOMAIN s = 1 .. Len(s) /\ Len(s) \in Nat
        /\ IsSequence(a) /\ Len(a) = Len(s) + 1
        /\ \A i \in 1 .. Len(s) : a[i] = s[i]
        /\ a[Len(s) + 1] = p
    BY SequenceOperations
  <2> HIDE DEF a
  <2>2. DOMAIN a = 1 .. Len(a)
    BY <2>1, SequenceOperations
  <2>3. AllKnown(a, known)
    BY <1>2, <2>1, <2>2 DEF AllKnown
  <2> QED BY <2>3 DEF a
<1>3. ASSUME NEW r, IsSequence(r), AllKnown(r, known)
      PROVE  AllKnown(s \o r, known)
  <2> DEFINE c == s \o r
  <2>1. /\ DOMAIN c = 1 .. Len(s) + Len(r) /\ Len(s) \in Nat /\ Len(r) \in Nat
        /\ DOMAIN s = 1 .. Len(s) /\ DOMAIN r = 1 .. Len(r)
        /\ \A i \in 1 .. Len(s) + Len(r) : c[i] = IF i <= Len(s) THEN s[i] ELSE r[i - Len(s)]
    BY <1>3, Concatenation
  <2> HIDE DEF c
  <2>2. ASSUME NEW i \in DOMAIN c PROVE Known(c[i].message, known)
    <3>1. CASE i <= Len(s)
      BY <2>1, <3>1 DEF AllKnown
    <3>2. CASE i > Len(s)
      <4>1. i - Len(s) \in DOMAIN r /\ c[i] = r[i - Len(s)]
        BY <2>1, <3>2
      <4> QED BY <1>3, <4>1 DEF AllKnown
    <3> QED BY <2>1, <3>1, <3>2
  <2>3. AllKnown(c, known)
    BY <2>2 DEF AllKnown
  <2> QED BY <2>3 DEF c
<1> QED BY <1>1, <1>2, <1>3

(* The peer goes on from a block that is known here.                        *)
LEMMA SharedIsKnown ==
    ASSUME NetworkAssumption, Rooted(headers), NEW b \in Block,
           NEW locator, Locates(locator, headers)
    PROVE  Sync!LastShared(locator, b) \in headers \cup {Genesis}
<1> DEFINE shared == {i \in DOMAIN locator : locator[i] # None /\ locator[i] \in Sync!Ancestors(b)}
           Least(i) == i \in shared /\ \A j \in shared : i <= j
           last == CHOOSE i : Least(i)
<1>1. Sync!LastShared(locator, b) = IF shared = {} THEN Genesis ELSE locator[last]
  BY DEF Sync!LastShared
<1>2. /\ locator \in [1 .. Len(locator) -> headers \cup {None}] /\ Len(locator) \in Nat
  BY DEF Locates
<1>3. shared \in SUBSET Nat /\ \A i \in shared : locator[i] \in headers
  BY <1>2
<1>4. ASSUME shared # {} PROVE last \in shared
  <2> HIDE DEF shared
  <2>1. \E i : Least(i)
    BY <1>3, <1>4, LeastNumber
  <2> HIDE DEF Least
  <2>2. Least(last)
    BY <2>1
  <2> QED BY <2>2 DEF Least
<1> HIDE DEF shared, last
<1> QED BY <1>1, <1>3, <1>4

(* The first elements of a sequence.                                        *)
LEMMA Prefix ==
    ASSUME NEW S, NEW w \in Seq(S), NEW k \in 0 .. Len(w)
    PROVE  /\ SubSeq(w, 1, k) \in Seq(S) /\ Len(SubSeq(w, 1, k)) = k
           /\ DOMAIN SubSeq(w, 1, k) = 1 .. k
           /\ \A i \in 1 .. k : SubSeq(w, 1, k)[i] = w[i]
  OBVIOUS

\* The headers that answer a locator.
Sent(locator, b) ==
    LET new == Sync!After(Sync!LastShared(locator, b), b)
    IN SubSeq(new, 1, IF Len(new) < MaxPerMessage THEN Len(new) ELSE MaxPerMessage)

(* Headers that answer a locator of known ones go on from them, and fewer   *)
(* than a message may hold are all there are.                               *)
LEMMA HeadersAnswered ==
    ASSUME NetworkAssumption, Rooted(headers), NEW b \in Block,
           NEW locator, Locates(locator, headers)
    PROVE  LET s == Sent(locator, b)
           IN /\ Links(s, headers)
              /\ Len(s) < MaxPerMessage =>
                   Sync!Ancestors(b) \subseteq headers \cup {Genesis} \cup {s[i] : i \in DOMAIN s}
<1> DEFINE from == Sync!LastShared(locator, b)
           new == Sync!After(from, b)
           n == IF Len(new) < MaxPerMessage THEN Len(new) ELSE MaxPerMessage
           s == Sent(locator, b)
<1>1. s = SubSeq(new, 1, n)
  BY DEF Sent
<1>2. from \in headers \cup {Genesis} /\ from \in Block /\ headers \subseteq Block
  BY SharedIsKnown DEF Rooted, NetworkAssumption
<1>3. /\ Orders(new, from, b) /\ new \in Seq(Block \ {Genesis})
  BY <1>2, AfterOrders
<1>4. Sync!Ancestors(from) \subseteq headers \cup {Genesis}
  <2>1. headers \cup {Genesis} \in SUBSET Block
    BY <1>2 DEF NetworkAssumption
  <2>2. \A x \in headers \cup {Genesis} : x # Genesis => Parent[x] \in headers \cup {Genesis}
    BY DEF Rooted
  <2> HIDE DEF from
  <2> QED BY <1>2, <2>1, <2>2, RootedHasAncestors
<1> HIDE DEF from, new
<1>5. /\ n \in Nat /\ n <= Len(new) /\ Len(new) \in Nat
      /\ n < MaxPerMessage => n = Len(new)
  BY <1>3 DEF NetworkAssumption
<1>6. /\ s \in Seq(Block \ {Genesis}) /\ Len(s) = n /\ DOMAIN s = 1 .. n
      /\ \A i \in 1 .. n : s[i] = new[i]
  <2> HIDE DEF n
  <2>1. new \in Seq(Block \ {Genesis}) /\ n \in 0 .. Len(new)
    BY <1>3, <1>5
  <2> HIDE DEF s
  <2> QED BY <1>1, <2>1, Prefix
<1> HIDE DEF n, s
<1>7. Links(s, headers)
  <2>1. ASSUME NEW i \in 1 .. n
        PROVE  Parent[s[i]] \in headers \cup {Genesis} \cup {s[j] : j \in 1 .. i - 1}
    <3>1. i \in 1 .. n /\ i \in DOMAIN new /\ s[i] = new[i] /\ \A j \in 1 .. i - 1 : s[j] = new[j]
      <4>1. n \in Nat /\ n <= Len(new) /\ Len(new) \in Nat
        BY <1>5
      <4>2. i \in 1 .. n /\ \A j \in 1 .. i - 1 : j \in 1 .. n
        BY <4>1
      <4>3. i \in DOMAIN new
        BY <1>3, <4>1
      <4> QED BY <1>6, <4>2, <4>3
    <3>2. Parent[new[i]] \in Sync!Ancestors(from) \cup {new[j] : j \in 1 .. i - 1}
      BY <1>3, <3>1 DEF Orders
    <3>3. {new[j] : j \in 1 .. i - 1} = {s[j] : j \in 1 .. i - 1}
      BY <3>1
    <3> QED BY <1>4, <3>1, <3>2, <3>3
  <2> QED BY <1>6, <2>1 DEF Links
<1>8. ASSUME Len(s) < MaxPerMessage
      PROVE  Sync!Ancestors(b) \subseteq headers \cup {Genesis} \cup {s[i] : i \in DOMAIN s}
  <2>1. n = Len(new) /\ DOMAIN s = DOMAIN new /\ \A i \in DOMAIN s : s[i] = new[i]
    <3>1. n = Len(new)
      BY <1>5, <1>6, <1>8
    <3>2. DOMAIN new = 1 .. n
      BY <1>3, <3>1
    <3> QED BY <1>6, <3>1, <3>2
  <2>2. {new[i] : i \in DOMAIN new} = Sync!Ancestors(b) \ Sync!Ancestors(from)
    BY <1>3 DEF Orders, Beyond
  <2> QED BY <1>4, <2>1, <2>2
<1> QED BY <1>7, <1>8 DEF s

(* The peer's answers say what is so.                                       *)
LEMMA AnswersAreKnown ==
    ASSUME NetworkAssumption, Rooted(headers), peerTip \in Block,
           NEW request, request.kind \in {"version", "getheaders", "getdata"},
           request.kind = "getheaders" => Locates(request.locator, headers)
    PROVE  AllKnown(Sync!Answers(request), headers)
<1> DEFINE a == Sync!Answers(request)
<1>1. ASSUME NEW m, Known(m, headers)
      PROVE  AllKnown(Sync!Framed(m), headers) /\ IsSequence(Sync!Framed(m))
  <2> DEFINE f == Sync!Framed(m)
  <2>1. IsSequence(f) /\ \A i \in DOMAIN f : f[i].message = m
    BY MessageFramed
  <2> HIDE DEF f
  <2>2. AllKnown(f, headers)
    BY <1>1, <2>1 DEF AllKnown
  <2> QED BY <2>1, <2>2 DEF f
<1>2. ASSUME NEW m, m.kind # "headers" PROVE Known(m, headers)
  BY <1>2 DEF Known
<1>3. CASE request.kind = "version"
  <2> DEFINE v == [kind |-> "version"]
             w == [kind |-> "verack"]
  <2>1. a = Sync!Framed(v) \o Sync!Framed(w)
    BY <1>3 DEF Sync!Answers
  <2>2. v.kind # "headers" /\ w.kind # "headers"
    OBVIOUS
  <2> HIDE DEF v, w, a
  <2>3. /\ AllKnown(Sync!Framed(v), headers) /\ IsSequence(Sync!Framed(v))
        /\ AllKnown(Sync!Framed(w), headers) /\ IsSequence(Sync!Framed(w))
    BY <1>1, <1>2, <2>2
  <2>4. AllKnown(a, headers)
    BY <2>1, <2>3, KnownMoves
  <2> QED BY <2>4 DEF a
<1>4. CASE request.kind = "getheaders"
  <2> DEFINE s == Sent(request.locator, peerTip)
             m == [kind |-> "headers", upTo |-> peerTip, headers |-> s]
  <2>1. a = Sync!Framed(m)
    BY <1>4 DEF Sync!Answers, Sent
  <2>2. Known(m, headers)
    <3>1. /\ Links(s, headers)
          /\ Len(s) < MaxPerMessage =>
               Sync!Ancestors(peerTip) \subseteq headers \cup {Genesis} \cup {s[i] : i \in DOMAIN s}
      BY <1>4, HeadersAnswered
    <3> HIDE DEF s
    <3> QED BY <3>1 DEF Known
  <2> HIDE DEF m, a
  <2> QED BY <1>1, <2>1, <2>2 DEF a
<1>5. CASE request.kind = "getdata"
  <2>1. PICK m : m.kind # "headers" /\ a = Sync!Framed(m)
    <3>1. CASE request.block \in Sync!Ancestors(peerTip)
      <4>1. a = Sync!Framed([kind |-> "block", block |-> request.block])
        BY <1>5, <3>1 DEF Sync!Answers
      <4> HIDE DEF a
      <4> QED BY <4>1
    <3>2. CASE request.block \notin Sync!Ancestors(peerTip)
      <4>1. a = Sync!Framed([kind |-> "notfound"])
        BY <1>5, <3>2 DEF Sync!Answers
      <4> HIDE DEF a
      <4> QED BY <4>1
    <3> QED BY <3>1, <3>2
  <2> HIDE DEF a
  <2> QED BY <1>1, <1>2, <2>1 DEF a
<1> QED BY <1>3, <1>4, <1>5

(* A request more in the queue of the peer, or one less.                    *)
LEMMA LocatesMoves ==
    ASSUME NEW known, NEW s, IsSequence(s), AllLocate(s, known)
    PROVE  /\ s # <<>> => /\ Head(s).kind = "getheaders" => Locates(Head(s).locator, known)
                          /\ AllLocate(Tail(s), known)
           /\ \A r : (r.kind = "getheaders" => Locates(r.locator, known))
                     => AllLocate(Append(s, r), known)
<1>1. ASSUME s # <<>>
      PROVE  /\ Head(s).kind = "getheaders" => Locates(Head(s).locator, known)
             /\ AllLocate(Tail(s), known)
  <2> DEFINE t == Tail(s)
  <2>1. /\ DOMAIN s = 1 .. Len(s) /\ Len(s) \in Nat /\ Len(s) >= 1
        /\ DOMAIN t = 1 .. Len(s) - 1 /\ Head(s) = s[1]
        /\ \A i \in 1 .. Len(s) - 1 : t[i] = s[i + 1]
    BY <1>1, SequenceOperations
  <2> HIDE DEF t
  <2>2. AllLocate(t, known)
    BY <2>1 DEF AllLocate
  <2> QED BY <2>1, <2>2 DEF AllLocate, t
<1>2. ASSUME NEW r, r.kind = "getheaders" => Locates(r.locator, known)
      PROVE  AllLocate(Append(s, r), known)
  <2> DEFINE a == Append(s, r)
  <2>1. /\ DOMAIN s = 1 .. Len(s) /\ Len(s) \in Nat
        /\ IsSequence(a) /\ Len(a) = Len(s) + 1
        /\ \A i \in 1 .. Len(s) : a[i] = s[i]
        /\ a[Len(s) + 1] = r
    BY SequenceOperations
  <2> HIDE DEF a
  <2>2. DOMAIN a = 1 .. Len(a)
    BY <2>1, SequenceOperations
  <2>3. AllLocate(a, known)
    BY <1>2, <2>1, <2>2 DEF AllLocate
  <2> QED BY <2>3 DEF a
<1> QED BY <1>1, <1>2

(* Nothing is known at first.                                               *)
LEMMA HeadersInitially == NetworkAssumption /\ Init => HeadersInv
<1> SUFFICES ASSUME NetworkAssumption, Init PROVE HeadersInv
  OBVIOUS
<1>1. /\ headers = {} /\ tip = None /\ height = 0 /\ peerTip \in Block
      /\ stream = <<>> /\ wire = <<>> /\ requests = <<>>
      /\ task.at = "closed" /\ task.operation = "none"
  BY DEF Init, Sync!Init, Sync!Init2
<1>2. ChainInv
  BY <1>1 DEF ChainInv, Rooted, TipIsLatest
<1>3. AllKnown(stream, headers) /\ AllKnown(wire, headers) /\ AllLocate(requests, headers)
  BY <1>1 DEF AllKnown, AllLocate
<1> QED BY <1>1, <1>2, <1>3 DEF HeadersInv, Downloading

(* A step that adds no header.                                              *)
LEMMA NoHeaderAdded ==
    ASSUME HeadersInv, UNCHANGED <<headers, tip, height>>, peerTip' \in Block,
           AllKnown(stream', headers), AllKnown(wire', headers), AllLocate(requests', headers),
           task'.at \in {"payload", "received"} => Known(task'.message, headers),
           Downloading'
    PROVE  HeadersInv'
<1>1. ChainInv'
  BY DEF HeadersInv, ChainInv
<1> QED BY <1>1 DEF HeadersInv

(* Only the task goes on.                                                   *)
LEMMA OnlyTaskMoves ==
    ASSUME HeadersInv, TaskTyped,
           UNCHANGED <<stream, wire, requests, headers, tip, height, peerTip>>,
           task.at \notin {"idle", "closed"},
           NEW at, task' = [task EXCEPT !.at = at], at # "payload",
           at = "received" => task.at \in {"payload", "received"}
    PROVE  HeadersInv'
<1>1. task'.at = at /\ task'.message = task.message /\ task'.operation = task.operation
  BY DEF TaskTyped
<1>2. task.operation = "headers" => task'.complete = task.complete
  BY DEF TaskTyped, Requesting
<1>3. Downloading'
  BY <1>1, <1>2 DEF HeadersInv, Downloading
<1> QED BY <1>1, <1>3, NoHeaderAdded DEF HeadersInv

(* A task that downloads no headers has no say in them.                     *)
LEMMA OtherTaskMoves ==
    ASSUME HeadersInv,
           UNCHANGED <<headers, tip, height, peerTip>>,
           AllKnown(stream', headers), AllKnown(wire', headers), AllLocate(requests', headers),
           task'.at \notin {"payload", "received"},
           task'.operation # "headers" \/ task'.at = "closed"
    PROVE  HeadersInv'
<1>1. Downloading'
  BY DEF Downloading
<1> QED BY <1>1, NoHeaderAdded DEF HeadersInv

(* The connection reads, waits, opens and closes.                           *)
LEMMA ConnectionKeepsHeaders ==
    SyncInv /\ HeadersInv /\ (Sync!Step \/ Sync!Begin) /\ UNCHANGED syncVars => HeadersInv'
<1> SUFFICES ASSUME SyncInv, HeadersInv, Sync!Step \/ Sync!Begin, UNCHANGED syncVars
             PROVE  HeadersInv'
  OBVIOUS
<1>1. /\ IsSequence(stream) /\ IsSequence(wire) /\ IsSequence(requests) /\ TaskTyped
  BY DEF SyncInv, Sequences
<1>2. UNCHANGED <<headers, tip, height, peerTip>>
  BY DEF syncVars
<1>3. /\ AllKnown(stream, headers) /\ AllKnown(wire, headers) /\ AllLocate(requests, headers)
      /\ peerTip \in Block
  BY DEF HeadersInv
<1>4. CASE Sync!ReadHeader
  <2> DEFINE part == Head(stream)
  <2>1. /\ stream # <<>> /\ stream' = Tail(stream) /\ UNCHANGED <<wire, requests>>
        /\ task.at = "header"
        /\ \E at \in {"received", "payload"} :
             task' = [task EXCEPT !.message = part.message, !.at = at]
    BY <1>4 DEF Sync!ReadHeader
  <2>2. Known(part.message, headers) /\ AllKnown(stream', headers)
    BY <1>1, <1>3, <2>1, KnownMoves
  <2> HIDE DEF part
  <2>3. /\ task'.at \in {"received", "payload"} /\ task'.operation = task.operation
        /\ task'.message = part.message
        /\ task.operation = "headers" => task'.complete = task.complete
    BY <1>1, <2>1 DEF TaskTyped, Requesting
  <2>4. Downloading'
    BY <2>1, <2>3 DEF HeadersInv, Downloading
  <2> QED BY <1>2, <1>3, <2>1, <2>2, <2>3, <2>4, NoHeaderAdded
<1>5. CASE Sync!ReadPayload
  <2>1. /\ stream # <<>> /\ stream' = Tail(stream) /\ UNCHANGED <<wire, requests>>
        /\ task.at = "payload"
        /\ \E at \in {"header", "received"} : task' = [task EXCEPT !.at = at]
    BY <1>5 DEF Sync!ReadPayload
  <2>2. AllKnown(stream', headers)
    BY <1>1, <1>3, <2>1, KnownMoves
  <2>3. /\ task'.at \in {"header", "received"} /\ task'.operation = task.operation
        /\ task'.message = task.message
        /\ task.operation = "headers" => task'.complete = task.complete
    BY <1>1, <2>1 DEF TaskTyped, Requesting
  <2>4. Downloading' /\ Known(task.message, headers)
    BY <2>1, <2>3 DEF HeadersInv, Downloading
  <2> QED BY <1>2, <1>3, <2>1, <2>2, <2>3, <2>4, NoHeaderAdded
<1>6. CASE Sync!Timeout
  <2>1. /\ UNCHANGED <<stream, wire, requests>> /\ task.at \in {"header", "payload"}
        /\ task' = [task EXCEPT !.at = "timeout"]
    BY <1>6 DEF Sync!Timeout
  <2> QED BY <1>1, <1>2, <2>1, OnlyTaskMoves
<1>7. CASE Sync!Handshake
  <2>1. /\ UNCHANGED <<stream, wire, requests>>
        /\ task.operation \in {"version", "verack"}
        /\ \/ task' = [task EXCEPT !.at = "header", !.operation = "verack"]
           \/ \E at \in {"raised", "idle"} : task' = [task EXCEPT !.at = at]
    BY <1>7 DEF Sync!Handshake, Sync!Receiving
  <2>2. task'.at \in {"header", "raised", "idle"} /\ task'.operation \in {"version", "verack"}
    BY <1>1, <2>1 DEF TaskTyped
  <2> QED BY <1>2, <1>3, <2>1, <2>2, OtherTaskMoves
<1>8. CASE Sync!Dispatch
  <2>1. /\ UNCHANGED <<stream, wire, requests>> /\ task.at = "received"
        /\ task' = [task EXCEPT !.at = "header"]
    BY <1>8 DEF Sync!Dispatch, Sync!Receiving
  <2> QED BY <1>1, <1>2, <2>1, OnlyTaskMoves
<1>9. CASE Sync!GiveUp
  <2>1. /\ UNCHANGED <<stream, wire, requests>> /\ task.at \in {"timeout", "raised"}
        /\ \E at \in {"raised", "idle"} : task' = [task EXCEPT !.at = at]
    BY <1>9 DEF Sync!GiveUp
  <2> QED BY <1>1, <1>2, <2>1, OnlyTaskMoves
<1>10. CASE Sync!Arrive
  <2>1. /\ wire # <<>> /\ stream' = Append(stream, Head(wire)) /\ wire' = Tail(wire)
        /\ UNCHANGED <<task, requests>>
    BY <1>10 DEF Sync!Arrive
  <2>2. Known(Head(wire).message, headers) /\ AllKnown(wire', headers)
    BY <1>1, <1>3, <2>1, KnownMoves
  <2>3. AllKnown(stream', headers)
    BY <1>1, <1>3, <2>1, <2>2, KnownMoves
  <2>4. Downloading'
    BY <1>2, <2>1 DEF HeadersInv, Downloading
  <2> QED BY <1>2, <1>3, <2>1, <2>2, <2>3, <2>4, NoHeaderAdded DEF HeadersInv
<1>11. CASE Sync!Connect
  <2>1. /\ stream' = <<>> /\ wire' = <<>> /\ requests' = <<[kind |-> "version"]>>
        /\ task'.at = "header" /\ task'.operation = "version"
    BY <1>11 DEF Sync!Connect
  <2>2. AllKnown(stream', headers) /\ AllKnown(wire', headers)
    BY <2>1 DEF AllKnown
  <2>3. AllLocate(requests', headers)
    BY <2>1 DEF AllLocate
  <2> QED BY <1>2, <2>1, <2>2, <2>3, OtherTaskMoves
<1>12. CASE Sync!Close
  <2>1. /\ UNCHANGED <<stream, wire, requests>> /\ task' = [task EXCEPT !.at = "closed"]
    BY <1>12 DEF Sync!Close
  <2>2. task'.at = "closed"
    BY <1>1, <2>1 DEF TaskTyped
  <2> QED BY <1>2, <1>3, <2>1, <2>2, OtherTaskMoves
<1>13. CASE Sync!Listen
  <2>1. /\ UNCHANGED <<stream, wire, requests>>
        /\ task'.at = "header" /\ task'.operation = "listen"
    BY <1>13 DEF Sync!Listen
  <2> QED BY <1>2, <1>3, <2>1, OtherTaskMoves
<1>14. CASE Sync!Misread
  <2>1. /\ stream # <<>> /\ UNCHANGED <<wire, requests>>
        /\ task.at = "header" /\ task' = [task EXCEPT !.at = "raised"]
        /\ \/ stream' = Sync!Rest(stream)
           \/ stream' = Tail(stream)
           \/ Tail(stream) # <<>> /\ stream' = Sync!Rest(Tail(stream))
    BY <1>14 DEF Sync!Misread
  <2>2. IsSequence(Tail(stream)) /\ AllKnown(Tail(stream), headers)
    BY <1>1, <1>3, <2>1, SequenceOperations, KnownMoves
  <2>3. ASSUME NEW s, IsSequence(s), s # <<>>, AllKnown(s, headers)
        PROVE  AllKnown(Sync!Rest(s), headers)
    BY <2>3, RestIsSequence DEF AllKnown
  <2>4. AllKnown(stream', headers)
    BY <1>1, <1>3, <2>1, <2>2, <2>3
  <2>5. /\ task'.at = "raised" /\ task'.operation = task.operation
        /\ task.operation = "headers" => task'.complete = task.complete
    BY <1>1, <2>1 DEF TaskTyped, Requesting
  <2>6. Downloading'
    BY <2>1, <2>5 DEF HeadersInv, Downloading
  <2> QED BY <1>2, <1>3, <2>1, <2>4, <2>5, <2>6, NoHeaderAdded
<1> QED BY <1>4, <1>5, <1>6, <1>7, <1>8, <1>9, <1>10, <1>11, <1>12, <1>13, <1>14
        DEF Sync!Step, Sync!Begin

(* The synchroniser asks for headers from those it knows, or for a block.   *)
LEMMA AskingKeepsHeaders ==
    NetworkAssumption /\ SyncInv /\ HeadersInv /\ Sync!Operate => HeadersInv'
<1> SUFFICES ASSUME NetworkAssumption, SyncInv, HeadersInv, Sync!Operate PROVE HeadersInv'
  OBVIOUS
<1>1. IsSequence(requests) /\ AllLocate(requests, headers) /\ ChainInv
      /\ AllKnown(stream, headers) /\ AllKnown(wire, headers) /\ peerTip \in Block
  BY DEF SyncInv, Sequences, HeadersInv
<1>2. ASSUME NEW m, Sync!Send(m), m.kind = "getheaders" => Locates(m.locator, headers),
             NEW kind, NEW asked, Sync!Start(kind, asked), UNCHANGED Sync!syncVars
      PROVE  HeadersInv'
  <2>1. AllLocate(requests', headers)
    BY <1>1, <1>2, LocatesMoves DEF Sync!Send
  <2>2. /\ UNCHANGED <<stream, wire, headers, tip, height, peerTip>>
        /\ task'.at = "header" /\ ~task'.complete
    BY <1>2 DEF Sync!Start, Sync!syncVars
  <2>3. Downloading'
    BY <2>2 DEF Downloading
  <2> QED BY <1>1, <2>1, <2>2, <2>3, NoHeaderAdded
<1>3. CASE Sync!DownloadHeaders
  <2> DEFINE m == [kind |-> "getheaders", locator |-> Sync!GetLocator]
  <2>1. Sync!Start("headers", None) /\ Sync!Send(m) /\ UNCHANGED Sync!syncVars
    BY <1>3 DEF Sync!DownloadHeaders
  <2>2. Locates(m.locator, headers)
    BY <1>1, LocatorLocates
  <2> HIDE DEF m
  <2> QED BY <1>2, <2>1, <2>2
<1>4. CASE Sync!DownloadBlocks
  <2> DEFINE m == [kind |-> "getdata", block |-> tip]
  <2>1. Sync!Start("blocks", None) /\ Sync!Send(m) /\ UNCHANGED Sync!syncVars /\ m.kind # "getheaders"
    BY <1>4 DEF Sync!DownloadBlocks
  <2> HIDE DEF m
  <2> QED BY <1>2, <2>1
<1>5. ASSUME NEW b \in Block, Sync!RequestBlock(b) PROVE HeadersInv'
  <2> DEFINE m == [kind |-> "getdata", block |-> b]
  <2>1. Sync!Start("block", b) /\ Sync!Send(m) /\ UNCHANGED Sync!syncVars /\ m.kind # "getheaders"
    BY <1>5 DEF Sync!RequestBlock
  <2> HIDE DEF m
  <2> QED BY <1>2, <2>1
<1> QED BY <1>3, <1>4, <1>5 DEF Sync!Operate

(* Headers taken go on from those known, up to the peer's block when the    *)
(* message is not full.                                                     *)
LEMMA TakingKeepsHeaders ==
    NetworkAssumption /\ SyncInv /\ HeadersInv /\ Sync!TakeHeaders => HeadersInv'
<1> SUFFICES ASSUME NetworkAssumption, SyncInv, HeadersInv, Sync!TakeHeaders PROVE HeadersInv'
  OBVIOUS
<1> DEFINE new == task.message.headers
           chain == Sync!AddHeaders(new)
           short == Sync!Short(new)
<1>1. /\ UNCHANGED <<wire, stream, peerTip>>
      /\ task.at = "received" /\ task.operation = "headers"
  BY DEF Sync!TakeHeaders
<1>2. /\ IsSequence(requests) /\ AllLocate(requests, headers) /\ ChainInv
      /\ AllKnown(stream, headers) /\ AllKnown(wire, headers) /\ peerTip \in Block
      /\ TaskTyped /\ Known(task.message, headers) /\ ~task.complete
  BY <1>1 DEF SyncInv, Sequences, HeadersInv, Downloading
<1>3. /\ task = [k \in DOMAIN task |-> task[k]]
      /\ DOMAIN task = {"at", "operation", "message", "clean", "asked", "round", "got", "complete"}
  BY <1>1, <1>2 DEF TaskTyped, Requesting
<1>4. CASE task.message.kind # "headers"
  <2>1. /\ task' = [task EXCEPT !.at = "idle"] /\ UNCHANGED <<headers, tip, height, requests>>
    BY <1>4 DEF Sync!TakeHeaders, Sync!Finish
  <2> QED BY <1>1, <1>2, <2>1, OnlyTaskMoves
<1>5. CASE task.message.kind = "headers"
  <2>1. headers' = chain.headers /\ tip' = chain.tip /\ height' = chain.height
    BY <1>5 DEF Sync!TakeHeaders
  <2>2. Links(new, headers)
    BY <1>2, <1>5 DEF Known
  <2>3. /\ chain.headers = headers \cup {new[i] : i \in DOMAIN new}
        /\ Rooted(chain.headers) /\ TipIsLatest(chain.headers, chain.tip)
        /\ chain.height \in Nat
    BY <1>2, <2>2, AddHeadersKeeps
  <2> HIDE DEF chain
  <2>4. ChainInv' /\ headers \subseteq headers'
    BY <2>1, <2>3 DEF ChainInv
  <2>5. AllKnown(stream, headers') /\ AllKnown(wire, headers') /\ AllLocate(requests, headers')
    BY <1>2, <2>4, KnownGrows
  <2>6. CASE \E got : task' = [task EXCEPT !.at = "idle", !.got = got, !.complete = short] /\ requests' = requests
    <3>1. task'.at = "idle" /\ task'.complete = short /\ task'.message = task.message
      BY <1>3, <2>6
    <3>2. ASSUME short
          PROVE  /\ task.message.upTo \in Block
                 /\ Sync!Ancestors(task.message.upTo) \subseteq headers' \cup {Genesis}
      BY <1>2, <1>5, <2>1, <2>3, <3>2 DEF Known, Sync!Short
    <3>3. Downloading'
      BY <3>1, <3>2 DEF Downloading
    <3> QED BY <1>1, <1>2, <2>4, <2>5, <2>6, <3>1, <3>3 DEF HeadersInv
  <2>7. CASE /\ \E got : task' = [task EXCEPT !.at = "header", !.got = got]
             /\ Sync!Send([kind |-> "getheaders", locator |-> <<new[Len(new)]>>]) /\ ~short
    <3>1. task'.at = "header" /\ task'.complete = task.complete
      BY <1>3, <2>7
    <3> DEFINE m == [kind |-> "getheaders", locator |-> <<new[Len(new)]>>]
    <3>2. Locates(m.locator, headers')
      <4>1. new \in Seq(Block \ {Genesis}) /\ ~(Len(new) < MaxPerMessage)
        BY <2>2, <2>7 DEF Links, Sync!Short
      <4>2. Len(new) \in DOMAIN new
        <5> HIDE DEF new
        <5> QED BY <4>1 DEF NetworkAssumption
      <4> DEFINE last == new[Len(new)]
      <4>3. last \in headers'
        BY <2>1, <2>3, <4>2
      <4> HIDE DEF last
      <4>4. <<last>> \in Seq(headers' \cup {None})
        BY <4>3
      <4> QED BY <4>4 DEF Locates, last
    <3>3. requests' = Append(requests, m)
      BY <2>7 DEF Sync!Send
    <3> HIDE DEF m
    <3>4. AllLocate(requests', headers')
      BY <1>2, <2>5, <3>2, <3>3, LocatesMoves
    <3>5. Downloading'
      BY <1>2, <3>1 DEF Downloading
    <3> QED BY <1>1, <1>2, <2>4, <2>5, <3>1, <3>4, <3>5 DEF HeadersInv
  <2>8. CASE short \/ task.got + Len(new) >= MaxHeaders
    <3>1. \E got : task' = [task EXCEPT !.at = "idle", !.got = got, !.complete = short] /\ requests' = requests
      BY <1>5, <2>8 DEF Sync!TakeHeaders, Sync!Finish
    <3> QED BY <2>6, <3>1
  <2>9. CASE ~(short \/ task.got + Len(new) >= MaxHeaders)
    <3>1. /\ \E got : task' = [task EXCEPT !.at = "header", !.got = got]
          /\ Sync!Send([kind |-> "getheaders", locator |-> <<new[Len(new)]>>]) /\ ~short
      BY <1>5, <2>9 DEF Sync!TakeHeaders, Sync!Receiving
    <3> QED BY <2>7, <3>1
  <2> QED BY <2>8, <2>9
<1> QED BY <1>4, <1>5

(* Blocks, and a timeout, add no header.                                    *)
LEMMA BlocksKeepHeaders ==
    SyncInv /\ HeadersInv /\ (Sync!TakeBlock \/ Sync!TakeBlocks \/ Sync!HeadersTimeout)
    => HeadersInv'
<1> SUFFICES ASSUME SyncInv, HeadersInv, Sync!TakeBlock \/ Sync!TakeBlocks \/ Sync!HeadersTimeout
             PROVE  HeadersInv'
  OBVIOUS
<1>1. /\ IsSequence(requests) /\ AllLocate(requests, headers) /\ TaskTyped
      /\ AllKnown(stream, headers) /\ AllKnown(wire, headers) /\ peerTip \in Block
  BY DEF SyncInv, Sequences, HeadersInv
<1>2. CASE Sync!TakeBlock
  <2>1. /\ UNCHANGED <<wire, stream, requests, headers, tip, height, peerTip>>
        /\ task.at \in {"received", "timeout"} /\ task' = [task EXCEPT !.at = "idle"]
    BY <1>2 DEF Sync!TakeBlock, Sync!Finish, Sync!connVars
  <2> QED BY <1>1, <2>1, OnlyTaskMoves
<1>3. CASE Sync!TakeBlocks
  <2>1. /\ UNCHANGED <<wire, stream, headers, tip, height, peerTip>>
        /\ task.operation = "blocks"
        /\ requests' = requests \/ \E b : Sync!Send([kind |-> "getdata", block |-> b])
        /\ \/ task' = [task EXCEPT !.at = "idle"]
           \/ task' = [task EXCEPT !.at = "header", !.round = @ + 1, !.asked = None]
           \/ \E b : task' = [task EXCEPT !.at = "header", !.asked = b, !.clean = ~Sync!Outstanding]
    BY <1>3 DEF Sync!TakeBlocks, Sync!Finish, Sync!Receiving
  <2>2. task'.at \in {"idle", "header"} /\ task'.operation = "blocks"
    BY <1>1, <2>1 DEF TaskTyped, Requesting
  <2>3. AllLocate(requests', headers)
    <3>1. CASE requests' = requests
      BY <1>1, <3>1
    <3>2. CASE \E b : Sync!Send([kind |-> "getdata", block |-> b])
      <4>1. \E m : m.kind # "getheaders" /\ requests' = Append(requests, m)
        BY <3>2 DEF Sync!Send
      <4> QED BY <1>1, <4>1, LocatesMoves
    <3> QED BY <2>1, <3>1, <3>2
  <2> QED BY <1>1, <2>1, <2>2, <2>3, OtherTaskMoves
<1>4. CASE Sync!HeadersTimeout
  <2>1. /\ UNCHANGED <<wire, stream, requests, headers, tip, height, peerTip>>
        /\ task.at = "timeout" /\ task' = [task EXCEPT !.at = "idle"]
    BY <1>4 DEF Sync!HeadersTimeout, Sync!Finish, Sync!connVars, Sync!syncVars
  <2> QED BY <1>1, <2>1, OnlyTaskMoves
<1> QED BY <1>2, <1>3, <1>4

(* The peer answers from its chain, has another, and says what it likes.    *)
LEMMA PeerKeepsHeaders ==
    NetworkAssumption /\ SyncInv /\ HeadersInv /\ Sync!Peer => HeadersInv'
<1> SUFFICES ASSUME NetworkAssumption, SyncInv, HeadersInv, Sync!Peer PROVE HeadersInv'
  OBVIOUS
<1>1. /\ IsSequence(requests) /\ AllLocate(requests, headers) /\ IsSequence(wire)
      /\ AllKnown(stream, headers) /\ AllKnown(wire, headers) /\ peerTip \in Block
      /\ Rooted(headers)
      /\ task.at \in {"payload", "received"} => Known(task.message, headers)
  BY DEF SyncInv, Sequences, HeadersInv, ChainInv
<1>2. ASSUME UNCHANGED <<task, headers>> PROVE Downloading'
  BY <1>2 DEF HeadersInv, Downloading
<1>3. CASE Sync!PeerAnswers
  <2>1. /\ requests # <<>> /\ requests' = Tail(requests)
        /\ wire' = wire \o Sync!Answers(Head(requests))
        /\ UNCHANGED <<task, stream, headers, tip, height, peerTip>>
    BY <1>3 DEF Sync!PeerAnswers, Sync!syncVars
  <2> DEFINE request == Head(requests)
  <2>2. /\ AllLocate(requests', headers)
        /\ request.kind = "getheaders" => Locates(request.locator, headers)
    BY <1>1, <2>1, LocatesMoves
  <2>3. request.kind \in {"version", "getheaders", "getdata"}
    <3>1. 1 \in DOMAIN requests /\ Head(requests) = requests[1]
      BY <1>1, <2>1, SequenceOperations
    <3> QED BY <3>1 DEF SyncInv, Asking
  <2> DEFINE a == Sync!Answers(request)
  <2>4. AllKnown(a, headers) /\ IsSequence(a)
    BY <1>1, <2>2, <2>3, AnswersAreKnown, AnswerFramed
  <2>5. wire' = wire \o a
    BY <2>1
  <2> HIDE DEF request, a
  <2>6. AllKnown(wire', headers)
    BY <1>1, <2>4, <2>5, KnownMoves
  <2> QED BY <1>1, <1>2, <2>1, <2>2, <2>6, NoHeaderAdded
<1>4. CASE Sync!PeerMoves
  <2>1. UNCHANGED <<task, stream, wire, requests, headers, tip, height>> /\ peerTip' \in Block
    BY <1>4 DEF Sync!PeerMoves, Sync!connVars
  <2> QED BY <1>1, <1>2, <2>1, NoHeaderAdded
<1>5. CASE Sync!PeerSpeaks
  <2>1. /\ UNCHANGED <<task, stream, requests, headers, tip, height, peerTip>>
        /\ \E p : p.kind # "headers" /\ wire' = wire \o Sync!Framed(p)
    BY <1>5 DEF Sync!PeerSpeaks, Sync!syncVars
  <2>2. PICK p : p.kind # "headers" /\ wire' = wire \o Sync!Framed(p)
    BY <2>1
  <2> DEFINE f == Sync!Framed(p)
  <2>3. IsSequence(f) /\ \A i \in DOMAIN f : f[i].message = p
    BY MessageFramed
  <2>4. wire' = wire \o f
    BY <2>2
  <2> HIDE DEF f
  <2>5. AllKnown(f, headers)
    BY <2>2, <2>3 DEF AllKnown, Known
  <2>6. AllKnown(wire', headers)
    BY <1>1, <2>3, <2>4, <2>5, KnownMoves
  <2> QED BY <1>1, <1>2, <2>1, <2>6, NoHeaderAdded
<1> QED BY <1>3, <1>4, <1>5 DEF Sync!Peer

(* The strengthened invariant holds in every reachable state.               *)
LEMMA HeadersInductive == Spec => []HeadersInv
<1>1. Init => HeadersInv
  BY HeadersInitially, NetworkAssumption
<1>2. SyncInv /\ HeadersInv /\ [Next]_vars => HeadersInv'
  <2> SUFFICES ASSUME SyncInv, HeadersInv, [Next]_vars PROVE HeadersInv'
    OBVIOUS
  <2>1. ASSUME UNCHANGED <<task, wire, stream, requests, headers, tip, height, peerTip>>
        PROVE  HeadersInv'
    <3>1. Downloading'
      BY <2>1 DEF HeadersInv, Downloading
    <3> QED BY <2>1, <3>1, NoHeaderAdded DEF HeadersInv
  <2>2. CASE OnConnection
    BY <2>2, ConnectionKeepsHeaders DEF OnConnection
  <2>3. CASE OnSync
    <3>1. Sync!Operate \/ Sync!Take \/ Sync!Peer
      BY <2>3 DEF OnSync
    <3> QED BY <3>1, NetworkAssumption, AskingKeepsHeaders, TakingKeepsHeaders, BlocksKeepHeaders,
               PeerKeepsHeaders DEF Sync!Take
  <2>4. CASE OnPeers \/ UNCHANGED vars
    BY <2>1, <2>4 DEF OnPeers, vars, syncVars
  <2> QED BY <2>2, <2>3, <2>4 DEF Next
<1> QED BY <1>1, <1>2, SyncInductive, PTL DEF Spec

(* However the peer's chain changes while headers are asked for and sent,    *)
(* whatever is announced in between, and whether the answer is to this      *)
(* request or the late one to another: a download of headers that ended     *)
(* with a short answer has the whole chain the peer had and a tip that no   *)
(* header known is later than, which is the peer's unless another is as     *)
(* late.                                                                    *)
THEOREM HeadersReachTip == Spec => []SyncReachesTip
<1>1. HeadersInv => SyncReachesTip
  <2> SUFFICES ASSUME HeadersInv, task.at = "idle", task.operation = "headers", task.complete
               PROVE  LET upTo == task.message.upTo
                      IN /\ Sync!Ancestors(upTo) \ {Genesis} \subseteq headers
                         /\ \A b \in headers : Time[b] <= Time[tip]
                         /\ \/ upTo = Genesis \/ tip = upTo
                            \/ \E b \in headers \ {upTo} : Time[b] >= Time[upTo]
    BY DEF SyncReachesTip, Sync!SyncReachesTip
  <2> DEFINE upTo == task.message.upTo
  <2>1. upTo \in Block /\ Sync!Ancestors(upTo) \subseteq headers \cup {Genesis}
    BY DEF HeadersInv, Downloading
  <2>2. upTo \in Sync!Ancestors(upTo)
    BY <2>1, NetworkAssumption, AncestorsChain
  <2> HIDE DEF upTo
  <2>3. ASSUME upTo # Genesis, tip # upTo
        PROVE  tip \in headers \ {upTo} /\ Time[tip] >= Time[upTo]
    <3>1. upTo \in headers
      BY <2>1, <2>2, <2>3
    <3>2. tip \in headers /\ Time[upTo] <= Time[tip]
      BY <3>1 DEF HeadersInv, ChainInv, TipIsLatest
    <3>3. Time[tip] \in Nat /\ Time[upTo] \in Nat
      BY <2>1, <3>2, NetworkAssumption DEF NetworkAssumption, HeadersInv, ChainInv, Rooted
    <3> QED BY <2>3, <3>2, <3>3
  <2>4. \A b \in headers : Time[b] <= Time[tip]
    BY DEF HeadersInv, ChainInv, TipIsLatest
  <2> QED BY <2>1, <2>3, <2>4 DEF upTo
<1> QED BY <1>1, HeadersInductive, PTL
=============================================================================
