-------------------------- MODULE BlockServiceProofs --------------------------
(***************************************************************************)
(* Theorems about BlockService, for any tree of blocks, any threads and    *)
(* any use of the service.                                                 *)
(***************************************************************************)
EXTENDS BlockService, TLAPS

Polls == {"update_tip", "get_tip"}

Op == Polls \cup {"none", "get_header", "verify_chain", "get_block", "clear_cache"}

\* From the node's answer to getbestblockhash until the tip is set.
Fetching == {"hash", "fetch", "storeHash", "storeHeight", "setTip"}

Telling == {"newBlock", "reorg"}

Pc == Fetching \cup Telling \cup
        {"idle", "height", "hashAt", "best", "invalidate", "clearHeaders", "clearBlocks",
         "verify", "true", "getBlock", "storeBlock"}

Maybe == Block \cup {None}

Frame == [op : Op, pc : Pc, hash : Maybe, old : Maybe, got : Maybe, want : Int,
          left : Int, header : Maybe, seen : Seq(Block)]

\* Which operation can be where, and what it has found there: a lookup by height
\* looks for a block of that height, and finds no other.
Local(f) ==
    /\ f.pc \in {"height", "hashAt"} => f.op \in {"get_header", "verify_chain"}
    /\ f.pc \in Fetching \ {"setTip"} =>
         /\ f.op \in Polls \cup {"get_header", "verify_chain"}
         /\ f.hash \in Block
         /\ f.op \notin Polls => Height[f.hash] = f.want
    /\ f.pc = "setTip" => f.op \in Polls /\ f.got \in Block
    /\ f.pc \in Telling => f.op = "update_tip" /\ f.got \in Block
    /\ f.pc = "verify" => f.op = "verify_chain" /\ (f.got # None => Height[f.got] = f.want)
    /\ f.pc = "best" => f.op \in Polls

NodeTyped == best \in Block /\ tip \in Maybe

Frames ==
    /\ frame \in [Thread -> Frame]
    /\ \A t \in Thread : Local(frame[t])
    /\ \A t \in Thread : frame[t].op \in Polls => frame[t].op \in runs.calls[t]

Entries ==
    /\ DOMAIN headers \subseteq HeaderKey
    /\ \A b \in Block : ByHash(b) \in DOMAIN headers => headers[ByHash(b)] = b
    /\ \A h \in ChainHeights : ByHeight(h) \in DOMAIN headers =>
         headers[ByHeight(h)] \in Block /\ Height[headers[ByHeight(h)]] = h

\* An event of growth went to the new-block callbacks too.
GrowthTold == Height[reorg.new] > Height[reorg.old] => newBlock = reorg.new

\* What the polling thread knows of the tip, and of what its listeners know.
Followed ==
    OnePoller =>
        /\ reorg # None => tip # None
        /\ (\A t \in Thread : ~ InTipChange(t)) /\ reorg # None => reorg.new = tip /\ GrowthTold
        /\ \A t \in Thread : LET f == frame[t] IN
             /\ f.op = "get_tip" => tip = None
             /\ f.op \in Polls /\ f.pc \in Fetching => f.old = tip
             /\ f.pc \in Telling =>
                  /\ tip = f.got
                  /\ reorg # None => f.old # None /\ reorg.new = f.old
             /\ f.pc = "newBlock" /\ reorg # None => GrowthTold
             /\ f.pc = "reorg" =>
                  /\ f.old # None /\ Height[f.got] > Height[f.old] => newBlock = f.got
                  /\ f.got = f.old /\ reorg # None => GrowthTold

IInv == NodeTyped /\ Frames /\ Entries /\ Followed

-----------------------------------------------------------------------------

(* The polling operations are called by one thread, if there is one poller. *)
LEMMA PollsAlone ==
    ASSUME Frames, OnePoller, NEW t \in Thread, NEW u \in Thread,
           frame[t].op \in Polls, frame[u].op \in Polls
    PROVE  t = u
BY DEF Frames, OnePoller, Poller, Polls

(* A step of a thread that is not telling callbacks of a tip, and that does *)
(* not move the tip.                                                        *)
LEMMA StepKeeps ==
    ASSUME IInv, NEW t \in Thread, NEW f \in Frame,
           frame' = [frame EXCEPT ![t] = f], Local(f), NodeTyped', Entries',
           UNCHANGED <<runs, tip, newBlock, reorg>>,
           ~ InTipChange(t), f.pc \notin Telling,
           f.op \in Polls => f.op \in runs.calls[t],
           f.op = "get_tip" /\ OnePoller => tip = None,
           f.op \in Polls /\ f.pc \in Fetching /\ OnePoller => f.old = tip
    PROVE  IInv'
<1> USE DEF IInv
<1>1. \A u \in Thread : frame'[u] = IF u = t THEN f ELSE frame[u]
  BY DEF Frames
<1>2. Frames'
  BY <1>1 DEF Frames
<1>3. (\A u \in Thread : ~ InTipChange(u)) <=> (\A u \in Thread : ~ InTipChange(u)')
  BY <1>1 DEF InTipChange, At, Telling
<1>4. ASSUME OnePoller' PROVE OnePoller
  BY <1>4 DEF OnePoller, Poller
<1>5. ASSUME OnePoller, \A u \in Thread : ~ InTipChange(u), reorg # None
      PROVE  reorg.new = tip /\ GrowthTold
  BY <1>5 DEF Followed
<1>6. ASSUME OnePoller, NEW u \in Thread
      PROVE  LET g == frame'[u] IN
             /\ g.op = "get_tip" => tip = None
             /\ g.op \in Polls /\ g.pc \in Fetching => g.old = tip
             /\ g.pc \in Telling =>
                  /\ tip = g.got
                  /\ reorg # None => g.old # None /\ reorg.new = g.old
             /\ g.pc = "newBlock" /\ reorg # None => GrowthTold
             /\ g.pc = "reorg" =>
                  /\ g.old # None /\ Height[g.got] > Height[g.old] => newBlock = g.got
                  /\ g.got = g.old /\ reorg # None => GrowthTold
  <2>1. CASE u = t
    BY <1>1, <1>6, <2>1 DEF Telling
  <2>2. CASE u # t
    BY <1>1, <1>6, <2>2 DEF Followed
  <2> QED BY <2>1, <2>2
<1>7. OnePoller => (reorg # None => tip # None)
  BY DEF Followed
<1>8. GrowthTold' = GrowthTold
  BY DEF GrowthTold
<1>9. Followed'
  BY <1>3, <1>4, <1>5, <1>6, <1>7, <1>8 DEF Followed
<1> QED BY <1>2, <1>9

(* A thread goes on with its locals as they are.                            *)
LEMMA GotoKeeps ==
    ASSUME IInv, NEW t \in Thread, NEW pc \in Pc, Goto(t, pc), NodeTyped', Entries',
           Local([frame[t] EXCEPT !.pc = pc]),
           UNCHANGED <<runs, tip, newBlock, reorg>>,
           ~ InTipChange(t), pc \notin Telling,
           pc \in Fetching /\ frame[t].op \in Polls => frame[t].pc \in Fetching
    PROVE  IInv'
<1> DEFINE f == [frame[t] EXCEPT !.pc = pc]
<1>1. frame[t] \in Frame
  BY DEF IInv, Frames
<1>2. f \in Frame /\ f.pc = pc /\ f.op = frame[t].op /\ f.old = frame[t].old
  BY <1>1 DEF Frame
<1>3. frame' = [frame EXCEPT ![t] = f] /\ Local(f)
  BY DEF Goto
<1> HIDE DEF f
<1> QED BY <1>2, <1>3, StepKeeps DEF IInv, Frames, Followed

(* The frame of a thread that is in no operation.                           *)
LEMMA IdleTyped == Idle \in Frame /\ Local(Idle) /\ Idle.pc = "idle" /\ Idle.op = "none"
BY DEF Idle, Frame, Local, Op, Pc, Polls, Fetching, Telling, Maybe

(* An operation ends.                                                       *)
LEMMA ReturnKeeps ==
    ASSUME IInv, NEW t \in Thread, Return(t), NodeTyped', Entries',
           UNCHANGED <<runs, tip, newBlock, reorg>>, ~ InTipChange(t)
    PROVE  IInv'
<1>2. Idle.pc \notin Telling \cup Fetching /\ Idle.op \notin Polls /\ Idle.op # "get_tip"
  BY IdleTyped DEF Telling, Fetching, Polls
<1>3. frame' = [frame EXCEPT ![t] = Idle]
  BY DEF Return
<1> QED BY IdleTyped, <1>2, <1>3, StepKeeps

(* A lookup hands its answer to the operation that asked.                   *)
LEMMA ResumeKeeps ==
    ASSUME IInv, NEW t \in Thread, NEW b \in Maybe, Resume(t, b), NodeTyped', Entries',
           UNCHANGED <<runs, tip, newBlock, reorg>>,
           frame[t].pc \in {"height", "hashAt", "hash", "fetch", "storeHeight"},
           frame[t].op = "verify_chain" /\ b # None => Height[b] = frame[t].want
    PROVE  IInv'
<1>1. frame[t] \in Frame /\ Local(frame[t]) /\ ~ InTipChange(t)
  BY DEF IInv, Frames, InTipChange, At
<1>2. CASE frame[t].op = "verify_chain"
  <2> DEFINE f == [frame[t] EXCEPT !.pc = "verify", !.got = b]
  <2>1. f \in Frame /\ f.pc = "verify" /\ f.op = "verify_chain" /\ f.got = b /\ f.want = frame[t].want
    BY <1>1, <1>2 DEF Frame, Pc
  <2>2. frame' = [frame EXCEPT ![t] = f]
    BY <1>2 DEF Resume
  <2> HIDE DEF f
  <2>3. Local(f) /\ f.pc \notin Telling /\ f.op \notin Polls /\ f.op # "get_tip"
    BY <1>2, <2>1 DEF Local, Polls, Fetching, Telling
  <2> QED BY <1>1, <2>1, <2>2, <2>3, StepKeeps
<1>3. CASE frame[t].op \in Polls /\ b # None
  <2> DEFINE f == [frame[t] EXCEPT !.pc = "setTip", !.got = b]
  <2>1. f \in Frame /\ f.pc = "setTip" /\ f.op = frame[t].op /\ f.got = b /\ f.old = frame[t].old
    BY <1>1, <1>3 DEF Frame, Pc, Fetching
  <2>2. frame' = [frame EXCEPT ![t] = f]
    BY <1>3 DEF Resume, Polls
  <2> HIDE DEF f
  <2>3. Local(f) /\ f.pc \notin Telling
    BY <1>3, <2>1 DEF Local, Polls, Fetching, Telling, Maybe
  <2>4. frame[t].pc \in Fetching
    BY <1>1, <1>3 DEF Local, Polls, Fetching
  <2> QED BY <1>1, <1>3, <2>1, <2>2, <2>3, <2>4, StepKeeps DEF IInv, Frames, Followed
<1>4. CASE frame[t].op # "verify_chain" /\ ~ (frame[t].op \in Polls /\ b # None)
  <2>1. Return(t)
    BY <1>4 DEF Resume, Polls
  <2> QED BY <1>1, <2>1, ReturnKeeps
<1> QED BY <1>2, <1>3, <1>4

(* What a step leaves alone when it only works on its frame.                *)
LEMMA Untouched ==
    ASSUME IInv, UNCHANGED <<Node, Service, History>>
    PROVE  NodeTyped' /\ Entries' /\ UNCHANGED <<runs, tip, newBlock, reorg>>
BY DEF IInv, NodeTyped, Entries, Node, Service, History

(* A bounded map gains at most the entry stored.                            *)
LEMMA SetStores ==
    ASSUME NEW k, NEW v, HeaderCache!Set(k, v)
    PROVE  /\ DOMAIN headers' \subseteq DOMAIN headers \cup {k}
           /\ \A x \in DOMAIN headers' : headers'[x] = IF x = k THEN v ELSE headers[x]
BY DEF HeaderCache!Set, HeaderCache!Stored

(* An operation begins in a frame of its own.                               *)
LEMMA CallKeeps ==
    ASSUME IInv, NEW t \in Thread, NEW f \in Frame, Call(t, f.op, f), Local(f),
           f.pc \notin Telling \cup Fetching, f.op = "get_tip" => tip = None
    PROVE  IInv'
<1>1. frame' = [frame EXCEPT ![t] = f] /\ f.op \in runs.calls[t] /\ ~ InTipChange(t)
  BY DEF Call, InTipChange, At
<1>2. UNCHANGED <<Node, Service, History>>
  BY DEF Call
<1> QED BY <1>1, <1>2, Untouched, StepKeeps

(* Every operation begins outside the tip change, with an empty frame.      *)
LEMMA BeginKeeps ==
    ASSUME IInv, NEW t \in Thread, Begin(t)
    PROVE  IInv'
<1>1. CASE UpdateTip(t)
  <2> DEFINE f == Start(t, "update_tip", "best")
  <2>1. f \in Frame /\ f.op = "update_tip" /\ f.pc = "best"
    BY IdleTyped DEF Start, Frame, Op, Pc, Polls, Maybe
  <2>2. Call(t, "update_tip", f)
    BY <1>1 DEF UpdateTip
  <2> HIDE DEF f
  <2>3. Local(f) /\ f.pc \notin Telling \cup Fetching
    BY <2>1 DEF Local, Polls, Telling, Fetching
  <2> QED BY <2>1, <2>2, <2>3, CallKeeps
<1>2. CASE GetTip(t)
  <2> DEFINE f == Start(t, "get_tip", "best")
  <2>1. f \in Frame /\ f.op = "get_tip" /\ f.pc = "best"
    BY IdleTyped DEF Start, Frame, Op, Pc, Polls, Maybe
  <2>2. Call(t, "get_tip", f) /\ tip = None
    BY <1>2 DEF GetTip
  <2> HIDE DEF f
  <2>3. Local(f) /\ f.pc \notin Telling \cup Fetching
    BY <2>1 DEF Local, Polls, Telling, Fetching
  <2> QED BY <2>1, <2>2, <2>3, CallKeeps
<1>3. CASE ClearCache(t)
  <2> DEFINE f == Start(t, "clear_cache", "clearHeaders")
  <2>1. f \in Frame /\ f.op = "clear_cache" /\ f.pc = "clearHeaders"
    BY IdleTyped DEF Start, Frame, Op, Pc, Polls, Maybe
  <2>2. Call(t, "clear_cache", f)
    BY <1>3 DEF ClearCache
  <2> HIDE DEF f
  <2>3. Local(f) /\ f.pc \notin Telling \cup Fetching
    BY <2>1 DEF Local, Polls, Telling, Fetching
  <2> QED BY <2>1, <2>2, <2>3, CallKeeps
<1>4. ASSUME NEW h \in ChainHeights, GetHeader(t, h) PROVE IInv'
  <2> DEFINE f == [Start(t, "get_header", "height") EXCEPT !.want = h]
  <2>0. h \in Int
    BY TreeAssumption DEF ChainHeights
  <2>1. f \in Frame /\ f.op = "get_header" /\ f.pc = "height"
    BY <2>0, IdleTyped DEF Start, Frame, Op, Pc, Polls, Maybe
  <2>2. Call(t, "get_header", f)
    BY <1>4 DEF GetHeader
  <2> HIDE DEF f
  <2>3. Local(f) /\ f.pc \notin Telling \cup Fetching
    BY <2>1 DEF Local, Polls, Telling, Fetching
  <2> QED BY <2>1, <2>2, <2>3, CallKeeps
<1>5. ASSUME NEW h \in ChainHeights, VerifyChain(t, h, 2) PROVE IInv'
  <2> DEFINE f == [Start(t, "verify_chain", "height") EXCEPT !.want = h, !.left = 2]
  <2>0. h \in Int
    BY TreeAssumption DEF ChainHeights
  <2>1. f \in Frame /\ f.op = "verify_chain" /\ f.pc = "height"
    <3> DEFINE e == [Idle EXCEPT !.op = "verify_chain", !.pc = "height"]
    <3>1. e \in Frame /\ e.op = "verify_chain" /\ e.pc = "height"
      BY IdleTyped DEF Frame, Op, Pc
    <3>2. PICK n \in Int : n = 2
      OBVIOUS
    <3>3. f = [e EXCEPT !.want = h, !.left = n]
      BY <3>2 DEF Start
    <3> HIDE DEF e, f
    <3> QED BY <2>0, <3>1, <3>3 DEF Frame
  <2>2. Call(t, "verify_chain", f)
    BY <1>5 DEF VerifyChain
  <2> HIDE DEF f
  <2>3. Local(f) /\ f.pc \notin Telling \cup Fetching
    BY <2>1 DEF Local, Polls, Telling, Fetching
  <2> QED BY <2>1, <2>2, <2>3, CallKeeps
<1>6. ASSUME NEW b \in Block, GetBlock(t, b) PROVE IInv'
  <2> DEFINE f == [Start(t, "get_block", "getBlock") EXCEPT !.hash = b]
  <2>1. f \in Frame /\ f.op = "get_block" /\ f.pc = "getBlock"
    BY IdleTyped DEF Start, Frame, Op, Pc, Polls, Maybe
  <2>2. Call(t, "get_block", f)
    BY <1>6 DEF GetBlock
  <2> HIDE DEF f
  <2>3. Local(f) /\ f.pc \notin Telling \cup Fetching
    BY <2>1 DEF Local, Polls, Telling, Fetching
  <2> QED BY <2>1, <2>2, <2>3, CallKeeps
<1> QED BY <1>1, <1>2, <1>3, <1>4, <1>5, <1>6 DEF Begin

(* get_header(h) finds a header of height h in the cache, or asks the node. *)
LEMMA LookupHeightKeeps ==
    ASSUME IInv, NEW t \in Thread, LookupHeight(t)
    PROVE  IInv'
<1> DEFINE key == ByHeight(frame[t].want)
<1>1. frame[t] \in Frame /\ Local(frame[t]) /\ ~ InTipChange(t) /\ frame[t].pc = "height"
  BY DEF LookupHeight, At, InTipChange, IInv, Frames
<1>2. UNCHANGED <<Node, Service, History>>
  BY DEF LookupHeight
<1>3. CASE key \in DOMAIN headers
  <2>1. frame[t].want \in ChainHeights
    BY <1>3 DEF IInv, Entries, HeaderKey, ByHeight
  <2>2. headers[key] \in Maybe /\ Height[headers[key]] = frame[t].want
    BY <1>3, <2>1 DEF IInv, Entries, Maybe
  <2>3. Resume(t, headers[key])
    BY <1>3 DEF LookupHeight
  <2> QED BY <1>1, <1>2, <2>2, <2>3, Untouched, ResumeKeeps
<1>4. CASE key \notin DOMAIN headers
  <2>1. Goto(t, "hashAt") /\ "hashAt" \in Pc \ (Fetching \cup Telling)
    BY <1>4 DEF LookupHeight, Pc, Fetching, Telling
  <2>2. Local([frame[t] EXCEPT !.pc = "hashAt"])
    BY <1>1 DEF Local, Frame, Fetching, Telling
  <2> QED BY <1>1, <1>2, <2>1, <2>2, Untouched, GotoKeeps
<1> QED BY <1>3, <1>4

(* getblockhash(h) answers with a block of height h.                        *)
LEMMA GetBlockHashKeeps ==
    ASSUME IInv, NEW t \in Thread, GetBlockHash(t)
    PROVE  IInv'
<1>1. frame[t] \in Frame /\ Local(frame[t]) /\ ~ InTipChange(t) /\ frame[t].pc = "hashAt"
  BY DEF GetBlockHash, At, InTipChange, IInv, Frames
<1>2. UNCHANGED <<Node, Service, History>>
  BY DEF GetBlockHash
<1>3. CASE Resume(t, None)
  <2>1. None \in Maybe
    BY DEF Maybe
  <2> QED BY <1>1, <1>2, <1>3, <2>1, Untouched, ResumeKeeps
<1>4. ASSUME NEW b \in HashAt(frame[t].want),
             frame' = [frame EXCEPT ![t].pc = "hash", ![t].hash = b]
      PROVE  IInv'
  <2> DEFINE f == [frame[t] EXCEPT !.pc = "hash", !.hash = b]
  <2>1. b \in Block /\ Height[b] = frame[t].want
    BY DEF HashAt
  <2>2. /\ f \in Frame /\ f.pc = "hash" /\ f.op = frame[t].op /\ f.hash = b
        /\ f.want = frame[t].want
    BY <1>1, <2>1 DEF Frame, Pc, Fetching, Maybe
  <2>3. frame' = [frame EXCEPT ![t] = f]
    BY <1>4
  <2> HIDE DEF f
  <2>4. f.op \in {"get_header", "verify_chain"}
    BY <1>1, <2>2 DEF Local
  <2>5. Local(f) /\ f.op \notin Polls /\ f.op # "get_tip" /\ f.pc \notin Telling
    BY <2>1, <2>2, <2>4 DEF Local, Polls, Fetching, Telling
  <2> QED BY <1>1, <1>2, <2>2, <2>3, <2>5, Untouched, StepKeeps
<1> QED BY <1>3, <1>4 DEF GetBlockHash

(* get_header_by_hash finds the header of the block asked for.              *)
LEMMA LookupHashKeeps ==
    ASSUME IInv, NEW t \in Thread, LookupHash(t)
    PROVE  IInv'
<1> DEFINE key == ByHash(frame[t].hash)
<1>1. /\ frame[t] \in Frame /\ Local(frame[t]) /\ ~ InTipChange(t) /\ frame[t].pc = "hash"
      /\ frame[t].hash \in Block
  BY DEF LookupHash, At, InTipChange, IInv, Frames, Local, Fetching
<1>2. UNCHANGED <<Node, Service, History>>
  BY DEF LookupHash
<1>3. CASE key \in DOMAIN headers
  <2>1. headers[key] = frame[t].hash
    BY <1>1, <1>3 DEF IInv, Entries
  <2>2. headers[key] \in Maybe
    BY <1>1, <2>1 DEF Maybe
  <2>3. frame[t].op = "verify_chain" => Height[headers[key]] = frame[t].want
    BY <1>1, <2>1 DEF Local, Fetching, Polls
  <2>4. Resume(t, headers[key])
    BY <1>3 DEF LookupHash
  <2> QED BY <1>1, <1>2, <2>2, <2>3, <2>4, Untouched, ResumeKeeps
<1>4. CASE key \notin DOMAIN headers
  <2>1. Goto(t, "fetch") /\ "fetch" \in Pc /\ "fetch" \notin Telling
    BY <1>4 DEF LookupHash, Pc, Fetching, Telling
  <2>2. Local([frame[t] EXCEPT !.pc = "fetch"])
    BY <1>1 DEF Local, Frame, Fetching, Telling
  <2>3. frame[t].pc \in Fetching
    BY <1>1 DEF Fetching
  <2> QED BY <1>1, <1>2, <2>1, <2>2, <2>3, Untouched, GotoKeeps
<1> QED BY <1>3, <1>4

(* getblockheader answers for the block asked for, or raises.               *)
LEMMA GetBlockHeaderKeeps ==
    ASSUME IInv, NEW t \in Thread, GetBlockHeader(t)
    PROVE  IInv'
<1>1. frame[t] \in Frame /\ Local(frame[t]) /\ ~ InTipChange(t) /\ frame[t].pc = "fetch"
  BY DEF GetBlockHeader, At, InTipChange, IInv, Frames
<1>2. UNCHANGED <<Node, Service, History>>
  BY DEF GetBlockHeader
<1>3. CASE Resume(t, None)
  <2>1. None \in Maybe
    BY DEF Maybe
  <2> QED BY <1>1, <1>2, <1>3, <2>1, Untouched, ResumeKeeps
<1>4. CASE Goto(t, "storeHash")
  <2>1. "storeHash" \in Pc /\ "storeHash" \notin Telling
    BY DEF Pc, Fetching, Telling
  <2>2. Local([frame[t] EXCEPT !.pc = "storeHash"])
    BY <1>1 DEF Local, Frame, Fetching, Telling
  <2>3. frame[t].pc \in Fetching
    BY <1>1 DEF Fetching
  <2> QED BY <1>1, <1>2, <1>4, <2>1, <2>2, <2>3, Untouched, GotoKeeps
<1> QED BY <1>3, <1>4 DEF GetBlockHeader

(* A header is filed under its own hash.                                    *)
LEMMA StoreByHashKeeps ==
    ASSUME IInv, NEW t \in Thread, StoreByHash(t)
    PROVE  IInv'
<1>1. /\ frame[t] \in Frame /\ Local(frame[t]) /\ ~ InTipChange(t) /\ frame[t].pc = "storeHash"
      /\ frame[t].hash \in Block
  BY DEF StoreByHash, At, InTipChange, IInv, Frames, Local, Fetching
<1>2. UNCHANGED <<best, runs, tip, newBlock, reorg>>
  BY DEF StoreByHash, Node, History
<1>3. NodeTyped'
  BY <1>2 DEF IInv, NodeTyped
<1>4. Entries'
  <2>1. PICK b \in Block : b = frame[t].hash
    BY <1>1
  <2>2. HeaderCache!Set(ByHash(b), b)
    BY <2>1 DEF StoreByHash
  <2>3. /\ DOMAIN headers' \subseteq DOMAIN headers \cup {ByHash(b)}
        /\ \A x \in DOMAIN headers' : headers'[x] = IF x = ByHash(b) THEN b ELSE headers[x]
    BY <2>2, SetStores
  <2>4. ByHash(b) \in HeaderKey
    BY DEF ByHash, HeaderKey
  <2>5. /\ \A c \in Block : ByHash(c) = ByHash(b) => c = b
        /\ \A h : ByHeight(h) # ByHash(b)
    BY DEF ByHash, ByHeight
  <2> QED BY <2>3, <2>4, <2>5 DEF IInv, Entries
<1>5. Goto(t, "storeHeight") /\ "storeHeight" \in Pc /\ "storeHeight" \notin Telling
  BY DEF StoreByHash, Pc, Fetching, Telling
<1>6. Local([frame[t] EXCEPT !.pc = "storeHeight"])
  BY <1>1 DEF Local, Frame, Fetching, Telling
<1>7. frame[t].pc \in Fetching
  BY <1>1 DEF Fetching
<1> QED BY <1>1, <1>2, <1>3, <1>4, <1>5, <1>6, <1>7, GotoKeeps

(* A header is filed under its own height, whatever was asked for.          *)
LEMMA StoreByHeightKeeps ==
    ASSUME IInv, NEW t \in Thread, StoreByHeight(t)
    PROVE  IInv'
<1>1. /\ frame[t] \in Frame /\ Local(frame[t]) /\ frame[t].pc = "storeHeight"
      /\ frame[t].hash \in Block
  BY DEF StoreByHeight, At, IInv, Frames, Local, Fetching
<1>2. UNCHANGED <<best, runs, tip, newBlock, reorg>>
  BY DEF StoreByHeight, Node, History
<1>3. NodeTyped'
  BY <1>2 DEF IInv, NodeTyped
<1>4. PICK b \in Block : b = frame[t].hash
  BY <1>1
<1>5. Entries'
  <2>2. HeaderCache!Set(ByHeight(Height[b]), b)
    BY <1>4 DEF StoreByHeight
  <2>3. /\ DOMAIN headers' \subseteq DOMAIN headers \cup {ByHeight(Height[b])}
        /\ \A x \in DOMAIN headers' :
             headers'[x] = IF x = ByHeight(Height[b]) THEN b ELSE headers[x]
    BY <2>2, SetStores
  <2>4. ByHeight(Height[b]) \in HeaderKey
    BY DEF ByHeight, HeaderKey, ChainHeights
  <2>5. /\ \A h : ByHeight(h) = ByHeight(Height[b]) => h = Height[b]
        /\ \A c : ByHash(c) # ByHeight(Height[b])
    BY DEF ByHash, ByHeight
  <2> QED BY <2>3, <2>4, <2>5 DEF IInv, Entries
<1>6. b \in Maybe /\ (frame[t].op = "verify_chain" => Height[b] = frame[t].want)
  BY <1>1, <1>4 DEF Local, Fetching, Polls, Maybe
<1>7. Resume(t, b)
  BY <1>4 DEF StoreByHeight
<1> QED BY <1>1, <1>2, <1>3, <1>5, <1>6, <1>7, ResumeKeeps

(* A poll reads the tip it is going to replace.                             *)
LEMMA GetBestBlockHashKeeps ==
    ASSUME IInv, NEW t \in Thread, GetBestBlockHash(t)
    PROVE  IInv'
<1>1. /\ frame[t] \in Frame /\ Local(frame[t]) /\ ~ InTipChange(t) /\ frame[t].pc = "best"
      /\ frame[t].op \in Polls /\ best \in Block /\ tip \in Maybe
  BY DEF GetBestBlockHash, At, InTipChange, IInv, NodeTyped, Frames, Local
<1>2. UNCHANGED <<Node, Service, History>>
  BY DEF GetBestBlockHash
<1>3. CASE Return(t)
  BY <1>1, <1>2, <1>3, Untouched, ReturnKeeps
<1>4. CASE frame' = [frame EXCEPT ![t].pc = "hash", ![t].hash = best, ![t].old = tip]
  <2> DEFINE f == [frame[t] EXCEPT !.pc = "hash", !.hash = best, !.old = tip]
  <2>1. /\ f \in Frame /\ f.pc = "hash" /\ f.op = frame[t].op /\ f.hash = best
        /\ f.old = tip
    BY <1>1 DEF Frame, Pc, Fetching, Maybe
  <2>2. frame' = [frame EXCEPT ![t] = f]
    BY <1>4
  <2> HIDE DEF f
  <2>3. Local(f) /\ f.pc \notin Telling
    BY <1>1, <2>1 DEF Local, Polls, Fetching, Telling
  <2>4. f.op \in runs.calls[t] /\ (f.op = "get_tip" /\ OnePoller => tip = None)
    BY <1>1, <2>1 DEF IInv, Frames, Followed
  <2> QED BY <1>1, <1>2, <2>1, <2>2, <2>3, <2>4, Untouched, StepKeeps
<1> QED BY <1>3, <1>4 DEF GetBestBlockHash

(* The cache is emptied, and the operation goes on to the other one.        *)
LEMMA ClearHeadersKeeps ==
    ASSUME IInv, NEW t \in Thread, ClearHeaders(t)
    PROVE  IInv'
<1>1. frame[t] \in Frame /\ Local(frame[t]) /\ ~ InTipChange(t) /\ frame[t].pc = "clearHeaders"
  BY DEF ClearHeaders, At, InTipChange, IInv, Frames
<1>2. UNCHANGED <<best, runs, tip, newBlock, reorg>>
  BY DEF ClearHeaders, Node, History
<1>3. NodeTyped' /\ Entries'
  BY <1>2 DEF IInv, NodeTyped, Entries, ClearHeaders, HeaderCache!Clear, HeaderCache!Emptied
<1>4. /\ Goto(t, "clearBlocks") /\ "clearBlocks" \in Pc \ (Telling \cup Fetching)
      /\ Local([frame[t] EXCEPT !.pc = "clearBlocks"])
  BY <1>1 DEF ClearHeaders, Pc, Fetching, Telling, Local, Frame
<1> QED BY <1>1, <1>2, <1>3, <1>4, GotoKeeps

(* What else a thread does once it has told the callbacks, in clear_cache   *)
(* and in get_block touches no header.                                      *)
LEMMA OthersKeep ==
    ASSUME IInv, NEW t \in Thread,
           Invalidate(t) \/ ClearBlocks(t) \/ VerifiedTrue(t) \/ FetchBlock(t) \/ StoreBlock(t)
    PROVE  IInv'
<1>1. /\ frame[t] \in Frame /\ ~ InTipChange(t) /\ UNCHANGED <<Node, tip, headers, History>>
      /\ frame[t].pc \in {"invalidate", "clearBlocks", "true", "getBlock", "storeBlock"}
  BY DEF Invalidate, ClearBlocks, VerifiedTrue, FetchBlock, StoreBlock, At, InTipChange,
         IInv, Frames, Service
<1>2. NodeTyped' /\ Entries' /\ UNCHANGED <<runs, tip, newBlock, reorg>>
  BY <1>1 DEF IInv, NodeTyped, Entries, Node, History
<1>3. CASE Return(t)
  BY <1>1, <1>2, <1>3, ReturnKeeps
<1>4. ASSUME NEW pc \in {"clearHeaders", "storeBlock"}, Goto(t, pc) PROVE IInv'
  <2>1. pc \in Pc /\ pc \notin Telling \cup Fetching
    BY DEF Pc, Fetching, Telling
  <2>2. Local([frame[t] EXCEPT !.pc = pc])
    BY <1>1 DEF Local, Frame, Fetching, Telling
  <2> QED BY <1>1, <1>2, <1>4, <2>1, <2>2, GotoKeeps
<1> QED BY <1>3, <1>4 DEF Invalidate, ClearBlocks, VerifiedTrue, FetchBlock, StoreBlock

(* verify_chain ends, or looks up the next height.                          *)
LEMMA VerifyKeeps ==
    ASSUME IInv, NEW t \in Thread, VerifyHeader(t) \/ VerifyLink(t)
    PROVE  IInv'
<1>1. /\ frame[t] \in Frame /\ Local(frame[t]) /\ ~ InTipChange(t)
      /\ frame[t].pc = "verify" /\ frame[t].op = "verify_chain"
  BY DEF VerifyHeader, VerifyLink, At, InTipChange, IInv, Frames, Local
<1>2. UNCHANGED <<Node, Service, History>>
  BY DEF VerifyHeader, VerifyLink
<1>3. ASSUME NEW f \in Frame, frame' = [frame EXCEPT ![t] = f],
             f.op = "verify_chain", f.pc \in {"true", "height"}
      PROVE  IInv'
  <2>1. /\ Local(f) /\ f.pc \notin Telling \cup Fetching
        /\ f.op \notin Polls /\ f.op # "get_tip"
    BY <1>3 DEF Local, Polls, Fetching, Telling
  <2> QED BY <1>1, <1>2, <1>3, <2>1, Untouched, StepKeeps
<1>4. CASE Return(t)
  BY <1>1, <1>2, <1>4, Untouched, ReturnKeeps
<1>5. ASSUME NEW b \in Block, Accept(t, b) PROVE IInv'
  <2>1. PICK w \in Int, l \in Int, q \in Seq(Block), pc \in {"true", "height"} :
          /\ w = Height[b] + 1 /\ l = frame[t].left - 1 /\ q = Append(frame[t].seen, b)
          /\ pc = IF frame[t].left = 1 THEN "true" ELSE "height"
    <3>1. Height[b] + 1 \in Int /\ frame[t].left - 1 \in Int
      BY <1>1, TreeAssumption DEF Frame
    <3>2. Append(frame[t].seen, b) \in Seq(Block)
      BY <1>1 DEF Frame
    <3> QED BY <3>1, <3>2
  <2> DEFINE f == [frame[t] EXCEPT !.seen = q, !.header = None, !.got = None,
                                   !.want = w, !.left = l, !.pc = pc]
  <2>2. f \in Frame /\ f.op = "verify_chain" /\ f.pc = pc
    BY <1>1 DEF Frame, Pc, Maybe
  <2>3. frame' = [frame EXCEPT ![t] = f]
    BY <1>5, <2>1 DEF Accept
  <2> HIDE DEF f
  <2> QED BY <1>3, <2>2, <2>3
<1>6. ASSUME NEW b \in Block,
             frame' = [frame EXCEPT ![t].pc = "height", ![t].header = b,
                                    ![t].want = frame[t].want - 1]
      PROVE  IInv'
  <2>1. PICK w \in Int : w = frame[t].want - 1
    BY <1>1 DEF Frame
  <2> DEFINE f == [frame[t] EXCEPT !.pc = "height", !.header = b, !.want = w]
  <2>2. f \in Frame /\ f.op = "verify_chain" /\ f.pc = "height"
    BY <1>1 DEF Frame, Pc, Maybe
  <2>3. frame' = [frame EXCEPT ![t] = f]
    BY <1>6, <2>1
  <2> HIDE DEF f
  <2> QED BY <1>3, <2>2, <2>3
<1>7. CASE VerifyHeader(t)
  <2>1. frame[t].got \in Block \/ frame[t].got = None
    BY <1>1 DEF Frame, Maybe
  <2> QED BY <1>4, <1>5, <1>6, <1>7, <2>1 DEF VerifyHeader
<1>8. CASE VerifyLink(t)
  <2>1. frame[t].header \in Block
    BY <1>1, <1>8 DEF Frame, Maybe, VerifyLink
  <2> QED BY <1>4, <1>5, <1>8, <2>1 DEF VerifyLink
<1> QED BY <1>7, <1>8

(* The node may change its best block at any time.                          *)
LEMMA MoveBestKeeps ==
    ASSUME IInv, NEW b \in Block, MoveBest(b)
    PROVE  IInv'
<1>1. best' \in Block /\ UNCHANGED <<runs, frame, tip, headers, newBlock, reorg>>
  BY DEF MoveBest, Service, History
<1> QED BY <1>1 DEF IInv, NodeTyped, Frames, Entries, Followed, OnePoller, Poller,
           InTipChange, At, GrowthTold

-----------------------------------------------------------------------------
(* The steps that replace the tip and tell the callbacks.                   *)

(* Such a step keeps the frames; what the polling thread knows is the       *)
(* steps' own concern.                                                      *)
LEMMA TipStepFrames ==
    ASSUME IInv, NEW t \in Thread, NEW pc \in Pc, Goto(t, pc), UNCHANGED runs,
           Local([frame[t] EXCEPT !.pc = pc])
    PROVE  /\ Frames'
           /\ frame'[t] = [frame[t] EXCEPT !.pc = pc]
           /\ \A u \in Thread : u # t => frame'[u] = frame[u]
<1> DEFINE f == [frame[t] EXCEPT !.pc = pc]
<1>1. frame[t] \in Frame /\ f \in Frame /\ f.op = frame[t].op
  BY DEF IInv, Frames, Frame
<1>2. frame' = [frame EXCEPT ![t] = f] /\ Local(f)
  BY DEF Goto
<1> HIDE DEF f
<1>3. Frames'
  BY <1>1, <1>2 DEF IInv, Frames
<1> QED BY <1>1, <1>2, <1>3 DEF f, IInv, Frames

(* While the one poller is at it no other thread is.                        *)
LEMMA OthersAreQuiet ==
    ASSUME IInv, OnePoller, NEW t \in Thread, frame[t].op \in Polls,
           NEW u \in Thread, u # t
    PROVE  frame[u].op \notin Polls /\ frame[u].pc \notin Telling /\ ~ InTipChange(u)
BY PollsAlone DEF IInv, Frames, Local, Polls, Telling, InTipChange, At

(* The tip is replaced; the event of the change before ended in it.         *)
LEMMA SetTipKeeps ==
    ASSUME IInv, NEW t \in Thread, SetTip(t)
    PROVE  IInv'
<1>1. /\ frame[t] \in Frame /\ Local(frame[t]) /\ frame[t].pc = "setTip"
      /\ frame[t].op \in Polls /\ frame[t].got \in Block /\ ~ InTipChange(t)
  BY DEF SetTip, At, IInv, Frames, Local, InTipChange
<1>2. tip' = frame[t].got /\ UNCHANGED <<best, runs, headers, newBlock, reorg>>
  BY DEF SetTip, Node, History
<1>3. NodeTyped' /\ Entries'
  BY <1>1, <1>2 DEF IInv, NodeTyped, Entries, Maybe
<1>4. ASSUME OnePoller
      PROVE  /\ frame[t].old = tip
             /\ reorg # None => tip # None /\ reorg.new = tip /\ GrowthTold
             /\ frame[t].op = "get_tip" => tip = None
  <2>1. \A u \in Thread : ~ InTipChange(u)
    BY <1>1, <1>4, OthersAreQuiet
  <2> QED BY <1>1, <1>4, <2>1 DEF IInv, Followed, Fetching
<1>5. GrowthTold' = GrowthTold /\ OnePoller' = OnePoller
  BY <1>2 DEF GrowthTold, OnePoller, Poller
<1>6. tip' # None
  BY <1>1, <1>2, TreeAssumption
<1>7. CASE frame[t].op = "update_tip"
  <2>1. Goto(t, "newBlock") /\ "newBlock" \in Pc
    BY <1>7 DEF SetTip, Pc, Telling
  <2>2. Local([frame[t] EXCEPT !.pc = "newBlock"])
    BY <1>1, <1>7 DEF Local, Frame, Fetching, Telling
  <2>3. /\ Frames' /\ frame'[t] = [frame[t] EXCEPT !.pc = "newBlock"]
        /\ \A u \in Thread : u # t => frame'[u] = frame[u]
    BY <1>2, <2>1, <2>2, TipStepFrames
  <2>4. /\ frame'[t].pc = "newBlock" /\ frame'[t].op = "update_tip"
        /\ frame'[t].got = frame[t].got /\ frame'[t].old = frame[t].old
    BY <1>1, <1>7, <2>3 DEF Frame
  <2>5. InTipChange(t)'
    BY <2>4 DEF InTipChange, At
  <2>6. ASSUME OnePoller, NEW u \in Thread, u # t
        PROVE  frame'[u].op \notin Polls /\ frame'[u].pc \notin Telling
    BY <1>1, <2>3, <2>6, OthersAreQuiet
  <2>7. "get_tip" \in Polls /\ frame'[t].pc \notin Fetching
    BY <2>4 DEF Polls, Fetching
  <2>8. Followed'
    BY <1>2, <1>4, <1>5, <1>6, <2>4, <2>5, <2>6, <2>7 DEF Followed, Telling
  <2> QED BY <1>3, <2>3, <2>8 DEF IInv
<1>8. CASE frame[t].op = "get_tip"
  <2>1. frame' = [frame EXCEPT ![t] = Idle]
    BY <1>8 DEF SetTip, Return
  <2>2. Frames' /\ \A u \in Thread : frame'[u] = IF u = t THEN Idle ELSE frame[u]
    BY <1>2, <2>1, IdleTyped DEF IInv, Frames, Polls
  <2>3. Followed'
    BY <1>1, <1>2, <1>4, <1>5, <1>6, <1>8, <2>2, IdleTyped, OthersAreQuiet
    DEF Followed, Fetching, Telling, Polls
  <2> QED BY <1>3, <2>2, <2>3 DEF IInv
<1> QED BY <1>1, <1>7, <1>8 DEF Polls

(* The new-block callbacks are given a tip that is higher than the one      *)
(* before.                                                                  *)
LEMMA NotifyNewBlockKeeps ==
    ASSUME IInv, NEW t \in Thread, NotifyNewBlock(t)
    PROVE  IInv'
<1>1. /\ frame[t] \in Frame /\ Local(frame[t]) /\ frame[t].pc = "newBlock"
      /\ frame[t].op = "update_tip" /\ frame[t].got \in Block
  BY DEF NotifyNewBlock, At, IInv, Frames, Local, Telling
<1>2. /\ UNCHANGED <<best, runs, tip, headers, reorg>>
      /\ newBlock' = IF frame[t].old # None /\ Height[frame[t].got] > Height[frame[t].old]
                     THEN frame[t].got ELSE newBlock
  BY DEF NotifyNewBlock, Node, Service
<1>3. NodeTyped' /\ Entries'
  BY <1>2 DEF IInv, NodeTyped, Entries
<1>4. OnePoller' = OnePoller
  BY <1>2 DEF OnePoller, Poller
<1>5. Goto(t, "reorg") /\ "reorg" \in Pc
  BY DEF NotifyNewBlock, Pc, Telling
<1>6. Local([frame[t] EXCEPT !.pc = "reorg"])
  BY <1>1 DEF Local, Frame, Fetching, Telling
<1>7. /\ Frames' /\ frame'[t] = [frame[t] EXCEPT !.pc = "reorg"]
      /\ \A u \in Thread : u # t => frame'[u] = frame[u]
  BY <1>2, <1>5, <1>6, TipStepFrames
<1>8. /\ frame'[t].pc = "reorg" /\ frame'[t].op = "update_tip"
      /\ frame'[t].got = frame[t].got /\ frame'[t].old = frame[t].old
  BY <1>1, <1>7 DEF Frame
<1>9. ASSUME OnePoller
      PROVE  /\ tip = frame[t].got /\ (reorg # None => tip # None)
             /\ reorg # None => frame[t].old # None /\ reorg.new = frame[t].old /\ GrowthTold
  BY <1>1, <1>9 DEF IInv, Followed, Telling
<1>10. frame[t].got = frame[t].old => newBlock' = newBlock
  <2>1. ~ Height[frame[t].got] > Height[frame[t].got]
    BY <1>1, TreeAssumption
  <2> QED BY <1>2, <2>1
<1>11. (newBlock' = newBlock => GrowthTold' = GrowthTold) /\ InTipChange(t)'
  BY <1>2, <1>8 DEF GrowthTold, InTipChange, At
<1>12. ASSUME OnePoller, NEW u \in Thread, u # t
      PROVE  frame'[u].op \notin Polls /\ frame'[u].pc \notin Telling
  BY <1>1, <1>7, <1>12, OthersAreQuiet DEF Polls
<1>13. "get_tip" \in Polls /\ frame'[t].pc \notin Fetching
  BY <1>8 DEF Polls, Fetching
<1>14. Followed'
  BY <1>2, <1>4, <1>8, <1>9, <1>10, <1>11, <1>12, <1>13 DEF Followed, Telling
<1> QED BY <1>3, <1>7, <1>14 DEF IInv

(* The reorganisation callbacks are given the tip before and the tip now.   *)
LEMMA NotifyReorgKeeps ==
    ASSUME IInv, NEW t \in Thread, NotifyReorg(t)
    PROVE  IInv'
<1>1. /\ frame[t] \in Frame /\ Local(frame[t]) /\ frame[t].pc = "reorg"
      /\ frame[t].op = "update_tip" /\ frame[t].got \in Block
  BY DEF NotifyReorg, At, IInv, Frames, Local, Telling
<1>2. /\ UNCHANGED <<best, runs, tip, headers, newBlock>>
      /\ reorg' = IF frame[t].old # None /\ frame[t].got # frame[t].old
                  THEN [old |-> frame[t].old, new |-> frame[t].got] ELSE reorg
  BY DEF NotifyReorg, Node, Service
<1>3. NodeTyped' /\ Entries'
  BY <1>2 DEF IInv, NodeTyped, Entries
<1>4. OnePoller' = OnePoller
  BY <1>2 DEF OnePoller, Poller
<1>5. Goto(t, "invalidate") /\ "invalidate" \in Pc
  BY DEF NotifyReorg, Pc
<1>6. Local([frame[t] EXCEPT !.pc = "invalidate"])
  BY <1>1 DEF Local, Frame, Fetching, Telling
<1>7. /\ Frames' /\ frame'[t] = [frame[t] EXCEPT !.pc = "invalidate"]
      /\ \A u \in Thread : u # t => frame'[u] = frame[u]
  BY <1>2, <1>5, <1>6, TipStepFrames
<1>8. frame'[t].pc = "invalidate" /\ frame'[t].op = "update_tip"
  BY <1>1, <1>7 DEF Frame
<1>9. ASSUME OnePoller
      PROVE  /\ tip = frame[t].got
             /\ reorg # None => frame[t].old # None /\ reorg.new = frame[t].old
             /\ frame[t].got = frame[t].old /\ reorg # None => GrowthTold
             /\ frame[t].old # None /\ Height[frame[t].got] > Height[frame[t].old]
                  => newBlock = frame[t].got
  BY <1>1, <1>9 DEF IInv, Followed, Telling
<1>10. tip # None \/ ~ OnePoller
  BY <1>1, <1>9, TreeAssumption
<1>11. ASSUME OnePoller, reorg' # None PROVE reorg'.new = tip' /\ GrowthTold'
  BY <1>1, <1>2, <1>9, <1>11 DEF GrowthTold
<1>12. Followed'
  BY <1>1, <1>2, <1>4, <1>7, <1>8, <1>10, <1>11, OthersAreQuiet DEF Followed, Fetching, Telling, Polls
<1> QED BY <1>3, <1>7, <1>12 DEF IInv

-----------------------------------------------------------------------------

(* The inductive invariant holds in every behaviour.                        *)
THEOREM Inductive == Spec => []IInv
<1>1. Init => IInv
  <2> SUFFICES ASSUME Init PROVE IInv
    OBVIOUS
  <2>1. \A t \in Thread : frame[t] = Idle
    BY DEF Init
  <2>2. NodeTyped /\ Entries
    BY TreeAssumption DEF Init, NodeTyped, Entries, Maybe, HeaderCache!Emptied
  <2>3. Frames
    BY <2>1, IdleTyped DEF Init, Frames, Polls
  <2>4. Followed
    BY <2>1, IdleTyped DEF Init, Followed, Polls, Telling
  <2> QED BY <2>2, <2>3, <2>4 DEF IInv
<1>2. IInv /\ [Next]_vars => IInv'
  <2> SUFFICES ASSUME IInv, [Next]_vars PROVE IInv'
    OBVIOUS
  <2>1. ASSUME NEW t \in Thread, Step(t) PROVE IInv'
    BY <2>1, LookupHeightKeeps, GetBlockHashKeeps, LookupHashKeeps, GetBlockHeaderKeeps,
       StoreByHashKeeps, StoreByHeightKeeps, GetBestBlockHashKeeps, SetTipKeeps,
       NotifyNewBlockKeeps, NotifyReorgKeeps, ClearHeadersKeeps, VerifyKeeps, OthersKeep DEF Step
  <2>2. CASE UNCHANGED vars
    BY <2>2 DEF vars, IInv, NodeTyped, Frames, Entries, Followed, OnePoller, Poller,
                InTipChange, At, GrowthTold
  <2> QED BY <2>1, <2>2, BeginKeeps, MoveBestKeeps DEF Next
<1> QED BY <1>1, <1>2, PTL DEF Spec

(* No interleaving of fetches, stores, evictions and clears files a header  *)
(* where a lookup of another block or height finds it.                      *)
THEOREM EntriesMatch == Spec => []EntriesMatchKeys
<1>1. IInv => EntriesMatchKeys
  BY DEF IInv, Entries, Frames, Local, At, EntriesMatchKeys
<1> QED BY <1>1, Inductive, PTL

(* A listener of the events of the one polling thread knows the tip.        *)
THEOREM TipKnown == Spec => []ListenersKnowTip
<1>1. IInv => ListenersKnowTip
  BY DEF IInv, Followed, GrowthTold, ListenersKnowTip
<1> QED BY <1>1, Inductive, PTL

(* Each reorganisation event starts where the one before ended.             *)
THEOREM EventsChain == Spec => ReorgEventsChain
<1>1. IInv /\ [Next]_vars =>
        [OnePoller /\ reorg # None /\ reorg' # reorg => reorg'.old = reorg.new]_vars
  <2> SUFFICES ASSUME IInv, [Next]_vars, OnePoller, reorg # None, reorg' # reorg
               PROVE  reorg'.old = reorg.new
    OBVIOUS
  <2>1. ASSUME NEW t \in Thread, NotifyReorg(t) PROVE reorg'.old = reorg.new
    BY <2>1 DEF NotifyReorg, At, IInv, Followed, Telling
  <2>2. ASSUME NEW t \in Thread, Step(t), ~ NotifyReorg(t) PROVE FALSE
    BY <2>2 DEF Step, History, LookupHeight, GetBlockHash, LookupHash, GetBlockHeader,
       StoreByHash, StoreByHeight, GetBestBlockHash, SetTip, NotifyNewBlock, Invalidate,
       ClearHeaders, ClearBlocks, VerifyHeader, VerifyLink, VerifiedTrue, FetchBlock, StoreBlock
  <2>3. ASSUME NEW t \in Thread, Begin(t) PROVE FALSE
    BY <2>3 DEF Begin, UpdateTip, GetTip, ClearCache, GetHeader, VerifyChain, GetBlock, Call, History
  <2>4. ASSUME NEW b \in Block, MoveBest(b) PROVE FALSE
    BY <2>4 DEF MoveBest, History
  <2> QED BY <2>1, <2>2, <2>3, <2>4 DEF Next, vars
<1> QED BY <1>1, Inductive, PTL DEF Spec, ReorgEventsChain
===============================================================================
