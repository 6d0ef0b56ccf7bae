----------------------------- MODULE BlockService -----------------------------
(***************************************************************************)
(* ordex/rpc/block.py, class BlockService: header and block lookups over a *)
(* node's RPC interface, with caches, a remembered tip, and callbacks for  *)
(* new blocks and reorganisations.                                         *)
(*                                                                         *)
(* The node is the environment: a tree of blocks and its current best      *)
(* block, which any step may move.  A thread gives up control at every RPC *)
(* call and at every lock, so an operation is a sequence of steps of its   *)
(* frame.  A header is its block: all its fields follow from the hash.     *)
(* The caches are the bounded maps LRUCache implements.                    *)
(***************************************************************************)
EXTENDS Integers, Sequences, FiniteSets

CONSTANTS
    Thread,         \* threads that call the service
    Workloads,      \* what each thread may call in one behaviour and how often the
                    \* node's best block changes in it (bounds), and whether the
                    \* client the service was given takes keyword arguments
    Block,          \* the blocks the node may ever have
    Genesis,
    Parent, Height, \* functions on Block
    Malformed,      \* the blocks whose header fails verify_header's checks
    CacheSize,      \* the cache_size the service is built with
    MaxFailures,    \* bound: RPC calls that raise
    None

ASSUME TreeAssumption ==
    /\ Genesis \in Block /\ None \notin Block
    /\ Parent \in [Block \ {Genesis} -> Block]
    /\ Height \in [Block -> Nat] /\ Height[Genesis] = 0
    /\ \A b \in Block \ {Genesis} : Height[b] = Height[Parent[b]] + 1

ASSUME SizesAssumption ==
    /\ \A w \in Workloads :
         DOMAIN w.calls = Thread /\ w.moves \in Nat /\ w.keywords \in BOOLEAN
    /\ MaxFailures \in Nat
    /\ CacheSize \in Nat \ {0}

VARIABLES
    best,       \* the node's best block
    moves,      \* how often it changed
    runs,       \* the workload of this behaviour
    failures,   \* how many RPC calls have raised
    tip,        \* _current_tip
    headers,    \* _header_cache
    blocks,     \* _block_cache
    frame,      \* per thread: the operation it runs and its local variables
    newBlock,   \* history: the header last passed to the new-block callbacks
    reorg       \* history: the event last passed to the reorg callbacks

vars == <<best, moves, runs, failures, tip, headers, blocks, frame, newBlock, reorg>>

-----------------------------------------------------------------------------
(* The node's chain.                                                        *)

Ancestors(b) ==
    LET up[x \in Block] == {x} \cup IF x = Genesis THEN {} ELSE up[Parent[x]]
    IN up[b]

ChainHeights == {Height[b] : b \in Block}

\* getblockhash(h): the block of the best chain, an error above its tip.
HashAt(h) == {b \in Block : b \in Ancestors(best) /\ Height[b] = h}

HeaderKey == ({"hash"} \X Block) \cup ({"height"} \X ChainHeights)

ByHash(b) == <<"hash", b>>

ByHeight(h) == <<"height", h>>

HeaderCache == INSTANCE BoundedCache WITH
    Key <- HeaderKey, Value <- Block, MaxSize <- CacheSize, store <- headers

BlockCache == INSTANCE BoundedCache WITH
    Key <- Block, Value <- Block, MaxSize <- CacheSize, store <- blocks

-----------------------------------------------------------------------------
(* A frame: the operation, where it stands, and its locals.  "hash" is the  *)
(* block asked for, "old" the tip read before the fetch, "got" the header   *)
(* found, "want" the height asked for; the rest belongs to verify_chain:    *)
(* the heights left to verify, the header under verification while its      *)
(* predecessor is fetched, and the headers accepted so far.                 *)

Idle == [op |-> "none", pc |-> "idle", hash |-> None, old |-> None, got |-> None,
         want |-> 0, left |-> 0, header |-> None, seen |-> <<>>]

Init ==
    /\ best = Genesis /\ moves = 0 /\ failures = 0
    /\ runs \in Workloads
    /\ tip = None
    /\ headers = HeaderCache!Emptied
    /\ blocks = BlockCache!Emptied
    /\ frame = [t \in Thread |-> Idle]
    /\ newBlock = None /\ reorg = None

Node == <<best, moves, runs>>
Service == <<tip, headers, blocks>>
History == <<newBlock, reorg>>

At(t, pc) == frame[t].pc = pc

Goto(t, pc) == frame' = [frame EXCEPT ![t].pc = pc]

Return(t) == frame' = [frame EXCEPT ![t] = Idle]

Start(t, op, pc) == [Idle EXCEPT !.op = op, !.pc = pc]

Call(t, op, new) ==
    /\ op \in runs.calls[t]
    /\ At(t, "idle")
    /\ frame' = [frame EXCEPT ![t] = new]
    /\ UNCHANGED <<Node, failures, Service, History>>

\* get_header and get_header_by_hash return to the operation that called them.
Resume(t, b) ==
    LET op == frame[t].op IN
    CASE op = "verify_chain" -> frame' = [frame EXCEPT ![t].pc = "verify", ![t].got = b]
      [] op \in {"update_tip", "get_tip"} /\ b # None ->
            frame' = [frame EXCEPT ![t].pc = "setTip", ![t].got = b]
      [] OTHER -> Return(t)

Raises == failures < MaxFailures /\ failures' = failures + 1

Answers == UNCHANGED failures

-----------------------------------------------------------------------------
(* The environment.                                                         *)

MoveBest(b) ==
    /\ moves < runs.moves /\ b # best
    /\ best' = b
    /\ moves' = moves + 1
    /\ UNCHANGED <<runs, failures, Service, frame, History>>

-----------------------------------------------------------------------------
(* Calls.  get_tip answers from _current_tip when it is set.                *)

\* Mutant: update_tip keeps the tip it remembers, as get_tip does.
UpdateTipOnce(t) == tip = None /\ Call(t, "update_tip", Start(t, "update_tip", "best"))

UpdateTip(t) == Call(t, "update_tip", Start(t, "update_tip", "best"))

GetTip(t) == tip = None /\ Call(t, "get_tip", Start(t, "get_tip", "best"))

GetHeader(t, h) ==
    Call(t, "get_header", [Start(t, "get_header", "height") EXCEPT !.want = h])

VerifyChain(t, h, count) ==
    Call(t, "verify_chain",
         [Start(t, "verify_chain", "height") EXCEPT !.want = h, !.left = count])

GetBlock(t, b) ==
    /\ b \notin DOMAIN blocks
    /\ Call(t, "get_block", [Start(t, "get_block", "getBlock") EXCEPT !.hash = b])

ClearCache(t) == Call(t, "clear_cache", Start(t, "clear_cache", "clearHeaders"))

-----------------------------------------------------------------------------
(* get_header, get_header_by_hash: cache, then the node, then two stores.   *)

LookupHeight(t) ==
    /\ At(t, "height")
    /\ LET key == ByHeight(frame[t].want)
       IN IF key \in DOMAIN headers THEN Resume(t, headers[key]) ELSE Goto(t, "hashAt")
    /\ UNCHANGED <<Node, failures, Service, History>>

GetBlockHash(t) ==
    /\ At(t, "hashAt")
    /\ \/ /\ Raises
          /\ Resume(t, None)
       \/ /\ Answers
          /\ IF HashAt(frame[t].want) = {}
             THEN Resume(t, None)
             ELSE \E b \in HashAt(frame[t].want) :
                    frame' = [frame EXCEPT ![t].pc = "hash", ![t].hash = b]
    /\ UNCHANGED <<Node, Service, History>>

LookupHash(t) ==
    /\ At(t, "hash")
    /\ LET key == ByHash(frame[t].hash)
       IN IF key \in DOMAIN headers THEN Resume(t, headers[key]) ELSE Goto(t, "fetch")
    /\ UNCHANGED <<Node, failures, Service, History>>

\* The call names its second argument (verbose=True).  The package's RpcClient
\* takes positional arguments only (client.py:88): with it every call ends in
\* a TypeError before anything is sent.
GetBlockHeader(t) ==
    /\ At(t, "fetch")
    /\ \/ runs.keywords /\ Raises /\ Resume(t, None)
       \/ runs.keywords /\ Answers /\ Goto(t, "storeHash")
       \/ ~ runs.keywords /\ Answers /\ Resume(t, None)
    /\ UNCHANGED <<Node, Service, History>>

StoreByHash(t) ==
    /\ At(t, "storeHash")
    /\ HeaderCache!Set(ByHash(frame[t].hash), frame[t].hash)
    /\ Goto(t, "storeHeight")
    /\ UNCHANGED <<Node, failures, tip, blocks, History>>

\* Mutant: the header is filed under the height asked for.
StoreByWanted(t) ==
    /\ At(t, "storeHeight")
    /\ HeaderCache!Set(ByHeight(frame[t].want), frame[t].hash)
    /\ Resume(t, frame[t].hash)
    /\ UNCHANGED <<Node, failures, tip, blocks, History>>

StoreByHeight(t) ==
    /\ At(t, "storeHeight")
    /\ HeaderCache!Set(ByHeight(Height[frame[t].hash]), frame[t].hash)
    /\ Resume(t, frame[t].hash)
    /\ UNCHANGED <<Node, failures, tip, blocks, History>>

-----------------------------------------------------------------------------
(* update_tip and get_tip.                                                  *)

\* The old tip is read, without the lock, as soon as the node has answered.
GetBestBlockHash(t) ==
    /\ At(t, "best")
    /\ \/ Raises /\ Return(t)
       \/ /\ Answers
          /\ frame' = [frame EXCEPT ![t].pc = "hash", ![t].hash = best, ![t].old = tip]
    /\ UNCHANGED <<Node, Service, History>>

\* Mutant: only a higher tip is remembered.
SetHigherTip(t) ==
    /\ At(t, "setTip")
    /\ tip' = IF tip = None \/ Height[frame[t].got] > Height[tip] THEN frame[t].got ELSE tip
    /\ IF frame[t].op = "update_tip" THEN Goto(t, "newBlock") ELSE Return(t)
    /\ UNCHANGED <<Node, failures, headers, blocks, History>>

SetTip(t) ==
    /\ At(t, "setTip")
    /\ tip' = frame[t].got
    /\ IF frame[t].op = "update_tip" THEN Goto(t, "newBlock") ELSE Return(t)
    /\ UNCHANGED <<Node, failures, headers, blocks, History>>

NotifyNewBlock(t) ==
    /\ At(t, "newBlock")
    /\ LET f == frame[t] IN
       newBlock' = IF f.old # None /\ Height[f.got] > Height[f.old] THEN f.got ELSE newBlock
    /\ Goto(t, "reorg")
    /\ UNCHANGED <<Node, failures, Service, reorg>>

\* Mutant: only a lower tip is announced.
NotifyLowerTip(t) ==
    /\ At(t, "reorg")
    /\ LET f == frame[t] IN
       reorg' = IF f.old # None /\ Height[f.got] < Height[f.old]
                THEN [old |-> f.old, new |-> f.got] ELSE reorg
    /\ Goto(t, "invalidate")
    /\ UNCHANGED <<Node, failures, Service, newBlock>>

NotifyReorg(t) ==
    /\ At(t, "reorg")
    /\ LET f == frame[t] IN
       reorg' = IF f.old # None /\ f.got # f.old THEN [old |-> f.old, new |-> f.got] ELSE reorg
    /\ Goto(t, "invalidate")
    /\ UNCHANGED <<Node, failures, Service, newBlock>>

\* _invalidate_cache_after_reorg
Invalidate(t) ==
    /\ At(t, "invalidate")
    /\ LET f == frame[t] IN
       IF f.old # None /\ Height[f.got] < Height[f.old] THEN Goto(t, "clearHeaders") ELSE Return(t)
    /\ UNCHANGED <<Node, failures, Service, History>>

ClearHeaders(t) ==
    /\ At(t, "clearHeaders")
    /\ HeaderCache!Clear
    /\ Goto(t, "clearBlocks")
    /\ UNCHANGED <<Node, failures, tip, blocks, History>>

ClearBlocks(t) ==
    /\ At(t, "clearBlocks")
    /\ BlockCache!Clear
    /\ Return(t)
    /\ UNCHANGED <<Node, failures, tip, headers, History>>

-----------------------------------------------------------------------------
(* verify_chain.                                                            *)

Accept(t, b) ==
    LET f == frame[t] IN
    frame' = [frame EXCEPT ![t] =
                [f EXCEPT !.seen = Append(f.seen, b), !.header = None, !.got = None,
                          !.want = Height[b] + 1, !.left = f.left - 1,
                          !.pc = IF f.left = 1 THEN "true" ELSE "height"]]

\* A header fetched: it must pass verify_header, and unless it is the first
\* one its predecessor is fetched next.
VerifyHeader(t) ==
    /\ At(t, "verify") /\ frame[t].header = None
    /\ LET b == frame[t].got IN
       IF b = None \/ b \in Malformed THEN Return(t)
       ELSE IF frame[t].seen = <<>> THEN Accept(t, b)
       ELSE frame' = [frame EXCEPT ![t].pc = "height", ![t].header = b,
                                   ![t].want = frame[t].want - 1]
    /\ UNCHANGED <<Node, failures, Service, History>>

\* The predecessor fetched: a missing one is not compared.
VerifyLink(t) ==
    /\ At(t, "verify") /\ frame[t].header # None
    /\ LET b == frame[t].header
           prev == frame[t].got
       IN IF prev # None /\ Parent[b] # prev THEN Return(t) ELSE Accept(t, b)
    /\ UNCHANGED <<Node, failures, Service, History>>

VerifiedTrue(t) ==
    /\ At(t, "true")
    /\ Return(t)
    /\ UNCHANGED <<Node, failures, Service, History>>

-----------------------------------------------------------------------------
(* get_block with verbosity 0; other verbosities change nothing.            *)

FetchBlock(t) ==
    /\ At(t, "getBlock")
    /\ \/ Raises /\ Return(t)
       \/ Answers /\ Goto(t, "storeBlock")
    /\ UNCHANGED <<Node, Service, History>>

StoreBlock(t) ==
    /\ At(t, "storeBlock")
    /\ BlockCache!Set(frame[t].hash, frame[t].hash)
    /\ Return(t)
    /\ UNCHANGED <<Node, failures, tip, headers, History>>

-----------------------------------------------------------------------------

Begin(t) ==
    \/ UpdateTip(t) \/ GetTip(t) \/ ClearCache(t)
    \/ \E h \in ChainHeights : GetHeader(t, h)
    \/ \E h \in ChainHeights : VerifyChain(t, h, 2)
    \/ \E b \in Block : GetBlock(t, b)

Step(t) ==
    \/ LookupHeight(t) \/ GetBlockHash(t) \/ LookupHash(t)
    \/ GetBlockHeader(t) \/ StoreByHash(t) \/ StoreByHeight(t)
    \/ GetBestBlockHash(t) \/ SetTip(t) \/ NotifyNewBlock(t) \/ NotifyReorg(t)
    \/ Invalidate(t) \/ ClearHeaders(t) \/ ClearBlocks(t)
    \/ VerifyHeader(t) \/ VerifyLink(t) \/ VerifiedTrue(t)
    \/ FetchBlock(t) \/ StoreBlock(t)

Next ==
    \/ \E b \in Block : MoveBest(b)
    \/ \E t \in Thread : Begin(t) \/ Step(t)

Spec == Init /\ [][Next]_vars

\* Threads are scheduled, RPC calls return, and the application polls again and
\* again, whatever else the polling thread calls in between.
FairSpec == Spec /\ \A t \in Thread : WF_vars(Step(t)) /\ SF_vars(UpdateTip(t))

-----------------------------------------------------------------------------
(* Properties.                                                              *)

(* A header is only ever found under its own hash or its own height: no     *)
(* interleaving of fetches, stores, evictions and invalidations files a     *)
(* header where a lookup for another block or height would return it, and   *)
(* get_header(h) hands out headers of height h only.                        *)
EntriesMatchKeys ==
    /\ \A b \in Block : ByHash(b) \in DOMAIN headers => headers[ByHash(b)] = b
    /\ \A h \in ChainHeights : ByHeight(h) \in DOMAIN headers => Height[headers[ByHeight(h)]] = h
    /\ \A t \in Thread : At(t, "verify") /\ frame[t].got # None => Height[frame[t].got] = frame[t].want

InTipChange(t) == \E pc \in {"newBlock", "reorg"} : At(t, pc)

\* Only one thread ever moves the remembered tip.
Poller == {t \in Thread : runs.calls[t] \cap {"update_tip", "get_tip"} # {}}

OnePoller == \A t, u \in Poller : t = u

(* With one polling thread a listener of reorganisation events always knows *)
(* the tip: between polls the last event's new block is the service's tip,  *)
(* and if it was a growth the new-block callbacks were given exactly it.    *)
ListenersKnowTip ==
    OnePoller /\ (\A t \in Thread : ~ InTipChange(t)) /\ reorg # None =>
        /\ reorg.new = tip
        /\ Height[reorg.new] > Height[reorg.old] => newBlock = reorg.new

(* Every event starts where the one before ended: with one polling thread   *)
(* none is lost, repeated or out of order.                                  *)
ReorgEventsChain ==
    [][OnePoller /\ reorg # None /\ reorg' # reorg => reorg'.old = reorg.new]_vars

PollsTip == \E t \in Thread : "update_tip" \in runs.calls[t]

(* Over a client that takes keyword arguments, an application that keeps    *)
(* polling ends up at the node's best block once the node settles, whatever *)
(* reads, cache clears and failed calls there were in between.              *)
FollowsNode == runs.keywords /\ PollsTip => <>[](tip = best)

(* update_tip (block.py:351, "Update current tip from node.") and get_tip:  *)
(* whatever client the service was given, an application that keeps polling *)
(* has a tip in the end.                                                    *)
PollsReachTip == PollsTip => <>(tip # None)

(* _invalidate_cache_after_reorg (block.py:406, "Invalidate cache entries   *)
(* affected by reorganization."): once a poll is over and the tip is the    *)
(* node's best block, a header cached by height is on the best chain.       *)
CacheFollowsReorg ==
    (\A t \in Thread : At(t, "idle")) /\ tip = best =>
        \A h \in ChainHeights :
            ByHeight(h) \in DOMAIN headers => headers[ByHeight(h)] \in Ancestors(best)
=============================================================================
