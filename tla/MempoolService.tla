---------------------------- MODULE MempoolService ----------------------------
(***************************************************************************)
(* ordex/rpc/mempool.py, class MempoolService: tracked transactions are    *)
(* compared with the node's memory pool and with the ids of mined          *)
(* transactions, and callbacks are told what was confirmed or removed.     *)
(*                                                                         *)
(* get_mempool answers from a cache for _cache_ttl seconds, and with an    *)
(* empty list when the RPC call fails; it takes no lock.                   *)
(* update_tracked_transactions and mark_confirmed hold the service's lock, *)
(* check_mempool_diff holds it only while it copies the tracked ids.       *)
(* Fee estimation, statistics and the listing helpers only read.           *)
(***************************************************************************)
EXTENDS Integers, FiniteSets

CONSTANTS
    Thread,
    Workloads,      \* which operations each thread may call, one map per kind of use
    Tx,
    MaxMoves,       \* bound: changes of the node's pool
    MaxFailures,    \* bound: RPC calls that fail
    MaxTracks,      \* bound: calls of track_transaction
    MaxBlocks,      \* bound: times a transaction is reported confirmed
    None

ASSUME BoundsAssumption ==
    /\ None \notin Thread /\ None \notin Tx
    /\ {MaxMoves, MaxFailures, MaxTracks, MaxBlocks} \subseteq Nat

VARIABLES
    pool, mined,    \* the node: its memory pool, and what its blocks hold
    moves, failures,
    runs,           \* the workload of this behaviour
    lock,           \* the thread inside "with self._lock", or None
    tracked,        \* _tracked_txs: per tracked id, its TrackedTransaction
    tracks,         \* number of objects created so far; an object's identity
    cache,          \* _mempool_cache, None when it was never filled or cleared
    fresh,          \* whether the cache is younger than _cache_ttl
    frame,          \* per thread: the operation it runs and its locals
    told,           \* history: what callbacks were told of a tracked id
    absent          \* history: tracked ids the pool was seen without since tracked

node == <<pool, mined, moves, runs>>
cached == <<cache, fresh>>
history == <<told, absent>>
vars == <<node, failures, lock, tracked, tracks, cached, frame, history>>

Ids == DOMAIN tracked

\* The entries of _tracked_txs: which id holds which object.
Entries == {<<tx, tracked[tx].id>> : tx \in Ids}

\* A frame: "todo" the ids left to visit, "tx" and "id" the one visited and its
\* object, "confirmed" the argument of an update and "began" the entries its
\* loop began with, "pool" the answer of get_mempool.
Idle == [op |-> "none", pc |-> "idle", todo |-> {}, tx |-> None, id |-> 0,
         confirmed |-> {}, began |-> {}, pool |-> {}]

Init ==
    /\ pool = {} /\ mined = {} /\ moves = 0 /\ failures = 0
    /\ runs \in Workloads
    /\ lock = None
    /\ tracked = [tx \in {} |-> None] /\ tracks = 0
    /\ cache = None /\ fresh = FALSE
    /\ frame = [t \in Thread |-> Idle]
    /\ told = {} /\ absent = {}

-----------------------------------------------------------------------------
(* The node and the clock.                                                  *)

NodeMoves(newPool, newMined) ==
    /\ moves < MaxMoves
    /\ moves' = moves + 1
    /\ pool' = newPool /\ mined' = newMined
    /\ absent' = absent \cup (Ids \ newPool)
    /\ UNCHANGED <<runs, failures, lock, tracked, tracks, cached, frame, told>>

Enter(tx) == tx \notin pool \cup mined /\ NodeMoves(pool \cup {tx}, mined)

Mine(tx) == tx \in pool /\ NodeMoves(pool \ {tx}, mined \cup {tx})

Evict(tx) == tx \in pool /\ NodeMoves(pool \ {tx}, mined)

Expire ==
    /\ fresh
    /\ fresh' = FALSE
    /\ UNCHANGED <<node, failures, lock, tracked, tracks, cache, frame, history>>

-----------------------------------------------------------------------------
(* Operations that are one step: everything they touch is under the lock.   *)

Can(t, op) == op \in runs[t] /\ frame[t] = Idle

ForgetHistory(tx, seen) ==
    /\ told' = {x \in told : x[2] # tx}
    /\ absent' = IF seen THEN absent \ {tx} ELSE absent \cup {tx}

\* Mutant: track_transaction does not take the lock.
TrackUnlocked(t, tx) ==
    /\ Can(t, "track")
    /\ tracks < MaxTracks
    /\ tracks' = tracks + 1
    /\ tracked' = [x \in Ids \cup {tx} |->
                     IF x = tx THEN [status |-> "pending", confirmations |-> 0, id |-> tracks + 1]
                     ELSE tracked[x]]
    /\ ForgetHistory(tx, tx \in pool)
    /\ UNCHANGED <<node, failures, lock, cached, frame>>

Track(t, tx) ==
    /\ Can(t, "track") /\ lock = None
    /\ tracks < MaxTracks
    /\ tracks' = tracks + 1
    /\ tracked' = [x \in Ids \cup {tx} |->
                     IF x = tx THEN [status |-> "pending", confirmations |-> 0, id |-> tracks + 1]
                     ELSE tracked[x]]
    /\ ForgetHistory(tx, tx \in pool)
    /\ UNCHANGED <<node, failures, lock, cached, frame>>

Untrack(t, tx) ==
    /\ Can(t, "untrack") /\ lock = None
    /\ tx \in Ids
    /\ tracked' = [x \in Ids \ {tx} |-> tracked[x]]
    /\ ForgetHistory(tx, TRUE)
    /\ UNCHANGED <<node, failures, lock, tracks, cached, frame>>

Confirmed(tx) ==
    [tracked EXCEPT ![tx] =
        [@ EXCEPT !.status = "confirmed", !.confirmations = tracked[tx].confirmations + 1]]

MarkConfirmed(t, tx) ==
    /\ Can(t, "mark_confirmed") /\ lock = None
    /\ tx \in Ids \cap mined
    /\ tracked[tx].confirmations < MaxBlocks
    /\ tracked' = Confirmed(tx)
    /\ told' = told \cup {<<"confirmed", tx>>}
    /\ UNCHANGED <<node, failures, lock, tracks, cached, frame, absent>>

ClearCache(t) ==
    /\ Can(t, "clear_cache")
    /\ cache' = None /\ fresh' = FALSE
    /\ UNCHANGED <<node, failures, lock, tracked, tracks, frame, history>>

-----------------------------------------------------------------------------
(* get_mempool, called by a thread whose frame says where to go on.  The    *)
(* cache is tested and then read again: it may be gone by then.             *)

Unlocked(t) == lock' = IF lock = t THEN None ELSE lock

Resume(t, ids) ==
    frame' = [frame EXCEPT ![t] =
                CASE frame[t].op = "update" -> [frame[t] EXCEPT !.pc = "compare", !.pool = ids]
                  [] frame[t].op = "diff" -> [frame[t] EXCEPT !.pc = "copy", !.pool = ids]
                  [] OTHER -> Idle]

\* Mutant: check_mempool_diff is answered from the cache too.
TestCacheAlways(t) ==
    /\ frame[t].pc = "mempool"
    /\ frame' = [frame EXCEPT ![t].pc = IF cache # None /\ fresh THEN "read" ELSE "rpc"]
    /\ UNCHANGED <<node, failures, lock, tracked, tracks, cached, history>>

TestCache(t) ==
    /\ frame[t].pc = "mempool"
    /\ frame' = [frame EXCEPT ![t].pc =
                    IF frame[t].op # "diff" /\ cache # None /\ fresh THEN "read" ELSE "rpc"]
    /\ UNCHANGED <<node, failures, lock, tracked, tracks, cached, history>>

\* A cache cleared in between raises: None has no attribute get.
ReadCache(t) ==
    /\ frame[t].pc = "read"
    /\ IF cache = None
       THEN frame' = [frame EXCEPT ![t].pc = "raise"] ELSE Resume(t, cache)
    /\ UNCHANGED <<node, failures, lock, tracked, tracks, cached, history>>

\* The exception ends the operation; a with-block around it releases the lock.
Propagate(t) ==
    /\ frame[t].pc = "raise"
    /\ frame' = [frame EXCEPT ![t] = Idle]
    /\ Unlocked(t)
    /\ UNCHANGED <<node, failures, tracked, tracks, cached, history>>

\* A call that raises is answered with an empty list.  The call names its
\* argument (verbose=True), so over the package's RpcClient, which takes
\* positional arguments only (client.py:88), it always raises.
GetRawMempool(t) ==
    /\ frame[t].pc = "rpc"
    /\ \/ /\ failures < MaxFailures
          /\ failures' = failures + 1
          /\ Resume(t, {})
       \/ /\ frame' = [frame EXCEPT ![t].pc = "fill", ![t].pool = pool]
          /\ UNCHANGED failures
    /\ UNCHANGED <<node, lock, tracked, tracks, cached, history>>

\* The answer becomes the cache, without a lock, when it has been converted.
\* The time is noted after it; a cache cleared in between stays empty.
FillCache(t) ==
    /\ frame[t].pc = "fill"
    /\ cache' = frame[t].pool /\ fresh' = TRUE
    /\ Resume(t, frame[t].pool)
    /\ UNCHANGED <<node, failures, lock, tracked, tracks, history>>

GetMempool(t) ==
    /\ Can(t, "get_mempool")
    /\ frame' = [frame EXCEPT ![t] = [Idle EXCEPT !.op = "get", !.pc = "mempool"]]
    /\ UNCHANGED <<node, failures, lock, tracked, tracks, cached, history>>

-----------------------------------------------------------------------------
(* update_tracked_transactions: the lock is held for the whole loop.        *)

Update(t, ids) ==
    /\ Can(t, "update") /\ lock = None
    /\ \A tx \in ids \cap Ids : tracked[tx].confirmations < MaxBlocks
    /\ lock' = t
    /\ frame' = [frame EXCEPT ![t] =
                   [Idle EXCEPT !.op = "update", !.pc = "loop", !.todo = Ids,
                                !.confirmed = ids, !.began = Entries]]
    /\ UNCHANGED <<node, failures, tracked, tracks, cached, history>>

InLoop(t) == frame[t].pc = "loop"

\* A dict is iterated in insertion order; any order is allowed here.
Done(t, tx) == frame' = [frame EXCEPT ![t].pc = "loop", ![t].todo = @ \ {tx}]

UpdateConfirmed(t, tx) ==
    /\ InLoop(t) /\ tx \in frame[t].todo \cap frame[t].confirmed
    /\ tracked' = Confirmed(tx)
    /\ told' = IF tracked[tx].status = "pending" THEN told \cup {<<"confirmed", tx>>} ELSE told
    /\ Done(t, tx)
    /\ UNCHANGED <<node, failures, lock, tracks, cached, absent>>

\* Mutant: the status is not tested before the pool is.
UpdateAny(t, tx) ==
    /\ InLoop(t) /\ tx \in frame[t].todo \ frame[t].confirmed
    /\ frame' = [frame EXCEPT ![t].pc = "mempool", ![t].tx = tx]
    /\ UNCHANGED <<node, failures, lock, tracked, tracks, cached, history>>

UpdatePending(t, tx) ==
    /\ InLoop(t) /\ tx \in frame[t].todo \ frame[t].confirmed
    /\ IF tracked[tx].status = "pending"
       THEN frame' = [frame EXCEPT ![t].pc = "mempool", ![t].tx = tx]
       ELSE Done(t, tx)
    /\ UNCHANGED <<node, failures, lock, tracked, tracks, cached, history>>

UpdateRemoved(t) ==
    /\ frame[t].pc = "compare"
    /\ LET tx == frame[t].tx IN
       /\ IF tx \in frame[t].pool
          THEN UNCHANGED <<tracked, told>>
          ELSE /\ tracked' = [tracked EXCEPT ![tx].status = "removed"]
               /\ told' = told \cup {<<"removed", tx>>}
       /\ frame' = [frame EXCEPT ![t].pc = "loop", ![t].todo = @ \ {tx},
                                 ![t].tx = None, ![t].pool = {}]
    /\ UNCHANGED <<node, failures, lock, tracks, cached, absent>>

UpdateEnd(t) ==
    /\ InLoop(t) /\ frame[t].todo = {}
    /\ frame' = [frame EXCEPT ![t] = Idle]
    /\ lock' = None
    /\ UNCHANGED <<node, failures, tracked, tracks, cached, history>>

-----------------------------------------------------------------------------
(* check_mempool_diff: fetch without the lock, copy the ids under it, then  *)
(* test and mark each id without it.                                        *)

CheckDiff(t) ==
    /\ Can(t, "diff")
    /\ frame' = [frame EXCEPT ![t] = [Idle EXCEPT !.op = "diff", !.pc = "mempool"]]
    /\ UNCHANGED <<node, failures, lock, tracked, tracks, cached, history>>

CopyIds(t) ==
    /\ frame[t].pc = "copy" /\ lock = None
    /\ frame' = [frame EXCEPT ![t] =
                   [Idle EXCEPT !.op = "diff", !.pc = "test", !.todo = Ids \ frame[t].pool]]
    /\ UNCHANGED <<node, failures, lock, tracked, tracks, cached, history>>

DiffTest(t, tx) ==
    /\ frame[t].pc = "test" /\ tx \in frame[t].todo
    /\ frame' = [frame EXCEPT ![t] =
                   IF tx \in Ids THEN [@ EXCEPT !.pc = "lookup", !.tx = tx]
                   ELSE [@ EXCEPT !.todo = frame[t].todo \ {tx}]]
    /\ UNCHANGED <<node, failures, lock, tracked, tracks, cached, history>>

\* An id untracked since the test is a KeyError, which leaves the method.  The
\* object found is kept.
DiffLookup(t) ==
    /\ frame[t].pc = "lookup"
    /\ LET tx == frame[t].tx IN
       frame' = [frame EXCEPT ![t] =
                   IF tx \notin Ids THEN [@ EXCEPT !.pc = "raise"]
                   ELSE IF tracked[tx].status = "pending"
                        THEN [@ EXCEPT !.pc = "mark", !.id = tracked[tx].id]
                        ELSE [@ EXCEPT !.pc = "test", !.todo = frame[t].todo \ {tx}, !.tx = None]]
    /\ UNCHANGED <<node, failures, lock, tracked, tracks, cached, history>>

\* Mutant: the callbacks are told and the object is left pending.
DiffTellOnly(t) ==
    /\ frame[t].pc = "mark"
    /\ told' = told \cup {<<"removed", frame[t].tx>>}
    /\ frame' = [frame EXCEPT ![t].pc = "test", ![t].todo = @ \ {frame[t].tx},
                              ![t].tx = None, ![t].id = 0]
    /\ UNCHANGED <<node, failures, lock, tracked, tracks, cached, absent>>

\* The object is marked, even if it is no longer the one in the dict, and
\* the callbacks get the id.
DiffMark(t) ==
    /\ frame[t].pc = "mark"
    /\ LET tx == frame[t].tx IN
       /\ tracked' = IF tx \in Ids /\ tracked[tx].id = frame[t].id
                     THEN [tracked EXCEPT ![tx].status = "removed"] ELSE tracked
       /\ told' = told \cup {<<"removed", tx>>}
       /\ frame' = [frame EXCEPT ![t].pc = "test", ![t].todo = @ \ {tx},
                                 ![t].tx = None, ![t].id = 0]
    /\ UNCHANGED <<node, failures, lock, tracks, cached, absent>>

DiffEnd(t) ==
    /\ frame[t].pc = "test" /\ frame[t].todo = {}
    /\ frame' = [frame EXCEPT ![t] = Idle]
    /\ UNCHANGED <<node, failures, lock, tracked, tracks, cached, history>>

-----------------------------------------------------------------------------

Begin(t) ==
    \/ GetMempool(t) \/ CheckDiff(t) \/ ClearCache(t)
    \/ \E ids \in SUBSET mined : Update(t, ids)
    \/ \E tx \in Tx : Track(t, tx) \/ Untrack(t, tx) \/ MarkConfirmed(t, tx)

Step(t) ==
    \/ TestCache(t) \/ ReadCache(t) \/ Propagate(t) \/ GetRawMempool(t) \/ FillCache(t)
    \/ UpdateRemoved(t) \/ UpdateEnd(t)
    \/ CopyIds(t) \/ DiffLookup(t) \/ DiffMark(t) \/ DiffEnd(t)
    \/ \E tx \in Tx : UpdateConfirmed(t, tx) \/ UpdatePending(t, tx) \/ DiffTest(t, tx)

Next ==
    \/ \E tx \in Tx : Enter(tx) \/ Mine(tx) \/ Evict(tx)
    \/ Expire
    \/ \E t \in Thread : Begin(t) \/ Step(t)

Spec == Init /\ [][Next]_vars

-----------------------------------------------------------------------------
(* Properties.                                                              *)

\* check_mempool_diff marks without the lock what it tested before: the thread
\* that calls it is the only one to track, update and confirm.
DiffUndisturbed ==
    \A t, u \in Thread :
        t # u /\ "diff" \in runs[t] => runs[u] \cap {"track", "update", "mark_confirmed"} = {}

(* While update_tracked_transactions iterates over _tracked_txs the entries *)
(* are the ones it began with: none is added, removed (Python would raise)  *)
(* or replaced; and an entry it tested as pending before the mempool call   *)
(* is still pending when it marks it removed.                               *)
LoopUndisturbed ==
    \A t \in Thread : frame[t].op = "update" =>
        /\ frame[t].began = Entries
        /\ DiffUndisturbed /\ frame[t].pc = "compare" => tracked[frame[t].tx].status = "pending"

(* A confirmed transaction never turns into a removed one while it stays    *)
(* tracked, whatever the mempool calls in flight return afterwards.         *)
ConfirmedIsFinal ==
    [][\A tx \in Tx :
          (DiffUndisturbed /\ tx \in Ids /\ tx \in Ids' /\ tracked[tx].id = tracked'[tx].id
             /\ tracked[tx].status = "confirmed") => tracked'[tx].status = "confirmed"]_vars

(* A pending entry has not been reported: since it was tracked no callback  *)
(* was told that it is confirmed or removed.                                *)
PendingIsUntold ==
    DiffUndisturbed =>
        \A tx \in Ids : tracked[tx].status = "pending" => \A x \in told : x[2] # tx

\* check_mempool_diff always asks the node; update_tracked_transactions may
\* be answered by the cache.
FromDiffOnly == \A t \in Thread : "update" \notin runs[t]

(* The removed callbacks (mempool.py:399, "Register callback for removed    *)
(* transactions.") are told of a transaction only if it was out of the      *)
(* node's pool at some time since it was tracked.                           *)
RemovedMeansLeft == \A tx \in Ids : <<"removed", tx>> \in told => tx \in absent

(* As long as no RPC call has failed this is so for check_mempool_diff,     *)
(* although the pool is fetched before the ids are copied and the node      *)
(* moves on in between.                                                     *)
RemovedByDiffMeansLeft ==
    FromDiffOnly /\ DiffUndisturbed /\ failures = 0 => RemovedMeansLeft
=============================================================================
