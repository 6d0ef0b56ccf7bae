# A TLA+ model of ordex

TLA+ modules of the OrdexCoin Python library (`ordex/`), the TLC configurations
that check them on small instances, and theorems checked by TLAPS. The modules
are translated from the source; what a document or a docstring says is used
only to name the promises the code is compared with.

## The system

`ordex/rpc` is a layer of services over a node's JSON-RPC interface, built for
applications with several threads. Each service is an object with its own
`threading.Lock`, dictionaries of what it keeps, and lists of callbacks.
`ordex/wallet` keeps wallets and selects coins, `ordex/net` speaks the peer to
peer protocol, `ordex/consensus`, `ordex/core` and `ordex/primitives` are
algorithms and encodings.

| part | state | operations | what is hard |
|---|---|---|---|
| `TxTracker` (rpc/tracker.py) | tracked transactions, a list of txids per wallet, callbacks | track, untrack, update counts, mark confirmed or replaced | callbacks run under the non-reentrant lock; two indexes that must agree; counts that go down again |
| `WalletTracker` (rpc/tracker.py) | balance deltas and history per wallet | record, query | a bounded history; every call is one block under one lock |
| `LRUCache` (rpc/block.py) | ordered dictionary | get, set, clear | eviction order |
| `BlockService` (rpc/block.py) | remembered tip, header and block cache | poll the tip, look up headers and blocks, verify a stretch of the chain | every RPC call lets the node move and other threads run; invalidation after a reorganisation |
| `MempoolService` (rpc/mempool.py) | tracked transactions, a cached copy of the pool | track, compare with the pool, confirm | a cache and a lock taken in different places; failed calls look like an empty pool |
| `EventBus`, `NotificationService` (rpc/notifications.py) | handler lists, event history, webhooks, delivery history | emit, register, administer webhooks | handlers run outside the lock over a live list; one thread per delivery, with retries |
| `NodePool` (rpc/network.py) | nodes and their status, a checking thread | select, report a request, add, remove, enable, start and stop the checks | reports by url for objects that may be gone; a join that times out |
| `HealthMonitor` (rpc/health.py) | component states, bounded metrics | update, record, check | two locks, callbacks |
| `TransactionService` (rpc/transaction.py) | built and sent transactions | build, sign, broadcast with retries, replace | a nested lock; an answer lost after the node accepted |
| `AddressService` (rpc/address.py) | derived addresses, gap limits | generate, discover, import, mark used | indexes across calls |
| `OrdexServices`, `DaemonManager` (rpc/services.py, rpc/daemon.py) | the services, one set per network | initialise, shut down, start, stop | a flag tested with and without the lock |
| `UTXOManager`, `CoinSelector` (wallet/utxo.py) | wallets, their files, statistics | create, delete, synchronise, select coins | synchronisation races deletion; files rewritten in place |
| `ChainState`, `BlockSynchronizer`, `PeerManager`, `NodeConnection` (net/) | headers and tip, peers, a byte stream | download headers and blocks, connect, close | answers matched to requests by position in the stream; awaits between reading a table and changing it |
| `ScriptInterpreter` (core/script.py) | a stack, a program counter, open conditionals | evaluate a script, verify an input | conditionals are skipped by scanning bytes |
| pow, uint256, amount (consensus/, core/) | none | retargeting, compact targets, subsidies | boundaries of the arithmetic |

How the parts interact: `OrdexServices` builds one of each and hands them the
same RPC client; a `TxTracker` is given the `BlockService` but only stores it.
`BlockService` uses two `LRUCache`s. `NotificationService` owns an `EventBus`
and one thread per delivery. Everything else meets through the application: it
polls `update_tip`, feeds confirmation counts and block contents to the
trackers, and reports request results to the `NodePool`. The correctness of
each part is thus a matter of its own lock and of the calls several application
threads make, which is what the modules are about.

What makes each part correct, in a sentence: the tracker and the mempool service
tell their listeners the truth and lose no transaction; a header is found only
where it belongs and tip events form a chain; an event reaches every handler
and webhook it should, a webhook again only while no post was answered with success, and none after its removal; the pool selects nodes
that answer; a selection of coins is the best of its strategy; wallets survive
deletion and restart; a broadcast's result is the node's; discovery sees
the addresses it claims to scan; services of a container belong together; the synchronizer learns the
peer's chain; the table of peers shows what is connected; a script runs the
branch it selects; targets and supply stay within their limits.

## The modules

One `frame` record per thread stands for a call in progress: its operation, the
point it has reached (`pc`) and its locals. A step goes from one point where
another thread can intervene to the next: taking a lock, an RPC call, a read or
write of a shared field without a lock. A region under a lock that makes no
call is one action, except where another thread reads the same fields without
that lock. Where one run combines several uses, a variable that never changes
(`runs`, `bound`, `scope`) is chosen in `Init` and says which calls a behaviour
makes.

**TxTracker** models the class of that name. `info` is `_tracked_txs`,
`listed[w][tx]` counts a txid in `_wallet_txs[w]`, `callbacks` is `_callbacks`.
`Track`, `Untrack`, `UpdateConfirmations`, `MarkConfirmed`, `MarkReplaced` and
`Register` are the methods; an emitting operation does its assignments and
keeps the lock, and `RunHandler` and `FinishEvent` are the loop of
`_emit_callback`. `announced` is history: which events were emitted for a
transaction since it was tracked. **TxTrackerProofs** holds the theorems.

**LRUCache** models the class: `order` and `data` are the ordered dictionary.
**BoundedCache** is its abstract specification, a map of at most `MaxSize`
entries that drops one entry of its choice; `KeepsPromise` says that LRUCache
implements it, with `data` for its `store`. **CacheSize** holds the parameters of the cache and
the assumption on them. It is run as a part of Primitives.

**BlockService** is built over two instances of BoundedCache, so what is checked
of it does not depend on the eviction order. `best` is the node's best block
and `MoveBest` moves it anywhere in a tree of blocks, between any two RPC
calls. `keywords`, fixed per workload, says whether the client takes keyword
arguments, as `getblockheader(..., verbose=True)` demands (block.py:258): the
package's own `RpcClient` does not (client.py:88), and over it every fetch of a
header raises inside the service. The nested calls of `update_tip`, `get_tip`, `get_header` and
`verify_chain` into `get_header_by_hash` are a continuation, `Resume`.

**MempoolService** has the node's pool and blocks as environment (`Enter`,
`Mine`, `Evict`), the cache with its expiry, and the two comparisons step by
step: the node's answer and the unlocked assignment of the cache (`GetRawMempool`,
`FillCache`) are two, and so are a difference's membership test and its lookup (`DiffTest`,
`DiffLookup`, which raises when another thread untracked in between). `began` is
history: the entries an update loop began with. `id` is the identity of a TrackedTransaction object: `check_mempool_diff`
marks the object it found even if the dictionary has another by then.
Transactions are reported confirmed only when they were mined.

**EventBus** and **WebhookDelivery** are the two halves of notifications.py;
**NotificationService** composes them with INSTANCE: `emit` runs the bus's
handlers and then dispatches. The event bus iterates over the live list by
position, as Python does. A delivery is a `job`, started per matched webhook;
`Serialize` makes payload and signature, outside the `try`: data that cannot be encoded ends the
thread there, with no post and no record. Each `Post` is answered with success, refused,
lost on its way, or `unanswered`: taken by the endpoint with the answer lost, which the service
cannot tell from lost and posts again. `posts` is history of all this. `clear_history` may be lost to an `emit` that is just
assigning the shortened list (`Reassigning`), a race of two different locks.

**NodePool** keeps NodeInfo objects apart from the urls they are known under,
since a removed node lives on in the checking thread's snapshot. The loop's
steps are `LoopTest`, `CheckNode`, `Request`, `RecordRequest` and `LoopWait`;
`JoinReturns` may come before the thread has ended, as `join(timeout=5)` may.
Error rate and latency are a choice between healthy and degraded below two
consecutive failures, the selection strategies a choice among eligible nodes.

**Services** composes the parts an application calls for money, each a module
with INSTANCE over the same threads (**ServiceThreads**: `frame`, and the guards
and counts every call shares). A thread may go from one service to another. `Restart`
is the process starting again: every service begins empty (`Restarted`, its
`__init__`), except for the wallets, which it loads from their files.

- **WalletStore** is `WalletManager`. `objects` are the Wallet objects and
  `wallets` the dictionary, since a thread goes on with the object it looked up.
  A save is two steps, `OpenFile`, which empties the file, and `WriteFile`; either may raise
  (`OpenFails`, `WriteFails`), which leaves the lock and the wallet changed in memory only. A
  file another thread unlinks in between is written to nowhere. `Restart` loads
  what can be parsed. `spoiled` is history: files that overlapping saves, failing ones or the
  save of a wallet that is not the live one, wrote last. A file is `Missing`,
  `Torn` or `Written(wallet)`.
- **CoinSelector** has both strategies as operators; `Search` is the closure of
  `_optimized_select`, a recursive function. `SelectionKeeps` is the reference: sets of coins, without
  an algorithm.
- **TransactionService** keeps Transaction objects, shared by callers and
  `_transactions`, and sends with three attempts to a node that accepts, refuses
  or accepts with the answer lost. `Replace` stops at the second `with self._lock`.
  `notify_confirmation` runs its callback under the lock (`NotifyConfirmation`,
  `FinishConfirmation`) and is called by the application with any txid and count.
  `settled` and `named` are history: which txids were notified of six confirmations, and under
  which texts an object was broadcast.
- **AddressService** generates, imports, marks and discovers: `ScanNext`,
  `GetBalance`, `MarkFound` and `Report` are the loops of `discover`, whose frame remembers the
  addresses asked and the answers. `get_gap_info` looks and stores without the lock (`GetGapInfo`,
  `StoreGapInfo`).
- **HealthMonitor** has components with their callbacks, and metrics, where one
  request is two records under two takings of the lock.
- **OrdexServices** is the container and `DaemonManager`: `TestInitialized`,
  `EnterInitialize` and one `Setup` per service, or `SetupFails`, are the double-checked
  initialisation; `StartDaemon`, `Register`, `StopDaemon`, `Stopped` and
  `Forget` the manager's unlocked steps.

**Network** composes the tasks of one event loop. **NodeConnection** is the
stream: a message is a header part and a payload part, which arrive apart, and
either read may time out. A payload read where a header is due (`Misread`) raises, and leaves what
the 24 bytes of a header did not take of it, or of the next part. **BlockSynchronizer** EXTENDS it with `ChainState`
and the three downloads (`TakeHeaders`, `TakeBlock`, `TakeBlocks` are what
follows a `recv_message`; `AddHeaders` is the loop over a message's headers), and has the peer, which answers in order, grows,
reorganises and speaks unasked. `returned` is history of the last
`request_block`, `clean` whether no answer was outstanding when it was sent.
**PeerManager** has several tasks that give up control in `connect`, `handshake`
and `close`.

**Primitives** runs one of three self-contained parts: LRUCache, or one of two pure ones. **Script** is the interpreter, one
action per group of opcodes of `evaluate`, over scripts as sequences of bytes;
`ran` and `chosen` are history. **Consensus** has compact targets, both
retargeting calculations, the network that has none (`pow_no_retargeting`) and the subsidy as
operators, with a chain that adjusts its target period by period and mines its halving intervals.

## The runs

| run | configuration | shows |
|---|---|---|
| TxTracker | 2 threads, 2 transactions, 2 wallets, counts 0, 1, 6, one handler | `TypeOK`, `NoTrackedTxHidden`, `PendingIsUnconfirmed`, `HandlersSeeAnnouncedState`, `ConfirmedIsAnnounced` |
| BlockService | 4 blocks in 2 branches, caches of 2, up to 3 chain moves, 1 failed call, 6 workloads | `EntriesMatchKeys`, `ListenersKnowTip`, `ReorgEventsChain`, `FollowsNode` |
| BlockRpcClient | the same tree, the package's client, a thread that polls again and again | `PollsReachTip` is violated |
| BlockStaleCache | the same tree, caches that hold everything, one poller | `CacheFollowsReorg` is violated |
| MempoolService | 2 transactions, 4 changes of the pool, 1 failed call, 3 workloads | `LoopUndisturbed`, `PendingIsUntold`, `RemovedByDiffMeansLeft`, `ConfirmedIsFinal` |
| MempoolFailure | the polling workload with a failed call | `RemovedMeansLeft` is violated |
| NotificationService | 2 threads, 2 callbacks, histories of 1, 0 or 2 attempts, 4 bounds | `HistoryIsRecent`, `AllRegisteredRun`, `HistoryTellsTruth`, `RepeatsOnlyUnanswered`, `NothingAfterRemoval`, `EmitsSettle` |
| NodePool | 1 url, 2 objects, 2 request threads, 2 loops, 4 scopes | `ListenersKnowStatus`, `OneLoop`, `StopEnds`, `FailsOver` |
| Services | 2 threads, 2 wallets, 2 addresses, 6 coins, 2 transactions, gap 2, 3 rounds, 4 metrics, 2 containers, 17 scopes | `SelectionIsBest`, `ResultTellsNode`, `SixMeansNotified`, `DiscoveryCountsAnswers`, `MonitorTellsTruth`, `ServicesBelongTogether`, `RestartKeepsWallets`, `CallsReturn` |
| AddressGap | one discovery, gap 2 | `DiscoveryScansGap` is violated |
| Network | 6 blocks in 2 branches, 2 headers per message, 2 tasks, 2 peers, 5 scopes | `FramingLostByTimeout`, `RightBlock`, `SyncReachesTip`, `PeersAgree` |
| Primitives | scripts of up to 4 conditional opcodes, nested ones, all opcodes on small stacks; 13 period lengths; OXC's halvings; a cache of 2 with 4 keys, 2 values, 5 uses | `BranchesRight`, `RetargetIsSteady`, `SupplyIsCapped`, `KeepsMostRecentlyUsed`, `KeepsPromise` |

The type invariants of the other modules are not run: each named property fails
on a value out of place. The mutants in the modules (comments "Mutant:") are
plausible errors in the code, one for each property; with the mutant in place
of the definition TLC finds the property violated.

*Bounds and why they suffice.* Two threads, since each hazard is one thread's
call between two steps of another. Two transactions, since a replacement relates
two. Two wallets and `MaxListed = 2`, so that a transaction is tracked again
under the same wallet or under another. The confirmation counts are on both
sides of the two thresholds, and going back to 0 is a reorganisation. The tree
has an extension, a replacement at the same height and a lower one; two chain
moves make a first event and a second that must fit it, three a tip that goes
up, down and up again. Caches of two evict in the middle of
every lookup. Histories of one overflow at the second entry. Two attempts are a
first and a last one, the retry; a webhook with none is recorded without a post. Five consecutive failures are counted as in the
code; a pool's nodes do not influence each other, so one url is enough.
In Services a call, a failure and a move of the node are counted; four to six
calls give two threads two or three each, which is a create, a delete or save of
one thread within a save of the other, and one more to see what is left. A gap of
two is reached from one side and from both, three rounds end a discovery that never
reaches it. In Network a branch point, a tip with an earlier time than its
parent, and full messages of two headers meet every branch of `add_header` and
of the loops. Primitives scales what TLC's 32-bit integers cannot hold: a target
has 28 bits in digits of 4, the limit is 2^22 - 1, so that the product of the
bitcoin rule just fits as it does in the code (a limit of 236 bits in 256) and
the extra shift of the litecoin rule is taken; a coin has 100 units,
with OXC's own interval and rewards and its money range. Symmetry (threads, transactions, wallets) is used in the TxTracker run only,
which checks no liveness.

*Workloads.* BlockService: a poller beside `get_tip`, a poller beside
`get_header`, a poller that also verifies, a poller alone with three chain moves,
`get_block` beside `clear_cache`, and a poller beside `get_header` over the package's client.
MempoolService: a poller that compares and records what was mined, alone or beside a
thread that untracks and compares too, or an update loop beside a thread that makes
every other call. NotificationService: handlers
with two events; one webhook and two events; two webhooks; one of each. NodePool:
two request threads with the checks and node changes; one with endpoint changes
too; checks stopped and started; an endpoint that goes down and comes up.
Services: two threads on one wallet with a restart anywhere; `sync_all` while
wallets come and go; every selection from two lists of coins, which have coins
below their own fee, equal, unconfirmed and immature ones; broadcasts with lost
answers and replacements; confirmations with objects signed and sent again;
addresses of two wallets that share a prefix; discovery while balances change, calls fail or
another thread stores gap information; components and metrics; containers; containers and daemons. Network:
headers, headers and single blocks, `download_blocks`, `listen`, peers.

*Fairness.* Weak fairness of a thread's own steps: Python schedules its threads,
RPC calls and posts have timeouts, handlers return. BlockService adds strong
fairness of `UpdateTip`, for an application that polls again and again whatever
its thread does in between: `FollowsNode` and `PollsReachTip` are statements about such an
application, the first over a client that takes keyword arguments. Services has weak fairness
of each thread; a wait for the lock a replacement holds is the exception
`CallsReturn` names. Network and Primitives state no liveness. NodePool adds strong fairness of `RecordRequest`, because
`threading.Lock` wakes a waiting thread although others take the lock in
between. Nothing makes the environment act: the node and endpoints may settle
at any time, and the bounds on their moves only say that they do.

*What the violations show.* With the package's own client
the tip is never set, however often it is polled. A discovery that stops at its gap has asked
for one address of each chain. A reorganisation
to a chain that is not lower leaves abandoned headers in the cache under their
heights. One failed RPC call has every pending tracked transaction reported
as removed.

A divergence that needs no run: `on_six_conf` registers handlers ("Register callback for 6
confirmations.", tracker.py:352) for an event no line emits, six confirmations being
announced as `confirmed` (tracker.py:273), so `StatusEvents` has no `six_conf` either.

*Conditions in the properties.* `ListenersKnowTip` and `ReorgEventsChain` assume that one thread moves the tip; with two, a slower call
overwrites a newer tip. `AllRegisteredRun` leaves out an emit during which a
handler was unregistered: the list then moves up under the loop and one handler
is skipped. `RemovedByDiffMeansLeft` leaves out failed calls and the five-second
cache of `update_tracked_transactions`. With it `PendingIsUntold`, `ConfirmedIsFinal` and
half of `LoopUndisturbed` assume `DiffUndisturbed`: `check_mempool_diff` tests and marks
without the lock, so its caller must be the only thread to track, update and confirm.
`LoopUndisturbed` is about the update loop only. `RepeatsOnlyUnanswered` does not say that an
endpoint gets an event once: the code cannot know that of a post whose answer was lost, and
repeats it; and `HistoryTellsTruth` calls such a delivery a failure, if no other attempt was
answered, as the code does. `EmitsSettle` lets a delivery thread die before its first
post. `HistoryTellsTruth` demands nothing of the attempt of a webhook added with a
`retry_count` of 0: its delivery is recorded as a failed first attempt, although there
was none. A start of the checks that finds the old
loop alive after a timed-out stop leaves no running loop; `OneLoop` and `StopEnds`
are what holds in spite of it. Handlers that call back into a service that holds its lock
deadlock (`Reentrant`, empty in the runs). `RestartKeepsWallets` leaves out wallets
being saved or deleted at that moment and files in `spoiled`: two saves of one
wallet at once may leave a file that cannot be parsed, a save that raises an old or a torn
one, and a save that follows a deletion brings the wallet back. `ResultTellsNode` leaves out lost answers:
the transaction is then with the node and a failure was returned.
`SixMeansNotified` leaves out an object broadcast under two texts, of which
the other was notified. `DiscoveryCountsAnswers` is about answers, whichever addresses they are
for, since they are all for one; what the docstring promises of addresses is `DiscoveryScansGap`. `RightBlock` speaks of requests made while no answer was outstanding: after a
timeout, or after an announcement was taken for an answer, the late answer is
taken for that of the next request. `SyncReachesTip` speaks of the peer's chain
when it gave the answer, which may be such a late one, and allows another header
to be the tip if it is as late; none is later than the tip. `BranchesRight` leaves out scripts that meet an ELSE
after a branch that was taken, which runs both, and data that looks like a
conditional's opcode, which the scan counts.

*What the code does, as found while modelling.* These are in the models as they
are in the code. Few of them contradict a sentence one could quote; where the documents
name the feature (docs/RELEASE_NOTES.md:44, docs/RPC_IMPLEMENTATION.md:126), they say that it is
there and not what it does in these cases.

- `replace` of a broadcast transaction never returns (transaction.py:453);
  `TransactionService.build` gives its builder no inputs (it has none to
  give), and asks a wallet manager for methods it has not.
- `discover` asks for index 0 of each chain in every round (address.py:168, 431; the run
  AddressGap), so a funded first address takes it through all its rounds, and the gap information
  keeps the number of the round; generating an address again forgets that it was used.
- A save that raises leaves the wallet changed in memory and its file old or torn;
  `create_wallet` and `add_address` pass the error on, `sync_wallet` and `generate_address` log it.
- A webhook's delivery thread dies unrecorded if the event's data cannot be encoded
  (notifications.py:295).
- An automatic wallet id counts the wallets there are and collides after a
  deletion, which raises (utxo.py:387); `select_coins` does not use the limits of the
  manager's own selector; `sync_wallet` with `force` does not save.
- `DaemonManager` lets two starts of one network both succeed, and a stop forget
  a daemon started meanwhile. `shutdown` only clears the flag; the next access to a
  property builds everything again.
- A failed handshake, or a peer added twice, leaves a connection open that the
  table of peers does not know.
- `get_peer_inventory` names a message type that does not exist (sync.py:242).
- `verify_script` without a signature or key answers true for the standard forms, and
  with them a signature check always fails, since the signature hash is
  computed with a function the module does not import; `from_ops` builds pushes of
  more than 75 bytes, which `evaluate` does not know. It runs one interpreter for the
  whole process (script.py:561): two threads that verify share its stack. Script
  models one evaluation at a time.
- Thresholds and interval of `HealthMonitor` are stored and not used; if every component
  is unknown, the whole is healthy.

## What is proved

TxTrackerProofs proves, for any sets of threads, transactions, wallets and
handlers and any integer counts:

- `TypeCorrect`: `Spec => []TypeOK`
- `TrackedTxVisible`: `Spec => []NoTrackedTxHidden`
- `PendingUnconfirmed`: `Spec => []PendingIsUnconfirmed`
- `HandlersConsistent`: `Spec => []HandlersSeeAnnouncedState`

All four follow from `Inductive`, `Spec => []IInv`. None but `TypeOK` is inductive
alone, so `IInv` adds three parts. `LockOwner`: the lock belongs to exactly the
thread with events left; without it a second thread could change an entry under
a running handler. `QueueAnnounces`: every queued event, not only the current
one, describes the entry; without it the next event of a queue is unknown when
the first is done. `OwnerLists`: the wallet written into an entry has it in its
list; `NoTrackedTxHidden` speaks of pending and confirmed entries only, and a
replaced entry may be tracked again. `UpdateAnnounces` is the lemma on the
thresholds: what `update_confirmations` queues fits the entry it leaves.

The assumptions are TxTracker's `ConstantsAssumption`.

NetworkProofs proves, from Network's `NetworkAssumption` (blocks form a tree whose root is the
genesis block and whose every path leads to it, bounds are positive), for any tasks, peers, blocks and times:

- `PeersAlwaysAgree`: `PeersAgree` for PeerManager by itself, and `PeersAgreeInNetwork`:
  `Spec => []PeersAgree`. `PeersAgree` alone is not inductive:
  `disconnect_peer` closes a connection before it removes the peer, so a connection
  that two peers shared would leave the second with a closed one. `IInv` therefore adds
  `ConnectionsDiffer` (no two peers share a connection), `HandshakeIsPrivate` (a
  connection in its handshake is open, in no table entry and in nobody's list of
  connections to close) and `Numbered` (connections get ascending numbers, so a
  new one differs from all that are known). Network implements PeerManager, since no step
  of the synchroniser or its connection changes the manager's state.
- `FramedUntilTimeout`: `Spec => []FramingLostByTimeout`, and `CleanRequestsGetTheirBlock`:
  `Spec => []RightBlock`. The properties speak of the next part and of the last result; `SyncInv` speaks
  of everything under way, the stream followed by what has not arrived. `Aligned`:
  while nothing was cut, headers and payloads alternate in all of it and the next part
  is the one the task waits for. `Answering`: from a clean request for a block until it
  returns, nothing else is asked, and nothing comes but this block and what the
  peer says unasked.
- `HeadersReachTip`: `Spec => []SyncReachesTip`. `HeadersInv` says of every message under way
  that its headers follow each other from one that is known (`Links`), and that a
  message which is not full leads to the peer's tip of its answer; of every locator that its
  blocks are known; of the chain that with a header it has what comes before (`Rooted`) and
  that its tip is the latest (`TipIsLatest`). The recursive functions of the module
  (`Ancestors`, the loop of `add_header`, the peer's list of headers) have first to be shown to exist and to follow
  their equations (`Repeated`, `AncestorsAre`, `AnOrder`), with the least element of a set of numbers or blocks
  in place of an induction, since induction theorems cannot be instantiated here.

NodePoolProofs proves `StatusFollowed` (`[]ListenersKnowStatus`) and `NeverTwoLoops`
(`[]OneLoop`). `ListenersKnowStatus` speaks of moments when nobody announces; the
invariant adds what holds meanwhile. `ChangesAnnounced`: a node whose status the callbacks
do not know is the very one the thread with the lock announces, under a url that
still names it. `ObjectsDiffer`: an object is known under one url, so a report by
url changes one node. `LockOwner` ties the two to the lock. `OneAlive` adds that no
loop is alive when one is about to be spawned.

MempoolServiceProofs proves `LoopSafe` (`[]LoopUndisturbed`), `PendingUntold`
(`[]PendingIsUntold`), `DiffTellsTruth` (`[]RemovedByDiffMeansLeft`) and `ConfirmedFinal`
(`Spec => ConfirmedIsFinal`), for any threads, transactions and workloads. The invariant adds
`Looping` (under the lock, what update has yet to visit is tracked), `Marking` (the
object a difference tested is still the tracked one, or none is, and was not
confirmed) and `Absence` (what an answer of the pool did not hold has been out of the
pool since it is tracked, although the pool is asked before the ids are copied). The
attempt showed that the properties were checked in fewer workloads than they claim:
they need `DiffUndisturbed`, which is now in them, and the run has a workload in
which a second thread compares.

BlockServiceProofs proves `EntriesMatch` (`[]EntriesMatchKeys`), `TipKnown`
(`[]ListenersKnowTip`) and `EventsChain` (`Spec => ReorgEventsChain`), for any tree of blocks,
any threads and cache sizes. `Local` says, per point of a call, what its locals hold: a
lookup by height carries a block of that height from `getblockhash` to the two
stores, which is what `EntriesMatchKeys` needs through the nested calls. `Followed` is the
polling thread's knowledge: from the node's answer to the assignment its `old` is
the tip, and from there to the callbacks the last event ended at `old`.

LRUCacheProofs proves `EvictsLeastRecentlyUsed` (`[]KeepsMostRecentlyUsed`) and the
refinement `ImplementsBoundedCache` (`Spec => KeepsPromise`), for any keys, values and size.
`Shape` says that `order` enumerates the stored keys, each once; `Recency` that it is sorted
by last use, every stored key was used later than any that is gone, and nothing is
gone from a cache that was never full.

NotificationServiceProofs proves `HistoryRecent` (`[]HistoryIsRecent`), `RunsAllRegistered`
(`[]AllRegisteredRun`), `RepeatsBounded` (`[]RepeatsOnlyUnanswered`), `RemovedIsSilent`
(`[]NothingAfterRemoval`) and `RecordsTruth` (`[]HistoryTellsTruth`), for any threads, handlers,
webhooks, attempts and limits. `Ahead` is the loop invariant of `emit`: a handler there
was when it began has been run or is at the reached position or after it, in the list
other threads append to. `Numbered` joins bus and webhooks: the events threads are busy
with differ, and one that is not matched yet is in no delivery. From it follow `Matched`
(a webhook and event are started once) and with that `Outcomes` (a delivery goes on exactly
as long as no post was answered with success and attempts are left, or its thread has died), `Logged` (a record is of a delivery
that has ended) and `Removed`. The proof of `HistoryTellsTruth` failed for
webhooks without attempts, which the run did not have; the property and the run do now.

TxTrackerProofs also proves `NeverSilent` (`[]ConfirmedIsAnnounced`), with `Owed`: a confirmed
entry has been announced, or the thread with the lock still has the event in its queue.

ServicesProofs proves, from `ServicesAssumption` (finitely many threads and wallets, limits are
numbers, `None` is none of them), for any threads, wallets, transactions, components, networks and workloads:

- `ServicesAlwaysBelongTogether`: `Spec => []ServicesBelongTogether`. `ContainersInv` adds `SettingUp`:
  the thread that sets up holds the lock of the container, which is not yet
  initialised, and what it has set up so far is of this build; and that a thread past
  `initialize` finds every service there.
- `ResultAlwaysTellsNode`: `Spec => []ResultTellsNode`, and `SixAlwaysMeansNotified`:
  `Spec => []SixMeansNotified`. `TransactionsInv`: what is about to be stored the node has,
  an object is in `_transactions` under a text it was broadcast as, and is confirmed only after such a
  text was notified (`Registered`).
- `MonitorAlwaysTellsTruth`: `Spec => []MonitorTellsTruth`. A count of errors and requests is not
  inductive, since the oldest metrics are dropped one by one. `HealthInv` pairs every
  recorded error with a latency of its own, recorded after it or still to be
  recorded by a thread (`Answerable`), so that what drops a latency drops its error first.
- `DiscoveryAlwaysCountsAnswers`: `Spec => []DiscoveryCountsAnswers`. `Discovering` is the loop
  invariant: `unused` is the run of answers without a balance at the end, no
  earlier run was as long as the gap, and a chain below its gap was asked in every round.
- `RestartAlwaysKeepsWallets`: `Spec => RestartKeepsWallets`. `WalletsInv`: each wallet has an object of
  its own, a thread that writes a file which is not spoiled is the only one
  and writes the live wallet, or a thread that deletes it will unlink the file
  (`WalletCall`), and a wallet that is not being saved or deleted and not spoiled is in
  its file as it is in memory (`Saved`).

A frame belongs to the service its thread has called (`FramesTyped`, `Goes`), so each service's
invariant is proved over its own steps, and those of the other five leave it alone.

*What the proofs found.* Four statements were not what they seemed, and are now as
they are proved. `SixMeansNotified` once named a wider exception in terms of what
the objects are now, which more sends than the run allows would have broken; the history
`named` says what was meant. `RestartKeepsWallets` once excused a wallet only
from the moment its file is open, and must also while the save is about to open it.
`SyncReachesTip` once assumed that no answer was outstanding, which it does not need. It
needs that no block is its own ancestor, which no step of the model ensures and the instance did.

Each invariant was first checked by TLC on an instance of its component's run. The
assumptions are those the modules name: limits and sizes are positive, counts are
natural numbers, `None` is no thread, block or number.

Model-checked only:

- liveness (`FollowsNode`, `EmitsSettle`, `StopEnds`, `FailsOver`, `CallsReturn`): it rests on
  fairness and so on ENABLED, which is beyond this prover;
- `SelectionIsBest`: it compares a depth-first search over sums and a sort with every
  set of coins; what the library's folds and sorts compute has no theorems here;
- `BranchesRight`: how a script's bytes are scanned, a fold over data as well;
- `RetargetIsSteady`: rounding to digits and powers of the base, true of the
  configured width and limit and not of arbitrary ones;
- `SupplyIsCapped`: a sum of the network's own rewards and interval, numbers rather
  than a relation of constants.

## Plan

1. Done: TxTracker with proofs, LRUCache over BoundedCache, BlockService,
   MempoolService, NotificationService of EventBus and WebhookDelivery, NodePool.
2. Done: WalletStore, CoinSelector, TransactionService, AddressService,
   HealthMonitor and OrdexServices in Services; NodeConnection, BlockSynchronizer and
   PeerManager in Network; Script, Consensus and LRUCache in Primitives.
3. Done: proofs of TxTracker, LRUCache, BlockService, MempoolService, NotificationService,
   NodePool, Network and Services. Every safety property of these runs is proved
   except `SelectionIsBest`.
4. Open: the greedy selection of CoinSelector (that its sum covers target and fee),
   with theorems about folds; the subsidy's bound from an assumption on interval and
   rewards.

## Not modelled

Cryptography, key derivation, encodings and wire formats: functions of large
numbers and bytes without control state. The command line, configuration and
logging: input and output around the services. `RpcClient`: stateless, present as
the environment's answers and failures, and in BlockService as the client that takes no
keyword arguments, so that a call that names one raises `TypeError`.
`WalletTracker`: sums and a bounded history, each call one step under one lock.
Getters, statistics and setters of clients. `subscribe` of BlockService and the broadcast
callbacks: lists that nothing, or a plain loop, calls. The process around the
daemons: signals and an endless loop. Timestamps and payloads: data no property
tells apart.
