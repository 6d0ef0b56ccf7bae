------------------------------- MODULE Services -------------------------------
(***************************************************************************)
(* The services an application thread calls for money: the wallets of      *)
(* ordex/wallet/utxo.py and the transactions, addresses and health monitor *)
(* of ordex/rpc, with one node behind them.  Every thread may call every   *)
(* service; a behaviour's scope says which calls it makes.                 *)
(***************************************************************************)
EXTENDS Integers, Sequences, FiniteSets

CONSTANTS
    Thread, None,
    Scopes,         \* bounds: the scopes a behaviour may have
    WalletId, Address, UnspentLists, Payments, MaxObjects,
    Inputs, Outputs, FeeRates, MaxTransactions,
    Owner, Prefix, Derivation, Imported, GapLimit, MaxScan, MaxInfos,
    Component, MaxMetrics,
    NetworkName, MaxContainers

ASSUME ServicesAssumption ==
    /\ \A s \in Scopes : /\ s.threads \subseteq Thread
                         /\ s.calls \in Nat /\ s.failures \in Nat
    /\ \A s \in Scopes : s.ids \subseteq WalletId /\ s.inputs \subseteq Inputs
    /\ None \notin Thread /\ None \notin Nat /\ None \notin NetworkName
    /\ IsFiniteSet(Thread) /\ IsFiniteSet(WalletId)
    /\ GapLimit \in Nat /\ MaxScan \in Nat /\ MaxMetrics \in Nat \ {0}

VARIABLES
    scope, calls, failures, frame,
    objects, wallets, stats, files, walletLock, unspent, spoiled,
    transactions, registry, monitored, txLock, pool, lost, settled, named,
    infos, cache, derived, gapInfo, funded,
    components, metrics, told,
    containers, daemons

Wallets == INSTANCE WalletStore
Transactions == INSTANCE TransactionService
Addresses == INSTANCE AddressService
Health == INSTANCE HealthMonitor
Containers == INSTANCE OrdexServices

walletVars == <<objects, wallets, stats, files, walletLock, unspent, spoiled>>
txVars == <<transactions, registry, monitored, txLock, pool, lost, settled, named>>
addressVars == <<infos, cache, derived, gapInfo, funded>>
healthVars == <<components, metrics, told>>
containerVars == <<containers, daemons>>

vars == <<scope, calls, failures, frame, walletVars, txVars, addressVars, healthVars,
          containerVars>>

OnWallets(action) ==
    /\ action
    /\ UNCHANGED <<txVars, addressVars, healthVars, containerVars>>

OnTransactions(action) ==
    /\ action
    /\ UNCHANGED <<walletVars, addressVars, healthVars, containerVars>>

OnAddresses(action) ==
    /\ action
    /\ UNCHANGED <<walletVars, txVars, healthVars, containerVars>>

OnHealth(action) ==
    /\ action
    /\ UNCHANGED <<walletVars, txVars, addressVars, containerVars>>

OnContainers(action) ==
    /\ action
    /\ UNCHANGED <<walletVars, txVars, addressVars, healthVars>>

Init ==
    /\ scope \in Scopes
    /\ calls = 0 /\ failures = 0
    /\ frame = [t \in Thread |-> [at |-> "idle"]]
    /\ Wallets!Init /\ Transactions!Init /\ Addresses!Init /\ Health!Init
    /\ Containers!Init

\* A thread takes the next step of its operation.
Continue(t) ==
    \/ OnWallets(Wallets!Step(t))
    \/ OnTransactions(Transactions!Step(t))
    \/ OnAddresses(Addresses!Step(t))
    \/ OnHealth(Health!Step(t))
    \/ OnContainers(Containers!Step(t))

\* A thread calls a service.
Request(t) ==
    \/ OnWallets(Wallets!Request(t))
    \/ OnTransactions(Transactions!Request(t))
    \/ OnAddresses(Addresses!Request(t))
    \/ OnHealth(Health!Request(t))
    \/ OnContainers(Containers!Request(t))

\* The process ends and starts again: what is not in a file is gone.
Restart ==
    /\ Wallets!Restart
    /\ Transactions!Restarted /\ Addresses!Restarted /\ Health!Restarted
    /\ Containers!Restarted

\* The node, the other payers, and the end of the process.
Environment ==
    \/ OnWallets("sync" \in scope.kinds /\ Wallets!NodeMoves)
    \/ Restart
    \/ OnAddresses("discover" \in scope.kinds /\
         \E c \in Addresses!Chain, w \in Owner :
            Addresses!BalanceMoves(<<"bip84", c, 0, Prefix[w]>>))

Next ==
    \/ \E t \in Thread : Continue(t) \/ Request(t)
    \/ Environment

Spec == Init /\ [][Next]_vars

\* A thread that can go on does so.
FairSpec == Spec /\ \A t \in Thread : WF_vars(Continue(t))

-----------------------------------------------------------------------------

\* Every selection an application gets is the one its strategy promises, for
\* the coins the wallet had (CoinSelector, select_coins).
SelectionIsBest ==
    \A t \in Thread : frame[t].at = "selected" =>
        LET f == frame[t]
        IN Wallets!SelectionKeeps(Wallets!Selected(t), f.coins, f.payment.target,
                                  f.payment.rate, f.payment.selector)

\* A restart loses nothing but what was being saved or deleted, and what
\* overlapping saves, a save that raised or a save of a deleted wallet had
\* spoiled, until it is saved again: every other wallet is there again with its
\* addresses, and no other one appears (_save_wallet, delete_wallet,
\* _load_wallets).
Saving(id) ==
    \E t \in Thread :
        \/ frame[t].at = "open" /\ objects[frame[t].object].id = id
        \/ t \in Wallets!Writers(id)
        \/ frame[t].at = "unlink" /\ frame[t].id = id

RestartKeepsWallets ==
    [][Restart => \A id \in WalletId :
         Saving(id) \/ id \in spoiled \/
         IF wallets[id] = None THEN wallets'[id] = None
         ELSE /\ wallets'[id] # None
              /\ objects'[wallets'[id]].addresses = objects[wallets[id]].addresses]_vars

ResultTellsNode == Transactions!ResultTellsNode
SixMeansNotified == Transactions!SixMeansNotified
DiscoveryCountsAnswers == Addresses!DiscoveryCountsAnswers
DiscoveryScansGap == Addresses!DiscoveryScansGap
MonitorTellsTruth == Health!MonitorTellsTruth
ServicesBelongTogether == Containers!ServicesBelongTogether

\* Every call returns, unless a replacement of a broadcast transaction was
\* asked for: that thread waits for itself, and a broadcast behind it for it.
CallsReturn ==
    \A t \in Thread :
        ~Wallets!Ready(t) ~> Wallets!Ready(t) \/ \E u \in Thread : frame[u].at = "relock"
=============================================================================
