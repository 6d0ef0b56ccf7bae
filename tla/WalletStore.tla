----------------------------- MODULE WalletStore -----------------------------
(***************************************************************************)
(* ordex/wallet/utxo.py, class WalletManager: wallets in memory, each with *)
(* a JSON file, their coins fetched from the node.                         *)
(*                                                                         *)
(* A wallet is an object: a thread keeps the object it looked up, whatever *)
(* the dictionary says later.  Wallet n has the id "wallet_n", given by    *)
(* the caller or counted by create_wallet.  A file is missing, holds a     *)
(* wallet, or is torn: it cannot be parsed.                                *)
(***************************************************************************)
EXTENDS ServiceThreads, CoinSelector

CONSTANTS
    WalletId,       \* a set 1..n
    Address,
    UnspentLists,   \* the answers listunspent may give: sequences of coins that
                    \* also have an address
    Payments,       \* what is asked of a selection: [target, rate, selector]
    MaxObjects      \* bound: wallet objects ever made

VARIABLES
    objects,        \* the Wallet objects, in the order they were made
    wallets,        \* _wallets: id -> number of the object
    stats,          \* _stats
    files,          \* the storage directory: id -> content
    walletLock,     \* _lock
    unspent,        \* the node's list of coins
    spoiled         \* history: files last written by overlapping saves, by one
                    \* that raised, or for a wallet that is not the live one

storeVars == <<objects, wallets, stats, files, walletLock, unspent, spoiled>>

\* What a file may be.
Missing == [holds |-> "nothing"]
Torn == [holds |-> "part"]
Written(wallet) == [holds |-> "wallet", wallet |-> wallet]

Live == {id \in WalletId : wallets[id] # None}

-----------------------------------------------------------------------------
(* Balances: Wallet.get_stats and WalletManager.get_balance.                *)

Balance(coins, confirmations) ==
    Total(SelectSeq(coins, LAMBDA coin : coin.confirmations >= confirmations))

StatsOf(coins) ==
    [count |-> Len(coins), total |-> Balance(coins, 0),
     confirmed |-> Balance(coins, 6),
     unconfirmed |-> Balance(coins, 1) - Balance(coins, 6),
     immature |-> Total(SelectSeq(coins, LAMBDA coin :
                          coin.coinbase /\ coin.confirmations < 100))]

-----------------------------------------------------------------------------
(* Saving: open for writing empties the file, then the text is written.  The *)
(* file may have been unlinked meanwhile; the text then goes nowhere.        *)

SaveThen(object, then) == [at |-> "open", object |-> object, then |-> then]

Writers(id) == {t \in Thread : /\ frame[t].at = "write" /\ frame[t].linked
                               /\ objects[frame[t].object].id = id}

\* open(path, 'w') of to_file.
OpenFile(t) ==
    LET f == frame[t]
        id == objects[f.object].id
        others == Writers(id)
    IN /\ f.at = "open"
       /\ files' = [files EXCEPT ![id] = Torn]
       /\ frame' = [u \in Thread |->
            CASE u = t -> [at |-> "write", object |-> f.object, then |-> f.then,
                           linked |-> TRUE, alone |-> others = {}]
              [] u \in others -> [frame[u] EXCEPT !.alone = FALSE]
              [] OTHER -> frame[u]]
       /\ spoiled' = IF others = {} /\ wallets[id] = f.object
                     THEN spoiled ELSE spoiled \cup {id}
       /\ UNCHANGED <<scope, calls, failures, objects, wallets, stats, walletLock, unspent>>

\* The lock, if the thread holds it, is released when its save ends.
Released(t) == IF walletLock = t THEN None ELSE walletLock

\* open raises: create_wallet and add_address let it through with the wallet
\* changed in memory only, sync_wallet and generate_address log it.
OpenFails(t) ==
    LET f == frame[t]
    IN /\ f.at = "open"
       /\ spoiled' = spoiled \cup {objects[f.object].id}
       /\ walletLock' = Released(t)
       /\ Fail(t, f.then)
       /\ UNCHANGED <<objects, wallets, stats, files, unspent>>

\* json.dump of to_file and the end of the with blocks.
WriteFile(t) ==
    LET f == frame[t]
        wallet == objects[f.object]
        id == wallet.id
    IN /\ f.at = "write"
       /\ \/ f.linked /\ files' = [files EXCEPT ![id] = Written(wallet)]
          \/ f.linked /\ ~f.alone /\ files' = [files EXCEPT ![id] = Torn]
          \/ ~f.linked /\ UNCHANGED files
       /\ spoiled' = IF f.linked /\ f.alone /\ wallets[id] = f.object
                     THEN spoiled \ {id} ELSE spoiled
       /\ walletLock' = Released(t)
       /\ Go(t, f.then)
       /\ UNCHANGED <<objects, wallets, stats, unspent>>

\* json.dump raises midway, or the file cannot be closed.
WriteFails(t) ==
    LET f == frame[t]
        id == objects[f.object].id
    IN /\ f.at = "write"
       /\ files' = IF f.linked THEN [files EXCEPT ![id] = Torn] ELSE files
       /\ spoiled' = IF f.linked THEN spoiled \cup {id} ELSE spoiled
       /\ walletLock' = Released(t)
       /\ Fail(t, f.then)
       /\ UNCHANGED <<objects, wallets, stats, unspent>>

-----------------------------------------------------------------------------
(* Wallets.                                                                 *)

\* create_wallet up to _save_wallet.  An id in use raises.
CreateWallet(t, id, addresses) ==
    /\ walletLock = None
    /\ IF id \in Live
       THEN Call(t, "create", Idle) /\ UNCHANGED <<objects, wallets, walletLock>>
       ELSE /\ Len(objects) < MaxObjects
            /\ objects' = Append(objects, [id |-> id, addresses |-> addresses, coins |-> <<>>])
            /\ wallets' = [wallets EXCEPT ![id] = Len(objects')]
            /\ walletLock' = t
            /\ Call(t, "create", SaveThen(Len(objects'), Idle))
    /\ UNCHANGED <<stats, files, unspent, spoiled>>

\* delete_wallet up to unlink.  _stats keeps its entry.
DeleteWallet(t, id) ==
    /\ walletLock = None
    /\ IF id \in Live
       THEN /\ wallets' = [wallets EXCEPT ![id] = None]
            /\ walletLock' = t
            /\ Call(t, "delete", [at |-> "unlink", id |-> id])
       ELSE Call(t, "delete", Idle) /\ UNCHANGED <<wallets, walletLock>>
    /\ UNCHANGED <<objects, stats, files, unspent, spoiled>>

\* path.exists and path.unlink of delete_wallet.
Unlink(t) ==
    LET id == frame[t].id
    IN /\ frame[t].at = "unlink"
       /\ files' = [files EXCEPT ![id] = Missing]
       /\ frame' = [u \in Thread |->
            CASE u = t -> Idle
              [] u \in Writers(id) -> [frame[u] EXCEPT !.linked = FALSE]
              [] OTHER -> frame[u]]
       /\ spoiled' = spoiled \ {id}
       /\ walletLock' = None
       /\ UNCHANGED <<scope, calls, failures, objects, wallets, stats, unspent>>

\* sync_wallet up to listunspent, then on as the frame then.
Syncing(id, force, then) ==
    [at |-> "listunspent", object |-> wallets[id],
     asked |-> objects[wallets[id]].addresses, force |-> force, then |-> then]

SyncWallet(t, id, force) ==
    /\ Call(t, "sync", IF id \in Live THEN Syncing(id, force, Idle) ELSE Idle)
    /\ UNCHANGED storeVars

\* The rest of sync_wallet when listunspent answers, or raises.
ListUnspent(t) ==
    LET f == frame[t]
        answer == SelectSeq(unspent, LAMBDA coin : f.asked = {} \/ coin.address \in f.asked)
    IN /\ f.at = "listunspent"
       /\ \/ /\ objects' = [objects EXCEPT ![f.object].coins = answer]
             /\ stats' = [stats EXCEPT ![objects[f.object].id] = StatsOf(answer)]
             /\ Go(t, IF f.force THEN f.then ELSE SaveThen(f.object, f.then))
          \/ Fail(t, f.then) /\ UNCHANGED <<objects, stats>>
       /\ UNCHANGED <<wallets, files, walletLock, unspent, spoiled>>

\* sync_all: a dictionary that changes size ends the loop with an exception.
SyncAll(t) ==
    /\ Call(t, "syncAll", [at |-> "each", todo |-> Live, size |-> Cardinality(Live)])
    /\ UNCHANGED storeVars

SyncNext(t) ==
    LET f == frame[t]
    IN /\ f.at = "each"
       /\ IF f.size # Cardinality(Live) \/ f.todo \cap Live = {}
          THEN Go(t, Idle)
          ELSE \E id \in f.todo \cap Live :
                 Go(t, Syncing(id, FALSE, [f EXCEPT !.todo = @ \ {id}]))
       /\ UNCHANGED storeVars

\* Mutant: the wallet is not saved.
AddAddressUnsaved(t, id, address) ==
    /\ IF id \in Live /\ address \notin objects[wallets[id]].addresses
       THEN /\ objects' = [objects EXCEPT ![wallets[id]].addresses = @ \cup {address}]
            /\ Call(t, "address", Idle)
       ELSE Call(t, "address", Idle) /\ UNCHANGED objects
    /\ UNCHANGED <<wallets, stats, files, walletLock, unspent, spoiled>>

\* add_address.
AddAddress(t, id, address) ==
    /\ IF id \in Live /\ address \notin objects[wallets[id]].addresses
       THEN /\ objects' = [objects EXCEPT ![wallets[id]].addresses = @ \cup {address}]
            /\ Call(t, "address", SaveThen(wallets[id], Idle))
       ELSE Call(t, "address", Idle) /\ UNCHANGED objects
    /\ UNCHANGED <<wallets, stats, files, walletLock, unspent, spoiled>>

\* generate_address.
GenerateAddress(t, id) ==
    /\ Call(t, "address", IF id \in Live
                          THEN [at |-> "getnewaddress", object |-> wallets[id]] ELSE Idle)
    /\ UNCHANGED storeVars

\* The node gives an address nobody has, or raises: it may have none left.
GetNewAddress(t) ==
    LET f == frame[t]
        known == UNION {objects[n].addresses : n \in DOMAIN objects}
    IN /\ f.at = "getnewaddress"
       /\ \/ \E address \in Address \ known :
               /\ objects' = [objects EXCEPT ![f.object].addresses = @ \cup {address}]
               /\ Go(t, SaveThen(f.object, Idle))
          \/ Fail(t, Idle) /\ UNCHANGED objects
          \/ Address \subseteq known /\ Go(t, Idle) /\ UNCHANGED objects
       /\ UNCHANGED <<wallets, stats, files, walletLock, unspent, spoiled>>

-----------------------------------------------------------------------------
(* Selection.                                                               *)

\* select_coins: synchronises a wallet that has no statistics, and uses a
\* selector with the strategy asked for and the defaults of CoinSelector.
SelectCoins(t, id, payment) ==
    LET then == [at |-> "select", id |-> id, payment |->
                   [payment EXCEPT !.selector.minConfirmations = 1,
                                   !.selector.maxInputs = 0]]
    IN /\ Call(t, "select",
            CASE stats[id] # None -> then
              [] stats[id] = None /\ id \in Live -> Syncing(id, FALSE, then)
              [] OTHER -> Idle)
       /\ UNCHANGED storeVars

\* A caller's own CoinSelector over a wallet's coins.
SelectOwn(t, id, payment) ==
    /\ Call(t, "select", [at |-> "select", id |-> id, payment |-> payment])
    /\ UNCHANGED storeVars

FinishSelect(t) ==
    LET f == frame[t]
    IN /\ f.at = "select"
       /\ Go(t, IF f.id \in Live
                THEN [at |-> "selected", coins |-> objects[wallets[f.id]].coins,
                      payment |-> f.payment]
                ELSE Idle)
       /\ UNCHANGED storeVars

\* What the selector answers to thread t.
Selected(t) ==
    LET f == frame[t]
    IN Select(f.coins, f.payment.target, f.payment.rate, f.payment.selector)

-----------------------------------------------------------------------------
(* The environment.                                                         *)

NodeMoves ==
    /\ unspent' \in UnspentLists \ {unspent}
    /\ Outside
    /\ UNCHANGED <<objects, wallets, stats, files, walletLock, spoiled>>

\* The process ends and starts again: __init__ and _load_wallets.
Loaded == {id \in WalletId : files[id].holds = "wallet"}

Restart ==
    LET order == CHOOSE s \in [1..Cardinality(Loaded) -> Loaded] :
                   \A i, j \in DOMAIN s : i # j => s[i] # s[j]
    IN /\ failures < scope.failures
       /\ "restart" \in scope.kinds
       /\ failures' = failures + 1
       /\ frame' = [t \in Thread |-> Idle]
       /\ objects' = [n \in DOMAIN order |-> files[order[n]].wallet]
       /\ wallets' = [id \in WalletId |->
            IF id \in Loaded THEN CHOOSE n \in DOMAIN order : order[n] = id ELSE None]
       /\ stats' = [id \in WalletId |-> None]
       /\ walletLock' = None
       /\ spoiled' = {}
       /\ UNCHANGED <<scope, calls, files, unspent>>

-----------------------------------------------------------------------------

Init ==
    /\ objects = <<>>
    /\ wallets = [id \in WalletId |-> None]
    /\ stats = [id \in WalletId |-> None]
    /\ files = [id \in WalletId |-> Missing]
    /\ walletLock = None
    /\ unspent = scope.unspent
    /\ spoiled = {}

Step(t) ==
    \/ OpenFile(t) \/ OpenFails(t) \/ WriteFile(t) \/ WriteFails(t)
    \/ Unlink(t) \/ ListUnspent(t) \/ SyncNext(t) \/ GetNewAddress(t) \/ FinishSelect(t)

Request(t) ==
    \/ \E id \in scope.ids :
         \/ \E a \in {{}, Address} : CreateWallet(t, id, a)
         \/ DeleteWallet(t, id)
         \/ \E force \in BOOLEAN : SyncWallet(t, id, force)
         \/ \E a \in Address : AddAddress(t, id, a)
         \/ GenerateAddress(t, id)
         \/ \E p \in Payments : SelectCoins(t, id, p) \/ SelectOwn(t, id, p)
    \/ SyncAll(t)

=============================================================================
