------------------------------ MODULE MCServices ------------------------------
(* Small instances of Services for TLC.                                     *)
EXTENDS Services

CONSTANTS t1, t2, a1, a2, w1, w2, w3, imported

Coin(amount, confirmations, coinbase, address) ==
    [amount |-> amount, confirmations |-> confirmations, coinbase |-> coinbase,
     address |-> address]

\* Coins smaller than their own fee, equal coins, unconfirmed and immature
\* ones.
MCUnspentLists ==
    {<<Coin(650, 6, FALSE, a1), Coin(300, 1, FALSE, a2), Coin(301, 6, FALSE, a1),
       Coin(100, 1, FALSE, a1), Coin(900, 99, TRUE, a2), Coin(800, 0, FALSE, a1)>>,
     <<Coin(300, 1, FALSE, a1), Coin(700, 100, TRUE, a1), Coin(300, 6, FALSE, a1),
       Coin(449, 6, FALSE, a2)>>}

MCPayments ==
    {[target |-> target, rate |-> rate, selector |->
        [strategy |-> strategy, minConfirmations |-> least,
         maxInputs |-> most, relayFee |-> 0]] :
        target \in {1, 300, 650}, rate \in {0, 1},
        strategy \in {"greedy", "optimized"}, least \in {1, 6}, most \in {0, 2}}

MCInputs == {<<>>, <<900>>}

MCOutputs == {<<[amount |-> 200, change |-> FALSE]>>}

MCPrefix == [w \in {w1, w2, w3} |-> IF w = w3 THEN "other" ELSE "wallet_1"]

FirstList == CHOOSE l \in MCUnspentLists : Len(l) = 4

Scope(threads, kinds, bound, raises) ==
    [threads |-> threads, kinds |-> kinds, calls |-> bound, failures |-> raises,
     ids |-> {1}, inputs |-> {<<900>>}, owners |-> {w1}, changes |-> {TRUE},
     unspent |-> FirstList]

\* One thread scans one wallet while its balances may move.
MCDiscovery == {Scope({t1}, {"discover"}, 1, 1)}

\* Two threads save, delete and synchronise a wallet, saves may raise and the
\* process may end anywhere; sizes change under sync_all; every kind of
\* selection; broadcasts with lost answers, replacements and confirmations;
\* discovery while balances move; components and metrics; containers and
\* daemons, whose builds may raise.
MCScopes ==
    {Scope({t1, t2}, {"create", "delete", "sync", "restart"}, 5, 1),
     Scope({t1, t2}, {"create", "delete", "sync", "restart"}, 4, 2),
     Scope({t1, t2}, {"create", "delete", "address", "restart"}, 5, 1),
     Scope({t1, t2}, {"create", "delete", "address", "restart"}, 4, 2),
     [Scope({t1, t2}, {"create", "syncAll"}, 3, 1) EXCEPT !.ids = {1, 2}],
     Scope({t1}, {"create", "sync", "select"}, 3, 1),
     Scope({t1, t2}, {"build", "sign", "broadcast", "replace"}, 5, 2),
     Scope({t1, t2}, {"build", "sign", "broadcast", "monitor", "notify"}, 6, 0),
     [Scope({t1}, {"build", "sign", "broadcast"}, 4, 1)
        EXCEPT !.inputs = {<<>>, <<900>>}, !.changes = BOOLEAN],
     [Scope({t1}, {"generate", "import", "mark", "gap"}, 3, 0) EXCEPT !.owners = {w1, w2}],
     Scope({t1, t2}, {"discover", "gap"}, 2, 0),
     Scope({t1}, {"discover", "gap"}, 2, 1),
     Scope({t1}, {"discover"}, 1, 3),
     Scope({t1, t2}, {"component", "request", "reset"}, 5, 0),
     Scope({t1, t2}, {"access"}, 4, 1),
     Scope({t1, t2}, {"access", "daemon"}, 4, 0),
     Scope({t1}, {"daemon"}, 4, 1)}
=============================================================================
