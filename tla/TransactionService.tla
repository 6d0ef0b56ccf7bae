-------------------------- MODULE TransactionService --------------------------
(***************************************************************************)
(* ordex/rpc/transaction.py: transactions are built, signed, broadcast     *)
(* with three attempts, replaced and confirmed.                            *)
(*                                                                         *)
(* A transaction is an object that its holders share with _transactions.   *)
(* Its raw text depends on nothing but the number of inputs: <<"signed",   *)
(* n>> or <<"raw", n>>, None before; the node names a transaction by its     *)
(* text.  The node's pool is the environment.                              *)
(***************************************************************************)
EXTENDS ServiceThreads
LOCAL INSTANCE SequencesExt

CONSTANTS
    Inputs,         \* sequences of input amounts transactions are built from
    Outputs,        \* sequences of outputs: [amount, change]
    FeeRates,
    MaxTransactions \* bound: transaction objects ever made

VARIABLES
    transactions,   \* the Transaction objects, in the order they were made
    registry,       \* _transactions: txid -> number of the object
    monitored,      \* _callbacks_confirmed: the txids with a callback
    txLock,         \* _lock
    pool,           \* the texts the node has accepted
    lost,           \* history: texts the node accepted with an answer, or a record,
                    \* that was lost
    settled,        \* history: the txids notified with six confirmations or more
    named           \* history: the <<text, object>> pairs that were in _transactions

txVars == <<transactions, registry, monitored, txLock, pool, lost, settled, named>>

Text == {"signed", "raw"} \X {Len(i) : i \in Inputs}

-----------------------------------------------------------------------------
(* TransactionBuilder.                                                      *)

SumOf(amounts) == FoldSeq(LAMBDA amount, sum : amount + sum, 0, amounts)

\* calculate_fee: the weight is four times the size.
CalculateFee(size, rate) == IF rate <= 0 THEN 0 ELSE (4 * size * rate) \div 4

\* build, of a builder with the inputs and outputs given.
Built(inputs, outputs, rate, changeAddress) ==
    LET size == Len(inputs) * 180 + Len(outputs) * 34 + 10
        fee == CalculateFee(size, rate)
        change == SumOf(inputs) - SumOf([i \in DOMAIN outputs |-> outputs[i].amount]) - fee
    IN [inputs |-> inputs, fee |-> fee, status |-> "draft", txid |-> None, raw |-> None,
        outputs |-> IF change > 0 /\ changeAddress
                    THEN Append(outputs, [amount |-> change, change |-> TRUE])
                    ELSE outputs]

\* sign.
Signed(tx) == [tx EXCEPT !.status = "signed", !.raw = <<"signed", Len(tx.inputs)>>]

-----------------------------------------------------------------------------

\* A caller's builder, or build of the service, which gives it no inputs.
Build(t, inputs, outputs, rate, changeAddress) ==
    /\ Len(transactions) < MaxTransactions
    /\ transactions' = Append(transactions, Built(inputs, outputs, rate, changeAddress))
    /\ Call(t, "build", Idle)
    /\ UNCHANGED <<registry, monitored, txLock, pool, lost, settled, named>>

Sign(t, n) ==
    /\ transactions' = [transactions EXCEPT ![n] = Signed(@)]
    /\ Call(t, "sign", Idle)
    /\ UNCHANGED <<registry, monitored, txLock, pool, lost, settled, named>>

\* broadcast up to the first sendrawtransaction.
Broadcast(t, n) ==
    LET tx == transactions[n]
        raw == IF tx.raw = None THEN <<"raw", Len(tx.inputs)>> ELSE tx.raw
    IN /\ transactions' = [transactions EXCEPT ![n].raw = raw]
       /\ Call(t, "broadcast", [at |-> "send", tx |-> n, raw |-> raw, attempt |-> 1])
       /\ UNCHANGED <<registry, monitored, txLock, pool, lost, settled, named>>

\* Mutant: every broadcast ends as a success.
SentHappily(f, success) == [at |-> "sent", raw |-> f.raw, success |-> TRUE]

\* What broadcast returns.
Sent(f, success) == [at |-> "sent", raw |-> f.raw, success |-> success]

\* One attempt of TransactionBroadcaster.broadcast.  The node accepts a text,
\* or answers for one it has, or refuses either; the answer may be lost.
SendRawTransaction(t) ==
    LET f == frame[t]
        again == IF f.attempt < 3 THEN [f EXCEPT !.attempt = @ + 1] ELSE Sent(f, FALSE)
    IN /\ f.at = "send"
       /\ \/ /\ pool' = pool \cup {f.raw}
             /\ transactions' = [transactions EXCEPT ![f.tx].status = "broadcast",
                                                     ![f.tx].txid = f.raw]
             /\ Go(t, [at |-> "store", tx |-> f.tx, raw |-> f.raw])
             /\ UNCHANGED lost
          \/ /\ pool' = pool \cup {f.raw}
             /\ lost' = lost \cup {f.raw}
             /\ Fail(t, again)
             /\ UNCHANGED transactions
          \/ /\ f.raw \in pool
             /\ Go(t, again)
             /\ UNCHANGED <<transactions, pool, lost>>
          \/ /\ Fail(t, again)
             /\ UNCHANGED <<transactions, pool, lost>>
       /\ UNCHANGED <<registry, monitored, txLock, settled, named>>

\* The rest of broadcast after a success.
Store(t) ==
    LET f == frame[t]
    IN /\ f.at = "store" /\ txLock = None
       /\ registry' = [registry EXCEPT ![f.raw] = f.tx]
       /\ named' = named \cup {<<f.raw, f.tx>>}
       /\ Go(t, Sent(f, TRUE))
       /\ UNCHANGED <<transactions, monitored, txLock, pool, lost, settled>>

\* replace: the replacement of a broadcast transaction is built and signed,
\* and then the thread asks for the lock it holds: no step follows.
Replace(t, txid, rate) ==
    LET original == transactions[registry[txid]]
        kept == SelectSeq(original.outputs, LAMBDA o : ~o.change)
    IN /\ txLock = None
       /\ IF registry[txid] # None /\ original.status = "broadcast"
          THEN /\ txLock' = t
               /\ Call(t, "replace",
                       [at |-> "relock",
                        tx |-> Signed(Built(original.inputs, kept, rate, FALSE))])
          ELSE Call(t, "replace", Idle) /\ UNCHANGED txLock
       /\ UNCHANGED <<transactions, registry, monitored, pool, lost, settled, named>>

Monitor(t, txid) ==
    /\ txLock = None
    /\ monitored' = monitored \cup {txid}
    /\ Call(t, "monitor", Idle)
    /\ UNCHANGED <<transactions, registry, txLock, pool, lost, settled, named>>

\* Mutant: the lock is kept when there is no callback to remove.
UnmonitorKeepingLock(t, txid) ==
    /\ txLock = None
    /\ txLock' = IF txid \in monitored THEN None ELSE t
    /\ monitored' = monitored \ {txid}
    /\ Call(t, "monitor", Idle)
    /\ UNCHANGED <<transactions, registry, pool, lost, settled, named>>

Unmonitor(t, txid) ==
    /\ txLock = None
    /\ monitored' = monitored \ {txid}
    /\ Call(t, "monitor", Idle)
    /\ UNCHANGED <<transactions, registry, txLock, pool, lost, settled, named>>

\* notify_confirmation up to the callback, which runs under the lock.  What is
\* notified need not be a transaction the node has.
NotifyConfirmation(t, txid, confirmations) ==
    /\ txLock = None
    /\ IF txid \in monitored
       THEN /\ txLock' = t
            /\ Call(t, "notify", [at |-> "callback", txid |-> txid,
                                  confirmations |-> confirmations])
       ELSE Call(t, "notify", Idle) /\ UNCHANGED txLock
    /\ settled' = IF confirmations >= 6 THEN settled \cup {txid} ELSE settled
    /\ UNCHANGED <<transactions, registry, monitored, pool, lost, named>>

\* Mutant: one confirmation settles a transaction.
FinishAnyConfirmation(t) ==
    LET n == registry[frame[t].txid]
    IN /\ frame[t].at = "callback"
       /\ transactions' = IF frame[t].confirmations >= 1 /\ n # None
                          THEN [transactions EXCEPT ![n].status = "confirmed"]
                          ELSE transactions
       /\ txLock' = None
       /\ Go(t, Idle)
       /\ UNCHANGED <<registry, monitored, pool, lost, settled, named>>

\* The callback returns, or raises; it does not call the service, where it would
\* wait for its own thread.
FinishConfirmation(t) ==
    LET n == registry[frame[t].txid]
    IN /\ frame[t].at = "callback"
       /\ transactions' = IF frame[t].confirmations >= 6 /\ n # None
                          THEN [transactions EXCEPT ![n].status = "confirmed"]
                          ELSE transactions
       /\ txLock' = None
       /\ Go(t, Idle)
       /\ UNCHANGED <<registry, monitored, pool, lost, settled, named>>

\* get_confirmations.
Confirmations(txid) ==
    IF registry[txid] # None /\ transactions[registry[txid]].status = "confirmed"
    THEN 6 ELSE 0

Init ==
    /\ transactions = <<>>
    /\ registry = [raw \in Text |-> None]
    /\ monitored = {}
    /\ txLock = None
    /\ pool = {}
    /\ lost = {}
    /\ settled = {}
    /\ named = {}

\* The process ends and starts again: nothing of this is kept.
Restarted ==
    /\ transactions' = <<>>
    /\ registry' = [raw \in Text |-> None]
    /\ monitored' = {}
    /\ txLock' = None
    /\ lost' = pool
    /\ settled' = {}
    /\ named' = {}
    /\ UNCHANGED pool

Step(t) == SendRawTransaction(t) \/ Store(t) \/ FinishConfirmation(t)

Request(t) ==
    \/ \E i \in scope.inputs, o \in Outputs, rate \in FeeRates, change \in scope.changes :
         Build(t, i, o, rate, change)
    \/ \E n \in DOMAIN transactions : Sign(t, n) \/ Broadcast(t, n)
    \/ \E txid \in Text :
         \/ \E rate \in FeeRates : Replace(t, txid, rate)
         \/ Monitor(t, txid) \/ Unmonitor(t, txid)
         \/ \E confirmations \in {1, 6} : NotifyConfirmation(t, txid, confirmations)

-----------------------------------------------------------------------------

\* What the callers are told is what the node has: a broadcast that returned
\* success left the text with the node and in _transactions, everything in
\* _transactions was accepted, and what the node accepted is there or on its
\* way, unless the answer or the record was lost.
ResultTellsNode ==
    /\ \A t \in Thread : frame[t].at = "sent" /\ frame[t].success
                          => registry[frame[t].raw] # None
    /\ \A raw \in Text : registry[raw] # None => raw \in pool
    /\ \A raw \in pool \ lost :
         registry[raw] # None \/ \E t \in Thread : frame[t].at = "store" /\ frame[t].raw = raw

\* get_confirmations answers six only for a transaction notified with six, under
\* this text or under another one its object was broadcast as.
SixMeansNotified ==
    \A txid \in Text : Confirmations(txid) = 6 =>
        \/ txid \in settled
        \/ \E other \in settled \ {txid} : <<other, registry[txid]>> \in named
=============================================================================
