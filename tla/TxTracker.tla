------------------------------ MODULE TxTracker ------------------------------
(***************************************************************************)
(* ordex/rpc/tracker.py, class TxTracker: transactions are registered      *)
(* under a wallet, their confirmation counts are updated, and handlers     *)
(* are told of the changes while the caller still holds the tracker's      *)
(* (non-reentrant) lock.                                                   *)
(*                                                                         *)
(* An operation takes the lock, does all its assignments, and then runs    *)
(* the handlers of the events it emits, one handler per step.  on_*        *)
(* registers a handler without taking the lock, so the list a running loop *)
(* iterates over can grow under it.  Timestamps, amounts, fees and block   *)
(* references are data no property tells apart and are left out; the order *)
(* of a wallet's list is left out too, the multiplicity of its entries is  *)
(* kept.                                                                   *)
(***************************************************************************)
EXTENDS Integers, Sequences, FiniteSets

CONSTANTS
    Thread,         \* application threads
    Tx,             \* transaction ids
    Wallet,         \* wallet ids
    Handler,        \* callables that can be registered
    Reentrant,      \* the handlers that call back into the tracker
    Confirmations,  \* counts update_confirmations is called with
    Observed,       \* bound: the events handlers are registered for
    MaxListed,      \* bound: occurrences of a txid in the wallets' lists
    MaxHandlers,    \* bound: handlers registered for one event
    None            \* Python's None

ASSUME ConstantsAssumption ==
    /\ Reentrant \subseteq Handler
    /\ Confirmations \subseteq Int
    /\ MaxListed \in Nat /\ MaxHandlers \in Nat
    /\ None \notin Thread /\ None \notin Tx

VARIABLES
    lock,       \* the thread inside "with self._lock", or None
    info,       \* _tracked_txs: the tracked txids and what is known of each
    listed,     \* _wallet_txs: how often each txid is in a wallet's list
    callbacks,  \* _callbacks: the handlers of each event, in order
    running,    \* per thread: the events it still has to emit, and for which tx
    announced   \* history: the events emitted for a tx since it was tracked

vars == <<lock, info, listed, callbacks, running, announced>>

Event == {"zero_conf", "one_conf", "six_conf", "confirmed", "replaced"}
Status == {"pending", "confirmed", "replaced"}

Info == [wallet : Wallet, status : Status, confirmations : Int,
         replacedBy : Tx \cup {None}, replaces : Tx \cup {None}]

NewInfo(w) == [wallet |-> w, status |-> "pending", confirmations |-> 0,
               replacedBy |-> None, replaces |-> None]

Tracked == DOMAIN info

Idle == [queue |-> <<>>, next |-> 1, tx |-> None]

Emitting == [queue : Seq(Event) \ {<<>>}, next : Nat, tx : Tx]

Init ==
    /\ lock = None
    /\ info = [tx \in {} |-> None]
    /\ listed = [w \in Wallet |-> [tx \in Tx |-> 0]]
    /\ callbacks = [e \in Event |-> <<>>]
    /\ running = [t \in Thread |-> Idle]
    /\ announced = {}

-----------------------------------------------------------------------------
(* Operations without an event: the lock is taken and released in one step, *)
(* because nothing reads these fields without it.                           *)

\* How often a txid is in the wallets' lists.
Occurrences(tx) ==
    Cardinality({at \in Wallet \X (1 .. MaxListed) : at[2] <= listed[at[1]][tx]})

Forget(tx) == {a \in announced : a[2] # tx}

\* Mutant: the list entry is written only for a transaction not tracked before.
TrackOnce(t, tx, w) ==
    /\ lock = None
    /\ Occurrences(tx) < MaxListed
    /\ info' = [x \in Tracked \cup {tx} |-> IF x = tx THEN NewInfo(w) ELSE info[x]]
    /\ listed' = IF tx \in Tracked THEN listed ELSE [listed EXCEPT ![w][tx] = @ + 1]
    /\ announced' = Forget(tx)
    /\ UNCHANGED <<lock, callbacks, running>>

Track(t, tx, w) ==
    /\ lock = None
    /\ Occurrences(tx) < MaxListed
    /\ info' = [x \in Tracked \cup {tx} |-> IF x = tx THEN NewInfo(w) ELSE info[x]]
    /\ listed' = [listed EXCEPT ![w][tx] = @ + 1]
    /\ announced' = Forget(tx)
    /\ UNCHANGED <<lock, callbacks, running>>

\* Mutant: untrack does not take the lock.
UntrackUnlocked(t, tx) ==
    /\ tx \in Tracked
    /\ listed' = [listed EXCEPT ![info[tx].wallet][tx] = IF @ > 0 THEN @ - 1 ELSE @]
    /\ info' = [x \in Tracked \ {tx} |-> info[x]]
    /\ announced' = Forget(tx)
    /\ UNCHANGED <<lock, callbacks, running>>

Untrack(t, tx) ==
    /\ lock = None
    /\ tx \in Tracked
    /\ listed' = [listed EXCEPT ![info[tx].wallet][tx] = IF @ > 0 THEN @ - 1 ELSE @]
    /\ info' = [x \in Tracked \ {tx} |-> info[x]]
    /\ announced' = Forget(tx)
    /\ UNCHANGED <<lock, callbacks, running>>

-----------------------------------------------------------------------------
(* Operations that emit: the assignments, then the queue of events.         *)

Emit(t, tx, events) ==
    IF events = <<>>
    THEN UNCHANGED <<lock, running>>
    ELSE /\ lock' = t
         /\ running' = [running EXCEPT ![t] = [queue |-> events, next |-> 1, tx |-> tx]]

Counted(i, status, n) == [i EXCEPT !.status = status, !.confirmations = n]

ReplacedBy(i, by) == [i EXCEPT !.status = "replaced", !.replacedBy = by]

Replacing(i, original) == [i EXCEPT !.replaces = original]

\* Mutant: the first confirmation is missed by one.
StatusEventsLate(status, old, new) ==
    IF new >= 6 /\ status # "confirmed" THEN <<"confirmed">>
    ELSE IF new > 1 /\ old < 1 THEN <<"one_conf">>
    ELSE <<>>

\* The events an update of the status from count "old" to count "new" leads to.
StatusEvents(status, old, new) ==
    IF new >= 6 /\ status # "confirmed" THEN <<"confirmed">>
    ELSE IF new >= 1 /\ old < 1 THEN <<"one_conf">>
    ELSE <<>>

FirstSeenEvents(old, new) == IF old = 0 /\ new > 0 THEN <<"zero_conf">> ELSE <<>>

UpdateConfirmations(t, tx, n) ==
    /\ lock = None
    /\ tx \in Tracked
    /\ LET i == info[tx]
           first == StatusEvents(i.status, i.confirmations, n)
           status == IF first = <<>> THEN i.status ELSE "confirmed"
       IN /\ info' = [info EXCEPT ![tx] = Counted(i, status, n)]
          /\ Emit(t, tx, first \o FirstSeenEvents(i.confirmations, n))
    /\ UNCHANGED <<listed, callbacks, announced>>

\* Mutant: only a transaction that already had a confirmation is announced.
MarkConfirmedQuietly(t, tx) ==
    /\ lock = None
    /\ tx \in Tracked
    /\ LET n == info[tx].confirmations
       IN /\ info' = [info EXCEPT ![tx] =
                         Counted(info[tx], "confirmed", IF n > 1 THEN n ELSE 1)]
          /\ Emit(t, tx, IF n > 0 THEN <<"confirmed">> ELSE <<>>)
    /\ UNCHANGED <<listed, callbacks, announced>>

MarkConfirmed(t, tx) ==
    /\ lock = None
    /\ tx \in Tracked
    /\ LET n == info[tx].confirmations
       IN info' = [info EXCEPT ![tx] =
                     Counted(info[tx], "confirmed", IF n > 1 THEN n ELSE 1)]
    /\ Emit(t, tx, <<"confirmed">>)
    /\ UNCHANGED <<listed, callbacks, announced>>

\* Mutant: a replacement that is not tracked gets an entry of its own.
MarkReplacedUntracked(t, tx, by) ==
    /\ lock = None
    /\ tx \in Tracked
    /\ info' = [x \in Tracked \cup {by} |->
                  IF x = tx THEN ReplacedBy(info[x], by)
                  ELSE IF x \in Tracked THEN info[x] ELSE [replaces |-> tx]]
    /\ Emit(t, tx, <<"replaced">>)
    /\ UNCHANGED <<listed, callbacks, announced>>

\* The replacement is linked only if it is tracked too.
MarkReplaced(t, tx, by) ==
    /\ lock = None
    /\ tx \in Tracked
    /\ LET marked(x) == IF x = tx THEN ReplacedBy(info[x], by) ELSE info[x]
       IN info' = [x \in Tracked |-> IF x = by THEN Replacing(marked(x), tx) ELSE marked(x)]
    /\ Emit(t, tx, <<"replaced">>)
    /\ UNCHANGED <<listed, callbacks, announced>>

-----------------------------------------------------------------------------
(* _emit_callback, run under the lock.                                      *)

Current(t) == Head(running[t].queue)

Advanced(r) == [queue |-> r.queue, next |-> r.next + 1, tx |-> r.tx]

\* A handler that calls the tracker waits for the lock its own thread holds.
RunHandler(t) ==
    /\ running[t].queue # <<>>
    /\ running[t].next <= Len(callbacks[Current(t)])
    /\ callbacks[Current(t)][running[t].next] \in Reentrant => lock = None
    /\ running' = [running EXCEPT ![t] = Advanced(running[t])]
    /\ UNCHANGED <<lock, info, listed, callbacks, announced>>

\* The loop over the handlers of one event ends; after the last event the
\* with-block ends and the lock is released.
FinishEvent(t) ==
    /\ running[t].queue # <<>>
    /\ running[t].next > Len(callbacks[Current(t)])
    /\ announced' = announced \cup {<<Current(t), running[t].tx>>}
    /\ IF Len(running[t].queue) = 1
       THEN /\ running' = [running EXCEPT ![t] = Idle]
            /\ lock' = None
       ELSE /\ running' = [running EXCEPT ![t] =
                              [queue |-> Tail(running[t].queue), next |-> 1,
                               tx |-> running[t].tx]]
            /\ UNCHANGED lock
    /\ UNCHANGED <<info, listed, callbacks>>

\* on_zero_conf, on_one_conf, on_six_conf, on_confirmation, on_replaced: no lock.
Register(t, e, h) ==
    /\ running[t] = Idle
    /\ e \in Observed /\ Len(callbacks[e]) < MaxHandlers
    /\ callbacks' = [callbacks EXCEPT ![e] = Append(@, h)]
    /\ UNCHANGED <<lock, info, listed, running, announced>>

Next ==
    \E t \in Thread :
        \/ \E tx \in Tx, w \in Wallet : Track(t, tx, w)
        \/ \E tx \in Tx : Untrack(t, tx)
        \/ \E tx \in Tx, n \in Confirmations : UpdateConfirmations(t, tx, n)
        \/ \E tx \in Tx : MarkConfirmed(t, tx)
        \/ \E tx, by \in Tx : MarkReplaced(t, tx, by)
        \/ RunHandler(t)
        \/ FinishEvent(t)
        \/ \E e \in Event, h \in Handler : Register(t, e, h)

Spec == Init /\ [][Next]_vars

-----------------------------------------------------------------------------
(* What get_pending, get_confirmed return for a wallet, as a set.           *)

ListedWithStatus(w, status) ==
    {tx \in Tracked : listed[w][tx] > 0 /\ info[tx].status = status}

GetPending(w) == ListedWithStatus(w, "pending")

GetConfirmed(w) == ListedWithStatus(w, "confirmed")

-----------------------------------------------------------------------------
(* Properties.                                                              *)

(* The variables have the types the code gives them. *)
TypeOK ==
    /\ lock \in Thread \cup {None}
    /\ Tracked \subseteq Tx
    /\ info \in [Tracked -> Info]
    /\ listed \in [Wallet -> [Tx -> Nat]]
    /\ callbacks \in [Event -> Seq(Handler)]
    /\ running \in [Thread -> {Idle} \cup Emitting]
    /\ announced \subseteq Event \X Tx

(* No tracked transaction is hidden from its wallet: get_pending and        *)
(* get_confirmed read the wallet's list, which track, re-tracking under     *)
(* another wallet and untrack maintain separately from _tracked_txs.        *)
NoTrackedTxHidden ==
    \A tx \in Tracked :
        LET w == info[tx].wallet IN
        /\ info[tx].status = "pending" => tx \in GetPending(w)
        /\ info[tx].status = "confirmed" => tx \in GetConfirmed(w)

(* A transaction still called pending has no confirmation: neither branch   *)
(* of update_confirmations nor a later count lets a confirmed transaction   *)
(* keep that status, whatever counts it went through (reorgs included).     *)
PendingIsUnconfirmed ==
    \A tx \in Tracked : info[tx].status = "pending" => info[tx].confirmations < 1

\* What a handler of an event may rely on when it reads the tracked entry.
Announces(e, i) ==
    /\ e \in {"one_conf", "confirmed"} => i.status = "confirmed" /\ i.confirmations >= 1
    /\ e = "zero_conf" => i.status = "confirmed" /\ i.confirmations >= 1
    /\ e = "replaced" => i.status = "replaced" /\ i.replacedBy # None

(* A handler sees the entry in the state its event announces: no other      *)
(* thread changes, replaces or untracks the entry between the assignments   *)
(* and the callbacks of update_confirmations, mark_confirmed, mark_replaced.*)
HandlersSeeAnnouncedState ==
    \A t \in Thread : running[t].queue # <<>> =>
        /\ running[t].tx \in Tracked
        /\ Announces(Current(t), info[running[t].tx])

(* No transaction is confirmed silently: once the operation is over, an     *)
(* entry with status confirmed has had one_conf or confirmed emitted since  *)
(* it was tracked.                                                          *)
ConfirmedIsAnnounced ==
    \A tx \in Tracked :
        info[tx].status = "confirmed" /\ lock = None =>
            <<"one_conf", tx>> \in announced \/ <<"confirmed", tx>> \in announced
=============================================================================
