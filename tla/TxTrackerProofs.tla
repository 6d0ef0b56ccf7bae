--------------------------- MODULE TxTrackerProofs ---------------------------
(***************************************************************************)
(* Theorems about TxTracker, for any threads, transactions, wallets,       *)
(* handlers and confirmation counts.                                       *)
(***************************************************************************)
EXTENDS TxTracker, TLAPS

(* The lock is held exactly by the thread that has events left to emit.     *)
LockOwner ==
    \A t \in Thread : (running[t].queue # <<>>) <=> (lock = t)

(* Every event still in a queue, not only the current one, describes the    *)
(* entry as it is.                                                          *)
QueueAnnounces ==
    \A t \in Thread : running[t].queue # <<>> =>
        /\ running[t].tx \in Tracked
        /\ \A i \in 1 .. Len(running[t].queue) :
              Announces(running[t].queue[i], info[running[t].tx])

(* track appends to the list of the wallet it writes into the entry, and    *)
(* untrack removes one occurrence together with the entry.                  *)
OwnerLists ==
    \A tx \in Tracked : listed[info[tx].wallet][tx] > 0

IInv == TypeOK /\ LockOwner /\ QueueAnnounces /\ OwnerLists /\ PendingIsUnconfirmed

-----------------------------------------------------------------------------

(* The queue update_confirmations leaves has at most one status event and   *)
(* one first-seen event.                                                    *)
LEMMA EventQueueType ==
    ASSUME NEW status \in Status, NEW old \in Int, NEW new \in Int
    PROVE  StatusEvents(status, old, new) \o FirstSeenEvents(old, new) \in Seq(Event)
<1>1. "confirmed" \in Event /\ "one_conf" \in Event /\ "zero_conf" \in Event
  BY DEF Event
<1>2. StatusEvents(status, old, new) \in Seq(Event)
  BY <1>1 DEF StatusEvents
<1>3. FirstSeenEvents(old, new) \in Seq(Event)
  BY <1>1 DEF FirstSeenEvents
<1> QED BY <1>2, <1>3

(* What _emit_callback iterates over, as a record: Emit starts such a frame.*)
LEMMA EmittingRecord ==
    ASSUME NEW q \in Seq(Event), q # <<>>, NEW n \in Nat, NEW tx \in Tx
    PROVE  [queue |-> q, next |-> n, tx |-> tx] \in Emitting
BY DEF Emitting

(* After a handler has run, the frame is still one of an emitting thread.   *)
LEMMA AdvancedRecord ==
    ASSUME NEW r \in Emitting
    PROVE  Advanced(r) \in Emitting
BY DEF Advanced, Emitting

(* update_confirmations and mark_confirmed change the status and the count  *)
(* of an entry, nothing else.                                               *)
LEMMA CountedEntry ==
    ASSUME NEW i \in Info, NEW status \in Status, NEW n \in Int
    PROVE  /\ Counted(i, status, n) \in Info
           /\ Counted(i, status, n).wallet = i.wallet
           /\ Counted(i, status, n).status = status
           /\ Counted(i, status, n).confirmations = n
BY DEF Counted, Info

(* mark_replaced changes the status and one link of an entry, or the other  *)
(* link; the count and the wallet stay.                                     *)
LEMMA ReplacementEntries ==
    ASSUME NEW i \in Info, NEW tx \in Tx
    PROVE  /\ ReplacedBy(i, tx) \in Info
           /\ ReplacedBy(i, tx).wallet = i.wallet
           /\ ReplacedBy(i, tx).status = "replaced"
           /\ ReplacedBy(i, tx).replacedBy = tx
           /\ Replacing(i, tx) \in Info
           /\ Replacing(i, tx).wallet = i.wallet
           /\ Replacing(i, tx).status = i.status
           /\ Replacing(i, tx).confirmations = i.confirmations
           /\ Replacing(i, tx).replacedBy = i.replacedBy
BY DEF ReplacedBy, Replacing, Info, Status

(* A queue of several events does not become empty when one is done, so the *)
(* lock stays with the thread.                                              *)
LEMMA LongTail ==
    ASSUME NEW q \in Seq(Event), q # <<>>, Len(q) # 1
    PROVE  Tail(q) # <<>>
<1>1. Len(Tail(q)) = Len(q) - 1 /\ Len(q) >= 2
  OBVIOUS
<1> QED BY <1>1

(* The variables keep their types: an operation that writes an entry writes *)
(* one of the statuses, a count the caller gave, and known txids.           *)
LEMMA TypeStep == TypeOK /\ [Next]_vars => TypeOK'
<1> SUFFICES ASSUME TypeOK, [Next]_vars PROVE TypeOK'
  OBVIOUS
<1> USE ConstantsAssumption DEF TypeOK, Tracked
<1>1. CASE UNCHANGED vars
  BY <1>1 DEF vars
<1>2. ASSUME NEW t \in Thread, NEW tx \in Tx, NEW w \in Wallet, Track(t, tx, w)
      PROVE  TypeOK'
  <2>1. NewInfo(w) \in Info
    BY DEF NewInfo, Info, Status
  <2>2. DOMAIN info' = Tracked \cup {tx} /\ info' \in [DOMAIN info' -> Info]
    BY <1>2, <2>1 DEF Track
  <2>3. listed' \in [Wallet -> [Tx -> Nat]]
    BY <1>2 DEF Track
  <2>4. announced' \subseteq Event \X Tx
    BY <1>2 DEF Track, Forget
  <2> QED BY <1>2, <2>2, <2>3, <2>4 DEF Track
<1>3. ASSUME NEW t \in Thread, NEW tx \in Tx, Untrack(t, tx)
      PROVE  TypeOK'
  <2>1. info[tx].wallet \in Wallet
    BY <1>3 DEF Untrack, Info
  <2>2. DOMAIN info' = Tracked \ {tx} /\ info' \in [DOMAIN info' -> Info]
    BY <1>3 DEF Untrack
  <2>3. listed' \in [Wallet -> [Tx -> Nat]]
    BY <1>3, <2>1 DEF Untrack
  <2>4. announced' \subseteq Event \X Tx
    BY <1>3 DEF Untrack, Forget
  <2> QED BY <1>3, <2>2, <2>3, <2>4 DEF Untrack
<1>4. ASSUME NEW t \in Thread, NEW tx \in Tx, NEW events \in Seq(Event),
             Emit(t, tx, events)
      PROVE  /\ running' \in [Thread -> {Idle} \cup Emitting]
             /\ lock' \in Thread \cup {None}
  <2>1. events # <<>> => [queue |-> events, next |-> 1, tx |-> tx] \in Emitting
    BY EmittingRecord
  <2> QED BY <1>4, <2>1 DEF Emit
<1>5. ASSUME NEW t \in Thread, NEW tx \in Tx, NEW n \in Confirmations,
             UpdateConfirmations(t, tx, n)
      PROVE  TypeOK'
  <2> DEFINE i == info[tx]
             first == StatusEvents(i.status, i.confirmations, n)
             status == IF first = <<>> THEN i.status ELSE "confirmed"
  <2>1. i \in Info /\ i.confirmations \in Int /\ n \in Int /\ i.status \in Status
    BY <1>5 DEF UpdateConfirmations, Info
  <2>2. first \o FirstSeenEvents(i.confirmations, n) \in Seq(Event)
    BY <2>1, EventQueueType
  <2>3. status \in Status
    BY <2>1 DEF Status
  <2>4. Counted(i, status, n) \in Info
    BY <2>1, <2>3, CountedEntry
  <2>5. /\ info' = [info EXCEPT ![tx] = Counted(i, status, n)]
        /\ Emit(t, tx, first \o FirstSeenEvents(i.confirmations, n))
        /\ UNCHANGED <<listed, callbacks, announced>>
    BY <1>5 DEF UpdateConfirmations
  <2>6. DOMAIN info' = DOMAIN info /\ info' \in [DOMAIN info -> Info]
    BY <2>4, <2>5
  <2> QED BY <1>4, <2>2, <2>5, <2>6
<1>6. ASSUME NEW t \in Thread, NEW tx \in Tx, MarkConfirmed(t, tx)
      PROVE  TypeOK'
  <2> DEFINE n == info[tx].confirmations
  <2>1. info[tx] \in Info /\ n \in Int
    BY <1>6 DEF MarkConfirmed, Info
  <2> DEFINE m == IF n > 1 THEN n ELSE 1
  <2>2. m \in Int /\ "confirmed" \in Status
    BY <2>1 DEF Status
  <2>3. DOMAIN info' = DOMAIN info /\ info' \in [DOMAIN info -> Info]
    <3>1. info' = [info EXCEPT ![tx] = Counted(info[tx], "confirmed", m)]
      BY <1>6 DEF MarkConfirmed
    <3> HIDE DEF m
    <3>2. Counted(info[tx], "confirmed", m) \in Info
      BY <2>1, <2>2, CountedEntry
    <3> QED BY <3>1, <3>2
  <2>4. <<"confirmed">> \in Seq(Event)
    BY DEF Event
  <2> QED BY <1>4, <1>6, <2>3, <2>4 DEF MarkConfirmed
<1>7. ASSUME NEW t \in Thread, NEW tx \in Tx, NEW by \in Tx, MarkReplaced(t, tx, by)
      PROVE  TypeOK'
  <2>1. \A i \in Info : ReplacedBy(i, by) \in Info /\ Replacing(i, tx) \in Info
    BY ReplacementEntries
  <2>2. DOMAIN info' = DOMAIN info /\ info' \in [DOMAIN info -> Info]
    BY <1>7, <2>1 DEF MarkReplaced
  <2>3. <<"replaced">> \in Seq(Event)
    BY DEF Event
  <2> QED BY <1>4, <1>7, <2>2, <2>3 DEF MarkReplaced
<1>8. ASSUME NEW t \in Thread, running[t].queue # <<>>
      PROVE  /\ running[t] \in Emitting
             /\ running[t].queue \in Seq(Event) \ {<<>>}
             /\ running[t].next \in Nat
             /\ running[t].tx \in Tx
             /\ Current(t) \in Event
             /\ Tail(running[t].queue) \in Seq(Event)
  <2>1. running[t] \in Emitting
    BY <1>8 DEF Idle
  <2>2. /\ running[t].queue \in Seq(Event) \ {<<>>}
        /\ running[t].next \in Nat
        /\ running[t].tx \in Tx
    BY <2>1 DEF Emitting
  <2> QED BY <2>1, <2>2 DEF Current
<1>9. ASSUME NEW t \in Thread, RunHandler(t)
      PROVE  TypeOK'
  <2>1. running[t].queue # <<>>
    BY <1>9 DEF RunHandler
  <2>2. Advanced(running[t]) \in Emitting
    BY <1>8, <2>1, AdvancedRecord
  <2>3. running' \in [Thread -> {Idle} \cup Emitting]
    BY <1>9, <2>2 DEF RunHandler
  <2> QED BY <1>9, <2>3 DEF RunHandler
<1>11. ASSUME NEW t \in Thread, FinishEvent(t)
      PROVE  TypeOK'
  <2>1. running[t].queue # <<>>
    BY <1>11 DEF FinishEvent
  <2>2. Len(running[t].queue) # 1 => Tail(running[t].queue) # <<>>
    BY <1>8, <2>1, LongTail
  <2>3. Len(running[t].queue) # 1 =>
          [queue |-> Tail(running[t].queue), next |-> 1, tx |-> running[t].tx] \in Emitting
    BY <1>8, <2>1, <2>2, EmittingRecord
  <2>4. running' \in [Thread -> {Idle} \cup Emitting] /\ lock' \in Thread \cup {None}
    BY <1>11, <2>3 DEF FinishEvent
  <2>5. announced' \subseteq Event \X Tx
    BY <1>8, <1>11, <2>1 DEF FinishEvent
  <2> QED BY <1>11, <2>4, <2>5 DEF FinishEvent
<1>10. ASSUME NEW t \in Thread, NEW e \in Event, NEW h \in Handler, Register(t, e, h)
       PROVE  TypeOK'
  BY <1>10 DEF Register
<1> QED
  BY <1>1, <1>2, <1>3, <1>5, <1>6, <1>7, <1>9, <1>10, <1>11 DEF Next

-----------------------------------------------------------------------------
(* What update_confirmations does to one entry, and what it announces.      *)

(* Every event update_confirmations queues describes the entry it leaves,   *)
(* and an entry it leaves pending has no confirmation.                      *)
LEMMA UpdateAnnounces ==
    ASSUME NEW i \in Info, NEW n \in Int
    PROVE  LET first == StatusEvents(i.status, i.confirmations, n)
               events == first \o FirstSeenEvents(i.confirmations, n)
               entry == Counted(i, IF first = <<>> THEN i.status ELSE "confirmed", n)
           IN /\ \A k \in 1 .. Len(events) : Announces(events[k], entry)
              /\ (i.status = "pending" => i.confirmations < 1)
                    => (entry.status = "pending" => entry.confirmations < 1)
<1> DEFINE first == StatusEvents(i.status, i.confirmations, n)
           seen == FirstSeenEvents(i.confirmations, n)
           status == IF first = <<>> THEN i.status ELSE "confirmed"
           entry == Counted(i, status, n)
<1>1. i.confirmations \in Int /\ i.status \in Status /\ status \in Status
  BY DEF Info, Status
<1>2. entry.status = status /\ entry.confirmations = n
  <2> HIDE DEF status
  <2> QED BY <1>1, CountedEntry
<1>3. \/ first = <<>>
      \/ first = <<"confirmed">> /\ n >= 6
      \/ first = <<"one_conf">> /\ n >= 1
  BY DEF StatusEvents
<1>4. seen = <<>> \/ (seen = <<"zero_conf">> /\ i.confirmations = 0 /\ n > 0)
  BY DEF FirstSeenEvents
<1>5. seen # <<>> => first # <<>>
  BY <1>1, <1>4 DEF StatusEvents
<1>6. first # <<>> => status = "confirmed" /\ n >= 1
  BY <1>3
<1>7. i.status = "pending" /\ i.confirmations < 1 /\ n >= 1 => first # <<>>
  BY <1>1 DEF StatusEvents
<1>8. ASSUME NEW k \in 1 .. Len(first \o seen)
      PROVE  Announces((first \o seen)[k], entry)
  <2>1. first # <<>>
    BY <1>3, <1>4, <1>5, <1>8
  <2>2. (first \o seen)[k] \in {"confirmed", "one_conf", "zero_conf"}
    BY <1>3, <1>4, <1>8, <2>1
  <2>3. entry.status = "confirmed" /\ entry.confirmations >= 1
    BY <1>2, <1>6, <2>1
  <2> HIDE DEF first, seen, entry
  <2> QED BY <2>2, <2>3 DEF Announces
<1>9. (i.status = "pending" => i.confirmations < 1)
        => (entry.status = "pending" => entry.confirmations < 1)
  BY <1>1, <1>2, <1>6, <1>7
<1> QED BY <1>8, <1>9

(* With the lock free nobody has events left, so an operation that emits    *)
(* starts from empty queues and fills only its own.                         *)
LEMMA EmitStep ==
    ASSUME TypeOK, LockOwner, lock = None, TypeOK',
           NEW t \in Thread, NEW tx \in Tracked', NEW events \in Seq(Event),
           Emit(t, tx, events),
           \A k \in 1 .. Len(events) : Announces(events[k], info'[tx])
    PROVE  LockOwner' /\ QueueAnnounces'
<1>1. \A u \in Thread : running[u].queue = <<>>
  BY ConstantsAssumption DEF LockOwner
<1>2. CASE events = <<>>
  BY <1>1, <1>2, ConstantsAssumption DEF Emit, LockOwner, QueueAnnounces
<1>3. CASE events # <<>>
  <2>1. /\ lock' = t
        /\ running' = [running EXCEPT ![t] = [queue |-> events, next |-> 1, tx |-> tx]]
    BY <1>3 DEF Emit
  <2>2. running'[t].queue = events /\ running'[t].tx = tx
    BY <2>1 DEF TypeOK
  <2>3. \A u \in Thread \ {t} : running'[u].queue = <<>>
    BY <1>1, <2>1 DEF TypeOK
  <2> QED BY <1>3, <2>1, <2>2, <2>3 DEF LockOwner, QueueAnnounces
<1> QED BY <1>2, <1>3

(* Every operation, every handler step and every registration preserves the *)
(* inductive invariant.                                                     *)
LEMMA IInvStep == IInv /\ [Next]_vars => IInv'
<1> SUFFICES ASSUME IInv, [Next]_vars PROVE IInv'
  OBVIOUS
<1> USE ConstantsAssumption
<1>0. TypeOK'
  BY TypeStep DEF IInv
<1>1. CASE UNCHANGED vars
  BY <1>0, <1>1 DEF vars, IInv, LockOwner, QueueAnnounces, OwnerLists,
                    PendingIsUnconfirmed, Tracked
<1>2. ASSUME lock = None
      PROVE  \A t \in Thread : running[t].queue = <<>>
  BY <1>2 DEF IInv, LockOwner
<1>3. ASSUME NEW t \in Thread, NEW tx \in Tx, NEW w \in Wallet, Track(t, tx, w)
      PROVE  IInv'
  <2>1. LockOwner' /\ QueueAnnounces'
    BY <1>2, <1>3 DEF Track, LockOwner, QueueAnnounces
  <2>2. OwnerLists'
    <3> SUFFICES ASSUME NEW x \in Tracked' PROVE listed'[info'[x].wallet][x] > 0
      BY DEF OwnerLists
    <3>1. CASE x = tx
      BY <1>3, <3>1 DEF Track, NewInfo, IInv, TypeOK, Tracked
    <3>2. CASE x # tx
      <4>1. x \in Tracked /\ info'[x] = info[x] /\ info[x] \in Info
        BY <1>3, <3>2 DEF Track, IInv, TypeOK, Tracked
      <4>2. info[x].wallet \in Wallet /\ x \in Tx
        BY <4>1 DEF Info, IInv, TypeOK
      <4>3. listed'[info[x].wallet][x] = listed[info[x].wallet][x]
        BY <1>3, <3>2, <4>2 DEF Track, IInv, TypeOK
      <4> QED BY <4>1, <4>3 DEF IInv, OwnerLists
    <3> QED BY <3>1, <3>2
  <2>3. PendingIsUnconfirmed'
    BY <1>3 DEF Track, NewInfo, IInv, PendingIsUnconfirmed, Tracked
  <2> QED BY <1>0, <2>1, <2>2, <2>3 DEF IInv
<1>4. ASSUME NEW t \in Thread, NEW tx \in Tx, Untrack(t, tx)
      PROVE  IInv'
  <2>1. LockOwner' /\ QueueAnnounces'
    BY <1>2, <1>4 DEF Untrack, LockOwner, QueueAnnounces
  <2>2. OwnerLists'
    <3> SUFFICES ASSUME NEW x \in Tracked' PROVE listed'[info'[x].wallet][x] > 0
      BY DEF OwnerLists
    <3>1. x \in Tracked /\ x # tx /\ info'[x] = info[x] /\ info[x] \in Info
      BY <1>4 DEF Untrack, IInv, TypeOK, Tracked
    <3>2. info[x].wallet \in Wallet /\ x \in Tx
      BY <3>1 DEF Info, IInv, TypeOK
    <3>3. listed'[info[x].wallet][x] = listed[info[x].wallet][x]
      BY <1>4, <3>1, <3>2 DEF Untrack, IInv, TypeOK
    <3> QED BY <3>1, <3>3 DEF IInv, OwnerLists
  <2>3. PendingIsUnconfirmed'
    BY <1>4 DEF Untrack, IInv, PendingIsUnconfirmed, Tracked
  <2> QED BY <1>0, <2>1, <2>2, <2>3 DEF IInv
<1>5. ASSUME NEW t \in Thread, NEW tx \in Tx, NEW n \in Confirmations,
             UpdateConfirmations(t, tx, n)
      PROVE  IInv'
  <2> DEFINE i == info[tx]
             first == StatusEvents(i.status, i.confirmations, n)
             events == first \o FirstSeenEvents(i.confirmations, n)
             status == IF first = <<>> THEN i.status ELSE "confirmed"
             entry == Counted(i, status, n)
  <2>1. /\ lock = None
        /\ tx \in Tracked
        /\ info' = [info EXCEPT ![tx] = entry]
        /\ Emit(t, tx, events)
        /\ UNCHANGED listed
    BY <1>5 DEF UpdateConfirmations
  <2>2. i \in Info /\ n \in Int /\ i.confirmations \in Int /\ i.status \in Status
    BY <2>1 DEF IInv, TypeOK, Info
  <2>3. events \in Seq(Event)
    BY <2>2, EventQueueType
  <2>4. /\ \A k \in 1 .. Len(events) : Announces(events[k], entry)
        /\ (i.status = "pending" => i.confirmations < 1)
              => (entry.status = "pending" => entry.confirmations < 1)
    BY <2>2, UpdateAnnounces
  <2>5. status \in Status
    BY <2>2 DEF Status
  <2>6. entry.wallet = i.wallet
    <3> HIDE DEF status
    <3> QED BY <2>2, <2>5, CountedEntry
  <2> HIDE DEF events, entry
  <2>7. Tracked' = Tracked /\ info'[tx] = entry /\ \A x \in Tracked \ {tx} : info'[x] = info[x]
    BY <2>1 DEF IInv, TypeOK, Tracked
  <2>8. LockOwner' /\ QueueAnnounces'
    BY <1>0, <2>1, <2>3, <2>4, <2>7, EmitStep DEF IInv
  <2>9. OwnerLists'
    BY <2>1, <2>6, <2>7 DEF IInv, OwnerLists
  <2>10. PendingIsUnconfirmed'
    BY <2>1, <2>4, <2>7 DEF IInv, PendingIsUnconfirmed
  <2> QED BY <1>0, <2>8, <2>9, <2>10 DEF IInv
<1>6. ASSUME NEW t \in Thread, NEW tx \in Tx, MarkConfirmed(t, tx)
      PROVE  IInv'
  <2> DEFINE n == info[tx].confirmations
             m == IF n > 1 THEN n ELSE 1
             entry == Counted(info[tx], "confirmed", m)
  <2>1. /\ lock = None
        /\ tx \in Tracked
        /\ info' = [info EXCEPT ![tx] = entry]
        /\ Emit(t, tx, <<"confirmed">>)
        /\ UNCHANGED listed
    BY <1>6 DEF MarkConfirmed
  <2>2. info[tx] \in Info /\ m \in Int /\ m >= 1 /\ "confirmed" \in Status
    BY <2>1 DEF IInv, TypeOK, Info, Status
  <2>3. /\ entry.wallet = info[tx].wallet
        /\ entry.status = "confirmed"
        /\ entry.confirmations >= 1
    <3> HIDE DEF m
    <3> QED BY <2>2, CountedEntry
  <2> HIDE DEF entry
  <2>4. Tracked' = Tracked /\ info'[tx] = entry /\ \A x \in Tracked \ {tx} : info'[x] = info[x]
    BY <2>1 DEF IInv, TypeOK, Tracked
  <2>5. \A k \in 1 .. Len(<<"confirmed">>) : Announces(<<"confirmed">>[k], info'[tx])
    BY <2>3, <2>4 DEF Announces
  <2>6. <<"confirmed">> \in Seq(Event)
    BY DEF Event
  <2>7. LockOwner' /\ QueueAnnounces'
    BY <1>0, <2>1, <2>4, <2>5, <2>6, EmitStep DEF IInv
  <2>8. OwnerLists'
    BY <2>1, <2>3, <2>4 DEF IInv, OwnerLists
  <2>9. PendingIsUnconfirmed'
    BY <2>3, <2>4 DEF IInv, PendingIsUnconfirmed
  <2> QED BY <1>0, <2>7, <2>8, <2>9 DEF IInv
<1>7. ASSUME NEW t \in Thread, NEW tx \in Tx, NEW by \in Tx, MarkReplaced(t, tx, by)
      PROVE  IInv'
  <2> DEFINE marked(x) == IF x = tx THEN ReplacedBy(info[x], by) ELSE info[x]
  <2>1. /\ lock = None
        /\ tx \in Tracked
        /\ info' = [x \in Tracked |-> IF x = by THEN Replacing(marked(x), tx) ELSE marked(x)]
        /\ Emit(t, tx, <<"replaced">>)
        /\ UNCHANGED listed
    BY <1>7 DEF MarkReplaced
  <2>2. \A x \in Tracked : info[x] \in Info
    BY DEF IInv, TypeOK
  <2>3. ASSUME NEW x \in Tracked
        PROVE  /\ marked(x) \in Info
               /\ marked(x).wallet = info[x].wallet
               /\ x = tx => marked(x).status = "replaced" /\ marked(x).replacedBy = by
               /\ x # tx => marked(x) = info[x]
    BY <2>2, ReplacementEntries
  <2> HIDE DEF marked
  <2>4. Tracked' = Tracked
    BY <2>1 DEF Tracked
  <2>5. ASSUME NEW x \in Tracked
        PROVE  /\ info'[x].wallet = info[x].wallet
               /\ x = tx => info'[x].status = "replaced" /\ info'[x].replacedBy = by
               /\ x # tx => /\ info'[x].status = info[x].status
                            /\ info'[x].confirmations = info[x].confirmations
    <3>1. CASE x = by
      <4>1. info'[x] = Replacing(marked(x), tx)
        BY <2>1, <3>1
      <4>2. /\ info'[x].wallet = marked(x).wallet
            /\ info'[x].status = marked(x).status
            /\ info'[x].confirmations = marked(x).confirmations
            /\ info'[x].replacedBy = marked(x).replacedBy
        BY <2>3, <4>1, ReplacementEntries
      <4> QED BY <2>3, <4>2
    <3>2. CASE x # by
      BY <2>1, <2>3, <3>2
    <3> QED BY <3>1, <3>2
  <2>6. \A k \in 1 .. Len(<<"replaced">>) : Announces(<<"replaced">>[k], info'[tx])
    BY <2>1, <2>5 DEF Announces
  <2>7. <<"replaced">> \in Seq(Event)
    BY DEF Event
  <2>8. LockOwner' /\ QueueAnnounces'
    BY <1>0, <2>1, <2>4, <2>6, <2>7, EmitStep DEF IInv
  <2>9. OwnerLists'
    BY <2>1, <2>4, <2>5 DEF IInv, OwnerLists
  <2>10. PendingIsUnconfirmed'
    BY <2>4, <2>5 DEF IInv, PendingIsUnconfirmed
  <2> QED BY <1>0, <2>8, <2>9, <2>10 DEF IInv
<1>8. ASSUME NEW t \in Thread, RunHandler(t)
      PROVE  IInv'
  <2>1. /\ UNCHANGED <<lock, info, listed>>
        /\ running' = [running EXCEPT ![t] = Advanced(running[t])]
    BY <1>8 DEF RunHandler
  <2>2. \A u \in Thread : /\ running'[u].queue = running[u].queue
                          /\ running'[u].tx = running[u].tx
    BY <2>1 DEF Advanced, IInv, TypeOK
  <2>3. LockOwner'
    BY <2>1, <2>2 DEF IInv, LockOwner
  <2>4. QueueAnnounces'
    BY <2>1, <2>2 DEF IInv, QueueAnnounces, Tracked
  <2>5. OwnerLists' /\ PendingIsUnconfirmed'
    BY <2>1 DEF IInv, OwnerLists, PendingIsUnconfirmed, Tracked
  <2> QED BY <1>0, <2>3, <2>4, <2>5 DEF IInv
<1>9. ASSUME NEW t \in Thread, FinishEvent(t)
      PROVE  IInv'
  <2> DEFINE q == running[t].queue
  <2>1. q # <<>> /\ UNCHANGED <<info, listed>>
    BY <1>9 DEF FinishEvent
  <2>2. lock = t /\ \A u \in Thread \ {t} : running[u].queue = <<>>
    BY <2>1 DEF IInv, LockOwner
  <2>3. running[t] \in Emitting
    BY <2>1 DEF IInv, TypeOK, Idle
  <2>4. q \in Seq(Event)
    BY <2>3 DEF Emitting
  <2>5. OwnerLists' /\ PendingIsUnconfirmed'
    BY <2>1 DEF IInv, OwnerLists, PendingIsUnconfirmed, Tracked
  <2>6. CASE Len(q) = 1
    <3>1. running' = [running EXCEPT ![t] = Idle] /\ lock' = None
      BY <1>9, <2>6 DEF FinishEvent
    <3>2. \A u \in Thread : running'[u].queue = <<>>
      BY <2>2, <3>1 DEF Idle, IInv, TypeOK
    <3> QED BY <1>0, <2>5, <3>1, <3>2 DEF IInv, LockOwner, QueueAnnounces
  <2>7. CASE Len(q) # 1
    <3>1. /\ running' = [running EXCEPT ![t] =
                           [queue |-> Tail(q), next |-> 1, tx |-> running[t].tx]]
          /\ lock' = lock
      BY <1>9, <2>7 DEF FinishEvent
    <3>2. running'[t].queue = Tail(q) /\ running'[t].tx = running[t].tx
      BY <3>1 DEF IInv, TypeOK
    <3>3. \A u \in Thread \ {t} : running'[u].queue = <<>>
      BY <2>2, <3>1 DEF IInv, TypeOK
    <3>4. Tail(q) # <<>>
      BY <2>1, <2>4, <2>7, LongTail
    <3>5. LockOwner'
      BY <2>2, <3>1, <3>2, <3>3, <3>4 DEF LockOwner
    <3>6. \A k \in 1 .. Len(Tail(q)) : k + 1 \in 1 .. Len(q) /\ Tail(q)[k] = q[k + 1]
      BY <2>1, <2>4
    <3>7. /\ running[t].tx \in Tracked
          /\ \A k \in 1 .. Len(q) : Announces(q[k], info[running[t].tx])
      BY <2>1 DEF IInv, QueueAnnounces
    <3>8. QueueAnnounces'
      <4>1. \A k \in 1 .. Len(Tail(q)) : Announces(Tail(q)[k], info[running[t].tx])
        BY <3>6, <3>7
      <4>2. info' = info /\ Tracked' = Tracked
        BY <2>1 DEF Tracked
      <4> HIDE DEF q
      <4> QED BY <3>2, <3>3, <3>7, <4>1, <4>2 DEF QueueAnnounces
    <3> QED BY <1>0, <2>5, <3>5, <3>8 DEF IInv
  <2> QED BY <2>6, <2>7
<1>10. ASSUME NEW t \in Thread, NEW e \in Event, NEW h \in Handler, Register(t, e, h)
       PROVE  IInv'
  BY <1>0, <1>10 DEF Register, IInv, LockOwner, QueueAnnounces, OwnerLists,
                     PendingIsUnconfirmed, Tracked
<1> QED
  BY <1>1, <1>3, <1>4, <1>5, <1>6, <1>7, <1>8, <1>9, <1>10 DEF Next

(* The inductive invariant holds of a tracker just constructed.             *)
LEMMA InitIInv == Init => IInv
<1> SUFFICES ASSUME Init PROVE IInv
  OBVIOUS
<1>1. TypeOK
  <2>1. Tracked = {} /\ info \in [Tracked -> Info]
    BY DEF Init, Tracked
  <2>2. listed \in [Wallet -> [Tx -> Nat]]
    BY DEF Init
  <2>3. callbacks \in [Event -> Seq(Handler)]
    BY DEF Init
  <2> QED BY <2>1, <2>2, <2>3 DEF Init, TypeOK
<1>2. \A t \in Thread : running[t].queue = <<>>
  BY DEF Init, Idle
<1>3. LockOwner /\ QueueAnnounces
  BY <1>2, ConstantsAssumption DEF Init, LockOwner, QueueAnnounces
<1>4. OwnerLists /\ PendingIsUnconfirmed
  BY DEF Init, OwnerLists, PendingIsUnconfirmed, Tracked
<1> QED BY <1>1, <1>3, <1>4 DEF IInv

(* The strengthening holds in every reachable state of the tracker.         *)
THEOREM Inductive == Spec => []IInv
BY InitIInv, IInvStep, PTL DEF Spec

-----------------------------------------------------------------------------

(* Every variable of the tracker keeps its type.                            *)
THEOREM TypeCorrect == Spec => []TypeOK
<1>1. IInv => TypeOK
  BY DEF IInv
<1> QED BY <1>1, Inductive, PTL

(* A tracked transaction is always among what get_pending or get_confirmed  *)
(* returns for its own wallet, however often and under whatever wallets it  *)
(* was tracked and untracked before.                                        *)
THEOREM TrackedTxVisible == Spec => []NoTrackedTxHidden
<1>1. IInv => NoTrackedTxHidden
  BY DEF IInv, OwnerLists, NoTrackedTxHidden, GetPending, GetConfirmed, ListedWithStatus
<1> QED BY <1>1, Inductive, PTL

(* No sequence of confirmation counts leaves a transaction pending with a   *)
(* confirmation.                                                            *)
THEOREM PendingUnconfirmed == Spec => []PendingIsUnconfirmed
<1>1. IInv => PendingIsUnconfirmed
  BY DEF IInv
<1> QED BY <1>1, Inductive, PTL

(* Callbacks run under the lock, so every handler finds the entry in the    *)
(* state its event announces, whatever the other threads call.              *)
THEOREM HandlersConsistent == Spec => []HandlersSeeAnnouncedState
<1>1. IInv => HandlersSeeAnnouncedState
  <2> SUFFICES ASSUME IInv, NEW t \in Thread, running[t].queue # <<>>
               PROVE  /\ running[t].tx \in Tracked
                      /\ Announces(Current(t), info[running[t].tx])
    BY DEF HandlersSeeAnnouncedState
  <2>1. running[t].queue \in Seq(Event)
    BY DEF IInv, TypeOK, Idle, Emitting
  <2>2. 1 \in 1 .. Len(running[t].queue) /\ Current(t) = running[t].queue[1]
    BY <2>1 DEF Current
  <2> QED BY <2>2 DEF IInv, QueueAnnounces
<1> QED BY <1>1, Inductive, PTL

-----------------------------------------------------------------------------
(* Nothing is confirmed silently.                                           *)

Telling == {"one_conf", "confirmed"}

Told(tx) == \E e \in Telling : <<e, tx>> \in announced

\* Some thread still has a telling event of the transaction in its queue.
IsTelling(t, tx) ==
    running[t].tx = tx /\ \E k \in 1 .. Len(running[t].queue) : running[t].queue[k] \in Telling

(* A confirmed entry has been announced, or its announcement is under way.  *)
Owed ==
    \A tx \in Tracked : info[tx].status = "confirmed" =>
        Told(tx) \/ \E t \in Thread : IsTelling(t, tx)

(* With the lock free nothing is under way, so all confirmed were told of.  *)
LEMMA FreeMeansTold ==
    ASSUME IInv, Owed, lock = None
    PROVE  \A tx \in Tracked : info[tx].status = "confirmed" => Told(tx)
<1>1. \A t \in Thread : Len(running[t].queue) = 0
  BY ConstantsAssumption DEF IInv, LockOwner
<1>2. \A t \in Thread, tx \in Tracked : ~ IsTelling(t, tx)
  BY <1>1 DEF IsTelling
<1> QED BY <1>2 DEF Owed

(* An operation that queues its events owes nothing to other entries.       *)
LEMMA EmitOwes ==
    ASSUME IInv, Owed, lock = None, NEW t \in Thread, NEW tx \in Tracked,
           NEW events \in Seq(Event), Emit(t, tx, events), UNCHANGED announced,
           Tracked' = Tracked,
           \A x \in Tracked \ {tx} : info'[x].status = info[x].status,
           info'[tx].status = "confirmed" =>
              info[tx].status = "confirmed" \/ \E k \in 1 .. Len(events) : events[k] \in Telling
    PROVE  Owed'
<1> SUFFICES ASSUME NEW x \in Tracked, info'[x].status = "confirmed"
             PROVE  Told(x)' \/ \E u \in Thread : IsTelling(u, x)'
  BY DEF Owed
<1>1. CASE info[x].status = "confirmed"
  BY <1>1, FreeMeansTold DEF Told
<1>2. CASE info[x].status # "confirmed"
  <2>1. x = tx /\ \E k \in 1 .. Len(events) : events[k] \in Telling
    BY <1>2
  <2>2. events # <<>>
    BY <2>1
  <2>3. running'[t].queue = events /\ running'[t].tx = tx
    BY <2>2 DEF Emit, IInv, TypeOK
  <2> QED BY <2>1, <2>3 DEF IsTelling
<1> QED BY <1>1, <1>2

(* No step leaves a confirmed entry without an announcement, made or due.   *)
LEMMA OwedStep == IInv /\ Owed /\ [Next]_vars => Owed'
<1> SUFFICES ASSUME IInv, Owed, [Next]_vars PROVE Owed'
  OBVIOUS
<1> USE ConstantsAssumption
<1>1. CASE UNCHANGED vars
  BY <1>1 DEF vars, Owed, Told, IsTelling, Tracked
<1>2. ASSUME NEW t \in Thread, NEW tx \in Tx, NEW w \in Wallet, Track(t, tx, w)
      PROVE  Owed'
  <2> SUFFICES ASSUME NEW x \in Tracked', info'[x].status = "confirmed"
               PROVE  Told(x)'
    BY DEF Owed
  <2>1. x # tx /\ x \in Tracked /\ info'[x] = info[x]
    BY <1>2 DEF Track, NewInfo, Tracked
  <2>2. Told(x)
    BY <1>2, <2>1, FreeMeansTold DEF Track
  <2> QED BY <1>2, <2>1, <2>2 DEF Track, Told, Forget
<1>3. ASSUME NEW t \in Thread, NEW tx \in Tx, Untrack(t, tx)
      PROVE  Owed'
  <2> SUFFICES ASSUME NEW x \in Tracked', info'[x].status = "confirmed"
               PROVE  Told(x)'
    BY DEF Owed
  <2>1. x # tx /\ x \in Tracked /\ info'[x] = info[x]
    BY <1>3 DEF Untrack, Tracked
  <2>2. Told(x)
    BY <1>3, <2>1, FreeMeansTold DEF Untrack
  <2> QED BY <1>3, <2>1, <2>2 DEF Untrack, Told, Forget
<1>4. ASSUME NEW t \in Thread, NEW tx \in Tx, NEW n \in Confirmations,
             UpdateConfirmations(t, tx, n)
      PROVE  Owed'
  <2> DEFINE i == info[tx]
             first == StatusEvents(i.status, i.confirmations, n)
             seen == FirstSeenEvents(i.confirmations, n)
             events == first \o seen
             status == IF first = <<>> THEN i.status ELSE "confirmed"
             entry == Counted(i, status, n)
  <2>1. /\ lock = None
        /\ tx \in Tracked
        /\ info' = [info EXCEPT ![tx] = entry]
        /\ Emit(t, tx, events)
        /\ UNCHANGED announced
    BY <1>4 DEF UpdateConfirmations
  <2>2. i \in Info /\ n \in Int /\ i.confirmations \in Int /\ i.status \in Status
    BY <2>1 DEF IInv, TypeOK, Info
  <2>3. events \in Seq(Event)
    BY <2>2, EventQueueType
  <2>4. first = <<>> \/ first = <<"confirmed">> \/ first = <<"one_conf">>
    BY DEF StatusEvents
  <2>5. seen = <<>> \/ seen = <<"zero_conf">>
    BY DEF FirstSeenEvents
  <2>6. status \in Status
    BY <2>2 DEF Status
  <2>7. entry.status = status
    <3> HIDE DEF status
    <3> QED BY <2>2, <2>6, CountedEntry
  <2>8. entry.status = "confirmed" =>
          i.status = "confirmed" \/ \E k \in 1 .. Len(events) : events[k] \in Telling
    <3>1. ASSUME first # <<>>
          PROVE  1 \in 1 .. Len(events) /\ events[1] \in Telling
      <4> HIDE DEF first, seen
      <4> QED BY <2>4, <2>5, <3>1 DEF Telling
    <3> QED BY <2>7, <3>1
  <2> HIDE DEF events, entry
  <2>9. Tracked' = Tracked /\ info'[tx] = entry /\ \A x \in Tracked \ {tx} : info'[x] = info[x]
    BY <2>1 DEF IInv, TypeOK, Tracked
  <2> QED BY <2>1, <2>3, <2>8, <2>9, EmitOwes
<1>5. ASSUME NEW t \in Thread, NEW tx \in Tx, MarkConfirmed(t, tx)
      PROVE  Owed'
  <2>1. /\ lock = None /\ tx \in Tracked /\ UNCHANGED announced
        /\ Emit(t, tx, <<"confirmed">>)
    BY <1>5 DEF MarkConfirmed
  <2>2. Tracked' = Tracked /\ \A x \in Tracked \ {tx} : info'[x] = info[x]
    BY <1>5 DEF MarkConfirmed, Tracked
  <2>3. <<"confirmed">> \in Seq(Event) /\ \E k \in 1 .. Len(<<"confirmed">>) : <<"confirmed">>[k] \in Telling
    BY DEF Event, Telling
  <2> QED BY <2>1, <2>2, <2>3, EmitOwes
<1>6. ASSUME NEW t \in Thread, NEW tx \in Tx, NEW by \in Tx, MarkReplaced(t, tx, by)
      PROVE  Owed'
  <2> DEFINE marked(x) == IF x = tx THEN ReplacedBy(info[x], by) ELSE info[x]
  <2>1. /\ lock = None /\ tx \in Tracked /\ UNCHANGED announced
        /\ info' = [x \in Tracked |-> IF x = by THEN Replacing(marked(x), tx) ELSE marked(x)]
        /\ Emit(t, tx, <<"replaced">>)
    BY <1>6 DEF MarkReplaced
  <2>2. ASSUME NEW x \in Tracked
        PROVE  info'[x].status = marked(x).status /\ marked(x) \in Info
    <3>1. info[x] \in Info /\ marked(x) \in Info
      BY ReplacementEntries DEF IInv, TypeOK
    <3> HIDE DEF marked
    <3>2. info'[x] = IF x = by THEN Replacing(marked(x), tx) ELSE marked(x)
      BY <2>1
    <3>3. Replacing(marked(x), tx).status = marked(x).status
      BY <3>1, ReplacementEntries
    <3> QED BY <3>1, <3>2, <3>3
  <2>3. Tracked' = Tracked
    BY <2>1 DEF Tracked
  <2>4. marked(tx).status = "replaced" /\ \A x \in Tracked \ {tx} : marked(x) = info[x]
    BY <2>1, ReplacementEntries DEF IInv, TypeOK
  <2>5. <<"replaced">> \in Seq(Event)
    BY DEF Event
  <2> HIDE DEF marked
  <2> QED BY <2>1, <2>2, <2>3, <2>4, <2>5, EmitOwes
<1>7. ASSUME NEW t \in Thread, RunHandler(t)
      PROVE  Owed'
  <2>1. \A u \in Thread : /\ running'[u].queue = running[u].queue
                          /\ running'[u].tx = running[u].tx
    BY <1>7 DEF RunHandler, Advanced, IInv, TypeOK
  <2>2. UNCHANGED <<info, announced>>
    BY <1>7 DEF RunHandler
  <2>3. \A u \in Thread, x \in Tracked : IsTelling(u, x) => IsTelling(u, x)'
    BY <2>1 DEF IsTelling
  <2> QED BY <2>2, <2>3 DEF Owed, Told, Tracked
<1>8. ASSUME NEW t \in Thread, FinishEvent(t)
      PROVE  Owed'
  <2> DEFINE q == running[t].queue
  <2>1. /\ q # <<>> /\ UNCHANGED info
        /\ announced' = announced \cup {<<Current(t), running[t].tx>>}
    BY <1>8 DEF FinishEvent
  <2>2. q \in Seq(Event)
    BY <2>1 DEF IInv, TypeOK, Idle, Emitting
  <2>3. Current(t) = q[1]
    BY <2>1, <2>2 DEF Current
  <2>4. \A u \in Thread : u # t => running'[u] = running[u]
    BY <1>8 DEF FinishEvent, IInv, TypeOK
  <2> SUFFICES ASSUME NEW x \in Tracked, info[x].status = "confirmed"
               PROVE  Told(x)' \/ \E u \in Thread : IsTelling(u, x)'
    BY <2>1 DEF Owed, Tracked
  <2>5. CASE Told(x)
    BY <2>1, <2>5 DEF Told
  <2>6. CASE \E u \in Thread : u # t /\ IsTelling(u, x)
    BY <2>4, <2>6 DEF IsTelling
  <2>7. CASE IsTelling(t, x)
    <3>1. PICK k \in 1 .. Len(q) : q[k] \in Telling /\ running[t].tx = x
      BY <2>7 DEF IsTelling
    <3>2. CASE k = 1
      BY <2>1, <2>3, <3>1, <3>2 DEF Told
    <3>3. CASE k # 1
      <4>1. running' = [running EXCEPT ![t] =
                          [queue |-> Tail(q), next |-> 1, tx |-> running[t].tx]]
        BY <1>8, <2>2, <3>1, <3>3 DEF FinishEvent
      <4>2. running'[t].queue = Tail(q) /\ running'[t].tx = x
        BY <3>1, <4>1 DEF IInv, TypeOK
      <4>3. k - 1 \in 1 .. Len(Tail(q)) /\ Tail(q)[k - 1] = q[k]
        BY <2>1, <2>2, <3>1, <3>3
      <4> QED BY <3>1, <4>2, <4>3 DEF IsTelling
    <3> QED BY <3>2, <3>3
  <2> QED BY <2>5, <2>6, <2>7 DEF Owed
<1>9. ASSUME NEW t \in Thread, NEW e \in Event, NEW h \in Handler, Register(t, e, h)
      PROVE  Owed'
  BY <1>9 DEF Register, Owed, Told, IsTelling, Tracked
<1> QED BY <1>1, <1>2, <1>3, <1>4, <1>5, <1>6, <1>7, <1>8, <1>9 DEF Next

(* No transaction is confirmed silently: with the operation over, one_conf  *)
(* or confirmed has been emitted for every confirmed entry, whatever counts *)
(* it went through (update_confirmations, mark_confirmed).                  *)
THEOREM NeverSilent == Spec => []ConfirmedIsAnnounced
<1>1. Init => Owed
  BY DEF Init, Owed, Tracked
<1>2. Owed /\ IInv /\ [Next]_vars => Owed'
  BY OwedStep
<1>3. IInv /\ Owed => ConfirmedIsAnnounced
  BY FreeMeansTold DEF ConfirmedIsAnnounced, Told, Telling
<1> QED BY <1>1, <1>2, <1>3, Inductive, PTL DEF Spec

=============================================================================
