----------------------- MODULE NotificationServiceProofs -----------------------
(***************************************************************************)
(* Theorems about NotificationService, for any threads, handlers, webhooks *)
(* and bounds.                                                             *)
(***************************************************************************)
EXTENDS NotificationService, TLAPS

Handler == [callback : Callback, id : Nat]

Emission == [event : Nat, live : BOOLEAN, next : Nat \ {0}, called : Seq(Nat),
             present : SUBSET Nat, disturbed : BOOLEAN]

BusTyped ==
    /\ handlers \in Seq(Handler) /\ registrations \in Nat
    /\ registrations = 0 => handlers = <<>>
    /\ history \in Seq(Nat) /\ events \in Nat
    /\ emitting \in [Thread -> Emission]

\* A handler there was when the emit began has been run or is still ahead.
Ahead ==
    \A t \in Thread : LET e == emitting[t] IN
        Bus!Emitting(t) /\ ~ e.disturbed => \A id \in e.present :
            \/ \E i \in DOMAIN e.called : e.called[i] = id
            \/ e.live /\ \E i \in DOMAIN handlers : i >= e.next /\ handlers[i].id = id

BusInv == BusTyped /\ HistoryIsRecent /\ Ahead

Kind == EventType \cup {Hooks!Idle.type}

Webhook == [enabled : BOOLEAN, events : SUBSET EventType, retries : Nat]

Dispatcher == [pc : {"idle", "match", "start"}, event : Nat, type : Kind, todo : SUBSET (Nat \X Nat)]

Job == [pc : {"serialize", "dead", "post", "record", "done"}, attempt : Nat, retries : Nat, success : BOOLEAN]

Good == {"accepted", "skipped"}

Result == Good \cup {"refused", "lost", "unanswered"}

HooksTyped ==
    /\ counter \in Nat
    /\ webhooks \in [DOMAIN webhooks -> Webhook] /\ DOMAIN webhooks \subseteq 1 .. counter
    /\ DOMAIN removedAt \subseteq 1 .. counter
    /\ \A w \in DOMAIN removedAt : removedAt[w] \in Nat
    /\ dispatching \in [Thread -> Dispatcher]
    /\ posts \in [DOMAIN posts -> Seq(Result)] /\ DOMAIN posts \subseteq Nat \X Nat
    /\ job \in [DOMAIN job -> Job] /\ DOMAIN job \subseteq DOMAIN posts

\* The event a thread is busy with.
Event(t) == IF Bus!Emitting(t) THEN emitting[t].event ELSE dispatching[t].event

\* Events are numbered, each is some thread's own, and is matched once.
Numbered ==
    /\ \A j \in DOMAIN posts : j[2] <= events
    /\ \A t \in Thread : Busy(t) => Event(t) <= events
    /\ \A t \in Thread : Bus!Emitting(t) => ~ Hooks!Dispatching(t)
    /\ \A t, u \in Thread : t # u /\ Busy(t) /\ Busy(u) => Event(t) # Event(u)
    /\ \A t \in Thread : Bus!Emitting(t) \/ dispatching[t].pc = "match" =>
         \A j \in DOMAIN posts : j[2] # Event(t)

\* What is left to start was matched, once per webhook, and not started.
Matched ==
    /\ \A t \in Thread : LET d == dispatching[t] IN
         /\ d.todo # {} => d.pc = "start"
         /\ \A x, y \in d.todo : x[1] = y[1] => x = y
         /\ \A x \in d.todo : <<x[1], d.event>> \in DOMAIN posts \ DOMAIN job
    /\ \A j \in DOMAIN posts \ DOMAIN job : posts[j] = <<>>

\* A delivery d with posts p begins with none, and goes on as long as none
\* was good and attempts are left.
Sound(d, p) ==
    /\ d.pc = "serialize" => ~ d.success /\ d.attempt = 1
    /\ d.pc \in {"serialize", "dead"} => p = <<>>
    /\ d.pc = "post" =>
         /\ ~ d.success /\ d.attempt = Len(p) + 1 /\ d.attempt <= d.retries
         /\ \A i \in DOMAIN p : p[i] \notin Good
    /\ d.pc \in {"record", "done"} =>
         /\ d.success <=> \E i \in DOMAIN p : p[i] \in Good
         /\ d.retries > 0 =>
              d.attempt = Len(p) /\ (~ d.success => d.attempt = d.retries)
         /\ \A i \in DOMAIN p : p[i] \in Good => i = Len(p)
    /\ Len(p) <= d.retries

Outcomes == \A j \in DOMAIN job : Sound(job[j], posts[j])

\* A record is of a delivery that has ended, and says the same.
Logged ==
    \A i \in DOMAIN deliveries : LET d == deliveries[i] IN
        /\ d.job \in DOMAIN job /\ job[d.job].pc = "done"
        /\ d.success = job[d.job].success /\ d.attempt = job[d.job].attempt

\* A webhook gone is gone for good, and was matched with earlier events only.
Removed ==
    /\ DOMAIN webhooks \cap DOMAIN removedAt = {}
    /\ \A j \in DOMAIN posts : j[1] \in DOMAIN removedAt => j[2] <= removedAt[j[1]]

Record == [job : Nat \X Nat, success : BOOLEAN, attempt : Nat]

HooksInv ==
    /\ HooksTyped /\ deliveries \in Seq(Record)
    /\ Numbered /\ Matched /\ Outcomes /\ Logged /\ Removed

IInv == BusInv /\ HooksInv

-----------------------------------------------------------------------------
(* The event bus.                                                           *)

(* register appends to the list: what was ahead is still ahead.             *)
LEMMA RegisterKeeps ==
    ASSUME BusInv, NEW t \in Thread, NEW c \in Callback, Bus!Register(t, c)
    PROVE  BusInv'
<1> DEFINE h == [callback |-> c, id |-> registrations + 1]
<1>1. /\ handlers \in Seq(Handler) /\ h \in Handler /\ registrations + 1 \in Nat
      /\ registrations + 1 # 0
  BY DEF BusInv, BusTyped, Handler
<1>2. /\ handlers' = Append(handlers, h) /\ registrations' = registrations + 1
      /\ UNCHANGED <<history, events, emitting, cleared>>
  BY DEF Bus!Register
<1> HIDE DEF h
<1>3. handlers' \in Seq(Handler) /\ \A i \in DOMAIN handlers : i \in DOMAIN handlers' /\ handlers'[i] = handlers[i]
  BY <1>1, <1>2
<1>4. BusTyped'
  BY <1>1, <1>2, <1>3 DEF BusInv, BusTyped
<1>5. HistoryIsRecent'
  BY <1>2 DEF BusInv, HistoryIsRecent, Bus!HistoryIsRecent
<1>6. Ahead'
  BY <1>2, <1>3 DEF BusInv, Ahead, Bus!Emitting
<1> QED BY <1>4, <1>5, <1>6 DEF BusInv

(* unregister disturbs every emit under way.                                *)
LEMMA UnregisterKeeps ==
    ASSUME BusInv, NEW t \in Thread, NEW c \in Callback, Bus!Unregister(t, c)
    PROVE  BusInv'
<1>1. PICK k \in DOMAIN handlers :
        handlers' = SubSeq(handlers, 1, k - 1) \o SubSeq(handlers, k + 1, Len(handlers))
  BY DEF Bus!Unregister
<1>2. /\ emitting' = [u \in Thread |-> [emitting[u] EXCEPT !.disturbed = Bus!Emitting(u)]]
      /\ UNCHANGED <<registrations, history, events, cleared>>
  BY DEF Bus!Unregister
<1>3. handlers' \in Seq(Handler) /\ registrations # 0
  <2>1. handlers \in Seq(Handler) /\ k \in 1 .. Len(handlers) /\ handlers # <<>>
    BY DEF BusInv, BusTyped
  <2>2. SubSeq(handlers, 1, k - 1) \in Seq(Handler)
    BY <2>1
  <2>3. SubSeq(handlers, k + 1, Len(handlers)) \in Seq(Handler)
    BY <2>1
  <2> QED BY <1>1, <2>1, <2>2, <2>3 DEF BusInv, BusTyped
<1>4. \A u \in Thread : emitting[u] \in Emission /\ emitting'[u] \in Emission
        /\ emitting'[u].event = emitting[u].event
        /\ emitting'[u].disturbed = Bus!Emitting(u)
        /\ emitting'[u].present = emitting[u].present
  <2> SUFFICES ASSUME NEW u \in Thread
               PROVE  emitting[u] \in Emission /\ emitting'[u] \in Emission
                        /\ emitting'[u].event = emitting[u].event
                        /\ emitting'[u].disturbed = Bus!Emitting(u)
                        /\ emitting'[u].present = emitting[u].present
    OBVIOUS
  <2>1. emitting[u] \in Emission
    BY DEF BusInv, BusTyped
  <2>2. PICK b \in BOOLEAN : b = Bus!Emitting(u)
    BY DEF Bus!Emitting
  <2>3. emitting'[u] = [emitting[u] EXCEPT !.disturbed = b]
    BY <1>2, <2>2
  <2> QED BY <2>1, <2>2, <2>3 DEF Emission
<1>5. BusTyped'
  BY <1>2, <1>3, <1>4 DEF BusInv, BusTyped
<1>6. HistoryIsRecent'
  BY <1>2 DEF BusInv, HistoryIsRecent, Bus!HistoryIsRecent
<1>7. Ahead'
  BY <1>4 DEF Ahead, Bus!Emitting
<1> QED BY <1>5, <1>6, <1>7 DEF BusInv

(* emit records its event last, and begins at the first handler.            *)
LEMMA EmitKeeps ==
    ASSUME BusInv, NEW t \in Thread, Bus!Emit(t)
    PROVE  BusInv'
<1> DEFINE all == Append(history, events + 1)
           n == Len(history)
<1>1. /\ n \in Nat /\ n <= MaxHistory /\ MaxHistory \in Nat /\ MaxHistory >= 1
      /\ events \in Nat /\ history \in Seq(Nat)
      /\ \A i \in 1 .. n : history[i] = events - n + i
  BY NotificationAssumption DEF BusInv, BusTyped, HistoryIsRecent, Bus!HistoryIsRecent
<1>2. /\ all \in Seq(Nat) /\ Len(all) = n + 1
      /\ \A i \in 1 .. (n + 1) : all[i] = events - n + i
  <2>1. events + 1 \in Nat
    BY <1>1
  <2>2. \A i \in 1 .. (n + 1) : i \in 1 .. n \/ i = n + 1
    BY <1>1
  <2>3. all \in Seq(Nat) /\ Len(all) = n + 1 /\ all[n + 1] = events + 1
        /\ \A i \in 1 .. n : all[i] = history[i]
    BY <1>1, <2>1
  <2> HIDE DEF all, n
  <2> QED BY <1>1, <2>2, <2>3
<1>3. /\ events' = events + 1 /\ UNCHANGED <<handlers, registrations>> /\ cleared' = FALSE
      /\ history' = IF Len(all) > MaxHistory THEN Bus!Last(all, MaxHistory) ELSE all
  BY DEF Bus!Emit
<1> HIDE DEF all, n
<1>4. /\ history' \in Seq(Nat) /\ Len(history') >= 1 /\ Len(history') <= MaxHistory
      /\ \A i \in DOMAIN history' : history'[i] = (events + 1) - Len(history') + i
  <2>1. CASE n + 1 > MaxHistory
    <3>1. n = MaxHistory /\ history' = SubSeq(all, 2, n + 1)
      BY <1>1, <1>2, <1>3, <2>1 DEF Bus!Last
    <3>2. /\ history' \in Seq(Nat) /\ Len(history') = n
          /\ \A i \in 1 .. n : history'[i] = all[i + 1] /\ i + 1 \in 1 .. (n + 1)
      BY <1>1, <1>2, <3>1
    <3>3. \A i \in 1 .. n : history'[i] = (events + 1) - n + i
      BY <1>1, <1>2, <3>2
    <3>4. DOMAIN history' = 1 .. n
      BY <3>2
    <3> QED BY <1>1, <3>1, <3>2, <3>3, <3>4
  <2>2. CASE ~ n + 1 > MaxHistory
    <3>1. history' = all /\ n + 1 <= MaxHistory
      BY <1>1, <1>2, <1>3, <2>2
    <3>2. DOMAIN history' = 1 .. (n + 1) /\ history' \in Seq(Nat) /\ Len(history') = n + 1
      BY <1>2, <3>1
    <3>3. \A i \in 1 .. (n + 1) : history'[i] = (events + 1) - (n + 1) + i
      BY <1>1, <1>2, <3>1
    <3> QED BY <1>1, <3>1, <3>2, <3>3
  <2> QED BY <2>1, <2>2
<1>5. HistoryIsRecent'
  BY <1>3, <1>4 DEF HistoryIsRecent, Bus!HistoryIsRecent
<1>a. PICK k \in Nat : k = events + 1
  BY <1>1
<1>b. PICK b \in BOOLEAN : b <=> registrations > 0
  <2>1. CASE registrations > 0
    <3> WITNESS TRUE \in BOOLEAN
    <3> QED BY <2>1
  <2>2. CASE ~ (registrations > 0)
    <3> WITNESS FALSE \in BOOLEAN
    <3> QED BY <2>2
  <2> QED BY <2>1, <2>2
<1>c. b = (registrations > 0)
  <2>1. CASE registrations > 0
    BY <1>b, <2>1
  <2>2. CASE ~ (registrations > 0)
    BY <1>b, <2>2
  <2> QED BY <2>1, <2>2
<1> DEFINE e == [Bus!Idle EXCEPT !.event = k, !.live = b, !.present = Bus!Registered]
<1>6. emitting' = [emitting EXCEPT ![t] = e]
  BY <1>a, <1>c DEF Bus!Emit
<1>7. /\ e.present = Bus!Registered /\ (e.live <=> registrations > 0) /\ e.next = 1
      /\ e \in Emission
  <2>2. Bus!Registered \in SUBSET Nat
    <3>1. handlers \in Seq(Handler)
      BY DEF BusInv, BusTyped
    <3>2. \A i \in DOMAIN handlers : handlers[i] \in Handler
      BY <3>1
    <3>3. \A i \in DOMAIN handlers : handlers[i].id \in Nat
      BY <3>2 DEF Handler
    <3> QED BY <3>3 DEF Bus!Registered
  <2>3. /\ Bus!Idle \in Emission /\ Bus!Idle.next = 1
    BY DEF Bus!Idle, Emission
  <2>4. e \in Emission /\ e.present = Bus!Registered /\ e.live = b /\ e.next = 1
    BY <2>2, <2>3 DEF Emission
  <2> QED BY <1>b, <2>4
<1> HIDE DEF e
<1>8. \A u \in Thread : emitting'[u] = IF u = t THEN e ELSE emitting[u]
  BY <1>6 DEF BusInv, BusTyped
<1>9. BusTyped'
  BY <1>1, <1>3, <1>4, <1>6, <1>7 DEF BusInv, BusTyped
<1>10. \A id \in e.present : e.live /\ \E i \in DOMAIN handlers : i >= e.next /\ handlers[i].id = id
  <2> SUFFICES ASSUME NEW id \in Bus!Registered
               PROVE  registrations > 0 /\ \E i \in DOMAIN handlers : i >= 1 /\ handlers[i].id = id
    BY <1>7
  <2>1. PICK i \in DOMAIN handlers : handlers[i].id = id
    BY DEF Bus!Registered
  <2>2. handlers \in Seq(Handler) /\ handlers # <<>> /\ i >= 1
    BY <2>1 DEF BusInv, BusTyped
  <2>3. registrations > 0
    BY <2>2 DEF BusInv, BusTyped
  <2> QED BY <2>1, <2>2, <2>3
<1>11. Ahead'
  BY <1>3, <1>8, <1>10 DEF BusInv, Ahead, Bus!Emitting
<1> QED BY <1>5, <1>9, <1>11 DEF BusInv

(* A handler run is no longer ahead.                                        *)
LEMMA RunHandlerKeeps ==
    ASSUME BusInv, NEW t \in Thread, Bus!RunHandler(t)
    PROVE  BusInv'
<1>1. /\ emitting[t] \in Emission /\ handlers \in Seq(Handler)
      /\ emitting[t].live /\ emitting[t].next \in DOMAIN handlers
      /\ UNCHANGED <<handlers, registrations, history, events, cleared>>
  BY DEF Bus!RunHandler, Bus!LoopOver, BusInv, BusTyped, Emission
<1>2. PICK n \in Nat \ {0}, q \in Seq(Nat) :
        /\ n = emitting[t].next + 1
        /\ q = Append(emitting[t].called, handlers[emitting[t].next].id)
  <2>1. handlers[emitting[t].next] \in Handler
    BY <1>1
  <2>2. handlers[emitting[t].next].id \in Nat
    BY <2>1 DEF Handler
  <2>3. emitting[t].called \in Seq(Nat) /\ emitting[t].next \in Nat \ {0}
    BY <1>1 DEF Emission
  <2>4. Append(emitting[t].called, handlers[emitting[t].next].id) \in Seq(Nat)
    BY <2>2, <2>3
  <2>5. emitting[t].next + 1 \in Nat \ {0}
    BY <2>3
  <2> QED BY <2>4, <2>5
<1> DEFINE e == [emitting[t] EXCEPT !.next = n, !.called = q]
<1>3. /\ e \in Emission /\ e.next = n /\ e.called = q /\ e.event = emitting[t].event
      /\ e.live = emitting[t].live /\ e.present = emitting[t].present
      /\ e.disturbed = emitting[t].disturbed
  BY <1>1 DEF Emission
<1>4. emitting' = [emitting EXCEPT ![t] = e]
  BY <1>2 DEF Bus!RunHandler
<1> HIDE DEF e
<1>5. \A u \in Thread : emitting'[u] = IF u = t THEN e ELSE emitting[u]
  BY <1>4 DEF BusInv, BusTyped
<1>6. BusTyped'
  BY <1>1, <1>3, <1>4 DEF BusInv, BusTyped
<1>7. HistoryIsRecent'
  BY <1>1 DEF BusInv, HistoryIsRecent, Bus!HistoryIsRecent
<1>8. ASSUME NEW id \in e.present, Bus!Emitting(t), ~ e.disturbed
      PROVE  \/ \E i \in DOMAIN q : q[i] = id
             \/ e.live /\ \E i \in DOMAIN handlers : i >= n /\ handlers[i].id = id
  <2>1. CASE \E i \in DOMAIN emitting[t].called : emitting[t].called[i] = id
    <3>1. PICK i \in DOMAIN emitting[t].called : emitting[t].called[i] = id
      BY <2>1
    <3> DEFINE s == emitting[t].called
               x == handlers[emitting[t].next].id
    <3>2. s \in Seq(Nat) /\ q = Append(s, x) /\ i \in DOMAIN s /\ s[i] = id
      BY <1>1, <1>2, <3>1 DEF Emission
    <3> HIDE DEF s, x
    <3>3. i \in DOMAIN q /\ q[i] = id
      BY <3>2
    <3> QED BY <3>3
  <2>2. CASE \E i \in DOMAIN handlers : i >= emitting[t].next /\ handlers[i].id = id
    <3>1. PICK i \in DOMAIN handlers : i >= emitting[t].next /\ handlers[i].id = id
      BY <2>2
    <3>2. CASE i = emitting[t].next
      <4> DEFINE s == emitting[t].called
      <4>1. s \in Seq(Nat) /\ handlers[i].id \in Nat /\ q = Append(s, handlers[i].id)
        BY <1>1, <1>2, <3>2 DEF Emission, Handler
      <4> HIDE DEF s
      <4>2. Len(s) + 1 \in DOMAIN q /\ q[Len(s) + 1] = handlers[i].id
        BY <4>1
      <4> QED BY <3>1, <4>2
    <3>3. CASE i # emitting[t].next
      <4>1. i >= n
        BY <1>1, <1>2, <3>1, <3>3 DEF Emission
      <4> QED BY <1>1, <1>3, <3>1, <4>1
    <3> QED BY <3>2, <3>3
  <2> QED BY <1>3, <1>8, <2>1, <2>2 DEF BusInv, Ahead
<1>9. Ahead'
  <2> SUFFICES ASSUME NEW u \in Thread, emitting'[u].event # 0, ~ emitting'[u].disturbed,
                      NEW id \in emitting'[u].present
               PROVE  \/ \E i \in DOMAIN emitting'[u].called : emitting'[u].called[i] = id
                      \/ /\ emitting'[u].live
                         /\ \E i \in DOMAIN handlers : i >= emitting'[u].next /\ handlers[i].id = id
    BY <1>1 DEF Ahead, Bus!Emitting
  <2>1. CASE u = t
    BY <1>3, <1>5, <1>8, <2>1 DEF Bus!Emitting
  <2>2. CASE u # t
    BY <1>5, <2>2 DEF BusInv, Ahead, Bus!Emitting
  <2> QED BY <2>1, <2>2
<1> QED BY <1>6, <1>7, <1>9 DEF BusInv

(* An emit that returns has nothing ahead.                                  *)
LEMMA EmitReturnsKeeps ==
    ASSUME BusInv, NEW t \in Thread, Bus!EmitReturns(t)
    PROVE  BusInv'
<1>1. UNCHANGED <<handlers, registrations, history, events, cleared>>
  BY DEF Bus!EmitReturns
<1>2. emitting' = [emitting EXCEPT ![t] = Bus!Idle]
  BY DEF Bus!EmitReturns
<1>3. Bus!Idle \in Emission /\ Bus!Idle.event = 0
  BY DEF Bus!Idle, Emission
<1>4. \A u \in Thread : emitting'[u] = IF u = t THEN Bus!Idle ELSE emitting[u]
  BY <1>2 DEF BusInv, BusTyped
<1>5. BusTyped'
  BY <1>1, <1>2, <1>3 DEF BusInv, BusTyped
<1>6. HistoryIsRecent'
  BY <1>1 DEF BusInv, HistoryIsRecent, Bus!HistoryIsRecent
<1>7. Ahead'
  BY <1>1, <1>3, <1>4 DEF BusInv, Ahead, Bus!Emitting
<1> QED BY <1>5, <1>6, <1>7 DEF BusInv

(* clear_history empties the history, or changes nothing.                   *)
LEMMA ClearKeeps ==
    ASSUME BusInv, Bus!ClearHistory
    PROVE  BusInv'
<1>1. UNCHANGED <<handlers, registrations, events, emitting>> /\ cleared'
  BY DEF Bus!ClearHistory
<1>2. history' = <<>> \/ history' = history
  BY DEF Bus!ClearHistory
<1>3. BusTyped'
  <2>1. history \in Seq(Nat) /\ <<>> \in Seq(Nat)
    BY DEF BusInv, BusTyped
  <2>2. history' \in Seq(Nat)
    BY <1>2, <2>1
  <2> QED BY <1>1, <2>2 DEF BusInv, BusTyped
<1>4. HistoryIsRecent'
  <2>1. Len(history') <= MaxHistory
    BY <1>2, NotificationAssumption DEF BusInv, HistoryIsRecent, Bus!HistoryIsRecent
  <2>2. \A i \in DOMAIN history' : history'[i] = events - Len(history') + i
    BY <1>2 DEF BusInv, HistoryIsRecent, Bus!HistoryIsRecent
  <2> QED BY <1>1, <2>1, <2>2 DEF HistoryIsRecent, Bus!HistoryIsRecent
<1>5. Ahead'
  BY <1>1 DEF BusInv, Ahead, Bus!Emitting
<1> QED BY <1>3, <1>4, <1>5 DEF BusInv

-----------------------------------------------------------------------------
(* The numbers of the events.                                               *)

(* What the numbers depend on.                                              *)
LEMMA SameNumbers ==
    ASSUME Numbered, UNCHANGED <<DOMAIN posts, events>>,
           \A u \in Thread : /\ emitting'[u].event = emitting[u].event
                             /\ dispatching'[u].pc = dispatching[u].pc
                             /\ dispatching'[u].event = dispatching[u].event
    PROVE  Numbered'
<1>1. DOMAIN posts' = DOMAIN posts /\ events' = events
  OBVIOUS
<1>2. \A u \in Thread : /\ Bus!Emitting(u)' <=> Bus!Emitting(u)
                        /\ Hooks!Dispatching(u)' <=> Hooks!Dispatching(u)
                        /\ dispatching'[u].pc = dispatching[u].pc
                        /\ Busy(u)' <=> Busy(u)
                        /\ Event(u)' = Event(u)
  BY DEF Bus!Emitting, Hooks!Dispatching, Busy, Event
<1>3. Numbered'
  <2>1. \A j \in DOMAIN posts' : j[2] <= events'
    BY <1>1 DEF Numbered
  <2>2. \A u \in Thread : Busy(u)' => Event(u)' <= events'
    BY <1>1, <1>2 DEF Numbered
  <2>3. \A u \in Thread : Bus!Emitting(u)' => ~ Hooks!Dispatching(u)'
    BY <1>2 DEF Numbered
  <2>4. \A u, v \in Thread : u # v /\ Busy(u)' /\ Busy(v)' => Event(u)' # Event(v)'
    BY <1>2 DEF Numbered
  <2>5. ASSUME NEW u \in Thread, Bus!Emitting(u)' \/ dispatching'[u].pc = "match"
        PROVE  \A j \in DOMAIN posts' : j[2] # Event(u)'
    <3>1. Bus!Emitting(u) \/ dispatching[u].pc = "match"
      BY <1>1, <1>2, <2>5
    <3>2. \A j \in DOMAIN posts : j[2] # Event(u)
      BY <3>1 DEF Numbered
    <3> QED BY <1>1, <1>2, <3>2
  <2> QED BY <2>1, <2>2, <2>3, <2>4, <2>5 DEF Numbered
<1> QED BY <1>3

(* Steps that leave every thread at its event keep the webhooks' part.      *)
LEMMA SameEvents ==
    ASSUME HooksInv, UNCHANGED <<hooks, events>>,
           \A u \in Thread : emitting'[u].event = emitting[u].event
    PROVE  HooksInv'
<1>1. UNCHANGED <<client, webhooks, counter, dispatching, job, deliveries, posts, removedAt, events>>
  BY DEF hooks
<1>3. Numbered'
  BY <1>1, SameNumbers DEF HooksInv
<1>4. HooksTyped' /\ Matched' /\ Outcomes' /\ Logged' /\ Removed' /\ deliveries' \in Seq(Record)
  BY <1>1 DEF HooksInv, HooksTyped, Matched, Outcomes, Logged, Removed
<1> QED BY <1>3, <1>4 DEF HooksInv

(* A new event has a number of its own.                                     *)
LEMMA EmitNumbers ==
    ASSUME IInv, NEW t \in Thread, Emit(t)
    PROVE  HooksInv'
<1>1. /\ UNCHANGED <<client, webhooks, counter, dispatching, job, deliveries, posts, removedAt>>
      /\ events' = events + 1 /\ events \in Nat /\ ~ Busy(t)
      /\ \A j \in DOMAIN posts : j \in Nat \X Nat
  BY DEF Emit, OnBus, Bus!Emit, hooks, IInv, BusInv, BusTyped, HooksInv, HooksTyped
<1>2. \A u \in Thread : u # t => emitting'[u] = emitting[u]
  BY DEF Emit, OnBus, Bus!Emit, IInv, BusInv, BusTyped
<1>3. emitting'[t].event = events + 1
  BY DEF Emit, OnBus, Bus!Emit, Bus!Idle, IInv, BusInv, BusTyped
<1>4. \A u \in Thread : u # t =>
        /\ Bus!Emitting(u)' <=> Bus!Emitting(u)
        /\ (Busy(u)' <=> Busy(u)) /\ Event(u)' = Event(u)
  BY <1>1, <1>2 DEF Bus!Emitting, Hooks!Dispatching, Busy, Event
<1>5. \A u \in Thread : Hooks!Dispatching(u)' <=> Hooks!Dispatching(u)
  BY <1>1 DEF Hooks!Dispatching
<1>6. Event(t)' = events + 1 /\ Bus!Emitting(t)' /\ ~ Hooks!Dispatching(t)
  BY <1>1, <1>3 DEF Event, Bus!Emitting, Busy
<1>7. \A u \in Thread : Event(u) \in Nat
  BY DEF Event, IInv, BusInv, BusTyped, Emission, HooksInv, HooksTyped, Dispatcher
<1>8. \A j \in DOMAIN posts : j[2] \in Nat /\ j[2] <= events
  BY <1>1 DEF IInv, HooksInv, Numbered
<1>9. Numbered'
  <2>1. \A u \in Thread : Busy(u)' => Event(u)' <= events'
    BY <1>1, <1>4, <1>6, <1>7 DEF IInv, HooksInv, Numbered
  <2>2. ASSUME NEW u \in Thread, NEW v \in Thread, u # v, Busy(u)', Busy(v)'
        PROVE  Event(u)' # Event(v)'
    BY <1>1, <1>4, <1>6, <1>7, <2>2 DEF IInv, HooksInv, Numbered
  <2>3. ASSUME NEW u \in Thread, Bus!Emitting(u)' \/ dispatching'[u].pc = "match"
        PROVE  \A j \in DOMAIN posts : j[2] # Event(u)'
    <3>1. CASE u = t
      BY <1>1, <1>6, <1>8, <3>1
    <3>2. CASE u # t
      <4>1. Bus!Emitting(u) \/ dispatching[u].pc = "match"
        BY <1>1, <1>4, <2>3, <3>2
      <4>2. \A j \in DOMAIN posts : j[2] # Event(u)
        BY <4>1 DEF IInv, HooksInv, Numbered
      <4> QED BY <1>4, <3>2, <4>2
    <3> QED BY <3>1, <3>2
  <2>4. \A u \in Thread : Bus!Emitting(u)' => ~ Hooks!Dispatching(u)'
    BY <1>4, <1>5, <1>6 DEF IInv, HooksInv, Numbered
  <2>5. \A j \in DOMAIN posts' : j[2] <= events'
    BY <1>1, <1>8
  <2> QED BY <1>1, <2>1, <2>2, <2>3, <2>4, <2>5 DEF Numbered
<1>10. HooksTyped' /\ Matched' /\ Outcomes' /\ Logged' /\ Removed' /\ deliveries' \in Seq(Record)
  BY <1>1 DEF IInv, HooksInv, HooksTyped, Matched, Outcomes, Logged, Removed
<1> QED BY <1>9, <1>10 DEF HooksInv

(* The handlers' event is the one dispatched.                               *)
LEMMA HandlersDoneKeeps ==
    ASSUME IInv, NEW t \in Thread, NEW e \in EventType, HandlersDone(t, e)
    PROVE  HooksInv'
<1> DEFINE d == [pc |-> "match", event |-> emitting[t].event, type |-> e, todo |-> {}]
<1>1. /\ UNCHANGED <<client, webhooks, counter, job, deliveries, posts, removedAt, events>>
      /\ Bus!Emitting(t) /\ ~ Hooks!Dispatching(t)
  BY DEF HandlersDone, Bus!EmitReturns, Hooks!Dispatch, Hooks!service
<1>2. dispatching' = [dispatching EXCEPT ![t] = d] /\ emitting' = [emitting EXCEPT ![t] = Bus!Idle]
  BY DEF HandlersDone, Bus!EmitReturns, Hooks!Dispatch
<1>3. d \in Dispatcher /\ d.pc = "match" /\ d.event = emitting[t].event /\ d.todo = {}
  <2>1. emitting[t].event \in Nat
    BY DEF IInv, BusInv, BusTyped, Emission
  <2> QED BY <2>1 DEF Dispatcher, Kind
<1> HIDE DEF d
<1>4. /\ \A u \in Thread : dispatching'[u] = IF u = t THEN d ELSE dispatching[u]
      /\ \A u \in Thread : u # t => emitting'[u] = emitting[u]
      /\ emitting'[t].event = 0
  BY <1>2 DEF IInv, BusInv, BusTyped, HooksInv, HooksTyped, Bus!Idle
<1>5. HooksTyped'
  BY <1>1, <1>2, <1>3 DEF IInv, HooksInv, HooksTyped
<1>6. \A u \in Thread : /\ (Busy(u)' <=> Busy(u)) /\ Event(u)' = Event(u)
                        /\ u # t => (Bus!Emitting(u)' <=> Bus!Emitting(u))
                                      /\ (Hooks!Dispatching(u)' <=> Hooks!Dispatching(u))
  BY <1>1, <1>3, <1>4 DEF Busy, Event, Bus!Emitting, Hooks!Dispatching
<1>7. ~ Bus!Emitting(t)'
  BY <1>4 DEF Bus!Emitting
<1>8. Numbered'
  <2>1. \A j \in DOMAIN posts' : j[2] <= events'
    BY <1>1 DEF IInv, HooksInv, Numbered
  <2>2. \A u \in Thread : Busy(u)' => Event(u)' <= events'
    BY <1>1, <1>6 DEF IInv, HooksInv, Numbered
  <2>3. \A u \in Thread : Bus!Emitting(u)' => ~ Hooks!Dispatching(u)'
    BY <1>6, <1>7 DEF IInv, HooksInv, Numbered
  <2>4. \A u, v \in Thread : u # v /\ Busy(u)' /\ Busy(v)' => Event(u)' # Event(v)'
    BY <1>6 DEF IInv, HooksInv, Numbered
  <2>5. ASSUME NEW u \in Thread, Bus!Emitting(u)' \/ dispatching'[u].pc = "match"
        PROVE  \A j \in DOMAIN posts' : j[2] # Event(u)'
    <3>1. Bus!Emitting(u) \/ dispatching[u].pc = "match"
      BY <1>1, <1>4, <1>6, <2>5
    <3>2. \A j \in DOMAIN posts : j[2] # Event(u)
      BY <3>1 DEF IInv, HooksInv, Numbered
    <3> QED BY <1>1, <1>6, <3>2
  <2> QED BY <2>1, <2>2, <2>3, <2>4, <2>5 DEF Numbered
<1>9. Matched'
  BY <1>1, <1>3, <1>4 DEF IInv, HooksInv, Matched
<1>10. Outcomes' /\ Logged' /\ Removed' /\ deliveries' \in Seq(Record)
  BY <1>1 DEF IInv, HooksInv, Outcomes, Logged, Removed
<1> QED BY <1>5, <1>8, <1>9, <1>10 DEF HooksInv

-----------------------------------------------------------------------------
(* The webhooks.                                                            *)

(* add_webhook: the id is new, so no removed webhook had it.                *)
LEMMA AddWebhookKeeps ==
    ASSUME IInv, NEW types \in SUBSET EventType, NEW n \in Nat,
           OnHooks(Hooks!AddWebhook(types, n))
    PROVE  HooksInv'
<1> DEFINE h == [enabled |-> TRUE, events |-> types, retries |-> n]
<1>1. /\ UNCHANGED <<bus, dispatching, job, deliveries, posts, removedAt>>
      /\ UNCHANGED <<handlers, registrations, history, events, emitting>>
      /\ counter' = counter + 1 /\ counter \in Nat
      /\ DOMAIN webhooks \subseteq 1 .. counter /\ DOMAIN removedAt \subseteq 1 .. counter
  BY DEF OnHooks, Hooks!AddWebhook, bus, IInv, HooksInv, HooksTyped
<1>2. webhooks' = [w \in DOMAIN webhooks \cup {counter + 1} |->
                     IF w = counter + 1 THEN h ELSE webhooks[w]]
  BY DEF OnHooks, Hooks!AddWebhook
<1>3. h \in Webhook
  BY DEF Webhook
<1> HIDE DEF h
<1>4. /\ DOMAIN webhooks' = DOMAIN webhooks \cup {counter + 1}
      /\ \A w \in DOMAIN webhooks' : webhooks'[w] \in Webhook
      /\ webhooks' = [w \in DOMAIN webhooks' |-> webhooks'[w]]
  <2>1. \A w \in DOMAIN webhooks : webhooks[w] \in Webhook
    BY DEF IInv, HooksInv, HooksTyped
  <2> QED BY <1>2, <1>3, <2>1
<1>5. HooksTyped'
  <2>1. webhooks' \in [DOMAIN webhooks' -> Webhook]
    BY <1>4
  <2>2. DOMAIN webhooks' \subseteq 1 .. counter' /\ DOMAIN removedAt \subseteq 1 .. counter' /\ counter' \in Nat
    BY <1>1, <1>4
  <2> QED BY <1>1, <2>1, <2>2 DEF IInv, HooksInv, HooksTyped
<1>6. Numbered'
  BY <1>1, SameNumbers DEF IInv, HooksInv
<1>7. Removed'
  <2>1. DOMAIN webhooks' \cap DOMAIN removedAt = {}
    BY <1>1, <1>4 DEF IInv, HooksInv, Removed
  <2> QED BY <1>1, <2>1 DEF IInv, HooksInv, Removed
<1>8. Matched' /\ Outcomes' /\ Logged' /\ deliveries' \in Seq(Record)
  BY <1>1 DEF IInv, HooksInv, Matched, Outcomes, Logged
<1> QED BY <1>5, <1>6, <1>7, <1>8 DEF HooksInv

(* remove_webhook: all that it was matched with was emitted by then.        *)
LEMMA RemoveWebhookKeeps ==
    ASSUME IInv, NEW w \in DOMAIN webhooks, OnHooks(Hooks!RemoveWebhook(w, events))
    PROVE  HooksInv'
<1>1. /\ UNCHANGED <<counter, dispatching, job, deliveries, posts>>
      /\ UNCHANGED <<handlers, registrations, history, events, emitting>>
      /\ counter \in Nat /\ events \in Nat
      /\ DOMAIN webhooks \subseteq 1 .. counter /\ DOMAIN removedAt \subseteq 1 .. counter
  BY DEF OnHooks, Hooks!RemoveWebhook, bus, IInv, BusInv, BusTyped, HooksInv, HooksTyped
<1>2. /\ webhooks' = [x \in DOMAIN webhooks \ {w} |-> webhooks[x]]
      /\ removedAt' = [x \in DOMAIN removedAt \cup {w} |-> IF x = w THEN events ELSE removedAt[x]]
  BY DEF OnHooks, Hooks!RemoveWebhook
<1>3. /\ DOMAIN webhooks' = DOMAIN webhooks \ {w}
      /\ webhooks' \in [DOMAIN webhooks' -> Webhook]
  <2>1. \A x \in DOMAIN webhooks : webhooks[x] \in Webhook
    BY DEF IInv, HooksInv, HooksTyped
  <2> QED BY <1>2, <2>1
<1>4. /\ DOMAIN removedAt' = DOMAIN removedAt \cup {w}
      /\ \A x \in DOMAIN removedAt' : removedAt'[x] \in Nat
      /\ \A x \in DOMAIN removedAt : x # w => removedAt'[x] = removedAt[x]
      /\ removedAt'[w] = events
  BY <1>1, <1>2 DEF IInv, HooksInv, HooksTyped
<1>5. HooksTyped'
  <2>1. DOMAIN webhooks' \subseteq 1 .. counter' /\ DOMAIN removedAt' \subseteq 1 .. counter'
    BY <1>1, <1>3, <1>4
  <2> QED BY <1>1, <1>3, <1>4, <2>1 DEF IInv, HooksInv, HooksTyped
<1>6. Numbered'
  BY <1>1, SameNumbers DEF IInv, HooksInv
<1>7. Removed'
  <2>1. DOMAIN webhooks' \cap DOMAIN removedAt' = {}
    BY <1>3, <1>4 DEF IInv, HooksInv, Removed
  <2>2. ASSUME NEW j \in DOMAIN posts, j[1] \in DOMAIN removedAt'
        PROVE  j[2] <= removedAt'[j[1]]
    <3>1. CASE j[1] = w
      BY <1>4, <3>1 DEF IInv, HooksInv, Numbered
    <3>2. CASE j[1] # w
      BY <1>4, <2>2, <3>2 DEF IInv, HooksInv, Removed
    <3> QED BY <3>1, <3>2
  <2> QED BY <1>1, <2>1, <2>2 DEF Removed
<1>8. Matched' /\ Outcomes' /\ Logged' /\ deliveries' \in Seq(Record)
  BY <1>1 DEF IInv, HooksInv, Matched, Outcomes, Logged
<1> QED BY <1>5, <1>6, <1>7, <1>8 DEF HooksInv

(* enable_webhook and disable_webhook reach later dispatches only.          *)
LEMMA SetWebhookKeeps ==
    ASSUME IInv, NEW w \in DOMAIN webhooks, NEW on \in BOOLEAN, OnHooks(Hooks!SetWebhook(w, on))
    PROVE  HooksInv'
<1>1. /\ UNCHANGED <<counter, dispatching, job, deliveries, posts, removedAt>>
      /\ UNCHANGED <<handlers, registrations, history, events, emitting>>
      /\ webhooks' = [webhooks EXCEPT ![w].enabled = on]
  BY DEF OnHooks, Hooks!SetWebhook, bus
<1>2. DOMAIN webhooks' = DOMAIN webhooks /\ webhooks' \in [DOMAIN webhooks' -> Webhook]
  <2>1. webhooks[w] \in Webhook
    BY DEF IInv, HooksInv, HooksTyped
  <2>2. [webhooks[w] EXCEPT !.enabled = on] \in Webhook
    BY <2>1 DEF Webhook
  <2> QED BY <1>1, <2>2 DEF IInv, HooksInv, HooksTyped
<1>3. HooksTyped'
  BY <1>1, <1>2 DEF IInv, HooksInv, HooksTyped
<1>4. Numbered'
  BY <1>1, SameNumbers DEF IInv, HooksInv
<1>5. Matched' /\ Outcomes' /\ Logged' /\ Removed' /\ deliveries' \in Seq(Record)
  BY <1>1, <1>2 DEF IInv, HooksInv, Matched, Outcomes, Logged, Removed
<1> QED BY <1>3, <1>4, <1>5 DEF HooksInv

(* set_http_client, and clear_history's part of the webhooks.               *)
LEMMA QuietKeeps ==
    ASSUME IInv, UNCHANGED <<webhooks, counter, dispatching, job, posts, removedAt, events, emitting>>,
           deliveries' = deliveries \/ deliveries' = <<>>
    PROVE  HooksInv'
<1>1. HooksTyped' /\ Matched' /\ Outcomes' /\ Removed'
  BY DEF IInv, HooksInv, HooksTyped, Matched, Outcomes, Removed
<1>2. Numbered'
  BY SameNumbers DEF IInv, HooksInv
<1>3. deliveries' \in Seq(Record)
  <2>1. deliveries \in Seq(Record) /\ <<>> \in Seq(Record)
    BY DEF IInv, HooksInv
  <2> QED BY <2>1
<1>4. Logged'
  <2>1. CASE deliveries' = deliveries
    BY <2>1 DEF IInv, HooksInv, Logged
  <2>2. CASE deliveries' = <<>>
    BY <2>2 DEF Logged
  <2> QED BY <2>1, <2>2
<1> QED BY <1>1, <1>2, <1>3, <1>4 DEF HooksInv

(* The webhooks matched get the event for the first time.                   *)
LEMMA MatchKeeps ==
    ASSUME IInv, NEW t \in Thread, OnHooks(Hooks!Match(t))
    PROVE  HooksInv'
<1> DEFINE n == dispatching[t].event
           M == Hooks!Matching(dispatching[t].type)
           jobs == {<<w, n>> : w \in M}
           todo == {<<w, webhooks[w].retries>> : w \in M}
           d == [dispatching[t] EXCEPT !.pc = "start", !.todo = todo]
<1>1. /\ UNCHANGED <<webhooks, counter, job, deliveries, removedAt>>
      /\ UNCHANGED <<handlers, registrations, history, events, emitting>>
      /\ dispatching[t].pc = "match" /\ dispatching[t] \in Dispatcher
      /\ M \subseteq DOMAIN webhooks /\ DOMAIN webhooks \subseteq Nat /\ n \in Nat
      /\ DOMAIN posts \subseteq Nat \X Nat /\ DOMAIN job \subseteq DOMAIN posts
  BY DEF OnHooks, Hooks!Match, Hooks!service, Hooks!Matching, bus, IInv, HooksInv, HooksTyped, Dispatcher
<1>2. /\ dispatching' = [dispatching EXCEPT ![t] = d]
      /\ posts' = [j \in DOMAIN posts \cup jobs |-> IF j \in jobs THEN <<>> ELSE posts[j]]
  BY DEF OnHooks, Hooks!Match
<1>3. todo \in SUBSET (Nat \X Nat)
  BY <1>1 DEF IInv, HooksInv, HooksTyped, Webhook
<1>4. d \in Dispatcher /\ d.pc = "start" /\ d.todo = todo /\ d.event = n
  BY <1>1, <1>3 DEF Dispatcher
<1>5. ~ Bus!Emitting(t) /\ Busy(t) /\ Event(t) = n
  BY <1>1 DEF IInv, HooksInv, Numbered, Hooks!Dispatching, Busy, Event
<1>6. \A j \in DOMAIN posts : j[2] # n
  BY <1>1, <1>5 DEF IInv, HooksInv, Numbered
<1>7. /\ \A x \in todo : x[1] \in M /\ x[2] = webhooks[x[1]].retries /\ x = <<x[1], x[2]>>
      /\ \A j \in jobs : j[1] \in M /\ j[2] = n /\ j \in Nat \X Nat /\ j \notin DOMAIN posts
      /\ \A x \in todo : <<x[1], n>> \in jobs
  BY <1>1, <1>6
<1> HIDE DEF d, todo, jobs, M, n
<1>8. \A u \in Thread : dispatching'[u] = IF u = t THEN d ELSE dispatching[u]
  BY <1>2 DEF IInv, HooksInv, HooksTyped
<1>9. /\ DOMAIN posts' = DOMAIN posts \cup jobs
      /\ \A j \in DOMAIN posts : posts'[j] = posts[j]
      /\ \A j \in jobs : posts'[j] = <<>>
      /\ posts' = [j \in DOMAIN posts' |-> posts'[j]]
  BY <1>2, <1>7
<1>10. HooksTyped'
  <2>1. dispatching' \in [Thread -> Dispatcher]
    BY <1>2, <1>4 DEF IInv, HooksInv, HooksTyped
  <2>2. \A j \in DOMAIN posts' : posts'[j] \in Seq(Result)
    <3>1. <<>> \in Seq(Result) /\ \A j \in DOMAIN posts : posts[j] \in Seq(Result)
      BY DEF IInv, HooksInv, HooksTyped
    <3> QED BY <1>9, <3>1
  <2>3. posts' \in [DOMAIN posts' -> Seq(Result)]
    BY <1>9, <2>2
  <2>4. DOMAIN posts' \subseteq Nat \X Nat /\ DOMAIN job \subseteq DOMAIN posts'
    BY <1>1, <1>7, <1>9
  <2> QED BY <1>1, <2>1, <2>3, <2>4 DEF IInv, HooksInv, HooksTyped
<1>11. \A u \in Thread :
         /\ Bus!Emitting(u)' <=> Bus!Emitting(u)
         /\ Hooks!Dispatching(u)' <=> Hooks!Dispatching(u)
         /\ Busy(u)' <=> Busy(u)
         /\ Event(u)' = Event(u)
         /\ u # t => dispatching'[u] = dispatching[u]
  BY <1>1, <1>4, <1>5, <1>8 DEF n, Bus!Emitting, Hooks!Dispatching, Busy, Event
<1>12. Numbered'
  <2>1. \A j \in DOMAIN posts' : j[2] <= events'
    BY <1>1, <1>5, <1>7, <1>9 DEF IInv, HooksInv, Numbered
  <2>2. \A u \in Thread : Busy(u)' => Event(u)' <= events'
    BY <1>1, <1>11 DEF IInv, HooksInv, Numbered
  <2>3. \A u \in Thread : Bus!Emitting(u)' => ~ Hooks!Dispatching(u)'
    BY <1>11 DEF IInv, HooksInv, Numbered
  <2>4. \A u, v \in Thread : u # v /\ Busy(u)' /\ Busy(v)' => Event(u)' # Event(v)'
    BY <1>11 DEF IInv, HooksInv, Numbered
  <2>5. ASSUME NEW u \in Thread, Bus!Emitting(u)' \/ dispatching'[u].pc = "match"
        PROVE  \A j \in DOMAIN posts' : j[2] # Event(u)'
    <3>1. u # t
      BY <1>4, <1>5, <1>8, <1>11, <2>5
    <3>2. Bus!Emitting(u) \/ dispatching[u].pc = "match"
      BY <1>11, <2>5, <3>1
    <3>3. Busy(u)
      BY <3>2 DEF Busy, Hooks!Dispatching
    <3>4. Event(u) # n /\ \A j \in DOMAIN posts : j[2] # Event(u)
      BY <1>5, <3>1, <3>2, <3>3 DEF IInv, HooksInv, Numbered
    <3> QED BY <1>7, <1>9, <1>11, <3>4
  <2> QED BY <2>1, <2>2, <2>3, <2>4, <2>5 DEF Numbered
<1>13. Matched'
  <2>1. ASSUME NEW u \in Thread
        PROVE  /\ dispatching'[u].todo # {} => dispatching'[u].pc = "start"
               /\ \A x, y \in dispatching'[u].todo : x[1] = y[1] => x = y
               /\ \A x \in dispatching'[u].todo :
                    <<x[1], dispatching'[u].event>> \in DOMAIN posts' \ DOMAIN job
    <3>1. CASE u = t
      <4>1. dispatching'[u] = d
        BY <1>8, <3>1
      <4>2. \A x \in todo : <<x[1], n>> \in DOMAIN posts' \ DOMAIN job
        BY <1>1, <1>7, <1>9
      <4>3. \A x, y \in todo : x[1] = y[1] => x = y
        BY <1>7
      <4> QED BY <1>4, <4>1, <4>2, <4>3
    <3>2. CASE u # t
      BY <1>9, <1>11, <3>2 DEF IInv, HooksInv, Matched
    <3> QED BY <3>1, <3>2
  <2>2. \A j \in DOMAIN posts' \ DOMAIN job : posts'[j] = <<>>
    BY <1>9 DEF IInv, HooksInv, Matched
  <2> QED BY <1>1, <2>1, <2>2 DEF Matched
<1>14. Outcomes'
  <2>1. \A j \in DOMAIN job : posts'[j] = posts[j]
    BY <1>1, <1>9
  <2> QED BY <1>1, <2>1 DEF IInv, HooksInv, Outcomes
<1>15. Removed'
  BY <1>1, <1>7, <1>9 DEF IInv, HooksInv, Removed
<1>16. Logged' /\ deliveries' \in Seq(Record)
  BY <1>1 DEF IInv, HooksInv, Logged
<1> QED BY <1>10, <1>12, <1>13, <1>14, <1>15, <1>16 DEF HooksInv

(* A delivery is started once, with nothing posted.                         *)
LEMMA StartDeliveryKeeps ==
    ASSUME IInv, NEW t \in Thread, OnHooks(Hooks!StartDelivery(t))
    PROVE  HooksInv'
<1> DEFINE n == dispatching[t].event
<1>1. /\ UNCHANGED <<webhooks, counter, deliveries, posts, removedAt>>
      /\ UNCHANGED <<handlers, registrations, history, events, emitting>>
      /\ dispatching[t].pc = "start" /\ dispatching[t] \in Dispatcher
  BY DEF OnHooks, Hooks!StartDelivery, Hooks!service, bus, IInv, HooksInv, HooksTyped
<1>2. PICK x \in dispatching[t].todo :
        LET j == <<x[1], n>>
            new == [pc |-> "serialize", attempt |-> 1, retries |-> x[2], success |-> FALSE]
        IN /\ job' = [k \in DOMAIN job \cup {j} |-> IF k = j THEN new ELSE job[k]]
           /\ dispatching' = [dispatching EXCEPT ![t].todo = @ \ {x}]
  BY DEF OnHooks, Hooks!StartDelivery
<1> DEFINE j == <<x[1], n>>
           new == [pc |-> "serialize", attempt |-> 1, retries |-> x[2], success |-> FALSE]
           d == [dispatching[t] EXCEPT !.todo = @ \ {x}]
<1>3. /\ job' = [k \in DOMAIN job \cup {j} |-> IF k = j THEN new ELSE job[k]]
      /\ dispatching' = [dispatching EXCEPT ![t] = d]
  BY <1>2
<1>4. new \in Job /\ new.pc = "serialize" /\ new.attempt = 1 /\ new.success = FALSE
  <2>1. x[2] \in Nat
    BY <1>1 DEF Dispatcher
  <2> QED BY <2>1 DEF Job
<1>5. /\ d \in Dispatcher /\ d.pc = "start" /\ d.event = n
      /\ d.todo = dispatching[t].todo \ {x}
  BY <1>1 DEF Dispatcher
<1>6. j \in DOMAIN posts \ DOMAIN job /\ posts[j] = <<>>
  BY DEF IInv, HooksInv, Matched
<1>7. \A y \in d.todo : <<y[1], n>> # j
  BY <1>5 DEF IInv, HooksInv, Matched
<1>8. j[2] = n
  OBVIOUS
<1> HIDE DEF d, new, j, n
<1>9. \A u \in Thread : dispatching'[u] = IF u = t THEN d ELSE dispatching[u]
  BY <1>3 DEF IInv, HooksInv, HooksTyped
<1>10. /\ DOMAIN job' = DOMAIN job \cup {j} /\ job'[j] = new
       /\ \A k \in DOMAIN job : job'[k] = job[k]
       /\ job' = [k \in DOMAIN job' |-> job'[k]]
  BY <1>3, <1>6
<1>11. HooksTyped'
  <2>1. dispatching' \in [Thread -> Dispatcher]
    BY <1>3, <1>5 DEF IInv, HooksInv, HooksTyped
  <2>2. \A k \in DOMAIN job' : job'[k] \in Job
    BY <1>4, <1>10 DEF IInv, HooksInv, HooksTyped
  <2>3. job' \in [DOMAIN job' -> Job] /\ DOMAIN job' \subseteq DOMAIN posts
    BY <1>6, <1>10, <2>2 DEF IInv, HooksInv, HooksTyped
  <2> QED BY <1>1, <2>1, <2>3 DEF IInv, HooksInv, HooksTyped
<1>12. Numbered'
  BY <1>1, <1>5, <1>9, SameNumbers DEF n, IInv, HooksInv
<1>13. Matched'
  <2>1. ASSUME NEW u \in Thread
        PROVE  /\ dispatching'[u].todo # {} => dispatching'[u].pc = "start"
               /\ \A y, z \in dispatching'[u].todo : y[1] = z[1] => y = z
               /\ \A y \in dispatching'[u].todo :
                    <<y[1], dispatching'[u].event>> \in DOMAIN posts \ DOMAIN job'
    <3>1. CASE u = t
      <4>1. dispatching'[u] = d
        BY <1>9, <3>1
      <4>2. \A y \in d.todo : <<y[1], n>> \in DOMAIN posts \ DOMAIN job
        BY <1>5 DEF n, IInv, HooksInv, Matched
      <4>3. \A y, z \in d.todo : y[1] = z[1] => y = z
        BY <1>5 DEF IInv, HooksInv, Matched
      <4> QED BY <1>5, <1>7, <1>10, <4>1, <4>2, <4>3
    <3>2. CASE u # t
      <4>1. dispatching'[u] = dispatching[u]
        BY <1>9, <3>2
      <4>2. ASSUME NEW y \in dispatching[u].todo
            PROVE  <<y[1], dispatching[u].event>> # j
        <5>1. dispatching[u].pc = "start"
          BY <4>2 DEF IInv, HooksInv, Matched
        <5>2. /\ Busy(u) /\ ~ Bus!Emitting(u) /\ Event(u) = dispatching[u].event
              /\ Busy(t) /\ ~ Bus!Emitting(t) /\ Event(t) = n
          BY <1>1, <5>1 DEF n, IInv, HooksInv, Numbered, Busy, Event, Hooks!Dispatching
        <5>3. dispatching[u].event # n
          BY <3>2, <5>2 DEF IInv, HooksInv, Numbered
        <5> QED BY <5>3, <1>8
      <4> QED BY <1>10, <4>1, <4>2 DEF IInv, HooksInv, Matched
    <3> QED BY <3>1, <3>2
  <2>2. \A k \in DOMAIN posts \ DOMAIN job' : posts[k] = <<>>
    BY <1>10 DEF IInv, HooksInv, Matched
  <2> QED BY <1>1, <2>1, <2>2 DEF Matched
<1>14. Outcomes'
  <2>1. ASSUME NEW k \in DOMAIN job'
        PROVE  Sound(job'[k], posts[k])
    <3>1. CASE k = j
      <4>1. job'[k] = new /\ posts[k] = <<>> /\ Len(posts[k]) = 0
        BY <1>6, <1>10, <3>1
      <4> QED BY <1>4, <4>1 DEF Job, Sound
    <3>2. CASE k # j
      <4>1. k \in DOMAIN job /\ job'[k] = job[k]
        BY <1>10, <3>2
      <4> QED BY <4>1 DEF IInv, HooksInv, Outcomes
    <3> QED BY <3>1, <3>2
  <2> QED BY <1>1, <2>1 DEF Outcomes
<1>15. Logged'
  BY <1>1, <1>10 DEF IInv, HooksInv, Logged
<1>16. Removed' /\ deliveries' \in Seq(Record)
  BY <1>1 DEF IInv, HooksInv, Removed
<1> QED BY <1>11, <1>12, <1>13, <1>14, <1>15, <1>16 DEF HooksInv

(* A dispatch that returns has nothing left to start.                       *)
LEMMA DispatchReturnsKeeps ==
    ASSUME IInv, NEW t \in Thread, OnHooks(Hooks!DispatchReturns(t))
    PROVE  HooksInv'
<1>1. /\ UNCHANGED <<webhooks, counter, job, deliveries, posts, removedAt>>
      /\ UNCHANGED <<handlers, registrations, history, events, emitting>>
      /\ dispatching[t].pc = "start" /\ dispatching' = [dispatching EXCEPT ![t] = Hooks!Idle]
  BY DEF OnHooks, Hooks!DispatchReturns, Hooks!service, bus
<1>2. Hooks!Idle \in Dispatcher /\ Hooks!Idle.pc = "idle" /\ Hooks!Idle.todo = {}
  BY DEF Hooks!Idle, Dispatcher, Kind
<1>3. \A u \in Thread : dispatching'[u] = IF u = t THEN Hooks!Idle ELSE dispatching[u]
  BY <1>1 DEF IInv, HooksInv, HooksTyped
<1>4. HooksTyped'
  BY <1>1, <1>2 DEF IInv, HooksInv, HooksTyped
<1>5. ~ Busy(t)' /\ ~ Bus!Emitting(t)'
  BY <1>1, <1>2, <1>3 DEF IInv, HooksInv, Numbered, Busy, Bus!Emitting, Hooks!Dispatching
<1>6. \A u \in Thread : u # t =>
         /\ Bus!Emitting(u)' <=> Bus!Emitting(u)
         /\ Hooks!Dispatching(u)' <=> Hooks!Dispatching(u)
         /\ Busy(u)' <=> Busy(u)
         /\ Event(u)' = Event(u)
         /\ dispatching'[u] = dispatching[u]
  BY <1>1, <1>3 DEF Bus!Emitting, Hooks!Dispatching, Busy, Event
<1>7. Numbered'
  <2>1. \A j \in DOMAIN posts' : j[2] <= events'
    BY <1>1 DEF IInv, HooksInv, Numbered
  <2>2. \A u \in Thread : Busy(u)' => Event(u)' <= events'
    BY <1>1, <1>5, <1>6 DEF IInv, HooksInv, Numbered
  <2>3. \A u \in Thread : Bus!Emitting(u)' => ~ Hooks!Dispatching(u)'
    BY <1>5, <1>6 DEF IInv, HooksInv, Numbered
  <2>4. \A u, v \in Thread : u # v /\ Busy(u)' /\ Busy(v)' => Event(u)' # Event(v)'
    BY <1>5, <1>6 DEF IInv, HooksInv, Numbered
  <2>5. ASSUME NEW u \in Thread, Bus!Emitting(u)' \/ dispatching'[u].pc = "match"
        PROVE  \A j \in DOMAIN posts' : j[2] # Event(u)'
    <3>1. u # t
      BY <1>2, <1>3, <1>5, <2>5
    <3>2. Bus!Emitting(u) \/ dispatching[u].pc = "match"
      BY <1>6, <2>5, <3>1
    <3>3. \A j \in DOMAIN posts : j[2] # Event(u)
      BY <3>2 DEF IInv, HooksInv, Numbered
    <3> QED BY <1>1, <1>6, <3>1, <3>3
  <2> QED BY <2>1, <2>2, <2>3, <2>4, <2>5 DEF Numbered
<1>8. Matched'
  BY <1>1, <1>2, <1>3 DEF IInv, HooksInv, Matched
<1>9. Outcomes' /\ Logged' /\ Removed' /\ deliveries' \in Seq(Record)
  BY <1>1 DEF IInv, HooksInv, Outcomes, Logged, Removed
<1> QED BY <1>4, <1>7, <1>8, <1>9 DEF HooksInv

(* Serializing posts nothing: a delivery goes on to its first attempt, to   *)
(* its record if it has none, or dies.                                      *)
LEMMA SerializeKeeps ==
    ASSUME IInv, NEW j \in DOMAIN job, OnHooks(Hooks!Serialize(j))
    PROVE  HooksInv'
<1>1. /\ UNCHANGED <<webhooks, counter, dispatching, deliveries, posts, removedAt>>
      /\ UNCHANGED <<handlers, registrations, history, events, emitting>>
      /\ job[j].pc = "serialize" /\ job[j] \in Job
      /\ j \in DOMAIN posts
  BY DEF OnHooks, Hooks!Serialize, Hooks!service, bus, IInv, HooksInv, HooksTyped
<1>2. PICK pc \in {IF job[j].retries = 0 THEN "record" ELSE "post", "dead"} :
        job' = [job EXCEPT ![j].pc = pc]
  BY DEF OnHooks, Hooks!Serialize
<1> DEFINE d == [job[j] EXCEPT !.pc = pc]
<1>3. /\ d \in Job /\ d.pc = pc /\ d.success = job[j].success
      /\ d.attempt = job[j].attempt /\ d.retries = job[j].retries
  BY <1>1 DEF Job
<1>4. job' = [job EXCEPT ![j] = d]
  BY <1>2
<1> HIDE DEF d
<1>5. /\ DOMAIN job' = DOMAIN job /\ job'[j] = d
      /\ \A k \in DOMAIN job : k # j => job'[k] = job[k]
  BY <1>4
<1>6. HooksTyped'
  BY <1>1, <1>3, <1>4, <1>5 DEF IInv, HooksInv, HooksTyped
<1>7. Numbered'
  BY <1>1, SameNumbers DEF IInv, HooksInv
<1>8. Matched'
  BY <1>1, <1>5 DEF IInv, HooksInv, Matched
<1>9. Outcomes'
  <2>1. /\ ~ job[j].success /\ job[j].attempt = 1 /\ posts[j] = <<>>
        /\ Len(posts[j]) = 0 /\ DOMAIN posts[j] = {} /\ job[j].retries \in Nat
    BY <1>1 DEF IInv, HooksInv, Outcomes, Sound, Job
  <2>2. CASE pc = "dead"
    <3>1. Sound(d, posts[j])
      BY <1>3, <2>1, <2>2 DEF Sound
    <3> QED BY <1>1, <1>5, <3>1 DEF IInv, HooksInv, Outcomes
  <2>3. CASE pc = "record" /\ job[j].retries = 0
    <3>1. Sound(d, posts[j])
      BY <1>3, <2>1, <2>3 DEF Sound
    <3> QED BY <1>1, <1>5, <3>1 DEF IInv, HooksInv, Outcomes
  <2>4. CASE pc = "post" /\ job[j].retries # 0
    <3>1. Sound(d, posts[j])
      BY <1>3, <2>1, <2>4 DEF Sound
    <3> QED BY <1>1, <1>5, <3>1 DEF IInv, HooksInv, Outcomes
  <2> QED BY <2>2, <2>3, <2>4
<1>10. Logged'
  <2>1. \A i \in DOMAIN deliveries : deliveries[i].job # j
    BY <1>1 DEF IInv, HooksInv, Logged
  <2> QED BY <1>1, <1>5, <2>1 DEF IInv, HooksInv, Logged
<1>11. Removed' /\ deliveries' \in Seq(Record)
  BY <1>1 DEF IInv, HooksInv, Removed
<1> QED BY <1>6, <1>7, <1>8, <1>9, <1>10, <1>11 DEF HooksInv

(* One attempt: a good one ends the delivery, so does the last.             *)
LEMMA PostKeeps ==
    ASSUME IInv, NEW j \in DOMAIN job, NEW o \in Result,
           job[j].pc = "post", posts' = [posts EXCEPT ![j] = Append(@, o)],
           Hooks!Settled(j, o \in Good),
           UNCHANGED <<webhooks, counter, dispatching, deliveries, removedAt, bus>>
    PROVE  HooksInv'
<1>1. /\ UNCHANGED <<handlers, registrations, history, events, emitting>>
      /\ j \in DOMAIN posts /\ posts[j] \in Seq(Result) /\ job[j] \in Job
  BY DEF bus, IInv, HooksInv, HooksTyped
<1>2. PICK good \in BOOLEAN : good <=> o \in Good
  <2>1. CASE o \in Good
    <3> WITNESS TRUE \in BOOLEAN
    <3> QED BY <2>1
  <2>2. CASE o \notin Good
    <3> WITNESS FALSE \in BOOLEAN
    <3> QED BY <2>2
  <2> QED BY <2>1, <2>2
<1>3. good = (o \in Good)
  <2>1. CASE o \in Good
    BY <1>2, <2>1
  <2>2. CASE o \notin Good
    BY <1>2, <2>2
  <2> QED BY <2>1, <2>2
<1>4. PICK over \in BOOLEAN : over <=> good \/ job[j].attempt = job[j].retries
  <2>1. CASE good \/ job[j].attempt = job[j].retries
    <3> WITNESS TRUE \in BOOLEAN
    <3> QED BY <2>1
  <2>2. CASE ~ (good \/ job[j].attempt = job[j].retries)
    <3> WITNESS FALSE \in BOOLEAN
    <3> QED BY <2>2
  <2> QED BY <2>1, <2>2
<1>5. PICK n \in Nat : n = IF over THEN job[j].attempt ELSE job[j].attempt + 1
  BY <1>1 DEF Job
<1> DEFINE d == [job[j] EXCEPT !.pc = IF over THEN "record" ELSE "post",
                               !.attempt = n, !.success = good]
           q == Append(posts[j], o)
<1>6. job' = [job EXCEPT ![j] = d]
  BY <1>3, <1>4, <1>5 DEF Hooks!Settled
<1>7. /\ d \in Job /\ d.pc = (IF over THEN "record" ELSE "post") /\ d.attempt = n
      /\ d.success = good /\ d.retries = job[j].retries
  BY <1>1 DEF Job
<1>8. /\ q \in Seq(Result) /\ Len(q) = Len(posts[j]) + 1
      /\ q[Len(posts[j]) + 1] = o /\ Len(posts[j]) \in Nat
      /\ \A i \in DOMAIN posts[j] : q[i] = posts[j][i]
      /\ DOMAIN q = 1 .. (Len(posts[j]) + 1) /\ DOMAIN posts[j] = 1 .. Len(posts[j])
  BY <1>1
<1>9. posts' = [posts EXCEPT ![j] = q]
  OBVIOUS
<1>10. /\ ~ job[j].success /\ job[j].attempt = Len(posts[j]) + 1
       /\ job[j].attempt <= job[j].retries
       /\ \A i \in DOMAIN posts[j] : posts[j][i] \notin Good
  BY DEF IInv, HooksInv, Outcomes, Sound
<1> HIDE DEF d, q
<1>11. /\ DOMAIN posts' = DOMAIN posts /\ DOMAIN job' = DOMAIN job
       /\ job'[j] = d /\ posts'[j] = q
       /\ \A k \in DOMAIN job : k # j => job'[k] = job[k] /\ posts'[k] = posts[k]
       /\ \A k \in DOMAIN posts : k # j => posts'[k] = posts[k]
  BY <1>1, <1>6, <1>9 DEF IInv, HooksInv, HooksTyped
<1>12. HooksTyped'
  BY <1>1, <1>6, <1>7, <1>8, <1>9, <1>11 DEF IInv, HooksInv, HooksTyped
<1>13. Numbered'
  BY <1>1, <1>11, SameNumbers DEF IInv, HooksInv
<1>14. Matched'
  BY <1>1, <1>11 DEF IInv, HooksInv, Matched
<1>15. Outcomes'
  <2>1. ASSUME NEW k \in DOMAIN job, k # j
        PROVE  job'[k] = job[k] /\ posts'[k] = posts[k]
    BY <1>11, <2>1
  <2>2. d.pc = "post" =>
          /\ ~ d.success /\ d.attempt = Len(q) + 1 /\ d.attempt <= d.retries
          /\ \A i \in DOMAIN q : q[i] \notin Good
    <3> SUFFICES ASSUME d.pc = "post"
                 PROVE  /\ ~ d.success /\ d.attempt = Len(q) + 1 /\ d.attempt <= d.retries
                        /\ \A i \in DOMAIN q : q[i] \notin Good
      OBVIOUS
    <3>1. ~ over
      BY <1>7
    <3>2. ~ good /\ job[j].attempt # job[j].retries /\ n = job[j].attempt + 1
      BY <1>4, <1>5, <3>1
    <3>3. \A i \in DOMAIN q : i \in DOMAIN posts[j] \/ i = Len(posts[j]) + 1
      BY <1>8
    <3>4. \A i \in DOMAIN q : q[i] \notin Good
      BY <1>2, <1>8, <1>10, <3>2, <3>3
    <3>5. n <= job[j].retries /\ n = Len(q) + 1
      BY <1>1, <1>8, <1>10, <3>2 DEF Job
    <3> QED BY <1>7, <3>2, <3>4, <3>5
  <2>3. d.pc = "record" =>
          /\ d.success <=> \E i \in DOMAIN q : q[i] \in Good
          /\ d.retries > 0 =>
               d.attempt = Len(q) /\ (~ d.success => d.attempt = d.retries)
          /\ \A i \in DOMAIN q : q[i] \in Good => i = Len(q)
    <3> SUFFICES ASSUME d.pc = "record"
                 PROVE  /\ d.success <=> \E i \in DOMAIN q : q[i] \in Good
                        /\ d.retries > 0 =>
                             d.attempt = Len(q) /\ (~ d.success => d.attempt = d.retries)
                        /\ \A i \in DOMAIN q : q[i] \in Good => i = Len(q)
      OBVIOUS
    <3>1. over /\ n = job[j].attempt
      BY <1>5, <1>7
    <3>2. \A i \in DOMAIN q : i \in DOMAIN posts[j] \/ i = Len(q)
      BY <1>8
    <3>3. \A i \in DOMAIN q : q[i] \in Good => i = Len(q)
      BY <1>8, <1>10, <3>2
    <3>4. good <=> \E i \in DOMAIN q : q[i] \in Good
      BY <1>2, <1>8, <3>3
    <3>5. n = Len(q) /\ (~ good => n = job[j].retries)
      BY <1>4, <1>8, <1>10, <3>1
    <3> QED BY <1>7, <3>3, <3>4, <3>5
  <2>4. d.pc \in {"post", "record"} /\ Len(q) <= d.retries
    BY <1>1, <1>7, <1>8, <1>10 DEF Job
  <2>5. Sound(d, q)
    BY <2>2, <2>3, <2>4 DEF Sound
  <2>6. ASSUME NEW k \in DOMAIN job'
        PROVE  Sound(job'[k], posts'[k])
    <3>1. CASE k = j
      BY <1>11, <2>5, <3>1
    <3>2. CASE k # j
      BY <1>11, <2>1, <3>2 DEF IInv, HooksInv, Outcomes
    <3> QED BY <3>1, <3>2
  <2> QED BY <2>6 DEF Outcomes
<1>16. Logged'
  BY <1>1, <1>11 DEF IInv, HooksInv, Logged
<1>17. Removed' /\ deliveries' \in Seq(Record)
  BY <1>1, <1>11 DEF IInv, HooksInv, Removed
<1> QED BY <1>12, <1>13, <1>14, <1>15, <1>16, <1>17 DEF HooksInv

(* A delivery that ends is recorded last, and the oldest record dropped.    *)
LEMMA RecordKeeps ==
    ASSUME IInv, NEW j \in DOMAIN job, OnHooks(Hooks!Record(j))
    PROVE  HooksInv'
<1> DEFINE r == [job |-> j, success |-> job[j].success, attempt |-> job[j].attempt]
           all == Append(deliveries, r)
           d == [job[j] EXCEPT !.pc = "done"]
<1>1. /\ UNCHANGED <<webhooks, counter, dispatching, posts, removedAt>>
      /\ UNCHANGED <<handlers, registrations, history, events, emitting>>
      /\ job[j].pc = "record" /\ job[j] \in Job
      /\ j \in Nat \X Nat /\ deliveries \in Seq(Record)
  BY DEF OnHooks, Hooks!Record, Hooks!service, bus, IInv, HooksInv, HooksTyped
<1>2. /\ deliveries' = IF Len(all) > MaxDeliveries THEN Hooks!Last(all, MaxDeliveries) ELSE all
      /\ job' = [job EXCEPT ![j] = d]
  BY DEF OnHooks, Hooks!Record
<1>3. /\ d \in Job /\ d.pc = "done" /\ d.success = job[j].success
      /\ d.attempt = job[j].attempt /\ d.retries = job[j].retries
  BY <1>1 DEF Job
<1>4. r \in Record /\ r.job = j /\ r.success = d.success /\ r.attempt = d.attempt
  BY <1>1, <1>3 DEF Job, Record
<1> HIDE DEF d, r
<1>5. /\ DOMAIN job' = DOMAIN job /\ job'[j] = d
      /\ \A k \in DOMAIN job : k # j => job'[k] = job[k]
  BY <1>2
<1>6. /\ all \in Seq(Record) /\ Len(all) = Len(deliveries) + 1 /\ Len(deliveries) \in Nat
      /\ \A i \in DOMAIN all : all[i] = r \/ (i \in DOMAIN deliveries /\ all[i] = deliveries[i])
  BY <1>1, <1>4
<1> HIDE DEF all
<1>7. /\ deliveries' \in Seq(Record)
      /\ \A i \in DOMAIN deliveries' : \E k \in DOMAIN all : deliveries'[i] = all[k]
  <2>1. CASE Len(all) > MaxDeliveries
    <3> DEFINE m == Len(all) - MaxDeliveries + 1
    <3>1. m \in Nat /\ m >= 1 /\ m <= Len(all) /\ Len(all) \in Nat
      BY <1>6, <2>1, NotificationAssumption
    <3>2. deliveries' = SubSeq(all, m, Len(all))
      BY <1>2, <2>1 DEF Hooks!Last
    <3> HIDE DEF m
    <3>3. /\ deliveries' \in Seq(Record) /\ Len(deliveries') = Len(all) - m + 1
          /\ \A i \in 1 .. (Len(all) - m + 1) : deliveries'[i] = all[m + i - 1]
      BY <1>6, <3>1, <3>2
    <3>4. \A i \in DOMAIN deliveries' : m + i - 1 \in DOMAIN all /\ deliveries'[i] = all[m + i - 1]
      BY <1>6, <3>1, <3>3
    <3> QED BY <3>3, <3>4
  <2>2. CASE ~ Len(all) > MaxDeliveries
    BY <1>2, <1>6, <2>2
  <2> QED BY <2>1, <2>2
<1>8. HooksTyped'
  BY <1>1, <1>2, <1>3, <1>5 DEF IInv, HooksInv, HooksTyped
<1>9. Numbered'
  BY <1>1, SameNumbers DEF IInv, HooksInv
<1>10. Matched'
  BY <1>1, <1>5 DEF IInv, HooksInv, Matched
<1>11. Outcomes'
  <2>1. Sound(job[j], posts[j])
    BY DEF IInv, HooksInv, Outcomes
  <2>2. Sound(d, posts[j])
    BY <1>1, <1>3, <2>1 DEF Sound
  <2> QED BY <1>1, <1>5, <2>2 DEF IInv, HooksInv, Outcomes
<1>12. Logged'
  <2>1. \A i \in DOMAIN all :
          /\ all[i].job \in DOMAIN job' /\ job'[all[i].job].pc = "done"
          /\ all[i].success = job'[all[i].job].success
          /\ all[i].attempt = job'[all[i].job].attempt
    BY <1>1, <1>3, <1>4, <1>5, <1>6 DEF IInv, HooksInv, Logged
  <2> QED BY <1>7, <2>1 DEF Logged
<1>13. Removed'
  BY <1>1 DEF IInv, HooksInv, Removed
<1> QED BY <1>7, <1>8, <1>9, <1>10, <1>11, <1>12, <1>13 DEF HooksInv

-----------------------------------------------------------------------------
(* The service.                                                             *)

(* A service created has emitted and delivered nothing.                     *)
LEMMA InitIInv == Init => IInv
<1> SUFFICES ASSUME Init PROVE IInv
  OBVIOUS
<1>1. /\ handlers = <<>> /\ registrations = 0 /\ history = <<>> /\ events = 0
      /\ emitting = [t \in Thread |-> Bus!Idle] /\ cleared = FALSE
      /\ counter = 0 /\ dispatching = [t \in Thread |-> Hooks!Idle] /\ deliveries = <<>>
      /\ DOMAIN webhooks = {} /\ DOMAIN job = {} /\ DOMAIN posts = {} /\ DOMAIN removedAt = {}
      /\ webhooks = [w \in {} |-> 0] /\ job = [j \in {} |-> 0] /\ posts = [j \in {} |-> <<>>]
  BY DEF Init, Bus!Init, Hooks!Init
<1>2. Bus!Idle \in Emission /\ Bus!Idle.event = 0
  BY DEF Bus!Idle, Emission
<1>3. Hooks!Idle \in Dispatcher /\ Hooks!Idle.pc = "idle" /\ Hooks!Idle.todo = {}
  BY DEF Hooks!Idle, Dispatcher, Kind
<1>4. \A t \in Thread : ~ Bus!Emitting(t) /\ ~ Hooks!Dispatching(t) /\ dispatching[t] = Hooks!Idle
  BY <1>1, <1>2, <1>3 DEF Bus!Emitting, Hooks!Dispatching
<1>5. BusTyped
  <2>1. handlers \in Seq(Handler) /\ history \in Seq(Nat)
    BY <1>1
  <2>2. emitting \in [Thread -> Emission]
    BY <1>1, <1>2
  <2> QED BY <1>1, <2>1, <2>2 DEF BusTyped
<1>6. HistoryIsRecent
  <2>1. Len(history) = 0 /\ DOMAIN history = {}
    BY <1>1
  <2> QED BY <1>1, <2>1, NotificationAssumption DEF HistoryIsRecent, Bus!HistoryIsRecent
<1>7. Ahead
  BY <1>4 DEF Ahead
<1>8. HooksTyped
  <2>1. dispatching \in [Thread -> Dispatcher]
    BY <1>1, <1>3
  <2>2. /\ webhooks \in [DOMAIN webhooks -> Webhook] /\ job \in [DOMAIN job -> Job]
        /\ posts \in [DOMAIN posts -> Seq(Result)]
    BY <1>1
  <2> QED BY <1>1, <2>1, <2>2 DEF HooksTyped
<1>9. deliveries \in Seq(Record) /\ DOMAIN deliveries = {}
  BY <1>1
<1>10. Numbered
  BY <1>1, <1>3, <1>4 DEF Numbered, Busy
<1>11. Matched /\ Outcomes /\ Logged /\ Removed
  BY <1>1, <1>3, <1>4, <1>9 DEF Matched, Outcomes, Logged, Removed
<1> QED BY <1>5, <1>6, <1>7, <1>8, <1>9, <1>10, <1>11 DEF IInv, BusInv, HooksInv

(* Steps on the webhooks leave the bus as it is.                            *)
LEMMA BusUnchanged ==
    ASSUME BusInv, UNCHANGED bus
    PROVE  BusInv'
<1>1. UNCHANGED <<handlers, registrations, history, events, emitting, cleared>>
  BY DEF bus
<1> QED BY <1>1 DEF BusInv, BusTyped, HistoryIsRecent, Bus!HistoryIsRecent, Ahead, Bus!Emitting

(* A delivery serializes, posts (or counts as sent without a client) and is *)
(* recorded.                                                                *)
LEMMA DeliverKeeps ==
    ASSUME IInv, NEW j \in DOMAIN job, OnHooks(Hooks!Deliver(j))
    PROVE  IInv'
<1>1. BusInv'
  BY BusUnchanged DEF OnHooks, IInv
<1>2. CASE Hooks!Post(j)
  <2>1. PICK o \in Hooks!Outcome :
          posts' = [posts EXCEPT ![j] = Append(@, o)] /\ Hooks!Settled(j, o = "accepted")
    BY <1>2 DEF Hooks!Post
  <2>2. o \in Result /\ (o \in Good <=> o = "accepted")
    BY DEF Hooks!Outcome, Result, Good
  <2>3. (o \in Good) = (o = "accepted")
    <3>1. CASE o = "accepted"
      BY <2>2, <3>1
    <3>2. CASE o # "accepted"
      BY <2>2, <3>2
    <3> QED BY <3>1, <3>2
  <2>4. Hooks!Settled(j, o \in Good)
    BY <2>1, <2>3
  <2>5. /\ job[j].pc = "post"
        /\ UNCHANGED <<webhooks, counter, dispatching, deliveries, removedAt, bus>>
    BY <1>2 DEF Hooks!Post, Hooks!service, OnHooks
  <2> QED BY <1>1, <2>1, <2>2, <2>4, <2>5, PostKeeps DEF IInv
<1>3. CASE Hooks!PostNothing(j)
  <2>1. "skipped" \in Result /\ ("skipped" \in Good) = TRUE
    BY DEF Result, Good
  <2>2. Hooks!Settled(j, "skipped" \in Good)
    BY <1>3, <2>1 DEF Hooks!PostNothing
  <2>3. /\ job[j].pc = "post" /\ posts' = [posts EXCEPT ![j] = Append(@, "skipped")]
        /\ UNCHANGED <<webhooks, counter, dispatching, deliveries, removedAt, bus>>
    BY <1>3 DEF Hooks!PostNothing, Hooks!service, OnHooks
  <2> QED BY <1>1, <2>1, <2>2, <2>3, PostKeeps DEF IInv
<1>4. CASE Hooks!Record(j)
  <2>1. OnHooks(Hooks!Record(j))
    BY <1>4 DEF OnHooks
  <2> QED BY <1>1, <2>1, RecordKeeps DEF IInv
<1>5. CASE Hooks!Serialize(j)
  <2>1. OnHooks(Hooks!Serialize(j))
    BY <1>5 DEF OnHooks
  <2> QED BY <1>1, <2>1, SerializeKeeps DEF IInv
<1> QED BY <1>2, <1>3, <1>4, <1>5 DEF OnHooks, Hooks!Deliver

(* An emit's steps: handlers, the dispatch, and what it matches.            *)
LEMMA EmitStepKeeps ==
    ASSUME IInv, NEW t \in Thread, EmitStep(t)
    PROVE  IInv'
<1>1. CASE OnBus(Bus!RunHandler(t))
  <2>1. BusInv'
    BY <1>1, RunHandlerKeeps DEF OnBus, IInv
  <2>2. UNCHANGED <<hooks, events>>
    BY <1>1 DEF OnBus, Bus!RunHandler
  <2>3. \A u \in Thread : emitting'[u].event = emitting[u].event
    <3>1. emitting[t] \in Emission /\ emitting \in [Thread -> Emission]
      BY DEF IInv, BusInv, BusTyped
    <3>2. emitting' = [emitting EXCEPT ![t].next = @ + 1,
                                       ![t].called = Append(@, handlers[emitting[t].next].id)]
      BY <1>1 DEF OnBus, Bus!RunHandler
    <3>3. PICK n, q : /\ n = emitting[t].next + 1
                      /\ q = Append(emitting[t].called, handlers[emitting[t].next].id)
      OBVIOUS
    <3>4. emitting' = [emitting EXCEPT ![t] = [emitting[t] EXCEPT !.next = n, !.called = q]]
      BY <3>2, <3>3
    <3> QED BY <3>1, <3>4 DEF Emission
  <2> QED BY <2>1, <2>2, <2>3, SameEvents DEF IInv
<1>2. ASSUME NEW e \in EventType, HandlersDone(t, e)
      PROVE  IInv'
  <2>1. BusInv'
    BY <1>2, EmitReturnsKeeps DEF HandlersDone, IInv
  <2> QED BY <1>2, <2>1, HandlersDoneKeeps DEF IInv
<1>3. CASE OnHooks(Hooks!DispatchStep(t))
  <2>1. BusInv'
    BY <1>3, BusUnchanged DEF OnHooks, IInv
  <2>2. \/ OnHooks(Hooks!Match(t)) \/ OnHooks(Hooks!StartDelivery(t))
        \/ OnHooks(Hooks!DispatchReturns(t))
    BY <1>3 DEF OnHooks, Hooks!DispatchStep
  <2> QED BY <2>1, <2>2, MatchKeeps, StartDeliveryKeeps, DispatchReturnsKeeps DEF IInv
<1> QED BY <1>1, <1>2, <1>3 DEF EmitStep

(* Registering and unregistering.                                           *)
LEMMA CallsKeep ==
    ASSUME IInv, NEW t \in Thread, NEW c \in Callback, Register(t, c) \/ Unregister(t, c)
    PROVE  IInv'
<1>2. CASE Register(t, c)
  <2>1. BusInv'
    BY <1>2, RegisterKeeps DEF Register, OnBus, IInv
  <2>2. UNCHANGED <<hooks, events, emitting>>
    BY <1>2 DEF Register, OnBus, Bus!Register
  <2> QED BY <2>1, <2>2, SameEvents DEF IInv
<1>3. CASE Unregister(t, c)
  <2>1. BusInv'
    BY <1>3, UnregisterKeeps DEF Unregister, OnBus, IInv
  <2>2. UNCHANGED <<hooks, events>>
    BY <1>3 DEF Unregister, OnBus, Bus!Unregister
  <2>3. emitting' = [u \in Thread |-> [emitting[u] EXCEPT !.disturbed = Bus!Emitting(u)]]
    BY <1>3 DEF Unregister, OnBus, Bus!Unregister
  <2>4. \A u \in Thread : emitting'[u].event = emitting[u].event
    <3>1. \A u \in Thread : emitting[u] \in Emission
      BY DEF IInv, BusInv, BusTyped
    <3> QED BY <2>3, <3>1 DEF Emission
  <2> QED BY <2>1, <2>2, <2>4, SameEvents DEF IInv
<1> QED BY <1>2, <1>3

(* No step of the service breaks the invariant.                             *)
LEMMA NextKeeps ==
    ASSUME IInv, [Next]_vars
    PROVE  IInv'
<1>1. CASE UNCHANGED <<bus, hooks>>
  <2>1. UNCHANGED <<handlers, registrations, history, events, emitting, cleared>> /\ UNCHANGED bus
    BY <1>1 DEF bus
  <2> QED BY <1>1, <2>1, BusUnchanged, SameEvents DEF IInv
<1>2. CASE UNCHANGED vars
  <2>1. UNCHANGED <<bus, hooks>>
    BY <1>2 DEF vars
  <2> QED BY <1>1, <2>1
<1>3. CASE ClearHistory
  <2>1. BusInv'
    BY <1>3, ClearKeeps DEF ClearHistory, IInv
  <2>2. UNCHANGED <<webhooks, counter, dispatching, job, posts, removedAt, events, emitting>>
    BY <1>3 DEF ClearHistory, Bus!ClearHistory, Hooks!ClearHistory, Hooks!service
  <2>3. deliveries' = <<>>
    BY <1>3 DEF ClearHistory, Hooks!ClearHistory
  <2> QED BY <2>1, <2>2, <2>3, QuietKeeps DEF IInv
<1>4. CASE OnHooks(Hooks!SetHttpClient)
  <2>1. BusInv'
    BY <1>4, BusUnchanged DEF OnHooks, IInv
  <2>2. UNCHANGED <<webhooks, counter, dispatching, job, posts, removedAt, events, emitting, deliveries>>
    BY <1>4 DEF OnHooks, Hooks!SetHttpClient, bus
  <2> QED BY <2>1, <2>2, QuietKeeps DEF IInv
<1>5. ASSUME NEW on \in BOOLEAN, SetEnabled(on)
      PROVE  IInv'
  BY <1>1, <1>5 DEF SetEnabled
<1>6. ASSUME NEW t \in Thread, Emit(t)
      PROVE  IInv'
  <2>1. BusInv'
    BY <1>6, EmitKeeps DEF Emit, OnBus, IInv
  <2> QED BY <1>6, <2>1, EmitNumbers DEF IInv
<1>7. ASSUME NEW t \in Thread, EmitStep(t)
      PROVE  IInv'
  BY <1>7, EmitStepKeeps
<1>8. ASSUME NEW t \in Thread, NEW c \in Callback, Register(t, c) \/ Unregister(t, c)
      PROVE  IInv'
  BY <1>8, CallsKeep
<1>9. ASSUME NEW types \in SUBSET EventType, NEW n \in Attempts, AddWebhook(types, n)
      PROVE  IInv'
  <2>1. OnHooks(Hooks!AddWebhook(types, n)) /\ n \in Nat
    BY <1>9, NotificationAssumption DEF AddWebhook
  <2>2. BusInv'
    BY <2>1, BusUnchanged DEF OnHooks, IInv
  <2> QED BY <2>1, <2>2, AddWebhookKeeps DEF IInv
<1>10. ASSUME NEW w \in DOMAIN webhooks, NEW on \in BOOLEAN,
              OnHooks(Hooks!RemoveWebhook(w, events)) \/ OnHooks(Hooks!SetWebhook(w, on))
       PROVE  IInv'
  <2>1. BusInv'
    BY <1>10, BusUnchanged DEF OnHooks, IInv
  <2> QED BY <1>10, <2>1, RemoveWebhookKeeps, SetWebhookKeeps DEF IInv
<1>11. ASSUME NEW j \in DOMAIN job, OnHooks(Hooks!Deliver(j))
       PROVE  IInv'
  BY <1>11, DeliverKeeps
<1>12. ASSUME NEW w \in DOMAIN webhooks,
              \/ OnHooks(Hooks!RemoveWebhook(w, events))
              \/ \E on \in BOOLEAN : OnHooks(Hooks!SetWebhook(w, on))
       PROVE  IInv'
  <2>1. CASE OnHooks(Hooks!RemoveWebhook(w, events))
    <3>1. TRUE \in BOOLEAN
      OBVIOUS
    <3> QED BY <1>10, <2>1, <3>1
  <2>2. CASE \E on \in BOOLEAN : OnHooks(Hooks!SetWebhook(w, on))
    BY <1>10, <2>2
  <2> QED BY <1>12, <2>1, <2>2
<1> QED BY <1>2, <1>3, <1>4, <1>5, <1>6, <1>7, <1>8, <1>9, <1>11, <1>12 DEF Next

(* In every state of the service the bus and the webhooks keep their        *)
(* invariants: event numbers are unique, each event is matched once and each*)
(* match delivered once (notifications.py, emit, _dispatch_webhooks,        *)
(* _deliver_webhook).                                                       *)
THEOREM Inductive == Spec => []IInv
<1>1. Init => IInv
  BY InitIInv
<1>2. IInv /\ [Next]_vars => IInv'
  BY NextKeeps
<1> QED BY <1>1, <1>2, PTL DEF Spec

(* The event history is the latest events without gaps since it was cleared *)
(* (EventBus.emit and get_event_history).                                   *)
THEOREM HistoryRecent == Spec => []HistoryIsRecent
<1>1. IInv => HistoryIsRecent
  BY DEF IInv, BusInv
<1> QED BY <1>1, Inductive, PTL

(* An emit that no unregister disturbed has run every handler there was     *)
(* when it began (EventBus.emit).                                           *)
THEOREM RunsAllRegistered == Spec => []AllRegisteredRun
<1>1. ASSUME IInv
      PROVE  AllRegisteredRun
  <2> SUFFICES ASSUME NEW t \in Thread, Bus!Emitting(t), Bus!LoopOver(t), ~ emitting[t].disturbed,
                      NEW id \in emitting[t].present
               PROVE  \E i \in DOMAIN emitting[t].called : emitting[t].called[i] = id
    BY DEF AllRegisteredRun, Bus!AllRegisteredRun
  <2>1. \/ \E i \in DOMAIN emitting[t].called : emitting[t].called[i] = id
        \/ emitting[t].live /\ \E i \in DOMAIN handlers : i >= emitting[t].next
    BY <1>1 DEF IInv, BusInv, Ahead
  <2>2. ASSUME emitting[t].live, NEW i \in DOMAIN handlers, i >= emitting[t].next
        PROVE  FALSE
    <3>1. handlers \in Seq(Handler) /\ emitting[t].next \in Nat
      BY <1>1 DEF IInv, BusInv, BusTyped, Emission
    <3>2. emitting[t].next > Len(handlers)
      BY <2>2 DEF Bus!LoopOver
    <3> QED BY <2>2, <3>1, <3>2
  <2> QED BY <2>1, <2>2
<1> QED BY <1>1, Inductive, PTL

(* An endpoint is sent an event it took before only if its answer was lost, *)
(* and never more often than the retry_count (_deliver_webhook,             *)
(* _deliver_webhook_async).                                                 *)
THEOREM RepeatsBounded == Spec => []RepeatsOnlyUnanswered
<1>1. ASSUME IInv
      PROVE  RepeatsOnlyUnanswered
  <2>1. ASSUME NEW j \in DOMAIN posts, posts[j] # <<>>
        PROVE  j \in DOMAIN job /\ Sound(job[j], posts[j]) /\ job[j] \in Job
               /\ posts[j] \in Seq(Result)
    BY <1>1, <2>1 DEF IInv, HooksInv, HooksTyped, Matched, Outcomes
  <2>2. ASSUME NEW j \in DOMAIN posts, NEW i \in DOMAIN posts[j], posts[j][i] \in Good
        PROVE  i = Len(posts[j]) /\ job[j].pc # "post"
    <3>1. posts[j] # <<>>
      OBVIOUS
    <3> QED BY <2>1, <2>2, <3>1 DEF Sound, Job
  <2>3. ASSUME NEW j \in DOMAIN posts, NEW i \in DOMAIN posts[j], NEW k \in DOMAIN posts[j],
               i < k, posts[j][i] \in Hooks!Taken
        PROVE  posts[j][i] = "unanswered"
    <3>1. posts[j][i] \notin Good
      <4>1. posts[j] # <<>>
        OBVIOUS
      <4>2. k <= Len(posts[j]) /\ i \in Nat /\ k \in Nat /\ Len(posts[j]) \in Nat
        BY <2>1, <4>1
      <4> QED BY <2>2, <2>3, <4>2
    <3> QED BY <2>3, <3>1 DEF Hooks!Taken, Good
  <2>4. ASSUME NEW j \in DOMAIN posts, Hooks!Had(j, {"accepted"})
        PROVE  job[j].pc # "post"
    BY <2>2, <2>4 DEF Hooks!Had, Good
  <2>5. ASSUME NEW j \in DOMAIN posts, posts[j] # <<>>
        PROVE  Len(posts[j]) <= job[j].retries
    BY <2>1, <2>5 DEF Sound
  <2> QED BY <2>3, <2>4, <2>5 DEF RepeatsOnlyUnanswered, Hooks!RepeatsOnlyUnanswered
<1> QED BY <1>1, Inductive, PTL

(* A webhook removed before an event was emitted is not sent that event     *)
(* (remove_webhook, _dispatch_webhooks).                                    *)
THEOREM RemovedIsSilent == Spec => []NothingAfterRemoval
<1>1. IInv => NothingAfterRemoval
  BY DEF IInv, HooksInv, HooksTyped, Removed, NothingAfterRemoval, Hooks!NothingAfterRemoval
<1> QED BY <1>1, Inductive, PTL

(* A record of the delivery history is of a delivery that has ended, and    *)
(* says success exactly when an attempt was answered with acceptance or had *)
(* no client to send it (_deliver_webhook, get_delivery_history).           *)
THEOREM RecordsTruth == Spec => []HistoryTellsTruth
<1>1. ASSUME IInv
      PROVE  HistoryTellsTruth
  <2> SUFFICES ASSUME NEW d \in Hooks!Recorded
               PROVE  /\ job[d.job].pc = "done"
                      /\ d.success <=> Hooks!Had(d.job, {"accepted", "skipped"})
                      /\ job[d.job].retries > 0 =>
                           /\ d.attempt = Len(posts[d.job])
                           /\ ~ d.success => d.attempt = job[d.job].retries
    BY DEF HistoryTellsTruth, Hooks!HistoryTellsTruth
  <2>1. /\ d.job \in DOMAIN job /\ job[d.job].pc = "done"
        /\ d.success = job[d.job].success /\ d.attempt = job[d.job].attempt
    BY <1>1 DEF IInv, HooksInv, Logged, Hooks!Recorded
  <2>2. /\ job[d.job].success <=> \E i \in DOMAIN posts[d.job] : posts[d.job][i] \in Good
        /\ job[d.job].retries > 0 =>
             /\ job[d.job].attempt = Len(posts[d.job])
             /\ ~ job[d.job].success => job[d.job].attempt = job[d.job].retries
    BY <1>1, <2>1 DEF IInv, HooksInv, Outcomes, Sound
  <2> QED BY <2>1, <2>2 DEF Hooks!Had, Good
<1> QED BY <1>1, Inductive, PTL

===============================================================================
