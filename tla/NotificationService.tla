-------------------------- MODULE NotificationService --------------------------
(***************************************************************************)
(* ordex/rpc/notifications.py, class NotificationService: emit runs the    *)
(* event bus's handlers and then dispatches the event to the webhooks;     *)
(* register, unregister and clear_history reach the bus through it.        *)
(***************************************************************************)
EXTENDS Integers, Sequences, FiniteSets

CONSTANTS
    Thread, Callback, EventType,
    Attempts,       \* the retry_count values webhooks are added with
    MaxHistory, MaxDeliveries,
    Bounds          \* bounds of a behaviour: events, registrations, webhooks and their attempts

ASSUME NotificationAssumption ==
    /\ Attempts \subseteq Nat
    /\ MaxHistory \in Nat \ {0} /\ MaxDeliveries \in Nat \ {0}
    /\ Bounds \subseteq
         [events : Nat, registrations : Nat, webhooks : Nat, attempts : SUBSET Attempts]

VARIABLES
    handlers, registrations, history, events, emitting, cleared,
    client, webhooks, counter, dispatching, job, deliveries, posts, removedAt,
    enabled,        \* _enabled
    bound           \* the bounds of this behaviour

Bus == INSTANCE EventBus

Hooks == INSTANCE WebhookDelivery

bus == <<handlers, registrations, history, events, emitting, cleared>>
hooks == <<client, webhooks, counter, dispatching, job, deliveries, posts, removedAt>>
vars == <<bus, hooks, enabled, bound>>

Init ==
    /\ Bus!Init /\ Hooks!Init
    /\ enabled = TRUE
    /\ bound \in Bounds

Busy(t) == Bus!Emitting(t) \/ Hooks!Dispatching(t)

OnBus(action) == action /\ UNCHANGED <<hooks, enabled, bound>>

OnHooks(action) == action /\ UNCHANGED <<bus, enabled, bound>>

SetEnabled(on) ==
    /\ enabled' = on
    /\ UNCHANGED <<bus, hooks, bound>>

Register(t, c) ==
    /\ ~ Busy(t) /\ registrations < bound.registrations
    /\ OnBus(Bus!Register(t, c))

Unregister(t, c) == ~ Busy(t) /\ OnBus(Bus!Unregister(t, c))

AddWebhook(types, retries) ==
    /\ counter < bound.webhooks /\ retries \in bound.attempts
    /\ OnHooks(Hooks!AddWebhook(types, retries))

\* A disabled service returns at once.
Emit(t) ==
    /\ ~ Busy(t) /\ enabled
    /\ events < bound.events
    /\ OnBus(Bus!Emit(t))

HandlersDone(t, e) ==
    /\ Bus!EmitReturns(t)
    /\ Hooks!Dispatch(t, emitting[t].event, e)
    /\ UNCHANGED <<enabled, bound>>

ClearHistory ==
    /\ Bus!ClearHistory /\ Hooks!ClearHistory
    /\ UNCHANGED <<enabled, bound>>

EmitStep(t) ==
    \/ OnBus(Bus!RunHandler(t))
    \/ \E e \in EventType : HandlersDone(t, e)
    \/ OnHooks(Hooks!DispatchStep(t))

Next ==
    \/ ClearHistory
    \/ OnHooks(Hooks!SetHttpClient)
    \/ \E on \in BOOLEAN : SetEnabled(on)
    \/ \E t \in Thread :
          \/ Emit(t) \/ EmitStep(t)
          \/ \E c \in Callback : Register(t, c) \/ Unregister(t, c)
    \/ \E types \in SUBSET EventType, n \in Attempts : AddWebhook(types, n)
    \/ \E w \in DOMAIN webhooks :
          \/ OnHooks(Hooks!RemoveWebhook(w, events))
          \/ \E on \in BOOLEAN : OnHooks(Hooks!SetWebhook(w, on))
    \/ \E j \in DOMAIN job : OnHooks(Hooks!Deliver(j))

Spec == Init /\ [][Next]_vars

Jobs == UNION {(1 .. b.webhooks) \X (1 .. b.events) : b \in Bounds}

\* Threads are scheduled, handlers return, and a post ends within its timeout.
FairSpec ==
    /\ Spec
    /\ \A t \in Thread : WF_vars(EmitStep(t))
    /\ \A j \in Jobs : WF_vars(j \in DOMAIN job /\ OnHooks(Hooks!Deliver(j)))

-----------------------------------------------------------------------------
(* Properties: those of the parts, and that an emit comes to an end.        *)

(* The event history is the latest events without gaps since it was cleared.*)
HistoryIsRecent == Bus!HistoryIsRecent

(* Unless a handler is unregistered during it, an emit runs every handler   *)
(* that was registered before it.                                           *)
AllRegisteredRun == Bus!AllRegisteredRun

(* The delivery history says what the service learnt of each delivery.      *)
HistoryTellsTruth == Hooks!HistoryTellsTruth

(* An endpoint is sent an event it took before only if its answer was lost. *)
RepeatsOnlyUnanswered == Hooks!RepeatsOnlyUnanswered

(* A webhook removed before an event was emitted is not sent that event.    *)
NothingAfterRemoval == Hooks!NothingAfterRemoval

(* Once no more events are emitted everything comes to an end: every emit   *)
(* returns, although other threads add to the handlers it iterates over, and*)
(* the delivery to every webhook it matched has ended, although webhooks are*)
(* removed and disabled and the history is cleared meanwhile: it was        *)
(* recorded, or its thread died on an event it could not encode or sign and *)
(* nothing was posted.                                                      *)
EmitsSettle ==
    <>[] /\ \A t \in Thread : ~ Busy(t)
         /\ \A j \in DOMAIN posts : j \in DOMAIN job /\
               \/ job[j].pc = "done"
               \/ job[j].pc = "dead" /\ posts[j] = <<>>
=============================================================================
