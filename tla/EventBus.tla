------------------------------- MODULE EventBus -------------------------------
(***************************************************************************)
(* ordex/rpc/notifications.py, class EventBus, for one event type.  emit   *)
(* takes a reference to the live handler list under the lock and iterates  *)
(* over it, by position, after releasing the lock; register and unregister *)
(* change that same list meanwhile.  NotificationService composes it.      *)
(***************************************************************************)
EXTENDS Integers, Sequences, FiniteSets

CONSTANTS
    Thread, Callback,
    MaxHistory      \* _max_history, positive

VARIABLES
    handlers,       \* _handlers[event]: callbacks, each with its registration's number
    registrations,  \* number of calls of register so far
    history,        \* _event_history, events numbered in the order they got the lock
    events,         \* number of events emitted so far
    emitting,       \* per thread: its event, the position reached, and history of the run
    cleared         \* whether clear_history has emptied the history since the last emit

\* "called", "present" and "disturbed" are history: the registrations run so far,
\* those there were when the emit began, and whether one was removed since.
Idle == [event |-> 0, live |-> FALSE, next |-> 1,
         called |-> <<>>, present |-> {}, disturbed |-> FALSE]

Init ==
    /\ handlers = <<>> /\ registrations = 0
    /\ history = <<>> /\ events = 0
    /\ emitting = [t \in Thread |-> Idle]
    /\ cleared = FALSE

Emitting(t) == emitting[t].event # 0

\* Mutant: the loop stops one handler early.
LoopOverEarly(t) == emitting[t].live => emitting[t].next >= Len(handlers)

LoopOver(t) == emitting[t].live => emitting[t].next > Len(handlers)

Registered == {handlers[i].id : i \in DOMAIN handlers}

Last(s, n) == SubSeq(s, Len(s) - n + 1, Len(s))

-----------------------------------------------------------------------------

Register(t, c) ==
    /\ ~ Emitting(t)
    /\ registrations' = registrations + 1
    /\ handlers' = Append(handlers, [callback |-> c, id |-> registrations + 1])
    /\ UNCHANGED <<history, events, emitting, cleared>>

\* list.remove: the first entry equal to the callback, later ones move up.
Unregister(t, c) ==
    /\ ~ Emitting(t)
    /\ \E i \in DOMAIN handlers :
          /\ handlers[i].callback = c
          /\ \A j \in 1 .. i - 1 : handlers[j].callback # c
          /\ handlers' = SubSeq(handlers, 1, i - 1) \o SubSeq(handlers, i + 1, Len(handlers))
          /\ emitting' = [u \in Thread |-> [emitting[u] EXCEPT !.disturbed = Emitting(u)]]
    /\ UNCHANGED <<registrations, history, events, cleared>>

\* Mutant: the oldest events are kept, history[:max].
EmitKeepsOldest(t) ==
    /\ ~ Emitting(t)
    /\ events' = events + 1
    /\ history' = LET all == Append(history, events + 1)
                  IN IF Len(all) > MaxHistory THEN SubSeq(all, 1, MaxHistory) ELSE all
    /\ cleared' = FALSE
    /\ emitting' = [emitting EXCEPT ![t] =
                      [Idle EXCEPT !.event = events + 1, !.live = registrations > 0,
                                   !.present = Registered]]
    /\ UNCHANGED <<handlers, registrations>>

\* The list exists once a handler was ever registered; an emit before that
\* iterates over a list of its own.
Emit(t) ==
    /\ ~ Emitting(t)
    /\ events' = events + 1
    /\ history' = LET all == Append(history, events + 1)
                  IN IF Len(all) > MaxHistory THEN Last(all, MaxHistory) ELSE all
    /\ cleared' = FALSE
    /\ emitting' = [emitting EXCEPT ![t] =
                      [Idle EXCEPT !.event = events + 1, !.live = registrations > 0,
                                   !.present = Registered]]
    /\ UNCHANGED <<handlers, registrations>>

RunHandler(t) ==
    /\ Emitting(t) /\ ~ LoopOver(t)
    /\ emitting' = [emitting EXCEPT ![t].next = @ + 1,
                                    ![t].called = Append(@, handlers[emitting[t].next].id)]
    /\ UNCHANGED <<handlers, registrations, history, events, cleared>>

EmitReturns(t) ==
    /\ Emitting(t) /\ LoopOver(t)
    /\ emitting' = [emitting EXCEPT ![t] = Idle]
    /\ UNCHANGED <<handlers, registrations, history, events, cleared>>

\* Whether the last emit may still be about to assign the shortened history.
Reassigning ==
    /\ Len(history) = MaxHistory
    /\ \E t \in Thread : Emitting(t) /\ emitting[t].event = events /\ emitting[t].next = 1

\* NotificationService.clear_history, without the bus's lock: it may empty the
\* list that emit is replacing, and then nothing is cleared.
ClearHistory ==
    /\ history' = <<>> \/ (Reassigning /\ history' = history)
    /\ cleared' = TRUE
    /\ UNCHANGED <<handlers, registrations, events, emitting>>

-----------------------------------------------------------------------------
(* Properties.                                                              *)

(* The history is the latest events in the order they were emitted, without *)
(* gaps, at most MaxHistory of them, since the last clear_history.          *)
HistoryIsRecent ==
    /\ Len(history) <= MaxHistory
    /\ \A i \in DOMAIN history : history[i] = events - Len(history) + i
    /\ ~ cleared /\ events > 0 => history # <<>>

(* emit (notifications.py:150, "Emit an event to all registered handlers."):*)
(* when the loop ends every handler registered before the emit has been run,*)
(* provided none was unregistered while it ran: then the positions move up  *)
(* and the loop skips one.                                                  *)
AllRegisteredRun ==
    \A t \in Thread : Emitting(t) /\ LoopOver(t) /\ ~ emitting[t].disturbed =>
        emitting[t].present \subseteq {emitting[t].called[i] : i \in DOMAIN emitting[t].called}
=============================================================================
