---------------------------- MODULE WebhookDelivery ----------------------------
(***************************************************************************)
(* ordex/rpc/notifications.py, class NotificationService: an event is      *)
(* dispatched to the webhooks that match it when the list is read, and a   *)
(* thread of its own posts it to each of them, up to retry_count times.    *)
(*                                                                         *)
(* The service's lock is only ever held for one step.  Payload, headers,   *)
(* signature and timing are left out; a post is what becomes of it.        *)
(* Events are numbered by the bus; NotificationService composes the two.   *)
(***************************************************************************)
EXTENDS Integers, Sequences, FiniteSets

CONSTANTS
    Thread,         \* threads that emit events
    EventType,
    MaxDeliveries   \* _max_delivery_history, positive

VARIABLES
    client,     \* whether _http_client is set
    webhooks,   \* _webhooks
    counter,    \* _webhook_id_counter
    dispatching,    \* per thread: the event it dispatches and the webhooks left
    job,        \* per webhook and event: the delivery thread
    deliveries, \* _delivery_history
    posts,      \* history: per webhook and event matched, what became of its posts
    removedAt   \* history: number of events when a webhook was removed

service == <<client, webhooks, counter, removedAt>>

Idle == [pc |-> "idle", event |-> 0, type |-> CHOOSE e \in EventType : TRUE, todo |-> {}]

Init ==
    /\ client = FALSE
    /\ webhooks = [w \in {} |-> 0] /\ counter = 0
    /\ dispatching = [t \in Thread |-> Idle]
    /\ job = [j \in {} |-> 0]
    /\ deliveries = <<>>
    /\ posts = [j \in {} |-> <<>>]
    /\ removedAt = [w \in {} |-> 0]

-----------------------------------------------------------------------------
(* Configuration, each under the lock.                                      *)

\* Mutant: ids are numbered by how many webhooks there are.
AddWebhookNumbered(types, retries) ==
    /\ counter' = counter + 1
    /\ LET id == Cardinality(DOMAIN webhooks) + 1 IN
       webhooks' = [w \in DOMAIN webhooks \cup {id} |->
                      IF w = id THEN [enabled |-> TRUE, events |-> types, retries |-> retries]
                      ELSE webhooks[w]]
    /\ UNCHANGED <<client, dispatching, job, deliveries, posts, removedAt>>

AddWebhook(types, retries) ==
    /\ counter' = counter + 1
    /\ webhooks' = [w \in DOMAIN webhooks \cup {counter + 1} |->
                      IF w = counter + 1 THEN [enabled |-> TRUE, events |-> types, retries |-> retries]
                      ELSE webhooks[w]]
    /\ UNCHANGED <<client, dispatching, job, deliveries, posts, removedAt>>

\* "now" is the number of events emitted so far.
RemoveWebhook(w, now) ==
    /\ w \in DOMAIN webhooks
    /\ webhooks' = [x \in DOMAIN webhooks \ {w} |-> webhooks[x]]
    /\ removedAt' = [x \in DOMAIN removedAt \cup {w} |-> IF x = w THEN now ELSE removedAt[x]]
    /\ UNCHANGED <<client, counter, dispatching, job, deliveries, posts>>

\* enable_webhook and disable_webhook
SetWebhook(w, on) ==
    /\ w \in DOMAIN webhooks
    /\ webhooks' = [webhooks EXCEPT ![w].enabled = on]
    /\ UNCHANGED <<client, counter, dispatching, job, deliveries, posts, removedAt>>

SetHttpClient ==
    /\ client' = TRUE
    /\ UNCHANGED <<webhooks, counter, dispatching, job, deliveries, posts, removedAt>>

ClearHistory ==
    /\ deliveries' = <<>>
    /\ UNCHANGED <<service, dispatching, job, posts>>

-----------------------------------------------------------------------------
(* _dispatch_webhooks, of the event numbered n and of type e.               *)

Dispatching(t) == dispatching[t].pc # "idle"

Dispatch(t, n, e) ==
    /\ ~ Dispatching(t)
    /\ dispatching' = [dispatching EXCEPT ![t] =
                         [pc |-> "match", event |-> n, type |-> e, todo |-> {}]]
    /\ UNCHANGED <<service, job, deliveries, posts>>

Matching(e) == {w \in DOMAIN webhooks : webhooks[w].enabled /\ e \in webhooks[w].events}

Match(t) ==
    /\ dispatching[t].pc = "match"
    /\ LET m == dispatching[t]
           jobs == {<<w, m.event>> : w \in Matching(m.type)}
       IN /\ dispatching' = [dispatching EXCEPT ![t] =
                [m EXCEPT !.pc = "start",
                          !.todo = {<<w, webhooks[w].retries>> : w \in Matching(m.type)}]]
          /\ posts' = [j \in DOMAIN posts \cup jobs |-> IF j \in jobs THEN <<>> ELSE posts[j]]
    /\ UNCHANGED <<service, job, deliveries>>

\* Mutant: a webhook removed since it was matched is dropped.
StartIfPresent(t) ==
    /\ dispatching[t].pc = "start"
    /\ \E x \in dispatching[t].todo :
          LET j == <<x[1], dispatching[t].event>>
              new == [pc |-> "serialize", attempt |-> 1, retries |-> x[2], success |-> FALSE]
              started == DOMAIN job \cup IF x[1] \in DOMAIN webhooks THEN {j} ELSE {}
          IN /\ job' = [k \in started |-> IF k = j THEN new ELSE job[k]]
             /\ dispatching' = [dispatching EXCEPT ![t].todo = @ \ {x}]
    /\ UNCHANGED <<service, deliveries, posts>>

\* _deliver_webhook_async
StartDelivery(t) ==
    /\ dispatching[t].pc = "start"
    /\ \E x \in dispatching[t].todo :
          LET j == <<x[1], dispatching[t].event>>
              new == [pc |-> "serialize", attempt |-> 1, retries |-> x[2], success |-> FALSE]
          IN /\ job' = [k \in DOMAIN job \cup {j} |-> IF k = j THEN new ELSE job[k]]
             /\ dispatching' = [dispatching EXCEPT ![t].todo = @ \ {x}]
    /\ UNCHANGED <<service, deliveries, posts>>

DispatchReturns(t) ==
    /\ dispatching[t].pc = "start" /\ dispatching[t].todo = {}
    /\ dispatching' = [dispatching EXCEPT ![t] = Idle]
    /\ UNCHANGED <<service, job, deliveries, posts>>

-----------------------------------------------------------------------------
(* _deliver_webhook, one attempt per step.                                  *)

\* The payload and its signature are made outside the try: data that json
\* cannot encode or a secret that is not text ends the thread there, with
\* nothing posted and nothing recorded.  A retry_count of zero leaves nothing
\* to attempt.
Serialize(j) ==
    /\ job[j].pc = "serialize"
    /\ \E pc \in {IF job[j].retries = 0 THEN "record" ELSE "post", "dead"} :
          job' = [job EXCEPT ![j].pc = pc]
    /\ UNCHANGED <<service, dispatching, deliveries, posts>>

\* The endpoint accepts the post and says so, or refuses it; or the post
\* raises, because it was lost on its way or because the endpoint accepted it
\* and the answer was lost ("unanswered").
Outcome == {"accepted", "refused", "lost", "unanswered"}

\* Mutant: the loop goes on after a success.
SettledLate(j, success) ==
    LET d == job[j]
        over == d.attempt = d.retries
    IN job' = [job EXCEPT ![j] =
                 [d EXCEPT !.pc = IF over THEN "record" ELSE "post",
                           !.attempt = IF over THEN d.attempt ELSE d.attempt + 1,
                           !.success = success]]

Settled(j, success) ==
    LET d == job[j]
        over == success \/ d.attempt = d.retries
    IN job' = [job EXCEPT ![j] =
                 [d EXCEPT !.pc = IF over THEN "record" ELSE "post",
                           !.attempt = IF over THEN d.attempt ELSE d.attempt + 1,
                           !.success = success]]

\* Mutant: every answer counts as a success.
PostLenient(j) ==
    /\ client /\ job[j].pc = "post"
    /\ \E o \in Outcome :
          /\ posts' = [posts EXCEPT ![j] = Append(@, o)]
          /\ Settled(j, o \in {"accepted", "refused"})
    /\ UNCHANGED <<service, dispatching, deliveries>>

Post(j) ==
    /\ client /\ job[j].pc = "post"
    /\ \E o \in Outcome :
          /\ posts' = [posts EXCEPT ![j] = Append(@, o)]
          /\ Settled(j, o = "accepted")
    /\ UNCHANGED <<service, dispatching, deliveries>>

\* Without a client the attempt counts as a success.
PostNothing(j) ==
    /\ ~ client /\ job[j].pc = "post"
    /\ posts' = [posts EXCEPT ![j] = Append(@, "skipped")]
    /\ Settled(j, TRUE)
    /\ UNCHANGED <<service, dispatching, deliveries>>

Last(s, n) == SubSeq(s, Len(s) - n + 1, Len(s))

\* Mutant: the history is never shortened.
RecordUnbounded(j) ==
    /\ job[j].pc = "record"
    /\ deliveries' = Append(deliveries, [job |-> j, success |-> job[j].success, attempt |-> job[j].attempt])
    /\ job' = [job EXCEPT ![j].pc = "done"]
    /\ UNCHANGED <<service, dispatching, posts>>

Record(j) ==
    /\ job[j].pc = "record"
    /\ LET all == Append(deliveries, [job |-> j, success |-> job[j].success, attempt |-> job[j].attempt])
       IN deliveries' = IF Len(all) > MaxDeliveries THEN Last(all, MaxDeliveries) ELSE all
    /\ job' = [job EXCEPT ![j].pc = "done"]
    /\ UNCHANGED <<service, dispatching, posts>>

Deliver(j) == Serialize(j) \/ Post(j) \/ PostNothing(j) \/ Record(j)

DispatchStep(t) == Match(t) \/ StartDelivery(t) \/ DispatchReturns(t)

-----------------------------------------------------------------------------
(* Properties.                                                              *)

Recorded == {deliveries[i] : i \in DOMAIN deliveries}

Had(j, outcomes) == \E i \in DOMAIN posts[j] : posts[j][i] \in outcomes

(* The delivery history says what the service learnt: a record says success *)
(* exactly when an attempt was answered with acceptance (or no client was   *)
(* set to send it), the attempt it names is the number of attempts made, and*)
(* a failure is only recorded when all of a webhook's attempts were used up.*)
(* So an event its endpoint did take is recorded as failed in one case only:*)
(* the answer to every attempt it took was lost.  A webhook without any     *)
(* attempt (a retry_count of zero) is recorded as failed too.  A thread that*)
(* died before its first attempt is not recorded at all.                    *)
HistoryTellsTruth ==
    \A d \in Recorded :
        /\ job[d.job].pc = "done"
        /\ d.success <=> Had(d.job, {"accepted", "skipped"})
        /\ job[d.job].retries > 0 =>
             /\ d.attempt = Len(posts[d.job])
             /\ ~ d.success => d.attempt = job[d.job].retries

Taken == {"accepted", "unanswered"}

(* An endpoint is sent an event it has taken before only when its answer    *)
(* was lost: whatever else was refused or lost, an answered acceptance ends *)
(* the attempts, and there are never more of them than the retry_count.     *)
(* (A consumer can therefore meet the same event up to retry_count times.)  *)
RepeatsOnlyUnanswered ==
    \A j \in DOMAIN posts :
        /\ \A i, k \in DOMAIN posts[j] :
              i < k /\ posts[j][i] \in Taken => posts[j][i] = "unanswered"
        /\ Had(j, {"accepted"}) => job[j].pc # "post"
        /\ posts[j] # <<>> => Len(posts[j]) <= job[j].retries

(* A webhook removed before an event is emitted never gets that event: ids  *)
(* are not used again, and deliveries under way are of earlier events.      *)
NothingAfterRemoval ==
    \A j \in DOMAIN job : j[1] \in DOMAIN removedAt => j[2] <= removedAt[j[1]]
=============================================================================
