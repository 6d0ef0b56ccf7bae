---------------------------- MODULE HealthMonitor ----------------------------
(***************************************************************************)
(* ordex/rpc/health.py, class HealthMonitor: the states of components,     *)
(* told to listeners, and the metrics of RPC requests.                     *)
(*                                                                         *)
(* There is a listener for every state but UNKNOWN, which has none to      *)
(* register with.  A metric is its name, and for a request whether it      *)
(* succeeded: the latencies themselves are left out.                       *)
(***************************************************************************)
EXTENDS ServiceThreads

CONSTANTS
    Component,
    MaxMetrics      \* _max_metrics

VARIABLES
    components,     \* _components: name -> state, for the registered ones
    metrics,        \* _metrics
    told            \* history: component -> state its listeners heard last

healthVars == <<components, metrics, told>>

State == {"healthy", "degraded", "unhealthy", "unknown"}

RegisterComponent(t, name) ==
    /\ components' = [n \in DOMAIN components \cup {name} |->
                        IF n = name THEN "unknown" ELSE components[n]]
    /\ Call(t, "component", Idle)
    /\ UNCHANGED <<metrics, told>>

UnregisterComponent(t, name) ==
    /\ components' = [n \in DOMAIN components \ {name} |-> components[n]]
    /\ Call(t, "component", Idle)
    /\ UNCHANGED <<metrics, told>>

\* _emit_callback: what was heard of the component by then.
Heard(name, state) == IF state # "unknown" THEN [told EXCEPT ![name] = state] ELSE told

\* update_component, with the callbacks it runs under the lock.
UpdateComponent(t, name, state) ==
    /\ name \in DOMAIN components
    /\ components' = [components EXCEPT ![name] = state]
    /\ told' = IF components[name] # state THEN Heard(name, state) ELSE told
    /\ Call(t, "component", Idle)
    /\ UNCHANGED metrics

\* record_metric: the oldest go when there are too many.
Recorded(metric) ==
    LET all == Append(metrics, metric)
    IN IF Len(all) > MaxMetrics
       THEN SubSeq(all, Len(all) - MaxMetrics + 1, Len(all)) ELSE all

\* Mutant: a failed request has no latency.
RecordRequestShort(t, success) ==
    /\ metrics' = Recorded(IF success THEN "success" ELSE "error")
    /\ Call(t, "request", IF success THEN [at |-> "latency"] ELSE Idle)
    /\ UNCHANGED <<components, told>>

\* record_request takes the lock twice.
RecordRequest(t, success) ==
    /\ metrics' = Recorded(IF success THEN "success" ELSE "error")
    /\ Call(t, "request", [at |-> "latency"])
    /\ UNCHANGED <<components, told>>

RecordLatency(t) ==
    /\ frame[t].at = "latency"
    /\ metrics' = Recorded("latency")
    /\ Go(t, Idle)
    /\ UNCHANGED <<components, told>>

ResetMetrics(t) ==
    /\ metrics' = <<>>
    /\ Call(t, "reset", Idle)
    /\ UNCHANGED <<components, told>>

Count(metric) == Cardinality({i \in DOMAIN metrics : metrics[i] = metric})

\* get_metrics_summary of rpc_latency: [requests, errors].
MetricsSummary ==
    IF Count("latency") = 0 THEN [requests |-> 0, errors |-> 0]
    ELSE [requests |-> Count("latency"), errors |-> Count("error")]

\* check: the overall state.
Check ==
    LET states == {components[n] : n \in DOMAIN components}
    IN CASE "unhealthy" \in states -> "unhealthy"
         [] "unhealthy" \notin states /\ "degraded" \in states -> "degraded"
         [] states = {} -> "unknown"
         [] OTHER -> "healthy"

Init ==
    /\ components = <<>>
    /\ metrics = <<>>
    /\ told = [n \in Component |-> "unknown"]

\* The process ends and starts again, and the listeners with it.
Restarted ==
    /\ components' = <<>>
    /\ metrics' = <<>>
    /\ told' = [n \in Component |-> "unknown"]

Step(t) == RecordLatency(t)

Request(t) ==
    \/ \E name \in Component :
         \/ RegisterComponent(t, name) \/ UnregisterComponent(t, name)
         \/ \E state \in State : UpdateComponent(t, name, state)
    \/ \E success \in BOOLEAN : RecordRequest(t, success)
    \/ ResetMetrics(t)

-----------------------------------------------------------------------------

\* The summary takes the number of requests from one metric and the errors
\* from another.  Errors exceed requests by no more than the threads between
\* the two records, however the metrics were cut or reset.
ErrorsWithinRequests ==
    LET between == Cardinality({t \in Thread : frame[t].at = "latency"})
    IN MetricsSummary.errors <= MetricsSummary.requests + between

\* Nothing is unhealthy overall that no listener heard of, and listeners never
\* believe a registered component healthier than it is known to be.
TroubleIsTold ==
    /\ Check = "unhealthy" => \E n \in DOMAIN components : told[n] = "unhealthy"
    /\ \A n \in DOMAIN components :
         components[n] = "unknown" \/ told[n] = components[n]

\* The summary, the overall state and what listeners heard agree.
MonitorTellsTruth == ErrorsWithinRequests /\ TroubleIsTold
=============================================================================
