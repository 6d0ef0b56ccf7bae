------------------------------- MODULE NodePool -------------------------------
(***************************************************************************)
(* ordex/rpc/network.py, class NodePool: RPC endpoints with a status that  *)
(* follows the requests reported for them, selection among the nodes that  *)
(* are not unhealthy, and a background thread that checks every node.      *)
(*                                                                         *)
(* _nodes maps a url to a NodeInfo object; a removed node's object lives   *)
(* on in the checking thread's snapshot, so objects have identities.  Of a *)
(* node's metrics the count of consecutive failures is kept, up to the     *)
(* threshold of five; error rate and latency can degrade a node at any     *)
(* request and are a choice here, and so are the selection strategies,     *)
(* which order the eligible nodes by them.                                 *)
(***************************************************************************)
EXTENDS Integers, FiniteSets

CONSTANTS
    Url,
    App,            \* threads that send requests through selected nodes
    Loop,           \* identities for health-check threads
    Scopes,         \* bounds: what may happen in one behaviour
    None

\* A scope: the threads sending requests and checking, whether nodes are removed, re-added,
\* enabled and disabled, whether the checks are stopped, and at most how many
\* NodeInfo objects are created and how often endpoints go down or come up.
ASSUME PoolAssumption ==
    /\ Scopes \subseteq [apps : SUBSET App, loops : SUBSET Loop, manages : BOOLEAN, stops : BOOLEAN,
                         objects : Nat, moves : Nat]
    /\ App \cap Loop = {} /\ None \notin App \cup Loop \cup Url

VARIABLES
    scope,          \* the scope of the behaviour, which never changes
    up, moves,      \* the endpoints that answer, and how often that changed
    nodes,          \* _nodes: url to object
    object,         \* the NodeInfo objects created so far
    lock,           \* who holds _lock
    frame,          \* per thread: where it is, with its locals
    thread,         \* _health_check_thread
    stopping,       \* _stop_health_check
    control,        \* where the thread that starts and stops the checks is
    told            \* history: the last status the callbacks got for an object

endpoint == <<scope, up, moves>>
pool == <<nodes, object>>
lifecycle == <<thread, stopping, control>>
vars == <<endpoint, pool, lock, frame, lifecycle, told>>

Process == App \cup Loop

Resting(p) == [pc |-> IF p \in App THEN "idle" ELSE "dead",
               url |-> None, ok |-> FALSE, todo |-> {}]

NewNode(u) == [url |-> u, enabled |-> TRUE, status |-> "disconnected", failures |-> 0]

Known == DOMAIN nodes

Node(u) == object[nodes[u]]

Init ==
    /\ scope \in Scopes
    /\ up \in SUBSET Url /\ moves = 0
    /\ nodes = [u \in {} |-> 0]
    /\ object = [i \in {} |-> NewNode(None)]
    /\ lock = None
    /\ frame = [p \in Process |-> Resting(p)]
    /\ thread = None /\ stopping = FALSE /\ control = "idle"
    /\ told = [i \in {} |-> None]

At(p, pc) == frame[p].pc = pc

Goto(p, pc) == frame' = [frame EXCEPT ![p].pc = pc]

Flip(u) ==
    /\ moves < scope.moves
    /\ moves' = moves + 1
    /\ up' = (up \ {u}) \cup ({u} \ up)
    /\ UNCHANGED <<scope, pool, lock, frame, lifecycle, told>>

-----------------------------------------------------------------------------
(* add_node, remove_node, set_node_enabled: one step each under the lock.   *)

\* A known url gets a fresh object.
AddNode(u) ==
    /\ lock = None
    /\ scope.manages \/ u \notin Known
    /\ LET i == Cardinality(DOMAIN object) + 1 IN
       /\ i <= scope.objects
       /\ object' = [j \in DOMAIN object \cup {i} |-> IF j = i THEN NewNode(u) ELSE object[j]]
       /\ told' = [j \in DOMAIN told \cup {i} |-> IF j = i THEN "disconnected" ELSE told[j]]
       /\ nodes' = [v \in Known \cup {u} |-> IF v = u THEN i ELSE nodes[v]]
    /\ UNCHANGED <<endpoint, lock, frame, lifecycle>>

\* Mutant: remove_node does not take the lock.
RemoveNodeUnlocked(u) ==
    /\ scope.manages
    /\ u \in Known
    /\ nodes' = [v \in Known \ {u} |-> nodes[v]]
    /\ UNCHANGED <<endpoint, object, lock, frame, lifecycle, told>>

RemoveNode(u) ==
    /\ scope.manages /\ lock = None
    /\ u \in Known
    /\ nodes' = [v \in Known \ {u} |-> nodes[v]]
    /\ UNCHANGED <<endpoint, object, lock, frame, lifecycle, told>>

SetNodeEnabled(u, enabled) ==
    /\ scope.manages /\ lock = None
    /\ u \in Known /\ Node(u).enabled # enabled
    /\ object' = [object EXCEPT ![nodes[u]].enabled = enabled]
    /\ UNCHANGED <<endpoint, nodes, lock, frame, lifecycle, told>>

-----------------------------------------------------------------------------
(* _select_node, the request, record_request.                               *)

Eligible == {u \in Known : Node(u).enabled /\ Node(u).status # "unhealthy"}

SelectNode(p) ==
    /\ p \in scope.apps /\ At(p, "idle") /\ lock = None
    /\ \E u \in Eligible : frame' = [frame EXCEPT ![p].pc = "call", ![p].url = u]
    /\ UNCHANGED <<endpoint, pool, lock, lifecycle, told>>

Request(p) ==
    /\ At(p, "call")
    /\ frame' = [frame EXCEPT ![p].pc = "record", ![p].ok = frame[p].url \in up]
    /\ UNCHANGED <<endpoint, pool, lock, lifecycle, told>>

\* The thread goes on after record_request: the loop to its next node.
After(p) ==
    frame' = [frame EXCEPT ![p] =
                IF p \in App THEN Resting(p)
                ELSE [Resting(p) EXCEPT !.pc = "next", !.todo = frame[p].todo]]

\* _evaluate_status; error rate or latency may degrade the node below two
\* consecutive failures.
EvaluateStatus(failures) ==
    IF failures >= 5 THEN {"unhealthy"}
    ELSE IF failures >= 2 THEN {"degraded"}
    ELSE {"healthy", "degraded"}

\* Mutant: a success does not reset the failures.
CountedForever(failures, ok) == IF ~ ok /\ failures < 5 THEN failures + 1 ELSE failures

Counted(failures, ok) ==
    IF ok THEN 0 ELSE IF failures < 5 THEN failures + 1 ELSE failures

\* The result counts for the node now known under the url, if there is one.
RecordRequest(p) ==
    /\ At(p, "record") /\ lock = None
    /\ LET u == frame[p].url IN
       IF u \notin Known
       THEN After(p) /\ UNCHANGED <<pool, lock>>
       ELSE LET n == Counted(Node(u).failures, frame[p].ok) IN
            \E status \in EvaluateStatus(n) :
               /\ object' = [object EXCEPT ![nodes[u]] =
                               [Node(u) EXCEPT !.failures = n, !.status = status]]
               /\ IF status # Node(u).status
                  THEN lock' = p /\ Goto(p, "emit")
                  ELSE After(p) /\ UNCHANGED lock
               /\ UNCHANGED nodes
    /\ UNCHANGED <<endpoint, lifecycle, told>>

\* _emit_status_change, still under the lock.
EmitStatusChange(p) ==
    /\ At(p, "emit")
    /\ LET i == nodes[frame[p].url] IN told' = [told EXCEPT ![i] = object[i].status]
    /\ lock' = None
    /\ After(p)
    /\ UNCHANGED <<endpoint, pool, lifecycle>>

-----------------------------------------------------------------------------
(* _health_check_loop.                                                      *)

\* Mutant: the loop does not test whether it should stop.
LoopForever(l) ==
    /\ At(l, "test")
    /\ frame' = [frame EXCEPT ![l] =
                   [Resting(l) EXCEPT !.pc = "next", !.todo = {nodes[u] : u \in Known}]]
    /\ UNCHANGED <<endpoint, pool, lock, lifecycle, told>>

LoopTest(l) ==
    /\ At(l, "test")
    /\ frame' = [frame EXCEPT ![l] =
                   IF stopping THEN Resting(l)
                   ELSE [Resting(l) EXCEPT !.pc = "next", !.todo = {nodes[u] : u \in Known}]]
    /\ UNCHANGED <<endpoint, pool, lock, lifecycle, told>>

\* The object is the snapshot's; the result is recorded under its url.
CheckNode(l, i) ==
    /\ At(l, "next") /\ i \in frame[l].todo
    /\ LET rest == [frame[l] EXCEPT !.todo = frame[l].todo \ {i}] IN
       frame' = [frame EXCEPT ![l] =
                   IF object[i].enabled
                   THEN [rest EXCEPT !.pc = "call", !.url = object[i].url] ELSE rest]
    /\ UNCHANGED <<endpoint, pool, lock, lifecycle, told>>

LoopWait(l) ==
    /\ At(l, "next") /\ frame[l].todo = {}
    /\ Goto(l, "test")
    /\ UNCHANGED <<endpoint, pool, lock, lifecycle, told>>

-----------------------------------------------------------------------------
(* start_health_checks and stop_health_checks, called by one thread.        *)

Alive(l) == l # None /\ ~ At(l, "dead")

\* Mutant: a thread that is still alive is not noticed.
StartAnyway ==
    /\ control = "idle"
    /\ control' = "spawn" /\ stopping' = FALSE
    /\ UNCHANGED <<endpoint, pool, lock, frame, thread, told>>

StartHealthChecks ==
    /\ control = "idle" /\ ~ Alive(thread)
    /\ control' = "spawn" /\ stopping' = FALSE
    /\ UNCHANGED <<endpoint, pool, lock, frame, thread, told>>

SpawnThread ==
    /\ control = "spawn"
    /\ \E l \in scope.loops : /\ At(l, "dead")
                              /\ thread' = l
                              /\ Goto(l, "test")
    /\ control' = "idle"
    /\ UNCHANGED <<endpoint, pool, lock, stopping, told>>

StopHealthChecks ==
    /\ scope.stops /\ control = "idle"
    /\ thread # None
    /\ stopping' = TRUE
    /\ control' = "join"
    /\ UNCHANGED <<endpoint, pool, lock, frame, thread, told>>

\* The thread has ended, or five seconds have passed.
JoinReturns ==
    /\ control = "join"
    /\ control' = "idle"
    /\ UNCHANGED <<endpoint, pool, lock, frame, thread, stopping, told>>

-----------------------------------------------------------------------------

Work(p) ==
    \/ Request(p) \/ RecordRequest(p) \/ EmitStatusChange(p)
    \/ p \in Loop /\ (LoopTest(p) \/ LoopWait(p) \/ \E i \in DOMAIN object : CheckNode(p, i))

Next ==
    \/ \E u \in Url : Flip(u) \/ AddNode(u) \/ RemoveNode(u)
                         \/ \E enabled \in BOOLEAN : SetNodeEnabled(u, enabled)
    \/ \E p \in Process : SelectNode(p) \/ Work(p)
    \/ StartHealthChecks \/ SpawnThread \/ StopHealthChecks \/ JoinReturns

Spec == Init /\ [][Next]_vars

\* Threads are scheduled, and a request to an endpoint ends one way or the
\* other.  record_request waits for a lock others take again and again.
FairSpec == Spec /\ \A p \in Process : WF_vars(Work(p)) /\ SF_vars(RecordRequest(p))

-----------------------------------------------------------------------------
(* Properties.                                                              *)

(* Listeners follow the status, although requests of several threads and of *)
(* the checks are reported at once and nodes come and go: whenever no change*)
(* is being announced, the last event given for a node is its status, and   *)
(* while one is, the url still names the node the callbacks are told of.    *)
ListenersKnowStatus ==
    /\ lock = None => \A u \in Known : told[nodes[u]] = Node(u).status
    /\ \A p \in Process : At(p, "emit") =>
         /\ frame[p].url \in Known
         /\ told[nodes[frame[p].url]] # Node(frame[p].url).status

(* One thread that starts and stops the checks never has two loops running, *)
(* even when stop_health_checks gave up waiting for the old one.            *)
OneLoop == Cardinality({l \in Loop : Alive(l)}) <= 1

Checked(u) ==
    /\ thread # None /\ Alive(thread)
    /\ u \in Known /\ Node(u).enabled

(* Automatic failover (network.py:121): a node that stays in the pool under *)
(* checks becomes selectable exactly when its endpoint answers, once the    *)
(* endpoint settles, whatever results of earlier requests arrive late.      *)
FailsOver ==
    \A u \in Url : (<>[] Checked(u)) => <>[] (u \in Eligible <=> u \in up)

(* A loop that was told to stop ends, unless the checks are started again.  *)
StopEnds ==
    \A l \in Loop : (Alive(l) /\ stopping) ~> (~ Alive(l) \/ ~ stopping)
=============================================================================
