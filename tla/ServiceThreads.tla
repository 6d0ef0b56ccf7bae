---------------------------- MODULE ServiceThreads ----------------------------
(***************************************************************************)
(* The application's threads, as the services of ordex/rpc and             *)
(* ordex/wallet/utxo.py see them: each runs one operation at a time, and   *)
(* gives up control at every RPC call, at every lock and at every access   *)
(* to a file.                                                              *)
(***************************************************************************)
EXTENDS Integers, Sequences, FiniteSets

CONSTANTS
    Thread,
    None

VARIABLES
    scope,      \* bounds of this behaviour: the threads that act, the kinds of
                \* calls they make, the number of calls and of failures
    calls,      \* how many calls were made
    failures,   \* how many RPC calls, saves and builds raised, and how often the
                \* node's state changed or the process ended
    frame       \* per thread: the operation it runs and its local variables, or
                \* what the last one returned

Idle == [at |-> "idle"]

Ready(t) == frame[t].at \in {"idle", "selected", "sent", "discovered", "got"}

\* Thread t makes a call of the given kind and goes on as frame f.
Call(t, kind, f) ==
    /\ Ready(t) /\ t \in scope.threads /\ kind \in scope.kinds
    /\ calls < scope.calls
    /\ calls' = calls + 1
    /\ frame' = [frame EXCEPT ![t] = f]
    /\ UNCHANGED <<scope, failures>>

\* Thread t takes a step of its operation and goes on as frame f.
Go(t, f) ==
    /\ frame' = [frame EXCEPT ![t] = f]
    /\ UNCHANGED <<scope, calls, failures>>

\* What thread t calls raises.
Fail(t, f) ==
    /\ failures < scope.failures
    /\ failures' = failures + 1
    /\ frame' = [frame EXCEPT ![t] = f]
    /\ UNCHANGED <<scope, calls>>

\* Something outside the threads happens.
Outside ==
    /\ failures < scope.failures
    /\ failures' = failures + 1
    /\ UNCHANGED <<scope, calls, frame>>
=============================================================================
