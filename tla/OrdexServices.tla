---------------------------- MODULE OrdexServices ----------------------------
(***************************************************************************)
(* ordex/rpc/services.py, class OrdexServices: the container that builds   *)
(* the services when one is first asked for, and ordex/rpc/daemon.py,      *)
(* class DaemonManager: one such container per network, started and        *)
(* stopped.  The manager has no lock.                                      *)
(*                                                                         *)
(* A service is the number of the build it comes from; a daemon is the     *)
(* number of its container.                                                *)
(***************************************************************************)
EXTENDS ServiceThreads

CONSTANTS
    NetworkName,
    MaxContainers   \* bound: containers ever made

VARIABLES
    containers,     \* the OrdexServices objects, in the order they were made
    daemons         \* _daemons: network -> container

containerVars == <<containers, daemons>>

\* The services in the order initialize sets them up.
Service == <<"network", "health", "mempool", "blocks", "address", "transactions",
             "tracker", "notifications">>

\* shared says whether anyone but its maker holds the container; running is
\* the flag of the daemon it belongs to.
NewContainer(shared) ==
    [initialized |-> FALSE, lock |-> None, builds |-> 0, shared |-> shared, running |-> FALSE,
     services |-> [i \in DOMAIN Service |-> None]]

Make(shared) ==
    /\ Len(containers) < MaxContainers
    /\ containers' = Append(containers, NewContainer(shared))

Construct(t) ==
    /\ Make(TRUE)
    /\ Call(t, "access", Idle)
    /\ UNCHANGED daemons

\* initialize or a service's property, up to the test of _initialized.
Ensure(n, want, network) ==
    [at |-> "ensure", container |-> n, want |-> want, network |-> network]

Access(t, n, want) ==
    /\ containers[n].shared
    /\ Call(t, "access", Ensure(n, want, None))
    /\ UNCHANGED containerVars

TestInitialized(t) ==
    LET f == frame[t]
    IN /\ f.at = "ensure"
       /\ Go(t, [f EXCEPT !.at = IF containers[f.container].initialized
                                 THEN "ensured" ELSE "initialize"])
       /\ UNCHANGED containerVars

\* Mutant: the flag is not tested again under the lock.
EnterInitializeOnce(t) ==
    LET f == frame[t]
    IN /\ f.at = "initialize" /\ containers[f.container].lock = None
       /\ containers' = [containers EXCEPT ![f.container].lock = t,
                                           ![f.container].builds = @ + 1]
       /\ Go(t, [at |-> "setup", step |-> 1, then |-> [f EXCEPT !.at = "ensured"]])
       /\ UNCHANGED daemons

\* The lock, and the second test.
EnterInitialize(t) ==
    LET f == frame[t]
        ensured == [f EXCEPT !.at = "ensured"]
    IN /\ f.at = "initialize" /\ containers[f.container].lock = None
       /\ IF containers[f.container].initialized
          THEN Go(t, ensured) /\ UNCHANGED containers
          ELSE /\ containers' = [containers EXCEPT ![f.container].lock = t,
                                                   ![f.container].builds = @ + 1]
               /\ Go(t, [at |-> "setup", step |-> 1, then |-> ensured])
       /\ UNCHANGED daemons

\* One of the _setup methods.
Setup(t) ==
    LET f == frame[t]
        n == f.then.container
    IN /\ f.at = "setup" /\ f.step <= Len(Service)
       /\ containers' = [containers EXCEPT ![n].services[f.step] = containers[n].builds]
       /\ Go(t, [f EXCEPT !.step = @ + 1])
       /\ UNCHANGED daemons

\* One that raises leaves initialize, and the lock, with what was built so far.
SetupFails(t) ==
    LET f == frame[t]
    IN /\ f.at = "setup" /\ f.step <= Len(Service)
       /\ containers' = [containers EXCEPT ![f.then.container].lock = None]
       /\ Fail(t, Idle)
       /\ UNCHANGED daemons

FinishInitialize(t) ==
    LET f == frame[t]
        n == f.then.container
    IN /\ f.at = "setup" /\ f.step > Len(Service)
       /\ containers' = [containers EXCEPT ![n].initialized = TRUE, ![n].lock = None]
       /\ Go(t, f.then)
       /\ UNCHANGED daemons

\* A property returns its service.
Return(t) ==
    LET f == frame[t]
    IN /\ f.at = "ensured" /\ f.network = None
       /\ Go(t, [at |-> "got", service |-> containers[f.container].services[f.want]])
       /\ UNCHANGED containerVars

\* shutdown only clears the flag: the next access builds everything anew.
Shutdown(t, n) ==
    /\ containers[n].shared
    /\ containers' = [containers EXCEPT ![n].initialized = FALSE]
    /\ Call(t, "access", Idle)
    /\ UNCHANGED daemons

-----------------------------------------------------------------------------
(* DaemonManager.                                                           *)

\* start up to initialize; one for a network that runs raises.
StartDaemon(t, network) ==
    /\ IF daemons[network] # None /\ containers[daemons[network]].running
       THEN Call(t, "daemon", Idle) /\ UNCHANGED containers
       ELSE /\ Make(FALSE)
            /\ Call(t, "daemon", Ensure(Len(containers'), None, network))
    /\ UNCHANGED daemons

\* The rest of start.
Register(t) ==
    LET f == frame[t]
    IN /\ f.at = "ensured" /\ f.network # None
       /\ containers' = [containers EXCEPT ![f.container].running = TRUE,
                                           ![f.container].shared = TRUE]
       /\ daemons' = [daemons EXCEPT ![f.network] = f.container]
       /\ Go(t, Idle)

\* stop up to the end of shutdown.
StopDaemon(t, network) ==
    LET n == daemons[network]
    IN /\ IF n = None THEN Call(t, "daemon", Idle) /\ UNCHANGED containers
          ELSE /\ containers' = [containers EXCEPT ![n].initialized = FALSE]
               /\ Call(t, "daemon", [at |-> "stopping", container |-> n, network |-> network])
       /\ UNCHANGED daemons

\* The rest of stop: a KeyError if the daemon was forgotten meanwhile, and
\* whatever is registered by then is forgotten.
Stopped(t) ==
    LET f == frame[t]
    IN /\ f.at = "stopping"
       /\ containers' = [containers EXCEPT ![f.container].running = FALSE]
       /\ Go(t, [f EXCEPT !.at = "stopped"])
       /\ UNCHANGED daemons

Forget(t) ==
    /\ frame[t].at = "stopped"
    /\ daemons' = [daemons EXCEPT ![frame[t].network] = None]
    /\ Go(t, Idle)
    /\ UNCHANGED containers

Init ==
    /\ containers = <<>>
    /\ daemons = [network \in NetworkName |-> None]

\* The process ends and starts again.
Restarted ==
    /\ containers' = <<>>
    /\ daemons' = [network \in NetworkName |-> None]

Step(t) ==
    \/ TestInitialized(t) \/ EnterInitialize(t) \/ Setup(t) \/ SetupFails(t)
    \/ FinishInitialize(t) \/ Return(t) \/ Register(t) \/ Stopped(t) \/ Forget(t)

Request(t) ==
    \/ Construct(t)
    \/ \E n \in DOMAIN containers : \/ \E want \in {1, Len(Service)} : Access(t, n, want)
                                    \/ Shutdown(t, n)
    \/ \E network \in NetworkName : StartDaemon(t, network) \/ StopDaemon(t, network)

-----------------------------------------------------------------------------

\* Whatever threads access, shut down, start and stop at once, nobody is given
\* a service before it is built, and the services of an initialised container
\* come from one build: the tracker works on the block service that is there.
ServicesBelongTogether ==
    /\ \A t \in Thread : frame[t].at = "got" => frame[t].service # None
    /\ \A n \in DOMAIN containers : containers[n].initialized =>
         \A i \in DOMAIN Service : containers[n].services[i] = containers[n].builds
=============================================================================
