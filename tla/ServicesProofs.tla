---------------------------- MODULE ServicesProofs ----------------------------
(***************************************************************************)
(* Theorems about Services, for any threads, wallets, transactions,        *)
(* addresses, components, containers and bounds.  A thread's frame belongs *)
(* to the service it called, so each service has an invariant of its own,  *)
(* which the steps of the others leave alone.                              *)
(***************************************************************************)
EXTENDS Services, FiniteSetTheorems, TLAPS

-----------------------------------------------------------------------------
(* Frames.                                                                  *)

\* Where a thread may call a service.
Resting == {"idle", "selected", "sent", "discovered", "got"}

\* Where the calls of each service are.
WalletAts == {"open", "write", "unlink", "listunspent", "each", "getnewaddress", "select",
              "selected"}
TxAts == {"send", "store", "relock", "callback", "sent"}
AddressAts == {"scan", "balance", "paid", "report", "gapinfo", "discovered"}
HealthAts == {"latency"}
ContainerAts == {"ensure", "initialize", "setup", "ensured", "stopping", "stopped", "got"}

\* Threads go from a call of the service, or from rest, to one or to rest.
Moves(ats) ==
    /\ frame' = [t \in Thread |-> frame'[t]]
    /\ \A t \in Thread : \/ frame'[t] = frame[t]
                         \/ /\ frame[t].at \in ats \cup Resting
                            /\ frame'[t].at \in ats \cup {"idle"}

\* What a frame holds, by the service it belongs to.
Onward(f) ==
    \/ f.at \in {"idle", "select"}
    \/ f = [at |-> "each", todo |-> f.todo, size |-> f.size]

WalletFrame(f) ==
    /\ f.at \in {"open", "write", "listunspent"} => Onward(f.then)
    /\ f.at = "each" => Onward(f)
    /\ f.at = "write" =>
         f = [at |-> "write", object |-> f.object, then |-> f.then,
              linked |-> f.linked, alone |-> f.alone]

TxFrame(f) ==
    f.at = "send" => f = [at |-> "send", tx |-> f.tx, raw |-> f.raw, attempt |-> f.attempt]

AddressFrame(f) ==
    f.at \in {"scan", "balance", "paid", "report"} =>
        /\ f = [k \in DOMAIN f |-> f[k]]
        /\ DOMAIN f = {"at", "wallet", "round", "todo", "unused", "last", "asked", "answers"}

Ensuring(f) == f = [at |-> f.at, container |-> f.container, want |-> f.want, network |-> f.network]

ContainerFrame(f) ==
    /\ f.at \in {"ensure", "initialize", "ensured"} => Ensuring(f)
    /\ f.at = "setup" => /\ f = [at |-> "setup", step |-> f.step, then |-> f.then]
                         /\ Ensuring(f.then) /\ f.then.at = "ensured"
    /\ f.at = "stopping" => f = [at |-> "stopping", container |-> f.container, network |-> f.network]

ServiceFrame(f) == WalletFrame(f) /\ TxFrame(f) /\ AddressFrame(f) /\ ContainerFrame(f)

FramesTyped ==
    /\ scope \in Scopes
    /\ frame = [t \in Thread |-> frame[t]]
    /\ \A t \in Thread : ServiceFrame(frame[t])

\* Thread t alone goes on, as frame f of the service at ats.
Goes(t, ats, f) ==
    /\ scope' = scope
    /\ frame' = [frame EXCEPT ![t] = f]
    /\ frame[t].at \in ats \cup Resting
    /\ f.at \in ats \cup {"idle"}
    /\ ServiceFrame(f)

(* One thread that goes on keeps the others where they are.                 *)
LEMMA OneGoes ==
    ASSUME FramesTyped, NEW t \in Thread, NEW ats, NEW f, Goes(t, ats, f)
    PROVE  /\ FramesTyped' /\ Moves(ats)
           /\ frame'[t] = f /\ \A u \in Thread \ {t} : frame'[u] = frame[u]
<1>1. /\ frame' = [u \in Thread |-> IF u = t THEN f ELSE frame[u]]
      /\ scope' = scope
      /\ frame[t].at \in ats \cup Resting /\ f.at \in ats \cup {"idle"} /\ ServiceFrame(f)
  BY DEF FramesTyped, Goes
<1>2. Moves(ats)
  BY <1>1 DEF Moves
<1>3. \A u \in Thread : ServiceFrame(frame'[u])
  BY <1>1 DEF FramesTyped
<1>4. FramesTyped'
  BY <1>1, <1>3 DEF FramesTyped, ServiceFrame, WalletFrame, TxFrame, AddressFrame, ContainerFrame, Onward, Ensuring
<1> QED BY <1>1, <1>2, <1>4

(* The calls and steps of the transaction service.                          *)
LEMMA TransactionsGo ==
    ASSUME FramesTyped, NEW t \in Thread, Transactions!Step(t) \/ Transactions!Request(t)
    PROVE  \E f : Goes(t, TxAts, f)
<1> USE DEF Goes, TxAts, Resting, ServiceFrame, WalletFrame, TxFrame, AddressFrame, ContainerFrame,
            Transactions!Go, Transactions!Call, Transactions!Fail, Transactions!Idle, Transactions!Ready
<1>1. CASE Transactions!SendRawTransaction(t)
  <2> DEFINE again == IF frame[t].attempt < 3 THEN [frame[t] EXCEPT !.attempt = @ + 1]
                      ELSE Transactions!Sent(frame[t], FALSE)
  <2>1. /\ scope' = scope /\ frame[t].at = "send"
        /\ \/ frame' = [frame EXCEPT ![t] = [at |-> "store", tx |-> frame[t].tx, raw |-> frame[t].raw]]
           \/ frame' = [frame EXCEPT ![t] = again]
    BY <1>1 DEF Transactions!SendRawTransaction
  <2>2. again.at \in {"send", "sent"} /\ TxFrame(again)
    BY <2>1 DEF Transactions!Sent, FramesTyped
  <2> HIDE DEF again
  <2> QED BY <2>1, <2>2
<1>2. ASSUME Transactions!Store(t) PROVE Goes(t, TxAts, Transactions!Sent(frame[t], TRUE))
  BY <1>2 DEF Transactions!Store, Transactions!Sent
<1>3. ASSUME NEW i, NEW o, NEW r, NEW c, Transactions!Build(t, i, o, r, c) PROVE Goes(t, TxAts, [at |-> "idle"])
  BY <1>3 DEF Transactions!Build
<1>4. ASSUME NEW n, Transactions!Sign(t, n) PROVE Goes(t, TxAts, [at |-> "idle"])
  BY <1>4 DEF Transactions!Sign
<1>5. ASSUME NEW n, Transactions!Broadcast(t, n) PROVE \E f : Goes(t, TxAts, f)
  <2> DEFINE tx == transactions[n]
             raw == IF tx.raw = None THEN <<"raw", Len(tx.inputs)>> ELSE tx.raw
  <2>1. Transactions!Call(t, "broadcast", [at |-> "send", tx |-> n, raw |-> raw, attempt |-> 1])
    BY <1>5 DEF Transactions!Broadcast
  <2> HIDE DEF raw
  <2>2. Goes(t, TxAts, [at |-> "send", tx |-> n, raw |-> raw, attempt |-> 1])
    BY <2>1
  <2> QED BY <2>2
<1>6. ASSUME NEW x, NEW r, Transactions!Replace(t, x, r) PROVE \E f : Goes(t, TxAts, f)
  <2>1. \/ Transactions!Call(t, "replace", [at |-> "idle"])
        \/ \E tx : Transactions!Call(t, "replace", [at |-> "relock", tx |-> tx])
    BY <1>6 DEF Transactions!Replace
  <2>2. CASE Transactions!Call(t, "replace", [at |-> "idle"])
    <3>1. Goes(t, TxAts, [at |-> "idle"])
      BY <2>2
    <3> QED BY <3>1
  <2>3. ASSUME NEW tx, Transactions!Call(t, "replace", [at |-> "relock", tx |-> tx])
        PROVE  Goes(t, TxAts, [at |-> "relock", tx |-> tx])
    BY <2>3
  <2> QED BY <2>1, <2>2, <2>3
<1>7. ASSUME NEW x, Transactions!Monitor(t, x) PROVE Goes(t, TxAts, [at |-> "idle"])
  BY <1>7 DEF Transactions!Monitor
<1>8. ASSUME NEW x, Transactions!Unmonitor(t, x) PROVE Goes(t, TxAts, [at |-> "idle"])
  BY <1>8 DEF Transactions!Unmonitor
<1>9. ASSUME NEW x, NEW n, Transactions!NotifyConfirmation(t, x, n) PROVE \E f : Goes(t, TxAts, f)
  <2> DEFINE heard == [at |-> "callback", txid |-> x, confirmations |-> n]
  <2>1. \/ Transactions!Call(t, "notify", [at |-> "idle"])
        \/ Transactions!Call(t, "notify", heard)
    BY <1>9 DEF Transactions!NotifyConfirmation
  <2>2. CASE Transactions!Call(t, "notify", [at |-> "idle"])
    <3>1. Goes(t, TxAts, [at |-> "idle"])
      BY <2>2
    <3> QED BY <3>1
  <2>3. CASE Transactions!Call(t, "notify", heard)
    <3>1. Goes(t, TxAts, heard)
      BY <2>3
    <3> QED BY <3>1
  <2> QED BY <2>1, <2>2, <2>3
<1>10. ASSUME Transactions!FinishConfirmation(t) PROVE Goes(t, TxAts, [at |-> "idle"])
  BY <1>10 DEF Transactions!FinishConfirmation
<1> HIDE DEF Goes
<1> QED BY <1>1, <1>2, <1>3, <1>4, <1>5, <1>6, <1>7, <1>8, <1>9, <1>10
        DEF Transactions!Step, Transactions!Request

(* The calls and steps of the address service.                              *)
LEMMA AddressesGo ==
    ASSUME FramesTyped, NEW t \in Thread, Addresses!Step(t) \/ Addresses!Request(t)
    PROVE  \E f : Goes(t, AddressAts, f)
<1> USE DEF AddressAts, Resting,
            Addresses!Go, Addresses!Call, Addresses!Fail, Addresses!Idle, Addresses!Ready
<1> DEFINE g == frame[t]
<1>1. \A f : f.at = "idle" => ServiceFrame(f)
  BY DEF ServiceFrame, WalletFrame, TxFrame, AddressFrame, ContainerFrame, Onward
<1>2. AddressFrame(g)
  BY DEF FramesTyped, ServiceFrame
<1>3. ASSUME NEW f, f.at \in AddressAts, AddressFrame(f)
      PROVE  ServiceFrame(f)
  BY <1>3 DEF ServiceFrame, WalletFrame, TxFrame, ContainerFrame
<1>4. ASSUME NEW f, scope' = scope, frame' = [frame EXCEPT ![t] = f],
             g.at \in {"scan", "balance", "paid", "report"}, f.at \in AddressAts, AddressFrame(f)
      PROVE  Goes(t, AddressAts, f)
  BY <1>3, <1>4 DEF Goes
<1>5. CASE Addresses!ScanNext(t)
  <2> DEFINE f1(todo) == [g EXCEPT !.todo = todo]
             f2(at) == [g EXCEPT !.at = at]
             f3(round, todo) == [g EXCEPT !.round = round, !.todo = todo]
             chain == Head(g.todo)
             f4(a) == [g EXCEPT !.at = "balance", !.asked[chain] = Append(@, a)]
  <2>1. /\ scope' = scope /\ g.at = "scan"
        /\ \/ \E todo : frame' = [frame EXCEPT ![t] = f1(todo)]
           \/ frame' = [frame EXCEPT ![t] = f2("report")]
           \/ \E a : frame' = [frame EXCEPT ![t] = f4(a)]
           \/ \E round, todo : frame' = [frame EXCEPT ![t] = f3(round, todo)]
    BY <1>5 DEF Addresses!ScanNext, Addresses!NextRound
  <2>2. ASSUME NEW todo PROVE f1(todo).at = "scan" /\ AddressFrame(f1(todo))
    BY <1>2, <2>1 DEF AddressFrame
  <2>3. f2("report").at = "report" /\ AddressFrame(f2("report"))
    BY <1>2, <2>1 DEF AddressFrame
  <2>5. ASSUME NEW a PROVE f4(a).at = "balance" /\ AddressFrame(f4(a))
    BY <1>2, <2>1 DEF AddressFrame
  <2>4. ASSUME NEW round, NEW todo
        PROVE  f3(round, todo).at = "scan" /\ AddressFrame(f3(round, todo))
    BY <1>2, <2>1 DEF AddressFrame
  <2> HIDE DEF f1, f2, f3, f4
  <2> QED BY <1>4, <2>1, <2>2, <2>3, <2>4, <2>5
<1>6. CASE Addresses!GetBalance(t) \/ Addresses!MarkFound(t)
  <2> DEFINE noted(paid) == Addresses!Noted(g, paid)
             found == [g EXCEPT !.at = "paid"]
  <2>1. /\ scope' = scope /\ g.at \in {"balance", "paid"}
        /\ \/ \E paid : frame' = [frame EXCEPT ![t] = noted(paid)]
           \/ frame' = [frame EXCEPT ![t] = found]
    BY <1>6 DEF Addresses!GetBalance, Addresses!MarkFound
  <2>2. ASSUME NEW paid
        PROVE  noted(paid).at = "scan" /\ AddressFrame(noted(paid))
    <3> DEFINE chain == Head(g.todo)
               n == [g EXCEPT !.at = "scan", !.todo = Tail(@), !.answers[chain] = Append(@, paid)]
    <3>1. n = [k \in DOMAIN n |-> n[k]] /\ n.at = "scan"
          /\ DOMAIN n = {"at", "wallet", "round", "todo", "unused", "last", "asked", "answers"}
      BY <1>2, <2>1 DEF AddressFrame
    <3>2. noted(paid) = IF paid THEN [n EXCEPT !.unused[chain] = 0, !.last[chain] = g.round]
                        ELSE [n EXCEPT !.unused[chain] = @ + 1]
      BY DEF Addresses!Noted
    <3> HIDE DEF n, noted
    <3> QED BY <3>1, <3>2 DEF AddressFrame
  <2>3. found.at = "paid" /\ AddressFrame(found)
    BY <1>2, <2>1 DEF AddressFrame
  <2> HIDE DEF noted, found
  <2> QED BY <1>4, <2>1, <2>2, <2>3
<1>7. CASE Addresses!Report(t)
  <2> DEFINE f == [at |-> "discovered", asked |-> g.asked, answers |-> g.answers, last |-> g.last,
                   unused |-> g.unused]
  <2>1. /\ scope' = scope /\ g.at = "report" /\ frame' = [frame EXCEPT ![t] = f]
    BY <1>7 DEF Addresses!Report
  <2>2. f.at = "discovered" /\ AddressFrame(f)
    BY DEF AddressFrame
  <2> HIDE DEF f
  <2> QED BY <1>4, <2>1, <2>2
<1>8. ASSUME NEW kind, Addresses!Call(t, kind, [at |-> "idle"])
      PROVE  Goes(t, AddressAts, [at |-> "idle"])
  BY <1>1, <1>8 DEF Goes
<1>9. ASSUME NEW w, Addresses!Discover(t, w) PROVE \E f : Goes(t, AddressAts, f)
  <2> DEFINE f == [at |-> "scan", wallet |-> w, round |-> 0, todo |-> <<"external", "internal">>,
                   unused |-> [c \in Addresses!Chain |-> 0], last |-> [c \in Addresses!Chain |-> None],
                   asked |-> [c \in Addresses!Chain |-> <<>>],
                   answers |-> [c \in Addresses!Chain |-> <<>>]]
  <2>1. Addresses!Call(t, "discover", f)
    BY <1>9 DEF Addresses!Discover
  <2>2. f.at = "scan" /\ AddressFrame(f)
    BY DEF AddressFrame
  <2> HIDE DEF f
  <2>3. Goes(t, AddressAts, f)
    BY <1>3, <2>1, <2>2 DEF Goes
  <2> QED BY <2>3
<1>10. ASSUME Addresses!Request(t)
       PROVE  \/ \E w : Addresses!Discover(t, w)
              \/ \E kind : Addresses!Call(t, kind, [at |-> "idle"])
              \/ \E w : Addresses!Call(t, "gap", [at |-> "gapinfo", wallet |-> w])
  <2> PICK w \in scope.owners :
        \/ \E count \in 1..2, chain \in Addresses!Chain, d \in Derivation :
             Addresses!Generate(t, w, count, chain, d)
        \/ \E a \in Imported : Addresses!ImportAddress(t, w, a)
        \/ \E a \in DOMAIN cache : Addresses!MarkUsed(t, a)
        \/ Addresses!GetGapInfo(t, w)
        \/ Addresses!Discover(t, w)
    BY <1>10 DEF Addresses!Request
  <2> HIDE DEF Addresses!Call
  <2> QED BY DEF Addresses!Generate, Addresses!ImportAddress, Addresses!MarkUsed, Addresses!GetGapInfo
<1>11. ASSUME NEW w, Addresses!Call(t, "gap", [at |-> "gapinfo", wallet |-> w])
       PROVE  \E f : Goes(t, AddressAts, f)
  <2> DEFINE f == [at |-> "gapinfo", wallet |-> w]
  <2>1. f.at = "gapinfo" /\ AddressFrame(f)
    BY DEF AddressFrame
  <2>2. /\ scope' = scope /\ g.at \in Resting /\ frame' = [frame EXCEPT ![t] = f]
    BY <1>11
  <2> HIDE DEF f
  <2>3. Goes(t, AddressAts, f)
    BY <1>3, <2>1, <2>2 DEF Goes
  <2> QED BY <2>3
<1>12. ASSUME Addresses!StoreGapInfo(t)
       PROVE  Goes(t, AddressAts, [at |-> "idle"])
  BY <1>1, <1>12 DEF Addresses!StoreGapInfo, Goes
<1> QED BY <1>5, <1>6, <1>7, <1>8, <1>9, <1>10, <1>11, <1>12 DEF Addresses!Step

(* The calls and steps of the health monitor.                               *)
LEMMA HealthGoes ==
    ASSUME FramesTyped, NEW t \in Thread, Health!Step(t) \/ Health!Request(t)
    PROVE  \E f : Goes(t, HealthAts, f)
<1>1. \/ \E kind : Health!Call(t, kind, [at |-> "idle"])
      \/ \E kind : Health!Call(t, kind, [at |-> "latency"])
      \/ frame[t].at = "latency" /\ Health!Go(t, [at |-> "idle"])
  BY DEF Health!Step, Health!Request, Health!RecordLatency, Health!RegisterComponent, Health!Idle,
         Health!UnregisterComponent, Health!UpdateComponent, Health!RecordRequest, Health!ResetMetrics
<1>2. ServiceFrame([at |-> "idle"]) /\ ServiceFrame([at |-> "latency"])
  BY DEF ServiceFrame, WalletFrame, TxFrame, AddressFrame, ContainerFrame, Onward
<1>3. Goes(t, HealthAts, [at |-> "idle"]) \/ Goes(t, HealthAts, [at |-> "latency"])
  BY <1>1, <1>2 DEF Goes, HealthAts, Resting, Health!Call, Health!Go, Health!Ready
<1> QED BY <1>3

(* The calls and steps of the containers.                                   *)
LEMMA ContainersGo ==
    ASSUME FramesTyped, NEW t \in Thread, Containers!Step(t) \/ Containers!Request(t)
    PROVE  \E f : Goes(t, ContainerAts, f)
<1> USE DEF ContainerAts, Resting,
            Containers!Go, Containers!Call, Containers!Idle, Containers!Ready
<1> DEFINE g == frame[t]
<1>1. ASSUME NEW f, scope' = scope, frame' = [frame EXCEPT ![t] = f],
             g.at \in ContainerAts \cup Resting, f.at \in ContainerAts \cup {"idle"}, ContainerFrame(f)
      PROVE  \E h : Goes(t, ContainerAts, h)
  <2>1. ServiceFrame(f)
    BY <1>1 DEF ServiceFrame, WalletFrame, TxFrame, AddressFrame, Onward
  <2>2. Goes(t, ContainerAts, f)
    BY <1>1, <2>1 DEF Goes
  <2> QED BY <2>2
<1>2. ContainerFrame(g)
  BY DEF FramesTyped, ServiceFrame
<1>3. CASE Containers!TestInitialized(t)
  <2> DEFINE f(at) == [g EXCEPT !.at = at]
  <2>1. /\ scope' = scope /\ g.at = "ensure"
        /\ \E at \in {"ensured", "initialize"} : frame' = [frame EXCEPT ![t] = f(at)]
    BY <1>3 DEF Containers!TestInitialized
  <2>2. \A at \in {"ensured", "initialize"} : f(at).at = at /\ ContainerFrame(f(at))
    BY <1>2, <2>1 DEF ContainerFrame, Ensuring
  <2> HIDE DEF f
  <2> QED BY <1>1, <2>1, <2>2
<1>4. CASE Containers!EnterInitialize(t)
  <2> DEFINE e == [g EXCEPT !.at = "ensured"]
             s == [at |-> "setup", step |-> 1, then |-> e]
  <2>1. /\ scope' = scope /\ g.at = "initialize"
        /\ frame' = [frame EXCEPT ![t] = e] \/ frame' = [frame EXCEPT ![t] = s]
    BY <1>4 DEF Containers!EnterInitialize
  <2>2. e.at = "ensured" /\ Ensuring(e)
    BY <1>2, <2>1 DEF ContainerFrame, Ensuring
  <2> HIDE DEF e
  <2>3. ContainerFrame(e) /\ s.at = "setup" /\ ContainerFrame(s)
    BY <2>2 DEF ContainerFrame
  <2> HIDE DEF s
  <2> QED BY <1>1, <2>1, <2>2, <2>3
<1>5. CASE Containers!Setup(t)
  <2> DEFINE s == [g EXCEPT !.step = @ + 1]
  <2>1. /\ scope' = scope /\ g.at = "setup" /\ frame' = [frame EXCEPT ![t] = s]
    BY <1>5 DEF Containers!Setup
  <2>2. s.at = "setup" /\ ContainerFrame(s)
    BY <1>2, <2>1 DEF ContainerFrame
  <2> HIDE DEF s
  <2> QED BY <1>1, <2>1, <2>2
<1>6. CASE Containers!FinishInitialize(t)
  <2>1. /\ scope' = scope /\ g.at = "setup" /\ frame' = [frame EXCEPT ![t] = g.then]
    BY <1>6 DEF Containers!FinishInitialize
  <2>2. g.then.at = "ensured" /\ ContainerFrame(g.then)
    BY <1>2, <2>1 DEF ContainerFrame
  <2> QED BY <1>1, <2>1, <2>2
<1>7. CASE Containers!Return(t)
  <2> DEFINE s == [at |-> "got", service |-> containers[g.container].services[g.want]]
  <2>1. /\ scope' = scope /\ g.at = "ensured" /\ frame' = [frame EXCEPT ![t] = s]
    BY <1>7 DEF Containers!Return
  <2>2. s.at = "got" /\ ContainerFrame(s)
    BY DEF ContainerFrame
  <2> HIDE DEF s
  <2> QED BY <1>1, <2>1, <2>2
<1>8. CASE Containers!Stopped(t)
  <2> DEFINE s == [g EXCEPT !.at = "stopped"]
  <2>1. /\ scope' = scope /\ g.at = "stopping" /\ frame' = [frame EXCEPT ![t] = s]
    BY <1>8 DEF Containers!Stopped
  <2>2. s.at = "stopped" /\ ContainerFrame(s)
    BY <1>2, <2>1 DEF ContainerFrame
  <2> HIDE DEF s
  <2> QED BY <1>1, <2>1, <2>2
<1>9. ASSUME scope' = scope, frame' = [frame EXCEPT ![t] = [at |-> "idle"]],
             g.at \in ContainerAts \cup Resting
      PROVE  \E f : Goes(t, ContainerAts, f)
  BY <1>1, <1>9 DEF ContainerFrame
<1>10. CASE Containers!Register(t) \/ Containers!Forget(t) \/ Containers!SetupFails(t)
  BY <1>9, <1>10 DEF Containers!Register, Containers!Forget, Containers!SetupFails, Containers!Fail
<1>11. ASSUME NEW kind, NEW n, NEW want, NEW network,
              Containers!Call(t, kind, Containers!Ensure(n, want, network))
       PROVE  \E f : Goes(t, ContainerAts, f)
  <2> DEFINE s == Containers!Ensure(n, want, network)
  <2>1. s.at = "ensure" /\ ContainerFrame(s)
    BY DEF Containers!Ensure, ContainerFrame, Ensuring
  <2>2. /\ scope' = scope /\ g.at \in Resting /\ frame' = [frame EXCEPT ![t] = s]
    BY <1>11
  <2> HIDE DEF s
  <2> QED BY <1>1, <2>1, <2>2
<1>12. ASSUME NEW kind, NEW n, NEW network,
              Containers!Call(t, kind, [at |-> "stopping", container |-> n, network |-> network])
       PROVE  \E f : Goes(t, ContainerAts, f)
  <2> DEFINE s == [at |-> "stopping", container |-> n, network |-> network]
  <2>1. s.at = "stopping" /\ ContainerFrame(s)
    BY DEF ContainerFrame
  <2>2. /\ scope' = scope /\ g.at \in Resting /\ frame' = [frame EXCEPT ![t] = s]
    BY <1>12
  <2> HIDE DEF s
  <2> QED BY <1>1, <2>1, <2>2
<1>13. ASSUME Containers!Request(t)
       PROVE  \/ \E kind : Containers!Call(t, kind, [at |-> "idle"])
              \/ \E kind, n, want, network :
                    Containers!Call(t, kind, Containers!Ensure(n, want, network))
              \/ \E kind, n, network :
                    Containers!Call(t, kind, [at |-> "stopping", container |-> n, network |-> network])
  <2> HIDE DEF Containers!Call
  <2> QED BY <1>13 DEF Containers!Request, Containers!Construct, Containers!Access, Containers!Shutdown,
                       Containers!StartDaemon, Containers!StopDaemon
<1>14. ASSUME NEW kind, Containers!Call(t, kind, [at |-> "idle"])
       PROVE  \E f : Goes(t, ContainerAts, f)
  BY <1>9, <1>14
<1> QED BY <1>3, <1>4, <1>5, <1>6, <1>7, <1>8, <1>10, <1>11, <1>12, <1>13, <1>14 DEF Containers!Step

(* A call of the wallets goes on to a frame of theirs.                      *)
LEMMA WalletGoes ==
    ASSUME FramesTyped, NEW t \in Thread, NEW f, scope' = scope,
           frame' = [frame EXCEPT ![t] = f],
           frame[t].at \in WalletAts \cup Resting, f.at \in WalletAts \cup {"idle"}, WalletFrame(f)
    PROVE  Goes(t, WalletAts, f)
  BY DEF Goes, ServiceFrame, TxFrame, AddressFrame, ContainerFrame, WalletAts

\* Thread t opens its file, or deletes one, and the other writers of the file
\* take note.
WritersNote(t, f) ==
    /\ scope' = scope
    /\ frame[t].at \in WalletAts
    /\ f.at \in WalletAts \cup {"idle"} /\ ServiceFrame(f)
    /\ frame' = [u \in Thread |-> frame'[u]] /\ frame'[t] = f
    /\ \A u \in Thread \ {t} :
         \/ frame'[u] = frame[u]
         \/ /\ frame[u].at = "write"
            /\ \/ frame'[u] = [frame[u] EXCEPT !.alone = FALSE]
               \/ frame'[u] = [frame[u] EXCEPT !.linked = FALSE]

(* What the wallets' calls and steps do to the frames.                      *)
LEMMA WalletStepGoes ==
    ASSUME FramesTyped, NEW t \in Thread,
           \/ Wallets!WriteFile(t) \/ Wallets!OpenFails(t) \/ Wallets!WriteFails(t)
           \/ Wallets!ListUnspent(t) \/ Wallets!SyncNext(t)
           \/ Wallets!GetNewAddress(t) \/ Wallets!FinishSelect(t)
    PROVE  \E f : Goes(t, WalletAts, f)
<1> USE DEF WalletAts, Resting
<1> DEFINE g == frame[t]
<1>1. WalletFrame(g)
  BY DEF FramesTyped, ServiceFrame
<1>2. \A f : (f.at = "open" /\ Onward(f.then)) \/ f.at \in {"idle", "selected"} => WalletFrame(f)
  BY DEF WalletFrame
<1>3. \A f : Onward(f) => WalletFrame(f) /\ f.at \in {"idle", "select", "each"}
  BY DEF WalletFrame, Onward
<1>4. CASE Wallets!WriteFile(t) \/ Wallets!OpenFails(t) \/ Wallets!WriteFails(t)
  <2>1. /\ scope' = scope /\ g.at \in {"open", "write"} /\ frame' = [frame EXCEPT ![t] = g.then]
    BY <1>4 DEF Wallets!WriteFile, Wallets!OpenFails, Wallets!WriteFails, Wallets!Go, Wallets!Fail
  <2>2. Onward(g.then)
    BY <1>1, <2>1 DEF WalletFrame
  <2>3. Goes(t, WalletAts, g.then)
    BY <1>3, <2>1, <2>2, WalletGoes
  <2> QED BY <2>3
<1>5. CASE Wallets!ListUnspent(t)
  <2> DEFINE s == Wallets!SaveThen(g.object, g.then)
  <2>1. /\ scope' = scope /\ g.at = "listunspent"
        /\ frame' = [frame EXCEPT ![t] = g.then] \/ frame' = [frame EXCEPT ![t] = s]
    BY <1>5 DEF Wallets!ListUnspent, Wallets!Go, Wallets!Fail
  <2>2. Onward(g.then)
    BY <1>1, <2>1 DEF WalletFrame
  <2>3. s.at = "open" /\ s.then = g.then
    BY DEF Wallets!SaveThen
  <2> HIDE DEF s
  <2>4. Goes(t, WalletAts, g.then) \/ Goes(t, WalletAts, s)
    BY <1>2, <1>3, <2>1, <2>2, <2>3, WalletGoes
  <2> QED BY <2>4
<1>6. CASE Wallets!SyncNext(t)
  <2> DEFINE n(id) == [g EXCEPT !.todo = @ \ {id}]
             s(id) == Wallets!Syncing(id, FALSE, n(id))
  <2>1. /\ scope' = scope /\ g.at = "each"
        /\ \/ frame' = [frame EXCEPT ![t] = [at |-> "idle"]]
           \/ \E id : frame' = [frame EXCEPT ![t] = s(id)]
    BY <1>6 DEF Wallets!SyncNext, Wallets!Go, Wallets!Idle
  <2>2. ASSUME NEW id PROVE Onward(n(id))
    BY <1>1, <2>1 DEF WalletFrame, Onward
  <2>3. ASSUME NEW id PROVE s(id).at = "listunspent" /\ s(id).then = n(id)
    BY DEF Wallets!Syncing
  <2> HIDE DEF s, n
  <2>4. CASE frame' = [frame EXCEPT ![t] = [at |-> "idle"]]
    <3>1. Goes(t, WalletAts, [at |-> "idle"])
      BY <1>2, <2>1, <2>4, WalletGoes
    <3> QED BY <3>1
  <2>5. ASSUME NEW id, frame' = [frame EXCEPT ![t] = s(id)]
        PROVE  \E f : Goes(t, WalletAts, f)
    <3>1. WalletFrame(s(id))
      BY <2>2, <2>3 DEF WalletFrame
    <3>2. Goes(t, WalletAts, s(id))
      BY <2>1, <2>3, <2>5, <3>1, WalletGoes
    <3> QED BY <3>2
  <2> QED BY <2>1, <2>4, <2>5
<1>7. CASE Wallets!GetNewAddress(t)
  <2> DEFINE s == Wallets!SaveThen(g.object, Wallets!Idle)
  <2>1. /\ scope' = scope /\ g.at = "getnewaddress"
        /\ frame' = [frame EXCEPT ![t] = [at |-> "idle"]] \/ frame' = [frame EXCEPT ![t] = s]
    BY <1>7 DEF Wallets!GetNewAddress, Wallets!Go, Wallets!Fail, Wallets!Idle
  <2>2. s.at = "open" /\ Onward(s.then)
    BY DEF Wallets!SaveThen, Wallets!Idle, Onward
  <2> HIDE DEF s
  <2>3. Goes(t, WalletAts, [at |-> "idle"]) \/ Goes(t, WalletAts, s)
    BY <1>2, <2>1, <2>2, WalletGoes
  <2> QED BY <2>3
<1>8. CASE Wallets!FinishSelect(t)
  <2> DEFINE s == [at |-> "selected", coins |-> objects[wallets[g.id]].coins, payment |-> g.payment]
  <2>1. /\ scope' = scope /\ g.at = "select"
        /\ frame' = [frame EXCEPT ![t] = [at |-> "idle"]] \/ frame' = [frame EXCEPT ![t] = s]
    BY <1>8 DEF Wallets!FinishSelect, Wallets!Go, Wallets!Idle
  <2>2. s.at = "selected"
    OBVIOUS
  <2> HIDE DEF s
  <2>3. Goes(t, WalletAts, [at |-> "idle"]) \/ Goes(t, WalletAts, s)
    BY <1>2, <2>1, <2>2, WalletGoes
  <2> QED BY <2>3
<1> QED BY <1>4, <1>5, <1>6, <1>7, <1>8

LEMMA WalletRequestGoes ==
    ASSUME FramesTyped, NEW t \in Thread, Wallets!Request(t)
    PROVE  \E f : Goes(t, WalletAts, f)
<1> USE DEF WalletAts, Resting
<1> DEFINE Calls(f) == \E kind : Wallets!Call(t, kind, f)
<1>1. ASSUME NEW f, Calls(f), f.at \in WalletAts \cup {"idle"}, WalletFrame(f)
      PROVE  \E h : Goes(t, WalletAts, h)
  <2>1. Goes(t, WalletAts, f)
    BY <1>1, WalletGoes DEF Wallets!Call, Wallets!Ready
  <2> QED BY <2>1
<1> DEFINE idle == [at |-> "idle"]
           save(object) == Wallets!SaveThen(object, idle)
           sync(id, force, then) == Wallets!Syncing(id, force, then)
           choose(id, payment) == [at |-> "select", id |-> id, payment |-> payment]
           each(size) == [at |-> "each", todo |-> Wallets!Live, size |-> size]
<1>2. /\ \A object : save(object).at = "open" /\ WalletFrame(save(object))
      /\ idle.at = "idle" /\ Onward(idle) /\ WalletFrame(idle)
  BY DEF Wallets!SaveThen, WalletFrame, Onward
<1>3. ASSUME NEW id, NEW force, NEW then, Onward(then)
      PROVE  sync(id, force, then).at = "listunspent" /\ WalletFrame(sync(id, force, then))
  BY <1>3 DEF Wallets!Syncing, WalletFrame
<1>4. ASSUME NEW id, NEW payment
      PROVE  /\ choose(id, payment).at = "select" /\ Onward(choose(id, payment))
             /\ WalletFrame(choose(id, payment))
  BY DEF Onward, WalletFrame
<1>5. ASSUME NEW size PROVE each(size).at = "each" /\ WalletFrame(each(size))
  BY DEF Onward, WalletFrame
<1> USE DEF Wallets!Idle
<1>6. ASSUME NEW id \in scope.ids, NEW a, Wallets!CreateWallet(t, id, a)
      PROVE  Calls(idle) \/ Calls(save(Len(objects')))
  <2> HIDE DEF save, Wallets!Idle, Wallets!Call
  <2> QED BY <1>6 DEF Wallets!CreateWallet, save, Wallets!Idle
<1>7. ASSUME NEW id \in scope.ids, Wallets!DeleteWallet(t, id)
      PROVE  Calls(idle) \/ Calls([at |-> "unlink", id |-> id])
  <2> HIDE DEF Wallets!Call
  <2> QED BY <1>7 DEF Wallets!DeleteWallet
<1>8. ASSUME NEW id \in scope.ids, NEW force, Wallets!SyncWallet(t, id, force)
      PROVE  Calls(idle) \/ Calls(sync(id, force, idle))
  <2> HIDE DEF Wallets!Call, Wallets!Syncing
  <2> QED BY <1>8 DEF Wallets!SyncWallet
<1>9. ASSUME NEW id \in scope.ids, NEW a, Wallets!AddAddress(t, id, a)
      PROVE  Calls(idle) \/ Calls(save(wallets[id]))
  <2> HIDE DEF Wallets!Call, Wallets!SaveThen
  <2> QED BY <1>9 DEF Wallets!AddAddress
<1>10. ASSUME NEW id \in scope.ids, Wallets!GenerateAddress(t, id)
       PROVE  Calls(idle) \/ Calls([at |-> "getnewaddress", object |-> wallets[id]])
  <2> HIDE DEF Wallets!Call
  <2> QED BY <1>10 DEF Wallets!GenerateAddress
<1>11. ASSUME NEW id \in scope.ids, NEW p, Wallets!SelectCoins(t, id, p)
       PROVE  \/ Calls(idle)
              \/ \E q : Calls(choose(id, q)) \/ Calls(sync(id, FALSE, choose(id, q)))
  <2> HIDE DEF Wallets!Call, Wallets!Syncing
  <2> QED BY <1>11 DEF Wallets!SelectCoins
<1>12. ASSUME NEW id \in scope.ids, NEW p, Wallets!SelectOwn(t, id, p)
       PROVE  Calls(choose(id, p))
  <2> HIDE DEF Wallets!Call
  <2> QED BY <1>12 DEF Wallets!SelectOwn
<1>13. ASSUME Wallets!SyncAll(t)
       PROVE  \E size : Calls(each(size))
  <2> HIDE DEF Wallets!Call
  <2> QED BY <1>13 DEF Wallets!SyncAll
<1>14. /\ \A id : WalletFrame([at |-> "unlink", id |-> id])
       /\ \A object : WalletFrame([at |-> "getnewaddress", object |-> object])
  BY DEF WalletFrame
<1>15. ASSUME NEW id \in scope.ids,
              \/ \E a \in {{}, Address} : Wallets!CreateWallet(t, id, a)
              \/ Wallets!DeleteWallet(t, id)
              \/ \E force \in BOOLEAN : Wallets!SyncWallet(t, id, force)
              \/ \E a \in Address : Wallets!AddAddress(t, id, a)
              \/ Wallets!GenerateAddress(t, id)
              \/ \E p \in Payments : Wallets!SelectCoins(t, id, p) \/ Wallets!SelectOwn(t, id, p)
       PROVE  \E f : Goes(t, WalletAts, f)
  <2>1. CASE Calls(idle)
    BY <1>1, <1>2, <2>1
  <2>2. ASSUME NEW object, Calls(save(object)) PROVE \E f : Goes(t, WalletAts, f)
    <3> HIDE DEF save, Calls
    <3> QED BY <1>1, <1>2, <2>2
  <2>3. CASE Calls([at |-> "unlink", id |-> id])
    BY <1>1, <1>14, <2>3
  <2>4. CASE Calls([at |-> "getnewaddress", object |-> wallets[id]])
    BY <1>1, <1>14, <2>4
  <2>5. ASSUME NEW force, NEW then, Onward(then), Calls(sync(id, force, then))
        PROVE  \E f : Goes(t, WalletAts, f)
    <3> HIDE DEF sync, Calls
    <3> QED BY <1>1, <1>3, <2>5
  <2>6. ASSUME NEW q, Calls(choose(id, q)) PROVE \E f : Goes(t, WalletAts, f)
    <3> HIDE DEF choose, Calls
    <3> QED BY <1>1, <1>4, <2>6
  <2> HIDE DEF Calls, idle, save, sync, choose
  <2> QED BY <1>2, <1>4, <1>6, <1>7, <1>8, <1>9, <1>10, <1>11, <1>12, <1>15,
             <2>1, <2>2, <2>3, <2>4, <2>5, <2>6
<1>16. CASE Wallets!SyncAll(t)
  <2> HIDE DEF Calls, each
  <2> QED BY <1>1, <1>5, <1>13, <1>16
<1> QED BY <1>15, <1>16 DEF Wallets!Request

LEMMA WalletFileNoted ==
    ASSUME FramesTyped, NEW t \in Thread, Wallets!OpenFile(t) \/ Wallets!Unlink(t)
    PROVE  \E f : WritersNote(t, f)
<1> DEFINE g == frame[t]
<1>1. WalletFrame(g)
  BY DEF FramesTyped, ServiceFrame
<1>2. ASSUME Wallets!OpenFile(t)
      PROVE  \E alone : WritersNote(t, [at |-> "write", object |-> g.object, then |-> g.then,
                                        linked |-> TRUE, alone |-> alone])
  <2> DEFINE others == Wallets!Writers(objects[g.object].id)
             alone == others = {}
             f == [at |-> "write", object |-> g.object, then |-> g.then, linked |-> TRUE, alone |-> alone]
  <2>1. /\ scope' = scope /\ g.at = "open"
        /\ frame' = [u \in Thread |-> CASE u = t -> f
                                        [] u \in others -> [frame[u] EXCEPT !.alone = FALSE]
                                        [] OTHER -> frame[u]]
    BY <1>2 DEF Wallets!OpenFile
  <2>2. \A u \in others : u \in Thread /\ frame[u].at = "write"
    BY DEF Wallets!Writers
  <2>3. t \notin others
    BY <2>1, <2>2
  <2>4. f.at = "write" /\ ServiceFrame(f)
    <3>1. Onward(g.then)
      BY <1>1, <2>1 DEF WalletFrame
    <3> HIDE DEF alone
    <3>2. f.at = "write" /\ WalletFrame(f)
      BY <3>1 DEF WalletFrame
    <3> HIDE DEF f
    <3> QED BY <3>2 DEF ServiceFrame, TxFrame, AddressFrame, ContainerFrame
  <2> HIDE DEF others, f
  <2>5. /\ frame'[t] = f /\ frame' = [u \in Thread |-> frame'[u]]
        /\ \A u \in Thread \ {t} :
             \/ frame'[u] = frame[u]
             \/ frame[u].at = "write" /\ frame'[u] = [frame[u] EXCEPT !.alone = FALSE]
    BY <2>1, <2>2, <2>3
  <2>6. WritersNote(t, f)
    BY <2>1, <2>4, <2>5 DEF WritersNote, WalletAts
  <2> QED BY <2>6 DEF f
<1>3. ASSUME Wallets!Unlink(t)
      PROVE  WritersNote(t, [at |-> "idle"])
  <2> DEFINE others == Wallets!Writers(g.id)
             f == [at |-> "idle"]
  <2>1. /\ scope' = scope /\ g.at = "unlink"
        /\ frame' = [u \in Thread |-> CASE u = t -> f
                                        [] u \in others -> [frame[u] EXCEPT !.linked = FALSE]
                                        [] OTHER -> frame[u]]
    BY <1>3 DEF Wallets!Unlink, Wallets!Idle
  <2>2. \A u \in others : u \in Thread /\ frame[u].at = "write"
    BY DEF Wallets!Writers
  <2>3. t \notin others
    BY <2>1, <2>2
  <2>4. f.at = "idle" /\ ServiceFrame(f)
    BY DEF ServiceFrame, WalletFrame, TxFrame, AddressFrame, ContainerFrame
  <2> HIDE DEF others, f
  <2>5. /\ frame'[t] = f /\ frame' = [u \in Thread |-> frame'[u]]
        /\ \A u \in Thread \ {t} :
             \/ frame'[u] = frame[u]
             \/ frame[u].at = "write" /\ frame'[u] = [frame[u] EXCEPT !.linked = FALSE]
    BY <2>1, <2>2, <2>3
  <2>6. WritersNote(t, f)
    BY <2>1, <2>4, <2>5 DEF WritersNote, WalletAts
  <2> QED BY <2>6 DEF f
<1> QED BY <1>2, <1>3

(* A file taken note of keeps the other threads where they are.             *)
LEMMA NotedMoves ==
    ASSUME FramesTyped, NEW t \in Thread, NEW f, WritersNote(t, f)
    PROVE  FramesTyped' /\ Moves(WalletAts) /\ frame'[t] = f
<1>1. frame'[t] = f
  BY DEF WritersNote
<1>2. ASSUME NEW u \in Thread \ {t}
      PROVE  /\ ServiceFrame(frame'[u])
             /\ \/ frame'[u] = frame[u]
                \/ (frame[u].at = "write" /\ frame'[u].at = "write")
  <2>1. CASE frame'[u] = frame[u]
    BY <2>1 DEF FramesTyped
  <2>2. CASE /\ frame[u].at = "write"
             /\ \/ frame'[u] = [frame[u] EXCEPT !.alone = FALSE]
                \/ frame'[u] = [frame[u] EXCEPT !.linked = FALSE]
    <3> DEFINE h == frame[u]
               h2 == frame'[u]
    <3>1. h = [at |-> "write", object |-> h.object, then |-> h.then, linked |-> h.linked, alone |-> h.alone]
          /\ Onward(h.then)
      BY <2>2 DEF FramesTyped, ServiceFrame, WalletFrame
    <3>2. /\ h2 = [at |-> "write", object |-> h2.object, then |-> h2.then, linked |-> h2.linked, alone |-> h2.alone]
          /\ h2.then = h.then /\ h2.at = "write"
      BY <2>2, <3>1
    <3> HIDE DEF h, h2
    <3>3. WalletFrame(h2) /\ h2.at = "write"
      BY <3>1, <3>2 DEF WalletFrame
    <3>4. ServiceFrame(h2)
      BY <3>3 DEF ServiceFrame, TxFrame, AddressFrame, ContainerFrame
    <3> QED BY <2>2, <3>3, <3>4 DEF h, h2
  <2> QED BY <2>1, <2>2 DEF WritersNote
<1>3. \A u \in Thread : ServiceFrame(frame'[u])
  BY <1>1, <1>2 DEF WritersNote
<1>4. FramesTyped'
  BY <1>3 DEF FramesTyped, WritersNote, ServiceFrame, WalletFrame, TxFrame, AddressFrame, ContainerFrame, Onward, Ensuring
<1>5. Moves(WalletAts)
  BY <1>1, <1>2 DEF Moves, WritersNote, WalletAts
<1> QED BY <1>1, <1>4, <1>5

-----------------------------------------------------------------------------
(* Steps of the services.                                                   *)

\* No thread enters, leaves or changes a call at ats; one may leave its result.
Elsewhere(ats) ==
    \A t \in Thread : \/ frame'[t] = frame[t]
                      \/ /\ frame[t].at \notin ats \ Resting
                         /\ frame'[t].at \notin ats

(* A step is one of a service that leaves the others alone, a restart, or    *)
(* one outside the threads.                                                 *)
LEMMA ServiceSteps ==
    ASSUME FramesTyped, [Next]_vars
    PROVE  /\ FramesTyped'
           /\ \/ Restart
              \/ \E t \in Thread : (Wallets!Step(t) \/ Wallets!Request(t)) /\ Moves(WalletAts)
              \/ UNCHANGED <<objects, wallets, stats, files, walletLock, spoiled>> /\ Elsewhere(WalletAts)
           /\ \/ Restart
              \/ \E t \in Thread : Transactions!Step(t) \/ Transactions!Request(t)
              \/ UNCHANGED txVars /\ Elsewhere(TxAts)
           /\ \/ Restart
              \/ \E t \in Thread : Addresses!Step(t) \/ Addresses!Request(t)
              \/ Elsewhere(AddressAts)
           /\ \/ Restart
              \/ \E t \in Thread : Health!Step(t) \/ Health!Request(t)
              \/ UNCHANGED healthVars /\ Elsewhere(HealthAts)
           /\ \/ Restart
              \/ \E t \in Thread : Containers!Step(t) \/ Containers!Request(t)
              \/ UNCHANGED containerVars /\ Elsewhere(ContainerAts)
           /\ Restart \/ UNCHANGED scope
<1> USE DEF walletVars, txVars, addressVars, healthVars, containerVars
<1> DEFINE Result(w, x, a, h, c) ==
             /\ FramesTyped' /\ UNCHANGED scope
             /\ w \/ (UNCHANGED <<objects, wallets, stats, files, walletLock, spoiled>> /\ Elsewhere(WalletAts))
             /\ x \/ (UNCHANGED txVars /\ Elsewhere(TxAts))
             /\ a \/ Elsewhere(AddressAts)
             /\ h \/ (UNCHANGED healthVars /\ Elsewhere(HealthAts))
             /\ c \/ (UNCHANGED containerVars /\ Elsewhere(ContainerAts))
<1>1. ASSUME NEW t \in Thread, NEW ats, NEW f, Goes(t, ats, f)
      PROVE  FramesTyped' /\ Moves(ats) /\ UNCHANGED scope
  BY <1>1, OneGoes DEF Goes
<1>2. ASSUME NEW t \in Thread, NEW f, WritersNote(t, f)
      PROVE  FramesTyped' /\ Moves(WalletAts) /\ UNCHANGED scope
  BY <1>2, NotedMoves DEF WritersNote
<1>3. /\ Moves(WalletAts) => /\ Elsewhere(TxAts) /\ Elsewhere(AddressAts) /\ Elsewhere(HealthAts)
                             /\ Elsewhere(ContainerAts)
      /\ Moves(TxAts) => /\ Elsewhere(WalletAts) /\ Elsewhere(AddressAts) /\ Elsewhere(HealthAts)
                         /\ Elsewhere(ContainerAts)
      /\ Moves(AddressAts) => /\ Elsewhere(WalletAts) /\ Elsewhere(TxAts) /\ Elsewhere(HealthAts)
                              /\ Elsewhere(ContainerAts)
      /\ Moves(HealthAts) => /\ Elsewhere(WalletAts) /\ Elsewhere(TxAts) /\ Elsewhere(AddressAts)
                             /\ Elsewhere(ContainerAts)
      /\ Moves(ContainerAts) => /\ Elsewhere(WalletAts) /\ Elsewhere(TxAts) /\ Elsewhere(AddressAts)
                                /\ Elsewhere(HealthAts)
  BY DEF Moves, Elsewhere, WalletAts, TxAts, AddressAts, HealthAts, ContainerAts, Resting
<1>4. ASSUME UNCHANGED <<scope, frame>>
      PROVE  /\ FramesTyped' /\ Elsewhere(WalletAts) /\ Elsewhere(TxAts) /\ Elsewhere(AddressAts)
             /\ Elsewhere(HealthAts) /\ Elsewhere(ContainerAts)
  <2>1. FramesTyped'
    BY <1>4 DEF FramesTyped, ServiceFrame, WalletFrame, TxFrame, AddressFrame, ContainerFrame, Onward, Ensuring
  <2> QED BY <1>4, <2>1 DEF Elsewhere
<1>5. ASSUME NEW t \in Thread, Wallets!Step(t) \/ Wallets!Request(t)
      PROVE  FramesTyped' /\ Moves(WalletAts) /\ UNCHANGED scope
  <2>1. (\E f : Goes(t, WalletAts, f)) \/ (\E f : WritersNote(t, f))
    BY <1>5, WalletStepGoes, WalletRequestGoes, WalletFileNoted DEF Wallets!Step
  <2> QED BY <1>1, <1>2, <2>1
<1>6. CASE UNCHANGED vars
  BY <1>4, <1>6 DEF vars
<1>7. ASSUME NEW t \in Thread, OnWallets(Wallets!Step(t)) \/ OnWallets(Wallets!Request(t))
      PROVE  Result((Wallets!Step(t) \/ Wallets!Request(t)) /\ Moves(WalletAts), FALSE, FALSE, FALSE, FALSE)
  <2> HIDE DEF Wallets!Step, Wallets!Request
  <2> QED BY <1>3, <1>5, <1>7 DEF OnWallets
<1>8. ASSUME NEW t \in Thread, OnTransactions(Transactions!Step(t)) \/ OnTransactions(Transactions!Request(t))
      PROVE  Result(FALSE, Transactions!Step(t) \/ Transactions!Request(t), FALSE, FALSE, FALSE)
  BY <1>1, <1>3, <1>8, TransactionsGo DEF OnTransactions
<1>9. ASSUME NEW t \in Thread, OnAddresses(Addresses!Step(t)) \/ OnAddresses(Addresses!Request(t))
      PROVE  Result(FALSE, FALSE, Addresses!Step(t) \/ Addresses!Request(t), FALSE, FALSE)
  BY <1>1, <1>3, <1>9, AddressesGo DEF OnAddresses
<1>10. ASSUME NEW t \in Thread, OnHealth(Health!Step(t)) \/ OnHealth(Health!Request(t))
       PROVE  Result(FALSE, FALSE, FALSE, Health!Step(t) \/ Health!Request(t), FALSE)
  BY <1>1, <1>3, <1>10, HealthGoes DEF OnHealth
<1>11. ASSUME NEW t \in Thread, OnContainers(Containers!Step(t)) \/ OnContainers(Containers!Request(t))
       PROVE  Result(FALSE, FALSE, FALSE, FALSE, Containers!Step(t) \/ Containers!Request(t))
  BY <1>1, <1>3, <1>11, ContainersGo DEF OnContainers
<1>12. CASE Restart
  <2>1. frame' = [t \in Thread |-> [at |-> "idle"]] /\ scope' = scope
    BY <1>12 DEF Restart, Wallets!Restart, Wallets!Idle
  <2>2. ServiceFrame([at |-> "idle"])
    BY DEF ServiceFrame, WalletFrame, TxFrame, AddressFrame, ContainerFrame
  <2>3. FramesTyped'
    <3>1. \A t \in Thread : ServiceFrame(frame'[t])
      BY <2>1, <2>2
    <3> QED BY <2>1, <3>1 DEF FramesTyped, ServiceFrame, WalletFrame, TxFrame, AddressFrame, ContainerFrame, Onward, Ensuring
  <2> QED BY <1>12, <2>3
<1>13. CASE OnWallets("sync" \in scope.kinds /\ Wallets!NodeMoves)
  BY <1>4, <1>13 DEF OnWallets, Wallets!NodeMoves, Wallets!Outside
<1>14. ASSUME NEW a, OnAddresses("discover" \in scope.kinds /\ Addresses!BalanceMoves(a))
       PROVE  Result(FALSE, FALSE, FALSE, FALSE, FALSE)
  BY <1>4, <1>14 DEF OnAddresses, Addresses!BalanceMoves, Addresses!Outside
<1>15. CASE Environment
  <2>1. CASE OnAddresses("discover" \in scope.kinds /\
                \E c \in Addresses!Chain, w \in Owner :
                   Addresses!BalanceMoves(<<"bip84", c, 0, Prefix[w]>>))
    BY <1>14, <2>1 DEF OnAddresses
  <2> QED BY <1>12, <1>13, <1>15, <2>1 DEF Environment
<1>16. ASSUME NEW t \in Thread, Continue(t) \/ Request(t)
       PROVE  \/ Result((Wallets!Step(t) \/ Wallets!Request(t)) /\ Moves(WalletAts), FALSE, FALSE, FALSE, FALSE)
              \/ Result(FALSE, Transactions!Step(t) \/ Transactions!Request(t), FALSE, FALSE, FALSE)
              \/ Result(FALSE, FALSE, Addresses!Step(t) \/ Addresses!Request(t), FALSE, FALSE)
              \/ Result(FALSE, FALSE, FALSE, Health!Step(t) \/ Health!Request(t), FALSE)
              \/ Result(FALSE, FALSE, FALSE, FALSE, Containers!Step(t) \/ Containers!Request(t))
  <2> HIDE DEF Result
  <2> QED BY <1>7, <1>8, <1>9, <1>10, <1>11, <1>16 DEF Continue, Request
<1>17. CASE \E t \in Thread : Continue(t) \/ Request(t)
  BY <1>16, <1>17
<1> QED BY <1>6, <1>15, <1>17 DEF Next

(* Frames are typed at first.                                               *)
LEMMA FramesInitially == Init => FramesTyped
<1> SUFFICES ASSUME Init PROVE FramesTyped
  OBVIOUS
<1>1. ServiceFrame([at |-> "idle"])
  BY DEF ServiceFrame, WalletFrame, TxFrame, AddressFrame, ContainerFrame
<1> QED BY <1>1 DEF Init, FramesTyped

(* A service's frames hold what its calls put there.                        *)
LEMMA FramesInductive == Spec => []FramesTyped
<1>1. FramesTyped /\ [Next]_vars => FramesTyped'
  BY ServiceSteps
<1> QED BY <1>1, FramesInitially, PTL DEF Spec

-----------------------------------------------------------------------------
(* The containers.                                                          *)

ContainerType ==
    [initialized : BOOLEAN, lock : Thread \cup {None}, builds : Nat, shared : BOOLEAN,
     running : BOOLEAN, services : [1..8 -> Nat \cup {None}]]

\* What is wanted of a container is one of its services, or the container.
Wanting(f) ==
    /\ f.container \in DOMAIN containers
    /\ f.network = None => f.want \in 1..8

\* The thread that holds the lock of a container builds its services in their
\* order, and nobody takes them for ready meanwhile.
SettingUp(t) ==
    LET f == frame[t]
        c == containers[f.then.container]
    IN /\ Wanting(f.then)
       /\ f.step \in 1..9
       /\ c.lock = t /\ ~c.initialized
       /\ \A i \in 1..8 : i < f.step => c.services[i] = c.builds

ContainerCalls ==
    \A t \in Thread :
        /\ frame[t].at \in {"ensure", "initialize", "ensured"} => Wanting(frame[t])
        /\ frame[t].at = "setup" => SettingUp(t)
        /\ frame[t].at = "ensured" =>
             \A i \in 1..8 : containers[frame[t].container].services[i] # None

ContainersInv ==
    /\ containers \in Seq(ContainerType)
    /\ ContainerCalls
    /\ ServicesBelongTogether

(* There are eight services.                                                *)
LEMMA EightServices == Len(Containers!Service) = 8 /\ DOMAIN Containers!Service = 1..8
  BY DEF Containers!Service

(* Before the first container all is in order.                              *)
LEMMA ContainersFresh ==
    ASSUME containers = <<>>, \A t \in Thread : frame[t].at = "idle"
    PROVE  ContainersInv
<1>1. containers \in Seq(ContainerType) /\ DOMAIN containers = {}
  OBVIOUS
<1>2. ContainerCalls
  BY DEF ContainerCalls
<1>3. ServicesBelongTogether
  BY <1>1 DEF ServicesBelongTogether, Containers!ServicesBelongTogether
<1> QED BY <1>1, <1>2, <1>3 DEF ContainersInv

(* What happens elsewhere leaves the containers alone.                      *)
LEMMA ContainersUntouched ==
    ASSUME ContainersInv, UNCHANGED containerVars, Elsewhere(ContainerAts)
    PROVE  ContainersInv'
<1>1. containers' = containers
  BY DEF containerVars
<1>2. \A t \in Thread : frame'[t].at \in ContainerAts => frame'[t] = frame[t]
  BY DEF Elsewhere
<1>3. ContainerCalls'
  <2> SUFFICES ASSUME NEW t \in Thread,
                      frame'[t].at \in {"ensure", "initialize", "ensured", "setup"}
               PROVE  /\ frame'[t].at \in {"ensure", "initialize", "ensured"} => Wanting(frame[t])'
                      /\ frame'[t].at = "setup" => SettingUp(t)'
                      /\ frame'[t].at = "ensured" =>
                           \A i \in 1..8 : containers'[frame'[t].container].services[i] # None
    BY DEF ContainerCalls
  <2>1. frame'[t] = frame[t]
    BY <1>2 DEF ContainerAts
  <2> QED BY <1>1, <2>1, SMTT(40) DEF ContainersInv, ContainerCalls, Wanting, SettingUp
<1>4. ServicesBelongTogether'
  BY <1>1, <1>2 DEF ContainersInv, ServicesBelongTogether, Containers!ServicesBelongTogether, ContainerAts
<1> QED BY <1>1, <1>3, <1>4 DEF ContainersInv

\* A container keeps its services and its lock, and its flag if it is set; or
\* it is built by the only thread that may, and services stay there.
ContainerKept(n) ==
    /\ containers'[n].services = containers[n].services
    /\ containers'[n].builds = containers[n].builds
    /\ containers'[n].lock = containers[n].lock
    /\ containers'[n].initialized => containers[n].initialized

ContainerBuilt(n, t) ==
    /\ \A u \in Thread \ {t} : frame[u].at = "setup" => frame[u].then.container # n
    /\ \A i \in 1..8 : containers'[n].services[i] = None => containers[n].services[i] = None
    /\ containers'[n].initialized =>
         \A i \in 1..8 : containers'[n].services[i] = containers'[n].builds

(* A step of one thread keeps what the others rely on.                      *)
LEMMA ContainersChange ==
    ASSUME FramesTyped, ContainersInv, NEW t \in Thread, NEW f,
           frame' = [frame EXCEPT ![t] = f],
           containers' \in Seq(ContainerType), DOMAIN containers \subseteq DOMAIN containers',
           \A n \in DOMAIN containers : ContainerKept(n) \/ ContainerBuilt(n, t),
           \A n \in DOMAIN containers' \ DOMAIN containers : ~containers'[n].initialized,
           f.at = "setup" => SettingUp(t)',
           f.at \in {"ensure", "initialize", "ensured"} =>
              /\ f.container \in DOMAIN containers'
              /\ f.network = None => f.want \in 1..8,
           f.at = "ensured" => \A i \in 1..8 : containers'[f.container].services[i] # None,
           f.at = "got" => f.service # None
    PROVE  ContainersInv'
<1>1. frame'[t] = f /\ \A u \in Thread \ {t} : frame'[u] = frame[u]
  BY DEF FramesTyped
<1>2. ASSUME NEW u \in Thread, frame'[u].at \in {"ensure", "initialize", "ensured"}
      PROVE  Wanting(frame[u])'
  <2>1. CASE u = t
    BY <1>1, <1>2, <2>1 DEF Wanting
  <2>2. CASE u # t
    <3>1. frame'[u] = frame[u] /\ Wanting(frame[u])
      BY <1>1, <1>2, <2>2 DEF ContainersInv, ContainerCalls
    <3> QED BY <3>1 DEF Wanting
  <2> QED BY <2>1, <2>2
<1>3. ASSUME NEW u \in Thread, frame'[u].at = "setup"
      PROVE  SettingUp(u)'
  <2>1. CASE u = t
    BY <1>1, <1>3, <2>1
  <2>2. CASE u # t
    <3>1. frame'[u] = frame[u] /\ SettingUp(u)
      BY <1>1, <1>3, <2>2 DEF ContainersInv, ContainerCalls
    <3>2. frame[u].then.container \in DOMAIN containers
      BY <3>1 DEF SettingUp, Wanting
    <3>3. ContainerKept(frame[u].then.container)
      BY <1>3, <2>2, <3>1, <3>2 DEF ContainerBuilt
    <3>4. Wanting(frame[u].then)'
      BY <3>1, <3>2 DEF SettingUp, Wanting
    <3> QED BY <3>1, <3>3, <3>4 DEF SettingUp, ContainerKept
  <2> QED BY <2>1, <2>2
<1>4. ASSUME NEW u \in Thread, frame'[u].at = "ensured", NEW i \in 1..8
      PROVE  containers'[frame'[u].container].services[i] # None
  <2>1. CASE u = t
    BY <1>1, <1>4, <2>1
  <2>2. CASE u # t
    <3>1. /\ frame'[u] = frame[u] /\ frame[u].container \in DOMAIN containers
          /\ containers[frame[u].container].services[i] # None
      BY <1>1, <1>4, <2>2 DEF ContainersInv, ContainerCalls, Wanting
    <3> QED BY <3>1 DEF ContainerKept, ContainerBuilt
  <2> QED BY <2>1, <2>2
<1>5. ContainerCalls'
  BY <1>2, <1>3, <1>4 DEF ContainerCalls
<1>6. ASSUME NEW n \in DOMAIN containers', containers'[n].initialized, NEW i \in 1..8
      PROVE  containers'[n].services[i] = containers'[n].builds
  <2>1. CASE n \in DOMAIN containers /\ ContainerKept(n)
    <3>1. containers[n].services[i] = containers[n].builds
      BY <1>6, <2>1, EightServices
         DEF ContainersInv, ServicesBelongTogether, Containers!ServicesBelongTogether, ContainerKept
    <3> QED BY <2>1, <3>1 DEF ContainerKept
  <2>2. CASE n \in DOMAIN containers /\ ContainerBuilt(n, t)
    BY <1>6, <2>2 DEF ContainerBuilt
  <2> QED BY <1>6, <2>1, <2>2
<1>7. \A u \in Thread : frame'[u].at = "got" => frame'[u].service # None
  BY <1>1 DEF ContainersInv, ServicesBelongTogether, Containers!ServicesBelongTogether
<1>8. ServicesBelongTogether'
  BY <1>6, <1>7, EightServices DEF ServicesBelongTogether, Containers!ServicesBelongTogether
<1> QED BY <1>5, <1>8 DEF ContainersInv

(* A container more.                                                        *)
LEMMA Making ==
    ASSUME ContainersInv, NEW shared \in BOOLEAN, Containers!Make(shared)
    PROVE  /\ containers' \in Seq(ContainerType) /\ Len(containers') \in DOMAIN containers'
           /\ DOMAIN containers \subseteq DOMAIN containers'
           /\ \A n \in DOMAIN containers : containers'[n] = containers[n]
           /\ \A n \in DOMAIN containers' \ DOMAIN containers : ~containers'[n].initialized
<1> DEFINE c == Containers!NewContainer(shared)
<1>1. c \in ContainerType /\ ~c.initialized
  BY EightServices DEF Containers!NewContainer, ContainerType
<1>2. containers' = Append(containers, c) /\ containers \in Seq(ContainerType)
  BY DEF Containers!Make, ContainersInv
<1> HIDE DEF c
<1> QED BY <1>1, <1>2

(* One container changes.                                                   *)
LEMMA OneContainer ==
    ASSUME containers \in Seq(ContainerType), NEW n, NEW d,
           n \in DOMAIN containers => d \in ContainerType,
           containers' = [containers EXCEPT ![n] = d]
    PROVE  /\ containers' \in Seq(ContainerType) /\ DOMAIN containers' = DOMAIN containers
           /\ n \in DOMAIN containers => containers'[n] = d
           /\ \A m \in DOMAIN containers \ {n} : containers'[m] = containers[m]
<1>1. /\ containers \in [1..Len(containers) -> ContainerType] /\ Len(containers) \in Nat
      /\ DOMAIN containers = 1..Len(containers)
  OBVIOUS
<1>2. containers' \in [1..Len(containers) -> ContainerType]
  BY <1>1
<1>3. containers' \in Seq(ContainerType)
  BY <1>1, <1>2
<1> QED BY <1>1, <1>3

(* One container changes its flags.                                         *)
LEMMA FlagsChange ==
    ASSUME ContainersInv, NEW n,
           \/ containers' = [containers EXCEPT ![n].initialized = FALSE]
           \/ containers' = [containers EXCEPT ![n].running = TRUE, ![n].shared = TRUE]
           \/ containers' = [containers EXCEPT ![n].running = FALSE]
           \/ containers' = containers
    PROVE  /\ containers' \in Seq(ContainerType) /\ DOMAIN containers' = DOMAIN containers
           /\ \A m \in DOMAIN containers : ContainerKept(m)
<1> DEFINE c == containers[n]
<1>1. containers \in Seq(ContainerType) /\ (n \in DOMAIN containers => c \in ContainerType)
  BY DEF ContainersInv
<1>2. CASE containers' = containers
  BY <1>1, <1>2 DEF ContainerKept
<1>3. ASSUME containers' # containers
      PROVE  \E d : /\ containers' = [containers EXCEPT ![n] = d]
                    /\ \/ d = [c EXCEPT !.initialized = FALSE]
                       \/ d = [c EXCEPT !.running = TRUE, !.shared = TRUE]
                       \/ d = [c EXCEPT !.running = FALSE]
  BY <1>3
<1>4. ASSUME NEW d, containers' = [containers EXCEPT ![n] = d],
             \/ d = [c EXCEPT !.initialized = FALSE]
             \/ d = [c EXCEPT !.running = TRUE, !.shared = TRUE]
             \/ d = [c EXCEPT !.running = FALSE]
      PROVE  /\ containers' \in Seq(ContainerType) /\ DOMAIN containers' = DOMAIN containers
             /\ \A m \in DOMAIN containers : ContainerKept(m)
  <2>1. n \in DOMAIN containers =>
          /\ d \in ContainerType
          /\ d.services = c.services /\ d.builds = c.builds /\ d.lock = c.lock
          /\ d.initialized => c.initialized
    BY <1>1, <1>4 DEF ContainerType
  <2> HIDE DEF c
  <2>2. /\ containers' \in Seq(ContainerType) /\ DOMAIN containers' = DOMAIN containers
        /\ n \in DOMAIN containers => containers'[n] = d
        /\ \A m \in DOMAIN containers \ {n} : containers'[m] = containers[m]
    BY <1>1, <1>4, <2>1, OneContainer
  <2> QED BY <2>1, <2>2 DEF ContainerKept, c
<1> HIDE DEF c
<1> QED BY <1>2, <1>3, <1>4

(* The first build of a container, and every one after a shutdown.          *)
LEMMA EnterInitializeKeeps ==
    ASSUME FramesTyped, ContainersInv, NEW t \in Thread, Containers!EnterInitialize(t)
    PROVE  ContainersInv'
<1> DEFINE f == frame[t]
           n == f.container
           c == containers[n]
           ensured == [f EXCEPT !.at = "ensured"]
<1>1. f.at = "initialize" /\ c.lock = None
  BY DEF Containers!EnterInitialize
<1>2. Ensuring(f) /\ Wanting(f)
  BY <1>1 DEF FramesTyped, ServiceFrame, ContainerFrame, ContainersInv, ContainerCalls
<1>3. /\ ensured.at = "ensured" /\ ensured.container = n
      /\ ensured.network = f.network /\ ensured.want = f.want
  BY <1>2 DEF Ensuring
<1>4. c \in ContainerType /\ n \in DOMAIN containers /\ containers \in Seq(ContainerType)
  BY <1>2 DEF Wanting, ContainersInv
<1>5. CASE c.initialized
  <2>1. frame' = [frame EXCEPT ![t] = ensured] /\ containers' = containers
    BY <1>5 DEF Containers!EnterInitialize, Containers!Go
  <2>2. \A i \in 1..8 : c.services[i] # None
    BY <1>4, <1>5, EightServices, ServicesAssumption
       DEF ContainersInv, ContainerType, ServicesBelongTogether, Containers!ServicesBelongTogether
  <2> HIDE DEF ensured, c
  <2>3. \A i \in 1..8 : containers'[ensured.container].services[i] # None
    BY <1>3, <2>1, <2>2 DEF c
  <2>4. /\ ensured.container \in DOMAIN containers'
        /\ ensured.network = None => ensured.want \in 1..8
    BY <1>2, <1>3, <2>1 DEF Wanting
  <2>5. \A m \in DOMAIN containers : ContainerKept(m)
    BY <2>1 DEF ContainerKept
  <2> HIDE DEF f, n
  <2>6. containers' \in Seq(ContainerType) /\ DOMAIN containers' = DOMAIN containers
    BY <1>4, <2>1
  <2> QED BY <1>3, <2>1, <2>3, <2>4, <2>5, <2>6, ContainersChange
<1>6. CASE ~c.initialized
  <2> DEFINE s == [at |-> "setup", step |-> 1, then |-> ensured]
             d == [c EXCEPT !.lock = t, !.builds = @ + 1]
  <2>1. /\ containers' = [containers EXCEPT ![n].lock = t, ![n].builds = @ + 1]
        /\ frame' = [frame EXCEPT ![t] = s]
    BY <1>6 DEF Containers!EnterInitialize, Containers!Go
  <2>2. d \in ContainerType /\ d.lock = t /\ ~d.initialized /\ d.services = c.services
    <3>1. c \in ContainerType
      BY <1>4
    <3> HIDE DEF c
    <3>2. c.builds + 1 \in Nat
      BY <3>1 DEF ContainerType
    <3> QED BY <1>6, <3>1, <3>2 DEF ContainerType
  <2>3. containers' = [containers EXCEPT ![n] = d]
    BY <1>4, <2>1
  <2>4. s.at = "setup" /\ s.step = 1 /\ s.then = ensured
    OBVIOUS
  <2>5. frame'[t] = s
    BY <2>1 DEF FramesTyped
  <2> HIDE DEF s, ensured, d, c
  <2>6. /\ containers' \in Seq(ContainerType) /\ DOMAIN containers' = DOMAIN containers
        /\ containers'[n] = d
        /\ \A m \in DOMAIN containers \ {n} : containers'[m] = containers[m]
    BY <1>4, <2>2, <2>3, OneContainer
  <2>7. SettingUp(t)'
    BY <1>2, <1>3, <1>4, <2>2, <2>4, <2>5, <2>6 DEF SettingUp, Wanting
  <2>8. ContainerBuilt(n, t)
    <3>1. \A u \in Thread \ {t} : frame[u].at = "setup" => frame[u].then.container # n
      BY <1>1, ServicesAssumption DEF ContainersInv, ContainerCalls, SettingUp, c
    <3> QED BY <2>2, <2>6, <3>1 DEF ContainerBuilt, c
  <2>9. \A m \in DOMAIN containers : ContainerKept(m) \/ ContainerBuilt(m, t)
    BY <2>6, <2>8 DEF ContainerKept
  <2> HIDE DEF f, n
  <2> QED BY <2>1, <2>4, <2>6, <2>7, <2>9, ContainersChange
<1> QED BY <1>5, <1>6

(* A service is set up by the one thread that holds the lock.               *)
LEMMA SetupKeeps ==
    ASSUME FramesTyped, ContainersInv, NEW t \in Thread, Containers!Setup(t)
    PROVE  ContainersInv'
<1> DEFINE f == frame[t]
           n == f.then.container
           c == containers[n]
           d == [c EXCEPT !.services[f.step] = c.builds]
           s == [f EXCEPT !.step = @ + 1]
<1>1. /\ f.at = "setup" /\ f.step <= 8
      /\ containers' = [containers EXCEPT ![n].services[f.step] = c.builds]
      /\ frame' = [frame EXCEPT ![t] = s]
  BY EightServices DEF Containers!Setup, Containers!Go
<1>2. /\ f = [at |-> "setup", step |-> f.step, then |-> f.then] /\ SettingUp(t)
  BY <1>1 DEF FramesTyped, ServiceFrame, ContainerFrame, ContainersInv, ContainerCalls
<1>3. /\ c \in ContainerType /\ n \in DOMAIN containers /\ containers \in Seq(ContainerType)
      /\ f.step \in 1..8 /\ ~c.initialized
  BY <1>1, <1>2 DEF SettingUp, Wanting, ContainersInv
<1>4. /\ d \in ContainerType /\ d.lock = c.lock /\ ~d.initialized /\ d.builds = c.builds
      /\ \A i \in 1..8 : d.services[i] = IF i = f.step THEN c.builds ELSE c.services[i]
      /\ c.builds # None
  BY <1>3, ServicesAssumption DEF ContainerType
<1>5. containers' = [containers EXCEPT ![n] = d]
  BY <1>1, <1>3
<1>6. s.at = "setup" /\ s.step = f.step + 1 /\ s.then = f.then
  BY <1>2
<1>7. frame'[t] = s
  BY <1>1 DEF FramesTyped
<1> HIDE DEF s, d, c
<1>8. /\ containers' \in Seq(ContainerType) /\ DOMAIN containers' = DOMAIN containers
      /\ containers'[n] = d
      /\ \A m \in DOMAIN containers \ {n} : containers'[m] = containers[m]
  BY <1>3, <1>4, <1>5, OneContainer
<1>9. SettingUp(t)'
  <2>1. /\ c.lock = t /\ \A i \in 1..8 : i < f.step => c.services[i] = c.builds
        /\ Wanting(f.then)
    BY <1>2 DEF SettingUp, c
  <2>2. \A i \in 1..8 : i < f.step + 1 => d.services[i] = d.builds
    BY <1>3, <1>4, <2>1
  <2>3. Wanting(f.then)'
    BY <1>6, <1>7, <1>8, <2>1 DEF Wanting
  <2> QED BY <1>3, <1>4, <1>6, <1>7, <1>8, <2>1, <2>2, <2>3 DEF SettingUp, Wanting
<1>10. ContainerBuilt(n, t)
  <2>1. \A u \in Thread \ {t} : frame[u].at = "setup" => frame[u].then.container # n
    BY <1>2 DEF ContainersInv, ContainerCalls, SettingUp
  <2> QED BY <1>4, <1>8, <2>1 DEF ContainerBuilt, c
<1>11. \A m \in DOMAIN containers : ContainerKept(m) \/ ContainerBuilt(m, t)
  BY <1>8, <1>10 DEF ContainerKept
<1> HIDE DEF f, n
<1> QED BY <1>1, <1>6, <1>8, <1>9, <1>11, ContainersChange

(* A build that raises leaves the lock, and the services it set up.         *)
LEMMA SetupFailsKeeps ==
    ASSUME FramesTyped, ContainersInv, NEW t \in Thread, Containers!SetupFails(t)
    PROVE  ContainersInv'
<1> DEFINE f == frame[t]
           n == f.then.container
           c == containers[n]
           d == [c EXCEPT !.lock = None]
           s == [at |-> "idle"]
<1>1. /\ f.at = "setup" /\ containers' = [containers EXCEPT ![n].lock = None]
      /\ frame' = [frame EXCEPT ![t] = s]
  BY DEF Containers!SetupFails, Containers!Fail, Containers!Idle
<1>2. SettingUp(t)
  BY <1>1 DEF ContainersInv, ContainerCalls
<1>3. c \in ContainerType /\ n \in DOMAIN containers /\ containers \in Seq(ContainerType) /\ ~c.initialized
  BY <1>2 DEF SettingUp, Wanting, ContainersInv
<1>4. d \in ContainerType /\ ~d.initialized /\ d.services = c.services
  BY <1>3 DEF ContainerType
<1>5. containers' = [containers EXCEPT ![n] = d] /\ s.at = "idle"
  BY <1>1, <1>3
<1> HIDE DEF s, d, c
<1>6. /\ containers' \in Seq(ContainerType) /\ DOMAIN containers' = DOMAIN containers
      /\ containers'[n] = d
      /\ \A m \in DOMAIN containers \ {n} : containers'[m] = containers[m]
  BY <1>3, <1>4, <1>5, OneContainer
<1>7. ContainerBuilt(n, t)
  <2>1. \A u \in Thread \ {t} : frame[u].at = "setup" => frame[u].then.container # n
    BY <1>2 DEF ContainersInv, ContainerCalls, SettingUp
  <2> QED BY <1>4, <1>6, <2>1 DEF ContainerBuilt, c
<1>8. \A m \in DOMAIN containers : ContainerKept(m) \/ ContainerBuilt(m, t)
  BY <1>6, <1>7 DEF ContainerKept
<1> HIDE DEF f, n
<1> QED BY <1>1, <1>5, <1>6, <1>8, ContainersChange

(* The flag is set when all services are there.                             *)
LEMMA FinishInitializeKeeps ==
    ASSUME FramesTyped, ContainersInv, NEW t \in Thread, Containers!FinishInitialize(t)
    PROVE  ContainersInv'
<1> DEFINE f == frame[t]
           g == f.then
           n == g.container
           c == containers[n]
           d == [c EXCEPT !.initialized = TRUE, !.lock = None]
<1>1. /\ f.at = "setup" /\ f.step > 8
      /\ containers' = [containers EXCEPT ![n].initialized = TRUE, ![n].lock = None]
      /\ frame' = [frame EXCEPT ![t] = g]
  BY EightServices DEF Containers!FinishInitialize, Containers!Go
<1>2. g.at = "ensured" /\ SettingUp(t)
  BY <1>1 DEF FramesTyped, ServiceFrame, ContainerFrame, ContainersInv, ContainerCalls
<1>3. /\ c \in ContainerType /\ n \in DOMAIN containers /\ containers \in Seq(ContainerType)
      /\ \A i \in 1..8 : c.services[i] = c.builds
  BY <1>1, <1>2 DEF SettingUp, Wanting, ContainersInv
<1>4. d \in ContainerType /\ d.builds = c.builds /\ d.services = c.services /\ d.builds # None
  BY <1>3, ServicesAssumption DEF ContainerType
<1>5. containers' = [containers EXCEPT ![n] = d]
  BY <1>1, <1>3
<1> HIDE DEF d, c
<1>6. /\ containers' \in Seq(ContainerType) /\ DOMAIN containers' = DOMAIN containers
      /\ containers'[n] = d
      /\ \A m \in DOMAIN containers \ {n} : containers'[m] = containers[m]
  BY <1>3, <1>4, <1>5, OneContainer
<1>7. /\ n \in DOMAIN containers' /\ (g.network = None => g.want \in 1..8)
      /\ \A i \in 1..8 : containers'[n].services[i] # None
  BY <1>2, <1>3, <1>4, <1>6 DEF SettingUp, Wanting
<1>8. ContainerBuilt(n, t)
  <2>1. \A u \in Thread \ {t} : frame[u].at = "setup" => frame[u].then.container # n
    BY <1>2 DEF ContainersInv, ContainerCalls, SettingUp
  <2> QED BY <1>3, <1>4, <1>6, <2>1 DEF ContainerBuilt, c
<1>9. \A m \in DOMAIN containers : ContainerKept(m) \/ ContainerBuilt(m, t)
  BY <1>6, <1>8 DEF ContainerKept
<1> HIDE DEF f, g
<1> QED BY <1>1, <1>2, <1>6, <1>7, <1>9, ContainersChange

(* The flag is read outside the lock.                                       *)
LEMMA TestInitializedKeeps ==
    ASSUME FramesTyped, ContainersInv, NEW t \in Thread, Containers!TestInitialized(t)
    PROVE  ContainersInv'
<1> DEFINE f == frame[t]
           n == f.container
           g == [f EXCEPT !.at = IF containers[n].initialized THEN "ensured" ELSE "initialize"]
<1>1. /\ f.at = "ensure" /\ UNCHANGED containers /\ frame' = [frame EXCEPT ![t] = g]
  BY DEF Containers!TestInitialized, Containers!Go, Containers!containerVars
<1>2. Ensuring(f) /\ Wanting(f)
  BY <1>1 DEF FramesTyped, ServiceFrame, ContainerFrame, ContainersInv, ContainerCalls
<1>3. /\ g.container = n /\ g.network = f.network /\ g.want = f.want
      /\ g.at = IF containers[n].initialized THEN "ensured" ELSE "initialize"
  BY <1>2 DEF Ensuring
<1>4. g.at = "ensured" => \A i \in 1..8 : containers'[n].services[i] # None
  <2>1. SUFFICES ASSUME containers[n].initialized, NEW i \in 1..8 PROVE containers[n].services[i] # None
    BY <1>1, <1>3
  <2>2. containers[n] \in ContainerType
    BY <1>2 DEF ContainersInv, Wanting
  <2>3. containers[n].services[i] = containers[n].builds
    BY <1>2, <2>1, EightServices
       DEF ContainersInv, ServicesBelongTogether, Containers!ServicesBelongTogether, Wanting
  <2> QED BY <2>2, <2>3, ServicesAssumption DEF ContainerType
<1>5. \A m \in DOMAIN containers : ContainerKept(m)
  BY <1>1 DEF ContainerKept
<1>6. containers' \in Seq(ContainerType) /\ DOMAIN containers' = DOMAIN containers
  BY <1>1 DEF ContainersInv
<1>7. n \in DOMAIN containers /\ (f.network = None => f.want \in 1..8)
  BY <1>2 DEF Wanting
<1> HIDE DEF f, g, n
<1> QED BY <1>1, <1>3, <1>4, <1>5, <1>6, <1>7, ContainersChange

(* A service is handed out.                                                 *)
LEMMA ReturnKeeps ==
    ASSUME FramesTyped, ContainersInv, NEW t \in Thread, Containers!Return(t)
    PROVE  ContainersInv'
<1> DEFINE f == frame[t]
           g == [at |-> "got", service |-> containers[f.container].services[f.want]]
<1>1. /\ f.at = "ensured" /\ f.network = None
      /\ UNCHANGED containers /\ frame' = [frame EXCEPT ![t] = g]
  BY DEF Containers!Return, Containers!Go, Containers!containerVars
<1>2. Wanting(f) /\ \A i \in 1..8 : containers[f.container].services[i] # None
  BY <1>1 DEF ContainersInv, ContainerCalls
<1>3. g.at = "got" /\ g.service # None
  BY <1>1, <1>2 DEF Wanting
<1>4. \A m \in DOMAIN containers : ContainerKept(m)
  BY <1>1 DEF ContainerKept
<1>5. containers' \in Seq(ContainerType) /\ DOMAIN containers' = DOMAIN containers
  BY <1>1 DEF ContainersInv
<1> HIDE DEF f, g
<1> QED BY <1>1, <1>3, <1>4, <1>5, ContainersChange

(* A container is made, for its caller or for a daemon.                     *)
LEMMA MakingKeeps ==
    ASSUME FramesTyped, ContainersInv, NEW t \in Thread, NEW shared \in BOOLEAN,
           Containers!Make(shared), NEW f, frame' = [frame EXCEPT ![t] = f],
           \/ f.at = "idle"
           \/ f.at = "ensure" /\ f.container = Len(containers') /\ f.network # None
    PROVE  ContainersInv'
<1>1. \A m \in DOMAIN containers : ContainerKept(m)
  BY Making DEF ContainerKept
<1> QED BY <1>1, Making, ContainersChange

(* The flags of a container change, and a call ends or goes on.             *)
LEMMA FlagsKeep ==
    ASSUME FramesTyped, ContainersInv, NEW t \in Thread, NEW n, NEW f,
           frame' = [frame EXCEPT ![t] = f],
           \/ containers' = [containers EXCEPT ![n].initialized = FALSE]
           \/ containers' = [containers EXCEPT ![n].running = TRUE, ![n].shared = TRUE]
           \/ containers' = [containers EXCEPT ![n].running = FALSE]
           \/ containers' = containers,
           \/ f.at \in {"idle", "stopping", "stopped"}
           \/ f.at = "ensure" /\ f.container \in DOMAIN containers /\ f.want \in 1..8
    PROVE  ContainersInv'
  BY FlagsChange, ContainersChange

(* The rest of what threads do with containers.                             *)
LEMMA ContainerStepKeeps ==
    ASSUME FramesTyped, ContainersInv, NEW t \in Thread, Containers!Step(t)
    PROVE  ContainersInv'
<1>1. CASE Containers!Register(t)
  BY <1>1, FlagsKeep DEF Containers!Register, Containers!Go, Containers!Idle
<1>2. CASE Containers!Stopped(t)
  <2> DEFINE f == frame[t]
             g == [f EXCEPT !.at = "stopped"]
  <2>1. /\ f.at = "stopping" /\ frame' = [frame EXCEPT ![t] = g]
        /\ containers' = [containers EXCEPT ![f.container].running = FALSE]
    BY <1>2 DEF Containers!Stopped, Containers!Go
  <2>2. g.at = "stopped"
    BY <2>1 DEF FramesTyped, ServiceFrame, ContainerFrame
  <2> HIDE DEF g
  <2> QED BY <2>1, <2>2, FlagsKeep
<1>3. CASE Containers!Forget(t)
  BY <1>3, FlagsKeep DEF Containers!Forget, Containers!Go, Containers!Idle
<1> QED BY <1>1, <1>2, <1>3, TestInitializedKeeps, EnterInitializeKeeps, SetupKeeps,
           SetupFailsKeeps, FinishInitializeKeeps, ReturnKeeps DEF Containers!Step

(* A call for a container.                                                 *)
LEMMA ContainerRequestKeeps ==
    ASSUME FramesTyped, ContainersInv, NEW t \in Thread, Containers!Request(t)
    PROVE  ContainersInv'
<1> USE DEF Containers!Call, Containers!Idle
<1>1. CASE Containers!Construct(t)
  BY <1>1, MakingKeeps DEF Containers!Construct
<1>2. ASSUME NEW n \in DOMAIN containers, NEW want \in {1, 8}, Containers!Access(t, n, want)
      PROVE  ContainersInv'
  <2> DEFINE f == Containers!Ensure(n, want, None)
  <2>1. frame' = [frame EXCEPT ![t] = f] /\ containers' = containers
    BY <1>2 DEF Containers!Access, Containers!containerVars
  <2>2. f.at = "ensure" /\ f.container = n /\ f.want = want
    BY DEF Containers!Ensure
  <2>3. n \in DOMAIN containers /\ want \in 1..8
    OBVIOUS
  <2> HIDE DEF f
  <2> QED BY ONLY FramesTyped, ContainersInv, t \in Thread, <2>1, <2>2, <2>3, FlagsKeep
<1>3. ASSUME NEW n, Containers!Shutdown(t, n) PROVE ContainersInv'
  BY <1>3, FlagsKeep DEF Containers!Shutdown
<1>4. ASSUME NEW network \in NetworkName, Containers!StartDaemon(t, network) PROVE ContainersInv'
  <2>1. CASE Containers!Call(t, "daemon", [at |-> "idle"]) /\ UNCHANGED containers
    BY <2>1, FlagsKeep
  <2>2. CASE /\ Containers!Make(FALSE)
             /\ Containers!Call(t, "daemon", Containers!Ensure(Len(containers'), None, network))
    <3> DEFINE f == Containers!Ensure(Len(containers'), None, network)
    <3>1. frame' = [frame EXCEPT ![t] = f]
      BY <2>2
    <3>2. f.at = "ensure" /\ f.container = Len(containers') /\ f.network # None
      BY ServicesAssumption DEF Containers!Ensure
    <3> HIDE DEF f
    <3> QED BY <2>2, <3>1, <3>2, MakingKeeps
  <2> QED BY <1>4, <2>1, <2>2 DEF Containers!StartDaemon
<1>5. ASSUME NEW network, Containers!StopDaemon(t, network) PROVE ContainersInv'
  <2> DEFINE n == daemons[network]
             f == [at |-> "stopping", container |-> n, network |-> network]
  <2>1. \/ containers' = containers /\ frame' = [frame EXCEPT ![t] = [at |-> "idle"]]
        \/ /\ containers' = [containers EXCEPT ![n].initialized = FALSE]
           /\ frame' = [frame EXCEPT ![t] = f]
    BY <1>5 DEF Containers!StopDaemon
  <2>2. f.at = "stopping"
    OBVIOUS
  <2> HIDE DEF f, n
  <2>3. CASE containers' = containers /\ frame' = [frame EXCEPT ![t] = [at |-> "idle"]]
    BY <2>3, FlagsKeep
  <2>4. CASE /\ containers' = [containers EXCEPT ![n].initialized = FALSE]
             /\ frame' = [frame EXCEPT ![t] = f]
    BY <2>2, <2>4, FlagsKeep
  <2> QED BY <2>1, <2>3, <2>4
<1> QED BY <1>1, <1>2, <1>3, <1>4, <1>5, EightServices DEF Containers!Request

(* Whatever threads access, shut down, start and stop at once, nobody is     *)
(* given a service that is not there, and the services of an initialised     *)
(* container come from one build.                                           *)
THEOREM ServicesAlwaysBelongTogether == Spec => []ServicesBelongTogether
<1>1. Init => ContainersInv
  BY ContainersFresh DEF Init, Containers!Init
<1>2. FramesTyped /\ ContainersInv /\ [Next]_vars => ContainersInv'
  <2> SUFFICES ASSUME FramesTyped, ContainersInv, [Next]_vars PROVE ContainersInv'
    OBVIOUS
  <2>1. CASE Restart
    <3>1. containers' = <<>> /\ \A t \in Thread : frame'[t].at = "idle"
      BY <2>1 DEF Restart, Containers!Restarted, Wallets!Restart, Wallets!Idle
    <3>2. containers' \in Seq(ContainerType) /\ DOMAIN containers' = {}
      BY <3>1
    <3>3. ContainerCalls'
      BY <3>1 DEF ContainerCalls
    <3>4. ServicesBelongTogether'
      BY <3>1, <3>2 DEF ServicesBelongTogether, Containers!ServicesBelongTogether
    <3> QED BY <3>2, <3>3, <3>4 DEF ContainersInv
  <2>2. CASE \E t \in Thread : Containers!Step(t) \/ Containers!Request(t)
    BY <2>2, ContainerStepKeeps, ContainerRequestKeeps
  <2>3. CASE UNCHANGED containerVars /\ Elsewhere(ContainerAts)
    BY <2>3, ContainersUntouched
  <2> QED BY <2>1, <2>2, <2>3, ServiceSteps
<1>3. ContainersInv => ServicesBelongTogether
  BY DEF ContainersInv
<1> QED BY <1>1, <1>2, <1>3, FramesInductive, PTL DEF Spec

-----------------------------------------------------------------------------
(* Transactions.                                                            *)

\* What a transaction object holds, as far as its text depends on it.
TxTyped(tx) ==
    /\ tx = [k \in DOMAIN tx |-> tx[k]]
    /\ DOMAIN tx = {"inputs", "fee", "status", "txid", "raw", "outputs"}
    /\ tx.inputs \in Inputs
    /\ tx.raw \in Transactions!Text \cup {None}

\* What is sent is some text of a transaction; what is stored the node has.
TxCall(f) ==
    /\ f.at \in {"send", "store", "sent"} => f.raw \in Transactions!Text
    /\ f.at \in {"send", "store"} => f.tx \in DOMAIN transactions
    /\ f.at = "store" => f.raw \in pool
    /\ f.at = "callback" => /\ f.txid \in Transactions!Text
                            /\ f.confirmations >= 6 => f.txid \in settled

\* An object is in _transactions under a text it was named by, and confirmed
\* only after one such text was settled.
Registered ==
    /\ DOMAIN registry = Transactions!Text
    /\ \A raw \in Transactions!Text : registry[raw] # None =>
         registry[raw] \in DOMAIN transactions /\ <<raw, registry[raw]>> \in named
    /\ \A n \in DOMAIN transactions : transactions[n].status = "confirmed" =>
         \E text \in settled : <<text, n>> \in named

TransactionsTyped ==
    /\ transactions \in Seq({transactions[n] : n \in DOMAIN transactions})
    /\ \A n \in DOMAIN transactions : TxTyped(transactions[n])

TransactionsInv ==
    /\ TransactionsTyped
    /\ \A t \in Thread : TxCall(frame[t])
    /\ Registered
    /\ pool \subseteq Transactions!Text
    /\ ResultTellsNode

(* Some text belongs to the inputs of every transaction.                    *)
LEMMA TextOfInputs ==
    ASSUME NEW inputs \in Inputs, NEW kind \in {"signed", "raw"}
    PROVE  <<kind, Len(inputs)>> \in Transactions!Text
  BY DEF Transactions!Text

(* A sequence with an element more.                                         *)
LEMMA Appended ==
    ASSUME NEW S, NEW s \in Seq(S), NEW e
    PROVE  /\ Append(s, e) \in Seq(S \cup {e}) /\ DOMAIN Append(s, e) = 1..(Len(s) + 1)
           /\ \A n \in DOMAIN s : Append(s, e)[n] = s[n]
           /\ Append(s, e)[Len(s) + 1] = e
  OBVIOUS

(* A sequence with an element changed.                                      *)
LEMMA Changed ==
    ASSUME NEW S, NEW s \in Seq(S), NEW e, NEW k \in DOMAIN s
    PROVE  /\ [s EXCEPT ![k] = e] \in Seq(S \cup {e}) /\ DOMAIN [s EXCEPT ![k] = e] = DOMAIN s
           /\ \A n \in DOMAIN s : [s EXCEPT ![k] = e][n] = IF n = k THEN e ELSE s[n]
<1>1. s \in [1..Len(s) -> S] /\ Len(s) \in Nat
  OBVIOUS
<1>2. [s EXCEPT ![k] = e] \in [1..Len(s) -> S \cup {e}]
  BY <1>1
<1> QED BY <1>1, <1>2

(* A sequence is one of its elements.                                       *)
LEMMA OfElements ==
    ASSUME NEW S, NEW s \in Seq(S)
    PROVE  s \in Seq({s[n] : n \in DOMAIN s})
<1> DEFINE T == {s[n] : n \in DOMAIN s}
<1>1. s \in [1..Len(s) -> S] /\ Len(s) \in Nat
  OBVIOUS
<1>2. \A n \in 1..Len(s) : s[n] \in T
  BY <1>1
<1> HIDE DEF T
<1>3. s \in [1..Len(s) -> T]
  BY <1>1, <1>2
<1>4. s \in Seq(T)
  BY <1>1, <1>3
<1> QED BY <1>4 DEF T

(* One object more.                                                         *)
LEMMA TransactionMade ==
    ASSUME TransactionsTyped, NEW tx, TxTyped(tx), transactions' = Append(transactions, tx)
    PROVE  /\ TransactionsTyped' /\ DOMAIN transactions' = DOMAIN transactions \cup {Len(transactions) + 1}
           /\ \A n \in DOMAIN transactions : transactions'[n] = transactions[n]
           /\ transactions'[Len(transactions) + 1] = tx
<1> DEFINE S == {transactions[n] : n \in DOMAIN transactions}
           N == Len(transactions)
<1>1. transactions \in Seq(S) /\ DOMAIN transactions = 1..N /\ N \in Nat
  BY DEF TransactionsTyped
<1>2. /\ DOMAIN transactions' = 1..(N + 1)
      /\ \A n \in DOMAIN transactions : transactions'[n] = transactions[n]
      /\ transactions'[N + 1] = tx
      /\ transactions' \in Seq(S \cup {tx})
  BY <1>1, Appended
<1>3. \A n \in DOMAIN transactions' : TxTyped(transactions'[n])
  BY <1>1, <1>2 DEF TransactionsTyped
<1>4. transactions' \in Seq({transactions'[n] : n \in DOMAIN transactions'})
  BY <1>2, OfElements
<1>5. TransactionsTyped'
  BY <1>3, <1>4 DEF TransactionsTyped, TxTyped, Transactions!Text
<1> QED BY <1>1, <1>2, <1>5

(* One object changes.                                                      *)
LEMMA TransactionChanged ==
    ASSUME TransactionsTyped, NEW n \in DOMAIN transactions, NEW tx, TxTyped(tx),
           transactions' = [transactions EXCEPT ![n] = tx]
    PROVE  /\ TransactionsTyped' /\ DOMAIN transactions' = DOMAIN transactions
           /\ \A m \in DOMAIN transactions : transactions'[m] = IF m = n THEN tx ELSE transactions[m]
<1> DEFINE S == {transactions[m] : m \in DOMAIN transactions}
<1>1. transactions \in Seq(S)
  BY DEF TransactionsTyped
<1>2. /\ transactions' \in Seq(S \cup {tx}) /\ DOMAIN transactions' = DOMAIN transactions
      /\ \A m \in DOMAIN transactions : transactions'[m] = IF m = n THEN tx ELSE transactions[m]
  BY <1>1, Changed
<1>3. \A m \in DOMAIN transactions' : TxTyped(transactions'[m])
  BY <1>1, <1>2 DEF TransactionsTyped
<1> HIDE DEF S
<1>4. transactions' \in Seq({transactions'[m] : m \in DOMAIN transactions'})
  <2>1. transactions' \in Seq(S \cup {tx})
    BY <1>2
  <2> QED BY ONLY <2>1, OfElements
<1>5. TransactionsTyped'
  BY <1>3, <1>4 DEF TransactionsTyped, TxTyped, Transactions!Text
<1> QED BY <1>1, <1>2, <1>5

(* A step of one thread keeps what the others rely on.                      *)
LEMMA TransactionsChange ==
    ASSUME FramesTyped, TransactionsInv, NEW t \in Thread, NEW f,
           frame' = [frame EXCEPT ![t] = f],
           TransactionsTyped', DOMAIN transactions \subseteq DOMAIN transactions',
           pool \subseteq pool', lost \subseteq lost', settled \subseteq settled', named \subseteq named',
           \A n \in DOMAIN transactions' : transactions'[n].status = "confirmed" =>
              \/ n \in DOMAIN transactions /\ transactions[n].status = "confirmed"
              \/ \E text \in settled' : <<text, n>> \in named',
           pool' \subseteq Transactions!Text,
           \A raw \in pool' \ pool : raw \in lost' \/ (f.at = "store" /\ f.raw = raw),
           DOMAIN registry' = Transactions!Text,
           \A raw \in Transactions!Text : registry'[raw] # registry[raw] =>
              /\ registry'[raw] # None /\ registry'[raw] \in DOMAIN transactions'
              /\ <<raw, registry'[raw]>> \in named' /\ raw \in pool',
           frame[t].at = "store" => registry'[frame[t].raw] # None,
           f.at \in {"send", "store", "sent"} => f.raw \in Transactions!Text,
           f.at \in {"send", "store"} => f.tx \in DOMAIN transactions',
           f.at = "store" => f.raw \in pool',
           f.at = "callback" => /\ f.txid \in Transactions!Text
                                /\ f.confirmations >= 6 => f.txid \in settled',
           f.at = "sent" /\ f.success => registry'[f.raw] # None
    PROVE  TransactionsInv'
<1>1. frame'[t] = f /\ \A u \in Thread \ {t} : frame'[u] = frame[u]
  BY DEF FramesTyped
<1>2. ASSUME NEW u \in Thread PROVE TxCall(frame[u])'
  <2>1. CASE u = t
    BY <1>1, <2>1 DEF TxCall
  <2>2. CASE u # t
    <3>1. frame'[u] = frame[u] /\ TxCall(frame[u])
      BY <1>1, <2>2 DEF TransactionsInv
    <3> QED BY <3>1 DEF TxCall, Transactions!Text
  <2> QED BY <2>1, <2>2
<1>3. Registered'
  <2>1. \A raw \in Transactions!Text : registry'[raw] # None =>
          registry'[raw] \in DOMAIN transactions' /\ <<raw, registry'[raw]>> \in named'
    BY DEF TransactionsInv, Registered
  <2>2. \A n \in DOMAIN transactions' : transactions'[n].status = "confirmed" =>
          \E text \in settled' : <<text, n>> \in named'
    BY DEF TransactionsInv, Registered
  <2> QED BY <2>1, <2>2 DEF Registered, Transactions!Text
<1>4. ASSUME NEW raw \in Transactions!Text, registry[raw] # None
      PROVE  registry'[raw] # None
  BY <1>4
<1>5. ASSUME NEW u \in Thread, frame'[u].at = "sent" /\ frame'[u].success
      PROVE  registry'[frame'[u].raw] # None
  <2>1. CASE u = t
    BY <1>1, <1>5, <2>1
  <2>2. CASE u # t
    <3>1. /\ frame'[u] = frame[u] /\ frame[u].raw \in Transactions!Text
          /\ registry[frame[u].raw] # None
      BY <1>1, <1>5, <2>2 DEF TransactionsInv, TxCall, ResultTellsNode, Transactions!ResultTellsNode
    <3> QED BY <1>4, <3>1
  <2> QED BY <2>1, <2>2
<1>6. ASSUME NEW raw \in Transactions!Text, registry'[raw] # None
      PROVE  raw \in pool'
  BY <1>6 DEF TransactionsInv, ResultTellsNode, Transactions!ResultTellsNode
<1>7. ASSUME NEW raw \in pool' \ lost'
      PROVE  registry'[raw] # None \/ \E u \in Thread : frame'[u].at = "store" /\ frame'[u].raw = raw
  <2>1. CASE raw \notin pool
    BY <1>1, <1>7, <2>1
  <2>2. CASE raw \in pool /\ registry[raw] # None
    BY <1>4, <2>2
  <2>3. CASE raw \in pool /\ registry[raw] = None
    <3>1. PICK u \in Thread : frame[u].at = "store" /\ frame[u].raw = raw
      BY <1>7, <2>3 DEF TransactionsInv, ResultTellsNode, Transactions!ResultTellsNode
    <3> QED BY <1>1, <3>1
  <2> QED BY <2>1, <2>2, <2>3
<1>8. ResultTellsNode'
  BY <1>5, <1>6, <1>7 DEF ResultTellsNode, Transactions!ResultTellsNode, Transactions!Text
<1> QED BY <1>2, <1>3, <1>8 DEF TransactionsInv

(* A call that registers nothing and asks the node for nothing.             *)
LEMMA QuietCall ==
    ASSUME FramesTyped, TransactionsInv, NEW t \in Thread, NEW f,
           frame' = [frame EXCEPT ![t] = f], frame[t].at # "store",
           UNCHANGED <<registry, pool, lost, named>>, settled \subseteq settled',
           TransactionsTyped', DOMAIN transactions \subseteq DOMAIN transactions',
           \A n \in DOMAIN transactions' : transactions'[n].status = "confirmed" =>
              \/ n \in DOMAIN transactions /\ transactions[n].status = "confirmed"
              \/ \E text \in settled' : <<text, n>> \in named',
           \/ f.at \in {"idle", "relock"}
           \/ /\ f.at = "send" /\ f.raw \in Transactions!Text /\ f.tx \in DOMAIN transactions'
           \/ /\ f.at = "callback" /\ f.txid \in Transactions!Text
              /\ f.confirmations >= 6 => f.txid \in settled'
    PROVE  TransactionsInv'
<1>1. DOMAIN registry' = Transactions!Text /\ pool' \subseteq Transactions!Text
  BY DEF TransactionsInv, Registered
<1> QED BY <1>1, TransactionsChange

(* The node is asked to take a text.                                        *)
LEMMA SendKeeps ==
    ASSUME FramesTyped, TransactionsInv, NEW t \in Thread, Transactions!SendRawTransaction(t)
    PROVE  TransactionsInv'
<1> DEFINE f == frame[t]
           again == IF f.attempt < 3 THEN [f EXCEPT !.attempt = @ + 1] ELSE Transactions!Sent(f, FALSE)
           stored == [at |-> "store", tx |-> f.tx, raw |-> f.raw]
           tx == transactions[f.tx]
           accepted == [tx EXCEPT !.status = "broadcast", !.txid = f.raw]
<1>1. /\ f.at = "send" /\ UNCHANGED <<registry, settled, named>>
      /\ \/ /\ pool' = pool \cup {f.raw} /\ lost' = lost
            /\ transactions' = [transactions EXCEPT ![f.tx].status = "broadcast", ![f.tx].txid = f.raw]
            /\ frame' = [frame EXCEPT ![t] = stored]
         \/ /\ pool' = pool \cup {f.raw} /\ lost' = lost \cup {f.raw}
            /\ transactions' = transactions
            /\ frame' = [frame EXCEPT ![t] = again]
         \/ /\ UNCHANGED <<transactions, pool, lost>>
            /\ frame' = [frame EXCEPT ![t] = again]
  BY DEF Transactions!SendRawTransaction, Transactions!Go, Transactions!Fail
<1>2. f.raw \in Transactions!Text /\ f.tx \in DOMAIN transactions
  BY <1>1 DEF TransactionsInv, TxCall
<1>3. /\ again.raw = f.raw /\ again.at \in {"send", "sent"}
      /\ again.at = "send" => again.tx = f.tx
      /\ again.at = "sent" => ~again.success
  BY <1>1 DEF FramesTyped, ServiceFrame, TxFrame, Transactions!Sent
<1>4. stored.at = "store" /\ stored.tx = f.tx /\ stored.raw = f.raw
  OBVIOUS
<1>5. /\ TransactionsTyped /\ pool \subseteq Transactions!Text
      /\ DOMAIN registry = Transactions!Text
  BY DEF TransactionsInv, Registered
<1>6. TxTyped(accepted) /\ accepted.status = "broadcast"
  BY <1>2, <1>5 DEF TransactionsTyped, TxTyped
<1>7. [transactions EXCEPT ![f.tx].status = "broadcast", ![f.tx].txid = f.raw]
        = [transactions EXCEPT ![f.tx] = accepted]
  BY <1>2
<1> HIDE DEF again, stored, accepted, tx
<1>8. CASE /\ frame' = [frame EXCEPT ![t] = again] /\ transactions' = transactions
           /\ \/ pool' = pool /\ lost' = lost
              \/ pool' = pool \cup {f.raw} /\ lost' = lost \cup {f.raw}
  <2>1. TransactionsTyped'
    BY <1>5, <1>8 DEF TransactionsTyped, TxTyped, Transactions!Text
  <2> HIDE DEF f
  <2> QED BY <1>1, <1>2, <1>3, <1>5, <1>8, <2>1, TransactionsChange DEF f
<1>9. CASE /\ frame' = [frame EXCEPT ![t] = stored]
           /\ transactions' = [transactions EXCEPT ![f.tx] = accepted]
           /\ pool' = pool \cup {f.raw} /\ lost' = lost
  <2>1. /\ TransactionsTyped' /\ DOMAIN transactions' = DOMAIN transactions
        /\ \A m \in DOMAIN transactions :
             transactions'[m] = IF m = f.tx THEN accepted ELSE transactions[m]
    BY <1>2, <1>5, <1>6, <1>9, TransactionChanged
  <2>2. \A m \in DOMAIN transactions' : transactions'[m].status = "confirmed" =>
          m \in DOMAIN transactions /\ transactions[m].status = "confirmed"
    BY <1>6, <2>1
  <2>3. /\ pool \subseteq pool' /\ lost \subseteq lost' /\ pool' \subseteq Transactions!Text
        /\ \A raw \in pool' \ pool : stored.at = "store" /\ stored.raw = raw
        /\ stored.raw \in Transactions!Text /\ stored.raw \in pool'
        /\ stored.tx \in DOMAIN transactions' /\ stored.at = "store" /\ f.at # "store"
        /\ DOMAIN registry' = Transactions!Text
        /\ UNCHANGED <<registry, settled, named>>
    BY <1>1, <1>2, <1>4, <1>5, <1>9, <2>1
  <2>4. frame[t].at # "store" /\ frame' = [frame EXCEPT ![t] = stored]
    BY <1>9, <2>3
  <2> HIDE DEF f
  <2> QED BY <2>1, <2>2, <2>3, <2>4, TransactionsChange
<1> QED BY <1>1, <1>7, <1>8, <1>9

(* A broadcast transaction is registered.                                   *)
LEMMA StoreKeeps ==
    ASSUME FramesTyped, TransactionsInv, NEW t \in Thread, Transactions!Store(t)
    PROVE  TransactionsInv'
<1> DEFINE f == frame[t]
           sent == Transactions!Sent(f, TRUE)
<1>1. /\ f.at = "store" /\ registry' = [registry EXCEPT ![f.raw] = f.tx]
      /\ named' = named \cup {<<f.raw, f.tx>>}
      /\ frame' = [frame EXCEPT ![t] = sent]
      /\ UNCHANGED <<transactions, pool, lost, settled>>
  BY DEF Transactions!Store, Transactions!Go
<1>2. /\ f.raw \in Transactions!Text /\ f.tx \in DOMAIN transactions /\ f.raw \in pool
      /\ DOMAIN registry = Transactions!Text /\ pool \subseteq Transactions!Text
  BY <1>1 DEF TransactionsInv, TxCall, Registered
<1>3. f.tx # None
  BY <1>2, ServicesAssumption DEF TransactionsInv, TransactionsTyped
<1>4. sent.at = "sent" /\ sent.raw = f.raw
  BY DEF Transactions!Sent
<1>5. TransactionsTyped'
  BY <1>1 DEF TransactionsInv, TransactionsTyped, TxTyped, Transactions!Text
<1>6. /\ DOMAIN registry' = Transactions!Text /\ registry'[f.raw] = f.tx
      /\ \A raw \in Transactions!Text \ {f.raw} : registry'[raw] = registry[raw]
  BY <1>1, <1>2
<1> HIDE DEF f, sent
<1> QED BY <1>1, <1>2, <1>3, <1>4, <1>5, <1>6, TransactionsChange DEF f

(* The calls of an application.                                             *)
LEMMA TransactionRequestKeeps ==
    ASSUME FramesTyped, TransactionsInv, NEW t \in Thread, Transactions!Request(t)
    PROVE  TransactionsInv'
<1> USE DEF Transactions!Call, Transactions!Idle, Transactions!Ready
<1>1. TransactionsTyped
  BY DEF TransactionsInv
<1>2. ASSUME UNCHANGED transactions PROVE TransactionsTyped'
  BY <1>1, <1>2 DEF TransactionsTyped, TxTyped, Transactions!Text
<1>3. ASSUME NEW i \in Inputs, NEW o, NEW r, NEW c, Transactions!Build(t, i, o, r, c)
      PROVE  TransactionsInv'
  <2> DEFINE tx == Transactions!Built(i, o, r, c)
  <2>1. TxTyped(tx) /\ tx.status = "draft"
    BY DEF TxTyped, Transactions!Built
  <2>2. /\ transactions' = Append(transactions, tx)
        /\ frame' = [frame EXCEPT ![t] = [at |-> "idle"]] /\ frame[t].at # "store"
        /\ UNCHANGED <<registry, pool, lost, settled, named>>
    BY <1>3 DEF Transactions!Build
  <2> HIDE DEF tx
  <2>3. /\ TransactionsTyped' /\ DOMAIN transactions' = DOMAIN transactions \cup {Len(transactions) + 1}
        /\ \A n \in DOMAIN transactions : transactions'[n] = transactions[n]
        /\ transactions'[Len(transactions) + 1] = tx
    BY <1>1, <2>1, <2>2, TransactionMade
  <2>4. \A n \in DOMAIN transactions' : transactions'[n].status = "confirmed" =>
          n \in DOMAIN transactions /\ transactions[n].status = "confirmed"
    BY <2>1, <2>3
  <2> QED BY <2>2, <2>3, <2>4, QuietCall
<1>4. ASSUME NEW n \in DOMAIN transactions, NEW tx, TxTyped(tx),
             transactions' = [transactions EXCEPT ![n] = tx],
             tx.status = "confirmed" =>
                \/ transactions[n].status = "confirmed"
                \/ \E text \in settled' : <<text, n>> \in named'
      PROVE  /\ TransactionsTyped' /\ DOMAIN transactions' = DOMAIN transactions
             /\ \A m \in DOMAIN transactions' : transactions'[m].status = "confirmed" =>
                  \/ m \in DOMAIN transactions /\ transactions[m].status = "confirmed"
                  \/ \E text \in settled' : <<text, m>> \in named'
  <2>1. /\ TransactionsTyped' /\ DOMAIN transactions' = DOMAIN transactions
        /\ \A m \in DOMAIN transactions : transactions'[m] = IF m = n THEN tx ELSE transactions[m]
    BY <1>1, <1>4, TransactionChanged
  <2> QED BY <1>4, <2>1
<1>5. ASSUME NEW n \in DOMAIN transactions, Transactions!Sign(t, n)
      PROVE  TransactionsInv'
  <2> DEFINE tx == Transactions!Signed(transactions[n])
  <2>1. TxTyped(transactions[n])
    BY <1>1 DEF TransactionsTyped
  <2>2. TxTyped(tx) /\ tx.status = "signed"
    BY <2>1, TextOfInputs DEF TxTyped, Transactions!Signed
  <2>3. /\ transactions' = [transactions EXCEPT ![n] = tx]
        /\ frame' = [frame EXCEPT ![t] = [at |-> "idle"]] /\ frame[t].at # "store"
        /\ UNCHANGED <<registry, pool, lost, settled, named>>
    BY <1>5 DEF Transactions!Sign
  <2> HIDE DEF tx
  <2>4. /\ TransactionsTyped' /\ DOMAIN transactions' = DOMAIN transactions
        /\ \A m \in DOMAIN transactions' : transactions'[m].status = "confirmed" =>
             \/ m \in DOMAIN transactions /\ transactions[m].status = "confirmed"
             \/ \E text \in settled' : <<text, m>> \in named'
    BY <1>4, <2>2, <2>3
  <2> QED BY <2>3, <2>4, QuietCall
<1>6. ASSUME NEW n \in DOMAIN transactions, Transactions!Broadcast(t, n)
      PROVE  TransactionsInv'
  <2> DEFINE old == transactions[n]
             raw == IF old.raw = None THEN <<"raw", Len(old.inputs)>> ELSE old.raw
             tx == [old EXCEPT !.raw = raw]
             f == [at |-> "send", tx |-> n, raw |-> raw, attempt |-> 1]
  <2>1. TxTyped(old)
    BY <1>1 DEF TransactionsTyped
  <2>2. raw \in Transactions!Text
    BY <2>1, TextOfInputs DEF TxTyped
  <2>3. /\ transactions' = [transactions EXCEPT ![n].raw = raw]
        /\ frame' = [frame EXCEPT ![t] = f] /\ frame[t].at # "store"
        /\ UNCHANGED <<registry, pool, lost, settled, named>>
    BY <1>6 DEF Transactions!Broadcast
  <2> HIDE DEF raw
  <2>4. TxTyped(tx) /\ tx.status = old.status /\ transactions' = [transactions EXCEPT ![n] = tx]
    BY <2>1, <2>2, <2>3 DEF TxTyped
  <2>5. f.at = "send" /\ f.raw = raw /\ f.tx = n
    OBVIOUS
  <2> HIDE DEF tx, f
  <2>6. /\ TransactionsTyped' /\ DOMAIN transactions' = DOMAIN transactions
        /\ \A m \in DOMAIN transactions' : transactions'[m].status = "confirmed" =>
             \/ m \in DOMAIN transactions /\ transactions[m].status = "confirmed"
             \/ \E text \in settled' : <<text, m>> \in named'
    BY <1>4, <2>4
  <2> QED BY <2>2, <2>3, <2>5, <2>6, QuietCall
<1>7. ASSUME NEW x, NEW r, Transactions!Replace(t, x, r) PROVE TransactionsInv'
  <2>1. /\ UNCHANGED <<transactions, registry, pool, lost, settled, named>> /\ frame[t].at # "store"
        /\ \/ frame' = [frame EXCEPT ![t] = [at |-> "idle"]]
           \/ \E tx : frame' = [frame EXCEPT ![t] = [at |-> "relock", tx |-> tx]]
    BY <1>7 DEF Transactions!Replace
  <2>2. CASE frame' = [frame EXCEPT ![t] = [at |-> "idle"]]
    BY <1>2, <2>1, <2>2, QuietCall
  <2>3. ASSUME NEW tx, frame' = [frame EXCEPT ![t] = [at |-> "relock", tx |-> tx]]
        PROVE  TransactionsInv'
    BY <1>2, <2>1, <2>3, QuietCall
  <2> QED BY <2>1, <2>2, <2>3
<1>8. ASSUME NEW x, Transactions!Monitor(t, x) \/ Transactions!Unmonitor(t, x)
      PROVE  TransactionsInv'
  <2>1. /\ UNCHANGED <<transactions, registry, pool, lost, settled, named>> /\ frame[t].at # "store"
        /\ frame' = [frame EXCEPT ![t] = [at |-> "idle"]]
    BY <1>8 DEF Transactions!Monitor, Transactions!Unmonitor
  <2> QED BY <1>2, <2>1, QuietCall
<1>9. ASSUME NEW x \in Transactions!Text, NEW c, Transactions!NotifyConfirmation(t, x, c)
      PROVE  TransactionsInv'
  <2> DEFINE heard == [at |-> "callback", txid |-> x, confirmations |-> c]
  <2>1. /\ UNCHANGED <<transactions, registry, pool, lost, named>> /\ settled \subseteq settled'
        /\ c >= 6 => x \in settled'
        /\ frame[t].at # "store"
        /\ frame' = [frame EXCEPT ![t] = [at |-> "idle"]] \/ frame' = [frame EXCEPT ![t] = heard]
    BY <1>9 DEF Transactions!NotifyConfirmation
  <2>2. heard.at = "callback" /\ heard.txid = x /\ heard.confirmations = c
    OBVIOUS
  <2> HIDE DEF heard
  <2>3. CASE frame' = [frame EXCEPT ![t] = [at |-> "idle"]]
    BY <1>2, <2>1, <2>3, QuietCall
  <2>4. CASE frame' = [frame EXCEPT ![t] = heard]
    BY <1>2, <2>1, <2>2, <2>4, QuietCall
  <2> QED BY <2>1, <2>3, <2>4
<1>10. scope.inputs \subseteq Inputs
  BY ServicesAssumption DEF FramesTyped
<1> QED BY <1>3, <1>5, <1>6, <1>7, <1>8, <1>9, <1>10 DEF Transactions!Request

(* The callback has returned: what was settled may be confirmed.            *)
LEMMA FinishConfirmationKeeps ==
    ASSUME FramesTyped, TransactionsInv, NEW t \in Thread, Transactions!FinishConfirmation(t)
    PROVE  TransactionsInv'
<1> DEFINE f == frame[t]
           n == registry[f.txid]
           tx == [transactions[n] EXCEPT !.status = "confirmed"]
<1>1. /\ f.at = "callback" /\ UNCHANGED <<registry, pool, lost, named, settled>>
      /\ frame' = [frame EXCEPT ![t] = [at |-> "idle"]] /\ frame[t].at # "store"
  BY DEF Transactions!FinishConfirmation, Transactions!Go, Transactions!Idle
<1>2. f.txid \in Transactions!Text /\ (f.confirmations >= 6 => f.txid \in settled)
  BY <1>1 DEF TransactionsInv, TxCall
<1>3. TransactionsTyped
  BY DEF TransactionsInv
<1>4. CASE UNCHANGED transactions
  <2>1. TransactionsTyped'
    BY <1>3, <1>4 DEF TransactionsTyped, TxTyped, Transactions!Text
  <2> QED BY <1>1, <1>4, <2>1, QuietCall
<1>5. CASE ~UNCHANGED transactions
  <2>1. /\ n # None /\ f.txid \in settled
        /\ transactions' = [transactions EXCEPT ![n].status = "confirmed"]
    BY <1>2, <1>5 DEF Transactions!FinishConfirmation
  <2>2. n \in DOMAIN transactions /\ <<f.txid, n>> \in named
    BY <1>2, <2>1 DEF TransactionsInv, Registered
  <2>3. TxTyped(transactions[n])
    BY <1>3, <2>2 DEF TransactionsTyped
  <2>4. TxTyped(tx) /\ transactions' = [transactions EXCEPT ![n] = tx]
    BY <2>1, <2>2, <2>3 DEF TxTyped
  <2> HIDE DEF tx, n
  <2>5. /\ TransactionsTyped' /\ DOMAIN transactions' = DOMAIN transactions
        /\ \A m \in DOMAIN transactions : transactions'[m] = IF m = n THEN tx ELSE transactions[m]
    BY <1>3, <2>2, <2>4, TransactionChanged
  <2>6. \A m \in DOMAIN transactions' : transactions'[m].status = "confirmed" =>
          \/ m \in DOMAIN transactions /\ transactions[m].status = "confirmed"
          \/ \E text \in settled' : <<text, m>> \in named'
    BY <1>1, <2>1, <2>2, <2>5
  <2> QED BY <1>1, <2>5, <2>6, QuietCall
<1> QED BY <1>4, <1>5

(* Before the first transaction all is in order.                            *)
LEMMA TransactionsFresh ==
    ASSUME transactions = <<>>, registry = [raw \in Transactions!Text |-> None],
           \A t \in Thread : frame[t].at = "idle", pool \subseteq lost, pool \subseteq Transactions!Text
    PROVE  TransactionsInv
<1>1. TransactionsTyped
  BY DEF TransactionsTyped
<1>2. Registered
  BY DEF Registered
<1>3. ResultTellsNode
  BY DEF ResultTellsNode, Transactions!ResultTellsNode
<1> QED BY <1>1, <1>2, <1>3 DEF TransactionsInv, TxCall

(* What happens elsewhere leaves the transactions alone.                    *)
LEMMA TransactionsUntouched ==
    ASSUME TransactionsInv, UNCHANGED txVars, Elsewhere(TxAts)
    PROVE  TransactionsInv'
<1>1. \A t \in Thread : frame'[t].at \in TxAts => frame'[t] = frame[t]
  BY DEF Elsewhere
<1>2. \A t \in Thread : frame[t].at = "store" => frame'[t] = frame[t]
  BY DEF Elsewhere, TxAts, Resting
<1>3. \A t \in Thread : TxCall(frame[t])'
  BY <1>1 DEF TransactionsInv, TxCall, TxAts, txVars, Transactions!Text
<1>4. TransactionsTyped' /\ Registered'
  <2>1. TransactionsTyped'
    BY DEF TransactionsInv, TransactionsTyped, TxTyped, txVars, Transactions!Text
  <2>2. Registered'
    BY DEF TransactionsInv, Registered, txVars, Transactions!Text
  <2> QED BY <2>1, <2>2
<1>5. ResultTellsNode'
  BY <1>1, <1>2 DEF TransactionsInv, ResultTellsNode, Transactions!ResultTellsNode, TxAts, txVars,
                    Transactions!Text
<1>6. pool' \subseteq Transactions!Text
  BY DEF TransactionsInv, txVars
<1> QED BY <1>3, <1>4, <1>5, <1>6 DEF TransactionsInv, Transactions!Text

(* The transactions, the texts they are registered under and the node.      *)
LEMMA TransactionsInductive == Spec => []TransactionsInv
<1>1. Init => TransactionsInv
  BY TransactionsFresh DEF Init, Transactions!Init
<1>2. FramesTyped /\ TransactionsInv /\ [Next]_vars => TransactionsInv'
  <2> SUFFICES ASSUME FramesTyped, TransactionsInv, [Next]_vars PROVE TransactionsInv'
    OBVIOUS
  <2>1. CASE Restart
    <3>1. /\ transactions' = <<>> /\ registry' = [raw \in Transactions!Text |-> None]
          /\ \A t \in Thread : frame'[t].at = "idle"
          /\ pool' = pool /\ lost' = pool
      BY <2>1 DEF Restart, Transactions!Restarted, Wallets!Restart, Wallets!Idle
    <3>2. TransactionsTyped'
      BY <3>1 DEF TransactionsTyped
    <3>3. Registered'
      BY <3>1 DEF Registered, Transactions!Text
    <3>4. ResultTellsNode'
      BY <3>1 DEF ResultTellsNode, Transactions!ResultTellsNode, Transactions!Text
    <3>5. pool' \subseteq Transactions!Text
      BY <3>1 DEF TransactionsInv
    <3> QED BY <3>1, <3>2, <3>3, <3>4, <3>5 DEF TransactionsInv, TxCall, Transactions!Text
  <2>2. CASE \E t \in Thread : Transactions!Step(t) \/ Transactions!Request(t)
    BY <2>2, SendKeeps, StoreKeeps, FinishConfirmationKeeps, TransactionRequestKeeps
       DEF Transactions!Step
  <2>3. CASE UNCHANGED txVars /\ Elsewhere(TxAts)
    BY <2>3, TransactionsUntouched
  <2> QED BY <2>1, <2>2, <2>3, ServiceSteps
<1> QED BY <1>1, <1>2, FramesInductive, PTL DEF Spec

(* What broadcast tells its callers is what the node has, whatever answers  *)
(* are lost and however often the process starts again.                     *)
THEOREM ResultAlwaysTellsNode == Spec => []ResultTellsNode
<1>1. TransactionsInv => ResultTellsNode
  BY DEF TransactionsInv
<1> QED BY <1>1, TransactionsInductive, PTL

(* get_confirmations answers six only for an object one of whose texts was   *)
(* notified with six.                                                       *)
THEOREM SixAlwaysMeansNotified == Spec => []SixMeansNotified
<1>1. TransactionsInv => SixMeansNotified
  <2> SUFFICES ASSUME TransactionsInv, NEW txid \in Transactions!Text,
                      Transactions!Confirmations(txid) = 6
               PROVE  \/ txid \in settled
                      \/ \E other \in settled \ {txid} : <<other, registry[txid]>> \in named
    BY DEF SixMeansNotified, Transactions!SixMeansNotified
  <2>1. registry[txid] # None /\ transactions[registry[txid]].status = "confirmed"
    BY DEF Transactions!Confirmations
  <2>2. \E other \in settled : <<other, registry[txid]>> \in named
    BY <2>1 DEF TransactionsInv, Registered
  <2> QED BY <2>2
<1> QED BY <1>1, TransactionsInductive, PTL

-----------------------------------------------------------------------------
(* The health monitor.                                                      *)

Metric == {"success", "error", "latency"}

\* The errors of a list of metrics, and the latencies of requests: recorded,
\* or to be recorded by the threads that are between the two.
Errors(list) == {i \in DOMAIN list : list[i] = "error"}
Recordings(list) == {i \in DOMAIN list : list[i] = "latency"}
Between == {t \in Thread : frame[t].at = "latency"}

Latencies(list, threads) ==
    {<<"metric", j>> : j \in Recordings(list)} \cup {<<"thread", t>> : t \in threads}

\* Every error has a latency of its own that was or will be recorded later.
Answered(list, threads, answer) ==
    /\ answer \in [Errors(list) -> Latencies(list, threads)]
    /\ \A i, j \in Errors(list) : answer[i] = answer[j] => i = j
    /\ \A i \in Errors(list), j \in Recordings(list) : answer[i] = <<"metric", j>> => i < j

Answerable(list, threads) ==
    \E answer \in [Errors(list) -> Latencies(list, threads)] : Answered(list, threads, answer)

ComponentsKnown ==
    /\ DOMAIN components \subseteq Component /\ DOMAIN told = Component
    /\ \A n \in DOMAIN components : components[n] = "unknown" \/ told[n] = components[n]

HealthInv ==
    /\ metrics \in Seq(Metric)
    /\ Len(metrics) <= MaxMetrics
    /\ Answerable(metrics, Between)
    /\ ComponentsKnown

(* A metric more.                                                           *)
LEMMA MetricAppended ==
    ASSUME NEW list \in Seq(Metric), NEW threads, Answerable(list, threads),
           NEW metric \in Metric, NEW t, NEW now,
           \/ metric = "success" /\ threads \subseteq now
           \/ metric = "error" /\ t \notin threads /\ now = threads \cup {t}
           \/ metric = "latency" /\ now = threads \ {t}
    PROVE  Append(list, metric) \in Seq(Metric) /\ Answerable(Append(list, metric), now)
<1> DEFINE all == Append(list, metric)
           N == Len(list)
<1>1. /\ all \in Seq(Metric) /\ DOMAIN all = 1..(N + 1) /\ DOMAIN list = 1..N /\ N \in Nat
      /\ all[N + 1] = metric /\ \A i \in 1..N : all[i] = list[i]
  OBVIOUS
<1>2. PICK answer \in [Errors(list) -> Latencies(list, threads)] : Answered(list, threads, answer)
  BY DEF Answerable
<1> HIDE DEF all, N
<1>3. /\ Errors(all) = Errors(list) \cup IF metric = "error" THEN {N + 1} ELSE {}
      /\ Recordings(all) = Recordings(list) \cup IF metric = "latency" THEN {N + 1} ELSE {}
      /\ Errors(list) \subseteq 1..N /\ Recordings(list) \subseteq 1..N
  BY <1>1 DEF Errors, Recordings
<1>4. \A i \in Errors(list) :
        \/ \E j \in Recordings(list) : answer[i] = <<"metric", j>> /\ i < j
        \/ \E u \in threads : answer[i] = <<"thread", u>>
  BY <1>2 DEF Answered, Latencies
<1>5. \A i, j \in Errors(list) : answer[i] = answer[j] => i = j
  BY <1>2 DEF Answered
<1>6. ASSUME NEW new, DOMAIN new = Errors(all), new = [i \in Errors(all) |-> new[i]],
             \A i, j \in Errors(all) : new[i] = new[j] => i = j,
             \A i \in Errors(all) :
                \/ \E j \in Recordings(all) : new[i] = <<"metric", j>> /\ i < j
                \/ \E u \in now : new[i] = <<"thread", u>>
      PROVE  Answerable(all, now)
  <2>1. new \in [Errors(all) -> Latencies(all, now)]
    BY <1>6 DEF Latencies
  <2>2. \A i \in Errors(all), j \in Recordings(all) : new[i] = <<"metric", j>> => i < j
    BY <1>6
  <2> QED BY <1>6, <2>1, <2>2 DEF Answerable, Answered
<1>7. ASSUME metric = "success" PROVE Answerable(all, now)
  <2> DEFINE new == [i \in Errors(all) |-> answer[i]]
  <2>1. Errors(all) = Errors(list) /\ Recordings(all) = Recordings(list) /\ threads \subseteq now
    BY <1>3, <1>7
  <2>2. DOMAIN new = Errors(all) /\ \A i \in Errors(all) : new[i] = answer[i]
    OBVIOUS
  <2> HIDE DEF new
  <2>3. new = [i \in Errors(all) |-> new[i]]
    BY <2>2 DEF new
  <2> QED BY <1>4, <1>5, <1>6, <2>1, <2>2, <2>3
<1>8. ASSUME metric = "error" PROVE Answerable(all, now)
  <2> DEFINE new == [i \in Errors(all) |-> IF i = N + 1 THEN <<"thread", t>> ELSE answer[i]]
  <2>1. /\ Errors(all) = Errors(list) \cup {N + 1} /\ Recordings(all) = Recordings(list)
        /\ now = threads \cup {t} /\ t \notin threads
    BY <1>3, <1>8
  <2>2. /\ new[N + 1] = <<"thread", t>> /\ N + 1 \notin Errors(list)
        /\ \A i \in Errors(list) : new[i] = answer[i]
    BY <1>1, <1>3, <2>1
  <2>3. DOMAIN new = Errors(all) /\ new = [i \in Errors(all) |-> new[i]]
    OBVIOUS
  <2> HIDE DEF new
  <2>4. \A i \in Errors(list) : new[i] # <<"thread", t>>
    BY <1>4, <2>1, <2>2
  <2>5. \A i, j \in Errors(all) : new[i] = new[j] => i = j
    BY <1>5, <2>1, <2>2, <2>4
  <2>6. \A i \in Errors(all) :
          \/ \E j \in Recordings(all) : new[i] = <<"metric", j>> /\ i < j
          \/ \E u \in now : new[i] = <<"thread", u>>
    BY <1>4, <2>1, <2>2
  <2> QED BY <1>6, <2>3, <2>5, <2>6
<1>9. ASSUME metric = "latency" PROVE Answerable(all, now)
  <2> DEFINE new == [i \in Errors(all) |-> IF answer[i] = <<"thread", t>> THEN <<"metric", N + 1>>
                                           ELSE answer[i]]
  <2>1. /\ Errors(all) = Errors(list) /\ Recordings(all) = Recordings(list) \cup {N + 1}
        /\ now = threads \ {t}
    BY <1>3, <1>9
  <2>2. /\ DOMAIN new = Errors(all)
        /\ \A i \in Errors(list) :
             new[i] = IF answer[i] = <<"thread", t>> THEN <<"metric", N + 1>> ELSE answer[i]
    BY <2>1
  <2>3. new = [i \in Errors(all) |-> new[i]]
    BY <2>2
  <2> HIDE DEF new
  <2>4. \A i \in Errors(list) : answer[i] # <<"metric", N + 1>> /\ i < N + 1
    BY <1>1, <1>3, <1>4
  <2>5. \A i, j \in Errors(all) : new[i] = new[j] => i = j
    BY <1>5, <2>1, <2>2, <2>4
  <2>6. \A i \in Errors(all) :
          \/ \E j \in Recordings(all) : new[i] = <<"metric", j>> /\ i < j
          \/ \E u \in now : new[i] = <<"thread", u>>
    BY <1>4, <2>1, <2>2, <2>4
  <2> QED BY <1>6, <2>2, <2>3, <2>5, <2>6
<1> QED BY <1>1, <1>7, <1>8, <1>9 DEF all

(* The oldest go: what an error that stays is answered by is younger.       *)
LEMMA MetricsCut ==
    ASSUME NEW all \in Seq(Metric), NEW threads, Answerable(all, threads),
           NEW k \in Nat, k <= Len(all)
    PROVE  LET kept == SubSeq(all, k + 1, Len(all))
           IN kept \in Seq(Metric) /\ Len(kept) = Len(all) - k /\ Answerable(kept, threads)
<1> DEFINE kept == SubSeq(all, k + 1, Len(all))
           N == Len(all)
<1>1. /\ kept \in Seq(Metric) /\ Len(kept) = N - k /\ N \in Nat
      /\ DOMAIN kept = 1..(N - k) /\ DOMAIN all = 1..N
      /\ \A i \in 1..(N - k) : kept[i] = all[i + k]
  OBVIOUS
<1>2. PICK answer \in [Errors(all) -> Latencies(all, threads)] : Answered(all, threads, answer)
  BY DEF Answerable
<1> HIDE DEF kept
<1>3. /\ \A i \in Errors(kept) : i \in 1..(N - k) /\ i + k \in Errors(all)
      /\ \A j \in Recordings(all) : j \in 1..N /\ (j > k => j - k \in Recordings(kept))
  BY <1>1 DEF Errors, Recordings
<1>4. \A i \in Errors(all) :
        \/ \E j \in Recordings(all) : answer[i] = <<"metric", j>> /\ i < j
        \/ \E u \in threads : answer[i] = <<"thread", u>>
  BY <1>2 DEF Answered, Latencies
<1>5. \A i, j \in Errors(all) : answer[i] = answer[j] => i = j
  BY <1>2 DEF Answered
<1> DEFINE new == [i \in Errors(kept) |-> IF answer[i + k][1] = "metric"
                                          THEN <<"metric", answer[i + k][2] - k>>
                                          ELSE answer[i + k]]
<1>6. \A i \in Errors(kept) :
        \/ \E j \in Recordings(all) : /\ answer[i + k] = <<"metric", j>> /\ i + k < j
                                      /\ new[i] = <<"metric", j - k>>
        \/ \E u \in threads : answer[i + k] = <<"thread", u>> /\ new[i] = <<"thread", u>>
  <2> SUFFICES ASSUME NEW i \in Errors(kept)
               PROVE  \/ \E j \in Recordings(all) : /\ answer[i + k] = <<"metric", j>> /\ i + k < j
                                                    /\ new[i] = <<"metric", j - k>>
                      \/ \E u \in threads : answer[i + k] = <<"thread", u>> /\ new[i] = <<"thread", u>>
    OBVIOUS
  <2>1. ASSUME NEW j \in Recordings(all), answer[i + k] = <<"metric", j>>
        PROVE  new[i] = <<"metric", j - k>>
    BY <2>1
  <2>2. ASSUME NEW u \in threads, answer[i + k] = <<"thread", u>>
        PROVE  new[i] = <<"thread", u>>
    BY <2>2
  <2> HIDE DEF new
  <2> QED BY <1>3, <1>4, <2>1, <2>2
<1>7. DOMAIN new = Errors(kept) /\ new = [i \in Errors(kept) |-> new[i]]
  OBVIOUS
<1> HIDE DEF new
<1>8. \A i \in Errors(kept) :
        \/ \E j \in Recordings(kept) : new[i] = <<"metric", j>> /\ i < j
        \/ \E u \in threads : new[i] = <<"thread", u>>
  <2> SUFFICES ASSUME NEW i \in Errors(kept), NEW j \in Recordings(all),
                      i + k < j, new[i] = <<"metric", j - k>>
               PROVE  \E m \in Recordings(kept) : new[i] = <<"metric", m>> /\ i < m
    BY <1>6
  <2>1. j - k \in Recordings(kept) /\ i < j - k
    BY <1>1, <1>3
  <2> QED BY <2>1
<1>9. \A i, j \in Errors(kept) : new[i] = new[j] => i = j
  <2> SUFFICES ASSUME NEW i \in Errors(kept), NEW j \in Errors(kept), new[i] = new[j] PROVE i = j
    OBVIOUS
  <2>0. new[i] = new[j]
    OBVIOUS
  <2>1. answer[i + k] = answer[j + k]
    <3>1. CASE \E u \in threads : answer[i + k] = <<"thread", u>> /\ new[i] = <<"thread", u>>
      <4>1. PICK u \in threads : answer[i + k] = <<"thread", u>> /\ new[i] = <<"thread", u>>
        BY <3>1
      <4>2. \A m : new[j] # <<"metric", m>>
        BY <2>0, <4>1
      <4> QED BY <1>6, <2>0, <4>1, <4>2
    <3>2. ASSUME NEW m \in Recordings(all), answer[i + k] = <<"metric", m>>, new[i] = <<"metric", m - k>>
          PROVE  answer[i + k] = answer[j + k]
      <4>1. \A u : new[j] # <<"thread", u>>
        BY <2>0, <3>2
      <4>2. PICK l \in Recordings(all) : answer[j + k] = <<"metric", l>> /\ new[j] = <<"metric", l - k>>
        BY <1>6, <4>1
      <4>3. m \in Nat /\ l \in Nat
        BY <1>3
      <4>4. m - k = l - k
        <5>1. <<"metric", m - k>> = <<"metric", l - k>>
          BY <2>0, <3>2, <4>2
        <5>2. \A a, b : <<"metric", a>> = <<"metric", b>> => a = b
          OBVIOUS
        <5> QED BY ONLY <5>1, <5>2
      <4>5. m = l
        BY <4>3, <4>4
      <4> QED BY <3>2, <4>2, <4>5
    <3> QED BY <1>6, <3>1, <3>2
  <2>2. i + k = j + k
    BY <1>3, <1>5, <2>1
  <2> QED BY <1>1, <1>3, <2>2
<1>10. new \in [Errors(kept) -> Latencies(kept, threads)]
  BY <1>7, <1>8 DEF Latencies
<1>11. \A i \in Errors(kept), j \in Recordings(kept) : new[i] = <<"metric", j>> => i < j
  BY <1>8
<1>12. Answerable(kept, threads)
  BY <1>9, <1>10, <1>11 DEF Answerable, Answered
<1> QED BY <1>1, <1>12 DEF kept

(* What record_metric leaves.                                               *)
LEMMA MetricRecorded ==
    ASSUME HealthInv, NEW metric \in Metric, NEW t, NEW now,
           \/ metric = "success" /\ Between \subseteq now
           \/ metric = "error" /\ t \notin Between /\ now = Between \cup {t}
           \/ metric = "latency" /\ now = Between \ {t}
    PROVE  LET new == Health!Recorded(metric)
           IN new \in Seq(Metric) /\ Len(new) <= MaxMetrics /\ Answerable(new, now)
<1> DEFINE all == Append(metrics, metric)
<1>1. metrics \in Seq(Metric) /\ Len(metrics) <= MaxMetrics /\ Answerable(metrics, Between)
  BY DEF HealthInv
<1>2. all \in Seq(Metric) /\ Answerable(all, now)
  BY <1>1, MetricAppended
<1>3. Len(all) = Len(metrics) + 1 /\ Len(metrics) \in Nat /\ MaxMetrics \in Nat \ {0}
  BY <1>1, ServicesAssumption
<1> HIDE DEF all
<1>4. CASE Len(all) <= MaxMetrics
  BY <1>2, <1>3, <1>4 DEF Health!Recorded, all
<1>5. CASE Len(all) > MaxMetrics
  <2> DEFINE k == Len(all) - MaxMetrics
  <2>1. k \in Nat /\ k <= Len(all)
    BY <1>3, <1>5
  <2>2. Health!Recorded(metric) = SubSeq(all, k + 1, Len(all))
    BY <1>5 DEF Health!Recorded, all
  <2>3. Len(all) - k = MaxMetrics
    BY <1>3
  <2> HIDE DEF k
  <2> QED BY <1>2, <1>3, <2>1, <2>2, <2>3, MetricsCut
<1> QED BY <1>3, <1>4, <1>5

(* No metrics, no errors.                                                   *)
LEMMA MetricsNone == ASSUME NEW threads PROVE Answerable(<<>>, threads)
<1>1. Errors(<<>>) = {}
  BY DEF Errors
<1> DEFINE answer == [i \in Errors(<<>>) |-> i]
<1>2. answer \in [Errors(<<>>) -> Latencies(<<>>, threads)] /\ Answered(<<>>, threads, answer)
  BY <1>1 DEF Answered
<1> HIDE DEF answer
<1> QED BY <1>2 DEF Answerable

(* The monitor counts as FiniteSets does.                                   *)
LEMMA SameCount == ASSUME NEW S PROVE Health!Cardinality(S) = Cardinality(S)
  BY DEF Health!Cardinality, Cardinality

(* No more errors than latencies.                                           *)
LEMMA ErrorsCounted ==
    ASSUME NEW list \in Seq(Metric), NEW threads, IsFiniteSet(threads), Answerable(list, threads)
    PROVE  /\ Cardinality(Errors(list)) \in Nat /\ Cardinality(Recordings(list)) \in Nat
           /\ Cardinality(threads) \in Nat
           /\ Cardinality(Errors(list)) <= Cardinality(Recordings(list)) + Cardinality(threads)
<1> DEFINE R == {<<"metric", j>> : j \in Recordings(list)}
           T == {<<"thread", t>> : t \in threads}
<1>1. IsFiniteSet(Recordings(list)) /\ IsFiniteSet(threads)
  <2>1. IsFiniteSet(1..Len(list)) /\ Recordings(list) \subseteq 1..Len(list)
    BY FS_Interval DEF Recordings
  <2> QED BY <2>1, FS_Subset
<1>2. IsFiniteSet(R) /\ Cardinality(R) <= Cardinality(Recordings(list))
  <2> DEFINE f == [j \in Recordings(list) |-> <<"metric", j>>]
  <2>1. f \in Surjection(Recordings(list), R)
    BY DEF Surjection
  <2> QED BY <1>1, <2>1, FS_Surjection
<1>3. IsFiniteSet(T) /\ Cardinality(T) <= Cardinality(threads)
  <2> DEFINE f == [t \in threads |-> <<"thread", t>>]
  <2>1. f \in Surjection(threads, T)
    BY DEF Surjection
  <2> QED BY <1>1, <2>1, FS_Surjection
<1>4. PICK answer \in [Errors(list) -> Latencies(list, threads)] : Answered(list, threads, answer)
  BY DEF Answerable
<1>5. answer \in Injection(Errors(list), R \cup T)
  BY <1>4 DEF Answered, Latencies, Injection, IsInjective
<1> HIDE DEF R, T
<1>6. /\ IsFiniteSet(R \cup T)
      /\ Cardinality(R \cup T) = Cardinality(R) + Cardinality(T) - Cardinality(R \cap T)
  BY <1>2, <1>3, FS_Union
<1>7. IsFiniteSet(R \cap T)
  BY <1>2, FS_Subset
<1>8. IsFiniteSet(Errors(list)) /\ Cardinality(Errors(list)) <= Cardinality(R \cup T)
  BY <1>5, <1>6, FS_Injection
<1>9. /\ Cardinality(R) \in Nat /\ Cardinality(T) \in Nat /\ Cardinality(R \cap T) \in Nat
      /\ Cardinality(R \cup T) \in Nat
      /\ Cardinality(Errors(list)) \in Nat /\ Cardinality(Recordings(list)) \in Nat
      /\ Cardinality(threads) \in Nat
  BY <1>1, <1>2, <1>3, <1>6, <1>7, <1>8, FS_CardinalityType
<1> QED BY <1>2, <1>3, <1>6, <1>8, <1>9

(* The invariant says what the monitor tells.                               *)
LEMMA MonitorSound == HealthInv => MonitorTellsTruth
<1> SUFFICES ASSUME HealthInv PROVE MonitorTellsTruth
  OBVIOUS
<1>1. Health!ErrorsWithinRequests
  <2>1. IsFiniteSet(Between)
    BY ServicesAssumption, FS_Subset DEF Between
  <2>2. /\ Cardinality(Errors(metrics)) \in Nat /\ Cardinality(Recordings(metrics)) \in Nat
        /\ Cardinality(Between) \in Nat
        /\ Cardinality(Errors(metrics)) <= Cardinality(Recordings(metrics)) + Cardinality(Between)
    BY <2>1, ErrorsCounted DEF HealthInv
  <2>3. Health!Count("latency") = Cardinality(Recordings(metrics))
    <3>1. Health!Count("latency") = Health!Cardinality(Recordings(metrics))
      BY DEF Health!Count, Recordings
    <3> QED BY <3>1, SameCount
  <2>4. Health!Count("error") = Cardinality(Errors(metrics))
    <3>1. Health!Count("error") = Health!Cardinality(Errors(metrics))
      BY DEF Health!Count, Errors
    <3> QED BY <3>1, SameCount
  <2>5. Health!MetricsSummary.errors <= Health!MetricsSummary.requests + Cardinality(Between)
    BY <2>2, <2>3, <2>4 DEF Health!MetricsSummary
  <2>6. Health!Cardinality(Between) = Cardinality(Between)
    BY SameCount
  <2>7. Health!MetricsSummary.errors <= Health!MetricsSummary.requests + Health!Cardinality(Between)
    BY <2>5, <2>6
  <2> QED BY <2>7 DEF Health!ErrorsWithinRequests, Between
<1>2. Health!TroubleIsTold
  <2>1. Health!Check = "unhealthy" => \E n \in DOMAIN components : components[n] = "unhealthy"
    BY DEF Health!Check
  <2> QED BY <2>1 DEF HealthInv, ComponentsKnown, Health!TroubleIsTold
<1> QED BY <1>1, <1>2 DEF MonitorTellsTruth, Health!MonitorTellsTruth

(* A step of the monitor.                                                   *)
LEMMA HealthStepKeeps ==
    ASSUME FramesTyped, HealthInv, NEW t \in Thread, Health!Step(t) \/ Health!Request(t)
    PROVE  HealthInv'
<1> USE DEF Health!Call, Health!Ready, Health!Idle, Health!Go
<1>1. ASSUME NEW f, frame' = [frame EXCEPT ![t] = f]
      PROVE  Between' = IF f.at = "latency" THEN Between \cup {t} ELSE Between \ {t}
  BY <1>1 DEF FramesTyped, Between
<1>2. ASSUME UNCHANGED metrics, Between' = Between \ {t}, t \notin Between
      PROVE  metrics' \in Seq(Metric) /\ Len(metrics') <= MaxMetrics /\ Answerable(metrics', Between')
  <2>1. Between' = Between
    BY <1>2
  <2> QED BY <1>2, <2>1 DEF HealthInv
<1>3. ASSUME NEW name \in Component, Health!RegisterComponent(t, name) PROVE HealthInv'
  <2>1. ComponentsKnown'
    BY <1>3 DEF HealthInv, ComponentsKnown, Health!RegisterComponent
  <2> QED BY <1>1, <1>2, <1>3, <2>1 DEF HealthInv, Between, Health!RegisterComponent
<1>4. ASSUME NEW name, Health!UnregisterComponent(t, name) PROVE HealthInv'
  <2>1. ComponentsKnown'
    BY <1>4 DEF HealthInv, ComponentsKnown, Health!UnregisterComponent
  <2> QED BY <1>1, <1>2, <1>4, <2>1 DEF HealthInv, Between, Health!UnregisterComponent
<1>5. ASSUME NEW name, NEW state, Health!UpdateComponent(t, name, state) PROVE HealthInv'
  <2>1. ComponentsKnown'
    BY <1>5 DEF HealthInv, ComponentsKnown, Health!UpdateComponent, Health!Heard
  <2> QED BY <1>1, <1>2, <1>5, <2>1 DEF HealthInv, Between, Health!UpdateComponent
<1>6. ASSUME UNCHANGED <<components, told>> PROVE ComponentsKnown'
  BY <1>6 DEF HealthInv, ComponentsKnown
<1>7. ASSUME NEW success \in BOOLEAN, Health!RecordRequest(t, success) PROVE HealthInv'
  <2> DEFINE metric == IF success THEN "success" ELSE "error"
  <2>1. /\ metrics' = Health!Recorded(metric) /\ t \notin Between
        /\ frame' = [frame EXCEPT ![t] = [at |-> "latency"]] /\ UNCHANGED <<components, told>>
    BY <1>7 DEF Health!RecordRequest, Between
  <2>2. Between' = Between \cup {t}
    BY <2>1 DEF Between, FramesTyped
  <2>3. metric \in Metric /\ metric \in {"success", "error"}
    BY DEF Metric
  <2> HIDE DEF metric
  <2>4. metrics' \in Seq(Metric) /\ Len(metrics') <= MaxMetrics /\ Answerable(metrics', Between')
    BY <2>1, <2>2, <2>3, MetricRecorded
  <2> QED BY <1>6, <2>1, <2>4 DEF HealthInv
<1>8. CASE Health!RecordLatency(t)
  <2>1. /\ metrics' = Health!Recorded("latency")
        /\ frame' = [frame EXCEPT ![t] = [at |-> "idle"]] /\ UNCHANGED <<components, told>>
    BY <1>8 DEF Health!RecordLatency
  <2>2. Between' = Between \ {t}
    BY <2>1 DEF Between, FramesTyped
  <2>3. metrics' \in Seq(Metric) /\ Len(metrics') <= MaxMetrics /\ Answerable(metrics', Between')
    BY <2>1, <2>2, MetricRecorded DEF Metric
  <2> QED BY <1>6, <2>1, <2>3 DEF HealthInv
<1>9. CASE Health!ResetMetrics(t)
  <2>1. metrics' = <<>> /\ UNCHANGED <<components, told>>
    BY <1>9 DEF Health!ResetMetrics
  <2>2. Answerable(<<>>, Between')
    BY MetricsNone
  <2>3. <<>> \in Seq(Metric) /\ Len(<<>>) <= MaxMetrics
    BY ServicesAssumption
  <2> QED BY <1>6, <2>1, <2>2, <2>3 DEF HealthInv
<1> QED BY <1>3, <1>4, <1>5, <1>7, <1>8, <1>9 DEF Health!Step, Health!Request

(* The summary, the overall state and what listeners told agree, whatever  *)
(* is recorded, cut and reset between the two records of a request.         *)
THEOREM MonitorAlwaysTellsTruth == Spec => []MonitorTellsTruth
<1>1. <<>> \in Seq(Metric) /\ Len(<<>>) <= MaxMetrics
  BY ServicesAssumption
<1>2. Init => HealthInv
  BY <1>1, MetricsNone DEF Init, Health!Init, HealthInv, ComponentsKnown
<1>3. FramesTyped /\ HealthInv /\ [Next]_vars => HealthInv'
  <2> SUFFICES ASSUME FramesTyped, HealthInv, [Next]_vars PROVE HealthInv'
    OBVIOUS
  <2>1. CASE Restart
    <3>1. components' = <<>> /\ metrics' = <<>> /\ told' = [n \in Component |-> "unknown"]
      BY <2>1 DEF Restart, Health!Restarted
    <3>2. ComponentsKnown'
      BY <3>1 DEF ComponentsKnown
    <3>3. Answerable(<<>>, Between')
      BY MetricsNone
    <3> QED BY <1>1, <3>1, <3>2, <3>3 DEF HealthInv
  <2>2. CASE \E t \in Thread : Health!Step(t) \/ Health!Request(t)
    BY <2>2, HealthStepKeeps
  <2>3. CASE UNCHANGED healthVars /\ Elsewhere(HealthAts)
    <3>1. Between' = Between
      BY <2>3 DEF Elsewhere, HealthAts, Resting, Between
    <3>2. ComponentsKnown'
      BY <2>3 DEF HealthInv, ComponentsKnown, healthVars
    <3> QED BY <2>3, <3>1, <3>2 DEF HealthInv, healthVars
  <2> QED BY <2>1, <2>2, <2>3, ServiceSteps
<1> QED BY <1>2, <1>3, MonitorSound, FramesInductive, PTL DEF Spec

-----------------------------------------------------------------------------
(* Discovery.                                                               *)

Both == <<"external", "internal">>

\* A chain is scanned: its unused answers are the whole run at the end, no gap
\* was reached before the last answer, and the last used one is known.
Scanned(s, unused, last) ==
    /\ s \in Seq(BOOLEAN) /\ unused \in Nat
    /\ unused \in Addresses!UnusedRun(s)
    /\ unused = Len(s) \/ s[Len(s) - unused]
    /\ \A n \in 0..(Len(s) - 1) : GapLimit \notin Addresses!UnusedRun(SubSeq(s, 1, n))
    /\ (last = None) <=> (\A i \in DOMAIN s : ~s[i])

\* The rounds a chain was asked in so far.
Rounds(f, c) ==
    f.round + (IF (c = "external" /\ f.todo # Both) \/ (c = "internal" /\ f.todo = <<>>)
               THEN 1 ELSE 0)

\* A chain is asked in every round, until its gap is reached.
Discovering(f) ==
    /\ f.round \in Nat /\ f.round <= MaxScan
    /\ f.todo \in {Both, <<"internal">>, <<>>}
    /\ f.answers = [c \in Addresses!Chain |-> f.answers[c]]
    /\ f.unused = [c \in Addresses!Chain |-> f.unused[c]]
    /\ f.last = [c \in Addresses!Chain |-> f.last[c]]
    /\ \A c \in Addresses!Chain :
         /\ Scanned(f.answers[c], f.unused[c], f.last[c])
         /\ f.unused[c] < GapLimit => Len(f.answers[c]) = Rounds(f, c)
    /\ f.todo # Both \/ f.at \in {"balance", "paid"} => f.round < MaxScan
    /\ f.at \in {"balance", "paid"} => f.todo # <<>> /\ f.unused[Head(f.todo)] < GapLimit
    /\ f.at = "report" =>
         f.todo = Both /\ (f.round = MaxScan \/ \A c \in Addresses!Chain : f.unused[c] >= GapLimit)

\* What a finished discovery has to show for a chain.
StoppedAtGap(s, unused, last) ==
    /\ unused \in Addresses!UnusedRun(s)
    /\ GapLimit \in Addresses!UnusedRun(s) \/ Len(s) = MaxScan
    /\ \A n \in 0..(Len(s) - 1) : GapLimit \notin Addresses!UnusedRun(SubSeq(s, 1, n))
    /\ (last = None) <=> (\A i \in DOMAIN s : ~s[i])

DiscoveryFrame(f) ==
    /\ f.at \in {"scan", "balance", "paid", "report"} => Discovering(f)
    /\ f.at = "discovered" =>
         \A c \in Addresses!Chain : StoppedAtGap(f.answers[c], f.unused[c], f.last[c])

DiscoveryInv == \A t \in Thread : DiscoveryFrame(frame[t])

(* The runs of unused answers at the end are what their lengths say.         *)
LEMMA UnusedRuns ==
    ASSUME NEW s \in Seq(BOOLEAN), NEW n \in Nat
    PROVE  n \in Addresses!UnusedRun(s) <=>
             n <= Len(s) /\ \A i \in 1..Len(s) : Len(s) - n < i => ~s[i]
  BY DEF Addresses!UnusedRun

(* An answer more for a chain whose gap is not reached.                     *)
LEMMA ScannedOnce ==
    ASSUME NEW s, NEW unused, NEW last, Scanned(s, unused, last), unused < GapLimit,
           NEW paid \in BOOLEAN, NEW round \in Nat
    PROVE  /\ Scanned(Append(s, paid), IF paid THEN 0 ELSE unused + 1, IF paid THEN round ELSE last)
           /\ Len(Append(s, paid)) = Len(s) + 1
<1> DEFINE new == Append(s, paid)
           N == Len(s)
           u == IF paid THEN 0 ELSE unused + 1
<1>1. /\ s \in Seq(BOOLEAN) /\ unused \in Nat /\ N \in Nat /\ GapLimit \in Nat /\ u \in Nat
      /\ DOMAIN s = 1..N
  BY ServicesAssumption DEF Scanned
<1>2. /\ new \in Seq(BOOLEAN) /\ Len(new) = N + 1 /\ DOMAIN new = 1..(N + 1)
      /\ new[N + 1] = paid /\ \A i \in 1..N : new[i] = s[i]
  BY <1>1
<1>3. /\ unused <= N /\ \A i \in 1..N : N - unused < i => ~s[i]
      /\ unused = N \/ s[N - unused]
  BY <1>1, UnusedRuns DEF Scanned
<1>4. N \in Nat /\ unused \in Nat /\ GapLimit \in Nat /\ unused <= N /\ Len(new) = N + 1
  BY <1>1, <1>2, <1>3
<1> HIDE DEF new, N
<1>5. u \in Addresses!UnusedRun(new) /\ (u = Len(new) \/ new[Len(new) - u])
  <2>1. CASE paid
    <3>1. u = 0 /\ Len(new) - 0 = N + 1 /\ 0 <= Len(new)
      BY <1>1, <1>2, <2>1
    <3>2. \A i \in 1..Len(new) : ~(Len(new) - 0 < i)
      BY <1>1, <1>2
    <3>3. new[Len(new) - u]
      BY <1>2, <2>1, <3>1
    <3> QED BY <1>2, <3>1, <3>2, <3>3, UnusedRuns
  <2>2. CASE ~paid
    <3>1. u = unused + 1 /\ u <= N + 1 /\ N + 1 - u = N - unused
      BY <1>4, <2>2
    <3>2. ASSUME NEW i \in 1..(N + 1), N + 1 - u < i PROVE ~new[i]
      <4>1. CASE i = N + 1
        BY <1>2, <2>2, <4>1
      <4>2. CASE i # N + 1
        <5>1. i \in 1..N /\ N - unused < i
          BY <1>1, <3>1, <3>2, <4>2
        <5> QED BY <1>2, <1>3, <5>1
      <4> QED BY <4>1, <4>2
    <3>3. CASE unused = N
      <4>1. u = Len(new)
        BY <1>4, <3>1, <3>3
      <4> QED BY <1>1, <1>2, <3>1, <3>2, <4>1, UnusedRuns
    <3>4. CASE unused # N
      <4>1. s[N - unused] /\ N - unused \in 1..N
        BY <1>4, <1>3, <3>4
      <4>2. new[N + 1 - u]
        BY <1>2, <3>1, <4>1
      <4> QED BY <1>1, <1>2, <3>1, <3>2, <4>2, UnusedRuns
    <3> QED BY <3>3, <3>4
  <2> QED BY <2>1, <2>2
<1>6. ASSUME NEW n \in 0..(Len(new) - 1)
      PROVE  GapLimit \notin Addresses!UnusedRun(SubSeq(new, 1, n))
  <2>1. SubSeq(new, 1, n) = SubSeq(s, 1, n)
    <3>1. n \in 0..N
      BY <1>1, <1>2
    <3>2. \A i \in 1..n : new[i] = s[i]
      BY <1>1, <1>2, <3>1
    <3> QED BY <1>1, <1>2, <3>1, <3>2
  <2>2. CASE n < N
    <3>1. n \in 0..(N - 1)
      BY <1>1, <1>2, <2>2
    <3> QED BY <2>1, <3>1 DEF Scanned, N
  <2>3. CASE n = N
    <3>1. SubSeq(s, 1, N) = s
      BY <1>1
    <3>2. GapLimit \notin Addresses!UnusedRun(s)
      <4>1. SUFFICES ASSUME GapLimit <= N, \A i \in 1..N : N - GapLimit < i => ~s[i] PROVE FALSE
        BY <1>1, UnusedRuns
      <4>2. N - unused \in 1..N /\ N - GapLimit < N - unused /\ unused # N
        BY <1>4, <4>1
      <4>3. s[N - unused]
        BY <1>3, <4>2
      <4> QED BY <4>1, <4>2, <4>3
    <3> QED BY <2>1, <2>3, <3>1, <3>2
  <2>4. n < N \/ n = N
    BY <1>4
  <2> QED BY <2>2, <2>3, <2>4
<1>7. ((IF paid THEN round ELSE last) = None) <=> (\A i \in DOMAIN new : ~new[i])
  <2>1. (last = None) <=> (\A i \in 1..N : ~s[i])
    BY <1>1 DEF Scanned
  <2>2. round # None
    BY ServicesAssumption
  <2>3. CASE paid
    <3>1. N + 1 \in DOMAIN new /\ new[N + 1]
      BY <1>1, <1>2, <2>3
    <3> QED BY <2>2, <2>3, <3>1
  <2>4. CASE ~paid
    <3>1. (\A i \in 1..(N + 1) : ~new[i]) <=> (\A i \in 1..N : ~s[i])
      <4>1. ASSUME NEW i \in 1..(N + 1) PROVE i = N + 1 \/ i \in 1..N
        BY <1>1
      <4>2. 1..N \subseteq 1..(N + 1) /\ ~new[N + 1]
        BY <1>1, <1>2, <2>4
      <4> QED BY <1>2, <4>1, <4>2
    <3> QED BY <1>2, <2>1, <2>4, <3>1
  <2> QED BY <2>3, <2>4
<1> HIDE DEF u
<1>8. Scanned(new, u, IF paid THEN round ELSE last)
  BY <1>1, <1>2, <1>5, <1>6, <1>7 DEF Scanned
<1> QED BY <1>2, <1>8 DEF new, u, N

(* Nothing is asked yet.                                                    *)
LEMMA ScannedNever == Scanned(<<>>, 0, None)
<1>1. <<>> \in Seq(BOOLEAN) /\ Len(<<>>) = 0 /\ DOMAIN <<>> = {}
  OBVIOUS
<1>2. 0 \in Addresses!UnusedRun(<<>>)
  BY DEF Addresses!UnusedRun
<1> QED BY <1>1, <1>2 DEF Scanned

\* The local variables of a discovery.
Scan(f, at, wallet, round, todo, unused, last, answers) ==
    /\ f.at = at /\ f.wallet = wallet /\ f.round = round /\ f.todo = todo
    /\ f.unused = unused /\ f.last = last /\ f.answers = answers

(* A discovery goes on.                                                     *)
LEMMA ScanGoesOn ==
    ASSUME FramesTyped, DiscoveryInv, NEW t \in Thread, Addresses!ScanNext(t)
    PROVE  \E f : frame' = [frame EXCEPT ![t] = f] /\ DiscoveryFrame(f)
<1> DEFINE f == frame[t]
           head == Head(f.todo)
           finished == f.round >= MaxScan \/ \A c \in Addresses!Chain : f.unused[c] >= GapLimit
           skipped == [f EXCEPT !.todo = Tail(@)]
           asked(a) == [f EXCEPT !.at = "balance", !.asked[head] = Append(@, a)]
           next == [f EXCEPT !.round = @ + 1, !.todo = Both]
           ended == [f EXCEPT !.at = "report"]
<1>1. f.at = "scan" /\ Discovering(f)
  BY DEF Addresses!ScanNext, DiscoveryInv, DiscoveryFrame
<1>2. /\ f = [k \in DOMAIN f |-> f[k]]
      /\ DOMAIN f = {"at", "wallet", "round", "todo", "unused", "last", "asked", "answers"}
  BY <1>1 DEF FramesTyped, ServiceFrame, AddressFrame
<1>3. \/ /\ f.todo # <<>> /\ (f.todo # Both \/ ~finished) /\ f.unused[head] >= GapLimit
         /\ frame' = [frame EXCEPT ![t] = skipped]
      \/ /\ f.todo # <<>> /\ (f.todo # Both \/ ~finished) /\ ~(f.unused[head] >= GapLimit)
         /\ \E a : frame' = [frame EXCEPT ![t] = asked(a)]
      \/ f.todo = <<>> /\ frame' = [frame EXCEPT ![t] = next]
      \/ f.todo = Both /\ finished /\ frame' = [frame EXCEPT ![t] = ended]
  BY <1>1 DEF Addresses!ScanNext, Addresses!GapReached, Addresses!NextRound, Addresses!Go, Both, Discovering
<1>4. /\ Scan(skipped, "scan", f.wallet, f.round, Tail(f.todo), f.unused, f.last, f.answers)
      /\ \A a : Scan(asked(a), "balance", f.wallet, f.round, f.todo, f.unused, f.last, f.answers)
      /\ Scan(next, "scan", f.wallet, f.round + 1, Both, f.unused, f.last, f.answers)
      /\ Scan(ended, "report", f.wallet, f.round, f.todo, f.unused, f.last, f.answers)
  BY <1>1, <1>2 DEF Scan
<1>5. /\ f.round \in Nat /\ MaxScan \in Nat /\ GapLimit \in Nat
      /\ \A c \in Addresses!Chain : f.unused[c] \in Nat
  BY <1>1, ServicesAssumption DEF Discovering, Scanned
<1>6. /\ Head(Both) = "external" /\ Tail(Both) = <<"internal">>
      /\ Head(<<"internal">>) = "internal" /\ Tail(<<"internal">>) = <<>>
      /\ Both # <<>> /\ <<"internal">> # <<>> /\ Both # <<"internal">>
  BY DEF Both
<1>7. Addresses!Chain = {"external", "internal"}
  BY DEF Addresses!Chain
<1> HIDE DEF skipped, asked, next, ended
<1>8. CASE /\ f.todo # <<>> /\ (f.todo # Both \/ ~finished) /\ f.unused[head] >= GapLimit
           /\ frame' = [frame EXCEPT ![t] = skipped]
  <2>1. f.round < MaxScan
    BY <1>1, <1>5, <1>8 DEF Discovering
  <2>2. Discovering(skipped)
    <3>1. /\ skipped.round = f.round /\ skipped.todo = Tail(f.todo) /\ skipped.unused = f.unused
          /\ skipped.last = f.last /\ skipped.answers = f.answers /\ skipped.at = "scan"
      BY <1>4 DEF Scan
    <3>2. skipped.todo \in {Both, <<"internal">>, <<>>}
      BY <1>1, <1>6, <1>8, <3>1 DEF Discovering
    <3>3. \A c \in Addresses!Chain : f.unused[c] < GapLimit => Rounds(skipped, c) = Rounds(f, c)
      <4>1. \A c \in Addresses!Chain : f.unused[c] < GapLimit => c # head
        BY <1>5, <1>8
      <4>2. CASE f.todo = Both
        <5>1. head = "external" /\ skipped.todo = <<"internal">>
          BY <1>6, <3>1, <4>2
        <5> QED BY <1>6, <1>7, <3>1, <4>1, <4>2, <5>1 DEF Rounds
      <4>3. CASE f.todo = <<"internal">>
        <5>1. head = "internal" /\ skipped.todo = <<>>
          BY <1>6, <3>1, <4>3
        <5> QED BY <1>6, <1>7, <3>1, <4>1, <4>3, <5>1 DEF Rounds
      <4> QED BY <1>1, <1>8, <4>2, <4>3 DEF Discovering
    <3> QED BY <1>1, <2>1, <3>1, <3>2, <3>3 DEF Discovering
  <2>3. DiscoveryFrame(skipped)
    BY <1>4, <2>2 DEF DiscoveryFrame, Scan
  <2> QED BY <1>8, <2>3
<1>9. CASE /\ f.todo # <<>> /\ (f.todo # Both \/ ~finished) /\ ~(f.unused[head] >= GapLimit)
           /\ \E a : frame' = [frame EXCEPT ![t] = asked(a)]
  <2>1. f.round < MaxScan
    BY <1>1, <1>5, <1>9 DEF Discovering
  <2>2. f.unused[head] < GapLimit
    <3>1. head \in Addresses!Chain
      BY <1>1, <1>6, <1>7, <1>9 DEF Discovering
    <3> QED BY <1>5, <1>9, <3>1
  <2>3. ASSUME NEW a PROVE Discovering(asked(a))
    <3>1. /\ asked(a).round = f.round /\ asked(a).todo = f.todo
          /\ asked(a).unused = f.unused /\ asked(a).last = f.last
          /\ asked(a).answers = f.answers /\ asked(a).at = "balance"
      BY <1>4 DEF Scan
    <3>2. \A c \in Addresses!Chain : Rounds(asked(a), c) = Rounds(f, c)
      BY <3>1 DEF Rounds
    <3>3. /\ asked(a).todo # <<>>
          /\ asked(a).unused[Head(asked(a).todo)] < GapLimit
      BY <1>9, <2>2, <3>1
    <3> QED BY <1>1, <2>1, <3>1, <3>2, <3>3 DEF Discovering
  <2>4. ASSUME NEW a PROVE DiscoveryFrame(asked(a))
    BY <1>4, <2>3 DEF DiscoveryFrame, Scan
  <2> QED BY <1>9, <2>4
<1>10. CASE f.todo = <<>> /\ frame' = [frame EXCEPT ![t] = next]
  <2>1. f.round < MaxScan
    BY <1>1, <1>6, <1>10 DEF Discovering
  <2>2. Discovering(next)
    BY <1>1, <1>4, <1>5, <1>6, <1>7, <1>10, <2>1 DEF Discovering, Rounds, Scan
  <2>3. DiscoveryFrame(next)
    BY <1>4, <2>2 DEF DiscoveryFrame, Scan
  <2> QED BY <1>10, <2>3
<1>11. CASE f.todo = Both /\ finished /\ frame' = [frame EXCEPT ![t] = ended]
  <2>1. f.round = MaxScan \/ \A c \in Addresses!Chain : f.unused[c] >= GapLimit
    BY <1>1, <1>5, <1>11 DEF Discovering
  <2>2. Discovering(ended)
    BY <1>1, <1>4, <1>11, <2>1 DEF Discovering, Rounds, Scan
  <2>3. DiscoveryFrame(ended)
    BY <1>4, <2>2 DEF DiscoveryFrame, Scan
  <2> QED BY <1>11, <2>3
<1> QED BY <1>3, <1>8, <1>9, <1>10, <1>11

(* An answer is noted.                                                      *)
LEMMA AnswerNoted ==
    ASSUME FramesTyped, DiscoveryInv, NEW t \in Thread, frame[t].at \in {"balance", "paid"},
           NEW paid \in BOOLEAN
    PROVE  DiscoveryFrame(Addresses!Noted(frame[t], paid))
<1> DEFINE f == frame[t]
           head == Head(f.todo)
           g == Addresses!Noted(f, paid)
           answers == [f.answers EXCEPT ![head] = Append(@, paid)]
           unused == [f.unused EXCEPT ![head] = IF paid THEN 0 ELSE @ + 1]
           last == [f.last EXCEPT ![head] = IF paid THEN f.round ELSE @]
<1>1. Discovering(f)
  BY DEF DiscoveryInv, DiscoveryFrame
<1>2. /\ f = [k \in DOMAIN f |-> f[k]]
      /\ DOMAIN f = {"at", "wallet", "round", "todo", "unused", "last", "asked", "answers"}
  BY DEF FramesTyped, ServiceFrame, AddressFrame
<1>3. Addresses!Chain = {"external", "internal"}
  BY DEF Addresses!Chain
<1>4. /\ Head(Both) = "external" /\ Tail(Both) = <<"internal">>
      /\ Head(<<"internal">>) = "internal" /\ Tail(<<"internal">>) = <<>>
      /\ Both # <<>> /\ <<"internal">> # <<>> /\ Both # <<"internal">>
  BY DEF Both
<1>5. head \in Addresses!Chain
  BY <1>1, <1>3, <1>4 DEF Discovering
<1>6. Scan(g, "scan", f.wallet, f.round, Tail(f.todo), unused, last, answers)
  <2>1. CASE paid
    <3>1. unused = [f.unused EXCEPT ![head] = 0] /\ last = [f.last EXCEPT ![head] = f.round]
      BY <2>1
    <3> QED BY <1>2, <2>1, <3>1 DEF Scan, Addresses!Noted
  <2>2. CASE ~paid
    <3>1. unused = [f.unused EXCEPT ![head] = @ + 1] /\ last = f.last
      BY <1>1, <2>2 DEF Discovering
    <3> QED BY <1>2, <2>2, <3>1 DEF Scan, Addresses!Noted
  <2> QED BY <2>1, <2>2
<1>7. /\ DOMAIN answers = Addresses!Chain /\ DOMAIN unused = Addresses!Chain
      /\ DOMAIN last = Addresses!Chain
      /\ answers = [c \in Addresses!Chain |-> answers[c]]
      /\ unused = [c \in Addresses!Chain |-> unused[c]] /\ last = [c \in Addresses!Chain |-> last[c]]
      /\ answers[head] = Append(f.answers[head], paid)
      /\ unused[head] = IF paid THEN 0 ELSE f.unused[head] + 1
      /\ last[head] = IF paid THEN f.round ELSE f.last[head]
      /\ \A c \in Addresses!Chain \ {head} :
           answers[c] = f.answers[c] /\ unused[c] = f.unused[c] /\ last[c] = f.last[c]
  BY <1>1, <1>5 DEF Discovering
<1>8. /\ Scanned(f.answers[head], f.unused[head], f.last[head]) /\ f.unused[head] < GapLimit
      /\ f.round \in Nat /\ f.round < MaxScan /\ f.todo # <<>>
      /\ Len(f.answers[head]) = Rounds(f, head)
  BY <1>1, <1>5 DEF Discovering
<1> HIDE DEF answers, unused, last, g
<1>9. Scanned(answers[head], unused[head], last[head]) /\ Len(answers[head]) = Len(f.answers[head]) + 1
  <2>1. /\ Scanned(Append(f.answers[head], paid), IF paid THEN 0 ELSE f.unused[head] + 1,
                   IF paid THEN f.round ELSE f.last[head])
        /\ Len(Append(f.answers[head], paid)) = Len(f.answers[head]) + 1
    BY <1>8, ScannedOnce
  <2> QED BY <1>7, <2>1
<1>10. \A c \in Addresses!Chain : Scanned(answers[c], unused[c], last[c])
  BY <1>1, <1>7, <1>9 DEF Discovering
<1>11. Rounds(g, head) = Rounds(f, head) + 1 /\ \A c \in Addresses!Chain \ {head} : Rounds(g, c) = Rounds(f, c)
  <2>1. CASE f.todo = Both
    <3>1. head = "external" /\ g.round = f.round /\ g.todo = <<"internal">>
      BY <1>4, <1>6, <2>1 DEF Scan
    <3> HIDE DEF f, head
    <3> QED BY <1>3, <1>4, <1>8, <2>1, <3>1 DEF Rounds
  <2>2. CASE f.todo = <<"internal">>
    <3>1. head = "internal" /\ g.round = f.round /\ g.todo = <<>>
      BY <1>4, <1>6, <2>2 DEF Scan
    <3> HIDE DEF f, head
    <3> QED BY <1>3, <1>4, <1>8, <2>2, <3>1 DEF Rounds
  <2> QED BY <1>1, <1>8, <2>1, <2>2 DEF Discovering
<1>12. \A c \in Addresses!Chain : unused[c] < GapLimit => Len(answers[c]) = Rounds(g, c)
  <2> SUFFICES ASSUME NEW c \in Addresses!Chain, unused[c] < GapLimit
               PROVE  Len(answers[c]) = Rounds(g, c)
    OBVIOUS
  <2>1. CASE c = head
    BY <1>8, <1>9, <1>11, <2>1
  <2>2. CASE c # head
    BY <1>1, <1>7, <1>11, <2>2 DEF Discovering
  <2> QED BY <2>1, <2>2
<1>13. Tail(f.todo) \in {Both, <<"internal">>, <<>>} /\ g.at = "scan"
  BY <1>1, <1>4, <1>6, <1>8 DEF Discovering, Scan
<1>14. Discovering(g)
  <2>1. /\ g.round = f.round /\ g.todo = Tail(f.todo) /\ g.unused = unused /\ g.last = last
        /\ g.answers = answers
    BY <1>6 DEF Scan
  <2>2. g.round \in Nat /\ g.round <= MaxScan /\ g.round < MaxScan
    BY <1>1, <1>8, <2>1 DEF Discovering
  <2> QED BY <1>7, <1>10, <1>12, <1>13, <2>1, <2>2 DEF Discovering
<1> QED BY <1>13, <1>14 DEF DiscoveryFrame, g

(* What is reported of a chain.                                             *)
LEMMA ReportedChain ==
    ASSUME NEW s, NEW unused, NEW last, Scanned(s, unused, last),
           unused >= GapLimit \/ Len(s) = MaxScan
    PROVE  StoppedAtGap(s, unused, last)
<1>1. s \in Seq(BOOLEAN) /\ unused \in Nat /\ GapLimit \in Nat /\ Len(s) \in Nat
  BY ServicesAssumption DEF Scanned
<1>2. unused >= GapLimit => GapLimit \in Addresses!UnusedRun(s)
  <2> SUFFICES ASSUME unused >= GapLimit PROVE GapLimit \in Addresses!UnusedRun(s)
    OBVIOUS
  <2>1. unused <= Len(s) /\ \A i \in 1..Len(s) : Len(s) - unused < i => ~s[i]
    BY <1>1, UnusedRuns DEF Scanned
  <2>2. GapLimit <= Len(s)
    BY <1>1, <2>1
  <2>3. ASSUME NEW i \in 1..Len(s), Len(s) - GapLimit < i PROVE ~s[i]
    <3>1. Len(s) - unused < i
      BY <1>1, <2>3
    <3> QED BY <2>1, <3>1
  <2> QED BY <1>1, <2>2, <2>3, UnusedRuns
<1> QED BY <1>2 DEF Scanned, StoppedAtGap

(* A step of the address service.                                           *)
LEMMA AddressStepKeeps ==
    ASSUME FramesTyped, DiscoveryInv, NEW t \in Thread, Addresses!Step(t) \/ Addresses!Request(t)
    PROVE  \E f : frame' = [frame EXCEPT ![t] = f] /\ DiscoveryFrame(f)
<1>1. CASE Addresses!GetBalance(t) \/ Addresses!MarkFound(t)
  <2> DEFINE f == frame[t]
             found == [f EXCEPT !.at = "paid"]
  <2>1. /\ f.at \in {"balance", "paid"}
        /\ \/ frame' = [frame EXCEPT ![t] = Addresses!Noted(f, TRUE)]
           \/ frame' = [frame EXCEPT ![t] = Addresses!Noted(f, FALSE)]
           \/ f.at = "balance" /\ frame' = [frame EXCEPT ![t] = found]
    BY <1>1 DEF Addresses!GetBalance, Addresses!MarkFound, Addresses!Go, Addresses!Fail
  <2>2. DiscoveryFrame(Addresses!Noted(f, TRUE)) /\ DiscoveryFrame(Addresses!Noted(f, FALSE))
    BY <2>1, AnswerNoted
  <2>3. ASSUME f.at = "balance" PROVE DiscoveryFrame(found)
    <3>1. /\ f = [k \in DOMAIN f |-> f[k]] /\ Discovering(f)
          /\ DOMAIN f = {"at", "wallet", "round", "todo", "unused", "last", "asked", "answers"}
      BY <2>3 DEF FramesTyped, ServiceFrame, AddressFrame, DiscoveryInv, DiscoveryFrame
    <3>2. Scan(found, "paid", f.wallet, f.round, f.todo, f.unused, f.last, f.answers)
      BY <3>1 DEF Scan
    <3> HIDE DEF found
    <3>3. Discovering(found)
      BY <2>3, <3>1, <3>2 DEF Discovering, Rounds, Scan
    <3> QED BY <3>2, <3>3 DEF DiscoveryFrame, Scan
  <2> QED BY <2>1, <2>2, <2>3
<1>2. CASE Addresses!Report(t)
  <2> DEFINE f == frame[t]
             g == [at |-> "discovered", asked |-> f.asked, answers |-> f.answers, last |-> f.last,
                   unused |-> f.unused]
  <2>1. f.at = "report" /\ frame' = [frame EXCEPT ![t] = g]
    BY <1>2 DEF Addresses!Report, Addresses!Go
  <2>2. Discovering(f)
    BY <2>1 DEF DiscoveryInv, DiscoveryFrame
  <2>3. ASSUME NEW c \in Addresses!Chain
        PROVE  StoppedAtGap(f.answers[c], f.unused[c], f.last[c])
    <3>1. /\ Scanned(f.answers[c], f.unused[c], f.last[c]) /\ f.todo = Both
          /\ f.unused[c] < GapLimit => Len(f.answers[c]) = Rounds(f, c)
          /\ f.round = MaxScan \/ f.unused[c] >= GapLimit
          /\ f.round \in Nat
      BY <2>1, <2>2 DEF Discovering
    <3>2. f.unused[c] \in Nat /\ GapLimit \in Nat
      BY <3>1, ServicesAssumption DEF Scanned
    <3>3. Rounds(f, c) = f.round
      BY <3>1 DEF Rounds, Both
    <3>4. f.unused[c] >= GapLimit \/ Len(f.answers[c]) = MaxScan
      BY <3>1, <3>2, <3>3
    <3> QED BY <3>1, <3>4, ReportedChain
  <2>4. DiscoveryFrame(g)
    BY <2>3 DEF DiscoveryFrame
  <2> QED BY <2>1, <2>4
<1>3. ASSUME NEW w, Addresses!Discover(t, w)
      PROVE  \E f : frame' = [frame EXCEPT ![t] = f] /\ DiscoveryFrame(f)
  <2> DEFINE f == [at |-> "scan", wallet |-> w, round |-> 0, todo |-> Both,
                   unused |-> [c \in Addresses!Chain |-> 0], last |-> [c \in Addresses!Chain |-> None],
                   asked |-> [c \in Addresses!Chain |-> <<>>],
                   answers |-> [c \in Addresses!Chain |-> <<>>]]
  <2>1. frame' = [frame EXCEPT ![t] = f]
    BY <1>3 DEF Addresses!Discover, Addresses!Call, Both
  <2>2. Scan(f, "scan", w, 0, Both, [c \in Addresses!Chain |-> 0], [c \in Addresses!Chain |-> None],
             [c \in Addresses!Chain |-> <<>>])
    BY DEF Scan
  <2> HIDE DEF f
  <2>3. Rounds(f, "external") = 0 /\ Rounds(f, "internal") = 0 /\ Len(<<>>) = 0
    BY <2>2 DEF Rounds, Scan, Both
  <2>4. MaxScan \in Nat /\ Addresses!Chain = {"external", "internal"}
    BY ServicesAssumption DEF Addresses!Chain
  <2>5. Discovering(f)
    BY <2>2, <2>3, <2>4, ScannedNever DEF Discovering, Scan
  <2>6. DiscoveryFrame(f)
    BY <2>2, <2>5 DEF DiscoveryFrame, Scan
  <2> QED BY <2>1, <2>6
<1>4. ASSUME frame' = [frame EXCEPT ![t] = [at |-> "idle"]]
      PROVE  \E f : frame' = [frame EXCEPT ![t] = f] /\ DiscoveryFrame(f)
  <2>1. DiscoveryFrame([at |-> "idle"])
    BY DEF DiscoveryFrame
  <2> QED BY <1>4, <2>1
<1>5. CASE \E w \in scope.owners :
             \/ \E count \in 1..2, c \in Addresses!Chain, d \in Derivation : Addresses!Generate(t, w, count, c, d)
             \/ \E a \in Imported : Addresses!ImportAddress(t, w, a)
             \/ \E a \in DOMAIN cache : Addresses!MarkUsed(t, a)
  BY <1>4, <1>5 DEF Addresses!Generate, Addresses!ImportAddress, Addresses!MarkUsed,
                    Addresses!Call, Addresses!Idle
<1>6. ASSUME NEW w, Addresses!GetGapInfo(t, w)
      PROVE  \E f : frame' = [frame EXCEPT ![t] = f] /\ DiscoveryFrame(f)
  <2> DEFINE f == [at |-> "gapinfo", wallet |-> w]
  <2>1. frame' = [frame EXCEPT ![t] = [at |-> "idle"]] \/ frame' = [frame EXCEPT ![t] = f]
    BY <1>6 DEF Addresses!GetGapInfo, Addresses!Call, Addresses!Idle
  <2>2. DiscoveryFrame(f)
    BY DEF DiscoveryFrame
  <2> HIDE DEF f
  <2> QED BY <1>4, <2>1, <2>2
<1>7. CASE Addresses!StoreGapInfo(t)
  BY <1>4, <1>7 DEF Addresses!StoreGapInfo, Addresses!Go, Addresses!Idle
<1> QED BY <1>1, <1>2, <1>3, <1>5, <1>6, <1>7, ScanGoesOn DEF Addresses!Step, Addresses!Request

(* Whatever is paid or emptied and whichever calls fail meanwhile, a         *)
(* discovery counts its answers right: it takes answers for a chain until    *)
(* the last GapLimit of them were without a balance, and none after that, or *)
(* one in each of its MaxScan rounds.  They may be for one address.          *)
THEOREM DiscoveryAlwaysCountsAnswers == Spec => []DiscoveryCountsAnswers
<1>1. Init => DiscoveryInv
  BY DEF Init, DiscoveryInv, DiscoveryFrame
<1>2. FramesTyped /\ DiscoveryInv /\ [Next]_vars => DiscoveryInv'
  <2> SUFFICES ASSUME FramesTyped, DiscoveryInv, [Next]_vars, NEW t \in Thread
               PROVE  DiscoveryFrame(frame'[t])
    BY DEF DiscoveryInv
  <2>1. CASE Restart
    <3>1. frame'[t].at = "idle"
      BY <2>1 DEF Restart, Wallets!Restart, Wallets!Idle
    <3> QED BY <3>1 DEF DiscoveryFrame
  <2>2. ASSUME NEW u \in Thread, Addresses!Step(u) \/ Addresses!Request(u)
        PROVE  DiscoveryFrame(frame'[t])
    <3>1. PICK f : frame' = [frame EXCEPT ![u] = f] /\ DiscoveryFrame(f)
      BY <2>2, AddressStepKeeps
    <3>2. frame'[t] = IF t = u THEN f ELSE frame[t]
      BY <3>1 DEF FramesTyped
    <3> QED BY <3>1, <3>2 DEF DiscoveryInv
  <2>3. CASE Elsewhere(AddressAts)
    <3>1. CASE frame'[t] = frame[t]
      BY <3>1 DEF DiscoveryInv
    <3>2. CASE frame'[t].at \notin AddressAts
      BY <3>2 DEF DiscoveryFrame, AddressAts
    <3> QED BY <2>3, <3>1, <3>2 DEF Elsewhere
  <2> QED BY <2>1, <2>2, <2>3, ServiceSteps
<1>3. DiscoveryInv => DiscoveryCountsAnswers
  BY DEF DiscoveryInv, DiscoveryFrame, StoppedAtGap, DiscoveryCountsAnswers, Addresses!DiscoveryCountsAnswers
<1> QED BY <1>1, <1>2, <1>3, FramesInductive, PTL DEF Spec

-----------------------------------------------------------------------------
(* The wallets and their files.                                             *)

Listed(s) == s \in Seq({s[i] : i \in DOMAIN s})

IsWallet(w) == w = [id |-> w.id, addresses |-> w.addresses, coins |-> w.coins] /\ w.id \in WalletId

\* Every wallet has an object of its own, and a file that holds a wallet holds
\* the one it is named for.
WalletsTyped ==
    /\ Listed(objects) /\ \A n \in DOMAIN objects : IsWallet(objects[n])
    /\ wallets = [id \in WalletId |-> wallets[id]]
    /\ files = [id \in WalletId |-> files[id]]
    /\ \A id \in WalletId :
         /\ wallets[id] # None => wallets[id] \in DOMAIN objects /\ objects[wallets[id]].id = id
         /\ files[id].holds = "wallet" => IsWallet(files[id].wallet) /\ files[id].wallet.id = id

\* Thread t writes the file of wallet id.
InFile(t, id) ==
    /\ frame[t].at = "write" /\ frame[t].linked
    /\ objects[frame[t].object].id = id

Deleting(id) == \E t \in Thread : frame[t].at = "unlink" /\ frame[t].id = id

\* A thread that writes a file unless it is spoiled is the only one, and saves
\* the wallet or is about to lose the file.  One that deletes has the lock.
WalletCall(t) ==
    LET f == frame[t]
    IN /\ f.at \in {"open", "write", "listunspent", "getnewaddress"} => f.object \in DOMAIN objects
       /\ f.at = "unlink" => f.id \in WalletId /\ walletLock = t /\ wallets[f.id] = None
       /\ \A id \in WalletId : InFile(t, id) =>
            /\ f.alone => \A u \in Thread \ {t} : ~InFile(u, id)
            /\ id \in spoiled \/ (f.alone /\ (wallets[id] = f.object \/ Deleting(id)))

\* The file of a wallet is as the wallet is.
Saved(id) ==
    IF wallets[id] = None THEN files[id].holds # "wallet"
    ELSE /\ files[id].holds = "wallet"
         /\ files[id].wallet.addresses = objects[wallets[id]].addresses

WalletsInv ==
    /\ WalletsTyped
    /\ \A t \in Thread : WalletCall(t)
    /\ \A id \in WalletId : Saving(id) \/ id \in spoiled \/ Saved(id)

(* Lists grow by one, and may be rewritten.                                  *)
LEMMA ListAppended ==
    ASSUME NEW s, Listed(s), NEW e
    PROVE  /\ Listed(Append(s, e)) /\ DOMAIN Append(s, e) = 1..(Len(s) + 1)
           /\ DOMAIN s = 1..Len(s) /\ Len(s) \in Nat /\ Len(Append(s, e)) = Len(s) + 1
           /\ Append(s, e)[Len(s) + 1] = e /\ \A i \in DOMAIN s : Append(s, e)[i] = s[i]
<1> DEFINE S == {s[i] : i \in DOMAIN s}
           r == Append(s, e)
<1>1. s \in Seq(S) /\ DOMAIN s = 1..Len(s) /\ Len(s) \in Nat
  BY DEF Listed
<1>2. s \in Seq(S \cup {e})
  <2>1. \A i \in 1..Len(s) : s[i] \in S \cup {e}
    BY <1>1
  <2> QED BY <1>1, <2>1
<1>3. /\ r \in Seq(S \cup {e}) /\ Len(r) = Len(s) + 1 /\ DOMAIN r = 1..(Len(s) + 1)
      /\ r[Len(s) + 1] = e /\ \A i \in 1..Len(s) : r[i] = s[i]
  BY <1>1, <1>2
<1>4. r \in Seq({r[i] : i \in DOMAIN r})
  BY <1>3
<1> QED BY <1>1, <1>3, <1>4 DEF Listed

LEMMA ListMade ==
    ASSUME NEW n \in Nat, NEW r, r = [i \in 1..n |-> r[i]]
    PROVE  Listed(r) /\ DOMAIN r = 1..n /\ Len(r) = n
<1>1. r \in [1..n -> {r[i] : i \in 1..n}] /\ DOMAIN r = 1..n
  OBVIOUS
<1>2. r \in Seq({r[i] : i \in DOMAIN r})
  BY <1>1
<1>3. Len(r) = n
  BY <1>1
<1> QED BY <1>1, <1>2, <1>3 DEF Listed

(* What happens elsewhere leaves the wallets alone.                         *)
LEMMA WalletsUntouched ==
    ASSUME WalletsInv, UNCHANGED <<objects, wallets, stats, files, walletLock, spoiled>>,
           Elsewhere(WalletAts)
    PROVE  WalletsInv'
<1>1. \A t \in Thread :
         \/ frame'[t] = frame[t]
         \/ /\ frame'[t].at \notin {"open", "write", "unlink", "listunspent", "getnewaddress"}
            /\ frame[t].at \notin {"open", "write", "unlink", "listunspent", "getnewaddress"}
  BY DEF Elsewhere, WalletAts, Resting
<1>2. /\ objects' = objects /\ wallets' = wallets /\ files' = files /\ walletLock' = walletLock
      /\ spoiled' = spoiled
  OBVIOUS
<1>3. \A t \in Thread, id \in WalletId : InFile(t, id)' = InFile(t, id)
  BY <1>1, <1>2 DEF InFile
<1>4. \A id \in WalletId : (Deleting(id)' = Deleting(id)) /\ (Saving(id)' = Saving(id))
  BY <1>1, <1>2 DEF Deleting, Saving, Wallets!Writers
<1>5. WalletsTyped'
  BY <1>2 DEF WalletsInv, WalletsTyped, IsWallet, Listed
<1>6. ASSUME NEW t \in Thread PROVE WalletCall(t)'
  <2>1. WalletCall(t)
    BY DEF WalletsInv
  <2>2. CASE frame'[t] = frame[t]
    <3>1. ASSUME NEW id \in WalletId, InFile(t, id)'
          PROVE  /\ frame'[t].alone => \A u \in Thread \ {t} : ~InFile(u, id)'
                 /\ id \in spoiled' \/ (frame'[t].alone /\ (wallets'[id] = frame'[t].object \/ Deleting(id)'))
      BY <1>2, <1>3, <1>4, <2>1, <2>2, <3>1 DEF WalletCall
    <3> QED BY <1>2, <2>1, <2>2, <3>1 DEF WalletCall
  <2>3. CASE frame'[t].at \notin {"open", "write", "unlink", "listunspent", "getnewaddress"}
    <3>1. \A id \in WalletId : ~InFile(t, id)'
      BY <2>3 DEF InFile
    <3> QED BY <2>3, <3>1 DEF WalletCall
  <2> QED BY <1>1, <2>2, <2>3
<1>7. \A id \in WalletId : (Saving(id) \/ id \in spoiled \/ Saved(id))'
  BY <1>2, <1>4 DEF WalletsInv, Saved
<1> QED BY <1>5, <1>6, <1>7 DEF WalletsInv

(* The wallets at first.                                                    *)
LEMMA WalletsInitially == Init => WalletsInv
<1> SUFFICES ASSUME Init PROVE WalletsInv
  OBVIOUS
<1>1. /\ objects = <<>> /\ wallets = [id \in WalletId |-> None]
      /\ files = [id \in WalletId |-> [holds |-> "nothing"]]
      /\ \A t \in Thread : frame[t].at = "idle"
  BY DEF Init, Wallets!Init, Wallets!Missing
<1>2. WalletsTyped
  BY <1>1 DEF WalletsTyped, Listed
<1>3. \A t \in Thread : WalletCall(t)
  BY <1>1 DEF WalletCall, InFile
<1>4. \A id \in WalletId : Saved(id)
  BY <1>1 DEF Saved
<1> QED BY <1>2, <1>3, <1>4 DEF WalletsInv

\* What a step of thread t that goes on as f, and touches no file, does to a
\* wallet: it goes on to save it or to delete it, or it leaves it as it is.
WalletMoved(f, id) ==
    \/ /\ f.at = "open" /\ objects'[f.object].id = id
       /\ wallets'[id] = wallets[id] \/ wallets[id] = None
    \/ f.at = "unlink" /\ f.id = id /\ wallets'[id] = None
    \/ /\ f.at = "unlink" => f.id # id
       /\ wallets'[id] = wallets[id]
       /\ wallets[id] # None => objects'[wallets[id]].addresses = objects[wallets[id]].addresses

(* A step that touches no file keeps the invariant.                          *)
LEMMA WalletsKept ==
    ASSUME FramesTyped, WalletsInv, NEW t \in Thread, NEW f,
           frame' = [frame EXCEPT ![t] = f],
           frame[t].at \notin {"open", "write", "unlink"}, f.at # "write",
           files' = files, spoiled' = spoiled,
           WalletsTyped', DOMAIN objects \subseteq DOMAIN objects',
           \A n \in DOMAIN objects : objects'[n].id = objects[n].id,
           f.at \in {"open", "listunspent", "getnewaddress"} => f.object \in DOMAIN objects',
           f.at = "unlink" => f.id \in WalletId /\ walletLock' = t,
           (wallets' = wallets /\ walletLock' = walletLock) \/ walletLock = None,
           \A id \in WalletId : WalletMoved(f, id)
    PROVE  WalletsInv'
<1>1. frame'[t] = f /\ \A u \in Thread \ {t} : frame'[u] = frame[u]
  BY DEF FramesTyped
<1>2. \A u \in Thread : WalletCall(u)
  BY DEF WalletsInv
<1>3. \A u \in Thread, id \in WalletId : InFile(u, id)' <=> InFile(u, id)
  <2> SUFFICES ASSUME NEW u \in Thread, NEW id \in WalletId PROVE InFile(u, id)' <=> InFile(u, id)
    OBVIOUS
  <2>1. CASE u = t
    BY <1>1, <2>1 DEF InFile
  <2>2. CASE u # t
    <3>1. frame[u].at = "write" => frame[u].object \in DOMAIN objects
      BY <1>2 DEF WalletCall
    <3> QED BY <1>1, <2>2, <3>1 DEF InFile
  <2> QED BY <2>1, <2>2
<1>4. \A id \in WalletId : Deleting(id) => Deleting(id)'
  BY <1>1 DEF Deleting
<1>5. \A id \in WalletId : Saving(id) => Saving(id)'
  <2> SUFFICES ASSUME NEW id \in WalletId, NEW u \in Thread,
                      \/ frame[u].at = "open" /\ objects[frame[u].object].id = id
                      \/ frame[u].at = "write" /\ frame[u].linked /\ objects[frame[u].object].id = id
                      \/ frame[u].at = "unlink" /\ frame[u].id = id
               PROVE  Saving(id)'
    BY DEF Saving, Wallets!Writers
  <2>1. u # t /\ frame'[u] = frame[u]
    BY <1>1
  <2>2. frame[u].at \in {"open", "write"} => objects'[frame[u].object].id = objects[frame[u].object].id
    BY <1>2 DEF WalletCall
  <2> QED BY <2>1, <2>2 DEF Saving, Wallets!Writers
<1>6. ASSUME NEW u \in Thread, NEW id \in WalletId, InFile(u, id)'
      PROVE  /\ frame'[u].alone => \A v \in Thread \ {u} : ~InFile(v, id)'
             /\ id \in spoiled' \/ (frame'[u].alone /\ (wallets'[id] = frame'[u].object \/ Deleting(id)'))
  <2>1. InFile(u, id) /\ u # t /\ frame'[u] = frame[u]
    BY <1>1, <1>3, <1>6 DEF InFile
  <2>2. frame[u].alone => \A v \in Thread \ {u} : ~InFile(v, id)
    BY <1>2, <2>1 DEF WalletCall
  <2>3. id \in spoiled \/ (frame[u].alone /\ (wallets[id] = frame[u].object \/ Deleting(id)))
    BY <1>2, <2>1 DEF WalletCall
  <2>4. ASSUME wallets[id] = frame[u].object PROVE wallets'[id] = frame[u].object \/ Deleting(id)'
    <3>1. frame[u].object \in DOMAIN objects /\ frame[u].object \in Nat
      BY <1>2, <2>1, ListMade DEF WalletCall, InFile, WalletsInv, WalletsTyped, Listed
    <3>2. wallets[id] # None
      BY <2>4, <3>1, ServicesAssumption
    <3>3. WalletMoved(f, id)
      OBVIOUS
    <3> QED BY <1>1, <2>4, <3>2, <3>3 DEF WalletMoved, Deleting
  <2> QED BY <1>3, <1>4, <2>1, <2>2, <2>3, <2>4
<1>7. ASSUME NEW u \in Thread PROVE WalletCall(u)'
  <2>1. frame'[u].at \in {"open", "write", "listunspent", "getnewaddress"} => frame'[u].object \in DOMAIN objects'
    BY <1>1, <1>2 DEF WalletCall
  <2>2. frame'[u].at = "unlink" => /\ frame'[u].id \in WalletId /\ walletLock' = u
                                   /\ wallets'[frame'[u].id] = None
    <3>1. CASE u = t
      <4>1. ASSUME f.at = "unlink" PROVE wallets'[f.id] = None
        BY <4>1 DEF WalletMoved
      <4> QED BY <1>1, <3>1, <4>1
    <3>2. CASE u # t
      <4>1. walletLock = u => walletLock # None
        BY ServicesAssumption
      <4> QED BY <1>1, <1>2, <3>2, <4>1 DEF WalletCall
    <3> QED BY <3>1, <3>2
  <2> QED BY <1>6, <2>1, <2>2 DEF WalletCall
<1>8. ASSUME NEW id \in WalletId PROVE (Saving(id) \/ id \in spoiled \/ Saved(id))'
  <2>1. CASE f.at = "open" /\ objects'[f.object].id = id
    BY <1>1, <2>1 DEF Saving
  <2>2. CASE f.at = "unlink" /\ f.id = id
    BY <1>1, <2>2 DEF Saving
  <2>3. CASE /\ wallets'[id] = wallets[id]
             /\ wallets[id] # None => objects'[wallets[id]].addresses = objects[wallets[id]].addresses
    <3>1. Saved(id) => Saved(id)'
      BY <2>3 DEF Saved
    <3> QED BY <1>5, <3>1 DEF WalletsInv
  <2>4. WalletMoved(f, id)
    OBVIOUS
  <2> QED BY <2>1, <2>2, <2>3, <2>4 DEF WalletMoved
<1> QED BY <1>7, <1>8 DEF WalletsInv

(* Typing when an object changes, or nothing does.                          *)
LEMMA ObjectChanged ==
    ASSUME WalletsTyped, NEW n \in DOMAIN objects, NEW w, IsWallet(w), w.id = objects[n].id,
           objects' = [objects EXCEPT ![n] = w], wallets' = wallets, files' = files
    PROVE  /\ WalletsTyped' /\ DOMAIN objects' = DOMAIN objects /\ objects'[n] = w
           /\ \A m \in DOMAIN objects : objects'[m].id = objects[m].id
           /\ \A m \in DOMAIN objects : m # n => objects'[m] = objects[m]
<1>1. DOMAIN objects = 1..Len(objects) /\ Len(objects) \in Nat
  BY DEF WalletsTyped, Listed
<1>2. objects' = [m \in 1..Len(objects) |-> IF m = n THEN w ELSE objects[m]]
  BY <1>1 DEF WalletsTyped, Listed
<1>3. objects' = [m \in 1..Len(objects) |-> objects'[m]]
  BY <1>2
<1>4. Listed(objects') /\ DOMAIN objects' = DOMAIN objects
  BY <1>1, <1>3, ListMade
<1>5. \A m \in DOMAIN objects : /\ IsWallet(objects'[m]) /\ objects'[m].id = objects[m].id
                                /\ objects'[m] = IF m = n THEN w ELSE objects[m]
  BY <1>1, <1>2 DEF WalletsTyped
<1>6. WalletsTyped'
  <2>1. Listed(objects)'
    BY <1>4 DEF Listed
  <2>2. \A m \in DOMAIN objects' : IsWallet(objects[m])'
    BY <1>4, <1>5 DEF IsWallet
  <2>3. \A id \in WalletId : wallets'[id] # None =>
            wallets'[id] \in DOMAIN objects' /\ objects'[wallets'[id]].id = id
    BY <1>4, <1>5 DEF WalletsTyped
  <2>4. \A id \in WalletId : files'[id].holds = "wallet" =>
            IsWallet(files[id].wallet)' /\ files'[id].wallet.id = id
    BY DEF WalletsTyped, IsWallet
  <2>5. wallets' = [id \in WalletId |-> wallets'[id]] /\ files' = [id \in WalletId |-> files'[id]]
    BY DEF WalletsTyped
  <2> QED BY <2>1, <2>2, <2>3, <2>4, <2>5 DEF WalletsTyped
<1> QED BY <1>4, <1>5, <1>6

LEMMA WalletsSame ==
    ASSUME WalletsTyped, UNCHANGED <<objects, wallets, files>>
    PROVE  WalletsTyped'
  BY DEF WalletsTyped, IsWallet, Listed

(* A step that only looks keeps the invariant.                               *)
LEMMA WalletsLookedAt ==
    ASSUME FramesTyped, WalletsInv, NEW t \in Thread, NEW f,
           frame' = [frame EXCEPT ![t] = f],
           frame[t].at \notin {"open", "write", "unlink"}, f.at \notin {"open", "write", "unlink"},
           f.at \in {"listunspent", "getnewaddress"} => f.object \in DOMAIN objects,
           UNCHANGED <<objects, wallets, files, walletLock, spoiled>>
    PROVE  WalletsInv'
<1>1. WalletsTyped'
  BY WalletsSame DEF WalletsInv
<1>2. \A id \in WalletId : WalletMoved(f, id)
  BY DEF WalletMoved
<1> QED BY <1>1, <1>2, WalletsKept

(* A step that goes on to save an object whose addresses may be new.         *)
LEMMA WalletsToSave ==
    ASSUME FramesTyped, WalletsInv, NEW t \in Thread, NEW then, NEW n \in DOMAIN objects,
           NEW w, IsWallet(w), w.id = objects[n].id,
           frame' = [frame EXCEPT ![t] = Wallets!SaveThen(n, then)],
           frame[t].at \notin {"open", "write", "unlink"},
           objects' = [objects EXCEPT ![n] = w],
           UNCHANGED <<wallets, files, walletLock, spoiled>>
    PROVE  WalletsInv'
<1> DEFINE f == Wallets!SaveThen(n, then)
<1>1. f.at = "open" /\ f.object = n
  BY DEF Wallets!SaveThen
<1>2. /\ WalletsTyped' /\ DOMAIN objects' = DOMAIN objects /\ objects'[n] = w
      /\ \A m \in DOMAIN objects : objects'[m].id = objects[m].id
      /\ \A m \in DOMAIN objects : m # n => objects'[m] = objects[m]
  BY ObjectChanged DEF WalletsInv
<1> HIDE DEF f
<1>3. ASSUME NEW id \in WalletId PROVE WalletMoved(f, id)
  <2>1. CASE objects[n].id = id
    BY <1>1, <1>2, <2>1 DEF WalletMoved
  <2>2. CASE objects[n].id # id
    <3>1. wallets[id] # None => wallets[id] \in DOMAIN objects /\ wallets[id] # n
      BY <2>2 DEF WalletsInv, WalletsTyped
    <3> QED BY <1>1, <1>2, <3>1 DEF WalletMoved
  <2> QED BY <2>1, <2>2
<1> QED BY <1>1, <1>2, <1>3, WalletsKept DEF f

(* Synchronising looks at the object of a wallet.                            *)
LEMMA SyncingObject ==
    ASSUME WalletsInv, NEW id \in Wallets!Live, NEW force, NEW then
    PROVE  /\ Wallets!Syncing(id, force, then).at = "listunspent"
           /\ Wallets!Syncing(id, force, then).object = wallets[id]
           /\ id \in WalletId /\ wallets[id] \in DOMAIN objects /\ objects[wallets[id]].id = id
           /\ IsWallet(objects[wallets[id]])
  BY DEF Wallets!Syncing, Wallets!Live, WalletsInv, WalletsTyped

(* The node answers listunspent, or a new address.                           *)
LEMMA ListUnspentKeepsWallets ==
    ASSUME FramesTyped, WalletsInv, NEW t \in Thread, Wallets!ListUnspent(t)
    PROVE  WalletsInv'
<1> DEFINE g == frame[t]
           then == g.then
<1>1. g.at = "listunspent" /\ g.object \in DOMAIN objects
  BY DEF Wallets!ListUnspent, WalletsInv, WalletCall
<1>2. Onward(then)
  BY <1>1 DEF FramesTyped, ServiceFrame, WalletFrame
<1>3. then.at \in {"idle", "select", "each"}
  BY <1>2 DEF Onward
<1>4. IsWallet(objects[g.object])
  BY <1>1 DEF WalletsInv, WalletsTyped
<1> HIDE DEF then
<1>5. PICK answer :
         /\ \/ /\ objects' = [objects EXCEPT ![g.object].coins = answer]
               /\ \/ frame' = [frame EXCEPT ![t] = then]
                  \/ frame' = [frame EXCEPT ![t] = Wallets!SaveThen(g.object, then)]
            \/ frame' = [frame EXCEPT ![t] = then] /\ objects' = objects
         /\ UNCHANGED <<wallets, files, walletLock, spoiled>>
  BY DEF Wallets!ListUnspent, Wallets!Go, Wallets!Fail, then
<1>6. CASE frame' = [frame EXCEPT ![t] = then] /\ objects' = objects
  BY <1>1, <1>3, <1>5, <1>6, WalletsLookedAt
<1> DEFINE w == [objects[g.object] EXCEPT !.coins = answer]
<1>7. IsWallet(w) /\ w.id = objects[g.object].id /\ w.addresses = objects[g.object].addresses
  BY <1>4 DEF IsWallet
<1>8. ASSUME objects' = [objects EXCEPT ![g.object].coins = answer]
      PROVE  objects' = [objects EXCEPT ![g.object] = w]
  BY <1>8
<1> HIDE DEF w
<1>9. CASE /\ objects' = [objects EXCEPT ![g.object].coins = answer]
           /\ frame' = [frame EXCEPT ![t] = Wallets!SaveThen(g.object, then)]
  BY <1>1, <1>5, <1>7, <1>8, <1>9, WalletsToSave
<1>10. CASE /\ objects' = [objects EXCEPT ![g.object].coins = answer]
            /\ frame' = [frame EXCEPT ![t] = then]
  <2>1. /\ WalletsTyped' /\ DOMAIN objects' = DOMAIN objects /\ objects'[g.object] = w
        /\ \A m \in DOMAIN objects : objects'[m].id = objects[m].id
        /\ \A m \in DOMAIN objects : m # g.object => objects'[m] = objects[m]
    BY <1>1, <1>5, <1>7, <1>8, <1>10, ObjectChanged DEF WalletsInv
  <2>2. ASSUME NEW id \in WalletId PROVE WalletMoved(then, id)
    <3>1. wallets[id] # None => wallets[id] \in DOMAIN objects
      BY DEF WalletsInv, WalletsTyped
    <3>2. wallets[id] # None => objects'[wallets[id]].addresses = objects[wallets[id]].addresses
      BY <1>7, <2>1, <3>1
    <3> QED BY <1>3, <1>5, <3>2 DEF WalletMoved
  <2> QED BY <1>1, <1>3, <1>5, <1>10, <2>1, <2>2, WalletsKept
<1> QED BY <1>5, <1>6, <1>9, <1>10

LEMMA GetNewAddressKeepsWallets ==
    ASSUME FramesTyped, WalletsInv, NEW t \in Thread, Wallets!GetNewAddress(t)
    PROVE  WalletsInv'
<1> DEFINE g == frame[t]
<1>1. g.at = "getnewaddress" /\ g.object \in DOMAIN objects
  BY DEF Wallets!GetNewAddress, WalletsInv, WalletCall
<1>2. IsWallet(objects[g.object])
  BY <1>1 DEF WalletsInv, WalletsTyped
<1>3. /\ \/ \E a : /\ objects' = [objects EXCEPT ![g.object].addresses = @ \cup {a}]
                   /\ frame' = [frame EXCEPT ![t] = Wallets!SaveThen(g.object, Wallets!Idle)]
         \/ frame' = [frame EXCEPT ![t] = Wallets!Idle] /\ objects' = objects
      /\ UNCHANGED <<wallets, files, walletLock, spoiled>>
  BY DEF Wallets!GetNewAddress, Wallets!Go, Wallets!Fail
<1>4. CASE frame' = [frame EXCEPT ![t] = Wallets!Idle] /\ objects' = objects
  <2>1. Wallets!Idle.at = "idle"
    BY DEF Wallets!Idle
  <2> QED BY <1>1, <1>3, <1>4, <2>1, WalletsLookedAt
<1>5. ASSUME NEW a, objects' = [objects EXCEPT ![g.object].addresses = @ \cup {a}],
             frame' = [frame EXCEPT ![t] = Wallets!SaveThen(g.object, Wallets!Idle)]
      PROVE  WalletsInv'
  <2> DEFINE w == [objects[g.object] EXCEPT !.addresses = @ \cup {a}]
  <2>1. IsWallet(w) /\ w.id = objects[g.object].id
    BY <1>2 DEF IsWallet
  <2>2. objects' = [objects EXCEPT ![g.object] = w]
    BY <1>5
  <2> HIDE DEF w
  <2> QED BY <1>1, <1>3, <1>5, <2>1, <2>2, WalletsToSave
<1> QED BY <1>3, <1>4, <1>5

(* Wallets are created, deleted, changed and looked at.                      *)
LEMMA CreateKeepsWallets ==
    ASSUME FramesTyped, WalletsInv, NEW t \in Thread, NEW id \in WalletId, NEW a,
           Wallets!CreateWallet(t, id, a)
    PROVE  WalletsInv'
<1>1. frame[t].at \notin {"open", "write", "unlink"}
  BY DEF Wallets!CreateWallet, Wallets!Call, Wallets!Ready
<1>2. CASE id \in Wallets!Live
  <2>1. Wallets!Idle.at = "idle"
    BY DEF Wallets!Idle
  <2>2. /\ frame' = [frame EXCEPT ![t] = Wallets!Idle]
        /\ UNCHANGED <<objects, wallets, files, walletLock, spoiled>>
    BY <1>2 DEF Wallets!CreateWallet, Wallets!Call
  <2> QED BY <1>1, <2>1, <2>2, WalletsLookedAt
<1>3. CASE id \notin Wallets!Live
  <2> DEFINE w == [id |-> id, addresses |-> a, coins |-> <<>>]
             n == Len(objects')
             f == Wallets!SaveThen(n, Wallets!Idle)
  <2>1. /\ walletLock = None /\ walletLock' = t /\ files' = files /\ spoiled' = spoiled
        /\ objects' = Append(objects, w) /\ wallets' = [wallets EXCEPT ![id] = n]
        /\ frame' = [frame EXCEPT ![t] = f]
    BY <1>3 DEF Wallets!CreateWallet, Wallets!Call
  <2>2. wallets[id] = None
    BY <1>3 DEF Wallets!Live
  <2>3. f.at = "open" /\ f.object = n
    BY DEF Wallets!SaveThen
  <2>4. IsWallet(w) /\ w.id = id
    BY DEF IsWallet
  <2> HIDE DEF w, f
  <2>5. /\ Listed(objects') /\ DOMAIN objects' = 1..(Len(objects) + 1) /\ n = Len(objects) + 1
        /\ DOMAIN objects = 1..Len(objects) /\ Len(objects) \in Nat
        /\ objects'[n] = w /\ \A m \in DOMAIN objects : objects'[m] = objects[m]
    BY <2>1, ListAppended DEF WalletsInv, WalletsTyped
  <2> HIDE DEF n
  <2>6. DOMAIN objects \subseteq DOMAIN objects' /\ n \in DOMAIN objects'
    BY <2>5
  <2>7. WalletsTyped'
    <3>1. Listed(objects)'
      BY <2>5 DEF Listed
    <3>2. \A m \in DOMAIN objects' : IsWallet(objects[m])'
      <4> SUFFICES ASSUME NEW m \in DOMAIN objects' PROVE IsWallet(objects'[m])
        BY DEF IsWallet
      <4>1. m = n \/ m \in DOMAIN objects
        BY <2>5
      <4> QED BY <2>4, <2>5, <4>1 DEF WalletsInv, WalletsTyped
    <3>3. wallets' = [i \in WalletId |-> IF i = id THEN n ELSE wallets[i]]
      BY <2>1 DEF WalletsInv, WalletsTyped
    <3>4. ASSUME NEW i \in WalletId, wallets'[i] # None
          PROVE  wallets'[i] \in DOMAIN objects' /\ objects'[wallets'[i]].id = i
      <4>1. CASE i = id
        BY <2>4, <2>5, <2>6, <3>3, <4>1
      <4>2. CASE i # id
        BY <2>5, <2>6, <3>3, <3>4, <4>2 DEF WalletsInv, WalletsTyped
      <4> QED BY <4>1, <4>2
    <3>5. \A i \in WalletId : files'[i].holds = "wallet" =>
              IsWallet(files[i].wallet)' /\ files'[i].wallet.id = i
      BY <2>1 DEF WalletsInv, WalletsTyped, IsWallet
    <3>6. wallets' = [i \in WalletId |-> wallets'[i]] /\ files' = [i \in WalletId |-> files'[i]]
      BY <2>1, <3>3 DEF WalletsInv, WalletsTyped
    <3> QED BY <3>1, <3>2, <3>4, <3>5, <3>6 DEF WalletsTyped
  <2>8. ASSUME NEW i \in WalletId PROVE WalletMoved(f, i)
    <3>1. CASE i = id
      BY <2>2, <2>3, <2>4, <2>5, <3>1 DEF WalletMoved
    <3>2. CASE i # id
      <4>1. wallets'[i] = wallets[i]
        BY <2>1, <3>2 DEF WalletsInv, WalletsTyped
      <4>2. wallets[i] # None => wallets[i] \in DOMAIN objects
        BY DEF WalletsInv, WalletsTyped
      <4> QED BY <2>3, <2>5, <4>1, <4>2 DEF WalletMoved
    <3> QED BY <3>1, <3>2
  <2> QED BY <1>1, <2>1, <2>3, <2>5, <2>6, <2>7, <2>8, WalletsKept
<1> QED BY <1>2, <1>3

LEMMA DeleteKeepsWallets ==
    ASSUME FramesTyped, WalletsInv, NEW t \in Thread, NEW id \in WalletId,
           Wallets!DeleteWallet(t, id)
    PROVE  WalletsInv'
<1>1. frame[t].at \notin {"open", "write", "unlink"}
  BY DEF Wallets!DeleteWallet, Wallets!Call, Wallets!Ready
<1>2. CASE id \notin Wallets!Live
  <2>1. Wallets!Idle.at = "idle"
    BY DEF Wallets!Idle
  <2>2. /\ frame' = [frame EXCEPT ![t] = Wallets!Idle]
        /\ UNCHANGED <<objects, wallets, files, walletLock, spoiled>>
    BY <1>2 DEF Wallets!DeleteWallet, Wallets!Call
  <2> QED BY <1>1, <2>1, <2>2, WalletsLookedAt
<1>3. CASE id \in Wallets!Live
  <2> DEFINE f == [at |-> "unlink", id |-> id]
  <2>1. /\ walletLock = None /\ walletLock' = t /\ files' = files /\ spoiled' = spoiled
        /\ objects' = objects /\ wallets' = [wallets EXCEPT ![id] = None]
        /\ frame' = [frame EXCEPT ![t] = f]
    BY <1>3 DEF Wallets!DeleteWallet, Wallets!Call
  <2>2. f.at = "unlink" /\ f.id = id
    OBVIOUS
  <2> HIDE DEF f
  <2>3. wallets' = [i \in WalletId |-> IF i = id THEN None ELSE wallets[i]]
    BY <2>1 DEF WalletsInv, WalletsTyped
  <2>4. WalletsTyped'
    BY <2>1, <2>3 DEF WalletsInv, WalletsTyped, IsWallet, Listed
  <2>5. \A i \in WalletId : WalletMoved(f, i)
    BY <2>1, <2>2, <2>3 DEF WalletMoved
  <2> QED BY <1>1, <2>1, <2>2, <2>4, <2>5, WalletsKept
<1> QED BY <1>2, <1>3

LEMMA AddAddressKeepsWallets ==
    ASSUME FramesTyped, WalletsInv, NEW t \in Thread, NEW id \in WalletId, NEW a,
           Wallets!AddAddress(t, id, a)
    PROVE  WalletsInv'
<1>1. frame[t].at \notin {"open", "write", "unlink"}
  BY DEF Wallets!AddAddress, Wallets!Call, Wallets!Ready
<1>2. /\ UNCHANGED <<wallets, files, walletLock, spoiled>>
      /\ \/ frame' = [frame EXCEPT ![t] = Wallets!Idle] /\ objects' = objects
         \/ /\ id \in Wallets!Live
            /\ objects' = [objects EXCEPT ![wallets[id]].addresses = @ \cup {a}]
            /\ frame' = [frame EXCEPT ![t] = Wallets!SaveThen(wallets[id], Wallets!Idle)]
  BY DEF Wallets!AddAddress, Wallets!Call
<1>3. CASE frame' = [frame EXCEPT ![t] = Wallets!Idle] /\ objects' = objects
  <2>1. Wallets!Idle.at = "idle"
    BY DEF Wallets!Idle
  <2> QED BY <1>1, <1>2, <1>3, <2>1, WalletsLookedAt
<1>4. CASE /\ id \in Wallets!Live
           /\ objects' = [objects EXCEPT ![wallets[id]].addresses = @ \cup {a}]
           /\ frame' = [frame EXCEPT ![t] = Wallets!SaveThen(wallets[id], Wallets!Idle)]
  <2> DEFINE n == wallets[id]
             w == [objects[n] EXCEPT !.addresses = @ \cup {a}]
  <2>1. n \in DOMAIN objects /\ IsWallet(objects[n])
    BY <1>4, SyncingObject
  <2>2. IsWallet(w) /\ w.id = objects[n].id
    BY <2>1 DEF IsWallet
  <2>3. objects' = [objects EXCEPT ![n] = w]
    BY <1>4
  <2> HIDE DEF w
  <2> QED BY <1>1, <1>2, <1>4, <2>1, <2>2, <2>3, WalletsToSave
<1> QED BY <1>2, <1>3, <1>4

LEMMA LookingCalls ==
    ASSUME FramesTyped, WalletsInv, NEW t \in Thread, NEW id \in WalletId,
           \/ \E force : Wallets!SyncWallet(t, id, force)
           \/ Wallets!GenerateAddress(t, id)
           \/ \E p : Wallets!SelectCoins(t, id, p) \/ Wallets!SelectOwn(t, id, p)
           \/ Wallets!SyncAll(t)
    PROVE  WalletsInv'
<1> DEFINE sync(force, then) == Wallets!Syncing(id, force, then)
           choose(q) == [at |-> "select", id |-> id, payment |-> q]
           new == [at |-> "getnewaddress", object |-> wallets[id]]
           each(size) == [at |-> "each", todo |-> Wallets!Live, size |-> size]
           idle == Wallets!Idle
           Called(f) == \E kind : Wallets!Call(t, kind, f)
<1>1. /\ \A q : choose(q).at = "select"
      /\ \A size : each(size).at = "each"
      /\ new.at = "getnewaddress" /\ new.object = wallets[id]
      /\ idle.at = "idle"
  BY DEF Wallets!Idle
<1>2. UNCHANGED <<objects, wallets, files, walletLock, spoiled>>
  BY DEF Wallets!SyncWallet, Wallets!GenerateAddress, Wallets!SelectCoins, Wallets!SelectOwn,
         Wallets!SyncAll, Wallets!storeVars
<1>3. \/ Called(idle)
      \/ id \in Wallets!Live /\ \E force, then : Called(sync(force, then))
      \/ \E q : Called(choose(q))
      \/ id \in Wallets!Live /\ Called(new)
      \/ \E size : Called(each(size))
  <2> HIDE DEF Wallets!Call
  <2>1. ASSUME NEW force, Wallets!SyncWallet(t, id, force)
        PROVE  Called(idle) \/ (id \in Wallets!Live /\ Called(sync(force, idle)))
    BY <2>1 DEF Wallets!SyncWallet
  <2>2. ASSUME Wallets!GenerateAddress(t, id)
        PROVE  Called(idle) \/ (id \in Wallets!Live /\ Called(new))
    BY <2>2 DEF Wallets!GenerateAddress
  <2>3. ASSUME NEW p, Wallets!SelectCoins(t, id, p)
        PROVE  \/ Called(idle)
               \/ \E q : Called(choose(q)) \/ (id \in Wallets!Live /\ Called(sync(FALSE, choose(q))))
    BY <2>3 DEF Wallets!SelectCoins
  <2>4. ASSUME NEW p, Wallets!SelectOwn(t, id, p) PROVE Called(choose(p))
    BY <2>4 DEF Wallets!SelectOwn
  <2>5. ASSUME Wallets!SyncAll(t) PROVE \E size : Called(each(size))
    BY <2>5 DEF Wallets!SyncAll
  <2> HIDE DEF Called, sync, choose, new, each, idle
  <2> QED BY <2>1, <2>2, <2>3, <2>4, <2>5
<1>4. ASSUME NEW f, Called(f), f.at \notin {"open", "write", "unlink"},
             f.at \in {"listunspent", "getnewaddress"} => f.object \in DOMAIN objects
      PROVE  WalletsInv'
  <2>1. frame' = [frame EXCEPT ![t] = f] /\ frame[t].at \notin {"open", "write", "unlink"}
    BY <1>4 DEF Wallets!Call, Wallets!Ready
  <2> QED BY <1>2, <1>4, <2>1, WalletsLookedAt
<1>5. ASSUME NEW force, NEW then, id \in Wallets!Live
      PROVE  sync(force, then).at = "listunspent" /\ sync(force, then).object \in DOMAIN objects
             /\ wallets[id] \in DOMAIN objects
  BY <1>5, SyncingObject
<1>6. id \in Wallets!Live => wallets[id] \in DOMAIN objects
  BY SyncingObject
<1> HIDE DEF Called, sync, choose, new, each, idle
<1> QED BY <1>1, <1>3, <1>4, <1>5, <1>6

(* The steps of sync_all and select_coins look too.                          *)
LEMMA LookingSteps ==
    ASSUME FramesTyped, WalletsInv, NEW t \in Thread, Wallets!SyncNext(t) \/ Wallets!FinishSelect(t)
    PROVE  WalletsInv'
<1> DEFINE g == frame[t]
           idle == Wallets!Idle
<1>1. idle.at = "idle"
  BY DEF Wallets!Idle
<1>2. UNCHANGED <<objects, wallets, files, walletLock, spoiled>> /\ g.at \in {"each", "select"}
  BY DEF Wallets!SyncNext, Wallets!FinishSelect, Wallets!storeVars
<1>3. ASSUME NEW f, frame' = [frame EXCEPT ![t] = f], f.at \notin {"open", "write", "unlink"},
             f.at \in {"listunspent", "getnewaddress"} => f.object \in DOMAIN objects
      PROVE  WalletsInv'
  BY <1>2, <1>3, WalletsLookedAt
<1>4. CASE Wallets!SyncNext(t)
  <2> DEFINE s(id) == Wallets!Syncing(id, FALSE, [g EXCEPT !.todo = @ \ {id}])
  <2>1. \/ frame' = [frame EXCEPT ![t] = idle]
        \/ \E id \in Wallets!Live : frame' = [frame EXCEPT ![t] = s(id)]
    BY <1>4 DEF Wallets!SyncNext, Wallets!Go
  <2>2. ASSUME NEW id \in Wallets!Live
        PROVE  s(id).at = "listunspent" /\ s(id).object \in DOMAIN objects
    <3>1. /\ s(id).at = "listunspent" /\ s(id).object = wallets[id]
      BY DEF Wallets!Syncing
    <3>2. wallets[id] \in DOMAIN objects
      BY DEF Wallets!Live, WalletsInv, WalletsTyped
    <3> QED BY <3>1, <3>2
  <2> HIDE DEF s, idle
  <2> QED BY <1>1, <1>3, <2>1, <2>2
<1>5. CASE Wallets!FinishSelect(t)
  <2> DEFINE s == [at |-> "selected", coins |-> objects[wallets[g.id]].coins, payment |-> g.payment]
  <2>1. frame' = [frame EXCEPT ![t] = idle] \/ frame' = [frame EXCEPT ![t] = s]
    BY <1>5 DEF Wallets!FinishSelect, Wallets!Go
  <2>2. s.at = "selected"
    OBVIOUS
  <2> HIDE DEF s, idle
  <2> QED BY <1>1, <1>3, <2>1, <2>2
<1> QED BY <1>4, <1>5

(* A thread that writes a file takes note that it is not alone, or that the  *)
(* file is unlinked.                                                        *)
LEMMA WriterNotes ==
    ASSUME FramesTyped, NEW u \in Thread, frame[u].at = "write"
    PROVE  /\ [frame[u] EXCEPT !.alone = FALSE].at = "write"
           /\ [frame[u] EXCEPT !.alone = FALSE].object = frame[u].object
           /\ [frame[u] EXCEPT !.alone = FALSE].linked = frame[u].linked
           /\ [frame[u] EXCEPT !.alone = FALSE].alone = FALSE
           /\ [frame[u] EXCEPT !.linked = FALSE].at = "write"
           /\ [frame[u] EXCEPT !.linked = FALSE].object = frame[u].object
           /\ [frame[u] EXCEPT !.linked = FALSE].linked = FALSE
           /\ [frame[u] EXCEPT !.linked = FALSE].alone = frame[u].alone
<1> DEFINE g == frame[u]
<1>1. g = [at |-> "write", object |-> g.object, then |-> g.then,
           linked |-> g.linked, alone |-> g.alone]
  BY DEF FramesTyped, ServiceFrame, WalletFrame
<1> DEFINE a == [g EXCEPT !.alone = FALSE]
           l == [g EXCEPT !.linked = FALSE]
<1>2. DOMAIN g = {"at", "object", "then", "linked", "alone"} /\ g.at = "write"
  BY <1>1
<1>3. g = [k \in DOMAIN g |-> g[k]]
  BY <1>1
<1> HIDE DEF g
<1>4. a.at = "write" /\ a.object = g.object /\ a.linked = g.linked /\ a.alone = FALSE
  BY <1>2, <1>3
<1>5. l.at = "write" /\ l.object = g.object /\ l.linked = FALSE /\ l.alone = g.alone
  BY <1>2, <1>3
<1> QED BY <1>4, <1>5 DEF g

(* Typing when a file changes.                                              *)
LEMMA FileChanged ==
    ASSUME WalletsTyped, NEW id0 \in WalletId, NEW c,
           c.holds = "wallet" => IsWallet(c.wallet) /\ c.wallet.id = id0,
           objects' = objects, wallets' = wallets, files' = [files EXCEPT ![id0] = c]
    PROVE  WalletsTyped' /\ files'[id0] = c /\ \A id \in WalletId \ {id0} : files'[id] = files[id]
<1>1. files' = [id \in WalletId |-> IF id = id0 THEN c ELSE files[id]]
  BY DEF WalletsTyped
<1>2. Listed(objects)' /\ \A n \in DOMAIN objects' : IsWallet(objects[n])'
  BY DEF WalletsTyped, IsWallet, Listed
<1>3. ASSUME NEW id \in WalletId
      PROVE  /\ wallets'[id] # None => wallets'[id] \in DOMAIN objects' /\ objects'[wallets'[id]].id = id
             /\ files'[id].holds = "wallet" => IsWallet(files'[id].wallet) /\ files'[id].wallet.id = id
  BY <1>1 DEF WalletsTyped
<1>4. wallets' = [id \in WalletId |-> wallets'[id]] /\ files' = [id \in WalletId |-> files'[id]]
  BY <1>1 DEF WalletsTyped
<1>5. WalletsTyped'
  BY <1>2, <1>3, <1>4 DEF WalletsTyped, IsWallet
<1> QED BY <1>1, <1>5

(* Opening a file leaves it torn.                                            *)
LEMMA OpenFileKeepsWallets ==
    ASSUME FramesTyped, WalletsInv, NEW t \in Thread, Wallets!OpenFile(t)
    PROVE  WalletsInv'
<1> DEFINE g == frame[t]
           n == g.object
           id0 == objects[n].id
           others == Wallets!Writers(id0)
           alone == others = {}
           f == [at |-> "write", object |-> n, then |-> g.then, linked |-> TRUE, alone |-> alone]
<1>1. /\ g.at = "open"
      /\ files' = [files EXCEPT ![id0] = Wallets!Torn]
      /\ frame' = [u \in Thread |-> CASE u = t -> f
                                      [] u \in others -> [frame[u] EXCEPT !.alone = FALSE]
                                      [] OTHER -> frame[u]]
      /\ spoiled' = IF others = {} /\ wallets[id0] = n THEN spoiled ELSE spoiled \cup {id0}
      /\ UNCHANGED <<objects, wallets, walletLock>>
  BY DEF Wallets!OpenFile
<1>2. /\ f.at = "write" /\ f.object = n /\ f.linked /\ (f.alone <=> others = {})
  OBVIOUS
<1>3. n \in DOMAIN objects /\ id0 \in WalletId
  BY <1>1 DEF WalletsInv, WalletCall, WalletsTyped, IsWallet
<1>4. \A u \in Thread, id \in WalletId : InFile(u, id) <=> u \in Wallets!Writers(id)
  BY DEF InFile, Wallets!Writers
<1>5. \A u \in others : u \in Thread /\ frame[u].at = "write" /\ u # t
  BY <1>1 DEF Wallets!Writers
<1> HIDE DEF others, f, id0, n
<1>6. frame'[t] = f
  BY <1>1, <1>5
<1>7. ASSUME NEW u \in Thread \ {t}
      PROVE  /\ u \notin others => frame'[u] = frame[u]
             /\ u \in others => /\ frame[u].at = "write" /\ frame'[u].at = "write"
                                /\ frame'[u].object = frame[u].object
                                /\ frame'[u].linked = frame[u].linked
                                /\ frame'[u].alone = FALSE
  BY <1>1, <1>5, WriterNotes
<1>8. ASSUME NEW u \in Thread \ {t}, NEW id \in WalletId
      PROVE  InFile(u, id)' <=> InFile(u, id)
  BY <1>1, <1>7 DEF InFile
<1>9. \A id \in WalletId : InFile(t, id)' <=> id = id0
  BY <1>1, <1>2, <1>6 DEF InFile, id0
<1>10. \A id \in WalletId : ~InFile(t, id)
  BY <1>1 DEF InFile
<1>11. \A id \in WalletId : Deleting(id) => Deleting(id)'
  <2> SUFFICES ASSUME NEW id \in WalletId, NEW u \in Thread, frame[u].at = "unlink", frame[u].id = id
               PROVE  Deleting(id)'
    BY DEF Deleting
  <2>1. u # t /\ u \notin others
    BY <1>1, <1>5
  <2> QED BY <1>7, <2>1 DEF Deleting
<1>12. ASSUME NEW id \in WalletId, Saving(id) PROVE Saving(id)'
  <2>1. CASE id = id0
    <3>1. InFile(t, id)'
      BY <1>9, <2>1
    <3> QED BY <3>1 DEF InFile, Saving, Wallets!Writers
  <2>2. CASE id # id0
    <3>1. PICK u \in Thread : \/ frame[u].at = "open" /\ objects[frame[u].object].id = id
                              \/ InFile(u, id)
                              \/ frame[u].at = "unlink" /\ frame[u].id = id
      BY <1>12 DEF Saving, Wallets!Writers, InFile
    <3>2. u # t
      BY <1>10, <1>1, <2>2, <3>1 DEF id0, n
    <3>3. CASE InFile(u, id)
      <4>1. InFile(u, id)'
        BY <1>8, <3>2, <3>3
      <4> QED BY <4>1 DEF InFile, Saving, Wallets!Writers
    <3>4. CASE ~InFile(u, id)
      <4>1. u \notin others
        BY <1>5, <3>1, <3>4
      <4>2. frame'[u] = frame[u]
        BY <1>7, <3>2, <4>1
      <4> QED BY <1>1, <3>1, <3>4, <4>2 DEF Saving
    <3> QED BY <3>3, <3>4
  <2> QED BY <2>1, <2>2
<1>13. \A id \in WalletId : (id \in spoiled => id \in spoiled')
  BY <1>1
<1>14. others # {} => id0 \in spoiled'
  BY <1>1
<1>15. ASSUME NEW u \in Thread PROVE WalletCall(u)'
  <2>1. CASE u = t
    <3>1. ASSUME NEW id \in WalletId, InFile(t, id)'
          PROVE  /\ frame'[t].alone => \A v \in Thread \ {t} : ~InFile(v, id)'
                 /\ id \in spoiled' \/ (frame'[t].alone /\ wallets'[id] = frame'[t].object)
      <4>1. id = id0
        BY <1>9, <3>1
      <4>2. others = {} => \A v \in Thread \ {t} : ~InFile(v, id)'
        BY <1>4, <1>8, <1>3, <4>1 DEF others
      <4>3. id0 \in spoiled' \/ (others = {} /\ wallets[id0] = n)
        BY <1>1
      <4> QED BY <1>1, <1>2, <1>6, <4>1, <4>2, <4>3
    <3>2. f.at = "write" /\ f.object \in DOMAIN objects'
      BY <1>1, <1>2, <1>3
    <3> QED BY <1>6, <2>1, <3>1, <3>2 DEF WalletCall
  <2>2. CASE u # t
    <3>1. WalletCall(u) /\ WalletCall(t)
      BY DEF WalletsInv
    <3>2. /\ frame'[u].at = frame[u].at
          /\ frame[u].at = "write" => frame'[u].object = frame[u].object
          /\ frame[u].at # "write" => frame'[u] = frame[u]
      BY <1>5, <1>7, <2>2
    <3>3. ASSUME NEW id \in WalletId, InFile(u, id)'
          PROVE  /\ frame'[u].alone => \A v \in Thread \ {u} : ~InFile(v, id)'
                 /\ id \in spoiled' \/ (frame'[u].alone /\ (wallets'[id] = frame'[u].object \/ Deleting(id)'))
      <4>1. InFile(u, id)
        BY <1>8, <2>2, <3>3
      <4>2. CASE id = id0
        <5>1. u \in others
          BY <1>4, <4>1, <4>2 DEF others
        <5>2. frame'[u].alone = FALSE /\ id \in spoiled'
          BY <1>7, <1>14, <2>2, <4>2, <5>1
        <5> QED BY <5>2
      <4>3. CASE id # id0
        <5>1. u \notin others
          BY <4>1, <4>3 DEF others, InFile, Wallets!Writers
        <5>2. frame'[u] = frame[u]
          BY <1>7, <2>2, <5>1
        <5>3. ~InFile(t, id)'
          BY <1>9, <4>3
        <5>4. frame[u].alone => \A v \in Thread \ {u} : ~InFile(v, id)'
          BY <1>8, <3>1, <4>1, <5>3 DEF WalletCall
        <5>5. id \in spoiled \/ (frame[u].alone /\ (wallets[id] = frame[u].object \/ Deleting(id)))
          BY <3>1, <4>1 DEF WalletCall
        <5> QED BY <1>1, <1>11, <1>13, <5>2, <5>4, <5>5
      <4> QED BY <4>2, <4>3
    <3>4. frame'[u].at = "unlink" => /\ frame'[u].id \in WalletId /\ walletLock' = u
                                     /\ wallets'[frame'[u].id] = None
      BY <1>1, <3>1, <3>2 DEF WalletCall
    <3>5. frame'[u].at \in {"open", "write", "listunspent", "getnewaddress"} =>
             frame'[u].object \in DOMAIN objects'
      BY <1>1, <3>1, <3>2 DEF WalletCall
    <3> QED BY <3>3, <3>4, <3>5 DEF WalletCall
  <2> QED BY <2>1, <2>2
<1>16. WalletsTyped'
  <2>1. Wallets!Torn.holds # "wallet"
    BY DEF Wallets!Torn
  <2> HIDE DEF Wallets!Torn
  <2> QED BY <1>1, <1>3, <2>1, FileChanged DEF WalletsInv
<1>17. ASSUME NEW id \in WalletId PROVE (Saving(id) \/ id \in spoiled \/ Saved(id))'
  <2>1. CASE id = id0
    <3>1. InFile(t, id)'
      BY <1>9, <2>1
    <3> QED BY <3>1 DEF InFile, Saving, Wallets!Writers
  <2>2. CASE id # id0
    <3>1. files'[id] = files[id]
      BY <1>1, <2>2 DEF WalletsInv, WalletsTyped
    <3>2. Saved(id) => Saved(id)'
      BY <1>1, <3>1 DEF Saved
    <3> QED BY <1>12, <1>13, <3>2 DEF WalletsInv
  <2> QED BY <2>1, <2>2
<1> QED BY <1>15, <1>16, <1>17 DEF WalletsInv

(* Writing a file leaves the wallet in it, or what overlapping saves make.   *)
LEMMA WriteFileKeepsWallets ==
    ASSUME FramesTyped, WalletsInv, NEW t \in Thread, Wallets!WriteFile(t)
    PROVE  WalletsInv'
<1> DEFINE g == frame[t]
           n == g.object
           w == objects[n]
           id0 == w.id
           then == g.then
<1>1. /\ g.at = "write"
      /\ \/ g.linked /\ files' = [files EXCEPT ![id0] = Wallets!Written(w)]
         \/ g.linked /\ ~g.alone /\ files' = [files EXCEPT ![id0] = Wallets!Torn]
         \/ ~g.linked /\ files' = files
      /\ spoiled' = IF g.linked /\ g.alone /\ wallets[id0] = n THEN spoiled \ {id0} ELSE spoiled
      /\ walletLock' = IF walletLock = t THEN None ELSE walletLock
      /\ frame' = [frame EXCEPT ![t] = then]
      /\ UNCHANGED <<objects, wallets>>
  BY DEF Wallets!WriteFile, Wallets!Go, Wallets!Released
<1>2. then.at \in {"idle", "select", "each"}
  <2>1. Onward(then)
    BY <1>1 DEF FramesTyped, ServiceFrame, WalletFrame
  <2> QED BY <2>1 DEF Onward
<1>3. n \in DOMAIN objects /\ id0 \in WalletId /\ IsWallet(w)
  BY <1>1 DEF WalletsInv, WalletCall, WalletsTyped, IsWallet
<1>4. g.linked => InFile(t, id0)
  BY <1>1 DEF InFile
<1> HIDE DEF then, id0, w, n
<1>5. frame'[t] = then /\ \A u \in Thread \ {t} : frame'[u] = frame[u]
  BY <1>1 DEF FramesTyped
<1>6. ASSUME NEW u \in Thread, NEW id \in WalletId
      PROVE  InFile(u, id)' <=> u # t /\ InFile(u, id)
  BY <1>1, <1>2, <1>5 DEF InFile
<1>7. \A id \in WalletId : Deleting(id)' <=> Deleting(id)
  BY <1>1, <1>2, <1>5 DEF Deleting
<1>8. WalletsTyped' /\ \A id \in WalletId \ {id0} : files'[id] = files[id]
  <2> DEFINE c == Wallets!Written(w)
             torn == Wallets!Torn
  <2>1. c.holds = "wallet" /\ c.wallet = w /\ torn.holds # "wallet"
    BY DEF Wallets!Written, Wallets!Torn
  <2>2. w.id = id0 /\ WalletsTyped /\ objects' = objects /\ wallets' = wallets
    BY <1>1 DEF id0, WalletsInv
  <2> HIDE DEF c, torn
  <2>3. CASE files' = [files EXCEPT ![id0] = c]
    BY <1>3, <2>1, <2>2, <2>3, FileChanged
  <2>4. CASE files' = [files EXCEPT ![id0] = torn]
    BY <1>3, <2>1, <2>2, <2>4, FileChanged
  <2>5. CASE files' = files
    BY <1>1, <2>2, <2>5, WalletsSame
  <2> QED BY <1>1, <2>3, <2>4, <2>5 DEF c, torn
<1>9. ASSUME NEW u \in Thread PROVE WalletCall(u)'
  <2>1. CASE u = t
    BY <1>2, <1>5, <1>6, <2>1 DEF WalletCall
  <2>2. CASE u # t
    <3>1. WalletCall(u) /\ WalletCall(t) /\ frame'[u] = frame[u]
      BY <1>5, <2>2 DEF WalletsInv
    <3>2. ASSUME NEW id \in WalletId, InFile(u, id)'
          PROVE  /\ frame'[u].alone => \A v \in Thread \ {u} : ~InFile(v, id)'
                 /\ id \in spoiled' \/ (frame'[u].alone /\ (wallets'[id] = frame'[u].object \/ Deleting(id)'))
      <4>1. InFile(u, id)
        BY <1>6, <3>2
      <4>2. frame[u].alone => \A v \in Thread \ {u} : ~InFile(v, id)
        BY <3>1, <4>1 DEF WalletCall
      <4>3. id \in spoiled \/ (frame[u].alone /\ (wallets[id] = frame[u].object \/ Deleting(id)))
        BY <3>1, <4>1 DEF WalletCall
      <4>4. id \in spoiled => id \in spoiled'
        <5>1. CASE id # id0
          BY <1>1, <5>1
        <5>2. CASE id = id0
          <6>1. ~(g.linked /\ g.alone)
            BY <1>3, <1>4, <2>2, <3>1, <4>1, <5>2 DEF WalletCall
          <6> QED BY <1>1, <6>1
        <5> QED BY <5>1, <5>2
      <4> QED BY <1>1, <1>6, <1>7, <3>1, <4>2, <4>3, <4>4
    <3>3. frame'[u].at = "unlink" => /\ frame'[u].id \in WalletId /\ walletLock' = u
                                     /\ wallets'[frame'[u].id] = None
      BY <1>1, <2>2, <3>1 DEF WalletCall
    <3>4. frame'[u].at \in {"open", "write", "listunspent", "getnewaddress"} =>
             frame'[u].object \in DOMAIN objects'
      BY <1>1, <3>1 DEF WalletCall
    <3> QED BY <3>2, <3>3, <3>4 DEF WalletCall
  <2> QED BY <2>1, <2>2
<1>10. ASSUME NEW id \in WalletId, Saving(id), ~InFile(t, id) PROVE Saving(id)'
  <2>1. PICK u \in Thread : \/ frame[u].at = "open" /\ objects[frame[u].object].id = id
                            \/ InFile(u, id)
                            \/ frame[u].at = "unlink" /\ frame[u].id = id
    BY <1>10 DEF Saving, Wallets!Writers, InFile
  <2>2. u # t /\ frame'[u] = frame[u]
    BY <1>1, <1>5, <1>10, <2>1
  <2> QED BY <1>1, <2>1, <2>2 DEF Saving, Wallets!Writers, InFile
<1>11. ASSUME NEW id \in WalletId PROVE (Saving(id) \/ id \in spoiled \/ Saved(id))'
  <2>1. CASE InFile(t, id)
    <3>1. id = id0 /\ g.linked
      BY <2>1 DEF InFile, id0, w, n
    <3>2. CASE g.alone /\ wallets[id0] = n
      <4>1. files' = [files EXCEPT ![id0] = Wallets!Written(w)]
        BY <1>1, <3>1, <3>2
      <4>2. files'[id0].holds = "wallet" /\ files'[id0].wallet = w
        BY <1>3, <4>1 DEF WalletsInv, WalletsTyped, Wallets!Written
      <4>3. wallets'[id0] # None /\ objects'[wallets'[id0]] = w
        <5>1. n \in Nat
          BY <1>3 DEF WalletsInv, WalletsTyped, Listed
        <5> QED BY <1>1, <3>2, <5>1, ServicesAssumption DEF w
      <4>4. Saved(id)'
        BY <3>1, <4>2, <4>3 DEF Saved
      <4> QED BY <4>4
    <3>3. CASE ~(g.alone /\ wallets[id0] = n)
      <4>1. id \in spoiled \/ Deleting(id)
        BY <1>3, <2>1, <3>1, <3>3 DEF WalletsInv, WalletCall, n
      <4>2. spoiled' = spoiled
        BY <1>1, <3>3
      <4>3. Deleting(id) => Saving(id)'
        BY <1>7 DEF Deleting, Saving
      <4> QED BY <4>1, <4>2, <4>3
    <3> QED BY <3>2, <3>3
  <2>2. CASE ~InFile(t, id)
    <3>1. files'[id] = files[id]
      <4>1. CASE id = id0
        BY <1>1, <1>4, <2>2, <4>1
      <4>2. CASE id # id0
        BY <1>8, <4>2
      <4> QED BY <4>1, <4>2
    <3>2. Saved(id) => Saved(id)'
      BY <1>1, <3>1 DEF Saved
    <3>3. id \in spoiled => id \in spoiled'
      BY <1>1, <1>4, <2>2
    <3> QED BY <1>10, <2>2, <3>2, <3>3 DEF WalletsInv
  <2> QED BY <2>1, <2>2
<1> QED BY <1>8, <1>9, <1>11 DEF WalletsInv

(* A save that raises spoils the file it wrote to or did not open.           *)
LEMMA FailedSaveKeepsWallets ==
    ASSUME FramesTyped, WalletsInv, NEW t \in Thread, Wallets!OpenFails(t) \/ Wallets!WriteFails(t)
    PROVE  WalletsInv'
<1> DEFINE g == frame[t]
           n == g.object
           id0 == objects[n].id
           then == g.then
           torn == Wallets!Torn
<1>1. /\ g.at \in {"open", "write"} /\ frame' = [frame EXCEPT ![t] = then]
      /\ files' = files \/ files' = [files EXCEPT ![id0] = torn]
      /\ \/ spoiled' = spoiled \cup {id0}
         \/ g.at = "write" /\ ~g.linked /\ spoiled' = spoiled /\ files' = files
      /\ walletLock' = IF walletLock = t THEN None ELSE walletLock
      /\ UNCHANGED <<objects, wallets>>
  BY DEF Wallets!OpenFails, Wallets!WriteFails, Wallets!Fail, Wallets!Released
<1>2. then.at \in {"idle", "select", "each"}
  <2>1. Onward(then)
    BY <1>1 DEF FramesTyped, ServiceFrame, WalletFrame
  <2> QED BY <2>1 DEF Onward
<1>3. n \in DOMAIN objects /\ id0 \in WalletId
  BY <1>1 DEF WalletsInv, WalletCall, WalletsTyped, IsWallet
<1>4. torn.holds # "wallet"
  BY DEF Wallets!Torn
<1>5. \A id \in WalletId : (g.at = "open" /\ objects[g.object].id = id) \/ InFile(t, id) => id = id0
  BY DEF InFile
<1> HIDE DEF then, id0, n, torn
<1>6. frame'[t] = then /\ \A u \in Thread \ {t} : frame'[u] = frame[u]
  BY <1>1 DEF FramesTyped
<1>7. ASSUME NEW u \in Thread, NEW id \in WalletId
      PROVE  InFile(u, id)' <=> u # t /\ InFile(u, id)
  BY <1>1, <1>2, <1>6 DEF InFile
<1>8. \A id \in WalletId : Deleting(id)' <=> Deleting(id)
  BY <1>1, <1>2, <1>6 DEF Deleting
<1>9. WalletsTyped' /\ \A id \in WalletId \ {id0} : files'[id] = files[id]
  <2>1. WalletsTyped
    BY DEF WalletsInv
  <2>2. CASE files' = [files EXCEPT ![id0] = torn]
    BY <1>1, <1>3, <1>4, <2>1, <2>2, FileChanged
  <2>3. CASE files' = files
    BY <1>1, <2>1, <2>3, WalletsSame
  <2> QED BY <1>1, <2>2, <2>3
<1>10. ASSUME NEW u \in Thread PROVE WalletCall(u)'
  <2>1. CASE u = t
    BY <1>2, <1>6, <1>7, <2>1 DEF WalletCall
  <2>2. CASE u # t
    <3>1. WalletCall(u) /\ frame'[u] = frame[u] /\ spoiled \subseteq spoiled'
      BY <1>1, <1>6, <2>2 DEF WalletsInv
    <3>2. ASSUME NEW id \in WalletId, InFile(u, id)'
          PROVE  /\ frame'[u].alone => \A v \in Thread \ {u} : ~InFile(v, id)'
                 /\ id \in spoiled' \/ (frame'[u].alone /\ (wallets'[id] = frame'[u].object \/ Deleting(id)'))
      <4>1. InFile(u, id)
        BY <1>7, <3>2
      <4>2. frame[u].alone => \A v \in Thread \ {u} : ~InFile(v, id)
        BY <3>1, <4>1 DEF WalletCall
      <4>3. id \in spoiled \/ (frame[u].alone /\ (wallets[id] = frame[u].object \/ Deleting(id)))
        BY <3>1, <4>1 DEF WalletCall
      <4> QED BY <1>1, <1>7, <1>8, <3>1, <4>2, <4>3
    <3>3. frame'[u].at = "unlink" => /\ frame'[u].id \in WalletId /\ walletLock' = u
                                     /\ wallets'[frame'[u].id] = None
      BY <1>1, <2>2, <3>1 DEF WalletCall
    <3>4. frame'[u].at \in {"open", "write", "listunspent", "getnewaddress"} =>
             frame'[u].object \in DOMAIN objects'
      BY <1>1, <3>1 DEF WalletCall
    <3> QED BY <3>2, <3>3, <3>4 DEF WalletCall
  <2> QED BY <2>1, <2>2
<1>11. ASSUME NEW id \in WalletId PROVE (Saving(id) \/ id \in spoiled \/ Saved(id))'
  <2>1. CASE id \in spoiled'
    BY <2>1
  <2>2. CASE id \notin spoiled'
    <3>1. files'[id] = files[id] /\ id \notin spoiled
      BY <1>1, <1>9, <2>2
    <3>2. ~InFile(t, id) /\ ~(g.at = "open" /\ objects[g.object].id = id)
      BY <1>1, <1>5, <2>2 DEF InFile
    <3>3. ASSUME Saving(id) PROVE Saving(id)'
      <4>1. PICK u \in Thread : \/ frame[u].at = "open" /\ objects[frame[u].object].id = id
                                \/ InFile(u, id)
                                \/ frame[u].at = "unlink" /\ frame[u].id = id
        BY <3>3 DEF Saving, Wallets!Writers, InFile
      <4>2. u # t /\ frame'[u] = frame[u]
        BY <1>1, <1>6, <3>2, <4>1
      <4> QED BY <1>1, <4>1, <4>2 DEF Saving, Wallets!Writers, InFile
    <3>4. Saved(id) => Saved(id)'
      BY <1>1, <3>1 DEF Saved
    <3> QED BY <3>1, <3>3, <3>4 DEF WalletsInv
  <2> QED BY <2>1, <2>2
<1> QED BY <1>9, <1>10, <1>11 DEF WalletsInv

(* Unlinking a file leaves none, and no save of it goes anywhere.            *)
LEMMA UnlinkKeepsWallets ==
    ASSUME FramesTyped, WalletsInv, NEW t \in Thread, Wallets!Unlink(t)
    PROVE  WalletsInv'
<1> DEFINE g == frame[t]
           id0 == g.id
           others == Wallets!Writers(id0)
           f == Wallets!Idle
<1>1. /\ g.at = "unlink"
      /\ files' = [files EXCEPT ![id0] = Wallets!Missing]
      /\ frame' = [u \in Thread |-> CASE u = t -> f
                                      [] u \in others -> [frame[u] EXCEPT !.linked = FALSE]
                                      [] OTHER -> frame[u]]
      /\ spoiled' = spoiled \ {id0}
      /\ UNCHANGED <<objects, wallets>>
  BY DEF Wallets!Unlink
<1>2. id0 \in WalletId /\ walletLock = t /\ wallets[id0] = None
  BY <1>1 DEF WalletsInv, WalletCall
<1>3. f.at = "idle"
  BY DEF Wallets!Idle
<1>4. \A u \in Thread : u \in others <=> InFile(u, id0)
  BY DEF InFile, Wallets!Writers
<1>5. \A u \in others : u \in Thread /\ frame[u].at = "write" /\ u # t
  BY <1>1 DEF Wallets!Writers
<1> HIDE DEF others, f, id0
<1>6. frame'[t] = f
  BY <1>1, <1>5
<1>7. ASSUME NEW u \in Thread \ {t}
      PROVE  /\ u \notin others => frame'[u] = frame[u]
             /\ u \in others => /\ frame'[u].at = "write" /\ frame'[u].object = frame[u].object
                                /\ frame'[u].linked = FALSE
  BY <1>1, <1>5, WriterNotes
<1>8. ASSUME NEW u \in Thread, NEW id \in WalletId
      PROVE  InFile(u, id)' <=> id # id0 /\ InFile(u, id)
  <2>1. CASE u = t
    BY <1>1, <1>3, <1>6, <2>1 DEF InFile
  <2>2. CASE u # t /\ u \in others
    <3>1. InFile(u, id) => id = id0
      BY <1>4, <2>2 DEF InFile
    <3>2. ~InFile(u, id)'
      BY <1>7, <2>2 DEF InFile
    <3> QED BY <3>1, <3>2
  <2>3. CASE u # t /\ u \notin others
    <3>1. frame'[u] = frame[u] /\ ~InFile(u, id0)
      BY <1>4, <1>7, <2>3
    <3> QED BY <1>1, <3>1 DEF InFile
  <2> QED BY <2>1, <2>2, <2>3
<1>9. \A u \in Thread \ {t} : frame[u].at # "unlink" /\ frame'[u].at # "unlink"
  <2> SUFFICES ASSUME NEW u \in Thread \ {t} PROVE frame[u].at # "unlink" /\ frame'[u].at # "unlink"
    OBVIOUS
  <2>1. frame[u].at # "unlink"
    BY <1>2 DEF WalletsInv, WalletCall
  <2> QED BY <1>7, <2>1
<1>10. \A id \in WalletId \ {id0} : ~Deleting(id)
  BY <1>1, <1>9 DEF Deleting, id0
<1>11. WalletsTyped' /\ files'[id0] = Wallets!Missing
       /\ \A id \in WalletId \ {id0} : files'[id] = files[id]
  <2>1. Wallets!Missing.holds # "wallet"
    BY DEF Wallets!Missing
  <2> HIDE DEF Wallets!Missing
  <2> QED BY <1>1, <1>2, <2>1, FileChanged DEF WalletsInv
<1>12. ASSUME NEW u \in Thread PROVE WalletCall(u)'
  <2>1. CASE u = t
    BY <1>3, <1>6, <2>1 DEF WalletCall, InFile
  <2>2. CASE u # t
    <3>1. WalletCall(u)
      BY DEF WalletsInv
    <3>2. /\ frame'[u].at = frame[u].at
          /\ frame[u].at = "write" => frame'[u].object = frame[u].object
          /\ frame[u].at # "write" => frame'[u] = frame[u]
      BY <1>5, <1>7, <2>2
    <3>3. ASSUME NEW id \in WalletId, InFile(u, id)'
          PROVE  /\ frame'[u].alone => \A v \in Thread \ {u} : ~InFile(v, id)'
                 /\ id \in spoiled' \/ (frame'[u].alone /\ (wallets'[id] = frame'[u].object \/ Deleting(id)'))
      <4>1. InFile(u, id) /\ id # id0
        BY <1>8, <3>3
      <4>2. u \notin others
        BY <1>4, <4>1 DEF InFile
      <4>3. frame'[u] = frame[u]
        BY <1>7, <2>2, <4>2
      <4>4. frame[u].alone => \A v \in Thread \ {u} : ~InFile(v, id)
        BY <3>1, <4>1 DEF WalletCall
      <4>5. id \in spoiled \/ (frame[u].alone /\ wallets[id] = frame[u].object)
        BY <1>10, <3>1, <4>1 DEF WalletCall
      <4> QED BY <1>1, <1>8, <4>1, <4>3, <4>4, <4>5
    <3>4. frame'[u].at \in {"open", "write", "listunspent", "getnewaddress"} =>
             frame'[u].object \in DOMAIN objects'
      BY <1>1, <3>1, <3>2 DEF WalletCall
    <3> QED BY <1>9, <2>2, <3>3, <3>4 DEF WalletCall
  <2> QED BY <2>1, <2>2
<1>13. ASSUME NEW id \in WalletId \ {id0}, Saving(id) PROVE Saving(id)'
  <2>1. PICK u \in Thread : \/ frame[u].at = "open" /\ objects[frame[u].object].id = id
                            \/ InFile(u, id)
                            \/ frame[u].at = "unlink" /\ frame[u].id = id
    BY <1>13 DEF Saving, Wallets!Writers, InFile
  <2>2. u # t
    BY <1>1, <2>1 DEF InFile, id0
  <2>3. CASE InFile(u, id)
    <3>1. InFile(u, id)'
      BY <1>8, <2>3
    <3> QED BY <3>1 DEF InFile, Saving, Wallets!Writers
  <2>4. CASE ~InFile(u, id)
    <3>1. frame[u].at = "open" /\ objects[frame[u].object].id = id
      BY <1>9, <2>1, <2>2, <2>4
    <3>2. frame'[u] = frame[u]
      BY <1>5, <1>7, <2>2, <3>1
    <3> QED BY <1>1, <3>1, <3>2 DEF Saving
  <2> QED BY <2>3, <2>4
<1>14. ASSUME NEW id \in WalletId PROVE (Saving(id) \/ id \in spoiled \/ Saved(id))'
  <2>1. CASE id = id0
    <3>1. Saved(id)'
      BY <1>1, <1>2, <1>11, <2>1 DEF Saved, Wallets!Missing
    <3> QED BY <3>1
  <2>2. CASE id # id0
    <3>1. Saved(id) => Saved(id)'
      BY <1>1, <1>11, <2>2 DEF Saved
    <3> QED BY <1>1, <1>13, <2>2, <3>1 DEF WalletsInv
  <2> QED BY <2>1, <2>2
<1> QED BY <1>11, <1>12, <1>14 DEF WalletsInv

(* The wallets of the files are listed each once.                            *)
LEMMA WalletsCount == ASSUME NEW S PROVE Wallets!Cardinality(S) = Cardinality(S)
  BY DEF Wallets!Cardinality, Cardinality

\* The order of the objects after a restart.
LoadOrder ==
    CHOOSE s \in [1..Wallets!Cardinality(Wallets!Loaded) -> Wallets!Loaded] :
      \A i, j \in DOMAIN s : i # j => s[i] # s[j]

LEMMA EachLoadedOnce ==
    ASSUME NEW n, n = Cardinality(Wallets!Loaded)
    PROVE  /\ n \in Nat /\ LoadOrder \in [1..n -> Wallets!Loaded]
           /\ \A id \in Wallets!Loaded : \E i \in 1..n : LoadOrder[i] = id
<1> DEFINE L == Wallets!Loaded
<1>1. IsFiniteSet(L)
  <2>1. L \in SUBSET WalletId
    BY DEF Wallets!Loaded
  <2> QED BY <2>1, FS_Subset, ServicesAssumption
<1>2. n = Cardinality(L) /\ n = Wallets!Cardinality(Wallets!Loaded)
  BY WalletsCount
<1> HIDE DEF L
<1>3. n \in Nat /\ ExistsBijection(1..n, L)
  BY <1>1, <1>2, FS_CardinalityType
<1>4. PICK b \in [1..n -> L] : \A i, j \in 1..n : i # j => b[i] # b[j]
  BY <1>3 DEF ExistsBijection, Bijection, Injection, IsInjective
<1> DEFINE Once(s) == s \in [1..n -> L] /\ \A i, j \in DOMAIN s : i # j => s[i] # s[j]
           order == LoadOrder
<1>5. Once(order)
  <2>1. Once(b)
    BY <1>4
  <2>2. order = CHOOSE s : Once(s)
    BY <1>2 DEF LoadOrder, L
  <2> HIDE DEF Once, order
  <2> QED BY <2>1, <2>2
<1> HIDE DEF order
<1>6. order \in Injection(1..n, L)
  BY <1>5 DEF Injection, IsInjective
<1>7. Cardinality(1..n) = n /\ IsFiniteSet(1..n)
  BY <1>3, FS_Interval
<1>8. order \in Surjection(1..n, L)
  BY <1>1, <1>2, <1>6, <1>7, FS_Injection
<1>9. \A id \in L : \E i \in 1..n : order[i] = id
  BY <1>8 DEF Surjection
<1> QED BY <1>3, <1>5, <1>9 DEF L, order

(* After a restart every wallet is as in its file.                           *)
LEMMA RestartLoads ==
    ASSUME WalletsTyped, Restart
    PROVE  /\ WalletsTyped' /\ files' = files
           /\ \A id \in WalletId \ Wallets!Loaded : wallets'[id] = None
           /\ \A id \in Wallets!Loaded : wallets'[id] # None /\ objects'[wallets'[id]] = files[id].wallet
<1> DEFINE n == Cardinality(Wallets!Loaded)
           order == LoadOrder
           place(id) == CHOOSE i \in DOMAIN order : order[i] = id
<1>1. /\ objects' = [i \in DOMAIN order |-> files[order[i]].wallet]
      /\ wallets' = [id \in WalletId |-> IF id \in Wallets!Loaded THEN place(id) ELSE None]
      /\ files' = files
  BY DEF Restart, Wallets!Restart, LoadOrder
<1>2. /\ n \in Nat /\ order \in [1..n -> Wallets!Loaded]
      /\ \A id \in Wallets!Loaded : \E i \in 1..n : order[i] = id
  BY EachLoadedOnce
<1> HIDE DEF n, order
<1>3. DOMAIN order = 1..n /\ \A i \in 1..n : order[i] \in Wallets!Loaded
  BY <1>2
<1>4. \A id \in Wallets!Loaded : place(id) \in 1..n /\ order[place(id)] = id
  BY <1>2, <1>3
<1>5. \A id \in Wallets!Loaded : place(id) # None
  BY <1>2, <1>4, ServicesAssumption
<1> HIDE DEF place
<1>6. /\ objects' = [i \in 1..n |-> objects'[i]]
      /\ \A i \in 1..n : objects'[i] = files[order[i]].wallet
  BY <1>1, <1>3
<1>7. Listed(objects') /\ DOMAIN objects' = 1..n
  BY <1>2, <1>6, ListMade
<1>8. \A id \in Wallets!Loaded : /\ id \in WalletId /\ IsWallet(files[id].wallet)
                                 /\ files[id].wallet.id = id
  BY DEF Wallets!Loaded, WalletsTyped
<1>9. \A id \in Wallets!Loaded : /\ wallets'[id] = place(id) /\ wallets'[id] # None
                                 /\ wallets'[id] \in DOMAIN objects'
                                 /\ objects'[wallets'[id]] = files[id].wallet
  BY <1>1, <1>4, <1>5, <1>6, <1>7, <1>8
<1>10. \A id \in WalletId \ Wallets!Loaded : wallets'[id] = None
  BY <1>1
<1>11. WalletsTyped'
  <2>1. Listed(objects)'
    BY <1>7 DEF Listed
  <2>2. ASSUME NEW i \in DOMAIN objects' PROVE IsWallet(objects[i])'
    <3>1. i \in 1..n /\ objects'[i] = files[order[i]].wallet /\ order[i] \in Wallets!Loaded
      BY <1>3, <1>6, <1>7
    <3>2. IsWallet(objects'[i])
      BY <1>8, <3>1
    <3> QED BY <3>2 DEF IsWallet
  <2>3. \A id \in WalletId : wallets'[id] # None =>
            wallets'[id] \in DOMAIN objects' /\ objects'[wallets'[id]].id = id
    BY <1>8, <1>9, <1>10
  <2>4. wallets' = [id \in WalletId |-> wallets'[id]]
    BY <1>1
  <2>5. \A id \in WalletId : files'[id].holds = "wallet" =>
            IsWallet(files[id].wallet)' /\ files'[id].wallet.id = id
    BY <1>1 DEF WalletsTyped, IsWallet
  <2>6. files' = [id \in WalletId |-> files'[id]]
    BY <1>1 DEF WalletsTyped
  <2> QED BY <2>1, <2>2, <2>3, <2>4, <2>5, <2>6 DEF WalletsTyped
<1> QED BY <1>1, <1>9, <1>10, <1>11

LEMMA RestartKeepsWalletsInv ==
    ASSUME WalletsInv, Restart
    PROVE  WalletsInv'
<1>1. \A t \in Thread : frame'[t].at = "idle"
  BY DEF Restart, Wallets!Restart, Wallets!Idle
<1>2. /\ WalletsTyped' /\ files' = files
      /\ \A id \in WalletId \ Wallets!Loaded : wallets'[id] = None
      /\ \A id \in Wallets!Loaded : wallets'[id] # None /\ objects'[wallets'[id]] = files[id].wallet
  BY RestartLoads DEF WalletsInv
<1>3. \A t \in Thread : WalletCall(t)'
  BY <1>1 DEF WalletCall, InFile
<1>4. ASSUME NEW id \in WalletId PROVE Saved(id)'
  BY <1>2 DEF Saved, Wallets!Loaded
<1> QED BY <1>2, <1>3, <1>4 DEF WalletsInv

(* The invariant of the wallets is inductive.                                *)
LEMMA WalletsStep ==
    ASSUME FramesTyped, WalletsInv, [Next]_vars
    PROVE  WalletsInv'
<1>1. CASE Restart
  BY <1>1, RestartKeepsWalletsInv
<1>2. CASE /\ UNCHANGED <<objects, wallets, stats, files, walletLock, spoiled>>
           /\ Elsewhere(WalletAts)
  BY <1>2, WalletsUntouched
<1>3. ASSUME NEW t \in Thread, Wallets!Step(t) PROVE WalletsInv'
  BY <1>3, OpenFileKeepsWallets, WriteFileKeepsWallets, FailedSaveKeepsWallets, UnlinkKeepsWallets, ListUnspentKeepsWallets,
     GetNewAddressKeepsWallets, LookingSteps DEF Wallets!Step
<1>4. ASSUME NEW t \in Thread, Wallets!Request(t) PROVE WalletsInv'
  <2>1. scope.ids \subseteq WalletId
    BY ServicesAssumption DEF FramesTyped
  <2>2. CASE Wallets!SyncAll(t)
    <3>1. CASE WalletId = {}
      <4>1. /\ UNCHANGED <<objects, wallets, files, walletLock, spoiled>>
            /\ \E size : frame' = [frame EXCEPT ![t] = [at |-> "each", todo |-> Wallets!Live, size |-> size]]
            /\ frame[t].at \notin {"open", "write", "unlink"}
        BY <2>2 DEF Wallets!SyncAll, Wallets!Call, Wallets!Ready, Wallets!storeVars
      <4> QED BY <4>1, WalletsLookedAt
    <3>2. CASE WalletId # {}
      BY <2>2, <3>2, LookingCalls
    <3> QED BY <3>1, <3>2
  <2>3. ASSUME NEW id \in WalletId,
               \/ \E a \in {{}, Address} : Wallets!CreateWallet(t, id, a)
               \/ Wallets!DeleteWallet(t, id)
               \/ \E force \in BOOLEAN : Wallets!SyncWallet(t, id, force)
               \/ \E a \in Address : Wallets!AddAddress(t, id, a)
               \/ Wallets!GenerateAddress(t, id)
               \/ \E p \in Payments : Wallets!SelectCoins(t, id, p) \/ Wallets!SelectOwn(t, id, p)
        PROVE  WalletsInv'
    BY <2>3, CreateKeepsWallets, DeleteKeepsWallets, AddAddressKeepsWallets, LookingCalls
  <2> QED BY <1>4, <2>1, <2>2, <2>3 DEF Wallets!Request
<1> QED BY <1>1, <1>2, <1>3, <1>4, ServiceSteps

(* A restart, at any point of any saves, deletions and synchronisations of   *)
(* any threads, brings every wallet back with its addresses and no other     *)
(* one, unless it was being saved or deleted or its file was spoiled         *)
(* (_save_wallet, delete_wallet, _load_wallets).                             *)
THEOREM RestartAlwaysKeepsWallets == Spec => RestartKeepsWallets
<1>1. FramesTyped /\ WalletsInv /\ [Next]_vars => WalletsInv'
  BY WalletsStep
<1>2. WalletsInv /\ [Next]_vars =>
        [Restart => \A id \in WalletId :
           Saving(id) \/ id \in spoiled \/
           IF wallets[id] = None THEN wallets'[id] = None
           ELSE /\ wallets'[id] # None
                /\ objects'[wallets'[id]].addresses = objects[wallets[id]].addresses]_vars
  <2> SUFFICES ASSUME WalletsInv, Restart, NEW id \in WalletId, ~Saving(id), id \notin spoiled
               PROVE  IF wallets[id] = None THEN wallets'[id] = None
                      ELSE /\ wallets'[id] # None
                           /\ objects'[wallets'[id]].addresses = objects[wallets[id]].addresses
    OBVIOUS
  <2>1. Saved(id)
    BY DEF WalletsInv
  <2>2. /\ \A i \in WalletId \ Wallets!Loaded : wallets'[i] = None
        /\ \A i \in Wallets!Loaded : wallets'[i] # None /\ objects'[wallets'[i]] = files[i].wallet
    BY RestartLoads DEF WalletsInv
  <2> QED BY <2>1, <2>2 DEF Saved, Wallets!Loaded
<1> QED BY <1>1, <1>2, WalletsInitially, FramesInductive, PTL DEF Spec, RestartKeepsWallets
=============================================================================
