---------------------------- MODULE NodePoolProofs ----------------------------
(***************************************************************************)
(* Theorems about NodePool, for any urls, threads and scopes.              *)
(***************************************************************************)
EXTENDS NodePool, FiniteSetTheorems, TLAPS

Status == {"disconnected", "healthy", "degraded", "unhealthy"}

NodeInfo == [url : Url, enabled : BOOLEAN, status : Status, failures : Nat]

Pc == {"idle", "dead", "call", "record", "emit", "next", "test"}

Frame == [pc : Pc, url : Url \cup {None}, ok : BOOLEAN, todo : SUBSET Nat]

FrameTyped == frame \in [Process -> Frame]

\* Objects are numbered as they are created, and the callbacks know them all.
PoolTyped ==
    /\ \E n \in Nat : DOMAIN object = 1 .. n
    /\ object \in [DOMAIN object -> NodeInfo]
    /\ told \in [DOMAIN object -> Status]
    /\ Known \subseteq Url
    /\ nodes \in [Known -> DOMAIN object]

\* An object is known under one url.
ObjectsDiffer == \A u, v \in Known : nodes[u] = nodes[v] => u = v

\* The lock is held across steps by the thread that announces a change only.
LockOwner == \A p \in Process : At(p, "emit") <=> lock = p

\* A node whose status the callbacks do not know is the one being announced,
\* and the url it is announced under names it.
ChangesAnnounced ==
    /\ \A u \in Known : told[nodes[u]] # Node(u).status =>
         \E p \in Process : At(p, "emit") /\ frame[p].url = u
    /\ \A p \in Process : At(p, "emit") =>
         /\ frame[p].url \in Known
         /\ told[nodes[frame[p].url]] # Node(frame[p].url).status

\* Only the thread the pool remembers is alive, and none while one is to be
\* spawned.
OneAlive ==
    /\ \A l \in Loop : Alive(l) => l = thread
    /\ control = "spawn" => \A l \in Loop : ~ Alive(l)

IInv ==
    /\ FrameTyped /\ PoolTyped /\ ObjectsDiffer
    /\ LockOwner /\ ChangesAnnounced /\ OneAlive

-----------------------------------------------------------------------------

(* Nothing is lost while nobody announces.                                  *)
LEMMA NobodyAnnounces ==
    ASSUME LockOwner, lock = None
    PROVE  \A p \in Process : ~ At(p, "emit")
BY PoolAssumption DEF LockOwner, Process

(* A new object gets a number no object has.                                *)
LEMMA NewNumber ==
    ASSUME PoolTyped
    PROVE  \E n \in Nat : /\ DOMAIN object = 1 .. n
                          /\ Cardinality(DOMAIN object) + 1 = n + 1
<1>1. PICK n \in Nat : DOMAIN object = 1 .. n
  BY DEF PoolTyped
<1>2. Cardinality(1 .. n) = n
  BY FS_Interval
<1> QED BY <1>1, <1>2

(* A step in which a thread that announces nothing goes on, and nothing else *)
(* happens.                                                                 *)
LEMMA GoesOn ==
    ASSUME IInv, NEW p \in Process, NEW f \in Frame,
           frame[p].pc # "emit", f.pc # "emit", f.pc # "dead" => frame[p].pc # "dead",
           frame' = [frame EXCEPT ![p] = f],
           UNCHANGED <<pool, lock, thread, control, told>>
    PROVE  IInv'
<1> USE DEF IInv, pool
<1>1. FrameTyped'
  BY DEF FrameTyped
<1>2. PoolTyped'
  BY DEF PoolTyped, Known
<1>3. ObjectsDiffer'
  BY DEF ObjectsDiffer, Known
<1>4. \A q \in Process : /\ At(q, "emit")' <=> At(q, "emit")
                         /\ At(q, "emit") => frame'[q] = frame[q]
                         /\ ~ At(q, "dead")' => ~ At(q, "dead")
  BY DEF FrameTyped, At
<1>5. LockOwner'
  BY <1>4 DEF LockOwner
<1>6. ChangesAnnounced'
  BY <1>4 DEF ChangesAnnounced, Known, Node
<1>7. OneAlive'
  BY <1>4 DEF OneAlive, Alive, Process
<1> QED BY <1>1, <1>2, <1>3, <1>5, <1>6, <1>7

(* A step that changes neither the nodes nor the threads nor control.       *)
LEMMA NothingMoves ==
    ASSUME IInv, UNCHANGED <<pool, lock, frame, thread, told>>,
           control' = control \/ control' = "idle" \/ control' = "join"
    PROVE  IInv'
BY DEF IInv, pool, FrameTyped, PoolTyped, Known, ObjectsDiffer, LockOwner, At,
       ChangesAnnounced, Node, OneAlive, Alive

(* A new object starts with the status the callbacks know.                  *)
LEMMA AddNodeKeeps ==
    ASSUME IInv, NEW u \in Url, AddNode(u)
    PROVE  IInv'
<1> USE DEF IInv, AddNode, NewNode
<1>1. FrameTyped'
  BY DEF FrameTyped, Frame, Pc, Process, Resting, At
<1>2. PoolTyped'
  <2>1. PICK n \in Nat : DOMAIN object = 1 .. n /\ Cardinality(DOMAIN object) + 1 = n + 1
    BY NewNumber
  <2>2. DOMAIN object' = 1 .. n + 1 /\ n + 1 \in Nat
    BY <2>1
  <2>3. NewNode(u) \in NodeInfo /\ "disconnected" \in Status
    BY DEF NodeInfo, Status
  <2>4. object' \in [DOMAIN object' -> NodeInfo] /\ told' \in [DOMAIN object' -> Status]
    BY <2>1, <2>3 DEF PoolTyped
  <2>5. Known' \subseteq Url /\ nodes' \in [Known' -> DOMAIN object']
    BY <2>1, <2>2 DEF PoolTyped, Known
  <2> QED BY <2>2, <2>4, <2>5 DEF PoolTyped
<1>3. ObjectsDiffer'
  <2>1. PICK n \in Nat : DOMAIN object = 1 .. n /\ Cardinality(DOMAIN object) + 1 = n + 1
    BY NewNumber
  <2>2. \A v \in Known : nodes[v] # n + 1
    BY <2>1 DEF PoolTyped
  <2>3. nodes' = [v \in Known \cup {u} |-> IF v = u THEN n + 1 ELSE nodes[v]]
    BY <2>1
  <2> QED BY <2>2, <2>3 DEF ObjectsDiffer, Known
<1>4. LockOwner'
  BY PoolAssumption DEF LockOwner, FrameTyped, Frame, Pc, Process, Resting, At
<1>5. ChangesAnnounced'
  <2>1. PICK n \in Nat : DOMAIN object = 1 .. n /\ Cardinality(DOMAIN object) + 1 = n + 1
    BY NewNumber
  <2>2. \A v \in Known \ {u} : /\ nodes'[v] = nodes[v] /\ nodes[v] \in 1 .. n
                               /\ told'[nodes[v]] = told[nodes[v]]
                               /\ object'[nodes[v]] = object[nodes[v]]
    BY <2>1 DEF PoolTyped, Known
  <2>3. told'[nodes'[u]] = "disconnected" /\ object'[nodes'[u]].status = "disconnected"
    BY <2>1 DEF PoolTyped, Known
  <2>4. \A v \in Known : told[nodes[v]] = Node(v).status
    BY NobodyAnnounces DEF ChangesAnnounced
  <2>5. \A p \in Process : ~ At(p, "emit")'
    BY NobodyAnnounces DEF At
  <2>6. Known' = Known \cup {u}
    BY DEF Known
  <2>7. \A v \in Known \cup {u} : told'[nodes'[v]] = object'[nodes'[v]].status
    <3> SUFFICES ASSUME NEW v \in Known, v # u PROVE told'[nodes'[v]] = object'[nodes'[v]].status
      BY <2>3
    <3>1. told[nodes[v]] = object[nodes[v]].status
      BY <2>4 DEF Node
    <3> QED BY <2>2, <3>1
  <2> QED BY <2>5, <2>6, <2>7 DEF ChangesAnnounced, Node
<1>6. OneAlive'
  BY DEF OneAlive, Alive, At, lifecycle
<1> QED BY <1>1, <1>2, <1>3, <1>4, <1>5, <1>6

(* A node is removed while no change is being announced.                    *)
LEMMA RemoveNodeKeeps ==
    ASSUME IInv, NEW u \in Url, RemoveNode(u)
    PROVE  IInv'
<1> USE DEF IInv, RemoveNode
<1>1. FrameTyped'
  BY DEF FrameTyped, Frame, Pc, Process, Resting, At
<1>2. PoolTyped'
  BY DEF PoolTyped, Known, pool, Node
<1>3. ObjectsDiffer'
  BY DEF ObjectsDiffer, Known, pool
<1>4. LockOwner'
  BY PoolAssumption DEF LockOwner, FrameTyped, Frame, Pc, Process, Resting, At
<1>5. ChangesAnnounced'
  BY NobodyAnnounces DEF ChangesAnnounced, Known, Node, pool, FrameTyped, Frame, Pc, Process, Resting, At
<1>6. OneAlive'
  BY PoolAssumption DEF OneAlive, Alive, lifecycle, FrameTyped, Frame, Pc, Process, Resting, At
<1> QED BY <1>1, <1>2, <1>3, <1>4, <1>5, <1>6

(* Enabling does not touch the status.                                      *)
LEMMA SetNodeEnabledKeeps ==
    ASSUME IInv, NEW u \in Url, NEW e \in BOOLEAN, SetNodeEnabled(u, e)
    PROVE  IInv'
<1> USE DEF IInv, SetNodeEnabled
<1>1. FrameTyped'
  BY DEF FrameTyped, Frame, Pc, Process, Resting, At
<1>2. PoolTyped'
  <2>1. nodes[u] \in DOMAIN object /\ object[nodes[u]] \in NodeInfo
    BY DEF PoolTyped
  <2>2. [object[nodes[u]] EXCEPT !.enabled = e] \in NodeInfo
    BY <2>1 DEF NodeInfo
  <2>3. object' \in [DOMAIN object -> NodeInfo] /\ DOMAIN object' = DOMAIN object
    BY <2>2 DEF PoolTyped
  <2> QED BY <2>3 DEF PoolTyped, Known
<1>3. ObjectsDiffer'
  BY DEF ObjectsDiffer, Known, pool
<1>4. LockOwner'
  BY PoolAssumption DEF LockOwner, FrameTyped, Frame, Pc, Process, Resting, At
<1>5. ChangesAnnounced'
  <2>1. \A v \in Known : object'[nodes[v]].status = object[nodes[v]].status
    BY DEF PoolTyped, NodeInfo
  <2> QED BY <2>1 DEF ChangesAnnounced, Known, Node, At
<1>6. OneAlive'
  BY DEF OneAlive, Alive, At, lifecycle
<1> QED BY <1>1, <1>2, <1>3, <1>4, <1>5, <1>6

(* Selecting only reads.                                                    *)
LEMMA SelectNodeKeeps ==
    ASSUME IInv, NEW p \in Process, SelectNode(p)
    PROVE  IInv'
<1>1. PICK u \in Eligible : frame' = [frame EXCEPT ![p].pc = "call", ![p].url = u]
  BY DEF SelectNode
<1> DEFINE f == [frame[p] EXCEPT !.pc = "call", !.url = u]
<1>2. frame[p] \in Frame /\ u \in Url
  BY DEF IInv, FrameTyped, Eligible, PoolTyped
<1>3. f \in Frame /\ f.pc = "call" /\ frame[p].pc = "idle"
  BY <1>2 DEF Frame, Pc, SelectNode, At
<1>4. frame' = [frame EXCEPT ![p] = f]
  BY <1>1
<1>5. UNCHANGED <<pool, lock, thread, control, told>>
  BY DEF SelectNode, lifecycle
<1> QED BY <1>3, <1>4, <1>5, GoesOn

(* A request only reads.                                                    *)
LEMMA RequestKeeps ==
    ASSUME IInv, NEW p \in Process, Request(p)
    PROVE  IInv'
<1> DEFINE f == [frame[p] EXCEPT !.pc = "record", !.ok = frame[p].url \in up]
<1>1. frame[p] \in Frame /\ p \in Process
  BY DEF IInv, FrameTyped, Process
<1>0. (frame[p].url \in up) \in BOOLEAN
  OBVIOUS
<1>2. f \in Frame /\ f.pc # "emit" /\ frame[p].pc # "emit"
      /\ (f.pc # "dead" => frame[p].pc # "dead")
  BY <1>1, <1>0 DEF Request, Frame, Pc, At, Resting, IInv, PoolTyped, NodeInfo, Process
<1>3. frame' = [frame EXCEPT ![p] = f]
  BY DEF Request, Resting, IInv, FrameTyped, Frame
<1>4. UNCHANGED <<pool, lock, thread, control, told>>
  BY DEF Request, lifecycle
<1> QED BY <1>1, <1>2, <1>3, <1>4, GoesOn

(* A changed status is announced before the lock is released.               *)
LEMMA RecordRequestKeeps ==
    ASSUME IInv, NEW p \in Process, RecordRequest(p)
    PROVE  IInv'
<1> DEFINE after == IF p \in App THEN Resting(p)
                    ELSE [Resting(p) EXCEPT !.pc = "next", !.todo = frame[p].todo]
<1>0. PICK u : u = frame[p].url
  OBVIOUS
<1>1. frame[p] \in Frame /\ frame[p].pc = "record" /\ lock = None
  BY DEF IInv, FrameTyped, RecordRequest, At
<1>2. after \in Frame /\ after.pc \notin {"emit", "dead"}
  BY <1>1 DEF Frame, Pc, Resting
<1>3. CASE u \notin Known
  <2>1. frame' = [frame EXCEPT ![p] = after] /\ UNCHANGED <<pool, lock, thread, control, told>>
    BY <1>0, <1>3 DEF RecordRequest, After, lifecycle
  <2> QED BY <1>1, <1>2, <2>1, GoesOn
<1>4. CASE u \in Known
  <2> DEFINE n == Counted(Node(u).failures, frame[p].ok)
  <2>1. PICK status \in EvaluateStatus(n) :
           /\ object' = [object EXCEPT ![nodes[u]] =
                           [Node(u) EXCEPT !.failures = n, !.status = status]]
           /\ IF status # Node(u).status
              THEN lock' = p /\ frame' = [frame EXCEPT ![p].pc = "emit"]
              ELSE frame' = [frame EXCEPT ![p] = after] /\ lock' = lock
    BY <1>0, <1>4 DEF RecordRequest, After, Goto
  <2>0. n \in Nat /\ status \in Status
    BY <1>4, <2>1 DEF IInv, PoolTyped, Node, NodeInfo, Counted, EvaluateStatus, Status
  <2> HIDE DEF n
  <2>2. UNCHANGED <<nodes, thread, control, told>>
    BY <1>0, <1>4 DEF RecordRequest, lifecycle
  <2>3. /\ nodes[u] \in DOMAIN object /\ object[nodes[u]] \in NodeInfo
        /\ [Node(u) EXCEPT !.failures = n, !.status = status] \in NodeInfo
        /\ [Node(u) EXCEPT !.failures = n, !.status = status].status = status
    BY <1>4, <2>0 DEF IInv, PoolTyped, Node, NodeInfo
  <2>4. object'[nodes[u]].status = status
    BY <2>1, <2>3
  <2>5. \A v \in Known \ {u} : object'[nodes'[v]] = object[nodes[v]]
    BY <1>4, <2>1, <2>2, <2>3 DEF IInv, ObjectsDiffer, PoolTyped
  <2>6. \A v \in Known : told[nodes[v]] = Node(v).status
    BY <1>1, NobodyAnnounces DEF IInv, ChangesAnnounced
  <2>7. \A q \in Process : frame[q].pc # "emit"
    BY <1>1, NobodyAnnounces DEF IInv, At
  <2>8. PoolTyped' /\ ObjectsDiffer'
    <3>1. object' \in [DOMAIN object -> NodeInfo] /\ DOMAIN object' = DOMAIN object
      BY <2>1, <2>3 DEF IInv, PoolTyped
    <3> QED BY <2>2, <3>1 DEF IInv, PoolTyped, ObjectsDiffer, Known
  <2>9. OneAlive'
    <3>1. \A l \in Loop : ~ At(l, "dead")' => ~ At(l, "dead")
      BY <1>1, <2>1 DEF IInv, FrameTyped, At, Process
    <3> QED BY <2>2, <3>1 DEF IInv, OneAlive, Alive
  <2>10. CASE status = Node(u).status
    <3>1. frame' = [frame EXCEPT ![p] = after] /\ lock' = None
      BY <1>1, <2>1, <2>10
    <3>2. FrameTyped' /\ \A q \in Process : frame'[q].pc # "emit"
      BY <1>2, <2>7, <3>1 DEF IInv, FrameTyped
    <3>3. LockOwner'
      BY <3>1, <3>2, PoolAssumption DEF LockOwner, At, Process
    <3>4. \A v \in Known' : told'[nodes'[v]] = Node(v)'.status
      BY <2>2, <2>4, <2>5, <2>6, <2>10 DEF Node, Known
    <3>5. ChangesAnnounced'
      BY <3>2, <3>4 DEF ChangesAnnounced, At
    <3> QED BY <2>8, <2>9, <3>2, <3>3, <3>5 DEF IInv
  <2>11. CASE status # Node(u).status
    <3>1. frame' = [frame EXCEPT ![p].pc = "emit"] /\ lock' = p
      BY <2>1, <2>11
    <3>2. /\ FrameTyped'
          /\ frame'[p].pc = "emit" /\ frame'[p].url = u
          /\ \A q \in Process \ {p} : frame'[q].pc # "emit"
      BY <1>0, <1>1, <2>7, <3>1 DEF IInv, FrameTyped, Frame, Pc
    <3>3. LockOwner'
      BY <3>1, <3>2 DEF LockOwner, At
    <3>4. \A v \in Known \ {u} : told'[nodes'[v]] = Node(v)'.status
      BY <2>2, <2>5, <2>6 DEF Node, Known
    <3>5. told'[nodes'[u]] # Node(u)'.status
      BY <1>4, <2>2, <2>4, <2>6, <2>11 DEF Node
    <3>6. ChangesAnnounced'
      BY <1>4, <2>2, <3>2, <3>4, <3>5 DEF ChangesAnnounced, At, Known
    <3> QED BY <2>8, <2>9, <3>2, <3>3, <3>6 DEF IInv
  <2> QED BY <2>10, <2>11
<1> QED BY <1>3, <1>4

(* The callbacks are told the status the node has.                          *)
LEMMA EmitStatusChangeKeeps ==
    ASSUME IInv, NEW p \in Process, EmitStatusChange(p)
    PROVE  IInv'
<1> DEFINE after == IF p \in App THEN Resting(p)
                    ELSE [Resting(p) EXCEPT !.pc = "next", !.todo = frame[p].todo]
<1>0. PICK u : u = frame[p].url
  OBVIOUS
<1>1. /\ frame[p] \in Frame /\ frame[p].pc = "emit" /\ At(p, "emit")
      /\ lock' = None /\ frame' = [frame EXCEPT ![p] = after]
      /\ told' = [told EXCEPT ![nodes[u]] = object[nodes[u]].status]
      /\ UNCHANGED <<nodes, object, thread, control>>
  BY <1>0 DEF IInv, FrameTyped, EmitStatusChange, At, After, pool, lifecycle
<1>2. after \in Frame /\ after.pc \notin {"emit", "dead"}
  BY <1>1 DEF Frame, Pc, Resting
<1>3. u \in Known /\ nodes[u] \in DOMAIN object
  BY <1>0, <1>1 DEF IInv, ChangesAnnounced, PoolTyped
<1>4. \A q \in Process \ {p} : frame[q].pc # "emit"
  BY <1>1 DEF IInv, LockOwner, At
<1>5. FrameTyped' /\ \A q \in Process : frame'[q].pc # "emit"
  BY <1>1, <1>2, <1>4 DEF IInv, FrameTyped
<1>6. PoolTyped' /\ ObjectsDiffer'
  <2>1. object[nodes[u]].status \in Status
    BY <1>3 DEF IInv, PoolTyped, NodeInfo
  <2>2. told' \in [DOMAIN object -> Status]
    BY <1>1, <2>1 DEF IInv, PoolTyped
  <2> QED BY <1>1, <2>2 DEF IInv, PoolTyped, ObjectsDiffer, Known
<1>7. LockOwner'
  BY <1>1, <1>5, PoolAssumption DEF LockOwner, At, Process
<1>8. ChangesAnnounced'
  <2>1. \A v \in Known \ {u} : told[nodes[v]] = Node(v).status /\ nodes[v] # nodes[u]
    BY <1>0, <1>1, <1>3, <1>4 DEF IInv, ChangesAnnounced, ObjectsDiffer, At
  <2>2. \A v \in Known' : told'[nodes'[v]] = Node(v)'.status
    BY <1>1, <1>3, <2>1 DEF IInv, PoolTyped, Node, Known
  <2> QED BY <1>5, <2>2 DEF ChangesAnnounced, At
<1>9. OneAlive'
  <2>1. \A l \in Loop : ~ At(l, "dead")' => ~ At(l, "dead")
    BY <1>1 DEF IInv, FrameTyped, At, Process
  <2> QED BY <1>1, <2>1 DEF IInv, OneAlive, Alive
<1> QED BY <1>5, <1>6, <1>7, <1>8, <1>9 DEF IInv

(* The loop ends, or takes a snapshot.                                      *)
LEMMA LoopTestKeeps ==
    ASSUME IInv, NEW l \in Loop, LoopTest(l)
    PROVE  IInv'
<1> DEFINE f == IF stopping THEN Resting(l)
                ELSE [Resting(l) EXCEPT !.pc = "next", !.todo = {nodes[u] : u \in Known}]
<1>1. frame[l] \in Frame /\ l \in Process
  BY DEF IInv, FrameTyped, Process
<1>0. {nodes[u] : u \in Known} \subseteq Nat
  BY DEF IInv, PoolTyped
<1>2. f \in Frame /\ f.pc # "emit" /\ frame[l].pc # "emit"
      /\ (f.pc # "dead" => frame[l].pc # "dead")
  BY <1>1, <1>0, PoolAssumption DEF LoopTest, Frame, Pc, At, Resting, IInv, PoolTyped, NodeInfo, Process
<1>3. frame' = [frame EXCEPT ![l] = f]
  BY DEF LoopTest, Resting, IInv, FrameTyped, Frame
<1>4. UNCHANGED <<pool, lock, thread, control, told>>
  BY DEF LoopTest, lifecycle
<1> QED BY <1>1, <1>2, <1>3, <1>4, GoesOn

(* The loop takes the url of an object of its snapshot.                     *)
LEMMA CheckNodeKeeps ==
    ASSUME IInv, NEW l \in Loop, NEW i \in DOMAIN object, CheckNode(l, i)
    PROVE  IInv'
<1> DEFINE f == IF object[i].enabled
                THEN [frame[l] EXCEPT !.todo = frame[l].todo \ {i}, !.pc = "call", !.url = object[i].url]
                ELSE [frame[l] EXCEPT !.todo = frame[l].todo \ {i}]
<1>1. frame[l] \in Frame /\ l \in Process
  BY DEF IInv, FrameTyped, Process
<1>2. f \in Frame /\ f.pc # "emit" /\ frame[l].pc # "emit"
      /\ (f.pc # "dead" => frame[l].pc # "dead")
  BY <1>1 DEF CheckNode, Frame, Pc, At, Resting, IInv, PoolTyped, NodeInfo, Process
<1>3. frame' = [frame EXCEPT ![l] = f]
  BY DEF CheckNode, Resting, IInv, FrameTyped, Frame
<1>4. UNCHANGED <<pool, lock, thread, control, told>>
  BY DEF CheckNode, lifecycle
<1> QED BY <1>1, <1>2, <1>3, <1>4, GoesOn

(* The loop has checked every node.                                         *)
LEMMA LoopWaitKeeps ==
    ASSUME IInv, NEW l \in Loop, LoopWait(l)
    PROVE  IInv'
<1> DEFINE f == [frame[l] EXCEPT !.pc = "test"]
<1>1. frame[l] \in Frame /\ l \in Process
  BY DEF IInv, FrameTyped, Process
<1>2. f \in Frame /\ f.pc # "emit" /\ frame[l].pc # "emit"
      /\ (f.pc # "dead" => frame[l].pc # "dead")
  BY <1>1 DEF LoopWait, Goto, Frame, Pc, At, Resting, IInv, PoolTyped, NodeInfo, Process
<1>3. frame' = [frame EXCEPT ![l] = f]
  BY DEF LoopWait, Goto, Resting, IInv, FrameTyped, Frame
<1>4. UNCHANGED <<pool, lock, thread, control, told>>
  BY DEF LoopWait, Goto, lifecycle
<1> QED BY <1>1, <1>2, <1>3, <1>4, GoesOn

(* The checks are started when no loop is alive.                            *)
LEMMA StartHealthChecksKeeps ==
    ASSUME IInv, StartHealthChecks
    PROVE  IInv'
<1>1. \A l \in Loop : ~ Alive(l)
  BY DEF IInv, OneAlive, StartHealthChecks
<1> QED BY <1>1 DEF IInv, StartHealthChecks, pool, FrameTyped, PoolTyped, Known, ObjectsDiffer,
                    LockOwner, At, ChangesAnnounced, Node, OneAlive, Alive

(* The loop spawned is the one remembered.                                  *)
LEMMA SpawnThreadKeeps ==
    ASSUME IInv, SpawnThread
    PROVE  IInv'
<1>1. PICK l \in scope.loops : At(l, "dead") /\ thread' = l /\ frame' = [frame EXCEPT ![l].pc = "test"]
  BY DEF SpawnThread, Goto
<1>2. /\ control = "spawn" /\ control' = "idle"
      /\ UNCHANGED <<nodes, object, lock, told>>
  BY DEF SpawnThread, pool
<1>3. CASE l \notin Process
  <2>1. frame' = frame
    BY <1>1, <1>3 DEF IInv, FrameTyped
  <2>2. \A k \in Loop : ~ Alive(k)'
    BY <1>2, <2>1 DEF IInv, OneAlive, Alive, At
  <2> QED BY <1>2, <2>1, <2>2 DEF IInv, FrameTyped, PoolTyped, Known, ObjectsDiffer,
                    LockOwner, At, ChangesAnnounced, Node, OneAlive
<1>4. CASE l \in Process
  <2>1. /\ FrameTyped'
        /\ \A q \in Process : /\ At(q, "emit")' <=> At(q, "emit")
                              /\ At(q, "emit") => frame'[q] = frame[q]
                              /\ q # l /\ ~ At(q, "dead")' => ~ At(q, "dead")
    BY <1>1, <1>4 DEF IInv, FrameTyped, Frame, Pc, At
  <2>2. OneAlive'
    BY <1>1, <1>2, <2>1 DEF IInv, OneAlive, Alive, Process
  <2> QED BY <1>2, <2>1, <2>2 DEF IInv, PoolTyped, Known, ObjectsDiffer, LockOwner,
                                   ChangesAnnounced, Node
<1> QED BY <1>3, <1>4

-----------------------------------------------------------------------------

(* The strengthened invariant holds in every reachable state.               *)
THEOREM Inductive == Spec => []IInv
<1>1. Init => IInv
  <2> SUFFICES ASSUME Init PROVE IInv
    OBVIOUS
  <2>1. FrameTyped /\ \A p \in Process : frame[p].pc \in {"idle", "dead"}
    BY DEF Init, FrameTyped, Frame, Pc, Resting
  <2>2. DOMAIN object = 1 .. 0 /\ DOMAIN told = {} /\ Known = {}
    BY DEF Init, Known
  <2>3. PoolTyped /\ ObjectsDiffer
    BY <2>2 DEF Init, PoolTyped, ObjectsDiffer
  <2>4. LockOwner
    BY <2>1, PoolAssumption DEF Init, LockOwner, At, Process
  <2>5. ChangesAnnounced
    BY <2>1, <2>2 DEF ChangesAnnounced, At
  <2>6. OneAlive
    BY PoolAssumption DEF Init, OneAlive, Alive, At, Process, Resting
  <2> QED BY <2>1, <2>3, <2>4, <2>5, <2>6 DEF IInv
<1>2. IInv /\ [Next]_vars => IInv'
  <2> SUFFICES ASSUME IInv, [Next]_vars PROVE IInv'
    OBVIOUS
  <2>1. ASSUME NEW u \in Url, Flip(u) PROVE IInv'
    BY <2>1, NothingMoves DEF Flip, lifecycle
  <2>2. ASSUME NEW p \in Process, Work(p) PROVE IInv'
    BY <2>2, RequestKeeps, RecordRequestKeeps, EmitStatusChangeKeeps, LoopTestKeeps,
       LoopWaitKeeps, CheckNodeKeeps DEF Work
  <2>3. CASE StopHealthChecks \/ JoinReturns
    BY <2>3, NothingMoves DEF StopHealthChecks, JoinReturns
  <2>4. CASE UNCHANGED vars
    BY <2>4, NothingMoves DEF vars, lifecycle
  <2> QED BY <2>1, <2>2, <2>3, <2>4, AddNodeKeeps, RemoveNodeKeeps, SetNodeEnabledKeeps,
             SelectNodeKeeps, StartHealthChecksKeeps, SpawnThreadKeeps DEF Next
<1> QED BY <1>1, <1>2, PTL DEF Spec

(* The listeners of status changes know every node's status, however many    *)
(* threads report results while nodes come and go (_record, _emit_status_change). *)
THEOREM StatusFollowed == Spec => []ListenersKnowStatus
<1>1. IInv => ListenersKnowStatus
  BY NobodyAnnounces DEF IInv, ChangesAnnounced, ListenersKnowStatus
<1> QED BY <1>1, Inductive, PTL

(* start_health_checks never leaves two loops running, although the stop     *)
(* before it may have given up waiting.                                     *)
THEOREM NeverTwoLoops == Spec => []OneLoop
<1>1. IInv => OneLoop
  <2> SUFFICES ASSUME IInv PROVE OneLoop
    OBVIOUS
  <2>1. {l \in Loop : Alive(l)} \subseteq {thread}
    BY DEF IInv, OneAlive
  <2>2. IsFiniteSet({thread}) /\ Cardinality({thread}) = 1
    BY FS_Singleton
  <2>3. Cardinality({l \in Loop : Alive(l)}) <= 1
    BY <2>1, <2>2, FS_Subset
  <2> QED BY <2>3 DEF OneLoop
<1> QED BY <1>1, Inductive, PTL
===============================================================================
