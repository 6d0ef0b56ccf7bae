------------------------- MODULE MempoolServiceProofs -------------------------
(***************************************************************************)
(* Theorems about MempoolService, for any threads, transactions, workloads *)
(* and bounds.                                                             *)
(***************************************************************************)
EXTENDS MempoolService, TLAPS

Entry == [status : {"pending", "confirmed", "removed"}, confirmations : Nat, id : Nat]

Pc == {"idle", "mempool", "read", "rpc", "fill", "raise", "loop", "compare", "copy",
       "test", "lookup", "mark"}

Frame == [op : {"none", "get", "update", "diff"}, pc : Pc, todo : SUBSET Tx, tx : Tx \cup {None},
          id : Nat, confirmed : SUBSET Tx, began : SUBSET (Tx \X Nat), pool : SUBSET Tx]

NodeTyped ==
    /\ pool \subseteq Tx /\ mined \subseteq Tx
    /\ cache = None \/ cache \subseteq Tx
    /\ failures \in Nat

\* Objects are numbered as they are created.
TrackedTyped ==
    /\ Ids \subseteq Tx
    /\ tracked \in [Ids -> Entry]
    /\ tracks \in Nat
    /\ \A tx \in Ids : tracked[tx].id <= tracks

FrameTyped == frame \in [Thread -> Frame]

\* Where the operations can be, and who may run them.
Shaped ==
    \A t \in Thread : LET f == frame[t] IN
        /\ f.pc \in {"loop", "compare"} => f.op = "update"
        /\ f.pc \in {"copy", "test", "lookup", "mark"} => f.op = "diff"
        /\ f.pc = "read" => f.op # "diff"
        /\ f.op \in {"update", "diff"} => f.op \in runs[t]

\* The lock is held across steps by update_tracked_transactions only.
LockOwner == \A t \in Thread : frame[t].op = "update" <=> lock = t

\* What update has yet to look at is tracked, and what it asks the pool about is
\* pending: under the lock, unless a difference is marked without it.
Looping ==
    \A t \in Thread : LET f == frame[t] IN f.op = "update" =>
        /\ f.todo \subseteq Ids
        /\ f.pc \in {"mempool", "read", "rpc", "fill", "compare"} =>
             /\ f.tx \in f.todo
             /\ DiffUndisturbed => tracked[f.tx].status = "pending"

\* The object a difference is about to mark is the tracked one, or none is, and
\* it has not been confirmed.
Marking ==
    DiffUndisturbed => \A t \in Thread : LET f == frame[t] IN
        /\ f.pc \in {"lookup", "mark"} => f.tx \in f.todo
        /\ f.pc = "mark" /\ f.tx \in Ids =>
             tracked[f.tx].id = f.id /\ tracked[f.tx].status # "confirmed"

\* What the pool does not hold, and what an answer did not hold, was absent
\* since it is tracked.
Absence ==
    /\ Ids \ pool \subseteq absent
    /\ DiffUndisturbed /\ failures = 0 => \A t \in Thread : LET f == frame[t] IN
         /\ f.op = "diff" /\ f.pc \in {"fill", "copy"} => Ids \ f.pool \subseteq absent
         /\ f.pc \in {"test", "lookup", "mark"} => f.todo \cap Ids \subseteq absent

IInv ==
    /\ NodeTyped /\ TrackedTyped /\ FrameTyped /\ Shaped /\ LockOwner
    /\ Looping /\ Marking /\ Absence
    /\ PendingIsUntold /\ RemovedByDiffMeansLeft

-----------------------------------------------------------------------------

(* A confirmation changes the status of one entry.                          *)
LEMMA ConfirmedTyped ==
    ASSUME TrackedTyped, NEW tx \in Ids
    PROVE  /\ Confirmed(tx) \in [Ids -> Entry]
           /\ \A x \in Ids : Confirmed(tx)[x].id = tracked[x].id
<1>1. tracked[tx] \in Entry /\ tracked \in [Ids -> Entry]
  BY DEF TrackedTyped
<1>2. PICK n \in Nat : n = tracked[tx].confirmations + 1
  BY <1>1 DEF Entry
<1> DEFINE e == [tracked[tx] EXCEPT !.status = "confirmed", !.confirmations = n]
<1>3. e \in Entry /\ e.id = tracked[tx].id
  BY <1>1 DEF Entry
<1>4. Confirmed(tx) = [tracked EXCEPT ![tx] = e]
  BY <1>2 DEF Confirmed
<1> HIDE DEF e
<1> QED BY <1>1, <1>3, <1>4

(* Where a call of get_mempool goes on depends on who made it.              *)
LEMMA ResumeGoesOn ==
    ASSUME IInv, NEW t \in Thread, NEW ids \in SUBSET Tx, Resume(t, ids)
    PROVE  \E f \in Frame :
             /\ frame' = [frame EXCEPT ![t] = f]
             /\ f.op = IF frame[t].op \in {"update", "diff"} THEN frame[t].op ELSE "none"
             /\ f.pc = CASE f.op = "update" -> "compare" [] f.op = "diff" -> "copy" [] OTHER -> "idle"
             /\ f.op # "none" => f = [frame[t] EXCEPT !.pc = f.pc, !.pool = ids]
<1>1. frame[t] \in Frame
  BY DEF IInv, FrameTyped
<1>2. CASE frame[t].op = "update"
  <2> DEFINE f == [frame[t] EXCEPT !.pc = "compare", !.pool = ids]
  <2>1. f \in Frame /\ f.op = "update" /\ f.pc = "compare"
    BY <1>1, <1>2 DEF Frame, Pc
  <2>2. frame' = [frame EXCEPT ![t] = f]
    BY <1>2 DEF Resume
  <2> HIDE DEF f
  <2>3. f = [frame[t] EXCEPT !.pc = f.pc, !.pool = ids]
    BY <2>1 DEF f
  <2> QED BY <1>2, <2>1, <2>2, <2>3
<1>3. CASE frame[t].op = "diff"
  <2> DEFINE f == [frame[t] EXCEPT !.pc = "copy", !.pool = ids]
  <2>1. f \in Frame /\ f.op = "diff" /\ f.pc = "copy"
    BY <1>1, <1>3 DEF Frame, Pc
  <2>2. frame' = [frame EXCEPT ![t] = f]
    BY <1>3 DEF Resume
  <2> HIDE DEF f
  <2>3. f = [frame[t] EXCEPT !.pc = f.pc, !.pool = ids]
    BY <2>1 DEF f
  <2> QED BY <1>3, <2>1, <2>2, <2>3
<1>4. CASE frame[t].op \notin {"update", "diff"}
  <2>1. Idle \in Frame /\ Idle.op = "none" /\ Idle.pc = "idle"
    BY DEF Frame, Pc, Idle
  <2>2. frame' = [frame EXCEPT ![t] = Idle]
    BY <1>4 DEF Resume
  <2> HIDE DEF Idle
  <2> QED BY <1>4, <2>1, <2>2
<1> QED BY <1>2, <1>3, <1>4

(* After an answer update_tracked_transactions still holds the lock and has *)
(* a pending entry, and check_mempool_diff the tracked ids it can copy.     *)
LEMMA ResumeKeeps ==
    ASSUME IInv, NEW t \in Thread, NEW ids \in SUBSET Tx, Resume(t, ids),
           frame[t].pc \in {"read", "rpc", "fill"},
           frame[t].op = "diff" /\ DiffUndisturbed /\ failures' = 0 => Ids \ ids \subseteq absent,
           failures' = 0 => failures = 0,
           UNCHANGED <<node, lock, tracked, tracks, history>>
    PROVE  FrameTyped' /\ Shaped' /\ LockOwner' /\ Looping' /\ Marking' /\ Absence'
<1>1. PICK f \in Frame :
             /\ frame' = [frame EXCEPT ![t] = f]
             /\ f.op = IF frame[t].op \in {"update", "diff"} THEN frame[t].op ELSE "none"
             /\ f.pc = CASE f.op = "update" -> "compare" [] f.op = "diff" -> "copy" [] OTHER -> "idle"
             /\ f.op # "none" => f = [frame[t] EXCEPT !.pc = f.pc, !.pool = ids]
  BY ResumeGoesOn
<1>2. /\ frame[t] \in Frame
      /\ f.op # "none" => f.todo = frame[t].todo /\ f.tx = frame[t].tx /\ f.pool = ids
  BY <1>1 DEF IInv, FrameTyped, Frame
<1>3. /\ f.pc = "compare" <=> f.op = "update"
      /\ f.pc = "copy" <=> f.op = "diff"
      /\ f.pc \in {"compare", "copy", "idle"}
      /\ f.op \in {"none", "update", "diff"}
      /\ f.op # "none" => f.op = frame[t].op
      /\ f.op = "update" <=> frame[t].op = "update"
  BY <1>1, <1>2 DEF Frame
<1>4. FrameTyped'
  BY <1>1 DEF IInv, FrameTyped
<1>5. \A u \in Thread : frame'[u] = IF u = t THEN f ELSE frame[u]
  BY <1>1 DEF IInv, FrameTyped
<1>6. Shaped'
  BY <1>3, <1>5 DEF IInv, Shaped, node
<1>7. LockOwner'
  BY <1>3, <1>5 DEF IInv, LockOwner
<1>8. Looping'
  BY <1>2, <1>3, <1>5 DEF IInv, Looping, Ids, DiffUndisturbed, node
<1>9. Marking'
  BY <1>3, <1>5 DEF IInv, Marking, Ids, DiffUndisturbed, node
<1>10. Absence'
  BY <1>2, <1>3, <1>5 DEF IInv, Absence, Ids, DiffUndisturbed, node, history
<1> QED BY <1>4, <1>6, <1>7, <1>8, <1>9, <1>10

(* A tracked transaction that leaves the pool was absent.                   *)
LEMMA NodeMovesKeeps ==
    ASSUME IInv, NEW p \in SUBSET Tx, NEW m \in SUBSET Tx, NodeMoves(p, m)
    PROVE  IInv'
<1> USE DEF IInv, NodeMoves
<1>1. NodeTyped'
  BY DEF NodeTyped, node, cached, history, Ids
<1>2. TrackedTyped'
  BY DEF node, cached, history, Ids, TrackedTyped, Entry
<1>3. FrameTyped'
  BY DEF node, cached, history, Ids, FrameTyped, Frame, Pc, Idle
<1>4. Shaped'
  BY DEF node, cached, history, Ids, Shaped, FrameTyped, Frame, Pc, Idle
<1>5. LockOwner'
  BY BoundsAssumption DEF node, cached, history, Ids, LockOwner, FrameTyped, Frame, Idle
<1>6. Looping'
  BY DEF node, cached, history, Ids, Looping, DiffUndisturbed, LockOwner, Shaped, FrameTyped, Frame, Idle
<1>7. Marking'
  BY DEF node, cached, history, Ids, Marking, DiffUndisturbed, Shaped, FrameTyped, Frame, Idle
<1>8. Absence'
  BY DEF node, cached, history, Ids, Absence, DiffUndisturbed, Shaped, FrameTyped, Frame, Idle
<1>9. PendingIsUntold'
  BY DEF node, cached, history, Ids, PendingIsUntold, DiffUndisturbed
<1>10. RemovedByDiffMeansLeft'
  BY DEF node, cached, history, Ids, RemovedByDiffMeansLeft, RemovedMeansLeft, FromDiffOnly, DiffUndisturbed
<1> QED BY <1>1, <1>2, <1>3, <1>4, <1>5, <1>6, <1>7, <1>8, <1>9, <1>10

(* A new entry starts without a past, and is absent or in the pool.         *)
LEMMA TrackKeeps ==
    ASSUME IInv, NEW t \in Thread, NEW tx \in Tx, Track(t, tx)
    PROVE  IInv'
<1> USE DEF IInv, Track, Can, ForgetHistory
<1>1. NodeTyped'
  BY DEF NodeTyped, node, cached, history, Ids
<1>2. TrackedTyped'
  <2>1. tracked' \in [Ids \cup {tx} -> Entry]
    BY DEF TrackedTyped, Entry
  <2>2. Ids' = Ids \cup {tx}
    BY DEF Ids
  <2> QED BY <2>1, <2>2 DEF TrackedTyped, Entry
<1>3. FrameTyped'
  BY DEF node, cached, history, Ids, FrameTyped, Frame, Pc, Idle
<1>4. Shaped'
  BY DEF node, cached, history, Ids, Shaped, FrameTyped, Frame, Pc, Idle
<1>5. LockOwner'
  BY BoundsAssumption DEF node, cached, history, Ids, LockOwner, FrameTyped, Frame, Idle
<1>6. Looping'
  <2>1. \A u \in Thread : frame[u].op # "update"
    BY BoundsAssumption DEF LockOwner
  <2> QED BY <2>1 DEF Looping
<1>7. Marking'
  BY DEF node, cached, history, Ids, Marking, DiffUndisturbed, Shaped, FrameTyped, Frame, Idle
<1>8. Absence'
  BY DEF node, cached, history, Ids, Absence, DiffUndisturbed, Shaped, FrameTyped, Frame, Idle
<1>9. PendingIsUntold'
  BY DEF node, cached, history, Ids, PendingIsUntold, DiffUndisturbed
<1>10. RemovedByDiffMeansLeft'
  BY DEF node, cached, history, Ids, RemovedByDiffMeansLeft, RemovedMeansLeft, FromDiffOnly, DiffUndisturbed
<1> QED BY <1>1, <1>2, <1>3, <1>4, <1>5, <1>6, <1>7, <1>8, <1>9, <1>10

(* An entry goes with its past, while nobody iterates.                      *)
LEMMA UntrackKeeps ==
    ASSUME IInv, NEW t \in Thread, NEW tx \in Tx, Untrack(t, tx)
    PROVE  IInv'
<1> USE DEF IInv, Untrack, Can, ForgetHistory
<1>1. NodeTyped'
  BY DEF NodeTyped, node, cached, history, Ids
<1>2. TrackedTyped'
  BY DEF node, cached, history, Ids, TrackedTyped, Entry
<1>3. FrameTyped'
  BY DEF node, cached, history, Ids, FrameTyped, Frame, Pc, Idle
<1>4. Shaped'
  BY DEF node, cached, history, Ids, Shaped, FrameTyped, Frame, Pc, Idle
<1>5. LockOwner'
  BY BoundsAssumption DEF node, cached, history, Ids, LockOwner, FrameTyped, Frame, Idle
<1>6. Looping'
  <2>1. \A u \in Thread : frame[u].op # "update"
    BY BoundsAssumption DEF LockOwner
  <2> QED BY <2>1 DEF Looping
<1>7. Marking'
  BY DEF node, cached, history, Ids, Marking, DiffUndisturbed, Shaped, FrameTyped, Frame, Idle
<1>8. Absence'
  BY DEF node, cached, history, Ids, Absence, DiffUndisturbed, Shaped, FrameTyped, Frame, Idle
<1>9. PendingIsUntold'
  BY DEF node, cached, history, Ids, PendingIsUntold, DiffUndisturbed
<1>10. RemovedByDiffMeansLeft'
  BY DEF node, cached, history, Ids, RemovedByDiffMeansLeft, RemovedMeansLeft, FromDiffOnly, DiffUndisturbed
<1> QED BY <1>1, <1>2, <1>3, <1>4, <1>5, <1>6, <1>7, <1>8, <1>9, <1>10

(* A confirmation is told when the status changes.                          *)
LEMMA MarkConfirmedKeeps ==
    ASSUME IInv, NEW t \in Thread, NEW tx \in Tx, MarkConfirmed(t, tx)
    PROVE  IInv'
<1> USE DEF IInv, MarkConfirmed, Can, Confirmed
<1>1. NodeTyped'
  BY DEF NodeTyped, node, cached, history, Ids
<1>2. TrackedTyped'
  BY ConfirmedTyped DEF TrackedTyped, Ids
<1>3. FrameTyped'
  BY DEF node, cached, history, Ids, FrameTyped, Frame, Pc, Idle
<1>4. Shaped'
  BY DEF node, cached, history, Ids, Shaped, FrameTyped, Frame, Pc, Idle
<1>5. LockOwner'
  BY BoundsAssumption DEF node, cached, history, Ids, LockOwner, FrameTyped, Frame, Idle
<1>6. Looping'
  <2>1. \A u \in Thread : frame[u].op # "update"
    BY BoundsAssumption DEF LockOwner
  <2> QED BY <2>1 DEF Looping
<1>7. Marking'
  BY DEF node, cached, history, Ids, Marking, DiffUndisturbed, Shaped, FrameTyped, Frame, Idle
<1>8. Absence'
  BY DEF node, cached, history, Ids, Absence, DiffUndisturbed, Shaped, FrameTyped, Frame, Idle
<1>9. PendingIsUntold'
  BY DEF node, cached, history, Ids, PendingIsUntold, DiffUndisturbed
<1>10. RemovedByDiffMeansLeft'
  BY DEF node, cached, history, Ids, RemovedByDiffMeansLeft, RemovedMeansLeft, FromDiffOnly, DiffUndisturbed
<1> QED BY <1>1, <1>2, <1>3, <1>4, <1>5, <1>6, <1>7, <1>8, <1>9, <1>10

(* The cache is emptied.                                                    *)
LEMMA ClearCacheKeeps ==
    ASSUME IInv, NEW t \in Thread, ClearCache(t)
    PROVE  IInv'
<1> USE DEF IInv, ClearCache, Can
<1>1. NodeTyped'
  BY DEF NodeTyped, node, cached, history, Ids
<1>2. TrackedTyped'
  BY DEF node, cached, history, Ids, TrackedTyped, Entry
<1>3. FrameTyped'
  BY DEF node, cached, history, Ids, FrameTyped, Frame, Pc, Idle
<1>4. Shaped'
  BY DEF node, cached, history, Ids, Shaped, FrameTyped, Frame, Pc, Idle
<1>5. LockOwner'
  BY BoundsAssumption DEF node, cached, history, Ids, LockOwner, FrameTyped, Frame, Idle
<1>6. Looping'
  BY DEF node, cached, history, Ids, Looping, DiffUndisturbed, LockOwner, Shaped, FrameTyped, Frame, Idle
<1>7. Marking'
  BY DEF node, cached, history, Ids, Marking, DiffUndisturbed, Shaped, FrameTyped, Frame, Idle
<1>8. Absence'
  BY DEF node, cached, history, Ids, Absence, DiffUndisturbed, Shaped, FrameTyped, Frame, Idle
<1>9. PendingIsUntold'
  BY DEF node, cached, history, Ids, PendingIsUntold, DiffUndisturbed
<1>10. RemovedByDiffMeansLeft'
  BY DEF node, cached, history, Ids, RemovedByDiffMeansLeft, RemovedMeansLeft, FromDiffOnly, DiffUndisturbed
<1> QED BY <1>1, <1>2, <1>3, <1>4, <1>5, <1>6, <1>7, <1>8, <1>9, <1>10

(* check_mempool_diff does not read the cache.                              *)
LEMMA TestCacheKeeps ==
    ASSUME IInv, NEW t \in Thread, TestCache(t)
    PROVE  IInv'
<1> USE DEF IInv, TestCache
<1>1. NodeTyped'
  BY DEF NodeTyped, node, cached, history, Ids
<1>2. TrackedTyped'
  BY DEF node, cached, history, Ids, TrackedTyped, Entry
<1>3. FrameTyped'
  BY DEF node, cached, history, Ids, FrameTyped, Frame, Pc, Idle
<1>4. Shaped'
  BY DEF node, cached, history, Ids, Shaped, FrameTyped, Frame, Pc, Idle
<1>5. LockOwner'
  BY BoundsAssumption DEF node, cached, history, Ids, LockOwner, FrameTyped, Frame, Idle
<1>6. Looping'
  BY DEF node, cached, history, Ids, Looping, DiffUndisturbed, LockOwner, Shaped, FrameTyped, Frame, Idle
<1>7. Marking'
  BY DEF node, cached, history, Ids, Marking, DiffUndisturbed, Shaped, FrameTyped, Frame, Idle
<1>8. Absence'
  BY DEF node, cached, history, Ids, Absence, DiffUndisturbed, Shaped, FrameTyped, Frame, Idle
<1>9. PendingIsUntold'
  BY DEF node, cached, history, Ids, PendingIsUntold, DiffUndisturbed
<1>10. RemovedByDiffMeansLeft'
  BY DEF node, cached, history, Ids, RemovedByDiffMeansLeft, RemovedMeansLeft, FromDiffOnly, DiffUndisturbed
<1> QED BY <1>1, <1>2, <1>3, <1>4, <1>5, <1>6, <1>7, <1>8, <1>9, <1>10

(* The cache is read, or is gone.                                           *)
LEMMA ReadCacheKeeps ==
    ASSUME IInv, NEW t \in Thread, ReadCache(t)
    PROVE  IInv'
<1> USE DEF IInv, ReadCache
<1>a. ASSUME cache = None
      PROVE  FrameTyped' /\ Shaped' /\ LockOwner' /\ Looping' /\ Marking' /\ Absence'
  <2> DEFINE f == [frame[t] EXCEPT !.pc = "raise"]
  <2>1. f \in Frame /\ f.pc = "raise" /\ f.op = frame[t].op
    BY DEF FrameTyped, Frame, Pc
  <2>2. frame' = [frame EXCEPT ![t] = f]
    BY <1>a
  <2>3. \A u \in Thread : frame'[u] = IF u = t THEN f ELSE frame[u]
    BY <2>2 DEF FrameTyped
  <2>7. f.todo = frame[t].todo
    BY DEF FrameTyped, Frame
  <2> HIDE DEF f
  <2>4. FrameTyped'
    BY <2>1, <2>2 DEF FrameTyped
  <2>5. Shaped' /\ LockOwner' /\ Marking' /\ Absence'
    BY <2>1, <2>3 DEF Shaped, LockOwner, Marking, Absence, node, history, Ids, DiffUndisturbed
  <2>6. Looping'
    BY <2>1, <2>3, <2>7 DEF Looping, node, Ids, DiffUndisturbed
  <2> QED BY <2>4, <2>5, <2>6
<1>b. ASSUME cache # None
      PROVE  FrameTyped' /\ Shaped' /\ LockOwner' /\ Looping' /\ Marking' /\ Absence'
  BY <1>b, ResumeKeeps DEF NodeTyped, Shaped
<1>1. NodeTyped'
  BY DEF NodeTyped, node, cached, history, Ids
<1>2. TrackedTyped'
  BY DEF node, cached, history, Ids, TrackedTyped, Entry
<1>3. FrameTyped'
  BY <1>a, <1>b
<1>4. Shaped'
  BY <1>a, <1>b
<1>5. LockOwner'
  BY <1>a, <1>b
<1>6. Looping'
  BY <1>a, <1>b
<1>7. Marking'
  BY <1>a, <1>b
<1>8. Absence'
  BY <1>a, <1>b
<1>9. PendingIsUntold'
  BY DEF node, cached, history, Ids, PendingIsUntold, DiffUndisturbed
<1>10. RemovedByDiffMeansLeft'
  BY DEF node, cached, history, Ids, RemovedByDiffMeansLeft, RemovedMeansLeft, FromDiffOnly, DiffUndisturbed
<1> QED BY <1>1, <1>2, <1>3, <1>4, <1>5, <1>6, <1>7, <1>8, <1>9, <1>10

(* An exception ends the operation and releases the lock.                   *)
LEMMA PropagateKeeps ==
    ASSUME IInv, NEW t \in Thread, Propagate(t)
    PROVE  IInv'
<1> USE DEF IInv, Propagate, Unlocked
<1>1. NodeTyped'
  BY DEF NodeTyped, node, cached, history, Ids
<1>2. TrackedTyped'
  BY DEF node, cached, history, Ids, TrackedTyped, Entry
<1>3. FrameTyped'
  BY DEF node, cached, history, Ids, FrameTyped, Frame, Pc, Idle
<1>4. Shaped'
  BY DEF node, cached, history, Ids, Shaped, FrameTyped, Frame, Pc, Idle
<1>5. LockOwner'
  BY BoundsAssumption DEF node, cached, history, Ids, LockOwner, FrameTyped, Frame, Idle
<1>6. Looping'
  BY DEF node, cached, history, Ids, Looping, DiffUndisturbed, LockOwner, Shaped, FrameTyped, Frame, Idle
<1>7. Marking'
  BY DEF node, cached, history, Ids, Marking, DiffUndisturbed, Shaped, FrameTyped, Frame, Idle
<1>8. Absence'
  BY DEF node, cached, history, Ids, Absence, DiffUndisturbed, Shaped, FrameTyped, Frame, Idle
<1>9. PendingIsUntold'
  BY DEF node, cached, history, Ids, PendingIsUntold, DiffUndisturbed
<1>10. RemovedByDiffMeansLeft'
  BY DEF node, cached, history, Ids, RemovedByDiffMeansLeft, RemovedMeansLeft, FromDiffOnly, DiffUndisturbed
<1> QED BY <1>1, <1>2, <1>3, <1>4, <1>5, <1>6, <1>7, <1>8, <1>9, <1>10

(* The answer is kept, or there was a failure.                              *)
LEMMA GetRawMempoolKeeps ==
    ASSUME IInv, NEW t \in Thread, GetRawMempool(t)
    PROVE  IInv'
<1> USE DEF IInv, GetRawMempool
<1>a. FrameTyped' /\ Shaped' /\ LockOwner' /\ Looping' /\ Marking' /\ Absence'
  <2>1. CASE failures' = failures + 1 /\ Resume(t, {})
    <3>1. failures' \in Nat /\ failures' # 0
      BY <2>1 DEF NodeTyped
    <3> QED BY <2>1, <3>1, ResumeKeeps
  <2>2. CASE failures' = failures /\ frame' = [frame EXCEPT ![t].pc = "fill", ![t].pool = pool]
    <3> DEFINE f == [frame[t] EXCEPT !.pc = "fill", !.pool = pool]
    <3>a. frame[t] \in Frame /\ pool \in SUBSET Tx /\ frame[t].pc = "rpc"
      BY DEF NodeTyped, FrameTyped
    <3>2. frame' = [frame EXCEPT ![t] = f]
      BY <2>2
    <3>b. UNCHANGED <<node, lock, tracked, absent>>
      BY DEF history
    <3> HIDE DEF GetRawMempool
    <3>1. /\ f \in Frame /\ f.pc = "fill" /\ f.op = frame[t].op /\ f.pool = pool
          /\ f.todo = frame[t].todo /\ f.tx = frame[t].tx
      <4> HIDE DEF IInv
      <4> QED BY <3>a DEF Frame, Pc
    <3>3. \A u \in Thread : frame'[u] = IF u = t THEN f ELSE frame[u]
      BY <3>2 DEF FrameTyped
    <3> HIDE DEF f
    <3>4. FrameTyped'
      BY <3>1, <3>2 DEF FrameTyped
    <3>5. Shaped' /\ LockOwner'
      BY <3>1, <3>3, <3>b DEF Shaped, LockOwner, node
    <3>6. Looping'
      BY <3>1, <3>3, <3>a, <3>b DEF Looping, node, Ids, DiffUndisturbed
    <3>7. Marking'
      BY <3>1, <3>3, <3>b DEF Marking, node, Ids, DiffUndisturbed
    <3>8. Absence'
      BY <2>2, <3>1, <3>3, <3>b DEF Absence, node, Ids, DiffUndisturbed
    <3> QED BY <3>4, <3>5, <3>6, <3>7, <3>8
  <2> QED BY <2>1, <2>2
<1>b. failures' = 0 => failures = 0
  BY DEF NodeTyped
<1>1. NodeTyped'
  BY DEF NodeTyped, node, cached, history, Ids
<1>2. TrackedTyped'
  BY DEF node, cached, history, Ids, TrackedTyped, Entry
<1>3. PendingIsUntold'
  BY DEF node, cached, history, Ids, PendingIsUntold, DiffUndisturbed
<1>4. RemovedByDiffMeansLeft'
  BY <1>b DEF node, cached, history, Ids, RemovedByDiffMeansLeft, RemovedMeansLeft, FromDiffOnly, DiffUndisturbed
<1> QED BY <1>a, <1>1, <1>2, <1>3, <1>4

(* The answer becomes the cache.                                            *)
LEMMA FillCacheKeeps ==
    ASSUME IInv, NEW t \in Thread, FillCache(t)
    PROVE  IInv'
<1> USE DEF IInv, FillCache
<1>a. frame[t].pool \in SUBSET Tx
  BY DEF FrameTyped, Frame
<1>b. FrameTyped' /\ Shaped' /\ LockOwner' /\ Looping' /\ Marking' /\ Absence'
  BY <1>a, ResumeKeeps DEF Absence
<1>1. NodeTyped'
  BY <1>a DEF NodeTyped, node, history
<1>2. TrackedTyped'
  BY DEF node, cached, history, Ids, TrackedTyped, Entry
<1>3. PendingIsUntold'
  BY DEF node, cached, history, Ids, PendingIsUntold, DiffUndisturbed
<1>4. RemovedByDiffMeansLeft'
  BY DEF node, cached, history, Ids, RemovedByDiffMeansLeft, RemovedMeansLeft, FromDiffOnly, DiffUndisturbed
<1> QED BY <1>b, <1>1, <1>2, <1>3, <1>4

(* get_mempool begins.                                                      *)
LEMMA GetMempoolKeeps ==
    ASSUME IInv, NEW t \in Thread, GetMempool(t)
    PROVE  IInv'
<1> USE DEF IInv, GetMempool, Can
<1>1. NodeTyped'
  BY DEF NodeTyped, node, cached, history, Ids
<1>2. TrackedTyped'
  BY DEF node, cached, history, Ids, TrackedTyped, Entry
<1>3. FrameTyped'
  BY DEF node, cached, history, Ids, FrameTyped, Frame, Pc, Idle
<1>4. Shaped'
  BY DEF node, cached, history, Ids, Shaped, FrameTyped, Frame, Pc, Idle
<1>5. LockOwner'
  BY BoundsAssumption DEF node, cached, history, Ids, LockOwner, FrameTyped, Frame, Idle
<1>6. Looping'
  BY DEF node, cached, history, Ids, Looping, DiffUndisturbed, LockOwner, Shaped, FrameTyped, Frame, Idle
<1>7. Marking'
  BY DEF node, cached, history, Ids, Marking, DiffUndisturbed, Shaped, FrameTyped, Frame, Idle
<1>8. Absence'
  BY DEF node, cached, history, Ids, Absence, DiffUndisturbed, Shaped, FrameTyped, Frame, Idle
<1>9. PendingIsUntold'
  BY DEF node, cached, history, Ids, PendingIsUntold, DiffUndisturbed
<1>10. RemovedByDiffMeansLeft'
  BY DEF node, cached, history, Ids, RemovedByDiffMeansLeft, RemovedMeansLeft, FromDiffOnly, DiffUndisturbed
<1> QED BY <1>1, <1>2, <1>3, <1>4, <1>5, <1>6, <1>7, <1>8, <1>9, <1>10

(* update_tracked_transactions takes the lock and the tracked ids.          *)
LEMMA UpdateKeeps ==
    ASSUME IInv, NEW t \in Thread, NEW ids \in SUBSET mined, Update(t, ids)
    PROVE  IInv'
<1> USE DEF IInv, Update, Can
<1>1. NodeTyped'
  BY DEF NodeTyped, node, cached, history, Ids
<1>2. TrackedTyped'
  BY DEF node, cached, history, Ids, TrackedTyped, Entry
<1>3. FrameTyped'
  <2> DEFINE f == [Idle EXCEPT !.op = "update", !.pc = "loop", !.todo = Ids,
                               !.confirmed = ids, !.began = Entries]
  <2>1. Entries \in SUBSET (Tx \X Nat)
    BY DEF Entries, TrackedTyped, Entry
  <2>3. f \in Frame
    BY <2>1 DEF Ids, NodeTyped, TrackedTyped, FrameTyped, Frame, Pc, Idle
  <2>2. frame' = [frame EXCEPT ![t] = f]
    OBVIOUS
  <2> HIDE DEF f
  <2> QED BY <2>2, <2>3 DEF FrameTyped
<1>4. Shaped'
  BY DEF node, cached, history, Ids, Shaped, FrameTyped, Frame, Pc, Idle
<1>5. LockOwner'
  BY BoundsAssumption DEF node, cached, history, Ids, LockOwner, FrameTyped, Frame, Idle
<1>6. Looping'
  BY DEF node, cached, history, Ids, Looping, DiffUndisturbed, LockOwner, Shaped, FrameTyped, Frame, Idle
<1>7. Marking'
  BY DEF node, cached, history, Ids, Marking, DiffUndisturbed, Shaped, FrameTyped, Frame, Idle
<1>8. Absence'
  BY DEF node, cached, history, Ids, Absence, DiffUndisturbed, Shaped, FrameTyped, Frame, Idle
<1>9. PendingIsUntold'
  BY DEF node, cached, history, Ids, PendingIsUntold, DiffUndisturbed
<1>10. RemovedByDiffMeansLeft'
  BY DEF node, cached, history, Ids, RemovedByDiffMeansLeft, RemovedMeansLeft, FromDiffOnly, DiffUndisturbed
<1> QED BY <1>1, <1>2, <1>3, <1>4, <1>5, <1>6, <1>7, <1>8, <1>9, <1>10

(* A confirmation found by the loop is told.                                *)
LEMMA UpdateConfirmedKeeps ==
    ASSUME IInv, NEW t \in Thread, NEW tx \in Tx, UpdateConfirmed(t, tx)
    PROVE  IInv'
<1> USE DEF IInv, UpdateConfirmed, InLoop, Confirmed, Done
<1>1. NodeTyped'
  BY DEF NodeTyped, node, cached, history, Ids
<1>2. TrackedTyped'
  <2>1. tx \in Ids
    BY DEF Looping, Shaped
  <2> QED BY <2>1, ConfirmedTyped DEF TrackedTyped, Ids
<1>3. FrameTyped'
  BY DEF node, cached, history, Ids, FrameTyped, Frame, Pc, Idle
<1>4. Shaped'
  BY DEF node, cached, history, Ids, Shaped, FrameTyped, Frame, Pc, Idle
<1>5. LockOwner'
  BY BoundsAssumption DEF node, cached, history, Ids, LockOwner, FrameTyped, Frame, Idle
<1>6. Looping'
  BY DEF node, cached, history, Ids, Looping, DiffUndisturbed, LockOwner, Shaped, FrameTyped, Frame, Idle
<1>7. Marking'
  BY DEF node, cached, history, Ids, Marking, DiffUndisturbed, Shaped, FrameTyped, Frame, Idle
<1>8. Absence'
  BY DEF node, cached, history, Ids, Absence, DiffUndisturbed, Shaped, FrameTyped, Frame, Idle
<1>9. PendingIsUntold'
  BY DEF node, cached, history, Ids, PendingIsUntold, DiffUndisturbed
<1>10. RemovedByDiffMeansLeft'
  BY DEF node, cached, history, Ids, RemovedByDiffMeansLeft, RemovedMeansLeft, FromDiffOnly, DiffUndisturbed
<1> QED BY <1>1, <1>2, <1>3, <1>4, <1>5, <1>6, <1>7, <1>8, <1>9, <1>10

(* The pool is asked about pending entries only.                            *)
LEMMA UpdatePendingKeeps ==
    ASSUME IInv, NEW t \in Thread, NEW tx \in Tx, UpdatePending(t, tx)
    PROVE  IInv'
<1> USE DEF IInv, UpdatePending, InLoop, Done
<1>1. NodeTyped'
  BY DEF NodeTyped, node, cached, history, Ids
<1>2. TrackedTyped'
  BY DEF node, cached, history, Ids, TrackedTyped, Entry
<1>3. FrameTyped'
  BY DEF node, cached, history, Ids, FrameTyped, Frame, Pc, Idle
<1>4. Shaped'
  BY DEF node, cached, history, Ids, Shaped, FrameTyped, Frame, Pc, Idle
<1>5. LockOwner'
  BY BoundsAssumption DEF node, cached, history, Ids, LockOwner, FrameTyped, Frame, Idle
<1>6. Looping'
  BY DEF node, cached, history, Ids, Looping, DiffUndisturbed, LockOwner, Shaped, FrameTyped, Frame, Idle
<1>7. Marking'
  BY DEF node, cached, history, Ids, Marking, DiffUndisturbed, Shaped, FrameTyped, Frame, Idle
<1>8. Absence'
  BY DEF node, cached, history, Ids, Absence, DiffUndisturbed, Shaped, FrameTyped, Frame, Idle
<1>9. PendingIsUntold'
  BY DEF node, cached, history, Ids, PendingIsUntold, DiffUndisturbed
<1>10. RemovedByDiffMeansLeft'
  BY DEF node, cached, history, Ids, RemovedByDiffMeansLeft, RemovedMeansLeft, FromDiffOnly, DiffUndisturbed
<1> QED BY <1>1, <1>2, <1>3, <1>4, <1>5, <1>6, <1>7, <1>8, <1>9, <1>10

(* An entry that was pending all the while is marked and told.              *)
LEMMA UpdateRemovedKeeps ==
    ASSUME IInv, NEW t \in Thread, UpdateRemoved(t)
    PROVE  IInv'
<1> USE DEF IInv, UpdateRemoved
<1>a. frame[t] \in Frame /\ frame[t].op = "update"
  BY DEF Shaped, FrameTyped
<1>b. PICK tx \in Tx : tx = frame[t].tx /\ tx \in Ids
  BY <1>a DEF Looping, Frame
<1>c. DiffUndisturbed => tracked[tx].status = "pending"
  BY <1>a, <1>b DEF Looping
<1>d. \/ tracked' = tracked /\ told' = told
      \/ tracked' = [tracked EXCEPT ![tx].status = "removed"] /\ told' = told \cup {<<"removed", tx>>}
  BY <1>b
<1>e. Ids' = Ids /\ \A x \in Ids : x # tx => tracked'[x] = tracked[x]
  BY <1>b, <1>d DEF Ids, TrackedTyped
<1>f. \/ told' = told /\ tracked' = tracked
      \/ told' = told \cup {<<"removed", tx>>} /\ tracked'[tx].status = "removed"
  BY <1>b, <1>d DEF Ids, TrackedTyped, Entry
<1>g. /\ frame' = [frame EXCEPT ![t] = frame'[t]] /\ frame'[t].pc = "loop"
      /\ frame'[t].op = "update" /\ frame'[t].todo = frame[t].todo \ {tx}
      /\ frame'[t].tx = None
  BY <1>a, <1>b DEF FrameTyped, Frame
<1>h. \A u \in Thread : u # t => frame'[u] = frame[u]
  BY <1>g DEF FrameTyped
<1>i. pool' = pool /\ runs' = runs /\ failures' = failures /\ lock' = lock /\ absent' = absent
  BY DEF node
<1>1. NodeTyped'
  BY DEF NodeTyped, node, cached, history, Ids
<1>2. TrackedTyped'
  <2>1. tracked' \in [Ids -> Entry] /\ \A x \in Ids : tracked'[x].id = tracked[x].id
    <3> DEFINE e == [tracked[tx] EXCEPT !.status = "removed"]
    <3>1. CASE tracked' = tracked
      BY <3>1 DEF TrackedTyped
    <3>2. CASE tx \in Ids /\ tracked' = [tracked EXCEPT ![tx].status = "removed"]
      <4>1. tracked[tx] \in Entry /\ tracked \in [Ids -> Entry]
        BY <3>2 DEF TrackedTyped
      <4>2. e \in Entry /\ e.id = tracked[tx].id /\ tracked' = [tracked EXCEPT ![tx] = e]
        BY <3>2, <4>1 DEF Entry
      <4> HIDE DEF e, UpdateRemoved, IInv
      <4> QED BY <3>2, <4>1, <4>2
    <3> QED BY <1>b, <1>d, <3>1, <3>2
  <2>2. tracks' = tracks
    OBVIOUS
  <2> HIDE DEF UpdateRemoved
  <2> QED BY <1>e, <2>1, <2>2 DEF TrackedTyped
<1>3. FrameTyped'
  <2> DEFINE f == [frame[t] EXCEPT !.pc = "loop", !.todo = @ \ {frame[t].tx}, !.tx = None, !.pool = {}]
  <2>1. f \in Frame
    <3> HIDE DEF IInv, UpdateRemoved
    <3> QED BY <1>a DEF Frame, Pc
  <2>2. frame' = [frame EXCEPT ![t] = f]
    OBVIOUS
  <2> HIDE DEF f
  <2> QED BY <2>1, <2>2 DEF FrameTyped
<1>4. Shaped'
  <2> HIDE DEF UpdateRemoved
  <2> QED BY <1>a, <1>g, <1>h, <1>i DEF Shaped
<1>5. LockOwner'
  <2> HIDE DEF UpdateRemoved
  <2> QED BY <1>a, <1>g, <1>h, <1>i DEF LockOwner
<1>6. Looping'
  <2> HIDE DEF UpdateRemoved
  <2>1. \A u \in Thread : u # t => frame[u].op # "update"
    BY <1>a DEF LockOwner
  <2>2. frame[t].todo \subseteq Ids
    BY <1>a DEF Looping
  <2> QED BY <1>3, <1>e, <1>g, <1>h, <2>1, <2>2 DEF Looping
<1>7. Marking'
  <2> HIDE DEF UpdateRemoved
  <2>1. ASSUME tx \in Ids PROVE tracked'[tx].id = tracked[tx].id
                                    /\ (tracked[tx].status # "confirmed" => tracked'[tx].status # "confirmed")
    BY <1>b, <1>d DEF TrackedTyped, Entry, Ids
  <2> QED BY <1>e, <1>f, <1>g, <1>h, <1>i, <2>1 DEF Marking, DiffUndisturbed
<1>8. Absence'
  <2> HIDE DEF UpdateRemoved
  <2> QED BY <1>e, <1>g, <1>h, <1>i DEF Absence, DiffUndisturbed
<1>9. PendingIsUntold'
  BY <1>b, <1>e, <1>f DEF node, PendingIsUntold, DiffUndisturbed
<1>10. RemovedByDiffMeansLeft'
  <2>1. ~FromDiffOnly
    BY <1>a DEF Shaped, FromDiffOnly
  <2> QED BY <2>1 DEF node, FromDiffOnly, RemovedByDiffMeansLeft
<1> QED BY <1>1, <1>2, <1>3, <1>4, <1>5, <1>6, <1>7, <1>8, <1>9, <1>10

(* The loop is over and releases the lock.                                  *)
LEMMA UpdateEndKeeps ==
    ASSUME IInv, NEW t \in Thread, UpdateEnd(t)
    PROVE  IInv'
<1> USE DEF IInv, UpdateEnd, InLoop
<1>1. NodeTyped'
  BY DEF NodeTyped, node, cached, history, Ids
<1>2. TrackedTyped'
  BY DEF node, cached, history, Ids, TrackedTyped, Entry
<1>3. FrameTyped'
  BY DEF node, cached, history, Ids, FrameTyped, Frame, Pc, Idle
<1>4. Shaped'
  BY DEF node, cached, history, Ids, Shaped, FrameTyped, Frame, Pc, Idle
<1>5. LockOwner'
  BY BoundsAssumption DEF node, cached, history, Ids, LockOwner, Shaped, FrameTyped, Frame, Idle
<1>6. Looping'
  BY DEF node, cached, history, Ids, Looping, DiffUndisturbed, LockOwner, Shaped, FrameTyped, Frame, Idle
<1>7. Marking'
  BY DEF node, cached, history, Ids, Marking, DiffUndisturbed, Shaped, FrameTyped, Frame, Idle
<1>8. Absence'
  BY DEF node, cached, history, Ids, Absence, DiffUndisturbed, Shaped, FrameTyped, Frame, Idle
<1>9. PendingIsUntold'
  BY DEF node, cached, history, Ids, PendingIsUntold, DiffUndisturbed
<1>10. RemovedByDiffMeansLeft'
  BY DEF node, cached, history, Ids, RemovedByDiffMeansLeft, RemovedMeansLeft, FromDiffOnly, DiffUndisturbed
<1> QED BY <1>1, <1>2, <1>3, <1>4, <1>5, <1>6, <1>7, <1>8, <1>9, <1>10

(* check_mempool_diff begins.                                               *)
LEMMA CheckDiffKeeps ==
    ASSUME IInv, NEW t \in Thread, CheckDiff(t)
    PROVE  IInv'
<1> USE DEF IInv, CheckDiff, Can
<1>1. NodeTyped'
  BY DEF NodeTyped, node, cached, history, Ids
<1>2. TrackedTyped'
  BY DEF node, cached, history, Ids, TrackedTyped, Entry
<1>3. FrameTyped'
  BY DEF node, cached, history, Ids, FrameTyped, Frame, Pc, Idle
<1>4. Shaped'
  BY DEF node, cached, history, Ids, Shaped, FrameTyped, Frame, Pc, Idle
<1>5. LockOwner'
  BY BoundsAssumption DEF node, cached, history, Ids, LockOwner, FrameTyped, Frame, Idle
<1>6. Looping'
  BY DEF node, cached, history, Ids, Looping, DiffUndisturbed, LockOwner, Shaped, FrameTyped, Frame, Idle
<1>7. Marking'
  BY DEF node, cached, history, Ids, Marking, DiffUndisturbed, Shaped, FrameTyped, Frame, Idle
<1>8. Absence'
  BY DEF node, cached, history, Ids, Absence, DiffUndisturbed, Shaped, FrameTyped, Frame, Idle
<1>9. PendingIsUntold'
  BY DEF node, cached, history, Ids, PendingIsUntold, DiffUndisturbed
<1>10. RemovedByDiffMeansLeft'
  BY DEF node, cached, history, Ids, RemovedByDiffMeansLeft, RemovedMeansLeft, FromDiffOnly, DiffUndisturbed
<1> QED BY <1>1, <1>2, <1>3, <1>4, <1>5, <1>6, <1>7, <1>8, <1>9, <1>10

(* The ids that are not in the answer are copied.                           *)
LEMMA CopyIdsKeeps ==
    ASSUME IInv, NEW t \in Thread, CopyIds(t)
    PROVE  IInv'
<1> USE DEF IInv, CopyIds
<1>1. NodeTyped'
  BY DEF NodeTyped, node, cached, history, Ids
<1>2. TrackedTyped'
  BY DEF node, cached, history, Ids, TrackedTyped, Entry
<1>3. FrameTyped'
  <2> DEFINE f == [Idle EXCEPT !.op = "diff", !.pc = "test", !.todo = Ids \ frame[t].pool]
  <2>1. f \in Frame
    BY DEF Ids, TrackedTyped, FrameTyped, Frame, Pc, Idle
  <2>2. frame' = [frame EXCEPT ![t] = f]
    OBVIOUS
  <2> HIDE DEF f
  <2> QED BY <2>1, <2>2 DEF FrameTyped
<1>4. Shaped'
  BY DEF node, cached, history, Ids, Shaped, FrameTyped, Frame, Pc, Idle
<1>5. LockOwner'
  BY BoundsAssumption DEF node, cached, history, Ids, LockOwner, FrameTyped, Frame, Idle
<1>6. Looping'
  BY DEF node, cached, history, Ids, Looping, DiffUndisturbed, LockOwner, Shaped, FrameTyped, Frame, Idle
<1>7. Marking'
  BY DEF node, cached, history, Ids, Marking, DiffUndisturbed, Shaped, FrameTyped, Frame, Idle
<1>8. Absence'
  BY DEF node, cached, history, Ids, Absence, DiffUndisturbed, Shaped, FrameTyped, Frame, Idle
<1>9. PendingIsUntold'
  BY DEF node, cached, history, Ids, PendingIsUntold, DiffUndisturbed
<1>10. RemovedByDiffMeansLeft'
  BY DEF node, cached, history, Ids, RemovedByDiffMeansLeft, RemovedMeansLeft, FromDiffOnly, DiffUndisturbed
<1> QED BY <1>1, <1>2, <1>3, <1>4, <1>5, <1>6, <1>7, <1>8, <1>9, <1>10

(* An id is still tracked.                                                  *)
LEMMA DiffTestKeeps ==
    ASSUME IInv, NEW t \in Thread, NEW tx \in Tx, DiffTest(t, tx)
    PROVE  IInv'
<1> USE DEF IInv, DiffTest
<1>a. frame[t] \in Frame /\ frame[t].op = "diff" /\ tx \in frame[t].todo
  BY DEF FrameTyped, Shaped
<1>b. frame' = [frame EXCEPT ![t] = frame'[t]]
  BY DEF FrameTyped
<1>c. \A u \in Thread : u # t => frame'[u] = frame[u]
  BY <1>b DEF FrameTyped
<1>d. /\ frame'[t].op = "diff" /\ frame'[t].pc \in {"test", "lookup"}
      /\ frame'[t].todo \subseteq frame[t].todo
  BY <1>a DEF FrameTyped, Frame
<1>e. frame'[t].pc = "lookup" => frame'[t].tx \in frame'[t].todo
  BY <1>a DEF FrameTyped, Frame
<1>f. /\ pool' = pool /\ runs' = runs /\ failures' = failures /\ lock' = lock
      /\ absent' = absent /\ tracked' = tracked /\ Ids' = Ids
  BY DEF node, history, Ids
<1>1. NodeTyped'
  BY DEF NodeTyped, node, cached, history, Ids
<1>2. TrackedTyped'
  BY DEF node, cached, history, Ids, TrackedTyped, Entry
<1>3. FrameTyped'
  <2> DEFINE f == IF tx \in Ids THEN [frame[t] EXCEPT !.pc = "lookup", !.tx = tx]
                  ELSE [frame[t] EXCEPT !.todo = frame[t].todo \ {tx}]
  <2>1. f \in Frame
    <3> HIDE DEF IInv, DiffTest
    <3> QED BY <1>a DEF Frame, Pc
  <2>2. frame' = [frame EXCEPT ![t] = f]
    OBVIOUS
  <2> HIDE DEF f
  <2> QED BY <2>1, <2>2 DEF FrameTyped
<1>4. Shaped'
  <2> HIDE DEF DiffTest
  <2> QED BY <1>a, <1>c, <1>d, <1>f DEF Shaped
<1>5. LockOwner'
  <2> HIDE DEF DiffTest
  <2> QED BY <1>a, <1>c, <1>d, <1>f DEF LockOwner
<1>6. Looping'
  <2> HIDE DEF DiffTest
  <2> QED BY <1>a, <1>c, <1>d, <1>f DEF Looping, DiffUndisturbed
<1>7. Marking'
  <2> HIDE DEF DiffTest
  <2> QED BY <1>a, <1>c, <1>d, <1>e, <1>f DEF Marking, DiffUndisturbed
<1>8. Absence'
  <2> HIDE DEF DiffTest
  <2>1. frame[t].pc = "test"
    BY DEF DiffTest
  <2> QED BY <1>c, <1>d, <1>f, <2>1 DEF Absence, DiffUndisturbed
<1>9. PendingIsUntold'
  BY DEF node, cached, history, Ids, PendingIsUntold, DiffUndisturbed
<1>10. RemovedByDiffMeansLeft'
  BY DEF node, cached, history, Ids, RemovedByDiffMeansLeft, RemovedMeansLeft, FromDiffOnly, DiffUndisturbed
<1> QED BY <1>1, <1>2, <1>3, <1>4, <1>5, <1>6, <1>7, <1>8, <1>9, <1>10

(* A pending object is found, another one, or none.                         *)
LEMMA DiffLookupKeeps ==
    ASSUME IInv, NEW t \in Thread, DiffLookup(t)
    PROVE  IInv'
<1> USE DEF IInv, DiffLookup
<1>a. frame[t] \in Frame /\ frame[t].op = "diff" /\ frame[t].pc = "lookup"
  BY DEF FrameTyped, Shaped
<1> DEFINE tx == frame[t].tx
<1>b. frame' = [frame EXCEPT ![t] = frame'[t]]
  BY DEF FrameTyped
<1>c. \A u \in Thread : u # t => frame'[u] = frame[u]
  BY <1>b DEF FrameTyped
<1>d. /\ frame'[t].op = "diff" /\ frame'[t].pc \in {"raise", "test", "mark"}
      /\ frame'[t].todo \subseteq frame[t].todo
  BY <1>a DEF FrameTyped, Frame
<1>e. frame'[t].pc = "mark" =>
        /\ tx \in Ids /\ tracked[tx].status = "pending" /\ frame'[t].tx = tx
        /\ frame'[t].id = tracked[tx].id /\ frame'[t].todo = frame[t].todo
  BY <1>a DEF FrameTyped, Frame
<1>f. /\ pool' = pool /\ runs' = runs /\ failures' = failures /\ lock' = lock
      /\ absent' = absent /\ tracked' = tracked /\ Ids' = Ids
  BY DEF node, history, Ids
<1>1. NodeTyped'
  BY DEF NodeTyped, node, cached, history, Ids
<1>2. TrackedTyped'
  BY DEF node, cached, history, Ids, TrackedTyped, Entry
<1>3. FrameTyped'
  <2> DEFINE f == IF tx \notin Ids THEN [frame[t] EXCEPT !.pc = "raise"]
                  ELSE IF tracked[tx].status = "pending"
                       THEN [frame[t] EXCEPT !.pc = "mark", !.id = tracked[tx].id]
                       ELSE [frame[t] EXCEPT !.pc = "test", !.todo = frame[t].todo \ {tx},
                                             !.tx = None]
  <2>1. f \in Frame
    <3>1. tx \in Ids => tracked[tx].id \in Nat
      BY DEF TrackedTyped, Entry
    <3> HIDE DEF IInv, DiffLookup
    <3> QED BY <1>a, <3>1 DEF Frame, Pc
  <2>2. frame' = [frame EXCEPT ![t] = f]
    OBVIOUS
  <2> HIDE DEF f
  <2> QED BY <2>1, <2>2 DEF FrameTyped
<1>4. Shaped'
  <2> HIDE DEF DiffLookup
  <2> QED BY <1>a, <1>c, <1>d, <1>f DEF Shaped
<1>5. LockOwner'
  <2> HIDE DEF DiffLookup
  <2> QED BY <1>a, <1>c, <1>d, <1>f DEF LockOwner
<1>6. Looping'
  <2> HIDE DEF DiffLookup
  <2> QED BY <1>a, <1>c, <1>d, <1>f DEF Looping, DiffUndisturbed
<1>7. Marking'
  <2> HIDE DEF DiffLookup
  <2> QED BY <1>a, <1>c, <1>d, <1>e, <1>f DEF Marking, DiffUndisturbed
<1>8. Absence'
  <2> HIDE DEF DiffLookup
  <2> QED BY <1>a, <1>c, <1>d, <1>f DEF Absence, DiffUndisturbed
<1>9. PendingIsUntold'
  BY DEF node, cached, history, Ids, PendingIsUntold, DiffUndisturbed
<1>10. RemovedByDiffMeansLeft'
  BY DEF node, cached, history, Ids, RemovedByDiffMeansLeft, RemovedMeansLeft, FromDiffOnly, DiffUndisturbed
<1> QED BY <1>1, <1>2, <1>3, <1>4, <1>5, <1>6, <1>7, <1>8, <1>9, <1>10

(* The object found is marked, and its id told.                             *)
LEMMA DiffMarkKeeps ==
    ASSUME IInv, NEW t \in Thread, DiffMark(t)
    PROVE  IInv'
<1> USE DEF IInv, DiffMark
<1>a. frame[t] \in Frame
  BY DEF FrameTyped
<1>b. PICK tx \in Tx \cup {None} : tx = frame[t].tx
  BY <1>a DEF Frame
<1>c. DiffUndisturbed /\ tx \in Ids => tracked[tx].id = frame[t].id
  BY <1>a, <1>b DEF Marking
<1>d. /\ tracked' = IF tx \in Ids /\ tracked[tx].id = frame[t].id
                    THEN [tracked EXCEPT ![tx].status = "removed"] ELSE tracked
      /\ told' = told \cup {<<"removed", tx>>}
  BY <1>b
<1>e. Ids' = Ids /\ \A x \in Ids : x # tx => tracked'[x] = tracked[x]
  BY <1>d DEF Ids, TrackedTyped
<1>f. DiffUndisturbed /\ tx \in Ids => tracked'[tx].status = "removed"
  BY <1>c, <1>d DEF Ids, TrackedTyped, Entry
<1>g. DiffUndisturbed /\ failures = 0 /\ tx \in Ids => tx \in absent
  BY <1>b DEF Absence, Marking
<1>h. frame[t].op = "diff" /\ frame' = [frame EXCEPT ![t] = frame'[t]]
  BY DEF FrameTyped, Shaped
<1>i. \A u \in Thread : u # t => frame'[u] = frame[u]
  BY <1>h DEF FrameTyped
<1>j. /\ frame'[t].op = "diff" /\ frame'[t].pc = "test"
      /\ frame'[t].todo = frame[t].todo \ {tx}
  BY <1>a, <1>b, <1>h DEF FrameTyped, Frame
<1>k. pool' = pool /\ runs' = runs /\ failures' = failures /\ lock' = lock /\ absent' = absent
  BY DEF node
<1>l. ASSUME tx \in Ids
      PROVE  /\ tracked'[tx].id = tracked[tx].id
             /\ tracked[tx].status # "confirmed" => tracked'[tx].status # "confirmed"
  BY <1>d, <1>l DEF TrackedTyped, Entry, Ids
<1>1. NodeTyped'
  BY DEF NodeTyped, node, cached, history, Ids
<1>2. TrackedTyped'
  <2>1. tracked' \in [Ids -> Entry] /\ \A x \in Ids : tracked'[x].id = tracked[x].id
    <3> DEFINE e == [tracked[tx] EXCEPT !.status = "removed"]
    <3>1. CASE tracked' = tracked
      BY <3>1 DEF TrackedTyped
    <3>2. CASE tx \in Ids /\ tracked' = [tracked EXCEPT ![tx].status = "removed"]
      <4>1. tracked[tx] \in Entry /\ tracked \in [Ids -> Entry]
        BY <3>2 DEF TrackedTyped
      <4>2. e \in Entry /\ e.id = tracked[tx].id /\ tracked' = [tracked EXCEPT ![tx] = e]
        BY <3>2, <4>1 DEF Entry
      <4> HIDE DEF e, DiffMark, IInv
      <4> QED BY <3>2, <4>1, <4>2
    <3> QED BY <1>b, <1>d, <3>1, <3>2
  <2>2. tracks' = tracks
    OBVIOUS
  <2> HIDE DEF DiffMark
  <2> QED BY <1>e, <2>1, <2>2 DEF TrackedTyped
<1>3. FrameTyped'
  <2> DEFINE f == [frame[t] EXCEPT !.pc = "test", !.todo = @ \ {frame[t].tx}, !.tx = None, !.id = 0]
  <2>1. f \in Frame
    <3> HIDE DEF IInv, DiffMark
    <3> QED BY <1>a DEF Frame, Pc
  <2>2. frame' = [frame EXCEPT ![t] = f]
    OBVIOUS
  <2> HIDE DEF f
  <2> QED BY <2>1, <2>2 DEF FrameTyped
<1>4. Shaped'
  <2> HIDE DEF DiffMark
  <2> QED BY <1>h, <1>i, <1>j, <1>k DEF Shaped
<1>5. LockOwner'
  <2> HIDE DEF DiffMark
  <2> QED BY <1>h, <1>i, <1>j, <1>k DEF LockOwner
<1>6. Looping'
  <2> HIDE DEF DiffMark
  <2>1. ASSUME DiffUndisturbed, NEW u \in Thread, frame[u].op = "update" PROVE FALSE
    BY <1>h, <2>1 DEF Shaped, DiffUndisturbed
  <2> QED BY <1>e, <1>h, <1>i, <1>j, <1>k, <2>1 DEF Looping, DiffUndisturbed
<1>7. Marking'
  <2> HIDE DEF DiffMark
  <2> QED BY <1>e, <1>i, <1>j, <1>k, <1>l DEF Marking, DiffUndisturbed
<1>8. Absence'
  <2> HIDE DEF DiffMark
  <2>1. frame[t].pc = "mark"
    BY DEF DiffMark
  <2> QED BY <1>e, <1>i, <1>j, <1>k, <2>1 DEF Absence, DiffUndisturbed
<1>9. PendingIsUntold'
  BY <1>d, <1>e, <1>f DEF node, PendingIsUntold, DiffUndisturbed
<1>10. RemovedByDiffMeansLeft'
  BY <1>d, <1>e, <1>g DEF node, FromDiffOnly, RemovedByDiffMeansLeft, RemovedMeansLeft, DiffUndisturbed
<1> QED BY <1>1, <1>2, <1>3, <1>4, <1>5, <1>6, <1>7, <1>8, <1>9, <1>10

(* The difference is complete.                                              *)
LEMMA DiffEndKeeps ==
    ASSUME IInv, NEW t \in Thread, DiffEnd(t)
    PROVE  IInv'
<1> USE DEF IInv, DiffEnd
<1>1. NodeTyped'
  BY DEF NodeTyped, node, cached, history, Ids
<1>2. TrackedTyped'
  BY DEF node, cached, history, Ids, TrackedTyped, Entry
<1>3. FrameTyped'
  BY DEF node, cached, history, Ids, FrameTyped, Frame, Pc, Idle
<1>4. Shaped'
  BY DEF node, cached, history, Ids, Shaped, FrameTyped, Frame, Pc, Idle
<1>5. LockOwner'
  BY BoundsAssumption DEF node, cached, history, Ids, LockOwner, Shaped, FrameTyped, Frame, Idle
<1>6. Looping'
  BY DEF node, cached, history, Ids, Looping, DiffUndisturbed, LockOwner, Shaped, FrameTyped, Frame, Idle
<1>7. Marking'
  BY DEF node, cached, history, Ids, Marking, DiffUndisturbed, Shaped, FrameTyped, Frame, Idle
<1>8. Absence'
  BY DEF node, cached, history, Ids, Absence, DiffUndisturbed, Shaped, FrameTyped, Frame, Idle
<1>9. PendingIsUntold'
  BY DEF node, cached, history, Ids, PendingIsUntold, DiffUndisturbed
<1>10. RemovedByDiffMeansLeft'
  BY DEF node, cached, history, Ids, RemovedByDiffMeansLeft, RemovedMeansLeft, FromDiffOnly, DiffUndisturbed
<1> QED BY <1>1, <1>2, <1>3, <1>4, <1>5, <1>6, <1>7, <1>8, <1>9, <1>10

-----------------------------------------------------------------------------

(* Nothing is tracked, told or asked when the service is created.           *)
LEMMA InitEstablishes == Init => IInv
<1> SUFFICES ASSUME Init PROVE IInv
  OBVIOUS
<1>1. Idle \in Frame
  BY DEF Frame, Pc, Idle
<1>2. \A t \in Thread : frame[t] = Idle
  BY DEF Init
<1>3. NodeTyped /\ TrackedTyped /\ Absence
  BY <1>2 DEF Init, NodeTyped, TrackedTyped, Absence, Ids, Entry, Idle
<1>4. FrameTyped
  BY <1>1 DEF Init, FrameTyped
<1>5. Shaped /\ Looping /\ Marking
  BY <1>2 DEF Shaped, Looping, Marking, Idle
<1>6. LockOwner
  BY <1>2, BoundsAssumption DEF Init, LockOwner, Idle
<1>7. PendingIsUntold /\ RemovedByDiffMeansLeft
  BY DEF Init, PendingIsUntold, RemovedByDiffMeansLeft, RemovedMeansLeft, Ids
<1> QED BY <1>3, <1>4, <1>5, <1>6, <1>7 DEF IInv

(* Every step of the node, the clock and the threads keeps it.              *)
LEMMA NextKeeps == IInv /\ [Next]_vars => IInv'
<1> SUFFICES ASSUME IInv, [Next]_vars PROVE IInv'
  OBVIOUS
<1>1. ASSUME NEW tx \in Tx, Enter(tx) \/ Mine(tx) \/ Evict(tx) PROVE IInv'
  <2>1. /\ pool \cup {tx} \in SUBSET Tx /\ pool \ {tx} \in SUBSET Tx
        /\ mined \in SUBSET Tx /\ mined \cup {tx} \in SUBSET Tx
    BY DEF IInv, NodeTyped
  <2> QED BY <1>1, <2>1, NodeMovesKeeps DEF Enter, Mine, Evict
<1>2. CASE Expire \/ UNCHANGED vars
  <2>1. UNCHANGED <<node, failures, lock, tracked, tracks, cache, frame, history>>
    BY <1>2 DEF Expire, vars, cached
  <2> QED BY <2>1 DEF node, history, IInv, NodeTyped, TrackedTyped, Ids, FrameTyped, Shaped,
                LockOwner, Looping, Marking, Absence, PendingIsUntold, DiffUndisturbed,
                RemovedByDiffMeansLeft, RemovedMeansLeft, FromDiffOnly
<1>3. ASSUME NEW t \in Thread, ClearCache(t) PROVE IInv'
  BY <1>3, ClearCacheKeeps
<1>4. ASSUME NEW t \in Thread, GetMempool(t) PROVE IInv'
  BY <1>4, GetMempoolKeeps
<1>5. ASSUME NEW t \in Thread, CheckDiff(t) PROVE IInv'
  BY <1>5, CheckDiffKeeps
<1>6. ASSUME NEW t \in Thread, TestCache(t) PROVE IInv'
  BY <1>6, TestCacheKeeps
<1>7. ASSUME NEW t \in Thread, ReadCache(t) PROVE IInv'
  BY <1>7, ReadCacheKeeps
<1>8. ASSUME NEW t \in Thread, Propagate(t) PROVE IInv'
  BY <1>8, PropagateKeeps
<1>9. ASSUME NEW t \in Thread, GetRawMempool(t) PROVE IInv'
  BY <1>9, GetRawMempoolKeeps
<1>10. ASSUME NEW t \in Thread, UpdateRemoved(t) PROVE IInv'
  BY <1>10, UpdateRemovedKeeps
<1>11. ASSUME NEW t \in Thread, UpdateEnd(t) PROVE IInv'
  BY <1>11, UpdateEndKeeps
<1>12. ASSUME NEW t \in Thread, CopyIds(t) PROVE IInv'
  BY <1>12, CopyIdsKeeps
<1>13. ASSUME NEW t \in Thread, DiffMark(t) PROVE IInv'
  BY <1>13, DiffMarkKeeps
<1>14. ASSUME NEW t \in Thread, DiffEnd(t) PROVE IInv'
  BY <1>14, DiffEndKeeps
<1>15. ASSUME NEW t \in Thread, NEW tx \in Tx, Track(t, tx) PROVE IInv'
  BY <1>15, TrackKeeps
<1>16. ASSUME NEW t \in Thread, NEW tx \in Tx, Untrack(t, tx) PROVE IInv'
  BY <1>16, UntrackKeeps
<1>17. ASSUME NEW t \in Thread, NEW tx \in Tx, MarkConfirmed(t, tx) PROVE IInv'
  BY <1>17, MarkConfirmedKeeps
<1>18. ASSUME NEW t \in Thread, NEW tx \in Tx, UpdateConfirmed(t, tx) PROVE IInv'
  BY <1>18, UpdateConfirmedKeeps
<1>19. ASSUME NEW t \in Thread, NEW tx \in Tx, UpdatePending(t, tx) PROVE IInv'
  BY <1>19, UpdatePendingKeeps
<1>20. ASSUME NEW t \in Thread, NEW tx \in Tx, DiffTest(t, tx) PROVE IInv'
  BY <1>20, DiffTestKeeps
<1>21. ASSUME NEW t \in Thread, NEW ids \in SUBSET mined, Update(t, ids) PROVE IInv'
  BY <1>21, UpdateKeeps
<1>22. ASSUME NEW t \in Thread, FillCache(t) PROVE IInv'
  BY <1>22, FillCacheKeeps
<1>23. ASSUME NEW t \in Thread, DiffLookup(t) PROVE IInv'
  BY <1>23, DiffLookupKeeps
<1> QED BY <1>1, <1>2, <1>3, <1>4, <1>5, <1>6, <1>7, <1>8, <1>9, <1>10, <1>11, <1>12, <1>13, <1>14,
           <1>15, <1>16, <1>17, <1>18, <1>19, <1>20, <1>21, <1>22, <1>23 DEF Next, Begin, Step

(* The entries are those with which the loop that holds the lock began.     *)
BeganWith == \A t \in Thread : frame[t].op = "update" => frame[t].began = Entries

(* A change of an entry's fields leaves the entries as they are.            *)
LEMMA SameEntries ==
    ASSUME Ids' = Ids, \A x \in Ids : tracked'[x].id = tracked[x].id
    PROVE  Entries' = Entries
BY DEF Entries

(* Whoever adds, removes or replaces an entry takes the lock, and the loop  *)
(* has it: an iteration meets the entries it began with.                    *)
LEMMA BeganKeeps ==
    ASSUME IInv, BeganWith, [Next]_vars
    PROVE  BeganWith'
<1> USE DEF IInv
<1> DEFINE Carried == \A u \in Thread : frame'[u].op = "update" =>
                        frame[u].op = "update" /\ frame'[u].began = frame[u].began
           Nobody == \A u \in Thread : frame[u].op # "update"
<1>1. ASSUME Carried, Entries' = Entries \/ Nobody PROVE BeganWith'
  BY <1>1 DEF BeganWith
<1>2. UNCHANGED tracked => Entries' = Entries
  BY DEF Entries, Ids
<1>3. UNCHANGED frame => Carried
  OBVIOUS
<1>4. lock = None => Nobody
  BY BoundsAssumption DEF LockOwner
<1>5. ASSUME NEW t \in Thread, NEW f, frame' = [frame EXCEPT ![t] = f],
             f.op = "update" => frame[t].op = "update" /\ f.began = frame[t].began
      PROVE  Carried
  BY <1>5 DEF FrameTyped
<1>6. ASSUME NEW tx \in Ids, tracked' = Confirmed(tx) PROVE Entries' = Entries
  <2>1. Ids' = Ids
    BY <1>6, ConfirmedTyped DEF Ids
  <2> QED BY <1>6, <2>1, ConfirmedTyped, SameEntries
<1>7. ASSUME NEW tx \in Ids, tracked' = [tracked EXCEPT ![tx].status = "removed"]
      PROVE  Entries' = Entries
  <2>1. Ids' = Ids /\ \A x \in Ids : tracked'[x].id = tracked[x].id
    BY <1>7 DEF Ids, TrackedTyped, Entry
  <2> QED BY <2>1, SameEntries
<1>8. CASE UNCHANGED vars \/ Expire \/ \E tx \in Tx : Enter(tx) \/ Mine(tx) \/ Evict(tx)
  <2>1. UNCHANGED <<tracked, frame>>
    BY <1>8 DEF vars, Expire, Enter, Mine, Evict, NodeMoves
  <2> QED BY <1>1, <1>2, <1>3, <2>1
<1>9. ASSUME NEW t \in Thread, NEW tx \in Tx, Track(t, tx) \/ Untrack(t, tx) PROVE BeganWith'
  <2>1. lock = None /\ UNCHANGED frame
    BY <1>9 DEF Track, Untrack
  <2> QED BY <1>1, <1>3, <1>4, <2>1
<1>10. ASSUME NEW t \in Thread, NEW tx \in Tx, MarkConfirmed(t, tx) PROVE BeganWith'
  <2>1. tx \in Ids /\ tracked' = Confirmed(tx) /\ UNCHANGED frame
    BY <1>10 DEF MarkConfirmed
  <2> QED BY <1>1, <1>3, <1>6, <2>1
<1>11. ASSUME NEW t \in Thread, NEW ids \in SUBSET mined, Update(t, ids) PROVE BeganWith'
  <2> DEFINE f == [Idle EXCEPT !.op = "update", !.pc = "loop", !.todo = Ids,
                               !.confirmed = ids, !.began = Entries]
  <2>1. frame' = [frame EXCEPT ![t] = f] /\ f.began = Entries /\ lock = None
    BY <1>11 DEF Update, Idle
  <2>2. UNCHANGED tracked
    BY <1>11 DEF Update
  <2> HIDE DEF f
  <2> QED BY <1>2, <1>4, <2>1, <2>2 DEF BeganWith, FrameTyped
<1>12. ASSUME NEW t \in Thread, NEW tx \in Tx, UpdateConfirmed(t, tx) PROVE BeganWith'
  <2>1. tx \in Ids /\ tracked' = Confirmed(tx)
    BY <1>12 DEF UpdateConfirmed, InLoop, Looping, Shaped
  <2>2. frame' = [frame EXCEPT ![t] = [frame[t] EXCEPT !.pc = "loop", !.todo = @ \ {tx}]]
    BY <1>12 DEF UpdateConfirmed, Done
  <2>3. Carried
    BY <2>2 DEF FrameTyped, Frame
  <2> QED BY <1>1, <1>6, <2>1, <2>3
<1>13. ASSUME NEW t \in Thread, UpdateRemoved(t) PROVE BeganWith'
  <2>1. frame[t].tx \in Ids
    BY <1>13 DEF UpdateRemoved, Looping, Shaped
  <2>2. Entries' = Entries
    BY <1>2, <1>7, <1>13, <2>1 DEF UpdateRemoved
  <2>3. frame' = [frame EXCEPT ![t] = [frame[t] EXCEPT
                    !.pc = "loop", !.todo = @ \ {frame[t].tx}, !.tx = None, !.pool = {}]]
    BY <1>13 DEF UpdateRemoved
  <2>4. Carried
    BY <2>3 DEF FrameTyped, Frame
  <2> QED BY <1>1, <2>2, <2>4
<1>14. ASSUME NEW t \in Thread, DiffMark(t) PROVE BeganWith'
  <2>1. Entries' = Entries
    BY <1>2, <1>7, <1>14 DEF DiffMark
  <2>2. frame' = [frame EXCEPT ![t] = [frame[t] EXCEPT
                    !.pc = "test", !.todo = @ \ {frame[t].tx}, !.tx = None, !.id = 0]]
    BY <1>14 DEF DiffMark
  <2>3. Carried
    BY <2>2 DEF FrameTyped, Frame
  <2> QED BY <1>1, <2>1, <2>3
<1>15. ASSUME NEW t \in Thread,
              \/ GetMempool(t) \/ CheckDiff(t) \/ ClearCache(t) \/ Propagate(t)
              \/ UpdateEnd(t) \/ CopyIds(t) \/ DiffEnd(t)
       PROVE  BeganWith'
  <2>1. UNCHANGED tracked
    BY <1>15 DEF GetMempool, CheckDiff, ClearCache, Propagate, UpdateEnd, CopyIds, DiffEnd
  <2>2. CASE ClearCache(t)
    <3>1. UNCHANGED frame
      BY <2>2 DEF ClearCache
    <3> QED BY <1>1, <1>2, <1>3, <2>1, <3>1
  <2>3. CASE Propagate(t) \/ UpdateEnd(t) \/ DiffEnd(t)
    <3>1. frame' = [frame EXCEPT ![t] = Idle] /\ Idle.op # "update"
      BY <2>3 DEF Propagate, UpdateEnd, DiffEnd, Idle
    <3> QED BY <1>1, <1>2, <1>5, <2>1, <3>1
  <2>4. CASE GetMempool(t)
    <3> DEFINE f == [Idle EXCEPT !.op = "get", !.pc = "mempool"]
    <3>1. frame' = [frame EXCEPT ![t] = f] /\ f.op # "update"
      BY <2>4 DEF GetMempool, Idle
    <3> QED BY <1>1, <1>2, <1>5, <2>1, <3>1
  <2>5. CASE CheckDiff(t)
    <3> DEFINE f == [Idle EXCEPT !.op = "diff", !.pc = "mempool"]
    <3>1. frame' = [frame EXCEPT ![t] = f] /\ f.op # "update"
      BY <2>5 DEF CheckDiff, Idle
    <3> QED BY <1>1, <1>2, <1>5, <2>1, <3>1
  <2>6. CASE CopyIds(t)
    <3> DEFINE f == [Idle EXCEPT !.op = "diff", !.pc = "test", !.todo = Ids \ frame[t].pool]
    <3>1. frame' = [frame EXCEPT ![t] = f] /\ f.op # "update"
      BY <2>6 DEF CopyIds, Idle
    <3> QED BY <1>1, <1>2, <1>5, <2>1, <3>1
  <2> QED BY <1>15, <2>2, <2>3, <2>4, <2>5, <2>6
<1>16. ASSUME NEW t \in Thread, NEW ids, Resume(t, ids) PROVE Carried
  BY <1>16 DEF Resume, FrameTyped, Frame, Idle
<1>17. ASSUME NEW t \in Thread,
              \/ TestCache(t) \/ ReadCache(t) \/ GetRawMempool(t) \/ FillCache(t)
       PROVE  BeganWith'
  <2>1. UNCHANGED tracked
    BY <1>17 DEF TestCache, ReadCache, GetRawMempool, FillCache
  <2>2. Carried
    BY <1>16, <1>17 DEF TestCache, ReadCache, GetRawMempool, FillCache, FrameTyped, Frame
  <2> QED BY <1>1, <1>2, <2>1, <2>2
<1>18. ASSUME NEW t \in Thread,
              DiffLookup(t) \/ \E tx \in Tx : UpdatePending(t, tx) \/ DiffTest(t, tx)
       PROVE  BeganWith'
  <2>1. UNCHANGED tracked
    BY <1>18 DEF DiffLookup, UpdatePending, DiffTest
  <2>2. CASE DiffLookup(t)
    <3>1. Carried
      BY <2>2 DEF DiffLookup, FrameTyped, Frame
    <3> QED BY <1>1, <1>2, <2>1, <3>1
  <2>3. ASSUME NEW tx \in Tx, UpdatePending(t, tx) PROVE BeganWith'
    <3>1. Carried
      BY <2>3 DEF UpdatePending, Done, FrameTyped, Frame
    <3> QED BY <1>1, <1>2, <2>1, <3>1
  <2>4. ASSUME NEW tx \in Tx, DiffTest(t, tx) PROVE BeganWith'
    <3>1. Carried
      BY <2>4 DEF DiffTest, FrameTyped, Frame
    <3> QED BY <1>1, <1>2, <2>1, <3>1
  <2> QED BY <1>18, <2>2, <2>3, <2>4
<1> QED BY <1>8, <1>9, <1>10, <1>11, <1>12, <1>13, <1>14, <1>15, <1>17, <1>18 DEF Next, Begin, Step

(* The inductive invariant holds in every behaviour.                        *)
THEOREM Inductive == Spec => [](IInv /\ BeganWith)
<1>1. Init => BeganWith
  BY DEF Init, BeganWith, Idle
<1> QED BY <1>1, InitEstablishes, NextKeeps, BeganKeeps, PTL DEF Spec

(* While update_tracked_transactions iterates over _tracked_txs its entries *)
(* are the ones it began with, and what it tested as pending is still       *)
(* pending when it marks it removed (mempool.py:337-361).                   *)
THEOREM LoopSafe == Spec => []LoopUndisturbed
<1>1. IInv /\ BeganWith => LoopUndisturbed
  BY DEF IInv, Looping, BeganWith, LoopUndisturbed
<1> QED BY <1>1, Inductive, PTL

(* Nobody was told about an entry that is still pending.                    *)
THEOREM PendingUntold == Spec => []PendingIsUntold
<1>1. IInv => PendingIsUntold
  BY DEF IInv
<1> QED BY <1>1, Inductive, PTL

(* Without failed calls check_mempool_diff tells of what had left the pool. *)
THEOREM DiffTellsTruth == Spec => []RemovedByDiffMeansLeft
<1>1. IInv => RemovedByDiffMeansLeft
  BY DEF IInv
<1> QED BY <1>1, Inductive, PTL

(* A step leaves a confirmed entry confirmed, or replaces the entry.        *)
LEMMA ConfirmedStays ==
    ASSUME IInv, [Next]_vars, DiffUndisturbed, NEW x \in Tx, x \in Ids, x \in Ids',
           tracked[x].id = tracked'[x].id, tracked[x].status = "confirmed"
    PROVE  tracked'[x].status = "confirmed"
<1> USE DEF IInv
<1> DEFINE Goal == tracked'[x].status = "confirmed"
<1>1. tracked \in [Ids -> Entry] /\ tracks \in Nat /\ tracked[x].id \in Nat
           /\ tracked[x].id <= tracks
  BY DEF TrackedTyped, Entry
<1>2. CASE UNCHANGED tracked
  BY <1>2
<1>3. ASSUME NEW t \in Thread, NEW tx \in Tx, Track(t, tx) PROVE Goal
  <2>1. x = tx => tracked'[x].id = tracks + 1
    BY <1>3 DEF Track
  <2>2. x # tx
    BY <1>1, <2>1
  <2> QED BY <1>3, <2>2 DEF Track
<1>4. ASSUME NEW t \in Thread, NEW tx \in Tx, Untrack(t, tx) PROVE Goal
  <2>1. x # tx
    BY <1>4 DEF Untrack, Ids
  <2> QED BY <1>4, <2>1 DEF Untrack
<1>5. ASSUME NEW t \in Thread, NEW tx \in Tx, MarkConfirmed(t, tx) \/ UpdateConfirmed(t, tx)
      PROVE Goal
  <2>1. tracked' = Confirmed(tx)
    BY <1>5 DEF MarkConfirmed, UpdateConfirmed
  <2> QED BY <1>1, <2>1 DEF Confirmed, Entry
<1>6. ASSUME NEW t \in Thread, UpdateRemoved(t) PROVE Goal
  <2>1. tracked[frame[t].tx].status = "pending"
    BY <1>6 DEF UpdateRemoved, Looping, Shaped
  <2>2. x # frame[t].tx
    BY <2>1
  <2>3. tracked' = tracked \/ tracked' = [tracked EXCEPT ![frame[t].tx].status = "removed"]
    BY <1>6 DEF UpdateRemoved
  <2> QED BY <1>1, <2>2, <2>3
<1>7. ASSUME NEW t \in Thread, DiffMark(t) PROVE Goal
  <2>1. x # frame[t].tx
    BY <1>7 DEF DiffMark, Marking
  <2>2. tracked' = tracked \/ tracked' = [tracked EXCEPT ![frame[t].tx].status = "removed"]
    BY <1>7 DEF DiffMark
  <2> QED BY <1>1, <2>1, <2>2
<1>8. ASSUME NEW t \in Thread, Begin(t) \/ Step(t) PROVE Goal
  <2>1. CASE GetMempool(t) \/ CheckDiff(t) \/ ClearCache(t) \/ \E ids \in SUBSET mined : Update(t, ids)
    <3>1. UNCHANGED tracked
      BY <2>1 DEF GetMempool, CheckDiff, ClearCache, Update
    <3> QED BY <3>1, <1>2
  <2>2. CASE TestCache(t) \/ ReadCache(t) \/ Propagate(t) \/ GetRawMempool(t) \/ FillCache(t)
             \/ UpdateEnd(t) \/ CopyIds(t) \/ DiffLookup(t) \/ DiffEnd(t)
             \/ \E tx \in Tx : UpdatePending(t, tx) \/ DiffTest(t, tx)
    <3>1. UNCHANGED tracked
      BY <2>2 DEF TestCache, ReadCache, Propagate, GetRawMempool, FillCache, UpdateEnd, CopyIds,
               DiffLookup, DiffEnd, UpdatePending, DiffTest
    <3> QED BY <3>1, <1>2
  <2> QED BY <1>2, <1>3, <1>4, <1>5, <1>6, <1>7, <1>8, <2>1, <2>2 DEF Begin, Step
<1>9. CASE UNCHANGED vars \/ Expire \/ \E tx \in Tx : Enter(tx) \/ Mine(tx) \/ Evict(tx)
  <2>1. UNCHANGED tracked
    BY <1>9 DEF vars, Expire, Enter, Mine, Evict, NodeMoves
  <2> QED BY <2>1, <1>2
<1> QED BY <1>8, <1>9 DEF Next

(* A confirmed transaction never turns into a removed one while it stays    *)
(* tracked, whatever the pool answers of calls still in flight say.         *)
THEOREM ConfirmedFinal == Spec => ConfirmedIsFinal
<1>1. IInv /\ [Next]_vars =>
        [\A tx \in Tx :
          (DiffUndisturbed /\ tx \in Ids /\ tx \in Ids' /\ tracked[tx].id = tracked'[tx].id
             /\ tracked[tx].status = "confirmed") => tracked'[tx].status = "confirmed"]_vars
  BY ConfirmedStays
<1> QED BY <1>1, Inductive, PTL DEF Spec, ConfirmedIsFinal
===============================================================================
