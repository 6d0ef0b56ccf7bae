------------------------------- MODULE LRUCache -------------------------------
(***************************************************************************)
(* ordex/rpc/block.py, class LRUCache: an OrderedDict with its own lock.   *)
(* Each method holds the lock throughout, so each is one step.  The        *)
(* dictionary is its key order (oldest use first) and its contents.        *)
(***************************************************************************)
EXTENDS CacheSize, Integers, Sequences, FiniteSets

VARIABLES
    order,      \* the keys of the OrderedDict, first to last
    data,       \* its values
    answer,     \* what the last get returned
    uses,       \* history: the number of gets and sets so far
    lastUse     \* history: when a key was last stored or found, 0 if not since clear

vars == <<order, data, answer, uses, lastUse>>

Init ==
    /\ order = <<>>
    /\ data = [k \in {} |-> None]
    /\ answer = None
    /\ uses = 0
    /\ lastUse = [k \in Key |-> 0]

\* move_to_end, for a key that is in the OrderedDict.
MoveToEnd(s, k) ==
    LET place == CHOOSE i \in DOMAIN s : s[i] = k
    IN [i \in DOMAIN s |-> IF i < place THEN s[i] ELSE IF i < Len(s) THEN s[i + 1] ELSE k]

Used(k) ==
    /\ uses' = uses + 1
    /\ lastUse' = [lastUse EXCEPT ![k] = uses + 1]

\* Mutant: a hit does not move the key to the end.
GetHitInPlace(k) ==
    /\ uses < MaxUses
    /\ k \in DOMAIN data
    /\ answer' = data[k]
    /\ Used(k)
    /\ UNCHANGED <<order, data>>

GetHit(k) ==
    /\ uses < MaxUses
    /\ k \in DOMAIN data
    /\ order' = MoveToEnd(order, k)
    /\ answer' = data[k]
    /\ Used(k)
    /\ UNCHANGED data

GetMiss(k) ==
    /\ k \notin DOMAIN data
    /\ answer' = None
    /\ UNCHANGED <<order, data, uses, lastUse>>

\* Mutant: a full cache evicts although the key is already stored.
SetAlwaysEvicting(k, v) ==
    /\ uses < MaxUses
    /\ LET full == Len(order) >= MaxSize
           kept == IF full THEN Tail(order) ELSE order
           keys == IF full THEN DOMAIN data \ {Head(order)} ELSE DOMAIN data
       IN /\ order' = IF k \in keys THEN MoveToEnd(kept, k) ELSE Append(kept, k)
          /\ data' = [x \in keys \cup {k} |-> IF x = k THEN v ELSE data[x]]
    /\ Used(k)
    /\ UNCHANGED answer

\* A known key moves to the end; a new key at a full cache evicts the first.
Set(k, v) ==
    /\ uses < MaxUses
    /\ LET full == k \notin DOMAIN data /\ Len(order) >= MaxSize
           kept == IF full THEN Tail(order) ELSE order
           keys == IF full THEN DOMAIN data \ {Head(order)} ELSE DOMAIN data
       IN /\ order' = IF k \in keys THEN MoveToEnd(kept, k) ELSE Append(kept, k)
          /\ data' = [x \in keys \cup {k} |-> IF x = k THEN v ELSE data[x]]
    /\ Used(k)
    /\ UNCHANGED answer

Clear ==
    /\ order' = <<>>
    /\ data' = [k \in {} |-> None]
    /\ lastUse' = [k \in Key |-> 0]
    /\ UNCHANGED <<answer, uses>>

Next ==
    \/ \E k \in Key : GetHit(k) \/ GetMiss(k)
    \/ \E k \in Key, v \in Value : Set(k, v)
    \/ Clear

Spec == Init /\ [][Next]_vars

-----------------------------------------------------------------------------
(* Properties.                                                              *)

(* Least recently used: since the last clear the keys stored are the        *)
(* MaxSize most recently used ones, every key evicted was last used before  *)
(* them, and they are ordered by their last use, the next victim first.     *)
KeepsMostRecentlyUsed ==
    /\ \A k \in DOMAIN data, gone \in Key \ DOMAIN data : lastUse[gone] < lastUse[k]
    /\ \A i, j \in DOMAIN order : i < j => lastUse[order[i]] < lastUse[order[j]]
    /\ {order[i] : i \in DOMAIN order} = DOMAIN data
    /\ \A k \in Key :
          /\ lastUse[k] > 0
          /\ Cardinality({other \in Key : lastUse[other] > lastUse[k]}) < MaxSize
          => k \in DOMAIN data

(* The promise BlockService is modelled over.                               *)
Promise == INSTANCE BoundedCache WITH store <- data

(* Every method keeps the promise of a bounded map: at most MaxSize         *)
(* entries, the last stored value under a key, one victim per new key.      *)
KeepsPromise == Promise!Spec
=============================================================================
