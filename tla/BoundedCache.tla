----------------------------- MODULE BoundedCache -----------------------------
(***************************************************************************)
(* What a user of LRUCache (ordex/rpc/block.py) may rely on: a map of at   *)
(* most MaxSize entries that answers with the value last stored under the  *)
(* key, and that drops another entry when a new key arrives at a full map. *)
(* BlockService is modelled over this promise; LRUCache keeps it.          *)
(***************************************************************************)
EXTENDS Integers, FiniteSets

CONSTANTS Key, Value, MaxSize

\* The maps a set may lead to: the entry is stored, and a full map that does
\* not know the key drops one entry first.
Stored(store, k, v) ==
    LET with(kept) == [x \in kept \cup {k} |-> IF x = k THEN v ELSE store[x]]
    IN IF k \in DOMAIN store \/ Cardinality(DOMAIN store) < MaxSize
       THEN {with(DOMAIN store)}
       ELSE {with(DOMAIN store \ {victim}) : victim \in DOMAIN store}

Emptied == [k \in {} |-> k]

VARIABLE store

Init == store = Emptied

Set(k, v) == store' \in Stored(store, k, v)

Clear == store' = Emptied

Next == Clear \/ \E k \in Key, v \in Value : Set(k, v)

Spec == Init /\ [][Next]_store
=============================================================================
