------------------------------ MODULE CacheSize ------------------------------
(***************************************************************************)
(* The parameters of an LRUCache (ordex/rpc/block.py) and what its users   *)
(* give it: a size of at least one (1000 unless the caller says otherwise). *)
(***************************************************************************)
EXTENDS Naturals

CONSTANTS
    Key, Value,
    MaxSize,    \* _max_size
    MaxUses,    \* bound: gets and sets in a behaviour
    None

ASSUME CacheAssumption == MaxSize \in Nat \ {0} /\ None \notin Value
=============================================================================
