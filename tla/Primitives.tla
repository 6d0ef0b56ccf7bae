----------------------------- MODULE Primitives -----------------------------
(***************************************************************************)
(* The library's self-contained parts, one at a time: the script           *)
(* interpreter, the consensus rules and the LRU cache.  subject says which *)
(* of them a behaviour runs.                                               *)
(***************************************************************************)
EXTENDS CacheSize, Integers, Sequences

CONSTANTS
    Call,
    Digit, Width, PowLimit, Timespan, ActualTimespan,
    Coin, MaxMoney, Premine, Reward, HalvingInterval

ASSUME PrimitivesAssumption ==
    /\ Digit \in Nat \ {0} /\ Width \in Nat /\ Timespan \in Nat \ {0}
    /\ PowLimit \in 1..2^Width - 1 /\ ActualTimespan \subseteq Int
    /\ Coin \in Nat /\ MaxMoney \in Nat /\ Premine \in Nat /\ Reward \in Nat
    /\ HalvingInterval \in Nat \ {0, 1}

VARIABLES
    subject,
    call, script, pc, stack, marks, verdict, ran, chosen,
    chain, bits, halvings, supply,
    order, data, answer, uses, lastUse

Interpreter == INSTANCE Script
Rules == INSTANCE Consensus
Cache == INSTANCE LRUCache

scriptVars == <<call, script, pc, stack, marks, verdict, ran, chosen>>
consensusVars == <<chain, bits, halvings, supply>>
cacheVars == <<order, data, answer, uses, lastUse>>
vars == <<subject, scriptVars, consensusVars, cacheVars>>

Idle ==
    /\ call = None /\ script = <<>> /\ pc = 1 /\ stack = <<>> /\ marks = <<>>
    /\ verdict = "none" /\ ran = {} /\ chosen = <<>>

Init ==
    /\ Cache!Init
    /\ \/ subject = "script" /\ Interpreter!Init /\ Rules!Fixed
       \/ subject = "rules" /\ Rules!Init /\ Idle
       \/ subject = "cache" /\ Rules!Fixed /\ Idle

OnScript == subject = "script" /\ Interpreter!Next /\ UNCHANGED <<subject, consensusVars, cacheVars>>
OnTargets ==
    /\ subject = "rules" /\ halvings = 0
    /\ Rules!Retarget
    /\ UNCHANGED <<subject, scriptVars, cacheVars>>
OnRewards ==
    /\ subject = "rules" /\ bits = Rules!GetCompact(PowLimit)
    /\ Rules!Mine
    /\ UNCHANGED <<subject, scriptVars, cacheVars>>
OnCache == subject = "cache" /\ Cache!Next /\ UNCHANGED <<subject, scriptVars, consensusVars>>

Next == OnScript \/ OnTargets \/ OnRewards \/ OnCache

Spec == Init /\ [][Next]_vars

\* The properties of each part (script.py, pow.py and amount.py, block.py),
\* stated in its module, while that part runs.
BranchesRight == subject = "script" => Interpreter!BranchesRight
RetargetIsSteady == subject = "rules" => Rules!RetargetIsSteady
SupplyIsCapped == subject = "rules" => Rules!SupplyIsCapped
KeepsMostRecentlyUsed == subject = "cache" => Cache!KeepsMostRecentlyUsed
KeepsPromise == Cache!KeepsPromise
=============================================================================
