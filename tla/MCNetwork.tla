------------------------------ MODULE MCNetwork ------------------------------
(* Small instances of Network for TLC.                                      *)
EXTENDS Network, TLC

CONSTANTS g, b1, b2, b3, c2, c3, k1, k2, p1, p2

MCParent == b1 :> g @@ b2 :> b1 @@ b3 :> b2 @@ c2 :> b1 @@ c3 :> c2

\* The branches have equal times, and b3 is earlier than its parent.
MCTime == g :> 0 @@ b1 :> 1 @@ b2 :> 3 @@ b3 :> 2 @@ c2 :> 3 @@ c3 :> 4

MCScopes ==
    {[kinds |-> {"sync", "headers"}, operations |-> 4, moves |-> 2],
     [kinds |-> {"sync", "headers", "block"}, operations |-> 3, moves |-> 1],
     [kinds |-> {"sync", "headers", "blocks"}, operations |-> 3, moves |-> 2],
     [kinds |-> {"sync", "listen", "block"}, operations |-> 3, moves |-> 1],
     [kinds |-> {"peers"}, operations |-> 5, moves |-> 0]}
=============================================================================
