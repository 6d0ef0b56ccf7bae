------------------------------ MODULE MCNodePool ------------------------------
(* Small instances of NodePool for TLC.                                     *)
EXTENDS NodePool

CONSTANTS p1, p2, l1, l2

MCApp == {p1, p2}

MCLoop == {l1, l2}

\* Threads report requests while nodes come and go; the checks are stopped
\* and started; the endpoint goes down and comes up again.
MCScopes ==
    {[apps |-> {p1, p2}, loops |-> {l1}, manages |-> TRUE, stops |-> FALSE,
      objects |-> 2, moves |-> 0],
     [apps |-> {p1}, loops |-> {l1}, manages |-> TRUE, stops |-> FALSE,
      objects |-> 2, moves |-> 1],
     [apps |-> {p1}, loops |-> {l1, l2}, manages |-> FALSE, stops |-> TRUE,
      objects |-> 1, moves |-> 1],
     [apps |-> {p1}, loops |-> {l1}, manages |-> FALSE, stops |-> FALSE,
      objects |-> 1, moves |-> 2]}
=============================================================================
