---------------------------- MODULE MCBlockService ----------------------------
(* Small instances of BlockService: a genesis, a branch of two blocks and   *)
(* one of one block, so a tip can be extended, and replaced by a block at   *)
(* the same height, a higher or a lower one.                                *)
EXTENDS BlockService

CONSTANTS g, a1, a2, b1, t1, t2

MCParent == [x \in Block \ {g} |-> IF x = a2 THEN a1 ELSE g]

MCHeight == [x \in Block |->
                CASE x = g -> 0 [] x \in {a1, b1} -> 1 [] OTHER -> 2]

Calls(poller, other, n) ==
    [calls |-> [t \in Thread |-> IF t = t1 THEN poller ELSE other],
     moves |-> n, keywords |-> TRUE]

\* The same over the package's own RpcClient.
Shipped(w) == [w EXCEPT !.keywords = FALSE]

\* A second thread polls, or reads; the polling thread verifies; the tip moves
\* up and down and up; one thread reads blocks while another clears; and one
\* polls over the package's client while the other reads.
MCWorkloads ==
    { Calls({"update_tip"}, {"get_tip"}, 2),
      Calls({"update_tip"}, {"get_header"}, 2),
      Calls({"update_tip", "verify_chain"}, {}, 2),
      Calls({"update_tip"}, {}, 3),
      Calls({"get_block"}, {"clear_cache"}, 1),
      Shipped(Calls({"update_tip"}, {"get_header"}, 1)) }

MCPollOnly == { Calls({"update_tip"}, {}, 2) }

MCShipped == { Shipped(Calls({"update_tip", "get_tip"}, {}, 1)) }
=============================================================================
