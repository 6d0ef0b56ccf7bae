--------------------------- MODULE MCMempoolService ---------------------------
(* Small instances of MempoolService: which thread calls what.              *)
EXTENDS MempoolService

CONSTANTS t1, t2

Calls(poller, other) == [t \in Thread |-> IF t = t1 THEN poller ELSE other]

MCPoller == Calls({"track", "untrack", "diff", "mark_confirmed"}, {})

\* One thread that polls the difference and reports what was mined, by itself or
\* while another untracks and compares, too; or one that updates while another
\* calls everything but check_mempool_diff.
MCWorkloads ==
    { MCPoller,
      Calls({"track", "diff", "mark_confirmed"}, {"untrack", "diff"}),
      Calls({"update"}, {"track", "untrack", "mark_confirmed", "get_mempool", "clear_cache"}) }

MCPollOnly == { MCPoller }
=============================================================================
