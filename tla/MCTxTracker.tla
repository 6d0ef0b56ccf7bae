----------------------------- MODULE MCTxTracker -----------------------------
(* Small instances of TxTracker for TLC.                                    *)
EXTENDS TxTracker, TLC

MCOneEvent == {"confirmed"}

MCCounts == {0, 1, 6}

MCSymmetry == Permutations(Thread) \cup Permutations(Tx) \cup Permutations(Wallet)
=============================================================================
