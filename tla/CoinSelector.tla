----------------------------- MODULE CoinSelector -----------------------------
(***************************************************************************)
(* ordex/wallet/utxo.py, class CoinSelector: which coins a payment spends. *)
(*                                                                         *)
(* A coin is [amount, confirmations, coinbase]; coins form a sequence, as  *)
(* the node listed them.  A selector is [strategy, minConfirmations,       *)
(* maxInputs, relayFee] with maxInputs = 0 for no limit.                   *)
(***************************************************************************)
EXTENDS Integers, Sequences, FiniteSets, TLC

Sets == INSTANCE FiniteSetsExt
Seqs == INSTANCE SequencesExt

\* UTXO.is_spendable.
Spendable(coin) == coin.confirmations >= IF coin.coinbase THEN 100 ELSE 1

Total(coins) == Seqs!FoldSeq(LAMBDA coin, sum : coin.amount + sum, 0, coins)

\* _estimate_fee: for a number of inputs.
Fee(inputs, rate, selector) == (inputs * 148 + 34 + 10 + selector.relayFee) * rate

\* _create_result.
Result(coins, target, rate, selector) ==
    LET fee == Fee(Len(coins), rate, selector)
        left == Total(coins) - target - fee
    IN [coins |-> coins, total |-> Total(coins), fee |-> fee,
        excess |-> Sets!Max({0, left}), success |-> left >= 0]

\* CoinSelectionResult([], 0, 0, 0, False, ...).
Failure == [coins |-> <<>>, total |-> 0, fee |-> 0, excess |-> 0, success |-> FALSE]

InputLimit(coins, selector) ==
    IF selector.maxInputs = 0 THEN Len(coins) ELSE selector.maxInputs

\* Mutant: the smallest coins come first.
GreedySelectAscending(coins, target, rate, selector) ==
    LET largest == SortSeq(coins, LAMBDA a, b : a.amount < b.amount)
        most == Sets!Min({Len(coins), InputLimit(coins, selector)})
        enough == {n \in 1..most :
                     Total(SubSeq(largest, 1, n)) - target >= Fee(n, rate, selector)}
        inputs == IF enough = {} THEN most ELSE Sets!Min(enough)
    IN Result(SubSeq(largest, 1, inputs), target, rate, selector)

\* _greedy_select: the largest coins first, until they pay for target and fee.
GreedySelect(coins, target, rate, selector) ==
    LET largest == SortSeq(coins, LAMBDA a, b : a.amount > b.amount)
        most == Sets!Min({Len(coins), InputLimit(coins, selector)})
        enough == {n \in 1..most :
                     Total(SubSeq(largest, 1, n)) - target >= Fee(n, rate, selector)}
        inputs == IF enough = {} THEN most ELSE Sets!Min(enough)
    IN Result(SubSeq(largest, 1, inputs), target, rate, selector)

\* search, the closure of _optimized_select: the solutions it comes to, in its
\* order.  The coin at index is left out first, and then taken.
Search(problem) ==
    LET coins == problem.coins
        from[index \in 1..Len(coins) + 1, selected \in Seq({coins[i] : i \in DOMAIN coins})] ==
            LET total == Total(selected)
                rest == Total(SubSeq(coins, index, Len(coins)))
            IN CASE total >= problem.target + problem.fee[Len(selected)] -> <<selected>>
                 [] /\ total < problem.target + problem.fee[Len(selected)]
                    /\ index > Len(coins) \/ total + rest < problem.target -> <<>>
                 [] OTHER ->
                      from[index + 1, selected]
                      \o IF Len(selected) < problem.limit
                         THEN from[index + 1, Append(selected, coins[index])]
                         ELSE <<>>
    IN from[1, <<>>]

\* _optimized_select keeps the first solution with the smallest excess.
OptimizedSelect(coins, target, rate, selector) ==
    LET solutions == Search(
            [coins |-> SortSeq(coins, LAMBDA a, b : a.amount < b.amount),
             limit |-> InputLimit(coins, selector),
             target |-> target,
             fee |-> [n \in 0..Len(coins) |-> Fee(n, rate, selector)]])
        results == [i \in DOMAIN solutions |->
                      Result(solutions[i], target, rate, selector)]
        least == Sets!Min({results[i].excess : i \in DOMAIN results})
    IN IF solutions = <<>>
       THEN Failure
       ELSE results[Sets!Min({i \in DOMAIN results : results[i].excess = least})]

\* select.
Select(coins, target, rate, selector) ==
    LET usable == SelectSeq(coins, LAMBDA coin :
                     Spendable(coin) /\ coin.confirmations >= selector.minConfirmations)
    IN CASE usable = <<>> -> Failure
         [] usable # <<>> /\ selector.strategy = "greedy" ->
                GreedySelect(usable, target, rate, selector)
         [] usable # <<>> /\ selector.strategy = "optimized" ->
                OptimizedSelect(usable, target, rate, selector)

-----------------------------------------------------------------------------
(* What a selection promises, stated without the algorithms: over the sets  *)
(* of usable coins that are no larger than the limit.                       *)

Selections(coins, selector) ==
    LET usable == {i \in DOMAIN coins : /\ Spendable(coins[i])
                                        /\ coins[i].confirmations >= selector.minConfirmations}
    IN {c \in SUBSET usable : c # {} /\ (selector.maxInputs = 0
                                         \/ Cardinality(c) <= selector.maxInputs)}

Left(coins, chosen, target, rate, selector) ==
    Sets!MapThenSumSet(LAMBDA i : coins[i].amount, chosen)
        - target - Fee(Cardinality(chosen), rate, selector)

\* A payment is refused only if no choice of coins pays for it.  The greedy
\* strategy spends the fewest coins possible; the other leaves the smallest
\* excess among the choices that need every coin but possibly some of the
\* smaller: those that no longer pay without their largest coin.
SelectionKeeps(result, coins, target, rate, selector) ==
    LET paying == {c \in Selections(coins, selector) :
                     Left(coins, c, target, rate, selector) >= 0}
        tight == {c \in paying : \A i \in c :
                    (\A j \in c : coins[j].amount <= coins[i].amount)
                        => c \ {i} \notin paying}
    IN /\ result.success <=> paying # {}
       /\ result.success =>
            /\ result.total = result.excess + target + result.fee
            /\ selector.strategy = "greedy" =>
                 \A c \in paying : Len(result.coins) <= Cardinality(c)
            /\ selector.strategy = "optimized" =>
                 \A c \in tight :
                     result.excess <= Left(coins, c, target, rate, selector)
=============================================================================
