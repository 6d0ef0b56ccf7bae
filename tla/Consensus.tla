------------------------------ MODULE Consensus ------------------------------
(***************************************************************************)
(* ordex/core/uint256.py, ordex/consensus/pow.py and amount.py: targets of *)
(* Width bits in their compact form, their adjustment from period to       *)
(* period, and the issue of coins.  A byte of a target has Digit bits, so  *)
(* that a small Width keeps the form of the 256-bit integers.              *)
(***************************************************************************)
EXTENDS Integers, Sequences

CONSTANTS
    Digit, Width,           \* bits of a byte, bits of a target
    PowLimit, Timespan,     \* pow_limit, pow_target_timespan
    ActualTimespan,         \* the lengths a period may have
    Coin, MaxMoney, Premine, Reward, HalvingInterval

VARIABLES
    chain,          \* "bitcoin" or "litecoin": which rules adjust the target;
                    \* "regtest": pow_no_retargeting, none does
    bits,           \* nBits of the last period, as [size, mantissa]
    halvings,       \* full halving intervals mined
    supply          \* what they issued

consensusVars == <<chain, bits, halvings, supply>>

Byte == 2^Digit
Modulus == 2^Width
SignBit == 2^(3 * Digit - 1)

-----------------------------------------------------------------------------
(* Uint256. *)

Masked(n) == n % Modulus

\* How many bytes, and how many bits, n takes.
SizeOf(n) == CHOOSE s \in 0..Width : Byte^s > n /\ (s = 0 \/ Byte^(s - 1) <= n)
BitLength(n) == CHOOSE s \in 0..Width : 2^s > n /\ (s = 0 \/ 2^(s - 1) <= n)

FromCompact(c) ==
    LET mantissa == c.mantissa % SignBit
        word == IF c.size <= 3 THEN mantissa \div Byte^(3 - c.size)
                ELSE mantissa * Byte^(c.size - 3)
    IN IF c.mantissa >= SignBit /\ word # 0 THEN 0 ELSE Masked(word)

GetCompact(n) ==
    LET size == SizeOf(n)
        mantissa == IF size <= 3 THEN n * Byte^(3 - size) ELSE n \div Byte^(size - 3)
    IN IF mantissa >= SignBit
       THEN [size |-> size + 1, mantissa |-> mantissa \div Byte]
       ELSE [size |-> size, mantissa |-> mantissa]

-----------------------------------------------------------------------------
(* Proof of work. *)

CheckProofOfWork(hash, c) ==
    LET target == FromCompact(c)
    IN target # 0 /\ target <= PowLimit /\ hash <= target

\* Mutant: a slow period counts in full.
ClampedBelow(span) == IF span < Timespan \div 4 THEN Timespan \div 4 ELSE span

Clamped(span) ==
    CASE span < Timespan \div 4 -> Timespan \div 4
      [] span > Timespan * 4 -> Timespan * 4
      [] OTHER -> span

AtMostLimit(n) == IF n > PowLimit THEN PowLimit ELSE n

NextBitcoin(c, span) ==
    GetCompact(AtMostLimit(Masked(FromCompact(c) * Clamped(span)) \div Timespan))

\* The shift leaves room for the product of a target near the limit.
NextLitecoin(c, span) ==
    LET old == FromCompact(c)
        shift == BitLength(old) > BitLength(PowLimit) - 1
        unit == IF shift THEN 2 ELSE 1
        product == Masked((old \div unit) * Clamped(span)) \div Timespan
    IN GetCompact(AtMostLimit(Masked(product * unit)))

NextWorkRequired(c, span) ==
    CASE chain = "bitcoin" -> NextBitcoin(c, span)
      [] chain = "litecoin" -> NextLitecoin(c, span)
      [] chain = "regtest" -> c

Retarget ==
    /\ \E span \in ActualTimespan : bits' = NextWorkRequired(bits, span)
    /\ UNCHANGED <<chain, halvings, supply>>

-----------------------------------------------------------------------------
(* Block rewards. *)

\* Mutant: the reward halves one interval late.
ShiftedLate(n, k) == IF k <= 1 THEN n ELSE IF k > 30 THEN 0 ELSE n \div 2^(k - 1)

\* n >> k, for the n below 2^31 that TLC counts with.
Shifted(n, k) == IF k > 30 THEN 0 ELSE n \div 2^k

GetBlockSubsidy(height) ==
    LET count == height \div HalvingInterval
        base == IF height = 1 THEN Premine ELSE Reward
    IN IF count >= 64 THEN 0 ELSE Shifted(base * Coin, count)

MoneyRange(value) == 0 <= value /\ value <= MaxMoney

\* A full interval is mined; the first one holds the block of height one.
Mine ==
    LET first == halvings * HalvingInterval
        usual == GetBlockSubsidy(IF halvings = 0 THEN 0 ELSE first)
        special == IF halvings = 0 THEN GetBlockSubsidy(1) - usual ELSE 0
    IN /\ halvings <= 64
       /\ supply' = supply + usual * HalvingInterval + special
       /\ halvings' = halvings + 1
       /\ UNCHANGED <<chain, bits>>

Init ==
    /\ chain \in {"bitcoin", "litecoin", "regtest"}
    /\ bits = GetCompact(PowLimit)
    /\ halvings = 0 /\ supply = 0

\* One of them, for behaviours that run no rules.
Fixed == Init /\ chain = "bitcoin"

Next == Retarget \/ Mine

-----------------------------------------------------------------------------

\* Rounding to the mantissa of the compact form.
Rounded(n) == FromCompact(GetCompact(n))

\* However the targets were adjusted before: the compact form stands for
\* itself, and from the target it stands for, the next one is a legal target,
\* at most four times and (up to the rounding and the shift) at least a
\* quarter of it, and a slower period never makes it harder.  Only a target
\* that was rounded down to zero is not a legal one.
RetargetIsSteady ==
    LET target == FromCompact(bits)
        next(span) == FromCompact(NextWorkRequired(bits, span))
    IN /\ GetCompact(target) = bits
       /\ target = 0 \/ CheckProofOfWork(target, bits)
       /\ \A span \in ActualTimespan :
            /\ next(span) <= 4 * target /\ next(span) <= PowLimit
            /\ next(span) >= Rounded((target - 1) \div 4)
            /\ \A other \in ActualTimespan : span <= other => next(span) <= next(other)

\* All the blocks there will ever be issue a valid amount of money.
SupplyIsCapped == MoneyRange(supply)
=============================================================================
