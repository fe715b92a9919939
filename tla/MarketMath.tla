------------------------------ MODULE MarketMath ------------------------------
(***************************************************************************)
(* The fixed-product quotes of contracts/src/MarketMath.sol, over integers *)
(* with the library's own roundings: what the pool receives is rounded up, *)
(* what a trader receives is rounded down.  The two fee denominators are   *)
(* parameters so that a model with small amounts still charges fees.       *)
(***************************************************************************)
EXTENDS Integers

CONSTANTS BPS,                \* the basis-point denominator (10_000 in the code)
          LIQUIDITY_FEE_BPS,  \* the liquidity fee of every trade
          WinnerRewardBps     \* the market's frozen winner reward fee

ASSUME FeeAssumption ==
    /\ BPS \in Nat \ {0}
    /\ LIQUIDITY_FEE_BPS \in Nat
    /\ WinnerRewardBps \in Nat
    /\ LIQUIDITY_FEE_BPS + WinnerRewardBps < BPS

Side == {"A", "B"}
Other(s) == IF s = "A" THEN "B" ELSE "A"

\* Math.mulDiv, rounding down and (Math.Rounding.Ceil) up.
MulDiv(a, b, c) == (a * b) \div c
\* Faulty: rounded in the trader's favour.
MulDivDown(a, b, c) == (a * b) \div c
MulDivUp(a, b, c) == (a * b + c - 1) \div c

\* Faulty: a perfect square is rounded up too.
SqrtAbove(n) == CHOOSE r \in 0 .. n + 1 : n < r * r /\ (r - 1) * (r - 1) <= n

\* Math.sqrt(n, Math.Rounding.Ceil): the least r with n <= r * r.
SqrtCeil(n) == CHOOSE r \in 0 .. n : n <= r * r /\ (r = 0 \/ (r - 1) * (r - 1) < n)

QuoteBuy(selected, other, budget) ==
    LET reward      == MulDiv(budget, WinnerRewardBps, BPS)
        fee         == MulDiv(budget, LIQUIDITY_FEE_BPS, BPS)
        tradeInput  == budget - reward - fee
        newOther    == other + tradeInput
        newSelected == MulDivUp(selected, other, newOther)
    IN  [tradeInput         |-> tradeInput,
         winnerRewardFee    |-> reward,
         liquidityFee       |-> fee,
         positionsOut       |-> selected + tradeInput - newSelected,
         newSelectedReserve |-> newSelected,
         newOtherReserve    |-> newOther]

QuoteSell(selected, other, positionsIn) ==
    LET sum   == selected + positionsIn + other
        gross == (sum - SqrtCeil(sum * sum - 4 * positionsIn * other)) \div 2
        fee   == MulDiv(gross, LIQUIDITY_FEE_BPS, BPS)
    IN  [grossCollateral    |-> gross,
         liquidityFee       |-> fee,
         collateralOut      |-> gross - fee,
         newSelectedReserve |-> selected + positionsIn - gross,
         newOtherReserve    |-> other - gross]

===============================================================================
