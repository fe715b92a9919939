----------------------------- MODULE PoolTrading -----------------------------
(***************************************************************************)
(* One trader against the pool: the quotes of MarketMath applied over and  *)
(* over by _executeBuy and _executeSell, from every small pair of reserves.*)
(* It checks the closed-form quotes against what they should be, and what  *)
(* a sequence of trades can do to the pool and to the trader.              *)
(***************************************************************************)
EXTENDS MarketMath

CONSTANTS InitialReserves,   \* reserves a deposit can leave behind
          TradeAmounts,      \* budgets and position amounts
          MaxTrades          \* bound

ASSUME PoolAssumption ==
    InitialReserves \subseteq Nat \ {0} /\ TradeAmounts \subseteq Nat \ {0}

VARIABLES reserve,    \* [Side -> Nat]
          held,       \* the trader's positions
          spent,      \* net collateral the trader paid in, fees included
          trades

poolTradingVars == <<reserve, held, spent, trades>>

PoolInit ==
    /\ reserve \in [Side -> InitialReserves]
    /\ held = [s \in Side |-> 0]
    /\ spent = 0 /\ trades = 0

Quoted(s, q) ==
    reserve' = [t \in Side |-> IF t = s THEN q.newSelectedReserve ELSE q.newOtherReserve]

Buy(s, budget) ==
    LET q == QuoteBuy(reserve[s], reserve[Other(s)], budget) IN
    /\ trades < MaxTrades
    /\ q.positionsOut # 0
    /\ Quoted(s, q)
    /\ held' = [held EXCEPT ![s] = @ + q.positionsOut]
    /\ spent' = spent + budget
    /\ trades' = trades + 1

Sell(s, amount) ==
    LET q == QuoteSell(reserve[s], reserve[Other(s)], amount) IN
    /\ trades < MaxTrades
    /\ amount <= held[s]
    /\ q.grossCollateral # 0
    /\ Quoted(s, q)
    /\ held' = [held EXCEPT ![s] = @ - amount]
    /\ spent' = spent - q.collateralOut
    /\ trades' = trades + 1

PoolNext == \E s \in Side, amount \in TradeAmounts : Buy(s, amount) \/ Sell(s, amount)
PoolSpec == PoolInit /\ [][PoolNext]_poolTradingVars

-------------------------------------------------------------------------------
\* The closed-form quotes are the best the product invariant allows: one more
\* position, or one more unit of collateral, would make the product fall.
QuotesAreTight ==
    \A s \in Side, amount \in TradeAmounts :
        LET x == reserve[s]
            y == reserve[Other(s)]
            buy == QuoteBuy(x, y, amount)
            sell == QuoteSell(x, y, amount)
        IN  /\ (x + buy.tradeInput - (buy.positionsOut + 1)) * (y + buy.tradeInput) < x * y
            /\ LET g == sell.grossCollateral + 1
               IN  y - g < 0 \/ (x + amount - g) * (y - g) < x * y

\* A trader who holds whole sets again, or nothing, never got out more than it
\* paid in: no sequence of trades drains the liquidity providers.
NoRiskFreeProfit ==
    LET sets == IF held["A"] <= held["B"] THEN held["A"] ELSE held["B"]
    IN  spent >= sets

===============================================================================
