------------------------------ MODULE LpFeeLedger ------------------------------
(***************************************************************************)
(* The fee ledger of LpFees on its own, through every sequence of          *)
(* deposits, fees and claims a market can see before it is final (no share *)
(* leaves before then).                                                    *)
(***************************************************************************)
EXTENDS LpFees, FiniteSets, Functions

CONSTANTS ShareAmounts,   \* shares a deposit can mint
          FeeAmounts,     \* fees a trade can charge
          MaxDeposits,    \* bound: deposits by all users together
          MaxFees         \* bound: trades that charge a fee

ASSUME LedgerAssumption ==
    IsFiniteSet(Users) /\ ShareAmounts \subseteq Nat /\ FeeAmounts \subseteq Nat

VARIABLES deposits,   \* [Users -> Nat]: deposits of each user so far
          charged,    \* trades that charged a fee so far
          earned      \* [Users -> Nat]: history, FEE_SCALE times what each user's
                      \* shares earned since they were minted, less its claims

feeVars == <<lpVars, deposits, charged, earned>>

FeeInit ==
    /\ LpInit
    /\ deposits = [u \in Users |-> 0]
    /\ charged = 0
    /\ earned = [u \in Users |-> 0]

Deposit(u) ==
    /\ SumFunction(deposits) < MaxDeposits
    /\ \E shares \in ShareAmounts : MintShares(u, shares)
    /\ deposits' = [deposits EXCEPT ![u] = @ + 1]
    /\ UNCHANGED <<charged, earned>>

\* A trade executes only against a funded pool, so there are shares.
Charge ==
    /\ charged < MaxFees
    /\ totalLpShares > 0
    /\ \E fee \in FeeAmounts :
         /\ DistributeLpFee(fee)
         /\ earned' = [u \in Users |->
                earned[u] + lpSharesOf[u] * MulDiv(fee, FEE_SCALE, totalLpShares)]
    /\ charged' = charged + 1
    /\ UNCHANGED deposits

ClaimLpFees(u) ==
    /\ CollectFees(u)
    /\ earned' = [earned EXCEPT ![u] = @ - FEE_SCALE * Accrued(u)]
    /\ UNCHANGED <<deposits, charged>>

FeeNext ==
    \/ \E u \in Users : Deposit(u)
    \/ Charge
    \/ \E u \in Users : ClaimLpFees(u)

FeeSpec == FeeInit /\ [][FeeNext]_feeVars

-------------------------------------------------------------------------------
\* A provider earns its share of every fee charged while it held the shares, and
\* nothing of an earlier fee: its claim is within one unit per deposit of the
\* exact pro-rata amount (each checkpoint rounds once).
EarnsOwnShareOnly ==
    \A u \in Users :
        LET owed == FEE_SCALE * Accrued(u) - earned[u]
            drift == FEE_SCALE * deposits[u]
        IN  IF deposits[u] = 0 THEN owed = 0 ELSE -drift < owed /\ owed < drift

\* All providers together can claim at most the fees held, but for the rounding
\* of the checkpoints: less than one unit per deposit after the first.
ClaimsWithinRounding ==
    LET n == SumFunction(deposits)
    IN  SumFunction([u \in Users |-> Accrued(u)])
            <= unclaimedLpFees + (IF n > 2 THEN n - 2 ELSE 0)

\* doc: "Never create total redeemable claims greater than locked Collateral":
\* every provider can collect what it has accrued, whoever collects first.
FeesFullyBacked ==
    SumFunction([u \in Users |-> Accrued(u)]) <= unclaimedLpFees

===============================================================================
