-------------------------------- MODULE LpFees --------------------------------
(***************************************************************************)
(* The liquidity-fee ledger of LivePredictionMarket.sol: a fee-per-share   *)
(* accumulator, and per provider the shares, the checkpoint (debt) and the *)
(* fees already credited.  LivePredictionMarket extends this module and    *)
(* drives it from its queue; LpFeeLedger drives it alone.                  *)
(***************************************************************************)
EXTENDS MarketMath

CONSTANTS Users,       \* wallets eligible to trade and to provide liquidity
          FEE_SCALE    \* fixed-point scale of the accumulator (1e18 in the code)

ASSUME ScaleAssumption == FEE_SCALE \in Nat \ {0}

VARIABLES totalLpShares, feePerShare, unclaimedLpFees,
          lpSharesOf, lpFeeDebt, lpFeeCredit

lpVars == <<totalLpShares, feePerShare, unclaimedLpFees,
            lpSharesOf, lpFeeDebt, lpFeeCredit>>

LpInit ==
    /\ totalLpShares = 0
    /\ feePerShare = 0
    /\ unclaimedLpFees = 0
    /\ lpSharesOf = [u \in Users |-> 0]
    /\ lpFeeDebt = [u \in Users |-> 0]
    /\ lpFeeCredit = [u \in Users |-> 0]

LpTypeOK ==
    /\ totalLpShares \in Nat
    /\ feePerShare \in Nat
    /\ unclaimedLpFees \in Nat
    /\ lpSharesOf \in [Users -> Nat]
    /\ lpFeeDebt \in [Users -> Nat]
    /\ lpFeeCredit \in [Users -> Nat]

\* What u's shares have earned since the accumulator started, and what u could
\* claim now: the credit _accrueLp would leave.
Accumulated(u) == MulDiv(lpSharesOf[u], feePerShare, FEE_SCALE)
Accrued(u) ==
    lpFeeCredit[u] + (IF Accumulated(u) > lpFeeDebt[u]
                      THEN Accumulated(u) - lpFeeDebt[u] ELSE 0)

\* _distributeLpFee.  With no share outstanding the fee is the market's own
\* collateral: the caller adds UnattributedFee to its backing.
UnattributedFee(fee) == IF totalLpShares = 0 THEN fee ELSE 0

DistributeLpFee(fee) ==
    /\ unclaimedLpFees' = unclaimedLpFees + fee - UnattributedFee(fee)
    /\ feePerShare' = IF totalLpShares = 0 THEN feePerShare
                      ELSE feePerShare + MulDiv(fee, FEE_SCALE, totalLpShares)
    /\ UNCHANGED <<totalLpShares, lpSharesOf, lpFeeDebt, lpFeeCredit>>

\* Faulty: the checkpoint stays behind when shares are minted.
MintSharesUnmarked(u, shares) ==
    /\ lpFeeCredit' = [lpFeeCredit EXCEPT ![u] = Accrued(u)]
    /\ lpSharesOf' = [lpSharesOf EXCEPT ![u] = @ + shares]
    /\ totalLpShares' = totalLpShares + shares
    /\ UNCHANGED <<feePerShare, unclaimedLpFees, lpFeeDebt>>

\* The share part of _executeAddLiquidity: accrue, mint, move the checkpoint.
MintShares(u, shares) ==
    /\ lpFeeCredit' = [lpFeeCredit EXCEPT ![u] = Accrued(u)]
    /\ lpSharesOf' = [lpSharesOf EXCEPT ![u] = @ + shares]
    /\ totalLpShares' = totalLpShares + shares
    /\ lpFeeDebt' = [lpFeeDebt EXCEPT
                        ![u] = MulDiv(lpSharesOf[u] + shares, feePerShare, FEE_SCALE)]
    /\ UNCHANGED <<feePerShare, unclaimedLpFees>>

\* The share part of settleLpInventory: accrue, then burn every share of u.
BurnShares(u) ==
    /\ lpSharesOf[u] <= totalLpShares
    /\ lpFeeCredit' = [lpFeeCredit EXCEPT ![u] = Accrued(u)]
    /\ lpSharesOf' = [lpSharesOf EXCEPT ![u] = 0]
    /\ totalLpShares' = totalLpShares - lpSharesOf[u]
    /\ lpFeeDebt' = [lpFeeDebt EXCEPT ![u] = 0]
    /\ UNCHANGED <<feePerShare, unclaimedLpFees>>

\* Faulty: fees stay credited after the claim.
CollectFeesAgain(u) ==
    /\ Accrued(u) # 0
    /\ Accrued(u) <= unclaimedLpFees
    /\ unclaimedLpFees' = unclaimedLpFees - Accrued(u)
    /\ UNCHANGED <<totalLpShares, feePerShare, lpSharesOf, lpFeeCredit, lpFeeDebt>>

\* claimLpFees.  The last conjunct is the checked subtraction: an amount above
\* unclaimedLpFees reverts the claim.
CollectFees(u) ==
    /\ Accrued(u) # 0
    /\ Accrued(u) <= unclaimedLpFees
    /\ lpFeeCredit' = [lpFeeCredit EXCEPT ![u] = 0]
    /\ lpFeeDebt' = [lpFeeDebt EXCEPT ![u] = Accumulated(u)]
    /\ unclaimedLpFees' = unclaimedLpFees - Accrued(u)
    /\ UNCHANGED <<totalLpShares, feePerShare, lpSharesOf>>

===============================================================================
