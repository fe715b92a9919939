------------------------------- MODULE Portfolio -------------------------------
(***************************************************************************)
(* discovery/portfolio.mjs beside the market it tells of: what an account  *)
(* is shown of a market, read from the index (Projection says how it       *)
(* follows the chain) and, for the two balances no event carries, from the *)
(* contract's getters.                                                     *)
(***************************************************************************)
EXTENDS MarketSafety

-------------------------------------------------------------------------------
(* What is owed. *)

\* Mutant of OwedLpFees: the credit stored when shares were last minted or burned.
StoredCredit(u) == lpFeeCredit[u]
\* The call accrues before it pays, so the account is owed both.
OwedLpFees(u) ==
    LET accumulated == (lpSharesOf[u] * feePerShare) \div FEE_SCALE
        pending == IF accumulated > lpFeeDebt[u] THEN accumulated - lpFeeDebt[u] ELSE 0
    IN  lpFeeCredit[u] + pending

\* winnerFeePaid outlives every decisive result; only an Invalid market refunds it.
RefundableWinnerFee(u) == IF finalOutcome = "Invalid" THEN winnerFeePaid[u] ELSE 0

Held(u) == lpSharesOf[u] > 0 \/ \E s \in Side : positionOf[u][s] > 0
PositionsOwed(u) ==
    \E s \in Side : positionOf[u][s] > 0 /\ finalOutcome \in {s, "Tie", "Invalid"}
HasSomethingToClaim(u) ==
    PositionsOwed(u) \/ lpSharesOf[u] > 0 \/ OwedLpFees(u) > 0 \/ RefundableWinnerFee(u) > 0

HeldTheLosingSide(u) ==
    \E s \in Side : finalOutcome = s /\ positionOf[u][s] = 0 /\ positionOf[u][Other(s)] > 0

-------------------------------------------------------------------------------
(* What is shown. *)

Traded(u) == \E id \in DOMAIN actions :
    actions[id].user = u /\ actions[id].status = "Executed" /\ actions[id].kind \in {"Buy", "Sell"}
\* Deposited once and holds nothing any more: the claim that ended it is in the index.
Claimed(u) == ~Held(u) /\ \E id \in DOMAIN actions :
    actions[id].user = u /\ actions[id].status = "Executed" /\ actions[id].kind = "AddLiquidity"

SettledDetail(u) ==
    CASE finalOutcome = "Invalid" -> IF HasSomethingToClaim(u) THEN "waiting" ELSE "nothing owed"
      [] finalOutcome = "Tie" -> IF HasSomethingToClaim(u) THEN "waiting" ELSE "nothing owed"
      [] finalOutcome \in Side ->
            IF HeldTheLosingSide(u) /\ lpSharesOf[u] = 0 /\ OwedLpFees(u) = 0 /\ RefundableWinnerFee(u) = 0
            THEN "lost"
            ELSE IF ~HasSomethingToClaim(u) THEN "settled"
            ELSE IF OwedLpFees(u) > 0 THEN "fees waiting" ELSE "waiting"

\* The market's row in the history of account u, if it has one.
NoRow == [claimable |-> FALSE, detail |-> "none"]
RowOf(u) ==
    IF finalOutcome # "Unset" /\ (Held(u) \/ Traded(u) \/ Claimed(u))
    THEN [claimable |-> HasSomethingToClaim(u), detail |-> SettledDetail(u)]
    ELSE NoRow

-------------------------------------------------------------------------------

\* The claims of an account as a holder; winners' rewards and bonds belong to participants.
ClaimOf(u) ==
    ClaimLpFees(u) \/ RedeemPositions(u) \/ SettleLpInventory(u) \/ ClaimInvalidWinnerFeeRefund(u)

\* Four separate calls pay an account, and no event says what two of them would: of a final
\* market, an account that a call would pay anything is told to claim, one that is told to
\* claim has a call that is accepted, one told it lost or is owed nothing would be paid
\* nothing, and the fees shown are those the call moves (hasSomethingToClaim, _owed).
PortfolioTellsWhatIsOwed ==
    finalOutcome # "Unset" => \A u \in Users :
        LET row == RowOf(u) IN
        /\ (ENABLED (ClaimOf(u) /\ balance' < balance)) => row.claimable
        /\ row.claimable => ENABLED ClaimOf(u)
        /\ row.detail \in {"none", "lost", "settled", "nothing owed"} => ~row.claimable
        /\ (ENABLED ClaimLpFees(u)) <=> OwedLpFees(u) > 0
        /\ (ENABLED ClaimLpFees(u)) => ENABLED (ClaimLpFees(u) /\ balance' = balance - OwedLpFees(u))

\* As a property of the calls themselves: one that pays an account is made by one whose
\* row says so, and the fees paid are those shown.
PaymentsWereShown ==
    [][finalOutcome # "Unset" => \A u \in Users : ClaimOf(u) =>
          /\ balance' < balance =>
                /\ RowOf(u).claimable
                /\ RowOf(u).detail \notin {"none", "lost", "settled", "nothing owed"}
          /\ ClaimLpFees(u) => balance' = balance - OwedLpFees(u)]_vars
===============================================================================
