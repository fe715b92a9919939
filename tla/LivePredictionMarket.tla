------------------------- MODULE LivePredictionMarket -------------------------
(***************************************************************************)
(* contracts/src/LivePredictionMarket.sol: one binary market.              *)
(*                                                                         *)
(* Users' actions are escrowed in forecasting epochs.  The gate marks an   *)
(* epoch safe with a source sequence, or closes the market at a decisive   *)
(* event; anyone then processes an epoch, which executes its actions in    *)
(* order or refunds them.  Two of three resolvers make a result            *)
(* provisional, a bonded challenge may void it, and once it is final every *)
(* claim is paid from the collateral the contract holds.                   *)
(*                                                                         *)
(* A transaction is one step.  A call that reverts changes nothing, so it  *)
(* is not a step: every revert is a guard, a checked subtraction included. *)
(* processEpoch(e, n) is n steps of ProcessEpoch(e): the caller picks n,   *)
(* and the loop reads nothing that does not persist between two calls.     *)
(***************************************************************************)
EXTENDS LpFees, Sequences, FiniteSets

CONSTANTS Resolvers,             \* the three RESOLVER_ROLE members
          Evidence,              \* evidence hashes
          RoomManaged,           \* readinessSource # address(0)
          EpochDuration, SourceFinalityDelay, MaxPendingTime,
          ChallengeWindow, ChallengeTimeout,
          ResolutionWindow,      \* 30 minutes
          OpensAt,
          INTEGRITY_BOND, CHALLENGE_BOND,
          \* what users, the gate and resolvers may choose
          BuyAmounts, LiquidityAmounts, PositionAmounts,
          MinimumReturns, DeadlineDelays, SourceSequences, AttestedOutcomes,
          \* bounds of the exploration
          MaxTime,               \* the clock stops here
          SubmitUntil,           \* users submit until here
          Horizon,               \* the gate and the resolvers act until here
          MaxActions             \* actions ever submitted

Outcome == {"Unset", "A", "B", "Tie", "Invalid"}
Epoch == 0 .. (MaxTime \div EpochDuration)

ASSUME MarketAssumption ==
    /\ {EpochDuration, SourceFinalityDelay, MaxPendingTime,
        ChallengeWindow, ChallengeTimeout, ResolutionWindow} \subseteq Nat \ {0}
    /\ {OpensAt, MaxTime, SubmitUntil, Horizon, MaxActions,
        INTEGRITY_BOND, CHALLENGE_BOND} \subseteq Nat
    /\ RoomManaged \in BOOLEAN
    /\ BuyAmounts \cup LiquidityAmounts \cup PositionAmounts \subseteq Nat \ {0}
    /\ MinimumReturns \cup DeadlineDelays \subseteq Nat
    /\ SourceSequences \subseteq Nat \ {0}
    /\ AttestedOutcomes \subseteq Outcome \ {"Unset"}
    /\ IsFiniteSet(Resolvers) /\ IsFiniteSet(Users)

VARIABLES
    now,                        \* block.timestamp
    gateState, closedEpoch, decisiveSequence, lastSafeSequence, resolutionDueAt,
    epochSafeSequence,          \* [Epoch -> Nat]; 0: the epoch is not safe
    provisionalOutcome, provisionalAt, finalOutcome,
    resultAttestedBy,           \* {<<outcome, evidence, resolver>>}
    challenged, challengedAt, challengeBond,
    challengeVerdictBy,         \* {<<accept, resolver>>}
    integrityBondOf, integrityBondClaimed, totalIntegrityBondLiability,
    reserve,                    \* reserveA, reserveB
    collateralBacking, pendingCollateral,
    winnerRewardPool, winnerRewardClaimed,
    positionOf,                 \* [Users -> [Side -> Nat]]
    winnerFeePaid,
    actions,                    \* every action ever submitted, in order
    epochActionIds, epochCursor,
    balance                     \* collateral.balanceOf(address(this))

gateVars == <<gateState, closedEpoch, decisiveSequence, lastSafeSequence,
              resolutionDueAt, epochSafeSequence>>
resultVars == <<provisionalOutcome, provisionalAt, finalOutcome, resultAttestedBy>>
challengeVars == <<challenged, challengedAt, challengeBond, challengeVerdictBy>>
bondVars == <<integrityBondOf, integrityBondClaimed, totalIntegrityBondLiability>>
poolVars == <<reserve, collateralBacking>>
holderVars == <<positionOf, winnerFeePaid>>
rewardVars == <<winnerRewardPool, winnerRewardClaimed>>
queueVars == <<actions, epochActionIds, epochCursor, pendingCollateral>>
lifecycleVars == <<gateVars, resultVars, challengeVars>>
accountVars == <<lpVars, poolVars, holderVars, rewardVars>>
vars == <<now, lifecycleVars, bondVars, accountVars, queueVars, balance>>

Action == [kind : {"Buy", "Sell", "AddLiquidity", "Transfer"},
           status : {"Pending", "Executed", "Refunded"},
           user : Users, recipient : Users, side : Side, epoch : Epoch,
           deadline : Nat, amount : Nat \ {0}, minimumReturn : Nat]

CurrentEpoch == now \div EpochDuration
EpochEndsAt(e) == (e + 1) * EpochDuration
EpochSafe(e) == epochSafeSequence[e] # 0
IsReady == RoomManaged \/ \A p \in Side : integrityBondOf[p] = INTEGRITY_BOND
HeldChallengeBond == IF challenged /\ finalOutcome = "Unset" THEN challengeBond ELSE 0

AccountedLiabilities ==
    collateralBacking + winnerRewardPool + unclaimedLpFees + pendingCollateral
        + totalIntegrityBondLiability + HeldChallengeBond

Init ==
    /\ now = 0
    /\ gateState = "Open"
    /\ closedEpoch = 0 /\ decisiveSequence = 0 /\ lastSafeSequence = 0
    /\ resolutionDueAt = 0
    /\ epochSafeSequence = [e \in Epoch |-> 0]
    /\ provisionalOutcome = "Unset" /\ provisionalAt = 0 /\ finalOutcome = "Unset"
    /\ resultAttestedBy = {}
    /\ challenged = FALSE /\ challengedAt = 0 /\ challengeBond = 0
    /\ challengeVerdictBy = {}
    /\ integrityBondOf = [p \in Side |-> 0]
    /\ integrityBondClaimed = [p \in Side |-> FALSE]
    /\ totalIntegrityBondLiability = 0
    /\ LpInit
    /\ reserve = [s \in Side |-> 0]
    /\ collateralBacking = 0 /\ pendingCollateral = 0
    /\ winnerRewardPool = 0
    /\ winnerRewardClaimed = [s \in Side |-> FALSE]
    /\ positionOf = [u \in Users |-> [s \in Side |-> 0]]
    /\ winnerFeePaid = [u \in Users |-> 0]
    /\ actions = <<>>
    /\ epochActionIds = [e \in Epoch |-> <<>>]
    /\ epochCursor = [e \in Epoch |-> 0]
    /\ balance = 0

\* The block timestamp advances.
Tick ==
    /\ now < MaxTime
    /\ now' = now + 1
    /\ UNCHANGED <<lifecycleVars, bondVars, accountVars, queueVars, balance>>

-------------------------------------------------------------------------------
(* Submission: every action is escrowed in the current epoch. *)

\* onlyReady and _requireActionWindow.
ActionWindow(deadline) ==
    /\ IsReady
    /\ gateState = "Open"
    /\ now >= OpensAt
    /\ deadline > now
    /\ now <= SubmitUntil

RecordAction(action) ==
    /\ Len(actions) < MaxActions
    /\ actions' = Append(actions, action)
    /\ epochActionIds' = [epochActionIds EXCEPT ![CurrentEpoch] =
                             Append(@, Len(actions) + 1)]
    /\ UNCHANGED epochCursor

NewAction(kind, u, to, s, amount, minimum, deadline) ==
    [kind |-> kind, status |-> "Pending", user |-> u, recipient |-> to, side |-> s,
     epoch |-> CurrentEpoch, deadline |-> deadline,
     amount |-> amount, minimumReturn |-> minimum]

\* Faulty: the escrow account is not credited.
EscrowCollateralUnrecorded(amount) ==
    /\ balance' = balance + amount
    /\ UNCHANGED <<pendingCollateral, positionOf>>

\* The collateral of a purchase or of a deposit moves into escrow.
EscrowCollateral(amount) ==
    /\ pendingCollateral' = pendingCollateral + amount
    /\ balance' = balance + amount
    /\ UNCHANGED positionOf

\* Faulty: positions the user does not have are escrowed.
EscrowPositionUnchecked(u, s, amount) ==
    /\ positionOf' = [positionOf EXCEPT ![u][s] = @ - amount]
    /\ UNCHANGED <<pendingCollateral, balance>>

\* The positions of a sale or of a transfer move into escrow.
EscrowPosition(u, s, amount) ==
    /\ positionOf[u][s] >= amount
    /\ positionOf' = [positionOf EXCEPT ![u][s] = @ - amount]
    /\ UNCHANGED <<pendingCollateral, balance>>

SubmitVars == <<now, lifecycleVars, bondVars, lpVars, poolVars, winnerFeePaid, rewardVars>>

SubmitBuy(u, s, budget, minimum, deadline) ==
    /\ ActionWindow(deadline)
    /\ totalLpShares # 0
    /\ EscrowCollateral(budget)
    /\ RecordAction(NewAction("Buy", u, u, s, budget, minimum, deadline))
    /\ UNCHANGED SubmitVars

\* submitAddLiquidity, and submitAddLiquidityFor where the liquidity router pays.
SubmitAddLiquidity(u, amount, minimum, deadline) ==
    /\ ActionWindow(deadline)
    /\ EscrowCollateral(amount)
    /\ RecordAction(NewAction("AddLiquidity", u, u, "B", amount, minimum, deadline))
    /\ UNCHANGED SubmitVars

SubmitSell(u, s, amount, minimum, deadline) ==
    /\ ActionWindow(deadline)
    /\ EscrowPosition(u, s, amount)
    /\ RecordAction(NewAction("Sell", u, u, s, amount, minimum, deadline))
    /\ UNCHANGED SubmitVars

SubmitPositionTransfer(u, to, s, amount, deadline) ==
    /\ ActionWindow(deadline)
    /\ EscrowPosition(u, s, amount)
    /\ RecordAction(NewAction("Transfer", u, to, s, amount, 0, deadline))
    /\ UNCHANGED SubmitVars

Submit == \E u \in Users, s \in Side, delay \in DeadlineDelays :
    \/ \E budget \in BuyAmounts, minimum \in MinimumReturns :
          SubmitBuy(u, s, budget, minimum, now + delay)
    \/ \E amount \in PositionAmounts, minimum \in MinimumReturns :
          SubmitSell(u, s, amount, minimum, now + delay)
    \/ \E to \in Users \ {u}, amount \in PositionAmounts :
          SubmitPositionTransfer(u, to, s, amount, now + delay)

ProvideLiquidity == \E u \in Users, amount \in LiquidityAmounts,
                       minimum \in MinimumReturns, delay \in DeadlineDelays :
    SubmitAddLiquidity(u, amount, minimum, now + delay)

-------------------------------------------------------------------------------
(* processEpoch: execute or refund the next action of an epoch. *)

\* Faulty: an epoch nobody cleared executes.
CanExecuteUncleared(e) == gateState = "Closed" => e < closedEpoch

CanExecute(e) == EpochSafe(e) /\ (gateState = "Closed" => e < closedEpoch)

\* Faulty: only forecasting close refunds.
CanRefundAtCloseOnly(e) == gateState = "Closed" /\ e >= closedEpoch

CanRefund(e) ==
    \/ gateState = "Closed" /\ e >= closedEpoch
    \/ now > EpochEndsAt(e) + MaxPendingTime

BuyQuote(a) == QuoteBuy(reserve[a.side], reserve[Other(a.side)], a.amount)
SellQuote(a) == QuoteSell(reserve[a.side], reserve[Other(a.side)], a.amount)

LargestReserve == IF reserve["A"] >= reserve["B"] THEN reserve["A"] ELSE reserve["B"]
SharesFor(a) == IF totalLpShares = 0 THEN a.amount
                ELSE MulDiv(a.amount, totalLpShares, LargestReserve)
AddedTo(s, a) == IF totalLpShares = 0 THEN a.amount
                 ELSE MulDiv(a.amount, reserve[s], LargestReserve)

\* A deposit divides by the largest reserve: with shares but no reserve it panics.
Computable(a) == a.kind = "AddLiquidity" /\ totalLpShares # 0 => LargestReserve # 0

\* _tryExecute returns true: the user's minimum is met and something is returned.
MeetsMinimum(a) ==
    CASE a.kind = "Buy" -> /\ BuyQuote(a).positionsOut >= a.minimumReturn
                           /\ BuyQuote(a).positionsOut # 0
      [] a.kind = "Sell" -> /\ SellQuote(a).collateralOut >= a.minimumReturn
                            /\ SellQuote(a).grossCollateral # 0
      [] a.kind = "AddLiquidity" -> /\ SharesFor(a) >= a.minimumReturn
                                    /\ SharesFor(a) # 0
      [] a.kind = "Transfer" -> TRUE

Credit(u, s, amount) == positionOf' = [positionOf EXCEPT ![u][s] = @ + amount]

\* Faulty: the escrow account is not debited.
ReleasePendingNothing(amount) == amount <= pendingCollateral /\ UNCHANGED pendingCollateral

ReleasePending(amount) ==
    /\ amount <= pendingCollateral
    /\ pendingCollateral' = pendingCollateral - amount

PayOut(amount) == amount <= balance /\ balance' = balance - amount

\* Faulty: the two reserves of a quote are swapped.
MoveReservesSwapped(s, q) ==
    reserve' = [t \in Side |-> IF t = s THEN q.newOtherReserve ELSE q.newSelectedReserve]

MoveReserves(s, q) ==
    reserve' = [t \in Side |-> IF t = s THEN q.newSelectedReserve ELSE q.newOtherReserve]

ExecuteBuy(a) ==
    LET q == BuyQuote(a) IN
    /\ a.kind = "Buy"
    /\ ReleasePending(a.amount)
    /\ collateralBacking' = collateralBacking + q.tradeInput
                                + UnattributedFee(q.liquidityFee)
    /\ winnerRewardPool' = winnerRewardPool + q.winnerRewardFee
    /\ winnerFeePaid' = [winnerFeePaid EXCEPT ![a.user] = @ + q.winnerRewardFee]
    /\ DistributeLpFee(q.liquidityFee)
    /\ MoveReserves(a.side, q)
    /\ Credit(a.user, a.side, q.positionsOut)
    /\ UNCHANGED <<winnerRewardClaimed, balance>>

ExecuteSell(a) ==
    LET q == SellQuote(a) IN
    /\ a.kind = "Sell"
    /\ q.grossCollateral <= collateralBacking
    /\ q.newOtherReserve >= 0
    /\ collateralBacking' = collateralBacking - q.grossCollateral
                                + UnattributedFee(q.liquidityFee)
    /\ DistributeLpFee(q.liquidityFee)
    /\ MoveReserves(a.side, q)
    /\ PayOut(q.collateralOut)
    /\ UNCHANGED <<holderVars, rewardVars, pendingCollateral>>

ExecuteAddLiquidity(a) ==
    /\ a.kind = "AddLiquidity"
    /\ ReleasePending(a.amount)
    /\ collateralBacking' = collateralBacking + a.amount
    /\ MintShares(a.user, SharesFor(a))
    /\ reserve' = [s \in Side |-> reserve[s] + AddedTo(s, a)]
    /\ positionOf' = [positionOf EXCEPT ![a.user] =
                         [s \in Side |-> @[s] + a.amount - AddedTo(s, a)]]
    /\ UNCHANGED <<winnerFeePaid, rewardVars, balance>>

ExecuteTransfer(a) ==
    /\ a.kind = "Transfer"
    /\ Credit(a.recipient, a.side, a.amount)
    /\ UNCHANGED <<lpVars, poolVars, winnerFeePaid, rewardVars, pendingCollateral, balance>>

Execute(a) ==
    \/ ExecuteBuy(a)
    \/ ExecuteSell(a)
    \/ ExecuteAddLiquidity(a)
    \/ ExecuteTransfer(a)

RefundCollateral(a) ==
    /\ a.kind \in {"Buy", "AddLiquidity"}
    /\ ReleasePending(a.amount)
    /\ PayOut(a.amount)
    /\ UNCHANGED accountVars

RefundPosition(a) ==
    /\ a.kind \in {"Sell", "Transfer"}
    /\ Credit(a.user, a.side, a.amount)
    /\ UNCHANGED <<lpVars, poolVars, winnerFeePaid, rewardVars, pendingCollateral, balance>>

\* Faulty: escrowed positions have no way back.
RefundCollateralOnly(a) == RefundCollateral(a)

Refund(a) == RefundCollateral(a) \/ RefundPosition(a)

\* The next action of the epoch; the loop skips one that is not Pending, and
\* invariant CursorSeparates says it never meets one.
NextId(e) == epochActionIds[e][epochCursor[e] + 1]
HasNext(e) == epochCursor[e] < Len(epochActionIds[e])

\* Faulty: the cursor does not pass a refunded action.
SettleExecutedOnly(e, id, status) ==
    /\ actions' = [actions EXCEPT ![id].status = status]
    /\ epochCursor' = IF status = "Executed" THEN [epochCursor EXCEPT ![e] = @ + 1]
                      ELSE epochCursor
    /\ UNCHANGED <<now, lifecycleVars, bondVars, epochActionIds>>

Settle(e, id, status) ==
    /\ actions' = [actions EXCEPT ![id].status = status]
    /\ epochCursor' = [epochCursor EXCEPT ![e] = @ + 1]
    /\ UNCHANGED <<now, lifecycleVars, bondVars, epochActionIds>>

Executes(e, a) ==
    /\ CanExecute(e)
    /\ now <= a.deadline
    /\ Computable(a) /\ MeetsMinimum(a)

ProcessEpoch(e) ==
    /\ HasNext(e)
    /\ CanExecute(e) \/ CanRefund(e)
    /\ LET id == NextId(e)
           a  == actions[id]
       IN  /\ a.status = "Pending"
           /\ CanExecute(e) /\ now <= a.deadline => Computable(a)
           /\ \/ Executes(e, a) /\ Execute(a) /\ Settle(e, id, "Executed")
              \/ ~Executes(e, a) /\ Refund(a) /\ Settle(e, id, "Refunded")

-------------------------------------------------------------------------------
(* The Market Gate (GATE_ROLE). *)

MarkEpochSafe(e, seq) ==
    /\ e < CurrentEpoch
    /\ now >= EpochEndsAt(e) + SourceFinalityDelay
    /\ ~EpochSafe(e)
    /\ seq > lastSafeSequence
    /\ gateState = "Closed" => e < closedEpoch /\ seq < decisiveSequence
    /\ epochSafeSequence' = [epochSafeSequence EXCEPT ![e] = seq]
    /\ lastSafeSequence' = seq
    /\ UNCHANGED <<gateState, closedEpoch, decisiveSequence, resolutionDueAt>>

SuspendGate(seq) ==
    /\ gateState = "Open"
    /\ seq >= lastSafeSequence
    /\ gateState' = "Suspended"
    /\ UNCHANGED <<closedEpoch, decisiveSequence, lastSafeSequence,
                   resolutionDueAt, epochSafeSequence>>

ReopenGate(seq) ==
    /\ gateState = "Suspended"
    /\ seq > lastSafeSequence
    /\ gateState' = "Open"
    /\ lastSafeSequence' = seq
    /\ UNCHANGED <<closedEpoch, decisiveSequence, resolutionDueAt, epochSafeSequence>>

\* Faulty: a closed market can be closed again.
CloseAgain(seq) ==
    /\ seq > lastSafeSequence
    /\ gateState' = "Closed"
    /\ closedEpoch' = CurrentEpoch
    /\ decisiveSequence' = seq
    /\ resolutionDueAt' = now + ResolutionWindow
    /\ UNCHANGED <<lastSafeSequence, epochSafeSequence>>

CloseForDecisiveEvent(seq) ==
    /\ gateState # "Closed"
    /\ seq > lastSafeSequence
    /\ gateState' = "Closed"
    /\ closedEpoch' = CurrentEpoch
    /\ decisiveSequence' = seq
    /\ resolutionDueAt' = now + ResolutionWindow
    /\ UNCHANGED <<lastSafeSequence, epochSafeSequence>>

Gate ==
    /\ now <= Horizon
    /\ \E seq \in SourceSequences :
         \/ \E e \in Epoch : MarkEpochSafe(e, seq)
         \/ SuspendGate(seq)
         \/ ReopenGate(seq)
         \/ CloseForDecisiveEvent(seq)
    /\ UNCHANGED <<now, resultVars, challengeVars, bondVars, accountVars, queueVars, balance>>

-------------------------------------------------------------------------------
(* Resolution and challenge. *)

ResolutionFrame == UNCHANGED <<now, gateVars, bondVars, accountVars, queueVars>>

Attested(outcome, evidence) ==
    {r \in Resolvers : <<outcome, evidence, r>> \in resultAttestedBy}

\* Faulty: a resolver that attests twice counts twice.
AttestResultTwice(r, outcome, evidence) ==
    /\ now <= Horizon
    /\ gateState = "Closed"
    /\ provisionalOutcome = "Unset" /\ finalOutcome = "Unset"
    /\ now <= resolutionDueAt
    /\ resultAttestedBy' = resultAttestedBy \cup {<<outcome, evidence, r>>}
    /\ IF Cardinality(Attested(outcome, evidence)) + 1 = 2
       THEN provisionalOutcome' = outcome /\ provisionalAt' = now
       ELSE UNCHANGED <<provisionalOutcome, provisionalAt>>
    /\ UNCHANGED <<finalOutcome, challengeVars, balance>>
    /\ ResolutionFrame

AttestResult(r, outcome, evidence) ==
    /\ now <= Horizon
    /\ gateState = "Closed"
    /\ provisionalOutcome = "Unset" /\ finalOutcome = "Unset"
    /\ now <= resolutionDueAt
    /\ r \notin Attested(outcome, evidence)
    /\ resultAttestedBy' = resultAttestedBy \cup {<<outcome, evidence, r>>}
    /\ IF Cardinality(Attested(outcome, evidence)) + 1 = 2
       THEN provisionalOutcome' = outcome /\ provisionalAt' = now
       ELSE UNCHANGED <<provisionalOutcome, provisionalAt>>
    /\ UNCHANGED <<finalOutcome, challengeVars, balance>>
    /\ ResolutionFrame

ChallengeResult ==
    /\ now <= Horizon
    /\ provisionalOutcome # "Unset" /\ finalOutcome = "Unset"
    /\ ~challenged
    /\ now < provisionalAt + ChallengeWindow
    /\ challenged' = TRUE
    /\ challengedAt' = now
    /\ challengeBond' = CHALLENGE_BOND
    /\ balance' = balance + CHALLENGE_BOND
    /\ UNCHANGED <<challengeVerdictBy, resultVars>>
    /\ ResolutionFrame

Finalize(outcome) ==
    /\ finalOutcome' = outcome
    /\ UNCHANGED <<provisionalOutcome, provisionalAt, resultAttestedBy>>

\* Faulty: the bond leaves and stays recorded.
ReleaseChallengeBondKept == PayOut(challengeBond) /\ UNCHANGED challengeBond

\* The held bond leaves, to the challenger or to bondRecipient.
ReleaseChallengeBond == challengeBond' = 0 /\ PayOut(challengeBond)

VerdictBy(accept) == {r \in Resolvers : <<accept, r>> \in challengeVerdictBy}

AttestChallengeVerdict(r, accept) ==
    /\ challenged /\ finalOutcome = "Unset"
    /\ r \notin VerdictBy(accept)
    /\ challengeVerdictBy' = challengeVerdictBy \cup {<<accept, r>>}
    /\ IF Cardinality(VerdictBy(accept)) + 1 = 2
       THEN /\ ReleaseChallengeBond
            /\ Finalize(IF accept THEN "Invalid" ELSE provisionalOutcome)
       ELSE UNCHANGED <<challengeBond, balance, resultVars>>
    /\ UNCHANGED <<challenged, challengedAt>>
    /\ ResolutionFrame

FinalizeUnchallenged ==
    /\ provisionalOutcome # "Unset" /\ finalOutcome = "Unset"
    /\ ~challenged
    /\ now >= provisionalAt + ChallengeWindow
    /\ Finalize(provisionalOutcome)
    /\ UNCHANGED <<challengeVars, balance>>
    /\ ResolutionFrame

\* Faulty: a challenge nobody rules on never expires.
ExpireRuledChallenge ==
    /\ challenged /\ finalOutcome = "Unset"
    /\ challengeVerdictBy # {}
    /\ now >= challengedAt + ChallengeTimeout
    /\ ReleaseChallengeBond
    /\ Finalize("Invalid")
    /\ UNCHANGED <<challenged, challengedAt, challengeVerdictBy>>
    /\ ResolutionFrame

ExpireChallenge ==
    /\ challenged /\ finalOutcome = "Unset"
    /\ now >= challengedAt + ChallengeTimeout
    /\ ReleaseChallengeBond
    /\ Finalize("Invalid")
    /\ UNCHANGED <<challenged, challengedAt, challengeVerdictBy>>
    /\ ResolutionFrame

InvalidateUnresolved ==
    /\ gateState = "Closed"
    /\ finalOutcome = "Unset" /\ provisionalOutcome = "Unset"
    /\ now >= resolutionDueAt
    /\ Finalize("Invalid")
    /\ UNCHANGED <<challengeVars, balance>>
    /\ ResolutionFrame

Resolve ==
    \/ \E r \in Resolvers, outcome \in AttestedOutcomes, evidence \in Evidence :
          AttestResult(r, outcome, evidence)
    \/ ChallengeResult
    \/ \E r \in Resolvers, accept \in BOOLEAN : AttestChallengeVerdict(r, accept)
    \/ FinalizeUnchallenged
    \/ ExpireChallenge
    \/ InvalidateUnresolved

-------------------------------------------------------------------------------
(* Claims. *)

\* Faulty: a tie pays both sides in full.
ResolvedValueDouble(amountA, amountB) ==
    CASE finalOutcome = "A" -> amountA
      [] finalOutcome = "B" -> amountB
      [] OTHER -> amountA + amountB

ResolvedValue(amountA, amountB) ==
    CASE finalOutcome = "A" -> amountA
      [] finalOutcome = "B" -> amountB
      [] OTHER -> (amountA + amountB) \div 2

\* Pay amount out of the collateral backing.
PayFromBacking(amount) ==
    /\ amount <= collateralBacking
    /\ collateralBacking' = collateralBacking - amount
    /\ PayOut(amount)

ClaimFrame == UNCHANGED <<now, lifecycleVars, queueVars>>

ClaimLpFees(u) ==
    /\ CollectFees(u)
    /\ PayOut(Accrued(u))
    /\ UNCHANGED <<bondVars, poolVars, holderVars, rewardVars>>
    /\ ClaimFrame

RedeemPositions(u) ==
    /\ finalOutcome # "Unset"
    /\ positionOf[u]["A"] # 0 \/ positionOf[u]["B"] # 0
    /\ positionOf' = [positionOf EXCEPT ![u] = [s \in Side |-> 0]]
    /\ PayFromBacking(ResolvedValue(positionOf[u]["A"], positionOf[u]["B"]))
    /\ UNCHANGED <<bondVars, lpVars, reserve, winnerFeePaid, rewardVars>>
    /\ ClaimFrame

InventoryShare(u, s) == MulDiv(reserve[s], lpSharesOf[u], totalLpShares)

\* Faulty: liquidity can be withdrawn before the result.
SettleLpInventoryEarly(u) ==
    /\ lpSharesOf[u] # 0
    /\ BurnShares(u)
    /\ reserve' = [s \in Side |-> reserve[s] - InventoryShare(u, s)]
    /\ PayFromBacking(ResolvedValue(InventoryShare(u, "A"), InventoryShare(u, "B")))
    /\ UNCHANGED <<bondVars, holderVars, rewardVars>>
    /\ ClaimFrame

SettleLpInventory(u) ==
    /\ finalOutcome # "Unset"
    /\ lpSharesOf[u] # 0
    /\ BurnShares(u)
    /\ reserve' = [s \in Side |-> reserve[s] - InventoryShare(u, s)]
    /\ PayFromBacking(ResolvedValue(InventoryShare(u, "A"), InventoryShare(u, "B")))
    /\ UNCHANGED <<bondVars, holderVars, rewardVars>>
    /\ ClaimFrame

\* What the reward address of s receives: a sole winner everything, each side of
\* a tie half, the second to claim whatever is left.
WinnerPayout(s) ==
    IF finalOutcome = s \/ winnerRewardClaimed[Other(s)]
    THEN winnerRewardPool ELSE winnerRewardPool \div 2

ClaimWinnerReward(s) ==
    /\ finalOutcome \in {s, "Tie"}
    /\ ~winnerRewardClaimed[s]
    /\ WinnerPayout(s) # 0
    /\ winnerRewardClaimed' = [winnerRewardClaimed EXCEPT ![s] = TRUE]
    /\ winnerRewardPool' = winnerRewardPool - WinnerPayout(s)
    /\ PayOut(WinnerPayout(s))
    /\ UNCHANGED <<bondVars, lpVars, poolVars, holderVars>>
    /\ ClaimFrame

ClaimInvalidWinnerFeeRefund(u) ==
    /\ finalOutcome = "Invalid"
    /\ winnerFeePaid[u] # 0
    /\ winnerFeePaid[u] <= winnerRewardPool
    /\ winnerFeePaid' = [winnerFeePaid EXCEPT ![u] = 0]
    /\ winnerRewardPool' = winnerRewardPool - winnerFeePaid[u]
    /\ PayOut(winnerFeePaid[u])
    /\ UNCHANGED <<bondVars, lpVars, poolVars, positionOf, winnerRewardClaimed>>
    /\ ClaimFrame

\* A market outside a room holds the participants' integrity bonds itself.
PostIntegrityBond(p) ==
    /\ ~RoomManaged
    /\ now <= SubmitUntil
    /\ integrityBondOf[p] = 0
    /\ integrityBondOf' = [integrityBondOf EXCEPT ![p] = INTEGRITY_BOND]
    /\ totalIntegrityBondLiability' = totalIntegrityBondLiability + INTEGRITY_BOND
    /\ balance' = balance + INTEGRITY_BOND
    /\ UNCHANGED <<integrityBondClaimed, accountVars>>
    /\ ClaimFrame

ClaimIntegrityBond(p) ==
    /\ ~RoomManaged
    /\ finalOutcome # "Unset"
    /\ ~integrityBondClaimed[p]
    /\ integrityBondOf[p] # 0
    /\ integrityBondOf[p] <= totalIntegrityBondLiability
    /\ integrityBondClaimed' = [integrityBondClaimed EXCEPT ![p] = TRUE]
    /\ integrityBondOf' = [integrityBondOf EXCEPT ![p] = 0]
    /\ totalIntegrityBondLiability' = totalIntegrityBondLiability - integrityBondOf[p]
    /\ PayOut(integrityBondOf[p])
    /\ UNCHANGED accountVars
    /\ ClaimFrame

Claim ==
    \/ \E u \in Users : \/ ClaimLpFees(u)
                        \/ RedeemPositions(u)
                        \/ SettleLpInventory(u)
                        \/ ClaimInvalidWinnerFeeRefund(u)
    \/ \E p \in Side : \/ ClaimWinnerReward(p)
                       \/ PostIntegrityBond(p)
                       \/ ClaimIntegrityBond(p)

-------------------------------------------------------------------------------
Next ==
    \/ Tick
    \/ Submit
    \/ ProvideLiquidity
    \/ \E e \in Epoch : ProcessEpoch(e)
    \/ Gate
    \/ Resolve
    \/ Claim

Spec == Init /\ [][Next]_vars

\* processEpoch and the keeper's calls are permissionless, and the settlement
\* keeper makes them on every market it watches; time passes.
Fairness ==
    /\ WF_vars(Tick)
    /\ \A e \in Epoch : WF_vars(ProcessEpoch(e))
    /\ WF_vars(FinalizeUnchallenged)
    /\ WF_vars(ExpireChallenge)
    /\ WF_vars(InvalidateUnresolved)

FairSpec == Spec /\ Fairness

===============================================================================
