----------------------------- MODULE MarketProofs -----------------------------
(***************************************************************************)
(* LivePredictionMarket has what it owes and does what was cleared:        *)
(* theorems for every number of users, resolvers and actions, every        *)
(* amount, fee, window and result.  First the type invariant, the          *)
(* conservation of collateral and the challenge bond: one lemma per        *)
(* transaction says what it does to the accounts.  Then the holders, whose *)
(* invariants are sums over the users and over the queue: one lemma says   *)
(* what each transaction adds to the positions outstanding and to the      *)
(* backing, and all of them add the same to both.  Then the lifecycle:     *)
(* what executes is exactly what an attestation cleared, each action is    *)
(* settled once and in order in its epoch and blocks none behind it,       *)
(* forecasting close is irreversible, and a result has a quorum behind it. *)
(***************************************************************************)
EXTENDS Portfolio, QuoteProofs

-------------------------------------------------------------------------------
(* The ledger. *)

\* The accounts a trade or a claim moves collateral between.
Pools == collateralBacking + winnerRewardPool + unclaimedLpFees + pendingCollateral

\* A step leaves the accounts well typed, and what it adds to them it receives.
AccountsKept ==
    /\ AccountTypeOK'
    /\ pendingCollateral' \in Nat /\ balance' \in Nat
    /\ balance + Pools' = balance' + Pools

-------------------------------------------------------------------------------
(* Executing and refunding one action. *)

LEMMA OtherSide ==
    ASSUME NEW s \in Side
    PROVE  Other(s) \in Side
  BY DEF Side, Other

LEMMA CreditKeepsType ==
    ASSUME positionOf \in [Users -> [Side -> Nat]],
           NEW u \in Users, NEW s \in Side, NEW amount \in Nat, Credit(u, s, amount)
    PROVE  positionOf' \in [Users -> [Side -> Nat]]
  BY DEF Credit

LEMMA BuyKept ==
    ASSUME TypeOK, NEW a \in Action, ExecuteBuy(a)
    PROVE  AccountsKept
  <1> DEFINE q == BuyQuote(a)
  <1>1. a.side \in Side /\ a.user \in Users /\ a.amount \in Nat \ {0}
    BY DEF Action
  <1>2. reserve[a.side] \in Nat /\ reserve[Other(a.side)] \in Nat
    BY <1>1, OtherSide DEF TypeOK, AccountTypeOK
  <1>3. /\ q.tradeInput \in Nat /\ q.winnerRewardFee \in Nat /\ q.liquidityFee \in Nat
        /\ q.tradeInput + q.winnerRewardFee + q.liquidityFee = a.amount
        /\ q.positionsOut \in Nat
        /\ q.newSelectedReserve \in Nat /\ q.newOtherReserve \in Nat
    <2> DEFINE x == reserve[a.side]
               y == reserve[Other(a.side)]
               b == a.amount
    <2>1. q = QuoteBuy(x, y, b)
      BY DEF BuyQuote
    <2>2. x \in Nat /\ y \in Nat /\ b \in Nat \ {0} /\ b = a.amount
      BY <1>1, <1>2
    <2> HIDE DEF q, x, y, b
    <2>3. SoundBuy(q, x, y, b)
      BY <2>1, <2>2, QuoteBuySound
    <2> QED
      BY <2>2, <2>3 DEF SoundBuy
  <1> HIDE DEF q
  <1>4. /\ a.amount <= pendingCollateral
        /\ pendingCollateral' = pendingCollateral - a.amount
        /\ collateralBacking' = collateralBacking + q.tradeInput + UnattributedFee(q.liquidityFee)
        /\ winnerRewardPool' = winnerRewardPool + q.winnerRewardFee
        /\ winnerFeePaid' = [winnerFeePaid EXCEPT ![a.user] = @ + q.winnerRewardFee]
        /\ DistributeLpFee(q.liquidityFee)
        /\ MoveReserves(a.side, q)
        /\ Credit(a.user, a.side, q.positionsOut)
        /\ UNCHANGED <<winnerRewardClaimed, balance>>
    BY DEF ExecuteBuy, ReleasePending, q
  <1>5. /\ LpTypeOK /\ pendingCollateral \in Nat /\ collateralBacking \in Nat
        /\ winnerRewardPool \in Nat /\ balance \in Nat /\ unclaimedLpFees \in Nat
    BY DEF TypeOK, AccountTypeOK, QueueTypeOK, LpTypeOK
  <1>6. /\ LpTypeOK' /\ UnattributedFee(q.liquidityFee) \in Nat
        /\ unclaimedLpFees' + UnattributedFee(q.liquidityFee) = unclaimedLpFees + q.liquidityFee
    BY <1>3, <1>4, <1>5, DistributeKeepsType
  <1>7. reserve' \in [Side -> Nat]
    BY <1>3, <1>4 DEF MoveReserves
  <1>8. positionOf' \in [Users -> [Side -> Nat]]
    BY <1>1, <1>3, <1>4, CreditKeepsType DEF TypeOK, AccountTypeOK
  <1>9. winnerFeePaid' \in [Users -> Nat]
    BY <1>1, <1>3, <1>4 DEF TypeOK, AccountTypeOK
  <1>10. AccountTypeOK'
    BY <1>3, <1>4, <1>5, <1>6, <1>7, <1>8, <1>9 DEF TypeOK, AccountTypeOK
  <1>11. pendingCollateral' \in Nat /\ balance' \in Nat
    BY <1>1, <1>4, <1>5
  <1>12. unclaimedLpFees' \in Nat
    BY <1>6 DEF LpTypeOK
  <1>13. balance + Pools' = balance' + Pools
    <2> DEFINE un == UnattributedFee(q.liquidityFee)
    <2>1. /\ un \in Nat /\ q.tradeInput \in Nat
          /\ q.winnerRewardFee \in Nat /\ q.liquidityFee \in Nat
      BY <1>3, <1>6
    <2>2. /\ balance' = balance
          /\ pendingCollateral' = pendingCollateral
                - (q.tradeInput + q.winnerRewardFee + q.liquidityFee)
          /\ collateralBacking' = collateralBacking + q.tradeInput + un
          /\ winnerRewardPool' = winnerRewardPool + q.winnerRewardFee
          /\ unclaimedLpFees' = unclaimedLpFees + q.liquidityFee - un
      BY <1>3, <1>4, <1>5, <1>6, <1>12
    <2> HIDE DEF un
    <2> QED
      BY <1>5, <2>1, <2>2 DEF Pools
  <1> QED
    BY <1>10, <1>11, <1>13 DEF AccountsKept

LEMMA SellKept ==
    ASSUME TypeOK, NEW a \in Action, ExecuteSell(a)
    PROVE  AccountsKept
  <1> DEFINE q == SellQuote(a)
  <1>1. a.side \in Side /\ a.amount \in Nat
    BY DEF Action
  <1>2. reserve[a.side] \in Nat /\ reserve[Other(a.side)] \in Nat
    BY <1>1, OtherSide DEF TypeOK, AccountTypeOK
  <1>3. /\ q.grossCollateral \in Nat /\ q.liquidityFee \in Nat /\ q.collateralOut \in Nat
        /\ q.liquidityFee + q.collateralOut = q.grossCollateral
        /\ q.newSelectedReserve \in Nat /\ q.newOtherReserve \in Nat
    <2> DEFINE x == reserve[a.side]
               y == reserve[Other(a.side)]
               p == a.amount
    <2>1. q = QuoteSell(x, y, p)
      BY DEF SellQuote
    <2>2. x \in Nat /\ y \in Nat /\ p \in Nat
      BY <1>1, <1>2
    <2> HIDE DEF q, x, y, p
    <2>3. SoundSell(q, x, y, p)
      BY <2>1, <2>2, QuoteSellSound
    <2> QED
      BY <2>3 DEF SoundSell
  <1> HIDE DEF q
  <1>4. /\ q.grossCollateral <= collateralBacking
        /\ collateralBacking' = collateralBacking - q.grossCollateral
                                    + UnattributedFee(q.liquidityFee)
        /\ DistributeLpFee(q.liquidityFee)
        /\ MoveReserves(a.side, q)
        /\ q.collateralOut <= balance /\ balance' = balance - q.collateralOut
        /\ UNCHANGED <<holderVars, rewardVars, pendingCollateral>>
    BY DEF ExecuteSell, PayOut, q
  <1>5. /\ LpTypeOK /\ pendingCollateral \in Nat /\ collateralBacking \in Nat
        /\ winnerRewardPool \in Nat /\ balance \in Nat /\ unclaimedLpFees \in Nat
    BY DEF TypeOK, AccountTypeOK, QueueTypeOK, LpTypeOK
  <1>6. /\ LpTypeOK' /\ UnattributedFee(q.liquidityFee) \in Nat
        /\ unclaimedLpFees' + UnattributedFee(q.liquidityFee) = unclaimedLpFees + q.liquidityFee
    BY <1>3, <1>4, <1>5, DistributeKeepsType
  <1>7. reserve' \in [Side -> Nat]
    BY <1>3, <1>4 DEF MoveReserves
  <1>8. collateralBacking' \in Nat /\ balance' \in Nat /\ pendingCollateral' \in Nat
    BY <1>3, <1>4, <1>5, <1>6
  <1>9. AccountTypeOK'
    BY <1>4, <1>6, <1>7, <1>8 DEF TypeOK, AccountTypeOK, holderVars, rewardVars
  <1>10. unclaimedLpFees' \in Nat /\ winnerRewardPool' = winnerRewardPool
         /\ pendingCollateral' = pendingCollateral
    BY <1>4, <1>6 DEF LpTypeOK, rewardVars
  <1>11. balance + Pools' = balance' + Pools
    <2> DEFINE un == UnattributedFee(q.liquidityFee)
    <2>1. un \in Nat /\ q.liquidityFee \in Nat /\ q.collateralOut \in Nat
      BY <1>3, <1>6
    <2>2. /\ balance' = balance - q.collateralOut
          /\ collateralBacking' = collateralBacking
                - (q.liquidityFee + q.collateralOut) + un
          /\ unclaimedLpFees' = unclaimedLpFees + q.liquidityFee - un
      BY <1>3, <1>4, <1>5, <1>6, <1>10
    <2> HIDE DEF un
    <2> QED
      BY <1>5, <1>10, <2>1, <2>2 DEF Pools
  <1> QED
    BY <1>8, <1>9, <1>11 DEF AccountsKept

\* A deposit is split between the reserves in proportion, the larger one takes
\* all of it, and the depositor keeps the difference as positions.
LEMMA DepositSplit ==
    ASSUME TypeOK, NEW a \in Action, Computable(a), a.kind = "AddLiquidity"
    PROVE  /\ SharesFor(a) \in Nat
           /\ \A s \in Side : AddedTo(s, a) \in Nat /\ AddedTo(s, a) <= a.amount
  <1>1. a.amount \in Nat /\ totalLpShares \in Nat /\ reserve \in [Side -> Nat]
    BY DEF TypeOK, AccountTypeOK, LpTypeOK, Action
  <1>2. CASE totalLpShares = 0
    BY <1>1, <1>2 DEF SharesFor, AddedTo
  <1>3. CASE totalLpShares # 0
    <2>1. LargestReserve \in Nat \ {0} /\ \A s \in Side : reserve[s] <= LargestReserve
      BY <1>1, <1>3 DEF Computable, LargestReserve, Side
    <2> HIDE DEF LargestReserve
    <2>2. SharesFor(a) \in Nat
      BY <1>1, <1>3, <2>1, MulDivNat DEF SharesFor
    <2>3. ASSUME NEW s \in Side
          PROVE  AddedTo(s, a) \in Nat /\ AddedTo(s, a) <= a.amount
      BY <1>1, <1>3, <2>1, MulDivNat, MulDivShare DEF AddedTo
    <2> QED
      BY <2>2, <2>3
  <1> QED
    BY <1>2, <1>3

LEMMA AddLiquidityKept ==
    ASSUME TypeOK, NEW a \in Action, Computable(a), ExecuteAddLiquidity(a)
    PROVE  AccountsKept
  <1>1. a.kind = "AddLiquidity" /\ a.user \in Users /\ a.amount \in Nat
    BY DEF Action, ExecuteAddLiquidity
  <1>2. /\ SharesFor(a) \in Nat
        /\ \A s \in Side : AddedTo(s, a) \in Nat /\ AddedTo(s, a) <= a.amount
    BY <1>1, DepositSplit
  <1>3. /\ a.amount <= pendingCollateral
        /\ pendingCollateral' = pendingCollateral - a.amount
        /\ collateralBacking' = collateralBacking + a.amount
        /\ MintShares(a.user, SharesFor(a))
        /\ reserve' = [s \in Side |-> reserve[s] + AddedTo(s, a)]
        /\ positionOf' = [positionOf EXCEPT ![a.user] =
                             [s \in Side |-> @[s] + a.amount - AddedTo(s, a)]]
        /\ UNCHANGED <<winnerFeePaid, rewardVars, balance>>
    BY DEF ExecuteAddLiquidity, ReleasePending
  <1>4. /\ LpTypeOK /\ pendingCollateral \in Nat /\ collateralBacking \in Nat
        /\ winnerRewardPool \in Nat /\ balance \in Nat /\ unclaimedLpFees \in Nat
        /\ reserve \in [Side -> Nat] /\ positionOf \in [Users -> [Side -> Nat]]
    BY DEF TypeOK, AccountTypeOK, QueueTypeOK, LpTypeOK
  <1>5. LpTypeOK' /\ unclaimedLpFees' = unclaimedLpFees
    BY <1>1, <1>2, <1>3, <1>4, MintKeepsType
  <1>6. reserve' \in [Side -> Nat]
    BY <1>2, <1>3, <1>4
  <1>7. positionOf' \in [Users -> [Side -> Nat]]
    <2>1. ASSUME NEW s \in Side
          PROVE  positionOf[a.user][s] + a.amount - AddedTo(s, a) \in Nat
      BY <1>1, <1>2, <1>4
    <2>2. positionOf' = [positionOf EXCEPT ![a.user] =
              [s \in Side |-> positionOf[a.user][s] + a.amount - AddedTo(s, a)]]
      BY <1>1, <1>3, <1>4
    <2> QED
      BY <1>4, <2>1, <2>2
  <1>8. AccountTypeOK'
    BY <1>1, <1>3, <1>4, <1>5, <1>6, <1>7 DEF TypeOK, AccountTypeOK, rewardVars
  <1>9. pendingCollateral' \in Nat /\ balance' \in Nat /\ winnerRewardPool' = winnerRewardPool
        /\ balance' = balance
    BY <1>1, <1>3, <1>4 DEF rewardVars
  <1>10. balance + Pools' = balance' + Pools
    BY <1>1, <1>3, <1>4, <1>5, <1>9 DEF Pools
  <1> QED
    BY <1>8, <1>9, <1>10 DEF AccountsKept

\* A transfer, or the refund of escrowed positions: positions only.
LEMMA CreditKept ==
    ASSUME TypeOK, NEW u \in Users, NEW s \in Side, NEW amount \in Nat,
           Credit(u, s, amount),
           UNCHANGED <<lpVars, poolVars, winnerFeePaid, rewardVars,
                       pendingCollateral, balance>>
    PROVE  AccountsKept
  <1>1. positionOf' \in [Users -> [Side -> Nat]]
    BY CreditKeepsType DEF TypeOK, AccountTypeOK
  <1>2. AccountTypeOK' /\ pendingCollateral' \in Nat /\ balance' \in Nat
    BY <1>1 DEF TypeOK, AccountTypeOK, QueueTypeOK, LpTypeOK, lpVars, poolVars, rewardVars
  <1>3. Pools' = Pools /\ balance' = balance
    BY DEF Pools, lpVars, poolVars, rewardVars
  <1>4. Pools \in Nat /\ balance \in Nat
    BY DEF Pools, TypeOK, AccountTypeOK, QueueTypeOK, LpTypeOK
  <1> QED
    BY <1>2, <1>3, <1>4 DEF AccountsKept

LEMMA RefundCollateralKept ==
    ASSUME TypeOK, NEW a \in Action, RefundCollateral(a)
    PROVE  AccountsKept
  <1>1. /\ a.amount \in Nat /\ a.amount <= pendingCollateral /\ a.amount <= balance
        /\ pendingCollateral' = pendingCollateral - a.amount
        /\ balance' = balance - a.amount
        /\ UNCHANGED accountVars
    BY DEF RefundCollateral, ReleasePending, PayOut, Action
  <1>2. /\ pendingCollateral \in Nat /\ collateralBacking \in Nat /\ winnerRewardPool \in Nat
        /\ unclaimedLpFees \in Nat /\ balance \in Nat
    BY DEF TypeOK, AccountTypeOK, QueueTypeOK, LpTypeOK
  <1>3. AccountTypeOK'
    BY <1>1 DEF TypeOK, AccountTypeOK, LpTypeOK, accountVars, lpVars, poolVars,
                holderVars, rewardVars
  <1>4. /\ collateralBacking' = collateralBacking /\ winnerRewardPool' = winnerRewardPool
        /\ unclaimedLpFees' = unclaimedLpFees
    BY <1>1 DEF accountVars, lpVars, poolVars, rewardVars
  <1>5. pendingCollateral' \in Nat /\ balance' \in Nat /\ balance + Pools' = balance' + Pools
    BY <1>1, <1>2, <1>4 DEF Pools
  <1> QED
    BY <1>3, <1>5 DEF AccountsKept

\* Whatever processEpoch does with an action, the accounts are kept.
LEMMA SettlementKept ==
    ASSUME TypeOK, NEW a \in Action,
           (Computable(a) /\ Execute(a)) \/ Refund(a)
    PROVE  AccountsKept
  <1>1. a.user \in Users /\ a.recipient \in Users /\ a.side \in Side /\ a.amount \in Nat
    BY DEF Action
  <1>2. CASE Computable(a) /\ ExecuteBuy(a)
    BY <1>2, BuyKept
  <1>3. CASE Computable(a) /\ ExecuteSell(a)
    BY <1>3, SellKept
  <1>4. CASE Computable(a) /\ ExecuteAddLiquidity(a)
    BY <1>4, AddLiquidityKept
  <1>5. CASE ExecuteTransfer(a)
    BY <1>1, <1>5, CreditKept DEF ExecuteTransfer
  <1>6. CASE RefundCollateral(a)
    BY <1>6, RefundCollateralKept
  <1>7. CASE RefundPosition(a)
    BY <1>1, <1>7, CreditKept DEF RefundPosition
  <1> QED
    BY <1>2, <1>3, <1>4, <1>5, <1>6, <1>7 DEF Execute, Refund

-------------------------------------------------------------------------------
(* One lemma per group of transactions: the type invariant is kept, and the  *)
(* liabilities change by what the balance changes by.                        *)

Conserved == balance + AccountedLiabilities' = balance' + AccountedLiabilities

\* Parts of the state a transaction leaves alone keep their type.
LEMMA LifecycleFrame ==
    ASSUME TypeOK, UNCHANGED lifecycleVars
    PROVE  /\ GateTypeOK' /\ ResultTypeOK' /\ ChallengeTypeOK'
           /\ HeldChallengeBond' = HeldChallengeBond /\ HeldChallengeBond \in Nat
  <1>1. UNCHANGED gateVars /\ UNCHANGED resultVars /\ UNCHANGED challengeVars
    BY DEF lifecycleVars
  <1>2. GateTypeOK'
    BY <1>1 DEF TypeOK, GateTypeOK, gateVars
  <1>3. ResultTypeOK'
    BY <1>1 DEF TypeOK, ResultTypeOK, resultVars
  <1>4. ChallengeTypeOK'
    BY <1>1 DEF TypeOK, ChallengeTypeOK, challengeVars
  <1>5. HeldChallengeBond' = HeldChallengeBond /\ HeldChallengeBond \in Nat
    BY <1>1 DEF HeldChallengeBond, challengeVars, resultVars, TypeOK, ChallengeTypeOK
  <1> QED
    BY <1>2, <1>3, <1>4, <1>5

LEMMA BondFrame ==
    ASSUME TypeOK, UNCHANGED bondVars
    PROVE  /\ BondTypeOK'
           /\ totalIntegrityBondLiability' = totalIntegrityBondLiability
           /\ totalIntegrityBondLiability \in Nat
  BY DEF TypeOK, BondTypeOK, bondVars

LEMMA AccountFrame ==
    ASSUME TypeOK, UNCHANGED accountVars
    PROVE  /\ AccountTypeOK'
           /\ collateralBacking' = collateralBacking /\ collateralBacking \in Nat
           /\ winnerRewardPool' = winnerRewardPool /\ winnerRewardPool \in Nat
           /\ unclaimedLpFees' = unclaimedLpFees /\ unclaimedLpFees \in Nat
  BY DEF TypeOK, AccountTypeOK, LpTypeOK, accountVars, lpVars, poolVars, holderVars, rewardVars

LEMMA QueueFrame ==
    ASSUME TypeOK, UNCHANGED queueVars
    PROVE  /\ QueueTypeOK'
           /\ pendingCollateral' = pendingCollateral /\ pendingCollateral \in Nat
  BY DEF TypeOK, QueueTypeOK, queueVars

LEMMA AccountsNat ==
    ASSUME TypeOK
    PROVE  Pools \in Nat /\ balance \in Nat /\ collateralBacking \in Nat
           /\ winnerRewardPool \in Nat /\ unclaimedLpFees \in Nat /\ pendingCollateral \in Nat
  BY DEF TypeOK, AccountTypeOK, LpTypeOK, QueueTypeOK, Pools

LEMMA SumNat ==
    \A w, x, y, z \in Nat : w + x + y + z \in Nat
  OBVIOUS

LEMMA SumShift ==
    \A x, y, p, q, t, h \in Nat :
        x + q = y + p => x + (q + t + h) = y + (p + t + h)
  OBVIOUS

\* Kept accounts and untouched bonds conserve the liabilities.
LEMMA KeptConserves ==
    ASSUME TypeOK, AccountsKept, UNCHANGED lifecycleVars, UNCHANGED bondVars
    PROVE  Conserved
  <1>1. /\ HeldChallengeBond' = HeldChallengeBond /\ HeldChallengeBond \in Nat
        /\ totalIntegrityBondLiability' = totalIntegrityBondLiability
        /\ totalIntegrityBondLiability \in Nat
    BY LifecycleFrame, BondFrame
  <1>2. AccountedLiabilities = Pools + totalIntegrityBondLiability + HeldChallengeBond
    BY DEF AccountedLiabilities, Pools
  <1>3. AccountedLiabilities' = Pools' + totalIntegrityBondLiability' + HeldChallengeBond'
    BY DEF AccountedLiabilities, Pools
  <1>4. Pools \in Nat /\ Pools' \in Nat /\ balance \in Nat /\ balance' \in Nat
        /\ balance + Pools' = balance' + Pools
    <2>1. /\ collateralBacking' \in Nat /\ winnerRewardPool' \in Nat
          /\ unclaimedLpFees' \in Nat /\ pendingCollateral' \in Nat
      BY DEF AccountsKept, AccountTypeOK, LpTypeOK
    <2>2. Pools' = collateralBacking' + winnerRewardPool' + unclaimedLpFees'
                       + pendingCollateral'
      BY DEF Pools
    <2>3. Pools' \in Nat
      BY <2>1, <2>2, SumNat
    <2> QED
      BY <2>3, AccountsNat DEF AccountsKept
  <1> QED
    BY <1>1, <1>2, <1>3, <1>4, SumShift DEF Conserved

LEMMA CurrentEpochType ==
    ASSUME now \in 0 .. MaxTime
    PROVE  CurrentEpoch \in Epoch /\ CurrentEpoch \in Nat
  <1>1. now \in Nat /\ MaxTime \in Nat /\ now <= MaxTime /\ EpochDuration \in Nat \ {0}
    BY MarketAssumption
  <1> DEFINE a == now \div EpochDuration
             b == MaxTime \div EpochDuration
  <1>2. /\ a \in Nat /\ EpochDuration * a <= now
        /\ b \in Nat /\ MaxTime < EpochDuration * b + EpochDuration
    BY <1>1, DivBounds
  <1> HIDE DEF a, b
  <1>3. a <= b
    <2> SUFFICES ASSUME b < a PROVE FALSE
      BY <1>2
    <2>1. EpochDuration * (b + 1) <= EpochDuration * a
      BY <1>1, <1>2, ProductMonotone
    <2>2. EpochDuration * (b + 1) = EpochDuration * b + EpochDuration
      BY <1>1, <1>2
    <2>3. EpochDuration * b \in Nat /\ EpochDuration * a \in Nat
      BY <1>1, <1>2, ProductNat
    <2> QED
      BY <1>1, <1>2, <2>1, <2>2, <2>3
  <1> QED
    BY <1>2, <1>3 DEF CurrentEpoch, Epoch, a, b

LEMMA TickKept ==
    ASSUME TypeOK, Tick
    PROVE  TypeOK' /\ Conserved
  <1>1. /\ now' \in 0 .. MaxTime
        /\ UNCHANGED lifecycleVars /\ UNCHANGED bondVars /\ UNCHANGED accountVars
        /\ UNCHANGED queueVars /\ UNCHANGED balance
    BY MarketAssumption DEF Tick, TypeOK
  <1>2. TypeOK'
    BY <1>1, LifecycleFrame, BondFrame, AccountFrame, QueueFrame, AccountsNat DEF TypeOK
  <1>3. AccountsKept
    BY <1>1, AccountFrame, QueueFrame, AccountsNat DEF AccountsKept, Pools
  <1> QED
    BY <1>1, <1>2, <1>3, KeptConserves

LEMMA GateKept ==
    ASSUME TypeOK, Gate
    PROVE  TypeOK' /\ Conserved
  <1>1. /\ UNCHANGED <<now, resultVars, challengeVars, bondVars, accountVars, queueVars, balance>>
        /\ UNCHANGED resultVars /\ UNCHANGED challengeVars /\ UNCHANGED bondVars
        /\ UNCHANGED accountVars /\ UNCHANGED queueVars
    BY DEF Gate
  <1>2. GateTypeOK'
    <2>1. PICK seq \in SourceSequences :
             \/ \E e \in Epoch : MarkEpochSafe(e, seq)
             \/ SuspendGate(seq)
             \/ ReopenGate(seq)
             \/ CloseForDecisiveEvent(seq)
      BY DEF Gate
    <2>2. seq \in Nat /\ CurrentEpoch \in Nat /\ now + ResolutionWindow \in Nat
      BY MarketAssumption, CurrentEpochType DEF TypeOK
    <2>3. CASE \E e \in Epoch : MarkEpochSafe(e, seq)
      BY <2>2, <2>3 DEF MarkEpochSafe, TypeOK, GateTypeOK
    <2>4. CASE SuspendGate(seq)
      BY <2>2, <2>4 DEF SuspendGate, TypeOK, GateTypeOK
    <2>5. CASE ReopenGate(seq)
      BY <2>2, <2>5 DEF ReopenGate, TypeOK, GateTypeOK
    <2>6. CASE CloseForDecisiveEvent(seq)
      BY <2>2, <2>6 DEF CloseForDecisiveEvent, TypeOK, GateTypeOK
    <2> QED
      BY <2>1, <2>3, <2>4, <2>5, <2>6
  <1>3. ResultTypeOK' /\ ChallengeTypeOK'
    BY <1>1 DEF TypeOK, ResultTypeOK, ChallengeTypeOK, resultVars, challengeVars
  <1>4. TypeOK'
    BY <1>1, <1>2, <1>3, BondFrame, AccountFrame, QueueFrame DEF TypeOK
  <1>5. AccountedLiabilities' = AccountedLiabilities /\ balance' = balance
    BY <1>1 DEF AccountedLiabilities, HeldChallengeBond, resultVars, challengeVars,
                bondVars, accountVars, lpVars, poolVars, rewardVars, queueVars
  <1> QED
    BY <1>4, <1>5 DEF Conserved

LEMMA NewActionType ==
    ASSUME TypeOK, NEW kind \in {"Buy", "Sell", "AddLiquidity", "Transfer"},
           NEW u \in Users, NEW to \in Users, NEW s \in Side,
           NEW amount \in Nat \ {0}, NEW minimum \in Nat, NEW delay \in DeadlineDelays
    PROVE  NewAction(kind, u, to, s, amount, minimum, now + delay) \in Action
  <1>1. CurrentEpoch \in Epoch /\ now + delay \in Nat
    BY CurrentEpochType, MarketAssumption DEF TypeOK
  <1> QED
    BY <1>1 DEF NewAction, Action

LEMMA RecordKeepsQueue ==
    ASSUME TypeOK, NEW action \in Action, RecordAction(action), pendingCollateral' \in Nat
    PROVE  QueueTypeOK'
  <1>1. CurrentEpoch \in Epoch
    BY CurrentEpochType DEF TypeOK
  <1>2. /\ actions \in Seq(Action) /\ Len(actions) \in Nat
        /\ epochActionIds \in [Epoch -> Seq(DOMAIN actions)]
        /\ epochCursor \in [Epoch -> Nat]
    BY DEF TypeOK, QueueTypeOK
  <1>3. /\ actions' \in Seq(Action)
        /\ DOMAIN actions' = 1 .. (Len(actions) + 1) /\ DOMAIN actions = 1 .. Len(actions)
    BY <1>2 DEF RecordAction
  <1>4. \A e \in Epoch : epochActionIds[e] \in Seq(DOMAIN actions')
    <2> SUFFICES ASSUME NEW e \in Epoch
                 PROVE  epochActionIds[e] \in Seq(DOMAIN actions')
      OBVIOUS
    <2>1. epochActionIds[e] \in Seq(1 .. Len(actions))
      BY <1>2, <1>3
    <2>2. \A i \in 1 .. Len(epochActionIds[e]) :
              epochActionIds[e][i] \in 1 .. (Len(actions) + 1)
      BY <1>2, <2>1
    <2> QED
      BY <1>3, <2>1, <2>2
  <1>5. epochActionIds' = [epochActionIds EXCEPT ![CurrentEpoch] =
                              Append(@, Len(actions) + 1)]
    BY DEF RecordAction
  <1>6. Append(epochActionIds[CurrentEpoch], Len(actions) + 1) \in Seq(DOMAIN actions')
    BY <1>1, <1>2, <1>3, <1>4
  <1>7. epochActionIds' \in [Epoch -> Seq(DOMAIN actions')]
    BY <1>1, <1>2, <1>4, <1>5, <1>6
  <1> QED
    BY <1>2, <1>3, <1>7 DEF QueueTypeOK, RecordAction

LEMMA EscrowKept ==
    ASSUME TypeOK, NEW action \in Action, RecordAction(action), UNCHANGED SubmitVars,
           \/ EscrowCollateral(action.amount)
           \/ EscrowPosition(action.user, action.side, action.amount)
    PROVE  TypeOK' /\ Conserved
  <1>1. action.amount \in Nat /\ action.user \in Users /\ action.side \in Side
    BY DEF Action
  <1>2. /\ UNCHANGED lifecycleVars /\ UNCHANGED bondVars /\ UNCHANGED lpVars
        /\ UNCHANGED poolVars /\ UNCHANGED rewardVars
        /\ UNCHANGED <<now, winnerFeePaid>>
    BY DEF SubmitVars
  <1>3. /\ pendingCollateral' \in Nat /\ balance' \in Nat
        /\ balance + pendingCollateral' = balance' + pendingCollateral
        /\ positionOf' \in [Users -> [Side -> Nat]]
    <2>1. CASE EscrowCollateral(action.amount)
      BY <1>1, <2>1, AccountsNat DEF EscrowCollateral, TypeOK, AccountTypeOK
    <2>2. CASE EscrowPosition(action.user, action.side, action.amount)
      <3>1. /\ positionOf \in [Users -> [Side -> Nat]]
            /\ positionOf[action.user][action.side] - action.amount \in Nat
        BY <1>1, <2>2 DEF EscrowPosition, TypeOK, AccountTypeOK
      <3> QED
        BY <1>1, <2>2, <3>1, AccountsNat DEF EscrowPosition
    <2> QED
      BY <2>1, <2>2
  <1>4. AccountTypeOK'
    BY <1>2, <1>3 DEF TypeOK, AccountTypeOK, LpTypeOK, lpVars, poolVars, rewardVars
  <1>5. QueueTypeOK'
    BY <1>3, RecordKeepsQueue
  <1>6. TypeOK'
    BY <1>2, <1>3, <1>4, <1>5, LifecycleFrame, BondFrame DEF TypeOK
  <1>7. /\ collateralBacking' = collateralBacking /\ winnerRewardPool' = winnerRewardPool
        /\ unclaimedLpFees' = unclaimedLpFees
    BY <1>2 DEF lpVars, poolVars, rewardVars
  <1>8. balance + Pools' = balance' + Pools
    BY <1>3, <1>7, AccountsNat DEF Pools
  <1>9. AccountsKept
    BY <1>3, <1>4, <1>8 DEF AccountsKept
  <1> QED
    BY <1>2, <1>6, <1>9, KeptConserves

LEMMA SubmitKept ==
    ASSUME TypeOK, Submit \/ ProvideLiquidity
    PROVE  TypeOK' /\ Conserved
  <1>1. ASSUME NEW u \in Users, NEW s \in Side, NEW delay \in DeadlineDelays,
               NEW budget \in BuyAmounts, NEW minimum \in MinimumReturns,
               SubmitBuy(u, s, budget, minimum, now + delay)
        PROVE  TypeOK' /\ Conserved
    <2> DEFINE a == NewAction("Buy", u, u, s, budget, minimum, now + delay)
    <2>1. a \in Action /\ a.amount = budget
      BY NewActionType, MarketAssumption DEF NewAction
    <2>2. RecordAction(a) /\ EscrowCollateral(budget) /\ UNCHANGED SubmitVars
      BY <1>1 DEF SubmitBuy
    <2> HIDE DEF a
    <2> QED
      BY <2>1, <2>2, EscrowKept
  <1>2. ASSUME NEW u \in Users, NEW s \in Side, NEW delay \in DeadlineDelays,
               NEW amount \in PositionAmounts, NEW minimum \in MinimumReturns,
               SubmitSell(u, s, amount, minimum, now + delay)
        PROVE  TypeOK' /\ Conserved
    <2> DEFINE a == NewAction("Sell", u, u, s, amount, minimum, now + delay)
    <2>1. a \in Action /\ a.amount = amount /\ a.user = u /\ a.side = s
      BY NewActionType, MarketAssumption DEF NewAction
    <2>2. RecordAction(a) /\ EscrowPosition(u, s, amount) /\ UNCHANGED SubmitVars
      BY <1>2 DEF SubmitSell
    <2> HIDE DEF a
    <2> QED
      BY <2>1, <2>2, EscrowKept
  <1>3. ASSUME NEW u \in Users, NEW s \in Side, NEW delay \in DeadlineDelays,
               NEW to \in Users, NEW amount \in PositionAmounts,
               SubmitPositionTransfer(u, to, s, amount, now + delay)
        PROVE  TypeOK' /\ Conserved
    <2> DEFINE a == NewAction("Transfer", u, to, s, amount, 0, now + delay)
    <2>1. a \in Action /\ a.amount = amount /\ a.user = u /\ a.side = s
      BY NewActionType, MarketAssumption DEF NewAction
    <2>2. RecordAction(a) /\ EscrowPosition(u, s, amount) /\ UNCHANGED SubmitVars
      BY <1>3 DEF SubmitPositionTransfer
    <2> HIDE DEF a
    <2> QED
      BY <2>1, <2>2, EscrowKept
  <1>4. ASSUME NEW u \in Users, NEW amount \in LiquidityAmounts,
               NEW minimum \in MinimumReturns, NEW delay \in DeadlineDelays,
               SubmitAddLiquidity(u, amount, minimum, now + delay)
        PROVE  TypeOK' /\ Conserved
    <2> DEFINE a == NewAction("AddLiquidity", u, u, "B", amount, minimum, now + delay)
    <2>1. a \in Action /\ a.amount = amount
      BY NewActionType, MarketAssumption DEF NewAction, Side
    <2>2. RecordAction(a) /\ EscrowCollateral(amount) /\ UNCHANGED SubmitVars
      BY <1>4 DEF SubmitAddLiquidity
    <2> HIDE DEF a
    <2> QED
      BY <2>1, <2>2, EscrowKept
  <1> QED
    BY <1>1, <1>2, <1>3, <1>4 DEF Submit, ProvideLiquidity

\* Processing settles the next action of an epoch, and keeps the accounts.
LEMMA ProcessKept ==
    ASSUME TypeOK, NEW e \in Epoch, ProcessEpoch(e)
    PROVE  TypeOK' /\ Conserved
  <1> DEFINE id == NextId(e)
             a == actions[id]
  <1>1. id \in DOMAIN actions
    <2>1. /\ epochActionIds[e] \in Seq(DOMAIN actions) /\ epochCursor[e] \in Nat
          /\ epochCursor[e] < Len(epochActionIds[e])
      BY DEF ProcessEpoch, HasNext, TypeOK, QueueTypeOK
    <2>2. epochCursor[e] + 1 \in 1 .. Len(epochActionIds[e])
      BY <2>1
    <2> QED
      BY <2>1, <2>2 DEF NextId
  <1>2. actions \in Seq(Action) /\ a \in Action
    BY <1>1 DEF TypeOK, QueueTypeOK
  <1>3. \/ Executes(e, a) /\ Execute(a) /\ Settle(e, id, "Executed")
        \/ Refund(a) /\ Settle(e, id, "Refunded")
    BY DEF ProcessEpoch
  <1>4. PICK status \in {"Executed", "Refunded"} : Settle(e, id, status)
    BY <1>3
  <1>5. (Computable(a) /\ Execute(a)) \/ Refund(a)
    BY <1>3 DEF Executes
  <1> HIDE DEF id, a
  <1>6. AccountsKept
    BY <1>2, <1>5, SettlementKept
  <1>7. /\ actions' = [actions EXCEPT ![id].status = status]
        /\ epochCursor' = [epochCursor EXCEPT ![e] = @ + 1]
        /\ UNCHANGED now /\ UNCHANGED lifecycleVars /\ UNCHANGED bondVars
        /\ epochActionIds' = epochActionIds
    BY <1>4 DEF Settle
  <1>8. QueueTypeOK'
    <2>1. [actions[id] EXCEPT !.status = status] \in Action
      BY <1>2 DEF Action, a
    <2>2. actions' \in Seq(Action) /\ DOMAIN actions' = DOMAIN actions
      BY <1>1, <1>2, <1>7, <2>1
    <2>3. epochCursor' \in [Epoch -> Nat]
      BY <1>7 DEF TypeOK, QueueTypeOK
    <2> QED
      BY <1>6, <1>7, <2>2, <2>3 DEF TypeOK, QueueTypeOK, AccountsKept
  <1>9. TypeOK'
    BY <1>6, <1>7, <1>8, LifecycleFrame, BondFrame DEF TypeOK, AccountsKept
  <1> QED
    BY <1>6, <1>7, <1>9, KeptConserves

\* A resolution step moves no account but the held challenge bond.
LEMMA ResolutionMoves ==
    ASSUME TypeOK, ResolutionFrame, ResultTypeOK', ChallengeTypeOK', balance' \in Nat,
           balance + HeldChallengeBond' = balance' + HeldChallengeBond
    PROVE  TypeOK' /\ Conserved
  <1>1. /\ UNCHANGED <<now, gateVars>> /\ UNCHANGED bondVars
        /\ UNCHANGED accountVars /\ UNCHANGED queueVars
    BY DEF ResolutionFrame
  <1>2. GateTypeOK' /\ now' \in 0 .. MaxTime
    BY <1>1 DEF TypeOK, GateTypeOK, gateVars
  <1>3. TypeOK'
    BY <1>1, <1>2, BondFrame, AccountFrame, QueueFrame DEF TypeOK
  <1> DEFINE rest == Pools + totalIntegrityBondLiability
  <1>4. rest \in Nat /\ rest' = rest
    <2>1. totalIntegrityBondLiability \in Nat
          /\ totalIntegrityBondLiability' = totalIntegrityBondLiability
      BY <1>1, BondFrame
    <2>2. Pools' = Pools
      BY <1>1, AccountFrame, QueueFrame DEF Pools
    <2> QED
      BY <2>1, <2>2, AccountsNat
  <1>5. /\ AccountedLiabilities = rest + HeldChallengeBond
        /\ AccountedLiabilities' = rest' + HeldChallengeBond'
    BY DEF AccountedLiabilities, Pools
  <1>6. /\ HeldChallengeBond \in Nat /\ HeldChallengeBond' \in Nat
        /\ balance \in Nat /\ balance' \in Nat
    BY AccountsNat DEF HeldChallengeBond, TypeOK, ChallengeTypeOK
  <1> HIDE DEF rest
  <1>7. \A x, y, h, k, r \in Nat : x + k = y + h => x + (r + k) = y + (r + h)
    OBVIOUS
  <1> QED
    BY <1>3, <1>4, <1>5, <1>6, <1>7 DEF Conserved

LEMMA ResolveKept ==
    ASSUME TypeOK, ChallengeBondHeld, Resolve
    PROVE  TypeOK' /\ ChallengeBondHeld' /\ Conserved
  <1> USE DEF TypeOK, ResultTypeOK, ChallengeTypeOK, ChallengeBondHeld
  <1>a. /\ now \in Nat /\ CHALLENGE_BOND \in Nat /\ balance \in Nat
        /\ "Invalid" \in Outcome
    BY AccountsNat, MarketAssumption DEF Outcome
  <1>1. ASSUME NEW r \in Resolvers, NEW outcome \in AttestedOutcomes,
               NEW evidence \in Evidence, AttestResult(r, outcome, evidence)
        PROVE  TypeOK' /\ ChallengeBondHeld' /\ Conserved
    <2>1. /\ ResolutionFrame /\ UNCHANGED <<finalOutcome, challengeVars, balance>>
          /\ provisionalOutcome = "Unset"
          /\ outcome \in Outcome \ {"Unset"}
          /\ resultAttestedBy' = resultAttestedBy \cup {<<outcome, evidence, r>>}
          /\ \/ provisionalOutcome' = outcome /\ provisionalAt' = now
             \/ UNCHANGED <<provisionalOutcome, provisionalAt>>
      BY <1>1, MarketAssumption DEF AttestResult
    <2>2. ResultTypeOK' /\ ChallengeTypeOK' /\ balance' \in Nat
      BY <1>a, <2>1 DEF challengeVars
    <2>3. HeldChallengeBond' = HeldChallengeBond /\ HeldChallengeBond \in Nat
          /\ balance' = balance
      BY <2>1 DEF HeldChallengeBond, challengeVars
    <2>4. ChallengeBondHeld'
      BY <2>1 DEF challengeVars
    <2> QED
      BY <1>a, <2>1, <2>2, <2>3, <2>4, ResolutionMoves
  <1>2. ASSUME ChallengeResult
        PROVE  TypeOK' /\ ChallengeBondHeld' /\ Conserved
    <2>1. /\ ResolutionFrame /\ UNCHANGED challengeVerdictBy /\ UNCHANGED resultVars
          /\ provisionalOutcome # "Unset" /\ finalOutcome = "Unset" /\ ~challenged
          /\ challenged' = TRUE /\ challengedAt' = now /\ challengeBond' = CHALLENGE_BOND
          /\ balance' = balance + CHALLENGE_BOND
      BY <1>2 DEF ChallengeResult
    <2>2. ResultTypeOK' /\ ChallengeTypeOK' /\ balance' \in Nat
      BY <1>a, <2>1 DEF resultVars
    <2>3. HeldChallengeBond = 0 /\ HeldChallengeBond' = CHALLENGE_BOND
      BY <2>1 DEF HeldChallengeBond, resultVars
    <2>4. ChallengeBondHeld'
      BY <2>1 DEF resultVars
    <2>5. balance + HeldChallengeBond' = balance' + HeldChallengeBond
      BY <1>a, <2>1, <2>3
    <2> QED
      BY <2>1, <2>2, <2>4, <2>5, ResolutionMoves
  <1>3. ASSUME NEW outcome \in Outcome \ {"Unset"}, Finalize(outcome), ResolutionFrame,
               challenged, finalOutcome = "Unset", ReleaseChallengeBond,
               UNCHANGED <<challenged, challengedAt>>, challengeVerdictBy' \subseteq BOOLEAN \X Resolvers
        PROVE  TypeOK' /\ ChallengeBondHeld' /\ Conserved
    <2>1. /\ finalOutcome' = outcome /\ outcome # "Unset"
          /\ UNCHANGED <<provisionalOutcome, provisionalAt, resultAttestedBy>>
          /\ challengeBond' = 0 /\ challengeBond <= balance
          /\ balance' = balance - challengeBond
      BY <1>3 DEF Finalize, ReleaseChallengeBond, PayOut
    <2>2. ResultTypeOK' /\ ChallengeTypeOK' /\ balance' \in Nat
      BY <1>3, <1>a, <2>1
    <2>3. HeldChallengeBond' = 0 /\ HeldChallengeBond = challengeBond
      BY <1>3, <2>1 DEF HeldChallengeBond
    <2>4. ChallengeBondHeld'
      BY <1>3, <2>1
    <2>5. balance + HeldChallengeBond' = balance' + HeldChallengeBond
      BY <1>a, <2>1, <2>3
    <2> QED
      BY <1>3, <2>2, <2>4, <2>5, ResolutionMoves
  <1>4. ASSUME NEW r \in Resolvers, NEW accept \in BOOLEAN, AttestChallengeVerdict(r, accept)
        PROVE  TypeOK' /\ ChallengeBondHeld' /\ Conserved
    <2>1. /\ challenged /\ finalOutcome = "Unset" /\ ResolutionFrame
          /\ UNCHANGED <<challenged, challengedAt>>
          /\ challengeVerdictBy' = challengeVerdictBy \cup {<<accept, r>>}
          /\ \/ /\ ReleaseChallengeBond
                /\ Finalize(IF accept THEN "Invalid" ELSE provisionalOutcome)
             \/ UNCHANGED <<challengeBond, balance, resultVars>>
      BY <1>4 DEF AttestChallengeVerdict
    <2>2. challengeVerdictBy' \subseteq BOOLEAN \X Resolvers
      BY <2>1
    <2>3. CASE /\ ReleaseChallengeBond
               /\ Finalize(IF accept THEN "Invalid" ELSE provisionalOutcome)
      <3>1. (IF accept THEN "Invalid" ELSE provisionalOutcome) \in Outcome \ {"Unset"}
        BY <1>a, <2>1
      <3> QED
        BY <1>3, <2>1, <2>2, <2>3, <3>1
    <2>4. CASE UNCHANGED <<challengeBond, balance, resultVars>>
      <3>1. ResultTypeOK' /\ ChallengeTypeOK' /\ balance' \in Nat /\ balance' = balance
        BY <1>a, <2>1, <2>2, <2>4 DEF resultVars
      <3>2. HeldChallengeBond' = HeldChallengeBond /\ HeldChallengeBond \in Nat
        BY <2>1, <2>4 DEF HeldChallengeBond, resultVars
      <3>3. ChallengeBondHeld'
        BY <2>1, <2>4 DEF resultVars
      <3> QED
        BY <2>1, <3>1, <3>2, <3>3, ResolutionMoves
    <2> QED
      BY <2>1, <2>3, <2>4
  <1>5. ASSUME ExpireChallenge
        PROVE  TypeOK' /\ ChallengeBondHeld' /\ Conserved
    BY <1>3, <1>5, <1>a DEF ExpireChallenge
  <1>6. ASSUME NEW outcome \in Outcome \ {"Unset"}, Finalize(outcome), ResolutionFrame,
               ~challenged, finalOutcome = "Unset", UNCHANGED <<challengeVars, balance>>
        PROVE  TypeOK' /\ ChallengeBondHeld' /\ Conserved
    <2>1. /\ finalOutcome' = outcome
          /\ UNCHANGED <<provisionalOutcome, provisionalAt, resultAttestedBy>>
      BY <1>6 DEF Finalize
    <2>2. ResultTypeOK' /\ ChallengeTypeOK' /\ balance' \in Nat /\ balance' = balance
      BY <1>6, <1>a, <2>1 DEF challengeVars
    <2>3. HeldChallengeBond' = 0 /\ HeldChallengeBond = 0
      BY <1>6, <2>1 DEF HeldChallengeBond, challengeVars
    <2>4. ChallengeBondHeld'
      BY <1>6, <2>1 DEF challengeVars
    <2> QED
      BY <1>6, <2>2, <2>3, <2>4, ResolutionMoves
  <1>7. ASSUME FinalizeUnchallenged
        PROVE  TypeOK' /\ ChallengeBondHeld' /\ Conserved
    BY <1>6, <1>7 DEF FinalizeUnchallenged
  <1>8. ASSUME InvalidateUnresolved
        PROVE  TypeOK' /\ ChallengeBondHeld' /\ Conserved
    BY <1>6, <1>8, <1>a DEF InvalidateUnresolved
  <1> QED
    BY <1>1, <1>2, <1>4, <1>5, <1>7, <1>8 DEF Resolve

\* A claim keeps the lifecycle and the queue: what is left to show is that the
\* accounts and the bonds pay what the balance loses.
LEMMA ClaimMoves ==
    ASSUME TypeOK, ClaimFrame, AccountTypeOK', BondTypeOK', balance' \in Nat,
           balance + (Pools' + totalIntegrityBondLiability')
               = balance' + (Pools + totalIntegrityBondLiability)
    PROVE  TypeOK' /\ Conserved
  <1>1. UNCHANGED now /\ UNCHANGED lifecycleVars /\ UNCHANGED queueVars
    BY DEF ClaimFrame
  <1>2. TypeOK'
    BY <1>1, LifecycleFrame, QueueFrame DEF TypeOK
  <1>3. HeldChallengeBond' = HeldChallengeBond /\ HeldChallengeBond \in Nat
    BY <1>1, LifecycleFrame
  <1> DEFINE held == Pools + totalIntegrityBondLiability
  <1>4. held \in Nat /\ held' \in Nat /\ balance \in Nat
    <2>1. /\ collateralBacking' \in Nat /\ winnerRewardPool' \in Nat
          /\ unclaimedLpFees' \in Nat /\ pendingCollateral' \in Nat
          /\ totalIntegrityBondLiability' \in Nat
      BY <1>1, QueueFrame DEF AccountTypeOK, LpTypeOK, BondTypeOK
    <2>2. Pools' + totalIntegrityBondLiability' =
            (collateralBacking' + winnerRewardPool' + unclaimedLpFees' + pendingCollateral')
               + totalIntegrityBondLiability'
      BY DEF Pools
    <2>3. \A x, y \in Nat : x + y \in Nat
      OBVIOUS
    <2>4. held' \in Nat
      BY <2>1, <2>2, <2>3, SumNat
    <2> QED
      BY <2>3, <2>4, AccountsNat DEF TypeOK, BondTypeOK
  <1>5. /\ AccountedLiabilities = held + HeldChallengeBond
        /\ AccountedLiabilities' = held' + HeldChallengeBond'
    BY DEF AccountedLiabilities, Pools
  <1>6. balance + held' = balance' + held
    OBVIOUS
  <1> HIDE DEF held
  <1>7. \A x, y, p, q, h \in Nat : x + q = y + p => x + (q + h) = y + (p + h)
    OBVIOUS
  <1> QED
    BY <1>2, <1>3, <1>4, <1>5, <1>6, <1>7 DEF Conserved

\* A claim paid out of one account, bonds untouched: the account and the balance
\* fall by the same amount.
LEMMA PaidFromAccounts ==
    ASSUME TypeOK, ClaimFrame, UNCHANGED bondVars, AccountTypeOK',
           NEW amount \in Nat, PayOut(amount),
           NEW backing \in Nat, NEW reward \in Nat, NEW fees \in Nat,
           backing + reward + fees = amount,
           collateralBacking' = collateralBacking - backing,
           winnerRewardPool' = winnerRewardPool - reward,
           unclaimedLpFees' = unclaimedLpFees - fees
    PROVE  TypeOK' /\ Conserved
  <1>1. amount <= balance /\ balance' = balance - amount /\ balance' \in Nat
    BY AccountsNat DEF PayOut
  <1>2. BondTypeOK' /\ totalIntegrityBondLiability' = totalIntegrityBondLiability
        /\ totalIntegrityBondLiability \in Nat
    BY BondFrame
  <1>3. pendingCollateral' = pendingCollateral
    BY DEF ClaimFrame, queueVars
  <1>4. balance + (Pools' + totalIntegrityBondLiability')
            = balance' + (Pools + totalIntegrityBondLiability)
    BY <1>1, <1>2, <1>3, AccountsNat DEF Pools
  <1> QED
    BY <1>1, <1>2, <1>4, ClaimMoves

LEMMA ClaimLpFeesKept ==
    ASSUME TypeOK, NEW u \in Users, ClaimLpFees(u)
    PROVE  TypeOK' /\ Conserved
  <1>1. /\ CollectFees(u) /\ PayOut(Accrued(u)) /\ ClaimFrame
        /\ UNCHANGED bondVars /\ UNCHANGED poolVars /\ UNCHANGED holderVars
        /\ UNCHANGED rewardVars
    BY DEF ClaimLpFees
  <1>2. LpTypeOK
    BY DEF TypeOK, AccountTypeOK
  <1>3. Accrued(u) \in Nat /\ LpTypeOK'
        /\ unclaimedLpFees' = unclaimedLpFees - Accrued(u)
    BY <1>1, <1>2, AccruedNat, CollectKeepsType DEF CollectFees
  <1>4. AccountTypeOK'
    BY <1>1, <1>3 DEF TypeOK, AccountTypeOK, poolVars, holderVars, rewardVars
  <1>5. collateralBacking' = collateralBacking - 0 /\ winnerRewardPool' = winnerRewardPool - 0
    BY <1>1, AccountsNat DEF poolVars, rewardVars
  <1> DEFINE amount == Accrued(u)
  <1>6. amount \in Nat /\ 0 + 0 + amount = amount
    BY <1>3
  <1> HIDE DEF amount
  <1>7. PayOut(amount) /\ unclaimedLpFees' = unclaimedLpFees - amount
    BY <1>1, <1>3 DEF amount
  <1> QED
    BY <1>1, <1>4, <1>5, <1>6, <1>7, PaidFromAccounts

LEMMA ResolvedValueNat ==
    ASSUME NEW x \in Nat, NEW y \in Nat
    PROVE  ResolvedValue(x, y) \in Nat
  BY DivBounds DEF ResolvedValue

LEMMA RedeemPositionsKept ==
    ASSUME TypeOK, NEW u \in Users, RedeemPositions(u)
    PROVE  TypeOK' /\ Conserved
  <1> DEFINE amount == ResolvedValue(positionOf[u]["A"], positionOf[u]["B"])
  <1>1. amount \in Nat
    BY ResolvedValueNat DEF TypeOK, AccountTypeOK, Side
  <1>2. /\ ClaimFrame /\ UNCHANGED bondVars /\ UNCHANGED lpVars /\ UNCHANGED rewardVars
        /\ UNCHANGED <<reserve, winnerFeePaid>>
        /\ positionOf' = [positionOf EXCEPT ![u] = [s \in Side |-> 0]]
        /\ amount <= collateralBacking /\ collateralBacking' = collateralBacking - amount
        /\ PayOut(amount)
    BY DEF RedeemPositions, PayFromBacking
  <1> HIDE DEF amount
  <1>3. collateralBacking' \in Nat
    BY <1>1, <1>2, AccountsNat
  <1>4. AccountTypeOK'
    BY <1>2, <1>3 DEF TypeOK, AccountTypeOK, LpTypeOK, lpVars, rewardVars
  <1>5. winnerRewardPool' = winnerRewardPool - 0 /\ unclaimedLpFees' = unclaimedLpFees - 0
        /\ amount + 0 + 0 = amount
    BY <1>1, <1>2, AccountsNat DEF rewardVars, lpVars
  <1> QED
    BY <1>1, <1>2, <1>4, <1>5, PaidFromAccounts

LEMMA SettleLpInventoryKept ==
    ASSUME TypeOK, NEW u \in Users, SettleLpInventory(u)
    PROVE  TypeOK' /\ Conserved
  <1>1. /\ lpSharesOf[u] \in Nat \ {0} /\ totalLpShares \in Nat \ {0}
        /\ lpSharesOf[u] <= totalLpShares /\ reserve \in [Side -> Nat] /\ LpTypeOK
    BY DEF SettleLpInventory, BurnShares, TypeOK, AccountTypeOK, LpTypeOK
  <1>2. \A s \in Side : InventoryShare(u, s) \in Nat /\ InventoryShare(u, s) <= reserve[s]
    BY <1>1, MulDivNat, MulDivShare DEF InventoryShare
  <1> DEFINE amount == ResolvedValue(InventoryShare(u, "A"), InventoryShare(u, "B"))
  <1>3. amount \in Nat
    BY <1>2, ResolvedValueNat DEF Side
  <1>4. /\ ClaimFrame /\ BurnShares(u) /\ UNCHANGED bondVars /\ UNCHANGED holderVars
        /\ UNCHANGED rewardVars
        /\ reserve' = [s \in Side |-> reserve[s] - InventoryShare(u, s)]
        /\ amount <= collateralBacking /\ collateralBacking' = collateralBacking - amount
        /\ PayOut(amount)
    BY DEF SettleLpInventory, PayFromBacking
  <1> HIDE DEF amount
  <1>5. collateralBacking' \in Nat
    BY <1>3, <1>4, AccountsNat
  <1>6. LpTypeOK' /\ unclaimedLpFees' = unclaimedLpFees
    BY <1>1, <1>4, BurnKeepsType
  <1>7. reserve' \in [Side -> Nat]
    <2>1. \A s \in Side : reserve[s] - InventoryShare(u, s) \in Nat
      BY <1>1, <1>2
    <2> QED
      BY <1>4, <2>1
  <1>8. AccountTypeOK'
    BY <1>4, <1>5, <1>6, <1>7 DEF TypeOK, AccountTypeOK, holderVars, rewardVars
  <1>9. winnerRewardPool' = winnerRewardPool - 0 /\ unclaimedLpFees' = unclaimedLpFees - 0
        /\ amount + 0 + 0 = amount
    BY <1>3, <1>4, <1>6, AccountsNat DEF rewardVars
  <1> QED
    BY <1>3, <1>4, <1>8, <1>9, PaidFromAccounts

LEMMA ClaimWinnerRewardKept ==
    ASSUME TypeOK, NEW s \in Side, ClaimWinnerReward(s)
    PROVE  TypeOK' /\ Conserved
  <1> DEFINE amount == WinnerPayout(s)
  <1>1. amount \in Nat /\ amount <= winnerRewardPool
    BY AccountsNat DEF WinnerPayout
  <1>2. /\ ClaimFrame /\ UNCHANGED bondVars /\ UNCHANGED lpVars /\ UNCHANGED poolVars
        /\ UNCHANGED holderVars /\ PayOut(amount)
        /\ winnerRewardClaimed' = [winnerRewardClaimed EXCEPT ![s] = TRUE]
        /\ winnerRewardPool' = winnerRewardPool - amount
    BY DEF ClaimWinnerReward
  <1> HIDE DEF amount
  <1>3. winnerRewardPool' \in Nat
    BY <1>1, <1>2, AccountsNat
  <1>4. AccountTypeOK'
    BY <1>2, <1>3 DEF TypeOK, AccountTypeOK, LpTypeOK, lpVars, poolVars, holderVars
  <1>5. collateralBacking' = collateralBacking - 0 /\ unclaimedLpFees' = unclaimedLpFees - 0
        /\ 0 + amount + 0 = amount
    BY <1>1, <1>2, AccountsNat DEF poolVars, lpVars
  <1> QED
    BY <1>1, <1>2, <1>4, <1>5, PaidFromAccounts

LEMMA ClaimInvalidRefundKept ==
    ASSUME TypeOK, NEW u \in Users, ClaimInvalidWinnerFeeRefund(u)
    PROVE  TypeOK' /\ Conserved
  <1> DEFINE amount == winnerFeePaid[u]
  <1>1. amount \in Nat /\ amount <= winnerRewardPool
    BY DEF ClaimInvalidWinnerFeeRefund, TypeOK, AccountTypeOK
  <1>2. /\ ClaimFrame /\ UNCHANGED bondVars /\ UNCHANGED lpVars /\ UNCHANGED poolVars
        /\ UNCHANGED <<positionOf, winnerRewardClaimed>> /\ PayOut(amount)
        /\ winnerFeePaid' = [winnerFeePaid EXCEPT ![u] = 0]
        /\ winnerRewardPool' = winnerRewardPool - amount
    BY DEF ClaimInvalidWinnerFeeRefund
  <1> HIDE DEF amount
  <1>3. winnerRewardPool' \in Nat
    BY <1>1, <1>2, AccountsNat
  <1>4. AccountTypeOK'
    BY <1>2, <1>3 DEF TypeOK, AccountTypeOK, LpTypeOK, lpVars, poolVars
  <1>5. collateralBacking' = collateralBacking - 0 /\ unclaimedLpFees' = unclaimedLpFees - 0
        /\ 0 + amount + 0 = amount
    BY <1>1, <1>2, AccountsNat DEF poolVars, lpVars
  <1> QED
    BY <1>1, <1>2, <1>4, <1>5, PaidFromAccounts

LEMMA BondKept ==
    ASSUME TypeOK, NEW p \in Side, PostIntegrityBond(p) \/ ClaimIntegrityBond(p)
    PROVE  TypeOK' /\ Conserved
  <1>1. ClaimFrame /\ UNCHANGED accountVars
    BY DEF PostIntegrityBond, ClaimIntegrityBond
  <1>2. AccountTypeOK' /\ Pools' = Pools /\ Pools \in Nat
    BY <1>1, AccountFrame, AccountsNat DEF ClaimFrame, queueVars, Pools
  <1>3. /\ BondTypeOK' /\ balance' \in Nat
        /\ balance + (Pools + totalIntegrityBondLiability')
               = balance' + (Pools + totalIntegrityBondLiability)
    <2>1. /\ integrityBondOf[p] \in Nat /\ INTEGRITY_BOND \in Nat
          /\ totalIntegrityBondLiability \in Nat /\ balance \in Nat
      BY AccountsNat, MarketAssumption DEF TypeOK, BondTypeOK
    <2>2. CASE PostIntegrityBond(p)
      BY <1>2, <2>1, <2>2 DEF PostIntegrityBond, TypeOK, BondTypeOK
    <2>3. CASE ClaimIntegrityBond(p)
      BY <1>2, <2>1, <2>3 DEF ClaimIntegrityBond, PayOut, TypeOK, BondTypeOK
    <2> QED
      BY <2>2, <2>3
  <1> QED
    BY <1>1, <1>2, <1>3, ClaimMoves

LEMMA ClaimKept ==
    ASSUME TypeOK, Claim
    PROVE  TypeOK' /\ Conserved
  BY ClaimLpFeesKept, RedeemPositionsKept, SettleLpInventoryKept, ClaimInvalidRefundKept,
     ClaimWinnerRewardKept, BondKept DEF Claim

\* Everything but Resolve keeps the challenge and the final result.
LEMMA ChallengeFrame ==
    ASSUME ChallengeBondHeld,
           \/ Tick \/ Submit \/ ProvideLiquidity \/ \E e \in Epoch : ProcessEpoch(e)
           \/ Gate \/ Claim \/ UNCHANGED vars
    PROVE  ChallengeBondHeld' /\ UNCHANGED <<resultVars, challengeVars>>
  <1>1. UNCHANGED <<resultVars, challengeVars>>
    BY DEF vars, Tick, Submit, ProvideLiquidity, SubmitBuy, SubmitSell,
           SubmitPositionTransfer, SubmitAddLiquidity, SubmitVars, ProcessEpoch, Settle,
           Gate, Claim, ClaimLpFees, RedeemPositions, SettleLpInventory,
           ClaimWinnerReward, ClaimInvalidWinnerFeeRefund, PostIntegrityBond,
           ClaimIntegrityBond, ClaimFrame, lifecycleVars
  <1> QED
    BY <1>1 DEF ChallengeBondHeld, resultVars, challengeVars

-------------------------------------------------------------------------------
(* The theorems. *)

\* The inductive invariant of the ledger: that liabilities match the balance is
\* not inductive by itself, for a bond that outlived its challenge would be held
\* by the balance and by no liability.
LedgerInv == TypeOK /\ ChallengeBondHeld /\ LiabilitiesMatchBalance

LEMMA LedgerInit ==
    ASSUME Init
    PROVE  LedgerInv
  <1>1. 0 \in Nat /\ 0 \in 0 .. MaxTime
    BY MarketAssumption
  <1>2. /\ actions \in Seq(Action)
        /\ epochActionIds \in [Epoch -> Seq(DOMAIN actions)]
    BY DEF Init
  <1>3. TypeOK
    BY <1>1, <1>2 DEF Init, LpInit, TypeOK, GateTypeOK, ResultTypeOK, ChallengeTypeOK,
       BondTypeOK, AccountTypeOK, LpTypeOK, QueueTypeOK, Outcome
  <1>4. ChallengeBondHeld /\ LiabilitiesMatchBalance
    BY DEF Init, LpInit, ChallengeBondHeld, LiabilitiesMatchBalance,
           AccountedLiabilities, HeldChallengeBond
  <1> QED
    BY <1>3, <1>4 DEF LedgerInv

LEMMA LiabilitiesNat ==
    ASSUME TypeOK'
    PROVE  AccountedLiabilities' \in Nat /\ balance' \in Nat
  <1>1. /\ collateralBacking' \in Nat /\ winnerRewardPool' \in Nat
        /\ unclaimedLpFees' \in Nat /\ pendingCollateral' \in Nat
        /\ totalIntegrityBondLiability' \in Nat /\ HeldChallengeBond' \in Nat
        /\ balance' \in Nat
    BY DEF TypeOK, AccountTypeOK, LpTypeOK, QueueTypeOK, BondTypeOK, ChallengeTypeOK,
           HeldChallengeBond
  <1>2. \A u, v, w, x, y, z \in Nat : u + v + w + x + y + z \in Nat
    OBVIOUS
  <1>3. AccountedLiabilities' =
          collateralBacking' + winnerRewardPool' + unclaimedLpFees' + pendingCollateral'
            + totalIntegrityBondLiability' + HeldChallengeBond'
    BY DEF AccountedLiabilities
  <1> QED
    BY <1>1, <1>2, <1>3

LEMMA LedgerStep ==
    ASSUME LedgerInv, [Next]_vars
    PROVE  LedgerInv'
  <1>1. TypeOK /\ ChallengeBondHeld /\ balance = AccountedLiabilities
    BY DEF LedgerInv, LiabilitiesMatchBalance
  <1>2. TypeOK' /\ ChallengeBondHeld' /\ Conserved
    <2>1. CASE Tick
      BY <1>1, <2>1, TickKept, ChallengeFrame
    <2>2. CASE Submit \/ ProvideLiquidity
      BY <1>1, <2>2, SubmitKept, ChallengeFrame
    <2>3. CASE \E e \in Epoch : ProcessEpoch(e)
      BY <1>1, <2>3, ProcessKept, ChallengeFrame
    <2>4. CASE Gate
      BY <1>1, <2>4, GateKept, ChallengeFrame
    <2>5. CASE Resolve
      BY <1>1, <2>5, ResolveKept
    <2>6. CASE Claim
      BY <1>1, <2>6, ClaimKept, ChallengeFrame
    <2>7. CASE UNCHANGED vars
      <3>1. /\ UNCHANGED now /\ UNCHANGED lifecycleVars /\ UNCHANGED bondVars
            /\ UNCHANGED accountVars /\ UNCHANGED queueVars /\ UNCHANGED balance
        BY <2>7 DEF vars
      <3>2. TypeOK'
        BY <1>1, <3>1, LifecycleFrame, BondFrame, AccountFrame, QueueFrame, AccountsNat
           DEF TypeOK
      <3>3. AccountsKept
        BY <1>1, <3>1, AccountFrame, QueueFrame, AccountsNat DEF AccountsKept, Pools
      <3> QED
        BY <1>1, <2>7, <3>1, <3>2, <3>3, KeptConserves, ChallengeFrame
    <2> QED
      BY <2>1, <2>2, <2>3, <2>4, <2>5, <2>6, <2>7 DEF Next
  <1>3. balance' = AccountedLiabilities'
    <2>1. AccountedLiabilities' \in Nat /\ balance' \in Nat /\ balance \in Nat
      BY <1>1, <1>2, LiabilitiesNat, AccountsNat
    <2>2. \A x, y, z \in Nat : x + z = y + x => y = z
      OBVIOUS
    <2> QED
      BY <1>1, <1>2, <2>1, <2>2 DEF Conserved
  <1> QED
    BY <1>2, <1>3 DEF LedgerInv, LiabilitiesMatchBalance

THEOREM LedgerInvariant == Spec => []LedgerInv
  <1>1. Init => LedgerInv
    BY LedgerInit
  <1>2. LedgerInv /\ [Next]_vars => LedgerInv'
    BY LedgerStep
  <1> QED
    BY <1>1, <1>2, PTL DEF Spec

\* No account of a market ever leaves the naturals: no sequence of transactions
\* meets a negative balance, and every revert that would prevent one is a guard.
THEOREM TypeCorrect == Spec => []TypeOK
  <1>1. LedgerInv => TypeOK
    BY DEF LedgerInv
  <1> QED
    BY <1>1, LedgerInvariant, PTL

\* Every unit of collateral the market holds is owed to exactly one liability of
\* accountedLiabilities(), in every reachable state.
THEOREM Solvent == Spec => []LiabilitiesMatchBalance
  <1>1. LedgerInv => LiabilitiesMatchBalance
    BY DEF LedgerInv
  <1> QED
    BY <1>1, LedgerInvariant, PTL

\* A challenge bond is held exactly while its challenge is undecided.
THEOREM ChallengeBondSafe == Spec => []ChallengeBondHeld
  <1>1. LedgerInv => ChallengeBondHeld
    BY DEF LedgerInv
  <1> QED
    BY <1>1, LedgerInvariant, PTL

-------------------------------------------------------------------------------
(* Totals over a queue of actions and over the users' positions. *)

\* The actions of a queue that are in K, a set of actions, and their total.
Among(queue, K) == {id \in DOMAIN queue : queue[id] \in K}
Total(queue, K) == SumFunction([id \in Among(queue, K) |-> queue[id].amount])

\* The pending actions that hold collateral, and those that hold positions.
HoldsCollateral == {a \in Action : a.status = "Pending" /\ a.kind \in {"Buy", "AddLiquidity"}}
HoldsPositions(s) == {a \in Action : /\ a.status = "Pending"
                                     /\ a.kind \in {"Sell", "Transfer"} /\ a.side = s}

HeldOn(positions, s) == SumFunction([u \in Users |-> positions[u][s]])

LEMMA QueueActions ==
    ASSUME NEW queue \in Seq(Action)
    PROVE  /\ DOMAIN queue = 1 .. Len(queue) /\ Len(queue) \in Nat
           /\ \A id \in 1 .. Len(queue) : queue[id] \in Action /\ queue[id].amount \in Nat
  <1>1. \A id \in 1 .. Len(queue) : queue[id] \in Action
    OBVIOUS
  <1>2. \A a \in Action : a.amount \in Nat
    BY DEF Action
  <1> QED
    BY <1>1, <1>2

LEMMA AmongFinite ==
    ASSUME NEW queue \in Seq(Action), NEW K
    PROVE  /\ IsFiniteSet(Among(queue, K)) /\ Among(queue, K) \subseteq 1 .. Len(queue)
           /\ [id \in Among(queue, K) |-> queue[id].amount] \in [Among(queue, K) -> Nat]
  <1>1. DOMAIN queue = 1 .. Len(queue) /\ Len(queue) \in Nat
    BY QueueActions
  <1>2. IsFiniteSet(1 .. Len(queue))
    BY <1>1, FS_Interval
  <1>3. Among(queue, K) \subseteq 1 .. Len(queue)
    BY <1>1 DEF Among
  <1>4. \A id \in 1 .. Len(queue) : queue[id].amount \in Nat
    BY QueueActions
  <1> QED
    BY <1>2, <1>3, <1>4, FS_Subset

LEMMA TotalNat ==
    ASSUME NEW queue \in Seq(Action), NEW K
    PROVE  Total(queue, K) \in Nat
  <1> DEFINE S == Among(queue, K)
             f == [id \in S |-> queue[id].amount]
  <1>1. IsFiniteSet(S) /\ f \in [S -> Nat]
    BY AmongFinite
  <1>2. SumFunctionOnSet(f, S) \in Nat
    BY <1>1, SumSame
  <1> QED
    BY <1>2 DEF Total, SumFunction

\* An action added to a queue adds its amount to the total it belongs to.
LEMMA AppendTotal ==
    ASSUME NEW queue \in Seq(Action), NEW K, NEW a \in Action
    PROVE  Total(Append(queue, a), K) = Total(queue, K) + (IF a \in K THEN a.amount ELSE 0)
  <1> DEFINE S == Among(queue, K)
             f == [id \in S |-> queue[id].amount]
             n == Len(queue) + 1
             longer == Append(queue, a)
  <1>1. IsFiniteSet(S) /\ f \in [S -> Nat] /\ S \subseteq 1 .. Len(queue)
    BY AmongFinite
  <1>2. n \notin S
    BY <1>1
  <1>3. /\ DOMAIN longer = 1 .. n /\ longer[n] = a /\ longer \in Seq(Action)
        /\ \A id \in 1 .. Len(queue) : longer[id] = queue[id]
    OBVIOUS
  <1>4. CASE a \in K
    <2>1. Among(longer, K) = S \cup {n}
      BY <1>3, <1>4 DEF Among
    <2> DEFINE T == S \cup {n}
               g == [id \in T |-> longer[id].amount]
    <2>2. g \in [T -> Nat] /\ g[n] = a.amount /\ \A id \in S : g[id] = f[id]
      BY <1>1, <1>3 DEF Action
    <2>3. Total(longer, K) = SumFunction(g) /\ Total(queue, K) = SumFunction(f)
      BY <2>1 DEF Total
    <2>5. /\ IsFiniteSet(DOMAIN f) /\ n \notin DOMAIN f /\ DOMAIN g = DOMAIN f \cup {n}
          /\ g[n] \in Nat /\ \A x \in DOMAIN f : f[x] \in Nat /\ g[x] = f[x]
      BY <1>1, <1>2, <2>2
    <2>6. SumFunction(g) = SumFunction(f) + g[n]
      <3> HIDE DEF g, S, T, f, n, longer
      <3> QED
        BY <2>5, SumExtend
    <2> QED
      BY <1>4, <2>2, <2>3, <2>6
  <1>5. CASE a \notin K
    <2>1. Among(longer, K) = S
      BY <1>3, <1>5 DEF Among
    <2>2. [id \in S |-> longer[id].amount] = f
      BY <1>1, <1>3
    <2>3. Total(longer, K) = Total(queue, K)
      BY <2>1, <2>2 DEF Total
    <2> QED
      BY <1>5, <2>3, TotalNat
  <1> QED
    BY <1>4, <1>5

\* An action that leaves K takes its amount out of the total.
LEMMA SettleTotal ==
    ASSUME NEW queue \in Seq(Action), NEW after \in Seq(Action), NEW K,
           NEW id \in DOMAIN queue, DOMAIN after = DOMAIN queue, after[id] \notin K,
           \A i \in DOMAIN queue \ {id} : after[i] = queue[i]
    PROVE  Total(queue, K) = Total(after, K) + (IF queue[id] \in K THEN queue[id].amount ELSE 0)
  <1> DEFINE S == Among(after, K)
             f == [i \in S |-> after[i].amount]
  <1>1. DOMAIN queue = 1 .. Len(queue) /\ \A i \in DOMAIN queue : queue[i].amount \in Nat
    BY QueueActions
  <1>2. IsFiniteSet(S) /\ f \in [S -> Nat]
    BY AmongFinite
  <1>3. id \notin S /\ S \subseteq DOMAIN queue \ {id}
    BY <1>1 DEF Among
  <1>4. CASE queue[id] \in K
    <2>1. Among(queue, K) = S \cup {id}
      BY <1>1, <1>4 DEF Among
    <2> DEFINE T == S \cup {id}
               g == [i \in T |-> queue[i].amount]
    <2>2. g \in [T -> Nat] /\ g[id] = queue[id].amount /\ \A i \in S : g[i] = f[i]
      <3>1. \A i \in S \cup {id} : queue[i].amount \in Nat
        BY <1>1, <1>3
      <3> QED
        BY <1>3, <3>1
    <2>3. Total(queue, K) = SumFunction(g) /\ Total(after, K) = SumFunction(f)
      BY <2>1 DEF Total
    <2>4. /\ IsFiniteSet(DOMAIN f) /\ id \notin DOMAIN f /\ DOMAIN g = DOMAIN f \cup {id}
          /\ g[id] \in Nat /\ \A x \in DOMAIN f : f[x] \in Nat /\ g[x] = f[x]
      BY <1>2, <1>3, <2>2
    <2>5. SumFunction(g) = SumFunction(f) + g[id]
      <3> HIDE DEF g, S, T, f
      <3> QED
        BY <2>4, SumExtend
    <2> QED
      BY <1>4, <2>2, <2>3, <2>5
  <1>5. CASE queue[id] \notin K
    <2>1. Among(queue, K) = S
      BY <1>1, <1>5 DEF Among
    <2>2. [i \in S |-> queue[i].amount] = f
      BY <1>1, <1>3
    <2>3. Total(queue, K) = Total(after, K)
      BY <2>1, <2>2 DEF Total
    <2> QED
      BY <1>1, <1>5, <2>3, TotalNat
  <1> QED
    BY <1>4, <1>5

\* Two totals that differ in one term.
LEMMA Shifted ==
    \A old, new, x, y, k \in Nat : old + y = new + x =>
        /\ y = x + k => new = old + k
        /\ x = y + k => new = old - k
  OBVIOUS

\* What one user's positions change by, the total held changes by.
LEMMA HeldChange ==
    ASSUME NEW p \in [Users -> [Side -> Nat]], NEW q \in [Users -> [Side -> Nat]],
           NEW u \in Users, NEW s \in Side, \A v \in Users \ {u} : q[v][s] = p[v][s]
    PROVE  /\ HeldOn(p, s) \in Nat /\ HeldOn(q, s) \in Nat /\ p[u][s] <= HeldOn(p, s)
           /\ HeldOn(p, s) + q[u][s] = HeldOn(q, s) + p[u][s]
  <1> DEFINE f == [v \in Users |-> p[v][s]]
             g == [v \in Users |-> q[v][s]]
  <1>1. /\ f \in [Users -> Nat] /\ g \in [Users -> Nat] /\ f[u] = p[u][s] /\ g[u] = q[u][s]
        /\ \A v \in Users \ {u} : g[v] = f[v]
    OBVIOUS
  <1>2. HeldOn(p, s) = SumFunction(f) /\ HeldOn(q, s) = SumFunction(g)
    BY DEF HeldOn
  <1>3. IsFiniteSet(Users)
    BY MarketAssumption
  <1> HIDE DEF f, g
  <1>4. /\ SumFunction(f) \in Nat /\ SumFunction(g) \in Nat
        /\ SumFunction(f) + g[u] = SumFunction(g) + f[u] /\ f[u] <= SumFunction(f)
    BY <1>1, <1>3, SumChange
  <1> QED
    BY <1>1, <1>2, <1>4

LEMMA HeldNat ==
    ASSUME NEW p \in [Users -> [Side -> Nat]], NEW s \in Side
    PROVE  HeldOn(p, s) \in Nat
  <1> DEFINE f == [v \in Users |-> p[v][s]]
  <1>1. IsFiniteSet(Users) /\ \A v \in Users : f[v] \in Nat
    BY MarketAssumption
  <1>2. SumFunctionOnSet(f, Users) \in Nat
    BY <1>1, SumSame
  <1> QED
    BY <1>2 DEF HeldOn, SumFunction

LEMMA HeldGain ==
    ASSUME NEW p \in [Users -> [Side -> Nat]], NEW q \in [Users -> [Side -> Nat]],
           NEW u \in Users, NEW s \in Side, NEW k \in Nat, q[u][s] = p[u][s] + k,
           \A v \in Users \ {u} : q[v][s] = p[v][s]
    PROVE  /\ HeldOn(p, s) \in Nat /\ HeldOn(q, s) \in Nat
           /\ HeldOn(q, s) = HeldOn(p, s) + k /\ HeldOn(p, s) = HeldOn(q, s) - k
  <1>1. HeldOn(p, s) \in Nat /\ HeldOn(q, s) \in Nat /\ HeldOn(p, s) + q[u][s] = HeldOn(q, s) + p[u][s]
    BY HeldChange
  <1>2. p[u][s] \in Nat /\ q[u][s] \in Nat
    OBVIOUS
  <1> DEFINE old == HeldOn(p, s)
             new == HeldOn(q, s)
             x == p[u][s]
             y == q[u][s]
  <1>3. old \in Nat /\ new \in Nat /\ x \in Nat /\ y \in Nat /\ old + y = new + x /\ y = x + k
    BY <1>1, <1>2
  <1> HIDE DEF old, new, x, y
  <1>4. new = old + k /\ old = new - k
    BY <1>3
  <1> QED
    BY <1>3, <1>4 DEF old, new

-------------------------------------------------------------------------------
(* The inductive invariant. *)

Owed(s) == reserve[s] + HeldOn(positionOf, s) + Total(actions, HoldsPositions(s))

\* What positions a and b, outstanding on the two sides, need behind them.
Covered(outcome, a, b, backing) ==
    CASE outcome = "Unset" -> a = backing /\ b = backing
      [] outcome = "A" -> a <= backing
      [] outcome = "B" -> b <= backing
      [] OTHER -> a + b <= 2 * backing

\* Without shares nothing backs a position and no purchase waits: a fee without
\* a provider would become backing that no position stands for.
NoTradeWithoutShares ==
    finalOutcome = "Unset" /\ totalLpShares = 0 =>
        /\ collateralBacking = 0
        /\ \A id \in PendingIds : actions[id].kind # "Buy"

Books ==
    /\ Covered(finalOutcome, Owed("A"), Owed("B"), collateralBacking)
    /\ pendingCollateral = Total(actions, HoldsCollateral)
    /\ WinnerFeesRefundable
    /\ SharesAreBacked
    /\ NoTradeWithoutShares

\* The same amount on both sides and in the backing keeps them covered; after
\* the result the backing may take more.
LEMMA CoveredMoves ==
    \A a, b, c, a2, b2, c2, d \in Int, outcome \in Outcome :
        /\ Covered(outcome, a, b, c)
        /\ a2 = a + d /\ b2 = b + d
        /\ c2 = c + d \/ (outcome # "Unset" /\ c2 >= c + d)
        => Covered(outcome, a2, b2, c2)
  BY DEF Covered

\* A result asks for no more than what was there before it.
LEMMA CoveredAtResult ==
    \A a, b, c \in Nat, outcome \in Outcome :
        Covered("Unset", a, b, c) => Covered(outcome, a, b, c)
  BY DEF Covered, Outcome

LEMMA OwedNat ==
    ASSUME TypeOK
    PROVE  \A s \in Side : /\ Owed(s) \in Nat /\ reserve[s] \in Nat
                           /\ HeldOn(positionOf, s) \in Nat
                           /\ Total(actions, HoldsPositions(s)) \in Nat
  <1>1. actions \in Seq(Action) /\ positionOf \in [Users -> [Side -> Nat]]
        /\ reserve \in [Side -> Nat]
    BY DEF TypeOK, QueueTypeOK, AccountTypeOK
  <1>2. \A x, y, z \in Nat : x + y + z \in Nat
    OBVIOUS
  <1> QED
    BY <1>1, <1>2, HeldNat, TotalNat DEF Owed

LEMMA OwedNatNext ==
    ASSUME TypeOK'
    PROVE  \A s \in Side : /\ Owed(s)' \in Nat /\ reserve'[s] \in Nat
                           /\ HeldOn(positionOf', s) \in Nat
                           /\ Total(actions', HoldsPositions(s)) \in Nat
                           /\ Owed(s)' = reserve'[s] + HeldOn(positionOf', s)
                                            + Total(actions', HoldsPositions(s))
  <1>1. actions' \in Seq(Action) /\ positionOf' \in [Users -> [Side -> Nat]]
        /\ reserve' \in [Side -> Nat]
    BY DEF TypeOK, QueueTypeOK, AccountTypeOK
  <1>2. \A x, y, z \in Nat : x + y + z \in Nat
    OBVIOUS
  <1> QED
    BY <1>1, <1>2, HeldNat, TotalNat DEF Owed

\* What the reserve, the users and the escrow of a side gain together, it is owed more.
LEMMA OwedMoves ==
    ASSUME TypeOK, TypeOK', NEW s \in Side, NEW r \in Int, NEW h \in Int, NEW t \in Int,
           reserve'[s] = reserve[s] + r,
           HeldOn(positionOf', s) = HeldOn(positionOf, s) + h,
           Total(actions', HoldsPositions(s)) = Total(actions, HoldsPositions(s)) + t
    PROVE  Owed(s)' = Owed(s) + (r + h + t)
  <1>1. Owed(s)' = reserve'[s] + HeldOn(positionOf', s) + Total(actions', HoldsPositions(s))
    BY OwedNatNext
  <1>2. Owed(s) = reserve[s] + HeldOn(positionOf, s) + Total(actions, HoldsPositions(s))
    BY DEF Owed
  <1>3. /\ reserve[s] \in Nat /\ HeldOn(positionOf, s) \in Nat
        /\ Total(actions, HoldsPositions(s)) \in Nat
    BY OwedNat
  <1>4. \A x, y, z, i, j, k \in Int : (x + i) + (y + j) + (z + k) = (x + y + z) + (i + j + k)
    OBVIOUS
  <1> QED
    BY <1>1, <1>2, <1>3, <1>4

\* Both sides owe d more and the backing has d more (or, after the result, at least d).
LEMMA MovesKeepCover ==
    ASSUME TypeOK, TypeOK', Books, finalOutcome' = finalOutcome, NEW d \in Int,
           \A s \in Side : Owed(s)' = Owed(s) + d,
           \/ collateralBacking' = collateralBacking + d
           \/ finalOutcome # "Unset" /\ collateralBacking' >= collateralBacking + d
    PROVE  Covered(finalOutcome, Owed("A"), Owed("B"), collateralBacking)'
  <1>1. Covered(finalOutcome, Owed("A"), Owed("B"), collateralBacking)
    BY DEF Books
  <1>2. /\ Owed("A") \in Nat /\ Owed("B") \in Nat /\ Owed("A")' \in Nat /\ Owed("B")' \in Nat
        /\ Owed("A")' = Owed("A") + d /\ Owed("B")' = Owed("B") + d
    BY OwedNat, OwedNatNext DEF Side
  <1>3. /\ collateralBacking \in Nat /\ collateralBacking' \in Nat /\ finalOutcome \in Outcome
    BY DEF TypeOK, AccountTypeOK, ResultTypeOK
  <1>4. Covered(finalOutcome, Owed("A")', Owed("B")', collateralBacking')
    BY <1>1, <1>2, <1>3, CoveredMoves
  <1> QED
    BY <1>4

-------------------------------------------------------------------------------
(* Steps that move neither positions nor collateral. *)

LEMMA BooksFrame ==
    ASSUME TypeOK, TypeOK', Books, UNCHANGED accountVars, UNCHANGED queueVars,
           finalOutcome' = finalOutcome \/ finalOutcome = "Unset"
    PROVE  Books'
  <1>1. /\ reserve' = reserve /\ positionOf' = positionOf /\ actions' = actions
        /\ collateralBacking' = collateralBacking /\ pendingCollateral' = pendingCollateral
        /\ winnerRewardPool' = winnerRewardPool /\ winnerFeePaid' = winnerFeePaid
        /\ totalLpShares' = totalLpShares /\ lpSharesOf' = lpSharesOf
    BY DEF accountVars, queueVars, lpVars, poolVars, holderVars, rewardVars
  <1>2. Covered(finalOutcome, Owed("A"), Owed("B"), collateralBacking)'
    <2>1. Owed("A")' = Owed("A") /\ Owed("B")' = Owed("B")
      BY <1>1 DEF Owed
    <2>2. Owed("A") \in Nat /\ Owed("B") \in Nat /\ collateralBacking \in Nat
          /\ finalOutcome' \in Outcome
      BY OwedNat DEF TypeOK, AccountTypeOK, ResultTypeOK, Side
    <2>3. Covered(finalOutcome, Owed("A"), Owed("B"), collateralBacking)
      BY DEF Books
    <2>4. Covered(finalOutcome', Owed("A"), Owed("B"), collateralBacking)
      BY <2>2, <2>3, CoveredAtResult
    <2> QED
      BY <1>1, <2>1, <2>4
  <1>3. pendingCollateral' = Total(actions', HoldsCollateral)
    BY <1>1 DEF Books
  <1>4. WinnerFeesRefundable' /\ SharesAreBacked'
    BY <1>1 DEF Books, WinnerFeesRefundable, SharesAreBacked
  <1>5. NoTradeWithoutShares'
    BY <1>1 DEF Books, NoTradeWithoutShares, PendingIds
  <1> QED
    BY <1>2, <1>3, <1>4, <1>5 DEF Books

LEMMA ResolveFrame ==
    ASSUME Resolve
    PROVE  /\ UNCHANGED accountVars /\ UNCHANGED queueVars
           /\ finalOutcome' = finalOutcome \/ finalOutcome = "Unset"
  <1>1. ResolutionFrame
    BY DEF Resolve, AttestResult, ChallengeResult, AttestChallengeVerdict,
           FinalizeUnchallenged, ExpireChallenge, InvalidateUnresolved
  <1>2. finalOutcome' = finalOutcome \/ finalOutcome = "Unset"
    BY DEF Resolve, AttestResult, ChallengeResult, AttestChallengeVerdict, resultVars,
           FinalizeUnchallenged, ExpireChallenge, InvalidateUnresolved
  <1> QED
    BY <1>1, <1>2 DEF ResolutionFrame

-------------------------------------------------------------------------------
(* Submission. *)

LEMMA SubmissionBooks ==
    ASSUME TypeOK, TypeOK', Books, NEW a \in Action, a.status = "Pending",
           RecordAction(a), UNCHANGED SubmitVars,
           \/ /\ EscrowCollateral(a.amount) /\ a.kind \in {"Buy", "AddLiquidity"}
              /\ a.kind = "Buy" => totalLpShares # 0
           \/ EscrowPosition(a.user, a.side, a.amount) /\ a.kind \in {"Sell", "Transfer"}
    PROVE  Books'
  <1>1. /\ reserve' = reserve /\ collateralBacking' = collateralBacking
        /\ winnerRewardPool' = winnerRewardPool /\ winnerFeePaid' = winnerFeePaid
        /\ totalLpShares' = totalLpShares /\ lpSharesOf' = lpSharesOf
        /\ finalOutcome' = finalOutcome
    BY DEF SubmitVars, lifecycleVars, resultVars, lpVars, poolVars, rewardVars
  <1>2. /\ a.amount \in Nat /\ a.user \in Users /\ a.side \in Side
        /\ actions \in Seq(Action) /\ actions' = Append(actions, a)
        /\ reserve \in [Side -> Nat] /\ positionOf \in [Users -> [Side -> Nat]]
        /\ positionOf' \in [Users -> [Side -> Nat]] /\ collateralBacking \in Nat
    BY DEF Action, RecordAction, TypeOK, QueueTypeOK, AccountTypeOK
  <1>3. \A s \in Side : Total(actions', HoldsPositions(s)) = Total(actions, HoldsPositions(s))
            + (IF a.kind \in {"Sell", "Transfer"} /\ a.side = s THEN a.amount ELSE 0)
    <2>1. \A s \in Side : a \in HoldsPositions(s) <=>
                              a.kind \in {"Sell", "Transfer"} /\ a.side = s
      BY DEF HoldsPositions
    <2> QED
      BY <1>2, <2>1, AppendTotal
  <1>4. Total(actions', HoldsCollateral) = Total(actions, HoldsCollateral)
            + (IF a.kind \in {"Buy", "AddLiquidity"} THEN a.amount ELSE 0)
    <2>1. a \in HoldsCollateral <=> a.kind \in {"Buy", "AddLiquidity"}
      BY DEF HoldsCollateral
    <2> QED
      BY <1>2, <2>1, AppendTotal
  <1>5. /\ \A s \in Side : HeldOn(positionOf', s) = HeldOn(positionOf, s)
               - (IF a.kind \in {"Sell", "Transfer"} /\ a.side = s THEN a.amount ELSE 0)
        /\ pendingCollateral' = Total(actions', HoldsCollateral)
    <2>1. CASE EscrowCollateral(a.amount) /\ a.kind \in {"Buy", "AddLiquidity"}
      <3>1. positionOf' = positionOf /\ pendingCollateral' = pendingCollateral + a.amount
        BY <2>1 DEF EscrowCollateral
      <3>2. pendingCollateral = Total(actions, HoldsCollateral)
        BY DEF Books
      <3>3. \A s \in Side : HeldOn(positionOf', s) = HeldOn(positionOf, s) - 0
        BY <1>2, <3>1, HeldNat
      <3> QED
        BY <1>4, <2>1, <3>1, <3>2, <3>3
    <2>2. CASE EscrowPosition(a.user, a.side, a.amount) /\ a.kind \in {"Sell", "Transfer"}
      <3>1. /\ positionOf[a.user][a.side] >= a.amount
            /\ positionOf' = [positionOf EXCEPT ![a.user][a.side] = @ - a.amount]
            /\ pendingCollateral' = pendingCollateral
        BY <2>2 DEF EscrowPosition
      <3>2. pendingCollateral = Total(actions, HoldsCollateral)
            /\ Total(actions, HoldsCollateral) \in Nat
        BY <1>2, TotalNat DEF Books
      <3>3. \A s \in Side : HeldOn(positionOf', s)
                = HeldOn(positionOf, s) - (IF s = a.side THEN a.amount ELSE 0)
        <4> SUFFICES ASSUME NEW s \in Side
                     PROVE  HeldOn(positionOf', s)
                              = HeldOn(positionOf, s) - (IF s = a.side THEN a.amount ELSE 0)
          OBVIOUS
        <4> DEFINE p == positionOf
                   q == positionOf'
                   u == a.user
                   k == IF s = a.side THEN a.amount ELSE 0
        <4>1. /\ p \in [Users -> [Side -> Nat]] /\ q \in [Users -> [Side -> Nat]] /\ u \in Users
              /\ k \in Nat /\ p[u][s] = q[u][s] + k /\ \A v \in Users \ {u} : p[v][s] = q[v][s]
          BY <1>2, <3>1
        <4> HIDE DEF p, q, u, k
        <4>2. HeldOn(q, s) = HeldOn(p, s) - k
          BY <4>1, HeldGain
        <4> QED
          BY <4>2 DEF p, q, k
      <3>4. \A s \in Side : HeldOn(positionOf', s) = HeldOn(positionOf, s)
               - (IF a.kind \in {"Sell", "Transfer"} /\ a.side = s THEN a.amount ELSE 0)
        BY <2>2, <3>3
      <3>5. Total(actions', HoldsCollateral) = Total(actions, HoldsCollateral)
        BY <1>4, <2>2, <3>2
      <3> QED
        BY <3>1, <3>2, <3>4, <3>5
    <2> QED
      BY <2>1, <2>2
  <1>6. Covered(finalOutcome, Owed("A"), Owed("B"), collateralBacking)'
    <2>1. ASSUME NEW s \in Side PROVE Owed(s)' = Owed(s) + 0
      <3> DEFINE t == IF a.kind \in {"Sell", "Transfer"} /\ a.side = s THEN a.amount ELSE 0
                 h == 0 - t
      <3>1. t \in Nat /\ h \in Int /\ 0 + h + t = 0
        BY <1>2
      <3>2. /\ reserve'[s] = reserve[s] + 0
            /\ Total(actions', HoldsPositions(s)) = Total(actions, HoldsPositions(s)) + t
        BY <1>1, <1>2, <1>3
      <3>3. HeldOn(positionOf', s) = HeldOn(positionOf, s) + h
        <4>1. HeldOn(positionOf', s) = HeldOn(positionOf, s) - t
          BY <1>5
        <4>2. HeldOn(positionOf, s) \in Nat
          BY <1>2, HeldNat
        <4> HIDE DEF t
        <4> QED
          BY <3>1, <4>1, <4>2
      <3> HIDE DEF t, h
      <3> QED
        BY <3>1, <3>2, <3>3, OwedMoves
    <2>2. collateralBacking' = collateralBacking + 0
      BY <1>1, <1>2
    <2> QED
      BY <1>1, <2>1, <2>2, MovesKeepCover
  <1>7. WinnerFeesRefundable' /\ SharesAreBacked'
    BY <1>1 DEF Books, WinnerFeesRefundable, SharesAreBacked
  <1>8. NoTradeWithoutShares'
    <2>1. a.kind = "Buy" => totalLpShares # 0
      BY DEF EscrowPosition
    <2>2. \A id \in PendingIds' : \/ id \in PendingIds /\ actions'[id] = actions[id]
                               \/ actions'[id] = a
      BY <1>2 DEF PendingIds
    <2> QED
      BY <1>1, <2>1, <2>2 DEF Books, NoTradeWithoutShares
  <1> QED
    BY <1>5, <1>6, <1>7, <1>8 DEF Books

LEMMA SubmitBooks ==
    ASSUME TypeOK, TypeOK', Books, Submit \/ ProvideLiquidity
    PROVE  Books'
  <1>1. ASSUME NEW u \in Users, NEW s \in Side, NEW delay \in DeadlineDelays,
               NEW budget \in BuyAmounts, NEW minimum \in MinimumReturns,
               SubmitBuy(u, s, budget, minimum, now + delay)
        PROVE  Books'
    <2> DEFINE a == NewAction("Buy", u, u, s, budget, minimum, now + delay)
    <2>1. a \in Action /\ a.amount = budget /\ a.kind = "Buy" /\ a.status = "Pending"
      BY NewActionType, MarketAssumption DEF NewAction
    <2>2. /\ RecordAction(a) /\ EscrowCollateral(budget) /\ UNCHANGED SubmitVars
          /\ totalLpShares # 0
      BY <1>1 DEF SubmitBuy
    <2> HIDE DEF a
    <2> QED
      BY <2>1, <2>2, SubmissionBooks
  <1>2. ASSUME NEW u \in Users, NEW s \in Side, NEW delay \in DeadlineDelays,
               NEW amount \in PositionAmounts, NEW minimum \in MinimumReturns,
               SubmitSell(u, s, amount, minimum, now + delay)
        PROVE  Books'
    <2> DEFINE a == NewAction("Sell", u, u, s, amount, minimum, now + delay)
    <2>1. a \in Action /\ a.amount = amount /\ a.user = u /\ a.side = s
          /\ a.kind = "Sell" /\ a.status = "Pending"
      BY NewActionType, MarketAssumption DEF NewAction
    <2>2. RecordAction(a) /\ EscrowPosition(u, s, amount) /\ UNCHANGED SubmitVars
      BY <1>2 DEF SubmitSell
    <2> HIDE DEF a
    <2> QED
      BY <2>1, <2>2, SubmissionBooks
  <1>3. ASSUME NEW u \in Users, NEW s \in Side, NEW delay \in DeadlineDelays,
               NEW to \in Users, NEW amount \in PositionAmounts,
               SubmitPositionTransfer(u, to, s, amount, now + delay)
        PROVE  Books'
    <2> DEFINE a == NewAction("Transfer", u, to, s, amount, 0, now + delay)
    <2>1. a \in Action /\ a.amount = amount /\ a.user = u /\ a.side = s
          /\ a.kind = "Transfer" /\ a.status = "Pending"
      BY NewActionType, MarketAssumption DEF NewAction
    <2>2. RecordAction(a) /\ EscrowPosition(u, s, amount) /\ UNCHANGED SubmitVars
      BY <1>3 DEF SubmitPositionTransfer
    <2> HIDE DEF a
    <2> QED
      BY <2>1, <2>2, SubmissionBooks
  <1>4. ASSUME NEW u \in Users, NEW amount \in LiquidityAmounts,
               NEW minimum \in MinimumReturns, NEW delay \in DeadlineDelays,
               SubmitAddLiquidity(u, amount, minimum, now + delay)
        PROVE  Books'
    <2> DEFINE a == NewAction("AddLiquidity", u, u, "B", amount, minimum, now + delay)
    <2>1. a \in Action /\ a.amount = amount /\ a.kind = "AddLiquidity" /\ a.status = "Pending"
      BY NewActionType, MarketAssumption DEF NewAction, Side
    <2>2. RecordAction(a) /\ EscrowCollateral(amount) /\ UNCHANGED SubmitVars
      BY <1>4 DEF SubmitAddLiquidity
    <2> HIDE DEF a
    <2> QED
      BY <2>1, <2>2, SubmissionBooks
  <1> QED
    BY <1>1, <1>2, <1>3, <1>4 DEF Submit, ProvideLiquidity

-------------------------------------------------------------------------------
(* Processing one action of the queue. *)

\* a, which was pending, leaves the totals it belongs to.
LeavesQueue(a) ==
    /\ a \in Action /\ \E id \in PendingIds : actions[id] = a
    /\ finalOutcome' = finalOutcome
    /\ Total(actions', HoldsCollateral) = Total(actions, HoldsCollateral)
           - (IF a.kind \in {"Buy", "AddLiquidity"} THEN a.amount ELSE 0)
    /\ \A s \in Side :
          Total(actions', HoldsPositions(s)) = Total(actions, HoldsPositions(s))
              - (IF a.kind \in {"Sell", "Transfer"} /\ a.side = s THEN a.amount ELSE 0)
    /\ \A id \in PendingIds' : id \in PendingIds /\ actions'[id] = actions[id]

LEMMA SettleLeaves ==
    ASSUME TypeOK, NEW e \in Epoch, NEW id \in DOMAIN actions, actions[id].status = "Pending",
           NEW status \in {"Executed", "Refunded"}, Settle(e, id, status)
    PROVE  LeavesQueue(actions[id])
  <1> DEFINE a == actions[id]
             b == [a EXCEPT !.status = status]
  <1>1. actions \in Seq(Action) /\ a \in Action /\ a.status = "Pending"
    BY DEF TypeOK, QueueTypeOK
  <1>2. /\ b \in Action /\ b.status # "Pending"
        /\ b \notin HoldsCollateral /\ \A s \in Side : b \notin HoldsPositions(s)
    BY <1>1 DEF Action, HoldsCollateral, HoldsPositions
  <1>3. actions' = [actions EXCEPT ![id] = b]
    BY DEF Settle
  <1>4. /\ a \in HoldsCollateral <=> a.kind \in {"Buy", "AddLiquidity"}
        /\ \A s \in Side : a \in HoldsPositions(s) <=> a.kind \in {"Sell", "Transfer"} /\ a.side = s
    BY <1>1 DEF HoldsCollateral, HoldsPositions
  <1>5. actions' \in Seq(Action) /\ a.amount \in Nat
    BY <1>1, <1>2, <1>3 DEF Action
  <1> HIDE DEF b
  <1>6. \A K : b \notin K =>
            Total(actions, K) = Total(actions', K) + (IF a \in K THEN a.amount ELSE 0)
    <2> DEFINE queue == actions
               after == actions'
    <2>1. /\ queue \in Seq(Action) /\ after \in Seq(Action) /\ id \in DOMAIN queue
          /\ DOMAIN after = DOMAIN queue /\ after[id] = b /\ a = queue[id]
          /\ \A i \in DOMAIN queue \ {id} : after[i] = queue[i]
      BY <1>1, <1>2, <1>3, <1>5
    <2> HIDE DEF queue, after, a
    <2>2. ASSUME NEW K, b \notin K
          PROVE  Total(queue, K)
                   = Total(after, K) + (IF queue[id] \in K THEN queue[id].amount ELSE 0)
      BY <2>1, <2>2, SettleTotal
    <2> QED
      BY <2>1, <2>2 DEF queue, after
  <1>7. Total(actions', HoldsCollateral) = Total(actions, HoldsCollateral)
            - (IF a.kind \in {"Buy", "AddLiquidity"} THEN a.amount ELSE 0)
    <2>1. Total(actions, HoldsCollateral) = Total(actions', HoldsCollateral)
              + (IF a \in HoldsCollateral THEN a.amount ELSE 0)
      BY <1>2, <1>6
    <2>2. Total(actions', HoldsCollateral) \in Nat
      BY <1>5, TotalNat
    <2> HIDE DEF a
    <2> QED
      BY <1>4, <1>5, <2>1, <2>2
  <1>8. ASSUME NEW s \in Side
        PROVE  Total(actions', HoldsPositions(s)) = Total(actions, HoldsPositions(s))
              - (IF a.kind \in {"Sell", "Transfer"} /\ a.side = s THEN a.amount ELSE 0)
    <2>1. Total(actions, HoldsPositions(s)) = Total(actions', HoldsPositions(s))
              + (IF a \in HoldsPositions(s) THEN a.amount ELSE 0)
      BY <1>2, <1>6
    <2>2. Total(actions', HoldsPositions(s)) \in Nat
      BY <1>5, TotalNat
    <2> HIDE DEF a
    <2> QED
      BY <1>4, <1>5, <2>1, <2>2
  <1>9. \A i \in PendingIds' : i \in PendingIds /\ actions'[i] = actions[i]
    BY <1>1, <1>2, <1>3 DEF PendingIds
  <1>10. finalOutcome' = finalOutcome
    BY DEF Settle, lifecycleVars, resultVars
  <1>11. id \in PendingIds
    BY DEF PendingIds
  <1> QED
    BY <1>1, <1>7, <1>8, <1>9, <1>10, <1>11 DEF LeavesQueue

\* The collateral of an action that leaves is released from the escrow account.
LEMMA ReleaseBooks ==
    ASSUME TypeOK, Books, NEW a, LeavesQueue(a),
           \/ a.kind \in {"Buy", "AddLiquidity"} /\ ReleasePending(a.amount)
           \/ a.kind \in {"Sell", "Transfer"} /\ UNCHANGED pendingCollateral
    PROVE  pendingCollateral' = Total(actions', HoldsCollateral)
  <1>1. pendingCollateral = Total(actions, HoldsCollateral) /\ pendingCollateral \in Nat
        /\ a.amount \in Nat
    BY DEF Books, TypeOK, QueueTypeOK, LeavesQueue, Action
  <1>2. Total(actions', HoldsCollateral) = Total(actions, HoldsCollateral)
            - (IF a.kind \in {"Buy", "AddLiquidity"} THEN a.amount ELSE 0)
    BY DEF LeavesQueue
  <1>3. CASE a.kind \in {"Buy", "AddLiquidity"} /\ ReleasePending(a.amount)
    BY <1>1, <1>2, <1>3 DEF ReleasePending
  <1>4. CASE a.kind \in {"Sell", "Transfer"} /\ UNCHANGED pendingCollateral
    BY <1>1, <1>2, <1>4
  <1> QED
    BY <1>3, <1>4

\* A purchase in progress finds providers, unless the market has its result.
LEMMA BuyHasProviders ==
    ASSUME Books, NEW a, LeavesQueue(a), a.kind = "Buy"
    PROVE  finalOutcome = "Unset" => totalLpShares # 0
  BY DEF LeavesQueue, Books, NoTradeWithoutShares

\* A pool with both reserves keeps them when their product does not fall.
LEMMA ReservesStay ==
    ASSUME NEW x \in Nat, NEW y \in Nat, NEW m \in Nat, NEW n \in Nat,
           x # 0, y # 0, x * y <= m * n
    PROVE  m # 0 /\ n # 0
  <1>1. x * y # 0 /\ x * y \in Nat
    OBVIOUS
  <1>2. m = 0 => m * n = 0
    OBVIOUS
  <1>3. n = 0 => m * n = 0
    OBVIOUS
  <1> QED
    BY <1>1, <1>2, <1>3

LEMMA BuyBooks ==
    ASSUME TypeOK, TypeOK', Books, NEW a, LeavesQueue(a), ExecuteBuy(a)
    PROVE  Books'
  <1> DEFINE q == BuyQuote(a)
             x == reserve[a.side]
             y == reserve[Other(a.side)]
  <1>1. /\ a \in Action /\ a.side \in Side /\ a.user \in Users /\ a.amount \in Nat \ {0}
        /\ a.kind = "Buy"
    BY DEF Action, LeavesQueue, ExecuteBuy
  <1>2. x \in Nat /\ y \in Nat /\ Other(a.side) \in Side
    BY <1>1, OtherSide DEF TypeOK, AccountTypeOK
  <1>3. SoundBuy(q, x, y, a.amount)
    <2> DEFINE b == a.amount
    <2>1. q = QuoteBuy(x, y, b)
      BY DEF BuyQuote
    <2>2. b \in Nat \ {0}
      BY <1>1
    <2> HIDE DEF q, x, y, b
    <2>3. SoundBuy(q, x, y, b)
      BY <1>2, <2>1, <2>2, QuoteBuySound
    <2> QED
      BY <2>3 DEF b
  <1> HIDE DEF q
  <1>4. /\ ReleasePending(a.amount)
        /\ collateralBacking' = collateralBacking + q.tradeInput + UnattributedFee(q.liquidityFee)
        /\ winnerRewardPool' = winnerRewardPool + q.winnerRewardFee
        /\ winnerFeePaid' = [winnerFeePaid EXCEPT ![a.user] = @ + q.winnerRewardFee]
        /\ totalLpShares' = totalLpShares /\ lpSharesOf' = lpSharesOf
        /\ reserve' = [t \in Side |-> IF t = a.side THEN q.newSelectedReserve
                                                    ELSE q.newOtherReserve]
        /\ positionOf' = [positionOf EXCEPT ![a.user][a.side] = @ + q.positionsOut]
    BY DEF ExecuteBuy, DistributeLpFee, MoveReserves, Credit, q
  <1>5. /\ collateralBacking \in Nat /\ winnerRewardPool \in Nat /\ totalLpShares \in Nat
        /\ positionOf \in [Users -> [Side -> Nat]] /\ winnerFeePaid \in [Users -> Nat]
        /\ winnerFeePaid' \in [Users -> Nat]
    BY DEF TypeOK, AccountTypeOK, LpTypeOK
  <1>6. /\ q.tradeInput \in Nat /\ q.positionsOut \in Nat /\ q.liquidityFee \in Nat
        /\ q.winnerRewardFee \in Nat
        /\ q.newSelectedReserve \in Nat /\ q.newOtherReserve \in Nat
        /\ q.newSelectedReserve + q.positionsOut = x + q.tradeInput
        /\ q.newOtherReserve = y + q.tradeInput
        /\ x * y <= q.newSelectedReserve * q.newOtherReserve
    BY <1>3 DEF SoundBuy
  <1>7. finalOutcome = "Unset" => totalLpShares # 0
    BY <1>1, BuyHasProviders
  <1>8. Covered(finalOutcome, Owed("A"), Owed("B"), collateralBacking)'
    <2>1. ASSUME NEW s \in Side PROVE Owed(s)' = Owed(s) + q.tradeInput
      <3>1. HeldOn(positionOf', s) = HeldOn(positionOf, s)
                                     + (IF s = a.side THEN q.positionsOut ELSE 0)
        <4> DEFINE p == positionOf
                   p1 == positionOf'
                   u == a.user
                   k == IF s = a.side THEN q.positionsOut ELSE 0
        <4>1. p \in [Users -> [Side -> Nat]] /\ p1 \in [Users -> [Side -> Nat]] /\ u \in Users
          BY <1>1, <1>5 DEF TypeOK, AccountTypeOK
        <4>2. k \in Nat /\ p1[u][s] = p[u][s] + k /\ \A v \in Users \ {u} : p1[v][s] = p[v][s]
          BY <1>1, <1>4, <1>5, <1>6
        <4> HIDE DEF p, p1, u, k
        <4>3. HeldOn(p1, s) = HeldOn(p, s) + k
          BY <4>1, <4>2, HeldGain
        <4> QED
          BY <4>3 DEF p, p1, k
      <3>2. Total(actions', HoldsPositions(s)) = Total(actions, HoldsPositions(s)) + 0
        BY <1>1, OwedNat DEF LeavesQueue
      <3>3. CASE s = a.side
        <4> DEFINE r == q.newSelectedReserve - x
        <4>1. r \in Int /\ r + q.positionsOut + 0 = q.tradeInput /\ reserve'[s] = reserve[s] + r
          BY <1>2, <1>4, <1>6, <3>3
        <4> HIDE DEF r
        <4> QED
          BY <1>6, <3>1, <3>2, <3>3, <4>1, OwedMoves
      <3>4. CASE s # a.side
        <4>1. s = Other(a.side)
          BY <1>1, <3>4 DEF Side, Other
        <4>2. reserve'[s] = reserve[s] + q.tradeInput /\ q.tradeInput + 0 + 0 = q.tradeInput
          BY <1>2, <1>4, <1>6, <3>4, <4>1
        <4> QED
          BY <1>6, <3>1, <3>2, <3>4, <4>2, OwedMoves
      <3> QED
        BY <3>3, <3>4
    <2>2. \/ collateralBacking' = collateralBacking + q.tradeInput
          \/ finalOutcome # "Unset" /\ collateralBacking' >= collateralBacking + q.tradeInput
      BY <1>4, <1>5, <1>6, <1>7 DEF UnattributedFee
    <2> QED
      BY <1>6, <2>1, <2>2, MovesKeepCover DEF LeavesQueue
  <1>9. pendingCollateral' = Total(actions', HoldsCollateral)
    BY <1>1, <1>4, ReleaseBooks
  <1>10. WinnerFeesRefundable'
    <2>1. SumFunction(winnerFeePaid) + winnerFeePaid'[a.user]
            = SumFunction(winnerFeePaid') + winnerFeePaid[a.user]
          /\ SumFunction(winnerFeePaid) \in Nat /\ SumFunction(winnerFeePaid') \in Nat
      <3>1. \A v \in Users \ {a.user} : winnerFeePaid'[v] = winnerFeePaid[v]
        BY <1>4, <1>5
      <3>2. IsFiniteSet(Users)
        BY MarketAssumption
      <3> QED
        BY <1>1, <1>5, <3>1, <3>2, SumChange
    <2>2. winnerFeePaid'[a.user] = winnerFeePaid[a.user] + q.winnerRewardFee
          /\ winnerFeePaid[a.user] \in Nat
      BY <1>1, <1>4, <1>5
    <2>a. winnerFeePaid'[a.user] \in Nat
      BY <1>1, <1>5
    <2>3. SumFunction(winnerFeePaid') = SumFunction(winnerFeePaid) + q.winnerRewardFee
      BY <1>6, <2>1, <2>2, <2>a, Shifted
    <2> QED
      BY <1>4, <2>3 DEF Books, WinnerFeesRefundable, LeavesQueue
  <1>11. SharesAreBacked'
    <2>1. totalLpShares' = SumFunction(lpSharesOf')
      BY <1>4 DEF Books, SharesAreBacked
    <2>2. ASSUME totalLpShares # 0
          PROVE  q.newSelectedReserve # 0 /\ q.newOtherReserve # 0
      <3>1. x # 0 /\ y # 0
        BY <1>1, <1>2, <2>2 DEF Books, SharesAreBacked
      <3> DEFINE m == q.newSelectedReserve
                 n == q.newOtherReserve
      <3>2. m \in Nat /\ n \in Nat /\ x * y <= m * n
        BY <1>6
      <3> HIDE DEF x, y, m, n
      <3>3. m # 0 /\ n # 0
        BY <1>2, <3>1, <3>2, ReservesStay
      <3> QED
        BY <3>3 DEF m, n
    <2> QED
      BY <1>4, <2>1, <2>2 DEF SharesAreBacked
  <1>12. NoTradeWithoutShares'
    BY <1>4, <1>7 DEF NoTradeWithoutShares, LeavesQueue
  <1> QED
    BY <1>8, <1>9, <1>10, <1>11, <1>12 DEF Books

LEMMA SellBooks ==
    ASSUME TypeOK, TypeOK', Books, NEW a, LeavesQueue(a), MeetsMinimum(a), ExecuteSell(a)
    PROVE  Books'
  <1> DEFINE q == SellQuote(a)
             x == reserve[a.side]
             y == reserve[Other(a.side)]
  <1>1. a \in Action /\ a.side \in Side /\ a.amount \in Nat /\ a.kind = "Sell"
    BY DEF Action, LeavesQueue, ExecuteSell
  <1>2. x \in Nat /\ y \in Nat /\ Other(a.side) \in Side
    BY <1>1, OtherSide DEF TypeOK, AccountTypeOK
  <1>3. SoundSell(q, x, y, a.amount)
    <2> DEFINE b == a.amount
    <2>1. q = QuoteSell(x, y, b)
      BY DEF SellQuote
    <2>2. b \in Nat
      BY <1>1
    <2> HIDE DEF q, x, y, b
    <2>3. SoundSell(q, x, y, b)
      BY <1>2, <2>1, <2>2, QuoteSellSound
    <2> QED
      BY <2>3 DEF b
  <1>a. q.grossCollateral # 0
    BY <1>1 DEF MeetsMinimum
  <1> HIDE DEF q
  <1>4. /\ q.grossCollateral <= collateralBacking
        /\ collateralBacking' = collateralBacking - q.grossCollateral
                                    + UnattributedFee(q.liquidityFee)
        /\ totalLpShares' = totalLpShares /\ lpSharesOf' = lpSharesOf
        /\ reserve' = [t \in Side |-> IF t = a.side THEN q.newSelectedReserve
                                                    ELSE q.newOtherReserve]
        /\ positionOf' = positionOf /\ winnerFeePaid' = winnerFeePaid
        /\ winnerRewardPool' = winnerRewardPool /\ pendingCollateral' = pendingCollateral
    BY DEF ExecuteSell, DistributeLpFee, MoveReserves, holderVars, rewardVars, q
  <1>5. collateralBacking \in Nat /\ totalLpShares \in Nat
    BY DEF TypeOK, AccountTypeOK, LpTypeOK
  <1>6. /\ q.grossCollateral \in Nat /\ q.liquidityFee \in Nat
        /\ q.newSelectedReserve \in Nat /\ q.newOtherReserve \in Nat
        /\ q.newSelectedReserve + q.grossCollateral = x + a.amount
        /\ q.newOtherReserve + q.grossCollateral = y
        /\ x * y <= q.newSelectedReserve * q.newOtherReserve
    BY <1>3 DEF SoundSell
  <1>7. finalOutcome = "Unset" => totalLpShares # 0
    BY <1>4, <1>5, <1>6, <1>a DEF Books, NoTradeWithoutShares
  <1>8. Covered(finalOutcome, Owed("A"), Owed("B"), collateralBacking)'
    <2> DEFINE d == 0 - q.grossCollateral
    <2>1. d \in Int
      BY <1>6
    <2>2. ASSUME NEW s \in Side PROVE Owed(s)' = Owed(s) + d
      <3>1. HeldOn(positionOf', s) = HeldOn(positionOf, s) + 0
        BY <1>4, OwedNat
      <3>2. Total(actions', HoldsPositions(s)) = Total(actions, HoldsPositions(s))
                - (IF a.side = s THEN a.amount ELSE 0)
            /\ Total(actions, HoldsPositions(s)) \in Nat
        BY <1>1, OwedNat DEF LeavesQueue
      <3>3. CASE s = a.side
        <4> DEFINE r == q.newSelectedReserve - x
                   t == 0 - a.amount
        <4>1. /\ r \in Int /\ t \in Int /\ r + 0 + t = d /\ reserve'[s] = reserve[s] + r
              /\ Total(actions', HoldsPositions(s)) = Total(actions, HoldsPositions(s)) + t
          BY <1>1, <1>2, <1>4, <1>6, <3>2, <3>3
        <4> HIDE DEF r, t, d
        <4> QED
          BY <3>1, <4>1, OwedMoves
      <3>4. CASE s # a.side
        <4>1. s = Other(a.side)
          BY <1>1, <3>4 DEF Side, Other
        <4>2. /\ reserve'[s] = reserve[s] + d /\ d + 0 + 0 = d
              /\ Total(actions', HoldsPositions(s)) = Total(actions, HoldsPositions(s)) + 0
          BY <1>2, <1>4, <1>6, <3>2, <3>4, <4>1
        <4> HIDE DEF d
        <4> QED
          BY <2>1, <3>1, <4>2, OwedMoves
      <3> QED
        BY <3>3, <3>4
    <2>3. \/ collateralBacking' = collateralBacking + d
          \/ finalOutcome # "Unset" /\ collateralBacking' >= collateralBacking + d
      BY <1>4, <1>5, <1>6, <1>7 DEF UnattributedFee
    <2> HIDE DEF d
    <2> QED
      BY <2>1, <2>2, <2>3, MovesKeepCover DEF LeavesQueue
  <1>9. pendingCollateral' = Total(actions', HoldsCollateral)
    BY <1>1, <1>4, ReleaseBooks
  <1>10. WinnerFeesRefundable'
    BY <1>4 DEF Books, WinnerFeesRefundable, LeavesQueue
  <1>11. SharesAreBacked'
    <2>1. totalLpShares' = SumFunction(lpSharesOf')
      BY <1>4 DEF Books, SharesAreBacked
    <2>2. ASSUME totalLpShares # 0
          PROVE  q.newSelectedReserve # 0 /\ q.newOtherReserve # 0
      <3>1. x # 0 /\ y # 0
        BY <1>1, <1>2, <2>2 DEF Books, SharesAreBacked
      <3> DEFINE m == q.newSelectedReserve
                 n == q.newOtherReserve
      <3>2. m \in Nat /\ n \in Nat /\ x * y <= m * n
        BY <1>6
      <3> HIDE DEF x, y, m, n
      <3>3. m # 0 /\ n # 0
        BY <1>2, <3>1, <3>2, ReservesStay
      <3> QED
        BY <3>3 DEF m, n
    <2> QED
      BY <1>4, <2>1, <2>2 DEF SharesAreBacked
  <1>12. NoTradeWithoutShares'
    BY <1>4, <1>7 DEF NoTradeWithoutShares, LeavesQueue
  <1> QED
    BY <1>8, <1>9, <1>10, <1>11, <1>12 DEF Books

LEMMA AddLiquidityBooks ==
    ASSUME TypeOK, TypeOK', Books, NEW a, LeavesQueue(a), Computable(a), MeetsMinimum(a),
           ExecuteAddLiquidity(a)
    PROVE  Books'
  <1>1. /\ a \in Action /\ a.user \in Users /\ a.amount \in Nat \ {0}
        /\ a.kind = "AddLiquidity"
    BY DEF Action, LeavesQueue, ExecuteAddLiquidity
  <1>2. /\ SharesFor(a) \in Nat \ {0}
        /\ \A s \in Side : AddedTo(s, a) \in Nat /\ AddedTo(s, a) <= a.amount
    BY <1>1, DepositSplit DEF MeetsMinimum
  <1>3. /\ ReleasePending(a.amount)
        /\ collateralBacking' = collateralBacking + a.amount
        /\ lpSharesOf' = [lpSharesOf EXCEPT ![a.user] = @ + SharesFor(a)]
        /\ totalLpShares' = totalLpShares + SharesFor(a)
        /\ reserve' = [s \in Side |-> reserve[s] + AddedTo(s, a)]
        /\ positionOf' = [positionOf EXCEPT ![a.user] =
                             [s \in Side |-> @[s] + a.amount - AddedTo(s, a)]]
        /\ winnerFeePaid' = winnerFeePaid /\ winnerRewardPool' = winnerRewardPool
    BY DEF ExecuteAddLiquidity, MintShares, rewardVars
  <1>4. /\ reserve \in [Side -> Nat] /\ positionOf \in [Users -> [Side -> Nat]]
        /\ positionOf' \in [Users -> [Side -> Nat]] /\ totalLpShares \in Nat
        /\ lpSharesOf \in [Users -> Nat] /\ lpSharesOf' \in [Users -> Nat]
    BY DEF TypeOK, AccountTypeOK, LpTypeOK
  <1>5. Covered(finalOutcome, Owed("A"), Owed("B"), collateralBacking)'
    <2>1. ASSUME NEW s \in Side PROVE Owed(s)' = Owed(s) + a.amount
      <3> DEFINE r == AddedTo(s, a)
                 h == a.amount - r
                 p == positionOf
                 q == positionOf'
                 u == a.user
      <3>1. r \in Nat /\ h \in Nat /\ r + h + 0 = a.amount
        BY <1>1, <1>2
      <3>2. reserve'[s] = reserve[s] + r
        BY <1>3, <1>4
      <3>3. Total(actions', HoldsPositions(s)) = Total(actions, HoldsPositions(s)) + 0
        BY <1>1, OwedNat DEF LeavesQueue
      <3>4. HeldOn(positionOf', s) = HeldOn(positionOf, s) + h
        <4>1. /\ p \in [Users -> [Side -> Nat]] /\ q \in [Users -> [Side -> Nat]] /\ u \in Users
              /\ \A v \in Users \ {u} : q[v][s] = p[v][s]
          BY <1>1, <1>3, <1>4
        <4>2. q[u][s] = p[u][s] + a.amount - r
          BY <1>1, <1>3, <1>4
        <4>3. p[u][s] \in Nat
          BY <4>1
        <4>4. q[u][s] = p[u][s] + h
          BY <1>1, <3>1, <4>2, <4>3
        <4> HIDE DEF p, q, u, r, h
        <4>5. HeldOn(q, s) = HeldOn(p, s) + h
          BY <3>1, <4>1, <4>4, HeldGain
        <4> QED
          BY <4>5 DEF p, q
      <3> HIDE DEF r, h
      <3> QED
        BY <3>1, <3>2, <3>3, <3>4, OwedMoves
    <2> QED
      BY <1>1, <1>3, <2>1, MovesKeepCover DEF LeavesQueue
  <1>6. pendingCollateral' = Total(actions', HoldsCollateral)
    BY <1>1, <1>3, ReleaseBooks
  <1>7. WinnerFeesRefundable'
    BY <1>3 DEF Books, WinnerFeesRefundable, LeavesQueue
  <1>8. SharesAreBacked'
    <2>1. totalLpShares' = SumFunction(lpSharesOf')
      <3>1. /\ SumFunction(lpSharesOf) + lpSharesOf'[a.user]
                 = SumFunction(lpSharesOf') + lpSharesOf[a.user]
            /\ SumFunction(lpSharesOf) \in Nat /\ SumFunction(lpSharesOf') \in Nat
        <4> DEFINE f == lpSharesOf
                   g == lpSharesOf'
                   u == a.user
        <4>1. /\ IsFiniteSet(Users) /\ \A v \in Users \ {u} : g[v] = f[v]
              /\ f \in [Users -> Nat] /\ g \in [Users -> Nat] /\ u \in Users
          BY <1>1, <1>3, <1>4, MarketAssumption
        <4> HIDE DEF f, g, u
        <4>2. SumFunction(f) + g[u] = SumFunction(g) + f[u]
              /\ SumFunction(f) \in Nat /\ SumFunction(g) \in Nat
          BY <4>1, SumChange
        <4> QED
          BY <4>2 DEF f, g, u
      <3>2. lpSharesOf'[a.user] = lpSharesOf[a.user] + SharesFor(a) /\ lpSharesOf[a.user] \in Nat
        BY <1>1, <1>3, <1>4
      <3>3. totalLpShares = SumFunction(lpSharesOf)
        BY DEF Books, SharesAreBacked
      <3> QED
        BY <1>2, <1>3, <3>1, <3>2, <3>3
    <2>2. \A s \in Side : reserve'[s] # 0
      <3>1. CASE totalLpShares = 0
        BY <1>1, <1>3, <1>4, <3>1 DEF AddedTo
      <3>2. CASE totalLpShares # 0
        BY <1>2, <1>3, <1>4, <3>2 DEF Books, SharesAreBacked
      <3> QED
        BY <3>1, <3>2
    <2> QED
      BY <2>1, <2>2 DEF SharesAreBacked
  <1>9. NoTradeWithoutShares'
    BY <1>2, <1>3, <1>4 DEF NoTradeWithoutShares
  <1> QED
    BY <1>5, <1>6, <1>7, <1>8, <1>9 DEF Books

\* Escrowed positions go to the recipient of a transfer, or back.
LEMMA CreditBooks ==
    ASSUME TypeOK, TypeOK', Books, NEW a, LeavesQueue(a), a.kind \in {"Sell", "Transfer"},
           NEW u \in Users, Credit(u, a.side, a.amount),
           UNCHANGED <<lpVars, poolVars, winnerFeePaid, rewardVars, pendingCollateral>>
    PROVE  Books'
  <1>1. /\ a \in Action /\ a.side \in Side /\ a.amount \in Nat
        /\ positionOf \in [Users -> [Side -> Nat]] /\ reserve \in [Side -> Nat]
        /\ collateralBacking \in Nat
    BY DEF Action, LeavesQueue, TypeOK, AccountTypeOK
  <1>2. /\ positionOf' = [positionOf EXCEPT ![u][a.side] = @ + a.amount]
        /\ reserve' = reserve /\ collateralBacking' = collateralBacking
        /\ winnerFeePaid' = winnerFeePaid /\ winnerRewardPool' = winnerRewardPool
        /\ totalLpShares' = totalLpShares /\ lpSharesOf' = lpSharesOf
        /\ pendingCollateral' = pendingCollateral
    BY DEF Credit, lpVars, poolVars, rewardVars
  <1>3. Covered(finalOutcome, Owed("A"), Owed("B"), collateralBacking)'
    <2>1. ASSUME NEW s \in Side PROVE Owed(s)' = Owed(s) + 0
      <3> DEFINE h == IF s = a.side THEN a.amount ELSE 0
                 t == 0 - h
      <3>1. h \in Nat /\ t \in Int /\ 0 + h + t = 0
        BY <1>1
      <3>2. HeldOn(positionOf', s) = HeldOn(positionOf, s) + h
        <4> DEFINE p == positionOf
                   q == positionOf'
        <4>1. p \in [Users -> [Side -> Nat]] /\ q \in [Users -> [Side -> Nat]]
          BY <1>1 DEF TypeOK, AccountTypeOK
        <4>2. q[u][s] = p[u][s] + h /\ \A v \in Users \ {u} : q[v][s] = p[v][s]
          BY <1>1, <1>2
        <4> HIDE DEF p, q, h
        <4>3. HeldOn(q, s) = HeldOn(p, s) + h
          BY <3>1, <4>1, <4>2, HeldGain
        <4> QED
          BY <4>3 DEF p, q
      <3>3. Total(actions', HoldsPositions(s)) = Total(actions, HoldsPositions(s)) + t
        BY <1>1, OwedNat DEF LeavesQueue
      <3>4. reserve'[s] = reserve[s] + 0
        BY <1>1, <1>2
      <3> HIDE DEF h, t
      <3> QED
        BY <3>1, <3>2, <3>3, <3>4, OwedMoves
    <2>2. collateralBacking' = collateralBacking + 0
      BY <1>1, <1>2
    <2> QED
      BY <2>1, <2>2, MovesKeepCover DEF LeavesQueue
  <1>4. pendingCollateral' = Total(actions', HoldsCollateral)
    BY <1>2, ReleaseBooks
  <1>5. WinnerFeesRefundable' /\ SharesAreBacked'
    BY <1>2 DEF Books, WinnerFeesRefundable, SharesAreBacked, LeavesQueue
  <1>6. NoTradeWithoutShares'
    BY <1>2 DEF Books, NoTradeWithoutShares, LeavesQueue
  <1> QED
    BY <1>3, <1>4, <1>5, <1>6 DEF Books

LEMMA RefundCollateralBooks ==
    ASSUME TypeOK, TypeOK', Books, NEW a, LeavesQueue(a), RefundCollateral(a)
    PROVE  Books'
  <1>1. a \in Action /\ a.kind \in {"Buy", "AddLiquidity"} /\ ReleasePending(a.amount)
    BY DEF LeavesQueue, RefundCollateral
  <1>2. /\ positionOf' = positionOf /\ reserve' = reserve
        /\ collateralBacking' = collateralBacking
        /\ winnerFeePaid' = winnerFeePaid /\ winnerRewardPool' = winnerRewardPool
        /\ totalLpShares' = totalLpShares /\ lpSharesOf' = lpSharesOf
    BY DEF RefundCollateral, accountVars, lpVars, poolVars, holderVars, rewardVars
  <1>3. Covered(finalOutcome, Owed("A"), Owed("B"), collateralBacking)'
    <2>1. ASSUME NEW s \in Side PROVE Owed(s)' = Owed(s) + 0
      <3>1. /\ HeldOn(positionOf', s) = HeldOn(positionOf, s) + 0 /\ reserve'[s] = reserve[s] + 0
            /\ Total(actions', HoldsPositions(s)) = Total(actions, HoldsPositions(s)) + 0
        BY <1>1, <1>2, OwedNat DEF LeavesQueue
      <3> QED
        BY <3>1, OwedMoves
    <2>2. collateralBacking' = collateralBacking + 0
      BY <1>2, AccountsNat
    <2> QED
      BY <2>1, <2>2, MovesKeepCover DEF LeavesQueue
  <1>4. pendingCollateral' = Total(actions', HoldsCollateral)
    BY <1>1, ReleaseBooks
  <1>5. WinnerFeesRefundable' /\ SharesAreBacked'
    BY <1>2 DEF Books, WinnerFeesRefundable, SharesAreBacked, LeavesQueue
  <1>6. NoTradeWithoutShares'
    BY <1>2 DEF Books, NoTradeWithoutShares, LeavesQueue
  <1> QED
    BY <1>3, <1>4, <1>5, <1>6 DEF Books

LEMMA ProcessBooks ==
    ASSUME TypeOK, TypeOK', Books, NEW e \in Epoch, ProcessEpoch(e)
    PROVE  Books'
  <1> DEFINE id == NextId(e)
             a == actions[id]
  <1>1. id \in DOMAIN actions
    <2>1. /\ epochActionIds[e] \in Seq(DOMAIN actions) /\ epochCursor[e] \in Nat
          /\ epochCursor[e] < Len(epochActionIds[e])
      BY DEF ProcessEpoch, HasNext, TypeOK, QueueTypeOK
    <2>2. epochCursor[e] + 1 \in 1 .. Len(epochActionIds[e])
      BY <2>1
    <2> QED
      BY <2>1, <2>2 DEF NextId
  <1>2. /\ a.status = "Pending"
        /\ \/ Executes(e, a) /\ Execute(a) /\ Settle(e, id, "Executed")
           \/ Refund(a) /\ Settle(e, id, "Refunded")
    BY DEF ProcessEpoch
  <1>3. PICK status \in {"Executed", "Refunded"} : Settle(e, id, status)
    BY <1>2
  <1> HIDE DEF id
  <1>4. LeavesQueue(a)
    BY <1>1, <1>2, <1>3, SettleLeaves
  <1>5. \/ Computable(a) /\ MeetsMinimum(a) /\ Execute(a)
        \/ Refund(a)
    BY <1>2 DEF Executes
  <1> HIDE DEF a
  <1>6. a.user \in Users /\ a.recipient \in Users
    BY <1>4 DEF LeavesQueue, Action
  <1>7. CASE ExecuteBuy(a)
    BY <1>4, <1>7, BuyBooks
  <1>8. CASE MeetsMinimum(a) /\ ExecuteSell(a)
    BY <1>4, <1>8, SellBooks
  <1>9. CASE Computable(a) /\ MeetsMinimum(a) /\ ExecuteAddLiquidity(a)
    BY <1>4, <1>9, AddLiquidityBooks
  <1>10. CASE ExecuteTransfer(a)
    BY <1>4, <1>6, <1>10, CreditBooks DEF ExecuteTransfer
  <1>11. CASE RefundCollateral(a)
    BY <1>4, <1>11, RefundCollateralBooks
  <1>12. CASE RefundPosition(a)
    BY <1>4, <1>6, <1>12, CreditBooks DEF RefundPosition
  <1> QED
    BY <1>5, <1>7, <1>8, <1>9, <1>10, <1>11, <1>12 DEF Execute, Refund

-------------------------------------------------------------------------------
(* Claims. *)

\* A claim that moves neither positions nor reserves nor backing: LP fees, the
\* winner reward, a refunded fee, an integrity bond.
LEMMA ClaimBooks ==
    ASSUME TypeOK, TypeOK', Books, ClaimFrame, UNCHANGED poolVars, UNCHANGED positionOf,
           UNCHANGED <<totalLpShares, lpSharesOf>>, WinnerFeesRefundable'
    PROVE  Books'
  <1>1. /\ reserve' = reserve /\ collateralBacking' = collateralBacking
        /\ actions' = actions /\ pendingCollateral' = pendingCollateral
        /\ finalOutcome' = finalOutcome
    BY DEF ClaimFrame, poolVars, queueVars, lifecycleVars, resultVars
  <1>2. Owed("A")' = Owed("A") /\ Owed("B")' = Owed("B")
    BY <1>1 DEF Owed
  <1>3. Covered(finalOutcome, Owed("A"), Owed("B"), collateralBacking)'
        /\ pendingCollateral' = Total(actions', HoldsCollateral)
    BY <1>1, <1>2 DEF Books
  <1>4. SharesAreBacked' /\ NoTradeWithoutShares'
    BY <1>1 DEF Books, SharesAreBacked, NoTradeWithoutShares, PendingIds
  <1> QED
    BY <1>3, <1>4 DEF Books

\* After the result u gives up x and y positions on the two sides, from the
\* users' or from the pool, and is paid what they are worth.
LEMMA PaidBooks ==
    ASSUME TypeOK, TypeOK', Books, finalOutcome # "Unset", finalOutcome' = finalOutcome,
           NEW x \in Nat, NEW y \in Nat, Owed("A")' + x = Owed("A"), Owed("B")' + y = Owed("B"),
           PayFromBacking(ResolvedValue(x, y))
    PROVE  Covered(finalOutcome, Owed("A"), Owed("B"), collateralBacking)'
  <1> DEFINE v == ResolvedValue(x, y)
  <1>1. /\ v \in Nat
        /\ finalOutcome = "A" => v = x
        /\ finalOutcome = "B" => v = y
        /\ finalOutcome \notin Side => 2 * v <= x + y
    <2>1. v \in Nat
      BY ResolvedValueNat
    <2>2. 2 * ((x + y) \div 2) <= x + y
      BY DivBounds
    <2> QED
      BY <2>1, <2>2 DEF ResolvedValue, Side
  <1>2. v <= collateralBacking /\ collateralBacking' = collateralBacking - v
    BY DEF PayFromBacking
  <1> HIDE DEF v
  <1>3. /\ Owed("A") \in Nat /\ Owed("B") \in Nat /\ Owed("A")' \in Nat /\ Owed("B")' \in Nat
        /\ collateralBacking \in Nat /\ collateralBacking' \in Nat
        /\ finalOutcome \in Outcome \ {"Unset"}
        /\ Covered(finalOutcome, Owed("A"), Owed("B"), collateralBacking)
    BY OwedNat, OwedNatNext DEF TypeOK, AccountTypeOK, ResultTypeOK, Side, Books
  <1>4. collateralBacking' + v = collateralBacking
    BY <1>1, <1>2, <1>3
  <1>5. Covered(finalOutcome, Owed("A")', Owed("B")', collateralBacking')
    <2> DEFINE a == Owed("A")
               b == Owed("B")
               c == collateralBacking
               a2 == Owed("A")'
               b2 == Owed("B")'
               c2 == collateralBacking'
               outcome == finalOutcome
    <2>1. /\ a \in Nat /\ b \in Nat /\ c \in Nat /\ a2 \in Nat /\ b2 \in Nat /\ c2 \in Nat
          /\ outcome \in Outcome \ {"Unset"} /\ Covered(outcome, a, b, c)
          /\ a2 + x = a /\ b2 + y = b /\ c2 + v = c
      BY <1>3, <1>4
    <2>2. /\ outcome = "A" => v = x
          /\ outcome = "B" => v = y
          /\ outcome \notin Side => 2 * v <= x + y
      BY <1>1
    <2> HIDE DEF a, b, c, a2, b2, c2, outcome
    <2>3. Covered(outcome, a2, b2, c2)
      BY <1>1, <2>1, <2>2 DEF Covered, Outcome, Side
    <2> QED
      BY <2>3 DEF a2, b2, c2, outcome
  <1> QED
    BY <1>5

LEMMA RedeemBooks ==
    ASSUME TypeOK, TypeOK', Books, NEW u \in Users, RedeemPositions(u)
    PROVE  Books'
  <1> DEFINE p == positionOf
             q == positionOf'
  <1>1. /\ finalOutcome # "Unset" /\ finalOutcome' = finalOutcome
        /\ q = [p EXCEPT ![u] = [s \in Side |-> 0]]
        /\ PayFromBacking(ResolvedValue(p[u]["A"], p[u]["B"]))
        /\ reserve' = reserve /\ actions' = actions /\ pendingCollateral' = pendingCollateral
        /\ winnerFeePaid' = winnerFeePaid /\ winnerRewardPool' = winnerRewardPool
        /\ totalLpShares' = totalLpShares /\ lpSharesOf' = lpSharesOf
    BY DEF RedeemPositions, ClaimFrame, lifecycleVars, resultVars, queueVars, lpVars, rewardVars
  <1>2. p \in [Users -> [Side -> Nat]] /\ q \in [Users -> [Side -> Nat]]
    BY DEF TypeOK, AccountTypeOK
  <1>3. ASSUME NEW s \in Side
        PROVE  /\ p[u][s] \in Nat /\ HeldOn(q, s) + p[u][s] = HeldOn(p, s)
               /\ HeldOn(q, s) \in Nat /\ HeldOn(p, s) \in Nat
    <2>1. q[u][s] = 0 /\ p[u][s] \in Nat /\ \A v \in Users \ {u} : q[v][s] = p[v][s]
      BY <1>1, <1>2
    <2> HIDE DEF p, q
    <2> QED
      BY <1>2, <2>1, HeldChange
  <1>4. ASSUME NEW s \in Side PROVE Owed(s)' + p[u][s] = Owed(s)
    <2>1. /\ Owed(s)' = reserve[s] + HeldOn(q, s) + Total(actions, HoldsPositions(s))
          /\ Owed(s) = reserve[s] + HeldOn(p, s) + Total(actions, HoldsPositions(s))
      BY <1>1, OwedNatNext DEF Owed
    <2>2. reserve[s] \in Nat /\ Total(actions, HoldsPositions(s)) \in Nat
      BY OwedNat
    <2>3. \A r, h, i, t, n \in Nat : h + n = i => (r + h + t) + n = r + i + t
      OBVIOUS
    <2> QED
      BY <1>3, <2>1, <2>2, <2>3
  <1>5. Covered(finalOutcome, Owed("A"), Owed("B"), collateralBacking)'
    <2>1. p[u]["A"] \in Nat /\ p[u]["B"] \in Nat
          /\ Owed("A")' + p[u]["A"] = Owed("A") /\ Owed("B")' + p[u]["B"] = Owed("B")
      BY <1>3, <1>4 DEF Side
    <2> HIDE DEF p, q
    <2> QED
      BY <1>1, <2>1, PaidBooks
  <1>6. pendingCollateral' = Total(actions', HoldsCollateral)
    BY <1>1 DEF Books
  <1>7. WinnerFeesRefundable' /\ SharesAreBacked' /\ NoTradeWithoutShares'
    BY <1>1 DEF Books, WinnerFeesRefundable, SharesAreBacked, NoTradeWithoutShares
  <1> QED
    BY <1>5, <1>6, <1>7 DEF Books

\* A share of a below the whole of it.
LEMMA MulDivPart ==
    ASSUME NEW a \in Nat \ {0}, NEW b \in Nat, NEW c \in Nat, b < c
    PROVE  MulDiv(a, b, c) < a
  <1> DEFINE m == MulDiv(a, b, c)
  <1>1. c \in Nat \ {0}
    OBVIOUS
  <1>2. m \in Nat /\ c * m <= a * b
    BY <1>1, MulDivNat
  <1>3. a * b + a <= c * a
    <2>1. a * (b + 1) <= a * c
      BY ProductMonotone
    <2>2. a * (b + 1) = a * b + a /\ a * c = c * a
      OBVIOUS
    <2> QED
      BY <2>1, <2>2
  <1> HIDE DEF m
  <1>4. CASE a <= m
    <2>1. c * a <= c * m
      BY <1>1, <1>2, <1>4, ProductMonotone
    <2>2. c * a \in Nat /\ c * m \in Nat /\ a * b \in Nat
      BY <1>1, <1>2, ProductNat
    <2> QED
      BY <1>2, <1>3, <2>1, <2>2
  <1> QED
    BY <1>2, <1>4 DEF m

LEMMA SettleLpBooks ==
    ASSUME TypeOK, TypeOK', Books, NEW u \in Users, SettleLpInventory(u)
    PROVE  Books'
  <1> DEFINE share(s) == InventoryShare(u, s)
  <1>1. /\ finalOutcome # "Unset" /\ finalOutcome' = finalOutcome
        /\ reserve' = [s \in Side |-> reserve[s] - share(s)]
        /\ PayFromBacking(ResolvedValue(share("A"), share("B")))
        /\ positionOf' = positionOf /\ actions' = actions
        /\ pendingCollateral' = pendingCollateral
        /\ winnerFeePaid' = winnerFeePaid /\ winnerRewardPool' = winnerRewardPool
        /\ totalLpShares' = totalLpShares - lpSharesOf[u]
        /\ lpSharesOf' = [lpSharesOf EXCEPT ![u] = 0]
        /\ lpSharesOf[u] # 0 /\ lpSharesOf[u] <= totalLpShares
    BY DEF SettleLpInventory, BurnShares, ClaimFrame, lifecycleVars, resultVars, queueVars,
           holderVars, rewardVars
  <1>2. /\ lpSharesOf \in [Users -> Nat] /\ lpSharesOf' \in [Users -> Nat]
        /\ totalLpShares \in Nat \ {0} /\ reserve \in [Side -> Nat]
        /\ lpSharesOf[u] \in Nat
    BY <1>1 DEF TypeOK, AccountTypeOK, LpTypeOK
  <1>3. \A s \in Side : share(s) \in Nat /\ share(s) <= reserve[s]
    BY <1>1, <1>2, MulDivNat, MulDivShare DEF InventoryShare
  <1>4. ASSUME NEW s \in Side PROVE Owed(s)' + share(s) = Owed(s)
    <2>1. /\ Owed(s)' = (reserve[s] - share(s)) + HeldOn(positionOf, s)
                            + Total(actions, HoldsPositions(s))
          /\ Owed(s) = reserve[s] + HeldOn(positionOf, s) + Total(actions, HoldsPositions(s))
      BY <1>1, OwedNatNext DEF Owed
    <2>2. /\ reserve[s] \in Nat /\ Total(actions, HoldsPositions(s)) \in Nat
          /\ HeldOn(positionOf, s) \in Nat /\ share(s) \in Nat
      BY <1>3, OwedNat
    <2>3. \A r, n, h, t \in Nat : ((r - n) + h + t) + n = r + h + t
      OBVIOUS
    <2> HIDE DEF share
    <2> QED
      BY <2>1, <2>2, <2>3
  <1>5. Covered(finalOutcome, Owed("A"), Owed("B"), collateralBacking)'
    <2> DEFINE x == share("A")
               y == share("B")
    <2>1. x \in Nat /\ y \in Nat /\ Owed("A")' + x = Owed("A") /\ Owed("B")' + y = Owed("B")
      BY <1>3, <1>4 DEF Side
    <2>2. PayFromBacking(ResolvedValue(x, y))
      BY <1>1
    <2> HIDE DEF x, y
    <2> QED
      BY <1>1, <2>1, <2>2, PaidBooks
  <1>6. pendingCollateral' = Total(actions', HoldsCollateral)
    BY <1>1 DEF Books
  <1>7. WinnerFeesRefundable' /\ NoTradeWithoutShares'
    BY <1>1 DEF Books, WinnerFeesRefundable, NoTradeWithoutShares
  <1>8. SharesAreBacked'
    <2>1. totalLpShares' = SumFunction(lpSharesOf')
      <3>1. /\ SumFunction(lpSharesOf) + lpSharesOf'[u]
                 = SumFunction(lpSharesOf') + lpSharesOf[u]
            /\ SumFunction(lpSharesOf) \in Nat /\ SumFunction(lpSharesOf') \in Nat
        <4>1. IsFiniteSet(Users) /\ \A v \in Users \ {u} : lpSharesOf'[v] = lpSharesOf[v]
          BY <1>1, <1>2, MarketAssumption
        <4> QED
          BY <1>2, <4>1, SumChange
      <3>2. lpSharesOf'[u] = 0 /\ totalLpShares = SumFunction(lpSharesOf)
        BY <1>1, <1>2 DEF Books, SharesAreBacked
      <3> QED
        BY <1>1, <1>2, <3>1, <3>2
    <2>2. ASSUME totalLpShares' # 0, NEW s \in Side
          PROVE  reserve'[s] # 0
      <3>1. lpSharesOf[u] < totalLpShares
        BY <1>1, <1>2, <2>2
      <3>2. reserve[s] \in Nat \ {0}
        BY <1>2 DEF Books, SharesAreBacked
      <3>3. share(s) < reserve[s]
        BY <1>2, <3>1, <3>2, MulDivPart DEF InventoryShare
      <3> HIDE DEF share
      <3> QED
        BY <1>1, <1>2, <1>3, <3>2, <3>3
    <2> QED
      BY <2>1, <2>2 DEF SharesAreBacked
  <1> QED
    BY <1>5, <1>6, <1>7, <1>8 DEF Books

LEMMA InvalidRefundBooks ==
    ASSUME TypeOK, TypeOK', Books, NEW u \in Users, ClaimInvalidWinnerFeeRefund(u)
    PROVE  Books'
  <1>1. /\ finalOutcome = "Invalid" /\ winnerFeePaid[u] <= winnerRewardPool
        /\ winnerFeePaid' = [winnerFeePaid EXCEPT ![u] = 0]
        /\ winnerRewardPool' = winnerRewardPool - winnerFeePaid[u]
        /\ ClaimFrame /\ UNCHANGED poolVars /\ UNCHANGED positionOf
        /\ UNCHANGED <<totalLpShares, lpSharesOf>>
    BY DEF ClaimInvalidWinnerFeeRefund, lpVars
  <1>2. /\ winnerFeePaid \in [Users -> Nat] /\ winnerFeePaid' \in [Users -> Nat]
        /\ winnerFeePaid'[u] = 0 /\ winnerFeePaid[u] \in Nat
    BY <1>1 DEF TypeOK, AccountTypeOK
  <1>3. /\ SumFunction(winnerFeePaid) + winnerFeePaid'[u]
             = SumFunction(winnerFeePaid') + winnerFeePaid[u]
        /\ SumFunction(winnerFeePaid) \in Nat /\ SumFunction(winnerFeePaid') \in Nat
    <2>1. IsFiniteSet(Users) /\ \A v \in Users \ {u} : winnerFeePaid'[v] = winnerFeePaid[v]
      BY <1>1, <1>2, MarketAssumption
    <2> QED
      BY <1>2, <2>1, SumChange
  <1>4. winnerRewardPool = SumFunction(winnerFeePaid)
    BY <1>1 DEF Books, WinnerFeesRefundable
  <1>5. winnerRewardPool' = SumFunction(winnerFeePaid')
    BY <1>1, <1>2, <1>3, <1>4
  <1> QED
    BY <1>1, <1>5, ClaimBooks DEF WinnerFeesRefundable

LEMMA ClaimsBooks ==
    ASSUME TypeOK, TypeOK', Books, Claim
    PROVE  Books'
  <1>1. ASSUME NEW u \in Users, ClaimLpFees(u) PROVE Books'
    <2>1. /\ ClaimFrame /\ UNCHANGED poolVars /\ UNCHANGED positionOf
          /\ UNCHANGED <<totalLpShares, lpSharesOf>>
          /\ UNCHANGED <<finalOutcome, winnerRewardPool, winnerFeePaid>>
      BY <1>1 DEF ClaimLpFees, CollectFees, ClaimFrame, lifecycleVars, resultVars,
                  holderVars, rewardVars
    <2>2. WinnerFeesRefundable'
      BY <2>1 DEF Books, WinnerFeesRefundable
    <2> QED
      BY <2>1, <2>2, ClaimBooks
  <1>2. ASSUME NEW s \in Side, ClaimWinnerReward(s) PROVE Books'
    <2>1. /\ ClaimFrame /\ UNCHANGED poolVars /\ UNCHANGED positionOf
          /\ UNCHANGED <<totalLpShares, lpSharesOf>>
          /\ UNCHANGED finalOutcome /\ finalOutcome \in {s, "Tie"}
      BY <1>2 DEF ClaimWinnerReward, ClaimFrame, lifecycleVars, resultVars, holderVars, lpVars
    <2>2. WinnerFeesRefundable'
      BY <2>1 DEF WinnerFeesRefundable, Side
    <2> QED
      BY <2>1, <2>2, ClaimBooks
  <1>3. ASSUME NEW p \in Side, PostIntegrityBond(p) \/ ClaimIntegrityBond(p) PROVE Books'
    <2>1. UNCHANGED accountVars /\ UNCHANGED queueVars /\ finalOutcome' = finalOutcome
      BY <1>3 DEF PostIntegrityBond, ClaimIntegrityBond, ClaimFrame, lifecycleVars, resultVars
    <2> QED
      BY <2>1, BooksFrame
  <1> QED
    BY <1>1, <1>2, <1>3, RedeemBooks, SettleLpBooks, InvalidRefundBooks DEF Claim

-------------------------------------------------------------------------------
(* The theorems. *)

\* LedgerInv and the books.  The sums are not inductive alone: a quote needs
\* reserves that are naturals, and a fee taken while nobody provides liquidity
\* would be backing no position stands for.
HolderInv == LedgerInv /\ Books

LEMMA BooksInit ==
    ASSUME Init
    PROVE  Books
  <1>1. /\ reserve = [s \in Side |-> 0] /\ positionOf = [u \in Users |-> [s \in Side |-> 0]]
        /\ actions = <<>> /\ collateralBacking = 0 /\ pendingCollateral = 0
        /\ winnerRewardPool = 0 /\ winnerFeePaid = [u \in Users |-> 0]
        /\ totalLpShares = 0 /\ lpSharesOf = [u \in Users |-> 0] /\ finalOutcome = "Unset"
    BY DEF Init, LpInit
  <1>2. IsFiniteSet(Users)
    BY MarketAssumption
  <1>3. \A K : Total(actions, K) = 0
    <2> TAKE K
    <2>1. Among(actions, K) = {}
      BY <1>1 DEF Among
    <2>2. Total(actions, K) = SumFunctionOnSet([id \in {} |-> actions[id].amount], {})
      BY <2>1 DEF Total, SumFunction
    <2> QED
      BY <2>2, SumEmpty
  <1>4. \A s \in Side : HeldOn(positionOf, s) = 0
    <2> TAKE s \in Side
    <2>1. [u \in Users |-> positionOf[u][s]] = [u \in Users |-> 0]
      BY <1>1
    <2> QED
      BY <1>2, <2>1, SumZero DEF HeldOn
  <1>5. \A s \in Side : Owed(s) = 0
    BY <1>1, <1>3, <1>4 DEF Owed
  <1>6. Covered(finalOutcome, Owed("A"), Owed("B"), collateralBacking)
    BY <1>1, <1>5 DEF Covered, Side
  <1>7. SumFunction(winnerFeePaid) = 0 /\ SumFunction(lpSharesOf) = 0
    BY <1>1, <1>2, SumZero
  <1>8. PendingIds = {}
    BY <1>1 DEF PendingIds
  <1> QED
    BY <1>1, <1>3, <1>6, <1>7, <1>8 DEF Books, WinnerFeesRefundable, SharesAreBacked,
                                        NoTradeWithoutShares

LEMMA HolderStep ==
    ASSUME HolderInv, [Next]_vars
    PROVE  HolderInv'
  <1>1. LedgerInv' /\ TypeOK /\ TypeOK' /\ Books
    BY LedgerStep DEF HolderInv, LedgerInv
  <1>2. Books'
    <2>1. CASE Tick
      BY <1>1, <2>1, BooksFrame DEF Tick, lifecycleVars, resultVars
    <2>2. CASE Submit \/ ProvideLiquidity
      BY <1>1, <2>2, SubmitBooks
    <2>3. CASE \E e \in Epoch : ProcessEpoch(e)
      BY <1>1, <2>3, ProcessBooks
    <2>4. CASE Gate
      BY <1>1, <2>4, BooksFrame DEF Gate, resultVars
    <2>5. CASE Resolve
      BY <1>1, <2>5, BooksFrame, ResolveFrame
    <2>6. CASE Claim
      BY <1>1, <2>6, ClaimsBooks
    <2>7. CASE UNCHANGED vars
      BY <1>1, <2>7, BooksFrame DEF vars, lifecycleVars, resultVars
    <2> QED
      BY <2>1, <2>2, <2>3, <2>4, <2>5, <2>6, <2>7 DEF Next
  <1> QED
    BY <1>1, <1>2 DEF HolderInv

\* The books are the sums MarketSafety states.
LEMMA BooksBackHolders ==
    ASSUME TypeOK, Books
    PROVE  PositionsCollateralized /\ TotalsMatchHolders
  <1>1. actions \in Seq(Action) /\ finalOutcome \in Outcome
    BY DEF TypeOK, QueueTypeOK, ResultTypeOK
  <1>2. EscrowMatchesQueue
    <2>1. {i \in PendingIds : actions[i].kind \in {"Buy", "AddLiquidity"}}
              = Among(actions, HoldsCollateral)
      BY <1>1 DEF PendingIds, Among, HoldsCollateral
    <2> QED
      BY <2>1 DEF EscrowMatchesQueue, Books, Total
  <1>3. ASSUME NEW s \in Side PROVE Outstanding(s) = Owed(s)
    <2>1. {i \in PendingIds : actions[i].kind \in {"Sell", "Transfer"} /\ actions[i].side = s}
              = Among(actions, HoldsPositions(s))
      BY <1>1 DEF PendingIds, Among, HoldsPositions
    <2>2. Escrowed(s) = Total(actions, HoldsPositions(s))
      BY <2>1 DEF Escrowed, Total
    <2> QED
      BY <2>2 DEF Outstanding, Owed, HeldOn
  <1>4. PositionsCollateralized
    <2>1. Covered(finalOutcome, Outstanding("A"), Outstanding("B"), collateralBacking)
      BY <1>3 DEF Books, Side
    <2> QED
      BY <1>1, <2>1 DEF PositionsCollateralized, Covered, Side, Outcome
  <1> QED
    BY <1>2, <1>4 DEF TotalsMatchHolders, Books

THEOREM HolderInvariant == Spec => []HolderInv
  <1>1. Init => HolderInv
    BY LedgerInit, BooksInit DEF HolderInv
  <1>2. HolderInv /\ [Next]_vars => HolderInv'
    BY HolderStep
  <1> QED
    BY <1>1, <1>2, PTL DEF Spec

-------------------------------------------------------------------------------
(* Every claim goes through. *)

\* No account is more than the collateral the contract holds.
LEMMA AccountsHeld ==
    ASSUME LedgerInv
    PROVE  /\ \A v \in Nat : v <= collateralBacking => Covers(collateralBacking, v)
           /\ \A v \in Nat : v <= winnerRewardPool => Covers(winnerRewardPool, v)
           /\ \A v \in Nat : v <= pendingCollateral => Covers(pendingCollateral, v)
  <1>1. TypeOK /\ balance = AccountedLiabilities
    BY DEF LedgerInv, LiabilitiesMatchBalance
  <1>2. /\ collateralBacking \in Nat /\ winnerRewardPool \in Nat /\ unclaimedLpFees \in Nat
        /\ pendingCollateral \in Nat /\ totalIntegrityBondLiability \in Nat
        /\ HeldChallengeBond \in Nat
    BY <1>1 DEF TypeOK, AccountTypeOK, LpTypeOK, QueueTypeOK, BondTypeOK, ChallengeTypeOK,
                HeldChallengeBond
  <1>3. collateralBacking <= balance /\ winnerRewardPool <= balance
        /\ pendingCollateral <= balance /\ balance \in Nat
    <2>1. \A u, v, w, x, y, z \in Nat :
              /\ u <= u + v + w + x + y + z /\ v <= u + v + w + x + y + z
              /\ x <= u + v + w + x + y + z /\ u + v + w + x + y + z \in Nat
      OBVIOUS
    <2> QED
      BY <1>1, <1>2, <2>1 DEF AccountedLiabilities
  <1>4. \A v, account, all \in Nat : v <= account /\ account <= all => v <= all
    OBVIOUS
  <1> QED
    BY <1>2, <1>3, <1>4 DEF Covers

\* What somebody holds on the two sides is worth no more than the backing left.
LEMMA ValueWithinBacking ==
    ASSUME TypeOK, Books, finalOutcome # "Unset",
           NEW x \in Nat, NEW y \in Nat, x <= Owed("A"), y <= Owed("B")
    PROVE  ResolvedValue(x, y) \in Nat /\ ResolvedValue(x, y) <= collateralBacking
  <1> DEFINE a == Owed("A")
             b == Owed("B")
             c == collateralBacking
             v == ResolvedValue(x, y)
             outcome == finalOutcome
  <1>1. /\ a \in Nat /\ b \in Nat /\ c \in Nat /\ x <= a /\ y <= b
        /\ outcome \in Outcome \ {"Unset"} /\ Covered(outcome, a, b, c)
    BY OwedNat DEF TypeOK, AccountTypeOK, ResultTypeOK, Side, Books
  <1>2. /\ v \in Nat
        /\ outcome = "A" => v = x
        /\ outcome = "B" => v = y
        /\ outcome \notin Side => 2 * v <= x + y
    <2>1. v \in Nat
      BY ResolvedValueNat
    <2>2. 2 * ((x + y) \div 2) <= x + y
      BY DivBounds
    <2> QED
      BY <2>1, <2>2 DEF ResolvedValue, Side
  <1> HIDE DEF a, b, c, v, outcome
  <1>3. v <= c
    BY <1>1, <1>2 DEF Covered, Outcome, Side
  <1> QED
    BY <1>2, <1>3 DEF v, c

LEMMA PartsOfOwed ==
    ASSUME TypeOK
    PROVE  \A s \in Side : /\ \A n \in Nat : n <= reserve[s] => n <= Owed(s)
                           /\ \A u \in Users : positionOf[u][s] \in Nat
                                                /\ positionOf[u][s] <= Owed(s)
  <1> SUFFICES ASSUME NEW s \in Side
               PROVE  /\ \A n \in Nat : n <= reserve[s] => n <= Owed(s)
                      /\ \A u \in Users : positionOf[u][s] \in Nat
                                           /\ positionOf[u][s] <= Owed(s)
    OBVIOUS
  <1> DEFINE r == reserve[s]
             h == HeldOn(positionOf, s)
             t == Total(actions, HoldsPositions(s))
  <1>1. r \in Nat /\ h \in Nat /\ t \in Nat /\ Owed(s) = r + h + t
    BY OwedNat DEF Owed
  <1>2. ASSUME NEW u \in Users PROVE positionOf[u][s] \in Nat /\ positionOf[u][s] <= h
    <2>1. positionOf \in [Users -> [Side -> Nat]]
      BY DEF TypeOK, AccountTypeOK
    <2> QED
      BY <2>1, HeldChange
  <1>3. \A n \in Nat : (n <= r => n <= r + h + t) /\ (n <= h => n <= r + h + t)
    <2> HIDE DEF r, h, t
    <2> QED
      BY <1>1
  <1> QED
    BY <1>1, <1>2, <1>3

\* The winner rewards and the refunds of an Invalid market are in the reward pool.
LEMMA RewardsInPool ==
    ASSUME TypeOK, Books
    PROVE  /\ \A s \in Side : WinnerPayout(s) \in Nat /\ WinnerPayout(s) <= winnerRewardPool
           /\ \A u \in Users : finalOutcome = "Invalid" =>
                  winnerFeePaid[u] \in Nat /\ winnerFeePaid[u] <= winnerRewardPool
  <1>1. winnerRewardPool \in Nat /\ winnerFeePaid \in [Users -> Nat]
    BY DEF TypeOK, AccountTypeOK
  <1>2. winnerRewardPool \div 2 \in Nat /\ winnerRewardPool \div 2 <= winnerRewardPool
    <2>1. winnerRewardPool \div 2 \in Nat /\ 2 * (winnerRewardPool \div 2) <= winnerRewardPool
      BY <1>1, DivBounds
    <2> DEFINE half == winnerRewardPool \div 2
    <2> HIDE DEF half
    <2>2. half \in Nat /\ 2 * half <= winnerRewardPool
      BY <2>1 DEF half
    <2>3. half <= winnerRewardPool
      BY <1>1, <2>2
    <2> QED
      BY <2>2, <2>3 DEF half
  <1>3. \A s \in Side : WinnerPayout(s) \in Nat /\ WinnerPayout(s) <= winnerRewardPool
    BY <1>1, <1>2 DEF WinnerPayout
  <1>4. \A u \in Users : winnerFeePaid[u] \in Nat /\ winnerFeePaid[u] <= SumFunction(winnerFeePaid)
    BY <1>1, MarketAssumption, SumChange
  <1> QED
    BY <1>3, <1>4 DEF Books, WinnerFeesRefundable

\* What a provider's shares stand for is in the reserves.
LEMMA InventoryWithin ==
    ASSUME TypeOK, Books, NEW u \in Users, lpSharesOf[u] # 0
    PROVE  /\ lpSharesOf[u] <= totalLpShares
           /\ \A s \in Side : /\ InventoryShare(u, s) \in Nat
                              /\ InventoryShare(u, s) <= reserve[s]
  <1>1. /\ lpSharesOf \in [Users -> Nat] /\ totalLpShares \in Nat
        /\ reserve \in [Side -> Nat] /\ IsFiniteSet(Users)
    BY MarketAssumption DEF TypeOK, AccountTypeOK, LpTypeOK
  <1>2. lpSharesOf[u] <= SumFunction(lpSharesOf)
    BY <1>1, SumChange
  <1>3. lpSharesOf[u] <= totalLpShares /\ totalLpShares \in Nat \ {0}
    BY <1>1, <1>2 DEF Books, SharesAreBacked
  <1> QED
    BY <1>1, <1>3, MulDivNat, MulDivShare DEF InventoryShare

\* Once the result is final every holder can take what is owed, in any order.
LEMMA BooksPayClaims ==
    ASSUME HolderInv
    PROVE  ClaimsGoThrough
  <1>1. TypeOK /\ Books /\ LedgerInv
    BY DEF HolderInv, LedgerInv
  <1> SUFFICES ASSUME finalOutcome # "Unset"
               PROVE  /\ \A u \in Users :
                           /\ Covers(collateralBacking,
                                     ResolvedValue(positionOf[u]["A"], positionOf[u]["B"]))
                           /\ lpSharesOf[u] # 0 =>
                                /\ lpSharesOf[u] <= totalLpShares
                                /\ \A s \in Side : InventoryShare(u, s) <= reserve[s]
                                /\ Covers(collateralBacking,
                                     ResolvedValue(InventoryShare(u, "A"), InventoryShare(u, "B")))
                           /\ finalOutcome = "Invalid" => Covers(winnerRewardPool, winnerFeePaid[u])
                      /\ \A s \in Side : Covers(winnerRewardPool, WinnerPayout(s))
    BY DEF ClaimsGoThrough
  <1>2. ASSUME NEW u \in Users
        PROVE  Covers(collateralBacking, ResolvedValue(positionOf[u]["A"], positionOf[u]["B"]))
    <2> DEFINE x == positionOf[u]["A"]
               y == positionOf[u]["B"]
    <2>1. x \in Nat /\ y \in Nat /\ x <= Owed("A") /\ y <= Owed("B")
      BY <1>1, PartsOfOwed DEF Side
    <2> HIDE DEF x, y
    <2>2. ResolvedValue(x, y) \in Nat /\ ResolvedValue(x, y) <= collateralBacking
      BY <1>1, <2>1, ValueWithinBacking
    <2>3. Covers(collateralBacking, ResolvedValue(x, y))
      BY <1>1, <2>2, AccountsHeld
    <2> QED
      BY <2>3 DEF x, y
  <1>3. ASSUME NEW u \in Users, lpSharesOf[u] # 0
        PROVE  Covers(collateralBacking,
                      ResolvedValue(InventoryShare(u, "A"), InventoryShare(u, "B")))
    <2> DEFINE x == InventoryShare(u, "A")
               y == InventoryShare(u, "B")
    <2>1. x \in Nat /\ y \in Nat /\ x <= Owed("A") /\ y <= Owed("B")
      BY <1>1, <1>3, InventoryWithin, PartsOfOwed DEF Side
    <2> HIDE DEF x, y
    <2>2. ResolvedValue(x, y) \in Nat /\ ResolvedValue(x, y) <= collateralBacking
      BY <1>1, <2>1, ValueWithinBacking
    <2>3. Covers(collateralBacking, ResolvedValue(x, y))
      BY <1>1, <2>2, AccountsHeld
    <2> QED
      BY <2>3 DEF x, y
  <1>4. ASSUME NEW u \in Users, lpSharesOf[u] # 0
        PROVE  lpSharesOf[u] <= totalLpShares
               /\ \A s \in Side : InventoryShare(u, s) <= reserve[s]
    BY <1>1, <1>4, InventoryWithin
  <1>5. /\ \A u \in Users : finalOutcome = "Invalid" => Covers(winnerRewardPool, winnerFeePaid[u])
        /\ \A s \in Side : Covers(winnerRewardPool, WinnerPayout(s))
    BY <1>1, AccountsHeld, RewardsInPool
  <1> QED
    BY <1>2, <1>3, <1>4, <1>5

\* The collateral held is what the market's accounts add up to,
\* every outcome position is collateralized before and after the result, the
\* escrow is what the pending actions hold, the winner reward pool is what the
\* fee payers could be refunded, the shares stand for reserves on both sides, and
\* after the result no claim on the backing or the reward pool reverts.
THEOREM HoldersBacked == Spec => []HoldersAreBacked
  <1>1. HolderInv => HoldersAreBacked
    BY BooksBackHolders, BooksPayClaims DEF HolderInv, LedgerInv, HoldersAreBacked
  <1> QED
    BY <1>1, HolderInvariant, PTL

-------------------------------------------------------------------------------
(* Nothing is released before the result is final. *)

\* A result stands; before there is one no reward, share or bond is paid, and the
\* backing falls only by an action that is executed.
ReleasesNothing ==
    /\ finalOutcome # "Unset" => finalOutcome' = finalOutcome
    /\ finalOutcome = "Unset" =>
         /\ winnerRewardPool' >= winnerRewardPool
         /\ totalLpShares' >= totalLpShares
         /\ totalIntegrityBondLiability' >= totalIntegrityBondLiability
         /\ collateralBacking' < collateralBacking => actions' # actions

LEMMA MoneyNat ==
    ASSUME TypeOK
    PROVE  /\ winnerRewardPool \in Nat /\ totalLpShares \in Nat
           /\ totalIntegrityBondLiability \in Nat /\ collateralBacking \in Nat
  BY DEF TypeOK, AccountTypeOK, LpTypeOK, BondTypeOK

\* A step that moves none of these accounts.
LEMMA StillReleasesNothing ==
    ASSUME TypeOK, finalOutcome' = finalOutcome \/ finalOutcome = "Unset",
           winnerRewardPool' = winnerRewardPool, totalLpShares' = totalLpShares,
           totalIntegrityBondLiability' = totalIntegrityBondLiability,
           collateralBacking' = collateralBacking
    PROVE  ReleasesNothing
  BY MoneyNat DEF ReleasesNothing

\* An executed action: its fee joins the reward pool, its shares are minted, and
\* the backing it may take is that of an action that leaves the queue.
LEMMA ProcessReleasesNothing ==
    ASSUME TypeOK, NEW e \in Epoch, ProcessEpoch(e)
    PROVE  ReleasesNothing
  <1> DEFINE id == NextId(e)
             a == actions[id]
  <1>1. id \in DOMAIN actions
    <2>1. /\ epochActionIds[e] \in Seq(DOMAIN actions) /\ epochCursor[e] \in Nat
          /\ epochCursor[e] < Len(epochActionIds[e])
      BY DEF ProcessEpoch, HasNext, TypeOK, QueueTypeOK
    <2>2. epochCursor[e] + 1 \in 1 .. Len(epochActionIds[e])
      BY <2>1
    <2> QED
      BY <2>1, <2>2 DEF NextId
  <1>2. /\ a.status = "Pending"
        /\ \/ Executes(e, a) /\ Execute(a) /\ Settle(e, id, "Executed")
           \/ Refund(a) /\ Settle(e, id, "Refunded")
    BY DEF ProcessEpoch
  <1>3. PICK status \in {"Executed", "Refunded"} : Settle(e, id, status)
    BY <1>2
  <1>4. a \in Action
    BY <1>1 DEF TypeOK, QueueTypeOK
  <1> HIDE DEF id
  <1>5. actions' # actions
    <2>1. actions' = [actions EXCEPT ![id] = [actions[id] EXCEPT !.status = status]]
      BY <1>3 DEF Settle
    <2>2. actions'[id].status = status
      BY <1>1, <1>4, <2>1 DEF Action
    <2> QED
      BY <1>2, <2>2
  <1>6. UNCHANGED <<finalOutcome, totalIntegrityBondLiability>>
    BY <1>3 DEF Settle, lifecycleVars, resultVars, bondVars
  <1>7. \/ Computable(a) /\ Execute(a)
        \/ Refund(a)
    BY <1>2 DEF Executes
  <1> HIDE DEF a
  <1>8. winnerRewardPool' >= winnerRewardPool /\ totalLpShares' >= totalLpShares
    <2>1. CASE ExecuteBuy(a)
      <3> DEFINE q == BuyQuote(a)
                 x == reserve[a.side]
                 y == reserve[Other(a.side)]
                 b == a.amount
      <3>1. q = QuoteBuy(x, y, b)
        BY DEF BuyQuote
      <3>2. x \in Nat /\ y \in Nat /\ b \in Nat \ {0}
        BY <1>4, OtherSide DEF Action, TypeOK, AccountTypeOK
      <3>3. /\ winnerRewardPool' = winnerRewardPool + q.winnerRewardFee
            /\ totalLpShares' = totalLpShares
        BY <2>1 DEF ExecuteBuy, DistributeLpFee
      <3> HIDE DEF q, x, y, b
      <3>4. SoundBuy(q, x, y, b)
        BY <3>1, <3>2, QuoteBuySound
      <3>5. q.winnerRewardFee \in Nat
        BY <3>4 DEF SoundBuy
      <3> QED
        BY <3>3, <3>5, MoneyNat
    <2>2. CASE Computable(a) /\ ExecuteAddLiquidity(a)
      <3>1. SharesFor(a) \in Nat
        <4>1. a.kind = "AddLiquidity" /\ Computable(a)
          BY <2>2 DEF ExecuteAddLiquidity
        <4> QED
          BY <1>4, <4>1, DepositSplit
      <3>2. /\ totalLpShares' = totalLpShares + SharesFor(a)
            /\ winnerRewardPool' = winnerRewardPool
        BY <2>2 DEF ExecuteAddLiquidity, MintShares, rewardVars
      <3> QED
        BY <3>1, <3>2, MoneyNat
    <2>3. CASE ExecuteSell(a) \/ ExecuteTransfer(a) \/ Refund(a)
      <3>1. winnerRewardPool' = winnerRewardPool /\ totalLpShares' = totalLpShares
        BY <2>3 DEF ExecuteSell, ExecuteTransfer, Refund, RefundCollateral, RefundPosition,
                    DistributeLpFee, accountVars, lpVars, rewardVars
      <3> QED
        BY <3>1, MoneyNat
    <2> QED
      BY <1>7, <2>1, <2>2, <2>3 DEF Execute
  <1> QED
    BY <1>5, <1>6, <1>8, MoneyNat DEF ReleasesNothing

\* Inventory, rewards, refunds and bonds are paid only after the result; fees are
\* what providers have earned, and a bond that is posted adds to the liability.
LEMMA ClaimReleasesNothing ==
    ASSUME TypeOK, Claim
    PROVE  ReleasesNothing
  <1>1. UNCHANGED finalOutcome
    BY DEF Claim, ClaimLpFees, RedeemPositions, SettleLpInventory, ClaimWinnerReward,
           ClaimInvalidWinnerFeeRefund, PostIntegrityBond, ClaimIntegrityBond,
           ClaimFrame, lifecycleVars, resultVars
  <1>2. CASE finalOutcome # "Unset"
    BY <1>1, <1>2 DEF ReleasesNothing
  <1>3. CASE finalOutcome = "Unset"
    <2>1. \/ \E u \in Users : ClaimLpFees(u)
          \/ \E p \in Side : PostIntegrityBond(p)
      BY <1>3 DEF Claim, RedeemPositions, SettleLpInventory, ClaimWinnerReward,
                  ClaimInvalidWinnerFeeRefund, ClaimIntegrityBond, Side
    <2>2. ASSUME NEW u \in Users, ClaimLpFees(u) PROVE ReleasesNothing
      <3>1. UNCHANGED <<winnerRewardPool, totalLpShares, totalIntegrityBondLiability,
                        collateralBacking>>
        BY <2>2 DEF ClaimLpFees, CollectFees, bondVars, poolVars, rewardVars
      <3> QED
        BY <1>1, <3>1, StillReleasesNothing
    <2>3. ASSUME NEW p \in Side, PostIntegrityBond(p) PROVE ReleasesNothing
      <3>1. /\ UNCHANGED <<winnerRewardPool, totalLpShares, collateralBacking>>
            /\ totalIntegrityBondLiability' = totalIntegrityBondLiability + INTEGRITY_BOND
        BY <2>3 DEF PostIntegrityBond, accountVars, lpVars, poolVars, rewardVars
      <3>2. INTEGRITY_BOND \in Nat
        BY MarketAssumption
      <3> QED
        BY <1>1, <3>1, <3>2, MoneyNat DEF ReleasesNothing
    <2> QED
      BY <2>1, <2>2, <2>3
  <1> QED
    BY <1>2, <1>3

LEMMA StepReleasesNothing ==
    ASSUME TypeOK, [Next]_vars
    PROVE  ReleasesNothing
  <1>1. CASE Resolve
    <2>1. ResolutionFrame /\ (finalOutcome' = finalOutcome \/ finalOutcome = "Unset")
      BY <1>1, ResolveFrame
         DEF Resolve, AttestResult, ChallengeResult, AttestChallengeVerdict,
             FinalizeUnchallenged, ExpireChallenge, InvalidateUnresolved
    <2> QED
      BY <2>1, StillReleasesNothing
         DEF ResolutionFrame, bondVars, accountVars, lpVars, poolVars, rewardVars
  <1>2. CASE Submit \/ ProvideLiquidity
    <2>1. UNCHANGED SubmitVars
      BY <1>2 DEF Submit, ProvideLiquidity, SubmitBuy, SubmitSell, SubmitPositionTransfer,
                  SubmitAddLiquidity
    <2> QED
      BY <2>1, StillReleasesNothing
         DEF SubmitVars, lifecycleVars, resultVars, bondVars, lpVars, poolVars, rewardVars
  <1>3. CASE Tick \/ Gate \/ UNCHANGED vars
    BY <1>3, StillReleasesNothing
       DEF Tick, Gate, vars, lifecycleVars, resultVars, bondVars, accountVars, lpVars,
           poolVars, rewardVars
  <1>4. CASE \E e \in Epoch : ProcessEpoch(e)
    BY <1>4, ProcessReleasesNothing
  <1>5. CASE Claim
    BY <1>5, ClaimReleasesNothing
  <1> QED
    BY <1>1, <1>2, <1>3, <1>4, <1>5 DEF Next

\* "A Provisional Result releases no Collateral, reward, bond, or LP settlement":
\* until the result is final the reward pool, the shares and the bonds never
\* shrink and the backing only with an executed action; then the result stands.
THEOREM NothingReleased == Spec => NothingReleasedBeforeFinal
  <1>1. TypeOK /\ [Next]_vars => [ReleasesNothing]_vars
    BY StepReleasesNothing
  <1> QED
    BY <1>1, TypeCorrect, PTL DEF Spec, NothingReleasedBeforeFinal, ReleasesNothing

-------------------------------------------------------------------------------
(* The lifecycle: clearances, settlement, forecasting close, the result. *)

\* Only epochs that have ended are ever cleared.
ClearedEpochsEnded == \A e \in Epoch : EpochSafe(e) => e < CurrentEpoch

GateInv == SafeBeforeDecisive /\ ClearedEpochsEnded

\* Everything outside the gate leaves it alone.
LEMMA GateFrame ==
    ASSUME [Next]_vars, ~Gate
    PROVE  UNCHANGED gateVars
  BY DEF Next, vars, Tick, Submit, ProvideLiquidity, SubmitBuy, SubmitSell,
         SubmitPositionTransfer, SubmitAddLiquidity, SubmitVars, ProcessEpoch, Settle,
         Resolve, ResolutionFrame, AttestResult, ChallengeResult, AttestChallengeVerdict,
         FinalizeUnchallenged, ExpireChallenge, InvalidateUnresolved,
         Claim, ClaimLpFees, RedeemPositions, SettleLpInventory, ClaimWinnerReward,
         ClaimInvalidWinnerFeeRefund, PostIntegrityBond, ClaimIntegrityBond,
         ClaimFrame, lifecycleVars

\* The clock never turns back.
LEMMA ClockAdvances ==
    ASSUME TypeOK, [Next]_vars
    PROVE  now <= now' /\ now' \in Nat /\ now \in Nat /\ CurrentEpoch <= CurrentEpoch'
           /\ CurrentEpoch \in Nat /\ CurrentEpoch' \in Nat
  <1>1. now \in Nat /\ (now' = now \/ now' = now + 1)
    BY MarketAssumption DEF TypeOK, Next, vars, Tick, Submit, ProvideLiquidity, SubmitBuy,
         SubmitSell, SubmitPositionTransfer, SubmitAddLiquidity, SubmitVars, ProcessEpoch,
         Settle, Gate, Resolve, ResolutionFrame, AttestResult, ChallengeResult,
         AttestChallengeVerdict, FinalizeUnchallenged, ExpireChallenge,
         InvalidateUnresolved, Claim, ClaimLpFees, RedeemPositions, SettleLpInventory,
         ClaimWinnerReward, ClaimInvalidWinnerFeeRefund, PostIntegrityBond,
         ClaimIntegrityBond, ClaimFrame
  <1> DEFINE t == now'
  <1>2. t \in Nat /\ now <= t
    BY <1>1
  <1>3. CurrentEpoch' = t \div EpochDuration
    BY DEF CurrentEpoch
  <1> HIDE DEF t
  <1>4. CurrentEpoch <= CurrentEpoch' /\ CurrentEpoch \in Nat /\ CurrentEpoch' \in Nat
    BY <1>1, <1>2, <1>3, DivMonotone, DivBounds, MarketAssumption DEF CurrentEpoch
  <1> QED
    BY <1>1, <1>2, <1>4 DEF t

LEMMA GateStep ==
    ASSUME TypeOK, GateInv, [Next]_vars
    PROVE  GateInv'
  <1>0. /\ SafeBeforeDecisive /\ ClearedEpochsEnded /\ GateTypeOK
        /\ Epoch \subseteq Nat
    BY DEF GateInv, TypeOK, Epoch
  <1>1. CASE ~Gate
    <2>1. UNCHANGED gateVars
      BY <1>1, GateFrame
    <2>2. SafeBeforeDecisive'
      BY <1>0, <2>1 DEF SafeBeforeDecisive, EpochSafe, gateVars
    <2>3. ClearedEpochsEnded'
      <3>1. \A e \in Nat : e < CurrentEpoch => e < CurrentEpoch'
        <4> DEFINE c == CurrentEpoch
                   d == CurrentEpoch'
        <4>1. c <= d /\ c \in Nat /\ d \in Nat
          BY ClockAdvances
        <4> HIDE DEF c, d
        <4>2. \A e \in Nat : e < c => e < d
          BY <4>1
        <4> QED
          BY <4>2 DEF c, d
      <3>2. \A e \in Epoch : EpochSafe(e)' = EpochSafe(e)
        BY <2>1 DEF EpochSafe, gateVars
      <3> QED
        BY <1>0, <3>1, <3>2 DEF ClearedEpochsEnded
    <2> QED
      BY <2>2, <2>3 DEF GateInv
  <1>2. CASE Gate
    <2>1. PICK seq \in SourceSequences :
             \/ \E e \in Epoch : MarkEpochSafe(e, seq)
             \/ SuspendGate(seq)
             \/ ReopenGate(seq)
             \/ CloseForDecisiveEvent(seq)
      BY <1>2 DEF Gate
    <2>2. /\ seq \in Nat \ {0} /\ now' = now /\ CurrentEpoch \in Nat
          /\ CurrentEpoch' = CurrentEpoch
      BY <1>2, MarketAssumption, CurrentEpochType DEF Gate, CurrentEpoch, TypeOK
    <2>3. ASSUME NEW e \in Epoch, MarkEpochSafe(e, seq)
          PROVE  GateInv'
      <3>1. /\ e < CurrentEpoch /\ seq > lastSafeSequence /\ ~EpochSafe(e)
            /\ gateState = "Closed" => e < closedEpoch /\ seq < decisiveSequence
            /\ epochSafeSequence' = [epochSafeSequence EXCEPT ![e] = seq]
            /\ lastSafeSequence' = seq
            /\ UNCHANGED <<gateState, closedEpoch, decisiveSequence>>
        BY <2>3 DEF MarkEpochSafe
      <3>2. \A f \in Epoch : epochSafeSequence'[f]
                                 = IF f = e THEN seq ELSE epochSafeSequence[f]
        BY <1>0, <3>1 DEF GateTypeOK
      <3>3. \A f \in Epoch : epochSafeSequence[f] \in Nat /\ epochSafeSequence[f] < seq
        BY <1>0, <2>2, <3>1 DEF SafeBeforeDecisive, GateTypeOK
      <3>4. \A f \in Epoch : epochSafeSequence'[f] <= lastSafeSequence'
        BY <2>2, <3>1, <3>2, <3>3
      <3>5. \A f, g \in Epoch : EpochSafe(f)' /\ f # g =>
                epochSafeSequence'[f] # epochSafeSequence'[g]
        BY <1>0, <2>2, <3>2, <3>3 DEF SafeBeforeDecisive, EpochSafe
      <3>6. gateState' = "Closed" =>
                /\ lastSafeSequence' < decisiveSequence'
                /\ \A f \in Epoch : EpochSafe(f)' => f < closedEpoch'
        BY <1>0, <3>1, <3>2 DEF SafeBeforeDecisive, EpochSafe
      <3>7. ClearedEpochsEnded'
        BY <1>0, <2>2, <3>1, <3>2 DEF ClearedEpochsEnded, EpochSafe
      <3> QED
        BY <3>4, <3>5, <3>6, <3>7 DEF GateInv, SafeBeforeDecisive
    <2>4. ASSUME \/ SuspendGate(seq)
                 \/ ReopenGate(seq)
          PROVE  GateInv'
      <3>1. /\ gateState' # "Closed" /\ epochSafeSequence' = epochSafeSequence
            /\ lastSafeSequence' \in Nat /\ lastSafeSequence <= lastSafeSequence'
        BY <1>0, <2>2, <2>4 DEF SuspendGate, ReopenGate, GateTypeOK
      <3>2. \A f \in Epoch : epochSafeSequence[f] \in Nat
                /\ epochSafeSequence[f] <= lastSafeSequence /\ lastSafeSequence \in Nat
        BY <1>0 DEF SafeBeforeDecisive, GateTypeOK
      <3>3. \A f \in Epoch : epochSafeSequence'[f] <= lastSafeSequence'
        <4> DEFINE l == lastSafeSequence'
        <4>1. l \in Nat /\ lastSafeSequence <= l
          BY <3>1
        <4> HIDE DEF l
        <4>2. \A f \in Epoch : epochSafeSequence[f] <= l
          BY <3>2, <4>1
        <4> QED
          BY <3>1, <4>2 DEF l
      <3> QED
        BY <1>0, <2>2, <3>1, <3>3 DEF GateInv, SafeBeforeDecisive, ClearedEpochsEnded, EpochSafe
    <2>5. ASSUME CloseForDecisiveEvent(seq)
          PROVE  GateInv'
      BY <1>0, <2>2, <2>5 DEF CloseForDecisiveEvent, GateInv, SafeBeforeDecisive,
         ClearedEpochsEnded, EpochSafe
    <2> QED
      BY <2>1, <2>3, <2>4, <2>5
  <1> QED
    BY <1>1, <1>2

LEMMA GateInit ==
    ASSUME Init
    PROVE  GateInv
  BY DEF Init, GateInv, SafeBeforeDecisive, ClearedEpochsEnded, EpochSafe

\* Attestations are monotonic statements about the source, and nothing at or past
\* the decisive event, or in its epoch, is ever cleared.
THEOREM GateSafe == Spec => []SafeBeforeDecisive
  <1>1. Init => GateInv
    BY GateInit
  <1>2. TypeOK /\ GateInv /\ [Next]_vars => GateInv'
    BY GateStep
  <1>3. GateInv => SafeBeforeDecisive
    BY DEF GateInv
  <1> QED
    BY <1>1, <1>2, <1>3, TypeCorrect, PTL DEF Spec

\* What GateIsMonotone says of one step.
LEMMA GateMonotoneStep ==
    ASSUME TypeOK, [Next]_vars
    PROVE  /\ lastSafeSequence' >= lastSafeSequence
           /\ \A e \in Epoch : EpochSafe(e) => epochSafeSequence'[e] = epochSafeSequence[e]
           /\ gateState = "Closed" =>
                gateState' = "Closed" /\ closedEpoch' = closedEpoch
                    /\ decisiveSequence' = decisiveSequence
  <1>1. CASE ~Gate
    BY <1>1, GateFrame DEF gateVars, TypeOK, GateTypeOK
  <1>2. CASE Gate
    <2>1. PICK seq \in SourceSequences :
             \/ \E e \in Epoch : MarkEpochSafe(e, seq)
             \/ SuspendGate(seq)
             \/ ReopenGate(seq)
             \/ CloseForDecisiveEvent(seq)
      BY <1>2 DEF Gate
    <2>2. seq \in Nat
      BY MarketAssumption
    <2>3. CASE \E e \in Epoch : MarkEpochSafe(e, seq)
      BY <2>2, <2>3 DEF MarkEpochSafe, TypeOK, GateTypeOK, EpochSafe
    <2>4. CASE SuspendGate(seq)
      BY <2>2, <2>4 DEF SuspendGate, TypeOK, GateTypeOK
    <2>5. CASE ReopenGate(seq)
      BY <2>2, <2>5 DEF ReopenGate, TypeOK, GateTypeOK
    <2>6. CASE CloseForDecisiveEvent(seq)
      BY <2>2, <2>6 DEF CloseForDecisiveEvent, TypeOK, GateTypeOK
    <2> QED
      BY <2>1, <2>3, <2>4, <2>5, <2>6
  <1> QED
    BY <1>1, <1>2

\* Forecasting close is irreversible, the watermark never moves back and a
\* cleared epoch stays cleared at its sequence, whatever the gate submits.
THEOREM GateMonotone == Spec => GateIsMonotone
  <1>1. TypeOK /\ [Next]_vars =>
          /\ lastSafeSequence' >= lastSafeSequence
          /\ \A e \in Epoch : EpochSafe(e) => epochSafeSequence'[e] = epochSafeSequence[e]
          /\ gateState = "Closed" =>
               gateState' = "Closed" /\ closedEpoch' = closedEpoch
                   /\ decisiveSequence' = decisiveSequence
    BY GateMonotoneStep
  <1> QED
    BY <1>1, TypeCorrect, PTL DEF Spec, GateIsMonotone

-------------------------------------------------------------------------------
(* The queue. *)

orderVars == <<actions, epochActionIds, epochCursor>>

LEMMA QueueUntouched ==
    ASSUME Tick \/ Gate \/ Resolve \/ Claim \/ UNCHANGED vars
    PROVE  UNCHANGED orderVars
  BY DEF vars, Tick, Gate, Resolve, ResolutionFrame, AttestResult, ChallengeResult,
         AttestChallengeVerdict, FinalizeUnchallenged, ExpireChallenge,
         InvalidateUnresolved, Claim, ClaimLpFees, RedeemPositions, SettleLpInventory,
         ClaimWinnerReward, ClaimInvalidWinnerFeeRefund, PostIntegrityBond,
         ClaimIntegrityBond, ClaimFrame, queueVars, orderVars

LEMMA SubmitRecords ==
    ASSUME TypeOK, Submit \/ ProvideLiquidity
    PROVE  \E action \in Action :
              /\ action.epoch = CurrentEpoch /\ action.status = "Pending"
              /\ RecordAction(action)
  <1>1. ASSUME NEW kind \in {"Buy", "Sell", "AddLiquidity", "Transfer"}, NEW u \in Users,
               NEW to \in Users, NEW s \in Side, NEW amount \in Nat \ {0},
               NEW minimum \in Nat, NEW delay \in DeadlineDelays,
               RecordAction(NewAction(kind, u, to, s, amount, minimum, now + delay))
        PROVE  \E action \in Action :
                  /\ action.epoch = CurrentEpoch /\ action.status = "Pending"
                  /\ RecordAction(action)
    <2> DEFINE a == NewAction(kind, u, to, s, amount, minimum, now + delay)
    <2>1. a \in Action /\ a.epoch = CurrentEpoch /\ a.status = "Pending"
      BY NewActionType DEF NewAction
    <2> HIDE DEF a
    <2> QED
      BY <1>1, <2>1 DEF a
  <1>2. /\ BuyAmounts \subseteq Nat \ {0} /\ LiquidityAmounts \subseteq Nat \ {0}
        /\ PositionAmounts \subseteq Nat \ {0} /\ MinimumReturns \subseteq Nat
        /\ 0 \in Nat /\ "B" \in Side
    BY MarketAssumption DEF Side
  <1>3. CASE Submit
    <2>1. PICK u \in Users, s \in Side, delay \in DeadlineDelays :
            \/ \E budget \in BuyAmounts, minimum \in MinimumReturns :
                  SubmitBuy(u, s, budget, minimum, now + delay)
            \/ \E amount \in PositionAmounts, minimum \in MinimumReturns :
                  SubmitSell(u, s, amount, minimum, now + delay)
            \/ \E to \in Users \ {u}, amount \in PositionAmounts :
                  SubmitPositionTransfer(u, to, s, amount, now + delay)
      BY <1>3 DEF Submit
    <2>2. CASE \E budget \in BuyAmounts, minimum \in MinimumReturns :
                  SubmitBuy(u, s, budget, minimum, now + delay)
      BY <1>1, <1>2, <2>2 DEF SubmitBuy
    <2>3. CASE \E amount \in PositionAmounts, minimum \in MinimumReturns :
                  SubmitSell(u, s, amount, minimum, now + delay)
      BY <1>1, <1>2, <2>3 DEF SubmitSell
    <2>4. CASE \E to \in Users \ {u}, amount \in PositionAmounts :
                  SubmitPositionTransfer(u, to, s, amount, now + delay)
      BY <1>1, <1>2, <2>4 DEF SubmitPositionTransfer
    <2> QED
      BY <2>1, <2>2, <2>3, <2>4
  <1>4. CASE ProvideLiquidity
    BY <1>1, <1>2, <1>4 DEF ProvideLiquidity, SubmitAddLiquidity
  <1> QED
    BY <1>3, <1>4

\* What CursorSeparates says of one epoch.
Separated(e) ==
    /\ epochCursor[e] <= Len(epochActionIds[e])
    /\ \A i \in 1 .. Len(epochActionIds[e]) :
         /\ epochActionIds[e][i] \in DOMAIN actions
         /\ actions[epochActionIds[e][i]].epoch = e
         /\ actions[epochActionIds[e][i]].status = "Pending" <=> i > epochCursor[e]
         /\ \A j \in 1 .. i - 1 : epochActionIds[e][j] < epochActionIds[e][i]

LEMMA SeparatedAll == CursorSeparates <=> \A e \in Epoch : Separated(e)
  BY DEF CursorSeparates, Separated

\* A new action takes the last place of the current epoch, and the next id.
LEMMA RecordSeparates ==
    ASSUME TypeOK, CursorSeparates, NEW action \in Action, action.epoch = CurrentEpoch,
           action.status = "Pending", RecordAction(action)
    PROVE  CursorSeparates'
  <1>1. /\ actions \in Seq(Action) /\ Len(actions) \in Nat
        /\ epochActionIds \in [Epoch -> Seq(DOMAIN actions)]
        /\ epochCursor \in [Epoch -> Nat] /\ CurrentEpoch \in Epoch
        /\ DOMAIN actions = 1 .. Len(actions)
    BY CurrentEpochType DEF TypeOK, QueueTypeOK
  <1>2. /\ actions' = Append(actions, action) /\ epochCursor' = epochCursor
        /\ epochActionIds' = [epochActionIds EXCEPT ![CurrentEpoch] =
                                 Append(@, Len(actions) + 1)]
    BY DEF RecordAction
  <1>3. /\ DOMAIN actions' = 1 .. (Len(actions) + 1)
        /\ \A id \in DOMAIN actions : actions'[id] = actions[id]
        /\ actions'[Len(actions) + 1] = action
    BY <1>1, <1>2
  <1>4. SUFFICES ASSUME NEW e \in Epoch PROVE Separated(e)'
    BY DEF CursorSeparates, Separated
  <1>5. Separated(e) /\ epochActionIds[e] \in Seq(1 .. Len(actions)) /\ epochCursor[e] \in Nat
    BY <1>1, SeparatedAll
  <1>6. CASE e # CurrentEpoch
    <2>1. epochActionIds'[e] = epochActionIds[e]
      BY <1>1, <1>2, <1>6
    <2> QED
      BY <1>1, <1>2, <1>3, <1>5, <2>1 DEF Separated
  <1>7. CASE e = CurrentEpoch
    <2> DEFINE ids == epochActionIds[e]
               new == Len(actions) + 1
    <2>1. epochActionIds'[e] = Append(ids, new)
      BY <1>1, <1>2, <1>7
    <2>2. /\ ids \in Seq(1 .. Len(actions)) /\ Len(ids) \in Nat /\ new \in Nat
          /\ Len(Append(ids, new)) = Len(ids) + 1
          /\ \A i \in 1 .. Len(ids) : Append(ids, new)[i] = ids[i] /\ ids[i] \in 1 .. Len(actions)
          /\ Append(ids, new)[Len(ids) + 1] = new
      BY <1>1, <1>5
    <2> HIDE DEF ids
    <2>3. /\ epochCursor[e] <= Len(ids)
          /\ \A i \in 1 .. Len(ids) :
               /\ actions[ids[i]].epoch = e
               /\ actions[ids[i]].status = "Pending" <=> i > epochCursor[e]
               /\ \A j \in 1 .. i - 1 : ids[j] < ids[i]
      BY <1>5 DEF Separated, ids
    <2>4. ASSUME NEW i \in 1 .. Len(ids) + 1
          PROVE  /\ Append(ids, new)[i] \in DOMAIN actions'
                 /\ actions'[Append(ids, new)[i]].epoch = e
                 /\ actions'[Append(ids, new)[i]].status = "Pending" <=> i > epochCursor[e]
                 /\ \A j \in 1 .. i - 1 : Append(ids, new)[j] < Append(ids, new)[i]
      <3>1. CASE i \in 1 .. Len(ids)
        BY <1>1, <1>3, <2>2, <2>3, <3>1
      <3>2. CASE i = Len(ids) + 1
        BY <1>1, <1>3, <1>5, <1>7, <2>2, <2>3, <3>2
      <3> QED
        BY <2>2, <3>1, <3>2
    <2>5. epochCursor[e] <= Len(ids) + 1
      BY <1>5, <2>2, <2>3
    <2> QED
      BY <1>2, <2>1, <2>2, <2>4, <2>5 DEF Separated
  <1> QED
    BY <1>6, <1>7

\* Settling the next action of an epoch moves its cursor over exactly that one.
LEMMA SettleSeparates ==
    ASSUME TypeOK, CursorSeparates, NEW e \in Epoch, HasNext(e),
           NEW status \in {"Executed", "Refunded"}, Settle(e, NextId(e), status)
    PROVE  CursorSeparates'
  <1> DEFINE k == epochCursor[e] + 1
             id == epochActionIds[e][k]
  <1>1. /\ actions \in Seq(Action) /\ epochActionIds \in [Epoch -> Seq(DOMAIN actions)]
        /\ epochCursor \in [Epoch -> Nat] /\ epochCursor[e] < Len(epochActionIds[e])
        /\ \A f \in Epoch : Len(epochActionIds[f]) \in Nat
    BY DEF TypeOK, QueueTypeOK, HasNext
  <1>2. k \in 1 .. Len(epochActionIds[e]) /\ id \in DOMAIN actions
    BY <1>1
  <1>3. /\ actions' = [actions EXCEPT ![id].status = status]
        /\ epochCursor' = [epochCursor EXCEPT ![e] = k]
        /\ epochActionIds' = epochActionIds
    BY <1>1 DEF Settle, NextId
  <1>4. /\ DOMAIN actions' = DOMAIN actions
        /\ \A i \in DOMAIN actions : actions[i] \in Action
        /\ \A i \in DOMAIN actions : actions'[i].epoch = actions[i].epoch
        /\ \A i \in DOMAIN actions : i # id => actions'[i].status = actions[i].status
        /\ actions'[id].status = status /\ status # "Pending"
    <2> HIDE DEF id
    <2>1. DOMAIN actions' = DOMAIN actions /\ \A i \in DOMAIN actions : actions[i] \in Action
      BY <1>1, <1>3
    <2>2. \A i \in DOMAIN actions : i # id => actions'[i] = actions[i]
      BY <1>1, <1>2, <1>3
    <2>3. actions'[id] = [actions[id] EXCEPT !.status = status]
      BY <1>1, <1>2, <1>3, Zenon
    <2>4. actions[id] \in Action
      BY <1>2, <2>1
    <2> DEFINE a == actions[id]
    <2> HIDE DEF a
    <2>5. [a EXCEPT !.status = status].epoch = a.epoch
          /\ [a EXCEPT !.status = status].status = status
      BY <2>4 DEF Action, a
    <2> QED
      BY <2>1, <2>2, <2>3, <2>5 DEF a
  <1> HIDE DEF id
  <1>5. ASSUME NEW f \in Epoch PROVE Separated(f)'
    <2>1. Separated(f) /\ Separated(e)
      BY SeparatedAll
    <2>2. ASSUME NEW i \in 1 .. Len(epochActionIds[f]), f # e \/ i # k
          PROVE  epochActionIds[f][i] # id
      <3>1. CASE f # e
        BY <1>2, <2>1, <3>1 DEF Separated, id
      <3>2. CASE f = e /\ i # k
        <4>1. \A j \in 1 .. Len(epochActionIds[e]) : epochActionIds[e][j] \in Nat
          BY <1>1
        <4>2. CASE i < k
          <5>1. i \in 1 .. k - 1
            BY <1>1, <1>2, <3>2, <4>2
          <5> QED
            BY <1>2, <2>1, <3>2, <4>1, <5>1 DEF Separated, id
        <4>3. CASE k < i
          <5>1. k \in 1 .. i - 1
            BY <1>1, <1>2, <3>2, <4>3
          <5> QED
            BY <1>2, <2>1, <3>2, <4>1, <5>1 DEF Separated, id
        <4> QED
          BY <1>1, <1>2, <3>2, <4>2, <4>3
      <3> QED
        BY <2>2, <3>1, <3>2
    <2>3. CASE f # e
      BY <1>1, <1>3, <1>4, <2>1, <2>2, <2>3 DEF Separated
    <2>4. CASE f = e
      <3>1. epochCursor'[e] = k /\ k <= Len(epochActionIds[e])
        BY <1>1, <1>2, <1>3
      <3>2. ASSUME NEW i \in 1 .. Len(epochActionIds[e])
            PROVE  actions'[epochActionIds[e][i]].status = "Pending" <=> i > k
        <4>1. CASE i = k
          BY <1>1, <1>2, <1>4, <4>1 DEF id
        <4>2. CASE i # k
          <5>1. epochActionIds[e][i] # id /\ epochActionIds[e][i] \in DOMAIN actions
            BY <1>1, <2>2, <2>4, <4>2
          <5>2. actions[epochActionIds[e][i]].status = "Pending" <=> i > epochCursor[e]
            BY <2>1 DEF Separated
          <5> QED
            BY <1>1, <1>4, <4>2, <5>1, <5>2
        <4> QED
          BY <4>1, <4>2
      <3> QED
        BY <1>3, <1>4, <2>1, <2>4, <3>1, <3>2 DEF Separated
    <2> QED
      BY <2>3, <2>4
  <1> QED
    BY <1>5 DEF CursorSeparates, Separated

LEMMA CursorStep ==
    ASSUME TypeOK, CursorSeparates, [Next]_vars
    PROVE  CursorSeparates'
  <1>1. CASE Submit \/ ProvideLiquidity
    BY <1>1, SubmitRecords, RecordSeparates
  <1>2. CASE \E e \in Epoch : ProcessEpoch(e)
    BY <1>2, SettleSeparates DEF ProcessEpoch
  <1>3. CASE Tick \/ Gate \/ Resolve \/ Claim \/ UNCHANGED vars
    <2>1. UNCHANGED orderVars
      BY <1>3, QueueUntouched
    <2> QED
      BY <2>1 DEF orderVars, CursorSeparates
  <1> QED
    BY <1>1, <1>2, <1>3 DEF Next

\* An action is settled once, in its own epoch, and in the epoch's submission
\* order: each epoch's cursor always separates the settled from the pending.
THEOREM QueueOrdered == Spec => []CursorSeparates
  <1>1. Init => CursorSeparates
    BY DEF Init, CursorSeparates
  <1>2. TypeOK /\ CursorSeparates /\ [Next]_vars => CursorSeparates'
    BY CursorStep
  <1> QED
    BY <1>1, <1>2, TypeCorrect, PTL DEF Spec

-------------------------------------------------------------------------------
(* The queue never jams. *)

\* An action that waits is within the total of what it holds.
LEMMA WithinTotal ==
    ASSUME NEW queue \in Seq(Action), NEW K, NEW id \in DOMAIN queue, queue[id] \in K
    PROVE  queue[id].amount \in Nat /\ queue[id].amount <= Total(queue, K)
  <1> DEFINE S == Among(queue, K)
             f == [i \in S |-> queue[i].amount]
  <1>1. IsFiniteSet(S) /\ f \in [S -> Nat] /\ id \in S /\ f[id] = queue[id].amount
    BY AmongFinite DEF Among
  <1>2. f[id] <= SumFunction(f) /\ f[id] \in Nat
    <2> HIDE DEF S, f
    <2> QED
      BY <1>1, SumChange
  <1> QED
    BY <1>1, <1>2 DEF Total

\* What a waiting sale sells and what the pool has on the other side are both
\* owed, so the sets that the sale burns are backed.
LEMMA SaleBacked ==
    ASSUME TypeOK, Books, NEW id \in DOMAIN actions, NEW a, a = actions[id],
           a.status = "Pending", a.kind = "Sell"
    PROVE  LET q == SellQuote(a) IN
           /\ q.newOtherReserve \in Nat
           /\ q.grossCollateral \in Nat /\ q.grossCollateral <= collateralBacking
           /\ q.collateralOut \in Nat /\ q.collateralOut <= collateralBacking
  <1> DEFINE q == SellQuote(a)
             x == reserve[a.side]
             y == reserve[Other(a.side)]
             n == a.amount
             g == q.grossCollateral
             out == q.collateralOut
             c == collateralBacking
             mine == Owed(a.side)
             its == Owed(Other(a.side))
  <1>1. /\ a \in Action /\ a.side \in Side /\ Other(a.side) \in Side /\ n \in Nat
        /\ a \in HoldsPositions(a.side) /\ actions \in Seq(Action)
    <2>1. actions \in Seq(Action) /\ a \in Action
      BY QueueActions DEF TypeOK, QueueTypeOK
    <2>2. a.side \in Side /\ a.amount \in Nat
      BY <2>1 DEF Action
    <2> QED
      BY <2>1, <2>2, OtherSide DEF HoldsPositions
  <1>2. x \in Nat /\ y \in Nat /\ c \in Nat
    BY <1>1 DEF TypeOK, AccountTypeOK
  <1>3. SoundSell(q, x, y, n)
    <2>1. q = QuoteSell(x, y, n)
      BY DEF SellQuote
    <2> HIDE DEF q, x, y, n
    <2> QED
      BY <1>1, <1>2, <2>1, QuoteSellSound
  <1>4. /\ mine \in Nat /\ its \in Nat /\ x + n <= mine /\ y <= its
    <2> DEFINE h == HeldOn(positionOf, a.side)
               t == Total(actions, HoldsPositions(a.side))
    <2>1. n <= t /\ h \in Nat /\ t \in Nat /\ mine = x + h + t
      BY <1>1, OwedNat, WithinTotal DEF Owed
    <2>2. its \in Nat /\ y <= its
      BY <1>1, <1>2, PartsOfOwed, OwedNat
    <2>3. \A h1, t1 \in Nat : n <= t1 => x + n <= x + h1 + t1 /\ x + h1 + t1 \in Nat
      <3> HIDE DEF x, n
      <3> QED
        BY <1>1, <1>2
    <2> HIDE DEF h, t
    <2> QED
      BY <2>1, <2>2, <2>3
  <1>5. \/ Covered(finalOutcome, mine, its, c) \/ Covered(finalOutcome, its, mine, c)
    BY <1>1 DEF Books, Side, Other
  <1>6. /\ g \in Nat /\ out \in Nat /\ out <= g /\ q.newOtherReserve \in Nat
        /\ g <= x + n /\ g <= y
    <2> DEFINE fee == q.liquidityFee
               r == q.newSelectedReserve
               s == q.newOtherReserve
    <2>1. /\ g \in Nat /\ fee \in Nat /\ out \in Nat /\ fee + out = g
          /\ r \in Nat /\ s \in Nat /\ r + g = x + n /\ s + g = y
      BY <1>3 DEF SoundSell
    <2> HIDE DEF fee, r, s, g, out, x, y, n, q
    <2>2. out <= g /\ g <= x + n /\ g <= y
      BY <1>1, <1>2, <2>1
    <2> QED
      BY <2>1, <2>2 DEF s
  <1>7. finalOutcome \in Outcome
    BY DEF TypeOK, ResultTypeOK
  <1>8. g <= mine /\ g <= its
    <2> HIDE DEF g, x, y, n, mine, its
    <2> QED
      BY <1>1, <1>2, <1>4, <1>6
  <1>9. g <= c /\ out <= c
    <2> HIDE DEF g, out, mine, its, c
    <2> QED
      BY <1>2, <1>4, <1>5, <1>6, <1>7, <1>8 DEF Covered, Outcome
  <1> QED
    BY <1>6, <1>9

\* The next action of an epoch that may be processed is waiting, and everything
\* its execution or its refund takes is there: no arithmetic of processEpoch
\* reverts, whatever was submitted, traded and claimed before, so no action
\* blocks those behind it.
THEOREM QueueGoesThrough == Spec => []NextAlwaysGoesThrough
  <1>1. ASSUME HolderInv, CursorSeparates, NEW e \in Epoch, HasNext(e)
        PROVE  NextGoesThrough(e)
    <2> DEFINE id == NextId(e)
               a == actions[id]
               q == SellQuote(a)
    <2>1. TypeOK /\ Books /\ LedgerInv /\ actions \in Seq(Action)
      BY <1>1 DEF HolderInv, LedgerInv, TypeOK, QueueTypeOK
    <2>2. id \in DOMAIN actions /\ a.status = "Pending" /\ a \in Action
      <3>1. /\ epochActionIds[e] \in Seq(DOMAIN actions) /\ epochCursor[e] \in Nat
            /\ epochCursor[e] < Len(epochActionIds[e])
        BY <1>1, <2>1 DEF HasNext, TypeOK, QueueTypeOK
      <3>2. /\ epochCursor[e] + 1 \in 1 .. Len(epochActionIds[e])
            /\ epochCursor[e] + 1 > epochCursor[e]
        BY <3>1
      <3>3. id \in DOMAIN actions /\ actions[id].status = "Pending"
        BY <1>1, <3>2 DEF CursorSeparates, NextId
      <3> QED
        BY <2>1, <3>3
    <2> HIDE DEF id
    <2>3. Computable(a)
      <3>1. reserve \in [Side -> Nat]
        BY <2>1 DEF TypeOK, AccountTypeOK
      <3> QED
        BY <2>1, <3>1 DEF Computable, LargestReserve, Books, SharesAreBacked, Side
    <2>4. a.kind \in {"Buy", "AddLiquidity"} => Covers(pendingCollateral, a.amount)
      <3>1. SUFFICES ASSUME a.kind \in {"Buy", "AddLiquidity"}
                     PROVE  Covers(pendingCollateral, a.amount)
        OBVIOUS
      <3>2. a \in HoldsCollateral
        BY <2>2, <3>1 DEF HoldsCollateral
      <3>3. a.amount \in Nat /\ a.amount <= pendingCollateral
        BY <2>1, <2>2, <3>2, WithinTotal DEF Books
      <3> QED
        BY <2>1, <3>3, AccountsHeld
    <2>5. a.kind = "Sell" => /\ q.newOtherReserve >= 0
                             /\ Covers(collateralBacking, q.grossCollateral)
                             /\ Covers(collateralBacking, q.collateralOut)
      <3>1. SUFFICES ASSUME a.kind = "Sell"
                     PROVE  /\ q.newOtherReserve >= 0
                            /\ Covers(collateralBacking, q.grossCollateral)
                            /\ Covers(collateralBacking, q.collateralOut)
        OBVIOUS
      <3>2. /\ q.newOtherReserve \in Nat
            /\ q.grossCollateral \in Nat /\ q.grossCollateral <= collateralBacking
            /\ q.collateralOut \in Nat /\ q.collateralOut <= collateralBacking
        BY <2>1, <2>2, <3>1, SaleBacked
      <3> HIDE DEF q
      <3> QED
        BY <2>1, <3>2, AccountsHeld
    <2> QED
      BY <2>2, <2>3, <2>4, <2>5 DEF NextGoesThrough, id
  <1>2. HolderInv /\ CursorSeparates => NextAlwaysGoesThrough
    BY <1>1 DEF NextAlwaysGoesThrough, MayProcess
  <1> QED
    BY <1>2, HolderInvariant, QueueOrdered, PTL

-------------------------------------------------------------------------------
(* What executes. *)

ExecutedCleared == \A id \in DOMAIN actions :
    actions[id].status = "Executed" => epochSafeSequence[actions[id].epoch] # 0

LEMMA ExecutedClearedStep ==
    ASSUME TypeOK, CursorSeparates, ExecutedCleared, [Next]_vars
    PROVE  ExecutedCleared'
  <1>0. /\ actions \in Seq(Action) /\ DOMAIN actions = 1 .. Len(actions) /\ Len(actions) \in Nat
        /\ \A id \in DOMAIN actions : actions[id] \in Action /\ actions[id].epoch \in Epoch
    <2>1. /\ actions \in Seq(Action) /\ DOMAIN actions = 1 .. Len(actions)
          /\ Len(actions) \in Nat
      BY DEF TypeOK, QueueTypeOK
    <2>2. \A id \in DOMAIN actions : actions[id] \in Action
      BY <2>1
    <2>3. \A a \in Action : a.epoch \in Epoch
      BY DEF Action
    <2> QED
      BY <2>1, <2>2, <2>3
  <1>1. \A e \in Epoch : epochSafeSequence[e] # 0 => epochSafeSequence'[e] # 0
    BY GateMonotoneStep DEF EpochSafe
  <1>2. CASE Submit \/ ProvideLiquidity
    <2>1. PICK action \in Action : action.status = "Pending" /\ RecordAction(action)
      BY <1>2, SubmitRecords
    <2>2. /\ DOMAIN actions' = 1 .. (Len(actions) + 1)
          /\ \A id \in DOMAIN actions : actions'[id] = actions[id]
          /\ actions'[Len(actions) + 1] = action
      BY <1>0, <2>1 DEF RecordAction
    <2>3. ASSUME NEW id \in DOMAIN actions', actions'[id].status = "Executed"
          PROVE  epochSafeSequence'[actions'[id].epoch] # 0
      <3>1. id \in DOMAIN actions
        BY <1>0, <2>1, <2>2, <2>3
      <3> QED
        BY <1>0, <1>1, <2>2, <2>3, <3>1 DEF ExecutedCleared
    <2> QED
      BY <2>3 DEF ExecutedCleared
  <1>3. CASE \E e \in Epoch : ProcessEpoch(e)
    <2>1. PICK e \in Epoch : ProcessEpoch(e)
      BY <1>3
    <2> DEFINE id == NextId(e)
    <2>2. id \in DOMAIN actions /\ actions[id].epoch = e
      <3>1. /\ epochActionIds[e] \in Seq(DOMAIN actions) /\ epochCursor[e] \in Nat
            /\ epochCursor[e] < Len(epochActionIds[e])
        BY <2>1 DEF ProcessEpoch, HasNext, TypeOK, QueueTypeOK
      <3>2. epochCursor[e] + 1 \in 1 .. Len(epochActionIds[e])
        BY <3>1
      <3> QED
        BY <3>2 DEF CursorSeparates, NextId
    <2>3. PICK status \in {"Executed", "Refunded"} :
             /\ Settle(e, id, status)
             /\ status = "Executed" => epochSafeSequence[e] # 0
      BY <2>1 DEF ProcessEpoch, Executes, CanExecute, EpochSafe
    <2> HIDE DEF id
    <2>4. actions' = [actions EXCEPT ![id].status = status]
      BY <2>3 DEF Settle
    <2>5. /\ DOMAIN actions' = DOMAIN actions
          /\ \A i \in DOMAIN actions : i # id => actions'[i] = actions[i]
      BY <1>0, <2>2, <2>4
    <2>6. actions'[id].epoch = e /\ actions'[id].status = status
      <3>1. actions'[id] = [actions[id] EXCEPT !.status = status]
        BY <1>0, <2>2, <2>4, Zenon
      <3> DEFINE a == actions[id]
      <3>2. a \in Action /\ a.epoch = e
        BY <1>0, <2>2
      <3> HIDE DEF a
      <3>3. [a EXCEPT !.status = status].epoch = a.epoch
            /\ [a EXCEPT !.status = status].status = status
        BY <3>2 DEF Action
      <3> QED
        BY <3>1, <3>2, <3>3 DEF a
    <2>7. ASSUME NEW i \in DOMAIN actions', actions'[i].status = "Executed"
          PROVE  epochSafeSequence'[actions'[i].epoch] # 0
      <3>1. CASE i = id
        BY <1>1, <2>3, <2>6, <2>7, <3>1
      <3>2. CASE i # id
        BY <1>0, <1>1, <2>5, <2>7, <3>2 DEF ExecutedCleared
      <3> QED
        BY <3>1, <3>2
    <2> QED
      BY <2>7 DEF ExecutedCleared
  <1>4. CASE Tick \/ Gate \/ Resolve \/ Claim \/ UNCHANGED vars
    <2>1. actions' = actions
      BY <1>4, QueueUntouched DEF orderVars
    <2> QED
      BY <1>0, <1>1, <2>1 DEF ExecutedCleared
  <1> QED
    BY <1>2, <1>3, <1>4 DEF Next

\* An action executes only in an epoch an attestation cleared, and once the
\* decisive event is recorded never in its epoch or a later one, however late,
\* in whatever order and by whomever epochs are processed.
THEOREM OnlyClearedExecute == Spec => []OnlyClearedEpochsExecute
  <1>1. Init => ExecutedCleared
    BY DEF Init, ExecutedCleared
  <1>2. TypeOK /\ CursorSeparates /\ ExecutedCleared /\ [Next]_vars => ExecutedCleared'
    BY ExecutedClearedStep
  <1>3. TypeOK /\ SafeBeforeDecisive /\ ExecutedCleared => OnlyClearedEpochsExecute
    <2> SUFFICES ASSUME TypeOK, SafeBeforeDecisive, ExecutedCleared,
                        NEW id \in DOMAIN actions, actions[id].status = "Executed"
                 PROVE  /\ EpochSafe(actions[id].epoch)
                        /\ gateState = "Closed" => actions[id].epoch < closedEpoch
      BY DEF OnlyClearedEpochsExecute
    <2>1. actions[id].epoch \in Epoch
      <3>1. actions \in Seq(Action)
        BY DEF TypeOK, QueueTypeOK
      <3>2. actions[id] \in Action
        BY <3>1
      <3>3. \A a \in Action : a.epoch \in Epoch
        BY DEF Action
      <3> QED
        BY <3>2, <3>3
    <2> QED
      BY <2>1 DEF ExecutedCleared, SafeBeforeDecisive, EpochSafe
  <1> QED
    BY <1>1, <1>2, <1>3, TypeCorrect, QueueOrdered, GateSafe, PTL DEF Spec

\* What a step may do to an action that is already queued.
LEMMA ActionsStay ==
    ASSUME TypeOK, CursorSeparates, [Next]_vars
    PROVE  \A id \in DOMAIN actions :
              id \in DOMAIN actions' /\ actions'[id].epoch = actions[id].epoch
  <1>0. /\ actions \in Seq(Action) /\ DOMAIN actions = 1 .. Len(actions)
        /\ Len(actions) \in Nat
    BY DEF TypeOK, QueueTypeOK
  <1>1. CASE Submit \/ ProvideLiquidity
    <2>1. PICK action \in Action : RecordAction(action)
      BY <1>1, SubmitRecords
    <2> QED
      BY <1>0, <2>1 DEF RecordAction
  <1>2. CASE \E e \in Epoch : ProcessEpoch(e)
    <2>1. PICK id, status : actions' = [actions EXCEPT ![id].status = status]
      BY <1>2 DEF ProcessEpoch, Settle
    <2>2. DOMAIN actions' = DOMAIN actions
      BY <1>0, <2>1
    <2>3. ASSUME NEW i \in DOMAIN actions
          PROVE  actions'[i].epoch = actions[i].epoch
      <3>1. CASE i # id
        BY <1>0, <2>1, <3>1
      <3>2. CASE i = id
        <4>1. actions'[i] = [actions[i] EXCEPT !.status = status]
          BY <1>0, <2>1, <3>2, Zenon
        <4> DEFINE a == actions[i]
        <4>2. a \in Action
          BY <1>0
        <4> HIDE DEF a
        <4>3. [a EXCEPT !.status = status].epoch = a.epoch
          BY <4>2 DEF Action
        <4> QED
          BY <4>1, <4>3 DEF a
      <3> QED
        BY <3>1, <3>2
    <2> QED
      BY <2>2, <2>3
  <1>3. CASE Tick \/ Gate \/ Resolve \/ Claim \/ UNCHANGED vars
    <2>1. actions' = actions
      BY <1>3, QueueUntouched DEF orderVars
    <2> QED
      BY <2>1
  <1> QED
    BY <1>1, <1>2, <1>3 DEF Next

\* Whatever executed was submitted in an epoch that the gate cleared at a source
\* sequence before the decisive event's.
THEOREM ExecutionGated == Spec => []ClearedBeforeDecision
  BY GateSafe, OnlyClearedExecute, PTL DEF ClearedBeforeDecision

\* Once the decisive event is recorded, no step executes an action of its epoch
\* or of a later one: all that is left for it is its refund.
THEOREM ClosedOnlyRefund == Spec => ClosedEpochsOnlyRefund
  <1> DEFINE OnlyRefund == \A id \in DOMAIN actions :
                gateState = "Closed" /\ actions[id].epoch >= closedEpoch
                    => actions'[id].status # "Executed"
  <1>1. /\ TypeOK /\ CursorSeparates /\ OnlyClearedEpochsExecute'
        /\ [Next]_vars
        => OnlyRefund
    <2> SUFFICES ASSUME TypeOK, CursorSeparates, OnlyClearedEpochsExecute', [Next]_vars,
                        NEW id \in DOMAIN actions, gateState = "Closed",
                        actions[id].epoch >= closedEpoch, actions'[id].status = "Executed"
                 PROVE  FALSE
      OBVIOUS
    <2>1. gateState' = "Closed" /\ closedEpoch' = closedEpoch
      BY GateMonotoneStep
    <2>2. id \in DOMAIN actions' /\ actions'[id].epoch = actions[id].epoch
      BY ActionsStay
    <2>3. actions[id].epoch < closedEpoch
      BY <2>1, <2>2 DEF OnlyClearedEpochsExecute
    <2>4. actions[id].epoch \in Nat /\ closedEpoch \in Nat
      <3>1. actions \in Seq(Action) /\ closedEpoch \in Nat
        BY DEF TypeOK, QueueTypeOK, GateTypeOK
      <3>2. actions[id] \in Action
        BY <3>1
      <3>3. \A a \in Action : a.epoch \in Nat
        BY DEF Action, Epoch
      <3> QED
        BY <3>1, <3>2, <3>3
    <2> QED
      BY <2>3, <2>4
  <1> QED
    BY <1>1, TypeCorrect, QueueOrdered, OnlyClearedExecute, PTL
       DEF Spec, ClosedEpochsOnlyRefund

-------------------------------------------------------------------------------
(* Results. *)

\* Verdicts are counted until the market is final.
VerdictsCounted ==
    /\ finalOutcome = "Unset" => Cardinality(VerdictBy(TRUE)) < 2
    /\ finalOutcome \notin {"Unset", "Invalid"} => Cardinality(VerdictBy(TRUE)) < 2

AttestedCounted ==
    /\ provisionalOutcome # "Unset" => Quorum(provisionalOutcome)
    /\ \A o \in Outcome : Quorum(o) => provisionalOutcome = o
    /\ provisionalOutcome # "Unset" => gateState = "Closed"

ResultInv ==
    /\ VerdictsCounted /\ AttestedCounted
    /\ finalOutcome \in {"Unset", "Invalid", provisionalOutcome}

LEMMA ResolverSets ==
    ASSUME NEW S \in SUBSET Resolvers
    PROVE  /\ IsFiniteSet(S) /\ Cardinality(S) \in Nat
           /\ \A r \in Resolvers : r \notin S => Cardinality(S \cup {r}) = Cardinality(S) + 1
  <1>1. IsFiniteSet(S)
    BY MarketAssumption, FS_Subset
  <1>2. Cardinality(S) \in Nat
    BY <1>1, FS_CardinalityType
  <1>3. \A r \in Resolvers : r \notin S => Cardinality(S \cup {r}) = Cardinality(S) + 1
    BY <1>1, FS_AddElement
  <1> QED
    BY <1>1, <1>2, <1>3

LEMMA AttestKeepsResult ==
    ASSUME TypeOK, ResultInv, NEW r \in Resolvers, NEW outcome \in AttestedOutcomes,
           NEW evidence \in Evidence, AttestResult(r, outcome, evidence)
    PROVE  ResultInv'
  <1> USE DEF ResultInv
  <1>1. /\ gateState = "Closed" /\ provisionalOutcome = "Unset" /\ finalOutcome = "Unset"
        /\ gateState' = gateState /\ finalOutcome' = finalOutcome
        /\ challengeVerdictBy' = challengeVerdictBy
        /\ r \notin Attested(outcome, evidence)
        /\ resultAttestedBy' = resultAttestedBy \cup {<<outcome, evidence, r>>}
        /\ outcome \in Outcome \ {"Unset"}
    BY MarketAssumption DEF AttestResult, ResolutionFrame, gateVars, challengeVars
  <1>2. /\ Cardinality(Attested(outcome, evidence)) + 1 = 2 => provisionalOutcome' = outcome
        /\ Cardinality(Attested(outcome, evidence)) + 1 # 2 =>
              provisionalOutcome' = provisionalOutcome
    BY DEF AttestResult
  <1> DEFINE After(o, ev) == {q \in Resolvers : <<o, ev, q>> \in resultAttestedBy'}
  <1>3. ASSUME NEW o, NEW ev, <<o, ev>> # <<outcome, evidence>>
        PROVE  After(o, ev) = Attested(o, ev)
    BY <1>1, <1>3 DEF Attested
  <1>4. After(outcome, evidence) = Attested(outcome, evidence) \cup {r}
    BY <1>1 DEF Attested
  <1>5. ASSUME NEW o \in Outcome, NEW ev \in Evidence
        PROVE  Cardinality(Attested(o, ev)) \in Nat /\ Cardinality(Attested(o, ev)) < 2
    <2>1. Attested(o, ev) \in SUBSET Resolvers
      BY DEF Attested
    <2>2. Cardinality(Attested(o, ev)) \in Nat
      BY <2>1, ResolverSets
    <2>3. CASE o = "Unset"
      <3>1. Attested(o, ev) = {}
        BY <2>3 DEF Attested, TypeOK, ResultTypeOK
      <3> QED
        BY <3>1, FS_EmptySet
    <2>4. CASE o # "Unset"
      <3>1. ~Quorum(o)
        BY <1>1, <2>4 DEF AttestedCounted
      <3> QED
        BY <2>2, <3>1 DEF Quorum
    <2> QED
      BY <2>3, <2>4, <2>2
  <1>6. Cardinality(After(outcome, evidence)) = Cardinality(Attested(outcome, evidence)) + 1
    <2>1. Attested(outcome, evidence) \in SUBSET Resolvers
      BY DEF Attested
    <2> HIDE DEF After
    <2> QED
      BY <1>1, <1>4, <2>1, ResolverSets
  <1>7. \A o : Quorum(o)' <=> \E ev \in Evidence : Cardinality(After(o, ev)) >= 2
    BY DEF Quorum, Attested
  <1> HIDE DEF After
  <1>8. \A o \in Outcome :
          (\E ev \in Evidence : Cardinality(After(o, ev)) >= 2) =>
              o = outcome /\ Cardinality(Attested(outcome, evidence)) + 1 = 2
    <2> SUFFICES ASSUME NEW o \in Outcome, NEW ev \in Evidence, Cardinality(After(o, ev)) >= 2
                 PROVE  o = outcome /\ Cardinality(Attested(outcome, evidence)) + 1 = 2
      OBVIOUS
    <2>1. <<o, ev>> = <<outcome, evidence>>
      <3> SUFFICES ASSUME <<o, ev>> # <<outcome, evidence>> PROVE FALSE
        OBVIOUS
      <3>1. After(o, ev) = Attested(o, ev)
        BY <1>3
      <3> QED
        BY <1>5, <3>1
    <2>2. Cardinality(Attested(outcome, evidence)) + 1 >= 2
      BY <1>6, <2>1
    <2>3. Cardinality(Attested(outcome, evidence)) \in Nat
          /\ Cardinality(Attested(outcome, evidence)) < 2
      BY <1>1, <1>5
    <2> QED
      BY <2>1, <2>2, <2>3
  <1>9. AttestedCounted'
    <2>1. CASE Cardinality(Attested(outcome, evidence)) + 1 = 2
      <3>1. provisionalOutcome' = outcome
        BY <1>2, <2>1
      <3>2. \E ev \in Evidence : Cardinality(After(outcome, ev)) >= 2
        BY <1>6, <2>1
      <3> QED
        BY <1>1, <1>7, <1>8, <3>1, <3>2 DEF AttestedCounted
    <2>2. CASE Cardinality(Attested(outcome, evidence)) + 1 # 2
      BY <1>1, <1>2, <1>7, <1>8, <2>2 DEF AttestedCounted
    <2> QED
      BY <2>1, <2>2
  <1>10. VerdictsCounted'
    BY <1>1 DEF VerdictsCounted, VerdictBy
  <1> QED
    BY <1>1, <1>9, <1>10

\* Every other resolution step leaves the attestations alone, and may finalize.
LEMMA FinalizeKeepsResult ==
    ASSUME TypeOK, ResultInv, ResolutionFrame, NEW outcome, Finalize(outcome),
           outcome \in {"Invalid", provisionalOutcome},
           outcome = "Invalid" \/ Cardinality(VerdictBy(TRUE)') < 2,
           finalOutcome = "Unset"
    PROVE  ResultInv'
  <1>1. /\ finalOutcome' = outcome /\ gateState' = gateState
        /\ provisionalOutcome' = provisionalOutcome /\ resultAttestedBy' = resultAttestedBy
    BY DEF Finalize, ResolutionFrame, gateVars
  <1>2. AttestedCounted'
    BY <1>1 DEF ResultInv, AttestedCounted, Quorum, Attested
  <1>3. VerdictsCounted'
    BY <1>1 DEF VerdictsCounted
  <1> QED
    BY <1>1, <1>2, <1>3 DEF ResultInv

LEMMA ResolveKeepsResult ==
    ASSUME TypeOK, ResultInv, Resolve
    PROVE  ResultInv'
  <1>0. finalOutcome = "Unset" => Cardinality(VerdictBy(TRUE)) < 2
    BY DEF ResultInv, VerdictsCounted
  <1>1. CASE \E r \in Resolvers, outcome \in AttestedOutcomes, evidence \in Evidence :
                AttestResult(r, outcome, evidence)
    BY <1>1, AttestKeepsResult
  <1>2. CASE ChallengeResult
    <2>1. /\ UNCHANGED resultVars /\ UNCHANGED challengeVerdictBy /\ gateState' = gateState
      BY <1>2 DEF ChallengeResult, ResolutionFrame, gateVars
    <2> QED
      BY <2>1 DEF ResultInv, VerdictsCounted, AttestedCounted, VerdictBy, Quorum, Attested,
                  resultVars
  <1>3. CASE \E r \in Resolvers, accept \in BOOLEAN : AttestChallengeVerdict(r, accept)
    <2>1. PICK r \in Resolvers, accept \in BOOLEAN : AttestChallengeVerdict(r, accept)
      BY <1>3
    <2>2. /\ finalOutcome = "Unset" /\ ResolutionFrame /\ r \notin VerdictBy(accept)
          /\ challengeVerdictBy' = challengeVerdictBy \cup {<<accept, r>>}
          /\ IF Cardinality(VerdictBy(accept)) + 1 = 2
             THEN Finalize(IF accept THEN "Invalid" ELSE provisionalOutcome)
             ELSE UNCHANGED resultVars
      BY <2>1 DEF AttestChallengeVerdict
    <2>3. VerdictBy(TRUE) \in SUBSET Resolvers /\ Cardinality(VerdictBy(TRUE)) \in Nat
      BY ResolverSets DEF VerdictBy
    <2>4. CASE accept = FALSE
      <3>1. VerdictBy(TRUE)' = VerdictBy(TRUE)
        BY <2>2, <2>4 DEF VerdictBy
      <3>2. Cardinality(VerdictBy(TRUE)') < 2
        BY <1>0, <2>2, <3>1
      <3>3. CASE Finalize(provisionalOutcome)
        BY <2>2, <3>2, <3>3, FinalizeKeepsResult
      <3>4. CASE UNCHANGED resultVars
        <4>1. gateState' = gateState
          BY <2>2 DEF ResolutionFrame, gateVars
        <4> QED
          BY <3>1, <3>4, <4>1 DEF ResultInv, VerdictsCounted, AttestedCounted, Quorum,
                                  Attested, resultVars
      <3> QED
        BY <2>2, <2>4, <3>3, <3>4
    <2>5. CASE accept = TRUE
      <3>1. VerdictBy(TRUE)' = VerdictBy(TRUE) \cup {r}
        BY <2>2, <2>5 DEF VerdictBy
      <3>2. Cardinality(VerdictBy(TRUE)') = Cardinality(VerdictBy(TRUE)) + 1
        BY <2>2, <2>3, <2>5, <3>1, ResolverSets
      <3>3. CASE Cardinality(VerdictBy(TRUE)) + 1 = 2
        BY <2>2, <2>5, <3>3, FinalizeKeepsResult
      <3>4. CASE Cardinality(VerdictBy(TRUE)) + 1 # 2
        <4>1. UNCHANGED resultVars /\ gateState' = gateState
          BY <2>2, <2>5, <3>4 DEF ResolutionFrame, gateVars
        <4>2. Cardinality(VerdictBy(TRUE)') < 2
          <5> DEFINE c == Cardinality(VerdictBy(TRUE))
          <5>1. c \in Nat /\ c < 2 /\ c + 1 # 2
            BY <1>0, <2>2, <2>3, <3>4, Zenon
          <5>2. Cardinality(VerdictBy(TRUE)') = c + 1
            BY <3>2, Zenon
          <5> HIDE DEF c
          <5>3. c + 1 < 2
            BY <5>1
          <5> QED
            BY <5>2, <5>3, Zenon
        <4> QED
          BY <4>1, <4>2 DEF ResultInv, VerdictsCounted, AttestedCounted, Quorum,
                            Attested, resultVars
      <3> QED
        BY <3>3, <3>4
    <2> QED
      BY <2>4, <2>5
  <1>4. CASE FinalizeUnchallenged
    <2>1. VerdictBy(TRUE)' = VerdictBy(TRUE)
      BY <1>4 DEF FinalizeUnchallenged, challengeVars, VerdictBy
    <2> QED
      BY <1>0, <1>4, <2>1, FinalizeKeepsResult DEF FinalizeUnchallenged
  <1>5. CASE ExpireChallenge
    BY <1>5, FinalizeKeepsResult DEF ExpireChallenge
  <1>6. CASE InvalidateUnresolved
    BY <1>6, FinalizeKeepsResult DEF InvalidateUnresolved
  <1> QED
    BY <1>1, <1>2, <1>3, <1>4, <1>5, <1>6 DEF Resolve

LEMMA ResultStep ==
    ASSUME TypeOK, ChallengeBondHeld, ResultInv, [Next]_vars
    PROVE  ResultInv'
  <1>1. CASE Resolve
    BY <1>1, ResolveKeepsResult
  <1>2. CASE ~Resolve
    <2>1. UNCHANGED resultVars /\ UNCHANGED challengeVars
      BY <1>2, ChallengeFrame DEF Next
    <2>2. gateState = "Closed" => gateState' = "Closed"
      BY GateMonotoneStep
    <2> QED
      BY <2>1, <2>2 DEF ResultInv, VerdictsCounted, AttestedCounted, VerdictBy, Quorum,
                        Attested, resultVars, challengeVars
  <1> QED
    BY <1>1, <1>2

\* A result rests on two resolvers behind one outcome and one evidence bundle,
\* no two outcomes ever have a quorum, and the final result is the provisional
\* one or Invalid: for any set of resolvers, outcomes and evidence bundles.
THEOREM ResultSafe == Spec => []ResultHasQuorum
  <1>1. Init => ResultInv
    <2> SUFFICES ASSUME Init PROVE ResultInv
      OBVIOUS
    <2>1. \A o, ev : Attested(o, ev) = {}
      BY DEF Init, Attested
    <2>2. VerdictBy(TRUE) = {} /\ Cardinality({}) = 0
      BY FS_EmptySet DEF Init, VerdictBy
    <2>3. \A o : ~Quorum(o)
      BY <2>1, <2>2 DEF Quorum
    <2>4. Cardinality(VerdictBy(TRUE)) < 2
      <3>1. 0 < 2
        OBVIOUS
      <3> QED
        BY <2>2, <3>1, Zenon
    <2>5. VerdictsCounted
      BY <2>4 DEF VerdictsCounted
    <2>6. AttestedCounted
      BY <2>3 DEF Init, AttestedCounted
    <2> QED
      BY <2>5, <2>6 DEF Init, ResultInv
  <1>2. TypeOK /\ ChallengeBondHeld /\ ResultInv /\ [Next]_vars => ResultInv'
    BY ResultStep
  <1>3. ResultInv => ResultHasQuorum
    BY DEF ResultInv, ResultHasQuorum, VerdictsCounted, AttestedCounted
  <1> QED
    BY <1>1, <1>2, <1>3, TypeCorrect, ChallengeBondSafe, PTL DEF Spec

-------------------------------------------------------------------------------
(* The market as its room sees it. *)

\* A step that moves neither the clock, nor the gate, nor a result shows the room at most
\* that the market has, or no longer has, liquidity.
LiquidityStep ==
    /\ UNCHANGED <<now, gateVars, finalOutcome>>
    /\ \/ totalLpShares # 0 <=> totalLpShares' # 0
       \/ /\ totalLpShares = 0 /\ totalLpShares' # 0
          /\ \E e \in Epoch : CanExecute(e)
       \/ /\ totalLpShares # 0 /\ totalLpShares' = 0
          /\ finalOutcome # "Unset"

LEMMA LiquiditySeen ==
    ASSUME LiquidityStep
    PROVE  Seen!Moves
  <1>1. UNCHANGED <<now, gateState, closedEpoch, decisiveSequence, lastSafeSequence,
                    epochSafeSequence, finalOutcome>>
    BY DEF LiquidityStep, gateVars
  <1>2. CASE totalLpShares # 0 <=> totalLpShares' # 0
    BY <1>1, <1>2 DEF Seen!Moves, Seen!seen, Seen!closing, Seen!safe
  <1>3. CASE totalLpShares = 0 /\ totalLpShares' # 0 /\ \E e \in Epoch : CanExecute(e)
    <2>1. Seen!Fund
      BY <1>1, <1>3 DEF Seen!Fund, Seen!IsSafe, Seen!BeforeClose, Seen!closing, Seen!safe,
                        CanExecute, EpochSafe
    <2> QED
      BY <2>1 DEF Seen!Moves, Seen!Lives
  <1>4. CASE totalLpShares # 0 /\ totalLpShares' = 0 /\ finalOutcome # "Unset"
    <2>1. Seen!Unfund
      BY <1>1, <1>4 DEF Seen!Unfund, Seen!closing, Seen!safe
    <2> QED
      BY <2>1 DEF Seen!Moves, Seen!Lives
  <1> QED
    BY <1>2, <1>3, <1>4 DEF LiquidityStep

\* Shares are minted by a deposit that executes, so in an epoch that is cleared.
LEMMA ProcessSeen ==
    ASSUME TypeOK, NEW e \in Epoch, ProcessEpoch(e)
    PROVE  Seen!Moves
  <1> DEFINE id == NextId(e)
             a == actions[id]
  <1>1. PICK status : Settle(e, id, status)
    BY DEF ProcessEpoch
  <1>2. UNCHANGED <<now, gateVars, finalOutcome>>
    BY <1>1 DEF Settle, lifecycleVars, resultVars
  <1>3. a \in Action
    <2>1. /\ epochActionIds[e] \in Seq(DOMAIN actions) /\ epochCursor[e] \in Nat
          /\ epochCursor[e] < Len(epochActionIds[e])
      BY DEF ProcessEpoch, HasNext, TypeOK, QueueTypeOK
    <2>2. epochCursor[e] + 1 \in 1 .. Len(epochActionIds[e])
      BY <2>1
    <2>3. id \in DOMAIN actions
      BY <2>1, <2>2 DEF NextId
    <2> QED
      BY <2>3 DEF TypeOK, QueueTypeOK
  <1>4. (CanExecute(e) /\ Computable(a) /\ Execute(a)) \/ Refund(a)
    BY DEF ProcessEpoch, Executes
  <1> HIDE DEF a
  <1>5. CASE CanExecute(e) /\ Computable(a) /\ ExecuteAddLiquidity(a)
    <2>1. SharesFor(a) \in Nat
      <3>1. a.kind = "AddLiquidity"
        BY <1>5 DEF ExecuteAddLiquidity
      <3> QED
        BY <1>3, <1>5, <3>1, DepositSplit
    <2>2. totalLpShares' = totalLpShares + SharesFor(a) /\ totalLpShares \in Nat
      BY <1>5 DEF ExecuteAddLiquidity, MintShares, TypeOK, AccountTypeOK, LpTypeOK
    <2>3. totalLpShares # 0 => totalLpShares' # 0
      BY <2>1, <2>2
    <2> QED
      BY <1>2, <1>5, <2>3, LiquiditySeen, Zenon DEF LiquidityStep
  <1>6. CASE ExecuteBuy(a) \/ ExecuteSell(a) \/ ExecuteTransfer(a) \/ Refund(a)
    <2>1. totalLpShares' = totalLpShares
      BY <1>6 DEF ExecuteBuy, ExecuteSell, ExecuteTransfer, Refund, RefundCollateral,
                  RefundPosition, DistributeLpFee, accountVars, lpVars
    <2> QED
      BY <1>2, <2>1, LiquiditySeen DEF LiquidityStep
  <1> QED
    BY <1>4, <1>5, <1>6 DEF Execute

\* Shares are burnt by providers of a final market.
LEMMA ClaimSeen ==
    ASSUME TypeOK, Claim
    PROVE  Seen!Moves
  <1>1. UNCHANGED <<now, gateVars, finalOutcome>>
    BY DEF Claim, ClaimLpFees, RedeemPositions, SettleLpInventory, ClaimWinnerReward,
           ClaimInvalidWinnerFeeRefund, PostIntegrityBond, ClaimIntegrityBond,
           ClaimFrame, lifecycleVars, resultVars
  <1>2. CASE \E u \in Users : SettleLpInventory(u)
    <2>1. PICK u \in Users : SettleLpInventory(u)
      BY <1>2
    <2>2. /\ finalOutcome # "Unset" /\ lpSharesOf[u] # 0 /\ lpSharesOf[u] <= totalLpShares
          /\ lpSharesOf[u] \in Nat /\ totalLpShares \in Nat
      BY <2>1 DEF SettleLpInventory, BurnShares, TypeOK, AccountTypeOK, LpTypeOK
    <2>3. totalLpShares # 0
      BY <2>2
    <2> QED
      BY <1>1, <2>2, <2>3, LiquiditySeen DEF LiquidityStep
  <1>3. CASE ~\E u \in Users : SettleLpInventory(u)
    <2>1. totalLpShares' = totalLpShares
      BY <1>3 DEF Claim, ClaimLpFees, CollectFees, RedeemPositions, ClaimWinnerReward,
           ClaimInvalidWinnerFeeRefund, PostIntegrityBond, ClaimIntegrityBond, accountVars, lpVars
    <2> QED
      BY <1>1, <2>1, LiquiditySeen DEF LiquidityStep
  <1> QED
    BY <1>2, <1>3

\* A result needs a closed gate, also one that a challenge or a timeout ends with.
LEMMA ResolveSeen ==
    ASSUME ChallengeBondHeld, ResultHasQuorum, Resolve
    PROVE  Seen!Moves
  <1>1. UNCHANGED <<now, gateState, closedEpoch, decisiveSequence, lastSafeSequence,
                    epochSafeSequence, totalLpShares>>
    BY DEF Resolve, AttestResult, ChallengeResult, AttestChallengeVerdict,
           FinalizeUnchallenged, ExpireChallenge, InvalidateUnresolved,
           ResolutionFrame, gateVars, accountVars, lpVars
  <1>2. provisionalOutcome # "Unset" => gateState = "Closed"
    BY DEF ResultHasQuorum
  <1>3. challenged => provisionalOutcome # "Unset"
    BY DEF ChallengeBondHeld
  <1>4. \/ finalOutcome' = finalOutcome
        \/ finalOutcome = "Unset" /\ finalOutcome' # "Unset" /\ gateState = "Closed"
    <2>1. ASSUME NEW r \in Resolvers, NEW accept \in BOOLEAN, AttestChallengeVerdict(r, accept)
          PROVE  \/ finalOutcome' = finalOutcome
                 \/ finalOutcome = "Unset" /\ finalOutcome' # "Unset" /\ gateState = "Closed"
      BY <1>2, <1>3, <2>1 DEF AttestChallengeVerdict, Finalize, resultVars
    <2>2. CASE FinalizeUnchallenged \/ ExpireChallenge \/ InvalidateUnresolved
      BY <1>2, <1>3, <2>2 DEF FinalizeUnchallenged, ExpireChallenge, InvalidateUnresolved, Finalize
    <2>3. ASSUME NEW r \in Resolvers, NEW o \in AttestedOutcomes, NEW ev \in Evidence,
                 AttestResult(r, o, ev)
          PROVE  finalOutcome' = finalOutcome
      BY <2>3 DEF AttestResult
    <2>4. CASE ChallengeResult
      BY <2>4 DEF ChallengeResult, resultVars
    <2> QED
      BY <2>1, <2>2, <2>3, <2>4 DEF Resolve
  <1>5. CASE finalOutcome' = finalOutcome
    BY <1>1, <1>5 DEF Seen!Moves, Seen!seen, Seen!closing, Seen!safe
  <1>6. CASE finalOutcome = "Unset" /\ finalOutcome' # "Unset" /\ gateState = "Closed"
    <2>1. Seen!Finalize
      BY <1>1, <1>6 DEF Seen!Finalize, Seen!closing, Seen!safe
    <2> QED
      BY <2>1 DEF Seen!Moves, Seen!Lives
  <1> QED
    BY <1>4, <1>5, <1>6

\* Each call of the gate is one of the room's moves.
LEMMA GateSeen ==
    ASSUME TypeOK, Gate
    PROVE  Seen!Moves
  <1>1. PICK seq \in SourceSequences :
           \/ \E e \in Epoch : MarkEpochSafe(e, seq)
           \/ SuspendGate(seq)
           \/ ReopenGate(seq)
           \/ CloseForDecisiveEvent(seq)
    BY DEF Gate
  <1>2. /\ UNCHANGED <<now, totalLpShares, finalOutcome>>
        /\ seq \in Nat /\ lastSafeSequence \in Nat
        /\ (seq > lastSafeSequence => lastSafeSequence < seq)
    BY MarketAssumption DEF Gate, resultVars, accountVars, lpVars, TypeOK, GateTypeOK
  <1>3. ASSUME NEW e \in Epoch, MarkEpochSafe(e, seq)
        PROVE  Seen!Clear(e)
    <2> DEFINE end == EpochEndsAt(e) + SourceFinalityDelay
    <2>1. end \in Int /\ now \in Int
      <3>1. e \in Nat /\ EpochDuration \in Nat /\ SourceFinalityDelay \in Nat /\ now \in Nat
        BY MarketAssumption DEF Epoch, TypeOK
      <3>2. (e + 1) * EpochDuration \in Nat
        BY <3>1, ProductNat
      <3> QED
        BY <3>1, <3>2 DEF EpochEndsAt
    <2>2. end <= now
      <3>1. now >= end
        BY <1>3 DEF MarkEpochSafe
      <3> HIDE DEF end
      <3> QED
        BY <2>1, <3>1
    <2>3. /\ e < CurrentEpoch /\ ~EpochSafe(e) /\ seq > lastSafeSequence
          /\ gateState = "Closed" => e < closedEpoch /\ seq < decisiveSequence
          /\ epochSafeSequence' = [epochSafeSequence EXCEPT ![e] = seq]
          /\ lastSafeSequence' = seq
          /\ UNCHANGED <<gateState, closedEpoch, decisiveSequence>>
      BY <1>3 DEF MarkEpochSafe
    <2>4. /\ e < Seen!CurrentEpoch /\ (e + 1) * EpochDuration + SourceFinalityDelay <= now
          /\ ~Seen!IsSafe(e) /\ Seen!BeforeClose(e)
      BY <2>2, <2>3 DEF CurrentEpoch, Seen!CurrentEpoch, EpochEndsAt, EpochSafe, Seen!IsSafe,
                        Seen!BeforeClose
    <2>5. Seen!Attested
      BY <1>2, <2>3 DEF Seen!Attested
    <2> QED
      BY <1>2, <2>3, <2>4, <2>5, Zenon DEF Seen!Clear, Seen!closing
  <1>4. CASE SuspendGate(seq)
    <2>1. Seen!Suspend
      BY <1>2, <1>4 DEF SuspendGate, Seen!Suspend, Seen!closing, Seen!safe
    <2> QED
      BY <2>1 DEF Seen!Moves, Seen!Gated
  <1>5. CASE ReopenGate(seq)
    <2>1. Seen!Reopen
      BY <1>2, <1>5 DEF ReopenGate, Seen!Reopen, Seen!Attested, Seen!closing
    <2> QED
      BY <2>1 DEF Seen!Moves, Seen!Gated
  <1>6. CASE CloseForDecisiveEvent(seq)
    <2>1. Seen!Close
      BY <1>2, <1>6 DEF CloseForDecisiveEvent, Seen!Close, CurrentEpoch, Seen!CurrentEpoch, Seen!safe
    <2> QED
      BY <2>1 DEF Seen!Moves, Seen!Gated
  <1> QED
    BY <1>1, <1>3, <1>4, <1>5, <1>6 DEF Seen!Moves, Seen!Gated

\* Every transaction of a market is, for its room, one of RoomMarket's steps or none.
LEMMA StepSeen ==
    ASSUME TypeOK, ChallengeBondHeld, ResultHasQuorum, [Next]_vars
    PROVE  Seen!Moves
  <1>1. CASE Tick
    <2>1. Seen!Wait
      BY <1>1 DEF Tick, Seen!Wait, Seen!closing, Seen!safe, lifecycleVars, gateVars, resultVars,
                  accountVars, lpVars
    <2> QED
      BY <2>1 DEF Seen!Moves, Seen!Lives
  <1>2. CASE Submit \/ ProvideLiquidity
    <2>1. UNCHANGED SubmitVars
      BY <1>2 DEF Submit, ProvideLiquidity, SubmitBuy, SubmitSell, SubmitPositionTransfer,
                  SubmitAddLiquidity
    <2> QED
      BY <2>1, LiquiditySeen DEF SubmitVars, lifecycleVars, resultVars, lpVars, LiquidityStep
  <1>3. CASE UNCHANGED vars
    BY <1>3, LiquiditySeen DEF vars, lifecycleVars, resultVars, accountVars, lpVars, LiquidityStep
  <1> QED
    BY <1>1, <1>2, <1>3, ProcessSeen, GateSeen, ResolveSeen, ClaimSeen DEF Next

\* A market is what its room takes it for, for any users, resolvers, amounts and sequences:
\* whatever is submitted, processed, challenged and claimed, it is cleared, closed, funded and
\* made final in the order RoomMarket allows.
THEOREM MarketImplementsRoomMarket == Spec => IsRoomMarket
  <1>1. Init => now \in Nat /\ Seen!NewMarket
    BY DEF Init, LpInit, Seen!NewMarket
  <1>2. TypeOK /\ ChallengeBondHeld /\ ResultHasQuorum /\ [Next]_vars
            => [Seen!Gated \/ Seen!Lives]_(Seen!seen)
    BY StepSeen DEF Seen!Moves
  <1> QED
    BY <1>1, <1>2, TypeCorrect, ChallengeBondSafe, ResultSafe, PTL
       DEF Spec, IsRoomMarket, Seen!MarketSpec


-------------------------------------------------------------------------------
(* What an account is shown. *)

\* An action of u that has executed.
Done(u, kind) == \E id \in DOMAIN actions :
    actions[id].user = u /\ actions[id].status = "Executed" /\ actions[id].kind = kind

\* Who has a claim that positions do not show has done what the index shows instead.
ClaimsTraced ==
    \A u \in Users :
        /\ lpSharesOf[u] # 0 \/ lpFeeCredit[u] # 0 => Done(u, "AddLiquidity")
        /\ winnerFeePaid[u] # 0 => Done(u, "Buy")

\* Without shares nothing accrues.
LEMMA NothingAccrues ==
    ASSUME LpTypeOK, NEW u \in Users
    PROVE  /\ Accrued(u) = OwedLpFees(u)
           /\ Accrued(u) # 0 => lpSharesOf[u] # 0 \/ lpFeeCredit[u] # 0
  <1>1. /\ lpSharesOf[u] \in Nat /\ feePerShare \in Nat /\ lpFeeDebt[u] \in Nat
        /\ lpFeeCredit[u] \in Nat
    BY DEF LpTypeOK
  <1>2. Accrued(u) = OwedLpFees(u)
    BY DEF Accrued, Accumulated, OwedLpFees, MulDiv
  <1>3. ASSUME lpSharesOf[u] = 0, lpFeeCredit[u] = 0
        PROVE  Accrued(u) = 0
    <2>1. lpSharesOf[u] * feePerShare = 0
      BY <1>1, <1>3
    <2>2. Accumulated(u) = 0
      BY <2>1, ScaleAssumption DEF Accumulated, MulDiv
    <2> QED
      BY <1>1, <1>3, <2>2 DEF Accrued
  <1> QED
    BY <1>2, <1>3

\* What has executed stays so.
LEMMA DoneStays ==
    ASSUME TypeOK, CursorSeparates, [Next]_vars, NEW u \in Users, NEW kind, Done(u, kind)
    PROVE  Done(u, kind)'
  <1>1. PICK id \in DOMAIN actions :
            actions[id].user = u /\ actions[id].status = "Executed" /\ actions[id].kind = kind
    BY DEF Done
  <1>2. id \in DOMAIN actions' /\ actions'[id] = actions[id]
    <2>0. actions \in Seq(Action) /\ DOMAIN actions = 1 .. Len(actions) /\ Len(actions) \in Nat
      BY DEF TypeOK, QueueTypeOK
    <2>1. CASE Submit \/ ProvideLiquidity
      <3>1. PICK action \in Action : RecordAction(action)
        BY <2>1, SubmitRecords
      <3> QED
        BY <1>1, <2>0, <3>1 DEF RecordAction
    <2>2. CASE \E e \in Epoch : ProcessEpoch(e)
      <3>1. PICK i, status : /\ actions' = [actions EXCEPT ![i].status = status]
                             /\ actions[i].status = "Pending"
        BY <2>2 DEF ProcessEpoch, Settle
      <3>2. i # id
        BY <1>1, <3>1
      <3> QED
        BY <1>1, <2>0, <3>1, <3>2
    <2>3. CASE Tick \/ Gate \/ Resolve \/ Claim \/ UNCHANGED vars
      BY <1>1, <2>3, QueueUntouched DEF orderVars
    <2> QED
      BY <2>1, <2>2, <2>3 DEF Next
  <1> QED
    BY <1>1, <1>2 DEF Done

\* Whoever gains a share, or a fee that an Invalid result refunds, gains it by the action
\* that executes.
LEMMA ProcessTraced ==
    ASSUME TypeOK, CursorSeparates, ClaimsTraced, [Next]_vars, NEW e \in Epoch, ProcessEpoch(e)
    PROVE  ClaimsTraced'
  <1> DEFINE id == NextId(e)
             a == actions[id]
  <1>1. id \in DOMAIN actions /\ a \in Action
    <2>1. /\ epochActionIds[e] \in Seq(DOMAIN actions) /\ epochCursor[e] \in Nat
          /\ epochCursor[e] < Len(epochActionIds[e])
      BY DEF ProcessEpoch, HasNext, TypeOK, QueueTypeOK
    <2>2. epochCursor[e] + 1 \in 1 .. Len(epochActionIds[e])
      BY <2>1
    <2>3. id \in DOMAIN actions
      BY <2>1, <2>2 DEF NextId
    <2> QED
      BY <2>3, QueueActions DEF TypeOK, QueueTypeOK
  <1>2. \/ Execute(a) /\ Settle(e, id, "Executed")
        \/ Refund(a)
    BY DEF ProcessEpoch
  <1> HIDE DEF id
  <1>3. ASSUME Settle(e, id, "Executed"), NEW u \in Users, u = a.user,
               NEW kind, kind = a.kind
        PROVE  Done(u, kind)'
    <2>1. actions \in Seq(Action) /\ actions' = [actions EXCEPT ![id].status = "Executed"]
      BY <1>3 DEF Settle, TypeOK, QueueTypeOK
    <2>2. id \in DOMAIN actions' /\ actions'[id] = [actions[id] EXCEPT !.status = "Executed"]
      BY <1>1, <2>1, Zenon
    <2>3. \A b \in Action : LET c == [b EXCEPT !.status = "Executed"] IN
              c.user = b.user /\ c.kind = b.kind /\ c.status = "Executed"
      BY DEF Action
    <2> QED
      BY <1>1, <1>3, <2>2, <2>3 DEF Done
  <1> HIDE DEF a
  <1>4. a.user \in Users
    BY <1>1 DEF Action
  <1>5. /\ LpTypeOK /\ lpSharesOf \in [Users -> Nat] /\ lpFeeCredit \in [Users -> Nat]
        /\ winnerFeePaid \in [Users -> Nat]
    BY DEF TypeOK, AccountTypeOK, LpTypeOK
  <1>6. \A u \in Users, kind \in {"AddLiquidity", "Buy"} : Done(u, kind) => Done(u, kind)'
    BY DoneStays
  <1>7. CASE ExecuteBuy(a) /\ Settle(e, id, "Executed")
    <2>1. /\ a.kind = "Buy" /\ UNCHANGED <<lpSharesOf, lpFeeCredit>>
          /\ \E fee : winnerFeePaid' = [winnerFeePaid EXCEPT ![a.user] = fee]
      BY <1>7 DEF ExecuteBuy, DistributeLpFee
    <2> QED
      BY <1>3, <1>4, <1>5, <1>6, <1>7, <2>1 DEF ClaimsTraced
  <1>8. CASE ExecuteSell(a)
    <2>1. UNCHANGED <<lpSharesOf, lpFeeCredit, winnerFeePaid>>
      BY <1>8 DEF ExecuteSell, DistributeLpFee, holderVars
    <2> QED
      BY <1>6, <2>1 DEF ClaimsTraced
  <1>9. CASE ExecuteAddLiquidity(a) /\ Settle(e, id, "Executed")
    <2>1. /\ a.kind = "AddLiquidity" /\ UNCHANGED winnerFeePaid
          /\ \E credit, shares :
                /\ lpFeeCredit' = [lpFeeCredit EXCEPT ![a.user] = credit]
                /\ lpSharesOf' = [lpSharesOf EXCEPT ![a.user] = shares]
      BY <1>9 DEF ExecuteAddLiquidity, MintShares
    <2> QED
      BY <1>3, <1>4, <1>5, <1>6, <1>9, <2>1 DEF ClaimsTraced
  <1>10. CASE ExecuteTransfer(a) \/ Refund(a)
    <2>1. UNCHANGED <<lpSharesOf, lpFeeCredit, winnerFeePaid>>
      BY <1>10 DEF ExecuteTransfer, Refund, RefundCollateral, RefundPosition, accountVars,
                   lpVars, holderVars
    <2> QED
      BY <1>6, <2>1 DEF ClaimsTraced
  <1> QED
    BY <1>2, <1>7, <1>8, <1>9, <1>10 DEF Execute

\* A claim takes from its own account only, and credits only what has accrued.
LEMMA ClaimTraced ==
    ASSUME TypeOK, CursorSeparates, ClaimsTraced, [Next]_vars, Claim
    PROVE  ClaimsTraced'
  <1>1. /\ LpTypeOK /\ lpSharesOf \in [Users -> Nat] /\ lpFeeCredit \in [Users -> Nat]
        /\ winnerFeePaid \in [Users -> Nat]
    BY DEF TypeOK, AccountTypeOK, LpTypeOK
  <1>2. \A u \in Users, kind \in {"AddLiquidity", "Buy"} : Done(u, kind) => Done(u, kind)'
    BY DoneStays
  <1>3. ASSUME NEW u \in Users, ClaimLpFees(u)
        PROVE  ClaimsTraced'
    <2>1. /\ UNCHANGED <<lpSharesOf, winnerFeePaid>>
          /\ lpFeeCredit' = [lpFeeCredit EXCEPT ![u] = 0]
      BY <1>3 DEF ClaimLpFees, CollectFees, holderVars
    <2> QED
      BY <1>1, <1>2, <2>1 DEF ClaimsTraced
  <1>4. ASSUME NEW u \in Users, SettleLpInventory(u)
        PROVE  ClaimsTraced'
    <2>1. /\ lpSharesOf[u] # 0 /\ UNCHANGED winnerFeePaid
          /\ lpFeeCredit' = [lpFeeCredit EXCEPT ![u] = Accrued(u)]
          /\ lpSharesOf' = [lpSharesOf EXCEPT ![u] = 0]
      BY <1>4 DEF SettleLpInventory, BurnShares, holderVars
    <2> QED
      BY <1>1, <1>2, <2>1 DEF ClaimsTraced
  <1>5. ASSUME NEW u \in Users, ClaimInvalidWinnerFeeRefund(u)
        PROVE  ClaimsTraced'
    <2>1. /\ UNCHANGED <<lpSharesOf, lpFeeCredit>>
          /\ winnerFeePaid' = [winnerFeePaid EXCEPT ![u] = 0]
      BY <1>5 DEF ClaimInvalidWinnerFeeRefund, lpVars
    <2> QED
      BY <1>1, <1>2, <2>1 DEF ClaimsTraced
  <1>6. CASE UNCHANGED <<lpSharesOf, lpFeeCredit, winnerFeePaid>>
    BY <1>2, <1>6 DEF ClaimsTraced
  <1>7. ASSUME NEW u \in Users, RedeemPositions(u)
        PROVE  UNCHANGED <<lpSharesOf, lpFeeCredit, winnerFeePaid>>
    BY <1>7 DEF RedeemPositions, lpVars
  <1>8. ASSUME NEW p \in Side, ClaimWinnerReward(p) \/ PostIntegrityBond(p) \/ ClaimIntegrityBond(p)
        PROVE  UNCHANGED <<lpSharesOf, lpFeeCredit, winnerFeePaid>>
    BY <1>8 DEF ClaimWinnerReward, PostIntegrityBond, ClaimIntegrityBond, accountVars, lpVars,
                holderVars
  <1> QED
    BY <1>3, <1>4, <1>5, <1>6, <1>7, <1>8 DEF Claim

LEMMA TraceStep ==
    ASSUME TypeOK, CursorSeparates, ClaimsTraced, [Next]_vars
    PROVE  ClaimsTraced'
  <1>1. CASE \E e \in Epoch : ProcessEpoch(e)
    BY <1>1, ProcessTraced
  <1>2. CASE Claim
    BY <1>2, ClaimTraced
  <1>3. CASE Submit \/ ProvideLiquidity \/ Tick \/ Gate \/ Resolve \/ UNCHANGED vars
    <2>1. \A u \in Users, kind \in {"AddLiquidity", "Buy"} : Done(u, kind) => Done(u, kind)'
      BY DoneStays
    <2>2. CASE Submit \/ ProvideLiquidity
      <3>1. UNCHANGED <<lpVars, winnerFeePaid>>
        BY <2>2 DEF Submit, ProvideLiquidity, SubmitBuy, SubmitSell, SubmitPositionTransfer,
                    SubmitAddLiquidity, SubmitVars
      <3> QED
        BY <2>1, <3>1 DEF ClaimsTraced, lpVars
    <2>3. CASE Tick \/ Gate \/ Resolve \/ UNCHANGED vars
      <3>1. UNCHANGED <<lpVars, winnerFeePaid>>
        BY <2>3, ResolveFrame DEF Tick, Gate, vars, accountVars, holderVars
      <3> QED
        BY <2>1, <3>1 DEF ClaimsTraced, lpVars
    <2> QED
      BY <1>3, <2>2, <2>3
  <1> QED
    BY <1>1, <1>2, <1>3 DEF Next

\* Whoever has a claim has a row, and a row of one who has a claim says so.
LEMMA RowTells ==
    ASSUME TypeOK, ClaimsTraced, finalOutcome # "Unset", NEW u \in Users,
           HasSomethingToClaim(u)
    PROVE  /\ RowOf(u).claimable
           /\ RowOf(u).detail \notin {"none", "lost", "settled", "nothing owed"}
  <1>1. /\ LpTypeOK /\ lpSharesOf[u] \in Nat /\ lpFeeCredit[u] \in Nat
        /\ winnerFeePaid[u] \in Nat /\ \A s \in Side : positionOf[u][s] \in Nat
        /\ finalOutcome \in {"Unset", "A", "B", "Tie", "Invalid"}
    BY DEF TypeOK, AccountTypeOK, LpTypeOK, ResultTypeOK, Outcome, Side
  <1>2. OwedLpFees(u) \in Nat
    BY <1>1, NothingAccrues, AccruedNat
  <1>3. Held(u) \/ Traded(u) \/ Claimed(u)
    <2>1. CASE PositionsOwed(u) \/ lpSharesOf[u] > 0
      BY <2>1 DEF PositionsOwed, Held
    <2>2. CASE OwedLpFees(u) > 0
      <3>1. lpSharesOf[u] # 0 \/ lpFeeCredit[u] # 0
        BY <1>1, <1>2, <2>2, NothingAccrues
      <3>2. Done(u, "AddLiquidity")
        BY <3>1 DEF ClaimsTraced
      <3> QED
        BY <3>2 DEF Done, Claimed
    <2>3. CASE RefundableWinnerFee(u) > 0
      <3>1. winnerFeePaid[u] # 0
        BY <1>1, <2>3 DEF RefundableWinnerFee
      <3>2. Done(u, "Buy")
        BY <3>1 DEF ClaimsTraced
      <3> QED
        BY <3>2 DEF Done, Traded
    <2> QED
      BY <2>1, <2>2, <2>3 DEF HasSomethingToClaim
  <1>4. RowOf(u) = [claimable |-> HasSomethingToClaim(u), detail |-> SettledDetail(u)]
    BY <1>3 DEF RowOf
  <1>5. SettledDetail(u) \in {"waiting", "fees waiting"}
    <2>1. ~(/\ HeldTheLosingSide(u) /\ lpSharesOf[u] = 0
            /\ OwedLpFees(u) = 0 /\ RefundableWinnerFee(u) = 0)
          \/ finalOutcome \notin Side
      <3> SUFFICES ASSUME finalOutcome \in Side, HeldTheLosingSide(u), lpSharesOf[u] = 0,
                          OwedLpFees(u) = 0, RefundableWinnerFee(u) = 0
                   PROVE  FALSE
        OBVIOUS
      <3>1. PositionsOwed(u)
        BY DEF HasSomethingToClaim
      <3>2. positionOf[u][finalOutcome] > 0
        BY <3>1 DEF PositionsOwed, Side
      <3> QED
        BY <3>2 DEF HeldTheLosingSide
    <2> QED
      BY <1>1, <2>1 DEF SettledDetail, Side
  <1>6. RowOf(u).claimable = HasSomethingToClaim(u) /\ RowOf(u).detail = SettledDetail(u)
    <2> DEFINE owed == HasSomethingToClaim(u)
               said == SettledDetail(u)
    <2>1. RowOf(u) = [claimable |-> owed, detail |-> said]
      BY <1>4
    <2> HIDE DEF owed, said
    <2>2. [claimable |-> owed, detail |-> said].claimable = owed
      OBVIOUS
    <2>3. [claimable |-> owed, detail |-> said].detail = said
      OBVIOUS
    <2> QED
      BY <2>1, <2>2, <2>3 DEF owed, said
  <1>7. RowOf(u).detail \notin {"none", "lost", "settled", "nothing owed"}
    BY <1>5, <1>6
  <1> QED
    BY <1>6, <1>7

\* Each of the four claims pays what the account is owed.
LEMMA PaymentShown ==
    ASSUME TypeOK, ClaimsTraced, finalOutcome # "Unset", NEW u \in Users, ClaimOf(u)
    PROVE  /\ balance' < balance => HasSomethingToClaim(u)
           /\ ClaimLpFees(u) => balance' = balance - OwedLpFees(u)
  <1>1. /\ LpTypeOK /\ lpSharesOf[u] \in Nat /\ winnerFeePaid[u] \in Nat
        /\ \A s \in Side : positionOf[u][s] \in Nat
        /\ finalOutcome \in {"Unset", "A", "B", "Tie", "Invalid"} /\ balance \in Nat
    BY DEF TypeOK, AccountTypeOK, LpTypeOK, ResultTypeOK, Outcome
  <1>2. Accrued(u) = OwedLpFees(u) /\ Accrued(u) \in Nat
    BY <1>1, NothingAccrues, AccruedNat
  <1>3. ClaimLpFees(u) => balance' = balance - OwedLpFees(u)
    BY <1>2 DEF ClaimLpFees, PayOut
  <1>4. CASE ClaimLpFees(u)
    <2>1. Accrued(u) # 0
      BY <1>4 DEF ClaimLpFees, CollectFees
    <2> QED
      BY <1>2, <1>3, <2>1 DEF HasSomethingToClaim
  <1>5. CASE RedeemPositions(u)
    <2>1. balance' = balance - ResolvedValue(positionOf[u]["A"], positionOf[u]["B"])
      BY <1>5 DEF RedeemPositions, PayFromBacking, PayOut
    <2>2. positionOf[u]["A"] \in Nat /\ positionOf[u]["B"] \in Nat
      BY <1>1 DEF Side
    <2>3. ASSUME balance' < balance
          PROVE  PositionsOwed(u)
      <3>1. ResolvedValue(positionOf[u]["A"], positionOf[u]["B"]) # 0
        BY <1>1, <2>1, <2>3
      <3>2. CASE finalOutcome \in {"A", "B"}
        BY <2>2, <3>1, <3>2 DEF ResolvedValue, PositionsOwed, Side
      <3>3. CASE finalOutcome \in {"Tie", "Invalid"}
        <4>1. positionOf[u]["A"] > 0 \/ positionOf[u]["B"] > 0
          BY <2>2, <1>5 DEF RedeemPositions
        <4> QED
          BY <3>3, <4>1 DEF PositionsOwed, Side
      <3> QED
        BY <1>1, <3>2, <3>3
    <2>4. ~ClaimLpFees(u) \/ balance' = balance - OwedLpFees(u)
      BY <1>3
    <2> QED
      BY <2>3, <2>4 DEF HasSomethingToClaim
  <1>6. CASE SettleLpInventory(u)
    BY <1>1, <1>3, <1>6 DEF SettleLpInventory, HasSomethingToClaim
  <1>7. CASE ClaimInvalidWinnerFeeRefund(u)
    BY <1>1, <1>3, <1>7 DEF ClaimInvalidWinnerFeeRefund, HasSomethingToClaim, RefundableWinnerFee
  <1> QED
    BY <1>4, <1>5, <1>6, <1>7 DEF ClaimOf

\* The history an account is shown lists every market that would pay it anything, says
\* that there is something to claim, and shows the fees a claim pays (portfolio.mjs).
THEOREM PaymentsShown == Spec => PaymentsWereShown
  <1> DEFINE Shown == finalOutcome # "Unset" => \A u \in Users : ClaimOf(u) =>
                /\ balance' < balance =>
                      /\ RowOf(u).claimable
                      /\ RowOf(u).detail \notin {"none", "lost", "settled", "nothing owed"}
                /\ ClaimLpFees(u) => balance' = balance - OwedLpFees(u)
  <1>1. Init => ClaimsTraced
    BY DEF Init, LpInit, ClaimsTraced
  <1>2. TypeOK /\ CursorSeparates /\ ClaimsTraced /\ [Next]_vars => ClaimsTraced'
    BY TraceStep
  <1>3. TypeOK /\ ClaimsTraced => Shown
    BY PaymentShown, RowTells
  <1> QED
    BY <1>1, <1>2, <1>3, TypeCorrect, QueueOrdered, PTL DEF Spec, PaymentsWereShown

===============================================================================
