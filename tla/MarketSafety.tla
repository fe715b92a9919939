----------------------------- MODULE MarketSafety -----------------------------
(***************************************************************************)
(* What LivePredictionMarket promises: its type invariant, its safety      *)
(* invariants, what no step may do, and what must eventually happen.       *)
(***************************************************************************)
EXTENDS LivePredictionMarket, Functions

GateTypeOK ==
    /\ gateState \in {"Open", "Suspended", "Closed"}
    /\ closedEpoch \in Nat /\ decisiveSequence \in Nat
    /\ lastSafeSequence \in Nat /\ resolutionDueAt \in Nat
    /\ epochSafeSequence \in [Epoch -> Nat]

ResultTypeOK ==
    /\ provisionalOutcome \in Outcome /\ provisionalAt \in Nat
    /\ finalOutcome \in Outcome
    /\ resultAttestedBy \subseteq (Outcome \ {"Unset"}) \X Evidence \X Resolvers

ChallengeTypeOK ==
    /\ challenged \in BOOLEAN /\ challengedAt \in Nat /\ challengeBond \in Nat
    /\ challengeVerdictBy \subseteq BOOLEAN \X Resolvers

BondTypeOK ==
    /\ integrityBondOf \in [Side -> Nat]
    /\ integrityBondClaimed \in [Side -> BOOLEAN]
    /\ totalIntegrityBondLiability \in Nat

AccountTypeOK ==
    /\ LpTypeOK
    /\ reserve \in [Side -> Nat] /\ collateralBacking \in Nat
    /\ positionOf \in [Users -> [Side -> Nat]] /\ winnerFeePaid \in [Users -> Nat]
    /\ winnerRewardPool \in Nat /\ winnerRewardClaimed \in [Side -> BOOLEAN]

QueueTypeOK ==
    /\ actions \in Seq(Action)
    /\ epochActionIds \in [Epoch -> Seq(DOMAIN actions)]
    /\ epochCursor \in [Epoch -> Nat]
    /\ pendingCollateral \in Nat

\* The state has its type: in particular no balance or counter is negative,
\* which the contract's unsigned integers could not hold.
TypeOK ==
    /\ now \in 0 .. MaxTime
    /\ GateTypeOK /\ ResultTypeOK /\ ChallengeTypeOK
    /\ BondTypeOK /\ AccountTypeOK /\ QueueTypeOK
    /\ balance \in Nat

-------------------------------------------------------------------------------
(* Money. *)

\* Every unit of collateral the contract holds is accounted to exactly one
\* liability, and every liability is held: accountedLiabilities() = balance.
LiabilitiesMatchBalance == balance = AccountedLiabilities

PendingIds == {id \in DOMAIN actions : actions[id].status = "Pending"}

\* Outcome positions on side s: the pool's, the users', and those in escrow.
Escrowed(s) == SumFunction([id \in {i \in PendingIds :
                    /\ actions[i].kind \in {"Sell", "Transfer"}
                    /\ actions[i].side = s} |-> actions[id].amount])
Outstanding(s) ==
    reserve[s] + SumFunction([u \in Users |-> positionOf[u][s]]) + Escrowed(s)

\* Every outcome position is fully collateralized: before the result, one unit
\* of backing per complete set, exactly; afterwards, enough for whatever the
\* result makes the outstanding positions worth, whoever claims in what order.
PositionsCollateralized ==
    CASE finalOutcome = "Unset" ->
            \A s \in Side : Outstanding(s) = collateralBacking
      [] finalOutcome \in Side -> Outstanding(finalOutcome) <= collateralBacking
      [] OTHER -> Outstanding("A") + Outstanding("B") <= 2 * collateralBacking

\* Every running total is what it summarises: the escrow is the collateral of
\* the pending actions, so none is kept or paid twice; the winner reward pool is
\* what each fee payer could be refunded as long as the market may become
\* Invalid; the shares are the providers', and stand for reserves on both sides,
\* so nothing divides by zero (_distributeLpFee's comment tells of such a panic).
EscrowMatchesQueue ==
    pendingCollateral = SumFunction([id \in {i \in PendingIds :
        actions[i].kind \in {"Buy", "AddLiquidity"}} |-> actions[id].amount])
WinnerFeesRefundable ==
    finalOutcome \in {"Unset", "Invalid"} =>
        winnerRewardPool = SumFunction(winnerFeePaid)
SharesAreBacked ==
    /\ totalLpShares = SumFunction(lpSharesOf)
    /\ totalLpShares # 0 => \A s \in Side : reserve[s] # 0
TotalsMatchHolders == EscrowMatchesQueue /\ WinnerFeesRefundable /\ SharesAreBacked

\* An amount the contract can pay out of one of its accounts: neither that account
\* nor the collateral it holds runs short.
Covers(account, amount) == amount <= account /\ amount <= balance

\* Once the result is final nothing stops a holder: whoever has claimed before, the
\* next redemption, settlement of shares, refund or reward takes no more than is
\* left, so its checked subtractions cannot revert.
ClaimsGoThrough ==
    finalOutcome # "Unset" =>
        /\ \A u \in Users :
             /\ Covers(collateralBacking,
                       ResolvedValue(positionOf[u]["A"], positionOf[u]["B"]))
             /\ lpSharesOf[u] # 0 =>
                  /\ lpSharesOf[u] <= totalLpShares
                  /\ \A s \in Side : InventoryShare(u, s) <= reserve[s]
                  /\ Covers(collateralBacking,
                            ResolvedValue(InventoryShare(u, "A"), InventoryShare(u, "B")))
             /\ finalOutcome = "Invalid" => Covers(winnerRewardPool, winnerFeePaid[u])
        /\ \A s \in Side : Covers(winnerRewardPool, WinnerPayout(s))

\* Whatever the market owes its holders is there, one by one and in total, and each
\* can take it.
HoldersAreBacked ==
    /\ LiabilitiesMatchBalance /\ PositionsCollateralized /\ TotalsMatchHolders
    /\ ClaimsGoThrough

\* The next action of epoch e is waiting, and neither its execution nor its refund
\* divides by zero or takes more than the escrow, the backing, a reserve or the
\* contract holds.
NextGoesThrough(e) ==
    LET a == actions[NextId(e)]
        q == SellQuote(a)
    IN  /\ a.status = "Pending"
        /\ Computable(a)
        /\ a.kind \in {"Buy", "AddLiquidity"} => Covers(pendingCollateral, a.amount)
        /\ a.kind = "Sell" => /\ q.newOtherReserve >= 0
                              /\ Covers(collateralBacking, q.grossCollateral)
                              /\ Covers(collateralBacking, q.collateralOut)

MayProcess(e) == HasNext(e) /\ (CanExecute(e) \/ CanRefund(e))

NextAlwaysGoesThrough == \A e \in Epoch : MayProcess(e) => NextGoesThrough(e)

\* No arithmetic of an epoch that may be processed reverts: whatever was
\* submitted and claimed before, the next action executes or is refunded.
QueueNeverWedged ==
    /\ NextAlwaysGoesThrough
    /\ \A e \in Epoch : MayProcess(e) => ENABLED ProcessEpoch(e)

-------------------------------------------------------------------------------
(* The gate and the queue. *)

\* Each epoch's cursor separates its settled actions from its pending ones: an
\* action is settled once, in its own epoch, in submission order.
CursorSeparates ==
    \A e \in Epoch :
        /\ epochCursor[e] <= Len(epochActionIds[e])
        /\ \A i \in 1 .. Len(epochActionIds[e]) :
             /\ epochActionIds[e][i] \in DOMAIN actions
             /\ actions[epochActionIds[e][i]].epoch = e
             /\ actions[epochActionIds[e][i]].status = "Pending" <=> i > epochCursor[e]
             /\ \A j \in 1 .. i - 1 : epochActionIds[e][j] < epochActionIds[e][i]

\* An action executes only in an epoch cleared by an attestation, and none of
\* the decisive epoch or later ever does, however late it is processed.
OnlyClearedEpochsExecute ==
    \A id \in DOMAIN actions :
        actions[id].status = "Executed" =>
            /\ EpochSafe(actions[id].epoch)
            /\ gateState = "Closed" => actions[id].epoch < closedEpoch

\* Attestations are monotonic statements about the source: no two epochs are
\* cleared at one sequence, none is above the watermark, and a closed market
\* cleared nothing at or past the decisive event or in its epoch.
SafeBeforeDecisive ==
    /\ \A e \in Epoch : epochSafeSequence[e] <= lastSafeSequence
    /\ \A e1, e2 \in Epoch : EpochSafe(e1) /\ e1 # e2 =>
            epochSafeSequence[e1] # epochSafeSequence[e2]
    /\ gateState = "Closed" =>
            /\ lastSafeSequence < decisiveSequence
            /\ \A e \in Epoch : EpochSafe(e) => e < closedEpoch

\* Whatever was executed was submitted in an epoch that the gate cleared at a
\* source sequence before the decisive event's.
ClearedBeforeDecision == OnlyClearedEpochsExecute /\ SafeBeforeDecisive

\* Forecasting close is irreversible, the watermark never moves back, and an
\* epoch once cleared stays cleared at its sequence.
GateIsMonotone ==
    [][/\ lastSafeSequence' >= lastSafeSequence
       /\ \A e \in Epoch : EpochSafe(e) => epochSafeSequence'[e] = epochSafeSequence[e]
       /\ gateState = "Closed" =>
            gateState' = "Closed" /\ closedEpoch' = closedEpoch
                /\ decisiveSequence' = decisiveSequence]_vars

\* The market as its room sees it.
Seen == INSTANCE RoomMarket WITH
    funded <- totalLpShares # 0, final <- finalOutcome # "Unset"

\* Whatever its users, its gate, its resolvers and its holders do, in whichever order, the
\* market is what its room takes it for: cleared at ever later points, closed once, beyond
\* them all, funded only by a cleared epoch, final only once closed and for good, and without
\* liquidity again only after that (hasLiquidity, which LiveRoom reads of its headline).
IsRoomMarket == Seen!MarketSpec

\* Once the decisive event is recorded no pending action of its epoch or of a
\* later one can be executed: it stays pending or it is refunded.
ClosedEpochsOnlyRefund ==
    [][\A id \in DOMAIN actions :
         gateState = "Closed" /\ actions[id].epoch >= closedEpoch
             => actions'[id].status # "Executed"]_vars

\* doc: "Apply cleared actions in deterministic on-chain submission order": an
\* action executes only after every earlier-submitted one that will execute.
ExecutedInSubmissionOrder ==
    [][\A id \in DOMAIN actions :
         actions[id].status = "Pending" /\ actions'[id].status = "Executed" =>
            \A later \in id + 1 .. Len(actions) : actions[later].status # "Executed"]_vars

-------------------------------------------------------------------------------
(* Resolution. *)

Quorum(outcome) == \E evidence \in Evidence :
    Cardinality(Attested(outcome, evidence)) >= 2

\* A result needs two of three resolvers behind one outcome and one evidence
\* bundle; only one result can be provisional; a final result is that one or
\* Invalid, and never a side that two resolvers found against.
ResultHasQuorum ==
    /\ provisionalOutcome # "Unset" => Quorum(provisionalOutcome)
    /\ \A o \in Outcome : Quorum(o) => provisionalOutcome = o
    /\ finalOutcome \in {"Unset", "Invalid", provisionalOutcome}
    /\ finalOutcome \notin {"Unset", "Invalid"} => Cardinality(VerdictBy(TRUE)) < 2
    /\ provisionalOutcome # "Unset" => gateState = "Closed"

\* "A Provisional Result releases no Collateral, reward, bond, or LP settlement":
\* while the market is not final, reserves leave only by executed trades, and
\* rewards, shares and bonds never shrink; and a final result never changes.
NothingReleasedBeforeFinal ==
    [][/\ finalOutcome # "Unset" => finalOutcome' = finalOutcome
       /\ finalOutcome = "Unset" =>
            /\ winnerRewardPool' >= winnerRewardPool
            /\ totalLpShares' >= totalLpShares
            /\ totalIntegrityBondLiability' >= totalIntegrityBondLiability
            /\ collateralBacking' < collateralBacking => actions' # actions]_vars

\* A challenge bond is held exactly while its challenge, of a provisional result,
\* is undecided.
ChallengeBondHeld ==
    /\ challengeBond # 0 => challenged /\ finalOutcome = "Unset"
    /\ challenged => provisionalOutcome # "Unset"
    /\ challenged /\ finalOutcome = "Unset" => challengeBond = CHALLENGE_BOND

\* doc: "A sole final Winner receives the entire Winner Reward Pool": once the
\* winner has claimed, nothing is left that nobody can claim.
WinnerReceivesWholePool ==
    finalOutcome \in Side /\ winnerRewardClaimed[finalOutcome] => winnerRewardPool = 0

-------------------------------------------------------------------------------
(* Liveness, under Fairness. *)

\* No action is trapped: whatever the gate does or fails to do, every submitted
\* action is eventually executed or refunded.  (Submissions end, a settled action
\* stays settled and a final result stays final, so <>[] says it of each one.)
EveryActionSettles == <>[](\A id \in DOMAIN actions : actions[id].status # "Pending")

\* A closed market reaches a final result even if no resolver ever attests and
\* no challenge is ever ruled on.
ClosedMarketFinalizes == <>[](gateState = "Closed" => finalOutcome # "Unset")

\* Nothing a market has begun is left undone (processEpoch, finalizeUnchallenged,
\* expireChallenge, invalidateUnresolved, each callable by anyone).
MarketSettles == EveryActionSettles /\ ClosedMarketFinalizes

===============================================================================
