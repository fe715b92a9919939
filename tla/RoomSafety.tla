------------------------------- MODULE RoomSafety -------------------------------
(***************************************************************************)
(* What LiveRoom promises about its gate, its list of open slots and its   *)
(* bonds.                                                                  *)
(***************************************************************************)
EXTENDS LiveRoom, Functions

RoomTypeOK ==
    /\ now \in Time
    /\ lastObservedSequence \in Nat /\ lastGateActivityAt \in Time
    /\ roomClosedSequence \in Nat /\ roomClosedAt \in Time /\ closedByStall \in BOOLEAN
    /\ usedNonce \subseteq Nonces
    /\ slotCount \in 0 .. MaxSlots

MarketsTypeOK ==
    /\ gateState \in [Slot -> {"Open", "Suspended", "Closed"}]
    /\ closedEpoch \in [Slot -> Epoch]
    /\ decisiveSequence \in [Slot -> Nat]
    /\ lastSafeSequence \in [Slot -> Nat]
    /\ epochSafeSequence \in [Slot -> [Epoch -> Nat]]
    /\ funded \in [Slot -> BOOLEAN] /\ final \in [Slot -> BOOLEAN]

BondsTypeOK ==
    /\ integrityBondOf \in [Participants -> {0, ROOM_INTEGRITY_BOND}]
    /\ integrityBondClaimed \in [Participants -> BOOLEAN]
    /\ claims \in Seq(Claim)
    /\ openClaimsAgainst \in [Participants -> Nat]
    /\ balance \in Nat

ListTypeOK ==
    /\ openSlots \in Seq(Slot)
    /\ openIndexPlusOne \in [Slot -> Nat]

\* The state has its type.
TypeOK == RoomTypeOK /\ MarketsTypeOK /\ BondsTypeOK /\ ListTypeOK

-------------------------------------------------------------------------------
(* The gate. *)

\* No market's watermark is ahead of the room's: the bound the closing sequence
\* of closeRoom and of closeRoomOnGateStall relies on.
WatermarkBoundsMarkets ==
    \A s \in Slot : /\ lastSafeSequence[s] <= lastObservedSequence
                    /\ gateState[s] = "Closed" => lastSafeSequence[s] < decisiveSequence[s]

\* "So the close is accepted by all of them": whatever failed before, every slot
\* of a closed room can still be closed at the room's closing sequence.
EverySlotCanClose ==
    RoomIsClosed => \A s \in Published : gateState[s] = "Closed" \/ AcceptsClose(s, roomClosedSequence)

\* A decided question is over for good: once a market is closed the room clears
\* none of its epochs any more, not even one before the decisive event, and
\* never reopens it; and it was decided within what the room has observed.
ClosedSlotIsFrozen ==
    [][\A s \in Slot : gateState[s] = "Closed" =>
         /\ gateState'[s] = "Closed"
         /\ lastSafeSequence'[s] = lastSafeSequence[s]
         /\ epochSafeSequence'[s] = epochSafeSequence[s]
         /\ decisiveSequence'[s] = decisiveSequence[s]]_vars

\* A decisive event is never behind the room, or at a sequence at which an
\* epoch of that market was cleared; a closed room has fixed its last one.
DecidedWithinRoom ==
    \A s \in Slot : gateState[s] = "Closed" =>
        /\ s \in Published
        /\ decisiveSequence[s] <= IF RoomIsClosed THEN roomClosedSequence ELSE lastObservedSequence
        /\ \A e \in Epoch : EpochSafe(s, e) =>
              epochSafeSequence[s][e] < decisiveSequence[s] /\ e < closedEpoch[s]

\* "closeRoom is irreversible and blocks all further publication".
ClosedRoomIsFinal ==
    [][RoomIsClosed => /\ roomClosedSequence' = roomClosedSequence
                       /\ roomClosedAt' = roomClosedAt
                       /\ slotCount' = slotCount
                       /\ lastObservedSequence' = lastObservedSequence]_vars

\* The room as its traders see it: a market that is not closed is not decided.
DecidedAt == [s \in Slot |-> IF gateState[s] = "Closed" THEN decisiveSequence[s] ELSE 0]
Promised == INSTANCE Session WITH
    Questions <- Slot, Epochs <- Epoch, observed <- lastObservedSequence, asked <- slotCount,
    cleared <- epochSafeSequence, decided <- DecidedAt, ended <- roomClosedSequence

\* The room is a session as Session promises it, whatever is published, gated and closed in
\* whichever order, and whichever calls to its markets fail (markRoomEpochsSafe, suspendRoom,
\* reopenRoom, closeSlots, closeRoom, closeRoomOnGateStall, closeRemainingSlots).
RoomIsSession == Promised!SessionSpec

\* One market of the room.
MarketOf(s) == INSTANCE RoomMarket WITH
    gateState <- gateState[s], closedEpoch <- closedEpoch[s],
    decisiveSequence <- decisiveSequence[s], lastSafeSequence <- lastSafeSequence[s],
    epochSafeSequence <- epochSafeSequence[s], funded <- funded[s], final <- final[s]

\* Whatever the room does, and however many of its calls are refused, it changes each of its
\* markets as that market could be changed alone: what it relies on in a market (the sequences
\* it accepts, hasLiquidity, a result) is what LivePredictionMarket gives it (IsRoomMarket).
MarketsMove == \A s \in Slot : MarketOf(s)!Moves
RoomOfMarkets ==
    /\ \A s \in Slot : MarketOf(s)!NewMarket
    /\ [][MarketsMove]_roomGateVars

\* The swap-and-pop list of open slots is exactly the published markets whose
\* gate is not closed, each once, and each knows its place in the list.
OpenListExact ==
    /\ \A i \in DOMAIN openSlots : openIndexPlusOne[openSlots[i]] = i
    /\ \A s \in Slot : openIndexPlusOne[s] # 0 <=> s \in Published /\ gateState[s] # "Closed"
    /\ \A s \in Slot : openIndexPlusOne[s] # 0 =>
          openIndexPlusOne[s] \in DOMAIN openSlots /\ openSlots[openIndexPlusOne[s]] = s
    /\ Len(openSlots) <= MaxOpenSlots

-------------------------------------------------------------------------------
(* The bonds. *)

OpenClaims == {id \in DOMAIN claims : claims[id].status = "Open"}

\* The room holds exactly the integrity bonds and the bonds of the open claims.
RoomHoldsBondsOnly ==
    balance = SumFunction(integrityBondOf) + INTEGRITY_CLAIM_BOND * Cardinality(OpenClaims)

\* A bond leaves only when the room is closed and either every market is final,
\* the claim window is over and no claim against it is open, or one is upheld.
BondReleasedAtEnd ==
    [][\A p \in Participants : integrityBondOf'[p] < integrityBondOf[p] =>
         /\ RoomIsClosed
         /\ \/ /\ \A s \in Published : final[s]
               /\ now >= roomClosedAt + IntegrityClaimWindow
               /\ \A id \in OpenClaims : claims[id].participant # p
            \/ \E id \in OpenClaims : claims[id].participant = p /\ claims'[id].status = "Upheld"]_vars

\* While the room can still publish or a market is not final, both participants'
\* bonds are there unless a claim was upheld: markets never run unbonded.
MarketsAreBonded ==
    (\E s \in Published : ~final[s]) =>
        \A p \in Participants :
            \/ integrityBondOf[p] = ROOM_INTEGRITY_BOND
            \/ \E id \in DOMAIN claims : claims[id].participant = p /\ claims[id].status = "Upheld"

\* The bonds that stand behind the markets are there, and nothing else is.
BondsAreKept == RoomHoldsBondsOnly /\ MarketsAreBonded

-------------------------------------------------------------------------------
(* Recovery, under Fairness. *)

\* A gate that falls silent cannot keep the room open, nor any slot of it.
SilentGateClosesRoom == <>[](RoomIsClosed /\ \A s \in Published : final[s])

\* The model's clock stops before the claim window and the claims can run out.
ClockEndsFirst ==
    RoomIsClosed /\ roomClosedAt + IntegrityClaimWindow + IntegrityClaimTimeout > MaxTime

\* "Integrity Bonds all become claimable": a bond posted before the room closed
\* leaves the room, whoever files claims and even if nobody rules on them.
BondsLeave ==
    \A p \in Participants :
        (~RoomIsClosed /\ integrityBondOf[p] # 0) ~> (integrityBondOf[p] = 0 \/ ClockEndsFirst)

\* Whoever falls silent, gate or adjudicator, the room ends and pays its bonds back.
RoomWindsDown == SilentGateClosesRoom /\ BondsLeave

===============================================================================
