------------------------------- MODULE RoomGate -------------------------------
(***************************************************************************)
(* contracts/src/LiveRoom.sol, the part that publishes markets and gates   *)
(* them: the room's source watermark, the list of open slots, the batched  *)
(* calls to the markets, whose failures are isolated, and the two ways a   *)
(* room closes.  Of each market it keeps what these calls read and write:  *)
(* the gate of LivePredictionMarket.sol, whether it has liquidity, and     *)
(* whether it is final.  LiveRoom adds the integrity bonds; GateAuthority  *)
(* adds the process that calls it.                                         *)
(*                                                                         *)
(* A slot is named by its index.  A batch has no market twice: the effect  *)
(* of a list that does is that of one without, since a market accepts one  *)
(* call per source sequence.                                               *)
(***************************************************************************)
EXTENDS Integers, Sequences, FiniteSets, Folds

CONSTANTS MaxSlots,            \* bound: slots ever published
          MaxOpenSlots, EpochDuration, SourceFinalityDelay,
          MinAnnounceDelay, MaxPermitLifetime, GateStallTimeout,
          MAX_BATCH,
          Nonces, SourceSequences, AnnounceDelays,
          MaxTime,             \* bound: the clock stops here
          Horizon              \* bound: the gate and the publisher act until here

Slot == 0 .. MaxSlots - 1
Epoch == 0 .. (MaxTime \div EpochDuration)
Time == 0 .. MaxTime

ASSUME RoomAssumption ==
    /\ {MaxOpenSlots, EpochDuration, SourceFinalityDelay,
        MaxPermitLifetime, GateStallTimeout, MAX_BATCH} \subseteq Nat \ {0}
    /\ {MaxSlots, MinAnnounceDelay, MaxTime, Horizon} \subseteq Nat
    /\ SourceSequences \subseteq Nat \ {0}
    /\ AnnounceDelays \subseteq Nat

VARIABLES
    now,
    lastObservedSequence, lastGateActivityAt,
    roomClosedSequence, roomClosedAt, closedByStall,
    usedNonce,
    slotCount,                \* _slots.length
    openSlots,                \* _openSlots
    openIndexPlusOne,         \* _openIndexPlusOne
    \* the markets
    gateState, closedEpoch, decisiveSequence, lastSafeSequence, epochSafeSequence,
    funded,                   \* hasLiquidity()
    final                     \* finalOutcome() # Unset

watermarkVars == <<lastObservedSequence, lastGateActivityAt>>
closingVars == <<roomClosedSequence, roomClosedAt, closedByStall>>
listVars == <<usedNonce, slotCount, openSlots, openIndexPlusOne>>
closeVars == <<closedEpoch, decisiveSequence>>
safeVars == <<lastSafeSequence, epochSafeSequence>>
gateVars == <<gateState, closeVars, safeVars>>
marketVars == <<gateVars, funded, final>>
roomVars == <<watermarkVars, closingVars, listVars>>
roomGateVars == <<now, roomVars, marketVars>>

Published == 0 .. slotCount - 1
RoomIsClosed == roomClosedSequence # 0
CurrentEpoch == now \div EpochDuration
EpochSafe(s, e) == epochSafeSequence[s][e] # 0

RoomGateInit ==
    /\ now = 0
    /\ lastObservedSequence = 0 /\ lastGateActivityAt = 0
    /\ roomClosedSequence = 0 /\ roomClosedAt = 0 /\ closedByStall = FALSE
    /\ usedNonce = {} /\ slotCount = 0
    /\ openSlots = <<>>
    /\ openIndexPlusOne = [s \in Slot |-> 0]
    /\ gateState = [s \in Slot |-> "Open"]
    /\ closedEpoch = [s \in Slot |-> 0]
    /\ decisiveSequence = [s \in Slot |-> 0]
    /\ lastSafeSequence = [s \in Slot |-> 0]
    /\ epochSafeSequence = [s \in Slot |-> [e \in Epoch |-> 0]]
    /\ funded = [s \in Slot |-> FALSE]
    /\ final = [s \in Slot |-> FALSE]

Tick ==
    /\ now < MaxTime
    /\ now' = now + 1
    /\ UNCHANGED <<roomVars, marketVars>>

-------------------------------------------------------------------------------
(* Publication. *)

\* Permits the gate key may have signed and the publisher may present.  The
\* hashes of the request are the request itself, so a mismatch is a refusal.
Permits == [slotIndex : Slot, undecidedThrough : SourceSequences, announceDelay : AnnounceDelays,
            issuedAt : Time, expiresAt : Time, nonce : Nonces, headlineTemplate : BOOLEAN]

ValidPermit(permit) ==
    /\ permit.slotIndex = slotCount
    /\ permit.issuedAt <= now
    /\ permit.expiresAt > now
    /\ permit.expiresAt > permit.issuedAt
    /\ permit.expiresAt - permit.issuedAt <= MaxPermitLifetime
    /\ now - permit.issuedAt <= MaxPermitLifetime
    /\ permit.nonce \notin usedNonce
    /\ permit.undecidedThrough >= lastObservedSequence

ValidRequest(permit) ==
    /\ permit.announceDelay >= MinAnnounceDelay
    /\ Len(openSlots) < MaxOpenSlots
    /\ IF slotCount = 0 THEN permit.headlineTemplate ELSE funded[0]

\* The watermark advances to the permit's, but publishing is no gate activity.
PublishSlot(participantsReady, permit) ==
    /\ now <= Horizon
    /\ slotCount < MaxSlots
    /\ ~RoomIsClosed
    /\ participantsReady
    /\ ValidPermit(permit)
    /\ ValidRequest(permit)
    /\ usedNonce' = usedNonce \cup {permit.nonce}
    /\ lastObservedSequence' = permit.undecidedThrough
    /\ slotCount' = slotCount + 1
    /\ openSlots' = Append(openSlots, slotCount)
    /\ openIndexPlusOne' = [openIndexPlusOne EXCEPT ![slotCount] = Len(openSlots) + 1]
    /\ UNCHANGED <<now, lastGateActivityAt, closingVars, marketVars>>

-------------------------------------------------------------------------------
(* Gating: one transaction of the gate, whose child calls fail alone. *)

\* Faulty: a closed room is gated on.
AdvanceSequenceClosed(seq) ==
    /\ seq >= lastObservedSequence
    /\ lastObservedSequence' = seq
    /\ lastGateActivityAt' = now

\* _advanceSequence.
AdvanceSequence(seq) ==
    /\ ~RoomIsClosed
    /\ seq >= lastObservedSequence
    /\ lastObservedSequence' = seq
    /\ lastGateActivityAt' = now

\* Faulty: a closed market's epochs are cleared on.
AcceptsSafeClosed(s, e, seq) ==
    /\ e < CurrentEpoch
    /\ now >= (e + 1) * EpochDuration + SourceFinalityDelay
    /\ ~EpochSafe(s, e)
    /\ seq > lastSafeSequence[s]

\* LivePredictionMarket.markEpochSafe accepts.
AcceptsSafe(s, e, seq) ==
    /\ e < CurrentEpoch
    /\ now >= (e + 1) * EpochDuration + SourceFinalityDelay
    /\ ~EpochSafe(s, e)
    /\ seq > lastSafeSequence[s]
    /\ gateState[s] = "Closed" => e < closedEpoch[s] /\ seq < decisiveSequence[s]

\* epochOf maps each listed market to the epoch to clear.
MarkRoomEpochsSafe(seq, epochOf) ==
    LET cleared == {s \in DOMAIN epochOf : AcceptsSafe(s, epochOf[s], seq)} IN
    /\ DOMAIN epochOf \subseteq Published
    /\ AdvanceSequence(seq)
    /\ lastSafeSequence' = [s \in Slot |-> IF s \in cleared THEN seq ELSE lastSafeSequence[s]]
    /\ epochSafeSequence' = [s \in Slot |->
           IF s \in cleared THEN [epochSafeSequence[s] EXCEPT ![epochOf[s]] = seq]
           ELSE epochSafeSequence[s]]
    /\ UNCHANGED <<now, closingVars, listVars, gateState, closeVars, funded, final>>

IsOpenSlot(s) == \E i \in DOMAIN openSlots : openSlots[i] = s

SuspendRoom(seq) ==
    LET accepts(s) == IsOpenSlot(s) /\ gateState[s] = "Open" /\ seq >= lastSafeSequence[s] IN
    /\ AdvanceSequence(seq)
    /\ gateState' = [s \in Slot |-> IF accepts(s) THEN "Suspended" ELSE gateState[s]]
    /\ UNCHANGED <<now, closingVars, listVars, closeVars, safeVars, funded, final>>

ReopenRoom(seq) ==
    LET accepts(s) == IsOpenSlot(s) /\ gateState[s] = "Suspended" /\ seq > lastSafeSequence[s] IN
    /\ AdvanceSequence(seq)
    /\ gateState' = [s \in Slot |-> IF accepts(s) THEN "Open" ELSE gateState[s]]
    /\ lastSafeSequence' = [s \in Slot |-> IF accepts(s) THEN seq ELSE lastSafeSequence[s]]
    /\ UNCHANGED <<now, closingVars, listVars, closeVars, epochSafeSequence, funded, final>>

-------------------------------------------------------------------------------
(* Closing. *)

\* Faulty: the decisive event may be one that an epoch was cleared at.
AcceptsCloseAtSafe(s, seq) == gateState[s] # "Closed" /\ seq >= lastSafeSequence[s]

\* LivePredictionMarket.closeForDecisiveEvent accepts.
AcceptsClose(s, seq) == gateState[s] # "Closed" /\ seq > lastSafeSequence[s]

\* Faulty: the moved slot's index is not updated.
WithoutSlotUnindexed(open, s) ==
    LET i == open.index[s]
        n == Len(open.list)
        moved == open.list[n]
    IN  IF i = 0 THEN open ELSE
        [list |-> SubSeq([open.list EXCEPT ![i] = moved], 1, n - 1),
         index |-> [open.index EXCEPT ![s] = 0]]

\* _removeOpenSlot: the last slot of the list takes the removed one's place.
WithoutSlot(open, s) ==
    LET i == open.index[s]
        n == Len(open.list)
        moved == open.list[n]
    IN  IF i = 0 THEN open ELSE
        [list |-> SubSeq([open.list EXCEPT ![i] = moved], 1, n - 1),
         index |-> [[open.index EXCEPT ![moved] = i] EXCEPT ![s] = 0]]

\* The list after the loop of _closeEach, which removes a market as it closes.
WithoutSlots(markets, closing) ==
    LET open[n \in 0 .. Len(markets)] ==
            IF n = 0 THEN [list |-> openSlots, index |-> openIndexPlusOne]
            ELSE IF markets[n] \in closing THEN WithoutSlot(open[n - 1], markets[n])
            ELSE open[n - 1]
    IN  open[Len(markets)]

\* _closeEach: the markets that refuse the sequence are skipped.
CloseEach(seq, markets) ==
    LET closing == {s \in Published : (\E i \in DOMAIN markets : markets[i] = s)
                                      /\ AcceptsClose(s, seq)}
        open == WithoutSlots(markets, closing)
    IN
    /\ gateState' = [s \in Slot |-> IF s \in closing THEN "Closed" ELSE gateState[s]]
    /\ closedEpoch' = [s \in Slot |-> IF s \in closing THEN CurrentEpoch ELSE closedEpoch[s]]
    /\ decisiveSequence' = [s \in Slot |-> IF s \in closing THEN seq ELSE decisiveSequence[s]]
    /\ openSlots' = open.list
    /\ openIndexPlusOne' = open.index
    /\ UNCHANGED <<now, usedNonce, slotCount, safeVars, funded, final>>

CloseSlots(seq, markets) ==
    /\ AdvanceSequence(seq)
    /\ CloseEach(seq, markets)
    /\ UNCHANGED closingVars

\* Faulty: the room closes on the watermark itself.
ClosingSequenceAsGiven(decisive) ==
    IF decisive >= lastObservedSequence THEN decisive ELSE lastObservedSequence

\* The closing sequence is one past the watermark if the event is not beyond it.
ClosingSequence(decisive) ==
    IF decisive > lastObservedSequence THEN decisive ELSE lastObservedSequence + 1

CloseRoom(decisive) ==
    /\ AdvanceSequence(ClosingSequence(decisive))
    /\ roomClosedSequence' = ClosingSequence(decisive)
    /\ roomClosedAt' = now
    /\ UNCHANGED <<now, closedByStall, listVars, marketVars>>

\* Faulty: the stalled room closes at its watermark.
CloseRoomAtWatermark ==
    /\ ~RoomIsClosed
    /\ now >= lastGateActivityAt + GateStallTimeout
    /\ roomClosedSequence' = lastObservedSequence
    /\ roomClosedAt' = now
    /\ closedByStall' = TRUE
    /\ UNCHANGED <<now, watermarkVars, listVars, marketVars>>

CloseRoomOnGateStall ==
    /\ ~RoomIsClosed
    /\ now >= lastGateActivityAt + GateStallTimeout
    /\ roomClosedSequence' = lastObservedSequence + 1
    /\ roomClosedAt' = now
    /\ closedByStall' = TRUE
    /\ UNCHANGED <<now, watermarkVars, listVars, marketVars>>

CloseRemainingSlots(markets) ==
    /\ RoomIsClosed
    /\ CloseEach(roomClosedSequence, markets)
    /\ UNCHANGED <<watermarkVars, closingVars>>

-------------------------------------------------------------------------------
(* The rest of a market, as the room sees it. *)

\* processRoom or processEpoch: the first deposit of a cleared epoch executes.
FundSlot(s) ==
    /\ s \in Published /\ ~funded[s]
    /\ \E e \in Epoch : EpochSafe(s, e) /\ (gateState[s] = "Closed" => e < closedEpoch[s])
    /\ funded' = [funded EXCEPT ![s] = TRUE]
    /\ UNCHANGED <<now, roomVars, gateVars, final>>

\* The last liquidity provider of a final market settles.
UnfundSlot(s) ==
    /\ funded[s] /\ final[s]
    /\ funded' = [funded EXCEPT ![s] = FALSE]
    /\ UNCHANGED <<now, roomVars, gateVars, final>>

\* Resolution, or invalidation, of a closed market.
FinalizeSlot(s) ==
    /\ s \in Published
    /\ gateState[s] = "Closed" /\ ~final[s]
    /\ final' = [final EXCEPT ![s] = TRUE]
    /\ UNCHANGED <<now, roomVars, gateVars, funded>>

-------------------------------------------------------------------------------
Batches == {markets \in UNION {[1 .. n -> Published] : n \in 1 .. MAX_BATCH} :
               \A i, j \in DOMAIN markets : markets[i] = markets[j] => i = j}
EpochLists == UNION {[listed -> Epoch] : listed \in
                        {L \in SUBSET Published : Cardinality(L) <= MAX_BATCH}}

Gate(seq) ==
    /\ now <= Horizon
    /\ \/ \E epochOf \in EpochLists : MarkRoomEpochsSafe(seq, epochOf)
       \/ SuspendRoom(seq)
       \/ ReopenRoom(seq)
       \/ \E markets \in Batches : CloseSlots(seq, markets)
       \/ CloseRoom(seq)

Market == \E s \in Slot : FundSlot(s) \/ UnfundSlot(s) \/ FinalizeSlot(s)

RoomGateNext(participantsReady) ==
    \/ Tick
    \/ \E permit \in Permits : PublishSlot(participantsReady, permit)
    \/ \E seq \in SourceSequences : Gate(seq)
    \/ CloseRoomOnGateStall
    \/ \E markets \in Batches : CloseRemainingSlots(markets)
    \/ Market

===============================================================================
