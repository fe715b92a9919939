------------------------------- MODULE RoomProofs -------------------------------
(***************************************************************************)
(* Theorems about the gate of LiveRoom: the room's watermark bounds its    *)
(* markets' whatever child calls fail, so every slot of a closed room can  *)
(* be closed, a closed market is never cleared again, and the room         *)
(* implements the abstract session.  And about its list of open slots:     *)
(* however batches of closings are ordered and whatever they skip, the     *)
(* swap-and-pop list holds exactly the published markets still open.  And  *)
(* about its bonds: the room holds exactly those it owes, its markets      *)
(* never run unbonded, and a bond leaves only at the end.  And about the    *)
(* process that holds the gate key: what it tells the room, the log bears  *)
(* out, and with the processes beside it the room is still a session.      *)
(***************************************************************************)
EXTENDS RoomSafety, GateAuthority, NatLemmas, SequenceTheorems

\* The gate fields have their types.
GateTypeOK ==
    /\ now \in Time
    /\ lastObservedSequence \in Nat /\ roomClosedSequence \in Nat
    /\ roomClosedAt \in Time /\ lastGateActivityAt \in Time
    /\ slotCount \in 0 .. MaxSlots
    /\ gateState \in [Slot -> {"Open", "Suspended", "Closed"}]
    /\ closedEpoch \in [Slot -> Epoch]
    /\ decisiveSequence \in [Slot -> Nat]
    /\ lastSafeSequence \in [Slot -> Nat]
    /\ epochSafeSequence \in [Slot -> [Epoch -> Nat]]

\* A market is cleared at most at its own watermark, which the room's bounds;
\* a closed room's last sequence is beyond every market's.
SafeBound ==
    /\ \A s \in Slot, e \in Epoch :
         /\ epochSafeSequence[s][e] <= lastSafeSequence[s]
         /\ EpochSafe(s, e) => e < CurrentEpoch
    /\ RoomIsClosed => \A s \in Slot : lastSafeSequence[s] < roomClosedSequence

GateInv == GateTypeOK /\ WatermarkBoundsMarkets /\ SafeBound /\ DecidedWithinRoom

\* Steps that neither touch the gate fields nor the room's sequences.
GateIdle ==
    /\ now <= now' /\ now' \in Time
    /\ roomClosedAt' = roomClosedAt /\ lastGateActivityAt' = lastGateActivityAt
    /\ UNCHANGED <<lastObservedSequence, roomClosedSequence, slotCount, gateVars>>

\* The calls that do, with whatever sequences, batches and permits they are made.
Publishes == \E ready, permit : permit.undecidedThrough \in Nat /\ PublishSlot(ready, permit)
Clears(seq) == \E epochOf : /\ \A s \in DOMAIN epochOf : epochOf[s] \in Epoch
                            /\ MarkRoomEpochsSafe(seq, epochOf)
Switches(seq) == SuspendRoom(seq) \/ ReopenRoom(seq)
ClosesMarkets == \E markets : \/ \E seq \in Nat : CloseSlots(seq, markets)
                              \/ CloseRemainingSlots(markets)
ClosesRoom == (\E seq \in Nat : CloseRoom(seq)) \/ CloseRoomOnGateStall

GateActive ==
    \/ Publishes
    \/ \E seq \in Nat : Clears(seq) \/ Switches(seq)
    \/ ClosesMarkets
    \/ ClosesRoom

\* A step of the room is a call that touches a gate, or does not call the room.
LEMMA RoomCalls ==
    ASSUME [Next]_vars
    PROVE  Tick \/ Market \/ UNCHANGED roomGateVars \/ GateActive
  <1>1. CASE Bond \/ UNCHANGED vars
    BY <1>1 DEF Bond, PostIntegrityBond, ClaimIntegrityBond, FileIntegrityClaim, UpholdClaim,
                RejectClaim, ExpireIntegrityClaim, vars
  <1>2. CASE \E permit \in Permits : PublishSlot(ParticipantsReady, permit)
    <2>1. \A permit \in Permits : permit.undecidedThrough \in Nat
      BY RoomAssumption DEF Permits
    <2> QED
      BY <1>2, <2>1 DEF Publishes, GateActive
  <1>3. CASE \E seq \in SourceSequences : Gate(seq)
    <2>1. PICK seq \in Nat : Gate(seq)
      BY <1>3, RoomAssumption
    <2>2. CASE \E epochOf \in EpochLists : MarkRoomEpochsSafe(seq, epochOf)
      <3>1. PICK epochOf \in EpochLists : MarkRoomEpochsSafe(seq, epochOf)
        BY <2>2
      <3>2. PICK listed \in SUBSET Published : epochOf \in [listed -> Epoch]
        BY Zenon DEF EpochLists
      <3>3. \A s \in DOMAIN epochOf : epochOf[s] \in Epoch
        BY <3>2
      <3> QED
        BY <3>1, <3>3, Zenon DEF GateActive, Clears
    <2> QED
      BY <2>1, <2>2 DEF Gate, GateActive, Switches, ClosesMarkets, ClosesRoom
  <1>4. CASE CloseRoomOnGateStall \/ \E markets \in Batches : CloseRemainingSlots(markets)
    BY <1>4 DEF GateActive, ClosesMarkets, ClosesRoom
  <1> QED
    BY <1>1, <1>2, <1>3, <1>4 DEF Next, RoomGateNext

\* Every step of the room is one or the other.
LEMMA TickIsIdle == ASSUME GateTypeOK, Tick PROVE GateIdle
  <1>1. now \in Nat /\ MaxTime \in Nat
    BY RoomAssumption DEF GateTypeOK, Time
  <1> QED
    BY <1>1 DEF Tick, GateIdle, Time, roomVars, watermarkVars, closingVars, listVars, marketVars

\* A step that leaves the room alone.
LEMMA RoomStutters == ASSUME GateTypeOK, UNCHANGED roomGateVars PROVE GateIdle
  <1>1. now \in Nat
    BY RoomAssumption DEF GateTypeOK, Time
  <1> QED
    BY <1>1 DEF GateIdle, GateTypeOK, roomGateVars, roomVars, watermarkVars, closingVars, listVars, marketVars

LEMMA StepKinds ==
    ASSUME GateTypeOK, [Next]_vars
    PROVE  GateIdle \/ GateActive
  <1>1. now \in Nat
    BY RoomAssumption DEF GateTypeOK, Time
  <1>2. CASE Market
    BY <1>1, <1>2 DEF Market, FundSlot, UnfundSlot, FinalizeSlot, GateIdle, GateTypeOK, roomVars,
                  watermarkVars, closingVars, listVars
  <1> QED
    BY <1>2, RoomCalls, TickIsIdle, RoomStutters

\* The current epoch is one of the model's, and does not fall.
LEMMA EpochsAdvance ==
    ASSUME NEW t \in Time, NEW u \in Time, t <= u
    PROVE  /\ t \div EpochDuration \in Epoch
           /\ t \div EpochDuration <= u \div EpochDuration
  <1>1. /\ EpochDuration \in Nat \ {0} /\ MaxTime \in Nat
        /\ t \in Nat /\ u \in Nat /\ t <= MaxTime
    BY RoomAssumption DEF Time
  <1>2. /\ t \div EpochDuration \in Nat /\ MaxTime \div EpochDuration \in Nat
        /\ t \div EpochDuration <= MaxTime \div EpochDuration
        /\ t \div EpochDuration <= u \div EpochDuration
    BY <1>1, DivBounds, DivMonotone
  <1> HIDE <1>1
  <1> QED
    BY <1>2 DEF Epoch

\* Steps that leave the gate alone keep the invariant: the epochs only advance.
LEMMA IdleKeepsGate ==
    ASSUME GateInv, GateIdle
    PROVE  GateInv'
  <1> DEFINE c == CurrentEpoch
             d == CurrentEpoch'
  <1>1. c \in Epoch /\ c <= d
    BY EpochsAdvance DEF GateInv, GateTypeOK, GateIdle, CurrentEpoch
  <1>2. d \in Epoch
    <2> DEFINE u == now'
    <2>1. u \in Time /\ u <= u
      BY RoomAssumption DEF GateIdle, Time
    <2>2. d = u \div EpochDuration
      BY DEF CurrentEpoch
    <2> HIDE DEF u, d
    <2> QED
      BY <2>1, <2>2, EpochsAdvance
  <1>3. \A e \in Epoch : e < c => e < d
    <2> HIDE DEF c, d
    <2> QED
      BY <1>1, <1>2 DEF Epoch
  <1>4. GateTypeOK' /\ WatermarkBoundsMarkets' /\ DecidedWithinRoom'
    BY DEF GateInv, GateTypeOK, WatermarkBoundsMarkets, DecidedWithinRoom, RoomIsClosed,
           EpochSafe, Published, GateIdle, gateVars, closeVars, safeVars
  <1>5. SafeBound'
    <2>1. /\ \A s \in Slot, e \in Epoch : EpochSafe(s, e)' = EpochSafe(s, e)
          /\ RoomIsClosed' = RoomIsClosed
      BY DEF EpochSafe, RoomIsClosed, GateIdle, gateVars, safeVars
    <2> QED
      BY <1>3, <2>1 DEF SafeBound, GateInv, GateIdle, gateVars, safeVars
  <1> QED
    BY <1>4, <1>5 DEF GateInv

\* Publishing only moves the room's watermark up.
LEMMA PublishKeepsGate ==
    ASSUME GateInv, Publishes
    PROVE  GateInv'
  <1>0. PICK ready, permit : permit.undecidedThrough \in Nat /\ PublishSlot(ready, permit)
    BY Zenon DEF Publishes
  <1>1. /\ permit.undecidedThrough \in Nat /\ lastObservedSequence' = permit.undecidedThrough
        /\ lastObservedSequence <= lastObservedSequence' /\ ~RoomIsClosed
        /\ slotCount \in Nat /\ slotCount < MaxSlots /\ slotCount' = slotCount + 1
        /\ UNCHANGED <<now, lastGateActivityAt, roomClosedSequence, roomClosedAt, marketVars>>
    BY <1>0, RoomAssumption DEF PublishSlot, ValidPermit, closingVars, GateInv, GateTypeOK
  <1>2. GateTypeOK'
    BY <1>1, RoomAssumption DEF GateInv, GateTypeOK, marketVars, gateVars, closeVars, safeVars
  <1>3. WatermarkBoundsMarkets' /\ SafeBound'
    BY <1>1 DEF GateInv, GateTypeOK, WatermarkBoundsMarkets, SafeBound, RoomIsClosed, EpochSafe,
                CurrentEpoch, marketVars, gateVars, closeVars, safeVars
  <1>4. DecidedWithinRoom'
    BY <1>1 DEF GateInv, GateTypeOK, DecidedWithinRoom, RoomIsClosed, EpochSafe, Published,
                marketVars, gateVars, closeVars, safeVars
  <1> QED
    BY <1>2, <1>3, <1>4 DEF GateInv

\* A gate transaction of an open room: the room's watermark is at seq after it.
GateSequence(seq) ==
    /\ seq \in Nat
    /\ lastObservedSequence <= seq /\ lastObservedSequence' = seq
    /\ ~RoomIsClosed
    /\ now' = now /\ lastGateActivityAt' = now /\ slotCount' = slotCount

\* Clearing: a cleared market moves to seq, and not once it is closed.
LEMMA ClearKeepsGate ==
    ASSUME GateInv, NEW seq \in Nat, Clears(seq)
    PROVE  GateInv'
  <1>0. PICK epochOf : /\ \A s \in DOMAIN epochOf : epochOf[s] \in Epoch
                       /\ MarkRoomEpochsSafe(seq, epochOf)
    BY Zenon DEF Clears
  <1> DEFINE cleared == {s \in DOMAIN epochOf : AcceptsSafe(s, epochOf[s], seq)}
  <1>1. /\ GateSequence(seq)
        /\ UNCHANGED <<closingVars, gateState, closeVars>>
    BY <1>0, RoomAssumption DEF MarkRoomEpochsSafe, AdvanceSequence, GateSequence, listVars
  <1>2. cleared \subseteq Slot /\ \A s \in cleared : epochOf[s] \in Epoch
    <2>1. DOMAIN epochOf \subseteq Published
      BY <1>0 DEF MarkRoomEpochsSafe
    <2>2. Published \subseteq Slot
      BY RoomAssumption DEF GateInv, GateTypeOK, Published, Slot
    <2> QED
      BY <1>0, <2>1, <2>2
  <1>3. /\ lastSafeSequence' = [s \in Slot |-> IF s \in cleared THEN seq ELSE lastSafeSequence[s]]
        /\ epochSafeSequence' = [s \in Slot |->
             IF s \in cleared THEN [epochSafeSequence[s] EXCEPT ![epochOf[s]] = seq]
             ELSE epochSafeSequence[s]]
    BY <1>0 DEF MarkRoomEpochsSafe
  <1>4. \A s \in cleared : AcceptsSafe(s, epochOf[s], seq)
    OBVIOUS
  <1> HIDE DEF cleared
  <1>5. \A s \in cleared : gateState[s] # "Closed"
    BY <1>1, <1>2, <1>4 DEF AcceptsSafe, GateInv, GateTypeOK, DecidedWithinRoom, GateSequence
  <1>6. GateTypeOK'
    BY <1>1, <1>2, <1>3 DEF GateInv, GateTypeOK, GateSequence, closingVars, closeVars
  <1>7. WatermarkBoundsMarkets'
    BY <1>1, <1>2, <1>3, <1>5 DEF GateInv, GateTypeOK, WatermarkBoundsMarkets, GateSequence, closeVars
  <1>8. SafeBound'
    <2>1. ASSUME NEW s \in Slot, NEW e \in Epoch
          PROVE  /\ epochSafeSequence'[s][e] <= lastSafeSequence'[s]
                 /\ EpochSafe(s, e)' => e < CurrentEpoch'
      BY <1>1, <1>2, <1>3, <1>4 DEF SafeBound, GateInv, GateTypeOK, EpochSafe, AcceptsSafe,
                                    CurrentEpoch, GateSequence
    <2> QED
      BY <1>1, <2>1 DEF SafeBound, RoomIsClosed, GateSequence, closingVars
  <1>9. DecidedWithinRoom'
    BY <1>1, <1>2, <1>3, <1>5 DEF GateInv, GateTypeOK, DecidedWithinRoom, GateSequence, RoomIsClosed,
                                  EpochSafe, Published, closingVars, closeVars
  <1> QED
    BY <1>6, <1>7, <1>8, <1>9 DEF GateInv

\* Suspending and reopening: no epoch is cleared, and a market moves to seq at most.
LEMMA SwitchKeepsGate ==
    ASSUME GateInv, NEW seq \in Nat, Switches(seq)
    PROVE  GateInv'
  <1>1. /\ GateSequence(seq)
        /\ UNCHANGED <<closingVars, closeVars, epochSafeSequence>>
    BY RoomAssumption DEF Switches, SuspendRoom, ReopenRoom, AdvanceSequence, GateSequence, listVars, safeVars
  <1>2. /\ gateState' \in [Slot -> {"Open", "Suspended", "Closed"}]
        /\ lastSafeSequence' \in [Slot -> Nat]
        /\ \A s \in Slot :
             /\ gateState'[s] = "Closed" <=> gateState[s] = "Closed"
             /\ lastSafeSequence[s] <= lastSafeSequence'[s]
             /\ lastSafeSequence'[s] = lastSafeSequence[s] \/ lastSafeSequence'[s] = seq
             /\ gateState[s] = "Closed" => lastSafeSequence'[s] = lastSafeSequence[s]
    BY <1>1 DEF Switches, SuspendRoom, ReopenRoom, GateSequence, GateInv, GateTypeOK, safeVars
  <1>3. GateTypeOK'
    BY <1>1, <1>2 DEF GateInv, GateTypeOK, GateSequence, closingVars, closeVars
  <1>4. WatermarkBoundsMarkets'
    BY <1>1, <1>2 DEF GateInv, GateTypeOK, WatermarkBoundsMarkets, GateSequence, closeVars
  <1>5. SafeBound'
    BY <1>1, <1>2 DEF GateInv, GateTypeOK, SafeBound, GateSequence, RoomIsClosed, EpochSafe,
                      CurrentEpoch, closingVars
  <1>6. DecidedWithinRoom'
    BY <1>1, <1>2 DEF GateInv, GateTypeOK, DecidedWithinRoom, GateSequence, RoomIsClosed,
                      EpochSafe, Published, closingVars, closeVars
  <1> QED
    BY <1>3, <1>4, <1>5, <1>6 DEF GateInv

\* A batch of closings decides published markets only, each beyond the sequence
\* it was last cleared at and in the current epoch, and leaves the others alone.
LEMMA CloseEachDecides ==
    ASSUME GateInv, NEW seq \in Nat, NEW markets, CloseEach(seq, markets)
    PROVE  /\ gateState' \in [Slot -> {"Open", "Suspended", "Closed"}]
           /\ closedEpoch' \in [Slot -> Epoch] /\ decisiveSequence' \in [Slot -> Nat]
           /\ UNCHANGED <<now, slotCount, safeVars>>
           /\ \A s \in Slot :
                \/ /\ gateState'[s] = gateState[s]
                   /\ closedEpoch'[s] = closedEpoch[s]
                   /\ decisiveSequence'[s] = decisiveSequence[s]
                \/ /\ s \in Published /\ gateState'[s] = "Closed"
                   /\ gateState[s] # "Closed" /\ lastSafeSequence[s] < seq
                   /\ closedEpoch'[s] = CurrentEpoch /\ decisiveSequence'[s] = seq
  <1> DEFINE c == CurrentEpoch
             closes == {s \in Published : (\E i \in DOMAIN markets : markets[i] = s)
                                           /\ AcceptsClose(s, seq)}
  <1>1. c \in Epoch
    BY EpochsAdvance, RoomAssumption DEF CurrentEpoch, GateInv, GateTypeOK, Time
  <1>2. /\ gateState' = [s \in Slot |-> IF s \in closes THEN "Closed" ELSE gateState[s]]
        /\ closedEpoch' = [s \in Slot |-> IF s \in closes THEN c ELSE closedEpoch[s]]
        /\ decisiveSequence' = [s \in Slot |-> IF s \in closes THEN seq ELSE decisiveSequence[s]]
        /\ UNCHANGED <<now, slotCount, safeVars>>
    BY DEF CloseEach
  <1>3. Published \subseteq Slot
    BY RoomAssumption DEF GateInv, GateTypeOK, Published, Slot
  <1>4. \A s \in closes : s \in Published /\ gateState[s] # "Closed" /\ lastSafeSequence[s] < seq
    BY <1>3 DEF AcceptsClose, GateInv, GateTypeOK
  <1> HIDE DEF c, closes
  <1>5. /\ gateState' \in [Slot -> {"Open", "Suspended", "Closed"}]
        /\ closedEpoch' \in [Slot -> Epoch] /\ decisiveSequence' \in [Slot -> Nat]
    BY <1>1, <1>2 DEF GateInv, GateTypeOK
  <1> QED
    BY <1>2, <1>4, <1>5 DEF c

\* Closing a batch keeps the invariant, during the session and after it.
LEMMA CloseKeepsGate ==
    ASSUME GateInv, ClosesMarkets
    PROVE  GateInv'
  <1>0. PICK markets : \/ \E seq \in Nat : CloseSlots(seq, markets)
                       \/ CloseRemainingSlots(markets)
    BY Zenon DEF ClosesMarkets
  <1>1. PICK seq \in Nat :
          /\ CloseEach(seq, markets)
          /\ UNCHANGED <<roomClosedSequence, roomClosedAt>>
          /\ lastObservedSequence' \in Nat /\ lastGateActivityAt' \in Time
          /\ lastObservedSequence <= lastObservedSequence'
          /\ IF RoomIsClosed THEN seq = roomClosedSequence ELSE seq = lastObservedSequence'
    <2>1. CASE CloseRemainingSlots(markets)
      BY <2>1 DEF CloseRemainingSlots, watermarkVars, closingVars, GateInv, GateTypeOK
    <2>2. ASSUME NEW seq \in Nat, CloseSlots(seq, markets)
          PROVE  /\ CloseEach(seq, markets)
                 /\ UNCHANGED <<roomClosedSequence, roomClosedAt>>
                 /\ seq \in Nat /\ seq = lastObservedSequence' /\ ~RoomIsClosed
                 /\ lastObservedSequence <= lastObservedSequence' /\ lastGateActivityAt' \in Time
      BY <2>2, RoomAssumption DEF CloseSlots, AdvanceSequence, closingVars, GateInv, GateTypeOK
    <2> QED
      BY <1>0, <2>1, <2>2
  <1>2. /\ gateState' \in [Slot -> {"Open", "Suspended", "Closed"}]
        /\ closedEpoch' \in [Slot -> Epoch] /\ decisiveSequence' \in [Slot -> Nat]
        /\ UNCHANGED <<now, slotCount, safeVars>>
        /\ \A s \in Slot :
             \/ /\ gateState'[s] = gateState[s]
                /\ closedEpoch'[s] = closedEpoch[s]
                /\ decisiveSequence'[s] = decisiveSequence[s]
             \/ /\ s \in Published /\ gateState'[s] = "Closed"
                /\ gateState[s] # "Closed" /\ lastSafeSequence[s] < seq
                /\ closedEpoch'[s] = CurrentEpoch /\ decisiveSequence'[s] = seq
    BY <1>1, CloseEachDecides
  <1>3. GateTypeOK'
    BY <1>1, <1>2 DEF GateInv, GateTypeOK, safeVars
  <1>4. WatermarkBoundsMarkets'
    BY <1>1, <1>2 DEF GateInv, GateTypeOK, WatermarkBoundsMarkets, safeVars
  <1>5. SafeBound'
    BY <1>1, <1>2 DEF GateInv, GateTypeOK, SafeBound, RoomIsClosed, EpochSafe, CurrentEpoch, safeVars
  <1>6. DecidedWithinRoom'
    <2>1. /\ \A s \in Slot, e \in Epoch : EpochSafe(s, e)' = EpochSafe(s, e)
          /\ RoomIsClosed' = RoomIsClosed /\ Published' = Published
          /\ UNCHANGED epochSafeSequence
      BY <1>1, <1>2 DEF EpochSafe, RoomIsClosed, Published, safeVars
    <2>2. ASSUME NEW s \in Slot, gateState'[s] = "Closed"
          PROVE  /\ s \in Published'
                 /\ decisiveSequence'[s] <= IF RoomIsClosed' THEN roomClosedSequence'
                                            ELSE lastObservedSequence'
      <3>1. CASE gateState[s] = "Closed"
        BY <1>1, <1>2, <2>1, <2>2, <3>1 DEF GateInv, GateTypeOK, DecidedWithinRoom
      <3>2. CASE gateState[s] # "Closed"
        BY <1>1, <1>2, <2>1, <2>2, <3>2 DEF GateInv, GateTypeOK
      <3> QED
        BY <3>1, <3>2
    <2>3. ASSUME NEW s \in Slot, gateState'[s] = "Closed", NEW e \in Epoch, EpochSafe(s, e)
          PROVE  epochSafeSequence[s][e] < decisiveSequence'[s] /\ e < closedEpoch'[s]
      <3>1. CASE gateState[s] = "Closed"
        BY <1>2, <2>3, <3>1 DEF GateInv, DecidedWithinRoom
      <3>2. CASE gateState[s] # "Closed"
        BY <1>2, <2>3, <3>2 DEF GateInv, GateTypeOK, SafeBound
      <3> QED
        BY <3>1, <3>2
    <2> QED
      BY <2>1, <2>2, <2>3 DEF DecidedWithinRoom
  <1> QED
    BY <1>3, <1>4, <1>5, <1>6 DEF GateInv

\* Closing the room fixes its last sequence beyond what any market was cleared at.
LEMMA RoomCloseKeepsGate ==
    ASSUME GateInv, ClosesRoom
    PROVE  GateInv'
  <1>1. /\ roomClosedSequence' \in Nat /\ lastObservedSequence < roomClosedSequence'
        /\ lastObservedSequence' \in Nat /\ lastObservedSequence <= lastObservedSequence'
        /\ roomClosedAt' \in Time /\ lastGateActivityAt' \in Time /\ ~RoomIsClosed
        /\ UNCHANGED <<now, listVars, marketVars>>
    <2>1. CASE CloseRoomOnGateStall
      BY <2>1 DEF CloseRoomOnGateStall, watermarkVars, GateInv, GateTypeOK
    <2>2. CASE \E seq \in Nat : CloseRoom(seq)
      BY <2>2, RoomAssumption DEF CloseRoom, ClosingSequence, AdvanceSequence, GateInv, GateTypeOK
    <2> QED
      BY <2>1, <2>2 DEF ClosesRoom
  <1>2. GateTypeOK' /\ WatermarkBoundsMarkets'
    BY <1>1 DEF GateInv, GateTypeOK, WatermarkBoundsMarkets, listVars, marketVars, gateVars,
                closeVars, safeVars
  <1>3. SafeBound'
    BY <1>1 DEF GateInv, GateTypeOK, WatermarkBoundsMarkets, SafeBound, RoomIsClosed, EpochSafe,
                CurrentEpoch, marketVars, gateVars, safeVars
  <1>4. DecidedWithinRoom'
    BY <1>1 DEF GateInv, GateTypeOK, DecidedWithinRoom, RoomIsClosed, EpochSafe, Published,
                listVars, marketVars, gateVars, closeVars, safeVars
  <1> QED
    BY <1>2, <1>3, <1>4 DEF GateInv

\* Every call to the room keeps the invariant.
LEMMA StepsKeepGate == ASSUME GateInv, GateIdle \/ GateActive PROVE GateInv'
  BY IdleKeepsGate, PublishKeepsGate, ClearKeepsGate, SwitchKeepsGate,
     CloseKeepsGate, RoomCloseKeepsGate DEF GateActive

\* The invariant of the gate, whatever the order of publication, batches with
\* failing child calls, and closings.
THEOREM GateInvariant == Spec => []GateInv
  <1>1. Init => GateInv
    <2>1. /\ \A t \in {0} : t \in Time /\ t \div EpochDuration \in Epoch
          /\ 0 \in Epoch
      BY RoomAssumption, EpochsAdvance, DivBounds DEF Time, Epoch
    <2>2. Init => GateTypeOK
      BY <2>1, RoomAssumption DEF Init, RoomGateInit, GateTypeOK
    <2> QED
      BY <2>2 DEF Init, RoomGateInit, GateInv, GateTypeOK, WatermarkBoundsMarkets, SafeBound,
                  DecidedWithinRoom, RoomIsClosed, EpochSafe
  <1>2. GateInv /\ [Next]_vars => GateInv'
    BY StepKinds, StepsKeepGate DEF GateInv
  <1> QED
    BY <1>1, <1>2, PTL DEF Spec

\* No market's watermark is ahead of the room's (the claim in the comments of
\* closeRoom and closeRoomOnGateStall), for any number of slots and sequences.
THEOREM WatermarkBound == Spec => []WatermarkBoundsMarkets
  <1>1. GateInv => WatermarkBoundsMarkets
    BY DEF GateInv
  <1> QED
    BY <1>1, GateInvariant, PTL

\* A decisive event lies within what the room observed and after every clearing.
THEOREM Decided == Spec => []DecidedWithinRoom
  <1>1. GateInv => DecidedWithinRoom
    BY DEF GateInv
  <1> QED
    BY <1>1, GateInvariant, PTL

\* Every slot of a closed room is closed or accepts the room's closing sequence,
\* so closeRemainingSlots never leaves a market open behind the closed room.
THEOREM SlotsCanClose == Spec => []EverySlotCanClose
  <1>1. GateInv => EverySlotCanClose
    <2> SUFFICES ASSUME GateInv, RoomIsClosed, NEW s \in Published, gateState[s] # "Closed"
                 PROVE  roomClosedSequence > lastSafeSequence[s]
      BY DEF EverySlotCanClose, AcceptsClose
    <2>1. s \in Slot
      BY RoomAssumption DEF GateInv, GateTypeOK, Published, Slot
    <2> QED
      BY <2>1 DEF GateInv, GateTypeOK, SafeBound
  <1> QED
    BY <1>1, GateInvariant, PTL

\* No call to the room changes the gate of a market that is closed.
LEMMA ClosedStays ==
    ASSUME GateInv, GateIdle \/ GateActive, NEW s \in Slot, gateState[s] = "Closed"
    PROVE  /\ gateState'[s] = "Closed"
           /\ lastSafeSequence'[s] = lastSafeSequence[s]
           /\ epochSafeSequence'[s] = epochSafeSequence[s]
           /\ decisiveSequence'[s] = decisiveSequence[s]
  <1>1. CASE GateIdle
    BY <1>1 DEF GateIdle, gateVars, closeVars, safeVars
  <1>2. CASE Publishes
    BY <1>2 DEF Publishes, PublishSlot, marketVars, gateVars, closeVars, safeVars
  <1>3. ASSUME NEW seq \in Nat, Clears(seq)
        PROVE  /\ lastSafeSequence'[s] = lastSafeSequence[s]
               /\ epochSafeSequence'[s] = epochSafeSequence[s]
               /\ UNCHANGED <<gateState, closeVars>>
    <2>0. PICK epochOf : MarkRoomEpochsSafe(seq, epochOf)
      BY <1>3, Zenon DEF Clears
    <2>1. seq >= lastObservedSequence /\ ~RoomIsClosed /\ UNCHANGED <<gateState, closeVars>>
      BY <2>0 DEF MarkRoomEpochsSafe, AdvanceSequence
    <2>2. ~(s \in DOMAIN epochOf /\ AcceptsSafe(s, epochOf[s], seq))
      BY <2>1 DEF AcceptsSafe, GateInv, GateTypeOK, DecidedWithinRoom
    <2> QED
      BY <2>0, <2>1, <2>2 DEF MarkRoomEpochsSafe
  <1>4. CASE \E seq \in Nat : Switches(seq)
    BY <1>4 DEF Switches, SuspendRoom, ReopenRoom, closeVars, safeVars, GateInv, GateTypeOK
  <1>5. CASE ClosesMarkets
    <2>1. PICK seq \in Nat : \E markets : CloseEach(seq, markets)
      BY <1>5 DEF ClosesMarkets, CloseSlots, CloseRemainingSlots, GateInv, GateTypeOK
    <2> QED
      BY <2>1, CloseEachDecides DEF safeVars
  <1>6. CASE ClosesRoom
    BY <1>6 DEF ClosesRoom, CloseRoom, CloseRoomOnGateStall, marketVars, gateVars, closeVars, safeVars
  <1> QED
    BY <1>1, <1>2, <1>3, <1>4, <1>5, <1>6 DEF GateActive, closeVars

\* Forecasting on a decided slot is over for good: no later transaction of the
\* gate clears one of its epochs, reopens it, or moves its decisive sequence.
THEOREM SlotFrozen == Spec => ClosedSlotIsFrozen
  <1> DEFINE Stays == \A s \in Slot : gateState[s] = "Closed" =>
                          /\ gateState'[s] = "Closed"
                          /\ lastSafeSequence'[s] = lastSafeSequence[s]
                          /\ epochSafeSequence'[s] = epochSafeSequence[s]
                          /\ decisiveSequence'[s] = decisiveSequence[s]
  <1>1. GateInv /\ [Next]_vars => [Stays]_vars
    BY ClosedStays, StepKinds DEF GateInv
  <1>2. Spec => [][Stays]_vars
    <2> HIDE DEF Stays
    <2> QED
      BY <1>1, GateInvariant, PTL DEF Spec
  <1> QED
    BY <1>2 DEF ClosedSlotIsFrozen

\* closeRoom and closeRoomOnGateStall are irreversible: nothing is published
\* after them and the room's sequences never move again.
THEOREM RoomFinal == Spec => ClosedRoomIsFinal
  <1> DEFINE Final == RoomIsClosed => /\ roomClosedSequence' = roomClosedSequence
                                      /\ roomClosedAt' = roomClosedAt
                                      /\ slotCount' = slotCount
                                      /\ lastObservedSequence' = lastObservedSequence
  <1>1. GateInv /\ [Next]_vars => Final
    <2>1. GateInv /\ [Next]_vars => GateIdle \/ GateActive
      BY StepKinds DEF GateInv
    <2> QED
      BY <2>1 DEF GateActive, GateIdle, Publishes, Clears, Switches, ClosesMarkets, ClosesRoom, PublishSlot, MarkRoomEpochsSafe, SuspendRoom, ReopenRoom,
                  CloseSlots, CloseRoom, CloseRoomOnGateStall, CloseRemainingSlots, CloseEach,
                  AdvanceSequence, watermarkVars, closingVars
  <1>2. Spec => [][Final]_vars
    <2> HIDE DEF Final
    <2> QED
      BY <1>1, GateInvariant, PTL DEF Spec
  <1> QED
    BY <1>2 DEF ClosedRoomIsFinal

-------------------------------------------------------------------------------
(* LiveRoom implements Session: each transaction of the room is a step of what it *)
(* promises its traders, or no step of it.                                        *)

\* A market counts as decided exactly when its gate is closed.
LEMMA DecidedIsClosed ==
    ASSUME GateInv, NEW s \in Slot
    PROVE  DecidedAt[s] = 0 <=> gateState[s] # "Closed"
  BY DEF GateInv, GateTypeOK, WatermarkBoundsMarkets, DecidedAt

\* The room before its first transaction is a session before its first step.
LEMMA StartsAsSession == ASSUME RoomGateInit PROVE Promised!SessionInit
  <1>1. /\ lastObservedSequence = 0 /\ slotCount = 0 /\ roomClosedSequence = 0
        /\ epochSafeSequence = [s \in Slot |-> [e \in Epoch |-> 0]]
        /\ gateState = [s \in Slot |-> "Open"]
    BY DEF RoomGateInit
  <1>2. DecidedAt = [s \in Slot |-> 0]
    BY <1>1 DEF DecidedAt
  <1> QED
    BY <1>1, <1>2 DEF Promised!SessionInit

\* Steps that leave the gate alone are no steps of the session.
LEMMA IdleIsStutter == ASSUME GateIdle PROVE UNCHANGED Promised!sessionVars
  BY DEF GateIdle, gateVars, closeVars, safeVars, DecidedAt, Promised!sessionVars

\* publishMarket asks the next question.
LEMMA PublishAsks ==
    ASSUME GateInv, Publishes
    PROVE  Promised!Ask
  <1>1. PICK ready, permit : permit.undecidedThrough \in Nat /\ PublishSlot(ready, permit)
    BY Zenon DEF Publishes
  <1>2. /\ ~RoomIsClosed /\ permit.undecidedThrough >= lastObservedSequence
        /\ lastObservedSequence' = permit.undecidedThrough
        /\ slotCount' = slotCount + 1
        /\ UNCHANGED <<roomClosedSequence, gateVars>>
    BY <1>1 DEF PublishSlot, ValidPermit, closingVars, marketVars
  <1>3. Promised!Follows
    BY <1>1, <1>2 DEF Promised!Follows, RoomIsClosed, GateInv, GateTypeOK
  <1>4. UNCHANGED <<epochSafeSequence, DecidedAt, roomClosedSequence>>
    BY <1>2 DEF gateVars, closeVars, safeVars, DecidedAt
  <1> QED
    BY <1>2, <1>3, <1>4 DEF Promised!Ask

\* Of the published markets only open ones are cleared, each for an epoch that
\* was not cleared before and beyond all it was cleared at.
LEMMA ClearClears ==
    ASSUME GateInv, NEW seq \in Nat, Clears(seq)
    PROVE  Promised!Clear
  <1>0. PICK epochOf : /\ \A s \in DOMAIN epochOf : epochOf[s] \in Epoch
                       /\ MarkRoomEpochsSafe(seq, epochOf)
    BY Zenon DEF Clears
  <1> DEFINE cleared == {s \in DOMAIN epochOf : AcceptsSafe(s, epochOf[s], seq)}
  <1>1. /\ GateSequence(seq)
        /\ UNCHANGED <<roomClosedSequence, gateState, closeVars>>
    BY <1>0, RoomAssumption DEF MarkRoomEpochsSafe, AdvanceSequence, GateSequence, listVars, closingVars
  <1>2. cleared \subseteq Published /\ \A s \in cleared : epochOf[s] \in Epoch
    BY <1>0 DEF MarkRoomEpochsSafe
  <1>3. epochSafeSequence' = [s \in Slot |->
             IF s \in cleared THEN [epochSafeSequence[s] EXCEPT ![epochOf[s]] = seq]
             ELSE epochSafeSequence[s]]
    BY <1>0 DEF MarkRoomEpochsSafe
  <1>4. \A s \in cleared : AcceptsSafe(s, epochOf[s], seq)
    OBVIOUS
  <1> HIDE DEF cleared
  <1>5. Promised!Follows
    BY <1>1 DEF Promised!Follows, GateSequence, RoomIsClosed
  <1>6. UNCHANGED <<slotCount, DecidedAt, roomClosedSequence>>
    BY <1>1 DEF GateSequence, closeVars, DecidedAt
  <1>7. ASSUME NEW s \in Slot, epochSafeSequence'[s] # epochSafeSequence[s]
        PROVE  /\ Promised!IsOpen(s) /\ Promised!BeyondClearing(s, lastObservedSequence')
               /\ \E e \in Epoch :
                    /\ epochSafeSequence[s][e] = 0
                    /\ epochSafeSequence'[s] = [epochSafeSequence[s] EXCEPT ![e] = lastObservedSequence']
    <2>1. s \in cleared
      BY <1>3, <1>7
    <2>2. /\ s < slotCount /\ epochOf[s] \in Epoch /\ epochSafeSequence[s][epochOf[s]] = 0
          /\ lastSafeSequence[s] < seq
      BY <1>1, <1>2, <1>4, <2>1 DEF AcceptsSafe, EpochSafe, Published, GateInv, GateTypeOK, GateSequence
    <2>3. gateState[s] # "Closed"
      BY <1>1, <1>4, <2>1 DEF AcceptsSafe, GateInv, GateTypeOK, DecidedWithinRoom, GateSequence
    <2>4. Promised!IsOpen(s)
      BY <2>2, <2>3, DecidedIsClosed DEF Promised!IsOpen
    <2>5. Promised!BeyondClearing(s, seq)
      BY <1>1, <2>2 DEF Promised!BeyondClearing, GateInv, GateTypeOK, SafeBound, GateSequence
    <2> QED
      BY <1>1, <1>3, <2>1, <2>2, <2>4, <2>5 DEF GateSequence
  <1> QED
    BY <1>5, <1>6, <1>7 DEF Promised!Clear

\* Suspending and reopening only follow the source.
LEMMA SwitchFollows ==
    ASSUME GateInv, NEW seq \in Nat, Switches(seq)
    PROVE  Promised!Clear
  <1>1. /\ GateSequence(seq)
        /\ UNCHANGED <<roomClosedSequence, closeVars, epochSafeSequence>>
    BY RoomAssumption DEF Switches, SuspendRoom, ReopenRoom, AdvanceSequence, GateSequence, listVars,
                          closingVars, safeVars
  <1>2. \A s \in Slot : gateState'[s] = "Closed" <=> gateState[s] = "Closed"
    BY DEF Switches, SuspendRoom, ReopenRoom, GateInv, GateTypeOK
  <1>3. Promised!Follows
    BY <1>1 DEF Promised!Follows, GateSequence, RoomIsClosed
  <1>4. DecidedAt' = DecidedAt
    BY <1>1, <1>2 DEF DecidedAt, closeVars
  <1> QED
    BY <1>1, <1>3, <1>4 DEF Promised!Clear, GateSequence

\* A batch of closings decides open questions where the room now is, or where it ended.
LEMMA CloseDecides ==
    ASSUME GateInv, ClosesMarkets
    PROVE  Promised!Decide
  <1>0. PICK markets : \/ \E seq \in Nat : CloseSlots(seq, markets)
                       \/ CloseRemainingSlots(markets)
    BY Zenon DEF ClosesMarkets
  <1>1. PICK seq \in Nat :
          /\ CloseEach(seq, markets)
          /\ roomClosedSequence' = roomClosedSequence
          /\ lastObservedSequence' \in Nat /\ lastObservedSequence <= lastObservedSequence'
          /\ IF RoomIsClosed THEN seq = roomClosedSequence /\ lastObservedSequence' = lastObservedSequence
                             ELSE seq = lastObservedSequence'
    <2>1. CASE CloseRemainingSlots(markets)
      BY <2>1 DEF CloseRemainingSlots, watermarkVars, closingVars, GateInv, GateTypeOK
    <2>2. ASSUME NEW seq \in Nat, CloseSlots(seq, markets)
          PROVE  /\ CloseEach(seq, markets)
                 /\ roomClosedSequence' = roomClosedSequence
                 /\ seq \in Nat /\ seq = lastObservedSequence' /\ ~RoomIsClosed
                 /\ lastObservedSequence <= lastObservedSequence'
      BY <2>2, RoomAssumption DEF CloseSlots, AdvanceSequence, closingVars, GateInv, GateTypeOK
    <2> QED
      BY <1>0, <2>1, <2>2
  <1>2. /\ UNCHANGED <<slotCount, safeVars>>
        /\ \A s \in Slot :
             \/ /\ gateState'[s] = gateState[s]
                /\ decisiveSequence'[s] = decisiveSequence[s]
             \/ /\ s \in Published /\ gateState'[s] = "Closed"
                /\ gateState[s] # "Closed" /\ lastSafeSequence[s] < seq
                /\ decisiveSequence'[s] = seq
    BY <1>1, CloseEachDecides
  <1>3. Promised!Follows \/ (roomClosedSequence # 0 /\ lastObservedSequence' = lastObservedSequence)
    BY <1>1 DEF Promised!Follows, RoomIsClosed
  <1>4. ASSUME NEW s \in Slot, DecidedAt'[s] # DecidedAt[s]
        PROVE  /\ Promised!IsOpen(s) /\ Promised!BeyondClearing(s, DecidedAt'[s])
               /\ DecidedAt'[s] = IF roomClosedSequence = 0 THEN lastObservedSequence'
                                  ELSE roomClosedSequence
    <2>1. /\ s \in Published /\ gateState[s] # "Closed" /\ lastSafeSequence[s] < seq
          /\ DecidedAt'[s] = seq
      BY <1>2, <1>4 DEF DecidedAt
    <2>2. Promised!IsOpen(s)
      BY <2>1, DecidedIsClosed DEF Promised!IsOpen, Published, GateInv, GateTypeOK
    <2>3. Promised!BeyondClearing(s, seq)
      BY <2>1 DEF Promised!BeyondClearing, GateInv, GateTypeOK, SafeBound
    <2> QED
      BY <1>1, <2>1, <2>2, <2>3 DEF RoomIsClosed
  <1> QED
    BY <1>1, <1>2, <1>3, <1>4 DEF Promised!Decide, safeVars

\* closeRoom and closeRoomOnGateStall end the session beyond all it has followed.
LEMMA CloseEnds ==
    ASSUME GateInv, ClosesRoom
    PROVE  Promised!End
  <1>1. /\ roomClosedSequence' \in Nat /\ lastObservedSequence < roomClosedSequence'
        /\ lastObservedSequence' \in Nat /\ lastObservedSequence <= lastObservedSequence'
        /\ lastObservedSequence' <= roomClosedSequence' /\ ~RoomIsClosed
        /\ UNCHANGED <<slotCount, gateVars>>
    <2>1. CASE CloseRoomOnGateStall
      BY <2>1 DEF CloseRoomOnGateStall, watermarkVars, listVars, marketVars, GateInv, GateTypeOK
    <2>2. CASE \E seq \in Nat : CloseRoom(seq)
      BY <2>2, RoomAssumption DEF CloseRoom, ClosingSequence, AdvanceSequence, listVars,
                                  marketVars, GateInv, GateTypeOK
    <2> QED
      BY <2>1, <2>2 DEF ClosesRoom
  <1> QED
    BY <1>1 DEF Promised!End, Promised!Follows, RoomIsClosed, DecidedAt, gateVars, closeVars, safeVars

\* Every call to the room is a step of the session, or none.
LEMMA StepsAreSession ==
    ASSUME GateInv, GateIdle \/ GateActive
    PROVE  Promised!SessionNext \/ UNCHANGED Promised!sessionVars
  BY IdleIsStutter, PublishAsks, ClearClears, SwitchFollows, CloseDecides, CloseEnds, Zenon
     DEF GateActive, Promised!SessionNext

\* A live room is a session as Session promises it, for any number of slots,
\* epochs and source sequences, whatever is published, gated and closed in
\* whichever order, and whichever calls to its markets fail.
THEOREM RoomImplementsSession == Spec => RoomIsSession
  <1>1. Init => Promised!SessionInit
    BY StartsAsSession DEF Init
  <1>2. GateInv /\ [Next]_vars => [Promised!SessionNext]_(Promised!sessionVars)
    <2> SUFFICES ASSUME GateInv, [Next]_vars
                 PROVE  Promised!SessionNext \/ UNCHANGED Promised!sessionVars
      OBVIOUS
    <2>1. GateIdle \/ GateActive
      BY StepKinds DEF GateInv
    <2> QED
      BY <2>1, StepsAreSession
  <1> QED
    BY <1>1, <1>2, GateInvariant, PTL DEF Spec, RoomIsSession, Promised!SessionSpec

-------------------------------------------------------------------------------
(* The list of open slots. *)

\* A list and its index that hold exactly the given members.
Lists(list, index, members) ==
    /\ list \in Seq(Slot) /\ index \in [Slot -> Nat]
    /\ \A i \in 1 .. Len(list) : index[list[i]] = i
    /\ \A s \in Slot : index[s] # 0 => index[s] \in 1 .. Len(list) /\ list[index[s]] = s
    /\ \A s \in Slot : index[s] # 0 <=> s \in members
    /\ Len(list) <= MaxOpenSlots

OpenMarkets == {s \in Published : gateState[s] # "Closed"}

ListInv == Lists(openSlots, openIndexPlusOne, OpenMarkets)

\* _removeOpenSlot removes the one market and keeps the others' places right.
LEMMA WithoutSlotKeeps ==
    ASSUME NEW list, NEW index, NEW members, Lists(list, index, members), NEW s \in Slot
    PROVE  LET r == WithoutSlot([list |-> list, index |-> index], s)
           IN  r = [list |-> r.list, index |-> r.index] /\ Lists(r.list, r.index, members \ {s})
  <1> DEFINE r == WithoutSlot([list |-> list, index |-> index], s)
             k == index[s]
             n == Len(list)
  <1>0. /\ k \in Nat /\ n \in Nat /\ n <= MaxOpenSlots /\ MaxOpenSlots \in Nat
        /\ \A i \in 1 .. n : list[i] \in Slot
    BY RoomAssumption DEF Lists
  <1>1. CASE k = 0
    <2>1. r = [list |-> list, index |-> index]
      BY <1>1 DEF WithoutSlot
    <2> QED
      BY <1>1, <2>1 DEF Lists
  <1>2. CASE k # 0
    <2> DEFINE moved == list[n]
               l == SubSeq([list EXCEPT ![k] = moved], 1, n - 1)
               x == [[index EXCEPT ![moved] = k] EXCEPT ![s] = 0]
    <2>1. r = [list |-> l, index |-> x]
      BY <1>2 DEF WithoutSlot
    <2>2. /\ k \in 1 .. n /\ list[k] = s /\ moved \in Slot /\ index[moved] = n
      BY <1>0, <1>2 DEF Lists
    <2>3. /\ l \in Seq(Slot) /\ Len(l) = n - 1
          /\ \A i \in 1 .. n - 1 : l[i] = IF i = k THEN moved ELSE list[i]
      <3> DEFINE m == [list EXCEPT ![k] = moved]
      <3>1. \A i \in 1 .. n - 1 : m[i] = IF i = k THEN moved ELSE list[i]
        BY <1>0, <2>2 DEF Lists
      <3>2. \A i \in 1 .. n - 1 : m[i] \in Slot
        BY <1>0, <2>2, <3>1
      <3> HIDE DEF m
      <3>3. /\ SubSeq(m, 1, n - 1) \in Seq(Slot)
            /\ Len(SubSeq(m, 1, n - 1)) = n - 1
            /\ \A i \in 1 .. n - 1 : SubSeq(m, 1, n - 1)[i] = m[i]
        <4> DEFINE h == n - 1
        <4>1. h \in Int /\ 1 \in Int /\ h >= 0 /\ \A i \in 1 .. h : m[i] \in Slot
          BY <1>0, <2>2, <3>2
        <4> HIDE DEF h
        <4>2. /\ SubSeq(m, 1, h) \in Seq(Slot)
              /\ Len(SubSeq(m, 1, h)) = IF 1 <= h THEN h - 1 + 1 ELSE 0
              /\ \A i \in 1 .. h - 1 + 1 : SubSeq(m, 1, h)[i] = m[1 + i - 1]
          BY <4>1, SubSeqProperties
        <4>3. h - 1 + 1 = h /\ \A i \in 1 .. h : 1 + i - 1 = i
          BY <4>1
        <4>4. /\ SubSeq(m, 1, h) \in Seq(Slot) /\ Len(SubSeq(m, 1, h)) = h
              /\ \A i \in 1 .. h : SubSeq(m, 1, h)[i] = m[i]
          BY <4>1, <4>2, <4>3
        <4> QED
          BY <4>4 DEF h
      <3> QED
        BY <3>1, <3>3 DEF m
    <2>4. /\ x \in [Slot -> Nat]
          /\ \A t \in Slot : x[t] = IF t = s THEN 0 ELSE IF t = moved THEN k ELSE index[t]
      BY <1>0, <2>2 DEF Lists
    <2>a. \A i \in 1 .. n : index[list[i]] = i
      BY DEF Lists
    <2>b. moved = list[n]
      OBVIOUS
    <2> HIDE DEF l, x, moved
    <2>5. \A i \in 1 .. n - 1 : x[l[i]] = i
      <3> SUFFICES ASSUME NEW i \in 1 .. n - 1 PROVE x[l[i]] = i
        OBVIOUS
      <3>1. CASE i = k
        <4>1. l[i] = moved /\ moved # s
          BY <1>0, <2>2, <2>3, <3>1
        <4> QED
          BY <2>2, <2>4, <3>1, <4>1
      <3>2. CASE i # k
        <4>1. l[i] = list[i] /\ list[i] \in Slot /\ index[list[i]] = i /\ i # n
          BY <1>0, <2>2, <2>3, <2>a, <3>2
        <4>2. list[i] # s /\ list[i] # moved
          BY <2>2, <3>2, <4>1
        <4> QED
          BY <2>4, <4>1, <4>2
      <3> QED
        BY <3>1, <3>2
    <2>6. \A t \in Slot : x[t] # 0 => x[t] \in 1 .. n - 1 /\ l[x[t]] = t
      <3> SUFFICES ASSUME NEW t \in Slot, x[t] # 0
                   PROVE  x[t] \in 1 .. n - 1 /\ l[x[t]] = t
        OBVIOUS
      <3>1. CASE t = moved
        <4>1. x[t] = k /\ t # s
          BY <2>2, <2>4, <3>1
        <4>2. k # n
          BY <2>2, <2>b, <3>1, <4>1
        <4> QED
          BY <1>0, <2>2, <2>3, <3>1, <4>1, <4>2
      <3>2. CASE t # moved
        <4>1. /\ t # s /\ x[t] = index[t] /\ index[t] \in 1 .. n /\ list[index[t]] = t
          BY <2>4, <3>2 DEF Lists
        <4>2. index[t] # n /\ index[t] # k
          BY <2>2, <2>b, <3>2, <4>1
        <4> QED
          BY <1>0, <2>3, <4>1, <4>2
      <3> QED
        BY <3>1, <3>2
    <2>7. \A t \in Slot : x[t] # 0 <=> t \in members \ {s}
      BY <1>0, <1>2, <2>2, <2>4 DEF Lists
    <2>8. Lists(l, x, members \ {s})
      BY <1>0, <2>3, <2>4, <2>5, <2>6, <2>7 DEF Lists
    <2> QED
      BY <2>1, <2>8
  <1> QED
    BY <1>1, <1>2

\* What the recursive definition in WithoutSlots says of its function.
IsLoop(f, open, markets, closes, n) ==
    f = [k \in 0 .. n |-> IF k = 0 THEN open
                          ELSE IF markets[k] \in closes THEN WithoutSlot(f[k - 1], markets[k])
                          ELSE f[k - 1]]

\* The loop of _closeEach has a result for every batch: its recursive definition
\* is satisfied by a function, built one market at a time.
LEMMA LoopDefined ==
    ASSUME NEW open, NEW markets, NEW closes, NEW n \in Nat
    PROVE  \E f : IsLoop(f, open, markets, closes, n)
  <1> DEFINE Step(o, k) == IF markets[k] \in closes THEN WithoutSlot(o, markets[k]) ELSE o
             Loop(f, m) == f = [k \in 0 .. m |-> IF k = 0 THEN open ELSE Step(f[k - 1], k)]
             T == {m \in Nat : ~ \E f : Loop(f, m)}
  <1>1. Loop([k \in 0 .. 0 |-> open], 0)
    OBVIOUS
  <1>2. ASSUME NEW m \in Nat, NEW f, Loop(f, m)
        PROVE  \E g : Loop(g, m + 1)
    <2> DEFINE g == [k \in 0 .. m + 1 |-> IF k = m + 1 THEN Step(f[m], m + 1) ELSE f[k]]
    <2> HIDE DEF Step
    <2>1. \A k \in 0 .. m + 1 : g[k] = IF k = 0 THEN open ELSE Step(g[k - 1], k)
      <3> SUFFICES ASSUME NEW k \in 0 .. m + 1
                   PROVE  g[k] = IF k = 0 THEN open ELSE Step(g[k - 1], k)
        OBVIOUS
      <3>1. CASE k = m + 1
        <4>1. k # 0 /\ k - 1 = m /\ m \in 0 .. m + 1 /\ m # m + 1
          BY <3>1
        <4> QED
          BY <3>1, <4>1
      <3>2. CASE k # m + 1
        <4>1. k \in 0 .. m /\ (k # 0 => k - 1 \in 0 .. m /\ k - 1 # m + 1 /\ k - 1 \in 0 .. m + 1)
          BY <3>2
        <4>2. f[k] = IF k = 0 THEN open ELSE Step(f[k - 1], k)
          BY <1>2, <4>1
        <4> QED
          BY <3>2, <4>1, <4>2
      <3> QED
        BY <3>1, <3>2
    <2>2. g = [k \in 0 .. m + 1 |-> g[k]]
      OBVIOUS
    <2> HIDE DEF g
    <2>3. Loop(g, m + 1)
      BY <2>1, <2>2
    <2> QED
      BY <2>3
  <1> HIDE DEF Loop
  <1>3. T = {}
    <2> SUFFICES ASSUME T # {} PROVE FALSE
      OBVIOUS
    <2>1. PICK m \in T : \A k \in T : m <= k
      BY LeastNat
    <2>2. m # 0
      BY <1>1
    <2>3. m - 1 \in Nat /\ m - 1 \notin T /\ (m - 1) + 1 = m
      BY <2>1, <2>2
    <2>4. \E f : Loop(f, m - 1)
      BY <2>3
    <2>5. \E g : Loop(g, (m - 1) + 1)
      BY <1>2, <2>3, <2>4
    <2> QED
      BY <2>1, <2>3, <2>5
  <1>4. \E f : Loop(f, n)
    BY <1>3
  <1> QED
    BY <1>4 DEF Loop, IsLoop

\* After the loop the list holds the markets that were in it and did not close.
LEMMA WithoutSlotsKeeps ==
    ASSUME NEW markets \in Batches, NEW closes \in SUBSET Slot, NEW members,
           Lists(openSlots, openIndexPlusOne, members), Published \subseteq Slot,
           \A s \in closes : \E i \in DOMAIN markets : markets[i] = s
    PROVE  LET r == WithoutSlots(markets, closes)
           IN  Lists(r.list, r.index, members \ closes)
  <1> DEFINE n == Len(markets)
             base == [list |-> openSlots, index |-> openIndexPlusOne]
             open == CHOOSE f : IsLoop(f, base, markets, closes, n)
             Gone(k) == {s \in closes : \E i \in 1 .. k : markets[i] = s}
             Good(k) == /\ open[k] = [list |-> open[k].list, index |-> open[k].index]
                        /\ Lists(open[k].list, open[k].index, members \ Gone(k))
             Bad == {k \in 0 .. n : ~Good(k)}
  <1>1. n \in Nat /\ DOMAIN markets = 1 .. n /\ \A k \in 1 .. n : markets[k] \in Slot
    BY DEF Batches
  <1>2. \E f : IsLoop(f, base, markets, closes, n)
    <2> HIDE DEF n, base
    <2> QED
      BY <1>1, LoopDefined
  <1>3. IsLoop(open, base, markets, closes, n)
    BY <1>2, Zenon
  <1>4. WithoutSlots(markets, closes) = open[n]
    BY DEF WithoutSlots, IsLoop
  <1> HIDE DEF open
  <1>5. /\ open[0] = base
        /\ \A k \in 1 .. n : open[k] = IF markets[k] \in closes
                                       THEN WithoutSlot(open[k - 1], markets[k]) ELSE open[k - 1]
    BY <1>1, <1>3 DEF IsLoop
  <1>6. Good(0)
    <2>1. members \ Gone(0) = members
      OBVIOUS
    <2>2. /\ open[0] = [list |-> openSlots, index |-> openIndexPlusOne]
          /\ open[0].list = openSlots /\ open[0].index = openIndexPlusOne
      BY <1>5
    <2> QED
      BY <2>1, <2>2, Zenon
  <1>7. ASSUME NEW k \in 1 .. n, Good(k - 1)
        PROVE  Good(k)
    <2> DEFINE o == open[k - 1]
               s == markets[k]
    <2>1. Gone(k) = IF s \in closes THEN Gone(k - 1) \cup {s} ELSE Gone(k - 1)
      OBVIOUS
    <2>2. o = [list |-> o.list, index |-> o.index] /\ Lists(o.list, o.index, members \ Gone(k - 1))
      BY <1>7
    <2>3. s \in Slot
      BY <1>1
    <2> HIDE DEF Gone
    <2>4. CASE s \in closes
      <3>1. open[k] = WithoutSlot(o, s)
        BY <1>5, <2>4
      <3>2. members \ Gone(k) = (members \ Gone(k - 1)) \ {s}
        BY <2>1, <2>4
      <3> HIDE DEF o, s
      <3> DEFINE r == WithoutSlot([list |-> o.list, index |-> o.index], s)
      <3>3. /\ r = [list |-> r.list, index |-> r.index]
            /\ Lists(r.list, r.index, (members \ Gone(k - 1)) \ {s})
        BY <2>2, <2>3, WithoutSlotKeeps, Zenon
      <3>4. open[k] = r
        BY <2>2, <3>1, Zenon
      <3> QED
        BY <3>2, <3>3, <3>4, Zenon
    <2>5. CASE s \notin closes
      BY <1>5, <2>1, <2>2, <2>5
    <2> QED
      BY <2>4, <2>5
  <1> HIDE DEF Good
  <1>8. Bad = {}
    <2> SUFFICES ASSUME Bad # {} PROVE FALSE
      OBVIOUS
    <2>1. Bad \in SUBSET Nat
      OBVIOUS
    <2>2. PICK k \in Bad : \A j \in Bad : k <= j
      BY <2>1, LeastNat
    <2>3. k # 0 /\ k \in 1 .. n
      BY <1>1, <1>6
    <2>4. k - 1 \in 0 .. n /\ ~(k <= k - 1)
      BY <1>1, <2>3
    <2>5. Good(k - 1)
      BY <2>2, <2>4
    <2>6. Good(k)
      BY <1>7, <2>3, <2>5
    <2> QED
      BY <2>6
  <1>9. Gone(n) = closes
    BY <1>1
  <1>10. Good(n)
    BY <1>1, <1>8
  <1> HIDE DEF Gone
  <1> QED
    BY <1>4, <1>9, <1>10 DEF Good

\* A publication appends the market, which was in neither the list nor the index.
LEMMA PublishKeepsList ==
    ASSUME GateInv, ListInv, NEW permit \in Permits, PublishSlot(ParticipantsReady, permit)
    PROVE  ListInv'
  <1> DEFINE l == Append(openSlots, slotCount)
             x == [openIndexPlusOne EXCEPT ![slotCount] = Len(openSlots) + 1]
             n == Len(openSlots)
  <1> HIDE DEF l, x, n
  <1>1. /\ slotCount \in Slot /\ slotCount \notin Published
        /\ Published' = Published \cup {slotCount}
        /\ openSlots' = l /\ openIndexPlusOne' = x /\ gateState' = gateState
        /\ n < MaxOpenSlots
    <2>1. /\ slotCount \in Nat /\ slotCount < MaxSlots /\ slotCount' = slotCount + 1
      BY DEF PublishSlot, GateInv, GateTypeOK
    <2>2. slotCount \in Slot /\ slotCount \notin Published
      BY <2>1, RoomAssumption DEF Slot, Published
    <2>3. Published' = Published \cup {slotCount}
      BY <2>1 DEF Published
    <2>4. openSlots' = l /\ openIndexPlusOne' = x /\ gateState' = gateState
      BY Zenon DEF PublishSlot, marketVars, gateVars, l, x
    <2>5. n < MaxOpenSlots
      BY Zenon DEF PublishSlot, ValidRequest, n
    <2> QED
      BY <2>2, <2>3, <2>4, <2>5
  <1>2. OpenMarkets' = OpenMarkets \cup {slotCount} /\ slotCount \notin OpenMarkets
    <2>1. gateState[slotCount] # "Closed"
      BY <1>1 DEF GateInv, DecidedWithinRoom
    <2>2. \A s : s \in OpenMarkets' <=> s \in OpenMarkets \cup {slotCount}
      BY <1>1, <2>1 DEF OpenMarkets
    <2>3. slotCount \notin OpenMarkets
      BY <1>1, Zenon DEF OpenMarkets
    <2> QED
      BY <2>2, <2>3, Zenon
  <1> USE DEF l, x, n
  <1>3. /\ n \in Nat /\ MaxOpenSlots \in Nat /\ openIndexPlusOne \in [Slot -> Nat]
        /\ openIndexPlusOne[slotCount] = 0
        /\ \A i \in 1 .. n : openIndexPlusOne[openSlots[i]] = i /\ openSlots[i] \in Slot
    <2>1. openSlots \in Seq(Slot) /\ openIndexPlusOne \in [Slot -> Nat]
      BY DEF ListInv, Lists
    <2>2. openIndexPlusOne[slotCount] = 0
      <3>1. ~(openIndexPlusOne[slotCount] # 0)
        BY <1>1, <1>2, Zenon DEF ListInv, Lists
      <3> QED
        BY <3>1, Zenon
    <2>3. \A i \in 1 .. n : openIndexPlusOne[openSlots[i]] = i
      BY Zenon DEF ListInv, Lists
    <2>4. MaxOpenSlots \in Nat
      BY RoomAssumption, Zenon
    <2> QED
      BY <2>1, <2>2, <2>3, <2>4
  <1>4. /\ l \in Seq(Slot) /\ Len(l) = n + 1 /\ l[n + 1] = slotCount
        /\ \A i \in 1 .. n : l[i] = openSlots[i]
    BY <1>1, AppendProperties DEF ListInv, Lists
  <1>5. /\ x \in [Slot -> Nat] /\ x[slotCount] = n + 1
        /\ \A s \in Slot : s # slotCount => x[s] = openIndexPlusOne[s]
    BY <1>1, <1>3
  <1> HIDE DEF l, x
  <1>6. \A i \in 1 .. Len(l) : x[l[i]] = i
    BY <1>3, <1>4, <1>5
  <1>7. \A s \in Slot : x[s] # 0 => x[s] \in 1 .. Len(l) /\ l[x[s]] = s
    <2> SUFFICES ASSUME NEW s \in Slot, x[s] # 0 PROVE x[s] \in 1 .. Len(l) /\ l[x[s]] = s
      OBVIOUS
    <2>1. CASE s = slotCount
      BY <1>3, <1>4, <1>5, <2>1
    <2>2. CASE s # slotCount
      <3>1. x[s] = openIndexPlusOne[s] /\ x[s] \in 1 .. n /\ openSlots[x[s]] = s
        BY <1>5, <2>2 DEF ListInv, Lists
      <3> QED
        BY <1>3, <1>4, <3>1
    <2> QED
      BY <2>1, <2>2
  <1>8. \A s \in Slot : x[s] # 0 <=> s \in OpenMarkets'
    BY <1>2, <1>3, <1>5 DEF ListInv, Lists
  <1> QED
    BY <1>1, <1>3, <1>4, <1>5, <1>6, <1>7, <1>8 DEF ListInv, Lists

\* A batch of closings takes exactly the closed markets out of the list.
LEMMA CloseKeepsList ==
    ASSUME GateInv, ListInv, NEW seq, NEW markets \in Batches, CloseEach(seq, markets)
    PROVE  ListInv'
  <1> DEFINE closes == {s \in Published : (\E i \in DOMAIN markets : markets[i] = s)
                                           /\ AcceptsClose(s, seq)}
             r == WithoutSlots(markets, closes)
  <1>1. Published \subseteq Slot
    BY RoomAssumption DEF GateInv, GateTypeOK, Published, Slot
  <1>2. /\ openSlots' = r.list /\ openIndexPlusOne' = r.index
        /\ gateState' = [s \in Slot |-> IF s \in closes THEN "Closed" ELSE gateState[s]]
        /\ Published' = Published
    BY DEF CloseEach, Published
  <1>3. OpenMarkets' = OpenMarkets \ closes
    BY <1>1, <1>2 DEF OpenMarkets
  <1>4. /\ closes \in SUBSET Slot
        /\ \A s \in closes : \E i \in DOMAIN markets : markets[i] = s
    BY <1>1
  <1> HIDE DEF closes
  <1>5. Lists(r.list, r.index, OpenMarkets \ closes)
    BY <1>1, <1>4, WithoutSlotsKeeps DEF ListInv
  <1> HIDE DEF r
  <1> QED
    BY <1>2, <1>3, <1>5 DEF ListInv, Lists

\* Every other step leaves the list and the set of open markets alone.
LEMMA ListFrame ==
    ASSUME GateInv, [Next]_vars,
           ~ \E permit \in Permits : PublishSlot(ParticipantsReady, permit),
           ~ \E markets \in Batches, seq \in SourceSequences : CloseSlots(seq, markets),
           ~ \E markets \in Batches : CloseRemainingSlots(markets)
    PROVE  /\ UNCHANGED <<openSlots, openIndexPlusOne>>
           /\ OpenMarkets' = OpenMarkets
  <1> DEFINE Frame == /\ UNCHANGED <<openSlots, openIndexPlusOne, slotCount>>
                      /\ \A s \in Slot : gateState'[s] = "Closed" <=> gateState[s] = "Closed"
  <1>1. ASSUME Bond PROVE Frame
    <2>1. UNCHANGED roomGateVars
      BY <1>1 DEF Bond, PostIntegrityBond, ClaimIntegrityBond, FileIntegrityClaim, UpholdClaim,
                  RejectClaim, ExpireIntegrityClaim
    <2> QED
      BY <2>1 DEF roomGateVars, roomVars, listVars, marketVars, gateVars
  <1>2. ASSUME UNCHANGED vars \/ Tick \/ Market \/ CloseRoomOnGateStall PROVE Frame
    BY <1>2 DEF vars, roomGateVars, Tick, Market, FundSlot, UnfundSlot, FinalizeSlot,
                CloseRoomOnGateStall, roomVars, listVars, marketVars, gateVars
  <1>3. ASSUME NEW seq \in SourceSequences, Gate(seq)
        PROVE  Frame
    BY <1>3 DEF Gate, MarkRoomEpochsSafe, SuspendRoom, ReopenRoom, CloseRoom, listVars, marketVars,
                gateVars, GateInv, GateTypeOK
  <1>4. Frame
    BY <1>1, <1>2, <1>3 DEF Next, RoomGateNext
  <1>5. Published' = Published /\ Published \subseteq Slot
    BY <1>4, RoomAssumption DEF Published, Slot, GateInv, GateTypeOK
  <1>6. \A s : s \in OpenMarkets' <=> s \in OpenMarkets
    BY <1>4, <1>5 DEF OpenMarkets
  <1> QED
    BY <1>4, <1>6

\* The list invariant holds throughout, with the gate's.
THEOREM ListInvariant == Spec => [](GateInv /\ ListInv)
  <1>1. Init => ListInv
    BY RoomAssumption DEF Init, RoomGateInit, ListInv, Lists, OpenMarkets, Published, Slot
  <1>2. GateInv /\ ListInv /\ [Next]_vars => ListInv'
    <2> SUFFICES ASSUME GateInv, ListInv, [Next]_vars PROVE ListInv'
      OBVIOUS
    <2>1. ASSUME NEW markets \in Batches,
                 (\E seq \in SourceSequences : CloseSlots(seq, markets)) \/ CloseRemainingSlots(markets)
          PROVE  ListInv'
      BY <2>1, CloseKeepsList DEF CloseSlots, CloseRemainingSlots
    <2> QED
      BY <2>1, PublishKeepsList, ListFrame DEF ListInv, Lists
  <1> QED
    BY <1>1, <1>2, GateInvariant, PTL DEF Spec

\* The swap-and-pop list is exactly the open markets, each at its own place, for
\* any number of slots and any batches.
THEOREM OpenList == Spec => []OpenListExact
  <1>1. GateInv /\ ListInv => OpenListExact
    BY DEF ListInv, Lists, OpenListExact, OpenMarkets
  <1> QED
    BY <1>1, ListInvariant, PTL

-------------------------------------------------------------------------------
(* The bonds. *)

OpenAgainst(p) == {id \in OpenClaims : claims[id].participant = p}
UpheldAgainst(p) == \E id \in DOMAIN claims : claims[id].participant = p /\ claims[id].status = "Upheld"

\* The bond fields have their types.
BondTypes ==
    /\ BondsTypeOK
    /\ final \in [Slot -> BOOLEAN]

\* The counter of open claims that a claim of the bond waits for is exact, and
\* claims are only filed against a closed room.
ClaimsCounted ==
    /\ \A p \in Participants : openClaimsAgainst[p] = Cardinality(OpenAgainst(p))
    /\ claims # <<>> => RoomIsClosed

\* A missing bond that no upheld claim took was never there, or was paid back at the end.
MissingBondIsPaidBack ==
    \A p \in Participants :
        integrityBondOf[p] = 0 /\ ~UpheldAgainst(p) /\ slotCount # 0 =>
            RoomIsClosed /\ \A s \in Published : final[s]

BondInv == BondTypes /\ RoomHoldsBondsOnly /\ ClaimsCounted /\ MissingBondIsPaidBack

\* What a step of the room may do to what the bonds depend on: a closed room
\* stays closed and publishes nothing, and only a bonded room publishes.
LEMMA RoomStepsForBonds ==
    ASSUME GateTypeOK, final \in [Slot -> BOOLEAN], RoomGateNext(ParticipantsReady)
    PROVE  /\ final' \in [Slot -> BOOLEAN] /\ \A s \in Slot : final[s] => final'[s]
           /\ RoomIsClosed => RoomIsClosed' /\ slotCount' = slotCount
           /\ slotCount' = slotCount \/ ParticipantsReady
  <1>1. CASE Tick
    BY <1>1 DEF Tick, roomVars, closingVars, listVars, marketVars, RoomIsClosed
  <1>2. CASE \E permit \in Permits : PublishSlot(ParticipantsReady, permit)
    BY <1>2 DEF PublishSlot, closingVars, marketVars, RoomIsClosed
  <1>3. CASE \E seq \in SourceSequences : Gate(seq)
    BY <1>3 DEF Gate, MarkRoomEpochsSafe, SuspendRoom, ReopenRoom, CloseSlots, CloseRoom, CloseEach,
                AdvanceSequence, closingVars, listVars, marketVars, RoomIsClosed
  <1>4. CASE CloseRoomOnGateStall
    BY <1>4 DEF CloseRoomOnGateStall, listVars, marketVars, RoomIsClosed
  <1>5. CASE \E markets \in Batches : CloseRemainingSlots(markets)
    BY <1>5 DEF CloseRemainingSlots, CloseEach, closingVars, RoomIsClosed
  <1>6. CASE Market
    BY <1>6 DEF Market, FundSlot, UnfundSlot, FinalizeSlot, roomVars, closingVars, listVars, RoomIsClosed
  <1> QED
    BY <1>1, <1>2, <1>3, <1>4, <1>5, <1>6 DEF RoomGateNext

\* A step of the room keeps every bond and claim.
LEMMA RoomKeepsBonds ==
    ASSUME GateTypeOK, BondInv, RoomGateNext(ParticipantsReady), UNCHANGED bondVars
    PROVE  BondInv'
  <1>1. /\ final' \in [Slot -> BOOLEAN] /\ \A s \in Slot : final[s] => final'[s]
        /\ RoomIsClosed => RoomIsClosed' /\ slotCount' = slotCount
        /\ slotCount' = slotCount \/ ParticipantsReady
    BY RoomStepsForBonds DEF BondInv, BondTypes
  <1>2. UNCHANGED <<integrityBondOf, integrityBondClaimed, claims, openClaimsAgainst, balance>>
    BY DEF bondVars
  <1>3. BondTypes'
    BY <1>1, <1>2 DEF BondInv, BondTypes, BondsTypeOK
  <1>4. RoomHoldsBondsOnly'
    BY <1>2 DEF BondInv, RoomHoldsBondsOnly, OpenClaims
  <1>5. ClaimsCounted'
    BY <1>1, <1>2 DEF BondInv, ClaimsCounted, OpenAgainst, OpenClaims
  <1>6. MissingBondIsPaidBack'
    <2> SUFFICES ASSUME NEW p \in Participants, integrityBondOf[p] = 0, ~UpheldAgainst(p), slotCount' # 0
                 PROVE  RoomIsClosed' /\ \A s \in Published' : final'[s]
      BY <1>2 DEF MissingBondIsPaidBack, UpheldAgainst
    <2>1. ~ParticipantsReady
      BY BondAssumption DEF ParticipantsReady
    <2>2. RoomIsClosed /\ \A s \in Published : final[s]
      BY <1>1, <2>1 DEF BondInv, MissingBondIsPaidBack
    <2>3. Published' = Published /\ Published \subseteq Slot
      BY <1>1, <2>2, RoomAssumption DEF Published, Slot, GateTypeOK
    <2> QED
      BY <1>1, <2>2, <2>3
  <1> QED
    BY <1>3, <1>4, <1>5, <1>6 DEF BondInv

\* The set of open claims is finite, and so are its parts.
LEMMA OpenClaimsFinite ==
    ASSUME BondTypes
    PROVE  /\ IsFiniteSet(OpenClaims) /\ Cardinality(OpenClaims) \in Nat
           /\ \A p \in Participants : IsFiniteSet(OpenAgainst(p)) /\ Cardinality(OpenAgainst(p)) \in Nat
  <1>1. DOMAIN claims = 1 .. Len(claims) /\ Len(claims) \in Nat
    BY DEF BondTypes, BondsTypeOK
  <1>2. IsFiniteSet(DOMAIN claims)
    BY <1>1, FS_Interval
  <1>3. OpenClaims \in SUBSET DOMAIN claims /\ \A p : OpenAgainst(p) \in SUBSET DOMAIN claims
    BY DEF OpenClaims, OpenAgainst
  <1> QED
    BY <1>2, <1>3, FS_Subset, FS_CardinalityType

\* One participant's bond changes the sum of them by as much.
LEMMA BondSum ==
    ASSUME NEW f \in [Participants -> {0, ROOM_INTEGRITY_BOND}], NEW p \in Participants,
           NEW v \in {0, ROOM_INTEGRITY_BOND}
    PROVE  /\ [f EXCEPT ![p] = v] \in [Participants -> {0, ROOM_INTEGRITY_BOND}]
           /\ SumFunction(f) \in Nat /\ SumFunction([f EXCEPT ![p] = v]) \in Nat
           /\ SumFunction(f) + v = SumFunction([f EXCEPT ![p] = v]) + f[p]
  <1> DEFINE g == [f EXCEPT ![p] = v]
  <1>1. /\ g \in [Participants -> {0, ROOM_INTEGRITY_BOND}]
        /\ f \in [Participants -> Nat] /\ g \in [Participants -> Nat]
        /\ g[p] = v /\ \A q \in Participants \ {p} : g[q] = f[q]
    BY BondAssumption
  <1> HIDE DEF g
  <1>2. /\ SumFunction(f) \in Nat /\ SumFunction(g) \in Nat
        /\ SumFunction(f) + g[p] = SumFunction(g) + f[p]
    BY <1>1, BondAssumption, SumChange
  <1> QED
    BY <1>1, <1>2 DEF g

\* The bonds have a sum.
LEMMA BondSumNat ==
    ASSUME NEW f \in [Participants -> {0, ROOM_INTEGRITY_BOND}]
    PROVE  SumFunction(f) \in Nat
  <1>1. IsFiniteSet(Participants) /\ \A p \in Participants : f[p] \in Nat
    BY BondAssumption
  <1> QED
    BY <1>1, SumSame DEF SumFunction

\* What the open claims hold, with one more of them or one less.
LEMMA ClaimBonds ==
    ASSUME NEW n \in Nat
    PROVE  /\ INTEGRITY_CLAIM_BOND \in Nat /\ INTEGRITY_CLAIM_BOND * n \in Nat
           /\ INTEGRITY_CLAIM_BOND * (n + 1) = INTEGRITY_CLAIM_BOND * n + INTEGRITY_CLAIM_BOND
           /\ INTEGRITY_CLAIM_BOND * (n - 1) = INTEGRITY_CLAIM_BOND * n - INTEGRITY_CLAIM_BOND
  <1>1. INTEGRITY_CLAIM_BOND \in Nat
    BY BondAssumption
  <1>2. \A c \in Nat : c * (n + 1) = c * n + c /\ c * (n - 1) = c * n - c
    OBVIOUS
  <1> QED
    BY <1>1, <1>2, ProductNat

\* A new claim is one more open claim, against its participant.
LEMMA FileCounts ==
    ASSUME GateTypeOK, BondTypes, ClaimsCounted, NEW p \in Participants, FileIntegrityClaim(p)
    PROVE  /\ claims' \in Seq(Claim) /\ openClaimsAgainst' \in [Participants -> Nat]
           /\ Cardinality(OpenClaims)' = Cardinality(OpenClaims) + 1
           /\ ClaimsCounted'
           /\ \A q \in Participants : UpheldAgainst(q) => UpheldAgainst(q)'
  <1> DEFINE new == [participant |-> p, filedAt |-> now, status |-> "Open"]
             n == Len(claims) + 1
  <1>1. /\ claims' = Append(claims, new)
        /\ openClaimsAgainst' = [openClaimsAgainst EXCEPT ![p] = @ + 1]
        /\ RoomIsClosed /\ roomClosedSequence' = roomClosedSequence
    BY DEF FileIntegrityClaim, roomGateVars, roomVars, closingVars
  <1>2. /\ claims \in Seq(Claim) /\ openClaimsAgainst \in [Participants -> Nat]
        /\ new \in Claim
    BY DEF BondTypes, BondsTypeOK, GateTypeOK, Claim
  <1>3. /\ claims' \in Seq(Claim) /\ DOMAIN claims' = DOMAIN claims \cup {n} /\ n \notin DOMAIN claims
        /\ claims'[n] = new /\ \A id \in DOMAIN claims : claims'[id] = claims[id]
    BY <1>1, <1>2
  <1> HIDE DEF n
  <1>4. OpenClaims' = OpenClaims \cup {n} /\ n \notin OpenClaims
    BY <1>3 DEF OpenClaims
  <1>5. \A q \in Participants : OpenAgainst(q)' = OpenAgainst(q) \cup (IF q = p THEN {n} ELSE {})
                                /\ n \notin OpenAgainst(q)
    BY <1>3, <1>4 DEF OpenAgainst, OpenClaims
  <1>6. Cardinality(OpenClaims)' = Cardinality(OpenClaims) + 1
    BY <1>4, OpenClaimsFinite, FS_AddElement
  <1>7. ASSUME NEW q \in Participants
        PROVE  openClaimsAgainst'[q] = Cardinality(OpenAgainst(q)')
    <2>1. openClaimsAgainst[q] = Cardinality(OpenAgainst(q)) /\ IsFiniteSet(OpenAgainst(q))
      BY OpenClaimsFinite DEF ClaimsCounted
    <2>2. CASE q = p
      <3>1. Cardinality(OpenAgainst(q) \cup {n}) = Cardinality(OpenAgainst(q)) + 1
        BY <1>5, <2>1, FS_AddElement
      <3> QED
        BY <1>1, <1>2, <1>5, <2>1, <2>2, <3>1
    <2>3. CASE q # p
      BY <1>1, <1>2, <1>5, <2>1, <2>3
    <2> QED
      BY <2>2, <2>3
  <1>8. \A q \in Participants : UpheldAgainst(q) => UpheldAgainst(q)'
    BY <1>3 DEF UpheldAgainst
  <1> QED
    BY <1>1, <1>2, <1>3, <1>6, <1>7, <1>8 DEF ClaimsCounted, RoomIsClosed

\* A concluded claim is one open claim less, against its participant.
LEMMA ConcludeCounts ==
    ASSUME BondTypes, ClaimsCounted, NEW id \in DOMAIN claims,
           NEW status \in {"Upheld", "Rejected", "Expired"}, Conclude(id, status), UNCHANGED roomClosedSequence
    PROVE  /\ claims[id].participant \in Participants /\ id \in OpenClaims
           /\ claims' \in Seq(Claim) /\ openClaimsAgainst' \in [Participants -> Nat]
           /\ Cardinality(OpenClaims)' = Cardinality(OpenClaims) - 1
           /\ ClaimsCounted' /\ RoomIsClosed
           /\ \A q \in Participants : UpheldAgainst(q) => UpheldAgainst(q)'
           /\ claims'[id].participant = claims[id].participant /\ claims'[id].status = status
           /\ id \in DOMAIN claims'
  <1> DEFINE p == claims[id].participant
  <1>1. /\ claims[id].status = "Open"
        /\ openClaimsAgainst[p] >= 1
        /\ claims' = [claims EXCEPT ![id].status = status]
        /\ openClaimsAgainst' = [openClaimsAgainst EXCEPT ![p] = @ - 1]
    BY DEF Conclude
  <1>2. /\ claims \in Seq(Claim) /\ openClaimsAgainst \in [Participants -> Nat]
        /\ claims[id] \in Claim /\ p \in Participants /\ claims # <<>>
    <2>1. claims \in Seq(Claim) /\ openClaimsAgainst \in [Participants -> Nat]
      BY DEF BondTypes, BondsTypeOK
    <2>2. claims[id] \in Claim /\ claims # <<>>
      BY <2>1
    <2> QED
      BY <2>1, <2>2 DEF Claim
  <1>3. /\ claims' \in Seq(Claim) /\ DOMAIN claims' = DOMAIN claims
        /\ claims'[id].status = status /\ claims'[id].participant = p
        /\ \A j \in DOMAIN claims \ {id} : claims'[j] = claims[j]
    <2> DEFINE c == [claims[id] EXCEPT !.status = status]
    <2>1. c \in Claim /\ c.status = status /\ c.participant = p
      BY <1>2 DEF Claim
    <2>2. claims' = [claims EXCEPT ![id] = c]
      BY <1>1
    <2> HIDE DEF c, p
    <2> QED
      BY <1>2, <2>1, <2>2
  <1>4. id \in OpenClaims /\ OpenClaims' = OpenClaims \ {id}
    BY <1>1, <1>3 DEF OpenClaims
  <1>5. \A q \in Participants :
           OpenAgainst(q)' = (IF q = p THEN OpenAgainst(q) \ {id} ELSE OpenAgainst(q))
    BY <1>3, <1>4 DEF OpenAgainst, OpenClaims
  <1>6. Cardinality(OpenClaims)' = Cardinality(OpenClaims) - 1
    BY <1>4, OpenClaimsFinite, FS_RemoveElement
  <1>7. ASSUME NEW q \in Participants
        PROVE  openClaimsAgainst'[q] = Cardinality(OpenAgainst(q)')
    <2>1. openClaimsAgainst[q] = Cardinality(OpenAgainst(q)) /\ IsFiniteSet(OpenAgainst(q))
      BY OpenClaimsFinite DEF ClaimsCounted
    <2>2. CASE q = p
      <3>1. id \in OpenAgainst(q)
        BY <1>4, <2>2 DEF OpenAgainst
      <3>2. Cardinality(OpenAgainst(q) \ {id}) = Cardinality(OpenAgainst(q)) - 1
        BY <2>1, <3>1, FS_RemoveElement
      <3> QED
        BY <1>1, <1>2, <1>5, <2>1, <2>2, <3>2
    <2>3. CASE q # p
      BY <1>1, <1>2, <1>5, <2>1, <2>3
    <2> QED
      BY <2>2, <2>3
  <1>8. \A q \in Participants : UpheldAgainst(q) => UpheldAgainst(q)'
    BY <1>1, <1>3 DEF UpheldAgainst
  <1>9. openClaimsAgainst' \in [Participants -> Nat]
    BY <1>1, <1>2
  <1> QED
    BY <1>2, <1>3, <1>4, <1>6, <1>7, <1>8, <1>9 DEF ClaimsCounted, RoomIsClosed

\* A step of the bonds leaves the room and its markets as they are.
LEMMA BondStepsLeaveRoom ==
    ASSUME BondTypes, UNCHANGED roomGateVars
    PROVE  /\ final' \in [Slot -> BOOLEAN] /\ RoomIsClosed' = RoomIsClosed
           /\ UNCHANGED <<roomClosedSequence, slotCount, final>> /\ Published' = Published
  BY DEF BondTypes, roomGateVars, roomVars, closingVars, listVars, marketVars, RoomIsClosed, Published

\* Posting adds one bond to the room's holdings.
LEMMA PostKeepsBonds ==
    ASSUME BondInv, NEW p \in Participants, PostIntegrityBond(p)
    PROVE  BondInv'
  <1> DEFINE B == ROOM_INTEGRITY_BOND
             old == SumFunction(integrityBondOf)
             new == SumFunction(integrityBondOf')
             n == Cardinality(OpenClaims)
  <1>0. B \in Nat \ {0}
    BY BondAssumption
  <1>1. /\ integrityBondOf[p] = 0
        /\ integrityBondOf' = [integrityBondOf EXCEPT ![p] = B]
        /\ balance' = balance + B
        /\ UNCHANGED <<integrityBondClaimed, claims, openClaimsAgainst>>
    BY DEF PostIntegrityBond, Receive
  <1>2. /\ final' \in [Slot -> BOOLEAN] /\ RoomIsClosed' = RoomIsClosed
        /\ UNCHANGED <<slotCount, final>> /\ Published' = Published
    BY BondStepsLeaveRoom DEF PostIntegrityBond, BondInv
  <1>3. integrityBondOf \in [Participants -> {0, B}] /\ balance \in Nat
    BY DEF BondInv, BondTypes, BondsTypeOK
  <1>4. /\ integrityBondOf' \in [Participants -> {0, B}]
        /\ old \in Nat /\ new \in Nat /\ old + B = new + 0
    BY <1>1, <1>3, BondSum
  <1>5. n \in Nat /\ OpenClaims' = OpenClaims /\ balance = old + INTEGRITY_CLAIM_BOND * n
    BY <1>1, OpenClaimsFinite DEF BondInv, RoomHoldsBondsOnly, OpenClaims
  <1>6. balance' = new + INTEGRITY_CLAIM_BOND * n /\ balance' \in Nat
    <2> DEFINE b == balance'
    <2>1. b = balance + B
      BY <1>1
    <2> DEFINE x == INTEGRITY_CLAIM_BOND * n
    <2>2. x \in Nat /\ balance = old + x
      BY <1>5, ClaimBonds
    <2> HIDE DEF B, old, new, b, x
    <2>3. b = new + x /\ b \in Nat
      BY <1>0, <1>3, <1>4, <2>1, <2>2
    <2> QED
      BY <2>3 DEF b, x
  <1>7. BondTypes' /\ RoomHoldsBondsOnly'
    BY <1>1, <1>2, <1>4, <1>5, <1>6 DEF BondInv, BondTypes, BondsTypeOK, RoomHoldsBondsOnly
  <1>8. ClaimsCounted'
    BY <1>1, <1>2 DEF BondInv, ClaimsCounted, OpenAgainst, OpenClaims
  <1>9. MissingBondIsPaidBack'
    <2>1. \A q \in Participants : /\ UpheldAgainst(q)' <=> UpheldAgainst(q)
                                  /\ integrityBondOf'[q] = 0 => integrityBondOf[q] = 0
      BY <1>0, <1>1, <1>3 DEF UpheldAgainst
    <2> QED
      BY <1>2, <2>1 DEF BondInv, MissingBondIsPaidBack
  <1> QED
    BY <1>7, <1>8, <1>9 DEF BondInv

\* A participant's bond goes back when every market of the closed room is final.
LEMMA ClaimKeepsBonds ==
    ASSUME BondInv, NEW p \in Participants, ClaimIntegrityBond(p)
    PROVE  BondInv'
  <1> DEFINE B == ROOM_INTEGRITY_BOND
             old == SumFunction(integrityBondOf)
             new == SumFunction(integrityBondOf')
             n == Cardinality(OpenClaims)
  <1>0. B \in Nat \ {0}
    BY BondAssumption
  <1>1. /\ integrityBondOf' = [integrityBondOf EXCEPT ![p] = 0]
        /\ integrityBondClaimed' = [integrityBondClaimed EXCEPT ![p] = TRUE]
        /\ balance' = balance - integrityBondOf[p]
        /\ RoomIsClosed /\ \A s \in Published : final[s]
        /\ UNCHANGED <<claims, openClaimsAgainst>>
    BY DEF ClaimIntegrityBond, Claimable, PayOut
  <1>2. /\ final' \in [Slot -> BOOLEAN] /\ RoomIsClosed' = RoomIsClosed
        /\ UNCHANGED <<slotCount, final>> /\ Published' = Published
    BY BondStepsLeaveRoom DEF ClaimIntegrityBond, BondInv
  <1>3. /\ integrityBondOf \in [Participants -> {0, B}] /\ balance \in Nat
        /\ integrityBondClaimed \in [Participants -> BOOLEAN]
    BY DEF BondInv, BondTypes, BondsTypeOK
  <1>4. /\ integrityBondOf' \in [Participants -> {0, B}]
        /\ old \in Nat /\ new \in Nat /\ old + 0 = new + integrityBondOf[p]
    BY <1>1, <1>3, BondSum
  <1>5. n \in Nat /\ OpenClaims' = OpenClaims /\ balance = old + INTEGRITY_CLAIM_BOND * n
    BY <1>1, OpenClaimsFinite DEF BondInv, RoomHoldsBondsOnly, OpenClaims
  <1>6. balance' = new + INTEGRITY_CLAIM_BOND * n /\ balance' \in Nat
    <2> DEFINE b == balance'
               v == integrityBondOf[p]
    <2>1. b = balance - v /\ v \in Nat /\ old + 0 = new + v
      BY <1>0, <1>1, <1>3, <1>4
    <2> DEFINE x == INTEGRITY_CLAIM_BOND * n
    <2>2. x \in Nat /\ balance = old + x
      BY <1>5, ClaimBonds
    <2> HIDE DEF B, old, new, b, v, x
    <2>3. b = new + x /\ b \in Nat
      BY <1>3, <1>4, <2>1, <2>2
    <2> QED
      BY <2>3 DEF b, x
  <1>7. BondTypes' /\ RoomHoldsBondsOnly'
    BY <1>1, <1>2, <1>3, <1>4, <1>5, <1>6 DEF BondInv, BondTypes, BondsTypeOK, RoomHoldsBondsOnly
  <1>8. ClaimsCounted'
    BY <1>1, <1>2 DEF BondInv, ClaimsCounted, OpenAgainst, OpenClaims
  <1>9. MissingBondIsPaidBack'
    BY <1>1, <1>2 DEF MissingBondIsPaidBack
  <1> QED
    BY <1>7, <1>8, <1>9 DEF BondInv

\* Filing adds the claim's bond.
LEMMA FileKeepsBonds ==
    ASSUME GateTypeOK, BondInv, NEW p \in Participants, FileIntegrityClaim(p)
    PROVE  BondInv'
  <1> DEFINE sum == SumFunction(integrityBondOf)
             n == Cardinality(OpenClaims)
             n1 == Cardinality(OpenClaims)'
             c == INTEGRITY_CLAIM_BOND
  <1>1. /\ balance' = balance + c /\ RoomIsClosed
        /\ UNCHANGED <<integrityBondOf, integrityBondClaimed>>
    BY DEF FileIntegrityClaim, Receive
  <1>2. /\ final' \in [Slot -> BOOLEAN] /\ RoomIsClosed' = RoomIsClosed
        /\ UNCHANGED <<slotCount, final>> /\ Published' = Published
    BY BondStepsLeaveRoom DEF FileIntegrityClaim, BondInv
  <1>3. /\ claims' \in Seq(Claim) /\ openClaimsAgainst' \in [Participants -> Nat]
        /\ n1 = n + 1 /\ ClaimsCounted'
        /\ \A q \in Participants : UpheldAgainst(q) => UpheldAgainst(q)'
    BY FileCounts DEF BondInv
  <1>4. /\ sum \in Nat /\ n \in Nat /\ balance \in Nat /\ balance = sum + c * n /\ c \in Nat
    <2>1. sum \in Nat
      BY BondSumNat DEF BondInv, BondTypes, BondsTypeOK
    <2> QED
      BY <2>1, OpenClaimsFinite, BondAssumption DEF BondInv, BondTypes, BondsTypeOK, RoomHoldsBondsOnly
  <1>5. balance' = sum + c * n1 /\ balance' \in Nat
    <2> DEFINE b == balance'
    <2>1. b = balance + c
      BY <1>1
    <2> DEFINE x == c * n
               y == c * n1
    <2>2. x \in Nat /\ y = x + c
      BY <1>3, <1>4, ClaimBonds
    <2> HIDE DEF sum, n, b, c, x, y
    <2>3. b = sum + y /\ b \in Nat
      BY <1>4, <2>1, <2>2 DEF x
    <2> QED
      BY <2>3 DEF b, y
  <1>6. BondTypes' /\ RoomHoldsBondsOnly'
    BY <1>1, <1>2, <1>3, <1>5 DEF BondInv, BondTypes, BondsTypeOK, RoomHoldsBondsOnly
  <1>7. MissingBondIsPaidBack'
    BY <1>1, <1>2, <1>3 DEF BondInv, MissingBondIsPaidBack
  <1> QED
    BY <1>3, <1>6, <1>7 DEF BondInv

\* A verdict, or none in time, pays the claim's bond out, and an upheld claim what is left of
\* the participant's.
LEMMA ConcludeKeepsBonds ==
    ASSUME BondInv, NEW id \in DOMAIN claims, UpholdClaim(id) \/ RejectClaim(id) \/ ExpireIntegrityClaim(id)
    PROVE  BondInv'
  <1> DEFINE B == ROOM_INTEGRITY_BOND
             p == claims[id].participant
             paid == IF UpholdClaim(id) THEN integrityBondOf[p] ELSE 0
             left == IF UpholdClaim(id) THEN [integrityBondOf EXCEPT ![p] = 0] ELSE integrityBondOf
             old == SumFunction(integrityBondOf)
             new == SumFunction(left)
             n == Cardinality(OpenClaims)
             n1 == Cardinality(OpenClaims)'
             c == INTEGRITY_CLAIM_BOND
  <1>0. B \in Nat \ {0} /\ c \in Nat
    BY BondAssumption
  <1>1. PICK status \in {"Upheld", "Rejected", "Expired"} :
          /\ Conclude(id, status) /\ (UpholdClaim(id) => status = "Upheld")
          /\ UNCHANGED <<roomGateVars, integrityBondClaimed>>
    BY DEF UpholdClaim, RejectClaim, ExpireIntegrityClaim
  <1>2. integrityBondOf' = left /\ balance' = balance - (paid + c)
    <2>1. CASE UpholdClaim(id)
      BY <2>1 DEF UpholdClaim, PayOut
    <2>2. CASE ~UpholdClaim(id)
      <3>1. integrityBondOf' = integrityBondOf /\ balance' = balance - c
        BY <2>2 DEF RejectClaim, ExpireIntegrityClaim, PayOut
      <3> QED
        BY <1>0, <2>2, <3>1
    <2> QED
      BY <2>1, <2>2
  <1>3. /\ final' \in [Slot -> BOOLEAN] /\ RoomIsClosed' = RoomIsClosed
        /\ UNCHANGED <<roomClosedSequence, slotCount, final>> /\ Published' = Published
    BY <1>1, BondStepsLeaveRoom DEF BondInv
  <1>4. /\ p \in Participants
        /\ claims' \in Seq(Claim) /\ openClaimsAgainst' \in [Participants -> Nat]
        /\ n1 = n - 1 /\ ClaimsCounted' /\ RoomIsClosed
        /\ \A q \in Participants : UpheldAgainst(q) => UpheldAgainst(q)'
        /\ status = "Upheld" => \A q \in Participants : q = p => UpheldAgainst(q)'
        /\ id \in OpenClaims
    <2>1. /\ claims[id].participant \in Participants /\ id \in OpenClaims
          /\ claims' \in Seq(Claim) /\ openClaimsAgainst' \in [Participants -> Nat]
          /\ Cardinality(OpenClaims)' = Cardinality(OpenClaims) - 1
          /\ ClaimsCounted' /\ RoomIsClosed
          /\ \A q \in Participants : UpheldAgainst(q) => UpheldAgainst(q)'
          /\ claims'[id].participant = claims[id].participant /\ claims'[id].status = status
          /\ id \in DOMAIN claims'
      BY <1>1, <1>3, ConcludeCounts DEF BondInv
    <2> QED
      BY <2>1 DEF UpheldAgainst
  <1>5. integrityBondOf \in [Participants -> {0, B}] /\ balance \in Nat
        /\ integrityBondClaimed \in [Participants -> BOOLEAN]
    BY DEF BondInv, BondTypes, BondsTypeOK
  <1>6. /\ left \in [Participants -> {0, B}]
        /\ old \in Nat /\ new \in Nat /\ paid \in Nat /\ old = new + paid
    <2>1. CASE UpholdClaim(id)
      <3>1. /\ left \in [Participants -> {0, B}]
            /\ old \in Nat /\ new \in Nat /\ old + 0 = new + integrityBondOf[p]
        BY <1>4, <1>5, <2>1, BondSum
      <3>2. paid = integrityBondOf[p] /\ paid \in Nat
        BY <1>0, <1>4, <1>5, <2>1
      <3> HIDE DEF left, old, new, paid
      <3>3. old = new + paid
        BY <3>1, <3>2
      <3> QED
        BY <3>1, <3>2, <3>3
    <2>2. CASE ~UpholdClaim(id)
      <3>1. left = integrityBondOf /\ old = new /\ paid = 0
        BY <2>2
      <3>2. old \in Nat
        BY <1>5, BondSumNat
      <3> HIDE DEF left, old, new, paid
      <3> QED
        BY <1>5, <3>1, <3>2
    <2> QED
      BY <2>1, <2>2
  <1>7. /\ n \in Nat /\ n1 \in Nat /\ balance = old + c * n
    <2>1. IsFiniteSet(OpenClaims) /\ n \in Nat
      BY OpenClaimsFinite DEF BondInv
    <2>2. n # 0
      BY <1>4, <2>1, FS_EmptySet
    <2> HIDE DEF n1
    <2>3. n1 \in Nat
      BY <1>4, <2>1, <2>2
    <2> QED
      BY <2>1, <2>3 DEF BondInv, RoomHoldsBondsOnly
  <1> HIDE DEF paid
  <1>8. balance' = new + c * n1 /\ balance' \in Nat
    <2> DEFINE b == balance'
    <2>1. b = balance - (paid + c)
      BY <1>2
    <2> DEFINE x == c * n
               y == c * n1
    <2>2. x \in Nat /\ y \in Nat /\ y = x - c
      BY <1>4, <1>7, ClaimBonds
    <2> HIDE DEF old, new, n, n1, b, c, x, y
    <2>3. balance = old + x
      BY <1>7 DEF x
    <2>4. b = new + y /\ b \in Nat
      BY <1>0, <1>5, <1>6, <2>1, <2>2, <2>3
    <2> QED
      BY <2>4 DEF b, y
  <1>9. BondTypes' /\ RoomHoldsBondsOnly'
    BY <1>1, <1>2, <1>3, <1>4, <1>5, <1>6, <1>8 DEF BondInv, BondTypes, BondsTypeOK, RoomHoldsBondsOnly
  <1>10. MissingBondIsPaidBack'
    <2> SUFFICES ASSUME NEW q \in Participants, integrityBondOf'[q] = 0, ~UpheldAgainst(q)', slotCount' # 0
                 PROVE  RoomIsClosed' /\ \A s \in Published' : final'[s]
      BY DEF MissingBondIsPaidBack
    <2>1. ~UpheldAgainst(q)
      BY <1>4
    <2>2. integrityBondOf[q] = 0
      <3>1. CASE UpholdClaim(id)
        <4>1. q # p
          BY <1>1, <1>4, <3>1
        <4> QED
          BY <1>2, <1>4, <1>5, <3>1, <4>1
      <3>2. CASE ~UpholdClaim(id)
        BY <1>2, <3>2
      <3> QED
        BY <3>1, <3>2
    <2> QED
      BY <1>3, <2>1, <2>2 DEF BondInv, MissingBondIsPaidBack
  <1> QED
    BY <1>4, <1>9, <1>10 DEF BondInv

\* The invariant of the bonds, whatever the order of postings, claims, verdicts and
\* of what the room itself does.
THEOREM BondInvariant == Spec => []BondInv
  <1>1. Init => BondInv
    <2> SUFFICES ASSUME Init PROVE BondInv
      OBVIOUS
    <2>1. /\ integrityBondOf = [p \in Participants |-> 0] /\ claims = <<>> /\ balance = 0
          /\ openClaimsAgainst = [p \in Participants |-> 0] /\ slotCount = 0
          /\ integrityBondClaimed = [p \in Participants |-> FALSE]
          /\ final = [s \in Slot |-> FALSE]
      BY DEF Init, RoomGateInit
    <2>2. BondTypes /\ integrityBondOf \in [Participants -> {0, ROOM_INTEGRITY_BOND}]
      BY <2>1 DEF BondTypes, BondsTypeOK
    <2>3. OpenClaims = {} /\ \A p \in Participants : OpenAgainst(p) = {}
      BY <2>1 DEF OpenClaims, OpenAgainst
    <2>4. Cardinality(OpenClaims) = 0 /\ \A p \in Participants : Cardinality(OpenAgainst(p)) = 0
      BY <2>3, FS_EmptySet
    <2>5. SumFunction(integrityBondOf) = 0
      BY <2>1, BondAssumption, SumZero
    <2>6. RoomHoldsBondsOnly
      BY <2>1, <2>4, <2>5, BondAssumption DEF RoomHoldsBondsOnly
    <2> QED
      BY <2>1, <2>2, <2>4, <2>6 DEF BondInv, ClaimsCounted, MissingBondIsPaidBack
  <1>2. GateInv /\ BondInv /\ [Next]_vars => BondInv'
    <2> SUFFICES ASSUME GateInv, BondInv, [Next]_vars PROVE BondInv'
      OBVIOUS
    <2>1. GateTypeOK
      BY DEF GateInv
    <2>2. CASE RoomGateNext(ParticipantsReady) /\ UNCHANGED bondVars
      BY <2>1, <2>2, RoomKeepsBonds
    <2>3. CASE \E p \in Participants : PostIntegrityBond(p)
      BY <2>3, PostKeepsBonds
    <2>4. CASE \E p \in Participants : ClaimIntegrityBond(p)
      BY <2>4, ClaimKeepsBonds
    <2>5. CASE \E p \in Participants : FileIntegrityClaim(p)
      BY <2>1, <2>5, FileKeepsBonds
    <2>6. CASE \E id \in DOMAIN claims : UpholdClaim(id) \/ RejectClaim(id) \/ ExpireIntegrityClaim(id)
      BY <2>6, ConcludeKeepsBonds
    <2>7. CASE UNCHANGED vars
      <3>1. UNCHANGED <<roomGateVars, integrityBondOf, integrityBondClaimed, claims, openClaimsAgainst, balance>>
        BY <2>7 DEF vars, bondVars
      <3>2. /\ final' \in [Slot -> BOOLEAN] /\ RoomIsClosed' = RoomIsClosed
            /\ UNCHANGED <<slotCount, final>> /\ Published' = Published
        BY <3>1, BondStepsLeaveRoom DEF BondInv
      <3> QED
        BY <3>1, <3>2 DEF BondInv, BondTypes, BondsTypeOK, RoomHoldsBondsOnly, ClaimsCounted,
                          MissingBondIsPaidBack, OpenAgainst, OpenClaims, UpheldAgainst
    <2> QED
      BY <2>2, <2>3, <2>4, <2>5, <2>6, <2>7 DEF Next, Bond
  <1> QED
    BY <1>1, <1>2, GateInvariant, PTL DEF Spec

\* The room's holdings are exactly what it owes, bond by bond and claim by claim, and while a
\* market is not final both participants' bonds are there unless a claim was upheld: for any
\* participants, bonds and number of claims.
THEOREM BondsKept == Spec => []BondsAreKept
  <1>1. BondInv => BondsAreKept
    <2> SUFFICES ASSUME BondInv PROVE MarketsAreBonded
      BY DEF BondsAreKept, BondInv
    <2> SUFFICES ASSUME NEW s \in Published, ~final[s], NEW p \in Participants, ~UpheldAgainst(p)
                 PROVE  integrityBondOf[p] = ROOM_INTEGRITY_BOND
      BY DEF MarketsAreBonded, UpheldAgainst
    <2>1. slotCount # 0
      BY DEF Published
    <2> QED
      BY <2>1 DEF BondInv, MissingBondIsPaidBack, BondTypes, BondsTypeOK
  <1> QED
    BY <1>1, BondInvariant, PTL

\* A bond leaves the room only when the room is closed and either everything else is over, the
\* claims against it included, or a claim against it is upheld in that very step.
THEOREM BondLeavesAtEnd == Spec => BondReleasedAtEnd
  <1> DEFINE Released == \A p \in Participants : integrityBondOf'[p] < integrityBondOf[p] =>
         /\ RoomIsClosed
         /\ \/ /\ \A s \in Published : final[s]
               /\ now >= roomClosedAt + IntegrityClaimWindow
               /\ \A id \in OpenClaims : claims[id].participant # p
            \/ \E id \in OpenClaims : claims[id].participant = p /\ claims'[id].status = "Upheld"
  <1>1. BondInv /\ [Next]_vars => Released
    <2> SUFFICES ASSUME BondInv, [Next]_vars, NEW p \in Participants, integrityBondOf'[p] < integrityBondOf[p]
                 PROVE  /\ RoomIsClosed
                        /\ \/ /\ \A s \in Published : final[s]
                              /\ now >= roomClosedAt + IntegrityClaimWindow
                              /\ \A id \in OpenClaims : claims[id].participant # p
                           \/ \E id \in OpenClaims : claims[id].participant = p /\ claims'[id].status = "Upheld"
      OBVIOUS
    <2>0. /\ integrityBondOf \in [Participants -> {0, ROOM_INTEGRITY_BOND}] /\ ROOM_INTEGRITY_BOND \in Nat
          /\ \A q \in Participants : integrityBondOf[q] \in Nat
      BY BondAssumption DEF BondInv, BondTypes, BondsTypeOK
    <2>1. integrityBondOf' # integrityBondOf
      BY <2>0
    <2>2. CASE \E q \in Participants : ClaimIntegrityBond(q)
      <3>1. PICK q \in Participants : ClaimIntegrityBond(q)
        BY <2>2
      <3>2. p = q
        BY <2>0, <3>1 DEF ClaimIntegrityBond
      <3>3. /\ RoomIsClosed /\ \A s \in Published : final[s]
            /\ now >= roomClosedAt + IntegrityClaimWindow
            /\ openClaimsAgainst[p] = 0
        BY <3>1, <3>2 DEF ClaimIntegrityBond, Claimable
      <3>4. OpenAgainst(p) = {}
        <4>1. Cardinality(OpenAgainst(p)) = 0 /\ IsFiniteSet(OpenAgainst(p))
          BY <3>3, OpenClaimsFinite DEF BondInv, ClaimsCounted
        <4> QED
          BY <4>1, FS_EmptySet
      <3> QED
        BY <3>3, <3>4 DEF OpenAgainst
    <2>3. CASE \E id \in DOMAIN claims : UpholdClaim(id)
      <3>1. PICK id \in DOMAIN claims : UpholdClaim(id)
        BY <2>3
      <3>2. claims[id].participant = p
        BY <2>0, <3>1 DEF UpholdClaim
      <3>3. Conclude(id, "Upheld") /\ UNCHANGED roomClosedSequence
        BY <3>1 DEF UpholdClaim, roomGateVars, roomVars, closingVars
      <3>4. id \in OpenClaims /\ RoomIsClosed /\ claims'[id].status = "Upheld"
        BY <3>3, ConcludeCounts DEF BondInv
      <3> QED
        BY <3>2, <3>4
    <2>4. CASE \E q \in Participants : PostIntegrityBond(q)
      BY <2>0, <2>4 DEF PostIntegrityBond
    <2>5. \/ \E q \in Participants : ClaimIntegrityBond(q) \/ PostIntegrityBond(q)
          \/ \E id \in DOMAIN claims : UpholdClaim(id)
      BY <2>1 DEF Next, Bond, FileIntegrityClaim, RejectClaim, ExpireIntegrityClaim, vars, bondVars
    <2> QED
      BY <2>2, <2>3, <2>4, <2>5
  <1>2. Spec => [][Released]_vars
    <2> HIDE DEF Released
    <2> QED
      BY <1>1, BondInvariant, PTL DEF Spec
  <1> QED
    BY <1>2 DEF BondReleasedAtEnd

-------------------------------------------------------------------------------
(* The process that holds the gate key. *)

\* The least of a set of naturals, and the greatest of one that is bounded.
LEMMA MinIsIn ==
    ASSUME NEW S \in SUBSET Nat, S # {}
    PROVE  Min(S) \in S /\ \A y \in S : Min(S) <= y
  <1>1. \E x \in S : \A y \in S : x <= y
    BY LeastNat
  <1> QED
    BY <1>1 DEF Min

LEMMA MaxIsIn ==
    ASSUME NEW S \in SUBSET Nat, S # {}, NEW bound \in Nat, \A y \in S : y <= bound
    PROVE  Max(S) \in S /\ \A y \in S : y <= Max(S)
  <1> DEFINE T == {bound - y : y \in S}
  <1>1. T \in SUBSET Nat
    OBVIOUS
  <1>2. T # {}
    OBVIOUS
  <1> HIDE DEF T
  <1>3. PICK t \in T : \A u \in T : t <= u
    BY <1>1, <1>2, LeastNat
  <1>4. \E x \in S : \A y \in S : x >= y
    <2>1. PICK x \in S : t = bound - x
      BY DEF T
    <2>2. \A y \in S : bound - y \in T
      BY DEF T
    <2> QED
      BY <1>3, <2>1, <2>2
  <1>5. \E x : x \in S /\ \A y \in S : x >= y
    BY <1>4
  <1> QED
    BY <1>5 DEF Max

\* Every finite set of numbers can be listed in ascending order.
IsAscending(list, S) ==
    list \in [1 .. Cardinality(S) -> S] /\ \A i, j \in DOMAIN list : i < j => list[i] < list[j]

LEMMA AscendingLists ==
    ASSUME NEW S \in SUBSET Nat, IsFiniteSet(S)
    PROVE  Ascending(S) \in Seq(S)
  <1> DEFINE Stuck(n) == \E R \in SUBSET Nat : /\ IsFiniteSet(R) /\ Cardinality(R) = n
                                              /\ ~ \E list : IsAscending(list, R)
             T == {n \in Nat : Stuck(n)}
  <1>1. ASSUME NEW n \in Nat, NEW R \in SUBSET Nat, IsFiniteSet(R), Cardinality(R) = n,
               n = 0 \/ ~Stuck(n - 1)
        PROVE  \E list : IsAscending(list, R)
    <2>1. CASE R = {}
      <3> DEFINE list == [i \in 1 .. 0 |-> 0]
      <3>1. Cardinality(R) = 0
        BY <2>1, FS_EmptySet
      <3>2. IsAscending(list, R)
        BY <3>1 DEF IsAscending
      <3> QED
        BY <3>2
    <2>2. CASE R # {}
      <3>1. PICK m \in R : \A y \in R : m <= y
        BY <2>2, LeastNat
      <3> DEFINE Q == R \ {m}
      <3>2. n # 0 /\ IsFiniteSet(Q) /\ Cardinality(Q) = n - 1 /\ n - 1 \in Nat
        BY <1>1, <3>1, FS_RemoveElement, FS_CardinalityType, RemoveOne
      <3>3. PICK rest : IsAscending(rest, Q)
        BY <1>1, <3>2
      <3> DEFINE list == [i \in 1 .. n |-> IF i = 1 THEN m ELSE rest[i - 1]]
      <3>4. \A i \in 2 .. n : i - 1 \in 1 .. n - 1
        BY <1>1
      <3>5. \A i \in 1 .. n - 1 : rest[i] \in Q
        BY <3>2, <3>3 DEF IsAscending
      <3>6. \A i \in 2 .. n : rest[i - 1] \in R /\ m < rest[i - 1]
        <4> SUFFICES ASSUME NEW i \in 2 .. n PROVE rest[i - 1] \in R /\ m < rest[i - 1]
          OBVIOUS
        <4> DEFINE r == rest[i - 1]
        <4>1. r \in Q
          BY <3>4, <3>5
        <4> HIDE DEF r
        <4>2. r \in R /\ r # m /\ m <= r /\ m \in Nat /\ r \in Nat
          BY <3>1, <4>1
        <4> QED
          BY <4>2 DEF r
      <3>7. \A i, j \in 2 .. n : i < j => rest[i - 1] < rest[j - 1]
        <4> SUFFICES ASSUME NEW i \in 2 .. n, NEW j \in 2 .. n, i < j
                     PROVE  rest[i - 1] < rest[j - 1]
          OBVIOUS
        <4>1. DOMAIN rest = 1 .. n - 1
          BY <3>2, <3>3 DEF IsAscending
        <4>2. i - 1 \in DOMAIN rest /\ j - 1 \in DOMAIN rest /\ i - 1 < j - 1
          BY <3>4, <4>1
        <4> QED
          BY <3>3, <4>2 DEF IsAscending
      <3>8. list \in [1 .. n -> R]
        BY <3>1, <3>6
      <3>9. \A i, j \in 1 .. n : i < j => list[i] < list[j]
        BY <1>1, <3>6, <3>7
      <3> QED
        BY <1>1, <3>8, <3>9 DEF IsAscending
    <2> QED
      BY <2>1, <2>2
  <1>2. T \in SUBSET Nat
    OBVIOUS
  <1>3. T = {}
    <2> SUFFICES ASSUME T # {} PROVE FALSE
      OBVIOUS
    <2>1. PICK n \in T : \A k \in T : n <= k
      <3> HIDE DEF T
      <3> QED
        BY <1>2, LeastNat
    <2>2. n = 0 \/ ~Stuck(n - 1)
      <3> HIDE DEF Stuck
      <3> QED
        BY <2>1
    <2>3. PICK R \in SUBSET Nat : /\ IsFiniteSet(R) /\ Cardinality(R) = n
                                  /\ ~ \E list : IsAscending(list, R)
      BY <2>1
    <2> HIDE DEF Stuck
    <2> QED
      BY <1>1, <2>1, <2>2, <2>3
  <1>4. Cardinality(S) \in Nat
    BY FS_CardinalityType
  <1>5. \E list : IsAscending(list, S)
    BY <1>3, <1>4
  <1>6. \E list \in [1 .. Cardinality(S) -> S] : \A i, j \in DOMAIN list : i < j => list[i] < list[j]
    BY <1>5 DEF IsAscending
  <1>7. Ascending(S) \in [1 .. Cardinality(S) -> S]
    BY <1>6 DEF Ascending
  <1> QED
    BY <1>4, <1>7

-------------------------------------------------------------------------------
(* The log. *)

LogTypeOK ==
    /\ occurred \in Seq([by : Range(Roster), at : Time, effect : Fills])
    /\ log \in Seq([at : Time, fill : Nat])
    /\ \A i \in DOMAIN log : log[i].fill \in 0 .. Len(occurred)

\* What has happened, and what has been logged, stays.
LogGrows ==
    /\ \A i \in DOMAIN log : i \in DOMAIN log' /\ log'[i] = log[i]
    /\ \A n \in DOMAIN occurred : n \in DOMAIN occurred' /\ occurred'[n] = occurred[n]

LEMMA NewFillsListed ==
    ASSUME LogTypeOK, NEW p
    PROVE  NewFills(p) \in Seq(DOMAIN occurred)
  <1> DEFINE S == {n \in DOMAIN occurred : occurred[n].by = p /\ ~Logged(n)}
             N == Len(occurred)
  <1>1. N \in Nat /\ DOMAIN occurred = 1 .. N
    BY DEF LogTypeOK
  <1>2. S \in SUBSET (1 .. N)
    BY <1>1
  <1>3. NewFills(p) = Ascending(S)
    BY DEF NewFills
  <1> HIDE DEF S, N
  <1>4. IsFiniteSet(S) /\ S \in SUBSET Nat
    <2>1. IsFiniteSet(1 .. N)
      BY <1>1, FS_Interval
    <2>2. IsFiniteSet(S)
      BY <1>2, <2>1, FS_Subset
    <2>3. 1 .. N \in SUBSET Nat
      BY <1>1
    <2> QED
      BY <1>2, <2>2, <2>3
  <1>5. Ascending(S) \in Seq(S)
    BY <1>4, AscendingLists
  <1>6. S \in SUBSET (DOMAIN occurred)
    BY <1>1, <1>2
  <1> QED
    BY <1>3, <1>5, <1>6

\* What the recursive definition in PollOnce says of its function.
IsFound(f, n) == f = [i \in 0 .. n |-> IF i = 0 THEN <<>> ELSE f[i - 1] \o NewFills(Roster[i])]

\* It has a value for every number of participants that answer, a list of fills.
LEMMA FoundDefined ==
    ASSUME NEW n \in Nat
    PROVE  \E f : IsFound(f, n)
  <1> DEFINE New(i) == NewFills(Roster[i])
             Found(f, m) == f = [i \in 0 .. m |-> IF i = 0 THEN <<>> ELSE f[i - 1] \o New(i)]
             T == {m \in Nat : ~ \E f : Found(f, m)}
  <1>1. Found([i \in 0 .. 0 |-> <<>>], 0)
    OBVIOUS
  <1>2. ASSUME NEW m \in Nat, NEW f, Found(f, m)
        PROVE  \E g : Found(g, m + 1)
    <2> DEFINE g == [i \in 0 .. m + 1 |-> IF i = m + 1 THEN f[m] \o New(m + 1) ELSE f[i]]
    <2> HIDE DEF New
    <2>1. \A i \in 0 .. m + 1 : g[i] = IF i = 0 THEN <<>> ELSE g[i - 1] \o New(i)
      <3> SUFFICES ASSUME NEW i \in 0 .. m + 1
                   PROVE  g[i] = IF i = 0 THEN <<>> ELSE g[i - 1] \o New(i)
        OBVIOUS
      <3>1. CASE i = m + 1
        <4>1. i # 0 /\ i - 1 = m /\ m \in 0 .. m + 1 /\ m # m + 1
          BY <3>1
        <4> QED
          BY <3>1, <4>1
      <3>2. CASE i # m + 1
        <4>1. i \in 0 .. m /\ (i # 0 => i - 1 \in 0 .. m /\ i - 1 # m + 1 /\ i - 1 \in 0 .. m + 1)
          BY <3>2
        <4>2. f[i] = IF i = 0 THEN <<>> ELSE f[i - 1] \o New(i)
          BY <1>2, <4>1
        <4> QED
          BY <3>2, <4>1, <4>2
      <3> QED
        BY <3>1, <3>2
    <2>2. g = [i \in 0 .. m + 1 |-> g[i]]
      OBVIOUS
    <2> HIDE DEF g
    <2>3. Found(g, m + 1)
      BY <2>1, <2>2
    <2> QED
      BY <2>3
  <1> HIDE DEF Found
  <1>3. T = {}
    <2> SUFFICES ASSUME T # {} PROVE FALSE
      OBVIOUS
    <2>1. PICK m \in T : \A k \in T : m <= k
      BY LeastNat
    <2>2. m # 0
      BY <1>1
    <2>3. m - 1 \in Nat /\ m - 1 \notin T /\ (m - 1) + 1 = m
      BY <2>1, <2>2
    <2>4. \E f : Found(f, m - 1)
      BY <2>3
    <2>5. \E g : Found(g, (m - 1) + 1)
      BY <1>2, <2>3, <2>4
    <2> QED
      BY <2>1, <2>3, <2>5
  <1>4. \E f : Found(f, n)
    BY <1>3
  <1> QED
    BY <1>4 DEF Found, IsFound

LEMMA FoundListed ==
    ASSUME LogTypeOK, NEW n \in Nat, NEW f, IsFound(f, n)
    PROVE  f[n] \in Seq(DOMAIN occurred)
  <1> DEFINE D == DOMAIN occurred
             T == {i \in 0 .. n : f[i] \notin Seq(D)}
  <1>1. \A i \in 0 .. n : f[i] = IF i = 0 THEN <<>> ELSE f[i - 1] \o NewFills(Roster[i])
    BY DEF IsFound
  <1>2. \A p : NewFills(p) \in Seq(D)
    BY NewFillsListed
  <1> HIDE DEF D
  <1>3. T \in SUBSET Nat
    OBVIOUS
  <1>4. T = {}
    <2> SUFFICES ASSUME T # {} PROVE FALSE
      OBVIOUS
    <2>1. PICK i \in T : \A k \in T : i <= k
      <3> HIDE DEF T
      <3> QED
        BY <1>3, LeastNat
    <2>2. i \in 0 .. n /\ f[i] \notin Seq(D)
      OBVIOUS
    <2>3. CASE i = 0
      <3>1. f[i] = <<>>
        BY <1>1, <2>2, <2>3
      <3> QED
        BY <2>2, <3>1
    <2>4. CASE i # 0
      <3>1. i - 1 \in 0 .. n /\ i - 1 \notin T
        BY <2>1, <2>2, <2>4
      <3>2. f[i - 1] \in Seq(D)
        BY <3>1
      <3>3. f[i - 1] \o NewFills(Roster[i]) \in Seq(D)
        BY <1>2, <3>2
      <3> QED
        BY <1>1, <2>2, <2>4, <3>3
    <2> QED
      BY <2>3, <2>4
  <1> QED
    BY <1>4 DEF D

\* What occurs is remembered as it was, and what a round of the connector finds is
\* appended to the log.
LEMMA SourceGrows ==
    ASSUME now \in Time, LogTypeOK, Source
    PROVE  LogTypeOK' /\ LogGrows
  <1> DEFINE Fill == [by : Range(Roster), at : Time, effect : Fills]
             Event == [at : Time, fill : Nat]
  <1>0. /\ occurred \in Seq(Fill) /\ log \in Seq(Event)
        /\ \A i \in DOMAIN log : log[i].fill \in 0 .. Len(occurred)
    BY DEF LogTypeOK
  <1>1. CASE \E p \in Range(Roster), effect \in Fills : FillOccurs(p, effect)
    <2>1. PICK p \in Range(Roster), effect \in Fills : FillOccurs(p, effect)
      BY <1>1
    <2> DEFINE new == [by |-> p, at |-> now, effect |-> effect]
    <2>2. new \in Fill
      OBVIOUS
    <2>3. occurred' = Append(occurred, new) /\ log' = log
      BY <2>1 DEF FillOccurs
    <2> HIDE DEF new, Fill
    <2>4. /\ occurred' \in Seq(Fill) /\ Len(occurred') = Len(occurred) + 1 /\ Len(occurred) \in Nat
          /\ \A n \in DOMAIN occurred : n \in DOMAIN occurred' /\ occurred'[n] = occurred[n]
      BY <1>0, <2>2, <2>3
    <2>5. \A i \in DOMAIN log : log[i].fill \in 0 .. Len(occurred')
      BY <1>0, <2>4
    <2> QED
      BY <1>0, <2>3, <2>4, <2>5 DEF LogTypeOK, LogGrows, Fill
  <1>2. CASE \E answered \in 0 .. Len(Roster) : PollOnce(answered)
    <2>1. PICK answered \in 0 .. Len(Roster) : PollOnce(answered)
      BY <1>2
    <2> DEFINE f == CHOOSE g : IsFound(g, answered)
               fills == f[answered]
               beat == [at |-> now, fill |-> 0]
               new == [i \in DOMAIN fills |-> [at |-> occurred[fills[i]].at, fill |-> fills[i]]]
    <2>2. answered \in Nat
      BY GateAssumption
    <2>3. IsFound(f, answered)
      BY <2>2, FoundDefined, Zenon
    <2>4. fills \in Seq(DOMAIN occurred)
      <3> HIDE DEF f
      <3> QED
        BY <2>2, <2>3, FoundListed
    <2>5. /\ occurred' = occurred
          /\ log' = log \o new \/ log' = Append(log, beat) \/ log' = log
      BY <2>1 DEF PollOnce, IsFound
    <2> HIDE DEF f, fills
    <2>6. /\ new \in Seq(Event) /\ beat \in Event
          /\ \A i \in DOMAIN new : new[i].fill \in 0 .. Len(occurred)
      <3>1. DOMAIN fills = 1 .. Len(fills) /\ Len(fills) \in Nat /\ Len(occurred) \in Nat
        BY <2>4, <1>0
      <3>2. \A i \in DOMAIN fills : fills[i] \in 1 .. Len(occurred) /\ occurred[fills[i]].at \in Time
        <4> SUFFICES ASSUME NEW i \in DOMAIN fills
                     PROVE  fills[i] \in 1 .. Len(occurred) /\ occurred[fills[i]].at \in Time
          OBVIOUS
        <4>1. fills[i] \in DOMAIN occurred /\ DOMAIN occurred = 1 .. Len(occurred)
          BY <1>0, <2>4
        <4>2. occurred[fills[i]] \in Fill
          <5> HIDE DEF Fill
          <5>1. \A x \in DOMAIN occurred : occurred[x] \in Fill
            BY <1>0
          <5> QED
            BY <4>1, <5>1
        <4> QED
          BY <4>1, <4>2
      <3>3. \A i \in DOMAIN fills : [at |-> occurred[fills[i]].at, fill |-> fills[i]] \in Event
        BY <3>1, <3>2
      <3> QED
        BY <3>1, <3>2, <3>3
    <2> HIDE DEF new
    <2>b. beat.fill = 0
      OBVIOUS
    <2> HIDE DEF beat, Event, Fill
    <2>7. /\ log' \in Seq(Event)
          /\ \A i \in DOMAIN log : i \in DOMAIN log' /\ log'[i] = log[i]
          /\ \A i \in DOMAIN log' : log'[i].fill \in 0 .. Len(occurred)
      <3>0. Len(occurred) \in Nat /\ Len(log) \in Nat
        BY <1>0
      <3>1. CASE log' = log \o new
        <4>1. /\ log \o new \in Seq(Event)
              /\ \A i \in DOMAIN log : i \in DOMAIN (log \o new) /\ (log \o new)[i] = log[i]
              /\ \A i \in DOMAIN (log \o new) :
                    \/ i \in DOMAIN log /\ (log \o new)[i] = log[i]
                    \/ i - Len(log) \in DOMAIN new /\ (log \o new)[i] = new[i - Len(log)]
          BY <1>0, <2>6
        <4> DEFINE l == log \o new
        <4>2. log' = l
          BY <3>1
        <4> HIDE DEF l
        <4>3. \A i \in DOMAIN l : l[i].fill \in 0 .. Len(occurred)
          BY <1>0, <2>6, <4>1 DEF l
        <4> QED
          BY <4>1, <4>2, <4>3 DEF l
      <3>2. CASE log' = Append(log, beat)
        <4>1. /\ log' \in Seq(Event) /\ Len(log') = Len(log) + 1
              /\ \A i \in DOMAIN log : i \in DOMAIN log' /\ log'[i] = log[i]
              /\ log'[Len(log) + 1] = beat
          BY <1>0, <2>6, <3>2
        <4>2. \A i \in DOMAIN log' : i \in DOMAIN log \/ i = Len(log) + 1
          BY <1>0, <4>1
        <4> QED
          BY <1>0, <2>b, <3>0, <4>1, <4>2
      <3> QED
        BY <1>0, <2>5, <3>1, <3>2
    <2> QED
      BY <1>0, <2>5, <2>7 DEF LogTypeOK, LogGrows, Event
  <1> QED
    BY <1>1, <1>2 DEF Source

-------------------------------------------------------------------------------
(* What a tick knows when it calls the room. *)

AuthorityTypeOK ==
    /\ LogTypeOK
    /\ submitted \in [Slot -> SUBSET Epoch]
    /\ unevaluableSince \in [Slot -> Time \cup {Never}]

\* It closes the room for a decision in the log, or because the grace is over.
ClosingKnown ==
    pc \in {"SuspendAndClose", "CloseRoom"} =>
        IF decision = 0 THEN UnevaluableFor(Headline, UnevaluableGrace)
        ELSE decision \in DOMAIN log /\ Decides(decision, Headline)

\* It closes markets each for its own decision, the last of which it closes them at.
SlotsKnown ==
    pc = "CloseSlots" =>
        /\ decision \in Nat /\ closing \subseteq Slot
        /\ \A s \in closing : DecidedBy(s, decision) \/ UnevaluableFor(s, UnevaluableGrace)

\* It clears epochs that hold actions and are over at the event it clears them at.
ClearanceKnown ==
    pc = "Send" =>
        /\ tipRead \in DOMAIN log
        /\ \A s \in DOMAIN toClear :
             /\ toClear[s] \in Epoch
             /\ s \in Slot => toClear[s] \in submitted[s]
             /\ log[tipRead].at >= (toClear[s] + 1) * EpochDuration

Knows == ClosingKnown /\ SlotsKnown /\ ClearanceKnown

AuthorityInv == GateInv /\ AuthorityTypeOK /\ Knows /\ GateHasReasons

\* Processing an epoch calls the room for its markets only.
LEMMA ProcessStutters ==
    ASSUME GateTypeOK, NEW epochOf, ProcessRoom(epochOf)
    PROVE  GateIdle
  <1>1. now \in Nat
    BY RoomAssumption DEF GateTypeOK, Time
  <1> QED
    BY <1>1 DEF ProcessRoom, GateIdle, GateTypeOK, roomVars, watermarkVars, closingVars, listVars

\* The sequences that the gate calls the room with.
LEMMA SequencesAreNat ==
    ASSUME GateTypeOK, NEW seq \in Nat
    PROVE  RoomSequence(seq) \in Nat /\ GateClosingSequence(seq) \in Nat /\ seq <= GateClosingSequence(seq)
           /\ seq <= RoomSequence(seq)
  BY DEF GateTypeOK, RoomSequence, GateClosingSequence

\* The processes beside the gate.
LEMMA OthersCalls ==
    ASSUME GateTypeOK, AuthorityTypeOK, Others
    PROVE  Tick \/ UNCHANGED roomGateVars \/ GateActive
  <1>1. CASE CloseRoomOnGateStall
    BY <1>1 DEF GateActive, ClosesRoom
  <1>2. CASE \E s \in Slot : SubmitAction(s) \/ RecordPublished(s)
    BY <1>2 DEF SubmitAction, RecordPublished
  <1>3. ASSUME NEW seq \in DOMAIN log, Publish(seq)
        PROVE  Publishes
    <2> DEFINE permit == [slotIndex |-> slotCount, undecidedThrough |-> seq,
                          announceDelay |-> MinAnnounceDelay, issuedAt |-> now,
                          expiresAt |-> now + 1, nonce |-> slotCount, headlineTemplate |-> TRUE]
    <2>1. permit.undecidedThrough \in Nat
      BY DEF AuthorityTypeOK, LogTypeOK
    <2>2. PublishSlot(TRUE, permit)
      BY <1>3 DEF Publish
    <2> HIDE DEF permit
    <2> QED
      BY <2>1, <2>2 DEF Publishes
  <1> QED
    BY <1>1, <1>2, <1>3 DEF Others, GateActive

\* Each step of the gate makes at most one call to the room.
LEMMA GateStepCalls ==
    ASSUME GateTypeOK, AuthorityTypeOK, Knows, GateStep
    PROVE  UNCHANGED roomGateVars \/ ProcessCleared \/ Drain \/ GateActive
  <1> DEFINE n == Len(log)
  <1>0. n \in Nat /\ RoomSequence(n) \in Nat
    BY SequencesAreNat DEF AuthorityTypeOK, LogTypeOK
  <1>1. CASE SyncConditions \/ StartClosed \/ StartThrows \/ StartDecided \/ StartUnevaluable
               \/ StartUndecided \/ ChooseEpochs \/ Refused
    BY <1>1 DEF SyncConditions, StartClosed, StartThrows, StartDecided, StartUnevaluable,
                              StartUndecided, Start, ChooseEpochs, Refused
  <1>2. CASE SuspendUnevaluable \/ CheckFreshness
    <2>1. UNCHANGED roomGateVars \/ Switches(RoomSequence(n))
      BY <1>2 DEF SuspendUnevaluable, CheckFreshness, SuspendIfNeeded, ReopenIfNeeded, Switches
    <2> HIDE DEF n
    <2> QED
      BY <1>0, <2>1 DEF GateActive
  <1>3. CASE CloseTheRoom
    <2> DEFINE d == IF decision = 0 THEN n ELSE decision
               c == GateClosingSequence(d)
    <2>1. d \in Nat
      BY <1>0, <1>3 DEF CloseTheRoom, Knows, ClosingKnown, AuthorityTypeOK, LogTypeOK
    <2>2. CloseRoom(c)
      BY <1>3 DEF CloseTheRoom
    <2> HIDE DEF d
    <2>3. c \in Nat
      BY <2>1, SequencesAreNat
    <2> HIDE DEF c
    <2> QED
      BY <2>2, <2>3 DEF GateActive, ClosesRoom
  <1>4. CASE CloseRest \/ AfterClose
    BY <1>4, Zenon DEF CloseRest, AfterClose, GateActive, ClosesMarkets
  <1>5. CASE CloseDecidedSlots
    <2>1. decision \in Nat
      BY <1>5 DEF CloseDecidedSlots, Knows, SlotsKnown
    <2>2. GateClosingSequence(decision) \in Nat
      BY <2>1, SequencesAreNat
    <2>3. CloseSlots(GateClosingSequence(decision), Ascending(closing))
      BY <1>5 DEF CloseDecidedSlots
    <2> QED
      BY <2>2, <2>3, Zenon DEF GateActive, ClosesMarkets
  <1>6. CASE SendClearance
    <2>1. tipRead \in Nat /\ \A s \in DOMAIN toClear : toClear[s] \in Epoch
      BY <1>6 DEF SendClearance, Knows, ClearanceKnown, AuthorityTypeOK, LogTypeOK
    <2>2. RoomSequence(tipRead) \in Nat
      BY <2>1, SequencesAreNat
    <2>3. MarkRoomEpochsSafe(RoomSequence(tipRead), toClear)
      BY <1>6 DEF SendClearance
    <2> QED
      BY <2>1, <2>2, <2>3, Zenon DEF GateActive, Clears
  <1> QED
    BY <1>1, <1>2, <1>3, <1>4, <1>5, <1>6 DEF GateStep

LEMMA AuthorityStepCalls ==
    ASSUME GateInv, AuthorityTypeOK, Knows, [AuthorityNext]_authorityVars
    PROVE  Tick \/ UNCHANGED roomGateVars \/ ProcessCleared \/ Drain \/ GateActive
  <1>1. CASE Source \/ Fails \/ UNCHANGED authorityVars
    BY <1>1 DEF Source, Fails, authorityVars
  <1> QED
    BY <1>1, OthersCalls, GateStepCalls DEF AuthorityNext, GateInv

LEMMA AuthorityStepKinds ==
    ASSUME GateInv, AuthorityTypeOK, Knows, [AuthorityNext]_authorityVars
    PROVE  GateIdle \/ GateActive
  <1>1. CASE ProcessCleared \/ Drain
    BY <1>1, ProcessStutters, Zenon DEF ProcessCleared, Drain, GateInv
  <1> QED
    BY <1>1, AuthorityStepCalls, TickIsIdle, RoomStutters DEF GateInv

\* What the log shows of a market's decision.
Shows(l, o, s, seq) ==
    \E i \in DOMAIN l : i <= seq /\ l[i].fill # 0 /\ s \in o[l[i].fill].effect.decides

LEMMA ShownIsDecided ==
    /\ \A s, seq : DecidedBy(s, seq) <=> Shows(log, occurred, s, seq)
    /\ \A s, seq : DecidedBy(s, seq)' <=> Shows(log', occurred', s, seq)
  BY DEF DecidedBy, Decides, Shows

\* A decision that the log shows it shows for ever, and up to any later event.
LEMMA ShownStays ==
    ASSUME LogTypeOK, LogGrows
    PROVE  /\ \A s : \A i \in DOMAIN log : Decides(i, s) => i \in DOMAIN log' /\ Decides(i, s)'
           /\ \A s : \A m, n \in Nat : m <= n /\ Shows(log, occurred, s, m) => Shows(log', occurred', s, n)
  <1>1. \A i \in DOMAIN log : /\ i \in Nat /\ i \in DOMAIN log' /\ log'[i] = log[i]
                              /\ log[i].fill # 0 => occurred'[log[i].fill] = occurred[log[i].fill]
    <2> SUFFICES ASSUME NEW i \in DOMAIN log
                 PROVE  /\ i \in Nat /\ i \in DOMAIN log' /\ log'[i] = log[i]
                        /\ log[i].fill # 0 => occurred'[log[i].fill] = occurred[log[i].fill]
      OBVIOUS
    <2>1. log[i].fill \in 0 .. Len(occurred) /\ DOMAIN occurred = 1 .. Len(occurred) /\ Len(occurred) \in Nat
          /\ i \in Nat
      BY DEF LogTypeOK
    <2>2. log[i].fill # 0 => log[i].fill \in DOMAIN occurred
      BY <2>1
    <2> QED
      BY <2>1, <2>2 DEF LogGrows
  <1>2. \A s : \A i \in DOMAIN log : Decides(i, s) => i \in DOMAIN log' /\ Decides(i, s)'
    <2> SUFFICES ASSUME NEW s, NEW i \in DOMAIN log, Decides(i, s)
                 PROVE  i \in DOMAIN log' /\ Decides(i, s)'
      OBVIOUS
    <2> DEFINE k == log[i].fill
    <2>1. k # 0 /\ s \in occurred[k].effect.decides
      BY DEF Decides
    <2>2. i \in DOMAIN log' /\ log'[i].fill = k /\ occurred'[k] = occurred[k]
      <3>1. i \in DOMAIN log' /\ log'[i] = log[i] /\ (log[i].fill # 0 => occurred'[log[i].fill] = occurred[log[i].fill])
        BY <1>1, Zenon
      <3> QED
        BY <2>1, <3>1, Zenon
    <2>3. log'[i].fill # 0 /\ s \in occurred'[log'[i].fill].effect.decides
      <3> HIDE DEF k
      <3> QED
        BY <2>1, <2>2, Zenon
    <2> QED
      BY <2>2, <2>3 DEF Decides
  <1>3. ASSUME NEW s, NEW m \in Nat, NEW n \in Nat, m <= n, Shows(log, occurred, s, m)
        PROVE  Shows(log', occurred', s, n)
    <2>1. PICK i \in DOMAIN log : i <= m /\ log[i].fill # 0 /\ s \in occurred[log[i].fill].effect.decides
      BY <1>3 DEF Shows
    <2> DEFINE k == log[i].fill
    <2>2. i \in DOMAIN log' /\ log'[i].fill = k /\ occurred'[k] = occurred[k] /\ i \in Nat
      <3>1. /\ i \in DOMAIN log' /\ log'[i] = log[i] /\ i \in Nat
            /\ log[i].fill # 0 => occurred'[log[i].fill] = occurred[log[i].fill]
        BY <1>1, Zenon
      <3> QED
        BY <2>1, <3>1, Zenon
    <2>3. i <= n
      BY <1>3, <2>1, <2>2
    <2>4. log'[i].fill # 0 /\ s \in occurred'[log'[i].fill].effect.decides
      <3>1. k # 0 /\ s \in occurred[k].effect.decides
        BY <2>1
      <3> HIDE DEF k
      <3> QED
        BY <2>2, <3>1, Zenon
    <2> QED
      BY <2>2, <2>3, <2>4 DEF Shows
  <1> QED
    BY <1>2, <1>3

\* The event that a decided market is closed for is one that decided it.
LEMMA DecisionIsDecisive ==
    ASSUME LogTypeOK, NEW s, NEW upTo \in Nat, Status(s, upTo) = "decided"
    PROVE  /\ DecisionSeq(s, upTo) \in DOMAIN log /\ DecisionSeq(s, upTo) \in Nat
           /\ DecisionSeq(s, upTo) <= upTo /\ Decides(DecisionSeq(s, upTo), s)
  <1> DEFINE D == Decisive(s, upTo)
             T == {log[i].fill : i \in D}
  <1>1. D # {} /\ D \subseteq DOMAIN log /\ \A i \in D : i <= upTo /\ Decides(i, s)
    BY DEF Status, Decisive
  <1>2. \A i \in DOMAIN log : i \in Nat /\ log[i].fill \in Nat
    BY DEF LogTypeOK
  <1> HIDE DEF D
  <1>3. T \in SUBSET Nat /\ T # {}
    BY <1>1, <1>2
  <1>4. PICK t \in T : \A u \in T : t <= u
    <2> HIDE DEF T
    <2> QED
      BY <1>3, LeastNat
  <1>5. \E i \in D : \A j \in D : log[i].fill <= log[j].fill
    BY <1>4
  <1>6. DecisionSeq(s, upTo) \in D
    BY <1>5 DEF DecisionSeq, D
  <1> QED
    BY <1>1, <1>2, <1>6

LEMMA Marked ==
    ASSUME GateTypeOK, AuthorityTypeOK, NEW slots, Mark(slots)
    PROVE  /\ unevaluableSince' \in [Slot -> Time \cup {Never}]
           /\ \A s \in Slot : unevaluableSince'[s] = IF s \in slots THEN Since(s) ELSE unevaluableSince[s]
  <1>1. \A s \in Slot : Since(s) \in Time \cup {Never}
    BY DEF Since, GateTypeOK, AuthorityTypeOK
  <1>2. unevaluableSince' = [s \in Slot |-> IF s \in slots THEN Since(s) ELSE unevaluableSince[s]]
    BY DEF Mark
  <1> QED
    BY <1>1, <1>2 DEF AuthorityTypeOK

\* Since when a market cannot be evaluated is noted as a tick starts, of the markets
\* still open in a room still open.
LEMMA NotedAtStart ==
    ASSUME GateTypeOK, AuthorityTypeOK, [AuthorityNext]_authorityVars
    PROVE  /\ unevaluableSince' \in [Slot -> Time \cup {Never}]
           /\ pc # "Start" \/ RoomIsClosed => unevaluableSince' = unevaluableSince
           /\ \A s \in Slot : gateState[s] = "Closed" => unevaluableSince'[s] = unevaluableSince[s]
  <1>1. CASE StartThrows \/ StartUnevaluable \/ StartUndecided
    <2>1. pc = "Start" /\ ~RoomIsClosed
      BY <1>1 DEF StartThrows, StartUnevaluable, StartUndecided, Start
    <2>2. PICK slots : Mark(slots) /\ slots \subseteq OpenSlots
      <3>1. CASE StartThrows
        <4> DEFINE m == {s \in OpenSlots : \A r \in {r \in OpenSlots : Status(r, Len(log)) = "throws"} : s < r}
        <4>1. Mark(m)
          BY <3>1 DEF StartThrows
        <4>2. m \subseteq OpenSlots
          OBVIOUS
        <4> HIDE DEF m
        <4> QED
          BY <4>1, <4>2
      <3>2. CASE StartUnevaluable
        <4>1. Headline \in OpenSlots
          BY <3>2 DEF StartUnevaluable, HeadlineStatus
        <4>2. Mark({Headline})
          BY <3>2 DEF StartUnevaluable
        <4>3. {Headline} \subseteq OpenSlots
          BY <4>1
        <4> QED
          BY <4>2, <4>3
      <3>3. CASE StartUndecided
        <4>1. Mark(OpenSlots)
          BY <3>3 DEF StartUndecided
        <4> QED
          BY <4>1
      <3> QED
        BY <1>1, <3>1, <3>2, <3>3
    <2> QED
      BY <2>1, <2>2, Marked DEF OpenSlots
  <1>2. CASE ~(StartThrows \/ StartUnevaluable \/ StartUndecided)
    <2>1. CASE GateStep
      BY <1>2, <2>1 DEF GateStep, SyncConditions, StartClosed, StartDecided, Start, SuspendUnevaluable,
         CloseTheRoom, CloseRest, CloseDecidedSlots, CheckFreshness, ChooseEpochs, SendClearance,
         AfterClose, Refused, ProcessCleared, Drain, GoTo, Ends, TickOver, AuthorityTypeOK
    <2>2. CASE Others \/ Source \/ Fails \/ UNCHANGED authorityVars
      BY <2>2 DEF Others, Source, Fails, SubmitAction, RecordPublished, Publish, TickOver, authorityVars,
                  gateProcessVars, AuthorityTypeOK
    <2> QED
      BY <2>1, <2>2 DEF AuthorityNext
  <1> QED
    BY <1>1, <1>2

\* Everything else the gate relies on only grows.
LEMMA WorldGrows ==
    ASSUME GateInv, AuthorityTypeOK, Knows, [AuthorityNext]_authorityVars
    PROVE  /\ LogTypeOK' /\ LogGrows
           /\ submitted' \in [Slot -> SUBSET Epoch]
           /\ \A s \in Slot : submitted[s] \subseteq submitted'[s]
           /\ now <= now' /\ now \in Nat /\ now' \in Nat
  <1>1. LogTypeOK' /\ LogGrows
    <2>1. CASE Source
      BY <2>1, SourceGrows DEF GateInv, GateTypeOK, AuthorityTypeOK
    <2>2. CASE UNCHANGED sourceVars
      BY <2>2 DEF sourceVars, AuthorityTypeOK, LogTypeOK, LogGrows
    <2> QED
      BY <2>1, <2>2 DEF AuthorityNext, Others, SubmitAction, RecordPublished, Publish, GateStep, Fails,
                        authorityVars
  <1>2. submitted' \in [Slot -> SUBSET Epoch] /\ \A s \in Slot : submitted[s] \subseteq submitted'[s]
    <2>1. CASE \E s \in Slot : SubmitAction(s)
      <3>1. PICK s \in Slot : SubmitAction(s)
        BY <2>1
      <3>2. CurrentEpoch \in Epoch
        BY EpochsAdvance, RoomAssumption DEF CurrentEpoch, GateInv, GateTypeOK, Time
      <3>3. submitted' = [submitted EXCEPT ![s] = @ \cup {CurrentEpoch}]
        BY <3>1 DEF SubmitAction
      <3> QED
        BY <3>2, <3>3 DEF AuthorityTypeOK
    <2>2. CASE UNCHANGED submitted
      BY <2>2 DEF AuthorityTypeOK
    <2> QED
      BY <2>1, <2>2 DEF AuthorityNext, Others, Source, RecordPublished, Publish, GateStep, Fails, ProcessCleared,
                        Drain, ProcessRoom, queueVars, authorityVars
  <1>3. now <= now' /\ now \in Nat /\ now' \in Nat
    <2>1. GateIdle \/ GateActive
      BY AuthorityStepKinds
    <2>2. GateInv'
      BY <2>1, StepsKeepGate
    <2>3. now \in Nat /\ now' \in Nat
      BY <2>2, RoomAssumption DEF GateInv, GateTypeOK, Time
    <2>4. GateActive => now' = now
      BY DEF GateActive, Publishes, Clears, Switches, ClosesMarkets, ClosesRoom,
         PublishSlot, MarkRoomEpochsSafe, SuspendRoom, ReopenRoom, CloseSlots, CloseEach, CloseRoom,
         CloseRoomOnGateStall, CloseRemainingSlots
    <2>5. now <= now'
      BY <2>1, <2>3, <2>4 DEF GateIdle
    <2> QED
      BY <2>3, <2>5
  <1> QED
    BY <1>1, <1>2, <1>3

\* How the gate comes to the steps that call the room.
LEMMA GatePaths ==
    ASSUME GateStep \/ (Fails /\ UNCHANGED <<sourceVars, queueVars, recorded>>)
    PROVE  /\ pc' = "SuspendAndClose" => StartUnevaluable
           /\ pc' = "CloseRoom" =>
                StartDecided \/ (pc = "SuspendAndClose" /\ decision' = decision)
           /\ pc' = "CloseSlots" => StartUndecided
           /\ pc' = "Send" => ChooseEpochs
           /\ UNCHANGED <<log, occurred, submitted>>
  <1>1. CASE GateStep
    <2>1. CASE StartClosed \/ StartThrows \/ StartDecided \/ StartUnevaluable \/ StartUndecided
      <3>1. /\ pc' = "SuspendAndClose" => StartUnevaluable
            /\ pc' = "CloseRoom" => StartDecided
            /\ pc' = "CloseSlots" => StartUndecided
            /\ pc' # "Send"
        BY <2>1 DEF StartClosed, StartThrows, StartDecided, StartUnevaluable, StartUndecided, Start
      <3>2. UNCHANGED <<log, occurred, submitted>>
        BY <1>1 DEF GateStep, sourceVars, queueVars, ProcessCleared, Drain, ProcessRoom
      <3> QED
        BY <3>1, <3>2
    <2>2. CASE ~(StartClosed \/ StartThrows \/ StartDecided \/ StartUnevaluable \/ StartUndecided)
      BY <1>1, <2>2 DEF GateStep, SyncConditions, SuspendUnevaluable, CloseTheRoom, CloseRest,
         CloseDecidedSlots, CheckFreshness, ChooseEpochs, SendClearance, AfterClose, Refused, ProcessCleared,
         Drain, ProcessRoom, GoTo, Ends, TickOver, taskVars, sourceVars, queueVars
    <2> QED
      BY <2>1, <2>2
  <1>2. CASE Fails /\ UNCHANGED <<sourceVars, queueVars, recorded>>
    BY <1>2 DEF Fails, TickOver, sourceVars, queueVars
  <1> QED
    BY <1>1, <1>2

LEMMA GraceIsOver ==
    ASSUME GateTypeOK, AuthorityTypeOK, NEW s \in Slot, NEW slots, s \in slots, Mark(slots),
           GraceOver(s), now' = now
    PROVE  unevaluableSince'[s] # Never /\ unevaluableSince'[s] + UnevaluableGrace <= now'
  <1>1. unevaluableSince'[s] = Since(s) /\ Since(s) \in Time \cup {Never}
    BY Marked
  <1>2. Since(s) # Never /\ now - Since(s) >= UnevaluableGrace
    BY DEF GraceOver
  <1>3. /\ UnevaluableGrace \in Nat /\ now \in Nat /\ Since(s) \in Nat
    BY <1>1, <1>2, GateAssumption, RoomAssumption DEF GateTypeOK, Time
  <1> QED
    BY <1>1, <1>2, <1>3

\* What one market must have against it to be closed at seq.
Against(l, o, since, t, s, seq) ==
    Shows(l, o, s, seq) \/ (since[s] # Never /\ since[s] + UnevaluableGrace <= t)

LEMMA StartClosings ==
    ASSUME GateTypeOK, AuthorityTypeOK, StartUndecided
    PROVE  /\ decision' \in Nat /\ closing' \subseteq Slot
           /\ \A s \in closing' : Against(log, occurred, unevaluableSince', now, s, decision')
  <1> DEFINE n == Len(log)
             decided == {s \in Micros : Status(s, n) = "decided"}
             broken == {s \in Micros : GraceOver(s)}
             X == {DecisionSeq(s, n) : s \in decided} \cup {lastObservedSequence : s \in broken} \cup {0}
             bound == IF n >= lastObservedSequence THEN n ELSE lastObservedSequence
  <1>1. /\ decision' = Max(X) /\ closing' = decided \cup broken /\ Mark(OpenSlots) /\ now' = now
    BY DEF StartUndecided, Start, roomGateVars
  <1>2. OpenSlots \subseteq Slot /\ decided \subseteq OpenSlots /\ broken \subseteq OpenSlots
    BY RoomAssumption DEF OpenSlots, Micros, Published, Slot, GateTypeOK
  <1>3. n \in Nat /\ lastObservedSequence \in Nat
    BY DEF GateTypeOK, AuthorityTypeOK, LogTypeOK
  <1>4. ASSUME NEW s \in decided
        PROVE  /\ DecisionSeq(s, n) \in DOMAIN log /\ DecisionSeq(s, n) \in Nat
               /\ DecisionSeq(s, n) <= n /\ Decides(DecisionSeq(s, n), s)
    <2>1. Status(s, n) = "decided"
      OBVIOUS
    <2> HIDE DEF n
    <2> QED
      BY <1>3, <2>1, DecisionIsDecisive DEF AuthorityTypeOK
  <1>5. bound \in Nat /\ n <= bound /\ lastObservedSequence <= bound
    BY <1>3
  <1> HIDE DEF n, decided, broken, bound
  <1>6. X \in SUBSET Nat /\ X # {} /\ \A y \in X : y <= bound
    BY <1>3, <1>4, <1>5
  <1>7. Max(X) \in X /\ \A y \in X : y <= Max(X)
    <2> HIDE DEF X
    <2> QED
      BY <1>5, <1>6, MaxIsIn
  <1>8. ASSUME NEW s \in decided
        PROVE  Shows(log, occurred, s, Max(X))
    <2>1. DecisionSeq(s, n) \in X
      OBVIOUS
    <2> HIDE DEF X
    <2> QED
      BY <1>4, <1>7, <2>1 DEF Shows, Decides
  <1>9. ASSUME NEW s \in broken
        PROVE  unevaluableSince'[s] # Never /\ unevaluableSince'[s] + UnevaluableGrace <= now
    BY <1>1, <1>2, GraceIsOver DEF broken
  <1> HIDE DEF X
  <1>a. decision' = Max(X) /\ Max(X) \in Nat
    BY <1>1, <1>6, <1>7
  <1>b. closing' \subseteq Slot
    BY <1>1, <1>2
  <1>c. ASSUME NEW s \in closing'
        PROVE  Against(log, occurred, unevaluableSince', now, s, decision')
    <2>1. s \in decided \/ s \in broken
      BY <1>1
    <2> QED
      BY <1>8, <1>9, <1>a, <2>1 DEF Against
  <1> QED
    BY <1>a, <1>b, <1>c

\* The clearance that a tick prepares.
LEMMA ChosenAreOver ==
    ASSUME GateTypeOK, AuthorityTypeOK, ChooseEpochs, pc' = "Send"
    PROVE  /\ tipRead' \in DOMAIN log
           /\ \A s \in DOMAIN toClear' :
                /\ toClear'[s] \in Epoch /\ toClear'[s] \in submitted[s]
                /\ log[tipRead'].at >= (toClear'[s] + 1) * EpochDuration
  <1> DEFINE clearable == {s \in {r \in OpenSlots : Status(r, evaluated) = "undecided"} : Candidates(s) # {}}
             c == CurrentEpoch
  <1>1. /\ log # <<>> /\ tipRead' = Len(log)
        /\ toClear' = [s \in clearable |-> Min(Candidates(s))]
    BY DEF ChooseEpochs
  <1>2. Len(log) \in DOMAIN log
    BY <1>1 DEF AuthorityTypeOK, LogTypeOK
  <1>3. c \in Epoch
    BY EpochsAdvance, RoomAssumption DEF CurrentEpoch, GateTypeOK, Time
  <1>4. Epoch \subseteq Nat /\ 0 .. c - 1 \subseteq Epoch
    <2> HIDE DEF c
    <2>1. MaxTime \div EpochDuration \in Nat
      BY RoomAssumption, DivBounds
    <2> QED
      BY <1>3, <2>1 DEF Epoch
  <1>5. ASSUME NEW s \in clearable
        PROVE  Min(Candidates(s)) \in Candidates(s)
    <2>1. Candidates(s) \in SUBSET Nat /\ Candidates(s) # {}
      BY <1>4 DEF Candidates
    <2> QED
      BY <2>1, MinIsIn
  <1>6. ASSUME NEW s \in clearable
        PROVE  /\ toClear'[s] \in Epoch /\ toClear'[s] \in submitted[s]
               /\ log[tipRead'].at >= (toClear'[s] + 1) * EpochDuration
    <2>1. toClear'[s] \in Candidates(s)
      BY <1>1, <1>5
    <2> QED
      BY <1>1, <1>4, <2>1 DEF Candidates, HasPendingActions, Last
  <1> QED
    BY <1>1, <1>2, <1>6

\* What there is against a market stays, while since when it is broken is not noted anew.
LEMMA AgainstStays ==
    ASSUME GateInv, AuthorityTypeOK, Knows, [AuthorityNext]_authorityVars, NEW s \in Slot,
           unevaluableSince'[s] = unevaluableSince[s], NEW m \in Nat, NEW n \in Nat, m <= n,
           Against(log, occurred, unevaluableSince, now, s, m)
    PROVE  Against(log', occurred', unevaluableSince', now', s, n)
  <1>1. CASE Shows(log, occurred, s, m)
    BY <1>1, WorldGrows, ShownStays DEF Against, AuthorityTypeOK
  <1>2. CASE unevaluableSince[s] # Never /\ unevaluableSince[s] + UnevaluableGrace <= now
    <2>1. now <= now' /\ now \in Nat /\ now' \in Nat
      BY WorldGrows
    <2>2. unevaluableSince[s] \in Nat /\ UnevaluableGrace \in Nat
      BY <1>2, GateAssumption, RoomAssumption DEF AuthorityTypeOK, Time
    <2> QED
      BY <1>2, <2>1, <2>2 DEF Against
  <1> QED
    BY <1>1, <1>2 DEF Against

\* The gate's knowledge outlives what the other processes do until it calls the room.
LEMMA KnowsKept ==
    ASSUME GateInv, AuthorityTypeOK, Knows, [AuthorityNext]_authorityVars
    PROVE  Knows'
  <1>0. /\ LogTypeOK' /\ LogGrows /\ now <= now' /\ now \in Nat /\ now' \in Nat
        /\ \A s \in Slot : submitted[s] \subseteq submitted'[s]
        /\ LogTypeOK /\ GateTypeOK /\ Headline \in Slot
    BY WorldGrows, GateAssumption DEF AuthorityTypeOK, GateInv, Headline
  <1>1. CASE UNCHANGED <<pc, taskVars>> /\ pc # "Start"
    <2>1. unevaluableSince' = unevaluableSince
      BY <1>1, NotedAtStart DEF GateInv
    <2>2. ClosingKnown'
      <3>1. CASE decision = 0 /\ pc \in {"SuspendAndClose", "CloseRoom"}
        <4>1. unevaluableSince[0] # Never /\ unevaluableSince[0] + UnevaluableGrace <= now
          BY <3>1 DEF Knows, ClosingKnown, UnevaluableFor, Headline
        <4>2. unevaluableSince[0] \in Nat /\ UnevaluableGrace \in Nat
          BY <1>0, <4>1, GateAssumption, RoomAssumption DEF AuthorityTypeOK, Time, Headline
        <4>3. unevaluableSince[0] + UnevaluableGrace <= now'
          BY <1>0, <4>1, <4>2
        <4> QED
          BY <1>1, <2>1, <3>1, <4>1, <4>3 DEF ClosingKnown, UnevaluableFor, taskVars, Headline
      <3>2. CASE decision # 0 /\ pc \in {"SuspendAndClose", "CloseRoom"}
        <4>1. decision \in DOMAIN log /\ Decides(decision, Headline)
          BY <3>2 DEF Knows, ClosingKnown
        <4>2. decision' = decision /\ pc' = pc
          BY <1>1 DEF taskVars
        <4> DEFINE d == decision
        <4>3. d \in DOMAIN log' /\ log'[d].fill # 0 /\ Headline \in occurred'[log'[d].fill].effect.decides
          BY <1>0, <4>1, ShownStays DEF Decides
        <4> QED
          BY <3>2, <4>2, <4>3 DEF ClosingKnown, Decides
      <3> QED
        BY <1>1, <3>1, <3>2 DEF ClosingKnown
    <2>3. SlotsKnown'
      <3> SUFFICES ASSUME pc = "CloseSlots"
                   PROVE  SlotsKnown'
        BY <1>1 DEF SlotsKnown
      <3>1. decision \in Nat /\ closing \subseteq Slot /\ UNCHANGED <<decision, closing>>
        BY <1>1 DEF Knows, SlotsKnown, taskVars
      <3>2. ASSUME NEW s \in closing
            PROVE  Against(log', occurred', unevaluableSince', now', s, decision)
        <4>1. Against(log, occurred, unevaluableSince, now, s, decision)
          BY ShownIsDecided DEF Knows, SlotsKnown, UnevaluableFor, Against
        <4>2. s \in Slot /\ decision <= decision
          BY <3>1
        <4> QED
          BY <2>1, <3>1, <4>1, <4>2, AgainstStays
      <3> QED
        BY <3>1, <3>2, ShownIsDecided DEF SlotsKnown, UnevaluableFor, Against
    <2>4. ClearanceKnown'
      BY <1>0, <1>1 DEF Knows, ClearanceKnown, LogGrows, taskVars
    <2> QED
      BY <2>2, <2>3, <2>4 DEF Knows
  <1>2. CASE UNCHANGED <<pc, taskVars>> /\ pc = "Start"
    BY <1>2 DEF Knows, ClosingKnown, SlotsKnown, ClearanceKnown
  <1>3. CASE GateStep \/ (Fails /\ UNCHANGED <<sourceVars, queueVars, recorded>>)
    <2>0. /\ pc' = "SuspendAndClose" => StartUnevaluable
          /\ pc' = "CloseRoom" => StartDecided \/ (pc = "SuspendAndClose" /\ decision' = decision)
          /\ pc' = "CloseSlots" => StartUndecided
          /\ pc' = "Send" => ChooseEpochs
          /\ UNCHANGED <<log, occurred, submitted>>
      BY <1>3, GatePaths
    <2>1. ClosingKnown'
      <3>1. CASE StartUnevaluable
        <4>1. pc' = "SuspendAndClose" => GraceOver(Headline)
          BY <3>1 DEF StartUnevaluable, Start
        <4>2. Mark({Headline}) /\ decision' = 0 /\ now' = now /\ pc' # "CloseRoom"
          BY <3>1 DEF StartUnevaluable, Start, roomGateVars
        <4>3. pc' = "SuspendAndClose" =>
                unevaluableSince'[Headline] # Never /\ unevaluableSince'[Headline] + UnevaluableGrace <= now'
          <5>1. Headline \in {Headline}
            OBVIOUS
          <5> QED
            BY <1>0, <4>1, <4>2, <5>1, GraceIsOver
        <4> QED
          BY <4>2, <4>3 DEF ClosingKnown, UnevaluableFor
      <3>2. CASE StartDecided
        <4> DEFINE n == Len(log)
                   d == DecisionSeq(Headline, n)
        <4>1. Status(Headline, n) = "decided" /\ decision' = d /\ n \in Nat
          BY <1>0, <3>2 DEF StartDecided, Start, HeadlineStatus, LogTypeOK
        <4> HIDE DEF n
        <4>2. d \in DOMAIN log /\ d \in Nat /\ Decides(d, Headline)
          BY <1>0, <4>1, DecisionIsDecisive
        <4>3. d # 0
          BY <1>0, <4>2 DEF LogTypeOK
        <4> HIDE DEF d
        <4> QED
          BY <2>0, <4>1, <4>2, <4>3 DEF ClosingKnown, Decides
      <3>3. CASE pc = "SuspendAndClose" /\ decision' = decision
        <4>1. unevaluableSince' = unevaluableSince
          BY <3>3, NotedAtStart DEF GateInv
        <4>2. CASE decision = 0
          <5>1. unevaluableSince[0] # Never /\ unevaluableSince[0] + UnevaluableGrace <= now
            BY <3>3, <4>2 DEF Knows, ClosingKnown, UnevaluableFor, Headline
          <5>2. unevaluableSince[0] \in Nat /\ UnevaluableGrace \in Nat
            BY <1>0, <5>1, GateAssumption, RoomAssumption DEF AuthorityTypeOK, Time, Headline
          <5>3. unevaluableSince[0] + UnevaluableGrace <= now'
            BY <1>0, <5>1, <5>2
          <5> QED
            BY <3>3, <4>1, <4>2, <5>1, <5>3 DEF ClosingKnown, UnevaluableFor, Headline
        <4>3. CASE decision # 0
          BY <2>0, <3>3, <4>3 DEF Knows, ClosingKnown, Decides
        <4> QED
          BY <4>2, <4>3
      <3> QED
        BY <2>0, <3>1, <3>2, <3>3 DEF ClosingKnown
    <2>2. SlotsKnown'
      <3> SUFFICES ASSUME StartUndecided
                   PROVE  SlotsKnown'
        BY <2>0 DEF SlotsKnown
      <3>1. now' = now
        BY DEF StartUndecided, Start, roomGateVars
      <3> QED
        BY <1>0, <2>0, <3>1, StartClosings, ShownIsDecided DEF SlotsKnown, Against, UnevaluableFor
    <2>3. ClearanceKnown'
      BY <1>0, <2>0, ChosenAreOver DEF ClearanceKnown
    <2> QED
      BY <2>1, <2>2, <2>3 DEF Knows
  <1> QED
    BY <1>1, <1>2, <1>3 DEF AuthorityNext, Others, Source, SubmitAction, RecordPublished, Publish,
                            authorityVars, gateProcessVars

-------------------------------------------------------------------------------
(* The log bears out what the gate has told the room. *)

\* Steps that clear nothing and close nothing.
Quiet ==
    /\ UNCHANGED <<epochSafeSequence, closingVars>>
    /\ RoomIsClosed => lastGateActivityAt' = lastGateActivityAt
    /\ \A s \in Slot : gateState'[s] = "Closed" => gateState[s] = "Closed"

LEMMA AuthorityCalls ==
    ASSUME GateTypeOK, [AuthorityNext]_authorityVars
    PROVE  Quiet \/ SendClearance \/ CloseTheRoom \/ CloseDecidedSlots \/ CloseRoomOnGateStall
           \/ \E markets : CloseRemainingSlots(markets)
  <1>1. CASE UNCHANGED roomGateVars
    BY <1>1 DEF Quiet, roomGateVars, roomVars, watermarkVars, marketVars, gateVars, safeVars
  <1>2. ASSUME UNCHANGED <<roomVars, gateVars>>
        PROVE  Quiet
    BY <1>2 DEF Quiet, roomVars, watermarkVars, gateVars, safeVars
  <1>3. ASSUME NEW seq, SuspendRoom(seq) \/ ReopenRoom(seq)
        PROVE  Quiet
    <2>1. UNCHANGED <<epochSafeSequence, closingVars>> /\ ~RoomIsClosed
      BY <1>3 DEF SuspendRoom, ReopenRoom, AdvanceSequence, safeVars
    <2>2. \A s \in Slot : gateState'[s] \in {"Open", "Suspended", gateState[s]}
      BY <1>3 DEF SuspendRoom, ReopenRoom
    <2> QED
      BY <2>1, <2>2 DEF Quiet
  <1>4. CASE Others
    <2>1. ASSUME NEW seq \in DOMAIN log, Publish(seq)
          PROVE  Quiet
      BY <2>1 DEF Publish, PublishSlot, Quiet, marketVars, gateVars, safeVars
    <2>2. CASE Tick
      BY <1>2, <2>2 DEF Tick, marketVars
    <2>3. CASE \E s \in Slot : SubmitAction(s) \/ RecordPublished(s)
      BY <1>1, <2>3 DEF SubmitAction, RecordPublished
    <2> QED
      BY <1>4, <2>1, <2>2, <2>3 DEF Others
  <1>5. CASE GateStep
    <2>1. CASE SyncConditions \/ StartClosed \/ StartThrows \/ StartDecided \/ StartUnevaluable
                 \/ StartUndecided \/ ChooseEpochs \/ Refused
      BY <1>1, <2>1 DEF SyncConditions, StartClosed, StartThrows, StartDecided, StartUnevaluable,
                        StartUndecided, Start, ChooseEpochs, Refused
    <2>2. CASE SuspendUnevaluable \/ CheckFreshness
      <3>1. UNCHANGED roomGateVars \/ \E seq : SuspendRoom(seq) \/ ReopenRoom(seq)
        BY <2>2, Zenon DEF SuspendUnevaluable, CheckFreshness, SuspendIfNeeded, ReopenIfNeeded
      <3> QED
        BY <1>1, <1>3, <3>1
    <2>3. CASE CloseRest \/ AfterClose
      <3>1. UNCHANGED roomGateVars \/ \E markets : CloseRemainingSlots(markets)
        BY <2>3, Zenon DEF CloseRest, AfterClose
      <3> QED
        BY <1>1, <3>1
    <2>4. CASE ProcessCleared \/ Drain
      <3>1. UNCHANGED <<roomVars, gateVars>>
        BY <2>4 DEF ProcessCleared, Drain, ProcessRoom
      <3> QED
        BY <1>2, <3>1
    <2> QED
      BY <1>5, <2>1, <2>2, <2>3, <2>4 DEF GateStep
  <1>6. CASE Source \/ Fails \/ UNCHANGED authorityVars
    BY <1>1, <1>6 DEF Source, Fails, authorityVars
  <1> QED
    BY <1>4, <1>5, <1>6 DEF AuthorityNext

\* Against a market stands that the log decided it or that the grace is over.
LEMMA AgainstIs ==
    /\ \A s, seq : Against(log, occurred, unevaluableSince, now, s, seq)
                  <=> DecidedBy(s, seq) \/ UnevaluableFor(s, UnevaluableGrace)
    /\ \A s, seq : Against(log', occurred', unevaluableSince', now', s, seq)
                  <=> DecidedBy(s, seq)' \/ UnevaluableFor(s, UnevaluableGrace)'
  BY ShownIsDecided DEF Against, UnevaluableFor

LEMMA ClearedKept ==
    ASSUME GateInv, AuthorityTypeOK, Knows, ClearedPastItsEnd, [AuthorityNext]_authorityVars
    PROVE  ClearedPastItsEnd'
  <1> SUFFICES ASSUME NEW s \in Slot, NEW e \in Epoch, EpochSafe(s, e)'
               PROVE  /\ e \in submitted'[s]
                      /\ \E i \in DOMAIN log' : /\ i <= epochSafeSequence'[s][e]
                                               /\ log'[i].at >= (e + 1) * EpochDuration
    BY DEF ClearedPastItsEnd
  <1>1. /\ LogGrows /\ submitted[s] \subseteq submitted'[s]
    BY WorldGrows
  <1>2. CASE epochSafeSequence'[s][e] = epochSafeSequence[s][e]
    <2>1. EpochSafe(s, e)
      BY <1>2 DEF EpochSafe
    <2>2. /\ e \in submitted[s]
          /\ \E i \in DOMAIN log : i <= epochSafeSequence[s][e] /\ log[i].at >= (e + 1) * EpochDuration
      BY <2>1 DEF ClearedPastItsEnd
    <2> QED
      BY <1>1, <1>2, <2>2 DEF LogGrows
  <1>3. CASE SendClearance /\ epochSafeSequence'[s][e] # epochSafeSequence[s][e]
    <2> DEFINE seq == RoomSequence(tipRead)
    <2>1. /\ tipRead \in DOMAIN log /\ tipRead \in Nat
          /\ \A r \in DOMAIN toClear : /\ r \in Slot => toClear[r] \in submitted[r]
                                       /\ log[tipRead].at >= (toClear[r] + 1) * EpochDuration
      BY <1>3 DEF SendClearance, Knows, ClearanceKnown, AuthorityTypeOK, LogTypeOK
    <2>2. tipRead <= seq
      BY <2>1, SequencesAreNat DEF GateInv
    <2>3. MarkRoomEpochsSafe(seq, toClear)
      BY <1>3 DEF SendClearance
    <2> HIDE DEF seq
    <2>4. s \in DOMAIN toClear /\ e = toClear[s] /\ epochSafeSequence'[s][e] = seq
      <3> DEFINE cleared == {r \in DOMAIN toClear : AcceptsSafe(r, toClear[r], seq)}
      <3>1. epochSafeSequence'[s] = IF s \in cleared
                                    THEN [epochSafeSequence[s] EXCEPT ![toClear[s]] = seq]
                                    ELSE epochSafeSequence[s]
        BY <2>3 DEF MarkRoomEpochsSafe
      <3>2. s \in cleared => s \in DOMAIN toClear
        OBVIOUS
      <3>3. epochSafeSequence[s] \in [Epoch -> Nat]
        BY DEF GateInv, GateTypeOK
      <3> HIDE DEF cleared
      <3> QED
        BY <1>3, <3>1, <3>2, <3>3
    <2> QED
      BY <1>1, <2>1, <2>2, <2>4 DEF LogGrows
  <1>4. epochSafeSequence' = epochSafeSequence \/ SendClearance
    BY AuthorityCalls DEF GateInv, Quiet, CloseTheRoom, CloseRoom, CloseRoomOnGateStall, CloseDecidedSlots,
       CloseSlots, CloseRemainingSlots, CloseEach, safeVars, marketVars, gateVars
  <1> QED
    BY <1>2, <1>3, <1>4

LEMMA RoomReasonKept ==
    ASSUME GateInv, AuthorityTypeOK, Knows, RoomClosedForAReason, [AuthorityNext]_authorityVars
    PROVE  RoomClosedForAReason'
  <1> SUFFICES ASSUME RoomIsClosed'
               PROVE  \/ DecidedBy(Headline, roomClosedSequence)'
                      \/ UnevaluableFor(Headline, UnevaluableGrace)'
                      \/ GateWasSilent'
    BY DEF RoomClosedForAReason
  <1> DEFINE known(m) == Against(log, occurred, unevaluableSince, now, Headline, m)
             known2(n) == Against(log', occurred', unevaluableSince', now', Headline, n)
             r == roomClosedSequence
             r2 == roomClosedSequence'
  <1>1. Headline \in Slot /\ r \in Nat /\ r2 \in Nat
    <2>1. GateInv'
      BY AuthorityStepKinds, StepsKeepGate
    <2> QED
      BY <2>1, GateAssumption DEF GateInv, GateTypeOK, Headline
  <1>2. pc # "Start" \/ RoomIsClosed => unevaluableSince'[Headline] = unevaluableSince[Headline]
    BY NotedAtStart DEF GateInv
  <1>3. DecidedBy(Headline, roomClosedSequence)' <=> Shows(log', occurred', Headline, r2)
    BY DEF DecidedBy, Decides, Shows, Headline
  <1>4. known2(r2) => DecidedBy(Headline, roomClosedSequence)' \/ UnevaluableFor(Headline, UnevaluableGrace)'
    BY <1>3 DEF Against, UnevaluableFor, Headline
  <1>5. CASE RoomIsClosed
    <2>1. UNCHANGED <<closingVars, lastGateActivityAt>>
      BY <1>5, AuthorityCalls DEF GateInv, Quiet, SendClearance, MarkRoomEpochsSafe, CloseTheRoom, CloseRoom,
         CloseDecidedSlots, CloseSlots, CloseRoomOnGateStall, CloseRemainingSlots, AdvanceSequence, watermarkVars
    <2>2. CASE GateWasSilent
      BY <2>1, <2>2 DEF GateWasSilent, closingVars
    <2>3. CASE DecidedBy(Headline, r) \/ UnevaluableFor(Headline, UnevaluableGrace)
      <3>1. known(r)
        BY <2>3, AgainstIs
      <3>2. r2 = r
        BY <2>1 DEF closingVars
      <3> HIDE DEF r, r2
      <3>3. known2(r2)
        BY <1>1, <1>2, <1>5, <3>1, <3>2, AgainstStays
      <3> QED
        BY <1>4, <3>3
    <2> QED
      BY <1>5, <2>2, <2>3 DEF RoomClosedForAReason
  <1>6. CASE CloseTheRoom
    <2> DEFINE d == IF decision = 0 THEN Len(log) ELSE decision
               c == GateClosingSequence(d)
    <2>1. d \in Nat /\ known(d)
      <3>1. IF decision = 0 THEN UnevaluableFor(Headline, UnevaluableGrace)
            ELSE decision \in DOMAIN log /\ Decides(decision, Headline)
        BY <1>6 DEF CloseTheRoom, Knows, ClosingKnown
      <3>2. Len(log) \in Nat /\ \A i \in DOMAIN log : i \in Nat
        BY DEF AuthorityTypeOK, LogTypeOK
      <3>3. decision \in DOMAIN log /\ Decides(decision, Headline) => Shows(log, occurred, Headline, decision)
        BY <3>2 DEF Shows, Decides
      <3> QED
        BY <3>1, <3>2, <3>3 DEF Against, UnevaluableFor
    <2>2. CloseRoom(c) /\ pc # "Start"
      BY <1>6 DEF CloseTheRoom
    <2> HIDE DEF d
    <2>3. c \in Nat /\ d <= c
      BY <2>1, SequencesAreNat DEF GateInv
    <2> HIDE DEF c
    <2>4. r2 = ClosingSequence(c)
      BY <2>2 DEF CloseRoom
    <2>5. c <= ClosingSequence(c) /\ ClosingSequence(c) \in Nat
      BY <2>3 DEF ClosingSequence, GateInv, GateTypeOK
    <2> HIDE DEF r2
    <2>6. d <= r2
      BY <1>1, <2>1, <2>3, <2>4, <2>5
    <2>7. known2(r2)
      BY <1>1, <1>2, <2>1, <2>2, <2>6, AgainstStays
    <2> QED
      BY <1>4, <2>7
  <1>7. CASE CloseRoomOnGateStall
    BY <1>7 DEF CloseRoomOnGateStall, GateWasSilent, watermarkVars
  <1>8. r2 = r \/ CloseTheRoom \/ CloseRoomOnGateStall
    BY AuthorityCalls DEF GateInv, Quiet, closingVars, SendClearance, MarkRoomEpochsSafe, CloseDecidedSlots,
       CloseSlots, CloseRemainingSlots
  <1> QED
    BY <1>5, <1>6, <1>7, <1>8 DEF RoomIsClosed

LEMMA MarketReasonKept ==
    ASSUME GateInv, AuthorityTypeOK, Knows, MarketClosedForAReason, [AuthorityNext]_authorityVars
    PROVE  MarketClosedForAReason'
  <1> SUFFICES ASSUME NEW s \in Slot, gateState'[s] = "Closed"
               PROVE  \/ RoomIsClosed' /\ decisiveSequence'[s] = roomClosedSequence'
                      \/ Against(log', occurred', unevaluableSince', now', s, decisiveSequence'[s])
    <2>1. \A s \in Slot :
            (\/ RoomIsClosed' /\ decisiveSequence'[s] = roomClosedSequence'
             \/ Against(log', occurred', unevaluableSince', now', s, decisiveSequence'[s]))
            => \/ RoomIsClosed' /\ decisiveSequence'[s] = roomClosedSequence'
               \/ DecidedBy(s, decisiveSequence[s])'
               \/ UnevaluableFor(s, UnevaluableGrace)'
      BY DEF Against, Shows, DecidedBy, Decides, UnevaluableFor
    <2> QED
      BY <2>1 DEF MarketClosedForAReason
  <1>0. /\ GateIdle \/ GateActive
        /\ decisiveSequence[s] \in Nat /\ roomClosedSequence \in Nat
    BY AuthorityStepKinds DEF GateInv, GateTypeOK
  <1>1. CASE gateState[s] = "Closed"
    <2>1. decisiveSequence'[s] = decisiveSequence[s] /\ unevaluableSince'[s] = unevaluableSince[s]
      BY <1>0, <1>1, ClosedStays, NotedAtStart DEF GateInv
    <2>2. CASE RoomIsClosed /\ decisiveSequence[s] = roomClosedSequence
      <3>1. roomClosedSequence' = roomClosedSequence
        BY <2>2, AuthorityCalls DEF GateInv, Quiet, closingVars, SendClearance, MarkRoomEpochsSafe, CloseTheRoom,
           CloseRoom, CloseDecidedSlots, CloseSlots, CloseRoomOnGateStall, CloseRemainingSlots, AdvanceSequence
      <3> QED
        BY <2>1, <2>2, <3>1 DEF RoomIsClosed
    <2>3. CASE DecidedBy(s, decisiveSequence[s]) \/ UnevaluableFor(s, UnevaluableGrace)
      <3> DEFINE d == decisiveSequence[s]
      <3>1. Against(log, occurred, unevaluableSince, now, s, d)
        BY <2>3, AgainstIs
      <3>2. d \in Nat /\ d <= d /\ decisiveSequence'[s] = d
        BY <1>0, <2>1
      <3> HIDE DEF d
      <3>3. Against(log', occurred', unevaluableSince', now', s, d)
        BY <2>1, <3>1, <3>2, AgainstStays
      <3> QED
        BY <3>2, <3>3
    <2> QED
      BY <1>1, <2>2, <2>3 DEF MarketClosedForAReason
  <1>2. CASE CloseDecidedSlots /\ gateState[s] # "Closed"
    <2> DEFINE c == GateClosingSequence(decision)
    <2>1. /\ decision \in Nat /\ closing \subseteq Slot
          /\ \A q \in closing : DecidedBy(q, decision) \/ UnevaluableFor(q, UnevaluableGrace)
          /\ pc # "Start"
      BY <1>2 DEF CloseDecidedSlots, Knows, SlotsKnown
    <2>2. c \in Nat /\ decision <= c
      BY <2>1, SequencesAreNat DEF GateInv
    <2>3. CloseEach(c, Ascending(closing))
      BY <1>2 DEF CloseDecidedSlots, CloseSlots
    <2> HIDE DEF c
    <2>4. decisiveSequence'[s] = c
      BY <1>2, <2>2, <2>3, CloseEachDecides
    <2>5. s \in closing
      <3>1. Ascending(closing) \in Seq(closing)
        <4>1. Slot \in SUBSET Nat /\ IsFiniteSet(Slot)
          BY RoomAssumption, FS_Interval DEF Slot
        <4>2. closing \in SUBSET Nat /\ IsFiniteSet(closing)
          BY <2>1, <4>1, FS_Subset
        <4> QED
          BY <4>2, AscendingLists
      <3> DEFINE list == Ascending(closing)
      <3>2. \A i \in DOMAIN list : list[i] \in closing
        BY <3>1
      <3> HIDE DEF list
      <3>3. gateState' = [q \in Slot |-> IF q \in {t \in Published : /\ \E i \in DOMAIN list : list[i] = t
                                                                   /\ AcceptsClose(t, c)}
                                         THEN "Closed" ELSE gateState[q]]
        BY <2>3 DEF CloseEach, list
      <3>4. \E i \in DOMAIN list : list[i] = s
        BY <1>2, <3>3
      <3> QED
        BY <3>2, <3>4
    <2>6. Against(log, occurred, unevaluableSince, now, s, decision)
      BY <2>1, <2>5, AgainstIs
    <2>7. unevaluableSince'[s] = unevaluableSince[s]
      BY <2>1, NotedAtStart DEF GateInv
    <2>8. Against(log', occurred', unevaluableSince', now', s, c)
      BY <2>1, <2>2, <2>6, <2>7, AgainstStays
    <2> QED
      BY <2>4, <2>8
  <1>3. ASSUME NEW markets, CloseRemainingSlots(markets), gateState[s] # "Closed"
        PROVE  RoomIsClosed' /\ decisiveSequence'[s] = roomClosedSequence'
    <2>1. /\ RoomIsClosed /\ roomClosedSequence' = roomClosedSequence
          /\ CloseEach(roomClosedSequence, markets)
      BY <1>3 DEF CloseRemainingSlots, closingVars
    <2>2. decisiveSequence'[s] = roomClosedSequence
      BY <1>0, <1>3, <2>1, CloseEachDecides
    <2> QED
      BY <2>1, <2>2 DEF RoomIsClosed
  <1>4. gateState[s] = "Closed" \/ CloseDecidedSlots \/ \E markets : CloseRemainingSlots(markets)
    BY AuthorityCalls DEF GateInv, Quiet, SendClearance, MarkRoomEpochsSafe, CloseTheRoom, CloseRoom,
       CloseRoomOnGateStall, marketVars, gateVars
  <1> QED
    BY <1>1, <1>2, <1>3, <1>4

\* Every step of the processes keeps the invariant.
LEMMA AuthorityInvKept ==
    ASSUME AuthorityInv, [AuthorityNext]_authorityVars
    PROVE  AuthorityInv'
  <1>1. GateInv /\ AuthorityTypeOK /\ Knows /\ GateHasReasons /\ GateTypeOK
    BY DEF AuthorityInv, GateInv
  <1>2. GateInv'
    BY <1>1, AuthorityStepKinds, StepsKeepGate
  <1>3. AuthorityTypeOK'
    BY <1>1, WorldGrows, NotedAtStart DEF AuthorityTypeOK
  <1>4. Knows'
    BY <1>1, KnowsKept
  <1>5. GateHasReasons'
    BY <1>1, ClearedKept, RoomReasonKept, MarketReasonKept DEF GateHasReasons
  <1> QED
    BY <1>2, <1>3, <1>4, <1>5 DEF AuthorityInv

\* A new room with an empty log satisfies it.
LEMMA NewRoomStarts == ASSUME AuthorityInit PROVE AuthorityInv
  <1>1. 0 \in Time /\ 0 \in Epoch
    BY RoomAssumption, DivBounds DEF Time, Epoch
  <1>2. GateTypeOK
    BY <1>1, RoomAssumption DEF AuthorityInit, RoomGateInit, GateTypeOK
  <1>3. GateInv
    BY <1>2 DEF AuthorityInit, RoomGateInit, GateInv, GateTypeOK, WatermarkBoundsMarkets, SafeBound,
                DecidedWithinRoom, RoomIsClosed, EpochSafe
  <1>4. AuthorityTypeOK
    <2>1. occurred = <<>> /\ log = <<>>
      BY DEF AuthorityInit
    <2>2. LogTypeOK
      BY <2>1 DEF LogTypeOK
    <2> QED
      BY <2>2 DEF AuthorityInit, GateProcessInit, AuthorityTypeOK
  <1>5. Knows
    BY DEF AuthorityInit, GateProcessInit, Knows, ClosingKnown, SlotsKnown, ClearanceKnown
  <1>6. GateHasReasons
    BY DEF AuthorityInit, RoomGateInit, GateHasReasons, ClearedPastItsEnd, RoomClosedForAReason,
           MarketClosedForAReason, RoomIsClosed, EpochSafe
  <1> QED
    BY <1>3, <1>4, <1>5, <1>6 DEF AuthorityInv

\* The invariant of the process that holds the gate key: what a tick knows between its
\* calls to the room stays true whatever else happens, and what the room is told is borne out.
THEOREM AuthorityInvariant == AuthoritySpec => []AuthorityInv
  <1>1. AuthorityInit => AuthorityInv
    BY NewRoomStarts
  <1>2. AuthorityInv /\ [AuthorityNext]_authorityVars => AuthorityInv'
    BY AuthorityInvKept
  <1> QED
    BY <1>1, <1>2, PTL DEF AuthoritySpec

\* So does a session under way, if the model's clock reaches as far as its beginning.
LEMMA SessionStarts == ASSUME SessionInit, SessionStart \in Time PROVE AuthorityInv
  <1>0. /\ EpochDuration \in Nat \ {0} /\ SourceFinalityDelay \in Nat /\ MaxTime \in Nat
        /\ Headline \in Slot /\ MaxSlots \in Nat
    BY RoomAssumption, GateAssumption DEF Headline
  <1>1. 0 \in Time /\ EpochDuration \in Time /\ 0 \in Epoch /\ 1 \in 0 .. MaxSlots
    <2>1. MaxTime \div EpochDuration \in Nat
      BY <1>0, DivBounds
    <2> QED
      BY <1>0, <2>1 DEF Time, Epoch, SessionStart, Slot, Headline
  <1>2. SessionStart \in Nat /\ 0 < SessionStart \div EpochDuration
    <2> DEFINE t == SessionStart
               q == t \div EpochDuration
    <2>1. t \in Nat /\ EpochDuration <= t
      BY <1>0 DEF SessionStart
    <2> HIDE DEF t
    <2>2. q \in Nat /\ t < EpochDuration * q + EpochDuration
      BY <1>0, <2>1, DivBounds
    <2> HIDE DEF q
    <2>3. q # 0
      BY <1>0, <2>1, <2>2
    <2> QED
      BY <2>1, <2>2, <2>3 DEF q, t
  <1>3. GateTypeOK
    BY <1>0, <1>1, <1>2 DEF SessionInit, GateTypeOK, Only
  <1>4. Headline \in Published /\ \A s \in Slot, e \in Epoch :
          epochSafeSequence[s][e] = IF s = Headline /\ e = 0 THEN 1 ELSE 0
    BY <1>0 DEF SessionInit, Only, Published, Headline
  <1>5. GateInv
    <2>1. WatermarkBoundsMarkets
      BY <1>0 DEF SessionInit, Only, WatermarkBoundsMarkets
    <2>2. SafeBound
      BY <1>2, <1>4 DEF SessionInit, Only, SafeBound, RoomIsClosed, EpochSafe, CurrentEpoch
    <2>3. DecidedWithinRoom
      BY DEF SessionInit, DecidedWithinRoom
    <2> QED
      BY <1>3, <2>1, <2>2, <2>3 DEF GateInv
  <1>6. AuthorityTypeOK
    <2>1. occurred = <<>> /\ log = <<[at |-> EpochDuration, fill |-> 0]>>
      BY DEF SessionInit
    <2>2. LogTypeOK
      BY <1>1, <2>1 DEF LogTypeOK
    <2>3. submitted \in [Slot -> SUBSET Epoch]
      BY <1>1 DEF SessionInit, Only
    <2> QED
      BY <2>2, <2>3 DEF SessionInit, GateProcessInit, AuthorityTypeOK
  <1>7. Knows
    BY DEF SessionInit, GateProcessInit, Knows, ClosingKnown, SlotsKnown, ClearanceKnown
  <1>8. GateHasReasons
    <2>1. ClearedPastItsEnd
      <3> SUFFICES ASSUME NEW s \in Slot, NEW e \in Epoch, EpochSafe(s, e)
                   PROVE  /\ e \in submitted[s]
                          /\ \E i \in DOMAIN log : /\ i <= epochSafeSequence[s][e]
                                                  /\ log[i].at >= (e + 1) * EpochDuration
        BY DEF ClearedPastItsEnd
      <3>1. s = Headline /\ e = 0 /\ epochSafeSequence[s][e] = 1
        BY <1>4 DEF EpochSafe
      <3>2. submitted[s] = {0} /\ DOMAIN log = 1 .. 1 /\ log[1].at = EpochDuration
        BY <1>0, <3>1 DEF SessionInit, Only
      <3> QED
        BY <1>0, <3>1, <3>2
    <2> QED
      BY <2>1 DEF SessionInit, GateHasReasons, RoomClosedForAReason, MarketClosedForAReason, RoomIsClosed
  <1> QED
    BY <1>5, <1>6, <1>7, <1>8 DEF AuthorityInv

\* What the gate has told the room, the log bears out, in a room followed from its
\* creation and in a session under way: an epoch is marked safe only past its end, a market
\* or the room is closed only for a reason, for any number of participants, markets, fills
\* and epochs, and however the ticks of authority.mjs are cut short or overtaken.
THEOREM GateBorneOut == AuthoritySpec => []GateHasReasons
  <1>1. AuthorityInv => GateHasReasons
    BY DEF AuthorityInv
  <1> QED
    BY <1>1, AuthorityInvariant, PTL

THEOREM SessionBorneOut ==
    ASSUME SessionStart \in Time
    PROVE  FairSessionSpec => []GateHasReasons
  <1>1. SessionInit => AuthorityInv
    BY SessionStarts
  <1>2. AuthorityInv /\ [AuthorityNext]_authorityVars => AuthorityInv'
    BY AuthorityInvKept
  <1>3. AuthorityInv => GateHasReasons
    BY DEF AuthorityInv
  <1> QED
    BY <1>1, <1>2, <1>3, PTL DEF FairSessionSpec, SessionSpec

\* The gate's process and the processes beside it use the room as a session: composed with
\* the log, the connector, the publisher and the users, the room is still what Session promises.
THEOREM AuthorityImplementsSession == AuthoritySpec => RoomIsSession
  <1>1. AuthorityInit => Promised!SessionInit
    BY StartsAsSession DEF AuthorityInit
  <1>2. AuthorityInv /\ [AuthorityNext]_authorityVars => [Promised!SessionNext]_(Promised!sessionVars)
    <2> SUFFICES ASSUME AuthorityInv, [AuthorityNext]_authorityVars
                 PROVE  Promised!SessionNext \/ UNCHANGED Promised!sessionVars
      OBVIOUS
    <2>1. GateIdle \/ GateActive
      BY AuthorityStepKinds DEF AuthorityInv
    <2> QED
      BY <2>1, StepsAreSession DEF AuthorityInv
  <1> QED
    BY <1>1, <1>2, AuthorityInvariant, PTL DEF AuthoritySpec, RoomIsSession, Promised!SessionSpec

-------------------------------------------------------------------------------
(* The markets of a room, one by one. *)

\* What the room reads of a market besides its gate.
HeldTypeOK == funded \in [Slot -> BOOLEAN] /\ final \in [Slot -> BOOLEAN]

LEMMA UntouchedMarket ==
    ASSUME NEW s \in Slot, now' = now,
           gateState'[s] = gateState[s], closedEpoch'[s] = closedEpoch[s],
           decisiveSequence'[s] = decisiveSequence[s], lastSafeSequence'[s] = lastSafeSequence[s],
           epochSafeSequence'[s] = epochSafeSequence[s], funded'[s] = funded[s], final'[s] = final[s]
    PROVE  MarketOf(s)!Moves
  BY DEF MarketOf!Moves, MarketOf!seen, MarketOf!closing, MarketOf!safe

LEMMA NewRoomNewMarkets ==
    ASSUME RoomGateInit
    PROVE  HeldTypeOK /\ \A s \in Slot : MarketOf(s)!NewMarket
  BY DEF RoomGateInit, HeldTypeOK, MarketOf!NewMarket

\* Time passes for every market.
LEMMA TickMoves ==
    ASSUME Tick
    PROVE  MarketsMove
  <1>1. \A s \in Slot : MarketOf(s)!Wait
    BY DEF Tick, marketVars, gateVars, closeVars, safeVars, MarketOf!Wait, MarketOf!closing, MarketOf!safe
  <1> QED
    BY <1>1 DEF MarketsMove, MarketOf!Moves, MarketOf!Lives

\* Publishing, and closing the room itself, touch no market.
LEMMA MarketsUntouched ==
    ASSUME UNCHANGED <<now, marketVars>>
    PROVE  MarketsMove
  BY UntouchedMarket DEF MarketsMove, marketVars, gateVars, closeVars, safeVars

LEMMA LifeMoves ==
    ASSUME HeldTypeOK, Market
    PROVE  MarketsMove /\ HeldTypeOK'
  <1>1. PICK r \in Slot : FundSlot(r) \/ UnfundSlot(r) \/ FinalizeSlot(r)
    BY DEF Market
  <1>2. HeldTypeOK' /\ UNCHANGED <<now, gateVars>>
    BY <1>1 DEF FundSlot, UnfundSlot, FinalizeSlot, HeldTypeOK
  <1>3. ASSUME NEW s \in Slot, s # r
        PROVE  MarketOf(s)!Moves
    <2>1. funded'[s] = funded[s] /\ final'[s] = final[s]
      BY <1>1, <1>3 DEF FundSlot, UnfundSlot, FinalizeSlot, HeldTypeOK
    <2> QED
      BY <1>2, <2>1, UntouchedMarket DEF gateVars, closeVars, safeVars
  <1>4. MarketOf(r)!Lives
    <2>1. CASE FundSlot(r)
      BY <1>2, <2>1 DEF FundSlot, HeldTypeOK, EpochSafe, gateVars, closeVars, safeVars, MarketOf!Lives,
                        MarketOf!Fund, MarketOf!IsSafe, MarketOf!BeforeClose, MarketOf!closing, MarketOf!safe
    <2>2. CASE UnfundSlot(r)
      BY <1>2, <2>2 DEF UnfundSlot, HeldTypeOK, gateVars, closeVars, safeVars, MarketOf!Lives,
                        MarketOf!Unfund, MarketOf!closing, MarketOf!safe
    <2>3. CASE FinalizeSlot(r)
      BY <1>2, <2>3 DEF FinalizeSlot, HeldTypeOK, gateVars, closeVars, safeVars, MarketOf!Lives,
                        MarketOf!Finalize, MarketOf!closing, MarketOf!safe
    <2> QED
      BY <1>1, <2>1, <2>2, <2>3
  <1> QED
    BY <1>2, <1>3, <1>4 DEF MarketsMove, MarketOf!Moves

\* A market that a batch lists clears its epoch, or refuses and is untouched.
LEMMA ClearMoves ==
    ASSUME GateInv, NEW seq \in Nat, Clears(seq)
    PROVE  MarketsMove /\ UNCHANGED <<funded, final>>
  <1>0. PICK epochOf : /\ \A s \in DOMAIN epochOf : epochOf[s] \in Epoch
                       /\ MarkRoomEpochsSafe(seq, epochOf)
    BY Zenon DEF Clears
  <1> DEFINE cleared == {s \in DOMAIN epochOf : AcceptsSafe(s, epochOf[s], seq)}
  <1>1. UNCHANGED <<now, gateState, closeVars, funded, final>>
    BY <1>0 DEF MarkRoomEpochsSafe
  <1>2. /\ lastSafeSequence' = [s \in Slot |-> IF s \in cleared THEN seq ELSE lastSafeSequence[s]]
        /\ epochSafeSequence' = [s \in Slot |->
             IF s \in cleared THEN [epochSafeSequence[s] EXCEPT ![epochOf[s]] = seq]
             ELSE epochSafeSequence[s]]
    BY <1>0 DEF MarkRoomEpochsSafe
  <1>3. \A s \in cleared : epochOf[s] \in Epoch /\ AcceptsSafe(s, epochOf[s], seq)
    BY <1>0
  <1> HIDE DEF cleared
  <1>4. ASSUME NEW s \in Slot, s \notin cleared
        PROVE  MarketOf(s)!Moves
    BY <1>1, <1>2, <1>4, UntouchedMarket DEF closeVars
  <1>5. ASSUME NEW s \in Slot, s \in cleared
        PROVE  MarketOf(s)!Moves
    <2> DEFINE e == epochOf[s]
               end == (e + 1) * EpochDuration + SourceFinalityDelay
    <2>1. /\ e \in Epoch /\ e < CurrentEpoch /\ now >= end /\ ~EpochSafe(s, e)
          /\ seq > lastSafeSequence[s] /\ lastSafeSequence[s] \in Nat
          /\ gateState[s] = "Closed" => e < closedEpoch[s] /\ seq < decisiveSequence[s]
      BY <1>3, <1>5 DEF AcceptsSafe, GateInv, GateTypeOK
    <2>2. lastSafeSequence'[s] = seq /\ epochSafeSequence'[s] = [epochSafeSequence[s] EXCEPT ![e] = seq]
      BY <1>2, <1>5
    <2>3. end \in Int /\ now \in Int
      <3>1. e \in Nat /\ EpochDuration \in Nat /\ SourceFinalityDelay \in Nat /\ now \in Nat
        BY <2>1, RoomAssumption DEF Epoch, GateInv, GateTypeOK, Time
      <3> HIDE DEF e
      <3>2. (e + 1) * EpochDuration \in Nat
        BY <3>1, ProductNat
      <3> QED
        BY <3>1, <3>2
    <2>4. end <= now
      <3> HIDE DEF end
      <3> QED
        BY <2>1, <2>3
    <2>5. lastSafeSequence[s] < seq
      BY <2>1
    <2> HIDE DEF e
    <2>6. MarketOf(s)!Attested
      BY <2>2, <2>5 DEF MarketOf!Attested
    <2>7. /\ e < MarketOf(s)!CurrentEpoch /\ ~MarketOf(s)!IsSafe(e) /\ MarketOf(s)!BeforeClose(e)
      BY <2>1 DEF CurrentEpoch, EpochSafe, MarketOf!CurrentEpoch, MarketOf!IsSafe, MarketOf!BeforeClose
    <2>8. MarketOf(s)!Clear(e)
      BY <1>1, <2>1, <2>2, <2>4, <2>6, <2>7 DEF MarketOf!Clear, MarketOf!closing, closeVars
    <2> QED
      BY <2>1, <2>8 DEF MarketOf!Moves, MarketOf!Gated
  <1> QED
    BY <1>1, <1>4, <1>5 DEF MarketsMove

\* So does one that the room freezes or reopens.
LEMMA SwitchMoves ==
    ASSUME GateInv, NEW seq \in Nat, Switches(seq)
    PROVE  MarketsMove /\ UNCHANGED <<funded, final>>
  <1>1. UNCHANGED <<now, closeVars, epochSafeSequence, funded, final>>
    BY DEF Switches, SuspendRoom, ReopenRoom, safeVars
  <1>2. ASSUME NEW s \in Slot
        PROVE  MarketOf(s)!Moves
    <2>1. \/ gateState'[s] = gateState[s] /\ lastSafeSequence'[s] = lastSafeSequence[s]
          \/ /\ gateState[s] = "Open" /\ gateState'[s] = "Suspended"
             /\ lastSafeSequence'[s] = lastSafeSequence[s]
          \/ /\ gateState[s] = "Suspended" /\ gateState'[s] = "Open"
             /\ lastSafeSequence'[s] = seq /\ lastSafeSequence[s] < seq
      BY DEF Switches, SuspendRoom, ReopenRoom, safeVars, GateInv, GateTypeOK
    <2>2. CASE gateState'[s] = gateState[s] /\ lastSafeSequence'[s] = lastSafeSequence[s]
      BY <1>1, <2>2, UntouchedMarket DEF closeVars
    <2>3. CASE /\ gateState[s] = "Open" /\ gateState'[s] = "Suspended"
               /\ lastSafeSequence'[s] = lastSafeSequence[s]
      BY <1>1, <2>3 DEF closeVars, MarketOf!Suspend, MarketOf!Moves, MarketOf!Gated, MarketOf!closing,
                        MarketOf!safe
    <2>4. CASE /\ gateState[s] = "Suspended" /\ gateState'[s] = "Open"
               /\ lastSafeSequence'[s] = seq /\ lastSafeSequence[s] < seq
      BY <1>1, <2>4 DEF closeVars, MarketOf!Reopen, MarketOf!Attested, MarketOf!Moves, MarketOf!Gated,
                        MarketOf!closing
    <2> QED
      BY <2>1, <2>2, <2>3, <2>4
  <1> QED
    BY <1>1, <1>2 DEF MarketsMove

\* And one that it closes, or that refuses the closing sequence.
LEMMA CloseMoves ==
    ASSUME GateInv, ClosesMarkets
    PROVE  MarketsMove /\ UNCHANGED <<funded, final>>
  <1>1. PICK seq \in Nat : \E markets : CloseEach(seq, markets)
    BY DEF ClosesMarkets, CloseSlots, CloseRemainingSlots, GateInv, GateTypeOK
  <1>2. UNCHANGED <<now, safeVars, funded, final>>
    BY <1>1 DEF CloseEach
  <1>3. ASSUME NEW s \in Slot
        PROVE  MarketOf(s)!Moves
    <2>1. \/ /\ gateState'[s] = gateState[s]
             /\ closedEpoch'[s] = closedEpoch[s]
             /\ decisiveSequence'[s] = decisiveSequence[s]
          \/ /\ gateState'[s] = "Closed"
             /\ gateState[s] # "Closed" /\ lastSafeSequence[s] < seq
             /\ closedEpoch'[s] = CurrentEpoch /\ decisiveSequence'[s] = seq
      BY <1>1, CloseEachDecides
    <2>2. CASE /\ gateState'[s] = gateState[s]
               /\ closedEpoch'[s] = closedEpoch[s]
               /\ decisiveSequence'[s] = decisiveSequence[s]
      BY <1>2, <2>2, UntouchedMarket DEF safeVars
    <2>3. CASE /\ gateState'[s] = "Closed"
               /\ gateState[s] # "Closed" /\ lastSafeSequence[s] < seq
               /\ closedEpoch'[s] = CurrentEpoch /\ decisiveSequence'[s] = seq
      BY <1>2, <2>3 DEF safeVars, CurrentEpoch, MarketOf!Close, MarketOf!CurrentEpoch, MarketOf!Moves,
                        MarketOf!Gated, MarketOf!safe
    <2> QED
      BY <2>1, <2>2, <2>3
  <1> QED
    BY <1>2, <1>3 DEF MarketsMove

\* Whatever the room is called with.
LEMMA ActiveMoves ==
    ASSUME GateInv, HeldTypeOK, GateActive
    PROVE  MarketsMove /\ HeldTypeOK'
  <1>1. CASE Publishes \/ ClosesRoom
    <2>1. UNCHANGED <<now, marketVars>>
      BY <1>1 DEF Publishes, PublishSlot, ClosesRoom, CloseRoom, CloseRoomOnGateStall
    <2> QED
      BY <2>1, MarketsUntouched DEF HeldTypeOK, marketVars
  <1>2. CASE (\E seq \in Nat : Clears(seq) \/ Switches(seq)) \/ ClosesMarkets
    BY <1>2, ClearMoves, SwitchMoves, CloseMoves DEF HeldTypeOK
  <1> QED
    BY <1>1, <1>2 DEF GateActive

\* A room gates and uses each of its markets as that market allows it to, for any number of
\* slots, epochs and sequences: none is cleared, closed or funded but as it would be alone.
THEOREM RoomUsesMarkets == Spec => RoomOfMarkets
  <1>1. Init => HeldTypeOK /\ \A s \in Slot : MarketOf(s)!NewMarket
    BY NewRoomNewMarkets DEF Init
  <1>2. GateInv /\ HeldTypeOK /\ [Next]_vars => [MarketsMove]_roomGateVars /\ HeldTypeOK'
    <2> SUFFICES ASSUME GateInv, HeldTypeOK, [Next]_vars
                 PROVE  (MarketsMove \/ UNCHANGED roomGateVars) /\ HeldTypeOK'
      OBVIOUS
    <2>1. CASE GateActive
      BY <2>1, ActiveMoves
    <2>2. CASE Tick \/ Market
      BY <2>2, TickMoves, LifeMoves DEF HeldTypeOK, Tick, marketVars
    <2>3. CASE UNCHANGED roomGateVars
      BY <2>3 DEF HeldTypeOK, roomGateVars, marketVars
    <2> QED
      BY <2>1, <2>2, <2>3, RoomCalls
  <1> QED
    BY <1>1, <1>2, GateInvariant, PTL DEF Spec, RoomOfMarkets

\* The gate processes epochs of the model: the ones it cleared, and the ones since a close.
EpochsToProcess == pc = "Process" => \A s \in DOMAIN toClear : toClear[s] \in Epoch

LEMMA EpochsToProcessKept ==
    ASSUME Knows, EpochsToProcess, [AuthorityNext]_authorityVars
    PROVE  EpochsToProcess'
  <1>1. CASE SendClearance
    BY <1>1 DEF SendClearance, GoTo, taskVars, EpochsToProcess, Knows, ClearanceKnown
  <1>2. CASE UNCHANGED gateProcessVars
    BY <1>2 DEF gateProcessVars, taskVars, EpochsToProcess
  <1>3. CASE pc' # "Process"
    BY <1>3 DEF EpochsToProcess
  <1>4. CASE GateStep /\ ~SendClearance
    <2>1. pc' # "Process"
      BY <1>4 DEF GateStep, SyncConditions, StartClosed, StartThrows, StartDecided, StartUnevaluable,
                  StartUndecided, Start, SuspendUnevaluable, CloseTheRoom, CloseRest, CloseDecidedSlots,
                  CheckFreshness, ChooseEpochs, AfterClose, Refused, ProcessCleared, Drain, GoTo, Ends, TickOver
    <2> QED
      BY <1>3, <2>1
  <1>5. CASE Fails
    BY <1>3, <1>5 DEF Fails, TickOver
  <1>6. CASE Others \/ Source \/ UNCHANGED authorityVars
    BY <1>2, <1>6 DEF Others, SubmitAction, RecordPublished, Publish, Source, authorityVars
  <1> QED
    BY <1>1, <1>4, <1>5, <1>6 DEF AuthorityNext

\* processRoom executes the deposits of cleared epochs, and those alone.
LEMMA ProcessMoves ==
    ASSUME GateInv, HeldTypeOK, NEW epochOf, \A s \in DOMAIN epochOf : epochOf[s] \in Epoch,
           ProcessRoom(epochOf)
    PROVE  MarketsMove /\ HeldTypeOK'
  <1> DEFINE executed == {s \in DOMAIN epochOf : EpochSafe(s, epochOf[s])}
  <1>1. /\ funded' = [s \in Slot |-> funded[s] \/ s \in executed]
        /\ UNCHANGED <<now, gateVars, final>>
    BY DEF ProcessRoom
  <1>2. \A s \in executed : epochOf[s] \in Epoch /\ EpochSafe(s, epochOf[s])
    OBVIOUS
  <1> HIDE DEF executed
  <1>3. HeldTypeOK'
    BY <1>1 DEF HeldTypeOK
  <1>4. ASSUME NEW s \in Slot
        PROVE  MarketOf(s)!Moves
    <2>1. CASE funded'[s] = funded[s]
      BY <1>1, <2>1, UntouchedMarket DEF gateVars, closeVars, safeVars
    <2>2. CASE funded'[s] # funded[s]
      <3>1. ~funded[s] /\ funded'[s] /\ s \in executed
        BY <1>1, <2>2, Zenon DEF HeldTypeOK
      <3>2. gateState[s] = "Closed" => epochOf[s] < closedEpoch[s]
        BY <1>2, <3>1 DEF GateInv, DecidedWithinRoom
      <3>3. MarketOf(s)!IsSafe(epochOf[s]) /\ MarketOf(s)!BeforeClose(epochOf[s])
        BY <1>2, <3>1, <3>2 DEF EpochSafe, MarketOf!IsSafe, MarketOf!BeforeClose
      <3>4. MarketOf(s)!Fund
        BY <1>1, <1>2, <3>1, <3>3, Zenon DEF gateVars, closeVars, safeVars, MarketOf!Fund,
                                             MarketOf!closing, MarketOf!safe
      <3> QED
        BY <3>4 DEF MarketOf!Moves, MarketOf!Lives
    <2> QED
      BY <2>1, <2>2
  <1> QED
    BY <1>3, <1>4 DEF MarketsMove

LEMMA ProcessedMoves ==
    ASSUME GateInv, HeldTypeOK, EpochsToProcess, ProcessCleared \/ Drain
    PROVE  MarketsMove /\ HeldTypeOK'
  <1>1. CASE ProcessCleared
    <2> DEFINE epochOf == [s \in {r \in DOMAIN toClear : EpochSafe(r, toClear[r])} |-> toClear[s]]
    <2>1. \A s \in DOMAIN epochOf : epochOf[s] \in Epoch
      BY <1>1 DEF ProcessCleared, EpochsToProcess
    <2>2. ProcessRoom(epochOf)
      BY <1>1 DEF ProcessCleared
    <2> HIDE DEF epochOf
    <2> QED
      BY <2>1, <2>2, ProcessMoves
  <1>2. CASE Drain
    <2> DEFINE epochOf == [s \in Owing |-> Min(Owed(s))]
    <2>1. ASSUME NEW s \in Owing
          PROVE  Min(Owed(s)) \in Epoch
      <3>1. s \in Slot /\ Owed(s) # {}
        BY <2>1, RoomAssumption DEF Owing, Published, Slot, GateInv, GateTypeOK
      <3>2. CurrentEpoch \in Epoch /\ closedEpoch[s] \in Epoch
        BY <3>1, EpochsAdvance, RoomAssumption DEF CurrentEpoch, GateInv, GateTypeOK, Time
      <3>3. MaxTime \div EpochDuration \in Nat
        BY RoomAssumption, DivBounds
      <3>4. Owed(s) \subseteq closedEpoch[s] .. CurrentEpoch
        BY DEF Owed, RefundWindow
      <3> DEFINE c == CurrentEpoch
                 b == closedEpoch[s]
                 m == MaxTime \div EpochDuration
      <3>5. b .. c \subseteq 0 .. m
        <4>1. c \in 0 .. m /\ b \in 0 .. m /\ m \in Nat
          BY <3>2, <3>3 DEF Epoch
        <4> HIDE DEF b, c, m
        <4> QED
          BY <4>1
      <3>6. Owed(s) \subseteq Epoch /\ Owed(s) \in SUBSET Nat
        BY <3>3, <3>4, <3>5 DEF Epoch
      <3> QED
        BY <3>1, <3>6, MinIsIn
    <2>2. ProcessRoom(epochOf)
      BY <1>2 DEF Drain
    <2>3. \A s \in DOMAIN epochOf : epochOf[s] \in Epoch
      BY <2>1
    <2> HIDE DEF epochOf
    <2> QED
      BY <2>2, <2>3, ProcessMoves
  <1> QED
    BY <1>1, <1>2

\* The gate's process uses each market as it could be used alone: it funds one only by an epoch
\* that is cleared, and none by a refund, however stale what a tick read has become.
THEOREM AuthorityUsesMarkets == AuthoritySpec => RoomOfMarkets
  <1>1. AuthorityInit => /\ HeldTypeOK /\ EpochsToProcess
                         /\ \A s \in Slot : MarketOf(s)!NewMarket
    BY NewRoomNewMarkets DEF AuthorityInit, GateProcessInit, EpochsToProcess
  <1>2. AuthorityInv /\ HeldTypeOK /\ EpochsToProcess /\ [AuthorityNext]_authorityVars
            => [MarketsMove]_roomGateVars /\ HeldTypeOK' /\ EpochsToProcess'
    <2> SUFFICES ASSUME AuthorityInv, HeldTypeOK, EpochsToProcess, [AuthorityNext]_authorityVars
                 PROVE  (MarketsMove \/ UNCHANGED roomGateVars) /\ HeldTypeOK'
      BY EpochsToProcessKept DEF AuthorityInv
    <2>1. CASE GateActive
      BY <2>1, ActiveMoves DEF AuthorityInv
    <2>2. CASE Tick
      BY <2>2, TickMoves DEF HeldTypeOK, Tick, marketVars
    <2>3. CASE UNCHANGED roomGateVars
      BY <2>3 DEF HeldTypeOK, roomGateVars, marketVars
    <2>4. CASE ProcessCleared \/ Drain
      BY <2>4, ProcessedMoves DEF AuthorityInv
    <2> QED
      BY <2>1, <2>2, <2>3, <2>4, AuthorityStepCalls DEF AuthorityInv
  <1> QED
    BY <1>1, <1>2, AuthorityInvariant, PTL DEF AuthoritySpec, RoomOfMarkets

===============================================================================
