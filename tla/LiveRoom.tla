-------------------------------- MODULE LiveRoom --------------------------------
(***************************************************************************)
(* contracts/src/LiveRoom.sol: RoomGate with the participants' integrity   *)
(* bonds and the bonded claims against them.  A participant's bond makes   *)
(* the room ready, and leaves it only when the room is closed, every       *)
(* market is final and no claim is open, or when a claim is upheld.        *)
(***************************************************************************)
EXTENDS RoomGate, FiniteSetsExt

CONSTANTS Participants, ROOM_INTEGRITY_BOND, INTEGRITY_CLAIM_BOND,
          IntegrityClaimWindow, IntegrityClaimTimeout,
          MaxClaims                     \* bound: claims ever filed

ASSUME BondAssumption ==
    /\ {ROOM_INTEGRITY_BOND, INTEGRITY_CLAIM_BOND,
        IntegrityClaimWindow, IntegrityClaimTimeout} \subseteq Nat \ {0}
    /\ MaxClaims \in Nat
    /\ IsFiniteSet(Participants)

VARIABLES integrityBondOf, integrityBondClaimed,
          claims,                       \* _claims
          openClaimsAgainst,
          balance                       \* collateral.balanceOf(address(this))

bondVars == <<integrityBondOf, integrityBondClaimed, claims, openClaimsAgainst, balance>>
vars == <<roomGateVars, bondVars>>

Claim == [participant : Participants, filedAt : Time,
          status : {"Open", "Upheld", "Rejected", "Expired"}]

ParticipantsReady == \A p \in Participants : integrityBondOf[p] = ROOM_INTEGRITY_BOND

Init ==
    /\ RoomGateInit
    /\ integrityBondOf = [p \in Participants |-> 0]
    /\ integrityBondClaimed = [p \in Participants |-> FALSE]
    /\ claims = <<>>
    /\ openClaimsAgainst = [p \in Participants |-> 0]
    /\ balance = 0

Receive(amount) == balance' = balance + amount
PayOut(amount) == amount <= balance /\ balance' = balance - amount

\* Faulty: a bond is added to one already posted.
PostIntegrityBondAgain(p) ==
    /\ integrityBondOf' = [integrityBondOf EXCEPT ![p] = @ + ROOM_INTEGRITY_BOND]
    /\ Receive(ROOM_INTEGRITY_BOND)
    /\ UNCHANGED <<roomGateVars, integrityBondClaimed, claims, openClaimsAgainst>>

PostIntegrityBond(p) ==
    /\ integrityBondOf[p] = 0
    /\ integrityBondOf' = [integrityBondOf EXCEPT ![p] = ROOM_INTEGRITY_BOND]
    /\ Receive(ROOM_INTEGRITY_BOND)
    /\ UNCHANGED <<roomGateVars, integrityBondClaimed, claims, openClaimsAgainst>>

\* Faulty: the markets' results are not awaited.
ClaimableBeforeResults(p) ==
    /\ RoomIsClosed
    /\ now >= roomClosedAt + IntegrityClaimWindow
    /\ openClaimsAgainst[p] = 0

\* Faulty: the claims still open are not awaited.
ClaimableDespiteClaims(p) ==
    /\ RoomIsClosed
    /\ \A s \in Published : final[s]
    /\ now >= roomClosedAt + IntegrityClaimWindow

Claimable(p) ==
    /\ RoomIsClosed
    /\ \A s \in Published : final[s]
    /\ now >= roomClosedAt + IntegrityClaimWindow
    /\ openClaimsAgainst[p] = 0

ClaimIntegrityBond(p) ==
    /\ ~integrityBondClaimed[p]
    /\ Claimable(p)
    /\ integrityBondOf[p] # 0
    /\ integrityBondClaimed' = [integrityBondClaimed EXCEPT ![p] = TRUE]
    /\ integrityBondOf' = [integrityBondOf EXCEPT ![p] = 0]
    /\ PayOut(integrityBondOf[p])
    /\ UNCHANGED <<roomGateVars, claims, openClaimsAgainst>>

FileIntegrityClaim(p) ==
    /\ Len(claims) < MaxClaims
    /\ RoomIsClosed
    /\ now < roomClosedAt + IntegrityClaimWindow
    /\ integrityBondOf[p] # 0
    /\ claims' = Append(claims, [participant |-> p, filedAt |-> now, status |-> "Open"])
    /\ openClaimsAgainst' = [openClaimsAgainst EXCEPT ![p] = @ + 1]
    /\ Receive(INTEGRITY_CLAIM_BOND)
    /\ UNCHANGED <<roomGateVars, integrityBondOf, integrityBondClaimed>>

\* Faulty: a concluded claim still counts as open.
ConcludeUncounted(id, status) ==
    /\ claims[id].status = "Open"
    /\ claims' = [claims EXCEPT ![id].status = status]
    /\ UNCHANGED openClaimsAgainst

\* The claim leaves the open ones with its verdict.
Conclude(id, status) ==
    /\ claims[id].status = "Open"
    /\ openClaimsAgainst[claims[id].participant] >= 1
    /\ claims' = [claims EXCEPT ![id].status = status]
    /\ openClaimsAgainst' = [openClaimsAgainst EXCEPT ![claims[id].participant] = @ - 1]

\* Faulty: a second upheld claim pays the bond again.
UpholdClaimTwice(id) ==
    LET p == claims[id].participant IN
    /\ now < claims[id].filedAt + IntegrityClaimTimeout
    /\ Conclude(id, "Upheld")
    /\ integrityBondOf' = [integrityBondOf EXCEPT ![p] = 0]
    /\ PayOut(ROOM_INTEGRITY_BOND + INTEGRITY_CLAIM_BOND)
    /\ UNCHANGED <<roomGateVars, integrityBondClaimed>>

\* adjudicateIntegrityClaim(id, true): the bond, if one is left, goes to
\* bondRecipient and the claimant gets the claim bond back.
UpholdClaim(id) ==
    LET p == claims[id].participant IN
    /\ now < claims[id].filedAt + IntegrityClaimTimeout
    /\ Conclude(id, "Upheld")
    /\ integrityBondOf' = [integrityBondOf EXCEPT ![p] = 0]
    /\ PayOut(integrityBondOf[p] + INTEGRITY_CLAIM_BOND)
    /\ UNCHANGED <<roomGateVars, integrityBondClaimed>>

\* adjudicateIntegrityClaim(id, false): the claim bond goes to bondRecipient.
RejectClaim(id) ==
    /\ now < claims[id].filedAt + IntegrityClaimTimeout
    /\ Conclude(id, "Rejected")
    /\ PayOut(INTEGRITY_CLAIM_BOND)
    /\ UNCHANGED <<roomGateVars, integrityBondOf, integrityBondClaimed>>

ExpireIntegrityClaim(id) ==
    /\ now >= claims[id].filedAt + IntegrityClaimTimeout
    /\ Conclude(id, "Expired")
    /\ PayOut(INTEGRITY_CLAIM_BOND)
    /\ UNCHANGED <<roomGateVars, integrityBondOf, integrityBondClaimed>>

Bond ==
    \/ \E p \in Participants : \/ PostIntegrityBond(p)
                               \/ ClaimIntegrityBond(p)
                               \/ FileIntegrityClaim(p)
    \/ \E id \in DOMAIN claims : \/ UpholdClaim(id)
                                 \/ RejectClaim(id)
                                 \/ ExpireIntegrityClaim(id)

Next ==
    \/ RoomGateNext(ParticipantsReady) /\ UNCHANGED bondVars
    \/ Bond

Spec == Init /\ [][Next]_vars

-------------------------------------------------------------------------------
(* The permissionless recovery from a dead gate key: anyone closes a       *)
(* stalled room and its slots, anyone finalizes a closed market, expires a *)
(* claim, and a participant collects the bond.                             *)
RoomStep(A) == A /\ UNCHANGED bondVars

Fairness ==
    /\ WF_vars(RoomStep(Tick))
    /\ WF_vars(RoomStep(CloseRoomOnGateStall))
    /\ \A s \in Slot : /\ WF_vars(RoomStep(CloseRemainingSlots(<<s>>)))
                       /\ WF_vars(RoomStep(FinalizeSlot(s)))
    /\ \A id \in 1 .. MaxClaims : WF_vars(id \in DOMAIN claims /\ ExpireIntegrityClaim(id))
    /\ \A p \in Participants : WF_vars(ClaimIntegrityBond(p))

FairSpec == Spec /\ Fairness

===============================================================================
