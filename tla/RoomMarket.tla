------------------------------- MODULE RoomMarket -------------------------------
(***************************************************************************)
(* A market as its room sees it: the interface between LiveRoom.sol and    *)
(* LivePredictionMarket.sol, without the market's queue, its money and its *)
(* resolvers.  The room gates the market with points of the source, and    *)
(* reads whether it has liquidity and whether it is final.                 *)
(*                                                                         *)
(* MarketSafety shows that a market is one of these, RoomSafety that its   *)
(* room changes each of its markets in these ways only.                    *)
(***************************************************************************)
EXTENDS Integers

CONSTANTS Epoch,               \* the epochs a market may have
          EpochDuration, SourceFinalityDelay

VARIABLES now,
          gateState, closedEpoch, decisiveSequence, lastSafeSequence,
          epochSafeSequence,   \* [Epoch -> Nat]; 0: the epoch is not safe
          funded,              \* hasLiquidity()
          final                \* finalOutcome() # Unset

closing == <<closedEpoch, decisiveSequence>>
safe == <<lastSafeSequence, epochSafeSequence>>
seen == <<now, gateState, closing, safe, funded, final>>

CurrentEpoch == now \div EpochDuration
IsSafe(e) == epochSafeSequence[e] # 0

\* What a closed market may still clear or execute.
BeforeClose(e) == gateState = "Closed" => e < closedEpoch

NewMarket ==
    /\ gateState = "Open"
    /\ closedEpoch = 0 /\ decisiveSequence = 0 /\ lastSafeSequence = 0
    /\ epochSafeSequence = [e \in Epoch |-> 0]
    /\ funded = FALSE /\ final = FALSE

-------------------------------------------------------------------------------
(* What the room does to it. *)

\* The watermark moves on.
Attested == lastSafeSequence' \in Nat /\ lastSafeSequence < lastSafeSequence'

\* An epoch whose events the source can no longer change is cleared: once, at a
\* point beyond the last one, and before the decisive event.
Clear(e) ==
    /\ e < CurrentEpoch /\ (e + 1) * EpochDuration + SourceFinalityDelay <= now
    /\ ~IsSafe(e) /\ BeforeClose(e)
    /\ Attested
    /\ gateState = "Closed" => lastSafeSequence' < decisiveSequence
    /\ epochSafeSequence' = [epochSafeSequence EXCEPT ![e] = lastSafeSequence']
    /\ UNCHANGED <<now, gateState, closing, funded, final>>

Suspend ==
    /\ gateState = "Open" /\ gateState' = "Suspended"
    /\ UNCHANGED <<now, closing, safe, funded, final>>

Reopen ==
    /\ gateState = "Suspended" /\ gateState' = "Open"
    /\ Attested
    /\ UNCHANGED <<now, closing, epochSafeSequence, funded, final>>

\* The decisive event is beyond everything the market was cleared at.
Close ==
    /\ gateState # "Closed" /\ gateState' = "Closed"
    /\ closedEpoch' = CurrentEpoch
    /\ decisiveSequence' \in Nat /\ lastSafeSequence < decisiveSequence'
    /\ UNCHANGED <<now, safe, funded, final>>

Gated == (\E e \in Epoch : Clear(e)) \/ Suspend \/ Reopen \/ Close

-------------------------------------------------------------------------------
(* What becomes of it otherwise. *)

Wait == now' = now + 1 /\ UNCHANGED <<gateState, closing, safe, funded, final>>

\* A deposit executes, which only a cleared epoch allows.
Fund ==
    /\ ~funded /\ funded'
    /\ \E e \in Epoch : IsSafe(e) /\ BeforeClose(e)
    /\ UNCHANGED <<now, gateState, closing, safe, final>>

\* Once there is a result, its last provider may leave.
Unfund ==
    /\ funded /\ ~funded' /\ final
    /\ UNCHANGED <<now, gateState, closing, safe, final>>

Finalize ==
    /\ gateState = "Closed" /\ ~final /\ final'
    /\ UNCHANGED <<now, gateState, closing, safe, funded>>

Lives == Wait \/ Fund \/ Unfund \/ Finalize

\* One step of whatever it is part of.
Moves == Gated \/ Lives \/ UNCHANGED seen

MarketSpec == now \in Nat /\ NewMarket /\ [][Gated \/ Lives]_seen
===============================================================================
