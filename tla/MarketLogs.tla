------------------------------- MODULE MarketLogs -------------------------------
(***************************************************************************)
(* The contracts of one room as far as their logs go: which transactions   *)
(* a chain may hold next, and what the markets' getters answer.  Outside   *)
(* src/services, modelled from the events its indexer consumes.            *)
(*                                                                         *)
(* A block holds one transaction, and its number serves as the source      *)
(* sequence and the epoch of what it reports.                              *)
(***************************************************************************)
EXTENDS Integers, Sequences, FiniteSets, SequencesExt

CONSTANTS Markets, Headline   \* the headline is published first, and closes with the room

Logs(c, from, to) ==
    FlattenSeq([b \in 1..(to - from + 1) |->
        [i \in DOMAIN c[from + b - 1].logs |->
            [block |-> from + b - 1, index |-> i] @@ c[from + b - 1].logs[i]]])
AllLogs(c) == Logs(c, 1, Len(c))

Saying(L, m, events) == SelectSeq(L, LAMBDA g : g.address = m /\ g.event \in events)
Said(L, m, event) == Saying(L, m, {event}) # <<>>
SumOf(logs, n(_)) == FoldLeft(LAMBDA sum, g : sum + n(g), 0, logs)

CreatedIn(L) == {m \in Markets : \E i \in DOMAIN L : L[i].event = "MarketCreated" /\ L[i].market = m}
OpenIn(L) == {m \in CreatedIn(L) : ~Said(L, m, "ForecastingClosed")}
ClosedRoom(L) == Said(L, "room", "RoomClosed")
Gate(L, m) ==
    LET moves == Saying(L, m, {"GateSuspended", "GateReopened", "ForecastingClosed"})
    IN  IF moves = <<>> \/ Last(moves).event = "GateReopened" THEN "open"
        ELSE IF Last(moves).event = "GateSuspended" THEN "suspended" ELSE "closed"
Final(L, m) == IF Said(L, m, "ResultFinalized") THEN Saying(L, m, {"ResultFinalized"})[1].outcome ELSE 0
Shares(L, m) ==
    SumOf(Saying(L, m, {"LiquidityAdded"}), LAMBDA g : g.n)
        - SumOf(Saying(L, m, {"LpInventorySettled"}), LAMBDA g : g.n)
\* What the getters of market m answer at a block.
ReadMarketState(c, m, block) ==
    LET L == Logs(c, 1, block)
    IN  [gate |-> Gate(L, m), shares |-> Shares(L, m), final |-> Final(L, m)]

\* Bought, and received, less what was given away and redeemed.
Held(L, m, who) ==
    SumOf(SelectSeq(Saying(L, m, {"Trade"}), LAMBDA g : g.who = who), LAMBDA g : g.n)
        + SumOf(SelectSeq(Saying(L, m, {"PositionTransferred"}), LAMBDA g : g.to = who), LAMBDA g : g.n)
        - SumOf(SelectSeq(Saying(L, m, {"PositionTransferred"}), LAMBDA g : g.who = who), LAMBDA g : g.n)
        - SumOf(SelectSeq(Saying(L, m, {"PositionsRedeemed"}), LAMBDA g : g.who = who), LAMBDA g : g.a)

Emits(emitter, event) == [address |-> emitter, event |-> event]
Every(S, event, seq) == SetToSeq({[seq |-> seq] @@ Emits(m, event) : m \in S})
Pending(L, m) ==
    {g \in ToSet(Saying(L, m, {"ActionSubmitted"})) :
        \A d \in ToSet(Saying(L, m, {"ActionExecuted", "ActionRefunded"})) : d.id # g.id}
Verdicts == {"IntegrityClaimAdjudicated", "IntegrityClaimExpired"}
Decided(L) == {m \in CreatedIn(L) : Said(L, m, "ProvisionalResultRegistered") /\ Final(L, m) = 0}

\* The transactions of one kind that the contracts accept after L.
Transactions(L, kind, seq) ==
    CASE kind = "create" ->
            {<<[market |-> m] @@ Emits("factory", "MarketCreated"),
               [market |-> m, seq |-> seq] @@ Emits("room", "SlotPublished")>> :
                m \in {m \in Markets \ CreatedIn(L) : ~ClosedRoom(L) /\ (m # Headline => Headline \in CreatedIn(L))}}
      [] kind = "liquidity" ->
            {<<[who |-> "p", n |-> 1, a |-> 1, b |-> 0] @@ Emits(m, "LiquidityAdded")>> : m \in OpenIn(L)}
      [] kind = "submit" ->
            {<<[id |-> Len(Saying(L, m, {"ActionSubmitted"})) + 1, who |-> "p"] @@ Emits(m, "ActionSubmitted")>> :
                m \in {m \in OpenIn(L) : Pending(L, m) = {}}}
      [] kind = "clear" ->
            UNION {{<<[epoch |-> seq] @@ Emits(m, "EpochMarkedSafe"), [id |-> g.id] @@ Emits(m, "ActionExecuted"),
                      [who |-> g.who, side |-> "a", n |-> 2] @@ Emits(m, "Trade"),
                      [seq |-> seq] @@ Emits("room", "RoomEpochsMarkedSafe")>> : g \in Pending(L, m)} :
                m \in {m \in OpenIn(L) : Gate(L, m) = "open"}}
      [] kind = "refund" ->
            UNION {{<<[id |-> g.id] @@ Emits(m, "ActionRefunded")>> : g \in Pending(L, m)} : m \in CreatedIn(L)}
      [] kind = "transfer" ->
            {<<[who |-> "p", to |-> "q", side |-> "a", n |-> 1] @@ Emits(m, "PositionTransferred")>> :
                m \in {m \in OpenIn(L) : Held(L, m, "p") > 0}}
      [] kind = "suspend" ->
            IF ClosedRoom(L) THEN {}
            ELSE {Every(OpenIn(L) \ skipped, "GateSuspended", seq)
                    \o SetToSeq({[market |-> m] @@ Emits("room", "SlotCallSkipped") : m \in skipped})
                    \o <<[seq |-> seq] @@ Emits("room", "RoomSuspended")>> : skipped \in SUBSET OpenIn(L)}
      [] kind = "reopen" ->
            IF ClosedRoom(L) THEN {}
            ELSE {Every(OpenIn(L), "GateReopened", seq) \o <<[seq |-> seq] @@ Emits("room", "RoomReopened")>>}
      [] kind = "close" ->
            IF ClosedRoom(L) THEN {}
            ELSE {Every(OpenIn(L), "ForecastingClosed", seq) \o <<[seq |-> seq] @@ Emits("room", "RoomClosed")>>}
      [] kind = "stall" ->
            IF ClosedRoom(L) THEN {}
            ELSE {<<[seq |-> seq] @@ Emits("room", "RoomClosedByGateStall"),
                    [seq |-> seq] @@ Emits("room", "RoomClosed")>>}
      [] kind = "close slot" ->
            {Every({m}, "ForecastingClosed", seq) \o <<[seq |-> seq] @@ Emits("room", "SlotsClosed")>> :
                m \in OpenIn(L) \ {Headline}}
      [] kind = "attest" ->
            {<<[outcome |-> 1] @@ Emits(m, "ResultAttested"),
               [outcome |-> 1] @@ Emits(m, "ProvisionalResultRegistered")>> :
                m \in {m \in CreatedIn(L) \ OpenIn(L) : Final(L, m) = 0 /\ m \notin Decided(L)}}
      [] kind = "challenge" ->
            {<<[who |-> "q"] @@ Emits(m, "ResultChallenged")>> :
                m \in {m \in Decided(L) : ~Said(L, m, "ResultChallenged")}}
      [] kind = "verdict" ->
            {<<[upheld |-> TRUE] @@ Emits(m, "ChallengeVerdictAttested"),
               [outcome |-> 4] @@ Emits(m, "ResultFinalized")>> :
                m \in {m \in Decided(L) : Said(L, m, "ResultChallenged")}}
      [] kind = "finalize" ->
            {<<[outcome |-> IF m \in Decided(L) THEN 1 ELSE 4] @@ Emits(m, "ResultFinalized")>> :
                m \in {m \in CreatedIn(L) \ OpenIn(L) : Final(L, m) = 0 /\ ~Said(L, m, "ResultChallenged")}}
      [] kind = "redeem" ->
            {<<[who |-> "p", a |-> Held(L, m, "p"), b |-> 0] @@ Emits(m, "PositionsRedeemed"),
               [who |-> "p"] @@ Emits(m, "WinnerRewardClaimed")>> :
                m \in {m \in CreatedIn(L) : Final(L, m) # 0 /\ Held(L, m, "p") > 0}}
      [] kind = "settle" ->
            {<<[who |-> "p", n |-> Shares(L, m)] @@ Emits(m, "LpInventorySettled"),
               [who |-> "p"] @@ Emits(m, "LpFeesClaimed")>> :
                m \in {m \in CreatedIn(L) : Final(L, m) # 0 /\ Shares(L, m) > 0}}
      [] kind = "bond" -> {<<[who |-> "p", n |-> 1] @@ Emits("room", "IntegrityBondPosted")>>}
      [] kind = "accuse" ->
            {<<[id |-> 1, who |-> "p"] @@ Emits("room", "IntegrityClaimFiled")>> :
                i \in {i \in {1} : Said(L, "room", "IntegrityBondPosted") /\ ~Said(L, "room", "IntegrityClaimFiled")}}
      [] kind = "adjudicate" ->
            IF ~Said(L, "room", "IntegrityClaimFiled") \/ Saying(L, "room", Verdicts) # <<>> THEN {}
            ELSE {<<[id |-> 1, upheld |-> TRUE] @@ Emits("room", "IntegrityClaimAdjudicated"),
                    [id |-> 1, who |-> "p", n |-> 1] @@ Emits("room", "IntegrityBondForfeited")>>,
                  <<[id |-> 1] @@ Emits("room", "IntegrityClaimExpired")>>}


Genesis == <<[hash |-> 0, logs |-> <<[seq |-> 0] @@ Emits("factory", "RoomCreated")>>]>>
Mined(c, kind, hash) ==
    {Append(c, [hash |-> hash, logs |-> logs]) : logs \in Transactions(AllLogs(c), kind, Len(c) + 1)}
\* A chain with one transaction of each kind, in order.
Played(kinds) == FoldLeft(LAMBDA c, kind : CHOOSE d \in Mined(c, kind, 0) : TRUE, Genesis, kinds)
===============================================================================
