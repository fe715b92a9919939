------------------------------- MODULE Projection -------------------------------
(***************************************************************************)
(* The read models of one room (indexer/projection.mjs) and what each      *)
(* contract event does to them (the handlers of indexer/indexer.mjs).      *)
(*                                                                         *)
(* A store is a record: the room's row, rows by market, action or account, *)
(* the appended rows by table, and the markets whose state is to be read.  *)
(* A log is a record of its event, the contract that emitted it ("factory",*)
(* "room" or a market), its block and the arguments the handlers use.      *)
(* Display data, and the block a row was last refreshed at, are left out.  *)
(***************************************************************************)
EXTENDS Integers, Sequences, FiniteSets, SequencesExt

None == <<>>
Known(rows, key) == IF key \in DOMAIN rows THEN rows[key] ELSE None
Upsert(rows, key, row) == (key :> (row @@ Known(rows, key))) @@ rows

EmptyStore ==
    [room |-> None, slots |-> None, markets |-> None, actions |-> None, holdings |-> None,
     safe |-> {}, tables |-> None, bonds |-> None, claims |-> None, touched |-> {}]

UpsertRoom(s, row) == [s EXCEPT !.room = row @@ @]
UpsertSlot(s, m, row) == [s EXCEPT !.slots = Upsert(@, m, row)]
\* A market learns nothing of its slot before the room announced it.
UpsertKnownSlot(s, m, row) == IF m \in DOMAIN s.slots THEN UpsertSlot(s, m, row) ELSE s
UpsertMarket(s, m, row) == [s EXCEPT !.markets = Upsert(@, m, row)]
UpsertAction(s, m, id, row) == [s EXCEPT !.actions = Upsert(@, <<m, id>>, row)]
AppendRow(s, table, row) == [s EXCEPT !.tables = (table :> Append(Known(@, table), row)) @@ @]
Touch(s, m) == [s EXCEPT !.touched = @ \union {m}]

NoHolding == [a |-> 0, b |-> 0, lp |-> 0]
GetHolding(s, m, who) ==
    IF <<m, who>> \in DOMAIN s.holdings THEN s.holdings[<<m, who>>] ELSE NoHolding
AdjustHolding(s, m, who, delta) ==
    [s EXCEPT !.holdings =
        (<<m, who>> :> [k \in {"a", "b", "lp"} |-> GetHolding(s, m, who)[k] + delta[k]]) @@ @]
Position(side, n) == [NoHolding EXCEPT ![side] = n]
ListAccountHoldings(s, who) ==
    {m \in DOMAIN s.markets : \E k \in {"a", "b", "lp"} : GetHolding(s, m, who)[k] > 0}

ListActions(s, m, status) == {id \in DOMAIN s.actions : id[1] = m /\ s.actions[id].status = status}
ListRows(s, table, m) == SelectSeq(Known(s.tables, table), LAMBDA row : row.market = m)

-------------------------------------------------------------------------------
(* The factory and the room. *)

OnRoomCreated(s, g) == UpsertRoom(s, [state |-> "armed", seq |-> 0, closedSeq |-> 0])
OnMarketCreated(s, g) == Touch(UpsertMarket(s, g.market, [final |-> 0]), g.market)

RoomSequence(s, g) == UpsertRoom(s, [seq |-> g.seq])
OnSlotPublished(s, g) ==
    LET announced == UpsertSlot(s, g.market, [state |-> "announced", published |-> g.seq])
    IN  Touch(UpsertRoom(UpsertMarket(announced, g.market, None), [state |-> "live", seq |-> g.seq]),
              g.market)
OnRoomClosed(s, g) == UpsertRoom(s, [state |-> "closing", closedSeq |-> g.seq, seq |-> g.seq])
OnRoomClosedByGateStall(s, g) == UpsertRoom(s, [state |-> "closing", stalled |-> TRUE])
OnSlotCallSkipped(s, g) == AppendRow(s, "skips", [market |-> g.market, block |-> g.block])

Bond(s, g, row) == [s EXCEPT !.bonds = Upsert(@, g.who, row)]
OnIntegrityBondPosted(s, g) == Bond(s, g, [posted |-> g.n])
OnIntegrityBondClaimed(s, g) == Bond(s, g, [claimed |-> g.n])
OnIntegrityBondForfeited(s, g) == Bond(s, g, [forfeited |-> g.n, claim |-> g.id])
IntegrityClaim(s, g, row) == [s EXCEPT !.claims = Upsert(@, g.id, row)]
OnIntegrityClaimFiled(s, g) == IntegrityClaim(s, g, [against |-> g.who, status |-> "open"])
OnIntegrityClaimAdjudicated(s, g) ==
    IntegrityClaim(s, g, [status |-> IF g.upheld THEN "upheld" ELSE "rejected"])
OnIntegrityClaimExpired(s, g) == IntegrityClaim(s, g, [status |-> "expired"])

-------------------------------------------------------------------------------
(* A market. *)

OnActionSubmitted(s, g) ==
    Touch(UpsertAction(s, g.address, g.id, [status |-> 0, who |-> g.who, submitted |-> g.block]), g.address)
OnActionExecuted(s, g) ==
    Touch(UpsertAction(s, g.address, g.id, [status |-> 1, settled |-> g.block]), g.address)
OnActionRefunded(s, g) ==
    Touch(UpsertAction(s, g.address, g.id, [status |-> 2, settled |-> g.block]), g.address)
OnEpochMarkedSafe(s, g) == Touch([s EXCEPT !.safe = @ \union {<<g.address, g.epoch>>}], g.address)
OnGateMoved(s, g) == Touch(s, g.address)
OnForecastingClosed(s, g) ==
    Touch(UpsertKnownSlot(s, g.address, [state |-> "closed", closed |-> g.seq]), g.address)

OnTrade(s, g) ==
    LET row == [market |-> g.address, who |-> g.who, side |-> g.side, n |-> g.n, block |-> g.block]
    IN  Touch(AppendRow(AdjustHolding(s, g.address, g.who, Position(g.side, g.n)), "trades", row), g.address)
OnLiquidityAdded(s, g) ==
    Touch(AdjustHolding(s, g.address, g.who, [a |-> g.a, b |-> g.b, lp |-> g.n]), g.address)
OnPositionTransferred(s, g) ==
    LET left == AdjustHolding(s, g.address, g.who, Position(g.side, -g.n))
    IN  Touch(AdjustHolding(left, g.address, g.to, Position(g.side, g.n)), g.address)

Claimed(s, g, kind) ==
    Touch(AppendRow(s, "claims", [market |-> g.address, who |-> g.who, kind |-> kind, block |-> g.block]),
          g.address)
OnPositionsRedeemed(s, g) ==
    Claimed(AdjustHolding(s, g.address, g.who, [a |-> -g.a, b |-> -g.b, lp |-> 0]), g, "redeem")
OnLpInventorySettled(s, g) ==
    Claimed(AdjustHolding(s, g.address, g.who, Position("lp", -g.n)), g, "lp_inventory")

OnResultAttested(s, g) ==
    AppendRow(s, "attestations", [market |-> g.address, outcome |-> g.outcome, block |-> g.block])
OnProvisionalResultRegistered(s, g) ==
    Touch(UpsertMarket(UpsertKnownSlot(s, g.address, [state |-> "provisional"]),
                       g.address, [provisional |-> g.outcome]), g.address)
OnResultChallenged(s, g) ==
    Touch(UpsertMarket(UpsertKnownSlot(s, g.address, [state |-> "challenged"]),
                       g.address, [challenger |-> g.who]), g.address)
OnChallengeVerdictAttested(s, g) ==
    Touch(AppendRow(s, "verdicts", [market |-> g.address, upheld |-> g.upheld, block |-> g.block]), g.address)

SlotTerminal == {"final", "invalid"}
SlotResolving == {"provisional", "challenged"}
TerminalState(outcome) == IF outcome = 4 THEN "invalid" ELSE "final"
MaybeSettleRoom(s) ==
    IF "closedSeq" \notin DOMAIN s.room \/ s.room.closedSeq = 0 THEN s
    ELSE LET states == {s.slots[m].state : m \in DOMAIN s.slots}
         IN  UpsertRoom(s, [state |-> IF states \subseteq SlotTerminal
                                      THEN IF "final" \in states THEN "final" ELSE "invalid"
                                      ELSE "settling"])
OnResultFinalized(s, g) ==
    LET told == UpsertMarket(s, g.address, [final |-> g.outcome, finalized |-> g.block])
    IN  Touch(IF g.address \in DOMAIN s.slots
              THEN MaybeSettleRoom(UpsertSlot(told, g.address, [state |-> TerminalState(g.outcome)]))
              ELSE told, g.address)

Apply(s, g) ==
    CASE g.event = "RoomCreated" -> OnRoomCreated(s, g)
      [] g.event = "MarketCreated" -> OnMarketCreated(s, g)
      [] g.event = "SlotPublished" -> OnSlotPublished(s, g)
      [] g.event \in {"RoomEpochsMarkedSafe", "RoomSuspended", "RoomReopened", "SlotsClosed"} -> RoomSequence(s, g)
      [] g.event = "RoomClosed" -> OnRoomClosed(s, g)
      [] g.event = "RoomClosedByGateStall" -> OnRoomClosedByGateStall(s, g)
      [] g.event = "SlotCallSkipped" -> OnSlotCallSkipped(s, g)
      [] g.event = "IntegrityBondPosted" -> OnIntegrityBondPosted(s, g)
      [] g.event = "IntegrityBondClaimed" -> OnIntegrityBondClaimed(s, g)
      [] g.event = "IntegrityBondForfeited" -> OnIntegrityBondForfeited(s, g)
      [] g.event = "IntegrityClaimFiled" -> OnIntegrityClaimFiled(s, g)
      [] g.event = "IntegrityClaimAdjudicated" -> OnIntegrityClaimAdjudicated(s, g)
      [] g.event = "IntegrityClaimExpired" -> OnIntegrityClaimExpired(s, g)
      [] g.event = "ActionSubmitted" -> OnActionSubmitted(s, g)
      [] g.event = "ActionExecuted" -> OnActionExecuted(s, g)
      [] g.event = "ActionRefunded" -> OnActionRefunded(s, g)
      [] g.event = "EpochMarkedSafe" -> OnEpochMarkedSafe(s, g)
      [] g.event \in {"GateSuspended", "GateReopened"} -> OnGateMoved(s, g)
      [] g.event = "ForecastingClosed" -> OnForecastingClosed(s, g)
      [] g.event = "Trade" -> OnTrade(s, g)
      [] g.event = "LiquidityAdded" -> OnLiquidityAdded(s, g)
      [] g.event = "PositionTransferred" -> OnPositionTransferred(s, g)
      [] g.event = "PositionsRedeemed" -> OnPositionsRedeemed(s, g)
      [] g.event = "LpInventorySettled" -> OnLpInventorySettled(s, g)
      [] g.event = "LpFeesClaimed" -> Claimed(s, g, "lp_fees")
      [] g.event = "WinnerRewardClaimed" -> Claimed(s, g, "winner_reward")
      [] g.event = "InvalidWinnerFeeRefunded" -> Claimed(s, g, "winner_fee_refund")
      [] g.event = "ResultAttested" -> OnResultAttested(s, g)
      [] g.event = "ProvisionalResultRegistered" -> OnProvisionalResultRegistered(s, g)
      [] g.event = "ResultChallenged" -> OnResultChallenged(s, g)
      [] g.event = "ChallengeVerdictAttested" -> OnChallengeVerdictAttested(s, g)
      [] g.event = "ResultFinalized" -> OnResultFinalized(s, g)

-------------------------------------------------------------------------------
(* State no event carries: read from the market's getters. *)

\* As if only a settled slot kept the state its logs established.
SyncUnsettledSlot(s, m) ==
    LET row == s.markets[m]
    IN  IF m \notin DOMAIN s.slots \/ Known(s.slots, m).state \in SlotTerminal THEN s
        ELSE UpsertSlot(s, m, [state |-> IF row.gate = "open" /\ row.shares = 0 THEN "awaiting-liquidity"
                                         ELSE row.gate])

SyncSlotState(s, m) ==
    LET row == s.markets[m]
        state == IF row.final # 0 THEN TerminalState(row.final)
                 ELSE IF row.gate = "closed" THEN "closed"
                 ELSE IF row.gate = "suspended" THEN "suspended"
                 ELSE IF row.shares = 0 THEN "awaiting-liquidity" ELSE "open"
    IN  IF m \notin DOMAIN s.slots \/ Known(s.slots, m).state \in SlotTerminal \union SlotResolving THEN s
        ELSE UpsertSlot(s, m, [state |-> state])

\* read[m]: what the getters of m answered.
Refresh(s, m, read) == SyncSlotState(UpsertMarket(s, m, read), m)
===============================================================================
