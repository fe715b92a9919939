-------------------------------- MODULE TradeFlow --------------------------------
(***************************************************************************)
(* One reader's page and its wallet: the question on the screen, the       *)
(* snapshot of its market read over RPC, and the orders the reader         *)
(* confirms, each an approval when it pays, then the call itself, then a   *)
(* fresh snapshot.                                                         *)
(*                                                                         *)
(* A price stands for all that a quote is computed from, and says which    *)
(* market's it is; every order is for one unit of collateral.  The wallet  *)
(* figures of a snapshot are named by the account they were read for.      *)
(* Effects of a render are done before the reader's next click.            *)
(***************************************************************************)
EXTENDS Integers, FiniteSets, Functions

CONSTANTS Questions,     \* market addresses, one per card of the room
          Wallets,       \* accounts of the reader
          OrderKinds,    \* those of the sheets the reader uses
          MaxMoves,      \* price moves and closures, a bound
          MaxOrders, MaxReads, MaxSwitches, MaxLosses   \* bounds

ASSUME TradeFlowAssumption ==
    /\ Questions # {}
    /\ OrderKinds \subseteq {"buy", "liquidity", "sell", "challenge"}
    /\ {MaxMoves, MaxOrders, MaxReads, MaxSwitches, MaxLosses} \subseteq Nat

VARIABLES chain,     \* [price, open, allowance, landed, challenged]
          page,      \* [question, account, shown, sheet]
          reads,     \* snapshots asked for: [market, account, order, answer]
          orders,    \* what became of each confirmation
          evidence,  \* orders whose evidence the service has registered
          switches, losses

tradeVars == <<chain, page, reads, orders, evidence, switches, losses>>

NoWallet == "no wallet"
NoPrice == [market |-> "none", n |-> 0]
NotShown == [market |-> "none", price |-> NoPrice]
NoSheet == [kind |-> "none", order |-> 0]
Orders == 1..MaxOrders
Unused == [pc |-> "unused"]
Unsent == [call |-> "none", status |-> "none"]

Quoted(kind) == kind \in {"buy", "liquidity", "sell"}
Pays(kind) == kind \in {"buy", "liquidity", "challenge"}
InState(o, pc) == orders[o].pc = pc
Moved(o, pc) == [orders EXCEPT ![o].pc = pc]

-------------------------------------------------------------------------------
(* Reading the market. *)

Reading(market, account) ==
    [market |-> market, account |-> account, price |-> [market |-> market, n |-> chain.price[market]],
     open |-> chain.open[market], contested |-> market \in chain.challenged]
Asked(market, account, o) == [market |-> market, account |-> account, order |-> o, answer |-> NotShown]
\* refresh: of the market asked for, with the account of the moment.
Refreshes(market, account, o) ==
    reads \union {Asked(market, account, o)}
MayAsk == Cardinality(reads) < MaxReads

\* Mutant of OfTheQuestion: whatever is read last is shown.
OfAnyQuestion(market) == TRUE
OfTheQuestion(market) == market = page.question

ReadServed ==
    /\ \E r \in reads :
           /\ r.answer = NotShown
           /\ reads' = (reads \ {r}) \union {[r EXCEPT !.answer = Reading(r.market, r.account)]}
    /\ UNCHANGED <<chain, page, orders, evidence, switches, losses>>

\* The snapshot an order waits for ends it, read or not.
WasFor(o) ==
    IF o = 0 THEN orders
    ELSE Moved(o, IF orders[o].kind = "challenge" THEN "register" ELSE "done")
ReadArrives ==
    /\ \E r \in reads :
           /\ r.answer # NotShown
           /\ page' = IF OfTheQuestion(r.market) THEN [page EXCEPT !.shown = r.answer] ELSE page
           /\ orders' = WasFor(r.order)
           /\ reads' = reads \ {r}
    /\ UNCHANGED <<chain, evidence, switches, losses>>
ReadFails ==
    /\ losses < MaxLosses
    /\ losses' = losses + 1
    /\ \E r \in reads : orders' = WasFor(r.order) /\ reads' = reads \ {r}
    /\ UNCHANGED <<chain, page, evidence, switches>>

\* The interval; a page that is current need not be watched asking.
PageCurrent == page.shown = Reading(page.question, page.account)
AsksAgain ==
    /\ ~PageCurrent /\ MayAsk
    /\ reads' = Refreshes(page.question, page.account, 0)
    /\ UNCHANGED <<chain, page, orders, evidence, switches, losses>>

\* The card chosen becomes the question, and its market the one that is read.
SelectMarket(market) ==
    /\ page.sheet = NoSheet /\ market # page.question
    /\ switches < MaxSwitches /\ MayAsk
    /\ page' = [page EXCEPT !.question = market, !.shown = NotShown]
    /\ reads' = Refreshes(market, page.account, 0)
    /\ switches' = switches + 1
    /\ UNCHANGED <<chain, orders, evidence, losses>>

\* connect, and accountsChanged, at any time.
AccountChanges(account) ==
    /\ account # page.account
    /\ switches < MaxSwitches /\ MayAsk
    /\ page' = [page EXCEPT !.account = account]
    /\ reads' = Refreshes(page.question, account, 0)
    /\ switches' = switches + 1
    /\ UNCHANGED <<chain, orders, evidence, losses>>

-------------------------------------------------------------------------------
(* The sheets. *)

IsLiveSelection == page.shown # NotShown /\ page.shown.market = page.question
\* What the room's card says, now or still: its feed is RoomFeed's.
CardStates(market) == {"open"} \union {IF chain.open[market] THEN "open" ELSE "closed"}
MarketIsTradable(card) == card = "open"
MarketAcceptsLiquidity(card) == card \in {"awaiting-liquidity", "open"}
CanChallenge == IsLiveSelection /\ ~page.shown.open /\ ~page.shown.contested

Offered(kind, card) ==
    CASE kind = "buy" -> IsLiveSelection /\ MarketIsTradable(card)
      [] kind = "liquidity" -> IsLiveSelection /\ MarketAcceptsLiquidity(card)
      [] kind = "sell" -> page.shown # NotShown
      [] kind = "challenge" -> CanChallenge

OpenSheet ==
    /\ page.sheet = NoSheet
    /\ \E kind \in OrderKinds, card \in CardStates(page.question) :
           Offered(kind, card) /\ page' = [page EXCEPT !.sheet = [kind |-> kind, order |-> 0]]
    /\ UNCHANGED <<chain, reads, orders, evidence, switches, losses>>
\* Closing a sheet leaves the order it sent on its way.
CloseSheet ==
    /\ page.sheet # NoSheet
    /\ page' = [page EXCEPT !.sheet = NoSheet]
    /\ UNCHANGED <<chain, reads, orders, evidence, switches, losses>>

\* A sale is of the market the position is in; the others are of the question on the screen.
Target(kind) == IF kind = "sell" THEN page.shown.market ELSE page.question
\* snapshotFor: the snapshot the sheet was computed from, when it is the target's.
SnapshotFor(market) == IF page.shown.market = market THEN page.shown ELSE Reading(market, page.account)

\* The order summary a sheet can be confirmed from; without reserves to quote there is none.
TradeSheet == IsLiveSelection
SellSheet == page.shown # NotShown
LiquiditySheet == IsLiveSelection
ChallengeSheet == TRUE
Confirmable(kind) ==
    CASE kind = "buy" -> TradeSheet
      [] kind = "liquidity" -> LiquiditySheet
      [] kind = "sell" -> SellSheet
      [] kind = "challenge" -> ChallengeSheet

\* Not while it waits for the wallet, nor after it has succeeded.
Idle(sheet) == sheet.order # 0 => InState(sheet.order, "failed")
NextOrder == CHOOSE o \in Orders : InState(o, "unused") /\ \A p \in 1..(o - 1) : ~InState(p, "unused")
SheetConfirms ==
    /\ page.sheet # NoSheet /\ Idle(page.sheet) /\ Confirmable(page.sheet.kind)
    /\ page.account # NoWallet
    /\ \E o \in Orders : InState(o, "unused")
    /\ LET kind == page.sheet.kind
           market == Target(kind)
       IN  /\ orders' = [orders EXCEPT ![NextOrder] =
                  [pc |-> IF Pays(kind) THEN "allowance" ELSE "call", kind |-> kind, market |-> market,
                   account |-> page.account, seen |-> page.shown.price,
                   minimum |-> IF Quoted(kind) THEN SnapshotFor(market).price ELSE NoPrice, tx |-> Unsent]]
           /\ page' = [page EXCEPT !.sheet.order = NextOrder]
    /\ UNCHANGED <<chain, reads, evidence, switches, losses>>

-------------------------------------------------------------------------------
(* An order on its way. *)

AllowanceRead ==
    /\ \E o \in Orders :
           /\ InState(o, "allowance")
           /\ orders' = Moved(o, IF chain.allowance[orders[o].account][orders[o].market] >= 1 THEN "call" ELSE "approve")
    /\ UNCHANGED <<chain, page, reads, evidence, switches, losses>>

\* The call the order is waiting to have signed.
SignedFor(pc) == IF pc = "approve" THEN "approve" ELSE "call"
WalletSigns ==
    /\ \E o \in Orders :
           /\ orders[o].pc \in {"approve", "call"}
           /\ orders' = [orders EXCEPT ![o].tx = [call |-> SignedFor(orders[o].pc), status |-> "pending"],
                                       ![o].pc = "confirm"]
    /\ UNCHANGED <<chain, page, reads, evidence, switches, losses>>
\* The reader refuses, or the wallet is on a chain it will not leave.
WalletRefuses ==
    /\ \E o \in Orders : orders[o].pc \in {"approve", "call"} /\ orders' = Moved(o, "failed")
    /\ UNCHANGED <<chain, page, reads, evidence, switches, losses>>

\* Whether the market takes the call (LivePredictionMarket): a trade while it is open, one
\* challenge when it is closed; a call that pays, out of what was approved.
Takes(order) ==
    /\ IF order.kind = "challenge" THEN ~chain.open[order.market] /\ order.market \notin chain.challenged
       ELSE chain.open[order.market]
    /\ Pays(order.kind) => chain.allowance[order.account][order.market] >= 1
AfterCall(o, order) ==
    [chain EXCEPT !.landed = @ \union {[order |-> o, kind |-> order.kind, market |-> order.market,
                                        account |-> order.account, minimum |-> order.minimum]},
                  !.challenged = IF order.kind = "challenge" THEN @ \union {order.market} ELSE @,
                  !.allowance[order.account][order.market] = IF Pays(order.kind) THEN @ - 1 ELSE @]
\* An approval replaces what was approved before.
AfterApproval(order) == [chain EXCEPT !.allowance[order.account][order.market] = 1]

\* The transaction is mined, as it was sent or at another fee, whether or not the page still waits.
Mined ==
    /\ \E o \in Orders :
           LET order == orders[o]
               works == order.tx.call = "approve" \/ Takes(order)
           IN  /\ ~InState(o, "unused") /\ order.tx.status = "pending"
               /\ chain' = IF ~works THEN chain
                           ELSE IF order.tx.call = "approve" THEN AfterApproval(order) ELSE AfterCall(o, order)
               /\ orders' = [orders EXCEPT ![o].tx.status = IF works THEN "success" ELSE "reverted"]
    /\ UNCHANGED <<page, reads, evidence, switches, losses>>
\* In the wallet it is cancelled, or another call is sent with its nonce; that receipt is a success.
ReplacedInWallet ==
    /\ losses < MaxLosses
    /\ losses' = losses + 1
    /\ \E o \in Orders, how \in {"cancelled", "replaced"} :
           /\ ~InState(o, "unused") /\ orders[o].tx.status = "pending"
           /\ orders' = [orders EXCEPT ![o].tx.status = how]
    /\ UNCHANGED <<chain, page, reads, evidence, switches>>

\* Mutant of Confirmed: a receipt that is a success is enough.
ConfirmedByReceipt(tx) == tx.status # "reverted"
Confirmed(tx) == tx.status = "success"
\* A confirmed approval leads to the call; a confirmed call, to a snapshot for its account and market.
ReceiptArrives ==
    /\ \E o \in Orders :
           LET order == orders[o]
               called == Confirmed(order.tx) /\ order.tx.call = "call"
           IN  /\ InState(o, "confirm") /\ order.tx.status # "pending"
               /\ called => MayAsk
               /\ orders' = Moved(o, IF ~Confirmed(order.tx) THEN "failed" ELSE IF called THEN "refresh" ELSE "call")
               /\ reads' = IF called THEN Refreshes(order.market, order.account, o) ELSE reads
    /\ UNCHANGED <<chain, page, evidence, switches, losses>>
\* The wait for the receipt times out, or the node does not answer.
ReceiptLost ==
    /\ losses < MaxLosses
    /\ losses' = losses + 1
    /\ \E o \in Orders : InState(o, "confirm") /\ orders' = Moved(o, "failed")
    /\ UNCHANGED <<chain, page, reads, evidence, switches>>

\* Three times the evidence is sent to the service; an answer may be lost, or every request.
EvidenceSent ==
    /\ \E o \in Orders, arrived, answered \in BOOLEAN :
           /\ InState(o, "register")
           /\ answered => arrived
           /\ evidence' = IF arrived THEN evidence \union {o} ELSE evidence
           /\ orders' = Moved(o, IF answered THEN "done" ELSE "unregistered")
    /\ UNCHANGED <<chain, page, reads, switches, losses>>

-------------------------------------------------------------------------------
(* Around them: other traders, and the source that closes a market. *)

ChainRests == FoldFunction(+, 0, chain.price) + Cardinality({m \in Questions : ~chain.open[m]}) = MaxMoves
PriceMoves ==
    /\ ~ChainRests
    /\ \E m \in Questions :
           /\ chain.open[m]
           /\ chain' = [chain EXCEPT !.price[m] = @ + 1]
    /\ UNCHANGED <<page, reads, orders, evidence, switches, losses>>
MarketCloses ==
    /\ ~ChainRests
    /\ \E m \in Questions : chain.open[m] /\ chain' = [chain EXCEPT !.open[m] = FALSE]
    /\ UNCHANGED <<page, reads, orders, evidence, switches, losses>>

TradeInit ==
    /\ chain = [price |-> [m \in Questions |-> 0], open |-> [m \in Questions |-> TRUE],
                allowance |-> [a \in Wallets |-> [m \in Questions |-> 0]], landed |-> {}, challenged |-> {}]
    \* The room's focus, or the market of a standalone build; which one makes no difference.
    /\ LET market == CHOOSE m \in Questions : TRUE
       IN  /\ page = [question |-> market, account |-> NoWallet, shown |-> NotShown, sheet |-> NoSheet]
           /\ reads = {Asked(market, NoWallet, 0)}
    /\ orders = [o \in Orders |-> Unused] /\ evidence = {}
    /\ switches = 0 /\ losses = 0
TradeNext ==
    \/ ReadServed \/ ReadArrives \/ ReadFails \/ AsksAgain
    \/ (\E m \in Questions : SelectMarket(m)) \/ (\E a \in Wallets \union {NoWallet} : AccountChanges(a))
    \/ OpenSheet \/ CloseSheet \/ SheetConfirms
    \/ AllowanceRead \/ WalletSigns \/ WalletRefuses
    \/ Mined \/ ReplacedInWallet \/ ReceiptArrives \/ ReceiptLost \/ EvidenceSent
    \/ PriceMoves \/ MarketCloses
\* The page keeps asking, and the node answers.
TradeFairness == WF_tradeVars(AsksAgain) /\ WF_tradeVars(ReadServed) /\ WF_tradeVars(ReadArrives)
TradeSpec == TradeInit /\ [][TradeNext]_tradeVars
FairTradeSpec == TradeSpec /\ TradeFairness

-------------------------------------------------------------------------------
(* What the reader may rely on. *)

\* What the page says of an order is so, and only what the reader saw is sent: the snapshot on
\* the screen is of the question on the screen; an order that was not reported as failed is on
\* chain; and a trade that is on chain, now or after its sheet was closed, went to the market and
\* with the minimum of the order summary it was confirmed from (refresh, snapshotFor,
\* confirmTransaction, submitPrediction).
OrdersAreHonest ==
    /\ page.shown # NotShown => page.shown.market = page.question
    /\ \A o \in Orders : orders[o].pc \in {"refresh", "register", "unregistered", "done"} =>
           \E landing \in chain.landed : landing.order = o
    /\ \A landing \in chain.landed :
           LET order == orders[landing.order]
           IN  /\ landing.account = order.account
               /\ Quoted(landing.kind) => landing.market = order.seen.market /\ landing.minimum = order.seen
    /\ \A o \in Orders : InState(o, "done") /\ orders[o].kind = "challenge" => o \in evidence

\* When markets and reader rest, the page comes to show the question's market as it is to the
\* account that is connected, whatever reads were overtaken, or made for another account.
PageComesTrue == <>[]PageCurrent
===============================================================================
