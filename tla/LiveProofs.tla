------------------------------- MODULE LiveProofs -------------------------------
(***************************************************************************)
(* Theorems about what keeps a page current: the replicas' reading of the  *)
(* chain, the feed from one projection to one page, and the page's orders. *)
(* The components share no state; each section is about one of them.       *)
(***************************************************************************)
EXTENDS RoomFeed, Replicas, TradeFlow, NatLemmas, SequenceTheorems

-------------------------------------------------------------------------------
(* Replicas. *)

Ages == 1..(HeadMaxAge + 2)
ReplicaRecord ==
    [up : BOOLEAN, pc : {"idle", "claim", "head", "index"}, ask : SUBSET Rooms, led : SUBSET Rooms,
     head : Nat, cursor : Nat, seen : [Rooms -> [head : Int, age : Int]], shown : [Rooms -> Nat]]
ReplicaTypes ==
    /\ heads \in [Ages -> Nat]
    /\ replica \in [Replicas -> ReplicaRecord]
\* The chain only grows.
HeadsInOrder == \A i, j \in Ages : i <= j => heads[j] <= heads[i]
\* A reading is at least what was the head when its tick began.
ReadingIsRecent(reading, was) ==
    reading = NotRead \/ (reading.age \in 0..HeadMaxAge /\ reading.head >= was[reading.age + 2])
ReadingsAreRecent == \A r \in Replicas, room \in Rooms : ReadingIsRecent(replica[r].seen[room], heads)
ReplicasInv == ReplicaTypes /\ HeadsInOrder /\ ReadingsAreRecent

LEMMA ReplicasStart == ReplicasInit => ReplicasInv
  BY ReplicasAssumption
     DEF ReplicasInit, ReplicasInv, ReplicaTypes, HeadsInOrder, ReadingsAreRecent, ReadingIsRecent,
         ReplicaRecord, Fresh, NotRead, Ages

\* A replica whose readings of the head stay as they were, or are none.
LEMMA ReadingsKept ==
    ASSUME ReplicasInv, NEW r \in Replicas, NEW next \in ReplicaRecord,
           heads' = heads, replica' = [replica EXCEPT ![r] = next],
           \A room \in Rooms : next.seen[room] \in {replica[r].seen[room], NotRead}
    PROVE  ReplicasInv'
  BY DEF ReplicasInv, ReplicaTypes, HeadsInOrder, ReadingsAreRecent, ReadingIsRecent, NotRead

LEMMA ReplicasStep == ReplicasInv /\ [ReplicasNext]_replicaVars => ReplicasInv'
  <1> SUFFICES ASSUME ReplicasInv, [ReplicasNext]_replicaVars
               PROVE  ReplicasInv'
    OBVIOUS
  <1>0. ReplicaTypes /\ HeadsInOrder /\ ReadingsAreRecent /\ HeadMaxAge \in Nat \ {0}
    BY ReplicasAssumption DEF ReplicasInv
  <1>1. ASSUME NEW r \in Replicas, Polls(r)
        PROVE  ReplicasInv'
    <2> DEFINE next == [replica[r] EXCEPT !.pc = "claim", !.ask = Rooms, !.led = {}]
    <2>1. replica' = [replica EXCEPT ![r] = next] /\ heads' = heads
      BY <1>1 DEF Polls
    <2>2. next \in ReplicaRecord /\ next.seen = replica[r].seen
      BY <1>0 DEF ReplicaTypes, ReplicaRecord
    <2> HIDE DEF next
    <2> QED
      BY <2>1, <2>2, ReadingsKept
  <1>2. ASSUME NEW r \in Replicas, NEW room \in Rooms, ClaimAnswered(r, room)
        PROVE  ReplicasInv'
    <2> DEFINE ask == replica[r].ask \ {room}
               won == replica[r].led \union (IF Held(TryAcquire(r, room), r, room) THEN {room} ELSE {})
               led == IF ask = {} THEN Leads(won) ELSE won
               pc == IF ask # {} THEN "claim" ELSE IF led = {} THEN "idle" ELSE "head"
               next == [replica[r] EXCEPT !.ask = ask, !.led = led, !.pc = pc]
    <2>1. replica' = [replica EXCEPT ![r] = next] /\ heads' = heads
      BY <1>2 DEF ClaimAnswered
    <2>2. replica[r] \in ReplicaRecord
      BY <1>0 DEF ReplicaTypes
    <2>3. ask \in SUBSET Rooms /\ led \in SUBSET Rooms /\ pc \in {"claim", "idle", "head"}
      BY <2>2 DEF ReplicaRecord, Leads
    <2> HIDE DEF ask, led, pc
    <2>4. next \in ReplicaRecord /\ next.seen = replica[r].seen
      BY <2>2, <2>3 DEF ReplicaRecord
    <2> HIDE DEF next
    <2> QED
      BY <2>1, <2>4, ReadingsKept
  <1>3. ASSUME NEW r \in Replicas, ReadsHead(r)
        PROVE  ReplicasInv'
    <2> DEFINE read == [head |-> heads[1], age |-> 0]
               seen == [room \in Rooms |-> IF room \in replica[r].led THEN read ELSE replica[r].seen[room]]
               next == [replica[r] EXCEPT !.head = heads[1], !.pc = "index", !.seen = seen]
    <2>1. replica' = [replica EXCEPT ![r] = next] /\ heads' = heads
      BY <1>3 DEF ReadsHead
    <2>2. replica[r] \in ReplicaRecord /\ heads[1] \in Nat /\ heads[2] <= heads[1]
      BY <1>0 DEF ReplicaTypes, HeadsInOrder, Ages
    <2>3. seen \in [Rooms -> [head : Int, age : Int]]
      BY <2>2 DEF ReplicaRecord
    <2>4. ReadingIsRecent(read, heads)
      BY <1>0, <2>2 DEF ReadingIsRecent
    <2>5. \A room \in Rooms : ReadingIsRecent(seen[room], heads)
      BY <1>0, <2>4 DEF ReadingsAreRecent
    <2> HIDE DEF seen
    <2>6. next \in ReplicaRecord /\ next.seen = seen
      BY <2>2, <2>3 DEF ReplicaRecord
    <2> HIDE DEF next
    <2> QED
      BY <1>0, <2>1, <2>5, <2>6
         DEF ReplicasInv, ReplicaTypes, HeadsInOrder, ReadingsAreRecent, ReadingIsRecent
  <1>4. ASSUME NEW r \in Replicas, Indexes(r)
        PROVE  ReplicasInv'
    <2> DEFINE cursor == IF replica[r].head > replica[r].cursor THEN replica[r].head ELSE replica[r].cursor
               shown == [room \in Rooms |-> IF room \in replica[r].led THEN cursor ELSE replica[r].shown[room]]
               next == [replica[r] EXCEPT !.pc = "idle", !.led = {}, !.head = 0, !.cursor = cursor, !.shown = shown]
    <2>1. replica' = [replica EXCEPT ![r] = next] /\ heads' = heads
      BY <1>0, <1>4 DEF Indexes, Ended, ReplicaTypes
    <2>2. replica[r] \in ReplicaRecord
      BY <1>0 DEF ReplicaTypes
    <2>3. cursor \in Nat /\ shown \in [Rooms -> Nat]
      BY <2>2 DEF ReplicaRecord
    <2> HIDE DEF cursor, shown
    <2>4. next \in ReplicaRecord /\ next.seen = replica[r].seen
      BY <2>2, <2>3 DEF ReplicaRecord
    <2> HIDE DEF next
    <2> QED
      BY <2>1, <2>4, ReadingsKept
  <1>5. ASSUME NEW r \in Replicas, PassFails(r)
        PROVE  ReplicasInv'
    <2> DEFINE Next(cursor) == [replica[r] EXCEPT !.pc = "idle", !.led = {}, !.head = 0, !.cursor = cursor]
    <2>1. replica[r] \in ReplicaRecord
      BY <1>0 DEF ReplicaTypes
    <2>2. PICK cursor \in Nat : replica' = [replica EXCEPT ![r] = Next(cursor)] /\ heads' = heads
      <3>1. CASE Is(r, "head") /\ replica' = Ended(r)
        <4>1. replica' = [replica EXCEPT ![r] = Next(replica[r].cursor)]
          BY <1>0, <2>1, <3>1 DEF Ended, ReplicaTypes, ReplicaRecord
        <4>2. replica[r].cursor \in Nat
          BY <2>1 DEF ReplicaRecord
        <4> QED
          BY <1>5, <4>1, <4>2 DEF PassFails
      <3>2. ASSUME NEW reached \in replica[r].cursor..replica[r].head,
                   replica' = [Ended(r) EXCEPT ![r].cursor = reached]
            PROVE  \E cursor \in Nat : replica' = [replica EXCEPT ![r] = Next(cursor)] /\ heads' = heads
        <4>1. reached \in Nat
          BY <2>1 DEF ReplicaRecord
        <4>2. replica' = [replica EXCEPT ![r] = Next(reached)]
          BY <1>0, <3>2 DEF Ended, ReplicaTypes
        <4> QED
          BY <1>5, <4>1, <4>2 DEF PassFails
      <3> QED
        BY <1>5, <3>1, <3>2 DEF PassFails
    <2>3. Next(cursor) \in ReplicaRecord /\ Next(cursor).seen = replica[r].seen
      BY <2>1 DEF ReplicaRecord
    <2> HIDE DEF Next
    <2> QED
      BY <2>2, <2>3, ReadingsKept
  <1>6. ASSUME NEW r \in Replicas, Crashes(r) \/ Restarts(r)
        PROVE  ReplicasInv'
    <2> DEFINE down == [Fresh EXCEPT !.up = FALSE]
    <2>1. Fresh \in ReplicaRecord /\ \A room \in Rooms : Fresh.seen[room] = NotRead
      BY DEF Fresh, ReplicaRecord, NotRead
    <2>2. down \in ReplicaRecord /\ down.seen = Fresh.seen
      BY <2>1 DEF ReplicaRecord
    <2>3. CASE Crashes(r)
      <3>1. replica' = [replica EXCEPT ![r] = down] /\ heads' = heads
        BY <2>3 DEF Crashes
      <3>2. \A room \in Rooms : down.seen[room] \in {replica[r].seen[room], NotRead}
        BY <2>1, <2>2
      <3> HIDE DEF down
      <3> QED
        BY <2>2, <3>1, <3>2, ReadingsKept
    <2>4. CASE Restarts(r)
      BY <2>1, <2>2, <2>4, ReadingsKept DEF Restarts
    <2> QED
      BY <1>6, <2>3, <2>4
  <1>7. CASE ChainAdvances
    <2>1. heads' \in [Ages -> Nat] /\ replica' = replica
      BY <1>0, <1>7 DEF ChainAdvances, ReplicaTypes, Ages
    <2>2. \A i \in Ages : IF i = 1 THEN heads'[i] = heads[i] + 1 ELSE heads'[i] = heads[i]
      BY <1>0, <1>7 DEF ChainAdvances, ReplicaTypes, Ages
    <2>3. HeadsInOrder'
      BY <1>0, <2>1, <2>2 DEF HeadsInOrder, ReplicaTypes, Ages
    <2>4. ReadingsAreRecent'
      <3> SUFFICES ASSUME NEW r \in Replicas, NEW room \in Rooms
                   PROVE  ReadingIsRecent(replica[r].seen[room], heads')
        BY <2>1 DEF ReadingsAreRecent
      <3> DEFINE reading == replica[r].seen[room]
      <3>1. CASE reading = NotRead
        BY <3>1 DEF ReadingIsRecent
      <3>2. CASE reading # NotRead
        <4>1. reading.age \in 0..HeadMaxAge /\ reading.head >= heads[reading.age + 2]
          BY <1>0, <3>2 DEF ReadingsAreRecent, ReadingIsRecent
        <4>2. reading.age + 2 \in Ages /\ reading.age + 2 # 1
          BY <1>0, <4>1 DEF Ages
        <4>3. heads'[reading.age + 2] = heads[reading.age + 2]
          BY <2>2, <4>2
        <4> QED
          BY <4>1, <4>3 DEF ReadingIsRecent
      <3> QED
        BY <3>1, <3>2
    <2> QED
      BY <1>0, <2>1, <2>3, <2>4 DEF ReplicasInv, ReplicaTypes
  <1>8. CASE TimePasses
    <2>1. DOMAIN heads = Ages /\ heads' = [i \in Ages |-> IF i = 1 THEN heads[1] ELSE heads[i - 1]]
      BY <1>0, <1>8 DEF TimePasses, ReplicaTypes
    <2>2. heads' \in [Ages -> Nat]
      BY <1>0, <2>1 DEF ReplicaTypes, Ages
    <2>3. HeadsInOrder'
      BY <1>0, <2>1, <2>2 DEF HeadsInOrder, ReplicaTypes, Ages
    <2>4. ASSUME NEW reading \in [head : Int, age : Int], ReadingIsRecent(reading, heads)
          PROVE  Older(reading) \in [head : Int, age : Int] /\ ReadingIsRecent(Older(reading), heads')
      <3> DEFINE older == Older(reading)
      <3>1. CASE reading = NotRead \/ reading.age = HeadMaxAge
        <4>1. older = NotRead
          BY <3>1 DEF Older
        <4> QED
          BY <4>1 DEF ReadingIsRecent, NotRead
      <3>2. CASE ~(reading = NotRead \/ reading.age = HeadMaxAge)
        <4>1. older = [reading EXCEPT !.age = reading.age + 1]
          BY <3>2 DEF Older
        <4>2. reading.age \in 0..HeadMaxAge /\ reading.age # HeadMaxAge /\ reading.head >= heads[reading.age + 2]
          BY <2>4, <3>2 DEF ReadingIsRecent
        <4>3. reading.age + 3 \in Ages /\ reading.age + 3 # 1 /\ reading.age + 1 \in 0..HeadMaxAge
          BY <1>0, <4>2 DEF Ages
        <4>4. heads'[reading.age + 3] = heads[reading.age + 2]
          BY <2>1, <4>2, <4>3
        <4>5. older \in [head : Int, age : Int] /\ older.head = reading.head /\ older.age = reading.age + 1
          BY <4>1
        <4>6. older.age \in 0..HeadMaxAge /\ older.age + 2 = reading.age + 3
          BY <4>2, <4>3, <4>5
        <4> QED
          BY <4>2, <4>4, <4>5, <4>6 DEF ReadingIsRecent
      <3> QED
        BY <3>1, <3>2
    <2> DEFINE Aged(r) == [room \in Rooms |-> Older(replica[r].seen[room])]
               Next(r) == [replica[r] EXCEPT !.seen = Aged(r)]
    <2>5. replica' = [r \in Replicas |-> Next(r)]
      BY <1>8 DEF TimePasses
    <2>6. ASSUME NEW r \in Replicas
          PROVE  /\ Next(r) \in ReplicaRecord
                 /\ Next(r).seen = Aged(r)
                 /\ \A room \in Rooms : ReadingIsRecent(Aged(r)[room], heads')
      <3>1. replica[r] \in ReplicaRecord
        BY <1>0 DEF ReplicaTypes
      <3>2. \A room \in Rooms : replica[r].seen[room] \in [head : Int, age : Int]
                                /\ ReadingIsRecent(replica[r].seen[room], heads)
        BY <1>0, <3>1 DEF ReplicaRecord, ReadingsAreRecent
      <3>3. \A room \in Rooms : /\ Older(replica[r].seen[room]) \in [head : Int, age : Int]
                                /\ ReadingIsRecent(Older(replica[r].seen[room]), heads')
        BY <2>4, <3>2
      <3>4. Aged(r) \in [Rooms -> [head : Int, age : Int]]
        BY <3>3
      <3>5. \A room \in Rooms : Aged(r)[room] = Older(replica[r].seen[room])
        OBVIOUS
      <3> HIDE DEF Aged
      <3>6. Next(r) \in ReplicaRecord /\ Next(r).seen = Aged(r)
        BY <3>1, <3>4 DEF ReplicaRecord
      <3> HIDE DEF Next
      <3> QED
        BY <3>3, <3>5, <3>6
    <2> HIDE DEF Next, Aged
    <2>7. replica' \in [Replicas -> ReplicaRecord]
      BY <2>5, <2>6
    <2>8. \A r \in Replicas, room \in Rooms : ReadingIsRecent(replica'[r].seen[room], heads')
      BY <2>5, <2>6
    <2> QED
      BY <2>2, <2>3, <2>7, <2>8 DEF ReplicasInv, ReplicaTypes, ReadingsAreRecent
  <1>9. CASE UNCHANGED replicaVars
    BY <1>9 DEF ReplicasInv, ReplicaTypes, HeadsInOrder, ReadingsAreRecent, ReadingIsRecent, replicaVars
  <1> QED
    BY <1>1, <1>2, <1>3, <1>4, <1>5, <1>6, <1>7, <1>8, <1>9 DEF ReplicasNext, ReplicaStep

LEMMA ReplicasInvariant == ReplicasSpec => []ReplicasInv
  <1> QED
    BY ReplicasStart, ReplicasStep, PTL DEF ReplicasSpec

\* A replica that says "current" is as current as that, for any number of replicas and rooms,
\* any lease and any horizons: the invariant is that a reading still counted says no less than
\* the head did when the tick before it began, so that no figure is needed of the lease, nor of
\* the pass that is under way (observeChainHead, indexerHealth).
THEOREM CurrentKept == ReplicasSpec => []CurrentMeansCurrent
  <1>1. ReplicasInv => CurrentMeansCurrent
    <2> SUFFICES ASSUME ReplicasInv, NEW r \in Replicas, NEW room \in Rooms,
                        IndexerHealth(r, room) = "current"
                 PROVE  replica[r].cursor + StaleAfter >= heads[HeadMaxAge + 2]
      BY DEF CurrentMeansCurrent
    <2> DEFINE reading == replica[r].seen[room]
    <2>1. /\ reading # NotRead /\ ~(reading.head - replica[r].cursor > StaleAfter)
          /\ reading \in [head : Int, age : Int] /\ replica[r].cursor \in Nat
          /\ heads \in [Ages -> Nat]
      BY DEF IndexerHealth, ReplicasInv, ReplicaTypes, ReplicaRecord
    <2>2. reading.age \in 0..HeadMaxAge /\ reading.head >= heads[reading.age + 2]
      BY <2>1 DEF ReplicasInv, ReadingsAreRecent, ReadingIsRecent
    <2>3. heads[HeadMaxAge + 2] <= heads[reading.age + 2]
      BY <2>2, ReplicasAssumption DEF ReplicasInv, HeadsInOrder, Ages
    <2>4. HeadMaxAge + 2 \in Ages /\ reading.age + 2 \in Ages
      BY <2>2, ReplicasAssumption DEF Ages
    <2>5. heads[HeadMaxAge + 2] \in Nat /\ heads[reading.age + 2] \in Nat /\ reading.head \in Int /\ StaleAfter \in Nat
      BY <2>1, <2>4, ReplicasAssumption
    <2> HIDE DEF reading
    <2> QED
      BY <2>1, <2>2, <2>3, <2>5
  <1> QED
    BY <1>1, ReplicasInvariant, PTL

-------------------------------------------------------------------------------
(* TradeFlow. *)

Accounts == Wallets \union {NoWallet}
Prices == [market : Questions, n : Nat] \union {NoPrice}
ReadingRecord ==
    [market : Questions, account : Accounts, price : Prices, open : BOOLEAN, contested : BOOLEAN]
ReadRecord ==
    [market : Questions, account : Accounts, order : 0..MaxOrders, answer : ReadingRecord \union {NotShown}]
OrderRecord ==
    [pc : {"allowance", "approve", "call", "confirm", "failed", "refresh", "register", "unregistered", "done"},
     kind : OrderKinds, market : Questions, account : Accounts, seen : Prices, minimum : Prices,
     tx : [call : {"none", "approve", "call"}, status : {"none", "pending", "success", "reverted", "cancelled", "replaced"}]]
LandingRecord ==
    [order : Orders, kind : OrderKinds, market : Questions, account : Accounts, minimum : Prices]
SheetRecord == [kind : OrderKinds, order : 0..MaxOrders] \union {NoSheet}

ChainTypes ==
    chain \in [price : [Questions -> Nat], open : [Questions -> BOOLEAN],
               allowance : [Wallets -> [Questions -> Int]],
               landed : SUBSET LandingRecord, challenged : SUBSET Questions]
PageTypes ==
    page \in [question : Questions, account : Accounts, shown : ReadingRecord \union {NotShown}, sheet : SheetRecord]
OrderTypes == orders \in [Orders -> OrderRecord \union {Unused}]
TradeTypes == ChainTypes /\ PageTypes /\ OrderTypes /\ reads \in SUBSET ReadRecord

\* A snapshot is of the market it is shown, or was asked, for, and so is its price.
ReadingIsOf(reading, market) == reading # NotShown => reading.market = market /\ reading.price.market = market
ShownIsOurs == ReadingIsOf(page.shown, page.question)
AnswersAreTheirs == \A r \in reads : ReadingIsOf(r.answer, r.market)

HasLanded(o) == \E landing \in chain.landed : landing.order = o
\* Where the page takes the call for done.
Reported == {"refresh", "register", "unregistered", "done"}
\* What is quoted is what the reader saw.  What is reported, and what has a receipt, is on chain,
\* though neither follows from the other: a sheet gives up waiting for a call that may yet land.
OrderSound(o) ==
    InState(o, "unused") \/
    /\ Quoted(orders[o].kind) => orders[o].market = orders[o].seen.market /\ orders[o].minimum = orders[o].seen
    /\ orders[o].pc \in Reported => HasLanded(o)
    /\ orders[o].tx.call = "call" /\ orders[o].tx.status = "success" => HasLanded(o)
    /\ InState(o, "done") /\ orders[o].kind = "challenge" => o \in evidence
OrdersSound == \A o \in Orders : OrderSound(o)
\* Only an order that has landed waits for a snapshot.
ReadsSound == \A r \in reads : r.order # 0 => orders[r.order].pc \in Reported
LandingOf(o) ==
    [order |-> o, kind |-> orders[o].kind, market |-> orders[o].market, account |-> orders[o].account,
     minimum |-> orders[o].minimum]
LandingsSound == \A landing \in chain.landed : ~InState(landing.order, "unused") /\ landing = LandingOf(landing.order)

TradeInv == TradeTypes /\ ShownIsOurs /\ AnswersAreTheirs /\ OrdersSound /\ ReadsSound /\ LandingsSound

LEMMA TradeStart == TradeInit => TradeInv
  <1> SUFFICES ASSUME TradeInit PROVE TradeInv
    OBVIOUS
  <1> DEFINE market == CHOOSE m \in Questions : TRUE
  <1>1. market \in Questions
    BY TradeFlowAssumption
  <1> HIDE DEF market
  <1>2. page = [question |-> market, account |-> NoWallet, shown |-> NotShown, sheet |-> NoSheet]
        /\ reads = {Asked(market, NoWallet, 0)}
    BY DEF TradeInit, market
  <1>3. TradeTypes
    BY <1>1, <1>2, TradeFlowAssumption
       DEF TradeInit, TradeTypes, ChainTypes, PageTypes, OrderTypes, ReadRecord, Accounts, SheetRecord, Asked
  <1>4. ShownIsOurs /\ AnswersAreTheirs /\ ReadsSound
    BY <1>2 DEF ShownIsOurs, AnswersAreTheirs, ReadsSound, ReadingIsOf, Asked
  <1>5. OrdersSound /\ LandingsSound
    BY DEF TradeInit, OrdersSound, OrderSound, LandingsSound, InState, Unused
  <1> QED
    BY <1>3, <1>4, <1>5 DEF TradeInv

\* The next order is the first that was not used.
LEMMA NextIsUnused ==
    ASSUME NEW o \in Orders, InState(o, "unused")
    PROVE  NextOrder \in Orders /\ InState(NextOrder, "unused")
  <1> DEFINE T == {p \in Orders : InState(p, "unused")}
  <1>1. T \subseteq Nat /\ T # {}
    BY DEF Orders
  <1>2. PICK first \in T : \A p \in T : first <= p
    BY <1>1, LeastNat
  <1>3. \A p \in 1..(first - 1) : ~InState(p, "unused")
    BY <1>2, TradeFlowAssumption DEF Orders
  <1> QED
    BY <1>2, <1>3 DEF NextOrder

\* An order that goes on, and lands perhaps: what it is does not change.
LEMMA OrderGoesOn ==
    ASSUME TradeInv, NEW o \in Orders, ~InState(o, "unused"), NEW next \in OrderRecord,
           orders' = [orders EXCEPT ![o] = next],
           next.kind = orders[o].kind, next.market = orders[o].market, next.account = orders[o].account,
           next.seen = orders[o].seen, next.minimum = orders[o].minimum,
           chain'.landed \in {chain.landed, chain.landed \union {LandingOf(o)}},
           evidence \subseteq evidence',
           next.pc \in Reported => HasLanded(o)',
           next.tx.call = "call" /\ next.tx.status = "success" => HasLanded(o)',
           next.pc = "done" /\ next.kind = "challenge" => o \in evidence',
           orders[o].pc \in Reported => next.pc \in Reported
    PROVE  /\ OrderTypes' /\ OrdersSound' /\ LandingsSound'
           /\ \A p \in Orders : orders[p].pc \in Reported => orders'[p].pc \in Reported
  <1>1. OrderTypes /\ OrdersSound /\ LandingsSound /\ chain.landed \subseteq LandingRecord
    BY DEF TradeInv, TradeTypes, ChainTypes
  <1>2. OrderTypes'
    BY <1>1 DEF OrderTypes
  <1>3. orders'[o] = next /\ \A p \in Orders : p # o => orders'[p] = orders[p]
    BY <1>1 DEF OrderTypes
  <1>4. next.pc # "unused"
    BY DEF OrderRecord
  <1>5. \A p \in Orders : HasLanded(p) => HasLanded(p)'
    BY DEF HasLanded
  <1>6. ASSUME NEW p \in Orders
        PROVE  OrderSound(p)'
    <2>1. CASE p = o
      <3>1. Quoted(next.kind) => next.market = next.seen.market /\ next.minimum = next.seen
        BY <1>1 DEF OrdersSound, OrderSound
      <3> QED
        BY <1>3, <2>1, <3>1 DEF OrderSound, InState
    <2>2. CASE p # o
      <3>1. OrderSound(p) /\ orders'[p] = orders[p]
        BY <1>1, <1>3, <2>2 DEF OrdersSound
      <3> QED
        BY <1>5, <3>1 DEF OrderSound, InState
    <2> QED
      BY <2>1, <2>2
  <1>7. ASSUME NEW p \in Orders, ~InState(p, "unused")
        PROVE  ~InState(p, "unused")' /\ \A l : l = LandingOf(p) => l = LandingOf(p)'
    <2>1. CASE p = o
      BY <1>3, <1>4, <2>1 DEF InState, LandingOf
    <2>2. CASE p # o
      BY <1>3, <1>7, <2>2 DEF InState, LandingOf
    <2> QED
      BY <2>1, <2>2
  <1>8. LandingsSound'
    <2> SUFFICES ASSUME NEW landing \in chain'.landed
                 PROVE  ~InState(landing.order, "unused")' /\ landing = LandingOf(landing.order)'
      BY DEF LandingsSound
    <2>1. CASE landing \in chain.landed
      <3>1. landing.order \in Orders /\ ~InState(landing.order, "unused") /\ landing = LandingOf(landing.order)
        BY <1>1, <2>1 DEF LandingsSound, LandingRecord
      <3> QED
        BY <1>7, <3>1
    <2>2. CASE landing = LandingOf(o)
      <3>1. landing.order = o
        BY <2>2 DEF LandingOf
      <3> QED
        BY <1>7, <2>2, <3>1
    <2> QED
      BY <2>1, <2>2
  <1> QED
    BY <1>2, <1>3, <1>6, <1>8 DEF OrdersSound

\* An order that goes on while nothing lands.
LEMMA OrderMoves ==
    ASSUME TradeInv, NEW o \in Orders, ~InState(o, "unused"), NEW next \in OrderRecord,
           orders' = [orders EXCEPT ![o] = next],
           next.kind = orders[o].kind, next.market = orders[o].market, next.account = orders[o].account,
           next.seen = orders[o].seen, next.minimum = orders[o].minimum,
           chain' = chain, evidence \subseteq evidence', page' = page, reads' = reads,
           next.pc \in Reported => HasLanded(o),
           next.tx.call = "call" /\ next.tx.status = "success" => HasLanded(o),
           next.pc = "done" /\ next.kind = "challenge" => o \in evidence',
           orders[o].pc \in Reported => next.pc \in Reported
    PROVE  TradeInv'
  <1>1. HasLanded(o) => HasLanded(o)'
    BY DEF HasLanded
  <1>2. /\ OrderTypes' /\ OrdersSound' /\ LandingsSound'
        /\ \A p \in Orders : orders[p].pc \in Reported => orders'[p].pc \in Reported
    BY <1>1, OrderGoesOn
  <1>3. TradeTypes'
    BY <1>2 DEF TradeInv, TradeTypes, ChainTypes, PageTypes
  <1>4. ReadsSound'
    BY <1>2 DEF TradeInv, TradeTypes, ReadRecord, ReadsSound, Orders
  <1> QED
    BY <1>2, <1>3, <1>4 DEF TradeInv, ShownIsOurs, AnswersAreTheirs

\* The page and its reads go on while the orders stay.
LEMMA PageMoves ==
    ASSUME TradeInv, orders' = orders, chain' = chain, evidence' = evidence, PageTypes', ShownIsOurs',
           \A r \in reads' :
               r \in reads \/ /\ r \in ReadRecord /\ ReadingIsOf(r.answer, r.market)
                              /\ r.order # 0 => orders[r.order].pc \in Reported
    PROVE  TradeInv'
  <1>1. TradeTypes'
    BY DEF TradeInv, TradeTypes, ChainTypes, OrderTypes
  <1>2. AnswersAreTheirs' /\ ReadsSound'
    BY DEF TradeInv, AnswersAreTheirs, ReadsSound
  <1>3. OrdersSound' /\ LandingsSound'
    BY DEF TradeInv, OrdersSound, OrderSound, LandingsSound, LandingOf, HasLanded, InState
  <1> QED
    BY <1>1, <1>2, <1>3 DEF TradeInv

\* A snapshot that an order waited for, and that is gone from the reads.
LEMMA ReadEnds ==
    ASSUME TradeInv, NEW r \in reads, orders' = WasFor(r.order), reads' = reads \ {r},
           chain' = chain, evidence' = evidence, PageTypes', ShownIsOurs'
    PROVE  TradeInv'
  <1>1. CASE r.order = 0
    BY <1>1, PageMoves DEF WasFor
  <1>2. CASE r.order # 0
    <2> DEFINE o == r.order
               pc == IF orders[o].kind = "challenge" THEN "register" ELSE "done"
               next == [orders[o] EXCEPT !.pc = pc]
    <2>1. o \in Orders /\ orders[o].pc \in Reported
      BY <1>2, TradeFlowAssumption DEF TradeInv, TradeTypes, ReadRecord, ReadsSound, Orders
    <2>2. orders[o] \in OrderRecord /\ ~InState(o, "unused")
      BY <2>1 DEF TradeInv, TradeTypes, OrderTypes, Reported, Unused, InState
    <2>3. orders' = [orders EXCEPT ![o] = next]
      BY <1>2, <2>1 DEF WasFor, Moved, TradeInv, TradeTypes, OrderTypes
    <2>4. pc \in {"register", "done"} /\ (pc = "done" => orders[o].kind # "challenge")
      OBVIOUS
    <2> HIDE DEF pc
    <2>5. /\ next \in OrderRecord /\ next.pc = pc /\ next.kind = orders[o].kind /\ next.market = orders[o].market
          /\ next.account = orders[o].account /\ next.seen = orders[o].seen /\ next.minimum = orders[o].minimum
          /\ next.tx = orders[o].tx
      BY <2>2, <2>4 DEF OrderRecord
    <2>6. pc \in Reported /\ HasLanded(o) /\ HasLanded(o)'
      BY <2>1, <2>2, <2>4 DEF TradeInv, OrdersSound, OrderSound, Reported, HasLanded
    <2> HIDE DEF next, o
    <2>7. /\ OrderTypes' /\ OrdersSound' /\ LandingsSound'
          /\ \A p \in Orders : orders[p].pc \in Reported => orders'[p].pc \in Reported
      BY <2>1, <2>2, <2>3, <2>4, <2>5, <2>6, OrderGoesOn
    <2>8. TradeTypes'
      BY <2>7 DEF TradeInv, TradeTypes, ChainTypes
    <2>9. ReadsSound' /\ AnswersAreTheirs'
      BY <2>7, TradeFlowAssumption DEF TradeInv, TradeTypes, ReadRecord, ReadsSound, AnswersAreTheirs, Orders
    <2> QED
      BY <2>7, <2>8, <2>9 DEF TradeInv
  <1> QED
    BY <1>1, <1>2

\* The steps of the page and of its reads.
LEMMA ReadingStep ==
    ASSUME TradeInv,
           ReadServed \/ ReadArrives \/ ReadFails \/ AsksAgain \/ (\E m \in Questions : SelectMarket(m))
               \/ (\E a \in Wallets \union {NoWallet} : AccountChanges(a)) \/ OpenSheet \/ CloseSheet
    PROVE  TradeInv'
  <1> DEFINE Shown == ReadingRecord \union {NotShown}
  <1>0. /\ page \in [question : Questions, account : Accounts, shown : Shown, sheet : SheetRecord]
        /\ PageTypes /\ ChainTypes /\ reads \in SUBSET ReadRecord /\ ShownIsOurs /\ AnswersAreTheirs /\ ReadsSound
    BY DEF TradeInv, TradeTypes, PageTypes
  <1>1. ASSUME NEW market \in Questions, NEW account \in Accounts, NEW o \in 0..MaxOrders
        PROVE  /\ Asked(market, account, o) \in ReadRecord
               /\ ReadingIsOf(Asked(market, account, o).answer, market)
               /\ Asked(market, account, o).order = o /\ Asked(market, account, o).market = market
    BY DEF Asked, ReadRecord, ReadingIsOf
  <1>2. ASSUME NEW market \in Questions, NEW account \in Accounts
        PROVE  Reading(market, account) \in ReadingRecord /\ ReadingIsOf(Reading(market, account), market)
    <2>1. chain.price[market] \in Nat /\ chain.open[market] \in BOOLEAN
      BY <1>0 DEF ChainTypes
    <2>2. [market |-> market, n |-> chain.price[market]] \in Prices
      BY <2>1 DEF Prices
    <2> QED
      BY <2>1, <2>2 DEF Reading, ReadingRecord, ReadingIsOf
  <1>3. CASE ReadServed
    <2> PICK r \in reads : r.answer = NotShown
                           /\ reads' = (reads \ {r}) \union {[r EXCEPT !.answer = Reading(r.market, r.account)]}
      BY <1>3 DEF ReadServed
    <2> DEFINE answer == Reading(r.market, r.account)
               next == [r EXCEPT !.answer = answer]
    <2>1. r \in ReadRecord
      BY <1>0
    <2>2. answer \in ReadingRecord /\ ReadingIsOf(answer, r.market)
      BY <1>2, <2>1 DEF ReadRecord
    <2> HIDE DEF answer
    <2>3. next \in ReadRecord /\ next.answer = answer /\ next.market = r.market /\ next.order = r.order
      BY <2>1, <2>2 DEF ReadRecord
    <2>4. \A q \in reads' : q \in reads \/ q = next
      BY DEF answer
    <2> HIDE DEF next
    <2>5. PageTypes' /\ ShownIsOurs'
      BY <1>0, <1>3 DEF ReadServed, PageTypes, ShownIsOurs
    <2>6. next.order # 0 => orders[next.order].pc \in Reported
      BY <1>0, <2>3 DEF ReadsSound
    <2> QED
      BY <1>3, <2>2, <2>3, <2>4, <2>5, <2>6, PageMoves DEF ReadServed
  <1>4. CASE ReadArrives
    <2> PICK r \in reads : /\ r.answer # NotShown
                           /\ page' = IF OfTheQuestion(r.market) THEN [page EXCEPT !.shown = r.answer] ELSE page
                           /\ orders' = WasFor(r.order)
                           /\ reads' = reads \ {r}
      BY <1>4 DEF ReadArrives
    <2>1. r.answer \in Shown /\ ReadingIsOf(r.answer, r.market)
      BY <1>0 DEF ReadRecord, AnswersAreTheirs
    <2>2. PageTypes' /\ ShownIsOurs'
      <3>1. CASE r.market = page.question
        <4>1. page' = [page EXCEPT !.shown = r.answer]
          BY <3>1 DEF OfTheQuestion
        <4>2. page'.shown = r.answer /\ page'.question = page.question /\ PageTypes'
          BY <1>0, <2>1, <4>1 DEF PageTypes
        <4> QED
          BY <2>1, <3>1, <4>2 DEF ShownIsOurs
      <3>2. CASE r.market # page.question
        BY <1>0, <3>2 DEF OfTheQuestion, PageTypes, ShownIsOurs
      <3> QED
        BY <3>1, <3>2
    <2> QED
      BY <1>4, <2>2, ReadEnds DEF ReadArrives
  <1>5. CASE ReadFails
    <2>1. PageTypes' /\ ShownIsOurs'
      BY <1>0, <1>5 DEF ReadFails, PageTypes, ShownIsOurs
    <2> QED
      BY <1>5, <2>1, ReadEnds DEF ReadFails
  <1>6. CASE AsksAgain
    <2>1. PageTypes' /\ ShownIsOurs'
      BY <1>0, <1>6 DEF AsksAgain, PageTypes, ShownIsOurs
    <2>2. page.question \in Questions /\ page.account \in Accounts /\ 0 \in 0..MaxOrders
      BY <1>0, TradeFlowAssumption
    <2> QED
      BY <1>1, <1>6, <2>1, <2>2, PageMoves DEF AsksAgain, Refreshes
  <1>7. ASSUME NEW m \in Questions, SelectMarket(m)
        PROVE  TradeInv'
    <2>1. page' = [page EXCEPT !.question = m, !.shown = NotShown]
      BY <1>7 DEF SelectMarket
    <2>2. page'.shown = NotShown /\ PageTypes'
      BY <1>0, <2>1 DEF PageTypes
    <2>3. ShownIsOurs'
      BY <2>2 DEF ShownIsOurs, ReadingIsOf
    <2>4. page.account \in Accounts /\ 0 \in 0..MaxOrders
      BY <1>0, TradeFlowAssumption
    <2>5. /\ reads' = reads \union {Asked(m, page.account, 0)}
          /\ orders' = orders /\ chain' = chain /\ evidence' = evidence
      BY <1>7 DEF SelectMarket, Refreshes
    <2> QED
      BY <1>1, <2>2, <2>3, <2>4, <2>5, PageMoves
  <1>8. ASSUME NEW a \in Accounts, AccountChanges(a)
        PROVE  TradeInv'
    <2>1. page' = [page EXCEPT !.account = a]
      BY <1>8 DEF AccountChanges
    <2>2. page'.shown = page.shown /\ page'.question = page.question /\ PageTypes'
      BY <1>0, <2>1 DEF PageTypes
    <2>3. ShownIsOurs'
      BY <1>0, <2>2 DEF ShownIsOurs
    <2>4. page.question \in Questions /\ 0 \in 0..MaxOrders
      BY <1>0, TradeFlowAssumption
    <2> QED
      BY <1>1, <1>8, <2>2, <2>3, <2>4, PageMoves DEF AccountChanges, Refreshes
  <1>9. CASE OpenSheet \/ CloseSheet
    <2>1. PICK sheet \in SheetRecord : page' = [page EXCEPT !.sheet = sheet]
      <3>1. CASE OpenSheet
        <4>1. PICK kind \in OrderKinds : page' = [page EXCEPT !.sheet = [kind |-> kind, order |-> 0]]
          BY <3>1 DEF OpenSheet
        <4>2. [kind |-> kind, order |-> 0] \in SheetRecord
          BY TradeFlowAssumption DEF SheetRecord
        <4> QED
          BY <4>1, <4>2
      <3>2. CASE CloseSheet
        BY <3>2 DEF CloseSheet, SheetRecord
      <3> QED
        BY <1>9, <3>1, <3>2
    <2>2. page'.shown = page.shown /\ page'.question = page.question /\ PageTypes'
      BY <1>0, <2>1 DEF PageTypes
    <2>3. ShownIsOurs'
      BY <1>0, <2>2 DEF ShownIsOurs
    <2> QED
      BY <1>9, <2>2, <2>3, PageMoves DEF OpenSheet, CloseSheet
  <1> QED
    BY <1>3, <1>4, <1>5, <1>6, <1>7, <1>8, <1>9 DEF Accounts

\* The steps of an order on its way, other than its landing and the page's news of it.
LEMMA SendingStep ==
    ASSUME TradeInv, AllowanceRead \/ WalletSigns \/ WalletRefuses \/ ReplacedInWallet \/ ReceiptLost \/ EvidenceSent
    PROVE  TradeInv'
  <1>0. \A o \in Orders : ~InState(o, "unused") => orders[o] \in OrderRecord /\ OrderSound(o)
    BY DEF TradeInv, TradeTypes, OrderTypes, OrdersSound, InState, Unused
  <1>1. ASSUME NEW o \in Orders, NEW pc \in {"call", "approve", "failed"}, ~InState(o, "unused"),
               orders[o].pc \notin Reported, orders' = [orders EXCEPT ![o].pc = pc],
               chain' = chain, evidence' = evidence, page' = page, reads' = reads
        PROVE  TradeInv'
    <2> DEFINE next == [orders[o] EXCEPT !.pc = pc]
    <2>1. orders[o] \in OrderRecord /\ OrderSound(o)
      BY <1>0, <1>1
    <2>2. orders' = [orders EXCEPT ![o] = next]
      BY <1>1
    <2>3. /\ next \in OrderRecord /\ next.pc = pc /\ next.kind = orders[o].kind /\ next.market = orders[o].market
          /\ next.account = orders[o].account /\ next.seen = orders[o].seen /\ next.minimum = orders[o].minimum
          /\ next.tx = orders[o].tx
      BY <2>1 DEF OrderRecord
    <2> HIDE DEF next
    <2>4. pc \notin Reported /\ pc # "done"
      BY DEF Reported
    <2>5. next.tx.call = "call" /\ next.tx.status = "success" => HasLanded(o)
      BY <1>1, <2>1, <2>3 DEF OrderSound
    <2> QED
      BY <1>1, <2>2, <2>3, <2>4, <2>5, OrderMoves
  <1>2. CASE AllowanceRead
    <2> PICK o \in Orders : /\ InState(o, "allowance")
                            /\ orders' = Moved(o, IF chain.allowance[orders[o].account][orders[o].market] >= 1
                                                  THEN "call" ELSE "approve")
      BY <1>2 DEF AllowanceRead
    <2>1. PICK pc \in {"call", "approve"} : orders' = [orders EXCEPT ![o].pc = pc]
      BY DEF Moved
    <2> QED
      BY <1>1, <1>2, <2>1 DEF AllowanceRead, InState, Reported
  <1>3. CASE WalletRefuses
    <2> PICK o \in Orders : orders[o].pc \in {"approve", "call"} /\ orders' = Moved(o, "failed")
      BY <1>3 DEF WalletRefuses
    <2> QED
      BY <1>1, <1>3 DEF WalletRefuses, InState, Reported, Moved
  <1>4. CASE ReceiptLost
    <2> PICK o \in Orders : InState(o, "confirm") /\ orders' = Moved(o, "failed")
      BY <1>4 DEF ReceiptLost
    <2> QED
      BY <1>1, <1>4 DEF ReceiptLost, InState, Reported, Moved
  <1>5. CASE WalletSigns
    <2> PICK o \in Orders : /\ orders[o].pc \in {"approve", "call"}
                            /\ orders' = [orders EXCEPT ![o].tx = [call |-> SignedFor(orders[o].pc), status |-> "pending"],
                                                        ![o].pc = "confirm"]
      BY <1>5 DEF WalletSigns
    <2> DEFINE tx == [call |-> SignedFor(orders[o].pc), status |-> "pending"]
               next == [orders[o] EXCEPT !.tx = tx, !.pc = "confirm"]
    <2>1. ~InState(o, "unused") /\ orders[o] \in OrderRecord /\ orders[o].pc \notin Reported
      BY <1>0 DEF InState, Reported
    <2>2. orders' = [orders EXCEPT ![o] = next]
      BY DEF TradeInv, TradeTypes, OrderTypes
    <2>3. /\ tx \in [call : {"none", "approve", "call"},
                     status : {"none", "pending", "success", "reverted", "cancelled", "replaced"}]
          /\ tx.status = "pending"
      BY DEF SignedFor
    <2> HIDE DEF tx
    <2>4. /\ next \in OrderRecord /\ next.pc = "confirm" /\ next.kind = orders[o].kind /\ next.market = orders[o].market
          /\ next.account = orders[o].account /\ next.seen = orders[o].seen /\ next.minimum = orders[o].minimum
          /\ next.tx = tx
      BY <2>1, <2>3 DEF OrderRecord
    <2> HIDE DEF next
    <2>5. chain' = chain /\ evidence' = evidence /\ page' = page /\ reads' = reads /\ next.pc \notin Reported
      BY <1>5, <2>4 DEF WalletSigns, Reported
    <2> QED
      BY <2>1, <2>2, <2>3, <2>4, <2>5, OrderMoves
  <1>6. CASE ReplacedInWallet
    <2> PICK o \in Orders, how \in {"cancelled", "replaced"} :
            /\ ~InState(o, "unused") /\ orders[o].tx.status = "pending"
            /\ orders' = [orders EXCEPT ![o].tx.status = how]
      BY <1>6 DEF ReplacedInWallet
    <2> DEFINE tx == [orders[o].tx EXCEPT !.status = how]
               next == [orders[o] EXCEPT !.tx = tx]
    <2>1. orders[o] \in OrderRecord /\ OrderSound(o)
      BY <1>0
    <2>2. orders' = [orders EXCEPT ![o] = next]
      BY DEF TradeInv, TradeTypes, OrderTypes
    <2>3. /\ tx \in [call : {"none", "approve", "call"},
                     status : {"none", "pending", "success", "reverted", "cancelled", "replaced"}]
          /\ tx.status # "success"
      BY <2>1 DEF OrderRecord
    <2> HIDE DEF tx
    <2>4. /\ next \in OrderRecord /\ next.pc = orders[o].pc /\ next.kind = orders[o].kind
          /\ next.market = orders[o].market /\ next.account = orders[o].account
          /\ next.seen = orders[o].seen /\ next.minimum = orders[o].minimum /\ next.tx = tx
      BY <2>1, <2>3 DEF OrderRecord
    <2> HIDE DEF next
    <2>5. chain' = chain /\ evidence' = evidence /\ page' = page /\ reads' = reads
      BY <1>6 DEF ReplacedInWallet
    <2>6. /\ next.pc \in Reported => HasLanded(o)
          /\ next.pc = "done" /\ next.kind = "challenge" => o \in evidence
      BY <2>1, <2>4 DEF OrderSound, InState
    <2> QED
      BY <2>1, <2>2, <2>3, <2>4, <2>5, <2>6, OrderMoves
  <1>7. CASE EvidenceSent
    <2> PICK o \in Orders, arrived \in BOOLEAN, answered \in BOOLEAN :
            /\ InState(o, "register") /\ (answered => arrived)
            /\ evidence' = IF arrived THEN evidence \union {o} ELSE evidence
            /\ orders' = Moved(o, IF answered THEN "done" ELSE "unregistered")
      BY <1>7 DEF EvidenceSent
    <2> DEFINE pc == IF answered THEN "done" ELSE "unregistered"
               next == [orders[o] EXCEPT !.pc = pc]
    <2>1. ~InState(o, "unused") /\ orders[o] \in OrderRecord /\ OrderSound(o) /\ HasLanded(o)
      BY <1>0 DEF InState, Reported, OrderSound
    <2>2. orders' = [orders EXCEPT ![o] = next]
      BY DEF Moved, TradeInv, TradeTypes, OrderTypes
    <2>3. pc \in {"done", "unregistered"} /\ (pc = "done" => o \in evidence') /\ evidence \subseteq evidence'
      OBVIOUS
    <2> HIDE DEF pc
    <2>4. /\ next \in OrderRecord /\ next.pc = pc /\ next.kind = orders[o].kind
          /\ next.market = orders[o].market /\ next.account = orders[o].account
          /\ next.seen = orders[o].seen /\ next.minimum = orders[o].minimum /\ next.tx = orders[o].tx
      BY <2>1, <2>3 DEF OrderRecord
    <2> HIDE DEF next
    <2>5. chain' = chain /\ page' = page /\ reads' = reads /\ pc \in Reported
      BY <1>7, <2>3 DEF EvidenceSent, Reported
    <2> QED
      BY <2>1, <2>2, <2>3, <2>4, <2>5, OrderMoves
  <1> QED
    BY <1>2, <1>3, <1>4, <1>5, <1>6, <1>7

\* A sheet is confirmed: an order of what it shows.
LEMMA ConfirmingStep == ASSUME TradeInv, SheetConfirms PROVE TradeInv'
  <1> DEFINE kind == page.sheet.kind
             market == Target(kind)
             o == NextOrder
             minimum == IF Quoted(kind) THEN SnapshotFor(market).price ELSE NoPrice
             order == [pc |-> IF Pays(kind) THEN "allowance" ELSE "call", kind |-> kind, market |-> market,
                       account |-> page.account, seen |-> page.shown.price, minimum |-> minimum, tx |-> Unsent]
  <1>0. /\ page \in [question : Questions, account : Accounts, shown : ReadingRecord \union {NotShown}, sheet : SheetRecord]
        /\ OrderTypes /\ OrdersSound /\ LandingsSound /\ ReadsSound /\ ShownIsOurs
        /\ chain.landed \subseteq LandingRecord /\ reads \subseteq ReadRecord
    BY DEF TradeInv, TradeTypes, PageTypes, ChainTypes
  <1>1. o \in Orders /\ InState(o, "unused")
    BY NextIsUnused DEF SheetConfirms
  <1>2. orders' = [orders EXCEPT ![o] = order] /\ page' = [page EXCEPT !.sheet.order = o]
    BY DEF SheetConfirms
  <1>3. /\ page.sheet # NoSheet /\ Confirmable(kind) /\ kind \in OrderKinds
        /\ page.sheet \in [kind : OrderKinds, order : 0..MaxOrders]
    BY <1>0 DEF SheetConfirms, SheetRecord
  <1>4. page.shown.price \in Prices
    BY <1>0 DEF ReadingRecord, NotShown, Prices
  <1>5. ASSUME Quoted(kind)
        PROVE  market \in Questions /\ minimum = page.shown.price /\ market = page.shown.price.market
    <2>1. page.shown # NotShown
      BY <1>3, <1>5 DEF Quoted, Confirmable, TradeSheet, SellSheet, LiquiditySheet, IsLiveSelection
    <2>2. page.shown \in ReadingRecord /\ page.shown.market = page.question /\ page.shown.price.market = page.question
      BY <1>0, <2>1 DEF ShownIsOurs, ReadingIsOf
    <2>3. market = page.question
      BY <2>2 DEF Target
    <2> QED
      BY <1>0, <1>5, <2>2, <2>3 DEF SnapshotFor
  <1>6. market \in Questions /\ minimum \in Prices
    <2>1. CASE Quoted(kind)
      BY <1>4, <1>5, <2>1
    <2>2. CASE ~Quoted(kind)
      BY <1>0, <2>2 DEF Quoted, Target, Prices
    <2> QED
      BY <2>1, <2>2
  <1>7. order \in OrderRecord
    <2>1. Unsent \in [call : {"none", "approve", "call"},
                      status : {"none", "pending", "success", "reverted", "cancelled", "replaced"}]
      BY DEF Unsent
    <2> HIDE DEF kind, market, minimum
    <2> QED
      BY <1>0, <1>3, <1>4, <1>6, <2>1 DEF OrderRecord
  <1>8. OrderTypes' /\ orders'[o] = order /\ \A p \in Orders : p # o => orders'[p] = orders[p]
    BY <1>0, <1>1, <1>2, <1>7 DEF OrderTypes
  <1>9. chain' = chain /\ evidence' = evidence /\ reads' = reads
    BY DEF SheetConfirms
  <1>10. OrdersSound'
    <2> SUFFICES ASSUME NEW p \in Orders PROVE OrderSound(p)'
      BY DEF OrdersSound
    <2>1. CASE p = o
      <3>1. /\ order.pc \in {"allowance", "call"} /\ order.kind = kind /\ order.market = market
            /\ order.seen = page.shown.price /\ order.minimum = minimum /\ order.tx.call = "none"
        BY DEF Unsent
      <3> HIDE DEF order, market, minimum
      <3> QED
        BY <1>5, <1>8, <2>1, <3>1 DEF OrderSound, InState, Reported
    <2>2. CASE p # o
      <3>1. OrderSound(p) /\ orders'[p] = orders[p]
        BY <1>0, <1>8, <2>2 DEF OrdersSound
      <3> QED
        BY <1>9, <3>1 DEF OrderSound, InState, HasLanded
    <2> QED
      BY <2>1, <2>2
  <1>11. LandingsSound'
    <2> SUFFICES ASSUME NEW landing \in chain.landed
                 PROVE  ~InState(landing.order, "unused")' /\ landing = LandingOf(landing.order)'
      BY <1>9 DEF LandingsSound
    <2>1. landing.order \in Orders /\ ~InState(landing.order, "unused") /\ landing = LandingOf(landing.order)
      BY <1>0 DEF LandingsSound, LandingRecord
    <2>2. orders'[landing.order] = orders[landing.order]
      BY <1>1, <1>8, <2>1
    <2> QED
      BY <2>1, <2>2 DEF LandingOf, InState
  <1>12. ReadsSound'
    <2> SUFFICES ASSUME NEW r \in reads, r.order # 0
                 PROVE  orders'[r.order].pc \in Reported
      BY <1>9 DEF ReadsSound
    <2>1. r.order \in Orders /\ orders[r.order].pc \in Reported
      BY <1>0, TradeFlowAssumption DEF ReadsSound, ReadRecord, Orders
    <2>2. r.order # o
      BY <1>1, <2>1 DEF InState, Reported
    <2> QED
      BY <1>8, <2>1, <2>2
  <1>13. PageTypes' /\ ShownIsOurs'
    <2> DEFINE sheet == [page.sheet EXCEPT !.order = o]
    <2>1. sheet \in SheetRecord
      BY <1>1, <1>3 DEF SheetRecord, Orders
    <2>2. page' = [page EXCEPT !.sheet = sheet]
      BY <1>0, <1>2
    <2> HIDE DEF sheet
    <2>3. page'.shown = page.shown /\ page'.question = page.question /\ PageTypes'
      BY <1>0, <2>1, <2>2 DEF PageTypes
    <2> QED
      BY <1>0, <2>3 DEF ShownIsOurs
  <1> QED
    BY <1>8, <1>9, <1>10, <1>11, <1>12, <1>13 DEF TradeInv, TradeTypes, ChainTypes, AnswersAreTheirs

\* One entry of the allowances is written.
LEMMA AllowanceSet ==
    ASSUME NEW f \in [Wallets -> [Questions -> Int]], NEW a, NEW m, NEW v, a \in Wallets => v \in Int
    PROVE  [f EXCEPT ![a] = [f[a] EXCEPT ![m] = v]] \in [Wallets -> [Questions -> Int]]
  <1>1. CASE a \in Wallets
    <2>1. [f[a] EXCEPT ![m] = v] \in [Questions -> Int]
      BY <1>1
    <2> QED
      BY <1>1, <2>1
  <1>2. CASE a \notin Wallets
    BY <1>2
  <1> QED
    BY <1>1, <1>2

\* A transaction is mined, and lands when it is a call the market takes.
LEMMA MiningStep == ASSUME TradeInv, Mined PROVE TradeInv'
  <1>1. PICK o \in Orders :
            LET order == orders[o]
                works == order.tx.call = "approve" \/ Takes(order)
            IN  /\ ~InState(o, "unused") /\ order.tx.status = "pending"
                /\ chain' = IF ~works THEN chain
                            ELSE IF order.tx.call = "approve" THEN AfterApproval(order) ELSE AfterCall(o, order)
                /\ orders' = [orders EXCEPT ![o].tx.status = IF works THEN "success" ELSE "reverted"]
    BY DEF Mined
  <1> DEFINE order == orders[o]
             works == order.tx.call = "approve" \/ Takes(order)
             status == IF works THEN "success" ELSE "reverted"
             tx == [order.tx EXCEPT !.status = status]
             next == [order EXCEPT !.tx = tx]
             Landed == chain.landed \union {LandingOf(o)}
  <1>2. order \in OrderRecord /\ OrderSound(o) /\ ~InState(o, "unused") /\ ChainTypes
    BY <1>1 DEF TradeInv, TradeTypes, OrderTypes, OrdersSound, InState, Unused
  <1>3. page' = page /\ reads' = reads /\ evidence' = evidence
    BY DEF Mined
  <1>4. orders' = [orders EXCEPT ![o] = next]
    BY <1>1 DEF TradeInv, TradeTypes, OrderTypes
  <1>5. LandingOf(o) \in LandingRecord
    BY <1>2 DEF LandingOf, LandingRecord, OrderRecord
  <1>6. /\ ChainTypes'
        /\ chain'.landed \in {chain.landed, Landed}
        /\ works /\ order.tx.call # "approve" => chain'.landed = Landed
    <2>1. CASE ~works
      <3>1. chain' = chain
        BY <1>1, <2>1
      <3> QED
        BY <1>2, <2>1, <3>1 DEF ChainTypes
    <2>2. CASE works /\ order.tx.call = "approve"
      <3>1. chain' = [chain EXCEPT !.allowance[order.account][order.market] = 1]
        BY <1>1, <2>2 DEF AfterApproval
      <3> DEFINE given == [chain.allowance EXCEPT ![order.account][order.market] = 1]
      <3>2. chain' = [chain EXCEPT !.allowance = given]
        BY <1>2, <3>1 DEF ChainTypes
      <3>3. given \in [Wallets -> [Questions -> Int]]
        <4>1. chain.allowance \in [Wallets -> [Questions -> Int]]
          BY <1>2 DEF ChainTypes
        <4> DEFINE now == 1
        <4>2. given = [chain.allowance EXCEPT ![order.account] = [chain.allowance[order.account] EXCEPT ![order.market] = now]]
          OBVIOUS
        <4>3. order.account \in Wallets => now \in Int
          OBVIOUS
        <4> HIDE DEF given, now
        <4> QED
          BY <4>1, <4>2, <4>3, AllowanceSet
      <3> HIDE DEF given
      <3>4. ChainTypes' /\ chain'.landed = chain.landed
        BY <1>2, <3>2, <3>3 DEF ChainTypes
      <3> QED
        BY <2>2, <3>4
    <2>3. CASE works /\ order.tx.call # "approve"
      <3> DEFINE challenged == IF order.kind = "challenge" THEN chain.challenged \union {order.market} ELSE chain.challenged
                 left == [chain.allowance EXCEPT ![order.account][order.market] = IF Pays(order.kind) THEN @ - 1 ELSE @]
      <3>1. chain' = AfterCall(o, order)
        BY <1>1, <2>3
      <3>2. chain' = [chain EXCEPT !.landed = Landed, !.challenged = challenged, !.allowance = left]
        BY <1>2, <3>1 DEF AfterCall, LandingOf, ChainTypes
      <3>3. left \in [Wallets -> [Questions -> Int]]
        <4> DEFINE was == chain.allowance[order.account][order.market]
                   now == IF Pays(order.kind) THEN was - 1 ELSE was
        <4>1. chain.allowance \in [Wallets -> [Questions -> Int]] /\ order.market \in Questions
          BY <1>2 DEF ChainTypes, OrderRecord
        <4>2. order.account \in Wallets => now \in Int
          BY <4>1
        <4>3. left = [chain.allowance EXCEPT ![order.account] = [chain.allowance[order.account] EXCEPT ![order.market] = now]]
          OBVIOUS
        <4> HIDE DEF now, left
        <4> QED
          BY <4>1, <4>2, <4>3, AllowanceSet
      <3>4. challenged \in SUBSET Questions /\ Landed \in SUBSET LandingRecord
        BY <1>2, <1>5 DEF ChainTypes, OrderRecord
      <3> HIDE DEF left, challenged, Landed
      <3>5. ChainTypes' /\ chain'.landed = Landed
        BY <1>2, <3>2, <3>3, <3>4 DEF ChainTypes
      <3> QED
        BY <3>5
    <2> QED
      BY <2>1, <2>2, <2>3
  <1>7. LandingOf(o).order = o
    BY DEF LandingOf
  <1>8. /\ tx \in [call : {"none", "approve", "call"},
                   status : {"none", "pending", "success", "reverted", "cancelled", "replaced"}]
        /\ tx.call = order.tx.call /\ tx.status = status
    BY <1>2 DEF OrderRecord
  <1> HIDE DEF tx
  <1>9. /\ next \in OrderRecord /\ next.pc = order.pc /\ next.kind = order.kind /\ next.market = order.market
        /\ next.account = order.account /\ next.seen = order.seen /\ next.minimum = order.minimum /\ next.tx = tx
    BY <1>2, <1>8 DEF OrderRecord
  <1> HIDE DEF next
  <1>10. HasLanded(o) => HasLanded(o)'
    BY <1>6 DEF HasLanded
  <1>11. next.tx.call = "call" /\ next.tx.status = "success" => HasLanded(o)'
    BY <1>6, <1>7, <1>8, <1>9 DEF HasLanded
  <1>12. /\ next.pc \in Reported => HasLanded(o)'
         /\ next.pc = "done" /\ next.kind = "challenge" => o \in evidence'
    BY <1>2, <1>3, <1>9, <1>10 DEF OrderSound, InState
  <1> HIDE DEF works
  <1>13. /\ OrderTypes' /\ OrdersSound' /\ LandingsSound'
         /\ \A p \in Orders : orders[p].pc \in Reported => orders'[p].pc \in Reported
    BY <1>2, <1>3, <1>4, <1>6, <1>9, <1>11, <1>12, OrderGoesOn
  <1>14. ReadsSound'
    BY <1>3, <1>13, TradeFlowAssumption DEF TradeInv, TradeTypes, ReadRecord, ReadsSound, Orders
  <1> QED
    BY <1>3, <1>6, <1>13, <1>14 DEF TradeInv, TradeTypes, PageTypes, ShownIsOurs, AnswersAreTheirs

\* The page learns of a receipt, and asks for a snapshot when the call has landed.
LEMMA ReceiptStep == ASSUME TradeInv, ReceiptArrives PROVE TradeInv'
  <1>1. PICK o \in Orders :
            LET order == orders[o]
                called == Confirmed(order.tx) /\ order.tx.call = "call"
            IN  /\ InState(o, "confirm") /\ order.tx.status # "pending"
                /\ orders' = Moved(o, IF ~Confirmed(order.tx) THEN "failed" ELSE IF called THEN "refresh" ELSE "call")
                /\ reads' = IF called THEN Refreshes(order.market, order.account, o) ELSE reads
    BY DEF ReceiptArrives
  <1> DEFINE order == orders[o]
             called == Confirmed(order.tx) /\ order.tx.call = "call"
             pc == IF ~Confirmed(order.tx) THEN "failed" ELSE IF called THEN "refresh" ELSE "call"
             next == [order EXCEPT !.pc = pc]
  <1>2. order \in OrderRecord /\ OrderSound(o) /\ ~InState(o, "unused") /\ order.pc \notin Reported
    BY <1>1 DEF TradeInv, TradeTypes, OrderTypes, OrdersSound, InState, Unused, Reported
  <1>3. page' = page /\ evidence' = evidence /\ chain' = chain
    BY DEF ReceiptArrives
  <1>4. orders' = [orders EXCEPT ![o] = next]
    BY <1>1 DEF Moved, TradeInv, TradeTypes, OrderTypes
  <1>5. called => HasLanded(o)
    BY <1>2 DEF OrderSound, Confirmed
  <1>6. pc \in {"failed", "refresh", "call"} /\ (pc = "refresh" <=> called)
    OBVIOUS
  <1> HIDE DEF pc
  <1>7. /\ next \in OrderRecord /\ next.pc = pc /\ next.kind = order.kind /\ next.market = order.market
        /\ next.account = order.account /\ next.seen = order.seen /\ next.minimum = order.minimum /\ next.tx = order.tx
    BY <1>2, <1>6 DEF OrderRecord
  <1>8. HasLanded(o) => HasLanded(o)'
    BY <1>3 DEF HasLanded
  <1>9. /\ next.pc \in Reported => HasLanded(o)'
        /\ next.pc # "done"
        /\ next.tx.call = "call" /\ next.tx.status = "success" => HasLanded(o)'
    BY <1>2, <1>5, <1>6, <1>7, <1>8 DEF OrderSound, Reported
  <1> HIDE DEF next
  <1>10. /\ OrderTypes' /\ OrdersSound' /\ LandingsSound'
         /\ \A p \in Orders : orders[p].pc \in Reported => orders'[p].pc \in Reported
    BY <1>2, <1>3, <1>4, <1>7, <1>9, OrderGoesOn
  <1> DEFINE new == Asked(order.market, order.account, o)
  <1>11. /\ new \in ReadRecord /\ ReadingIsOf(new.answer, new.market) /\ new.order = o
    BY <1>2, TradeFlowAssumption DEF Asked, ReadRecord, ReadingIsOf, OrderRecord, Orders
  <1>12. reads' = IF called THEN reads \union {new} ELSE reads
    BY <1>1 DEF Refreshes
  <1>13. called => orders'[o].pc \in Reported
    BY <1>4, <1>6, <1>7 DEF TradeInv, TradeTypes, OrderTypes, Reported
  <1> HIDE DEF new, called
  <1>14. TradeTypes'
    BY <1>3, <1>10, <1>11, <1>12 DEF TradeInv, TradeTypes, ChainTypes, PageTypes
  <1>15. AnswersAreTheirs'
    BY <1>11, <1>12 DEF TradeInv, AnswersAreTheirs
  <1>16. ReadsSound'
    <2> SUFFICES ASSUME NEW r \in reads', r.order # 0
                 PROVE  orders'[r.order].pc \in Reported
      BY DEF ReadsSound
    <2>1. CASE r \in reads
      <3>1. r.order \in Orders /\ orders[r.order].pc \in Reported
        BY <2>1, TradeFlowAssumption DEF TradeInv, TradeTypes, ReadRecord, ReadsSound, Orders
      <3> QED
        BY <1>10, <3>1
    <2>2. CASE called /\ r = new
      BY <1>11, <1>13, <2>2
    <2> QED
      BY <1>12, <2>1, <2>2
  <1> QED
    BY <1>3, <1>10, <1>14, <1>15, <1>16 DEF TradeInv, ShownIsOurs

LEMMA TradeStep == TradeInv /\ [TradeNext]_tradeVars => TradeInv'
  <1> SUFFICES ASSUME TradeInv, [TradeNext]_tradeVars
               PROVE  TradeInv'
    OBVIOUS
  <1>1. ASSUME ChainTypes', chain'.landed = chain.landed, UNCHANGED <<page, reads, orders, evidence>>
        PROVE  TradeInv'
    BY <1>1 DEF TradeInv, TradeTypes, PageTypes, OrderTypes, ShownIsOurs, AnswersAreTheirs, OrdersSound, OrderSound,
                HasLanded, InState, ReadsSound, LandingsSound, LandingOf
  <1>2. CASE PriceMoves
    <2>1. PICK m \in Questions : chain' = [chain EXCEPT !.price[m] = @ + 1]
      BY <1>2 DEF PriceMoves
    <2>2. ChainTypes' /\ chain'.landed = chain.landed
      BY <2>1 DEF TradeInv, TradeTypes, ChainTypes
    <2> QED
      BY <1>1, <1>2, <2>2 DEF PriceMoves
  <1>3. CASE MarketCloses
    <2>1. PICK m \in Questions : chain' = [chain EXCEPT !.open[m] = FALSE]
      BY <1>3 DEF MarketCloses
    <2>2. ChainTypes' /\ chain'.landed = chain.landed
      BY <2>1 DEF TradeInv, TradeTypes, ChainTypes
    <2> QED
      BY <1>1, <1>3, <2>2 DEF MarketCloses
  <1>4. CASE UNCHANGED tradeVars
    BY <1>1, <1>4 DEF tradeVars, TradeInv, TradeTypes, ChainTypes
  <1> QED
    BY <1>2, <1>3, <1>4, ReadingStep, SendingStep, ConfirmingStep, MiningStep, ReceiptStep DEF TradeNext

LEMMA TradeInvariant == TradeSpec => []TradeInv
  BY TradeStart, TradeStep, PTL DEF TradeSpec

\* What the page tells and sends is what the reader saw and what the chain has, for any number
\* of orders, accounts and questions: whatever snapshot is read late, or for a market or an
\* account the page has left, and however an order's wait, its receipt and its landing overlap.
THEOREM OrdersKept == TradeSpec => []OrdersAreHonest
  <1>1. TradeInv => OrdersAreHonest
    <2> SUFFICES ASSUME TradeInv PROVE OrdersAreHonest
      OBVIOUS
    <2>1. page.shown # NotShown => page.shown.market = page.question
      BY DEF TradeInv, ShownIsOurs, ReadingIsOf
    <2>2. ASSUME NEW o \in Orders
          PROVE  /\ orders[o].pc \in {"refresh", "register", "unregistered", "done"} =>
                        \E landing \in chain.landed : landing.order = o
                 /\ InState(o, "done") /\ orders[o].kind = "challenge" => o \in evidence
      BY DEF TradeInv, OrdersSound, OrderSound, HasLanded, Reported, InState
    <2>3. ASSUME NEW landing \in chain.landed
          PROVE  LET order == orders[landing.order]
                 IN  /\ landing.account = order.account
                     /\ Quoted(landing.kind) => landing.market = order.seen.market /\ landing.minimum = order.seen
      <3>1. /\ landing.order \in Orders /\ ~InState(landing.order, "unused")
            /\ landing = LandingOf(landing.order)
        BY DEF TradeInv, TradeTypes, ChainTypes, LandingsSound, LandingRecord
      <3>2. OrderSound(landing.order)
        BY <3>1 DEF TradeInv, OrdersSound
      <3>3. /\ landing.account = orders[landing.order].account /\ landing.kind = orders[landing.order].kind
            /\ landing.market = orders[landing.order].market /\ landing.minimum = orders[landing.order].minimum
        BY <3>1 DEF LandingOf
      <3> QED
        BY <3>1, <3>2, <3>3 DEF OrderSound
    <2> QED
      BY <2>1, <2>2, <2>3 DEF OrdersAreHonest
  <1> QED
    BY <1>1, TradeInvariant, PTL

-------------------------------------------------------------------------------
(* RoomFeed. *)

FrameTypes == {"hello", "resync", "resync_required", "heartbeat"} \union Refreshing
Frame == [type : FrameTypes, seq : Nat]
Socket == [open : BOOLEAN, inflight : Seq(Frame), backlog : Nat, dropped : Nat]
FeedTypes ==
    /\ DOMAIN coordinator = {"life", "seq", "frames", "last", "focus"}
    /\ coordinator.life \in Nat \ {0} /\ coordinator.seq \in Nat /\ coordinator.frames \in Seq(Frame)
    /\ socket \in Socket
    /\ DOMAIN viewer = {"cursor", "shown", "asked", "requests", "answers"}
    /\ viewer.cursor \in Nat /\ viewer.asked \in Nat \X Nat

\* The frames retained are the last ones, numbered without gaps.
NumberedFrom(frames, seq) ==
    Len(frames) <= seq /\ \A i \in 1..Len(frames) : frames[i].seq = seq - Len(frames) + i
FramesAreNumbered == NumberedFrom(coordinator.frames, coordinator.seq)
\* What is on its way is what was published.
InflightIsKnown ==
    \A k \in 1..Len(socket.inflight) :
        /\ socket.inflight[k].seq <= coordinator.seq
        /\ \A i \in 1..Len(coordinator.frames) :
               coordinator.frames[i].seq = socket.inflight[k].seq => coordinator.frames[i] = socket.inflight[k]

Asking(frame) == frame.type \in {"resync", "resync_required"}
Below(c, n, k) == \A j \in 1..k : c.inflight[j].seq < n
\* Frame n, or a frame that makes up for it, comes before all frames that are later; or the socket
\* is stuck, and what comes first when it is not is the announcement of what it missed.
Coming(c, n) ==
    \/ \E k \in 1..Len(c.inflight) : (Asking(c.inflight[k]) \/ c.inflight[k].seq = n) /\ Below(c, n, k - 1)
    \/ c.backlog >= MaxQueue /\ Below(c, n, Len(c.inflight))
\* A change the viewer has not asked about since is after its cursor, and on its way.
NothingIsLost ==
    coordinator.life = 1 =>
        /\ viewer.cursor <= coordinator.seq
        /\ \A i \in 1..Len(coordinator.frames) :
               LET frame == coordinator.frames[i]
               IN  frame.type \in Refreshing /\ frame.seq > viewer.asked[2] =>
                       frame.seq > viewer.cursor /\ (socket.open => Coming(socket, frame.seq))

FeedInv == FeedTypes /\ FramesAreNumbered /\ InflightIsKnown /\ NothingIsLost

\* What one write does: nothing to a closed socket; a stuck one counts, and announces now and
\* then; another takes the frame.
LEMMA EdgeSendCases ==
    ASSUME NEW c \in Socket, NEW f \in Frame
    PROVE  LET r == EdgeSend(c, f)
           IN  /\ r \in Socket /\ r.open = c.open
               /\ \/ ~c.open /\ r = c
                  \/ c.backlog >= MaxQueue /\ r.inflight = c.inflight /\ r.backlog = c.backlog
                  \/ c.backlog >= MaxQueue /\ r.inflight = Append(c.inflight, Control("resync_required"))
                  \/ c.backlog < MaxQueue /\ r.inflight = Append(c.inflight, f)
  <1> DEFINE r == EdgeSend(c, f)
             skipped == [c EXCEPT !.dropped = c.dropped + 1]
             probed == [skipped EXCEPT !.inflight = Append(skipped.inflight, Control("resync_required"))]
             left == IF Accepted(probed) THEN 0 ELSE probed.backlog
             announced == [probed EXCEPT !.backlog = left]
             written == [c EXCEPT !.inflight = Append(c.inflight, f)]
             waiting == IF Accepted(written) THEN 0 ELSE written.backlog + 1
             taken == [written EXCEPT !.backlog = waiting]
  <1>1. MaxQueue \in Nat \ {0} /\ Control("resync_required") \in Frame
    BY FeedAssumption DEF Control, Frame, FrameTypes
  <1>2. /\ c.open \in BOOLEAN /\ c.inflight \in Seq(Frame) /\ c.backlog \in Nat /\ c.dropped \in Nat
    BY DEF Socket
  <1>3. /\ skipped \in Socket /\ skipped.open = c.open /\ skipped.inflight = c.inflight /\ skipped.backlog = c.backlog
    BY DEF Socket
  <1>4. Append(c.inflight, Control("resync_required")) \in Seq(Frame) /\ Append(c.inflight, f) \in Seq(Frame)
    BY <1>1, <1>2
  <1>5. /\ probed \in Socket /\ probed.open = c.open /\ probed.backlog = c.backlog
        /\ probed.inflight = Append(c.inflight, Control("resync_required"))
    <2> HIDE DEF skipped
    <2> QED
      BY <1>3, <1>4 DEF Socket
  <1>6. /\ announced \in Socket /\ announced.open = c.open
        /\ announced.inflight = Append(c.inflight, Control("resync_required"))
    <2>1. left \in Nat
      <3> HIDE DEF probed
      <3> QED
        BY <1>2, <1>5
    <2> HIDE DEF probed, left
    <2> QED
      BY <1>5, <2>1 DEF Socket
  <1>7. /\ written \in Socket /\ written.open = c.open /\ written.backlog = c.backlog
        /\ written.inflight = Append(c.inflight, f)
    BY <1>4 DEF Socket
  <1>8. taken \in Socket /\ taken.open = c.open /\ taken.inflight = Append(c.inflight, f)
    <2>1. waiting \in Nat
      <3> HIDE DEF written
      <3> QED
        BY <1>2, <1>7
    <2> HIDE DEF written, waiting
    <2> QED
      BY <1>7, <2>1 DEF Socket
  <1>9. \/ ~c.open /\ r = c
        \/ c.open /\ c.backlog >= MaxQueue /\ r \in {announced, skipped}
        \/ c.open /\ ~(c.backlog >= MaxQueue) /\ r = taken
    <2>1. CASE ~c.open
      BY <2>1 DEF EdgeSend
    <2>2. CASE c.open /\ c.backlog >= MaxQueue
      BY <2>2 DEF EdgeSend, Write
    <2>3. CASE c.open /\ ~(c.backlog >= MaxQueue)
      BY <2>3 DEF EdgeSend, Write
    <2> QED
      BY <1>2, <2>1, <2>2, <2>3
  <1> HIDE DEF r, skipped, announced, taken
  <1>10. CASE ~c.open /\ r = c
    BY <1>10 DEF r
  <1>11. CASE c.open /\ c.backlog >= MaxQueue /\ r = announced
    BY <1>6, <1>11 DEF r
  <1>12. CASE c.open /\ c.backlog >= MaxQueue /\ r = skipped
    BY <1>3, <1>12 DEF r
  <1>13. CASE c.open /\ ~(c.backlog >= MaxQueue) /\ r = taken
    <2>1. c.backlog < MaxQueue
      BY <1>1, <1>2, <1>13
    <2> QED
      BY <1>8, <1>13, <2>1 DEF r
  <1> QED
    BY <1>9, <1>10, <1>11, <1>12, <1>13

\* A frame at the end of the socket is after all that is in it.
LEMMA Appended ==
    ASSUME NEW s \in Seq(Frame), NEW f \in Frame
    PROVE  /\ Append(s, f) \in Seq(Frame) /\ Len(Append(s, f)) = Len(s) + 1 /\ Append(s, f)[Len(s) + 1] = f
           /\ \A k \in 1..Len(s) : Append(s, f)[k] = s[k]
  OBVIOUS

\* What is coming still is after another write, whatever is written.
LEMMA EdgeSendKeeps ==
    ASSUME NEW c \in Socket, NEW f \in Frame, NEW n \in Nat, Coming(c, n)
    PROVE  Coming(EdgeSend(c, f), n)
  <1> DEFINE r == EdgeSend(c, f)
             announcement == Control("resync_required")
  <1>1. /\ r \in Socket
        /\ \/ r = c
           \/ r.inflight = c.inflight /\ r.backlog = c.backlog
           \/ c.backlog >= MaxQueue /\ r.inflight = Append(c.inflight, announcement)
           \/ c.backlog < MaxQueue /\ r.inflight = Append(c.inflight, f)
    BY EdgeSendCases
  <1>2. c.inflight \in Seq(Frame) /\ c.backlog \in Nat /\ MaxQueue \in Nat /\ Len(c.inflight) \in Nat
    BY FeedAssumption DEF Socket
  <1>3. announcement \in Frame /\ Asking(announcement)
    BY DEF Control, Frame, FrameTypes, Asking
  <1> HIDE DEF r, announcement
  <1>4. CASE r = c \/ (r.inflight = c.inflight /\ r.backlog = c.backlog)
    <2>1. Coming(r, n)
      BY <1>4 DEF Coming, Below
    <2> QED
      BY <2>1 DEF r
  <1>5. ASSUME NEW g \in Frame, r.inflight = Append(c.inflight, g),
               NEW k \in 1..Len(c.inflight), Asking(c.inflight[k]) \/ c.inflight[k].seq = n, Below(c, n, k - 1)
        PROVE  Coming(r, n)
    <2>1. /\ Len(r.inflight) = Len(c.inflight) + 1
          /\ \A j \in 1..Len(c.inflight) : r.inflight[j] = c.inflight[j]
      BY <1>2, <1>5, Appended
    <2>2. k \in 1..Len(r.inflight) /\ r.inflight[k] = c.inflight[k]
      BY <1>2, <2>1
    <2>3. Below(r, n, k - 1)
      BY <1>2, <1>5, <2>1 DEF Below
    <2> QED
      BY <1>5, <2>2, <2>3 DEF Coming
  <1>6. ASSUME r.inflight = Append(c.inflight, announcement), Below(c, n, Len(c.inflight))
        PROVE  Coming(r, n)
    <2> DEFINE k == Len(c.inflight) + 1
    <2>1. /\ Len(r.inflight) = k /\ r.inflight[k] = announcement
          /\ \A j \in 1..Len(c.inflight) : r.inflight[j] = c.inflight[j]
      BY <1>2, <1>3, <1>6, Appended
    <2>2. k \in 1..Len(r.inflight) /\ k - 1 = Len(c.inflight)
      BY <1>2, <2>1
    <2>3. Below(r, n, Len(c.inflight))
      BY <1>6, <2>1 DEF Below
    <2> HIDE DEF k
    <2> QED
      BY <1>3, <2>1, <2>2, <2>3 DEF Coming
  <1>7. CASE c.backlog >= MaxQueue /\ r.inflight = Append(c.inflight, announcement)
    <2>1. Coming(r, n)
      BY <1>3, <1>5, <1>6, <1>7 DEF Coming
    <2> QED
      BY <2>1 DEF r
  <1>8. CASE c.backlog < MaxQueue /\ r.inflight = Append(c.inflight, f)
    <2>1. ~(c.backlog >= MaxQueue)
      BY <1>2, <1>8
    <2>2. Coming(r, n)
      BY <1>5, <1>8, <2>1 DEF Coming
    <2> QED
      BY <2>2 DEF r
  <1> QED
    BY <1>1, <1>4, <1>7, <1>8

\* A frame that is written after all earlier ones is coming, or what makes up for it is.
LEMMA EdgeSendBrings ==
    ASSUME NEW c \in Socket, NEW f \in Frame, NEW n \in Nat,
           c.open, Below(c, n, Len(c.inflight)), Asking(f) \/ f.seq = n
    PROVE  Coming(EdgeSend(c, f), n)
  <1> DEFINE r == EdgeSend(c, f)
             announcement == Control("resync_required")
  <1>1. /\ r \in Socket
        /\ \/ c.backlog >= MaxQueue /\ r.inflight = c.inflight /\ r.backlog = c.backlog
           \/ \E g \in {announcement, f} : r.inflight = Append(c.inflight, g)
    BY EdgeSendCases
  <1>2. c.inflight \in Seq(Frame) /\ Len(c.inflight) \in Nat
    BY DEF Socket
  <1>3. announcement \in Frame /\ Asking(announcement)
    BY DEF Control, Frame, FrameTypes, Asking
  <1> HIDE DEF r, announcement
  <1>4. CASE c.backlog >= MaxQueue /\ r.inflight = c.inflight /\ r.backlog = c.backlog
    <2>1. Coming(r, n)
      BY <1>4 DEF Coming, Below
    <2> QED
      BY <2>1 DEF r
  <1>5. ASSUME NEW g \in {announcement, f}, r.inflight = Append(c.inflight, g)
        PROVE  Coming(r, n)
    <2> DEFINE k == Len(c.inflight) + 1
    <2>0. g \in Frame /\ (Asking(g) \/ g.seq = n)
      BY <1>3
    <2>1. /\ Len(r.inflight) = k /\ r.inflight[k] = g
          /\ \A j \in 1..Len(c.inflight) : r.inflight[j] = c.inflight[j]
      BY <1>2, <1>5, <2>0, Appended
    <2>2. k \in 1..Len(r.inflight) /\ k - 1 = Len(c.inflight)
      BY <1>2, <2>1
    <2>3. Below(r, n, Len(c.inflight))
      BY <2>1 DEF Below
    <2> HIDE DEF k
    <2> QED
      BY <2>0, <2>1, <2>2, <2>3 DEF Coming
  <1> QED
    BY <1>1, <1>4, <1>5 DEF r

\* The socket before and after each frame that is sent.
Sending(c, frames, n, g) ==
    /\ g = [i \in 0..n |-> g[i]]
    /\ g[0] = c /\ \A i \in 1..n : g[i] = EdgeSend(g[i - 1], frames[i])

LEMMA SendingExists ==
    ASSUME NEW c, NEW frames, NEW n \in Nat
    PROVE  \E g : Sending(c, frames, n, g)
  <1> DEFINE None == {m \in Nat : ~\E g : Sending(c, frames, m, g)}
  <1> SUFFICES None = {}
    OBVIOUS
  <1> SUFFICES ASSUME None # {} PROVE FALSE
    OBVIOUS
  <1>1. PICK m \in None : \A y \in None : m <= y
    BY LeastNat
  <1>2. m # 0
    <2> SUFFICES ASSUME m = 0 PROVE FALSE
      OBVIOUS
    <2> DEFINE g == [i \in 0..0 |-> c]
    <2>1. Sending(c, frames, 0, g)
      BY DEF Sending
    <2> QED
      BY <1>1, <2>1
  <1>3. m - 1 \in Nat /\ m \in Nat /\ m - 1 < m
    BY <1>1, <1>2
  <1>4. PICK g : Sending(c, frames, m - 1, g)
    BY <1>1, <1>3
  <1> DEFINE h == [i \in 0..m |-> IF i = m THEN EdgeSend(g[m - 1], frames[m]) ELSE g[i]]
  <1>5. h = [i \in 0..m |-> h[i]] /\ h[0] = c
    BY <1>2, <1>3, <1>4 DEF Sending
  <1>6. ASSUME NEW i \in 1..m
        PROVE  h[i] = EdgeSend(h[i - 1], frames[i])
    <2>1. i \in 0..m /\ i - 1 \in 0..m /\ i - 1 # m /\ (i # m => i \in 1..(m - 1))
      BY <1>3
    <2>2. h[i - 1] = g[i - 1]
      BY <2>1
    <2>3. CASE i = m
      BY <2>1, <2>2, <2>3
    <2>4. CASE i # m
      <3>1. h[i] = g[i]
        BY <2>1, <2>4
      <3> QED
        BY <1>4, <2>1, <2>2, <2>4, <3>1 DEF Sending
    <2> QED
      BY <2>3, <2>4
  <1> HIDE DEF h
  <1>7. Sending(c, frames, m, h)
    BY <1>5, <1>6 DEF Sending
  <1> QED
    BY <1>1, <1>7

LEMMA SendAllIs ==
    ASSUME NEW c, NEW frames \in Seq(Frame)
    PROVE  \E g : Sending(c, frames, Len(frames), g) /\ SendAll(c, frames) = g[Len(frames)]
  <1> DEFINE n == Len(frames)
             Step(g) == [i \in 0..n |-> IF i = 0 THEN c ELSE EdgeSend(g[i - 1], frames[i])]
             sent == CHOOSE g : g = Step(g)
  <1>1. n \in Nat
    OBVIOUS
  <1>2. SendAll(c, frames) = sent[n]
    BY DEF SendAll
  <1>3. PICK g : Sending(c, frames, n, g)
    BY <1>1, SendingExists
  <1> HIDE DEF n
  <1>4. g = Step(g)
    <2>1. \A i \in 0..n : i # 0 => i \in 1..n
      BY <1>1
    <2>2. \A i \in 0..n : g[i] = IF i = 0 THEN c ELSE EdgeSend(g[i - 1], frames[i])
      BY <1>3, <2>1 DEF Sending
    <2>3. g = [i \in 0..n |-> g[i]]
      BY <1>3 DEF Sending
    <2> QED
      BY <2>2, <2>3
  <1>5. sent = Step(sent)
    BY <1>4
  <1> HIDE DEF sent
  <1>6. DOMAIN sent = 0..n /\ \A i \in 0..n : sent[i] = IF i = 0 THEN c ELSE EdgeSend(sent[i - 1], frames[i])
    BY <1>5
  <1>7. sent = [i \in 0..n |-> sent[i]]
    BY <1>5
  <1>8. sent[0] = c /\ \A i \in 1..n : sent[i] = EdgeSend(sent[i - 1], frames[i])
    BY <1>1, <1>6
  <1>9. Sending(c, frames, n, sent)
    BY <1>7, <1>8 DEF Sending
  <1> QED
    BY <1>2, <1>9 DEF n

\* Whatever is sent, the socket stays one, open or closed as it was; and what it holds of it
\* was in it, was sent, or announces.
SentFrom(c, frames, n, r) ==
    /\ r \in Socket /\ r.open = c.open
    /\ \A k \in 1..Len(r.inflight) :
           \/ \E j \in 1..Len(c.inflight) : r.inflight[k] = c.inflight[j]
           \/ \E j \in 1..n : r.inflight[k] = frames[j]
           \/ r.inflight[k] = Control("resync_required")

LEMMA SentFromStep ==
    ASSUME NEW c \in Socket, NEW frames \in Seq(Frame), NEW n \in 1..Len(frames), NEW b, SentFrom(c, frames, n - 1, b)
    PROVE  SentFrom(c, frames, n, EdgeSend(b, frames[n]))
  <1> DEFINE r == EdgeSend(b, frames[n])
             announcement == Control("resync_required")
  <1>1. b \in Socket /\ b.open = c.open /\ frames[n] \in Frame
    BY DEF SentFrom
  <1>2. /\ r \in Socket /\ r.open = b.open
        /\ \/ r.inflight = b.inflight
           \/ \E g \in {announcement, frames[n]} : r.inflight = Append(b.inflight, g)
    BY <1>1, EdgeSendCases
  <1>3. b.inflight \in Seq(Frame) /\ Len(b.inflight) \in Nat /\ announcement \in Frame
    BY <1>1 DEF Socket, Control, Frame, FrameTypes
  <1> DEFINE Known(x) == \/ \E j \in 1..Len(c.inflight) : x = c.inflight[j]
                         \/ \E j \in 1..n : x = frames[j]
                         \/ x = announcement
  <1>4. \A k \in 1..Len(b.inflight) : Known(b.inflight[k])
    BY DEF SentFrom
  <1>5. Known(announcement) /\ Known(frames[n])
    OBVIOUS
  <1>6. \A k \in 1..Len(r.inflight) : Known(r.inflight[k])
    <2> HIDE DEF r, Known, announcement
    <2>1. CASE r.inflight = b.inflight
      BY <1>4, <2>1
    <2>2. ASSUME NEW g \in {announcement, frames[n]}, r.inflight = Append(b.inflight, g)
          PROVE  \A k \in 1..Len(r.inflight) : Known(r.inflight[k])
      <3>1. /\ Len(r.inflight) = Len(b.inflight) + 1 /\ r.inflight[Len(b.inflight) + 1] = g
            /\ \A k \in 1..Len(b.inflight) : r.inflight[k] = b.inflight[k]
        BY <1>1, <1>3, <2>2, Appended
      <3>2. \A k \in 1..Len(r.inflight) : k \in 1..Len(b.inflight) \/ k = Len(b.inflight) + 1
        BY <1>3, <3>1
      <3> QED
        BY <1>4, <1>5, <2>2, <3>1, <3>2
    <2> QED
      BY <1>2, <2>1, <2>2
  <1> HIDE DEF r
  <1>7. SentFrom(c, frames, n, r)
    BY <1>1, <1>2, <1>6 DEF SentFrom
  <1> QED
    BY <1>7 DEF r

LEMMA SentFromAll ==
    ASSUME NEW c \in Socket, NEW frames \in Seq(Frame), NEW g, Sending(c, frames, Len(frames), g)
    PROVE  \A n \in 0..Len(frames) : SentFrom(c, frames, n, g[n])
  <1> DEFINE Wrong == {n \in 0..Len(frames) : ~SentFrom(c, frames, n, g[n])}
  <1> SUFFICES ASSUME Wrong # {} PROVE FALSE
    OBVIOUS
  <1>1. PICK n \in Wrong : \A y \in Wrong : n <= y
    <2>1. Wrong \in SUBSET Nat
      OBVIOUS
    <2> HIDE DEF Wrong
    <2> QED
      BY <2>1, LeastNat
  <1>2. SentFrom(c, frames, 0, g[0])
    BY DEF Sending, SentFrom
  <1>3. n \in 1..Len(frames) /\ n - 1 \in 0..Len(frames) /\ n - 1 < n
    BY <1>1, <1>2
  <1>4. SentFrom(c, frames, n - 1, g[n - 1])
    BY <1>1, <1>3
  <1>5. SentFrom(c, frames, n, EdgeSend(g[n - 1], frames[n]))
    BY <1>3, <1>4, SentFromStep
  <1> QED
    BY <1>1, <1>3, <1>5 DEF Sending

LEMMA SendAllFrom ==
    ASSUME NEW c \in Socket, NEW frames \in Seq(Frame)
    PROVE  SentFrom(c, frames, Len(frames), SendAll(c, frames))
  <1>1. PICK g : Sending(c, frames, Len(frames), g) /\ SendAll(c, frames) = g[Len(frames)]
    BY SendAllIs
  <1> QED
    BY <1>1, SentFromAll

\* What is coming at one frame is coming at the end.
LEMMA SendingKeeps ==
    ASSUME NEW c \in Socket, NEW frames \in Seq(Frame), NEW g, Sending(c, frames, Len(frames), g),
           NEW n \in Nat, NEW i \in 0..Len(frames), Coming(g[i], n)
    PROVE  Coming(g[Len(frames)], n)
  <1> DEFINE Wrong == {k \in 0..Len(frames) : i <= k /\ ~Coming(g[k], n)}
  <1> SUFFICES ASSUME Wrong # {} PROVE FALSE
    OBVIOUS
  <1>1. PICK k \in Wrong : \A y \in Wrong : k <= y
    <2>1. Wrong \in SUBSET Nat
      OBVIOUS
    <2> HIDE DEF Wrong
    <2> QED
      BY <2>1, LeastNat
  <1>2. k # i /\ k \in 1..Len(frames) /\ k - 1 \in 0..Len(frames) /\ i <= k - 1 /\ k - 1 < k
    BY <1>1
  <1>3. Coming(g[k - 1], n) /\ frames[k] \in Frame
    BY <1>1, <1>2
  <1>4. g[k - 1] \in Socket
    BY <1>2, SentFromAll DEF SentFrom
  <1>5. Coming(EdgeSend(g[k - 1], frames[k]), n)
    BY <1>3, <1>4, EdgeSendKeeps
  <1> QED
    BY <1>1, <1>2, <1>5 DEF Sending

LEMMA SendAllKeeps ==
    ASSUME NEW c \in Socket, NEW frames \in Seq(Frame), NEW n \in Nat, Coming(c, n)
    PROVE  Coming(SendAll(c, frames), n)
  <1>1. PICK g : Sending(c, frames, Len(frames), g) /\ SendAll(c, frames) = g[Len(frames)]
    BY SendAllIs
  <1>2. g[0] = c /\ 0 \in 0..Len(frames)
    BY <1>1 DEF Sending
  <1> QED
    BY <1>1, <1>2, SendingKeeps

\* A frame sent after earlier ones only is coming when all are sent.
LEMMA SendAllBrings ==
    ASSUME NEW c \in Socket, NEW frames \in Seq(Frame), NEW n \in Nat \ {0}, NEW i \in 1..Len(frames),
           c.open, Below(c, n, Len(c.inflight)), Asking(frames[i]) \/ frames[i].seq = n,
           \A j \in 1..(i - 1) : frames[j].seq < n
    PROVE  Coming(SendAll(c, frames), n)
  <1>1. PICK g : Sending(c, frames, Len(frames), g) /\ SendAll(c, frames) = g[Len(frames)]
    BY SendAllIs
  <1>2. i - 1 \in 0..Len(frames) /\ i \in 0..Len(frames) /\ frames[i] \in Frame
    OBVIOUS
  <1>3. SentFrom(c, frames, i - 1, g[i - 1])
    BY <1>1, <1>2, SentFromAll
  <1>4. Below(g[i - 1], n, Len(g[i - 1].inflight))
    <2> DEFINE b == g[i - 1]
    <2> HIDE DEF b
    <2>1. SentFrom(c, frames, i - 1, b)
      BY <1>3 DEF b
    <2> SUFFICES ASSUME NEW k \in 1..Len(b.inflight)
                 PROVE  b.inflight[k].seq < n
      BY DEF Below, b
    <2>2. CASE \E j \in 1..Len(c.inflight) : b.inflight[k] = c.inflight[j]
      BY <2>2 DEF Below
    <2>3. CASE \E j \in 1..(i - 1) : b.inflight[k] = frames[j]
      BY <2>3
    <2>4. CASE b.inflight[k] = Control("resync_required")
      BY <2>4 DEF Control
    <2> QED
      BY <2>1, <2>2, <2>3, <2>4 DEF SentFrom
  <1>5. Coming(EdgeSend(g[i - 1], frames[i]), n)
    BY <1>2, <1>3, <1>4, EdgeSendBrings DEF SentFrom
  <1>6. Coming(g[i], n)
    BY <1>1, <1>5 DEF Sending
  <1> QED
    BY <1>1, <1>2, <1>6, SendingKeeps

\* Sequences laid end to end make a sequence.
LEMMA FlattenIsSeq ==
    ASSUME NEW S, NEW n \in Nat, NEW f \in [1..n -> Seq(S)]
    PROVE  FlattenSeq(f) \in Seq(S)
  <1>1. Len(f) = n /\ f \in Seq(Seq(S))
    OBVIOUS
  <1>2. CASE n = 0
    <2>1. f = << >>
      BY <1>1, <1>2
    <2> QED
      BY <1>1, <1>2, <2>1 DEF FlattenSeq
  <1>3. CASE n # 0
    <2> DEFINE Step(g, m) == [i \in 1..m |-> IF i = 1 THEN f[i] ELSE g[i - 1] \o f[i]]
               Laid(m) == \E g : g = Step(g, m) /\ \A i \in 1..m : g[i] \in Seq(S)
               None == {m \in 1..n : ~Laid(m)}
    <2>1. None = {}
      <3> SUFFICES ASSUME None # {} PROVE FALSE
        OBVIOUS
      <3>1. PICK m \in None : \A y \in None : m <= y
        <4>1. None \in SUBSET Nat
          <5> HIDE DEF Laid
          <5> QED
            OBVIOUS
        <4> HIDE DEF None
        <4> QED
          BY <4>1, LeastNat
      <3>2. m \in 1..n /\ f[m] \in Seq(S) /\ ~Laid(m) /\ \A y \in 1..n : y < m => Laid(y)
        <4> HIDE DEF Laid
        <4> QED
          BY <3>1
      <3>3. CASE m = 1
        <4> DEFINE g == [i \in 1..1 |-> f[1]]
        <4>1. g = Step(g, 1) /\ \A i \in 1..1 : g[i] \in Seq(S)
          BY <3>2, <3>3
        <4> HIDE DEF g, Step
        <4> QED
          BY <3>2, <3>3, <4>1
      <3>4. CASE m # 1
        <4>1. m - 1 \in 1..n /\ m - 1 < m
          BY <3>2, <3>4
        <4>2. PICK g : g = Step(g, m - 1) /\ \A i \in 1..(m - 1) : g[i] \in Seq(S)
          <5>1. Laid(m - 1)
            <6> HIDE DEF Laid
            <6> QED
              BY <3>2, <4>1
          <5> HIDE DEF Step
          <5> QED
            BY <5>1
        <4> DEFINE h == [i \in 1..m |-> IF i = m THEN g[m - 1] \o f[m] ELSE g[i]]
        <4>3. \A i \in 1..(m - 1) : g[i] = IF i = 1 THEN f[i] ELSE g[i - 1] \o f[i]
          <5> HIDE DEF h, None
          <5>1. \A i \in 1..(m - 1) : Step(g, m - 1)[i] = IF i = 1 THEN f[i] ELSE g[i - 1] \o f[i]
            OBVIOUS
          <5> HIDE DEF Step
          <5> QED
            BY <4>2, <5>1
        <4>4. ASSUME NEW i \in 1..m
              PROVE  h[i] = (IF i = 1 THEN f[i] ELSE h[i - 1] \o f[i]) /\ h[i] \in Seq(S)
          <5>1. CASE i = m
            <6>1. h[i] = g[m - 1] \o f[m] /\ i # 1
              BY <3>4, <5>1
            <6>2. h[i - 1] = g[m - 1]
              BY <3>2, <4>1, <5>1
            <6>3. g[m - 1] \in Seq(S)
              BY <4>1, <4>2
            <6>4. g[m - 1] \o f[m] \in Seq(S)
              BY <3>2, <6>3, ConcatProperties
            <6> HIDE DEF h
            <6> QED
              BY <5>1, <6>1, <6>2, <6>4
          <5>2. CASE i # m
            <6>1. i \in 1..(m - 1) /\ (i # 1 => i - 1 \in 1..m /\ i - 1 # m)
              BY <3>2, <5>2
            <6>2. h[i] = g[i] /\ (i # 1 => h[i - 1] = g[i - 1])
              BY <5>2, <6>1
            <6> HIDE DEF h
            <6> QED
              BY <4>2, <4>3, <6>1, <6>2
          <5> QED
            BY <5>1, <5>2
        <4>5. h = Step(h, m)
          <5>1. h = [i \in 1..m |-> h[i]]
            OBVIOUS
          <5> HIDE DEF h
          <5> QED
            BY <4>4, <5>1
        <4> HIDE DEF h, Step
        <4> QED
          BY <3>2, <4>4, <4>5
      <3> QED
        BY <3>3, <3>4
    <2> DEFINE flatten == CHOOSE g : g = Step(g, n)
    <2>2. \E g : g = Step(g, n)
      <3>1. Laid(n)
        <4> HIDE DEF Laid
        <4> QED
          BY <1>3, <2>1
      <3> HIDE DEF Step
      <3> QED
        BY <3>1
    <2>3. flatten = Step(flatten, n)
      <3> HIDE DEF Step
      <3> QED
        BY <2>2
    <2>4. FlattenSeq(f) = flatten[n]
      BY <1>1, <1>3 DEF FlattenSeq
    <2> HIDE DEF flatten
    <2>5. \A i \in 1..n : flatten[i] = IF i = 1 THEN f[i] ELSE flatten[i - 1] \o f[i]
      <3>1. \A i \in 1..n : Step(flatten, n)[i] = IF i = 1 THEN f[i] ELSE flatten[i - 1] \o f[i]
        OBVIOUS
      <3> HIDE DEF Step
      <3> QED
        BY <2>3, <3>1
    <2> DEFINE Wrong == {i \in 1..n : flatten[i] \notin Seq(S)}
    <2>6. Wrong = {}
      <3> SUFFICES ASSUME Wrong # {} PROVE FALSE
        OBVIOUS
      <3>1. PICK i \in Wrong : \A y \in Wrong : i <= y
        <4>1. Wrong \in SUBSET Nat
          OBVIOUS
        <4> HIDE DEF Wrong
        <4> QED
          BY <4>1, LeastNat
      <3>2. i \in 1..n /\ f[i] \in Seq(S) /\ flatten[i] \notin Seq(S)
        OBVIOUS
      <3>3. i # 1
        BY <2>5, <3>2
      <3>4. i - 1 \in 1..n /\ i - 1 < i
        BY <3>2, <3>3
      <3>5. flatten[i - 1] \in Seq(S)
        BY <3>1, <3>4
      <3>6. flatten[i] = flatten[i - 1] \o f[i]
        BY <2>5, <3>2, <3>3
      <3> HIDE DEF Wrong
      <3> QED
        BY <3>2, <3>5, <3>6, ConcatProperties
    <2> QED
      BY <1>3, <2>4, <2>6
  <1> QED
    BY <1>2, <1>3

\* Whatever two snapshots are compared, the result is a sequence of the page's frames.
LEMMA NewsIsSeq ==
    ASSUME NEW before, NEW after
    PROVE  Differences(before, after) \in Seq(FrameTypes)
  <1>1. ASSUME NEW condition, NEW type \in FrameTypes
        PROVE  If(condition, type) \in Seq(FrameTypes)
    BY DEF If
  <1>2. ASSUME NEW was, NEW now
        PROVE  SlotFrames(was, now) \in Seq(FrameTypes)
    <2>1. SlotEventFor(now.state) \in FrameTypes /\ "slot.price_changed" \in FrameTypes
      BY DEF SlotEventFor, FrameTypes, Refreshing
    <2>2. <<"slot.published">> \in Seq(FrameTypes)
      BY DEF FrameTypes, Refreshing
    <2>3. /\ If(was.state # now.state, SlotEventFor(now.state)) \in Seq(FrameTypes)
          /\ If(was.price # now.price, "slot.price_changed") \in Seq(FrameTypes)
      BY <1>1, <2>1
    <2>4. If(was.state # now.state, SlotEventFor(now.state)) \o If(was.price # now.price, "slot.price_changed")
              \in Seq(FrameTypes)
      BY <2>3, ConcatProperties
    <2> QED
      BY <2>2, <2>4 DEF SlotFrames
  <1> DEFINE n == Cardinality(Slots)
             f == [i \in 1..n |-> SlotFrames(before.slots[InOrderOf(Slots)[i]], after.slots[InOrderOf(Slots)[i]])]
  <1>3. n \in Nat
    BY FeedAssumption, FS_CardinalityType
  <1>4. f \in [1..n -> Seq(FrameTypes)]
    BY <1>2
  <1>5. FlattenSeq(f) \in Seq(FrameTypes)
    <2> HIDE DEF f, n
    <2> QED
      BY <1>3, <1>4, FlattenIsSeq
  <1> DEFINE room == If(before.state # after.state, "room.state_changed")
             source == If(before.fresh # after.fresh, "source.freshness_changed")
  <1>6. room \in Seq(FrameTypes) /\ source \in Seq(FrameTypes)
    <2>1. "room.state_changed" \in FrameTypes /\ "source.freshness_changed" \in FrameTypes
      BY DEF FrameTypes, Refreshing
    <2> QED
      BY <1>1, <2>1
  <1>7. Differences(before, after) = (room \o source) \o FlattenSeq(f)
    BY DEF Differences
  <1> HIDE DEF room, source, f
  <1> QED
    BY <1>5, <1>6, <1>7, ConcatProperties

LEMMA FeedStart == FeedInit => FeedInv
  BY FeedAssumption
     DEF FeedInit, FeedInv, FeedTypes, NewCoordinator, Socket, FramesAreNumbered, NumberedFrom, InflightIsKnown, NothingIsLost

\* The frames that are kept are the last of all.
LEMMA RetainedIs ==
    ASSUME NEW all \in Seq(Frame)
    PROVE  LET kept == Retained(all)
           IN  /\ kept \in Seq(Frame) /\ Len(kept) <= Len(all)
               /\ \A i \in 1..Len(kept) : Len(all) - Len(kept) + i \in 1..Len(all)
                                          /\ kept[i] = all[Len(all) - Len(kept) + i]
  <1> DEFINE n == Len(all)
             least == Min({n, Retention})
             kept == Retained(all)
  <1>1. n \in Nat /\ Retention \in Nat
    BY FeedAssumption
  <1>2. least \in {n, Retention} /\ least <= n
    <2> HIDE DEF n
    <2>1. \E x \in {n, Retention} : \A y \in {n, Retention} : x <= y
      BY <1>1
    <2> QED
      BY <1>1, <2>1 DEF Min
  <1> HIDE DEF least
  <1>3. kept = SubSeq(all, n - least + 1, n) /\ least \in Nat
    BY <1>1, <1>2 DEF Retained, least
  <1>4. n - least + 1 \in 1..(n + 1) /\ \A i \in (n - least + 1)..n : all[i] \in Frame
    BY <1>1, <1>2, <1>3
  <1>5. /\ SubSeq(all, n - least + 1, n) \in Seq(Frame)
        /\ Len(SubSeq(all, n - least + 1, n)) = IF n - least + 1 <= n THEN n - (n - least + 1) + 1 ELSE 0
        /\ \A i \in 1..(n - (n - least + 1) + 1) :
               SubSeq(all, n - least + 1, n)[i] = all[(n - least + 1) + i - 1]
    <2> HIDE DEF n
    <2>1. n - least + 1 \in Int /\ n \in Int
      BY <1>1, <1>3
    <2> QED
      BY <1>4, <2>1, SubSeqProperties
  <1> HIDE DEF kept, n
  <1>6. kept \in Seq(Frame) /\ Len(kept) = least /\ \A i \in 1..least : kept[i] = all[n - least + i]
    <2>1. n - (n - least + 1) + 1 = least /\ (n - least + 1 <= n <=> least # 0)
      BY <1>1, <1>3
    <2>2. \A i \in 1..least : (n - least + 1) + i - 1 = n - least + i
      BY <1>1, <1>3
    <2>3. Len(kept) = least
      BY <1>3, <1>5, <2>1
    <2> QED
      BY <1>3, <1>5, <2>1, <2>2, <2>3
  <1>7. \A i \in 1..least : n - least + i \in 1..n
    BY <1>1, <1>2, <1>3
  <1> QED
    BY <1>2, <1>6, <1>7 DEF kept, n

\* Frames are published: numbered on from the last, and sent.
LEMMA PublishStep ==
    ASSUME FeedInv, NEW types \in Seq(FrameTypes), NEW c, Publish(types, c), viewer' = viewer,
           DOMAIN c = {"life", "seq", "frames", "last", "focus"},
           c.life = coordinator.life, c.seq = coordinator.seq, c.frames = coordinator.frames
    PROVE  FeedInv'
  <1> DEFINE old == coordinator.frames
             new == Numbered(coordinator, types)
             all == old \o new
             seq == coordinator.seq
             n == Len(old)
             m == Len(types)
             kept == Retained(all)
  <1>1. FeedTypes /\ old \in Seq(Frame) /\ seq \in Nat /\ n \in Nat /\ m \in Nat /\ socket \in Socket
    BY DEF FeedInv, FeedTypes
  <1>2. new \in Seq(Frame) /\ Len(new) = m /\ \A i \in 1..m : new[i].seq = seq + i
    <2>1. DOMAIN types = 1..m /\ \A i \in 1..m : types[i] \in FrameTypes
      OBVIOUS
    <2>2. \A i \in 1..m : [type |-> types[i], seq |-> coordinator.seq + i] \in Frame
      BY <1>1, <2>1 DEF Frame
    <2>3. new = [i \in 1..m |-> [type |-> types[i], seq |-> coordinator.seq + i]]
      BY <2>1 DEF Numbered
    <2> HIDE DEF new, m
    <2>4. new \in [1..m -> Frame]
      BY <2>2, <2>3
    <2>5. new \in Seq(Frame) /\ Len(new) = m
      BY <1>1, <2>4
    <2> QED
      BY <2>3, <2>5
  <1>3. /\ coordinator' = [c EXCEPT !.seq = seq + m, !.frames = kept]
        /\ socket' = SendAll(socket, new)
    BY DEF Publish
  <1>4. /\ DOMAIN coordinator' = {"life", "seq", "frames", "last", "focus"}
        /\ coordinator'.life = coordinator.life /\ coordinator'.seq = seq + m /\ coordinator'.frames = kept
    <2> HIDE DEF kept, seq, m
    <2> QED
      BY <1>3
  <1> HIDE DEF new
  <1>5. /\ all \in Seq(Frame) /\ Len(all) = n + m
        /\ \A i \in 1..n : all[i] = old[i]
        /\ \A i \in (n + 1)..(n + m) : all[i] = new[i - n]
    <2>1. /\ all \in Seq(Frame) /\ Len(all) = n + m
          /\ \A i \in 1..(n + m) : all[i] = IF i <= n THEN old[i] ELSE new[i - n]
      <3>1. Len(old) = n /\ Len(new) = m
        BY <1>2
      <3> HIDE DEF old, n, m
      <3>2. /\ old \o new \in Seq(Frame) /\ Len(old \o new) = Len(old) + Len(new)
            /\ \A i \in 1..(Len(old) + Len(new)) :
                   (old \o new)[i] = IF i <= Len(old) THEN old[i] ELSE new[i - Len(old)]
        BY <1>1, <1>2, ConcatProperties
      <3> QED
        BY <3>1, <3>2
    <2> HIDE DEF all, n, m, old
    <2>2. ASSUME NEW i \in 1..n
          PROVE  all[i] = old[i]
      BY <1>1, <2>1
    <2>3. ASSUME NEW i \in (n + 1)..(n + m)
          PROVE  all[i] = new[i - n]
      <3>1. i \in 1..(n + m) /\ ~(i <= n)
        BY <1>1
      <3> QED
        BY <2>1, <3>1
    <2> QED
      BY <2>1, <2>2, <2>3
  <1>6. n <= seq /\ \A i \in 1..n : old[i].seq = seq - n + i
    BY DEF FeedInv, FramesAreNumbered, NumberedFrom
  <1> HIDE DEF all, n, m, seq, old
  <1>7. \A i \in 1..(n + m) : all[i].seq = seq - n + i
    <2> SUFFICES ASSUME NEW i \in 1..(n + m)
                 PROVE  all[i].seq = seq - n + i
      OBVIOUS
    <2>1. CASE i <= n
      <3>1. i \in 1..n
        BY <1>1, <2>1
      <3> QED
        BY <1>5, <1>6, <3>1
    <2>2. CASE ~(i <= n)
      <3>1. i \in (n + 1)..(n + m) /\ i - n \in 1..m
        BY <1>1, <2>2
      <3>2. all[i].seq = seq + (i - n)
        BY <1>2, <1>5, <3>1
      <3> QED
        BY <1>1, <3>2
    <2> QED
      BY <2>1, <2>2
  <1> DEFINE k == Len(kept)
             At(i) == (n + m) - k + i
  <1>8. /\ kept \in Seq(Frame) /\ k \in Nat /\ k <= n + m
        /\ \A i \in 1..k : At(i) \in 1..(n + m) /\ kept[i] = all[At(i)]
    <2>1. /\ kept \in Seq(Frame) /\ Len(kept) <= Len(all)
          /\ \A i \in 1..Len(kept) : Len(all) - Len(kept) + i \in 1..Len(all)
                                     /\ kept[i] = all[Len(all) - Len(kept) + i]
      BY <1>5, RetainedIs
    <2> HIDE DEF kept
    <2>2. Len(kept) \in Nat
      BY <2>1
    <2> QED
      BY <1>5, <2>1, <2>2
  <1> HIDE DEF kept
  <1>9. NumberedFrom(kept, seq + m)
    <2> HIDE DEF k
    <2>1. k <= seq + m
      BY <1>1, <1>6, <1>8
    <2>2. ASSUME NEW i \in 1..k
          PROVE  kept[i].seq = (seq + m) - k + i
      <3>1. kept[i].seq = seq - n + At(i)
        BY <1>7, <1>8
      <3> QED
        BY <1>1, <1>8, <3>1
    <2> QED
      BY <2>1, <2>2 DEF NumberedFrom, k
  <1>10. SentFrom(socket, new, m, socket')
    BY <1>1, <1>2, <1>3, SendAllFrom
  <1>11. FeedTypes'
    BY <1>1, <1>4, <1>8, <1>10 DEF FeedTypes, SentFrom
  <1>12. FramesAreNumbered'
    BY <1>4, <1>9 DEF FramesAreNumbered
  <1>13. ASSUME NEW e \in 1..Len(socket'.inflight)
         PROVE  /\ socket'.inflight[e].seq <= seq + m
                /\ \A i \in 1..k : kept[i].seq = socket'.inflight[e].seq => kept[i] = socket'.inflight[e]
    <2> DEFINE frame == socket'.inflight[e]
    <2>1. \A i \in 1..k : \E j \in 1..(n + m) : kept[i] = all[j]
      BY <1>8
    <2> HIDE DEF frame
    <2>2. CASE \E j \in 1..Len(socket.inflight) : frame = socket.inflight[j]
      <3>1. frame.seq <= seq /\ \A i \in 1..n : old[i].seq = frame.seq => old[i] = frame
        BY <2>2 DEF FeedInv, InflightIsKnown, seq, n, old
      <3>2. frame.seq \in Nat
        <4>1. socket.inflight \in Seq(Frame)
          BY <1>1 DEF Socket
        <4>2. frame \in Frame
          BY <2>2, <4>1
        <4> QED
          BY <4>2 DEF Frame
      <3>3. ASSUME NEW j \in 1..(n + m), all[j].seq = frame.seq
            PROVE  all[j] = frame
        <4>1. j \in 1..n
          BY <1>1, <1>7, <3>1, <3>2, <3>3
        <4> QED
          BY <1>5, <3>1, <3>3, <4>1
      <3>4. frame.seq <= seq + m
        BY <1>1, <3>1, <3>2
      <3> QED
        BY <2>1, <3>3, <3>4 DEF frame
    <2>3. CASE \E j \in 1..m : frame = new[j]
      <3>1. PICK j \in 1..m : frame = new[j]
        BY <2>3
      <3>2. n + j \in 1..(n + m) /\ n + j \in (n + 1)..(n + m) /\ (n + j) - n = j
        BY <1>1
      <3>3. frame = all[n + j] /\ frame.seq = seq + j
        BY <1>2, <1>5, <3>1, <3>2
      <3>4. ASSUME NEW i \in 1..(n + m), all[i].seq = frame.seq
            PROVE  all[i] = frame
        <4>1. i = n + j
          BY <1>1, <1>7, <3>3, <3>4
        <4> QED
          BY <3>3, <4>1
      <3> QED
        BY <1>1, <2>1, <3>3, <3>4 DEF frame
    <2>4. CASE frame = Control("resync_required")
      <3>1. frame.seq = 0
        BY <2>4 DEF Control
      <3>2. \A j \in 1..(n + m) : all[j].seq # 0
        BY <1>1, <1>6, <1>7
      <3> QED
        BY <1>1, <2>1, <3>1, <3>2 DEF frame
    <2> QED
      BY <1>10, <2>2, <2>3, <2>4 DEF SentFrom, frame
  <1>14. InflightIsKnown'
    BY <1>4, <1>13 DEF InflightIsKnown
  <1>15. NothingIsLost'
    <2> SUFFICES ASSUME coordinator.life = 1
                 PROVE  /\ viewer.cursor <= seq + m
                        /\ \A i \in 1..k :
                               kept[i].type \in Refreshing /\ kept[i].seq > viewer.asked[2] =>
                                   kept[i].seq > viewer.cursor /\ (socket'.open => Coming(socket', kept[i].seq))
      BY <1>4 DEF NothingIsLost
    <2>1. viewer.cursor <= seq /\ viewer.cursor \in Nat
      BY DEF FeedInv, FeedTypes, NothingIsLost, seq
    <2>2. socket'.open = socket.open
      BY <1>10 DEF SentFrom
    <2>3. ASSUME NEW i \in 1..(n + m), all[i].type \in Refreshing, all[i].seq > viewer.asked[2]
          PROVE  all[i].seq > viewer.cursor /\ (socket'.open => Coming(socket', all[i].seq))
      <3>1. CASE i <= n
        <4>1. i \in 1..n /\ all[i] = old[i]
          BY <1>1, <1>5, <3>1
        <4>2. old[i] \in Frame /\ old[i].seq \in Nat
          <5>1. \A j \in 1..Len(old) : old[j] \in Frame
            BY <1>1
          <5> QED
            BY <4>1, <5>1 DEF Frame, n
        <4>3. old[i].seq > viewer.cursor /\ (socket.open => Coming(socket, old[i].seq))
          BY <2>3, <4>1 DEF FeedInv, NothingIsLost, old, n
        <4> QED
          BY <1>1, <1>2, <1>3, <2>2, <4>1, <4>2, <4>3, SendAllKeeps
      <3>2. CASE ~(i <= n)
        <4>1. i - n \in 1..m /\ i \in (n + 1)..(n + m)
          BY <1>1, <3>2
        <4>2. all[i] = new[i - n] /\ all[i].seq = seq + (i - n)
          BY <1>2, <1>5, <4>1
        <4>3. seq + (i - n) \in Nat \ {0} /\ seq + (i - n) > seq
          BY <1>1, <4>1
        <4>4. \A j \in 1..Len(socket.inflight) : socket.inflight[j].seq <= seq /\ socket.inflight[j].seq \in Nat
          <5>1. socket.inflight \in Seq(Frame)
            BY <1>1 DEF Socket
          <5>2. \A j \in 1..Len(socket.inflight) : socket.inflight[j] \in Frame
            BY <5>1
          <5> QED
            BY <5>2 DEF FeedInv, InflightIsKnown, seq, Frame
        <4>5. Below(socket, seq + (i - n), Len(socket.inflight))
          BY <1>1, <4>3, <4>4 DEF Below
        <4>6. \A j \in 1..((i - n) - 1) : new[j].seq < seq + (i - n)
          BY <1>1, <1>2, <4>1
        <4> DEFINE at == i - n
        <4>7. at \in 1..m /\ new[at].seq = seq + at /\ seq + at \in Nat \ {0} /\ seq + at > seq
          BY <4>1, <4>2, <4>3
        <4> HIDE DEF at
        <4>8. socket.open => Coming(SendAll(socket, new), seq + at)
          BY <1>1, <1>2, <4>5, <4>6, <4>7, SendAllBrings DEF at
        <4> QED
          BY <1>1, <1>3, <2>1, <2>2, <4>2, <4>3, <4>8 DEF at
      <3> QED
        BY <3>1, <3>2
    <2>4. viewer.cursor <= seq + m
      BY <1>1, <2>1
    <2>5. \A i \in 1..k : \E j \in 1..(n + m) : kept[i] = all[j]
      BY <1>8
    <2> QED
      BY <2>3, <2>4, <2>5
  <1> QED
    BY <1>11, <1>12, <1>14, <1>15 DEF FeedInv

\* The page asks for a snapshot: of what is shown now, so that nothing is missing until the next change.
LEMMA RefreshStep ==
    ASSUME FeedInv, coordinator' = coordinator, NEW v, viewer' = Refresh(v),
           DOMAIN v = {"cursor", "shown", "asked", "requests", "answers"},
           v.cursor \in Nat, coordinator.life = 1 => v.cursor <= coordinator.seq,
           FeedTypes => socket' \in Socket, InflightIsKnown'
    PROVE  FeedInv'
  <1>1. /\ DOMAIN viewer' = {"cursor", "shown", "asked", "requests", "answers"}
        /\ viewer'.cursor = v.cursor /\ viewer'.asked = <<coordinator.life, coordinator.seq>>
    BY DEF Refresh
  <1>2. FeedTypes'
    BY <1>1 DEF FeedInv, FeedTypes
  <1>3. ASSUME NEW i \in 1..Len(coordinator.frames)
        PROVE  ~(coordinator.frames[i].seq > viewer'.asked[2])
    <2>1. coordinator.frames[i].seq = coordinator.seq - Len(coordinator.frames) + i
      BY DEF FeedInv, FramesAreNumbered, NumberedFrom
    <2>2. viewer'.asked[2] = coordinator.seq
      BY <1>1
    <2>3. coordinator.seq \in Nat /\ Len(coordinator.frames) \in Nat
      BY DEF FeedInv, FeedTypes
    <2> QED
      BY <2>1, <2>2, <2>3
  <1> QED
    BY <1>1, <1>2, <1>3 DEF FeedInv, FramesAreNumbered, NothingIsLost

\* A frame that does not make the page ask was not one it had to ask about, and none is missing before it.
LEMMA ReceiveStep == ASSUME FeedInv, Receive PROVE FeedInv'
  <1> DEFINE h == Head(socket.inflight)
             gap == viewer.cursor # 0 /\ h.seq > viewer.cursor + 1
             moved == [viewer EXCEPT !.cursor = h.seq]
             rest == Tail(socket.inflight)
  <1>1. FeedTypes /\ InflightIsKnown /\ coordinator' = coordinator /\ socket.open
    BY DEF FeedInv, Receive
  <1>2. socket.inflight \in Seq(Frame) /\ socket.inflight # << >>
    BY <1>1 DEF FeedTypes, Socket, Receive
  <1>3. /\ h \in Frame /\ h = socket.inflight[1] /\ 1 \in 1..Len(socket.inflight)
        /\ rest \in Seq(Frame) /\ Len(rest) = Len(socket.inflight) - 1
        /\ \A k \in 1..Len(rest) : rest[k] = socket.inflight[k + 1]
    BY <1>2, HeadTailProperties
  <1> HIDE DEF h, rest
  <1>4. /\ socket' \in Socket /\ socket'.inflight = rest /\ socket'.open = socket.open /\ socket'.backlog = socket.backlog
    <2>1. socket' = [socket EXCEPT !.inflight = rest]
      BY DEF Receive, rest
    <2> QED
      BY <1>1, <1>3, <2>1 DEF FeedTypes, Socket
  <1>5. viewer' = OnMessage(viewer, h)
    BY DEF Receive, h
  <1>6. Len(rest) \in Nat /\ \A k \in 1..Len(rest) : k + 1 \in 1..Len(socket.inflight)
    BY <1>2, <1>3
  <1>7. InflightIsKnown'
    BY <1>1, <1>3, <1>4, <1>6 DEF InflightIsKnown
  <1>8. h.seq \in Nat /\ h.seq <= coordinator.seq
    BY <1>1, <1>3 DEF InflightIsKnown, Frame
  <1>9. /\ DOMAIN viewer = {"cursor", "shown", "asked", "requests", "answers"} /\ viewer.cursor \in Nat
        /\ coordinator.life = 1 => viewer.cursor <= coordinator.seq
    BY DEF FeedInv, FeedTypes, NothingIsLost
  <1>10. /\ DOMAIN moved = {"cursor", "shown", "asked", "requests", "answers"}
         /\ moved.cursor = h.seq /\ moved.asked = viewer.asked
    BY <1>9
  <1> HIDE DEF moved
  \* What was coming behind the frame still is.
  <1>11. ASSUME NEW n \in Nat, Coming(socket, n), ~Asking(h), h.seq # n
         PROVE  h.seq < n /\ Coming(socket', n)
    <2>1. CASE socket.backlog >= MaxQueue /\ Below(socket, n, Len(socket.inflight))
      <3>1. h.seq < n /\ Below(socket', n, Len(rest))
        BY <1>3, <1>4, <1>6, <2>1 DEF Below
      <3> QED
        BY <1>4, <2>1, <3>1 DEF Coming
    <2>2. ASSUME NEW k \in 1..Len(socket.inflight), Asking(socket.inflight[k]) \/ socket.inflight[k].seq = n,
                 Below(socket, n, k - 1)
          PROVE  h.seq < n /\ Coming(socket', n)
      <3>1. k # 1
        BY <1>3, <1>11, <2>2
      <3>2. 1 \in 1..(k - 1) /\ k - 1 \in 1..Len(rest) /\ \A j \in 1..((k - 1) - 1) : j + 1 \in 1..(k - 1) /\ j \in 1..Len(rest)
        BY <1>2, <1>3, <3>1
      <3>3. rest[k - 1] = socket.inflight[k]
        BY <1>3, <3>2
      <3>4. Below(socket', n, (k - 1) - 1)
        BY <1>3, <1>4, <2>2, <3>2 DEF Below
      <3>5. h.seq < n
        BY <1>3, <2>2, <3>2 DEF Below
      <3> QED
        BY <1>4, <2>2, <3>2, <3>3, <3>4, <3>5 DEF Coming
    <2> QED
      BY <1>11, <2>1, <2>2 DEF Coming
  <1>12. CASE h.type \in {"resync", "resync_required"}
    <2>1. viewer' = Refresh(viewer)
      BY <1>5, <1>12 DEF OnMessage
    <2> QED
      BY <1>1, <1>4, <1>7, <1>9, <2>1, RefreshStep
  <1>13. CASE h.type \notin {"hello", "resync", "resync_required"} /\ (gap \/ h.type \in Refreshing)
    <2>1. viewer' = Refresh(moved)
      BY <1>5, <1>13 DEF OnMessage, moved
    <2> QED
      BY <1>1, <1>4, <1>7, <1>8, <1>10, <2>1, RefreshStep
  <1>14. CASE h.type \notin {"resync", "resync_required"} /\ h.type \notin Refreshing /\ viewer' \in {viewer, moved}
    <2>1. FeedTypes'
      BY <1>1, <1>4, <1>8, <1>9, <1>10, <1>14 DEF FeedTypes
    <2>2. NothingIsLost'
      <3> SUFFICES ASSUME coordinator.life = 1
                   PROVE  /\ viewer'.cursor <= coordinator.seq
                          /\ \A i \in 1..Len(coordinator.frames) :
                                 LET frame == coordinator.frames[i]
                                 IN  frame.type \in Refreshing /\ frame.seq > viewer'.asked[2] =>
                                         frame.seq > viewer'.cursor /\ Coming(socket', frame.seq)
        BY <1>1 DEF NothingIsLost
      <3>1. viewer'.asked = viewer.asked /\ viewer'.cursor \in {viewer.cursor, h.seq}
        BY <1>10, <1>14
      <3>2. ASSUME NEW i \in 1..Len(coordinator.frames), coordinator.frames[i].type \in Refreshing,
                   coordinator.frames[i].seq > viewer.asked[2]
            PROVE  coordinator.frames[i].seq > viewer'.cursor /\ Coming(socket', coordinator.frames[i].seq)
        <4> DEFINE frame == coordinator.frames[i]
        <4>1. frame.seq > viewer.cursor /\ Coming(socket, frame.seq)
          BY <1>1, <3>2 DEF FeedInv, NothingIsLost
        <4>2. frame.seq \in Nat
          <5>1. coordinator.frames \in Seq(Frame)
            BY <1>1 DEF FeedTypes
          <5>2. frame \in Frame
            BY <5>1
          <5> QED
            BY <5>2 DEF Frame
        <4>3. h.seq # frame.seq
          BY <1>1, <1>3, <1>14, <3>2 DEF InflightIsKnown
        <4>4. ~Asking(h)
          BY <1>14 DEF Asking
        <4> HIDE DEF frame
        <4>5. h.seq < frame.seq /\ Coming(socket', frame.seq)
          BY <1>11, <4>1, <4>2, <4>3, <4>4
        <4> QED
          BY <1>8, <1>9, <3>1, <4>1, <4>2, <4>5 DEF frame
      <3> QED
        BY <1>8, <1>9, <3>1, <3>2
    <2> QED
      BY <1>1, <1>7, <2>1, <2>2 DEF FeedInv, FramesAreNumbered
  <1>15. CASE h.type = "hello"
    <2>1. viewer' = viewer
      BY <1>5, <1>15 DEF OnMessage
    <2>2. h.type \notin {"resync", "resync_required"} /\ h.type \notin Refreshing
      BY <1>15 DEF Refreshing
    <2> QED
      BY <1>14, <2>1, <2>2
  <1>16. CASE h.type \notin {"hello", "resync", "resync_required"} /\ ~(gap \/ h.type \in Refreshing)
    <2>1. viewer' = moved
      BY <1>5, <1>16 DEF OnMessage, moved
    <2> QED
      BY <1>14, <1>16, <2>1
  <1> QED
    BY <1>12, <1>13, <1>15, <1>16

\* The frames from the one numbered first on, among n: the i-th of all is the (i - first + 1)-th of them.
LEMMA PlaceOfFrame ==
    ASSUME NEW n \in Nat, NEW first \in Nat \ {0}, NEW i \in 1..n, first <= i
    PROVE  /\ first <= n
           /\ i - first + 1 \in 1..(n - first + 1)
           /\ i - first + 1 \in Nat
           /\ first + (i - first + 1) - 1 = i
           /\ \A j \in 2..(i - first + 1) :
                  /\ j - 1 \in 1..(n - first + 1) /\ (j - 1) + 1 = j
                  /\ first + (j - 1) - 1 \in 1..n /\ first + (j - 1) - 1 < i
    OBVIOUS

\* A socket is opened: what the page has not seen is written to it, or that there is such.
LEMMA ConnectStep == ASSUME FeedInv, Connect PROVE FeedInv'
  <1> DEFINE c == [open |-> TRUE, inflight |-> <<>>, backlog |-> 0, dropped |-> 0]
             old == coordinator.frames
             n == Len(old)
             since == viewer.cursor
             hello == <<Control("hello")>>
             resync == <<Control("resync")>>
             missed == FramesSince(coordinator, since)
             all == hello \o missed
  <1>1. /\ FeedTypes /\ old \in Seq(Frame) /\ n \in Nat /\ coordinator.seq \in Nat /\ since \in Nat
        /\ coordinator' = coordinator /\ viewer' = viewer
    BY DEF FeedInv, FeedTypes, Connect
  <1>2. c \in Socket /\ c.open /\ Len(c.inflight) = 0
    BY DEF Socket
  <1>3. socket' = SendAll(c, all)
    BY DEF Connect
  <1>4. n <= coordinator.seq /\ \A i \in 1..n : old[i].seq = coordinator.seq - n + i
    BY DEF FeedInv, FramesAreNumbered, NumberedFrom
  <1>5. hello \in Seq(Frame) /\ Len(hello) = 1 /\ hello[1].seq = 0
    BY DEF Control, Frame, FrameTypes
  <1>6. resync \in Seq(Frame) /\ Len(resync) = 1 /\ resync[1].seq = 0 /\ Asking(resync[1])
    BY DEF Control, Frame, FrameTypes, Asking
  <1> HIDE DEF hello, resync, n, old
  <1>7. Floor(coordinator) = coordinator.seq - n
    <2>1. CASE old = << >>
      <3>1. n = 0
        BY <2>1 DEF n
      <3> QED
        BY <1>1, <2>1, <3>1 DEF Floor, old
    <2>2. CASE old # << >>
      <3>1. 1 \in 1..n
        BY <1>1, <2>2 DEF n
      <3> QED
        BY <1>1, <1>4, <2>2, <3>1 DEF Floor, old
    <2> QED
      BY <2>1, <2>2
  <1> DEFINE first == since - Floor(coordinator) + 1
  \* What is missed is a frame to resync, or the frames from the first one after the cursor.
  <1>8. \/ since < Floor(coordinator) /\ missed = resync
        \/ ~(since < Floor(coordinator)) /\ missed = SubSeq(old, first, n)
    BY DEF FramesSince, resync, old, n
  <1>9. ASSUME ~(since < Floor(coordinator)), missed = SubSeq(old, first, n)
        PROVE  /\ missed \in Seq(Frame) /\ first \in Nat \ {0}
               /\ Len(missed) = IF first <= n THEN n - first + 1 ELSE 0
               /\ \A i \in 1..(n - first + 1) : missed[i] = old[first + i - 1]
    <2>1. first \in Nat \ {0}
      <3> DEFINE floor == Floor(coordinator)
      <3> HIDE DEF missed
      <3>1. floor = coordinator.seq - n /\ ~(since < floor) /\ first = since - floor + 1
        BY <1>7, <1>9
      <3>2. since \in Nat /\ floor \in Int
        BY <1>1, <3>1
      <3> HIDE DEF floor, since, first
      <3> QED
        BY <3>1, <3>2
    <2> HIDE DEF first, missed
    <2>2. \A i \in first..n : old[i] \in Frame
      <3>1. \A i \in 1..n : old[i] \in Frame
        BY <1>1 DEF n
      <3> QED
        BY <1>1, <2>1, <3>1
    <2> QED
      BY <1>1, <1>9, <2>1, <2>2, SubSeqProperties
  <1>10. missed \in Seq(Frame)
    <2> HIDE DEF missed, first
    <2> QED
      BY <1>6, <1>8, <1>9
  <1> HIDE DEF missed, first
  <1>11. /\ all \in Seq(Frame) /\ Len(all) = 1 + Len(missed) /\ all[1] = hello[1]
         /\ \A i \in 1..Len(missed) : all[i + 1] = missed[i]
    <2>1. /\ hello \o missed \in Seq(Frame) /\ Len(hello \o missed) = Len(hello) + Len(missed)
          /\ \A i \in 1..(Len(hello) + Len(missed)) :
                 (hello \o missed)[i] = IF i <= Len(hello) THEN hello[i] ELSE missed[i - Len(hello)]
      BY <1>5, <1>10, ConcatProperties
    <2>2. Len(missed) \in Nat
      BY <1>10
    <2> HIDE DEF all
    <2>3. all = hello \o missed
      BY DEF all
    <2> QED
      BY <1>5, <2>1, <2>2, <2>3
  <1> HIDE DEF all, c
  <1>12. SentFrom(c, all, Len(all), socket')
    BY <1>2, <1>3, <1>11, SendAllFrom
  <1>13. FeedTypes'
    BY <1>1, <1>12 DEF FeedTypes, SentFrom
  <1>14. Len(missed) \in Nat /\ Len(all) \in Nat
    BY <1>10, <1>11
  \* All that is written is of the coordinator's frames, or has no number.
  <1>15. \A i \in 1..Len(all) : all[i].seq = 0 \/ \E j \in 1..n : all[i] = old[j]
    <2>1. \A i \in 1..Len(missed) : missed[i].seq = 0 \/ \E j \in 1..n : missed[i] = old[j]
      <3>1. CASE missed = resync
        <4> SUFFICES ASSUME NEW i \in 1..Len(missed)
                     PROVE  missed[i].seq = 0
          OBVIOUS
        <4>1. Len(missed) = 1 /\ missed[1].seq = 0
          BY <1>6, <3>1
        <4>2. i \in 1..1
          BY <4>1
        <4>3. i = 1
          BY <4>2
        <4> QED
          BY <4>1, <4>3
      <3>2. CASE ~(since < Floor(coordinator)) /\ missed = SubSeq(old, first, n)
        <4> SUFFICES ASSUME NEW i \in 1..Len(missed)
                     PROVE  \E j \in 1..n : missed[i] = old[j]
          OBVIOUS
        <4>1. first \in Nat \ {0} /\ i \in 1..(n - first + 1)
          BY <1>1, <1>9, <3>2
        <4>2. first + i - 1 \in 1..n /\ missed[i] = old[first + i - 1]
          BY <1>1, <1>9, <3>2, <4>1
        <4> QED
          BY <4>2
      <3> QED
        BY <1>8, <3>1, <3>2
    <2> SUFFICES ASSUME NEW i \in 1..Len(all)
                 PROVE  all[i].seq = 0 \/ \E j \in 1..n : all[i] = old[j]
      OBVIOUS
    <2>2. CASE i = 1
      BY <1>5, <1>11, <2>2
    <2>3. CASE i # 1
      <3>1. i - 1 \in 1..Len(missed) /\ (i - 1) + 1 = i
        BY <1>11, <1>14, <2>3
      <3> QED
        BY <1>11, <2>1, <3>1
    <2> QED
      BY <2>2, <2>3
  <1>16. ASSUME NEW e \in 1..Len(socket'.inflight)
         PROVE  /\ socket'.inflight[e].seq <= coordinator.seq
                /\ \A i \in 1..n : old[i].seq = socket'.inflight[e].seq => old[i] = socket'.inflight[e]
    <2> DEFINE frame == socket'.inflight[e]
    <2> HIDE DEF frame
    <2>1. frame.seq = 0 \/ \E j \in 1..n : frame = old[j]
      <3>1. \/ \E j \in 1..Len(c.inflight) : frame = c.inflight[j]
            \/ \E j \in 1..Len(all) : frame = all[j]
            \/ frame = Control("resync_required")
        BY <1>12 DEF SentFrom, frame
      <3> QED
        BY <1>2, <1>15, <3>1 DEF Control
    <2>2. CASE frame.seq = 0
      BY <1>1, <1>4, <2>2 DEF frame
    <2>3. ASSUME NEW j \in 1..n, frame = old[j]
          PROVE  frame.seq <= coordinator.seq /\ \A i \in 1..n : old[i].seq = frame.seq => old[i] = frame
      <3>1. \A i \in 1..n : old[i].seq = frame.seq => i = j
        BY <1>1, <1>4, <2>3
      <3> QED
        BY <1>1, <1>4, <2>3, <3>1
    <2> QED
      BY <2>1, <2>2, <2>3 DEF frame
  <1>17. InflightIsKnown'
    BY <1>1, <1>16 DEF InflightIsKnown, n, old
  <1>18. ASSUME NEW i \in 1..n, old[i].seq > since
         PROVE  Coming(socket', old[i].seq)
    <2> DEFINE m == old[i].seq
    <2>1. m = coordinator.seq - n + i /\ m \in Nat \ {0} /\ m > since
      BY <1>1, <1>4, <1>18
    <2> HIDE DEF m
    <2>2. Below(c, m, Len(c.inflight))
      BY <1>2 DEF Below
    <2>3. CASE since < Floor(coordinator) /\ missed = resync
      <3>1. Len(all) = 2 /\ Asking(all[2]) /\ all[1].seq = 0
        <4>1. 1 \in 1..Len(missed) /\ 1 + 1 = 2
          BY <1>6, <2>3
        <4> QED
          BY <1>5, <1>6, <1>11, <2>3, <4>1
      <3>2. 2 \in 1..Len(all) /\ \A j \in 1..(2 - 1) : all[j].seq < m
        BY <2>1, <3>1
      <3> QED
        BY <1>2, <1>3, <1>11, <2>1, <2>2, <3>1, <3>2, SendAllBrings DEF m
    <2>4. CASE ~(since < Floor(coordinator)) /\ missed = SubSeq(old, first, n)
      <3> DEFINE at == i - first + 1
      <3>1. first \in Nat \ {0} /\ first = since - (coordinator.seq - n) + 1
        BY <1>7, <1>9, <2>4 DEF first
      <3>2. at \in 1..(n - first + 1) /\ first + at - 1 = i /\ first <= n /\ at \in Nat
        <4>1. first <= i /\ i <= n /\ i \in Nat
          BY <1>1, <2>1, <3>1
        <4> QED
          <5>1. n \in Nat /\ i \in 1..n /\ first \in Nat \ {0}
            BY <1>1, <3>1, <4>1 DEF n
          <5> HIDE DEF n
          <5> QED
            BY <4>1, <5>1, PlaceOfFrame
      <3>3. at \in 1..Len(missed) /\ missed[at] = old[i]
        BY <1>9, <2>4, <3>2
      <3>4. at + 1 \in 1..Len(all) /\ all[at + 1] = old[i]
        BY <1>11, <1>14, <3>3
      <3>5. ASSUME NEW j \in 1..((at + 1) - 1)
            PROVE  all[j].seq < m
        <4>1. CASE j = 1
          BY <1>5, <1>11, <2>1, <4>1
        <4>2. CASE j # 1
          <5>1. j \in 2..at
            <6>1. at \in Nat /\ j \in 1..((at + 1) - 1) /\ j # 1
              BY <3>2, <3>5, <4>2
            <6> HIDE DEF at
            <6> QED
              BY <6>1
          <5>2. /\ j - 1 \in 1..(n - first + 1) /\ (j - 1) + 1 = j
                /\ first + (j - 1) - 1 \in 1..n /\ first + (j - 1) - 1 < i
            <6>1. n \in Nat /\ i \in 1..n /\ first \in Nat \ {0} /\ first <= i
              <7>1. at \in 1..(n - first + 1) /\ n \in Nat
                BY <1>1, <3>2 DEF n
              <7> HIDE DEF n
              <7> QED
                BY <3>1, <7>1
            <6> HIDE DEF n
            <6> QED
              BY <5>1, <6>1, PlaceOfFrame
          <5>3. missed[j - 1] = old[first + (j - 1) - 1]
            BY <1>9, <2>4, <5>2
          <5>4. j - 1 \in 1..Len(missed)
            BY <1>9, <2>4, <3>2, <5>2
          <5>5. all[j] = old[first + (j - 1) - 1]
            BY <1>11, <5>2, <5>3, <5>4
          <5> QED
            BY <1>1, <1>4, <2>1, <5>2, <5>5
        <4> QED
          BY <4>1, <4>2
      <3> HIDE DEF at
      <3>6. at + 1 \in 1..Len(all) /\ all[at + 1].seq = m
        BY <3>4 DEF m
      <3> DEFINE place == at + 1
      <3>7. \A j \in 1..(place - 1) : all[j].seq < m
        BY <3>5
      <3>8. place \in 1..Len(all) /\ all[place].seq = m
        BY <3>6
      <3> HIDE DEF place
      <3> QED
        BY <1>2, <1>3, <1>11, <2>1, <2>2, <3>7, <3>8, SendAllBrings DEF m
    <2> QED
      BY <1>8, <2>3, <2>4
  <1>19. NothingIsLost'
    BY <1>1, <1>18 DEF FeedInv, NothingIsLost, n, old
  <1> QED
    BY <1>1, <1>13, <1>17, <1>19 DEF FeedInv, FramesAreNumbered

LEMMA FeedStep == FeedInv /\ [FeedNext]_feedVars => FeedInv'
  <1> SUFFICES ASSUME FeedInv, [FeedNext]_feedVars
               PROVE  FeedInv'
    OBVIOUS
  <1>0. /\ FeedTypes /\ coordinator.life \in Nat \ {0} /\ viewer.cursor \in Nat
        /\ DOMAIN viewer = {"cursor", "shown", "asked", "requests", "answers"}
        /\ DOMAIN coordinator = {"life", "seq", "frames", "last", "focus"}
        /\ coordinator.life = 1 => viewer.cursor <= coordinator.seq
    BY DEF FeedInv, FeedTypes, NothingIsLost
  <1>1. CASE Tick
    <2> DEFINE first == coordinator.last = NothingYet
               changes1 == IF first THEN <<"room.state_changed">> ELSE Differences(coordinator.last, Snapshot)
               moved == If(Focus(Snapshot) # coordinator.focus, "room.focus_changed")
               next == [coordinator EXCEPT !.last = Snapshot, !.focus = Focus(Snapshot)]
    <2>1. Publish(changes1 \o moved, next) /\ viewer' = viewer
      BY <1>1 DEF Tick
    <2>2. /\ DOMAIN next = {"life", "seq", "frames", "last", "focus"}
          /\ next.life = coordinator.life /\ next.seq = coordinator.seq /\ next.frames = coordinator.frames
      BY <1>0
    <2>3. <<"room.state_changed">> \in Seq(FrameTypes) /\ moved \in Seq(FrameTypes)
      <3>1. <<"room.state_changed">> \in Seq(FrameTypes)
        BY DEF FrameTypes, Refreshing
      <3>2. ASSUME NEW holds
            PROVE  If(holds, "room.focus_changed") \in Seq(FrameTypes)
        <4>1. <<"room.focus_changed">> \in Seq(FrameTypes) /\ <<>> \in Seq(FrameTypes)
          BY DEF FrameTypes, Refreshing
        <4> QED
          BY <4>1, Zenon DEF If
      <3> QED
        BY <3>1, <3>2
    <2>4. changes1 \in Seq(FrameTypes)
      BY <2>3, NewsIsSeq
    <2> HIDE DEF changes1, moved, next
    <2>5. changes1 \o moved \in Seq(FrameTypes)
      BY <2>3, <2>4, ConcatProperties
    <2> QED
      BY <2>1, <2>2, <2>5, PublishStep
  <1>2. CASE PresentationFrame
    <2>1. Publish(<<"heartbeat">>, coordinator) /\ viewer' = viewer
      BY <1>2 DEF PresentationFrame
    <2>2. <<"heartbeat">> \in Seq(FrameTypes)
      BY DEF FrameTypes
    <2> QED
      BY <1>0, <2>1, <2>2, PublishStep
  <1>3. CASE ServerAnswers \/ AnswerArrives
    <2>1. /\ coordinator' = coordinator /\ socket' = socket
          /\ DOMAIN viewer' = {"cursor", "shown", "asked", "requests", "answers"}
          /\ viewer'.cursor = viewer.cursor /\ viewer'.asked = viewer.asked
      <3>1. CASE ServerAnswers
        <4>1. viewer' = [viewer EXCEPT !.requests = @ - 1, !.answers = Append(@, Snapshot)]
          BY <3>1 DEF ServerAnswers
        <4> QED
          BY <1>0, <3>1, <4>1 DEF ServerAnswers
      <3>2. CASE AnswerArrives
        <4>1. PICK i \in DOMAIN viewer.answers :
                  viewer' = [viewer EXCEPT !.shown = viewer.answers[i], !.answers = RemoveAt(@, i)]
          BY <3>2 DEF AnswerArrives
        <4> QED
          BY <1>0, <3>2, <4>1 DEF AnswerArrives
      <3> QED
        BY <1>3, <3>1, <3>2
    <2> QED
      BY <2>1 DEF FeedInv, FeedTypes, FramesAreNumbered, InflightIsKnown, NothingIsLost
  <1>4. CASE Poll
    <2>1. viewer' = Refresh(viewer) /\ coordinator' = coordinator /\ socket' = socket
      BY <1>4 DEF Poll
    <2>2. InflightIsKnown' /\ socket' \in Socket
      BY <1>0, <2>1 DEF FeedInv, FeedTypes, InflightIsKnown
    <2> QED
      BY <1>0, <2>1, <2>2, RefreshStep
  <1>5. ASSUME socket' = Disconnected(socket)
        PROVE  /\ socket' \in Socket /\ ~socket'.open
               /\ \A k \in 1..Len(socket'.inflight) : FALSE
    <2>1. socket' = [socket EXCEPT !.open = FALSE, !.inflight = <<>>]
      BY <1>5 DEF Disconnected
    <2>2. <<>> \in Seq(Frame) /\ Len(<<>>) = 0
      OBVIOUS
    <2>3. socket' \in Socket /\ ~socket'.open /\ socket'.inflight = <<>>
      BY <1>0, <2>1, <2>2 DEF FeedTypes, Socket
    <2> QED
      BY <2>2, <2>3
  <1>6. CASE ConnectionBreaks
    <2>1. socket' = Disconnected(socket) /\ coordinator' = coordinator /\ viewer' = viewer
      BY <1>6 DEF ConnectionBreaks
    <2> QED
      BY <1>5, <2>1 DEF FeedInv, FeedTypes, FramesAreNumbered, InflightIsKnown, NothingIsLost
  <1>7. CASE ProcessRestarts
    <2>1. /\ socket' = Disconnected(socket) /\ coordinator' = NewCoordinator(coordinator.life + 1)
          /\ viewer' = [viewer EXCEPT !.requests = 0]
      BY <1>7 DEF ProcessRestarts
    <2>2. /\ DOMAIN viewer' = {"cursor", "shown", "asked", "requests", "answers"}
          /\ viewer'.cursor = viewer.cursor /\ viewer'.asked = viewer.asked
      BY <1>0, <2>1
    <2>3. /\ DOMAIN coordinator' = {"life", "seq", "frames", "last", "focus"}
          /\ coordinator'.life = coordinator.life + 1 /\ coordinator'.seq = 0 /\ coordinator'.frames = <<>>
      BY <2>1 DEF NewCoordinator
    <2>4. FeedTypes'
      <3>1. coordinator.life + 1 \in Nat \ {0} /\ 0 \in Nat
        BY <1>0
      <3>2. <<>> \in Seq(Frame)
        OBVIOUS
      <3>3. /\ coordinator'.life \in Nat \ {0} /\ coordinator'.seq \in Nat
            /\ coordinator'.frames \in Seq(Frame)
        BY <2>3, <3>1, <3>2
      <3>4. socket' \in Socket
        BY <1>5, <2>1
      <3> QED
        BY <1>0, <2>2, <2>3, <3>3, <3>4 DEF FeedTypes
    <2>5. FramesAreNumbered' /\ InflightIsKnown' /\ NothingIsLost'
      BY <1>0, <1>5, <2>1, <2>3 DEF FramesAreNumbered, NumberedFrom, InflightIsKnown, NothingIsLost
    <2> QED
      BY <2>4, <2>5 DEF FeedInv
  <1>8. CASE UNCHANGED feedVars \/ ProjectionChanges
    BY <1>8 DEF feedVars, ProjectionChanges, FeedInv, FeedTypes, FramesAreNumbered, InflightIsKnown, NothingIsLost
  <1> QED
    BY <1>1, <1>2, <1>3, <1>4, <1>6, <1>7, <1>8, ReceiveStep, ConnectStep DEF FeedNext

LEMMA FeedInvariant == FeedSpec => []FeedInv
  BY FeedStart, FeedStep, PTL DEF FeedSpec

\* A viewer whose socket has drained has asked about every change that is retained, for any
\* retention, buffer, queue and set of slots: a frame not yet asked about is on its way, or an
\* announcement that makes up for it is, before anything later (framesSince, _send).
THEOREM NothingMissedKept == FeedSpec => []NothingMissedSilently
  <1>1. FeedInv => NothingMissedSilently
    <2> SUFFICES ASSUME FeedInv, Drained, coordinator.life = 1, NEW i \in DOMAIN coordinator.frames,
                        coordinator.frames[i].type \in Refreshing
                 PROVE  coordinator.frames[i].seq <= viewer.asked[2]
      BY DEF NothingMissedSilently
    <2>1. /\ coordinator.frames \in Seq(Frame) /\ socket.open /\ socket.inflight = <<>> /\ socket.backlog = 0
          /\ viewer.asked \in Nat \X Nat
      BY DEF FeedInv, FeedTypes, Drained
    <2>2. i \in 1..Len(coordinator.frames)
      BY <2>1
    <2>3. coordinator.frames[i] \in Frame
      BY <2>1, <2>2
    <2>4. coordinator.frames[i].seq \in Nat /\ viewer.asked[2] \in Nat
      BY <2>1, <2>3 DEF Frame
    <2>5. ~Coming(socket, coordinator.frames[i].seq)
      BY <2>1, FeedAssumption DEF Coming
    <2> QED
      BY <2>1, <2>2, <2>4, <2>5 DEF FeedInv, NothingIsLost
  <1> QED
    BY <1>1, FeedInvariant, PTL

===============================================================================
