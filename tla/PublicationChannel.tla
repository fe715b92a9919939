--------------------------- MODULE PublicationChannel ---------------------------
(***************************************************************************)
(* How a question becomes a market.  A request in the durable queue passes *)
(* between two processes that hold different keys: the publisher validates *)
(* it and hands it to the gate, the gate's permit server signs a permit or *)
(* refuses, the publisher submits the permit to the room.                  *)
(*                                                                         *)
(* scripts/operator.mjs starts a tick on a timer without waiting for the   *)
(* one before, so the publisher has several Ticks under way at once.  A    *)
(* transaction that was sent stays pending whatever happens to its sender. *)
(* A read of the chain may fail; MaxFaults bounds how often, with          *)
(* timeouts and crashes.                                                   *)
(*                                                                         *)
(* Hashes are what they hash: a permit carries the candidate itself, and   *)
(* the rendering of a question is its template and parameters.             *)
(***************************************************************************)
EXTENDS Integers, Sequences, FiniteSets

CONSTANTS Candidates,          \* what may be asked: records of CandidateType
          Roster,              \* the participants, as the log spells them
          Lower,               \* a participant's name in lower case
          Decisions,            \* the sets of conditions an event may decide
          Ticks,               \* ticks of the publisher that may overlap
          MinAnnounceDelay, MaxPermitAttempts, MaxPermitLifetime, MaxPerTick,
          MaxOpenSlots,        \* the room's cap
          MaxRequests, MaxTip, MaxRequestTime, MaxFaults  \* bounds

ASSUME PublicationAssumption ==
    /\ {MaxPermitAttempts, MaxPermitLifetime, MaxPerTick, MaxOpenSlots} \subseteq Nat \ {0}
    /\ {MinAnnounceDelay, MaxRequests, MaxTip, MaxRequestTime, MaxFaults} \subseteq Nat
    /\ 0 \notin Ticks

VARIABLES
    queue,         \* the requests, by id
    permits,       \* every permit signed, in the order of signing
    \* the room
    slots,         \* the permit each slot was published with
    usedNonce, watermark, roomClosed,
    \* the log: its tip, and the sequence each condition is decided at
    tip, decidedAt,
    pending,       \* transactions sent: [permit, by], by 0 if nobody waits any more
    reverted,      \* ticks whose transaction was mined and reverted
    \* the processes
    tick,          \* [Ticks -> publisher task]
    gate,          \* the permit server's task
    nextNonce, storedNonce,
    clock, faults

queueVars == <<queue, permits>>
roomVars == <<slots, usedNonce, watermark, roomClosed>>
logVars == <<tip, decidedAt>>
txVars == <<pending, reverted>>
gateVars == <<gate, nextNonce, storedNonce>>
channelVars == <<queueVars, roomVars, logVars, txVars, tick, gateVars, clock, faults>>

Templates == {"tpl-participant-v1", "tpl-threshold-v1", "tpl-race-v1"}
OpenStatuses == {"queued", "awaiting_permit", "permitted"}
Ended == {"published", "rejected", "refused", "failed"}
Unnamed == -1

-------------------------------------------------------------------------------
(* The catalogue. *)

\* Which parameters a template asks for, and what each may be.
Required(template) ==
    CASE template = "tpl-participant-v1" -> {"target"}
      [] template = "tpl-threshold-v1" -> {"participant", "metric", "operator", "value"}
      [] OTHER -> {"metric", "operator", "value"}

InRoster(name) == \E p \in Roster : Lower[p] = Lower[name]
Settleable(params) ==
    /\ "participant" \in DOMAIN params => InRoster(params.participant)
    /\ "metric" \in DOMAIN params => params.metric \in {"realized_pnl_usd", "return_pct"}
    /\ "operator" \in DOMAIN params => params.operator \in {">=", ">", "<=", "<"}

Approved(c) == c.templateId \in Templates
Buildable(c) ==
    /\ Required(c.templateId) \subseteq DOMAIN c.params
    /\ Settleable([f \in Required(c.templateId) |-> c.params[f]])
Condition(c) == [template |-> c.templateId,
                 params |-> [f \in Required(c.templateId) |-> c.params[f]]]
Conditions == {Condition(c) : c \in {d \in Candidates : Buildable(d)}}

\* Rendering names the parameters in words, the participant unchecked.
RenderQuestion(c) == <<c.templateId, [f \in Required(c.templateId) |-> c.params[f]]>>
QuestionMatches(c) == c.question = RenderQuestion(c)

-------------------------------------------------------------------------------
(* The queue.  A transition writes whatever the status was. *)

First(ids) == CHOOSE id \in ids : \A other \in ids : id <= other
IdsWith(q, status) == {id \in DOMAIN q : q[id].status = status}

NewRequest(c) == [candidate |-> c, status |-> "queued", permit |-> 0, attempts |-> 0,
                  market |-> 0]
Mark(id, status) == [queue EXCEPT ![id].status = status]
MarkPublished(id, market) ==
    [queue EXCEPT ![id].status = "published", ![id].market = market]
ReopenForPermit(id) ==
    [queue EXCEPT ![id].status = "awaiting_permit", ![id].permit = 0, ![id].attempts = @ + 1]

Submit(c) ==
    /\ Len(queue) < MaxRequests
    /\ queue' = Append(queue, NewRequest(c))
    /\ UNCHANGED <<permits, roomVars, logVars, txVars, tick, gateVars, clock, faults>>

-------------------------------------------------------------------------------
(* The room. *)

PermitAccepted(p) ==
    /\ ~roomClosed
    /\ p.slotIndex = Len(slots)
    /\ p.issuedAt <= clock /\ clock < p.expiresAt
    /\ p.nonce \notin usedNonce
    /\ p.undecidedThrough >= watermark
    /\ Len(slots) < MaxOpenSlots

\* marketForConditionHash: the first slot bound to the condition; 0 if none is.
MarketForCondition(c) ==
    LET bound == {s \in DOMAIN slots : Condition(slots[s].candidate) = Condition(c)}
    IN  IF bound = {} THEN 0 ELSE First(bound)

\* The chain orders pending transactions as it likes.
Mine(tx) ==
    /\ pending' = pending \ {tx}
    /\ LET p == permits[tx.permit] IN
       IF PermitAccepted(p)
       THEN /\ slots' = Append(slots, p)
            /\ usedNonce' = usedNonce \union {p.nonce}
            /\ watermark' = p.undecidedThrough
            /\ UNCHANGED reverted
       ELSE /\ reverted' = reverted \union ({tx.by} \ {0})
            /\ UNCHANGED <<slots, usedNonce, watermark>>
    /\ UNCHANGED <<queueVars, roomClosed, logVars, tick, gateVars, clock, faults>>

\* The gate's own tick: a clearance at the tip, or the session's end.
GateMoves ==
    /\ ~roomClosed
    /\ \/ watermark < tip /\ watermark' = tip /\ UNCHANGED roomClosed
       \/ roomClosed' = TRUE /\ watermark' = tip
    /\ UNCHANGED <<queueVars, slots, usedNonce, logVars, txVars, tick, gateVars, clock, faults>>

\* An event is appended; it may decide conditions.
SourceReports(decides) ==
    /\ tip < MaxTip
    /\ tip' = tip + 1
    /\ decidedAt' = [c \in Conditions |->
                        IF c \in decides /\ decidedAt[c] = Unnamed THEN tip + 1 ELSE decidedAt[c]]
    /\ UNCHANGED <<queueVars, roomVars, txVars, tick, gateVars, clock, faults>>

ClockMoves ==
    /\ clock < MaxRequestTime
    /\ clock' = clock + 1
    /\ UNCHANGED <<queueVars, roomVars, logVars, txVars, tick, gateVars, faults>>

-------------------------------------------------------------------------------
(* The publisher.  A task works on requests as it read them, oldest first. *)

NoTask == [pc |-> "Idle", startedAt |-> 0, work |-> {}, before |-> 0, refusal |-> FALSE,
         next |-> 0]
PermittedIn(q) ==
    {[id |-> id, permit |-> q[id].permit, attempts |-> q[id].attempts] :
        id \in IdsWith(q, "permitted")}
Oldest(work) == CHOOSE r \in work : \A other \in work : r.id <= other.id
Current(t) == Oldest(tick[t].work)
Rest(t) == tick[t].work \ {Current(t)}

\* What the tick does next: the records it has left to publish; then, if nothing is
\* in flight as far as it can see, the first queued request.
Continue(t, work, q) ==
    LET task == [NoTask EXCEPT !.startedAt = tick[t].startedAt]
    IN  [tick EXCEPT ![t] =
            IF work # {} THEN [task EXCEPT !.pc = "Publish", !.work = work]
            ELSE IF /\ IdsWith(q, "awaiting_permit") \union IdsWith(q, "permitted") = {}
                    /\ IdsWith(q, "queued") # {}
            THEN [NoTask EXCEPT !.pc = "Prepare", !.next = First(IdsWith(q, "queued"))]
            ELSE NoTask]

\* A read of the chain that fails.
Fault == faults < MaxFaults /\ faults' = faults + 1
NoFault == UNCHANGED faults

TickStart(t) ==
    /\ tick[t].pc = "Idle"
    /\ tick' = IF PermittedIn(queue) = {} THEN Continue(t, {}, queue)
               ELSE [tick EXCEPT ![t].pc = "Reconcile", ![t].startedAt = clock,
                                 ![t].work = PermittedIn(queue)]
    /\ UNCHANGED <<queueVars, txVars, faults>>

\* A record whose nonce is used was published.  The slot is looked up by its
\* condition, and the record is marked although that may fail.
Reconcile(t) ==
    /\ tick[t].pc = "Reconcile"
    /\ LET r == Current(t)
           used == permits[r.permit].nonce \in usedNonce
       IN  \/ NoFault /\ ~used /\ UNCHANGED queue
           \/ /\ NoFault /\ used
              /\ queue' = MarkPublished(r.id, MarketForCondition(permits[r.permit].candidate))
           \/ Fault /\ UNCHANGED queue
           \/ Fault /\ used /\ queue' = MarkPublished(r.id, 0)
    /\ tick' = IF Rest(t) # {} THEN [tick EXCEPT ![t].work = Rest(t)]
               ELSE Continue(t, PermittedIn(queue'), queue')
    /\ UNCHANGED <<permits, txVars>>

\* The permit is dropped if it expired, by the clock of the tick's start, or is for
\* another slot than the room is at.
CheckPermit(t) ==
    /\ tick[t].pc = "Publish"
    /\ LET r == Current(t)
           permit == permits[r.permit]
           expired == permit.expiresAt <= tick[t].startedAt
       IN  \/ /\ expired /\ NoFault
              /\ queue' = IF r.attempts + 1 >= MaxPermitAttempts
                          THEN Mark(r.id, "failed") ELSE ReopenForPermit(r.id)
              /\ tick' = Continue(t, Rest(t), queue')
           \/ /\ ~expired /\ permit.slotIndex # Len(slots) /\ NoFault
              /\ queue' = ReopenForPermit(r.id)
              /\ tick' = Continue(t, Rest(t), queue')
           \/ /\ ~expired
              /\ IF permit.slotIndex = Len(slots) THEN NoFault ELSE Fault
              /\ tick' = [tick EXCEPT ![t].pc = "Send"]
              /\ UNCHANGED queue
    /\ UNCHANGED <<permits, txVars>>

\* publishSlot simulates, sends, and waits for the receipt.
Send(t) ==
    /\ tick[t].pc = "Send"
    /\ LET r == Current(t) IN
       \/ /\ PermitAccepted(permits[r.permit]) /\ NoFault
          /\ pending' = pending \union {[permit |-> r.permit, by |-> t]}
          /\ tick' = [tick EXCEPT ![t].pc = "Wait", ![t].before = Len(slots)]
          /\ UNCHANGED reverted
       \/ /\ ~PermitAccepted(permits[r.permit]) /\ NoFault
          /\ tick' = [tick EXCEPT ![t].pc = "Catch", ![t].refusal = TRUE]
          /\ UNCHANGED txVars
       \/ /\ Fault
          /\ tick' = [tick EXCEPT ![t].pc = "Catch"]
          /\ UNCHANGED txVars
    /\ UNCHANGED queueVars

Unmined(t) == \E tx \in pending : tx.by = t
Receipt(t) ==
    /\ tick[t].pc = "Wait" /\ ~Unmined(t)
    /\ IF t \in reverted
       THEN /\ NoFault /\ UNCHANGED queue
            /\ tick' = [tick EXCEPT ![t].pc = "Catch", ![t].refusal = TRUE, ![t].before = 0]
       ELSE \/ /\ NoFault
               /\ queue' = MarkPublished(Current(t).id, tick[t].before + 1)
               /\ tick' = Continue(t, Rest(t), queue')
            \/ /\ Fault /\ UNCHANGED queue
               /\ tick' = [tick EXCEPT ![t].pc = "Catch", ![t].before = 0]
    /\ reverted' = reverted \ {t}
    /\ UNCHANGED <<permits, pending>>

\* The wait for a receipt times out.  The transaction stays where it is.
ReceiptTimeout(t) ==
    /\ tick[t].pc = "Wait" /\ Unmined(t)
    /\ Fault
    /\ pending' = {IF tx.by = t THEN [tx EXCEPT !.by = 0] ELSE tx : tx \in pending}
    /\ tick' = [tick EXCEPT ![t].pc = "Catch", ![t].before = 0]
    /\ UNCHANGED <<queueVars, reverted>>

\* After an error: it may have landed anyway; what the room refused has failed, and
\* what could not be delivered stays permitted.
Catch(t) ==
    /\ tick[t].pc = "Catch"
    /\ LET r == Current(t)
           landed == IF permits[r.permit].nonce \in usedNonce
                     THEN MarketForCondition(permits[r.permit].candidate) ELSE 0
           gaveUp == IF tick[t].refusal THEN Mark(r.id, "failed") ELSE queue
       IN  \/ NoFault /\ queue' = IF landed # 0 THEN MarkPublished(r.id, landed) ELSE gaveUp
           \/ Fault /\ landed # 0 /\ queue' = gaveUp
    /\ tick' = Continue(t, Rest(t), queue')
    /\ UNCHANGED <<permits, txVars>>

Prepare(t) ==
    /\ tick[t].pc = "Prepare"
    /\ LET id == tick[t].next
           c == queue[id].candidate
           valid == Approved(c) /\ c.announceDelay >= MinAnnounceDelay /\ Buildable(c)
       IN  queue' = IF valid THEN [queue EXCEPT ![id].status = "awaiting_permit", ![id].permit = 0]
                    ELSE Mark(id, "rejected")
    /\ tick' = [tick EXCEPT ![t] = NoTask]
    /\ UNCHANGED <<permits, txVars, faults>>

TickStep(t) ==
    /\ \/ TickStart(t) \/ Reconcile(t) \/ CheckPermit(t) \/ Send(t)
       \/ Receipt(t) \/ ReceiptTimeout(t) \/ Catch(t) \/ Prepare(t)
    /\ UNCHANGED <<roomVars, logVars, gateVars, clock>>

PublisherCrashes ==
    /\ Fault
    /\ \E t \in Ticks : tick[t].pc # "Idle"
    /\ tick' = [t \in Ticks |-> NoTask]
    /\ pending' = {[tx EXCEPT !.by = 0] : tx \in pending}
    /\ reverted' = {}
    /\ UNCHANGED <<queueVars, roomVars, logVars, gateVars, clock>>

-------------------------------------------------------------------------------
(* The permit server, in the gate's process. *)

GateAtRest == [pc |-> "Idle", work |-> {}, slotIndex |-> 0, evaluated |-> 0, permit |-> <<>>]
NextRequest ==
    LET rest == gate.work \ {First(gate.work)} IN
    IF rest = {} THEN GateAtRest ELSE [GateAtRest EXCEPT !.pc = "Ask", !.work = rest]

ServeStart ==
    /\ gate.pc = "Idle"
    /\ LET waiting == IdsWith(queue, "awaiting_permit")
           served == {id \in waiting : Cardinality({o \in waiting : o < id}) < MaxPerTick}
       IN  /\ waiting # {}
           /\ gate' = [GateAtRest EXCEPT !.pc = "Ask", !.work = served]
    /\ UNCHANGED <<queue, permits, nextNonce, storedNonce, faults>>

\* The slot index is the room's slot count unless the request names one; then the
\* log is read.
Ask ==
    /\ gate.pc = "Ask"
    /\ LET named == queue[First(gate.work)].candidate.slotIndex IN
       \/ /\ gate' = [gate EXCEPT !.pc = "Evaluate", !.evaluated = tip,
                                  !.slotIndex = IF named = Unnamed THEN Len(slots) ELSE named]
          /\ NoFault
       \/ /\ named = Unnamed /\ gate' = NextRequest
          /\ Fault
    /\ UNCHANGED <<queue, permits, nextNonce, storedNonce>>

Undecided(c) ==
    /\ "participant" \in DOMAIN c.params => InRoster(c.params.participant)
    /\ LET at == decidedAt[Condition(c)] IN at = Unnamed \/ at > gate.evaluated

\* requestPermit refuses, or takes a nonce.  It may fail on a read of the chain,
\* and then the request stays where it is.  Halted: the room is suspended, or the
\* source has gone stale.
Evaluate(halted) ==
    /\ gate.pc = "Evaluate"
    /\ LET id == First(gate.work)
           c == queue[id].candidate
           open == ~roomClosed /\ ~halted /\ Undecided(c) /\ QuestionMatches(c)
       IN  \/ /\ ~open /\ NoFault
              /\ queue' = Mark(id, "refused")
              /\ gate' = NextRequest
              /\ UNCHANGED nextNonce
           \/ /\ open /\ NoFault
              /\ gate' = [gate EXCEPT !.pc = "Save", !.permit =
                             [id |-> id, candidate |-> c, slotIndex |-> gate.slotIndex,
                              undecidedThrough |-> tip, issuedAt |-> clock,
                              expiresAt |-> clock + MaxPermitLifetime, nonce |-> nextNonce]]
              /\ nextNonce' = nextNonce + 1
              /\ UNCHANGED queue
           \/ Fault /\ gate' = NextRequest /\ UNCHANGED <<queue, nextNonce>>
    /\ UNCHANGED <<permits, storedNonce>>

\* As if the counter were not saved.
SaveNothing ==
    /\ gate.pc = "Save"
    /\ permits' = Append(permits, gate.permit)
    /\ gate' = [gate EXCEPT !.pc = "Answer"]
    /\ UNCHANGED <<queue, nextNonce, storedNonce, faults>>

\* The counter is saved before the permit is handed out.
Save ==
    /\ gate.pc = "Save"
    /\ storedNonce' = nextNonce
    /\ permits' = Append(permits, gate.permit)
    /\ gate' = [gate EXCEPT !.pc = "Answer"]
    /\ UNCHANGED <<queue, nextNonce, faults>>

Answer ==
    /\ gate.pc = "Answer"
    /\ queue' = [queue EXCEPT ![First(gate.work)].status = "permitted",
                             ![First(gate.work)].permit = Len(permits)]
    /\ gate' = NextRequest
    /\ UNCHANGED <<permits, nextNonce, storedNonce, faults>>

GateStep ==
    /\ \/ ServeStart \/ Ask \/ Save \/ Answer
       \/ \E halted \in BOOLEAN : Evaluate(halted)
    /\ UNCHANGED <<roomVars, logVars, txVars, tick, clock>>

\* The counter resumes from what was saved.
GateCrashes ==
    /\ gate.pc # "Idle"
    /\ Fault
    /\ gate' = GateAtRest /\ nextNonce' = storedNonce
    /\ UNCHANGED <<queueVars, roomVars, logVars, txVars, tick, storedNonce, clock>>

-------------------------------------------------------------------------------
ChannelInit ==
    /\ queue = <<>> /\ permits = <<>>
    /\ slots = <<>> /\ usedNonce = {} /\ watermark = 0 /\ roomClosed = FALSE
    /\ tip = 0 /\ decidedAt = [c \in Conditions |-> Unnamed]
    /\ pending = {} /\ reverted = {}
    /\ tick = [t \in Ticks |-> NoTask]
    /\ gate = GateAtRest /\ nextNonce = 1 /\ storedNonce = 1
    /\ clock = 0 /\ faults = 0

Environment ==
    \/ \E c \in Candidates : Submit(c)
    \/ \E decides \in Decisions : SourceReports(decides)
    \/ GateMoves \/ ClockMoves \/ PublisherCrashes \/ GateCrashes

ChannelNext ==
    \/ Environment
    \/ \E t \in Ticks : TickStep(t)
    \/ GateStep
    \/ \E tx \in pending : Mine(tx)

\* The timers start tick after tick, and the chain mines what was sent.  Nothing
\* else is relied on.
ChannelFairness ==
    /\ \A t \in Ticks : WF_channelVars(TickStep(t))
    /\ WF_channelVars(GateStep)
    /\ WF_channelVars(\E tx \in pending : Mine(tx))

ChannelSpec == ChannelInit /\ [][ChannelNext]_channelVars
FairChannelSpec == ChannelSpec /\ ChannelFairness

-------------------------------------------------------------------------------
(* Properties. *)

\* requestPermit: a crash between signing and saving never lets the next start
\* reissue a nonce, so no two permits carry the same one.
NoncesNeverReissued ==
    \A p, q \in DOMAIN permits : permits[p].nonce = permits[q].nonce => p = q

\* A published record names a slot with its own condition and its own words: the gate
\* takes the market's condition document from it.
PublishedNamesOwnMarket ==
    \A id \in DOMAIN queue :
        queue[id].status = "published" /\ queue[id].market # 0 =>
            /\ queue[id].market \in DOMAIN slots
            /\ LET shown == slots[queue[id].market].candidate
                   asked == queue[id].candidate
               IN  Condition(shown) = Condition(asked) /\ shown.question = asked.question

\* What a market says is what settles it, by a rule this build can evaluate and about
\* a participant of the room, and it was open at the sequence its permit evaluated.
MarketsStateTheirRule ==
    \A s \in DOMAIN slots :
        LET c == slots[s].candidate IN
        Approved(c) /\ Buildable(c) /\ QuestionMatches(c)

\* A nonce is never signed twice, a published record names the market of its own question,
\* and every market is of the rule its words state (GateAuthority.issuePermit, QueuedPublisher).
PublicationHolds == NoncesNeverReissued /\ PublishedNamesOwnMarket /\ MarketsStateTheirRule

\* Every request ends, whatever is lost or restarted on the way.
RequestsEnd == <>[](\A id \in DOMAIN queue : queue[id].status \in Ended)

\* doc: the record of a transaction that landed "is updated instead of a second
\* market being published".
PublishedOnce ==
    \A s, r \in DOMAIN slots : slots[s].id = slots[r].id => s = r

===============================================================================
