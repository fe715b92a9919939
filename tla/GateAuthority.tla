----------------------------- MODULE GateAuthority -----------------------------
(***************************************************************************)
(* services/live-room: the process that holds the gate key, beside the     *)
(* processes it does not wait for.  The connector polls the provider for   *)
(* one participant after the other and appends what it finds to the        *)
(* Session Event Log; the gate reads the log, evaluates each market's      *)
(* condition and calls the room; the publisher opens slots and users       *)
(* submit actions meanwhile.  A step of the gate lies between two awaits   *)
(* of authority.mjs after which what it read matters.                      *)
(*                                                                         *)
(* The room and its markets are RoomGate's.  An event is a heartbeat or a  *)
(* fill; of a fill only which markets it decides, or makes unevaluable,    *)
(* matters.  Corrections and the arithmetic of conditions are left out.    *)
(***************************************************************************)
EXTENDS RoomGate, FiniteSetsExt, SequencesExt

CONSTANTS Roster,              \* the participants, in the order they are polled
          FreshnessThreshold, UnevaluableGrace, MaxPendingTime,
          Fills,               \* what one fill may do: markets it decides, markets it breaks
          MaxFills,            \* bound: fills ever
          MaxEvents,           \* bound: events in the log
          MaxQueues,           \* bound: epochs of markets that hold actions
          MaxFailures          \* bound: ticks of the gate that fail or are cut short

ASSUME GateAssumption ==
    /\ {FreshnessThreshold, UnevaluableGrace, MaxPendingTime} \subseteq Nat \ {0}
    /\ {MaxFills, MaxEvents, MaxQueues, MaxFailures} \subseteq Nat
    /\ Fills \subseteq [decides : SUBSET Slot, breaks : SUBSET Slot]
    /\ Roster \in Seq(Range(Roster))
    /\ 0 \in Slot                       \* the headline

VARIABLES
    \* the source and its log
    occurred,          \* the provider's fills, by trade id: [by, at, effect]
    log,               \* the events, by sequence: [at, fill], fill 0 a heartbeat
    \* the markets' queues, as the gate asks about them, and the publication record
    submitted,         \* [Slot -> SUBSET Epoch]: epochs that hold actions
    processed,         \* [Slot -> SUBSET Epoch]: those whose actions are all processed
    recorded,          \* markets whose condition document is recorded
    \* the gate
    pc,
    conditions,        \* [Slot -> {"None", "Unverifiable", "Loaded"}]
    unevaluableSince,  \* [Slot -> Time, or Never]
    evaluated,         \* events: the sequence up to which store.all() was read
    openRead,          \* the open slots as read when the tick began
    decision,          \* the sequence to close at; 0 is the tip
    closing,           \* toClose
    tipRead, toClear,  \* the clearance about to be sent
    failures

sourceVars == <<occurred, log>>
queueVars == <<submitted, processed>>
taskVars == <<evaluated, openRead, decision, closing, tipRead, toClear>>
gateProcessVars == <<pc, conditions, unevaluableSince, taskVars, failures>>
authorityVars == <<roomGateVars, sourceVars, queueVars, recorded, gateProcessVars>>

Never == MaxTime + 1
Headline == 0
OpenSlots == {s \in Published : gateState[s] # "Closed"}

\* A finite set of numbers in ascending order: slots as they are listed in a batch,
\* fills by trade id.
Ascending(S) == CHOOSE list \in [1 .. Cardinality(S) -> S] :
                    \A i, j \in DOMAIN list : i < j => list[i] < list[j]

GateProcessInit ==
    /\ pc = "Idle"
    /\ conditions = [s \in Slot |-> "None"]
    /\ unevaluableSince = [s \in Slot |-> Never]
    /\ evaluated = 0 /\ openRead = {} /\ decision = 0 /\ closing = {}
    /\ tipRead = 0 /\ toClear = <<>>
    /\ failures = 0

\* A new room and an empty log.
AuthorityInit ==
    /\ RoomGateInit
    /\ occurred = <<>> /\ log = <<>>
    /\ submitted = [s \in Slot |-> {}] /\ processed = [s \in Slot |-> {}] /\ recorded = {}
    /\ GateProcessInit

\* A session under way: the headline was published and recorded in epoch 0, and
\* the deposit of that epoch has been cleared, at a heartbeat of its end, and
\* executed.
SessionStart == EpochDuration + SourceFinalityDelay
Only(s, value, others) == [r \in Slot |-> IF r = s THEN value ELSE others]
SessionInit ==
    /\ now = SessionStart
    /\ lastObservedSequence = 1 /\ lastGateActivityAt = now
    /\ roomClosedSequence = 0 /\ roomClosedAt = 0 /\ closedByStall = FALSE
    /\ usedNonce = {Headline} /\ slotCount = 1
    /\ openSlots = <<Headline>> /\ openIndexPlusOne = Only(Headline, 1, 0)
    /\ gateState = [s \in Slot |-> "Open"]
    /\ closedEpoch = [s \in Slot |-> 0] /\ decisiveSequence = [s \in Slot |-> 0]
    /\ lastSafeSequence = Only(Headline, 1, 0)
    /\ epochSafeSequence = Only(Headline, [e \in Epoch |-> IF e = 0 THEN 1 ELSE 0],
                                [e \in Epoch |-> 0])
    /\ funded = Only(Headline, TRUE, FALSE) /\ final = [s \in Slot |-> FALSE]
    /\ occurred = <<>> /\ log = <<[at |-> EpochDuration, fill |-> 0]>>
    /\ submitted = Only(Headline, {0}, {}) /\ processed = submitted
    /\ recorded = {Headline}
    /\ GateProcessInit

-------------------------------------------------------------------------------
(* The source and the connector. *)

FillOccurs(p, effect) ==
    /\ now <= Horizon
    /\ Len(occurred) < MaxFills
    /\ occurred' = Append(occurred, [by |-> p, at |-> now, effect |-> effect])
    /\ UNCHANGED log

\* ingestBatch drops what the log has already.
Logged(n) == \E i \in DOMAIN log : log[i].fill = n
NewFills(p) == Ascending({n \in DOMAIN occurred : occurred[n].by = p /\ ~Logged(n)})

\* A round reads the window of one participant after the other.  It throws at the
\* first whose provider does not answer, and what it found before is in the log.
PollOnce(answered) ==
    LET found[i \in 0 .. answered] ==
            IF i = 0 THEN <<>> ELSE found[i - 1] \o NewFills(Roster[i])
        fills == found[answered]
        beat == [at |-> now, fill |-> 0]
    IN
    /\ log' = IF fills # <<>>
              THEN log \o [i \in DOMAIN fills |-> [at |-> occurred[fills[i]].at, fill |-> fills[i]]]
              ELSE IF answered = Len(Roster) /\ beat \notin Range(log) THEN Append(log, beat)
              ELSE log
    /\ Len(log') <= MaxEvents
    /\ UNCHANGED occurred

Source ==
    /\ \/ \E p \in Range(Roster), effect \in Fills : FillOccurs(p, effect)
       \/ \E answered \in 0 .. Len(Roster) : PollOnce(answered)
    /\ UNCHANGED <<roomGateVars, queueVars, recorded, gateProcessVars>>

-------------------------------------------------------------------------------
(* The users and the publisher. *)

SubmitAction(s) ==
    /\ now <= Horizon
    /\ s \in Published /\ gateState[s] = "Open"
    /\ Cardinality({q \in Slot \X Epoch : q[2] \in submitted[q[1]]}) < MaxQueues
    /\ CurrentEpoch \notin submitted[s]
    /\ submitted' = [submitted EXCEPT ![s] = @ \cup {CurrentEpoch}]
    /\ UNCHANGED <<roomGateVars, sourceVars, processed, recorded, gateProcessVars>>

\* The permit was signed at some sequence of the log, and may be older than an
\* event, an outage or a decision.
Publish(seq) ==
    /\ PublishSlot(TRUE, [slotIndex |-> slotCount, undecidedThrough |-> seq,
                          announceDelay |-> MinAnnounceDelay, issuedAt |-> now,
                          expiresAt |-> now + 1, nonce |-> slotCount,
                          headlineTemplate |-> TRUE])
    /\ UNCHANGED <<sourceVars, queueVars, recorded, gateProcessVars>>

\* Faulty: recorded before the transaction.
RecordEarly(s) ==
    /\ s \in Slot \ recorded
    /\ recorded' = recorded \cup {s}
    /\ UNCHANGED <<roomGateVars, sourceVars, queueVars, gateProcessVars>>

\* markPublished, after the transaction: or never, if the publisher is lost.
RecordPublished(s) ==
    /\ s \in Published \ recorded
    /\ recorded' = recorded \cup {s}
    /\ UNCHANGED <<roomGateVars, sourceVars, queueVars, gateProcessVars>>

Others ==
    \/ Tick /\ UNCHANGED <<sourceVars, queueVars, recorded, gateProcessVars>>
    \/ CloseRoomOnGateStall /\ UNCHANGED <<sourceVars, queueVars, recorded, gateProcessVars>>
    \/ \E s \in Slot : SubmitAction(s) \/ RecordPublished(s)
    \/ \E seq \in DOMAIN log : Publish(seq)

-------------------------------------------------------------------------------
(* The gate: what it knows. *)

Decides(i, s) == log[i].fill # 0 /\ s \in occurred[log[i].fill].effect.decides
Decisive(s, upTo) == {i \in DOMAIN log : i <= upTo /\ Decides(i, s)}

\* The event that decided, in the provider's order and not in the log's.
DecisionSeq(s, upTo) ==
    CHOOSE i \in Decisive(s, upTo) : \A j \in Decisive(s, upTo) : log[i].fill <= log[j].fill

\* A fill whose facts the fold cannot use ends the evaluation where it stands.
Breaks(i, s) == log[i].fill # 0 /\ s \in occurred[log[i].fill].effect.breaks
Broken(s, upTo) ==
    \E i \in DOMAIN log : /\ i <= upTo /\ Breaks(i, s)
                          /\ \A j \in Decisive(s, upTo) : log[i].fill < log[j].fill

Status(s, upTo) ==
    CASE conditions[s] = "None" -> "throws"
      [] conditions[s] = "Unverifiable" \/ (conditions[s] = "Loaded" /\ Broken(s, upTo)) -> "unevaluable"
      [] OTHER -> IF Decisive(s, upTo) = {} THEN "undecided" ELSE "decided"

HeadlineStatus == IF Headline \in OpenSlots THEN Status(Headline, Len(log)) ELSE "undecided"
Micros == OpenSlots \ {Headline}

\* _markUnevaluable and _clearUnevaluable.
Since(s) == IF Status(s, Len(log)) # "unevaluable" THEN Never
            ELSE IF unevaluableSince[s] = Never THEN now ELSE unevaluableSince[s]
Mark(slots) ==
    unevaluableSince' = [s \in Slot |-> IF s \in slots THEN Since(s) ELSE unevaluableSince[s]]
GraceOver(s) == Since(s) # Never /\ now - Since(s) >= UnevaluableGrace

FreshTip == log # <<>> /\ now - Last(log).at <= FreshnessThreshold
RoomSequence(seq) == IF seq > lastObservedSequence THEN seq ELSE lastObservedSequence
\* Faulty: the decisive sequence as it is, behind the watermark or not.
GateClosingSequenceAsDecided(seq) == seq

GateClosingSequence(seq) == IF seq > lastObservedSequence THEN seq ELSE lastObservedSequence + 1

Frozen(s) == gateState[s] = "Suspended"
SomeOpenSlotSuspended == \E s \in OpenSlots : Frozen(s)

\* Faulty: one frozen slot is taken for a frozen room.
AnyOpenSlotSuspended == SomeOpenSlotSuspended

EveryOpenSlotSuspended == OpenSlots # {} /\ \A s \in OpenSlots : Frozen(s)

-------------------------------------------------------------------------------
(* The gate: a tick, from one await to the next.  A call that the room     *)
(* refuses throws, and the next tick starts over.                          *)

GoTo(next) == pc' = next /\ UNCHANGED <<conditions, unevaluableSince, taskVars, failures>>
TickOver ==
    /\ pc' = "Idle"
    /\ evaluated' = 0 /\ openRead' = {} /\ decision' = 0 /\ closing' = {}
    /\ tipRead' = 0 /\ toClear' = <<>>
    /\ UNCHANGED <<conditions, unevaluableSince>>
Ends == TickOver /\ UNCHANGED failures

\* syncConditions.
SyncConditions ==
    /\ pc = "Idle"
    /\ conditions' = [s \in Slot |-> IF s \notin OpenSlots THEN conditions[s]
                                     ELSE IF s \in recorded THEN "Loaded" ELSE "Unverifiable"]
    /\ pc' = "Start"
    /\ UNCHANGED <<roomGateVars, unevaluableSince, taskVars, failures>>

\* The tick reads the log and the room, decides, and begins to act.  What it read
\* is kept for as long as the tick uses it.
Start(next, open, seq, decisive, toClose) ==
    /\ pc = "Start"
    /\ pc' = next
    /\ openRead' = open /\ evaluated' = seq
    /\ decision' = decisive /\ closing' = toClose
    /\ UNCHANGED <<roomGateVars, conditions, tipRead, toClear, failures>>

StartClosed ==
    /\ RoomIsClosed
    /\ Start("AfterClose", {}, 0, 0, {}) /\ UNCHANGED unevaluableSince

\* A slot published after syncConditions has no condition: conditionFor throws.
StartThrows ==
    LET thrown == {s \in OpenSlots : Status(s, Len(log)) = "throws"} IN
    /\ pc = "Start" /\ ~RoomIsClosed
    /\ HeadlineStatus \in {"throws", "undecided"} /\ thrown # {}
    /\ Mark({s \in OpenSlots : \A r \in thrown : s < r})
    /\ pc' = "Idle"
    /\ UNCHANGED <<roomGateVars, conditions, taskVars, failures>>

StartDecided ==
    /\ ~RoomIsClosed /\ HeadlineStatus = "decided"
    /\ Start("CloseRoom", OpenSlots, 0, DecisionSeq(Headline, Len(log)), {}) /\ UNCHANGED unevaluableSince

StartUnevaluable ==
    /\ ~RoomIsClosed /\ HeadlineStatus = "unevaluable"
    /\ Mark({Headline})
    /\ Start(IF GraceOver(Headline) THEN "SuspendAndClose" ELSE "Suspend",
             OpenSlots, 0, 0, {})

StartUndecided ==
    LET decided == {s \in Micros : Status(s, Len(log)) = "decided"}
        broken == {s \in Micros : GraceOver(s)}
    IN
    /\ ~RoomIsClosed /\ HeadlineStatus = "undecided"
    /\ \A s \in OpenSlots : Status(s, Len(log)) # "throws"
    /\ Mark(OpenSlots)
    /\ Start(IF decided \cup broken = {} THEN "Freshness" ELSE "CloseSlots",
             {}, Len(log),
             Max({DecisionSeq(s, Len(log)) : s \in decided}
                      \cup {lastObservedSequence : s \in broken} \cup {0}),
             decided \cup broken)

\* _suspend and _reopen.
SuspendIfNeeded ==
    IF EveryOpenSlotSuspended THEN UNCHANGED roomGateVars
    ELSE SuspendRoom(RoomSequence(Len(log)))

ReopenIfNeeded ==
    IF SomeOpenSlotSuspended THEN ReopenRoom(RoomSequence(Len(log)))
    ELSE UNCHANGED roomGateVars

SuspendUnevaluable ==
    \/ pc = "Suspend" /\ SuspendIfNeeded /\ Ends
    \/ pc = "SuspendAndClose" /\ SuspendIfNeeded /\ GoTo("CloseRoom")

\* The decision closes the room, or the grace period does, at the tip.
CloseTheRoom ==
    /\ pc = "CloseRoom"
    /\ CloseRoom(GateClosingSequence(IF decision = 0 THEN Len(log) ELSE decision))
    /\ GoTo("CloseRest")

CloseRest ==
    /\ pc = "CloseRest"
    /\ Cardinality(openRead) <= MAX_BATCH
    /\ CloseRemainingSlots(Ascending(openRead))
    /\ Ends

CloseDecidedSlots ==
    /\ pc = "CloseSlots"
    /\ Cardinality(closing) <= MAX_BATCH
    /\ CloseSlots(GateClosingSequence(decision), Ascending(closing))
    /\ pc' = "Freshness"
    /\ decision' = 0 /\ closing' = {}
    /\ UNCHANGED <<conditions, unevaluableSince, evaluated, openRead, tipRead, toClear, failures>>

\* A stale source clears nothing.
CheckFreshness ==
    /\ pc = "Freshness"
    /\ IF FreshTip THEN ReopenIfNeeded /\ GoTo("Clear") ELSE SuspendIfNeeded /\ Ends

Lookback == Max({3, (MaxPendingTime + EpochDuration - 1) \div EpochDuration + 1})
HasPendingActions(s, e) == e \in submitted[s]

\* Faulty: the source's time is not looked at.
CandidatesByClock(s) ==
    {e \in 0..(CurrentEpoch - 1) : /\ HasPendingActions(s, e)
                                  /\ e >= CurrentEpoch - Lookback
                                  /\ now >= (e + 1) * EpochDuration + SourceFinalityDelay
                                  /\ ~EpochSafe(s, e)}

\* The epochs whose clearing would be in time and would do something.
Candidates(s) ==
    {e \in 0..(CurrentEpoch - 1) : /\ HasPendingActions(s, e)
                                  /\ e >= CurrentEpoch - Lookback
                                  /\ now >= (e + 1) * EpochDuration + SourceFinalityDelay
                                  /\ Last(log).at >= (e + 1) * EpochDuration
                                  /\ ~EpochSafe(s, e)}

\* At most one epoch of a market, the oldest.  The events are those the tick
\* began with; the tip is read anew.
ChooseEpochs ==
    LET undecided == {s \in OpenSlots : Status(s, evaluated) = "undecided"}
        clearable == {s \in undecided : Candidates(s) # {}}
    IN
    /\ pc = "Clear"
    /\ \A s \in OpenSlots : log # <<>> => Status(s, evaluated) # "throws"
    /\ IF log = <<>> \/ clearable = {} THEN pc' = "Drain" /\ UNCHANGED <<tipRead, toClear>>
       ELSE /\ pc' = "Send"
            /\ tipRead' = Len(log)
            /\ toClear' = [s \in clearable |-> Min(Candidates(s))]
    /\ evaluated' = 0
    /\ UNCHANGED <<roomGateVars, conditions, unevaluableSince, openRead, decision, closing, failures>>

SendClearance ==
    /\ pc = "Send"
    /\ Cardinality(DOMAIN toClear) <= MAX_BATCH
    /\ MarkRoomEpochsSafe(RoomSequence(tipRead), toClear)
    /\ GoTo("Process")

\* Faulty: what is to be refunded is left in the queue.
ProcessRoomExecuting(epochOf) ==
    LET executed == {s \in DOMAIN epochOf : EpochSafe(s, epochOf[s])} IN
    /\ processed' = [s \in Slot |-> IF s \in executed THEN processed[s] \cup {epochOf[s]}
                                    ELSE processed[s]]
    /\ funded' = [s \in Slot |-> funded[s] \/ s \in executed]
    /\ UNCHANGED <<now, roomVars, gateVars, final, submitted>>

\* processRoom runs a queue to its end: it executes, or refunds, every action of an
\* epoch that is safe, or that a closed market will not execute.  A queue holds a
\* deposit, so one that executes funds the market.
ProcessRoom(epochOf) ==
    LET refunds(s) == gateState[s] = "Closed" /\ epochOf[s] >= closedEpoch[s]
        executed == {s \in DOMAIN epochOf : EpochSafe(s, epochOf[s])}
        done == executed \cup {s \in DOMAIN epochOf : refunds(s)}
    IN
    /\ processed' = [s \in Slot |-> IF s \in done THEN processed[s] \cup {epochOf[s]}
                                    ELSE processed[s]]
    /\ funded' = [s \in Slot |-> funded[s] \/ s \in executed]
    /\ UNCHANGED <<now, roomVars, gateVars, final, submitted>>

\* Only what the chain says is safe.
ProcessCleared ==
    /\ pc = "Process"
    /\ ProcessRoom([s \in {r \in DOMAIN toClear : EpochSafe(r, toClear[r])} |-> toClear[s]])
    /\ GoTo("Drain")

\* _drainClosedEpochs: one epoch of each closed market, which it closed in or after.
RefundWindow(s) == closedEpoch[s]..CurrentEpoch
UnprocessedActions(s, e) == e \in submitted[s] \ processed[s]
Owed(s) == {e \in RefundWindow(s) : gateState[s] = "Closed" /\ ~final[s] /\ UnprocessedActions(s, e)}
Owing == {s \in Published : Owed(s) # {}}
Drain ==
    /\ pc = "Drain"
    /\ Cardinality(Owing) <= MAX_BATCH
    /\ ProcessRoom([s \in Owing |-> Min(Owed(s))])
    /\ Ends

\* _afterClose.
AfterClose ==
    /\ pc = "AfterClose"
    /\ IF OpenSlots = {} THEN UNCHANGED roomGateVars
       ELSE Cardinality(OpenSlots) <= MAX_BATCH /\ CloseRemainingSlots(Ascending(OpenSlots))
    /\ GoTo("Drain")

\* What makes a step of the tick throw.
Refused ==
    /\ \/ RoomIsClosed /\ \/ pc \in {"CloseRoom", "CloseSlots", "Send"}
                          \/ pc \in {"Suspend", "SuspendAndClose"} /\ ~EveryOpenSlotSuspended
                          \/ pc = "Freshness" /\ IF FreshTip THEN SomeOpenSlotSuspended
                                                 ELSE ~EveryOpenSlotSuspended
       \/ pc = "CloseRest" /\ Cardinality(openRead) > MAX_BATCH
       \/ pc = "CloseSlots" /\ Cardinality(closing) > MAX_BATCH
       \/ pc = "Send" /\ Cardinality(DOMAIN toClear) > MAX_BATCH
       \/ pc = "Drain" /\ Cardinality(Owing) > MAX_BATCH
       \/ pc = "AfterClose" /\ Cardinality(OpenSlots) > MAX_BATCH
       \/ pc = "Clear" /\ \E s \in OpenSlots : log # <<>> /\ Status(s, evaluated) = "throws"
    /\ Ends
    /\ UNCHANGED roomGateVars

\* A crash, a transport failure, or a call that lost a race with a publication.
Fails ==
    /\ pc # "Idle" /\ failures < MaxFailures
    /\ TickOver
    /\ failures' = failures + 1
    /\ UNCHANGED roomGateVars

GateStep ==
    /\ \/ /\ \/ SyncConditions
             \/ StartClosed \/ StartThrows \/ StartDecided \/ StartUnevaluable \/ StartUndecided
             \/ SuspendUnevaluable \/ CloseTheRoom \/ CloseRest \/ CloseDecidedSlots
             \/ CheckFreshness \/ ChooseEpochs \/ SendClearance \/ AfterClose \/ Refused
          /\ UNCHANGED queueVars
       \/ ProcessCleared \/ Drain
    /\ UNCHANGED <<sourceVars, recorded>>

AuthorityNext ==
    \/ Others
    \/ Source
    \/ GateStep
    \/ Fails /\ UNCHANGED <<sourceVars, queueVars, recorded>>

AuthoritySpec == AuthorityInit /\ [][AuthorityNext]_authorityVars
SessionSpec == SessionInit /\ [][AuthorityNext]_authorityVars

\* The gate's process loops for ever and time passes; nothing else is relied on.
AuthorityFairness ==
    /\ WF_authorityVars(GateStep)
    /\ WF_authorityVars(Tick /\ UNCHANGED <<sourceVars, queueVars, recorded, gateProcessVars>>)
FairSessionSpec == SessionSpec /\ AuthorityFairness

-------------------------------------------------------------------------------
GateProcessTypeOK ==
    /\ occurred \in Seq([by : Range(Roster), at : Time, effect : Fills])
    /\ log \in Seq([at : Time, fill : 0 .. Len(occurred)])
    /\ \A s \in Slot : processed[s] \subseteq submitted[s] /\ submitted[s] \subseteq Epoch
    /\ recorded \subseteq Published
    /\ unevaluableSince \in [Slot -> Time \cup {Never}]
    /\ evaluated \in 0 .. Len(log) /\ tipRead \in 0 .. Len(log)
    /\ DOMAIN toClear \subseteq Published

\* An epoch is marked safe only if it holds actions and an event from after its end
\* was in the log by then: whatever was read before the calls in between.
ClearedPastItsEnd ==
    \A s \in Slot, e \in Epoch : EpochSafe(s, e) =>
        /\ e \in submitted[s]
        /\ \E i \in DOMAIN log : i <= epochSafeSequence[s][e] /\ log[i].at >= (e + 1) * EpochDuration

UnevaluableFor(s, grace) == unevaluableSince[s] # Never /\ unevaluableSince[s] + grace <= now
DecidedBy(s, seq) == \E i \in DOMAIN log : i <= seq /\ Decides(i, s)
GateWasSilent == closedByStall /\ roomClosedAt >= lastGateActivityAt + GateStallTimeout

\* A room closes only when the log decided its headline by then, when the headline
\* could not be evaluated for the grace period, or on a stall of the gate.
RoomClosedForAReason ==
    RoomIsClosed => \/ DecidedBy(Headline, roomClosedSequence)
                    \/ UnevaluableFor(Headline, UnevaluableGrace)
                    \/ GateWasSilent

\* And a market, only with its room or for a reason of its own.
MarketClosedForAReason ==
    \A s \in Slot : gateState[s] = "Closed" =>
        \/ RoomIsClosed /\ decisiveSequence[s] = roomClosedSequence
        \/ DecidedBy(s, decisiveSequence[s])
        \/ UnevaluableFor(s, UnevaluableGrace)

\* What the gate has told the room, the log bears out: however ticks are cut short,
\* whatever is published, submitted or logged between what a tick read and what it calls.
GateHasReasons == ClearedPastItsEnd /\ RoomClosedForAReason /\ MarketClosedForAReason

\* "submit markRoomEpochsSafe for every open market whose condition was undecided
\* through that sequence": the log, up to the sequence an epoch is marked safe at,
\* holds no event of that epoch or before that decided the market.
ClearsOnlyUndecided ==
    [][\A s \in Slot, e \in Epoch : EpochSafe(s, e)' /\ ~EpochSafe(s, e) =>
           \A i \in Decisive(s, epochSafeSequence'[s][e]) : log[i].at >= (e + 1) * EpochDuration]_authorityVars

\* "If a market's condition is decided, submit closeSlots; if the room's terminal
\* condition is decided, submit closeRoom": whatever the order in which events,
\* publications and clearances reach the room, a decision in the log closes.
\* (A decision, once in the log, stays there.)
DecisionCloses ==
    LET decided(s) == Decisive(s, Len(log)) # {} /\ ~Broken(s, Len(log)) IN
    <>[](\A s \in recorded :
             Headline \in recorded /\ ~Broken(Headline, Len(log)) /\ decided(s)
                 => gateState[s] = "Closed")

\* "Suspension state comes from chain": when the source stays silent every market
\* that is open in the end is frozen, also one published during the outage.
OutageFreezes ==
    <>[](~RoomIsClosed /\ ~FreshTip => \A s \in OpenSlots : gateState[s] = "Suspended")

\* The refunds that a market owes since it closed do not wait for the room to end:
\* only an outage, or a headline that cannot be evaluated, keeps them.
RefundsDrained ==
    <>[](\/ \A s \in Slot : Owed(s) = {}
         \/ ~RoomIsClosed /\ (~FreshTip \/ HeadlineStatus = "unevaluable"))

===============================================================================
