------------------------------- MODULE SourceLog -------------------------------
(***************************************************************************)
(* From the exchange to the Session Event Log.  The poller reads closed    *)
(* windows, a page at a time, from a durable cursor per participant; the   *)
(* connector drops what the log already says, appends the rest, and        *)
(* appends a restatement as a correction.  A sweep asks again for the      *)
(* recent past.  The exchange lists a fill late, restates it, and answers  *)
(* a query with an error; the process dies between two appends.            *)
(*                                                                         *)
(* Time is in units of the two-second overlap.  Heartbeats are left out:   *)
(* no condition looks at them.                                             *)
(***************************************************************************)
EXTENDS Evaluation

CONSTANTS Traders,        \* the participants, in the order they are polled
          Worths,         \* what a fill can realize, net of its fee
          Revised,        \* what it may be restated to
          Equity,         \* every account's value before its first fill
          PageLimit,      \* fills in one response at most
          Overlap, ReconcileLookback,
          Lag,            \* how late the exchange lists a fill
          Headline, Questions,                    \* the room's conditions
          MaxFills, MaxClock,
          MaxUpsets       \* bound: late listings, restatements and outages together

ASSUME SourceAssumption ==
    /\ PageLimit \in Nat \ {0, 1}
    /\ {Overlap, ReconcileLookback, Lag, MaxFills, MaxClock, MaxUpsets} \subseteq Nat
    /\ Lag <= ReconcileLookback
    /\ Traders \in Seq(ToSet(Traders))

VARIABLES fills,      \* the exchange's: [who, at, worth, late], by trade id
          unlisted,   \* the trade ids it does not list yet
          log,        \* the Session Event Log
          cursor,     \* durable: [DOMAIN Traders -> time], 0 at first
          poller,     \* the process
          clock, upsets

exchangeVars == <<fills, unlisted>>
connectorVars == <<log, cursor, poller>>
sourceVars == <<exchangeVars, connectorVars, clock, upsets>>

Nobody == Len(Traders) + 1

-------------------------------------------------------------------------------
(* The exchange. *)

Upset == upsets < MaxUpsets /\ upsets' = upsets + 1

FillHappens(who, worth, late) ==
    /\ Len(fills) < MaxFills
    /\ fills' = Append(fills, [who |-> who, at |-> clock, worth |-> worth, late |-> late])
    /\ IF late THEN Upset /\ unlisted' = unlisted \union {Len(fills) + 1}
       ELSE UNCHANGED <<unlisted, upsets>>
    /\ UNCHANGED <<connectorVars, clock>>

Listed(id) ==
    /\ unlisted' = unlisted \ {id}
    /\ UNCHANGED <<fills, connectorVars, clock, upsets>>

FillRestated(id, worth) ==
    /\ Upset
    /\ worth # fills[id].worth
    /\ fills' = [fills EXCEPT ![id].worth = worth]
    /\ UNCHANGED <<unlisted, connectorVars, clock>>

ClockTicks ==
    /\ clock < MaxClock
    /\ \A id \in unlisted : fills[id].at + Lag > clock
    /\ clock' = clock + 1
    /\ UNCHANGED <<exchangeVars, connectorVars, upsets>>

-------------------------------------------------------------------------------
(* The connector. *)

Draft(id) ==
    [id |-> id, tid |-> id, who |-> fills[id].who, at |-> fills[id].at,
     kind |-> "trade_closed", amount |-> fills[id].worth]
AccountValue(who) ==
    Equity + MapThenSumSet(LAMBDA id : fills[id].worth, {id \in DOMAIN fills : fills[id].who = who})
BaselineDraft(w) ==
    [id |-> -w, tid |-> 0, who |-> Traders[w], at |-> clock,
     kind |-> "baseline", amount |-> AccountValue(Traders[w])]

\* What a log last said under a draft's id; 0 if it never did.
Latest(events, draft) ==
    LET said == {i \in DOMAIN events : events[i].id = draft.id} IN
    IF said = {} THEN 0 ELSE CHOOSE i \in said : \A j \in said : j <= i

\* As if a fact were known by its id alone.
IsUnseen(events, draft) == Latest(events, draft) = 0

IsNews(events, draft) ==
    LET last == Latest(events, draft) IN last = 0 \/ events[last].amount # draft.amount
Raw(drafts) ==
    [ref |-> Len(log) + 1,
     facts |-> [id \in {drafts[i].id : i \in DOMAIN drafts} |->
                   LET d == drafts[CHOOSE i \in DOMAIN drafts : drafts[i].id = id] IN
                   [who |-> d.who, kind |-> d.kind, at |-> d.at, tid |-> d.tid,
                    amount |-> d.amount, seq |-> 0]]]

Event(draft, drafts, corrects) ==
    [id |-> draft.id, tid |-> draft.tid, who |-> draft.who, at |-> draft.at, kind |-> draft.kind,
     amount |-> draft.amount, corrects |-> corrects, raw |-> Raw(drafts)]

\* The log after the first n drafts of a batch: each is measured against what the log
\* says by then.
Ingest(events, draft, drafts) ==
    IF IsNews(events, draft) THEN Append(events, Event(draft, drafts, Latest(events, draft)))
    ELSE events
Ingested(drafts, n) ==
    LET after[i \in 0..n] == IF i = 0 THEN log ELSE Ingest(after[i - 1], drafts[i], drafts)
    IN  after[n]

-------------------------------------------------------------------------------
(* The poller.  A round goes through the participants in order, and a failure *)
(* ends it.                                                                   *)

Resting == [pc |-> "Rest", who |-> 1, from |-> 0, to |-> 0]
Down == [pc |-> "Down", who |-> 1, from |-> 0, to |-> 0,
         baselined |-> FALSE, swept |-> FALSE, captured |-> [w \in DOMAIN Traders |-> 0]]
Process(p) == [pc |-> p.pc, who |-> p.who, from |-> p.from, to |-> p.to,
               baselined |-> poller.baselined, swept |-> poller.swept, captured |-> poller.captured]

\* The window a phase reads of a participant, at the time it comes to it.
Window(pc, who) ==
    IF who = Nobody THEN Process([Resting EXCEPT !.pc = IF pc = "Poll" THEN "Polled" ELSE "Rest"])
    ELSE LET from == CASE pc = "Poll" -> cursor'[who]
                       [] pc = "Sweep" -> IF clock > ReconcileLookback THEN clock - ReconcileLookback ELSE 0
                       [] OTHER -> 0
         IN  Process([pc |-> pc, who |-> who, from |-> from, to |-> clock])

Launch ==
    /\ poller.pc = "Down"
    /\ UNCHANGED <<log, cursor, upsets>>
    /\ poller' = Window("Baseline", 1)

StartRound ==
    /\ poller.pc = "Rest" \/ (poller.pc = "Polled" /\ poller.swept)
    /\ UNCHANGED <<log, cursor, upsets>>
    /\ poller' = Window(IF poller.baselined THEN "Poll" ELSE "Baseline", 1)

\* A sweep follows a round's polling when it is due, as at the start it is.
StartSweep ==
    /\ poller.pc = "Polled"
    /\ poller' = [Window("Sweep", 1) EXCEPT !.swept = TRUE]
    /\ UNCHANGED <<log, cursor, upsets>>

CaptureBaseline ==
    /\ poller.pc = "Baseline"
    /\ log' = Ingested(<<BaselineDraft(poller.who)>>, 1)
    /\ cursor' = [cursor EXCEPT ![poller.who] = clock]
    /\ poller' = IF poller.who + 1 = Nobody
                 THEN [Window("Poll", 1) EXCEPT !.baselined = TRUE, !.captured[poller.who] = clock]
                 ELSE [Window("Baseline", poller.who + 1) EXCEPT !.captured[poller.who] = clock]
    /\ UNCHANGED upsets

\* A response: the window's first fills that the exchange lists.
Before(i, j) == fills[i].at < fills[j].at \/ (fills[i].at = fills[j].at /\ i < j)
Readable ==
    {id \in DOMAIN fills \ unlisted :
        fills[id].who = Traders[poller.who] /\ poller.from <= fills[id].at /\ fills[id].at <= poller.to}
Page ==
    LET place(id) == Cardinality({j \in Readable : Before(j, id)}) + 1
        shown == IF Cardinality(Readable) < PageLimit THEN Cardinality(Readable) ELSE PageLimit
    IN  [i \in 1..shown |-> Draft(CHOOSE id \in Readable : place(id) = i)]
Saturated(page) == Len(page) = PageLimit /\ page[PageLimit].at <= poller.from

ReadPage ==
    /\ poller.pc \in {"Poll", "Sweep"}
    /\ \E page \in {Page} :
           LET more == Len(page) = PageLimit
               read == poller.to - Overlap
           IN  /\ log' = Ingested(page, Len(page))
               /\ cursor' = IF poller.pc = "Poll" /\ ~more
                            THEN [cursor EXCEPT ![poller.who] = IF read > @ THEN read ELSE @]
                            ELSE cursor
               /\ poller' = IF Saturated(page) THEN Process(Resting)
                            ELSE IF more THEN [poller EXCEPT !.from = page[PageLimit].at]
                            ELSE Window(poller.pc, poller.who + 1)
    /\ UNCHANGED upsets

\* The query fails, or the process dies, with some of a batch appended.
Outage ==
    /\ Upset
    /\ poller.pc \in {"Poll", "Sweep", "Baseline"}
    /\ \E page \in {IF poller.pc = "Baseline" THEN <<>> ELSE Page} :
           \E n \in 0..Len(page) : log' = Ingested(page, n)
    /\ poller' \in {Process(Resting), [Down EXCEPT !.captured = poller.captured]}
    /\ UNCHANGED cursor

Sweep == UNCHANGED <<exchangeVars, clock>> /\ StartSweep
Round ==
    /\ UNCHANGED <<exchangeVars, clock, upsets>>
    /\ Launch \/ StartRound \/ CaptureBaseline \/ ReadPage
Connector == Sweep \/ Round \/ (Outage /\ UNCHANGED <<exchangeVars, clock>>)

-------------------------------------------------------------------------------
SourceInit ==
    /\ fills = <<>> /\ unlisted = {}
    /\ log = <<>> /\ cursor = [w \in DOMAIN Traders |-> 0]
    /\ poller = Down
    /\ clock = 0 /\ upsets = 0

Exchange ==
    \/ \E w \in DOMAIN Traders, worth \in Worths, late \in BOOLEAN : FillHappens(Traders[w], worth, late)
    \/ \E id \in unlisted : Listed(id)
    \/ \E id \in DOMAIN fills, worth \in Worths \union Revised : FillRestated(id, worth)
    \/ ClockTicks

SourceNext == Exchange \/ Connector

\* The process runs, its rounds follow each other, and a sweep comes again and again.
SourceFairness == WF_sourceVars(Round) /\ SF_sourceVars(Sweep)
SourceSpec == SourceInit /\ [][SourceNext]_sourceVars
FairSourceSpec == SourceSpec /\ SourceFairness

-------------------------------------------------------------------------------
(* Properties. *)

\* "otherwise the gate can close a room on one participant while both resolvers attest
\* the other": what the log decides and what a resolver rebuilds from the raw responses
\* is the same, whatever order the fills arrived in and however often they changed.
EvaluatorsAgree ==
    LET timeline == Rectify(log)
        facts == ReconstructFacts(log)
    IN  \A c \in Questions \union {Headline} :
            LET evaluated == EvaluateCondition(c, timeline, Unbounded, Headline)
                rebuilt == ReconstructSlot(c, Headline, facts, log)
            IN  evaluated.status = "decided" /\ rebuilt.status = "decided" =>
                    evaluated.outcome = rebuilt.outcome

\* "Facts after the deciding one cannot change the outcome": what two resolvers read at
\* different times gives the same evidence, unless what came between them happened before
\* the deciding fill, or restates a fact or a baseline.
EvidenceSettles ==
    \A n \in 1..Len(log) - 1 :
        LET early == SubSeq(log, 1, n)
            new == SubSeq(log, n + 1, Len(log))
            before == ReconstructFacts(early)
            after == ReconstructFacts(log)
        IN  \/ \E i \in DOMAIN new : new[i].corrects # 0 \/ ~IsFill(new[i])
            \/ \A c \in Questions \union {Headline} :
                 LET settled == ReconstructSlot(c, Headline, before, early)
                     again == ReconstructSlot(c, Headline, after, log)
                     deciding == SelectSeq(before, IsFill)[DecidedAt(settled, before)]
                 IN  /\ settled.status = "decided" /\ again.status = "decided"
                     /\ \A i \in DOMAIN new : new[i].at > deciding.at
                     => BuildEvidence(settled, before) = BuildEvidence(again, after)

\* "missed data backfills without gaps": of what happened before its participant's cursor,
\* since the baseline of the last start, the log misses nothing, whether pages were full,
\* queries failed or the process died in a batch; of fills listed late neither, if none is
\* listed later than the overlap of two windows.
NothingSkipped ==
    \A id \in DOMAIN fills, w \in DOMAIN Traders :
        /\ fills[id].who = Traders[w]
        /\ poller.captured[w] <= fills[id].at /\ fills[id].at < cursor[w]
        /\ fills[id].late => Lag <= Overlap
        => Latest(log, Draft(id)) # 0

\* "News is measured against what this fact currently says": an entry restates the latest
\* one before it about its fact, says otherwise, and says what its raw response says.
LogSaysNews ==
    \A i \in DOMAIN log :
        LET entry == log[i]
            earlier == {j \in 1..i - 1 : log[j].id = entry.id}
        IN  /\ entry.corrects = 0 => earlier = {}
            /\ entry.corrects # 0 => /\ entry.corrects \in earlier
                                    /\ \A j \in earlier : j <= entry.corrects
                                    /\ log[entry.corrects].amount # entry.amount
            /\ entry.id \in DOMAIN entry.raw.facts
            /\ entry.raw.facts[entry.id].amount = entry.amount

\* Two fills of a participant in one page's time stop the poller for good.
SaturationPossible ==
    \E i, j \in DOMAIN fills : i # j /\ fills[i].who = fills[j].who /\ fills[i].at = fills[j].at

\* "missed data backfills without gaps": in the end the log says of every listed fill what
\* the exchange says, except where a sweep no longer looks and either the fill was listed
\* late, or happened before the last start put the cursor at its own time, or the log
\* has it as it was before it was restated.
LogCatchesUp ==
    <>[](~SaturationPossible =>
            \A id \in DOMAIN fills \ unlisted :
                LET last == Latest(log, Draft(id))
                    swept == fills[id].at >= clock - ReconcileLookback
                    polled == \E w \in DOMAIN Traders : /\ Traders[w] = fills[id].who
                                                       /\ fills[id].at >= poller.captured[w]
                IN  IF last = 0 THEN ~swept /\ (fills[id].late \/ ~polled)
                    ELSE swept => log[last].amount = fills[id].worth)

===============================================================================
