------------------------------- MODULE Evaluation -------------------------------
(***************************************************************************)
(* What the Session Event Log decides, twice: the gate and the settlement  *)
(* record evaluate the log itself (domain/conditions.mjs), a resolver      *)
(* rebuilds the facts from the raw responses the log points at and         *)
(* evaluates those (resolver/resolver.mjs).                                *)
(*                                                                         *)
(* An event is a record: its fact's id, its participant, when it happened, *)
(* its kind, the amount it reports, the index of the event it restates (0: *)
(* none), and raw, the response it was read from: its number and the       *)
(* amounts by fact id.  Amounts are the scaled integers of decimal.mjs.    *)
(***************************************************************************)
EXTENDS Integers, Sequences, FiniteSets, SequencesExt

Unbounded == -1
NoCondition == [template |-> "none"]
Undecided == [status |-> "undecided", outcome |-> "none", seq |-> 0]
Unevaluable == [Undecided EXCEPT !.status = "unevaluable"]
Decided(outcome, seq) == [status |-> "decided", outcome |-> outcome, seq |-> seq]

IsFill(event) == event.kind = "trade_closed"

-------------------------------------------------------------------------------
(* The timeline: restatements in place, in the order things happened. *)

\* The first event of the fact that event i of the log reports.
SlotOf(log) ==
    LET slot[i \in DOMAIN log] == IF log[i].corrects = 0 THEN i ELSE slot[log[i].corrects]
    IN  slot
\* As if the log's own order were the order things happened in.
Arrived(a, b) ==
    \/ a.seq < b.seq
    \/ a.seq = b.seq /\ a.at < b.at

Happened(a, b) ==
    \/ a.at < b.at
    \/ a.at = b.at /\ a.tid < b.tid
    \/ a.at = b.at /\ a.tid = b.tid /\ a.seq < b.seq

InOrder(S) ==
    <<>> \o [n \in 1..Cardinality(S) |->
                CHOOSE e \in S : Cardinality({d \in S : Happened(d, e)}) = n - 1]

Rectify(log) ==
    LET slot == SlotOf(log)
        entry(i) ==
            LET said == CHOOSE j \in DOMAIN log :
                            slot[j] = i /\ \A k \in DOMAIN log : slot[k] = i => k <= j
            IN  [who |-> log[i].who, kind |-> log[i].kind, at |-> log[i].at, tid |-> log[i].tid,
                 amount |-> log[said].amount, seq |-> i]
    IN  InOrder({entry(i) : i \in {j \in DOMAIN log : slot[j] = j}})

-------------------------------------------------------------------------------
(* One pass over a timeline. *)

Total(timeline, i) ==
    MapThenSumSet(LAMBDA j : timeline[j].amount,
                  {j \in 1..i : IsFill(timeline[j]) /\ timeline[j].who = timeline[i].who})
Baselines(timeline, i) ==
    {j \in 1..i : timeline[j].kind = "baseline" /\ timeline[j].who = timeline[i].who}
Baseline(timeline, i) == timeline[CHOOSE j \in Baselines(timeline, i) :
                                      \A k \in Baselines(timeline, i) : k <= j].amount

\* percentOf truncates toward zero.
PercentOf(a, b) ==
    LET magnitude == ((IF a < 0 THEN -a ELSE a) * 100) \div (IF b < 0 THEN -b ELSE b)
    IN  IF (a < 0) = (b < 0) THEN magnitude ELSE -magnitude
Unpriced(timeline, i, c) ==
    /\ c.metric = "return_pct"
    /\ Baselines(timeline, i) = {} \/ Baseline(timeline, i) = 0
MetricValue(timeline, i, c) ==
    IF c.metric = "return_pct" THEN PercentOf(Total(timeline, i), Baseline(timeline, i))
    ELSE Total(timeline, i)
Satisfies(operator, left, right) ==
    CASE operator = ">=" -> left >= right
      [] operator = ">"  -> left > right
      [] operator = "<=" -> left <= right
      [] operator = "<"  -> left < right

\* The events a condition looks at, and its decision at the first that satisfies it.
Looked(timeline, c) ==
    {i \in DOMAIN timeline :
        /\ IsFill(timeline[i])
        /\ c.template = "participant_metric_threshold" => timeline[i].who = c.participant}
Scanning(timeline, c) ==
    LET broken == {i \in Looked(timeline, c) : Unpriced(timeline, i, c)}
        hits == {i \in Looked(timeline, c) \ broken :
                    Satisfies(c.operator, MetricValue(timeline, i, c), c.value)}
        first == CHOOSE i \in broken \union hits : \A j \in broken \union hits : i <= j
    IN  IF broken \union hits = {} THEN Undecided
        ELSE IF first \in broken THEN Unevaluable
        ELSE Decided(IF c.template = "participant_metric_threshold" THEN "yes"
                     ELSE timeline[first].who, timeline[first].seq)

IsHeadline(c) == c.template = "first_to_realized_pnl"
UndecidedAtSessionEnd(c) ==
    CASE c.template = "participant_metric_threshold" -> "no"
      [] c.template = "first_to_metric" -> "tie"
      [] OTHER -> "none"

IndexOfSeq(timeline, seq) == CHOOSE i \in DOMAIN timeline : timeline[i].seq = seq

\* evaluateCondition: terminalSeq bounds what was known, the headline when the
\* session ended.
EvaluateCondition(c, rectified, terminalSeq, headline) ==
    LET known == SelectSeq(rectified, LAMBDA e : terminalSeq = Unbounded \/ e.seq <= terminalSeq)
        terminal == IF headline = NoCondition \/ headline = c THEN Undecided
                    ELSE Scanning(known, headline)
        ended == terminal.status = "decided"
        window == IF ended THEN SubSeq(known, 1, IndexOfSeq(known, terminal.seq)) ELSE known
        decision == Scanning(window, c)
        fallback == UndecidedAtSessionEnd(c)
    IN  IF decision.status = "undecided" /\ fallback # "none" /\ (ended \/ terminalSeq # Unbounded)
        THEN Decided(fallback, IF ended THEN terminal.seq ELSE terminalSeq)
        ELSE decision

-------------------------------------------------------------------------------
(* A resolver: the facts of every response the log points at, a later response *)
(* replacing what an earlier one said.                                         *)

Pointers(log) == {i \in DOMAIN log : \A j \in 1..i - 1 : log[j].raw.ref # log[i].raw.ref}
FactIds(log) == UNION {DOMAIN log[i].raw.facts : i \in Pointers(log)}
Read(log, id) ==
    LET said == {i \in Pointers(log) : id \in DOMAIN log[i].raw.facts}
    IN  log[CHOOSE i \in said : \A j \in said : j <= i].raw.facts[id]
ReconstructFacts(log) ==
    InOrder({[Read(log, id) EXCEPT !.seq = id] : id \in FactIds(log)})

\* Where the raw responses and the log say different things.
Logged(log, id) == {i \in DOMAIN log : log[i].id = id}
LastLogged(log, id) == CHOOSE i \in Logged(log, id) : \A j \in Logged(log, id) : j <= i
CompareWithLog(facts, log) ==
    LET fills == {e \in ToSet(facts) : IsFill(e)}
    IN  {e.tid : e \in {f \in fills : \/ Logged(log, f.tid) = {}
                                      \/ log[LastLogged(log, f.tid)].amount # f.amount}}
        \union ({log[i].id : i \in {j \in DOMAIN log : IsFill(log[j])}} \ {e.tid : e \in fills})

\* evaluateSlot holds every baseline from the start.
EvaluateSlot(c, headline, facts) ==
    LET ordered == SelectSeq(facts, LAMBDA e : ~IsFill(e)) \o SelectSeq(facts, IsFill)
        at(i) == [ordered[i] EXCEPT !.seq = i]
        timeline == <<>> \o [i \in DOMAIN ordered |-> at(i)]
        terminal == IF IsHeadline(headline) THEN Scanning(timeline, headline) ELSE Undecided
        ended == terminal.status = "decided"
        window == IF ended THEN SubSeq(timeline, 1, terminal.seq) ELSE timeline
        decision == Scanning(window, c)
        fallback == UndecidedAtSessionEnd(c)
    IN  IF decision.status # "undecided" THEN decision
        ELSE IF ended /\ fallback # "none" THEN Decided(fallback, terminal.seq) ELSE Unevaluable

\* The fill that determined the answer, counted among the fills.
DecidedAt(decision, facts) == decision.seq - Len(SelectSeq(facts, LAMBDA e : ~IsFill(e)))
Bundle(decision, facts, through) ==
    [outcome |-> decision.outcome, baselines |-> SelectSeq(facts, LAMBDA e : ~IsFill(e)),
     factIds |-> SubSeq(SelectSeq(facts, IsFill), 1, through)]

\* As if the evidence were everything a resolver has read.
BuildEvidenceWhole(decision, facts) ==
    Bundle(decision, facts, Len(SelectSeq(facts, IsFill)))

\* The evidence names the facts up to the deciding one, and every baseline.
BuildEvidence(decision, facts) == Bundle(decision, facts, DecidedAt(decision, facts))

ReconstructSlot(c, headline, facts, log) ==
    IF CompareWithLog(facts, log) # {} THEN Unevaluable ELSE EvaluateSlot(c, headline, facts)

===============================================================================
