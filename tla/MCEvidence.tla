------------------------------- MODULE MCEvidence -------------------------------
(***************************************************************************)
(* Two traders, a headline two units of profit decide, and two questions   *)
(* that a first fill may decide, one of them by return.                    *)
(***************************************************************************)
EXTENDS SourceLog

MCTraders == <<"ana", "ben">>
Question(template, participant, metric, value) ==
    [template |-> template, participant |-> participant, metric |-> metric,
     operator |-> ">=", value |-> value]
MCHeadline == Question("first_to_realized_pnl", "any", "realized_pnl_usd", 2)
MCQuestions == {Question("participant_metric_threshold", "ben", "return_pct", 40),
                Question("first_to_metric", "any", "realized_pnl_usd", 1)}

(* What the gate and the resolvers read of one log leads to one decision:  *)
(* two resolvers hash the same evidence whenever they read it, and the     *)
(* evaluator of the rectified log agrees with the one of the raw responses *)
(* (conditions.mjs:93, resolver.mjs:193); behind the cursors the log       *)
(* misses nothing, and each of its entries is news (connector.mjs:78).     *)
EvidenceHolds == EvidenceSettles /\ EvaluatorsAgree /\ NothingSkipped /\ LogSaysNews
===============================================================================
