------------------------------ MODULE MCSettlement ------------------------------
(***************************************************************************)
(* A question's way into a market, the settlement of a closed market, the  *)
(* clips of livestream questions, and the process an operator runs: four   *)
(* machines that share no state.  A behaviour is one of them, the one its  *)
(* first state names; the others stay in one initial state.                *)
(***************************************************************************)
EXTENDS PublicationChannel, Settlement, ProofArchive, OperatorDuty

CONSTANTS Scenes, FirstHash
VARIABLE scene
sceneVars == <<channelVars, settlementVars, archiveVars, dutyVars, scene>>

-------------------------------------------------------------------------------
(* What is asked: a question that can be published, one whose words name    *)
(* another figure than its rule, and one about somebody not in the room.    *)

Threshold(participant) ==
    [participant |-> participant, metric |-> "return_pct", operator |-> ">=", value |-> "10"]
Candidate(template, params, shown) ==
    [templateId |-> template, params |-> params, slotIndex |-> Unnamed,
     question |-> <<template, shown>>, announceDelay |-> 1]

Headline == Candidate("tpl-participant-v1", [target |-> "10000"], [target |-> "10000"])
Micro == Candidate("tpl-threshold-v1", Threshold("alice"), Threshold("alice"))
Misworded == Candidate("tpl-participant-v1", [target |-> "10000"], [target |-> "5000"])
Mistyped == Candidate("tpl-threshold-v1", Threshold("alcie"), Threshold("alcie"))

MCRoster == {"alice"}
MCLower == [name \in {"alice", "alcie"} |-> name]
MCCandidates == {Headline, Micro, Misworded, Mistyped}
MCDecisions == {{Condition(Headline)}}

\* One result each way; the log supports the first when the market closes.
FirstResult == [outcome |-> 1, hash |-> "h"]
MCResults == {FirstResult, [outcome |-> 2, hash |-> "f"]}
MCReferences == {[hash |-> "x", market |-> "m", transaction |-> "t"],
                 [hash |-> "x", market |-> "m", transaction |-> "s"]}

-------------------------------------------------------------------------------
SceneInit ==
    /\ scene \in Scenes
    /\ ChannelInit /\ SettlementInit /\ ArchiveInit /\ DutyInit
    /\ scene # "settlement" => ~market.skipped
    /\ view = IF scene = "settlement" THEN FirstResult ELSE Undetermined
    /\ scene # "archive" => \A u, w \in Uploads : upload[u] = upload[w] /\ upload[u].hash = FirstHash
    /\ scene # "operator" => recognised
SceneNext ==
    \/ scene = "publication" /\ ChannelNext /\ UNCHANGED <<settlementVars, archiveVars, dutyVars, scene>>
    \/ scene = "settlement" /\ SettlementNext /\ UNCHANGED <<channelVars, archiveVars, dutyVars, scene>>
    \/ scene = "archive" /\ ArchiveNext /\ UNCHANGED <<channelVars, settlementVars, dutyVars, scene>>
    \/ scene = "operator" /\ DutyNext /\ UNCHANGED <<channelVars, settlementVars, archiveVars, scene>>
SceneSpec ==
    /\ SceneInit /\ [][SceneNext]_sceneVars
    /\ \A t \in Ticks : WF_channelVars(scene = "publication" /\ TickStep(t))
    /\ WF_channelVars(scene = "publication" /\ GateStep)
    /\ WF_channelVars(scene = "publication" /\ \E tx \in pending : Mine(tx))
    /\ WF_settlementVars(scene = "settlement" /\ KeeperStep)
    /\ WF_settlementVars(scene = "settlement" /\ TimePasses)
    /\ WF_dutyVars(scene = "operator" /\ ProcessStep)
    /\ WF_dutyVars(scene = "operator" /\ OperatorHealth)

\* A request in the queue ends, published or refused; a closed market settles; and an operator
\* that cannot work is seen (QueuedPublisher.tick, KeeperService.tick, recordTick).
EveryRequestEnds == scene = "publication" => RequestsEnd
EveryMarketSettles == scene = "settlement" => MarketsSettle
EveryOutageShows == scene = "operator" => DeadOperatorsShow
EveryoneIsAnswered == EveryRequestEnds /\ EveryMarketSettles /\ EveryOutageShows
===============================================================================
