--------------------------------- MODULE MCLive ---------------------------------
(***************************************************************************)
(* What keeps a page current: the replicas that index the chain in turns,  *)
(* the feed from one projection to one page, and the page's own reads and  *)
(* orders.  They share no state; a behaviour is one of them, the one its   *)
(* first state names, and the others stay in their initial states.         *)
(***************************************************************************)
EXTENDS RoomFeed, Replicas, TradeFlow

CONSTANT Scenes
VARIABLE scene
liveVars == <<feedVars, replicaVars, tradeVars, scene>>

LiveInit == scene \in Scenes /\ FeedInit /\ ReplicasInit /\ TradeInit
LiveNext ==
    \/ scene = "feed" /\ FeedNext /\ UNCHANGED <<replicaVars, tradeVars, scene>>
    \/ scene = "replicas" /\ ReplicasNext /\ UNCHANGED <<feedVars, tradeVars, scene>>
    \/ scene = "trade" /\ TradeNext /\ UNCHANGED <<feedVars, replicaVars, scene>>
LiveSpec ==
    /\ LiveInit /\ [][LiveNext]_liveVars
    /\ WF_feedVars(scene = "feed" /\ Tick) /\ WF_feedVars(scene = "feed" /\ ServerAnswers)
    /\ WF_feedVars(scene = "feed" /\ AnswerArrives) /\ WF_feedVars(scene = "feed" /\ Poll)
    /\ WF_replicaVars(scene = "replicas" /\ TimePasses)
    /\ \A r \in Replicas : WF_replicaVars(scene = "replicas" /\ ReplicaStep(r))
    /\ WF_tradeVars(scene = "trade" /\ AsksAgain)
    /\ WF_tradeVars(scene = "trade" /\ ReadServed) /\ WF_tradeVars(scene = "trade" /\ ReadArrives)

\* A page comes to show what its room is, and what its question's market is to its account
\* (the matters of ViewerConverges and PageComesTrue).
PageConverges ==
    /\ scene = "feed" => ViewerConverges
    /\ scene = "trade" => PageComesTrue
EveryRoomServed == scene = "replicas" => RoomsStayServed
===============================================================================
