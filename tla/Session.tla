--------------------------------- MODULE Session ---------------------------------
(***************************************************************************)
(* What a live room promises to whoever trades on its questions, without   *)
(* its clock, its permits, its lists, its bonds and the calls that fail:   *)
(* questions are asked while the session lasts; each is cleared epoch by   *)
(* epoch, at ever later points of the source, until an event decides it,   *)
(* which is later than all it was cleared at; the session ends once.       *)
(*                                                                         *)
(* A point of the source is a positive number; 0 stands for not yet.       *)
(***************************************************************************)
EXTENDS Naturals

CONSTANTS Questions,     \* numbered from 0 in the order they are asked
          Epochs

VARIABLES observed,      \* how far the session has followed the source
          asked,         \* how many questions it has asked
          cleared,       \* per question and epoch, where it was cleared
          decided,       \* per question, the event that decided it
          ended          \* the last point of an ended session

sessionVars == <<observed, asked, cleared, decided, ended>>

SessionInit ==
    /\ observed = 0 /\ asked = 0 /\ ended = 0
    /\ cleared = [q \in Questions |-> [e \in Epochs |-> 0]]
    /\ decided = [q \in Questions |-> 0]

\* The session follows the source until it ends, and never back.
Follows == ended = 0 /\ observed' \in Nat /\ observed <= observed'
IsOpen(q) == q < asked /\ decided[q] = 0
BeyondClearing(q, seq) == \A e \in Epochs : cleared[q][e] < seq

Ask ==
    /\ Follows
    /\ asked' = asked + 1
    /\ UNCHANGED <<cleared, decided, ended>>

\* Some of the open questions are each cleared for one more epoch, at the point now reached.
Clear ==
    /\ Follows
    /\ \A q \in Questions : cleared'[q] # cleared[q] =>
           /\ IsOpen(q) /\ BeyondClearing(q, observed')
           /\ \E e \in Epochs : cleared[q][e] = 0 /\ cleared'[q] = [cleared[q] EXCEPT ![e] = observed']
    /\ UNCHANGED <<asked, decided, ended>>

\* Some of the open questions are decided: at the point now reached, or where the session ended.
Decide ==
    /\ (Follows \/ (ended # 0 /\ observed' = observed))
    /\ \A q \in Questions : decided'[q] # decided[q] =>
           /\ IsOpen(q) /\ BeyondClearing(q, decided'[q])
           /\ decided'[q] = IF ended = 0 THEN observed' ELSE ended
    /\ UNCHANGED <<asked, cleared, ended>>

\* The session ends beyond everything it has followed.
End ==
    /\ Follows
    /\ ended' \in Nat /\ observed < ended' /\ observed' <= ended'
    /\ UNCHANGED <<asked, cleared, decided>>

SessionNext == Ask \/ Clear \/ Decide \/ End
SessionSpec == SessionInit /\ [][SessionNext]_sessionVars
===============================================================================
