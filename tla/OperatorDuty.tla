------------------------------ MODULE OperatorDuty ------------------------------
(***************************************************************************)
(* The process of one operator role, and what the read service says of it. *)
(* The process checks its key against the room, then ticks on an interval, *)
(* one tick beside another when one is slow, and notes each tick in the    *)
(* store by one write after another.  The read service, another process,   *)
(* reads the notes one after another.                                      *)
(*                                                                         *)
(* Times are left out: of last_tick and last_success it matters only that  *)
(* they are there, of last_error whether it is empty.                      *)
(***************************************************************************)
EXTENDS Naturals

CONSTANTS Role,          \* whose process it is
          TickSlots,     \* ticks that may be under way at once
          MaxMishaps     \* failures of the chain, the store and the process, a bound

VARIABLES process,   \* "down", "starting", in its "first" tick, "running" on the interval
          ticks,     \* where each tick is
          notes,     \* what the store has: [ticked, succeeded, failing]
          look,      \* the read service on its way through the notes
          health,    \* what it last answered
          recognised, \* the room names this process's key for the role
          reachable, \* the chain and the source answer
          mishaps

dutyVars == <<process, ticks, notes, look, health, recognised, reachable, mishaps>>

Unheard == [known |-> FALSE, succeeded |-> FALSE, failing |-> FALSE]
\* The roles whose key the room itself names.
CheckedRoles == {"gate", "publisher"}
NoTicks == [t \in TickSlots |-> "idle"]
Mishap == mishaps < MaxMishaps /\ mishaps' = mishaps + 1
NoMishap == UNCHANGED mishaps
TickGoes(t, pc) == ticks' = [ticks EXCEPT ![t] = pc]
\* The publisher reports a call that failed among its actions; every other role's tick throws.
CatchesFailures == Role = "publisher"

-------------------------------------------------------------------------------
(* The process. *)

\* Built from its environment, with its schema applied; a store that does not answer ends it.
ProcessStarts ==
    /\ process = "down" /\ process' = "starting"
    /\ UNCHANGED <<ticks, notes, look, health, recognised, reachable, mishaps>>

\* A chain that cannot be read says nothing about the key.
AuthorityProblem == Role \in CheckedRoles /\ reachable /\ ~recognised
KeyVerified ==
    /\ process = "starting"
    /\ process' = IF AuthorityProblem THEN "down" ELSE "first"
    /\ ticks' = IF AuthorityProblem THEN ticks ELSE [ticks EXCEPT ![CHOOSE t \in TickSlots : TRUE] = "work"]
    /\ UNCHANGED <<notes, look, health, recognised, reachable, mishaps>>

\* The interval asks for another tick whether or not the last one has ended.
TickBegins(t) ==
    /\ process = "running" /\ ticks[t] = "idle"
    /\ TickGoes(t, "work")
    /\ UNCHANGED <<process, notes, look, health, recognised, reachable, mishaps>>

\* The role's work: it throws when what it reads does not answer, and may when a call is refused.
WorkEnds(t) ==
    /\ ticks[t] = "work"
    /\ \/ (reachable \/ CatchesFailures) /\ TickGoes(t, "note success") /\ NoMishap
       \/ ~reachable /\ ~CatchesFailures /\ TickGoes(t, "note failure") /\ NoMishap
       \/ reachable /\ ~recognised /\ TickGoes(t, "note failure") /\ NoMishap
       \/ reachable /\ recognised /\ TickGoes(t, "note failure") /\ Mishap
    /\ UNCHANGED <<process, notes, look, health, recognised, reachable>>

\* recordTick, write by write; the first tick over, the interval is set.
AfterNote ==
    [pc \in {"note success", "success", "no error", "note failure", "error"} |->
        CASE pc = "note success" -> "success"
          [] pc = "success" -> "no error"
          [] pc = "note failure" -> "error"
          [] OTHER -> "idle"]
\* Mutant of Noted: a failure is only written to the console.
NotedWhenWell(pc) ==
    CASE pc \in {"note success", "note failure"} -> [notes EXCEPT !.ticked = TRUE]
      [] pc = "success" -> [notes EXCEPT !.succeeded = TRUE]
      [] pc = "no error" -> [notes EXCEPT !.failing = FALSE]
      [] OTHER -> notes
Noted(pc) ==
    CASE pc \in {"note success", "note failure"} -> [notes EXCEPT !.ticked = TRUE]
      [] pc = "success" -> [notes EXCEPT !.succeeded = TRUE]
      [] pc = "no error" -> [notes EXCEPT !.failing = FALSE]
      [] pc = "error" -> [notes EXCEPT !.failing = TRUE]
RecordTick(t) ==
    /\ ticks[t] \in DOMAIN AfterNote
    /\ notes' = Noted(ticks[t])
    /\ TickGoes(t, AfterNote[ticks[t]])
    /\ process' = IF AfterNote[ticks[t]] = "idle" THEN "running" ELSE process
    /\ UNCHANGED <<look, health, recognised, reachable, mishaps>>

ProcessEnds == process' = "down" /\ ticks' = NoTicks
\* A write that fails while a success is noted makes the tick a failure; one that fails while a
\* failure is noted is caught by nobody, and ends the process.
RecordFails(t) ==
    /\ ticks[t] \in DOMAIN AfterNote /\ Mishap
    /\ IF ticks[t] \in {"note failure", "error"} THEN ProcessEnds
       ELSE TickGoes(t, "note failure") /\ UNCHANGED process
    /\ UNCHANGED <<notes, look, health, recognised, reachable>>
\* Stopped, or killed, at any await.
ProcessStops ==
    /\ process # "down" /\ Mishap /\ ProcessEnds
    /\ UNCHANGED <<notes, look, health, recognised, reachable>>

ChainGoes ==
    /\ reachable /\ Mishap /\ reachable' = FALSE
    /\ UNCHANGED <<process, ticks, notes, look, health, recognised>>
ChainReturns ==
    /\ ~reachable /\ reachable' = TRUE
    /\ UNCHANGED <<process, ticks, notes, look, health, recognised, mishaps>>

-------------------------------------------------------------------------------
(* operatorHealth, for one role.  A role nobody has heard of is left out. *)

ReadsTick ==
    /\ look.at = "tick"
    /\ IF notes.ticked THEN look' = [look EXCEPT !.at = "success"] /\ UNCHANGED health
       ELSE health' = Unheard /\ UNCHANGED look
ReadsSuccess ==
    /\ look.at = "success"
    /\ look' = [at |-> "error", succeeded |-> notes.succeeded] /\ UNCHANGED health
ReadsError ==
    /\ look.at = "error"
    /\ look' = [look EXCEPT !.at = "tick"]
    /\ health' = [known |-> TRUE, succeeded |-> look.succeeded, failing |-> notes.failing]
OperatorHealth ==
    /\ ReadsTick \/ ReadsSuccess \/ ReadsError
    /\ UNCHANGED <<process, ticks, notes, recognised, reachable, mishaps>>

-------------------------------------------------------------------------------
DutyInit ==
    /\ process = "down" /\ ticks = NoTicks
    /\ notes = [ticked |-> FALSE, succeeded |-> FALSE, failing |-> FALSE]
    /\ look = [at |-> "tick", succeeded |-> FALSE] /\ health = Unheard
    /\ recognised \in BOOLEAN /\ reachable = TRUE /\ mishaps = 0
TickProceeds(t) == TickBegins(t) \/ WorkEnds(t) \/ RecordTick(t)
ProcessStep == ProcessStarts \/ KeyVerified \/ \E t \in TickSlots : TickProceeds(t)
DutyNext ==
    \/ ProcessStep \/ OperatorHealth
    \/ (\E t \in TickSlots : RecordFails(t)) \/ ProcessStops \/ ChainGoes \/ ChainReturns
DutySpec == DutyInit /\ [][DutyNext]_dutyVars
\* A supervisor starts the process again; the interval fires; health is asked for.
FairDutySpec == DutySpec /\ WF_dutyVars(ProcessStep) /\ WF_dutyVars(OperatorHealth)

-------------------------------------------------------------------------------
(* What whoever watches the service may rely on. *)

\* A role that from some time on cannot reach the chain or the source it reads is not reported
\* well for ever: it is left out, or it is failing, whichever ticks overlapped and whatever note
\* was lost (recordTick, operatorHealth, scripts/operator.mjs).
ReportedWell == health.known /\ ~health.failing
DeadOperatorsShow == <>[]~reachable => <>[]~ReportedWell
===============================================================================
