----------------------------- MODULE StreamHealth ------------------------------
(***************************************************************************)
(* stream/monitor.mjs: the health of a livestream as its HLS playlists     *)
(* show it.  A poll loads the configured playlist, follows at most two     *)
(* master playlists, and compares the newest segment with the last one it  *)
(* knows.  Polls are started by a timer that waits for none of them, so    *)
(* several may be under way, each with the time it began at.               *)
(***************************************************************************)
EXTENDS Integers, FiniteSets

CONSTANTS Polls,          \* under way at a time, at most
          DegradedAfter,  \* how long the newest segment may stay the same
          PollInterval,   \* of the timer
          MaxPollLatency, \* of a poll
          MaxStreamTime, MaxSegments   \* bounds

ASSUME StreamAssumption ==
    {DegradedAfter, PollInterval, MaxPollLatency, MaxStreamTime, MaxSegments} \subseteq Nat

VARIABLES streamNow,
          stream,     \* [newest, advancedAt]: the encoder's last segment, and when it came
          monitor,    \* [health, polledAt, advancedAt, signature], and for the property the last reading and the
                  \* first of those that came within PollInterval of one another
          poll,       \* [pc, at, depth, read]
          roomHealth  \* what the coordinator shows

streamVars == <<streamNow, stream, monitor, poll, roomHealth>>

NoPoll == [pc |-> "idle", at |-> 0, depth |-> 0, read |-> 0]
NoSignature == -1

StreamInit ==
    /\ streamNow = 0
    /\ stream = [newest |-> 0, advancedAt |-> 0]
    /\ monitor = [health |-> "unknown", polledAt |-> 0, advancedAt |-> 0, signature |-> NoSignature,
                  readAt |-> 0, since |-> 0]
    /\ poll = [p \in Polls |-> NoPoll]
    /\ roomHealth = "unknown"

PollBegins(p) ==
    /\ poll[p].pc = "idle"
    /\ poll' = [poll EXCEPT ![p] = [NoPoll EXCEPT !.pc = "load", !.at = streamNow]]
    /\ UNCHANGED <<streamNow, stream, monitor, roomHealth>>

\* What a load finds: a failure, something that is no playlist, a master playlist (whose
\* variant may be one already visited), or a media playlist as it is now, with or without segments.
Found == {"failure", "garbage", "loop", "master", "empty", "media"}
Loads(p, found) ==
    /\ poll[p].pc = "load"
    /\ poll' = [poll EXCEPT ![p] =
           IF found = "master" /\ @.depth < 2 THEN [@ EXCEPT !.depth = poll[p].depth + 1]
           ELSE IF found = "media" THEN [@ EXCEPT !.pc = "segments", !.depth = 0, !.read = stream.newest]
           ELSE [@ EXCEPT !.pc = "unavailable", !.depth = 0]]
    /\ UNCHANGED <<streamNow, stream, monitor, roomHealth>>

\* Mutant of Advanced: every answer counts as an advance.
AlwaysAdvanced(m, read, at) == [m EXCEPT !.signature = read, !.advancedAt = at]
Advanced(m, read, at) ==
    IF read = m.signature THEN m ELSE [m EXCEPT !.signature = read, !.advancedAt = at]
Judged(m, at) ==
    [m EXCEPT !.polledAt = at, !.health = IF at - m.advancedAt > DegradedAfter THEN "degraded" ELSE "live"]
Looking(m, at) ==
    [m EXCEPT !.readAt = IF at > @ THEN at ELSE @,
              !.since = IF monitor.signature = NoSignature \/ at - m.readAt > PollInterval THEN at ELSE @]
\* The end of a poll, and the coordinator that is told.
PollEnds(p) ==
    LET m == IF poll[p].pc = "segments" THEN Judged(Advanced(monitor, poll[p].read, poll[p].at), poll[p].at)
             ELSE [monitor EXCEPT !.polledAt = poll[p].at, !.health = "unavailable"]
    IN  /\ poll[p].pc \in {"segments", "unavailable"}
        /\ monitor' = IF poll[p].pc = "segments" THEN Looking(m, poll[p].at) ELSE m
        /\ roomHealth' = m.health
        /\ poll' = [poll EXCEPT ![p] = NoPoll]
        /\ UNCHANGED <<streamNow, stream>>

Encodes ==
    /\ stream.newest < MaxSegments
    /\ stream' = [newest |-> stream.newest + 1, advancedAt |-> streamNow]
    /\ UNCHANGED <<streamNow, monitor, poll, roomHealth>>
StreamTimePasses ==
    /\ streamNow < MaxStreamTime
    /\ \A p \in Polls : poll[p].pc # "idle" => streamNow - poll[p].at < MaxPollLatency
    /\ streamNow' = streamNow + 1
    /\ UNCHANGED <<stream, monitor, poll, roomHealth>>

StreamNext ==
    \/ \E p \in Polls : PollBegins(p) \/ PollEnds(p) \/ \E found \in Found : Loads(p, found)
    \/ Encodes \/ StreamTimePasses
StreamSpec == StreamInit /\ [][StreamNext]_streamVars

-------------------------------------------------------------------------------
\* A stream that the room shows as live was advancing: its newest segment came, or the monitor
\* began to see it, within DegradedAfter, an interval and a latency before the poll that says
\* so, also where an answer read earlier arrives later and passes for an advance (poll).
LiveMeansAdvancing ==
    roomHealth = "live" =>
        \E begun \in {stream.advancedAt, monitor.since} :
            monitor.polledAt - begun <= DegradedAfter + PollInterval + MaxPollLatency
===============================================================================
