-------------------------------- MODULE RoomFeed --------------------------------
(***************************************************************************)
(* From the projection to a viewer's screen: the coordinator publishes the *)
(* differences between two ticks as numbered frames, the edge writes them  *)
(* to a viewer's socket and gives up on one that does not drain, and the   *)
(* page asks for a snapshot when a frame, a gap, a resync or a timer tells *)
(* it to.  Viewers share nothing, so there is one.                         *)
(*                                                                         *)
(* The projection is what a snapshot shows of it: the room's state, the    *)
(* source's freshness, and of each slot the state ("none": not published)  *)
(* and one figure, its price, for the price and the liquidity.             *)
(***************************************************************************)
EXTENDS Integers, Sequences, FiniteSets, SequencesExt

CONSTANTS Slots,         \* indices, the headline's being 0
          FirstSlots,    \* those open when the process starts
          SlotStates, RoomStates,  \* those a change may lead to
          Retention,     \* frames kept for replay
          MaxQueue,      \* refused writes before the edge stops writing
          SocketBuffer,  \* frames a socket holds before a write is refused
          MaxRequests,   \* snapshots a page awaits at a time, at most
          MaxChanges, MaxFrames, MaxBreaks   \* bounds

ASSUME FeedAssumption ==
    /\ Slots \subseteq Nat /\ IsFiniteSet(Slots) /\ 0 \in Slots /\ FirstSlots \subseteq Slots
    /\ {Retention, MaxQueue, MaxRequests} \subseteq Nat \ {0}
    /\ {SocketBuffer, MaxChanges, MaxFrames, MaxBreaks} \subseteq Nat

VARIABLES projection,
          coordinator,   \* [life, seq, frames, last, focus]
          socket,        \* [open, inflight, backlog, dropped]
          viewer,        \* [cursor, shown, asked, requests, answers]
          changes, breaks

feedVars == <<projection, coordinator, socket, viewer, changes, breaks>>

NothingYet == [state |-> "none"]
Unpublished == [state |-> "none", price |-> 0]
Tradable == {"open", "awaiting-liquidity"}
\* The order in which slot rows, and their frames, come.
InOrderOf(S) == SetToSortSeq(S, <)

-------------------------------------------------------------------------------
(* The edge and the socket it writes to. *)

\* A refused write is buffered all the same; it only says that the buffer is past its mark.
Write(c, frame) == [c EXCEPT !.inflight = Append(@, frame)]
Accepted(c) == Len(c.inflight) <= SocketBuffer
Control(type) == [type |-> type, seq |-> 0]

\* Mutant of EdgeSend: what a full socket misses is not announced to it.
EdgeSendQuietly(c, frame) ==
    IF ~c.open THEN c
    ELSE IF c.backlog >= MaxQueue THEN [c EXCEPT !.backlog = IF Accepted(c) THEN 0 ELSE @]
    ELSE LET written == Write(c, frame)
         IN  [written EXCEPT !.backlog = IF Accepted(written) THEN 0 ELSE @ + 1]
EdgeSend(c, frame) ==
    IF ~c.open THEN c
    ELSE IF c.backlog >= MaxQueue
    THEN LET skipped == [c EXCEPT !.dropped = @ + 1]
             probed == Write(skipped, Control("resync_required"))
         IN  IF MaxQueue = 1 \/ skipped.dropped % MaxQueue = 1
             THEN [probed EXCEPT !.backlog = IF Accepted(probed) THEN 0 ELSE @]
             ELSE skipped
    ELSE LET written == Write(c, frame)
         IN  [written EXCEPT !.backlog = IF Accepted(written) THEN 0 ELSE @ + 1]
SendAll(c, frames) ==
    LET sent[i \in 0..Len(frames)] == IF i = 0 THEN c ELSE EdgeSend(sent[i - 1], frames[i])
    IN  sent[Len(frames)]

-------------------------------------------------------------------------------
(* The coordinator. *)

Snapshot == projection
NewCoordinator(life) == [life |-> life, seq |-> 0, frames |-> <<>>, last |-> NothingYet, focus |-> -1]
Floor(c) == IF c.frames # <<>> THEN c.frames[1].seq - 1 ELSE c.seq

Numbered(c, types) == [i \in DOMAIN types |-> [type |-> types[i], seq |-> c.seq + i]]
Retained(frames) == SubSeq(frames, Len(frames) - Min({Len(frames), Retention}) + 1, Len(frames))
\* Frames of these types, in order, with the state they leave the coordinator in.
Publish(types, c) ==
    LET frames == Numbered(coordinator, types)
    IN  /\ coordinator.seq + Len(types) <= MaxFrames
        /\ coordinator' = [c EXCEPT !.seq = @ + Len(types), !.frames = Retained(@ \o frames)]
        /\ socket' = SendAll(socket, frames)

\* Those numbered after since: the numbers have no gaps.
FramesSince(c, since) ==
    IF since < Floor(c) THEN <<Control("resync")>>
    ELSE SubSeq(c.frames, since - Floor(c) + 1, Len(c.frames))

If(condition, type) == IF condition THEN <<type>> ELSE <<>>
SlotEventFor(state) ==
    CASE state = "open" -> "slot.opened"
      [] state = "closed" -> "slot.closed"
      [] OTHER -> "slot.gate_changed"
SlotFrames(before, after) ==
    IF after.state = "none" THEN <<>>
    ELSE IF before.state = "none" THEN <<"slot.published">>
    ELSE If(before.state # after.state, SlotEventFor(after.state))
         \o If(before.price # after.price, "slot.price_changed")
Differences(before, after) ==
    If(before.state # after.state, "room.state_changed")
    \o If(before.fresh # after.fresh, "source.freshness_changed")
    \o FlattenSeq([i \in 1..Cardinality(Slots) |->
           LET s == InOrderOf(Slots)[i] IN SlotFrames(before.slots[s], after.slots[s])])

\* The latest question that takes trades, and the headline when there is none.
Focus(snapshot) ==
    LET tradable == {s \in Slots : snapshot.slots[s].state \in Tradable}
    IN  IF tradable = {} THEN -1 ELSE Max(tradable)

Tick ==
    LET first == coordinator.last = NothingYet
        news == IF first THEN <<"room.state_changed">> ELSE Differences(coordinator.last, Snapshot)
    IN  /\ first \/ coordinator.last # Snapshot
        /\ Publish(news \o If(Focus(Snapshot) # coordinator.focus, "room.focus_changed"),
                   [coordinator EXCEPT !.last = Snapshot, !.focus = Focus(Snapshot)])
        /\ UNCHANGED <<projection, viewer, changes, breaks>>

\* Frames that change nothing a page shows: heartbeats, stream health, viewer counts.
PresentationFrame ==
    /\ Publish(<<"heartbeat">>, coordinator)
    /\ UNCHANGED <<projection, viewer, changes, breaks>>

-------------------------------------------------------------------------------
(* The page. *)

\* The page asks again on these, and for nothing else.
Refreshing == {"room.state_changed", "room.focus_changed", "source.freshness_changed", "slot.published",
               "slot.opened", "slot.closed", "slot.gate_changed", "slot.price_changed"}
\* A request is answered with what the coordinator shows when it is read.
Refresh(v) == [v EXCEPT !.requests = @ + 1, !.asked = <<coordinator.life, coordinator.seq>>]
Outstanding == viewer.requests + Len(viewer.answers)

OnMessage(v, frame) ==
    LET gap == v.cursor # 0 /\ frame.seq > v.cursor + 1
        moved == [v EXCEPT !.cursor = frame.seq]
    IN  IF frame.type = "hello" THEN v
        ELSE IF frame.type \in {"resync", "resync_required"} THEN Refresh(v)
        ELSE IF gap \/ frame.type \in Refreshing THEN Refresh(moved) ELSE moved

Receive ==
    /\ socket.open /\ socket.inflight # <<>>
    /\ Outstanding < MaxRequests
    /\ viewer' = OnMessage(viewer, Head(socket.inflight))
    /\ socket' = [socket EXCEPT !.inflight = Tail(@)]
    /\ UNCHANGED <<projection, coordinator, changes, breaks>>

ServerAnswers ==
    /\ viewer.requests > 0
    /\ viewer' = [viewer EXCEPT !.requests = @ - 1, !.answers = Append(@, Snapshot)]
    /\ UNCHANGED <<projection, coordinator, socket, changes, breaks>>
\* Answers arrive in any order; the one that arrives last stays on the screen.
AnswerArrives ==
    /\ \E i \in DOMAIN viewer.answers :
           viewer' = [viewer EXCEPT !.shown = viewer.answers[i], !.answers = RemoveAt(@, i)]
    /\ UNCHANGED <<projection, coordinator, socket, changes, breaks>>

\* Mutant of Poll: the page asks by itself only while it has no stream.
PollWhileDisconnected ==
    /\ ~socket.open /\ Outstanding = 0 /\ viewer.shown # Snapshot
    /\ viewer' = Refresh(viewer)
    /\ UNCHANGED <<projection, coordinator, socket, changes, breaks>>
\* The interval of the page; a page that is current need not be watched asking.
Poll ==
    /\ Outstanding = 0 /\ viewer.shown # Snapshot
    /\ viewer' = Refresh(viewer)
    /\ UNCHANGED <<projection, coordinator, socket, changes, breaks>>

Connect ==
    /\ ~socket.open
    /\ socket' = SendAll([open |-> TRUE, inflight |-> <<>>, backlog |-> 0, dropped |-> 0],
                         <<Control("hello")>> \o FramesSince(coordinator, viewer.cursor))
    /\ UNCHANGED <<projection, coordinator, viewer, changes, breaks>>

Disconnected(c) == [c EXCEPT !.open = FALSE, !.inflight = <<>>]
ConnectionBreaks ==
    /\ socket.open /\ breaks < MaxBreaks
    /\ breaks' = breaks + 1
    /\ socket' = Disconnected(socket)
    /\ UNCHANGED <<projection, coordinator, viewer, changes>>

-------------------------------------------------------------------------------
(* Around them: the indexer and the process. *)

\* A pass of the indexer, seen by whoever reads before the tick that ends it.
ProjectionChanges ==
    /\ changes < MaxChanges
    /\ changes' = changes + 1
    /\ \/ \E s \in Slots, state \in SlotStates :
              /\ state # projection.slots[s].state
              /\ projection' = [projection EXCEPT !.slots[s].state = state]
       \/ \E s \in Slots :
              /\ projection.slots[s].state = "open"
              /\ projection' = [projection EXCEPT !.slots[s].price = 1 - @]
       \/ "live" \in RoomStates /\ projection' = [projection EXCEPT !.state = "live", !.fresh = ~@]
    /\ UNCHANGED <<coordinator, socket, viewer, breaks>>

\* The process is replaced: its frames and their numbers are gone.
ProcessRestarts ==
    /\ breaks < MaxBreaks
    /\ breaks' = breaks + 1
    /\ coordinator' = NewCoordinator(coordinator.life + 1)
    /\ socket' = Disconnected(socket)
    /\ viewer' = [viewer EXCEPT !.requests = 0]
    /\ UNCHANGED <<projection, changes>>

FeedInit ==
    /\ projection = [state |-> "armed", fresh |-> TRUE,
                     slots |-> [s \in Slots |-> IF s \in FirstSlots THEN [state |-> "open", price |-> 0] ELSE Unpublished]]
    /\ coordinator = NewCoordinator(1)
    /\ socket = [open |-> FALSE, inflight |-> <<>>, backlog |-> 0, dropped |-> 0]
    /\ viewer = [cursor |-> 0, shown |-> NothingYet, asked |-> <<1, 0>>, requests |-> 1, answers |-> <<>>]
    /\ changes = 0 /\ breaks = 0
FeedNext ==
    \/ Tick \/ PresentationFrame
    \/ Receive \/ ServerAnswers \/ AnswerArrives \/ Poll \/ Connect \/ ConnectionBreaks
    \/ ProjectionChanges \/ ProcessRestarts
\* The poll of the service ticks; the sockets, the server and the page's timers make progress.
FeedFairness ==
    /\ WF_feedVars(Tick) /\ WF_feedVars(ServerAnswers) /\ WF_feedVars(AnswerArrives) /\ WF_feedVars(Poll)
FeedSpec == FeedInit /\ [][FeedNext]_feedVars

FairFeedSpec == FeedSpec /\ FeedFairness

-------------------------------------------------------------------------------
(* What a viewer may rely on. *)

Drained == socket.open /\ socket.inflight = <<>> /\ socket.backlog = 0

\* Frames may be dropped, and connections replaced, but not silently: once a viewer of the
\* first process has everything its socket accepted, and the edge takes it for caught up, it has
\* asked for a snapshot since the last frame that changed what it shows (framesSince, _send).
\* A later process numbers its frames anew, which is the matter of StaleCursorResyncs.
NothingMissedSilently ==
    Drained /\ coordinator.life = 1 =>
        \A i \in DOMAIN coordinator.frames :
            coordinator.frames[i].type \in Refreshing => coordinator.frames[i].seq <= viewer.asked[2]

\* "A client reconnecting with a stale cursor receives `resync` and rebuilds identical
\* state from the snapshot" (live-room-coordinator.md:907), also after a restart.
StaleCursorResyncs == Drained /\ viewer.requests = 0 => viewer.asked[1] = coordinator.life

\* When the room stays as it is, the page comes to show it and stays with it, whatever
\* was dropped, overtaken by an older answer, or read in the middle of a pass.
ViewerConverges == <>[](viewer.shown = Snapshot)
===============================================================================
