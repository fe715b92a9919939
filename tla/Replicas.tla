-------------------------------- MODULE Replicas --------------------------------
(***************************************************************************)
(* Service processes over one durable store: each poll claims a lease per  *)
(* room, indexes the chain when it won any, and refreshes the coordinators *)
(* of the rooms it won; the others stand by with what they had.            *)
(*                                                                         *)
(* Time is counted in ticks that pass for everyone.  A lease says how long *)
(* it still lasts, and a reading of the chain's head how long ago it was   *)
(* taken.  The projection is the block it has reached (ChainIndex says     *)
(* what is in it).                                                         *)
(***************************************************************************)
EXTENDS Integers, Sequences, FiniteSets

CONSTANTS Replicas, Rooms,
          LeaseTtl,      \* ticks
          HeadMaxAge,    \* ticks a reading of the head counts as one
          StaleAfter,    \* blocks the index may be behind
          MaxHead, MaxSetbacks,  \* bounds
          Fragile        \* the replicas that meet the setbacks

ASSUME ReplicasAssumption ==
    /\ Fragile \subseteq Replicas
    /\ {LeaseTtl, HeadMaxAge} \subseteq Nat \ {0}
    /\ {StaleAfter, MaxHead, MaxSetbacks} \subseteq Nat

VARIABLES heads,      \* the chain's head, now and at the ends of the ticks before
          lease,      \* of each room: [holder, left]
          replica,    \* [up, pc, ask, led, head, cursor, seen, shown]
          setbacks

replicaVars == <<heads, lease, replica, setbacks>>

Nobody == "nobody"
NotRead == [head |-> -1, age |-> 0]
\* A process that just started, with an id nobody has held a lease under.
Fresh == [up |-> TRUE, pc |-> "idle", ask |-> {}, led |-> {}, head |-> 0, cursor |-> 0,
          seen |-> [room \in Rooms |-> NotRead], shown |-> [room \in Rooms |-> 0]]
Is(r, pc) == replica[r].up /\ replica[r].pc = pc

\* One statement: insert, or take over what has run out, or renew.
TryAcquire(r, room) ==
    IF lease[room].holder \in {r, Nobody} \/ lease[room].left = 0
    THEN [lease EXCEPT ![room] = [holder |-> r, left |-> LeaseTtl]]
    ELSE lease
Held(leases, r, room) == leases[room].holder = r

-------------------------------------------------------------------------------
(* syncOnce *)

Ended(r) == [replica EXCEPT ![r].pc = "idle", ![r].led = {}, ![r].head = 0]

Polls(r) ==
    /\ Is(r, "idle")
    /\ replica' = [replica EXCEPT ![r].pc = "claim", ![r].ask = Rooms, ![r].led = {}]
    /\ UNCHANGED <<heads, lease, setbacks>>

\* Mutant of Leads: a replica leads with every room, or not at all.
LeadsAllOrNothing(won) == IF won = Rooms THEN won ELSE {}
\* The rooms a pass is for.
Leads(won) == won

\* The claims of one pass are awaited together, and answered in any order.
ClaimAnswered(r, room) ==
    LET leases == TryAcquire(r, room)
        won == replica[r].led \union (IF Held(leases, r, room) THEN {room} ELSE {})
        ask == replica[r].ask \ {room}
        led == IF ask = {} THEN Leads(won) ELSE won
    IN  /\ Is(r, "claim") /\ room \in replica[r].ask
        /\ lease' = leases
        /\ replica' = [replica EXCEPT ![r].ask = ask, ![r].led = led,
               ![r].pc = IF ask # {} THEN "claim" ELSE IF led = {} THEN "idle" ELSE "head"]
        /\ UNCHANGED <<heads, setbacks>>

\* observeChainHead, in every room this replica leads.
ReadsHead(r) ==
    /\ Is(r, "head")
    /\ replica' = [replica EXCEPT ![r].head = heads[1], ![r].pc = "index",
           ![r].seen = [room \in Rooms |->
               IF room \in replica[r].led THEN [head |-> heads[1], age |-> 0] ELSE @[room]]]
    /\ UNCHANGED <<heads, lease, setbacks>>

\* syncTo, and the ticks that show what it reached.
Indexes(r) ==
    /\ Is(r, "index")
    /\ LET cursor == IF replica[r].head > replica[r].cursor THEN replica[r].head ELSE replica[r].cursor
       IN  replica' = [Ended(r) EXCEPT ![r].cursor = cursor,
               ![r].shown = [room \in Rooms |-> IF room \in replica[r].led THEN cursor ELSE @[room]]]
    /\ UNCHANGED <<heads, lease, setbacks>>

\* A call of the pass is refused: no reading, or no tick, though some blocks may have been applied.
PassFails(r) ==
    /\ r \in Fragile /\ setbacks < MaxSetbacks
    /\ setbacks' = setbacks + 1
    /\ \/ Is(r, "head") /\ replica' = Ended(r)
       \/ /\ Is(r, "index")
          /\ \E reached \in replica[r].cursor..replica[r].head :
                 replica' = [Ended(r) EXCEPT ![r].cursor = reached]
    /\ UNCHANGED <<heads, lease>>

-------------------------------------------------------------------------------
(* Around them. *)

Crashes(r) ==
    /\ replica[r].up /\ r \in Fragile /\ setbacks < MaxSetbacks
    /\ setbacks' = setbacks + 1
    /\ replica' = [replica EXCEPT ![r] = [Fresh EXCEPT !.up = FALSE]]
    \* The id dies with the process; its leases run out.
    /\ lease' = [room \in Rooms |-> IF lease[room].holder = r THEN [lease[room] EXCEPT !.holder = "dead"] ELSE lease[room]]
    /\ UNCHANGED <<heads>>
Restarts(r) ==
    /\ ~replica[r].up
    /\ replica' = [replica EXCEPT ![r] = Fresh]
    /\ UNCHANGED <<heads, lease, setbacks>>

ChainAdvances ==
    /\ heads[1] < MaxHead
    /\ heads' = [heads EXCEPT ![1] = @ + 1]
    /\ UNCHANGED <<lease, replica, setbacks>>

\* Mutant of Older: a reading of the head counts however old it is.
NeverOlder(reading) == reading
\* A reading that is too old to count is as good as none.
Older(reading) ==
    IF reading = NotRead \/ reading.age = HeadMaxAge THEN NotRead ELSE [reading EXCEPT !.age = @ + 1]
TimePasses ==
    /\ heads' = [i \in DOMAIN heads |-> IF i = 1 THEN heads[1] ELSE heads[i - 1]]
    /\ lease' = [room \in Rooms |-> [lease[room] EXCEPT !.left = IF @ = 0 THEN 0 ELSE @ - 1]]
    /\ replica' = [r \in Replicas |-> [replica[r] EXCEPT !.seen = [room \in Rooms |-> Older(@[room])]]]
    /\ UNCHANGED <<setbacks>>

ReplicasInit ==
    /\ heads = [i \in 1..(HeadMaxAge + 2) |-> 0]
    /\ lease = [room \in Rooms |-> [holder |-> Nobody, left |-> 0]]
    /\ replica = [r \in Replicas |-> Fresh]
    /\ setbacks = 0
ReplicaStep(r) == Restarts(r) \/ Polls(r) \/ (\E room \in Rooms : ClaimAnswered(r, room)) \/ ReadsHead(r) \/ Indexes(r)
ReplicasNext ==
    \/ \E r \in Replicas : ReplicaStep(r) \/ PassFails(r) \/ Crashes(r)
    \/ ChainAdvances \/ TimePasses
ReplicasSpec == ReplicasInit /\ [][ReplicasNext]_replicaVars

\* Every process keeps polling, and is restarted by its supervisor; time passes.
FairReplicasSpec ==
    /\ ReplicasSpec
    /\ WF_replicaVars(TimePasses)
    /\ \A r \in Replicas : WF_replicaVars(ReplicaStep(r))

-------------------------------------------------------------------------------
(* What a reader of the service may rely on. *)

IndexerHealth(r, room) ==
    LET reading == replica[r].seen[room]
    IN  IF reading = NotRead THEN "unknown"
        ELSE IF reading.head - replica[r].cursor > StaleAfter THEN "delayed" ELSE "current"

\* A replica that says "current" has indexed what was the chain HeadMaxAge ticks ago, but for
\* the blocks it may be behind: also one that lost its lease, cannot read the chain, or is in
\* the middle of a pass that does not end (observeChainHead's comment).
CurrentMeansCurrent ==
    \A r \in Replicas, room \in Rooms :
        IndexerHealth(r, room) = "current" => replica[r].cursor + StaleAfter >= heads[HeadMaxAge + 2]

\* Once the chain rests, every room comes to be shown as it is by some replica, though the
\* leases are won apart, die with a process and run out during slow passes (claimRooms).
RoomsStayServed ==
    \A room \in Rooms :
        []<>(\E r \in Replicas : replica[r].up /\ replica[r].shown[room] = heads[1])
===============================================================================
