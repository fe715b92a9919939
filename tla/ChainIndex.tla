------------------------------- MODULE ChainIndex -------------------------------
(***************************************************************************)
(* The indexer of one process (indexer/indexer.mjs, driven by syncOnce of  *)
(* app.mjs): from the logs of a chain whose recent blocks may be replaced, *)
(* read through a node that may lag or fail, to the Projection.            *)
(*                                                                         *)
(* Every await of a sync is a step boundary; between two of them the chain *)
(* moves.  The projections live in memory: a restart begins at genesis.    *)
(* A block holds one transaction, and serves as its own timestamp and      *)
(* source sequence.                                                        *)
(***************************************************************************)
EXTENDS Projection, MarketLogs

CONSTANTS Kinds,         \* the transactions that may still be mined
          Histories,     \* what the chain may hold when the process starts
          Passes,        \* the sweeps of one range, at most
          Setbacks,      \* whether the node may take back blocks that were applied but not
                         \* passed by the cursor, or not answer for the hash that shows a fork
          MaxBlocks, MaxForks, MaxUpsets   \* bounds

ASSUME ChainAssumption == Passes \in Nat \ {0} /\ {MaxBlocks, MaxForks, MaxUpsets} \subseteq Nat

VARIABLES chain,    \* blocks: [hash, logs]
          forks,    \* forks so far, which is also the hash of the blocks mined since
          rep,      \* the process
          upsets    \* failed calls, lagging answers and restarts so far

indexVars == <<chain, forks, rep, upsets>>

-------------------------------------------------------------------------------
(* The chain, and the node it is read through. *)

Upset == upsets < MaxUpsets /\ upsets' = upsets + 1
NoUpset == UNCHANGED upsets

Mine ==
    /\ Len(chain) < MaxBlocks
    /\ \E kind \in Kinds : chain' \in Mined(chain, kind, forks)
    /\ UNCHANGED <<forks, rep, upsets>>

\* Nothing of the chain is in flight, or applied above the cursor.
Quiet == rep.pc = "rest" /\ rep.applied = {} /\ rep.cursor \in DOMAIN rep.hashes

\* The last blocks give way to another block in the place of the first of them.
Fork ==
    /\ forks < MaxForks
    /\ ~Setbacks => Quiet
    /\ \E keep \in {n \in 1..(Len(chain) - 1) : n >= Len(chain) - 2}, kind \in Kinds :
           chain' \in Mined(SubSeq(chain, 1, keep), kind, forks + 1)
    /\ forks' = forks + 1
    /\ UNCHANGED <<rep, upsets>>

Hash(block) == IF block \in DOMAIN chain THEN chain[block].hash ELSE -1

-------------------------------------------------------------------------------
(* The process. *)

NewProcess ==
    [pc |-> "rest", head |-> 0, cursor |-> 0, store |-> EmptyStore, applied |-> {}, hashes |-> None,
     from |-> 1, pass |-> 0, seen |-> -1]
Reset(r) == [NewProcess EXCEPT !.pc = r.pc, !.head = r.head]

KnownAddressCount(s) == (IF s.room = None THEN 0 ELSE 1) + Cardinality(DOMAIN s.markets)
\* A sync works on a range; one that has nothing to read is over.
Sync(r) ==
    IF r.head <= r.cursor THEN [r EXCEPT !.pc = "rest"]
    ELSE [r EXCEPT !.pc = "sweep", !.from = r.cursor + 1, !.pass = 1, !.seen = -1]

\* syncOnce asks for the head first; a lagging node answers with an older one.
ReadHead ==
    /\ rep.pc = "rest"
    /\ \E head \in {Len(chain), Len(chain) - 1} :
           /\ ~Setbacks => \A id \in rep.applied : id[1] <= head
           /\ rep' = [rep EXCEPT !.pc = "compare", !.head = head]
           /\ IF head = Len(chain) THEN NoUpset ELSE Upset
    /\ UNCHANGED <<chain, forks>>

\* A block whose hash is not known, or cannot be read, is not a reorg.
DetectReorg ==
    rep.cursor \in DOMAIN rep.hashes /\ Hash(rep.cursor) \notin {-1, rep.hashes[rep.cursor]}
CompareHashes ==
    /\ rep.pc = "compare"
    /\ \E answered \in BOOLEAN :
           /\ ~answered => Setbacks /\ DetectReorg
           /\ rep' = Sync(IF answered /\ DetectReorg THEN Reset(rep) ELSE rep)
           /\ IF answered THEN NoUpset ELSE Upset
    /\ UNCHANGED <<chain, forks>>

Identity(g) == <<g.block, g.index, g.address>>
\* The node answers for the factory, the configured room and the markets known so far.
GetLogs(r) ==
    SelectSeq(Logs(chain, r.from, Min({r.head, Len(chain)})),
              LAMBDA g : g.address \in {"factory", "room"} \union DOMAIN r.store.markets)
\* A store and a log, each a value before the handler reads it (TLC evaluates arguments by name).
ApplyNext(s, g) == CHOOSE t \in {Apply(u, g) : u \in {s}} : TRUE
\* As if every sweep applied what it fetched.
ApplyEveryLog(r, logs) == [r EXCEPT !.store = FoldLeft(ApplyNext, @, logs)]
ApplyLogs(r, logs) ==
    LET fresh == SelectSeq(logs, LAMBDA g : Identity(g) \notin r.applied)
    IN  [r EXCEPT !.store = FoldLeft(ApplyNext, @, fresh),
                  !.applied = @ \union {Identity(fresh[i]) : i \in DOMAIN fresh}]
Sweep ==
    /\ rep.pc = "sweep"
    /\ \E r \in {ApplyLogs(rep, GetLogs(rep))} :
           rep' = IF KnownAddressCount(r.store) = rep.seen \/ rep.pass = Passes
                  THEN [r EXCEPT !.pc = "refresh"]
                  ELSE [r EXCEPT !.pass = @ + 1, !.seen = KnownAddressCount(r.store)]
    /\ UNCHANGED <<chain, forks, upsets>>

RefreshAll(s, markets, block) ==
    FoldSet(LAMBDA m, t : CHOOSE r \in {Refresh(u, m, ReadMarketState(chain, m, block)) : u \in {t}} : TRUE,
            s, markets)
\* The cursor moves once every touched market was read at the head.
RefreshTouchedMarkets ==
    /\ rep.pc = "refresh"
    /\ rep.head <= Len(chain)
    /\ rep' = [rep EXCEPT !.store = [RefreshAll(@, @.touched, rep.head) EXCEPT !.touched = {}],
                          !.cursor = rep.head, !.pc = "hashes",
                          !.applied = {id \in @ : id[1] > rep.head}]
    /\ UNCHANGED <<chain, forks, upsets>>
\* A read fails: what was read before it stays.
RefreshFails ==
    /\ rep.pc = "refresh"
    /\ \E read \in (SUBSET rep.store.touched) \ {rep.store.touched} :
           rep' = [rep EXCEPT !.store = RefreshAll(@, read, Min({rep.head, Len(chain)})), !.pc = "rest"]
    /\ IF rep.head <= Len(chain) THEN Upset ELSE NoUpset
    /\ UNCHANGED <<chain, forks>>

\* The hashes are asked for after the cursor moved; the last of them may not be answered.
RememberHashes ==
    /\ rep.pc = "hashes"
    /\ \E answered \in {rep.head, rep.head - 1} :
           /\ rep' = [rep EXCEPT !.pc = "rest",
                                 !.hashes = [b \in {b \in rep.from..answered : Hash(b) # -1} |-> Hash(b)] @@ @]
           /\ IF answered = rep.head THEN NoUpset ELSE Upset
    /\ UNCHANGED <<chain, forks>>

\* As if a failed sync kept the promise that says one is running.
CallFailsForGood ==
    /\ rep.pc \in {"compare", "sweep"}
    /\ rep' = [rep EXCEPT !.pc = "syncing"]
    /\ Upset
    /\ UNCHANGED <<chain, forks>>

\* The head, the logs or a state cannot be read: the next poll starts over.
CallFails ==
    /\ rep.pc \in {"compare", "sweep"}
    /\ rep' = [rep EXCEPT !.pc = "rest"]
    /\ Upset
    /\ UNCHANGED <<chain, forks>>

Rebuild ==
    /\ rep.pc = "rest"
    /\ rep' = Sync(Reset([rep EXCEPT !.head = Len(chain)]))
    /\ Upset
    /\ UNCHANGED <<chain, forks>>
Restart ==
    /\ rep.pc # "rest"
    /\ rep' = NewProcess
    /\ Upset
    /\ UNCHANGED <<chain, forks>>

SyncStep == ReadHead \/ CompareHashes \/ Sweep \/ RefreshTouchedMarkets \/ RefreshFails \/ RememberHashes

IndexInit ==
    /\ chain \in {Played(kinds) : kinds \in Histories}
    /\ forks = 0 /\ rep = NewProcess /\ upsets = 0
IndexNext == Mine \/ Fork \/ SyncStep \/ CallFails \/ Rebuild \/ Restart
IndexSpec == IndexInit /\ [][IndexNext]_indexVars
\* The poll timer keeps calling syncOnce, which runs to its end or throws.
FairIndexSpec == IndexSpec /\ WF_rep(SyncStep)

-------------------------------------------------------------------------------
(* What the projection promises. *)

\* The process has read the chain to its end and, as far as it can tell, this chain.
CaughtUp ==
    /\ Quiet
    /\ rep.cursor = Len(chain)
    /\ Hash(rep.cursor) = rep.hashes[rep.cursor]

\* The tables are read market by market; their order across markets depends on the sweeps.
Facts(s) ==
    [s EXCEPT !.tables = [t \in DOMAIN @ |-> [m \in DOMAIN s.markets |-> ListRows(s, t, m)]]]
Replayed(c) ==
    LET s == FoldLeft(ApplyNext, EmptyStore, AllLogs(c))
    IN  [RefreshAll(s, s.touched, Len(c)) EXCEPT !.touched = {}]

\* Whatever failed, restarted, lagged or was replaced on the way, a process that has
\* caught up holds what one replay of this chain yields: nothing twice, nothing missed,
\* nothing of a replaced block (syncTo, detectReorg, rewindTo).
ProjectionIsTheChain == CaughtUp => Facts(rep.store) = Facts(Replayed(chain))

\* "A reader failure must not leave staleness reporting zero lag over rows that were never
\* refreshed" (indexer.mjs:146): at the cursor, the rows hold what the getters answer there.
RefreshedThroughCursor ==
    CaughtUp =>
        \A m \in DOMAIN rep.store.markets :
            LET read == ReadMarketState(chain, m, rep.cursor)
            IN  read = [k \in DOMAIN read |-> rep.store.markets[m][k]]

SlotState(L, m) ==
    IF Final(L, m) # 0 THEN TerminalState(Final(L, m))
    ELSE IF Said(L, m, "ResultChallenged") THEN "challenged"
    ELSE IF m \in Decided(L) THEN "provisional"
    ELSE IF Gate(L, m) # "open" THEN Gate(L, m)
    ELSE IF Shares(L, m) = 0 THEN "awaiting-liquidity" ELSE "open"
\* The rows tell the truth about the contracts, whether a log or a getter said it: every
\* slot is in its market's state, every balance is what was received less what left, and
\* the room is settled exactly when it was closed and every market is final.
RowsTellTheMarkets ==
    CaughtUp =>
        LET L == AllLogs(chain)
        IN  /\ DOMAIN rep.store.slots = CreatedIn(L)
            /\ \A m \in CreatedIn(L) :
                   /\ rep.store.slots[m].state = SlotState(L, m)
                   /\ GetHolding(rep.store, m, "p").lp = Shares(L, m)
                   /\ GetHolding(rep.store, m, "q").a = Held(L, m, "q")
                   /\ ListActions(rep.store, m, 0) = {<<m, g.id>> : g \in Pending(L, m)}
            /\ rep.store.room.state \in SlotTerminal <=>
                   ClosedRoom(L) /\ \A m \in CreatedIn(L) : Final(L, m) # 0

\* Once the chain stays as it is and the calls answer, the process reads it to the end.
IndexerCatchesUp == <>[](rep.cursor >= Len(chain))
===============================================================================
