------------------------------- MODULE Settlement -------------------------------
(***************************************************************************)
(* How a closed market becomes final.  Each resolver ticks on its own:     *)
(* reads the work list, the condition documents and the log, rebuilds the  *)
(* result, attests it, writes down that it did, then votes on a challenge. *)
(* The keeper calls whichever finalization is due.  Between any two of     *)
(* these steps the others move, time passes, a receipt is lost or a        *)
(* process dies.                                                           *)
(*                                                                         *)
(* What a resolver would rebuild from the log as it stands is `view`:      *)
(* SourceLog shows how a late or restated fact changes it.                 *)
(***************************************************************************)
EXTENDS Integers, Sequences, FiniteSets, FiniteSetsExt, SequencesExt

CONSTANTS Resolvers,
          Results,                    \* what can be rebuilt: [outcome, hash]
          ResolutionTime, ChallengeWindow, ChallengeTimeout,
          MaxTime, MaxViews, MaxSlips \* bounds: the clock, changes of view, lost steps

\* The templates decide for a side, yes or no, or a tie: none decides "invalid".
ASSUME SettlementAssumption ==
    /\ IsFiniteSet(Resolvers) /\ Cardinality(Resolvers) >= 2
    /\ Results \subseteq [outcome : 1 .. 3, hash : STRING]
    /\ {ResolutionTime, ChallengeWindow, ChallengeTimeout, MaxTime, MaxViews, MaxSlips} \subseteq Nat
    /\ MaxTime >= ResolutionTime + ChallengeWindow + ChallengeTimeout

VARIABLES market,     \* the contract's side, closed at time 0; skipped: two of its epochs were
          view, views,
          resolver,   \* the processes
          attempt,    \* durable: what each resolver's log says of the market
          voted,      \* durable: the resolvers whose verdict is written down
          keeper, now, slips

resolverVars == <<resolver, attempt, voted>>
settlementVars == <<market, view, views, resolverVars, keeper, now, slips>>

Unset == 0
Invalid == 4
Undetermined == [outcome |-> Unset, hash |-> "none"]
Opinions == Results \union {Undetermined}

-------------------------------------------------------------------------------
(* The contract. *)

Same(a, b) == a.outcome = b.outcome /\ a.hash = b.hash
Attesters(result) == {a.by : a \in {b \in ToSet(market.attested) : Same(b, result)}}
Verdicts(accept) == {v.by : v \in {w \in market.verdicts : w.accept = accept}}
Final(outcome) == [market EXCEPT !.final = outcome]

AttestResult(r, result) ==
    /\ market.provisional = Unset /\ market.final = Unset
    /\ now <= ResolutionTime
    /\ result.outcome # Unset
    /\ r \notin Attesters(result)
    /\ LET count == Cardinality(Attesters(result)) + 1
           attested == Append(market.attested,
                              [by |-> r, outcome |-> result.outcome, hash |-> result.hash, count |-> count])
       IN  market' = IF count = 2
                     THEN [market EXCEPT !.attested = attested, !.provisional = result.outcome,
                                         !.provisionalAt = now]
                     ELSE [market EXCEPT !.attested = attested]

ChallengeResult ==
    /\ market.provisional # Unset /\ market.final = Unset /\ ~market.challenged
    /\ now < market.provisionalAt + ChallengeWindow
    /\ market' = [market EXCEPT !.challenged = TRUE, !.challengedAt = now]

\* `saw` is what the resolver had rebuilt when it voted.
AttestChallengeVerdict(r, accept, saw) ==
    /\ market.challenged /\ market.final = Unset
    /\ r \notin Verdicts(accept)
    /\ LET cast == [market EXCEPT !.verdicts = @ \union {[by |-> r, accept |-> accept, saw |-> saw]}]
       IN  market' = IF Cardinality(Verdicts(accept)) + 1 = 2
                     THEN [cast EXCEPT !.final = IF accept THEN Invalid ELSE market.provisional]
                     ELSE cast

FinalizeUnchallenged ==
    /\ market.provisional # Unset /\ market.final = Unset /\ ~market.challenged
    /\ now >= market.provisionalAt + ChallengeWindow
    /\ market' = Final(market.provisional)
ExpireChallenge ==
    /\ market.challenged /\ market.final = Unset
    /\ now >= market.challengedAt + ChallengeTimeout
    /\ market' = Final(Invalid)
InvalidateUnresolved ==
    /\ market.final = Unset /\ market.provisional = Unset
    /\ now >= ResolutionTime
    /\ market' = Final(Invalid)
Accepts(call) ==
    \/ call = "finalizeUnchallenged" /\ FinalizeUnchallenged
    \/ call = "expireChallenge" /\ ExpireChallenge
    \/ call = "invalidateUnresolved" /\ InvalidateUnresolved

-------------------------------------------------------------------------------
(* The resolution log of each resolver: a row per market, the last write wins; *)
(* a verdict's row is written once.                                            *)

RecordAttempt(r, status) == attempt' = [attempt EXCEPT ![r] = status]
AlreadyAttested(r) == attempt[r] = "attested"
RecordVerdict(r) == voted' = voted \union {r}

-------------------------------------------------------------------------------
(* A resolver's tick. *)

Idle == [pc |-> "Idle", result |-> Undetermined, accept |-> FALSE]
At(r, pc) == resolver' = [resolver EXCEPT ![r].pc = pc]
Slip == slips < MaxSlips /\ slips' = slips + 1

\* closedSlots: the work list, from the chain.
OnWorkList == market.final = Unset

\* The headline's document or the log does not check out.
RefuseRoom(r) ==
    /\ resolver[r].pc = "Idle" /\ OnWorkList
    /\ Slip
    /\ RecordAttempt(r, "refused")
    /\ UNCHANGED <<market, resolver, voted>>

\* As if it were written down before it was done.
RecordFirst(r) ==
    /\ resolver[r].pc = "Idle" /\ OnWorkList /\ ~AlreadyAttested(r)
    /\ now <= ResolutionTime /\ view # Undetermined
    /\ RecordAttempt(r, "attested")
    /\ resolver' = [resolver EXCEPT ![r] = [Idle EXCEPT !.result = view, !.pc = "Attest"]]
    /\ UNCHANGED <<market, voted, slips>>

\* The log is read once, and the deadline against the tick's own time.
BeginTick(r) ==
    /\ resolver[r].pc = "Idle" /\ OnWorkList
    /\ IF AlreadyAttested(r) THEN UNCHANGED attempt
       ELSE IF now > ResolutionTime THEN RecordAttempt(r, "missed")
       ELSE IF view = Undetermined THEN RecordAttempt(r, "refused")
       ELSE UNCHANGED attempt
    /\ resolver' = [resolver EXCEPT ![r] =
           [Idle EXCEPT !.result = view,
                        !.pc = IF AlreadyAttested(r) \/ now > ResolutionTime \/ view = Undetermined
                               THEN "Review" ELSE "Attest"]]
    /\ UNCHANGED <<market, voted, slips>>

\* A transaction the contract refuses is not a decision, and leaves no record.
Attest(r) ==
    /\ resolver[r].pc = "Attest"
    /\ \/ AttestResult(r, resolver[r].result) /\ At(r, "Record")
       \/ ~ENABLED AttestResult(r, resolver[r].result) /\ At(r, "Review") /\ UNCHANGED market
    /\ UNCHANGED <<attempt, voted, slips>>
Record(r) ==
    /\ resolver[r].pc = "Record"
    /\ RecordAttempt(r, "attested")
    /\ At(r, "Review")
    /\ UNCHANGED <<market, voted, slips>>
\* challengeStateOf.
ChallengeState == [open |-> market.challenged /\ market.final = Unset, standing |-> market.provisional]

\* As if a resolver that cannot rebuild voted to keep the standing result.
ReviewUnread(r) ==
    /\ resolver[r].pc = "Review"
    /\ LET result == resolver[r].result
           votes == ChallengeState.open /\ r \notin voted
       IN  resolver' = [resolver EXCEPT ![r] =
               IF votes THEN [@ EXCEPT !.pc = "Vote", !.accept =
                                  result # Undetermined /\ result.outcome # ChallengeState.standing]
               ELSE Idle]
    /\ UNCHANGED <<market, attempt, voted, slips>>

Review(r) ==
    /\ resolver[r].pc = "Review"
    /\ LET result == resolver[r].result
           votes == ChallengeState.open /\ r \notin voted /\ result # Undetermined
       IN  resolver' = [resolver EXCEPT ![r] =
               IF votes THEN [@ EXCEPT !.pc = "Vote", !.accept = result.outcome # ChallengeState.standing]
               ELSE Idle]
    /\ UNCHANGED <<market, attempt, voted, slips>>

Vote(r) ==
    /\ resolver[r].pc = "Vote"
    /\ LET cast == AttestChallengeVerdict(r, resolver[r].accept, resolver[r].result)
       IN  \/ cast /\ At(r, "WriteVerdict")
           \/ ~ENABLED cast /\ resolver' = [resolver EXCEPT ![r] = Idle] /\ UNCHANGED market
    /\ UNCHANGED <<attempt, voted, slips>>
WriteVerdict(r) ==
    /\ resolver[r].pc = "WriteVerdict"
    /\ RecordVerdict(r)
    /\ resolver' = [resolver EXCEPT ![r] = Idle]
    /\ UNCHANGED <<market, attempt, slips>>

\* The process dies, or a receipt never comes and the rest of the tick is skipped.
Interrupted(r) ==
    /\ resolver[r].pc # "Idle"
    /\ Slip
    /\ resolver' = [resolver EXCEPT ![r] = Idle]
    /\ UNCHANGED <<market, attempt, voted>>

ResolverStep(r) ==
    /\ \/ BeginTick(r) \/ RefuseRoom(r) \/ Attest(r) \/ Record(r)
       \/ Review(r) \/ Vote(r) \/ WriteVerdict(r) \/ Interrupted(r)
    /\ UNCHANGED <<view, views, keeper, now>>

-------------------------------------------------------------------------------
(* The keeper. *)

\* As if a provisional result came first.
DueProvisional(state, nowS) ==
    IF state.final # Unset THEN "none"
    ELSE IF state.provisional # Unset
    THEN IF nowS >= state.provisionalAt + ChallengeWindow THEN "finalizeUnchallenged" ELSE "none"
    ELSE IF nowS >= ResolutionTime THEN "invalidateUnresolved" ELSE "none"

DueAction(state, nowS) ==
    IF state.final # Unset THEN "none"
    ELSE IF state.challenged
    THEN IF nowS >= state.challengedAt + ChallengeTimeout THEN "expireChallenge" ELSE "none"
    ELSE IF state.provisional # Unset
    THEN IF nowS >= state.provisionalAt + ChallengeWindow THEN "finalizeUnchallenged" ELSE "none"
    ELSE IF nowS >= ResolutionTime THEN "invalidateUnresolved" ELSE "none"

\* settlementStateOf, as if its nine reads were one.
SettlementState ==
    [final |-> market.final, provisional |-> market.provisional, provisionalAt |-> market.provisionalAt,
     challenged |-> market.challenged, challengedAt |-> market.challengedAt]
KeeperReads ==
    /\ keeper = "none"
    /\ keeper' = DueAction(SettlementState, now)
    /\ keeper' # "none"
    /\ UNCHANGED market
KeeperCalls ==
    /\ keeper # "none"
    /\ keeper' = "none"
    /\ Accepts(keeper) \/ (~ENABLED Accepts(keeper) /\ UNCHANGED market)
KeeperStep ==
    /\ KeeperReads \/ KeeperCalls
    /\ UNCHANGED <<view, views, resolverVars, now, slips>>

-------------------------------------------------------------------------------
SettlementInit ==
    /\ market \in [attested : {<<>>}, provisional : {Unset}, provisionalAt : {0}, challenged : {FALSE},
                   challengedAt : {0}, verdicts : {{}}, final : {Unset}, skipped : BOOLEAN]
    /\ view \in Opinions /\ views = 0
    /\ resolver = [r \in Resolvers |-> Idle]
    /\ attempt = [r \in Resolvers |-> "none"] /\ voted = {}
    /\ keeper = "none" /\ now = 0 /\ slips = 0

\* An audience member challenges; the log says something else; time passes.
Challenge == ChallengeResult /\ UNCHANGED <<view, views, resolverVars, keeper, now, slips>>
ViewChanges ==
    /\ views < MaxViews
    /\ views' = views + 1
    /\ view' \in Opinions \ {view}
    /\ UNCHANGED <<market, resolverVars, keeper, now, slips>>
TimePasses ==
    /\ now < MaxTime
    /\ now' = now + 1
    /\ UNCHANGED <<market, view, views, resolverVars, keeper, slips>>

SettlementNext ==
    \/ \E r \in Resolvers : ResolverStep(r)
    \/ KeeperStep \/ Challenge \/ ViewChanges \/ TimePasses

SettlementFairness == WF_settlementVars(KeeperStep) /\ WF_settlementVars(TimePasses)
SettlementSpec == SettlementInit /\ [][SettlementNext]_settlementVars
FairSettlementSpec == SettlementSpec /\ SettlementFairness

-------------------------------------------------------------------------------
(* The settlement record: what the indexed events say about the resolution. *)

\* As if attestations were counted.
CountedQuorum(attestations) == Len(attestations) >= 2

ReachedQuorum(attestations) ==
    \/ \E i, j \in DOMAIN attestations :
           Same(attestations[i], attestations[j]) /\ attestations[i].by # attestations[j].by
    \/ \E i \in DOMAIN attestations : attestations[i].count >= 2

Upheld == IF Cardinality(Verdicts(TRUE)) >= 2 THEN "yes"
          ELSE IF Cardinality(Verdicts(FALSE)) >= 2 THEN "no" ELSE "unknown"
InvalidationReason ==
    IF market.challenged /\ Upheld = "yes" THEN "challenge_upheld"
    ELSE IF market.challenged /\ Upheld = "unknown" THEN "challenge_filed"
    ELSE IF market.skipped THEN "persistent_skip"
    ELSE IF ~ReachedQuorum(market.attested) THEN "no_quorum" ELSE "unknown"
SettlementRecord ==
    [outcome |-> market.final, quorum |-> ReachedQuorum(market.attested),
     reason |-> IF market.final = Invalid THEN InvalidationReason ELSE "none"]

-------------------------------------------------------------------------------
(* Properties. *)

\* A resolver's row is its memory of having signed, and the only thing that keeps it from
\* signing again: it never says more than the contract holds.
RecordsAreOnChain ==
    \A r \in Resolvers :
        /\ AlreadyAttested(r) => \E i \in DOMAIN market.attested : market.attested[i].by = r
        /\ r \in voted => r \in Verdicts(TRUE) \union Verdicts(FALSE)

\* A challenged result stands only if two resolvers rebuilt it again, falls early only if
\* two rebuilt another: silence is never counted as a vote.
VerdictsAreRebuilt ==
    LET rebuilt(same) == {v.by : v \in {w \in market.verdicts :
                              w.saw # Undetermined /\ ((w.saw.outcome = market.provisional) <=> same)}}
    IN  market.challenged /\ market.final # Unset =>
            IF market.final # Invalid THEN Cardinality(rebuilt(TRUE)) >= 2
            ELSE Cardinality(rebuilt(FALSE)) >= 2 \/ now >= market.challengedAt + ChallengeTimeout

\* The published record reports a quorum exactly when the contract registered a result,
\* and what it says of the resolution of an invalidated market is so.
RecordTellsWhy ==
    LET record == SettlementRecord IN
    /\ record.quorum <=> market.provisional # Unset
    /\ record.outcome = Invalid =>
           CASE record.reason = "no_quorum"        -> market.provisional = Unset
             [] record.reason = "challenge_upheld" -> Cardinality(Verdicts(TRUE)) >= 2
             [] record.reason = "challenge_filed"  -> market.challenged
             [] record.reason = "persistent_skip"  -> market.skipped /\ ~market.challenged
             [] OTHER -> FALSE

\* What the resolution log and the settlement record say of a market is what its chain shows
\* (ResolutionService.tick, reviewChallenges, settlementRecordFor).
SettlementHolds == RecordsAreOnChain /\ VerdictsAreRebuilt /\ RecordTellsWhy

\* "the time from 'the result is known' to 'the money is claimable' had no upper bound and
\* no owner": with a keeper running, whatever the resolvers do, the market becomes final.
MarketsSettle == <>(market.final # Unset)

\* comment: "The market counts attestations per signer and rejects a second from the same
\* one".  A refusal of the whole room overwrites the row that says the resolver attested.
OneResultPerResolver ==
    \A i, j \in DOMAIN market.attested : market.attested[i].by = market.attested[j].by => i = j

===============================================================================
