------------------------------- MODULE EntryGate --------------------------------
(***************************************************************************)
(* The way in: an account's acceptance of the terms, signed by it or       *)
(* posted for it by anybody, and the allowlist that asks for a proven one  *)
(* before the API answers.  There is one account, on the allowlist; a call *)
(* of accept yields at each access to the store, and several may be under  *)
(* way.  Version 0 is no acceptance.                                       *)
(*                                                                         *)
(* The durable store keeps the version and the proof in one row, and is    *)
(* what the allowlist asks; without one, three maps of the process do.     *)
(***************************************************************************)
EXTENDS Integers, FiniteSets

CONSTANTS Calls,         \* of accept and status under way at a time, at most
          Versions,      \* of the terms, in the order they are deployed
          MaxAccepts     \* bound

ASSUME EntryAssumption == Versions \in Nat \ {0} /\ MaxAccepts \in Nat

VARIABLES durable,      \* whether there is a durable store
          row,          \* the stored acceptance: [version, proven]
          terms,        \* what the allowlist of a process without store was told
          version,      \* TERMS_VERSION of the running process
          call,         \* [pc, signed, next]
          owner         \* [signed, accepts]: the versions the account signed, and a count

entryVars == <<durable, row, terms, version, call, owner>>

NoCall == [pc |-> "idle", signed |-> FALSE, next |-> FALSE]
NoRow == [version |-> 0, proven |-> FALSE]
At(c, pc) == call[c].pc = pc
Goes(c, pc) == call' = [call EXCEPT ![c].pc = pc]
Ends(c) == call' = [call EXCEPT ![c] = NoCall]

-------------------------------------------------------------------------------
(* The stores. *)

SetVersion(v) == row' = [row EXCEPT !.version = v]
\* An update: where there is no acceptance there is nothing to prove. The map has no such rule.
SetProven(proven) == row' = IF durable /\ row.version = 0 THEN row ELSE [row EXCEPT !.proven = proven]

\* What the allowlist asks: of the durable store, the version if it is proven.
TermsOf == IF durable THEN (IF row.proven THEN row.version ELSE 0) ELSE terms
AcceptTerms(v) ==
    IF durable THEN SetVersion(v) /\ UNCHANGED terms
    ELSE terms' = v /\ UNCHANGED row
Allowed == TermsOf = version

-------------------------------------------------------------------------------
(* accept *)

\* Every attestation affirmed, the current version, and a signature that verifies if there is one.
AcceptArrives(c) ==
    /\ At(c, "idle") /\ owner.accepts < MaxAccepts
    /\ \E signed \in BOOLEAN :
           /\ call' = [call EXCEPT ![c] = [pc |-> "set", signed |-> signed, next |-> FALSE]]
           /\ owner' = [signed |-> IF signed THEN owner.signed \union {version} ELSE owner.signed,
                        accepts |-> owner.accepts + 1]
    /\ UNCHANGED <<durable, row, terms, version>>
AcceptRecords(c) ==
    /\ At(c, "set")
    /\ SetVersion(version)
    /\ Goes(c, "prove")
    /\ UNCHANGED <<durable, terms, version, owner>>
\* What the proof is to be is read, unless this call has it, and then written.
ReadsProof(c) ==
    /\ At(c, "prove")
    /\ call' = [call EXCEPT ![c].pc = "remember", ![c].next = call[c].signed \/ row.proven]
    /\ UNCHANGED <<durable, row, terms, version, owner>>
RemembersProof(c) ==
    /\ At(c, "remember")
    /\ SetProven(call[c].next)
    /\ Goes(c, "allow")
    /\ UNCHANGED <<durable, terms, version, owner>>
\* Mutant of TellsAllowlist: every acceptance is told to the allowlist, proven or not.
TellsAllowlistAll(c) ==
    /\ At(c, "allow")
    /\ AcceptTerms(version)
    /\ Ends(c)
    /\ UNCHANGED <<durable, version, owner>>
TellsAllowlist(c) ==
    /\ At(c, "allow")
    /\ IF call[c].next THEN AcceptTerms(version) ELSE UNCHANGED <<row, terms>>
    /\ Ends(c)
    /\ UNCHANGED <<durable, version, owner>>

(* status: a proven acceptance of these terms is told to the allowlist again. *)
StatusArrives(c) ==
    /\ At(c, "idle")
    /\ row = [version |-> version, proven |-> TRUE]
    /\ call' = [call EXCEPT ![c] = [pc |-> "allow", signed |-> FALSE, next |-> TRUE]]
    /\ UNCHANGED <<durable, row, terms, version, owner>>

-------------------------------------------------------------------------------
(* The operator and the process. *)

EraseAcceptance ==
    /\ durable /\ row # NoRow
    /\ row' = NoRow
    /\ UNCHANGED <<durable, terms, version, call, owner>>
\* A deployment may bring new terms.
Redeploys ==
    /\ version < Versions
    /\ version' \in {version, version + 1}
    /\ call' = [c \in Calls |-> NoCall]
    /\ terms' = 0
    /\ row' = IF durable THEN row ELSE NoRow
    /\ UNCHANGED <<durable, owner>>

EntryInit ==
    /\ durable \in BOOLEAN
    /\ row = NoRow /\ terms = 0 /\ version = 1
    /\ call = [c \in Calls |-> NoCall]
    /\ owner = [signed |-> {}, accepts |-> 0]
EntryNext ==
    \/ \E c \in Calls :
           \/ AcceptArrives(c) \/ AcceptRecords(c) \/ ReadsProof(c) \/ RemembersProof(c) \/ TellsAllowlist(c)
           \/ StatusArrives(c)
    \/ EraseAcceptance \/ Redeploys
EntrySpec == EntryInit /\ [][EntryNext]_entryVars

-------------------------------------------------------------------------------
(* What the way in promises. *)

\* The routes before the gate, and those behind it (ApiServer.handle).
PublicRoutes == {"health", "metrics", "capabilities", "terms", "status", "accept", "help", "oracle"}
MarketRoutes == {"stream", "slots", "markets", "accounts"}
GatedRoutes == {"activity", "schedule", "leaderboard", "growth", "portfolio", "rooms", "chat"} \union MarketRoutes
Serves(route) == route \in PublicRoutes \union (IF Allowed THEN GatedRoutes ELSE {})

\* Nobody opens the interface in an account's name: what is behind the gate is served to an
\* account only after it signed terms itself, whoever posted what meanwhile and whichever
\* calls overlap (accept's comment on the allowlist).
OnlyTheOwnerOpens == \A route \in GatedRoutes : Serves(route) => owner.signed # {}

\* "Proof only ever moves upwards" (entry.mjs:150), but for erasure and a process that keeps
\* it in memory.
ProofOnlyMovesUp == [][row.proven /\ ~row'.proven => row' = NoRow]_entryVars
===============================================================================
