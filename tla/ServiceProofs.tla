------------------------------ MODULE ServiceProofs -----------------------------
(***************************************************************************)
(* Theorems about what the services keep while their handlers and ticks    *)
(* overlap at every await: who may open the interface, who referred whom,  *)
(* which stream is live, what is said in a chat.                           *)
(* The components share no state; each section is about one of them.       *)
(***************************************************************************)
EXTENDS MCServices, QuoteProofs, SequenceTheorems

-------------------------------------------------------------------------------
(* EntryGate. *)

EntryCall == [pc : {"idle", "set", "prove", "remember", "allow"}, signed : BOOLEAN, next : BOOLEAN]
EntryTypeOK ==
    /\ durable \in BOOLEAN
    /\ row \in [version : Nat, proven : BOOLEAN]
    /\ terms \in Nat /\ version \in Nat \ {0}
    /\ call \in [Calls -> EntryCall]
    /\ owner \in [signed : SUBSET Nat, accepts : Nat]

\* Whatever says that the account proved its acceptance, in a store or on its way
\* there, is of an account that has signed.
ProofNeedsSignature ==
    owner.signed = {} =>
        /\ ~row.proven /\ terms = 0
        /\ \A c \in Calls : ~call[c].signed /\ ~call[c].next

EntryInv == EntryTypeOK /\ ProofNeedsSignature

LEMMA EntryStart == EntryInit => EntryInv
  BY DEF EntryInit, EntryInv, EntryTypeOK, ProofNeedsSignature, EntryCall, NoRow, NoCall

LEMMA EntryStep == EntryInv /\ [EntryNext]_entryVars => EntryInv'
  <1> SUFFICES ASSUME EntryInv, [EntryNext]_entryVars
               PROVE  EntryInv'
    OBVIOUS
  <1> USE DEF EntryInv, EntryTypeOK, ProofNeedsSignature, EntryCall
  <1>1. ASSUME NEW c \in Calls, AcceptArrives(c)
        PROVE  EntryInv'
    BY <1>1 DEF AcceptArrives
  <1>2. ASSUME NEW c \in Calls, AcceptRecords(c)
        PROVE  EntryInv'
    BY <1>2 DEF AcceptRecords, SetVersion, Goes
  <1>3. ASSUME NEW c \in Calls, ReadsProof(c)
        PROVE  EntryInv'
    <2> DEFINE next == call[c].signed \/ row.proven
               read == [call[c] EXCEPT !.pc = "remember", !.next = next]
    <2>1. next \in BOOLEAN /\ (owner.signed = {} => ~next)
      OBVIOUS
    <2>2. call' = [call EXCEPT ![c] = read]
      BY <1>3 DEF ReadsProof
    <2> HIDE DEF next
    <2>3. read \in EntryCall /\ read.signed = call[c].signed /\ read.next = next
      BY <2>1
    <2> HIDE DEF read
    <2> QED
      BY <1>3, <2>1, <2>2, <2>3 DEF ReadsProof
  <1>4. ASSUME NEW c \in Calls, RemembersProof(c)
        PROVE  EntryInv'
    BY <1>4 DEF RemembersProof, SetProven, Goes
  <1>5. ASSUME NEW c \in Calls, TellsAllowlist(c)
        PROVE  EntryInv'
    BY <1>5 DEF TellsAllowlist, AcceptTerms, SetVersion, Ends, NoCall
  <1>6. ASSUME NEW c \in Calls, StatusArrives(c)
        PROVE  EntryInv'
    BY <1>6 DEF StatusArrives
  <1>7. CASE EraseAcceptance
    BY <1>7 DEF EraseAcceptance, NoRow
  <1>8. CASE Redeploys
    BY <1>8, EntryAssumption DEF Redeploys, NoRow, NoCall
  <1>9. CASE UNCHANGED entryVars
    BY <1>9 DEF entryVars
  <1> QED
    BY <1>1, <1>2, <1>3, <1>4, <1>5, <1>6, <1>7, <1>8, <1>9 DEF EntryNext

\* The acceptances that count are the account's own, whichever calls overlap.
THEOREM EntryInvariant == EntrySpec => []EntryInv
  BY EntryStart, EntryStep, PTL DEF EntrySpec

\* What is behind the gate is served to an account only after it signed terms
\* itself, whoever posted what meanwhile.
THEOREM OwnerOpens == EntrySpec => []OnlyTheOwnerOpens
  <1>1. EntryInv => OnlyTheOwnerOpens
    <2> SUFFICES ASSUME EntryInv, NEW route \in GatedRoutes, Serves(route), owner.signed = {}
                 PROVE  FALSE
      BY DEF OnlyTheOwnerOpens
    <2>1. Allowed
      BY DEF Serves, PublicRoutes, GatedRoutes, MarketRoutes
    <2> QED
      BY <2>1 DEF Allowed, TermsOf, EntryInv, EntryTypeOK, ProofNeedsSignature
  <1> QED
    BY <1>1, EntryInvariant, PTL

-------------------------------------------------------------------------------
(* Growth. *)

\* A binding under way is one that the referred account signed; one that was
\* checked does not name the account itself.
UnderWay(b, signed) ==
    \/ b.pc = "idle"
    \/ /\ b.pc \in {"check", "bind"} /\ b.who \in People
       /\ <<b.who, b.referrer>> \in signed
       /\ b.pc = "bind" => b.referrer # b.who

GrowthInv ==
    /\ DOMAIN bindCall = BindCalls /\ DOMAIN binding = People
    /\ \A c \in BindCalls : UnderWay(bindCall[c], binds.signed)

\* What one step may do to the binding of b.
BindingStands(b) ==
    IF binding[b] = <<>>
    THEN binding'[b] # <<>> => binding'[b][1] # b /\ <<b, binding'[b][1]>> \in binds.signed
    ELSE binding'[b] \in {binding[b], <<>>, <<ErasedReferrer, binding[b][2]>>}

LEMMA GrowthStart == GrowthInit => GrowthInv
  BY DEF GrowthInit, GrowthInv, UnderWay, NoBindCall

LEMMA GrowthStep ==
    ASSUME GrowthInv, [GrowthNext]_growthVars
    PROVE  GrowthInv' /\ \A b \in People : BindingStands(b)
  <1>1. ASSUME UNCHANGED <<binding, bindCall, binds>>
        PROVE  GrowthInv' /\ \A b \in People : BindingStands(b)
    BY <1>1 DEF GrowthInv, BindingStands
  <1>2. ASSUME NEW c \in BindCalls, BindArrives(c)
        PROVE  GrowthInv' /\ \A b \in People : BindingStands(b)
    <2>1. PICK who \in People, referrer \in issued :
              /\ bindCall' = [bindCall EXCEPT ![c] =
                     [pc |-> "check", who |-> who, referrer |-> referrer, at |-> index.block]]
              /\ binds' = [made |-> binds.made + 1, signed |-> binds.signed \union {<<who, referrer>>}]
      BY <1>2 DEF BindArrives
    <2>2. binds.signed \subseteq binds'.signed /\ <<who, referrer>> \in binds'.signed
      BY <2>1
    <2>3. \A d \in BindCalls : UnderWay(bindCall'[d], binds'.signed)
      BY <2>1, <2>2 DEF GrowthInv, UnderWay
    <2> QED
      BY <1>2, <2>1, <2>3 DEF BindArrives, GrowthInv, BindingStands
  <1>3. ASSUME NEW c \in BindCalls, BindChecks(c)
        PROVE  GrowthInv' /\ \A b \in People : BindingStands(b)
    <2> DEFINE mine == bindCall[c]
    <2>1. /\ mine.pc = "check" /\ UNCHANGED <<binding, binds>>
          /\ \/ bindCall' = [bindCall EXCEPT ![c] = NoBindCall]
             \/ bindCall' = [bindCall EXCEPT ![c] = [mine EXCEPT !.pc = "bind"]] /\ mine.referrer # mine.who
      BY <1>3 DEF BindChecks
    <2>2. UnderWay(mine, binds.signed)
      BY DEF GrowthInv
    <2>3. mine.referrer # mine.who => UnderWay([mine EXCEPT !.pc = "bind"], binds.signed)
      BY <2>1, <2>2 DEF UnderWay
    <2>4. UnderWay(NoBindCall, binds.signed)
      BY DEF UnderWay, NoBindCall
    <2>5. \A d \in BindCalls : UnderWay(bindCall'[d], binds.signed)
      BY <2>1, <2>3, <2>4 DEF GrowthInv
    <2> QED
      BY <2>1, <2>5 DEF GrowthInv, BindingStands
  <1>4. ASSUME NEW c \in BindCalls, Binds(c)
        PROVE  GrowthInv' /\ \A b \in People : BindingStands(b)
    <2> DEFINE mine == bindCall[c]
    <2>1. /\ mine.pc = "bind" /\ UNCHANGED binds
          /\ bindCall' = [bindCall EXCEPT ![c] = NoBindCall]
          /\ binding' = IF binding[mine.who] = <<>>
                        THEN [binding EXCEPT ![mine.who] = <<mine.referrer, mine.at>>] ELSE binding
      BY <1>4 DEF Binds, InsertBinding
    <2>2. mine.who \in People /\ <<mine.who, mine.referrer>> \in binds.signed /\ mine.referrer # mine.who
      BY <2>1 DEF GrowthInv, UnderWay
    <2> QED
      BY <2>1, <2>2 DEF GrowthInv, BindingStands, UnderWay, NoBindCall
  <1>5. ASSUME NEW a \in People, ErasePerson(a)
        PROVE  GrowthInv' /\ \A b \in People : BindingStands(b)
    BY <1>5 DEF ErasePerson, GrowthInv, BindingStands
  <1>6. CASE GrowthRestarts
    BY <1>6 DEF GrowthRestarts, GrowthInv, BindingStands, UnderWay, NoBindCall
  <1> QED
    <2>1. \A a \in People : ReferralsView(a) \/ IndexTrade(a) \/ IndexClaim(a)
              => UNCHANGED <<binding, bindCall, binds>>
      BY DEF ReferralsView, IndexTrade, IndexClaim
    <2>2. IndexResult \/ UNCHANGED growthVars => UNCHANGED <<binding, bindCall, binds>>
      BY DEF IndexResult, growthVars
    <2> QED
      BY <1>1, <1>2, <1>3, <1>4, <1>5, <1>6, <2>1, <2>2 DEF GrowthNext

\* A binding, once made, names its referrer until one of the two is erased, though
\* any number of handlers found the account unbound; and the referred account signed it.
THEOREM BindingsKept == GrowthSpec => BindingsStand
  <1>1. GrowthInv /\ [GrowthNext]_growthVars => GrowthInv'
    BY GrowthStep
  <1>2. GrowthInv /\ [GrowthNext]_growthVars => [\A b \in People :
           IF binding[b] = <<>>
           THEN binding'[b] # <<>> => binding'[b][1] # b /\ <<b, binding'[b][1]>> \in binds.signed
           ELSE binding'[b] \in {binding[b], <<>>, <<ErasedReferrer, binding[b][2]>>}]_growthVars
    BY GrowthStep DEF BindingStands
  <1> QED
    BY <1>1, <1>2, GrowthStart, PTL DEF GrowthSpec, BindingsStand

-------------------------------------------------------------------------------
(* StreamHealth. *)

Poll == [pc : {"idle", "load", "segments", "unavailable"}, at : Nat, depth : Nat, read : Nat]
Monitor == [health : {"unknown", "live", "degraded", "unavailable"}, polledAt : Nat,
            advancedAt : Nat, signature : Nat \cup {NoSignature}, readAt : Nat, since : Nat]
StreamTypes ==
    /\ streamNow \in Nat
    /\ stream \in [newest : Nat, advancedAt : Nat]
    /\ monitor \in Monitor
    /\ poll \in [Polls -> Poll]
    /\ roomHealth \in {"unknown", "live", "degraded", "unavailable"}

\* A poll under way began within a latency, and if it read a segment that is no longer the
\* newest, the newest came after it began.
PollSound(p) ==
    /\ poll[p].pc # "idle" => poll[p].at <= streamNow /\ streamNow <= poll[p].at + MaxPollLatency
    /\ poll[p].pc = "segments" /\ poll[p].read # stream.newest => stream.advancedAt >= poll[p].at

\* What the monitor knows is at most a latency older than its latest reading, ...
KnownIsRecent ==
    monitor.signature \notin {NoSignature, stream.newest} =>
        stream.advancedAt >= monitor.readAt - MaxPollLatency

\* ... so what it takes for an advance is near one, or near where it began to look.
AdvanceIsNear ==
    monitor.signature # NoSignature =>
        \E begun \in {stream.advancedAt, monitor.since} :
            monitor.advancedAt - begun <= PollInterval + MaxPollLatency

LooksInOrder ==
    /\ monitor.since <= monitor.readAt /\ monitor.readAt <= streamNow
    /\ stream.advancedAt <= streamNow
    /\ monitor.signature = NoSignature => monitor.since = 0

LiveIsJudged ==
    roomHealth = "live" => /\ monitor.signature # NoSignature
                           /\ monitor.polledAt - monitor.advancedAt <= DegradedAfter

StreamInv ==
    /\ StreamTypes
    /\ \A p \in Polls : PollSound(p)
    /\ KnownIsRecent /\ AdvanceIsNear /\ LooksInOrder /\ LiveIsJudged

LEMMA StreamStart == StreamInit => StreamInv
  <1> SUFFICES ASSUME StreamInit
               PROVE  StreamInv
    OBVIOUS
  <1>1. NoPoll \in Poll /\ NoPoll.pc = "idle"
    BY DEF NoPoll, Poll
  <1>2. /\ monitor.signature = NoSignature /\ monitor.since = 0 /\ monitor.readAt = 0
        /\ roomHealth = "unknown" /\ streamNow = 0 /\ stream.advancedAt = 0
    BY DEF StreamInit
  <1>3. StreamTypes
    BY <1>1 DEF StreamInit, StreamTypes, Monitor
  <1>4. \A p \in Polls : PollSound(p)
    BY <1>1 DEF StreamInit, PollSound
  <1> QED
    BY <1>2, <1>3, <1>4 DEF StreamInv, KnownIsRecent, AdvanceIsNear, LooksInOrder, LiveIsJudged

\* The arithmetic of a reading that ends: `known` and `read` are the segments before and
\* now, `newest` the encoder's, which came at `came`.
LEMMA ReadingArithmetic ==
    \A now, at, readAt, since, came, known, read, newest, lat, every \in Nat :
        /\ at <= now /\ now <= at + lat /\ readAt <= now /\ since <= readAt
        /\ read # newest => came >= at
        /\ known # newest => came >= readAt - lat
        => LET latest == IF at > readAt THEN at ELSE readAt
               started == IF at - readAt > every THEN at ELSE since
           IN  /\ started <= latest /\ latest <= now /\ since <= started
               /\ read # newest => came >= latest - lat
               /\ read # known => \/ at - came <= every + lat
                                  \/ at - started <= every + lat
  OBVIOUS

\* A poll that found segments ends.
LEMMA ReadingKeeps ==
    ASSUME StreamInv, NEW p \in Polls, PollEnds(p), poll[p].pc = "segments"
    PROVE  StreamInv'
  <1> DEFINE at == poll[p].at
             read == poll[p].read
             known == monitor.signature
             advanced == IF read = known THEN monitor.advancedAt ELSE at
             health == IF at - advanced > DegradedAfter THEN "degraded" ELSE "live"
             latest == IF at > monitor.readAt THEN at ELSE monitor.readAt
             started == IF known = NoSignature \/ at - monitor.readAt > PollInterval THEN at
                        ELSE monitor.since
  <1>1. /\ StreamTypes /\ (\A q \in Polls : PollSound(q))
        /\ KnownIsRecent /\ AdvanceIsNear /\ LooksInOrder /\ LiveIsJudged
    BY DEF StreamInv
  <1>2. at \in Nat /\ read \in Nat /\ monitor \in Monitor /\ streamNow \in Nat
        /\ stream.newest \in Nat /\ stream.advancedAt \in Nat
        /\ MaxPollLatency \in Nat /\ PollInterval \in Nat /\ DegradedAfter \in Nat
    BY <1>1, StreamAssumption DEF StreamTypes, Poll
  <1>3. /\ monitor.advancedAt \in Nat /\ monitor.readAt \in Nat /\ monitor.since \in Nat
        /\ known \in Nat \cup {NoSignature}
    BY <1>2 DEF Monitor
  <1>4. /\ monitor' = [health |-> health, polledAt |-> at, advancedAt |-> advanced,
                       signature |-> read, readAt |-> latest, since |-> started]
        /\ roomHealth' = health /\ poll' = [poll EXCEPT ![p] = NoPoll]
        /\ UNCHANGED <<streamNow, stream>>
    <2>1. monitor = [health |-> monitor.health, polledAt |-> monitor.polledAt,
                     advancedAt |-> monitor.advancedAt, signature |-> monitor.signature,
                     readAt |-> monitor.readAt, since |-> monitor.since]
      BY <1>2 DEF Monitor
    <2>2. Advanced(monitor, read, at) = [monitor EXCEPT !.signature = read, !.advancedAt = advanced]
      BY <2>1 DEF Advanced
    <2> QED
      BY <2>1, <2>2 DEF PollEnds, Looking, Judged
  <1>5. /\ monitor'.health = health /\ monitor'.polledAt = at /\ monitor'.advancedAt = advanced
        /\ monitor'.signature = read /\ monitor'.readAt = latest /\ monitor'.since = started
    BY <1>4
  <1>6. advanced \in Nat /\ latest \in Nat /\ started \in Nat /\ health \in {"live", "degraded"}
    BY <1>2, <1>3
  <1>7. read # NoSignature
    BY <1>2 DEF NoSignature
  <1>8. /\ at <= streamNow /\ streamNow <= at + MaxPollLatency
        /\ read # stream.newest => stream.advancedAt >= at
        /\ monitor.since <= monitor.readAt /\ monitor.readAt <= streamNow
    BY <1>1 DEF PollSound, LooksInOrder
  <1>9. /\ started <= latest /\ latest <= streamNow
        /\ read # stream.newest => stream.advancedAt >= latest - MaxPollLatency
        /\ \/ advanced - stream.advancedAt <= PollInterval + MaxPollLatency
           \/ advanced - started <= PollInterval + MaxPollLatency
    <2>1. CASE known = NoSignature
      <3>1. started = at /\ advanced = at
        BY <1>7, <2>1
      <3>2. at <= latest /\ latest <= streamNow
            /\ (read # stream.newest => stream.advancedAt >= latest - MaxPollLatency)
        <4> HIDE DEF at, read, known
        <4> QED
          BY <1>2, <1>3, <1>8
      <3>3. at - at <= PollInterval + MaxPollLatency
        BY <1>2
      <3> QED
        BY <3>1, <3>2, <3>3
    <2>2. CASE known # NoSignature
      <3>1. known \in Nat /\ (known # stream.newest => stream.advancedAt >= monitor.readAt - MaxPollLatency)
        BY <1>1, <1>3, <2>2 DEF KnownIsRecent
      <3>2. started = IF at - monitor.readAt > PollInterval THEN at ELSE monitor.since
        BY <2>2
      <3>3. /\ started <= latest /\ latest <= streamNow /\ monitor.since <= started
            /\ read # stream.newest => stream.advancedAt >= latest - MaxPollLatency
            /\ read # known => \/ at - stream.advancedAt <= PollInterval + MaxPollLatency
                               \/ at - started <= PollInterval + MaxPollLatency
        <4> HIDE DEF at, read, known, started
        <4> QED
          BY <1>2, <1>3, <1>8, <3>1, <3>2, ReadingArithmetic
      <3>4. CASE read # known
        BY <3>3, <3>4
      <3>5. CASE read = known
        <4>1. PICK begun \in {stream.advancedAt, monitor.since} :
                  monitor.advancedAt - begun <= PollInterval + MaxPollLatency
          BY <1>1, <2>2 DEF AdvanceIsNear
        <4>2. advanced = monitor.advancedAt
          BY <3>5
        <4> HIDE DEF advanced, started, latest
        <4>3. monitor.since <= started
          BY <3>3
        <4>4. \/ advanced - stream.advancedAt <= PollInterval + MaxPollLatency
              \/ advanced - started <= PollInterval + MaxPollLatency
          BY <1>2, <1>3, <1>6, <4>1, <4>2, <4>3
        <4> QED
          BY <3>3, <4>4
      <3> QED
        BY <3>4, <3>5
    <2> QED
      BY <2>1, <2>2
  <1>10. StreamTypes'
    <2>1. NoPoll \in Poll
      BY DEF NoPoll, Poll
    <2>2. monitor' \in Monitor /\ roomHealth' \in {"unknown", "live", "degraded", "unavailable"}
      <3> HIDE DEF at, read, advanced, health, latest, started
      <3> QED
        BY <1>2, <1>4, <1>6 DEF Monitor, at, read
    <2>3. poll' \in [Polls -> Poll]
      BY <1>1, <1>4, <2>1 DEF StreamTypes
    <2> QED
      BY <1>1, <1>4, <2>2, <2>3 DEF StreamTypes
  <1>11. \A q \in Polls : PollSound(q)'
    <2>1. NoPoll.pc = "idle"
      BY DEF NoPoll
    <2> QED
      BY <1>1, <1>4, <2>1 DEF PollSound, StreamTypes
  <1> HIDE DEF advanced, started, latest
  <1>12. KnownIsRecent' /\ AdvanceIsNear' /\ LooksInOrder'
    <2>1. stream.advancedAt <= streamNow
      BY <1>1 DEF LooksInOrder
    <2>2. stream' = stream /\ streamNow' = streamNow
      BY <1>4
    <2>3. KnownIsRecent'
      BY <1>5, <1>9, <2>2 DEF KnownIsRecent
    <2>4. AdvanceIsNear'
      BY <1>5, <1>9, <2>2 DEF AdvanceIsNear
    <2>5. LooksInOrder'
      BY <1>5, <1>7, <1>9, <2>1, <2>2 DEF LooksInOrder
    <2> QED
      BY <2>3, <2>4, <2>5
  <1>13. LiveIsJudged'
    <2>1. health = "live" => at - advanced <= DegradedAfter
      <3> HIDE DEF at
      <3> QED
        BY <1>2, <1>6
    <2> QED
      BY <1>4, <1>5, <1>7, <2>1 DEF LiveIsJudged
  <1> QED
    BY <1>10, <1>11, <1>12, <1>13 DEF StreamInv

LEMMA StreamStep == StreamInv /\ [StreamNext]_streamVars => StreamInv'
  <1> SUFFICES ASSUME StreamInv, [StreamNext]_streamVars
               PROVE  StreamInv'
    OBVIOUS
  <1>1. /\ StreamTypes /\ (\A q \in Polls : PollSound(q))
        /\ KnownIsRecent /\ AdvanceIsNear /\ LooksInOrder /\ LiveIsJudged
    BY DEF StreamInv
  <1>2. NoPoll \in Poll /\ NoPoll.pc = "idle"
    BY DEF NoPoll, Poll
  <1>3. ASSUME NEW p \in Polls, PollBegins(p)
        PROVE  StreamInv'
    <2> DEFINE begun == [NoPoll EXCEPT !.pc = "load", !.at = streamNow]
    <2>1. begun \in Poll /\ begun.pc = "load" /\ begun.at = streamNow
      BY <1>1, <1>2 DEF Poll, StreamTypes
    <2>2. poll' = [poll EXCEPT ![p] = begun] /\ UNCHANGED <<streamNow, stream, monitor, roomHealth>>
      BY <1>3 DEF PollBegins
    <2> HIDE DEF begun
    <2>3. StreamTypes'
      BY <1>1, <2>1, <2>2 DEF StreamTypes
    <2>4. streamNow <= streamNow /\ streamNow <= streamNow + MaxPollLatency
      BY <1>1, StreamAssumption DEF StreamTypes
    <2>5. \A q \in Polls : PollSound(q)'
      BY <1>1, <2>1, <2>2, <2>4 DEF StreamTypes, PollSound
    <2> QED
      BY <1>1, <2>2, <2>3, <2>5 DEF StreamInv, KnownIsRecent, AdvanceIsNear, LooksInOrder, LiveIsJudged
  <1>4. ASSUME NEW p \in Polls, NEW found \in Found, Loads(p, found)
        PROVE  StreamInv'
    <2>1. ASSUME NEW next \in Poll, poll' = [poll EXCEPT ![p] = next], next.at = poll[p].at,
                 next.pc = "segments" => next.read = stream.newest
          PROVE  StreamInv'
      <3>1. poll[p].pc = "load" /\ UNCHANGED <<streamNow, stream, monitor, roomHealth>>
        BY <1>4 DEF Loads
      <3>2. StreamTypes'
        BY <1>1, <2>1, <3>1 DEF StreamTypes
      <3>3. \A q \in Polls : PollSound(q)'
        BY <1>1, <2>1, <3>1 DEF StreamTypes, PollSound
      <3> QED
        BY <1>1, <3>1, <3>2, <3>3 DEF StreamInv, KnownIsRecent, AdvanceIsNear, LooksInOrder, LiveIsJudged
    <2> DEFINE it == poll[p]
    <2>2. it \in Poll /\ stream.newest \in Nat /\ it.pc = "load"
      BY <1>1, <1>4 DEF StreamTypes, Loads
    <2>3. CASE found = "master" /\ poll[p].depth < 2
      <3> DEFINE next == [it EXCEPT !.depth = it.depth + 1]
      <3>1. poll' = [poll EXCEPT ![p] = next]
        BY <1>4, <2>3 DEF Loads
      <3> HIDE DEF it
      <3>2. next \in Poll /\ next.at = it.at /\ next.pc = "load"
        BY <2>2 DEF Poll
      <3> QED
        BY <2>1, <3>1, <3>2 DEF it
    <2>4. CASE found = "media"
      <3> DEFINE next == [it EXCEPT !.pc = "segments", !.depth = 0, !.read = stream.newest]
      <3>1. poll' = [poll EXCEPT ![p] = next]
        BY <1>4, <2>4 DEF Loads
      <3> HIDE DEF it
      <3>2. next \in Poll /\ next.at = it.at /\ next.read = stream.newest
        BY <2>2 DEF Poll
      <3> QED
        BY <2>1, <3>1, <3>2 DEF it
    <2>5. CASE ~(found = "master" /\ poll[p].depth < 2) /\ found # "media"
      <3> DEFINE next == [it EXCEPT !.pc = "unavailable", !.depth = 0]
      <3>1. poll' = [poll EXCEPT ![p] = next]
        BY <1>4, <2>5 DEF Loads
      <3> HIDE DEF it
      <3>2. next \in Poll /\ next.at = it.at /\ next.pc = "unavailable"
        BY <2>2 DEF Poll
      <3> QED
        BY <2>1, <3>1, <3>2 DEF it
    <2> QED
      BY <2>3, <2>4, <2>5
  <1>5. ASSUME NEW p \in Polls, PollEnds(p)
        PROVE  StreamInv'
    <2>1. CASE poll[p].pc = "segments"
      BY <1>5, <2>1, ReadingKeeps
    <2>2. CASE poll[p].pc # "segments"
      <3> DEFINE m == [monitor EXCEPT !.polledAt = poll[p].at, !.health = "unavailable"]
      <3>1. /\ m \in Monitor /\ m.health = "unavailable" /\ m.signature = monitor.signature
            /\ m.readAt = monitor.readAt /\ m.since = monitor.since /\ m.advancedAt = monitor.advancedAt
        BY <1>1 DEF StreamTypes, Monitor, Poll
      <3>2. /\ monitor' = m /\ roomHealth' = "unavailable" /\ poll' = [poll EXCEPT ![p] = NoPoll]
            /\ UNCHANGED <<streamNow, stream>>
        BY <1>5, <2>2, <3>1 DEF PollEnds
      <3> HIDE DEF m
      <3>3. StreamTypes'
        BY <1>1, <1>2, <3>1, <3>2 DEF StreamTypes
      <3>4. \A q \in Polls : PollSound(q)'
        BY <1>1, <1>2, <3>2 DEF StreamTypes, PollSound
      <3>5. KnownIsRecent' /\ AdvanceIsNear' /\ LooksInOrder' /\ LiveIsJudged'
        BY <1>1, <3>1, <3>2 DEF KnownIsRecent, AdvanceIsNear, LooksInOrder, LiveIsJudged
      <3> QED
        BY <3>3, <3>4, <3>5 DEF StreamInv
    <2> QED
      BY <2>1, <2>2
  <1>6. CASE Encodes
    <2>1. /\ stream'.newest = stream.newest + 1 /\ stream'.advancedAt = streamNow
          /\ stream' \in [newest : Nat, advancedAt : Nat]
          /\ UNCHANGED <<streamNow, monitor, poll, roomHealth>>
      BY <1>1, <1>6 DEF Encodes, StreamTypes
    <2>2. StreamTypes'
      BY <1>1, <2>1 DEF StreamTypes
    <2>3. \A q \in Polls : PollSound(q)'
      BY <1>1, <2>1 DEF PollSound
    <2>4. /\ monitor.readAt \in Nat /\ streamNow \in Nat /\ stream.advancedAt \in Nat
          /\ monitor.advancedAt \in Nat /\ monitor.since \in Nat /\ monitor.since <= monitor.readAt
          /\ MaxPollLatency \in Nat /\ PollInterval \in Nat
      BY <1>1, StreamAssumption DEF StreamTypes, Monitor, LooksInOrder
    <2>5. KnownIsRecent'
      <3>1. monitor.readAt <= streamNow
        BY <1>1 DEF LooksInOrder
      <3>2. streamNow >= monitor.readAt - MaxPollLatency
        BY <2>4, <3>1
      <3> QED
        BY <2>1, <3>2 DEF KnownIsRecent
    <2>6. AdvanceIsNear'
      <3>1. stream.advancedAt <= streamNow
        BY <1>1 DEF LooksInOrder
      <3>2. monitor.advancedAt - stream.advancedAt <= PollInterval + MaxPollLatency
                => monitor.advancedAt - streamNow <= PollInterval + MaxPollLatency
        BY <2>4, <3>1
      <3> QED
        BY <1>1, <2>1, <3>2 DEF AdvanceIsNear
    <2>7. LooksInOrder' /\ LiveIsJudged'
      BY <1>1, <2>1, <2>4 DEF LooksInOrder, LiveIsJudged
    <2> QED
      BY <2>2, <2>3, <2>5, <2>6, <2>7 DEF StreamInv
  <1>7. CASE StreamTimePasses
    <2>1. /\ streamNow' = streamNow + 1 /\ streamNow \in Nat
          /\ \A q \in Polls : poll[q].pc # "idle" => streamNow - poll[q].at < MaxPollLatency
          /\ UNCHANGED <<stream, monitor, poll, roomHealth>>
      BY <1>1, <1>7 DEF StreamTimePasses, StreamTypes
    <2>2. StreamTypes'
      BY <1>1, <2>1 DEF StreamTypes
    <2>3. \A q \in Polls : PollSound(q)'
      <3>1. ASSUME NEW q \in Polls
            PROVE  PollSound(q)'
        <4>1. poll[q].at \in Nat /\ MaxPollLatency \in Nat
          BY <1>1, StreamAssumption DEF StreamTypes, Poll
        <4>2. poll[q].pc # "idle" => poll[q].at <= streamNow' /\ streamNow' <= poll[q].at + MaxPollLatency
          BY <1>1, <2>1, <4>1 DEF PollSound
        <4> QED
          BY <1>1, <2>1, <4>2 DEF PollSound
      <3> QED
        BY <3>1
    <2>4. LooksInOrder'
      <3>1. monitor.readAt \in Nat /\ stream.advancedAt \in Nat
        BY <1>1 DEF StreamTypes, Monitor
      <3> QED
        BY <1>1, <2>1, <3>1 DEF LooksInOrder
    <2>5. KnownIsRecent' /\ AdvanceIsNear' /\ LiveIsJudged'
      BY <1>1, <2>1 DEF KnownIsRecent, AdvanceIsNear, LiveIsJudged
    <2> QED
      BY <2>2, <2>3, <2>4, <2>5 DEF StreamInv
  <1>8. CASE UNCHANGED streamVars
    BY <1>1, <1>8 DEF streamVars, StreamInv, StreamTypes, PollSound, KnownIsRecent, AdvanceIsNear,
       LooksInOrder, LiveIsJudged
  <1> QED
    BY <1>3, <1>4, <1>5, <1>6, <1>7, <1>8 DEF StreamNext

\* A stream shown as live was advancing, or the monitor had only begun to look, however many
\* polls overlap and in whichever order their answers arrive (StreamMonitor.poll).
THEOREM LiveKept == StreamSpec => []LiveMeansAdvancing
  <1>1. StreamInv => LiveMeansAdvancing
    <2> SUFFICES ASSUME StreamInv, roomHealth = "live"
                 PROVE  \E begun \in {stream.advancedAt, monitor.since} :
                            monitor.polledAt - begun <= DegradedAfter + PollInterval + MaxPollLatency
      BY DEF LiveMeansAdvancing
    <2>1. /\ monitor.signature # NoSignature
          /\ monitor.polledAt - monitor.advancedAt <= DegradedAfter
      BY DEF StreamInv, LiveIsJudged
    <2>2. PICK begun \in {stream.advancedAt, monitor.since} :
              monitor.advancedAt - begun <= PollInterval + MaxPollLatency
      BY <2>1 DEF StreamInv, AdvanceIsNear
    <2>3. /\ begun \in Nat /\ monitor.polledAt \in Nat /\ monitor.advancedAt \in Nat
          /\ PollInterval \in Nat /\ MaxPollLatency \in Nat /\ DegradedAfter \in Nat
      BY StreamAssumption DEF StreamInv, StreamTypes, Monitor
    <2>4. monitor.polledAt - begun <= DegradedAfter + PollInterval + MaxPollLatency
      BY <2>1, <2>2, <2>3
    <2> QED
      BY <2>4
  <1> QED
    BY <1>1, StreamStart, StreamStep, PTL DEF StreamSpec

-------------------------------------------------------------------------------
(* ChatRoom. *)

Senders == Authors \union {Erased}
ChatRequests ==
    {r \in [kind : {"post", "delete", "timeout"}, who : Authors \union {Moderator}, ref : Nat, until : Nat,
             issued : Nat] :
         r.kind = "post" => r.who \in Authors}
ChatMessage == [id : Nat, author : Senders, deleted : BOOLEAN]
ChatCall ==
    {Idle} \union [pc : {"claim", "verify", "append", "find"}, request : ChatRequests, at : Nat]
           \union [pc : {"apply", "audit"}, author : Senders, request : ChatRequests, at : Nat]
Said == [request : ChatRequests, at : Nat, life : Nat]
Mute == [who : Senders, at : Nat, until : Nat]
ChatStores ==
    [durable : BOOLEAN, messages : Seq(ChatMessage), lastId : Nat, timeouts : [Senders -> Nat], audits : Nat]
ChatMemories == [recent : [Authors -> Seq(Nat)], used : SUBSET ChatRequests]
ChatTypes ==
    /\ chatNow \in Nat
    /\ chatStore \in ChatStores
    /\ chatMemory \in ChatMemories
    /\ handler \in [Handlers -> ChatCall]
    /\ past \in [life : Nat, made : Nat, said : Seq(Said), muted : Seq(Mute)]

\* Nothing is of the future, a call under way arrived within a latency, and only posts are said.
InOrder ==
    /\ \A h \in Handlers : handler[h].pc # "idle" =>
           handler[h].at <= chatNow /\ chatNow <= handler[h].at + MaxLatency
    /\ \A h \in Handlers : handler[h].pc \in {"claim", "append"} => handler[h].request.kind = "post"
    /\ \A i \in DOMAIN past.said :
           past.said[i].at <= chatNow /\ past.said[i].life <= past.life /\ past.said[i].request.kind = "post"
    /\ \A k \in DOMAIN past.muted : past.muted[k].at <= chatNow

\* A claim reserved by a call or said in this life is recorded, or too old for any call, and it
\* is so once.
Reserved(h) == handler[h].pc \in {"verify", "append"}
Spent(r) == r \in chatMemory.used \/ chatNow - r.issued > ClaimLifetime + ClaimSkew
ClaimsAreSpent ==
    /\ \A h \in Handlers : Reserved(h) => Spent(handler[h].request)
    /\ \A g, h \in Handlers : Reserved(g) /\ Reserved(h) /\ handler[g].request = handler[h].request => g = h
    /\ \A i \in DOMAIN past.said : past.said[i].life = past.life =>
           /\ Spent(past.said[i].request)
           /\ \A h \in Handlers : Reserved(h) => handler[h].request # past.said[i].request

\* What is accepted of an author is said, or about to be.
Waiting(calls, who, times) ==
    {h \in Handlers : calls[h].pc = "append" /\ calls[h].request.who = who /\ calls[h].at \in times}
Accepted(p, calls, who, times) ==
    Cardinality(SaidIn(p.said, p.life, who, times)) + Cardinality(Waiting(calls, who, times))
From(t) == {x \in Nat : t <= x}
Stamps(stamps, times) == {i \in 1..Len(stamps) : stamps[i] \in times}
\* The window kept of an author has everything accepted that is not older than a window.
WindowsAreKept ==
    \A a \in Authors, t \in Nat :
        t > chatNow - RateWindow =>
            Accepted(past, handler, a, From(t)) <= Cardinality(Stamps(chatMemory.recent[a], From(t)))
RateKept == \A a \in Authors, t \in Nat : Accepted(past, handler, a, Window(t)) <= RateLimit

\* A call that read the timeout as over came after the author's mutes, or when they had ended.
CallsAreNotMuted ==
    \A h \in Handlers : handler[h].pc # "idle" /\ handler[h].request.kind = "post" =>
        NotMuted(past.muted, handler[h].request.who, handler[h].at)
\* The timeout stored of an author is its last, or gone with it over.
TimeoutTells(muted, timeout, who, now) ==
    LET theirs == {k \in DOMAIN muted : muted[k].who = who}
    IN  theirs # {} => \E k \in theirs : /\ \A j \in theirs : j <= k
                                         /\ timeout = muted[k].until \/ muted[k].until <= now
TimeoutsTell == \A a \in Authors : TimeoutTells(past.muted, chatStore.timeouts[a], a, chatNow)

ChatInv ==
    /\ ChatTypes /\ InOrder
    /\ ClaimsAreSpent /\ OneMessagePerClaim
    /\ WindowsAreKept /\ RateKept /\ RateHeld
    /\ CallsAreNotMuted /\ TimeoutsTell /\ MutedStaySilent

-------------------------------------------------------------------------------
(* ChatRoom: what a window keeps. *)

\* One stamp more counts once.
LEMMA StampAppended ==
    ASSUME NEW s \in Seq(Nat), NEW x \in Nat, NEW times
    PROVE  /\ Append(s, x) \in Seq(Nat)
           /\ Cardinality(Stamps(s, times)) \in Nat
           /\ Cardinality(Stamps(Append(s, x), times)) =
                  Cardinality(Stamps(s, times)) + (IF x \in times THEN 1 ELSE 0)
  <1> DEFINE n == Len(s) + 1
             was == Stamps(s, times)
             now == Stamps(Append(s, x), times)
  <1>1. /\ Len(s) \in Nat /\ n \in Nat /\ Append(s, x) \in Seq(Nat) /\ Len(Append(s, x)) = n
        /\ Append(s, x)[n] = x /\ \A i \in 1..Len(s) : Append(s, x)[i] = s[i]
    OBVIOUS
  <1>2. \A i : i \in 1..n <=> i \in 1..Len(s) \/ i = n
    BY <1>1
  <1>3. IsFiniteSet(was) /\ Cardinality(was) \in Nat
    <2>1. IsFiniteSet(1..Len(s))
      BY <1>1, FS_Interval
    <2> QED
      BY <2>1, FS_Subset, FS_CardinalityType DEF Stamps
  <1>4. n \notin was
    BY <1>1 DEF Stamps
  <1>5. now = IF x \in times THEN was \cup {n} ELSE was
    BY <1>1, <1>2 DEF Stamps
  <1> HIDE DEF was, now, n
  <1>6. Cardinality(was \cup {n}) = Cardinality(was) + 1
    BY <1>3, <1>4, FS_AddElement
  <1>7. Cardinality(now) = Cardinality(was) + (IF x \in times THEN 1 ELSE 0)
    BY <1>3, <1>5, <1>6
  <1> QED
    BY <1>1, <1>3, <1>7 DEF was, now

\* The stamps kept of the first n.
Keeping(s, at, n, g) ==
    /\ g = [i \in 0..n |-> g[i]] /\ g[0] = <<>>
    /\ \A i \in 1..n : g[i] = IF at - s[i] < RateWindow THEN Append(g[i - 1], s[i]) ELSE g[i - 1]

LEMMA KeepingExists ==
    ASSUME NEW s, NEW at, NEW n \in Nat
    PROVE  \E g : Keeping(s, at, n, g)
  <1> DEFINE None == {m \in Nat : ~\E g : Keeping(s, at, m, g)}
             Next(b, i) == IF at - s[i] < RateWindow THEN Append(b, s[i]) ELSE b
  <1> SUFFICES None = {}
    OBVIOUS
  <1> SUFFICES ASSUME None # {} PROVE FALSE
    OBVIOUS
  <1>1. PICK m \in None : \A y \in None : m <= y
    BY LeastNat
  <1>2. m # 0
    <2> SUFFICES ASSUME m = 0 PROVE FALSE
      OBVIOUS
    <2> DEFINE g == [i \in 0..0 |-> <<>>]
    <2>1. Keeping(s, at, 0, g)
      BY DEF Keeping
    <2> QED
      BY <1>1, <2>1
  <1>3. m - 1 \in Nat /\ m \in Nat /\ m - 1 < m
    BY <1>1, <1>2
  <1>4. PICK g : Keeping(s, at, m - 1, g)
    BY <1>1, <1>3
  <1> DEFINE h == [i \in 0..m |-> IF i = m THEN Next(g[m - 1], m) ELSE g[i]]
  <1> HIDE DEF Next
  <1>5. h = [i \in 0..m |-> h[i]] /\ h[0] = <<>>
    BY <1>2, <1>3, <1>4 DEF Keeping
  <1>6. ASSUME NEW i \in 1..m
        PROVE  h[i] = Next(h[i - 1], i)
    <2>1. i \in 0..m /\ i - 1 \in 0..m /\ i - 1 # m /\ (i # m => i \in 1..(m - 1))
      BY <1>3
    <2>2. h[i - 1] = g[i - 1]
      BY <2>1
    <2>3. CASE i = m
      BY <2>1, <2>2, <2>3
    <2>4. CASE i # m
      <3>1. h[i] = g[i]
        BY <2>1, <2>4
      <3>2. g[i] = Next(g[i - 1], i)
        BY <1>4, <2>1, <2>4 DEF Keeping, Next
      <3> QED
        BY <2>2, <3>1, <3>2
    <2> QED
      BY <2>3, <2>4
  <1> HIDE DEF h
  <1>7. Keeping(s, at, m, h)
    BY <1>5, <1>6 DEF Keeping, Next
  <1> QED
    BY <1>1, <1>7

LEMMA RecentIs ==
    ASSUME NEW s \in Seq(Nat), NEW at
    PROVE  \E g : Keeping(s, at, Len(s), g) /\ Recent(s, at) = g[Len(s)]
  <1> DEFINE n == Len(s)
             Step(g) == [i \in 0..n |-> IF i = 0 THEN <<>>
                                        ELSE IF at - s[i] < RateWindow THEN Append(g[i - 1], s[i])
                                        ELSE g[i - 1]]
             kept == CHOOSE g : g = Step(g)
  <1>1. n \in Nat
    OBVIOUS
  <1>2. Recent(s, at) = kept[n]
    BY DEF Recent
  <1>3. PICK g : Keeping(s, at, n, g)
    BY <1>1, KeepingExists
  <1> HIDE DEF n
  <1>4. g = Step(g)
    <2>1. \A i \in 0..n : i # 0 => i \in 1..n
      BY <1>1
    <2>2. \A i \in 0..n : g[i] = Step(g)[i]
      BY <1>3, <2>1 DEF Keeping
    <2>3. g = [i \in 0..n |-> g[i]]
      BY <1>3 DEF Keeping
    <2> QED
      BY <2>2, <2>3
  <1>5. kept = Step(kept)
    BY <1>4
  <1> HIDE DEF kept
  <1>6. \A i \in 0..n : kept[i] = IF i = 0 THEN <<>>
                                  ELSE IF at - s[i] < RateWindow THEN Append(kept[i - 1], s[i]) ELSE kept[i - 1]
    BY <1>5
  <1>7. kept = [i \in 0..n |-> kept[i]]
    BY <1>5
  <1>8. 0 \in 0..n /\ \A i \in 1..n : i \in 0..n /\ i # 0
    BY <1>1
  <1>9. Keeping(s, at, n, kept)
    BY <1>6, <1>7, <1>8 DEF Keeping
  <1> QED
    BY <1>2, <1>9 DEF n

\* Of the stamps within the window none is lost and none is added.
LEMMA RecentKeeps ==
    ASSUME NEW s \in Seq(Nat), NEW at \in Nat
    PROVE  /\ Recent(s, at) \in Seq(Nat)
           /\ \A times \in SUBSET Nat : (\A x \in times : at - x < RateWindow) =>
                  Cardinality(Stamps(Recent(s, at), times)) = Cardinality(Stamps(s, times))
  <1> SUFFICES ASSUME NEW times \in SUBSET Nat, \A x \in times : at - x < RateWindow
               PROVE  /\ Recent(s, at) \in Seq(Nat)
                      /\ Cardinality(Stamps(Recent(s, at), times)) = Cardinality(Stamps(s, times))
    <2>1. {} \in SUBSET Nat /\ \A x \in {} : at - x < RateWindow
      OBVIOUS
    <2> QED
      BY <2>1
  <1> DEFINE upto(n) == {i \in 1..n : s[i] \in times}
  <1>1. PICK g : Keeping(s, at, Len(s), g) /\ Recent(s, at) = g[Len(s)]
    BY RecentIs
  <1> DEFINE Right(n) == g[n] \in Seq(Nat) /\ Cardinality(Stamps(g[n], times)) = Cardinality(upto(n))
             Wrong == {n \in 0..Len(s) : ~Right(n)}
  <1>2. Wrong = {}
    <2> SUFFICES ASSUME Wrong # {} PROVE FALSE
      OBVIOUS
    <2>1. PICK n \in Wrong : \A y \in Wrong : n <= y
      <3>1. Wrong \in SUBSET Nat
        OBVIOUS
      <3> HIDE DEF Wrong
      <3> QED
        BY <3>1, LeastNat
    <2>2. Right(0)
      <3>1. g[0] = <<>>
        BY <1>1 DEF Keeping
      <3>2. <<>> \in Seq(Nat) /\ Stamps(<<>>, times) = {} /\ upto(0) = {}
        BY DEF Stamps
      <3> QED
        BY <3>1, <3>2
    <2>3. n \in 1..Len(s) /\ n - 1 \in 0..Len(s) /\ n - 1 < n /\ n \in Nat \ {0}
      <3> HIDE DEF Right
      <3> QED
        BY <2>1, <2>2
    <2>4. Right(n - 1)
      <3> HIDE DEF Right
      <3> QED
        BY <2>1, <2>3
    <2>5. s[n] \in Nat
      BY <2>3
    <2>6. Cardinality(upto(n)) = Cardinality(upto(n - 1)) + (IF s[n] \in times THEN 1 ELSE 0)
      <3> DEFINE before == upto(n - 1)
      <3>1. upto(n) = IF s[n] \in times THEN before \cup {n} ELSE before
        BY <2>3
      <3>2. n \notin before
        BY <2>3
      <3>3. IsFiniteSet(before)
        <4>1. n - 1 \in Int /\ IsFiniteSet(1..(n - 1))
          BY <2>3, FS_Interval
        <4> QED
          BY <4>1, FS_Subset
      <3>4. Cardinality(before) \in Nat
        BY <3>3, FS_CardinalityType
      <3> HIDE DEF before, upto
      <3>5. Cardinality(before \cup {n}) = Cardinality(before) + 1
        BY <3>2, <3>3, FS_AddElement
      <3>6. Cardinality(upto(n)) = Cardinality(before) + (IF s[n] \in times THEN 1 ELSE 0)
        BY <3>1, <3>4, <3>5
      <3> QED
        BY <3>6 DEF before
    <2> HIDE DEF upto
    <2>7. CASE at - s[n] < RateWindow
      <3>1. g[n] = Append(g[n - 1], s[n])
        BY <1>1, <2>3, <2>7 DEF Keeping
      <3>2. g[n] \in Seq(Nat)
            /\ Cardinality(Stamps(g[n], times)) =
                   Cardinality(Stamps(g[n - 1], times)) + (IF s[n] \in times THEN 1 ELSE 0)
        <4> DEFINE b == g[n - 1]
                   x == s[n]
        <4>1. b \in Seq(Nat) /\ x \in Nat /\ g[n] = Append(b, x)
          BY <2>4, <2>5, <3>1
        <4> HIDE DEF b, x
        <4>2. g[n] \in Seq(Nat)
              /\ Cardinality(Stamps(g[n], times)) = Cardinality(Stamps(b, times)) + (IF x \in times THEN 1 ELSE 0)
          BY <4>1, StampAppended
        <4> QED
          BY <4>2 DEF b, x
      <3> QED
        BY <2>1, <2>4, <2>6, <3>2
    <2>8. CASE ~(at - s[n] < RateWindow)
      <3>1. g[n] = g[n - 1] /\ s[n] \notin times
        BY <1>1, <2>3, <2>8 DEF Keeping
      <3>2. Cardinality(Stamps(g[n - 1], times)) \in Nat
        BY <2>4, StampAppended
      <3> QED
        BY <2>1, <2>4, <2>6, <3>1, <3>2
    <2> QED
      BY <2>7, <2>8
  <1>3. Right(Len(s))
    <2>1. Len(s) \in 0..Len(s)
      OBVIOUS
    <2> HIDE DEF Right
    <2> QED
      BY <1>2, <2>1
  <1>4. upto(Len(s)) = Stamps(s, times)
    BY DEF Stamps
  <1> QED
    BY <1>1, <1>3, <1>4

-------------------------------------------------------------------------------
(* ChatRoom: the stores and the memory. *)

LEMMA RowsMapped ==
    ASSUME NEW S, NEW s \in Seq(S), NEW g, g = [i \in DOMAIN s |-> g[i]], \A i \in 1..Len(s) : g[i] \in S
    PROVE  g \in Seq(S)
  <1>1. Len(s) \in Nat /\ DOMAIN s = 1..Len(s)
    OBVIOUS
  <1>2. g \in [1..Len(s) -> S]
    BY <1>1
  <1> QED
    BY <1>1, <1>2

LEMMA LastOfTyped ==
    ASSUME NEW S, NEW s \in Seq(S), NEW n \in Nat, n <= Len(s)
    PROVE  LastOf(s, n) \in Seq(S)
  <1> DEFINE first == Len(s) - n + 1
  <1>1. first \in 1..(Len(s) + 1) /\ Len(s) \in Nat /\ first \in Nat
    OBVIOUS
  <1>2. \A i \in first..Len(s) : s[i] \in S
    BY <1>1
  <1>3. LastOf(s, n) = SubSeq(s, first, Len(s))
    BY DEF LastOf
  <1> HIDE DEF first
  <1> QED
    BY <1>1, <1>2, <1>3, SubSeqProperties

\* Pruning a store keeps it one, and only lets timeouts go that are over.
LEMMA StorePruned ==
    ASSUME NEW st \in ChatStores, NEW at \in Nat
    PROVE  LET r == StorePrune(st, at)
           IN  /\ r \in ChatStores /\ r.durable = st.durable
               /\ \A a \in Senders : r.timeouts[a] = st.timeouts[a] \/ (r.timeouts[a] = 0 /\ st.timeouts[a] <= at)
  <1>1. st.messages \in Seq(ChatMessage) /\ Len(st.messages) \in Nat /\ st.timeouts \in [Senders -> Nat]
    BY DEF ChatStores
  <1> DEFINE kept == Expired(st.timeouts, at)
             brief == IF Len(st.messages) > MaxMessages THEN LastOf(st.messages, MaxMessages) ELSE st.messages
             briefer == IF Len(st.messages) >= MaxMessages THEN LastOf(st.messages, MaxMessages - 1) ELSE st.messages
             memory == [st EXCEPT !.timeouts = kept, !.messages = brief]
             sqlite == [st EXCEPT !.timeouts = kept, !.messages = briefer]
  <1>2. /\ kept \in [Senders -> Nat]
        /\ \A a \in Senders : kept[a] = st.timeouts[a] \/ (kept[a] = 0 /\ st.timeouts[a] <= at)
    BY <1>1 DEF Expired
  <1>3. MaxMessages \in Nat /\ MaxMessages - 1 \in Nat
    BY ChatAssumption
  <1>4. brief \in Seq(ChatMessage) /\ briefer \in Seq(ChatMessage)
    <2> DEFINE rows == st.messages
    <2>1. rows \in Seq(ChatMessage) /\ Len(rows) \in Nat
      BY <1>1
    <2> HIDE DEF rows
    <2>2. Len(rows) > MaxMessages => LastOf(rows, MaxMessages) \in Seq(ChatMessage)
      BY <1>3, <2>1, LastOfTyped
    <2>3. Len(rows) >= MaxMessages => LastOf(rows, MaxMessages - 1) \in Seq(ChatMessage)
      <3> SUFFICES ASSUME Len(rows) >= MaxMessages
                   PROVE  LastOf(rows, MaxMessages - 1) \in Seq(ChatMessage)
        OBVIOUS
      <3>1. MaxMessages - 1 <= Len(rows)
        BY <1>3, <2>1
      <3> QED
        BY <1>3, <2>1, <3>1, LastOfTyped
    <2> QED
      BY <2>1, <2>2, <2>3 DEF rows
  <1>5. StorePrune(st, at) = IF st.durable THEN sqlite ELSE memory
    BY DEF StorePrune, SqlitePrune, MemoryPrune
  <1> HIDE DEF kept, brief, briefer
  <1>6. /\ memory \in ChatStores /\ memory.timeouts = kept /\ memory.durable = st.durable
        /\ sqlite \in ChatStores /\ sqlite.timeouts = kept /\ sqlite.durable = st.durable
    BY <1>2, <1>4 DEF ChatStores
  <1> HIDE DEF memory, sqlite
  <1> QED
    BY <1>2, <1>5, <1>6

LEMMA StoreAppended ==
    ASSUME NEW st \in ChatStores, NEW author \in Senders
    PROVE  LET r == MemoryAppend(st, author)
           IN  r \in ChatStores /\ r.durable = st.durable /\ r.timeouts = st.timeouts
  <1> DEFINE changed == [id |-> st.lastId + 1, author |-> author, deleted |-> FALSE]
             rows == Append(st.messages, changed)
             last == st.lastId + 1
  <1>1. changed \in ChatMessage /\ last \in Nat
    BY DEF ChatStores, ChatMessage
  <1>2. rows \in Seq(ChatMessage)
    BY <1>1 DEF ChatStores
  <1>3. MemoryAppend(st, author) = [st EXCEPT !.messages = rows, !.lastId = last]
    BY DEF MemoryAppend
  <1> HIDE DEF rows, last
  <1> QED
    BY <1>1, <1>2, <1>3 DEF ChatStores

LEMMA StoreDeleted ==
    ASSUME NEW st \in ChatStores, NEW id
    PROVE  LET r == Delete(st, id)
           IN  r \in ChatStores /\ r.durable = st.durable /\ r.timeouts = st.timeouts
  <1> DEFINE changed(m) == IF m.id = id THEN [m EXCEPT !.deleted = TRUE] ELSE m
             rows == [i \in DOMAIN st.messages |-> changed(st.messages[i])]
  <1>1. st.messages \in Seq(ChatMessage)
    BY DEF ChatStores
  <1>2. rows = [i \in DOMAIN st.messages |-> rows[i]]
    OBVIOUS
  <1>3. \A m \in ChatMessage : changed(m) \in ChatMessage
    BY DEF ChatMessage
  <1>4. \A i \in 1..Len(st.messages) : st.messages[i] \in ChatMessage
    BY <1>1
  <1>5. \A i \in 1..Len(st.messages) : rows[i] \in ChatMessage
    <2>1. \A i \in 1..Len(st.messages) : rows[i] = changed(st.messages[i])
      BY <1>1
    <2> HIDE DEF changed, rows
    <2> QED
      BY <1>3, <1>4, <2>1
  <1>6. Delete(st, id) = [st EXCEPT !.messages = rows]
    BY DEF Delete
  <1> HIDE DEF rows
  <1>7. rows \in Seq(ChatMessage)
    BY <1>1, <1>2, <1>5, RowsMapped
  <1> QED
    BY <1>6, <1>7 DEF ChatStores

\* The author's words are renamed, and the timeout is gone.
LEMMA StoreErased ==
    ASSUME ChatTypes, NEW a \in Authors, EraseChatAccount(a)
    PROVE  /\ chatStore' \in ChatStores /\ chatStore'.durable = chatStore.durable
           /\ chatStore'.timeouts = [chatStore.timeouts EXCEPT ![a] = 0]
  <1> DEFINE changed(m) == IF m.author = a THEN [m EXCEPT !.author = Erased] ELSE m
             rows == [i \in DOMAIN chatStore.messages |-> changed(chatStore.messages[i])]
             kept == [chatStore.timeouts EXCEPT ![a] = 0]
  <1>1. chatStore \in ChatStores /\ chatStore.messages \in Seq(ChatMessage) /\ chatStore.timeouts \in [Senders -> Nat]
    BY DEF ChatTypes, ChatStores
  <1>2. rows = [i \in DOMAIN chatStore.messages |-> rows[i]]
    OBVIOUS
  <1>3. \A m \in ChatMessage : changed(m) \in ChatMessage
    BY DEF ChatMessage, Senders
  <1>4. \A i \in 1..Len(chatStore.messages) : chatStore.messages[i] \in ChatMessage
    BY <1>1
  <1>5. \A i \in 1..Len(chatStore.messages) : rows[i] \in ChatMessage
    <2>1. \A i \in 1..Len(chatStore.messages) : rows[i] = changed(chatStore.messages[i])
      BY <1>1
    <2> HIDE DEF changed, rows
    <2> QED
      BY <1>3, <1>4, <2>1
  <1>6. chatStore' = [chatStore EXCEPT !.timeouts = kept, !.messages = rows]
    BY DEF EraseChatAccount
  <1>7. kept \in [Senders -> Nat]
    BY <1>1
  <1> HIDE DEF rows, kept
  <1>8. rows \in Seq(ChatMessage)
    BY <1>1, <1>2, <1>5, RowsMapped
  <1>9. chatStore' \in ChatStores /\ chatStore'.durable = chatStore.durable /\ chatStore'.timeouts = kept
    BY <1>1, <1>6, <1>7, <1>8 DEF ChatStores
  <1> QED
    BY <1>9 DEF kept

LEMMA StoreMuted ==
    ASSUME NEW st \in ChatStores, NEW author \in Senders, NEW until \in Nat
    PROVE  LET r == SetTimeout(st, author, until)
           IN  /\ r \in ChatStores /\ r.durable = st.durable
               /\ r.timeouts = [st.timeouts EXCEPT ![author] = until]
  <1> DEFINE kept == [st.timeouts EXCEPT ![author] = until]
  <1>1. kept \in [Senders -> Nat]
    BY DEF ChatStores
  <1>2. SetTimeout(st, author, until) = [st EXCEPT !.timeouts = kept]
    BY DEF SetTimeout
  <1> HIDE DEF kept
  <1>3. /\ SetTimeout(st, author, until) \in ChatStores /\ SetTimeout(st, author, until).durable = st.durable
        /\ SetTimeout(st, author, until).timeouts = kept
    BY <1>1, <1>2 DEF ChatStores
  <1> QED
    BY <1>3 DEF kept

\* What a prune lets go of in memory: stamps out of the window, claims too old for any call.
LEMMA MemoryPruned ==
    ASSUME NEW m \in ChatMemories, NEW at \in Nat
    PROVE  LET r == Pruned(m, at)
           IN  /\ r \in ChatMemories
               /\ \A a \in Authors : r.recent[a] = Recent(m.recent[a], at)
               /\ r.used = {q \in m.used : at - q.issued <= ClaimLifetime + ClaimSkew}
  <1> DEFINE recent == [a \in Authors |-> Recent(m.recent[a], at)]
             used == {q \in m.used : at - q.issued <= ClaimLifetime + ClaimSkew}
  <1>1. recent \in [Authors -> Seq(Nat)]
    <2>1. \A a \in Authors : m.recent[a] \in Seq(Nat)
      BY DEF ChatMemories
    <2> QED
      BY <2>1, RecentKeeps
  <1>2. used \in SUBSET ChatRequests
    BY DEF ChatMemories
  <1>3. Pruned(m, at) = [recent |-> recent, used |-> used]
    BY DEF Pruned
  <1>4. \A a \in Authors : recent[a] = Recent(m.recent[a], at)
    OBVIOUS
  <1> HIDE DEF recent, used
  <1>5. Pruned(m, at) \in ChatMemories /\ Pruned(m, at).recent = recent /\ Pruned(m, at).used = used
    BY <1>1, <1>2, <1>3 DEF ChatMemories
  <1> QED
    BY <1>4, <1>5 DEF used

-------------------------------------------------------------------------------
(* ChatRoom: the types, and the order of what happened. *)

LEMMA ChatStart == ChatInit => ChatInv
  <1> SUFFICES ASSUME ChatInit PROVE ChatInv
    OBVIOUS
  <1>1. /\ chatNow = 0 /\ handler = [h \in Handlers |-> Idle] /\ chatMemory = ForgetfulMemory
        /\ past = [life |-> 1, made |-> 0, said |-> <<>>, muted |-> <<>>]
        /\ \E d \in BOOLEAN : chatStore = EmptyChatStore(d)
    BY DEF ChatInit
  <1>2. EmptyChatStore(TRUE) \in ChatStores /\ EmptyChatStore(FALSE) \in ChatStores
    BY DEF EmptyChatStore, ChatStores, Senders
  <1>3. ForgetfulMemory \in ChatMemories
    BY DEF ForgetfulMemory, ChatMemories
  <1>4. ChatTypes
    <2>1. chatStore \in ChatStores
      BY <1>1, <1>2
    <2> QED
      BY <1>1, <1>3, <2>1 DEF ChatTypes, ChatCall
  <1>5. /\ DOMAIN past.said = {} /\ DOMAIN past.muted = {} /\ \A h \in Handlers : handler[h].pc = "idle"
    BY <1>1 DEF Idle
  <1>6. InOrder /\ ClaimsAreSpent /\ OneMessagePerClaim /\ RateHeld /\ CallsAreNotMuted /\ MutedStaySilent
    BY <1>5 DEF InOrder, ClaimsAreSpent, Reserved, OneMessagePerClaim, RateHeld, CallsAreNotMuted, MutedStaySilent
  <1>7. TimeoutsTell
    BY <1>5 DEF TimeoutsTell, TimeoutTells
  <1>8. \A a \in Authors : \A times : Accepted(past, handler, a, times) = 0
    <2> SUFFICES ASSUME NEW a \in Authors, NEW times
                 PROVE  Accepted(past, handler, a, times) = 0
      OBVIOUS
    <2>1. SaidIn(past.said, past.life, a, times) = {}
      BY <1>5 DEF SaidIn
    <2>2. Waiting(handler, a, times) = {}
      BY <1>5 DEF Waiting
    <2>3. Cardinality({}) = 0
      BY FS_EmptySet
    <2>4. Accepted(past, handler, a, times) = Cardinality({}) + Cardinality({})
      BY <2>1, <2>2, Zenon DEF Accepted
    <2> QED
      BY <2>3, <2>4
  <1>9. RateKept
    BY <1>8, ChatAssumption DEF RateKept
  <1>10. WindowsAreKept
    <2> SUFFICES ASSUME NEW a \in Authors, NEW t \in Nat
                 PROVE  0 <= Cardinality(Stamps(chatMemory.recent[a], From(t)))
      BY <1>8 DEF WindowsAreKept
    <2>1. chatMemory.recent[a] \in Seq(Nat)
      BY <1>4 DEF ChatTypes, ChatMemories
    <2> QED
      BY <2>1, StampAppended
  <1> QED
    BY <1>4, <1>6, <1>7, <1>9, <1>10 DEF ChatInv

\* A call that moves on, or ends.
LEMMA CallMoves ==
    ASSUME ChatTypes, NEW h \in Handlers, NEW next \in ChatCall, handler' = [handler EXCEPT ![h] = next]
    PROVE  /\ handler' \in [Handlers -> ChatCall] /\ handler'[h] = next
           /\ \A g \in Handlers \ {h} : handler'[g] = handler[g]
  BY DEF ChatTypes

\* What a call under way holds, wherever it is.
LEMMA CallHolds ==
    ASSUME ChatTypes, NEW h \in Handlers, handler[h].pc # "idle"
    PROVE  /\ handler[h].request \in ChatRequests /\ handler[h].at \in Nat
           /\ handler[h].pc \in {"claim", "verify", "append", "find"} =>
                  \A pc \in {"claim", "verify", "append", "find"} :
                      [handler[h] EXCEPT !.pc = pc] \in ChatCall
                      /\ [handler[h] EXCEPT !.pc = pc].pc = pc
                      /\ [handler[h] EXCEPT !.pc = pc].request = handler[h].request
                      /\ [handler[h] EXCEPT !.pc = pc].at = handler[h].at
           /\ handler[h].pc \in {"apply", "audit"} =>
                  /\ handler[h].author \in Senders
                  /\ [handler[h] EXCEPT !.pc = "audit"] \in ChatCall
                  /\ [handler[h] EXCEPT !.pc = "audit"].pc = "audit"
                  /\ [handler[h] EXCEPT !.pc = "audit"].request = handler[h].request
                  /\ [handler[h] EXCEPT !.pc = "audit"].at = handler[h].at
  <1>1. handler[h] \in ChatCall
    BY DEF ChatTypes
  <1> QED
    BY <1>1 DEF ChatCall, Idle

LEMMA RequestsMade ==
    ASSUME ChatTypes
    PROVE  /\ \A a \in Authors : Signed("post", a, 0, 0) \subseteq ChatRequests
           /\ \A action \in {"delete", "timeout"}, id \in Nat :
                  Signed(action, Moderator, id, MaxChatTime + 1) \subseteq ChatRequests
           /\ \A kind : SentAgain(kind) \subseteq ChatRequests /\ \A r \in SentAgain(kind) : r.kind = kind
           /\ \A kind, who, ref, until : \A r \in Signed(kind, who, ref, until) : r.kind = kind
  <1>1. chatNow \in Nat /\ chatNow + ClaimSkew \in Nat /\ MaxChatTime + 1 \in Nat
    BY ChatAssumption DEF ChatTypes
  <1>2. \A signedat \in Nat, a \in Authors : Request("post", a, 0, 0, signedat) \in ChatRequests
    BY DEF Request, ChatRequests
  <1>3. \A signedat \in Nat, action \in {"delete", "timeout"}, id \in Nat, until \in Nat :
            Request(action, Moderator, id, until, signedat) \in ChatRequests
    BY DEF Request, ChatRequests
  <1>4. \A kind : SentAgain(kind) \subseteq ChatRequests
    <2>1. chatMemory.used \subseteq ChatRequests
      BY DEF ChatTypes, ChatMemories
    <2>2. \A i \in DOMAIN past.said : past.said[i].request \in ChatRequests
      <3>1. past.said \in Seq(Said)
        BY DEF ChatTypes
      <3>2. \A i \in DOMAIN past.said : past.said[i] \in Said
        BY <3>1
      <3> QED
        BY <3>2 DEF Said
    <2> QED
      BY <2>1, <2>2 DEF SentAgain
  <1>5. \A kind, who, ref, until, signedat : Request(kind, who, ref, until, signedat).kind = kind
    BY DEF Request
  <1> QED
    BY <1>1, <1>2, <1>3, <1>4, <1>5 DEF Signed, SentAgain

\* How one call moves, its own past and the present being what they were.
LEMMA OrderKept ==
    ASSUME ChatTypes, InOrder, NEW h \in Handlers, NEW next \in ChatCall, handler' = [handler EXCEPT ![h] = next],
           chatNow' = chatNow, past'.said = past.said, past'.life = past.life, past'.muted = past.muted,
           next.pc # "idle" => next.at <= chatNow /\ chatNow <= next.at + MaxLatency,
           next.pc \in {"claim", "append"} => next.request.kind = "post"
    PROVE  InOrder'
  <1>1. handler'[h] = next /\ \A g \in Handlers \ {h} : handler'[g] = handler[g]
    BY CallMoves
  <1>2. \A g \in Handlers : handler'[g].pc # "idle" =>
            handler'[g].at <= chatNow' /\ chatNow' <= handler'[g].at + MaxLatency
    BY <1>1 DEF InOrder
  <1>3. \A g \in Handlers : handler'[g].pc \in {"claim", "append"} => handler'[g].request.kind = "post"
    BY <1>1 DEF InOrder
  <1> QED
    BY <1>2, <1>3 DEF InOrder

-------------------------------------------------------------------------------
(* ChatRoom: claims are used once. *)

\* A call that holds its reservation, or holds none, changes nothing of what is spent.
LEMMA ClaimsKept ==
    ASSUME ChatTypes, ClaimsAreSpent, NEW h \in Handlers, NEW next \in ChatCall,
           handler' = [handler EXCEPT ![h] = next],
           next.pc \in {"verify", "append"} => Reserved(h) /\ next.request = handler[h].request,
           \A r \in ChatRequests : Spent(r) => Spent(r)',
           past'.said = past.said, past'.life = past.life
    PROVE  ClaimsAreSpent'
  <1>1. handler'[h] = next /\ \A g \in Handlers \ {h} : handler'[g] = handler[g]
    BY CallMoves
  <1>2. \A g \in Handlers : Reserved(g)' => Reserved(g) /\ handler'[g].request = handler[g].request
    BY <1>1 DEF Reserved
  <1>3. \A g \in Handlers : Reserved(g) => handler[g].request \in ChatRequests
    BY CallHolds DEF Reserved
  <1>4. \A i \in DOMAIN past.said : past.said[i].request \in ChatRequests
    <2>1. past.said \in Seq(Said)
      BY DEF ChatTypes
    <2>2. \A i \in DOMAIN past.said : past.said[i] \in Said
      BY <2>1
    <2> QED
      BY <2>2 DEF Said
  <1> QED
    BY <1>2, <1>3, <1>4 DEF ClaimsAreSpent

\* A call that gives its reservation up.
LEMMA ClaimsReleased ==
    ASSUME ChatTypes, ClaimsAreSpent, NEW h \in Handlers, Reserved(h),
           handler' = [handler EXCEPT ![h] = Idle], chatNow' = chatNow,
           chatMemory'.used = chatMemory.used \ {handler[h].request},
           past'.said = past.said, past'.life = past.life
    PROVE  ClaimsAreSpent'
  <1> DEFINE r == handler[h].request
  <1>1. handler'[h] = Idle /\ \A g \in Handlers \ {h} : handler'[g] = handler[g]
    BY CallMoves DEF ChatCall
  <1>2. \A g \in Handlers : Reserved(g)' => /\ Reserved(g) /\ g # h
                                            /\ handler'[g].request = handler[g].request
                                            /\ handler[g].request # r
    BY <1>1 DEF Reserved, Idle, ClaimsAreSpent
  <1>3. \A q : q # r /\ Spent(q) => Spent(q)'
    BY DEF Spent
  <1> QED
    BY <1>2, <1>3 DEF ClaimsAreSpent

\* A claim that is acceptable was not spent: no call holds it, and nothing said used it.
LEMMA ClaimsReserved ==
    ASSUME ChatTypes, ClaimsAreSpent, NEW h \in Handlers, NEW r \in ChatRequests, NEW at \in Nat,
           chatNow <= at + MaxLatency, Acceptable(r, at),
           NEW next \in ChatCall, handler' = [handler EXCEPT ![h] = next], next.pc = "verify", next.request = r,
           chatNow' = chatNow, chatMemory'.used = chatMemory.used \union {r},
           past'.said = past.said, past'.life = past.life
    PROVE  ClaimsAreSpent'
  <1>1. handler'[h] = next /\ \A g \in Handlers \ {h} : handler'[g] = handler[g]
    BY CallMoves
  <1>2. ~Spent(r)
    <2>1. r.issued \in Nat /\ chatNow \in Nat
      BY DEF ChatRequests, ChatTypes
    <2>2. /\ ClaimLifetime \in Nat /\ ClaimSkew \in Nat /\ MaxLatency \in Nat /\ MaxLatency <= ClaimSkew
      BY ChatAssumption
    <2>3. at - r.issued <= ClaimLifetime /\ r \notin chatMemory.used
      BY DEF Acceptable
    <2>4. ~(chatNow - r.issued > ClaimLifetime + ClaimSkew)
      BY <2>1, <2>2, <2>3
    <2> QED
      BY <2>3, <2>4 DEF Spent
  <1>3. \A q : Spent(q) => Spent(q)'
    BY DEF Spent
  <1>4. Spent(r)'
    BY DEF Spent
  <1>5. \A g \in Handlers \ {h} : Reserved(g)' => /\ Reserved(g) /\ handler'[g].request = handler[g].request
                                                  /\ handler[g].request # r
    BY <1>1, <1>2 DEF Reserved, ClaimsAreSpent
  <1>6. \A i \in DOMAIN past.said : past.said[i].life = past.life => past.said[i].request # r
    BY <1>2 DEF ClaimsAreSpent
  <1>7. handler'[h].request = r
    BY <1>1
  <1>8. \A g \in Handlers : Reserved(g)' => Spent(handler[g].request)'
    BY <1>1, <1>3, <1>4, <1>5, <1>7 DEF ClaimsAreSpent
  <1>9. \A f, g \in Handlers : Reserved(f)' /\ Reserved(g)' /\ handler'[f].request = handler'[g].request => f = g
    BY <1>5, <1>7 DEF ClaimsAreSpent
  <1>10. \A i \in DOMAIN past.said : past.said[i].life = past.life =>
             /\ Spent(past.said[i].request)'
             /\ \A g \in Handlers : Reserved(g)' => handler'[g].request # past.said[i].request
    BY <1>3, <1>5, <1>6, <1>7 DEF ClaimsAreSpent
  <1> QED
    BY <1>8, <1>9, <1>10 DEF ClaimsAreSpent

\* What is said is one more.
LEMMA SaidAppended ==
    ASSUME ChatTypes, NEW m \in Said
    PROVE  LET said == Append(past.said, m)
               n == Len(past.said) + 1
           IN  /\ said \in Seq(Said) /\ said[n] = m /\ n \in Nat /\ n \notin DOMAIN past.said
               /\ DOMAIN said = DOMAIN past.said \cup {n}
               /\ \A i \in DOMAIN past.said : said[i] = past.said[i]
  <1>1. past.said \in Seq(Said)
    BY DEF ChatTypes
  <1> QED
    BY <1>1

\* A call that says what it reserved leaves the reservation to what it said.
LEMMA ClaimsSaid ==
    ASSUME ChatTypes, ClaimsAreSpent, OneMessagePerClaim, NEW h \in Handlers, Reserved(h),
           handler' = [handler EXCEPT ![h] = Idle], chatNow' = chatNow, chatMemory' = chatMemory,
           NEW m \in Said, m.request = handler[h].request, m.life = past.life,
           past'.said = Append(past.said, m), past'.life = past.life
    PROVE  ClaimsAreSpent' /\ OneMessagePerClaim'
  <1> DEFINE n == Len(past.said) + 1
  <1>1. handler'[h] = Idle /\ \A g \in Handlers \ {h} : handler'[g] = handler[g]
    BY CallMoves DEF ChatCall
  <1>2. /\ past'.said[n] = m /\ n \notin DOMAIN past.said
        /\ DOMAIN past'.said = DOMAIN past.said \cup {n}
        /\ \A i \in DOMAIN past.said : past'.said[i] = past.said[i]
    BY SaidAppended
  <1> HIDE DEF n
  <1>3. \A g \in Handlers : Reserved(g)' => /\ Reserved(g) /\ g # h
                                            /\ handler'[g].request = handler[g].request
                                            /\ handler[g].request # m.request
    BY <1>1 DEF Reserved, Idle, ClaimsAreSpent
  <1> DEFINE Gone(q) == q \in chatMemory'.used \/ chatNow' - q.issued > ClaimLifetime + ClaimSkew
  <1>4. \A q : Spent(q) => Gone(q)
    BY DEF Spent
  <1>5. \A i \in DOMAIN past'.said : past'.said[i].life = past'.life =>
             /\ Gone(past'.said[i].request)
             /\ \A g \in Handlers : Reserved(g)' => handler'[g].request # past'.said[i].request
    <2> HIDE DEF Gone
    <2>1. ASSUME NEW i \in DOMAIN past.said, past.said[i].life = past.life
          PROVE  /\ Gone(past.said[i].request)
                 /\ \A g \in Handlers : Reserved(g)' => handler'[g].request # past.said[i].request
      BY <1>3, <1>4, <2>1 DEF ClaimsAreSpent
    <2>2. Gone(m.request)
      BY <1>4 DEF ClaimsAreSpent
    <2> QED
      BY <1>2, <1>3, <2>1, <2>2
  <1>6. ClaimsAreSpent'
    <2>1. \A g \in Handlers : Reserved(g)' => Gone(handler'[g].request)
      BY <1>3, <1>4 DEF ClaimsAreSpent
    <2>2. \A f, g \in Handlers : Reserved(f)' /\ Reserved(g)' /\ handler'[f].request = handler'[g].request => f = g
      BY <1>3 DEF ClaimsAreSpent
    <2> QED
      BY <1>5, <2>1, <2>2 DEF ClaimsAreSpent, Spent
  <1>7. \A i \in DOMAIN past.said : past.said[i].life = m.life => past.said[i].request # m.request
    BY DEF ClaimsAreSpent
  <1>8. OneMessagePerClaim'
    BY <1>2, <1>7 DEF OneMessagePerClaim
  <1> QED
    BY <1>6, <1>8

-------------------------------------------------------------------------------
(* ChatRoom: rates. *)

LEMMA AcceptedIsNat ==
    ASSUME ChatTypes, NEW who, NEW times
    PROVE  /\ IsFiniteSet(SaidIn(past.said, past.life, who, times)) /\ IsFiniteSet(Waiting(handler, who, times))
           /\ Cardinality(SaidIn(past.said, past.life, who, times)) \in Nat
           /\ Cardinality(Waiting(handler, who, times)) \in Nat
           /\ Accepted(past, handler, who, times) \in Nat
  <1>1. Len(past.said) \in Nat /\ DOMAIN past.said = 1..Len(past.said)
    <2>1. past.said \in Seq(Said)
      BY DEF ChatTypes
    <2> QED
      BY <2>1
  <1>2. IsFiniteSet(1..Len(past.said)) /\ IsFiniteSet(Handlers)
    <2> DEFINE n == Len(past.said)
    <2>1. n \in Int /\ 1 \in Int
      BY <1>1
    <2> HIDE DEF n
    <2>2. IsFiniteSet(1..n)
      BY <2>1, FS_Interval
    <2> QED
      BY <2>2, ChatAssumption DEF n
  <1>3. SaidIn(past.said, past.life, who, times) \in SUBSET (1..Len(past.said)) /\ Waiting(handler, who, times) \in SUBSET Handlers
    BY <1>1 DEF SaidIn, Waiting
  <1>4. IsFiniteSet(SaidIn(past.said, past.life, who, times)) /\ IsFiniteSet(Waiting(handler, who, times))
    BY <1>2, <1>3, FS_Subset
  <1> DEFINE s == Cardinality(SaidIn(past.said, past.life, who, times))
             w == Cardinality(Waiting(handler, who, times))
  <1>5. s \in Nat /\ w \in Nat
    BY <1>4, FS_CardinalityType
  <1>6. Accepted(past, handler, who, times) = s + w
    BY DEF Accepted
  <1> HIDE DEF s, w
  <1>7. Accepted(past, handler, who, times) \in Nat
    BY <1>5, <1>6
  <1> QED
    BY <1>4, <1>5, <1>7 DEF s, w

LEMMA AcceptedMonotone ==
    ASSUME ChatTypes, NEW who, NEW times, NEW later, times \subseteq later
    PROVE  Accepted(past, handler, who, times) <= Accepted(past, handler, who, later)
  <1> DEFINE s1 == Cardinality(SaidIn(past.said, past.life, who, times))
             w1 == Cardinality(Waiting(handler, who, times))
             s2 == Cardinality(SaidIn(past.said, past.life, who, later))
             w2 == Cardinality(Waiting(handler, who, later))
  <1>1. /\ SaidIn(past.said, past.life, who, times) \in SUBSET SaidIn(past.said, past.life, who, later)
        /\ Waiting(handler, who, times) \in SUBSET Waiting(handler, who, later)
    BY DEF SaidIn, Waiting
  <1>2. s1 <= s2 /\ w1 <= w2
    BY <1>1, AcceptedIsNat, FS_Subset
  <1>3. s1 \in Nat /\ s2 \in Nat /\ w1 \in Nat /\ w2 \in Nat
    BY AcceptedIsNat
  <1>4. Accepted(past, handler, who, times) = s1 + w1 /\ Accepted(past, handler, who, later) = s2 + w2
    BY DEF Accepted
  <1> HIDE DEF s1, s2, w1, w2
  <1> QED
    BY <1>2, <1>3, <1>4

LEMMA AcceptedSame ==
    ASSUME ChatTypes, NEW h \in Handlers, NEW next \in ChatCall, handler' = [handler EXCEPT ![h] = next],
           handler[h].pc # "append", next.pc # "append", past'.said = past.said, past'.life = past.life
    PROVE  \A a \in Authors : \A times : Accepted(past', handler', a, times) = Accepted(past, handler, a, times)
  <1> SUFFICES ASSUME NEW a \in Authors, NEW times
               PROVE  Accepted(past', handler', a, times) = Accepted(past, handler, a, times)
    OBVIOUS
  <1>1. handler'[h] = next /\ \A g \in Handlers \ {h} : handler'[g] = handler[g]
    BY CallMoves
  <1>2. Waiting(handler', a, times) = Waiting(handler, a, times)
    BY <1>1 DEF Waiting
  <1> QED
    BY <1>2 DEF Accepted

\* A post that passes its checks is one more of its author, at its time.
LEMMA AcceptedMore ==
    ASSUME ChatTypes, NEW h \in Handlers, NEW next \in ChatCall, handler' = [handler EXCEPT ![h] = next],
           handler[h].pc # "append", next.pc = "append",
           past'.said = past.said, past'.life = past.life
    PROVE  \A a \in Authors : \A times :
               Accepted(past', handler', a, times) =
                   Accepted(past, handler, a, times) + (IF next.request.who = a /\ next.at \in times THEN 1 ELSE 0)
  <1> SUFFICES ASSUME NEW a \in Authors, NEW times
               PROVE  Accepted(past', handler', a, times) =
                          Accepted(past, handler, a, times) + (IF next.request.who = a /\ next.at \in times THEN 1 ELSE 0)
    OBVIOUS
  <1> DEFINE was == Waiting(handler, a, times)
             now == Waiting(handler', a, times)
             s == Cardinality(SaidIn(past.said, past.life, a, times))
  <1>1. handler'[h] = next /\ \A g \in Handlers \ {h} : handler'[g] = handler[g]
    BY CallMoves
  <1>2. now = IF next.request.who = a /\ next.at \in times THEN was \cup {h} ELSE was
    BY <1>1 DEF Waiting
  <1>3. h \notin was
    BY DEF Waiting
  <1>4. IsFiniteSet(was) /\ Cardinality(was) \in Nat /\ s \in Nat
    BY AcceptedIsNat
  <1>5. Accepted(past, handler, a, times) = s + Cardinality(was) /\ Accepted(past', handler', a, times) = s + Cardinality(now)
    BY DEF Accepted
  <1> HIDE DEF was, now, s
  <1>6. Cardinality(was \cup {h}) = Cardinality(was) + 1
    BY <1>3, <1>4, FS_AddElement
  <1> DEFINE w == Cardinality(was)
             v == Cardinality(now)
  <1>7. v = w + (IF next.request.who = a /\ next.at \in times THEN 1 ELSE 0)
    BY <1>2, <1>4, <1>6
  <1>8. w \in Nat /\ Accepted(past, handler, a, times) = s + w /\ Accepted(past', handler', a, times) = s + v
    BY <1>4, <1>5
  <1> HIDE DEF w, v
  <1> QED
    BY <1>4, <1>7, <1>8

\* What was about to be said is said.
LEMMA AcceptedSaid ==
    ASSUME ChatTypes, NEW h \in Handlers, handler[h].pc = "append", handler' = [handler EXCEPT ![h] = Idle],
           NEW m \in Said, m.request = handler[h].request, m.at = handler[h].at, m.life = past.life,
           past'.said = Append(past.said, m), past'.life = past.life, NEW a \in Authors, NEW times
    PROVE  Accepted(past', handler', a, times) = Accepted(past, handler, a, times)
  <1> DEFINE n == Len(past.said) + 1
             waiting == Waiting(handler, a, times)
             left == Waiting(handler', a, times)
             said == SaidIn(past.said, past.life, a, times)
             more == SaidIn(past'.said, past'.life, a, times)
             Counts == m.request.who = a /\ m.at \in times
  <1>1. handler'[h] = Idle /\ \A g \in Handlers \ {h} : handler'[g] = handler[g]
    BY CallMoves DEF ChatCall
  <1>2. /\ past'.said[n] = m /\ n \notin DOMAIN past.said
        /\ DOMAIN past'.said = DOMAIN past.said \cup {n}
        /\ \A i \in DOMAIN past.said : past'.said[i] = past.said[i]
    BY SaidAppended
  <1> HIDE DEF n
  <1>3. IsFiniteSet(waiting) /\ IsFiniteSet(said) /\ Cardinality(waiting) \in Nat /\ Cardinality(said) \in Nat
    BY AcceptedIsNat
  <1>4. h \in waiting <=> Counts
    BY DEF Waiting
  <1>5. left = waiting \ {h}
    BY <1>1 DEF Waiting, Idle
  <1>6. more = IF Counts THEN said \cup {n} ELSE said
    BY <1>2 DEF SaidIn
  <1>7. n \notin said
    BY <1>2 DEF SaidIn
  <1>8. /\ Accepted(past, handler, a, times) = Cardinality(said) + Cardinality(waiting)
        /\ Accepted(past', handler', a, times) = Cardinality(more) + Cardinality(left)
    BY DEF Accepted
  <1> HIDE DEF waiting, left, said, more, Counts
  <1>9. CASE Counts
    <2>1. Cardinality(left) = Cardinality(waiting) - 1
      BY <1>3, <1>4, <1>5, <1>9, FS_RemoveElement
    <2>2. Cardinality(more) = Cardinality(said) + 1
      BY <1>3, <1>6, <1>7, <1>9, FS_AddElement
    <2> QED
      BY <1>3, <1>8, <2>1, <2>2
  <1>10. CASE ~Counts
    BY <1>4, <1>5, <1>6, <1>8, <1>10
  <1> QED
    BY <1>9, <1>10

\* Where nothing is accepted and time goes on, a window has what it had to have.
LEMMA RatesKept ==
    ASSUME ChatTypes, WindowsAreKept, RateKept, RateHeld,
           chatNow' \in Nat, chatNow <= chatNow', past'.said = past.said,
           \A a \in Authors : \A times : Accepted(past', handler', a, times) = Accepted(past, handler, a, times),
           \A a \in Authors, t \in Nat : t > chatNow' - RateWindow =>
               Cardinality(Stamps(chatMemory'.recent[a], From(t))) = Cardinality(Stamps(chatMemory.recent[a], From(t)))
    PROVE  WindowsAreKept' /\ RateKept' /\ RateHeld'
  <1>1. ASSUME NEW a \in Authors, NEW t \in Nat, t > chatNow' - RateWindow
        PROVE  Accepted(past', handler', a, From(t)) <= Cardinality(Stamps(chatMemory'.recent[a], From(t)))
    <2>1. t > chatNow - RateWindow
      <3> DEFINE now == chatNow'
      <3>1. chatNow \in Nat /\ now \in Nat /\ chatNow <= now /\ RateWindow \in Nat /\ t > now - RateWindow
        BY <1>1, ChatAssumption DEF ChatTypes
      <3> HIDE DEF now
      <3> QED
        BY <3>1
    <2>2. Accepted(past, handler, a, From(t)) <= Cardinality(Stamps(chatMemory.recent[a], From(t)))
      BY <2>1 DEF WindowsAreKept
    <2> QED
      BY <1>1, <2>2
  <1>2. WindowsAreKept'
    BY <1>1 DEF WindowsAreKept
  <1>3. RateKept'
    BY DEF RateKept
  <1>4. RateHeld'
    BY DEF RateHeld
  <1> QED
    BY <1>2, <1>3, <1>4

\* A post that passes is below the limit in every window that reaches to it: what was accepted
\* in such a window is not older than the window kept, so that it was counted.
LEMMA RatesAccept ==
    ASSUME ChatTypes, WindowsAreKept, RateKept, RateHeld,
           NEW h \in Handlers, NEW next \in ChatCall, handler' = [handler EXCEPT ![h] = next],
           handler[h].pc # "append", next.pc = "append",
           past'.said = past.said, past'.life = past.life, chatNow' = chatNow,
           NEW a \in Authors, next.request.who = a, NEW at \in Nat, next.at = at,
           at <= chatNow, chatNow <= at + MaxLatency,
           NEW history, history = Recent(chatMemory.recent[a], at), Len(history) < RateLimit,
           \A b \in Authors : chatMemory'.recent[b] =
               Recent(IF b = a THEN Append(history, at) ELSE chatMemory.recent[b], at)
    PROVE  WindowsAreKept' /\ RateKept' /\ RateHeld'
  <1> DEFINE stamps(b) == chatMemory.recent[b]
             One(b, times) == IF b = a /\ at \in times THEN 1 ELSE 0
  <1>1. chatNow \in Nat /\ RateWindow \in Nat \ {0} /\ MaxLatency \in Nat /\ RateLimit \in Nat
    BY ChatAssumption DEF ChatTypes
  <1>2. \A b \in Authors : stamps(b) \in Seq(Nat)
    BY DEF ChatTypes, ChatMemories
  <1>3. history \in Seq(Nat)
    BY <1>2, RecentKeeps
  <1>4. \A b \in Authors : \A times :
            Accepted(past', handler', b, times) = Accepted(past, handler, b, times) + One(b, times)
    <2>1. \A b \in Authors : \A times :
              Accepted(past', handler', b, times) =
                  Accepted(past, handler, b, times) + (IF next.request.who = b /\ next.at \in times THEN 1 ELSE 0)
      BY AcceptedMore
    <2> QED
      BY <2>1
  <1>5. ASSUME NEW t \in Nat, t > chatNow - RateWindow
        PROVE  From(t) \in SUBSET Nat /\ \A x \in From(t) : at - x < RateWindow
    BY <1>1, <1>5 DEF From
  \* The history counts what the window kept counts.
  <1>6. ASSUME NEW t \in Nat, t > chatNow - RateWindow
        PROVE  Cardinality(Stamps(history, From(t))) = Cardinality(Stamps(stamps(a), From(t)))
    BY <1>2, <1>5, <1>6, RecentKeeps
  <1>7. ASSUME NEW b \in Authors, NEW t \in Nat, t > chatNow - RateWindow
        PROVE  Cardinality(Stamps(chatMemory'.recent[b], From(t))) =
                   Cardinality(Stamps(stamps(b), From(t))) + One(b, From(t))
    <2>1. CASE b = a
      <3> DEFINE longer == Append(history, at)
      <3>1. longer \in Seq(Nat)
            /\ Cardinality(Stamps(longer, From(t))) = Cardinality(Stamps(history, From(t))) + One(a, From(t))
        BY <1>3, StampAppended
      <3>2. chatMemory'.recent[b] = Recent(longer, at)
        BY <2>1
      <3> HIDE DEF longer
      <3>3. Cardinality(Stamps(Recent(longer, at), From(t))) = Cardinality(Stamps(longer, From(t)))
        BY <1>5, <1>7, <3>1, RecentKeeps
      <3> QED
        BY <1>6, <1>7, <2>1, <3>1, <3>2, <3>3
    <2>2. CASE b # a
      <3>1. chatMemory'.recent[b] = Recent(stamps(b), at)
        BY <2>2
      <3>2. Cardinality(Stamps(Recent(stamps(b), at), From(t))) = Cardinality(Stamps(stamps(b), From(t)))
        BY <1>2, <1>5, <1>7, RecentKeeps
      <3>3. Cardinality(Stamps(stamps(b), From(t))) \in Nat
        BY <1>2, StampAppended
      <3> QED
        BY <2>2, <3>1, <3>2, <3>3
    <2> QED
      BY <2>1, <2>2
  <1>8. WindowsAreKept'
    <2>1. ASSUME NEW b \in Authors, NEW t \in Nat, t > chatNow - RateWindow
          PROVE  Accepted(past', handler', b, From(t)) <= Cardinality(Stamps(chatMemory'.recent[b], From(t)))
      <3> DEFINE accepted == Accepted(past, handler, b, From(t))
                 counted == Cardinality(Stamps(stamps(b), From(t)))
                 one == One(b, From(t))
      <3>1. accepted <= counted
        BY <2>1 DEF WindowsAreKept
      <3>2. accepted \in Nat /\ counted \in Nat /\ one \in Nat
        BY <1>2, AcceptedIsNat, StampAppended
      <3>3. /\ Accepted(past', handler', b, From(t)) = accepted + one
            /\ Cardinality(Stamps(chatMemory'.recent[b], From(t))) = counted + one
        BY <1>4, <1>7, <2>1
      <3> HIDE DEF accepted, counted, one
      <3> QED
        BY <3>1, <3>2, <3>3
    <2> QED
      BY <2>1 DEF WindowsAreKept
  <1>9. RateKept'
    <2>1. ASSUME NEW b \in Authors, NEW t \in Nat
          PROVE  Accepted(past', handler', b, Window(t)) <= RateLimit
      <3> DEFINE accepted == Accepted(past, handler, b, Window(t))
      <3>1. accepted \in Nat /\ accepted <= RateLimit
        BY AcceptedIsNat DEF RateKept
      <3>2. Accepted(past', handler', b, Window(t)) = accepted + One(b, Window(t))
        BY <1>4
      <3>3. CASE b = a /\ at \in Window(t)
        <4>1. t > chatNow - RateWindow
          BY <1>1, <3>3 DEF Window
        <4>2. Window(t) \subseteq From(t)
          BY DEF Window, From
        <4>3. accepted <= Accepted(past, handler, a, From(t)) /\ Accepted(past, handler, a, From(t)) \in Nat
          BY <3>3, <4>2, AcceptedMonotone, AcceptedIsNat
        <4>4. Accepted(past, handler, a, From(t)) <= Cardinality(Stamps(history, From(t)))
          BY <1>6, <4>1 DEF WindowsAreKept
        <4>5. Cardinality(Stamps(history, From(t))) <= Len(history) /\ Cardinality(Stamps(history, From(t))) \in Nat
          <5> DEFINE n == Len(history)
          <5>1. n \in Nat
            BY <1>3
          <5>2. Stamps(history, From(t)) \in SUBSET (1..n)
            BY DEF Stamps
          <5> HIDE DEF n
          <5>3. IsFiniteSet(1..n) /\ Cardinality(1..n) = n
            BY <5>1, FS_Interval
          <5>4. Cardinality(Stamps(history, From(t))) <= n
            BY <5>2, <5>3, FS_Subset
          <5>5. Cardinality(Stamps(history, From(t))) \in Nat
            BY <1>3, StampAppended
          <5> QED
            BY <5>4, <5>5 DEF n
        <4>6. Len(history) \in Nat
          BY <1>3
        <4> DEFINE above == Accepted(past, handler, a, From(t))
                   counted == Cardinality(Stamps(history, From(t)))
                   long == Len(history)
        <4>7. /\ accepted <= above /\ above <= counted /\ counted <= long /\ long < RateLimit
              /\ above \in Nat /\ counted \in Nat /\ long \in Nat
          BY <4>3, <4>4, <4>5, <4>6
        <4>8. Accepted(past', handler', b, Window(t)) = accepted + 1
          BY <3>2, <3>3
        <4> HIDE DEF accepted, above, counted, long
        <4> QED
          BY <1>1, <3>1, <4>7, <4>8
      <3>4. CASE ~(b = a /\ at \in Window(t))
        <4>1. Accepted(past', handler', b, Window(t)) = accepted + 0
          BY <3>2, <3>4
        <4> HIDE DEF accepted
        <4> QED
          BY <3>1, <4>1
      <3> QED
        BY <3>3, <3>4
    <2> QED
      BY <2>1 DEF RateKept
  <1>10. RateHeld'
    BY DEF RateHeld
  <1> QED
    BY <1>8, <1>9, <1>10

\* Saying it changes no count, and what is said is accepted.
LEMMA RatesSaid ==
    ASSUME ChatTypes, InOrder, WindowsAreKept, RateKept, RateHeld, ChatTypes',
           NEW h \in Handlers, handler[h].pc = "append", handler' = [handler EXCEPT ![h] = Idle],
           NEW m \in Said, m.request = handler[h].request, m.at = handler[h].at, m.life = past.life,
           past'.said = Append(past.said, m), past'.life = past.life, chatNow' = chatNow, chatMemory' = chatMemory
    PROVE  WindowsAreKept' /\ RateKept' /\ RateHeld'
  <1>1. \A a \in Authors : \A times : Accepted(past', handler', a, times) = Accepted(past, handler, a, times)
    BY AcceptedSaid
  <1>2. WindowsAreKept'
    BY <1>1 DEF WindowsAreKept
  <1>3. RateKept'
    BY <1>1 DEF RateKept
  <1> DEFINE n == Len(past.said) + 1
  <1>4. /\ past'.said[n] = m /\ n \notin DOMAIN past.said
        /\ DOMAIN past'.said = DOMAIN past.said \cup {n}
        /\ \A i \in DOMAIN past.said : past'.said[i] = past.said[i]
    BY SaidAppended
  <1> HIDE DEF n
  <1>5. \A i \in DOMAIN past'.said : past'.said[i].request.who \in Authors /\ past'.said[i].at \in Nat
    <2>1. m.request.kind = "post" /\ m.request \in ChatRequests /\ m.at \in Nat
      BY DEF InOrder, Said
    <2>2. \A i \in DOMAIN past.said :
              past.said[i].request.kind = "post" /\ past.said[i].request \in ChatRequests /\ past.said[i].at \in Nat
      <3>1. past.said \in Seq(Said)
        BY DEF ChatTypes
      <3>2. \A i \in DOMAIN past.said : past.said[i] \in Said
        BY <3>1
      <3> QED
        BY <3>2 DEF InOrder, Said
    <2>3. \A r \in ChatRequests : r.kind = "post" => r.who \in Authors
      BY DEF ChatRequests
    <2> QED
      BY <1>4, <2>1, <2>2, <2>3
  <1>6. ASSUME NEW i \in DOMAIN past'.said, past'.said[i].life = past.life
        PROVE  Cardinality(SaidIn(past'.said, past'.said[i].life, past'.said[i].request.who,
                                  Window(past'.said[i].at))) <= RateLimit
    <2> DEFINE a == past'.said[i].request.who
               t == past'.said[i].at
               said == Cardinality(SaidIn(past'.said, past'.life, a, Window(t)))
               waiting == Cardinality(Waiting(handler', a, Window(t)))
    <2>1. a \in Authors /\ t \in Nat /\ past'.said[i].life = past'.life
      BY <1>5, <1>6
    <2> HIDE DEF a, t
    <2>2. said + waiting <= RateLimit
      BY <1>3, <2>1 DEF RateKept, Accepted
    <2>3. said \in Nat /\ waiting \in Nat
      <3>1. /\ IsFiniteSet(DOMAIN past'.said) /\ IsFiniteSet(Handlers)
            /\ SaidIn(past'.said, past'.life, a, Window(t)) \in SUBSET DOMAIN past'.said
            /\ Waiting(handler', a, Window(t)) \in SUBSET Handlers
        <4> DEFINE k == Len(past'.said)
        <4>1. past'.said \in Seq(Said)
          BY DEF ChatTypes
        <4>2. k \in Int /\ 1 \in Int /\ DOMAIN past'.said = 1..k
          BY <4>1
        <4> HIDE DEF k
        <4>3. IsFiniteSet(1..k)
          BY <4>2, FS_Interval
        <4> QED
          BY <4>2, <4>3, ChatAssumption DEF SaidIn, Waiting
      <3> QED
        BY <3>1, FS_Subset, FS_CardinalityType
    <2>4. said <= RateLimit
      <3>1. RateLimit \in Nat
        BY ChatAssumption
      <3> HIDE DEF said, waiting
      <3> QED
        BY <2>2, <2>3, <3>1
    <2> QED
      BY <2>1, <2>4 DEF a, t
  <1>7. ASSUME NEW i \in DOMAIN past'.said, past'.said[i].life # past.life
        PROVE  Cardinality(SaidIn(past'.said, past'.said[i].life, past'.said[i].request.who,
                                  Window(past'.said[i].at))) <= RateLimit
    <2>1. i \in DOMAIN past.said /\ past'.said[i] = past.said[i]
      BY <1>4, <1>7
    <2>2. SaidIn(past'.said, past.said[i].life, past.said[i].request.who, Window(past.said[i].at)) =
              SaidIn(past.said, past.said[i].life, past.said[i].request.who, Window(past.said[i].at))
      BY <1>4, <1>7, <2>1 DEF SaidIn
    <2> QED
      BY <2>1, <2>2 DEF RateHeld
  <1>8. RateHeld'
    BY <1>6, <1>7 DEF RateHeld
  <1> QED
    BY <1>2, <1>3, <1>8

-------------------------------------------------------------------------------
(* ChatRoom: mutes. *)

\* A mute of the present says nothing of what came before it, or with it.
LEMMA NotMutedLater ==
    ASSUME NEW muted \in Seq(Mute), NEW mute \in Mute, NEW who, NEW at \in Nat, at <= mute.at,
           NotMuted(muted, who, at)
    PROVE  NotMuted(Append(muted, mute), who, at)
  <1> DEFINE longer == Append(muted, mute)
             n == Len(muted) + 1
             before == {k \in DOMAIN muted : muted[k].who = who /\ muted[k].at < at}
  <1>1. /\ DOMAIN longer = DOMAIN muted \cup {n} /\ n \notin DOMAIN muted /\ longer[n] = mute
        /\ \A k \in DOMAIN muted : longer[k] = muted[k]
    OBVIOUS
  <1>2. mute.at \in Nat
    BY DEF Mute
  <1> HIDE DEF longer, n
  <1>3. {k \in DOMAIN longer : longer[k].who = who /\ longer[k].at < at} = before
    BY <1>1, <1>2
  <1>4. before # {} => \E k \in DOMAIN muted : /\ muted[k].who = who /\ muted[k].at <= at /\ muted[k].until <= at
                                               /\ \A j \in before : j <= k
    BY DEF NotMuted
  <1>5. before # {} => \E k \in DOMAIN longer : /\ longer[k].who = who /\ longer[k].at <= at /\ longer[k].until <= at
                                                /\ \A j \in before : j <= k
    BY <1>1, <1>4
  <1> HIDE DEF before
  <1>6. NotMuted(longer, who, at)
    BY <1>3, <1>5 DEF NotMuted
  <1> QED
    BY <1>6 DEF longer

\* Calls that move on hold what they held.
CallsStay ==
    \A g \in Handlers : handler'[g].pc # "idle" /\ handler'[g].request.kind = "post" =>
        handler[g].pc # "idle" /\ handler'[g].request = handler[g].request /\ handler'[g].at = handler[g].at

LEMMA CallStays ==
    ASSUME ChatTypes, NEW h \in Handlers, NEW next \in ChatCall, handler' = [handler EXCEPT ![h] = next],
           next.pc # "idle" => \/ handler[h].pc # "idle" /\ next.request = handler[h].request /\ next.at = handler[h].at
                               \/ next.request.kind # "post"
    PROVE  CallsStay
  BY CallMoves DEF CallsStay

LEMMA MutesKept ==
    ASSUME ChatTypes, CallsAreNotMuted, TimeoutsTell, MutedStaySilent, CallsStay,
           past'.muted = past.muted, past'.said = past.said, chatNow' \in Nat, chatNow <= chatNow',
           \A a \in Authors : chatStore'.timeouts[a] = chatStore.timeouts[a] \/ chatStore.timeouts[a] <= chatNow
    PROVE  CallsAreNotMuted' /\ TimeoutsTell' /\ MutedStaySilent'
  <1>1. CallsAreNotMuted'
    BY DEF CallsAreNotMuted, CallsStay
  <1>2. MutedStaySilent'
    BY DEF MutedStaySilent
  <1>3. ASSUME NEW a \in Authors
        PROVE  TimeoutTells(past'.muted, chatStore'.timeouts[a], a, chatNow')
    <2> DEFINE muted == past.muted
               theirs == {k \in DOMAIN muted : muted[k].who = a}
               timeout == chatStore.timeouts[a]
               timeoutNow == chatStore'.timeouts[a]
    <2>1. TimeoutTells(muted, timeout, a, chatNow)
      BY DEF TimeoutsTell
    <2>2. \A k \in DOMAIN muted : muted[k].until \in Nat
      <3>1. muted \in Seq(Mute)
        BY DEF ChatTypes
      <3>2. \A k \in DOMAIN muted : muted[k] \in Mute
        BY <3>1
      <3> QED
        BY <3>2 DEF Mute
    <2>3. timeoutNow = timeout \/ timeout <= chatNow
      OBVIOUS
    <2>4. chatNow \in Nat /\ past'.muted = muted
      BY DEF ChatTypes
    <2> HIDE DEF muted, timeout, timeoutNow
    <2>5. ASSUME NEW k \in theirs, timeout = muted[k].until \/ muted[k].until <= chatNow
          PROVE  timeoutNow = muted[k].until \/ muted[k].until <= chatNow'
      BY <2>2, <2>3, <2>4, <2>5
    <2>6. TimeoutTells(muted, timeoutNow, a, chatNow')
      BY <2>1, <2>5 DEF TimeoutTells
    <2> QED
      BY <2>4, <2>6 DEF timeoutNow
  <1>4. TimeoutsTell'
    BY <1>3 DEF TimeoutsTell
  <1> QED
    BY <1>1, <1>2, <1>4

\* Whoever finds the timeout over at its arrival comes after the last mute's end.
LEMMA ArrivesUnmuted ==
    ASSUME ChatTypes, InOrder, TimeoutsTell, NEW a \in Authors, chatNow >= chatStore.timeouts[a]
    PROVE  NotMuted(past.muted, a, chatNow)
  <1> DEFINE muted == past.muted
             theirs == {k \in DOMAIN muted : muted[k].who = a}
             timeout == chatStore.timeouts[a]
  <1>1. TimeoutTells(muted, timeout, a, chatNow)
    BY DEF TimeoutsTell
  <1>2. \A k \in DOMAIN muted : muted[k].at <= chatNow
    BY DEF InOrder
  <1>3. timeout <= chatNow
    BY DEF ChatTypes, ChatStores, Senders
  <1> HIDE DEF muted, timeout
  <1>4. theirs # {} => \E k \in theirs : muted[k].until <= chatNow /\ \A j \in theirs : j <= k
    BY <1>1, <1>3 DEF TimeoutTells
  <1>5. NotMuted(muted, a, chatNow)
    BY <1>2, <1>4 DEF NotMuted
  <1> QED
    BY <1>5 DEF muted

\* A mute, or the lifting of one.
LEMMA MutesAdded ==
    ASSUME ChatTypes, InOrder, CallsAreNotMuted, TimeoutsTell, MutedStaySilent, CallsStay,
           NEW mute \in Mute, mute.at = chatNow, past'.muted = Append(past.muted, mute), past'.said = past.said,
           chatNow' = chatNow, chatStore'.timeouts = [chatStore.timeouts EXCEPT ![mute.who] = mute.until]
    PROVE  CallsAreNotMuted' /\ TimeoutsTell' /\ MutedStaySilent'
  <1> DEFINE muted == past.muted
             longer == Append(muted, mute)
             n == Len(muted) + 1
  <1>1. muted \in Seq(Mute) /\ past'.muted = longer
    BY DEF ChatTypes
  <1>2. /\ DOMAIN longer = DOMAIN muted \cup {n} /\ n \notin DOMAIN muted /\ longer[n] = mute
        /\ \A k \in DOMAIN muted : longer[k] = muted[k] /\ k <= n
    BY <1>1
  <1>3. n \in Nat
    BY <1>1
  <1> HIDE DEF muted, longer, n
  <1>4. CallsAreNotMuted'
    <2> SUFFICES ASSUME NEW g \in Handlers, handler'[g].pc # "idle", handler'[g].request.kind = "post"
                 PROVE  NotMuted(longer, handler'[g].request.who, handler'[g].at)
      BY <1>1 DEF CallsAreNotMuted
    <2>1. /\ handler[g].pc # "idle" /\ handler'[g].request = handler[g].request /\ handler'[g].at = handler[g].at
          /\ handler[g].request.kind = "post"
      BY DEF CallsStay
    <2>2. handler[g].at \in Nat /\ handler[g].at <= mute.at
      BY <2>1, CallHolds DEF InOrder
    <2>3. NotMuted(muted, handler[g].request.who, handler[g].at)
      BY <2>1 DEF CallsAreNotMuted, muted
    <2>4. NotMuted(longer, handler[g].request.who, handler[g].at)
      BY <1>1, <2>2, <2>3, NotMutedLater DEF longer
    <2> QED
      BY <2>1, <2>4
  <1>5. MutedStaySilent'
    <2> SUFFICES ASSUME NEW i \in DOMAIN past.said
                 PROVE  NotMuted(longer, past.said[i].request.who, past.said[i].at)
      BY <1>1 DEF MutedStaySilent
    <2>1. past.said[i].at \in Nat /\ past.said[i].at <= mute.at
      <3>1. past.said \in Seq(Said)
        BY DEF ChatTypes
      <3>2. past.said[i] \in Said
        BY <3>1
      <3> QED
        BY <3>2 DEF Said, InOrder
    <2>2. NotMuted(muted, past.said[i].request.who, past.said[i].at)
      BY DEF MutedStaySilent, muted
    <2> QED
      BY <1>1, <2>1, <2>2, NotMutedLater DEF longer
  <1>6. ASSUME NEW a \in Authors
        PROVE  TimeoutTells(longer, chatStore'.timeouts[a], a, chatNow)
    <2> DEFINE theirs == {k \in DOMAIN muted : muted[k].who = a}
               now == {k \in DOMAIN longer : longer[k].who = a}
    <2>1. chatStore.timeouts \in [Senders -> Nat] /\ a \in Senders
      BY DEF ChatTypes, ChatStores, Senders
    <2>2. CASE mute.who = a
      <3>1. chatStore'.timeouts[a] = mute.until
        BY <2>1, <2>2
      <3>2. n \in now /\ longer[n] = mute /\ \A j \in now : j <= n
        BY <1>2, <1>3, <2>2
      <3> QED
        BY <3>1, <3>2 DEF TimeoutTells
    <2>3. CASE mute.who # a
      <3>1. chatStore'.timeouts[a] = chatStore.timeouts[a]
        BY <2>1, <2>3
      <3>2. now = theirs /\ \A k \in theirs : longer[k] = muted[k]
        BY <1>2, <2>3
      <3>3. TimeoutTells(muted, chatStore.timeouts[a], a, chatNow)
        BY DEF TimeoutsTell, muted
      <3> QED
        BY <3>1, <3>2, <3>3 DEF TimeoutTells
    <2> QED
      BY <2>2, <2>3
  <1>7. TimeoutsTell'
    BY <1>1, <1>6 DEF TimeoutsTell
  <1> QED
    BY <1>4, <1>5, <1>7

\* What is said was not muted when it arrived.
LEMMA MutesSaid ==
    ASSUME ChatTypes, CallsAreNotMuted, TimeoutsTell, MutedStaySilent, CallsStay,
           NEW h \in Handlers, handler[h].pc = "append", handler[h].request.kind = "post",
           NEW m \in Said, m.request = handler[h].request, m.at = handler[h].at,
           past'.said = Append(past.said, m), past'.muted = past.muted, chatNow' = chatNow,
           chatStore'.timeouts = chatStore.timeouts
    PROVE  CallsAreNotMuted' /\ TimeoutsTell' /\ MutedStaySilent'
  <1> DEFINE n == Len(past.said) + 1
  <1>1. /\ past'.said[n] = m /\ n \notin DOMAIN past.said
        /\ DOMAIN past'.said = DOMAIN past.said \cup {n}
        /\ \A i \in DOMAIN past.said : past'.said[i] = past.said[i]
    BY SaidAppended
  <1> HIDE DEF n
  <1>2. NotMuted(past.muted, m.request.who, m.at)
    BY DEF CallsAreNotMuted
  <1>3. MutedStaySilent'
    BY <1>1, <1>2 DEF MutedStaySilent
  <1>4. CallsAreNotMuted'
    BY DEF CallsAreNotMuted, CallsStay
  <1>5. TimeoutsTell'
    BY DEF TimeoutsTell
  <1> QED
    BY <1>3, <1>4, <1>5

-------------------------------------------------------------------------------
(* ChatRoom: the steps. *)

\* The window kept of every author counts what it counted.
SameWindows ==
    \A a \in Authors, t \in Nat : t > chatNow - RateWindow =>
        Cardinality(Stamps(chatMemory'.recent[a], From(t))) = Cardinality(Stamps(chatMemory.recent[a], From(t)))
SamePast == past'.said = past.said /\ past'.life = past.life /\ past'.muted = past.muted
PastTypes == [life : Nat, made : Nat, said : Seq(Said), muted : Seq(Mute)]

LEMMA MemoryPrunes ==
    ASSUME ChatTypes, NEW at \in Nat, at <= chatNow, chatNow' = chatNow, chatMemory' = Pruned(chatMemory, at)
    PROVE  chatMemory' \in ChatMemories /\ SameWindows /\ \A r \in ChatRequests : Spent(r) => Spent(r)'
  <1>1. /\ chatMemory' \in ChatMemories
        /\ \A a \in Authors : chatMemory'.recent[a] = Recent(chatMemory.recent[a], at)
        /\ chatMemory'.used = {q \in chatMemory.used : at - q.issued <= ClaimLifetime + ClaimSkew}
    <2>1. chatMemory \in ChatMemories
      BY DEF ChatTypes
    <2> QED
      BY <2>1, MemoryPruned
  <1>2. /\ chatNow \in Nat /\ RateWindow \in Nat /\ ClaimLifetime \in Nat /\ ClaimSkew \in Nat
        /\ \A a \in Authors : chatMemory.recent[a] \in Seq(Nat)
    BY ChatAssumption DEF ChatTypes, ChatMemories
  <1>3. SameWindows
    <2> SUFFICES ASSUME NEW a \in Authors, NEW t \in Nat, t > chatNow - RateWindow
                 PROVE  Cardinality(Stamps(chatMemory'.recent[a], From(t))) = Cardinality(Stamps(chatMemory.recent[a], From(t)))
      BY DEF SameWindows
    <2>1. From(t) \in SUBSET Nat /\ \A x \in From(t) : at - x < RateWindow
      BY <1>2 DEF From
    <2>2. Cardinality(Stamps(Recent(chatMemory.recent[a], at), From(t))) = Cardinality(Stamps(chatMemory.recent[a], From(t)))
      BY <1>2, <2>1, RecentKeeps
    <2> QED
      BY <1>1, <2>2
  <1>4. ASSUME NEW r \in ChatRequests, Spent(r)
        PROVE  Spent(r)'
    <2>1. r.issued \in Nat
      BY DEF ChatRequests
    <2> QED
      BY <1>1, <1>2, <1>4, <2>1 DEF Spent
  <1> QED
    BY <1>1, <1>3, <1>4

\* What a step of one call preserves that says, accepts and mutes nothing.
LEMMA CallQuiet ==
    ASSUME ChatInv, NEW h \in Handlers, NEW next \in ChatCall, handler' = [handler EXCEPT ![h] = next],
           handler[h].pc # "append", next.pc # "append", next.pc = "claim" => next.request.kind = "post",
           next.pc # "idle" => next.at <= chatNow /\ chatNow <= next.at + MaxLatency,
           chatNow' = chatNow, chatMemory' \in ChatMemories, SameWindows, chatStore' \in ChatStores,
           past' \in PastTypes, SamePast
    PROVE  ChatTypes' /\ InOrder' /\ OneMessagePerClaim' /\ WindowsAreKept' /\ RateKept' /\ RateHeld'
  <1>1. ChatTypes /\ InOrder /\ OneMessagePerClaim /\ WindowsAreKept /\ RateKept /\ RateHeld
    BY DEF ChatInv
  <1>2. ChatTypes'
    <2>1. handler' \in [Handlers -> ChatCall]
      BY <1>1, CallMoves
    <2> QED
      BY <1>1, <2>1 DEF ChatTypes, PastTypes
  <1>3. InOrder'
    BY <1>1, OrderKept DEF SamePast
  <1>4. OneMessagePerClaim'
    BY <1>1 DEF OneMessagePerClaim, SamePast
  <1>5. \A a \in Authors : \A times : Accepted(past', handler', a, times) = Accepted(past, handler, a, times)
    BY <1>1, AcceptedSame DEF SamePast
  <1>6. /\ chatNow' \in Nat /\ chatNow <= chatNow'
        /\ \A a \in Authors, t \in Nat : t > chatNow' - RateWindow =>
               Cardinality(Stamps(chatMemory'.recent[a], From(t))) = Cardinality(Stamps(chatMemory.recent[a], From(t)))
    BY <1>1 DEF ChatTypes, SameWindows
  <1>7. past'.said = past.said
    BY DEF SamePast
  <1>8. WindowsAreKept' /\ RateKept' /\ RateHeld'
    BY <1>1, <1>5, <1>6, <1>7, RatesKept
  <1> QED
    BY <1>2, <1>3, <1>4, <1>8

\* Where a call goes.
LEMMA CallGoes ==
    ASSUME ChatTypes, NEW h \in Handlers, NEW pc, ChatGoes(h, pc)
    PROVE  handler' = [handler EXCEPT ![h] = [handler[h] EXCEPT !.pc = pc]]
  BY DEF ChatTypes, ChatGoes

LEMMA CallEnds ==
    ASSUME NEW h \in Handlers, ChatEnds(h)
    PROVE  Idle \in ChatCall /\ Idle.pc = "idle" /\ handler' = [handler EXCEPT ![h] = Idle]
  BY DEF ChatEnds, Idle, ChatCall

\* A claim that is checked: it is recorded with the call, or the call ends.
LEMMA ReservesKeeps ==
    ASSUME ChatInv, NEW h \in Handlers, NEW r \in ChatRequests, NEW at \in Nat, Reserves(h, r, at),
           at <= chatNow, chatNow <= at + MaxLatency, handler[h].pc # "append",
           r.kind = "post" => handler[h].pc # "idle" /\ r = handler[h].request /\ at = handler[h].at,
           chatNow' = chatNow, chatStore' = chatStore, past' \in PastTypes, SamePast
    PROVE  ChatInv'
  <1>1. ChatTypes /\ ClaimsAreSpent /\ CallsAreNotMuted /\ TimeoutsTell /\ MutedStaySilent
    BY DEF ChatInv
  <1>2. chatStore' \in ChatStores /\ chatMemory \in ChatMemories /\ chatNow' \in Nat /\ chatNow <= chatNow'
    BY <1>1 DEF ChatTypes
  <1>3. past'.said = past.said /\ past'.life = past.life /\ past'.muted = past.muted
    BY DEF SamePast
  <1>4. ASSUME CallsStay
        PROVE  CallsAreNotMuted' /\ TimeoutsTell' /\ MutedStaySilent'
    BY <1>1, <1>2, <1>3, <1>4, MutesKept
  <1>5. CASE Acceptable(r, at)
    <2> DEFINE next == [pc |-> "verify", request |-> r, at |-> at]
    <2>1. next \in ChatCall /\ next.pc = "verify" /\ next.request = r /\ next.at = at
      BY DEF ChatCall
    <2>2. handler' = [handler EXCEPT ![h] = next] /\ chatMemory' = [chatMemory EXCEPT !.used = chatMemory.used \union {r}]
      BY <1>5 DEF Reserves
    <2>3. /\ chatMemory' \in ChatMemories /\ chatMemory'.recent = chatMemory.recent
          /\ chatMemory'.used = chatMemory.used \union {r}
      BY <1>2, <2>2 DEF ChatMemories
    <2>4. SameWindows
      BY <2>3 DEF SameWindows
    <2> HIDE DEF next
    <2>5. ChatTypes' /\ InOrder' /\ OneMessagePerClaim' /\ WindowsAreKept' /\ RateKept' /\ RateHeld'
      BY <1>2, <2>1, <2>2, <2>3, <2>4, CallQuiet
    <2>6. ClaimsAreSpent'
      BY <1>1, <1>3, <1>5, <2>1, <2>2, <2>3, ClaimsReserved
    <2>7. CallsStay
      BY <1>1, <2>1, <2>2, CallStays
    <2> QED
      BY <1>4, <2>5, <2>6, <2>7 DEF ChatInv
  <1>6. CASE ~Acceptable(r, at)
    <2>1. Idle \in ChatCall /\ Idle.pc = "idle"
      BY DEF Idle, ChatCall
    <2>2. handler' = [handler EXCEPT ![h] = Idle] /\ chatMemory' = chatMemory
      BY <1>6 DEF Reserves
    <2>3. SameWindows
      BY <2>2 DEF SameWindows
    <2>4. ChatTypes' /\ InOrder' /\ OneMessagePerClaim' /\ WindowsAreKept' /\ RateKept' /\ RateHeld'
      BY <1>2, <2>1, <2>2, <2>3, CallQuiet
    <2>5. \A q \in ChatRequests : Spent(q) => Spent(q)'
      BY <2>2 DEF Spent
    <2>6. ClaimsAreSpent'
      BY <1>1, <1>3, <2>1, <2>2, <2>5, ClaimsKept
    <2>7. CallsStay
      BY <1>1, <2>1, <2>2, CallStays
    <2> QED
      BY <1>4, <2>4, <2>6, <2>7 DEF ChatInv
  <1> QED
    BY <1>5, <1>6

LEMMA SameAll ==
    ASSUME ChatTypes
    PROVE  /\ past' = past => past' \in PastTypes /\ SamePast
           /\ past' = [past EXCEPT !.made = past.made + 1] => past' \in PastTypes /\ SamePast
           /\ chatMemory' = chatMemory =>
                  chatMemory' \in ChatMemories /\ SameWindows /\ (chatNow' = chatNow => \A r \in ChatRequests : Spent(r) => Spent(r)')
           /\ chatStore' = chatStore =>
                  chatStore' \in ChatStores /\ \A a \in Authors : chatStore'.timeouts[a] = chatStore.timeouts[a]
  <1>1. past \in PastTypes /\ chatMemory \in ChatMemories /\ chatStore \in ChatStores
    BY DEF ChatTypes, PastTypes
  <1>2. past' = past => past' \in PastTypes /\ SamePast
    BY <1>1 DEF SamePast
  <1>3. past' = [past EXCEPT !.made = past.made + 1] => past' \in PastTypes /\ SamePast
    BY <1>1 DEF SamePast, PastTypes
  <1>4. chatMemory' = chatMemory => SameWindows /\ (chatNow' = chatNow => \A r \in ChatRequests : Spent(r) => Spent(r)')
    BY DEF SameWindows, Spent
  <1> QED
    BY <1>1, <1>2, <1>3, <1>4

\* A step of a call that leaves the mutes and the claims: it is quiet.
LEMMA QuietKeeps ==
    ASSUME ChatInv, NEW h \in Handlers, NEW next \in ChatCall, handler' = [handler EXCEPT ![h] = next],
           handler[h].pc # "append", next.pc \notin {"claim", "verify", "append"},
           next.pc # "idle" => handler[h].pc # "idle" /\ next.request = handler[h].request /\ next.at = handler[h].at,
           chatNow' = chatNow, chatMemory' \in ChatMemories, SameWindows, chatStore' \in ChatStores,
           \A r \in ChatRequests : Spent(r) => Spent(r)',
           \A a \in Authors : chatStore'.timeouts[a] = chatStore.timeouts[a] \/ chatStore.timeouts[a] <= chatNow,
           past' \in PastTypes, SamePast
    PROVE  ChatInv'
  <1>1. ChatTypes /\ InOrder /\ ClaimsAreSpent /\ CallsAreNotMuted /\ TimeoutsTell /\ MutedStaySilent
    BY DEF ChatInv
  <1>2. past'.said = past.said /\ past'.life = past.life /\ past'.muted = past.muted
    BY DEF SamePast
  <1>3. next.pc # "idle" => next.at <= chatNow /\ chatNow <= next.at + MaxLatency
    BY <1>1 DEF InOrder
  <1>4. ChatTypes' /\ InOrder' /\ OneMessagePerClaim' /\ WindowsAreKept' /\ RateKept' /\ RateHeld'
    BY <1>3, CallQuiet
  <1>5. ClaimsAreSpent'
    BY <1>1, <1>2, ClaimsKept
  <1>6. CallsStay
    BY <1>1, CallStays
  <1>7. chatNow' \in Nat /\ chatNow <= chatNow'
    BY <1>1 DEF ChatTypes
  <1>8. CallsAreNotMuted' /\ TimeoutsTell' /\ MutedStaySilent'
    BY <1>1, <1>2, <1>6, <1>7, MutesKept
  <1> QED
    BY <1>4, <1>5, <1>8 DEF ChatInv

LEMMA PostArrivesKeeps ==
    ASSUME ChatInv, NEW h \in Handlers, PostArrives(h)
    PROVE  ChatInv'
  <1>1. ChatTypes /\ InOrder /\ ClaimsAreSpent /\ CallsAreNotMuted /\ TimeoutsTell /\ MutedStaySilent
    BY DEF ChatInv
  <1>2. PICK r \in (UNION {Signed("post", a, 0, 0) : a \in Authors}) \union SentAgain("post") :
            /\ chatNow >= TimeoutFor(chatStore, r.who)
            /\ handler' = [handler EXCEPT ![h] = [pc |-> "claim", request |-> r, at |-> chatNow]]
    BY DEF PostArrives
  <1>3. r \in ChatRequests /\ r.kind = "post" /\ r.who \in Authors
    <2>1. CASE r \in SentAgain("post")
      BY <1>1, <2>1, RequestsMade DEF ChatRequests
    <2>2. CASE r \notin SentAgain("post")
      <3>1. PICK a \in Authors : r \in Signed("post", a, 0, 0)
        <4>1. r \in UNION {Signed("post", a, 0, 0) : a \in Authors}
          BY <2>2, Zenon
        <4> QED
          BY <4>1, Zenon
      <3>2. r \in ChatRequests
        BY <1>1, <3>1, RequestsMade
      <3>3. r.kind = "post"
        BY <3>1 DEF Signed, Request
      <3> QED
        BY <3>2, <3>3 DEF ChatRequests
    <2> QED
      BY <2>1, <2>2
  <1> DEFINE next == [pc |-> "claim", request |-> r, at |-> chatNow]
  <1>4. next \in ChatCall /\ next.pc = "claim" /\ next.request = r /\ next.at = chatNow
    BY <1>1, <1>3 DEF ChatCall, ChatTypes
  <1>5. handler' = [handler EXCEPT ![h] = next] /\ handler[h].pc = "idle"
    BY <1>2 DEF PostArrives, Arrives, ChatAt
  <1> HIDE DEF next
  <1>6. /\ chatNow' = chatNow /\ chatMemory' = chatMemory /\ chatStore' = chatStore
        /\ past' = [past EXCEPT !.made = past.made + 1]
    BY DEF PostArrives, Arrives
  <1>7. /\ past' \in PastTypes /\ SamePast /\ chatMemory' \in ChatMemories /\ SameWindows /\ chatStore' \in ChatStores
        /\ \A q \in ChatRequests : Spent(q) => Spent(q)'
    BY <1>1, <1>6, SameAll
  <1>8. past'.said = past.said /\ past'.life = past.life /\ past'.muted = past.muted
    BY <1>7 DEF SamePast
  <1>9. chatNow <= chatNow /\ chatNow <= chatNow + MaxLatency
    BY <1>1, ChatAssumption DEF ChatTypes
  <1>10. ChatTypes' /\ InOrder' /\ OneMessagePerClaim' /\ WindowsAreKept' /\ RateKept' /\ RateHeld'
    BY <1>3, <1>4, <1>5, <1>6, <1>7, <1>9, CallQuiet
  <1>11. ClaimsAreSpent'
    BY <1>1, <1>4, <1>5, <1>7, <1>8, ClaimsKept
  <1>12. NotMuted(past.muted, r.who, chatNow)
    BY <1>1, <1>2, <1>3, ArrivesUnmuted DEF TimeoutFor
  <1>13. CallsAreNotMuted'
    <2>1. handler'[h] = next /\ \A g \in Handlers \ {h} : handler'[g] = handler[g]
      BY <1>1, <1>4, <1>5, CallMoves
    <2> QED
      BY <1>1, <1>4, <1>8, <1>12, <2>1 DEF CallsAreNotMuted
  <1>14. TimeoutsTell' /\ MutedStaySilent'
    BY <1>1, <1>6, <1>8 DEF TimeoutsTell, MutedStaySilent
  <1> QED
    BY <1>10, <1>11, <1>13, <1>14 DEF ChatInv

LEMMA PostReservesKeeps ==
    ASSUME ChatInv, NEW h \in Handlers, PostReserves(h)
    PROVE  ChatInv'
  <1>1. ChatTypes /\ InOrder
    BY DEF ChatInv
  <1>2. handler[h].pc = "claim" /\ Reserves(h, handler[h].request, handler[h].at)
        /\ chatNow' = chatNow /\ chatStore' = chatStore /\ past' = past
    BY DEF PostReserves, ChatAt
  <1>3. handler[h].request \in ChatRequests /\ handler[h].at \in Nat
    BY <1>1, <1>2, CallHolds
  <1>4. handler[h].at <= chatNow /\ chatNow <= handler[h].at + MaxLatency
    BY <1>1, <1>2 DEF InOrder
  <1>5. past' \in PastTypes /\ SamePast
    BY <1>1, <1>2, SameAll
  <1> QED
    BY <1>2, <1>3, <1>4, <1>5, ReservesKeeps

LEMMA ModerationArrivesKeeps ==
    ASSUME ChatInv, NEW h \in Handlers, ModerationArrives(h)
    PROVE  ChatInv'
  <1>1. ChatTypes
    BY DEF ChatInv
  <1>2. PICK action \in {"delete", "timeout"}, id \in 1..chatStore.lastId :
            \E r \in Signed(action, Moderator, id, MaxChatTime + 1) \union SentAgain(action) : Reserves(h, r, chatNow)
    BY DEF ModerationArrives
  <1>3. PICK r \in Signed(action, Moderator, id, MaxChatTime + 1) \union SentAgain(action) : Reserves(h, r, chatNow)
    BY <1>2
  <1>4. id \in Nat
    BY <1>1 DEF ChatTypes, ChatStores
  <1>5. r \in ChatRequests /\ r.kind = action
    BY <1>1, <1>4, RequestsMade
  <1>6. /\ chatNow' = chatNow /\ chatStore' = chatStore /\ past' = [past EXCEPT !.made = past.made + 1]
        /\ handler[h].pc = "idle"
    BY DEF ModerationArrives, Arrives, ChatAt
  <1>7. past' \in PastTypes /\ SamePast
    BY <1>1, <1>6, SameAll
  <1>8. chatNow \in Nat /\ chatNow <= chatNow /\ chatNow <= chatNow + MaxLatency
    BY <1>1, ChatAssumption DEF ChatTypes
  <1>9. r.kind # "post"
    BY <1>5
  <1> QED
    BY <1>3, <1>5, <1>6, <1>7, <1>8, <1>9, ReservesKeeps

\* A claim whose signature is bad, or whose author is over the rate, is free again.
LEMMA RefusedKeeps ==
    ASSUME ChatInv, NEW h \in Handlers, handler[h].pc = "verify",
           chatMemory' = Release(chatMemory, handler[h].request), ChatEnds(h),
           chatStore' = chatStore, chatNow' = chatNow, past' = past
    PROVE  ChatInv'
  <1>1. ChatTypes /\ ClaimsAreSpent /\ CallsAreNotMuted /\ TimeoutsTell /\ MutedStaySilent
    BY DEF ChatInv
  <1>2. Idle \in ChatCall /\ Idle.pc = "idle" /\ handler' = [handler EXCEPT ![h] = Idle]
    BY CallEnds
  <1>3. /\ chatMemory' \in ChatMemories /\ chatMemory'.recent = chatMemory.recent
        /\ chatMemory'.used = chatMemory.used \ {handler[h].request}
    BY <1>1 DEF ChatTypes, ChatMemories, Release
  <1>4. SameWindows
    BY <1>3 DEF SameWindows
  <1>5. past' \in PastTypes /\ SamePast /\ chatStore' \in ChatStores
    BY <1>1, SameAll
  <1>6. ChatTypes' /\ InOrder' /\ OneMessagePerClaim' /\ WindowsAreKept' /\ RateKept' /\ RateHeld'
    BY <1>2, <1>3, <1>4, <1>5, CallQuiet
  <1>7. ClaimsAreSpent'
    BY <1>1, <1>2, <1>3, ClaimsReleased DEF Reserved
  <1>8. CallsStay
    BY <1>1, <1>2, CallStays
  <1>9. chatNow' \in Nat /\ chatNow <= chatNow'
    BY <1>1 DEF ChatTypes
  <1>10. CallsAreNotMuted' /\ TimeoutsTell' /\ MutedStaySilent'
    BY <1>1, <1>8, <1>9, MutesKept
  <1> QED
    BY <1>6, <1>7, <1>10 DEF ChatInv

LEMMA TimeoutsPruned ==
    ASSUME ChatInv, NEW h \in Handlers, handler[h].pc # "idle", chatStore' = StorePrune(chatStore, handler[h].at)
    PROVE  /\ chatStore' \in ChatStores
           /\ \A a \in Authors : chatStore'.timeouts[a] = chatStore.timeouts[a] \/ chatStore.timeouts[a] <= chatNow
  <1>1. ChatTypes /\ InOrder
    BY DEF ChatInv
  <1>2. handler[h].at \in Nat /\ handler[h].at <= chatNow /\ chatNow \in Nat
    BY <1>1, CallHolds DEF InOrder, ChatTypes
  <1>3. chatStore \in ChatStores
    BY <1>1 DEF ChatTypes
  <1>4. /\ chatStore' \in ChatStores
        /\ \A a \in Senders : chatStore'.timeouts[a] = chatStore.timeouts[a] \/ chatStore.timeouts[a] <= handler[h].at
    BY <1>2, <1>3, StorePruned
  <1>5. \A a \in Authors : a \in Senders /\ chatStore.timeouts[a] \in Nat
    BY <1>3 DEF ChatStores, Senders
  <1> QED
    BY <1>2, <1>4, <1>5

LEMMA MemoryRecords ==
    ASSUME NEW c \in ChatMemories, NEW a \in Authors, NEW longer \in Seq(Nat)
    PROVE  /\ [c EXCEPT !.recent[a] = longer] \in ChatMemories
           /\ [c EXCEPT !.recent[a] = longer].used = c.used
           /\ \A b \in Authors : [c EXCEPT !.recent[a] = longer].recent[b] = IF b = a THEN longer ELSE c.recent[b]
  BY DEF ChatMemories

\* What the service remembers once it pruned what it now has.
LEMMA MemoryKeeps ==
    ASSUME ChatTypes, NEW m \in ChatMemories, m.used = chatMemory.used, NEW at \in Nat, at <= chatNow,
           chatNow' = chatNow, chatMemory' = Pruned(m, at)
    PROVE  /\ chatMemory' \in ChatMemories
           /\ \A b \in Authors : chatMemory'.recent[b] = Recent(m.recent[b], at)
           /\ \A q \in ChatRequests : Spent(q) => Spent(q)'
  <1>1. /\ chatMemory' \in ChatMemories
        /\ \A b \in Authors : chatMemory'.recent[b] = Recent(m.recent[b], at)
        /\ chatMemory'.used = {q \in m.used : at - q.issued <= ClaimLifetime + ClaimSkew}
    BY MemoryPruned
  <1>2. ASSUME NEW q \in ChatRequests, Spent(q)
        PROVE  Spent(q)'
    <2>1. q.issued \in Nat /\ chatNow \in Nat /\ ClaimLifetime \in Nat /\ ClaimSkew \in Nat
      BY ChatAssumption DEF ChatRequests, ChatTypes
    <2> QED
      BY <1>1, <1>2, <2>1 DEF Spent
  <1> QED
    BY <1>1, <1>2

LEMMA PostAcceptedKeeps ==
    ASSUME ChatInv, NEW h \in Handlers, handler[h].pc = "verify", handler[h].request.kind = "post",
           NEW at, at = handler[h].at, NEW a, a = handler[h].request.who,
           NEW history, history = Recent(chatMemory.recent[a], at), ~RateLimited(history, at),
           NEW m, m = [chatMemory EXCEPT !.recent[a] = Append(history, at)], chatMemory' = Pruned(m, at),
           chatStore' = StorePrune(chatStore, at), ChatGoes(h, "append"), chatNow' = chatNow, past' = past
    PROVE  ChatInv'
  <1> DEFINE next == [handler[h] EXCEPT !.pc = "append"]
  <1>1. /\ ChatTypes /\ InOrder /\ ClaimsAreSpent /\ OneMessagePerClaim /\ WindowsAreKept /\ RateKept /\ RateHeld
        /\ CallsAreNotMuted /\ TimeoutsTell /\ MutedStaySilent
    BY DEF ChatInv
  <1>2. handler' = [handler EXCEPT ![h] = next]
    BY <1>1, CallGoes
  <1>3. next \in ChatCall /\ next.pc = "append" /\ next.request = handler[h].request /\ next.at = at
    BY <1>1, CallHolds
  <1>4. handler[h].request \in ChatRequests /\ at \in Nat
    BY <1>1, CallHolds
  <1> HIDE DEF next
  <1>5. a \in Authors
    BY <1>4 DEF ChatRequests
  <1>6. at <= chatNow /\ chatNow <= at + MaxLatency
    BY <1>1 DEF InOrder
  <1>7. chatMemory.recent[a] \in Seq(Nat)
    BY <1>1, <1>5 DEF ChatTypes, ChatMemories
  <1>8. history \in Seq(Nat)
    BY <1>4, <1>7, RecentKeeps
  <1>9. /\ m \in ChatMemories /\ m.used = chatMemory.used
        /\ \A b \in Authors : m.recent[b] = IF b = a THEN Append(history, at) ELSE chatMemory.recent[b]
    <2> DEFINE longer == Append(history, at)
    <2>1. longer \in Seq(Nat)
      BY <1>4, <1>8
    <2>2. m = [chatMemory EXCEPT !.recent[a] = longer]
      OBVIOUS
    <2> HIDE DEF longer
    <2>3. chatMemory \in ChatMemories
      BY <1>1 DEF ChatTypes
    <2>4. /\ m \in ChatMemories /\ m.used = chatMemory.used
          /\ \A b \in Authors : m.recent[b] = IF b = a THEN longer ELSE chatMemory.recent[b]
      <3> DEFINE told == [chatMemory EXCEPT !.recent[a] = longer]
      <3>1. /\ told \in ChatMemories /\ told.used = chatMemory.used
            /\ \A b \in Authors : told.recent[b] = IF b = a THEN longer ELSE chatMemory.recent[b]
        BY <1>5, <2>1, <2>3, MemoryRecords
      <3>2. m = told
        BY <2>2
      <3> HIDE DEF told
      <3> QED
        BY <3>1, <3>2
    <2> QED
      BY <2>4 DEF longer
  <1>10. /\ chatMemory' \in ChatMemories
         /\ \A b \in Authors : chatMemory'.recent[b] = Recent(IF b = a THEN Append(history, at) ELSE chatMemory.recent[b], at)
         /\ \A q \in ChatRequests : Spent(q) => Spent(q)'
    <2>1. /\ chatMemory' \in ChatMemories
          /\ \A b \in Authors : chatMemory'.recent[b] = Recent(m.recent[b], at)
          /\ \A q \in ChatRequests : Spent(q) => Spent(q)'
      BY <1>1, <1>4, <1>6, <1>9, MemoryKeeps
    <2> QED
      BY <1>9, <2>1
  <1>11. chatStore' \in ChatStores
         /\ \A b \in Authors : chatStore'.timeouts[b] = chatStore.timeouts[b] \/ chatStore.timeouts[b] <= chatNow
    BY TimeoutsPruned
  <1>12. Len(history) < RateLimit
    <2>1. ~(Len(history) >= RateLimit)
      BY Zenon DEF RateLimited
    <2>2. Len(history) \in Nat /\ RateLimit \in Nat
      BY <1>8, ChatAssumption
    <2> QED
      BY <2>1, <2>2
  <1>13. next.request.who = a /\ handler[h].pc # "append" /\ past'.said = past.said /\ past'.life = past.life
    BY <1>3
  <1>14. WindowsAreKept' /\ RateKept' /\ RateHeld'
    BY <1>1, <1>2, <1>3, <1>4, <1>5, <1>6, <1>10, <1>12, <1>13, RatesAccept
  <1>15. ChatTypes'
    <2>1. handler' \in [Handlers -> ChatCall]
      BY <1>1, <1>2, <1>3, CallMoves
    <2> QED
      BY <1>1, <1>10, <1>11, <2>1 DEF ChatTypes
  <1>16. InOrder'
    BY <1>1, <1>2, <1>3, <1>6, OrderKept
  <1>17. OneMessagePerClaim'
    BY <1>1 DEF OneMessagePerClaim
  <1>18. Reserved(h)
    BY DEF Reserved
  <1>19. ClaimsAreSpent'
    BY <1>1, <1>2, <1>3, <1>10, <1>13, <1>18, ClaimsKept
  <1>20. CallsStay
    <2>1. next.pc # "idle" => handler[h].pc # "idle" /\ next.request = handler[h].request /\ next.at = handler[h].at
      BY <1>3
    <2> QED
      BY <1>1, <1>2, <1>3, <2>1, CallStays
  <1>21. chatNow' \in Nat /\ chatNow <= chatNow'
    BY <1>1 DEF ChatTypes
  <1>22. CallsAreNotMuted' /\ TimeoutsTell' /\ MutedStaySilent'
    BY <1>1, <1>11, <1>20, <1>21, MutesKept
  <1> QED
    BY <1>14, <1>15, <1>16, <1>17, <1>19, <1>22 DEF ChatInv

LEMMA PostVerifiedKeeps ==
    ASSUME ChatInv, NEW h \in Handlers, NEW good \in BOOLEAN, PostVerified(h, good)
    PROVE  ChatInv'
  <1> DEFINE history == Recent(chatMemory.recent[handler[h].request.who], handler[h].at)
  <1>1. /\ handler[h].pc = "verify" /\ handler[h].request.kind = "post" /\ chatNow' = chatNow /\ past' = past
        /\ IF ~good \/ RateLimited(history, handler[h].at)
           THEN /\ chatMemory' = Release(chatMemory, handler[h].request)
                /\ ChatEnds(h)
                /\ chatStore' = chatStore
           ELSE /\ chatMemory' = Pruned([chatMemory EXCEPT !.recent[handler[h].request.who] = Append(history, handler[h].at)],
                                        handler[h].at)
                /\ chatStore' = StorePrune(chatStore, handler[h].at)
                /\ ChatGoes(h, "append")
    BY DEF PostVerified, ChatAt
  <1> HIDE DEF history
  <1>2. CASE ~good \/ RateLimited(history, handler[h].at)
    BY <1>1, <1>2, RefusedKeeps
  <1>3. CASE ~(~good \/ RateLimited(history, handler[h].at))
    BY <1>1, <1>3, PostAcceptedKeeps, Zenon DEF history
  <1> QED
    BY <1>2, <1>3

LEMMA PostAppendsKeeps ==
    ASSUME ChatInv, NEW h \in Handlers, PostAppends(h)
    PROVE  ChatInv'
  <1> DEFINE m == [request |-> handler[h].request, at |-> handler[h].at, life |-> past.life]
  <1>1. /\ ChatTypes /\ InOrder /\ ClaimsAreSpent /\ OneMessagePerClaim /\ WindowsAreKept /\ RateKept /\ RateHeld
        /\ CallsAreNotMuted /\ TimeoutsTell /\ MutedStaySilent
    BY DEF ChatInv
  <1>2. /\ handler[h].pc = "append" /\ ChatEnds(h) /\ chatNow' = chatNow /\ chatMemory' = chatMemory
        /\ chatStore' = MemoryAppend(chatStore, handler[h].request.who)
        /\ past' = [past EXCEPT !.said = Append(past.said, m)]
    BY DEF PostAppends, ChatAt
  <1>3. Idle \in ChatCall /\ Idle.pc = "idle" /\ handler' = [handler EXCEPT ![h] = Idle]
    BY <1>2, CallEnds
  <1>4. handler[h].request \in ChatRequests /\ handler[h].at \in Nat
    BY <1>1, <1>2, CallHolds
  <1>5. handler[h].request.kind = "post" /\ handler[h].at <= chatNow
    BY <1>1, <1>2 DEF InOrder
  <1>6. handler[h].request.who \in Senders
    BY <1>4, <1>5 DEF ChatRequests, Senders
  <1>7. m \in Said /\ m.request = handler[h].request /\ m.at = handler[h].at /\ m.life = past.life
    BY <1>1, <1>4 DEF Said, ChatTypes
  <1> HIDE DEF m
  <1>8. past.life \in Nat /\ past.made \in Nat /\ past.muted \in Seq(Mute) /\ chatNow \in Nat
    BY <1>1 DEF ChatTypes
  <1>9. /\ past'.said = Append(past.said, m) /\ past'.life = past.life /\ past'.muted = past.muted
        /\ past' \in PastTypes
    <2>1. past \in PastTypes /\ past.said \in Seq(Said)
      BY <1>1 DEF ChatTypes, PastTypes
    <2>2. Append(past.said, m) \in Seq(Said)
      BY <1>7, <2>1
    <2> QED
      BY <1>2, <2>1, <2>2 DEF PastTypes
  <1>10. chatStore' \in ChatStores /\ chatStore'.timeouts = chatStore.timeouts
    <2>1. chatStore \in ChatStores
      BY <1>1 DEF ChatTypes
    <2> QED
      BY <1>2, <1>6, <2>1, StoreAppended
  <1>11. /\ past'.said[Len(past.said) + 1] = m
         /\ DOMAIN past'.said = DOMAIN past.said \cup {Len(past.said) + 1}
         /\ \A i \in DOMAIN past.said : past'.said[i] = past.said[i]
    BY <1>1, <1>7, <1>9, SaidAppended
  <1>12. ChatTypes'
    <2>1. handler' \in [Handlers -> ChatCall]
      BY <1>1, <1>3, CallMoves
    <2> QED
      BY <1>1, <1>2, <1>9, <1>10, <2>1 DEF ChatTypes, PastTypes
  <1>13. InOrder'
    <2>1. handler'[h] = Idle /\ \A g \in Handlers \ {h} : handler'[g] = handler[g]
      BY <1>1, <1>3, CallMoves
    <2>2. \A i \in DOMAIN past'.said :
              past'.said[i].at <= chatNow' /\ past'.said[i].life <= past'.life /\ past'.said[i].request.kind = "post"
      BY <1>1, <1>2, <1>5, <1>7, <1>8, <1>9, <1>11 DEF InOrder
    <2>3. /\ \A g \in Handlers : handler'[g].pc # "idle" =>
                 handler'[g].at <= chatNow' /\ chatNow' <= handler'[g].at + MaxLatency
          /\ \A g \in Handlers : handler'[g].pc \in {"claim", "append"} => handler'[g].request.kind = "post"
      BY <1>1, <1>2, <1>3, <2>1 DEF InOrder
    <2>4. \A k \in DOMAIN past'.muted : past'.muted[k].at <= chatNow'
      BY <1>1, <1>2, <1>9 DEF InOrder
    <2> QED
      BY <2>2, <2>3, <2>4 DEF InOrder
  <1>14. ClaimsAreSpent' /\ OneMessagePerClaim'
    <2>1. Reserved(h)
      BY <1>2 DEF Reserved
    <2> QED
      BY <1>1, <1>2, <1>3, <1>7, <1>9, <2>1, ClaimsSaid
  <1>15. WindowsAreKept' /\ RateKept' /\ RateHeld'
    BY <1>1, <1>2, <1>3, <1>7, <1>9, <1>12, RatesSaid
  <1>16. CallsStay
    BY <1>1, <1>3, CallStays
  <1>17. CallsAreNotMuted' /\ TimeoutsTell' /\ MutedStaySilent'
    BY <1>1, <1>2, <1>5, <1>7, <1>9, <1>10, <1>16, MutesSaid
  <1> QED
    BY <1>12, <1>13, <1>14, <1>15, <1>17 DEF ChatInv

LEMMA ModerationVerifiedKeeps ==
    ASSUME ChatInv, NEW h \in Handlers, NEW good \in BOOLEAN, ModerationVerified(h, good)
    PROVE  ChatInv'
  <1>1. ChatTypes /\ InOrder
    BY DEF ChatInv
  <1>2. handler[h].pc = "verify" /\ chatNow' = chatNow /\ past' = past
    BY DEF ModerationVerified, ChatAt
  <1>3. CASE ~good
    <2>1. chatMemory' = Release(chatMemory, handler[h].request) /\ ChatEnds(h) /\ chatStore' = chatStore
      BY <1>3 DEF ModerationVerified
    <2> QED
      BY <1>2, <2>1, RefusedKeeps
  <1>4. CASE good
    <2> DEFINE next == [handler[h] EXCEPT !.pc = "find"]
    <2>1. /\ chatMemory' = Pruned(chatMemory, handler[h].at) /\ chatStore' = StorePrune(chatStore, handler[h].at)
          /\ ChatGoes(h, "find")
      BY <1>4 DEF ModerationVerified
    <2>2. handler' = [handler EXCEPT ![h] = next]
      BY <1>1, <2>1, CallGoes
    <2>3. next \in ChatCall /\ next.pc = "find" /\ next.request = handler[h].request /\ next.at = handler[h].at
      BY <1>1, <1>2, CallHolds
    <2> HIDE DEF next
    <2>4. handler[h].at \in Nat /\ handler[h].at <= chatNow
      BY <1>1, <1>2, CallHolds DEF InOrder
    <2>5. chatMemory' \in ChatMemories /\ SameWindows /\ \A r \in ChatRequests : Spent(r) => Spent(r)'
      BY <1>1, <1>2, <2>1, <2>4, MemoryPrunes
    <2>6. /\ chatStore' \in ChatStores
          /\ \A a \in Authors : chatStore'.timeouts[a] = chatStore.timeouts[a] \/ chatStore.timeouts[a] <= chatNow
      BY <1>2, <2>1, TimeoutsPruned
    <2>7. past' \in PastTypes /\ SamePast
      BY <1>1, <1>2, SameAll
    <2>8. /\ handler[h].pc # "append" /\ next.pc \notin {"claim", "verify", "append"}
          /\ next.pc # "idle" => handler[h].pc # "idle" /\ next.request = handler[h].request /\ next.at = handler[h].at
      BY <1>2, <2>3
    <2> QED
      BY <1>2, <2>2, <2>3, <2>5, <2>6, <2>7, <2>8, QuietKeeps
  <1> QED
    BY <1>3, <1>4

\* A call that moves on, or ends, over a store whose timeouts stay.
LEMMA MovesKeeps ==
    ASSUME ChatInv, NEW h \in Handlers, NEW next \in ChatCall, handler' = [handler EXCEPT ![h] = next],
           handler[h].pc # "append", next.pc \notin {"claim", "verify", "append"},
           next.pc # "idle" => handler[h].pc # "idle" /\ next.request = handler[h].request /\ next.at = handler[h].at,
           chatNow' = chatNow, chatMemory' = chatMemory, past' = past,
           chatStore' \in ChatStores, chatStore'.timeouts = chatStore.timeouts
    PROVE  ChatInv'
  <1>1. ChatTypes
    BY DEF ChatInv
  <1>2. /\ past' \in PastTypes /\ SamePast /\ chatMemory' \in ChatMemories /\ SameWindows
        /\ \A r \in ChatRequests : Spent(r) => Spent(r)'
    BY <1>1, SameAll
  <1> QED
    BY <1>2, QuietKeeps

LEMMA ModerationFindsKeeps ==
    ASSUME ChatInv, NEW h \in Handlers, ModerationFinds(h)
    PROVE  ChatInv'
  <1>1. ChatTypes
    BY DEF ChatInv
  <1>2. /\ handler[h].pc = "find" /\ chatNow' = chatNow /\ chatMemory' = chatMemory /\ past' = past
        /\ chatStore' = chatStore
    BY DEF ModerationFinds, ChatAt
  <1>3. chatStore' \in ChatStores /\ chatStore'.timeouts = chatStore.timeouts
    BY <1>1, <1>2 DEF ChatTypes
  <1>4. CASE ChatEnds(h)
    <2>1. Idle \in ChatCall /\ Idle.pc = "idle" /\ handler' = [handler EXCEPT ![h] = Idle]
      BY <1>4, CallEnds
    <2> QED
      BY <1>2, <1>3, <2>1, MovesKeeps
  <1>5. CASE \E m \in Find(chatStore, handler[h].request.ref) : handler' = [handler EXCEPT ![h] =
                 [pc |-> "apply", author |-> m.author, request |-> handler[h].request, at |-> handler[h].at]]
    <2>1. PICK m \in Find(chatStore, handler[h].request.ref) : handler' = [handler EXCEPT ![h] =
              [pc |-> "apply", author |-> m.author, request |-> handler[h].request, at |-> handler[h].at]]
      BY <1>5
    <2> DEFINE next == [pc |-> "apply", author |-> m.author, request |-> handler[h].request, at |-> handler[h].at]
    <2>2. m.author \in Senders
      <3>1. chatStore.messages \in Seq(ChatMessage)
        BY <1>1 DEF ChatTypes, ChatStores
      <3>2. PICK i \in DOMAIN chatStore.messages : m = chatStore.messages[i]
        BY DEF Find, Range
      <3>3. m \in ChatMessage
        BY <3>1, <3>2
      <3> QED
        BY <3>3 DEF ChatMessage
    <2>3. handler[h].request \in ChatRequests /\ handler[h].at \in Nat
      BY <1>1, <1>2, CallHolds
    <2>4. /\ next \in ChatCall /\ next.pc = "apply" /\ next.request = handler[h].request /\ next.at = handler[h].at
      BY <2>2, <2>3 DEF ChatCall
    <2>5. handler' = [handler EXCEPT ![h] = next]
      BY <2>1
    <2> HIDE DEF next
    <2>6. /\ handler[h].pc # "append" /\ next.pc \notin {"claim", "verify", "append"}
          /\ next.pc # "idle" => handler[h].pc # "idle" /\ next.request = handler[h].request /\ next.at = handler[h].at
      BY <1>2, <2>4
    <2> QED
      BY <1>2, <1>3, <2>4, <2>5, <2>6, MovesKeeps
  <1> QED
    BY <1>4, <1>5 DEF ModerationFinds

\* A mute, or the lifting of one, as a step that accepts and says nothing.
LEMMA MuteKeeps ==
    ASSUME ChatInv, NEW mute \in Mute, mute.at = chatNow, past' = [past EXCEPT !.muted = Append(past.muted, mute)],
           chatNow' = chatNow, chatMemory' = chatMemory, chatStore' \in ChatStores,
           chatStore'.timeouts = [chatStore.timeouts EXCEPT ![mute.who] = mute.until],
           handler' \in [Handlers -> ChatCall], CallsStay,
           \A g \in Handlers : \/ handler'[g] = handler[g]
                               \/ /\ {handler[g].pc, handler'[g].pc} \subseteq {"apply", "audit"}
                                  /\ handler'[g].at = handler[g].at
    PROVE  ChatInv'
  <1>1. /\ ChatTypes /\ InOrder /\ ClaimsAreSpent /\ OneMessagePerClaim /\ WindowsAreKept /\ RateKept /\ RateHeld
        /\ CallsAreNotMuted /\ TimeoutsTell /\ MutedStaySilent
    BY DEF ChatInv
  <1> DEFINE longer == Append(past.muted, mute)
  <1>2. chatNow \in Nat /\ chatMemory \in ChatMemories /\ past \in PastTypes /\ past.muted \in Seq(Mute)
    BY <1>1 DEF ChatTypes, PastTypes
  <1>3. longer \in Seq(Mute) /\ \A k \in DOMAIN longer : longer[k] = mute \/ (k \in DOMAIN past.muted /\ longer[k] = past.muted[k])
    BY <1>2
  <1>4. past'.said = past.said /\ past'.life = past.life /\ past'.muted = longer /\ past' \in PastTypes
    BY <1>2, <1>3 DEF PastTypes
  <1> HIDE DEF longer
  <1>5. ChatTypes'
    BY <1>2, <1>4 DEF ChatTypes, PastTypes
  <1>6. InOrder'
    <2>1. \A k \in DOMAIN past'.muted : past'.muted[k].at <= chatNow'
      BY <1>1, <1>2, <1>3, <1>4 DEF InOrder
    <2>2. /\ \A g \in Handlers : handler'[g].pc # "idle" =>
                 handler'[g].at <= chatNow' /\ chatNow' <= handler'[g].at + MaxLatency
          /\ \A g \in Handlers : handler'[g].pc \in {"claim", "append"} => handler'[g].request.kind = "post"
      BY <1>1 DEF InOrder
    <2>3. \A i \in DOMAIN past'.said :
              past'.said[i].at <= chatNow' /\ past'.said[i].life <= past'.life /\ past'.said[i].request.kind = "post"
      BY <1>1, <1>4 DEF InOrder
    <2> QED
      BY <2>1, <2>2, <2>3 DEF InOrder
  <1>7. \A g \in Handlers : Reserved(g)' => Reserved(g) /\ handler'[g] = handler[g]
    BY DEF Reserved
  <1>8. ClaimsAreSpent' /\ OneMessagePerClaim'
    <2>1. \A g \in Handlers : Reserved(g)' => Spent(handler'[g].request)
      BY <1>1, <1>7 DEF ClaimsAreSpent
    <2>2. \A f, g \in Handlers : Reserved(f)' /\ Reserved(g)' /\ handler'[f].request = handler'[g].request => f = g
      BY <1>1, <1>7 DEF ClaimsAreSpent
    <2>3. ASSUME NEW i \in DOMAIN past'.said, past'.said[i].life = past'.life
          PROVE  /\ Spent(past'.said[i].request)
                 /\ \A g \in Handlers : Reserved(g)' => handler'[g].request # past'.said[i].request
      BY <1>1, <1>4, <1>7, <2>3 DEF ClaimsAreSpent
    <2>4. OneMessagePerClaim'
      BY <1>1, <1>4 DEF OneMessagePerClaim
    <2> QED
      BY <2>1, <2>2, <2>3, <2>4 DEF ClaimsAreSpent, Spent
  <1>9. \A a \in Authors : \A times : Accepted(past', handler', a, times) = Accepted(past, handler, a, times)
    <2> SUFFICES ASSUME NEW a \in Authors, NEW times
                 PROVE  Accepted(past', handler', a, times) = Accepted(past, handler, a, times)
      OBVIOUS
    <2>1. Waiting(handler', a, times) = Waiting(handler, a, times)
      <3>1. \A g \in Handlers : handler'[g].pc = "append" \/ handler[g].pc = "append" => handler'[g] = handler[g]
        OBVIOUS
      <3> QED
        BY <3>1 DEF Waiting
    <2> QED
      BY <1>4, <2>1 DEF Accepted
  <1>10. WindowsAreKept' /\ RateKept' /\ RateHeld'
    <2>1. chatNow' \in Nat /\ chatNow <= chatNow'
      BY <1>2
    <2> QED
      BY <1>1, <1>4, <1>9, <2>1, RatesKept
  <1>11. CallsAreNotMuted' /\ TimeoutsTell' /\ MutedStaySilent'
    BY <1>1, <1>4, MutesAdded DEF longer
  <1> QED
    BY <1>5, <1>6, <1>8, <1>10, <1>11 DEF ChatInv

LEMMA ModerationAppliesKeeps ==
    ASSUME ChatInv, NEW h \in Handlers, ModerationApplies(h)
    PROVE  ChatInv'
  <1> DEFINE next == [handler[h] EXCEPT !.pc = "audit"]
             r == handler[h].request
             author == handler[h].author
  <1>1. ChatTypes
    BY DEF ChatInv
  <1>2. /\ handler[h].pc = "apply" /\ chatNow' = chatNow /\ chatMemory' = chatMemory
        /\ ChatGoes(h, "audit")
    BY DEF ModerationApplies, ChatAt
  <1>3. handler' = [handler EXCEPT ![h] = next]
    BY <1>1, <1>2, CallGoes
  <1>4. /\ next \in ChatCall /\ next.pc = "audit" /\ next.request = handler[h].request /\ next.at = handler[h].at
        /\ author \in Senders /\ r \in ChatRequests
    BY <1>1, <1>2, CallHolds
  <1> HIDE DEF next
  <1>5. chatStore \in ChatStores /\ chatNow \in Nat
    BY <1>1 DEF ChatTypes
  <1>6. CASE r.kind = "delete"
    <2>1. chatStore' = Delete(chatStore, r.ref) /\ past' = past
      BY <1>6 DEF ModerationApplies
    <2>2. chatStore' \in ChatStores /\ chatStore'.timeouts = chatStore.timeouts
      BY <1>5, <2>1, StoreDeleted
    <2>3. /\ handler[h].pc # "append" /\ next.pc \notin {"claim", "verify", "append"}
          /\ next.pc # "idle" => handler[h].pc # "idle" /\ next.request = handler[h].request /\ next.at = handler[h].at
      BY <1>2, <1>4
    <2> QED
      BY <1>2, <1>3, <1>4, <2>1, <2>2, <2>3, MovesKeeps
  <1>7. CASE r.kind # "delete"
    <2> DEFINE mute == [who |-> author, at |-> chatNow, until |-> r.until]
    <2>1. chatStore' = SetTimeout(chatStore, author, r.until) /\ past' = [past EXCEPT !.muted = Append(past.muted, mute)]
      BY <1>7 DEF ModerationApplies
    <2>2. r.until \in Nat
      BY <1>4 DEF ChatRequests
    <2>3. mute \in Mute /\ mute.at = chatNow /\ mute.who = author /\ mute.until = r.until
      BY <1>4, <1>5, <2>2 DEF Mute
    <2> HIDE DEF mute
    <2>4. /\ chatStore' \in ChatStores
          /\ chatStore'.timeouts = [chatStore.timeouts EXCEPT ![author] = r.until]
      BY <1>4, <1>5, <2>1, <2>2, StoreMuted
    <2>5. chatStore'.timeouts = [chatStore.timeouts EXCEPT ![mute.who] = mute.until]
      BY <2>3, <2>4
    <2>6. /\ handler' \in [Handlers -> ChatCall] /\ handler'[h] = next
          /\ \A g \in Handlers \ {h} : handler'[g] = handler[g]
      BY <1>1, <1>3, <1>4, CallMoves
    <2>7. CallsStay
      BY <1>2, <1>4, <2>6 DEF CallsStay
    <2>8. \A g \in Handlers : \/ handler'[g] = handler[g]
                              \/ /\ {handler[g].pc, handler'[g].pc} \subseteq {"apply", "audit"}
                                 /\ handler'[g].at = handler[g].at
      BY <1>2, <1>4, <2>6
    <2> QED
      BY <1>2, <2>1, <2>3, <2>4, <2>5, <2>6, <2>7, <2>8, MuteKeeps
  <1> QED
    BY <1>6, <1>7

LEMMA ModerationAuditsKeeps ==
    ASSUME ChatInv, NEW h \in Handlers, ModerationAudits(h)
    PROVE  ChatInv'
  <1>1. ChatTypes
    BY DEF ChatInv
  <1>2. /\ handler[h].pc = "audit" /\ chatNow' = chatNow /\ chatMemory' = chatMemory /\ past' = past
        /\ chatStore' = [chatStore EXCEPT !.audits = chatStore.audits + 1] /\ ChatEnds(h)
    BY DEF ModerationAudits, ChatAt
  <1>3. Idle \in ChatCall /\ Idle.pc = "idle" /\ handler' = [handler EXCEPT ![h] = Idle]
    BY <1>2, CallEnds
  <1>4. chatStore' \in ChatStores /\ chatStore'.timeouts = chatStore.timeouts
    <2>1. chatStore \in ChatStores
      BY <1>1 DEF ChatTypes
    <2> QED
      BY <1>2, <2>1 DEF ChatStores
  <1> QED
    BY <1>2, <1>3, <1>4, MovesKeeps

LEMMA EraseKeeps ==
    ASSUME ChatInv, NEW a \in Authors, EraseChatAccount(a)
    PROVE  ChatInv'
  <1> DEFINE mute == [who |-> a, at |-> chatNow, until |-> 0]
  <1>1. ChatTypes
    BY DEF ChatInv
  <1>2. /\ chatNow' = chatNow /\ chatMemory' = chatMemory /\ handler' = handler
        /\ past' = [past EXCEPT !.muted = Append(past.muted, mute)]
    BY DEF EraseChatAccount
  <1>3. mute \in Mute /\ mute.at = chatNow /\ mute.who = a /\ mute.until = 0
    BY <1>1 DEF ChatTypes, Mute, Senders
  <1>4. chatStore' \in ChatStores /\ chatStore'.timeouts = [chatStore.timeouts EXCEPT ![a] = 0]
    BY <1>1, StoreErased
  <1> HIDE DEF mute
  <1>5. chatStore'.timeouts = [chatStore.timeouts EXCEPT ![mute.who] = mute.until]
    BY <1>3, <1>4
  <1>6. CallsStay /\ handler' \in [Handlers -> ChatCall] /\ \A g \in Handlers : handler'[g] = handler[g]
    BY <1>1, <1>2 DEF CallsStay, ChatTypes
  <1> QED
    BY <1>2, <1>3, <1>4, <1>5, <1>6, MuteKeeps

LEMMA ChatRestartsKeeps ==
    ASSUME ChatInv, ChatRestarts
    PROVE  ChatInv'
  <1> DEFINE muted == IF chatStore.durable THEN past.muted ELSE <<>>
  <1>1. /\ ChatTypes /\ InOrder /\ OneMessagePerClaim /\ RateHeld /\ TimeoutsTell /\ MutedStaySilent
    BY DEF ChatInv
  <1>2. /\ chatNow' = chatNow /\ chatMemory' = ForgetfulMemory /\ handler' = [h \in Handlers |-> Idle]
        /\ past' = [past EXCEPT !.life = past.life + 1, !.muted = muted]
        /\ chatStore' = IF chatStore.durable THEN chatStore ELSE EmptyChatStore(FALSE)
    BY DEF ChatRestarts
  <1>3. chatNow \in Nat /\ chatStore \in ChatStores /\ past \in PastTypes /\ past.muted \in Seq(Mute) /\ past.life \in Nat
    BY <1>1 DEF ChatTypes, PastTypes
  <1>4. muted \in Seq(Mute)
    BY <1>3
  <1>5. chatStore.durable \/ muted = <<>>
    OBVIOUS
  <1>6. chatStore.durable => muted = past.muted
    OBVIOUS
  <1> HIDE DEF muted
  <1>7. /\ past'.said = past.said /\ past'.life = past.life + 1 /\ past'.muted = muted /\ past' \in PastTypes
    <2> DEFINE next == past.life + 1
    <2>1. next \in Nat
      BY <1>3
    <2>2. past' = [past EXCEPT !.life = next, !.muted = muted]
      BY <1>2
    <2> HIDE DEF next
    <2>3. past'.said = past.said /\ past'.life = next /\ past'.muted = muted /\ past' \in PastTypes
      BY <1>3, <1>4, <2>1, <2>2 DEF PastTypes
    <2> QED
      BY <2>3 DEF next
  <1>8. \A h \in Handlers : handler'[h] = Idle /\ handler'[h].pc = "idle"
    BY <1>2 DEF Idle
  <1>9. EmptyChatStore(FALSE) \in ChatStores /\ ForgetfulMemory \in ChatMemories
        /\ handler' \in [Handlers -> ChatCall]
    BY <1>2 DEF EmptyChatStore, ChatStores, Senders, ForgetfulMemory, ChatMemories, ChatCall
  <1>10. ChatTypes'
    BY <1>2, <1>3, <1>7, <1>9 DEF ChatTypes, PastTypes
  <1>11. \A i \in DOMAIN past.said : past.said[i].life \in Nat /\ past.said[i].life <= past.life
    <2>1. past.said \in Seq(Said)
      BY <1>1 DEF ChatTypes
    <2>2. \A i \in DOMAIN past.said : past.said[i] \in Said
      BY <2>1
    <2> QED
      BY <1>1, <2>2 DEF Said, InOrder
  <1>12. InOrder'
    <2>1. \A i \in DOMAIN past'.said :
              past'.said[i].at <= chatNow' /\ past'.said[i].life <= past'.life /\ past'.said[i].request.kind = "post"
      BY <1>1, <1>2, <1>3, <1>7, <1>11 DEF InOrder
    <2>2. \A k \in DOMAIN past'.muted : past'.muted[k].at <= chatNow'
      BY <1>1, <1>2, <1>5, <1>6, <1>7 DEF InOrder
    <2> QED
      BY <1>8, <2>1, <2>2 DEF InOrder
  <1>13. ClaimsAreSpent' /\ OneMessagePerClaim'
    <2>1. \A i \in DOMAIN past'.said : past'.said[i].life # past'.life
      BY <1>3, <1>7, <1>11
    <2> QED
      BY <1>1, <1>7, <1>8, <2>1 DEF ClaimsAreSpent, Reserved, OneMessagePerClaim
  <1>14. \A a \in Authors : \A times : Accepted(past', handler', a, times) = 0
    <2> SUFFICES ASSUME NEW a \in Authors, NEW times
                 PROVE  Accepted(past', handler', a, times) = 0
      OBVIOUS
    <2>1. SaidIn(past'.said, past'.life, a, times) = {}
      BY <1>3, <1>7, <1>11 DEF SaidIn
    <2>2. Waiting(handler', a, times) = {}
      BY <1>8 DEF Waiting
    <2>3. Cardinality({}) = 0
      BY FS_EmptySet
    <2>4. Accepted(past', handler', a, times) = Cardinality({}) + Cardinality({})
      BY <2>1, <2>2, Zenon DEF Accepted
    <2> QED
      BY <2>3, <2>4
  <1>15. RateKept'
    BY <1>14, ChatAssumption DEF RateKept
  <1>16. WindowsAreKept'
    <2> SUFFICES ASSUME NEW a \in Authors, NEW t \in Nat
                 PROVE  0 <= Cardinality(Stamps(chatMemory'.recent[a], From(t)))
      BY <1>14 DEF WindowsAreKept
    <2>1. chatMemory'.recent[a] \in Seq(Nat)
      BY <1>10 DEF ChatTypes, ChatMemories
    <2> QED
      BY <2>1, StampAppended
  <1>17. RateHeld'
    BY <1>1, <1>7 DEF RateHeld
  <1>18. CallsAreNotMuted'
    BY <1>8 DEF CallsAreNotMuted
  <1>19. TimeoutsTell' /\ MutedStaySilent'
    <2>1. CASE chatStore.durable
      BY <1>1, <1>2, <1>6, <1>7, <2>1 DEF TimeoutsTell, MutedStaySilent
    <2>2. CASE ~chatStore.durable
      <3>1. past'.muted = <<>> /\ DOMAIN past'.muted = {}
        BY <1>5, <1>7, <2>2
      <3>2. \A a, timeout, now : TimeoutTells(past'.muted, timeout, a, now)
        BY <3>1 DEF TimeoutTells
      <3>3. \A a, at : NotMuted(past'.muted, a, at)
        BY <3>1 DEF NotMuted
      <3> QED
        BY <3>2, <3>3 DEF TimeoutsTell, MutedStaySilent
    <2> QED
      BY <2>1, <2>2
  <1> QED
    BY <1>10, <1>12, <1>13, <1>15, <1>16, <1>17, <1>18, <1>19 DEF ChatInv

LEMMA ChatTimeKeeps ==
    ASSUME ChatInv, ChatTimePasses
    PROVE  ChatInv'
  <1>1. /\ ChatTypes /\ InOrder /\ ClaimsAreSpent /\ OneMessagePerClaim /\ WindowsAreKept /\ RateKept /\ RateHeld
        /\ CallsAreNotMuted /\ TimeoutsTell /\ MutedStaySilent
    BY DEF ChatInv
  <1>2. /\ chatNow' = chatNow + 1 /\ chatMemory' = chatMemory /\ handler' = handler /\ past' = past
        /\ chatStore' = chatStore
        /\ \A h \in Handlers : handler[h].pc # "idle" => chatNow - handler[h].at < MaxLatency
    BY DEF ChatTimePasses, ChatAt
  <1>3. chatNow \in Nat /\ chatNow' \in Nat /\ chatNow <= chatNow' /\ MaxLatency \in Nat /\ RateWindow \in Nat
    BY <1>1, <1>2, ChatAssumption DEF ChatTypes
  <1>4. ChatTypes'
    BY <1>1, <1>2, <1>3 DEF ChatTypes
  <1>5. InOrder'
    <2>1. \A h \in Handlers : handler[h].pc # "idle" => handler[h].at \in Nat
      BY <1>1, CallHolds
    <2>2. \A h \in Handlers : handler[h].pc # "idle" => handler[h].at <= chatNow' /\ chatNow' <= handler[h].at + MaxLatency
      BY <1>1, <1>2, <1>3, <2>1 DEF InOrder
    <2>3. \A i \in DOMAIN past.said : past.said[i].at \in Nat
      <3>1. past.said \in Seq(Said)
        BY <1>1 DEF ChatTypes
      <3>2. \A i \in DOMAIN past.said : past.said[i] \in Said
        BY <3>1
      <3> QED
        BY <3>2 DEF Said
    <2>4. \A k \in DOMAIN past.muted : past.muted[k].at \in Nat
      <3>1. past.muted \in Seq(Mute)
        BY <1>1 DEF ChatTypes
      <3>2. \A k \in DOMAIN past.muted : past.muted[k] \in Mute
        BY <3>1
      <3> QED
        BY <3>2 DEF Mute
    <2>5. /\ \A i \in DOMAIN past.said : past.said[i].at <= chatNow'
          /\ \A k \in DOMAIN past.muted : past.muted[k].at <= chatNow'
      BY <1>1, <1>3, <1>2, <2>3, <2>4 DEF InOrder
    <2> QED
      BY <1>1, <1>2, <2>2, <2>5 DEF InOrder
  <1>6. ClaimsAreSpent' /\ OneMessagePerClaim'
    <2>1. \A r \in ChatRequests : Spent(r) => Spent(r)'
      BY <1>2, <1>3, ChatAssumption DEF Spent, ChatRequests
    <2>2. \A h \in Handlers : Reserved(h) => handler[h].request \in ChatRequests
      BY <1>1, CallHolds DEF Reserved
    <2>3. \A i \in DOMAIN past.said : past.said[i].request \in ChatRequests
      <3>1. past.said \in Seq(Said)
        BY <1>1 DEF ChatTypes
      <3>2. \A i \in DOMAIN past.said : past.said[i] \in Said
        BY <3>1
      <3> QED
        BY <3>2 DEF Said
    <2>4. \A h \in Handlers : Reserved(h)' <=> Reserved(h)
      BY <1>2 DEF Reserved
    <2> QED
      BY <1>1, <1>2, <2>1, <2>2, <2>3, <2>4 DEF ClaimsAreSpent, OneMessagePerClaim
  <1>7. \A a \in Authors : \A times : Accepted(past', handler', a, times) = Accepted(past, handler, a, times)
    BY <1>2
  <1>8. \A a \in Authors, t \in Nat : t > chatNow' - RateWindow =>
            Cardinality(Stamps(chatMemory'.recent[a], From(t))) = Cardinality(Stamps(chatMemory.recent[a], From(t)))
    BY <1>2
  <1>9. WindowsAreKept' /\ RateKept' /\ RateHeld'
    <2>1. past'.said = past.said
      BY <1>2
    <2> QED
      BY <1>1, <1>3, <1>7, <1>8, <2>1, RatesKept
  <1>10. CallsStay
    BY <1>2 DEF CallsStay
  <1>11. CallsAreNotMuted' /\ TimeoutsTell' /\ MutedStaySilent'
    BY <1>1, <1>2, <1>3, <1>10, MutesKept
  <1> QED
    BY <1>4, <1>5, <1>6, <1>9, <1>11 DEF ChatInv

LEMMA ChatStepKeeps == ChatInv /\ [ChatNext]_chatVars => ChatInv'
  <1> SUFFICES ASSUME ChatInv, [ChatNext]_chatVars PROVE ChatInv'
    OBVIOUS
  <1>1. ASSUME NEW h \in Handlers, ChatStep(h) PROVE ChatInv'
    BY <1>1, PostArrivesKeeps, PostReservesKeeps, PostAppendsKeeps, PostVerifiedKeeps, ModerationVerifiedKeeps,
       ModerationArrivesKeeps, ModerationFindsKeeps, ModerationAppliesKeeps, ModerationAuditsKeeps DEF ChatStep
  <1>2. CASE UNCHANGED chatVars
    <2>1. /\ chatNow' = chatNow /\ chatMemory' = chatMemory /\ handler' = handler /\ past' = past
          /\ chatStore' = chatStore
      BY <1>2 DEF chatVars
    <2> QED
      BY <2>1 DEF ChatInv, ChatTypes, InOrder, ClaimsAreSpent, Reserved, Spent, OneMessagePerClaim, WindowsAreKept,
                  RateKept, RateHeld, CallsAreNotMuted, TimeoutsTell, MutedStaySilent
  <1> QED
    BY <1>1, <1>2, EraseKeeps, ChatRestartsKeeps, ChatTimeKeeps DEF ChatNext

LEMMA ChatInvariant == ChatSpec => []ChatInv
  BY ChatStart, ChatStepKeeps, PTL DEF ChatSpec

\* In every run of the chat, with any authors, limits, latency and finite number of requests
\* under way: a signed claim posts one message in the life of a process, no author is over the
\* rate within a window, and what a muted author sent is not said (ChatService.post).
THEOREM ChatKept == ChatSpec => []ChatHolds
  <1>1. ChatInv => ChatHolds
    BY DEF ChatInv, ChatHolds
  <1> QED
    BY <1>1, ChatInvariant, PTL

-------------------------------------------------------------------------------
(* PoolTrading. *)

\* What there was of each position at the start, and the sets minted since, less those
\* burned, are in the pool or with the trader, who paid for each set.
PoolFrom(x, y, minted) ==
    /\ reserve["A"] + held["A"] = x + minted
    /\ reserve["B"] + held["B"] = y + minted
    /\ x * y <= reserve["A"] * reserve["B"]
    /\ minted <= spent

PoolInv ==
    /\ reserve \in [Side -> Nat \ {0}]
    /\ held \in [Side -> Nat]
    /\ spent \in Int
    /\ \E x, y \in Nat \ {0}, minted \in Int : PoolFrom(x, y, minted)

LEMMA PoolStart ==
    ASSUME PoolInit
    PROVE  PoolInv
  <1>1. reserve \in [Side -> Nat \ {0}] /\ held = [s \in Side |-> 0] /\ spent = 0
    BY PoolAssumption DEF PoolInit
  <1>2. PoolFrom(reserve["A"], reserve["B"], 0)
    BY <1>1, ProductNat DEF PoolFrom, Side
  <1>3. reserve["A"] \in Nat \ {0} /\ reserve["B"] \in Nat \ {0}
    BY <1>1 DEF Side
  <1> QED
    BY <1>1, <1>2, <1>3 DEF PoolInv

\* A product of naturals that is not 0 has no factor 0.
LEMMA PositiveFactors ==
    ASSUME NEW x \in Nat \ {0}, NEW y \in Nat \ {0}, NEW a \in Nat, NEW b \in Nat, x * y <= a * b
    PROVE  a # 0 /\ b # 0
  <1>1. x * 1 <= x * y
    BY ProductMonotone
  <1>2. x * y \in Nat
    BY ProductNat
  <1> QED
    BY <1>1, <1>2

\* A trade that mints sets (or burns them) and passes positions of one side to the
\* trader (or from it), for no less than the sets minted.
LEMMA TradeKeeps ==
    ASSUME PoolInv, NEW s \in Side, NEW sets \in Int, NEW passed \in Int,
           reserve' \in [Side -> Nat], held' \in [Side -> Nat], spent' \in Int,
           reserve'[s] + passed = reserve[s] + sets,
           reserve'[Other(s)] = reserve[Other(s)] + sets,
           held'[s] = held[s] + passed,
           held'[Other(s)] = held[Other(s)],
           spent + sets <= spent',
           reserve[s] * reserve[Other(s)] <= reserve'[s] * reserve'[Other(s)]
    PROVE  PoolInv'
  <1>1. PICK x \in Nat \ {0}, y \in Nat \ {0}, minted \in Int : PoolFrom(x, y, minted)
    BY DEF PoolInv
  <1> DEFINE a == reserve["A"]
             b == reserve["B"]
             a1 == reserve'["A"]
             b1 == reserve'["B"]
             ha == held["A"]
             hb == held["B"]
             ha1 == held'["A"]
             hb1 == held'["B"]
             m == minted + sets
  <1>2. /\ a \in Nat /\ b \in Nat /\ a1 \in Nat /\ b1 \in Nat /\ spent \in Int
        /\ ha \in Nat /\ hb \in Nat /\ ha1 \in Nat /\ hb1 \in Nat
    BY DEF PoolInv, Side
  <1>3. a + ha = x + minted /\ b + hb = y + minted /\ x * y <= a * b /\ minted <= spent
    BY <1>1 DEF PoolFrom
  <1>4. a1 + ha1 = a + ha + sets /\ b1 + hb1 = b + hb + sets /\ a * b <= a1 * b1
    <2>1. CASE s = "A"
      <3>1. Other(s) = "B"
        BY <2>1 DEF Other
      <3>2. a1 + passed = a + sets /\ b1 = b + sets /\ a * b <= a1 * b1
        BY <2>1, <3>1
      <3>3. ha1 = ha + passed /\ hb1 = hb
        BY <2>1, <3>1
      <3> HIDE DEF a, b, a1, b1, ha, hb, ha1, hb1
      <3> QED
        BY <1>2, <3>2, <3>3
    <2>2. CASE s = "B"
      <3>1. Other(s) = "A"
        BY <2>2 DEF Other
      <3>2. b1 + passed = b + sets /\ a1 = a + sets /\ b * a <= b1 * a1
        BY <2>2, <3>1
      <3>3. hb1 = hb + passed /\ ha1 = ha
        BY <2>2, <3>1
      <3> HIDE DEF a, b, a1, b1, ha, hb, ha1, hb1
      <3>4. a * b = b * a /\ a1 * b1 = b1 * a1
        BY <1>2
      <3> QED
        BY <1>2, <3>2, <3>3, <3>4
    <2> QED
      BY <2>1, <2>2 DEF Side
  <1>5. x * y <= a1 * b1
    <2>1. x * y \in Nat /\ a * b \in Nat /\ a1 * b1 \in Nat
      BY <1>2, ProductNat
    <2> QED
      BY <1>3, <1>4, <2>1
  <1>6. a1 # 0 /\ b1 # 0
    BY <1>2, <1>5, PositiveFactors
  <1>7. m \in Int /\ a1 + ha1 = x + m /\ b1 + hb1 = y + m /\ m <= spent'
    BY <1>2, <1>3, <1>4
  <1>8. PoolFrom(x, y, m)'
    BY <1>5, <1>7 DEF PoolFrom
  <1>9. reserve' \in [Side -> Nat \ {0}]
    BY <1>6 DEF Side
  <1> HIDE DEF m, a, b, a1, b1, ha, hb, ha1, hb1
  <1> QED
    BY <1>7, <1>8, <1>9 DEF PoolInv

LEMMA SideOther ==
    ASSUME NEW s \in Side
    PROVE  Other(s) \in Side /\ Other(s) # s /\ Side = {s, Other(s)}
  BY DEF Side, Other

LEMMA BuyKeepsPool ==
    ASSUME PoolInv, NEW s \in Side, NEW budget \in TradeAmounts, Buy(s, budget)
    PROVE  PoolInv'
  <1> DEFINE q == QuoteBuy(reserve[s], reserve[Other(s)], budget)
  <1>1. /\ reserve[s] \in Nat /\ reserve[Other(s)] \in Nat /\ budget \in Nat \ {0}
        /\ held[s] \in Nat /\ held[Other(s)] \in Nat /\ spent \in Int
    BY SideOther, PoolAssumption DEF PoolInv
  <1>2. SoundBuy(q, reserve[s], reserve[Other(s)], budget)
    BY <1>1, QuoteBuySound
  <1>3. /\ Quoted(s, q)
        /\ held' = [held EXCEPT ![s] = @ + q.positionsOut]
        /\ spent' = spent + budget
    BY DEF Buy
  <1> HIDE DEF q
  <1>4. /\ q.tradeInput \in Nat /\ q.tradeInput <= budget /\ q.positionsOut \in Nat
        /\ q.newSelectedReserve \in Nat /\ q.newOtherReserve \in Nat
        /\ q.newSelectedReserve + q.positionsOut = reserve[s] + q.tradeInput
        /\ q.newOtherReserve = reserve[Other(s)] + q.tradeInput
        /\ reserve[s] * reserve[Other(s)] <= q.newSelectedReserve * q.newOtherReserve
    BY <1>1, <1>2 DEF SoundBuy
  <1>5. /\ reserve' \in [Side -> Nat]
        /\ reserve'[s] = q.newSelectedReserve /\ reserve'[Other(s)] = q.newOtherReserve
    BY <1>3, <1>4, SideOther DEF Quoted
  <1>6. /\ held' \in [Side -> Nat]
        /\ held'[s] = held[s] + q.positionsOut /\ held'[Other(s)] = held[Other(s)]
    BY <1>1, <1>3, <1>4, SideOther DEF PoolInv
  <1>7. spent' \in Int /\ spent + q.tradeInput <= spent'
    BY <1>1, <1>3, <1>4
  <1> QED
    BY <1>4, <1>5, <1>6, <1>7, TradeKeeps

LEMMA SellKeepsPool ==
    ASSUME PoolInv, NEW s \in Side, NEW amount \in TradeAmounts, Sell(s, amount)
    PROVE  PoolInv'
  <1> DEFINE q == QuoteSell(reserve[s], reserve[Other(s)], amount)
  <1>1. /\ reserve[s] \in Nat /\ reserve[Other(s)] \in Nat /\ amount \in Nat
        /\ held[s] \in Nat /\ held[Other(s)] \in Nat /\ spent \in Int
    BY SideOther, PoolAssumption DEF PoolInv
  <1>2. SoundSell(q, reserve[s], reserve[Other(s)], amount)
    BY <1>1, QuoteSellSound
  <1>3. /\ amount <= held[s]
        /\ Quoted(s, q)
        /\ held' = [held EXCEPT ![s] = @ - amount]
        /\ spent' = spent - q.collateralOut
    BY DEF Sell
  <1> HIDE DEF q
  <1>4. /\ q.grossCollateral \in Nat /\ q.collateralOut \in Nat /\ q.collateralOut <= q.grossCollateral
        /\ q.newSelectedReserve \in Nat /\ q.newOtherReserve \in Nat
        /\ q.newSelectedReserve + q.grossCollateral = reserve[s] + amount
        /\ q.newOtherReserve + q.grossCollateral = reserve[Other(s)]
        /\ reserve[s] * reserve[Other(s)] <= q.newSelectedReserve * q.newOtherReserve
    BY <1>2 DEF SoundSell
  <1>5. /\ reserve' \in [Side -> Nat]
        /\ reserve'[s] = q.newSelectedReserve /\ reserve'[Other(s)] = q.newOtherReserve
    BY <1>3, <1>4, SideOther DEF Quoted
  <1>6. /\ held' \in [Side -> Nat]
        /\ held'[s] = held[s] - amount /\ held'[Other(s)] = held[Other(s)]
    BY <1>1, <1>3, SideOther DEF PoolInv
  <1> DEFINE sets == -q.grossCollateral
             passed == -amount
  <1>7. /\ sets \in Int /\ passed \in Int
        /\ spent' \in Int /\ spent + sets <= spent'
        /\ q.newSelectedReserve + passed = reserve[s] + sets
        /\ q.newOtherReserve = reserve[Other(s)] + sets
        /\ held[s] - amount = held[s] + passed
    BY <1>1, <1>3, <1>4
  <1> HIDE DEF sets, passed
  <1> QED
    BY <1>4, <1>5, <1>6, <1>7, TradeKeeps

\* Pool and trader have each position that was there or was minted and is not burned.
THEOREM PoolInvariant == PoolSpec => []PoolInv
  <1>1. PoolInv /\ [PoolNext]_poolTradingVars => PoolInv'
    <2>1. ASSUME PoolInv, PoolNext PROVE PoolInv'
      BY <2>1, BuyKeepsPool, SellKeepsPool DEF PoolNext
    <2>2. ASSUME PoolInv, UNCHANGED poolTradingVars PROVE PoolInv'
      BY <2>2 DEF PoolInv, PoolFrom, poolTradingVars
    <2> QED
      BY <2>1, <2>2
  <1> QED
    BY <1>1, PoolStart, PTL DEF PoolSpec

\* A trader who holds more sets than were minted would have left less in the pool
\* of either position than there was.
LEMMA SetsArePaidFor ==
    ASSUME PoolInv
    PROVE  NoRiskFreeProfit
  <1>1. PICK x \in Nat \ {0}, y \in Nat \ {0}, minted \in Int : PoolFrom(x, y, minted)
    BY DEF PoolInv
  <1> DEFINE a == reserve["A"]
             b == reserve["B"]
             ha == held["A"]
             hb == held["B"]
  <1>2. a \in Nat /\ b \in Nat /\ ha \in Nat /\ hb \in Nat /\ spent \in Int
    BY DEF PoolInv, Side
  <1>3. a + ha = x + minted /\ b + hb = y + minted /\ x * y <= a * b /\ minted <= spent
    BY <1>1 DEF PoolFrom
  <1>4. ha <= minted \/ hb <= minted
    <2> SUFFICES ASSUME minted < ha, minted < hb PROVE FALSE
      BY <1>2
    <2> HIDE DEF a, b, ha, hb
    <2>1. a <= x - 1 /\ x - 1 \in Nat /\ b <= y
      BY <1>2, <1>3
    <2>2. a * b <= a * y /\ y * a <= y * (x - 1)
      BY <1>2, <2>1, ProductMonotone
    <2>3. a * y = y * a /\ y * (x - 1) = x * y - y
      BY <1>2
    <2>4. a * b \in Nat /\ a * y \in Nat /\ x * y \in Nat
      BY <1>2, ProductNat
    <2> QED
      BY <1>3, <2>2, <2>3, <2>4
  <1> QED
    BY <1>2, <1>3, <1>4 DEF NoRiskFreeProfit

LEMMA PoolQuotesTightly ==
    ASSUME PoolInv
    PROVE  QuotesAreTight
  <1> SUFFICES ASSUME NEW s \in Side, NEW amount \in TradeAmounts
               PROVE  LET x == reserve[s]
                          y == reserve[Other(s)]
                          buy == QuoteBuy(x, y, amount)
                          sell == QuoteSell(x, y, amount)
                      IN  /\ (x + buy.tradeInput - (buy.positionsOut + 1)) * (y + buy.tradeInput) < x * y
                          /\ LET g == sell.grossCollateral + 1
                             IN  y - g < 0 \/ (x + amount - g) * (y - g) < x * y
    BY DEF QuotesAreTight
  <1>1. reserve[s] \in Nat \ {0} /\ reserve[Other(s)] \in Nat \ {0} /\ amount \in Nat \ {0}
    BY SideOther, PoolAssumption DEF PoolInv
  <1>2. TightBuy(QuoteBuy(reserve[s], reserve[Other(s)], amount), reserve[s], reserve[Other(s)])
    BY <1>1, QuoteBuyTight
  <1>3. TightSell(QuoteSell(reserve[s], reserve[Other(s)], amount),
                  reserve[s], reserve[Other(s)], amount)
    BY <1>1, QuoteSellTight
  <1> QED
    BY <1>2, <1>3 DEF TightBuy, TightSell

\* However often it trades, a trader gets no set out of a pool that it did not pay for, and
\* each of its quotes is the best the product of the reserves allows (quoteBuy, quoteSell).
THEOREM PoolKept == PoolSpec => [](QuotesAreTight /\ NoRiskFreeProfit)
  <1>1. PoolInv => QuotesAreTight /\ NoRiskFreeProfit
    BY SetsArePaidFor, PoolQuotesTightly
  <1> QED
    BY <1>1, PoolInvariant, PTL

-------------------------------------------------------------------------------
(* LpFeeLedger. *)

\* What n roundings can come to, in parts of a unit.
Drift(n) == n * (FEE_SCALE - 1)

\* What a provider's credit and shares are worth before rounding, in parts of a unit.
Worth(credit, shares, perShare, debt) == FEE_SCALE * credit + shares * perShare - FEE_SCALE * debt
Due(u) == Worth(lpFeeCredit[u], lpSharesOf[u], feePerShare, lpFeeDebt[u])
Dues == [u \in Users |-> Due(u)]

\* A provider is due what its shares earned, but for one rounding at each deposit after
\* the first that it lost, and one at each deposit that it gained.
ProviderOK(u) ==
    /\ FEE_SCALE * lpFeeDebt[u] <= lpSharesOf[u] * feePerShare
    /\ deposits[u] = 0 => lpSharesOf[u] = 0 /\ lpFeeCredit[u] = 0 /\ earned[u] = 0
    /\ deposits[u] # 0 => /\ Due(u) <= earned[u] + Drift(deposits[u])
                          /\ earned[u] <= Due(u) + Drift(deposits[u] - 1)

\* The first deposit rounds nothing, because no fee can have been charged before it.
DuesCovered ==
    LET n == SumFunction(deposits)
    IN  SumFunction(Dues) <= FEE_SCALE * unclaimedLpFees + (IF n = 0 THEN 0 ELSE Drift(n - 1))

FeeTypeOK == LpTypeOK /\ deposits \in [Users -> Nat] /\ earned \in [Users -> Int]

FeeInv ==
    /\ FeeTypeOK
    /\ \A u \in Users : ProviderOK(u)
    /\ totalLpShares = SumFunction(lpSharesOf)
    /\ totalLpShares = 0 => feePerShare = 0
    /\ SumFunction(deposits) = 0 => totalLpShares = 0
    /\ DuesCovered

LEMMA DriftGrows ==
    ASSUME NEW n \in Nat
    PROVE  /\ Drift(n) \in Nat /\ Drift(0) = 0
           /\ Drift(n + 1) = Drift(n) + (FEE_SCALE - 1)
           /\ Drift(n) <= FEE_SCALE * n
           /\ n # 0 => Drift(n) < FEE_SCALE * n
  <1>1. FEE_SCALE - 1 \in Nat /\ FEE_SCALE \in Nat
    BY ScaleAssumption
  <1>2. n * (FEE_SCALE - 1) \in Nat /\ FEE_SCALE * n \in Nat
    BY <1>1, ProductNat
  <1>3. n * (FEE_SCALE - 1) = FEE_SCALE * n - n
    BY <1>1
  <1>4. (n + 1) * (FEE_SCALE - 1) = n * (FEE_SCALE - 1) + (FEE_SCALE - 1)
    BY <1>1
  <1>5. 0 * (FEE_SCALE - 1) = 0
    BY <1>1
  <1> QED
    BY <1>1, <1>2, <1>3, <1>4, <1>5 DEF Drift

\* What can be claimed is what is due, rounded down.
LEMMA WorthRounds ==
    ASSUME NEW credit \in Nat, NEW shares \in Nat, NEW perShare \in Nat, NEW debt \in Nat,
           FEE_SCALE * debt <= shares * perShare,
           NEW total, total = MulDiv(shares, perShare, FEE_SCALE)
    PROVE  /\ total \in Nat /\ debt <= total
           /\ FEE_SCALE * total <= shares * perShare
           /\ shares * perShare < FEE_SCALE * total + FEE_SCALE
           /\ Worth(credit, shares, perShare, debt) \in Nat
           /\ FEE_SCALE * (credit + total - debt) <= Worth(credit, shares, perShare, debt)
           /\ Worth(credit, shares, perShare, debt)
                < FEE_SCALE * (credit + total - debt) + FEE_SCALE
  <1> DEFINE p == shares * perShare
  <1>1. p \in Nat /\ total = p \div FEE_SCALE
    BY ProductNat DEF MulDiv
  <1> HIDE DEF p
  <1>2. total \in Nat /\ FEE_SCALE * total <= p /\ p < FEE_SCALE * total + FEE_SCALE
    BY <1>1, ScaleAssumption, DivBounds
  <1>3. debt <= total
    <2> SUFFICES ASSUME total < debt PROVE FALSE
      BY <1>2
    <2>1. FEE_SCALE * (total + 1) <= FEE_SCALE * debt
      BY <1>2, ScaleAssumption, ProductMonotone
    <2>2. FEE_SCALE * (total + 1) = FEE_SCALE * total + FEE_SCALE
      BY <1>2, ScaleAssumption
    <2>3. FEE_SCALE * debt \in Nat /\ FEE_SCALE * total \in Nat /\ FEE_SCALE \in Nat
      BY <1>2, ScaleAssumption, ProductNat
    <2>4. FEE_SCALE * debt <= p
      BY DEF p
    <2> QED
      BY <1>1, <1>2, <2>1, <2>2, <2>3, <2>4
  <1>4. FEE_SCALE * (credit + total - debt)
          = FEE_SCALE * credit + FEE_SCALE * total - FEE_SCALE * debt
    BY <1>2, ScaleAssumption
  <1>5. /\ FEE_SCALE * credit \in Nat /\ FEE_SCALE * total \in Nat /\ FEE_SCALE * debt \in Nat
        /\ FEE_SCALE \in Nat
    BY <1>2, ScaleAssumption, ProductNat
  <1>6. Worth(credit, shares, perShare, debt) = FEE_SCALE * credit + p - FEE_SCALE * debt
    BY DEF Worth, p
  <1>7. FEE_SCALE * debt <= p
    BY DEF p
  <1>8. /\ FEE_SCALE * credit + p - FEE_SCALE * debt \in Nat
        /\ FEE_SCALE * credit + FEE_SCALE * total - FEE_SCALE * debt
             <= FEE_SCALE * credit + p - FEE_SCALE * debt
        /\ FEE_SCALE * credit + p - FEE_SCALE * debt
             < FEE_SCALE * credit + FEE_SCALE * total - FEE_SCALE * debt + FEE_SCALE
    BY <1>1, <1>2, <1>5, <1>7
  <1> QED
    BY <1>2, <1>3, <1>4, <1>6, <1>8 DEF p

LEMMA AccruedIsDue ==
    ASSUME LpTypeOK, NEW u \in Users, FEE_SCALE * lpFeeDebt[u] <= lpSharesOf[u] * feePerShare
    PROVE  /\ Accumulated(u) \in Nat /\ lpFeeDebt[u] <= Accumulated(u)
           /\ Accrued(u) \in Nat /\ Accrued(u) = lpFeeCredit[u] + Accumulated(u) - lpFeeDebt[u]
           /\ Due(u) \in Nat
           /\ FEE_SCALE * Accrued(u) <= Due(u)
           /\ Due(u) <= FEE_SCALE * Accrued(u) + (FEE_SCALE - 1)
           /\ FEE_SCALE * Accrued(u) \in Nat
  <1>1. /\ lpFeeCredit[u] \in Nat /\ lpSharesOf[u] \in Nat /\ feePerShare \in Nat
        /\ lpFeeDebt[u] \in Nat
    BY DEF LpTypeOK
  <1> DEFINE total == Accumulated(u)
             rest == lpFeeCredit[u] + total - lpFeeDebt[u]
  <1>2. total = MulDiv(lpSharesOf[u], feePerShare, FEE_SCALE)
    BY DEF Accumulated
  <1>3. /\ total \in Nat /\ lpFeeDebt[u] <= total
        /\ Due(u) \in Nat /\ FEE_SCALE * rest <= Due(u)
        /\ Due(u) < FEE_SCALE * rest + FEE_SCALE
    <2> HIDE DEF total
    <2> QED
      BY <1>1, <1>2, WorthRounds DEF Due
  <1>4. Accrued(u) = rest
    <2>1. Accrued(u) = lpFeeCredit[u] + (IF total > lpFeeDebt[u] THEN total - lpFeeDebt[u] ELSE 0)
      BY DEF Accrued
    <2> HIDE DEF total
    <2> QED
      BY <1>1, <1>3, <2>1
  <1>5. rest \in Nat
    BY <1>1, <1>3
  <1> HIDE DEF rest
  <1>6. FEE_SCALE * rest \in Nat /\ FEE_SCALE \in Nat
    BY <1>5, ScaleAssumption, ProductNat
  <1>7. Due(u) <= FEE_SCALE * rest + (FEE_SCALE - 1)
    BY <1>3, <1>6
  <1> QED
    BY <1>3, <1>4, <1>5, <1>6, <1>7 DEF rest

LEMMA FeeStart ==
    ASSUME FeeInit
    PROVE  FeeInv
  <1>1. FeeTypeOK
    BY DEF FeeInit, LpInit, FeeTypeOK, LpTypeOK
  <1>2. ASSUME NEW u \in Users PROVE Due(u) = 0 /\ ProviderOK(u)
    BY ScaleAssumption DEF FeeInit, LpInit, Due, Worth, ProviderOK
  <1>3. /\ SumFunction(lpSharesOf) = 0 /\ SumFunction(deposits) = 0 /\ SumFunction(Dues) = 0
    <2>1. Dues = [u \in Users |-> 0]
      BY <1>2 DEF Dues
    <2> QED
      BY <2>1, LedgerAssumption, SumZero DEF FeeInit, LpInit
  <1>4. DuesCovered
    BY <1>3, ScaleAssumption DEF DuesCovered, FeeInit, LpInit
  <1> QED
    BY <1>1, <1>2, <1>3, <1>4 DEF FeeInv, FeeInit, LpInit

LEMMA DuesType ==
    ASSUME FeeTypeOK, \A u \in Users : ProviderOK(u)
    PROVE  Dues \in [Users -> Nat] /\ SumFunction(Dues) \in Nat
           /\ SumFunction(deposits) \in Nat /\ SumFunction(lpSharesOf) \in Nat
  <1>1. \A u \in Users : Due(u) \in Nat
    BY AccruedIsDue DEF FeeTypeOK, ProviderOK
  <1>2. Dues \in [Users -> Nat]
    BY <1>1 DEF Dues
  <1>3. ASSUME NEW f \in [Users -> Nat] PROVE SumFunction(f) \in Nat
    BY SumLinear, LedgerAssumption
  <1> QED
    BY <1>2, <1>3 DEF FeeTypeOK, LpTypeOK

\* A deposit credits what can be claimed and marks the shares up to now: for the provider
\* one rounding is forgotten and another comes instead.
LEMMA DepositRounds ==
    ASSUME FeeInv, NEW u \in Users, NEW shares \in Nat, MintShares(u, shares)
    PROVE  /\ FEE_SCALE * lpFeeDebt'[u] <= lpSharesOf'[u] * feePerShare'
           /\ Due(u)' \in Nat
           /\ Due(u)' <= Due(u) + (FEE_SCALE - 1)
           /\ Due(u) <= Due(u)' + (FEE_SCALE - 1)
           /\ feePerShare = 0 => Due(u)' <= Due(u)
           /\ lpSharesOf[u] = 0 /\ lpFeeCredit[u] = 0 => Due(u) = 0
  <1> DEFINE s == lpSharesOf[u] + shares
             c == Accrued(u)
             f == feePerShare
             total == MulDiv(s, f, FEE_SCALE)
  <1>1. /\ lpSharesOf[u] \in Nat /\ f \in Nat /\ s \in Nat
        /\ lpFeeCredit[u] \in Nat /\ lpFeeDebt[u] \in Nat
        /\ FEE_SCALE * lpFeeDebt[u] <= lpSharesOf[u] * f
    BY DEF FeeInv, FeeTypeOK, LpTypeOK, ProviderOK
  <1>2. /\ lpFeeCredit'[u] = c /\ lpSharesOf'[u] = s /\ lpFeeDebt'[u] = total
        /\ feePerShare' = f
    BY DEF MintShares, FeeInv, FeeTypeOK, LpTypeOK
  <1>3. /\ c \in Nat /\ FEE_SCALE * c \in Nat /\ Due(u) \in Nat
        /\ FEE_SCALE * c <= Due(u) /\ Due(u) <= FEE_SCALE * c + (FEE_SCALE - 1)
    BY AccruedIsDue DEF FeeInv, FeeTypeOK, ProviderOK
  <1>4. /\ total \in Nat /\ FEE_SCALE * total <= s * f /\ s * f < FEE_SCALE * total + FEE_SCALE
        /\ FEE_SCALE * total \in Nat /\ s * f \in Nat /\ FEE_SCALE \in Nat \ {0}
    <2>1. FEE_SCALE * 0 = 0 /\ FEE_SCALE \in Nat \ {0} /\ s * f \in Nat
      BY <1>1, ScaleAssumption, ProductNat
    <2>2. FEE_SCALE * 0 <= s * f
      BY <2>1
    <2> HIDE DEF s, f
    <2>3. total \in Nat /\ FEE_SCALE * total <= s * f /\ s * f < FEE_SCALE * total + FEE_SCALE
      BY <1>1, <2>2, WorthRounds
    <2> QED
      BY <2>1, <2>3, ProductNat
  <1>5. Due(u)' = FEE_SCALE * c + s * f - FEE_SCALE * total
    BY <1>2 DEF Due, Worth
  <1> DEFINE over == s * f - FEE_SCALE * total
  <1>6. over \in Nat /\ over <= FEE_SCALE - 1 /\ Due(u)' = FEE_SCALE * c + over
    <2>1. over \in Nat /\ over <= FEE_SCALE - 1
      BY <1>4
    <2>2. FEE_SCALE * c + s * f - FEE_SCALE * total = FEE_SCALE * c + over
      BY <1>3, <1>4
    <2> QED
      BY <1>5, <2>1, <2>2
  <1>7. f = 0 => over = 0
    <2>1. f = 0 => s * f = 0
      BY <1>1
    <2> HIDE DEF total, s, f
    <2> QED
      BY <1>4, <2>1
  <1>8. lpSharesOf[u] = 0 /\ lpFeeCredit[u] = 0 => Due(u) = 0
    <2> SUFFICES ASSUME lpSharesOf[u] = 0, lpFeeCredit[u] = 0 PROVE Due(u) = 0
      OBVIOUS
    <2>1. lpSharesOf[u] * f = 0 /\ FEE_SCALE * lpFeeCredit[u] = 0
      BY <1>1, <1>4
    <2>2. FEE_SCALE * lpFeeDebt[u] \in Nat
      BY <1>1, <1>4, ProductNat
    <2>3. FEE_SCALE * lpFeeDebt[u] = 0
      BY <1>1, <2>1, <2>2
    <2> QED
      BY <2>1, <2>3 DEF Due, Worth
  <1>9. FEE_SCALE * lpFeeDebt'[u] <= lpSharesOf'[u] * feePerShare'
    BY <1>2, <1>4
  <1> DEFINE due == Due(u)
             due1 == Due(u)'
             k == FEE_SCALE * c
  <1>10. due1 = k + over /\ due \in Nat /\ k \in Nat /\ k <= due /\ due <= k + (FEE_SCALE - 1)
    BY <1>3, <1>6
  <1> HIDE DEF over, due, due1, k
  <1>11. /\ due1 \in Nat /\ due1 <= due + (FEE_SCALE - 1) /\ due <= due1 + (FEE_SCALE - 1)
         /\ over = 0 => due1 <= due
    BY <1>4, <1>6, <1>10
  <1> QED
    BY <1>7, <1>8, <1>9, <1>11 DEF due, due1

\* Another provider's transaction leaves a provider's account as it was.
SameAccount(v) ==
    /\ lpSharesOf'[v] = lpSharesOf[v] /\ lpFeeCredit'[v] = lpFeeCredit[v]
    /\ lpFeeDebt'[v] = lpFeeDebt[v] /\ earned'[v] = earned[v] /\ deposits'[v] = deposits[v]

LEMMA OtherProvider ==
    ASSUME NEW v \in Users, ProviderOK(v), SameAccount(v), feePerShare' = feePerShare
    PROVE  ProviderOK(v)' /\ Due(v)' = Due(v)
  BY DEF SameAccount, ProviderOK, Due, Worth

LEMMA DepositProviders ==
    ASSUME FeeInv, NEW u \in Users, Deposit(u)
    PROVE  \A v \in Users : ProviderOK(v)'
  <1>1. PICK shares \in ShareAmounts : MintShares(u, shares)
    BY DEF Deposit
  <1>2. shares \in Nat
    BY <1>1, LedgerAssumption
  <1>3. deposits' = [deposits EXCEPT ![u] = @ + 1] /\ earned' = earned
    BY DEF Deposit
  <1>4. ASSUME NEW v \in Users \ {u} PROVE ProviderOK(v)'
    <2>1. SameAccount(v) /\ feePerShare' = feePerShare
      BY <1>1, <1>3 DEF SameAccount, MintShares, FeeInv, FeeTypeOK, LpTypeOK
    <2> QED
      BY <2>1, OtherProvider DEF FeeInv
  <1> DEFINE d == deposits[u]
             due == Due(u)
             due1 == Due(u)'
             e == earned[u]
  <1>5. /\ d \in Nat /\ deposits'[u] = d + 1 /\ earned'[u] = e /\ e \in Int
    BY <1>3 DEF FeeInv, FeeTypeOK
  <1>6. /\ FEE_SCALE * lpFeeDebt'[u] <= lpSharesOf'[u] * feePerShare'
        /\ due1 \in Nat /\ due1 <= due + (FEE_SCALE - 1) /\ due <= due1 + (FEE_SCALE - 1)
        /\ lpSharesOf[u] = 0 /\ lpFeeCredit[u] = 0 => due = 0
    BY <1>1, <1>2, DepositRounds
  <1>7. due \in Nat
    BY AccruedIsDue DEF FeeInv, FeeTypeOK, ProviderOK
  <1>8. /\ d = 0 => due = 0 /\ e = 0
        /\ d # 0 => due <= e + Drift(d) /\ e <= due + Drift(d - 1)
    BY <1>6 DEF FeeInv, ProviderOK
  <1> HIDE DEF d, due, due1, e
  <1>9. due1 <= e + Drift(d + 1) /\ e <= due1 + Drift(d)
    <2>1. /\ Drift(d) \in Nat /\ Drift(d + 1) = Drift(d) + (FEE_SCALE - 1)
          /\ FEE_SCALE - 1 \in Nat
          /\ d = 0 => Drift(d) = 0
      <3>1. FEE_SCALE - 1 \in Nat
        BY ScaleAssumption
      <3> QED
        BY <1>5, <3>1, DriftGrows
    <2>2. CASE d = 0
      BY <1>5, <1>6, <1>7, <1>8, <2>1, <2>2
    <2>3. CASE d # 0
      <3>1. d - 1 \in Nat /\ (d - 1) + 1 = d
        BY <1>5, <2>3
      <3>2. Drift(d - 1) \in Nat /\ Drift(d) = Drift(d - 1) + (FEE_SCALE - 1)
        BY <3>1, DriftGrows
      <3> QED
        BY <1>5, <1>6, <1>7, <1>8, <2>1, <2>3, <3>2
    <2> QED
      BY <2>2, <2>3
  <1>10. (d + 1) - 1 = d /\ d + 1 # 0
    BY <1>5
  <1>11. ProviderOK(u)'
    <2>1. /\ due1 <= earned'[u] + Drift(deposits'[u])
          /\ earned'[u] <= due1 + Drift(deposits'[u] - 1)
          /\ deposits'[u] # 0
      BY <1>5, <1>9, <1>10
    <2> QED
      BY <1>6, <2>1 DEF ProviderOK, due1
  <1> QED
    BY <1>4, <1>11

LEMMA DepositKeepsFees ==
    ASSUME FeeInv, NEW u \in Users, Deposit(u)
    PROVE  FeeInv'
  <1>1. PICK shares \in ShareAmounts : MintShares(u, shares)
    BY DEF Deposit
  <1>2. shares \in Nat
    BY <1>1, LedgerAssumption
  <1>3. deposits' = [deposits EXCEPT ![u] = @ + 1] /\ earned' = earned
    BY DEF Deposit
  <1>4. FeeTypeOK'
    <2>1. LpTypeOK'
      BY <1>1, <1>2, MintKeepsType DEF FeeInv, FeeTypeOK
    <2> QED
      BY <1>3, <2>1 DEF FeeInv, FeeTypeOK
  <1>5. \A v \in Users : ProviderOK(v)'
    BY DepositProviders
  <1>6. /\ Dues \in [Users -> Nat] /\ Dues' \in [Users -> Nat]
        /\ SumFunction(Dues) \in Nat /\ SumFunction(Dues)' \in Nat
        /\ SumFunction(deposits) \in Nat
    <2>1. \A v \in Users : Due(v)' \in Nat
      <3>1. ASSUME NEW v \in Users \ {u} PROVE Due(v)' = Due(v) /\ Due(v) \in Nat
        <4>1. SameAccount(v) /\ feePerShare' = feePerShare
          BY <1>1, <1>3 DEF SameAccount, MintShares, FeeInv, FeeTypeOK, LpTypeOK
        <4> QED
          BY <4>1, OtherProvider, AccruedIsDue DEF FeeInv, FeeTypeOK, ProviderOK
      <3>2. Due(u)' \in Nat
        BY <1>1, <1>2, DepositRounds
      <3> QED
        BY <3>1, <3>2
    <2>2. Dues' \in [Users -> Nat]
      BY <2>1 DEF Dues
    <2> DEFINE f == Dues'
    <2> HIDE DEF f
    <2>3. f \in [Users -> Nat]
      BY <2>2 DEF f
    <2>4. SumFunction(f) \in Nat
      BY <2>3, SumLinear, LedgerAssumption
    <2> QED
      BY <2>2, <2>4, DuesType DEF f, FeeInv
  <1>7. /\ SumFunction(Dues) + Due(u)' = SumFunction(Dues)' + Due(u)
    <2>1. ASSUME NEW v \in Users \ {u} PROVE Due(v)' = Due(v)
      <3>1. SameAccount(v) /\ feePerShare' = feePerShare
        BY <1>1, <1>3 DEF SameAccount, MintShares, FeeInv, FeeTypeOK, LpTypeOK
      <3> QED
        BY <3>1, OtherProvider DEF FeeInv
    <2> DEFINE f == Dues
               g == Dues'
    <2>2. /\ f \in [Users -> Nat] /\ g \in [Users -> Nat]
          /\ \A v \in Users \ {u} : g[v] = f[v]
          /\ f[u] = Due(u) /\ g[u] = Due(u)'
      BY <1>6, <2>1 DEF Dues
    <2> HIDE DEF f, g
    <2>3. SumFunction(f) + g[u] = SumFunction(g) + f[u]
      BY <2>2, SumChange, LedgerAssumption
    <2> QED
      BY <2>2, <2>3 DEF f, g
  <1>8. SumFunction(deposits') = SumFunction(deposits) + 1
    <2> DEFINE g == deposits'
    <2>1. /\ deposits \in [Users -> Nat] /\ g \in [Users -> Nat] /\ deposits[u] \in Nat
          /\ g[u] = deposits[u] + 1 /\ \A v \in Users \ {u} : g[v] = deposits[v]
      BY <1>3 DEF FeeInv, FeeTypeOK
    <2> HIDE DEF g
    <2>2. /\ SumFunction(deposits) + g[u] = SumFunction(g) + deposits[u]
          /\ SumFunction(deposits) \in Nat /\ SumFunction(g) \in Nat
      BY <2>1, SumChange, LedgerAssumption
    <2>3. SumFunction(g) = SumFunction(deposits) + 1
      BY <2>1, <2>2
    <2> QED
      BY <2>3 DEF g
  <1>9. totalLpShares' = SumFunction(lpSharesOf')
    <2> DEFINE g == lpSharesOf'
    <2>1. /\ lpSharesOf \in [Users -> Nat] /\ g \in [Users -> Nat] /\ lpSharesOf[u] \in Nat
          /\ g[u] = lpSharesOf[u] + shares /\ \A v \in Users \ {u} : g[v] = lpSharesOf[v]
      BY <1>1, <1>2 DEF MintShares, FeeInv, FeeTypeOK, LpTypeOK
    <2> HIDE DEF g
    <2>2. /\ SumFunction(lpSharesOf) + g[u] = SumFunction(g) + lpSharesOf[u]
          /\ SumFunction(lpSharesOf) \in Nat /\ SumFunction(g) \in Nat
      BY <2>1, SumChange, LedgerAssumption
    <2>3. SumFunction(g) = SumFunction(lpSharesOf) + shares
      BY <1>2, <2>1, <2>2
    <2>4. totalLpShares' = SumFunction(lpSharesOf) + shares
      BY <1>1 DEF MintShares, FeeInv
    <2> QED
      BY <2>3, <2>4 DEF g
  <1>10. totalLpShares' = 0 => feePerShare' = 0
    <2>1. totalLpShares' = totalLpShares + shares /\ totalLpShares \in Nat /\ feePerShare' = feePerShare
      BY <1>1 DEF MintShares, FeeInv, FeeTypeOK, LpTypeOK
    <2> QED
      BY <1>2, <2>1 DEF FeeInv
  <1>11. DuesCovered'
    <2> DEFINE n == SumFunction(deposits)
               due == Due(u)
               due1 == Due(u)'
               all == SumFunction(Dues)
               all1 == SumFunction(Dues)'
               kept == FEE_SCALE * unclaimedLpFees
    <2>1. /\ due \in Nat /\ due1 \in Nat /\ due1 <= due + (FEE_SCALE - 1)
          /\ feePerShare = 0 => due1 <= due
      <3>1. due \in Nat
        BY AccruedIsDue DEF FeeInv, FeeTypeOK, ProviderOK
      <3> QED
        BY <1>1, <1>2, <3>1, DepositRounds
    <2>2. /\ all <= kept + (IF n = 0 THEN 0 ELSE Drift(n - 1))
          /\ n = 0 => feePerShare = 0
      BY DEF FeeInv, DuesCovered
    <2>3. n \in Nat /\ all \in Nat /\ all1 \in Nat /\ all + due1 = all1 + due
      BY <1>6, <1>7
    <2>4. kept \in Nat /\ unclaimedLpFees' = unclaimedLpFees
      BY <1>1, ScaleAssumption, ProductNat DEF MintShares, FeeInv, FeeTypeOK, LpTypeOK
    <2> HIDE DEF n, due, due1, all, all1, kept
    <2>5. all1 <= kept + Drift(n)
      <3>1. FEE_SCALE - 1 \in Nat
        BY ScaleAssumption
      <3>2. CASE n = 0
        <4>1. Drift(n) = 0
          BY <3>2, DriftGrows
        <4> QED
          BY <2>1, <2>2, <2>3, <2>4, <3>2, <4>1
      <3>3. CASE n # 0
        <4>1. n - 1 \in Nat /\ (n - 1) + 1 = n
          BY <2>3, <3>3
        <4>2. Drift(n - 1) \in Nat /\ Drift(n) = Drift(n - 1) + (FEE_SCALE - 1)
          BY <4>1, DriftGrows
        <4> QED
          BY <2>1, <2>2, <2>3, <2>4, <3>1, <3>3, <4>2
      <3> QED
        BY <3>2, <3>3
    <2>6. SumFunction(deposits') = n + 1 /\ n + 1 # 0 /\ (n + 1) - 1 = n
      BY <1>8, <2>3 DEF n
    <2>7. kept = FEE_SCALE * unclaimedLpFees'
      BY <2>4 DEF kept
    <2> QED
      BY <2>5, <2>6, <2>7 DEF DuesCovered, all1
  <1>12. SumFunction(deposits') # 0
    BY <1>6, <1>8
  <1> QED
    BY <1>4, <1>5, <1>9, <1>10, <1>11, <1>12 DEF FeeInv

\* A fee is spread over all shares: each provider is due what its own shares earn of it.
LEMMA ChargeKeepsFees ==
    ASSUME FeeInv, Charge
    PROVE  FeeInv'
  <1>1. PICK fee \in FeeAmounts :
           /\ DistributeLpFee(fee)
           /\ earned' = [u \in Users |->
                  earned[u] + lpSharesOf[u] * MulDiv(fee, FEE_SCALE, totalLpShares)]
    BY DEF Charge
  <1> DEFINE rate == MulDiv(fee, FEE_SCALE, totalLpShares)
             all == SumFunction(Dues)
             all1 == SumFunction(Dues)'
             total == totalLpShares
             n == SumFunction(deposits)
  <1>2. /\ fee \in Nat /\ total \in Nat \ {0} /\ deposits' = deposits
        /\ unclaimedLpFees' = unclaimedLpFees + fee /\ feePerShare' = feePerShare + rate
        /\ UNCHANGED <<totalLpShares, lpSharesOf, lpFeeDebt, lpFeeCredit>>
        /\ unclaimedLpFees \in Nat /\ feePerShare \in Nat
    BY <1>1, LedgerAssumption
       DEF Charge, DistributeLpFee, UnattributedFee, FeeInv, FeeTypeOK, LpTypeOK
  <1>3. rate \in Nat /\ total * rate <= fee * FEE_SCALE
    BY <1>2, ScaleAssumption, MulDivNat
  <1>4. earned' = [u \in Users |-> earned[u] + lpSharesOf[u] * rate]
    BY <1>1
  <1> HIDE DEF rate
  <1>5. \A u \in Users : /\ lpSharesOf[u] \in Nat /\ lpSharesOf[u] * rate \in Nat
                         /\ earned[u] \in Int /\ earned'[u] = earned[u] + lpSharesOf[u] * rate
                         /\ lpFeeDebt[u] \in Nat
    BY <1>3, <1>4, ProductNat DEF FeeInv, FeeTypeOK, LpTypeOK
  <1>6. FeeTypeOK'
    <2>1. LpTypeOK'
      BY <1>1, <1>2, DistributeKeepsType DEF FeeInv, FeeTypeOK
    <2>2. earned' \in [Users -> Int]
      BY <1>4, <1>5
    <2> QED
      BY <1>2, <2>1, <2>2 DEF FeeInv, FeeTypeOK
  <1>7. ASSUME NEW u \in Users
        PROVE  /\ ProviderOK(u)'
               /\ Due(u) \in Nat /\ Due(u)' \in Nat /\ Due(u)' = Due(u) + lpSharesOf[u] * rate
    <2> DEFINE due == Due(u)
               due1 == Due(u)'
               e == earned[u]
               got == lpSharesOf[u] * rate
               p == lpSharesOf[u] * feePerShare
               p1 == lpSharesOf[u] * (feePerShare + rate)
               c == FEE_SCALE * lpFeeCredit[u]
               d == FEE_SCALE * lpFeeDebt[u]
    <2>1. /\ due = c + p - d /\ due1 = c + p1 - d
      BY <1>2 DEF Due, Worth
    <2>2. p1 = p + got
      BY <1>2, <1>3, <1>5
    <2>3. /\ c \in Nat /\ d \in Nat /\ p \in Nat /\ got \in Nat /\ due \in Nat /\ e \in Int
          /\ earned'[u] = e + got
      BY <1>2, <1>5, ProductNat, ScaleAssumption, AccruedIsDue DEF FeeInv, FeeTypeOK, LpTypeOK, ProviderOK
    <2>4. /\ d <= p
          /\ deposits[u] = 0 => lpSharesOf[u] = 0 /\ lpFeeCredit[u] = 0 /\ e = 0
          /\ deposits[u] # 0 => due <= e + Drift(deposits[u]) /\ e <= due + Drift(deposits[u] - 1)
      BY DEF FeeInv, ProviderOK
    <2>5. deposits[u] = 0 => got = 0
      BY <1>3, <2>4
    <2> HIDE DEF due, due1, e, got, p, p1, c, d
    <2>6. due1 = due + got /\ d <= p1 /\ due1 \in Nat
      BY <2>1, <2>2, <2>3, <2>4
    <2>7. /\ deposits[u] = 0 => e + got = 0
          /\ deposits[u] # 0 => due1 <= (e + got) + Drift(deposits[u])
                                /\ e + got <= due1 + Drift(deposits[u] - 1)
      <3>1. CASE deposits[u] = 0
        BY <2>3, <2>4, <2>5, <3>1
      <3>2. CASE deposits[u] # 0
        <4>1. deposits[u] \in Nat /\ deposits[u] - 1 \in Nat
          BY <3>2 DEF FeeInv, FeeTypeOK
        <4>2. Drift(deposits[u]) \in Nat /\ Drift(deposits[u] - 1) \in Nat
          BY <4>1, DriftGrows
        <4> QED
          BY <2>3, <2>4, <2>6, <3>2, <4>2
      <3> QED
        BY <3>1, <3>2
    <2>8. ProviderOK(u)'
      BY <1>2, <2>3, <2>4, <2>6, <2>7 DEF ProviderOK, due1, d, p1
    <2> QED
      BY <2>3, <2>6, <2>8 DEF due, due1, got
  <1>8. all \in Nat /\ all1 = all + rate * total
    <2> DEFINE g == Dues'
    <2>1. /\ Dues \in [Users -> Nat] /\ g \in [Users -> Nat]
          /\ \A u \in Users : g[u] = Dues[u] + rate * lpSharesOf[u]
      <3>1. \A u \in Users : lpSharesOf[u] * rate = rate * lpSharesOf[u]
        BY <1>3, <1>5
      <3> QED
        BY <1>7, <3>1 DEF Dues
    <2>2. lpSharesOf \in [Users -> Nat]
      BY DEF FeeInv, FeeTypeOK, LpTypeOK
    <2> HIDE DEF g
    <2>3. SumFunction(g) = SumFunction(Dues) + rate * SumFunction(lpSharesOf)
          /\ SumFunction(Dues) \in Nat
      BY <1>3, <2>1, <2>2, LedgerAssumption, SumLinear
    <2> QED
      BY <2>3 DEF g, FeeInv
  <1>9. DuesCovered'
    <2> DEFINE slack == IF n = 0 THEN 0 ELSE Drift(n - 1)
               kept == FEE_SCALE * unclaimedLpFees
               gain == total * rate
    <2>1. all <= kept + slack
      BY DEF FeeInv, DuesCovered
    <2>2. rate * total = gain /\ gain <= fee * FEE_SCALE /\ gain \in Nat
      BY <1>2, <1>3, ProductNat
    <2>3. FEE_SCALE * (unclaimedLpFees + fee) = kept + fee * FEE_SCALE
          /\ kept \in Nat /\ fee * FEE_SCALE \in Nat
      BY <1>2, ScaleAssumption, ProductNat
    <2>4. slack \in Nat
      <3>1. n \in Nat
        BY DuesType DEF FeeInv
      <3> HIDE DEF n
      <3>2. n # 0 => n - 1 \in Nat
        BY <3>1
      <3> QED
        BY <3>2, DriftGrows
    <2>5. n' = n /\ unclaimedLpFees' = unclaimedLpFees + fee
      BY <1>2
    <2> HIDE DEF gain, kept, slack, all, all1
    <2>6. all1 <= FEE_SCALE * (unclaimedLpFees + fee) + slack
      BY <1>8, <2>1, <2>2, <2>3, <2>4
    <2> HIDE DEF n
    <2>7. all1 <= FEE_SCALE * unclaimedLpFees' + slack
      BY <2>5, <2>6
    <2> QED
      BY <2>5, <2>7 DEF DuesCovered, all1, slack, n
  <1>10. totalLpShares' = SumFunction(lpSharesOf')
    BY <1>2 DEF FeeInv
  <1>11. totalLpShares' # 0
    BY <1>2
  <1>12. SumFunction(deposits)' = 0 => totalLpShares' = 0
    BY <1>2 DEF FeeInv
  <1> QED
    BY <1>6, <1>7, <1>9, <1>10, <1>11, <1>12 DEF FeeInv

\* What is claimed is no longer due; the rounding stays.
LEMMA ClaimKeepsFees ==
    ASSUME FeeInv, NEW u \in Users, ClaimLpFees(u)
    PROVE  FeeInv'
  <1> DEFINE paid == Accrued(u)
             k == FEE_SCALE * paid
             due == Due(u)
             due1 == Due(u)'
             e == earned[u]
             total == Accumulated(u)
             all == SumFunction(Dues)
             all1 == SumFunction(Dues)'
             p == lpSharesOf[u] * feePerShare
  <1>1. /\ CollectFees(u) /\ deposits' = deposits
        /\ earned' = [earned EXCEPT ![u] = @ - k]
        /\ LpTypeOK /\ e \in Int /\ earned \in [Users -> Int]
    BY DEF ClaimLpFees, FeeInv, FeeTypeOK
  <1>2. /\ lpFeeCredit'[u] = 0 /\ lpFeeDebt'[u] = total
        /\ unclaimedLpFees' = unclaimedLpFees - paid /\ paid <= unclaimedLpFees
        /\ UNCHANGED <<totalLpShares, feePerShare, lpSharesOf>>
        /\ unclaimedLpFees \in Nat /\ lpSharesOf[u] \in Nat /\ feePerShare \in Nat
        /\ lpFeeCredit[u] \in Nat /\ lpFeeDebt[u] \in Nat
    BY <1>1 DEF CollectFees, LpTypeOK
  <1>3. /\ total \in Nat /\ paid \in Nat /\ k \in Nat /\ due \in Nat /\ k <= due
        /\ paid = lpFeeCredit[u] + total - lpFeeDebt[u]
    BY AccruedIsDue DEF FeeInv, FeeTypeOK, ProviderOK
  <1>4. FEE_SCALE * total <= p
    BY <1>1, <1>2, WorthRounds DEF Accumulated, FeeInv, ProviderOK
  <1>5. due1 = due - k
    <2> DEFINE c == FEE_SCALE * lpFeeCredit[u]
               t == FEE_SCALE * total
               d == FEE_SCALE * lpFeeDebt[u]
    <2>1. due = c + p - d /\ due1 = FEE_SCALE * 0 + p - t
      BY <1>2 DEF Due, Worth
    <2> HIDE DEF paid, total
    <2>2. k = c + t - d /\ FEE_SCALE * 0 = 0
      BY <1>2, <1>3, ScaleAssumption
    <2>3. c \in Nat /\ t \in Nat /\ d \in Nat /\ p \in Nat
      BY <1>2, <1>3, ScaleAssumption, ProductNat
    <2> HIDE DEF c, t, d, p, due, due1, k
    <2> QED
      BY <2>1, <2>2, <2>3
  <1>6. earned'[u] = e - k
    BY <1>1
  <1>7. ASSUME NEW v \in Users \ {u} PROVE SameAccount(v) /\ ProviderOK(v)' /\ Due(v)' = Due(v)
    <2>1. SameAccount(v) /\ feePerShare' = feePerShare
      BY <1>1, <1>2 DEF SameAccount, CollectFees, LpTypeOK
    <2> QED
      BY <2>1, OtherProvider DEF FeeInv
  <1>8. ProviderOK(u)' /\ due1 \in Nat
    <2>1. /\ deposits[u] = 0 => lpSharesOf[u] = 0 /\ lpFeeCredit[u] = 0 /\ e = 0
          /\ deposits[u] # 0 => due <= e + Drift(deposits[u]) /\ e <= due + Drift(deposits[u] - 1)
      BY DEF FeeInv, ProviderOK
    <2>2. deposits[u] = 0 => due = 0
      <3> SUFFICES ASSUME deposits[u] = 0 PROVE due = 0
        OBVIOUS
      <3>1. /\ FEE_SCALE * lpFeeCredit[u] = 0 /\ lpSharesOf[u] * feePerShare = 0
            /\ FEE_SCALE * lpFeeDebt[u] \in Nat
        BY <1>2, <2>1, ScaleAssumption, ProductNat
      <3>2. FEE_SCALE * lpFeeDebt[u] = 0
        BY <3>1 DEF FeeInv, ProviderOK
      <3> QED
        BY <3>1, <3>2 DEF Due, Worth
    <2> HIDE DEF due, due1, e, k, paid, total
    <2>3. deposits[u] = 0 => e - k = 0
      BY <1>1, <1>3, <2>1, <2>2
    <2>4. deposits[u] # 0 => due1 <= (e - k) + Drift(deposits[u])
                             /\ e - k <= due1 + Drift(deposits[u] - 1)
      <3> SUFFICES ASSUME deposits[u] # 0
                   PROVE  due1 <= (e - k) + Drift(deposits[u])
                          /\ e - k <= due1 + Drift(deposits[u] - 1)
        OBVIOUS
      <3>1. deposits[u] \in Nat /\ deposits[u] - 1 \in Nat
        BY DEF FeeInv, FeeTypeOK
      <3>2. Drift(deposits[u]) \in Nat /\ Drift(deposits[u] - 1) \in Nat
        BY <3>1, DriftGrows
      <3> QED
        BY <1>1, <1>3, <1>5, <2>1, <3>2
    <2>5. due1 \in Nat
      BY <1>3, <1>5
    <2>6. FEE_SCALE * lpFeeDebt'[u] <= lpSharesOf'[u] * feePerShare'
      BY <1>2, <1>4 DEF p
    <2> QED
      BY <1>1, <1>2, <1>6, <2>1, <2>3, <2>4, <2>5, <2>6 DEF ProviderOK, due1
  <1>9. FeeTypeOK'
    <2>1. LpTypeOK'
      BY <1>1, CollectKeepsType
    <2>2. earned' \in [Users -> Int]
      BY <1>1, <1>3
    <2> QED
      BY <1>1, <2>1, <2>2 DEF FeeInv, FeeTypeOK
  <1>10. DuesCovered'
    <2> DEFINE g == Dues'
               n == SumFunction(deposits)
               slack == IF n = 0 THEN 0 ELSE Drift(n - 1)
               kept == FEE_SCALE * unclaimedLpFees
    <2>1. /\ Dues \in [Users -> Nat] /\ g \in [Users -> Nat]
          /\ \A v \in Users \ {u} : g[v] = Dues[v]
          /\ Dues[u] = due /\ g[u] = due1
      <3>1. Dues \in [Users -> Nat]
        BY DuesType DEF FeeInv
      <3> QED
        BY <1>7, <1>8, <3>1 DEF Dues
    <2> HIDE DEF g
    <2>2. /\ SumFunction(Dues) + g[u] = SumFunction(g) + Dues[u]
          /\ SumFunction(Dues) \in Nat /\ SumFunction(g) \in Nat
      BY <2>1, SumChange, LedgerAssumption
    <2>3. all \in Nat /\ all1 \in Nat /\ all + due1 = all1 + due
      BY <2>1, <2>2 DEF g
    <2>4. all <= kept + slack
      BY DEF FeeInv, DuesCovered
    <2>5. FEE_SCALE * (unclaimedLpFees - paid) = kept - k /\ kept \in Nat
      <3> HIDE DEF paid
      <3> QED
        BY <1>2, <1>3, ScaleAssumption, ProductNat
    <2>6. slack \in Nat
      <3>1. n \in Nat
        BY DuesType DEF FeeInv
      <3> HIDE DEF n
      <3>2. n # 0 => n - 1 \in Nat
        BY <3>1
      <3> QED
        BY <3>2, DriftGrows
    <2> HIDE DEF kept, slack, all, all1, due, due1, k, n
    <2>7. all1 <= (kept - k) + slack
      BY <1>3, <1>5, <1>8, <2>3, <2>4, <2>5, <2>6
    <2>8. all1 <= FEE_SCALE * unclaimedLpFees' + slack
      BY <1>2, <2>5, <2>7
    <2>9. deposits' = deposits
      BY <1>1
    <2> QED
      BY <2>8, <2>9 DEF DuesCovered, all1, slack, n
  <1>11. /\ totalLpShares' = SumFunction(lpSharesOf')
         /\ totalLpShares' = 0 => feePerShare' = 0
         /\ SumFunction(deposits)' = 0 => totalLpShares' = 0
    BY <1>1, <1>2 DEF FeeInv
  <1> QED
    BY <1>7, <1>8, <1>9, <1>10, <1>11 DEF FeeInv

\* The fee ledger's invariant, for any number of providers, deposits, fees and claims.
THEOREM FeeInvariant == FeeSpec => []FeeInv
  <1>1. FeeInv /\ [FeeNext]_feeVars => FeeInv'
    <2>1. ASSUME FeeInv, FeeNext PROVE FeeInv'
      BY <2>1, DepositKeepsFees, ChargeKeepsFees, ClaimKeepsFees DEF FeeNext
    <2>2. ASSUME FeeInv, UNCHANGED feeVars PROVE FeeInv'
      BY <2>2 DEF FeeInv, FeeTypeOK, LpTypeOK, ProviderOK, DuesCovered, Dues, Due, Worth, Drift,
                  feeVars, lpVars
    <2> QED
      BY <2>1, <2>2
  <1> QED
    BY <1>1, FeeStart, PTL DEF FeeSpec

LEMMA ProvidersEarnTheirShare ==
    ASSUME FeeInv
    PROVE  EarnsOwnShareOnly
  <1> SUFFICES ASSUME NEW u \in Users
               PROVE  LET owed == FEE_SCALE * Accrued(u) - earned[u]
                          drift == FEE_SCALE * deposits[u]
                      IN  IF deposits[u] = 0 THEN owed = 0 ELSE -drift < owed /\ owed < drift
    BY DEF EarnsOwnShareOnly
  <1> DEFINE k == FEE_SCALE * Accrued(u)
             due == Due(u)
             e == earned[u]
             d == deposits[u]
             drift == FEE_SCALE * d
  <1>1. /\ k \in Nat /\ due \in Nat /\ k <= due /\ due <= k + (FEE_SCALE - 1)
        /\ Accumulated(u) \in Nat /\ lpFeeDebt[u] <= Accumulated(u)
        /\ Accrued(u) = lpFeeCredit[u] + Accumulated(u) - lpFeeDebt[u]
    BY AccruedIsDue DEF FeeInv, FeeTypeOK, ProviderOK
  <1>2. d \in Nat /\ e \in Int
    BY DEF FeeInv, FeeTypeOK
  <1>3. CASE d = 0
    <2>1. lpSharesOf[u] = 0 /\ lpFeeCredit[u] = 0 /\ e = 0
      BY <1>3 DEF FeeInv, ProviderOK
    <2>2. due = 0
      <3>1. /\ FEE_SCALE * lpFeeCredit[u] = 0 /\ lpSharesOf[u] * feePerShare = 0
            /\ FEE_SCALE * lpFeeDebt[u] \in Nat
        BY <2>1, ScaleAssumption, ProductNat DEF FeeInv, FeeTypeOK, LpTypeOK
      <3>2. FEE_SCALE * lpFeeDebt[u] = 0
        BY <3>1 DEF FeeInv, ProviderOK
      <3> QED
        BY <2>1, <3>1, <3>2 DEF Due, Worth
    <2> HIDE DEF k, due, e
    <2>3. k - e = 0
      BY <1>1, <2>1, <2>2
    <2> QED
      BY <1>3, <2>3 DEF k, e
  <1>4. CASE d # 0
    <2>1. due <= e + Drift(d) /\ e <= due + Drift(d - 1)
      BY <1>4 DEF FeeInv, ProviderOK
    <2> HIDE DEF k, due, e, d
    <2>2. d - 1 \in Nat /\ (d - 1) + 1 = d
      BY <1>2, <1>4
    <2>3. /\ Drift(d - 1) \in Nat /\ Drift(d) = Drift(d - 1) + (FEE_SCALE - 1)
          /\ Drift(d) < drift /\ Drift(d) \in Nat /\ drift \in Nat /\ FEE_SCALE \in Nat
      BY <1>2, <1>4, <2>2, DriftGrows, ScaleAssumption, ProductNat
    <2> HIDE DEF drift
    <2>4. -drift < k - e /\ k - e < drift
      BY <1>1, <1>2, <2>1, <2>3
    <2> QED
      BY <1>4, <2>4 DEF k, e, d, drift
  <1> QED
    BY <1>3, <1>4

LEMMA ClaimsAreCovered ==
    ASSUME FeeInv
    PROVE  ClaimsWithinRounding
  <1> DEFINE claims == [u \in Users |-> Accrued(u)]
             over == [u \in Users |-> Due(u) - FEE_SCALE * Accrued(u)]
             n == SumFunction(deposits)
             sum == SumFunction(claims)
             left == SumFunction(over)
             all == SumFunction(Dues)
  <1>1. ASSUME NEW u \in Users
        PROVE  /\ Accrued(u) \in Nat /\ Due(u) \in Nat /\ FEE_SCALE * Accrued(u) \in Nat
               /\ FEE_SCALE * Accrued(u) <= Due(u)
    BY AccruedIsDue DEF FeeInv, FeeTypeOK, ProviderOK
  <1>2. claims \in [Users -> Nat] /\ over \in [Users -> Nat] /\ Dues \in [Users -> Nat]
    BY <1>1 DEF Dues
  <1>3. \A u \in Users : Dues[u] = over[u] + FEE_SCALE * claims[u]
    BY <1>1 DEF Dues
  <1>4. left \in Nat /\ sum \in Nat /\ all = left + FEE_SCALE * sum
    <2> HIDE DEF claims, over
    <2> QED
      BY <1>2, <1>3, LedgerAssumption, ScaleAssumption, SumLinear
  <1>5. /\ all <= FEE_SCALE * unclaimedLpFees + (IF n = 0 THEN 0 ELSE Drift(n - 1))
        /\ n \in Nat /\ unclaimedLpFees \in Nat
    BY DuesType DEF FeeInv, FeeTypeOK, LpTypeOK, DuesCovered
  <1> HIDE DEF claims, n, sum, left, all
  <1>6. sum <= unclaimedLpFees + (IF n > 2 THEN n - 2 ELSE 0)
    <2> DEFINE U == unclaimedLpFees
               s == FEE_SCALE * sum
               kept == FEE_SCALE * U
    <2>1. s \in Nat /\ kept \in Nat /\ FEE_SCALE \in Nat \ {0}
      BY <1>4, <1>5, ScaleAssumption, ProductNat
    <2>2. CASE n <= 1
      <3>1. (IF n = 0 THEN 0 ELSE Drift(n - 1)) = 0
        <4>1. n = 0 \/ n - 1 = 0
          BY <1>5, <2>2
        <4> QED
          BY <4>1, DriftGrows
      <3>2. s <= kept
        BY <1>4, <1>5, <2>1, <3>1
      <3>3. sum <= U
        BY <1>4, <1>5, <3>2, ScaleAssumption, ProductCancels
      <3> QED
        BY <1>4, <1>5, <2>2, <3>3
    <2>3. CASE n >= 2
      <3> DEFINE m == n - 1
      <3>1. m \in Nat \ {0} /\ n # 0
        BY <1>5, <2>3
      <3>2. Drift(m) < FEE_SCALE * m /\ Drift(m) \in Nat
        BY <3>1, DriftGrows
      <3>3. s <= kept + Drift(m)
        BY <1>4, <1>5, <2>1, <3>1, <3>2
      <3> HIDE DEF m
      <3>4. ~ (U + m <= sum)
        <4> SUFFICES ASSUME U + m <= sum PROVE FALSE
          OBVIOUS
        <4>1. FEE_SCALE * (U + m) <= s
          BY <1>4, <1>5, <3>1, ScaleAssumption, ProductMonotone
        <4>2. FEE_SCALE * (U + m) = kept + FEE_SCALE * m /\ FEE_SCALE * m \in Nat
          BY <1>5, <3>1, ScaleAssumption, ProductNat
        <4> QED
          BY <2>1, <3>2, <3>3, <4>1, <4>2
      <3>5. sum < U + m /\ m = n - 1
        BY <1>4, <1>5, <3>1, <3>4 DEF m
      <3> QED
        BY <1>4, <1>5, <2>3, <3>5
    <2> QED
      BY <1>5, <2>2, <2>3
  <1> QED
    BY <1>6 DEF ClaimsWithinRounding, sum, claims, n

\* In every history of deposits, fees and claims a provider can claim what its own shares earned,
\* within a unit per deposit, and all together what was charged, but for the rounding of
\* each deposit after the second (_distributeLpFee, _accrueLp).
THEOREM FeesKept == FeeSpec => [](EarnsOwnShareOnly /\ ClaimsWithinRounding)
  <1>1. FeeInv => EarnsOwnShareOnly /\ ClaimsWithinRounding
    BY ProvidersEarnTheirShare, ClaimsAreCovered
  <1> QED
    BY <1>1, FeeInvariant, PTL

\* The two halves of a market's money, each over all its histories.
THEOREM PoolsKept == FeeSpec /\ PoolSpec => []PoolsHold
  <1>1. (EarnsOwnShareOnly /\ ClaimsWithinRounding) /\ (QuotesAreTight /\ NoRiskFreeProfit)
        => PoolsHold
    BY DEF PoolsHold
  <1> QED
    BY <1>1, FeesKept, PoolKept, PTL
===============================================================================
