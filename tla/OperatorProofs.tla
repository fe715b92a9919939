----------------------------- MODULE OperatorProofs -----------------------------
(***************************************************************************)
(* Theorems about what the operators keep while their ticks overlap, crash *)
(* and read what is already out of date: what becomes of a question on its *)
(* way to a market, and of a market on its way to a settled result.  The   *)
(* components share no state; each section is about one of them.           *)
(***************************************************************************)
EXTENDS PublicationChannel, Settlement, ProofArchive, NatLemmas

-------------------------------------------------------------------------------
(* PublicationChannel: the inductive invariant. *)

Request == [candidate : Candidates, status : OpenStatuses \union Ended, permit : Nat,
            attempts : Nat, market : Nat]
SlotIndices == Nat \union {c.slotIndex : c \in Candidates}
Permit == [id : Nat, candidate : Candidates, slotIndex : SlotIndices, undecidedThrough : Nat,
           issuedAt : Nat, expiresAt : Nat, nonce : Nat]
Work == [id : Nat, permit : Nat, attempts : Nat]
Busy == {"Reconcile", "Publish", "Send", "Wait", "Catch"}
Task == [pc : {"Idle", "Prepare"} \union Busy, startedAt : Nat, work : SUBSET Work,
         before : Nat, refusal : BOOLEAN, next : Nat]
GateTask == [pc : {"Idle", "Ask", "Evaluate", "Save", "Answer"}, work : SUBSET Nat,
             slotIndex : SlotIndices, evaluated : Nat, permit : Permit \union {<<>>}]

ChannelTypeOK ==
    /\ queue \in Seq(Request)
    /\ permits \in Seq(Permit) /\ slots \in Seq(Permit)
    /\ pending \subseteq [permit : Nat, by : Ticks \union {0}]
    /\ tick \in [Ticks -> Task]
    /\ gate \in GateTask
    /\ nextNonce \in Nat /\ storedNonce \in Nat /\ tip \in Nat /\ clock \in Nat

\* A question the publisher may hand on, and one the gate may sign.
Valid(c) == Approved(c) /\ Buildable(c)
Sound(c) == Valid(c) /\ QuestionMatches(c)
SameQuestion(c, d) == Condition(c) = Condition(d) /\ c.question = d.question
Signed(k, id) == k \in DOMAIN permits /\ permits[k].id = id

\* r, as the record of request id.
RequestSound(id, r) ==
    /\ r.status = "awaiting_permit" => Valid(r.candidate)
    /\ r.status = "permitted" => Signed(r.permit, id)
    /\ r.market # 0 => /\ r.market \in DOMAIN slots
                       /\ SameQuestion(slots[r.market].candidate, r.candidate)
RequestsSound == \A id \in DOMAIN queue : RequestSound(id, queue[id])

\* A permit is of a request in the queue, and says what the request says.
OfRequest(p) ==
    /\ p.id \in DOMAIN queue
    /\ p.candidate = queue[p.id].candidate /\ Sound(p.candidate)
PermitsSound ==
    /\ \A k \in DOMAIN permits : OfRequest(permits[k]) /\ permits[k].nonce < storedNonce
    /\ NoncesNeverReissued
    /\ \A tx \in pending : tx.permit \in DOMAIN permits

\* k, as the task of tick t.  A tick that waits has sent the permit it works on for
\* the slot the room was at; unless it was mined there, it is pending or was refused.
Awaits(t, k) ==
    LET p == Oldest(k.work).permit IN
    /\ k.before = permits[p].slotIndex
    /\ \/ [permit |-> p, by |-> t] \in pending
       \/ t \in reverted
       \/ k.before + 1 \in DOMAIN slots /\ slots[k.before + 1] = permits[p]
TaskSound(t, k) ==
    /\ \A r \in k.work : Signed(r.permit, r.id)
    /\ k.pc \in Busy => k.work # {}
    /\ k.pc = "Prepare" => k.next \in DOMAIN queue
    /\ k.pc = "Wait" => Awaits(t, k)
TasksSound == \A t \in Ticks : TaskSound(t, tick[t])

\* g, as the task of the permit server: what it works on is valid, and the permit
\* it has signed is newer than the counter saved last.
GateSound(g) ==
    /\ \A id \in g.work : id \in DOMAIN queue /\ Valid(queue[id].candidate)
    /\ g.pc # "Idle" => g.work # {}
    /\ g.pc = "Save" => /\ g.permit \in Permit /\ OfRequest(g.permit)
                        /\ g.permit.id = First(g.work)
                        /\ storedNonce <= g.permit.nonce /\ g.permit.nonce < nextNonce
    /\ g.pc = "Answer" => Signed(Len(permits), First(g.work))

ChannelInv ==
    /\ ChannelTypeOK
    /\ RequestsSound /\ PermitsSound /\ MarketsStateTheirRule
    /\ TasksSound /\ GateSound(gate) /\ storedNonce <= nextNonce

\* Requests, permits and slots are only added to, and a request keeps its question.
Grows ==
    /\ \A id \in DOMAIN queue : /\ id \in DOMAIN queue'
                                /\ queue'[id].candidate = queue[id].candidate
    /\ \A k \in DOMAIN permits : k \in DOMAIN permits' /\ permits'[k] = permits[k]
    /\ \A s \in DOMAIN slots : s \in DOMAIN slots' /\ slots'[s] = slots[s]

LEMMA FirstIn ==
    ASSUME NEW S \in SUBSET Nat, S # {}
    PROVE  First(S) \in S
  <1>1. \E x \in S : \A y \in S : x <= y
    BY LeastNat
  <1> QED
    BY <1>1 DEF First

LEMMA OldestIn ==
    ASSUME NEW work \in SUBSET Work, work # {}
    PROVE  Oldest(work) \in work
  <1> DEFINE ids == {r.id : r \in work}
  <1>1. ids \in SUBSET Nat /\ ids # {}
    BY DEF Work
  <1>2. PICK n \in ids : \A m \in ids : n <= m
    BY <1>1, LeastNat
  <1>3. PICK r \in work : r.id = n
    BY <1>2
  <1>4. \A other \in work : r.id <= other.id
    BY <1>2, <1>3
  <1> QED
    BY <1>4 DEF Oldest

LEMMA MarketFound ==
    ASSUME ChannelTypeOK, NEW c
    PROVE  LET m == MarketForCondition(c) IN
           m \in Nat /\ (m # 0 => m \in DOMAIN slots /\ Condition(slots[m].candidate) = Condition(c))
  <1> DEFINE bound == {s \in DOMAIN slots : Condition(slots[s].candidate) = Condition(c)}
  <1>1. bound \in SUBSET Nat
    BY DEF ChannelTypeOK
  <1>2. bound # {} => First(bound) \in bound
    BY <1>1, FirstIn
  <1>3. MarketForCondition(c) = IF bound = {} THEN 0 ELSE First(bound)
    BY DEF MarketForCondition
  <1> HIDE DEF bound
  <1>4. MarketForCondition(c) = 0 \/ MarketForCondition(c) \in bound
    BY <1>2, <1>3
  <1> QED
    BY <1>1, <1>4 DEF bound

\* What says the same rule in matching words asks the same question.
LEMMA SameRuleSameQuestion ==
    ASSUME NEW c, NEW d, QuestionMatches(c), QuestionMatches(d), Condition(c) = Condition(d)
    PROVE  SameQuestion(c, d)
  <1>1. RenderQuestion(c) = RenderQuestion(d)
    BY DEF Condition, RenderQuestion
  <1> QED
    BY <1>1 DEF QuestionMatches, SameQuestion

-------------------------------------------------------------------------------
(* What additions keep. *)

LEMMA GrowthKeepsRequest ==
    ASSUME Grows, NEW id, NEW r, RequestSound(id, r)
    PROVE  RequestSound(id, r)'
  BY DEF Grows, RequestSound, Signed

LEMMA GrowthKeepsPermits ==
    ASSUME Grows, PermitsSound, UNCHANGED permits, storedNonce' >= storedNonce,
           storedNonce \in Nat, storedNonce' \in Nat, ChannelTypeOK,
           \A tx \in pending' : tx.permit \in DOMAIN permits
    PROVE  PermitsSound'
  <1>1. \A k \in DOMAIN permits : OfRequest(permits[k])'
    BY DEF PermitsSound, OfRequest, Grows
  <1>2. \A k \in DOMAIN permits : permits[k].nonce < storedNonce'
    <2>1. \A k \in DOMAIN permits : permits[k].nonce \in Nat /\ permits[k].nonce < storedNonce
      <3>1. \A k \in DOMAIN permits : permits[k] \in Permit
        BY DEF ChannelTypeOK
      <3>2. \A k \in DOMAIN permits : permits[k].nonce < storedNonce
        BY DEF PermitsSound
      <3> QED
        BY <3>1, <3>2 DEF Permit
    <2> QED
      BY <2>1
  <1>3. NoncesNeverReissued'
    BY DEF PermitsSound, NoncesNeverReissued
  <1> QED
    BY <1>1, <1>2, <1>3 DEF PermitsSound

\* The task of a tick stays sound while what it waits for is still in the same place.
LEMMA GrowthKeepsTask ==
    ASSUME Grows, NEW t, NEW k \in Task, TaskSound(t, k),
           \A i : [permit |-> i, by |-> t] \in pending => [permit |-> i, by |-> t] \in pending',
           t \in reverted => t \in reverted'
    PROVE  TaskSound(t, k)'
  <1> DEFINE p == Oldest(k.work).permit
  <1>1. \A r \in k.work : Signed(r.permit, r.id)'
    BY DEF TaskSound, Grows, Signed
  <1>2. k.pc = "Prepare" => k.next \in DOMAIN queue'
    BY DEF TaskSound, Grows
  <1>3. ASSUME k.pc = "Wait" PROVE Awaits(t, k)'
    <2>1. k.work # {} /\ k.work \in SUBSET Work /\ Awaits(t, k)
      BY <1>3 DEF TaskSound, Busy, Task
    <2>2. p \in DOMAIN permits
      BY <2>1, OldestIn DEF TaskSound, Signed
    <2>3. permits'[p] = permits[p]
      BY <2>2 DEF Grows
    <2>4. k.before + 1 \in DOMAIN slots =>
              k.before + 1 \in DOMAIN slots' /\ slots'[k.before + 1] = slots[k.before + 1]
      BY DEF Grows
    <2>5. \/ [permit |-> p, by |-> t] \in pending'
          \/ t \in reverted'
          \/ k.before + 1 \in DOMAIN slots' /\ slots'[k.before + 1] = permits'[p]
      BY <2>1, <2>3, <2>4 DEF Awaits
    <2>6. k.before = permits'[p].slotIndex
      BY <2>1, <2>3 DEF Awaits
    <2> QED
      BY <2>5, <2>6 DEF Awaits
  <1> QED
    BY <1>1, <1>2, <1>3 DEF TaskSound

LEMMA GrowthKeepsTasks ==
    ASSUME Grows, ChannelTypeOK, TasksSound, UNCHANGED tick, pending \subseteq pending',
           reverted \subseteq reverted'
    PROVE  TasksSound'
  <1> SUFFICES ASSUME NEW t \in Ticks PROVE TaskSound(t, tick[t])'
    BY DEF TasksSound
  <1> DEFINE k == tick[t]
  <1>1. k \in Task /\ TaskSound(t, k)
    BY DEF TasksSound, ChannelTypeOK
  <1> HIDE DEF k
  <1>2. ASSUME NEW j, j = k PROVE TaskSound(t, j)'
    BY <1>1, <1>2, GrowthKeepsTask
  <1> QED
    BY <1>2 DEF k

LEMMA GrowthKeepsGate ==
    ASSUME Grows, GateSound(gate), UNCHANGED <<gate, nextNonce, storedNonce, permits>>
    PROVE  GateSound(gate)'
  BY DEF Grows, GateSound, OfRequest, Signed

\* A tick that rewrites one record of the queue, and leaves permits and slots alone.
LEMMA RewriteKeepsQueue ==
    ASSUME ChannelTypeOK, RequestsSound, UNCHANGED <<permits, slots>>,
           NEW id \in DOMAIN queue, NEW r \in Request, queue' = [queue EXCEPT ![id] = r],
           r.candidate = queue[id].candidate, RequestSound(id, r)
    PROVE  Grows /\ RequestsSound' /\ (queue \in Seq(Request))'
  <1>1. queue \in Seq(Request)
    BY DEF ChannelTypeOK
  <1>2. /\ queue' \in Seq(Request) /\ DOMAIN queue' = DOMAIN queue
        /\ queue'[id] = r /\ \A i \in DOMAIN queue \ {id} : queue'[i] = queue[i]
    BY <1>1
  <1>3. Grows
    BY <1>2 DEF Grows
  <1>4. \A i \in DOMAIN queue : RequestSound(i, queue'[i])
    BY <1>2 DEF RequestsSound
  <1>5. ASSUME NEW i \in DOMAIN queue PROVE RequestSound(i, queue[i])'
    <2> DEFINE now2 == queue'[i]
    <2>1. RequestSound(i, now2)
      BY <1>4
    <2> HIDE DEF now2
    <2>2. \A q : RequestSound(i, q) => RequestSound(i, q)'
      BY <1>3, GrowthKeepsRequest
    <2>3. \A q : q = now2 => RequestSound(i, q)'
      BY <2>1, <2>2
    <2> QED
      BY <2>3 DEF now2
  <1> QED
    BY <1>2, <1>3, <1>5 DEF RequestsSound

-------------------------------------------------------------------------------
(* The publisher's ticks. *)

\* One tick takes up another task; nothing any other tick waits for is taken away.
LEMMA OneTaskMoves ==
    ASSUME Grows, ChannelTypeOK, TasksSound, NEW t \in Ticks, NEW k \in Task,
           tick' = [tick EXCEPT ![t] = k], TaskSound(t, k)',
           \A o \in Ticks \ {t} : \A i :
               [permit |-> i, by |-> o] \in pending => [permit |-> i, by |-> o] \in pending',
           \A o \in Ticks \ {t} : o \in reverted => o \in reverted'
    PROVE  tick' \in [Ticks -> Task] /\ TasksSound'
  <1>1. tick' \in [Ticks -> Task] /\ tick'[t] = k /\ \A o \in Ticks \ {t} : tick'[o] = tick[o]
    BY DEF ChannelTypeOK
  <1>2. ASSUME NEW o \in Ticks PROVE TaskSound(o, tick[o])'
    <2>1. CASE o = t
      <3>1. \A j : j = k => TaskSound(t, j)'
        OBVIOUS
      <3> QED
        BY <1>1, <2>1, <3>1
    <2>2. CASE o # t
      <3> DEFINE h == tick[o]
      <3>1. h \in Task /\ TaskSound(o, h) /\ tick'[o] = h
        BY <1>1, <2>2 DEF TasksSound, ChannelTypeOK
      <3> HIDE DEF h
      <3>2. ASSUME NEW j, j = h PROVE TaskSound(o, j)'
        BY <2>2, <3>1, <3>2, GrowthKeepsTask
      <3> QED
        BY <3>1, <3>2
    <2> QED
      BY <2>1, <2>2
  <1> QED
    BY <1>1, <1>2 DEF TasksSound

\* The task a tick goes on with.
LEMMA ContinueTask ==
    ASSUME ChannelTypeOK, NEW t \in Ticks, NEW work \in SUBSET Work, NEW q \in Seq(Request)
    PROVE  \E k \in Task : /\ Continue(t, work, q) = [tick EXCEPT ![t] = k]
                           /\ k.work = work /\ k.pc \in {"Publish", "Prepare", "Idle"}
                           /\ k.pc = "Publish" => work # {}
                           /\ k.pc = "Prepare" => k.next \in DOMAIN q
  <1> DEFINE queued == IdsWith(q, "queued")
             task == [NoTask EXCEPT !.startedAt = tick[t].startedAt]
             publish == [task EXCEPT !.pc = "Publish", !.work = work]
             prepare == [NoTask EXCEPT !.pc = "Prepare", !.next = First(queued)]
  <1>1. queued \in SUBSET Nat /\ queued \subseteq DOMAIN q
    BY DEF IdsWith
  <1>2. queued # {} => First(queued) \in queued
    BY <1>1, FirstIn
  <1>3. tick[t].startedAt \in Nat
    BY DEF ChannelTypeOK, Task
  <1>4. NoTask \in Task /\ NoTask.work = {} /\ NoTask.pc = "Idle"
    BY DEF NoTask, Task
  <1>5. publish \in Task /\ publish.work = work /\ publish.pc = "Publish"
    BY <1>3 DEF NoTask, Task, Busy
  <1>6. queued # {} => /\ prepare \in Task /\ prepare.work = {} /\ prepare.pc = "Prepare"
                       /\ prepare.next \in DOMAIN q
    <2> HIDE DEF queued
    <2> QED
      BY <1>1, <1>2 DEF NoTask, Task
  <1>7. \/ Continue(t, work, q) = [tick EXCEPT ![t] = publish] /\ work # {}
        \/ Continue(t, work, q) = [tick EXCEPT ![t] = prepare] /\ work = {} /\ queued # {}
        \/ Continue(t, work, q) = [tick EXCEPT ![t] = NoTask] /\ work = {}
    BY DEF Continue
  <1> HIDE DEF queued, task, publish, prepare
  <1>8. CASE Continue(t, work, q) = [tick EXCEPT ![t] = publish] /\ work # {}
    BY <1>5, <1>8
  <1>9. CASE Continue(t, work, q) = [tick EXCEPT ![t] = prepare] /\ work = {} /\ queued # {}
    BY <1>6, <1>9
  <1>10. CASE Continue(t, work, q) = [tick EXCEPT ![t] = NoTask] /\ work = {}
    BY <1>4, <1>10
  <1> QED
    BY <1>7, <1>8, <1>9, <1>10

\* A tick that goes on with work whose permits are those of its requests.
LEMMA ContinueKeepsTasks ==
    ASSUME ChannelTypeOK, TasksSound, Grows, (queue \in Seq(Request))', UNCHANGED pending,
           NEW t \in Ticks, NEW work \in SUBSET Work, \A r \in work : Signed(r.permit, r.id),
           \A o \in Ticks \ {t} : o \in reverted => o \in reverted',
           tick' = Continue(t, work, queue')
    PROVE  tick' \in [Ticks -> Task] /\ TasksSound'
  <1>1. PICK k \in Task : /\ tick' = [tick EXCEPT ![t] = k]
                          /\ k.work = work /\ k.pc \in {"Publish", "Prepare", "Idle"}
                          /\ k.pc = "Publish" => work # {}
                          /\ k.pc = "Prepare" => k.next \in DOMAIN queue'
    BY ContinueTask
  <1>2. TaskSound(t, k)'
    <2>1. \A r \in k.work : Signed(r.permit, r.id)'
      BY <1>1 DEF Grows, Signed
    <2>2. k.pc \in Busy => k.work # {}
      BY <1>1 DEF Busy
    <2> QED
      BY <1>1, <2>1, <2>2 DEF TaskSound
  <1> QED
    BY <1>1, <1>2, OneTaskMoves

\* The records a tick reads as permitted.
LEMMA PermittedWork ==
    ASSUME ChannelTypeOK, RequestsSound
    PROVE  /\ PermittedIn(queue) \in SUBSET Work
           /\ \A r \in PermittedIn(queue) : Signed(r.permit, r.id)
  <1>1. ASSUME NEW id \in IdsWith(queue, "permitted")
        PROVE  /\ id \in Nat /\ Signed(queue[id].permit, id)
               /\ queue[id].permit \in Nat /\ queue[id].attempts \in Nat
    <2>1. id \in DOMAIN queue /\ queue[id].status = "permitted"
      BY DEF IdsWith
    <2>2. id \in Nat /\ queue[id] \in Request
      BY <2>1 DEF ChannelTypeOK
    <2>3. RequestSound(id, queue[id])
      BY <2>1 DEF RequestsSound
    <2> QED
      BY <2>1, <2>2, <2>3 DEF RequestSound, Request
  <1> QED
    BY <1>1 DEF PermittedIn, Work

\* What a step may do to the queue, permits and slots standing.
QueueKept == Grows /\ RequestsSound' /\ (queue \in Seq(Request))'

LEMMA SameQueue ==
    ASSUME ChannelTypeOK, RequestsSound, UNCHANGED <<queue, permits, slots>>
    PROVE  QueueKept
  <1>1. Grows
    BY DEF Grows
  <1>2. RequestsSound'
    BY DEF RequestsSound, RequestSound, Signed
  <1> QED
    BY <1>1, <1>2 DEF QueueKept, ChannelTypeOK

LEMMA MarkKeeps ==
    ASSUME ChannelTypeOK, RequestsSound, UNCHANGED <<permits, slots>>,
           NEW id \in DOMAIN queue, NEW status \in {"failed", "rejected", "refused"},
           queue' = Mark(id, status)
    PROVE  QueueKept
  <1> DEFINE r == [queue[id] EXCEPT !.status = status]
  <1>1. queue' = [queue EXCEPT ![id] = r]
    BY DEF Mark
  <1>2. queue[id] \in Request /\ RequestSound(id, queue[id])
    BY DEF ChannelTypeOK, RequestsSound
  <1>3. r \in Request /\ r.candidate = queue[id].candidate
        /\ r.status = status /\ r.market = queue[id].market
    BY <1>2 DEF Request, OpenStatuses, Ended
  <1>4. RequestSound(id, r)
    BY <1>2, <1>3 DEF RequestSound
  <1> HIDE DEF r
  <1> QED
    BY <1>1, <1>3, <1>4, RewriteKeepsQueue DEF QueueKept

LEMMA PublishedKeeps ==
    ASSUME ChannelTypeOK, RequestsSound, UNCHANGED <<permits, slots>>,
           NEW id \in DOMAIN queue, NEW m \in Nat, queue' = MarkPublished(id, m),
           m # 0 => /\ m \in DOMAIN slots
                    /\ SameQuestion(slots[m].candidate, queue[id].candidate)
    PROVE  QueueKept
  <1> DEFINE r == [queue[id] EXCEPT !.status = "published", !.market = m]
  <1>1. queue' = [queue EXCEPT ![id] = r]
    BY DEF MarkPublished, ChannelTypeOK
  <1>2. queue[id] \in Request /\ RequestSound(id, queue[id])
    BY DEF ChannelTypeOK, RequestsSound
  <1>3. r \in Request /\ r.candidate = queue[id].candidate
        /\ r.status = "published" /\ r.market = m
    BY <1>2 DEF Request, OpenStatuses, Ended
  <1>4. RequestSound(id, r)
    BY <1>2, <1>3 DEF RequestSound
  <1> HIDE DEF r
  <1> QED
    BY <1>1, <1>3, <1>4, RewriteKeepsQueue DEF QueueKept

LEMMA ReopenKeeps ==
    ASSUME ChannelTypeOK, RequestsSound, UNCHANGED <<permits, slots>>,
           NEW id \in DOMAIN queue, queue' = ReopenForPermit(id), Valid(queue[id].candidate)
    PROVE  QueueKept
  <1> DEFINE n == queue[id].attempts + 1
             r == [queue[id] EXCEPT !.status = "awaiting_permit", !.permit = 0, !.attempts = n]
  <1>1. queue' = [queue EXCEPT ![id] = r]
    BY DEF ReopenForPermit, ChannelTypeOK
  <1>2. queue[id] \in Request /\ RequestSound(id, queue[id]) /\ n \in Nat
    <2>1. queue[id] \in Request /\ RequestSound(id, queue[id])
      BY DEF ChannelTypeOK, RequestsSound
    <2>2. \A q \in Request : q.attempts + 1 \in Nat
      BY DEF Request
    <2> QED
      BY <2>1, <2>2
  <1> HIDE DEF n
  <1>3. r \in Request /\ r.candidate = queue[id].candidate
        /\ r.status = "awaiting_permit" /\ r.market = queue[id].market
    BY <1>2 DEF Request, OpenStatuses, Ended
  <1>4. RequestSound(id, r)
    BY <1>2, <1>3 DEF RequestSound
  <1> HIDE DEF r
  <1> QED
    BY <1>1, <1>3, <1>4, RewriteKeepsQueue DEF QueueKept

\* The record a tick works on is of a request in the queue, its permit of the same.
LEMMA CurrentSound ==
    ASSUME ChannelInv, NEW t \in Ticks, tick[t].pc \in Busy
    PROVE  LET r == Current(t) IN
           /\ r \in tick[t].work /\ r.id \in DOMAIN queue /\ r.permit \in DOMAIN permits
           /\ permits[r.permit].candidate = queue[r.id].candidate
           /\ Sound(queue[r.id].candidate)
  <1>1. tick[t] \in Task /\ TaskSound(t, tick[t])
    BY DEF ChannelInv, ChannelTypeOK, TasksSound
  <1>2. Current(t) \in tick[t].work
    BY <1>1, OldestIn DEF TaskSound, Current, Task
  <1>3. Signed(Current(t).permit, Current(t).id)
    BY <1>1, <1>2 DEF TaskSound
  <1>4. OfRequest(permits[Current(t).permit])
    BY <1>3 DEF Signed, ChannelInv, PermitsSound
  <1> QED
    BY <1>2, <1>3, <1>4 DEF Signed, OfRequest

\* The market found for the condition of a permit shows the request's own question.
LEMMA FoundForCurrent ==
    ASSUME ChannelInv, NEW t \in Ticks, tick[t].pc \in Busy
    PROVE  LET m == MarketForCondition(permits[Current(t).permit].candidate) IN
           /\ m \in Nat
           /\ m # 0 => /\ m \in DOMAIN slots
                       /\ SameQuestion(slots[m].candidate, queue[Current(t).id].candidate)
  <1> DEFINE c == permits[Current(t).permit].candidate
             m == MarketForCondition(c)
  <1>1. /\ c = queue[Current(t).id].candidate /\ Sound(c)
    BY CurrentSound
  <1>2. m \in Nat /\ (m # 0 => m \in DOMAIN slots /\ Condition(slots[m].candidate) = Condition(c))
    <2> HIDE DEF c
    <2> QED
      BY MarketFound DEF ChannelInv
  <1> HIDE DEF c, m
  <1>3. m # 0 => SameQuestion(slots[m].candidate, c)
    BY <1>1, <1>2, SameRuleSameQuestion DEF Sound, ChannelInv, MarketsStateTheirRule
  <1> QED
    BY <1>1, <1>2, <1>3 DEF c, m

\* What a tick leaves alone, it leaves sound.
LEMMA TickFrame ==
    ASSUME ChannelInv, UNCHANGED <<roomVars, logVars, gateVars, clock, permits>>, QueueKept,
           (tick \in [Ticks -> Task])', TasksSound',
           pending' \subseteq [permit : Nat, by : Ticks \union {0}],
           \A tx \in pending' : tx.permit \in DOMAIN permits
    PROVE  ChannelInv'
  <1> USE DEF roomVars, logVars, gateVars
  <1>1. ChannelTypeOK'
    BY DEF ChannelInv, ChannelTypeOK, QueueKept
  <1>2. PermitsSound'
    BY GrowthKeepsPermits DEF ChannelInv, ChannelTypeOK, QueueKept
  <1>3. MarketsStateTheirRule'
    BY DEF ChannelInv, MarketsStateTheirRule
  <1>4. GateSound(gate)'
    BY GrowthKeepsGate DEF ChannelInv, QueueKept
  <1> QED
    BY <1>1, <1>2, <1>3, <1>4 DEF ChannelInv, QueueKept

LEMMA GoesOn ==
    ASSUME ChannelInv, QueueKept,
           UNCHANGED <<roomVars, logVars, gateVars, clock, permits, pending>>,
           NEW t \in Ticks, NEW work \in SUBSET Work, \A r \in work : Signed(r.permit, r.id),
           \A o \in Ticks \ {t} : o \in reverted => o \in reverted',
           tick' = Continue(t, work, queue')
    PROVE  ChannelInv'
  <1>1. tick' \in [Ticks -> Task] /\ TasksSound'
    BY ContinueKeepsTasks DEF ChannelInv, QueueKept
  <1> QED
    BY <1>1, TickFrame DEF ChannelInv, ChannelTypeOK, PermitsSound

\* A task whose pc, or whose list, changes while the tick waits for nothing.
LEMMA TakesUp ==
    ASSUME ChannelInv, QueueKept, UNCHANGED <<roomVars, logVars, gateVars, clock, permits>>,
           pending' \subseteq [permit : Nat, by : Ticks \union {0}],
           \A tx \in pending' : tx.permit \in DOMAIN permits,
           NEW t \in Ticks, NEW k \in Task, k.pc # "Wait", k.pc # "Prepare",
           \A r \in k.work : Signed(r.permit, r.id), k.pc \in Busy => k.work # {},
           \A o \in Ticks \ {t} : \A i :
               [permit |-> i, by |-> o] \in pending => [permit |-> i, by |-> o] \in pending',
           \A o \in Ticks \ {t} : o \in reverted => o \in reverted',
           tick' = [tick EXCEPT ![t] = k]
    PROVE  ChannelInv'
  <1>1. TaskSound(t, k)'
    BY DEF TaskSound, Signed, QueueKept, Grows
  <1>2. tick' \in [Ticks -> Task] /\ TasksSound'
    BY <1>1, OneTaskMoves DEF ChannelInv, QueueKept
  <1> QED
    BY <1>2, TickFrame

LEMMA RestSigned ==
    ASSUME ChannelInv, NEW t \in Ticks
    PROVE  /\ tick[t] \in Task /\ TaskSound(t, tick[t])
           /\ tick[t].work \in SUBSET Work /\ Rest(t) \in SUBSET Work
           /\ \A r \in tick[t].work : Signed(r.permit, r.id)
           /\ \A r \in Rest(t) : Signed(r.permit, r.id)
  BY DEF ChannelInv, ChannelTypeOK, TasksSound, TaskSound, Task, Rest

LEMMA TickStartKeeps ==
    ASSUME ChannelInv, UNCHANGED <<roomVars, logVars, gateVars, clock>>, NEW t \in Ticks,
           TickStart(t)
    PROVE  ChannelInv'
  <1>1. QueueKept /\ UNCHANGED <<permits, pending, reverted>>
    BY SameQueue DEF TickStart, queueVars, txVars, roomVars, ChannelInv
  <1>2. /\ PermittedIn(queue) \in SUBSET Work
        /\ \A r \in PermittedIn(queue) : Signed(r.permit, r.id)
    BY PermittedWork DEF ChannelInv
  <1>3. CASE PermittedIn(queue) = {}
    <2>1. tick' = Continue(t, {}, queue')
      BY <1>3 DEF TickStart, queueVars
    <2> QED
      BY <1>1, <2>1, GoesOn
  <1>4. CASE PermittedIn(queue) # {}
    <2> DEFINE k == [tick[t] EXCEPT !.pc = "Reconcile", !.startedAt = clock,
                                    !.work = PermittedIn(queue)]
    <2>1. tick' = [tick EXCEPT ![t] = k]
      BY <1>4 DEF TickStart, ChannelInv, ChannelTypeOK
    <2>2. k \in Task /\ k.pc = "Reconcile" /\ k.work = PermittedIn(queue)
      <3>1. tick[t] \in Task /\ clock \in Nat
        BY DEF ChannelInv, ChannelTypeOK
      <3> QED
        BY <1>2, <3>1 DEF Task, Busy
    <2> HIDE DEF k
    <2> QED
      BY <1>1, <1>2, <1>4, <2>1, <2>2, TakesUp DEF ChannelInv, ChannelTypeOK, PermitsSound
  <1> QED
    BY <1>3, <1>4

LEMMA ReconcileKeeps ==
    ASSUME ChannelInv, UNCHANGED <<roomVars, logVars, gateVars, clock>>, NEW t \in Ticks,
           Reconcile(t)
    PROVE  ChannelInv'
  <1> DEFINE r == Current(t)
             m == MarketForCondition(permits[r.permit].candidate)
  <1>1. tick[t].pc \in Busy /\ UNCHANGED <<permits, slots, pending, reverted>>
    BY DEF Reconcile, Busy, txVars, roomVars
  <1>2. \/ UNCHANGED queue
        \/ queue' = MarkPublished(r.id, m)
        \/ queue' = MarkPublished(r.id, 0)
    BY DEF Reconcile
  <1>3. QueueKept
    <2>1. /\ r.id \in DOMAIN queue /\ m \in Nat
          /\ m # 0 => m \in DOMAIN slots /\ SameQuestion(slots[m].candidate, queue[r.id].candidate)
      BY <1>1, CurrentSound, FoundForCurrent
    <2> HIDE DEF r, m
    <2> QED
      BY <1>1, <1>2, <2>1, SameQueue, PublishedKeeps DEF ChannelInv
  <1>4. CASE Rest(t) # {}
    <2> DEFINE k == [tick[t] EXCEPT !.work = Rest(t)]
    <2>1. tick' = [tick EXCEPT ![t] = k]
      BY <1>4 DEF Reconcile
    <2>2. k \in Task /\ k.pc = "Reconcile" /\ k.work = Rest(t)
      BY RestSigned DEF Task, Reconcile
    <2> HIDE DEF k
    <2> QED
      BY <1>1, <1>3, <1>4, <2>1, <2>2, RestSigned, TakesUp
         DEF ChannelInv, ChannelTypeOK, PermitsSound
  <1>5. CASE Rest(t) = {}
    <2>1. tick' = Continue(t, PermittedIn(queue'), queue')
      BY <1>5 DEF Reconcile
    <2>2. /\ PermittedIn(queue') \in SUBSET Work
          /\ \A i \in PermittedIn(queue') : Signed(i.permit, i.id)
      <3>1. queue' \in Seq(Request) /\ RequestsSound'
        BY <1>3 DEF QueueKept
      <3>2. ASSUME NEW id \in IdsWith(queue', "permitted")
            PROVE  /\ id \in Nat /\ Signed(queue'[id].permit, id)
                   /\ queue'[id].permit \in Nat /\ queue'[id].attempts \in Nat
        <4>1. id \in DOMAIN queue' /\ queue'[id].status = "permitted"
          BY DEF IdsWith
        <4>2. id \in Nat /\ queue'[id] \in Request
          BY <3>1, <4>1
        <4>3. RequestSound(id, queue[id])'
          BY <3>1, <4>1 DEF RequestsSound
        <4>4. Signed(queue'[id].permit, id)
          BY <1>1, <4>1, <4>3 DEF RequestSound, Signed
        <4> QED
          BY <4>2, <4>4 DEF Request
      <3> QED
        BY <3>2 DEF PermittedIn, Work
    <2> QED
      BY <1>1, <1>3, <2>1, <2>2, GoesOn
  <1> QED
    BY <1>4, <1>5

LEMMA CheckPermitKeeps ==
    ASSUME ChannelInv, UNCHANGED <<roomVars, logVars, gateVars, clock>>, NEW t \in Ticks,
           CheckPermit(t)
    PROVE  ChannelInv'
  <1> DEFINE r == Current(t)
  <1>1. tick[t].pc \in Busy /\ UNCHANGED <<permits, slots, pending, reverted>>
    BY DEF CheckPermit, Busy, txVars, roomVars
  <1>2. \/ /\ queue' = Mark(r.id, "failed") \/ queue' = ReopenForPermit(r.id)
           /\ tick' = Continue(t, Rest(t), queue')
        \/ UNCHANGED queue /\ tick' = [tick EXCEPT ![t].pc = "Send"]
    BY DEF CheckPermit
  <1>3. QueueKept
    <2>1. r.id \in DOMAIN queue /\ Valid(queue[r.id].candidate)
      BY <1>1, CurrentSound DEF Sound
    <2> HIDE DEF r
    <2> QED
      BY <1>1, <1>2, <2>1, SameQueue, MarkKeeps, ReopenKeeps DEF ChannelInv
  <1>4. CASE tick' = Continue(t, Rest(t), queue')
    BY <1>1, <1>3, <1>4, RestSigned, GoesOn
  <1>5. CASE tick' = [tick EXCEPT ![t].pc = "Send"]
    <2> DEFINE k == [tick[t] EXCEPT !.pc = "Send"]
    <2>1. tick' = [tick EXCEPT ![t] = k]
      BY <1>5
    <2>2. k \in Task /\ k.pc = "Send" /\ k.work = tick[t].work /\ k.work # {}
      BY <1>1, RestSigned DEF Task, Busy, TaskSound
    <2> HIDE DEF k
    <2> QED
      BY <1>1, <1>3, <2>1, <2>2, RestSigned, TakesUp
         DEF ChannelInv, ChannelTypeOK, PermitsSound
  <1> QED
    BY <1>2, <1>4, <1>5

\* A task that failed on the way to the room, or was refused by it.
LEMMA CatchesKeeps ==
    ASSUME ChannelInv, QueueKept, UNCHANGED <<roomVars, logVars, gateVars, clock, permits>>,
           pending' \subseteq [permit : Nat, by : Ticks \union {0}],
           \A tx \in pending' : tx.permit \in DOMAIN permits,
           NEW t \in Ticks, tick[t].pc \in Busy, NEW refusal \in BOOLEAN, NEW before \in Nat,
           \A o \in Ticks \ {t} : \A i :
               [permit |-> i, by |-> o] \in pending => [permit |-> i, by |-> o] \in pending',
           \A o \in Ticks \ {t} : o \in reverted => o \in reverted',
           tick' = [tick EXCEPT ![t] = [tick[t] EXCEPT !.pc = "Catch", !.refusal = refusal,
                                                       !.before = before]]
    PROVE  ChannelInv'
  <1> DEFINE k == [tick[t] EXCEPT !.pc = "Catch", !.refusal = refusal, !.before = before]
  <1>1. k \in Task /\ k.pc = "Catch" /\ k.work = tick[t].work /\ k.work # {}
    BY RestSigned DEF Task, Busy, TaskSound
  <1>2. tick' = [tick EXCEPT ![t] = k]
    OBVIOUS
  <1> HIDE DEF k
  <1> QED
    BY <1>1, <1>2, RestSigned, TakesUp DEF ChannelInv

\* A task that waits for the transaction it has sent.
LEMMA WaitsFor ==
    ASSUME ChannelInv, QueueKept, UNCHANGED <<roomVars, logVars, gateVars, clock, permits>>,
           NEW t \in Ticks, NEW k \in Task, NEW p \in DOMAIN permits, k.pc = "Wait",
           k.work # {}, k.work = tick[t].work, p = Oldest(k.work).permit,
           k.before = permits[p].slotIndex, tick' = [tick EXCEPT ![t] = k],
           pending' = pending \union {[permit |-> p, by |-> t]}, UNCHANGED reverted
    PROVE  ChannelInv'
  <1>1. p \in Nat /\ pending \subseteq [permit : Nat, by : Ticks \union {0}]
    BY DEF ChannelInv, ChannelTypeOK
  <1>2. /\ pending' \subseteq [permit : Nat, by : Ticks \union {0}]
        /\ \A tx \in pending' : tx.permit \in DOMAIN permits
    BY <1>1 DEF ChannelInv, PermitsSound
  <1>3. Awaits(t, k)'
    BY DEF Awaits
  <1>4. TaskSound(t, k)'
    <2>1. \A r \in k.work : Signed(r.permit, r.id)'
      BY RestSigned DEF Signed
    <2> QED
      BY <1>3, <2>1 DEF TaskSound, Busy
  <1>5. tick' \in [Ticks -> Task] /\ TasksSound'
    BY <1>4, OneTaskMoves DEF ChannelInv, QueueKept
  <1> QED
    BY <1>2, <1>5, TickFrame

LEMMA SendKeeps ==
    ASSUME ChannelInv, UNCHANGED <<roomVars, logVars, gateVars, clock>>, NEW t \in Ticks,
           Send(t)
    PROVE  ChannelInv'
  <1> DEFINE r == Current(t)
  <1>1. /\ tick[t].pc \in Busy /\ UNCHANGED <<permits, slots, queue>>
        /\ tick \in [Ticks -> Task] /\ tick[t] \in Task
        /\ slots \in Seq(Permit) /\ Len(slots) \in Nat
    BY DEF Send, Busy, queueVars, roomVars, ChannelInv, ChannelTypeOK
  <1>2. QueueKept
    BY <1>1, SameQueue DEF ChannelInv
  <1>3. r.permit \in DOMAIN permits /\ r.permit \in Nat
    BY <1>1, CurrentSound DEF ChannelInv, ChannelTypeOK
  <1>4. CASE PermitAccepted(permits[r.permit])
             /\ pending' = pending \union {[permit |-> r.permit, by |-> t]}
             /\ tick' = [tick EXCEPT ![t].pc = "Wait", ![t].before = Len(slots)]
             /\ UNCHANGED reverted
    <2> DEFINE n == Len(slots)
               k == [tick[t] EXCEPT !.pc = "Wait", !.before = n]
    <2>1. tick' = [tick EXCEPT ![t] = k]
      BY <1>1, <1>4
    <2>2. k \in Task /\ k.pc = "Wait" /\ k.work = tick[t].work /\ k.work # {} /\ k.before = n
      <3> HIDE DEF n
      <3> QED
        BY <1>1, RestSigned DEF Task, Busy, TaskSound, n
    <2>3. n = permits[r.permit].slotIndex
      BY <1>4 DEF PermitAccepted
    <2>4. r = Oldest(k.work)
      BY <2>2 DEF Current
    <2> HIDE DEF k, n, r
    <2> QED
      BY <1>1, <1>2, <1>3, <1>4, <2>1, <2>2, <2>3, <2>4, WaitsFor
  <1>5. CASE UNCHANGED txVars /\ \E refusal \in BOOLEAN :
                 tick' = [tick EXCEPT ![t] = [tick[t] EXCEPT !.pc = "Catch", !.refusal = refusal,
                                                             !.before = tick[t].before]]
    BY <1>1, <1>2, <1>5, CatchesKeeps DEF ChannelInv, ChannelTypeOK, PermitsSound, txVars, Task
  <1>6. CASE /\ UNCHANGED txVars
             /\ \/ tick' = [tick EXCEPT ![t].pc = "Catch", ![t].refusal = TRUE]
                \/ tick' = [tick EXCEPT ![t].pc = "Catch"]
    <2> DEFINE before == tick[t].before
               refusal == tick[t].refusal
               caught(x) == [tick[t] EXCEPT !.pc = "Catch", !.refusal = x, !.before = before]
    <2>1. /\ before \in Nat /\ refusal \in BOOLEAN
          /\ caught(TRUE) = [tick[t] EXCEPT !.pc = "Catch", !.refusal = TRUE]
          /\ caught(refusal) = [tick[t] EXCEPT !.pc = "Catch"]
      BY <1>1 DEF Task
    <2>2. \/ tick' = [tick EXCEPT ![t] = caught(TRUE)]
          \/ tick' = [tick EXCEPT ![t] = caught(refusal)]
      BY <1>1, <1>6, <2>1
    <2>3. \E x \in BOOLEAN : tick' = [tick EXCEPT ![t] = caught(x)]
      <3> HIDE DEF refusal
      <3> QED
        BY <2>1, <2>2
    <2> QED
      BY <1>5, <1>6, <2>3
  <1> QED
    BY <1>4, <1>6 DEF Send, txVars

\* A transaction without a fault was mined where its permit says.
LEMMA ReceiptNamesSlot ==
    ASSUME ChannelInv, NEW t \in Ticks, tick[t].pc = "Wait", ~Unmined(t), t \notin reverted
    PROVE  LET m == tick[t].before + 1 IN
           /\ m \in Nat /\ m \in DOMAIN slots
           /\ SameQuestion(slots[m].candidate, queue[Current(t).id].candidate)
  <1> DEFINE p == Current(t).permit
             m == tick[t].before + 1
  <1>1. /\ tick[t] \in Task /\ Awaits(t, tick[t])
    BY RestSigned DEF TaskSound
  <1>2. permits[p].candidate = queue[Current(t).id].candidate
    BY CurrentSound DEF Busy
  <1>3. m \in DOMAIN slots /\ slots[m] = permits[p]
    BY <1>1 DEF Awaits, Unmined, Current
  <1>4. m \in Nat
    BY <1>1 DEF Task
  <1> QED
    BY <1>2, <1>3, <1>4 DEF SameQuestion

LEMMA ReceiptKeeps ==
    ASSUME ChannelInv, UNCHANGED <<roomVars, logVars, gateVars, clock>>, NEW t \in Ticks,
           Receipt(t)
    PROVE  ChannelInv'
  <1> DEFINE r == Current(t)
             m == tick[t].before + 1
  <1>1. /\ tick[t].pc = "Wait" /\ tick[t].pc \in Busy /\ UNCHANGED <<permits, slots, pending>>
        /\ tick \in [Ticks -> Task] /\ tick[t] \in Task
        /\ \A o \in Ticks \ {t} : o \in reverted => o \in reverted'
    BY DEF Receipt, Busy, roomVars, ChannelInv, ChannelTypeOK
  <1>2. CASE /\ t \notin reverted /\ queue' = MarkPublished(r.id, m)
             /\ tick' = Continue(t, Rest(t), queue')
    <2>1. r.id \in DOMAIN queue
      BY <1>1, CurrentSound
    <2>2. m \in Nat /\ m \in DOMAIN slots /\ SameQuestion(slots[m].candidate, queue[r.id].candidate)
      BY <1>1, <1>2, ReceiptNamesSlot DEF Receipt
    <2>3. QueueKept
      <3> HIDE DEF r, m
      <3> QED
        BY <1>1, <1>2, <2>1, <2>2, PublishedKeeps DEF ChannelInv
    <2> QED
      BY <1>1, <1>2, <2>3, RestSigned, GoesOn
  <1>3. CASE UNCHANGED queue /\ \E refusal \in BOOLEAN :
                 tick' = [tick EXCEPT ![t] = [tick[t] EXCEPT !.pc = "Catch", !.refusal = refusal,
                                                             !.before = 0]]
    <2>1. QueueKept
      BY <1>1, <1>3, SameQueue DEF ChannelInv
    <2> QED
      BY <1>1, <1>3, <2>1, CatchesKeeps DEF ChannelInv, ChannelTypeOK, PermitsSound
  <1>4. CASE /\ UNCHANGED queue
             /\ \/ tick' = [tick EXCEPT ![t].pc = "Catch", ![t].refusal = TRUE, ![t].before = 0]
                \/ tick' = [tick EXCEPT ![t].pc = "Catch", ![t].before = 0]
    <2> DEFINE refusal == tick[t].refusal
               caught(x) == [tick[t] EXCEPT !.pc = "Catch", !.refusal = x, !.before = 0]
    <2>1. refusal \in BOOLEAN /\ caught(refusal) = [tick[t] EXCEPT !.pc = "Catch", !.before = 0]
      BY <1>1 DEF Task
    <2>2. \/ tick' = [tick EXCEPT ![t] = caught(TRUE)]
          \/ tick' = [tick EXCEPT ![t] = caught(refusal)]
      BY <1>1, <1>4, <2>1
    <2>3. \E x \in BOOLEAN : tick' = [tick EXCEPT ![t] = caught(x)]
      <3> HIDE DEF refusal
      <3> QED
        BY <2>1, <2>2
    <2> QED
      BY <1>3, <1>4, <2>3
  <1> QED
    BY <1>2, <1>4 DEF Receipt

LEMMA ReceiptTimeoutKeeps ==
    ASSUME ChannelInv, UNCHANGED <<roomVars, logVars, gateVars, clock>>, NEW t \in Ticks,
           ReceiptTimeout(t)
    PROVE  ChannelInv'
  <1>1. /\ tick[t].pc \in Busy /\ UNCHANGED <<permits, slots, queue, reverted>>
        /\ tick \in [Ticks -> Task] /\ tick[t] \in Task
        /\ pending \subseteq [permit : Nat, by : Ticks \union {0}]
        /\ pending' = {IF tx.by = t THEN [tx EXCEPT !.by = 0] ELSE tx : tx \in pending}
    BY DEF ReceiptTimeout, Busy, queueVars, roomVars, ChannelInv, ChannelTypeOK
  <1>2. QueueKept
    BY <1>1, SameQueue DEF ChannelInv
  <1>3. /\ pending' \subseteq [permit : Nat, by : Ticks \union {0}]
        /\ \A tx \in pending' : tx.permit \in DOMAIN permits
    <2>1. \A tx \in pending : /\ [tx EXCEPT !.by = 0] \in [permit : Nat, by : Ticks \union {0}]
                              /\ [tx EXCEPT !.by = 0].permit = tx.permit
                              /\ tx.permit \in DOMAIN permits
      BY <1>1 DEF ChannelInv, PermitsSound
    <2> QED
      BY <1>1, <2>1
  <1>4. \A o \in Ticks \ {t} : \A i :
            [permit |-> i, by |-> o] \in pending => [permit |-> i, by |-> o] \in pending'
    <2> SUFFICES ASSUME NEW o \in Ticks \ {t}, NEW i, [permit |-> i, by |-> o] \in pending
                 PROVE  [permit |-> i, by |-> o] \in pending'
      OBVIOUS
    <2> DEFINE tx == [permit |-> i, by |-> o]
    <2>1. tx \in pending /\ tx.by # t
      OBVIOUS
    <2> HIDE DEF tx
    <2>2. tx \in pending'
      BY <1>1, <2>1
    <2> QED
      BY <2>2 DEF tx
  <1>5. tick' = [tick EXCEPT ![t].pc = "Catch", ![t].before = 0]
    BY DEF ReceiptTimeout
  <1>6. \E x \in BOOLEAN :
            tick' = [tick EXCEPT ![t] = [tick[t] EXCEPT !.pc = "Catch", !.refusal = x,
                                                        !.before = 0]]
    <2> DEFINE refusal == tick[t].refusal
    <2>1. /\ refusal \in BOOLEAN
          /\ [tick[t] EXCEPT !.pc = "Catch", !.refusal = refusal, !.before = 0]
                 = [tick[t] EXCEPT !.pc = "Catch", !.before = 0]
      BY <1>1 DEF Task
    <2>2. tick' = [tick EXCEPT ![t] = [tick[t] EXCEPT !.pc = "Catch", !.refusal = refusal,
                                                      !.before = 0]]
      BY <1>1, <1>5, <2>1
    <2> HIDE DEF refusal
    <2> QED
      BY <2>1, <2>2
  <1> QED
    BY <1>1, <1>2, <1>3, <1>4, <1>6, CatchesKeeps

LEMMA CatchKeeps ==
    ASSUME ChannelInv, UNCHANGED <<roomVars, logVars, gateVars, clock>>, NEW t \in Ticks,
           Catch(t)
    PROVE  ChannelInv'
  <1> DEFINE r == Current(t)
             m == MarketForCondition(permits[r.permit].candidate)
  <1>1. tick[t].pc \in Busy /\ UNCHANGED <<permits, slots, pending, reverted>>
    BY DEF Catch, Busy, txVars, roomVars
  <1>2. \/ UNCHANGED queue
        \/ queue' = Mark(r.id, "failed")
        \/ queue' = MarkPublished(r.id, m)
    BY DEF Catch
  <1>3. QueueKept
    <2>1. /\ r.id \in DOMAIN queue /\ m \in Nat
          /\ m # 0 => m \in DOMAIN slots /\ SameQuestion(slots[m].candidate, queue[r.id].candidate)
      BY <1>1, CurrentSound, FoundForCurrent
    <2> HIDE DEF r, m
    <2> QED
      BY <1>1, <1>2, <2>1, SameQueue, MarkKeeps, PublishedKeeps DEF ChannelInv
  <1>4. tick' = Continue(t, Rest(t), queue')
    BY DEF Catch
  <1> QED
    BY <1>1, <1>3, <1>4, RestSigned, GoesOn

LEMMA PrepareKeeps ==
    ASSUME ChannelInv, UNCHANGED <<roomVars, logVars, gateVars, clock>>, NEW t \in Ticks,
           Prepare(t)
    PROVE  ChannelInv'
  <1> DEFINE id == tick[t].next
             c == queue[id].candidate
  <1>1. UNCHANGED <<permits, slots, pending, reverted>>
    BY DEF Prepare, txVars, roomVars
  <1>2. id \in DOMAIN queue
    BY RestSigned DEF TaskSound, Prepare
  <1>3. \/ /\ Valid(c)
           /\ queue' = [queue EXCEPT ![id].status = "awaiting_permit", ![id].permit = 0]
        \/ queue' = Mark(id, "rejected")
    BY DEF Prepare, Valid
  <1> HIDE DEF id
  <1>4. QueueKept
    <2>1. CASE queue' = Mark(id, "rejected")
      BY <1>1, <1>2, <2>1, MarkKeeps DEF ChannelInv
    <2>2. CASE /\ Valid(c)
               /\ queue' = [queue EXCEPT ![id].status = "awaiting_permit", ![id].permit = 0]
      <3> DEFINE r == [queue[id] EXCEPT !.status = "awaiting_permit", !.permit = 0]
      <3>1. queue' = [queue EXCEPT ![id] = r]
        BY <2>2 DEF ChannelInv, ChannelTypeOK
      <3>2. queue[id] \in Request /\ RequestSound(id, queue[id])
        BY <1>2 DEF ChannelInv, ChannelTypeOK, RequestsSound
      <3>3. r \in Request /\ r.candidate = queue[id].candidate
            /\ r.status = "awaiting_permit" /\ r.market = queue[id].market
        BY <3>2 DEF Request, OpenStatuses, Ended
      <3>4. RequestSound(id, r)
        BY <2>2, <3>2, <3>3 DEF RequestSound
      <3> HIDE DEF r
      <3> QED
        BY <1>1, <1>2, <3>1, <3>3, <3>4, RewriteKeepsQueue DEF QueueKept, ChannelInv
    <2> QED
      BY <1>3, <2>1, <2>2
  <1>5. tick' = [tick EXCEPT ![t] = NoTask]
    BY DEF Prepare
  <1>6. NoTask \in Task /\ NoTask.pc = "Idle" /\ NoTask.work = {}
    BY DEF NoTask, Task
  <1>7. NoTask.pc \notin Busy
    BY <1>6 DEF Busy
  <1> QED
    BY <1>1, <1>4, <1>5, <1>6, <1>7, TakesUp DEF ChannelInv, ChannelTypeOK, PermitsSound

-------------------------------------------------------------------------------
(* The permit server. *)

\* A step of the server that signs nothing.
LEMMA ServerFrame ==
    ASSUME ChannelInv, QueueKept, UNCHANGED <<roomVars, logVars, txVars, tick, clock>>,
           UNCHANGED <<permits, storedNonce>>, nextNonce' \in Nat, storedNonce <= nextNonce',
           NEW g \in GateTask, gate' = g, GateSound(g)'
    PROVE  ChannelInv'
  <1> USE DEF roomVars, logVars, txVars
  <1>1. ChannelTypeOK'
    BY DEF ChannelInv, ChannelTypeOK, QueueKept
  <1>2. PermitsSound'
    BY GrowthKeepsPermits DEF ChannelInv, ChannelTypeOK, PermitsSound, QueueKept
  <1>3. MarketsStateTheirRule'
    BY DEF ChannelInv, MarketsStateTheirRule
  <1>4. TasksSound'
    BY GrowthKeepsTasks DEF ChannelInv, QueueKept
  <1>5. GateSound(gate)'
    <2>1. \A h : h = g => GateSound(h)'
      OBVIOUS
    <2> QED
      BY <2>1
  <1> QED
    BY <1>1, <1>2, <1>3, <1>4, <1>5 DEF ChannelInv, QueueKept

LEMMA GateWork ==
    ASSUME ChannelInv, gate.pc # "Idle"
    PROVE  /\ gate \in GateTask /\ gate.work \in SUBSET Nat /\ First(gate.work) \in gate.work
           /\ First(gate.work) \in DOMAIN queue /\ Valid(queue[First(gate.work)].candidate)
  <1>1. gate \in GateTask /\ gate.work \in SUBSET Nat /\ gate.work # {}
    BY DEF ChannelInv, ChannelTypeOK, GateSound, GateTask
  <1>2. First(gate.work) \in gate.work
    BY <1>1, FirstIn
  <1> QED
    BY <1>1, <1>2 DEF ChannelInv, GateSound

LEMMA RestTask == GateAtRest \in GateTask /\ GateAtRest.pc = "Idle" /\ GateAtRest.work = {}
  BY DEF GateAtRest, GateTask, SlotIndices

\* The server goes on with the requests it has left.
LEMMA NextRequestKeeps ==
    ASSUME ChannelInv, QueueKept, UNCHANGED <<roomVars, logVars, txVars, tick, clock>>,
           UNCHANGED <<permits, nextNonce, storedNonce>>, gate.pc # "Idle", gate' = NextRequest
    PROVE  ChannelInv'
  <1> DEFINE rest == gate.work \ {First(gate.work)}
             ask == [GateAtRest EXCEPT !.pc = "Ask", !.work = rest]
             g == IF rest = {} THEN GateAtRest ELSE ask
  <1>1. rest \in SUBSET Nat /\ \A id \in rest : id \in DOMAIN queue /\ Valid(queue[id].candidate)
    BY GateWork DEF ChannelInv, GateSound
  <1>2. ask \in GateTask /\ ask.pc = "Ask" /\ ask.work = rest
    <2> HIDE DEF rest
    <2> QED
      BY <1>1 DEF GateAtRest, GateTask, SlotIndices
  <1>3. gate' = g
    BY DEF NextRequest
  <1>4. /\ g \in GateTask /\ g.pc \in {"Idle", "Ask"} /\ (g.pc = "Ask" => g.work # {})
        /\ \A id \in g.work : id \in DOMAIN queue /\ Valid(queue[id].candidate)
    <2> HIDE DEF ask, rest
    <2> QED
      BY <1>1, <1>2, RestTask
  <1> HIDE DEF g
  <1>5. ASSUME NEW h, h = g PROVE GateSound(h)'
    BY <1>4, <1>5 DEF GateSound, QueueKept, Grows
  <1>6. storedNonce <= nextNonce /\ nextNonce \in Nat
    BY DEF ChannelInv, ChannelTypeOK
  <1> QED
    BY <1>3, <1>4, <1>5, <1>6, ServerFrame

LEMMA ServeStartKeeps ==
    ASSUME ChannelInv, UNCHANGED <<roomVars, logVars, txVars, tick, clock>>, ServeStart
    PROVE  ChannelInv'
  <1> DEFINE waiting == IdsWith(queue, "awaiting_permit")
             served == {id \in waiting : Cardinality({o \in waiting : o < id}) < MaxPerTick}
             g == [GateAtRest EXCEPT !.pc = "Ask", !.work = served]
  <1>1. /\ QueueKept /\ UNCHANGED <<permits, nextNonce, storedNonce>>
    BY SameQueue DEF ServeStart, ChannelInv, roomVars
  <1>2. waiting \in SUBSET Nat /\ waiting # {}
    BY DEF ServeStart, IdsWith, ChannelInv, ChannelTypeOK
  <1>3. \A id \in waiting : id \in DOMAIN queue /\ Valid(queue[id].candidate)
    BY DEF IdsWith, ChannelInv, RequestsSound, RequestSound
  <1>4. First(waiting) \in served
    <2> DEFINE first == First(waiting)
    <2>1. first \in waiting /\ \A o \in waiting : first <= o
      <3>1. \E x \in waiting : \A y \in waiting : x <= y
        BY <1>2, LeastNat
      <3> QED
        BY <3>1 DEF First
    <2>2. {o \in waiting : o < first} = {}
      <3> HIDE DEF waiting, first
      <3>1. first \in Nat /\ \A o \in waiting : o \in Nat /\ first <= o
        BY <1>2, <2>1
      <3>2. \A o \in waiting : ~(o < first)
        BY <3>1
      <3> QED
        BY <3>2
    <2>3. Cardinality({}) = 0 /\ MaxPerTick \in Nat \ {0}
      BY FS_EmptySet, PublicationAssumption
    <2> HIDE DEF waiting, first
    <2> QED
      BY <2>1, <2>2, <2>3 DEF first
  <1>5. g \in GateTask /\ g.pc = "Ask" /\ g.work = served
    <2>1. served \in SUBSET Nat
      BY <1>2
    <2> HIDE DEF served
    <2> QED
      BY <2>1 DEF GateAtRest, GateTask, SlotIndices
  <1>6. gate' = g
    BY DEF ServeStart
  <1>7. served # {} /\ \A id \in served : id \in DOMAIN queue /\ Valid(queue[id].candidate)
    BY <1>3, <1>4
  <1> HIDE DEF g, served, waiting
  <1>8. ASSUME NEW h, h = g PROVE GateSound(h)'
    BY <1>1, <1>5, <1>7, <1>8 DEF GateSound, QueueKept, Grows
  <1>9. storedNonce <= nextNonce /\ nextNonce \in Nat
    BY DEF ChannelInv, ChannelTypeOK
  <1> QED
    BY <1>1, <1>5, <1>6, <1>8, <1>9, ServerFrame

LEMMA AskKeeps ==
    ASSUME ChannelInv, UNCHANGED <<roomVars, logVars, txVars, tick, clock>>, Ask
    PROVE  ChannelInv'
  <1> DEFINE asked == queue[First(gate.work)].candidate.slotIndex
             at == IF asked = Unnamed THEN Len(slots) ELSE asked
             g == [gate EXCEPT !.pc = "Evaluate", !.evaluated = tip, !.slotIndex = at]
  <1>1. /\ QueueKept /\ UNCHANGED <<permits, nextNonce, storedNonce>> /\ gate.pc # "Idle"
    BY SameQueue DEF Ask, ChannelInv, roomVars
  <1>2. CASE gate' = NextRequest
    BY <1>1, <1>2, NextRequestKeeps
  <1>3. CASE gate' = g
    <2>1. at \in SlotIndices /\ tip \in Nat
      <3>1. First(gate.work) \in DOMAIN queue
        BY <1>1, GateWork
      <3>2. Len(slots) \in Nat /\ tip \in Nat
        BY DEF ChannelInv, ChannelTypeOK
      <3>3. queue[First(gate.work)] \in Request
        BY <3>1 DEF ChannelInv, ChannelTypeOK
      <3>4. queue[First(gate.work)].candidate \in Candidates
        BY <3>3 DEF Request
      <3> QED
        BY <3>2, <3>4 DEF SlotIndices
    <2> HIDE DEF at
    <2>2. g \in GateTask /\ g.pc = "Evaluate" /\ g.work = gate.work /\ gate.work # {}
      BY <1>1, <2>1, GateWork DEF GateTask
    <2>3. \A id \in gate.work : id \in DOMAIN queue /\ Valid(queue[id].candidate)
      BY DEF ChannelInv, GateSound
    <2> HIDE DEF g
    <2>4. ASSUME NEW h, h = g PROVE GateSound(h)'
      BY <1>1, <2>2, <2>3, <2>4 DEF GateSound, QueueKept, Grows
    <2>5. storedNonce <= nextNonce /\ nextNonce \in Nat
      BY DEF ChannelInv, ChannelTypeOK
    <2> QED
      BY <1>1, <1>3, <2>2, <2>4, <2>5, ServerFrame
  <1> QED
    BY <1>2, <1>3 DEF Ask

\* The permit the server signs is of the request it evaluated, whose words are its rule.
LEMMA EvaluateKeeps ==
    ASSUME ChannelInv, UNCHANGED <<roomVars, logVars, txVars, tick, clock>>,
           NEW halted \in BOOLEAN, Evaluate(halted)
    PROVE  ChannelInv'
  <1> DEFINE id == First(gate.work)
             c == queue[id].candidate
             p == [id |-> id, candidate |-> c, slotIndex |-> gate.slotIndex,
                   undecidedThrough |-> tip, issuedAt |-> clock,
                   expiresAt |-> clock + MaxPermitLifetime, nonce |-> nextNonce]
             g == [gate EXCEPT !.pc = "Save", !.permit = p]
  <1>1. gate.pc = "Evaluate" /\ gate.pc # "Idle" /\ UNCHANGED <<permits, storedNonce, slots>>
    BY DEF Evaluate, roomVars
  <1>2. id \in DOMAIN queue /\ Valid(c) /\ id \in Nat /\ gate \in GateTask
        /\ id \in gate.work /\ gate.work \in SUBSET Nat
    BY <1>1, GateWork
  <1>3. /\ nextNonce \in Nat /\ storedNonce \in Nat /\ storedNonce <= nextNonce
        /\ tip \in Nat /\ clock \in Nat /\ queue[id] \in Request
    BY <1>2 DEF ChannelInv, ChannelTypeOK
  <1>4. CASE queue' = Mark(id, "refused") /\ gate' = NextRequest /\ UNCHANGED nextNonce
    <2>1. QueueKept
      <3> HIDE DEF id
      <3> QED
        BY <1>1, <1>2, <1>4, MarkKeeps DEF ChannelInv
    <2> QED
      BY <1>1, <1>4, <2>1, NextRequestKeeps
  <1>5. CASE gate' = NextRequest /\ UNCHANGED <<queue, nextNonce>>
    <2>1. QueueKept
      BY <1>1, <1>5, SameQueue DEF ChannelInv
    <2> QED
      BY <1>1, <1>5, <2>1, NextRequestKeeps
  <1>6. CASE /\ QuestionMatches(c) /\ gate' = g
             /\ nextNonce' = nextNonce + 1 /\ UNCHANGED queue
    <2>1. QueueKept
      BY <1>1, <1>6, SameQueue DEF ChannelInv
    <2>2. p \in Permit
      <3>1. c \in Candidates /\ gate.slotIndex \in SlotIndices
        BY <1>2, <1>3 DEF Request, GateTask
      <3>2. clock + MaxPermitLifetime \in Nat
        BY <1>3, PublicationAssumption
      <3> HIDE DEF id, c
      <3> QED
        BY <1>2, <1>3, <3>1, <3>2 DEF Permit
    <2>3. p.id = id /\ p.candidate = c /\ p.nonce = nextNonce
      OBVIOUS
    <2>4. OfRequest(p)
      BY <1>2, <1>6, <2>3 DEF OfRequest, Sound
    <2> HIDE DEF p
    <2>5. g \in GateTask /\ g.pc = "Save" /\ g.work = gate.work /\ g.permit = p
      BY <1>2, <2>2 DEF GateTask
    <2>6. \A i \in gate.work : i \in DOMAIN queue /\ Valid(queue[i].candidate)
      BY DEF ChannelInv, GateSound
    <2>7. /\ p \in Permit /\ p.id = First(gate.work)
          /\ storedNonce <= p.nonce /\ p.nonce < nextNonce' /\ nextNonce' \in Nat
          /\ storedNonce <= nextNonce'
      BY <1>3, <1>6, <2>2, <2>3
    <2> HIDE DEF id, c, g
    <2>8. ASSUME NEW h, h = g PROVE GateSound(h)'
      <3>1. UNCHANGED <<queue, storedNonce>>
        BY <1>1, <1>6
      <3>2. OfRequest(h.permit)'
        BY <2>4, <2>5, <2>8, <3>1 DEF OfRequest
      <3> QED
        BY <1>2, <2>5, <2>6, <2>7, <2>8, <3>1, <3>2 DEF GateSound
    <2> QED
      BY <1>1, <1>6, <2>1, <2>5, <2>7, <2>8, ServerFrame
  <1> QED
    BY <1>4, <1>5, <1>6 DEF Evaluate

\* The counter is saved past the permit before the permit is handed out.
LEMMA SaveKeeps ==
    ASSUME ChannelInv, UNCHANGED <<roomVars, logVars, txVars, tick, clock>>, Save
    PROVE  ChannelInv'
  <1> USE DEF roomVars, logVars, txVars
  <1> DEFINE p == gate.permit
             n == Len(permits) + 1
             g == [gate EXCEPT !.pc = "Answer"]
  <1>1. /\ gate.pc = "Save" /\ storedNonce' = nextNonce /\ permits' = Append(permits, p)
        /\ gate' = g /\ UNCHANGED <<queue, nextNonce>>
    BY DEF Save
  <1>2. /\ p \in Permit /\ OfRequest(p) /\ p.id = First(gate.work)
        /\ storedNonce <= p.nonce /\ p.nonce < nextNonce
        /\ permits \in Seq(Permit) /\ nextNonce \in Nat /\ storedNonce \in Nat /\ p.nonce \in Nat
        /\ storedNonce <= nextNonce /\ queue \in Seq(Request)
    BY <1>1 DEF ChannelInv, ChannelTypeOK, GateSound, Permit
  <1> HIDE DEF p
  <1>3. /\ permits' \in Seq(Permit) /\ DOMAIN permits' = DOMAIN permits \union {n}
        /\ permits'[n] = p /\ n \notin DOMAIN permits /\ Len(permits') = n
        /\ \A k \in DOMAIN permits : permits'[k] = permits[k]
    BY <1>1, <1>2
  <1>4. Grows
    BY <1>1, <1>3 DEF Grows
  <1>5. RequestsSound'
    <2>1. ASSUME NEW id \in DOMAIN queue, NEW r, r = queue[id] PROVE RequestSound(id, r)'
      <3>1. RequestSound(id, r)
        BY <2>1 DEF ChannelInv, RequestsSound
      <3> QED
        BY <1>4, <3>1, GrowthKeepsRequest
    <2> QED
      BY <1>1, <2>1 DEF RequestsSound
  <1>6. PermitsSound'
    <2>1. \A k \in DOMAIN permits : permits[k].nonce \in Nat /\ permits[k].nonce < storedNonce
      <3>1. \A k \in DOMAIN permits : permits[k] \in Permit
        BY <1>2
      <3>2. \A k \in DOMAIN permits : permits[k].nonce < storedNonce
        BY DEF ChannelInv, PermitsSound
      <3> QED
        BY <3>1, <3>2 DEF Permit
    <2>2. \A k \in DOMAIN permits' : OfRequest(permits'[k]) /\ permits'[k].nonce < storedNonce'
      <3>1. \A k \in DOMAIN permits : OfRequest(permits[k])
        BY DEF ChannelInv, PermitsSound
      <3>2. \A k \in DOMAIN permits : permits[k].nonce < nextNonce
        BY <1>2, <2>1
      <3> QED
        BY <1>1, <1>2, <1>3, <3>1, <3>2
    <2>3. \A k \in DOMAIN permits' : OfRequest(permits[k])'
      BY <1>1, <2>2 DEF OfRequest
    <2>4. \A k, l \in DOMAIN permits' : permits'[k].nonce = permits'[l].nonce => k = l
      <3>1. \A k \in DOMAIN permits : permits[k].nonce < p.nonce
        BY <1>2, <2>1
      <3>2. \A k \in DOMAIN permits : permits[k].nonce # p.nonce
        BY <1>2, <2>1, <3>1
      <3>3. \A k, l \in DOMAIN permits : permits[k].nonce = permits[l].nonce => k = l
        BY DEF ChannelInv, PermitsSound, NoncesNeverReissued
      <3> QED
        BY <1>3, <3>2, <3>3
    <2>5. \A tx \in pending : tx.permit \in DOMAIN permits'
      BY <1>3 DEF ChannelInv, PermitsSound
    <2> QED
      BY <2>2, <2>3, <2>4, <2>5 DEF PermitsSound, NoncesNeverReissued
  <1>7. g \in GateTask /\ g.pc = "Answer" /\ g.work = gate.work
    BY DEF ChannelInv, ChannelTypeOK, GateTask
  <1> HIDE DEF g
  <1>8. ASSUME NEW h, h = g PROVE GateSound(h)'
    <2>1. h.work # {} /\ \A id \in h.work : id \in DOMAIN queue' /\ Valid(queue'[id].candidate)
      BY <1>1, <1>7, <1>8 DEF ChannelInv, GateSound
    <2>2. Len(permits') \in DOMAIN permits' /\ permits'[Len(permits')].id = First(h.work)
      BY <1>2, <1>3, <1>7, <1>8
    <2> QED
      BY <1>7, <1>8, <2>1, <2>2 DEF GateSound, Signed
  <1>9. GateSound(gate)'
    BY <1>1, <1>8
  <1>10. TasksSound' /\ MarketsStateTheirRule'
    BY <1>4, GrowthKeepsTasks DEF ChannelInv, MarketsStateTheirRule
  <1>11. ChannelTypeOK'
    BY <1>1, <1>2, <1>3, <1>7 DEF ChannelInv, ChannelTypeOK
  <1> QED
    BY <1>1, <1>2, <1>5, <1>6, <1>9, <1>10, <1>11 DEF ChannelInv

LEMMA AnswerKeeps ==
    ASSUME ChannelInv, UNCHANGED <<roomVars, logVars, txVars, tick, clock>>, Answer
    PROVE  ChannelInv'
  <1> DEFINE id == First(gate.work)
             k == Len(permits)
             r == [queue[id] EXCEPT !.status = "permitted", !.permit = k]
  <1>1. /\ gate.pc = "Answer" /\ gate.pc # "Idle" /\ gate' = NextRequest
        /\ UNCHANGED <<permits, slots, nextNonce, storedNonce>>
    BY DEF Answer, roomVars
  <1>2. id \in DOMAIN queue /\ Signed(k, id) /\ k \in Nat
    BY <1>1, GateWork DEF ChannelInv, ChannelTypeOK, GateSound
  <1>3. queue[id] \in Request /\ RequestSound(id, queue[id])
    BY <1>2 DEF ChannelInv, ChannelTypeOK, RequestsSound
  <1>4. queue' = [queue EXCEPT ![id] = r]
    BY DEF Answer, ChannelInv, ChannelTypeOK
  <1> HIDE DEF id, k
  <1>5. r \in Request /\ r.candidate = queue[id].candidate
        /\ r.status = "permitted" /\ r.market = queue[id].market /\ r.permit = k
    BY <1>2, <1>3 DEF Request, OpenStatuses, Ended
  <1>6. RequestSound(id, r)
    BY <1>2, <1>3, <1>5 DEF RequestSound
  <1> HIDE DEF r
  <1>7. QueueKept
    BY <1>1, <1>2, <1>4, <1>5, <1>6, RewriteKeepsQueue DEF QueueKept, ChannelInv
  <1> QED
    BY <1>1, <1>7, NextRequestKeeps

-------------------------------------------------------------------------------
(* The room, the log, the clock, and crashes. *)

LEMMA SubmitKeeps ==
    ASSUME ChannelInv, NEW c \in Candidates, Submit(c)
    PROVE  ChannelInv'
  <1> USE DEF roomVars, logVars, txVars, gateVars
  <1> DEFINE r == NewRequest(c)
             n == Len(queue) + 1
  <1>1. /\ queue' = Append(queue, r)
        /\ UNCHANGED <<permits, slots, pending, reverted, tick, gate, nextNonce, storedNonce,
                       tip, clock>>
    BY DEF Submit
  <1>2. /\ r \in Request /\ r.status = "queued" /\ r.market = 0
    BY DEF NewRequest, Request, OpenStatuses
  <1> HIDE DEF r
  <1>3. queue \in Seq(Request)
    BY DEF ChannelInv, ChannelTypeOK
  <1>4. /\ queue' \in Seq(Request) /\ DOMAIN queue' = DOMAIN queue \union {n} /\ queue'[n] = r
        /\ \A id \in DOMAIN queue : queue'[id] = queue[id]
    BY <1>1, <1>2, <1>3
  <1>5. Grows
    BY <1>1, <1>4 DEF Grows
  <1>6. RequestsSound'
    <2>1. ASSUME NEW id \in DOMAIN queue, NEW q, q = queue[id] PROVE RequestSound(id, q)'
      <3>1. RequestSound(id, q)
        BY <2>1 DEF ChannelInv, RequestsSound
      <3> QED
        BY <1>5, <3>1, GrowthKeepsRequest
    <2>2. ASSUME NEW q, q = r PROVE RequestSound(n, q)'
      BY <1>2, <2>2 DEF RequestSound
    <2>3. ASSUME NEW id \in DOMAIN queue' PROVE RequestSound(id, queue[id])'
      <3>1. CASE id \in DOMAIN queue
        BY <1>4, <2>1, <3>1
      <3>2. CASE id = n
        BY <1>2, <1>4, <3>2 DEF RequestSound
      <3> QED
        BY <1>4, <3>1, <3>2
    <2> QED
      BY <2>3 DEF RequestsSound
  <1>7. PermitsSound' /\ TasksSound' /\ GateSound(gate)' /\ MarketsStateTheirRule'
    <2>1. storedNonce \in Nat /\ PermitsSound
      BY DEF ChannelInv, ChannelTypeOK
    <2> QED
      BY <1>1, <1>5, <2>1, GrowthKeepsPermits, GrowthKeepsTasks, GrowthKeepsGate
         DEF ChannelInv, MarketsStateTheirRule, PermitsSound
  <1>8. ChannelTypeOK'
    BY <1>1, <1>4 DEF ChannelInv, ChannelTypeOK
  <1> QED
    BY <1>1, <1>6, <1>7, <1>8 DEF ChannelInv

\* A transaction is mined at the slot its permit names, or refused and noted.
LEMMA MineKeeps ==
    ASSUME ChannelInv, NEW tx \in pending, Mine(tx)
    PROVE  ChannelInv'
  <1> USE DEF queueVars, gateVars, logVars
  <1> DEFINE p == permits[tx.permit]
  <1>1. /\ UNCHANGED <<queue, permits, gate, nextNonce, storedNonce, tip, clock, tick>>
        /\ pending' = pending \ {tx}
    BY DEF Mine
  <1>2. /\ tx.permit \in DOMAIN permits /\ p \in Permit /\ OfRequest(p)
        /\ tx \in [permit : Nat, by : Ticks \union {0}] /\ slots \in Seq(Permit)
    BY DEF ChannelInv, ChannelTypeOK, PermitsSound
  <1>3. \/ /\ p.slotIndex = Len(slots) /\ slots' = Append(slots, p) /\ UNCHANGED reverted
        \/ /\ UNCHANGED slots /\ reverted' = reverted \union ({tx.by} \ {0})
    BY DEF Mine, PermitAccepted
  <1> HIDE DEF p
  <1>4. /\ slots' \in Seq(Permit)
        /\ \A s \in DOMAIN slots : s \in DOMAIN slots' /\ slots'[s] = slots[s]
        /\ \A s \in DOMAIN slots' \ DOMAIN slots : slots'[s] = p
    BY <1>2, <1>3
  <1>5. Grows
    BY <1>1, <1>4 DEF Grows
  <1>6. RequestsSound'
    <2>1. ASSUME NEW id \in DOMAIN queue, NEW q, q = queue[id] PROVE RequestSound(id, q)'
      <3>1. RequestSound(id, q)
        BY <2>1 DEF ChannelInv, RequestsSound
      <3> QED
        BY <1>5, <3>1, GrowthKeepsRequest
    <2> QED
      BY <1>1, <2>1 DEF RequestsSound
  <1>7. PermitsSound' /\ GateSound(gate)'
    <2>1. storedNonce \in Nat /\ \A x \in pending' : x.permit \in DOMAIN permits
      BY <1>1 DEF ChannelInv, ChannelTypeOK, PermitsSound
    <2> QED
      BY <1>1, <1>5, <2>1, GrowthKeepsPermits, GrowthKeepsGate DEF ChannelInv
  <1>8. MarketsStateTheirRule'
    <2>1. Sound(p.candidate)
      BY <1>2 DEF OfRequest
    <2>2. \A s \in DOMAIN slots' : Sound(slots'[s].candidate)
      BY <1>4, <2>1 DEF ChannelInv, MarketsStateTheirRule, Sound, Valid
    <2> QED
      BY <2>2 DEF MarketsStateTheirRule, Sound, Valid
  <1>9. TasksSound'
    <2> SUFFICES ASSUME NEW t \in Ticks, NEW k, k = tick[t] PROVE TaskSound(t, k)'
      BY <1>1 DEF TasksSound
    <2>1. k \in Task /\ TaskSound(t, k)
      BY DEF ChannelInv, ChannelTypeOK, TasksSound
    <2>2. CASE tx # [permit |-> Oldest(k.work).permit, by |-> t] \/ k.pc # "Wait"
      <3>1. /\ \A r \in k.work : Signed(r.permit, r.id)'
            /\ k.pc = "Prepare" => k.next \in DOMAIN queue'
        BY <1>1, <2>1 DEF TaskSound, Signed
      <3>2. ASSUME k.pc = "Wait" PROVE Awaits(t, k)'
        <4> DEFINE i == Oldest(k.work).permit
        <4>1. /\ k.before = permits[i].slotIndex
              /\ \/ [permit |-> i, by |-> t] \in pending
                 \/ t \in reverted
                 \/ k.before + 1 \in DOMAIN slots /\ slots[k.before + 1] = permits[i]
          BY <2>1, <3>2 DEF TaskSound, Awaits
        <4>2. \/ [permit |-> i, by |-> t] \in pending'
              \/ t \in reverted'
              \/ k.before + 1 \in DOMAIN slots' /\ slots'[k.before + 1] = permits[i]
          BY <1>1, <1>3, <1>4, <2>2, <3>2, <4>1
        <4> QED
          BY <1>1, <4>1, <4>2 DEF Awaits
      <3> QED
        BY <2>1, <3>1, <3>2 DEF TaskSound
    <2>3. CASE tx = [permit |-> Oldest(k.work).permit, by |-> t] /\ k.pc = "Wait"
      <3>1. tx.permit = Oldest(k.work).permit /\ tx.by = t /\ t # 0
        BY <2>3, PublicationAssumption
      <3>2. k.before = p.slotIndex
        BY <2>1, <2>3, <3>1 DEF TaskSound, Awaits, p
      <3>3. \/ t \in reverted'
            \/ k.before + 1 \in DOMAIN slots' /\ slots'[k.before + 1] = p
        BY <1>2, <1>3, <3>1, <3>2
      <3>4. Awaits(t, k)'
        BY <1>1, <3>1, <3>2, <3>3 DEF Awaits, p
      <3>5. /\ \A r \in k.work : Signed(r.permit, r.id)'
            /\ k.work # {}
        BY <1>1, <2>1, <2>3 DEF TaskSound, Signed, Busy
      <3> QED
        BY <2>3, <3>4, <3>5 DEF TaskSound, Busy
    <2> QED
      BY <2>2, <2>3
  <1>10. ChannelTypeOK'
    BY <1>1, <1>4 DEF ChannelInv, ChannelTypeOK
  <1> QED
    BY <1>1, <1>6, <1>7, <1>8, <1>9, <1>10 DEF ChannelInv

\* The log and the clock: nothing of the channel moves.
LEMMA OutsideKeeps ==
    ASSUME ChannelInv,
           UNCHANGED <<queueVars, slots, usedNonce, txVars, tick, gateVars>>,
           tip' \in Nat, clock' \in Nat
    PROVE  ChannelInv'
  <1> USE DEF queueVars, txVars, gateVars
  <1>1. Grows
    BY DEF Grows
  <1>2. RequestsSound' /\ MarketsStateTheirRule'
    BY DEF ChannelInv, RequestsSound, RequestSound, Signed, MarketsStateTheirRule
  <1>3. PermitsSound' /\ TasksSound' /\ GateSound(gate)'
    <2>1. storedNonce \in Nat /\ PermitsSound
      BY DEF ChannelInv, ChannelTypeOK
    <2> QED
      BY <1>1, <2>1, GrowthKeepsPermits, GrowthKeepsTasks, GrowthKeepsGate
         DEF ChannelInv, PermitsSound
  <1>4. ChannelTypeOK'
    BY DEF ChannelInv, ChannelTypeOK
  <1> QED
    BY <1>2, <1>3, <1>4 DEF ChannelInv

LEMMA PublisherCrashesKeeps ==
    ASSUME ChannelInv, PublisherCrashes
    PROVE  ChannelInv'
  <1>1. /\ UNCHANGED <<queue, permits, roomVars, logVars, gateVars, clock>>
        /\ tick' = [t \in Ticks |-> NoTask]
        /\ pending' = {[tx EXCEPT !.by = 0] : tx \in pending}
    BY DEF PublisherCrashes, queueVars
  <1>2. QueueKept
    BY <1>1, SameQueue DEF ChannelInv, roomVars
  <1>3. NoTask \in Task /\ NoTask.pc = "Idle" /\ NoTask.work = {}
    BY DEF NoTask, Task
  <1>4. ASSUME NEW t \in Ticks, NEW k, k = NoTask PROVE TaskSound(t, k)'
    BY <1>3, <1>4 DEF TaskSound, Busy
  <1>5. tick' \in [Ticks -> Task] /\ TasksSound'
    BY <1>1, <1>3, <1>4 DEF TasksSound
  <1>6. /\ pending' \subseteq [permit : Nat, by : Ticks \union {0}]
        /\ \A tx \in pending' : tx.permit \in DOMAIN permits
    <2>1. pending \subseteq [permit : Nat, by : Ticks \union {0}]
      BY DEF ChannelInv, ChannelTypeOK
    <2>2. \A tx \in pending : /\ [tx EXCEPT !.by = 0] \in [permit : Nat, by : Ticks \union {0}]
                              /\ [tx EXCEPT !.by = 0].permit = tx.permit
                              /\ tx.permit \in DOMAIN permits
      BY <2>1 DEF ChannelInv, PermitsSound
    <2> QED
      BY <1>1, <2>2
  <1> QED
    BY <1>1, <1>2, <1>5, <1>6, TickFrame

\* The counter resumes from what was saved, which is past every permit.
LEMMA GateCrashesKeeps ==
    ASSUME ChannelInv, GateCrashes
    PROVE  ChannelInv'
  <1>1. /\ UNCHANGED <<queue, permits, storedNonce, roomVars, logVars, txVars, tick, clock>>
        /\ gate' = GateAtRest /\ nextNonce' = storedNonce
    BY DEF GateCrashes, queueVars
  <1>2. QueueKept
    BY <1>1, SameQueue DEF ChannelInv, roomVars
  <1>3. storedNonce \in Nat /\ storedNonce <= nextNonce'
    BY <1>1 DEF ChannelInv, ChannelTypeOK
  <1>4. ASSUME NEW g, g = GateAtRest PROVE GateSound(g)'
    BY <1>4, RestTask DEF GateSound
  <1> QED
    BY <1>1, <1>2, <1>3, <1>4, RestTask, ServerFrame

-------------------------------------------------------------------------------
(* The theorem. *)

LEMMA ChannelStart == ChannelInit => ChannelInv
  <1> SUFFICES ASSUME ChannelInit PROVE ChannelInv
    OBVIOUS
  <1> USE DEF ChannelInit
  <1>1. NoTask \in Task /\ NoTask.pc = "Idle" /\ NoTask.work = {}
    BY DEF NoTask, Task
  <1>2. ChannelTypeOK
    BY <1>1, RestTask DEF ChannelTypeOK
  <1>3. RequestsSound /\ PermitsSound /\ MarketsStateTheirRule
    BY DEF RequestsSound, PermitsSound, NoncesNeverReissued, MarketsStateTheirRule
  <1>4. TasksSound
    BY <1>1 DEF TasksSound, TaskSound, Busy
  <1>5. GateSound(gate)
    BY RestTask DEF GateSound
  <1> QED
    BY <1>2, <1>3, <1>4, <1>5 DEF ChannelInv

LEMMA ChannelStep ==
    ASSUME ChannelInv, [ChannelNext]_channelVars
    PROVE  ChannelInv'
  <1>1. CASE \E c \in Candidates : Submit(c)
    BY <1>1, SubmitKeeps
  <1>2. CASE (\E decides \in Decisions : SourceReports(decides)) \/ GateMoves \/ ClockMoves
             \/ UNCHANGED channelVars
    <2>1. UNCHANGED <<queueVars, slots, usedNonce, txVars, tick, gateVars>>
      BY <1>2 DEF SourceReports, GateMoves, ClockMoves, channelVars, roomVars
    <2>2. tip' \in Nat /\ clock' \in Nat
      BY <1>2 DEF SourceReports, GateMoves, ClockMoves, channelVars, logVars, ChannelInv,
                  ChannelTypeOK
    <2> QED
      BY <2>1, <2>2, OutsideKeeps
  <1>3. CASE PublisherCrashes
    BY <1>3, PublisherCrashesKeeps
  <1>4. CASE GateCrashes
    BY <1>4, GateCrashesKeeps
  <1>5. CASE \E t \in Ticks : TickStep(t)
    <2>1. PICK t \in Ticks : TickStep(t)
      BY <1>5
    <2> QED
      BY <2>1, TickStartKeeps, ReconcileKeeps, CheckPermitKeeps, SendKeeps, ReceiptKeeps,
         ReceiptTimeoutKeeps, CatchKeeps, PrepareKeeps DEF TickStep
  <1>6. CASE GateStep
    BY <1>6, ServeStartKeeps, AskKeeps, EvaluateKeeps, SaveKeeps, AnswerKeeps DEF GateStep
  <1>7. CASE \E tx \in pending : Mine(tx)
    BY <1>7, MineKeeps
  <1> QED
    BY <1>1, <1>2, <1>3, <1>4, <1>5, <1>6, <1>7 DEF ChannelNext, Environment

THEOREM ChannelInvariant == ChannelSpec => []ChannelInv
  <1>1. ChannelInv /\ [ChannelNext]_channelVars => ChannelInv'
    BY ChannelStep
  <1> QED
    BY <1>1, ChannelStart, PTL DEF ChannelSpec

\* No nonce is signed twice, whenever the gate restarts; a published record names a
\* market that shows its own question; and a market's words are the rule that will
\* settle it: for any number of overlapping ticks, requests, crashes and lost answers.
THEOREM PublicationKept == ChannelSpec => []PublicationHolds
  <1>1. ChannelInv => PublicationHolds
    <2> SUFFICES ASSUME ChannelInv PROVE PublicationHolds
      OBVIOUS
    <2>1. NoncesNeverReissued /\ MarketsStateTheirRule
      BY DEF ChannelInv, PermitsSound
    <2>2. PublishedNamesOwnMarket
      BY DEF ChannelInv, RequestsSound, RequestSound, SameQuestion, PublishedNamesOwnMarket
    <2> QED
      BY <2>1, <2>2 DEF PublicationHolds
  <1> QED
    BY <1>1, ChannelInvariant, PTL

-------------------------------------------------------------------------------
(* ProofArchive. *)

UploadStages == {"New", "Stream", "Rename", "Put", "Stored", "Refused", "Lost"}
UploadTypes ==
    /\ upload \in [Uploads -> [pc : UploadStages, hash : Evidence]]
    /\ proofs \subseteq [id : Uploads, hash : Evidence]

\* A request puts its row last, so a row is of a request that has come to its end, and a
\* named file is taken away only from a request that has not.
RowsAreOfTheStored ==
    \A row \in proofs : /\ upload[row.id].pc = "Stored" /\ upload[row.id].hash = row.hash
                        /\ row.id \in named
FilesAwaitTheirRow == \A u \in Uploads : upload[u].pc = "Put" => u \in named

ArchiveInv == UploadTypes /\ RowsAreOfTheStored /\ FilesAwaitTheirRow /\ ProofsHaveClips

LEMMA ArchiveStart == ArchiveInit => ArchiveInv
  BY DEF ArchiveInit, ArchiveInv, UploadTypes, UploadStages, RowsAreOfTheStored,
         FilesAwaitTheirRow, ProofsHaveClips

\* A step that moves one request on and touches neither rows nor its named file.
LEMMA UploadGoes ==
    ASSUME ArchiveInv, NEW u \in Uploads, NEW pc \in UploadStages, Goes(u, pc),
           upload[u].pc # "Stored", pc # "Put" \/ u \in named',
           pc = "Stored" => \E row \in proofs : row.hash = upload[u].hash,
           proofs' = proofs, \A v \in named : v # u => v \in named'
    PROVE  ArchiveInv'
  <1>1. /\ upload' \in [Uploads -> [pc : UploadStages, hash : Evidence]]
        /\ upload'[u].pc = pc /\ upload'[u].hash = upload[u].hash
        /\ \A v \in Uploads : v # u => upload'[v] = upload[v]
    BY DEF Goes, ArchiveInv, UploadTypes
  <1>2. UploadTypes'
    BY <1>1 DEF ArchiveInv, UploadTypes
  <1>3. RowsAreOfTheStored'
    BY <1>1 DEF ArchiveInv, UploadTypes, RowsAreOfTheStored
  <1>4. FilesAwaitTheirRow'
    BY <1>1 DEF ArchiveInv, FilesAwaitTheirRow
  <1>5. ProofsHaveClips'
    BY <1>1, <1>3 DEF ArchiveInv, ProofsHaveClips, RowsAreOfTheStored
  <1> QED
    BY <1>2, <1>3, <1>4, <1>5 DEF ArchiveInv

LEMMA RowIsPut ==
    ASSUME ArchiveInv, NEW u \in Uploads, PutProof(u),
           ~\E row \in proofs : row.hash = upload[u].hash
    PROVE  ArchiveInv'
  <1>1. /\ upload' = [upload EXCEPT ![u].pc = "Stored"] /\ named' = named
        /\ proofs' = proofs \cup {[id |-> u, hash |-> upload[u].hash]}
        /\ upload[u].pc = "Put"
    BY DEF PutProof, Goes
  <1>2. /\ upload' \in [Uploads -> [pc : UploadStages, hash : Evidence]]
        /\ upload'[u].pc = "Stored" /\ upload'[u].hash = upload[u].hash
        /\ \A v \in Uploads : v # u => upload'[v] = upload[v]
    BY <1>1 DEF ArchiveInv, UploadTypes, UploadStages
  <1>3. UploadTypes'
    BY <1>1, <1>2 DEF ArchiveInv, UploadTypes
  <1>4. RowsAreOfTheStored'
    BY <1>1, <1>2 DEF ArchiveInv, UploadTypes, RowsAreOfTheStored, FilesAwaitTheirRow
  <1>5. FilesAwaitTheirRow'
    BY <1>1, <1>2 DEF ArchiveInv, FilesAwaitTheirRow
  <1>6. ProofsHaveClips'
    <2>1. \A row \in proofs : row \in [id : Uploads, hash : Evidence] /\ row.hash # upload[u].hash
      BY DEF ArchiveInv, UploadTypes
    <2>2. \A a, b \in proofs' : a.hash = b.hash => a = b
      BY <1>1, <2>1 DEF ArchiveInv, ProofsHaveClips
    <2>3. \A v \in Uploads : upload'[v].pc = "Stored" => \E row \in proofs' : row.hash = upload'[v].hash
      <3>1. ASSUME NEW v \in Uploads, v # u, upload'[v].pc = "Stored"
            PROVE  \E row \in proofs' : row.hash = upload'[v].hash
        BY <1>1, <1>2, <3>1 DEF ArchiveInv, ProofsHaveClips
      <3>2. [id |-> u, hash |-> upload[u].hash] \in proofs'
        BY <1>1
      <3>3. \E row \in proofs' : row.hash = upload[u].hash
        BY <3>2
      <3> QED
        BY <1>2, <3>1, <3>3
    <2> QED
      BY <1>4, <2>2, <2>3 DEF RowsAreOfTheStored, ProofsHaveClips
  <1> QED
    BY <1>3, <1>4, <1>5, <1>6 DEF ArchiveInv

LEMMA ArchiveStep == ArchiveInv /\ [ArchiveNext]_archiveVars => ArchiveInv'
  <1> SUFFICES ASSUME ArchiveInv, [ArchiveNext]_archiveVars
               PROVE  ArchiveInv'
    OBVIOUS
  <1> USE DEF UploadStages
  <1>1. ASSUME NEW u \in Uploads, OpenUpload(u)
        PROVE  ArchiveInv'
    <2>1. Goes(u, "Stream") /\ upload[u].pc = "New" /\ proofs' = proofs /\ named' = named
      BY <1>1 DEF OpenUpload
    <2> QED
      BY <2>1, UploadGoes
  <1>2. ASSUME NEW u \in Uploads, UploadRejected(u)
        PROVE  ArchiveInv'
    <2>1. Goes(u, "Refused") /\ upload[u].pc = "Stream" /\ proofs' = proofs /\ named' = named
      BY <1>2 DEF UploadRejected
    <2> QED
      BY <2>1, UploadGoes
  <1>3. ASSUME NEW u \in Uploads, LookUpProof(u)
        PROVE  ArchiveInv'
    <2>1. upload[u].pc = "Stream" /\ proofs' = proofs /\ named' = named
      BY <1>3 DEF LookUpProof
    <2>2. CASE \E row \in proofs : row.hash = upload[u].hash
      <3>1. Goes(u, "Stored")
        BY <1>3, <2>2 DEF LookUpProof
      <3> QED
        BY <2>1, <2>2, <3>1, UploadGoes
    <2>3. CASE ~\E row \in proofs : row.hash = upload[u].hash
      <3>1. Goes(u, "Rename")
        BY <1>3, <2>3 DEF LookUpProof
      <3> QED
        BY <2>1, <3>1, UploadGoes
    <2> QED
      BY <2>2, <2>3
  <1>4. ASSUME NEW u \in Uploads, RenameClip(u)
        PROVE  ArchiveInv'
    <2>1. Goes(u, "Put") /\ upload[u].pc = "Rename" /\ proofs' = proofs /\ named' = named \cup {u}
      BY <1>4 DEF RenameClip
    <2> QED
      BY <2>1, UploadGoes
  <1>5. ASSUME NEW u \in Uploads, PutProof(u)
        PROVE  ArchiveInv'
    <2>1. CASE \E row \in proofs : row.hash = upload[u].hash
      <3>1. /\ Goes(u, "Refused") /\ upload[u].pc = "Put" /\ proofs' = proofs
            /\ named' = named \ {u}
        BY <1>5, <2>1 DEF PutProof
      <3> QED
        BY <3>1, UploadGoes
    <2> QED
      BY <1>5, <2>1, RowIsPut
  <1>6. ASSUME NEW u \in Uploads, UploadCrashes(u)
        PROVE  ArchiveInv'
    <2>1. /\ Goes(u, "Lost") /\ upload[u].pc \in {"Stream", "Rename", "Put"}
          /\ proofs' = proofs /\ named' = named
      BY <1>6 DEF UploadCrashes
    <2> QED
      BY <2>1, UploadGoes
  <1>7. CASE UNCHANGED <<upload, named, proofs>>
    BY <1>7 DEF ArchiveInv, UploadTypes, RowsAreOfTheStored, FilesAwaitTheirRow, ProofsHaveClips
  <1> QED
    BY <1>1, <1>2, <1>3, <1>4, <1>5, <1>6, <1>7 DEF ArchiveNext, archiveVars

\* Whatever uploads run at once and wherever they die, a row leads to its clip, no two
\* rows share a hash, and a request that was answered has its evidence archived
\* (LivestreamOracle.record).
THEOREM ClipsKept == ArchiveSpec => []ProofsHaveClips
  <1>1. ArchiveInv => ProofsHaveClips
    BY DEF ArchiveInv
  <1> QED
    BY <1>1, ArchiveStart, ArchiveStep, PTL DEF ArchiveSpec

-------------------------------------------------------------------------------
(* Settlement: the inductive invariant. *)

Attestation == [by : Resolvers, outcome : 1 .. 3, hash : STRING, count : Nat]
Ballot == [by : Resolvers, accept : BOOLEAN, saw : Opinions]
ResolverTask == [pc : {"Idle", "Attest", "Record", "Review", "Vote", "WriteVerdict"},
         result : Opinions, accept : BOOLEAN]

ResultTypes ==
    /\ market \in [attested : Seq(Attestation), provisional : 0 .. 3, provisionalAt : Nat,
                   challenged : BOOLEAN, challengedAt : Nat, verdicts : SUBSET Ballot,
                   final : 0 .. 4, skipped : BOOLEAN]
    /\ now \in Nat

\* A provisional result is registered with the second attestation of one result, and
\* before it no two resolvers had attested the same.
QuorumMakesResult ==
    IF market.provisional = Unset
    THEN /\ \A i, j \in DOMAIN market.attested :
                Same(market.attested[i], market.attested[j])
                    => market.attested[i].by = market.attested[j].by
         /\ \A i \in DOMAIN market.attested : market.attested[i].count = 1
    ELSE ReachedQuorum(market.attested)

\* Ballots are cast in a challenge, on what the voter rebuilt beside the result.
BallotsRebuilt ==
    /\ market.challenged => market.provisional # Unset
    /\ market.verdicts # {} => market.challenged
    /\ \A w \in market.verdicts : /\ w.saw # Undetermined
                                  /\ w.accept <=> (w.saw.outcome # market.provisional)

\* Two ballots of a kind end the market at once; nothing else ends a challenged one but time.
EndedByRule ==
    /\ market.final = Unset => \A accept \in BOOLEAN : Cardinality(Verdicts(accept)) <= 1
    /\ market.final # Unset /\ ~market.challenged =>
           IF market.provisional = Unset THEN market.final = Invalid
           ELSE market.final = market.provisional
    /\ market.final # Unset /\ market.challenged =>
           \/ market.final = market.provisional /\ Cardinality(Verdicts(FALSE)) >= 2
           \/ /\ market.final = Invalid /\ Cardinality(Verdicts(FALSE)) <= 1
              /\ \/ Cardinality(Verdicts(TRUE)) >= 2
                 \/ now >= market.challengedAt + ChallengeTimeout

ResultInv == ResultTypes /\ QuorumMakesResult /\ BallotsRebuilt /\ EndedByRule

HasAttested(r) == \E i \in DOMAIN market.attested : market.attested[i].by = r
HasVoted(r) == r \in Verdicts(TRUE) \union Verdicts(FALSE)

\* What a resolver is about to write down has happened on chain; what it votes on stands.
ResolverSound(r) ==
    /\ resolver[r].pc = "Record" => HasAttested(r)
    /\ resolver[r].pc = "WriteVerdict" => HasVoted(r)
    /\ resolver[r].pc = "Vote" => /\ market.challenged
                                  /\ resolver[r].result # Undetermined
                                  /\ resolver[r].accept <=> (resolver[r].result.outcome # market.provisional)
ResolversAreSound ==
    /\ resolver \in [Resolvers -> ResolverTask]
    /\ attempt \in [Resolvers -> {"none", "attested", "missed", "refused"}]
    /\ view \in Opinions
    /\ \A r \in Resolvers : ResolverSound(r)

SettlementInv == ResultInv /\ ResolversAreSound /\ RecordsAreOnChain

\* What the chain never takes back.
ResultKept ==
    /\ \A r \in Resolvers : HasAttested(r) => HasAttested(r)'
    /\ \A r \in Resolvers : HasVoted(r) => HasVoted(r)'
    /\ market.challenged => market'.challenged /\ market'.provisional = market.provisional

\* Voters are resolvers.
LEMMA BallotsFinite ==
    ASSUME ResultTypes, NEW accept \in BOOLEAN
    PROVE  /\ Verdicts(accept) \subseteq Resolvers /\ IsFiniteSet(Verdicts(accept))
           /\ Cardinality(Verdicts(accept)) \in Nat
  <1>1. Verdicts(accept) \subseteq Resolvers
    BY DEF ResultTypes, Ballot, Verdicts
  <1> QED
    BY <1>1, SettlementAssumption, FS_Subset, FS_CardinalityType

LEMMA SettlementStart == SettlementInit => SettlementInv
  <1> SUFFICES ASSUME SettlementInit
               PROVE  SettlementInv
    OBVIOUS
  <1>1. /\ market \in [attested : {<<>>}, provisional : {Unset}, provisionalAt : {0},
                       challenged : {FALSE}, challengedAt : {0}, verdicts : {{}},
                       final : {Unset}, skipped : BOOLEAN]
        /\ now = 0
    BY DEF SettlementInit
  <1>2. /\ market.attested = <<>> /\ market.verdicts = {} /\ ~market.challenged
        /\ market.provisional = Unset /\ market.final = Unset
    BY <1>1
  <1>3. ResultTypes
    <2>1. /\ <<>> \in Seq(Attestation) /\ {} \in SUBSET Ballot
          /\ Unset \in 0 .. 3 /\ Unset \in 0 .. 4 /\ 0 \in Nat /\ FALSE \in BOOLEAN
      BY DEF Unset
    <2> QED
      BY <1>1, <2>1 DEF ResultTypes
  <1>4. QuorumMakesResult /\ BallotsRebuilt
    BY <1>2 DEF QuorumMakesResult, BallotsRebuilt
  <1>5. EndedByRule
    <2>1. \A accept \in BOOLEAN : Verdicts(accept) = {}
      BY <1>2 DEF Verdicts
    <2>2. \A accept \in BOOLEAN : Cardinality(Verdicts(accept)) = 0
      BY <2>1, FS_EmptySet
    <2> QED
      BY <1>2, <2>2 DEF EndedByRule
  <1>6. Idle \in ResolverTask /\ Idle.pc = "Idle"
    BY DEF Idle, ResolverTask, Opinions
  <1>7. ResolversAreSound
    BY <1>6 DEF SettlementInit, ResolversAreSound, ResolverSound
  <1>8. RecordsAreOnChain
    BY DEF SettlementInit, RecordsAreOnChain, AlreadyAttested
  <1> QED
    BY <1>3, <1>4, <1>5, <1>7, <1>8 DEF SettlementInv, ResultInv

\* The invariant says what the runs check.
LEMMA SettlementInvHolds == SettlementInv => SettlementHolds
  <1> SUFFICES ASSUME SettlementInv
               PROVE  SettlementHolds
    OBVIOUS
  <1>1. RecordsAreOnChain
    BY DEF SettlementInv
  <1>2. /\ ResultTypes /\ QuorumMakesResult /\ BallotsRebuilt /\ EndedByRule
    BY DEF SettlementInv, ResultInv
  <1>3. VerdictsAreRebuilt
    <2> DEFINE rebuilt(same) == {v.by : v \in {w \in market.verdicts :
                              w.saw # Undetermined /\ ((w.saw.outcome = market.provisional) <=> same)}}
    <2>1. rebuilt(TRUE) = Verdicts(FALSE) /\ rebuilt(FALSE) = Verdicts(TRUE)
      <3>1. \A w \in market.verdicts : /\ w.accept \in BOOLEAN /\ w.saw # Undetermined
                                       /\ w.accept <=> (w.saw.outcome # market.provisional)
        BY <1>2 DEF BallotsRebuilt, ResultTypes, Ballot
      <3>2. {w \in market.verdicts : w.saw # Undetermined /\ ((w.saw.outcome = market.provisional) <=> TRUE)}
              = {w \in market.verdicts : w.accept = FALSE}
        BY <3>1
      <3>3. {w \in market.verdicts : w.saw # Undetermined /\ ((w.saw.outcome = market.provisional) <=> FALSE)}
              = {w \in market.verdicts : w.accept = TRUE}
        BY <3>1
      <3> QED
        BY <3>2, <3>3 DEF Verdicts
    <2>2. market.challenged /\ market.final # Unset =>
            IF market.final # Invalid THEN Cardinality(Verdicts(FALSE)) >= 2
            ELSE Cardinality(Verdicts(TRUE)) >= 2 \/ now >= market.challengedAt + ChallengeTimeout
      <3>1. market.provisional # Invalid /\ Invalid # Unset
        BY <1>2 DEF ResultTypes, Invalid, Unset
      <3> QED
        BY <1>2, <3>1 DEF EndedByRule
    <2> QED
      BY <2>1, <2>2 DEF VerdictsAreRebuilt
  <1>4. RecordTellsWhy
    <2>1. ReachedQuorum(market.attested) <=> market.provisional # Unset
      <3>1. CASE market.provisional = Unset
        <4>1. \A i \in DOMAIN market.attested : ~(market.attested[i].count >= 2)
          BY <1>2, <3>1 DEF QuorumMakesResult
        <4>2. \A i, j \in DOMAIN market.attested :
                 Same(market.attested[i], market.attested[j])
                    => market.attested[i].by = market.attested[j].by
          BY <1>2, <3>1 DEF QuorumMakesResult
        <4> QED
          BY <3>1, <4>1, <4>2 DEF ReachedQuorum
      <3> QED
        BY <1>2, <3>1 DEF QuorumMakesResult
    <2>2. /\ SettlementRecord.quorum = ReachedQuorum(market.attested)
          /\ SettlementRecord.outcome = market.final
          /\ market.final = Invalid => SettlementRecord.reason = InvalidationReason
      BY DEF SettlementRecord
    <2>3. ASSUME market.final = Invalid
          PROVE  CASE InvalidationReason = "no_quorum"        -> market.provisional = Unset
                   [] InvalidationReason = "challenge_upheld" -> Cardinality(Verdicts(TRUE)) >= 2
                   [] InvalidationReason = "challenge_filed"  -> market.challenged
                   [] InvalidationReason = "persistent_skip"  -> market.skipped /\ ~market.challenged
                   [] OTHER -> FALSE
      <3>1. market.final # Unset /\ market.provisional # Invalid /\ market.challenged \in BOOLEAN
            /\ market.skipped \in BOOLEAN
        BY <1>2, <2>3 DEF ResultTypes, Invalid, Unset
      <3>2. CASE market.challenged /\ Cardinality(Verdicts(TRUE)) >= 2
        <4>1. InvalidationReason = "challenge_upheld"
          BY <3>2 DEF InvalidationReason, Upheld
        <4> QED
          BY <3>2, <4>1
      <3>3. CASE market.challenged /\ ~(Cardinality(Verdicts(TRUE)) >= 2)
        <4>1. Cardinality(Verdicts(FALSE)) <= 1
          BY <1>2, <2>3, <3>1, <3>3 DEF EndedByRule
        <4>2. ~(Cardinality(Verdicts(FALSE)) >= 2)
          <5> DEFINE c == Cardinality(Verdicts(FALSE))
          <5>1. c \in Nat
            BY <1>2, BallotsFinite
          <5>2. c <= 1
            BY <4>1
          <5> HIDE DEF c
          <5>3. ~(c >= 2)
            BY <5>1, <5>2
          <5> QED
            BY <5>3 DEF c
        <4>3. InvalidationReason = "challenge_filed"
          BY <3>3, <4>2 DEF InvalidationReason, Upheld
        <4> QED
          BY <3>3, <4>3
      <3>4. CASE ~market.challenged /\ market.skipped
        <4>1. InvalidationReason = "persistent_skip"
          BY <3>4 DEF InvalidationReason
        <4> QED
          BY <3>4, <4>1
      <3>5. CASE ~market.challenged /\ ~market.skipped
        <4>1. market.provisional = Unset
          BY <1>2, <2>3, <3>1, <3>5 DEF EndedByRule
        <4>2. InvalidationReason = "no_quorum"
          BY <2>1, <3>5, <4>1 DEF InvalidationReason
        <4> QED
          BY <4>1, <4>2
      <3> QED
        BY <3>1, <3>2, <3>3, <3>4, <3>5
    <2> QED
      BY <2>1, <2>2, <2>3 DEF RecordTellsWhy
  <1> QED
    BY <1>1, <1>3, <1>4 DEF SettlementHolds

-------------------------------------------------------------------------------
(* Settlement: what the contract's calls keep. *)

LEMMA SameMarket ==
    ASSUME ResultInv, UNCHANGED market, now' \in Nat, now' >= now
    PROVE  ResultInv' /\ ResultKept
  <1>1. ResultTypes' /\ QuorumMakesResult' /\ BallotsRebuilt'
    BY DEF ResultInv, ResultTypes, QuorumMakesResult, BallotsRebuilt
  <1>2. \A accept \in BOOLEAN : Verdicts(accept)' = Verdicts(accept)
    BY DEF Verdicts
  <1>3. now >= market.challengedAt + ChallengeTimeout =>
            now' >= market.challengedAt + ChallengeTimeout
    BY SettlementAssumption DEF ResultInv, ResultTypes
  <1>4. EndedByRule'
    BY <1>2, <1>3 DEF ResultInv, EndedByRule
  <1>5. ResultKept
    BY <1>2 DEF ResultKept, HasAttested, HasVoted
  <1> QED
    BY <1>1, <1>4, <1>5 DEF ResultInv

\* A call that leaves attestations and ballots alone.
LEMMA SameBallots ==
    ASSUME ResultInv, market'.attested = market.attested, market'.verdicts = market.verdicts
    PROVE  /\ \A accept \in BOOLEAN : Verdicts(accept)' = Verdicts(accept)
           /\ \A r \in Resolvers : (HasAttested(r) => HasAttested(r)') /\ (HasVoted(r) => HasVoted(r)')
  <1>1. \A accept \in BOOLEAN : Verdicts(accept)' = Verdicts(accept)
    BY DEF Verdicts
  <1> QED
    BY <1>1 DEF HasAttested, HasVoted

LEMMA ChallengeKeeps ==
    ASSUME ResultInv, ChallengeResult, now' = now
    PROVE  ResultInv' /\ ResultKept
  <1>1. /\ market.provisional # Unset /\ market.final = Unset /\ ~market.challenged
        /\ market' = [market EXCEPT !.challenged = TRUE, !.challengedAt = now]
    BY DEF ChallengeResult
  <1>2. ResultTypes /\ QuorumMakesResult /\ BallotsRebuilt /\ EndedByRule
    BY DEF ResultInv
  <1>3. /\ market'.attested = market.attested /\ market'.verdicts = market.verdicts
        /\ market'.provisional = market.provisional /\ market'.final = market.final
        /\ market'.challenged
    BY <1>1, <1>2 DEF ResultTypes
  <1>4. ResultTypes'
    BY <1>1, <1>2 DEF ResultTypes
  <1>5. QuorumMakesResult' /\ BallotsRebuilt'
    BY <1>1, <1>2, <1>3 DEF QuorumMakesResult, BallotsRebuilt
  <1>6. EndedByRule' /\ ResultKept
    BY <1>1, <1>2, <1>3, SameBallots DEF EndedByRule, ResultKept
  <1> QED
    BY <1>4, <1>5, <1>6 DEF ResultInv

\* finalizeUnchallenged, expireChallenge and invalidateUnresolved.
LEMMA FinalizationKeeps ==
    ASSUME ResultInv, NEW call, Accepts(call), now' = now
    PROVE  ResultInv' /\ ResultKept
  <1>1. ResultTypes /\ QuorumMakesResult /\ BallotsRebuilt /\ EndedByRule
    BY DEF ResultInv
  <1>2. PICK outcome : /\ market' = [market EXCEPT !.final = outcome] /\ market.final = Unset
                       /\ \/ /\ outcome = market.provisional /\ ~market.challenged
                             /\ market.provisional # Unset
                          \/ /\ outcome = Invalid /\ market.challenged
                             /\ now >= market.challengedAt + ChallengeTimeout
                          \/ outcome = Invalid /\ market.provisional = Unset
    BY DEF Accepts, FinalizeUnchallenged, ExpireChallenge, InvalidateUnresolved, Final
  <1>3. outcome \in 1 .. 4
    BY <1>1, <1>2 DEF ResultTypes, Invalid, Unset
  <1>4. /\ market'.attested = market.attested /\ market'.verdicts = market.verdicts
        /\ market'.provisional = market.provisional /\ market'.final = outcome
        /\ market'.challenged = market.challenged /\ market'.challengedAt = market.challengedAt
    BY <1>1, <1>2 DEF ResultTypes
  <1>5. ResultTypes'
    BY <1>1, <1>2, <1>3 DEF ResultTypes
  <1>6. QuorumMakesResult' /\ BallotsRebuilt'
    BY <1>1, <1>4 DEF QuorumMakesResult, BallotsRebuilt
  <1>7. ResultKept
    BY <1>4, SameBallots DEF ResultKept
  <1>8. EndedByRule'
    <2>1. \A accept \in BOOLEAN : Verdicts(accept)' = Verdicts(accept)
      BY <1>4, SameBallots
    <2>2. Cardinality(Verdicts(FALSE)) <= 1
      BY <1>1, <1>2 DEF EndedByRule
    <2>3. outcome # Unset
      BY <1>3 DEF Unset
    <2> QED
      BY <1>1, <1>2, <1>4, <2>1, <2>2, <2>3 DEF EndedByRule, BallotsRebuilt
  <1> QED
    BY <1>5, <1>6, <1>7, <1>8 DEF ResultInv

LEMMA AttestationKeeps ==
    ASSUME ResultInv, NEW r \in Resolvers, NEW result \in Opinions, AttestResult(r, result), now' = now
    PROVE  ResultInv' /\ ResultKept /\ HasAttested(r)'
  <1> DEFINE count == Cardinality(Attesters(result)) + 1
             a == [by |-> r, outcome |-> result.outcome, hash |-> result.hash, count |-> count]
             attested == Append(market.attested, a)
  <1>1. ResultTypes /\ QuorumMakesResult /\ BallotsRebuilt /\ EndedByRule
    BY DEF ResultInv
  <1>2. /\ market.provisional = Unset /\ market.final = Unset
        /\ result.outcome # Unset /\ r \notin Attesters(result)
        /\ market' = IF count = 2
                     THEN [market EXCEPT !.attested = attested, !.provisional = result.outcome,
                                         !.provisionalAt = now]
                     ELSE [market EXCEPT !.attested = attested]
    BY DEF AttestResult
  <1>3. ~market.challenged /\ market.verdicts = {}
    BY <1>1, <1>2 DEF BallotsRebuilt
  <1>4. result.outcome \in 1 .. 3 /\ result.hash \in STRING
    BY <1>2, SettlementAssumption DEF Opinions, Undetermined
  <1>5. /\ market.attested \in Seq(Attestation)
        /\ \A i, j \in DOMAIN market.attested :
                Same(market.attested[i], market.attested[j])
                    => market.attested[i].by = market.attested[j].by
        /\ \A i \in DOMAIN market.attested : market.attested[i].count = 1
    BY <1>1, <1>2 DEF ResultTypes, QuorumMakesResult
  <1>6. \A b : b \in Attesters(result) <=>
               \E i \in DOMAIN market.attested : /\ Same(market.attested[i], result)
                                                 /\ market.attested[i].by = b
    BY <1>5 DEF Attesters, ToSet
  <1>7. \/ Attesters(result) = {} /\ count = 1
        \/ count = 2
    <2>1. CASE Attesters(result) = {}
      BY <2>1, FS_EmptySet
    <2>2. ASSUME NEW b \in Attesters(result)
          PROVE  count = 2
      <3>1. ASSUME NEW c \in Attesters(result)
            PROVE  c = b
        BY <1>5, <1>6, <3>1, <2>2 DEF Same
      <3>2. Attesters(result) = {b}
        BY <2>2, <3>1
      <3>3. Cardinality({b}) = 1
        BY FS_Singleton
      <3> QED
        BY <3>2, <3>3
    <2> QED
      BY <2>1, <2>2
  <1>8. count \in Nat
    BY <1>7
  <1> HIDE DEF count
  <1>9. a \in Attestation
    BY <1>4, <1>8 DEF Attestation
  <1> HIDE DEF a
  <1>10. /\ attested \in Seq(Attestation)
         /\ DOMAIN attested = DOMAIN market.attested \cup {Len(market.attested) + 1}
         /\ attested[Len(market.attested) + 1] = a
         /\ \A i \in DOMAIN market.attested : attested[i] = market.attested[i]
    BY <1>5, <1>9
  <1>11. /\ market'.attested = attested /\ market'.verdicts = market.verdicts
         /\ market'.challenged = market.challenged /\ market'.final = market.final
         /\ market'.provisional = IF count = 2 THEN result.outcome ELSE Unset
    BY <1>1, <1>2 DEF ResultTypes
  <1> HIDE DEF attested
  <1>12. ResultTypes'
    <2>1. now \in Nat /\ market.provisional \in 0 .. 3 /\ result.outcome \in 0 .. 3
      BY <1>1, <1>4 DEF ResultTypes
    <2> QED
      BY <1>1, <1>2, <1>10, <2>1 DEF ResultTypes
  <1>13. QuorumMakesResult'
    <2>1. CASE count = 2
      <3>1. a.count >= 2
        BY <2>1 DEF a
      <3>2. ReachedQuorum(attested)
        BY <1>10, <3>1 DEF ReachedQuorum
      <3> QED
        BY <1>2, <1>11, <2>1, <3>2 DEF QuorumMakesResult
    <2>2. CASE count # 2
      <3>1. count = 1 /\ Attesters(result) = {}
        BY <1>7, <2>2
      <3>2. a.by = r /\ a.count = 1 /\ a.outcome = result.outcome /\ a.hash = result.hash
        BY <3>1 DEF a
      <3>3. \A i \in DOMAIN market.attested : ~Same(market.attested[i], a) /\ ~Same(a, market.attested[i])
        BY <1>6, <3>1, <3>2 DEF Same
      <3>4. \A i, j \in DOMAIN attested : Same(attested[i], attested[j]) => attested[i].by = attested[j].by
        BY <1>5, <1>10, <3>3
      <3>5. \A i \in DOMAIN attested : attested[i].count = 1
        BY <1>5, <1>10, <3>2
      <3> QED
        BY <1>11, <2>2, <3>4, <3>5 DEF QuorumMakesResult
    <2> QED
      BY <2>1, <2>2
  <1>14. BallotsRebuilt'
    BY <1>3, <1>11 DEF BallotsRebuilt
  <1>15. \A accept \in BOOLEAN : Verdicts(accept)' = Verdicts(accept)
    BY <1>11 DEF Verdicts
  <1>16. EndedByRule'
    BY <1>1, <1>2, <1>11, <1>15 DEF EndedByRule
  <1>17. HasAttested(r)'
    <2>1. a.by = r
      BY DEF a
    <2> QED
      BY <1>10, <1>11, <2>1 DEF HasAttested
  <1>18. ResultKept
    BY <1>3, <1>10, <1>11, <1>15 DEF ResultKept, HasAttested, HasVoted
  <1> QED
    BY <1>12, <1>13, <1>14, <1>16, <1>17, <1>18 DEF ResultInv

LEMMA BallotKeeps ==
    ASSUME ResultInv, NEW r \in Resolvers, NEW accept \in BOOLEAN, NEW saw \in Opinions,
           AttestChallengeVerdict(r, accept, saw), now' = now,
           saw # Undetermined, accept <=> (saw.outcome # market.provisional)
    PROVE  ResultInv' /\ ResultKept /\ HasVoted(r)'
  <1> DEFINE ballot == [by |-> r, accept |-> accept, saw |-> saw]
             cast == [market EXCEPT !.verdicts = @ \union {ballot}]
             ends == Cardinality(Verdicts(accept)) + 1 = 2
             outcome == IF accept THEN Invalid ELSE market.provisional
  <1>1. ResultTypes /\ QuorumMakesResult /\ BallotsRebuilt /\ EndedByRule
    BY DEF ResultInv
  <1>2. /\ market.challenged /\ market.final = Unset /\ market.provisional # Unset
        /\ r \notin Verdicts(accept)
        /\ market' = IF ends THEN [cast EXCEPT !.final = outcome] ELSE cast
    BY <1>1 DEF AttestChallengeVerdict, BallotsRebuilt
  <1>3. ballot \in Ballot
    BY DEF Ballot
  <1>4. outcome \in 1 .. 4
    BY <1>1, <1>2 DEF ResultTypes, Invalid, Unset
  <1> HIDE DEF outcome, ends
  <1>5. /\ market'.attested = market.attested /\ market'.provisional = market.provisional
        /\ market'.challenged = market.challenged /\ market'.challengedAt = market.challengedAt
        /\ market'.verdicts = market.verdicts \cup {ballot}
        /\ market'.final = IF ends THEN outcome ELSE Unset
    BY <1>1, <1>2 DEF ResultTypes
  <1>6. ResultTypes'
    <2>1. cast \in [attested : Seq(Attestation), provisional : 0 .. 3, provisionalAt : Nat,
                    challenged : BOOLEAN, challengedAt : Nat, verdicts : SUBSET Ballot,
                    final : 0 .. 4, skipped : BOOLEAN]
      BY <1>1, <1>3 DEF ResultTypes
    <2> HIDE DEF cast
    <2>2. market' \in [attested : Seq(Attestation), provisional : 0 .. 3, provisionalAt : Nat,
                       challenged : BOOLEAN, challengedAt : Nat, verdicts : SUBSET Ballot,
                       final : 0 .. 4, skipped : BOOLEAN]
      BY <1>2, <1>4, <2>1
    <2> QED
      BY <1>1, <2>2 DEF ResultTypes
  <1>7. QuorumMakesResult'
    BY <1>1, <1>5 DEF QuorumMakesResult
  <1>8. BallotsRebuilt'
    <2>1. ballot.saw # Undetermined /\ (ballot.accept <=> (ballot.saw.outcome # market.provisional))
      OBVIOUS
    <2> HIDE DEF ballot
    <2> QED
      BY <1>1, <1>2, <1>5, <2>1 DEF BallotsRebuilt
  <1>9. /\ Verdicts(accept)' = Verdicts(accept) \cup {r}
        /\ \A other \in BOOLEAN : other # accept => Verdicts(other)' = Verdicts(other)
    <2>1. ballot.by = r /\ ballot.accept = accept
      OBVIOUS
    <2> HIDE DEF ballot
    <2> QED
      BY <1>5, <2>1 DEF Verdicts
  <1>10. Cardinality(Verdicts(accept)') = Cardinality(Verdicts(accept)) + 1
    <2> DEFINE before == Verdicts(accept)
    <2>1. IsFiniteSet(before) /\ r \notin before
      BY <1>1, <1>2, BallotsFinite
    <2> HIDE DEF before
    <2>2. Cardinality(before \cup {r}) = Cardinality(before) + 1
      BY <2>1, FS_AddElement
    <2> QED
      BY <1>9, <2>2 DEF before
  <1>11. /\ \A other \in BOOLEAN : Cardinality(Verdicts(other)) \in Nat /\ Cardinality(Verdicts(other)) <= 1
         /\ Cardinality(Verdicts(accept)') = IF ends THEN 2 ELSE 1
    <2>1. \A other \in BOOLEAN : Cardinality(Verdicts(other)) \in Nat
      BY <1>1, BallotsFinite
    <2>2. \A other \in BOOLEAN : Cardinality(Verdicts(other)) <= 1
      BY <1>1, <1>2 DEF EndedByRule
    <2> DEFINE n == Cardinality(Verdicts(accept))
    <2>3. n \in Nat /\ n <= 1 /\ Cardinality(Verdicts(accept)') = n + 1 /\ (ends <=> n + 1 = 2)
      BY <1>10, <2>1, <2>2 DEF ends
    <2> HIDE DEF n
    <2>4. Cardinality(Verdicts(accept)') = IF ends THEN 2 ELSE 1
      BY <2>3
    <2> QED
      BY <2>1, <2>2, <2>4
  <1>12. EndedByRule'
    <2>1. outcome # Unset
      BY <1>4 DEF Unset
    <2>2. CASE ~ends
      <3>1. \A other \in BOOLEAN : Cardinality(Verdicts(other)') <= 1
        BY <1>9, <1>11, <2>2
      <3> QED
        BY <1>5, <2>2, <3>1 DEF EndedByRule
    <2>3. CASE ends /\ accept
      <3>1. Cardinality(Verdicts(TRUE)') >= 2
        <4>1. Cardinality(Verdicts(accept)') = 2
          BY <1>11, <2>3
        <4>2. Verdicts(accept)' = Verdicts(TRUE)'
          BY <2>3 DEF Verdicts
        <4> DEFINE n == Cardinality(Verdicts(TRUE)')
        <4>3. n = 2
          BY <4>1, <4>2
        <4> HIDE DEF n
        <4>4. n >= 2
          BY <4>3
        <4> QED
          BY <4>4 DEF n
      <3>2. Cardinality(Verdicts(FALSE)') <= 1
        BY <1>9, <1>11, <2>3
      <3>3. market'.final = Invalid /\ market'.challenged
        BY <1>2, <1>5, <2>3 DEF outcome
      <3> QED
        BY <1>5, <2>1, <2>3, <3>1, <3>2, <3>3 DEF EndedByRule
    <2>4. CASE ends /\ ~accept
      <3>1. Cardinality(Verdicts(FALSE)') >= 2
        <4>1. Cardinality(Verdicts(accept)') = 2
          BY <1>11, <2>4
        <4>2. Verdicts(accept)' = Verdicts(FALSE)'
          BY <2>4 DEF Verdicts
        <4> DEFINE n == Cardinality(Verdicts(FALSE)')
        <4>3. n = 2
          BY <4>1, <4>2
        <4> HIDE DEF n
        <4>4. n >= 2
          BY <4>3
        <4> QED
          BY <4>4 DEF n
      <3>2. market'.final = market'.provisional /\ market'.challenged
        BY <1>2, <1>5, <2>4 DEF outcome
      <3> QED
        BY <1>2, <1>5, <2>4, <3>1, <3>2 DEF EndedByRule
    <2> QED
      BY <2>2, <2>3, <2>4
  <1>13. ResultKept /\ HasVoted(r)'
    <2>1. Verdicts(TRUE) \subseteq Verdicts(TRUE)' /\ Verdicts(FALSE) \subseteq Verdicts(FALSE)'
      BY <1>9
    <2>2. r \in Verdicts(TRUE)' \/ r \in Verdicts(FALSE)'
      BY <1>9
    <2> QED
      BY <1>2, <1>5, <2>1, <2>2 DEF ResultKept, HasAttested, HasVoted
  <1> QED
    BY <1>6, <1>7, <1>8, <1>12, <1>13 DEF ResultInv

-------------------------------------------------------------------------------
(* Settlement: the resolvers' ticks. *)

\* A resolver moves to a task that is sound; its rows say what the chain shows.
LEMMA ResolverMoves ==
    ASSUME SettlementInv, ResultInv', ResultKept, UNCHANGED view,
           NEW r \in Resolvers, NEW task \in ResolverTask,
           resolver' = [resolver EXCEPT ![r] = task],
           task.pc = "Record" => HasAttested(r)',
           task.pc = "WriteVerdict" => HasVoted(r)',
           task.pc = "Vote" => /\ market'.challenged /\ task.result # Undetermined
                               /\ task.accept <=> (task.result.outcome # market'.provisional),
           NEW status \in {"none", "attested", "missed", "refused"},
           attempt' = [attempt EXCEPT ![r] = status],
           status = "attested" => attempt[r] = "attested" \/ HasAttested(r)',
           voted' \in {voted, voted \cup {r}},
           r \in voted' => r \in voted \/ HasVoted(r)'
    PROVE  SettlementInv'
  <1>1. ResolversAreSound /\ RecordsAreOnChain
    BY DEF SettlementInv
  <1>2. /\ resolver' \in [Resolvers -> ResolverTask] /\ resolver'[r] = task
        /\ attempt' \in [Resolvers -> {"none", "attested", "missed", "refused"}] /\ attempt'[r] = status
        /\ \A q \in Resolvers : q # r => resolver'[q] = resolver[q] /\ attempt'[q] = attempt[q]
    BY <1>1 DEF ResolversAreSound
  <1>3. \A q \in Resolvers : ResolverSound(q)'
    <2>1. ResolverSound(r)'
      BY <1>2 DEF ResolverSound
    <2>2. ASSUME NEW q \in Resolvers, q # r
          PROVE  ResolverSound(q)'
      BY <1>1, <1>2, <2>2 DEF ResolversAreSound, ResolverSound, ResultKept
    <2> QED
      BY <2>1, <2>2
  <1>4. ResolversAreSound'
    BY <1>1, <1>2, <1>3 DEF ResolversAreSound
  <1>5. RecordsAreOnChain'
    <2>1. \A q \in Resolvers : attempt[q] = "attested" => HasAttested(q)'
      BY <1>1 DEF RecordsAreOnChain, AlreadyAttested, HasAttested, ResultKept
    <2>2. \A q \in Resolvers : q \in voted => HasVoted(q)'
      BY <1>1 DEF RecordsAreOnChain, HasVoted, ResultKept
    <2>3. \A q \in Resolvers : (attempt'[q] = "attested" => HasAttested(q)') /\ (q \in voted' => HasVoted(q)')
      BY <1>2, <2>1, <2>2
    <2> QED
      BY <2>3 DEF RecordsAreOnChain, AlreadyAttested, HasAttested, HasVoted
  <1> QED
    BY <1>4, <1>5 DEF SettlementInv

\* A step of a resolver that leaves its rows alone.
LEMMA RowsStay ==
    ASSUME SettlementInv, ResultInv', ResultKept, UNCHANGED <<view, attempt, voted>>,
           NEW r \in Resolvers, NEW task \in ResolverTask,
           resolver' = [resolver EXCEPT ![r] = task],
           task.pc = "Record" => HasAttested(r)',
           task.pc = "WriteVerdict" => HasVoted(r)',
           task.pc = "Vote" => /\ market'.challenged /\ task.result # Undetermined
                               /\ task.accept <=> (task.result.outcome # market'.provisional)
    PROVE  SettlementInv'
  <1>1. /\ attempt[r] \in {"none", "attested", "missed", "refused"}
        /\ attempt' = [attempt EXCEPT ![r] = attempt[r]]
    BY DEF SettlementInv, ResolversAreSound
  <1> DEFINE status == attempt[r]
  <1>2. /\ status \in {"none", "attested", "missed", "refused"}
        /\ attempt' = [attempt EXCEPT ![r] = status]
        /\ status = "attested" => attempt[r] = "attested"
    BY <1>1
  <1>3. voted' \in {voted, voted \cup {r}} /\ (r \in voted' => r \in voted)
    OBVIOUS
  <1> HIDE DEF status
  <1> QED
    BY <1>2, <1>3, ResolverMoves

LEMMA ResolverKeeps ==
    ASSUME SettlementInv, NEW r \in Resolvers, ResolverStep(r)
    PROVE  SettlementInv'
  <1> DEFINE task == resolver[r]
  <1>1. /\ UNCHANGED <<view, now>> /\ now \in Nat /\ ResultInv
        /\ task \in ResolverTask /\ ResolverSound(r) /\ view \in Opinions
        /\ resolver \in [Resolvers -> ResolverTask]
        /\ attempt \in [Resolvers -> {"none", "attested", "missed", "refused"}]
    BY DEF ResolverStep, SettlementInv, ResultInv, ResultTypes, ResolversAreSound
  <1>2. Idle \in ResolverTask /\ Idle.pc = "Idle" /\ Idle.accept = FALSE
    BY DEF Idle, ResolverTask, Opinions
  <1>3. UNCHANGED market => ResultInv' /\ ResultKept
    BY <1>1, SameMarket
  \* Moving on to a stage that claims nothing.
  <1>4. ASSUME NEW pc \in {"Idle", "Review"}, At(r, pc), ResultInv', ResultKept,
               UNCHANGED <<attempt, voted>>
        PROVE  SettlementInv'
    <2> DEFINE next == [task EXCEPT !.pc = pc]
    <2>1. next \in ResolverTask /\ next.pc \in {"Idle", "Review"}
      BY <1>1 DEF ResolverTask
    <2>2. resolver' = [resolver EXCEPT ![r] = next]
      BY <1>1, <1>4 DEF At
    <2> HIDE DEF next
    <2> QED
      BY <1>1, <1>4, <2>1, <2>2, RowsStay
  <1>5. ASSUME resolver' = [resolver EXCEPT ![r] = Idle], UNCHANGED <<market, attempt, voted>>
        PROVE  SettlementInv'
    BY <1>1, <1>2, <1>3, <1>5, RowsStay
  <1>6. CASE BeginTick(r)
    <2> DEFINE next == [Idle EXCEPT !.result = view,
                        !.pc = IF AlreadyAttested(r) \/ now > ResolutionTime \/ view = Undetermined
                               THEN "Review" ELSE "Attest"]
    <2>1. next \in ResolverTask /\ next.pc \in {"Review", "Attest"}
      BY <1>1, <1>2 DEF ResolverTask
    <2>2. resolver' = [resolver EXCEPT ![r] = next] /\ UNCHANGED <<market, voted>>
      BY <1>6 DEF BeginTick
    <2>3. PICK status \in {attempt[r], "missed", "refused"} : attempt' = [attempt EXCEPT ![r] = status]
      BY <1>1, <1>6 DEF BeginTick, RecordAttempt
    <2>4. /\ status \in {"none", "attested", "missed", "refused"}
          /\ status = "attested" => attempt[r] = "attested"
      BY <1>1
    <2>5. voted' \in {voted, voted \cup {r}} /\ (r \in voted' => r \in voted)
      BY <2>2
    <2> HIDE DEF next
    <2> QED
      BY <1>1, <1>3, <2>1, <2>2, <2>3, <2>4, <2>5, ResolverMoves
  <1>7. CASE RefuseRoom(r)
    <2>1. /\ resolver' = [resolver EXCEPT ![r] = task] /\ task.pc = "Idle"
          /\ attempt' = [attempt EXCEPT ![r] = "refused"] /\ UNCHANGED <<market, voted>>
      BY <1>1, <1>7 DEF RefuseRoom, RecordAttempt
    <2>2. voted' \in {voted, voted \cup {r}} /\ (r \in voted' => r \in voted)
      BY <2>1
    <2> HIDE DEF task
    <2> QED
      BY <1>1, <1>3, <2>1, <2>2, ResolverMoves
  <1>8. CASE Attest(r)
    <2>1. UNCHANGED <<attempt, voted>> /\ task.result \in Opinions
      BY <1>1, <1>8 DEF Attest, ResolverTask
    <2>2. CASE AttestResult(r, task.result) /\ At(r, "Record")
      <3> DEFINE next == [task EXCEPT !.pc = "Record"]
      <3>1. next \in ResolverTask /\ next.pc = "Record"
        BY <1>1 DEF ResolverTask
      <3>2. resolver' = [resolver EXCEPT ![r] = next]
        BY <1>1, <2>2 DEF At
      <3>3. ResultInv' /\ ResultKept /\ HasAttested(r)'
        BY <1>1, <2>1, <2>2, AttestationKeeps
      <3> HIDE DEF next
      <3> QED
        BY <1>1, <2>1, <3>1, <3>2, <3>3, RowsStay
    <2>3. CASE At(r, "Review") /\ UNCHANGED market
      BY <1>3, <1>4, <2>1, <2>3
    <2> QED
      BY <1>8, <2>2, <2>3 DEF Attest
  <1>9. CASE Record(r)
    <2> DEFINE next == [task EXCEPT !.pc = "Review"]
    <2>1. next \in ResolverTask /\ next.pc = "Review"
      BY <1>1 DEF ResolverTask
    <2>2. /\ resolver' = [resolver EXCEPT ![r] = next] /\ UNCHANGED <<market, voted>>
          /\ attempt' = [attempt EXCEPT ![r] = "attested"] /\ HasAttested(r)
      BY <1>1, <1>9 DEF Record, At, RecordAttempt, ResolverSound
    <2>3. ResultInv' /\ ResultKept /\ HasAttested(r)'
      BY <1>3, <2>2 DEF ResultKept
    <2>4. voted' \in {voted, voted \cup {r}} /\ (r \in voted' => r \in voted)
      BY <2>2
    <2> HIDE DEF next
    <2> QED
      BY <1>1, <2>1, <2>2, <2>3, <2>4, ResolverMoves
  <1>10. CASE Review(r)
    <2> DEFINE votes == ChallengeState.open /\ r \notin voted /\ task.result # Undetermined
               next == [task EXCEPT !.pc = "Vote",
                                    !.accept = task.result.outcome # ChallengeState.standing]
    <2>1. UNCHANGED <<market, attempt, voted>>
      BY <1>10 DEF Review
    <2>2. CASE ~votes
      <3>1. resolver' = [resolver EXCEPT ![r] = Idle]
        BY <1>1, <1>10, <2>2 DEF Review
      <3> QED
        BY <1>5, <2>1, <3>1
    <2>3. CASE votes
      <3>1. resolver' = [resolver EXCEPT ![r] = next]
        BY <1>1, <1>10, <2>3 DEF Review
      <3>2. /\ market.challenged /\ task.result # Undetermined
            /\ ChallengeState.standing = market.provisional
        BY <2>3 DEF ChallengeState
      <3> DEFINE accept == task.result.outcome # ChallengeState.standing
      <3>3. accept \in BOOLEAN /\ (accept <=> task.result.outcome # market.provisional)
        BY <3>2
      <3>4. next = [task EXCEPT !.pc = "Vote", !.accept = accept]
        OBVIOUS
      <3> HIDE DEF accept, next
      <3>5. next \in ResolverTask /\ next.pc = "Vote" /\ next.result = task.result
            /\ next.accept = accept
        BY <1>1, <3>3, <3>4 DEF ResolverTask
      <3>6. market' = market
        BY <2>1
      <3> QED
        BY <1>1, <1>3, <2>1, <3>1, <3>2, <3>3, <3>5, <3>6, RowsStay
    <2> QED
      BY <2>2, <2>3
  <1>11. CASE Vote(r)
    <2>1. /\ UNCHANGED <<attempt, voted>> /\ task.pc = "Vote"
          /\ task.result \in Opinions /\ task.accept \in BOOLEAN
      BY <1>1, <1>11 DEF Vote, ResolverTask
    <2>2. task.result # Undetermined /\ (task.accept <=> task.result.outcome # market.provisional)
      BY <1>1, <2>1 DEF ResolverSound
    <2>3. CASE AttestChallengeVerdict(r, task.accept, task.result) /\ At(r, "WriteVerdict")
      <3> DEFINE next == [task EXCEPT !.pc = "WriteVerdict"]
      <3>1. next \in ResolverTask /\ next.pc = "WriteVerdict"
        BY <1>1 DEF ResolverTask
      <3>2. resolver' = [resolver EXCEPT ![r] = next]
        BY <1>1, <2>3 DEF At
      <3>3. ResultInv' /\ ResultKept /\ HasVoted(r)'
        BY <1>1, <2>1, <2>2, <2>3, BallotKeeps
      <3> HIDE DEF next
      <3> QED
        BY <1>1, <2>1, <3>1, <3>2, <3>3, RowsStay
    <2>4. CASE resolver' = [resolver EXCEPT ![r] = Idle] /\ UNCHANGED market
      BY <1>5, <2>1, <2>4
    <2> QED
      BY <1>11, <2>3, <2>4 DEF Vote
  <1>12. CASE WriteVerdict(r)
    <2>1. /\ resolver' = [resolver EXCEPT ![r] = Idle] /\ UNCHANGED <<market, attempt>>
          /\ voted' = voted \cup {r} /\ HasVoted(r)
      BY <1>1, <1>12 DEF WriteVerdict, RecordVerdict, ResolverSound
    <2>2. ResultInv' /\ ResultKept /\ HasVoted(r)'
      BY <1>3, <2>1 DEF ResultKept
    <2> DEFINE status == attempt[r]
    <2>3. /\ status \in {"none", "attested", "missed", "refused"}
          /\ attempt' = [attempt EXCEPT ![r] = status]
          /\ status = "attested" => attempt[r] = "attested"
      BY <1>1, <2>1
    <2> HIDE DEF status
    <2> QED
      BY <1>1, <1>2, <2>1, <2>2, <2>3, ResolverMoves
  <1>13. CASE Interrupted(r)
    BY <1>5, <1>13 DEF Interrupted
  <1> QED
    BY <1>6, <1>7, <1>8, <1>9, <1>10, <1>11, <1>12, <1>13 DEF ResolverStep

\* A step of the market, the log or the clock, while the resolvers stand.
LEMMA ResolversStand ==
    ASSUME SettlementInv, ResultInv', ResultKept, UNCHANGED resolverVars, view' \in Opinions
    PROVE  SettlementInv'
  <1>1. ResolversAreSound'
    BY DEF SettlementInv, ResolversAreSound, ResolverSound, ResultKept, resolverVars
  <1>2. RecordsAreOnChain'
    BY DEF SettlementInv, RecordsAreOnChain, AlreadyAttested, HasAttested, HasVoted, ResultKept, resolverVars
  <1> QED
    BY <1>1, <1>2 DEF SettlementInv

LEMMA SettlementStep == SettlementInv /\ [SettlementNext]_settlementVars => SettlementInv'
  <1> SUFFICES ASSUME SettlementInv, [SettlementNext]_settlementVars
               PROVE  SettlementInv'
    OBVIOUS
  <1>1. ResultInv /\ now \in Nat /\ view \in Opinions
    BY DEF SettlementInv, ResultInv, ResultTypes, ResolversAreSound
  <1>2. UNCHANGED market /\ now' \in Nat /\ now' >= now => ResultInv' /\ ResultKept
    BY <1>1, SameMarket
  <1>3. CASE KeeperStep
    <2>1. UNCHANGED <<view, resolverVars, now>>
      BY <1>3 DEF KeeperStep
    <2>2. UNCHANGED market \/ \E call \in {keeper} : Accepts(call)
      BY <1>3 DEF KeeperStep, KeeperReads, KeeperCalls
    <2>3. ResultInv' /\ ResultKept
      BY <1>1, <1>2, <2>1, <2>2, FinalizationKeeps
    <2> QED
      BY <1>1, <2>1, <2>3, ResolversStand
  <1>4. CASE Challenge
    <2>1. ChallengeResult /\ UNCHANGED <<view, resolverVars, now>>
      BY <1>4 DEF Challenge
    <2> QED
      BY <1>1, <2>1, ChallengeKeeps, ResolversStand
  <1>5. CASE ViewChanges
    <2>1. view' \in Opinions /\ UNCHANGED <<market, resolverVars, now>>
      BY <1>5 DEF ViewChanges
    <2> QED
      BY <1>1, <1>2, <2>1, ResolversStand
  <1>6. CASE TimePasses
    <2>1. now' = now + 1 /\ UNCHANGED <<market, view, resolverVars>>
      BY <1>6 DEF TimePasses
    <2> QED
      BY <1>1, <1>2, <2>1, ResolversStand
  <1>7. CASE UNCHANGED settlementVars
    <2>1. UNCHANGED <<market, view, now, resolverVars>>
      BY <1>7 DEF settlementVars
    <2> QED
      BY <1>1, <1>2, <2>1, ResolversStand
  <1> QED
    BY <1>3, <1>4, <1>5, <1>6, <1>7, ResolverKeeps DEF SettlementNext

\* The inductive invariant of settlement: a registered result is the second attestation
\* of one result, a challenge is decided by two ballots of a kind or by time, and what a
\* resolver is about to write down has happened (AttestResult, attestChallengeVerdict, tick).
THEOREM SettlementInvariant == SettlementSpec => []SettlementInv
  BY SettlementStart, SettlementStep, PTL DEF SettlementSpec

\* However the ticks of any number of resolvers interleave, are lost or repeated, their
\* rows never say more than the chain, a challenged result stands or falls only by ballots
\* on rebuilt results or by time, and the settlement record names the true reason
\* (ResolutionService.tick, reviewChallenges, settlementRecordFor).
THEOREM SettlementKept == SettlementSpec => []SettlementHolds
  BY SettlementInvariant, SettlementInvHolds, PTL

===============================================================================
