-------------------------------- MODULE ChatRoom --------------------------------
(***************************************************************************)
(* The chat of a room: posts and moderations, each an async handler that   *)
(* checks a signed claim, verifies its signature and writes, in the store  *)
(* of memory or in the durable one.  A claim binds all of what it asks, so *)
(* it is the request: a post of `who', or `who' the moderator deleting     *)
(* message `ref' or muting its author until `until'.                       *)
(***************************************************************************)
EXTENDS Integers, Sequences, FiniteSets, SequencesExt

CONSTANTS Authors,
          Handlers,      \* requests under way at a time, at most
          MaxMessages,   \* messages kept
          RateLimit, RateWindow, SlowMode, ClaimLifetime, ClaimSkew,
          MaxLatency,    \* of a handler
          MaxChatTime, MaxRequestsMade, MaxChatLives   \* bounds

ASSUME ChatAssumption ==
    /\ IsFiniteSet(Handlers)
    /\ {MaxMessages, RateLimit, RateWindow} \subseteq Nat \ {0}
    /\ MaxLatency < RateWindow /\ MaxLatency <= ClaimSkew
    /\ {SlowMode, ClaimLifetime, ClaimSkew, MaxLatency, MaxChatTime, MaxRequestsMade, MaxChatLives} \subseteq Nat

VARIABLES chatNow,
          chatStore,     \* [durable, messages, lastId, timeouts, audits]
          chatMemory,    \* [recent, used]: what a restart forgets, whatever the store
          handler,
          past           \* [life, made, said, muted]: what happened, for the properties

chatVars == <<chatNow, chatStore, chatMemory, handler, past>>

Moderator == "moderator"
Erased == "erased"
Idle == [pc |-> "idle"]
Request(kind, who, ref, until, issued) == [kind |-> kind, who |-> who, ref |-> ref, until |-> until, issued |-> issued]

-------------------------------------------------------------------------------
(* The stores. *)

\* The row, with the id its store gives it.
MemoryAppend(st, author) ==
    [st EXCEPT !.messages = Append(@, [id |-> st.lastId + 1, author |-> author, deleted |-> FALSE]), !.lastId = @ + 1]
Shown(st) == {st.messages[i] : i \in {j \in DOMAIN st.messages : ~st.messages[j].deleted}}
Find(st, id) == {m \in Range(st.messages) : m.id = id}
Delete(st, id) ==
    LET row(m) == IF m.id = id THEN [m EXCEPT !.deleted = TRUE] ELSE m
    IN  [st EXCEPT !.messages = [i \in DOMAIN @ |-> row(st.messages[i])]]
SetTimeout(st, account, until) == [st EXCEPT !.timeouts[account] = until]
TimeoutFor(st, account) == st.timeouts[account]

LastOf(s, n) == SubSeq(s, Len(s) - n + 1, Len(s))
\* Mutant of Expired: every timeout is released.
AllExpired(timeouts, at) == [a \in DOMAIN timeouts |-> 0]
Expired(timeouts, at) == [a \in DOMAIN timeouts |-> IF timeouts[a] <= at THEN 0 ELSE timeouts[a]]
\* The conversation in memory is cut to its limit; the durable one makes room for the next row.
MemoryPrune(st, at) ==
    [st EXCEPT !.timeouts = Expired(@, at),
               !.messages = IF Len(@) > MaxMessages THEN LastOf(@, MaxMessages) ELSE @]
SqlitePrune(st, at) ==
    [st EXCEPT !.timeouts = Expired(@, at),
               !.messages = IF Len(@) >= MaxMessages THEN LastOf(@, MaxMessages - 1) ELSE @]
StorePrune(st, at) == IF st.durable THEN SqlitePrune(st, at) ELSE MemoryPrune(st, at)

-------------------------------------------------------------------------------
(* The service's own memory. *)

Recent(stamps, at) ==
    LET kept[i \in 0..Len(stamps)] ==
            IF i = 0 THEN <<>>
            ELSE IF at - stamps[i] < RateWindow THEN Append(kept[i - 1], stamps[i])
            ELSE kept[i - 1]
    IN  kept[Len(stamps)]
Pruned(m, at) ==
    [recent |-> [a \in Authors |-> Recent(m.recent[a], at)],
     used |-> {r \in m.used : at - r.issued <= ClaimLifetime + ClaimSkew}]
Release(m, r) == [m EXCEPT !.used = @ \ {r}]

\* The claim is as old as the request, and was not used.
Acceptable(r, at) ==
    /\ at - r.issued <= ClaimLifetime /\ r.issued - at <= ClaimSkew
    /\ r \notin chatMemory.used
\* Mutant of Reserves: the claim is not recorded before the handler yields.
ChecksOnly(h, r, at) ==
    /\ handler' = [handler EXCEPT ![h] = IF Acceptable(r, at) THEN [pc |-> "verify", request |-> r, at |-> at] ELSE Idle]
    /\ UNCHANGED chatMemory
Reserves(h, r, at) ==
    IF Acceptable(r, at)
    THEN /\ chatMemory' = [chatMemory EXCEPT !.used = @ \union {r}]
         /\ handler' = [handler EXCEPT ![h] = [pc |-> "verify", request |-> r, at |-> at]]
    ELSE /\ handler' = [handler EXCEPT ![h] = Idle]
         /\ UNCHANGED chatMemory
ChatEnds(h) == handler' = [handler EXCEPT ![h] = Idle]
ChatGoes(h, pc) == handler' = [handler EXCEPT ![h].pc = pc]
ChatAt(h, pc) == handler[h].pc = pc

\* A claim is signed at its sending, or ahead by the skew of clocks, or it is sent again.
Signed(kind, who, ref, until) == {Request(kind, who, ref, until, issued) : issued \in {chatNow, chatNow + ClaimSkew}}
SentAgain(kind) == {r \in chatMemory.used \union {past.said[i].request : i \in DOMAIN past.said} : r.kind = kind}

Arrives(h) ==
    /\ ChatAt(h, "idle") /\ past.made < MaxRequestsMade
    /\ past' = [past EXCEPT !.made = @ + 1]

-------------------------------------------------------------------------------
(* post *)

\* The timeout is read, and the handler yields.
PostArrives(h) ==
    /\ Arrives(h)
    /\ \E r \in (UNION {Signed("post", a, 0, 0) : a \in Authors}) \union SentAgain("post") :
           /\ chatNow >= TimeoutFor(chatStore, r.who)
           /\ handler' = [handler EXCEPT ![h] = [pc |-> "claim", request |-> r, at |-> chatNow]]
    /\ UNCHANGED <<chatNow, chatStore, chatMemory>>

PostReserves(h) ==
    /\ ChatAt(h, "claim")
    /\ Reserves(h, handler[h].request, handler[h].at)
    /\ UNCHANGED <<chatNow, chatStore, past>>

\* Mutant of RateLimited: one message more than the limit.
RateExceeded(history, at) ==
    \/ Len(history) > RateLimit
    \/ history # <<>> /\ at - Last(history) < SlowMode
RateLimited(history, at) ==
    \/ Len(history) >= RateLimit
    \/ history # <<>> /\ at - Last(history) < SlowMode
\* The signature is known to be good or not; everything up to the next await is one step.
PostVerified(h, good) ==
    LET r == handler[h].request
        at == handler[h].at
        history == Recent(chatMemory.recent[r.who], at)
    IN  /\ ChatAt(h, "verify") /\ r.kind = "post"
        /\ IF ~good \/ RateLimited(history, at)
           THEN /\ chatMemory' = Release(chatMemory, r)
                /\ ChatEnds(h)
                /\ UNCHANGED chatStore
           ELSE /\ chatMemory' = Pruned([chatMemory EXCEPT !.recent[r.who] = Append(history, at)], at)
                /\ chatStore' = StorePrune(chatStore, at)
                /\ ChatGoes(h, "append")
        /\ UNCHANGED <<chatNow, past>>

PostAppends(h) ==
    LET r == handler[h].request
    IN  /\ ChatAt(h, "append")
        /\ chatStore' = MemoryAppend(chatStore, r.who)
        /\ past' = [past EXCEPT !.said = Append(@, [request |-> r, at |-> handler[h].at, life |-> past.life])]
        /\ ChatEnds(h)
        /\ UNCHANGED <<chatNow, chatMemory>>

-------------------------------------------------------------------------------
(* moderate *)

ModerationArrives(h) ==
    /\ Arrives(h)
    /\ \E action \in {"delete", "timeout"}, id \in 1..chatStore.lastId :
           \E r \in Signed(action, Moderator, id, MaxChatTime + 1) \union SentAgain(action) : Reserves(h, r, chatNow)
    /\ UNCHANGED <<chatNow, chatStore>>

ModerationVerified(h, good) ==
    LET r == handler[h].request
    IN  /\ ChatAt(h, "verify") /\ r.kind # "post"
        /\ IF ~good
           THEN /\ chatMemory' = Release(chatMemory, r)
                /\ ChatEnds(h)
                /\ UNCHANGED chatStore
           ELSE /\ chatMemory' = Pruned(chatMemory, handler[h].at)
                /\ chatStore' = StorePrune(chatStore, handler[h].at)
                /\ ChatGoes(h, "find")
        /\ UNCHANGED <<chatNow, past>>

\* What is done is done to the message as it was found, and then written down.
ModerationFinds(h) ==
    LET found == Find(chatStore, handler[h].request.ref)
    IN  /\ ChatAt(h, "find")
        /\ IF found = {} THEN ChatEnds(h)
           ELSE \E m \in found : handler' = [handler EXCEPT ![h] =
                    [pc |-> "apply", author |-> m.author, request |-> handler[h].request, at |-> handler[h].at]]
        /\ UNCHANGED <<chatNow, chatStore, chatMemory, past>>
ModerationApplies(h) ==
    LET r == handler[h].request
        author == handler[h].author
    IN  /\ ChatAt(h, "apply")
        /\ IF r.kind = "delete"
           THEN /\ chatStore' = Delete(chatStore, r.ref)
                /\ UNCHANGED past
           ELSE /\ chatStore' = SetTimeout(chatStore, author, r.until)
                /\ past' = [past EXCEPT !.muted = Append(@, [who |-> author, at |-> chatNow, until |-> r.until])]
        /\ ChatGoes(h, "audit")
        /\ UNCHANGED <<chatNow, chatMemory>>
ModerationAudits(h) ==
    /\ ChatAt(h, "audit")
    /\ chatStore' = [chatStore EXCEPT !.audits = @ + 1]
    /\ ChatEnds(h)
    /\ UNCHANGED <<chatNow, chatMemory, past>>

-------------------------------------------------------------------------------
(* The operator and the process. *)

\* The account's words leave the durable store, and its timeouts with them.
EraseChatAccount(a) ==
    /\ chatStore.durable /\ \E m \in Range(chatStore.messages) : m.author = a
    /\ LET row(m) == IF m.author = a THEN [m EXCEPT !.author = Erased] ELSE m
       IN  chatStore' = [chatStore EXCEPT !.timeouts[a] = 0,
                                          !.messages = [i \in DOMAIN @ |-> row(chatStore.messages[i])]]
    /\ past' = [past EXCEPT !.muted = Append(@, [who |-> a, at |-> chatNow, until |-> 0])]
    /\ UNCHANGED <<chatNow, chatMemory, handler>>

EmptyChatStore(durable) ==
    [durable |-> durable, messages |-> <<>>, lastId |-> 0, audits |-> 0, timeouts |-> [a \in Authors \union {Erased} |-> 0]]
ForgetfulMemory == [recent |-> [a \in Authors |-> <<>>], used |-> {}]
ChatRestarts ==
    /\ past.life < MaxChatLives
    /\ past' = [past EXCEPT !.life = @ + 1, !.muted = IF chatStore.durable THEN @ ELSE <<>>]
    /\ chatMemory' = ForgetfulMemory
    /\ handler' = [h \in Handlers |-> Idle]
    /\ chatStore' = IF chatStore.durable THEN chatStore ELSE EmptyChatStore(FALSE)
    /\ UNCHANGED chatNow

ChatTimePasses ==
    /\ chatNow < MaxChatTime
    /\ \A h \in Handlers : ~ChatAt(h, "idle") => chatNow - handler[h].at < MaxLatency
    /\ chatNow' = chatNow + 1
    /\ UNCHANGED <<chatStore, chatMemory, handler, past>>

ChatInit ==
    /\ chatNow = 0
    /\ \E durable \in BOOLEAN : chatStore = EmptyChatStore(durable)
    /\ chatMemory = ForgetfulMemory
    /\ handler = [h \in Handlers |-> Idle]
    /\ past = [life |-> 1, made |-> 0, said |-> <<>>, muted |-> <<>>]
ChatStep(h) ==
    \/ PostArrives(h) \/ PostReserves(h) \/ PostAppends(h)
    \/ \E good \in BOOLEAN : PostVerified(h, good) \/ ModerationVerified(h, good)
    \/ ModerationArrives(h) \/ ModerationFinds(h) \/ ModerationApplies(h) \/ ModerationAudits(h)
ChatNext ==
    \/ \E h \in Handlers : ChatStep(h)
    \/ \E a \in Authors : EraseChatAccount(a)
    \/ ChatRestarts \/ ChatTimePasses
ChatSpec == ChatInit /\ [][ChatNext]_chatVars

-------------------------------------------------------------------------------
(* What the room may rely on. *)

\* A signed claim posts one message in the life of a process, however many copies of it are
\* under way at once, though each yields twice between the check and the record (post).
OneMessagePerClaim ==
    \A i, j \in DOMAIN past.said :
        past.said[i].life = past.said[j].life /\ past.said[i].request = past.said[j].request => i = j

\* No author has more than RateLimit messages accepted within a window, posts under way
\* included (post).  Any later request prunes the window (_prune), so that one that was a
\* latency under way counts from a window that much shorter.
Window(from) == from..(from + RateWindow - MaxLatency - 1)
SaidIn(said, life, who, times) ==
    {i \in DOMAIN said : said[i].life = life /\ said[i].request.who = who /\ said[i].at \in times}
RateHeld ==
    \A i \in DOMAIN past.said :
        LET m == past.said[i]
        IN  Cardinality(SaidIn(past.said, m.life, m.request.who, Window(m.at))) <= RateLimit

\* The author's last mute from before that moment had ended, or had been lifted by then.
NotMuted(muted, who, at) ==
    LET theirs == {k \in DOMAIN muted : muted[k].who = who}
        before == {k \in theirs : muted[k].at < at}
    IN  before # {} => \E k \in theirs : /\ muted[k].at <= at /\ muted[k].until <= at
                                         /\ \A j \in before : j <= k

\* What a muted author sent after the mute, and before its end, is not said: not in another
\* request's wake, not after pruning, and with a durable store not after a restart.
MutedStaySilent ==
    \A i \in DOMAIN past.said : NotMuted(past.muted, past.said[i].request.who, past.said[i].at)

\* The promises of the chat together: one message per signed claim, no author above the rate,
\* none while muted (ChatService.post).
ChatHolds == OneMessagePerClaim /\ RateHeld /\ MutedStaySilent
===============================================================================
