----------------------------- MODULE EvidenceProofs -----------------------------
(***************************************************************************)
(* Theorems about the Session Event Log and the poller that feeds it, for  *)
(* every number of participants and fills, every page limit, overlap and   *)
(* lookback, and any sequence of late listings, restatements and crashes.  *)
(***************************************************************************)
EXTENDS SourceLog, NatLemmas, SequenceTheorems

-------------------------------------------------------------------------------
(* Logs. *)

IsLog(events) == \E S : events \in Seq(S)

LEMMA LogShape ==
    ASSUME NEW s, IsLog(s)
    PROVE  Len(s) \in Nat /\ DOMAIN s = 1..Len(s)
  BY DEF IsLog

\* One entry more.
LEMMA OneMore ==
    ASSUME NEW s, IsLog(s), NEW e
    PROVE  /\ IsLog(Append(s, e)) /\ Len(Append(s, e)) = Len(s) + 1
           /\ Append(s, e)[Len(s) + 1] = e
           /\ \A i \in 1..Len(s) : Append(s, e)[i] = s[i]
  <1>1. PICK S : s \in Seq(S)
    BY DEF IsLog
  <1> DEFINE T == S \union {e}
  <1>2. s \in Seq(T) /\ e \in T
    BY <1>1
  <1>3. Append(s, e) \in Seq(T)
    BY <1>2
  <1> QED
    BY <1>2, <1>3 DEF IsLog

\* A nonempty set of indices has a last one.
LEMMA LastIndex ==
    ASSUME NEW n \in Nat, NEW T \in SUBSET (1..n), T # {}
    PROVE  \E x \in T : \A y \in T : y <= x
  <1> DEFINE D == {n - x : x \in T}
  <1>1. D \in SUBSET Nat /\ D # {}
    <2>1. \A x \in T : n - x \in Nat
      OBVIOUS
    <2> QED
      BY <2>1
  <1>2. PICK d \in D : \A y \in D : d <= y
    <2> HIDE DEF D
    <2> QED
      BY <1>1, LeastNat
  <1>3. PICK x \in T : d = n - x
    BY <1>2
  <1>4. ASSUME NEW y \in T PROVE y <= x
    <2>1. n - y \in D
      OBVIOUS
    <2>2. n - x <= n - y
      BY <1>2, <1>3, <2>1
    <2> QED
      BY <2>2
  <1> QED
    BY <1>4

LEMMA LatestIs ==
    ASSUME NEW s, IsLog(s), NEW draft
    PROVE  LET said == {i \in DOMAIN s : s[i].id = draft.id} IN
           /\ Latest(s, draft) = 0 <=> said = {}
           /\ said # {} => /\ Latest(s, draft) \in said
                           /\ \A j \in said : j <= Latest(s, draft)
  <1> DEFINE said == {i \in DOMAIN s : s[i].id = draft.id}
  <1>1. said \in SUBSET (1..Len(s)) /\ Len(s) \in Nat
    BY LogShape
  <1>2. Latest(s, draft) = IF said = {} THEN 0 ELSE CHOOSE i \in said : \A j \in said : j <= i
    BY DEF Latest
  <1> HIDE DEF said
  <1>3. CASE said = {}
    BY <1>2, <1>3 DEF said
  <1>4. CASE said # {}
    <2>1. \E x \in said : \A y \in said : y <= x
      BY <1>1, <1>4, LastIndex
    <2>2. Latest(s, draft) \in said /\ \A j \in said : j <= Latest(s, draft)
      BY <1>2, <1>4, <2>1
    <2>3. Latest(s, draft) # 0
      BY <1>1, <2>2
    <2> QED
      BY <1>4, <2>2, <2>3 DEF said
  <1> QED
    BY <1>3, <1>4

-------------------------------------------------------------------------------
(* What a batch adds to the log. *)

\* The entry at i restates the latest one before it about its fact, and says otherwise.
ChainedAt(s, i) ==
    LET earlier == {j \in 1..i - 1 : s[j].id = s[i].id}
    IN  /\ s[i].corrects = 0 => earlier = {}
        /\ s[i].corrects # 0 => /\ s[i].corrects \in earlier
                               /\ \A j \in earlier : j <= s[i].corrects
                               /\ s[s[i].corrects].amount # s[i].amount

\* What an entry depends on is what comes before it.
LEMMA ChainedStays ==
    ASSUME NEW s, NEW t, NEW n \in Nat, \A i \in 1..n : s[i] = t[i], NEW i \in 1..n, ChainedAt(s, i)
    PROVE  ChainedAt(t, i)
  <1>1. \A j \in 1..i - 1 : j \in 1..n
    OBVIOUS
  <1>2. s[i] = t[i] /\ \A j \in 1..i - 1 : s[j] = t[j]
    BY <1>1
  <1>3. {j \in 1..i - 1 : s[j].id = s[i].id} = {j \in 1..i - 1 : t[j].id = t[i].id}
    BY <1>2
  <1>4. s[i].corrects # 0 => s[i].corrects \in 1..i - 1
    BY DEF ChainedAt
  <1> QED
    BY <1>2, <1>3, <1>4 DEF ChainedAt

\* What the first n drafts of a batch make of the log a: b begins with it, says something of
\* each of them, and what it adds is news and comes from one of them.
Adds(a, b, drafts, n) ==
    /\ IsLog(b) /\ Len(a) <= Len(b)
    /\ \A i \in 1..Len(a) : b[i] = a[i]
    /\ \A k \in 1..n : \E i \in 1..Len(b) : b[i].id = drafts[k].id
    /\ \A i \in Len(a) + 1..Len(b) :
           /\ ChainedAt(b, i)
           /\ \E k \in 1..n : /\ b[i].id = drafts[k].id /\ b[i].amount = drafts[k].amount
                             /\ b[i].raw = Raw(drafts)

LEMMA IngestAdds ==
    ASSUME NEW a, IsLog(a), NEW b, NEW drafts, NEW n \in Nat \ {0}, Adds(a, b, drafts, n - 1)
    PROVE  Adds(a, Ingest(b, drafts[n], drafts), drafts, n)
  <1> DEFINE draft == drafts[n]
             last == Latest(b, draft)
             e == Event(draft, drafts, last)
             said == {i \in DOMAIN b : b[i].id = draft.id}
             c == Ingest(b, draft, drafts)
  <1>1. /\ IsLog(b) /\ Len(a) \in Nat /\ Len(b) \in Nat /\ DOMAIN b = 1..Len(b)
        /\ Len(a) <= Len(b) /\ \A i \in 1..Len(a) : b[i] = a[i]
    BY LogShape DEF Adds
  <1>2. /\ last = 0 <=> said = {}
        /\ said # {} => last \in said /\ \A j \in said : j <= last
    BY <1>1, LatestIs
  <1>3. \A k \in 1..n : k = n \/ k \in 1..n - 1
    OBVIOUS
  <1>4. n \in 1..n /\ \A k \in 1..n - 1 : k \in 1..n
    OBVIOUS
  <1>5. CASE ~IsNews(b, draft)
    <2>1. c = b
      BY <1>5 DEF Ingest
    <2>2. last # 0
      BY <1>5 DEF IsNews
    <2>3. \E i \in 1..Len(b) : b[i].id = draft.id
      BY <1>1, <1>2, <2>2
    <2>4. \A k \in 1..n : \E i \in 1..Len(b) : b[i].id = drafts[k].id
      BY <1>3, <2>3 DEF Adds
    <2>5. Adds(a, b, drafts, n)
      BY <1>1, <1>4, <2>4 DEF Adds
    <2> QED
      BY <2>1, <2>5
  <1>6. CASE IsNews(b, draft)
    <2> DEFINE m == Len(b) + 1
    <2>1. c = Append(b, e)
      BY <1>6 DEF Ingest
    <2> HIDE DEF c, said
    <2>2. /\ IsLog(c) /\ Len(c) = m /\ c[m] = e
          /\ \A i \in 1..Len(b) : c[i] = b[i]
      BY <1>1, <2>1, OneMore
    <2>3. /\ e.id = draft.id /\ e.amount = draft.amount /\ e.corrects = last
          /\ e.raw = Raw(drafts)
      BY DEF Event
    <2>4. Len(a) <= Len(c) /\ \A i \in 1..Len(a) : c[i] = a[i]
      BY <1>1, <2>2
    <2>5. \A k \in 1..n : \E i \in 1..Len(c) : c[i].id = drafts[k].id
      <3>1. m \in 1..Len(c) /\ c[m].id = drafts[n].id
        BY <1>1, <2>2, <2>3
      <3>2. \A i \in 1..Len(b) : i \in 1..Len(c)
        BY <1>1, <2>2
      <3>3. \A k \in 1..n - 1 : \E i \in 1..Len(c) : c[i].id = drafts[k].id
        BY <2>2, <3>2 DEF Adds
      <3> QED
        BY <1>3, <3>1, <3>3
    <2>6. ChainedAt(c, m)
      <3>1. m - 1 = Len(b)
        BY <1>1
      <3>2. {j \in 1..m - 1 : c[j].id = c[m].id} = said
        BY <1>1, <2>2, <2>3, <3>1 DEF said
      <3>3. c[m].corrects = last /\ c[m].amount = draft.amount
        BY <2>2, <2>3
      <3>4. last # 0 => /\ last \in said /\ (\A j \in said : j <= last)
                        /\ c[last].amount # draft.amount
        <4> SUFFICES ASSUME last # 0
                     PROVE  /\ last \in said /\ (\A j \in said : j <= last)
                            /\ c[last].amount # draft.amount
          OBVIOUS
        <4>1. last \in said /\ \A j \in said : j <= last
          BY <1>2
        <4>2. c[last] = b[last]
          BY <1>1, <2>2, <4>1 DEF said
        <4>3. b[last].amount # draft.amount
          BY <1>6 DEF IsNews
        <4> QED
          BY <4>1, <4>2, <4>3
      <3> HIDE DEF last, m, draft, e
      <3> QED
        BY <1>2, <3>2, <3>3, <3>4 DEF ChainedAt
    <2>7. ASSUME NEW i \in Len(a) + 1..Len(c)
          PROVE  /\ ChainedAt(c, i)
                 /\ \E k \in 1..n : /\ c[i].id = drafts[k].id /\ c[i].amount = drafts[k].amount
                                   /\ c[i].raw = Raw(drafts)
      <3>1. CASE i = m
        BY <1>4, <2>2, <2>3, <2>6, <3>1
      <3>2. CASE i # m
        <4>1. i \in Len(a) + 1..Len(b) /\ i \in 1..Len(b)
          BY <1>1, <2>2, <3>2
        <4>2. c[i] = b[i]
          BY <2>2, <4>1
        <4>3. ChainedAt(b, i)
          BY <4>1 DEF Adds
        <4>4. ChainedAt(c, i)
          BY <1>1, <2>2, <4>1, <4>3, ChainedStays
        <4>5. PICK k \in 1..n - 1 : /\ b[i].id = drafts[k].id /\ b[i].amount = drafts[k].amount
                                   /\ b[i].raw = Raw(drafts)
          BY <4>1 DEF Adds
        <4> QED
          BY <1>4, <4>2, <4>4, <4>5
      <3> QED
        BY <3>1, <3>2
    <2> HIDE DEF m, e, last, draft
    <2> QED
      BY <2>2, <2>4, <2>5, <2>7 DEF Adds, c, draft
  <1> QED
    BY <1>5, <1>6

\* The log before and after each draft of a batch.
Ingesting(drafts, n, g) ==
    /\ g = [i \in 0..n |-> g[i]]
    /\ g[0] = log /\ \A i \in 1..n : g[i] = Ingest(g[i - 1], drafts[i], drafts)

LEMMA IngestingExists ==
    ASSUME NEW drafts, NEW n \in Nat
    PROVE  \E g : Ingesting(drafts, n, g)
  <1> DEFINE None == {m \in Nat : ~\E g : Ingesting(drafts, m, g)}
  <1> SUFFICES ASSUME None # {} PROVE FALSE
    OBVIOUS
  <1>1. PICK m \in None : \A y \in None : m <= y
    BY LeastNat
  <1>2. m # 0
    <2> SUFFICES ASSUME m = 0 PROVE FALSE
      OBVIOUS
    <2>1. Ingesting(drafts, 0, [i \in 0..0 |-> log])
      BY DEF Ingesting
    <2> QED
      BY <1>1, <2>1
  <1>3. m - 1 \in Nat /\ m \in Nat /\ m - 1 < m
    BY <1>1, <1>2
  <1>4. PICK g : Ingesting(drafts, m - 1, g)
    BY <1>1, <1>3
  <1> DEFINE h == [i \in 0..m |-> IF i = m THEN Ingest(g[m - 1], drafts[m], drafts) ELSE g[i]]
  <1>5. h = [i \in 0..m |-> h[i]] /\ h[0] = log
    BY <1>2, <1>3, <1>4 DEF Ingesting
  <1>6. ASSUME NEW i \in 1..m
        PROVE  h[i] = Ingest(h[i - 1], drafts[i], drafts)
    <2>1. i \in 0..m /\ i - 1 \in 0..m /\ i - 1 # m /\ (i # m => i \in 1..(m - 1))
      BY <1>3
    <2>2. h[i - 1] = g[i - 1]
      BY <2>1
    <2>3. CASE i = m
      BY <2>1, <2>2, <2>3
    <2>4. CASE i # m
      <3>1. h[i] = g[i]
        BY <2>1, <2>4
      <3> QED
        BY <1>4, <2>1, <2>2, <2>4, <3>1 DEF Ingesting
    <2> QED
      BY <2>3, <2>4
  <1> HIDE DEF h
  <1>7. Ingesting(drafts, m, h)
    BY <1>5, <1>6 DEF Ingesting
  <1> QED
    BY <1>1, <1>7

LEMMA IngestedIs ==
    ASSUME NEW drafts, NEW n \in Nat
    PROVE  \E g : Ingesting(drafts, n, g) /\ Ingested(drafts, n) = g[n]
  <1> DEFINE Step(g) == [i \in 0..n |-> IF i = 0 THEN log ELSE Ingest(g[i - 1], drafts[i], drafts)]
             after == CHOOSE g : g = Step(g)
  <1>1. Ingested(drafts, n) = after[n]
    BY DEF Ingested
  <1>2. PICK g : Ingesting(drafts, n, g)
    BY IngestingExists
  <1>3. g = Step(g)
    <2>1. \A i \in 0..n : i # 0 => i \in 1..n
      OBVIOUS
    <2>2. \A i \in 0..n : g[i] = IF i = 0 THEN log ELSE Ingest(g[i - 1], drafts[i], drafts)
      BY <1>2, <2>1 DEF Ingesting
    <2>3. g = [i \in 0..n |-> g[i]]
      BY <1>2 DEF Ingesting
    <2> QED
      BY <2>2, <2>3
  <1>4. after = Step(after)
    BY <1>3
  <1> HIDE DEF after
  <1>5. /\ after = [i \in 0..n |-> after[i]]
        /\ \A i \in 0..n : after[i] = IF i = 0 THEN log ELSE Ingest(after[i - 1], drafts[i], drafts)
    BY <1>4
  <1>6. after[0] = log /\ \A i \in 1..n : after[i] = Ingest(after[i - 1], drafts[i], drafts)
    <2>1. 0 \in 0..n /\ \A i \in 1..n : i \in 0..n /\ i # 0
      OBVIOUS
    <2>2. \A i \in 0..n : after[i] = IF i = 0 THEN log ELSE Ingest(after[i - 1], drafts[i], drafts)
      BY <1>5
    <2> QED
      BY <2>1, <2>2
  <1>7. Ingesting(drafts, n, after)
    BY <1>5, <1>6 DEF Ingesting
  <1> QED
    BY <1>1, <1>7

LEMMA IngestedAdds ==
    ASSUME IsLog(log), NEW drafts, NEW n \in Nat
    PROVE  Adds(log, Ingested(drafts, n), drafts, n)
  <1>1. PICK g : Ingesting(drafts, n, g) /\ Ingested(drafts, n) = g[n]
    BY IngestedIs
  <1> DEFINE Wrong == {m \in 0..n : ~Adds(log, g[m], drafts, m)}
  <1> SUFFICES ASSUME Wrong # {} PROVE FALSE
    BY <1>1
  <1>2. PICK m \in Wrong : \A y \in Wrong : m <= y
    <2>1. Wrong \in SUBSET Nat
      OBVIOUS
    <2> HIDE DEF Wrong
    <2> QED
      BY <2>1, LeastNat
  <1>3. Adds(log, g[0], drafts, 0)
    <2>1. g[0] = log /\ Len(log) \in Nat
      BY <1>1, LogShape DEF Ingesting
    <2> QED
      BY <2>1 DEF Adds
  <1>4. m \in 1..n /\ m - 1 \in 0..n /\ m - 1 < m /\ m \in Nat \ {0}
    BY <1>2, <1>3
  <1>5. Adds(log, g[m - 1], drafts, m - 1)
    BY <1>2, <1>4
  <1>6. Adds(log, Ingest(g[m - 1], drafts[m], drafts), drafts, m)
    BY <1>4, <1>5, IngestAdds
  <1> QED
    BY <1>1, <1>2, <1>4, <1>6 DEF Ingesting

-------------------------------------------------------------------------------
(* A page shows the fills of its window in order, and of a full one all that happened *)
(* before its last.                                                                   *)

SourceFill == [who : ToSet(Traders), at : Nat, worth : Worths \union Revised, late : BOOLEAN]
Place(id) == Cardinality({j \in Readable : Before(j, id)}) + 1

LEMMA ReadableFinite ==
    ASSUME fills \in Seq(SourceFill)
    PROVE  /\ Readable \subseteq 1..Len(fills) /\ DOMAIN fills = 1..Len(fills) /\ Len(fills) \in Nat
           /\ \A id \in 1..Len(fills) : fills[id].at \in Nat
           /\ IsFiniteSet(Readable) /\ Cardinality(Readable) \in Nat
  <1>1. DOMAIN fills = 1..Len(fills) /\ Len(fills) \in Nat
    OBVIOUS
  <1>2. Readable \subseteq 1..Len(fills)
    BY <1>1 DEF Readable
  <1>3. IsFiniteSet(1..Len(fills))
    BY <1>1, FS_Interval
  <1>4. \A id \in 1..Len(fills) : fills[id].at \in Nat
    <2>1. \A id \in 1..Len(fills) : fills[id] \in SourceFill
      OBVIOUS
    <2> QED
      BY <2>1 DEF SourceFill
  <1> QED
    BY <1>1, <1>2, <1>3, <1>4, FS_Subset, FS_CardinalityType

\* The places of the readable fills are 1 to their number, each taken once, in order.
LEMMA Places ==
    ASSUME fills \in Seq(SourceFill)
    PROVE  LET n == Cardinality(Readable) IN
           /\ \A id \in Readable : Place(id) \in 1..n
           /\ \A i, j \in Readable : Before(i, j) => Place(i) < Place(j)
           /\ \A i, j \in Readable : Place(i) = Place(j) => i = j
           /\ \A i \in 1..n : \E id \in Readable : Place(id) = i
  <1> DEFINE n == Cardinality(Readable)
             Earlier(id) == {j \in Readable : Before(j, id)}
  <1>1. /\ Readable \subseteq 1..Len(fills) /\ Len(fills) \in Nat
        /\ \A id \in 1..Len(fills) : fills[id].at \in Nat
        /\ IsFiniteSet(Readable) /\ n \in Nat
    BY ReadableFinite
  <1>2. \A id \in Readable : IsFiniteSet(Earlier(id)) /\ Cardinality(Earlier(id)) \in Nat
    BY <1>1, FS_Subset, FS_CardinalityType
  <1>3. ASSUME NEW S \in SUBSET Readable, NEW T \in SUBSET Readable, NEW x \in T,
               S \subseteq T, x \notin S
        PROVE  Cardinality(S) < Cardinality(T)
    <2>1. IsFiniteSet(T) /\ IsFiniteSet(S)
      BY <1>1, FS_Subset
    <2>2. S \in SUBSET (T \ {x}) /\ IsFiniteSet(T \ {x}) /\ Cardinality(T \ {x}) = Cardinality(T) - 1
      BY <1>3, <2>1, FS_RemoveElement
    <2>3. Cardinality(S) <= Cardinality(T \ {x})
      BY <2>2, FS_Subset
    <2>4. Cardinality(S) \in Nat /\ Cardinality(T) \in Nat
      BY <2>1, FS_CardinalityType
    <2> QED
      BY <2>2, <2>3, <2>4
  <1>4. ASSUME NEW id \in Readable PROVE Place(id) \in 1..n
    <2>1. ~Before(id, id)
      BY <1>1 DEF Before
    <2>2. Cardinality(Earlier(id)) < n
      BY <1>3, <2>1
    <2>3. Place(id) = Cardinality(Earlier(id)) + 1
      BY DEF Place
    <2> HIDE DEF Earlier, n
    <2> QED
      BY <1>1, <1>2, <2>2, <2>3
  <1>5. ASSUME NEW i \in Readable, NEW j \in Readable, Before(i, j) PROVE Place(i) < Place(j)
    <2>1. \A k \in Readable : Before(k, i) => Before(k, j)
      BY <1>1, <1>5 DEF Before
    <2>2. ~Before(i, i)
      BY <1>1 DEF Before
    <2>3. Cardinality(Earlier(i)) < Cardinality(Earlier(j))
      BY <1>3, <1>5, <2>1, <2>2
    <2>4. Place(i) = Cardinality(Earlier(i)) + 1 /\ Place(j) = Cardinality(Earlier(j)) + 1
      BY DEF Place
    <2> HIDE DEF Earlier
    <2> QED
      BY <1>2, <2>3, <2>4
  <1>6. ASSUME NEW i \in Readable, NEW j \in Readable, Place(i) = Place(j) PROVE i = j
    <2> SUFFICES ASSUME i # j PROVE FALSE
      OBVIOUS
    <2>1. Before(i, j) \/ Before(j, i)
      BY <1>1 DEF Before
    <2>2. Place(i) < Place(j) \/ Place(j) < Place(i)
      BY <1>5, <2>1
    <2> QED
      BY <1>1, <1>4, <1>6, <2>2
  <1> DEFINE f == [id \in Readable |-> Place(id)]
  <1>7. f \in Injection(Readable, 1..n)
    BY <1>4, <1>6 DEF Injection, IsInjective
  <1>8. IsFiniteSet(1..n) /\ Cardinality(1..n) = n
    BY <1>1, FS_Interval
  <1>9. f \in Surjection(Readable, 1..n)
    <2> HIDE DEF f
    <2> QED
      BY <1>1, <1>7, <1>8, FS_Injection
  <1>10. \A i \in 1..n : \E id \in Readable : Place(id) = i
    BY <1>9 DEF Surjection
  <1> QED
    BY <1>4, <1>5, <1>6, <1>10

\* The page's drafts are those of the first readable fills.
LEMMA PageShows ==
    ASSUME fills \in Seq(SourceFill), PageLimit \in Nat \ {0}
    PROVE  /\ IsLog(Page) /\ Len(Page) \in Nat
           /\ Len(Page) <= PageLimit
           /\ \A i \in 1..Len(Page) : \E id \in Readable : Page[i] = Draft(id) /\ Place(id) = i
           /\ \A id \in Readable : Len(Page) # PageLimit \/ Place(id) <= PageLimit =>
                                     /\ Place(id) \in 1..Len(Page)
                                     /\ Page[Place(id)] = Draft(id)
  <1> DEFINE n == Cardinality(Readable)
             shown == IF n < PageLimit THEN n ELSE PageLimit
             At(i) == CHOOSE id \in Readable : Place(id) = i
             p == [i \in 1..shown |-> Draft(At(i))]
  <1>1. Page = p
    BY DEF Page, Place
  <1>2. n \in Nat
    BY ReadableFinite
  <1>3. /\ \A id \in Readable : Place(id) \in 1..n
        /\ \A i, j \in Readable : Place(i) = Place(j) => i = j
        /\ \A i \in 1..n : \E id \in Readable : Place(id) = i
    BY Places
  <1>4. \A i \in 1..n : At(i) \in Readable /\ Place(At(i)) = i
    BY <1>3
  <1> HIDE DEF n, At
  <1>5. shown \in Nat /\ shown <= n /\ shown <= PageLimit /\ (shown # PageLimit => shown = n)
    BY <1>2
  <1> HIDE DEF shown
  <1>6. p \in Seq({p[i] : i \in 1..shown}) /\ Len(p) = shown
    BY <1>5
  <1>7. ASSUME NEW i \in 1..shown
        PROVE  At(i) \in Readable /\ p[i] = Draft(At(i)) /\ Place(At(i)) = i
    BY <1>2, <1>4, <1>5
  <1>8. ASSUME NEW id \in Readable, shown # PageLimit \/ Place(id) <= PageLimit
        PROVE  Place(id) \in 1..shown /\ p[Place(id)] = Draft(id)
    <2>1. Place(id) \in 1..n
      BY <1>3
    <2>2. Place(id) \in 1..shown
      BY <1>2, <1>5, <1>8, <2>1 DEF shown
    <2>3. At(Place(id)) = id
      BY <1>3, <1>4, <2>1
    <2> QED
      BY <2>2, <2>3
  <1> HIDE DEF p
  <1> QED
    BY <1>1, <1>5, <1>6, <1>7, <1>8 DEF IsLog

\* Where a page's drafts are in the page is of no matter: each is the draft of its id.
Shows(page, id) == \E i \in 1..Len(page) : page[i].id = id

LEMMA PageDrafts ==
    ASSUME fills \in Seq(SourceFill), PageLimit \in Nat \ {0}, NEW i \in 1..Len(Page)
    PROVE  Page[i].id \in Readable /\ Page[i] = Draft(Page[i].id)
  <1>1. PICK id \in Readable : Page[i] = Draft(id)
    BY PageShows
  <1> QED
    BY <1>1 DEF Draft

LEMMA WholePage ==
    ASSUME fills \in Seq(SourceFill), PageLimit \in Nat \ {0}, Len(Page) # PageLimit, NEW id \in Readable
    PROVE  Shows(Page, id)
  <1>1. Place(id) \in 1..Len(Page) /\ Page[Place(id)] = Draft(id)
    BY PageShows
  <1>2. Draft(id).id = id
    BY DEF Draft
  <1> QED
    BY <1>1, <1>2 DEF Shows

LEMMA FullPage ==
    ASSUME fills \in Seq(SourceFill), PageLimit \in Nat \ {0}, Len(Page) = PageLimit
    PROVE  LET last == Page[PageLimit].at IN
           /\ last \in Nat /\ last >= poller.from /\ last <= poller.to
           /\ \A id \in Readable : fills[id].at < last => Shows(Page, id)
  <1> DEFINE last == Page[PageLimit].at
  <1>1. PICK x \in Readable : Page[PageLimit] = Draft(x) /\ Place(x) = PageLimit
    <2>1. PageLimit \in 1..Len(Page)
      OBVIOUS
    <2> QED
      BY <2>1, PageShows
  <1>2. last = fills[x].at
    BY <1>1 DEF Draft
  <1>3. /\ fills[x].at \in Nat /\ \A id \in Readable : fills[id].at \in Nat
        /\ fills[x].at >= poller.from /\ fills[x].at <= poller.to
    BY ReadableFinite DEF Readable
  <1>4. ASSUME NEW id \in Readable, fills[id].at < last PROVE Shows(Page, id)
    <2>1. Before(id, x)
      BY <1>2, <1>4 DEF Before
    <2>2. Place(id) < Place(x) /\ Place(id) \in Nat
      BY <2>1, Places
    <2>3. Place(id) \in 1..Len(Page) /\ Page[Place(id)] = Draft(id)
      BY <1>1, <2>2, PageShows
    <2>4. Draft(id).id = id
      BY DEF Draft
    <2> QED
      BY <2>3, <2>4 DEF Shows
  <1> QED
    BY <1>2, <1>3, <1>4

-------------------------------------------------------------------------------
(* The inductive invariant. *)

Phases == {"Poll", "Sweep", "Baseline"}
PollerStates ==
    [pc : Phases \union {"Down", "Rest", "Polled"}, who : 1..Nobody, from : Nat, to : Nat,
     baselined : BOOLEAN, swept : BOOLEAN, captured : [DOMAIN Traders -> Nat]]

\* A window is a participant's, and its end is not in the future.
PollerOK(p, time) ==
    /\ p \in PollerStates
    /\ p.pc \in Phases => p.who \in DOMAIN Traders
    /\ p.from <= time /\ p.to <= time

SourceTypeOK ==
    /\ fills \in Seq(SourceFill) /\ unlisted \subseteq DOMAIN fills
    /\ IsLog(log)
    /\ cursor \in [DOMAIN Traders -> Nat]
    /\ clock \in Nat /\ upsets \in Nat
    /\ PollerOK(poller, clock)

\* Nothing is known before its time, and a late fill is listed in time.
Timely ==
    /\ \A id \in DOMAIN fills : fills[id].at <= clock
    /\ \A w \in DOMAIN Traders : cursor[w] <= clock
    /\ \A id \in unlisted : fills[id].late /\ clock <= fills[id].at + Lag

\* A fill that the poller is to read for participant w.
Due(id, w) ==
    /\ fills[id].who = Traders[w] /\ poller.captured[w] <= fills[id].at
    /\ fills[id].late => Lag <= Overlap
Said(id) == \E i \in 1..Len(log) : log[i].id = id

CursorsCovered ==
    \A id \in DOMAIN fills, w \in DOMAIN Traders :
        Due(id, w) /\ fills[id].at < cursor[w] => Said(id)

\* In the middle of a window: what it has passed is in the log, but for late fills that the
\* cursor will not pass.
WindowCovered ==
    poller.pc = "Poll" =>
        \A id \in DOMAIN fills :
            /\ Due(id, poller.who) /\ fills[id].at < poller.from
            /\ fills[id].late => fills[id].at + Lag < poller.to
            => Said(id)

\* Every entry continues the chain of its fact and says what its response says.
Backed(entry) ==
    /\ entry.id \in DOMAIN entry.raw.facts
    /\ entry.raw.facts[entry.id].amount = entry.amount
LogChained == \A i \in 1..Len(log) : ChainedAt(log, i) /\ Backed(log[i])

SourceInv == SourceTypeOK /\ Timely /\ CursorsCovered /\ WindowCovered /\ LogChained

LEMMA TradersDomain == Len(Traders) \in Nat /\ DOMAIN Traders = 1..Len(Traders) /\ Nobody = Len(Traders) + 1
  BY SourceAssumption DEF SourceAssumption, Nobody

LEMMA LogsNothingSkipped ==
    ASSUME IsLog(log)
    PROVE  /\ CursorsCovered <=> NothingSkipped
           /\ LogChained <=> LogSaysNews
  <1>1. DOMAIN log = 1..Len(log)
    BY LogShape
  <1>2. ASSUME NEW id PROVE Latest(log, Draft(id)) # 0 <=> Said(id)
    <2>1. Draft(id).id = id
      BY DEF Draft
    <2>2. Latest(log, Draft(id)) = 0 <=> {i \in DOMAIN log : log[i].id = id} = {}
      BY <2>1, LatestIs
    <2> QED
      BY <1>1, <2>2 DEF Said
  <1>3. CursorsCovered <=> NothingSkipped
    BY <1>2 DEF CursorsCovered, NothingSkipped, Due
  <1>4. LogChained <=> LogSaysNews
    BY <1>1 DEF LogChained, LogSaysNews, ChainedAt, Backed
  <1> QED
    BY <1>3, <1>4

-------------------------------------------------------------------------------
(* What the steps keep. *)

\* Entries are never removed or changed.
LogGrows ==
    /\ IsLog(log') /\ Len(log) <= Len(log')
    /\ \A i \in 1..Len(log) : log'[i] = log[i]

LEMMA SaidStays ==
    ASSUME IsLog(log), LogGrows, NEW id, Said(id)
    PROVE  Said(id)'
  BY LogShape DEF LogGrows, Said

\* The fills a page or a baseline reports are what its response says.
Reports(drafts) ==
    \A k \in 1..Len(drafts) : drafts[k].id \in DOMAIN Raw(drafts).facts
                              /\ Raw(drafts).facts[drafts[k].id].amount = drafts[k].amount

LEMMA DraftsReport ==
    ASSUME NEW drafts, IsLog(drafts),
           \A j, k \in 1..Len(drafts) : drafts[j].id = drafts[k].id => drafts[j].amount = drafts[k].amount
    PROVE  Reports(drafts)
  <1> DEFINE At(id) == CHOOSE i \in DOMAIN drafts : drafts[i].id = id
             Fact(d) == [who |-> d.who, kind |-> d.kind, at |-> d.at, tid |-> d.tid,
                         amount |-> d.amount, seq |-> 0]
             facts == [id \in {drafts[i].id : i \in DOMAIN drafts} |-> Fact(drafts[At(id)])]
  <1>1. DOMAIN drafts = 1..Len(drafts)
    BY LogShape
  <1>2. Raw(drafts).facts = facts
    BY DEF Raw
  <1>3. ASSUME NEW k \in 1..Len(drafts)
        PROVE  drafts[k].id \in DOMAIN facts /\ facts[drafts[k].id].amount = drafts[k].amount
    <2>1. At(drafts[k].id) \in 1..Len(drafts) /\ drafts[At(drafts[k].id)].id = drafts[k].id
      BY <1>1
    <2> HIDE DEF At
    <2>2. drafts[At(drafts[k].id)].amount = drafts[k].amount
      BY <2>1
    <2>3. drafts[k].id \in DOMAIN facts
      BY <1>1
    <2>4. facts[drafts[k].id] = Fact(drafts[At(drafts[k].id)])
      BY <2>3
    <2> QED
      BY <2>2, <2>3, <2>4
  <1> QED
    BY <1>2, <1>3 DEF Reports

LEMMA IngestKeepsLog ==
    ASSUME IsLog(log), LogChained, NEW drafts, IsLog(drafts), Reports(drafts),
           NEW n \in 0..Len(drafts), log' = Ingested(drafts, n)
    PROVE  /\ LogGrows /\ LogChained'
           /\ \A k \in 1..n : \E i \in 1..Len(log') : log'[i].id = drafts[k].id
  <1>1. n \in Nat /\ Len(drafts) \in Nat
    BY LogShape
  <1>2. Adds(log, log', drafts, n)
    BY <1>1, IngestedAdds
  <1>3. Len(log) \in Nat /\ Len(log') \in Nat
    BY <1>2, LogShape DEF Adds
  <1>4. LogGrows
    BY <1>2 DEF Adds, LogGrows
  <1>5. ASSUME NEW i \in 1..Len(log')
        PROVE  ChainedAt(log', i) /\ Backed(log'[i])
    <2>1. CASE i \in 1..Len(log)
      <3>1. ChainedAt(log, i) /\ Backed(log[i]) /\ log'[i] = log[i]
        BY <1>4, <2>1 DEF LogChained, LogGrows
      <3>2. ChainedAt(log', i)
        BY <1>3, <1>4, <2>1, <3>1, ChainedStays DEF LogGrows
      <3> QED
        BY <3>1, <3>2
    <2>2. CASE i \in Len(log) + 1..Len(log')
      <3>1. ChainedAt(log', i)
        BY <1>2, <2>2 DEF Adds
      <3>2. PICK k \in 1..n : /\ log'[i].id = drafts[k].id /\ log'[i].amount = drafts[k].amount
                             /\ log'[i].raw = Raw(drafts)
        BY <1>2, <2>2 DEF Adds
      <3>3. k \in 1..Len(drafts)
        BY <1>1
      <3> QED
        BY <3>1, <3>2, <3>3 DEF Backed, Reports
    <2> QED
      BY <1>3, <2>1, <2>2
  <1>6. LogChained'
    BY <1>5 DEF LogChained
  <1>7. \A k \in 1..n : \E i \in 1..Len(log') : log'[i].id = drafts[k].id
    BY <1>2 DEF Adds
  <1> QED
    BY <1>4, <1>6, <1>7

\* A window begins at the cursor when it polls, and looks no further than now.
LEMMA WindowShape ==
    ASSUME poller \in PollerStates, clock \in Nat, cursor' \in [DOMAIN Traders -> Nat],
           \A w \in DOMAIN Traders : cursor'[w] <= clock,
           NEW pc \in Phases, NEW who \in 1..Nobody
    PROVE  LET p == Window(pc, who) IN
           /\ PollerOK(p, clock)
           /\ p.captured = poller.captured
           /\ p.pc = "Poll" => p.from = cursor'[p.who]
  <1> DEFINE p == Window(pc, who)
  <1>1. /\ Len(Traders) \in Nat /\ DOMAIN Traders = 1..Len(Traders) /\ Nobody = Len(Traders) + 1
        /\ ReconcileLookback \in Nat
    BY TradersDomain, SourceAssumption DEF SourceAssumption
  <1>2. CASE who = Nobody
    <2>1. p = [pc |-> IF pc = "Poll" THEN "Polled" ELSE "Rest", who |-> 1, from |-> 0, to |-> 0,
               baselined |-> poller.baselined, swept |-> poller.swept, captured |-> poller.captured]
      BY <1>2 DEF Window, Process, Resting
    <2> HIDE DEF p
    <2>2. PollerOK(p, clock) /\ p.captured = poller.captured /\ p.pc # "Poll"
      BY <1>1, <2>1 DEF PollerOK, PollerStates, Phases
    <2> QED
      BY <2>2 DEF p
  <1>3. CASE who # Nobody
    <2> DEFINE from == CASE pc = "Poll" -> cursor'[who]
                         [] pc = "Sweep" -> IF clock > ReconcileLookback THEN clock - ReconcileLookback ELSE 0
                         [] OTHER -> 0
    <2>1. p = [pc |-> pc, who |-> who, from |-> from, to |-> clock,
               baselined |-> poller.baselined, swept |-> poller.swept, captured |-> poller.captured]
      BY <1>3 DEF Window, Process
    <2>2. who \in DOMAIN Traders
      BY <1>1, <1>3
    <2>3. from \in Nat /\ from <= clock /\ (pc = "Poll" => from = cursor'[who])
      <3>1. CASE pc = "Poll"
        BY <2>2, <3>1
      <3>2. CASE pc = "Sweep"
        BY <1>1, <3>2
      <3>3. CASE pc = "Baseline"
        BY <3>3
      <3> QED
        BY <3>1, <3>2, <3>3 DEF Phases
    <2> HIDE DEF p, from
    <2>4. PollerOK(p, clock) /\ p.captured = poller.captured
      BY <1>1, <2>1, <2>2, <2>3 DEF PollerOK, PollerStates, Phases
    <2>5. p.pc = "Poll" => p.from = cursor'[p.who]
      BY <2>1, <2>3
    <2> QED
      BY <2>4, <2>5 DEF p
  <1> QED
    BY <1>2, <1>3

\* A window that has just begun has nothing behind it but what is before the cursor.
LEMMA NewWindowCovered ==
    ASSUME SourceInv, UNCHANGED <<fills, cursor>>, LogGrows, PollerOK(poller', clock),
           poller'.captured = poller.captured, poller'.pc = "Poll" => poller'.from = cursor'[poller'.who]
    PROVE  CursorsCovered' /\ WindowCovered'
  <1>1. \A id, w : Due(id, w)' => Due(id, w)
    BY DEF Due
  <1>2. CursorsCovered'
    <2> SUFFICES ASSUME NEW id \in DOMAIN fills, NEW w \in DOMAIN Traders,
                        Due(id, w)', fills[id].at < cursor[w]
                 PROVE  Said(id)'
      BY DEF CursorsCovered
    <2>1. Said(id)
      BY <1>1 DEF SourceInv, CursorsCovered
    <2> QED
      BY <2>1, SaidStays DEF SourceInv, SourceTypeOK
  <1>3. WindowCovered'
    BY <1>2 DEF WindowCovered, CursorsCovered, PollerOK, Phases
  <1> QED
    BY <1>2, <1>3

-------------------------------------------------------------------------------
(* The exchange. *)

LEMMA FillHappensKeeps ==
    ASSUME SourceInv, NEW w \in DOMAIN Traders, NEW worth \in Worths, NEW late \in BOOLEAN,
           FillHappens(Traders[w], worth, late)
    PROVE  SourceInv'
  <1> DEFINE e == [who |-> Traders[w], at |-> clock, worth |-> worth, late |-> late]
             n == Len(fills) + 1
  <1>1. /\ fills' = Append(fills, e) /\ UNCHANGED <<log, cursor, poller, clock>>
        /\ IF late THEN Upset /\ unlisted' = unlisted \union {n}
           ELSE UNCHANGED <<unlisted, upsets>>
    BY DEF FillHappens, connectorVars
  <1>2. e \in SourceFill
    BY DEF SourceFill, SourceInv, SourceTypeOK, ToSet
  <1> HIDE DEF e
  <1>3. /\ Len(fills) \in Nat /\ DOMAIN fills = 1..Len(fills)
        /\ fills' \in Seq(SourceFill) /\ DOMAIN fills' = 1..n
        /\ fills'[n] = e /\ \A id \in DOMAIN fills : fills'[id] = fills[id]
    BY <1>1, <1>2 DEF SourceInv, SourceTypeOK
  <1>4. /\ n \in DOMAIN fills' /\ n \notin DOMAIN fills
        /\ \A id \in DOMAIN fills' : id \in DOMAIN fills \/ id = n
        /\ \A id \in DOMAIN fills : id \in DOMAIN fills'
    BY <1>3
  <1>5. e.at = clock
    BY DEF e
  <1>6. /\ \A id \in unlisted' : id \in unlisted \/ (id = n /\ e.late)
        /\ upsets' \in Nat /\ unlisted' \subseteq DOMAIN fills'
    BY <1>1, <1>4 DEF SourceInv, SourceTypeOK, Upset, e
  <1> HIDE DEF n
  <1>7. SourceTypeOK'
    BY <1>1, <1>3, <1>6 DEF SourceInv, SourceTypeOK
  <1>8. clock \in Nat /\ Lag \in Nat
    BY SourceAssumption DEF SourceInv, SourceTypeOK, SourceAssumption
  <1>9. Timely'
    <2>1. \A id \in DOMAIN fills' : fills'[id].at <= clock'
      BY <1>1, <1>3, <1>4, <1>5, <1>8 DEF SourceInv, Timely
    <2>2. ASSUME NEW id \in unlisted' PROVE fills'[id].late /\ clock' <= fills'[id].at + Lag
      <3>1. CASE id \in unlisted
        BY <1>1, <1>3, <3>1 DEF SourceInv, Timely, SourceTypeOK
      <3>2. CASE id = n /\ e.late
        <4>1. fills'[id] = e
          BY <1>3, <3>2
        <4>2. clock' = clock
          BY <1>1
        <4>3. clock' <= e.at + Lag
          BY <1>5, <1>8, <4>2
        <4> QED
          BY <3>2, <4>1, <4>3
      <3> QED
        BY <1>6, <3>1, <3>2
    <2> QED
      BY <1>1, <2>1, <2>2 DEF SourceInv, Timely
  <1>10. \A id \in DOMAIN fills, x \in DOMAIN Traders : Due(id, x)' => Due(id, x)
    BY <1>1, <1>3 DEF Due
  <1>11. \A id : Said(id) => Said(id)'
    BY <1>1 DEF Said
  <1>12. CursorsCovered'
    <2> SUFFICES ASSUME NEW id \in DOMAIN fills', NEW x \in DOMAIN Traders,
                        Due(id, x)', fills'[id].at < cursor[x]
                 PROVE  Said(id)'
      BY <1>1 DEF CursorsCovered
    <2>1. id # n
      BY <1>3, <1>5, <1>8 DEF SourceInv, Timely, SourceTypeOK
    <2>2. id \in DOMAIN fills /\ fills'[id] = fills[id]
      BY <1>3, <1>4, <2>1
    <2> QED
      BY <1>10, <1>11, <2>2 DEF SourceInv, CursorsCovered
  <1>13. WindowCovered'
    <2> SUFFICES ASSUME poller.pc = "Poll", NEW id \in DOMAIN fills',
                        Due(id, poller.who)', fills'[id].at < poller.from,
                        fills'[id].late => fills'[id].at + Lag < poller.to
                 PROVE  Said(id)'
      BY <1>1 DEF WindowCovered
    <2>1. id # n
      BY <1>3, <1>5, <1>8 DEF SourceInv, SourceTypeOK, PollerOK, PollerStates
    <2>2. id \in DOMAIN fills /\ fills'[id] = fills[id]
      BY <1>3, <1>4, <2>1
    <2>3. poller.who \in DOMAIN Traders
      BY DEF SourceInv, SourceTypeOK, PollerOK, Phases
    <2>4. Due(id, poller.who)
      BY <1>1, <1>10, <2>2, <2>3
    <2>5. fills[id].at < poller.from /\ (fills[id].late => fills[id].at + Lag < poller.to)
      BY <2>2
    <2>6. Said(id)
      BY <2>2, <2>4, <2>5 DEF SourceInv, WindowCovered
    <2> QED
      BY <1>11, <2>6
  <1>14. LogChained'
    BY <1>1 DEF SourceInv, LogChained
  <1> QED
    BY <1>7, <1>9, <1>12, <1>13, <1>14 DEF SourceInv

LEMMA ListedKeeps ==
    ASSUME SourceInv, NEW id \in unlisted, Listed(id)
    PROVE  SourceInv'
  <1> USE DEF SourceInv, Listed, connectorVars
  <1>1. SourceTypeOK'
    BY DEF SourceTypeOK
  <1>2. Timely'
    BY DEF Timely
  <1>3. CursorsCovered' /\ WindowCovered'
    BY DEF CursorsCovered, WindowCovered, Due, Said
  <1>4. LogChained'
    BY DEF LogChained
  <1> QED
    BY <1>1, <1>2, <1>3, <1>4

LEMMA FillRestatedKeeps ==
    ASSUME SourceInv, NEW id \in DOMAIN fills, NEW worth \in Worths \union Revised, FillRestated(id, worth)
    PROVE  SourceInv'
  <1>1. /\ fills' = [fills EXCEPT ![id].worth = worth] /\ upsets' = upsets + 1
        /\ UNCHANGED <<unlisted, log, cursor, poller, clock>>
    BY DEF FillRestated, Upset, connectorVars
  <1>2. fills \in [1..Len(fills) -> SourceFill] /\ Len(fills) \in Nat /\ DOMAIN fills = 1..Len(fills)
    BY DEF SourceInv, SourceTypeOK
  <1>3. ASSUME NEW i \in DOMAIN fills
        PROVE  /\ fills'[i] \in SourceFill /\ fills'[i].who = fills[i].who
               /\ fills'[i].at = fills[i].at /\ fills'[i].late = fills[i].late
    <2>1. fills[i] \in SourceFill
      BY <1>2
    <2>2. fills'[i] = IF i = id THEN [fills[i] EXCEPT !.worth = worth] ELSE fills[i]
      BY <1>1, <1>2
    <2> QED
      BY <2>1, <2>2 DEF SourceFill
  <1>4. DOMAIN fills' = DOMAIN fills /\ fills' \in Seq(SourceFill)
    <2>1. fills' = [i \in 1..Len(fills) |-> fills'[i]]
      BY <1>1, <1>2
    <2> QED
      BY <1>2, <1>3, <2>1
  <1>5. SourceTypeOK'
    BY <1>1, <1>4 DEF SourceInv, SourceTypeOK
  <1>6. Timely'
    BY <1>1, <1>3, <1>4 DEF SourceInv, Timely, SourceTypeOK
  <1>7. \A i \in DOMAIN fills, w \in DOMAIN Traders : Due(i, w)' <=> Due(i, w)
    BY <1>1, <1>3 DEF Due
  <1>8. \A i : Said(i)' <=> Said(i)
    BY <1>1 DEF Said
  <1>9. CursorsCovered'
    BY <1>1, <1>3, <1>4, <1>7, <1>8 DEF SourceInv, CursorsCovered
  <1>10. WindowCovered'
    <2> SUFFICES ASSUME poller.pc = "Poll", NEW i \in DOMAIN fills,
                        Due(i, poller.who)', fills'[i].at < poller.from,
                        fills'[i].late => fills'[i].at + Lag < poller.to
                 PROVE  Said(i)'
      BY <1>1, <1>4 DEF WindowCovered
    <2>1. poller.who \in DOMAIN Traders
      BY DEF SourceInv, SourceTypeOK, PollerOK, Phases
    <2>2. Due(i, poller.who)
      BY <1>1, <1>7, <2>1
    <2>3. fills[i].at < poller.from /\ (fills[i].late => fills[i].at + Lag < poller.to)
      BY <1>3
    <2> QED
      BY <1>8, <2>2, <2>3 DEF SourceInv, WindowCovered
  <1>11. LogChained'
    BY <1>1 DEF SourceInv, LogChained
  <1> QED
    BY <1>5, <1>6, <1>9, <1>10, <1>11 DEF SourceInv

LEMMA ClockTicksKeeps ==
    ASSUME SourceInv, ClockTicks
    PROVE  SourceInv'
  <1>1. /\ clock' = clock + 1 /\ \A id \in unlisted : fills[id].at + Lag > clock
        /\ UNCHANGED <<fills, unlisted, log, cursor, poller, upsets>>
    BY DEF ClockTicks, exchangeVars, connectorVars
  <1>2. clock \in Nat /\ Lag \in Nat /\ \A id \in DOMAIN fills : fills[id].at \in Nat
    BY SourceAssumption, ReadableFinite DEF SourceAssumption, SourceInv, SourceTypeOK
  <1>3. SourceTypeOK'
    BY <1>1, <1>2 DEF SourceInv, SourceTypeOK, PollerOK, PollerStates
  <1>4. Timely'
    BY <1>1, <1>2 DEF SourceInv, Timely, SourceTypeOK
  <1>5. CursorsCovered' /\ WindowCovered'
    BY <1>1 DEF SourceInv, CursorsCovered, WindowCovered, Due, Said
  <1>6. LogChained'
    BY <1>1 DEF SourceInv, LogChained
  <1> QED
    BY <1>3, <1>4, <1>5, <1>6 DEF SourceInv

-------------------------------------------------------------------------------
(* The poller. *)

LEMMA CursorTyped ==
    ASSUME SourceInv
    PROVE  /\ poller \in PollerStates /\ clock \in Nat
           /\ cursor \in [DOMAIN Traders -> Nat] /\ \A w \in DOMAIN Traders : cursor[w] <= clock
           /\ IsLog(log) /\ fills \in Seq(SourceFill)
           /\ PageLimit \in Nat \ {0} /\ Overlap \in Nat /\ Lag \in Nat /\ 1 \in 1..Nobody
  BY SourceAssumption, TradersDomain DEF SourceAssumption, SourceInv, SourceTypeOK, PollerOK, Timely

\* A step that leaves the log and the cursors and begins a window, or none.
LEMMA NewWindowKeeps ==
    ASSUME SourceInv, UNCHANGED <<exchangeVars, clock, upsets, log, cursor>>,
           PollerOK(poller', clock), poller'.captured = poller.captured,
           poller'.pc = "Poll" => poller'.from = cursor'[poller'.who]
    PROVE  SourceInv'
  <1>1. UNCHANGED <<fills, unlisted, clock, upsets, log, cursor>>
    BY DEF exchangeVars
  <1>2. LogGrows
    BY <1>1, LogShape DEF LogGrows, SourceInv, SourceTypeOK
  <1>3. CursorsCovered' /\ WindowCovered'
    BY <1>1, <1>2, NewWindowCovered
  <1>4. SourceTypeOK'
    BY <1>1 DEF SourceInv, SourceTypeOK
  <1>5. Timely'
    BY <1>1 DEF SourceInv, Timely
  <1>6. LogChained'
    BY <1>1 DEF SourceInv, LogChained
  <1> QED
    BY <1>3, <1>4, <1>5, <1>6 DEF SourceInv

LEMMA LaunchKeeps ==
    ASSUME SourceInv, Launch, UNCHANGED <<exchangeVars, clock>>
    PROVE  SourceInv'
  <1>1. UNCHANGED <<log, cursor, upsets>> /\ poller' = Window("Baseline", 1)
    BY DEF Launch
  <1>2. /\ PollerOK(poller', clock) /\ poller'.captured = poller.captured
        /\ poller'.pc = "Poll" => poller'.from = cursor'[poller'.who]
    BY <1>1, CursorTyped, WindowShape DEF Phases
  <1> QED
    BY <1>1, <1>2, NewWindowKeeps

LEMMA StartRoundKeeps ==
    ASSUME SourceInv, StartRound, UNCHANGED <<exchangeVars, clock>>
    PROVE  SourceInv'
  <1>1. /\ UNCHANGED <<log, cursor, upsets>>
        /\ \E pc \in {"Poll", "Baseline"} : poller' = Window(pc, 1)
    BY DEF StartRound
  <1>2. /\ PollerOK(poller', clock) /\ poller'.captured = poller.captured
        /\ poller'.pc = "Poll" => poller'.from = cursor'[poller'.who]
    BY <1>1, CursorTyped, WindowShape DEF Phases
  <1> QED
    BY <1>1, <1>2, NewWindowKeeps

LEMMA SweepKeeps ==
    ASSUME SourceInv, Sweep
    PROVE  SourceInv'
  <1> DEFINE p == Window("Sweep", 1)
  <1>1. /\ UNCHANGED <<log, cursor, upsets>> /\ poller' = [p EXCEPT !.swept = TRUE]
        /\ UNCHANGED <<exchangeVars, clock>>
    BY DEF Sweep, StartSweep
  <1>2. /\ PollerOK(p, clock) /\ p.captured = poller.captured
        /\ p.pc = "Poll" => p.from = cursor'[p.who]
    BY <1>1, CursorTyped, WindowShape DEF Phases
  <1> HIDE DEF p
  <1>3. /\ PollerOK(poller', clock) /\ poller'.captured = poller.captured
        /\ poller'.pc = "Poll" => poller'.from = cursor'[poller'.who]
    BY <1>1, <1>2 DEF PollerOK, PollerStates
  <1> QED
    BY <1>1, <1>3, NewWindowKeeps

\* Draft ids tell a page's drafts apart, so its response says what they say.
LEMMA PageReports ==
    ASSUME SourceInv
    PROVE  IsLog(Page) /\ Reports(Page)
  <1>1. IsLog(Page) /\ \A i \in 1..Len(Page) : Page[i] = Draft(Page[i].id)
    BY CursorTyped, PageShows, PageDrafts
  <1>2. \A j, k \in 1..Len(Page) : Page[j].id = Page[k].id => Page[j].amount = Page[k].amount
    BY <1>1
  <1> QED
    BY <1>1, <1>2, DraftsReport

LEMMA CaptureBaselineKeeps ==
    ASSUME SourceInv, CaptureBaseline, UNCHANGED <<exchangeVars, clock>>
    PROVE  SourceInv'
  <1> DEFINE who == poller.who
             batch == <<BaselineDraft(who)>>
  <1>1. /\ poller.pc = "Baseline" /\ log' = Ingested(batch, 1)
        /\ cursor' = [cursor EXCEPT ![who] = clock]
        /\ UNCHANGED <<upsets, fills, unlisted, clock>>
    BY DEF CaptureBaseline, exchangeVars
  <1>2. who \in DOMAIN Traders /\ who + 1 \in 1..Nobody /\ Len(Traders) \in Nat /\ DOMAIN Traders = 1..Len(Traders)
    BY <1>1, TradersDomain DEF SourceInv, SourceTypeOK, PollerOK, Phases
  <1>3. LogGrows /\ LogChained'
    <2> DEFINE d == BaselineDraft(who)
    <2> HIDE DEF d
    <2>1. IsLog(<<d>>) /\ Len(<<d>>) = 1
      <3>1. <<d>> \in Seq({d})
        OBVIOUS
      <3> QED
        BY <3>1 DEF IsLog
    <2>2. Reports(<<d>>)
      <3>1. \A j, k \in 1..Len(<<d>>) : j = k
        BY <2>1
      <3> QED
        BY <2>1, <3>1, DraftsReport
    <2>3. log' = Ingested(<<d>>, 1)
      BY <1>1 DEF d
    <2>4. 1 \in 0..Len(<<d>>) /\ IsLog(log) /\ LogChained
      BY <2>1, CursorTyped DEF SourceInv
    <2> DEFINE one == <<d>>
    <2> HIDE DEF one
    <2>5. IsLog(one) /\ Reports(one) /\ 1 \in 0..Len(one) /\ log' = Ingested(one, 1)
      BY <2>1, <2>2, <2>3, <2>4 DEF one
    <2> QED
      BY <2>4, <2>5, IngestKeepsLog
  <1>4. cursor' \in [DOMAIN Traders -> Nat] /\ \A w \in DOMAIN Traders : cursor'[w] <= clock
    BY <1>1, <1>2, CursorTyped
  <1>5. PICK p : /\ PollerOK(p, clock) /\ p.captured = poller.captured
                 /\ p.pc = "Poll" => p.from = cursor'[p.who]
                 /\ \/ poller' = [p EXCEPT !.baselined = TRUE, !.captured[who] = clock]
                    \/ poller' = [p EXCEPT !.captured[who] = clock]
    <2>1. CASE who + 1 = Nobody
      <3>1. poller' = [Window("Poll", 1) EXCEPT !.baselined = TRUE, !.captured[who] = clock]
        BY <2>1 DEF CaptureBaseline
      <3> QED
        BY <1>4, <3>1, CursorTyped, WindowShape DEF Phases
    <2>2. CASE who + 1 # Nobody
      <3>1. poller' = [Window("Baseline", who + 1) EXCEPT !.captured[who] = clock]
        BY <2>2 DEF CaptureBaseline
      <3> QED
        BY <1>2, <1>4, <3>1, CursorTyped, WindowShape DEF Phases
    <2> QED
      BY <2>1, <2>2
  <1>6. /\ PollerOK(poller', clock)
        /\ poller'.captured = [poller.captured EXCEPT ![who] = clock]
        /\ poller'.pc = "Poll" => poller'.from = cursor'[poller'.who]
    <2>1. p \in PollerStates /\ p.captured \in [DOMAIN Traders -> Nat] /\ clock \in Nat
      BY <1>5, CursorTyped DEF PollerOK, PollerStates
    <2> DEFINE caught == [p.captured EXCEPT ![who] = clock]
    <2>2. caught \in [DOMAIN Traders -> Nat] /\ caught = [poller.captured EXCEPT ![who] = clock]
      BY <1>5, <2>1
    <2>3. \E flag \in BOOLEAN :
             poller' = [pc |-> p.pc, who |-> p.who, from |-> p.from, to |-> p.to,
                        baselined |-> flag, swept |-> p.swept, captured |-> caught]
      BY <1>5, <2>1 DEF PollerStates
    <2> HIDE DEF caught
    <2>4. /\ poller' \in PollerStates /\ poller'.captured = caught
          /\ poller'.pc = p.pc /\ poller'.who = p.who /\ poller'.from = p.from /\ poller'.to = p.to
      BY <2>1, <2>2, <2>3 DEF PollerStates
    <2> QED
      BY <1>5, <2>2, <2>4 DEF PollerOK
  <1> HIDE DEF who
  <1>7. SourceTypeOK'
    BY <1>1, <1>3, <1>4, <1>6 DEF SourceInv, SourceTypeOK, LogGrows
  <1>8. Timely'
    BY <1>1, <1>4 DEF SourceInv, Timely
  <1>9. CursorsCovered'
    <2> SUFFICES ASSUME NEW id \in DOMAIN fills, NEW w \in DOMAIN Traders,
                        Due(id, w)', fills[id].at < cursor'[w]
                 PROVE  Said(id)'
      BY <1>1 DEF CursorsCovered
    <2>1. w # who
      <3> SUFFICES ASSUME w = who PROVE FALSE
        OBVIOUS
      <3>1. poller'.captured[w] = clock /\ cursor'[w] = clock
        BY <1>1, <1>2, <1>6, CursorTyped DEF PollerStates
      <3>2. clock <= fills[id].at /\ fills[id].at < clock
        BY <1>1, <3>1 DEF Due
      <3>3. fills[id].at \in Nat /\ clock \in Nat
        BY CursorTyped, ReadableFinite
      <3> QED
        BY <3>2, <3>3
    <2>2. poller'.captured[w] = poller.captured[w] /\ cursor'[w] = cursor[w]
      BY <1>1, <1>6, <2>1, CursorTyped DEF PollerStates
    <2>3. Due(id, w)
      BY <1>1, <2>2 DEF Due
    <2>4. Said(id)
      BY <2>2, <2>3 DEF SourceInv, CursorsCovered
    <2> QED
      BY <1>3, <2>4, CursorTyped, SaidStays
  <1>10. WindowCovered'
    BY <1>1, <1>6, <1>9 DEF WindowCovered, CursorsCovered, PollerOK, Phases
  <1> QED
    BY <1>3, <1>7, <1>8, <1>9, <1>10 DEF SourceInv

\* What a page's window holds is listed when it is read.
LEMMA DueReadable ==
    ASSUME SourceInv, poller.pc = "Poll", NEW id \in DOMAIN fills, Due(id, poller.who),
           poller.from <= fills[id].at, fills[id].at <= poller.to,
           fills[id].late => fills[id].at + Lag < poller.to
    PROVE  id \in Readable
  <1>1. fills[id].at \in Nat /\ Lag \in Nat /\ clock \in Nat
    BY CursorTyped, ReadableFinite
  <1>2. poller.to \in Nat /\ poller.to <= clock
    BY DEF SourceInv, SourceTypeOK, PollerOK, PollerStates
  <1>3. id \notin unlisted
    <2> SUFFICES ASSUME id \in unlisted PROVE FALSE
      OBVIOUS
    <2>1. fills[id].late /\ clock <= fills[id].at + Lag
      BY DEF SourceInv, Timely
    <2>2. fills[id].at + Lag < poller.to
      BY <2>1
    <2> QED
      BY <1>1, <1>2, <2>1, <2>2
  <1> QED
    BY <1>3 DEF Readable, Due

LEMMA ReadPageKeeps ==
    ASSUME SourceInv, ReadPage, UNCHANGED <<exchangeVars, clock>>
    PROVE  SourceInv'
  <1> DEFINE who == poller.who
             more == Len(Page) = PageLimit
             read == poller.to - Overlap
             last == Page[PageLimit].at
  <1>1. /\ poller.pc \in {"Poll", "Sweep"} /\ log' = Ingested(Page, Len(Page))
        /\ cursor' = IF poller.pc = "Poll" /\ ~more
                     THEN [cursor EXCEPT ![who] = IF read > @ THEN read ELSE @] ELSE cursor
        /\ poller' = IF Saturated(Page) THEN Process(Resting)
                     ELSE IF more THEN [poller EXCEPT !.from = last]
                     ELSE Window(poller.pc, who + 1)
        /\ UNCHANGED <<upsets, fills, unlisted, clock>>
    BY DEF ReadPage, exchangeVars
  <1>2. /\ who \in DOMAIN Traders /\ who \in 1..Nobody /\ who + 1 \in 1..Nobody
        /\ poller.pc \in Phases
    BY <1>1, TradersDomain DEF SourceInv, SourceTypeOK, PollerOK, Phases
  <1>3. /\ clock \in Nat /\ Lag \in Nat /\ read \in Int /\ read <= clock /\ poller.to \in Nat
        /\ poller.to <= clock /\ poller.from \in Nat /\ Overlap \in Nat /\ read <= poller.to
        /\ \A id \in DOMAIN fills : fills[id].at \in Nat
    BY CursorTyped, ReadableFinite DEF SourceInv, SourceTypeOK, PollerOK, PollerStates
  <1>4. /\ LogGrows /\ LogChained'
        /\ \A k \in 1..Len(Page) : \E i \in 1..Len(log') : log'[i].id = Page[k].id
    <2> DEFINE page == Page
    <2>1. IsLog(page) /\ Reports(page)
      BY PageReports
    <2> HIDE DEF page
    <2>2. Len(page) \in 0..Len(page)
      BY <2>1, LogShape
    <2>3. log' = Ingested(page, Len(page))
      BY <1>1 DEF page
    <2>4. IsLog(log) /\ LogChained
      BY CursorTyped DEF SourceInv
    <2>5. LogGrows /\ LogChained' /\ \A k \in 1..Len(page) : \E i \in 1..Len(log') : log'[i].id = page[k].id
      BY <2>1, <2>2, <2>3, <2>4, IngestKeepsLog
    <2> QED
      BY <2>5 DEF page
  <1>5. \A id : Said(id) => Said(id)'
    BY <1>4, CursorTyped, SaidStays
  <1>6. \A id : Shows(Page, id) => Said(id)'
    <2> SUFFICES ASSUME NEW id, NEW k \in 1..Len(Page), Page[k].id = id
                 PROVE  \E i \in 1..Len(log') : log'[i].id = id
      BY DEF Shows, Said
    <2> QED
      BY <1>4
  <1>7. /\ cursor' \in [DOMAIN Traders -> Nat] /\ \A w \in DOMAIN Traders : cursor'[w] <= clock
        /\ \A w \in DOMAIN Traders :
               cursor'[w] = cursor[w] \/ (w = who /\ poller.pc = "Poll" /\ ~more /\ cursor'[w] = read)
    <2>1. ASSUME NEW w \in DOMAIN Traders
          PROVE  /\ cursor'[w] \in Nat /\ cursor'[w] <= clock
                 /\ cursor'[w] = cursor[w] \/ (w = who /\ poller.pc = "Poll" /\ ~more /\ cursor'[w] = read)
      <3>1. cursor[w] \in Nat /\ cursor[w] <= clock
        BY CursorTyped
      <3>2. CASE poller.pc = "Poll" /\ ~more /\ w = who
        <4>1. cursor'[w] = IF read > cursor[w] THEN read ELSE cursor[w]
          BY <1>1, <3>2, CursorTyped
        <4> HIDE DEF read, who, more
        <4> QED
          BY <1>3, <3>1, <3>2, <4>1
      <3>3. CASE ~(poller.pc = "Poll" /\ ~more /\ w = who)
        <4>1. cursor'[w] = cursor[w]
          BY <1>1, <3>3, CursorTyped
        <4> QED
          BY <3>1, <4>1
      <3> QED
        BY <3>2, <3>3
    <2>2. cursor' = [w \in DOMAIN Traders |-> cursor'[w]]
      <3> HIDE DEF read, who, more
      <3> QED
        BY <1>1, CursorTyped
    <2> QED
      BY <2>1, <2>2
  <1>8. CursorsCovered'
    <2> SUFFICES ASSUME NEW id \in DOMAIN fills, NEW w \in DOMAIN Traders,
                        poller'.captured = poller.captured, Due(id, w)', fills[id].at < cursor'[w]
                 PROVE  Said(id)'
      <3>1. poller'.captured = poller.captured
        <4>1. Process(Resting).captured = poller.captured
          BY DEF Process
        <4>2. [poller EXCEPT !.from = last].captured = poller.captured
          BY CursorTyped DEF PollerStates
        <4>3. Window(poller.pc, who + 1).captured = poller.captured
          BY <1>2, <1>7, CursorTyped, WindowShape
        <4> QED
          BY <1>1, <4>1, <4>2, <4>3
      <3> QED
        BY <1>1, <3>1 DEF CursorsCovered
    <2>1. Due(id, w)
      BY <1>1 DEF Due
    <2>2. CASE fills[id].at < cursor[w]
      BY <1>5, <2>1, <2>2 DEF SourceInv, CursorsCovered
    <2>3. CASE w = who /\ poller.pc = "Poll" /\ ~more /\ fills[id].at < read
      <3>1. fills[id].late => Lag <= Overlap
        BY <2>1 DEF Due
      <3>2. fills[id].late => fills[id].at + Lag < poller.to
        <4> SUFFICES ASSUME fills[id].late PROVE fills[id].at + Lag < poller.to
          OBVIOUS
        <4>1. Lag <= Overlap
          BY <3>1
        <4> QED
          BY <1>3, <2>3, <4>1
      <3>3. CASE fills[id].at < poller.from
        BY <1>5, <2>1, <2>3, <3>2, <3>3 DEF SourceInv, WindowCovered
      <3>4. CASE poller.from <= fills[id].at
        <4>1. fills[id].at <= poller.to
          BY <1>3, <2>3
        <4>2. id \in Readable
          BY <2>1, <2>3, <3>2, <3>4, <4>1, DueReadable
        <4>3. Shows(Page, id)
          BY <2>3, <4>2, CursorTyped, WholePage
        <4> QED
          BY <1>6, <4>3
      <3> QED
        BY <1>3, <3>3, <3>4
    <2> QED
      BY <1>7, <2>2, <2>3
  <1> HIDE DEF read
  <1>9. CASE Saturated(Page)
    <2>1. poller' = [pc |-> "Rest", who |-> 1, from |-> 0, to |-> 0, baselined |-> poller.baselined,
                     swept |-> poller.swept, captured |-> poller.captured]
      BY <1>1, <1>9 DEF Process, Resting
    <2>2. PollerOK(poller', clock)
      BY <1>2, <1>3, <2>1, CursorTyped DEF PollerOK, PollerStates, Phases
    <2>3. SourceTypeOK'
      BY <1>1, <1>4, <1>7, <2>2 DEF SourceInv, SourceTypeOK, LogGrows
    <2>4. WindowCovered'
      BY <2>1 DEF WindowCovered
    <2>5. Timely'
      BY <1>1, <1>7 DEF SourceInv, Timely
    <2> QED
      BY <1>4, <1>8, <2>3, <2>4, <2>5 DEF SourceInv
  <1>10. CASE ~Saturated(Page) /\ more
    <2>1. poller' = [poller EXCEPT !.from = last]
      BY <1>1, <1>10
    <2>2. /\ last \in Nat /\ last >= poller.from /\ last <= poller.to
          /\ \A id \in Readable : fills[id].at < last => Shows(Page, id)
      BY <1>10, CursorTyped, FullPage
    <2> HIDE DEF last
    <2>3. /\ poller' \in PollerStates /\ poller'.pc = poller.pc /\ poller'.who = poller.who
          /\ poller'.from = last /\ poller'.to = poller.to /\ poller'.captured = poller.captured
      BY <2>1, <2>2, CursorTyped DEF PollerStates
    <2>4. PollerOK(poller', clock)
      BY <1>2, <1>3, <2>2, <2>3 DEF PollerOK
    <2>5. SourceTypeOK'
      BY <1>1, <1>4, <1>7, <2>4 DEF SourceInv, SourceTypeOK, LogGrows
    <2>6. Timely'
      BY <1>1, <1>7 DEF SourceInv, Timely
    <2>7. WindowCovered'
      <3> SUFFICES ASSUME poller.pc = "Poll", NEW id \in DOMAIN fills, Due(id, poller.who),
                          fills[id].at < last, fills[id].late => fills[id].at + Lag < poller.to
                   PROVE  Said(id)'
        BY <1>1, <2>3 DEF WindowCovered, Due
      <3>1. CASE fills[id].at < poller.from
        BY <1>5, <3>1 DEF SourceInv, WindowCovered
      <3>2. CASE poller.from <= fills[id].at
        <4>1. fills[id].at <= poller.to
          BY <1>3, <2>2
        <4>2. id \in Readable
          BY <3>2, <4>1, DueReadable
        <4> QED
          BY <1>6, <2>2, <4>2
      <3> QED
        BY <1>3, <3>1, <3>2
    <2> QED
      BY <1>4, <1>8, <2>5, <2>6, <2>7 DEF SourceInv
  <1>11. CASE ~Saturated(Page) /\ ~more
    <2>1. poller' = Window(poller.pc, who + 1)
      BY <1>1, <1>11
    <2>2. /\ PollerOK(poller', clock)
          /\ poller'.pc = "Poll" => poller'.from = cursor'[poller'.who]
      BY <1>2, <1>7, <2>1, CursorTyped, WindowShape
    <2>3. SourceTypeOK'
      BY <1>1, <1>4, <1>7, <2>2 DEF SourceInv, SourceTypeOK, LogGrows
    <2>4. Timely'
      BY <1>1, <1>7 DEF SourceInv, Timely
    <2>5. WindowCovered'
      BY <1>1, <1>8, <2>2 DEF WindowCovered, CursorsCovered, PollerOK, Phases
    <2> QED
      BY <1>4, <1>8, <2>3, <2>4, <2>5 DEF SourceInv
  <1> QED
    BY <1>9, <1>10, <1>11

LEMMA OutageKeeps ==
    ASSUME SourceInv, Outage, UNCHANGED <<exchangeVars, clock>>
    PROVE  SourceInv'
  <1>1. /\ UNCHANGED <<fills, unlisted, clock, cursor>> /\ upsets' = upsets + 1
        /\ poller' \in {Process(Resting), [Down EXCEPT !.captured = poller.captured]}
    BY DEF Outage, Upset, exchangeVars
  <1>2. PICK page \in {<<>>, Page} : \E n \in 0..Len(page) : log' = Ingested(page, n)
    BY DEF Outage
  <1>3. IsLog(<<>>) /\ Reports(<<>>)
    <2>1. <<>> \in Seq({}) /\ Len(<<>>) = 0
      OBVIOUS
    <2> QED
      BY <2>1 DEF IsLog, Reports
  <1>4. IsLog(page) /\ Reports(page)
    BY <1>2, <1>3, PageReports
  <1>5. LogGrows /\ LogChained'
    <2>1. PICK n \in 0..Len(page) : log' = Ingested(page, n)
      BY <1>2
    <2> QED
      BY <1>4, <2>1, CursorTyped, IngestKeepsLog DEF SourceInv
  <1>6. \A id : Said(id) => Said(id)'
    BY <1>5, CursorTyped, SaidStays
  <1>7. /\ poller' \in PollerStates /\ poller'.pc \in {"Rest", "Down"}
        /\ poller'.captured = poller.captured /\ poller'.from = 0 /\ poller'.to = 0
    <2>1. CASE poller' = Process(Resting)
      BY <2>1, CursorTyped DEF Process, Resting, PollerStates
    <2>2. CASE poller' = [Down EXCEPT !.captured = poller.captured]
      BY <2>2, CursorTyped DEF Down, PollerStates
    <2> QED
      BY <1>1, <2>1, <2>2
  <1>8. SourceTypeOK'
    BY <1>1, <1>5, <1>7, CursorTyped DEF SourceInv, SourceTypeOK, LogGrows, PollerOK, Phases
  <1>9. Timely'
    BY <1>1 DEF SourceInv, Timely
  <1>10. CursorsCovered' /\ WindowCovered'
    BY <1>1, <1>6, <1>7 DEF SourceInv, CursorsCovered, WindowCovered, Due
  <1> QED
    BY <1>5, <1>8, <1>9, <1>10 DEF SourceInv

-------------------------------------------------------------------------------
(* The theorems. *)

LEMMA SourceInitInv == SourceInit => SourceInv
  <1> SUFFICES ASSUME SourceInit PROVE SourceInv
    OBVIOUS
  <1>1. <<>> \in Seq(SourceFill) /\ IsLog(<<>>) /\ Len(<<>>) = 0 /\ DOMAIN <<>> = {}
    <2>1. <<>> \in Seq({}) /\ <<>> \in Seq(SourceFill) /\ Len(<<>>) = 0 /\ DOMAIN <<>> = {}
      OBVIOUS
    <2> QED
      BY <2>1 DEF IsLog
  <1>2. PollerOK(Down, 0)
    BY TradersDomain DEF PollerOK, PollerStates, Down, Phases
  <1>3. SourceTypeOK
    BY <1>1, <1>2 DEF SourceInit, SourceTypeOK
  <1>4. Timely /\ CursorsCovered /\ LogChained
    BY <1>1 DEF SourceInit, Timely, CursorsCovered, LogChained
  <1>5. WindowCovered
    BY DEF SourceInit, Down, WindowCovered
  <1> QED
    BY <1>3, <1>4, <1>5 DEF SourceInv

LEMMA SourceStepKeeps ==
    ASSUME SourceInv, [SourceNext]_sourceVars
    PROVE  SourceInv'
  <1>1. CASE Exchange
    BY <1>1, FillHappensKeeps, ListedKeeps, FillRestatedKeeps, ClockTicksKeeps DEF Exchange
  <1>2. CASE Sweep
    BY <1>2, SweepKeeps
  <1>3. CASE Round
    BY <1>3, LaunchKeeps, StartRoundKeeps, CaptureBaselineKeeps, ReadPageKeeps DEF Round
  <1>4. CASE Outage /\ UNCHANGED <<exchangeVars, clock>>
    BY <1>4, OutageKeeps
  <1>5. CASE UNCHANGED sourceVars
    BY <1>5 DEF sourceVars, exchangeVars, connectorVars, SourceInv, SourceTypeOK, Timely,
                CursorsCovered, WindowCovered, LogChained, Due, Said
  <1> QED
    BY <1>1, <1>2, <1>3, <1>4, <1>5 DEF SourceNext, Connector

LEMMA SourceInvariant == SourceSpec => []SourceInv
  BY SourceInitInv, SourceStepKeeps, PTL DEF SourceSpec

\* The connector never loses a fill behind a cursor: whatever pages were full, queries
\* failed, fills listed late by no more than the overlap and processes died in a batch,
\* the log has all that happened between the last baseline and the cursor
\* (hyperliquid.mjs:160-203).
THEOREM NothingIsSkipped == SourceSpec => []NothingSkipped
  <1>1. SourceInv => NothingSkipped
    BY LogsNothingSkipped DEF SourceInv, SourceTypeOK
  <1> QED
    BY <1>1, SourceInvariant, PTL

\* Each entry of the log is news: it restates the latest one about its fact, says
\* otherwise, and says what its raw response says (connector.mjs:78-94).
THEOREM EntriesAreNews == SourceSpec => []LogSaysNews
  <1>1. SourceInv => LogSaysNews
    BY LogsNothingSkipped DEF SourceInv, SourceTypeOK
  <1> QED
    BY <1>1, SourceInvariant, PTL

===============================================================================
