----------------------------- MODULE QueriesProofs -----------------------------
(***************************************************************************)
(* For all stores, tables, limits and bounds, and however the daemon       *)
(* writes between the two reads of a search: a result shows the text that  *)
(* was ranked, a store answers the best of each message in rank order, and *)
(* the merge is fair (Recall).  For any number of requests and slots:      *)
(* native searches stay bounded, and nobody waits while a slot is free     *)
(* (QuerySlots).                                                           *)
(***************************************************************************)
EXTENDS QuerySlots, Recall, OrderedProofs

(***************************************************************************)
(* Recall.  The invariant follows a row's address: an address in use is at *)
(* most the last one given, so a new row never takes the address of a hit, *)
(* and what is found at a hit's address is the row that was scored.        *)
(***************************************************************************)

(* The variables that the reads use.                                       *)
ReadTypes ==
  /\ end \in [Stores -> Nat] /\ DOMAIN rows = Stores
  /\ pc \in [Stores -> Phases] /\ DOMAIN scored = Stores /\ DOMAIN kept = Stores

InUse(s) == DOMAIN rows[s] \subseteq 1..end[s]

(* What a hit's address still holds is what was scored.                    *)
Faithful(s) ==
  \A k \in kept[s] : k.at \in 1..end[s] /\ (k.at \in DOMAIN rows[s] => k = HitOf(s, k.rank, k.at))

ReadInv ==
  /\ ReadTypes
  /\ \A s \in Stores : InUse(s) /\ kept[s] \subseteq scored[s] /\ (pc[s] = "fetch" => Faithful(s))

(* A ranking holds hits with what their addresses hold.                    *)
LEMMA RankingFaithful ==
  ASSUME NEW s \in Stores, NEW hits \in Rankings(s), NEW h \in hits
  PROVE  h.at \in DOMAIN rows[s] /\ h = HitOf(s, h.rank, h.at)
<1>1. PICK f \in UNION {Injection(1..n, DOMAIN rows[s]) : n \in 0..FetchK} :
        hits = {HitOf(s, r, f[r]) : r \in DOMAIN f}
  BY DEF Rankings
<1>2. PICK n \in 0..FetchK : f \in Injection(1..n, DOMAIN rows[s])
  BY <1>1
<1>3. f \in [1..n -> DOMAIN rows[s]]
  BY <1>2 DEF Injection
<1>4. PICK r \in DOMAIN f : h = HitOf(s, r, f[r])
  BY <1>1
<1>5. f[r] \in DOMAIN rows[s]
  BY <1>3, <1>4
<1>6. h.rank = r /\ h.at = f[r]
  BY <1>4 DEF HitOf
<1>. QED
  BY <1>4, <1>5, <1>6

(* The first rows of messages are hits.                                    *)
LEMMA FirstAreHits ==
  ASSUME NEW hits
  PROVE  FirstOfMessages(hits) \subseteq hits
BY DEF FirstOfMessages

(* The rows that the second read finds are the hits they were found for.   *)
LEMMA FoundIsKept ==
  ASSUME NEW s \in Stores, Faithful(s)
  PROVE  WithColumns(s) \subseteq kept[s]
<1>. SUFFICES ASSUME NEW h \in WithColumns(s) PROVE h \in kept[s]
  OBVIOUS
<1>1. PICK k \in kept[s] : h \in {HitOf(s, k.rank, a) : a \in Found(s, k)}
  BY DEF WithColumns
<1>2. PICK a \in Found(s, k) : h = HitOf(s, k.rank, a)
  BY <1>1
<1>3. a = k.at /\ k.at \in DOMAIN rows[s]
  BY <1>2 DEF Found
<1>4. k = HitOf(s, k.rank, k.at)
  BY <1>1, <1>3 DEF Faithful
<1>. QED
  BY <1>1, <1>2, <1>3, <1>4

LEMMA InitInv == RecallInit => ReadInv
<1>. SUFFICES ASSUME RecallInit PROVE ReadInv
  OBVIOUS
<1>1. PICK t \in Tables : rows = t
  BY DEF RecallInit
<1>2. rows \in [Stores -> Seq(Row)]
  BY <1>1, RecallAssumption DEF RecallAssumption
<1>3. \A s \in Stores : Len(rows[s]) \in Nat /\ DOMAIN rows[s] = 1..Len(rows[s])
  BY <1>2
<1>4. ReadTypes
  BY <1>2, <1>3 DEF RecallInit, ReadTypes, Phases
<1>5. \A s \in Stores : InUse(s)
  BY <1>3 DEF RecallInit, InUse
<1>. QED
  BY <1>4, <1>5 DEF RecallInit, ReadInv

(* A step that leaves the table of a store and its call alone.             *)
LEMMA CallStays ==
  ASSUME ReadInv, NEW s \in Stores, rows'[s] = rows[s], end'[s] = end[s],
         pc'[s] = pc[s], kept'[s] = kept[s], scored'[s] = scored[s]
  PROVE  InUse(s)' /\ kept'[s] \subseteq scored'[s] /\ (pc'[s] = "fetch" => Faithful(s)')
<1>1. InUse(s)'
  BY DEF ReadInv, InUse
<1>2. ASSUME pc'[s] = "fetch" PROVE Faithful(s)'
  <2>1. Faithful(s)
    BY <1>2 DEF ReadInv
  <2>2. ASSUME NEW k \in kept'[s]
        PROVE  k.at \in 1..end'[s] /\ (k.at \in DOMAIN rows'[s] => k = HitOf(s, k.rank, k.at)')
    BY <2>1, <2>2 DEF Faithful, HitOf
  <2>. QED
    BY <2>2 DEF Faithful
<1>. QED
  BY <1>1, <1>2 DEF ReadInv

(* Of the steps of one store, the other stores notice nothing.             *)
LEMMA RankInv ==
  ASSUME ReadInv, NEW s \in Stores, Rank(s)
  PROVE  ReadInv'
<1>1. PICK hits \in Rankings(s) :
        /\ scored' = [scored EXCEPT ![s] = hits]
        /\ kept' = [kept EXCEPT ![s] = FirstOfMessages(hits)]
        /\ pc' = [pc EXCEPT ![s] = IF hits = {} THEN "answered" ELSE "fetch"]
  BY DEF Rank
<1>2. rows' = rows /\ end' = end
  BY DEF Rank
<1>3. ReadTypes'
  BY <1>1, <1>2 DEF ReadInv, ReadTypes, Phases
<1>4. scored'[s] = hits /\ kept'[s] = FirstOfMessages(hits)
  BY <1>1 DEF ReadInv, ReadTypes
<1>5. kept'[s] \subseteq scored'[s]
  BY <1>4, FirstAreHits
<1>6. Faithful(s)'
  <2>. SUFFICES ASSUME NEW k \in kept'[s]
               PROVE  k.at \in 1..end'[s] /\ (k.at \in DOMAIN rows'[s] => k = HitOf(s, k.rank, k.at)')
    BY DEF Faithful
  <2>1. k \in hits
    BY <1>4, FirstAreHits
  <2>2. k.at \in DOMAIN rows[s] /\ k = HitOf(s, k.rank, k.at)
    BY <2>1, RankingFaithful
  <2>3. k.at \in 1..end[s]
    BY <2>2 DEF ReadInv, InUse
  <2>. QED
    BY <1>2, <2>2, <2>3 DEF HitOf
<1>7. InUse(s)'
  BY <1>2 DEF ReadInv, InUse
<1>8. ASSUME NEW t \in Stores, t # s
      PROVE  InUse(t)' /\ kept'[t] \subseteq scored'[t] /\ (pc'[t] = "fetch" => Faithful(t)')
  BY <1>1, <1>2, <1>8, CallStays DEF ReadInv, ReadTypes
<1>. QED
  BY <1>3, <1>5, <1>6, <1>7, <1>8 DEF ReadInv

LEMMA AnswerInv ==
  ASSUME ReadInv, NEW s \in Stores, NEW hits, Reply(s, hits), rows' = rows, end' = end,
         hits \subseteq scored'[s], DOMAIN scored' = Stores,
         \A t \in Stores \ {s} : scored'[t] = scored[t]
  PROVE  ReadInv'
<1>1. /\ kept' = [kept EXCEPT ![s] = hits]
      /\ pc' = [pc EXCEPT ![s] = "answered"]
  BY DEF Reply
<1>2. ReadTypes'
  BY <1>1 DEF ReadInv, ReadTypes, Phases
<1>3. InUse(s)' /\ kept'[s] \subseteq scored'[s] /\ pc'[s] # "fetch"
  BY <1>1 DEF ReadInv, ReadTypes, InUse
<1>4. ASSUME NEW t \in Stores, t # s
      PROVE  InUse(t)' /\ kept'[t] \subseteq scored'[t] /\ (pc'[t] = "fetch" => Faithful(t)')
  BY <1>1, <1>4, CallStays DEF ReadInv, ReadTypes
<1>. QED
  BY <1>2, <1>3, <1>4 DEF ReadInv

(* A call that keeps no hits: it goes on in one pass, or it has failed.    *)
LEMMA NothingKeptInv ==
  ASSUME ReadInv, NEW s \in Stores, NEW p \in Phases \ {"fetch"},
         pc' = [pc EXCEPT ![s] = p], kept' = [kept EXCEPT ![s] = {}],
         rows' = rows, end' = end, DOMAIN scored' = Stores,
         \A t \in Stores \ {s} : scored'[t] = scored[t]
  PROVE  ReadInv'
<1>1. ReadTypes'
  BY DEF ReadInv, ReadTypes
<1>2. InUse(s)' /\ kept'[s] \subseteq scored'[s] /\ pc'[s] # "fetch"
  BY DEF ReadInv, ReadTypes, InUse
<1>3. ASSUME NEW t \in Stores, t # s
      PROVE  InUse(t)' /\ kept'[t] \subseteq scored'[t] /\ (pc'[t] = "fetch" => Faithful(t)')
  BY <1>3, CallStays DEF ReadInv, ReadTypes
<1>. QED
  BY <1>1, <1>2, <1>3 DEF ReadInv

LEMMA FetchInv ==
  ASSUME ReadInv, NEW s \in Stores, Fetch(s)
  PROVE  ReadInv'
<1>1. /\ pc[s] = "fetch" /\ rows' = rows /\ end' = end /\ scored' = scored
      /\ \/ Reply(s, WithColumns(s))
         \/ pc' = [pc EXCEPT ![s] = "again"] /\ kept' = [kept EXCEPT ![s] = {}]
  BY DEF Fetch
<1>2. CASE Reply(s, WithColumns(s))
  <2>1. WithColumns(s) \subseteq scored'[s]
    BY <1>1, FoundIsKept DEF ReadInv
  <2>. QED
    BY <1>1, <1>2, <2>1, AnswerInv DEF ReadInv, ReadTypes
<1>3. CASE pc' = [pc EXCEPT ![s] = "again"] /\ kept' = [kept EXCEPT ![s] = {}]
  BY <1>1, <1>3, NothingKeptInv DEF ReadInv, ReadTypes, Phases
<1>. QED
  BY <1>1, <1>2, <1>3

LEMMA OnePassInv ==
  ASSUME ReadInv, NEW s \in Stores, OnePass(s)
  PROVE  ReadInv'
<1>1. PICK hits \in Rankings(s) : scored' = [scored EXCEPT ![s] = hits] /\ Reply(s, hits)
  BY DEF OnePass
<1>2. rows' = rows /\ end' = end
  BY DEF OnePass
<1>. QED
  BY <1>1, <1>2, AnswerInv DEF ReadInv, ReadTypes

LEMMA FailInv ==
  ASSUME ReadInv, NEW s \in Stores, Fail(s)
  PROVE  ReadInv'
BY NothingKeptInv DEF Fail, ReadInv, ReadTypes, Phases

(* A row goes to an address that no hit can have.                          *)
LEMMA WriteInv ==
  ASSUME ReadInv, NEW s \in Stores, NEW c \in Chunks, NEW b \in Bodies, Write(s, c, b)
  PROVE  ReadInv'
<1>1. /\ end' = [end EXCEPT ![s] = @ + 1]
      /\ rows' = [rows EXCEPT ![s] =
                    [a \in Without(s, c) \cup {end'[s]} |->
                       IF a = end'[s] THEN [chunk |-> c, body |-> b] ELSE rows[s][a]]]
      /\ pc' = pc /\ scored' = scored /\ kept' = kept
  BY DEF Write, calls
<1>2. ReadTypes'
  BY <1>1 DEF ReadInv, ReadTypes
<1>3. end[s] \in Nat /\ end'[s] = end[s] + 1
  BY <1>1 DEF ReadInv, ReadTypes
<1>4. rows'[s] = [a \in Without(s, c) \cup {end'[s]} |->
                    IF a = end'[s] THEN [chunk |-> c, body |-> b] ELSE rows[s][a]]
  BY <1>1 DEF ReadInv, ReadTypes
<1>5. Without(s, c) \subseteq DOMAIN rows[s] /\ DOMAIN rows[s] \subseteq 1..end[s]
  BY DEF Without, ReadInv, InUse
<1>6. InUse(s)'
  BY <1>3, <1>4, <1>5 DEF InUse
<1>7. ASSUME pc'[s] = "fetch" PROVE Faithful(s)'
  <2>. SUFFICES ASSUME NEW k \in kept'[s]
               PROVE  k.at \in 1..end'[s] /\ (k.at \in DOMAIN rows'[s] => k = HitOf(s, k.rank, k.at)')
    BY DEF Faithful
  <2>1. k.at \in 1..end[s] /\ (k.at \in DOMAIN rows[s] => k = HitOf(s, k.rank, k.at))
    BY <1>1, <1>7 DEF ReadInv, Faithful
  <2>2. k.at \in 1..end'[s] /\ k.at # end'[s]
    BY <1>3, <2>1
  <2>3. ASSUME k.at \in DOMAIN rows'[s]
        PROVE  k.at \in DOMAIN rows[s] /\ rows'[s][k.at] = rows[s][k.at]
    BY <1>4, <1>5, <2>2, <2>3
  <2>. QED
    BY <2>1, <2>2, <2>3 DEF HitOf
<1>8. ASSUME NEW t \in Stores, t # s
      PROVE  InUse(t)' /\ kept'[t] \subseteq scored'[t] /\ (pc'[t] = "fetch" => Faithful(t)')
  BY <1>1, <1>8, CallStays DEF ReadInv, ReadTypes
<1>. QED
  BY <1>1, <1>2, <1>6, <1>7, <1>8 DEF ReadInv

LEMMA DeleteInv ==
  ASSUME ReadInv, NEW s \in Stores, NEW c \in Chunks, Delete(s, c)
  PROVE  ReadInv'
<1>1. /\ rows' = [rows EXCEPT ![s] = Restrict(rows[s], Without(s, c))]
      /\ end' = end /\ pc' = pc /\ scored' = scored /\ kept' = kept
  BY DEF Delete, calls
<1>2. ReadTypes'
  BY <1>1 DEF ReadInv, ReadTypes
<1>3. rows'[s] = [a \in Without(s, c) |-> rows[s][a]]
  BY <1>1 DEF ReadInv, ReadTypes, Restrict
<1>4. Without(s, c) \subseteq DOMAIN rows[s]
  BY DEF Without
<1>5. InUse(s)'
  BY <1>1, <1>3, <1>4 DEF ReadInv, InUse
<1>6. ASSUME pc'[s] = "fetch" PROVE Faithful(s)'
  <2>. SUFFICES ASSUME NEW k \in kept'[s]
               PROVE  k.at \in 1..end'[s] /\ (k.at \in DOMAIN rows'[s] => k = HitOf(s, k.rank, k.at)')
    BY DEF Faithful
  <2>1. k.at \in 1..end[s] /\ (k.at \in DOMAIN rows[s] => k = HitOf(s, k.rank, k.at))
    BY <1>1, <1>6 DEF ReadInv, Faithful
  <2>. QED
    BY <1>1, <1>3, <1>4, <2>1 DEF HitOf
<1>7. ASSUME NEW t \in Stores, t # s
      PROVE  InUse(t)' /\ kept'[t] \subseteq scored'[t] /\ (pc'[t] = "fetch" => Faithful(t)')
  BY <1>1, <1>7, CallStays DEF ReadInv, ReadTypes
<1>. QED
  BY <1>1, <1>2, <1>5, <1>6, <1>7 DEF ReadInv

LEMMA StaysInv ==
  ASSUME ReadInv, UNCHANGED <<rows, end, pc, scored, kept>>
  PROVE  ReadInv'
BY DEF ReadInv, ReadTypes, InUse, Faithful, HitOf

(* Reads, writes and failures keep what is known of rows and hits.          *)
THEOREM StepInv == ReadInv /\ [RecallNext]_recallVars => ReadInv'
<1>. SUFFICES ASSUME ReadInv, [RecallNext]_recallVars PROVE ReadInv'
  OBVIOUS
<1>1. ASSUME NEW s \in Stores, Read(s) PROVE ReadInv'
  BY <1>1, RankInv, FetchInv, OnePassInv DEF Read
<1>2. ASSUME NEW s \in Stores, Fail(s) PROVE ReadInv'
  BY <1>2, FailInv
<1>3. ASSUME NEW s \in Stores, NEW c \in Chunks, NEW b \in Bodies, Write(s, c, b) PROVE ReadInv'
  BY <1>3, WriteInv
<1>4. ASSUME NEW s \in Stores, NEW c \in Chunks, Delete(s, c) PROVE ReadInv'
  BY <1>4, DeleteInv
<1>5. CASE Emit
  BY <1>5, StaysInv DEF Emit, calls
<1>6. CASE UNCHANGED recallVars
  BY <1>6, StaysInv DEF recallVars, calls
<1>. QED
  BY <1>1, <1>2, <1>3, <1>4, <1>5, <1>6 DEF RecallNext

(* What the reads of every reachable state rest on.                        *)
THEOREM SpecInv == RecallSpec => []ReadInv
<1>. QED
  BY InitInv, StepInv, PTL DEF RecallSpec

(* A result shows the text that was ranked, whatever is written meanwhile. *)
THEOREM SpecRankedText == RecallSpec => []RankedText
<1>1. ReadInv => RankedText
  BY DEF ReadInv, RankedText
<1>. QED
  BY <1>1, SpecInv, PTL

-----------------------------------------------------------------------------
(***************************************************************************)
(* What a store answers, and what the client prints.  A read numbers its   *)
(* hits, so the loop of collapseChunkHits has one outcome; what is shown   *)
(* is compared with it by counting, since a hit that is left out for the   *)
(* limit has Limit better ones, of as many messages.                       *)
(***************************************************************************)

USE RecallAssumption

RankedHits(s, hits) ==
  /\ \A h \in hits : h.store = s /\ h.rank \in 1..FetchK /\ h.chunk \in Chunks
  /\ \A k, h \in hits : k.rank = h.rank => k = h

LEMMA RankedFinite ==
  ASSUME NEW s, NEW hits, RankedHits(s, hits)
  PROVE  IsFiniteSet(hits)
<1> DEFINE f == [h \in hits |-> h.rank]
<1>1. f \in Injection(hits, 1..FetchK)
  BY DEF RankedHits, Injection, IsInjective
<1>2. IsFiniteSet(1..FetchK)
  BY FS_Interval DEF RecallAssumption
<1>. QED
  BY <1>1, <1>2, FS_Injection

LEMMA RankedPart ==
  ASSUME NEW s, NEW hits, RankedHits(s, hits), NEW T, T \subseteq hits
  PROVE  RankedHits(s, T)
BY DEF RankedHits

LEMMA RankingIsRanked ==
  ASSUME NEW s \in Stores, NEW hits \in Rankings(s),
         \A a \in DOMAIN rows[s] : rows[s][a].chunk \in Chunks
  PROVE  RankedHits(s, hits)
<1>1. PICK f \in UNION {Injection(1..n, DOMAIN rows[s]) : n \in 0..FetchK} :
        hits = {HitOf(s, r, f[r]) : r \in DOMAIN f}
  BY DEF Rankings
<1>2. PICK n \in 0..FetchK : f \in Injection(1..n, DOMAIN rows[s])
  BY <1>1
<1>3. f \in [1..n -> DOMAIN rows[s]] /\ DOMAIN f = 1..n /\ n \in Nat /\ n <= FetchK
  BY <1>2 DEF Injection, RecallAssumption
<1>4. ASSUME NEW h \in hits
      PROVE  \E r \in 1..n : h = HitOf(s, r, f[r]) /\ h.rank = r /\ h.store = s /\ h.chunk \in Chunks
  <2>1. PICK r \in DOMAIN f : h = HitOf(s, r, f[r])
    BY <1>1, <1>4
  <2>2. f[r] \in DOMAIN rows[s]
    BY <1>3
  <2>. QED
    BY <1>3, <2>1, <2>2 DEF HitOf
<1>5. 1..n \subseteq 1..FetchK
  BY <1>3 DEF RecallAssumption
<1>6. \A h \in hits : h.store = s /\ h.rank \in 1..FetchK /\ h.chunk \in Chunks
  BY <1>4, <1>5
<1>7. \A k, h \in hits : k.rank = h.rank => k = h
  BY <1>4
<1>. QED
  BY <1>6, <1>7 DEF RankedHits

-----------------------------------------------------------------------------
(* The loop takes hits in the order of their ranks, so that whether it     *)
(* takes one is decided by those before.                                   *)

LEMMA TakesByEarlier ==
  ASSUME NEW T, NEW U, NEW h, \A k : k.rank < h.rank => (k \in T <=> k \in U)
  PROVE  Takes(T, h) <=> Takes(U, h)
<1>1. {k \in T : k.rank < h.rank} = {k \in U : k.rank < h.rank}
  OBVIOUS
<1>. QED
  BY <1>1 DEF Takes

LEMMA TakenIs ==
  ASSUME NEW s, NEW hits, RankedHits(s, hits)
  PROVE  /\ Taken(hits) \subseteq hits
         /\ \A h \in hits : h \in Taken(hits) <=> Takes(Taken(hits), h)
<1> DEFINE Upto(m) == {h \in hits : h.rank <= m}
           P(m) == \E T \in SUBSET Upto(m) : \A h \in Upto(m) : h \in T <=> Takes(T, h)
           Bad == {m \in Nat : ~ P(m)}
<1>0. FetchK \in Nat /\ \A h \in hits : h.rank \in Nat /\ 1 <= h.rank /\ h.rank <= FetchK
  BY DEF RankedHits, RecallAssumption
<1>1. P(0)
  <2>1. Upto(0) = {}
    BY <1>0
  <2>2. {} \in SUBSET Upto(0)
    OBVIOUS
  <2>. QED
    BY <2>1, <2>2
<1>2. ASSUME NEW m \in Nat, P(m) PROVE P(m + 1)
  <2>1. PICK T \in SUBSET Upto(m) : \A h \in Upto(m) : h \in T <=> Takes(T, h)
    BY <1>2
  <2> DEFINE U == T \cup {h \in hits : h.rank = m + 1 /\ Takes(T, h)}
  <2>2. U \in SUBSET Upto(m + 1)
    BY <1>0
  <2>3. ASSUME NEW h \in Upto(m + 1) PROVE h \in U <=> Takes(U, h)
    <3>1. Takes(T, h) <=> Takes(U, h)
      <4>1. \A k : k.rank < h.rank => (k \in T <=> k \in U)
        BY <1>0
      <4> HIDE DEF U
      <4>. QED
        BY <4>1, TakesByEarlier
    <3>2. CASE h.rank <= m
      BY <1>0, <2>1, <3>1, <3>2
    <3>3. CASE h.rank = m + 1
      BY <1>0, <2>1, <3>1, <3>3
    <3>. QED
      BY <1>0, <2>3, <3>2, <3>3
  <2>. QED
    BY <2>2, <2>3
<1>3. Bad = {}
  <2>. SUFFICES ASSUME Bad # {} PROVE FALSE
    OBVIOUS
  <2> HIDE DEF P
  <2>1. PICK b \in Bad : \A c \in Bad : b <= c
    BY LeastNat
  <2>2. b \in Nat /\ b # 0
    BY <1>1
  <2>3. b - 1 \in Nat /\ P(b - 1)
    BY <2>1, <2>2
  <2>4. P((b - 1) + 1)
    BY <1>2, <2>3
  <2>. QED
    BY <2>2, <2>4
<1>4. P(FetchK)
  BY <1>0, <1>3
<1>5. Upto(FetchK) = hits
  BY <1>0
<1>6. \E T \in SUBSET hits : \A h \in hits : h \in T <=> Takes(T, h)
  BY <1>4, <1>5
<1>7. Taken(hits) \in SUBSET hits /\ \A h \in hits : h \in Taken(hits) <=> Takes(Taken(hits), h)
  BY <1>6 DEF Taken
<1>. QED
  BY <1>7

LEMMA RankIsAnOrder ==
  ASSUME NEW s, NEW hits, RankedHits(s, hits)
  PROVE  Ranks(ByRank(hits), hits)
<1>1. \A k \in hits : k.rank \in Nat
  BY DEF RankedHits
<1>2. \A k, h \in hits : <<k, h>> \in ByRank(hits) <=> k.rank < h.rank
  BY DEF ByRank
<1>3. \A k, h \in hits : k.rank = h.rank => k = h
  BY DEF RankedHits
<1>. QED
  BY <1>1, <1>2, <1>3 DEF Ranks

(* The results are the hits taken, best first, and at most Limit.          *)
LEMMA CollapsedIs ==
  ASSUME NEW s, NEW hits, RankedHits(s, hits)
  PROVE  LET T == Taken(hits)  a == CollapseChunkHits(hits) IN
         /\ a \in Seq(T) /\ Len(a) <= Limit /\ ToSet(a) = T
         /\ \A i, j \in DOMAIN a : i < j => a[i].rank < a[j].rank
<1> DEFINE T == Taken(hits)
           a == CollapseChunkHits(hits)
           n == Cardinality(T)
<1>1. T \subseteq hits /\ \A h \in hits : h \in T => Takes(T, h)
  BY TakenIs
<1>2. RankedHits(s, T)
  BY <1>1, RankedPart
<1>3. IsFiniteSet(T) /\ Ranks(ByRank(T), T)
  BY <1>2, RankedFinite, RankIsAnOrder
<1>4. a = InOrder(T, ByRank(T))
  BY DEF CollapseChunkHits
<1> HIDE DEF a, T
<1>5. /\ n \in Nat
      /\ a \in [1..n -> T]
      /\ \A i \in 1..n : Cardinality(Ahead(a[i], T, ByRank(T))) = i - 1
      /\ \A x \in T : \E i \in 1..n : a[i] = x
      /\ \A i, j \in 1..n : i < j <=> <<a[i], a[j]>> \in ByRank(T)
  BY <1>3, <1>4, SortsAll
<1>6. a \in Seq(T) /\ Len(a) = n /\ DOMAIN a = 1..n
  <2>1. n \in Nat /\ a \in [1..n -> T]
    BY <1>5
  <2> HIDE DEF n
  <2>. QED
    BY <2>1
<1>7. ToSet(a) = T
  BY <1>5, <1>6 DEF ToSet
<1>8. \A i, j \in DOMAIN a : i < j => a[i].rank < a[j].rank
  BY <1>5, <1>6 DEF ByRank
<1>9. n <= Limit
  <2>. SUFFICES ASSUME n # 0 PROVE n <= Limit
    BY <1>5 DEF RecallAssumption
  <2>1. n \in 1..n /\ a[n] \in T
    BY <1>5
  <2>2. Ahead(a[n], T, ByRank(T)) = {k \in T : k.rank < a[n].rank}
    BY <2>1 DEF Ahead, ByRank
  <2>3. Cardinality({k \in T : k.rank < a[n].rank}) < Limit
    BY <1>1, <2>1 DEF Takes
  <2>4. n - 1 < Limit
    BY <1>5, <2>1, <2>2, <2>3
  <2>. QED
    BY <1>5, <2>4 DEF RecallAssumption
<1>. QED
  BY <1>6, <1>7, <1>8, <1>9 DEF T, a

-----------------------------------------------------------------------------
LEMMA AlikeIsRepeat ==
  ASSUME NEW k, NEW h, k.chunk \in Chunks, h.chunk \in Chunks
  PROVE  Alike(k, h) <=> Repeat(k, h)
<1>1. TimeOf(k.chunk) \in Nat /\ TimeOf(h.chunk) \in Nat /\ Gap \in Nat
  BY DEF RecallAssumption
<1>. QED
  BY <1>1 DEF Alike, Repeat, SameMessage, SameBody, NearMoment

(* As many messages as hits of which no two have the same.                 *)
LEMMA ManyMessages ==
  ASSUME NEW better, IsFiniteSet(better), NEW S, S \subseteq better,
         \A k, h \in S : MessageOf(k.chunk) = MessageOf(h.chunk) => k = h,
         Cardinality(S) >= Limit
  PROVE  Cardinality({MessageOf(k.chunk) : k \in better}) >= Limit
<1> DEFINE M == {MessageOf(k.chunk) : k \in better}
           f == [k \in better |-> MessageOf(k.chunk)]
           g == [k \in S |-> MessageOf(k.chunk)]
<1>1. f \in Surjection(better, M)
  BY DEF Surjection
<1>2. IsFiniteSet(M)
  BY <1>1, FS_Surjection
<1>3. g \in Injection(S, M)
  BY DEF Injection, IsInjective
<1>4. Cardinality(S) <= Cardinality(M) /\ IsFiniteSet(S)
  BY <1>2, <1>3, FS_Injection
<1>5. Cardinality(S) \in Nat /\ Cardinality(M) \in Nat /\ Limit \in Nat
  BY <1>2, <1>4, FS_CardinalityType DEF RecallAssumption
<1>. QED
  BY <1>4, <1>5

(* Of two hits of a message or a moment the first is taken, not the other. *)
LEMMA TakenDiffer ==
  ASSUME NEW s, NEW hits, RankedHits(s, hits)
  PROVE  /\ \A k, h \in Taken(hits) : k.rank < h.rank => ~ Alike(k, h)
         /\ \A k, h \in Taken(hits) : MessageOf(k.chunk) = MessageOf(h.chunk) => k = h
<1>1. Taken(hits) \subseteq hits /\ \A h \in Taken(hits) : Takes(Taken(hits), h)
  BY TakenIs
<1>2. \A k, h \in Taken(hits) : k.rank < h.rank => ~ Alike(k, h)
  BY <1>1 DEF Takes
<1>3. ASSUME NEW k \in Taken(hits), NEW h \in Taken(hits),
             MessageOf(k.chunk) = MessageOf(h.chunk)
      PROVE  k = h
  <2>1. Alike(k, h) /\ Alike(h, k)
    BY <1>3 DEF Alike, SameMessage
  <2>2. k.rank \in Nat /\ h.rank \in Nat /\ (k.rank = h.rank => k = h)
    BY <1>1 DEF RankedHits
  <2>. QED
    BY <1>2, <2>1, <2>2
<1>. QED
  BY <1>2, <1>3

(* What the first rows of messages leave out.                              *)
LEMMA FirstLeavesOut ==
  ASSUME NEW s, NEW hits, RankedHits(s, hits), NEW h \in hits, h \notin FirstOfMessages(hits)
  PROVE  LET better == {k \in hits : k.rank < h.rank} IN
         \/ \E k \in better : MessageOf(k.chunk) = MessageOf(h.chunk)
         \/ Cardinality({MessageOf(k.chunk) : k \in better}) >= Limit
<1> DEFINE first == {g \in hits : ~ \E k \in hits : k.rank < g.rank /\ SameMessage(k, g)}
           better == {k \in hits : k.rank < h.rank}
           ahead == {k \in first : k.rank < h.rank}
<1>1. CASE h \notin first
  BY <1>1 DEF SameMessage
<1>2. CASE h \in first
  <2>1. ~ (Cardinality(ahead) < Limit)
    BY <1>2 DEF FirstOfMessages
  <2>2. IsFiniteSet(hits) /\ better \in SUBSET hits /\ ahead \in SUBSET hits
    BY RankedFinite
  <2>3. IsFiniteSet(better) /\ IsFiniteSet(ahead)
    BY <2>2, FS_Subset
  <2>4. Cardinality(ahead) \in Nat
    BY <2>3, FS_CardinalityType
  <2>5. Cardinality(ahead) >= Limit
    BY <2>1, <2>4 DEF RecallAssumption
  <2>6. \A k, g \in ahead : MessageOf(k.chunk) = MessageOf(g.chunk) => k = g
    <3>1. \A k \in hits : k.rank \in Nat
      BY DEF RankedHits
    <3>. QED
      BY <3>1 DEF SameMessage, RankedHits
  <2>7. ahead \subseteq better
    OBVIOUS
  <2> HIDE DEF ahead, better
  <2>8. Cardinality({MessageOf(k.chunk) : k \in better}) >= Limit
    BY <2>3, <2>5, <2>6, <2>7, ManyMessages
  <2>. QED
    BY <2>8 DEF better
<1>. QED
  BY <1>1, <1>2

(* What the loop leaves out.                                               *)
LEMMA LoopLeavesOut ==
  ASSUME NEW s, NEW hits, RankedHits(s, hits), NEW h \in hits, h \notin Taken(hits),
         NEW all, hits \subseteq all, IsFiniteSet(all)
  PROVE  LET better == {k \in all : k.rank < h.rank} IN
         \/ \E k \in better : k \in Taken(hits) /\ Repeat(k, h)
         \/ Cardinality({MessageOf(k.chunk) : k \in better}) >= Limit
<1> DEFINE T == Taken(hits)
           before == {k \in T : k.rank < h.rank}
           better == {k \in all : k.rank < h.rank}
<1>1. T \subseteq hits /\ ~ Takes(T, h)
  BY TakenIs
<1>2. CASE \E k \in before : Alike(k, h)
  <2>1. PICK k \in before : Alike(k, h)
    BY <1>2
  <2>2. k \in hits /\ k.chunk \in Chunks /\ h.chunk \in Chunks
    BY <1>1 DEF RankedHits
  <2>3. Repeat(k, h)
    BY <2>1, <2>2, AlikeIsRepeat
  <2>. QED
    BY <2>2, <2>3
<1>3. CASE ~ (Cardinality(before) < Limit)
  <2>1. before \in SUBSET all /\ better \in SUBSET all /\ before \subseteq better
    BY <1>1
  <2>2. IsFiniteSet(before) /\ IsFiniteSet(better)
    BY <2>1, FS_Subset
  <2>3. Cardinality(before) \in Nat
    BY <2>2, FS_CardinalityType
  <2>4. Cardinality(before) >= Limit
    BY <1>3, <2>3 DEF RecallAssumption
  <2>5. \A k, g \in before : MessageOf(k.chunk) = MessageOf(g.chunk) => k = g
    BY TakenDiffer
  <2> HIDE DEF before, better
  <2>6. Cardinality({MessageOf(k.chunk) : k \in better}) >= Limit
    BY <2>1, <2>2, <2>4, <2>5, ManyMessages
  <2>. QED
    BY <2>6 DEF better
<1>. QED
  BY <1>1, <1>2, <1>3 DEF Takes

(* What the property asks of an answer.                                    *)
BestOf(hits, given, a) ==
  /\ \A i, j \in DOMAIN a : i < j => a[i].rank < a[j].rank /\ ~ Repeat(a[i], a[j])
  /\ ToSet(a) \subseteq given
  /\ \A h \in hits :
       LET better == {k \in hits : k.rank < h.rank} IN
       \/ h \in ToSet(a)
       \/ \E k \in better : MessageOf(k.chunk) = MessageOf(h.chunk)
                          \/ (k \in ToSet(a) /\ Repeat(k, h))
       \/ Cardinality({MessageOf(k.chunk) : k \in better}) >= Limit

LEMMA CollapsedIsBest ==
  ASSUME NEW s, NEW hits, RankedHits(s, hits), NEW given \in {hits, FirstOfMessages(hits)}
  PROVE  BestOf(hits, given, CollapseChunkHits(given))
<1> DEFINE a == CollapseChunkHits(given)
           T == Taken(given)
<1>1. given \subseteq hits /\ (\A h \in hits : h \notin given => h \notin FirstOfMessages(hits))
  BY FirstAreHits
<1>2. RankedHits(s, given) /\ IsFiniteSet(hits)
  BY <1>1, RankedPart, RankedFinite
<1>3. /\ a \in Seq(T) /\ ToSet(a) = T
      /\ \A i, j \in DOMAIN a : i < j => a[i].rank < a[j].rank
  BY <1>2, CollapsedIs
<1>4. T \subseteq given
  BY <1>2, TakenIs
<1>5. \A k, h \in T : k.rank < h.rank => ~ Alike(k, h)
  BY <1>2, TakenDiffer
<1>6. ASSUME NEW i \in DOMAIN a, NEW j \in DOMAIN a, i < j
      PROVE  a[i].rank < a[j].rank /\ ~ Repeat(a[i], a[j])
  <2>1. a[i] \in T /\ a[j] \in T /\ a[i].rank < a[j].rank
    BY <1>3, <1>6
  <2>2. a[i].chunk \in Chunks /\ a[j].chunk \in Chunks
    BY <1>2, <1>4, <2>1 DEF RankedHits
  <2>. QED
    BY <1>5, <2>1, <2>2, AlikeIsRepeat
<1>7. ASSUME NEW h \in hits
      PROVE  LET better == {k \in hits : k.rank < h.rank} IN
             \/ h \in ToSet(a)
             \/ \E k \in better : MessageOf(k.chunk) = MessageOf(h.chunk)
                                \/ (k \in ToSet(a) /\ Repeat(k, h))
             \/ Cardinality({MessageOf(k.chunk) : k \in better}) >= Limit
  <2>1. CASE h \notin given
    BY <1>1, <2>1, FirstLeavesOut
  <2>2. CASE h \in given /\ h \notin T
    <3>1. LET better == {k \in hits : k.rank < h.rank} IN
          \/ \E k \in better : k \in T /\ Repeat(k, h)
          \/ Cardinality({MessageOf(k.chunk) : k \in better}) >= Limit
      BY <1>1, <1>2, <2>2, LoopLeavesOut
    <3>. QED
      BY <1>3, <3>1
  <2>3. CASE h \in T
    BY <1>3, <2>3
  <2>. QED
    BY <2>1, <2>2, <2>3
<1>. QED
  BY <1>3, <1>4, <1>6, <1>7 DEF BestOf

-----------------------------------------------------------------------------
(* The turns, in the order in which they are taken.                        *)

Answered ==
  \A s \in Stores : /\ answer[s] \in [1..Len(answer[s]) -> {h \in Taken(kept[s]) : h.store = s}]
                    /\ Len(answer[s]) \in 0..Limit

TakenInTurn(turn, N) ==
  /\ N \in Nat /\ turn \in [1..N -> Turns]
  /\ \A e \in Turns : \E n \in 1..N : turn[n] = e
  /\ \A m, n \in 1..N : turn[m] = turn[n] => m = n
  /\ \A m, n \in 1..N :
       m < n <=> \/ turn[m][1] < turn[n][1]
                 \/ turn[m][1] = turn[n][1] /\ turn[m][2] < turn[n][2]

(* The turns of the i-th store among the first L.                          *)
Own(turn, L, i) == {n \in 1..L : turn[n][2] = i}

LEMMA TurnIs ==
  ASSUME NEW e \in Turns
  PROVE  /\ e[1] \in 1..Limit /\ e[1] \in Nat
         /\ e[2] \in 1..Len(Order) /\ e[2] \in Nat
         /\ e = <<e[1], e[2]>> /\ Order[e[2]] \in Stores /\ e[1] <= Len(answer[Order[e[2]]])
<1>1. Order \in Seq(Stores) /\ Limit \in Nat
  BY DEF RecallAssumption
<1>. QED
  BY <1>1 DEF Turns

LEMMA TurnsSorted ==
  TakenInTurn(InOrder(Turns, TurnBefore(Turns)), Cardinality(Turns))
<1>1. IsFiniteSet(Turns)
  <2>1. Limit \in Nat /\ Len(Order) \in Nat /\ DOMAIN Order = 1..Len(Order)
    BY DEF RecallAssumption
  <2>2. IsFiniteSet(1..Limit) /\ IsFiniteSet(DOMAIN Order)
    BY <2>1, FS_Interval
  <2>3. IsFiniteSet((1..Limit) \X DOMAIN Order)
    BY <2>2, FS_Product
  <2>. QED
    BY <2>3, FS_Subset DEF Turns
<1>2. \A d, e \in Turns : <<d, e>> \in TurnBefore(Turns)
                          <=> d[1] < e[1] \/ (d[1] = e[1] /\ d[2] < e[2])
  BY DEF TurnBefore
<1>3. \A e \in Turns : e[1] \in Nat /\ e[2] \in Nat /\ e = <<e[1], e[2]>>
  BY TurnIs
<1>4. Ranks(TurnBefore(Turns), Turns)
  <2>1. \A e \in Turns : <<e, e>> \notin TurnBefore(Turns)
    BY <1>2, <1>3
  <2>2. ASSUME NEW d \in Turns, NEW e \in Turns
        PROVE  d = e \/ <<d, e>> \in TurnBefore(Turns) \/ <<e, d>> \in TurnBefore(Turns)
    <3>1. d[1] \in Nat /\ d[2] \in Nat /\ e[1] \in Nat /\ e[2] \in Nat
      BY <1>3
    <3>2. d[1] = e[1] /\ d[2] = e[2] => d = e
      BY <1>3
    <3>3. d[1] < e[1] \/ e[1] < d[1] \/ (d[1] = e[1] /\ (d[2] < e[2] \/ e[2] < d[2] \/ d[2] = e[2]))
      BY <3>1
    <3>. QED
      BY <1>2, <3>2, <3>3
  <2>3. ASSUME NEW d \in Turns, NEW e \in Turns, NEW f \in Turns,
               <<d, e>> \in TurnBefore(Turns), <<e, f>> \in TurnBefore(Turns)
        PROVE  <<d, f>> \in TurnBefore(Turns)
    <3>1. d[1] \in Nat /\ d[2] \in Nat /\ e[1] \in Nat /\ e[2] \in Nat /\ f[1] \in Nat /\ f[2] \in Nat
      BY <1>3
    <3>2. /\ d[1] < e[1] \/ (d[1] = e[1] /\ d[2] < e[2])
          /\ e[1] < f[1] \/ (e[1] = f[1] /\ e[2] < f[2])
      BY <1>2, <2>3
    <3>3. d[1] < f[1] \/ (d[1] = f[1] /\ d[2] < f[2])
      BY <3>1, <3>2
    <3>. QED
      BY <1>2, <3>3
  <2>. QED
    BY <2>1, <2>2, <2>3 DEF Ranks
<1> DEFINE t == InOrder(Turns, TurnBefore(Turns))
           N == Cardinality(Turns)
<1>5. /\ N \in Nat /\ t \in [1..N -> Turns]
      /\ \A e \in Turns : \E n \in 1..N : t[n] = e
      /\ \A m, n \in 1..N : m < n <=> <<t[m], t[n]>> \in TurnBefore(Turns)
      /\ \A m, n \in 1..N : t[m] = t[n] => m = n
  BY <1>1, <1>4, SortsAll
<1> HIDE DEF t, N
<1>6. \A m, n \in 1..N : m < n <=> t[m][1] < t[n][1] \/ (t[m][1] = t[n][1] /\ t[m][2] < t[n][2])
  BY <1>2, <1>5
<1>7. TakenInTurn(t, N)
  BY <1>5, <1>6 DEF TakenInTurn
<1>. QED
  BY <1>7 DEF t, N

(* The turns of a store come rank by rank: as many up to its n-th as the   *)
(* rank of that one.                                                       *)
LEMMA RankCounts ==
  ASSUME Answered, NEW turn, NEW N, TakenInTurn(turn, N), NEW L \in 0..N, NEW i,
         NEW n \in Own(turn, L, i)
  PROVE  Cardinality({m \in Own(turn, L, i) : m <= n}) = turn[n][1]
<1> DEFINE S == {m \in Own(turn, L, i) : m <= n}
           r == turn[n][1]
           g == [q \in 1..r |-> CHOOSE m \in 1..N : turn[m] = <<q, i>>]
<1>0. N \in Nat /\ L \in Nat /\ L <= N /\ n \in 1..L /\ n \in 1..N /\ turn[n] \in Turns /\ turn[n][2] = i
  BY DEF Own, TakenInTurn
<1>1. r \in Nat /\ i \in 1..Len(Order) /\ i \in Nat /\ turn[n] = <<r, i>> /\ r <= Limit
      /\ r <= Len(answer[Order[i]]) /\ Len(answer[Order[i]]) \in Nat /\ Limit \in Nat
  BY SMTT(30), <1>0, TurnIs DEF RecallAssumption, Answered
<1>2. ASSUME NEW q \in 1..r
      PROVE  g[q] \in S /\ turn[g[q]] = <<q, i>>
  <2>1. <<q, i>> \in Turns
    <3>1. q \in 1..Limit /\ i \in DOMAIN Order
      BY <1>1 DEF RecallAssumption
    <3>2. q <= Len(answer[Order[i]])
      BY <1>1
    <3>. QED
      BY <3>1, <3>2 DEF Turns
  <2>2. \E m \in 1..N : turn[m] = <<q, i>>
    BY <2>1 DEF TakenInTurn
  <2>3. g[q] \in 1..N /\ turn[g[q]] = <<q, i>>
    BY <2>2
  <2> HIDE DEF g
  <2>4. g[q] <= n
    <3>1. CASE q < r
      <4>1. turn[g[q]][1] < turn[n][1]
        BY <1>1, <2>3, <3>1
      <4>2. g[q] < n
        BY <1>0, <2>3, <4>1 DEF TakenInTurn
      <4>. QED
        BY <1>0, <2>3, <4>2
    <3>2. CASE q = r
      BY <1>0, <1>1, <2>3, <3>2 DEF TakenInTurn
    <3>. QED
      BY <1>1, <3>1, <3>2
  <2>5. g[q] \in 1..L /\ turn[g[q]][2] = i
    BY <1>0, <2>3, <2>4
  <2>. QED
    BY <2>3, <2>4, <2>5 DEF Own
<1>3. g \in [1..r -> S]
  BY <1>2
<1>4. \A p, q \in 1..r : g[p] = g[q] => p = q
  <2>. SUFFICES ASSUME NEW p \in 1..r, NEW q \in 1..r, g[p] = g[q] PROVE p = q
    OBVIOUS
  <2>1. turn[g[p]] = <<p, i>> /\ turn[g[q]] = <<q, i>>
    BY <1>2
  <2> HIDE DEF g
  <2>2. <<p, i>> = <<q, i>>
    BY <2>1
  <2>. QED
    BY <2>2
<1>5. ASSUME NEW m \in S PROVE \E q \in 1..r : g[q] = m
  <2>1. m \in 1..N /\ m <= n /\ turn[m] \in Turns /\ turn[m][2] = i
    BY <1>0 DEF Own, TakenInTurn
  <2>2. turn[m] = <<turn[m][1], i>> /\ turn[m][1] \in 1..Limit /\ turn[m][1] \in Nat
    BY <2>1, TurnIs
  <2>3. turn[m][1] <= r
    <3>1. ~ (turn[n][1] < turn[m][1])
      BY <1>0, <2>1 DEF TakenInTurn
    <3>. QED
      BY <1>1, <2>2, <3>1
  <2>4. turn[m][1] \in 1..r
    BY <1>1, <2>2, <2>3
  <2>5. g[turn[m][1]] \in S /\ turn[g[turn[m][1]]] = turn[m]
    BY <1>2, <2>2, <2>4
  <2>6. g[turn[m][1]] \in 1..N
    BY <1>0, <2>5 DEF Own
  <2>7. g[turn[m][1]] = m
    BY <2>1, <2>5, <2>6 DEF TakenInTurn
  <2>. QED
    BY <2>4, <2>7
<1> HIDE DEF g, S
<1>6. Cardinality(S) = r
  BY <1>1, <1>3, <1>4, <1>5, CountedTo
<1>. QED
  BY <1>6 DEF S

(* So the ranks that a store has had are the numbers up to their count.    *)
LEMMA RanksAreAll ==
  ASSUME Answered, NEW turn, NEW N, TakenInTurn(turn, N), NEW L \in 0..N, NEW i
  PROVE  LET K == Cardinality(Own(turn, L, i)) IN
         /\ K \in Nat
         /\ \A n \in Own(turn, L, i) : turn[n][1] <= K
         /\ K # 0 => \E n \in Own(turn, L, i) : turn[n][1] = K
<1> DEFINE S == Own(turn, L, i)
           K == Cardinality(S)
           f == [n \in S |-> turn[n][1]]
<1>0. N \in Nat /\ L \in Nat /\ L <= N
  BY DEF TakenInTurn
<1>1. IsFiniteSet(S)
  <2>1. IsFiniteSet(1..L)
    BY <1>0, FS_Interval
  <2>2. S \in SUBSET (1..L)
    BY DEF Own
  <2>. QED
    BY <2>1, <2>2, FS_Subset
<1>2. K \in Nat
  BY <1>1, FS_CardinalityType
<1>3. ASSUME NEW n \in S PROVE f[n] \in 1..K
  <2>1. n \in 1..N /\ turn[n] \in Turns
    BY <1>0 DEF Own, TakenInTurn
  <2>2. turn[n][1] \in Nat /\ turn[n][1] >= 1
    BY <2>1, TurnIs DEF RecallAssumption
  <2>3. {m \in S : m <= n} \in SUBSET S
    OBVIOUS
  <2>4. Cardinality({m \in S : m <= n}) <= K
    BY <1>1, <2>3, FS_Subset
  <2>5. Cardinality({m \in S : m <= n}) = turn[n][1]
    BY RankCounts
  <2> HIDE DEF S, K
  <2>. QED
    BY <1>2, <2>2, <2>4, <2>5
<1>4. \A m, n \in S : f[m] = f[n] => m = n
  <2>. SUFFICES ASSUME NEW m \in S, NEW n \in S, turn[m][1] = turn[n][1] PROVE m = n
    OBVIOUS
  <2>1. m \in 1..N /\ n \in 1..N /\ turn[m] \in Turns /\ turn[n] \in Turns
        /\ turn[m][2] = i /\ turn[n][2] = i
    BY <1>0 DEF Own, TakenInTurn
  <2>2. turn[m] = turn[n]
    BY <2>1, TurnIs
  <2>. QED
    BY <2>1, <2>2 DEF TakenInTurn
<1> HIDE DEF S, K
<1>5. f \in Injection(S, 1..K)
  BY <1>3, <1>4 DEF Injection, IsInjective
<1>6. IsFiniteSet(1..K) /\ Cardinality(1..K) = K
  BY <1>2, FS_Interval
<1>7. f \in Surjection(S, 1..K)
  BY <1>5, <1>6, FS_Injection DEF K
<1>8. ASSUME K # 0 PROVE \E n \in S : turn[n][1] = K
  <2>1. K \in 1..K
    BY <1>2, <1>8
  <2>. QED
    BY <1>7, <2>1 DEF Surjection
<1>. QED
  BY <1>2, <1>3, <1>8 DEF S, K

LEMMA MergedIs ==
  ASSUME Answered, output = InterleaveHits
  PROVE  LET turn == InOrder(Turns, TurnBefore(Turns))
             N    == Cardinality(Turns)
             L    == IF N < Limit THEN N ELSE Limit IN
         /\ L \in 0..N /\ Len(output) = L /\ DOMAIN output = 1..L
         /\ \A n \in 1..L : /\ turn[n] \in Turns
                            /\ output[n] = answer[Order[turn[n][2]]][turn[n][1]]
         /\ \A i \in DOMAIN Order : Shown(Order[i]) = Own(turn, L, i)
<1> DEFINE turn == InOrder(Turns, TurnBefore(Turns))
           N == Cardinality(Turns)
           L == IF N < Limit THEN N ELSE Limit
           V == {output[n] : n \in 1..L}
<1>1. TakenInTurn(turn, N)
  BY TurnsSorted
<1>2. output = [n \in {i \in DOMAIN turn : i <= Limit} |-> answer[Order[turn[n][2]]][turn[n][1]]]
  BY DEF InterleaveHits
<1> HIDE DEF turn, N
<1>3. N \in Nat /\ DOMAIN turn = 1..N /\ Limit \in Nat
  BY <1>1 DEF TakenInTurn, RecallAssumption
<1>4. L \in 0..N /\ L \in Nat /\ {i \in DOMAIN turn : i <= Limit} = 1..L
  BY <1>3
<1>5. DOMAIN output = 1..L
  BY <1>2, <1>4
<1>6. ASSUME NEW n \in 1..L
      PROVE  turn[n] \in Turns /\ output[n] = answer[Order[turn[n][2]]][turn[n][1]]
  BY <1>1, <1>2, <1>4 DEF TakenInTurn
<1>7. output \in [1..L -> V]
  BY <1>2, <1>4
<1>8. Len(output) = L
  <2> HIDE DEF L, V
  <2>. QED
    BY <1>4, <1>7
<1>9. ASSUME NEW i \in DOMAIN Order PROVE Shown(Order[i]) = Own(turn, L, i)
  <2>1. ASSUME NEW n \in 1..L
        PROVE  output[n].store = Order[i] <=> turn[n][2] = i
    <3>1. /\ turn[n][1] \in 1..Limit /\ turn[n][2] \in DOMAIN Order /\ Order[turn[n][2]] \in Stores
          /\ turn[n][1] <= Len(answer[Order[turn[n][2]]])
      BY SMTT(30), <1>6, TurnIs DEF RecallAssumption
    <3>2. turn[n][1] \in 1..Len(answer[Order[turn[n][2]]])
      BY <3>1 DEF Answered
    <3>3. answer[Order[turn[n][2]]][turn[n][1]].store = Order[turn[n][2]]
      BY <3>1, <3>2 DEF Answered
    <3>4. output[n].store = Order[turn[n][2]]
      BY <1>6, <3>3
    <3>. QED
      BY <3>1, <3>4 DEF RecallAssumption, IsInjective
  <2>. QED
    BY <1>5, <2>1 DEF Shown, Own
<1>. QED
  BY <1>4, <1>5, <1>6, <1>8, <1>9 DEF turn, N

LEMMA MergeIsFair ==
  ASSUME Answered, output = InterleaveHits, NEW s \in Stores, NEW t \in Stores
  PROVE  LET shown == Cardinality(Shown(s)) IN
         /\ shown <= Len(answer[s])
         /\ \A n \in Shown(s) : output[n] = answer[s][Cardinality({m \in Shown(s) : m <= n})]
         /\ shown < Len(answer[s]) =>
              Len(output) = Limit /\ Cardinality(Shown(t)) <= shown + 1
<1> DEFINE turn == InOrder(Turns, TurnBefore(Turns))
           N == Cardinality(Turns)
           L == IF N < Limit THEN N ELSE Limit
<1>1. TakenInTurn(turn, N) /\ N \in Nat /\ Limit \in Nat
  BY TurnsSorted DEF TakenInTurn, RecallAssumption
<1>2. /\ L \in 0..N /\ Len(output) = L
      /\ \A n \in 1..L : turn[n] \in Turns /\ output[n] = answer[Order[turn[n][2]]][turn[n][1]]
      /\ \A i \in DOMAIN Order : Shown(Order[i]) = Own(turn, L, i)
  BY MergedIs
<1> HIDE DEF turn, N, L
<1>3. PICK i \in DOMAIN Order : s = Order[i]
  BY DEF Stores, ToSet
<1>4. PICK j \in DOMAIN Order : t = Order[j]
  BY DEF Stores, ToSet
<1> DEFINE K == Cardinality(Own(turn, L, i))
           M == Cardinality(Own(turn, L, j))
<1>5. Shown(s) = Own(turn, L, i) /\ Shown(t) = Own(turn, L, j)
  <2>1. Shown(Order[i]) = Own(turn, L, i) /\ Shown(Order[j]) = Own(turn, L, j)
    BY <1>2, Zenon
  <2>. QED
    BY <1>3, <1>4, <2>1, Zenon
<1>6. /\ K \in Nat
      /\ \A n \in Own(turn, L, i) : turn[n][1] <= K
      /\ K # 0 => \E n \in Own(turn, L, i) : turn[n][1] = K
  BY <1>1, <1>2, RanksAreAll
<1>7. M \in Nat /\ (M # 0 => \E n \in Own(turn, L, j) : turn[n][1] = M)
  BY <1>1, <1>2, RanksAreAll
<1>8. \A n \in Own(turn, L, i) : n \in 1..L /\ n \in 1..N /\ turn[n] \in Turns /\ turn[n][2] = i
  BY <1>1, <1>2 DEF Own
<1>9. Len(answer[s]) \in Nat /\ Len(answer[s]) <= Limit
  BY <1>1 DEF Answered
<1>10. i \in 1..Len(Order) /\ i \in Nat /\ j \in 1..Len(Order) /\ j \in Nat
  BY DEF RecallAssumption
<1>11. K <= Len(answer[s])
  <2>1. CASE K = 0
    BY <1>9, <2>1
  <2>2. CASE K # 0
    <3>1. PICK n \in Own(turn, L, i) : turn[n][1] = K
      BY <1>6, <2>2
    <3>2. turn[n] \in Turns /\ turn[n][2] = i
      BY <1>8
    <3>. QED
      BY <1>3, <3>1, <3>2, TurnIs
  <2>. QED
    BY <2>1, <2>2
<1>12. ASSUME NEW n \in Shown(s)
       PROVE  output[n] = answer[s][Cardinality({m \in Shown(s) : m <= n})]
  <2>1. n \in Own(turn, L, i)
    BY <1>5
  <2>2. Cardinality({m \in Shown(s) : m <= n}) = turn[n][1]
    BY <1>1, <1>2, <1>5, <2>1, RankCounts
  <2>. QED
    BY <1>2, <1>3, <1>8, <2>1, <2>2
<1>13. ASSUME K < Len(answer[s]) PROVE L = Limit /\ M <= K + 1
  <2>1. <<K + 1, i>> \in Turns
    <3>1. K + 1 \in 1..Limit /\ K + 1 <= Len(answer[s])
      BY <1>6, <1>9, <1>13, <1>1
    <3>. QED
      BY <1>3, <3>1 DEF Turns
  <2>2. PICK m \in 1..N : turn[m] = <<K + 1, i>>
    BY <1>1, <2>1 DEF TakenInTurn
  <2> HIDE DEF K, M
  <2>3. ~ (m <= L)
    <3>. SUFFICES ASSUME m <= L PROVE FALSE
      OBVIOUS
    <3>1. m \in 1..L
      BY <1>1, <1>2
    <3>2. m \in Own(turn, L, i)
      BY <2>2, <3>1 DEF Own
    <3>3. turn[m][1] = K + 1
      BY <2>2
    <3>. QED
      BY <1>6, <3>2, <3>3
  <2>4. L < N
    BY <1>1, <1>2, <2>3
  <2>5. L = Limit
    BY <1>1, <2>4 DEF L
  <2>6. M <= K + 1
    <3>. SUFFICES ASSUME ~ (M <= K + 1) PROVE FALSE
      OBVIOUS
    <3>1. M # 0
      BY <1>6, <1>7
    <3>2. PICK n \in Own(turn, L, j) : turn[n][1] = M
      BY <1>7, <3>1
    <3>3. n \in 1..L /\ n \in 1..N
      BY <1>1, <1>2 DEF Own
    <3>4. turn[m][1] < turn[n][1]
      BY <1>6, <1>7, <2>2, <3>2
    <3>5. m < n
      BY <1>1, <3>3, <3>4 DEF TakenInTurn
    <3>. QED
      BY <1>1, <1>2, <2>3, <3>3, <3>5
  <2>. QED
    BY <2>5, <2>6
<1>. QED
  BY <1>2, <1>5, <1>11, <1>12, <1>13

-----------------------------------------------------------------------------
(***************************************************************************)
(* The two invariants of a recall.  A store that has ranked keeps the      *)
(* first rows of messages of what it ranked, until it answers with what    *)
(* collapseChunkHits makes of what it found; the client's output is made   *)
(* of answers that no longer change.                                       *)
(***************************************************************************)

Asked(s) ==
  /\ \A a \in DOMAIN rows[s] : rows[s][a].chunk \in Chunks
  /\ RankedHits(s, scored[s]) /\ RankedHits(s, kept[s])
  /\ pc[s] = "fetch" => kept[s] = FirstOfMessages(scored[s])
  /\ pc[s] # "answered" => answer[s] = <<>>
  /\ pc[s] = "answered" =>
       /\ answer[s] = CollapseChunkHits(kept[s])
       /\ kept[s] \in {scored[s], FirstOfMessages(scored[s])}

Merged ==
  /\ outcome # "waiting" => \A s \in Stores : pc[s] \in Ended
  /\ outcome = "exited" <=> (outcome # "waiting" /\ \A s \in Stores : pc[s] = "failed")
  /\ outcome = "printed" => output = InterleaveHits

RecallInv ==
  /\ ReadInv /\ DOMAIN answer = Stores
  /\ \A s \in Stores : Asked(s)
  /\ Merged

LEMMA NothingCollapsed == CollapseChunkHits({}) = <<>>
<1>1. Taken({}) = {}
  <2>1. RankedHits(0, {})
    BY DEF RankedHits
  <2>. QED
    BY <2>1, TakenIs
<1>2. Cardinality({}) = 0
  BY FS_EmptySet
<1>3. DOMAIN CollapseChunkHits({}) = 1..0
  BY <1>1, <1>2 DEF CollapseChunkHits, InOrder
<1>4. CollapseChunkHits({}) = [n \in DOMAIN CollapseChunkHits({}) |-> CollapseChunkHits({})[n]]
  BY DEF CollapseChunkHits, InOrder
<1>5. 1..0 = {}
  OBVIOUS
<1>. QED
  BY <1>3, <1>4, <1>5

(* All rows found: what is kept does not change.                           *)
LEMMA FoundIsAll ==
  ASSUME NEW s \in Stores, Faithful(s), \A k \in kept[s] : Found(s, k) # {}
  PROVE  WithColumns(s) = kept[s]
<1>1. ASSUME NEW k \in kept[s] PROVE k \in WithColumns(s)
  <2>1. k.at \in Found(s, k) /\ k.at \in DOMAIN rows[s]
    BY <1>1 DEF Found
  <2>2. k = HitOf(s, k.rank, k.at)
    BY <1>1, <2>1 DEF Faithful
  <2>. QED
    BY <1>1, <2>1, <2>2 DEF WithColumns
<1>. QED
  BY <1>1, FoundIsKept

LEMMA AskedStays ==
  ASSUME NEW s \in Stores, Asked(s), rows'[s] = rows[s], pc'[s] = pc[s],
         kept'[s] = kept[s], scored'[s] = scored[s], answer'[s] = answer[s]
  PROVE  Asked(s)'
BY DEF Asked

LEMMA AskedInit == RecallInit => RecallInv
<1>. SUFFICES ASSUME RecallInit PROVE RecallInv
  OBVIOUS
<1>1. PICK t \in Tables : rows = t
  BY DEF RecallInit
<1>2. rows \in [Stores -> Seq(Row)]
  BY <1>1 DEF RecallAssumption
<1>3. ASSUME NEW s \in Stores, NEW a \in DOMAIN rows[s] PROVE rows[s][a].chunk \in Chunks
  <2>1. rows[s] \in Seq(Row)
    BY <1>2
  <2>2. rows[s][a] \in Row
    BY <2>1
  <2>. QED
    BY <2>2 DEF Row
<1>4. \A s \in Stores : Asked(s)
  BY <1>3 DEF RecallInit, Asked, RankedHits
<1>5. Merged /\ DOMAIN answer = Stores
  BY DEF RecallInit, Merged
<1>. QED
  BY <1>4, <1>5, InitInv DEF RecallInv

(* While the client waits, what a store does is of no concern to it.       *)
LEMMA StillWaiting ==
  ASSUME Merged, NEW s \in Stores, pc[s] \notin Ended, UNCHANGED outcome
  PROVE  Merged' /\ outcome = "waiting"
<1>1. outcome = "waiting"
  BY DEF Merged
<1>. QED
  BY <1>1 DEF Merged

LEMMA StoreStep ==
  ASSUME RecallInv, NEW s \in Stores, Read(s) \/ Fail(s)
  PROVE  RecallInv'
<1>0. ReadInv /\ DOMAIN pc = Stores /\ DOMAIN kept = Stores /\ DOMAIN scored = Stores
      /\ DOMAIN answer = Stores /\ Asked(s)
  BY DEF RecallInv, ReadInv, ReadTypes
<1>1. ReadInv'
  BY <1>0, RankInv, FetchInv, OnePassInv, FailInv DEF Read
<1>2. rows' = rows /\ outcome' = outcome /\ pc[s] \notin Ended /\ DOMAIN answer' = Stores
  BY <1>0 DEF Read, Rank, Fetch, OnePass, Fail, Reply, Ended
<1>3. Merged'
  BY <1>2, StillWaiting DEF RecallInv
<1>4. ASSUME NEW t \in Stores, t # s PROVE Asked(t)'
  <2>1. pc'[t] = pc[t] /\ kept'[t] = kept[t] /\ scored'[t] = scored[t] /\ answer'[t] = answer[t]
    BY <1>0, <1>4 DEF Read, Rank, Fetch, OnePass, Fail, Reply
  <2>. QED
    BY <1>2, <2>1, AskedStays DEF RecallInv
<1>5. \A a \in DOMAIN rows'[s] : rows'[s][a].chunk \in Chunks
  BY <1>0, <1>2 DEF Asked
<1>6. pc[s] # "answered" /\ answer[s] = <<>>
  BY <1>0, <1>2 DEF Asked, Ended
<1>7. CASE Rank(s)
  <2>1. PICK hits \in Rankings(s) :
          /\ scored' = [scored EXCEPT ![s] = hits]
          /\ kept' = [kept EXCEPT ![s] = FirstOfMessages(hits)]
          /\ pc' = [pc EXCEPT ![s] = IF hits = {} THEN "answered" ELSE "fetch"]
    BY <1>7 DEF Rank
  <2>2. scored'[s] = hits /\ kept'[s] = FirstOfMessages(hits) /\ answer'[s] = <<>>
        /\ pc'[s] = IF hits = {} THEN "answered" ELSE "fetch"
    BY <1>0, <1>6, <1>7, <2>1 DEF Rank
  <2>3. RankedHits(s, hits)
    BY <1>0, RankingIsRanked DEF Asked
  <2>4. RankedHits(s, FirstOfMessages(hits))
    BY <2>3, FirstAreHits, RankedPart
  <2>5. hits = {} => FirstOfMessages(hits) = {}
    BY FirstAreHits
  <2>6. Asked(s)'
    BY <1>5, <2>2, <2>3, <2>4, <2>5, NothingCollapsed DEF Asked
  <2>. QED
    BY <1>1, <1>2, <1>3, <1>4, <2>6 DEF RecallInv
<1>8. ASSUME NEW hits, Reply(s, hits), RankedHits(s, scored'[s]), RankedHits(s, hits),
             hits \in {scored'[s], FirstOfMessages(scored'[s])}
      PROVE  Asked(s)'
  <2>1. kept'[s] = hits /\ pc'[s] = "answered" /\ answer'[s] = CollapseChunkHits(hits)
    BY <1>0, <1>8 DEF Reply
  <2>. QED
    BY <1>5, <1>8, <2>1 DEF Asked
<1>9. CASE Fetch(s)
  <2>1. CASE (\A k \in kept[s] : Found(s, k) # {}) /\ Reply(s, WithColumns(s))
    <3>1. pc[s] = "fetch" /\ scored' = scored
      BY <1>9 DEF Fetch
    <3>2. WithColumns(s) = kept[s]
      BY <1>0, <2>1, <3>1, FoundIsAll DEF ReadInv
    <3>3. Asked(s)'
      BY <1>0, <1>8, <2>1, <3>1, <3>2 DEF Asked
    <3>. QED
      BY <1>1, <1>2, <1>3, <1>4, <3>3 DEF RecallInv
  <2>2. CASE pc' = [pc EXCEPT ![s] = "again"] /\ kept' = [kept EXCEPT ![s] = {}] /\ UNCHANGED answer
    <3>1. scored'[s] = scored[s] /\ kept'[s] = {} /\ pc'[s] = "again" /\ answer'[s] = <<>>
      BY <1>0, <1>6, <1>9, <2>2 DEF Fetch
    <3>2. Asked(s)'
      BY <1>0, <1>5, <3>1 DEF Asked, RankedHits
    <3>. QED
      BY <1>1, <1>2, <1>3, <1>4, <3>2 DEF RecallInv
  <2>. QED
    BY <1>9, <2>1, <2>2 DEF Fetch
<1>10. CASE OnePass(s)
  <2>1. PICK hits \in Rankings(s) : scored' = [scored EXCEPT ![s] = hits] /\ Reply(s, hits)
    BY <1>10 DEF OnePass
  <2>2. RankedHits(s, hits) /\ scored'[s] = hits
    BY <1>0, <2>1, RankingIsRanked DEF Asked
  <2>3. Asked(s)'
    BY <1>8, <2>1, <2>2
  <2>. QED
    BY <1>1, <1>2, <1>3, <1>4, <2>3 DEF RecallInv
<1>11. CASE Fail(s)
  <2>1. scored'[s] = {} /\ kept'[s] = {} /\ pc'[s] = "failed" /\ answer'[s] = <<>>
    BY <1>0, <1>6, <1>11 DEF Fail
  <2>2. Asked(s)'
    BY <1>5, <2>1 DEF Asked, RankedHits
  <2>. QED
    BY <1>1, <1>2, <1>3, <1>4, <2>2 DEF RecallInv
<1>. QED
  BY <1>7, <1>9, <1>10, <1>11 DEF Read

(* A write changes only the table.                                         *)
LEMMA DaemonStep ==
  ASSUME RecallInv, NEW s \in Stores, NEW c \in Chunks,
         (\E b \in Bodies : Write(s, c, b)) \/ Delete(s, c)
  PROVE  RecallInv'
<1>0. ReadInv /\ DOMAIN rows = Stores /\ end[s] \in Nat /\ DOMAIN end = Stores /\ Asked(s)
  BY DEF RecallInv, ReadInv, ReadTypes
<1>1. ReadInv'
  BY <1>0, WriteInv, DeleteInv
<1>2. /\ outcome' = outcome /\ pc[s] \notin Ended /\ pc' = pc /\ scored' = scored
      /\ kept' = kept /\ answer' = answer
  BY DEF Write, Delete, Ended, calls
<1>3. Merged'
  BY <1>2, StillWaiting DEF RecallInv
<1>4. ASSUME NEW t \in Stores, t # s PROVE Asked(t)'
  <2>1. rows'[t] = rows[t]
    BY <1>0, <1>4 DEF Write, Delete
  <2>. QED
    BY <1>2, <2>1, AskedStays DEF RecallInv
<1>5. \A a \in DOMAIN rows'[s] : rows'[s][a].chunk \in Chunks
  <2>1. ASSUME NEW b \in Bodies, Write(s, c, b)
        PROVE  \A a \in DOMAIN rows'[s] : rows'[s][a].chunk \in Chunks
    <3>1. rows'[s] = [a \in Without(s, c) \cup {end'[s]} |->
                        IF a = end'[s] THEN [chunk |-> c, body |-> b] ELSE rows[s][a]]
      BY <1>0, <2>1 DEF Write
    <3>. QED
      BY <1>0, <3>1 DEF Asked, Without
  <2>2. ASSUME Delete(s, c)
        PROVE  \A a \in DOMAIN rows'[s] : rows'[s][a].chunk \in Chunks
    <3>1. rows'[s] = [a \in Without(s, c) |-> rows[s][a]]
      BY <1>0, <2>2 DEF Delete, Restrict
    <3>. QED
      BY <1>0, <3>1 DEF Asked, Without
  <2>. QED
    BY <2>1, <2>2
<1>6. Asked(s)'
  BY <1>0, <1>2, <1>5 DEF Asked
<1>. QED
  BY <1>0, <1>1, <1>2, <1>3, <1>4, <1>6 DEF RecallInv

LEMMA ClientStep ==
  ASSUME RecallInv, Emit
  PROVE  RecallInv'
<1>1. /\ rows' = rows /\ end' = end /\ pc' = pc /\ scored' = scored /\ kept' = kept
      /\ answer' = answer /\ \A s \in Stores : pc[s] \in Ended
  BY DEF Emit, calls
<1>2. ReadInv' /\ DOMAIN answer' = Stores
  BY <1>1, StaysInv DEF RecallInv
<1>3. \A s \in Stores : Asked(s)'
  BY <1>1, AskedStays DEF RecallInv
<1>4. InterleaveHits' = InterleaveHits
  BY <1>1 DEF InterleaveHits, Turns, TurnBefore
<1>5. CASE (\E s \in Stores : pc[s] = "answered") /\ outcome' = "printed" /\ output' = InterleaveHits
  <2>1. Merged'
    BY <1>1, <1>4, <1>5 DEF Merged
  <2>. QED
    BY <1>2, <1>3, <2>1 DEF RecallInv
<1>6. CASE (\A s \in Stores : pc[s] = "failed") /\ outcome' = "exited"
  <2>1. Merged'
    BY <1>1, <1>6 DEF Merged
  <2>. QED
    BY <1>2, <1>3, <2>1 DEF RecallInv
<1>. QED
  BY <1>5, <1>6 DEF Emit

(* In every reachable state: what a store answers is what it has kept,      *)
(* collapsed, and what is printed is the merge of the answers (fanOut).     *)
THEOREM SpecRecallInv == RecallSpec => []RecallInv
<1>1. RecallInv /\ [RecallNext]_recallVars => RecallInv'
  <2>. SUFFICES ASSUME RecallInv, [RecallNext]_recallVars PROVE RecallInv'
    OBVIOUS
  <2>1. CASE UNCHANGED recallVars
    <3>1. /\ rows' = rows /\ end' = end /\ pc' = pc /\ scored' = scored /\ kept' = kept
          /\ answer' = answer /\ outcome' = outcome /\ output' = output
      BY <2>1 DEF recallVars, calls
    <3>2. ReadInv' /\ \A s \in Stores : Asked(s)'
      BY <3>1, StaysInv, AskedStays DEF RecallInv
    <3>3. InterleaveHits' = InterleaveHits
      BY <3>1 DEF InterleaveHits, Turns, TurnBefore
    <3>4. Merged'
      BY <3>1, <3>3 DEF RecallInv, Merged
    <3>. QED
      BY <3>1, <3>2, <3>4 DEF RecallInv
  <2>. QED
    BY <2>1, StoreStep, DaemonStep, ClientStep DEF RecallNext
<1>. QED
  BY AskedInit, <1>1, PTL DEF RecallSpec

(***************************************************************************)
(* Whatever is written between the reads, a store answers with the best    *)
(* hits of what it ranked, and leaves none out but for one alike or for    *)
(* the limit (collapseChunkHits, selectCollapsed).                         *)
(***************************************************************************)
THEOREM SpecBestOfEach == RecallSpec => []BestOfEach
<1>1. RecallInv => BestOfEach
  <2>. SUFFICES ASSUME RecallInv, NEW s \in Stores, pc[s] = "answered"
               PROVE  BestOf(scored[s], kept[s], answer[s])
    BY Zenon DEF BestOfEach, BestOf
  <2>1. /\ RankedHits(s, scored[s]) /\ answer[s] = CollapseChunkHits(kept[s])
        /\ kept[s] \in {scored[s], FirstOfMessages(scored[s])}
    BY DEF RecallInv, Asked
  <2>. QED
    BY <2>1, CollapsedIsBest
<1>. QED
  BY <1>1, SpecRecallInv, PTL

(***************************************************************************)
(* The client shows every store's hits best first, lets none run ahead of  *)
(* one that has more, and leaves hits out only when Limit are shown        *)
(* (interleave), whichever stores fail.                                    *)
(***************************************************************************)
THEOREM SpecFairMerge == RecallSpec => []FairMerge
<1>1. RecallInv => FairMerge
  <2>. SUFFICES ASSUME RecallInv PROVE FairMerge
    OBVIOUS
  <2>1. ASSUME NEW s \in Stores
        PROVE  /\ answer[s] \in [1..Len(answer[s]) -> {h \in Taken(kept[s]) : h.store = s}]
               /\ Len(answer[s]) \in 0..Limit
    <3>1. CASE pc[s] = "answered"
      <4>1. RankedHits(s, kept[s]) /\ answer[s] = CollapseChunkHits(kept[s])
        BY <3>1 DEF RecallInv, Asked
      <4>2. answer[s] \in Seq(Taken(kept[s])) /\ Len(answer[s]) <= Limit
        BY <4>1, CollapsedIs
      <4>3. \A h \in Taken(kept[s]) : h.store = s
        BY <4>1, TakenIs DEF RankedHits
      <4>. QED
        BY <4>2, <4>3 DEF RecallAssumption
    <3>2. CASE pc[s] # "answered"
      <4>1. answer[s] = <<>>
        BY <3>2 DEF RecallInv, Asked
      <4>. QED
        BY <4>1 DEF RecallAssumption
    <3>. QED
      BY <3>1, <3>2
  <2>2. Answered
    BY <2>1 DEF Answered
  <2>3. outcome = "printed" => output = InterleaveHits
    BY DEF RecallInv, Merged
  <2>4. outcome = "exited" <=> (outcome # "waiting" /\ \A s \in Stores : pc[s] = "failed")
    BY DEF RecallInv, Merged
  <2>5. ASSUME outcome = "printed", NEW s \in Stores, NEW t \in Stores
        PROVE  LET shown == Cardinality(Shown(s)) IN
               /\ shown <= Len(answer[s])
               /\ \A n \in Shown(s) : output[n] = answer[s][Cardinality({m \in Shown(s) : m <= n})]
               /\ shown < Len(answer[s]) =>
                    Len(output) = Limit /\ Cardinality(Shown(t)) <= shown + 1
    BY <2>2, <2>3, <2>5, MergeIsFair
  <2>. QED
    BY <2>4, <2>5 DEF FairMerge
<1>. QED
  BY <1>1, SpecRecallInv, PTL

HIDE RecallAssumption

-----------------------------------------------------------------------------
(* Slots (QuerySlots). *)

USE SlotAssumption

(***************************************************************************)
(* The count in the channel is the number of goroutines that hold a slot,  *)
(* because a slot is handed on only to a caller that is still blocked, and *)
(* once.                                                                   *)
(***************************************************************************)
SlotInv ==
  /\ TypeOK
  /\ slots = Cardinality(Holding)
  /\ queue # <<>> => slots = MaxConcurrent
  /\ \A i \in 1..Len(queue) : call[queue[i]] = "waiting"
  /\ \A i, j \in 1..Len(queue) : queue[i] = queue[j] => i = j
  /\ \A c \in Calls : call[c] \in {"select", "waiting"} => native[c] = "none"

(* The holders are finitely many, so taking and leaving are counted.       *)
LEMMA HoldingFinite == IsFiniteSet(Holding) /\ IsFiniteSet(Running)
  BY FS_Subset, Holding \subseteq Calls, Running \subseteq Calls DEF Holding, Running

(* One more holder.                                                        *)
LEMMA TakeSlot ==
  ASSUME IsFiniteSet(Holding), NEW c \in Calls, c \notin Holding,
         Holding' = Holding \cup {c}
  PROVE  Cardinality(Holding)' = Cardinality(Holding) + 1
  BY FS_AddElement

(* One holder less.                                                        *)
LEMMA LeaveSlot ==
  ASSUME IsFiniteSet(Holding), NEW c \in Holding, Holding' = Holding \ {c}
  PROVE  Cardinality(Holding)' = Cardinality(Holding) - 1
  BY FS_RemoveElement

(* A slot that changes hands.                                              *)
LEMMA HandOver ==
  ASSUME IsFiniteSet(Holding), NEW c \in Holding, NEW h, h \notin Holding,
         Holding' = (Holding \ {c}) \cup {h}
  PROVE  Cardinality(Holding)' = Cardinality(Holding)
<1>1. Cardinality(Holding \ {c}) = Cardinality(Holding) - 1 /\ IsFiniteSet(Holding \ {c})
  BY FS_RemoveElement
<1>2. Cardinality(Holding') = Cardinality(Holding \ {c}) + 1
  BY <1>1, FS_AddElement
<1>3. Cardinality(Holding) \in Nat
  BY FS_CardinalityType
<1> QED
  BY <1>1, <1>2, <1>3

(* The invariant holds before the first request.                           *)
LEMMA InitSlots == Init => SlotInv
<1> SUFFICES ASSUME Init PROVE SlotInv
  OBVIOUS
<1>1. Holding = {}
  BY DEF Init, Holding
<1>2. Cardinality(Holding) = 0
  BY <1>1, FS_EmptySet
<1> QED
  BY <1>2 DEF Init, SlotInv, TypeOK

(* Every step of a caller or a goroutine keeps it.                         *)
LEMMA StepSlots == SlotInv /\ [Next]_vars => SlotInv'
<1> SUFFICES ASSUME SlotInv, [Next]_vars PROVE SlotInv'
  OBVIOUS
<1>0. IsFiniteSet(Holding) /\ Cardinality(Holding) \in Nat
  BY HoldingFinite, FS_CardinalityType
<1>1. ASSUME NEW c \in Calls, Arrive(c) PROVE SlotInv'
  <2>1. Holding' = Holding
    BY <1>1 DEF Arrive, Holding
  <2> QED
    BY <1>1, <2>1 DEF Arrive, SlotInv, TypeOK
<1>2. ASSUME NEW c \in Calls, Acquire(c) PROVE SlotInv'
  <2>1. Holding' = Holding \cup {c} /\ c \notin Holding
    BY <1>2 DEF Acquire, Search, Holding, SlotInv, TypeOK
  <2>2. Cardinality(Holding)' = Cardinality(Holding) + 1
    BY <1>0, <2>1, TakeSlot
  <2>3. queue = <<>>
    BY <1>2 DEF Acquire, SlotInv, TypeOK
  <2> QED
    BY <1>0, <1>2, <2>2, <2>3 DEF Acquire, Search, SlotInv, TypeOK
<1>3. ASSUME NEW c \in Calls, Park(c) PROVE SlotInv'
  <2>1. Holding' = Holding
    BY <1>3 DEF Park, Holding
  <2>2. queue' \in Seq(Calls) /\ Len(queue') = Len(queue) + 1
        /\ \A i \in 1..Len(queue') : queue'[i] = IF i = Len(queue) + 1 THEN c ELSE queue[i]
    BY <1>3 DEF Park, SlotInv, TypeOK
  <2>3. \A i \in 1..Len(queue) : queue[i] # c
    BY <1>3 DEF Park, SlotInv
  <2>4. TypeOK'
    BY <1>3, <2>2 DEF Park, SlotInv, TypeOK
  <2>5. \A i \in 1..Len(queue') : call'[queue'[i]] = "waiting"
    BY <1>3, <2>2 DEF Park, SlotInv, TypeOK
  <2>6. \A i, j \in 1..Len(queue') : queue'[i] = queue'[j] => i = j
    BY <2>2, <2>3 DEF SlotInv, TypeOK
  <2>7. slots' = MaxConcurrent /\ slots' = Cardinality(Holding)'
    BY <1>3, <2>1 DEF Park, SlotInv
  <2>8. \A x \in Calls : call'[x] \in {"select", "waiting"} => native'[x] = "none"
    BY <1>3 DEF Park, SlotInv, TypeOK
  <2> QED
    BY <2>4, <2>5, <2>6, <2>7, <2>8 DEF SlotInv
<1>4. ASSUME NEW c \in Calls, GiveUp(c) PROVE SlotInv'
  <2>1. Holding' = Holding
    BY <1>4 DEF GiveUp, Holding
  <2>2. CASE call[c] = "waiting"
    <3>1. PICK i \in 1..Len(queue) : queue[i] = c /\
            queue' = [j \in 1..(Len(queue) - 1) |-> IF j < i THEN queue[j] ELSE queue[j + 1]]
      BY <1>4, <2>2 DEF GiveUp
    <3>2. Len(queue) \in Nat /\ queue \in [1..Len(queue) -> Calls]
      BY DEF SlotInv, TypeOK
    <3>3. queue' \in Seq(Calls) /\ Len(queue') = Len(queue) - 1
      BY SMTT(30), <3>1, <3>2
    <3>4. \A j \in 1..Len(queue') : \E k \in 1..Len(queue) :
            queue'[j] = queue[k] /\ k # i /\ k = IF j < i THEN j ELSE j + 1
      <4> SUFFICES ASSUME NEW j \in 1..Len(queue')
                   PROVE  \E k \in 1..Len(queue) :
                            queue'[j] = queue[k] /\ k # i /\ k = IF j < i THEN j ELSE j + 1
        OBVIOUS
      <4>1. j \in 1..(Len(queue) - 1) /\ j \in Nat /\ i \in Nat
        BY <3>2, <3>3
      <4>2. queue'[j] = IF j < i THEN queue[j] ELSE queue[j + 1]
        BY <3>1, <4>1
      <4>3. CASE j < i
        BY <3>2, <4>1, <4>2, <4>3
      <4>4. CASE ~(j < i)
        BY <3>2, <4>1, <4>2, <4>4
      <4> QED
        BY <4>3, <4>4
    <3>5. \A j \in 1..Len(queue') : queue'[j] # c /\ call[queue'[j]] = "waiting"
      BY <3>1, <3>4 DEF SlotInv
    <3>6. \A j \in 1..Len(queue') : call'[queue'[j]] = "waiting"
      BY <1>4, <3>3, <3>5 DEF GiveUp, SlotInv, TypeOK
    <3>7. \A j, k \in 1..Len(queue') : queue'[j] = queue'[k] => j = k
      BY <3>1, <3>2, <3>3, <3>4 DEF SlotInv
    <3>8. queue' # <<>> => slots' = MaxConcurrent
      <4>1. queue # <<>>
        BY <3>1, <3>2
      <4> QED
        BY <1>4, <4>1 DEF GiveUp, SlotInv
    <3>9. TypeOK' /\ slots' = Cardinality(Holding)'
      BY <1>4, <2>1, <3>3 DEF GiveUp, SlotInv, TypeOK
    <3>10. \A x \in Calls : call'[x] \in {"select", "waiting"} => native'[x] = "none"
      BY <1>4 DEF GiveUp, SlotInv, TypeOK
    <3> QED
      BY <3>6, <3>7, <3>8, <3>9, <3>10 DEF SlotInv
  <2>3. CASE call[c] # "waiting"
    BY <1>4, <2>1, <2>3 DEF GiveUp, SlotInv, TypeOK
  <2> QED
    BY <2>2, <2>3
<1>5. ASSUME NEW c \in Calls, Answer(c) PROVE SlotInv'
  <2>1. Holding' = Holding
    BY <1>5 DEF Answer, Holding
  <2> QED
    BY <1>5, <2>1 DEF Answer, SlotInv, TypeOK
<1>6. ASSUME NEW c \in Calls, Expire(c) PROVE SlotInv'
  <2>1. Holding' = Holding
    BY <1>6 DEF Expire, Holding
  <2> QED
    BY <1>6, <2>1 DEF Expire, SlotInv, TypeOK
<1>7. ASSUME NEW c \in Calls, NativeReturn(c) PROVE SlotInv'
  <2>1. Holding' = Holding
    BY <1>7 DEF NativeReturn, Holding, SlotInv, TypeOK
  <2> QED
    BY <1>7, <2>1 DEF NativeReturn, SlotInv, TypeOK
<1>8. ASSUME NEW c \in Calls, Release(c) PROVE SlotInv'
  <2>0. c \in Holding /\ Cardinality(Holding) # 0
    <3>1. c \in Holding
      BY <1>8 DEF Release, Holding
    <3> QED
      BY <1>0, <3>1, FS_EmptySet
  <2>1. CASE queue = <<>>
    <3>1. Holding' = Holding \ {c}
      BY <1>8, <2>1 DEF Release, Holding, SlotInv, TypeOK
    <3>2. Cardinality(Holding)' = Cardinality(Holding) - 1
      BY <1>0, <2>0, <3>1, LeaveSlot
    <3> QED
      BY <1>0, <1>8, <2>0, <2>1, <3>2 DEF Release, SlotInv, TypeOK
  <2>2. CASE queue # <<>>
    <3> DEFINE h == Head(queue)
    <3>0. queue \in Seq(Calls) /\ queue # <<>> /\ queue' = Tail(queue)
      BY <1>8, <2>2 DEF Release, SlotInv, TypeOK
    <3>1. /\ h \in Calls /\ h = queue[1] /\ Len(queue) \in Nat \ {0}
          /\ queue' \in Seq(Calls) /\ Len(queue') = Len(queue) - 1
          /\ \A j \in 1..Len(queue') : queue'[j] = queue[j + 1]
      <4>1. Len(queue) \in Nat \ {0} /\ h = queue[1] /\ h \in Calls
        BY <3>0
      <4>2. queue' \in Seq(Calls) /\ Len(queue') = Len(queue) - 1
        BY <3>0
      <4>3. \A j \in 1..Len(queue') : queue'[j] = queue[j + 1]
        BY <3>0, <4>1, <4>2
      <4> QED
        BY <4>1, <4>2, <4>3
    <3>2. call[h] = "waiting" /\ native[h] = "none" /\ native[c] = "returned" /\ h # c
      <4>1. 1 \in 1..Len(queue) /\ native[c] = "returned"
        BY <1>8, <3>1 DEF Release
      <4>2. call[h] = "waiting"
        BY <3>1, <4>1 DEF SlotInv
      <4> QED
        BY <3>1, <4>1, <4>2 DEF SlotInv
    <3> HIDE DEF h
    <3>3. /\ call' = [call EXCEPT ![h] = "searching"]
          /\ native' = [native EXCEPT ![c] = "released", ![h] = "running"]
          /\ UNCHANGED <<expired, done, slots>>
      BY <1>8, <2>2 DEF Release, h
    <3>4. Holding' = (Holding \ {c}) \cup {h} /\ h \notin Holding
      BY <3>1, <3>2, <3>3 DEF Holding, SlotInv, TypeOK
    <3>5. Cardinality(Holding)' = Cardinality(Holding)
      BY <1>0, <2>0, <3>4, HandOver
    <3>6. \A j \in 1..Len(queue') : queue'[j] # h /\ call[queue'[j]] = "waiting"
      BY <3>1 DEF SlotInv
    <3>7. \A j \in 1..Len(queue') : call'[queue'[j]] = "waiting"
      BY <3>1, <3>3, <3>6 DEF SlotInv, TypeOK
    <3>8. \A j, k \in 1..Len(queue') : queue'[j] = queue'[k] => j = k
      BY <3>1 DEF SlotInv
    <3>9. TypeOK'
      BY <3>1, <3>3 DEF SlotInv, TypeOK
    <3>10. \A x \in Calls : call'[x] \in {"select", "waiting"} => native'[x] = "none"
      BY <1>8, <3>1, <3>3 DEF Release, SlotInv, TypeOK
    <3> QED
      BY <2>2, <3>3, <3>5, <3>7, <3>8, <3>9, <3>10 DEF SlotInv
  <2> QED
    BY <2>1, <2>2
<1>9. ASSUME NEW c \in Calls, Send(c) PROVE SlotInv'
  <2>1. Holding' = Holding
    BY <1>9 DEF Send, Holding, SlotInv, TypeOK
  <2> QED
    BY <1>9, <2>1 DEF Send, SlotInv, TypeOK
<1>10. CASE UNCHANGED vars
  <2>1. Holding' = Holding
    BY <1>10 DEF vars, Holding
  <2> QED
    BY <1>10, <2>1 DEF vars, SlotInv, TypeOK
<1> QED
  BY <1>1, <1>2, <1>3, <1>4, <1>5, <1>6, <1>7, <1>8, <1>9, <1>10 DEF Next

(***************************************************************************)
(* However many requests arrive, time out or are abandoned, at most        *)
(* MaxConcurrent native searches run (runSearch, main.go:851).             *)
(***************************************************************************)
THEOREM SearchesBounded == Spec => []NativeBounded
<1>1. SlotInv => NativeBounded
  <2> SUFFICES ASSUME SlotInv PROVE NativeBounded
    OBVIOUS
  <2>1. Cardinality(Running) <= Cardinality(Holding)
    BY HoldingFinite, FS_Subset, Running \subseteq Holding DEF Running, Holding
  <2>2. Cardinality(Running) \in Nat /\ Cardinality(Holding) \in 0..MaxConcurrent
    BY HoldingFinite, FS_CardinalityType DEF SlotInv, TypeOK
  <2> QED
    BY <2>1, <2>2 DEF NativeBounded
<1> QED
  BY InitSlots, StepSlots, <1>1, PTL DEF Spec

(* No slot is lost or left idle while a caller is blocked on it.           *)
THEOREM SlotsUsed == Spec => []NoSlotIdle
<1>1. SlotInv => NoSlotIdle
  BY DEF SlotInv, NoSlotIdle
<1> QED
  BY InitSlots, StepSlots, <1>1, PTL DEF Spec
=============================================================================
