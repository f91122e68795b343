----------------------------- MODULE CacheProofs -----------------------------
(***************************************************************************)
(* For every number of readers, blocks, fetches and files: a read of the   *)
(* block cache that answers has all its blocks, the in-flight map names no *)
(* fetch whose owner is gone, and a process that has the cache directory   *)
(* to itself keeps exact books and its cap.                                *)
(***************************************************************************)
EXTENDS BlockCache, CacheSpace, FiniteSetTheorems, WellFoundedInduction, TLAPS

(* Reads (BlockCache). *)

FlightType == [step : {"get", "meta", "put", "done", "failed"}, lo : Nat, hi : Nat, next : Nat]

ReadTypes ==
  /\ pc \in [Readers -> Steps]
  /\ span \in [Readers -> [lo : Blocks, hi : Blocks, next : Nat, share : BOOLEAN]]
  /\ known \in [Readers -> BOOLEAN] /\ DOMAIN got = Readers
  /\ own \in [Readers -> Flights \cup {NoFlight}]
  /\ DOMAIN inflight = Blocks /\ meta \in BOOLEAN
  /\ flight \in [Flights -> FlightType]

(* A range is not empty once it is read, and a reader that has a block     *)
(* knows the metadata.                                                     *)
RangeOK(r) ==
  /\ pc[r] # "idle" => span[r].lo <= span[r].hi
  /\ pc[r] \in {"idle", "warm", "meta"} => got[r] = {}
  /\ pc[r] = "blocks" \/ got[r] # {} => known[r]

(* A direct fetch is its reader's own, for all that it misses.             *)
DirectCovers(r) ==
  pc[r] = "direct" =>
     own[r] \in Flights /\ Missing(r) \subseteq flight[own[r]].lo .. flight[own[r]].hi

Whole(r) == pc[r] = "answered" => known[r] /\ Wanted(r) \cap Stored \subseteq got[r]

ReadInv == ReadTypes /\ \A r \in Readers : RangeOK(r) /\ DirectCovers(r) /\ Whole(r)

-----------------------------------------------------------------------------
(* A nonempty set of numbers has a least one.                              *)
LEMMA LeastNat ==
  ASSUME NEW S, S \subseteq Nat, S # {}
  PROVE  \E x \in S : \A y \in S : x <= y
<1> DEFINE R == OpToRel(<, Nat)
<1>1. IsWellFoundedOn(R, Nat)
  BY NatLessThanWellFounded, Zenon
<1> HIDE DEF R
<1>2. PICK x \in S : \A y \in S : ~(<<y, x>> \in R)
  BY <1>1, WFMin, Zenon
<1>3. \A y \in S : y < x => <<y, x>> \in R
  BY DEF R, OpToRel
<1>4. \A y \in S : ~(y < x)
  BY <1>2, <1>3, Zenon
<1> QED
  BY <1>4, SMT

(* What lies between the first and the last block of a set.                *)
LEMMA Span ==
  ASSUME NEW S, S \subseteq Blocks, S # {}
  PROVE  S \subseteq Low(S) .. High(S) /\ Low(S) \in S /\ High(S) \in S
<1>0. LastBlock \in Nat /\ S \subseteq Nat /\ \A b \in S : b <= LastBlock
  BY CacheAssumption DEF Blocks
<1>1. Low(S) \in S /\ \A c \in S : Low(S) <= c
  <2>1. \E b \in S : \A c \in S : b <= c
    BY <1>0, LeastNat
  <2> QED
    BY <2>1 DEF Low
<1>2. High(S) \in S /\ \A c \in S : High(S) >= c
  <2> DEFINE below == {n \in Nat : \E b \in S : n + b = LastBlock}
  <2>1. below # {}
    <3>1. PICK b \in S : TRUE
      OBVIOUS
    <3>2. LastBlock - b \in below
      BY <1>0, <3>1
    <3> QED
      BY <3>2
  <2>2. PICK n \in below : \A k \in below : n <= k
    BY <2>1, LeastNat
  <2>3. PICK b \in S : n + b = LastBlock
    BY <2>2
  <2>4. \A c \in S : b >= c
    <3> SUFFICES ASSUME NEW c \in S PROVE b >= c
      OBVIOUS
    <3>1. LastBlock - c \in below
      BY <1>0
    <3>2. n <= LastBlock - c
      BY <2>2, <3>1
    <3> QED
      BY <1>0, <2>3, <3>2
  <2> HIDE DEF below
  <2> QED
    BY <2>4 DEF High
<1> QED
  BY <1>0, <1>1, <1>2

LEMMA FreshFlight ==
  ASSUME Free # {}
  PROVE  Fresh \in Flights /\ ~Live(Fresh)
  BY DEF Free, Fresh

-----------------------------------------------------------------------------
(* A step is one of one reader, or changes no reader.                      *)
LEMMA ReaderFrame ==
  ASSUME ReadTypes, [Next]_vars, NEW s \in Readers
  PROVE  \/ Begin(s) \/ Run(s) \/ Drop(s)
         \/ UNCHANGED <<pc[s], span[s], known[s], got[s], own[s]>>
<1> USE DEF ReadTypes
<1>1. ASSUME NEW r \in Readers, r # s, Begin(r) \/ Run(r) \/ Drop(r)
      PROVE  UNCHANGED <<pc[s], span[s], known[s], got[s], own[s]>>
  <2>1. CASE Begin(r) \/ Drop(r) \/ WarmChunk(r) \/ ReadMeta(r) \/ ReadBlock(r) \/ Return(r)
    BY <1>1, <2>1 DEF Begin, Drop, WarmChunk, ReadMeta, ReadBlock, Return, Goto, reads
  <2>2. CASE Join(r)
    BY <1>1, <2>2 DEF Join, StartFetch, Goto, reads
  <2>3. CASE OwnDone(r) \/ WaitDone(r)
    BY <1>1, <2>3 DEF OwnDone, WaitDone, Fill, After, Goto
  <2>4. CASE DirectDone(r)
    BY <1>1, <2>4 DEF DirectDone, Fill, Goto
  <2> QED
    BY <1>1, <2>1, <2>2, <2>3, <2>4 DEF Run
<1>2. CASE (\E f \in Flights : Poll(f)) \/ Evict \/ Invalidate \/ Delete \/ UNCHANGED vars
  BY <1>2 DEF Poll, Evict, Invalidate, Delete, vars, reads
<1> QED
  BY <1>1, <1>2 DEF Next

(* A fetch that goes on keeps its range.                                   *)
LEMMA PollKeeps ==
  ASSUME ReadTypes, NEW f \in Flights, Poll(f)
  PROVE  /\ flight' \in [Flights -> FlightType]
         /\ \A g \in Flights : flight'[g].lo = flight[g].lo /\ flight'[g].hi = flight[g].hi
<1> USE DEF ReadTypes, FlightType
<1>1. ASSUME NEW step \in {"get", "meta", "put", "done", "failed"}, NEW next \in Nat,
             flight' = [flight EXCEPT ![f].next = next, ![f].step = step]
             \/ flight' = [flight EXCEPT ![f].step = step]
      PROVE  /\ flight' \in [Flights -> FlightType]
             /\ \A g \in Flights : flight'[g].lo = flight[g].lo /\ flight'[g].hi = flight[g].hi
  <2>1. CASE flight' = [flight EXCEPT ![f].step = step]
    BY <2>1
  <2>2. CASE flight' = [flight EXCEPT ![f].next = next, ![f].step = step]
    BY ZenonT(30), <2>2
  <2> QED
    BY <1>1, <2>1, <2>2
<1>2. CASE Request(f)
  <2>1. \E step \in {"meta", "failed"} : flight' = [flight EXCEPT ![f].step = step]
    BY <1>2 DEF Request, Advance
  <2> QED
    BY <1>1, <2>1
<1>3. CASE FetchMeta(f)
  <2>1. \E step \in {"put", "failed"} : flight' = [flight EXCEPT ![f].step = step]
    BY <1>3 DEF FetchMeta, Advance
  <2> QED
    BY <1>1, <2>1
<1>4. CASE PutBlock(f)
  <2>1. flight[f].next + 1 \in Nat
    OBVIOUS
  <2>2. \E step \in {"put", "done"} :
          flight' = [flight EXCEPT ![f].next = flight[f].next + 1, ![f].step = step]
    BY <1>4 DEF PutBlock
  <2> QED
    BY <1>1, <2>1, <2>2
<1> QED
  BY <1>2, <1>3, <1>4 DEF Poll

LEMMA ReadTypesStep ==
  ASSUME ReadTypes, [Next]_vars
  PROVE  ReadTypes'
<1> USE DEF ReadTypes, Steps
<1>0. Landed \in FlightType
  BY DEF Landed, FlightType
<1>1. ASSUME NEW r \in Readers, Begin(r) \/ Drop(r) \/ Return(r) PROVE ReadTypes'
  <2>1. NoSpan \in [lo : Blocks, hi : Blocks, next : Nat, share : BOOLEAN]
    BY CacheAssumption DEF NoSpan, Blocks
  <2>2. Blocks \subseteq Nat /\ Starts \subseteq Blocks
    BY CacheAssumption DEF Blocks
  <2>3. CASE Begin(r)
    <3>1. PICK lo \in Blocks, hi \in Blocks, share \in BOOLEAN :
            /\ span' = [span EXCEPT ![r] = [lo |-> lo, hi |-> hi, next |-> lo, share |-> share]]
            /\ Goto(r, IF share THEN "meta" ELSE "warm")
      BY <2>2, <2>3 DEF Begin
    <3>2. span' \in [Readers -> [lo : Blocks, hi : Blocks, next : Nat, share : BOOLEAN]]
      BY <2>2, <3>1
    <3> QED
      BY <2>3, <3>1, <3>2 DEF Begin, Goto, cache
  <2>4. CASE Drop(r)
    BY <1>0, <2>4 DEF Drop, Goto, DropUnused, Keep, reads, cache
  <2>5. CASE Return(r)
    BY <2>1, <2>5 DEF Return, Goto, cache
  <2> QED
    BY <1>1, <2>3, <2>4, <2>5
<1>2. ASSUME NEW r \in Readers, WarmChunk(r) \/ ReadMeta(r) \/ ReadBlock(r) PROVE ReadTypes'
  <2>1. CASE WarmChunk(r)
    BY <2>1 DEF WarmChunk, Goto, reads
  <2>2. CASE ReadMeta(r)
    <3>1. span[r].lo \in Nat /\ Size \in Nat
      BY CacheAssumption DEF Blocks
    <3> QED
      BY <2>2, <3>1 DEF ReadMeta, Goto, cache
  <2>3. CASE ReadBlock(r)
    BY <2>3 DEF ReadBlock, Goto, cache
  <2> QED
    BY <1>2, <2>1, <2>2, <2>3
<1>3. ASSUME NEW r \in Readers, Join(r) PROVE ReadTypes'
  <2>1. /\ UNCHANGED <<meta, span, known, got>> /\ pc' \in [Readers -> Steps]
    BY <1>3 DEF Join, Goto, cache, reads
  <2>2. ASSUME NEW lo \in 0 .. Low(Missing(r)), Missing(r) # {}, Free # {},
               StartFetch(r, Fresh, lo, High(Missing(r)))
        PROVE  ReadTypes'
    <3>1. Missing(r) \subseteq Blocks /\ Blocks \subseteq Nat
      BY CacheAssumption DEF Missing, Wanted, Blocks
    <3>2. lo \in Nat /\ High(Missing(r)) \in Nat
      BY <2>2, <3>1, Span
    <3>3. /\ own' \in [Readers -> Flights \cup {NoFlight}] /\ DOMAIN inflight' = Blocks
          /\ flight' \in [Flights -> FlightType]
      BY <2>2, <3>2, FreshFlight DEF StartFetch, NewFetch, FlightType
    <3> QED
      BY <2>1, <3>3
  <2> QED
    BY <1>3, <2>1, <2>2 DEF Join
<1>4. ASSUME NEW r \in Readers, After(r),
             span' \in [Readers -> [lo : Blocks, hi : Blocks, next : Nat, share : BOOLEAN]]
      PROVE  /\ pc' \in [Readers -> Steps] /\ own' \in [Readers -> Flights \cup {NoFlight}]
             /\ flight' \in [Flights -> FlightType]
  <2>1. CASE DropUnused /\ Goto(r, "answered") /\ own' = [own EXCEPT ![r] = NoFlight]
    BY <1>0, <2>1 DEF Goto, Keep, DropUnused
  <2>2. CASE /\ Missing(r)' # {} /\ Free # {} /\ Goto(r, "direct")
             /\ own' = [own EXCEPT ![r] = Fresh]
             /\ Keep([flight EXCEPT ![Fresh] = NewFetch(Low(Missing(r)'), High(Missing(r)'))])
    <3>1. Missing(r)' \subseteq Blocks /\ Blocks \subseteq Nat
      BY <1>4, CacheAssumption DEF Missing, Wanted, Blocks
    <3>2. Low(Missing(r)') \in Nat /\ High(Missing(r)') \in Nat
      BY <2>2, <3>1, Span
    <3> QED
      BY <1>0, <2>2, <3>2, FreshFlight DEF Goto, Keep, NewFetch, FlightType
  <2> QED
    BY <1>4, <2>1, <2>2 DEF After
<1>5. ASSUME NEW r \in Readers, NEW f, Fill(r, f)
      PROVE  known' \in [Readers -> BOOLEAN] /\ DOMAIN got' = Readers
  BY <1>5 DEF Fill
<1>6. ASSUME NEW r \in Readers, OwnDone(r) \/ WaitDone(r) PROVE ReadTypes'
  <2>1. CASE OwnDone(r)
    <3>1. Fill(r, own[r]) /\ After(r) /\ UNCHANGED <<span, meta>> /\ DOMAIN inflight' = Blocks
      BY <2>1 DEF OwnDone, cache, Unpublish
    <3> QED
      BY <1>4, <1>5, <3>1
  <2>2. CASE WaitDone(r)
    <3>1. /\ Fill(r, Head(waits[r])) /\ UNCHANGED <<span, meta, inflight>>
          /\ After(r) \/ (UNCHANGED <<pc, own>> /\ DropUnused)
      BY <2>2 DEF WaitDone, cache
    <3> QED
      BY <1>0, <1>4, <1>5, <3>1 DEF DropUnused, Keep
  <2> QED
    BY <1>6, <2>1, <2>2
<1>7. ASSUME NEW r \in Readers, DirectDone(r) PROVE ReadTypes'
  BY <1>0, <1>5, <1>7 DEF DirectDone, Goto, DropUnused, Keep, cache
<1>8. ASSUME NEW f \in Flights, Poll(f) PROVE ReadTypes'
  BY <1>8, PollKeeps DEF Poll, Request, FetchMeta, PutBlock, reads
<1>9. CASE Evict \/ Invalidate \/ Delete \/ UNCHANGED vars
  BY <1>9 DEF Evict, Invalidate, Delete, vars, cache, reads
<1> QED
  BY <1>1, <1>2, <1>3, <1>6, <1>7, <1>8, <1>9 DEF Next, Run

-----------------------------------------------------------------------------
(* What a reader knows.                                                    *)
LEMMA RangeOKStep ==
  ASSUME ReadTypes, [Next]_vars, NEW r \in Readers, RangeOK(r)
  PROVE  RangeOK(r)'
<1> USE DEF ReadTypes, RangeOK, Steps
<1>1. CASE UNCHANGED <<pc[r], span[r], known[r], got[r], own[r]>>
  BY <1>1
<1>2. CASE Begin(r)
  BY <1>2 DEF Begin, Goto
<1>3. CASE Drop(r)
  BY <1>3 DEF Drop, Goto, reads
<1>4. CASE WarmChunk(r) \/ ReadMeta(r) \/ Return(r)
  BY <1>4 DEF WarmChunk, ReadMeta, Return, Goto, reads
<1>5. CASE ReadBlock(r)
  BY <1>5 DEF ReadBlock, Goto
<1>6. CASE Join(r)
  BY <1>6 DEF Join, Goto, reads
<1>7. ASSUME NEW f, Fill(r, f), UNCHANGED span, pc[r] \in {"own", "wait", "direct"},
             pc'[r] \in {"answered", "direct", "wait", "failed"}
      PROVE  RangeOK(r)'
  BY <1>7 DEF Fill, Delivered
<1>8. CASE OwnDone(r) \/ WaitDone(r) \/ DirectDone(r)
  <2>1. After(r) => pc'[r] \in {"answered", "direct"}
    BY DEF After, Goto
  <2> QED
    BY <1>7, <1>8, <2>1 DEF OwnDone, WaitDone, DirectDone, Goto
<1> QED
  BY <1>1, <1>2, <1>3, <1>4, <1>5, <1>6, <1>8, ReaderFrame DEF Run

-----------------------------------------------------------------------------
LEMMA OwnLives ==
  ASSUME NEW s \in Readers
  PROVE  own[s] \notin Free
  BY DEF Free, Live, Keep

(* The fetch that a reader refers to is not replaced, and keeps its range. *)
LEMMA FlightKept ==
  ASSUME ReadTypes, [Next]_vars, NEW s \in Readers, own[s] \in Flights, own'[s] = own[s]
  PROVE  UNCHANGED <<flight[own[s]].lo, flight[own[s]].hi>>
<1> DEFINE f == own[s]
<1> USE DEF ReadTypes
<1>1. f \notin Free
  BY OwnLives
<1>2. Free # {} => Fresh # f
  BY <1>1 DEF Fresh
<1>3. DropUnused => flight'[f] = flight[f]
  BY DEF DropUnused, Keep, Live
<1>4. ASSUME NEW r \in Readers, After(r) PROVE flight'[f] = flight[f]
  BY <1>2, <1>4 DEF After, DropUnused, Keep, Live
<1>5. ASSUME NEW r \in Readers, Begin(r) \/ Run(r) \/ Drop(r) PROVE flight'[f] = flight[f]
  <2>1. CASE Begin(r) \/ WarmChunk(r) \/ ReadMeta(r) \/ ReadBlock(r) \/ Return(r)
    BY <2>1 DEF Begin, WarmChunk, ReadMeta, ReadBlock, Return
  <2>2. CASE Join(r)
    <3>1. UNCHANGED flight \/ (Free # {} /\ \E new : flight' = [flight EXCEPT ![Fresh] = new])
      BY <2>2 DEF Join, StartFetch
    <3> QED
      BY <1>2, <3>1
  <2>3. CASE OwnDone(r) \/ WaitDone(r) \/ DirectDone(r) \/ Drop(r)
    BY <1>3, <1>4, <2>3 DEF OwnDone, WaitDone, DirectDone, Drop
  <2> QED
    BY <1>5, <2>1, <2>2, <2>3 DEF Run
<1>6. ASSUME NEW g \in Flights, Poll(g)
      PROVE  flight'[f].lo = flight[f].lo /\ flight'[f].hi = flight[f].hi
  BY <1>6, PollKeeps
<1>7. CASE Evict \/ Invalidate \/ Delete \/ UNCHANGED vars
  BY <1>7 DEF Evict, Invalidate, Delete, vars
<1> QED
  BY <1>5, <1>6, <1>7 DEF Next

(* What is missing after a step of the reader itself.                      *)
LEMMA AfterDirect ==
  ASSUME ReadTypes, ReadTypes', NEW r \in Readers, After(r)
  PROVE  DirectCovers(r)' /\ (pc'[r] = "answered" => Missing(r)' = {})
<1> USE DEF ReadTypes
<1>1. CASE Missing(r)' = {} /\ Goto(r, "answered")
  BY <1>1 DEF DirectCovers, Goto
<1>2. CASE /\ Missing(r)' # {} /\ Free # {} /\ Goto(r, "direct")
           /\ own' = [own EXCEPT ![r] = Fresh]
           /\ Keep([flight EXCEPT ![Fresh] = NewFetch(Low(Missing(r)'), High(Missing(r)'))])
  <2>1. Missing(r)' \subseteq Blocks
    BY CacheAssumption DEF Missing, Wanted, Blocks
  <2>2. Missing(r)' \subseteq Low(Missing(r)') .. High(Missing(r)')
    BY <1>2, <2>1, Span
  <2>3. Fresh \in Flights /\ own'[r] = Fresh
    BY <1>2, FreshFlight
  <2>4. flight'[Fresh] = NewFetch(Low(Missing(r)'), High(Missing(r)'))
    BY <1>2, <2>3 DEF Keep, Live
  <2> QED
    BY <1>2, <2>2, <2>3, <2>4 DEF DirectCovers, NewFetch, Goto
<1> QED
  BY <1>1, <1>2 DEF After

LEMMA MetaLeads ==
  ASSUME ReadTypes, NEW r \in Readers, ReadMeta(r)
  PROVE  pc'[r] \in {"failed", "blocks", "join"}
<1>1. span[r].lo \in Nat /\ Size \in Nat
  BY CacheAssumption DEF ReadTypes, Blocks
<1> QED
  BY <1>1 DEF ReadTypes, ReadMeta, Goto

LEMMA DirectCoversStep ==
  ASSUME ReadTypes, ReadTypes', [Next]_vars, NEW r \in Readers, DirectCovers(r)
  PROVE  DirectCovers(r)'
<1> USE DEF ReadTypes
<1>1. CASE UNCHANGED <<pc[r], span[r], known[r], got[r], own[r]>>
  <2>1. Missing(r)' = Missing(r)
    BY <1>1 DEF Missing, Wanted
  <2> QED
    BY <1>1, <2>1, FlightKept DEF DirectCovers
<1>2. CASE pc'[r] # "direct"
  BY <1>2 DEF DirectCovers
<1>3. CASE OwnDone(r) \/ WaitDone(r)
  BY <1>2, <1>3, AfterDirect DEF OwnDone, WaitDone
<1>4. Begin(r) \/ Drop(r) \/ WarmChunk(r) \/ ReadMeta(r) \/ ReadBlock(r) \/ Join(r)
      \/ DirectDone(r) \/ Return(r) => pc'[r] # "direct"
  BY MetaLeads DEF Begin, Drop, WarmChunk, ReadBlock, Join, DirectDone, Return, Goto
<1> QED
  BY <1>1, <1>2, <1>3, <1>4, ReaderFrame DEF Run

(* A direct fetch that succeeds leaves nothing missing.                    *)
LEMMA DirectWhole ==
  ASSUME ReadTypes, NEW r \in Readers, DirectCovers(r), DirectDone(r)
  PROVE  Whole(r)'
<1> USE DEF ReadTypes
<1>1. pc[r] = "direct" /\ Fill(r, own[r]) /\ UNCHANGED span
      /\ pc' = [pc EXCEPT ![r] = IF flight[own[r]].step = "done" THEN "answered" ELSE "failed"]
  BY DEF DirectDone, Goto
<1>2. CASE flight[own[r]].step = "done"
  <2>1. known'[r] /\ got'[r] = got[r] \cup (Delivered(own[r]) \cap Wanted(r))
    BY <1>1, <1>2 DEF Fill
  <2>2. Wanted(r) \cap Stored \subseteq got[r] \cup Missing(r)
    BY CacheAssumption DEF Missing, Stored
  <2>3. Missing(r) \cap Stored \subseteq Delivered(own[r])
    BY <1>1, <1>2 DEF DirectCovers, Delivered
  <2>4. Wanted(r)' = Wanted(r)
    BY <1>1 DEF Wanted
  <2> QED
    BY <2>1, <2>2, <2>3, <2>4 DEF Whole
<1>3. CASE flight[own[r]].step # "done"
  BY <1>1, <1>3 DEF Whole
<1> QED
  BY <1>2, <1>3

LEMMA WholeStep ==
  ASSUME ReadTypes, ReadTypes', [Next]_vars,
         NEW r \in Readers, RangeOK(r)', DirectCovers(r), Whole(r)
  PROVE  Whole(r)'
<1> USE DEF ReadTypes
<1>1. CASE UNCHANGED <<pc[r], span[r], known[r], got[r], own[r]>>
  BY <1>1 DEF Whole, Wanted
<1>2. CASE Missing(r)' = {} /\ pc'[r] = "answered"
  <2>1. Size \in Nat /\ span'[r].lo \in Nat /\ span'[r].hi \in Nat
    BY CacheAssumption DEF Blocks
  <2>2. span'[r].lo \in Wanted(r)'
    BY <1>2, <2>1 DEF RangeOK, Wanted
  <2>3. known'[r]
    <3>1. CASE got'[r] = {} /\ ~known'[r]
      BY <1>2, <2>2, <3>1 DEF Missing
    <3> QED
      BY <3>1 DEF RangeOK
  <2>4. \A b \in Stored : b < Size
    BY <2>1 DEF Stored
  <2> QED
    BY <1>2, <2>3, <2>4 DEF Missing, Whole
<1>3. CASE pc'[r] # "answered"
  BY <1>3 DEF Whole
<1>4. CASE DirectDone(r)
  BY <1>4, DirectWhole
<1>5. CASE OwnDone(r) \/ WaitDone(r)
  BY <1>2, <1>3, <1>5, AfterDirect DEF OwnDone, WaitDone
<1>6. CASE Join(r)
  <2>1. Missing(r) = {} => Missing(r)' = {}
    BY <1>6 DEF Join, Missing, Wanted, reads
  <2> QED
    BY <1>2, <1>3, <1>6, <2>1 DEF Join, Goto
<1>7. Begin(r) \/ Drop(r) \/ WarmChunk(r) \/ ReadMeta(r) \/ ReadBlock(r) \/ Return(r)
        => pc'[r] # "answered"
  BY MetaLeads DEF Begin, Drop, WarmChunk, ReadBlock, Return, Goto
<1> QED
  BY <1>1, <1>3, <1>4, <1>5, <1>6, <1>7, ReaderFrame DEF Run

-----------------------------------------------------------------------------
LEMMA ReadInit == Init => ReadInv
<1> SUFFICES ASSUME Init PROVE ReadInv
  OBVIOUS
<1>1. NoSpan \in [lo : Blocks, hi : Blocks, next : Nat, share : BOOLEAN]
  BY CacheAssumption DEF NoSpan, Blocks
<1> QED
  BY <1>1 DEF Init, ReadInv, ReadTypes, RangeOK, DirectCovers, Whole, Steps, Landed, FlightType

LEMMA ReadStep ==
  ASSUME ReadInv, [Next]_vars
  PROVE  ReadInv'
<1>1. ReadTypes'
  BY ReadTypesStep DEF ReadInv
<1> QED
  BY <1>1, RangeOKStep, DirectCoversStep, WholeStep DEF ReadInv

(* A read that answers has its metadata and every block of its range       *)
(* (get_blocks): no interleaving of readers, evictions, deletions, shared, *)
(* widened, cut or failed fetches makes one of its expects fail.           *)
THEOREM ReadsWhole == Spec => []NoHoles
<1>1. ReadInv => NoHoles
  BY DEF ReadInv, Whole, NoHoles
<1> QED
  BY <1>1, ReadInit, ReadStep, PTL DEF Spec

LEMMA OwnersStep ==
  ASSUME \A r \in Readers : SameCall[r] = {r},
         ReadTypes, OwnersRemain, [Next]_vars
  PROVE  OwnersRemain'
<1> USE DEF ReadTypes, OwnersRemain
<1>1. CASE UNCHANGED <<inflight, pc, own, span>>
  BY <1>1
<1>2. ASSUME NEW r \in Readers, UNCHANGED inflight, pc[r] # "own",
             \A s \in Readers \ {r} : UNCHANGED <<pc[s], own[s], span[s]>>
      PROVE  OwnersRemain'
  BY <1>2
<1>3. ASSUME NEW r \in Readers, OwnDone(r) PROVE OwnersRemain'
  <2>1. \A s \in Readers \ {r} : UNCHANGED <<pc[s], own[s], span[s]>>
    BY <1>3 DEF OwnDone, After, Goto
  <2>2. \A b \in Blocks : inflight'[b] # NoFlight =>
          inflight'[b] = inflight[b] /\ inflight[b] # own[r]
    BY <1>3 DEF OwnDone, Unpublish
  <2>3. ASSUME NEW b \in Blocks, inflight'[b] # NoFlight
        PROVE  \E s \in Readers : pc'[s] = "own" /\ own'[s] = inflight'[b] /\ span'[s].share
    <3>1. PICK s \in Readers : pc[s] = "own" /\ own[s] = inflight[b] /\ span[s].share
      BY <2>2, <2>3
    <3> QED
      BY <2>1, <2>2, <2>3, <3>1
  <2> QED
    BY <2>3
<1>4. ASSUME NEW r \in Readers, Join(r) PROVE OwnersRemain'
  <2>1. pc[r] = "join" /\ UNCHANGED span
        /\ \A s \in Readers \ {r} : UNCHANGED <<pc[s], own[s]>>
    BY ZenonT(30), <1>4 DEF Join, StartFetch, Goto, reads
  <2>2. CASE UNCHANGED inflight
    BY <1>2, <2>1, <2>2
  <2>3. ASSUME NEW lo, NEW hi, StartFetch(r, Fresh, lo, hi), Goto(r, "own")
        PROVE  OwnersRemain'
    <3>1. pc'[r] = "own" /\ own'[r] = Fresh
      BY <2>3 DEF StartFetch, Goto
    <3>2. \A b \in Blocks : inflight'[b] = inflight[b] \/ (inflight'[b] = Fresh /\ span[r].share)
      BY <2>3 DEF StartFetch
    <3> QED
      BY <2>1, <3>1, <3>2
  <2> QED
    BY <1>4, <2>2, <2>3 DEF Join
<1>5. ASSUME NEW r \in Readers, Begin(r) \/ WarmChunk(r) \/ ReadMeta(r) \/ ReadBlock(r) \/ Return(r)
      PROVE  OwnersRemain'
  <2>1. UNCHANGED inflight /\ pc[r] # "own"
        /\ \A s \in Readers \ {r} : UNCHANGED <<pc[s], own[s], span[s]>>
    BY <1>5 DEF Begin, WarmChunk, ReadMeta, ReadBlock, Return, Goto, reads, Ended
  <2> QED
    BY <1>2, <2>1
<1>6. ASSUME NEW r \in Readers, WaitDone(r) \/ DirectDone(r) PROVE OwnersRemain'
  <2>1. UNCHANGED inflight /\ pc[r] # "own"
        /\ \A s \in Readers \ {r} : UNCHANGED <<pc[s], own[s], span[s]>>
    BY <1>6 DEF WaitDone, DirectDone, After, Goto
  <2> QED
    BY <1>2, <2>1
<1>7. ASSUME NEW r \in Readers, Drop(r) PROVE FALSE
  BY <1>7 DEF Drop, Ended
<1>8. CASE (\E f \in Flights : Poll(f)) \/ Evict \/ Invalidate \/ Delete \/ UNCHANGED vars
  BY <1>1, <1>8 DEF Poll, Evict, Invalidate, Delete, vars, reads
<1> QED
  BY <1>3, <1>4, <1>5, <1>6, <1>7, <1>8 DEF Next, Run

(* Without dropped readers every fetch in the in-flight map has an owner   *)
(* that is going to take its result and remove it.                         *)
THEOREM FetchesOwned ==
  (\A r \in Readers : SameCall[r] = {r}) => (Spec => []OwnersRemain)
<1> SUFFICES ASSUME \A r \in Readers : SameCall[r] = {r} PROVE Spec => []OwnersRemain
  OBVIOUS
<1>1. Init => ReadInv /\ OwnersRemain
  BY ReadInit DEF Init, OwnersRemain
<1>2. ReadInv /\ OwnersRemain /\ [Next]_vars => ReadInv' /\ OwnersRemain'
  BY ReadStep, OwnersStep DEF ReadInv
<1> QED
  BY <1>1, <1>2, PTL DEF Spec

-----------------------------------------------------------------------------
(* Space (CacheSpace): the bytes of a listing are pairs of a file and a    *)
(* position, so that sums are cardinalities.                               *)

LEMMA ListingType ==
  ASSUME NEW l \in Listings
  PROVE  /\ DOMAIN l \subseteq Files /\ IsFiniteSet(DOMAIN l)
         /\ l \in [DOMAIN l -> [size : Nat, access : Nat]]
<1>1. PICK F \in SUBSET Files : l \in [F -> [size : Nat, access : Nat]]
  BY DEF Listings
<1>2. IsFiniteSet(F)
  BY SpaceAssumption, FS_Subset
<1> QED
  BY <1>1, <1>2

LEMMA IsListing ==
  ASSUME NEW l, NEW F \in SUBSET Files, l \in [F -> [size : Nat, access : Nat]]
  PROVE  l \in Listings
  BY DEF Listings

(* The bytes of one file.                                                  *)
GrainsOf(l, f) == {f} \X (1 .. l[f].size)

LEMMA GrainsAre ==
  ASSUME NEW l, NEW x
  PROVE  x \in Grains(l) <=> \E f \in DOMAIN l : x \in GrainsOf(l, f)
  BY DEF Grains, GrainsOf

LEMMA GrainsApart ==
  ASSUME NEW l, NEW m, NEW f, NEW g, NEW x \in GrainsOf(l, f), x \in GrainsOf(m, g)
  PROVE  f = g
  BY DEF GrainsOf

LEMMA GrainsFinite ==
  ASSUME NEW l \in Listings
  PROVE  IsFiniteSet(Grains(l)) /\ Bytes(l) \in Nat
<1> DEFINE T == {GrainsOf(l, f) : f \in DOMAIN l}
           g == [f \in DOMAIN l |-> GrainsOf(l, f)]
<1>1. IsFiniteSet(DOMAIN l) /\ \A f \in DOMAIN l : l[f].size \in Nat
  BY ListingType
<1>2. g \in Surjection(DOMAIN l, T)
  BY DEF Surjection
<1>3. IsFiniteSet(T)
  BY <1>1, <1>2, FS_Surjection
<1>4. ASSUME NEW f \in DOMAIN l PROVE IsFiniteSet(GrainsOf(l, f))
  <2>1. IsFiniteSet({f})
    BY FS_Singleton
  <2>2. 1 \in Int /\ l[f].size \in Int
    BY <1>1
  <2>3. IsFiniteSet(1 .. l[f].size)
    BY <2>2, FS_Interval
  <2> QED
    BY <2>1, <2>3, FS_Product DEF GrainsOf
<1>5. IsFiniteSet(UNION T)
  BY <1>3, <1>4, FS_UNION
<1> QED
  BY <1>5, FS_CardinalityType DEF Grains, Bytes, GrainsOf

LEMMA OneFile ==
  ASSUME NEW l \in Listings, NEW f \in DOMAIN l
  PROVE  Cardinality(GrainsOf(l, f)) = l[f].size /\ IsFiniteSet(GrainsOf(l, f))
<1>1. l[f].size \in Nat
  BY ListingType
<1>2. IsFiniteSet({f}) /\ Cardinality({f}) = 1
  BY FS_Singleton
<1>3. IsFiniteSet(1 .. l[f].size) /\ Cardinality(1 .. l[f].size) = l[f].size
  <2>1. 1 \in Int /\ l[f].size \in Int
    BY <1>1
  <2>2. IsFiniteSet(1 .. l[f].size)
        /\ Cardinality(1 .. l[f].size) = IF 1 > l[f].size THEN 0 ELSE l[f].size - 1 + 1
    BY <2>1, FS_Interval
  <2> QED
    BY <1>1, <2>2
<1>4. IsFiniteSet(GrainsOf(l, f))
      /\ Cardinality(GrainsOf(l, f)) = Cardinality({f}) * Cardinality(1 .. l[f].size)
  BY <1>2, <1>3, FS_Product DEF GrainsOf
<1>5. 1 * l[f].size = l[f].size
  BY <1>1
<1> QED
  BY <1>2, <1>3, <1>4, <1>5

(* Bytes depend on the lengths alone.                                      *)
LEMMA SameSizes ==
  ASSUME NEW l, NEW m, Sizes(l) = Sizes(m)
  PROVE  DOMAIN l = DOMAIN m /\ (\A f \in DOMAIN l : l[f].size = m[f].size) /\ Bytes(l) = Bytes(m)
<1>1. DOMAIN l = DOMAIN m /\ \A f \in DOMAIN l : l[f].size = m[f].size
  BY DEF Sizes
<1>2. \A f \in DOMAIN l : GrainsOf(l, f) = GrainsOf(m, f)
  BY <1>1 DEF GrainsOf
<1>3. ASSUME NEW x PROVE x \in Grains(l) <=> x \in Grains(m)
  BY <1>1, <1>2, GrainsAre
<1>4. Grains(l) = Grains(m)
  BY <1>3
<1> QED
  BY <1>1, <1>4 DEF Bytes

LEMMA SizesAre ==
  ASSUME NEW l, NEW m, DOMAIN l = DOMAIN m, \A f \in DOMAIN l : l[f].size = m[f].size
  PROVE  Sizes(l) = Sizes(m)
  BY DEF Sizes

LEMMA PartType ==
  ASSUME NEW l \in Listings, NEW F
  PROVE  /\ Part(l, F) \in Listings /\ DOMAIN Part(l, F) = DOMAIN l \cap F
         /\ \A f \in DOMAIN Part(l, F) : Part(l, F)[f] = l[f]
<1>1. Part(l, F) \in [DOMAIN l \cap F -> [size : Nat, access : Nat]]
  BY ListingType DEF Part
<1> QED
  BY <1>1, ListingType, IsListing DEF Part

LEMMA GrainsOfPart ==
  ASSUME NEW l \in Listings, NEW F, NEW x
  PROVE  x \in Grains(Part(l, F)) <=> \E f \in DOMAIN l \cap F : x \in GrainsOf(l, f)
<1> DEFINE m == Part(l, F)
<1>1. DOMAIN m = DOMAIN l \cap F /\ \A f \in DOMAIN m : m[f] = l[f]
  BY PartType
<1>2. \A f \in DOMAIN m : GrainsOf(m, f) = GrainsOf(l, f)
  BY <1>1 DEF GrainsOf
<1> HIDE DEF m
<1>3. x \in Grains(m) <=> \E f \in DOMAIN l \cap F : x \in GrainsOf(l, f)
  BY <1>1, <1>2, GrainsAre
<1> QED
  BY <1>3 DEF m

LEMMA RankedType ==
  ASSUME NEW l \in Listings
  PROVE  Ranked(l) \in Listings /\ Sizes(Ranked(l)) = Sizes(l)
<1>1. ASSUME NEW f \in DOMAIN l PROVE Cardinality(Older(l, f)) \in Nat
  <2>1. Older(l, f) \in SUBSET DOMAIN l
    BY DEF Older
  <2> QED
    BY <2>1, ListingType, FS_Subset, FS_CardinalityType
<1>2. Ranked(l) \in [DOMAIN l -> [size : Nat, access : Nat]]
  BY <1>1, ListingType DEF Ranked
<1>3. Ranked(l) \in Listings
  BY <1>2, ListingType, IsListing
<1>4. DOMAIN Ranked(l) = DOMAIN l /\ \A f \in DOMAIN l : Ranked(l)[f].size = l[f].size
  BY DEF Ranked
<1> QED
  BY <1>3, <1>4, SizesAre

LEMMA CardinalityApart ==
  ASSUME NEW A, NEW B, IsFiniteSet(A), IsFiniteSet(B), A \cap B = {}
  PROVE  IsFiniteSet(A \cup B) /\ Cardinality(A \cup B) = Cardinality(A) + Cardinality(B)
<1>1. Cardinality(A) \in Nat /\ Cardinality(B) \in Nat
  BY FS_CardinalityType
<1>2. IsFiniteSet(A \cup B) /\ Cardinality(A \cup B) = Cardinality(A) + Cardinality(B) - 0
  BY FS_Union, FS_EmptySet
<1> QED
  BY <1>1, <1>2

(* A listing is two parts.                                                 *)
LEMMA BytesSplit ==
  ASSUME NEW l \in Listings, NEW F
  PROVE  /\ Bytes(Part(l, F)) \in Nat /\ Bytes(Part(l, DOMAIN l \ F)) \in Nat
         /\ Bytes(l) = Bytes(Part(l, F)) + Bytes(Part(l, DOMAIN l \ F))
<1> DEFINE A == Grains(Part(l, F))
           B == Grains(Part(l, DOMAIN l \ F))
<1>1. IsFiniteSet(A) /\ IsFiniteSet(B) /\ Bytes(Part(l, F)) \in Nat
      /\ Bytes(Part(l, DOMAIN l \ F)) \in Nat
  BY PartType, GrainsFinite
<1>2. \A x : x \in A <=> \E f \in DOMAIN l \cap F : x \in GrainsOf(l, f)
  BY GrainsOfPart
<1>3. \A x : x \in B <=> \E f \in DOMAIN l \cap (DOMAIN l \ F) : x \in GrainsOf(l, f)
  BY GrainsOfPart
<1> HIDE DEF A, B
<1>4. \A x : x \in Grains(l) <=> \E f \in DOMAIN l : x \in GrainsOf(l, f)
  BY GrainsAre
<1>5. ASSUME NEW x PROVE x \in Grains(l) <=> x \in A \cup B
  BY <1>2, <1>3, <1>4
<1>6. Grains(l) = A \cup B
  BY <1>5
<1>7. A \cap B = {}
  <2> SUFFICES ASSUME NEW x \in A, x \in B PROVE FALSE
    OBVIOUS
  <2> QED
    BY <1>2, <1>3, GrainsApart
<1>8. Cardinality(A \cup B) = Cardinality(A) + Cardinality(B)
  BY <1>1, <1>7, CardinalityApart
<1> QED
  BY <1>1, <1>6, <1>8 DEF Bytes, A, B

LEMMA BytesPart ==
  ASSUME NEW l \in Listings, NEW F, NEW G, DOMAIN l \cap F \subseteq G
  PROVE  Bytes(Part(l, F)) <= Bytes(Part(l, G))
<1> DEFINE A == Grains(Part(l, F))
           B == Grains(Part(l, G))
<1>1. \A x : x \in A <=> \E f \in DOMAIN l \cap F : x \in GrainsOf(l, f)
  BY GrainsOfPart
<1>2. \A x : x \in B <=> \E f \in DOMAIN l \cap G : x \in GrainsOf(l, f)
  BY GrainsOfPart
<1>3. IsFiniteSet(B)
  BY PartType, GrainsFinite
<1> HIDE DEF A, B
<1>4. A \subseteq B
  BY <1>1, <1>2
<1>5. Cardinality(A) <= Cardinality(B)
  BY <1>3, <1>4, FS_Subset
<1> QED
  BY <1>5 DEF Bytes, A, B

LEMMA NoBytes ==
  ASSUME NEW l, DOMAIN l = {}
  PROVE  Bytes(l) = 0
<1>1. Grains(l) = {}
  BY GrainsAre
<1> QED
  BY <1>1, FS_EmptySet DEF Bytes

LEMMA DroppingType ==
  ASSUME NEW l \in Listings, NEW F
  PROVE  /\ Dropping(l, F) \in Listings /\ DOMAIN Dropping(l, F) = DOMAIN l \ F
         /\ \A f \in DOMAIN l \ F : Dropping(l, F)[f].size = l[f].size
         /\ Bytes(Dropping(l, F)) = Bytes(Part(l, DOMAIN l \ F))
<1> DEFINE m == Part(l, DOMAIN l \ F)
<1>1. m \in Listings /\ DOMAIN m = DOMAIN l \ F /\ \A f \in DOMAIN m : m[f] = l[f]
  BY PartType
<1>2. Dropping(l, F) = Ranked(m)
  BY DEF Dropping
<1> HIDE DEF m
<1>3. Ranked(m) \in Listings /\ Sizes(Ranked(m)) = Sizes(m)
  BY <1>1, RankedType
<1>4. DOMAIN Ranked(m) = DOMAIN m /\ (\A f \in DOMAIN m : Ranked(m)[f].size = m[f].size)
      /\ Bytes(Ranked(m)) = Bytes(m)
  BY <1>3, SameSizes
<1>5. \A f \in DOMAIN l \ F : Ranked(m)[f].size = l[f].size
  BY <1>1, <1>4
<1> QED
  BY <1>1, <1>2, <1>3, <1>4, <1>5 DEF m

LEMMA NewestType ==
  ASSUME NEW l \in Listings, NEW f \in Files, NEW n \in Nat
  PROVE  /\ Newest(l, f, n) \in Listings /\ DOMAIN Newest(l, f, n) = DOMAIN l \cup {f}
         /\ Newest(l, f, n)[f].size = n
         /\ \A g \in DOMAIN l \ {f} : Newest(l, f, n)[g].size = l[g].size
<1> DEFINE m == [g \in DOMAIN l \cup {f} |->
                   IF g = f THEN [size |-> n, access |-> Cardinality(DOMAIN l)] ELSE l[g]]
<1>1. Cardinality(DOMAIN l) \in Nat
  BY ListingType, FS_CardinalityType
<1>2. DOMAIN l \cup {f} \in SUBSET Files /\ l \in [DOMAIN l -> [size : Nat, access : Nat]]
  BY ListingType
<1>3. m \in [DOMAIN l \cup {f} -> [size : Nat, access : Nat]]
  BY <1>1, <1>2
<1>4. m \in Listings
  BY <1>2, <1>3, IsListing
<1>5. DOMAIN m = DOMAIN l \cup {f} /\ m[f].size = n
      /\ \A g \in DOMAIN l \ {f} : m[g].size = l[g].size
  OBVIOUS
<1>6. Newest(l, f, n) = Ranked(m)
  BY DEF Newest
<1> HIDE DEF m
<1>7. Ranked(m) \in Listings /\ Sizes(Ranked(m)) = Sizes(m)
  BY <1>4, RankedType
<1> QED
  BY <1>5, <1>6, <1>7, SameSizes

(* What is new adds its length.                                            *)
LEMMA BytesAdd ==
  ASSUME NEW l \in Listings, NEW f \in Files \ DOMAIN l, NEW n \in Nat
  PROVE  Bytes(Newest(l, f, n)) = Bytes(l) + n
<1> DEFINE m == Newest(l, f, n)
<1>1. m \in Listings /\ DOMAIN m = DOMAIN l \cup {f} /\ m[f].size = n
      /\ \A g \in DOMAIN l \ {f} : m[g].size = l[g].size
  BY ZenonT(30), NewestType
<1> HIDE DEF m
<1>2. \A g \in DOMAIN l : GrainsOf(m, g) = GrainsOf(l, g)
  BY <1>1 DEF GrainsOf
<1>3. \A x : x \in Grains(m) <=> \E g \in DOMAIN m : x \in GrainsOf(m, g)
  BY GrainsAre
<1>4. \A x : x \in Grains(l) <=> \E g \in DOMAIN l : x \in GrainsOf(l, g)
  BY GrainsAre
<1>5. ASSUME NEW x PROVE x \in Grains(m) <=> x \in Grains(l) \cup GrainsOf(m, f)
  BY <1>1, <1>2, <1>3, <1>4
<1>6. Grains(m) = Grains(l) \cup GrainsOf(m, f)
  BY <1>5
<1>7. Grains(l) \cap GrainsOf(m, f) = {}
  <2> SUFFICES ASSUME NEW x \in Grains(l), x \in GrainsOf(m, f) PROVE FALSE
    OBVIOUS
  <2> QED
    BY <1>4, GrainsApart
<1>8. IsFiniteSet(GrainsOf(m, f)) /\ Cardinality(GrainsOf(m, f)) = n
  BY <1>1, OneFile
<1>9. IsFiniteSet(Grains(l))
  BY GrainsFinite
<1>10. Cardinality(Grains(l) \cup GrainsOf(m, f)) = Cardinality(Grains(l)) + n
  BY <1>7, <1>8, <1>9, CardinalityApart
<1> QED
  BY <1>6, <1>10 DEF Bytes, m

-----------------------------------------------------------------------------
(* The books of a process alone with its directory. *)

BookType == [dir : Listings, entries : Listings, total : Nat]

Exact(b) ==
  b \in BookType /\ Sizes(b.entries) = Sizes(b.dir) /\ b.total = Bytes(b.dir)

LEMMA ExactRemoved ==
  ASSUME NEW b, Exact(b), NEW F
  PROVE  /\ Exact(Removed(b, F))
         /\ DOMAIN Removed(b, F).dir = DOMAIN b.dir \ F
         /\ Removed(b, F).total = Bytes(Part(b.entries, DOMAIN b.entries \ F))
         /\ Removed(b, F).total <= b.total
<1> DEFINE d == b.dir
           e == b.entries
           t == b.total
<1>1. d \in Listings /\ e \in Listings /\ t \in Nat /\ Sizes(e) = Sizes(d) /\ t = Bytes(d)
  BY DEF Exact, BookType
<1> HIDE DEF d, e, t
<1>2. DOMAIN e = DOMAIN d /\ (\A f \in DOMAIN e : e[f].size = d[f].size) /\ t = Bytes(e)
  BY <1>1, SameSizes
<1>3. Dropping(d, F) \in Listings /\ DOMAIN Dropping(d, F) = DOMAIN d \ F
      /\ \A f \in DOMAIN d \ F : Dropping(d, F)[f].size = d[f].size
  BY <1>1, DroppingType
<1>4. Dropping(e, F) \in Listings /\ DOMAIN Dropping(e, F) = DOMAIN e \ F
      /\ (\A f \in DOMAIN e \ F : Dropping(e, F)[f].size = e[f].size)
      /\ Bytes(Dropping(e, F)) = Bytes(Part(e, DOMAIN e \ F))
  BY <1>1, DroppingType
<1>5. Sizes(Dropping(e, F)) = Sizes(Dropping(d, F))
  BY <1>2, <1>3, <1>4, SizesAre
<1>6. Bytes(Part(e, F)) \in Nat /\ Bytes(Part(e, DOMAIN e \ F)) \in Nat
      /\ Bytes(e) = Bytes(Part(e, F)) + Bytes(Part(e, DOMAIN e \ F))
  BY <1>1, BytesSplit
<1>7. Minus(t, Bytes(Part(e, F))) = Bytes(Part(e, DOMAIN e \ F))
  BY <1>2, <1>6 DEF Minus
<1>8. Bytes(Dropping(d, F)) = Bytes(Part(e, DOMAIN e \ F))
  BY <1>4, <1>5, SameSizes
<1>9. Removed(b, F) = [dir |-> Dropping(d, F), entries |-> Dropping(e, F),
                       total |-> Bytes(Part(e, DOMAIN e \ F))]
  BY <1>7 DEF Removed, d, e, t
<1>10. Removed(b, F) \in BookType
  BY <1>3, <1>4, <1>6, <1>9 DEF BookType
<1>11. Exact(Removed(b, F))
  BY <1>5, <1>8, <1>9, <1>10 DEF Exact
<1>12. Removed(b, F).total <= t
  BY <1>2, <1>6, <1>9
<1> QED
  BY <1>3, <1>9, <1>11, <1>12 DEF d, e, t

(* Eviction stops only when the rest fits.                                 *)
LEMMA EvictFits ==
  ASSUME NEW b, Exact(b), NEW room \in Nat
  PROVE  /\ Exact(Evicted(b, room)) /\ Evicted(b, room).total <= room
         /\ DOMAIN Evicted(b, room).dir \subseteq DOMAIN b.dir
<1> DEFINE e == b.entries
           t == b.total
           R == {f \in DOMAIN e : Minus(t, Bytes(Part(e, Older(e, f)))) > room}
<1>1. e \in Listings /\ t \in Nat /\ t = Bytes(e)
  BY SameSizes DEF Exact, BookType
<1>2. Evicted(b, room) = Removed(b, R)
  BY DEF Evicted
<1>3. /\ Exact(Removed(b, R)) /\ DOMAIN Removed(b, R).dir = DOMAIN b.dir \ R
      /\ Removed(b, R).total = Bytes(Part(e, DOMAIN e \ R))
  <2> HIDE DEF R
  <2> QED
    BY ExactRemoved
<1>4. Bytes(Part(e, DOMAIN e \ R)) <= room
  <2> HIDE DEF e, t
  <2>1. CASE DOMAIN e \ R = {}
    <3>1. DOMAIN Part(e, DOMAIN e \ R) = {}
      <4> HIDE DEF R
      <4>1. DOMAIN Part(e, DOMAIN e \ R) = DOMAIN e \cap (DOMAIN e \ R)
        BY <1>1, PartType
      <4> QED
        BY <2>1, <4>1
    <3> QED
      BY <3>1, NoBytes
  <2>2. CASE DOMAIN e \ R # {}
    <3> DEFINE A == {e[f].access : f \in DOMAIN e \ R}
    <3>1. A \in SUBSET Nat /\ A # {}
      BY <1>1, <2>2, ListingType
    <3>2. PICK n \in A : \A a \in A : n <= a
      BY <3>1, LeastNat
    <3>3. PICK g \in DOMAIN e \ R : e[g].access = n
      BY <3>2
    <3>4. \A f \in DOMAIN e \ R : e[f].access \in Nat /\ e[g].access <= e[f].access
      BY <1>1, <3>2, <3>3, ListingType
    <3>5. (DOMAIN e \ R) \cap Older(e, g) = {}
      BY <3>3, <3>4 DEF Older
    <3> DEFINE O == Older(e, g)
    <3>6. Bytes(Part(e, O)) \in Nat /\ Bytes(Part(e, DOMAIN e \ O)) \in Nat
          /\ Bytes(e) = Bytes(Part(e, O)) + Bytes(Part(e, DOMAIN e \ O))
      BY <1>1, BytesSplit
    <3>7. Bytes(Part(e, DOMAIN e \ R)) <= Bytes(Part(e, DOMAIN e \ O))
      <4>1. DOMAIN e \cap (DOMAIN e \ R) \subseteq DOMAIN e \ O
        BY <3>5
      <4> HIDE DEF O, R
      <4> QED
        BY <1>1, <4>1, BytesPart
    <3>8. ~(Minus(t, Bytes(Part(e, O))) > room)
      BY <3>3
    <3>9. Bytes(Part(e, DOMAIN e \ R)) \in Nat
      <4> HIDE DEF R
      <4> QED
        BY <1>1, PartType, GrainsFinite
    <3> HIDE DEF O, R
    <3> QED
      BY <1>1, <3>6, <3>7, <3>8, <3>9 DEF Minus
  <2> QED
    BY <2>1, <2>2
<1> QED
  BY <1>2, <1>3, <1>4

LEMMA ExactTouched ==
  ASSUME NEW b, Exact(b), NEW f \in DOMAIN b.dir
  PROVE  Exact(Touched(b, f)) /\ Touched(b, f).total = b.total
<1> DEFINE d == b.dir
           e == b.entries
           m == Newest(e, f, e[f].size)
<1>1. d \in Listings /\ e \in Listings /\ Sizes(e) = Sizes(d)
  BY DEF Exact, BookType
<1>2. DOMAIN e = DOMAIN d /\ f \in DOMAIN e /\ f \in Files /\ e[f].size \in Nat
  BY <1>1, SameSizes, ListingType
<1>3. m \in Listings /\ DOMAIN m = DOMAIN e /\ \A g \in DOMAIN e : m[g].size = e[g].size
  <2> DEFINE n == e[f].size
  <2>1. n \in Nat
    BY <1>2
  <2> HIDE DEF n, e, d
  <2>2. Newest(e, f, n) \in Listings /\ DOMAIN Newest(e, f, n) = DOMAIN e \cup {f}
        /\ Newest(e, f, n)[f].size = n
        /\ \A g \in DOMAIN e \ {f} : Newest(e, f, n)[g].size = e[g].size
    BY ZenonT(30), <1>1, <1>2, <2>1, NewestType
  <2>3. DOMAIN e \cup {f} = DOMAIN e
    BY <1>2
  <2>4. ASSUME NEW g \in DOMAIN e PROVE Newest(e, f, n)[g].size = e[g].size
    <3>1. CASE g = f
      BY <2>2, <3>1 DEF n
    <3>2. CASE g # f
      BY <2>2, <3>2
    <3> QED
      BY <3>1, <3>2
  <2> QED
    BY <2>2, <2>3, <2>4 DEF n, m
<1>4. Touched(b, f) = [b EXCEPT !.entries = m]
  BY <1>2 DEF Touched
<1> HIDE DEF m
<1>5. Sizes(m) = Sizes(d)
  BY <1>1, <1>3, SizesAre
<1> QED
  BY <1>3, <1>4, <1>5 DEF Exact, BookType

LEMMA ExactAdopted ==
  ASSUME NEW b, Exact(b), NEW f \in Files \ DOMAIN b.dir, NEW n \in Nat
  PROVE  LET c == [Adopted(b, f, n) EXCEPT !.dir = Newest(@, f, n)]
         IN  Exact(c) /\ c.total = b.total + n
<1> DEFINE d == b.dir
           e == b.entries
           dn == Newest(d, f, n)
           en == Newest(e, f, n)
           c == [dir |-> dn, entries |-> en, total |-> b.total + n]
<1>1. d \in Listings /\ e \in Listings /\ Sizes(e) = Sizes(d) /\ b.total = Bytes(d) /\ b.total \in Nat
  BY DEF Exact, BookType
<1>2. DOMAIN e = DOMAIN d /\ \A g \in DOMAIN e : e[g].size = d[g].size
  BY <1>1, SameSizes
<1>3. dn \in Listings /\ DOMAIN dn = DOMAIN d \cup {f} /\ dn[f].size = n
      /\ \A g \in DOMAIN d \ {f} : dn[g].size = d[g].size
  BY ZenonT(30), <1>1, NewestType
<1>4. en \in Listings /\ DOMAIN en = DOMAIN e \cup {f} /\ en[f].size = n
      /\ \A g \in DOMAIN e \ {f} : en[g].size = e[g].size
  BY ZenonT(30), <1>1, NewestType
<1>5. Bytes(dn) = b.total + n
  BY <1>1, BytesAdd
<1>6. [Adopted(b, f, n) EXCEPT !.dir = Newest(@, f, n)] = c
  <2> DEFINE y == [b EXCEPT !.entries = en]
             z == [y EXCEPT !.total = b.total + n]
  <2>1. b \in BookType /\ en \in Listings /\ n \in Nat /\ b.total \in Nat
    BY <1>1, <1>4 DEF Exact
  <2> HIDE DEF dn, en, d, e
  <2>2. y = [dir |-> b.dir, entries |-> en, total |-> b.total]
    BY <2>1 DEF BookType
  <2>3. z = [dir |-> b.dir, entries |-> en, total |-> b.total + n]
    <3> DEFINE r == [dir |-> b.dir, entries |-> en, total |-> b.total]
    <3>1. [r EXCEPT !.total = b.total + n]
            = [dir |-> b.dir, entries |-> en, total |-> b.total + n]
      OBVIOUS
    <3> HIDE DEF r
    <3>2. y = r
      BY <2>2 DEF r
    <3> QED
      BY <3>1, <3>2
  <2>4. [b EXCEPT !.entries = en, !.total = b.total + n] = z
    BY <2>1 DEF BookType
  <2>5. Adopted(b, f, n) = [b EXCEPT !.entries = en, !.total = b.total + n]
    BY DEF Adopted, en, e
  <2>6. [[dir |-> b.dir, entries |-> en, total |-> b.total + n] EXCEPT !.dir = dn] = c
    OBVIOUS
  <2>7. [z EXCEPT !.dir = Newest(@, f, n)] = [z EXCEPT !.dir = dn]
    BY <2>3 DEF dn, d
  <2> QED
    BY <2>3, <2>4, <2>5, <2>6, <2>7
<1> HIDE DEF dn, en
<1>7. Sizes(en) = Sizes(dn)
  BY <1>2, <1>3, <1>4, SizesAre
<1>8. Exact(c) /\ c.total = b.total + n
  BY <1>1, <1>3, <1>4, <1>5, <1>7 DEF Exact, BookType
<1> QED
  BY <1>6, <1>8

-----------------------------------------------------------------------------
(* The steps of a process alone. *)

SpaceTypes ==
  /\ dir \in Listings /\ entries \in [Processes -> Listings]
  /\ total \in [Processes -> Nat] /\ cap \in [Processes -> Nat]

SpaceInv == SpaceTypes /\ BooksExact /\ CapHolds

LEMMA SpaceOpen ==
  ASSUME SpaceInv, NEW p \in Processes, IsOpen(p)
  PROVE  /\ Exact(Books(p)) /\ Books(p).dir = dir /\ Books(p).total <= cap[p]
         /\ DOMAIN entries[p] = DOMAIN dir /\ cap[p] \in Nat
<1>1. Sizes(entries[p]) = Sizes(dir) /\ total[p] = Bytes(dir) /\ Bytes(dir) <= cap[p]
  BY DEF SpaceInv, BooksExact, CapHolds
<1>2. DOMAIN entries[p] = DOMAIN dir
  BY <1>1, SameSizes
<1> QED
  BY <1>1, <1>2 DEF SpaceInv, SpaceTypes, Exact, BookType, Books

(* Exact books within the cap, for the one process there is.               *)
LEMMA SpaceSet ==
  ASSUME SpaceInv, \A p, q \in Processes : p = q, NEW p \in Processes, NEW b,
         Exact(b), Set(p, b), cap' \in [Processes -> Nat], b.total <= cap'[p]
  PROVE  SpaceInv'
<1>1. b.dir \in Listings /\ b.entries \in Listings /\ b.total \in Nat
      /\ Sizes(b.entries) = Sizes(b.dir) /\ b.total = Bytes(b.dir)
  BY DEF Exact, BookType
<1>2. dir' = b.dir /\ entries' = [entries EXCEPT ![p] = b.entries]
      /\ total' = [total EXCEPT ![p] = b.total]
  BY DEF Set
<1>3. entries \in [Processes -> Listings] /\ total \in [Processes -> Nat]
  BY DEF SpaceInv, SpaceTypes
<1>4. entries' \in [Processes -> Listings] /\ total' \in [Processes -> Nat] /\ dir' \in Listings
  BY <1>1, <1>2, <1>3
<1>5. entries'[p] = b.entries /\ total'[p] = b.total
  BY <1>2, <1>3
<1>6. SpaceTypes'
  BY <1>4 DEF SpaceTypes
<1>7. BooksExact'
  <2> SUFFICES ASSUME NEW q \in Processes
               PROVE  Sizes(entries'[q]) = Sizes(dir') /\ total'[q] = Bytes(dir')
    BY DEF BooksExact, IsOpen, Sizes, Bytes, Grains
  <2> QED
    BY <1>1, <1>2, <1>5
<1>8. CapHolds'
  <2> SUFFICES ASSUME NEW q \in Processes PROVE Bytes(dir') <= cap'[q]
    BY DEF CapHolds, IsOpen, Bytes, Grains
  <2> QED
    BY <1>1, <1>2
<1> QED
  BY <1>6, <1>7, <1>8 DEF SpaceInv

LEMMA ReadEntryStep ==
  ASSUME SpaceInv, \A p, q \in Processes : p = q,
         NEW p \in Processes, NEW f \in Files, ReadEntry(p, f)
  PROVE  SpaceInv'
<1> DEFINE b == Books(p)
<1>1. IsOpen(p) /\ f \in DOMAIN dir /\ UNCHANGED cap
  BY DEF ReadEntry
<1>2. Exact(b) /\ b.dir = dir /\ b.total <= cap[p] /\ DOMAIN entries[p] = DOMAIN dir /\ cap[p] \in Nat
  BY <1>1, SpaceOpen
<1>3. cap' \in [Processes -> Nat] /\ cap'[p] = cap[p]
  BY <1>1 DEF SpaceInv, SpaceTypes
<1>4. Set(p, Removed(b, {f})) \/ Set(p, Touched(b, f))
  BY <1>1, <1>2 DEF ReadEntry
<1> HIDE DEF b
<1>5. CASE Set(p, Removed(b, {f}))
  <2>1. Exact(Removed(b, {f})) /\ Removed(b, {f}).total <= b.total
    BY <1>2, ExactRemoved
  <2>2. Removed(b, {f}).total \in Nat /\ b.total \in Nat
    BY <1>2, <2>1 DEF Exact, BookType
  <2> QED
    BY <1>2, <1>3, <1>5, <2>1, <2>2, SpaceSet
<1>6. CASE Set(p, Touched(b, f))
  <2>1. Exact(Touched(b, f)) /\ Touched(b, f).total = b.total
    BY <1>1, <1>2, ExactTouched
  <2> QED
    BY <1>2, <1>3, <1>6, <2>1, SpaceSet
<1> QED
  BY <1>4, <1>5, <1>6

LEMMA WriteEntryStep ==
  ASSUME SpaceInv, \A p, q \in Processes : p = q,
         NEW p \in Processes, NEW f \in Files, WriteEntry(p, f)
  PROVE  SpaceInv'
<1> DEFINE b == Books(p)
           n == Length[f]
           now == IF f \in DOMAIN dir THEN Removed(b, {f}) ELSE b
           room == Minus(cap[p], n)
           free == Evicted(now, room)
           new == [Adopted(free, f, n) EXCEPT !.dir = Newest(@, f, n)]
<1>1. IsOpen(p) /\ UNCHANGED cap /\ n \in Nat
  BY SpaceAssumption DEF WriteEntry
<1>2. Exact(b) /\ b.dir = dir /\ b.total <= cap[p] /\ DOMAIN entries[p] = DOMAIN dir /\ cap[p] \in Nat
  BY <1>1, SpaceOpen
<1>3. cap' \in [Processes -> Nat] /\ cap'[p] = cap[p]
  BY <1>1 DEF SpaceInv, SpaceTypes
<1>4. \/ f \in DOMAIN dir /\ Set(p, Touched(b, f))
      \/ free.total + n <= cap[p] /\ Set(p, new)
      \/ Set(p, free)
  BY DEF WriteEntry, Cleared
<1>5. Exact(now) /\ f \notin DOMAIN now.dir
  <2>1. CASE f \in DOMAIN dir
    <3>1. Exact(Removed(b, {f})) /\ DOMAIN Removed(b, {f}).dir = DOMAIN b.dir \ {f}
      <4> HIDE DEF b
      <4> QED
        BY <1>2, ExactRemoved
    <3> QED
      BY <2>1, <3>1
  <2>2. CASE f \notin DOMAIN dir
    BY <1>2, <2>2
  <2> QED
    BY <2>1, <2>2
<1>6. room \in Nat /\ room <= cap[p]
  BY <1>1, <1>2 DEF Minus
<1> HIDE DEF b, now, room
<1>7. Exact(free) /\ free.total <= room /\ DOMAIN free.dir \subseteq DOMAIN now.dir
  BY <1>5, <1>6, EvictFits
<1> HIDE DEF free
<1>8. free.total \in Nat /\ b.total \in Nat
  BY <1>2, <1>7 DEF Exact, BookType
<1>9. CASE f \in DOMAIN dir /\ Set(p, Touched(b, f))
  <2>1. Exact(Touched(b, f)) /\ Touched(b, f).total = b.total
    BY <1>2, <1>9, ExactTouched
  <2> QED
    BY <1>2, <1>3, <1>9, <2>1, SpaceSet
<1>10. CASE free.total + n <= cap[p] /\ Set(p, new)
  <2>1. Exact(new) /\ new.total = free.total + n
    BY <1>1, <1>5, <1>7, ExactAdopted
  <2> HIDE DEF new
  <2> QED
    BY <1>3, <1>10, <2>1, SpaceSet
<1>11. CASE Set(p, free)
  BY <1>2, <1>3, <1>6, <1>7, <1>8, <1>11, SpaceSet
<1> QED
  BY <1>4, <1>9, <1>10, <1>11

LEMMA InvalidateObjectStep ==
  ASSUME SpaceInv, \A p, q \in Processes : p = q,
         NEW p \in Processes, NEW o, InvalidateObject(p, o)
  PROVE  SpaceInv'
<1> DEFINE b == Books(p)
<1>1. IsOpen(p) /\ UNCHANGED cap /\ \E F : Set(p, Removed(b, F))
  BY DEF InvalidateObject
<1>2. Exact(b) /\ b.total <= cap[p] /\ cap[p] \in Nat
  BY <1>1, SpaceOpen
<1> HIDE DEF b
<1>3. PICK F : Set(p, Removed(b, F))
  BY <1>1
<1>4. Exact(Removed(b, F)) /\ Removed(b, F).total <= b.total
  BY <1>2, ExactRemoved
<1>5. Removed(b, F).total \in Nat /\ b.total \in Nat
  BY <1>2, <1>4 DEF Exact, BookType
<1>6. cap' \in [Processes -> Nat] /\ cap'[p] = cap[p]
  BY <1>1 DEF SpaceInv, SpaceTypes
<1> QED
  BY <1>2, <1>3, <1>4, <1>5, <1>6, SpaceSet

LEMMA StartStep ==
  ASSUME SpaceInv, \A p, q \in Processes : p = q, NEW p \in Processes, Start(p)
  PROVE  SpaceInv'
<1> DEFINE b == [dir |-> dir, entries |-> dir, total |-> Bytes(dir)]
<1>1. PICK max \in Caps : cap' = [cap EXCEPT ![p] = max] /\ Set(p, Evicted(b, max))
  BY DEF Start, Loaded
<1>2. dir \in Listings /\ cap \in [Processes -> Nat] /\ max \in Nat
  BY SpaceAssumption DEF SpaceInv, SpaceTypes
<1>3. Bytes(dir) \in Nat
  BY <1>2, GrainsFinite
<1>4. Exact(b)
  BY <1>2, <1>3 DEF Exact, BookType
<1> HIDE DEF b
<1>5. Exact(Evicted(b, max)) /\ Evicted(b, max).total <= max
  BY <1>2, <1>4, EvictFits
<1>6. cap' \in [Processes -> Nat] /\ cap'[p] = max
  BY <1>1, <1>2
<1> QED
  BY <1>1, <1>5, <1>6, SpaceSet

(* Where no process has the directory open, only the types are claimed.    *)
LEMMA AllClosed ==
  ASSUME SpaceTypes', \A p \in Processes : cap'[p] = 0
  PROVE  SpaceInv'
<1>1. \A p \in Processes : ~(cap'[p] > 0)
  BY DEF SpaceTypes
<1> QED
  BY <1>1 DEF SpaceInv, BooksExact, CapHolds, IsOpen

LEMMA NothingListed ==
  NoFiles \in Listings
<1>1. NoFiles \in [{} -> [size : Nat, access : Nat]]
  BY DEF NoFiles
<1> QED
  BY <1>1, IsListing

LEMMA ExitStep ==
  ASSUME SpaceInv, \A p, q \in Processes : p = q, NEW p \in Processes, Exit(p)
  PROVE  SpaceInv'
<1>1. dir' = dir /\ entries' = [entries EXCEPT ![p] = NoFiles]
      /\ total' = [total EXCEPT ![p] = 0] /\ cap' = [cap EXCEPT ![p] = 0]
  BY DEF Exit, Set
<1>2. SpaceTypes'
  BY <1>1, NothingListed DEF SpaceInv, SpaceTypes
<1>3. \A q \in Processes : cap'[q] = 0
  BY <1>1 DEF SpaceInv, SpaceTypes
<1> QED
  BY <1>2, <1>3, AllClosed

LEMMA PowerLossStep ==
  ASSUME SpaceInv, PowerLoss
  PROVE  SpaceInv'
<1> DEFINE Short(f) == \E n \in 0 .. (dir[f].size - 1) : dir' = [dir EXCEPT ![f].size = n]
<1>9. PICK f \in DOMAIN dir : Short(f)
  BY DEF PowerLoss
<1>1. PICK n \in 0 .. (dir[f].size - 1) : dir' = [dir EXCEPT ![f].size = n]
  BY <1>9
<1>2. dir \in Listings
  BY DEF SpaceInv, SpaceTypes
<1>3. DOMAIN dir \in SUBSET Files /\ dir \in [DOMAIN dir -> [size : Nat, access : Nat]]
  BY <1>2, ListingType
<1>4. n \in Nat
  BY <1>1, <1>3
<1>5. dir' \in [DOMAIN dir -> [size : Nat, access : Nat]]
  BY <1>1, <1>3, <1>4
<1>6. dir' \in Listings
  BY <1>3, <1>5, IsListing
<1>7. cap' = [p \in Processes |-> 0] /\ entries' = [p \in Processes |-> NoFiles]
      /\ total' = [p \in Processes |-> 0]
  BY DEF PowerLoss
<1>8. SpaceTypes'
  BY <1>6, <1>7, NothingListed DEF SpaceTypes
<1> QED
  BY <1>7, <1>8, AllClosed

LEMMA SpaceStep ==
  ASSUME SpaceInv, \A p, q \in Processes : p = q, [SpaceNext]_spaceVars
  PROVE  SpaceInv'
<1>1. CASE UNCHANGED spaceVars
  BY <1>1 DEF spaceVars, SpaceInv, SpaceTypes, BooksExact, CapHolds, IsOpen, Sizes, Bytes, Grains
<1>2. CASE SpaceNext
  BY <1>2, ReadEntryStep, WriteEntryStep, InvalidateObjectStep, StartStep, ExitStep,
     PowerLossStep DEF SpaceNext
<1> QED
  BY <1>1, <1>2

LEMMA SpaceStart ==
  ASSUME SpaceInit
  PROVE  SpaceInv
<1>1. SpaceTypes
  BY NothingListed DEF SpaceInit, SpaceTypes
<1>2. \A p \in Processes : ~(cap[p] > 0)
  BY DEF SpaceInit
<1> QED
  BY <1>1, <1>2 DEF SpaceInv, BooksExact, CapHolds, IsOpen

(* The books of a process that has the cache directory to itself are exact *)
(* after every hit, write, eviction, invalidation, restart and power loss. *)
THEOREM BooksKept ==
  (\A p, q \in Processes : p = q) => (SpaceSpec => []BooksExact)
<1> SUFFICES ASSUME \A p, q \in Processes : p = q PROVE SpaceSpec => []BooksExact
  OBVIOUS
<1>1. SpaceInv /\ [SpaceNext]_spaceVars => SpaceInv'
  BY SpaceStep
<1>2. SpaceInv => BooksExact
  BY DEF SpaceInv
<1> QED
  BY <1>1, <1>2, SpaceStart, PTL DEF SpaceSpec

(* The files of the directory never exceed the cap of the process that has *)
(* it to itself, also when it is restarted with a smaller one.             *)
THEOREM CapKept ==
  (\A p, q \in Processes : p = q) => (SpaceSpec => []CapHolds)
<1> SUFFICES ASSUME \A p, q \in Processes : p = q PROVE SpaceSpec => []CapHolds
  OBVIOUS
<1>1. SpaceInv /\ [SpaceNext]_spaceVars => SpaceInv'
  BY SpaceStep
<1>2. SpaceInv => CapHolds
  BY DEF SpaceInv
<1> QED
  BY <1>1, <1>2, SpaceStart, PTL DEF SpaceSpec
=============================================================================
