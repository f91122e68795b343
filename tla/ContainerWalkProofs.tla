-------------------------- MODULE ContainerWalkProofs --------------------------
(***************************************************************************)
(* For every number of objects, records and uploads: a client that pages   *)
(* through a container passes none of the records it was promised, and has *)
(* been given all of them when its walk ends.                              *)
(***************************************************************************)
EXTENDS ContainerWalk, FiniteSetTheorems, WellFoundedInduction, TLAPS

(* A walk has the kinds and the page size that it was started with.        *)
ClientOK ==
  client.step = "walking" => client.kinds \in Asks /\ client.limit \in Limits

(* What the client was promised stays where a page can find it.            *)
KnownKept ==
  \A o \in Objects :
     /\ client.known[o] \subseteq Held(o, upload[o])
     /\ o \notin container.carriers => client.known[o] \subseteq rows

(* What an object still owes the client.                                   *)
Left(o) == After(Owed(o))

InRows == \A o \in Objects \ client.leftOut : Left(o) \subseteq rows

(* The walk that the client asked for leaves nothing behind: each object   *)
(* is still to be read, or what it owes was found, or it can only be in    *)
(* the table because there was no object to read.                          *)
Searched ==
  /\ request.step # "get" => request.found = {}
  /\ request.step \in {"keys", "list", "get"} => request.kinds \in {client.kinds, {Message}}
  /\ request.found \subseteq After(OfKinds(Records, request.kinds))
  /\ request.step = "get" /\ request.kinds = client.kinds =>
       \A o \in Objects \ client.leftOut :
          \/ o \in request.keys
          \/ Left(o) \subseteq request.found
          \/ request.keys = {} /\ request.found = {} /\ Left(o) \subseteq rows
  /\ request.step \in {"keys", "list", "get"} /\ request.kinds # client.kinds => InRows
  /\ request.step = "table" => InRows

WalkInv ==
  /\ TypeOK /\ ClientOK /\ KnownKept /\ Searched
  /\ NothingPassed /\ WalkComplete

-----------------------------------------------------------------------------
(* What is used of the constants.                                          *)
LEMMA Given ==
  /\ Records \subseteq Nat \ {0} /\ NoObject \notin Objects
  /\ Asks \subseteq SUBSET Kinds /\ Limits \subseteq Nat \ {0} /\ Message \in Kinds
  /\ \A kinds \in Asks : Message \in kinds => kinds = {Message}
  /\ KindOf \in [Records -> Kinds] /\ MaxParser \in Nat /\ MaxFaults \in Nat
  /\ \A c \in Containers :
       /\ c.holds \in [Objects -> Seq(SUBSET Records)]
       /\ c.carriers \subseteq Objects /\ c.posted \subseteq Records
  BY WalkAssumption DEF Records, Container

(* A nonempty set of numbers has a least one.                              *)
LEMMA LeastNat ==
  ASSUME NEW S, S \subseteq Nat, S # {}
  PROVE  \E x \in S : \A y \in S : x <= y
<1> DEFINE R == OpToRel(<, Nat)
<1>1. IsWellFoundedOn(R, Nat)
  BY NatLessThanWellFounded, Zenon
<1> HIDE DEF R
<1>2. PICK x \in S : \A y \in S : ~(<<y, x>> \in R)
  BY <1>1, WFMin, Zenon
<1>3. \A y \in S : y < x => <<y, x>> \in R
  BY DEF R, OpToRel
<1>4. \A y \in S : ~(y < x)
  BY <1>2, <1>3, Zenon
<1> QED
  BY <1>4, SMT

(* Min and Max of records.                                                 *)
LEMMA MinRecord ==
  ASSUME NEW S, S \subseteq Records, S # {}
  PROVE  Min(S) \in S /\ \A y \in S : Min(S) <= y
<1>1. \E x \in S : \A y \in S : x <= y
  BY Given, LeastNat
<1> QED
  BY <1>1 DEF Min

LEMMA MaxRecord ==
  ASSUME NEW S, S \subseteq Records, S # {}
  PROVE  Max(S) \in S /\ \A y \in S : y <= Max(S)
<1> DEFINE below == {n \in Nat : \E x \in S : n + x = LastRecord}
<1>0. LastRecord \in Nat /\ S \subseteq 1 .. LastRecord
  BY WalkAssumption DEF Records
<1>1. below # {}
  <2>1. PICK x \in S : TRUE
    OBVIOUS
  <2>2. LastRecord - x \in below
    BY <1>0, <2>1
  <2> QED
    BY <2>2
<1>2. PICK n \in below : \A k \in below : n <= k
  BY <1>1, LeastNat
<1>3. PICK x \in S : n + x = LastRecord
  BY <1>2
<1>4. \A y \in S : y <= x
  <2> SUFFICES ASSUME NEW y \in S PROVE y <= x
    OBVIOUS
  <2>1. LastRecord - y \in below
    BY <1>0
  <2>2. n <= LastRecord - y
    BY <1>2, <2>1
  <2> QED
    BY <1>0, <1>3, <2>2
<1>5. \A y \in S : x >= y
  BY <1>0, <1>4
<1> HIDE DEF below
<1>6. Max(S) \in S /\ \A y \in S : Max(S) >= y
  BY <1>5 DEF Max
<1> QED
  BY <1>0, <1>6

(* A page holds the first records of what was found: nothing before its    *)
(* last record is missing, and it is empty only if nothing was found.      *)
LEMMA PageOfFirst ==
  ASSUME NEW S, S \subseteq Records, NEW n \in Nat \ {0}
  PROVE  /\ First(n, S) \subseteq S
         /\ S # {} => First(n, S) # {}
         /\ First(n, S) # {} => \A r \in S : r <= Max(First(n, S)) => r \in First(n, S)
<1> DEFINE before(r) == {q \in S : q < r}
<1>0. S \subseteq Nat /\ IsFiniteSet(S)
  <2>1. IsFiniteSet(Records)
    BY WalkAssumption, FS_Interval DEF Records
  <2> QED
    BY <2>1, Given, FS_Subset
<1>1. First(n, S) = {r \in S : Cardinality(before(r)) < n}
  BY DEF First
<1>2. ASSUME NEW r \in S PROVE IsFiniteSet(before(r)) /\ Cardinality(before(r)) \in Nat
  BY <1>0, FS_Subset, FS_CardinalityType
<1>3. ASSUME S # {} PROVE First(n, S) # {}
  <2>1. PICK r \in S : \A y \in S : r <= y
    BY <1>0, <1>3, LeastNat
  <2>2. before(r) = {}
    <3>1. \A q \in S : ~(q < r)
      BY <1>0, <2>1
    <3> QED
      BY <3>1
  <2>3. Cardinality(before(r)) = 0
    BY <2>2, FS_EmptySet
  <2> QED
    BY <1>1, <2>3
<1>4. ASSUME First(n, S) # {}, NEW r \in S, r <= Max(First(n, S)) PROVE r \in First(n, S)
  <2> DEFINE x == Max(First(n, S))
  <2>1. x \in First(n, S)
    BY <1>1, <1>4, MaxRecord
  <2>2. x \in S /\ Cardinality(before(x)) < n
    BY <1>1, <2>1
  <2>3. before(r) \subseteq before(x)
    <3>1. r \in Nat /\ x \in Nat /\ r <= x
      BY <1>0, <1>4, <2>2
    <3> HIDE DEF x
    <3>2. \A q \in S : q < r => q < x
      BY <1>0, <3>1
    <3> QED
      BY <3>2
  <2>4. Cardinality(before(r)) <= Cardinality(before(x))
    BY <1>2, <2>2, <2>3, FS_Subset
  <2>5. Cardinality(before(r)) < n
    BY <1>2, <2>2, <2>4
  <2> QED
    BY <1>1, <2>5
<1> QED
  BY <1>1, <1>3, <1>4

-----------------------------------------------------------------------------
(* What an object holds of the container, at its uploads.                  *)
LEMMA HeldType ==
  ASSUME TypeOK, NEW o \in Objects, NEW v \in 0 .. upload[o]
  PROVE  Held(o, v) \subseteq Records
<1>1. container.holds[o] \in Seq(SUBSET Records) /\ upload[o] \in 0 .. Len(container.holds[o])
  BY Given DEF TypeOK
<1>2. v # 0 => v \in DOMAIN container.holds[o]
  BY <1>1
<1>3. v # 0 => container.holds[o][v] \in SUBSET Records
  BY <1>1, <1>2
<1> QED
  BY <1>3 DEF Held

LEMMA HeldGrows ==
  ASSUME UploadsGrow, TypeOK, TypeOK', container' = container,
         NEW o \in Objects, upload[o] <= upload'[o]
  PROVE  Held(o, upload[o]) \subseteq Held(o, upload[o])'
<1>1. container.holds[o] \in Seq(SUBSET Records) /\ upload[o] \in 0 .. Len(container.holds[o])
      /\ upload'[o] \in 0 .. Len(container.holds[o]) /\ container \in Containers
  BY SMTT(30), Given DEF TypeOK
<1>2. upload[o] # 0 => /\ upload[o] \in DOMAIN container.holds[o]
                       /\ upload'[o] \in DOMAIN container.holds[o]
  BY <1>1
<1>3. upload[o] # 0 => container.holds[o][upload[o]] \subseteq container.holds[o][upload'[o]]
  BY <1>1, <1>2 DEF UploadsGrow
<1> QED
  BY <1>1, <1>3 DEF Held

(* Types, initially and after every step.                                  *)
LEMMA InitTyped == Init => TypeOK
<1> SUFFICES ASSUME Init PROVE TypeOK
  OBVIOUS
<1>1. container \in Containers /\ \A o \in Objects : Len(container.holds[o]) \in Nat
  BY Given DEF Init
<1>2. rows \subseteq Records
  BY <1>1, Given DEF Init
<1> QED
  BY <1>1, <1>2 DEF Init, TypeOK, NoEntry, Entry, NoJob, NoWalk, NoRequest

(* The scanner's steps.                                                    *)
LEMMA ScanTyped ==
  ASSUME TypeOK,
         Flush \/ FinishProcess \/ ProcessFails \/ \E o \in Objects : BeginProcess(o)
  PROVE  TypeOK'
<1> USE DEF TypeOK, bucket
<1>1. ASSUME NEW o \in Objects, BeginProcess(o) PROVE TypeOK'
  <2>1. [status |-> "processing", upload |-> upload[o], parser |-> parser,
         names |-> entry[o].names] \in Entry
    BY DEF Entry
  <2>2. upload[o] \in 1 .. upload[o]
    BY <1>1 DEF BeginProcess, Due
  <2> QED
    BY <1>1, <2>1, <2>2 DEF BeginProcess
<1>2. CASE Flush
  <2>1. job.object \in Objects /\ job.upload \in 0 .. upload[job.object]
    BY <1>2 DEF Flush
  <2>2. Missing \subseteq Records
    BY <2>1, HeldType DEF Missing
  <2>3. Min(Missing) \in Records
    BY <1>2, <2>2, MinRecord DEF Flush
  <2> QED
    BY <1>2, <2>3 DEF Flush
<1>3. CASE FinishProcess
  <2>1. job.object \in Objects /\ entry[job.object] \in Entry
    BY <1>3 DEF FinishProcess
  <2>2. entry' \in [Objects -> Entry]
    BY <1>3, <2>1 DEF FinishProcess, Entry
  <2> QED
    BY <1>3, <2>2, Given DEF FinishProcess, NoJob
<1>4. CASE ProcessFails
  <2>1. job.object \in Objects /\ entry[job.object] \in Entry
    BY <1>4 DEF ProcessFails
  <2>2. entry' \in [Objects -> Entry]
    BY <1>4, <2>1 DEF ProcessFails, Entry
  <2> QED
    BY <1>4, <2>2, Given DEF ProcessFails, NoJob
<1> QED
  BY <1>1, <1>2, <1>3, <1>4

(* The steps of a request.                                                 *)
LEMMA AnswerTyped ==
  ASSUME TypeOK, NEW page, page \subseteq Records, Answer(page),
         UNCHANGED <<bucket, index, faults>>
  PROVE  TypeOK'
<1>1. page # {} => Max(page) \in Nat
  BY MaxRecord, Given
<1> QED
  BY <1>1 DEF TypeOK, Answer, bucket, index, NoRequest

LEMMA ServeTyped ==
  ASSUME TypeOK, ClientOK, Ask \/ Serve \/ RequestFails
  PROVE  TypeOK'
<1> USE DEF TypeOK, bucket, index
<1>1. CASE Ask
  BY <1>1 DEF Ask, NoRequest
<1>2. CASE ReadRegistry
  BY <1>2 DEF ReadRegistry, LeaveOut, NamedKeys
<1>3. CASE ListBucket
  BY <1>3, Given DEF ListBucket, LeaveOut, Listed
<1>4. CASE GetObject
  <2>1. PICK o \in request.keys : request' = [request EXCEPT
         !.keys = @ \ {o},
         !.found = @ \cup After(OfKinds(Held(o, upload[o]), request.kinds))]
    BY <1>4 DEF GetObject
  <2>2. Held(o, upload[o]) \subseteq Records
    BY HeldType
  <2>3. After(OfKinds(Held(o, upload[o]), request.kinds)) \subseteq Records
    BY <2>2 DEF After, OfKinds
  <2> QED
    BY <1>4, <2>1, <2>3 DEF GetObject
<1>5. ASSUME NEW S, S \subseteq Records, request.step # "none" PROVE Page(S) \subseteq Records
  <2>1. client.limit \in Nat \ {0}
    BY <1>5, Given DEF ClientOK
  <2> QED
    BY <1>5, <2>1, PageOfFirst DEF Page
<1>6. CASE AnswerRaw
  BY <1>5, <1>6, AnswerTyped DEF AnswerRaw
<1>7. CASE FallBack
  BY ZenonT(30), <1>7, Given DEF FallBack, NoRequest
<1>8. CASE AnswerTable
  <2>1. After(OfKinds(rows, RowKinds)) \subseteq Records
    BY DEF After, OfKinds
  <2> QED
    BY <1>5, <1>8, <2>1, AnswerTyped DEF AnswerTable
<1>9. CASE RequestFails
  BY <1>9 DEF RequestFails, NoRequest
<1> QED
  BY <1>1, <1>2, <1>3, <1>4, <1>6, <1>7, <1>8, <1>9 DEF Serve

LEMMA StepTyped ==
  ASSUME TypeOK, ClientOK, [Next]_vars
  PROVE  TypeOK'
<1> USE DEF TypeOK, bucket, index
<1>1. ASSUME NEW o \in Objects, Upload(o) PROVE TypeOK'
  <2>1. \A x \in Objects : Len(container.holds[x]) \in Nat
    BY Given
  <2>2. job # NoJob => job.upload \in 1 .. upload'[job.object]
    BY <1>1 DEF Upload
  <2> QED
    BY <1>1, <2>1, <2>2 DEF Upload
<1>2. CASE Restart
  BY <1>2, Given DEF Restart, NoJob, NoRequest
<1>3. ASSUME NEW kinds \in Asks, NEW limit \in Limits, StartWalk(kinds, limit) PROVE TypeOK'
  <2>1. ASSUME NEW o \in Objects PROVE Known(o) \subseteq Records
    <3>1. upload[o] \in 0 .. upload[o]
      OBVIOUS
    <3>2. Held(o, upload[o]) \subseteq Records
      BY <3>1, HeldType
    <3> QED
      BY <3>2 DEF Known
  <2>2. [o \in Objects |-> Known(o)] \in [Objects -> SUBSET Records]
    BY <2>1
  <2>3. limit \in Nat /\ kinds \in SUBSET Kinds
    BY Given
  <2> QED
    BY <1>3, <2>2, <2>3 DEF StartWalk, NoWalk
<1>4. CASE UNCHANGED vars
  BY <1>4 DEF vars
<1> QED
  BY <1>1, <1>2, <1>3, <1>4, ScanTyped, ServeTyped DEF Next, Scan

-----------------------------------------------------------------------------
(* What the steps change.                                                  *)

(* Uploads and rows are added, the container walked is the same.           *)
LEMMA Grows ==
  ASSUME TypeOK, [Next]_vars
  PROVE  /\ container' = container /\ rows \subseteq rows'
         /\ \A o \in Objects : upload[o] <= upload'[o]
<1>1. container' = container /\ rows \subseteq rows'
  BY DEF Next, vars, bucket, index, Ask, Serve, RequestFails, Scan, ProcessFails, Restart,
         Upload, StartWalk, ReadRegistry, ListBucket, GetObject, AnswerRaw, FallBack,
         AnswerTable, Flush, FinishProcess, BeginProcess
<1>2. upload' = upload \/ \E o \in Objects : upload' = [upload EXCEPT ![o] = @ + 1]
  BY DEF Next, vars, bucket, index, Ask, Serve, RequestFails, Scan, ProcessFails, Restart,
         Upload, StartWalk, ReadRegistry, ListBucket, GetObject, AnswerRaw, FallBack,
         AnswerTable, Flush, FinishProcess, BeginProcess
<1>3. upload \in [Objects -> Nat]
  BY DEF TypeOK
<1> QED
  BY <1>1, <1>2, <1>3

(* The steps that are neither the client's nor those of a request.         *)
LEMMA Elsewhere ==
  ASSUME [Next]_vars
  PROVE  \/ UNCHANGED <<client, request>>
         \/ UNCHANGED client /\ request' = NoRequest
         \/ Ask \/ Serve
         \/ \E kinds \in Asks, limit \in Limits : StartWalk(kinds, limit)
  BY DEF Next, vars, bucket, index, RequestFails, Scan, ProcessFails, Restart, Upload,
         Flush, FinishProcess, BeginProcess

(* The client during a walk.                                               *)
LEMMA WalkFrame ==
  ASSUME TypeOK, [Next]_vars
  PROVE  \/ \E kinds \in Asks, limit \in Limits : StartWalk(kinds, limit)
         \/ /\ UNCHANGED <<client.known, client.kinds, client.limit>>
            /\ client.leftOut \subseteq client'.leftOut
            /\ client'.step = "walking" => client.step = "walking"
<1> DEFINE Kept == /\ UNCHANGED <<client.known, client.kinds, client.limit>>
                   /\ client.leftOut \subseteq client'.leftOut
                   /\ client'.step = "walking" => client.step = "walking"
<1>1. ASSUME Ask \/ Serve PROVE Kept
  <2>1. CASE Ask \/ GetObject \/ FallBack
    BY <2>1 DEF Ask, GetObject, FallBack
  <2>2. ASSUME NEW keys, LeaveOut(keys) PROVE Kept
    BY <2>2 DEF LeaveOut, TypeOK
  <2>3. ASSUME NEW page, Answer(page) PROVE Kept
    BY <2>3 DEF Answer, TypeOK
  <2> QED
    BY <1>1, <2>1, <2>2, <2>3 DEF Serve, ReadRegistry, ListBucket, AnswerRaw, AnswerTable
<1> QED
  BY <1>1, Elsewhere

LEMMA ClientOKStep ==
  ASSUME TypeOK, ClientOK, [Next]_vars
  PROVE  ClientOK'
<1>1. ASSUME NEW kinds \in Asks, NEW limit \in Limits, StartWalk(kinds, limit)
      PROVE  ClientOK'
  BY <1>1 DEF StartWalk, ClientOK, NoWalk
<1> QED
  BY <1>1, WalkFrame DEF ClientOK

-----------------------------------------------------------------------------
(* What the client was promised is not taken away.                         *)
LEMMA KnownKeptStep ==
  ASSUME UploadsGrow, TypeOK, TypeOK', KnownKept, [Next]_vars
  PROVE  KnownKept'
<1> SUFFICES ASSUME NEW o \in Objects
             PROVE  /\ client'.known[o] \subseteq Held(o, upload[o])'
                    /\ o \notin container'.carriers => client'.known[o] \subseteq rows'
  BY DEF KnownKept
<1>1. container' = container /\ rows \subseteq rows' /\ upload[o] <= upload'[o]
  BY Grows
<1>2. Held(o, upload[o]) \subseteq Held(o, upload[o])'
  BY <1>1, HeldGrows
<1>3. CASE client'.known = client.known
  BY <1>1, <1>2, <1>3 DEF KnownKept
<1>4. ASSUME NEW kinds \in Asks, NEW limit \in Limits, StartWalk(kinds, limit)
      PROVE  client'.known[o] = Known(o)
  BY <1>4 DEF StartWalk, NoWalk
<1>5. CASE client'.known[o] = Known(o)
  BY <1>1, <1>2, <1>5 DEF Known
<1> QED
  BY <1>3, <1>4, <1>5, WalkFrame

-----------------------------------------------------------------------------
(* A request leaves nothing behind that the client is owed.                *)

(* The objects that are read, whether the registry or the listing named    *)
(* them, are all that are not left out.                                    *)
LEMMA KeysRead ==
  ASSUME TypeOK, KnownKept, NEW keys, keys # {}, LeaveOut(keys),
         NEW o \in Objects \ client'.leftOut
  PROVE  o \in keys \/ Owed(o) = {}
<1>1. o \in keys \/ upload[o] = 0
  BY DEF LeaveOut, TypeOK
<1>2. upload[o] = 0 => client.known[o] = {}
  BY DEF KnownKept, Held
<1> QED
  BY <1>1, <1>2 DEF Owed, OfKinds

(* As long as the client is where it was, what it is owed stays the same,  *)
(* and what is in the table stays there.                                   *)
LEMMA InRowsKept ==
  ASSUME UNCHANGED <<client.known, client.kinds, client.cursor>>,
         client.leftOut \subseteq client'.leftOut, rows \subseteq rows', InRows
  PROVE  InRows'
  BY DEF InRows, Left, Owed, OfKinds, After

LEMMA SearchedStep ==
  ASSUME TypeOK, ClientOK, KnownKept, Searched, [Next]_vars
  PROVE  Searched'
<1> USE DEF TypeOK
<1>0. rows \subseteq rows'
  BY Grows
<1>1. CASE UNCHANGED <<client, request>>
  <2>1. \A o : Left(o)' = Left(o)
    BY <1>1 DEF Left, Owed, OfKinds, After
  <2>2. InRows => InRows'
    BY <1>0, <1>1, InRowsKept
  <2>3. \A S : After(S)' = After(S)
    BY <1>1 DEF After
  <2>4. (request.found \subseteq After(OfKinds(Records, request.kinds)))'
    BY <1>1 DEF Searched, OfKinds, After
  <2> QED
    BY <1>0, <1>1, <2>1, <2>2, <2>4 DEF Searched
<1>2. CASE request' = NoRequest
  BY <1>2 DEF Searched, NoRequest
<1>3. CASE Ask
  BY <1>3 DEF Ask, Searched, NoRequest
<1>4. ASSUME NEW kinds \in Asks, NEW limit \in Limits, StartWalk(kinds, limit)
      PROVE  Searched'
  <2>1. request' = request /\ request.step = "none"
    BY <1>4 DEF StartWalk
  <2> QED
    BY <2>1 DEF Searched
<1>5. CASE ReadRegistry
  <2>1. /\ request.step = "keys" /\ LeaveOut(NamedKeys) /\ rows' = rows
        /\ request'.step = (IF NamedKeys = {} THEN "list" ELSE "get")
        /\ request'.keys = NamedKeys /\ UNCHANGED <<request.kinds, request.found>>
    BY <1>5 DEF ReadRegistry, index
  <2>2. UNCHANGED <<client.known, client.kinds, client.cursor>>
        /\ client.leftOut \subseteq client'.leftOut
    BY <2>1 DEF LeaveOut
  <2>3. request'.step = "get" => \A o \in Objects \ client'.leftOut :
          o \in request'.keys \/ Left(o)' \subseteq request'.found
    <3>1. \A o : Owed(o)' = Owed(o)
      BY <2>2 DEF Owed, OfKinds
    <3> QED
      BY <2>1, <3>1, KeysRead DEF Left, After
  <2>4. InRows => InRows'
    BY <2>1, <2>2, InRowsKept
  <2>5. request'.found = {} /\ request'.kinds \in {client'.kinds, {Message}}
    BY <2>1, <2>2 DEF Searched
  <2> QED
    BY <2>1, <2>2, <2>3, <2>4, <2>5 DEF Searched
<1>6. CASE ListBucket
  <2>1. /\ request.step = "list" /\ LeaveOut(Listed) /\ rows' = rows
        /\ request'.step = "get"
        /\ request'.keys = Listed /\ UNCHANGED <<request.kinds, request.found>>
    BY <1>6 DEF ListBucket, index
  <2>2. UNCHANGED <<client.known, client.kinds, client.cursor>>
        /\ client.leftOut \subseteq client'.leftOut
    BY <2>1 DEF LeaveOut
  <2>3. request'.found = {} /\ request'.kinds \in {client'.kinds, {Message}}
    BY <2>1, <2>2 DEF Searched
  <2>4. \A o : Left(o)' = Left(o) /\ (Owed(o) = {} => Left(o) = {})
    BY <2>2 DEF Left, Owed, OfKinds, After
  <2>5. ASSUME NEW o \in Objects \ client'.leftOut
        PROVE  \/ o \in request'.keys
               \/ Left(o)' \subseteq request'.found
               \/ request'.keys = {} /\ request'.found = {} /\ Left(o)' \subseteq rows'
    <3>1. CASE Listed # {}
      BY <2>1, <2>4, <3>1, KeysRead
    <3>2. CASE Listed = {} /\ o \in container.carriers
      <4>1. upload[o] = 0
        BY <3>2 DEF Listed
      <4>2. Owed(o) = {}
        BY <4>1 DEF KnownKept, Held, Owed, OfKinds
      <4> QED
        BY <2>4, <4>2
    <3>3. CASE Listed = {} /\ o \notin container.carriers
      <4>1. Left(o) \subseteq rows
        BY <3>3 DEF KnownKept, Left, Owed, OfKinds, After
      <4> QED
        BY <2>1, <2>3, <2>4, <3>3, <4>1
    <3> QED
      BY <3>1, <3>2, <3>3
  <2>6. InRows => InRows'
    BY <2>1, <2>2, InRowsKept
  <2> QED
    BY <2>1, <2>2, <2>3, <2>5, <2>6 DEF Searched
<1>7. CASE GetObject
  <2>1. PICK x \in request.keys : request' = [request EXCEPT
         !.keys = @ \ {x},
         !.found = @ \cup After(OfKinds(Held(x, upload[x]), request.kinds))]
    BY <1>7 DEF GetObject
  <2>2. /\ request.step = "get" /\ request'.step = "get" /\ client' = client /\ rows' = rows
        /\ request'.keys = request.keys \ {x} /\ request'.kinds = request.kinds
        /\ request'.found = request.found \cup After(OfKinds(Held(x, upload[x]), request.kinds))
    BY <1>7, <2>1 DEF GetObject, index
  <2>3. \A o : Left(o)' = Left(o)
    BY <2>2 DEF Left, Owed, OfKinds, After
  <2>4. request.kinds = client.kinds => Left(x) \subseteq request'.found
    BY <2>2 DEF KnownKept, Left, Owed, OfKinds, After
  <2>5. request.kinds = client.kinds => \A o \in Objects \ client'.leftOut :
          o \in request'.keys \/ Left(o)' \subseteq request'.found
    BY <2>1, <2>2, <2>3, <2>4 DEF Searched
  <2>6. request'.found \subseteq After(OfKinds(Records, request.kinds))'
    <3>1. Held(x, upload[x]) \subseteq Records
      BY <2>1, HeldType
    <3> QED
      BY <2>2, <3>1 DEF Searched, OfKinds, After
  <2>7. InRows => InRows'
    BY <2>2, InRowsKept
  <2> QED
    BY <2>2, <2>5, <2>6, <2>7 DEF Searched
<1>8. CASE FallBack
  <2>1. /\ request.step = "get" /\ request.keys = {} /\ request.found = {}
        /\ client' = client /\ rows' = rows
    BY <1>8 DEF FallBack, index
  <2>2. InRows
    <3>1. CASE request.kinds = client.kinds
      BY <2>1, <3>1 DEF Searched, InRows
    <3>2. CASE request.kinds # client.kinds
      BY <2>1, <3>2 DEF Searched
    <3> QED
      BY <3>1, <3>2
  <2>3. InRows'
    BY <2>1, <2>2, InRowsKept
  <2>4. request'.found = {} /\ request'.step \in {"keys", "table"}
        /\ (request'.step = "keys" => request'.kinds = {Message})
    BY <1>8 DEF FallBack, NoRequest
  <2> QED
    BY <2>3, <2>4 DEF Searched
<1>9. AnswerRaw \/ AnswerTable => request' = NoRequest
  BY DEF AnswerRaw, AnswerTable, Answer
<1> QED
  BY <1>1, <1>2, <1>3, <1>4, <1>5, <1>6, <1>7, <1>8, <1>9, Elsewhere DEF Serve

-----------------------------------------------------------------------------
(* What the client is given.                                               *)

(* A page of records among which is all that the client is owed.           *)
LEMMA Answered ==
  ASSUME TypeOK, ClientOK, NothingPassed, request.step # "none",
         NEW S, S \subseteq Records, Answer(Page(S)),
         OnlyAsked' => \A r \in Promised : r > client.cursor => r \in S
  PROVE  NothingPassed' /\ WalkComplete'
<1> DEFINE page == Page(S)
<1>1. client.limit \in Nat \ {0} /\ client.step = "walking" /\ client.cursor \in Nat
  BY Given DEF TypeOK, ClientOK
<1>2. /\ page \subseteq S
      /\ S # {} => page # {}
      /\ page # {} => \A r \in S : r <= Max(page) => r \in page
  BY <1>1, PageOfFirst DEF Page
<1> HIDE DEF page
<1>3. /\ UNCHANGED <<client.known, client.kinds, client.leftOut>>
      /\ client'.step = (IF page = {} THEN "done" ELSE "walking")
      /\ client'.cursor = (IF page = {} THEN client.cursor ELSE Max(page))
      /\ client'.given = client.given \cup page
  BY <1>1 DEF Answer, TypeOK, page
<1>4. OnlyAsked' => OnlyAsked
  BY <1>3 DEF OnlyAsked, OfKinds
<1>5. \A o : Owed(o)' = Owed(o)
  BY <1>3 DEF Owed, OfKinds
<1>6. Promised' # {} => OnlyAsked' /\ OnlyAsked /\ Promised' = Promised
  BY <1>3, <1>4, <1>5 DEF Promised
<1>7. Promised \subseteq Records
  BY DEF Promised, Owed, OfKinds, TypeOK
<1>8. ASSUME NEW r \in Promised' PROVE r <= client'.cursor => r \in client'.given
  <2>1. r \in Promised /\ OnlyAsked' /\ r \in Nat
    BY <1>6, <1>7, <1>8, Given
  <2>2. CASE r <= client.cursor
    BY <1>3, <2>1, <2>2 DEF NothingPassed
  <2>3. CASE r > client.cursor
    BY <1>1, <1>2, <1>3, <2>1, <2>3
  <2> QED
    BY <1>1, <2>1, <2>2, <2>3
<1>9. ASSUME NEW r \in Promised', client'.step = "done" PROVE r \in client'.given
  <2>1. r \in Promised /\ OnlyAsked' /\ r \in Nat /\ S = {}
    BY <1>2, <1>3, <1>6, <1>7, <1>9, Given
  <2>2. r <= client.cursor
    BY <1>1, <2>1
  <2> QED
    BY <1>3, <2>1, <2>2 DEF NothingPassed
<1> QED
  BY <1>8, <1>9 DEF NothingPassed, WalkComplete

(* The walk of messages, after one of another kind, gives what was not     *)
(* asked for.                                                              *)
LEMMA AnswerRawStep ==
  ASSUME TypeOK, ClientOK, NothingPassed, Searched, AnswerRaw
  PROVE  NothingPassed' /\ WalkComplete'
<1>1. /\ request.step = "get" /\ request.keys = {} /\ request.found # {}
      /\ Answer(Page(request.found)) /\ request.found \subseteq Records
      /\ client.step = "walking"
  BY DEF AnswerRaw, TypeOK
<1>2. CASE request.kinds = client.kinds
  <2>1. \A o \in Objects \ client.leftOut : Left(o) \subseteq request.found
    BY <1>1, <1>2 DEF Searched
  <2>2. \A r \in Promised : r > client.cursor => r \in request.found
    BY <2>1 DEF Promised, Left, After
  <2> QED
    BY <1>1, <2>2, Answered
<1>3. CASE request.kinds # client.kinds
  <2>1. request.kinds = {Message} /\ Message \notin client.kinds
    BY <1>1, <1>3, Given DEF Searched, ClientOK
  <2>2. client.limit \in Nat \ {0}
    BY <1>1, Given DEF ClientOK
  <2>3. Page(request.found) # {} /\ Page(request.found) \subseteq request.found
    BY <1>1, <2>2, PageOfFirst DEF Page
  <2>4. PICK r \in Page(request.found) : r \in client'.given
    BY <1>1, <2>3 DEF Answer, TypeOK
  <2>5. KindOf[r] \notin client'.kinds
    BY <1>1, <2>1, <2>3 DEF Searched, After, OfKinds, Answer, TypeOK
  <2>6. ~OnlyAsked'
    BY <2>4, <2>5 DEF OnlyAsked, OfKinds
  <2> QED
    BY <1>1, <2>6, Answered
<1> QED
  BY <1>2, <1>3

LEMMA AnswerTableStep ==
  ASSUME TypeOK, ClientOK, NothingPassed, Searched, AnswerTable
  PROVE  NothingPassed' /\ WalkComplete'
<1>1. request.step = "table" /\ Answer(Page(After(OfKinds(rows, RowKinds))))
  BY DEF AnswerTable
<1>2. After(OfKinds(rows, RowKinds)) \subseteq Records
  BY DEF After, OfKinds, TypeOK
<1>3. client.kinds \subseteq RowKinds
  BY DEF RowKinds, TypeOK
<1>4. \A r \in Promised : r > client.cursor => r \in After(OfKinds(rows, RowKinds))
  BY <1>1, <1>3 DEF Searched, InRows, Left, Promised, Owed, After, OfKinds
<1> QED
  BY <1>1, <1>2, <1>4, Answered

(* While nothing is given, an object that is left out is all that changes. *)
LEMMA NotGiven ==
  ASSUME UNCHANGED <<client.known, client.kinds, client.cursor, client.given, client.step>>,
         client.leftOut \subseteq client'.leftOut, NothingPassed, WalkComplete
  PROVE  NothingPassed' /\ WalkComplete'
<1>1. OnlyAsked' = OnlyAsked /\ \A o : Owed(o)' = Owed(o)
  BY DEF OnlyAsked, Owed, OfKinds
<1>2. Promised' \subseteq Promised
  BY <1>1 DEF Promised
<1> QED
  BY <1>2 DEF NothingPassed, WalkComplete

LEMMA GivenStep ==
  ASSUME WalkInv, TypeOK', [Next]_vars
  PROVE  NothingPassed' /\ WalkComplete'
<1> USE DEF WalkInv
<1>1. CASE UNCHANGED client
  BY <1>1, NotGiven
<1>2. ASSUME NEW kinds \in Asks, NEW limit \in Limits, StartWalk(kinds, limit)
      PROVE  NothingPassed' /\ WalkComplete'
  <2>1. client'.step = "walking" /\ client'.cursor = 0
    BY <1>2 DEF StartWalk, NoWalk
  <2>2. Promised' \subseteq Records
    BY DEF Promised, Owed, OfKinds, TypeOK
  <2>3. \A r \in Records : ~(r <= 0)
    BY Given
  <2> QED
    BY <2>1, <2>2, <2>3 DEF NothingPassed, WalkComplete
<1>3. ASSUME NEW keys, LeaveOut(keys) PROVE NothingPassed' /\ WalkComplete'
  <2>1. UNCHANGED <<client.known, client.kinds, client.cursor, client.given, client.step>>
        /\ client.leftOut \subseteq client'.leftOut
    BY <1>3 DEF LeaveOut, TypeOK
  <2> QED
    BY <2>1, NotGiven
<1>4. CASE Ask \/ Serve
  BY <1>1, <1>3, <1>4, AnswerRawStep, AnswerTableStep
     DEF Ask, Serve, ReadRegistry, ListBucket, GetObject, FallBack
<1> QED
  BY <1>1, <1>2, <1>4, Elsewhere

-----------------------------------------------------------------------------
LEMMA WalkInit == Init => WalkInv
<1> SUFFICES ASSUME Init PROVE WalkInv
  OBVIOUS
<1>1. /\ client = NoWalk /\ request = NoRequest
  BY DEF Init
<1>2. ClientOK /\ KnownKept /\ Searched
  BY <1>1 DEF ClientOK, KnownKept, Searched, NoWalk, NoRequest
<1>3. Promised = {}
  BY <1>1 DEF Promised, Owed, OfKinds, NoWalk
<1> QED
  BY <1>2, <1>3, InitTyped DEF WalkInv, NothingPassed, WalkComplete

LEMMA WalkStep ==
  ASSUME UploadsGrow, WalkInv, [Next]_vars
  PROVE  WalkInv'
<1>1. TypeOK'
  BY StepTyped DEF WalkInv
<1> QED
  BY <1>1, ClientOKStep, KnownKeptStep, SearchedStep, GivenStep DEF WalkInv

(* A cursor passes no record of the container that was there, and in reach, *)
(* when the walk began (handleMemoryContainer, rawContainerFetch): not when *)
(* objects grow or are indexed again between pages, not when the daemon is  *)
(* restarted, and not when pages come from different places.                *)
THEOREM WalkPassesNothing == UploadsGrow => (Spec => []NothingPassed)
<1> SUFFICES ASSUME UploadsGrow PROVE Spec => []NothingPassed
  OBVIOUS
<1>1. WalkInv => NothingPassed
  BY DEF WalkInv
<1> QED
  BY <1>1, WalkInit, WalkStep, PTL DEF Spec

(* A walk that ends at an empty page has given its client all of them.      *)
THEOREM WalkGivesAll == UploadsGrow => (Spec => []WalkComplete)
<1> SUFFICES ASSUME UploadsGrow PROVE Spec => []WalkComplete
  OBVIOUS
<1>1. WalkInv => WalkComplete
  BY DEF WalkInv
<1> QED
  BY <1>1, WalkInit, WalkStep, PTL DEF Spec

(* Every variable keeps its type, whatever the uploads hold.                *)
THEOREM WalkTyped == Spec => []TypeOK
<1>1. Init => TypeOK /\ ClientOK
  BY InitTyped DEF Init, ClientOK, NoWalk
<1>2. TypeOK /\ ClientOK /\ [Next]_vars => TypeOK' /\ ClientOK'
  BY StepTyped, ClientOKStep
<1> QED
  BY <1>1, <1>2, PTL DEF Spec
=============================================================================
