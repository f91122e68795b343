------------------------------ MODULE BlockCache ------------------------------
(***************************************************************************)
(* Reads of one immutable Lance file through the disk cache                *)
(* (docker/lancedb-go-disk-cache.rs): blocks found on disk, fetches shared *)
(* between concurrent readers, eviction, deletion and readers that are     *)
(* dropped half-way.  One action per access to the cache state, the        *)
(* in-flight map or the remote store.                                      *)
(*                                                                         *)
(* The ranges of one get_ranges call are read together (try_join_all): the *)
(* first that fails drops its siblings wherever they are.  A fetch is a    *)
(* Shared future: it moves only while some reader polls it.  Which entry   *)
(* the LRU evicts, and when a write is refused, is left open here          *)
(* (CacheSpace); only whether a block is cached matters.                   *)
(***************************************************************************)
EXTENDS Naturals, FiniteSets, Sequences, SequencesExt

CONSTANTS
  Readers,    \* ranges being read at a time
  SameCall,   \* [Readers -> SUBSET Readers]: the ranges of its get_ranges call
  Warmers,    \* readers that also copy warm-up chunks, which are not shared
  Starts,     \* blocks at which ranges start
  LastBlock,  \* the last block a range may name
  Size,       \* blocks of the file
  Flights,    \* identities of SpanFutures
  NoFlight,   \* not a flight
  Deletable,  \* whether the file is deleted at some time
  MaxFaults   \* bound on failing remote requests

Blocks == 0..LastBlock
Stored == 0..(Size - 1)

ASSUME CacheAssumption ==
  /\ LastBlock \in Nat /\ Size \in 1..(LastBlock + 1) /\ MaxFaults \in Nat
  /\ Starts \subseteq Blocks /\ Warmers \subseteq Readers
  /\ SameCall \in [Readers -> SUBSET Readers]
  /\ \A r \in Readers : r \in SameCall[r] /\ \A s \in SameCall[r] : SameCall[s] = SameCall[r]
  /\ \A r \in Warmers : SameCall[r] = {r}
  /\ NoFlight \notin Flights /\ Deletable \in BOOLEAN

VARIABLES
  remote,    \* the object in R2: stored, being deleted, deleted
  meta,      \* whether its metadata record is cached
  disk,      \* its cached blocks
  inflight,  \* [Blocks -> Flights \cup {NoFlight}]: Inflight, for this object
  flight,    \* [Flights -> Flight]: how far each fetch_span is
  pc,        \* [Readers -> step]
  span,      \* [Readers -> [lo, hi, next, share]]: the range, the block to look up
  known,     \* [Readers -> BOOLEAN]: get_blocks' meta is Some
  got,       \* [Readers -> SUBSET Blocks]: get_blocks' blocks that are Some
  own,       \* [Readers -> Flights \cup {NoFlight}]: the fetch it started
  waits,     \* [Readers -> Seq(Flights)]: shared fetches it awaits, in order
  faults     \* failed requests so far

cache   == <<meta, disk>>
reads   == <<span, known, got>>
vars    == <<remote, cache, inflight, flight, pc, reads, own, waits, faults>>

Steps == {"idle", "warm", "meta", "blocks", "join", "own", "wait", "direct",
          "answered", "warmed", "failed", "dropped"}
Ended  == {"answered", "warmed", "failed", "dropped"}
NoSpan == [lo |-> 0, hi |-> 0, next |-> 0, share |-> TRUE]
Flight == [step : {"get", "meta", "put", "done", "failed"}, lo : Blocks, hi : Blocks,
           next : Blocks \cup {LastBlock + 1}]
Landed == [step |-> "failed", lo |-> 0, hi |-> 0, next |-> 0]

Wanted(r)   == span[r].lo..span[r].hi
Finished(f) == flight[f].step \in {"done", "failed"}
Low(S)      == CHOOSE b \in S : \A c \in S : b <= c
High(S)     == CHOOSE b \in S : \A c \in S : b >= c
Goto(r, step) == pc' = [pc EXCEPT ![r] = step]

(* A flight somebody still refers to; any other is dropped.                *)
Live(f) ==
  \/ \E b \in Blocks : inflight[b] = f
  \/ \E r \in Readers : own[r] = f \/ Contains(waits[r], f)

(* Flights bounds the fetches that are referred to at a time: one more has  *)
(* to wait in the model.                                                   *)
Free  == {f \in Flights : ~Live(f)}
Fresh == CHOOSE f \in Free : TRUE

Keep(flights) == flight' = [f \in Flights |-> IF Live(f)' THEN flights[f] ELSE Landed]
DropUnused == Keep(flight)

(* needed(block), for the blocks of the range that are still None.         *)
Missing(r) == {b \in Wanted(r) \ got[r] : known[r] => b < Size}

(* What a finished fetch adds to the reader (fill, get_or_insert).         *)
Delivered(f) ==
  IF flight[f].step = "done" THEN (flight[f].lo..flight[f].hi) \cap Stored ELSE {}

-----------------------------------------------------------------------------
(* A read starts; warm-up first looks for blocks and records the metadata  *)
(* that it got from the listing.                                           *)

Begin(r) ==
  /\ pc[r] = "idle" /\ \A s \in SameCall[r] : pc[s] \notin Ended
  /\ \E lo \in Starts, hi \in Blocks, share \in BOOLEAN :
       /\ lo <= hi /\ (~share => r \in Warmers /\ hi \in Stored)
       /\ span' = [span EXCEPT ![r] = [lo |-> lo, hi |-> hi, next |-> lo, share |-> share]]
       /\ Goto(r, IF share THEN "meta" ELSE "warm")
  /\ UNCHANGED <<remote, cache, inflight, flight, known, got, own, waits, faults>>

WarmChunk(r) ==
  /\ pc[r] = "warm"
  /\ \/ Wanted(r) \subseteq disk /\ Goto(r, "warmed") /\ UNCHANGED meta
     \/ ~(Wanted(r) \subseteq disk) /\ Goto(r, "meta") /\ meta' = TRUE
  /\ UNCHANGED <<remote, disk, inflight, flight, reads, own, waits, faults>>

(* A range that starts past the known end is left to the remote store,     *)
(* which refuses it.                                                       *)
ReadMeta(r) ==
  /\ pc[r] = "meta"
  /\ known' = [known EXCEPT ![r] = meta]
  /\ Goto(r, CASE meta /\ span[r].lo >= Size -> "failed"
               [] meta /\ span[r].lo < Size  -> "blocks"
               [] ~meta                      -> "join")
  /\ UNCHANGED <<remote, cache, inflight, flight, span, got, own, waits, faults>>

(* Each block is looked up by itself; others run in between.               *)
ReadBlock(r) ==
  /\ pc[r] = "blocks"
  /\ got' = [got EXCEPT ![r] = @ \cup (disk \cap {span[r].next})]
  /\ span' = [span EXCEPT ![r].next = @ + 1]
  /\ Goto(r, IF span'[r].next \in Wanted(r) \cap Stored THEN "blocks" ELSE "join")
  /\ UNCHANGED <<remote, cache, inflight, flight, known, own, waits, faults>>

-----------------------------------------------------------------------------
(* The in-flight map, under its lock.                                      *)

NewFetch(lo, hi) == [step |-> "get", lo |-> lo, hi |-> hi, next |-> lo]

(* or_insert_with: a block that another fetch covers stays with it.        *)
StartFetch(r, f, lo, hi) ==
  /\ flight' = [flight EXCEPT ![f] = NewFetch(lo, hi)]
  /\ own' = [own EXCEPT ![r] = f]
  /\ inflight' = IF ~span[r].share THEN inflight
                 ELSE [b \in Blocks |-> IF b \in lo..hi /\ inflight[b] = NoFlight
                                        THEN f ELSE inflight[b]]

Join(r) ==
  /\ pc[r] = "join"
  /\ \/ /\ Missing(r) = {} /\ Goto(r, "answered")
        /\ UNCHANGED <<inflight, flight, own, waits>>
     \/ /\ Missing(r) # {} /\ \A b \in Missing(r) : inflight[b] # NoFlight
        /\ LET blocks == SetToSortSeq(Missing(r), <)
           IN  waits' = [waits EXCEPT ![r] = [i \in DOMAIN blocks |-> inflight[blocks[i]]]]
        /\ Goto(r, "wait")
        /\ UNCHANGED <<inflight, flight, own>>
     \/ /\ Free # {} /\ \E b \in Missing(r) : inflight[b] = NoFlight
        /\ \E lo \in 0..Low(Missing(r)) :     \* widen
             StartFetch(r, Fresh, lo, High(Missing(r)))
        /\ Goto(r, "own") /\ UNCHANGED waits
  /\ UNCHANGED <<remote, cache, reads, faults>>

(* meta.get_or_insert and fill, with what a fetch returned.                *)
Fill(r, f) ==
  /\ known' = [known EXCEPT ![r] = @ \/ flight[f].step = "done"]
  /\ got' = [got EXCEPT ![r] = @ \cup (Delivered(f) \cap Wanted(r))]

(* Mutant: what the shared fetch delivered is taken to be all.             *)
AfterTrusting(r) ==
  /\ Goto(r, "answered") /\ own' = [own EXCEPT ![r] = NoFlight] /\ DropUnused

(* Anything still missing is fetched directly.                             *)
After(r) ==
  \/ /\ Missing(r)' = {} /\ Goto(r, "answered")
     /\ own' = [own EXCEPT ![r] = NoFlight] /\ DropUnused
  \/ /\ Missing(r)' # {} /\ Free # {} /\ Goto(r, "direct")
     /\ own' = [own EXCEPT ![r] = Fresh]
     /\ Keep([flight EXCEPT ![Fresh] = NewFetch(Low(Missing(r)'), High(Missing(r)'))])

(* Mutant: the owner removes the entries of the range that it asked for,   *)
(* and not those that widening added.                                      *)
UnpublishNarrow(r) ==
  inflight' = [b \in Blocks |-> IF b \in Wanted(r) /\ inflight[b] = own[r] THEN NoFlight
                                ELSE inflight[b]]

Unpublish(r) ==
  inflight' = [b \in Blocks |-> IF inflight[b] = own[r] THEN NoFlight ELSE inflight[b]]

(* The owner takes the result and removes the entries that are its own.    *)
OwnDone(r) ==
  /\ pc[r] = "own" /\ Finished(own[r])
  /\ UNCHANGED <<remote, cache, span, waits, faults>>
  /\ Unpublish(r) /\ Fill(r, own[r]) /\ After(r)

(* Shared fetches are awaited one after the other.                         *)
WaitDone(r) ==
  /\ pc[r] = "wait" /\ Finished(Head(waits[r]))
  /\ UNCHANGED <<remote, cache, inflight, span, faults>>
  /\ Fill(r, Head(waits[r]))
  /\ waits' = [waits EXCEPT ![r] = Tail(@)]
  /\ \/ waits'[r] # <<>> /\ UNCHANGED <<pc, own>> /\ DropUnused
     \/ waits'[r] = <<>> /\ After(r)

DirectDone(r) ==
  /\ pc[r] = "direct" /\ Finished(own[r])
  /\ Fill(r, own[r])
  /\ Goto(r, IF flight[own[r]].step = "done" THEN "answered" ELSE "failed")
  /\ own' = [own EXCEPT ![r] = NoFlight]
  /\ UNCHANGED <<remote, cache, inflight, span, waits, faults>>
  /\ DropUnused

(* The range is dropped because another of its call failed.                *)
Drop(r) ==
  /\ pc[r] \notin Ended \cup {"idle"} /\ \E s \in SameCall[r] : pc[s] = "failed"
  /\ Goto(r, "dropped")
  /\ own' = [own EXCEPT ![r] = NoFlight] /\ waits' = [waits EXCEPT ![r] = <<>>]
  /\ UNCHANGED <<remote, cache, inflight, reads, faults>>
  /\ DropUnused

(* get_ranges returns, or the warm-up goes on to its next chunk.           *)
Return(r) ==
  /\ pc[r] \in Ended /\ \A s \in SameCall[r] : pc[s] \in Ended \cup {"idle"}
  /\ Goto(r, "idle")
  /\ span' = [span EXCEPT ![r] = NoSpan]
  /\ known' = [known EXCEPT ![r] = FALSE] /\ got' = [got EXCEPT ![r] = {}]
  /\ UNCHANGED <<remote, cache, inflight, flight, own, waits, faults>>

-----------------------------------------------------------------------------
(* fetch_span, moved by whoever polls it.                                  *)

(* Mutant: a waiter only looks at the result, and does not poll.           *)
PolledByOwner(f) == \E r \in Readers : own[r] = f

Polled(f) == \E r \in Readers : own[r] = f \/ (waits[r] # <<>> /\ Head(waits[r]) = f)

(* The blocks of the response: a request that runs past the end is cut.    *)
Cut(f) == (flight[f].lo..flight[f].hi) \cap Stored

Advance(f, step) == flight' = [flight EXCEPT ![f].step = step]

Request(f) ==
  /\ flight[f].step = "get"
  /\ \/ remote # "deleted" /\ flight[f].lo < Size /\ Advance(f, "meta") /\ UNCHANGED faults
     \/ (remote = "deleted" \/ flight[f].lo >= Size) /\ Advance(f, "failed") /\ UNCHANGED faults
     \/ faults < MaxFaults /\ faults' = faults + 1 /\ Advance(f, "failed")
  /\ UNCHANGED <<meta, disk>>

(* The metadata is cached before the body has been read.                   *)
FetchMeta(f) ==
  /\ flight[f].step = "meta"
  /\ meta' = TRUE
  /\ \/ Advance(f, "put") /\ UNCHANGED faults
     \/ faults < MaxFaults /\ faults' = faults + 1 /\ Advance(f, "failed")
  /\ UNCHANGED disk

PutBlock(f) ==
  /\ flight[f].step = "put"
  /\ disk' = disk \cup {flight[f].next}
  /\ LET next == flight[f].next + 1
     IN  flight' = [flight EXCEPT ![f].next = next,
                                  ![f].step = IF next \in Cut(f) THEN "put" ELSE "done"]
  /\ UNCHANGED <<meta, faults>>

Poll(f) ==
  /\ Polled(f)
  /\ Request(f) \/ FetchMeta(f) \/ PutBlock(f)
  /\ UNCHANGED <<remote, inflight, pc, reads, own, waits>>

-----------------------------------------------------------------------------
(* The rest of the cache and of the program.                               *)

Evict ==
  /\ \/ meta' = FALSE /\ UNCHANGED disk
     \/ \E b \in disk : disk' = disk \ {b} /\ UNCHANGED meta
  /\ UNCHANGED <<remote, inflight, flight, pc, reads, own, waits, faults>>

(* delete_stream: the cached entries go first, then the object.            *)
Invalidate ==
  /\ Deletable /\ remote = "stored" /\ remote' = "deleting"
  /\ meta' = FALSE /\ disk' = {}
  /\ UNCHANGED <<inflight, flight, pc, reads, own, waits, faults>>

Delete ==
  /\ remote = "deleting" /\ remote' = "deleted"
  /\ UNCHANGED <<cache, inflight, flight, pc, reads, own, waits, faults>>

Init ==
  /\ remote = "stored" /\ meta = FALSE /\ disk = {}
  /\ inflight = [b \in Blocks |-> NoFlight]
  /\ flight = [f \in Flights |-> Landed]
  /\ pc = [r \in Readers |-> "idle"]
  /\ span = [r \in Readers |-> NoSpan]
  /\ known = [r \in Readers |-> FALSE] /\ got = [r \in Readers |-> {}]
  /\ own = [r \in Readers |-> NoFlight] /\ waits = [r \in Readers |-> <<>>]
  /\ faults = 0

Run(r) ==
  \/ WarmChunk(r) \/ ReadMeta(r) \/ ReadBlock(r) \/ Join(r) \/ OwnDone(r) \/ WaitDone(r)
  \/ DirectDone(r) \/ Return(r)

Next ==
  \/ \E r \in Readers : Begin(r) \/ Run(r) \/ Drop(r)
  \/ \E f \in Flights : Poll(f)
  \/ Evict \/ Invalidate \/ Delete

Spec == Init /\ [][Next]_vars

(* The async runtime runs every task that can go on, and the remote store  *)
(* answers or fails (its client has timeouts).  Reads, deletions, evictions *)
(* and failures are not forced.                                            *)
Fairness ==
  /\ \A r \in Readers : WF_vars(Run(r) \/ Drop(r))
  /\ \A f \in Flights : WF_vars(Poll(f))

FairSpec == Spec /\ Fairness
-----------------------------------------------------------------------------
TypeOK ==
  /\ remote \in {"stored", "deleting", "deleted"}
  /\ meta \in BOOLEAN /\ disk \in SUBSET Stored
  /\ inflight \in [Blocks -> Flights \cup {NoFlight}]
  /\ flight \in [Flights -> Flight]
  /\ pc \in [Readers -> Steps]
  /\ span \in [Readers -> [lo : Blocks, hi : Blocks, next : Blocks \cup {LastBlock + 1},
                          share : BOOLEAN]]
  /\ known \in [Readers -> BOOLEAN] /\ got \in [Readers -> SUBSET Stored]
  /\ own \in [Readers -> Flights \cup {NoFlight}]
  /\ \A r \in Readers : waits[r] \in Seq(Flights) /\ (waits[r] = <<>> <=> pc[r] # "wait")
  /\ faults \in 0..MaxFaults

(***************************************************************************)
(* A read that answers has its metadata and every block of its range:      *)
(* neither `expect("metadata is cached or was just fetched")` nor "block   *)
(* was not populated" can happen, whatever was evicted, shared, widened,   *)
(* cut short or failed in between.                                         *)
(***************************************************************************)
NoHoles ==
  \A r \in Readers : pc[r] = "answered" => known[r] /\ Wanted(r) \cap Stored \subseteq got[r]

(***************************************************************************)
(* Without dropped readers no fetch stays in the in-flight map behind its  *)
(* owner: overlapping and widened fetches remove exactly their entries.    *)
(***************************************************************************)
OwnersRemain ==
  \A b \in Blocks : inflight[b] # NoFlight =>
     \E r \in Readers : pc[r] = "own" /\ own[r] = inflight[b] /\ span[r].share

(***************************************************************************)
(* Every read ends, also one that waits for a fetch whose owner was        *)
(* dropped.                                                                *)
(***************************************************************************)
EveryReadEnds == \A r \in Readers : pc[r] # "idle" ~> pc[r] = "idle"

(***************************************************************************)
(* "One remote fetch shared by every concurrent reader of its blocks"      *)
(* (docker/lancedb-go-disk-cache.rs:58): a reader joins a fetch that is    *)
(* still running, or whose owner has yet to take its result.               *)
(***************************************************************************)
JoinsConcurrent ==
  [][\A r \in Readers : pc[r] = "join" /\ pc'[r] = "wait" =>
       \A f \in Flights : Contains(waits'[r], f) => ~Finished(f) \/ \E s \in Readers : own[s] = f]_vars
=============================================================================
