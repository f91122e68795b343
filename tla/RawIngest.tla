------------------------------ MODULE RawIngest ------------------------------
(***************************************************************************)
(* pi-memoryd's write side: the raw-object scanner (raw_ingest.go) and the *)
(* HTTP ingest handlers (main.go), which share the write lock, the dedup   *)
(* state and the two Lance tables.  One action per step that another       *)
(* process, a failure or a crash can fall between.                         *)
(*                                                                         *)
(* Durable: the bucket, both tables, the dedup file and the registry file. *)
(* A crash loses everything else; the supervisor restarts the daemon,      *)
(* possibly with a newer parser.                                           *)
(***************************************************************************)
EXTENDS IngestData, FiniteSets

CONSTANTS
  HttpMessages,  \* ids that clients post to /v1/memory/ingest
  Handlers,      \* concurrent HTTP ingest requests
  Scanner,       \* the goroutine that runs rawIngestor.Run
  NoObject,      \* not an object: the scanner is between objects
  Nobody,        \* not a writer: writeMu is free
  BatchSize,     \* cfg.EmbedBatchSize: units per flush
  MaxFaults      \* bound on failed calls and crashes

Messages == RawMessages \cup HttpMessages
Writers  == Handlers \cup {Scanner}
Statuses == {"none", "processing", "failed", "indexed"}

(* Where a writer is: the scanner's scan and process, then flush. *)
Steps == {"idle", "scan", "begin", "fetch", "index", "failed", "done",
          "lock", "chunks", "messages", "mark"}

ASSUME WriterAssumption ==
  /\ Scanner \notin Handlers /\ NoObject \notin Objects /\ Nobody \notin Writers
  /\ BatchSize \in Nat \ {0} /\ MaxFaults \in Nat

VARIABLES
  bucket,        \* [Objects -> 0..MaxVersion]: latest upload, 0 when absent
  messages,      \* [Messages -> Editions]: rows of the messages table
  chunks,        \* [Messages -> [ChunkIndex -> Editions]]: rows of the chunks table
  dedup,         \* [{"raw","http"} -> [Messages -> Editions]]: dedupState.Files
  dedupFile,     \* the last saved dedup
  registry,      \* [Objects -> Entry]: rawRegistry.Objects
  registryFile,  \* the last saved registry
  parser,        \* rawParserVersion of the running binary
  cooling,       \* objects whose UpdatedAt is too recent for a retry or rewrite
  writeMu,       \* the writer that holds server.writeMu, or Nobody
  pc,            \* [Writers -> step]
  batch,         \* [Writers -> [Messages -> Editions]]: units being flushed
  listing,       \* [Objects -> 0..MaxVersion]: listed objects the scan has not reached
  job,           \* the object being processed, its listed version, the fetched one
  todo,          \* [Messages -> Editions]: units of the job that are not yet flushed
  unsettled,     \* history: messages whose last flush has not completed
  faults         \* failures and crashes so far

store  == <<messages, chunks>>
files  == <<dedupFile, registryFile>>
vars   == <<bucket, store, dedup, registry, files, parser, cooling, writeMu, pc,
            batch, listing, job, todo, unsettled, faults>>

Entry    == [status : Statuses, version : 0..MaxVersion, parser : 0..MaxParser]
NoEntry  == [status |-> "none", version |-> 0, parser |-> 0]
NoUnits  == [m \in Messages |-> 0]
NoJob    == [object |-> NoObject, listed |-> 0, fetched |-> 0]
Job      == [object : Objects \cup {NoObject}, listed : 0..MaxVersion,
             fetched : 0..MaxVersion]

(* The dedup key of a raw-derived record differs from that of a posted one *)
(* (rawDerivedKey), so each kind of writer sees only its own marks.        *)
Kind(w) == IF w = Scanner THEN "raw" ELSE "http"

Goto(w, step) == pc' = [pc EXCEPT ![w] = step]
Fault == faults < MaxFaults /\ faults' = faults + 1

(* rawRegistry.set, up to the file: the entry names the listed version.    *)
Marked(status) ==
  [registry EXCEPT ![job.object] =
     [status |-> status, version |-> job.listed, parser |-> parser]]

(* Mutant: an object that was interrupted is not due again.                *)
DueForgetsProcessing(o, v) ==
  LET e == registry[o] IN
  \/ e.status = "none" \/ e.parser # parser
  \/ e.version # v /\ ~(e.status = "indexed" /\ o \in cooling)
  \/ e.version = v /\ e.status = "failed" /\ o \notin cooling

(* rawRegistry.Due: `cooling` stands for the two comparisons with UpdatedAt.*)
Due(o, v) ==
  LET e == registry[o] IN
  \/ e.status = "none" \/ e.parser # parser
  \/ e.version # v /\ ~(e.status = "indexed" /\ o \in cooling)
  \/ e.version = v /\ e.status = "processing"
  \/ e.version = v /\ e.status = "failed" /\ o \notin cooling

-----------------------------------------------------------------------------
(* The world: uploads, and the clock passing UpdatedAt + interval.         *)

Upload(o) ==
  /\ bucket[o] < MaxVersion
  /\ bucket' = [bucket EXCEPT ![o] = @ + 1]
  /\ UNCHANGED <<store, dedup, registry, files, parser, cooling, writeMu, pc,
                 batch, listing, job, todo, unsettled, faults>>

CoolDown(o) ==
  /\ o \in cooling
  /\ cooling' = cooling \ {o}
  /\ UNCHANGED <<bucket, store, dedup, registry, files, parser, writeMu, pc,
                 batch, listing, job, todo, unsettled, faults>>

-----------------------------------------------------------------------------
(* The scanner: scan, process.                                             *)

List ==
  /\ pc[Scanner] = "idle"
  /\ \/ Goto(Scanner, "scan") /\ listing' = bucket /\ UNCHANGED faults
     \/ Fault /\ UNCHANGED <<pc, listing>>
  /\ UNCHANGED <<bucket, store, dedup, registry, files, parser, cooling, writeMu,
                 batch, job, todo, unsettled>>

EndScan ==
  /\ pc[Scanner] = "scan" /\ \A o \in Objects : listing[o] = 0
  /\ Goto(Scanner, "idle")
  /\ UNCHANGED <<bucket, store, dedup, registry, files, parser, cooling, writeMu,
                 batch, listing, job, todo, unsettled, faults>>

Skip(o) ==
  /\ pc[Scanner] = "scan" /\ listing[o] # 0 /\ ~Due(o, listing[o])
  /\ listing' = [listing EXCEPT ![o] = 0]
  /\ UNCHANGED <<bucket, store, dedup, registry, files, parser, cooling, writeMu,
                 pc, batch, job, todo, unsettled, faults>>

Take(o) ==
  /\ pc[Scanner] = "scan" /\ listing[o] # 0 /\ Due(o, listing[o])
  /\ job' = [object |-> o, listed |-> listing[o], fetched |-> 0]
  /\ listing' = [listing EXCEPT ![o] = 0]
  /\ Goto(Scanner, "begin")
  /\ UNCHANGED <<bucket, store, dedup, registry, files, parser, cooling, writeMu,
                 batch, todo, unsettled, faults>>

(* set(obj, status): the entry changes in memory, then the file is         *)
(* replaced; a failed Save leaves the change in memory and the old file.   *)
SetStatus(status, next, onError) ==
  /\ registry' = Marked(status)
  /\ cooling' = cooling \cup {job.object}
  /\ \/ registryFile' = registry' /\ Goto(Scanner, next) /\ UNCHANGED faults
     \/ Fault /\ Goto(Scanner, onError) /\ UNCHANGED registryFile

(* Mutant: process goes on although "processing" was not saved.            *)
BeginUnsaved ==
  /\ pc[Scanner] = "begin"
  /\ SetStatus("processing", "fetch", "fetch")
  /\ UNCHANGED <<bucket, store, dedup, dedupFile, parser, writeMu, batch, listing,
                 job, todo, unsettled>>

BeginProcess ==
  /\ pc[Scanner] = "begin"
  /\ SetStatus("processing", "fetch", "failed")
  /\ UNCHANGED <<bucket, store, dedup, dedupFile, parser, writeMu, batch, listing,
                 job, todo, unsettled>>

(* Get, parse and chunkGroups: the body may be newer than the listing, and *)
(* only units the dedup state has not seen stay pending.                   *)
Fetch ==
  /\ pc[Scanner] = "fetch"
  /\ LET v    == bucket[job.object]
         unit == [m \in Messages |->
                    IF m \in RawMessages THEN Derived[parser][job.object][v][m] ELSE 0]
     IN  /\ job' = [job EXCEPT !.fetched = v]
         /\ todo' = [m \in Messages |-> IF dedup["raw"][m] = unit[m] THEN 0 ELSE unit[m]]
  /\ Goto(Scanner, "index")
  /\ UNCHANGED <<bucket, store, dedup, registry, files, parser, cooling, writeMu,
                 batch, listing, unsettled, faults>>

(* One round of process's loop over groups: the next BatchSize units have  *)
(* been tokenized and embedded.                                            *)
NextBatch ==
  /\ pc[Scanner] = "index" /\ todo # NoUnits
  /\ LET pending == {m \in Messages : todo[m] # 0}
     IN  \E ms \in SUBSET pending :
           /\ ms # {} /\ Cardinality(ms) <= BatchSize
           /\ Cardinality(ms) = BatchSize \/ ms = pending
           /\ batch' = [batch EXCEPT ![Scanner] =
                          [m \in Messages |-> IF m \in ms THEN todo[m] ELSE 0]]
  /\ Goto(Scanner, "lock")
  /\ UNCHANGED <<bucket, store, dedup, registry, files, parser, cooling, writeMu,
                 listing, job, todo, unsettled, faults>>

(* Mutant: process records the object after its first batch.               *)
FinishEarly ==
  /\ pc[Scanner] = "index"
  /\ SetStatus("indexed", "done", "failed")
  /\ UNCHANGED <<bucket, store, dedup, dedupFile, parser, writeMu, batch, listing,
                 job, todo, unsettled>>

FinishProcess ==
  /\ pc[Scanner] = "index" /\ todo = NoUnits
  /\ SetStatus("indexed", "done", "failed")
  /\ UNCHANGED <<bucket, store, dedup, dedupFile, parser, writeMu, batch, listing,
                 job, todo, unsettled>>

(* Size limit, download, parser, tokenizer or embedder error.              *)
ProcessFails ==
  /\ pc[Scanner] \in {"fetch", "index"} /\ Fault
  /\ Goto(Scanner, "failed")
  /\ UNCHANGED <<bucket, store, dedup, registry, files, parser, cooling, writeMu,
                 batch, listing, job, todo, unsettled>>

(* scan's error branch; the error of this set is dropped.                  *)
RecordFailure ==
  /\ pc[Scanner] = "failed"
  /\ SetStatus("failed", "done", "done")
  /\ UNCHANGED <<bucket, store, dedup, dedupFile, parser, writeMu, batch, listing,
                 job, todo, unsettled>>

NextObject ==
  /\ pc[Scanner] = "done"
  /\ Goto(Scanner, "scan")
  /\ job' = NoJob /\ todo' = NoUnits
  /\ UNCHANGED <<bucket, store, dedup, registry, files, parser, cooling, writeMu,
                 batch, listing, unsettled, faults>>

-----------------------------------------------------------------------------
(* HTTP ingest: records that were seen are skipped, the rest is flushed.   *)

Receive(h) ==
  /\ pc[h] = "idle"
  /\ \E r \in [HttpMessages -> Editions] :
       LET fresh == {m \in HttpMessages : r[m] # 0 /\ dedup["http"][m] # r[m]}
       IN  /\ fresh # {}
           /\ batch' = [batch EXCEPT ![h] =
                          [m \in Messages |-> IF m \in fresh THEN r[m] ELSE 0]]
  /\ Goto(h, "lock")
  /\ UNCHANGED <<bucket, store, dedup, registry, files, parser, cooling, writeMu,
                 listing, job, todo, unsettled, faults>>

-----------------------------------------------------------------------------
(* server.flush, run by the scanner and by every handler.                  *)

(* Mutant: flush does not take writeMu.                                    *)
LockNothing(w) ==
  /\ pc[w] = "lock"
  /\ writeMu' = w
  /\ Goto(w, "chunks")
  /\ UNCHANGED <<bucket, store, dedup, registry, files, parser, cooling, batch,
                 listing, job, todo, unsettled, faults>>

Lock(w) ==
  /\ pc[w] = "lock" /\ writeMu = Nobody
  /\ writeMu' = w
  /\ Goto(w, "chunks")
  /\ UNCHANGED <<bucket, store, dedup, registry, files, parser, cooling, batch,
                 listing, job, todo, unsettled, faults>>

Flushed(w) == {m \in Messages : batch[w][m] # 0}

WithChunks(w) ==
  [m \in Messages |->
     IF batch[w][m] = 0 THEN chunks[m]
     ELSE [i \in ChunkIndex |->
             IF i < ChunkCount[batch[w][m]] THEN batch[w][m] ELSE chunks[m][i]]]

WithMessages(w) ==
  [m \in Messages |-> IF batch[w][m] = 0 THEN messages[m] ELSE batch[w][m]]

(* flush returns: the lock is released, the caller sees success or error.  *)
Return(w, ok) ==
  /\ writeMu' = Nobody
  /\ batch' = [batch EXCEPT ![w] = NoUnits]
  /\ Goto(w, IF w # Scanner THEN "idle" ELSE IF ok THEN "index" ELSE "failed")

(* The merge-insert of the chunks.  A failed one may have been committed.  *)
UpsertChunks(w) ==
  /\ pc[w] = "chunks"
  /\ unsettled' = unsettled \cup Flushed(w)
  /\ \/ /\ chunks' = WithChunks(w) /\ Goto(w, "messages")
        /\ UNCHANGED <<writeMu, batch, faults>>
     \/ /\ Fault /\ chunks' \in {chunks, WithChunks(w)} /\ Return(w, FALSE)
  /\ UNCHANGED <<bucket, messages, dedup, registry, files, parser, cooling,
                 listing, job, todo>>

(* Mutant: the error of the messages upsert is dropped.                    *)
UpsertMessagesUnchecked(w) ==
  /\ pc[w] = "messages"
  /\ Goto(w, "mark")
  /\ \/ messages' = WithMessages(w) /\ UNCHANGED faults
     \/ Fault /\ messages' \in {messages, WithMessages(w)}
  /\ UNCHANGED <<bucket, chunks, dedup, registry, files, parser, cooling, writeMu,
                 batch, listing, job, todo, unsettled>>

UpsertMessages(w) ==
  /\ pc[w] = "messages"
  /\ \/ /\ messages' = WithMessages(w) /\ Goto(w, "mark")
        /\ UNCHANGED <<writeMu, batch, faults>>
     \/ /\ Fault /\ messages' \in {messages, WithMessages(w)} /\ Return(w, FALSE)
  /\ UNCHANGED <<bucket, chunks, dedup, registry, files, parser, cooling,
                 listing, job, todo, unsettled>>

(* Mark every message, Save the dedup file, unlock.                        *)
MarkAndSave(w) ==
  /\ pc[w] = "mark"
  /\ dedup' = [dedup EXCEPT ![Kind(w)] =
                 [m \in Messages |-> IF batch[w][m] = 0 THEN @[m] ELSE batch[w][m]]]
  /\ \/ /\ dedupFile' = dedup' /\ unsettled' = unsettled \ Flushed(w)
        /\ Return(w, TRUE) /\ UNCHANGED faults
        /\ todo' = IF w = Scanner
                   THEN [m \in Messages |-> IF batch[w][m] = 0 THEN todo[m] ELSE 0]
                   ELSE todo
     \/ /\ Fault /\ Return(w, FALSE) /\ UNCHANGED <<dedupFile, unsettled, todo>>
  /\ UNCHANGED <<bucket, store, registry, registryFile, parser, cooling, listing, job>>

-----------------------------------------------------------------------------
(* The process dies anywhere and is started again (main): both state files *)
(* are loaded, nothing is in flight.                                       *)
Restart ==
  /\ Fault
  /\ dedup' = dedupFile /\ registry' = registryFile
  /\ parser' \in parser..MaxParser
  /\ cooling' \in SUBSET cooling
  /\ writeMu' = Nobody
  /\ pc' = [w \in Writers |-> "idle"]
  /\ batch' = [w \in Writers |-> NoUnits]
  /\ listing' = [o \in Objects |-> 0]
  /\ job' = NoJob /\ todo' = NoUnits
  /\ UNCHANGED <<bucket, store, files, unsettled>>

Init ==
  /\ bucket = [o \in Objects |-> 0]
  /\ messages = NoUnits
  /\ chunks = [m \in Messages |-> [i \in ChunkIndex |-> 0]]
  /\ dedup = [k \in {"raw", "http"} |-> NoUnits] /\ dedupFile = dedup
  /\ registry = [o \in Objects |-> NoEntry] /\ registryFile = registry
  /\ parser = 1 /\ cooling = {}
  /\ writeMu = Nobody
  /\ pc = [w \in Writers |-> "idle"]
  /\ batch = [w \in Writers |-> NoUnits]
  /\ listing = [o \in Objects |-> 0]
  /\ job = NoJob /\ todo = NoUnits
  /\ unsettled = {} /\ faults = 0

Flush(w) == Lock(w) \/ UpsertChunks(w) \/ UpsertMessages(w) \/ MarkAndSave(w)

Scan ==
  \/ List \/ EndScan \/ (\E o \in Objects : Skip(o) \/ Take(o))
  \/ BeginProcess \/ Fetch \/ NextBatch \/ FinishProcess
  \/ RecordFailure \/ NextObject

Next ==
  \/ \E o \in Objects : Upload(o) \/ CoolDown(o)
  \/ Scan \/ ProcessFails
  \/ \E h \in Handlers : Receive(h)
  \/ \E w \in Writers : Flush(w)
  \/ Restart

Spec == Init /\ [][Next]_vars

(* The scanner goroutine and every started flush keep running, and clocks  *)
(* advance; uploads, posts, failures and crashes are never forced.         *)
Fairness ==
  /\ WF_vars(Scan)
  /\ \A w \in Writers : WF_vars(Flush(w))
  /\ SF_vars(Lock(Scanner))
  /\ \A o \in Objects : WF_vars(CoolDown(o))

FairSpec == Spec /\ Fairness
-----------------------------------------------------------------------------
TypeOK ==
  /\ bucket \in [Objects -> 0..MaxVersion]
  /\ messages \in [Messages -> Editions]
  /\ chunks \in [Messages -> [ChunkIndex -> Editions]]
  /\ dedup \in [{"raw", "http"} -> [Messages -> Editions]]
  /\ dedupFile \in [{"raw", "http"} -> [Messages -> Editions]]
  /\ registry \in [Objects -> Entry] /\ registryFile \in [Objects -> Entry]
  /\ parser \in Parsers /\ cooling \in SUBSET Objects
  /\ writeMu \in Writers \cup {Nobody}
  /\ pc \in [Writers -> Steps]
  /\ batch \in [Writers -> [Messages -> Editions]]
  /\ listing \in [Objects -> 0..MaxVersion]
  /\ job \in Job /\ todo \in [Messages -> Editions]
  /\ unsettled \in SUBSET Messages /\ faults \in 0..MaxFaults
-----------------------------------------------------------------------------
(* All rows of message m name edition e.                                   *)
Whole(m, e) ==
  /\ messages[m] = e
  /\ \A i \in ChunkIndex : e # 0 /\ i < ChunkCount[e] => chunks[m][i] = e

(* Version v of o, as parser p reads it, is completely stored.             *)
StoredAs(p, o, v) ==
  \A m \in RawMessages :
     Derived[p][o][v][m] # 0 => Whole(m, Derived[p][o][v][m])

(***************************************************************************)
(* README.md:320, "An object is recorded as indexed only after every       *)
(* derived row is persisted", and stays true across crashes: while the     *)
(* registry file says indexed, the rows of the listed version, or of a     *)
(* newer upload that was fetched in its place, are in both tables.         *)
(***************************************************************************)
RecordedComplete ==
  \A o \in Objects : registryFile[o].status = "indexed" =>
     \E v \in registryFile[o].version..bucket[o] :
        StoredAs(registryFile[o].parser, o, v)

(***************************************************************************)
(* flush under writeMu keeps the tables and both copies of the dedup state *)
(* in step: for a message with no flush in flight or cut short, the row,   *)
(* each of its chunks, the mark in memory and the mark on disk agree.      *)
(***************************************************************************)
SettledAgree ==
  \A m \in Messages \ unsettled :
     LET e == dedupFile[IF m \in RawMessages THEN "raw" ELSE "http"][m]
     IN  Whole(m, e) /\ dedup[IF m \in RawMessages THEN "raw" ELSE "http"][m] = e

(***************************************************************************)
(* A mark never runs ahead of the rows: whatever fails or crashes, a unit  *)
(* that dedup would skip, now or after a restart, has been written to both *)
(* tables, or was followed there by a newer edition.                       *)
(***************************************************************************)
Written(m, e) ==
  /\ e <= messages[m]
  /\ \A i \in ChunkIndex : e # 0 /\ i < ChunkCount[e] => e <= chunks[m][i]

MarksBehindRows ==
  \A m \in RawMessages :
     Written(m, dedup["raw"][m]) /\ Written(m, dedupFile["raw"][m])

(***************************************************************************)
(* RawIngest implements ObjectIndex: every step is one of its steps or     *)
(* changes nothing a reader of the registry and the tables could see.      *)
(***************************************************************************)
RowView ==
  [m \in RawMessages |->
     IF Whole(m, messages[m]) /\ (messages[m] = 0 => \A i \in ChunkIndex : chunks[m][i] = 0)
     THEN messages[m] ELSE Torn]

RecordedView ==
  [o \in Objects |->
     IF registryFile[o].status = "indexed"
     THEN [version |-> registryFile[o].version, parser |-> registryFile[o].parser]
     ELSE [version |-> 0, parser |-> 0]]

Index == INSTANCE ObjectIndex WITH rows <- RowView, recorded <- RecordedView
ImplementsObjectIndex == Index!OSpec

(***************************************************************************)
(* Once uploads, failures and crashes stop, every object is recorded at    *)
(* its latest upload with all of its rows, and stays so (README.md:320,    *)
(* "On a crash, the object is retried"; "Failed objects retry").           *)
(***************************************************************************)
Converges ==
  <>[](\A o \in Objects : bucket[o] # 0 =>
         /\ registryFile[o] =
              [status |-> "indexed", version |-> bucket[o], parser |-> parser]
         /\ StoredAs(parser, o, bucket[o]))
=============================================================================
