----------------------------- MODULE RawIngestInv -----------------------------
(***************************************************************************)
(* The inductive invariants of RawIngest.                                  *)
(*                                                                         *)
(* FlushInv is behind SettledAgree: one writer at a time is between its    *)
(* chunks and its marks (LockHeld), what it writes is not settled until it *)
(* is marked and saved (FlushUnsettled), and both tables then hold it      *)
(* (FlushProgress).                                                        *)
(*                                                                         *)
(* IInv is behind RecordedComplete and ImplementsObjectIndex.  Neither     *)
(* RecordedComplete nor MarksBehindRows is inductive alone: recording is   *)
(* right because a unit the scan skipped was written (MarksBehindRows) and *)
(* not overtaken by a newer one since (RowsOfJob, which RowsCurrent        *)
(* establishes at each fetch).                                             *)
(***************************************************************************)
EXTENDS RawIngest

Unit(o, v, m) == Derived[parser][o][v][m]
Current(m) == Unit(job.object, job.fetched, m)

Flushing == {"lock", "chunks", "messages", "mark"}
HasJob   == pc[Scanner] \in {"begin", "fetch", "index", "failed", "done"} \cup Flushing
HasBody  == pc[Scanner] \in {"index"} \cup Flushing

(* No stored row of m is newer than edition e. *)
NotNewer(m, e) == messages[m] <= e /\ \A i \in ChunkIndex : chunks[m][i] <= e

(* The scanner's bookkeeping never names a version that was not uploaded. *)
JobOK ==
  /\ \A o \in Objects : listing[o] <= bucket[o]
  /\ HasJob => job.object \in Objects /\ job.listed \in 1..bucket[job.object]
  /\ HasBody => job.fetched \in job.listed..bucket[job.object]

(* A post touches no raw record. *)
PostsApart ==
  \A h \in Handlers, m \in RawMessages : batch[h][m] = 0

(* A saved entry names a version and a parser that exist. *)
EntriesOK ==
  \A o \in Objects : registryFile[o].status = "indexed" =>
     registryFile[o].version \in 1..bucket[o] /\ registryFile[o].parser \in Parsers

(* The registry file lags behind memory in what says indexed only between  *)
(* a Save that failed and the RecordFailure that follows it.               *)
EntriesSaved ==
  \A o \in Objects : registry[o].status = "indexed" =>
     registryFile[o] = registry[o] \/ (pc[Scanner] = "failed" /\ o = job.object)

(* What is pending or in the batch is the fetched unit; what is not        *)
(* pending is marked.                                                      *)
UnitsOfJob ==
  /\ pc[Scanner] \in Flushing =>
       \A m \in Messages : batch[Scanner][m] # 0 => batch[Scanner][m] = todo[m]
  /\ HasBody =>
    /\ \A m \in Messages : todo[m] # 0 => m \in RawMessages /\ todo[m] = Current(m)
    /\ \A m \in RawMessages :
          todo[m] = 0 /\ Current(m) # 0 => dedup["raw"][m] = Current(m)

(* Stored rows are no newer than anything a later fetch can derive.        *)
RowsCurrent ==
  \A m \in RawMessages, p \in Parsers, v \in Versions :
     /\ parser <= p /\ bucket[Owner[m]] <= v
     /\ Derived[p][Owner[m]][v][m] # 0
     => NotNewer(m, Derived[p][Owner[m]][v][m])

(* ... nor than the version being processed, though a newer one may exist. *)
RowsOfJob ==
  HasBody => \A m \in RawMessages : Current(m) # 0 => NotNewer(m, Current(m))

(* A writer past Lock holds writeMu. *)
LockHeld ==
  \A w \in Writers : pc[w] \in {"chunks", "messages", "mark"} => writeMu = w

(* How far a flush has come. *)
FlushProgress ==
  \A w \in Writers, m \in Messages : LET e == batch[w][m] IN e # 0 =>
    /\ pc[w] \in {"messages", "mark"} =>
         \A i \in ChunkIndex : i < ChunkCount[e] => chunks[m][i] = e
    /\ pc[w] = "mark" => messages[m] = e

(* What a flush has begun to write is not settled. *)
FlushUnsettled ==
  \A w \in Writers : pc[w] \in {"messages", "mark"} => Flushed(w) \subseteq unsettled

FlushInv ==
  /\ TypeOK /\ JobOK /\ PostsApart /\ UnitsOfJob
  /\ LockHeld /\ FlushProgress /\ FlushUnsettled /\ SettledAgree

(* Rows change only while the registry file says processing. *)
ProcessingSaved ==
  pc[Scanner] = "fetch" \/ HasBody => registryFile[job.object].status = "processing"

(* The job's entry is saved as it is in memory, and so is every other.     *)
RegistrySaved ==
  pc[Scanner] = "fetch" \/ HasBody => registryFile = registry

IInv ==
  /\ FlushInv /\ EntriesOK /\ EntriesSaved /\ RegistrySaved
  /\ RowsCurrent /\ RowsOfJob /\ ProcessingSaved /\ MarksBehindRows
  /\ RecordedComplete

IdsDisjoint == HttpMessages \cap RawMessages = {}
=============================================================================
