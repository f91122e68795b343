---------------------------- MODULE RawIngestProofs ----------------------------
(***************************************************************************)
(* For every value of the constants: RawIngest keeps its types, never      *)
(* marks a unit before it is written, never records an object before its   *)
(* rows are stored, settles with tables and marks in agreement, and        *)
(* implements ObjectIndex.                                                 *)
(***************************************************************************)
EXTENDS RawIngestInv, TLAPS

USE DataAssumption, WriterAssumption

(* Types, and a job that names an uploaded version, hold initially.        *)
LEMMA InitTyped == Init => TypeOK /\ JobOK
  BY DEF Init, Steps, TypeOK, JobOK, HasJob, HasBody, Flushing, NoUnits, NoEntry, Entry,
         Statuses, NoJob, Job, Editions, Parsers, Messages, Writers, Versions

(* The entry that rawRegistry.set writes is well formed.                   *)
LEMMA MarkedTyped ==
  ASSUME TypeOK, JobOK, HasJob, NEW s \in Statuses
  PROVE  Marked(s) \in [Objects -> Entry] /\ job.object \in Objects
<1>1. [status |-> s, version |-> job.listed, parser |-> parser] \in Entry
  BY DEF TypeOK, JobOK, Entry, Job, Parsers
<1> QED
  BY <1>1 DEF TypeOK, JobOK, Marked

(***************************************************************************)
(* Every step keeps them.  The two go together: Derived is only defined at *)
(* versions that exist, so the type of a fetched unit needs the job's      *)
(* object to have been uploaded.                                           *)
(***************************************************************************)
LEMMA StepTyped == TypeOK /\ JobOK /\ [Next]_vars => TypeOK' /\ JobOK'
<1> SUFFICES ASSUME TypeOK, JobOK, [Next]_vars PROVE TypeOK' /\ JobOK'
  OBVIOUS
<1> USE DEF TypeOK, JobOK, HasJob, HasBody, Flushing, store, files, Goto, Fault, Steps
<1>0. Scanner \in Writers /\ NoUnits \in [Messages -> Editions] /\ NoJob \in Job
  BY DEF Writers, NoUnits, NoJob, Job, Editions
<1>1. ASSUME NEW o \in Objects, Upload(o) PROVE TypeOK' /\ JobOK'
  BY <1>1 DEF Upload
<1>2. ASSUME NEW o \in Objects, CoolDown(o) PROVE TypeOK' /\ JobOK'
  BY <1>2 DEF CoolDown
<1>3. CASE List
  BY <1>0, <1>3 DEF List
<1>4. CASE EndScan
  BY <1>0, <1>4 DEF EndScan
<1>5. ASSUME NEW o \in Objects, Skip(o) PROVE TypeOK' /\ JobOK'
  BY <1>5 DEF Skip
<1>6. ASSUME NEW o \in Objects, Take(o) PROVE TypeOK' /\ JobOK'
  BY SMTT(30), <1>0, <1>6 DEF Take, Job
<1>7. CASE BeginProcess
  <2>1. Marked("processing") \in [Objects -> Entry] /\ job.object \in Objects
    BY <1>7, MarkedTyped DEF BeginProcess, Statuses
  <2>2. registry' \in [Objects -> Entry] /\ registryFile' \in [Objects -> Entry]
        /\ cooling' \in SUBSET Objects
    BY <1>7, <2>1 DEF BeginProcess, SetStatus
  <2>3. \E s \in {"fetch", "failed"} : pc' = [pc EXCEPT ![Scanner] = s]
    BY <1>7 DEF BeginProcess, SetStatus
  <2>4. pc' \in [Writers -> Steps] /\ pc'[Scanner] \in {"fetch", "failed"}
    BY <1>0, <2>3
  <2>5. faults' \in 0..MaxFaults
    BY <1>7 DEF BeginProcess, SetStatus
  <2> QED
    BY <1>7, <2>2, <2>4, <2>5 DEF BeginProcess
<1>8. CASE Fetch
  <2>1. bucket[job.object] \in Versions /\ job.object \in Objects
    BY <1>8 DEF Fetch, Job, Versions
  <2>2. \A m \in RawMessages : Derived[parser][job.object][bucket[job.object]][m] \in Editions
    BY <2>1
  <2>3. todo' \in [Messages -> Editions]
    <3> DEFINE unit == [m \in Messages |->
                 IF m \in RawMessages
                 THEN Derived[parser][job.object][bucket[job.object]][m] ELSE 0]
    <3>1. unit \in [Messages -> Editions] /\ 0 \in Editions
      BY <2>2 DEF Editions
    <3>2. todo' = [m \in Messages |-> IF dedup["raw"][m] = unit[m] THEN 0 ELSE unit[m]]
      BY <1>8 DEF Fetch
    <3> HIDE DEF unit
    <3> QED
      BY <3>1, <3>2
  <2>4. job' \in Job /\ job'.object = job.object /\ job'.listed = job.listed
        /\ job'.fetched = bucket[job.object]
    BY <1>8, <2>1 DEF Fetch, Job, Versions
  <2>5. pc' \in [Writers -> Steps] /\ pc'[Scanner] = "index"
    BY <1>0, <1>8 DEF Fetch, Steps
  <2>6. job.listed \in 1..bucket[job.object] /\ bucket[job.object] \in Nat
    BY <1>8, <2>1 DEF Fetch, Versions
  <2>7. JobOK'
    BY <1>8, <2>1, <2>4, <2>5, <2>6 DEF Fetch
  <2> QED
    BY <1>8, <2>3, <2>4, <2>5, <2>7 DEF Fetch
<1>9. CASE NextBatch
  <2>1. PICK ms \in SUBSET Messages : batch' = [batch EXCEPT ![Scanner] =
                     [m \in Messages |-> IF m \in ms THEN todo[m] ELSE 0]]
    BY <1>9 DEF NextBatch
  <2>2. [m \in Messages |-> IF m \in ms THEN todo[m] ELSE 0] \in [Messages -> Editions]
    BY DEF Editions
  <2>3. batch' \in [Writers -> [Messages -> Editions]]
    BY <2>1, <2>2
  <2> QED
    BY <1>0, <1>9, <2>3 DEF NextBatch
<1>10. CASE FinishProcess
  <2>1. Marked("indexed") \in [Objects -> Entry] /\ job.object \in Objects
    BY <1>10, MarkedTyped DEF FinishProcess, Statuses
  <2>2. registry' \in [Objects -> Entry] /\ registryFile' \in [Objects -> Entry]
        /\ cooling' \in SUBSET Objects
    BY <1>10, <2>1 DEF FinishProcess, SetStatus
  <2>3. \E s \in {"done", "failed"} : pc' = [pc EXCEPT ![Scanner] = s]
    BY <1>10 DEF FinishProcess, SetStatus
  <2>4. pc' \in [Writers -> Steps] /\ pc'[Scanner] \in {"done", "failed"}
    BY <1>0, <2>3
  <2>5. faults' \in 0..MaxFaults
    BY <1>10 DEF FinishProcess, SetStatus
  <2> QED
    BY <1>10, <2>2, <2>4, <2>5 DEF FinishProcess
<1>11. CASE RecordFailure
  <2>1. Marked("failed") \in [Objects -> Entry] /\ job.object \in Objects
    BY <1>11, MarkedTyped DEF RecordFailure, Statuses
  <2>2. registry' \in [Objects -> Entry] /\ registryFile' \in [Objects -> Entry]
        /\ cooling' \in SUBSET Objects
    BY <1>11, <2>1 DEF RecordFailure, SetStatus
  <2>3. \E s \in {"done", "done"} : pc' = [pc EXCEPT ![Scanner] = s]
    BY <1>11 DEF RecordFailure, SetStatus
  <2>4. pc' \in [Writers -> Steps] /\ pc'[Scanner] \in {"done", "done"}
    BY <1>0, <2>3
  <2>5. faults' \in 0..MaxFaults
    BY <1>11 DEF RecordFailure, SetStatus
  <2> QED
    BY <1>11, <2>2, <2>4, <2>5 DEF RecordFailure
<1>12. CASE NextObject
  BY <1>0, <1>12 DEF NextObject
<1>13. CASE ProcessFails
  BY <1>0, <1>13 DEF ProcessFails
<1>14. ASSUME NEW h \in Handlers, Receive(h) PROVE TypeOK' /\ JobOK'
  <2>1. PICK r \in [HttpMessages -> Editions] :
          batch' = [batch EXCEPT ![h] =
            [m \in Messages |->
               IF m \in {x \in HttpMessages : r[x] # 0 /\ dedup["http"][x] # r[x]}
               THEN r[m] ELSE 0]]
    BY <1>14 DEF Receive
  <2> DEFINE units == [m \in Messages |->
               IF m \in {x \in HttpMessages : r[x] # 0 /\ dedup["http"][x] # r[x]}
               THEN r[m] ELSE 0]
  <2>2. units \in [Messages -> Editions]
    BY DEF Editions
  <2>3. batch' \in [Writers -> [Messages -> Editions]]
    <3> HIDE DEF units
    <3>1. batch' = [batch EXCEPT ![h] = units]
      BY <2>1 DEF units
    <3> QED
      BY <2>2, <3>1
  <2>4. h \in Writers /\ h # Scanner
    BY DEF Writers
  <2> QED
    BY <1>0, <1>14, <2>3, <2>4 DEF Receive
<1>15. ASSUME NEW w \in Writers, Lock(w) PROVE TypeOK' /\ JobOK'
  BY <1>0, <1>15 DEF Lock
<1>16. ASSUME NEW w \in Writers, UpsertChunks(w) PROVE TypeOK' /\ JobOK'
  <2>1. WithChunks(w) \in [Messages -> [ChunkIndex -> Editions]]
    <3>1. ASSUME NEW m \in Messages, NEW e \in Editions
          PROVE  [i \in ChunkIndex |-> IF i < ChunkCount[e] THEN e ELSE chunks[m][i]]
                   \in [ChunkIndex -> Editions]
      OBVIOUS
    <3>2. \A m \in Messages : batch[w][m] \in Editions
      OBVIOUS
    <3> QED
      BY <3>1, <3>2 DEF WithChunks
  <2>2. chunks' \in [Messages -> [ChunkIndex -> Editions]]
    BY <1>16, <2>1 DEF UpsertChunks
  <2>3. batch' \in [Writers -> [Messages -> Editions]]
    <3>1. batch' = batch \/ batch' = [batch EXCEPT ![w] = NoUnits]
      BY <1>16 DEF UpsertChunks, Return
    <3> QED
      BY <1>0, <3>1
  <2>9. unsettled' \in SUBSET Messages
    BY <1>16 DEF UpsertChunks, Flushed
  <2>4. UNCHANGED pc \/ \E s \in {"messages", "idle", "failed"} : pc' = [pc EXCEPT ![w] = s]
    BY <1>16 DEF UpsertChunks, Return
  <2>5. pc' \in [Writers -> Steps] /\ (pc'[Scanner] = pc[Scanner] \/ w = Scanner)
    BY <1>0, <2>4 DEF Steps
  <2>6. w = Scanner => pc'[Scanner] \in {"messages", "failed"} /\ pc[Scanner] = "chunks"
    BY <1>0, <1>16 DEF UpsertChunks, Return
  <2>7. writeMu' \in Writers \cup {Nobody} /\ faults' \in 0..MaxFaults
    BY <1>16 DEF UpsertChunks, Return
  <2> QED
    BY <1>16, <2>2, <2>3, <2>5, <2>6, <2>7, <2>9 DEF UpsertChunks, Steps
<1>17. ASSUME NEW w \in Writers, UpsertMessages(w) PROVE TypeOK' /\ JobOK'
  <2>1. WithMessages(w) \in [Messages -> Editions]
    BY DEF WithMessages
  <2>2. messages' \in [Messages -> Editions]
    BY <1>17, <2>1 DEF UpsertMessages
  <2>3. batch' \in [Writers -> [Messages -> Editions]]
    BY <1>0, <1>17 DEF UpsertMessages, Return
  <2>4. UNCHANGED pc \/ \E s \in {"mark", "idle", "failed"} : pc' = [pc EXCEPT ![w] = s]
    BY <1>17 DEF UpsertMessages, Return
  <2>5. pc' \in [Writers -> Steps] /\ (pc'[Scanner] = pc[Scanner] \/ w = Scanner)
    BY <1>0, <2>4 DEF Steps
  <2>6. w = Scanner => pc'[Scanner] \in {"mark", "failed"} /\ pc[Scanner] = "messages"
    BY <1>0, <1>17 DEF UpsertMessages, Return
  <2>7. writeMu' \in Writers \cup {Nobody} /\ faults' \in 0..MaxFaults
    BY <1>17 DEF UpsertMessages, Return
  <2> QED
    BY <1>17, <2>2, <2>3, <2>5, <2>6, <2>7 DEF UpsertMessages, Steps
<1>18. ASSUME NEW w \in Writers, MarkAndSave(w) PROVE TypeOK' /\ JobOK'
  <2>1. Kind(w) \in {"raw", "http"}
    BY DEF Kind
  <2>2. [m \in Messages |-> IF batch[w][m] = 0 THEN dedup[Kind(w)][m] ELSE batch[w][m]]
           \in [Messages -> Editions]
    BY <2>1
  <2>3. dedup' \in [{"raw", "http"} -> [Messages -> Editions]]
        /\ dedupFile' \in [{"raw", "http"} -> [Messages -> Editions]]
    <3> DEFINE marks == [m \in Messages |->
                 IF batch[w][m] = 0 THEN dedup[Kind(w)][m] ELSE batch[w][m]]
    <3>1. dedup' = [dedup EXCEPT ![Kind(w)] = marks]
      BY <1>18 DEF MarkAndSave
    <3>2. marks \in [Messages -> Editions]
      BY <2>2
    <3> HIDE DEF marks
    <3>3. dedup' \in [{"raw", "http"} -> [Messages -> Editions]]
      BY <2>1, <3>1, <3>2
    <3>4. dedupFile' \in {dedupFile, dedup'}
      BY <1>18 DEF MarkAndSave
    <3> QED
      BY <3>3, <3>4
  <2>4. batch' \in [Writers -> [Messages -> Editions]]
    <3>1. batch' = [batch EXCEPT ![w] = NoUnits]
      BY <1>18 DEF MarkAndSave, Return
    <3> QED
      BY <1>0, <3>1
  <2>10. unsettled' \in SUBSET Messages
    BY <1>18 DEF MarkAndSave
  <2>5. \E s \in {"index", "idle", "failed"} : pc' = [pc EXCEPT ![w] = s]
    BY <1>18 DEF MarkAndSave, Return
  <2>6. pc' \in [Writers -> Steps] /\ (pc'[Scanner] = pc[Scanner] \/ w = Scanner)
    BY <1>0, <2>5 DEF Steps
  <2>7. w = Scanner => pc'[Scanner] \in {"index", "failed"} /\ pc[Scanner] = "mark"
    BY <1>0, <1>18 DEF MarkAndSave, Return
  <2>8. writeMu' \in Writers \cup {Nobody} /\ faults' \in 0..MaxFaults
    BY <1>18 DEF MarkAndSave, Return
  <2>9. todo' \in [Messages -> Editions]
    <3>1. todo' = todo
          \/ todo' = [m \in Messages |-> IF batch[w][m] = 0 THEN todo[m] ELSE 0]
      BY <1>18 DEF MarkAndSave
    <3>2. 0 \in Editions /\ todo \in [Messages -> Editions]
      BY DEF Editions
    <3> QED
      BY <3>1, <3>2
  <2> QED
    BY <1>18, <2>3, <2>4, <2>6, <2>7, <2>8, <2>9, <2>10 DEF MarkAndSave, Steps
<1>19. CASE Restart
  BY <1>0, <1>19 DEF Restart, Parsers
<1>20. CASE UNCHANGED vars
  BY <1>20 DEF vars
<1> QED
  BY <1>1, <1>2, <1>3, <1>4, <1>5, <1>6, <1>7, <1>8, <1>9, <1>10, <1>11, <1>12,
     <1>13, <1>14, <1>15, <1>16, <1>17, <1>18, <1>19, <1>20 DEF Next, Scan, Flush

(* Type correctness of every reachable state.                              *)
THEOREM TypeCorrect == Spec => []TypeOK
<1>1. TypeOK /\ JobOK /\ [Next]_vars => (TypeOK /\ JobOK)'
  BY StepTyped
<1> QED
  BY InitTyped, <1>1, PTL DEF Spec

-----------------------------------------------------------------------------
(* What a step can change. *)

(* Bucket versions and the parser never go back.                           *)
LEMMA Monotone ==
  ASSUME TypeOK, [Next]_vars
  PROVE  parser <= parser' /\ \A o \in Objects : bucket[o] <= bucket'[o]
<1>1. parser' = parser \/ parser' \in parser..MaxParser
  BY DEF Next, vars, store, files, Upload, CoolDown, Scan, List, EndScan, Skip, Take,
         BeginProcess, Fetch, NextBatch, FinishProcess, RecordFailure, NextObject,
         ProcessFails, Receive, Flush, Lock, UpsertChunks, UpsertMessages,
         MarkAndSave, Restart
<1>2. bucket' = bucket \/ \E o \in Objects : bucket' = [bucket EXCEPT ![o] = @ + 1]
  BY DEF Next, vars, store, files, Upload, CoolDown, Scan, List, EndScan, Skip, Take,
         BeginProcess, Fetch, NextBatch, FinishProcess, RecordFailure, NextObject,
         ProcessFails, Receive, Flush, Lock, UpsertChunks, UpsertMessages,
         MarkAndSave, Restart
<1>3. parser <= parser'
  BY <1>1 DEF TypeOK, Parsers
<1>4. ASSUME NEW o \in Objects PROVE bucket[o] <= bucket'[o]
  <2>1. bucket \in [Objects -> Nat]
    BY DEF TypeOK
  <2> QED
    BY <1>2, <2>1
<1> QED
  BY <1>3, <1>4

(* Rows are written by upserts only.                                       *)
LEMMA StoreFrame ==
  ASSUME [Next]_vars
  PROVE  UNCHANGED store \/ \E w \in Writers : UpsertChunks(w) \/ UpsertMessages(w)
  BY DEF Next, vars, store, files, Upload, CoolDown, Scan, List, EndScan, Skip, Take,
         BeginProcess, Fetch, NextBatch, FinishProcess, RecordFailure, NextObject,
         ProcessFails, Receive, Flush, Lock, MarkAndSave, Restart

(* Marks change only when a flush ends or the process restarts.            *)
LEMMA MarkFrame ==
  ASSUME [Next]_vars
  PROVE  UNCHANGED <<dedup, dedupFile>>
         \/ (\E w \in Writers : MarkAndSave(w)) \/ Restart
  BY DEF Next, vars, store, files, Upload, CoolDown, Scan, List, EndScan, Skip, Take,
         BeginProcess, Fetch, NextBatch, FinishProcess, RecordFailure, NextObject,
         ProcessFails, Receive, Flush, Lock, UpsertChunks, UpsertMessages

(* The registry file is written by set only.                               *)
LEMMA RegistryFrame ==
  ASSUME [Next]_vars
  PROVE  UNCHANGED registryFile \/ BeginProcess \/ FinishProcess \/ RecordFailure
  BY DEF Next, vars, store, files, Upload, CoolDown, Scan, List, EndScan, Skip, Take,
         Fetch, NextBatch, NextObject, ProcessFails, Receive, Flush, Lock,
         UpsertChunks, UpsertMessages, MarkAndSave, Restart

(* What the scanner holds is changed by the scanner, or lost.              *)
LEMMA ScannerStep ==
  ASSUME TypeOK, [Next]_vars
  PROVE  \/ UNCHANGED <<parser, job, todo, batch[Scanner], pc[Scanner]>>
         \/ Fetch \/ NextBatch
         \/ Lock(Scanner) \/ UpsertChunks(Scanner) \/ UpsertMessages(Scanner)
         \/ MarkAndSave(Scanner)
         \/ BeginProcess \/ FinishProcess \/ RecordFailure \/ NextObject \/ ProcessFails
         \/ List \/ EndScan \/ (\E o \in Objects : Take(o)) \/ Restart
<1> USE DEF TypeOK
<1>1. ASSUME NEW h \in Handlers,
             Receive(h) \/ Lock(h) \/ UpsertChunks(h) \/ UpsertMessages(h) \/ MarkAndSave(h)
      PROVE  UNCHANGED <<parser, job, todo, batch[Scanner], pc[Scanner]>>
  <2>1. h \in Writers /\ Scanner \in Writers /\ h # Scanner
    BY DEF Writers
  <2>2. \E s \in Steps : UNCHANGED pc \/ pc' = [pc EXCEPT ![h] = s]
    BY <1>1, <2>1 DEF Receive, Lock, UpsertChunks, UpsertMessages, MarkAndSave,
                      Return, Goto, Steps
  <2>3. \E b \in {batch'[h]} : UNCHANGED batch \/ batch' = [batch EXCEPT ![h] = b]
    <3>1. CASE Receive(h)
      BY <2>1, <3>1 DEF Receive
    <3>2. CASE ~Receive(h)
      BY <1>1, <2>1, <3>2 DEF Lock, UpsertChunks, UpsertMessages, MarkAndSave, Return
    <3> QED
      BY <3>1, <3>2
  <2>4. UNCHANGED <<parser, job, todo>>
    BY <1>1, <2>1 DEF Receive, Lock, UpsertChunks, UpsertMessages, MarkAndSave
  <2> QED
    BY <2>1, <2>2, <2>3, <2>4
<1>2. ASSUME NEW o \in Objects, Upload(o) \/ CoolDown(o) \/ Skip(o)
      PROVE  UNCHANGED <<parser, job, todo, batch[Scanner], pc[Scanner]>>
  BY <1>2 DEF Upload, CoolDown, Skip
<1>3. CASE UNCHANGED vars
  BY <1>3 DEF vars
<1> QED
  BY <1>1, <1>2, <1>3 DEF Next, Scan, Flush, Writers

(* The scanner steps that leave it between flushes.                        *)
LEMMA ScannerFrame ==
  ASSUME TypeOK, [Next]_vars
  PROVE  \/ UNCHANGED <<parser, job, todo, batch[Scanner], pc[Scanner]>>
         \/ Fetch \/ NextBatch
         \/ Lock(Scanner) \/ UpsertChunks(Scanner) \/ UpsertMessages(Scanner)
         \/ MarkAndSave(Scanner)
         \/ BeginProcess
         \/ pc'[Scanner] \in {"idle", "scan", "begin", "failed", "done"}
<1> USE DEF TypeOK
<1>1. ASSUME List \/ EndScan \/ (\E o \in Objects : Take(o)) \/ FinishProcess
             \/ RecordFailure \/ NextObject \/ ProcessFails \/ Restart
      PROVE  pc'[Scanner] \in {"idle", "scan", "begin", "failed", "done"}
  BY <1>1 DEF List, EndScan, Take, FinishProcess, RecordFailure, NextObject,
              ProcessFails, Restart, SetStatus, Goto, Writers
<1> QED
  BY <1>1, ScannerStep

-----------------------------------------------------------------------------
(* IInv is inductive, so for every bucket, every parser and every number   *)
(* of handlers, crashes and failed calls an object is recorded only while  *)
(* its rows are stored.                                                    *)

(* Rows of raw records are written by the scanner only, from its batch.    *)
LEMMA RawRowStep ==
  ASSUME TypeOK, PostsApart, [Next]_vars, NEW m \in RawMessages
  PROVE  /\ \/ messages'[m] = messages[m]
            \/ /\ pc[Scanner] = "messages" /\ batch[Scanner][m] # 0
               /\ messages'[m] = batch[Scanner][m]
         /\ \A i \in ChunkIndex :
              \/ chunks'[m][i] = chunks[m][i]
              \/ /\ pc[Scanner] = "chunks" /\ batch[Scanner][m] # 0
                 /\ chunks'[m][i] = batch[Scanner][m]
<1>0. m \in Messages
  BY DEF Messages
<1>1. CASE UNCHANGED store
  BY <1>1 DEF store
<1>2. ASSUME NEW w \in Writers, UpsertChunks(w)
      PROVE  /\ messages'[m] = messages[m]
             /\ \A i \in ChunkIndex :
                  \/ chunks'[m][i] = chunks[m][i]
                  \/ /\ pc[Scanner] = "chunks" /\ batch[Scanner][m] # 0
                     /\ chunks'[m][i] = batch[Scanner][m]
  <2>1. messages' = messages /\ chunks' \in {chunks, WithChunks(w)} /\ pc[w] = "chunks"
    BY <1>2 DEF UpsertChunks
  <2>2. batch[w][m] # 0 => w = Scanner
    BY DEF PostsApart, Writers
  <2>3. WithChunks(w)[m] =
          IF batch[w][m] = 0 THEN chunks[m]
          ELSE [i \in ChunkIndex |->
                  IF i < ChunkCount[batch[w][m]] THEN batch[w][m] ELSE chunks[m][i]]
    BY <1>0 DEF WithChunks
  <2> QED
    BY <2>1, <2>2, <2>3
<1>3. ASSUME NEW w \in Writers, UpsertMessages(w)
      PROVE  /\ chunks' = chunks
             /\ \/ messages'[m] = messages[m]
                \/ /\ pc[Scanner] = "messages" /\ batch[Scanner][m] # 0
                   /\ messages'[m] = batch[Scanner][m]
  <2>1. chunks' = chunks /\ messages' \in {messages, WithMessages(w)} /\ pc[w] = "messages"
    BY <1>3 DEF UpsertMessages
  <2>2. batch[w][m] # 0 => w = Scanner
    BY DEF PostsApart, Writers
  <2>3. WithMessages(w)[m] = IF batch[w][m] = 0 THEN messages[m] ELSE batch[w][m]
    BY <1>0 DEF WithMessages
  <2> QED
    BY <2>1, <2>2, <2>3
<1> QED
  BY <1>1, <1>2, <1>3, StoreFrame

(* The fetched unit of a record is an edition of a record of the job.      *)
LEMMA CurrentUnit ==
  ASSUME TypeOK, JobOK, HasBody, NEW m \in RawMessages
  PROVE  /\ job.fetched \in Versions /\ parser \in Parsers /\ job.object \in Objects
         /\ Current(m) \in Editions
         /\ Current(m) # 0 => Owner[m] = job.object
<1>1. job.object \in Objects /\ job.listed \in 1..bucket[job.object]
      /\ job.fetched \in job.listed..bucket[job.object]
      /\ bucket[job.object] \in 0..MaxVersion
  BY DEF TypeOK, JobOK, HasJob, HasBody
<1>2. job.fetched \in Versions /\ parser \in Parsers
  BY <1>1 DEF TypeOK, Versions
<1> QED
  BY <1>1, <1>2, OwnerAssumption DEF Current, Unit

(* What the scanner is flushing is the fetched unit.                       *)
LEMMA BatchUnit ==
  ASSUME TypeOK, UnitsOfJob, pc[Scanner] \in Flushing, NEW m \in Messages,
         batch[Scanner][m] # 0
  PROVE  HasBody /\ m \in RawMessages /\ batch[Scanner][m] = Current(m) /\ todo[m] = Current(m)
  BY DEF UnitsOfJob, HasBody, Flushing

(* A body comes from Fetch, and stays with its job until the flushes end.  *)
LEMMA BodyFrame ==
  ASSUME TypeOK, [Next]_vars, HasBody'
  PROVE  Fetch \/ (HasBody /\ UNCHANGED <<parser, job>>)
<1>1. CASE UNCHANGED <<parser, job, todo, batch[Scanner], pc[Scanner]>>
  BY <1>1 DEF HasBody, Flushing
<1>2. CASE NextBatch \/ Lock(Scanner) \/ UpsertChunks(Scanner)
           \/ UpsertMessages(Scanner) \/ MarkAndSave(Scanner)
  BY <1>2 DEF NextBatch, Lock, UpsertChunks, UpsertMessages, MarkAndSave, HasBody, Flushing
<1>3. CASE BeginProcess
  BY <1>3 DEF TypeOK, BeginProcess, SetStatus, Goto, HasBody, Flushing, Writers
<1>4. CASE pc'[Scanner] \in {"idle", "scan", "begin", "failed", "done"}
  BY <1>4 DEF HasBody, Flushing
<1> QED
  BY <1>1, <1>2, <1>3, <1>4, ScannerFrame

-----------------------------------------------------------------------------
(* A row the scanner changes becomes the fetched unit, of the job's object. *)
LEMMA RawRowsMove ==
  ASSUME TypeOK, JobOK, PostsApart, UnitsOfJob, [Next]_vars, NEW m \in RawMessages
  PROVE  \/ messages'[m] = messages[m] /\ \A i \in ChunkIndex : chunks'[m][i] = chunks[m][i]
         \/ /\ HasBody /\ Owner[m] = job.object /\ Current(m) # 0
            /\ messages'[m] \in {messages[m], Current(m)}
            /\ \A i \in ChunkIndex : chunks'[m][i] \in {chunks[m][i], Current(m)}
<1>0. m \in Messages
  BY DEF Messages
<1>1. CASE pc[Scanner] \in Flushing /\ batch[Scanner][m] # 0
  <2>1. HasBody /\ batch[Scanner][m] = Current(m)
    BY <1>0, <1>1, BatchUnit
  <2> QED
    BY <1>1, <2>1, RawRowStep, CurrentUnit
<1>2. CASE ~(pc[Scanner] \in Flushing /\ batch[Scanner][m] # 0)
  BY <1>2, RawRowStep DEF Flushing
<1> QED
  BY <1>1, <1>2

(* No post ever carries a raw record.                                      *)
LEMMA PostsApartStep ==
  ASSUME TypeOK, PostsApart, IdsDisjoint, [Next]_vars
  PROVE  PostsApart'
<1> SUFFICES ASSUME NEW h \in Handlers, NEW m \in RawMessages PROVE batch'[h][m] = 0
  BY DEF PostsApart
<1>0. h \in Writers /\ Scanner \in Writers /\ h # Scanner /\ m \in Messages /\ m \notin HttpMessages
      /\ batch[h][m] = 0 /\ batch \in [Writers -> [Messages -> Editions]]
  BY DEF Writers, Messages, IdsDisjoint, PostsApart, TypeOK
<1>1. CASE UNCHANGED batch
  BY <1>0, <1>1
<1>2. CASE NextBatch
  <2>1. \E b \in {batch'[Scanner]} : batch' = [batch EXCEPT ![Scanner] = b]
    BY <1>0, <1>2 DEF NextBatch
  <2> QED
    BY <1>0, <2>1
<1>3. ASSUME NEW g \in Handlers, Receive(g) PROVE batch'[h][m] = 0
  <2>1. g \in Writers
    BY DEF Writers
  <2>2. PICK r \in [HttpMessages -> Editions] : batch' = [batch EXCEPT ![g] =
            [x \in Messages |->
               IF x \in {y \in HttpMessages : r[y] # 0 /\ dedup["http"][y] # r[y]}
               THEN r[x] ELSE 0]]
    BY <1>3 DEF Receive
  <2> DEFINE units == [x \in Messages |->
               IF x \in {y \in HttpMessages : r[y] # 0 /\ dedup["http"][y] # r[y]}
               THEN r[x] ELSE 0]
  <2>3. units[m] = 0
    BY <1>0
  <2>4. batch' = [batch EXCEPT ![g] = units]
    BY <2>2
  <2> HIDE DEF units
  <2> QED
    BY <1>0, <2>1, <2>3, <2>4
<1>4. ASSUME NEW w \in Writers, Flush(w) PROVE batch'[h][m] = 0
  <2>1. batch' = batch \/ batch' = [batch EXCEPT ![w] = NoUnits]
    BY <1>4 DEF Flush, Lock, UpsertChunks, UpsertMessages, MarkAndSave, Return
  <2>2. NoUnits[m] = 0
    BY <1>0 DEF NoUnits
  <2> QED
    BY <1>0, <2>1, <2>2
<1>5. CASE Restart
  BY <1>0, <1>5 DEF Restart, NoUnits
<1> QED
  BY <1>1, <1>2, <1>3, <1>4, <1>5
  DEF Next, vars, store, files, Upload, CoolDown, Scan, List, EndScan, Skip, Take,
      BeginProcess, Fetch, FinishProcess, RecordFailure, NextObject, ProcessFails

(* Rows stay behind whatever a later fetch can derive.                     *)
LEMMA RowsCurrentStep ==
  ASSUME EditionsAdvance, TypeOK, JobOK, PostsApart, UnitsOfJob, RowsCurrent, [Next]_vars
  PROVE  RowsCurrent'
<1> SUFFICES ASSUME NEW m \in RawMessages, NEW p \in Parsers, NEW v \in Versions,
                    parser' <= p, bucket'[Owner[m]] <= v,
                    Derived[p][Owner[m]][v][m] # 0
             PROVE  NotNewer(m, Derived[p][Owner[m]][v][m])'
  BY DEF RowsCurrent
<1> DEFINE e == Derived[p][Owner[m]][v][m]
<1>1. e \in Editions /\ Owner[m] \in Objects /\ m \in Messages
  BY DEF Messages
<1>2. parser <= p /\ bucket[Owner[m]] <= v
  <2>1. parser \in Nat /\ parser' \in Nat /\ p \in Nat /\ v \in Nat
        /\ bucket[Owner[m]] \in Nat /\ bucket'[Owner[m]] \in Nat
    BY <1>1, StepTyped DEF TypeOK, Parsers, Versions
  <2> QED
    BY <1>1, <2>1, Monotone
<1>3. NotNewer(m, e)
  BY <1>2 DEF RowsCurrent
<1>4. ASSUME HasBody, Owner[m] = job.object, Current(m) # 0 PROVE Current(m) <= e
  <2>1. job.fetched \in Versions /\ job.fetched <= bucket[job.object] /\ parser \in Parsers
    BY <1>4, CurrentUnit DEF TypeOK, JobOK
  <2>2. job.fetched <= v
    BY <1>1, <1>2, <1>4, <2>1 DEF TypeOK, Versions
  <2> QED
    BY <1>1, <1>2, <1>4, <2>1, <2>2 DEF EditionsAdvance, Current, Unit
<1> HIDE DEF e
<1>5. messages'[m] <= e /\ \A i \in ChunkIndex : chunks'[m][i] <= e
  BY <1>3, <1>4, RawRowsMove DEF NotNewer
<1> QED
  BY <1>5 DEF NotNewer, e

(* ... and behind the version in hand: a fetch reads the latest upload.    *)
LEMMA RowsOfJobStep ==
  ASSUME TypeOK, JobOK, PostsApart, UnitsOfJob, RowsCurrent, RowsOfJob, [Next]_vars
  PROVE  RowsOfJob'
<1> SUFFICES ASSUME HasBody', NEW m \in RawMessages, Current(m)' # 0
             PROVE  NotNewer(m, Current(m))'
  BY DEF RowsOfJob
<1>1. CASE Fetch
  <2>1. /\ job'.object = job.object /\ job'.fetched = bucket[job.object]
        /\ parser' = parser /\ messages' = messages /\ chunks' = chunks
    BY <1>1 DEF Fetch, store, TypeOK, Job
  <2>2. job.object \in Objects /\ bucket[job.object] \in Versions /\ parser \in Parsers
    BY <1>1 DEF Fetch, JobOK, HasJob, TypeOK, Versions
  <2>3. Owner[m] = job.object /\ Current(m)' = Derived[parser][Owner[m]][bucket[Owner[m]]][m]
    BY <2>1, <2>2, OwnerAssumption DEF Current, Unit
  <2>4. parser <= parser /\ bucket[Owner[m]] <= bucket[Owner[m]]
    BY <2>2, <2>3 DEF Parsers, Versions
  <2>5. NotNewer(m, Derived[parser][Owner[m]][bucket[Owner[m]]][m])
    BY <2>2, <2>3, <2>4 DEF RowsCurrent
  <2> QED
    BY <2>1, <2>3, <2>5 DEF NotNewer
<1>2. CASE HasBody /\ UNCHANGED <<parser, job>>
  <2>1. Current(m)' = Current(m)
    BY <1>2 DEF Current, Unit
  <2>2. NotNewer(m, Current(m)) /\ Current(m) \in Editions
    BY <1>2, <2>1, CurrentUnit DEF RowsOfJob
  <2>3. messages'[m] <= Current(m) /\ \A i \in ChunkIndex : chunks'[m][i] <= Current(m)
    <3>1. messages'[m] \in {messages[m], Current(m)}
          /\ \A i \in ChunkIndex : chunks'[m][i] \in {chunks[m][i], Current(m)}
      BY RawRowsMove
    <3>2. Current(m) <= Current(m)
      BY <2>2 DEF Editions
    <3> QED
      BY <2>2, <3>1, <3>2 DEF NotNewer
  <2> QED
    BY <2>1, <2>3 DEF NotNewer
<1> QED
  BY <1>1, <1>2, BodyFrame

(* While a writer is between its chunks and its marks, nobody else moves   *)
(* the rows, the lock or what is unsettled.                                *)
LEMMA FlushFrame ==
  ASSUME TypeOK, LockHeld, [Next]_vars,
         NEW w \in Writers, pc'[w] \in {"chunks", "messages", "mark"}
  PROVE  \/ Lock(w) \/ UpsertChunks(w) \/ UpsertMessages(w)
         \/ UNCHANGED <<writeMu, pc[w], batch[w], messages, chunks, unsettled>>
<1>0. Scanner \in Writers /\ pc \in [Writers -> Steps] /\ Nobody \notin Writers
      /\ batch \in [Writers -> [Messages -> Editions]]
  BY DEF Writers, TypeOK
<1>1. ASSUME NEW v \in Writers, Flush(v), v # w
      PROVE  FALSE
  <2>1. pc'[w] = pc[w]
    <3>1. \E s \in Steps : pc' = [pc EXCEPT ![v] = s]
      BY <1>1 DEF Flush, Lock, UpsertChunks, UpsertMessages, MarkAndSave, Return, Goto, Steps
    <3> QED
      BY <1>0, <1>1, <3>1
  <2>2. writeMu = w
    BY <2>1 DEF LockHeld
  <2>3. writeMu \in {v, Nobody}
    BY <1>1 DEF Flush, Lock, UpsertChunks, UpsertMessages, MarkAndSave, LockHeld
  <2> QED
    BY <1>0, <1>1, <2>2, <2>3
<1>2. ~MarkAndSave(w)
  BY <1>0 DEF MarkAndSave, Return, Goto
<1>3. ~Restart
  BY DEF Restart
<1>4. CASE Scan \/ ProcessFails
  <2>1. \/ UNCHANGED pc
        \/ \E s \in Steps \ {"chunks", "messages", "mark"} : pc' = [pc EXCEPT ![Scanner] = s]
    BY <1>4 DEF Scan, List, EndScan, Skip, Take, BeginProcess, Fetch, NextBatch,
       FinishProcess, RecordFailure, NextObject, ProcessFails, SetStatus, Goto, Steps
  <2>2. pc'[w] = pc[w] /\ (UNCHANGED pc \/ w # Scanner)
    BY <1>0, <2>1
  <2>3. UNCHANGED <<writeMu, messages, chunks, unsettled>>
    BY <1>4 DEF Scan, List, EndScan, Skip, Take, BeginProcess, Fetch, NextBatch,
       FinishProcess, RecordFailure, NextObject, ProcessFails, store
  <2>4. UNCHANGED batch \/ (NextBatch /\ \E b \in {batch'[Scanner]} : batch' = [batch EXCEPT ![Scanner] = b])
    <3>1. CASE NextBatch
      BY <1>0, <3>1 DEF NextBatch
    <3> QED
      BY <1>4, <3>1 DEF Scan, List, EndScan, Skip, Take, BeginProcess, Fetch,
         FinishProcess, RecordFailure, NextObject, ProcessFails
  <2>5. NextBatch => pc' # pc
    BY <1>0 DEF NextBatch, Goto
  <2> QED
    BY <1>0, <2>2, <2>3, <2>4, <2>5
<1>5. ASSUME NEW h \in Handlers, Receive(h)
      PROVE  UNCHANGED <<writeMu, pc[w], batch[w], messages, chunks, unsettled>>
  <2>1. h \in Writers /\ pc' = [pc EXCEPT ![h] = "lock"]
    BY <1>5 DEF Receive, Goto, Writers
  <2>2. h # w
    BY <1>0, <2>1
  <2>3. \E b \in {batch'[h]} : batch' = [batch EXCEPT ![h] = b]
    BY <1>0, <1>5, <2>1 DEF Receive
  <2> QED
    BY <1>0, <1>5, <2>1, <2>2, <2>3 DEF Receive, store
<1>6. ASSUME NEW o \in Objects, Upload(o) \/ CoolDown(o)
      PROVE  UNCHANGED <<writeMu, pc[w], batch[w], messages, chunks, unsettled>>
  BY <1>6 DEF Upload, CoolDown, store
<1>7. CASE UNCHANGED vars
  BY <1>7 DEF vars, store
<1> QED
  BY <1>1, <1>2, <1>3, <1>4, <1>5, <1>6, <1>7 DEF Next, Flush

(* writeMu is held from the chunks to the marks.                           *)
LEMMA LockHeldStep ==
  ASSUME TypeOK, LockHeld, [Next]_vars
  PROVE  LockHeld'
<1> SUFFICES ASSUME NEW w \in Writers, pc'[w] \in {"chunks", "messages", "mark"}
             PROVE  writeMu' = w
  BY DEF LockHeld
<1>1. CASE UNCHANGED <<writeMu, pc[w]>>
  BY <1>1 DEF LockHeld
<1>2. CASE Lock(w)
  BY <1>2 DEF Lock
<1>3. CASE UpsertChunks(w) \/ UpsertMessages(w)
  <2>1. pc[w] \in {"chunks", "messages"} /\ writeMu' = writeMu
    BY <1>3 DEF UpsertChunks, UpsertMessages, Return, Goto, TypeOK
  <2>2. writeMu = w
    BY <2>1 DEF LockHeld
  <2> QED
    BY <2>1, <2>2
<1> QED
  BY <1>1, <1>2, <1>3, FlushFrame

(* A flush that reached its mark has written both tables.                  *)
LEMMA FlushProgressStep ==
  ASSUME TypeOK, LockHeld, FlushProgress, [Next]_vars
  PROVE  FlushProgress'
<1> SUFFICES ASSUME NEW w \in Writers, NEW m \in Messages, batch'[w][m] # 0,
                    pc'[w] \in {"messages", "mark"}
             PROVE  /\ \A i \in ChunkIndex : i < ChunkCount[batch'[w][m]] =>
                            chunks'[m][i] = batch'[w][m]
                    /\ pc'[w] = "mark" => messages'[m] = batch'[w][m]
  BY DEF FlushProgress
<1>0. pc \in [Writers -> Steps] /\ batch \in [Writers -> [Messages -> Editions]]
  BY DEF TypeOK
<1>1. CASE UNCHANGED <<pc[w], batch[w], messages, chunks>>
  BY <1>1 DEF FlushProgress
<1>2. CASE Lock(w)
  BY <1>0, <1>2 DEF Lock, Goto
<1>3. CASE UpsertChunks(w)
  <2>1. chunks' = WithChunks(w) /\ batch' = batch /\ pc'[w] = "messages"
    BY <1>0, <1>3 DEF UpsertChunks, Return, Goto
  <2>2. batch'[w][m] \in Editions \ {0}
    BY <1>0, <2>1
  <2> QED
    BY <2>1, <2>2 DEF WithChunks
<1>4. CASE UpsertMessages(w)
  <2>1. messages' = WithMessages(w) /\ batch' = batch /\ chunks' = chunks
        /\ pc[w] = "messages"
    BY <1>0, <1>4 DEF UpsertMessages, Return, Goto
  <2>2. messages'[m] = batch'[w][m]
    BY <2>1 DEF WithMessages
  <2> QED
    BY <2>1, <2>2 DEF FlushProgress
<1> QED
  BY <1>1, <1>2, <1>3, <1>4, FlushFrame

(* What a flush has begun to write stays unsettled until it is saved.      *)
LEMMA FlushUnsettledStep ==
  ASSUME TypeOK, LockHeld, FlushUnsettled, [Next]_vars
  PROVE  FlushUnsettled'
<1> SUFFICES ASSUME NEW w \in Writers, pc'[w] \in {"messages", "mark"}
             PROVE  Flushed(w)' \subseteq unsettled'
  BY DEF FlushUnsettled
<1>0. pc \in [Writers -> Steps]
  BY DEF TypeOK
<1>1. CASE UNCHANGED <<pc[w], batch[w], unsettled>>
  BY <1>1 DEF FlushUnsettled, Flushed
<1>2. CASE Lock(w)
  BY <1>0, <1>2 DEF Lock, Goto
<1>3. CASE UpsertChunks(w)
  <2>1. batch' = batch /\ unsettled' = unsettled \cup Flushed(w)
    BY <1>0, <1>3 DEF UpsertChunks, Return, Goto
  <2> QED
    BY <2>1 DEF Flushed
<1>4. CASE UpsertMessages(w)
  <2>1. batch' = batch /\ unsettled' = unsettled /\ pc[w] = "messages"
    BY <1>0, <1>4 DEF UpsertMessages, Return, Goto
  <2> QED
    BY <2>1 DEF Flushed, FlushUnsettled
<1> QED
  BY <1>1, <1>2, <1>3, <1>4, FlushFrame

(* What was written stays written: an upsert only moves a row forward.     *)
LEMMA WrittenStep ==
  ASSUME TypeOK, JobOK, PostsApart, UnitsOfJob, RowsOfJob, [Next]_vars,
         NEW m \in RawMessages, NEW e \in Editions, Written(m, e)
  PROVE  e <= messages'[m]
         /\ \A i \in ChunkIndex : e # 0 /\ i < ChunkCount[e] => e <= chunks'[m][i]
<1>0. m \in Messages /\ messages[m] \in Nat /\ e \in Nat
      /\ \A i \in ChunkIndex : chunks[m][i] \in Nat
  BY DEF Messages, TypeOK, Editions
<1>1. CASE messages'[m] = messages[m] /\ \A i \in ChunkIndex : chunks'[m][i] = chunks[m][i]
  BY <1>1 DEF Written
<1>2. CASE /\ HasBody /\ Owner[m] = job.object /\ Current(m) # 0
           /\ messages'[m] \in {messages[m], Current(m)}
           /\ \A i \in ChunkIndex : chunks'[m][i] \in {chunks[m][i], Current(m)}
  <2>1. Current(m) \in Nat
    BY <1>2, CurrentUnit DEF Editions
  <2>2. messages[m] <= Current(m) /\ \A i \in ChunkIndex : chunks[m][i] <= Current(m)
    BY <1>2 DEF RowsOfJob, NotNewer
  <2>3. e <= messages'[m]
    BY <1>0, <1>2, <2>1, <2>2 DEF Written
  <2>4. ASSUME NEW i \in ChunkIndex, e # 0, i < ChunkCount[e] PROVE e <= chunks'[m][i]
    <3>1. e <= chunks[m][i]
      BY <2>4 DEF Written
    <3>2. chunks'[m][i] \in {chunks[m][i], Current(m)} /\ chunks[m][i] <= Current(m)
      BY <1>2, <2>2
    <3>3. chunks[m][i] \in Nat
      BY <1>0
    <3> QED
      BY <1>0, <2>1, <3>1, <3>2, <3>3
  <2> QED
    BY <2>3, <2>4
<1> QED
  BY <1>1, <1>2, RawRowsMove

(* A flush that ends marks the units of its batch.                         *)
LEMMA FlushMarks ==
  ASSUME TypeOK, NEW w \in Writers, MarkAndSave(w), NEW m \in RawMessages
  PROVE  /\ dedupFile'["raw"][m] \in {dedupFile["raw"][m], dedup'["raw"][m]}
         /\ w = Scanner => dedup'["raw"][m] = IF batch[Scanner][m] = 0
                                  THEN dedup["raw"][m] ELSE batch[Scanner][m]
         /\ w # Scanner => dedup'["raw"][m] = dedup["raw"][m]
<1> DEFINE marks == [x \in Messages |->
               IF batch[w][x] = 0 THEN dedup[Kind(w)][x] ELSE batch[w][x]]
<1>1. dedup' = [dedup EXCEPT ![Kind(w)] = marks] /\ dedupFile' \in {dedupFile, dedup'}
  BY DEF MarkAndSave
<1>2. marks[m] = IF batch[w][m] = 0 THEN dedup[Kind(w)][m] ELSE batch[w][m]
  BY DEF Messages
<1> HIDE DEF marks
<1>3. ASSUME w = Scanner PROVE dedup'["raw"] = marks /\ Kind(w) = "raw"
  BY <1>1, <1>3 DEF TypeOK, Kind
<1>4. ASSUME w # Scanner PROVE dedup'["raw"] = dedup["raw"]
  BY <1>1, <1>4 DEF TypeOK, Kind
<1> QED
  BY <1>1, <1>2, <1>3, <1>4

(* Where the marks of raw records come from: a handler's flush saves them  *)
(* as they are, a restart reloads them, the scanner's flush adds its batch. *)
LEMMA RawMarkStep ==
  ASSUME TypeOK, [Next]_vars, ~MarkAndSave(Scanner), NEW m \in RawMessages
  PROVE  /\ dedup'["raw"][m] = dedup["raw"][m] \/ (Restart /\ dedup' = dedupFile)
         /\ dedupFile'["raw"][m] \in {dedup["raw"][m], dedupFile["raw"][m]}
<1>1. ASSUME NEW w \in Writers, MarkAndSave(w)
      PROVE  /\ dedup'["raw"][m] = dedup["raw"][m]
             /\ dedupFile'["raw"][m] \in {dedup["raw"][m], dedupFile["raw"][m]}
  <2>1. w # Scanner
    BY <1>1
  <2> QED
    BY <1>1, <2>1, FlushMarks
<1>2. CASE Restart
  BY <1>2 DEF Restart, files
<1> QED
  BY <1>1, <1>2, MarkFrame

(* No mark, in memory or on disk, runs ahead of the rows.                  *)
LEMMA MarksBehindRowsStep ==
  ASSUME TypeOK, JobOK, PostsApart, UnitsOfJob, RowsOfJob, FlushProgress,
         MarksBehindRows, [Next]_vars
  PROVE  MarksBehindRows'
<1> SUFFICES ASSUME NEW m \in RawMessages
             PROVE  Written(m, dedup["raw"][m])' /\ Written(m, dedupFile["raw"][m])'
  BY DEF MarksBehindRows
<1>0. m \in Messages /\ dedup["raw"][m] \in Editions /\ dedupFile["raw"][m] \in Editions
      /\ batch[Scanner][m] \in Editions
  BY DEF Messages, TypeOK, Writers
<1>1. ASSUME NEW e \in Editions, Written(m, e),
             dedup'["raw"][m] = e \/ dedupFile'["raw"][m] = e
      PROVE  (dedup'["raw"][m] = e => Written(m, dedup["raw"][m])')
             /\ (dedupFile'["raw"][m] = e => Written(m, dedupFile["raw"][m])')
  BY <1>1, WrittenStep DEF Written
<1>2. Written(m, dedup["raw"][m]) /\ Written(m, dedupFile["raw"][m])
  BY DEF MarksBehindRows
<1>3. CASE MarkAndSave(Scanner)
  <2>1. pc[Scanner] = "mark" /\ Scanner \in Writers
    BY <1>3 DEF MarkAndSave, Writers
  <2>2. batch[Scanner][m] # 0 => Written(m, batch[Scanner][m])
    BY <1>0, <1>3, <2>1 DEF FlushProgress, Written, Editions
  <2>3. dedup'["raw"][m] = (IF batch[Scanner][m] = 0 THEN dedup["raw"][m] ELSE batch[Scanner][m])
        /\ dedupFile'["raw"][m] \in {dedupFile["raw"][m], dedup'["raw"][m]}
    BY <1>3, <2>1, FlushMarks
  <2> QED
    BY <1>0, <1>1, <1>2, <2>2, <2>3
<1>4. CASE ~MarkAndSave(Scanner)
  <2>1. dedup'["raw"][m] \in {dedup["raw"][m], dedupFile["raw"][m]}
        /\ dedupFile'["raw"][m] \in {dedup["raw"][m], dedupFile["raw"][m]}
    BY <1>4, RawMarkStep
  <2> QED
    BY <1>0, <1>1, <1>2, <2>1
<1> QED
  BY <1>3, <1>4

(* A flush that ends marks its batch in one of the two kinds.              *)
LEMMA MarksOfKind ==
  ASSUME TypeOK, NEW w \in Writers, MarkAndSave(w), NEW m \in Messages, NEW k \in {"raw", "http"}
  PROVE  /\ dedup'[k][m] = IF k = Kind(w) /\ batch[w][m] # 0 THEN batch[w][m] ELSE dedup[k][m]
         /\ dedupFile' = dedup' \/ (dedupFile' = dedupFile /\ unsettled' = unsettled)
<1> DEFINE marks == [x \in Messages |->
               IF batch[w][x] = 0 THEN dedup[Kind(w)][x] ELSE batch[w][x]]
<1>1. dedup' = [dedup EXCEPT ![Kind(w)] = marks]
  BY DEF MarkAndSave
<1>2. marks[m] = IF batch[w][m] = 0 THEN dedup[Kind(w)][m] ELSE batch[w][m]
  OBVIOUS
<1> HIDE DEF marks
<1>3. dedup'[k] = IF k = Kind(w) THEN marks ELSE dedup[k]
  BY <1>1 DEF TypeOK
<1>4. dedupFile' = dedup' \/ (dedupFile' = dedupFile /\ unsettled' = unsettled)
  BY DEF MarkAndSave
<1> QED
  BY <1>2, <1>3, <1>4

(* The writer that marks a message is of the message's kind.               *)
LEMMA KindOfMessage ==
  ASSUME PostsApart, UnitsOfJob, IdsDisjoint,
         NEW w \in Writers, pc[w] \in Flushing, NEW m \in Messages, batch[w][m] # 0
  PROVE  Kind(w) = IF m \in RawMessages THEN "raw" ELSE "http"
<1>1. CASE w = Scanner
  <2>1. todo[m] # 0 /\ HasBody
    BY <1>1 DEF UnitsOfJob, HasBody
  <2> QED
    BY <1>1, <2>1 DEF UnitsOfJob, Kind
<1>2. CASE w # Scanner
  BY <1>2 DEF PostsApart, Kind, Writers
<1> QED
  BY <1>1, <1>2

(* What is unsettled changes when a flush starts to write and when it is   *)
(* saved.                                                                  *)
LEMMA UnsettledFrame ==
  ASSUME [Next]_vars
  PROVE  UNCHANGED unsettled \/ \E w \in Writers : UpsertChunks(w) \/ MarkAndSave(w)
  BY DEF Next, vars, store, files, Upload, CoolDown, Scan, List, EndScan, Skip, Take,
         BeginProcess, Fetch, NextBatch, FinishProcess, RecordFailure, NextObject,
         ProcessFails, Receive, Flush, Lock, UpsertMessages, Restart

(* The rows, the mark and the saved mark of a settled message agree.       *)
LEMMA SettledAgreeStep ==
  ASSUME TypeOK, PostsApart, UnitsOfJob, FlushProgress, FlushUnsettled,
         SettledAgree, IdsDisjoint, [Next]_vars
  PROVE  SettledAgree'
<1> SUFFICES ASSUME NEW m \in Messages, m \notin unsettled',
                    NEW k, k = IF m \in RawMessages THEN "raw" ELSE "http"
             PROVE  Whole(m, dedupFile[k][m])' /\ dedup'[k][m] = dedupFile'[k][m]
  BY DEF SettledAgree
<1>0. k \in {"raw", "http"}
  OBVIOUS
<1>1. ASSUME m \notin unsettled PROVE Whole(m, dedupFile[k][m]) /\ dedup[k][m] = dedupFile[k][m]
  BY <1>1 DEF SettledAgree
<1>2. ASSUME NEW w \in Writers, UpsertChunks(w)
      PROVE  Whole(m, dedupFile[k][m])' /\ dedup'[k][m] = dedupFile'[k][m]
  <2>1. m \notin unsettled /\ batch[w][m] = 0
    BY <1>2 DEF UpsertChunks, Flushed
  <2>2. chunks'[m] = chunks[m]
    BY <1>2, <2>1 DEF UpsertChunks, WithChunks
  <2> QED
    BY <1>1, <1>2, <2>1, <2>2 DEF UpsertChunks, Whole, files
<1>3. ASSUME NEW w \in Writers, UpsertMessages(w)
      PROVE  Whole(m, dedupFile[k][m])' /\ dedup'[k][m] = dedupFile'[k][m]
  <2>1. m \notin unsettled /\ batch[w][m] = 0
    BY <1>3 DEF UpsertMessages, FlushUnsettled, Flushed
  <2>2. messages'[m] = messages[m]
    BY <1>3, <2>1 DEF UpsertMessages, WithMessages
  <2> QED
    BY <1>1, <1>3, <2>1, <2>2 DEF UpsertMessages, Whole, files
<1>4. ASSUME NEW w \in Writers, MarkAndSave(w)
      PROVE  Whole(m, dedupFile[k][m])' /\ dedup'[k][m] = dedupFile'[k][m]
  <2>1. pc[w] = "mark" /\ UNCHANGED <<messages, chunks>>
    BY <1>4 DEF MarkAndSave, store
  <2>2. dedup'[k][m] = (IF k = Kind(w) /\ batch[w][m] # 0 THEN batch[w][m] ELSE dedup[k][m])
        /\ (dedupFile' = dedup' \/ (dedupFile' = dedupFile /\ unsettled' = unsettled))
    BY <1>0, <1>4, MarksOfKind
  <2>3. CASE batch[w][m] # 0
    <3>1. k = Kind(w)
      BY <2>1, <2>3, KindOfMessage DEF Flushing
    <3>2. m \in unsettled
      BY <2>1, <2>3 DEF FlushUnsettled, Flushed
    <3>3. Whole(m, batch[w][m])
      BY <2>1, <2>3 DEF FlushProgress, Whole
    <3> QED
      BY <2>1, <2>2, <2>3, <3>1, <3>2, <3>3 DEF Whole
  <2>4. CASE batch[w][m] = 0
    <3>1. m \notin unsettled
      BY <1>4, <2>4 DEF MarkAndSave, Flushed
    <3> QED
      BY <1>1, <2>1, <2>2, <2>4, <3>1 DEF Whole
  <2> QED
    BY <2>3, <2>4
<1>5. CASE UNCHANGED store /\ UNCHANGED unsettled
           /\ (UNCHANGED <<dedup, dedupFile>> \/ Restart)
  BY <1>1, <1>5 DEF store, Whole, Restart, files
<1> QED
  BY <1>2, <1>3, <1>4, <1>5, StoreFrame, MarkFrame, UnsettledFrame

(* A step that keeps the job, its pending units and the raw marks keeps    *)
(* the account of them.                                                    *)
LEMMA UnitsKept ==
  ASSUME UnitsOfJob, HasBody, UNCHANGED <<parser, job, todo>>,
         \A m \in RawMessages : dedup'["raw"][m] = dedup["raw"][m],
         \A m \in Messages : batch'[Scanner][m] # 0 => batch'[Scanner][m] = todo'[m]
  PROVE  UnitsOfJob'
<1>1. \A m : Current(m)' = Current(m)
  BY DEF Current, Unit
<1> QED
  BY <1>1 DEF UnitsOfJob

(* The scanner's pending units are those of the fetched body that dedup    *)
(* has not seen.                                                           *)
LEMMA UnitsOfJobStep ==
  ASSUME TypeOK, JobOK, PostsApart, UnitsOfJob, [Next]_vars
  PROVE  UnitsOfJob'
<1>0. Scanner \in Writers /\ pc \in [Writers -> Steps]
      /\ batch \in [Writers -> [Messages -> Editions]] /\ todo \in [Messages -> Editions]
      /\ RawMessages \subseteq Messages
  BY DEF Writers, TypeOK, Messages
<1>1. CASE Fetch
  <2>1. pc'[Scanner] = "index"
    BY <1>0, <1>1 DEF Fetch, Goto
  <2>2. job'.object = job.object /\ job'.fetched = bucket[job.object] /\ parser' = parser
        /\ dedup' = dedup
    BY <1>1 DEF Fetch, TypeOK, Job
  <2>3. \A m \in RawMessages : Current(m)' = Derived[parser][job.object][bucket[job.object]][m]
    BY <2>2 DEF Current, Unit
  <2> DEFINE unit == [m \in Messages |-> IF m \in RawMessages
                 THEN Derived[parser][job.object][bucket[job.object]][m] ELSE 0]
  <2>4. /\ \A m \in RawMessages : unit[m] = Current(m)'
        /\ \A m \in Messages \ RawMessages : unit[m] = 0
    BY <1>0, <2>3
  <2>5. todo' = [m \in Messages |-> IF dedup["raw"][m] = unit[m] THEN 0 ELSE unit[m]]
    BY <1>1 DEF Fetch
  <2> HIDE DEF unit
  <2>6. \A m \in Messages : todo'[m] = IF dedup["raw"][m] = unit[m] THEN 0 ELSE unit[m]
    BY <2>5
  <2>7. \A m \in Messages : todo'[m] # 0 => m \in RawMessages /\ todo'[m] = Current(m)'
    BY <2>4, <2>6
  <2>8. \A m \in RawMessages :
          todo'[m] = 0 /\ Current(m)' # 0 => dedup'["raw"][m] = Current(m)'
    BY <1>0, <2>2, <2>4, <2>6
  <2> QED
    BY <2>1, <2>7, <2>8 DEF UnitsOfJob, Flushing
<1>2. CASE NextBatch
  <2>1. PICK ms \in SUBSET Messages : batch' = [batch EXCEPT ![Scanner] =
                     [m \in Messages |-> IF m \in ms THEN todo[m] ELSE 0]]
    BY <1>2 DEF NextBatch
  <2> DEFINE units == [m \in Messages |-> IF m \in ms THEN todo[m] ELSE 0]
  <2>2. \A m \in Messages : units[m] # 0 => units[m] = todo[m]
    OBVIOUS
  <2>3. batch' = [batch EXCEPT ![Scanner] = units]
    BY <2>1
  <2> HIDE DEF units
  <2>4. \A m \in Messages : batch'[Scanner][m] # 0 => batch'[Scanner][m] = todo[m]
    BY <1>0, <2>2, <2>3
  <2>5. UNCHANGED <<parser, job, todo, dedup>> /\ HasBody
    BY <1>2 DEF NextBatch, HasBody
  <2> QED
    BY <2>4, <2>5, UnitsKept
<1>3. CASE MarkAndSave(Scanner)
  <2>1. pc[Scanner] = "mark" /\ UNCHANGED <<parser, job>>
    BY <1>3 DEF MarkAndSave
  <2>2. \A m \in Messages : Current(m)' = Current(m)
    BY <2>1 DEF Current, Unit
  <2>3. CASE pc'[Scanner] = "index"
    <3>1. todo' = [m \in Messages |-> IF batch[Scanner][m] = 0 THEN todo[m] ELSE 0]
      BY <1>0, <1>3, <2>3 DEF MarkAndSave, Return, Goto
    <3>2. \A m \in Messages : todo'[m] = IF batch[Scanner][m] = 0 THEN todo[m] ELSE 0
      BY <3>1
    <3>3. \A m \in Messages : todo'[m] # 0 => m \in RawMessages /\ todo'[m] = Current(m)'
      BY <2>1, <2>2, <3>2 DEF UnitsOfJob, HasBody, Flushing
    <3>4. ASSUME NEW m \in RawMessages, todo'[m] = 0, Current(m)' # 0
          PROVE  dedup'["raw"][m] = Current(m)'
      <4>1. dedup'["raw"][m] = IF batch[Scanner][m] = 0 THEN dedup["raw"][m]
                               ELSE batch[Scanner][m]
        BY <1>0, <1>3, FlushMarks
      <4>2. batch[Scanner][m] # 0 => batch[Scanner][m] = Current(m)
        BY <1>0, <2>1, BatchUnit DEF Flushing
      <4>3. batch[Scanner][m] = 0 => todo[m] = 0
        BY <1>0, <3>2, <3>4
      <4>4. Current(m)' = Current(m) /\ HasBody
        BY <1>0, <2>1, <2>2 DEF HasBody, Flushing
      <4>5. batch[Scanner][m] = 0 => dedup["raw"][m] = Current(m)
        BY <3>4, <4>3, <4>4 DEF UnitsOfJob
      <4> QED
        BY <4>1, <4>2, <4>4, <4>5
    <3> QED
      BY <2>3, <3>3, <3>4 DEF UnitsOfJob, Flushing
  <2>4. CASE pc'[Scanner] # "index"
    <3>1. pc'[Scanner] = "failed"
      BY <1>0, <1>3, <2>4 DEF MarkAndSave, Return, Goto
    <3> QED
      BY <3>1 DEF UnitsOfJob, HasBody, Flushing
  <2> QED
    BY <2>3, <2>4
<1>4. CASE Lock(Scanner) \/ UpsertChunks(Scanner) \/ UpsertMessages(Scanner)
  <2>1. UNCHANGED <<parser, job, todo, dedup>> /\ pc[Scanner] \in Flushing
    BY <1>4 DEF Lock, UpsertChunks, UpsertMessages, Flushing
  <2>2. batch' = batch \/ batch' = [batch EXCEPT ![Scanner] = NoUnits]
    BY <1>4 DEF Lock, UpsertChunks, UpsertMessages, Return
  <2>3. \A m \in Messages : batch'[Scanner][m] # 0 => batch'[Scanner][m] = batch[Scanner][m]
    BY <1>0, <2>2 DEF NoUnits
  <2>4. \A m \in Messages : batch'[Scanner][m] # 0 => batch'[Scanner][m] = todo'[m]
    BY <2>1, <2>3 DEF UnitsOfJob
  <2>5. HasBody
    BY <2>1 DEF HasBody
  <2> QED
    BY <2>1, <2>4, <2>5, UnitsKept
<1>5. CASE /\ UNCHANGED <<parser, job, todo, batch[Scanner], pc[Scanner]>>
           /\ ~MarkAndSave(Scanner) /\ HasBody'
  <2>1. HasBody /\ ~Restart
    BY <1>0, <1>5 DEF HasBody, Flushing, Restart
  <2>2. \A m \in RawMessages : dedup'["raw"][m] = dedup["raw"][m]
    BY <1>5, <2>1, RawMarkStep
  <2>3. CASE pc[Scanner] \in Flushing
    <3>1. \A m \in Messages : batch'[Scanner][m] # 0 => batch'[Scanner][m] = todo'[m]
      BY <1>5, <2>3 DEF UnitsOfJob
    <3> QED
      BY <1>5, <2>1, <2>2, <3>1, UnitsKept
  <2>4. CASE pc[Scanner] \notin Flushing
    <3>1. pc'[Scanner] \notin Flushing /\ \A m : Current(m)' = Current(m)
      BY <1>5, <2>4 DEF Current, Unit
    <3> QED
      BY <1>5, <2>1, <2>2, <3>1 DEF UnitsOfJob, Flushing
  <2> QED
    BY <2>3, <2>4
<1>6. CASE ~HasBody'
  BY <1>6 DEF UnitsOfJob, HasBody
<1>7. BeginProcess => ~HasBody'
  BY <1>0 DEF BeginProcess, SetStatus, Goto, HasBody, Flushing
<1>8. pc'[Scanner] \in {"idle", "scan", "begin", "failed", "done"} => ~HasBody'
  BY DEF HasBody, Flushing
<1> QED
  BY <1>1, <1>2, <1>3, <1>4, <1>5, <1>6, <1>7, <1>8, ScannerFrame

(* Rows move only while the registry file says processing.                 *)
LEMMA ProcessingSavedStep ==
  ASSUME TypeOK, JobOK, ProcessingSaved, [Next]_vars
  PROVE  ProcessingSaved'
<1>0. Scanner \in Writers /\ pc \in [Writers -> Steps]
  BY DEF Writers, TypeOK
<1> SUFFICES ASSUME pc'[Scanner] = "fetch" \/ HasBody'
             PROVE  registryFile'[job'.object].status = "processing"
  BY DEF ProcessingSaved
<1>1. CASE BeginProcess
  <2>1. registryFile' = Marked("processing") /\ job' = job
    BY <1>0, <1>1 DEF BeginProcess, SetStatus, Goto, HasBody, Flushing
  <2>2. job.object \in Objects
    BY <1>1 DEF BeginProcess, JobOK, HasJob
  <2> QED
    BY <2>1, <2>2 DEF Marked, TypeOK
<1>2. CASE ~BeginProcess
  <2>1. ~FinishProcess /\ ~RecordFailure
    BY <1>0 DEF FinishProcess, RecordFailure, SetStatus, Goto, HasBody, Flushing
  <2>2. UNCHANGED registryFile
    BY <1>2, <2>1, RegistryFrame
  <2>3. (pc[Scanner] = "fetch" \/ HasBody) /\ job'.object = job.object
    <3>1. CASE HasBody'
      BY <3>1, BodyFrame DEF Fetch, TypeOK, Job
    <3>2. CASE pc'[Scanner] = "fetch"
      BY <1>0, <1>2, <3>2, ScannerFrame DEF Fetch, NextBatch, Lock, UpsertChunks,
         UpsertMessages, MarkAndSave, Return, Goto
    <3> QED
      BY <3>1, <3>2
  <2> QED
    BY <2>2, <2>3 DEF ProcessingSaved
<1> QED
  BY <1>1, <1>2

(* From the moment "processing" is saved until the object is recorded, the *)
(* registry file is what the registry in memory is.                        *)
LEMMA RegistrySavedStep ==
  ASSUME TypeOK, RegistrySaved, [Next]_vars
  PROVE  RegistrySaved'
<1>0. Scanner \in Writers /\ pc \in [Writers -> Steps]
  BY DEF Writers, TypeOK
<1> SUFFICES ASSUME pc'[Scanner] = "fetch" \/ HasBody'
             PROVE  registryFile' = registry'
  BY DEF RegistrySaved
<1>1. CASE BeginProcess
  BY <1>0, <1>1 DEF BeginProcess, SetStatus, Goto, HasBody, Flushing
<1>2. CASE ~BeginProcess
  <2>1. ~FinishProcess /\ ~RecordFailure /\ ~Restart
    BY <1>0 DEF FinishProcess, RecordFailure, Restart, SetStatus, Goto, HasBody, Flushing
  <2>2. UNCHANGED <<registry, registryFile>>
    BY <1>2, <2>1 DEF Next, vars, store, files, Upload, CoolDown, Scan, List, EndScan, Skip,
       Take, Fetch, NextBatch, NextObject, ProcessFails, Receive, Flush, Lock,
       UpsertChunks, UpsertMessages, MarkAndSave
  <2>3. pc[Scanner] = "fetch" \/ HasBody
    <3>1. CASE HasBody'
      BY <3>1, BodyFrame DEF Fetch
    <3>2. CASE pc'[Scanner] = "fetch"
      BY <1>0, <1>2, <3>2, ScannerFrame DEF Fetch, NextBatch, Lock, UpsertChunks,
         UpsertMessages, MarkAndSave, Return, Goto
    <3> QED
      BY <3>1, <3>2
  <2> QED
    BY <2>2, <2>3 DEF RegistrySaved
<1> QED
  BY <1>1, <1>2

(* What the registry in memory says is indexed is saved, unless the Save   *)
(* that should have done so has just failed.                               *)
LEMMA EntriesSavedStep ==
  ASSUME TypeOK, JobOK, EntriesSaved, [Next]_vars
  PROVE  EntriesSaved'
<1>0. Scanner \in Writers /\ pc \in [Writers -> Steps] /\ registry \in [Objects -> Entry]
  BY DEF Writers, TypeOK
<1> SUFFICES ASSUME NEW o \in Objects, registry'[o].status = "indexed"
             PROVE  registryFile'[o] = registry'[o] \/ (pc'[Scanner] = "failed" /\ o = job'.object)
  BY DEF EntriesSaved
<1>1. ASSUME BeginProcess \/ FinishProcess \/ RecordFailure PROVE
        \/ registryFile' = registry'
        \/ /\ job' = job /\ registryFile' = registryFile /\ pc'[Scanner] = "failed"
           /\ registry'[o] = registry[o] \/ o = job.object
           /\ pc[Scanner] # "failed"
        \/ /\ job' = job /\ registryFile' = registryFile
           /\ pc[Scanner] = "failed" /\ registry' = Marked("failed")
  BY <1>0, <1>1 DEF BeginProcess, FinishProcess, RecordFailure, SetStatus, Marked, Goto
<1>2. ASSUME registry' = Marked("failed") PROVE registry'[o] = registry[o] /\ o # job.object
  BY <1>0, <1>2 DEF Marked
<1>3. CASE BeginProcess \/ FinishProcess \/ RecordFailure
  BY <1>1, <1>2, <1>3 DEF EntriesSaved
<1>4. CASE Restart
  BY <1>4 DEF Restart, files
<1>5. CASE ~BeginProcess /\ ~FinishProcess /\ ~RecordFailure /\ ~Restart
  <2>1. UNCHANGED <<registry, registryFile>>
    BY <1>5 DEF Next, vars, store, files, Upload, CoolDown, Scan, List, EndScan, Skip, Take,
         Fetch, NextBatch, NextObject, ProcessFails, Receive, Flush, Lock,
         UpsertChunks, UpsertMessages, MarkAndSave
  <2>2. pc[Scanner] = "failed" => pc'[Scanner] = "failed" /\ job' = job
    <3>1. ASSUME List \/ EndScan \/ (\E x \in Objects : Take(x)) \/ NextObject \/ ProcessFails
                 \/ Fetch \/ NextBatch \/ Lock(Scanner) \/ UpsertChunks(Scanner)
                 \/ UpsertMessages(Scanner) \/ MarkAndSave(Scanner)
          PROVE  pc[Scanner] # "failed"
      BY <3>1 DEF List, EndScan, Take, NextObject, ProcessFails, Fetch, NextBatch, Lock,
                  UpsertChunks, UpsertMessages, MarkAndSave
    <3> QED
      BY <1>5, <3>1, ScannerStep
  <2> QED
    BY <2>1, <2>2 DEF EntriesSaved
<1> QED
  BY <1>3, <1>4, <1>5

(* An entry that says indexed was there, or is the job's, just recorded.   *)
LEMMA RecordedStep ==
  ASSUME TypeOK, JobOK, EntriesSaved, [Next]_vars, NEW o \in Objects,
         registryFile'[o].status = "indexed"
  PROVE  \/ registryFile'[o] = registryFile[o]
         \/ /\ FinishProcess /\ o = job.object
            /\ registryFile'[o].version = job.listed /\ registryFile'[o].parser = parser
<1>0. registry \in [Objects -> Entry]
  BY DEF TypeOK
<1>1. ASSUME NEW s, registryFile' = Marked(s)
      PROVE  \/ registryFile'[o] = registryFile[o]
             \/ /\ o = job.object /\ s = "indexed"
                /\ registryFile'[o].version = job.listed /\ registryFile'[o].parser = parser
  <2>1. CASE o = job.object
    BY <1>0, <1>1, <2>1 DEF Marked
  <2>2. CASE o # job.object
    BY <1>0, <1>1, <2>2 DEF Marked, EntriesSaved
  <2> QED
    BY <2>1, <2>2
<1>2. CASE UNCHANGED registryFile
  BY <1>2
<1>3. CASE FinishProcess
  BY <1>1, <1>3 DEF FinishProcess, SetStatus
<1>4. CASE BeginProcess
  BY <1>1, <1>4 DEF BeginProcess, SetStatus
<1>5. CASE RecordFailure
  BY <1>1, <1>5 DEF RecordFailure, SetStatus
<1> QED
  BY <1>2, <1>3, <1>4, <1>5, RegistryFrame

(* A recorded version stays one that was uploaded.                         *)
LEMMA EntriesOKStep ==
  ASSUME TypeOK, JobOK, EntriesSaved, EntriesOK, [Next]_vars
  PROVE  EntriesOK'
<1> SUFFICES ASSUME NEW o \in Objects, registryFile'[o].status = "indexed"
             PROVE  /\ registryFile'[o].version \in 1..bucket'[o]
                    /\ registryFile'[o].parser \in Parsers
  BY DEF EntriesOK
<1>1. bucket[o] \in Nat /\ bucket'[o] \in Nat /\ bucket[o] <= bucket'[o]
  BY StepTyped, Monotone DEF TypeOK
<1>2. CASE registryFile'[o] = registryFile[o]
  BY <1>1, <1>2 DEF EntriesOK
<1>3. CASE /\ FinishProcess /\ o = job.object
           /\ registryFile'[o].version = job.listed /\ registryFile'[o].parser = parser
  BY <1>1, <1>3 DEF FinishProcess, JobOK, HasJob, TypeOK
<1> QED
  BY <1>2, <1>3, RecordedStep

(* When nothing is pending, the fetched version is completely stored: each *)
(* of its units is marked, hence written, and no row is newer.             *)
LEMMA NothingPending ==
  ASSUME TypeOK, JobOK, UnitsOfJob, RowsOfJob, MarksBehindRows,
         pc[Scanner] = "index", todo = NoUnits
  PROVE  StoredAs(parser, job.object, job.fetched)
<1>0. HasBody
  BY DEF HasBody
<1> SUFFICES ASSUME NEW m \in RawMessages, Current(m) # 0 PROVE Whole(m, Current(m))
  BY DEF StoredAs, Current, Unit
<1>1. m \in Messages /\ todo[m] = 0
  BY DEF Messages, NoUnits
<1>2. dedup["raw"][m] = Current(m)
  BY <1>0, <1>1 DEF UnitsOfJob
<1>3. Written(m, Current(m)) /\ NotNewer(m, Current(m)) /\ Current(m) \in Nat
  BY <1>0, <1>2, CurrentUnit DEF MarksBehindRows, RowsOfJob, Editions
<1>4. messages[m] \in Nat /\ \A i \in ChunkIndex : chunks[m][i] \in Nat
  BY <1>1 DEF TypeOK, Editions
<1>5. messages[m] = Current(m)
  BY <1>3, <1>4 DEF Written, NotNewer
<1>6. ASSUME NEW i \in ChunkIndex, i < ChunkCount[Current(m)]
      PROVE  chunks[m][i] = Current(m)
  <2>1. Current(m) <= chunks[m][i] /\ chunks[m][i] <= Current(m)
    BY <1>3, <1>6 DEF Written, NotNewer
  <2> QED
    BY <1>3, <1>4, <2>1
<1> QED
  BY <1>5, <1>6 DEF Whole

(* An object is recorded only while its rows are stored.                   *)
LEMMA RecordedCompleteStep ==
  ASSUME IInv, [Next]_vars
  PROVE  RecordedComplete'
<1> USE DEF IInv, FlushInv
<1> SUFFICES ASSUME NEW o \in Objects, registryFile'[o].status = "indexed"
             PROVE  \E v \in registryFile'[o].version..bucket'[o] :
                       StoredAs(registryFile[o].parser, o, v)'
  BY DEF RecordedComplete
<1>1. bucket[o] \in Nat /\ bucket'[o] \in Nat /\ bucket[o] <= bucket'[o]
  BY SMTT(30), StepTyped, Monotone DEF TypeOK
<1>2. CASE /\ FinishProcess /\ o = job.object
           /\ registryFile'[o].version = job.listed /\ registryFile'[o].parser = parser
  <2>1. pc[Scanner] = "index" /\ todo = NoUnits /\ UNCHANGED <<messages, chunks>>
    BY <1>2 DEF FinishProcess, store
  <2>2. StoredAs(parser, job.object, job.fetched)
    BY <2>1, NothingPending
  <2>3. job.fetched \in job.listed..bucket[job.object] /\ job.listed \in Nat
    BY <2>1 DEF JobOK, HasJob, HasBody
  <2>4. PICK v \in job.listed..bucket[o] : v = job.fetched
    BY <1>2, <2>3
  <2>5. StoredAs(registryFile[o].parser, o, v)'
    BY <1>2, <2>1, <2>2, <2>4 DEF StoredAs, Whole
  <2> QED
    BY <1>1, <1>2, <2>3, <2>4, <2>5
<1>3. CASE registryFile'[o] = registryFile[o]
  <2>1. PICK v \in registryFile[o].version..bucket[o] : StoredAs(registryFile[o].parser, o, v)
    BY <1>3 DEF RecordedComplete
  <2>2. registryFile[o].version \in 1..bucket[o] /\ registryFile[o].parser \in Parsers
    BY <1>3 DEF EntriesOK
  <2>3. v \in Versions /\ v \in registryFile[o].version..bucket'[o]
    BY <1>1, <2>1, <2>2 DEF TypeOK, Versions
  <2>4. HasBody => o # job.object
    BY <1>3 DEF ProcessingSaved
  <2> DEFINE d(m) == Derived[registryFile[o].parser][o][v][m]
  <2>5. ASSUME NEW m \in RawMessages, d(m) # 0
        PROVE  /\ messages'[m] = d(m)
               /\ \A i \in ChunkIndex : i < ChunkCount[d(m)] => chunks'[m][i] = d(m)
    <3>1. Owner[m] = o
      BY <2>2, <2>3, <2>5, OwnerAssumption
    <3>2. messages'[m] = messages[m] /\ \A i \in ChunkIndex : chunks'[m][i] = chunks[m][i]
      BY <2>4, <3>1, RawRowsMove
    <3>3. Whole(m, d(m))
      BY <2>1, <2>5 DEF StoredAs
    <3> QED
      BY <2>5, <3>2, <3>3 DEF Whole
  <2>6. StoredAs(registryFile[o].parser, o, v)'
    BY <1>3, <2>5 DEF StoredAs, Whole
  <2> QED
    BY <1>3, <2>3, <2>6
<1> QED
  BY <1>2, <1>3, RecordedStep

-----------------------------------------------------------------------------
(* Nothing is stored, marked or recorded when the daemon first starts.     *)
LEMMA InitFlush == Init => FlushInv
<1> SUFFICES ASSUME Init PROVE FlushInv
  OBVIOUS
<1>1. TypeOK /\ JobOK
  BY InitTyped
<1>2. PostsApart /\ FlushProgress
  BY DEF Init, PostsApart, FlushProgress, NoUnits, Messages, Writers
<1>3. UnitsOfJob /\ LockHeld /\ FlushUnsettled
  BY DEF Init, UnitsOfJob, LockHeld, FlushUnsettled, HasBody, Flushing, Writers
<1>4. SettledAgree
  BY DEF Init, SettledAgree, Whole, NoUnits
<1> QED
  BY <1>1, <1>2, <1>3, <1>4 DEF FlushInv

LEMMA InitSafe == Init => IInv
<1> SUFFICES ASSUME Init PROVE IInv
  OBVIOUS
<1>1. EntriesOK /\ EntriesSaved /\ RecordedComplete
  BY DEF Init, EntriesOK, EntriesSaved, RecordedComplete, NoEntry
<1>2. RowsOfJob /\ ProcessingSaved /\ RegistrySaved
  BY DEF Init, RowsOfJob, ProcessingSaved, RegistrySaved, HasBody, Flushing, Writers
<1>3. RowsCurrent
  <2> SUFFICES ASSUME NEW m \in RawMessages, NEW p \in Parsers, NEW v \in Versions
               PROVE  NotNewer(m, Derived[p][Owner[m]][v][m])
    BY DEF RowsCurrent
  <2>1. Derived[p][Owner[m]][v][m] \in Nat
    BY DEF Editions
  <2>2. messages[m] = 0 /\ \A i \in ChunkIndex : chunks[m][i] = 0
    BY DEF Init, NoUnits, Messages
  <2> QED
    BY <2>1, <2>2 DEF NotNewer
<1>4. MarksBehindRows
  BY DEF Init, MarksBehindRows, Written, NoUnits, Messages
<1> QED
  BY <1>1, <1>2, <1>3, <1>4, InitFlush DEF IInv

(* Both invariants are inductive; that of the flush needs nothing of the   *)
(* order in which units appear.                                            *)
LEMMA StepFlush ==
  ASSUME IdsDisjoint
  PROVE  FlushInv /\ [Next]_vars => FlushInv'
<1> SUFFICES ASSUME FlushInv, [Next]_vars PROVE FlushInv'
  OBVIOUS
<1>1. TypeOK' /\ JobOK'
  BY StepTyped DEF FlushInv
<1>2. PostsApart' /\ UnitsOfJob'
  BY PostsApartStep, UnitsOfJobStep DEF FlushInv
<1>3. LockHeld' /\ FlushProgress' /\ FlushUnsettled'
  BY LockHeldStep, FlushProgressStep, FlushUnsettledStep DEF FlushInv
<1>4. SettledAgree'
  BY SettledAgreeStep DEF FlushInv
<1> QED
  BY <1>1, <1>2, <1>3, <1>4 DEF FlushInv

LEMMA StepSafe ==
  ASSUME EditionsAdvance, IdsDisjoint
  PROVE  IInv /\ [Next]_vars => IInv'
<1> SUFFICES ASSUME IInv, [Next]_vars PROVE IInv'
  OBVIOUS
<1> USE DEF IInv, FlushInv
<1>1. FlushInv'
  BY StepFlush
<1>2. EntriesOK' /\ EntriesSaved' /\ RegistrySaved' /\ ProcessingSaved'
  BY EntriesOKStep, EntriesSavedStep, RegistrySavedStep, ProcessingSavedStep
<1>3. RowsCurrent' /\ RowsOfJob'
  BY RowsCurrentStep, RowsOfJobStep
<1>4. MarksBehindRows' /\ RecordedComplete'
  BY MarksBehindRowsStep, RecordedCompleteStep
<1> QED
  BY <1>1, <1>2, <1>3, <1>4

(***************************************************************************)
(* main.go flush under writeMu, for every number of handlers, failed calls *)
(* and crashes: of a message with no flush in flight or cut short, the     *)
(* row, each of its chunks, the mark in memory and the saved mark agree.   *)
(* Only that no client posts the id of a raw record is needed.             *)
(***************************************************************************)
THEOREM SettledSafe ==
  ASSUME IdsDisjoint
  PROVE  Spec => []SettledAgree
<1>1. FlushInv /\ [Next]_vars => FlushInv'
  BY StepFlush
<1>2. FlushInv => SettledAgree
  BY DEF FlushInv
<1> QED
  BY InitFlush, <1>1, <1>2, PTL DEF Spec

(***************************************************************************)
(* README.md:320 for every bucket, parser, batch size and number of        *)
(* handlers, failures and crashes: while the registry file says indexed,   *)
(* every row derived from the listed version or a newer upload is stored.  *)
(* It needs that a unit, once replaced, does not come back (the run        *)
(* RawIngestTitleBack shows why) and that no client posts the id of a raw  *)
(* record, which README.md:99 lets it overwrite.                           *)
(***************************************************************************)
THEOREM RecordingSafe ==
  ASSUME EditionsAdvance, IdsDisjoint
  PROVE  Spec => []RecordedComplete
<1>1. IInv /\ [Next]_vars => IInv'
  BY StepSafe
<1>2. IInv => RecordedComplete
  BY DEF IInv
<1> QED
  BY InitSafe, <1>1, <1>2, PTL DEF Spec

(* Whatever fails or crashes, no unit is marked in memory or on disk       *)
(* before flush has written both tables (main.go flush).                   *)
THEOREM MarksSafe ==
  ASSUME EditionsAdvance, IdsDisjoint
  PROVE  Spec => []MarksBehindRows
<1>1. IInv /\ [Next]_vars => IInv'
  BY StepSafe
<1>2. IInv => MarksBehindRows
  BY DEF IInv
<1> QED
  BY InitSafe, <1>1, <1>2, PTL DEF Spec

-----------------------------------------------------------------------------
(* The refinement of ObjectIndex: what readers of the registry file and    *)
(* the tables see moves only as that specification allows.                 *)

LEMMA RefinesInit == Init => Index!OInit
<1> SUFFICES ASSUME Init PROVE Index!OInit
  OBVIOUS
<1>1. RecordedView = [o \in Objects |-> Index!Unrecorded]
  BY DEF Init, RecordedView, NoEntry, Index!Unrecorded
<1>2. \A m \in RawMessages : messages[m] = 0 /\ \A i \in ChunkIndex : chunks[m][i] = 0
  BY DEF Init, NoUnits, Messages
<1>3. RowView = [m \in RawMessages |-> 0]
  BY <1>2 DEF RowView, Whole
<1> QED
  BY <1>1, <1>3 DEF Init, Index!OInit

(* What is seen of a raw record depends on its own rows.                   *)
LEMMA RowViewOf ==
  ASSUME TypeOK, NEW m \in RawMessages
  PROVE  /\ RowView \in [RawMessages -> Editions \cup {Torn}]
         /\ \A e \in Editions : e # 0 /\ Whole(m, e) => RowView[m] = e
<1>1. \A x \in RawMessages : messages[x] \in Editions
  BY DEF TypeOK, Messages
<1> QED
  BY <1>1 DEF RowView, Whole

LEMMA RowViewFrame ==
  ASSUME NEW m \in RawMessages, messages'[m] = messages[m],
         \A i \in ChunkIndex : chunks'[m][i] = chunks[m][i]
  PROVE  RowView'[m] = RowView[m]
  BY DEF RowView, Whole

(* Rows of one object change, and only while it is not recorded.           *)
LEMMA RowsRefine ==
  ASSUME IInv, [Next]_vars, UNCHANGED <<bucket, registryFile>>
  PROVE  UNCHANGED Index!ovars \/ \E o \in Objects : Index!OWrite(o)
<1> USE DEF IInv, FlushInv
<1>0. RowView \in [RawMessages -> Editions \cup {Torn}]
      /\ RowView' \in [RawMessages -> Editions \cup {Torn}]
  <2>1. TypeOK'
    BY StepTyped
  <2>2. \A m \in RawMessages : messages[m] \in Editions /\ messages'[m] \in Editions
    BY <2>1 DEF TypeOK, Messages
  <2> QED
    BY <2>2 DEF RowView
<1>1. UNCHANGED RecordedView
  BY DEF RecordedView
<1>2. CASE \A m \in RawMessages : RowView'[m] = RowView[m]
  <2>1. RowView' = RowView
    BY <1>0, <1>2
  <2> QED
    BY <1>1, <2>1 DEF Index!ovars
<1>3. ASSUME NEW m \in RawMessages, RowView'[m] # RowView[m]
      PROVE  \E o \in Objects : Index!OWrite(o)
  <2>1. HasBody
    BY <1>3, RawRowsMove, RowViewFrame
  <2>2. job.object \in Objects /\ registryFile[job.object].status = "processing"
    BY <2>1 DEF ProcessingSaved, JobOK, HasJob, HasBody
  <2>3. RecordedView[job.object] = Index!Unrecorded
    BY <2>2 DEF RecordedView, Index!Unrecorded
  <2>4. ASSUME NEW x \in RawMessages, Owner[x] # job.object
        PROVE  RowView'[x] = RowView[x]
    BY <2>4, RawRowsMove, RowViewFrame
  <2>5. Index!OWrite(job.object)
    BY <1>0, <1>1, <2>3, <2>4 DEF Index!OWrite, Index!Editions, Index!Torn, Editions, Torn
  <2> QED
    BY <2>2, <2>5
<1> QED
  BY <1>2, <1>3

(* The file is saved without recording anything: some entries are dropped. *)
LEMMA ForgetRefines ==
  ASSUME TypeOK, UNCHANGED <<bucket, messages, chunks>>,
         \A o \in Objects : registryFile'[o].status = "indexed" => registryFile'[o] = registryFile[o]
  PROVE  \E S \in SUBSET Objects : Index!OForget(S)
<1> DEFINE S == {o \in Objects : registryFile'[o].status # "indexed"}
<1>1. RowView' = RowView
  BY DEF RowView, Whole
<1>2. RecordedView' = [o \in Objects |-> IF o \in S THEN Index!Unrecorded ELSE RecordedView[o]]
  BY DEF RecordedView, Index!Unrecorded
<1>3. Index!OForget(S)
  BY <1>1, <1>2 DEF Index!OForget
<1> QED
  BY <1>3

(* The object is recorded at its listed version, with the rows of the      *)
(* fetched one; nothing else that readers see changes with it.             *)
LEMMA RecordRefines ==
  ASSUME IInv, FinishProcess, registryFile' = registry'
  PROVE  Index!ORecord(job.object) /\ job.object \in Objects
<1> USE DEF IInv, FlushInv
<1>1. /\ pc[Scanner] = "index" /\ todo = NoUnits /\ UNCHANGED <<bucket, messages, chunks>>
      /\ registryFile' = Marked("indexed")
  BY DEF FinishProcess, SetStatus, store
<1>2. HasBody /\ HasJob
  BY <1>1 DEF HasBody, HasJob
<1>3. /\ job.object \in Objects /\ job.listed \in 1..bucket[job.object]
      /\ job.fetched \in job.listed..bucket[job.object] /\ bucket[job.object] \in 0..MaxVersion
  BY <1>2 DEF JobOK, TypeOK
<1>4. registryFile = registry /\ registryFile[job.object].status = "processing"
  BY <1>2 DEF RegistrySaved, ProcessingSaved
<1>5. RowView' = RowView
  BY <1>1 DEF RowView, Whole
<1>6. RecordedView[job.object] = Index!Unrecorded
  BY <1>3, <1>4 DEF RecordedView, Index!Unrecorded
<1>7. RecordedView' = [RecordedView EXCEPT ![job.object] = [version |-> job.listed, parser |-> parser]]
  <2>1. registryFile' = [registryFile EXCEPT ![job.object] =
            [status |-> "indexed", version |-> job.listed, parser |-> parser]]
    BY <1>1, <1>4 DEF Marked
  <2>2. ASSUME NEW o \in Objects
        PROVE  RecordedView'[o] = IF o = job.object THEN [version |-> job.listed, parser |-> parser]
                                  ELSE RecordedView[o]
    <3>1. registryFile'[o] = IF o = job.object
                             THEN [status |-> "indexed", version |-> job.listed, parser |-> parser]
                             ELSE registryFile[o]
      BY <2>1 DEF TypeOK
    <3> QED
      BY <3>1 DEF RecordedView
  <2>3. RecordedView' = [o \in Objects |-> RecordedView'[o]]
        /\ RecordedView = [o \in Objects |-> RecordedView[o]]
    BY DEF RecordedView
  <2> QED
    BY <1>3, <2>2, <2>3
<1>8. Index!Stored(parser, job.object, job.fetched)
  <2>1. StoredAs(parser, job.object, job.fetched)
    BY <1>1, NothingPending
  <2>2. ASSUME NEW m \in RawMessages, Current(m) # 0 PROVE RowView[m] = Current(m)
    <3>1. Whole(m, Current(m)) /\ Current(m) \in Editions
      BY <1>2, <2>1, <2>2, CurrentUnit DEF StoredAs, Current, Unit
    <3> QED
      BY <2>2, <3>1, RowViewOf
  <2> QED
    BY <2>2 DEF Index!Stored, Current, Unit
<1>9. parser \in Index!Parsers
  BY DEF TypeOK, Parsers, Index!Parsers
<1> QED
  BY <1>1, <1>3, <1>5, <1>6, <1>7, <1>8, <1>9 DEF Index!ORecord

(* Every step is a step of ObjectIndex or one that it does not see.        *)
LEMMA RefinesStep ==
  ASSUME IInv, [Next]_vars
  PROVE  [Index!ONext]_(Index!ovars)
<1> USE DEF IInv, FlushInv
<1>1. CASE \E o \in Objects : Upload(o)
  <2>1. PICK o \in Objects : Upload(o)
    BY <1>1
  <2>2. UNCHANGED <<RowView, RecordedView>>
    BY <2>1 DEF Upload, store, files, RowView, RecordedView, Whole
  <2>3. Index!OUpload(o)
    BY <2>1, <2>2 DEF Upload, Index!OUpload
  <2> QED
    BY <2>3 DEF Index!ONext
<1>2. CASE UNCHANGED <<bucket, registryFile>>
  BY <1>2, RowsRefine DEF Index!ONext
<1>3. CASE BeginProcess \/ FinishProcess \/ RecordFailure
  <2>1. UNCHANGED <<bucket, messages, chunks>>
        /\ (UNCHANGED registryFile \/ registryFile' = registry')
    BY <1>3 DEF BeginProcess, FinishProcess, RecordFailure, SetStatus, store
  <2>2. CASE FinishProcess /\ registryFile' = registry'
    BY <2>2, RecordRefines DEF Index!ONext
  <2>3. CASE ~FinishProcess
    <3>1. \A o \in Objects : registryFile'[o].status = "indexed" => registryFile'[o] = registryFile[o]
      BY <2>3, RecordedStep
    <3> QED
      BY <2>1, <3>1, ForgetRefines DEF Index!ONext
  <2> QED
    BY <1>2, <2>1, <2>2, <2>3
<1>4. UNCHANGED bucket \/ \E o \in Objects : Upload(o)
  BY DEF Next, vars, store, files, CoolDown, Scan, List, EndScan, Skip, Take,
         BeginProcess, Fetch, NextBatch, FinishProcess, RecordFailure, NextObject,
         ProcessFails, Receive, Flush, Lock, UpsertChunks, UpsertMessages,
         MarkAndSave, Restart
<1> QED
  BY <1>1, <1>2, <1>3, <1>4, RegistryFrame

(***************************************************************************)
(* The scanner and the flush implement ObjectIndex: however often they     *)
(* fail, crash and retry, and however registry saves are lost and carried  *)
(* over to the next, a version is recorded only with its rows in place,    *)
(* and rows change only while their object is not recorded.                *)
(***************************************************************************)
THEOREM IngestImplementsIndex ==
  ASSUME EditionsAdvance, IdsDisjoint
  PROVE  Spec => ImplementsObjectIndex
<1>1. IInv /\ [Next]_vars => IInv'
  BY StepSafe
<1>2. IInv /\ [Next]_vars => [Index!ONext]_(Index!ovars)
  BY RefinesStep
<1> QED
  BY InitSafe, RefinesInit, <1>1, <1>2, PTL DEF Spec, ImplementsObjectIndex, Index!OSpec
=============================================================================
