---------------------------- MODULE TelegramExport ----------------------------
(***************************************************************************)
(* How chat messages reach the raw bucket: tireless-telegram appends them  *)
(* to a file per month and keeps a cursor, tireless-upload puts files that *)
(* have grown, the daemon parses what it finds there.  Both programs are   *)
(* run by timers; either may die anywhere, and the disk may be full.       *)
(*                                                                         *)
(* One chat; a message is its id.  A file is the messages of its lines, 0  *)
(* for a line that is no JSON, and a tail: what follows the last newline.  *)
(***************************************************************************)
EXTENDS Integers, Sequences, SequencesExt

CONSTANTS
  LastMessage, MonthCount,
  MonthOf,     \* [1..LastMessage -> Months]: UTC month of the date
  Wanted,      \* messages of the types exported; the rest are passed over
  MaxMishaps   \* bound on what is killed or fails

Messages == 1..LastMessage
Months   == 1..MonthCount     \* the order in which the upload walks the files
NoMonth  == 0

ASSUME ExportAssumption ==
  /\ LastMessage \in Nat /\ MonthCount \in Nat
  /\ MonthOf \in [Messages -> Months] /\ Wanted \subseteq Messages /\ MaxMishaps \in Nat

VARIABLES
  sent,     \* the messages of the chat so far
  file,     \* [Months -> [lines, tail]]: the export directory
  mark,     \* state.json: the cursor of the chat
  exporter, \* [pc, cursor, month, buffer]: a run of tireless-telegram
  bucket,   \* [Months -> [lines, tail]]: the objects
  walk,     \* the month that a run of tireless-upload is at, 0 without one
  lost,     \* messages whose line was dropped or glued since they were last read
  mishaps

exportVars == <<sent, file, mark, exporter, bucket, walk, lost, mishaps>>

NoFile == [lines |-> <<>>, tail |-> "none"]
NoRun  == [pc |-> "idle", cursor |-> 0, month |-> NoMonth, buffer |-> <<>>]

-----------------------------------------------------------------------------
(* The file that is open, and its buffer.                                  *)

(* n buffered lines reach f, the first behind what an earlier run has left *)
(* ("junk"), or completing its own beginning ("part").                     *)
Flushed(f, buffer, n) ==
  IF n = 0 THEN f
  ELSE [lines |-> f.lines \o (IF f.tail = "junk" THEN <<0>> \o SubSeq(buffer, 2, n)
                              ELSE SubSeq(buffer, 1, n)),
        tail |-> "none"]

(* And maybe a part of the next line: of the first, if the line is longer  *)
(* than the buffer.                                                        *)
Partly(f, buffer, n) ==
  {Flushed(f, buffer, n)} \cup
  (IF n = Len(buffer) THEN {}
   ELSE {[Flushed(f, buffer, n) EXCEPT !.tail = IF @ = "junk" THEN "junk" ELSE "part"]})

(* The line that was appended to junk is no JSON.                          *)
Glued(f, buffer, n) == IF n > 0 /\ f.tail = "junk" THEN {Head(buffer)} ELSE {}

(* What a process leaves behind is nobody's beginning any more.            *)
Left(f) == [f EXCEPT !.tail = IF @ = "part" THEN "junk" ELSE @]

OpenFile == file[exporter.month]
All     == Len(exporter.buffer)

(* The buffer grows beyond its size, or the file is closed.                *)
Flush ==
  /\ exporter.pc = "reading" /\ exporter.buffer # <<>>
  /\ \E n \in 0..All : \E f \in Partly(OpenFile, exporter.buffer, n) :
       /\ f # OpenFile
       /\ file' = [file EXCEPT ![exporter.month] = f]
       /\ lost' = lost \cup Glued(OpenFile, exporter.buffer, n)
       /\ exporter' = [exporter EXCEPT !.buffer = SubSeq(@, n + 1, All)]
  /\ UNCHANGED <<sent, mark, bucket, walk, mishaps>>

-----------------------------------------------------------------------------
(* export_chat.                                                            *)

Send ==
  /\ sent < LastMessage /\ sent' = sent + 1
  /\ UNCHANGED <<file, mark, exporter, bucket, walk, lost, mishaps>>

Begin ==
  /\ exporter.pc = "idle" /\ mark < sent
  /\ exporter' = [NoRun EXCEPT !.pc = "reading", !.cursor = mark]
  /\ lost' = lost \cap 1..mark
  /\ UNCHANGED <<sent, file, mark, bucket, walk, mishaps>>

(* The next message; the file of the month before is closed first.         *)
ReadMessage ==
  /\ exporter.pc = "reading" /\ exporter.cursor < sent
  /\ LET m == exporter.cursor + 1 IN
     \/ /\ m \notin Wanted
        /\ exporter' = [exporter EXCEPT !.cursor = m]
        /\ UNCHANGED <<file, lost>>
     \/ /\ m \in Wanted /\ MonthOf[m] = exporter.month
        /\ exporter' = [exporter EXCEPT !.cursor = m, !.buffer = Append(@, m)]
        /\ UNCHANGED <<file, lost>>
     \/ /\ m \in Wanted /\ exporter.month \notin {NoMonth, MonthOf[m]}
        /\ file' = [file EXCEPT ![exporter.month] = Flushed(@, exporter.buffer, All)]
        /\ lost' = lost \cup Glued(OpenFile, exporter.buffer, All)
        /\ exporter' = [exporter EXCEPT !.cursor = m, !.month = MonthOf[m], !.buffer = <<m>>]
     \/ /\ m \in Wanted /\ exporter.month = NoMonth
        /\ exporter' = [exporter EXCEPT !.cursor = m, !.month = MonthOf[m], !.buffer = <<m>>]
        /\ UNCHANGED <<file, lost>>
  /\ UNCHANGED <<sent, mark, bucket, walk, mishaps>>

(* Mutant: the file is left to be closed when the process ends.            *)
CloseUnflushed ==
  /\ exporter.pc = "reading" /\ (exporter.cursor = sent \/ mishaps < MaxMishaps)
  /\ mishaps' = mishaps + (IF exporter.cursor = sent THEN 0 ELSE 1)
  /\ exporter' = [exporter EXCEPT !.pc = "saving"]
  /\ UNCHANGED <<sent, file, mark, bucket, walk, lost>>

(* There is no more, or Telegram refuses to go on (FloodWaitError).        *)
Close ==
  /\ exporter.pc = "reading" /\ (exporter.cursor = sent \/ mishaps < MaxMishaps)
  /\ mishaps' = mishaps + (IF exporter.cursor = sent THEN 0 ELSE 1)
  /\ exporter' = [exporter EXCEPT !.pc = "saving", !.month = NoMonth, !.buffer = <<>>]
  /\ \/ exporter.month = NoMonth /\ UNCHANGED <<file, lost>>
     \/ /\ exporter.month # NoMonth
        /\ file' = [file EXCEPT ![exporter.month] = Flushed(@, exporter.buffer, All)]
        /\ lost' = lost \cup Glued(OpenFile, exporter.buffer, All)
  /\ UNCHANGED <<sent, mark, bucket, walk>>

(* The disk is full: a part of the buffer is written, the rest is gone.    *)
Overflow(n, f) ==
  /\ exporter.pc = "reading" /\ exporter.buffer # <<>> /\ n < All
  /\ f \in Partly(OpenFile, exporter.buffer, n)
  /\ mishaps < MaxMishaps /\ mishaps' = mishaps + 1
  /\ file' = [file EXCEPT ![exporter.month] = Left(f)]
  /\ UNCHANGED <<sent, bucket, walk>>

(* In the last close: the cursor is not saved.                             *)
CloseFails(n, f) ==
  /\ Overflow(n, f)
  /\ lost' = lost \cup Glued(OpenFile, exporter.buffer, n)
  /\ exporter' = NoRun
  /\ UNCHANGED mark

(* In the close before a new month: the file counts as closed, so that the *)
(* last close succeeds and the cursor is saved behind the lines that are   *)
(* gone.                                                                   *)
Dropped(n, f) ==
  /\ Overflow(n, f)
  /\ exporter.cursor < sent /\ exporter.cursor + 1 \in Wanted
  /\ MonthOf[exporter.cursor + 1] # exporter.month
  /\ lost' = lost \cup Glued(OpenFile, exporter.buffer, n)
                  \cup ToSet(SubSeq(exporter.buffer, n + 1, All))
  /\ exporter' = [NoRun EXCEPT !.pc = "saving", !.cursor = exporter.cursor]
  /\ UNCHANGED mark

(* save_state replaces the file.                                           *)
SaveState ==
  /\ exporter.pc = "saving"
  /\ mark' = exporter.cursor /\ exporter' = NoRun
  /\ UNCHANGED <<sent, file, bucket, walk, lost, mishaps>>

(* Killed, or save_state fails.                                            *)
Kill ==
  /\ exporter.pc # "idle" /\ mishaps < MaxMishaps /\ mishaps' = mishaps + 1
  /\ file' = [m \in Months |-> Left(file[m])]
  /\ exporter' = NoRun
  /\ UNCHANGED <<sent, mark, bucket, walk, lost>>

-----------------------------------------------------------------------------
(* syncTree.                                                               *)

(* Mutant: an object is compared with what it has by its presence.         *)
SameExists(f, o) == o # NoFile

(* Sizes are compared: files only grow, so the same size is the same file. *)
SameSize(f, o) == Len(f.lines) = Len(o.lines) /\ (f.tail = "none" <=> o.tail = "none")

StartUpload ==
  /\ walk = 0 /\ walk' = 1
  /\ UNCHANGED <<sent, file, mark, exporter, bucket, lost, mishaps>>

(* A file that grows while it is sent is refused (ContentLength), and ends *)
(* the run as any other failure does, be it after the object was stored.   *)
Put ==
  /\ walk \in Months
  /\ \/ /\ SameSize(file[walk], bucket[walk]) /\ UNCHANGED <<bucket, mishaps>>
        /\ walk' = IF walk + 1 \in Months THEN walk + 1 ELSE 0
     \/ /\ ~SameSize(file[walk], bucket[walk])
        /\ bucket' = [bucket EXCEPT ![walk] = file[walk]] /\ UNCHANGED mishaps
        /\ walk' = IF walk + 1 \in Months THEN walk + 1 ELSE 0
     \/ /\ ~SameSize(file[walk], bucket[walk])
        /\ mishaps < MaxMishaps /\ mishaps' = mishaps + 1 /\ walk' = 0
        /\ \/ bucket' = [bucket EXCEPT ![walk] = file[walk]]
           \/ UNCHANGED bucket
  /\ UNCHANGED <<sent, file, mark, exporter, lost>>

-----------------------------------------------------------------------------
ExportInit ==
  /\ sent = 0 /\ mark = 0 /\ exporter = NoRun /\ walk = 0
  /\ file = [m \in Months |-> NoFile] /\ bucket = file
  /\ lost = {} /\ mishaps = 0

Fails  == \E n \in 0..LastMessage : n < All /\
            \E f \in Partly(OpenFile, exporter.buffer, n) : CloseFails(n, f) \/ Dropped(n, f)
Export == Begin \/ ReadMessage \/ Close \/ SaveState
Upload == StartUpload \/ Put

ExportNext == Send \/ Export \/ Flush \/ Fails \/ Kill \/ Upload

ExportSpec == ExportInit /\ [][ExportNext]_exportVars

(* Timers start both programs again and again.                             *)
ExportFairSpec == ExportSpec /\ WF_exportVars(Export) /\ WF_exportVars(Upload)

-----------------------------------------------------------------------------
ExportTypeOK ==
  /\ sent \in 0..LastMessage /\ mark \in 0..sent /\ walk \in 0..MonthCount
  /\ \A f \in {file[m] : m \in Months} \cup {bucket[m] : m \in Months} :
       f.lines \in Seq(0..LastMessage) /\ f.tail \in {"none", "part", "junk"}
  /\ exporter.pc \in {"idle", "reading", "saving"} /\ exporter.cursor \in 0..sent
  /\ exporter.month \in Months \cup {NoMonth} /\ exporter.buffer \in Seq(Wanted)
  /\ lost \subseteq Wanted /\ mishaps \in 0..MaxMishaps

Written(f, m) == m \in ToSet(f[MonthOf[m]].lines)

(***************************************************************************)
(* The cursor passes a message only if a line of its own in the file of    *)
(* its month holds it, whatever was killed, refused or torn and appended   *)
(* to, but for two cases that the code has: lines that do not reach a full *)
(* disk when a month ends, and a line that is appended to a torn one.      *)
(***************************************************************************)
PassedIsWritten == \A m \in Wanted : m <= mark => Written(file, m) \/ m \in lost

(***************************************************************************)
(* "exports every dialog" (README.md): once killing and failing ends,      *)
(* every message is in the archive that the daemon parses, also one whose  *)
(* file was put half-written before; but for the same two cases.           *)
(***************************************************************************)
EveryMessageArchived ==
  \A m \in Wanted : <>[](sent < m \/ Written(bucket, m) \/ m \in lost)
=============================================================================
