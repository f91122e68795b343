--------------------------- MODULE MaintenanceProofs ---------------------------
(***************************************************************************)
(* For any hosts and objects: if deletions are run while the daemon is     *)
(* down, those that ended leave no ghosts, and none touches another host   *)
(* (HostDeletion).  For any v4 store, batch size and number of crashes:    *)
(* what a saved checkpoint skips has been copied and marked, and what is   *)
(* complete has no colliding ids and is an exact copy (Migration).         *)
(***************************************************************************)
EXTENDS HostDeletion, Migration, FiniteSetTheorems, WellFoundedInduction, TLAPS

(* Daemon and tool are never both alive, and what they hold is what they     *)
(* loaded or more.                                                           *)
Apart ==
  /\ tool.pc # "none" => daemon = "down" /\ tool.host \in unfinished
  /\ daemon = "down" => seen = {} /\ \A o \in Objects : entries[o] = "none"
  /\ daemon # "up" => \A i \in Items : step[i] = "idle"
  /\ daemon = "loaded" => \A o \in Objects : entries[o] = "none"

Held ==
  /\ tool.pc \in {"rows", "marks"} => tool.seen = marksFile
  /\ tool.pc = "entries" => tool.entries = entriesFile
  /\ tool.pc \in {"load", "entries"} => \A i \in marksFile : HostOf(i) # tool.host
  /\ daemon # "down" => marksFile \subseteq seen
  /\ daemon = "up" => \A o \in Objects : entriesFile[o] = "indexed" => entries[o] = "indexed"

(* What has been written of an item at a step of the daemon.                 *)
Written(i) ==
  /\ step[i] = "messages" => i \in rows["chunks"]
  /\ step[i] \in {"mark", "record"} => HasRows(i)

Safe == \A i \in Items : HostOf(i) \notin unfinished => Written(i)

IInv == DeletionTypeOK /\ Apart /\ Held /\ NoGhosts /\ Safe

Alone == Beside = FALSE

-----------------------------------------------------------------------------
Tool == [pc : {"none", "rows", "marks", "load", "entries"}, host : Hosts,
         seen : SUBSET Items, left : SUBSET BothTables, entries : [Objects -> Entry]]

LEMMA NoToolTyped == NoTool \in Tool /\ NoTool.pc = "none"
<1>1. (CHOOSE h \in Hosts : TRUE) \in Hosts
  BY DeletionAssumption DEF DeletionAssumption
<1>2. QED
  BY <1>1 DEF NoTool, Tool, Entry

LEMMA ToolTyped ==
  ASSUME tool \in Tool, ToolStep \/ Die, entriesFile \in [Objects -> Entry]
  PROVE  tool' \in Tool
<1>1. ASSUME NEW t \in BothTables, DeleteRows(t) PROVE tool' \in Tool
  BY <1>1 DEF DeleteRows, Tool
<1>2. CASE DeleteMarks
  BY <1>2 DEF DeleteMarks, Tool
<1>3. CASE LoadEntries
  BY <1>3 DEF LoadEntries, Tool
<1>4. CASE DeleteEntries \/ Die
  BY <1>4, NoToolTyped DEF DeleteEntries, Die
<1>5. QED
  BY <1>1, <1>2, <1>3, <1>4 DEF ToolStep

LEMMA DeletionTyped == ASSUME DeletionTypeOK, [DeletionNext]_deletionVars PROVE DeletionTypeOK'
<1> USE DeletionAssumption DEF DeletionAssumption, Items, BothTables, Entry, Steps
<1>1. CASE Boot \/ OpenRegistry \/ Stop
  BY <1>1 DEF DeletionTypeOK, Boot, OpenRegistry, Stop, files, ops, mem, NoItems
<1>2. ASSUME NEW o \in Objects, Scan(o) PROVE DeletionTypeOK'
  BY <1>2 DEF DeletionTypeOK, Scan, Begin, Write, WriteChunks, WriteMessage, MarkStored, Record, AddRow, Goto,
     AfterSeen, files, ops, mem
<1>3. ASSUME NEW p \in Posts, Post(p) \/ Write(p) PROVE DeletionTypeOK'
  BY <1>3 DEF DeletionTypeOK, Post, Write, WriteChunks, WriteMessage, MarkStored, AddRow, Goto, files, ops, mem
<1>4. ASSUME NEW i \in Items, Fail(i) PROVE DeletionTypeOK'
  BY <1>4 DEF DeletionTypeOK, Fail, Goto, files, ops, mem
<1>5. ASSUME NEW h \in Hosts, Delete(h) PROVE DeletionTypeOK'
  <2>1. tool' \in Tool
    BY <1>5, NoToolTyped DEF Delete, Tool, DeletionTypeOK
  <2>2. QED
    BY <1>5, <2>1 DEF DeletionTypeOK, Delete, files, mem, Tool
<1>6. CASE ToolStep \/ Die
  <2>1. tool' \in Tool
    BY <1>6, ToolTyped DEF DeletionTypeOK, Tool
  <2>2. CASE DeleteEntries
    <3>1. entriesFile' \in [Objects -> Entry]
      BY <2>2 DEF DeleteEntries, DeletionTypeOK
    <3>2. QED
      BY <2>1, <2>2, <3>1 DEF DeletionTypeOK, DeleteEntries, Tool, mem
  <2>3. ASSUME NEW t \in BothTables, DeleteRows(t) PROVE DeletionTypeOK'
    BY <2>1, <2>3 DEF DeletionTypeOK, DeleteRows, Tool, mem
  <2>4. CASE DeleteMarks \/ LoadEntries \/ Die
    BY <2>1, <2>4 DEF DeletionTypeOK, DeleteMarks, LoadEntries, Die, Tool, OfHost, files, mem
  <2>5. QED
    BY <1>6, <2>2, <2>3, <2>4 DEF ToolStep
<1>7. CASE UNCHANGED deletionVars
  BY <1>7 DEF DeletionTypeOK, deletionVars, files, mem, ops
<1>8. QED
  BY <1>1, <1>2, <1>3, <1>4, <1>5, <1>6, <1>7 DEF DeletionNext

(* One lemma per action.                                                    *)
LEMMA BootInv == ASSUME Alone, IInv, Boot PROVE (Apart /\ Held /\ NoGhosts /\ Safe)'
<1> USE DEF IInv, DeletionTypeOK, Items, BothTables, Alone, files, mem, ops, Boot
<1>1. Apart'
  BY DEF Apart
<1>2. Held'
  BY DEF Held, Apart
<1>3. NoGhosts'
  BY DEF NoGhosts, HasRows, Held, Apart, Safe, Written
<1>4. Safe'
  BY DEF Safe, Written, HasRows, NoGhosts, Apart
<1>5. QED
  BY <1>1, <1>2, <1>3, <1>4

LEMMA OpenInv == ASSUME Alone, IInv, OpenRegistry PROVE (Apart /\ Held /\ NoGhosts /\ Safe)'
<1> USE DEF IInv, DeletionTypeOK, Items, BothTables, Alone, files, mem, ops, OpenRegistry
<1>1. Apart'
  BY DEF Apart
<1>2. Held'
  BY DEF Held, Apart
<1>3. NoGhosts'
  BY DEF NoGhosts, HasRows, Held, Apart, Safe, Written
<1>4. Safe'
  BY DEF Safe, Written, HasRows, NoGhosts, Apart
<1>5. QED
  BY <1>1, <1>2, <1>3, <1>4

LEMMA StopInv == ASSUME Alone, IInv, Stop PROVE (Apart /\ Held /\ NoGhosts /\ Safe)'
<1> USE DEF IInv, DeletionTypeOK, Items, BothTables, Alone, files, mem, ops, Stop, NoItems
<1>1. Apart'
  BY DEF Apart
<1>2. Held'
  BY DEF Held, Apart
<1>3. NoGhosts'
  BY DEF NoGhosts, HasRows, Held, Apart, Safe, Written
<1>4. Safe'
  BY DEF Safe, Written, HasRows, NoGhosts, Apart
<1>5. QED
  BY <1>1, <1>2, <1>3, <1>4

LEMMA BeginInv == ASSUME Alone, IInv, NEW o \in Objects, Begin(o) PROVE (Apart /\ Held /\ NoGhosts /\ Safe)'
<1> USE DEF IInv, DeletionTypeOK, Items, BothTables, Alone, files, mem, ops, Begin, Goto, AfterSeen
<1>1. Apart'
  BY DEF Apart
<1>2. Held'
  BY DEF Held, Apart
<1>3. NoGhosts'
  BY DEF NoGhosts, HasRows, Held, Apart, Safe, Written
<1>4. Safe'
  BY DEF Safe, Written, HasRows, NoGhosts, Apart
<1>5. QED
  BY <1>1, <1>2, <1>3, <1>4

LEMMA PostInv == ASSUME Alone, IInv, NEW p \in Posts, Post(p) PROVE (Apart /\ Held /\ NoGhosts /\ Safe)'
<1> USE DEF IInv, DeletionTypeOK, Items, BothTables, Alone, files, mem, ops, Post, Goto
<1>1. Apart'
  BY DEF Apart
<1>2. Held'
  BY DEF Held, Apart
<1>3. NoGhosts'
  BY DEF NoGhosts, HasRows, Held, Apart, Safe, Written
<1>4. Safe'
  BY DEF Safe, Written, HasRows, NoGhosts, Apart
<1>5. QED
  BY <1>1, <1>2, <1>3, <1>4

LEMMA WriteChunksInv == ASSUME Alone, IInv, NEW i \in Items, WriteChunks(i) PROVE (Apart /\ Held /\ NoGhosts /\ Safe)'
<1> USE DEF IInv, DeletionTypeOK, Items, BothTables, Alone, files, mem, ops, WriteChunks, Goto, AddRow
<1>1. Apart'
  BY DEF Apart
<1>2. Held'
  BY DEF Held, Apart
<1>3. NoGhosts'
  BY DEF NoGhosts, HasRows, Held, Apart, Safe, Written
<1>4. Safe'
  BY DEF Safe, Written, HasRows, NoGhosts, Apart
<1>5. QED
  BY <1>1, <1>2, <1>3, <1>4

LEMMA WriteMessageInv == ASSUME Alone, IInv, NEW i \in Items, WriteMessage(i) PROVE (Apart /\ Held /\ NoGhosts /\ Safe)'
<1> USE DEF IInv, DeletionTypeOK, Items, BothTables, Alone, files, mem, ops, WriteMessage, Goto, AddRow
<1>1. Apart'
  BY DEF Apart
<1>2. Held'
  BY DEF Held, Apart
<1>3. NoGhosts'
  BY DEF NoGhosts, HasRows, Held, Apart, Safe, Written
<1>4. Safe'
  BY DEF Safe, Written, HasRows, NoGhosts, Apart
<1>5. QED
  BY <1>1, <1>2, <1>3, <1>4

LEMMA MarkInv == ASSUME Alone, IInv, NEW i \in Items, MarkStored(i) PROVE (Apart /\ Held /\ NoGhosts /\ Safe)'
<1> USE DEF IInv, DeletionTypeOK, Items, BothTables, Alone, files, mem, ops, MarkStored, Goto
<1>1. Apart'
  BY DEF Apart
<1>2. Held'
  BY DEF Held, Apart
<1>3. NoGhosts'
  BY DEF NoGhosts, HasRows, Held, Apart, Safe, Written
<1>4. Safe'
  BY DEF Safe, Written, HasRows, NoGhosts, Apart
<1>5. QED
  BY <1>1, <1>2, <1>3, <1>4

LEMMA RecordInv == ASSUME Alone, IInv, NEW o \in Objects, Record(o) PROVE (Apart /\ Held /\ NoGhosts /\ Safe)'
<1> USE DEF IInv, DeletionTypeOK, Items, BothTables, Alone, files, mem, ops, Record, Goto
<1>1. Apart'
  BY DEF Apart
<1>2. Held'
  BY DEF Held, Apart
<1>3. NoGhosts'
  BY DEF NoGhosts, HasRows, Held, Apart, Safe, Written
<1>4. Safe'
  BY DEF Safe, Written, HasRows, NoGhosts, Apart
<1>5. QED
  BY <1>1, <1>2, <1>3, <1>4

LEMMA FailInv == ASSUME Alone, IInv, NEW i \in Items, Fail(i) PROVE (Apart /\ Held /\ NoGhosts /\ Safe)'
<1> USE DEF IInv, DeletionTypeOK, Items, BothTables, Alone, files, mem, ops, Fail, Goto
<1>1. Apart'
  BY DEF Apart
<1>2. Held'
  BY DEF Held, Apart
<1>3. NoGhosts'
  BY DEF NoGhosts, HasRows, Held, Apart, Safe, Written
<1>4. Safe'
  BY DEF Safe, Written, HasRows, NoGhosts, Apart
<1>5. QED
  BY <1>1, <1>2, <1>3, <1>4

LEMMA DeleteInv == ASSUME Alone, IInv, NEW h \in Hosts, Delete(h) PROVE (Apart /\ Held /\ NoGhosts /\ Safe)'
<1> USE DEF IInv, DeletionTypeOK, Items, BothTables, Alone, files, mem, ops, Delete, NoTool
<1>1. Apart'
  BY DEF Apart
<1>2. Held'
  BY DEF Held, Apart
<1>3. NoGhosts'
  BY DEF NoGhosts, HasRows, Held, Apart, Safe, Written
<1>4. Safe'
  BY DEF Safe, Written, HasRows, NoGhosts, Apart
<1>5. QED
  BY <1>1, <1>2, <1>3, <1>4

LEMMA DeleteRowsInv == ASSUME Alone, IInv, NEW t \in BothTables, DeleteRows(t) PROVE (Apart /\ Held /\ NoGhosts /\ Safe)'
<1> USE DEF IInv, DeletionTypeOK, Items, BothTables, Alone, files, mem, ops, DeleteRows
<1>1. Apart'
  BY DEF Apart
<1>2. Held'
  BY DEF Held, Apart
<1>3. NoGhosts'
  BY DEF NoGhosts, HasRows, Held, Apart, Safe, Written
<1>4. Safe'
  BY DEF Safe, Written, HasRows, NoGhosts, Apart
<1>5. QED
  BY <1>1, <1>2, <1>3, <1>4

LEMMA DeleteMarksInv == ASSUME Alone, IInv, DeleteMarks PROVE (Apart /\ Held /\ NoGhosts /\ Safe)'
<1> USE DEF IInv, DeletionTypeOK, Items, BothTables, Alone, files, mem, ops, DeleteMarks, OfHost
<1>1. Apart'
  BY DEF Apart
<1>2. Held'
  BY DEF Held, Apart
<1>3. NoGhosts'
  BY DEF NoGhosts, HasRows, Held, Apart, Safe, Written
<1>4. Safe'
  BY DEF Safe, Written, HasRows, NoGhosts, Apart
<1>5. QED
  BY <1>1, <1>2, <1>3, <1>4

LEMMA LoadEntriesInv == ASSUME Alone, IInv, LoadEntries PROVE (Apart /\ Held /\ NoGhosts /\ Safe)'
<1> USE DEF IInv, DeletionTypeOK, Items, BothTables, Alone, files, mem, ops, LoadEntries
<1>1. Apart'
  BY DEF Apart
<1>2. Held'
  BY DEF Held, Apart
<1>3. NoGhosts'
  BY DEF NoGhosts, HasRows, Held, Apart, Safe, Written
<1>4. Safe'
  BY DEF Safe, Written, HasRows, NoGhosts, Apart
<1>5. QED
  BY <1>1, <1>2, <1>3, <1>4

LEMMA DeleteEntriesInv == ASSUME Alone, IInv, DeleteEntries PROVE (Apart /\ Held /\ NoGhosts /\ Safe)'
<1> USE DEF IInv, DeletionTypeOK, Items, BothTables, Alone, files, mem, ops, DeleteEntries, OfHost, NoTool
<1>1. Apart'
  BY DEF Apart
<1>2. Held'
  BY DEF Held, Apart
<1>3. NoGhosts'
  BY DEF NoGhosts, HasRows, Held, Apart, Safe, Written
<1>4. Safe'
  BY DEF Safe, Written, HasRows, NoGhosts, Apart
<1>5. QED
  BY <1>1, <1>2, <1>3, <1>4

LEMMA DieInv == ASSUME Alone, IInv, Die PROVE (Apart /\ Held /\ NoGhosts /\ Safe)'
<1> USE DEF IInv, DeletionTypeOK, Items, BothTables, Alone, files, mem, ops, Die, NoTool
<1>1. Apart'
  BY DEF Apart
<1>2. Held'
  BY DEF Held, Apart
<1>3. NoGhosts'
  BY DEF NoGhosts, HasRows, Held, Apart, Safe, Written
<1>4. Safe'
  BY DEF Safe, Written, HasRows, NoGhosts, Apart
<1>5. QED
  BY <1>1, <1>2, <1>3, <1>4

-----------------------------------------------------------------------------
LEMMA InitInv == ASSUME DeletionInit PROVE IInv
<1>1. DeletionTypeOK
  BY NoToolTyped, DeletionAssumption
     DEF DeletionInit, DeletionTypeOK, DeletionAssumption, Tool, BothTables, Entry, Steps, NoItems
<1>2. tool.pc = "none"
  BY NoToolTyped DEF DeletionInit
<1>3. Apart /\ Held
  BY <1>2 DEF DeletionInit, Apart, Held, NoItems
<1>4. NoGhosts /\ Safe
  BY DEF DeletionInit, NoGhosts, Safe, Written, NoItems, Items
<1>5. QED
  BY <1>1, <1>3, <1>4 DEF IInv

LEMMA StepInv == ASSUME Alone, IInv, [DeletionNext]_deletionVars PROVE IInv'
<1>1. DeletionTypeOK'
  BY DeletionTyped DEF IInv
<1>2. CASE Boot \/ OpenRegistry \/ Stop
  BY <1>1, <1>2, BootInv, OpenInv, StopInv DEF IInv
<1>3. ASSUME NEW o \in Objects, Scan(o) PROVE IInv'
  <2>1. o \in Items
    BY DEF Items
  <2>2. QED
    BY <1>1, <1>3, <2>1, BeginInv, WriteChunksInv, WriteMessageInv, MarkInv, RecordInv
       DEF IInv, Scan, Write
<1>4. ASSUME NEW p \in Posts, Post(p) \/ Write(p) PROVE IInv'
  <2>1. p \in Items
    BY DEF Items
  <2>2. QED
    BY <1>1, <1>4, <2>1, PostInv, WriteChunksInv, WriteMessageInv, MarkInv DEF IInv, Write
<1>5. ASSUME NEW i \in Items, Fail(i) PROVE IInv'
  BY <1>1, <1>5, FailInv DEF IInv
<1>6. ASSUME NEW h \in Hosts, Delete(h) PROVE IInv'
  BY <1>1, <1>6, DeleteInv DEF IInv
<1>7. CASE ToolStep \/ Die
  BY <1>1, <1>7, DeleteRowsInv, DeleteMarksInv, LoadEntriesInv, DeleteEntriesInv, DieInv
     DEF IInv, ToolStep
<1>8. CASE UNCHANGED deletionVars
  BY <1>1, <1>8 DEF IInv, Apart, Held, NoGhosts, Safe, Written, HasRows, deletionVars, files, mem, ops
<1>9. QED
  BY <1>2, <1>3, <1>4, <1>5, <1>6, <1>7, <1>8 DEF DeletionNext

(* What deletions beside no daemon rest on: no mark without its rows.       *)
THEOREM SpecInv == ASSUME Alone PROVE DeletionSpec => []IInv
<1>1. IInv /\ [DeletionNext]_deletionVars => IInv'
  BY StepInv
<1>2. QED
  BY <1>1, InitInv, PTL DEF DeletionSpec

(* For any hosts, objects, records, deaths and restarts: deletions that     *)
(* ended, run while the daemon is down, leave no ghosts.                    *)
THEOREM SpecNoGhosts == ASSUME Alone PROVE DeletionSpec => []NoGhosts
<1>1. IInv => NoGhosts
  BY DEF IInv
<1>2. QED
  BY <1>1, SpecInv, PTL

(* The daemon saves at least what its files hold, and a deletion takes only *)
(* what its host owns.                                                      *)
LEMMA StepOthers ==
  ASSUME Alone, IInv, [DeletionNext]_deletionVars, NEW i \in Items, tool.pc = "none" \/ HostOf(i) # tool.host
  PROVE  /\ \A t \in BothTables : i \in rows[t] => i \in rows'[t]
         /\ i \in marksFile => i \in marksFile'
         /\ i \in Objects /\ entriesFile[i] = "indexed" => entriesFile'[i] = "indexed"
<1> USE DEF IInv, DeletionTypeOK, files, mem, ops
<1>1. CASE Boot \/ OpenRegistry \/ Stop
  BY <1>1 DEF Boot, OpenRegistry, Stop
<1>2. ASSUME NEW j \in Items, Write(j) PROVE
         /\ \A t \in BothTables : i \in rows[t] => i \in rows'[t]
         /\ i \in marksFile => i \in marksFile'
         /\ entriesFile' = entriesFile
  <2>1. CASE WriteChunks(j) \/ WriteMessage(j)
    BY <2>1 DEF WriteChunks, WriteMessage, AddRow
  <2>2. CASE MarkStored(j)
    BY <2>2 DEF MarkStored, Held, Apart
  <2>3. QED
    BY <1>2, <2>1, <2>2 DEF Write
<1>3. ASSUME NEW o \in Objects, Begin(o) \/ Record(o) PROVE
         /\ rows' = rows /\ marksFile' = marksFile
         /\ i \in Objects /\ entriesFile[i] = "indexed" => entriesFile'[i] = "indexed"
  <2>1. daemon = "up"
    BY <1>3 DEF Begin, Record, Apart, Items
  <2>2. CASE Begin(o)
    BY <2>1, <2>2 DEF Begin, Held
  <2>3. CASE Record(o)
    BY <2>1, <2>3 DEF Record, Held
  <2>4. QED
    BY <1>3, <2>2, <2>3
<1>4. ASSUME NEW p \in Posts, Post(p) PROVE UNCHANGED files
  BY <1>4 DEF Post
<1>5. ASSUME NEW j \in Items, Fail(j) PROVE UNCHANGED files
  BY <1>5 DEF Fail
<1>6. ASSUME NEW h \in Hosts, Delete(h) PROVE UNCHANGED files
  BY <1>6 DEF Delete
<1>7. ASSUME NEW t \in BothTables, DeleteRows(t) PROVE
         /\ \A u \in BothTables : i \in rows[u] => i \in rows'[u]
         /\ UNCHANGED <<marksFile, entriesFile>>
  BY <1>7 DEF DeleteRows
<1>8. CASE DeleteMarks \/ LoadEntries \/ Die
  BY <1>8 DEF DeleteMarks, LoadEntries, Die, Held, OfHost
<1>9. CASE DeleteEntries
  BY <1>9 DEF DeleteEntries, Held, OfHost
<1>10. CASE UNCHANGED deletionVars
  BY <1>10 DEF deletionVars
<1>11. QED
  BY <1>1, <1>2, <1>3, <1>4, <1>5, <1>6, <1>7, <1>8, <1>9, <1>10 DEF DeletionNext, Scan, ToolStep, Items

(* No step takes anything durable from a host that is not being deleted.    *)
THEOREM SpecOthersKept == ASSUME Alone PROVE DeletionSpec => OthersKept
<1>1. IInv /\ [DeletionNext]_deletionVars =>
      [\A i \in Items : tool.pc = "none" \/ HostOf(i) # tool.host =>
         /\ \A t \in BothTables : i \in rows[t] => i \in rows'[t]
         /\ i \in marksFile => i \in marksFile'
         /\ i \in Objects /\ entriesFile[i] = "indexed" => entriesFile'[i] = "indexed"]_deletionVars
  BY StepOthers
<1>2. QED
  BY <1>1, SpecInv, PTL DEF DeletionSpec, OthersKept

-----------------------------------------------------------------------------
(* Migration. *)

USE MigrationAssumption

(* A process agrees with the checkpoint file wherever the file says that    *)
(* rows were copied, and has its source pinned while it copies.             *)
Session ==
  pc # "stopped" =>
    /\ \A t \in Tables : /\ state.offsets[t] = file.offsets[t]
                         /\ file.versions[t] # 0 => state.versions[t] = file.versions[t]
    /\ pc # "open" => state.versions[table] # 0
    /\ pc # "open" \/ table = "chunks" =>
         /\ state.versions["messages"] # 0
         /\ shadowed = Twins(Snapshot(state, "messages"))
    /\ pc = "mark" => table = "messages"
    /\ pc \in {"upsert", "mark", "save"} => batch = NextRows

(* Chunks are left out for the messages that were pinned before them.       *)
MessagesFirst ==
  \A t \in Tables : file.offsets[t] > 0 => file.versions["messages"] # 0

(* The batch at hand is stored, then marked, then checkpointed.             *)
BatchDone ==
  /\ pc \in {"mark", "save"} =>
       \A i \in batch : Stored(state, table, Snapshot(state, table)[i])
  /\ pc = "save" /\ table = "messages" =>
       \A i \in batch : IsMarked(Snapshot(state, table)[i])

Typed     == TypeOK /\ Session /\ MessagesFirst
ResumeInv == Typed /\ BatchDone /\ Resumable

-----------------------------------------------------------------------------
(* A snapshot that exists is a sequence of rows.                            *)
LEMMA SnapshotRows ==
  ASSUME source \in Sources, NEW t \in Tables, NEW v \in DOMAIN source[t]
  PROVE  /\ source[t][v] \in Seq(Rows)
         /\ DOMAIN source[t][v] = 1..Len(source[t][v]) /\ Len(source[t][v]) \in Nat
         /\ \A i \in DOMAIN source[t][v] : source[t][v][i] \in Rows
<1>1. source[t] \in Seq(Seq(Rows))
  OBVIOUS
<1>2. source[t][v] \in Seq(Rows)
  BY <1>1
<1> QED
  BY <1>2

(* Versions count from 1, so 0 is none of them.                             *)
LEMMA VersionsPositive ==
  ASSUME source \in Sources, NEW t \in Tables
  PROVE  0 \notin DOMAIN source[t]
<1>1. source[t] \in Seq(Seq(Rows))
  OBVIOUS
<1> QED
  BY <1>1

(* A bounded set of numbers has a greatest one.                             *)
LEMMA GreatestOf ==
  ASSUME NEW n \in Nat, NEW S \in SUBSET (1..n), S # {}
  PROVE  \E j \in S : \A k \in S : k <= j
<1> DEFINE Below == {n - k : k \in S}
<1>1. Below \subseteq Nat /\ Below # {}
<2>1. \A k \in S : n - k \in Nat
  OBVIOUS
<2>2. PICK k \in S : TRUE
  OBVIOUS
<2>3. n - k \in Below
  OBVIOUS
<2> QED
  BY <2>1, <2>3
<1>2. PICK m \in Below : \A y \in Below : <<y, m>> \notin OpToRel(<, Nat)
  <2> HIDE DEF Below
  <2> QED
    BY <1>1, NatLessThanWellFounded, WFMin
<1>3. PICK j \in S : m = n - j
  OBVIOUS
<1>4. \A k \in S : ~ (n - k < n - j)
  BY <1>1, <1>2, <1>3 DEF OpToRel
<1> QED
  BY <1>4

(* The numbers of the next batch are rows of the snapshot.                  *)
LEMMA NextRowsKept ==
  NextRows \subseteq DOMAIN Snapshot(state, table)
  BY DEF NextRows, Kept

(* The program starts with nothing pinned and nothing copied.               *)
LEMMA InitTyped == Init => Typed
<1> SUFFICES ASSUME Init PROVE Typed
  OBVIOUS
<1>1. \A t \in Tables : 1 \in DOMAIN source[t]
  BY DEF Init
<1>2. NoState \in Checkpoints
  BY DEF NoState, Checkpoints
<1>3. \A t \in Tables : NoState.versions[t] = 0 /\ NoState.offsets[t] = 0
  BY DEF NoState
<1>4. TypeOK
  BY <1>1, <1>2, <1>3 DEF Init, TypeOK, Tables
<1>5. Session /\ MessagesFirst
  BY <1>3 DEF Init, Session, MessagesFirst, NoState
<1> QED
  BY <1>4, <1>5 DEF Typed

-----------------------------------------------------------------------------
(* Each action keeps the types and the agreement with the file.             *)
LEMMA StartTyped == Typed /\ Start => Typed'
<1> SUFFICES ASSUME Typed, Start PROVE Typed'
  OBVIOUS
<1>1. TypeOK'
  BY DEF Typed, TypeOK, Start, Tables, Snapshot
<1>2. Session' /\ MessagesFirst'
  BY DEF Typed, Session, MessagesFirst, Start, Snapshot, Tables
<1> QED
  BY <1>1, <1>2 DEF Typed

(* What Open writes: a version that is there, and never another one.        *)
LEMMA OpenPins ==
  ASSUME Typed, Open
  PROVE  /\ state' \in Checkpoints /\ state'.offsets = state.offsets
         /\ \A t \in Tables : t # table => state'.versions[t] = state.versions[t]
         /\ state.versions[table] # 0 => state'.versions[table] = state.versions[table]
         /\ state'.versions[table] # 0 /\ state'.versions[table] \in DOMAIN source[table]
         /\ state'.complete = state.complete
<1> USE DEF Typed, TypeOK, Open, Checkpoints
<1>1. state.versions \in [Tables -> Nat] /\ table \in Tables
  OBVIOUS
<1>2. state'.versions = [state.versions EXCEPT ![table] = IF @ = 0 THEN version[table] ELSE @]
  BY <1>1
<1>3. 0 \notin DOMAIN source[table]
  BY VersionsPositive
<1>4. version[table] \in DOMAIN source[table]
  OBVIOUS
<1> QED
  BY <1>1, <1>2, <1>3, <1>4

LEMMA OpenTyped == Typed /\ Open => Typed'
<1> SUFFICES ASSUME Typed, Open PROVE Typed'
  OBVIOUS
<1>1. \A t \in Tables : \/ state'.versions[t] = 0 /\ state'.offsets[t] = 0
                        \/ /\ state'.versions[t] \in DOMAIN source[t]
                           /\ state'.offsets[t] <= Len(source[t][state'.versions[t]])
<2> SUFFICES ASSUME NEW t \in Tables
             PROVE  \/ state'.versions[t] = 0 /\ state'.offsets[t] = 0
                    \/ /\ state'.versions[t] \in DOMAIN source[t]
                       /\ state'.offsets[t] <= Len(source[t][state'.versions[t]])
  OBVIOUS
<2>1. CASE state'.versions[t] = state.versions[t]
  BY <2>1, OpenPins DEF Typed, TypeOK, Snapshot
<2>2. CASE state'.versions[t] # state.versions[t]
<3>1. t = table /\ state.versions[t] = 0
  BY <2>2, OpenPins
<3>2. state.offsets[t] = 0
  BY <3>1, VersionsPositive DEF Typed, TypeOK
<3>3. state'.versions[t] \in DOMAIN source[t] /\ state'.offsets[t] = 0
  BY <3>1, <3>2, OpenPins
<3> QED
  BY <3>3, SnapshotRows DEF Typed, TypeOK
<2> QED
  BY <2>1, <2>2
<1>2. shadowed' \subseteq Turns
<2>1. CASE table = "messages"
<3>1. shadowed' = Twins(source[table][state'.versions[table]])
  BY <2>1 DEF Open
<3>2. \A i \in DOMAIN source[table][state'.versions[table]] :
        source[table][state'.versions[table]][i] \in Rows
  BY OpenPins, SnapshotRows DEF Typed, TypeOK
<3> QED
  BY <3>1, <3>2 DEF Twins, Rows
<2>2. CASE table # "messages"
  BY <2>2 DEF Open, Typed, TypeOK
<2> QED
  BY <2>1, <2>2
<1>3. TypeOK'
  BY SMTT(30), <1>1, <1>2, OpenPins DEF Typed, TypeOK, Open, Snapshot
<1>4. Session'
<2>1. \A t \in Tables : /\ state'.offsets[t] = file.offsets[t]
                        /\ file.versions[t] # 0 => state'.versions[t] = file.versions[t]
  BY OpenPins DEF Typed, Session, Open
<2>2. state'.versions["messages"] # 0 /\ shadowed' = Twins(source["messages"][state'.versions["messages"]])
<3>1. CASE table = "messages"
  BY <3>1, OpenPins DEF Open
<3>2. CASE table = "chunks"
  BY <3>2, OpenPins DEF Open, Typed, Session, Snapshot, Tables
<3> QED
  BY <3>1, <3>2 DEF Typed, TypeOK, Tables
<2> QED
  BY <2>1, <2>2, OpenPins DEF Session, Open, Snapshot
<1>5. MessagesFirst'
  BY DEF Typed, MessagesFirst, Open
<1> QED
  BY <1>3, <1>4, <1>5 DEF Typed

LEMMA ReadTyped == Typed /\ Read => Typed'
<1> SUFFICES ASSUME Typed, Read PROVE Typed'
  OBVIOUS
<1>1. Snapshot(state, table) \in Seq(Rows)
  BY SnapshotRows DEF Typed, TypeOK, Session, Read, Snapshot
<1>2. batch' \subseteq Nat
  BY <1>1, NextRowsKept DEF Read
<1>3. TypeOK'
  BY <1>2 DEF Typed, TypeOK, Read, Snapshot
<1>4. Session' /\ MessagesFirst'
  BY DEF Typed, Session, MessagesFirst, Read, Snapshot, NextRows
<1> QED
  BY <1>3, <1>4 DEF Typed

(* The rows of a batch come from the pinned snapshot.                       *)
LEMMA BatchIn ==
  ASSUME Typed, pc \in {"upsert", "mark", "save"}
  PROVE  /\ batch = NextRows /\ batch \subseteq DOMAIN Snapshot(state, table)
         /\ state.versions[table] \in DOMAIN source[table]
         /\ \A i \in DOMAIN Snapshot(state, table) : Snapshot(state, table)[i] \in Rows
         /\ BatchRows \subseteq Rows
<1>1. state.versions[table] \in DOMAIN source[table] /\ batch = NextRows
  BY DEF Typed, TypeOK, Session
<1>2. \A i \in DOMAIN Snapshot(state, table) : Snapshot(state, table)[i] \in Rows
  BY <1>1, SnapshotRows DEF Typed, TypeOK, Snapshot
<1>3. batch \subseteq DOMAIN Snapshot(state, table)
  BY <1>1, NextRowsKept
<1> QED
  BY <1>1, <1>2, <1>3 DEF BatchRows

LEMMA UpsertTyped == Typed /\ Upsert => Typed'
<1> SUFFICES ASSUME Typed, Upsert PROVE Typed'
  OBVIOUS
<1>1. PICK new \in Merges(BatchRows) :
        dest' = [dest EXCEPT ![table] = Others(@, BatchRows) \cup new]
  BY DEF Upsert
<1>2. new \subseteq Rows
  BY <1>1, BatchIn DEF Upsert, Merges
<1>3. dest' \in [Tables -> SUBSET Rows]
  BY <1>1, <1>2 DEF Typed, TypeOK, Others
<1>4. TypeOK'
  BY <1>3 DEF Typed, TypeOK, Upsert, Snapshot
<1>5. Session' /\ MessagesFirst'
  BY DEF Typed, TypeOK, Tables, Session, MessagesFirst, Upsert, Snapshot, NextRows
<1> QED
  BY <1>4, <1>5 DEF Typed

LEMMA MarkTyped == Typed /\ Mark => Typed'
<1> SUFFICES ASSUME Typed, Mark PROVE Typed'
  OBVIOUS
<1>1. MarksOf(Snapshot(state, table), batch) \subseteq [turn : Turns, edition : Editions]
  BY BatchIn DEF Mark, MarksOf, Rows
<1>2. TypeOK'
  BY <1>1 DEF Typed, TypeOK, Mark, Snapshot
<1>3. Session' /\ MessagesFirst'
  BY DEF Typed, Session, MessagesFirst, Mark, Snapshot, NextRows
<1> QED
  BY <1>2, <1>3 DEF Typed

(* What Save writes, in memory and to the file.                             *)
LEMMA SaveWrites ==
  ASSUME Typed, Save
  PROVE  /\ state' \in Checkpoints /\ file' = state'
         /\ state'.versions = state.versions
         /\ \A t \in Tables : t # table => state'.offsets[t] = state.offsets[t]
         /\ state.offsets[table] \in Nat
         /\ state'.offsets[table] =
              Least(state.offsets[table] + BatchSize, Len(Snapshot(state, table)))
         /\ state.versions[table] \in DOMAIN source[table]
         /\ Len(Snapshot(state, table)) \in Nat
         /\ state.versions["messages"] # 0
<1>1. state.versions[table] \in DOMAIN source[table] /\ state.versions["messages"] # 0
  BY DEF Typed, TypeOK, Session, Save
<1>2. Len(Snapshot(state, table)) \in Nat
  BY <1>1, SnapshotRows DEF Typed, TypeOK, Snapshot
<1>3. state.offsets[table] \in Nat /\ table \in Tables /\ state \in Checkpoints
  BY DEF Typed, TypeOK, Checkpoints
<1>4. state'.offsets = [state.offsets EXCEPT ![table] =
                          Least(@ + BatchSize, Len(Snapshot(state, table)))]
  BY <1>3 DEF Save, Checkpoints
<1>5. Least(state.offsets[table] + BatchSize, Len(Snapshot(state, table))) \in Nat
  BY <1>2, <1>3 DEF Least
<1>6. state' \in Checkpoints /\ state'.versions = state.versions
  BY <1>3, <1>4, <1>5 DEF Save, Checkpoints
<1> QED
  BY <1>1, <1>2, <1>3, <1>4, <1>6 DEF Save, Checkpoints

LEMMA SaveTyped == Typed /\ Save => Typed'
<1> SUFFICES ASSUME Typed, Save PROVE Typed'
  OBVIOUS
<1>1. \A t \in Tables : \/ state'.versions[t] = 0 /\ state'.offsets[t] = 0
                        \/ /\ state'.versions[t] \in DOMAIN source[t]
                           /\ state'.offsets[t] <= Len(source[t][state'.versions[t]])
<2> SUFFICES ASSUME NEW t \in Tables
             PROVE  \/ state'.versions[t] = 0 /\ state'.offsets[t] = 0
                    \/ /\ state'.versions[t] \in DOMAIN source[t]
                       /\ state'.offsets[t] <= Len(source[t][state'.versions[t]])
  OBVIOUS
<2>1. CASE t # table
  BY <2>1, SaveWrites DEF Typed, TypeOK, Snapshot
<2>2. CASE t = table
  <3>1. /\ state'.versions[t] = state.versions[t] /\ state.versions[t] \in DOMAIN source[t]
        /\ state'.offsets[t] = Least(state.offsets[t] + BatchSize, Len(Snapshot(state, t)))
        /\ state.offsets[t] \in Nat /\ Len(Snapshot(state, t)) \in Nat
    BY <2>2, SaveWrites
  <3>2. state'.offsets[t] <= Len(Snapshot(state, t))
    BY <3>1 DEF Least
  <3> QED
    BY <3>1, <3>2 DEF Snapshot
<2> QED
  BY <2>1, <2>2
<1>2. TypeOK'
  BY SMTT(30), <1>1, SaveWrites DEF Typed, TypeOK, Save, Snapshot
<1>3. Session'
  BY SaveWrites DEF Typed, Session, Save, Snapshot, Tables
<1>4. MessagesFirst'
  BY SaveWrites DEF MessagesFirst
<1> QED
  BY <1>2, <1>3, <1>4 DEF Typed

LEMMA CountTyped == Typed /\ Count => Typed'
<1> SUFFICES ASSUME Typed, Count PROVE Typed'
  OBVIOUS
<1>1. TypeOK'
  BY DEF Typed, TypeOK, Count, Snapshot, Tables
<1>2. Session' /\ MessagesFirst'
  BY DEF Typed, TypeOK, Tables, Session, MessagesFirst, Count, Snapshot
<1> QED
  BY <1>1, <1>2 DEF Typed

LEMMA FinishTyped == Typed /\ Finish => Typed'
<1> SUFFICES ASSUME Typed, Finish PROVE Typed'
  OBVIOUS
<1>1. /\ state' \in Checkpoints /\ file' = state'
      /\ state'.versions = state.versions /\ state'.offsets = state.offsets
  BY DEF Typed, TypeOK, Checkpoints, Finish
<1>2. TypeOK'
  BY <1>1 DEF Typed, TypeOK, Finish, Snapshot
<1>3. Session' /\ MessagesFirst'
  BY <1>1 DEF Typed, Session, MessagesFirst, Finish
<1> QED
  BY <1>2, <1>3 DEF Typed

LEMMA CrashTyped == Typed /\ Crash => Typed'
<1> SUFFICES ASSUME Typed, Crash PROVE Typed'
  OBVIOUS
<1>1. TypeOK'
  BY DEF Typed, TypeOK, Crash, Snapshot
<1>2. Session' /\ MessagesFirst'
  BY DEF Typed, Session, MessagesFirst, Crash
<1> QED
  BY <1>1, <1>2 DEF Typed

LEMMA CommitTyped == ASSUME NEW t \in Tables PROVE Typed /\ SourceCommit(t) => Typed'
<1> SUFFICES ASSUME Typed, SourceCommit(t) PROVE Typed'
  OBVIOUS
<1>1. source[t] \in Seq(Seq(Rows)) /\ version[t] \in DOMAIN source[t]
  BY DEF Typed, TypeOK
<1>2. version[t] + 1 \in DOMAIN source[t] /\ version[t] + 1 \in Nat
  BY <1>1 DEF SourceCommit
<1>3. TypeOK'
  BY <1>2 DEF Typed, TypeOK, SourceCommit, Snapshot
<1>4. Session' /\ MessagesFirst'
  BY DEF Typed, Session, MessagesFirst, SourceCommit, Snapshot, NextRows
<1> QED
  BY <1>3, <1>4 DEF Typed

(* No step of the program, failure or commit of the source breaks them.     *)
LEMMA NextTyped == Typed /\ [Next]_vars => Typed'
<1> SUFFICES ASSUME Typed, [Next]_vars PROVE Typed'
  OBVIOUS
<1>1. CASE Run
  BY <1>1, StartTyped, OpenTyped, ReadTyped, UpsertTyped, MarkTyped, SaveTyped,
     CountTyped, FinishTyped DEF Run
<1>2. CASE Crash
  BY <1>2, CrashTyped
<1>3. CASE \E t \in Tables : SourceCommit(t)
  BY <1>3, CommitTyped
<1>4. CASE UNCHANGED vars
  BY <1>4 DEF vars, Typed, TypeOK, Session, MessagesFirst, Snapshot, NextRows
<1> QED
  BY <1>1, <1>2, <1>3, <1>4 DEF Next

(* Every reachable state of a migration is well typed: a checkpoint never   *)
(* names a version that is not there, nor an offset past the end.           *)
THEOREM MigrationTyped == Spec => []TypeOK
<1>1. Typed => TypeOK
  BY DEF Typed
<1> QED
  BY <1>1, InitTyped, NextTyped, PTL DEF Spec

-----------------------------------------------------------------------------
(* Where rows were copied, file and memory pin the same rows.               *)
LEMMA SamePins ==
  ASSUME Typed, pc # "stopped", NEW t \in Tables, file.offsets[t] > 0
  PROVE  /\ Snapshot(state, t) = Snapshot(file, t)
         /\ Pinned(state, t) = Pinned(file, t)
<1>1. file.versions[t] # 0 /\ file.versions["messages"] # 0 /\ "messages" \in Tables
  BY SMTT(30) DEF Typed, TypeOK, MessagesFirst, Tables
<1>2. state.versions[t] = file.versions[t] /\ state.versions["messages"] = file.versions["messages"]
  BY <1>1 DEF Typed, Session
<1> QED
  BY <1>1, <1>2 DEF Snapshot, Pinned

(* While it copies, a process leaves out what its checkpoint leaves out.    *)
LEMMA PinnedNow ==
  ASSUME Typed, pc \notin {"stopped", "open"}
  PROVE  Pinned(state, table) =
           {Snapshot(state, table)[i] : i \in Kept(shadowed, Snapshot(state, table))}
  BY DEF Typed, Session, Pinned

(* Steps that leave the checkpoint and the tables alone, and take no mark   *)
(* away.                                                                    *)
LEMMA ResumableKept ==
  ASSUME Resumable, UNCHANGED <<source, file, dest>>, \A r : IsMarked(r) => IsMarked(r)'
  PROVE  Resumable'
<1> SUFFICES ASSUME NEW t \in Tables, file.offsets[t] > 0
             PROVE  Copied(file, t, file.offsets[t])'
  BY DEF Resumable
<1>1. Snapshot(file, t)' = Snapshot(file, t) /\ Pinned(file, t)' = Pinned(file, t)
  BY DEF Snapshot, Pinned
<1>2. \A r : Stored(file, t, r) => Stored(file, t, r)'
  BY <1>1 DEF Stored
<1>3. Copied(file, t, file.offsets[t])
  BY DEF Resumable
<1> QED
  BY <1>1, <1>2, <1>3 DEF Copied

(* An upsert replaces rows by rows of the same ids that are to be kept, and *)
(* adds all of its batch.                                                   *)
LEMMA UpsertStores ==
  ASSUME Typed, Upsert
  PROVE  /\ \A i \in batch : Stored(state, table, Snapshot(state, table)[i])'
         /\ \A r : Stored(state, table, r) => Stored(state, table, r)'
         /\ \A t \in Tables : t # table => dest'[t] = dest[t]
<1>1. PICK new \in Merges(BatchRows) :
        dest' = [dest EXCEPT ![table] = Others(@, BatchRows) \cup new]
  BY DEF Upsert
<1>2. /\ dest'[table] = Others(dest[table], BatchRows) \cup new
      /\ \A t \in Tables : t # table => dest'[t] = dest[t]
  BY <1>1 DEF Typed, TypeOK
<1>3. BatchRows \subseteq Pinned(state, table)
  BY BatchIn, PinnedNow DEF Upsert, BatchRows, NextRows
<1>4. UNCHANGED <<source, state, table>>
  BY DEF Upsert
<1>5. Pinned(state, table)' = Pinned(state, table)
  BY <1>4 DEF Pinned, Snapshot
<1>6. \A r \in BatchRows : Stored(state, table, r)'
<2> SUFFICES ASSUME NEW r \in BatchRows PROVE Stored(state, table, r)'
  OBVIOUS
<2>1. PICK n \in new : Id(n) = Id(r)
  BY <1>1 DEF Merges
<2>2. n \in dest'[table] /\ n \in Pinned(state, table)
  BY <1>1, <1>2, <1>3 DEF Merges
<2> QED
  BY <1>4, <1>5, <2>1, <2>2 DEF Stored
<1>7. \A r : Stored(state, table, r) => Stored(state, table, r)'
<2> SUFFICES ASSUME NEW r, Stored(state, table, r) PROVE Stored(state, table, r)'
  OBVIOUS
<2>1. PICK d \in dest[table] : Id(d) = Id(r) /\ d \in Pinned(state, table)
  BY DEF Stored
<2>2. CASE d \in Others(dest[table], BatchRows)
  BY <1>2, <1>4, <1>5, <2>1, <2>2 DEF Stored
<2>3. CASE d \notin Others(dest[table], BatchRows)
<3>1. PICK b \in BatchRows : Id(b) = Id(d)
  BY <2>1, <2>3 DEF Others
<3>2. PICK e \in dest'[table] : Id(e) = Id(b) /\ e \in Pinned(state, table)
  BY <1>4, <1>5, <1>6, <3>1 DEF Stored
<3> QED
  BY <1>4, <1>5, <2>1, <3>1, <3>2 DEF Stored
<2> QED
  BY <2>2, <2>3
<1> QED
  BY <1>2, <1>4, <1>6, <1>7 DEF BatchRows, Snapshot

(* An upsert keeps what the checkpoint counts as copied.                    *)
LEMMA UpsertResumable ==
  ASSUME Typed, Resumable, Upsert
  PROVE  Resumable'
<1>1. UNCHANGED <<source, file, state, table, marks>> /\ pc # "stopped"
  BY DEF Upsert
<1>2. \A t \in Tables : /\ Snapshot(file, t)' = Snapshot(file, t)
                        /\ Pinned(file, t)' = Pinned(file, t)
  BY <1>1 DEF Snapshot, Pinned
<1> SUFFICES ASSUME NEW t \in Tables, file.offsets[t] > 0
             PROVE  Copied(file, t, file.offsets[t])'
  BY <1>1 DEF Resumable
<1>3. \A r : Stored(file, t, r) => Stored(file, t, r)'
<2>1. CASE t # table
  BY <1>2, <2>1, UpsertStores DEF Stored
<2>2. CASE t = table
<3>1. Pinned(state, t) = Pinned(file, t)
  BY <1>1, SamePins
<3>2. Pinned(state, t)' = Pinned(state, t)
  BY <1>1 DEF Pinned, Snapshot
<3>3. \A r : Stored(file, t, r) => Stored(state, t, r)
  BY <3>1 DEF Stored
<3>4. \A r : Stored(state, t, r)' => Stored(file, t, r)'
  BY <1>2, <3>1, <3>2 DEF Stored
<3>5. \A r : Stored(state, table, r)' => Stored(state, t, r)'
  BY <1>1, <2>2 DEF Stored
<3> QED
  BY <2>2, <3>3, <3>4, <3>5, UpsertStores
<2> QED
  BY <2>1, <2>2
<1>4. Copied(file, t, file.offsets[t])
  BY DEF Resumable
<1>5. \A r : IsMarked(r) => IsMarked(r)'
  BY <1>1 DEF IsMarked
<1> QED
  BY <1>1, <1>2, <1>3, <1>4, <1>5 DEF Copied

(* A message that was marked stays marked, and all of the batch are.        *)
LEMMA MarkMarks ==
  ASSUME Typed, Mark
  PROVE  /\ \A r : IsMarked(r) => IsMarked(r)'
         /\ \A i \in batch : IsMarked(Snapshot(state, table)[i])'
<1> DEFINE snap == Snapshot(state, table)
<1>1. \A i \in batch : \E k \in MarksOf(snap, batch) : k.turn = snap[i].turn
<2> SUFFICES ASSUME NEW i \in batch
             PROVE  \E k \in MarksOf(snap, batch) : k.turn = snap[i].turn
  OBVIOUS
<2> DEFINE same == {j \in batch : snap[j].turn = snap[i].turn}
<2>1. PICK j \in same : \A k \in same : k <= j
<3>1. batch \subseteq 1..Len(snap) /\ Len(snap) \in Nat
  BY BatchIn, SnapshotRows DEF Mark, Typed, TypeOK, Snapshot
<3>2. same # {} /\ same \in SUBSET (1..Len(snap))
  BY <3>1
<3> HIDE DEF same
<3> QED
  BY <3>1, <3>2, GreatestOf
<2>2. [turn |-> snap[j].turn, edition |-> snap[j].edition] \in MarksOf(snap, batch)
  BY <2>1 DEF MarksOf
<2> QED
  BY <2>1, <2>2
<1>2. marks' = {k \in marks : \A i \in batch : snap[i].turn # k.turn} \cup MarksOf(snap, batch)
  BY DEF Mark
<1>3. \A i \in batch : IsMarked(snap[i])'
  BY <1>1, <1>2 DEF IsMarked, Mark, Snapshot
<1>4. \A r : IsMarked(r) => IsMarked(r)'
  BY <1>1, <1>2 DEF IsMarked
<1> QED
  BY <1>3, <1>4 DEF Mark, Snapshot

(* Once stored and marked, a batch may be counted as copied.                *)
LEMMA SaveResumable ==
  ASSUME ResumeInv, Save
  PROVE  Resumable'
<1> USE DEF ResumeInv
<1>1. UNCHANGED <<source, table, dest, marks>> /\ pc = "save" /\ file' = state'
  BY DEF Save
<1>2. state'.versions = state.versions
  BY SaveWrites
<1> SUFFICES ASSUME NEW t \in Tables, state'.offsets[t] > 0
             PROVE  Copied(file, t, file.offsets[t])'
  BY <1>1 DEF Resumable
<1>3. /\ Snapshot(file, t)' = Snapshot(state, t)
      /\ Pinned(file, t)' = Pinned(state, t)
  BY <1>1, <1>2 DEF Snapshot, Pinned
<1>4. \A r : /\ Stored(state, t, r) => Stored(file, t, r)'
             /\ IsMarked(r) => IsMarked(r)'
  BY <1>1, <1>3 DEF Stored, IsMarked
<1>5. state.offsets[t] = file.offsets[t] /\ file.offsets[t] \in Nat
  BY <1>1 DEF Typed, TypeOK, Session, Checkpoints
<1>6. \A i \in DOMAIN Snapshot(state, t) :
        LET r == Snapshot(state, t)[i]
        IN i <= file.offsets[t] /\ r \in Pinned(state, t) =>
             Stored(state, t, r) /\ (t = "messages" => IsMarked(r))
<2>1. CASE file.offsets[t] > 0
<3>1. Snapshot(state, t) = Snapshot(file, t) /\ Pinned(state, t) = Pinned(file, t)
  BY <1>1, <2>1, SamePins
<3>2. \A r : Stored(file, t, r) => Stored(state, t, r)
  BY <3>1 DEF Stored
<3>3. Copied(file, t, file.offsets[t])
  BY <2>1 DEF Resumable
<3> QED
  BY <3>1, <3>2, <3>3 DEF Copied
<2>2. CASE file.offsets[t] = 0
<3>1. CASE state.versions[t] = 0
  BY <3>1 DEF Pinned
<3>2. CASE state.versions[t] # 0
<4>1. DOMAIN Snapshot(state, t) = 1..Len(Snapshot(state, t)) /\ Len(Snapshot(state, t)) \in Nat
  BY <3>2, SnapshotRows DEF Typed, TypeOK, Snapshot
<4> QED
  BY <2>2, <4>1
<3> QED
  BY <3>1, <3>2
<2> QED
  BY <1>5, <2>1, <2>2
<1>7. CASE t # table
<2>1. state'.offsets[t] = file.offsets[t]
  BY <1>5, <1>7, SaveWrites
<2> QED
  BY <1>1, <1>3, <1>4, <1>6, <2>1 DEF Copied
<1>8. CASE t = table
<2> DEFINE snap == Snapshot(state, t)
<2>1. \A i \in DOMAIN snap : snap[i] \in Pinned(state, t) => i \in Kept(shadowed, snap)
  BY <1>1, <1>8, PinnedNow DEF Kept
<2>2. state'.offsets[t] <= file.offsets[t] + BatchSize /\ state'.offsets[t] \in Nat
  BY <1>5, <1>8, SaveWrites DEF Least
<2>3. DOMAIN snap = 1..Len(snap) /\ Len(snap) \in Nat
  BY <1>8, SaveWrites, SnapshotRows DEF Typed, TypeOK, Snapshot
<2>4. batch = {i \in Kept(shadowed, snap) :
                 file.offsets[t] < i /\ i <= file.offsets[t] + BatchSize}
  BY <1>1, <1>5, <1>8, BatchIn DEF NextRows
<2>5. \A i \in batch : Stored(state, t, snap[i]) /\ (t = "messages" => IsMarked(snap[i]))
  BY <1>1, <1>8 DEF BatchDone
<2>6. \A i \in DOMAIN snap :
        i <= state'.offsets[t] /\ snap[i] \in Pinned(state, t) =>
          Stored(state, t, snap[i]) /\ (t = "messages" => IsMarked(snap[i]))
<3> SUFFICES ASSUME NEW i \in DOMAIN snap, i <= state'.offsets[t], snap[i] \in Pinned(state, t)
             PROVE  Stored(state, t, snap[i]) /\ (t = "messages" => IsMarked(snap[i]))
  OBVIOUS
<3>1. CASE i <= file.offsets[t]
  BY <1>6, <3>1
<3>2. CASE ~ (i <= file.offsets[t])
<4>1. i \in batch
  BY <1>5, <2>1, <2>2, <2>3, <2>4, <3>2
<4> QED
  BY <2>5, <4>1
<3> QED
  BY <3>1, <3>2
<2> QED
  BY <1>1, <1>3, <1>4, <2>6 DEF Copied
<1> QED
  BY <1>7, <1>8

(* The last checkpoint counts what the one before counted.                  *)
LEMMA FinishResumable ==
  ASSUME ResumeInv, Finish
  PROVE  Resumable'
<1> USE DEF ResumeInv
<1>1. UNCHANGED <<source, dest, marks>> /\ pc = "finish" /\ file' = state'
  BY DEF Finish
<1>2. state'.versions = state.versions /\ state'.offsets = state.offsets
  BY DEF Finish, Typed, TypeOK, Checkpoints
<1> SUFFICES ASSUME NEW t \in Tables, state.offsets[t] > 0
             PROVE  Copied(file, t, file.offsets[t])'
  BY <1>1, <1>2 DEF Resumable
<1>3. state.offsets[t] = file.offsets[t]
  BY <1>1 DEF Typed, Session
<1>4. Snapshot(state, t) = Snapshot(file, t) /\ Pinned(state, t) = Pinned(file, t)
  BY <1>1, <1>3, SamePins
<1>5. /\ Snapshot(file, t)' = Snapshot(state, t)
      /\ Pinned(file, t)' = Pinned(state, t)
  BY <1>1, <1>2 DEF Snapshot, Pinned
<1>6. \A r : /\ Stored(file, t, r) => Stored(file, t, r)'
             /\ IsMarked(r) => IsMarked(r)'
  BY <1>1, <1>4, <1>5 DEF Stored, IsMarked
<1>7. Copied(file, t, file.offsets[t])
  BY <1>3 DEF Resumable
<1>8. file'.offsets[t] = file.offsets[t]
  BY <1>1, <1>2, <1>3
<1> QED
  BY <1>4, <1>5, <1>6, <1>7, <1>8 DEF Copied

(* One step of anybody.                                                     *)
LEMMA NextResumes == ResumeInv /\ [Next]_vars => ResumeInv'
<1> SUFFICES ASSUME ResumeInv, [Next]_vars PROVE BatchDone' /\ Resumable'
  BY NextTyped DEF ResumeInv
<1> USE DEF ResumeInv
<1>1. CASE Upsert
<2>1. BatchDone'
  BY <1>1, UpsertStores DEF BatchDone, Upsert, Snapshot
<2> QED
  BY <1>1, <2>1, UpsertResumable
<1>2. CASE Mark
<2>1. UNCHANGED <<source, file, state, table, batch, dest>> /\ pc = "mark" /\ pc' = "save"
  BY <1>2 DEF Mark
<2>2. /\ Snapshot(state, table)' = Snapshot(state, table)
      /\ Pinned(state, table)' = Pinned(state, table)
  BY <2>1 DEF Snapshot, Pinned
<2>3. \A i \in batch : Stored(state, table, Snapshot(state, table)[i])'
  BY <2>1, <2>2 DEF BatchDone, Stored
<2>4. BatchDone'
  BY <1>2, <2>1, <2>2, <2>3, MarkMarks DEF BatchDone
<2> QED
  BY <1>2, <2>1, <2>4, MarkMarks, ResumableKept
<1>3. CASE Save
  BY <1>3, SaveResumable DEF BatchDone, Save
<1>4. CASE Finish
  BY <1>4, FinishResumable DEF BatchDone, Finish
<1>5. CASE Start \/ Open \/ Read \/ Count \/ Crash
<2>1. pc' \notin {"mark", "save"} /\ UNCHANGED <<source, file, dest, marks>>
  BY <1>5 DEF Start, Open, Read, Count, Crash
<2> QED
  BY <2>1, ResumableKept DEF BatchDone, IsMarked
<1>6. CASE (\E t \in Tables : SourceCommit(t)) \/ UNCHANGED vars
<2>1. UNCHANGED <<source, file, state, table, pc, batch, dest, marks>>
  BY <1>6 DEF SourceCommit, vars
<2>2. /\ Snapshot(state, table)' = Snapshot(state, table)
      /\ Pinned(state, table)' = Pinned(state, table)
  BY <2>1 DEF Snapshot, Pinned
<2>3. BatchDone'
  BY <2>1, <2>2 DEF BatchDone, Stored, IsMarked
<2> QED
  BY <2>1, <2>3, ResumableKept DEF IsMarked
<1> QED
  BY <1>1, <1>2, <1>3, <1>4, <1>5, <1>6 DEF Next, Run

(* What a saved checkpoint lets a later run skip is in the tables and in    *)
(* the dedup state, for any store, however it moves, any batch size and any *)
(* number of failures.                                                      *)
THEOREM MigrationResumes == Spec => []Resumable
<1>1. Init => ResumeInv
  BY InitTyped DEF Init, ResumeInv, BatchDone, Resumable, NoState
<1>2. ResumeInv => Resumable
  BY DEF ResumeInv
<1> QED
  BY <1>1, <1>2, NextResumes, PTL DEF Spec

-----------------------------------------------------------------------------
(* What a complete migration leaves of a source that nobody writes. *)

(* What a source that nobody writes keeps.                                  *)
StillRows(t) == source[t][1]
StillKept(t) == Kept(Twins(StillRows("messages")), StillRows(t))
StillPinned(t) == {StillRows(t)[i] : i \in StillKept(t)}

DistinctIn(t) ==
  \A i, j \in StillKept(t) : Id(StillRows(t)[i]) = Id(StillRows(t)[j]) => i = j

(* A table that was read to its end and counted.                            *)
Counted(t) == file.offsets[t] = Len(StillRows(t)) /\ DistinctIn(t)

MarkOf(r) == [turn |-> r.turn, edition |-> r.edition]

(* A process pins no version that is not there yet, counts a table that it  *)
(* has read to its end, and leaves a complete checkpoint alone.             *)
Orderly ==
  /\ \A c \in {file, state} : \A t \in Tables : c.versions[t] <= version[t]
  /\ pc # "stopped" => ~file.complete /\ ~state.complete
  /\ pc = "count" => state.offsets[table] = Len(Snapshot(state, table))
  /\ pc = "finish" => table = "chunks"
  /\ file.complete => \A t \in Tables : file.versions[t] # 0

(* The tables hold nothing but rows that are kept, the dedup state nothing  *)
(* but messages that are stored, and what was counted had distinct ids.     *)
StillExact ==
  /\ \A t \in Tables : /\ dest[t] \subseteq StillPinned(t)
                       /\ \A d, e \in dest[t] : Id(d) = Id(e) => d = e
  /\ DistinctIn("messages") => \A k \in marks : \E r \in dest["messages"] : k = MarkOf(r)
  /\ pc # "stopped" /\ table = "chunks" => Counted("messages")
  /\ pc = "finish" \/ file.complete => Counted("messages") /\ Counted("chunks")

ExactInv == ResumeInv /\ Orderly /\ (Still => StillExact)

LEMMA RowsAre ==
  ASSUME Typed, NEW t \in Tables
  PROVE  /\ StillRows(t) \in Seq(Rows)
         /\ DOMAIN StillRows(t) = 1..Len(StillRows(t)) /\ Len(StillRows(t)) \in Nat
         /\ StillKept(t) \subseteq DOMAIN StillRows(t) /\ IsFiniteSet(StillKept(t))
         /\ \A i \in DOMAIN StillRows(t) :
              StillRows(t)[i] \in Rows /\ (t = "messages" => StillRows(t)[i].part = 0)
<1>1. 1 \in DOMAIN source[t] /\ source \in Sources
  <2>1. source[t] \in Seq(Seq(Rows)) /\ version[t] \in DOMAIN source[t]
    BY DEF Typed, TypeOK
  <2> QED
    BY <2>1 DEF Typed, TypeOK
<1>2. /\ StillRows(t) \in Seq(Rows)
      /\ DOMAIN StillRows(t) = 1..Len(StillRows(t)) /\ Len(StillRows(t)) \in Nat
      /\ \A i \in DOMAIN StillRows(t) : StillRows(t)[i] \in Rows
  BY <1>1, SnapshotRows DEF StillRows
<1>3. StillKept(t) \subseteq DOMAIN StillRows(t)
  BY DEF StillKept, Kept
<1>4. IsFiniteSet(StillKept(t))
  <2>1. IsFiniteSet(1..Len(StillRows(t)))
    <3>1. 1 \in Int /\ Len(StillRows(t)) \in Int
      BY <1>2
    <3> QED
      BY <3>1, FS_Interval
  <2> QED
    BY <1>2, <1>3, <2>1, FS_Subset
<1>5. ASSUME t = "messages", NEW i \in DOMAIN StillRows(t) PROVE StillRows(t)[i].part = 0
  BY <1>1, <1>5, PartAssumption DEF StillRows
<1> QED
  BY <1>2, <1>3, <1>4, <1>5

LEMMA StillBefore ==
  ASSUME Typed, [Next]_vars, Still'
  PROVE  Still /\ UNCHANGED <<source, version>>
<1>1. ASSUME NEW t \in Tables, SourceCommit(t) PROVE FALSE
  <2>1. version[t] \in DOMAIN source[t] /\ source[t] \in Seq(Seq(Rows))
        /\ version \in [Tables -> Nat]
    BY DEF Typed, TypeOK
  <2>2. version[t] >= 1 /\ version[t] \in Nat
    BY <2>1
  <2>3. version'[t] = version[t] + 1
    BY <1>1, <2>1 DEF SourceCommit
  <2> QED
    BY <2>2, <2>3 DEF Still
<1>2. UNCHANGED <<source, version>>
  BY <1>1 DEF Next, Run, Start, Open, Read, Upsert, Mark, Save, Count, Finish, Crash, vars
<1> QED
  BY <1>2 DEF Still

(* Of a still source, the first versions are the ones that are pinned.      *)
LEMMA FirstPinned ==
  ASSUME Typed, Orderly, Still, pc \notin {"stopped", "open"}
  PROVE  /\ state.versions[table] = 1 /\ state.versions["messages"] = 1
         /\ Snapshot(state, table) = StillRows(table)
         /\ shadowed = Twins(StillRows("messages"))
         /\ Kept(shadowed, Snapshot(state, table)) = StillKept(table)
         /\ Pinned(state, table) = StillPinned(table)
<1>1. table \in Tables /\ "messages" \in Tables
  BY DEF Typed, TypeOK, Tables
<1>2. state.versions[table] # 0 /\ state.versions["messages"] # 0
      /\ shadowed = Twins(Snapshot(state, "messages"))
  BY DEF Typed, Session
<1>3. \A t \in Tables : state.versions[t] \in Nat /\ state.versions[t] <= 1
  BY DEF Orderly, Still, Typed, TypeOK, Checkpoints
<1>4. state.versions[table] = 1 /\ state.versions["messages"] = 1
  <2>1. \A n \in Nat : n <= 1 /\ n # 0 => n = 1
    OBVIOUS
  <2> QED
    BY <1>1, <1>2, <1>3, <2>1, Zenon
<1>5. Snapshot(state, table) = StillRows(table) /\ Snapshot(state, "messages") = StillRows("messages")
  BY <1>4 DEF Snapshot, StillRows
<1> QED
  BY <1>2, <1>4, <1>5 DEF StillKept, StillPinned, Pinned

-----------------------------------------------------------------------------
LEMMA OrderlyInit == Init => Orderly
  BY DEF Init, Orderly, NoState, Tables

LEMMA OrderlyStep ==
  ASSUME Typed, Orderly, [Next]_vars
  PROVE  Orderly'
<1>1. CASE Start
  BY <1>1 DEF Orderly, Start
<1>2. CASE Open
  <2>1. \A t \in Tables : state'.versions[t] <= version[t]
    <3> SUFFICES ASSUME NEW t \in Tables PROVE state'.versions[t] <= version[t]
      OBVIOUS
    <3>1. state.versions[t] <= version[t] /\ version[t] \in Nat
      BY DEF Orderly, Typed, TypeOK
    <3>2. state'.versions[t] \in {state.versions[t], version[t]}
      <4>1. state.versions \in [Tables -> Nat] /\ state \in Checkpoints
        BY DEF Typed, TypeOK, Checkpoints
      <4>2. state'.versions = [state.versions EXCEPT ![table] = IF @ = 0 THEN version[table] ELSE @]
        BY <1>2, <4>1 DEF Open, Checkpoints
      <4> QED
        BY <4>1, <4>2
    <3> QED
      BY <3>1, <3>2
  <2>2. UNCHANGED <<file, version>> /\ pc' = "read" /\ pc = "open"
    BY <1>2 DEF Open
  <2>3. state'.complete = state.complete
    BY <1>2, OpenPins
  <2> QED
    BY <2>1, <2>2, <2>3 DEF Orderly
<1>3. CASE Read
  <2>1. UNCHANGED <<source, file, state, version, table>> /\ pc = "read"
    BY <1>3 DEF Read
  <2>2. pc' = "count" => state.offsets[table] = Len(Snapshot(state, table))
    <3>1. state.versions[table] # 0 /\ state.offsets[table] <= Len(Snapshot(state, table))
          /\ state.offsets[table] \in Nat
      <4>1. state.versions[table] # 0
        BY <2>1 DEF Typed, Session
      <4> QED
        BY <4>1 DEF Typed, TypeOK, Checkpoints
    <3>2. Len(Snapshot(state, table)) \in Nat
      BY <3>1, SnapshotRows DEF Typed, TypeOK, Snapshot
    <3> QED
      BY <1>3, <3>1, <3>2 DEF Read
  <2>3. Snapshot(state, table)' = Snapshot(state, table) /\ pc' \in {"upsert", "count"}
    BY <1>3, <2>1 DEF Snapshot, Read
  <2> QED
    BY <2>1, <2>2, <2>3 DEF Orderly
<1>4. CASE Upsert \/ Mark
  <2>1. UNCHANGED <<file, state, version>> /\ pc \in {"upsert", "mark"} /\ pc' \in {"mark", "save"}
    BY <1>4 DEF Upsert, Mark
  <2> QED
    BY <2>1 DEF Orderly
<1>5. CASE Save
  <2>1. file' = state' /\ state'.versions = state.versions /\ UNCHANGED version /\ pc = "save"
        /\ pc' = "read"
    BY <1>5, SaveWrites DEF Save
  <2>2. state'.complete = state.complete
    BY <1>5 DEF Save, Typed, TypeOK, Checkpoints
  <2> QED
    BY <2>1, <2>2 DEF Orderly
<1>6. CASE Count
  <2>1. UNCHANGED <<file, state, version>> /\ pc = "count" /\ pc' \in {"stopped", "open", "finish"}
        /\ (pc' = "finish" => table' = "chunks")
    BY <1>6 DEF Count
  <2> QED
    BY <2>1 DEF Orderly
<1>7. CASE Finish
  <2>1. file' = state' /\ UNCHANGED version /\ pc = "finish" /\ pc' = "stopped"
        /\ state'.versions = state.versions
    BY <1>7 DEF Finish, Typed, TypeOK, Checkpoints
  <2>2. \A t \in Tables : state.versions[t] # 0
    BY <2>1 DEF Typed, Session, Orderly, Tables
  <2> QED
    BY <2>1, <2>2 DEF Orderly
<1>8. CASE Crash
  BY <1>8 DEF Orderly, Crash
<1>9. ASSUME NEW t \in Tables, SourceCommit(t) PROVE Orderly'
  <2>1. UNCHANGED <<source, file, state, table, pc>> /\ version' = [version EXCEPT ![t] = @ + 1]
    BY <1>9 DEF SourceCommit
  <2>2. version \in [Tables -> Nat] /\ file \in Checkpoints /\ state \in Checkpoints
    BY DEF Typed, TypeOK
  <2>3. \A u \in Tables : version[u] <= version'[u] /\ version[u] \in Nat /\ version'[u] \in Nat
    BY <2>1, <2>2
  <2>4. \A c \in {file, state} : \A u \in Tables : c.versions[u] <= version'[u]
    BY <2>2, <2>3 DEF Orderly, Checkpoints
  <2>5. Snapshot(state, table)' = Snapshot(state, table)
    BY <2>1 DEF Snapshot
  <2> QED
    BY <2>1, <2>4, <2>5 DEF Orderly
<1>10. CASE UNCHANGED vars
  BY <1>10 DEF vars, Orderly, Snapshot
<1> QED
  BY <1>1, <1>2, <1>3, <1>4, <1>5, <1>6, <1>7, <1>8, <1>9, <1>10 DEF Next, Run

-----------------------------------------------------------------------------
(* A batch of a still source consists of rows that are kept.                *)
LEMMA BatchKept ==
  ASSUME Typed, Orderly, Still, pc \in {"upsert", "mark", "save"}
  PROVE  batch \subseteq StillKept(table) /\ BatchRows \subseteq StillPinned(table)
<1>1. batch \subseteq Kept(shadowed, Snapshot(state, table))
  BY BatchIn DEF NextRows
<1> QED
  BY <1>1, FirstPinned DEF StillPinned, BatchRows

(* Of distinct ids, the row that is kept under one is the row.              *)
LEMMA KeptRow ==
  ASSUME NEW t \in Tables, DistinctIn(t), NEW d \in StillPinned(t), NEW e \in StillPinned(t),
         Id(d) = Id(e)
  PROVE  d = e
  BY DEF DistinctIn, StillPinned

LEMMA UpsertExact ==
  ASSUME Typed, Orderly, Still, StillExact, Upsert
  PROVE  StillExact'
<1>1. PICK new \in Merges(BatchRows) :
        dest' = [dest EXCEPT ![table] = Others(@, BatchRows) \cup new]
  BY DEF Upsert
<1>2. UNCHANGED <<source, file, state, table, marks, batch>> /\ pc = "upsert"
      /\ pc' \in {"mark", "save"}
  BY DEF Upsert
<1>3. /\ \A t \in Tables : StillPinned(t)' = StillPinned(t) /\ (DistinctIn(t)' <=> DistinctIn(t))
      /\ \A t \in Tables : Counted(t)' <=> Counted(t)
  BY <1>2 DEF StillPinned, DistinctIn, Counted, StillKept, StillRows
<1>4. dest'[table] = Others(dest[table], BatchRows) \cup new /\ table \in Tables
      /\ \A t \in Tables : t # table => dest'[t] = dest[t]
  BY <1>1 DEF Typed, TypeOK
<1>5. /\ new \subseteq BatchRows /\ \A r \in BatchRows : \E n \in new : Id(n) = Id(r)
      /\ \A n, m \in new : Id(n) = Id(m) => n = m
  BY <1>1 DEF Merges
<1>6. BatchRows \subseteq StillPinned(table)
  BY <1>2, BatchKept
<1>7. /\ dest[table] \subseteq StillPinned(table)
      /\ \A d, e \in dest[table] : Id(d) = Id(e) => d = e
  BY <1>4 DEF StillExact
<1>8. /\ dest'[table] \subseteq StillPinned(table)
      /\ \A d, e \in dest'[table] : Id(d) = Id(e) => d = e
  BY <1>4, <1>5, <1>6, <1>7 DEF Others
<1>9. ASSUME NEW t \in Tables
      PROVE  /\ dest'[t] \subseteq StillPinned(t)
             /\ \A d, e \in dest'[t] : Id(d) = Id(e) => d = e
  <2>1. CASE t = table
    BY <1>8, <2>1
  <2>2. CASE t # table
    BY <1>4, <2>2 DEF StillExact
  <2> QED
    BY <2>1, <2>2
<1>10. ASSUME DistinctIn("messages"), NEW k \in marks
       PROVE  \E r \in dest'["messages"] : k = MarkOf(r)
  <2>1. PICK r \in dest["messages"] : k = MarkOf(r)
    BY <1>10 DEF StillExact
  <2>2. r \in dest'["messages"]
    <3>1. CASE table # "messages"
      BY <1>4, <3>1 DEF Tables
    <3>2. CASE table = "messages" /\ r \in Others(dest[table], BatchRows)
      BY <1>4, <3>2
    <3>3. CASE table = "messages" /\ r \notin Others(dest[table], BatchRows)
      <4>1. PICK b \in BatchRows : Id(b) = Id(r)
        BY <2>1, <3>3 DEF Others
      <4>2. PICK n \in new : Id(n) = Id(b)
        BY <1>5
      <4>3. n \in StillPinned(table) /\ r \in StillPinned(table)
        BY <1>5, <1>6, <1>7, <2>1, <3>3
      <4>4. n = r
        BY <1>4, <1>10, <3>3, <4>1, <4>2, <4>3, KeptRow
      <4> QED
        BY <1>4, <3>3, <4>4
    <3> QED
      BY <3>1, <3>2, <3>3
  <2> QED
    BY <2>1, <2>2
<1>11. /\ pc' # "stopped" /\ table' = "chunks" => Counted("messages")
       /\ pc' # "finish"
       /\ file'.complete => Counted("messages") /\ Counted("chunks")
  BY <1>2 DEF StillExact
<1> QED
  BY <1>2, <1>3, <1>9, <1>10, <1>11 DEF StillExact, Tables, MarkOf

(* The messages of a batch are stored when they are marked.                 *)
LEMMA MarkExact ==
  ASSUME Typed, Orderly, BatchDone, Still, StillExact, Mark
  PROVE  StillExact'
<1>1. UNCHANGED <<source, file, state, table, dest, batch>> /\ pc = "mark" /\ pc' = "save"
  BY DEF Mark
<1>2. table = "messages" /\ table \in Tables
  BY <1>1 DEF Typed, Session, TypeOK
<1>3. /\ \A t \in Tables : StillPinned(t)' = StillPinned(t) /\ (DistinctIn(t)' <=> DistinctIn(t))
      /\ \A t \in Tables : Counted(t)' <=> Counted(t)
  BY <1>1 DEF StillPinned, DistinctIn, Counted, StillKept, StillRows
<1>4. ASSUME DistinctIn("messages"), NEW k \in marks'
      PROVE  \E r \in dest["messages"] : k = MarkOf(r)
  <2> DEFINE snap == Snapshot(state, table)
  <2>1. k \in marks \/ \E i \in batch : k = MarkOf(snap[i])
    BY DEF Mark, MarksOf, MarkOf
  <2>2. CASE k \in marks
    BY <1>4, <2>2 DEF StillExact
  <2>3. ASSUME NEW i \in batch, k = MarkOf(snap[i])
        PROVE  \E r \in dest["messages"] : k = MarkOf(r)
    <3>1. PICK d \in dest[table] : Id(d) = Id(snap[i])
      BY <1>1 DEF BatchDone, Stored
    <3>2. d \in StillPinned(table)
      BY <1>2 DEF StillExact
    <3>3. snap[i] \in StillPinned(table)
      BY <1>1, BatchKept DEF BatchRows
    <3>4. d = snap[i]
      BY <1>2, <1>4, <3>1, <3>2, <3>3, KeptRow
    <3> QED
      BY <1>2, <2>3, <3>4
  <2> QED
    BY <2>1, <2>2, <2>3
<1> QED
  BY <1>1, <1>2, <1>3, <1>4 DEF StillExact, Tables, MarkOf

(* As many rows as are kept, and no id twice among them: none was lost to   *)
(* another's id.                                                            *)
LEMMA CountedDistinct ==
  ASSUME Typed, StillExact, NEW t \in Tables,
         Cardinality(dest[t]) >= Cardinality(StillKept(t))
  PROVE  DistinctIn(t)
<1> DEFINE I == {Id(StillRows(t)[i]) : i \in StillKept(t)}
           idOf == [i \in StillKept(t) |-> Id(StillRows(t)[i])]
           of == [d \in dest[t] |-> Id(d)]
<1>1. IsFiniteSet(StillKept(t))
  BY RowsAre
<1>2. idOf \in Surjection(StillKept(t), I)
  BY DEF Surjection
<1>3. /\ IsFiniteSet(I) /\ Cardinality(I) <= Cardinality(StillKept(t))
      /\ Cardinality(I) = Cardinality(StillKept(t)) <=> idOf \in Injection(StillKept(t), I)
  <2> HIDE DEF I, idOf
  <2> QED
    BY <1>1, <1>2, FS_Surjection
<1>4. of \in Injection(dest[t], I)
  <2>1. \A d \in dest[t] : Id(d) \in I
    BY DEF StillExact, StillPinned
  <2>2. \A d, e \in dest[t] : Id(d) = Id(e) => d = e
    BY DEF StillExact
  <2> HIDE DEF I
  <2> QED
    BY <2>1, <2>2 DEF Injection, IsInjective
<1>5. Cardinality(dest[t]) <= Cardinality(I) /\ IsFiniteSet(dest[t])
  <2> HIDE DEF I, of
  <2> QED
    BY <1>3, <1>4, FS_Injection
<1>6. Cardinality(I) = Cardinality(StillKept(t))
  <2> HIDE DEF I
  <2>1. Cardinality(I) \in Nat /\ Cardinality(StillKept(t)) \in Nat /\ Cardinality(dest[t]) \in Nat
    BY <1>1, <1>3, <1>5, FS_CardinalityType
  <2> QED
    BY <1>3, <1>5, <2>1
<1>7. idOf \in Injection(StillKept(t), I)
  BY <1>3, <1>6
<1>8. \A i, j \in StillKept(t) : idOf[i] = idOf[j] => i = j
  <2> HIDE DEF I, idOf
  <2> QED
    BY <1>7 DEF Injection, IsInjective
<1> QED
  BY <1>8 DEF DistinctIn

LEMMA CountExact ==
  ASSUME Typed, Orderly, Still, StillExact, Count
  PROVE  StillExact'
<1>1. UNCHANGED <<source, file, state, dest, marks>> /\ pc = "count" /\ table \in Tables
  BY DEF Count, Typed, TypeOK
<1>2. /\ \A t \in Tables : StillPinned(t)' = StillPinned(t) /\ (DistinctIn(t)' <=> DistinctIn(t))
      /\ \A t \in Tables : Counted(t)' <=> Counted(t)
  BY <1>1 DEF StillPinned, DistinctIn, Counted, StillKept, StillRows
<1>3. ~file.complete
  BY <1>1 DEF Orderly
<1>4. CASE Cardinality(dest[table]) < Expected
  <2>1. pc' = "stopped"
    BY <1>4 DEF Count
  <2> QED
    BY <1>1, <1>2, <1>3, <2>1 DEF StillExact, Tables, MarkOf
<1>5. CASE ~(Cardinality(dest[table]) < Expected)
  <2>1. Expected = Cardinality(StillKept(table)) /\ Snapshot(state, table) = StillRows(table)
    BY <1>1, FirstPinned DEF Expected
  <2>2. Cardinality(dest[table]) >= Cardinality(StillKept(table))
    <3>1. IsFiniteSet(StillKept(table))
      BY <1>1, RowsAre
    <3>2. IsFiniteSet(dest[table])
      <4> DEFINE of == [i \in StillKept(table) |-> StillRows(table)[i]]
      <4>1. of \in Surjection(StillKept(table), StillPinned(table))
        BY DEF Surjection, StillPinned
      <4>2. IsFiniteSet(StillPinned(table))
        BY <3>1, <4>1, FS_Surjection
      <4>3. dest[table] \in SUBSET StillPinned(table)
        BY <1>1 DEF StillExact
      <4> QED
        BY <4>2, <4>3, FS_Subset
    <3>3. Cardinality(dest[table]) \in Nat /\ Cardinality(StillKept(table)) \in Nat
      BY <3>1, <3>2, FS_CardinalityType
    <3> QED
      BY <1>5, <2>1, <3>3
  <2>3. DistinctIn(table)
    BY <1>1, <2>2, CountedDistinct
  <2>4. state.offsets[table] = Len(StillRows(table)) /\ state.offsets[table] = file.offsets[table]
    BY <1>1, <2>1 DEF Orderly, Typed, Session
  <2>5. Counted(table)
    BY <2>3, <2>4 DEF Counted
  <2>6. table = "chunks" => Counted("messages")
    BY <1>1 DEF StillExact
  <2>7. Counted("messages") /\ (pc' = "finish" => Counted("chunks"))
    <3>1. table = "messages" => pc' = "open"
      BY <1>5 DEF Count
    <3> QED
      BY <1>1, <2>5, <2>6, <3>1 DEF Tables
  <2> QED
    BY <1>1, <1>2, <1>3, <2>7 DEF StillExact, Tables, MarkOf
<1> QED
  BY <1>4, <1>5

(* The checkpoint of a still source counts what it counted.                 *)
LEMMA SaveExact ==
  ASSUME Typed, Orderly, Still, StillExact, Save
  PROVE  StillExact'
<1>1. UNCHANGED <<source, table, dest, marks>> /\ pc = "save" /\ pc' = "read" /\ file' = state'
  BY DEF Save
<1>2. \A t \in Tables : StillPinned(t)' = StillPinned(t) /\ (DistinctIn(t)' <=> DistinctIn(t))
  BY <1>1 DEF StillPinned, DistinctIn, StillKept, StillRows
<1>3. ~file'.complete
  BY <1>1 DEF Save, Typed, TypeOK, Checkpoints, Orderly
<1>4. table = "chunks" => Counted("messages")'
  <2> SUFFICES ASSUME table = "chunks" PROVE Counted("messages")'
    OBVIOUS
  <2>1. state'.offsets["messages"] = state.offsets["messages"]
    BY SaveWrites DEF Tables
  <2>2. state.offsets["messages"] = file.offsets["messages"]
    BY <1>1 DEF Typed, Session, Tables
  <2>3. Counted("messages")
    BY <1>1 DEF StillExact
  <2> QED
    BY <1>1, <1>2, <2>1, <2>2, <2>3 DEF Counted, StillRows, Tables
<1> QED
  BY <1>1, <1>2, <1>3, <1>4 DEF StillExact, Tables, MarkOf

LEMMA FinishExact ==
  ASSUME Typed, Orderly, Still, StillExact, Finish
  PROVE  StillExact'
<1>1. UNCHANGED <<source, table, dest, marks>> /\ pc = "finish" /\ pc' = "stopped"
      /\ file' = state' /\ state'.offsets = state.offsets
  BY DEF Finish, Typed, TypeOK, Checkpoints
<1>2. \A t \in Tables : StillPinned(t)' = StillPinned(t) /\ (DistinctIn(t)' <=> DistinctIn(t))
  BY <1>1 DEF StillPinned, DistinctIn, StillKept, StillRows
<1>3. \A t \in Tables : Counted(t) => Counted(t)'
  BY <1>1, <1>2 DEF Counted, StillRows, Typed, Session
<1> QED
  BY <1>1, <1>2, <1>3 DEF StillExact, Tables, MarkOf

LEMMA StillExactStep ==
  ASSUME ResumeInv, Orderly, Still => StillExact, [Next]_vars, Still'
  PROVE  StillExact'
<1>1. Typed /\ BatchDone /\ Still /\ UNCHANGED <<source, version>> /\ StillExact
  BY StillBefore DEF ResumeInv
<1>2. CASE Upsert \/ Mark \/ Count \/ Save \/ Finish
  BY <1>1, <1>2, UpsertExact, MarkExact, CountExact, SaveExact, FinishExact
<1>3. CASE Start \/ Open \/ Read \/ Crash \/ (\E t \in Tables : SourceCommit(t)) \/ UNCHANGED vars
  <2>1. UNCHANGED <<file, dest, marks>>
    BY <1>3 DEF Start, Open, Read, Crash, SourceCommit, vars
  <2>2. /\ \A t \in Tables : StillPinned(t)' = StillPinned(t) /\ (DistinctIn(t)' <=> DistinctIn(t))
        /\ \A t \in Tables : Counted(t)' <=> Counted(t)
    BY <1>1, <2>1 DEF StillPinned, DistinctIn, Counted, StillKept, StillRows
  <2>3. /\ pc' # "stopped" /\ table' = "chunks" => pc # "stopped" /\ table = "chunks"
        /\ pc' = "finish" => pc = "finish"
    BY <1>3 DEF Start, Open, Read, Crash, SourceCommit, vars
  <2> QED
    BY <1>1, <2>1, <2>2, <2>3 DEF StillExact, Tables, MarkOf
<1> QED
  BY <1>2, <1>3 DEF Next, Run

LEMMA ExactStart == Init => ExactInv
<1> SUFFICES ASSUME Init PROVE ExactInv
  OBVIOUS
<1>1. ResumeInv
  BY InitTyped DEF Init, ResumeInv, BatchDone, Resumable, NoState
<1>2. StillExact
  BY DEF Init, StillExact, NoState
<1> QED
  BY <1>1, <1>2, OrderlyInit DEF ExactInv

LEMMA ExactStep == ExactInv /\ [Next]_vars => ExactInv'
<1> SUFFICES ASSUME ExactInv, [Next]_vars PROVE ExactInv'
  OBVIOUS
<1>1. ResumeInv /\ Typed /\ Orderly /\ (Still => StillExact)
  BY DEF ExactInv, ResumeInv
<1>2. ResumeInv' /\ Orderly'
  BY <1>1, NextResumes, OrderlyStep
<1>3. Still' => StillExact'
  BY <1>1, StillExactStep
<1> QED
  BY <1>2, <1>3 DEF ExactInv

(* A migration of a store that nobody wrote is complete only if no two of   *)
(* its rows share a readable id.                                            *)
THEOREM MigrationFindsCollisions == Spec => []CollisionsFound
<1>1. ExactInv => CollisionsFound
  BY DEF ExactInv, CollisionsFound, StillExact, Counted, Distinct, DistinctIn, StillKept,
         StillRows, Tables
<1> QED
  BY <1>1, ExactStart, ExactStep, PTL DEF Spec

LEMMA ExactCopies == ExactInv => CopyExact
<1> SUFFICES ASSUME ExactInv, file.complete, Still
             PROVE  /\ \A t \in Tables : dest[t] = Pinned(file, t)
                    /\ marks = {[turn |-> r.turn, edition |-> r.edition] : r \in dest["messages"]}
  BY DEF CopyExact
<1>1. Typed /\ Resumable /\ Orderly /\ StillExact
  BY DEF ExactInv, ResumeInv
<1>2. \A t \in Tables : Counted(t)
  BY <1>1 DEF StillExact, Tables
<1>3. \A t \in Tables : file.versions[t] = 1
  <2> SUFFICES ASSUME NEW t \in Tables PROVE file.versions[t] = 1
    OBVIOUS
  <2>1. file.versions[t] \in Nat /\ file.versions[t] <= 1 /\ file.versions[t] # 0
    BY <1>1 DEF Orderly, Still, Typed, TypeOK, Checkpoints
  <2> QED
    BY <2>1
<1>4. \A t \in Tables : Snapshot(file, t) = StillRows(t) /\ Pinned(file, t) = StillPinned(t)
  BY <1>3 DEF Snapshot, StillRows, Pinned, StillPinned, StillKept, Tables
<1>5. ASSUME NEW t \in Tables, NEW r \in StillPinned(t)
      PROVE  r \in dest[t] /\ (t = "messages" => IsMarked(r))
  <2>1. PICK i \in StillKept(t) : r = StillRows(t)[i]
    BY DEF StillPinned
  <2>2. i \in 1..Len(StillRows(t)) /\ Len(StillRows(t)) \in Nat /\ i \in DOMAIN StillRows(t)
    BY <1>1, RowsAre
  <2>3. file.offsets[t] = Len(StillRows(t)) /\ DistinctIn(t)
    BY <1>2 DEF Counted
  <2>4. Copied(file, t, file.offsets[t])
    BY <1>1, <2>2, <2>3 DEF Resumable
  <2>5. Stored(file, t, r) /\ (t = "messages" => IsMarked(r))
    BY <1>4, <2>1, <2>2, <2>3, <2>4 DEF Copied
  <2>6. PICK d \in dest[t] : Id(d) = Id(r) /\ d \in StillPinned(t)
    BY <1>4, <2>5 DEF Stored
  <2> QED
    BY <2>3, <2>5, <2>6, KeptRow
<1>6. ASSUME NEW t \in Tables PROVE dest[t] = StillPinned(t)
  <2>1. dest[t] \subseteq StillPinned(t)
    BY <1>1 DEF StillExact
  <2>2. StillPinned(t) \subseteq dest[t]
    BY <1>5
  <2> QED
    BY <2>1, <2>2
<1>7. "messages" \in Tables
  BY DEF Tables
<1>8. ASSUME NEW r \in dest["messages"] PROVE MarkOf(r) \in marks
  <2>1. PICK k \in marks : k.turn = r.turn
    BY <1>5, <1>6, <1>7 DEF IsMarked
  <2>2. PICK q \in dest["messages"] : k = MarkOf(q)
    BY <1>1, <1>2, <1>7 DEF StillExact, Counted
  <2>3. q.part = 0 /\ r.part = 0
    BY <1>1, <1>6, <1>7, RowsAre DEF StillPinned
  <2>4. Id(q) = Id(r)
    BY <2>1, <2>2, <2>3 DEF Id, MarkOf
  <2>5. q = r
    BY <1>2, <1>6, <1>7, <2>4, KeptRow DEF Counted
  <2> QED
    BY <2>2, <2>5
<1>9. \A k \in marks : \E r \in dest["messages"] : k = MarkOf(r)
  BY <1>1, <1>2, <1>7 DEF StillExact, Counted
<1>10. marks = {[turn |-> r.turn, edition |-> r.edition] : r \in dest["messages"]}
  BY <1>8, <1>9 DEF MarkOf
<1> QED
  BY <1>4, <1>6, <1>10

(* When the migration of such a store is complete, the tables hold exactly  *)
(* the rows of v4 that are kept, each message marked with its edition.      *)
THEOREM MigrationCopies == Spec => []CopyExact
  BY ExactCopies, ExactStart, ExactStep, PTL DEF Spec
=============================================================================
