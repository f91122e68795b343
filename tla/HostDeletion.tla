----------------------------- MODULE HostDeletion -----------------------------
(***************************************************************************)
(* pi-memoryd --delete-host (main.go; DeleteHost of lance.go, RemoveHost   *)
(* and Save of the dedup state and of the raw registry): a process of its  *)
(* own that shares two tables and two files with the daemon, may die       *)
(* anywhere and is run again by the operator.                              *)
(*                                                                         *)
(* An item is a raw object with its one unit, or a record that a client    *)
(* posts; its id and its object key start with its host and a slash.       *)
(* Editions, batches and the retry clock are RawIngest's: here an entry is *)
(* "due" while it is processing or has failed.                             *)
(***************************************************************************)
EXTENDS Naturals, FiniteSets

CONSTANTS
  Hosts,
  Objects,       \* raw objects; they stay in the bucket
  Posts,         \* records posted over HTTP
  HostOf(_),     \* the host of an item: metadata.host, and the head of its id
  Extends(_, _), \* a host's name begins with that of another (mutants only)
  Beside,        \* whether a deletion is run while the daemon runs
  MaxDeletions, MaxFailures    \* bounds on deletions; on crashes and failures

Items  == Objects \cup Posts
BothTables == {"chunks", "messages"}

ASSUME DeletionAssumption ==
  /\ Hosts # {} /\ Objects \cap Posts = {} /\ \A i \in Items : HostOf(i) \in Hosts
  /\ Beside \in BOOLEAN /\ MaxDeletions \in Nat /\ MaxFailures \in Nat

VARIABLES
  rows,        \* [BothTables -> SUBSET Items]: items with rows in a table
  marksFile,   \* dedup_state.json: items whose hash is recorded
  entriesFile, \* raw_registry.json: [Objects -> Entry]
  daemon,      \* "down", "loaded" (the dedup state only) or "up"
  seen,        \* dedupState.Files of the daemon
  entries,     \* rawRegistry.Objects of the daemon
  step,        \* [Items -> Steps]: where the daemon is with an item
  tool,        \* the process of a deletion
  unfinished,  \* hosts whose last deletion has begun and not ended
  deletions, failures

files == <<rows, marksFile, entriesFile>>
mem   == <<seen, entries, step>>
ops   == <<tool, unfinished, deletions>>
deletionVars == <<files, daemon, mem, ops, failures>>

Entry   == {"none", "due", "indexed"}
Steps   == {"idle", "chunks", "messages", "mark", "record"}
Writing == {"messages", "mark"}     \* holds writeMu
NoItems == [i \in Items |-> "idle"]
NoTool  == [pc |-> "none", host |-> CHOOSE h \in Hosts : TRUE, seen |-> {}, left |-> {},
            entries |-> [o \in Objects |-> "none"]]

Goto(i, s) == step' = [step EXCEPT ![i] = s]
AddRow(t, i) == rows' = [rows EXCEPT ![t] = @ \cup {i}]
HasRows(i) == \A t \in BothTables : i \in rows[t]

(* An item is written next, or is done if its hash is recorded.            *)
AfterSeen(i) == IF i \in seen THEN (IF i \in Objects THEN "record" ELSE "idle") ELSE "chunks"

-----------------------------------------------------------------------------
(* The daemon.                                                             *)

(* main loads the dedup state, newRawIngestor the registry.                *)
Boot ==
  /\ daemon = "down" /\ (Beside \/ tool.pc = "none")
  /\ daemon' = "loaded" /\ seen' = marksFile
  /\ UNCHANGED <<files, entries, step, ops, failures>>

OpenRegistry ==
  /\ daemon = "loaded"
  /\ daemon' = "up" /\ entries' = entriesFile
  /\ UNCHANGED <<files, seen, step, ops, failures>>

(* process: "processing" is recorded before the object is read.            *)
Begin(o) ==
  /\ daemon = "up" /\ entries[o] # "indexed" /\ \A p \in Objects : step[p] = "idle"
  /\ entries' = [entries EXCEPT ![o] = "due"]
  /\ \/ entriesFile' = entries' /\ Goto(o, AfterSeen(o)) /\ UNCHANGED failures
     \/ failures < MaxFailures /\ failures' = failures + 1 /\ UNCHANGED <<entriesFile, step>>
  /\ UNCHANGED <<rows, marksFile, daemon, seen, ops>>

(* A client posts a record that is not in the dedup state.                 *)
Post(p) ==
  /\ daemon = "up" /\ step[p] = "idle" /\ p \notin seen
  /\ Goto(p, "chunks")
  /\ UNCHANGED <<files, daemon, seen, entries, ops, failures>>

(* flush, under writeMu.                                                   *)
WriteChunks(i) ==
  /\ step[i] = "chunks" /\ \A j \in Items : step[j] \notin Writing
  /\ AddRow("chunks", i) /\ Goto(i, "messages")
  /\ UNCHANGED <<marksFile, entriesFile, daemon, seen, entries, ops, failures>>

WriteMessage(i) ==
  /\ step[i] = "messages"
  /\ AddRow("messages", i) /\ Goto(i, "mark")
  /\ UNCHANGED <<marksFile, entriesFile, daemon, seen, entries, ops, failures>>

(* Mark and Save; a failed Save leaves the mark in memory.                 *)
MarkStored(i) ==
  /\ step[i] = "mark"
  /\ seen' = seen \cup {i}
  /\ \/ /\ marksFile' = seen' /\ UNCHANGED failures
        /\ Goto(i, IF i \in Objects THEN "record" ELSE "idle")
     \/ /\ failures < MaxFailures /\ failures' = failures + 1
        /\ Goto(i, "idle") /\ UNCHANGED marksFile
  /\ UNCHANGED <<rows, entriesFile, daemon, entries, ops>>

(* "indexed", or "failed" if that cannot be saved.                         *)
Record(o) ==
  /\ step[o] = "record" /\ Goto(o, "idle")
  /\ \/ entries' = [entries EXCEPT ![o] = "indexed"] /\ entriesFile' = entries' /\ UNCHANGED failures
     \/ /\ failures < MaxFailures /\ failures' = failures + 1
        /\ UNCHANGED entries /\ entriesFile' \in {entries, entriesFile}
  /\ UNCHANGED <<rows, marksFile, daemon, seen, ops>>

(* A request fails, maybe after it had its effect; the entry stays due.    *)
Fail(i) ==
  /\ step[i] \in {"chunks", "messages", "mark"} /\ failures < MaxFailures /\ failures' = failures + 1
  /\ Goto(i, "idle")
  /\ UNCHANGED <<files, daemon, seen, entries, ops>>

(* The daemon stops or crashes, in the middle of anything.                 *)
Stop ==
  /\ daemon # "down" /\ failures < MaxFailures /\ failures' = failures + 1
  /\ daemon' = "down" /\ seen' = {} /\ entries' = [o \in Objects |-> "none"]
  /\ step' = NoItems
  /\ UNCHANGED <<files, ops>>

-----------------------------------------------------------------------------
(* The deletion.                                                           *)

(* Mutant: the prefix has no slash.                                        *)
OfHostOpen(h) == {i \in Items : HostOf(i) = h \/ Extends(HostOf(i), h)}

(* RemoveHost: the keys that start with the host and a slash.              *)
OfHost(h) == {i \in Items : HostOf(i) = h}

(* main has loaded the dedup state before it deletes.                      *)
Delete(h) ==
  /\ tool.pc = "none" /\ deletions < MaxDeletions /\ deletions' = deletions + 1
  /\ Beside \/ daemon = "down"
  /\ tool' = [NoTool EXCEPT !.pc = "rows", !.host = h, !.seen = marksFile, !.left = BothTables]
  /\ unfinished' = unfinished \cup {h}
  /\ UNCHANGED <<files, daemon, mem, failures>>

(* DeleteHost: the tables in the order of a map.                           *)
DeleteRows(t) ==
  /\ tool.pc = "rows" /\ t \in tool.left
  /\ rows' = [rows EXCEPT ![t] = {i \in @ : HostOf(i) # tool.host}]
  /\ tool' = [tool EXCEPT !.left = @ \ {t}, !.pc = IF tool.left = {t} THEN "marks" ELSE "rows"]
  /\ UNCHANGED <<marksFile, entriesFile, daemon, mem, unfinished, deletions, failures>>

(* Mutant: the marks are removed in memory only.                           *)
DeleteMarksUnsaved ==
  /\ tool.pc = "marks"
  /\ tool' = [tool EXCEPT !.pc = "load"]
  /\ UNCHANGED <<files, daemon, mem, unfinished, deletions, failures>>

DeleteMarks ==
  /\ tool.pc = "marks"
  /\ marksFile' = tool.seen \ OfHost(tool.host)
  /\ tool' = [tool EXCEPT !.pc = "load"]
  /\ UNCHANGED <<rows, entriesFile, daemon, mem, unfinished, deletions, failures>>

LoadEntries ==
  /\ tool.pc = "load"
  /\ tool' = [tool EXCEPT !.pc = "entries", !.entries = entriesFile]
  /\ UNCHANGED <<files, daemon, mem, unfinished, deletions, failures>>

(* Mutant: the registry is left alone if no mark was removed.              *)
DeleteEntriesIfMarked ==
  /\ tool.pc = "entries"
  /\ entriesFile' = IF tool.seen \cap OfHost(tool.host) = {} THEN entriesFile
                    ELSE [o \in Objects |-> IF o \in OfHost(tool.host) THEN "none" ELSE tool.entries[o]]
  /\ tool' = NoTool /\ unfinished' = unfinished \ {tool.host}
  /\ UNCHANGED <<rows, marksFile, daemon, mem, deletions, failures>>

(* Saved only if something was removed: the same if not.                   *)
DeleteEntries ==
  /\ tool.pc = "entries"
  /\ \/ /\ \A o \in Objects \cap OfHost(tool.host) : tool.entries[o] = "none"
        /\ UNCHANGED entriesFile
     \/ /\ \E o \in Objects \cap OfHost(tool.host) : tool.entries[o] # "none"
        /\ entriesFile' = [o \in Objects |-> IF o \in OfHost(tool.host) THEN "none"
                                             ELSE tool.entries[o]]
  /\ tool' = NoTool /\ unfinished' = unfinished \ {tool.host}
  /\ UNCHANGED <<rows, marksFile, daemon, mem, deletions, failures>>

(* A call of the tool fails, or it is killed: it exits.                    *)
Die ==
  /\ tool.pc # "none" /\ failures < MaxFailures /\ failures' = failures + 1
  /\ tool' = NoTool
  /\ UNCHANGED <<files, daemon, mem, unfinished, deletions>>

-----------------------------------------------------------------------------
DeletionInit ==
  /\ rows = [t \in BothTables |-> {}] /\ marksFile = {} /\ entriesFile = [o \in Objects |-> "none"]
  /\ daemon = "down" /\ seen = {} /\ entries = [o \in Objects |-> "none"] /\ step = NoItems
  /\ tool = NoTool /\ unfinished = {} /\ deletions = 0 /\ failures = 0

Write(i) == WriteChunks(i) \/ WriteMessage(i) \/ MarkStored(i)
Scan(o)  == Begin(o) \/ Write(o) \/ Record(o)
ToolStep == (\E t \in BothTables : DeleteRows(t)) \/ DeleteMarks \/ LoadEntries \/ DeleteEntries

DeletionNext ==
  \/ Boot \/ OpenRegistry \/ Stop
  \/ \E o \in Objects : Scan(o)
  \/ \E p \in Posts : Post(p) \/ Write(p)
  \/ \E i \in Items : Fail(i)
  \/ \E h \in Hosts : Delete(h)
  \/ ToolStep \/ Die

DeletionSpec == DeletionInit /\ [][DeletionNext]_deletionVars

(* The daemon is restarted, its scanner and handlers go on, and a deletion *)
(* that was started runs to its end or dies.                               *)
DeletionFairSpec ==
  /\ DeletionSpec
  /\ WF_deletionVars(Boot) /\ WF_deletionVars(OpenRegistry) /\ WF_deletionVars(ToolStep)
  /\ \A o \in Objects : WF_deletionVars(Scan(o))
  /\ \A p \in Posts : WF_deletionVars(Write(p))

-----------------------------------------------------------------------------
DeletionTypeOK ==
  /\ rows \in [BothTables -> SUBSET Items] /\ marksFile \in SUBSET Items
  /\ entriesFile \in [Objects -> Entry]
  /\ daemon \in {"down", "loaded", "up"}
  /\ seen \in SUBSET Items /\ entries \in [Objects -> Entry] /\ step \in [Items -> Steps]
  /\ tool \in [pc : {"none", "rows", "marks", "load", "entries"}, host : Hosts,
               seen : SUBSET Items, left : SUBSET BothTables, entries : [Objects -> Entry]]
  /\ unfinished \in SUBSET Hosts /\ deletions \in 0..MaxDeletions /\ failures \in 0..MaxFailures

(***************************************************************************)
(* Deletions that ended leave no ghosts, however many died before, and     *)
(* whatever a daemon did that ran in between with half of the host gone:   *)
(* a record that is marked, or an object that is recorded as indexed, has  *)
(* its rows, or the daemon would never write them again.                   *)
(***************************************************************************)
NoGhosts ==
  \A i \in Items : HostOf(i) \notin unfinished =>
    /\ i \in marksFile \cup seen => HasRows(i)
    /\ i \in Objects /\ "indexed" \in {entriesFile[i], entries[i]} => HasRows(i)

(***************************************************************************)
(* "delete every row and dedup entry for exactly this host" (main.go:415): *)
(* no step takes a row, a mark or a record of an object from a host that   *)
(* is not being deleted, also not one whose name begins with the other's.  *)
(***************************************************************************)
OthersKept ==
  [][\A i \in Items : tool.pc = "none" \/ HostOf(i) # tool.host =>
       /\ \A t \in BothTables : i \in rows[t] => i \in rows'[t]
       /\ i \in marksFile => i \in marksFile'
       /\ i \in Objects /\ entriesFile[i] = "indexed" => entriesFile'[i] = "indexed"]_deletionVars

(***************************************************************************)
(* An ended deletion never keeps a host's objects out: those that are      *)
(* still in the bucket end up stored and recorded again.                   *)
(***************************************************************************)
Refilled ==
  \A o \in Objects :
    <>[](HostOf(o) \in unfinished \/ (HasRows(o) /\ entriesFile[o] = "indexed"))
=============================================================================
