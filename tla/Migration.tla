------------------------------- MODULE Migration -------------------------------
(***************************************************************************)
(* pi-memoryd --migrate-from: the copy of the v4 tables into the generic   *)
(* ones (lance.go, MigrateFrom), one process at a time, killed or failing  *)
(* anywhere and run again by the operator.                                 *)
(*                                                                         *)
(* A failed call ends the process, so it is a crash before or after the    *)
(* call had its effect.  A merge-insert keeps one row per id; of two rows  *)
(* of a batch with one id either may be the one that stays.                *)
(***************************************************************************)
EXTENDS Naturals, Sequences, FiniteSets

CONSTANTS
  Turns,       \* <host>/<harness>/<session>/<turn>, the readable ids
  Editions,    \* contents of a row: its hash or vector
  Sources,     \* v4 stores: [Tables -> the snapshots of the table, by version]
  BatchSize,
  MaxFaults    \* bound on crashes and failures

Tables == {"messages", "chunks"}

(* A v4 row.  A twin row has the path <session>/message/<turn>, the others  *)
(* <session>/<turn>; the part of a message is 0.                            *)
Rows == [turn : Turns, part : Nat, twin : BOOLEAN, edition : Editions]

ASSUME MigrationAssumption ==
  /\ BatchSize \in Nat \ {0} /\ MaxFaults \in Nat
  /\ \A s \in Sources : s \in [Tables -> Seq(Seq(Rows))] /\ \A t \in Tables : s[t] # <<>>

ASSUME PartAssumption ==
  \A s \in Sources : \A v \in DOMAIN s["messages"] : \A i \in DOMAIN s["messages"][v] :
     s["messages"][v][i].part = 0

VARIABLES
  source,    \* the v4 store, one of Sources
  version,   \* [Tables -> Nat]: the latest version of a source table
  file,      \* the checkpoint file: genericMigrationState
  state,     \* the same in the memory of the process
  shadowed,  \* turns whose plain row is left out
  table,     \* the table at hand
  pc,        \* what the process does next
  batch,     \* row numbers of the converted batch
  dest,      \* [Tables -> SUBSET Rows]: the generic tables, in v4's terms
  marks,     \* the dedup state: [turn, edition] records
  faults

vars == <<source, version, file, state, shadowed, table, pc, batch, dest, marks, faults>>

NoState == [versions |-> [t \in Tables |-> 0], offsets |-> [t \in Tables |-> 0],
            complete |-> FALSE]

(* v4MessageID and chunkID: both forms of a turn's path have one id.        *)
Id(r) == <<r.turn, r.part>>

(* The rows of a table at the version that a checkpoint pins.               *)
Snapshot(c, t) == source[t][c.versions[t]]

Twins(rows)      == {rows[i].turn : i \in {j \in DOMAIN rows : rows[j].twin}}
Shadows(S, r)    == ~r.twin /\ r.turn \in S
Kept(S, rows)    == {i \in DOMAIN rows : ~Shadows(S, rows[i])}

(* What a merge-insert of the rows B leaves, in place of those with an id   *)
(* of theirs.                                                               *)
Merges(B)     == {new \in SUBSET B :
                    /\ \A r \in B : \E n \in new : Id(n) = Id(r)
                    /\ \A n, m \in new : Id(n) = Id(m) => n = m}
Others(D, B)  == {d \in D : \A r \in B : Id(r) # Id(d)}

(* What the process has read of its source: the rows of the batch.          *)
BatchRows == {Snapshot(state, table)[i] : i \in batch}

-----------------------------------------------------------------------------
(* A run of the program loads the checkpoint; a complete one ends it.       *)
Start ==
  /\ pc = "stopped" /\ ~file.complete
  /\ state' = file
  /\ shadowed' = {}
  /\ table' = "messages"
  /\ pc' = "open"
  /\ UNCHANGED <<source, version, file, batch, dest, marks, faults>>

(* Mutant: a resumed run pins the latest version again.                     *)
OpenLatest ==
  /\ pc = "open"
  /\ state' = [state EXCEPT !.versions[table] = version[table]]
  /\ shadowed' = IF table = "messages" THEN Twins(source[table][state'.versions[table]])
                                       ELSE shadowed
  /\ pc' = "read"
  /\ UNCHANGED <<source, version, file, table, batch, dest, marks, faults>>

(* The version of a table is pinned unless a checkpoint did; the paths of   *)
(* the messages say which turns v4 holds in both forms.                     *)
Open ==
  /\ pc = "open"
  /\ state' = [state EXCEPT !.versions[table] = IF @ = 0 THEN version[table] ELSE @]
  /\ shadowed' = IF table = "messages" THEN Twins(source[table][state'.versions[table]])
                                       ELSE shadowed
  /\ pc' = "read"
  /\ UNCHANGED <<source, version, file, table, batch, dest, marks, faults>>

(* Mutant: only messages are left out for their twin.                       *)
NextChunksWhole ==
  {i \in DOMAIN Snapshot(state, table) :
     /\ state.offsets[table] < i /\ i <= state.offsets[table] + BatchSize
     /\ table = "messages" => i \in Kept(shadowed, Snapshot(state, table))}

(* The numbers of the next rows, less the shadowed ones.                    *)
NextRows ==
  {i \in Kept(shadowed, Snapshot(state, table)) :
     state.offsets[table] < i /\ i <= state.offsets[table] + BatchSize}

(* A batch is read and converted (v4Items); none is left at the end.        *)
Read ==
  /\ pc = "read"
  /\ pc' = IF state.offsets[table] < Len(Snapshot(state, table)) THEN "upsert" ELSE "count"
  /\ batch' = NextRows
  /\ UNCHANGED <<source, version, file, state, shadowed, table, dest, marks, faults>>

(* upsertTable: one merge-insert by id.                                    *)
Upsert ==
  /\ pc = "upsert"
  /\ \E new \in Merges(BatchRows) :
       dest' = [dest EXCEPT ![table] = Others(@, BatchRows) \cup new]
  /\ pc' = IF table = "messages" THEN "mark" ELSE "save"
  /\ UNCHANGED <<source, version, file, state, shadowed, table, batch, marks, faults>>

(* The marks of the messages of a batch: of two of one turn the later.      *)
MarksOf(rows, B) ==
  {[turn |-> rows[i].turn, edition |-> rows[i].edition] :
     i \in {j \in B : \A k \in B : rows[k].turn = rows[j].turn => k <= j}}

(* markMessages: dedupState.Mark of each message, and one Save.             *)
Mark ==
  LET rows == Snapshot(state, table)
  IN /\ pc = "mark"
     /\ marks' = {k \in marks : \A i \in batch : rows[i].turn # k.turn}
                   \cup MarksOf(rows, batch)
     /\ pc' = "save"
     /\ UNCHANGED <<source, version, file, state, shadowed, table, batch, dest, faults>>

Least(a, b) == IF a < b THEN a ELSE b

(* Mutant: the offset grows by the rows copied, not by the rows read.       *)
SaveCopied ==
  /\ pc = "save"
  /\ state' = [state EXCEPT !.offsets[table] = @ + Cardinality(batch)]
  /\ file' = state'
  /\ pc' = "read"
  /\ UNCHANGED <<source, version, shadowed, table, batch, dest, marks, faults>>

(* saveMigrationState renames a synced file, so the checkpoint is replaced  *)
(* or kept.                                                                 *)
Save ==
  /\ pc = "save"
  /\ state' = [state EXCEPT !.offsets[table] =
                 Least(@ + BatchSize, Len(Snapshot(state, table)))]
  /\ file' = state'
  /\ pc' = "read"
  /\ UNCHANGED <<source, version, shadowed, table, batch, dest, marks, faults>>

Expected == Cardinality(Kept(shadowed, Snapshot(state, table)))

(* Mutant: the counts are only logged.                                      *)
CountOnly ==
  /\ pc = "count"
  /\ table' = "chunks"
  /\ pc' = IF table = "messages" THEN "open" ELSE "finish"
  /\ UNCHANGED <<source, version, file, state, shadowed, batch, dest, marks, faults>>

(* Fewer rows than the source keeps: two had one id, and the run fails.     *)
Count ==
  /\ pc = "count"
  /\ IF Cardinality(dest[table]) < Expected
       THEN pc' = "stopped" /\ UNCHANGED table
       ELSE /\ table' = "chunks"
            /\ pc' = IF table = "messages" THEN "open" ELSE "finish"
  /\ UNCHANGED <<source, version, file, state, shadowed, batch, dest, marks, faults>>

Finish ==
  /\ pc = "finish"
  /\ state' = [state EXCEPT !.complete = TRUE]
  /\ file' = state'
  /\ pc' = "stopped"
  /\ UNCHANGED <<source, version, shadowed, table, batch, dest, marks, faults>>

(* A failed call or the end of the process: memory is gone.                 *)
Crash ==
  /\ pc # "stopped" /\ faults < MaxFaults
  /\ pc' = "stopped"
  /\ faults' = faults + 1
  /\ UNCHANGED <<source, version, file, state, shadowed, table, batch, dest, marks>>

(* A daemon of the previous release still writes the source.                *)
SourceCommit(t) ==
  /\ version[t] < Len(source[t])
  /\ version' = [version EXCEPT ![t] = @ + 1]
  /\ UNCHANGED <<source, file, state, shadowed, table, pc, batch, dest, marks, faults>>

Init ==
  /\ source \in Sources
  /\ version = [t \in Tables |-> 1]
  /\ file = NoState /\ state = NoState
  /\ shadowed = {} /\ table = "messages" /\ pc = "stopped" /\ batch = {}
  /\ dest = [t \in Tables |-> {}] /\ marks = {} /\ faults = 0

Run  == Start \/ Open \/ Read \/ Upsert \/ Mark \/ Save \/ Count \/ Finish
Next == Run \/ Crash \/ \E t \in Tables : SourceCommit(t)

(* The process runs, and the operator runs an interrupted migration again.  *)
Spec == Init /\ [][Next]_vars /\ WF_vars(Run)

-----------------------------------------------------------------------------
Checkpoints ==
  [versions : [Tables -> Nat], offsets : [Tables -> Nat], complete : BOOLEAN]

(* Every variable is of its type, what is pinned exists, and no offset is   *)
(* past the end of its table.                                               *)
TypeOK ==
  /\ source \in Sources
  /\ version \in [Tables -> Nat] /\ \A t \in Tables : version[t] \in DOMAIN source[t]
  /\ file \in Checkpoints /\ state \in Checkpoints
  /\ shadowed \subseteq Turns /\ table \in Tables
  /\ pc \in {"stopped", "open", "read", "upsert", "mark", "save", "count", "finish"}
  /\ batch \subseteq Nat
  /\ dest \in [Tables -> SUBSET Rows]
  /\ marks \subseteq [turn : Turns, edition : Editions]
  /\ faults \in Nat
  /\ \A c \in {file, state} : \A t \in Tables :
       \/ c.versions[t] = 0 /\ c.offsets[t] = 0
       \/ c.versions[t] \in DOMAIN source[t] /\ c.offsets[t] <= Len(Snapshot(c, t))

(* The rows a checkpoint pins and keeps.                                    *)
Pinned(c, t) ==
  IF c.versions[t] = 0 \/ c.versions["messages"] = 0 THEN {}
  ELSE {Snapshot(c, t)[i] : i \in Kept(Twins(Snapshot(c, "messages")), Snapshot(c, t))}

Stored(c, t, r) == \E d \in dest[t] : Id(d) = Id(r) /\ d \in Pinned(c, t)
IsMarked(r)     == \E k \in marks : k.turn = r.turn

(* A run that resumes skips the rows below the saved offset; each of them   *)
(* that is to be kept is in the destination, and its message is marked.     *)
Copied(c, t, n) ==
  \A i \in DOMAIN Snapshot(c, t) :
    LET r == Snapshot(c, t)[i]
    IN i <= n /\ r \in Pinned(c, t) =>
         Stored(c, t, r) /\ (t = "messages" => IsMarked(r))

(* What the checkpoint says is copied can be skipped for good, through any  *)
(* crash and with a source that is still written.                           *)
Resumable ==
  \A t \in Tables : file.offsets[t] > 0 => Copied(file, t, file.offsets[t])

Still == \A t \in Tables : version[t] = 1

(* The ids of the rows that a still source keeps are distinct.              *)
Distinct ==
  \A t \in Tables :
    LET rows == source[t][1]
        kept == Kept(Twins(source["messages"][1]), rows)
    IN \A i, j \in kept : Id(rows[i]) = Id(rows[j]) => i = j

(* A migration of a store that nobody wrote is complete only if no two of   *)
(* its rows share a readable id.                                            *)
CollisionsFound == file.complete /\ Still => Distinct

(* When the migration of such a store is complete, the tables hold the rows *)
(* of v4 and nothing else: a turn in both forms has the message and chunks  *)
(* of its /message/ form, and is marked with the edition it is stored with, *)
(* so that a scan of the raw objects finds what it derives.                 *)
CopyExact ==
  file.complete /\ Still =>
    /\ \A t \in Tables : dest[t] = Pinned(file, t)
    /\ marks = {[turn |-> r.turn, edition |-> r.edition] : r \in dest["messages"]}

(* A migration of a store that nobody writes and whose ids are distinct is  *)
(* completed, however often it is interrupted.                              *)
Completes == ([]Still /\ Distinct) => <>file.complete
================================================================================
