# tireless-ledger in TLA+

This directory models `pi-memoryd`, the daemon of the tireless ledger, and the
programs around it. It says which part of the code each module stands for, what
TLC checks on small instances, and what TLAPS proves for every instance.

Paths below are relative to the repository root; `raw_ingest.go:484` names a
line of it.

## 1. The system

    agent sessions ── tireless-upload ──▶ raw bucket (R2) ◀── tireless-telegram + push
                                               │ list / get
    tireless sync ──▶ HTTP /v1/memory/ingest   ▼
                               │        raw ingestor (scan, process)
                               └──▶ flush (writeMu) ◀──┘
                                     │            │
                               Lance tables   dedup_state.json, raw_registry.json
                                     ▲
    tireless recall ──▶ query / container / sessions / ready ── runSearch ── querySlots
                                     │
                              disk range cache ──▶ R2

| Component | State it keeps | Operations | Interacts with |
|---|---|---|---|
| Raw uploader (`cmd/tireless-upload`) | none; compares local sizes with the listing | walk, list, put | writes the raw bucket |
| Telegram exporter (`cmd/tireless-telegram`) | cursor file, month files | export a chat, save the cursor | files it appends to are uploaded |
| Raw ingestor (`raw_ingest.go`) | registry in memory and on disk | list, due, process, record | reads the bucket; parses; calls flush |
| Parsers, units (`raw_parser.go`, `telegram.go`, `context.go`) | none | object → records → units | called by process and the container walk |
| Write path (`main.go` flush, `dedupState`) | `writeMu`, dedup in memory and on disk | upsert, mark, save | called by the ingestor and HTTP ingest |
| Lance store (`lance.go`) | tables `messages`, `chunks` in R2 | merge-insert by id, search, delete host, migrate, maintain | FFI, through the disk cache |
| Native search slots (`main.go` runSearch) | channel `querySlots`, orphaned goroutines | acquire, search, time out, release | every query handler and `/ready` |
| Search and ranking (`main.go`, `lance.go`) | none | rank in one read, fetch in another, collapse | on the rows a search finds |
| Container walk (`raw_ingest.go`, `main.go`) | none | page through raw objects, fall back to the table | registry, bucket, tables |
| Disk range cache (`docker/lancedb-go-disk-cache.rs`) | block files, LRU entries, in-flight map | read, fill, share, evict, invalidate, warm | wraps the object store of Lance |
| Migration (`lance.go` MigrateFrom) | checkpoint file | copy batches, mark, checkpoint | v4 tables → generic tables, dedup |
| Host deletion (`main.go`, `RemoveHost`) | none | delete rows, marks, entries | all durable state |
| Sync client (`cmd/tireless/index`) | cursor file | scan, post batches, save | HTTP ingest |
| Recall CLI, store fan-out (`cmd/tireless`) | none | ask several daemons, interleave | HTTP query |

What is hard here: two state files and two tables that no transaction covers; a
scanner and concurrent HTTP handlers that share them; crashes and failed saves
between any two of those writes; a bucket that changes between listing and
download; a native search that cannot be cancelled behind a caller that can; a
block cache shared by concurrent readers, mutations and sometimes a second
process. `PROJECT.json` lists each of these as a hazard, at its line, with the
properties that cover it.

What makes each part correct:

- *Raw ingestor and write path*: an object is recorded only when its rows are
  stored, through any failure or crash; a dedup mark never runs ahead of the
  rows; concurrent flushes do not mix; everything is eventually recorded.
- *Search slots*: native searches are bounded; no slot is lost or idle while
  somebody waits; every request ends; abandoned goroutines end.
- *Disk cache*: under its cap; a read never misses a block it was promised;
  every read ends; a mutation leaves no cached block behind.
- *Migration, host deletion*: a crash at any step is repaired by running again;
  no other host loses anything.
- *Container walk*: pages pass no record, and a walk ends.
- *Recall*: what is shown is what was ranked; a message appears once, at its best
  rank; stores take turns.
- *Splitting*: windows cover a text, fit the embedder and overlap as configured.
- *Clients*: everything written locally reaches the daemon or the bucket, at
  least once.

## 2. The project

| Module | Stands for | Proofs |
|---|---|---|
| `IngestData`, `RawIngest`, `RawIngestInv`, `ObjectIndex` | ingestion, write path; what ingestion promises | `RawIngestProofs` |
| `QuerySlots` | admission of native searches | `QueriesProofs` |
| `Recall` | the two reads of a search, collapsing, the fan-out | `QueriesProofs` |
| `BlockCache` | reads, shared fetches, eviction, deletion | `CacheProofs` |
| `CacheSpace` | the cache directory, its books and cap | `CacheProofs` |
| `Migration` | the copy of a v4 store | `MaintenanceProofs` |
| `HostDeletion` | `--delete-host` between runs of the daemon | `MaintenanceProofs` |
| `CursorSync` | the sync client | `ClientsProofs` |
| `TelegramExport` | the exporter and the uploader behind it | `ClientsProofs` |
| `ContainerWalk` | paging through a container | `ContainerWalkProofs` |
| `SessionUnits` | parsers and contextual units | `SessionTextProofs` |
| `ChunkSplit` | the windows of a unit | `SessionTextProofs` |
| `Ordered` | sorting, for `Recall` and `SessionUnits` | `OrderedProofs` |

`RawIngest` composes the scanner, the HTTP handlers and the store, and is shown to
implement `ObjectIndex`; `TelegramExport` composes the exporter, its files and the
uploader; `Recall` a client and several stores; `HostDeletion` the tool and the
daemon.

Where the machines of an area share no state, one run checks them: the MC module
(`MCQueries`, `MCMaintenance`, `MCClients`, `MCSessionText`) EXTENDS
them and a variable, fixed at the start, says which one a behaviour
follows while the others rest in an initial state. So the state space is a sum
and not a product, every property is asked of its own machine,
and fairness is stated of the machine that goes on. (A resting machine satisfies
its properties, liveness included, since it begins in a state that owes nothing.)

Planned once and dropped: `RawRegistry`, the retry delays on a clock. What a delay
can do to the rest is in `RawIngest` already (an object may be held back, and let
out, at any time); what is left is arithmetic on one entry.

## 3. Raw ingestion

`IngestData` holds the constants. An upload of an object is a version number
(the ETag and Size the registry compares); a message's unit (header and body
whose hash is the dedup value) is an edition number, 0 when there is none.
`Derived[p][o][v][m]` is what parser `p` finds of message `m` in version `v` of
object `o`, so a choice of the constants is a choice of parsers and contents.
`OwnerAssumption`: an id starts with host, source and session of its object, so
one object derives it. `ChunkCount[e]` is the number of windows of an edition.

`RawIngest` is the daemon's write side. Its variables are the durable ones
(`bucket`, `messages`, `chunks`, `dedupFile`, `registryFile`), their copies in
memory (`dedup`, `registry`), the lock, and where each writer is.

| Action | Code |
|---|---|
| `Upload`, `CoolDown` | the bucket's writers, the clock (external) |
| `List`, `Skip`, `Take`, `EndScan`, `NextObject` | `Run`, `scan`, `rawS3Store.List`, `rawRegistry.Due` |
| `BeginProcess`, `Fetch`, `NextBatch`, `FinishProcess`, `ProcessFails`, `RecordFailure` | `process`, `indexGroups`, `rawRegistry.set` and `Save` |
| `Receive` | `server.ingest` up to its flush |
| `Lock`, `UpsertChunks`, `UpsertMessages`, `MarkAndSave` | `server.flush`, `cgoLanceStore.Upsert`, `dedupState.Mark` and `Save` |
| `Restart` | a crash anywhere, then `main` |

A step is what another goroutine, a failure or a crash can separate. A failed
call may have had its effect (an upsert that errors after committing); a failed
save leaves the new state in memory and the old file, since both files are
replaced by rename. `cooling` holds the objects whose `UpdatedAt` is too recent
for a retry or for rewriting a growing file; the clock may let one out at any
time, and a restart may happen late enough to let out any. The scan may visit
the listed objects in any order (the code's is by key).

Left out: the text of records, embedding and tokenizing (only that they may
fail), `Attempts` and the length of a delay, the container ids of an entry. `MaxFaults` bounds failures and crashes together,
`MaxVersion` uploads of an object, `MaxParser` parser upgrades.

Properties:

- `RecordedComplete`: while the registry file says indexed, the rows of the
  listed version, or of the newer upload fetched in its place, are stored.
- `MarksBehindRows`: a unit that dedup would skip, now or after a restart, was
  written to both tables, or a newer edition after it.
- `SettledAgree`: without a flush in flight or cut short, rows, chunks, mark and
  saved mark of a message agree; posts and the scanner run concurrently.
- `ImplementsObjectIndex`: under the mapping of rows and registry file, every
  step is a step of `ObjectIndex` or invisible.
- `Converges`: when uploads, failures and crashes stop, everything is recorded
  at its latest upload.

| Run | Instance | Shows |
|---|---|---|
| `RawIngestObjects` | 2 objects, 3 messages, 2 uploads, 2 parsers, 3 editions, 2 faults | recording, marks and refinement with several objects per scan |
| `RawIngestLive` | 1 object, the scanner and 2 handlers, 1 fault | the write lock and convergence |
| `RawIngestTitleBack` | editions 1, 2, 1 | violated: see findings |

One fault suffices to separate any two writes, and two let the save of a
failure fail too: only then does one save of the registry take back two objects
at once, which is why `ObjectIndex` forgets sets of objects. `BatchSize = 1` makes every object of two messages take two flushes; two
chunks per unit let a shorter unit leave a chunk behind. Growing objects make
one message change and another appear with the second upload.

Fairness: the scanner's goroutine and every started flush take their steps; the
lock reaches the scanner in the end (`sync.Mutex` hands over to a waiter that
starves), which is strong fairness of `Lock(Scanner)`; the clock passes. Uploads,
posts, failures and crashes are never forced.

### What is proved

`RawIngestProofs`: `TypeCorrect`, and frame lemmas that say which actions change
which variables; then the invariant `IInv` of `RawIngestInv` is
inductive, hence `RecordingSafe` (`RecordedComplete`) and `MarksSafe`
(`MarksBehindRows`), for every bucket, parser, batch size and number of
handlers, failures and crashes. Neither property is inductive. An object is
recorded right because each unit the scan skipped was once written
(`MarksBehindRows`) and was not overtaken since: no row is newer than the
fetched unit (`RowsOfJob`), which holds at every fetch because no row is newer
than anything a later fetch can derive (`RowsCurrent`); what is in the batch is
the fetched unit (`UnitsOfJob`), and how much of it is stored follows the flush
(`FlushProgress`). It stays right because rows change only while the registry
*file* says processing (`ProcessingSaved`), which is why a failed save of
"processing" must end the job; `EntriesSaved` says when memory and file differ.

`SettledSafe` (`SettledAgree`) follows from a part of it (`FlushInv`): who flushes
holds the lock, what its batch has written so far is in the tables, a unit of the
batch is of a message that is unsettled from the first write on, and posts and the
scanner share no message.
`IngestImplementsIndex` is the refinement, step by step (`RefinesStep`): an upsert
of rows is a store of `ObjectIndex` since the file then says processing, a save of
the registry records what is complete and forgets what earlier saves lost, and
every other step is invisible.

Hypotheses, beside the typing of the constants: `EditionsAdvance` (a unit that
was replaced never comes back; `SettledSafe` does without) and `IdsDisjoint` (no
client posts the id of a raw record, which README.md:99 allows a host to overwrite). The run
`RawIngestTitleBack` shows that the first is needed.

Only model-checked: `Converges` (liveness is out of the prover's reach).

## 4. Queries

### Native search slots

`QuerySlots` models `runSearch` (`main.go:859`): a caller takes a place in the
buffered channel or blocks behind it, starts a goroutine that runs the native
search, and waits for its outcome or its context. The goroutine gives the place
back only when the native call returns. A Go channel serves blocked senders in
order, so a receive hands the place to the head of `queue`. The select picks
either ready case, so an expired caller may still take a free slot.

`NativeBounded`: at most `MaxConcurrent` native searches run, abandoned ones
included. `NoSlotIdle`: somebody blocks only while every place is held by a
goroutine that has yet to release it. `EveryCallEnds`, `OrphansEnd`: liveness,
when goroutines run, deadlines of `Timed` calls pass and native searches outside
`Hung` return.

The run `Queries` has four calls on two slots (two running, two blocked),
three of which may expire and one of which hangs, so one slot is lost for good
and the other must serve all.
Without a deadline a call waits for a slot as long as some slot comes back,
which is why `Hung` has fewer calls than there are slots and is within `Timed`.

`QueriesProofs` proves `SearchesBounded` and `SlotsUsed` for any finite set
of calls and any capacity. The invariant counts: the places taken are the
goroutines that run or have returned without releasing, a call blocks in the
queue at most once, and a queue means the channel is full.

### Recall

`Recall` is `tireless query` against several stores. A store ranks the rows of one
version of its table and keeps the best row of each message (`Rank`), fetches
the kept rows' columns by row id in a second read (`Fetch`), and starts over with
a read that does both if a row is gone (`OnePass`). The daemon inserts, rewrites
and deletes rows between the reads (`Write`, `Delete`). A store's hits are collapsed
by message, body and chat moment (`CollapseChunkHits`); the client waits for all
stores, takes their hits in turns (`InterleaveHits`), and exits with an error only
if all failed (`Emit`). How a row scores is left open: any ranking of any rows.

- `RankedText`: what a store answers is a row as it was ranked, text and score,
  whatever was written between the reads.
- `BestOfEach`: answers are in rank order, repeat no message, body or chat moment,
  and leave a message's best row out only for a better hit that is alike, or
  behind `Limit` messages.
- `FairMerge`: no store is a turn ahead of one that has more, nothing is left out
  while there is room, and a store that fails takes only its own hits away.

What is assumed of the library: a row id is an address, given once, and a row
that is rewritten gets a new one. The run has two stores, one of six rows at
most, a limit of two and one write, which is what it takes to rewrite, move or
remove a kept row; two failures are both stores. Deadlock is no issue once
the client ended, which the MC module states as a stutter.

As the code has it, `FirstOfMessages` counts messages before bodies and moments are
compared, so fewer than `Limit` hits may be shown although more would match.
`-limit 0` prints nothing.

`QueriesProofs` proves all three for all stores, tables, limits, rankings, writes
and failures (`SpecRankedText`, `SpecBestOfEach`, `SpecFairMerge`). The address of a
kept hit is at most the last one given, so a new row never takes it, and a row
found there is the one ranked. The loops of `CollapseChunkHits` and `InterleaveHits`
are written by what they compute, so that the prover can reason about them: the hits
taken are the one set that contains a hit exactly if none alike and fewer than
`Limit` of the set rank before it (`Taken`; that it exists and is unique is proved
along the ranks), and a merge sorts the turns, pairs of a rank and a store.
`InOrder` of `Ordered` sorts any finite set by the relation given; `OrderedProofs`
shows that it lists every element once and rises, and that nothing else does.
`BestOfEach` then follows from what `FirstOfMessages` leaves out, and `FairMerge`
by counting the turns of a store that come before a given one.

## 5. Disk range cache

Two modules split the cache at the state lock of `DiskRangeCache`.

`BlockCache` follows the reads of one immutable file. A range looks up the
metadata and then its blocks one by one (`ReadMeta`, `ReadBlock`), takes the
in-flight map's lock and either joins the fetches that cover all it misses or
starts one of its own (`Join`), takes results as they come (`OwnDone`,
`WaitDone`) and fetches directly what is still missing (`After`, `DirectDone`).
`Request`, `FetchMeta` and `PutBlock` are the steps of `fetch_span`; they move
only while some reader polls the shared future, and a reader polls only the
first fetch of its list. How far a footer read is widened is any block between
the start of the file and the first missing one. `Drop` is what `try_join_all`
does to the siblings of a range that failed. `Evict` may take any block, the
metadata included, at any time: which one, and when, is `CacheSpace`'s business.
A block is a number and its contents do not matter, since a file never changes.

- `NoHoles`: a read that answers has its metadata and every block, whatever was
  evicted, shared, widened, cut or failed meanwhile.
- `OwnersRemain`: unless ranges are dropped, every in-flight entry has an owner
  that will remove it.
- `EveryReadEnds`: under weak fairness of the readers and of polled fetches (the
  runtime runs every task that is woken; the store's client has timeouts).

| Run | Instance | Shows |
|---|---|---|
| `BlockCache` | 2 independent readers that may also copy warm-up chunks, ranges past the end, deletion | `NoHoles`, `OwnersRemain` |
| `BlockCacheLive` | 2 ranges of one call, 2 failed requests | `EveryReadEnds` with dropped ranges and fetches left behind |
| `Queries` | the directory: 1 process, 4 files, caps 2, 4 and 6 | `BooksExact`, `CapHolds` |
| `CacheShared` | the directory with two processes of cap 4 | `CapHolds` violated: see findings |

Two blocks let a fetch cover a part of what another reader needs, and let one
block be evicted while the other is read; two failures are what it takes to fail
a range (its shared fetch and its own). A third reader adds no new way to share:
with dropped ranges two readers already wait for two fetches of others. `Flights`
bounds the fetches that somebody refers to at a time; another one waits (`Free`). The
readers are symmetric in `BlockCache`; `BlockCacheLive` does without symmetry.

`JoinsConcurrent`, also stated there, does not hold of two ranges of one call: a
range dropped while it owns a shared fetch leaves its in-flight entries for the
life of the process (only the owner removes them, after its await), so readers
join a fetch that is over. A failed one turns sharing off for its blocks, a
finished one holds its bytes outside the cap; `EveryReadEnds` holds all the same.

`CacheSpace` is the directory and the books, each a listing: the size and the last
access of every file it names, accesses counted by their order only. An operation
runs under its process's lock, so it is one action, including its evictions: what
repeated `evict_oldest` takes is an entry without which, and without all older ones,
there would still be too much (`Evicted`). The accesses of `dir` are the
modification times a restart loads. A write may be refused or fail after making
room; `PowerLoss` may shorten a file, as nothing is synced. Reads take over files
they find without an entry, which only another process can have written.

- `BooksExact`, `CapHolds`: with one process, entries are the files on disk, the
  total is their sum, and it is within the cap, over restarts with any cap.
  Files of one, two and three units beside caps of two, four and six are refused,
  fit alone, or evict one or several; the state space is finite, so nothing
  bounds the run.
- With two processes `CapHolds` fails (`CacheShared`).

`CacheProofs` proves `ReadsWhole` (`NoHoles`) for all readers, calls, ranges and
numbers of fetches, failures and evictions. The inductive invariant (`ReadInv`) says
that a reader holds blocks only if it knows the metadata, that its direct fetch
reaches over all that it still misses, and that its answer is whole: the
first-to-last span of the missing blocks is what makes a read whole,
whatever the shared fetches before it brought. `FetchesOwned` (`OwnersRemain`) has
the hypothesis that no two ranges are of one call, since a dropped owner leaves its
entries behind.

`BooksKept` and `CapKept` (`BooksExact`, `CapHolds`) hold for all files, lengths, caps,
operations and restarts, if there is one process; `CacheShared` shows that they
need that. With the types, the two are inductive together: room is made by the
books, so the cap holds of the files only while the books are exact. Sums of
bytes are cardinalities of sets of (file, byte), so that removing files is a
difference of sets, and what an eviction leaves fits because the oldest entry it
keeps is within the bound together with all younger ones (`EvictFits`).
`EveryReadEnds` is model-checked.

## 6. Maintenance of a store

### Migration

`Migration` is `pi-memoryd --migrate-from`. A v4 row is the turn of its path,
whether the path has the `message` segment (a twin), the number of its chunk (0
for a message) and an edition for its contents; `Id` is what `v4MessageID` and
`chunkID` make of it, the same for both forms of a turn. `Sources` is a set of
v4 stores, each a sequence of snapshots per table, and `SourceCommit` moves a
table to its next one.

A run goes through `Start` (load the checkpoint), `Open` (pin a version unless
the checkpoint did, find the twins), `Read`, `Upsert`, `Mark`, `Save` for each
batch, `Count` (the collision check) per table and `Finish`. Every error ends
the process, so `Crash` stands for all of them, before or after the call had its
effect; the operator runs the program again. The checkpoint and the dedup state
are replaced by rename. Taken from how the code uses the Lance library: a
merge-insert by id leaves one row per id, of two in one batch either, and a
pinned version is read in one order.

- `Resumable`: a row below an offset on disk is in the destination (or another
  kept row of its id and version), and its message is marked, also when the
  source moved between the interrupted run and its resumption.
- `CollisionsFound`, `CopyExact`: a migration of a store nobody writes completes
  only if ids are distinct, and then the tables hold exactly the kept rows, the
  chunks of the form whose message was kept, and the marks of what is stored.
- `Completes`: it does complete, however often it is interrupted.

The run `Maintenance` takes eight stores: both forms of a turn in either order and in
different batches, one form only, an empty store, a twin that appears while the
copy runs, rows that move, and colliding messages and chunks. Two rows per batch
and three or four per table give full, cut and wholly skipped batches; three
crashes separate any two writes of one batch and interrupt the repetition too.
Fairness is that a started program goes on and that the operator repeats an
interrupted one; crashes are finitely many.

The destination starts empty and the source of `CopyExact` stands still, as the
rollout of README.md:326 has it (stop the daemon, migrate, start the new image).
With rows already there, or a daemon running in between, the collision check
counts rows that are not its own, and older rows may overwrite newer ones.

`MaintenanceProofs` proves `MigrationTyped` and `MigrationResumes` for every store,
batch size and number of failures. Offsets mean something only beside the version
they count in, so the invariant says: a process agrees with the file wherever the
file has a positive offset (`Session`); chunks are counted only after the version
of the messages was pinned, since it decides what is left out (`MessagesFirst`);
and the batch at hand is stored once its marks or checkpoint are next
(`BatchDone`). An upsert may replace a stored row, but by one of the same id and
version (`UpsertStores`).

`MigrationFindsCollisions` (`CollisionsFound`) and `MigrationCopies` (`CopyExact`) are
proved for every store too. Their invariant adds to the one above what holds of
a store that nobody wrote (`StillExact`): the tables hold kept rows only and one
per id; with distinct ids a mark is that of a message stored; and past the count
of a table, its offset is at the end and its ids are distinct. That is the step
that counts: a table within the kept rows, one per id, that has as many rows as
were kept is all of them, so no two share an id. `PartAssumption` is the one
assumption about ids: a message is its turn's part 0, since `v4MessageID` has no
place for a part. `Completes` stays with TLC.

### Host deletion

`HostDeletion` is `pi-memoryd --delete-host`, a process of its own, and the daemon
before and after it. An item is a raw object with its unit or a posted record;
its host is the head of its id. The tool deletes the rows of one table, then of
the other in the order of a map (`DeleteRows`), the marks (`DeleteMarks`), and the
registry's entries (`LoadEntries`, `DeleteEntries`), and may die before any of them
(`Die`); the operator runs it again, or forgets to, and starts the daemon. The
daemon is `RawIngest`'s, reduced to what a deletion can disturb: rows in two
tables, marks and entries in memory and in files, each write apart from the next.

- `NoGhosts`: of a host whose last deletion ended, whatever is marked or recorded
  as indexed has its rows, in files and in memory, or it would never be written
  again. A deletion that died is excepted until it is repeated (`unfinished`).
- `OthersKept` (an action property): a deletion takes nothing from another host,
  a host whose name begins with the deleted one's included.
- `HostsRefilled`: what is still in the bucket is stored and recorded again.

In the run `Maintenance` two hosts, one name a prefix of the other, have an object each
and one a posted record; two deletions, three crashes, failures or stops. That
separates any two writes of the tool, of the daemon between two attempts, and of
the second attempt. Fairness: the daemon is started again and its scanner and
handlers go on; a tool that was started ends or dies.

`Beside = FALSE` has the operator stop the daemon, as deletions need it: with
`Beside = TRUE` both `OthersKept` and `NoGhosts` fail, since the tool saves a dedup
state it loaded before and the daemon one it kept. Nothing in the code or in
README.md keeps the two apart. `MaintenanceProofs` proves `SpecNoGhosts` and
`SpecOthersKept` for any hosts, items, failures and deletions from `Beside = FALSE`.
The invariant adds that tool and daemon are never both alive, that what each
holds in memory is what the files had when it loaded them, or more, and
that an item about to be marked has its rows unless its host's deletion is
unfinished. `HostsRefilled` is model-checked.

## 7. Clients

### Sync

`CursorSync` is `tireless sync` and `tireless watch` against agents that append
to their session files, and a daemon reduced to the set of turns it has stored
(a turn posted twice has the same id). A file is a number of whole lines and
perhaps a part of one; a line opens a session, holds a turn, or neither. The
project in a cursor goes the way of its session and is left out.

| Action | Code |
|---|---|
| `Write`, `WritePart`, `Replace` | the agents (external) |
| `Start` | `main`, `LoadCursor` |
| `List`, `Again`, `Exit` | `Once`'s listing; `Watch`'s loop; the end of `sync` |
| `Stat`, `Read` | `scanFile` up to its `Seek`; `ReadTurns` and the limit |
| `Post`, `Refused`, `PostFails` | one call of `Client.Ingest` |
| `Finish`, `Save` | `Cursor.Set`; `CursorDB.Save`, a rename |
| `Crash` | a crash or a failed save, which both end the process |

- `CursorBehind`: the lines before a cursor, in memory or on disk, are stored in
  their sessions, and its session is that of the line before it.
- `RightSession`: a stored turn lies in the session that its file tells.
- `EveryTurnPosted`: if passes without a limit keep coming, every turn of a file
  whose texts can be embedded is stored, whatever other files hold.

| Run | Instance | Shows |
|---|---|---|
| `Clients` | a codex file with a repeated and a refused turn; a file of two sessions, then replaced; limits 0 and 1; 2 faults | all of the above |
| `CursorSyncDryRun` | the same, with dry runs | violated: see findings |

Batches of one turn let a call fail between the turns of a file. The second file
goes on in a second session, so a cursor may lie behind either opening line, and
its replacement opens a third. A limit of one is below, at and above what a file
has left. Two faults lose a post's answer and the repetition's save.

Fairness is that a process takes its steps and that somebody starts it again:
without it nothing is promised. `EveryTurnPosted` is conditional on passes
without a limit, because a limit smaller than a file leaves its cursor where it
was, so that each limited run posts the same prefix.

`ClientsProofs` proves all three invariants, for every set of files, contents,
limits, batch size and number of faults, from `DryRuns = {FALSE}` and the named
assumption on contents: a line lies in the session last opened, a replaced file
opens one before its first turn, and codex gives a key in one session only (a
repeated key is dropped, so the first stands for all). The inductive invariant
says that no cursor is ahead of its file unless the file was replaced since, and
then only by one that is still shorter; that memory and disk agree except while a
save is due; and that what was read of the file at hand starts where its cursor
is, in its session, with everything up to `upto` posted once the batches are
through. Without the part on replaced files a cursor could come to mean something
in a file it was not taken in. `EveryTurnPosted` is model-checked only.

Not modelled: single records that the daemon rejects inside an accepted request
(the cursor passes them), a second process on the same cursor file, and a
replaced file that outgrows its cursor unseen (listed as a hazard).

### Telegram export and upload

`TelegramExport` follows the messages of one chat into the bucket. Telethon lists
them in order (`Send` is the chat). The exporter appends lines to a buffered file
per month and remembers the last message (`ReadMessage`), whose number it saves at
the end of a run (`Close`, `SaveState`). Lines reach a file when the buffer
overflows, anywhere in a line (`Flush`), at a month's end, or at the last close.
A process may be killed anywhere (`Kill`), a flush may meet a full disk
(`CloseFails`, `Dropped`), and what it leaves may be half a line, to which the next
run appends (`Glued`). A flood wait ends a pass early and starts it again. The
uploader walks the months and puts each file whose size differs (`Put`), which may
fail before or after the object is stored.

- `PassedIsWritten`: a message before the saved cursor has a line of its own.
- `EveryMessageArchived`: once crashes and failures end, every message is in the
  archive, also one whose file was uploaded half-written.

Two losses the code has are excepted by name (`lost`). If a file cannot be closed
because the disk is full when the month changes, its object counts as closed,
the close in `finally` succeeds, and the cursor is saved past the lines that
never reached the disk. And a line that is appended to half a line is no JSON, so
that `parseTelegramJSONL` skips it. Neither is contradicted by a document, beyond
"exports every dialog" (README.md:316). Taken as it is from agents and exporters: files
only grow, so that equal sizes mean equal contents; the uploader compares nothing
else (`cmd/tireless-upload/main.go:114`).

The instance has four messages of two months, one of another type, and two
mishaps: a kill that leaves half a line and the kill or full disk of the run that
appends to it. Fairness: timers start both programs again and again, and a run
takes its steps.

`ClientsProofs` proves `SpecPassedIsWritten` for every chat, calendar, set of
exported messages and number of mishaps. The invariant says where a message is
that was read and not yet passed: written, lost, or still in the buffer; the
buffer belongs to the month of the open file and is empty once the file is
closed, so that saving the cursor passes nothing that is not in a file.
`EveryMessageArchived` is model-checked.

Not modelled: other dialogs (a failure ends a run, so the dialogs
behind the one that always fails are never exported), `--since` and the allow list.

## 8. Container walk

`ContainerWalk` is one client that pages through one container, beside the
bucket's writers and the scanner. A record is its place in the order of
(timestamp, id), so a cursor is a number. A container is what each upload of
each object holds of it, which keys carry its id, and rows that only HTTP posts
made. Of the ingestor it keeps what a walk can see: an entry's status and the
containers it names (`ContainerIDs` survive "processing"), and the rows.

| Action | Code |
|---|---|
| `StartWalk`, `Ask`, what `Answer` does to the client | the client (external): the next page starts after the last record of this one, an empty page ends the walk |
| `ReadRegistry`, `ListBucket` | `containerKeys`, `keysForContainer` |
| `GetObject` | one download and parse of `containerRecordWalk` |
| `AnswerRaw`, `FallBack`, `AnswerTable` | the end of `containerRecordWalk`; `server.containerWalk`, first for state, then messages, then the table |
| `RequestFails` | any of its errors; the client asks again |
| `BeginProcess`, `Flush`, `FinishProcess`, `ProcessFails`, `Restart`, `Upload` | `RawIngest`'s, reduced |

- `NothingPassed`: no cursor passes a record that was there when the walk began,
  whichever source answered each page.
- `WalkComplete`, `WalkEnds`: a walk that ends has given all of them; every walk
  ends, once requests are served and no longer fail.

Two differences surfaced and are excepted by name. An object that is being
indexed again drops out of a walk whose other objects are indexed
(`keysForContainer` takes only status "indexed", and one key is enough to skip
the listing), so its records can be passed: `leftOut` records those objects. And
a walk of todos that finds no more in raw goes on with *messages*
(`main.go:662`), though README.md:318 says that it "reads those exact records from raw":
`OnlyAsked` says so and does not hold; a client that walks on then gets messages.

The instance has a session that grows, with a key that carries its id or not,
two months of a chat, two files with interleaved records, and a posted row;
pages of one and two records split every object; a second parser makes
everything due in the middle of a walk, and one fault is one failed page, job or
restart. A walk asks for messages or for todos; `include=state`, which reads the
table's rows of every kind (`RowKinds`), is written down but not in the instance.

`ContainerWalkProofs` proves `WalkPassesNothing` and `WalkGivesAll` (the first two
properties) for all containers, objects, page sizes, parsers and faults, with one
hypothesis: `UploadsGrow`, that logs are appended to, without which a record known at
the start may be gone. The invariant says that what the client knew at the start
is in the bucket, and in the table unless a key leads to it (`KnownKept`); that a
request has found, or has yet to fetch, each record it owes (`Searched`). Neither property is inductive without that part, which says how
far the serving of a page has come; a page of the first records after
the cursor then leaves none out. `WalkTyped` needs no hypothesis. That a walk
for messages asks for nothing else is the one constraint on what may be asked
(`containerIncludeKinds`, `main.go:777`). `WalkEnds` is model-checked.

## 9. Parsers and units

`SessionUnits` takes an object line by line. The parsers are loops that keep
nothing between two calls, so parsing an object again after it grew is letting
the loop go on; `index` and `walk` are the states of two such loops, the one that
includes state records (`parseRawSessionForIndex`) and the one that does not.
A line is a record of the fields that are used. `ReadPi` (also omp and grokbot),
`ReadClaude`, `ReadCodex`, `ReadGrok` and `ReadTelegram` are the branches of
`parseSessionJSONL` and `parseTelegramJSONL`, `Parsed` what the parse returns,
`Units` what `chunkGroups` makes of it. A unit is its title, project, text and
the records it quotes; equal units have equal hashes. `IsNew` is what is taken
from agents and exporters: entries have ids of their own, except that codex
repeats turns and telegram edits messages.

- `WalkAgrees`: a walk reads exactly the messages that are indexed, in the same
  order and under the same ids, on which its cursors depend.
- `IdsUnique`: two records of an object never share an id.
- `GrowthKeeps`: a longer object yields the records of the shorter one, but for
  edits and sessions found to be skipped.
- `UnitsStable`: a new line changes an earlier unit of a session in its title
  only, and in a chat only where it quotes the message added, edited or removed.
- `TitleShown`: units show the title told last, if the object names one session
  (`OneSession`: a second one leaves the first without later titles), with two
  exceptions that the code has: a title that waits for its project (a Pi session line without `cwd`
  keeps every later title waiting for good), and a Claude title that comes back
  (A, B, A leaves B: each text is read once, `raw_parser.go:147`).

The run `SessionText` takes five lines of an alphabet per format, chosen in `MCSessionUnits` so
that titles come before and after the project is known, ids are missing, turns
repeat, subagents answer, chat messages arrive late, are edited and emptied, and
replies are near and far. Five lines fill a lead-in of two with a reply and an
edit beyond it. `CHECK_DEADLOCK FALSE`: an object may stop growing.

`SessionTextProofs` proves all five for every format and any number of lines
(`SpecWalkAgrees`, `SpecIdsUnique`, `SpecTitleShown`, `SpecGrowthKeeps`,
`SpecUnitsStable`), and that every state is typed (`SpecUnitsTypeOK`). They assume of
lines what `UnitsAssumption` says: a format has its own types of lines, the parts of
one line that are of a type have different ids, and a chat message has a chat
and a number.

- *One line.* What `Read` does to a loop is stated once for all session formats,
  as three stages: it may learn its project and let go of the titles that waited
  (`Moved`), it adds what the parts of the line report (`Parted`), and then at most
  one record or one waiting title (`Adds`). A chat's line adds or edits one message
  (`ChatLine`).
- *Walk.* `Lockstep`: the loop of the walk is where that of the index is, has
  collected the messages of its records (`Spoken`), and for codex has seen the same
  turns. Sorting and skipping depend on messages only, so the parses agree.
- *Ids.* Uniqueness of the records alone is not inductive: titles that wait will
  become records, and ids come from lines that are gone. `Distinct` takes records
  and waiting titles together, and `Sourced` says where each id is from: a line
  with that id or number, or for codex's turns and Claude's titles a key in
  `seen`. A new line has neither, by `IsNew`.
- *Titles.* `TitleInv` says which title the state shows: the last that waits, or
  else that of the last title record, all of which are of the one session. Told
  titles are shown or were told before (`Returns`).
- *Growth.* In a session the records before a line are a prefix of those after
  it (`SessionBegins`), so an answer finds the same prompt (`QuestionStays`). In a
  chat the two differ at one message w (`ChatChanges`). What a message quotes
  is stated by the places where messages were read and not by their rank
  (`ChatQuotes`); if neither lead-in contains w then they are equal
  (`QuotedSame`): without w at most as many messages come between, and if w
  had come between within the last `LeadLines` it would itself be quoted
  (`LeadsStill`).

### Windows

`ChunkSplit` is `splitTokenChunks` with the budget it is called with. Each step is one
token count asked of the tokenizer, or what is done with it: the whole text, the
rest, the binary search for the longest window (`GrowWindow`), the cut at a line
feed (`Cut`), and the binary search for the overlap (`Shrink`, `Advance`). A text is
its length, its line feeds and the tokenizer's count of every substring.

- `CoversText`: windows start behind one another, leave no gap, and reach the end.
- `WindowsFit`: with a tokenizer that counts more for more text, header, line feed
  and window are within the setting, up to the floor of twice the overlap and
  windows of one rune, and no window is shorter than it need be.
- `OverlapExact`: a window repeats the longest tail that the search may repeat.

`SessionText` checks all texts of up to five runes of none to two tokens with at
most one line feed, three settings, with and without a header, also with a
tokenizer that counts more for less text. `SessionTextProofs` proves all three for
every text, tokenizer, setting, header and overlap (`SpecCoversText`,
`SpecWindowsFit`, `SpecOverlapExact`). The invariant says what the searches know: below `lo` and
at `best` the text fits, above `hi` it does not; from `over` on the tail is
within the overlap, before `lo` it is not. A setting at or below the overlap
may panic in `make` (`CapacityPanics`), which the code does not guard against and the properties
leave room for: no window is returned then.

## 10. Findings

- *Recorded without its rows* (`RawIngestTitleBack`): a session title changes
  and is changed back. The flush of the second unit writes rows and fails, or
  the daemon dies before the mark is saved. The next upload derives the first
  unit, which the dedup state still marks, so it is skipped and the object is
  recorded while the tables hold the second. README.md:320 says "only after
  every derived row is persisted".
- *A dry run is not only parsing* (`CursorSyncDryRun`): `cmd/tireless/main.go:108`
  calls `-dry-run` "parse only", but the client counts unposted turns as accepted
  and the cursor is moved and saved, so the next sync skips them.

- *The cap is per process* (`CacheShared`): CHANGELOG.md:229 says that Compose
  enables "a 2 GiB hard cap". Each process evicts by its own books
  (`lancedb-go-disk-cache.rs:266`), and `scripts/optimize-lance.sh:18` starts a
  container on the daemon's volume, so the directory may hold more than the cap.

One more difference needs no model: README.md:316 says that an edit to empty
text drops the message, while `Upsert` only merges rows by id, so rows a later
version of an object no longer derives stay (`lance.go:404`).

## 11. Not modelled

- The retry clock (`raw_ingest.go:171`): a delay that doubles per attempt, which an
  object that keeps growing resets; arithmetic on one entry and the time.
- A session file that is replaced and outgrows its cursor between two scans
  (`cmd/tireless/index/sync.go:63`): agents append.
- Of the HTTP API: validation of requests, the sessions listing, stats. Of the CLI:
  container and sessions commands, the stores file, printing.
- Of the container walk: host and source filters, cursors without an id. Of the
  disk cache: whole-object reads, the contents of files, copies and renames.
- SQL of filters and scores; index maintenance (`Optimize`, vector indexes) and
  `scripts/optimize-lance.sh`, which are calls into the Lance library.
- JSON, time stamps and the wording of records; the in-memory test store, the
  build without CGO, the legacy Python server, deployment and build files.

Out of the prover's reach, and so with TLC only, is liveness: `Converges`,
`EveryCallEnds`, `OrphansEnd`, `EveryReadEnds`, `Completes`, `HostsRefilled`,
`EveryTurnPosted`, `EveryMessageArchived`, `WalkEnds`. Every invariant and every
action property that a passing run checks is also proved, under the hypotheses
named in its section. That the loops of the parsers and of collapsing compute what
`SessionUnits` and `Recall` say of them is the translation of the code and is not
proved; `Read` stands for one turn of its loop, and `Taken` and `InOrder` for what a
loop or a sort has collected at its end.
