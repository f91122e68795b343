---------------------------- MODULE ContainerWalk ----------------------------
(***************************************************************************)
(* GET /v1/memory/container: a client pages through one container while    *)
(* the scanner indexes its objects again.  A page comes from the raw       *)
(* objects the registry names, else from those whose key carries the       *)
(* container's id, else from the messages table (main.go:628,              *)
(* raw_ingest.go:309, raw_ingest.go:347).                                  *)
(*                                                                         *)
(* A record is its place in the order of (timestamp, id), so a cursor is a *)
(* number too.  Indexing is RawIngest's, told as far as the walk sees it:  *)
(* the status of an entry, the containers it names and the rows.           *)
(***************************************************************************)
EXTENDS Naturals, Sequences, FiniteSets, FiniteSetsExt

CONSTANTS
  Objects, NoObject,
  LastRecord,   \* records are 1 .. LastRecord
  KindOf,       \* [Records -> Kinds]
  Kinds,
  Message,      \* the kind of plain messages
  Asks,         \* sets of kinds that a client may ask for (containerIncludeKinds)
  Limits,       \* page sizes
  Containers,   \* the containers walked: what their objects hold, see Container
  MaxParser, MaxFaults

Records == 1 .. LastRecord

(* holds: the container's records in each upload of an object; carriers:    *)
(* the objects whose key carries its id; posted: rows that no object holds. *)
Container == [holds : [Objects -> Seq(SUBSET Records)], carriers : SUBSET Objects,
              posted : SUBSET Records]

ASSUME WalkAssumption ==
  /\ LastRecord \in Nat /\ NoObject \notin Objects
  /\ Message \in Kinds /\ KindOf \in [Records -> Kinds]
  /\ Asks \subseteq SUBSET Kinds \ {{}} /\ Limits \subseteq Nat \ {0}
  /\ \A kinds \in Asks : Message \in kinds => kinds = {Message}
  /\ Containers \subseteq Container
  /\ MaxParser \in Nat /\ MaxFaults \in Nat

(* Logs are appended to: an upload holds what the one before it held.  Not  *)
(* an ASSUME: the results that need it say so.                              *)
UploadsGrow ==
  \A c \in Containers, o \in Objects : \A v, w \in DOMAIN c.holds[o] :
     v <= w => c.holds[o][v] \subseteq c.holds[o][w]

VARIABLES
  container,  \* the one walked
  upload,     \* [Objects -> Nat]: the upload in the bucket, 0 for none
  entry,      \* [Objects -> Entry]: the registry
  parser,     \* rawParserVersion
  job,        \* what the scanner has at hand: an object and the upload it fetched
  rows,       \* the container's rows in the messages table
  client,     \* what the client asks for, where it is and what it was given
  request,    \* the request that is served
  faults

bucket  == <<container, upload, parser>>
index   == <<entry, job, rows>>
vars    == <<bucket, index, client, request, faults>>

Entry   == [status : {"none", "processing", "indexed", "failed"}, upload : Nat, parser : Nat,
            names : BOOLEAN]
NoEntry == [status |-> "none", upload |-> 0, parser |-> 0, names |-> FALSE]
NoJob   == [object |-> NoObject, upload |-> 0]

(* kinds: those of the walk at hand, first the state walk if one was asked  *)
(* for, then that of messages.                                              *)
NoRequest == [step |-> "none", kinds |-> {}, keys |-> {}, found |-> {}]

Held(o, v) == IF v = 0 THEN {} ELSE container.holds[o][v]

-----------------------------------------------------------------------------
(* The bucket's writers, and a build with another parser.                   *)
Upload(o) ==
  /\ upload[o] < Len(container.holds[o])
  /\ upload' = [upload EXCEPT ![o] = @ + 1]
  /\ UNCHANGED <<container, parser, index, client, request, faults>>

(* rawRegistry.Due; when it is due for a retry is left open.                *)
Due(o) ==
  /\ upload[o] # 0
  /\ \/ entry[o].status # "indexed" \/ entry[o].parser # parser
     \/ entry[o].upload # upload[o]

(* process: the entry says processing and keeps the containers it named;    *)
(* the object is fetched.                                                   *)
BeginProcess(o) ==
  /\ job = NoJob /\ Due(o)
  /\ entry' = [entry EXCEPT ![o] = [status |-> "processing", upload |-> upload[o],
                                    parser |-> parser, names |-> @.names]]
  /\ job' = [object |-> o, upload |-> upload[o]]
  /\ UNCHANGED <<bucket, rows, client, request, faults>>

(* A batch is flushed: rows in the order of the object.                     *)
Missing == Held(job.object, job.upload) \ rows
Flush ==
  /\ job # NoJob /\ Missing # {}
  /\ rows' = rows \cup {Min(Missing)}
  /\ UNCHANGED <<bucket, entry, job, client, request, faults>>

(* containerIDs of what was parsed; an object without records keeps those   *)
(* its entry had.                                                           *)
FinishProcess ==
  /\ job # NoJob /\ Missing = {}
  /\ entry' = [entry EXCEPT
       ![job.object].status = "indexed",
       ![job.object].names = @ \/ Held(job.object, job.upload) # {}]
  /\ job' = NoJob
  /\ UNCHANGED <<bucket, rows, client, request, faults>>

ProcessFails ==
  /\ job # NoJob /\ faults < MaxFaults
  /\ entry' = [entry EXCEPT ![job.object].status = "failed"]
  /\ job' = NoJob /\ faults' = faults + 1
  /\ UNCHANGED <<bucket, rows, client, request>>

(* The daemon is stopped, perhaps for a build with another parser; the      *)
(* client asks for the page again.                                          *)
Restart ==
  /\ faults < MaxFaults
  /\ parser' \in parser .. MaxParser
  /\ job' = NoJob /\ request' = NoRequest /\ faults' = faults + 1
  /\ UNCHANGED <<container, upload, entry, rows, client>>

-----------------------------------------------------------------------------
(* The client of the walk (external) starts it, asks for the page after the *)
(* last record it was given, and ends at an empty page.                     *)
Known(o) ==
  IF o \in container.carriers
    THEN Held(o, upload[o])
    ELSE Held(o, upload[o]) \cap rows

NoWalk == [step |-> "none", kinds |-> {}, limit |-> 0, cursor |-> 0, given |-> {},
           known |-> [o \in Objects |-> {}], leftOut |-> {}]

StartWalk(kinds, limit) ==
  /\ client.step # "walking"
  /\ client' = [NoWalk EXCEPT !.step = "walking", !.kinds = kinds, !.limit = limit,
                              !.known = [o \in Objects |-> Known(o)]]
  /\ UNCHANGED <<bucket, index, request, faults>>

Ask ==
  /\ client.step = "walking" /\ request.step = "none"
  /\ request' = [NoRequest EXCEPT !.step = "keys", !.kinds = client.kinds]
  /\ UNCHANGED <<bucket, index, client, faults>>

(* Mutant: the cursor's record is given again.                              *)
AfterInclusive(S) == {r \in S : r >= client.cursor}

(* afterCursor, lanceCursorSQL.                                             *)
After(S) == {r \in S : r > client.cursor}

OfKinds(S, kinds) == {r \in S : KindOf[r] \in kinds}

First(n, S) == {r \in S : Cardinality({q \in S : q < r}) < n}

(* The page, and what the client does with it.                              *)
Answer(page) ==
  /\ request' = NoRequest
  /\ client' = [client EXCEPT
       !.step = IF page = {} THEN "done" ELSE @,
       !.cursor = IF page = {} THEN @ ELSE Max(page),
       !.given = @ \cup page]

(* Objects that hold records of the container but are not read for a page   *)
(* that others are read for (a record of the model, not of the code).       *)
LeaveOut(keys) ==
  client' = [client EXCEPT !.leftOut =
    IF keys = {} THEN @ ELSE @ \cup {o \in Objects : upload[o] # 0 /\ o \notin keys}]

(* keysForContainer.                                                        *)
NamedKeys == {o \in Objects : entry[o].status = "indexed" /\ entry[o].names}

(* containerKeys asks the registry, then the listing.                       *)
ReadRegistry ==
  /\ request.step = "keys"
  /\ request' = [request EXCEPT !.step = IF NamedKeys = {} THEN "list" ELSE "get",
                                !.keys = NamedKeys]
  /\ LeaveOut(NamedKeys)
  /\ UNCHANGED <<bucket, index, faults>>

Listed == {o \in container.carriers : upload[o] # 0}

ListBucket ==
  /\ request.step = "list"
  /\ request' = [request EXCEPT !.step = "get", !.keys = Listed]
  /\ LeaveOut(Listed)
  /\ UNCHANGED <<bucket, index, faults>>

(* The objects are downloaded and parsed one after the other.               *)
GetObject ==
  /\ request.step = "get" /\ request.keys # {}
  /\ \E o \in request.keys :
       request' = [request EXCEPT
         !.keys = @ \ {o},
         !.found = @ \cup After(OfKinds(Held(o, upload[o]), request.kinds))]
  /\ UNCHANGED <<bucket, index, client, faults>>

(* Mutant: an object that cannot be read is passed over.                    *)
FailsPassing ==
  /\ request.step = "get" /\ request.keys # {} /\ faults < MaxFaults
  /\ \E o \in request.keys : request' = [request EXCEPT !.keys = @ \ {o}]
  /\ faults' = faults + 1
  /\ UNCHANGED <<bucket, index, client>>

(* A failed listing, download or search fails the request, which the client *)
(* repeats.                                                                 *)
RequestFails ==
  /\ request.step \in {"list", "get", "table"} /\ faults < MaxFaults
  /\ request' = NoRequest /\ faults' = faults + 1
  /\ UNCHANGED <<bucket, index, client>>

(* Mutant: a page is cut before its records are in order.                   *)
PageUnsorted(S) == {r \in S : Cardinality({q \in S : q > r}) < client.limit}

Page(S) == First(client.limit, S)

(* A page from raw, unless nothing was found: then messages after a state   *)
(* walk, and the table after that.                                          *)
AnswerRaw ==
  /\ request.step = "get" /\ request.keys = {} /\ request.found # {}
  /\ Answer(Page(request.found))
  /\ UNCHANGED <<bucket, index, faults>>

FallBack ==
  /\ request.step = "get" /\ request.keys = {} /\ request.found = {}
  /\ request' = IF request.kinds # {Message}
                  THEN [NoRequest EXCEPT !.step = "keys", !.kinds = {Message}]
                  ELSE [NoRequest EXCEPT !.step = "table"]
  /\ UNCHANGED <<bucket, index, client, faults>>

(* containerKindFilter: one kind narrows the search, several do not.        *)
RowKinds == IF Cardinality(client.kinds) = 1 THEN client.kinds ELSE Kinds

AnswerTable ==
  /\ request.step = "table"
  /\ Answer(Page(After(OfKinds(rows, RowKinds))))
  /\ UNCHANGED <<bucket, index, faults>>

Init ==
  /\ container \in Containers
  /\ upload = [o \in Objects |-> 0]
  /\ entry = [o \in Objects |-> NoEntry]
  /\ parser = 1 /\ job = NoJob /\ rows = container.posted
  /\ client = NoWalk
  /\ request = NoRequest /\ faults = 0

Serve == ReadRegistry \/ ListBucket \/ GetObject \/ AnswerRaw \/ FallBack \/ AnswerTable
Scan  == Flush \/ FinishProcess \/ \E o \in Objects : BeginProcess(o)

Next ==
  \/ Ask \/ Serve \/ RequestFails \/ Scan \/ ProcessFails \/ Restart
  \/ \E o \in Objects : Upload(o)
  \/ \E kinds \in Asks, limit \in Limits : StartWalk(kinds, limit)

(* A request is served, and a client that walks goes on.                    *)
Spec == Init /\ [][Next]_vars /\ WF_vars(Serve) /\ WF_vars(Ask)

-----------------------------------------------------------------------------
(* Every variable is of its type; a request is served for a client that     *)
(* walks, and a job is marked as processing.                                *)
TypeOK ==
  /\ container \in Containers
  /\ upload \in [Objects -> Nat] /\ \A o \in Objects : upload[o] <= Len(container.holds[o])
  /\ entry \in [Objects -> Entry] /\ parser \in Nat /\ faults \in Nat
  /\ job \in [object : Objects \cup {NoObject}, upload : Nat]
  /\ job # NoJob => /\ job.object \in Objects /\ job.upload \in 1 .. upload[job.object]
                    /\ entry[job.object].status = "processing"
  /\ rows \subseteq Records
  /\ client \in [step : {"none", "walking", "done"}, kinds : SUBSET Kinds, limit : Nat,
                 cursor : Nat, given : SUBSET Records,
                 known : [Objects -> SUBSET Records], leftOut : SUBSET Objects]
  /\ request \in [step : {"none", "keys", "list", "get", "table"}, kinds : SUBSET Kinds,
                  keys : SUBSET Objects, found : SUBSET Records]
  /\ request.step # "none" => client.step = "walking"

(* A page holds nothing but what was asked for (README.md:318, "reads those *)
(* exact records"): a walk of todos that finds no more goes on to messages. *)
OnlyAsked == client.given = OfKinds(client.given, client.kinds)

(* What the client asked for and could be given when it started, as long as *)
(* it was not sent elsewhere by other records.                              *)
Owed(o) == OfKinds(client.known[o], client.kinds)

Promised == IF OnlyAsked THEN UNION {Owed(o) : o \in Objects \ client.leftOut} ELSE {}

(* The cursor passes no record that was there when the walk began, whatever *)
(* is uploaded, indexed again or restarted between its pages, and wherever  *)
(* a page comes from.  Excepted is an object that was being indexed again   *)
(* when a page was read from the others.                                    *)
NothingPassed == \A r \in Promised : r <= client.cursor => r \in client.given

(* A walk that ends has given all of them.                                  *)
WalkComplete == client.step = "done" => Promised \subseteq client.given

(* Every walk ends, once requests no longer fail.                           *)
WalkEnds == client.step = "walking" ~> client.step = "done"
=============================================================================
