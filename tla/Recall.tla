------------------------------- MODULE Recall -------------------------------
(***************************************************************************)
(* tireless query (cmd/tireless: fanOut, interleave; query and             *)
(* collapseChunkHits of main.go; Search and selectCollapsed of lance.go):  *)
(* the client asks every store at once, a store ranks rows in one read of  *)
(* its table and fetches them in another, while the daemon writes, and     *)
(* the client takes the stores' hits in turns.                             *)
(*                                                                         *)
(* Row ids are row addresses: a merge-insert or a compaction that rewrites *)
(* a row gives it a new one, and none is used twice. How a row scores is   *)
(* not modelled: a read may rank the rows of the table in any order. A     *)
(* body stands for a chunk's text and for its content_hash.                *)
(***************************************************************************)
EXTENDS Integers, FiniteSets, Sequences, SequencesExt, Ordered

CONSTANTS
  Order,         \* the target stores, in the order of the stores file
  Chunks,        \* ids of chunks
  MessageOf(_),  \* the message_id of a chunk
  ChatOf(_),     \* container_id of a Telegram chunk, NoChat for other sources
  TimeOf(_),     \* timestamp of a chunk
  NoChat,
  Bodies,
  Gap,           \* telegramLeadGap
  Tables,        \* the tables to begin with: each a function from Stores
  Limit,         \* -limit: hits asked of every store, and printed
  FetchK,        \* rows that a read ranks
  MaxWrites, MaxFaults   \* bounds on the rows written and on the calls that fail

Stores == ToSet(Order)
Row    == [chunk : Chunks, body : Bodies]
Hit    == [store : Stores, rank : Nat, at : Nat, chunk : Chunks, body : Bodies]
Phases == {"rank", "fetch", "again", "answered", "failed"}
Ended  == {"answered", "failed"}

ASSUME RecallAssumption ==
  /\ Order \in Seq(Stores) /\ IsInjective(Order) /\ Order # <<>>
  /\ Gap \in Nat /\ Limit \in Nat \ {0} /\ FetchK \in Nat \ {0}
  /\ MaxWrites \in Nat /\ MaxFaults \in Nat
  /\ \A c \in Chunks : TimeOf(c) \in Nat
  /\ Tables \subseteq [Stores -> Seq(Row)]

VARIABLES
  rows,     \* [Stores -> [addresses in use -> Row]]: the table "chunks"
  end,      \* [Stores -> Nat]: the last address given
  pc,       \* [Stores -> Phases]
  scored,   \* [Stores -> SUBSET Hit]: what was ranked last
  kept,     \* [Stores -> SUBSET Hit]: hits to fetch, then the rows for query
  answer,   \* [Stores -> Seq(Hit)]: the store's results
  output,   \* the hits printed
  outcome,  \* "waiting", "printed" or "exited" (with status 1)
  writes, faults

calls == <<pc, scored, kept, answer>>
recallVars  == <<rows, end, calls, output, outcome, writes, faults>>

-----------------------------------------------------------------------------
(* collapseChunkHits and selectCollapsed.                                  *)

SameMessage(k, h) == MessageOf(k.chunk) = MessageOf(h.chunk)
SameBody(k, h)    == k.body = h.body

(* Mutant: only a later line is near.                                      *)
NearMomentAfter(k, h) ==
  /\ ChatOf(k.chunk) = ChatOf(h.chunk) /\ ChatOf(h.chunk) # NoChat
  /\ TimeOf(h.chunk) - TimeOf(k.chunk) \in 0..Gap

NearMoment(k, h) ==
  /\ ChatOf(k.chunk) = ChatOf(h.chunk) /\ ChatOf(h.chunk) # NoChat
  /\ TimeOf(h.chunk) - TimeOf(k.chunk) \in (-Gap)..Gap

Alike(k, h) == SameMessage(k, h) \/ SameBody(k, h) \/ NearMoment(k, h)

ByRank(hits) == {e \in hits \X hits : e[1].rank < e[2].rank}

(* A hit is taken unless one alike, or Limit of them, were taken before.    *)
Takes(T, h) ==
  LET before == {k \in T : k.rank < h.rank} IN
  (\A k \in before : ~ Alike(k, h)) /\ Cardinality(before) < Limit

Taken(hits) == CHOOSE T \in SUBSET hits : \A h \in hits : h \in T <=> Takes(T, h)

(* The best hits of which no two are alike, at most Limit.                  *)
CollapseChunkHits(hits) == InOrder(Taken(hits), ByRank(Taken(hits)))

(* selectCollapsed: the best row of each of the first Limit messages.      *)
FirstOfMessages(hits) ==
  LET first == {h \in hits : ~ \E k \in hits : k.rank < h.rank /\ SameMessage(k, h)} IN
  {h \in first : Cardinality({k \in first : k.rank < h.rank}) < Limit}

-----------------------------------------------------------------------------
(* A store.                                                                *)

(* A read of one version of the table: its best FetchK rows, or fewer if   *)
(* fewer match. A hit has its rank, and the address and row it is for.     *)
HitOf(s, r, a) ==
  [store |-> s, rank |-> r, at |-> a, chunk |-> rows[s][a].chunk, body |-> rows[s][a].body]

Rankings(s) ==
  {{HitOf(s, r, f[r]) : r \in DOMAIN f} :
     f \in UNION {Injection(1..n, DOMAIN rows[s]) : n \in 0..FetchK}}

(* The first read returns row ids and message ids only.                    *)
Rank(s) ==
  /\ pc[s] = "rank"
  /\ \E hits \in Rankings(s) :
       /\ scored' = [scored EXCEPT ![s] = hits]
       /\ kept' = [kept EXCEPT ![s] = FirstOfMessages(hits)]
       /\ pc' = [pc EXCEPT ![s] = IF hits = {} THEN "answered" ELSE "fetch"]
  /\ UNCHANGED <<rows, end, answer, output, outcome, writes, faults>>

(* Mutant: a row is looked up by the id of its chunk.                      *)
FoundById(s, k) == {a \in DOMAIN rows[s] : rows[s][a].chunk = k.chunk}

(* The row that the second read finds for a hit: "_rowid IN".              *)
Found(s, k) == {a \in DOMAIN rows[s] : a = k.at}

(* The rows found, with the scores of their hits.                          *)
WithColumns(s) == UNION {{HitOf(s, k.rank, a) : a \in Found(s, k)} : k \in kept[s]}

Reply(s, hits) ==
  /\ kept' = [kept EXCEPT ![s] = hits]
  /\ answer' = [answer EXCEPT ![s] = CollapseChunkHits(hits)]
  /\ pc' = [pc EXCEPT ![s] = "answered"]

(* The second read; if a row is gone, one pass is made instead of both.    *)
Fetch(s) ==
  /\ pc[s] = "fetch"
  /\ \/ /\ \A k \in kept[s] : Found(s, k) # {}
        /\ Reply(s, WithColumns(s))
     \/ /\ \E k \in kept[s] : Found(s, k) = {}
        /\ pc' = [pc EXCEPT ![s] = "again"] /\ kept' = [kept EXCEPT ![s] = {}]
        /\ UNCHANGED answer
  /\ UNCHANGED <<rows, end, scored, output, outcome, writes, faults>>

(* One read ranks the rows and has all their columns.                      *)
OnePass(s) ==
  /\ pc[s] = "again"
  /\ \E hits \in Rankings(s) : scored' = [scored EXCEPT ![s] = hits] /\ Reply(s, hits)
  /\ UNCHANGED <<rows, end, output, outcome, writes, faults>>

(* A call fails, or its answer does not arrive.                            *)
Fail(s) ==
  /\ pc[s] \notin Ended /\ faults < MaxFaults
  /\ pc' = [pc EXCEPT ![s] = "failed"]
  /\ kept' = [kept EXCEPT ![s] = {}] /\ scored' = [scored EXCEPT ![s] = {}]
  /\ faults' = faults + 1
  /\ UNCHANGED <<rows, end, answer, output, outcome, writes>>

-----------------------------------------------------------------------------
(* The daemon writes between the reads: a row is inserted, rewritten with  *)
(* the same body or another, or deleted.                                   *)

Without(s, c) == {a \in DOMAIN rows[s] : rows[s][a].chunk # c}

Write(s, c, b) ==
  /\ pc[s] \in {"fetch", "again"} /\ writes < MaxWrites
  /\ end' = [end EXCEPT ![s] = @ + 1]
  /\ rows' = [rows EXCEPT ![s] =
                [a \in Without(s, c) \cup {end'[s]} |->
                   IF a = end'[s] THEN [chunk |-> c, body |-> b] ELSE rows[s][a]]]
  /\ writes' = writes + 1
  /\ UNCHANGED <<calls, output, outcome, faults>>

Delete(s, c) ==
  /\ pc[s] \in {"fetch", "again"} /\ writes < MaxWrites
  /\ Without(s, c) # DOMAIN rows[s]
  /\ rows' = [rows EXCEPT ![s] = Restrict(@, Without(s, c))]
  /\ writes' = writes + 1
  /\ UNCHANGED <<end, calls, output, outcome, faults>>

-----------------------------------------------------------------------------
(* The client.                                                             *)

(* Mutant: the turns end with the first store that has no more hits.       *)
TurnsOfAll ==
  {e \in (1..Limit) \X DOMAIN Order :
     \A s \in Stores : pc[s] = "answered" => e[1] <= Len(answer[s])}

(* A turn is a rank and a store that has a hit of that rank; a failed store *)
(* has none.                                                                *)
Turns == {e \in (1..Limit) \X DOMAIN Order : e[1] <= Len(answer[Order[e[2]]])}

TurnBefore(turns) ==
  {p \in turns \X turns :
     p[1][1] < p[2][1] \/ (p[1][1] = p[2][1] /\ p[1][2] < p[2][2])}

(* interleave: no store has more than Limit hits.                          *)
InterleaveHits ==
  LET turn == InOrder(Turns, TurnBefore(Turns)) IN
  [n \in {i \in DOMAIN turn : i <= Limit} |-> answer[Order[turn[n][2]]][turn[n][1]]]

(* fanOut waits for every call; the client exits if all have failed.       *)
Emit ==
  /\ outcome = "waiting" /\ \A s \in Stores : pc[s] \in Ended
  /\ \/ /\ \E s \in Stores : pc[s] = "answered"
        /\ outcome' = "printed" /\ output' = InterleaveHits
     \/ /\ \A s \in Stores : pc[s] = "failed"
        /\ outcome' = "exited" /\ UNCHANGED output
  /\ UNCHANGED <<rows, end, calls, writes, faults>>

-----------------------------------------------------------------------------
RecallInit ==
  /\ \E t \in Tables : rows = t
  /\ end = [s \in Stores |-> Len(rows[s])]
  /\ pc = [s \in Stores |-> "rank"]
  /\ scored = [s \in Stores |-> {}] /\ kept = scored /\ answer = [s \in Stores |-> <<>>]
  /\ output = <<>> /\ outcome = "waiting"
  /\ writes = 0 /\ faults = 0

Read(s) == Rank(s) \/ Fetch(s) \/ OnePass(s)

RecallNext ==
  \/ \E s \in Stores : Read(s) \/ Fail(s)
  \/ \E s \in Stores, c \in Chunks, b \in Bodies : Write(s, c, b)
  \/ \E s \in Stores, c \in Chunks : Delete(s, c)
  \/ Emit

RecallSpec == RecallInit /\ [][RecallNext]_recallVars

-----------------------------------------------------------------------------
RecallTypeOK ==
  /\ \A s \in Stores : DOMAIN rows[s] \subseteq 1..end[s] /\ rows[s] \in [DOMAIN rows[s] -> Row]
  /\ end \in [Stores -> Nat] /\ pc \in [Stores -> Phases]
  /\ scored \in [Stores -> SUBSET Hit] /\ kept \in [Stores -> SUBSET Hit]
  /\ answer \in [Stores -> Seq(Hit)] /\ output \in Seq(Hit)
  /\ outcome \in {"waiting", "printed", "exited"}
  /\ writes \in 0..MaxWrites /\ faults \in 0..MaxFaults

(***************************************************************************)
(* A result has the text that was ranked and the score it was given,       *)
(* though rows are rewritten, moved and deleted between the read that      *)
(* ranks and the one that fetches (selectCollapsed).                       *)
(***************************************************************************)
RankedText == \A s \in Stores : kept[s] \subseteq scored[s]

(* Two hits that a reader would take for the same.                         *)
Repeat(k, h) ==
  \/ MessageOf(k.chunk) = MessageOf(h.chunk) \/ k.body = h.body
  \/ /\ ChatOf(k.chunk) = ChatOf(h.chunk) /\ ChatOf(k.chunk) # NoChat
     /\ TimeOf(k.chunk) <= TimeOf(h.chunk) + Gap /\ TimeOf(h.chunk) <= TimeOf(k.chunk) + Gap

(***************************************************************************)
(* A store answers with the best: in the order of their ranks, no two with *)
(* the same message, body or chat moment; and the best row of a message is *)
(* missing only if a better hit is shown that is alike, or Limit messages  *)
(* rank before it.                                                         *)
(***************************************************************************)
BestOfEach ==
  \A s \in Stores : pc[s] = "answered" =>
    /\ \A i, j \in DOMAIN answer[s] : i < j =>
         answer[s][i].rank < answer[s][j].rank /\ ~ Repeat(answer[s][i], answer[s][j])
    /\ ToSet(answer[s]) \subseteq kept[s]
    /\ \A h \in scored[s] :
         LET better == {k \in scored[s] : k.rank < h.rank} IN
         \/ h \in ToSet(answer[s])
         \/ \E k \in better : MessageOf(k.chunk) = MessageOf(h.chunk)
                            \/ (k \in ToSet(answer[s]) /\ Repeat(k, h))
         \/ Cardinality({MessageOf(k.chunk) : k \in better}) >= Limit

Shown(s) == {n \in DOMAIN output : output[n].store = s}

(***************************************************************************)
(* "Hits from several stores alternate by rank" (README.md:33): every      *)
(* store's hits are shown best first, no store is a turn ahead of one that *)
(* has more, none is left out while there is room, and a store that fails  *)
(* takes only its own hits away.                                           *)
(***************************************************************************)
FairMerge ==
  /\ outcome = "exited" <=> (outcome # "waiting" /\ \A s \in Stores : pc[s] = "failed")
  /\ outcome = "printed" => \A s, t \in Stores :
       LET shown == Cardinality(Shown(s)) IN
       /\ shown <= Len(answer[s])
       /\ \A n \in Shown(s) : output[n] = answer[s][Cardinality({m \in Shown(s) : m <= n})]
       /\ shown < Len(answer[s]) =>
            Len(output) = Limit /\ Cardinality(Shown(t)) <= shown + 1
=============================================================================
