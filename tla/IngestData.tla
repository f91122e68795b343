------------------------------ MODULE IngestData ------------------------------
(***************************************************************************)
(* The data of raw ingestion, abstracted to what its control depends on.   *)
(*                                                                         *)
(* An upload of an object is a version number (the ETag and Size the       *)
(* registry compares).  A record's unit -- the header and body whose hash  *)
(* the dedup state keeps (context.go) -- is an edition number; 0 stands    *)
(* for "no such record".  What the parser finds in a version is the        *)
(* constant Derived, so every parser and every content of the bucket is    *)
(* one choice of the constants.                                            *)
(***************************************************************************)
EXTENDS Naturals

CONSTANTS
  Objects,      \* keys of the raw bucket
  RawMessages,  \* ids of the records derived from raw objects
  Owner,        \* [RawMessages -> Objects]: the object a record comes from
  MaxVersion,   \* uploads of one object
  MaxParser,    \* parser versions that are ever deployed
  MaxEdition,   \* editions a message goes through
  MaxChunks,    \* chunks the longest unit splits into
  Derived,      \* Derived[p][o][v][m]: the edition of m that parser p finds in
                \* version v of o
  ChunkCount    \* ChunkCount[e]: chunks an edition splits into

Versions == 1..MaxVersion
Parsers  == 1..MaxParser
Editions == 0..MaxEdition
ChunkIndex == 0..(MaxChunks - 1)
Torn     == MaxEdition + 1   \* stored rows of one message that disagree

ASSUME DataAssumption ==
  /\ MaxVersion \in Nat /\ MaxParser \in Nat \ {0} /\ MaxEdition \in Nat
  /\ MaxChunks \in Nat \ {0}
  /\ Owner \in [RawMessages -> Objects]
  /\ Derived \in [Parsers -> [Objects -> [Versions -> [RawMessages -> Editions]]]]
  /\ ChunkCount \in [1..MaxEdition -> 1..MaxChunks]

(* A record's id starts with the host, source and session of its object    *)
(* (raw_parser.go rawRecord), so no two objects derive the same record.    *)
ASSUME OwnerAssumption ==
  \A p \in Parsers, o \in Objects, v \in Versions, m \in RawMessages :
     Owner[m] # o => Derived[p][o][v][m] = 0

(***************************************************************************)
(* Editions are numbered in the order they appear, so this says that a     *)
(* unit that was replaced never comes back: later uploads and later        *)
(* parsers derive the same or a newer edition.  Not an ASSUME: the         *)
(* results that need it say so, and a run shows what happens without it.   *)
(***************************************************************************)
EditionsAdvance ==
  \A o \in Objects, m \in RawMessages, p1, p2 \in Parsers, v1, v2 \in Versions :
     /\ p1 <= p2 /\ v1 <= v2
     /\ Derived[p1][o][v1][m] # 0 /\ Derived[p2][o][v2][m] # 0
     => Derived[p1][o][v1][m] <= Derived[p2][o][v2][m]
=============================================================================
