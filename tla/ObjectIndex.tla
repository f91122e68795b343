----------------------------- MODULE ObjectIndex -----------------------------
(***************************************************************************)
(* What raw-object ingestion promises, without saying how (README.md:320): *)
(* "An object is recorded as indexed only after every derived row is       *)
(* persisted."  The raw bucket only grows; rows of an object's messages    *)
(* change only while the object is not recorded; and recording a version   *)
(* requires rows derived from that version or from a later upload.         *)
(* Crashes, retries, batching and the dedup state do not appear here.      *)
(***************************************************************************)
EXTENDS IngestData

Unrecorded == [version |-> 0, parser |-> 0]

VARIABLES
  bucket,    \* [Objects -> 0..MaxVersion]: latest uploaded version, 0 when absent
  rows,      \* [RawMessages -> Editions \cup {Torn}]: what is stored of a message
  recorded   \* [Objects -> record]: the version durably recorded as indexed

ovars == <<bucket, rows, recorded>>

(* Every record that parser p derives from version v of o is stored. *)
Stored(p, o, v) ==
  \A m \in RawMessages : Derived[p][o][v][m] # 0 => rows[m] = Derived[p][o][v][m]

OInit ==
  /\ bucket = [o \in Objects |-> 0]
  /\ rows = [m \in RawMessages |-> 0]
  /\ recorded = [o \in Objects |-> Unrecorded]

OUpload(o) ==
  /\ bucket[o] < MaxVersion
  /\ bucket' = [bucket EXCEPT ![o] = @ + 1]
  /\ UNCHANGED <<rows, recorded>>

(* Several at once: what an earlier save failed to write goes with the next. *)
OForget(S) ==
  /\ recorded' = [o \in Objects |-> IF o \in S THEN Unrecorded ELSE recorded[o]]
  /\ UNCHANGED <<bucket, rows>>

OWrite(o) ==
  /\ recorded[o] = Unrecorded
  /\ rows' \in [RawMessages -> Editions \cup {Torn}]
  /\ \A m \in RawMessages : Owner[m] # o => rows'[m] = rows[m]
  /\ UNCHANGED <<bucket, recorded>>

ORecord(o) ==
  /\ recorded[o] = Unrecorded
  /\ \E p \in Parsers, v \in 1..bucket[o] :
        /\ \E w \in v..bucket[o] : Stored(p, o, w)
        /\ recorded' = [recorded EXCEPT ![o] = [version |-> v, parser |-> p]]
  /\ UNCHANGED <<bucket, rows>>

ONext ==
  \/ \E o \in Objects : OUpload(o) \/ OWrite(o) \/ ORecord(o)
  \/ \E S \in SUBSET Objects : OForget(S)

OSpec == OInit /\ [][ONext]_ovars
=============================================================================
