--------------------------- MODULE MCRawIngestGaps ---------------------------
(* Contents that MCRawIngest excludes: a unit that comes back after it was   *)
(* replaced.                                                                 *)
EXTENDS RawIngest, TLC

CONSTANTS o1, m1, m2

OneOwner == m1 :> o1 @@ m2 :> o1
Chunks2 == 1 :> 2 @@ 2 :> 1

(* A session title is changed and changed back: m1's unit is 1, 2, 1. *)
TitleChangedBack ==
  [p \in Parsers |-> [o \in Objects |-> [v \in Versions |-> [m \in RawMessages |->
     IF m = m1 THEN IF v = 2 THEN 2 ELSE 1 ELSE 0]]]]
=============================================================================
