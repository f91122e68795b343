---------------------------- MODULE MCRawIngest ----------------------------
(* Instances of RawIngest for TLC. *)
EXTENDS RawIngestInv, TLC

CONSTANTS o1, o2, m1, m2, m3

OneObjectOwner == m1 :> o1 @@ m2 :> o1
TwoObjectOwner == m1 :> o1 @@ m2 :> o1 @@ m3 :> o2

(* An edition can need fewer chunks than the one it replaces. *)
Chunks2 == 1 :> 2 @@ 2 :> 1
Chunks3 == 1 :> 2 @@ 2 :> 1 @@ 3 :> 2

(* m1 changes with every upload of o1 and with the parser, m2 appears in    *)
(* the second upload.                                                       *)
GrowingObject ==
  [p \in Parsers |-> [o \in Objects |-> [v \in Versions |-> [m \in RawMessages |->
     IF m = m1 THEN v + p - 1 ELSE v - 1]]]]

(* Two sessions: o1 grows as above, o2's only record is rewritten.          *)
TwoObjects ==
  [p \in Parsers |-> [o \in Objects |-> [v \in Versions |-> [m \in RawMessages |->
     CASE o = o1 /\ m = m1 -> v + p - 1
       [] o = o1 /\ m = m2 -> v - 1
       [] o = o2 /\ m = m3 -> v
       [] OTHER -> 0]]]]

ASSUME EditionsAdvance /\ IdsDisjoint
=============================================================================
