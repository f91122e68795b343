----------------------------- MODULE MCBlockCache -----------------------------
(* Instances of BlockCache for TLC. *)
EXTENDS BlockCache, TLC

CONSTANTS a, b

(* Both ranges belong to one get_ranges call. *)
Together == [r \in Readers |-> Readers]

(* Every range is a call of its own. *)
Apart == [r \in Readers |-> {r}]

Alike == Permutations(Readers)
=============================================================================
