------------------------------ MODULE MCSharedCap ------------------------------
(* Two processes with one cache directory: the daemon, and the one-shot      *)
(* container that optimize-lance.sh runs beside it to count fragments.       *)
EXTENDS CacheSpace, TLC

CONSTANTS daemon, counter, index, data

Lengths == index :> 3 @@ data :> 2
Objects == index :> 1 @@ data :> 2
=============================================================================
