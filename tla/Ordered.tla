-------------------------------- MODULE Ordered --------------------------------
(* Sorting (sort.Slice and its like), by what a sort returns: the elements   *)
(* of a finite set in the order of a relation, a set of pairs.               *)
EXTENDS Naturals, FiniteSets

Ahead(x, S, R) == {y \in S : <<y, x>> \in R}

(* The n-th of S is the one that has n - 1 of S ahead of it.                 *)
InOrder(S, R) ==
  [n \in 1..Cardinality(S) |-> CHOOSE x \in S : Cardinality(Ahead(x, S, R)) = n - 1]

(* R puts any two of S in one order.                                         *)
Ranks(R, S) ==
  /\ \A x \in S : <<x, x>> \notin R
  /\ \A x, y \in S : x = y \/ <<x, y>> \in R \/ <<y, x>> \in R
  /\ \A x, y, z \in S : <<x, y>> \in R /\ <<y, z>> \in R => <<x, z>> \in R

Less(P) == {e \in P \X P : e[1] < e[2]}

(* The elements of a sequence at some of its positions.                      *)
At(seq, P) == LET place == InOrder(P, Less(P)) IN [n \in DOMAIN place |-> seq[place[n]]]
================================================================================
