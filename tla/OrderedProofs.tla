----------------------------- MODULE OrderedProofs -----------------------------
(***************************************************************************)
(* What is sorted (Ordered): a relation that puts any two elements of a    *)
(* finite set in one order makes one sequence of them, and that is the     *)
(* only one that rises and leaves none out.                                *)
(***************************************************************************)
EXTENDS Ordered, Sequences, FiniteSetTheorems, WellFoundedInduction, TLAPS

(* A set of numbers that is not empty has a least one.                     *)
LEMMA LeastNat ==
  ASSUME NEW S, S \subseteq Nat, S # {}
  PROVE  \E x \in S : \A y \in S : x <= y
<1> DEFINE R == OpToRel(<, Nat)
<1>1. IsWellFoundedOn(R, Nat)
  BY NatLessThanWellFounded, Zenon
<1> HIDE DEF R
<1>2. PICK x \in S : \A y \in S : ~(<<y, x>> \in R)
  BY <1>1, WFMin, Zenon
<1>3. \A y \in S : y < x => <<y, x>> \in R
  BY DEF R, OpToRel
<1>4. \A y \in S : ~(y < x)
  BY <1>2, <1>3, Zenon
<1>5. x \in Nat /\ \A y \in S : y \in Nat
  OBVIOUS
<1> QED
  BY <1>4, <1>5

(* A nonempty set of numbers below n has a greatest one.                    *)
LEMMA GreatestBelow ==
  ASSUME NEW n \in Nat, NEW S, S \subseteq 0..n, S # {}
  PROVE  \E x \in S : \A y \in S : y <= x
<1> DEFINE Flip == {n - y : y \in S}
<1>1. Flip \subseteq Nat /\ Flip # {}
  <2>1. \A y \in S : n - y \in Nat
    OBVIOUS
  <2>2. PICK y \in S : TRUE
    OBVIOUS
  <2>3. n - y \in Flip
    OBVIOUS
  <2>4. QED
    BY <2>1, <2>3
<1>2. PICK z \in Flip : \A y \in Flip : z <= y
  BY <1>1, LeastNat
<1>3. PICK x \in S : z = n - x
  BY <1>2
<1>4. ASSUME NEW y \in S PROVE y <= x
  <2>1. n - y \in Flip
    OBVIOUS
  <2>2. n - x <= n - y
    BY <2>1, <1>2, <1>3
  <2>3. QED
    BY <2>2
<1>5. QED
  BY <1>3, <1>4

(* An element has as many ahead of it as there are numbers before its own. *)
LEMMA AheadCounts ==
  ASSUME NEW S, IsFiniteSet(S), NEW R, NEW x \in S, <<x, x>> \notin R
  PROVE  /\ IsFiniteSet(Ahead(x, S, R))
         /\ Cardinality(Ahead(x, S, R)) \in 0..(Cardinality(S) - 1)
<1>1. Ahead(x, S, R) \in SUBSET (S \ {x})
  BY DEF Ahead
<1>2. IsFiniteSet(S \ {x}) /\ Cardinality(S \ {x}) = Cardinality(S) - 1
  BY FS_RemoveElement
<1>3. IsFiniteSet(Ahead(x, S, R)) /\ Cardinality(Ahead(x, S, R)) <= Cardinality(S \ {x})
  BY <1>1, <1>2, FS_Subset
<1>4. Cardinality(Ahead(x, S, R)) \in Nat /\ Cardinality(S) \in Nat
  BY <1>3, FS_CardinalityType
<1>. QED
  BY <1>2, <1>3, <1>4

(* What is ahead of another has fewer ahead of it.                         *)
LEMMA AheadGrows ==
  ASSUME NEW S, IsFiniteSet(S), NEW R, Ranks(R, S), NEW x \in S, NEW y \in S, <<x, y>> \in R
  PROVE  Cardinality(Ahead(x, S, R)) < Cardinality(Ahead(y, S, R))
<1>1. Ahead(x, S, R) \in SUBSET Ahead(y, S, R) /\ x \in Ahead(y, S, R) /\ x \notin Ahead(x, S, R)
  BY DEF Ahead, Ranks
<1>2. IsFiniteSet(Ahead(x, S, R)) /\ IsFiniteSet(Ahead(y, S, R))
  BY AheadCounts DEF Ranks
<1>3. Cardinality(Ahead(x, S, R)) <= Cardinality(Ahead(y, S, R))
      /\ Cardinality(Ahead(x, S, R)) # Cardinality(Ahead(y, S, R))
  BY <1>1, <1>2, FS_Subset
<1>4. Cardinality(Ahead(x, S, R)) \in Nat /\ Cardinality(Ahead(y, S, R)) \in Nat
  BY <1>2, FS_CardinalityType
<1>. QED
  BY <1>3, <1>4

(* Every number below the size of the set is that of one element.          *)
LEMMA OneOfEachNumber ==
  ASSUME NEW S, IsFiniteSet(S), NEW R, Ranks(R, S), NEW n \in 1..Cardinality(S)
  PROVE  /\ \E x \in S : Cardinality(Ahead(x, S, R)) = n - 1
         /\ \A x, y \in S : Cardinality(Ahead(x, S, R)) = Cardinality(Ahead(y, S, R)) => x = y
<1> DEFINE N == 0..(Cardinality(S) - 1)
           f == [x \in S |-> Cardinality(Ahead(x, S, R))]
<1>1. \A x \in S : Cardinality(Ahead(x, S, R)) \in N
  BY AheadCounts DEF Ranks
<1>2. \A x, y \in S : Cardinality(Ahead(x, S, R)) = Cardinality(Ahead(y, S, R)) => x = y
  <2>. SUFFICES ASSUME NEW x \in S, NEW y \in S,
                       Cardinality(Ahead(x, S, R)) = Cardinality(Ahead(y, S, R)), x # y
               PROVE FALSE
    OBVIOUS
  <2>1. <<x, y>> \in R \/ <<y, x>> \in R
    BY DEF Ranks
  <2>2. Cardinality(Ahead(x, S, R)) < Cardinality(Ahead(y, S, R))
        \/ Cardinality(Ahead(y, S, R)) < Cardinality(Ahead(x, S, R))
    BY <2>1, AheadGrows
  <2>. QED
    BY <1>1, <2>2
<1>3. f \in Injection(S, N)
  BY <1>1, <1>2 DEF Injection, IsInjective
<1>4. IsFiniteSet(N) /\ Cardinality(N) = Cardinality(S)
  <2>1. Cardinality(S) \in Nat
    BY FS_CardinalityType
  <2>2. 0 \in Int /\ Cardinality(S) - 1 \in Int
    BY <2>1
  <2>3. IsFiniteSet(N)
        /\ Cardinality(N) = IF 0 > Cardinality(S) - 1 THEN 0 ELSE (Cardinality(S) - 1) - 0 + 1
    BY <2>2, FS_Interval
  <2>. QED
    BY <2>1, <2>3
<1>5. f \in Surjection(S, N)
  BY <1>3, <1>4, FS_Injection
<1>6. n - 1 \in N
  BY FS_CardinalityType
<1>7. \E x \in S : f[x] = n - 1
  BY <1>5, <1>6 DEF Surjection
<1>. QED
  BY <1>2, <1>7

(***************************************************************************)
(* A sort puts every element at one place, and the n-th behind n - 1.      *)
(***************************************************************************)
LEMMA SortsAll ==
  ASSUME NEW S, IsFiniteSet(S), NEW R, Ranks(R, S)
  PROVE  /\ Cardinality(S) \in Nat
         /\ InOrder(S, R) \in [1..Cardinality(S) -> S]
         /\ \A n \in 1..Cardinality(S) : Cardinality(Ahead(InOrder(S, R)[n], S, R)) = n - 1
         /\ \A x \in S : \E n \in 1..Cardinality(S) : InOrder(S, R)[n] = x
         /\ \A m, n \in 1..Cardinality(S) : m < n <=> <<InOrder(S, R)[m], InOrder(S, R)[n]>> \in R
         /\ \A m, n \in 1..Cardinality(S) : InOrder(S, R)[m] = InOrder(S, R)[n] => m = n
<1> DEFINE f == InOrder(S, R)
<1>0. Cardinality(S) \in Nat
  BY FS_CardinalityType
<1>1. \A n \in 1..Cardinality(S) : f[n] \in S /\ Cardinality(Ahead(f[n], S, R)) = n - 1
  BY OneOfEachNumber DEF InOrder
<1>2. f \in [1..Cardinality(S) -> S]
  BY <1>1 DEF InOrder
<1>3. ASSUME NEW x \in S
      PROVE  \E n \in 1..Cardinality(S) : f[n] = x
  <2> DEFINE n == Cardinality(Ahead(x, S, R)) + 1
  <2>0. Cardinality(Ahead(x, S, R)) \in 0..(Cardinality(S) - 1)
    BY AheadCounts DEF Ranks
  <2>1. n \in 1..Cardinality(S) /\ n - 1 = Cardinality(Ahead(x, S, R))
    BY <1>0, <2>0
  <2> HIDE DEF n
  <2>2. f[n] = x
    BY <1>1, <2>1, OneOfEachNumber
  <2>. QED
    BY <2>1, <2>2
<1>4. ASSUME NEW m \in 1..Cardinality(S), NEW n \in 1..Cardinality(S)
      PROVE  /\ m < n <=> <<f[m], f[n]>> \in R
             /\ f[m] = f[n] => m = n
  <2>0. f[m] \in S /\ f[n] \in S /\ Cardinality(Ahead(f[m], S, R)) = m - 1
        /\ Cardinality(Ahead(f[n], S, R)) = n - 1
    BY <1>1
  <2> HIDE DEF f
  <2>1. <<f[m], f[n]>> \in R => m < n
    BY <2>0, AheadGrows
  <2>2. <<f[n], f[m]>> \in R => n < m
    BY <2>0, AheadGrows
  <2>3. f[m] = f[n] => m = n
    BY <2>0
  <2>4. f[m] = f[n] \/ <<f[m], f[n]>> \in R \/ <<f[n], f[m]>> \in R
    BY <2>0 DEF Ranks
  <2>. QED
    BY <2>1, <2>2, <2>3, <2>4
<1>. QED
  BY <1>0, <1>1, <1>2, <1>3, <1>4

(* As many elements as numbers that stand for them.                        *)
LEMMA CountedTo ==
  ASSUME NEW n \in Nat, NEW S, NEW f \in [1..n -> S],
         \A x \in S : \E i \in 1..n : f[i] = x,
         \A i, j \in 1..n : f[i] = f[j] => i = j
  PROVE  IsFiniteSet(S) /\ Cardinality(S) = n
<1>1. f \in Surjection(1..n, S) /\ f \in Injection(1..n, S)
  BY DEF Surjection, Injection, IsInjective
<1>2. IsFiniteSet(1..n) /\ Cardinality(1..n) = n
  BY FS_Interval
<1>. QED
  BY <1>1, <1>2, FS_Surjection

(***************************************************************************)
(* The sorted sequence is the one that rises and leaves no element out.    *)
(***************************************************************************)
LEMMA SortIsUnique ==
  ASSUME NEW S, NEW R, Ranks(R, S), NEW n \in Nat, NEW f \in [1..n -> S],
         \A x \in S : \E i \in 1..n : f[i] = x,
         \A i, j \in 1..n : i < j => <<f[i], f[j]>> \in R
  PROVE  IsFiniteSet(S) /\ Cardinality(S) = n /\ f = InOrder(S, R)
<1>1. \A i, j \in 1..n : f[i] = f[j] => i = j
  <2>. SUFFICES ASSUME NEW i \in 1..n, NEW j \in 1..n, f[i] = f[j], i # j PROVE FALSE
    OBVIOUS
  <2>1. i < j \/ j < i
    OBVIOUS
  <2>2. <<f[i], f[i]>> \in R
    BY <2>1
  <2>. QED
    BY <2>2 DEF Ranks
<1>2. IsFiniteSet(S) /\ Cardinality(S) = n
  BY <1>1, CountedTo
<1>3. ASSUME NEW i \in 1..n PROVE Cardinality(Ahead(f[i], S, R)) = i - 1
  <2> DEFINE A == Ahead(f[i], S, R)
             g == [j \in 1..(i - 1) |-> f[j]]
  <2>1. \A j \in 1..(i - 1) : j \in 1..n /\ j < i
    OBVIOUS
  <2>2. g \in [1..(i - 1) -> A]
    BY <2>1 DEF Ahead
  <2>3. ASSUME NEW x \in A PROVE \E j \in 1..(i - 1) : g[j] = x
    <3>1. x \in S /\ <<x, f[i]>> \in R
      BY <2>3 DEF Ahead
    <3>2. PICK j \in 1..n : f[j] = x
      BY <3>1
    <3>3. <<f[i], x>> \notin R /\ x # f[i]
      BY <3>1 DEF Ranks
    <3>4. j < i
      BY <3>2, <3>3
    <3>. QED
      BY <3>2, <3>4
  <2>4. \A j, k \in 1..(i - 1) : g[j] = g[k] => j = k
    BY <1>1, <2>1
  <2>5. i - 1 \in Nat
    OBVIOUS
  <2> HIDE DEF A, g
  <2>6. Cardinality(A) = i - 1
    BY <2>2, <2>3, <2>4, <2>5, CountedTo
  <2>. QED
    BY <2>6 DEF A
<1>4. ASSUME NEW i \in 1..n PROVE InOrder(S, R)[i] = f[i]
  <2>1. \A x, y \in S : Cardinality(Ahead(x, S, R)) = Cardinality(Ahead(y, S, R)) => x = y
    BY <1>2, OneOfEachNumber
  <2>2. InOrder(S, R)[i] = CHOOSE x \in S : Cardinality(Ahead(x, S, R)) = i - 1
    BY <1>2 DEF InOrder
  <2>3. f[i] \in S /\ Cardinality(Ahead(f[i], S, R)) = i - 1
    BY <1>3
  <2>. QED
    BY <2>1, <2>2, <2>3
<1>5. DOMAIN InOrder(S, R) = 1..n /\ DOMAIN f = 1..n
  BY <1>2 DEF InOrder
<1>. QED
  BY <1>2, <1>4, <1>5 DEF InOrder

(***************************************************************************)
(* Some positions of a sequence, in their order.                           *)
(***************************************************************************)
LEMMA PlacesRise ==
  ASSUME NEW P, IsFiniteSet(P), P \subseteq Nat
  PROVE  LET place == InOrder(P, Less(P)) IN
         /\ Ranks(Less(P), P) /\ Cardinality(P) \in Nat
         /\ place \in [1..Cardinality(P) -> P]
         /\ \A x \in P : \E n \in 1..Cardinality(P) : place[n] = x
         /\ \A m, n \in 1..Cardinality(P) : m < n <=> place[m] < place[n]
         /\ \A m, n \in 1..Cardinality(P) : place[m] = place[n] => m = n
<1> DEFINE place == InOrder(P, Less(P))
<1>1. Ranks(Less(P), P)
  BY DEF Ranks, Less
<1>2. /\ Cardinality(P) \in Nat
      /\ place \in [1..Cardinality(P) -> P]
      /\ \A x \in P : \E n \in 1..Cardinality(P) : place[n] = x
      /\ \A m, n \in 1..Cardinality(P) : m < n <=> <<place[m], place[n]>> \in Less(P)
      /\ \A m, n \in 1..Cardinality(P) : place[m] = place[n] => m = n
  BY <1>1, SortsAll
<1> HIDE DEF place
<1>3. \A m, n \in 1..Cardinality(P) : <<place[m], place[n]>> \in Less(P) <=> place[m] < place[n]
  BY <1>2 DEF Less
<1>. QED
  BY <1>1, <1>2, <1>3 DEF place

(* Whatever rises and leaves none of the positions out is that order.      *)
LEMMA PlacesUnique ==
  ASSUME NEW P, P \subseteq Nat, NEW n \in Nat, NEW f \in [1..n -> P],
         \A x \in P : \E i \in 1..n : f[i] = x,
         \A i, j \in 1..n : i < j => f[i] < f[j]
  PROVE  IsFiniteSet(P) /\ Cardinality(P) = n /\ InOrder(P, Less(P)) = f
<1>1. Ranks(Less(P), P)
  BY DEF Ranks, Less
<1>2. \A i, j \in 1..n : i < j => <<f[i], f[j]>> \in Less(P)
  BY DEF Less
<1>3. IsFiniteSet(P) /\ Cardinality(P) = n /\ f = InOrder(P, Less(P))
  BY ZenonT(60), <1>1, <1>2, SortIsUnique
<1>. QED
  BY <1>3

(* What is found at positions depends on nothing else.                     *)
LEMMA AtAgree ==
  ASSUME NEW P, IsFiniteSet(P), P \subseteq Nat, NEW s, NEW u, \A x \in P : u[x] = s[x]
  PROVE  At(u, P) = At(s, P)
<1> DEFINE place == InOrder(P, Less(P))
<1>1. place \in [1..Cardinality(P) -> P]
  BY PlacesRise
<1>2. At(u, P) = [n \in DOMAIN place |-> u[place[n]]] /\ At(s, P) = [n \in DOMAIN place |-> s[place[n]]]
  BY DEF At
<1> HIDE DEF place
<1>3. \A n \in DOMAIN place : place[n] \in P
  BY <1>1
<1>4. \A n \in DOMAIN place : u[place[n]] = s[place[n]]
  BY <1>3
<1>. QED
  BY <1>2, <1>4

LEMMA AtTyped ==
  ASSUME NEW P, IsFiniteSet(P), P \subseteq Nat, NEW s, NEW T, \A x \in P : s[x] \in T
  PROVE  /\ At(s, P) \in Seq(T) /\ Len(At(s, P)) = Cardinality(P) /\ Cardinality(P) \in Nat
         /\ \A n \in 1..Cardinality(P) : At(s, P)[n] = s[InOrder(P, Less(P))[n]]
<1> DEFINE place == InOrder(P, Less(P))
           m == Cardinality(P)
           t == At(s, P)
<1>1. m \in Nat /\ place \in [1..m -> P]
  BY PlacesRise
<1>2. t = [n \in DOMAIN place |-> s[place[n]]]
  BY DEF At
<1> HIDE DEF place, m, t
<1>3. \A n \in 1..m : s[place[n]] \in T
  BY <1>1
<1>4. t = [n \in 1..m |-> s[place[n]]]
  BY <1>1, <1>2
<1>5. t \in Seq(T) /\ Len(t) = m /\ \A n \in 1..m : t[n] = s[place[n]]
  BY <1>1, <1>3, <1>4
<1>. QED
  BY <1>1, <1>5 DEF t, m, place

(* A later position comes last.                                            *)
LEMMA AtMore ==
  ASSUME NEW P, IsFiniteSet(P), P \subseteq Nat, NEW k \in Nat, \A x \in P : x < k,
         NEW s, NEW T, \A x \in P \cup {k} : s[x] \in T
  PROVE  At(s, P \cup {k}) = Append(At(s, P), s[k])
<1> DEFINE m == Cardinality(P)
           place == InOrder(P, Less(P))
           Q == P \cup {k}
           f == [i \in 1..(m + 1) |-> IF i = m + 1 THEN k ELSE place[i]]
           t == At(s, P)
<1>1. /\ m \in Nat /\ place \in [1..m -> P]
      /\ \A x \in P : \E i \in 1..m : place[i] = x
      /\ \A i, j \in 1..m : i < j <=> place[i] < place[j]
  BY PlacesRise
<1>2. t \in Seq(T) /\ Len(t) = m /\ \A n \in 1..m : t[n] = s[place[n]]
  BY AtTyped
<1> HIDE DEF place, m, t
<1>3. \A i \in 1..(m + 1) : i = m + 1 \/ i \in 1..m
  BY <1>1
<1>4. f[m + 1] = k /\ \A i \in 1..m : f[i] = place[i]
  BY <1>1
<1>5. \A i \in 1..(m + 1) : f[i] \in Q
  BY <1>1, <1>3, <1>4
<1>6. f \in [1..(m + 1) -> Q]
  BY <1>5
<1>7. m + 1 \in 1..(m + 1) /\ \A i \in 1..m : i \in 1..(m + 1)
  BY <1>1
<1> HIDE DEF f
<1>8. \A x \in Q : \E i \in 1..(m + 1) : f[i] = x
  BY <1>1, <1>4, <1>7
<1>9. ASSUME NEW i \in 1..(m + 1), NEW j \in 1..(m + 1), i < j PROVE f[i] < f[j]
  <2>1. i \in 1..m /\ (j = m + 1 \/ j \in 1..m)
    BY <1>1, <1>9
  <2>2. f[i] = place[i] /\ place[i] \in P
    BY <1>1, <1>4, <2>1
  <2>. QED
    BY <1>1, <1>4, <1>9, <2>1, <2>2
<1>10. Q \subseteq Nat /\ m + 1 \in Nat
  BY <1>1
<1> HIDE DEF Q
<1>11. InOrder(Q, Less(Q)) = f
  BY <1>6, <1>8, <1>9, <1>10, PlacesUnique
<1>12. At(s, Q) = [i \in DOMAIN f |-> s[f[i]]]
  BY <1>11 DEF At
<1>13. DOMAIN f = 1..(m + 1)
  BY <1>6
<1>14. \A i \in 1..(m + 1) : s[f[i]] = IF i = m + 1 THEN s[k] ELSE t[i]
  BY <1>2, <1>3, <1>4
<1>15. Append(t, s[k]) = [i \in 1..(m + 1) |-> IF i = m + 1 THEN s[k] ELSE t[i]]
  <2>1. s[k] \in T
    OBVIOUS
  <2>2. /\ Append(t, s[k]) \in Seq(T) /\ Len(Append(t, s[k])) = m + 1
        /\ \A i \in 1..(m + 1) : Append(t, s[k])[i] = IF i = m + 1 THEN s[k] ELSE t[i]
    BY <1>1, <1>2, <2>1
  <2>3. Append(t, s[k]) = [i \in 1..(m + 1) |-> Append(t, s[k])[i]]
    BY <1>1, <2>2
  <2>. QED
    BY <2>2, <2>3
<1>. QED
  BY <1>12, <1>13, <1>14, <1>15 DEF Q, t

(* All positions.                                                          *)
LEMMA AtAll ==
  ASSUME NEW T, NEW s \in Seq(T)
  PROVE  At(s, 1..Len(s)) = s
<1> DEFINE P == 1..Len(s)
           f == [i \in P |-> i]
<1>1. Len(s) \in Nat /\ s = [i \in 1..Len(s) |-> s[i]]
  OBVIOUS
<1>2. /\ P \subseteq Nat /\ f \in [1..Len(s) -> P]
      /\ \A x \in P : \E i \in 1..Len(s) : f[i] = x
      /\ \A i, j \in 1..Len(s) : i < j => f[i] < f[j]
  BY <1>1
<1>3. DOMAIN f = 1..Len(s) /\ \A i \in 1..Len(s) : f[i] = i
  OBVIOUS
<1> HIDE DEF P, f
<1>4. InOrder(P, Less(P)) = f
  BY <1>1, <1>2, PlacesUnique
<1>5. At(s, P) = [n \in DOMAIN f |-> s[f[n]]]
  BY <1>4 DEF At
<1>6. At(s, P) = [n \in 1..Len(s) |-> s[n]]
  BY <1>3, <1>5
<1>. QED
  BY <1>1, <1>6 DEF P
================================================================================
