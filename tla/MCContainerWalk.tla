--------------------------- MODULE MCContainerWalk ---------------------------
(* Instances of ContainerWalk for TLC. *)
EXTENDS ContainerWalk, TLC

CONSTANTS o1, o2, todo

Kind == 1 :> Message @@ 2 :> todo @@ 3 :> Message @@ 4 :> Message

Holding(first, second, carriers, posted) ==
  [holds |-> o1 :> first @@ o2 :> second, carriers |-> carriers, posted |-> posted]

(* A session that grows, in a key that carries its id or not; two months of *)
(* a chat; two sessions' files with interleaved records; posted rows.       *)
Walked ==
  { Holding(<<{1, 2}, {1, 2, 3}>>, <<>>, {o1}, {}),
    Holding(<<{1, 2}, {1, 2, 3}>>, <<>>, {}, {4}),
    Holding(<<{1, 2}>>, <<{3}, {3, 4}>>, {o1, o2}, {}),
    Holding(<<{1, 3}>>, <<{2, 4}>>, {o1}, {}) }

ASSUME UploadsGrow
=============================================================================
