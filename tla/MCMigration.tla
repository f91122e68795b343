------------------------------ MODULE MCMigration ------------------------------
(* Instances of Migration for TLC: turns in either form and in both, in      *)
(* either order and across batches; a turn that changes its form and chunks  *)
(* while it is copied; and a store with a colliding id.                      *)
EXTENDS Migration

CONSTANTS a, b, x, y

Row(turn, part, twin, edition) ==
  [turn |-> turn, part |-> part, twin |-> twin, edition |-> edition]

Store(messages, chunks) ==
  [t \in Tables |-> IF t = "messages" THEN messages ELSE chunks]

PlainA == Row(a, 0, FALSE, x)
TwinA  == Row(a, 0, TRUE, y)
PlainB == Row(b, 0, FALSE, x)
TwinB  == Row(b, 0, TRUE, x)

\* The chunks of a message: two of the plain form of a, one of the others.
ChunksA == <<Row(a, 1, FALSE, x), Row(a, 2, FALSE, x)>>
ChunkTA == Row(a, 1, TRUE, y)
ChunkB  == Row(b, 1, FALSE, x)
ChunkTB == Row(b, 1, TRUE, x)

BothForms  == Store(<<<<PlainA, PlainB, TwinA>>>>, <<ChunksA \o <<ChunkB, ChunkTA>>>>)
TwinFirst  == Store(<<<<TwinA, PlainA, TwinB>>>>, <<<<ChunkTA, ChunkTB>> \o ChunksA>>)
PlainOnes  == Store(<<<<PlainA, PlainB>>>>, <<ChunksA \o <<ChunkB>>>>)
NoRows     == Store(<<<<>>>>, <<<<>>>>)
TwinAppears == Store(<<<<PlainA, PlainB>>, <<PlainB, PlainA, TwinA>>>>,
                     <<ChunksA \o <<ChunkB>>, <<ChunkB>> \o ChunksA \o <<ChunkTA>>>>)
RowsMove   == Store(<<<<PlainA>>, <<PlainB, PlainA>>, <<PlainB>>>>,
                    <<ChunksA, <<ChunkB>> \o ChunksA>>)
TwiceTold  == Store(<<<<PlainA, PlainB, PlainA>>>>, <<<<ChunkB>>>>)
ChunkTwice == Store(<<<<TwinA, PlainA>>>>, <<<<ChunkTA, ChunksA[1], ChunkTA>>>>)

Stores == {BothForms, TwinFirst, PlainOnes, NoRows, TwinAppears, RowsMove,
           TwiceTold, ChunkTwice}
================================================================================
