------------------------------ MODULE MCQueries ------------------------------
(* Queries for TLC: the slots of a daemon (QuerySlots), a recall from two    *)
(* stores (Recall), and the cache directory that searches read through       *)
(* (CacheSpace); each behaviour follows one. A store has a message of two    *)
(* chunks and one that repeats a body, or three lines of a chat; the other   *)
(* has a few of these.                                                       *)
EXTENDS QuerySlots, Recall, CacheSpace

CONSTANTS home, work, x, y, z, big, small, other, about

VARIABLE side    \* "slots", "recall" or "space"

\* Chunks are <<message, number>>; messages l1, l2 and l3 are lines of a chat.
MCChunks     == {<<"p", 1>>, <<"p", 2>>, <<"q", 1>>, <<"l", 1>>, <<"l", 2>>, <<"l", 3>>}
MCMessage(c) == IF c[1] = "l" THEN c ELSE <<c[1], 0>>
MCChat(c)    == IF c[1] = "l" THEN "chat" ELSE NoChat
MCTime(c)    == c[2]

R(m, n, b) == [chunk |-> <<m, n>>, body |-> b]

Repeats == <<R("p", 1, x), R("p", 2, y), R("q", 1, x)>>
Chat    == <<R("l", 1, x), R("l", 2, y), R("l", 3, z)>>
Few     == <<R("p", 1, x), R("l", 1, y)>>
MCOrder == <<home, work>>

MCTables == {[s \in {home, work} |-> IF s = home THEN t ELSE Few] : t \in {Repeats, Chat}}

\* Blocks of an object and of another, and the metadata of the first.
Lengths == big :> 3 @@ small :> 2 @@ other :> 2 @@ about :> 1
Objects == big :> 1 @@ small :> 1 @@ other :> 2 @@ about :> 1

(* Beside slots or a cache, the recall that rests has one set of tables.     *)
QueriesInit ==
  /\ side \in {"slots", "recall", "space"} /\ Init /\ RecallInit /\ SpaceInit
  /\ side \in {"slots", "space"} => \A s \in Stores : rows[s] # Chat

QueriesNext ==
  /\ \/ side = "slots" /\ Next /\ UNCHANGED <<recallVars, spaceVars>>
     \/ side = "recall" /\ RecallNext /\ UNCHANGED <<vars, spaceVars>>
     \/ side = "space" /\ SpaceNext /\ UNCHANGED <<vars, recallVars>>
     \/ outcome # "waiting" /\ UNCHANGED <<vars, recallVars, spaceVars>>    \* the client has ended
  /\ UNCHANGED side

QueriesSpec == QueriesInit /\ [][QueriesNext]_<<side, vars, recallVars, spaceVars>> /\ Fairness
=============================================================================
