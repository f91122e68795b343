----------------------------- MODULE MCSessionText -----------------------------
(* The text of raw sessions for TLC: the units of an object (SessionUnits)   *)
(* and the windows of a unit (ChunkSplit), of which each behaviour follows   *)
(* one. A unit's text is any of up to MaxLen runes of none to two tokens     *)
(* each, with at most one line feed; where it has an odd position, a         *)
(* substring that ends there counts a token more than its runes, as when a   *)
(* token is cut in two.                                                      *)
EXTENDS MCSessionUnits, ChunkSplit

CONSTANT MaxLen

VARIABLE side    \* "units" or "windows"

Sums(weights) ==
  LET sum[i \in 0..Len(weights)] == IF i = 0 THEN 0 ELSE sum[i - 1] + weights[i]
  IN  [i \in 1..(Len(weights) + 1) |-> sum[i - 1]]

ContentsOf(n) ==
  [sums   : {Sums(w) : w \in [1..n -> 0..2]},
   breaks : {{}} \cup {{i} : i \in 1..(n - 1)},
   odd    : {-1, n - 2}]

MCContents == UNION {ContentsOf(n) : n \in 0..MaxLen}
MCLength(t) == Len(t.sums) - 1
MCBreaks(t) == t.breaks
MCCount(t, i, j) == t.sums[j + 1] - t.sums[i + 1] + IF i < j /\ j = t.odd THEN 1 ELSE 0

NoText == CHOOSE t \in MCContents : MCLength(t) = 0
NoRoom == CHOOSE r \in [setting : Settings, header : Headers] : TRUE

(* The machine that a behaviour does not follow rests in an initial state. *)
TextInit ==
  \/ side = "units" /\ text = NoText /\ room = NoRoom /\ Init /\ SplitInit
  \/ side = "windows" /\ format = "pi" /\ Init /\ SplitInit

TextNext ==
  /\ \/ side = "units" /\ Next /\ UNCHANGED splitVars
     \/ side = "windows" /\ SplitNext /\ UNCHANGED vars
  /\ UNCHANGED side

TextSpec == TextInit /\ [][TextNext]_<<side, vars, splitVars>>
=============================================================================
