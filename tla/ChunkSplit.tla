------------------------------ MODULE ChunkSplit ------------------------------
(***************************************************************************)
(* How the indexer cuts the text of a unit into overlapping windows of     *)
(* bounded token count (raw_ingest.go, splitTokenChunks and the budget in  *)
(* indexGroups).  The tokenizer is a service: the code only learns token   *)
(* counts of substrings, one request at a time, any of which may fail.     *)
(*                                                                         *)
(* A position is a rune index; a window [from, to] stands for the runes    *)
(* from .. to - 1.  A text is known by its length, the positions of its    *)
(* line feeds and the tokenizer's count for each substring.                *)
(***************************************************************************)
EXTENDS Integers, Sequences

CONSTANTS
  Contents,       \* texts of units
  Length(_),      \* the runes of a text
  Breaks(_),      \* the positions of its line feeds
  Count(_, _, _), \* the tokens of its substring from one position to another
  Settings,       \* values of PI_MEMORYD_CHUNK_TOKENS, the default applied
  Headers,        \* token counts of headers; 0: a unit without a header
  Overlap         \* embedChunkOverlap

ASSUME SplitAssumption ==
  /\ \A t \in Contents :
       /\ Length(t) \in Nat /\ Breaks(t) \subseteq 0..(Length(t) - 1)
       /\ \A i, j \in 0..Length(t) : i <= j => Count(t, i, j) \in Nat
       /\ \A i \in 0..Length(t) : Count(t, i, i) = 0
  /\ Settings \subseteq Nat \ {0} /\ Headers \subseteq Nat /\ Overlap \in Nat \ {0}

VARIABLES
  text,     \* the text being split
  room,     \* the setting and the header that its budget is made from
  pc,       \* the request that is made next, or how the call ended
  start,    \* where the current window starts
  lo, hi,   \* bounds of the current binary search
  best,     \* longest end that was seen to fit
  over,     \* overlapStart: earliest start of the next window so far
  windows   \* chunks

splitVars == <<text, room, pc, start, lo, hi, best, over, windows>>

Searching == {"grow", "shrink"}
Ended     == {"done", "failed", "panicked"}
Mid       == lo + (hi - lo) \div 2
Tokens(i, j) == Count(text, i, j)
Size      == Length(text)
LastEnd   == windows[Len(windows)].to
Window(from, to) == [from |-> from, to |-> to]

(* Mutant: the line feed behind the header is not counted.                 *)
BudgetTight(r) ==
  IF r.header = 0 THEN r.setting
  ELSE IF r.setting - r.header > 2 * Overlap THEN r.setting - r.header ELSE 2 * Overlap

(* The tokens a window may have beside the header of its unit.             *)
Budget(r) ==
  IF r.header = 0 THEN r.setting
  ELSE IF r.setting - r.header - 1 > 2 * Overlap THEN r.setting - r.header - 1 ELSE 2 * Overlap

MaxTokens == Budget(room)

(* make's capacity count / (maxTokens - overlap) + 1, with Go's division   *)
(* that truncates towards zero, is undefined or negative.                  *)
CapacityPanics(count) ==
  \/ MaxTokens = Overlap
  \/ MaxTokens < Overlap /\ count \div (Overlap - MaxTokens) > 1

(* preferTextBoundary: behind the last line feed of the last quarter.      *)
LastQuarter(s, e) == {i \in Breaks(text) : s + ((e - s) * 3) \div 4 <= i /\ i < e}

Boundary(s, e) ==
  IF LastQuarter(s, e) = {} THEN e
  ELSE (CHOOSE i \in LastQuarter(s, e) : \A j \in LastQuarter(s, e) : j <= i) + 1

-----------------------------------------------------------------------------
SplitInit ==
  /\ text \in Contents /\ room \in [setting : Settings, header : Headers]
  /\ pc = "count" /\ windows = <<>>
  /\ start = 0 /\ lo = 0 /\ hi = 0 /\ best = 0 /\ over = 0

(* The whole text fits, or the loop is entered.                            *)
CountAll ==
  /\ pc = "count"
  /\ LET n == Tokens(0, Size) IN
     \/ n <= MaxTokens /\ pc' = "done" /\ windows' = <<Window(0, Size)>>
     \/ n > MaxTokens /\ windows' = windows
        /\ pc' = IF CapacityPanics(n) THEN "panicked" ELSE "rest"
  /\ UNCHANGED <<text, room, start, lo, hi, best, over>>

(* What remains is the last window, or the longest window is searched for. *)
CountRest ==
  /\ pc = "rest"
  /\ \/ start >= Size /\ pc' = "done" /\ UNCHANGED <<windows, lo, hi, best>>
     \/ /\ start < Size /\ Tokens(start, Size) <= MaxTokens
        /\ windows' = Append(windows, Window(start, Size))
        /\ pc' = "done" /\ UNCHANGED <<lo, hi, best>>
     \/ /\ start < Size /\ Tokens(start, Size) > MaxTokens
        /\ lo' = start + 1 /\ hi' = Size /\ best' = start + 1
        /\ pc' = "grow" /\ UNCHANGED windows
  /\ UNCHANGED <<text, room, start, over>>

GrowWindow ==
  /\ pc = "grow" /\ lo <= hi
  /\ IF Tokens(start, Mid) <= MaxTokens
     THEN best' = Mid /\ lo' = Mid + 1 /\ hi' = hi
     ELSE hi' = Mid - 1 /\ UNCHANGED <<best, lo>>
  /\ UNCHANGED <<text, room, pc, start, over, windows>>

Cut ==
  /\ pc = "grow" /\ lo > hi
  /\ LET end == Boundary(start, best) IN
       /\ windows' = Append(windows, Window(start, end))
       /\ over' = end /\ lo' = start /\ hi' = end
  /\ pc' = "shrink"
  /\ UNCHANGED <<text, room, start, best>>

(* Mutant: a tail of exactly the overlap is too long.                      *)
ShrinkStrict ==
  /\ pc = "shrink" /\ lo <= hi
  /\ IF Tokens(Mid, LastEnd) < Overlap
     THEN over' = Mid /\ hi' = Mid - 1 /\ lo' = lo
     ELSE lo' = Mid + 1 /\ UNCHANGED <<over, hi>>
  /\ UNCHANGED <<text, room, pc, start, best, windows>>

Shrink ==
  /\ pc = "shrink" /\ lo <= hi
  /\ IF Tokens(Mid, LastEnd) <= Overlap
     THEN over' = Mid /\ hi' = Mid - 1 /\ lo' = lo
     ELSE lo' = Mid + 1 /\ UNCHANGED <<over, hi>>
  /\ UNCHANGED <<text, room, pc, start, best, windows>>

(* Mutant: a window that is all overlap is started over.                   *)
AdvanceBack ==
  /\ pc = "shrink" /\ lo > hi
  /\ start' = over
  /\ pc' = "rest"
  /\ UNCHANGED <<text, room, lo, hi, best, over, windows>>

(* A window that is all overlap is followed by one that shares nothing.    *)
Advance ==
  /\ pc = "shrink" /\ lo > hi
  /\ start' = IF over <= start THEN LastEnd ELSE over
  /\ pc' = "rest"
  /\ UNCHANGED <<text, room, lo, hi, best, over, windows>>

(* A tokenize request fails: what was cut so far is thrown away.           *)
Fail ==
  /\ \/ pc = "count"
     \/ pc = "rest" /\ start < Size
     \/ pc \in Searching /\ lo <= hi
  /\ pc' = "failed" /\ windows' = <<>>
  /\ UNCHANGED <<text, room, start, lo, hi, best, over>>

SplitNext ==
  \/ CountAll \/ CountRest \/ GrowWindow \/ Cut \/ Shrink \/ Advance \/ Fail

SplitSpec == SplitInit /\ [][SplitNext]_splitVars

-----------------------------------------------------------------------------
(* Properties.                                                             *)

(* A longer substring never has fewer tokens: not so for every tokenizer.  *)
Monotone ==
  \A i, j, k \in 0..Size :
    i <= j /\ j <= k => Tokens(i, j) <= Tokens(i, k) /\ Tokens(j, k) <= Tokens(i, k)

(* Types and bounds: every position lies within the text, the overlap is   *)
(* searched within the window that was cut.                                *)
SplitTypeOK ==
  /\ text \in Contents /\ room \in [setting : Settings, header : Headers]
  /\ pc \in {"count", "rest"} \cup Searching \cup Ended
  /\ windows \in Seq([from : 0..Size, to : 0..Size])
  /\ start \in 0..Size /\ best \in 0..Size /\ over \in 0..Size
  /\ lo \in 0..(Size + 1) /\ hi \in -1..Size

(* Whatever the tokenizer counts, the windows cover the text: the first    *)
(* starts where it starts, each starts behind the start of the one before  *)
(* and no later than its end, so nothing is skipped and the loop ends; and *)
(* when it ends the last window reaches the end of the text.               *)
CoversText ==
  /\ \A i \in DOMAIN windows :
       /\ windows[i].from < windows[i].to \/ Size = 0
       /\ i = 1 => windows[i].from = 0
       /\ i > 1 => /\ windows[i - 1].from < windows[i].from
                   /\ windows[i].from <= windows[i - 1].to
  /\ pc = "done" => windows # <<>> /\ LastEnd = Size

(* With a tokenizer that counts more for more text, a window has at most   *)
(* its budget of tokens, so that header, line feed and window stay within  *)
(* the setting unless the header leaves less than twice the overlap; only  *)
(* a window of one rune may have more.  And no window is cut short: it     *)
(* ends behind a line feed, or one more rune would not have fit.           *)
WindowsFit ==
  pc = "done" /\ Monotone => \A i \in DOMAIN windows :
    LET w == windows[i]  n == Tokens(w.from, w.to) IN
      /\ \/ room.header = 0 /\ n <= room.setting
         \/ room.header > 0 /\ room.header + 1 + n <= room.setting
         \/ room.header > 0 /\ room.setting <= room.header + 2 * Overlap /\ n <= 2 * Overlap
         \/ w.to = w.from + 1
      /\ w.to < Size => w.to - 1 \in Breaks(text) \/ Tokens(w.from, w.to + 1) > MaxTokens

(* Whatever the tokenizer counts, a window repeats a tail of the one       *)
(* before it that has at most Overlap tokens, and one more rune would make *)
(* it more; it repeats nothing only if that would be all of it.            *)
OverlapExact ==
  \A i \in DOMAIN windows \ {1} :
    LET w == windows[i]  v == windows[i - 1] IN
      \/ /\ Tokens(w.from, v.to) <= Overlap
         /\ w.from > 0 /\ Tokens(w.from - 1, v.to) > Overlap
      \/ w.from = v.to /\ Tokens(v.from, v.to) <= Overlap
=============================================================================
