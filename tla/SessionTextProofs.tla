---------------------------- MODULE SessionTextProofs ----------------------------
(***************************************************************************)
(* The text of raw sessions.  ChunkSplit: for every text, tokenizer and    *)
(* setting the windows cover the text and overlap as they should, and for  *)
(* every monotone tokenizer they are as long as the budget allows.         *)
(*                                                                         *)
(* SessionUnits, whatever lines an object grows by: a walk reads the       *)
(* messages that are indexed (Lockstep), no two records share an id        *)
(* (UniqueInv), titles are shown (TitleInv), and records and units that    *)
(* were derived before stay. A line that is read moves the loop (Moved),   *)
(* adds what its parts report (Parted) and then at most one record or      *)
(* waiting title (Adds); a chat's line adds or edits one message.          *)
(***************************************************************************)
EXTENDS SessionUnits, ChunkSplit, OrderedProofs

-----------------------------------------------------------------------------
(* The windows of a text.                                                  *)

(* What one finished window owes to the budget.                             *)
Filled(w) ==
  /\ Tokens(w.from, w.to) <= MaxTokens \/ w.to = w.from + 1
  /\ w.to < Size => w.to - 1 \in Breaks(text) \/ Tokens(w.from, w.to + 1) > MaxTokens

(* What a window that starts at s owes to v, the window before it.          *)
Follows(v, s) ==
  /\ v.from < s /\ s <= v.to
  /\ \/ Tokens(s, v.to) <= Overlap /\ s > 0 /\ Tokens(s - 1, v.to) > Overlap
     \/ s = v.to /\ Tokens(v.from, v.to) <= Overlap

LastWindow == windows[Len(windows)]

Chained ==
  \A i \in DOMAIN windows :
    /\ windows[i].from < windows[i].to \/ Size = 0
    /\ i = 1 => windows[i].from = 0
    /\ i > 1 => Follows(windows[i - 1], windows[i].from)
    /\ Monotone => Filled(windows[i])

(* The next window starts where it may.                                     *)
Ready ==
  /\ Size > 0
  /\ windows = <<>> => start = 0
  /\ windows # <<>> => Follows(LastWindow, start)

(* The search for the longest window: what is below lo fits, what is above  *)
(* hi does not.                                                             *)
Growing ==
  /\ start < Size /\ start < best /\ Tokens(start, Size) > MaxTokens
  /\ lo > start /\ lo <= hi + 1
  /\ best = start + 1 \/ Tokens(start, best) <= MaxTokens
  /\ lo = best + 1 \/ (lo = start + 1 /\ best = start + 1)
  /\ hi = Size \/ Tokens(start, hi + 1) > MaxTokens

(* The search for the longest tail: from over on it fits, from lo - 1 on it *)
(* does not.                                                                *)
Shrinking ==
  /\ windows # <<>> /\ LastWindow.from = start /\ start < LastEnd
  /\ start <= over /\ over <= LastEnd /\ start <= lo /\ lo <= hi + 1 /\ hi <= LastEnd
  /\ Tokens(over, LastEnd) <= Overlap
  /\ hi = over - 1 \/ (hi = LastEnd /\ over = LastEnd)
  /\ lo = start \/ Tokens(lo - 1, LastEnd) > Overlap

Phase ==
  /\ pc = "count" => windows = <<>> /\ start = 0
  /\ pc \in {"rest", "grow"} => Ready
  /\ pc = "grow" => Growing
  /\ pc = "shrink" => Shrinking
  /\ pc = "done" => windows # <<>> /\ LastEnd = Size
  /\ pc \in {"failed", "panicked"} => windows = <<>>

SplitInv == SplitTypeOK /\ Chained /\ Phase

-----------------------------------------------------------------------------
(* What is known of the text that is being split.                           *)
LEMMA TextType ==
  ASSUME text \in Contents
  PROVE  /\ Size \in Nat /\ Breaks(text) \subseteq 0..(Size - 1)
         /\ \A i, j \in 0..Size : i <= j => Tokens(i, j) \in Nat
         /\ \A i \in 0..Size : Tokens(i, i) = 0
BY SplitAssumption DEF SplitAssumption, Size, Tokens

LEMMA BudgetType ==
  ASSUME room \in [setting : Settings, header : Headers]
  PROVE  /\ MaxTokens \in Nat \ {0} /\ Overlap \in Nat \ {0}
         /\ room.setting \in Nat /\ room.header \in Nat
<1>1. room.setting \in Nat \ {0} /\ room.header \in Nat /\ Overlap \in Nat \ {0}
  BY SplitAssumption DEF SplitAssumption
<1>2. QED
  BY <1>1 DEF MaxTokens, Budget

LEMMA MidBetween ==
  ASSUME lo \in Int, hi \in Int, lo <= hi
  PROVE  Mid \in Int /\ lo <= Mid /\ Mid <= hi
BY DEF Mid

(* The cut is within the window, and behind a line feed unless at its end.  *)
LEMMA BoundaryWithin ==
  ASSUME text \in Contents, NEW s \in 0..Size, NEW e \in 0..Size, s < e
  PROVE  /\ Boundary(s, e) \in Int /\ s < Boundary(s, e) /\ Boundary(s, e) <= e
         /\ Boundary(s, e) # e => Boundary(s, e) - 1 \in Breaks(text)
<1>1. Size \in Nat /\ Breaks(text) \subseteq 0..(Size - 1)
  BY TextType
<1>2. CASE LastQuarter(s, e) = {}
  BY <1>1, <1>2 DEF Boundary
<1>3. CASE LastQuarter(s, e) # {}
  <2> DEFINE i == CHOOSE x \in LastQuarter(s, e) : \A y \in LastQuarter(s, e) : y <= x
  <2>1. LastQuarter(s, e) \subseteq 0..Size
    BY <1>1 DEF LastQuarter
  <2>2. \E x \in LastQuarter(s, e) : \A y \in LastQuarter(s, e) : y <= x
    BY <2>1, <1>1, <1>3, GreatestBelow
  <2>3. i \in LastQuarter(s, e)
    BY <2>2
  <2>4. i \in Breaks(text) /\ i \in 0..(Size - 1) /\ s + ((e - s) * 3) \div 4 <= i /\ i < e
    BY <2>3, <1>1 DEF LastQuarter
  <2>5. Boundary(s, e) = i + 1
    BY <1>3 DEF Boundary
  <2> HIDE DEF i
  <2>6. s <= i
    BY <2>4, <1>1
  <2>7. QED
    BY <2>4, <2>5, <2>6, <1>1
<1>4. QED
  BY <1>2, <1>3

-----------------------------------------------------------------------------
(* The initial state.                                                       *)
LEMMA SplitInitInv == ASSUME SplitInit PROVE SplitInv
<1>1. Size \in Nat
  BY TextType DEF SplitInit
<1>2. SplitTypeOK
  BY <1>1 DEF SplitInit, SplitTypeOK, Searching, Ended
<1>3. Chained /\ Phase
  BY DEF SplitInit, Chained, Phase
<1>4. QED
  BY <1>2, <1>3 DEF SplitInv

(* What a step leaves alone keeps its meaning.                              *)
LEMMA SameText ==
  ASSUME UNCHANGED <<text, room>>
  PROVE  /\ Size' = Size /\ MaxTokens' = MaxTokens /\ Monotone' = Monotone
         /\ Breaks(text)' = Breaks(text)
         /\ \A i, j : Tokens(i, j)' = Tokens(i, j)
BY DEF Size, MaxTokens, Monotone, Tokens, Budget

(* Appending a window keeps the chain if the window is as it should be.     *)
LEMMA ChainGrows ==
  ASSUME SplitTypeOK, Chained, UNCHANGED <<text, room>>,
         NEW w \in [from : 0..Size, to : 0..Size],
         windows' = Append(windows, w),
         w.from < w.to \/ Size = 0,
         windows = <<>> => w.from = 0,
         windows # <<>> => Follows(LastWindow, w.from),
         Monotone => Filled(w)
  PROVE  /\ Chained'
         /\ windows' \in Seq([from : 0..Size, to : 0..Size])
         /\ windows' # <<>> /\ LastWindow' = w /\ LastEnd' = w.to
<1>1. windows \in Seq([from : 0..Size, to : 0..Size])
  BY DEF SplitTypeOK
<1>2. /\ windows' \in Seq([from : 0..Size, to : 0..Size])
      /\ Len(windows') = Len(windows) + 1 /\ Len(windows) \in Nat
      /\ \A i \in 1..Len(windows) : windows'[i] = windows[i]
      /\ windows'[Len(windows) + 1] = w
  BY <1>1
<1>3. windows' # <<>> /\ LastWindow' = w /\ LastEnd' = w.to
  BY <1>2 DEF LastWindow, LastEnd
<1>4. Size' = Size /\ Monotone' = Monotone
  BY SameText
<1>5. /\ \A v : Filled(v)' = Filled(v)
      /\ \A v, s : Follows(v, s)' = Follows(v, s)
  BY SameText DEF Filled, Follows
<1>6. ASSUME NEW i \in DOMAIN windows'
      PROVE  /\ windows'[i].from < windows'[i].to \/ Size = 0
             /\ i = 1 => windows'[i].from = 0
             /\ i > 1 => Follows(windows'[i - 1], windows'[i].from)
             /\ Monotone => Filled(windows'[i])
  <2>1. i \in 1..(Len(windows) + 1)
    BY <1>2
  <2>2. CASE i \in 1..Len(windows)
    <3>1. /\ windows[i].from < windows[i].to \/ Size = 0
          /\ i = 1 => windows[i].from = 0
          /\ i > 1 => Follows(windows[i - 1], windows[i].from)
          /\ Monotone => Filled(windows[i])
      BY SMTT(30), <1>1, <2>2 DEF Chained
    <3>2. windows'[i] = windows[i] /\ (i > 1 => windows'[i - 1] = windows[i - 1])
      BY SMTT(30), <1>2, <2>2
    <3>3. QED
      BY <3>1, <3>2, <2>1
  <2>3. CASE i = Len(windows) + 1
    <3>1. windows'[i] = w
      BY <1>2, <2>3
    <3>2. i = 1 => windows = <<>>
      BY <1>1, <1>2, <2>3
    <3>3. i > 1 => windows # <<>> /\ windows'[i - 1] = LastWindow
      BY <1>1, <1>2, <2>3 DEF LastWindow
    <3>4. QED
      BY <3>1, <3>2, <3>3
  <2>4. i \in 1..Len(windows) \/ i = Len(windows) + 1
    BY <1>2, <2>1
  <2>5. QED
    BY <2>2, <2>3, <2>4, Zenon
<1>7. Chained'
  BY <1>4, <1>5, <1>6 DEF Chained
<1>8. QED
  BY <1>2, <1>3, <1>7

(* A step that leaves the windows alone keeps the chain.                    *)
LEMMA ChainStays ==
  ASSUME Chained, UNCHANGED <<text, room, windows>>
  PROVE  Chained' /\ LastWindow' = LastWindow /\ LastEnd' = LastEnd
<1>1. /\ \A v : Filled(v)' = Filled(v)
      /\ \A v, s : Follows(v, s)' = Follows(v, s)
  BY SameText DEF Filled, Follows
<1>2. QED
  BY <1>1, SameText DEF Chained, LastWindow, LastEnd

(* The last window, and its end.                                            *)
LEMMA LastType ==
  ASSUME SplitTypeOK, windows # <<>>
  PROVE  /\ LastWindow \in [from : 0..Size, to : 0..Size] /\ LastEnd = LastWindow.to
         /\ Len(windows) \in DOMAIN windows
<1> DEFINE S == [from : 0..Size, to : 0..Size]
<1>1. windows \in Seq(S)
  BY DEF SplitTypeOK
<1> HIDE DEF S
<1>2. Len(windows) \in Nat /\ Len(windows) # 0 /\ DOMAIN windows = 1..Len(windows)
  BY <1>1
<1>3. Len(windows) \in DOMAIN windows
  BY <1>2
<1>4. windows[Len(windows)] \in S
  BY <1>1, <1>3
<1>5. QED
  BY <1>3, <1>4 DEF LastWindow, LastEnd, S

(* The whole text is a window, or the loop is entered.                      *)
LEMMA CountAllInv == ASSUME SplitInv, CountAll PROVE SplitInv'
<1>1. /\ Size \in Nat /\ Tokens(0, Size) \in Nat /\ Tokens(0, 0) = 0
      /\ MaxTokens \in Nat \ {0}
  BY SMTT(30), TextType, BudgetType DEF SplitInv, SplitTypeOK
<1>2. windows = <<>> /\ start = 0 /\ UNCHANGED <<text, room, start, lo, hi, best, over>>
  BY DEF SplitInv, Phase, CountAll
<1>3. CASE Tokens(0, Size) <= MaxTokens
  <2>1. windows' = <<Window(0, Size)>> /\ pc' = "done"
    BY <1>1, <1>3 DEF CountAll
  <2> DEFINE w == Window(0, Size)
  <2>2. /\ w \in [from : 0..Size, to : 0..Size] /\ windows' = Append(windows, w)
        /\ w.from < w.to \/ Size = 0
        /\ w.from = 0 /\ w.to = Size /\ Filled(w)
    BY <1>1, <1>2, <1>3, <2>1 DEF Window, Filled
  <2> HIDE DEF w
  <2>3. /\ Chained' /\ windows' \in Seq([from : 0..Size, to : 0..Size])
        /\ windows' # <<>> /\ LastEnd' = Size
    BY <1>2, <2>2, ChainGrows DEF SplitInv
  <2>4. QED
    BY <1>2, <2>1, <2>3, SameText DEF SplitInv, SplitTypeOK, Phase, Ended
<1>4. CASE Tokens(0, Size) > MaxTokens
  <2>1. UNCHANGED windows /\ pc' \in {"panicked", "rest"}
    BY <1>1, <1>4 DEF CountAll
  <2>2. Size > 0
    BY <1>1, <1>4
  <2>3. Chained'
    BY <1>2, <2>1, ChainStays DEF SplitInv
  <2>4. SplitTypeOK'
    BY <1>2, <2>1, SameText DEF SplitInv, SplitTypeOK, Ended, Searching
  <2>5. Ready' /\ Phase'
    BY <1>2, <2>1, <2>2, SameText DEF Phase, Ready
  <2>6. QED
    BY <2>3, <2>4, <2>5 DEF SplitInv
<1>5. QED
  BY <1>1, <1>3, <1>4

(* The rest is the last window, or the search for a window begins.          *)
LEMMA CountRestInv == ASSUME SplitInv, CountRest PROVE SplitInv'
<1>1. /\ Size \in Nat /\ start \in 0..Size /\ MaxTokens \in Nat \ {0}
      /\ Tokens(start, Size) \in Nat
  BY SMTT(30), TextType, BudgetType DEF SplitInv, SplitTypeOK
<1>2. pc = "rest" /\ Ready /\ UNCHANGED <<text, room, start, over>>
  BY DEF SplitInv, Phase, CountRest
<1>3. CASE start >= Size
  <2>1. pc' = "done" /\ UNCHANGED <<windows, lo, hi, best>>
    BY <1>1, <1>3 DEF CountRest
  <2>2. windows # <<>> /\ start <= LastWindow.to
    BY <1>1, <1>2, <1>3 DEF Ready, Follows
  <2>3. LastEnd \in 0..Size /\ LastEnd = LastWindow.to
    BY <2>2, LastType DEF SplitInv
  <2>4. LastEnd = Size
    BY <1>1, <1>3, <2>2, <2>3
  <2>5. Chained' /\ LastEnd' = LastEnd
    BY <1>2, <2>1, ChainStays DEF SplitInv
  <2>6. QED
    BY <1>2, <2>1, <2>2, <2>4, <2>5, SameText DEF SplitInv, SplitTypeOK, Phase, Ended
<1>4. CASE start < Size /\ Tokens(start, Size) <= MaxTokens
  <2>1. /\ windows' = Append(windows, Window(start, Size)) /\ pc' = "done"
        /\ UNCHANGED <<lo, hi, best>>
    BY <1>1, <1>4 DEF CountRest
  <2> DEFINE w == Window(start, Size)
  <2>2. /\ w \in [from : 0..Size, to : 0..Size] /\ windows' = Append(windows, w)
        /\ w.from < w.to /\ w.from = start /\ w.to = Size /\ Filled(w)
    BY <1>1, <1>4, <2>1 DEF Window, Filled
  <2> HIDE DEF w
  <2>3. /\ windows = <<>> => w.from = 0
        /\ windows # <<>> => Follows(LastWindow, w.from)
    BY <1>2, <2>2 DEF Ready
  <2>4. /\ Chained' /\ windows' \in Seq([from : 0..Size, to : 0..Size])
        /\ windows' # <<>> /\ LastEnd' = Size
    BY <1>2, <2>2, <2>3, ChainGrows DEF SplitInv
  <2>5. QED
    BY <1>2, <2>1, <2>4, SameText DEF SplitInv, SplitTypeOK, Phase, Ended
<1>5. CASE start < Size /\ Tokens(start, Size) > MaxTokens
  <2>1. /\ UNCHANGED windows /\ pc' = "grow"
        /\ lo' = start + 1 /\ hi' = Size /\ best' = start + 1
    BY <1>1, <1>5 DEF CountRest
  <2>2. Chained' /\ LastWindow' = LastWindow
    BY <1>2, <2>1, ChainStays DEF SplitInv
  <2>3. SplitTypeOK'
    BY <1>1, <1>2, <1>5, <2>1, SameText DEF SplitInv, SplitTypeOK, Searching
  <2>4. Ready'
    BY <1>2, <2>1, <2>2, SameText DEF Ready, Follows
  <2>5. Growing'
    BY <1>1, <1>2, <1>5, <2>1, SameText DEF Growing
  <2>6. QED
    BY <2>1, <2>2, <2>3, <2>4, <2>5 DEF SplitInv, Phase
<1>6. QED
  BY <1>1, <1>3, <1>4, <1>5

(* A probe of the search for the longest window.                            *)
LEMMA GrowInv == ASSUME SplitInv, GrowWindow PROVE SplitInv'
<1>1. /\ Size \in Nat /\ start \in 0..Size /\ best \in 0..Size
      /\ lo \in 0..(Size + 1) /\ hi \in -1..Size
      /\ MaxTokens \in Nat \ {0}
      /\ \A i, j \in 0..Size : i <= j => Tokens(i, j) \in Nat
  BY TextType, BudgetType DEF SplitInv, SplitTypeOK
<1>2. /\ pc = "grow" /\ lo <= hi /\ Ready /\ Growing
      /\ UNCHANGED <<text, room, pc, start, over, windows>>
  BY DEF SplitInv, Phase, GrowWindow
<1>3. Mid \in Int /\ lo <= Mid /\ Mid <= hi
  BY <1>1, <1>2, MidBetween
<1>4. Chained' /\ LastWindow' = LastWindow
  BY <1>2, ChainStays DEF SplitInv
<1>5. Ready'
  BY <1>2, <1>4, SameText DEF Ready, Follows
<1>6. CASE Tokens(start, Mid) <= MaxTokens
  <2>1. best' = Mid /\ lo' = Mid + 1 /\ hi' = hi
    BY <1>6 DEF GrowWindow
  <2>2. SplitTypeOK'
    BY <1>1, <1>2, <1>3, <2>1, SameText DEF SplitInv, SplitTypeOK
  <2>3. Growing'
    BY <1>1, <1>2, <1>3, <1>6, <2>1, SameText DEF Growing, Tokens
  <2>4. QED
    BY <1>2, <1>4, <1>5, <2>2, <2>3 DEF SplitInv, Phase
<1>7. CASE ~(Tokens(start, Mid) <= MaxTokens)
  <2>1. hi' = Mid - 1 /\ UNCHANGED <<best, lo>>
    BY <1>7 DEF GrowWindow
  <2>2. SplitTypeOK'
    BY <1>1, <1>2, <1>3, <2>1, SameText DEF SplitInv, SplitTypeOK
  <2>3. Tokens(start, Mid) > MaxTokens /\ hi' + 1 = Mid
    BY <1>1, <1>2, <1>3, <1>7, <2>1 DEF Growing
  <2>4. Tokens(start, hi + 1)' = Tokens(start, Mid)
    BY <1>2, <2>3 DEF Tokens
  <2>5. /\ (start < Size /\ start < best /\ Tokens(start, Size) > MaxTokens)'
        /\ (best = start + 1 \/ Tokens(start, best) <= MaxTokens)'
        /\ (lo = best + 1 \/ (lo = start + 1 /\ best = start + 1))'
    BY <1>2, <2>1, SameText DEF Growing
  <2>6. lo' > start' /\ lo' <= hi' + 1
    BY <1>1, <1>2, <1>3, <2>1 DEF Growing
  <2>7. MaxTokens' = MaxTokens
    BY <1>2, SameText
  <2>8. Growing'
    BY <2>3, <2>4, <2>5, <2>6, <2>7 DEF Growing
  <2>9. QED
    BY <1>2, <1>4, <1>5, <2>2, <2>8 DEF SplitInv, Phase
<1>8. QED
  BY <1>6, <1>7

(* The cut of a window.                                                     *)
LEMMA CutInv == ASSUME SplitInv, Cut PROVE SplitInv'
<1>1. /\ Size \in Nat /\ start \in 0..Size /\ best \in 0..Size
      /\ lo \in 0..(Size + 1) /\ hi \in -1..Size
      /\ MaxTokens \in Nat \ {0} /\ Overlap \in Nat \ {0}
      /\ \A i, j \in 0..Size : i <= j => Tokens(i, j) \in Nat
      /\ \A i \in 0..Size : Tokens(i, i) = 0
  BY TextType, BudgetType DEF SplitInv, SplitTypeOK
<1> DEFINE end == Boundary(start, best)
           w == Window(start, end)
<1>2. /\ pc = "grow" /\ lo > hi /\ Ready /\ Growing
      /\ UNCHANGED <<text, room, start, best>> /\ pc' = "shrink"
      /\ windows' = Append(windows, w) /\ over' = end /\ lo' = start /\ hi' = end
  BY DEF SplitInv, Phase, Cut
<1>3. /\ end \in Int /\ start < end /\ end <= best
      /\ end # best => end - 1 \in Breaks(text)
  BY <1>1, <1>2, BoundaryWithin DEF SplitInv, SplitTypeOK, Growing
<1> HIDE DEF end
<1>4. /\ w \in [from : 0..Size, to : 0..Size] /\ w.from = start /\ w.to = end
  BY <1>1, <1>3 DEF Window
<1> HIDE DEF w
<1>5. best = Size \/ Tokens(start, best + 1) > MaxTokens \/ (best = start + 1 /\ hi = start)
  <2>1. lo = hi + 1 /\ (lo = best + 1 \/ (lo = start + 1 /\ best = start + 1))
    BY <1>1, <1>2 DEF Growing
  <2>2. hi = Size \/ Tokens(start, hi + 1) > MaxTokens
    BY <1>2 DEF Growing
  <2>3. hi = best \/ (hi = start /\ best = start + 1)
    BY <1>1, <2>1
  <2>4. CASE hi = best
    BY <2>2, <2>4
  <2>5. QED
    BY <2>3, <2>4
<1>6. best = start + 1 /\ hi = start => Tokens(start, best) > MaxTokens
  BY <1>1, <1>2 DEF Growing
<1>7. ASSUME Monotone PROVE Filled(w)
  <2>1. \A j, k \in 0..Size : start <= j /\ j <= k => Tokens(start, j) <= Tokens(start, k)
    BY <1>1, <1>7 DEF Monotone
  <2>2. CASE end = best
    <3>1. Tokens(start, end) <= MaxTokens \/ end = start + 1
      BY <1>2, <2>2 DEF Growing
    <3>2. ASSUME end < Size PROVE Tokens(start, end + 1) > MaxTokens
      <4>1. CASE best = start + 1 /\ hi = start
        <5>1. Tokens(start, best) <= Tokens(start, best + 1)
          BY <1>1, <1>3, <2>1, <2>2, <3>2
        <5>2. Tokens(start, best) \in Nat /\ Tokens(start, best + 1) \in Nat
          BY <1>1, <1>3, <2>2, <3>2
        <5>3. QED
          BY <4>1, <5>1, <5>2, <1>1, <1>6, <2>2
      <4>2. QED
        BY <4>1, <1>1, <1>3, <1>5, <2>2, <3>2
    <3>3. QED
      BY <3>1, <3>2, <1>4 DEF Filled
  <2>3. CASE end # best
    <3>1. end - 1 \in Breaks(text) /\ best # start + 1
      BY <1>1, <1>3, <2>3
    <3>2. /\ Tokens(start, best) <= MaxTokens
          /\ Tokens(start, end) <= Tokens(start, best)
      <4>1. Tokens(start, best) <= MaxTokens
        BY <1>2, <3>1 DEF Growing
      <4>2. QED
        BY <1>1, <1>3, <2>1, <4>1
    <3>3. Tokens(start, best) \in Nat /\ Tokens(start, end) \in Nat
      BY <1>1, <1>3
    <3>4. QED
      BY <3>1, <3>2, <3>3, <1>1, <1>4 DEF Filled
  <2>4. QED
    BY <2>2, <2>3
<1>8. /\ windows = <<>> => w.from = 0
      /\ windows # <<>> => Follows(LastWindow, w.from)
  BY <1>2, <1>4 DEF Ready
<1>9. w.from < w.to
  BY <1>3, <1>4
<1>10. /\ Chained' /\ windows' \in Seq([from : 0..Size, to : 0..Size])
       /\ windows' # <<>> /\ LastWindow' = w /\ LastEnd' = w.to
  BY <1>2, <1>4, <1>7, <1>8, <1>9, ChainGrows DEF SplitInv
<1>11. SplitTypeOK'
  BY <1>1, <1>2, <1>3, <1>10, SameText DEF SplitInv, SplitTypeOK, Searching
<1>12. LastEnd' = end /\ over' = end /\ Tokens(end, end) = 0 /\ LastWindow'.from = start
  BY <1>1, <1>2, <1>3, <1>4, <1>10
<1>13. Tokens(over, LastEnd)' = 0
  BY <1>2, <1>12 DEF Tokens
<1>14. Shrinking'
  BY SMTT(30), <1>1, <1>2, <1>3, <1>10, <1>12, <1>13 DEF Shrinking
<1>15. QED
  BY <1>2, <1>10, <1>11, <1>14 DEF SplitInv, Phase

(* A probe of the search for the longest tail.                              *)
LEMMA ShrinkInv == ASSUME SplitInv, Shrink PROVE SplitInv'
<1>1. /\ Size \in Nat /\ start \in 0..Size /\ over \in 0..Size
      /\ lo \in 0..(Size + 1) /\ hi \in -1..Size /\ Overlap \in Nat \ {0}
      /\ \A i, j \in 0..Size : i <= j => Tokens(i, j) \in Nat
  BY TextType, BudgetType DEF SplitInv, SplitTypeOK
<1>2. /\ pc = "shrink" /\ lo <= hi /\ Shrinking
      /\ UNCHANGED <<text, room, pc, start, best, windows>>
  BY DEF SplitInv, Phase, Shrink
<1>3. Mid \in Int /\ lo <= Mid /\ Mid <= hi
  BY <1>1, <1>2, MidBetween
<1>4. Chained' /\ LastWindow' = LastWindow /\ LastEnd' = LastEnd
  BY <1>2, ChainStays DEF SplitInv
<1>5. LastEnd \in 0..Size
  BY <1>2, LastType DEF SplitInv, Shrinking
<1>6. Mid \in 0..Size /\ Mid <= LastEnd /\ Tokens(Mid, LastEnd) \in Nat
  <2>1. hi <= LastEnd
    BY <1>2 DEF Shrinking
  <2>2. Mid \in 0..Size /\ Mid <= LastEnd
    BY <1>1, <1>3, <1>5, <2>1
  <2>3. QED
    BY <1>1, <1>5, <2>2
<1>7. CASE Tokens(Mid, LastEnd) <= Overlap
  <2>1. over' = Mid /\ hi' = Mid - 1 /\ lo' = lo
    BY <1>7 DEF Shrink
  <2>2. SplitTypeOK'
    BY <1>1, <1>2, <1>3, <2>1, SameText DEF SplitInv, SplitTypeOK
  <2>3. Tokens(over, LastEnd)' <= Overlap
    BY <1>2, <1>4, <1>7, <2>1 DEF Tokens
  <2>4. (lo = start \/ Tokens(lo - 1, LastEnd) > Overlap)'
    BY <1>2, <1>4, <2>1 DEF Shrinking, Tokens
  <2>5. /\ (start <= over /\ over <= LastEnd /\ start <= lo /\ lo <= hi + 1 /\ hi <= LastEnd)'
        /\ (hi = over - 1)'
    BY SMTT(30), <1>1, <1>2, <1>3, <1>4, <1>5, <2>1 DEF Shrinking
  <2>6. (windows # <<>> /\ LastWindow.from = start /\ start < LastEnd)'
    BY <1>2, <1>4 DEF Shrinking
  <2>7. Shrinking'
    BY <2>3, <2>4, <2>5, <2>6 DEF Shrinking
  <2>8. QED
    BY <1>2, <1>4, <2>2, <2>7 DEF SplitInv, Phase
<1>8. CASE ~(Tokens(Mid, LastEnd) <= Overlap)
  <2>1. lo' = Mid + 1 /\ UNCHANGED <<over, hi>>
    BY <1>8 DEF Shrink
  <2>2. SplitTypeOK'
    BY <1>1, <1>2, <1>3, <2>1, SameText DEF SplitInv, SplitTypeOK
  <2>3. Tokens(Mid, LastEnd) > Overlap /\ lo' - 1 = Mid
    BY <1>1, <1>6, <1>8, <2>1
  <2>4. Shrinking'
    BY <1>1, <1>2, <1>3, <1>4, <1>5, <2>1, <2>3, SameText DEF Shrinking, Tokens
  <2>5. QED
    BY <1>2, <1>4, <2>2, <2>4 DEF SplitInv, Phase
<1>9. QED
  BY <1>7, <1>8

(* The next window starts.                                                  *)
LEMMA AdvanceInv == ASSUME SplitInv, Advance PROVE SplitInv'
<1>1. /\ Size \in Nat /\ start \in 0..Size /\ over \in 0..Size
      /\ lo \in 0..(Size + 1) /\ hi \in -1..Size /\ Overlap \in Nat \ {0}
      /\ \A i \in 0..Size : Tokens(i, i) = 0
  BY TextType, BudgetType DEF SplitInv, SplitTypeOK
<1>2. /\ pc = "shrink" /\ lo > hi /\ Shrinking /\ pc' = "rest"
      /\ start' = IF over <= start THEN LastEnd ELSE over
      /\ UNCHANGED <<text, room, lo, hi, best, over, windows>>
  BY DEF SplitInv, Phase, Advance
<1>3. Chained' /\ LastWindow' = LastWindow /\ LastEnd' = LastEnd
  BY <1>2, ChainStays DEF SplitInv
<1>4. LastEnd \in 0..Size /\ LastEnd = LastWindow.to
  BY <1>2, LastType DEF SplitInv, Shrinking
<1>5. lo = over /\ hi = over - 1
  BY <1>1, <1>2, <1>4 DEF Shrinking
<1>6. over = start \/ (over > start /\ over > 0 /\ Tokens(over - 1, LastEnd) > Overlap)
  BY <1>1, <1>2, <1>5 DEF Shrinking
<1>7. Follows(LastWindow, start')
  BY <1>1, <1>2, <1>4, <1>6 DEF Shrinking, Follows
<1>8. SplitTypeOK'
  BY <1>1, <1>2, <1>4, SameText DEF SplitInv, SplitTypeOK, Searching
<1>9. Ready'
  BY <1>1, <1>2, <1>3, <1>4, <1>7, SameText DEF Ready, Shrinking, Follows
<1>10. QED
  BY <1>2, <1>3, <1>8, <1>9 DEF SplitInv, Phase

(* A request fails.                                                         *)
LEMMA FailInv == ASSUME SplitInv, Fail PROVE SplitInv'
<1>1. pc' = "failed" /\ windows' = <<>> /\ UNCHANGED <<text, room, start, lo, hi, best, over>>
  BY DEF Fail
<1>2. SplitTypeOK'
  BY <1>1, SameText DEF SplitInv, SplitTypeOK, Ended
<1>3. QED
  BY <1>1, <1>2 DEF SplitInv, Chained, Phase

(* Every step of a split, or none, keeps what the searches know.             *)
THEOREM SplitStepInv == ASSUME SplitInv, [SplitNext]_splitVars PROVE SplitInv'
<1>1. CASE SplitNext
  BY <1>1, CountAllInv, CountRestInv, GrowInv, CutInv, ShrinkInv, AdvanceInv, FailInv DEF SplitNext
<1>2. CASE UNCHANGED splitVars
  <2>1. UNCHANGED <<text, room, pc, start, lo, hi, best, over, windows>>
    BY <1>2 DEF splitVars
  <2>2. Chained' /\ LastWindow' = LastWindow /\ LastEnd' = LastEnd
    BY <2>1, ChainStays DEF SplitInv
  <2>3. SplitTypeOK'
    BY <2>1, SameText DEF SplitInv, SplitTypeOK
  <2>4. Phase'
    BY <2>1, <2>2, SameText DEF SplitInv, Phase, Ready, Growing, Shrinking, Follows, Tokens
  <2>5. QED
    BY <2>2, <2>3, <2>4 DEF SplitInv
<1>3. QED
  BY <1>1, <1>2

(* What the windows of every reachable state rest on (splitTokenChunks).     *)
THEOREM SpecSplitInv == SplitSpec => []SplitInv
BY SplitInitInv, SplitStepInv, PTL DEF SplitSpec

(* Positions and bounds stay within the text.                               *)
THEOREM SpecTypeOK == SplitSpec => []SplitTypeOK
<1>1. SplitInv => SplitTypeOK
  BY DEF SplitInv
<1>2. QED
  BY <1>1, SpecSplitInv, PTL

(* Whatever the tokenizer counts, the windows of a finished split cover the *)
(* text and every window starts behind the one before: the loop advances.   *)
THEOREM SpecCoversText == SplitSpec => []CoversText
<1>1. SplitInv => CoversText
  BY DEF SplitInv, Chained, Phase, CoversText, Follows
<1>2. QED
  BY <1>1, SpecSplitInv, PTL

(* Whatever the tokenizer counts, neighbours share as much as the overlap   *)
(* allows, and nothing only if the window before is all overlap.            *)
THEOREM SpecOverlapExact == SplitSpec => []OverlapExact
<1>1. ASSUME SplitInv PROVE OverlapExact
  <2>1. ASSUME NEW i \in DOMAIN windows \ {1} PROVE Follows(windows[i - 1], windows[i].from)
    <3>1. windows \in Seq([from : 0..Size, to : 0..Size])
      BY <1>1 DEF SplitInv, SplitTypeOK
    <3>2. i \in Nat /\ i > 1
      BY <2>1, <3>1
    <3>3. QED
      BY <1>1, <2>1, <3>2 DEF SplitInv, Chained
  <2>2. QED
    BY <2>1 DEF OverlapExact, Follows
<1>2. QED
  BY <1>1, SpecSplitInv, PTL

(* A tokenizer that counts more for more text: windows keep to the budget,  *)
(* with the header within the setting if it leaves enough, and none is cut  *)
(* short.                                                                   *)
THEOREM SpecWindowsFit == SplitSpec => []WindowsFit
<1>1. ASSUME SplitInv PROVE WindowsFit
  <2>1. SUFFICES ASSUME Monotone, NEW i \in DOMAIN windows
                 PROVE  LET w == windows[i]  n == Tokens(w.from, w.to) IN
                   /\ \/ room.header = 0 /\ n <= room.setting
                      \/ room.header > 0 /\ room.header + 1 + n <= room.setting
                      \/ room.header > 0 /\ room.setting <= room.header + 2 * Overlap
                         /\ n <= 2 * Overlap
                      \/ w.to = w.from + 1
                   /\ w.to < Size =>
                        w.to - 1 \in Breaks(text) \/ Tokens(w.from, w.to + 1) > MaxTokens
    BY DEF WindowsFit
  <2> DEFINE w == windows[i]
             n == Tokens(w.from, w.to)
  <2>2. Filled(w) /\ (w.from < w.to \/ Size = 0)
    <3>1. Chained
      BY <1>1 DEF SplitInv
    <3>2. QED
      BY <2>1, <3>1 DEF Chained
  <2>3. w \in [from : 0..Size, to : 0..Size] /\ Size \in Nat
    <3> DEFINE S == [from : 0..Size, to : 0..Size]
    <3>1. windows \in Seq(S) /\ text \in Contents
      BY <1>1 DEF SplitInv, SplitTypeOK
    <3> HIDE DEF S
    <3>2. windows[i] \in S
      BY <2>1, <3>1
    <3>3. QED
      BY <3>1, <3>2, TextType DEF S
  <2> HIDE DEF w
  <2>4. n \in Nat
    <3>1. w.from \in 0..Size /\ w.to \in 0..Size
      BY <2>3
    <3>2. w.from <= w.to
      BY <2>2, <2>3, <3>1
    <3>3. \A k, j \in 0..Size : k <= j => Tokens(k, j) \in Nat
      BY <1>1, TextType DEF SplitInv, SplitTypeOK
    <3>4. QED
      BY <3>1, <3>2, <3>3
  <2>5. n <= MaxTokens \/ w.to = w.from + 1
    BY <2>2 DEF Filled
  <2>6. w.to < Size => w.to - 1 \in Breaks(text) \/ Tokens(w.from, w.to + 1) > MaxTokens
    BY <2>2 DEF Filled
  <2>7. room.setting \in Nat /\ room.header \in Nat /\ Overlap \in Nat
    BY <1>1, BudgetType DEF SplitInv, SplitTypeOK
  <2> HIDE DEF n
  <2>8. \/ room.header = 0 /\ n <= room.setting
        \/ room.header > 0 /\ room.header + 1 + n <= room.setting
        \/ room.header > 0 /\ room.setting <= room.header + 2 * Overlap /\ n <= 2 * Overlap
        \/ w.to = w.from + 1
    BY <2>4, <2>5, <2>7 DEF MaxTokens, Budget
  <2>9. QED
    BY <2>6, <2>8 DEF n, w
<1>2. QED
  BY <1>1, SpecSplitInv, PTL

-----------------------------------------------------------------------------
(***************************************************************************)
(* The messages among records, in their order.                             *)
(***************************************************************************)
Messages(s) == {i \in DOMAIN s : s[i].kind = "message"}
Spoken(s)   == At(s, Messages(s))

LEMMA MessagesAre ==
  ASSUME NEW s \in Seq(Item)
  PROVE  Messages(s) \subseteq 1..Len(s) /\ Messages(s) \subseteq Nat /\ IsFiniteSet(Messages(s))
<1>1. DOMAIN s = 1..Len(s) /\ Len(s) \in Nat
  OBVIOUS
<1>2. Messages(s) \subseteq 1..Len(s) /\ IsFiniteSet(1..Len(s))
  BY <1>1, FS_Interval DEF Messages
<1>. QED
  BY <1>1, <1>2, FS_Subset

(* Records of another kind change nothing ...                              *)
LEMMA SpokenSame ==
  ASSUME NEW s \in Seq(Item), NEW t \in Seq(Item), \A i \in DOMAIN t : t[i].kind # "message"
  PROVE  Spoken(s \o t) = Spoken(s)
<1> DEFINE u == s \o t
           P == Messages(s)
<1>1. /\ Len(s) \in Nat /\ Len(t) \in Nat /\ Len(u) = Len(s) + Len(t)
      /\ DOMAIN s = 1..Len(s) /\ DOMAIN t = 1..Len(t) /\ DOMAIN u = 1..Len(u)
      /\ \A i \in 1..Len(s) : u[i] = s[i]
      /\ \A i \in 1..Len(u) : i > Len(s) => i - Len(s) \in 1..Len(t) /\ u[i] = t[i - Len(s)]
  OBVIOUS
<1> HIDE DEF u
<1>2. Messages(u) = P
  BY <1>1 DEF Messages
<1>3. P \subseteq 1..Len(s) /\ P \subseteq Nat /\ IsFiniteSet(P)
  BY MessagesAre
<1>4. \A x \in P : u[x] = s[x]
  BY <1>1, <1>3
<1> HIDE DEF P
<1>5. At(u, P) = At(s, P)
  BY <1>3, <1>4, AtAgree
<1>. QED
  BY <1>2, <1>5 DEF Spoken, P, u

(* ... and a message comes last.                                           *)
LEMMA SpokenMore ==
  ASSUME NEW s \in Seq(Item), NEW r \in Item, r.kind = "message"
  PROVE  Spoken(Append(s, r)) = Append(Spoken(s), r)
<1> DEFINE u == Append(s, r)
           P == Messages(s)
           k == Len(s) + 1
<1>1. /\ Len(s) \in Nat /\ Len(u) = k /\ DOMAIN s = 1..Len(s) /\ DOMAIN u = 1..k
      /\ \A i \in 1..Len(s) : u[i] = s[i]
      /\ u[k] = r /\ \A i \in 1..k : u[i] \in Item
  OBVIOUS
<1>2. k \in Nat /\ k \in 1..k /\ (\A i \in 1..Len(s) : i \in 1..k /\ i < k) /\ \A i \in 1..k : i \in 1..Len(s) \/ i = k
  BY <1>1
<1> HIDE DEF u, k
<1>3. Messages(u) = P \cup {k}
  BY <1>1, <1>2 DEF Messages
<1>4. P \subseteq 1..Len(s) /\ P \subseteq Nat /\ IsFiniteSet(P)
  BY MessagesAre
<1> HIDE DEF P
<1>5. (\A x \in P : x < k /\ u[x] = s[x]) /\ \A x \in P \cup {k} : u[x] \in Item
  BY <1>1, <1>2, <1>4
<1>6. At(u, P \cup {k}) = Append(At(u, P), u[k])
  BY <1>2, <1>4, <1>5, AtMore
<1>7. At(u, P) = At(s, P)
  BY <1>4, <1>5, AtAgree
<1>. QED
  BY <1>1, <1>3, <1>6, <1>7 DEF Spoken, P, u

LEMMA AllSpoken ==
  ASSUME NEW s \in Seq(Item), \A i \in DOMAIN s : s[i].kind = "message"
  PROVE  Spoken(s) = s
<1>1. Messages(s) = 1..Len(s)
  BY DEF Messages
<1>. QED
  BY <1>1, AtAll DEF Spoken

LEMMA SpokenNone == Spoken(<<>>) = <<>>
<1>1. <<>> \in Seq(Item) /\ DOMAIN <<>> = {}
  OBVIOUS
<1>. QED
  BY <1>1, AllSpoken

LEMMA SpokenIs ==
  ASSUME NEW s \in Seq(Item)
  PROVE  /\ Spoken(s) \in Seq(Item)
         /\ \A n \in DOMAIN Spoken(s) : Spoken(s)[n].kind = "message"
         /\ Skipped(Spoken(s)) <=> Skipped(s)
<1> DEFINE P == Messages(s)
           m == Cardinality(P)
           place == InOrder(P, Less(P))
           t == Spoken(s)
<1>1. DOMAIN s = 1..Len(s) /\ Len(s) \in Nat /\ \A i \in 1..Len(s) : s[i] \in Item
  OBVIOUS
<1>2. P \subseteq 1..Len(s) /\ P \subseteq Nat /\ IsFiniteSet(P) /\ \A x \in P : s[x].kind = "message"
  BY MessagesAre DEF Messages
<1>3. \A i \in 1..Len(s) : IsPrompt(s[i]) => i \in P
  BY <1>1 DEF Messages, IsPrompt
<1> HIDE DEF P
<1>4. /\ m \in Nat /\ place \in [1..m -> P]
      /\ \A x \in P : \E i \in 1..m : place[i] = x
      /\ \A i, j \in 1..m : i < j <=> place[i] < place[j]
  BY <1>2, PlacesRise
<1>5. \A x \in P : s[x] \in Item
  BY <1>1, <1>2
<1>6. t \in Seq(Item) /\ Len(t) = m /\ \A n \in 1..m : t[n] = s[place[n]]
  BY <1>2, <1>5, AtTyped DEF Spoken, P
<1> HIDE DEF m, place, t
<1>11. DOMAIN t = 1..m
  BY <1>4, <1>6
<1>7. DOMAIN t = 1..m /\ \A n \in 1..m : place[n] \in P /\ place[n] \in 1..Len(s)
  BY <1>2, <1>4, <1>11
<1>8. \A n \in DOMAIN t : t[n].kind = "message"
  BY <1>2, <1>6, <1>7
<1>9. ASSUME Skipped(s) PROVE Skipped(t)
  <2>1. PICK i \in 1..Len(s) : IsPrompt(s[i]) /\ s[i].text \in SkipTexts
                              /\ \A j \in 1..Len(s) : j < i => ~ IsPrompt(s[j])
    BY <1>1, <1>9 DEF Skipped
  <2>2. PICK n \in 1..m : place[n] = i
    BY <1>3, <1>4, <2>1
  <2>3. \A j \in 1..m : j < n => ~ IsPrompt(t[j])
    BY <1>4, <1>6, <1>7, <2>1, <2>2
  <2>. QED
    BY <1>6, <1>7, <2>1, <2>2, <2>3 DEF Skipped
<1>10. ASSUME Skipped(t) PROVE Skipped(s)
  <2>1. PICK n \in 1..m : IsPrompt(t[n]) /\ t[n].text \in SkipTexts
                         /\ \A j \in 1..m : j < n => ~ IsPrompt(t[j])
    BY <1>7, <1>10 DEF Skipped
  <2>2. place[n] \in 1..Len(s) /\ t[n] = s[place[n]]
    BY <1>6, <1>7
  <2>3. ASSUME NEW j \in 1..Len(s), j < place[n], IsPrompt(s[j]) PROVE FALSE
    <3>1. PICK i \in 1..m : place[i] = j
      BY <1>3, <1>4, <2>3
    <3>2. i < n /\ t[i] = s[j]
      BY <1>4, <1>6, <2>3, <3>1
    <3>. QED
      BY <2>1, <2>3, <3>1, <3>2
  <2>. QED
    BY <1>1, <2>1, <2>2, <2>3 DEF Skipped
<1>. QED
  BY <1>6, <1>8, <1>9, <1>10 DEF t

-----------------------------------------------------------------------------
(* Two sets are as large if a map between them leaves none out and takes   *)
(* no two to one.                                                          *)
LEMMA SameCount ==
  ASSUME NEW S, NEW T, IsFiniteSet(S), NEW f \in [S -> T],
         \A y \in T : \E x \in S : f[x] = y,
         \A x, y \in S : f[x] = f[y] => x = y
  PROVE  IsFiniteSet(T) /\ Cardinality(T) = Cardinality(S)
<1>1. f \in Surjection(S, T) /\ f \in Injection(S, T)
  BY DEF Surjection, Injection, IsInjective
<1>. QED
  BY <1>1, FS_Surjection

(***************************************************************************)
(* The last k of what is before a chat message, if near to it.             *)
(***************************************************************************)
After(E, R, y)    == {z \in E : <<y, z>> \in R}
Leads(E, R, N, k) == {y \in E : y \in N /\ Cardinality(After(E, R, y)) < k}

(* Whatever is done to a message that does not lead, the others lead still. *)
LEMMA LeadsStill ==
  ASSUME NEW E, IsFiniteSet(E), NEW F, IsFiniteSet(F), NEW w, NEW R, NEW S, NEW N, NEW M, NEW k \in Nat,
         \A y \in E : y = w \/ (y \in F /\ (y \in N <=> y \in M)),
         \A y \in F : y = w \/ y \in E,
         \A y, z \in E : y = w \/ z = w \/ (<<y, z>> \in R <=> <<y, z>> \in S),
         Ranks(S, F),
         \A y \in F : y \in M /\ <<y, w>> \in S /\ w \in F => w \in M,
         w \notin Leads(F, S, M, k)
  PROVE  \A y \in Leads(E, R, N, k) : y = w \/ y \in Leads(F, S, M, k)
<1>. SUFFICES ASSUME NEW y \in Leads(E, R, N, k), y # w PROVE y \in Leads(F, S, M, k)
  OBVIOUS
<1> DEFINE A == After(E, R, y)
           B == After(F, S, y)
           C == After(F, S, w)
<1>1. y \in E /\ y \in N /\ Cardinality(A) < k /\ y \in F /\ y \in M
  BY DEF Leads
<1>2. A \subseteq E /\ B \subseteq F /\ C \subseteq F
  BY DEF After
<1>3. IsFiniteSet(A) /\ IsFiniteSet(B) /\ IsFiniteSet(C)
  BY <1>2, FS_Subset
<1>4. Cardinality(A) \in Nat /\ Cardinality(B) \in Nat /\ Cardinality(C) \in Nat
  BY <1>3, FS_CardinalityType
<1>5. \A z \in B : z = w \/ z \in A
  BY <1>1 DEF After
<1>6. CASE w \notin B
  <2>1. B \in SUBSET A
    BY <1>5, <1>6
  <2>2. Cardinality(B) <= Cardinality(A)
    BY <1>3, <2>1, FS_Subset
  <2>. QED
    BY <1>1, <1>4, <2>2 DEF Leads
<1>7. CASE w \in B
  <2>1. w \in F /\ <<y, w>> \in S
    BY <1>7 DEF After
  <2>2. ~ (Cardinality(C) < k)
    BY <1>1, <2>1 DEF Leads
  <2>3. \A z \in C : z \in B /\ z # w
    BY <1>1, <2>1 DEF After, Ranks
  <2>4. C \in SUBSET A
    BY <1>5, <2>3
  <2>5. Cardinality(C) <= Cardinality(A)
    BY <1>3, <2>4, FS_Subset
  <2>. QED
    BY <1>1, <1>4, <2>2, <2>5
<1>. QED
  BY <1>6, <1>7

-----------------------------------------------------------------------------
USE UnitsAssumption

(* Types.                                                                  *)

Wait      == [turn : TurnIds, text : Texts]
SeenKeys  == TurnIds \cup {<<"legacy", t>> : t \in Texts}
Parsers   == [session : Sessions, project : Projects \cup {Unknown}, seen : SUBSET SeenKeys,
              calls : SUBSET Turns, parked : Seq(Wait), items : Seq(Item)]

Typed ==
  /\ format \in Formats /\ lines \in Seq(LinesOf[format]) /\ Len(lines) <= MaxLines
  /\ index \in Parsers /\ walk \in Parsers

(* What the assumption says of a line.                                     *)
LEMMA LineIs ==
  ASSUME NEW l, format \in Formats, l \in LinesOf[format]
  PROVE  /\ l \in Line /\ l.type \in TypesOf(format)
         /\ l.session \in Sessions \cup {None} /\ l.turn \in Turns \cup {None}
         /\ l.cwd \in Projects \cup {Unknown, None}
         /\ l.role \in {"user", "assistant", "toolResult"}
         /\ l.text \in Texts \cup {None} /\ l.parts \in Seq(Part)
         /\ l.title \in Texts \cup {None} /\ l.reply \in Turns \cup {None} /\ l.date \in Nat
         /\ l.type = "state" => l.kind \in {"todo", "task"}
<1>1. l \in Line /\ l.type \in TypesOf(format) /\ (l.type = "state" => l.kind \in {"todo", "task"})
  BY DEF UnitsAssumption
<1>. QED
  BY <1>1 DEF Line

LEMMA PartIs ==
  ASSUME NEW l, format \in Formats, l \in LinesOf[format], NEW i \in DOMAIN l.parts
  PROVE  /\ i \in 1..Len(l.parts) /\ Len(l.parts) \in Nat
         /\ l.parts[i].type \in {"state", "call", "result"} /\ l.parts[i].id \in Turns
         /\ l.parts[i].kind \in {"todo", "tool", "task"} /\ l.parts[i].text \in Texts \cup {None}
         /\ l.parts[i].type = "state" => l.parts[i].kind \in {"todo", "tool"}
         /\ \A j \in DOMAIN l.parts :
              l.parts[i].type = l.parts[j].type /\ l.parts[i].id = l.parts[j].id => i = j
<1>1. l.parts \in Seq(Part)
  BY LineIs
<1>2. i \in 1..Len(l.parts) /\ Len(l.parts) \in Nat /\ l.parts[i] \in Part
  BY <1>1
<1>3. /\ l.parts[i].type = "state" => l.parts[i].kind \in {"todo", "tool"}
      /\ \A j \in DOMAIN l.parts :
           l.parts[i].type = l.parts[j].type /\ l.parts[i].id = l.parts[j].id => i = j
  BY DEF UnitsAssumption
<1>. QED
  BY <1>2, <1>3 DEF Part

LEMMA TurnIdIs ==
  /\ \A t \in Turns \cup Sessions \cup {None} :
       Named(t) \in TurnIds /\ <<"session", Named(t)>> \in TurnIds
  /\ \A n \in 0..MaxLines : \A t \in Turns \cup Sessions \cup {None} :
       Given(t, n) \in TurnIds /\ <<"session", Given(t, n)>> \in TurnIds
  /\ \A t \in Texts : <<"title", t>> \in TurnIds
<1>1. \A t \in Turns \cup Sessions \cup {None} : Named(t) \in GivenIds
  BY DEF GivenIds
<1>2. \A n \in 0..MaxLines : <<"line", n>> \in GivenIds
  BY DEF GivenIds
<1>3. \A g \in GivenIds : g \in TurnIds /\ <<"session", g>> \in TurnIds
  BY DEF TurnIds
<1>4. \A t \in Texts : <<"title", t>> \in TurnIds
  BY DEF TurnIds
<1>. QED
  BY <1>1, <1>2, <1>3, <1>4 DEF Given

(* The fields of a record.                                                 *)
LEMMA RecordIs ==
  ASSUME NEW p, NEW turn, NEW role, NEW kind, NEW words
  PROVE  LET r == Record(p, turn, role, kind, words) IN
         /\ r.id = <<p.session, kind, turn>> /\ r.session = p.session /\ r.role = role
         /\ r.kind = kind /\ r.text = words /\ r.title = None
BY DEF Record, Id

LEMMA RecordTyped ==
  ASSUME NEW p \in Parsers, NEW turn \in TurnIds, NEW kind \in Kinds, NEW words \in Texts,
         NEW role \in {"user", "assistant", "toolResult", "system"}
  PROVE  Record(p, turn, role, kind, words) \in Item
BY DEF Record, Item, Id, Parsers

-----------------------------------------------------------------------------
(* What the parts of a loop's turn do to its state.                        *)

(* Nothing is told.                                                        *)
Same(p, q)    == q.items = p.items /\ q.parked = p.parked
(* A record is told, or several.                                           *)
Tells(p, q, r)    == q.items = Append(p.items, r) /\ q.parked = p.parked
TellsAll(p, q, s) == q.items = p.items \o s /\ q.parked = p.parked
(* A title waits.                                                          *)
Parks(p, q, w) == q.items = p.items /\ q.parked = Append(p.parked, w)
(* What waited is told.                                                    *)
Frees(p, q) ==
  /\ q.parked = <<>>
  /\ q.items = p.items \o [i \in DOMAIN p.parked |->
                             Record(q, p.parked[i].turn, "system", "title", p.parked[i].text)]

LEMMA EmitOne ==
  ASSUME NEW p \in Parsers, NEW r \in Item
  PROVE  LET q == Emit(p, <<r>>) IN
         /\ q \in Parsers /\ Tells(p, q, r)
         /\ q.session = p.session /\ q.project = p.project /\ q.seen = p.seen /\ q.calls = p.calls
<1> DEFINE q == Emit(p, <<r>>)
<1>1. p.items \in Seq(Item)
  BY DEF Parsers
<1>2. p.items \o <<r>> = Append(p.items, r) /\ Append(p.items, r) \in Seq(Item)
  BY <1>1
<1>3. q = [p EXCEPT !.items = Append(p.items, r)]
  BY <1>2 DEF Emit
<1> HIDE DEF q
<1>4. q \in Parsers
  BY <1>2, <1>3 DEF Parsers
<1>5. /\ q.items = Append(p.items, r) /\ q.parked = p.parked
      /\ q.session = p.session /\ q.project = p.project /\ q.seen = p.seen /\ q.calls = p.calls
  BY <1>3 DEF Parsers
<1>. QED
  BY <1>4, <1>5 DEF q, Tells

LEMMA EmitNone ==
  ASSUME NEW p \in Parsers
  PROVE  Emit(p, <<>>) = p
<1>1. p.items \in Seq(Item)
  BY DEF Parsers
<1>2. p.items \o <<>> = p.items
  BY <1>1
<1>. QED
  BY <1>2 DEF Emit, Parsers

LEMMA ReleasedIs ==
  ASSUME NEW p \in Parsers
  PROVE  LET q == Released(p) IN
         /\ q \in Parsers /\ Frees(p, q)
         /\ q.session = p.session /\ q.project = p.project /\ q.seen = p.seen /\ q.calls = p.calls
<1> DEFINE q == Released(p)
           s == [i \in DOMAIN p.parked |->
                   Record(p, p.parked[i].turn, "system", "title", p.parked[i].text)]
           t == [i \in DOMAIN p.parked |->
                   Record(q, p.parked[i].turn, "system", "title", p.parked[i].text)]
<1>1. p.parked \in Seq(Wait) /\ p.items \in Seq(Item)
  BY DEF Parsers
<1>2. ASSUME NEW i \in DOMAIN p.parked
      PROVE  p.parked[i].turn \in TurnIds /\ p.parked[i].text \in Texts
  <2>1. p.parked[i] \in Wait
    BY <1>1
  <2>. QED
    BY <2>1 DEF Wait
<1>3. \A i \in DOMAIN p.parked :
        Record(p, p.parked[i].turn, "system", "title", p.parked[i].text) \in Item
  BY <1>2, RecordTyped DEF Kinds
<1>4. s \in Seq(Item)
  <2>1. DOMAIN p.parked = 1..Len(p.parked) /\ Len(p.parked) \in Nat
    BY <1>1
  <2>. QED
    BY <1>3, <2>1
<1>5. q = [p EXCEPT !.parked = <<>>, !.items = p.items \o s]
  BY DEF Released, Emit, Parsers
<1> HIDE DEF s
<1>6. p.items \o s \in Seq(Item) /\ <<>> \in Seq(Wait)
  BY <1>1, <1>4
<1> HIDE DEF q
<1>7. q \in Parsers
  BY <1>5, <1>6 DEF Parsers
<1>8. /\ q.items = p.items \o s /\ q.parked = <<>>
      /\ q.session = p.session /\ q.project = p.project /\ q.seen = p.seen /\ q.calls = p.calls
  BY <1>5 DEF Parsers
<1>9. s = t
  BY <1>8 DEF s, Record, Id
<1>. QED
  BY <1>7, <1>8, <1>9 DEF q, Frees

LEMMA TitleIs ==
  ASSUME NEW p \in Parsers, NEW turn \in TurnIds, NEW words \in Texts
  PROVE  LET q == Title(p, turn, words) IN
         /\ q \in Parsers
         /\ q.session = p.session /\ q.project = p.project /\ q.seen = p.seen /\ q.calls = p.calls
         /\ p.project = Unknown => Parks(p, q, [turn |-> turn, text |-> words])
         /\ p.project # Unknown => Tells(p, q, Record(p, turn, "system", "title", words))
<1> DEFINE q == Title(p, turn, words)
<1>1. CASE p.project = Unknown
  <2>1. p.parked \in Seq(Wait) /\ [turn |-> turn, text |-> words] \in Wait
    BY DEF Parsers, Wait
  <2>2. Append(p.parked, [turn |-> turn, text |-> words]) \in Seq(Wait)
    BY <2>1
  <2>3. q = [p EXCEPT !.parked = Append(p.parked, [turn |-> turn, text |-> words])]
    BY <1>1 DEF Title
  <2> HIDE DEF q
  <2>4. q \in Parsers
    BY <2>2, <2>3 DEF Parsers
  <2>5. /\ q.parked = Append(p.parked, [turn |-> turn, text |-> words]) /\ q.items = p.items
        /\ q.session = p.session /\ q.project = p.project /\ q.seen = p.seen /\ q.calls = p.calls
    BY <2>3 DEF Parsers
  <2>. QED
    BY <1>1, <2>4, <2>5 DEF q, Parks
<1>2. CASE p.project # Unknown
  <2> DEFINE r == Record(p, turn, "system", "title", words)
  <2>1. q = Emit(p, <<r>>)
    BY <1>2 DEF Title
  <2>2. r \in Item
    BY RecordTyped DEF Kinds
  <2> HIDE DEF q, r
  <2>3. /\ q \in Parsers /\ Tells(p, q, r)
        /\ q.session = p.session /\ q.project = p.project /\ q.seen = p.seen /\ q.calls = p.calls
    BY <2>1, <2>2, EmitOne
  <2>. QED
    BY <1>2, <2>3 DEF q, r
<1>. QED
  BY <1>1, <1>2

-----------------------------------------------------------------------------
(***************************************************************************)
(* A line is read in three stages: it moves the session or the project,    *)
(* and what waited is told; its parts are reported; and it adds one thing. *)
(***************************************************************************)
Moved(p, l) ==
  CASE format = "pi" /\ l.type = "session" -> Released(Opened(p, l))
    [] format = "claude" -> Located(p, l)
    [] format = "codex" /\ l.type = "session" -> Opened(p, l)
    [] format = "grok" /\ l.type = "turn" /\ Indexable(l) ->
         [p EXCEPT !.session = Default(l.session, @)]
    [] OTHER -> p

Parted(p, l, state) ==
  IF format = "claude" /\ l.type = "turn" /\ state THEN ReadParts(p, l) ELSE p

(* A message, a state record, a title, or the session's own title.         *)
Says(p, l) ==
  /\ l.type = "turn" /\ Indexable(l)
  /\ format = "claude" => l.turn # None
  /\ format = "codex" => CodexKey(l) \notin p.seen
Notes(l)     == l.type = "state" /\ l.text # None
Titles(p, l) ==
  /\ l.type = "title" /\ l.text # None
  /\ format = "claude" => <<"title", l.text>> \notin p.seen
Owns(l)      == l.type = "session" /\ l.text # None

TurnTag(l, n)  == IF format = "codex" THEN Given(l.turn, n - 1) ELSE Given(l.turn, n)
TitleTag(l, n) == IF format = "claude" THEN <<"title", l.text>> ELSE Given(l.turn, n)
OwnTag(l, n)   == IF format = "codex" THEN Named(l.session) ELSE Given(l.session, n)

Adds(b, q, l, n, state) ==
  /\ Says(b, l) => Tells(b, q, Record(b, TurnTag(l, n), l.role, "message", l.text))
  /\ state /\ Notes(l) => Tells(b, q, Record(b, Given(l.turn, n), l.role, l.kind, l.text))
  /\ state /\ Titles(b, l) /\ b.project = Unknown =>
       Parks(b, q, [turn |-> TitleTag(l, n), text |-> l.text])
  /\ state /\ Titles(b, l) /\ b.project # Unknown =>
       Tells(b, q, Record(b, TitleTag(l, n), "system", "title", l.text))
  /\ state /\ Owns(l) =>
       Tells(b, q, Record(b, <<"session", OwnTag(l, n)>>, "system", "title", l.text))
  /\ ~ Says(b, l) /\ ~ (state /\ (Notes(l) \/ Titles(b, l) \/ Owns(l))) => Same(b, q)
  /\ q.session = b.session /\ q.project = b.project /\ q.calls = b.calls
  /\ q.seen = b.seen \cup (IF format = "codex" /\ Says(b, l) THEN {CodexKey(l)} ELSE {})
                    \cup (IF format = "claude" /\ state /\ Titles(b, l)
                            THEN {<<"title", l.text>>} ELSE {})

LEMMA OpenedIs ==
  ASSUME NEW p \in Parsers, NEW l, format \in Formats, l \in LinesOf[format]
  PROVE  /\ Opened(p, l) \in Parsers /\ Same(p, Opened(p, l))
         /\ Opened(p, l).session = Default(l.session, p.session)
         /\ Opened(p, l).project = Default(l.cwd, Unknown)
         /\ Opened(p, l).seen = p.seen /\ Opened(p, l).calls = p.calls
<1>1. Default(l.session, p.session) \in Sessions /\ Default(l.cwd, Unknown) \in Projects \cup {Unknown}
  BY LineIs DEF Default, Parsers
<1> DEFINE o == Opened(p, l)
<1>2. o = [p EXCEPT !.session = Default(l.session, p.session), !.project = Default(l.cwd, Unknown)]
  BY DEF Opened, Parsers
<1> HIDE DEF o
<1>3. /\ o \in Parsers /\ o.items = p.items /\ o.parked = p.parked
      /\ o.session = Default(l.session, p.session) /\ o.project = Default(l.cwd, Unknown)
      /\ o.seen = p.seen /\ o.calls = p.calls
  BY <1>1, <1>2 DEF Parsers
<1>. QED
  BY <1>3 DEF Same, o

(* The first stage.  Frees is for what stood waiting.                      *)
Opens(p, l) ==
  \/ format = "pi" /\ l.type = "session"
  \/ format = "claude" /\ p.project = Unknown /\ l.cwd # None

LEMMA MovedIs ==
  ASSUME NEW p \in Parsers, NEW l, format \in Formats, l \in LinesOf[format]
  PROVE  LET a == Moved(p, l) IN
         /\ a \in Parsers /\ a.seen = p.seen /\ a.calls = p.calls
         /\ Opens(p, l) => Frees(p, a)
         /\ ~ Opens(p, l) => Same(p, a)
         /\ a.session = IF \/ format \in {"pi", "codex"} /\ l.type = "session"
                           \/ format = "grok" /\ l.type = "turn" /\ Indexable(l)
                          THEN Default(l.session, p.session) ELSE p.session
         /\ a.project = IF format \in {"pi", "codex"} /\ l.type = "session" THEN Default(l.cwd, Unknown)
                        ELSE IF Opens(p, l) THEN l.cwd ELSE p.project
<1> DEFINE a == Moved(p, l)
<1>1. CASE format = "pi" /\ l.type = "session"
  <2> DEFINE o == Opened(p, l)
             q == Released(o)
  <2>1. a = q
    BY <1>1 DEF Moved
  <2>2. /\ o \in Parsers /\ o.items = p.items /\ o.parked = p.parked
        /\ o.session = Default(l.session, p.session) /\ o.project = Default(l.cwd, Unknown)
        /\ o.seen = p.seen /\ o.calls = p.calls
    BY OpenedIs DEF Same
  <2> HIDE DEF o
  <2>3. /\ q \in Parsers /\ Frees(o, q)
        /\ q.session = o.session /\ q.project = o.project /\ q.seen = o.seen /\ q.calls = o.calls
    BY <2>2, ReleasedIs
  <2> HIDE DEF q
  <2>4. Frees(p, q)
    BY <2>2, <2>3 DEF Frees
  <2>. QED
    BY <1>1, <2>1, <2>2, <2>3, <2>4 DEF Opens
<1>2. CASE format = "claude"
  <2>1. a = Located(p, l)
    BY <1>2 DEF Moved
  <2>2. CASE p.project = Unknown /\ l.cwd # None
    <3> DEFINE o == [p EXCEPT !.project = l.cwd]
               q == Released(o)
    <3>1. a = q
      BY <2>1, <2>2 DEF Located
    <3>2. /\ o \in Parsers /\ o.items = p.items /\ o.parked = p.parked
          /\ o.session = p.session /\ o.project = l.cwd /\ o.seen = p.seen /\ o.calls = p.calls
      BY <2>2, LineIs DEF Parsers
    <3> HIDE DEF o
    <3>3. /\ q \in Parsers /\ Frees(o, q)
          /\ q.session = o.session /\ q.project = o.project /\ q.seen = o.seen /\ q.calls = o.calls
      BY <3>2, ReleasedIs
    <3> HIDE DEF q
    <3>4. Frees(p, q)
      BY <3>2, <3>3 DEF Frees
    <3>. QED
      BY <1>2, <2>2, <3>1, <3>2, <3>3, <3>4 DEF Opens
  <2>3. CASE ~ (p.project = Unknown /\ l.cwd # None)
    <3>1. a = p
      BY <2>1, <2>3 DEF Located
    <3>. QED
      BY <1>2, <2>3, <3>1 DEF Opens, Same
  <2>. QED
    BY <2>2, <2>3
<1>3. CASE format = "codex" /\ l.type = "session"
  <2>1. a = Opened(p, l)
    BY <1>3 DEF Moved
  <2>. QED
    BY <1>3, <2>1, OpenedIs DEF Opens
<1>4. CASE format = "grok" /\ l.type = "turn" /\ Indexable(l)
  <2>1. a = [p EXCEPT !.session = Default(l.session, p.session)]
    BY <1>4 DEF Moved, Parsers
  <2>2. Default(l.session, p.session) \in Sessions
    BY LineIs DEF Default, Parsers
  <2> HIDE DEF a
  <2>3. /\ a \in Parsers /\ a.items = p.items /\ a.parked = p.parked /\ a.project = p.project
        /\ a.session = Default(l.session, p.session) /\ a.seen = p.seen /\ a.calls = p.calls
    BY <2>1, <2>2 DEF Parsers
  <2>. QED
    BY <1>4, <2>3 DEF Opens, Same, a
<1>5. CASE /\ ~ (format = "pi" /\ l.type = "session") /\ format # "claude"
           /\ ~ (format = "codex" /\ l.type = "session")
           /\ ~ (format = "grok" /\ l.type = "turn" /\ Indexable(l))
  <2>1. a = p
    BY <1>5 DEF Moved
  <2>. QED
    BY <1>5, <2>1 DEF Opens, Same
<1>. QED
  BY <1>1, <1>2, <1>3, <1>4, <1>5

(* An id's kind and turn.                                                  *)
Key(r) == <<r.id[2], r.id[3]>>

(* A part that is reported.                                                *)
LEMMA ReportIs ==
  ASSUME NEW p \in Parsers, NEW l, format \in Formats, l \in LinesOf[format],
         NEW i \in Reports(p, l.parts)
  PROVE  LET r == Report(p, l, l.parts[i]) IN
         /\ i \in DOMAIN l.parts /\ r \in Item /\ r.session = p.session
         /\ r.kind \in {"todo", "tool", "task"} /\ r.id = <<p.session, r.kind, Named(l.parts[i].id)>>
         /\ r.kind = "task" => l.parts[i].type = "result"
         /\ r.kind # "task" => l.parts[i].type = "state"
         /\ r.title = None
<1> DEFINE part == l.parts[i]
           r == Report(p, l, part)
<1>1. i \in DOMAIN l.parts /\ part.text # None /\ part.type \in {"state", "result"}
  BY DEF Reports
<1>2. part.id \in Turns /\ part.kind \in {"todo", "tool", "task"} /\ part.text \in Texts
      /\ (part.type = "state" => part.kind \in {"todo", "tool"})
  BY <1>1, PartIs
<1>3. l.role \in {"user", "assistant", "toolResult", "system"} /\ Named(part.id) \in TurnIds
  BY <1>2, LineIs, TurnIdIs
<1>4. CASE part.type = "state"
  <2> DEFINE q == Record(p, Named(part.id), l.role, part.kind, part.text)
  <2>1. r = q
    BY <1>4 DEF Report
  <2>2. q \in Item
    BY <1>2, <1>3, RecordTyped DEF Kinds
  <2>3. /\ q.id = <<p.session, part.kind, Named(part.id)>> /\ q.session = p.session
        /\ q.kind = part.kind /\ q.title = None
    BY RecordIs
  <2> HIDE DEF q, r
  <2>. QED
    BY <1>1, <1>2, <1>4, <2>1, <2>2, <2>3 DEF r
<1>5. CASE part.type = "result"
  <2> DEFINE q == Record(p, Named(part.id), "toolResult", "task", part.text)
  <2>1. r = q
    BY <1>5 DEF Report
  <2>2. q \in Item
    BY <1>2, <1>3, RecordTyped DEF Kinds
  <2>3. /\ q.id = <<p.session, "task", Named(part.id)>> /\ q.session = p.session
        /\ q.kind = "task" /\ q.title = None
    BY RecordIs
  <2> HIDE DEF q, r
  <2>. QED
    BY <1>1, <1>2, <1>5, <2>1, <2>2, <2>3 DEF r
<1>. QED
  BY <1>1, <1>4, <1>5

(* The second stage: no two of what is told are of one kind and turn.      *)
Reported(p, l, s) ==
  /\ \A i \in DOMAIN s : \E j \in Reports(p, l.parts) : s[i] = Report(p, l, l.parts[j])
  /\ \A i, j \in DOMAIN s : Key(s[i]) = Key(s[j]) => i = j

LEMMA PartedIs ==
  ASSUME NEW p \in Parsers, NEW l, format \in Formats, l \in LinesOf[format], NEW state \in BOOLEAN
  PROVE  LET b == Parted(p, l, state) IN
         /\ b \in Parsers /\ b.session = p.session /\ b.project = p.project /\ b.seen = p.seen
         /\ ~ state \/ format # "claude" => b = p
         /\ \E s \in Seq(Item) : TellsAll(p, b, s) /\ Reported(p, l, s)
<1> DEFINE b == Parted(p, l, state)
<1>1. CASE format = "claude" /\ l.type = "turn" /\ state
  <2> DEFINE P == Reports(p, l.parts)
             place == InOrder(P, Less(P))
             m == Cardinality(P)
             whole == [i \in DOMAIN l.parts |-> Report(p, l, l.parts[i])]
             s == At(whole, P)
             calls == {l.parts[i].id : i \in Calls(l.parts)}
  <2>1. l.parts \in Seq(Part) /\ DOMAIN l.parts = 1..Len(l.parts) /\ Len(l.parts) \in Nat
    BY LineIs
  <2>2. P \subseteq 1..Len(l.parts) /\ IsFiniteSet(1..Len(l.parts))
    BY <2>1, FS_Interval DEF Reports
  <2>3. IsFiniteSet(P) /\ P \subseteq Nat
    BY <2>1, <2>2, FS_Subset
  <2> HIDE DEF P, whole
  <2>16. s = [n \in DOMAIN place |-> whole[place[n]]]
    BY DEF At
  <2>4. /\ m \in Nat /\ place \in [1..m -> P]
        /\ \A i, j \in 1..m : place[i] = place[j] => i = j
    <3> HIDE DEF s
    <3>. QED
      BY <2>3, PlacesRise
  <2> HIDE DEF m, place, s
  <2>5. \A i \in 1..m : s[i] = Report(p, l, l.parts[place[i]])
    <3>1. \A x \in P : whole[x] = Report(p, l, l.parts[x])
      BY <2>1, <2>2 DEF whole
    <3>2. DOMAIN place = 1..m /\ \A i \in 1..m : place[i] \in P
      BY <2>4
    <3>. QED
      BY <2>16, <3>1, <3>2
  <2>6. \A i \in 1..m : s[i] \in Item
    BY <2>4, <2>5, ReportIs DEF P
  <2>7. s \in Seq(Item) /\ DOMAIN s = 1..m
    BY <2>4, <2>6, <2>16
  <2>17. ASSUME NEW x \in P, NEW r, r = Report(p, l, l.parts[x])
         PROVE  /\ r.id = <<p.session, r.kind, Named(l.parts[x].id)>>
                /\ r.kind = "task" => l.parts[x].type = "result"
                /\ r.kind # "task" => l.parts[x].type = "state"
    BY <2>17, ReportIs DEF P
  <2>8. ASSUME NEW i \in 1..m, NEW j \in 1..m, Key(s[i]) = Key(s[j])
        PROVE  i = j
    <3> DEFINE x == place[i]
               y == place[j]
    <3>6. x \in P /\ y \in P
      BY <2>4
    <3>7. s[i] = Report(p, l, l.parts[x]) /\ s[j] = Report(p, l, l.parts[y])
      BY <2>5
    <3> HIDE DEF x, y
    <3>1. x \in DOMAIN l.parts /\ y \in DOMAIN l.parts
      BY <2>1, <2>2, <3>6
    <3>2. /\ s[i].id = <<p.session, s[i].kind, Named(l.parts[x].id)>>
          /\ s[i].kind = "task" => l.parts[x].type = "result"
          /\ s[i].kind # "task" => l.parts[x].type = "state"
      BY <3>6, <3>7, <2>17
    <3>3. /\ s[j].id = <<p.session, s[j].kind, Named(l.parts[y].id)>>
          /\ s[j].kind = "task" => l.parts[y].type = "result"
          /\ s[j].kind # "task" => l.parts[y].type = "state"
      BY <3>6, <3>7, <2>17
    <3>4. s[i].kind = s[j].kind /\ l.parts[x].id = l.parts[y].id
      BY <2>8, <3>2, <3>3 DEF Key, Named
    <3>5. x = y
      BY <3>1, <3>2, <3>3, <3>4, PartIs
    <3>. QED
      BY <2>4, <3>5 DEF x, y
  <2>9. Reported(p, l, s)
    BY <2>4, <2>5, <2>7, <2>8 DEF Reported, P
  <2>10. calls \subseteq Turns
    BY PartIs DEF Calls
  <2>11. b = Emit([p EXCEPT !.calls = p.calls \cup calls], s)
    BY <1>1 DEF Parted, ReadParts, s, whole, P, Parsers
  <2>12. p.items \o s \in Seq(Item)
    BY <2>7 DEF Parsers
  <2> HIDE DEF calls
  <2>13. b = [p EXCEPT !.calls = p.calls \cup calls, !.items = p.items \o s]
    BY <2>11 DEF Emit, Parsers
  <2> HIDE DEF b
  <2>14. b \in Parsers
    BY <2>10, <2>12, <2>13 DEF Parsers
  <2>15. /\ b.session = p.session /\ b.project = p.project /\ b.seen = p.seen
         /\ b.items = p.items \o s /\ b.parked = p.parked
    BY <2>13 DEF Parsers
  <2>. QED
    BY <1>1, <2>7, <2>9, <2>14, <2>15 DEF TellsAll, b
<1>2. CASE ~ (format = "claude" /\ l.type = "turn" /\ state)
  <2>1. b = p
    BY <1>2 DEF Parted
  <2>2. p.items \in Seq(Item)
    BY DEF Parsers
  <2>3. p.items \o <<>> = p.items /\ <<>> \in Seq(Item) /\ DOMAIN <<>> = {}
    BY <2>2
  <2>4. TellsAll(p, b, <<>>) /\ Reported(p, l, <<>>)
    BY <2>1, <2>3 DEF TellsAll, Reported
  <2>. QED
    BY ZenonT(60), <2>1, <2>3, <2>4
<1>. QED
  BY <1>1, <1>2

(* The third stage.  A message, a state record, the session's own title    *)
(* and any other title are records as they should be.                      *)
LEMMA TagsIs ==
  ASSUME NEW b \in Parsers, NEW l, format \in Formats, l \in LinesOf[format], NEW n \in 1..MaxLines
  PROVE  /\ Says(b, l) => Record(b, TurnTag(l, n), l.role, "message", l.text) \in Item
         /\ Notes(l) => Record(b, Given(l.turn, n), l.role, l.kind, l.text) \in Item
         /\ Titles(b, l) => TitleTag(l, n) \in TurnIds /\ l.text \in Texts
         /\ Owns(l) => Record(b, <<"session", OwnTag(l, n)>>, "system", "title", l.text) \in Item
<1>1. n \in 0..MaxLines /\ n - 1 \in 0..MaxLines
  BY DEF UnitsAssumption
<1>2. /\ l.session \in Sessions \cup {None} /\ l.turn \in Turns \cup {None}
      /\ l.role \in {"user", "assistant", "toolResult"} /\ l.text \in Texts \cup {None}
      /\ l.type = "state" => l.kind \in {"todo", "task"}
  BY LineIs
<1>3. /\ TurnTag(l, n) \in TurnIds /\ Given(l.turn, n) \in TurnIds
      /\ <<"session", OwnTag(l, n)>> \in TurnIds
  BY <1>1, <1>2, TurnIdIs DEF TurnTag, OwnTag
<1>4. Titles(b, l) => TitleTag(l, n) \in TurnIds /\ l.text \in Texts
  BY <1>2, <1>3, TurnIdIs DEF Titles, TitleTag
<1>5. Says(b, l) => Record(b, TurnTag(l, n), l.role, "message", l.text) \in Item
  BY <1>2, <1>3, RecordTyped DEF Says, Indexable, Kinds
<1>6. Notes(l) => Record(b, Given(l.turn, n), l.role, l.kind, l.text) \in Item
  BY <1>2, <1>3, RecordTyped DEF Notes, Kinds
<1>7. Owns(l) => Record(b, <<"session", OwnTag(l, n)>>, "system", "title", l.text) \in Item
  BY <1>2, <1>3, RecordTyped DEF Owns, Kinds
<1>. QED
  BY <1>4, <1>5, <1>6, <1>7

(* A session's line.                                                       *)
LEMMA OwnTitleIs ==
  ASSUME NEW b \in Parsers, NEW l, format \in Formats, l \in LinesOf[format], NEW n \in 1..MaxLines,
         NEW state \in BOOLEAN, l.type = "session"
  PROVE  LET q == Emit(b, OwnTitle(b, OwnTag(l, n), l, state)) IN
         q \in Parsers /\ Adds(b, q, l, n, state)
<1> DEFINE r == Record(b, <<"session", OwnTag(l, n)>>, "system", "title", l.text)
           q == Emit(b, OwnTitle(b, OwnTag(l, n), l, state))
<1>1. ~ Says(b, l) /\ ~ Notes(l) /\ ~ Titles(b, l) /\ (Owns(l) <=> l.text # None)
  BY DEF Says, Notes, Titles, Owns
<1>2. CASE state /\ l.text # None
  <2>1. q = Emit(b, <<r>>) /\ r \in Item
    BY <1>1, <1>2, TagsIs DEF OwnTitle
  <2> HIDE DEF q, r
  <2>2. /\ q \in Parsers /\ Tells(b, q, r)
        /\ q.session = b.session /\ q.project = b.project /\ q.seen = b.seen /\ q.calls = b.calls
    BY <2>1, EmitOne
  <2>. QED
    BY ZenonT(60), <1>1, <1>2, <2>2 DEF Adds, q, r
<1>3. CASE ~ (state /\ l.text # None)
  <2>1. q = b
    BY <1>3, EmitNone DEF OwnTitle
  <2>. QED
    BY <1>1, <1>3, <2>1 DEF Adds, Same
<1>. QED
  BY <1>2, <1>3

LEMMA AddsPi ==
  ASSUME NEW p \in Parsers, NEW l, format \in Formats, l \in LinesOf[format], NEW n \in 1..MaxLines,
         NEW state \in BOOLEAN, format = "pi"
  PROVE  LET b == Parted(Moved(p, l), l, state)
             q == Read(p, l, n, state) IN
         q \in Parsers /\ Adds(b, q, l, n, state)
<1> DEFINE b == Parted(Moved(p, l), l, state)
           q == Read(p, l, n, state)
<1>1. q = ReadPi(p, l, n, state) /\ b = Moved(p, l)
  BY DEF Read, Parted
<1>2. b \in Parsers
  BY <1>1, MovedIs
<1>3. CASE l.type = "session"
  <2>1. b = Released(Opened(p, l))
    BY <1>1, <1>3 DEF Moved
  <2>2. OwnTag(l, n) = Given(l.session, n)
    BY DEF OwnTag
  <2>3. q = Emit(b, OwnTitle(b, OwnTag(l, n), l, state))
    BY <1>1, <1>3, <2>1, <2>2 DEF ReadPi, PiSession
  <2> HIDE DEF b, q
  <2>. QED
    BY <1>2, <1>3, <2>3, OwnTitleIs DEF b, q
<1>4. CASE l.type # "session"
  <2>1. b = p
    BY <1>1, <1>4 DEF Moved
  <2>2. ~ Owns(l)
    BY <1>4 DEF Owns
  <2>3. CASE Says(b, l)
    <3> DEFINE r == Record(b, TurnTag(l, n), l.role, "message", l.text)
    <3>1. l.type = "turn" /\ Indexable(l) /\ ~ Notes(l) /\ ~ Titles(b, l)
      BY <2>3 DEF Says, Notes, Titles
    <3>2. q = Emit(b, <<r>>) /\ r \in Item
      BY <1>1, <1>2, <2>1, <2>3, <3>1, TagsIs DEF ReadPi, TurnTag
    <3> HIDE DEF q, r, b
    <3>3. /\ q \in Parsers /\ Tells(b, q, r)
          /\ q.session = b.session /\ q.project = b.project /\ q.seen = b.seen /\ q.calls = b.calls
      BY <1>2, <3>2, EmitOne
    <3>. QED
      BY <2>2, <2>3, <3>1, <3>3 DEF Adds, q, r, b
  <2>4. CASE state /\ Notes(l)
    <3> DEFINE r == Record(b, Given(l.turn, n), l.role, l.kind, l.text)
    <3>1. l.type = "state" /\ l.text # None /\ ~ Says(b, l) /\ ~ Titles(b, l)
      BY <2>4 DEF Says, Notes, Titles
    <3>2. q = Emit(b, <<r>>) /\ r \in Item
      BY <1>1, <1>2, <2>1, <2>4, <3>1, TagsIs DEF ReadPi
    <3> HIDE DEF q, r, b
    <3>3. /\ q \in Parsers /\ Tells(b, q, r)
          /\ q.session = b.session /\ q.project = b.project /\ q.seen = b.seen /\ q.calls = b.calls
      BY <1>2, <3>2, EmitOne
    <3>. QED
      BY ZenonT(60), <2>2, <2>4, <3>1, <3>3 DEF Adds, q, r, b
  <2>5. CASE state /\ Titles(b, l)
    <3> DEFINE tag == Given(l.turn, n)
    <3>1. l.type = "title" /\ l.text # None /\ ~ Says(b, l) /\ ~ Notes(l)
      BY <2>5 DEF Says, Notes, Titles
    <3>2. TitleTag(l, n) = tag /\ tag \in TurnIds /\ l.text \in Texts
      BY <1>2, <2>5, TagsIs DEF TitleTag
    <3>3. q = Title(b, tag, l.text)
      BY <1>1, <2>1, <2>5, <3>1 DEF ReadPi
    <3> HIDE DEF q, b, tag
    <3>4. /\ q \in Parsers
          /\ q.session = b.session /\ q.project = b.project /\ q.seen = b.seen /\ q.calls = b.calls
          /\ b.project = Unknown => Parks(b, q, [turn |-> tag, text |-> l.text])
          /\ b.project # Unknown => Tells(b, q, Record(b, tag, "system", "title", l.text))
      BY <1>2, <3>2, <3>3, TitleIs
    <3>. QED
      BY ZenonT(60), <2>2, <2>5, <3>1, <3>2, <3>4 DEF Adds, q, b
  <2>6. CASE ~ Says(b, l) /\ ~ (state /\ (Notes(l) \/ Titles(b, l)))
    <3>1. q = p
      BY <1>1, <2>1, <2>6, <1>4 DEF ReadPi, Says, Notes, Titles
    <3>. QED
      BY <1>2, <2>1, <2>2, <2>6, <3>1 DEF Adds, Same
  <2>. QED
    BY <2>3, <2>4, <2>5, <2>6
<1>. QED
  BY <1>3, <1>4

LEMMA AddsClaude ==
  ASSUME NEW p \in Parsers, NEW l, format \in Formats, l \in LinesOf[format], NEW n \in 1..MaxLines,
         NEW state \in BOOLEAN, format = "claude"
  PROVE  LET b == Parted(Moved(p, l), l, state)
             q == Read(p, l, n, state) IN
         q \in Parsers /\ Adds(b, q, l, n, state)
<1> DEFINE a == Moved(p, l)
           b == Parted(a, l, state)
           q == Read(p, l, n, state)
<1>1. q = ReadClaude(p, l, n, state) /\ a = Located(p, l)
  BY DEF Read, Moved
<1>2. a \in Parsers /\ b \in Parsers
  BY MovedIs, PartedIs
<1>0. l.type \in {"none", "title", "turn"}
  BY LineIs DEF TypesOf
<1>3. ~ Owns(l) /\ ~ Notes(l)
  BY <1>0 DEF Owns, Notes
<1>4. CASE l.type = "turn"
  <2>1. b = IF state THEN ReadParts(a, l) ELSE a
    BY <1>4 DEF Parted
  <2>2. q = Said(b, l)
    BY <1>1, <1>4, <2>1 DEF ReadClaude, ClaudeTurn
  <2>3. ~ Titles(b, l)
    BY <1>4 DEF Titles
  <2>4. CASE Says(b, l)
    <3> DEFINE r == Record(b, TurnTag(l, n), l.role, "message", l.text)
    <3>1. Indexable(l) /\ l.turn # None /\ TurnTag(l, n) = Named(l.turn)
      BY <2>4 DEF Says, TurnTag, Given
    <3>2. q = Emit(b, <<r>>) /\ r \in Item
      BY <1>2, <2>2, <2>4, <3>1, TagsIs DEF Said
    <3> HIDE DEF q, r, b, a
    <3>3. /\ q \in Parsers /\ Tells(b, q, r)
          /\ q.session = b.session /\ q.project = b.project /\ q.seen = b.seen /\ q.calls = b.calls
      BY <1>2, <3>2, EmitOne
    <3>. QED
      BY <1>3, <2>3, <2>4, <3>3 DEF Adds, q, r, b, a
  <2>5. CASE ~ Says(b, l)
    <3>1. q = b
      BY <1>4, <2>2, <2>5 DEF Said, Says
    <3>. QED
      BY <1>2, <1>3, <2>3, <2>5, <3>1 DEF Adds, Same
  <2>. QED
    BY <2>4, <2>5
<1>5. CASE l.type = "title"
  <2>1. b = a /\ ~ Says(b, l)
    BY <1>5 DEF Parted, Says
  <2>2. CASE state /\ Titles(b, l)
    <3> DEFINE tag == <<"title", l.text>>
               o == [b EXCEPT !.seen = b.seen \cup {tag}]
    <3>1. l.text # None /\ tag \notin b.seen
      BY <2>2 DEF Titles
    <3>2. TitleTag(l, n) = tag /\ tag \in TurnIds /\ l.text \in Texts
      BY <1>2, <2>2, TagsIs DEF TitleTag
    <3>3. q = Title(o, tag, l.text)
      BY <1>1, <1>2, <1>5, <2>1, <2>2, <3>1 DEF ReadClaude, ClaudeTitle, Parsers
    <3> HIDE DEF tag, q, b, a
    <3>4. /\ o \in Parsers /\ o.items = b.items /\ o.parked = b.parked
          /\ o.session = b.session /\ o.project = b.project /\ o.seen = b.seen \cup {tag}
          /\ o.calls = b.calls
      <4>1. b.seen \in SUBSET SeenKeys /\ tag \in SeenKeys
        BY <1>2, <3>2 DEF Parsers, SeenKeys
      <4>2. b.seen \cup {tag} \in SUBSET SeenKeys
        BY <4>1
      <4>. QED
        BY <1>2, <4>2 DEF Parsers
    <3> HIDE DEF o
    <3>5. /\ q \in Parsers
          /\ q.session = o.session /\ q.project = o.project /\ q.seen = o.seen /\ q.calls = o.calls
          /\ o.project = Unknown => Parks(o, q, [turn |-> tag, text |-> l.text])
          /\ o.project # Unknown => Tells(o, q, Record(o, tag, "system", "title", l.text))
      BY <3>2, <3>3, <3>4, TitleIs
    <3>6. Record(o, tag, "system", "title", l.text) = Record(b, tag, "system", "title", l.text)
      BY <3>4 DEF Record, Id
    <3>7. /\ b.project = Unknown => Parks(b, q, [turn |-> tag, text |-> l.text])
          /\ b.project # Unknown => Tells(b, q, Record(b, tag, "system", "title", l.text))
      BY <3>4, <3>5, <3>6 DEF Parks, Tells
    <3>8. q.seen = b.seen \cup {<<"title", l.text>>}
      BY <3>4, <3>5 DEF tag
    <3>. QED
      BY ZenonT(60), <1>3, <2>1, <2>2, <3>2, <3>4, <3>5, <3>7, <3>8 DEF Adds, q, b, a
  <2>3. CASE ~ (state /\ Titles(b, l))
    <3>1. q = b
      BY <1>1, <1>5, <2>1, <2>3 DEF ReadClaude, ClaudeTitle, Titles
    <3>. QED
      BY <1>2, <1>3, <2>1, <2>3, <3>1 DEF Adds, Same
  <2>. QED
    BY <2>2, <2>3
<1>6. CASE l.type = "none"
  <2>1. b = a /\ ~ Says(b, l) /\ ~ Titles(b, l) /\ q = a
    BY <1>1, <1>6 DEF Parted, Says, Titles, ReadClaude
  <2>. QED
    BY <1>2, <1>3, <2>1 DEF Adds, Same
<1>. QED
  BY <1>0, <1>4, <1>5, <1>6

LEMMA AddsCodex ==
  ASSUME NEW p \in Parsers, NEW l, format \in Formats, l \in LinesOf[format], NEW n \in 1..MaxLines,
         NEW state \in BOOLEAN, format = "codex"
  PROVE  LET b == Parted(Moved(p, l), l, state)
             q == Read(p, l, n, state) IN
         q \in Parsers /\ Adds(b, q, l, n, state)
<1> DEFINE b == Parted(Moved(p, l), l, state)
           q == Read(p, l, n, state)
<1>1. q = ReadCodex(p, l, n, state) /\ b = Moved(p, l)
  BY DEF Read, Parted
<1>2. b \in Parsers
  BY <1>1, MovedIs
<1>3. CASE l.type = "session"
  <2>1. b = Opened(p, l) /\ OwnTag(l, n) = Named(l.session)
    BY <1>1, <1>3 DEF Moved, OwnTag
  <2>2. q = Emit(b, OwnTitle(b, OwnTag(l, n), l, state))
    BY <1>1, <1>3, <2>1 DEF ReadCodex
  <2> HIDE DEF b, q
  <2>. QED
    BY <1>2, <1>3, <2>2, OwnTitleIs DEF b, q
<1>4. CASE l.type # "session"
  <2>1. b = p
    BY <1>1, <1>4 DEF Moved
  <2>2. ~ Owns(l) /\ ~ Notes(l) /\ ~ Titles(b, l)
    BY <1>4, LineIs DEF Owns, Notes, Titles, TypesOf
  <2>3. CASE Says(b, l)
    <3> DEFINE key == CodexKey(l)
               o == [b EXCEPT !.seen = b.seen \cup {key}]
               r == Record(b, TurnTag(l, n), l.role, "message", l.text)
    <3>1. l.type = "turn" /\ Indexable(l) /\ key \notin b.seen /\ TurnTag(l, n) = Given(l.turn, n - 1)
      BY <2>3 DEF Says, TurnTag
    <3>2. key \in SeenKeys
      <4>1. l.turn \in Turns \cup {None} /\ l.text \in Texts
        BY <3>1, LineIs DEF Indexable
      <4>2. l.turn # None => Named(l.turn) \in TurnIds
        BY <4>1, TurnIdIs
      <4>. QED
        BY <4>1, <4>2 DEF CodexKey, SeenKeys
    <3>3. o \in Parsers /\ r \in Item
      <4>1. b.seen \in SUBSET SeenKeys
        BY <1>2 DEF Parsers
      <4> HIDE DEF b, key
      <4>2. b.seen \cup {key} \in SUBSET SeenKeys
        BY <3>2, <4>1
      <4>. QED
        BY <1>2, <2>3, <4>2, TagsIs DEF Parsers
    <3>4. Record(o, TurnTag(l, n), l.role, "message", l.text) = r
      BY <1>2 DEF Record, Id, Parsers
    <3>5. q = Emit(o, <<r>>)
      BY <1>1, <1>2, <2>1, <3>1 DEF ReadCodex, Parsers, Record, Id
    <3>6. /\ o.items = b.items /\ o.parked = b.parked
          /\ o.session = b.session /\ o.project = b.project /\ o.seen = b.seen \cup {key}
          /\ o.calls = b.calls
      BY <1>2 DEF Parsers
    <3> HIDE DEF q, r, b, o, key
    <3>7. /\ q \in Parsers /\ Tells(o, q, r)
          /\ q.session = o.session /\ q.project = o.project /\ q.seen = o.seen /\ q.calls = o.calls
      BY <3>3, <3>5, EmitOne
    <3>8. Tells(b, q, r) /\ q.seen = b.seen \cup {key}
      BY <3>6, <3>7 DEF Tells
    <3>. QED
      BY <2>2, <2>3, <3>6, <3>7, <3>8 DEF Adds, q, r, b, key
  <2>4. CASE ~ Says(b, l)
    <3>1. q = p
      BY <1>1, <2>1, <2>4, <1>4 DEF ReadCodex, Says
    <3>. QED
      BY <1>2, <2>1, <2>2, <2>4, <3>1 DEF Adds, Same
  <2>. QED
    BY <2>3, <2>4
<1>. QED
  BY <1>3, <1>4

LEMMA AddsGrok ==
  ASSUME NEW p \in Parsers, NEW l, format \in Formats, l \in LinesOf[format], NEW n \in 1..MaxLines,
         NEW state \in BOOLEAN, format = "grok"
  PROVE  LET b == Parted(Moved(p, l), l, state)
             q == Read(p, l, n, state) IN
         q \in Parsers /\ Adds(b, q, l, n, state)
<1> DEFINE b == Parted(Moved(p, l), l, state)
           q == Read(p, l, n, state)
<1>1. q = ReadGrok(p, l, n, state) /\ b = Moved(p, l)
  BY DEF Read, Parted
<1>2. b \in Parsers
  BY <1>1, MovedIs
<1>3. ~ Owns(l) /\ ~ Notes(l) /\ ~ Titles(b, l)
  BY LineIs DEF Owns, Notes, Titles, TypesOf
<1>4. CASE Says(b, l)
  <2> DEFINE r == Record(b, TurnTag(l, n), l.role, "message", l.text)
  <2>1. l.type = "turn" /\ Indexable(l) /\ TurnTag(l, n) = Given(l.turn, n)
    BY <1>4 DEF Says, TurnTag
  <2>2. q = Emit(b, <<r>>) /\ r \in Item
    BY <1>1, <1>2, <1>4, <2>1, TagsIs DEF ReadGrok, Moved
  <2> HIDE DEF q, r, b
  <2>3. /\ q \in Parsers /\ Tells(b, q, r)
        /\ q.session = b.session /\ q.project = b.project /\ q.seen = b.seen /\ q.calls = b.calls
    BY <1>2, <2>2, EmitOne
  <2>. QED
    BY <1>3, <1>4, <2>3 DEF Adds, q, r, b
<1>5. CASE ~ Says(b, l)
  <2>1. ~ (l.type = "turn" /\ Indexable(l))
    BY <1>5 DEF Says
  <2>2. q = p /\ b = p
    BY <1>1, <2>1 DEF ReadGrok, Moved
  <2>. QED
    BY <1>2, <1>3, <1>5, <2>2 DEF Adds, Same
<1>. QED
  BY <1>4, <1>5

(* What a line does to a loop, in a session file.                          *)
LEMMA ReadIs ==
  ASSUME NEW p \in Parsers, NEW l, format \in Formats, l \in LinesOf[format], NEW n \in 1..MaxLines,
         NEW state \in BOOLEAN, format # "telegram"
  PROVE  LET b == Parted(Moved(p, l), l, state)
             q == Read(p, l, n, state) IN
         q \in Parsers /\ Adds(b, q, l, n, state)
<1>1. format \in {"pi", "claude", "codex", "grok"}
  BY DEF UnitsAssumption, AllFormats
<1>. QED
  BY <1>1, AddsPi, AddsClaude, AddsCodex, AddsGrok

-----------------------------------------------------------------------------
(* A chat's line.                                                          *)
ChatItem(l) ==
  [id |-> ChatId(l), session |-> l.session, role |-> l.role, kind |-> "message",
   text |-> l.text, project |-> Unknown, title |-> l.title, reply |-> l.reply, date |-> l.date]

Places(p, id) == {i \in DOMAIN p.items : p.items[i].id = id}

Edited(p, at, it) == [i \in DOMAIN p.items |-> IF i \in at THEN it ELSE p.items[i]]

LEMMA ChatItemTyped ==
  ASSUME NEW l, format = "telegram", format \in Formats, l \in LinesOf[format], l.type = "turn"
  PROVE  ChatItem(l) \in Item
<1>1. /\ l.session \in Sessions /\ l.turn \in Turns
      /\ l.role \in {"user", "assistant", "toolResult", "system"} /\ l.text \in Texts \cup {None}
      /\ l.title \in Texts \cup {None} /\ l.reply \in Turns \cup {None} /\ l.date \in Nat
  BY LineIs DEF UnitsAssumption
<1>2. ChatId(l) \in Sessions \X Kinds \X TurnIds
  BY <1>1, TurnIdIs DEF ChatId, Id, Kinds
<1>3. "message" \in Kinds
  BY DEF Kinds
<1>. QED
  BY <1>1, <1>2, <1>3 DEF ChatItem, Item

LEMMA TelegramIs ==
  ASSUME NEW p \in Parsers, NEW l, format \in Formats, l \in LinesOf[format], NEW n,
         NEW state \in BOOLEAN, format = "telegram"
  PROVE  LET q == Read(p, l, n, state)
             at == Places(p, ChatId(l)) IN
         /\ q \in Parsers /\ q.parked = p.parked
         /\ q.session = p.session /\ q.project = p.project /\ q.seen = p.seen /\ q.calls = p.calls
         /\ l.type # "turn" => q = p
         /\ l.type = "turn" /\ at = {} => q.items = Append(p.items, ChatItem(l))
         /\ l.type = "turn" /\ at # {} =>
              q.items = Edited(p, at, ChatItem(l))
<1> DEFINE q == Read(p, l, n, state)
           at == Places(p, ChatId(l))
           it == ChatItem(l)
           edited == Edited(p, at, it)
<1>1. q = ReadTelegram(p, l, n, state)
  BY DEF Read
<1>2. p.items \in Seq(Item)
  BY DEF Parsers
<1>3. CASE l.type # "turn"
  <2>1. q = p
    BY <1>1, <1>3 DEF ReadTelegram
  <2>. QED
    BY <1>3, <2>1
<1>4. CASE l.type = "turn" /\ at = {}
  <2>1. q = Emit(p, <<it>>)
    BY <1>1, <1>4 DEF ReadTelegram, Places, ChatItem
  <2>2. it \in Item
    BY <1>4, ChatItemTyped
  <2> HIDE DEF q, it, at
  <2>3. /\ q \in Parsers /\ Tells(p, q, it)
        /\ q.session = p.session /\ q.project = p.project /\ q.seen = p.seen /\ q.calls = p.calls
    BY <2>1, <2>2, EmitOne
  <2>. QED
    BY <1>4, <2>3 DEF Tells, q, it, at
<1>5. CASE l.type = "turn" /\ at # {}
  <2>1. q = [p EXCEPT !.items = edited]
    BY <1>1, <1>5 DEF ReadTelegram, Places, ChatItem, Parsers, Edited
  <2>2. it \in Item
    BY <1>5, ChatItemTyped
  <2> HIDE DEF q, it, at
  <2>3. edited \in Seq(Item)
    BY <1>2, <2>2 DEF Edited
  <2> HIDE DEF edited
  <2>4. q \in Parsers
    BY <2>1, <2>3 DEF Parsers
  <2>5. /\ q.items = edited /\ q.parked = p.parked
        /\ q.session = p.session /\ q.project = p.project /\ q.seen = p.seen /\ q.calls = p.calls
    BY <2>1 DEF Parsers
  <2>. QED
    BY <1>5, <2>4, <2>5 DEF q, it, at, edited
<1>. QED
  BY <1>3, <1>4, <1>5

LEMMA ReadTyped ==
  ASSUME NEW p \in Parsers, NEW l, format \in Formats, l \in LinesOf[format], NEW n \in 1..MaxLines,
         NEW state \in BOOLEAN
  PROVE  Read(p, l, n, state) \in Parsers
BY ReadIs, TelegramIs

LEMMA InitTyped == ASSUME Init PROVE Typed
<1>1. index \in Parsers
  <2>1. \A s \in Sessions, g \in Projects \cup {Unknown} : Parser(s, g) \in Parsers
    BY DEF Parser, Parsers
  <2>. QED
    BY <2>1 DEF Init, UnitsAssumption
<1>2. lines \in Seq(LinesOf[format]) /\ Len(lines) <= MaxLines /\ format \in Formats /\ walk = index
  BY DEF Init, UnitsAssumption
<1>. QED
  BY <1>1, <1>2 DEF Typed

(* The line that a step reads.                                             *)
Grows(l) ==
  /\ l \in LinesOf[format] /\ format \in Formats /\ IsNew(l)
  /\ Len(lines) + 1 \in 1..MaxLines
  /\ lines' = Append(lines, l) /\ Len(lines') = Len(lines) + 1 /\ Last(lines') = l
  /\ \A k \in 1..Len(lines) : lines'[k] = lines[k]
  /\ lines'[Len(lines) + 1] = l
  /\ DOMAIN lines = 1..Len(lines) /\ DOMAIN lines' = 1..(Len(lines) + 1) /\ Len(lines) \in Nat
  /\ index' = Read(index, l, Len(lines) + 1, TRUE)
  /\ walk' = Read(walk, l, Len(lines) + 1, FALSE)
  /\ format' = format

LEMMA GrowIs ==
  ASSUME Typed, NEW l \in LinesOf[format], Grow(l)
  PROVE  Grows(l)
<1>1. lines \in Seq(LinesOf[format]) /\ format \in Formats /\ Len(lines) < MaxLines
      /\ lines' = Append(lines, l) /\ MaxLines \in Nat /\ IsNew(l)
  BY DEF Typed, Grow, UnitsAssumption
<1>2. Len(lines) + 1 \in 1..MaxLines /\ Len(lines') = Len(lines) + 1 /\ Len(lines) \in Nat
      /\ DOMAIN lines = 1..Len(lines) /\ DOMAIN lines' = 1..(Len(lines) + 1)
      /\ lines'[Len(lines) + 1] = l /\ \A k \in 1..Len(lines) : lines'[k] = lines[k]
  BY <1>1
<1>3. Last(lines') = l
  BY <1>2 DEF Last
<1>. QED
  BY <1>1, <1>2, <1>3 DEF Grow, Grows

LEMMA StepTyped ==
  ASSUME Typed, NEW l, Grows(l)
  PROVE  Typed'
<1>1. index' \in Parsers /\ walk' \in Parsers
  BY ReadTyped DEF Typed, Grows
<1>2. format' \in Formats /\ lines' \in Seq(LinesOf[format]) /\ Len(lines') <= MaxLines /\ MaxLines \in Nat
  BY DEF Typed, Grows, UnitsAssumption
<1>. QED
  BY <1>1, <1>2 DEF Typed, Parsers, Grows

-----------------------------------------------------------------------------
(***************************************************************************)
(* The two loops agree on where they are, and the walk's has just the      *)
(* messages of the other's records.                                        *)
(***************************************************************************)
InStep(p, w) ==
  /\ w.session = p.session /\ w.project = p.project
  /\ w.parked = <<>> /\ w.calls = {}
  /\ format = "codex" => w.seen = p.seen
  /\ w.items = Spoken(p.items)
  /\ format = "telegram" => p.items = w.items

Lockstep == InStep(index, walk)

(* The titles that waited, as records.                                     *)
Freed(p, q, t) ==
  /\ DOMAIN t = 1..Len(p.parked) /\ Len(t) = Len(p.parked) /\ DOMAIN p.parked = 1..Len(p.parked)
  /\ Len(p.parked) \in Nat /\ q.items = p.items \o t
  /\ \A i \in DOMAIN t :
       /\ t[i].kind = "title" /\ t[i].id = <<q.session, "title", p.parked[i].turn>>
       /\ t[i].session = q.session /\ t[i].text = p.parked[i].text /\ t[i].title = None

LEMMA FreesTyped ==
  ASSUME NEW p \in Parsers, NEW q \in Parsers, Frees(p, q)
  PROVE  \E t \in Seq(Item) : Freed(p, q, t)
<1> DEFINE r(i) == Record(q, p.parked[i].turn, "system", "title", p.parked[i].text)
           t == [i \in DOMAIN p.parked |-> r(i)]
<1>1. DOMAIN p.parked = 1..Len(p.parked) /\ Len(p.parked) \in Nat /\ \A i \in DOMAIN p.parked : p.parked[i] \in Wait
  BY DEF Parsers
<1>2. \A i \in DOMAIN p.parked : p.parked[i].turn \in TurnIds /\ p.parked[i].text \in Texts
  BY <1>1 DEF Wait
<1>3. "title" \in Kinds
  BY DEF Kinds
<1>4. \A i \in DOMAIN p.parked : r(i) \in Item
  BY <1>2, <1>3, RecordTyped
<1>5. \A i \in DOMAIN p.parked :
        r(i).kind = "title" /\ r(i).id = <<q.session, "title", p.parked[i].turn>>
        /\ r(i).session = q.session /\ r(i).text = p.parked[i].text /\ r(i).title = None
  BY RecordIs
<1>6. q.items = p.items \o t
  BY DEF Frees
<1> HIDE DEF r
<1>7. t \in Seq(Item) /\ DOMAIN t = 1..Len(p.parked) /\ Len(t) = Len(p.parked)
  BY <1>1, <1>4
<1>8. \A i \in DOMAIN t :
        /\ t[i].kind = "title" /\ t[i].id = <<q.session, "title", p.parked[i].turn>>
        /\ t[i].session = q.session /\ t[i].text = p.parked[i].text /\ t[i].title = None
  BY <1>5
<1> HIDE DEF t
<1>. QED
  BY <1>1, <1>6, <1>7, <1>8 DEF Freed

(* Moving on and reporting parts says nothing.                             *)
LEMMA MovedSpoken ==
  ASSUME NEW p \in Parsers, NEW l, format \in Formats, l \in LinesOf[format]
  PROVE  Spoken(Moved(p, l).items) = Spoken(p.items)
<1> DEFINE a == Moved(p, l)
<1>1. a \in Parsers /\ (Frees(p, a) \/ Same(p, a))
  BY MovedIs
<1> HIDE DEF a
<1>2. CASE Same(p, a)
  BY <1>2 DEF Same, a
<1>3. CASE Frees(p, a)
  <2>3. PICK t \in Seq(Item) : Freed(p, a, t)
    BY <1>1, <1>3, FreesTyped
  <2>1. a.items = p.items \o t /\ \A i \in DOMAIN t : t[i].kind = "title"
    BY <2>3 DEF Freed
  <2>2. p.items \in Seq(Item)
    BY DEF Parsers
  <2>. QED
    BY <2>1, <2>2, SpokenSame DEF a
<1>. QED
  BY <1>1, <1>2, <1>3

LEMMA PartedSpoken ==
  ASSUME NEW p \in Parsers, NEW l, format \in Formats, l \in LinesOf[format], NEW state \in BOOLEAN
  PROVE  Spoken(Parted(p, l, state).items) = Spoken(p.items)
<1> DEFINE b == Parted(p, l, state)
<1>1. PICK s \in Seq(Item) : TellsAll(p, b, s) /\ Reported(p, l, s)
  BY PartedIs
<1>2. \A i \in DOMAIN s : s[i].kind # "message"
  <2>. SUFFICES ASSUME NEW i \in DOMAIN s PROVE s[i].kind # "message"
    OBVIOUS
  <2>1. PICK j \in Reports(p, l.parts) : s[i] = Report(p, l, l.parts[j])
    BY <1>1 DEF Reported
  <2>. QED
    BY <2>1, ReportIs
<1>3. p.items \in Seq(Item)
  BY DEF Parsers
<1>. QED
  BY <1>1, <1>2, <1>3, SpokenSame DEF TellsAll

(* A loop that keeps no state records has nothing waiting.                 *)
LEMMA FreesNothing ==
  ASSUME NEW p \in Parsers, NEW q \in Parsers, Frees(p, q), p.parked = <<>>
  PROVE  q.items = p.items /\ q.parked = <<>>
<1>1. PICK t \in Seq(Item) : Freed(p, q, t)
  BY FreesTyped
<1>2. t = <<>> /\ p.items \in Seq(Item) /\ q.items = p.items \o t
  BY <1>1 DEF Parsers, Freed
<1>3. p.items \o <<>> = p.items
  BY <1>2
<1>. QED
  BY <1>1, <1>2, <1>3 DEF Frees

(* A record of another kind is told.                                       *)
LEMMA ToldQuietly ==
  ASSUME NEW b \in Parsers, NEW q, NEW r \in Item, r.kind # "message", Tells(b, q, r)
  PROVE  Spoken(q.items) = Spoken(b.items)
<1>1. b.items \in Seq(Item)
  BY DEF Parsers
<1> DEFINE t == <<r>>
<1>2. q.items = b.items \o t /\ t \in Seq(Item) /\ \A i \in DOMAIN t : t[i] = r
  BY <1>1 DEF Tells
<1> HIDE DEF t
<1>. QED
  BY <1>1, <1>2, SpokenSame

LEMMA AddsQuietly ==
  ASSUME NEW b \in Parsers, NEW q, NEW l, format \in Formats, l \in LinesOf[format],
         NEW n \in 1..MaxLines, NEW state \in BOOLEAN, Adds(b, q, l, n, state), ~ Says(b, l)
  PROVE  Spoken(q.items) = Spoken(b.items)
<1>1. CASE Same(b, q)
  BY <1>1 DEF Same
<1>2. CASE state /\ Notes(l)
  <2> DEFINE r == Record(b, Given(l.turn, n), l.role, l.kind, l.text)
  <2>1. r \in Item
    BY <1>2, TagsIs
  <2>2. r.kind # "message"
    BY <1>2, LineIs DEF Record, Notes
  <2>3. Tells(b, q, r)
    BY <1>2 DEF Adds
  <2> HIDE DEF r
  <2>. QED
    BY <2>1, <2>2, <2>3, ToldQuietly
<1>3. CASE state /\ Titles(b, l)
  <2> DEFINE r == Record(b, TitleTag(l, n), "system", "title", l.text)
  <2>1. r \in Item
    BY <1>3, TagsIs, RecordTyped DEF Kinds
  <2>2. r.kind # "message"
    BY DEF Record
  <2>3. Tells(b, q, r) \/ Parks(b, q, [turn |-> TitleTag(l, n), text |-> l.text])
    BY <1>3 DEF Adds
  <2>4. CASE Parks(b, q, [turn |-> TitleTag(l, n), text |-> l.text])
    BY <2>4 DEF Parks
  <2> HIDE DEF r
  <2>. QED
    BY <2>1, <2>2, <2>3, <2>4, ToldQuietly
<1>4. CASE state /\ Owns(l)
  <2> DEFINE r == Record(b, <<"session", OwnTag(l, n)>>, "system", "title", l.text)
  <2>1. r \in Item
    BY <1>4, TagsIs
  <2>2. r.kind # "message"
    BY DEF Record
  <2>3. Tells(b, q, r)
    BY <1>4 DEF Adds
  <2> HIDE DEF r
  <2>. QED
    BY <2>1, <2>2, <2>3, ToldQuietly
<1>5. CASE ~ (state /\ (Notes(l) \/ Titles(b, l) \/ Owns(l)))
  <2>1. Same(b, q)
    BY <1>5 DEF Adds
  <2>. QED
    BY <1>1, <2>1
<1>. QED
  BY <1>2, <1>3, <1>4, <1>5

LEMMA SessionInStep ==
  ASSUME NEW p \in Parsers, NEW k \in Parsers, InStep(p, k), NEW l, format \in Formats,
         l \in LinesOf[format], NEW n \in 1..MaxLines, format # "telegram"
  PROVE  InStep(Read(p, l, n, TRUE), Read(k, l, n, FALSE))
<1> DEFINE a == Moved(p, l)
           v == Moved(k, l)
           b == Parted(a, l, TRUE)
           w == Parted(v, l, FALSE)
           q == Read(p, l, n, TRUE)
           z == Read(k, l, n, FALSE)
<1>1. /\ a \in Parsers /\ a.seen = p.seen /\ v \in Parsers /\ v.seen = k.seen /\ v.calls = {}
      /\ v.session = a.session /\ v.project = a.project
      /\ Frees(k, v) \/ Same(k, v)
  BY MovedIs DEF InStep, Opens
<1>2. Spoken(a.items) = k.items
  BY MovedSpoken DEF InStep
<1> HIDE DEF a, v
<1>3. v.items = k.items /\ v.parked = <<>>
  BY <1>1, FreesNothing DEF Same, InStep
<1>4. /\ b \in Parsers /\ b.session = a.session /\ b.project = a.project /\ b.seen = a.seen
      /\ Spoken(b.items) = k.items
  <2>1. b \in Parsers /\ b.session = a.session /\ b.project = a.project /\ b.seen = a.seen
    <3>1. \A state \in BOOLEAN :
            LET c == Parted(a, l, state) IN
            c \in Parsers /\ c.session = a.session /\ c.project = a.project /\ c.seen = a.seen
      BY <1>1, PartedIs
    <3>. QED
      BY <3>1
  <2>2. Spoken(b.items) = Spoken(a.items)
    BY <1>1, PartedSpoken
  <2>. QED
    BY <1>2, <2>1, <2>2
<1>5. w = v
  BY DEF Parted
<1>6. q \in Parsers /\ Adds(b, q, l, n, TRUE) /\ Adds(w, z, l, n, FALSE)
  BY ReadIs DEF a, v
<1> HIDE DEF b, w, q, z
<1>7. Says(b, l) <=> Says(w, l)
  BY <1>1, <1>4, <1>5 DEF Says, InStep
<1>8. /\ z.session = q.session /\ z.project = q.project /\ z.calls = {}
      /\ format = "codex" => z.seen = q.seen
  BY <1>1, <1>4, <1>5, <1>6, <1>7 DEF Adds, InStep
<1>9. b.items \in Seq(Item) /\ w.items = k.items /\ w.parked = <<>>
  BY <1>3, <1>4, <1>5 DEF Parsers
<1>10. CASE Says(b, l)
  <2> DEFINE r == Record(b, TurnTag(l, n), l.role, "message", l.text)
  <2>1. q.items = Append(b.items, r)
    BY <1>6, <1>10 DEF Adds, Tells
  <2>2. Record(w, TurnTag(l, n), l.role, "message", l.text) = r
    BY <1>1, <1>4, <1>5 DEF Record, Id
  <2>3. z.items = Append(k.items, r) /\ z.parked = <<>>
    BY <1>6, <1>7, <1>9, <1>10, <2>2 DEF Adds, Tells
  <2>4. r \in Item
    BY <1>4, <1>10, TagsIs
  <2>5. r.kind = "message"
    BY DEF Record
  <2> HIDE DEF r
  <2>6. Spoken(q.items) = Append(k.items, r)
    BY <1>4, <1>9, <2>1, <2>4, <2>5, SpokenMore
  <2>. QED
    BY <1>8, <2>3, <2>6 DEF InStep, q, z
<1>11. CASE ~ Says(b, l)
  <2>1. z.items = k.items /\ z.parked = <<>>
    BY <1>6, <1>7, <1>9, <1>11 DEF Adds, Same
  <2>2. Spoken(q.items) = k.items
    BY <1>4, <1>6, <1>11, AddsQuietly
  <2>. QED
    BY <1>8, <2>1, <2>2 DEF InStep, q, z
<1>. QED
  BY <1>10, <1>11

(* What a chat's line does, whether or not state records are kept.         *)
LEMMA ChatLine ==
  ASSUME NEW p \in Parsers, NEW l, format \in Formats, l \in LinesOf[format], NEW n,
         NEW state \in BOOLEAN, format = "telegram"
  PROVE  LET q == Read(p, l, n, state)
             at == Places(p, ChatId(l)) IN
         /\ q.items \in Seq(Item)
         /\ q.items = IF l.type # "turn" THEN p.items
                      ELSE IF at = {} THEN Append(p.items, ChatItem(l))
                      ELSE Edited(p, at, ChatItem(l))
<1> DEFINE q == Read(p, l, n, state)
           at == Places(p, ChatId(l))
           it == ChatItem(l)
<1>1. /\ q \in Parsers
      /\ l.type # "turn" => q = p
      /\ l.type = "turn" /\ at = {} => q.items = Append(p.items, it)
      /\ l.type = "turn" /\ at # {} => q.items = Edited(p, at, it)
  BY TelegramIs
<1> HIDE DEF q, at, it
<1>2. q.items \in Seq(Item)
  BY <1>1 DEF Parsers
<1>. QED
  BY <1>1, <1>2 DEF q, at, it

(* A chat has nothing but messages.                                        *)
LEMMA ChatMessages ==
  ASSUME NEW p \in Parsers, NEW l, format \in Formats, l \in LinesOf[format], NEW n,
         NEW state \in BOOLEAN, format = "telegram",
         \A i \in DOMAIN p.items : p.items[i].kind = "message"
  PROVE  LET s == Read(p, l, n, state).items IN \A i \in DOMAIN s : s[i].kind = "message"
<1> DEFINE s == Read(p, l, n, state).items
           at == Places(p, ChatId(l))
           it == ChatItem(l)
<1>1. /\ s \in Seq(Item)
      /\ s = IF l.type # "turn" THEN p.items
             ELSE IF at = {} THEN Append(p.items, it) ELSE Edited(p, at, it)
  BY ChatLine
<1>2. it.kind = "message" /\ p.items \in Seq(Item)
  BY DEF ChatItem, Parsers
<1> HIDE DEF s, at, it
<1>3. CASE l.type = "turn" /\ at = {}
  <2>1. s = Append(p.items, it)
    BY <1>1, <1>3
  <2>2. DOMAIN p.items = 1..Len(p.items) /\ Len(p.items) \in Nat /\ DOMAIN s = 1..(Len(p.items) + 1)
    BY <1>2, <2>1
  <2>3. \A i \in 1..(Len(p.items) + 1) : s[i] = it \/ (i \in DOMAIN p.items /\ s[i] = p.items[i])
    BY <1>2, <2>1, <2>2
  <2>. QED
    BY <1>2, <2>2, <2>3 DEF s
<1>4. CASE l.type = "turn" /\ at # {}
  <2>1. s = Edited(p, at, it)
    BY <1>1, <1>4
  <2>. QED
    BY <1>2, <2>1 DEF Edited, s
<1>5. CASE l.type # "turn"
  BY <1>1, <1>5 DEF s
<1>. QED
  BY <1>3, <1>4, <1>5

LEMMA ChatInStep ==
  ASSUME NEW p \in Parsers, NEW k \in Parsers, InStep(p, k), NEW l, format \in Formats,
         l \in LinesOf[format], NEW n, NEW state \in BOOLEAN, NEW other \in BOOLEAN,
         format = "telegram"
  PROVE  InStep(Read(p, l, n, state), Read(k, l, n, other))
<1> DEFINE q == Read(p, l, n, state)
           z == Read(k, l, n, other)
           at == Places(p, ChatId(l))
           it == ChatItem(l)
<1>1. k.items = p.items /\ Places(k, ChatId(l)) = at /\ p.items \in Seq(Item)
  BY DEF InStep, Places, Parsers
<1>2. p.items = Spoken(p.items)
  BY DEF InStep
<1>3. \A i \in DOMAIN p.items : p.items[i].kind = "message"
  <2> HIDE DEF at, it
  <2>. QED
    BY <1>1, <1>2, SpokenIs
<1>4. q.session = p.session /\ q.project = p.project
  BY TelegramIs
<1>5. z.session = k.session /\ z.project = k.project /\ z.parked = k.parked /\ z.calls = k.calls
  BY TelegramIs
<1>6. /\ q.items \in Seq(Item)
      /\ q.items = IF l.type # "turn" THEN p.items
                   ELSE IF at = {} THEN Append(p.items, it) ELSE Edited(p, at, it)
  BY ChatLine
<1>7. z.items = IF l.type # "turn" THEN k.items
                ELSE IF Places(k, ChatId(l)) = {} THEN Append(k.items, it)
                ELSE Edited(k, Places(k, ChatId(l)), it)
  BY ChatLine
<1>8. \A i \in DOMAIN q.items : q.items[i].kind = "message"
  BY <1>3, ChatMessages
<1> HIDE DEF q, z, at, it
<1>9. Edited(k, at, it) = Edited(p, at, it)
  BY <1>1 DEF Edited
<1>10. z.items = q.items
  BY <1>1, <1>6, <1>7, <1>9
<1>11. Spoken(q.items) = q.items
  BY <1>6, <1>8, AllSpoken
<1>. QED
  BY <1>4, <1>5, <1>10, <1>11 DEF InStep, q, z

LEMMA StepInStep ==
  ASSUME Typed, Lockstep, NEW l, Grows(l)
  PROVE  Lockstep'
<1> DEFINE n == Len(lines) + 1
<1>1. /\ index \in Parsers /\ walk \in Parsers /\ format \in Formats /\ l \in LinesOf[format]
      /\ n \in 1..MaxLines /\ format' = format /\ InStep(index, walk)
      /\ index' = Read(index, l, n, TRUE) /\ walk' = Read(walk, l, n, FALSE)
  BY DEF Typed, Grows, Lockstep
<1> HIDE DEF n
<1>2. InStep(Read(index, l, n, TRUE), Read(walk, l, n, FALSE))
  BY <1>1, SessionInStep, ChatInStep
<1>3. InStep(index', walk')
  BY <1>1, <1>2
<1>. QED
  BY <1>1, <1>3 DEF Lockstep, InStep

LEMMA LockstepInit == ASSUME Init PROVE Lockstep
<1>1. index.items = <<>> /\ index.parked = <<>> /\ index.calls = {} /\ walk = index
  BY DEF Init, Parser
<1>. QED
  BY <1>1, SpokenNone DEF Lockstep, InStep

-----------------------------------------------------------------------------
(***************************************************************************)
(* What the parse returns.                                                 *)
(***************************************************************************)
LEMMA ChatRanks ==
  ASSUME NEW s \in Seq(Item)
  PROVE  /\ WithText(s) \subseteq DOMAIN s /\ IsFiniteSet(WithText(s))
         /\ Ranks(ByDate(s), WithText(s))
         /\ \A x, y \in WithText(s) :
              <<x, y>> \in ByDate(s) <=> s[x].date < s[y].date \/ (s[x].date = s[y].date /\ x < y)
         /\ \A x \in WithText(s) : s[x].date \in Nat
<1> DEFINE P == WithText(s)
           R == ByDate(s)
<1>1. DOMAIN s = 1..Len(s) /\ Len(s) \in Nat /\ \A i \in 1..Len(s) : s[i] \in Item
  OBVIOUS
<1>2. P \subseteq 1..Len(s) /\ IsFiniteSet(1..Len(s))
  BY <1>1, FS_Interval DEF WithText
<1>3. IsFiniteSet(P)
  BY <1>2, FS_Subset
<1>4. \A i \in 1..Len(s) : s[i].date \in Nat
  BY <1>1 DEF Item
<1>5. \A x, y \in P : <<x, y>> \in R <=> s[x].date < s[y].date \/ (s[x].date = s[y].date /\ x < y)
  BY <1>1, <1>2 DEF ByDate
<1> HIDE DEF P, R
<1>6. (\A x \in P : <<x, x>> \notin R) /\ \A x, y \in P : x = y \/ <<x, y>> \in R \/ <<y, x>> \in R
  BY <1>1, <1>2, <1>4, <1>5
<1>7. \A x, y, z \in P : <<x, y>> \in R /\ <<y, z>> \in R => <<x, z>> \in R
  BY <1>1, <1>2, <1>4, <1>5
<1>8. Ranks(R, P)
  BY <1>6, <1>7 DEF Ranks
<1>. QED
  BY <1>1, <1>2, <1>3, <1>4, <1>5, <1>8 DEF P, R

LEMMA ChatOrder ==
  ASSUME NEW s \in Seq(Item)
  PROVE  LET order == InOrder(WithText(s), ByDate(s))
             m == Cardinality(WithText(s)) IN
         /\ WithText(s) \subseteq DOMAIN s /\ IsFiniteSet(WithText(s)) /\ m \in Nat
         /\ order \in [1..m -> WithText(s)]
         /\ \A x \in WithText(s) : \E n \in 1..m : order[n] = x
         /\ \A i, j \in 1..m : i < j <=> <<order[i], order[j]>> \in ByDate(s)
         /\ \A i, j \in 1..m : order[i] = order[j] => i = j
BY ChatRanks, SortsAll

LEMMA ParsedChat ==
  ASSUME NEW p \in Parsers, format = "telegram"
  PROVE  LET s == p.items
             order == InOrder(WithText(s), ByDate(s))
             m == Cardinality(WithText(s)) IN
         /\ Parsed(p) \in Seq(Item) /\ DOMAIN Parsed(p) = 1..m /\ Len(Parsed(p)) = m
         /\ \A n \in 1..m : Parsed(p)[n] = s[order[n]] /\ order[n] \in WithText(s)
<1> DEFINE s == p.items
           order == InOrder(WithText(s), ByDate(s))
           m == Cardinality(WithText(s))
           t == Parsed(p)
<1>1. s \in Seq(Item)
  BY DEF Parsers
<1>2. t = [n \in DOMAIN order |-> s[order[n]]]
  BY DEF Parsed
<1> HIDE DEF s
<1>3. WithText(s) \subseteq DOMAIN s /\ m \in Nat /\ order \in [1..m -> WithText(s)]
  BY <1>1, ChatOrder
<1> HIDE DEF order, m, t
<1>4. DOMAIN order = 1..m /\ \A n \in 1..m : order[n] \in WithText(s) /\ order[n] \in DOMAIN s
  BY <1>3
<1>5. \A i \in DOMAIN s : s[i] \in Item
  BY <1>1
<1>6. t \in Seq(Item) /\ DOMAIN t = 1..m /\ Len(t) = m /\ \A n \in 1..m : t[n] = s[order[n]]
  BY <1>2, <1>3, <1>4, <1>5
<1>. QED
  BY <1>4, <1>6 DEF s, order, m, t

LEMMA ParsedSession ==
  ASSUME NEW p \in Parsers, format # "telegram"
  PROVE  Parsed(p) = IF Skipped(p.items) THEN <<>> ELSE p.items
BY DEF Parsed

-----------------------------------------------------------------------------
(***************************************************************************)
(* A container walk reads the messages that are indexed.                   *)
(***************************************************************************)
LEMMA LockstepAgrees ==
  ASSUME Typed, Lockstep
  PROVE  WalkAgrees
<1> DEFINE s == index.items
           t == Found
<1>1. index \in Parsers /\ walk \in Parsers /\ s \in Seq(Item) /\ walk.items = Spoken(s)
  BY DEF Typed, Parsers, Lockstep, InStep
<1>2. WalkAgrees <=> Parsed(walk) = Spoken(t)
  BY DEF WalkAgrees, Spoken, Messages
<1>3. CASE format = "telegram"
  <2>1. walk.items = s
    BY <1>3 DEF Lockstep, InStep
  <2>2. Parsed(walk) = t
    BY <2>1 DEF Parsed, Found
  <2> DEFINE order == InOrder(WithText(s), ByDate(s))
             m == Cardinality(WithText(s))
  <2>3. /\ t \in Seq(Item) /\ DOMAIN t = 1..m
        /\ \A n \in 1..m : t[n] = s[order[n]] /\ order[n] \in WithText(s)
    BY <1>1, <1>3, ParsedChat DEF Found
  <2>4. \A x \in WithText(s) : x \in DOMAIN s
    BY DEF WithText
  <2>5. \A i \in DOMAIN s : s[i].kind = "message"
    <3> HIDE DEF s
    <3>1. \A n \in DOMAIN Spoken(s) : Spoken(s)[n].kind = "message"
      BY <1>1, SpokenIs
    <3>2. Spoken(s) = s
      BY <1>1, <2>1
    <3>. QED
      BY <3>1, <3>2, Zenon
  <2> HIDE DEF t, s, order, m
  <2>6. \A n \in DOMAIN t : t[n].kind = "message"
    BY <2>3, <2>4, <2>5
  <2>7. Spoken(t) = t
    BY <2>3, <2>6, AllSpoken
  <2>. QED
    BY <1>2, <2>2, <2>7
<1>4. CASE format # "telegram"
  <2>1. t = IF Skipped(s) THEN <<>> ELSE s
    BY <1>1, <1>4, ParsedSession DEF Found
  <2>2. Parsed(walk) = IF Skipped(Spoken(s)) THEN <<>> ELSE Spoken(s)
    BY <1>1, <1>4, ParsedSession
  <2>3. Skipped(Spoken(s)) <=> Skipped(s)
    <3> HIDE DEF s
    <3>. QED
      BY <1>1, SpokenIs
  <2>. QED
    BY <1>2, <2>1, <2>2, <2>3, SpokenNone
<1>. QED
  BY <1>3, <1>4

LEMMA LockstepTypes ==
  ASSUME Typed, Lockstep
  PROVE  TypeOK
<1>1. /\ index.items \in Seq(Item) /\ walk.items \in Seq(Item) /\ walk.items = Spoken(index.items)
      /\ walk.session = index.session /\ walk.project = index.project
      /\ walk.parked = <<>> /\ walk.calls = {}
  BY DEF Typed, Parsers, Lockstep, InStep
<1>2. \A i \in DOMAIN walk.items : walk.items[i].kind = "message"
  BY <1>1, SpokenIs
<1>3. ASSUME NEW s \in Seq(Item), NEW i \in DOMAIN s PROVE s[i] \in Item
  OBVIOUS
<1>4. \A p \in {index, walk} : \A i \in DOMAIN p.items : p.items[i] \in Item
  BY <1>1, <1>3
<1>. QED
  BY <1>1, <1>2, <1>4 DEF TypeOK, Typed

LEMMA SpecLockstep == Spec => [](Typed /\ Lockstep)
<1>1. Init => Typed /\ Lockstep
  BY InitTyped, LockstepInit
<1>2. Typed /\ Lockstep /\ [Next]_vars => (Typed /\ Lockstep)'
  <2>. SUFFICES ASSUME Typed, Lockstep, [Next]_vars PROVE (Typed /\ Lockstep)'
    OBVIOUS
  <2>1. CASE UNCHANGED vars
    BY <2>1 DEF vars, Typed, Lockstep, InStep
  <2>2. ASSUME NEW l \in LinesOf[format], Grow(l) PROVE (Typed /\ Lockstep)'
    <3>1. Grows(l)
      BY <2>2, GrowIs
    <3>. QED
      BY <3>1, StepTyped, StepInStep
  <2>. QED
    BY <2>1, <2>2 DEF Next
<1>. QED
  BY <1>1, <1>2, PTL DEF Spec

(* For every object and whatever its lines: the two loops agree on where    *)
(* they are, what they collect are records, and the walk's keeps messages   *)
(* only (raw_parser.go:90).                                                 *)
THEOREM SpecUnitsTypeOK == Spec => []TypeOK
BY SpecLockstep, LockstepTypes, PTL

(* For every object: the messages a container walk reads are the messages   *)
(* that are indexed, in the same order and under the same ids               *)
(* (parseRawSession against parseRawSessionForIndex).                       *)
THEOREM SpecWalkAgrees == Spec => []WalkAgrees
BY SpecLockstep, LockstepAgrees, PTL

-----------------------------------------------------------------------------
(***************************************************************************)
(* Ids.  The kinds and turns of a loop's records and of the titles that    *)
(* wait are distinct, and each is known: seen before, or traced to a line. *)
(***************************************************************************)
Holds(p, key) ==
  \/ \E i \in DOMAIN p.items : Key(p.items[i]) = key
  \/ \E i \in DOMAIN p.parked : <<"title", p.parked[i].turn>> = key

Distinct(p) ==
  /\ \A i, j \in DOMAIN p.items : Key(p.items[i]) = Key(p.items[j]) => i = j
  /\ \A i, j \in DOMAIN p.parked : p.parked[i].turn = p.parked[j].turn => i = j
  /\ \A i \in DOMAIN p.items, j \in DOMAIN p.parked : Key(p.items[i]) # <<"title", p.parked[j].turn>>

(* One more key.                                                           *)
Gains(p, q, key) ==
  /\ Holds(q, key)
  /\ \A other : Holds(q, other) => Holds(p, other) \/ other = key
  /\ Distinct(p) /\ ~ Holds(p, key) => Distinct(q)

Keeps(p, q) ==
  /\ \A other : Holds(q, other) => Holds(p, other)
  /\ Distinct(p) => Distinct(q)

LEMMA TellsGains ==
  ASSUME NEW p \in Parsers, NEW q, NEW r \in Item, Tells(p, q, r)
  PROVE  Gains(p, q, Key(r))
<1> DEFINE m == Len(p.items)
           s == q.items
<1>1. /\ p.items \in Seq(Item) /\ m \in Nat /\ DOMAIN p.items = 1..m
      /\ s = Append(p.items, r) /\ q.parked = p.parked
  BY DEF Parsers, Tells
<1>2. DOMAIN s = 1..(m + 1) /\ s[m + 1] = r /\ \A i \in 1..m : s[i] = p.items[i]
  BY <1>1
<1>3. \A i \in 1..(m + 1) : i = m + 1 \/ i \in 1..m
  BY <1>1
<1>4. (\A i \in 1..m : i \in 1..(m + 1)) /\ m + 1 \in 1..(m + 1)
  BY <1>1
<1> HIDE DEF s, m
<1>5. Holds(q, Key(r))
  BY <1>2, <1>4 DEF Holds, s
<1>6. \A other : Holds(q, other) => Holds(p, other) \/ other = Key(r)
  <2>. SUFFICES ASSUME NEW other, Holds(q, other), other # Key(r) PROVE Holds(p, other)
    OBVIOUS
  <2>1. CASE \E i \in DOMAIN q.items : Key(q.items[i]) = other
    BY <1>1, <1>2, <1>3, <2>1 DEF Holds, s
  <2>2. CASE \E i \in DOMAIN q.parked : <<"title", q.parked[i].turn>> = other
    BY <1>1, <2>2 DEF Holds
  <2>. QED
    BY <2>1, <2>2 DEF Holds
<1>7. ASSUME Distinct(p), ~ Holds(p, Key(r)) PROVE Distinct(q)
  <2>1. \A i \in 1..m : Key(p.items[i]) # Key(r)
    BY <1>1, <1>7 DEF Holds
  <2>2. \A i \in DOMAIN p.parked : <<"title", p.parked[i].turn>> # Key(r)
    BY <1>7 DEF Holds
  <2>3. \A i, j \in DOMAIN s : Key(s[i]) = Key(s[j]) => i = j
    <3>. SUFFICES ASSUME NEW i \in 1..(m + 1), NEW j \in 1..(m + 1), Key(s[i]) = Key(s[j]) PROVE i = j
      BY <1>2
    <3>1. CASE i \in 1..m /\ j \in 1..m
      BY SMTT(30), <1>1, <1>2, <1>7, <3>1 DEF Distinct
    <3>2. CASE i = m + 1 \/ j = m + 1
      BY <1>2, <1>3, <2>1, <3>2
    <3>. QED
      BY <1>3, <3>1, <3>2
  <2>4. \A i \in DOMAIN s, j \in DOMAIN q.parked : Key(s[i]) # <<"title", q.parked[j].turn>>
    BY <1>1, <1>2, <1>3, <1>7, <2>2 DEF Distinct
  <2>. QED
    BY <1>1, <1>7, <2>3, <2>4 DEF Distinct, s
<1>. QED
  BY <1>5, <1>6, <1>7 DEF Gains

LEMMA ParksGains ==
  ASSUME NEW p \in Parsers, NEW q, NEW turn \in TurnIds, NEW words \in Texts,
         Parks(p, q, [turn |-> turn, text |-> words])
  PROVE  Gains(p, q, <<"title", turn>>)
<1> DEFINE w == [turn |-> turn, text |-> words]
           m == Len(p.parked)
           s == q.parked
<1>1. /\ p.parked \in Seq(Wait) /\ m \in Nat /\ DOMAIN p.parked = 1..m
      /\ s = Append(p.parked, w) /\ q.items = p.items /\ w.turn = turn
  BY DEF Parsers, Parks
<1> HIDE DEF w
<1>2. DOMAIN s = 1..(m + 1) /\ s[m + 1] = w /\ \A i \in 1..m : s[i] = p.parked[i]
  BY <1>1
<1>3. \A i \in 1..(m + 1) : i = m + 1 \/ i \in 1..m
  BY <1>1
<1>4. (\A i \in 1..m : i \in 1..(m + 1)) /\ m + 1 \in 1..(m + 1)
  BY <1>1
<1> HIDE DEF s, m
<1>5. Holds(q, <<"title", turn>>)
  BY <1>1, <1>2, <1>4 DEF Holds, s
<1>6. \A other : Holds(q, other) => Holds(p, other) \/ other = <<"title", turn>>
  <2>. SUFFICES ASSUME NEW other, Holds(q, other), other # <<"title", turn>> PROVE Holds(p, other)
    OBVIOUS
  <2>1. CASE \E i \in DOMAIN q.items : Key(q.items[i]) = other
    BY <1>1, <2>1 DEF Holds
  <2>2. CASE \E i \in DOMAIN q.parked : <<"title", q.parked[i].turn>> = other
    BY <1>1, <1>2, <1>3, <2>2 DEF Holds, s
  <2>. QED
    BY <2>1, <2>2 DEF Holds
<1>7. ASSUME Distinct(p), ~ Holds(p, <<"title", turn>>) PROVE Distinct(q)
  <2>1. \A i \in 1..m : p.parked[i].turn # turn
    BY <1>1, <1>7 DEF Holds
  <2>2. \A i \in DOMAIN p.items : Key(p.items[i]) # <<"title", turn>>
    BY <1>7 DEF Holds
  <2>3. \A i, j \in DOMAIN s : s[i].turn = s[j].turn => i = j
    <3>. SUFFICES ASSUME NEW i \in 1..(m + 1), NEW j \in 1..(m + 1), s[i].turn = s[j].turn PROVE i = j
      BY <1>2
    <3>1. CASE i \in 1..m /\ j \in 1..m
      <4>1. p.parked[i].turn = p.parked[j].turn /\ i \in DOMAIN p.parked /\ j \in DOMAIN p.parked
        BY <1>1, <1>2, <3>1
      <4>. QED
        BY <1>7, <4>1 DEF Distinct
    <3>2. CASE i = m + 1 \/ j = m + 1
      BY <1>1, <1>2, <1>3, <2>1, <3>2
    <3>. QED
      BY <1>3, <3>1, <3>2
  <2>4. \A i \in DOMAIN q.items, j \in DOMAIN s : Key(q.items[i]) # <<"title", s[j].turn>>
    BY <1>1, <1>2, <1>3, <1>7, <2>2 DEF Distinct
  <2>. QED
    BY <1>1, <1>7, <2>3, <2>4 DEF Distinct, s
<1>. QED
  BY <1>5, <1>6, <1>7 DEF Gains

LEMMA SameKeeps ==
  ASSUME NEW p, NEW q, Same(p, q)
  PROVE  Keeps(p, q)
BY DEF Same, Keeps, Holds, Distinct

(* Several records that are told, after those of the loop.                 *)
LEMMA Appended ==
  ASSUME NEW s \in Seq(Item), NEW t \in Seq(Item), NEW u, u = s \o t
  PROVE  /\ DOMAIN u = 1..(Len(s) + Len(t)) /\ Len(s) \in Nat /\ Len(t) \in Nat
         /\ DOMAIN s = 1..Len(s) /\ DOMAIN t = 1..Len(t)
         /\ \A i \in DOMAIN s : i \in DOMAIN u /\ u[i] = s[i]
         /\ \A i \in DOMAIN u : \/ i \in DOMAIN s /\ u[i] = s[i]
                                \/ i > Len(s) /\ i - Len(s) \in DOMAIN t /\ u[i] = t[i - Len(s)]
OBVIOUS

LEMMA AppendedKeys ==
  ASSUME NEW s \in Seq(Item), NEW t \in Seq(Item), NEW u, u = s \o t,
         \A i, j \in DOMAIN s : Key(s[i]) = Key(s[j]) => i = j,
         \A i, j \in DOMAIN t : Key(t[i]) = Key(t[j]) => i = j,
         \A i \in DOMAIN s, j \in DOMAIN t : Key(s[i]) # Key(t[j])
  PROVE  \A i, j \in DOMAIN u : Key(u[i]) = Key(u[j]) => i = j
<1> DEFINE m == Len(s)
<1>1. /\ DOMAIN u = 1..(m + Len(t)) /\ m \in Nat /\ Len(t) \in Nat /\ DOMAIN s = 1..m
      /\ \A i \in DOMAIN u : \/ i \in DOMAIN s /\ u[i] = s[i]
                             \/ i > m /\ i - m \in DOMAIN t /\ u[i] = t[i - m]
  BY Appended
<1> HIDE DEF m
<1>. SUFFICES ASSUME NEW i \in DOMAIN u, NEW j \in DOMAIN u, Key(u[i]) = Key(u[j]) PROVE i = j
  OBVIOUS
<1>2. CASE i \in DOMAIN s /\ u[i] = s[i] /\ j \in DOMAIN s /\ u[j] = s[j]
  BY <1>2
<1>3. CASE i > m /\ i - m \in DOMAIN t /\ u[i] = t[i - m] /\ j > m /\ j - m \in DOMAIN t /\ u[j] = t[j - m]
  <2>1. i - m = j - m
    BY <1>3
  <2>. QED
    BY <1>1, <2>1
<1>4. CASE i \in DOMAIN s /\ u[i] = s[i] /\ j - m \in DOMAIN t /\ u[j] = t[j - m]
  BY <1>4
<1>5. CASE j \in DOMAIN s /\ u[j] = s[j] /\ i - m \in DOMAIN t /\ u[i] = t[i - m]
  BY <1>5
<1>. QED
  BY <1>1, <1>2, <1>3, <1>4, <1>5

LEMMA FreesKeeps ==
  ASSUME NEW p \in Parsers, NEW q \in Parsers, Frees(p, q)
  PROVE  Keeps(p, q)
<1>7. PICK t \in Seq(Item) : Freed(p, q, t)
  BY FreesTyped
<1>1. /\ DOMAIN t = DOMAIN p.parked /\ q.items = p.items \o t
      /\ \A i \in DOMAIN t : t[i].id = <<q.session, "title", p.parked[i].turn>>
  BY <1>7 DEF Freed
<1>2. p.items \in Seq(Item) /\ q.parked = <<>> /\ DOMAIN q.parked = {}
  BY DEF Parsers, Frees
<1>3. \A i \in DOMAIN t : Key(t[i]) = <<"title", p.parked[i].turn>>
  BY <1>1 DEF Key
<1>4. \A i \in DOMAIN q.items : \/ i \in DOMAIN p.items /\ q.items[i] = p.items[i]
                               \/ \E j \in DOMAIN t : q.items[i] = t[j]
  BY <1>1, <1>2, Appended
<1>5. \A other : Holds(q, other) => Holds(p, other)
  <2>. SUFFICES ASSUME NEW other, Holds(q, other) PROVE Holds(p, other)
    OBVIOUS
  <2>1. PICK i \in DOMAIN q.items : Key(q.items[i]) = other
    BY <1>2 DEF Holds
  <2>2. CASE i \in DOMAIN p.items /\ q.items[i] = p.items[i]
    BY <2>1, <2>2 DEF Holds
  <2>3. ASSUME NEW j \in DOMAIN t, q.items[i] = t[j] PROVE Holds(p, other)
    <3>1. other = <<"title", p.parked[j].turn>> /\ j \in DOMAIN p.parked
      BY <1>1, <1>3, <2>1, <2>3
    <3>. QED
      BY <3>1 DEF Holds
  <2>. QED
    BY <1>4, <2>2, <2>3
<1>6. ASSUME Distinct(p) PROVE Distinct(q)
  <2>1. \A i, j \in DOMAIN p.items : Key(p.items[i]) = Key(p.items[j]) => i = j
    BY <1>6 DEF Distinct
  <2>2. \A i, j \in DOMAIN t : Key(t[i]) = Key(t[j]) => i = j
    BY <1>1, <1>3, <1>6 DEF Distinct
  <2>3. \A i \in DOMAIN p.items, j \in DOMAIN t : Key(p.items[i]) # Key(t[j])
    BY <1>1, <1>3, <1>6 DEF Distinct
  <2>4. \A i, j \in DOMAIN q.items : Key(q.items[i]) = Key(q.items[j]) => i = j
    BY SMTT(30), <1>1, <1>2, <2>1, <2>2, <2>3, AppendedKeys
  <2>. QED
    BY <1>2, <2>4 DEF Distinct
<1>. QED
  BY <1>5, <1>6 DEF Keeps

LEMMA TellsAllKeeps ==
  ASSUME NEW p \in Parsers, NEW q, NEW t \in Seq(Item), TellsAll(p, q, t),
         \A i, j \in DOMAIN t : Key(t[i]) = Key(t[j]) => i = j,
         \A i \in DOMAIN t : ~ Holds(p, Key(t[i]))
  PROVE  /\ \A other : Holds(q, other) => Holds(p, other) \/ \E i \in DOMAIN t : other = Key(t[i])
         /\ Distinct(p) => Distinct(q)
<1>1. p.items \in Seq(Item) /\ q.items = p.items \o t /\ q.parked = p.parked
  BY DEF Parsers, TellsAll
<1>2. \A i \in DOMAIN q.items : \/ i \in DOMAIN p.items /\ q.items[i] = p.items[i]
                               \/ \E j \in DOMAIN t : q.items[i] = t[j]
  BY <1>1, Appended
<1>3. \A other : Holds(q, other) => Holds(p, other) \/ \E i \in DOMAIN t : other = Key(t[i])
  BY <1>1, <1>2 DEF Holds
<1>4. ASSUME Distinct(p) PROVE Distinct(q)
  <2>1. \A i \in DOMAIN p.items, j \in DOMAIN t : Key(p.items[i]) # Key(t[j])
    BY DEF Holds
  <2>2. \A i, j \in DOMAIN q.items : Key(q.items[i]) = Key(q.items[j]) => i = j
    BY <1>1, <1>4, <2>1, AppendedKeys DEF Distinct
  <2>3. \A i \in DOMAIN t, j \in DOMAIN p.parked : Key(t[i]) # <<"title", p.parked[j].turn>>
    BY DEF Holds
  <2>4. \A i \in DOMAIN q.items, j \in DOMAIN q.parked : Key(q.items[i]) # <<"title", q.parked[j].turn>>
    BY <1>1, <1>2, <1>4, <2>3 DEF Distinct
  <2>. QED
    BY <1>1, <1>4, <2>2, <2>4 DEF Distinct
<1>. QED
  BY <1>3, <1>4

-----------------------------------------------------------------------------
(* The kind and turn that an agent's own id gives.                         *)
KeyOf(key, e) ==
  \/ e[1] = "turn" /\ format # "codex" /\ key = <<"message", Named(e[2])>>
  \/ e[1] = "title" /\ key = <<"title", Named(e[2])>>
  \/ e[1] = "session" /\ key = <<"title", <<"session", Named(e[2])>>>>
  \/ e[1] = "state" /\ key[1] \in {"todo", "tool"} /\ key[2] = Named(e[2])
  \/ e[1] = "state" /\ format = "pi" /\ key = <<"task", Named(e[2])>>
  \/ e[1] = "result" /\ format = "claude" /\ key = <<"task", Named(e[2])>>

(* A line's number in an id (codex counts from 0).                         *)
Slot(n) == IF format = "codex" THEN n - 1 ELSE n

Numbered(key, n) == key[2] = <<"line", Slot(n)>> \/ key[2] = <<"session", <<"line", Slot(n)>>>>

Traced(key, l, n) == Numbered(key, n) \/ \E e \in Ids(l) : KeyOf(key, e)

(* What is told once only: codex turns by id, Claude's titles.             *)
Once(key) ==
  \/ format = "codex" /\ key[1] = "message" /\ \E t \in Turns : key[2] = Named(t)
  \/ format = "claude" /\ key[1] = "title" /\ \E t \in Texts : key[2] = <<"title", t>>

Known(key, seen) ==
  \/ Once(key) /\ key[2] \in seen
  \/ \E k \in DOMAIN lines : Traced(key, lines[k], k)

Sourced(p) == \A key : Holds(p, key) => Known(key, p.seen)

(* A key that only line n can give.                                        *)
Fresh(key, seen, l, n) ==
  \/ ~ Once(key) /\ Numbered(key, n)
  \/ ~ Once(key) /\ (format = "codex" => l.type # "turn") /\ \E e \in Ids(l) : KeyOf(key, e)
  \/ Once(key) /\ key[2] \notin seen

LEMMA KeyOfOne ==
  ASSUME NEW key, NEW e, NEW f, KeyOf(key, e), KeyOf(key, f)
  PROVE  e[1] = f[1] /\ e[2] = f[2]
BY DEF KeyOf, Named

LEMMA NotBoth ==
  ASSUME NEW key, NEW n, NEW e, KeyOf(key, e)
  PROVE  ~ Numbered(key, n)
BY DEF KeyOf, Numbered, Named

LEMMA OnceIs ==
  ASSUME NEW key, Once(key)
  PROVE  (\A n : ~ Numbered(key, n)) /\ (\A e : ~ KeyOf(key, e))
<1>1. ASSUME NEW n PROVE ~ Numbered(key, n)
  BY DEF Once, Numbered, Named
<1>2. ASSUME NEW e PROVE ~ KeyOf(key, e)
  BY DEF Once, KeyOf, Named
<1>. QED
  BY <1>1, <1>2

LEMMA IdsArePairs ==
  ASSUME NEW l, NEW e \in Ids(l)
  PROVE  e = <<e[1], e[2]>>
BY DEF Ids

LEMMA FreshUnknown ==
  ASSUME Typed, NEW l, Grows(l), NEW key, NEW seen, Fresh(key, seen, l, Len(lines) + 1),
         format # "telegram"
  PROVE  ~ Known(key, seen)
<1> DEFINE n == Len(lines) + 1
<1>0. DOMAIN lines = 1..Len(lines) /\ Len(lines) \in Nat /\ IsNew(l)
  BY DEF Grows
<1>. SUFFICES ASSUME Known(key, seen) PROVE FALSE
  OBVIOUS
<1>1. CASE Once(key)
  <2>1. key[2] \notin seen
    BY <1>1, OnceIs DEF Fresh
  <2>2. PICK k \in DOMAIN lines : Traced(key, lines[k], k)
    BY <2>1 DEF Known
  <2>. QED
    BY <1>1, <2>2, OnceIs DEF Traced
<1>2. CASE ~ Once(key)
  <2>1. PICK k \in DOMAIN lines : Traced(key, lines[k], k)
    BY <1>2 DEF Known
  <2>2. CASE Numbered(key, n)
    <3>1. Numbered(key, k)
      BY <2>1, <2>2, NotBoth DEF Traced
    <3>2. Slot(n) = Slot(k)
      BY <2>2, <3>1 DEF Numbered
    <3>. QED
      BY <1>0, <3>2 DEF Slot
  <2>3. CASE (format = "codex" => l.type # "turn") /\ \E e \in Ids(l) : KeyOf(key, e)
    <3>1. PICK e \in Ids(l) : KeyOf(key, e)
      BY <2>3
    <3>2. PICK f \in Ids(lines[k]) : KeyOf(key, f)
      BY <2>1, <3>1, NotBoth DEF Traced
    <3>3. e = <<e[1], e[2]>> /\ f = <<f[1], f[2]>>
      BY IdsArePairs
    <3>4. e[1] = f[1] /\ e[2] = f[2]
      BY <3>1, <3>2, KeyOfOne
    <3>5. e = f
      BY <3>3, <3>4
    <3>6. Ids(lines[k]) \cap Ids(l) # {}
      BY <3>5
    <3>7. Ids(lines[k]) \cap Ids(l) = {}
      BY <1>0, <2>3 DEF IsNew
    <3>. QED
      BY <3>6, <3>7
  <2>. QED
    BY <1>2, <2>2, <2>3 DEF Fresh
<1>. QED
  BY <1>1, <1>2

-----------------------------------------------------------------------------
(* The third stage tells one thing at most, which is new.                  *)
IsAdded(b, q, l, n, key) ==
  /\ Gains(b, q, key) /\ Fresh(key, b.seen, l, n)
  /\ Once(key) => key[2] \in q.seen
  /\ format = "claude" => key[1] \in {"message", "title"}

LEMMA SaysNew ==
  ASSUME NEW b \in Parsers, NEW q, NEW l, format \in Formats, l \in LinesOf[format],
         NEW n \in 1..MaxLines, Adds(b, q, l, n, TRUE), Says(b, l)
  PROVE  IsAdded(b, q, l, n, <<"message", TurnTag(l, n)>>)
<1> DEFINE r == Record(b, TurnTag(l, n), l.role, "message", l.text)
           key == <<"message", TurnTag(l, n)>>
<1>1. Tells(b, q, r) /\ r \in Item
  BY TagsIs DEF Adds
<1>2. Key(r) = key
  BY DEF Key, Record, Id
<1>3. l.turn \in Turns \cup {None} /\ l.type = "turn" /\ (l.turn # None => <<"turn", l.turn>> \in Ids(l))
  BY LineIs DEF Says, Ids
<1> HIDE DEF r
<1>4. Gains(b, q, key)
  BY <1>1, <1>2, TellsGains
<1>5. CASE l.turn = None
  <2>1. key = <<"message", <<"line", Slot(n)>>>>
    BY <1>5 DEF TurnTag, Given, Slot
  <2>2. Numbered(key, n) /\ ~ Once(key)
    BY <2>1 DEF Numbered, Once, Named
  <2>. QED
    BY <1>4, <2>2 DEF IsAdded, Fresh
<1>6. CASE l.turn # None /\ format = "codex"
  <2>1. key = <<"message", Named(l.turn)>> /\ CodexKey(l) = Named(l.turn)
    BY <1>6 DEF TurnTag, Given, CodexKey
  <2>2. Once(key)
    BY <1>3, <1>6, <2>1 DEF Once
  <2>3. key[2] \notin b.seen
    BY <1>6, <2>1 DEF Says
  <2>4. key[2] \in q.seen
    BY <1>6, <2>1 DEF Adds
  <2>. QED
    BY <1>4, <1>6, <2>2, <2>3, <2>4 DEF IsAdded, Fresh
<1>7. CASE l.turn # None /\ format # "codex"
  <2>1. key = <<"message", Named(l.turn)>>
    BY <1>7 DEF TurnTag, Given
  <2>2. ~ Once(key) /\ KeyOf(key, <<"turn", l.turn>>)
    BY <1>7, <2>1 DEF Once, KeyOf
  <2>. QED
    BY <1>3, <1>4, <1>7, <2>2 DEF IsAdded, Fresh
<1>. QED
  BY <1>5, <1>6, <1>7

LEMMA NotesNew ==
  ASSUME NEW b \in Parsers, NEW q, NEW l, format \in Formats, l \in LinesOf[format],
         NEW n \in 1..MaxLines, Adds(b, q, l, n, TRUE), Notes(l)
  PROVE  IsAdded(b, q, l, n, <<l.kind, Given(l.turn, n)>>)
<1> DEFINE r == Record(b, Given(l.turn, n), l.role, l.kind, l.text)
           key == <<l.kind, Given(l.turn, n)>>
<1>1. Tells(b, q, r) /\ r \in Item
  BY TagsIs DEF Adds
<1>2. Key(r) = key
  BY DEF Key, Record, Id
<1>3. /\ l.turn \in Turns \cup {None} /\ l.type = "state" /\ l.kind \in {"todo", "task"}
      /\ l.turn # None => <<"state", l.turn>> \in Ids(l)
  BY LineIs DEF Notes, Ids
<1>8. format = "pi"
  <2>1. l.type \in TypesOf(format) /\ format \in AllFormats
    BY LineIs DEF UnitsAssumption
  <2>. QED
    BY <1>3, <2>1 DEF TypesOf, AllFormats
<1> HIDE DEF r
<1>4. Gains(b, q, key)
  BY <1>1, <1>2, TellsGains
<1>9. ~ Once(key)
  BY <1>8 DEF Once
<1>5. CASE l.turn = None
  <2>1. Numbered(key, n)
    BY <1>5, <1>8 DEF Given, Slot, Numbered
  <2>. QED
    BY <1>4, <1>8, <1>9, <2>1 DEF IsAdded, Fresh
<1>6. CASE l.turn # None
  <2>1. KeyOf(key, <<"state", l.turn>>)
    BY <1>3, <1>6, <1>8 DEF KeyOf, Given
  <2>. QED
    BY <1>3, <1>4, <1>6, <1>8, <1>9, <2>1 DEF IsAdded, Fresh
<1>. QED
  BY <1>5, <1>6

LEMMA TitlesNew ==
  ASSUME NEW b \in Parsers, NEW q, NEW l, format \in Formats, l \in LinesOf[format],
         NEW n \in 1..MaxLines, Adds(b, q, l, n, TRUE), Titles(b, l)
  PROVE  IsAdded(b, q, l, n, <<"title", TitleTag(l, n)>>)
<1> DEFINE r == Record(b, TitleTag(l, n), "system", "title", l.text)
           key == <<"title", TitleTag(l, n)>>
<1>1. /\ b.project = Unknown => Parks(b, q, [turn |-> TitleTag(l, n), text |-> l.text])
      /\ b.project # Unknown => Tells(b, q, r)
  BY DEF Adds
<1>10. TitleTag(l, n) \in TurnIds /\ l.text \in Texts
  BY TagsIs
<1>11. r \in Item
  BY <1>10, RecordTyped DEF Kinds
<1>2. Key(r) = key
  BY DEF Key, Record, Id
<1>3. /\ l.turn \in Turns \cup {None} /\ l.type = "title"
      /\ l.turn # None => <<"title", l.turn>> \in Ids(l)
  BY LineIs DEF Titles, Ids
<1>8. format \in {"pi", "claude"}
  <2>1. l.type \in TypesOf(format) /\ format \in AllFormats
    BY LineIs DEF UnitsAssumption
  <2>. QED
    BY <1>3, <2>1 DEF TypesOf, AllFormats
<1> HIDE DEF r
<1>4. Gains(b, q, key)
  BY <1>1, <1>2, <1>10, <1>11, TellsGains, ParksGains
<1>5. CASE format = "pi" /\ l.turn = None
  <2>1. Numbered(key, n) /\ ~ Once(key)
    BY <1>5 DEF TitleTag, Given, Slot, Numbered, Once
  <2>. QED
    BY <1>4, <1>5, <2>1 DEF IsAdded, Fresh
<1>6. CASE format = "pi" /\ l.turn # None
  <2>1. KeyOf(key, <<"title", l.turn>>) /\ ~ Once(key)
    BY <1>6 DEF KeyOf, TitleTag, Given, Once
  <2>. QED
    BY <1>3, <1>4, <1>6, <2>1 DEF IsAdded, Fresh
<1>7. CASE format = "claude"
  <2>1. key = <<"title", <<"title", l.text>>>> /\ <<"title", l.text>> \notin b.seen
    BY <1>7 DEF TitleTag, Titles
  <2>2. Once(key)
    BY <1>7, <1>10, <2>1 DEF Once
  <2>3. <<"title", l.text>> \in q.seen
    BY <1>7 DEF Adds
  <2>. QED
    BY <1>4, <1>7, <2>1, <2>2, <2>3 DEF IsAdded, Fresh
<1>. QED
  BY <1>5, <1>6, <1>7, <1>8

LEMMA OwnsNew ==
  ASSUME NEW b \in Parsers, NEW q, NEW l, format \in Formats, l \in LinesOf[format],
         NEW n \in 1..MaxLines, Adds(b, q, l, n, TRUE), Owns(l)
  PROVE  IsAdded(b, q, l, n, <<"title", <<"session", OwnTag(l, n)>>>>)
<1> DEFINE r == Record(b, <<"session", OwnTag(l, n)>>, "system", "title", l.text)
           key == <<"title", <<"session", OwnTag(l, n)>>>>
<1>1. Tells(b, q, r) /\ r \in Item
  BY TagsIs DEF Adds
<1>2. Key(r) = key
  BY DEF Key, Record, Id
<1>3. l.type = "session" /\ <<"session", l.session>> \in Ids(l)
  BY DEF Owns, Ids
<1>8. format \in {"pi", "codex"}
  <2>1. l.type \in TypesOf(format) /\ format \in AllFormats
    BY LineIs DEF UnitsAssumption
  <2>. QED
    BY <1>3, <2>1 DEF TypesOf, AllFormats
<1> HIDE DEF r
<1>4. Gains(b, q, key)
  BY <1>1, <1>2, TellsGains
<1>9. ~ Once(key)
  BY <1>8 DEF Once
<1>5. CASE OwnTag(l, n) = <<"line", n>> /\ format = "pi"
  <2>1. Numbered(key, n)
    BY <1>5 DEF Slot, Numbered
  <2>. QED
    BY <1>4, <1>8, <1>9, <2>1 DEF IsAdded, Fresh
<1>6. CASE OwnTag(l, n) = Named(l.session)
  <2>1. KeyOf(key, <<"session", l.session>>)
    BY <1>6 DEF KeyOf
  <2>. QED
    BY <1>3, <1>4, <1>8, <1>9, <2>1 DEF IsAdded, Fresh
<1>. QED
  BY <1>5, <1>6, <1>8 DEF OwnTag, Given

LEMMA AddsNew ==
  ASSUME NEW b \in Parsers, NEW q, NEW l, format \in Formats, l \in LinesOf[format],
         NEW n \in 1..MaxLines, Adds(b, q, l, n, TRUE)
  PROVE  b.seen \subseteq q.seen /\ (Same(b, q) \/ \E key : IsAdded(b, q, l, n, key))
<1>1. b.seen \subseteq q.seen
  BY DEF Adds
<1>2. CASE Says(b, l)
  BY <1>1, <1>2, SaysNew
<1>3. CASE Notes(l)
  BY <1>1, <1>3, NotesNew
<1>4. CASE Titles(b, l)
  BY <1>1, <1>4, TitlesNew
<1>5. CASE Owns(l)
  BY <1>1, <1>5, OwnsNew
<1>6. CASE ~ (Says(b, l) \/ Notes(l) \/ Titles(b, l) \/ Owns(l))
  BY <1>1, <1>6 DEF Adds
<1>. QED
  BY <1>2, <1>3, <1>4, <1>5, <1>6

(* The second stage tells what the line's own ids give.                    *)
LEMMA PartNew ==
  ASSUME NEW a \in Parsers, NEW l, format \in Formats, l \in LinesOf[format],
         NEW j \in Reports(a, l.parts), format = "claude"
  PROVE  LET key == Key(Report(a, l, l.parts[j])) IN
         /\ ~ Once(key) /\ (\E e \in Ids(l) : KeyOf(key, e)) /\ key[1] \notin {"message", "title"}
<1> DEFINE r == Report(a, l, l.parts[j])
           key == Key(r)
           e == <<l.parts[j].type, l.parts[j].id>>
<1>1. /\ j \in DOMAIN l.parts /\ r.kind \in {"todo", "tool", "task"}
      /\ r.id = <<a.session, r.kind, Named(l.parts[j].id)>>
      /\ r.kind = "task" => l.parts[j].type = "result"
      /\ r.kind # "task" => l.parts[j].type = "state"
  BY ReportIs
<1>2. e \in Ids(l)
  BY <1>1 DEF Ids
<1> HIDE DEF r
<1>3. key = <<r.kind, Named(l.parts[j].id)>>
  BY <1>1 DEF Key
<1>4. KeyOf(key, e)
  BY <1>1, <1>3 DEF KeyOf
<1>5. ~ Once(key) /\ key[1] \notin {"message", "title"}
  BY <1>1, <1>3 DEF Once
<1>. QED
  BY <1>2, <1>4, <1>5 DEF r

LEMMA TracedThen ==
  ASSUME NEW key, NEW l, NEW n, format' = format
  PROVE  (Once(key)' <=> Once(key)) /\ (Traced(key, l, n)' <=> Traced(key, l, n))
<1>1. Once(key)' <=> Once(key)
  BY DEF Once
<1>2. Numbered(key, n)' <=> Numbered(key, n)
  BY DEF Numbered, Slot
<1>3. \A e \in Ids(l) : KeyOf(key, e)' <=> KeyOf(key, e)
  BY DEF KeyOf
<1>. QED
  BY <1>1, <1>2, <1>3 DEF Traced

(* What was known stays known, and what line n gives becomes known.        *)
LEMMA KnownThen ==
  ASSUME NEW l, Grows(l), NEW key, index.seen \subseteq index'.seen
  PROVE  /\ Known(key, index.seen) => Known(key, index.seen)'
         /\ Traced(key, l, Len(lines) + 1) => Known(key, index.seen)'
         /\ Once(key) /\ key[2] \in index'.seen => Known(key, index.seen)'
<1> DEFINE n == Len(lines) + 1
<1>1. /\ DOMAIN lines = 1..Len(lines) /\ DOMAIN lines' = 1..n /\ Len(lines) \in Nat
      /\ lines'[n] = l /\ (\A k \in 1..Len(lines) : lines'[k] = lines[k]) /\ format' = format
  BY DEF Grows
<1>2. n \in DOMAIN lines' /\ \A k \in DOMAIN lines : k \in DOMAIN lines'
  BY <1>1
<1>3. \A k \in DOMAIN lines : Traced(key, lines[k], k)' <=> Traced(key, lines[k], k)'
  OBVIOUS
<1> HIDE DEF n
<1>4. Once(key)' <=> Once(key)
  BY <1>1, TracedThen
<1>5. Once(key) /\ key[2] \in index'.seen => Known(key, index.seen)'
  BY <1>4 DEF Known
<1>6. ASSUME NEW m, NEW k \in DOMAIN lines', lines'[k] = m, Traced(key, m, k) PROVE Known(key, index.seen)'
  <2>1. Traced(key, m, k)'
    BY <1>1, <1>6, TracedThen
  <2>. QED
    BY <1>6, <2>1 DEF Known
<1>7. Traced(key, l, n) => Known(key, index.seen)'
  BY <1>1, <1>2, <1>6
<1>8. ASSUME Known(key, index.seen) PROVE Known(key, index.seen)'
  <2>1. CASE Once(key) /\ key[2] \in index.seen
    BY <1>5, <2>1
  <2>2. ASSUME NEW k \in DOMAIN lines, Traced(key, lines[k], k) PROVE Known(key, index.seen)'
    <3>1. lines'[k] = lines[k] /\ k \in DOMAIN lines'
      BY <1>1, <1>2, <2>2
    <3>. QED
      BY <1>6, <2>2, <3>1
  <2>. QED
    BY <1>8, <2>1, <2>2 DEF Known
<1>. QED
  BY <1>5, <1>7, <1>8 DEF n

LEMMA SessionUnique ==
  ASSUME Typed, NEW l, Grows(l), format # "telegram", Distinct(index), Sourced(index)
  PROVE  Distinct(index') /\ Sourced(index)'
<1> DEFINE n == Len(lines) + 1
           a == Moved(index, l)
           b == Parted(a, l, TRUE)
           q == index'
<1>1. /\ format \in Formats /\ l \in LinesOf[format] /\ n \in 1..MaxLines /\ index \in Parsers
      /\ q = Read(index, l, n, TRUE)
  BY DEF Typed, Grows
<1>2. a \in Parsers /\ a.seen = index.seen /\ Keeps(index, a)
  <2>1. a \in Parsers /\ a.seen = index.seen /\ (Frees(index, a) \/ Same(index, a))
    BY <1>1, MovedIs
  <2> HIDE DEF a
  <2>. QED
    BY <1>1, <2>1, FreesKeeps, SameKeeps
<1> HIDE DEF n
<1>3. q \in Parsers /\ Adds(b, q, l, n, TRUE)
  BY <1>1, ReadIs
<1> HIDE DEF a
<1>4. b \in Parsers /\ b.seen = a.seen /\ \E s \in Seq(Item) : TellsAll(a, b, s) /\ Reported(a, l, s)
  <2>1. \A state \in BOOLEAN :
          LET c == Parted(a, l, state) IN
          c \in Parsers /\ c.seen = a.seen /\ \E s \in Seq(Item) : TellsAll(a, c, s) /\ Reported(a, l, s)
    BY <1>1, <1>2, PartedIs
  <2>. QED
    BY <2>1
<1>5. PICK s \in Seq(Item) : TellsAll(a, b, s) /\ Reported(a, l, s)
  BY <1>4
<1>0. format # "claude" => b = a
  BY DEF Parted
<1> HIDE DEF b, q
<1>6. Distinct(a) /\ \A key : Holds(a, key) => Known(key, index.seen)
  BY <1>2 DEF Sourced, Keeps
<1>7. ASSUME NEW i \in DOMAIN s, format = "claude"
      PROVE  /\ ~ Once(Key(s[i])) /\ (\E e \in Ids(l) : KeyOf(Key(s[i]), e))
             /\ Key(s[i])[1] \notin {"message", "title"}
  <2>1. PICK j \in Reports(a, l.parts) : s[i] = Report(a, l, l.parts[j])
    BY <1>5 DEF Reported
  <2>. QED
    BY <1>1, <1>2, <1>7, <2>1, PartNew
<1>8. /\ format = "claude" => Distinct(b)
      /\ format = "claude" => \A other : Holds(b, other) => Holds(a, other) \/ \E i \in DOMAIN s : other = Key(s[i])
  <2>. SUFFICES ASSUME format = "claude"
                PROVE  /\ Distinct(b)
                       /\ \A other : Holds(b, other) => Holds(a, other) \/ \E i \in DOMAIN s : other = Key(s[i])
    OBVIOUS
  <2>1. ASSUME NEW i \in DOMAIN s PROVE ~ Holds(a, Key(s[i]))
    <3>1. Fresh(Key(s[i]), index.seen, l, n)
      BY <1>7 DEF Fresh
    <3>. QED
      BY <1>6, <3>1, FreshUnknown DEF n
  <2>2. \A i, j \in DOMAIN s : Key(s[i]) = Key(s[j]) => i = j
    BY <1>5 DEF Reported
  <2>. QED
    BY <1>2, <1>5, <1>6, <2>1, <2>2, TellsAllKeeps
<1>9. /\ Distinct(b)
      /\ \A other : Holds(b, other) =>
           \/ Holds(a, other)
           \/ format = "claude" /\ other[1] \notin {"message", "title"} /\ \E e \in Ids(l) : KeyOf(other, e)
  BY <1>0, <1>6, <1>7, <1>8
<1>10. b.seen \subseteq q.seen /\ (Same(b, q) \/ \E key : IsAdded(b, q, l, n, key))
  BY <1>1, <1>3, <1>4, AddsNew
<1>11. index.seen \subseteq q.seen /\ b.seen = index.seen
  BY <1>2, <1>4, <1>10
<1>12. \A key : Holds(b, key) => Known(key, index.seen)'
  <2>. SUFFICES ASSUME NEW key, Holds(b, key) PROVE Known(key, index.seen)'
    OBVIOUS
  <2>1. Known(key, index.seen) \/ Traced(key, l, n)
    BY <1>6, <1>9 DEF Traced
  <2>. QED
    BY <1>11, <2>1, KnownThen DEF n, q
<1>13. CASE Same(b, q)
  <2>1. Keeps(b, q)
    BY <1>13, SameKeeps
  <2>2. Distinct(q) /\ \A key : Holds(q, key) => Known(key, index.seen)'
    BY <1>9, <1>12, <2>1 DEF Keeps
  <2>. QED
    BY <2>2 DEF Sourced, Holds, q
<1>14. ASSUME NEW key, IsAdded(b, q, l, n, key) PROVE Distinct(q) /\ Sourced(index)'
  <2>1. ~ Known(key, index.seen)
    BY <1>11, <1>14, FreshUnknown DEF IsAdded, n
  <2>2. ~ Holds(b, key)
    BY <1>6, <1>9, <1>14, <2>1 DEF IsAdded
  <2>3. Distinct(q)
    BY <1>9, <1>14, <2>2 DEF IsAdded, Gains
  <2>4. Known(key, index.seen)'
    <3>1. Traced(key, l, n) \/ (Once(key) /\ key[2] \in q.seen)
      BY <1>14 DEF IsAdded, Fresh, Traced
    <3>. QED
      BY <1>11, <3>1, KnownThen DEF n, q
  <2>5. \A other : Holds(q, other) => Known(other, index.seen)'
    BY <1>12, <1>14, <2>4 DEF IsAdded, Gains
  <2>. QED
    BY <2>3, <2>5 DEF Sourced, Holds, q
<1>. QED
  BY <1>10, <1>13, <1>14 DEF q

(* A chat's edit takes the place of the message.                           *)
LEMMA ChatUnique ==
  ASSUME NEW p \in Parsers, NEW l, format \in Formats, l \in LinesOf[format], NEW n,
         NEW state \in BOOLEAN, format = "telegram",
         \A i, j \in DOMAIN p.items : p.items[i].id = p.items[j].id => i = j
  PROVE  LET s == Read(p, l, n, state).items IN
         \A i, j \in DOMAIN s : s[i].id = s[j].id => i = j
<1> DEFINE s == Read(p, l, n, state).items
           at == Places(p, ChatId(l))
           it == ChatItem(l)
           m == Len(p.items)
<1>1. s = IF l.type # "turn" THEN p.items
          ELSE IF at = {} THEN Append(p.items, it) ELSE Edited(p, at, it)
  BY ChatLine
<1>2. it.id = ChatId(l) /\ p.items \in Seq(Item)
  BY DEF ChatItem, Parsers
<1>7. DOMAIN p.items = 1..m /\ m \in Nat
  BY <1>2
<1>3. /\ at \subseteq DOMAIN p.items /\ \A i \in DOMAIN p.items : i \in at <=> p.items[i].id = it.id
  BY <1>2 DEF Places
<1> HIDE DEF s, at, it, m
<1>4. CASE l.type = "turn" /\ at = {}
  <2>1. s = Append(p.items, it)
    BY <1>1, <1>4
  <2>2. DOMAIN s = 1..(m + 1) /\ s[m + 1] = it /\ (\A i \in 1..m : s[i] = p.items[i])
    BY <1>2, <1>7, <2>1 DEF m
  <2>3. \A i \in 1..(m + 1) : i = m + 1 \/ i \in 1..m
    BY <1>7
  <2>4. \A i \in 1..m : p.items[i].id # it.id
    BY <1>3, <1>4, <1>7
  <2>5. ASSUME NEW i \in DOMAIN s, NEW j \in DOMAIN s, s[i].id = s[j].id PROVE i = j
    <3>1. CASE i \in 1..m /\ j \in 1..m
      <4>1. p.items[i].id = p.items[j].id /\ i \in DOMAIN p.items /\ j \in DOMAIN p.items
        BY <1>7, <2>2, <2>5, <3>1
      <4>. QED
        BY <4>1
    <3>2. CASE i = m + 1 \/ j = m + 1
      BY <2>2, <2>3, <2>4, <2>5, <3>2
    <3>. QED
      BY <2>2, <2>3, <3>1, <3>2
  <2>. QED
    BY <2>5 DEF s
<1>5. CASE l.type = "turn" /\ at # {}
  <2>1. s = Edited(p, at, it)
    BY <1>1, <1>5
  <2>2. DOMAIN s = DOMAIN p.items /\ \A i \in DOMAIN p.items : s[i].id = p.items[i].id
    BY <1>3, <2>1 DEF Edited
  <2>. QED
    BY <2>2 DEF s
<1>6. CASE l.type # "turn"
  BY <1>1, <1>6 DEF s
<1>. QED
  BY <1>4, <1>5, <1>6

UniqueInv == IF format = "telegram" THEN IdsUnique ELSE Distinct(index) /\ Sourced(index)

LEMMA UniqueIds ==
  ASSUME Typed, UniqueInv
  PROVE  IdsUnique
<1>1. CASE format = "telegram"
  BY <1>1 DEF UniqueInv
<1>2. CASE format # "telegram"
  <2>1. \A i, j \in DOMAIN index.items : Key(index.items[i]) = Key(index.items[j]) => i = j
    BY <1>2 DEF UniqueInv, Distinct
  <2>2. \A i, j \in DOMAIN index.items : index.items[i].id = index.items[j].id => Key(index.items[i]) = Key(index.items[j])
    BY DEF Key
  <2>. QED
    BY <2>1, <2>2 DEF IdsUnique
<1>. QED
  BY <1>1, <1>2

LEMMA UniqueInit == ASSUME Init PROVE UniqueInv
<1>1. index.items = <<>> /\ index.parked = <<>>
  BY DEF Init, Parser
<1>2. DOMAIN index.items = {} /\ DOMAIN index.parked = {}
  BY <1>1
<1>3. Distinct(index) /\ IdsUnique
  BY <1>2 DEF Distinct, IdsUnique
<1>4. Sourced(index)
  BY <1>2 DEF Sourced, Holds
<1>. QED
  BY <1>3, <1>4 DEF UniqueInv

LEMMA UniqueStep ==
  ASSUME Typed, UniqueInv, NEW l, Grows(l)
  PROVE  UniqueInv'
<1>1. format' = format
  BY DEF Grows
<1>2. CASE format = "telegram"
  <2> DEFINE n == Len(lines) + 1
  <2>1. /\ index \in Parsers /\ format \in Formats /\ l \in LinesOf[format]
        /\ index' = Read(index, l, n, TRUE)
    BY DEF Typed, Grows
  <2>2. \A i, j \in DOMAIN index.items : index.items[i].id = index.items[j].id => i = j
    BY <1>2 DEF UniqueInv, IdsUnique
  <2> HIDE DEF n
  <2>3. \A state \in BOOLEAN : LET s == Read(index, l, n, state).items IN
          \A i, j \in DOMAIN s : s[i].id = s[j].id => i = j
    BY <1>2, <2>1, <2>2, ChatUnique
  <2>4. \A i, j \in DOMAIN index'.items : index'.items[i].id = index'.items[j].id => i = j
    BY <2>1, <2>3
  <2>. QED
    BY <1>1, <1>2, <2>4 DEF UniqueInv, IdsUnique
<1>3. CASE format # "telegram"
  <2>1. Distinct(index') /\ Sourced(index)'
    BY <1>3, SessionUnique DEF UniqueInv
  <2>. QED
    BY <1>1, <1>3, <2>1 DEF UniqueInv, Distinct
<1>. QED
  BY <1>2, <1>3

LEMMA SpecUnique == Spec => [](Typed /\ UniqueInv)
<1>1. Init => Typed /\ UniqueInv
  BY InitTyped, UniqueInit
<1>2. Typed /\ UniqueInv /\ [Next]_vars => (Typed /\ UniqueInv)'
  <2>. SUFFICES ASSUME Typed, UniqueInv, [Next]_vars PROVE (Typed /\ UniqueInv)'
    OBVIOUS
  <2>1. CASE UNCHANGED vars
    <3>1. Typed'
      BY <2>1 DEF vars, Typed
    <3>2. format' = format /\ lines' = lines /\ index' = index
      BY <2>1 DEF vars
    <3>3. IdsUnique' <=> IdsUnique
      BY <3>2 DEF IdsUnique
    <3>4. Distinct(index)' <=> Distinct(index)
      BY <3>2 DEF Distinct
    <3>5. Sourced(index)' <=> Sourced(index)
      <4>1. \A key : Holds(index, key)' <=> Holds(index, key)
        BY <3>2 DEF Holds
      <4>2. ASSUME NEW key PROVE Known(key, index.seen)' <=> Known(key, index.seen)
        BY <3>2, TracedThen DEF Known
      <4>. QED
        BY <4>1, <4>2 DEF Sourced
    <3>. QED
      BY <3>1, <3>2, <3>3, <3>4, <3>5 DEF UniqueInv
  <2>2. ASSUME NEW l \in LinesOf[format], Grow(l) PROVE (Typed /\ UniqueInv)'
    <3>1. Grows(l)
      BY <2>2, GrowIs
    <3>. QED
      BY <3>1, StepTyped, UniqueStep
  <2>. QED
    BY <2>1, <2>2 DEF Next
<1>. QED
  BY <1>1, <1>2, PTL DEF Spec

(* For every object, whatever its lines: no two records of it share an id   *)
(* (raw_parser.go:90, telegram.go:31).                                      *)
THEOREM SpecIdsUnique == Spec => []IdsUnique
BY SpecUnique, UniqueIds, PTL

-----------------------------------------------------------------------------
(***************************************************************************)
(* Growth.  A line of a session leaves the records before it as they are.  *)
(***************************************************************************)
Begins(s, t) == DOMAIN s \subseteq DOMAIN t /\ \A i \in DOMAIN s : t[i] = s[i]

LEMMA BeginsMore ==
  ASSUME NEW s \in Seq(Item), NEW t \in Seq(Item)
  PROVE  Begins(s, s \o t)
<1> DEFINE u == s \o t
<1>1. \A i \in DOMAIN s : i \in DOMAIN u /\ u[i] = s[i]
  OBVIOUS
<1>. QED
  BY <1>1 DEF Begins

LEMMA BeginsOne ==
  ASSUME NEW s \in Seq(Item), NEW r
  PROVE  Begins(s, Append(s, r))
<1> DEFINE u == Append(s, r)
<1>1. \A i \in DOMAIN s : i \in DOMAIN u /\ u[i] = s[i]
  OBVIOUS
<1>. QED
  BY <1>1 DEF Begins

LEMMA SessionBegins ==
  ASSUME NEW p \in Parsers, NEW l, format \in Formats, l \in LinesOf[format], NEW n \in 1..MaxLines,
         NEW state \in BOOLEAN, format # "telegram"
  PROVE  Begins(p.items, Read(p, l, n, state).items)
<1> DEFINE a == Moved(p, l)
           b == Parted(a, l, state)
           q == Read(p, l, n, state)
<1>1. a \in Parsers /\ (Frees(p, a) \/ Same(p, a))
  BY MovedIs
<1>2. q \in Parsers /\ Adds(b, q, l, n, state)
  BY ReadIs
<1> HIDE DEF a
<1>3. b \in Parsers /\ \E s \in Seq(Item) : TellsAll(a, b, s)
  BY <1>1, PartedIs
<1> HIDE DEF b, q
<1>4. p.items \in Seq(Item) /\ a.items \in Seq(Item) /\ b.items \in Seq(Item)
  BY <1>1, <1>3 DEF Parsers
<1>5. Begins(p.items, a.items)
  <2>1. CASE Same(p, a)
    BY <2>1 DEF Same, Begins
  <2>2. CASE Frees(p, a)
    <3>1. PICK t \in Seq(Item) : Freed(p, a, t)
      BY <1>1, <2>2, FreesTyped
    <3>2. a.items = p.items \o t
      BY <3>1 DEF Freed
    <3>. QED
      BY <1>4, <3>2, BeginsMore
  <2>. QED
    BY <1>1, <2>1, <2>2
<1>6. Begins(a.items, b.items)
  BY <1>3, <1>4, BeginsMore DEF TellsAll
<1>7. Begins(b.items, q.items)
  <2>1. \/ q.items = b.items
        \/ \E r : q.items = Append(b.items, r)
    BY <1>2 DEF Adds, Same, Tells, Parks
  <2>. QED
    BY <1>4, <2>1, BeginsOne DEF Begins
<1>. QED
  BY <1>5, <1>6, <1>7 DEF Begins, q

(* A line of a chat leaves the other messages as they are.                 *)
LEMMA ChatBegins ==
  ASSUME NEW p \in Parsers, NEW l, format \in Formats, l \in LinesOf[format], NEW n,
         NEW state \in BOOLEAN, format = "telegram", NEW i \in DOMAIN p.items,
         p.items[i].id # ChatId(l)
  PROVE  LET s == Read(p, l, n, state).items IN i \in DOMAIN s /\ s[i] = p.items[i]
<1> DEFINE s == Read(p, l, n, state).items
           at == Places(p, ChatId(l))
           it == ChatItem(l)
<1>1. s = IF l.type # "turn" THEN p.items
          ELSE IF at = {} THEN Append(p.items, it) ELSE Edited(p, at, it)
  BY ChatLine
<1>2. p.items \in Seq(Item) /\ i \notin at
  BY DEF Parsers, Places
<1> HIDE DEF s, at, it
<1>3. Begins(p.items, Append(p.items, it))
  BY <1>2, BeginsOne
<1>4. CASE l.type = "turn" /\ at = {}
  BY <1>1, <1>3, <1>4 DEF Begins, s
<1>5. CASE l.type = "turn" /\ at # {}
  <2>1. s = Edited(p, at, it)
    BY <1>1, <1>5
  <2>. QED
    BY <1>2, <2>1 DEF Edited, s
<1>6. CASE l.type # "turn"
  BY <1>1, <1>6 DEF s
<1>. QED
  BY <1>4, <1>5, <1>6

(* What is found after a step.                                             *)
LEMMA FoundThen ==
  ASSUME format' = format
  PROVE  Found' = Parsed(index')
BY DEF Found, Parsed

LEMMA GrowthStep ==
  ASSUME Typed, NEW l, Grows(l), ~ Skipped(index'.items), NEW i \in DOMAIN Found,
         ~ Edits(Found[i], l)
  PROVE  Found[i] \in ToSet(Found')
<1> DEFINE n == Len(lines) + 1
           p == index
           q == index'
           s == p.items
           t == q.items
<1>1. /\ format \in Formats /\ l \in LinesOf[format] /\ n \in 1..MaxLines /\ p \in Parsers
      /\ q = Read(p, l, n, TRUE) /\ format' = format
  BY DEF Typed, Grows
<1>2. Found' = Parsed(q) /\ Found = Parsed(p)
  BY <1>1, FoundThen DEF Found
<1> HIDE DEF n
<1>3. q \in Parsers
  BY <1>1, ReadTyped
<1>4. CASE format # "telegram"
  <2>1. Begins(s, t)
    BY <1>1, <1>4, SessionBegins
  <2>2. Found' = t
    BY <1>2, <1>3, <1>4, ParsedSession
  <2>3. Found = s
    <3>1. Found = <<>> \/ Found = s
      BY <1>1, <1>2, <1>4, ParsedSession
    <3>2. Found # <<>>
      OBVIOUS
    <3>. QED
      BY <3>1, <3>2
  <2> HIDE DEF s, t
  <2>. QED
    BY <2>1, <2>2, <2>3 DEF Begins, ToSet
<1>5. CASE format = "telegram"
  <2> DEFINE order == InOrder(WithText(s), ByDate(s))
             m == Cardinality(WithText(s))
             next == InOrder(WithText(t), ByDate(t))
             k == Cardinality(WithText(t))
  <2>1. DOMAIN Parsed(p) = 1..m /\ \A j \in 1..m : Parsed(p)[j] = s[order[j]] /\ order[j] \in WithText(s)
    BY <1>1, <1>5, ParsedChat
  <2>2. DOMAIN Parsed(q) = 1..k /\ \A j \in 1..k : Parsed(q)[j] = t[next[j]] /\ next[j] \in WithText(t)
    BY <1>3, <1>5, ParsedChat
  <2>3. \A x \in WithText(t) : \E j \in 1..k : next[j] = x
    <3>1. t \in Seq(Item)
      BY <1>3 DEF Parsers
    <3> HIDE DEF t
    <3>. QED
      BY <3>1, ChatOrder
  <2> DEFINE x == order[i]
  <2>4. x \in WithText(s) /\ Found[i] = s[x] /\ s[x].id # ChatId(l)
    BY <1>2, <1>5, <2>1 DEF Edits
  <2> HIDE DEF order, m, next, k, x
  <2>5. x \in DOMAIN s /\ s[x].text # None
    BY <2>4 DEF WithText
  <2>6. x \in DOMAIN t /\ t[x] = s[x]
    <3>1. \A state \in BOOLEAN : LET u == Read(p, l, n, state).items IN x \in DOMAIN u /\ u[x] = p.items[x]
      BY <1>1, <1>5, <2>4, <2>5, ChatBegins
    <3>. QED
      BY <1>1, <3>1
  <2>7. x \in WithText(t)
    BY <2>5, <2>6 DEF WithText
  <2>8. PICK j \in 1..k : next[j] = x
    BY <2>3, <2>7
  <2>. QED
    BY <1>2, <2>2, <2>4, <2>6, <2>8 DEF ToSet
<1>. QED
  BY <1>4, <1>5

(* For every object and every line it grows by, unless its session turns    *)
(* out to be one that is skipped: every record found before is found again, *)
(* with the same id and fields, except a chat message that the line edits.  *)
THEOREM SpecGrowthKeeps == Spec => GrowthKeeps
<1>1. Typed /\ [Next]_vars =>
        [Skipped(index'.items)
         \/ \A i \in DOMAIN Found : Edits(Found[i], Last(lines')) \/ Found[i] \in ToSet(Found')]_vars
  <2>. SUFFICES ASSUME Typed, NEW l \in LinesOf[format], Grow(l), ~ Skipped(index'.items),
                       NEW i \in DOMAIN Found, ~ Edits(Found[i], Last(lines'))
                PROVE  Found[i] \in ToSet(Found')
    BY DEF Next
  <2>1. Grows(l) /\ Last(lines') = l
    BY GrowIs DEF Grows
  <2>. QED
    BY <2>1, GrowthStep
<1>2. Spec => []Typed
  BY SpecUnique, PTL
<1>. QED
  BY <1>1, <1>2, PTL DEF Spec, GrowthKeeps

-----------------------------------------------------------------------------
(***************************************************************************)
(* Titles.                                                                 *)
(***************************************************************************)
Tagged(r, session) ==
  r.id[1] = r.session /\ r.title = None /\ (r.kind = "title" => r.session = session)

AllTagged(s, session) == \A i \in DOMAIN s : Tagged(s[i], session)

NoTitles(s) == \A i \in DOMAIN s : s[i].kind # "title"

(* The text that was told last: one that waits, or else the last title.    *)
LastTitle(s, words) ==
  \E i \in DOMAIN s : s[i].kind = "title" /\ s[i].text = words
                      /\ \A j \in DOMAIN s : s[j].kind = "title" => j <= i

Shows(p, words) ==
  IF p.parked = <<>> THEN LastTitle(p.items, words) ELSE p.parked[Len(p.parked)].text = words

(* The third stage tells another record, a title, or lets a title wait.    *)
Utters(b, q, l) ==
  \E r \in Item : /\ Tells(b, q, r) /\ Tagged(r, b.session) /\ r.kind # "title"
                  /\ ~ Owns(l) /\ ~ Titles(b, l)
Names(b, q, l) ==
  \E r \in Item : /\ Tells(b, q, r) /\ Tagged(r, b.session) /\ r.kind = "title" /\ r.text = l.text
                  /\ Owns(l) \/ (Titles(b, l) /\ b.project # Unknown)
Waits(b, q, l) ==
  \E w \in Wait : Parks(b, q, w) /\ w.text = l.text /\ Titles(b, l) /\ b.project = Unknown

LEMMA AddsOnly ==
  ASSUME NEW b \in Parsers, NEW q, NEW l, format \in Formats, l \in LinesOf[format],
         NEW n \in 1..MaxLines, Adds(b, q, l, n, TRUE)
  PROVE  \/ Same(b, q) /\ ~ Owns(l) /\ ~ Titles(b, l)
         \/ Utters(b, q, l) \/ Names(b, q, l) \/ Waits(b, q, l)
<1>1. CASE Says(b, l)
  <2> DEFINE r == Record(b, TurnTag(l, n), l.role, "message", l.text)
  <2>1. Tells(b, q, r) /\ r \in Item
    BY <1>1, TagsIs DEF Adds
  <2>2. Tagged(r, b.session) /\ r.kind # "title"
    BY DEF Tagged, Record, Id
  <2>3. ~ Owns(l) /\ ~ Titles(b, l)
    BY <1>1 DEF Owns, Titles, Says
  <2> HIDE DEF r
  <2>. QED
    BY <2>1, <2>2, <2>3 DEF Utters
<1>2. CASE Notes(l)
  <2> DEFINE r == Record(b, Given(l.turn, n), l.role, l.kind, l.text)
  <2>1. Tells(b, q, r) /\ r \in Item
    BY <1>2, TagsIs DEF Adds
  <2>2. l.kind # "title"
    BY <1>2, LineIs DEF Notes
  <2>3. Tagged(r, b.session) /\ r.kind # "title"
    BY <2>2 DEF Tagged, Record, Id
  <2>4. ~ Owns(l) /\ ~ Titles(b, l)
    BY <1>2 DEF Owns, Titles, Notes
  <2> HIDE DEF r
  <2>. QED
    BY <2>1, <2>3, <2>4 DEF Utters
<1>3. CASE Titles(b, l) /\ b.project # Unknown
  <2> DEFINE r == Record(b, TitleTag(l, n), "system", "title", l.text)
  <2>1. Tells(b, q, r)
    BY <1>3 DEF Adds
  <2>2. r \in Item
    BY <1>3, TagsIs, RecordTyped DEF Kinds
  <2>3. Tagged(r, b.session) /\ r.kind = "title" /\ r.text = l.text
    BY DEF Tagged, Record, Id
  <2> HIDE DEF r
  <2>. QED
    BY <1>3, <2>1, <2>2, <2>3 DEF Names
<1>4. CASE Titles(b, l) /\ b.project = Unknown
  <2> DEFINE w == [turn |-> TitleTag(l, n), text |-> l.text]
  <2>1. Parks(b, q, w)
    BY <1>4 DEF Adds
  <2>2. w \in Wait /\ w.text = l.text
    BY <1>4, TagsIs DEF Wait
  <2> HIDE DEF w
  <2>. QED
    BY <1>4, <2>1, <2>2 DEF Waits
<1>5. CASE Owns(l)
  <2> DEFINE r == Record(b, <<"session", OwnTag(l, n)>>, "system", "title", l.text)
  <2>1. Tells(b, q, r) /\ r \in Item
    BY <1>5, TagsIs DEF Adds
  <2>2. Tagged(r, b.session) /\ r.kind = "title" /\ r.text = l.text
    BY DEF Tagged, Record, Id
  <2> HIDE DEF r
  <2>. QED
    BY <1>5, <2>1, <2>2 DEF Names
<1>6. CASE ~ (Says(b, l) \/ Notes(l) \/ Titles(b, l) \/ Owns(l))
  BY <1>6 DEF Adds
<1>. QED
  BY <1>1, <1>2, <1>3, <1>4, <1>5, <1>6

LEMMA TaggedMore ==
  ASSUME NEW s \in Seq(Item), NEW t \in Seq(Item), NEW u, u = s \o t, NEW session
  PROVE  /\ AllTagged(s, session) /\ AllTagged(t, session) => AllTagged(u, session)
         /\ NoTitles(s) /\ NoTitles(t) => NoTitles(u)
         /\ NoTitles(t) => \A words : LastTitle(s, words) => LastTitle(u, words)
         /\ \A words : LastTitle(t, words) => LastTitle(u, words)
<1> DEFINE m == Len(s)
<1>1. /\ m \in Nat /\ DOMAIN s = 1..m /\ DOMAIN u = 1..(m + Len(t)) /\ DOMAIN t = 1..Len(t) /\ Len(t) \in Nat
      /\ \A i \in DOMAIN s : i \in DOMAIN u /\ u[i] = s[i]
      /\ \A i \in DOMAIN u : \/ i \in DOMAIN s /\ u[i] = s[i]
                             \/ i > m /\ i - m \in DOMAIN t /\ u[i] = t[i - m]
  BY Appended
<1>2. \A i \in DOMAIN t : i + m \in DOMAIN u /\ u[i + m] = t[i]
  <2>. SUFFICES ASSUME NEW i \in DOMAIN t PROVE i + m \in DOMAIN u /\ u[i + m] = t[i]
    OBVIOUS
  <2>1. i \in Nat /\ i >= 1 /\ i + m \in DOMAIN u /\ i + m \notin 1..m /\ (i + m) - m = i
    BY <1>1
  <2>. QED
    BY <1>1, <2>1
<1> HIDE DEF m
<1>3. AllTagged(s, session) /\ AllTagged(t, session) => AllTagged(u, session)
  BY <1>1 DEF AllTagged
<1>4. NoTitles(s) /\ NoTitles(t) => NoTitles(u)
  BY <1>1 DEF NoTitles
<1>5. ASSUME NoTitles(t), NEW words, LastTitle(s, words) PROVE LastTitle(u, words)
  <2>1. PICK i \in DOMAIN s : s[i].kind = "title" /\ s[i].text = words
                              /\ \A j \in DOMAIN s : s[j].kind = "title" => j <= i
    BY <1>5 DEF LastTitle
  <2>2. \A j \in DOMAIN u : u[j].kind = "title" => j <= i
    BY <1>1, <1>5, <2>1 DEF NoTitles
  <2>. QED
    BY <1>1, <2>1, <2>2 DEF LastTitle
<1>6. ASSUME NEW words, LastTitle(t, words) PROVE LastTitle(u, words)
  <2>1. PICK i \in DOMAIN t : t[i].kind = "title" /\ t[i].text = words
                              /\ \A j \in DOMAIN t : t[j].kind = "title" => j <= i
    BY <1>6 DEF LastTitle
  <2>2. \A j \in DOMAIN u : u[j].kind = "title" => j <= i + m
    <3>. SUFFICES ASSUME NEW j \in DOMAIN u, u[j].kind = "title" PROVE j <= i + m
      OBVIOUS
    <3>1. CASE j \in DOMAIN s
      BY <1>1, <2>1, <3>1
    <3>2. CASE j - m \in DOMAIN t /\ u[j] = t[j - m]
      <4>1. j - m <= i
        BY <2>1, <3>2
      <4>. QED
        BY <1>1, <2>1, <4>1
    <3>. QED
      BY <1>1, <3>1, <3>2
  <2> DEFINE k == i + m
  <2>3. k \in DOMAIN u /\ u[k] = t[i] /\ \A j \in DOMAIN u : u[j].kind = "title" => j <= k
    BY <1>2, <2>1, <2>2
  <2> HIDE DEF k
  <2>. QED
    BY <2>1, <2>3 DEF LastTitle
<1>. QED
  BY <1>3, <1>4, <1>5, <1>6

(* One more record.                                                        *)
LEMMA TaggedOne ==
  ASSUME NEW p \in Parsers, NEW q, NEW r \in Item, Tells(p, q, r), NEW session
  PROVE  /\ AllTagged(p.items, session) /\ Tagged(r, session) => AllTagged(q.items, session)
         /\ NoTitles(p.items) /\ r.kind # "title" => NoTitles(q.items)
         /\ r.kind # "title" => \A words : Shows(p, words) => Shows(q, words)
         /\ r.kind = "title" /\ p.parked = <<>> => Shows(q, r.text)
<1> DEFINE t == <<r>>
<1>1. p.items \in Seq(Item) /\ t \in Seq(Item) /\ q.items = p.items \o t /\ DOMAIN t = {1} /\ t[1] = r
  BY DEF Parsers, Tells
<1>2. q.parked = p.parked
  BY DEF Tells
<1> HIDE DEF t
<1>3. (Tagged(r, session) => AllTagged(t, session)) /\ (r.kind # "title" => NoTitles(t))
  BY <1>1 DEF AllTagged, NoTitles
<1>4. r.kind = "title" => LastTitle(t, r.text)
  BY <1>1 DEF LastTitle
<1>5. /\ AllTagged(p.items, session) /\ AllTagged(t, session) => AllTagged(q.items, session)
      /\ NoTitles(p.items) /\ NoTitles(t) => NoTitles(q.items)
      /\ NoTitles(t) => \A words : LastTitle(p.items, words) => LastTitle(q.items, words)
      /\ \A words : LastTitle(t, words) => LastTitle(q.items, words)
  BY <1>1, TaggedMore
<1>. QED
  BY <1>2, <1>3, <1>4, <1>5 DEF Shows

LEMMA ShownParked ==
  ASSUME NEW p \in Parsers, NEW q, NEW w \in Wait, Parks(p, q, w)
  PROVE  Shows(q, w.text) /\ q.items = p.items
<1> DEFINE s == q.parked
<1>1. p.parked \in Seq(Wait) /\ s = Append(p.parked, w) /\ q.items = p.items
  BY DEF Parsers, Parks
<1>2. s # <<>> /\ s[Len(s)] = w
  BY <1>1
<1>. QED
  BY <1>1, <1>2 DEF Shows

LEMMA ShownFreed ==
  ASSUME NEW p \in Parsers, NEW q \in Parsers, Frees(p, q)
  PROVE  /\ AllTagged(p.items, q.session) => AllTagged(q.items, q.session)
         /\ \A words : Shows(p, words) => Shows(q, words)
         /\ q.parked = <<>>
<1>1. PICK t \in Seq(Item) : Freed(p, q, t)
  BY FreesTyped
<1>2. /\ DOMAIN t = 1..Len(p.parked) /\ Len(t) = Len(p.parked) /\ DOMAIN p.parked = 1..Len(p.parked)
      /\ Len(p.parked) \in Nat /\ q.items = p.items \o t
      /\ \A i \in DOMAIN t :
           /\ t[i].kind = "title" /\ t[i].id = <<q.session, "title", p.parked[i].turn>>
           /\ t[i].session = q.session /\ t[i].text = p.parked[i].text /\ t[i].title = None
  BY <1>1 DEF Freed
<1>3. p.items \in Seq(Item) /\ q.parked = <<>>
  BY DEF Parsers, Frees
<1>4. AllTagged(t, q.session)
  BY <1>2 DEF AllTagged, Tagged
<1>5. /\ AllTagged(p.items, q.session) /\ AllTagged(t, q.session) => AllTagged(q.items, q.session)
      /\ \A words : LastTitle(t, words) => LastTitle(q.items, words)
      /\ NoTitles(t) => \A words : LastTitle(p.items, words) => LastTitle(q.items, words)
  <2>1. p.items \in Seq(Item) /\ q.items = p.items \o t
    BY <1>2, <1>3
  <2>. QED
    BY <2>1, TaggedMore
<1>6. ASSUME NEW words, Shows(p, words) PROVE LastTitle(q.items, words)
  <2>1. CASE p.parked = <<>>
    <3>1. NoTitles(t)
      BY <1>2, <2>1 DEF NoTitles
    <3>. QED
      BY <1>5, <1>6, <2>1, <3>1 DEF Shows
  <2>2. CASE p.parked # <<>>
    <3>1. p.parked \in Seq(Wait)
      BY DEF Parsers
    <3>2. Len(p.parked) \in 1..Len(p.parked) /\ p.parked[Len(p.parked)].text = words
      BY <1>6, <2>2, <3>1 DEF Shows
    <3> DEFINE k == Len(p.parked)
    <3>4. k \in DOMAIN t /\ t[k].kind = "title" /\ t[k].text = words /\ \A j \in DOMAIN t : j <= k
      <4>1. DOMAIN t = 1..k /\ k \in Nat /\ k \in 1..k /\ p.parked[k].text = words
        BY <1>2, <3>2
      <4> HIDE DEF k
      <4>2. k \in DOMAIN t /\ \A j \in DOMAIN t : j <= k
        BY <4>1
      <4>. QED
        BY <1>2, <4>1, <4>2
    <3> HIDE DEF k
    <3>3. LastTitle(t, words)
      BY <3>4 DEF LastTitle
    <3>. QED
      BY <1>5, <3>3
  <2>. QED
    BY <2>1, <2>2
<1>. QED
  BY <1>3, <1>4, <1>5, <1>6 DEF Shows

LEMMA ShownParted ==
  ASSUME NEW a \in Parsers, NEW l, format \in Formats, l \in LinesOf[format]
  PROVE  LET b == Parted(a, l, TRUE) IN
         /\ AllTagged(a.items, a.session) => AllTagged(b.items, a.session)
         /\ NoTitles(a.items) => NoTitles(b.items)
         /\ \A words : Shows(a, words) => Shows(b, words)
         /\ b \in Parsers /\ b.session = a.session /\ b.project = a.project /\ b.seen = a.seen
         /\ b.parked = a.parked
<1> DEFINE b == Parted(a, l, TRUE)
<1>1. /\ b \in Parsers /\ b.session = a.session /\ b.project = a.project /\ b.seen = a.seen
      /\ \E s \in Seq(Item) : TellsAll(a, b, s) /\ Reported(a, l, s)
  <2>1. \A state \in BOOLEAN :
          LET c == Parted(a, l, state) IN
          /\ c \in Parsers /\ c.session = a.session /\ c.project = a.project /\ c.seen = a.seen
          /\ \E s \in Seq(Item) : TellsAll(a, c, s) /\ Reported(a, l, s)
    BY PartedIs
  <2>. QED
    BY <2>1
<1> HIDE DEF b
<1>2. PICK s \in Seq(Item) : TellsAll(a, b, s) /\ Reported(a, l, s)
  BY <1>1
<1>3. \A i \in DOMAIN s : Tagged(s[i], a.session) /\ s[i].kind # "title"
  <2>. SUFFICES ASSUME NEW i \in DOMAIN s PROVE Tagged(s[i], a.session) /\ s[i].kind # "title"
    OBVIOUS
  <2>1. PICK j \in Reports(a, l.parts) : s[i] = Report(a, l, l.parts[j])
    BY <1>2 DEF Reported
  <2> DEFINE r == Report(a, l, l.parts[j])
  <2>2. /\ r.session = a.session /\ r.kind \in {"todo", "tool", "task"}
        /\ r.id = <<a.session, r.kind, Named(l.parts[j].id)>> /\ r.title = None
    BY ReportIs
  <2> HIDE DEF r
  <2>3. Tagged(r, a.session) /\ r.kind # "title"
    BY <2>2 DEF Tagged
  <2>. QED
    BY <2>1, <2>3 DEF r
<1>4. a.items \in Seq(Item) /\ b.items = a.items \o s /\ b.parked = a.parked
  BY <1>2 DEF Parsers, TellsAll
<1>5. AllTagged(s, a.session) /\ NoTitles(s)
  BY <1>3 DEF AllTagged, NoTitles
<1>6. /\ AllTagged(a.items, a.session) /\ AllTagged(s, a.session) => AllTagged(b.items, a.session)
      /\ NoTitles(a.items) /\ NoTitles(s) => NoTitles(b.items)
      /\ NoTitles(s) => \A words : LastTitle(a.items, words) => LastTitle(b.items, words)
  BY <1>4, TaggedMore
<1>. QED
  BY <1>1, <1>4, <1>5, <1>6 DEF Shows, b

(***************************************************************************)
(* In an object that names one session every title is that session's, the  *)
(* titles that wait are those that no project was known for, and the text  *)
(* that was told last is the last to be shown.                             *)
(***************************************************************************)
Tells1(l)   == l.type \in {"title", "session"} /\ l.text # None
LastTold(k) == k \in Told /\ \A j \in Told : j <= k
Returns(k)  == format = "claude" /\ \E j \in Told : j < k /\ lines[j].text = lines[k].text

Headed == format \in {"pi", "claude", "codex"} /\ OneSession

TitleInv ==
  Headed =>
    /\ AllTagged(index.items, index.session)
    /\ index.parked # <<>> => index.project = Unknown /\ format # "codex"
    /\ \A k \in DOMAIN lines :
         lines[k].type = "session" => index.session = Default(lines[k].session, Stem)
    /\ (\A k \in DOMAIN lines : lines[k].type # "session") =>
         /\ index.session = Stem
         /\ format # "claude" => index.project = Unknown /\ NoTitles(index.items)
    /\ format = "claude" =>
         \A t : <<"title", t>> \in index.seen => \E j \in Told : lines[j].text = t
    /\ \A k \in Told : LastTold(k) => Shows(index, lines[k].text) \/ Returns(k)

LEMMA HeadedBefore ==
  ASSUME NEW l, Grows(l), Headed'
  PROVE  /\ Headed
         /\ \A k \in DOMAIN lines : lines[k].type = "session" /\ l.type = "session" => lines[k].session = l.session
<1> DEFINE n == Len(lines) + 1
<1>1. /\ DOMAIN lines = 1..Len(lines) /\ DOMAIN lines' = 1..n /\ Len(lines) \in Nat
      /\ lines'[n] = l /\ (\A k \in 1..Len(lines) : lines'[k] = lines[k]) /\ format' = format
  BY DEF Grows
<1>2. n \in DOMAIN lines' /\ \A k \in DOMAIN lines : k \in DOMAIN lines' /\ lines'[k] = lines[k]
  BY <1>1
<1> HIDE DEF n
<1>3. \A j, k \in DOMAIN lines' :
        lines'[j].type = "session" /\ lines'[k].type = "session" => lines'[j].session = lines'[k].session
  BY DEF Headed, OneSession
<1>4. OneSession
  BY <1>2, <1>3 DEF OneSession
<1>5. \A k \in DOMAIN lines : lines[k].type = "session" /\ l.type = "session" => lines[k].session = l.session
  BY <1>1, <1>2, <1>3
<1>. QED
  BY <1>1, <1>4, <1>5 DEF Headed

(* Which lines told, after a step.                                         *)
LEMMA ToldThen ==
  ASSUME NEW l, Grows(l), NEW k
  PROVE  /\ k \in Told' <=> k \in Told \/ (k = Len(lines) + 1 /\ Tells1(l))
         /\ k \in Told => k \in 1..Len(lines) /\ lines'[k] = lines[k]
         /\ lines'[Len(lines) + 1] = l /\ Len(lines) \in Nat
<1> DEFINE n == Len(lines) + 1
<1>1. /\ DOMAIN lines = 1..Len(lines) /\ DOMAIN lines' = 1..n /\ Len(lines) \in Nat
      /\ lines'[n] = l /\ (\A j \in 1..Len(lines) : lines'[j] = lines[j])
  BY DEF Grows
<1>2. k \in 1..n <=> k \in 1..Len(lines) \/ k = n
  BY <1>1
<1>3. n \notin 1..Len(lines)
  BY <1>1
<1> HIDE DEF n
<1>4. k \in Told <=> k \in 1..Len(lines) /\ lines[k].type \in {"title", "session"} /\ lines[k].text # None
  BY <1>1 DEF Told
<1>5. k \in Told' <=> k \in 1..n /\ lines'[k].type \in {"title", "session"} /\ lines'[k].text # None
  BY <1>1 DEF Told
<1>6. k \in Told' <=> k \in Told \/ (k = n /\ Tells1(l))
  BY <1>1, <1>2, <1>3, <1>4, <1>5 DEF Tells1
<1>. QED
  BY <1>1, <1>4, <1>6 DEF n

(* A session's line names the session that its records and lines have.     *)
LEMMA SessionNamed ==
  ASSUME Typed, TitleInv, NEW l, Grows(l), Headed'
  PROVE  LET a == Moved(index, l) IN
         /\ AllTagged(index.items, a.session)
         /\ \A k \in DOMAIN lines' : lines'[k].type = "session" => a.session = Default(lines'[k].session, Stem)
         /\ (\A k \in DOMAIN lines' : lines'[k].type # "session") => a.session = Stem
<1> DEFINE n == Len(lines) + 1
           a == Moved(index, l)
<1>1. /\ DOMAIN lines = 1..Len(lines) /\ DOMAIN lines' = 1..n /\ Len(lines) \in Nat
      /\ lines'[n] = l /\ (\A k \in 1..Len(lines) : lines'[k] = lines[k]) /\ format' = format
      /\ format \in Formats /\ l \in LinesOf[format] /\ index \in Parsers
  BY DEF Grows, Typed
<1>2. /\ \A k \in DOMAIN lines' : k = n \/ (k \in DOMAIN lines /\ lines'[k] = lines[k])
      /\ n \in DOMAIN lines' /\ \A k \in DOMAIN lines : k \in DOMAIN lines' /\ lines'[k] = lines[k]
  BY <1>1
<1>3. /\ Headed
      /\ \A k \in DOMAIN lines : lines[k].type = "session" /\ l.type = "session" => lines[k].session = l.session
  BY HeadedBefore
<1> HIDE DEF n
<1>4. format \in {"pi", "claude", "codex"}
  BY <1>3 DEF Headed
<1>5. a.session = IF format \in {"pi", "codex"} /\ l.type = "session"
                    THEN Default(l.session, index.session) ELSE index.session
  BY <1>1, <1>4, MovedIs
<1>6. l.type = "session" => format \in {"pi", "codex"}
  BY <1>1, <1>4, LineIs DEF TypesOf
<1> HIDE DEF a
<1>7. /\ AllTagged(index.items, index.session)
      /\ \A k \in DOMAIN lines :
           lines[k].type = "session" => index.session = Default(lines[k].session, Stem)
      /\ (\A k \in DOMAIN lines : lines[k].type # "session") =>
           /\ index.session = Stem
           /\ format # "claude" => NoTitles(index.items)
  BY <1>3 DEF TitleInv
<1>8. CASE l.type # "session"
  <2>1. a.session = index.session
    BY <1>5, <1>8
  <2>. QED
    BY <1>1, <1>2, <1>7, <1>8, <2>1 DEF a
<1>9. CASE l.type = "session" /\ \E k \in DOMAIN lines : lines[k].type = "session"
  <2>1. PICK k \in DOMAIN lines : lines[k].type = "session"
    BY <1>9
  <2>2. lines[k].session = l.session /\ index.session = Default(l.session, Stem)
    BY <1>3, <1>7, <1>9, <2>1
  <2>3. a.session = index.session
    BY <1>5, <1>6, <1>9, <2>2 DEF Default
  <2>. QED
    BY <1>1, <1>2, <1>7, <1>9, <2>2, <2>3 DEF a
<1>10. CASE l.type = "session" /\ \A k \in DOMAIN lines : lines[k].type # "session"
  <2>1. index.session = Stem /\ NoTitles(index.items)
    BY <1>6, <1>7, <1>10
  <2>2. a.session = Default(l.session, Stem)
    BY <1>5, <1>6, <1>10, <2>1
  <2>3. AllTagged(index.items, a.session)
    BY <1>7, <2>1 DEF AllTagged, Tagged, NoTitles
  <2>. QED
    BY <1>1, <1>2, <1>10, <2>2, <2>3 DEF a
<1>. QED
  BY <1>8, <1>9, <1>10

LEMMA TitleStep ==
  ASSUME Typed, TitleInv, NEW l, Grows(l)
  PROVE  TitleInv'
<1>. SUFFICES ASSUME Headed' PROVE TitleInv'
  BY DEF TitleInv
<1> DEFINE n == Len(lines) + 1
           p == index
           a == Moved(p, l)
           b == Parted(a, l, TRUE)
           q == index'
<1>1. /\ format \in Formats /\ l \in LinesOf[format] /\ n \in 1..MaxLines /\ p \in Parsers
      /\ q = Read(p, l, n, TRUE) /\ format' = format
  BY DEF Typed, Grows
<1>2. Headed /\ format \in {"pi", "claude", "codex"}
  BY HeadedBefore DEF Headed
<1>3. /\ AllTagged(p.items, p.session)
      /\ p.parked # <<>> => p.project = Unknown /\ format # "codex"
      /\ (\A k \in DOMAIN lines : lines[k].type # "session") =>
           (format # "claude" => p.project = Unknown /\ NoTitles(p.items))
      /\ format = "claude" => \A t : <<"title", t>> \in p.seen => \E j \in Told : lines[j].text = t
      /\ \A k \in Told : LastTold(k) => Shows(p, lines[k].text) \/ Returns(k)
  BY <1>2 DEF TitleInv
<1>4. /\ AllTagged(p.items, a.session)
      /\ \A k \in DOMAIN lines' : lines'[k].type = "session" => a.session = Default(lines'[k].session, Stem)
      /\ (\A k \in DOMAIN lines' : lines'[k].type # "session") => a.session = Stem
  BY SessionNamed
<1>5. /\ a \in Parsers /\ a.seen = p.seen
      /\ Opens(p, l) => Frees(p, a)
      /\ ~ Opens(p, l) => Same(p, a)
      /\ a.project = IF format \in {"pi", "codex"} /\ l.type = "session" THEN Default(l.cwd, Unknown)
                     ELSE IF Opens(p, l) THEN l.cwd ELSE p.project
  BY <1>1, MovedIs
<1> HIDE DEF n
<1>6. q \in Parsers /\ Adds(b, q, l, n, TRUE)
  BY <1>1, <1>2, ReadIs
<1> HIDE DEF a, q
<1>7. /\ AllTagged(a.items, a.session) => AllTagged(b.items, a.session)
      /\ NoTitles(a.items) => NoTitles(b.items)
      /\ \A words : Shows(a, words) => Shows(b, words)
      /\ b \in Parsers /\ b.session = a.session /\ b.project = a.project /\ b.seen = a.seen
      /\ b.parked = a.parked
  BY <1>1, <1>5, ShownParted
<1> HIDE DEF b, p
<1>8. AllTagged(a.items, a.session) /\ \A words : Shows(p, words) => Shows(a, words)
  <2>1. CASE Opens(p, l)
    BY <1>1, <1>4, <1>5, <2>1, ShownFreed
  <2>2. CASE ~ Opens(p, l)
    BY <1>4, <1>5, <2>2 DEF Same, Shows
  <2>. QED
    BY <2>1, <2>2
<1>9. AllTagged(b.items, b.session) /\ \A words : Shows(p, words) => Shows(b, words)
  BY <1>7, <1>8
<1>10. b.parked # <<>> => b.project = Unknown /\ format # "codex"
  <2>1. CASE Opens(p, l)
    BY <1>5, <1>7, <2>1 DEF Frees
  <2>2. CASE ~ Opens(p, l)
    <3>1. a.parked = p.parked
      BY <1>5, <2>2 DEF Same
    <3>2. format = "pi" => l.type # "session"
      BY <2>2 DEF Opens
    <3>. QED
      BY <1>2, <1>3, <1>5, <1>7, <2>2, <3>1, <3>2
  <2>. QED
    BY <2>1, <2>2
<1>11. l.type = "session" => b.parked = <<>>
  <2>1. l.type = "session" => format \in {"pi", "codex"}
    BY <1>1, <1>2, LineIs DEF TypesOf
  <2>2. format = "pi" /\ l.type = "session" => a.parked = <<>>
    BY <1>5 DEF Opens, Frees
  <2>. QED
    BY <1>7, <1>10, <2>1, <2>2
<1>12. \/ Same(b, q) /\ ~ Owns(l) /\ ~ Titles(b, l)
       \/ Utters(b, q, l) \/ Names(b, q, l) \/ Waits(b, q, l)
  BY <1>1, <1>6, <1>7, AddsOnly
<1>13. /\ q.session = b.session /\ q.project = b.project
       /\ format = "claude" =>
            \A t : <<"title", t>> \in q.seen => <<"title", t>> \in b.seen \/ (Titles(b, l) /\ t = l.text)
  BY <1>6 DEF Adds
<1>14. Titles(b, l) => l.type = "title" /\ format # "codex"
  BY <1>1, LineIs DEF Titles, TypesOf
<1>15. ASSUME Same(b, q) \/ Utters(b, q, l)
       PROVE  /\ AllTagged(q.items, q.session) /\ q.parked = b.parked
              /\ NoTitles(b.items) => NoTitles(q.items)
              /\ \A words : Shows(b, words) => Shows(q, words)
  <2>1. CASE Same(b, q)
    BY <1>9, <1>13, <2>1 DEF Same, Shows
  <2>2. CASE Utters(b, q, l)
    <3>1. PICK r \in Item : Tells(b, q, r) /\ Tagged(r, b.session) /\ r.kind # "title"
      BY <2>2 DEF Utters
    <3>2. /\ AllTagged(b.items, b.session) /\ Tagged(r, b.session) => AllTagged(q.items, b.session)
          /\ NoTitles(b.items) /\ r.kind # "title" => NoTitles(q.items)
          /\ r.kind # "title" => \A words : Shows(b, words) => Shows(q, words)
      BY <1>7, <3>1, TaggedOne
    <3>3. q.parked = b.parked
      BY <3>1 DEF Tells
    <3>. QED
      BY <1>9, <1>13, <3>1, <3>2, <3>3
  <2>. QED
    BY <1>15, <2>1, <2>2
<1>16. ASSUME Names(b, q, l)
       PROVE  /\ AllTagged(q.items, q.session) /\ q.parked = b.parked /\ Shows(q, l.text)
              /\ l.type = "session" \/ b.project # Unknown
              /\ Tells1(l)
  <2>1. PICK r \in Item : /\ Tells(b, q, r) /\ Tagged(r, b.session) /\ r.kind = "title" /\ r.text = l.text
                          /\ Owns(l) \/ (Titles(b, l) /\ b.project # Unknown)
    BY <1>16 DEF Names
  <2>2. b.parked = <<>>
    BY <1>10, <1>11, <2>1 DEF Owns
  <2>3. AllTagged(q.items, b.session) /\ Shows(q, r.text)
    BY <1>7, <1>9, <2>1, <2>2, TaggedOne
  <2>4. Tells1(l) /\ (l.type = "session" \/ b.project # Unknown)
    BY <2>1 DEF Tells1, Owns, Titles
  <2>. QED
    BY <1>13, <2>1, <2>3, <2>4 DEF Tells
<1>17. ASSUME Waits(b, q, l)
       PROVE  /\ AllTagged(q.items, q.session) /\ Shows(q, l.text) /\ b.project = Unknown /\ format # "codex"
              /\ NoTitles(b.items) => NoTitles(q.items)
              /\ Tells1(l)
  <2>1. PICK w \in Wait : Parks(b, q, w) /\ w.text = l.text /\ Titles(b, l) /\ b.project = Unknown
    BY <1>17 DEF Waits
  <2>2. Shows(q, w.text) /\ q.items = b.items
    BY <1>7, <2>1, ShownParked
  <2>. QED
    BY <1>9, <1>13, <1>14, <2>1, <2>2 DEF Tells1, Titles
<1>18. AllTagged(q.items, q.session)
  BY <1>12, <1>15, <1>16, <1>17
<1>19. q.parked # <<>> => q.project = Unknown /\ format # "codex"
  BY <1>10, <1>12, <1>13, <1>15, <1>16, <1>17
<1>20. ASSUME \A k \in DOMAIN lines' : lines'[k].type # "session", format # "claude"
       PROVE  q.project = Unknown /\ NoTitles(q.items)
  <2>1. l.type # "session" /\ \A k \in DOMAIN lines : lines[k].type # "session"
    <3>1. Len(lines) + 1 \in DOMAIN lines' /\ lines'[Len(lines) + 1] = l
      BY DEF Grows
    <3>2. \A k \in DOMAIN lines : k \in DOMAIN lines' /\ lines'[k] = lines[k]
      BY DEF Grows
    <3>. QED
      BY <1>20, <3>1, <3>2
  <2>2. ~ Opens(p, l)
    BY <1>20, <2>1 DEF Opens
  <2>3. a.items = p.items /\ a.project = p.project
    BY <1>5, <2>1, <2>2 DEF Same
  <2>4. b.project = Unknown /\ NoTitles(b.items)
    BY <1>3, <1>7, <1>20, <2>1, <2>3
  <2>. QED
    BY <1>12, <1>13, <1>15, <1>16, <1>17, <2>1, <2>4
<1>21. ASSUME format = "claude", NEW t, <<"title", t>> \in q.seen
       PROVE  \E j \in Told' : lines'[j].text = t
  <2>1. CASE <<"title", t>> \in b.seen
    <3>1. PICK j \in Told : lines[j].text = t
      BY <1>3, <1>5, <1>7, <1>21, <2>1
    <3>2. j \in Told' /\ lines'[j] = lines[j]
      BY <3>1, ToldThen
    <3>. QED
      BY <3>1, <3>2
  <2>2. CASE Titles(b, l) /\ t = l.text
    <3>1. Tells1(l)
      BY <2>2 DEF Titles, Tells1
    <3>2. n \in Told' /\ lines'[n] = l
      BY <3>1, ToldThen DEF n
    <3>. QED
      BY <2>2, <3>2
  <2>. QED
    BY <1>13, <1>21, <2>1, <2>2
<1>22. ASSUME NEW k \in Told', LastTold(k)'
       PROVE  Shows(q, lines'[k].text) \/ Returns(k)'
  <2>1. \A j \in Told' : j <= k
    BY <1>22 DEF LastTold
  <2>2. CASE Tells1(l)
    <3>1. k = n /\ lines'[k] = l
      <4>1. n \in Told' /\ lines'[n] = l
        BY <2>2, ToldThen DEF n
      <4>2. k \in Told => k \in 1..Len(lines)
        BY ToldThen
      <4>3. k \in Told \/ k = n
        BY <1>22, ToldThen DEF n
      <4>4. n <= k /\ Len(lines) \in Nat
        BY <2>1, <4>1, ToldThen
      <4>. QED
        BY <4>1, <4>2, <4>3, <4>4 DEF n
    <3>2. CASE Names(b, q, l) \/ Waits(b, q, l)
      BY <1>16, <1>17, <3>1, <3>2
    <3>3. CASE ~ Owns(l) /\ ~ Titles(b, l)
      <4>1. format = "claude" /\ <<"title", l.text>> \in p.seen
        BY <1>5, <1>7, <2>2, <3>3 DEF Tells1, Owns, Titles
      <4>2. PICK j \in Told : lines[j].text = l.text
        BY <1>3, <4>1
      <4>3. j \in Told' /\ lines'[j] = lines[j] /\ j \in 1..Len(lines) /\ Len(lines) \in Nat
        BY ToldThen
      <4>4. j < k
        BY <3>1, <4>3 DEF n
      <4>. QED
        BY <1>1, <3>1, <4>1, <4>2, <4>3, <4>4 DEF Returns
    <3>. QED
      BY <1>12, <3>2, <3>3 DEF Utters
  <2>3. CASE ~ Tells1(l)
    <3>1. k \in Told /\ lines'[k] = lines[k]
      BY <1>22, <2>3, ToldThen
    <3>2. \A j \in Told : j \in Told' /\ lines'[j] = lines[j]
      BY ToldThen
    <3>3. LastTold(k)
      BY <2>1, <3>1, <3>2 DEF LastTold
    <3>4. Same(b, q) \/ Utters(b, q, l)
      BY <1>12, <1>16, <1>17, <2>3
    <3>5. Shows(p, lines[k].text) => Shows(q, lines[k].text)
      BY <1>9, <1>15, <3>4
    <3>6. Returns(k) => Returns(k)'
      BY <1>1, <3>1, <3>2 DEF Returns
    <3>. QED
      BY <1>3, <3>1, <3>3, <3>5, <3>6
  <2>. QED
    BY <2>2, <2>3
<1>23. q.session = a.session
  BY <1>7, <1>13
<1>. QED
  BY <1>1, <1>4, <1>18, <1>19, <1>20, <1>21, <1>22, <1>23 DEF TitleInv, q

LEMMA TitleInit == ASSUME Init PROVE TitleInv
<1>1. /\ index.items = <<>> /\ index.parked = <<>> /\ index.seen = {} /\ index.session = Stem
      /\ format # "grok" => index.project = Unknown
      /\ lines = <<>>
  BY DEF Init, Parser
<1>2. DOMAIN index.items = {} /\ DOMAIN lines = {}
  BY <1>1
<1>3. AllTagged(index.items, index.session) /\ NoTitles(index.items)
  BY <1>2 DEF AllTagged, NoTitles
<1>4. Told = {}
  BY <1>2 DEF Told
<1>. QED
  BY <1>1, <1>2, <1>3, <1>4 DEF TitleInv, Headed

LEMMA GreatestIs ==
  ASSUME NEW S, S \subseteq Nat, NEW x \in S, \A y \in S : y <= x
  PROVE  Max(S) = x
<1>1. \A z \in S : (\A y \in S : z >= y) => z = x
  BY SMT
<1>2. \A y \in S : x >= y
  BY SMT
<1>. QED
  BY <1>1, <1>2 DEF Max

LEMMA TitlesShow ==
  ASSUME Typed, TitleInv
  PROVE  TitleShown
<1>. SUFFICES ASSUME format # "telegram", Told # {}, OneSession, index.parked = <<>>
              PROVE  LET last == lines[Max(Told)] IN
                     \/ format = "claude" /\ \E k \in Told : k < Max(Told) /\ lines[k].text = last.text
                     \/ \A u \in Units(Found) : u.id[1] = index.session => u.title = last.text
  BY DEF TitleShown
<1> DEFINE s == index.items
<1>1. DOMAIN lines = 1..Len(lines) /\ Len(lines) \in Nat /\ index \in Parsers /\ s \in Seq(Item)
  BY DEF Typed, Parsers
<1>2. format \in {"pi", "claude", "codex"}
  <2>1. PICK k \in Told : TRUE
    OBVIOUS
  <2>2. lines[k] \in LinesOf[format] /\ lines[k].type \in {"title", "session"}
    BY <2>1 DEF Told, Typed
  <2>3. lines[k].type \in TypesOf(format) /\ format \in AllFormats
    BY <2>2, LineIs DEF Typed, UnitsAssumption
  <2>. QED
    BY <2>2, <2>3 DEF TypesOf, AllFormats
<1>3. PICK m \in Told : \A j \in Told : j <= m
  <2>1. Told \subseteq 0..Len(lines)
    BY <1>1 DEF Told
  <2>. QED
    BY <1>1, <2>1, GreatestBelow
<1>4. Max(Told) = m
  <2>1. Told \subseteq Nat
    BY <1>1 DEF Told
  <2>. QED
    BY <1>3, <2>1, GreatestIs
<1>5. AllTagged(s, index.session) /\ (Shows(index, lines[m].text) \/ Returns(m))
  BY <1>2, <1>3 DEF TitleInv, Headed, LastTold
<1>6. CASE Returns(m)
  BY <1>4, <1>6 DEF Returns
<1>7. ASSUME Shows(index, lines[m].text), NEW u \in Units(Found), u.id[1] = index.session
      PROVE  u.title = lines[m].text
  <2>1. Found = <<>> \/ Found = s
    BY <1>1, ParsedSession DEF Found
  <2>2. PICK i \in DOMAIN Found :
          u.id = Found[i].id /\ u.title = Default(Found[i].title, SessionTitle(Found, Found[i].session))
    BY <1>7 DEF Units
  <2>3. Found = s
    BY <2>1, <2>2
  <2>4. Found[i].title = None /\ Found[i].session = index.session
    BY <1>5, <1>7, <2>2, <2>3 DEF AllTagged, Tagged
  <2>5. u.title = SessionTitle(s, index.session)
    BY <2>2, <2>3, <2>4 DEF Default
  <2> DEFINE T == {j \in DOMAIN s : s[j].kind = "title" /\ s[j].session = index.session}
  <2>6. PICK x \in DOMAIN s : s[x].kind = "title" /\ s[x].text = lines[m].text
                              /\ \A j \in DOMAIN s : s[j].kind = "title" => j <= x
    BY <1>7 DEF Shows, LastTitle
  <2>7. x \in T /\ T \subseteq Nat /\ \A j \in T : j <= x
    BY <1>1, <1>5, <2>6 DEF AllTagged, Tagged
  <2>8. Max(T) = x
    <3> HIDE DEF T
    <3>. QED
      BY <2>7, GreatestIs
  <2>9. SessionTitle(s, index.session) = s[Max(T)].text
    BY <2>7 DEF SessionTitle
  <2>. QED
    BY <2>5, <2>6, <2>8, <2>9
<1>. QED
  BY <1>4, <1>5, <1>6, <1>7

LEMMA SpecTitled == Spec => [](Typed /\ TitleInv)
<1>1. Init => Typed /\ TitleInv
  BY InitTyped, TitleInit
<1>2. Typed /\ TitleInv /\ [Next]_vars => (Typed /\ TitleInv)'
  <2>. SUFFICES ASSUME Typed, TitleInv, [Next]_vars PROVE (Typed /\ TitleInv)'
    OBVIOUS
  <2>1. CASE UNCHANGED vars
    <3>1. Typed'
      BY <2>1 DEF vars, Typed
    <3>2. format' = format /\ lines' = lines /\ index' = index
      BY <2>1 DEF vars
    <3>3. TitleInv'
      BY <3>2 DEF TitleInv, Headed, OneSession, Told, LastTold, Returns
    <3>. QED
      BY <3>1, <3>3
  <2>2. ASSUME NEW l \in LinesOf[format], Grow(l) PROVE (Typed /\ TitleInv)'
    <3>1. Grows(l)
      BY <2>2, GrowIs
    <3>. QED
      BY <3>1, StepTyped, TitleStep
  <2>. QED
    BY <2>1, <2>2 DEF Next
<1>. QED
  BY <1>1, <1>2, PTL DEF Spec

(* For every session object that names one session: its units show the      *)
(* title that was told last, unless that title waits for a project or is    *)
(* one that Claude goes back to (context.go:44, raw_parser.go:90).          *)
THEOREM SpecTitleShown == Spec => []TitleShown
BY SpecTitled, TitlesShow, PTL

-----------------------------------------------------------------------------
(***************************************************************************)
(* What a chat's message quotes, by the places where messages were read.   *)
(***************************************************************************)
Before(s, x) == {y \in WithText(s) : <<y, x>> \in ByDate(s) /\ s[y].session = s[x].session}
Near(s, x)   == {y \in WithText(s) : s[x].date - s[y].date <= LeadGap}
Leading(s, x) == Leads(Before(s, x), ByDate(s), Near(s, x), LeadLines)
Answered(s, x) == {y \in Before(s, x) : s[y].id = Id(s[x].session, "message", Named(s[x].reply))}
Quoted(s, x) == Leading(s, x) \cup Answered(s, x)

LEMMA ChatEarlier ==
  ASSUME NEW p \in Parsers, format = "telegram",
         NEW a \in 1..Cardinality(WithText(p.items))
  PROVE  LET s == p.items
             order == InOrder(WithText(s), ByDate(s))
             m == Cardinality(WithText(s))
             f == Parsed(p)
             x == order[a] IN
         /\ Earlier(f, a) \subseteq 1..m
         /\ \A j \in 1..m : j \in Earlier(f, a) <=> order[j] \in Before(s, x)
         /\ \A y \in Before(s, x) : \E j \in 1..m : order[j] = y
         /\ \A j \in Earlier(f, a) :
              Cardinality({k \in Earlier(f, a) : k > j})
                = Cardinality(After(Before(s, x), ByDate(s), order[j]))
<1> DEFINE s == p.items
           order == InOrder(WithText(s), ByDate(s))
           m == Cardinality(WithText(s))
           f == Parsed(p)
           x == order[a]
           E == Earlier(f, a)
           D == Before(s, x)
           R == ByDate(s)
<1>1. s \in Seq(Item)
  BY DEF Parsers
<1>2. DOMAIN f = 1..m /\ \A j \in 1..m : f[j] = s[order[j]] /\ order[j] \in WithText(s)
  BY ParsedChat
<1>3. /\ m \in Nat /\ order \in [1..m -> WithText(s)]
      /\ \A y \in WithText(s) : \E n \in 1..m : order[n] = y
      /\ \A i, j \in 1..m : i < j <=> <<order[i], order[j]>> \in R
      /\ \A i, j \in 1..m : order[i] = order[j] => i = j
  <2> HIDE DEF s
  <2>. QED
    BY <1>1, ChatOrder
<1>4. a \in 1..m
  OBVIOUS
<1> HIDE DEF s, order, m, f
<1>5. \A j : j \in E <=> j \in 1..(a - 1) /\ f[j].session = f[a].session
  BY DEF Earlier
<1>6. E \subseteq 1..m /\ \A j \in 1..m : j \in E <=> j < a /\ f[j].session = f[a].session
  BY <1>3, <1>4, <1>5
<1>7. \A y : y \in D <=> y \in WithText(s) /\ <<y, x>> \in R /\ s[y].session = s[x].session
  BY DEF Before
<1> HIDE DEF E, D
<1>8. \A j \in 1..m : j \in E <=> order[j] \in D
  <2>. SUFFICES ASSUME NEW j \in 1..m PROVE j \in E <=> order[j] \in D
    OBVIOUS
  <2>1. f[j] = s[order[j]] /\ f[a] = s[x] /\ order[j] \in WithText(s)
    BY <1>2, <1>4
  <2>2. j < a <=> <<order[j], x>> \in R
    BY <1>3, <1>4
  <2>. QED
    BY <1>6, <1>7, <2>1, <2>2
<1>9. \A y \in D : \E j \in 1..m : order[j] = y
  BY <1>3, <1>7
<1> HIDE DEF R
<1>10. ASSUME NEW j \in E
       PROVE  Cardinality({k \in E : k > j}) = Cardinality(After(D, R, order[j]))
  <2> DEFINE K == {k \in E : k > j}
             A == After(D, R, order[j])
             g == [k \in K |-> order[k]]
  <2>0. m \in Nat /\ K \subseteq E
    BY <1>3
  <2>1. K \subseteq 1..m /\ IsFiniteSet(1..m)
    <3>1. IsFiniteSet(1..m)
      BY <2>0, FS_Interval
    <3>. QED
      BY <1>6, <2>0, <3>1
  <2>2. IsFiniteSet(K)
    BY <2>1, FS_Subset
  <2>3. \A k \in 1..m : k \in K <=> order[k] \in A
    BY <1>3, <1>6, <1>8 DEF After
  <2>4. \A y \in A : \E k \in 1..m : order[k] = y
    BY <1>9 DEF After
  <2> HIDE DEF K, A
  <2>5. g \in [K -> A]
    BY <2>1, <2>3
  <2>6. \A y \in A : \E k \in K : g[k] = y
    BY <2>3, <2>4
  <2>7. \A i, k \in K : g[i] = g[k] => i = k
    BY <1>3, <2>1
  <2> HIDE DEF g
  <2>8. Cardinality(A) = Cardinality(K)
    BY <2>2, <2>5, <2>6, <2>7, SameCount
  <2>. QED
    BY <2>8 DEF A, K
<1>. QED
  BY <1>6, <1>8, <1>9, <1>10 DEF s, order, m, f, E, D, R

LEMMA ChatQuotes ==
  ASSUME NEW p \in Parsers, format = "telegram",
         NEW a \in 1..Cardinality(WithText(p.items))
  PROVE  LET s == p.items
             order == InOrder(WithText(s), ByDate(s))
             f == Parsed(p)
             x == order[a] IN
         Quotes(f, a) = IF s[x].session \in Channels THEN {} ELSE {Quote(s[y]) : y \in Quoted(s, x)}
<1> DEFINE s == p.items
           order == InOrder(WithText(s), ByDate(s))
           m == Cardinality(WithText(s))
           f == Parsed(p)
           x == order[a]
           E == Earlier(f, a)
           D == Before(s, x)
           R == ByDate(s)
<1>2. DOMAIN f = 1..m /\ \A j \in 1..m : f[j] = s[order[j]] /\ order[j] \in WithText(s)
  BY ParsedChat
<1>3. /\ E \subseteq 1..m
      /\ \A j \in 1..m : j \in E <=> order[j] \in D
      /\ \A y \in D : \E j \in 1..m : order[j] = y
      /\ \A j \in E : Cardinality({k \in E : k > j}) = Cardinality(After(D, R, order[j]))
  BY ChatEarlier
<1>4. a \in 1..m /\ f[a] = s[x]
  BY <1>2
<1> HIDE DEF s, order, m, f
<1>5. \A j : j \in Lead(f, a) <=> /\ j \in E /\ Cardinality({k \in E : k > j}) < LeadLines
                                   /\ f[a].date - f[j].date <= LeadGap
  BY DEF Lead
<1>6. \A j : j \in Parent(f, a) <=> j \in E /\ f[j].id = Id(f[a].session, "message", Named(f[a].reply))
  BY DEF Parent
<1>7. \A y : y \in Leading(s, x) <=> /\ y \in D /\ y \in WithText(s) /\ s[x].date - s[y].date <= LeadGap
                                      /\ Cardinality(After(D, R, y)) < LeadLines
  BY DEF Leading, Leads, Near
<1>8. \A y : y \in Answered(s, x) <=> y \in D /\ s[y].id = Id(s[x].session, "message", Named(s[x].reply))
  BY DEF Answered
<1> HIDE DEF E, D, R, x
<1>9. \A j \in 1..m : j \in Lead(f, a) <=> order[j] \in Leading(s, x)
  <2>. SUFFICES ASSUME NEW j \in 1..m PROVE j \in Lead(f, a) <=> order[j] \in Leading(s, x)
    OBVIOUS
  <2>1. f[j] = s[order[j]] /\ order[j] \in WithText(s) /\ (j \in E <=> order[j] \in D)
    BY <1>2, <1>3
  <2>2. j \in E => Cardinality({k \in E : k > j}) = Cardinality(After(D, R, order[j]))
    BY <1>3
  <2> DEFINE c == Cardinality({k \in E : k > j})
             d == Cardinality(After(D, R, order[j]))
  <2>3. j \in Lead(f, a) <=> j \in E /\ c < LeadLines /\ f[a].date - f[j].date <= LeadGap
    BY <1>5
  <2>4. order[j] \in Leading(s, x) <=> /\ order[j] \in D /\ order[j] \in WithText(s)
                                       /\ s[x].date - s[order[j]].date <= LeadGap /\ d < LeadLines
    BY <1>7
  <2>5. j \in E => c = d
    BY <2>2
  <2> HIDE DEF c, d
  <2>. QED
    BY <1>4, <2>1, <2>3, <2>4, <2>5
<1>10. \A j \in 1..m : j \in Parent(f, a) <=> order[j] \in Answered(s, x)
  BY <1>2, <1>3, <1>4, <1>6, <1>8
<1>11. (\A j \in Lead(f, a) \cup Parent(f, a) : j \in 1..m) /\ \A y \in Quoted(s, x) : \E j \in 1..m : order[j] = y
  BY <1>3, <1>5, <1>6, <1>7, <1>8 DEF Quoted
<1>12. \A j \in 1..m : j \in Lead(f, a) \cup Parent(f, a) <=> order[j] \in Quoted(s, x)
  BY <1>9, <1>10 DEF Quoted
<1> DEFINE Q == Lead(f, a) \cup Parent(f, a)
<1> HIDE DEF Q
<1>13. {Quote(f[j]) : j \in Q} = {Quote(s[y]) : y \in Quoted(s, x)}
  <2>1. \A j \in Q : Quote(f[j]) = Quote(s[order[j]]) /\ order[j] \in Quoted(s, x)
    BY <1>2, <1>11, <1>12 DEF Q
  <2>2. \A y \in Quoted(s, x) : \E j \in Q : Quote(f[j]) = Quote(s[y])
    BY <1>2, <1>11, <1>12 DEF Q
  <2>. QED
    BY <2>1, <2>2
<1>14. Quotes(f, a) = IF f[a].session \in Channels THEN {} ELSE {Quote(f[j]) : j \in Q}
  BY DEF Quotes, Q
<1>. QED
  BY <1>4, <1>13, <1>14 DEF s, order, f, x

(* Two states of a chat's records that differ at most at place w.          *)
Except(s, t, w) == \A y : y = w \/ ((y \in DOMAIN s <=> y \in DOMAIN t) /\ (y \in DOMAIN s => t[y] = s[y]))

Changed(s, t, w, id) ==
  /\ Except(s, t, w)
  /\ w \in DOMAIN s => s[w].id = id
  /\ w \in DOMAIN t => t[w].id = id

LEMMA ChatChanges ==
  ASSUME NEW p \in Parsers, NEW l, format \in Formats, l \in LinesOf[format], NEW n,
         NEW state \in BOOLEAN, format = "telegram",
         \A i, j \in DOMAIN p.items : p.items[i].id = p.items[j].id => i = j
  PROVE  \E w : Changed(p.items, Read(p, l, n, state).items, w, ChatId(l))
<1> DEFINE s == p.items
           t == Read(p, l, n, state).items
           at == Places(p, ChatId(l))
           it == ChatItem(l)
           m == Len(s)
<1>1. t = IF l.type # "turn" THEN s
          ELSE IF at = {} THEN Append(s, it) ELSE Edited(p, at, it)
  BY ChatLine
<1>2. it.id = ChatId(l) /\ s \in Seq(Item)
  BY DEF ChatItem, Parsers
<1>3. DOMAIN s = 1..m /\ m \in Nat /\ m + 1 \notin 1..m
  BY <1>2
<1>4. /\ at \subseteq DOMAIN s /\ \A i \in DOMAIN s : i \in at <=> s[i].id = it.id
  BY <1>2 DEF Places
<1> HIDE DEF s, t, at, it
<1>5. CASE l.type # "turn"
  <2> DEFINE w == m + 1
  <2>1. t = s /\ w \notin DOMAIN s
    BY <1>1, <1>3, <1>5
  <2> HIDE DEF w
  <2>2. Changed(s, t, w, ChatId(l))
    BY <2>1 DEF Changed, Except
  <2>. QED
    BY <2>2 DEF s, t
<1>6. CASE l.type = "turn" /\ at = {}
  <2>1. t = Append(s, it)
    BY <1>1, <1>6
  <2>2. DOMAIN t = 1..(m + 1) /\ t[m + 1] = it /\ (\A i \in 1..m : t[i] = s[i])
    BY <1>2, <1>3, <2>1
  <2>3. \A y : y = m + 1 \/ (y \in 1..m <=> y \in 1..(m + 1))
    BY <1>3
  <2>4. m + 1 \notin DOMAIN s
    BY <1>3
  <2> DEFINE w == m + 1
  <2>5. Except(s, t, w)
    BY <1>3, <2>2, <2>3 DEF Except
  <2>6. Changed(s, t, w, ChatId(l))
    BY <1>2, <2>2, <2>4, <2>5 DEF Changed
  <2>. QED
    BY <2>6 DEF s, t
<1>7. CASE l.type = "turn" /\ at # {}
  <2>1. t = Edited(p, at, it)
    BY <1>1, <1>7
  <2>2. PICK w : w \in at
    BY <1>7
  <2>3. \A i \in at : i = w
    BY <1>4, <2>2 DEF s
  <2>4. DOMAIN t = DOMAIN s /\ (\A i \in DOMAIN s : t[i] = IF i \in at THEN it ELSE s[i])
    BY <2>1 DEF Edited, s
  <2>5. Changed(s, t, w, ChatId(l))
    BY <1>2, <1>4, <2>2, <2>3, <2>4 DEF Changed, Except
  <2>. QED
    BY <2>5 DEF s, t
<1>. QED
  BY <1>5, <1>6, <1>7

LEMMA QuotedStill ==
  ASSUME NEW s \in Seq(Item), NEW t \in Seq(Item), NEW w, Except(s, t, w),
         NEW x \in WithText(s), x # w, w \notin Quoted(t, x)
  PROVE  \A y \in Quoted(s, x) : y = w \/ y \in Quoted(t, x)
<1> DEFINE E == Before(s, x)
           F == Before(t, x)
           R == ByDate(s)
           S == ByDate(t)
           N == Near(s, x)
           M == Near(t, x)
<1>1. /\ WithText(s) \subseteq DOMAIN s /\ IsFiniteSet(WithText(s))
      /\ \A i, j \in WithText(s) : <<i, j>> \in R <=> s[i].date < s[j].date \/ (s[i].date = s[j].date /\ i < j)
  BY ChatRanks
<1>2. /\ WithText(t) \subseteq DOMAIN t /\ IsFiniteSet(WithText(t)) /\ Ranks(S, WithText(t))
      /\ \A i, j \in WithText(t) : <<i, j>> \in S <=> t[i].date < t[j].date \/ (t[i].date = t[j].date /\ i < j)
      /\ \A i \in WithText(t) : t[i].date \in Nat
  BY ChatRanks
<1>3. \A y : y = w \/ ((y \in WithText(s) <=> y \in WithText(t)) /\ (y \in WithText(s) => t[y] = s[y]))
  BY DEF Except, WithText
<1>4. x \in WithText(t) /\ t[x] = s[x]
  BY <1>3
<1>5. \A y : y \in E <=> y \in WithText(s) /\ <<y, x>> \in R /\ s[y].session = s[x].session
  BY DEF Before
<1>6. \A y : y \in F <=> y \in WithText(t) /\ <<y, x>> \in S /\ t[y].session = t[x].session
  BY DEF Before
<1>7. \A y : y \in N <=> y \in WithText(s) /\ s[x].date - s[y].date <= LeadGap
  BY DEF Near
<1>8. \A y : y \in M <=> y \in WithText(t) /\ t[x].date - t[y].date <= LeadGap
  BY DEF Near
<1>9. w \notin Leads(F, S, M, LeadLines) /\ w \notin Answered(t, x)
  BY DEF Quoted, Leading
<1>10. E \in SUBSET WithText(s) /\ F \in SUBSET WithText(t)
  BY <1>5, <1>6
<1>11. IsFiniteSet(E) /\ IsFiniteSet(F)
  BY <1>1, <1>2, <1>10, FS_Subset
<1> HIDE DEF E, F, R, S, N, M
<1>12. \A y, z \in WithText(s) : y = w \/ z = w \/ (<<y, z>> \in R <=> <<y, z>> \in S)
  <2>. SUFFICES ASSUME NEW y \in WithText(s), NEW z \in WithText(s), y # w, z # w
                PROVE  <<y, z>> \in R <=> <<y, z>> \in S
    OBVIOUS
  <2>1. y \in WithText(t) /\ z \in WithText(t) /\ t[y] = s[y] /\ t[z] = s[z]
    BY <1>3
  <2>2. <<y, z>> \in R <=> s[y].date < s[z].date \/ (s[y].date = s[z].date /\ y < z)
    BY <1>1
  <2>3. <<y, z>> \in S <=> t[y].date < t[z].date \/ (t[y].date = t[z].date /\ y < z)
    BY <1>2, <2>1
  <2>. QED
    BY <2>1, <2>2, <2>3
<1>13. \A y \in E : y = w \/ (y \in F /\ (y \in N <=> y \in M))
  <2>. SUFFICES ASSUME NEW y \in E, y # w PROVE y \in F /\ (y \in N <=> y \in M)
    OBVIOUS
  <2>1. y \in WithText(s) /\ <<y, x>> \in R /\ s[y].session = s[x].session
    BY <1>5
  <2>2. y \in WithText(t) /\ t[y] = s[y]
    BY <1>3, <2>1
  <2>3. <<y, x>> \in S
    BY <1>12, <2>1
  <2>4. y \in F
    BY <1>4, <1>6, <2>1, <2>2, <2>3
  <2>5. y \in N <=> s[x].date - s[y].date <= LeadGap
    BY <1>7, <2>1
  <2>6. y \in M <=> t[x].date - t[y].date <= LeadGap
    BY <1>8, <2>2
  <2>. QED
    BY <1>4, <2>2, <2>4, <2>5, <2>6
<1>14. \A y \in F : y = w \/ y \in E
  <2>. SUFFICES ASSUME NEW y \in F, y # w PROVE y \in E
    OBVIOUS
  <2>1. y \in WithText(t) /\ <<y, x>> \in S /\ t[y].session = t[x].session
    BY <1>6
  <2>2. y \in WithText(s) /\ t[y] = s[y]
    BY <1>3, <2>1
  <2>3. <<y, x>> \in R
    BY <1>12, <2>1, <2>2
  <2>. QED
    BY <1>4, <1>5, <2>1, <2>2, <2>3
<1>15. \A y, z \in E : y = w \/ z = w \/ (<<y, z>> \in R <=> <<y, z>> \in S)
  BY <1>10, <1>12
<1>16. Ranks(S, F)
  BY <1>2, <1>10 DEF Ranks
<1>17. \A y \in F : y \in M /\ <<y, w>> \in S /\ w \in F => w \in M
  <2>. SUFFICES ASSUME NEW y \in F, y \in M, <<y, w>> \in S, w \in F PROVE w \in M
    OBVIOUS
  <2>1. y \in WithText(t) /\ w \in WithText(t) /\ t[x].date - t[y].date <= LeadGap
    BY <1>8, <1>10
  <2>2. t[y].date <= t[w].date /\ t[y].date \in Nat /\ t[w].date \in Nat /\ t[x].date \in Nat
    BY <1>2, <1>4, <2>1
  <2>3. t[x].date - t[w].date <= LeadGap
    BY <2>1, <2>2 DEF UnitsAssumption
  <2>. QED
    BY <1>8, <2>1, <2>3
<1>18. LeadLines \in Nat
  BY DEF UnitsAssumption
<1>19. \A y \in Leads(E, R, N, LeadLines) : y = w \/ y \in Leads(F, S, M, LeadLines)
  BY <1>9, <1>11, <1>13, <1>14, <1>15, <1>16, <1>17, <1>18, LeadsStill
<1>20. \A y \in Answered(s, x) : y = w \/ y \in Answered(t, x)
  <2>. SUFFICES ASSUME NEW y \in Answered(s, x), y # w PROVE y \in Answered(t, x)
    OBVIOUS
  <2>1. y \in E /\ s[y].id = Id(s[x].session, "message", Named(s[x].reply))
    BY DEF Answered, E
  <2>2. y \in F /\ t[y] = s[y]
    BY <1>3, <1>10, <1>13, <2>1
  <2>. QED
    BY <1>4, <2>1, <2>2 DEF Answered, F
<1>. QED
  BY <1>19, <1>20 DEF Quoted, Leading, E, F, R, S, N, M

LEMMA QuotedSame ==
  ASSUME NEW s \in Seq(Item), NEW t \in Seq(Item), NEW w, Except(s, t, w),
         NEW x \in WithText(s), x # w, w \notin Quoted(s, x), w \notin Quoted(t, x)
  PROVE  /\ x \in WithText(t) /\ t[x] = s[x]
         /\ {Quote(t[y]) : y \in Quoted(t, x)} = {Quote(s[y]) : y \in Quoted(s, x)}
<1>1. Except(t, s, w)
  BY DEF Except
<1>2. x \in WithText(t) /\ t[x] = s[x]
  BY DEF Except, WithText
<1>3. \A y \in Quoted(s, x) : y \in Quoted(t, x)
  BY QuotedStill
<1>4. \A y \in Quoted(t, x) : y \in Quoted(s, x)
  BY <1>1, <1>2, QuotedStill
<1>5. \A y \in Quoted(s, x) : t[y] = s[y]
  BY DEF Except, Quoted, Leading, Leads, Answered, Before, WithText
<1>. QED
  BY <1>2, <1>3, <1>4, <1>5

-----------------------------------------------------------------------------
(***************************************************************************)
(* Units.                                                                  *)
(***************************************************************************)
UnitOf(f, a, quotes) ==
  [id |-> f[a].id, title |-> Default(f[a].title, SessionTitle(f, f[a].session)),
   project |-> f[a].project, quotes |-> quotes, text |-> f[a].text]

LEMMA UnitsNow ==
  ASSUME NEW u \in Units(Found)
  PROVE  \E a \in DOMAIN Found : u = UnitOf(Found, a, Quotes(Found, a))
BY DEF Units, UnitOf

LEMMA UnitsThen ==
  ASSUME format' = format, NEW v \in Units(Found)'
  PROVE  LET g == Parsed(index') IN \E a \in DOMAIN g : v = UnitOf(g, a, Quotes(g, a))
<1> DEFINE g == Parsed(index')
<1>1. Found' = g
  BY FoundThen
<1>2. PICK a \in DOMAIN Found' : v = UnitOf(Found', a, Quotes(Found, a)')
  BY DEF Units, UnitOf
<1>3. Quotes(Found, a)' = Quotes(Found', a)
  BY DEF Quotes
<1>. QED
  BY <1>1, <1>2, <1>3

(* An answer repeats the same prompt when lines are added.                 *)
LEMMA QuestionStays ==
  ASSUME NEW s \in Seq(Item), NEW t \in Seq(Item), Begins(s, t), NEW a \in DOMAIN s
  PROVE  Question(t, a) = Question(s, a)
<1> DEFINE P == {j \in Earlier(s, a) : IsPrompt(s[j])}
           Q == {j \in Earlier(t, a) : IsPrompt(t[j])}
<1>1. a \in Nat /\ \A j \in 1..(a - 1) : j \in DOMAIN s
  OBVIOUS
<1>2. t[a] = s[a] /\ \A j \in 1..(a - 1) : t[j] = s[j]
  BY <1>1 DEF Begins
<1>3. \A j : j \in P <=> j \in 1..(a - 1) /\ s[j].session = s[a].session /\ IsPrompt(s[j])
  BY DEF Earlier
<1>4. \A j : j \in Q <=> j \in 1..(a - 1) /\ t[j].session = t[a].session /\ IsPrompt(t[j])
  BY DEF Earlier
<1> HIDE DEF P, Q
<1>5. P = Q
  <2>1. ASSUME NEW j PROVE j \in P <=> j \in Q
    <3>1. j \in 1..(a - 1) => t[j] = s[j] /\ t[a] = s[a]
      BY <1>2
    <3>. QED
      BY <1>3, <1>4, <3>1
  <2>. QED
    BY <2>1 DEF P, Q
<1>6. P # {} => Max(P) \in P
  <2>. SUFFICES ASSUME P # {} PROVE Max(P) \in P
    OBVIOUS
  <2>1. P \subseteq 0..a /\ P \subseteq Nat
    BY <1>1, <1>3
  <2>2. PICK j \in P : \A k \in P : k <= j
    BY <1>1, <2>1, GreatestBelow
  <2>3. Max(P) = j
    BY <2>1, <2>2, GreatestIs
  <2>. QED
    BY <2>3
<1>7. P # {} => Quote(t[Max(P)]) = Quote(s[Max(P)])
  BY <1>2, <1>3, <1>6
<1>8. Question(s, a) = IF s[a].kind = "message" /\ s[a].role = "assistant" /\ P # {}
                         THEN {Quote(s[Max(P)])} ELSE {}
  BY DEF Question, P
<1>9. Question(t, a) = IF t[a].kind = "message" /\ t[a].role = "assistant" /\ Q # {}
                         THEN {Quote(t[Max(Q)])} ELSE {}
  BY DEF Question, Q
<1>. QED
  BY <1>2, <1>5, <1>7, <1>8, <1>9

LEMMA SessionUnitsStay ==
  ASSUME Typed, UniqueInv, NEW l, Grows(l), format # "telegram",
         NEW u \in Units(Found), NEW v \in Units(Found)', u.id = v.id
  PROVE  v = [u EXCEPT !.title = v.title]
<1> DEFINE n == Len(lines) + 1
           p == index
           q == index'
           s == p.items
           t == q.items
<1>1. /\ format \in Formats /\ l \in LinesOf[format] /\ n \in 1..MaxLines /\ p \in Parsers
      /\ q = Read(p, l, n, TRUE) /\ format' = format
  BY DEF Typed, Grows
<1> HIDE DEF n
<1>2. q \in Parsers
  BY <1>1, ReadTyped
<1>3. Begins(s, t)
  BY <1>1, SessionBegins
<1>4. s \in Seq(Item) /\ t \in Seq(Item)
  BY <1>1, <1>2 DEF Parsers
<1>5. PICK a \in DOMAIN Found : u = UnitOf(Found, a, Quotes(Found, a))
  BY UnitsNow
<1>6. Found = s
  <2>1. Found = <<>> \/ Found = s
    BY <1>1, ParsedSession DEF Found
  <2>2. Found # <<>>
    BY <1>5
  <2>. QED
    BY <2>1, <2>2
<1>7. PICK b \in DOMAIN Parsed(q) : v = UnitOf(Parsed(q), b, Quotes(Parsed(q), b))
  BY <1>1, UnitsThen
<1>8. Parsed(q) = t
  <2>1. Parsed(q) = <<>> \/ Parsed(q) = t
    BY <1>2, ParsedSession
  <2>2. Parsed(q) # <<>>
    BY <1>7
  <2>. QED
    BY <2>1, <2>2
<1>9. \A i, j \in DOMAIN t : t[i].id = t[j].id => i = j
  <2>1. UniqueInv'
    BY UniqueStep
  <2>2. \A i, j \in DOMAIN t : Key(t[i]) = Key(t[j]) => i = j
    BY <1>1, <2>1 DEF UniqueInv, Distinct
  <2>3. \A i, j : t[i].id = t[j].id => Key(t[i]) = Key(t[j])
    BY DEF Key
  <2>. QED
    BY <2>2, <2>3
<1> HIDE DEF p, q, s, t
<1>10. u = UnitOf(s, a, Question(s, a)) /\ v = UnitOf(t, b, Question(t, b)) /\ a \in DOMAIN s /\ b \in DOMAIN t
  BY <1>5, <1>6, <1>7, <1>8 DEF Quotes
<1>11. a \in DOMAIN t /\ t[a] = s[a]
  BY <1>3, <1>10 DEF Begins
<1>12. a = b
  BY <1>9, <1>10, <1>11 DEF UnitOf
<1>13. Question(t, a) = Question(s, a)
  BY <1>3, <1>4, <1>10, QuestionStays
<1>. QED
  BY <1>10, <1>11, <1>12, <1>13 DEF UnitOf

(* A chat has no titles of its own.                                        *)
LEMMA NoTitle ==
  ASSUME NEW f, \A i \in DOMAIN f : f[i].kind = "message", NEW session
  PROVE  SessionTitle(f, session) = None
<1>1. {i \in DOMAIN f : f[i].kind = "title" /\ f[i].session = session} = {}
  OBVIOUS
<1>. QED
  BY <1>1 DEF SessionTitle

LEMMA ChatUnit ==
  ASSUME NEW p \in Parsers, format = "telegram", \A i \in DOMAIN p.items : p.items[i].kind = "message",
         NEW a \in DOMAIN Parsed(p)
  PROVE  LET s == p.items
             f == Parsed(p)
             u == UnitOf(f, a, Quotes(f, a)) IN
         \E x \in WithText(s) :
           u = [id |-> s[x].id, title |-> Default(s[x].title, None), project |-> s[x].project,
                quotes |-> IF s[x].session \in Channels THEN {} ELSE {Quote(s[y]) : y \in Quoted(s, x)},
                text |-> s[x].text]
<1> DEFINE s == p.items
           order == InOrder(WithText(s), ByDate(s))
           m == Cardinality(WithText(s))
           f == Parsed(p)
           x == order[a]
<1>1. DOMAIN f = 1..m /\ \A j \in 1..m : f[j] = s[order[j]] /\ order[j] \in WithText(s)
  BY ParsedChat
<1>2. Quotes(f, a) = IF s[x].session \in Channels THEN {} ELSE {Quote(s[y]) : y \in Quoted(s, x)}
  BY <1>1, ChatQuotes
<1>3. \A j \in WithText(s) : s[j].kind = "message"
  BY DEF WithText
<1> HIDE DEF s, order, m, f
<1>4. \A j \in DOMAIN f : f[j].kind = "message"
  BY <1>1, <1>3
<1>5. SessionTitle(f, f[a].session) = None
  BY <1>4, NoTitle
<1>6. a \in 1..m /\ f[a] = s[x] /\ x \in WithText(s)
  BY <1>1 DEF f
<1> HIDE DEF x
<1>7. UnitOf(f, a, Quotes(f, a))
      = [id |-> s[x].id, title |-> Default(s[x].title, None), project |-> s[x].project,
         quotes |-> IF s[x].session \in Channels THEN {} ELSE {Quote(s[y]) : y \in Quoted(s, x)},
         text |-> s[x].text]
  BY <1>2, <1>5, <1>6 DEF UnitOf
<1>. QED
  BY <1>6, <1>7 DEF s, f

LEMMA ChatUnitsStay ==
  ASSUME Typed, UniqueInv, Lockstep, NEW l, Grows(l), format = "telegram",
         NEW u \in Units(Found), NEW v \in Units(Found)', u.id = v.id, u.id # ChatId(l),
         \A q \in u.quotes \cup v.quotes : q.id # ChatId(l)
  PROVE  u = v
<1> DEFINE n == Len(lines) + 1
           s == index.items
           t == index'.items
<1>1. /\ format \in Formats /\ l \in LinesOf[format] /\ n \in 1..MaxLines /\ index \in Parsers
      /\ index' = Read(index, l, n, TRUE) /\ format' = format
  BY DEF Typed, Grows
<1> HIDE DEF n
<1>2. index' \in Parsers
  BY <1>1, ReadTyped
<1>3. s \in Seq(Item) /\ t \in Seq(Item)
  BY <1>1, <1>2 DEF Parsers
<1>4. \A i, j \in DOMAIN s : s[i].id = s[j].id => i = j
  BY DEF UniqueInv, IdsUnique
<1>5. \A i \in DOMAIN s : s[i].kind = "message"
  <2>1. Spoken(s) = s
    BY DEF Lockstep, InStep
  <2> HIDE DEF s
  <2>2. \A i \in DOMAIN Spoken(s) : Spoken(s)[i].kind = "message"
    BY <1>3, SpokenIs
  <2>. QED
    BY <2>1, <2>2, Zenon
<1>6. \A i \in DOMAIN t : t[i].kind = "message"
  <2>1. \A state \in BOOLEAN : LET r == Read(index, l, n, state).items IN \A i \in DOMAIN r : r[i].kind = "message"
    BY <1>1, <1>5, ChatMessages
  <2>. QED
    BY <1>1, <2>1
<1>7. PICK w : Changed(s, t, w, ChatId(l))
  <2>1. \A state \in BOOLEAN : \E w : Changed(index.items, Read(index, l, n, state).items, w, ChatId(l))
    BY <1>1, <1>4, ChatChanges
  <2>. QED
    BY <1>1, <2>1
<1>8. PICK x \in WithText(s) :
        u = [id |-> s[x].id, title |-> Default(s[x].title, None), project |-> s[x].project,
             quotes |-> IF s[x].session \in Channels THEN {} ELSE {Quote(s[y]) : y \in Quoted(s, x)},
             text |-> s[x].text]
  <2>1. PICK a \in DOMAIN Parsed(index) : u = UnitOf(Parsed(index), a, Quotes(Parsed(index), a))
    BY UnitsNow DEF Found
  <2>. QED
    BY <1>1, <1>5, <2>1, ChatUnit
<1>9. PICK z \in WithText(t) :
        v = [id |-> t[z].id, title |-> Default(t[z].title, None), project |-> t[z].project,
             quotes |-> IF t[z].session \in Channels THEN {} ELSE {Quote(t[y]) : y \in Quoted(t, z)},
             text |-> t[z].text]
  <2>1. PICK b \in DOMAIN Parsed(index') : v = UnitOf(Parsed(index'), b, Quotes(Parsed(index'), b))
    BY <1>1, UnitsThen
  <2>. QED
    BY <1>2, <1>6, <2>1, ChatUnit
<1> HIDE DEF s, t
<1>10. Except(s, t, w) /\ (w \in DOMAIN s => s[w].id = ChatId(l)) /\ (w \in DOMAIN t => t[w].id = ChatId(l))
  BY <1>7 DEF Changed
<1>11. x \in DOMAIN s /\ z \in DOMAIN t /\ s[x].id = t[z].id /\ s[x].id # ChatId(l)
  BY <1>8, <1>9 DEF WithText
<1>12. z # w /\ x # w
  BY <1>10, <1>11
<1>13. z \in DOMAIN s /\ t[z] = s[z]
  BY <1>10, <1>11, <1>12 DEF Except
<1>14. x = z
  BY <1>4, <1>11, <1>13
<1>15. t[x] = s[x]
  BY <1>13, <1>14
<1>16. CASE s[x].session \in Channels
  <2>1. v = [id |-> s[x].id, title |-> Default(s[x].title, None), project |-> s[x].project,
             quotes |-> {}, text |-> s[x].text]
    BY <1>9, <1>14, <1>15, <1>16
  <2>. QED
    BY <1>8, <1>16, <2>1
<1>17. CASE s[x].session \notin Channels
  <2>1. u.quotes = {Quote(s[y]) : y \in Quoted(s, x)} /\ v.quotes = {Quote(t[y]) : y \in Quoted(t, x)}
    BY <1>8, <1>9, <1>14, <1>15, <1>17
  <2>2. \A y \in Quoted(s, x) : y \in DOMAIN s
    BY DEF Quoted, Leading, Leads, Answered, Before, WithText
  <2>3. \A y \in Quoted(t, x) : y \in DOMAIN t
    BY DEF Quoted, Leading, Leads, Answered, Before, WithText
  <2>4. w \notin Quoted(s, x)
    <3>1. w \in Quoted(s, x) => Quote(s[w]) \in u.quotes /\ Quote(s[w]).id = ChatId(l)
      BY <1>10, <2>1, <2>2 DEF Quote
    <3>. QED
      BY <3>1
  <2>5. w \notin Quoted(t, x)
    <3>1. w \in Quoted(t, x) => Quote(t[w]) \in v.quotes /\ Quote(t[w]).id = ChatId(l)
      BY <1>10, <2>1, <2>3 DEF Quote
    <3>. QED
      BY <3>1
  <2>6. {Quote(t[y]) : y \in Quoted(t, x)} = {Quote(s[y]) : y \in Quoted(s, x)}
    BY <1>3, <1>10, <1>12, <2>4, <2>5, QuotedSame
  <2>7. v = [id |-> s[x].id, title |-> Default(s[x].title, None), project |-> s[x].project,
             quotes |-> {Quote(t[y]) : y \in Quoted(t, x)}, text |-> s[x].text]
    BY <1>9, <1>14, <1>15, <1>17
  <2>8. u = [id |-> s[x].id, title |-> Default(s[x].title, None), project |-> s[x].project,
             quotes |-> {Quote(s[y]) : y \in Quoted(s, x)}, text |-> s[x].text]
    BY <1>8, <1>17
  <2>. QED
    BY <2>6, <2>7, <2>8
<1>. QED
  BY <1>16, <1>17

(* What a line may change of the units that were there: their title only,   *)
(* in a session; in a chat, only the unit of the message it adds or edits   *)
(* and those that quote it, before or after (context.go:44).                *)
THEOREM SpecUnitsStable == Spec => UnitsStable
<1> DEFINE Stable ==
      \A u \in Units(Found), v \in Units(Found)' :
        u.id = v.id /\ u # v =>
          IF format = "telegram"
            THEN LET id == ChatId(Last(lines'))
                 IN u.id = id \/ \E q \in u.quotes \cup v.quotes : q.id = id
            ELSE v = [u EXCEPT !.title = v.title]
<1>1. Typed /\ UniqueInv /\ Lockstep /\ [Next]_vars => [Stable]_vars
  <2>. SUFFICES ASSUME Typed, UniqueInv, Lockstep, NEW l \in LinesOf[format], Grow(l),
                       NEW u \in Units(Found), NEW v \in Units(Found)', u.id = v.id, u # v
                PROVE  IF format = "telegram"
                         THEN u.id = ChatId(Last(lines'))
                              \/ \E q \in u.quotes \cup v.quotes : q.id = ChatId(Last(lines'))
                         ELSE v = [u EXCEPT !.title = v.title]
    BY DEF Next
  <2>1. Grows(l) /\ Last(lines') = l
    BY GrowIs DEF Grows
  <2>2. CASE format = "telegram"
    <3>. SUFFICES ASSUME u.id # ChatId(l), \A q \in u.quotes \cup v.quotes : q.id # ChatId(l) PROVE FALSE
      BY <2>1, <2>2
    <3>. QED
      BY <2>1, <2>2, ChatUnitsStay
  <2>3. CASE format # "telegram"
    BY <2>1, <2>3, SessionUnitsStay
  <2>. QED
    BY <2>2, <2>3
<1>2. Spec => [](Typed /\ UniqueInv) /\ [](Typed /\ Lockstep)
  BY SpecUnique, SpecLockstep
<1>. QED
  BY <1>1, <1>2, PTL DEF Spec, UnitsStable
==================================================================================
