---------------------------- MODULE SessionUnits ----------------------------
(***************************************************************************)
(* What is found in a raw object: its lines become records                 *)
(* (raw_parser.go:90, telegram.go:31), and records become units, a header  *)
(* and a body, whose hash decides what is embedded again (context.go:44).  *)
(*                                                                         *)
(* An object grows by lines.  The parsers are loops over the lines that    *)
(* keep nothing between two calls, so reading the longer object again is   *)
(* to let the loop take one more line: the state of the loop is kept here, *)
(* of two loops at once.  One parses for the index (includeState), the     *)
(* other for a container walk.                                             *)
(*                                                                         *)
(* A line is what json.Unmarshal makes of it, reduced to the fields that   *)
(* are used; its text is None if it is empty or not indexable              *)
(* (indexableMessage), and a line that is blank, cut short or of no        *)
(* interest is of type "none".  A repeated text stands for an equal hash.  *)
(***************************************************************************)
EXTENDS Integers, Sequences, FiniteSets, SequencesExt, Ordered

CONSTANTS
  Formats,      \* a subset of AllFormats
  LinesOf,      \* [Formats -> SUBSET Line]: lines that agents and exporters write
  Sessions, Turns, Projects, Texts,
  None,         \* a field that is not there
  Unknown,      \* the project "unknown"
  Stem,         \* the file stem, a session's id until a line gives one
  KeyProject,   \* the project in the key of a grok object
  SkipTexts,    \* prompts whose sessions are not indexed (skippedSessionPrefixes)
  Channels,     \* telegram containers that are channels
  LeadGap,      \* telegramLeadGap
  LeadLines,    \* telegramLeadLines
  MaxLines

(* "pi" stands for omp and grokbot too.                                     *)
AllFormats == {"pi", "claude", "codex", "grok", "telegram"}

Part == [type : {"state", "call", "result"}, id : Turns, kind : {"todo", "tool", "task"},
         text : Texts \cup {None}, async : BOOLEAN]

Line == [type : {"none", "session", "title", "state", "turn"},
         session : Sessions \cup {None}, turn : Turns \cup {None},
         cwd : Projects \cup {Unknown, None},
         role : {"user", "assistant", "toolResult"}, kind : {"message", "todo", "task"},
         text : Texts \cup {None}, parts : Seq(Part),
         title : Texts \cup {None}, reply : Turns \cup {None}, date : Nat]

(* The lines that a format has, apart from those of no interest.            *)
TypesOf(f) ==
  CASE f = "pi"     -> {"none", "session", "title", "state", "turn"}
    [] f = "claude" -> {"none", "title", "turn"}
    [] f = "codex"  -> {"none", "session", "turn"}
    [] OTHER        -> {"none", "turn"}

ASSUME UnitsAssumption ==
  /\ Formats \subseteq AllFormats
  /\ \A f \in Formats : \A l \in LinesOf[f] :
       /\ l \in Line /\ l.type \in TypesOf(f)
       /\ l.type = "state" => l.kind \in {"todo", "task"}
       /\ \A i \in DOMAIN l.parts :
            /\ l.parts[i].type = "state" => l.parts[i].kind \in {"todo", "tool"}
            /\ \A j \in DOMAIN l.parts :
                 l.parts[i].type = l.parts[j].type /\ l.parts[i].id = l.parts[j].id => i = j
       /\ f = "telegram" /\ l.type = "turn" => l.session # None /\ l.turn # None
  /\ None \notin Sessions \cup Turns \cup Projects \cup Texts
  /\ Stem \in Sessions /\ KeyProject \in Projects /\ SkipTexts \subseteq Texts
  /\ LeadGap \in Nat /\ LeadLines \in Nat /\ MaxLines \in Nat

VARIABLES
  format,  \* the source in the object's key
  lines,   \* the object
  index,   \* the state of the loop that parses for the index
  walk     \* the state of the loop that parses for a walk

vars == <<format, lines, index, walk>>

-----------------------------------------------------------------------------
(* A record.  Its id is host, source, session, kind and turn, of which the *)
(* object gives the first two.                                             *)
Id(session, kind, turn) == <<session, kind, turn>>

Parser(session, project) ==
  [session |-> session, project |-> project, seen |-> {}, calls |-> {},
   parked |-> <<>>, items |-> <<>>]

(* rawRecord, with the session and project that are known by now.           *)
Record(p, turn, role, kind, text) ==
  [id |-> Id(p.session, kind, turn), session |-> p.session, role |-> role, kind |-> kind,
   text |-> text, project |-> p.project, title |-> None, reply |-> None, date |-> 0]

Emit(p, items) == [p EXCEPT !.items = @ \o items]

Default(value, other) == IF value = None THEN other ELSE value

Named(id)    == <<"given", id>>
Given(id, n) == IF id = None THEN <<"line", n>> ELSE Named(id)

Indexable(l) == l.role \in {"user", "assistant"} /\ l.text # None

(* Titles told before the project is known wait for it.                     *)
Title(p, turn, text) ==
  IF p.project = Unknown
    THEN [p EXCEPT !.parked = Append(@, [turn |-> turn, text |-> text])]
    ELSE Emit(p, <<Record(p, turn, "system", "title", text)>>)

Released(p) ==
  Emit([p EXCEPT !.parked = <<>>],
       [i \in DOMAIN p.parked |->
          Record(p, p.parked[i].turn, "system", "title", p.parked[i].text)])

OwnTitle(p, turn, l, state) ==
  IF state /\ l.text # None
    THEN <<Record(p, <<"session", turn>>, "system", "title", l.text)>> ELSE <<>>

-----------------------------------------------------------------------------
(* One turn of the loop, for each format: line number n, and whether state *)
(* records are included.                                                   *)

Opened(p, l) ==
  [p EXCEPT !.session = Default(l.session, @), !.project = Default(l.cwd, Unknown)]

(* Mutant: what waited for the project comes after the session's own title. *)
PiSessionOwnFirst(p, l, n, state) ==
  LET q == Opened(p, l) IN Released(Emit(q, OwnTitle(q, Given(l.session, n), l, state)))

(* Mutant: messages read under the file's name move to the session.         *)
PiSessionMoving(p, l, n, state) ==
  LET moved(it) == [it EXCEPT !.session = Default(l.session, @)]
      q == Released([Opened(p, l) EXCEPT !.items = [i \in DOMAIN @ |-> moved(@[i])]])
  IN Emit(q, OwnTitle(q, Given(l.session, n), l, state))

PiSession(p, l, n, state) ==
  LET q == Released(Opened(p, l)) IN Emit(q, OwnTitle(q, Given(l.session, n), l, state))

(* A "state" line is a user's edit of the todos or a tool's result.         *)
ReadPi(p, l, n, state) ==
  CASE l.type = "session" -> PiSession(p, l, n, state)
    [] l.type = "title" /\ state /\ l.text # None -> Title(p, Given(l.turn, n), l.text)
    [] l.type = "state" /\ state /\ l.text # None ->
         Emit(p, <<Record(p, Given(l.turn, n), l.role, l.kind, l.text)>>)
    [] l.type = "turn" /\ Indexable(l) ->
         Emit(p, <<Record(p, Given(l.turn, n), l.role, "message", l.text)>>)
    [] OTHER -> p

(* The first working directory names the project.                           *)
Located(p, l) ==
  IF p.project = Unknown /\ l.cwd # None THEN Released([p EXCEPT !.project = l.cwd]) ELSE p

(* Todos, commands with a description, and the results of subagents that    *)
(* were called before.                                                      *)
Calls(parts) == {i \in DOMAIN parts : parts[i].type = "call"}

Reports(p, parts) ==
  {i \in DOMAIN parts : parts[i].text # None /\
     \/ parts[i].type = "state"
     \/ /\ parts[i].type = "result" /\ ~ parts[i].async
        /\ \/ parts[i].id \in p.calls
           \/ \E j \in Calls(parts) : j < i /\ parts[j].id = parts[i].id}

Report(p, l, part) ==
  IF part.type = "state" THEN Record(p, Named(part.id), l.role, part.kind, part.text)
  ELSE Record(p, Named(part.id), "toolResult", "task", part.text)

ReadParts(p, l) ==
  Emit([p EXCEPT !.calls = @ \cup {l.parts[i].id : i \in Calls(l.parts)}],
       At([i \in DOMAIN l.parts |-> Report(p, l, l.parts[i])], Reports(p, l.parts)))

(* Mutant: a title is not noted as seen.                                    *)
ClaudeTitleAgain(p, l) ==
  IF l.text = None \/ <<"title", l.text>> \in p.seen THEN p
  ELSE Title(p, <<"title", l.text>>, l.text)

ClaudeTitle(p, l) ==
  IF l.text = None \/ <<"title", l.text>> \in p.seen THEN p
  ELSE Title([p EXCEPT !.seen = @ \cup {<<"title", l.text>>}], <<"title", l.text>>, l.text)

Said(p, l) ==
  IF Indexable(l) /\ l.turn # None
    THEN Emit(p, <<Record(p, Named(l.turn), l.role, "message", l.text)>>) ELSE p

(* Mutant: a line with parts holds no message.                              *)
ClaudeTurnEither(p, l, state) ==
  IF state /\ l.parts # <<>> THEN ReadParts(p, l) ELSE Said(p, l)

ClaudeTurn(p, l, state) == Said(IF state THEN ReadParts(p, l) ELSE p, l)

ReadClaude(p, l, n, state) ==
  CASE l.type = "title" /\ state -> ClaudeTitle(Located(p, l), l)
    [] l.type = "turn" -> ClaudeTurn(Located(p, l), l, state)
    [] OTHER -> Located(p, l)

(* A resumed session repeats its turns: by id, or by text if it has none.   *)
CodexKey(l) == IF l.turn = None THEN <<"legacy", l.text>> ELSE Named(l.turn)

ReadCodex(p, l, n, state) ==
  CASE l.type = "session" ->
         LET q == Opened(p, l) IN Emit(q, OwnTitle(q, Named(l.session), l, state))
    [] l.type = "turn" /\ Indexable(l) /\ CodexKey(l) \notin p.seen ->
         Emit([p EXCEPT !.seen = @ \cup {CodexKey(l)}],
              <<Record(p, Given(l.turn, n - 1), l.role, "message", l.text)>>)
    [] OTHER -> p

ReadGrok(p, l, n, state) ==
  IF l.type = "turn" /\ Indexable(l)
    THEN LET q == [p EXCEPT !.session = Default(l.session, @)]
         IN Emit(q, <<Record(q, Given(l.turn, n), l.role, "message", l.text)>>)
    ELSE p

(* The last line of a message wins, at the place of its first.              *)
ChatId(l) == Id(l.session, "message", Named(l.turn))

ReadTelegram(p, l, n, state) ==
  LET it == [id |-> ChatId(l), session |-> l.session, role |-> l.role, kind |-> "message",
             text |-> l.text, project |-> Unknown, title |-> l.title, reply |-> l.reply,
             date |-> l.date]
      at == {i \in DOMAIN p.items : p.items[i].id = it.id}
  IN IF l.type # "turn" THEN p
     ELSE IF at = {} THEN Emit(p, <<it>>)
     ELSE [p EXCEPT !.items = [i \in DOMAIN @ |-> IF i \in at THEN it ELSE @[i]]]

Read(p, l, n, state) ==
  CASE format = "pi"       -> ReadPi(p, l, n, state)
    [] format = "claude"   -> ReadClaude(p, l, n, state)
    [] format = "codex"    -> ReadCodex(p, l, n, state)
    [] format = "grok"     -> ReadGrok(p, l, n, state)
    [] format = "telegram" -> ReadTelegram(p, l, n, state)

-----------------------------------------------------------------------------
(* What the parse returns at the end of the object.                         *)

IsPrompt(it) == it.kind = "message" /\ it.role = "user"

(* skippedSession looks at the first prompt.                                *)
Skipped(items) ==
  \E i \in DOMAIN items :
    /\ IsPrompt(items[i]) /\ items[i].text \in SkipTexts
    /\ \A j \in DOMAIN items : j < i => ~ IsPrompt(items[j])

WithText(items) == {i \in DOMAIN items : items[i].text # None}

ByDate(items) ==
  {e \in (DOMAIN items) \X (DOMAIN items) :
     \/ items[e[1]].date < items[e[2]].date
     \/ (items[e[1]].date = items[e[2]].date /\ e[1] < e[2])}

Parsed(p) ==
  IF format = "telegram"
    THEN LET order == InOrder(WithText(p.items), ByDate(p.items))
         IN [k \in DOMAIN order |-> p.items[order[k]]]
  ELSE IF Skipped(p.items) THEN <<>>
  ELSE p.items

(* chunkGroups.  A unit's header names the session's last title and the     *)
(* project; its body is the record, led by what it quotes.                  *)
SessionTitle(items, session) ==
  LET T == {i \in DOMAIN items : items[i].kind = "title" /\ items[i].session = session}
  IN IF T = {} THEN None ELSE items[Max(T)].text

Earlier(items, i) == {j \in 1 .. i - 1 : items[j].session = items[i].session}

Quote(it) == [id |-> it.id, text |-> it.text]

(* Mutant: an answer is given the session's last prompt.                    *)
QuestionLatest(items, i) ==
  LET Q == {j \in DOMAIN items : IsPrompt(items[j]) /\ items[j].session = items[i].session}
  IN IF items[i].kind = "message" /\ items[i].role = "assistant" /\ Q # {}
       THEN {Quote(items[Max(Q)])} ELSE {}

(* An answer repeats the prompt before it.                                  *)
Question(items, i) ==
  LET Q == {j \in Earlier(items, i) : IsPrompt(items[j])}
  IN IF items[i].kind = "message" /\ items[i].role = "assistant" /\ Q # {}
       THEN {Quote(items[Max(Q)])} ELSE {}

(* A chat message is led by those just before it ...                        *)
Lead(items, i) ==
  {j \in Earlier(items, i) :
     /\ Cardinality({k \in Earlier(items, i) : k > j}) < LeadLines
     /\ items[i].date - items[j].date <= LeadGap}

(* ... and by the one it replies to, if that came earlier.                  *)
Parent(items, i) ==
  {j \in Earlier(items, i) : items[j].id = Id(items[i].session, "message", Named(items[i].reply))}

Quotes(items, i) ==
  IF format # "telegram" THEN Question(items, i)
  ELSE IF items[i].session \in Channels THEN {}
  ELSE {Quote(items[j]) : j \in Lead(items, i) \cup Parent(items, i)}

Units(items) ==
  {[id |-> items[i].id, title |-> Default(items[i].title, SessionTitle(items, items[i].session)),
    project |-> items[i].project, quotes |-> Quotes(items, i), text |-> items[i].text]
   : i \in DOMAIN items}

-----------------------------------------------------------------------------
(* The writers of objects (external).  Agents give their entries ids of     *)
(* their own, but codex repeats turns and telegram edits messages.          *)
Ids(l) ==
  (IF l.turn = None THEN {} ELSE {<<l.type, l.turn>>})
    \cup {<<l.parts[i].type, l.parts[i].id>> : i \in DOMAIN l.parts}
    \cup (IF l.type = "session" /\ l.text # None THEN {<<l.type, l.session>>} ELSE {})

IsNew(l) ==
  \/ format \in {"codex", "telegram"} /\ l.type = "turn"
  \/ \A k \in DOMAIN lines : Ids(lines[k]) \cap Ids(l) = {}

Grow(l) ==
  /\ Len(lines) < MaxLines /\ IsNew(l)
  /\ lines' = Append(lines, l)
  /\ index' = Read(index, l, Len(lines) + 1, TRUE)
  /\ walk' = Read(walk, l, Len(lines) + 1, FALSE)
  /\ UNCHANGED format

Init ==
  /\ format \in Formats
  /\ lines = <<>>
  /\ index = Parser(Stem, IF format = "grok" THEN KeyProject ELSE Unknown)
  /\ walk = index

Next == \E l \in LinesOf[format] : Grow(l)

Spec == Init /\ [][Next]_vars

-----------------------------------------------------------------------------
Found == Parsed(index)

Kinds == {"message", "title", "todo", "task", "tool"}

(* The last part of an id: given, a line number, a title's hash, a          *)
(* session's own title.                                                     *)
GivenIds == {Named(t) : t \in Turns \cup Sessions \cup {None}} \cup {<<"line", n>> : n \in 0 .. MaxLines}
TurnIds  == GivenIds \cup {<<"title", t>> : t \in Texts}
               \cup {<<"session", g>> : g \in GivenIds}

Item == [id : Sessions \X Kinds \X TurnIds, session : Sessions,
         role : {"user", "assistant", "toolResult", "system"}, kind : Kinds,
         text : Texts \cup {None}, project : Projects \cup {Unknown},
         title : Texts \cup {None}, reply : Turns \cup {None}, date : Nat]

(* The two loops agree on where they are, and only that of the index keeps  *)
(* state records.                                                           *)
TypeOK ==
  /\ format \in Formats /\ lines \in Seq(LinesOf[format]) /\ Len(lines) <= MaxLines
  /\ \A p \in {index, walk} :
       /\ p.session = index.session /\ p.project = index.project
       /\ \A i \in DOMAIN p.items : p.items[i] \in Item
  /\ walk.parked = <<>> /\ walk.calls = {}
  /\ \A i \in DOMAIN walk.items : walk.items[i].kind = "message"

(* A container walk reads the very messages that are indexed, in their      *)
(* order and under their ids: parseRawSession against parseRawSessionForIndex. *)
WalkAgrees == Parsed(walk) = At(Found, {i \in DOMAIN Found : Found[i].kind = "message"})

(* No two records of an object share an id, or one would overwrite the      *)
(* other in the tables.                                                     *)
IdsUnique == \A i, j \in DOMAIN index.items : index.items[i].id = index.items[j].id => i = j

Edits(it, l) == it.id = ChatId(l) /\ format = "telegram"

(* An upload of a longer object derives what the one before derived, with   *)
(* the same ids, unless a chat message was edited or the session turns out  *)
(* to be one that is skipped (whose earlier rows then stay).                *)
GrowthKeeps ==
  [][Skipped(index'.items)
     \/ \A i \in DOMAIN Found : Edits(Found[i], Last(lines')) \/ Found[i] \in ToSet(Found')]_vars

(* A line added to an object changes the units before it in their title     *)
(* only, and then all of a session's; in a chat, only those of or quoting   *)
(* the message it adds or edits.  What is embedded again is bounded by it.  *)
UnitsStable ==
  [][\A u \in Units(Found), v \in Units(Found)' :
       u.id = v.id /\ u # v =>
         IF format = "telegram"
           THEN LET id == ChatId(Last(lines'))
                IN u.id = id \/ \E q \in u.quotes \cup v.quotes : q.id = id
           ELSE v = [u EXCEPT !.title = v.title]]_vars

Told == {k \in DOMAIN lines : lines[k].type \in {"title", "session"} /\ lines[k].text # None}
OneSession ==
  \A j, k \in DOMAIN lines :
    lines[j].type = "session" /\ lines[k].type = "session" => lines[j].session = lines[k].session

(* The units of the session show the title it was given last, unless that   *)
(* one still waits for a project, or Claude goes back to one that was told  *)
(* before (which is not read again), or its lines name two sessions.        *)
TitleShown ==
  format # "telegram" /\ Told # {} /\ OneSession =>
    LET last == lines[Max(Told)] IN
    \/ index.parked # <<>>
    \/ format = "claude" /\ \E k \in Told : k < Max(Told) /\ lines[k].text = last.text
    \/ \A u \in Units(Found) : u.id[1] = index.session => u.title = last.text
=============================================================================
