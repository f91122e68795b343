---------------------------- MODULE MCSessionUnits ----------------------------
(* Instances of SessionUnits for TLC. *)
EXTENDS SessionUnits, TLC

CONSTANTS s1, chat, news, p1, p2, a, b, c, skip

Blank == [type |-> "none", session |-> None, turn |-> None, cwd |-> None, role |-> "user",
          kind |-> "message", text |-> None, parts |-> <<>>, title |-> None, reply |-> None,
          date |-> 0]

Titled(type, text)          == [Blank EXCEPT !.type = type, !.text = text]
Opening(session, cwd, text) == [Titled("session", text) EXCEPT !.session = session, !.cwd = cwd]
Turn(turn, role, text)      == [Titled("turn", text) EXCEPT !.turn = turn, !.role = role]
State(turn, role, kind)     == [Titled("state", a) EXCEPT !.turn = turn, !.role = role, !.kind = kind]
In(l, cwd)            == [l EXCEPT !.cwd = cwd]
OfPart(l, type, kind, async) ==
  [l EXCEPT !.parts = <<[type |-> type, id |-> "t9", kind |-> kind, text |-> c, async |-> async]>>]
Chat(session, turn, text, date, reply) ==
  [Turn(turn, "user", text) EXCEPT !.session = session, !.date = date, !.reply = reply]

(* A session line with or without a directory and a title, titles before    *)
(* and after it, todos, prompts, answers, lines without an id or of no use. *)
PiLines ==
  { Opening(s1, p1, None), Opening(s1, None, a), Titled("title", a), Titled("title", b),
    State("t1", "toolResult", "task"), Turn("t2", "user", a), Turn(None, "user", b),
    Turn("t3", "assistant", c), Turn(None, "user", skip), Blank }

(* Titles that repeat and return, a subagent's call and result, lines that  *)
(* hold parts and text.                                                     *)
ClaudeLines ==
  { Titled("title", a), Titled("title", b), In(Blank, p1), In(Turn("t1", "user", a), p2),
    OfPart(Turn("t2", "assistant", b), "call", "task", FALSE),
    OfPart(Turn("t3", "user", None), "result", "task", FALSE),
    OfPart(Turn("t4", "user", b), "result", "task", TRUE),
    OfPart(Turn("t5", "assistant", c), "state", "todo", FALSE),
    Turn("t6", "user", skip), Turn(None, "assistant", c) }

CodexLines ==
  { Opening(s1, p1, a), Opening(s1, p2, None), Opening(Stem, p2, None),
    Turn("t1", "user", a), Turn("t1", "user", b), Turn(None, "user", a), Turn(None, "user", b),
    Turn("t2", "assistant", c), Blank }

GrokLines ==
  { [Turn("t1", "user", a) EXCEPT !.session = s1], [Turn(None, "user", b) EXCEPT !.session = s1],
    Turn("t2", "assistant", c), Turn(None, "assistant", c), Blank }

(* Messages out of order, an edit, one that removes the text, replies near  *)
(* and far, and a channel that numbers its posts as the chat does.          *)
TelegramLines ==
  { Chat(chat, "t1", a, 1, None), [Chat(chat, "t1", b, 1, None) EXCEPT !.title = c], Chat(chat, "t1", None, 1, None),
    Chat(chat, "t2", b, 2, "t1"), Chat(chat, "t3", c, 2, None), Chat(chat, "t4", a, 4, "t1"),
    Chat(news, "t1", a, 1, None), Chat(news, "t2", b, 2, "t1") }

AllLines ==
  [f \in AllFormats |->
    CASE f = "pi" -> PiLines [] f = "claude" -> ClaudeLines [] f = "codex" -> CodexLines
      [] f = "grok" -> GrokLines [] f = "telegram" -> TelegramLines]
=============================================================================
