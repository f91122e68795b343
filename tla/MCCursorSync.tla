----------------------------- MODULE MCCursorSync -----------------------------
(* Instances of CursorSync for TLC. *)
EXTENDS CursorSync

CONSTANTS a, b, e, d, k1, k2, k3, bad

Open(s)    == [opens |-> TRUE, session |-> s, key |-> NoKey]
Turn(s, k) == [opens |-> FALSE, session |-> s, key |-> k]

Named == <<a, b>>

(* A codex file that repeats a turn and ends in one that is never accepted, *)
(* and a file that goes on in another session and is then replaced.         *)
Told ==
  << << <<Turn(a, k3), Turn(a, k3), Turn(a, bad)>> >>,
     << <<Open(b), Turn(b, k1), Open(e), Turn(e, k1)>>, <<Open(d), Turn(d, k2)>> >> >>
===============================================================================
