------------------------------ MODULE CursorSync ------------------------------
(***************************************************************************)
(* tireless sync and watch (cmd/tireless/index): one process that reads    *)
(* the session files of the agents from a saved cursor on and posts their  *)
(* turns to the daemon, with failures and crashes anywhere.                *)
(*                                                                         *)
(* A file is counted in lines, with perhaps a partial one at its end: a    *)
(* cursor is always behind a newline.  The daemon is the set of turns it   *)
(* has stored; posting one again changes nothing.                          *)
(***************************************************************************)
EXTENDS Naturals, Sequences, FiniteSets

CONSTANTS
  FileCount,     \* files are listed in the order of their numbers
  Codex,         \* the files of codex, whose repeated keys are dropped
  Contents,      \* [Files -> Seq(Seq(Lines))]: what a file holds, then what replaces it
  Guess,         \* [Files -> Sessions]: guessContainer, the session a name tells
  Sessions, NoSession,
  Keys, NoKey,
  Unembeddable,  \* keys of turns the embedder refuses
  BatchSize,     \* PostBatch
  Limits,        \* what -limit may be; 0 is none
  DryRuns,       \* whether -dry-run may be given
  MaxFaults      \* bound on failures and crashes

Files == 1..FileCount

(* A line may open a session (with the project, which goes the same way) or *)
(* hold a turn, or neither; in either case it lies in a session.            *)
Lines == [opens : BOOLEAN, session : Sessions, key : Keys \cup {NoKey}]

(* The session of the line i; before the first line, what the name tells.   *)
SessionOf(f, g, i) == IF i = 0 THEN Guess[f] ELSE Contents[f][g][i].session

Opens(f, g, i, j) == \E k \in i + 1 .. j : Contents[f][g][k].opens

(* Lines follow the last one that opens a session, a replaced file opens    *)
(* one at once, and codex gives a key in one session only.                  *)
ASSUME CursorSyncAssumption ==
  /\ FileCount \in Nat /\ Codex \subseteq Files
  /\ Guess \in [Files -> Sessions] /\ NoSession \notin Sessions /\ NoKey \notin Keys
  /\ Unembeddable \subseteq Keys /\ BatchSize \in Nat \ {0}
  /\ Limits \subseteq Nat /\ DryRuns \subseteq BOOLEAN /\ MaxFaults \in Nat
  /\ Contents \in [Files -> Seq(Seq(Lines))]
  /\ \A f \in Files : Contents[f] # <<>>
  /\ \A f \in Files : \A g \in DOMAIN Contents[f] :
       /\ \A j \in DOMAIN Contents[f][g] : \A i \in 0 .. j :
            Opens(f, g, i, j) \/ SessionOf(f, g, i) = SessionOf(f, g, j)
       /\ g > 1 => \A i \in DOMAIN Contents[f][g] : Opens(f, g, 0, i)
       /\ f \in Codex =>
            \A i, j \in DOMAIN Contents[f][g] :
              /\ Contents[f][g][i].key = Contents[f][g][j].key
              /\ Contents[f][g][i].key # NoKey
              => SessionOf(f, g, i) = SessionOf(f, g, j)

VARIABLES
  gen, len, torn,  \* the files: which content, its whole lines, a partial one
  saved,           \* the cursor file
  mem,             \* CursorDB, the cursors in memory
  limit, dry,      \* the flags of the process
  left,            \* what is left of the limit in this pass
  listed,          \* files the pass has still to scan
  read,            \* what was read of the file at hand
  pc,              \* what the process does next
  stored,          \* <<session, key>> of the turns the daemon has stored
  faults

files == <<gen, len, torn>>
vars  == <<files, saved, mem, limit, dry, left, listed, read, pc, stored, faults>>

NoCursor == [offset |-> 0, session |-> NoSession]
NoRead   == [file |-> 0, gen |-> 0, from |-> 0, upto |-> 0, full |-> TRUE,
             session |-> NoSession, turns |-> {}, posted |-> {}]

Current == CHOOSE f \in listed : \A g \in listed : f <= g

-----------------------------------------------------------------------------
(* The agents append whole lines or, at times, a part of one.               *)
Write(f) ==
  /\ len[f] < Len(Contents[f][gen[f]])
  /\ len' = [len EXCEPT ![f] = @ + 1]
  /\ torn' = [torn EXCEPT ![f] = FALSE]
  /\ UNCHANGED <<gen, saved, mem, limit, dry, left, listed, read, pc, stored, faults>>

WritePart(f) ==
  /\ len[f] < Len(Contents[f][gen[f]]) /\ ~torn[f]
  /\ torn' = [torn EXCEPT ![f] = TRUE]
  /\ UNCHANGED <<gen, len, saved, mem, limit, dry, left, listed, read, pc, stored, faults>>

(* A file that was synced is replaced by one that stays shorter, so that    *)
(* its size tells: one that reaches the old offset unseen would be read     *)
(* from its middle.                                                         *)
Replace(f) ==
  /\ gen[f] < Len(Contents[f])
  /\ saved[f].offset = len[f] /\ Len(Contents[f][gen[f] + 1]) < len[f]
  /\ gen' = [gen EXCEPT ![f] = @ + 1]
  /\ len' = [len EXCEPT ![f] = 0]
  /\ torn' = [torn EXCEPT ![f] = FALSE]
  /\ UNCHANGED <<saved, mem, limit, dry, left, listed, read, pc, stored, faults>>

-----------------------------------------------------------------------------
(* LoadCursor; the flags hold for the life of the process.                  *)
Start ==
  /\ pc = "stopped"
  /\ mem' = saved
  /\ limit' \in Limits /\ dry' \in DryRuns
  /\ pc' = "list"
  /\ UNCHANGED <<files, saved, left, listed, read, stored, faults>>

(* Once lists the files there are.                                          *)
List ==
  /\ pc = "list"
  /\ listed' = {f \in Files : len[f] > 0 \/ torn[f] \/ gen[f] > 1}
  /\ left' = limit
  /\ pc' = IF listed' = {} THEN "idle" ELSE "stat"
  /\ UNCHANGED <<files, saved, mem, limit, dry, read, stored, faults>>

(* watch goes on to another pass, sync is over.                             *)
Again ==
  /\ pc = "idle"
  /\ pc' = "list"
  /\ UNCHANGED <<files, saved, mem, limit, dry, left, listed, read, stored, faults>>

Exit ==
  /\ pc = "idle"
  /\ pc' = "stopped"
  /\ UNCHANGED <<files, saved, mem, limit, dry, left, listed, read, stored, faults>>

(* The next file, unless the turns of this one used up the limit.           *)
NextFile(turns) ==
  /\ listed' = listed \ {Current}
  /\ left' = IF turns < left THEN left - turns ELSE 0
  /\ pc' = IF listed' = {} \/ (left > 0 /\ left' = 0) THEN "idle" ELSE "stat"
  /\ read' = NoRead

Size(f) == len[f] + (IF torn[f] THEN 1 ELSE 0)

(* Where to read from: from the start once the file got shorter.            *)
StartOffset(f) == IF Size(f) < mem[f].offset THEN 0 ELSE mem[f].offset

(* Mutant: the session in the cursor is not taken up.                       *)
StartSessionGuessed(f) == Guess[f]

StartSession(f) == IF mem[f].session = NoSession THEN Guess[f] ELSE mem[f].session

(* scanFile up to the Seek; a file of the size of the cursor is skipped.    *)
Stat ==
  LET f == Current
  IN /\ pc = "stat"
     /\ IF Size(f) = mem[f].offset
          THEN NextFile(0)
          ELSE /\ read' = [NoRead EXCEPT !.file = f, !.from = StartOffset(f),
                                         !.session = StartSession(f)]
               /\ pc' = "read"
               /\ UNCHANGED <<left, listed>>
     /\ UNCHANGED <<files, saved, mem, limit, dry, stored, faults>>

(* The first n members of a set of line numbers.                            *)
First(n, S) == {i \in S : Cardinality({j \in S : j < i}) < n}

(* The turns of the lines after i up to j; codex drops a key it has seen.   *)
Turns(f, g, i, j) ==
  {k \in i + 1 .. j :
     /\ Contents[f][g][k].key # NoKey
     /\ f \in Codex => \A h \in i + 1 .. k - 1 : Contents[f][g][h].key # Contents[f][g][k].key}

(* ReadTurns consumes the whole lines, if there are any.                    *)
Consumed(f, from) == IF from < len[f] THEN len[f] ELSE from

(* Turns beyond the limit are dropped, and the cursor is then not moved.    *)
Read ==
  LET f == read.file
      all == Turns(f, gen[f], read.from, len[f])
  IN /\ pc = "read"
     /\ read' = [read EXCEPT !.gen = gen[f], !.upto = Consumed(f, read.from),
                             !.full = left = 0 \/ Cardinality(all) <= left,
                             !.turns = IF left = 0 THEN all ELSE First(left, all)]
     /\ pc' = "post"
     /\ UNCHANGED <<files, saved, mem, limit, dry, left, listed, stored, faults>>

(* fileState.Container after the line i: of the last line read that opens   *)
(* a session, or what the read began with.                                  *)
SessionRead(i) ==
  IF Opens(read.file, read.gen, read.from, i)
    THEN SessionOf(read.file, read.gen, i)
    ELSE read.session

KeyRead(i) == Contents[read.file][read.gen][i].key
Batch      == First(BatchSize, read.turns \ read.posted)
Embeds     == \A i \in Batch : KeyRead(i) \notin Unembeddable
Posts      == {<<SessionRead(i), KeyRead(i)>> : i \in Batch}

(* Client.Ingest: a batch is embedded and posted; a dry run does neither.   *)
Post ==
  /\ pc = "post" /\ Batch # {} /\ (Embeds \/ dry)
  /\ stored' = IF dry THEN stored ELSE stored \cup Posts
  /\ read' = [read EXCEPT !.posted = @ \cup Batch]
  /\ UNCHANGED <<files, saved, mem, limit, dry, left, listed, pc, faults>>

(* Mutant: a refused file ends the pass.                                    *)
RefusedEnds ==
  /\ pc = "post" /\ Batch # {} /\ ~Embeds /\ ~dry
  /\ pc' = "idle" /\ listed' = {} /\ read' = NoRead
  /\ UNCHANGED <<files, saved, mem, limit, dry, left, stored, faults>>

(* The embedder refuses a text; the file is left for the next pass, and     *)
(* what was posted of it does not count.                                    *)
Refused ==
  /\ pc = "post" /\ Batch # {} /\ ~Embeds /\ ~dry
  /\ NextFile(0)
  /\ UNCHANGED <<files, saved, mem, limit, dry, stored, faults>>

(* A call fails, perhaps after the daemon has stored the batch.             *)
PostFails ==
  /\ pc = "post" /\ Batch # {} /\ Embeds /\ ~dry /\ faults < MaxFaults
  /\ stored' \in {stored, stored \cup Posts}
  /\ NextFile(0)
  /\ faults' = faults + 1
  /\ UNCHANGED <<files, saved, mem, limit, dry>>

(* Mutant: the cursor is moved past turns that the limit left out.          *)
MovedPastLimit ==
  [mem EXCEPT ![read.file] = [offset |-> read.upto, session |-> SessionRead(read.upto)]]

Moved ==
  IF read.full
    THEN [mem EXCEPT ![read.file] =
            [offset |-> read.upto, session |-> SessionRead(read.upto)]]
    ELSE mem

(* The cursor is moved in memory, and saved if that changed it.             *)
Finish ==
  /\ pc = "post" /\ Batch = {}
  /\ mem' = Moved
  /\ IF mem' = mem
       THEN NextFile(Cardinality(read.turns))
       ELSE pc' = "save" /\ UNCHANGED <<left, listed, read>>
  /\ UNCHANGED <<files, saved, limit, dry, stored, faults>>

(* CursorDB.Save replaces the file by rename.                               *)
Save ==
  /\ pc = "save"
  /\ saved' = mem
  /\ NextFile(Cardinality(read.turns))
  /\ UNCHANGED <<files, mem, limit, dry, stored, faults>>

(* A failed Save ends the process, like a crash.                            *)
Crash ==
  /\ pc # "stopped" /\ faults < MaxFaults
  /\ pc' = "stopped" /\ listed' = {} /\ read' = NoRead
  /\ faults' = faults + 1
  /\ UNCHANGED <<files, saved, mem, limit, dry, left, stored>>

Init ==
  /\ gen = [f \in Files |-> 1] /\ len = [f \in Files |-> 0] /\ torn = [f \in Files |-> FALSE]
  /\ saved = [f \in Files |-> NoCursor] /\ mem = saved
  /\ limit = 0 /\ dry = FALSE /\ left = 0 /\ listed = {} /\ read = NoRead
  /\ pc = "stopped" /\ stored = {} /\ faults = 0

Client == Start \/ List \/ Again \/ Stat \/ Read \/ Post \/ Refused \/ Finish \/ Save
Next ==
  \/ Client \/ Exit \/ PostFails \/ Crash
  \/ \E f \in Files : Write(f) \/ WritePart(f) \/ Replace(f)

(* The process runs, and somebody starts it again.                          *)
Spec == Init /\ [][Next]_vars /\ WF_vars(Client)

-----------------------------------------------------------------------------
Cursors == [offset : Nat, session : Sessions \cup {NoSession}]

(* Every variable is of its type, a file has no more lines than its content *)
(* and only lines that were read are posted.                                *)
TypeOK ==
  /\ gen \in [Files -> Nat] /\ len \in [Files -> Nat] /\ torn \in [Files -> BOOLEAN]
  /\ \A f \in Files : gen[f] \in DOMAIN Contents[f] /\ len[f] <= Len(Contents[f][gen[f]])
  /\ saved \in [Files -> Cursors] /\ mem \in [Files -> Cursors]
  /\ limit \in Nat /\ dry \in BOOLEAN /\ left \in Nat
  /\ listed \subseteq Files
  /\ read \in [file : Nat, gen : Nat, from : Nat, upto : Nat, full : BOOLEAN,
               session : Sessions \cup {NoSession}, turns : SUBSET Nat, posted : SUBSET Nat]
  /\ read.posted \subseteq read.turns
  /\ pc \in {"stopped", "list", "idle", "stat", "read", "post", "save"}
  /\ pc \in {"stat", "read", "post", "save"} => listed # {}
  /\ pc \in {"read", "post", "save"} => read.file = Current
  /\ stored \subseteq Sessions \X Keys
  /\ faults \in Nat

(* The turn of a line, as the file tells it.                                *)
TurnOf(f, g, i) == <<SessionOf(f, g, i), Contents[f][g][i].key>>
HasTurn(f, g, i) == Contents[f][g][i].key # NoKey

(* Every turn of the lines 1 to n is stored, in its own session.            *)
StoredUpTo(f, g, n) == \A i \in 1 .. n : HasTurn(f, g, i) => TurnOf(f, g, i) \in stored

(* What a cursor says: the lines before it need never be read again, and    *)
(* the next one lies in its session unless it opens one.                    *)
Truthful(f, c) ==
  c.offset <= len[f] =>
    /\ StoredUpTo(f, gen[f], c.offset)
    /\ c.offset > 0 => c.session = SessionOf(f, gen[f], c.offset)

(* The cursors, in memory and on disk, never run ahead of what is stored,   *)
(* whatever fails between a post and the save, and however the agents       *)
(* append, cut a line in two or replace a file meanwhile.                   *)
CursorBehind == \A f \in Files : Truthful(f, saved[f]) /\ Truthful(f, mem[f])

(* Every stored turn is one that a file told, in the session it was told    *)
(* in, also when the line that opens the session was read long before.      *)
RightSession ==
  \A t \in stored : \E f \in Files : \E g \in DOMAIN Contents[f] :
    \E i \in DOMAIN Contents[f][g] : t = TurnOf(f, g, i)

(* A file whose turns can all be embedded.                                  *)
Sound(f) ==
  \A g \in DOMAIN Contents[f] : \A i \in DOMAIN Contents[f][g] :
    Contents[f][g][i].key \notin Unembeddable

(* If passes without a limit keep coming, every turn on a whole line of a   *)
(* sound file is stored in the end, beside files that are never accepted.   *)
EveryTurnPosted ==
  []<>(pc = "idle" /\ limit = 0) =>
    <>[](\A f \in Files : Sound(f) => StoredUpTo(f, gen[f], len[f]))
===============================================================================
