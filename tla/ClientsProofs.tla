------------------------------ MODULE ClientsProofs ------------------------------
(***************************************************************************)
(* The programs on an agent's host.  CursorSync: neither cursor ever runs  *)
(* ahead of the daemon, and turns lie in their sessions, for every set of  *)
(* files, limit and number of faults.  TelegramExport: for any chat,       *)
(* calendar and number of mishaps the saved cursor passes only messages    *)
(* that are in a file, but for the losses named in lost.                   *)
(***************************************************************************)
EXTENDS CursorSync, TelegramExport, FiniteSetTheorems, WellFoundedInduction, TLAPS

-----------------------------------------------------------------------------
(* The sync of session files.                                              *)

(***************************************************************************)
(* What a cursor says of the file f that holds n lines of its content g,   *)
(* when S is stored.  A cursor past the end stays there, since the content *)
(* is shorter; and the first content of a file is never shorter.           *)
(***************************************************************************)
Good(f, g, n, S, c) ==
  /\ c.offset <= n =>
       /\ \A i \in 1 .. c.offset : HasTurn(f, g, i) => TurnOf(f, g, i) \in S
       /\ c.offset > 0 => c.session = SessionOf(f, g, c.offset)
  /\ n < c.offset => Len(Contents[f][g]) < c.offset
  /\ g = 1 => c.offset <= n /\ (c.offset = 0 => c.session \in {NoSession, Guess[f]})

Sees(f, c)  == Good(f, gen[f], len[f], stored, c)
ReadStart   == [offset |-> read.from, session |-> read.session]

(* The cursor in memory is not behind the saved one.                        *)
Ahead(f) == saved[f].offset <= len[f] => saved[f].offset <= mem[f].offset

(* They differ only while the cursor is being saved, or after a crash there. *)
Agree == pc \notin {"save", "stopped"} => mem = saved

(* Where the process reads from, it could as well have a cursor.            *)
Reading ==
  pc \in {"read", "post"} =>
    /\ read.session \in Sessions
    /\ pc = "read" => read.posted = {}
    /\ Sees(read.file, ReadStart)
    /\ saved[read.file].offset <= len[read.file] => saved[read.file].offset <= read.from

(* What it has read is still so, or the file has been replaced by a shorter *)
(* one.                                                                     *)
HasRead ==
  pc = "post" =>
    /\ read.from <= read.upto
    /\ read.gen \in DOMAIN Contents[read.file] /\ read.gen <= gen[read.file]
    /\ read.gen = gen[read.file] => read.upto <= len[read.file] \/ read.upto = read.from
    /\ read.gen < gen[read.file] =>
         Len(Contents[read.file][gen[read.file]]) < read.from
    /\ read.from < read.upto => read.upto <= Len(Contents[read.file][read.gen])
    /\ \A i \in read.from + 1 .. read.upto :
         SessionRead(i) = SessionOf(read.file, read.gen, i)
    /\ read.turns \subseteq Turns(read.file, read.gen, read.from, read.upto)
    /\ read.full => read.turns = Turns(read.file, read.gen, read.from, read.upto)
    /\ \A i \in read.posted : TurnOf(read.file, read.gen, i) \in stored

SyncInv ==
  /\ TypeOK /\ IsFiniteSet(read.turns)
  /\ ~dry /\ RightSession
  /\ \A f \in Files : Sees(f, saved[f]) /\ Sees(f, mem[f]) /\ Ahead(f)
  /\ Agree /\ Reading /\ HasRead

-----------------------------------------------------------------------------
(* A nonempty set of numbers has a least one.                               *)
LEMMA LeastNat ==
  ASSUME NEW S, S \subseteq Nat, S # {}
  PROVE  \E x \in S : \A y \in S : x <= y
<1> DEFINE R == OpToRel(<, Nat)
<1>1. IsWellFoundedOn(R, Nat)
  BY NatLessThanWellFounded, Zenon
<1> HIDE DEF R
<1>2. PICK x \in S : \A y \in S : ~(<<y, x>> \in R)
  BY <1>1, WFMin, Zenon
<1>3. \A y \in S : y < x => <<y, x>> \in R
  BY DEF R, OpToRel
<1>4. \A y \in S : ~(y < x)
  BY <1>2, <1>3, Zenon
<1>5. \A y \in S : x <= y
  BY <1>4, SMT
<1>6. QED
  BY <1>5

(* The constants, as the other proofs use them.                             *)
LEMMA Given ==
  /\ FileCount \in Nat /\ BatchSize \in Nat \ {0} /\ MaxFaults \in Nat
  /\ Limits \subseteq Nat /\ NoSession \notin Sessions /\ NoKey \notin Keys
  /\ Codex \subseteq Files /\ Files \subseteq Nat \ {0}
  /\ Guess \in [Files -> Sessions]
  /\ \A f \in Files : Contents[f] \in Seq(Seq(Lines)) /\ 1 \in DOMAIN Contents[f]
BY CursorSyncAssumption DEF CursorSyncAssumption, Files

(* The lines of a content of a file.                                        *)
LEMMA ContentType ==
  ASSUME NEW f \in Files, NEW g \in DOMAIN Contents[f]
  PROVE  /\ g \in Nat \ {0} /\ Contents[f][g] \in Seq(Lines) /\ Len(Contents[f][g]) \in Nat
         /\ \A i \in 1 .. Len(Contents[f][g]) :
              /\ Contents[f][g][i] \in Lines
              /\ SessionOf(f, g, i) \in Sessions
              /\ HasTurn(f, g, i) => Contents[f][g][i].key \in Keys
         /\ SessionOf(f, g, 0) = Guess[f]
<1>1. Contents[f] \in Seq(Seq(Lines)) /\ g \in 1 .. Len(Contents[f])
  BY Given
<1>2. Contents[f][g] \in Seq(Lines) /\ g \in Nat \ {0}
  BY <1>1
<1>3. \A i \in 1 .. Len(Contents[f][g]) : Contents[f][g][i] \in Lines
  BY <1>2
<1>4. QED
  BY <1>2, <1>3 DEF Lines, SessionOf, HasTurn

(* A file grows and more is stored: its cursor stays good.                  *)
LEMMA GoodGrows ==
  ASSUME NEW f \in Files, NEW g \in DOMAIN Contents[f], NEW n \in Nat, NEW m \in Nat,
         NEW S, NEW T, NEW c \in Cursors,
         n <= m, m <= Len(Contents[f][g]), S \subseteq T, Good(f, g, n, S, c)
  PROVE  Good(f, g, m, T, c)
<1>1. c.offset \in Nat /\ Len(Contents[f][g]) \in Nat
  BY ContentType DEF Cursors
<1>2. c.offset <= m => c.offset <= n
  BY <1>1 DEF Good
<1>3. QED
  BY <1>1, <1>2 DEF Good

(* It is replaced by a shorter one than its cursor says.                    *)
LEMMA GoodReplaced ==
  ASSUME NEW f \in Files, NEW g \in DOMAIN Contents[f], NEW S, NEW c \in Cursors,
         g > 1, Len(Contents[f][g]) < c.offset
  PROVE  Good(f, g, 0, S, c)
<1>1. c.offset \in Nat /\ Len(Contents[f][g]) \in Nat /\ g \in Nat
  BY ContentType DEF Cursors
<1>2. QED
  BY <1>1 DEF Good

(* Reading on from a good cursor finds the session of every line.           *)
LEMMA SessionCarried ==
  ASSUME NEW f \in Files, NEW g \in DOMAIN Contents[f], NEW n \in Nat, NEW S,
         NEW c \in Cursors, c.session # NoSession,
         n <= Len(Contents[f][g]), Good(f, g, n, S, c),
         NEW i \in c.offset + 1 .. n
  PROVE  (IF Opens(f, g, c.offset, i) THEN SessionOf(f, g, i) ELSE c.session)
           = SessionOf(f, g, i)
<1>1. c.offset \in Nat /\ c.offset <= n /\ Len(Contents[f][g]) \in Nat /\ g \in Nat \ {0}
  BY ContentType DEF Cursors
<1>2. i \in DOMAIN Contents[f][g] /\ c.offset \in 0 .. i
  BY <1>1, ContentType
<1>3. SUFFICES ASSUME ~Opens(f, g, c.offset, i)
               PROVE  c.session = SessionOf(f, g, i)
  OBVIOUS
<1>4. SessionOf(f, g, c.offset) = SessionOf(f, g, i)
  BY <1>2, <1>3, CursorSyncAssumption DEF CursorSyncAssumption
<1>5. CASE c.offset > 0
  BY <1>1, <1>4, <1>5 DEF Good
<1>6. CASE c.offset = 0
  <2>1. ~(g > 1)
    BY <1>2, <1>3, <1>6, CursorSyncAssumption DEF CursorSyncAssumption
  <2>2. c.session = Guess[f]
    BY <1>1, <1>6, <2>1 DEF Good
  <2>3. QED
    BY <1>4, <1>6, <2>2 DEF SessionOf
<1>7. QED
  BY <1>1, <1>5, <1>6

(* What codex drops is the turn of an earlier line.                         *)
LEMMA TurnsCover ==
  ASSUME NEW f \in Files, NEW g \in DOMAIN Contents[f], NEW i \in Nat, NEW j \in Nat,
         j <= Len(Contents[f][g]), NEW k \in i + 1 .. j, HasTurn(f, g, k)
  PROVE  \E h \in Turns(f, g, i, j) : TurnOf(f, g, h) = TurnOf(f, g, k)
<1>1. CASE f \notin Codex
  BY <1>1 DEF Turns, HasTurn
<1>2. CASE f \in Codex
  <2> DEFINE Same == {h \in i + 1 .. k : Contents[f][g][h].key = Contents[f][g][k].key}
  <2>1. Same \subseteq Nat /\ k \in Same
    OBVIOUS
  <2>2. PICK h \in Same : \A l \in Same : h <= l
    BY <2>1, LeastNat
  <2>3. h \in i + 1 .. j /\ HasTurn(f, g, h)
    BY DEF HasTurn
  <2>4. \A l \in i + 1 .. h - 1 : Contents[f][g][l].key # Contents[f][g][h].key
    <3>1. SUFFICES ASSUME NEW l \in i + 1 .. h - 1,
                          Contents[f][g][l].key = Contents[f][g][h].key
                   PROVE  FALSE
      OBVIOUS
    <3>2. l \in Same /\ l < h
      BY <3>1
    <3>3. QED
      BY <2>1, <2>2, <3>2
  <2>5. h \in Turns(f, g, i, j)
    BY <2>3, <2>4 DEF Turns, HasTurn
  <2>6. h \in DOMAIN Contents[f][g] /\ k \in DOMAIN Contents[f][g]
    BY <2>3, ContentType
  <2>7. SessionOf(f, g, h) = SessionOf(f, g, k)
    BY <1>2, <2>3, <2>6, CursorSyncAssumption DEF CursorSyncAssumption, HasTurn
  <2>8. QED
    BY <2>5, <2>7 DEF TurnOf
<1>3. QED
  BY <1>1, <1>2

(* When all turns of what was read are stored, the cursor may be moved.     *)
LEMMA GoodMoved ==
  ASSUME NEW f \in Files, NEW g \in DOMAIN Contents[f], NEW n \in Nat, NEW m \in Nat, NEW S,
         NEW c \in Cursors, c.session # NoSession,
         m <= Len(Contents[f][g]), c.offset < n, n <= m, Good(f, g, m, S, c),
         \A h \in Turns(f, g, c.offset, n) : TurnOf(f, g, h) \in S,
         NEW s, s = SessionOf(f, g, n)
  PROVE  Good(f, g, m, S, [offset |-> n, session |-> s])
<1>1. c.offset \in Nat /\ c.offset <= m /\ n <= Len(Contents[f][g])
  BY ContentType DEF Cursors
<1>2. ASSUME NEW k \in 1 .. n, HasTurn(f, g, k)
      PROVE  TurnOf(f, g, k) \in S
  <2>1. CASE k <= c.offset
    BY <1>1, <1>2, <2>1 DEF Good
  <2>2. CASE k > c.offset
    <3>1. k \in c.offset + 1 .. n
      BY <1>1, <2>2
    <3>2. PICK h \in Turns(f, g, c.offset, n) : TurnOf(f, g, h) = TurnOf(f, g, k)
      BY <1>1, <1>2, <3>1, TurnsCover
    <3>3. QED
      BY <3>2
  <2>3. QED
    BY <1>1, <2>1, <2>2
<1>3. QED
  BY <1>1, <1>2 DEF Good

-----------------------------------------------------------------------------
(* The file at hand is one of those listed.                                 *)
LEMMA CurrentListed ==
  ASSUME listed \subseteq Files, listed # {}
  PROVE  Current \in listed
<1>1. \E f \in listed : \A g \in listed : f <= g
  BY Given, LeastNat
<1>2. QED
  BY <1>1 DEF Current

LEMMA NoReadTyped ==
  /\ NoRead \in [file : Nat, gen : Nat, from : Nat, upto : Nat, full : BOOLEAN,
                 session : Sessions \cup {NoSession}, turns : SUBSET Nat, posted : SUBSET Nat]
  /\ NoRead.posted \subseteq NoRead.turns /\ IsFiniteSet(NoRead.turns)
BY FS_EmptySet DEF NoRead

(* Going on to the next file.                                               *)
LEMMA NextFileTyped ==
  ASSUME TypeOK, NEW n \in Nat, NextFile(n)
  PROVE  /\ left' \in Nat /\ listed' \subseteq Files /\ read' = NoRead
         /\ pc' \in {"idle", "stat"} /\ (pc' = "stat" => listed' # {})
BY DEF TypeOK, NextFile

LEMMA SyncInitInv == Init => SyncInv
<1> SUFFICES ASSUME Init PROVE SyncInv
  OBVIOUS
<1>1. \A f \in Files : 1 \in DOMAIN Contents[f] /\ Len(Contents[f][1]) \in Nat
  BY Given, ContentType
<1>2. TypeOK /\ IsFiniteSet(read.turns)
  <2>1. /\ read = NoRead
        /\ saved \in [Files -> Cursors] /\ mem \in [Files -> Cursors]
    BY DEF Init, NoCursor, Cursors
  <2>2. \A f \in Files : gen[f] = 1 /\ len[f] = 0
    BY DEF Init
  <2>3. /\ gen \in [Files -> Nat] /\ len \in [Files -> Nat] /\ torn \in [Files -> BOOLEAN]
        /\ limit \in Nat /\ dry \in BOOLEAN /\ left \in Nat /\ listed = {}
        /\ pc = "stopped" /\ stored = {} /\ faults \in Nat
    BY DEF Init
  <2>4. QED
    BY <1>1, <2>1, <2>2, <2>3, NoReadTyped DEF TypeOK
<1>3. ASSUME NEW f \in Files
      PROVE  Sees(f, saved[f]) /\ Sees(f, mem[f]) /\ Ahead(f)
  BY <1>1 DEF Init, Sees, Good, NoCursor, Ahead
<1>4. QED
  BY <1>2, <1>3 DEF Init, SyncInv, RightSession, Agree, Reading, HasRead

-----------------------------------------------------------------------------
(* The agents change a file under a process that may have read it.          *)
LEMMA GrowInv ==
  ASSUME SyncInv, NEW f \in Files, Write(f) \/ WritePart(f)
  PROVE  SyncInv'
<1>1. /\ len' \in [Files -> Nat] /\ torn' \in [Files -> BOOLEAN]
      /\ \A h \in Files : len[h] <= len'[h] /\ len'[h] <= Len(Contents[h][gen[h]])
      /\ UNCHANGED <<gen, saved, mem, limit, dry, left, listed, read, pc, stored, faults>>
  <2>1. /\ gen \in [Files -> Nat] /\ len \in [Files -> Nat] /\ torn \in [Files -> BOOLEAN]
        /\ \A h \in Files : gen[h] \in DOMAIN Contents[h] /\ len[h] <= Len(Contents[h][gen[h]])
    BY DEF SyncInv, TypeOK
  <2>2. \A h \in Files : Len(Contents[h][gen[h]]) \in Nat
    BY <2>1, ContentType
  <2>3. CASE Write(f)
    <3>1. len[f] + 1 <= Len(Contents[f][gen[f]])
      BY <2>1, <2>2, <2>3 DEF Write
    <3>2. \A h \in Files : len'[h] = IF h = f THEN len[f] + 1 ELSE len[h]
      BY <2>1, <2>3 DEF Write
    <3>3. len' \in [Files -> Nat] /\ torn' \in [Files -> BOOLEAN]
      BY <2>1, <2>3 DEF Write
    <3>4. QED
      BY <2>1, <2>3, <3>1, <3>2, <3>3 DEF Write
  <2>4. CASE WritePart(f)
    BY <2>1, <2>4 DEF WritePart
  <2>5. QED
    BY <2>3, <2>4
<1>2. TypeOK' /\ IsFiniteSet(read.turns)' /\ ~dry' /\ RightSession' /\ Agree'
  BY <1>1 DEF SyncInv, Agree, TypeOK, Current, RightSession
<1>3. ASSUME NEW h \in Files, NEW c \in Cursors, Good(h, gen[h], len[h], stored, c)
      PROVE  Good(h, gen[h], len'[h], stored, c)
  <2>1. len[h] \in Nat /\ len'[h] \in Nat /\ gen[h] \in DOMAIN Contents[h]
    BY <1>1 DEF SyncInv, TypeOK
  <2>2. QED
    BY <1>1, <1>3, <2>1, GoodGrows
<1>4. ASSUME NEW h \in Files
      PROVE  (Sees(h, saved[h]) /\ Sees(h, mem[h]) /\ Ahead(h))'
  <2>1. saved[h] \in Cursors /\ mem[h] \in Cursors
    BY DEF SyncInv, TypeOK
  <2>2. Sees(h, saved[h])' /\ Sees(h, mem[h])'
    BY <1>1, <1>3, <2>1 DEF SyncInv, Sees
  <2>3. saved[h].offset <= len'[h] => saved[h].offset <= len[h]
    <3>1. /\ saved[h].offset \in Nat /\ len[h] \in Nat /\ len'[h] \in Nat
          /\ Len(Contents[h][gen[h]]) \in Nat
      BY <1>1, <2>1, ContentType DEF SyncInv, TypeOK, Cursors
    <3>2. len[h] < saved[h].offset => Len(Contents[h][gen[h]]) < saved[h].offset
      BY DEF SyncInv, Sees, Good
    <3>3. QED
      BY <1>1, <3>1, <3>2
  <2>4. QED
    BY <1>1, <2>2, <2>3 DEF SyncInv, Ahead
<1>5. Reading'
  <2>1. SUFFICES ASSUME pc \in {"read", "post"} PROVE Reading'
    BY <1>1 DEF Reading
  <2>2. read.file \in Files /\ ReadStart \in Cursors
    BY <2>1, CurrentListed DEF SyncInv, TypeOK, ReadStart, Cursors
  <2>3. Sees(read.file, ReadStart)'
    BY <1>1, <1>3, <2>1, <2>2 DEF SyncInv, Reading, Sees, ReadStart
  <2>4. saved[read.file].offset <= len'[read.file] => saved[read.file].offset <= len[read.file]
    <3>1. /\ saved[read.file].offset \in Nat /\ len[read.file] \in Nat
          /\ len'[read.file] \in Nat /\ Len(Contents[read.file][gen[read.file]]) \in Nat
      BY <1>1, <2>2, ContentType DEF SyncInv, TypeOK, Cursors
    <3>2. len[read.file] < saved[read.file].offset =>
            Len(Contents[read.file][gen[read.file]]) < saved[read.file].offset
      BY <2>2 DEF SyncInv, Sees, Good
    <3>3. QED
      BY <1>1, <2>2, <3>1, <3>2
  <2>5. QED
    BY <1>1, <2>1, <2>3, <2>4 DEF SyncInv, Reading
<1>6. HasRead'
  <2>1. SUFFICES ASSUME pc = "post" PROVE HasRead'
    BY <1>1 DEF HasRead
  <2>2. read.file \in Files /\ read.upto \in Nat
    BY <2>1, CurrentListed DEF SyncInv, TypeOK
  <2>3. len[read.file] \in Nat /\ len'[read.file] \in Nat /\ len[read.file] <= len'[read.file]
    BY <1>1, <2>2 DEF SyncInv, TypeOK
  <2>4. QED
    BY <1>1, <2>1, <2>2, <2>3 DEF SyncInv, HasRead, SessionRead
<1>7. QED
  BY <1>2, <1>4, <1>5, <1>6 DEF SyncInv

(* A replaced file has fewer lines than every cursor in it says.            *)
LEMMA ReplaceInv ==
  ASSUME SyncInv, NEW f \in Files, Replace(f)
  PROVE  SyncInv'
<1>1. /\ gen[f] \in Nat \ {0} /\ gen[f] + 1 \in DOMAIN Contents[f]
      /\ gen' = [gen EXCEPT ![f] = gen[f] + 1] /\ len' = [len EXCEPT ![f] = 0]
      /\ torn' \in [Files -> BOOLEAN]
      /\ saved[f].offset = len[f] /\ Len(Contents[f][gen[f] + 1]) < len[f]
      /\ UNCHANGED <<saved, mem, limit, dry, left, listed, read, pc, stored, faults>>
  <2>1. gen[f] \in DOMAIN Contents[f] /\ torn \in [Files -> BOOLEAN]
    BY DEF SyncInv, TypeOK
  <2>2. gen[f] \in 1 .. Len(Contents[f])
    BY <2>1, Given
  <2>3. QED
    BY <2>1, <2>2, Given DEF Replace
<1>2. /\ gen' \in [Files -> Nat] /\ len' \in [Files -> Nat]
      /\ gen'[f] = gen[f] + 1 /\ len'[f] = 0
      /\ \A h \in Files : h # f => gen'[h] = gen[h] /\ len'[h] = len[h]
      /\ \A h \in Files : len'[h] <= Len(Contents[h][gen'[h]]) /\ gen'[h] \in DOMAIN Contents[h]
  <2>1. /\ gen \in [Files -> Nat] /\ len \in [Files -> Nat]
        /\ \A h \in Files : gen[h] \in DOMAIN Contents[h] /\ len[h] <= Len(Contents[h][gen[h]])
    BY DEF SyncInv, TypeOK
  <2>2. Len(Contents[f][gen[f] + 1]) \in Nat
    BY <1>1, ContentType
  <2>3. QED
    BY <1>1, <2>1, <2>2
<1>3. TypeOK' /\ IsFiniteSet(read.turns)' /\ ~dry' /\ RightSession' /\ Agree'
  BY ZenonT(30), <1>1, <1>2 DEF SyncInv, Agree, TypeOK, Current, RightSession
<1>4. /\ len[f] \in Nat /\ Len(Contents[f][gen[f] + 1]) \in Nat
      /\ saved[f] \in Cursors /\ mem[f] \in Cursors
      /\ len[f] <= mem[f].offset
  <2>1. len[f] \in Nat /\ saved[f] \in Cursors /\ mem[f] \in Cursors
    BY DEF SyncInv, TypeOK
  <2>2. Len(Contents[f][gen[f] + 1]) \in Nat
    BY <1>1, ContentType
  <2>3. Ahead(f)
    BY DEF SyncInv
  <2>4. QED
    BY <1>1, <2>1, <2>2, <2>3 DEF Ahead
<1>5. ASSUME NEW c \in Cursors, len[f] <= c.offset
      PROVE  Good(f, gen'[f], len'[f], stored, c)
  <2>1. Len(Contents[f][gen[f] + 1]) < c.offset
    BY <1>1, <1>4, <1>5 DEF Cursors
  <2>2. QED
    BY <1>1, <1>2, <2>1, GoodReplaced
<1>6. ASSUME NEW h \in Files
      PROVE  (Sees(h, saved[h]) /\ Sees(h, mem[h]) /\ Ahead(h))'
  <2>1. CASE h = f
    BY <1>1, <1>2, <1>4, <1>5, <2>1 DEF Sees, Ahead, Cursors
  <2>2. CASE h # f
    BY <1>1, <1>2, <2>2 DEF SyncInv, Sees, Ahead
  <2>3. QED
    BY <2>1, <2>2
<1>7. ASSUME pc \in {"read", "post"}
      PROVE  read.file \in Files /\ (read.file = f => len[f] <= read.from)
  BY <1>1, <1>4, <1>7, CurrentListed DEF SyncInv, TypeOK, Reading
<1>8. Reading'
  <2>1. SUFFICES ASSUME pc \in {"read", "post"} PROVE Reading'
    BY <1>1 DEF Reading
  <2>2. ReadStart \in Cursors /\ ReadStart.offset = read.from
    BY DEF SyncInv, TypeOK, ReadStart, Cursors
  <2>3. CASE read.file = f
    <3>1. Good(f, gen'[f], len'[f], stored, ReadStart)
      BY <1>5, <1>7, <2>1, <2>2, <2>3
    <3>2. saved[f].offset <= read.from
      BY <1>1, <1>7, <2>1, <2>3
    <3>3. QED
      BY <1>1, <2>1, <2>3, <3>1, <3>2 DEF SyncInv, Reading, Sees, ReadStart
  <2>4. CASE read.file # f
    BY <1>1, <1>2, <1>7, <2>1, <2>4 DEF SyncInv, Reading, Sees, ReadStart
  <2>5. QED
    BY <2>3, <2>4
<1>9. HasRead'
  <2>1. SUFFICES ASSUME pc = "post" PROVE HasRead'
    BY <1>1 DEF HasRead
  <2>2. CASE read.file = f
    <3>1. read.gen <= gen[f] /\ read.gen \in Nat /\ read.from \in Nat
      BY <2>1, <2>2 DEF SyncInv, TypeOK, HasRead
    <3>2. read.gen < gen'[f] /\ Len(Contents[f][gen'[f]]) < read.from
      BY <1>1, <1>2, <1>4, <1>7, <2>1, <2>2, <3>1
    <3>3. QED
      BY <1>1, <1>2, <2>1, <2>2, <3>1, <3>2 DEF SyncInv, HasRead, SessionRead
  <2>3. CASE read.file # f
    BY <1>1, <1>2, <1>7, <2>1, <2>3 DEF SyncInv, HasRead, SessionRead
  <2>4. QED
    BY <2>2, <2>3
<1>10. QED
  BY <1>3, <1>6, <1>8, <1>9 DEF SyncInv

-----------------------------------------------------------------------------
(* While the files and the daemon stay as they are and the cursors too, only *)
(* what was read matters.                                                    *)
LEMMA QuietInv ==
  ASSUME SyncInv, UNCHANGED <<files, saved, stored>>, mem' \in {mem, saved}, ~dry',
         TypeOK', IsFiniteSet(read.turns)', Agree', Reading', HasRead'
  PROVE  SyncInv'
<1>1. \A f \in Files : (Sees(f, saved[f]) /\ Sees(f, mem[f]) /\ Ahead(f))'
  <2>1. ASSUME NEW f \in Files
        PROVE  (Sees(f, saved[f]) /\ Sees(f, mem[f]) /\ Ahead(f))'
    <3>1. saved[f].offset \in Nat
      BY DEF SyncInv, TypeOK, Cursors
    <3>2. QED
      BY <3>1 DEF SyncInv, Sees, Ahead, files
  <2>2. QED
    BY <2>1
<1>2. QED
  BY <1>1 DEF SyncInv, RightSession, files

(* The steps that read no file.                                              *)
LEMMA IdleInv ==
  ASSUME SyncInv, DryRuns = {FALSE}, Start \/ List \/ Again \/ Exit \/ Crash
  PROVE  SyncInv'
<1>1. /\ UNCHANGED <<files, saved, stored>> /\ mem' \in {mem, saved} /\ ~dry'
      /\ pc' \in {"stopped", "list", "idle", "stat"}
  <2>1. CASE Start
    <3>1. dry' = FALSE
      BY <2>1 DEF Start
    <3>2. UNCHANGED <<files, saved, stored>> /\ mem' = saved /\ pc' = "list"
      BY <2>1 DEF Start
    <3>3. QED
      BY <3>1, <3>2
  <2>2. CASE List \/ Again \/ Exit \/ Crash
    <3>1. dry' = dry /\ ~dry
      BY <2>2 DEF List, Again, Exit, Crash, SyncInv
    <3>2. /\ UNCHANGED <<files, saved, stored>> /\ mem' = mem
          /\ pc' \in {"stopped", "list", "idle", "stat"}
      BY <2>2 DEF List, Again, Exit, Crash
    <3>3. QED
      BY <3>1, <3>2, Zenon
  <2>3. QED
    BY <2>1, <2>2
<1>2. TypeOK' /\ IsFiniteSet(read.turns)'
  <2>1. CASE Start
    BY <2>1, Given DEF Start, SyncInv, TypeOK, files, Current
  <2>2. CASE List
    BY <2>2 DEF List, SyncInv, TypeOK, files, Current
  <2>3. CASE Again \/ Exit
    BY <2>3 DEF Again, Exit, SyncInv, TypeOK, files, Current
  <2>4. CASE Crash
    BY SMTT(30), <2>4, NoReadTyped DEF Crash, SyncInv, TypeOK, files, Current
  <2>5. QED
    BY <2>1, <2>2, <2>3, <2>4
<1>3. Reading' /\ HasRead'
  BY <1>1 DEF Reading, HasRead
<1>4. Agree'
  BY DEF Start, List, Again, Exit, Crash, SyncInv, Agree
<1>5. QED
  BY <1>1, <1>2, <1>3, <1>4, QuietInv

(* A step to the next file leaves what was read.                             *)
LEMMA LeaveInv ==
  ASSUME SyncInv, NEW n \in Nat, NextFile(n), listed # {}, pc \notin {"save", "stopped"},
         UNCHANGED <<files, saved, mem, limit, dry, stored>>, faults' \in Nat
  PROVE  SyncInv'
<1>1. /\ left' \in Nat /\ listed' \subseteq Files /\ read' = NoRead
      /\ pc' \in {"idle", "stat"} /\ (pc' = "stat" => listed' # {})
  BY NextFileTyped DEF SyncInv
<1>2. TypeOK' /\ IsFiniteSet(read.turns)'
  BY <1>1, NoReadTyped DEF SyncInv, TypeOK, files
<1>3. Reading' /\ HasRead' /\ Agree'
  BY <1>1 DEF Reading, HasRead, SyncInv, Agree
<1>4. QED
  BY <1>2, <1>3, QuietInv DEF SyncInv

(* A file is read from where its cursor is, or anew.                         *)
LEMMA StatInv ==
  ASSUME SyncInv, Stat
  PROVE  SyncInv'
<1> DEFINE f == Current
<1>1. pc = "stat" /\ listed # {} /\ f \in Files
  BY CurrentListed DEF Stat, SyncInv, TypeOK
<1>2. CASE Size(f) = mem[f].offset
  <2>1. NextFile(0) /\ UNCHANGED <<files, saved, mem, limit, dry, stored, faults>>
    BY <1>2 DEF Stat
  <2>2. faults \in Nat
    BY DEF SyncInv, TypeOK
  <2>3. QED
    BY <1>1, <2>1, <2>2, LeaveInv
<1>3. CASE Size(f) # mem[f].offset
  <2>1. /\ read' = [NoRead EXCEPT !.file = f, !.from = StartOffset(f),
                                  !.session = StartSession(f)]
        /\ pc' = "read"
        /\ UNCHANGED <<left, listed, files, saved, mem, limit, dry, stored, faults>>
    BY <1>3 DEF Stat
  <2>2. /\ mem[f] \in Cursors /\ saved[f] \in Cursors /\ len[f] \in Nat /\ torn[f] \in BOOLEAN
        /\ gen[f] \in DOMAIN Contents[f] /\ f \in Nat /\ Guess[f] \in Sessions
    BY <1>1, Given DEF SyncInv, TypeOK
  <2>3. StartOffset(f) \in Nat /\ StartSession(f) \in Sessions
    BY <2>2 DEF StartOffset, StartSession, Cursors
  <2>4. /\ read'.file = f /\ read'.from = StartOffset(f) /\ read'.session = StartSession(f)
        /\ read'.turns = {} /\ read'.posted = {}
        /\ read' \in [file : Nat, gen : Nat, from : Nat, upto : Nat, full : BOOLEAN,
                      session : Sessions \cup {NoSession}, turns : SUBSET Nat,
                      posted : SUBSET Nat]
    BY <2>1, <2>2, <2>3 DEF NoRead
  <2>5. TypeOK' /\ IsFiniteSet(read.turns)'
    BY ZenonT(30), <1>1, <2>1, <2>4, FS_EmptySet DEF SyncInv, TypeOK, files, Current
  <2>6. /\ Good(f, gen[f], len[f], stored, mem[f]) /\ Good(f, gen[f], len[f], stored, saved[f])
        /\ Ahead(f)
    BY <1>1 DEF SyncInv, Sees
  <2>7. Good(f, gen[f], len[f], stored, [offset |-> StartOffset(f), session |-> StartSession(f)])
    <3>1. CASE Size(f) < mem[f].offset
      <4>1. len[f] < mem[f].offset
        BY <2>2, <3>1 DEF Size, Cursors
      <4>2. gen[f] # 1
        BY <2>2, <2>6, <4>1 DEF Good, Cursors
      <4>3. StartOffset(f) = 0
        BY <3>1 DEF StartOffset
      <4>4. QED
        BY <2>2, <4>2, <4>3 DEF Good
    <3>2. CASE ~(Size(f) < mem[f].offset)
      <4>1. StartOffset(f) = mem[f].offset
        BY <3>2 DEF StartOffset
      <4>2. CASE mem[f].session # NoSession
        BY <2>2, <2>6, <4>1, <4>2 DEF Good, StartSession
      <4>3. CASE mem[f].session = NoSession
        <5>1. \A i \in 1 .. Len(Contents[f][gen[f]]) : SessionOf(f, gen[f], i) # NoSession
          BY <1>1, <2>2, ContentType, Given
        <5>2. len[f] <= Len(Contents[f][gen[f]]) /\ Len(Contents[f][gen[f]]) \in Nat
          BY <1>1, <2>2, ContentType DEF SyncInv, TypeOK
        <5>3. mem[f].offset = 0 \/ len[f] < mem[f].offset
          BY <2>2, <2>6, <4>3, <5>1, <5>2 DEF Good, Cursors
        <5>4. QED
          BY <2>2, <2>6, <4>1, <4>3, <5>3 DEF Good, StartSession, Cursors
      <4>4. QED
        BY <4>2, <4>3
    <3>3. QED
      BY <3>1, <3>2
  <2>8. saved[f].offset <= len[f] => saved[f].offset <= StartOffset(f)
    <3>1. mem[f] = saved[f]
      BY <1>1 DEF SyncInv, Agree
    <3>2. Size(f) < saved[f].offset => ~(saved[f].offset <= len[f])
      BY <2>2 DEF Size, Cursors
    <3>3. saved[f].offset <= saved[f].offset
      BY <2>2 DEF Cursors
    <3>4. QED
      BY <3>1, <3>2, <3>3 DEF StartOffset
  <2>9. Reading' /\ HasRead'
    BY <1>1, <2>1, <2>3, <2>4, <2>7, <2>8 DEF Reading, HasRead, Sees, ReadStart, files
  <2>10. Agree'
    BY <1>1, <2>1 DEF SyncInv, Agree
  <2>11. QED
    BY <2>1, <2>5, <2>9, <2>10, QuietInv DEF SyncInv
<1>4. QED
  BY <1>2, <1>3

(* Of the lines after the cursor the whole ones are taken.                   *)
LEMMA ReadInv ==
  ASSUME SyncInv, Read
  PROVE  SyncInv'
<1> DEFINE f == read.file
           n == Consumed(f, read.from)
           all == Turns(f, gen[f], read.from, len[f])
<1>1. /\ pc = "read" /\ pc' = "post" /\ listed # {}
      /\ read' = [read EXCEPT !.gen = gen[f], !.upto = n,
                              !.full = left = 0 \/ Cardinality(all) <= left,
                              !.turns = IF left = 0 THEN all ELSE First(left, all)]
      /\ UNCHANGED <<files, saved, mem, limit, dry, left, listed, stored, faults>>
  BY DEF Read, SyncInv, TypeOK
<1>2. /\ f \in Files /\ gen[f] \in DOMAIN Contents[f] /\ gen[f] \in Nat /\ len[f] \in Nat
      /\ len[f] <= Len(Contents[f][gen[f]]) /\ Len(Contents[f][gen[f]]) \in Nat
      /\ read.from \in Nat /\ left \in Nat /\ read.session \in Sessions
  BY <1>1, CurrentListed, ContentType DEF SyncInv, TypeOK, Reading
<1>3. n \in Nat /\ read.from <= n /\ (n <= len[f] \/ n = read.from)
      /\ (read.from < n => n = len[f])
  BY <1>2 DEF Consumed
<1>4. all \subseteq read.from + 1 .. len[f] /\ IsFiniteSet(all)
  <2>1. all \subseteq read.from + 1 .. len[f]
    BY DEF Turns
  <2>2. read.from + 1 \in Int /\ len[f] \in Int
    BY <1>2
  <2>3. IsFiniteSet(read.from + 1 .. len[f])
    BY <2>2, FS_Interval, Zenon
  <2>4. QED
    BY <2>1, <2>3, FS_Subset
<1> DEFINE taken == IF left = 0 THEN all ELSE First(left, all)
<1>5. taken \subseteq all /\ IsFiniteSet(taken)
  <2>1. taken \subseteq all
    BY DEF First
  <2>2. QED
    BY <1>4, <2>1, FS_Subset
<1>6. left = 0 \/ Cardinality(all) <= left => taken = all
  <2>1. SUFFICES ASSUME Cardinality(all) <= left, NEW i \in all
                 PROVE  Cardinality({j \in all : j < i}) < left
    BY DEF First
  <2> DEFINE below == {j \in all : j < i}
  <2>2. below \subseteq all /\ i \notin below
    BY <1>2, <1>4
  <2>3. IsFiniteSet(below) /\ Cardinality(below) <= Cardinality(all)
        /\ (Cardinality(all) = Cardinality(below) => all = below)
    BY <1>4, <2>2, FS_Subset
  <2>4. Cardinality(below) \in Nat /\ Cardinality(all) \in Nat
    BY <1>4, <2>3, FS_CardinalityType
  <2>5. Cardinality(below) # Cardinality(all)
    BY <2>1, <2>2, <2>3
  <2> HIDE DEF below, all
  <2>6. Cardinality(below) < left
    BY <1>2, <2>1, <2>3, <2>4, <2>5
  <2>7. QED
    BY <2>6 DEF below
<1>7. /\ read'.file = f /\ read'.gen = gen[f] /\ read'.from = read.from /\ read'.upto = n
      /\ read'.session = read.session /\ read'.turns = taken /\ read'.posted = {}
      /\ (read'.full => taken = all)
      /\ read' \in [file : Nat, gen : Nat, from : Nat, upto : Nat, full : BOOLEAN,
                    session : Sessions \cup {NoSession}, turns : SUBSET Nat,
                    posted : SUBSET Nat]
  <2>1. read \in [file : Nat, gen : Nat, from : Nat, upto : Nat, full : BOOLEAN,
                  session : Sessions \cup {NoSession}, turns : SUBSET Nat,
                  posted : SUBSET Nat]
        /\ read.posted = {}
    BY <1>1 DEF SyncInv, TypeOK, Reading
  <2>2. taken \in SUBSET Nat
    BY <1>2, <1>4, <1>5
  <2> DEFINE fits == left = 0 \/ Cardinality(all) <= left
  <2>3. /\ read' = [read EXCEPT !.gen = gen[f], !.upto = n, !.full = fits, !.turns = taken]
        /\ (fits => taken = all) /\ fits \in BOOLEAN
    BY <1>1, <1>6
  <2> HIDE DEF f, n, all, taken, fits
  <2>4. QED
    BY <1>2, <1>3, <2>1, <2>2, <2>3 DEF f
<1>8. TypeOK' /\ IsFiniteSet(read.turns)'
  <2> HIDE DEF n, all, taken
  <2>1. QED
    BY <1>1, <1>5, <1>7 DEF SyncInv, TypeOK, files, Current
<1>9. Reading'
  BY <1>1, <1>7 DEF SyncInv, Reading, Sees, ReadStart, files
<1>10. all = Turns(f, gen[f], read.from, n)
  <2>1. CASE read.from < n
    BY <1>3, <2>1
  <2>2. CASE ~(read.from < n)
    <3>1. n = read.from /\ ~(read.from < len[f])
      BY <1>2, <1>3, <2>2 DEF Consumed
    <3>2. read.from + 1 .. len[f] = {} /\ read.from + 1 .. n = {}
      BY <1>2, <3>1
    <3>3. QED
      BY <3>2 DEF Turns
  <2>3. QED
    BY <2>1, <2>2
<1>11. ASSUME NEW i \in read.from + 1 .. n
       PROVE  (SessionRead(i))' = SessionOf(f, gen[f], i)
  <2>1. Good(f, gen[f], len[f], stored, ReadStart)
    BY <1>1 DEF SyncInv, Reading, Sees
  <2>2. ReadStart \in Cursors /\ ReadStart.session # NoSession
        /\ ReadStart.offset = read.from /\ ReadStart.session = read.session
    BY <1>2, Given DEF ReadStart, Cursors
  <2>3. i \in ReadStart.offset + 1 .. len[f]
    BY <1>2, <1>3, <2>2
  <2>4. (IF Opens(f, gen[f], read.from, i) THEN SessionOf(f, gen[f], i) ELSE read.session)
          = SessionOf(f, gen[f], i)
    BY <1>2, <2>1, <2>2, <2>3, SessionCarried
  <2>5. QED
    BY <1>7, <2>4 DEF SessionRead
<1>12. HasRead'
  <2> HIDE DEF n, all, taken
  <2>1. read.from < n => n <= Len(Contents[f][gen[f]])
    BY <1>2, <1>3
  <2>2. QED
    BY <1>1, <1>2, <1>3, <1>5, <1>7, <1>10, <1>11, <2>1 DEF HasRead, files
<1>13. QED
  BY <1>1, <1>8, <1>9, <1>12, QuietInv DEF SyncInv, Agree

(* What a batch posts are turns of the lines that were read.                 *)
LEMMA PostsTold ==
  ASSUME SyncInv, pc = "post"
  PROVE  /\ read.file \in Files /\ read.gen \in DOMAIN Contents[read.file]
         /\ \A i \in read.turns :
              /\ i \in read.from + 1 .. read.upto
              /\ i \in DOMAIN Contents[read.file][read.gen]
              /\ <<SessionRead(i), KeyRead(i)>> = TurnOf(read.file, read.gen, i)
              /\ <<SessionRead(i), KeyRead(i)>> \in Sessions \X Keys
<1> DEFINE f == read.file
           g == read.gen
<1>1. f \in Files /\ g \in DOMAIN Contents[f] /\ read.from \in Nat /\ read.upto \in Nat
  BY CurrentListed DEF SyncInv, TypeOK, HasRead
<1>2. Len(Contents[f][g]) \in Nat /\ Contents[f][g] \in Seq(Lines)
  BY <1>1, ContentType
<1>3. ASSUME NEW i \in read.turns
      PROVE  /\ i \in read.from + 1 .. read.upto /\ i \in DOMAIN Contents[f][g]
             /\ HasTurn(f, g, i) /\ SessionRead(i) = SessionOf(f, g, i)
  <2>1. i \in read.from + 1 .. read.upto /\ HasTurn(f, g, i)
    BY DEF SyncInv, HasRead, Turns, HasTurn
  <2>2. read.from < read.upto /\ read.upto <= Len(Contents[f][g])
    BY <1>1, <2>1 DEF SyncInv, HasRead
  <2>3. i \in DOMAIN Contents[f][g]
    BY <1>1, <1>2, <2>1, <2>2
  <2>4. SessionRead(i) = SessionOf(f, g, i)
    BY <2>1 DEF SyncInv, HasRead
  <2>5. QED
    BY <2>1, <2>3, <2>4
<1>4. ASSUME NEW i \in read.turns
      PROVE  /\ <<SessionRead(i), KeyRead(i)>> = TurnOf(f, g, i)
             /\ SessionRead(i) \in Sessions /\ KeyRead(i) \in Keys
  <2>1. i \in 1 .. Len(Contents[f][g])
    BY <1>2, <1>3
  <2>2. QED
    BY <1>1, <1>3, <2>1, ContentType DEF TurnOf, KeyRead
<1>5. QED
  BY <1>1, <1>3, <1>4

(* More is stored, and it was told.                                          *)
LEMMA StoreInv ==
  ASSUME SyncInv, pc = "post", NEW B, B \subseteq read.turns,
         stored' \in {stored, stored \cup {<<SessionRead(i), KeyRead(i)>> : i \in B}}
  PROVE  /\ stored \subseteq stored' /\ stored' \subseteq Sessions \X Keys
         /\ \A t \in stored' : \E f \in Files : \E g \in DOMAIN Contents[f] :
              \E i \in DOMAIN Contents[f][g] : t = TurnOf(f, g, i)
         /\ \A f \in Files : \A c \in Cursors :
              Good(f, gen[f], len[f], stored, c) => Good(f, gen[f], len[f], stored', c)
<1>1. stored \subseteq stored'
  OBVIOUS
<1>2. stored' \subseteq Sessions \X Keys
  BY SMTT(30), PostsTold DEF SyncInv, TypeOK
<1>3. ASSUME NEW t \in stored'
      PROVE  \E f \in Files : \E g \in DOMAIN Contents[f] :
               \E i \in DOMAIN Contents[f][g] : t = TurnOf(f, g, i)
  <2>1. CASE t \in stored
    BY <2>1 DEF SyncInv, RightSession
  <2>2. CASE t \notin stored
    <3>1. PICK i \in read.turns : t = <<SessionRead(i), KeyRead(i)>>
      BY <1>3, <2>2
    <3>2. QED
      BY <3>1, PostsTold
  <2>3. QED
    BY <2>1, <2>2
<1>4. ASSUME NEW f \in Files, NEW c \in Cursors, Good(f, gen[f], len[f], stored, c)
      PROVE  Good(f, gen[f], len[f], stored', c)
  BY <1>1, <1>4 DEF Good
<1>5. QED
  BY <1>1, <1>2, <1>3, <1>4

LEMMA PostInv ==
  ASSUME SyncInv, Post
  PROVE  SyncInv'
<1>1. /\ pc = "post" /\ stored' = stored \cup Posts
      /\ read' = [read EXCEPT !.posted = @ \cup Batch]
      /\ UNCHANGED <<files, saved, mem, limit, dry, left, listed, pc, faults>>
  BY DEF Post, SyncInv
<1>2. Batch \subseteq read.turns
  BY DEF Batch, First
<1>3. /\ stored \subseteq stored' /\ stored' \subseteq Sessions \X Keys
      /\ \A t \in stored' : \E f \in Files : \E g \in DOMAIN Contents[f] :
           \E i \in DOMAIN Contents[f][g] : t = TurnOf(f, g, i)
      /\ \A f \in Files : \A c \in Cursors :
           Good(f, gen[f], len[f], stored, c) => Good(f, gen[f], len[f], stored', c)
  BY <1>1, <1>2, StoreInv DEF Posts
<1>4. /\ read'.file = read.file /\ read'.gen = read.gen /\ read'.from = read.from
      /\ read'.upto = read.upto /\ read'.full = read.full /\ read'.session = read.session
      /\ read'.turns = read.turns /\ read'.posted = read.posted \cup Batch
      /\ read' \in [file : Nat, gen : Nat, from : Nat, upto : Nat, full : BOOLEAN,
                    session : Sessions \cup {NoSession}, turns : SUBSET Nat,
                    posted : SUBSET Nat]
  <2>1. read \in [file : Nat, gen : Nat, from : Nat, upto : Nat, full : BOOLEAN,
                  session : Sessions \cup {NoSession}, turns : SUBSET Nat,
                  posted : SUBSET Nat]
    BY DEF SyncInv, TypeOK
  <2>2. Batch \subseteq Nat
    BY <1>2, <2>1
  <2> HIDE DEF Batch
  <2>3. QED
    BY <1>1, <2>1, <2>2
<1>5. TypeOK' /\ IsFiniteSet(read.turns)'
  BY <1>1, <1>2, <1>3, <1>4 DEF SyncInv, TypeOK, files, Current
<1>6. RightSession' /\ Agree' /\ ~dry'
  BY <1>1, <1>3 DEF SyncInv, RightSession, Agree
<1>7. \A f \in Files : (Sees(f, saved[f]) /\ Sees(f, mem[f]) /\ Ahead(f))'
  BY <1>1, <1>3 DEF SyncInv, TypeOK, Sees, Ahead, files
<1>8. Reading'
  <2>1. ReadStart \in Cursors /\ read.file \in Files
    BY <1>1, PostsTold DEF SyncInv, TypeOK, ReadStart, Cursors
  <2>2. QED
    BY <1>1, <1>3, <1>4, <2>1 DEF SyncInv, Reading, Sees, ReadStart, files
<1>9. HasRead'
  <2>1. ASSUME NEW i \in read.posted \cup Batch
        PROVE  TurnOf(read.file, read.gen, i) \in stored'
    <3>1. CASE i \in read.posted
      BY <1>1, <1>3, <3>1 DEF SyncInv, HasRead
    <3>2. CASE i \in Batch
      BY <1>1, <1>2, <3>2, PostsTold DEF Posts
    <3>3. QED
      BY <2>1, <3>1, <3>2
  <2>2. QED
    BY <1>1, <1>4, <2>1 DEF SyncInv, HasRead, SessionRead, files
<1>10. QED
  BY <1>5, <1>6, <1>7, <1>8, <1>9 DEF SyncInv

LEMMA PostFailsInv ==
  ASSUME SyncInv, PostFails
  PROVE  SyncInv'
<1>1. /\ pc = "post" /\ stored' \in {stored, stored \cup Posts} /\ NextFile(0)
      /\ UNCHANGED <<files, saved, mem, limit, dry>> /\ faults' = faults + 1
  BY DEF PostFails
<1>2. Batch \subseteq read.turns
  BY DEF Batch, First
<1>3. /\ stored \subseteq stored' /\ stored' \subseteq Sessions \X Keys
      /\ \A t \in stored' : \E f \in Files : \E g \in DOMAIN Contents[f] :
           \E i \in DOMAIN Contents[f][g] : t = TurnOf(f, g, i)
      /\ \A f \in Files : \A c \in Cursors :
           Good(f, gen[f], len[f], stored, c) => Good(f, gen[f], len[f], stored', c)
  BY <1>1, <1>2, StoreInv DEF Posts
<1>4. /\ left' \in Nat /\ listed' \subseteq Files /\ read' = NoRead
      /\ pc' \in {"idle", "stat"} /\ (pc' = "stat" => listed' # {})
  BY <1>1, NextFileTyped DEF SyncInv
<1>5. TypeOK' /\ IsFiniteSet(read.turns)'
  BY SMTT(30), <1>1, <1>3, <1>4, NoReadTyped DEF SyncInv, TypeOK, files
<1>6. RightSession' /\ Agree' /\ ~dry' /\ Reading' /\ HasRead'
  BY <1>1, <1>3, <1>4 DEF SyncInv, RightSession, Agree, Reading, HasRead
<1>7. \A f \in Files : (Sees(f, saved[f]) /\ Sees(f, mem[f]) /\ Ahead(f))'
  BY <1>1, <1>3 DEF SyncInv, TypeOK, Sees, Ahead, files
<1>8. QED
  BY <1>5, <1>6, <1>7 DEF SyncInv

(* No batch is left when every turn was posted.                              *)
LEMMA AllPosted ==
  ASSUME read.turns \subseteq Nat, Batch = {}
  PROVE  read.turns \subseteq read.posted
<1> DEFINE D == read.turns \ read.posted
<1>1. SUFFICES ASSUME D # {} PROVE FALSE
  OBVIOUS
<1>2. PICK i \in D : \A j \in D : i <= j
  BY <1>1, LeastNat
<1>3. {j \in D : j < i} = {}
  BY <1>2
<1>4. Cardinality({j \in D : j < i}) < BatchSize
  <2>1. 0 < BatchSize /\ Cardinality({}) = 0
    BY FS_EmptySet, Given
  <2>2. QED
    BY <1>3, <2>1
<1>5. QED
  BY <1>2, <1>4 DEF Batch, First

(* The cursor that is set after the last batch is good.                      *)
LEMMA MovedGood ==
  ASSUME SyncInv, pc = "post", Batch = {}, read.full
  PROVE  LET c == [offset |-> read.upto, session |-> SessionRead(read.upto)]
         IN /\ c \in Cursors /\ Sees(read.file, c)
            /\ saved[read.file].offset <= len[read.file] =>
                 saved[read.file].offset <= c.offset
<1> DEFINE f == read.file
           g == read.gen
           n == read.upto
           c == [offset |-> n, session |-> SessionRead(n)]
<1>1. /\ f \in Files /\ g \in DOMAIN Contents[f] /\ gen[f] \in DOMAIN Contents[f]
      /\ len[f] \in Nat /\ len[f] <= Len(Contents[f][gen[f]])
      /\ read.from \in Nat /\ n \in Nat /\ read.from <= n /\ saved[f] \in Cursors
  BY PostsTold DEF SyncInv, TypeOK, HasRead
<1>2. /\ Len(Contents[f][g]) \in Nat /\ Len(Contents[f][gen[f]]) \in Nat
      /\ g \in Nat \ {0} /\ gen[f] \in Nat \ {0}
  BY <1>1, ContentType
<1>3. ReadStart \in Cursors /\ ReadStart.session # NoSession /\ read.session \in Sessions
      /\ ReadStart.offset = read.from /\ ReadStart.session = read.session
      /\ Good(f, gen[f], len[f], stored, ReadStart)
  BY <1>1, Given DEF SyncInv, Reading, Sees, ReadStart, Cursors
<1>4. ASSUME ~(read.from < n)
      PROVE  c = ReadStart
  <2>1. n = read.from /\ read.from + 1 .. n = {}
    BY <1>1, <1>4
  <2>2. ~Opens(f, g, read.from, n)
    BY <2>1 DEF Opens
  <2>3. QED
    BY <2>1, <2>2 DEF ReadStart, SessionRead
<1>5. ASSUME read.from < n
      PROVE  n <= Len(Contents[f][g]) /\ c.session = SessionOf(f, g, n) /\ c.session \in Sessions
  <2>1. n <= Len(Contents[f][g])
    BY <1>5 DEF SyncInv, HasRead
  <2>2. n \in read.from + 1 .. n /\ n \in 1 .. Len(Contents[f][g])
    BY <1>1, <1>2, <1>5, <2>1
  <2>3. SessionRead(n) = SessionOf(f, g, n)
    BY <2>2 DEF SyncInv, HasRead
  <2>4. QED
    BY <1>1, <2>1, <2>2, <2>3, ContentType
<1>6. c \in Cursors
  BY <1>1, <1>3, <1>4, <1>5 DEF Cursors
<1>7. Good(f, gen[f], len[f], stored, c)
  <2>1. CASE g = gen[f] /\ read.from < n
    <3>1. n <= len[f]
      BY <1>1, <2>1 DEF SyncInv, HasRead
    <3>2. \A h \in Turns(f, gen[f], read.from, n) : TurnOf(f, gen[f], h) \in stored
      BY <2>1, AllPosted DEF SyncInv, TypeOK, HasRead
    <3>3. c.session = SessionOf(f, gen[f], n)
      BY <1>5, <2>1
    <3>4. QED
      BY <1>1, <1>3, <2>1, <3>1, <3>2, <3>3, GoodMoved
  <2>2. CASE g = gen[f] /\ ~(read.from < n)
    BY <1>3, <1>4, <2>2
  <2>3. CASE g # gen[f]
    <3>1. g < gen[f] /\ Len(Contents[f][gen[f]]) < read.from
      BY <1>2, <2>3 DEF SyncInv, HasRead
    <3>2. len[f] < n /\ Len(Contents[f][gen[f]]) < n /\ gen[f] # 1
      BY SMTT(30), <1>1, <1>2, <3>1
    <3>3. QED
      BY <1>1, <3>2 DEF Good
  <2>4. QED
    BY <2>1, <2>2, <2>3
<1>8. saved[f].offset <= len[f] => saved[f].offset <= n
  BY <1>1 DEF SyncInv, Reading, Cursors
<1>9. QED
  BY <1>6, <1>7, <1>8 DEF Sees

LEMMA FinishInv ==
  ASSUME SyncInv, Finish
  PROVE  SyncInv'
<1>1. /\ pc = "post" /\ Batch = {} /\ mem' = Moved
      /\ UNCHANGED <<files, saved, limit, dry, stored, faults>>
      /\ read.file \in Files /\ listed # {}
  BY PostsTold DEF Finish, SyncInv, TypeOK
<1>2. CASE mem' = mem
  <2>1. Cardinality(read.turns) \in Nat
    BY FS_CardinalityType DEF SyncInv
  <2>2. NextFile(Cardinality(read.turns))
    BY <1>2 DEF Finish
  <2>3. faults' \in Nat
    BY <1>1 DEF SyncInv, TypeOK
  <2>4. QED
    BY <1>1, <1>2, <2>1, <2>2, <2>3, LeaveInv
<1>3. CASE mem' # mem
  <2> DEFINE c == [offset |-> read.upto, session |-> SessionRead(read.upto)]
  <2>1. /\ pc' = "save" /\ UNCHANGED <<left, listed, read>>
        /\ read.full /\ mem' = [mem EXCEPT ![read.file] = c]
    BY <1>1, <1>3 DEF Finish, Moved
  <2>2. /\ c \in Cursors /\ Sees(read.file, c)
        /\ saved[read.file].offset <= len[read.file] =>
             saved[read.file].offset <= c.offset
    BY <1>1, <2>1, MovedGood
  <2> HIDE DEF c
  <2>3. mem' \in [Files -> Cursors] /\ mem'[read.file] = c
        /\ \A h \in Files : h # read.file => mem'[h] = mem[h]
    BY <1>1, <2>1, <2>2 DEF SyncInv, TypeOK
  <2>4. TypeOK' /\ IsFiniteSet(read.turns)'
    BY <1>1, <2>1, <2>3 DEF SyncInv, TypeOK, files, Current
  <2>5. ASSUME NEW h \in Files
        PROVE  (Sees(h, saved[h]) /\ Sees(h, mem[h]) /\ Ahead(h))'
    BY <1>1, <2>2, <2>3 DEF SyncInv, Sees, Ahead, files
  <2>6. RightSession' /\ Agree' /\ ~dry' /\ Reading' /\ HasRead'
    BY <1>1, <2>1 DEF SyncInv, RightSession, Agree, Reading, HasRead
  <2>7. QED
    BY <2>4, <2>5, <2>6 DEF SyncInv
<1>4. QED
  BY <1>2, <1>3

LEMMA SaveInv ==
  ASSUME SyncInv, Save
  PROVE  SyncInv'
<1>1. /\ saved' = mem /\ NextFile(Cardinality(read.turns))
      /\ UNCHANGED <<files, mem, limit, dry, stored, faults>>
  BY DEF Save
<1>2. Cardinality(read.turns) \in Nat
  BY FS_CardinalityType DEF SyncInv
<1>3. /\ left' \in Nat /\ listed' \subseteq Files /\ read' = NoRead
      /\ pc' \in {"idle", "stat"} /\ (pc' = "stat" => listed' # {})
  BY <1>1, <1>2, NextFileTyped DEF SyncInv
<1>4. TypeOK' /\ IsFiniteSet(read.turns)'
  BY <1>1, <1>3, NoReadTyped DEF SyncInv, TypeOK, files
<1>5. RightSession' /\ Agree' /\ ~dry' /\ Reading' /\ HasRead'
  BY <1>1, <1>3 DEF SyncInv, RightSession, Agree, Reading, HasRead
<1>6. ASSUME NEW f \in Files
      PROVE  (Sees(f, saved[f]) /\ Sees(f, mem[f]) /\ Ahead(f))'
  <2>1. mem[f].offset \in Nat
    BY DEF SyncInv, TypeOK, Cursors
  <2>2. QED
    BY <1>1, <2>1 DEF SyncInv, Sees, Ahead, files
<1>7. QED
  BY <1>4, <1>5, <1>6 DEF SyncInv

LEMMA RefusedInv ==
  ASSUME SyncInv, Refused
  PROVE  SyncInv'
<1>1. /\ pc = "post" /\ NextFile(0) /\ listed # {}
      /\ UNCHANGED <<files, saved, mem, limit, dry, stored, faults>> /\ faults \in Nat
  BY DEF Refused, SyncInv, TypeOK
<1>2. QED
  BY <1>1, LeaveInv

-----------------------------------------------------------------------------
LEMMA SyncStepInv ==
  ASSUME DryRuns = {FALSE}
  PROVE  SyncInv /\ [Next]_vars => SyncInv'
<1> SUFFICES ASSUME SyncInv, [Next]_vars PROVE SyncInv'
  OBVIOUS
<1>1. CASE Start \/ List \/ Again \/ Exit \/ Crash
  BY <1>1, IdleInv
<1>2. CASE Stat
  BY <1>2, StatInv
<1>3. CASE Read
  BY <1>3, ReadInv
<1>4. CASE Post
  BY <1>4, PostInv
<1>5. CASE Refused
  BY <1>5, RefusedInv
<1>6. CASE PostFails
  BY <1>6, PostFailsInv
<1>7. CASE Finish
  BY <1>7, FinishInv
<1>8. CASE Save
  BY <1>8, SaveInv
<1>9. CASE \E f \in Files : Write(f) \/ WritePart(f)
  BY <1>9, GrowInv
<1>10. CASE \E f \in Files : Replace(f)
  BY <1>10, ReplaceInv
<1>11. CASE UNCHANGED vars
  BY <1>11 DEF vars, files, SyncInv, TypeOK, RightSession, Sees, Ahead, Agree, Reading,
     ReadStart, HasRead, SessionRead, Current
<1>12. QED
  BY <1>1, <1>2, <1>3, <1>4, <1>5, <1>6, <1>7, <1>8, <1>9, <1>10, <1>11 DEF Next, Client

(* Every variable stays of its type (cmd/tireless/index/sync.go).            *)
THEOREM CursorSyncTyped ==
  ASSUME DryRuns = {FALSE}
  PROVE  Spec => []TypeOK
<1>1. SyncInv => TypeOK
  BY DEF SyncInv
<1>2. SyncInv /\ [Next]_vars => SyncInv'
  BY SyncStepInv
<1>3. QED
  BY <1>1, <1>2, SyncInitInv, PTL DEF Spec

(* Without a dry run no cursor, in memory or saved, is ever ahead of what    *)
(* the daemon has stored (scanFile sets it after its last batch only).       *)
THEOREM CursorNeverAhead ==
  ASSUME DryRuns = {FALSE}
  PROVE  Spec => []CursorBehind
<1>1. SyncInv => CursorBehind
  <2>1. ASSUME NEW f \in Files, NEW c \in Cursors, Sees(f, c)
        PROVE  Truthful(f, c)
    BY <2>1 DEF Sees, Good, Truthful, StoredUpTo
  <2>2. QED
    BY <2>1 DEF SyncInv, TypeOK, CursorBehind
<1>2. SyncInv /\ [Next]_vars => SyncInv'
  BY SyncStepInv
<1>3. QED
  BY <1>1, <1>2, SyncInitInv, PTL DEF Spec

(* Nothing is ever stored but turns of the files, each in its own session,   *)
(* although the line that names the session is read once (parse.go).         *)
THEOREM SessionsKept ==
  ASSUME DryRuns = {FALSE}
  PROVE  Spec => []RightSession
<1>1. SyncInv => RightSession
  BY DEF SyncInv
<1>2. SyncInv /\ [Next]_vars => SyncInv'
  BY SyncStepInv
<1>3. QED
  BY <1>1, <1>2, SyncInitInv, PTL DEF Spec

-----------------------------------------------------------------------------
(* The export of a chat.                                                   *)

Pieces == [lines : Seq(Nat), tail : {"none", "part", "junk"}]

(* What the exporter goes by: all but the objects and the uploader.        *)
ExporterTyped ==
  /\ sent \in Nat /\ mark \in Nat /\ lost \subseteq Nat
  /\ file \in [Months -> Pieces]
  /\ exporter \in [pc : {"idle", "reading", "saving"}, cursor : Nat,
                   month : Months \cup {NoMonth}, buffer : Seq(Messages)]

(* Buffered lines belong to the month whose file is open, and only a run   *)
(* that reads has any.                                                     *)
Buffered ==
  /\ exporter.buffer # <<>> => exporter.pc = "reading" /\ exporter.month \in Months
  /\ \A i \in DOMAIN exporter.buffer : MonthOf[exporter.buffer[i]] = exporter.month

(* What was read is written, lost, or still in the buffer.                 *)
ReadIsKept ==
  exporter.pc # "idle" => \A m \in Wanted : m <= exporter.cursor =>
    Written(file, m) \/ m \in lost \/ m \in ToSet(exporter.buffer)

ExportInv == ExporterTyped /\ Buffered /\ ReadIsKept /\ PassedIsWritten

USE ExportAssumption

-----------------------------------------------------------------------------
(* Flushing.                                                               *)

LEMMA Held ==
  ASSUME NEW s \in Seq(Nat), NEW i \in 1..Len(s)
  PROVE  s[i] \in ToSet(s)
BY DEF ToSet

LEMMA FlushedTyped ==
  ASSUME NEW f \in Pieces, NEW b \in Seq(Messages), NEW n \in 0..Len(b)
  PROVE  Flushed(f, b, n) \in Pieces
<1>1. CASE n = 0
  BY <1>1 DEF Flushed
<1>2. CASE n # 0
  <2>1. SubSeq(b, 1, n) \in Seq(Nat) /\ SubSeq(b, 2, n) \in Seq(Nat)
    BY <1>2 DEF Messages
  <2>2. <<0>> \in Seq(Nat)
    OBVIOUS
  <2> QED
    BY <1>2, <2>1, <2>2 DEF Flushed, Pieces
<1> QED
  BY <1>1, <1>2

(* Lines stay where they are.                                              *)
LEMMA FlushedKeeps ==
  ASSUME NEW f \in Pieces, NEW b \in Seq(Messages), NEW n \in 0..Len(b),
         NEW m, m \in ToSet(f.lines)
  PROVE  m \in ToSet(Flushed(f, b, n).lines)
<1>1. CASE n = 0
  BY <1>1 DEF Flushed
<1>2. CASE n # 0
  <2>1. PICK i \in DOMAIN f.lines : m = f.lines[i]
    BY DEF ToSet
  <2>2. ASSUME NEW s \in Seq(Nat) PROVE m \in ToSet(f.lines \o s)
    <3>1. f.lines \in Seq(Nat) /\ i \in 1..Len(f.lines)
      BY <2>1 DEF Pieces
    <3>2. f.lines \o s \in Seq(Nat) /\ i \in 1..Len(f.lines \o s) /\ (f.lines \o s)[i] = m
      BY <2>1, <3>1
    <3> QED
      BY <3>2, Held
  <2>3. SubSeq(b, 1, n) \in Seq(Nat) /\ <<0>> \o SubSeq(b, 2, n) \in Seq(Nat)
    BY <1>2 DEF Messages
  <2> QED
    BY <1>2, <2>2, <2>3 DEF Flushed
<1> QED
  BY <1>1, <1>2

(* A line that is flushed is in the file, or was appended to junk.         *)
LEMMA FlushedHolds ==
  ASSUME NEW f \in Pieces, NEW b \in Seq(Messages), NEW n \in 0..Len(b), NEW i \in 1..n
  PROVE  b[i] \in ToSet(Flushed(f, b, n).lines) \/ b[i] \in Glued(f, b, n)
<1> DEFINE s == IF f.tail = "junk" THEN <<0>> \o SubSeq(b, 2, n) ELSE SubSeq(b, 1, n)
<1>0. n > 0 /\ n # 0
  OBVIOUS
<1>1. Flushed(f, b, n).lines = f.lines \o s
  BY <1>0 DEF Flushed
<1>2. SubSeq(b, 1, n) \in Seq(Nat) /\ SubSeq(b, 2, n) \in Seq(Nat)
  BY DEF Messages
<1>3. s \in Seq(Nat) /\ Len(s) = n
  BY <1>0, <1>2 DEF Messages
<1>4. CASE f.tail = "junk" /\ i = 1
  BY <1>0, <1>4 DEF Glued
<1>5. CASE ~(f.tail = "junk" /\ i = 1)
  <2>1. s[i] = b[i]
    BY <1>0, <1>2, <1>5 DEF Messages
  <2>2. Len(f.lines) + i \in DOMAIN (f.lines \o s) /\ (f.lines \o s)[Len(f.lines) + i] = s[i]
    BY <1>3 DEF Pieces
  <2> HIDE DEF s
  <2> QED
    BY <1>1, <2>1, <2>2 DEF ToSet
<1> QED
  BY <1>4, <1>5

LEMMA GluedTyped ==
  ASSUME NEW f \in Pieces, NEW b \in Seq(Messages), NEW n \in 0..Len(b)
  PROVE  Glued(f, b, n) \subseteq Nat
<1>1. n > 0 => b # <<>>
  OBVIOUS
<1>2. b # <<>> => Head(b) \in Nat
  BY DEF Messages
<1> QED
  BY <1>1, <1>2 DEF Glued

LEMMA SuffixHolds ==
  ASSUME NEW b \in Seq(Messages), NEW n \in 0..Len(b)
  PROVE  /\ SubSeq(b, n + 1, Len(b)) \in Seq(Messages)
         /\ DOMAIN SubSeq(b, n + 1, Len(b)) = 1..(Len(b) - n)
         /\ \A i \in 1..(Len(b) - n) : SubSeq(b, n + 1, Len(b))[i] = b[n + i]
         /\ \A i \in 1..Len(b) : i \notin 1..n =>
              i - n \in 1..(Len(b) - n) /\ SubSeq(b, n + 1, Len(b))[i - n] = b[i]
OBVIOUS

LEMMA PartlyFlushed ==
  ASSUME NEW f \in Pieces, NEW b \in Seq(Messages), NEW n \in 0..Len(b),
         NEW g \in Partly(f, b, n)
  PROVE  /\ g \in Pieces /\ g.lines = Flushed(f, b, n).lines
         /\ Left(g) \in Pieces /\ Left(g).lines = g.lines
<1>1. Flushed(f, b, n) \in Pieces
  BY FlushedTyped
<1> QED
  BY <1>1 DEF Partly, Left, Pieces

(* The open file is replaced by one that has n lines of the buffer more.   *)
LEMMA FileGrows ==
  ASSUME ExportInv, exporter.month \in Months, NEW n \in 0..All, NEW g \in Pieces,
         g.lines = Flushed(OpenFile, exporter.buffer, n).lines,
         file' = [file EXCEPT ![exporter.month] = g]
  PROVE  /\ file' \in [Months -> Pieces]
         /\ \A m \in Wanted : Written(file, m) => Written(file', m)
         /\ \A i \in 1..n : Written(file', exporter.buffer[i])
                              \/ exporter.buffer[i] \in Glued(OpenFile, exporter.buffer, n)
<1>1. /\ file \in [Months -> Pieces] /\ OpenFile \in Pieces
      /\ exporter.buffer \in Seq(Messages) /\ n \in 0..Len(exporter.buffer)
  BY DEF ExportInv, ExporterTyped, OpenFile, All
<1>2. ASSUME NEW m \in Wanted, Written(file, m) PROVE Written(file', m)
  <2>1. MonthOf[m] \in Months
    OBVIOUS
  <2>2. CASE MonthOf[m] = exporter.month
    BY <1>1, <1>2, <2>1, <2>2, FlushedKeeps DEF Written, OpenFile
  <2>3. CASE MonthOf[m] # exporter.month
    BY <1>1, <1>2, <2>1, <2>3 DEF Written
  <2> QED
    BY <2>2, <2>3
<1>3. ASSUME NEW i \in 1..n
      PROVE  Written(file', exporter.buffer[i])
             \/ exporter.buffer[i] \in Glued(OpenFile, exporter.buffer, n)
  <2>1. exporter.buffer[i] \in ToSet(g.lines)
        \/ exporter.buffer[i] \in Glued(OpenFile, exporter.buffer, n)
    BY <1>1, FlushedHolds
  <2>2. MonthOf[exporter.buffer[i]] = exporter.month
    BY <1>1 DEF ExportInv, Buffered
  <2> QED
    BY <1>1, <2>1, <2>2 DEF Written
<1> QED
  BY <1>1, <1>2, <1>3

(* And when all of it is there, or lost, what was read is.                 *)
LEMMA BufferKept ==
  ASSUME ExportInv, exporter.pc = "reading", exporter.month \in Months,
         file' = [file EXCEPT ![exporter.month] = Flushed(@, exporter.buffer, All)],
         lost' = lost \cup Glued(OpenFile, exporter.buffer, All)
  PROVE  /\ file' \in [Months -> Pieces] /\ lost' \subseteq Nat
         /\ \A m \in Wanted : Written(file, m) => Written(file', m)
         /\ \A m \in Wanted : m <= exporter.cursor => Written(file', m) \/ m \in lost'
<1>1. /\ OpenFile \in Pieces /\ exporter.buffer \in Seq(Messages)
      /\ All \in 0..All /\ All = Len(exporter.buffer) /\ lost \subseteq Nat
  BY DEF ExportInv, ExporterTyped, OpenFile, All
<1>2. Flushed(OpenFile, exporter.buffer, All) \in Pieces
  BY <1>1, FlushedTyped
<1>3. /\ file' \in [Months -> Pieces]
      /\ \A m \in Wanted : Written(file, m) => Written(file', m)
      /\ \A i \in 1..All : Written(file', exporter.buffer[i])
                             \/ exporter.buffer[i] \in Glued(OpenFile, exporter.buffer, All)
  <2>1. file' = [file EXCEPT ![exporter.month] = Flushed(OpenFile, exporter.buffer, All)]
    BY DEF OpenFile
  <2> QED
    BY <1>1, <1>2, <2>1, FileGrows
<1>4. lost' \subseteq Nat
  BY <1>1, GluedTyped
<1>5. ASSUME NEW m \in Wanted, m <= exporter.cursor
      PROVE  Written(file', m) \/ m \in lost'
  <2>1. CASE m \in ToSet(exporter.buffer)
    <3>1. PICK i \in 1..All : m = exporter.buffer[i]
      BY <1>1, <2>1 DEF ToSet
    <3> QED
      BY <1>3, <3>1
  <2>2. CASE m \notin ToSet(exporter.buffer)
    BY <1>3, <1>5, <2>2 DEF ExportInv, ReadIsKept
  <2> QED
    BY <2>1, <2>2
<1> QED
  BY <1>3, <1>4, <1>5 DEF ExportInv
-----------------------------------------------------------------------------
(* The steps.                                                              *)

LEMMA ExportInitInv == ASSUME ExportInit PROVE ExportInv
<1>1. NoFile \in Pieces /\ <<>> \in Seq(Messages)
  BY DEF NoFile, Pieces
<1>2. ExporterTyped
  BY <1>1 DEF ExportInit, ExporterTyped, NoRun, NoMonth
<1>3. Buffered /\ ReadIsKept
  BY DEF ExportInit, Buffered, ReadIsKept, NoRun
<1>4. PassedIsWritten
  BY DEF ExportInit, PassedIsWritten, Messages
<1> QED
  BY <1>2, <1>3, <1>4 DEF ExportInv

(* Nothing that counts is taken away.                                      *)
LEMMA PassedKept ==
  ASSUME ExportInv, mark' = mark, lost \subseteq lost',
         \A m \in Wanted : Written(file, m) => Written(file', m)
  PROVE  PassedIsWritten'
<1>1. \A m \in Wanted : m <= mark => Written(file, m) \/ m \in lost
  BY DEF ExportInv, PassedIsWritten
<1>2. \A m \in Wanted : m <= mark' => Written(file', m) \/ m \in lost'
  BY <1>1
<1> QED
  BY <1>2 DEF PassedIsWritten, Written

LEMMA FlushInv == ASSUME ExportInv, Flush PROVE ExportInv'
<1> DEFINE b == exporter.buffer
<1>0. PICK n \in 0..All : \E f \in Partly(OpenFile, b, n) :
        /\ file' = [file EXCEPT ![exporter.month] = f]
        /\ lost' = lost \cup Glued(OpenFile, b, n)
        /\ exporter' = [exporter EXCEPT !.buffer = SubSeq(@, n + 1, All)]
  BY DEF Flush
<1>1. PICK f \in Partly(OpenFile, b, n) : file' = [file EXCEPT ![exporter.month] = f]
  BY <1>0
<1>2. /\ exporter.pc = "reading" /\ exporter.month \in Months /\ UNCHANGED <<sent, mark>>
      /\ lost' = lost \cup Glued(OpenFile, b, n) /\ lost \subseteq Nat
      /\ exporter' = [exporter EXCEPT !.buffer = SubSeq(b, n + 1, All)]
      /\ b \in Seq(Messages) /\ n \in 0..Len(b) /\ All = Len(b)
  BY <1>0 DEF Flush, ExportInv, Buffered, ExporterTyped, All
<1>3. DOMAIN b = 1..All
  BY <1>2
<1>4. OpenFile \in Pieces
  BY <1>2 DEF ExportInv, ExporterTyped, OpenFile
<1>5. f \in Pieces /\ f.lines = Flushed(OpenFile, b, n).lines
  BY <1>1, <1>2, <1>4, PartlyFlushed
<1>6. /\ file' \in [Months -> Pieces]
      /\ \A m \in Wanted : Written(file, m) => Written(file', m)
      /\ \A i \in 1..n : Written(file', b[i]) \/ b[i] \in Glued(OpenFile, b, n)
  BY <1>1, <1>2, <1>5, FileGrows
<1>7. /\ SubSeq(b, n + 1, All) \in Seq(Messages)
      /\ DOMAIN SubSeq(b, n + 1, All) = 1..(All - n)
      /\ \A i \in 1..(All - n) : SubSeq(b, n + 1, All)[i] = b[n + i]
      /\ \A i \in 1..All : i \notin 1..n =>
           i - n \in 1..(All - n) /\ SubSeq(b, n + 1, All)[i - n] = b[i]
  BY ZenonT(30), <1>2, SuffixHolds
<1>8. exporter'.buffer = SubSeq(b, n + 1, All) /\ exporter'.pc = "reading"
      /\ exporter'.month = exporter.month /\ exporter'.cursor = exporter.cursor
  BY <1>2 DEF ExportInv, ExporterTyped
<1>9. ExporterTyped'
  <2>1. lost' \subseteq Nat
    BY <1>2, <1>4, GluedTyped
  <2> QED
    BY <1>2, <1>6, <1>7, <2>1 DEF ExportInv, ExporterTyped
<1>10. Buffered'
  <2>0. DOMAIN b = 1..All /\ \A i \in DOMAIN b : MonthOf[b[i]] = exporter.month
    BY <1>3 DEF ExportInv, Buffered
  <2>1. \A i \in 1..(All - n) : MonthOf[b[n + i]] = exporter.month
    <3>1. \A i \in 1..(All - n) : n + i \in 1..All
      BY <1>2
    <3> QED
      BY <2>0, <3>1
  <2> QED
    <3>1. DOMAIN exporter'.buffer = 1..(All - n)
      BY <1>7, <1>8
    <3>2. \A i \in 1..(All - n) : exporter'.buffer[i] = b[n + i]
      BY <1>7, <1>8
    <3>3. \A i \in DOMAIN exporter'.buffer : MonthOf[exporter'.buffer[i]] = exporter'.month
      <4>1. ASSUME NEW i \in 1..(All - n)
            PROVE  MonthOf[exporter'.buffer[i]] = exporter.month
        BY <2>1, <3>2
      <4> QED
        BY <1>8, <3>1, <4>1
    <3>4. exporter'.pc = "reading" /\ exporter'.month \in Months
      BY <1>2, <1>8
    <3> QED
      BY <3>3, <3>4 DEF Buffered
<1>11. ReadIsKept'
  <2>1. SUFFICES ASSUME NEW m \in Wanted, m <= exporter.cursor
                 PROVE  Written(file', m) \/ m \in lost' \/ m \in ToSet(exporter'.buffer)
    BY <1>8 DEF ReadIsKept, Written
  <2>2. Written(file, m) \/ m \in lost \/ m \in ToSet(b)
    BY <1>2, <2>1 DEF ExportInv, ReadIsKept
  <2>3. CASE m \in ToSet(b)
    <3>1. PICK i \in 1..All : m = b[i]
      BY <1>3, <2>3 DEF ToSet
    <3>2. CASE i \in 1..n
      BY <1>2, <1>6, <3>1, <3>2
    <3>3. CASE i \notin 1..n
      <4>1. i - n \in 1..(All - n) /\ SubSeq(b, n + 1, All)[i - n] = b[i]
        BY <1>7, <3>3
      <4> QED
        BY <1>7, <1>8, <3>1, <4>1 DEF ToSet
    <3> QED
      BY <3>2, <3>3
  <2> QED
    BY <1>2, <1>6, <2>2, <2>3
<1>12. PassedIsWritten'
  BY <1>2, <1>6, PassedKept
<1> QED
  BY <1>9, <1>10, <1>11, <1>12 DEF ExportInv

LEMMA BeginInv == ASSUME ExportInv, Begin PROVE ExportInv'
<1>1. /\ exporter' = [pc |-> "reading", cursor |-> mark, month |-> NoMonth, buffer |-> <<>>]
      /\ lost' = lost \cap 1..mark /\ UNCHANGED <<sent, mark, file>>
  BY DEF Begin, NoRun
<1>2. <<>> \in Seq(Messages)
  OBVIOUS
<1>3. ExporterTyped' /\ Buffered'
  BY <1>1, <1>2 DEF ExportInv, ExporterTyped, Buffered
<1>4. \A m \in Wanted : m <= mark => Written(file, m) \/ m \in lost'
  BY <1>1 DEF ExportInv, ExporterTyped, PassedIsWritten, Messages
<1>5. ReadIsKept' /\ PassedIsWritten'
  BY <1>1, <1>4 DEF ReadIsKept, PassedIsWritten, Written
<1> QED
  BY <1>3, <1>5 DEF ExportInv

LEMMA ReadMessageInv == ASSUME ExportInv, ReadMessage PROVE ExportInv'
<1> DEFINE m == exporter.cursor + 1
           b == exporter.buffer
<1>0. /\ exporter.pc = "reading" /\ UNCHANGED <<sent, mark>> /\ m \in Nat
      /\ b \in Seq(Messages)
  BY DEF ReadMessage, ExportInv, ExporterTyped
<1>1. CASE m \notin Wanted
  <2>1. exporter' = [exporter EXCEPT !.cursor = m] /\ UNCHANGED <<file, lost>>
    BY <1>1 DEF ReadMessage
  <2>2. ExporterTyped' /\ Buffered'
    BY <1>0, <2>1 DEF ExportInv, ExporterTyped, Buffered
  <2>3. \A x \in Wanted : x <= m => x <= exporter.cursor
    BY <1>1 DEF ExportInv, ExporterTyped, Messages
  <2>4. ReadIsKept'
    BY <1>0, <2>1, <2>3 DEF ExportInv, ExporterTyped, ReadIsKept, Written
  <2> QED
    BY <1>0, <2>1, <2>2, <2>4 DEF ExportInv, PassedIsWritten, Written
<1>2. CASE m \in Wanted /\ MonthOf[m] = exporter.month
  <2>1. exporter' = [exporter EXCEPT !.cursor = m, !.buffer = Append(b, m)]
        /\ UNCHANGED <<file, lost>>
    BY <1>2 DEF ReadMessage, ExportInv, ExporterTyped, NoMonth, Months
  <2>2. /\ Append(b, m) \in Seq(Messages) /\ Len(Append(b, m)) = Len(b) + 1
        /\ Append(b, m)[Len(b) + 1] = m /\ \A i \in 1..Len(b) : Append(b, m)[i] = b[i]
    BY <1>0, <1>2
  <2>3. /\ exporter'.buffer = Append(b, m) /\ exporter'.pc = "reading"
        /\ exporter'.month = exporter.month /\ exporter'.cursor = m
    BY <1>0, <2>1 DEF ExportInv, ExporterTyped
  <2>4. ExporterTyped'
    BY <1>0, <2>1, <2>2 DEF ExportInv, ExporterTyped
  <2>5. Buffered'
    <3>1. exporter.month \in Months
      BY <1>2
    <3>2. \A i \in 1..(Len(b) + 1) : MonthOf[Append(b, m)[i]] = exporter.month
      BY <1>0, <1>2, <2>2 DEF ExportInv, Buffered
    <3> QED
      BY <2>2, <2>3, <3>1, <3>2 DEF Buffered
  <2>6. \A x \in ToSet(b) \cup {m} : x \in ToSet(Append(b, m))
    BY <1>0, <2>2 DEF ToSet
  <2>7. \A x \in Wanted : x <= m => x <= exporter.cursor \/ x = m
    BY DEF ExportInv, ExporterTyped, Messages
  <2>8. ReadIsKept'
    BY <1>0, <2>1, <2>3, <2>6, <2>7 DEF ExportInv, ReadIsKept, Written
  <2> QED
    BY <1>0, <2>1, <2>4, <2>5, <2>8 DEF ExportInv, PassedIsWritten, Written
<1>3. CASE m \in Wanted /\ MonthOf[m] # exporter.month
  <2>1. exporter' = [exporter EXCEPT !.cursor = m, !.month = MonthOf[m], !.buffer = <<m>>]
    BY <1>3 DEF ReadMessage
  <2>2. /\ exporter'.buffer = <<m>> /\ exporter'.pc = "reading"
        /\ exporter'.month = MonthOf[m] /\ exporter'.cursor = m
    BY <1>0, <2>1 DEF ExportInv, ExporterTyped
  <2>3. <<m>> \in Seq(Messages) /\ MonthOf[m] \in Months
    BY <1>3
  <2>4. Buffered'
    BY <2>2, <2>3 DEF Buffered
  <2>5. \A x \in Wanted : x <= m => x <= exporter.cursor \/ x = m
    BY DEF ExportInv, ExporterTyped, Messages
  <2>6. m \in ToSet(<<m>>)
    BY DEF ToSet
  <2>7. /\ file' \in [Months -> Pieces] /\ lost' \subseteq Nat /\ lost \subseteq lost'
        /\ \A x \in Wanted : Written(file, x) => Written(file', x)
        /\ \A x \in Wanted : x <= exporter.cursor => Written(file', x) \/ x \in lost'
    <3>1. CASE exporter.month = NoMonth
      <4>1. UNCHANGED <<file, lost>>
        BY <1>3, <3>1 DEF ReadMessage
      <4>2. b = <<>>
        BY <3>1 DEF ExportInv, Buffered, NoMonth, Months
      <4>3. ToSet(b) = {}
        BY <4>2 DEF ToSet
      <4> QED
        BY <1>0, <4>1, <4>3 DEF ExportInv, ExporterTyped, ReadIsKept
    <3>2. CASE exporter.month # NoMonth
      <4>1. /\ file' = [file EXCEPT ![exporter.month] = Flushed(@, b, All)]
            /\ lost' = lost \cup Glued(OpenFile, b, All) /\ exporter.month \in Months
        BY <1>3, <3>2 DEF ReadMessage, ExportInv, ExporterTyped
      <4> QED
        BY <1>0, <4>1, BufferKept
    <3> QED
      BY <3>1, <3>2
  <2>8. ExporterTyped'
    BY <1>0, <2>1, <2>3, <2>7 DEF ExportInv, ExporterTyped
  <2>9. ReadIsKept'
    BY <2>2, <2>5, <2>6, <2>7 DEF ReadIsKept, Written
  <2> QED
    BY <1>0, <2>4, <2>7, <2>8, <2>9, PassedKept DEF ExportInv
<1> QED
  BY <1>1, <1>2, <1>3

LEMMA CloseInv == ASSUME ExportInv, Close PROVE ExportInv'
<1>1. /\ exporter.pc = "reading" /\ UNCHANGED <<sent, mark>>
      /\ exporter' = [exporter EXCEPT !.pc = "saving", !.month = NoMonth, !.buffer = <<>>]
  BY DEF Close
<1>2. /\ exporter'.buffer = <<>> /\ exporter'.cursor = exporter.cursor
      /\ <<>> \in Seq(Messages)
  BY <1>1 DEF ExportInv, ExporterTyped
<1>3. /\ file' \in [Months -> Pieces] /\ lost' \subseteq Nat /\ lost \subseteq lost'
      /\ \A x \in Wanted : Written(file, x) => Written(file', x)
      /\ \A x \in Wanted : x <= exporter.cursor => Written(file', x) \/ x \in lost'
  <2>1. CASE exporter.month = NoMonth
    <3>1. UNCHANGED <<file, lost>>
      BY <2>1 DEF Close
    <3>2. exporter.buffer = <<>>
      BY <2>1 DEF ExportInv, Buffered, NoMonth, Months
    <3>3. ToSet(exporter.buffer) = {}
      BY <3>2 DEF ToSet
    <3> QED
      BY <1>1, <3>1, <3>3 DEF ExportInv, ExporterTyped, ReadIsKept
  <2>2. CASE exporter.month # NoMonth
    <3>1. /\ file' = [file EXCEPT ![exporter.month] = Flushed(@, exporter.buffer, All)]
          /\ lost' = lost \cup Glued(OpenFile, exporter.buffer, All)
          /\ exporter.month \in Months
      BY <2>2 DEF Close, ExportInv, ExporterTyped
    <3> QED
      BY <1>1, <3>1, BufferKept
  <2> QED
    BY <2>1, <2>2
<1>4. ExporterTyped'
  BY <1>1, <1>2, <1>3 DEF ExportInv, ExporterTyped
<1>5. Buffered' /\ ReadIsKept'
  BY <1>2, <1>3 DEF Buffered, ReadIsKept, Written
<1> QED
  BY <1>1, <1>3, <1>4, <1>5, PassedKept DEF ExportInv

(* A failure: some of the buffer is written, and nothing forgotten.        *)
LEMMA OverflowKeeps ==
  ASSUME ExportInv, NEW n \in Nat, NEW f, Overflow(n, f)
  PROVE  /\ exporter.pc = "reading" /\ exporter.month \in Months
         /\ n \in 0..All /\ OpenFile \in Pieces /\ All = Len(exporter.buffer)
         /\ exporter.buffer \in Seq(Messages) /\ sent' = sent
         /\ file' \in [Months -> Pieces]
         /\ \A m \in Wanted : Written(file, m) => Written(file', m)
         /\ \A i \in 1..n : Written(file', exporter.buffer[i])
                              \/ exporter.buffer[i] \in Glued(OpenFile, exporter.buffer, n)
<1>1. /\ exporter.pc = "reading" /\ exporter.month \in Months /\ sent' = sent
      /\ exporter.buffer \in Seq(Messages) /\ n \in 0..All /\ All = Len(exporter.buffer)
      /\ f \in Partly(OpenFile, exporter.buffer, n)
      /\ file' = [file EXCEPT ![exporter.month] = Left(f)]
  BY DEF Overflow, ExportInv, Buffered, ExporterTyped, All
<1>2. OpenFile \in Pieces
  BY <1>1 DEF ExportInv, ExporterTyped, OpenFile
<1>3. Left(f) \in Pieces /\ Left(f).lines = Flushed(OpenFile, exporter.buffer, n).lines
  BY <1>1, <1>2, PartlyFlushed
<1> QED
  BY <1>1, <1>2, <1>3, FileGrows

LEMMA CloseFailsInv == ASSUME ExportInv, NEW n \in Nat, NEW f, CloseFails(n, f) PROVE ExportInv'
<1>1. /\ exporter' = [pc |-> "idle", cursor |-> 0, month |-> NoMonth, buffer |-> <<>>]
      /\ lost' = lost \cup Glued(OpenFile, exporter.buffer, n) /\ mark' = mark
      /\ Overflow(n, f)
  BY DEF CloseFails, NoRun
<1>2. /\ file' \in [Months -> Pieces] /\ sent' = sent
      /\ \A m \in Wanted : Written(file, m) => Written(file', m)
  BY <1>1, OverflowKeeps
<1>3. lost' \subseteq Nat
  BY <1>1, OverflowKeeps, GluedTyped DEF ExportInv, ExporterTyped
<1>4. ExporterTyped' /\ Buffered' /\ ReadIsKept'
  BY <1>1, <1>2, <1>3 DEF ExportInv, ExporterTyped, Buffered, ReadIsKept
<1> QED
  BY <1>1, <1>2, <1>4, PassedKept DEF ExportInv

LEMMA DroppedInv == ASSUME ExportInv, NEW n \in Nat, NEW f, Dropped(n, f) PROVE ExportInv'
<1> DEFINE b == exporter.buffer
<1>1. /\ exporter' = [pc |-> "saving", cursor |-> exporter.cursor, month |-> NoMonth,
                      buffer |-> <<>>]
      /\ lost' = lost \cup Glued(OpenFile, b, n) \cup ToSet(SubSeq(b, n + 1, All))
      /\ mark' = mark /\ Overflow(n, f)
  BY DEF Dropped, NoRun
<1>2. /\ exporter.pc = "reading" /\ n \in 0..All /\ OpenFile \in Pieces /\ b \in Seq(Messages)
      /\ All = Len(b) /\ file' \in [Months -> Pieces] /\ sent' = sent
      /\ \A m \in Wanted : Written(file, m) => Written(file', m)
      /\ \A i \in 1..n : Written(file', b[i]) \/ b[i] \in Glued(OpenFile, b, n)
  BY <1>1, OverflowKeeps
<1>3. /\ SubSeq(b, n + 1, All) \in Seq(Messages)
      /\ DOMAIN SubSeq(b, n + 1, All) = 1..(All - n)
      /\ \A i \in 1..(All - n) : SubSeq(b, n + 1, All)[i] = b[n + i]
      /\ \A i \in 1..All : i \notin 1..n =>
           i - n \in 1..(All - n) /\ SubSeq(b, n + 1, All)[i - n] = b[i]
  BY SMTT(30), <1>2, SuffixHolds
<1>4. lost' \subseteq Nat
  <2>1. ToSet(SubSeq(b, n + 1, All)) \subseteq Nat
    BY SMTT(30), <1>3 DEF ToSet, Messages
  <2> QED
    BY <1>1, <1>2, <2>1, GluedTyped DEF ExportInv, ExporterTyped
<1>5. ExporterTyped' /\ Buffered'
  BY <1>1, <1>2, <1>4 DEF ExportInv, ExporterTyped, Buffered
<1>6. ReadIsKept'
  <2>1. SUFFICES ASSUME NEW m \in Wanted, m <= exporter.cursor
                 PROVE  Written(file', m) \/ m \in lost'
    BY <1>1 DEF ReadIsKept, Written
  <2>2. Written(file, m) \/ m \in lost \/ m \in ToSet(b)
    BY <1>2, <2>1 DEF ExportInv, ReadIsKept
  <2>3. CASE m \in ToSet(b)
    <3>1. PICK i \in 1..All : m = b[i]
      BY <1>2, <2>3 DEF ToSet
    <3>2. CASE i \in 1..n
      BY <1>1, <1>2, <3>1, <3>2
    <3>3. CASE i \notin 1..n
      <4>1. i - n \in 1..(All - n) /\ SubSeq(b, n + 1, All)[i - n] = b[i]
        BY <1>3, <3>3
      <4> QED
        BY <1>1, <1>3, <3>1, <4>1 DEF ToSet
    <3> QED
      BY <3>2, <3>3
  <2> QED
    BY <1>1, <1>2, <2>2, <2>3
<1> QED
  BY <1>1, <1>2, <1>5, <1>6, PassedKept DEF ExportInv

LEMMA SaveStateInv == ASSUME ExportInv, SaveState PROVE ExportInv'
<1>1. /\ exporter.pc = "saving" /\ mark' = exporter.cursor /\ UNCHANGED <<sent, file, lost>>
      /\ exporter' = [pc |-> "idle", cursor |-> 0, month |-> NoMonth, buffer |-> <<>>]
  BY DEF SaveState, NoRun
<1>2. ExporterTyped' /\ Buffered' /\ ReadIsKept'
  BY <1>1 DEF ExportInv, ExporterTyped, Buffered, ReadIsKept
<1>3. exporter.buffer = <<>>
  BY <1>1 DEF ExportInv, Buffered
<1>4. ToSet(exporter.buffer) = {}
  BY <1>3 DEF ToSet
<1>5. PassedIsWritten'
  BY <1>1, <1>4 DEF ExportInv, ReadIsKept, PassedIsWritten, Written
<1> QED
  BY <1>2, <1>5 DEF ExportInv

LEMMA KillInv == ASSUME ExportInv, Kill PROVE ExportInv'
<1>1. /\ file' = [m \in Months |-> Left(file[m])] /\ UNCHANGED <<sent, mark, lost>>
      /\ exporter' = [pc |-> "idle", cursor |-> 0, month |-> NoMonth, buffer |-> <<>>]
  BY DEF Kill, NoRun
<1>2. ASSUME NEW m \in Months
      PROVE  Left(file[m]) \in Pieces /\ Left(file[m]).lines = file[m].lines
  BY DEF ExportInv, ExporterTyped, Left, Pieces
<1>3. ExporterTyped' /\ Buffered' /\ ReadIsKept'
  BY <1>1, <1>2 DEF ExportInv, ExporterTyped, Buffered, ReadIsKept
<1>4. \A m \in Wanted : Written(file, m) => Written(file', m)
  BY <1>1, <1>2 DEF Written
<1> QED
  BY <1>1, <1>3, <1>4, PassedKept DEF ExportInv

(* Every step of the exporter, the uploader or the disk keeps track of      *)
(* where each message that was read is.                                     *)
THEOREM ExportStepInv == ASSUME ExportInv, [ExportNext]_exportVars PROVE ExportInv'
<1>1. ASSUME UNCHANGED <<file, mark, exporter, lost>>, sent' \in Nat
      PROVE  ExportInv'
  BY <1>1 DEF ExportInv, ExporterTyped, Buffered, ReadIsKept, PassedIsWritten, Written
<1>2. CASE Send
  BY <1>1, <1>2 DEF Send, ExportInv, ExporterTyped
<1>3. CASE Upload \/ UNCHANGED exportVars
  BY <1>1, <1>3 DEF Upload, StartUpload, Put, exportVars, ExportInv, ExporterTyped
<1>4. CASE Export
  BY <1>4, BeginInv, ReadMessageInv, CloseInv, SaveStateInv DEF Export
<1>5. CASE Fails
  BY <1>5, CloseFailsInv, DroppedInv DEF Fails
<1> QED
  BY <1>2, <1>3, <1>4, <1>5, FlushInv, KillInv DEF ExportNext

(* No kill, full disk or flood wait, and no line that is appended to half  *)
(* of another, lets the cursor pass a message that is neither in the file  *)
(* of its month nor among the losses that lost names.                      *)
THEOREM SpecPassedIsWritten == ExportSpec => []PassedIsWritten
<1>1. ExportInv => PassedIsWritten
  BY DEF ExportInv
<1> QED
  BY ExportInitInv, ExportStepInv, <1>1, PTL DEF ExportSpec
================================================================================
