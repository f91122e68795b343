------------------------------ MODULE CacheSpace ------------------------------
(***************************************************************************)
(* The space that the block cache takes                                    *)
(* (docker/lancedb-go-disk-cache.rs, DiskRangeCache): the files of the     *)
(* cache directory, the least-recently-used books of each process that has *)
(* it open, and the byte cap.                                              *)
(*                                                                         *)
(* An operation holds the state lock of its process, so it is one action;  *)
(* two processes share the directory and nothing else.  A temporary file   *)
(* lives within one operation, or until the next process that starts       *)
(* removes it.                                                             *)
(***************************************************************************)
EXTENDS Naturals, FiniteSets

CONSTANTS
  Processes,   \* processes that may have the cache open
  Files,       \* names of cache files: the blocks and metadata of objects
  Length,      \* [Files -> Nat]: the length that a file is written with
  Object,      \* [Files -> objects]: object_hash
  Metas,       \* metadata records, which are read without an expected length
  Caps         \* byte caps a process may be started with

ASSUME SpaceAssumption ==
  /\ IsFiniteSet(Files)
  /\ Length \in [Files -> Nat \ {0}] /\ DOMAIN Object = Files /\ Metas \subseteq Files
  /\ Caps \subseteq Nat \ {0}

VARIABLES
  dir,       \* the directory: a listing, whose access is the time of modification
  cap,       \* [Processes -> Nat]: max_bytes; 0 in a process that is not running
  entries,   \* [Processes -> listings]: HashMap<PathBuf, CacheEntry>
  total      \* [Processes -> Nat]: total_bytes

spaceVars == <<dir, cap, entries, total>>

IsOpen(p) == cap[p] > 0

(* A listing: the length and the last access of each file that it names.   *)
Listings == UNION {[F -> [size : Nat, access : Nat]] : F \in SUBSET Files}
NoFiles  == [f \in {} |-> 0]

Part(l, F)  == [f \in DOMAIN l \cap F |-> l[f]]
Sizes(l)    == [f \in DOMAIN l |-> l[f].size]
Grains(l)   == UNION {{f} \X (1..l[f].size) : f \in DOMAIN l}
Bytes(l)    == Cardinality(Grains(l))
Older(l, f) == {g \in DOMAIN l : l[g].access < l[f].access}
Minus(a, b) == IF a > b THEN a - b ELSE 0      \* saturating_sub

(* Times of access count by their order only, which keeps the clock small. *)
Ranked(l) == [f \in DOMAIN l |-> [size |-> l[f].size, access |-> Cardinality(Older(l, f))]]

Dropping(l, F) == Ranked(Part(l, DOMAIN l \ F))

(* f is the one that was used last.                                        *)
Newest(l, f, size) ==
  Ranked([g \in DOMAIN l \cup {f} |->
            IF g = f THEN [size |-> size, access |-> Cardinality(DOMAIN l)] ELSE l[g]])

-----------------------------------------------------------------------------
(* What an operation does to the books and the directory: records b with   *)
(* the fields dir, entries and total.                                      *)

Books(p) == [dir |-> dir, entries |-> entries[p], total |-> total[p]]

(* remove_entry and remove_file, for each file of F.                       *)
Removed(b, F) ==
  [dir     |-> Dropping(b.dir, F),
   entries |-> Dropping(b.entries, F),
   total   |-> Minus(b.total, Bytes(Part(b.entries, F)))]

(* evict_oldest, until the total fits or nothing is left: an entry goes if  *)
(* there is too much even without those that are older.                    *)
Evicted(b, room) ==
  Removed(b, {f \in DOMAIN b.entries :
                Minus(b.total, Bytes(Part(b.entries, Older(b.entries, f)))) > room})

(* A hit makes the entry the most recently used.                           *)
Touched(b, f) ==
  IF f \in DOMAIN b.entries
  THEN [b EXCEPT !.entries = Newest(@, f, @[f].size)]
  ELSE b

(* HashMap::insert: an entry of that name is replaced, its bytes stay.     *)
Adopted(b, f, size) ==
  [b EXCEPT !.entries = Newest(@, f, size), !.total = @ + size]

Set(p, b) ==
  /\ dir' = b.dir
  /\ entries' = [entries EXCEPT ![p] = b.entries]
  /\ total' = [total EXCEPT ![p] = b.total]

-----------------------------------------------------------------------------
(* read_entry: a file of another process is taken over, one of the wrong   *)
(* length is removed.                                                      *)
ReadEntry(p, f) ==
  /\ IsOpen(p) /\ f \in DOMAIN dir
  /\ Set(p, IF f \notin Metas /\ dir[f].size # Length[f] THEN Removed(Books(p), {f})
            ELSE IF f \in DOMAIN entries[p] THEN Touched(Books(p), f)
            ELSE Adopted(Books(p), f, dir[f].size))
  /\ UNCHANGED cap

(* Mutant: room is made before the file of the wrong length is removed.    *)
ClearedLast(p, f) ==
  LET old == Evicted(Books(p), Minus(cap[p], Length[f]))
  IN  [old EXCEPT !.dir = Dropping(@, {f})]

(* Room for f: a file of the wrong length goes first.                      *)
Cleared(p, f) ==
  LET now == IF f \in DOMAIN dir THEN Removed(Books(p), {f}) ELSE Books(p)
  IN  Evicted(now, Minus(cap[p], Length[f]))

(* write_entry; put leaves out blocks that exceed the cap.                 *)
WriteEntry(p, f) ==
  /\ IsOpen(p) /\ (f \in Metas \/ Length[f] <= cap[p])
  /\ IF f \in DOMAIN dir /\ dir[f].size = Length[f]
     THEN Set(p, Touched(Books(p), f))
     ELSE LET free == Cleared(p, f)
          IN  \/ free.total + Length[f] <= cap[p] /\ Set(p, [Adopted(free, f, Length[f])
                   EXCEPT !.dir = Newest(@, f, Length[f])])
              \/ Set(p, free)   \* refused, or the file cannot be written
  /\ UNCHANGED cap

InvalidateObject(p, o) ==
  /\ IsOpen(p)
  /\ LET gone == {f \in DOMAIN entries[p] : Object[f] = o}
     IN  gone # {} /\ Set(p, Removed(Books(p), gone))
  /\ UNCHANGED cap

(* Mutant: the cap applies to what is written from now on.                 *)
LoadedUnchecked(max) == [dir |-> dir, entries |-> dir, total |-> Bytes(dir)]

(* load_existing_entries and evict_to: access times are the mtimes.        *)
Loaded(max) == Evicted([dir |-> dir, entries |-> dir, total |-> Bytes(dir)], max)

Start(p) ==
  /\ ~IsOpen(p)
  /\ \E max \in Caps : cap' = [cap EXCEPT ![p] = max] /\ Set(p, Loaded(max))

Exit(p) ==
  /\ IsOpen(p)
  /\ cap' = [cap EXCEPT ![p] = 0]
  /\ Set(p, [dir |-> dir, entries |-> NoFiles, total |-> 0])

(* Files are renamed into place without fsync: one may come back short.    *)
PowerLoss ==
  /\ \E p \in Processes : IsOpen(p)
  /\ \E f \in DOMAIN dir : \E size \in 0..(dir[f].size - 1) :
       dir' = [dir EXCEPT ![f].size = size]
  /\ cap' = [p \in Processes |-> 0]
  /\ entries' = [p \in Processes |-> NoFiles] /\ total' = [p \in Processes |-> 0]

SpaceInit ==
  /\ dir = NoFiles /\ cap = [p \in Processes |-> 0]
  /\ entries = [p \in Processes |-> NoFiles] /\ total = [p \in Processes |-> 0]

SpaceNext ==
  \/ \E p \in Processes :
       \/ Start(p) \/ Exit(p)
       \/ \E f \in Files : ReadEntry(p, f) \/ WriteEntry(p, f)
       \/ \E f \in Files : InvalidateObject(p, Object[f])
  \/ PowerLoss

SpaceSpec == SpaceInit /\ [][SpaceNext]_spaceVars
-----------------------------------------------------------------------------
SpaceTypeOK ==
  /\ dir \in Listings /\ \A f \in DOMAIN dir : dir[f].size <= Length[f]
  /\ entries \in [Processes -> Listings]
  /\ cap \in [Processes -> Caps \cup {0}] /\ total \in [Processes -> Nat]

(***************************************************************************)
(* The books of a process that has the directory to itself are exact after *)
(* any hits, refused and failed writes, replaced, invalidated and          *)
(* shortened files and restarts: an entry for every file with its length   *)
(* on disk, and their sum as the total.                                    *)
(***************************************************************************)
BooksExact ==
  \A p \in Processes : IsOpen(p) =>
     Sizes(entries[p]) = Sizes(dir) /\ total[p] = Bytes(dir)

(***************************************************************************)
(* "Docker Compose enables a 2 GiB hard cap" (CHANGELOG.md:229): the files *)
(* of the directory never exceed the cap of a process that has it open,    *)
(* also of one that was restarted with a smaller cap.                      *)
(***************************************************************************)
CapHolds == \A p \in Processes : IsOpen(p) => Bytes(dir) <= cap[p]
=============================================================================
