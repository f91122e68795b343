------------------------------ MODULE QuerySlots ------------------------------
(***************************************************************************)
(* runSearch (main.go): native Lance searches are bounded by the buffered  *)
(* channel querySlots.  The FFI cannot be cancelled, so a caller that ran  *)
(* out of time leaves, and the goroutine it started keeps the slot until   *)
(* the native call returns.  Every handler and the readiness probe search  *)
(* through it; a call is one of their runSearch invocations.               *)
(*                                                                         *)
(* A Go channel serves blocked senders in order: a receive hands the freed *)
(* place to the first of them.  That is the queue.                         *)
(***************************************************************************)
EXTENDS Naturals, Sequences, FiniteSets

CONSTANTS
  Calls,          \* requests in flight at a time
  MaxConcurrent,  \* cfg.MaxConcurrent: capacity of querySlots
  Timed,          \* calls whose context has a deadline
  Hung            \* calls whose native search never returns

ASSUME SlotAssumption ==
  /\ IsFiniteSet(Calls) /\ MaxConcurrent \in Nat \ {0}
  /\ Timed \subseteq Calls /\ Hung \subseteq Calls

VARIABLES
  call,     \* [Calls -> ...]: where the caller of runSearch is
  native,   \* [Calls -> ...]: where the goroutine it started is
  expired,  \* calls whose context is done
  done,     \* calls whose done channel holds an outcome
  slots,    \* len(querySlots)
  queue     \* callers blocked on querySlots, first come first

vars == <<call, native, expired, done, slots, queue>>

Search(c) ==
  /\ call' = [call EXCEPT ![c] = "searching"]
  /\ native' = [native EXCEPT ![c] = "running"]

-----------------------------------------------------------------------------
(* The caller.                                                             *)

(* A request arrives, with a context and a done channel of its own.        *)
Arrive(c) ==
  /\ call[c] = "idle" /\ native[c] = "none"
  /\ call' = [call EXCEPT ![c] = "select"]
  /\ expired' = expired \ {c}
  /\ done' = done \ {c}
  /\ UNCHANGED <<native, slots, queue>>

(* The first select: a free slot is taken and the goroutine started ...    *)
Acquire(c) ==
  /\ call[c] = "select" /\ slots < MaxConcurrent
  /\ slots' = slots + 1
  /\ Search(c)
  /\ UNCHANGED <<expired, done, queue>>

(* ... or the caller blocks.                                               *)
Park(c) ==
  /\ call[c] = "select" /\ slots = MaxConcurrent /\ c \notin expired
  /\ call' = [call EXCEPT ![c] = "waiting"]
  /\ queue' = Append(queue, c)
  /\ UNCHANGED <<native, expired, done, slots>>

(* Mutant: a caller that times out frees its slot.                         *)
GiveUpFreesSlot(c) ==
  /\ call[c] = "searching" /\ c \in expired /\ native[c] = "running"
  /\ call' = [call EXCEPT ![c] = "idle"]
  /\ slots' = slots - 1
  /\ UNCHANGED <<queue, native, expired, done>>

(* Either select sees ctx.Done: the caller leaves, its goroutine stays.    *)
GiveUp(c) ==
  /\ call[c] \in {"select", "waiting", "searching"} /\ c \in expired
  /\ call' = [call EXCEPT ![c] = "idle"]
  /\ IF call[c] = "waiting"
     THEN \E i \in 1..Len(queue) :
            /\ queue[i] = c
            /\ queue' = [j \in 1..(Len(queue) - 1) |->
                           IF j < i THEN queue[j] ELSE queue[j + 1]]
     ELSE UNCHANGED queue
  /\ UNCHANGED <<native, expired, done, slots>>

Answer(c) ==
  /\ call[c] = "searching" /\ c \in done
  /\ call' = [call EXCEPT ![c] = "idle"]
  /\ UNCHANGED <<native, expired, done, slots, queue>>

(* The deadline passes, or the client goes away.                           *)
Expire(c) ==
  /\ call[c] # "idle" /\ c \notin expired
  /\ expired' = expired \cup {c}
  /\ UNCHANGED <<call, native, done, slots, queue>>

-----------------------------------------------------------------------------
(* The goroutine.                                                          *)

NativeReturn(c) ==
  /\ native[c] = "running"
  /\ native' = [native EXCEPT ![c] = "returned"]
  /\ UNCHANGED <<call, expired, done, slots, queue>>

(* Mutant: the slot is freed but no blocked caller is woken.               *)
ReleaseUnheard(c) ==
  /\ native[c] = "returned"
  /\ native' = [native EXCEPT ![c] = "released"]
  /\ slots' = slots - 1
  /\ UNCHANGED <<call, expired, done, queue>>

(* <-s.querySlots: the place goes to the first blocked caller, if any.     *)
Release(c) ==
  /\ native[c] = "returned"
  /\ \/ /\ queue = <<>>
        /\ slots' = slots - 1
        /\ native' = [native EXCEPT ![c] = "released"]
        /\ UNCHANGED <<call, queue>>
     \/ /\ queue # <<>>
        /\ call' = [call EXCEPT ![Head(queue)] = "searching"]
        /\ native' = [native EXCEPT ![c] = "released", ![Head(queue)] = "running"]
        /\ queue' = Tail(queue)
        /\ UNCHANGED slots
  /\ UNCHANGED <<expired, done>>

(* Mutant: done is unbuffered, so the send waits for a receiver.           *)
SendUnbuffered(c) ==
  /\ native[c] = "released" /\ call[c] = "searching"
  /\ native' = [native EXCEPT ![c] = "none"]
  /\ done' = done \cup {c}
  /\ UNCHANGED <<call, expired, slots, queue>>

(* done <- outcome: the buffer holds one, so nobody need be listening.     *)
Send(c) ==
  /\ native[c] = "released"
  /\ native' = [native EXCEPT ![c] = "none"]
  /\ done' = done \cup {c}
  /\ UNCHANGED <<call, expired, slots, queue>>

-----------------------------------------------------------------------------
Init ==
  /\ call = [c \in Calls |-> "idle"] /\ native = [c \in Calls |-> "none"]
  /\ expired = {} /\ done = {} /\ slots = 0 /\ queue = <<>>

Next ==
  \E c \in Calls :
     \/ Arrive(c) \/ Acquire(c) \/ Park(c) \/ GiveUp(c) \/ Answer(c) \/ Expire(c)
     \/ NativeReturn(c) \/ Release(c) \/ Send(c)

Spec == Init /\ [][Next]_vars

(* Both goroutines of a call run on, and deadlines pass.  A native search  *)
(* that hangs is not forced to return, nor is anyone forced to call.       *)
Fairness ==
  /\ \A c \in Calls :
       /\ WF_vars(Acquire(c) \/ Park(c) \/ GiveUp(c) \/ Answer(c))
       /\ WF_vars(Release(c) \/ Send(c))
  /\ \A c \in Timed : WF_vars(Expire(c))
  /\ \A c \in Calls \ Hung : WF_vars(NativeReturn(c))

FairSpec == Spec /\ Fairness
-----------------------------------------------------------------------------
TypeOK ==
  /\ call \in [Calls -> {"idle", "select", "waiting", "searching"}]
  /\ native \in [Calls -> {"none", "running", "returned", "released"}]
  /\ expired \in SUBSET Calls /\ done \in SUBSET Calls
  /\ slots \in 0..MaxConcurrent
  /\ queue \in Seq(Calls)

Running == {c \in Calls : native[c] = "running"}
Holding == {c \in Calls : native[c] \in {"running", "returned"}}

(***************************************************************************)
(* README.md:232, "Concurrent native searches are bounded": abandoned ones *)
(* included, no more native searches run at once than there are slots.     *)
(***************************************************************************)
NativeBounded == Cardinality(Running) <= MaxConcurrent

(***************************************************************************)
(* A caller blocks only while every slot belongs to a native search that   *)
(* has not returned yet, or to a goroutine about to release it: neither a  *)
(* timeout nor a caller that left loses a slot or leaves one idle.         *)
(***************************************************************************)
NoSlotIdle ==
  queue # <<>> => Cardinality(Holding) = MaxConcurrent

(***************************************************************************)
(* Every request is answered or times out: one with a deadline even if its *)
(* own native search hangs (README.md:232, "timed out at the HTTP          *)
(* boundary"), one without because searches that hang leave it a slot.     *)
(***************************************************************************)
EveryCallEnds == \A c \in Calls : call[c] # "idle" ~> call[c] = "idle"

(***************************************************************************)
(* An orphaned goroutine goes away: when the native search of a caller     *)
(* that left returns, its slot is released and the goroutine ends.         *)
(***************************************************************************)
OrphansEnd == \A c \in Calls \ Hung : native[c] # "none" ~> native[c] = "none"
=============================================================================
