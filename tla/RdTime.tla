------------------------------- MODULE RdTime -------------------------------
(***************************************************************************)
(* rdtime() of rdtime.c on RV32: the 64-bit machine timer is read as two   *)
(* 32-bit CSRs while it keeps counting, and the read is retried when the   *)
(* high word changed meanwhile.                                            *)
(*                                                                         *)
(* The timer is the pair of words <<high, low>>; a word holds the values   *)
(* 0 .. Word-1 (Word = 2^32 on the hardware, a small number under TLC).    *)
(* The reader runs one CSR instruction per step; the timer may tick any    *)
(* number of times between two of them.                                    *)
(***************************************************************************)
EXTENDS Integers

CONSTANTS Word,     \* number of values of one 32-bit word
          MaxHigh   \* bound: the high word of the timer stops here

ASSUME WordAssumption == Word \in Nat \ {0} /\ MaxHigh \in Nat

VARIABLES timer,   \* <<high, low>>: the hardware counter
          pc,      \* instruction of rdtime() to run next
          hi, lo,  \* the locals of rdtime()
          called,  \* timer when the current (or last) call began
          result   \* value returned by the last call

vars == <<timer, pc, hi, lo, called, result>>

Time == (0 .. MaxHigh) \X (0 .. Word - 1)

(* Order of two 64-bit values given as pairs of words.                     *)
Leq(s, t) == s[1] < t[1] \/ (s[1] = t[1] /\ s[2] <= t[2])

TypeOK ==
  /\ timer \in Time
  /\ pc \in {"idle", "hi", "lo", "again"}
  /\ hi \in 0 .. MaxHigh
  /\ lo \in 0 .. Word - 1
  /\ called \in Time
  /\ result \in Time

Init ==
  /\ timer \in Time
  /\ pc = "idle"
  /\ hi = 0 /\ lo = 0
  /\ called = <<0, 0>>
  /\ result = <<0, 0>>

(* The counter advances by one, carrying into the high word.               *)
Tick ==
  /\ \/ /\ timer[2] < Word - 1
        /\ timer' = <<timer[1], timer[2] + 1>>
     \/ /\ timer[2] = Word - 1
        /\ timer[1] < MaxHigh
        /\ timer' = <<timer[1] + 1, 0>>
  /\ UNCHANGED <<pc, hi, lo, called, result>>

Call ==
  /\ pc = "idle"
  /\ pc' = "hi"
  /\ called' = timer
  /\ UNCHANGED <<timer, hi, lo, result>>

(* "rdtimeh hi"                                                            *)
ReadHi ==
  /\ pc = "hi"
  /\ hi' = timer[1]
  /\ pc' = "lo"
  /\ UNCHANGED <<timer, lo, called, result>>

(* "rdtime lo"                                                             *)
ReadLo ==
  /\ pc = "lo"
  /\ lo' = timer[2]
  /\ pc' = "again"
  /\ UNCHANGED <<timer, hi, called, result>>

(* Mutant: the value is returned without reading the high word again.      *)
AgainUnchecked ==
  /\ pc = "again"
  /\ result' = <<hi, lo>>
  /\ pc' = "idle"
  /\ UNCHANGED <<timer, hi, lo, called>>

(* Mutant: the retry reads only the low word again.                        *)
AgainStaleHi ==
  /\ pc = "again"
  /\ \/ /\ hi = timer[1]
        /\ result' = <<hi, lo>>
        /\ pc' = "idle"
     \/ /\ hi # timer[1]
        /\ pc' = "lo"
        /\ UNCHANGED result
  /\ UNCHANGED <<timer, hi, lo, called>>

(* The loop condition: the high word is read again; the pair is returned   *)
(* when it did not change, read afresh when it did.                        *)
Again ==
  /\ pc = "again"
  /\ \/ /\ hi = timer[1]
        /\ result' = <<hi, lo>>
        /\ pc' = "idle"
     \/ /\ hi # timer[1]
        /\ pc' = "hi"
        /\ UNCHANGED result
  /\ UNCHANGED <<timer, hi, lo, called>>

Reader == ReadHi \/ ReadLo \/ Again

Next == Tick \/ Call \/ Reader

Spec == Init /\ [][Next]_vars

(* The reader is straight-line code with interrupts off: it always goes    *)
(* on.  Nothing is assumed of the timer.                                   *)
FairSpec == Spec /\ WF_vars(Reader)

-----------------------------------------------------------------------------
(* What a caller of rdtime() relies on: the value it returned is one the   *)
(* timer had between the call and the return, although no instruction      *)
(* reads both words (rdtime.c:10-19).  A read torn by a carry would be     *)
(* 2^32 ticks off, and a deadline computed from it 43 seconds away.        *)
ResultInCall ==
  /\ Leq(result, timer)
  /\ pc = "idle" => Leq(called, result)

(* Deadlines are computed from one call and compared with later ones:      *)
(* successive results never go back.                                       *)
ResultsMonotone == [][Leq(result, result')]_vars

(* The retry loop ends: every call of rdtime() returns.                    *)
CallReturns == (pc = "hi") ~> (pc = "idle")
=============================================================================
