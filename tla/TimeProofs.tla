----------------------------- MODULE TimeProofs -----------------------------
(***************************************************************************)
(* Time, as the boot loader sees it.                                       *)
(*                                                                         *)
(* rdtime() returns, for every width of the words, a value the timer had   *)
(* during the call.  The argument: at the second reading of the high word, *)
(* "hi" is at least the high word at the call; if it still is the timer's, *)
(* the timer has not carried since "hi" was read, so "lo", read in between,*)
(* belongs to the same high word.                                          *)
(*                                                                         *)
(* The waiting loop over it, for every tick rate and every limit: a        *)
(* timeout is not early by a millisecond or more, comes after at least one *)
(* poll, and never hides an answer that came a step before the limit.      *)
(***************************************************************************)
EXTENDS RdTime, WaitLoop, TLAPS

(* What holds between the instructions of a call.                          *)
InCall ==
  /\ pc \in {"hi", "lo", "again"} => Leq(called, timer)
  /\ pc \in {"lo", "again"} => called[1] <= hi /\ hi <= timer[1]
  /\ pc = "again" /\ hi = timer[1] => lo <= timer[2]
  /\ pc = "again" /\ hi = timer[1] /\ hi = called[1] => called[2] <= lo

IInv ==
  /\ TypeOK
  /\ ResultInCall
  /\ InCall
  /\ pc # "idle" => Leq(result, called)

-----------------------------------------------------------------------------
(* The initial states satisfy the inductive invariant.                     *)
LEMMA InitIInv == Init => IInv
BY WordAssumption DEF Init, IInv, TypeOK, ResultInCall, InCall, Leq, Time

(* Every step preserves the inductive invariant.                           *)
LEMMA StepIInv == IInv /\ [Next]_vars => IInv'
<1> SUFFICES ASSUME IInv, [Next]_vars PROVE IInv'
  OBVIOUS
<1> USE WordAssumption DEF IInv, TypeOK, ResultInCall, InCall, Leq, Time
<1>1. CASE Tick
  BY <1>1 DEF Tick
<1>2. CASE Call
  BY <1>2 DEF Call
<1>3. CASE ReadHi
  BY <1>3 DEF ReadHi
<1>4. CASE ReadLo
  BY <1>4 DEF ReadLo
<1>5. CASE Again
  BY <1>5 DEF Again
<1>6. CASE UNCHANGED vars
  BY <1>6 DEF vars
<1> QED
  BY <1>1, <1>2, <1>3, <1>4, <1>5, <1>6 DEF Next, Reader

(* The inductive invariant holds in every reachable state.                 *)
THEOREM Invariance == Spec => []IInv
BY InitIInv, StepIInv, PTL DEF Spec

(* Type correctness, for words of any width.                                *)
THEOREM TypeCorrect == Spec => []TypeOK
<1>1. IInv => TypeOK
  BY DEF IInv
<1> QED
  BY <1>1, Invariance, PTL

(* rdtime() returns a value the timer had between the call and the return, *)
(* whatever the width of the words and wherever the carries fall.          *)
THEOREM ReadIsAtomic == Spec => []ResultInCall
<1>1. IInv => ResultInCall
  BY DEF IInv
<1> QED
  BY <1>1, Invariance, PTL

(* Successive results of rdtime() never go back.                           *)
THEOREM Monotone == Spec => ResultsMonotone
<1>1. IInv /\ [Next]_vars => [Leq(result, result')]_vars
  <2> SUFFICES ASSUME IInv, [Next]_vars PROVE [Leq(result, result')]_vars
    OBVIOUS
  <2> USE WordAssumption DEF IInv, TypeOK, ResultInCall, InCall, Leq, Time
  <2>1. CASE Again
    BY <2>1 DEF Again
  <2>2. CASE UNCHANGED result
    BY <2>2
  <2> QED
    BY <2>1, <2>2 DEF Next, Reader, Tick, Call, ReadHi, ReadLo, vars
<1> QED
  BY <1>1, Invariance, PTL DEF Spec, ResultsMonotone

-----------------------------------------------------------------------------
(* Rounding down to a multiple.                                            *)
LEMMA MsBounds ==
  ASSUME NEW t \in Nat
  PROVE  Ms(t) \in Nat /\ TicksPerMs * Ms(t) <= t /\ t < TicksPerMs * Ms(t) + TicksPerMs
BY WaitAssumption DEF Ms

(* n milliseconds by time_ms() are more than n - 1 by the timer.           *)
LEMMA MsElapsed ==
  ASSUME NEW s \in Nat, NEW t \in Nat, NEW n \in Nat, Ms(t) >= Ms(s) + n
  PROVE  t - s > TicksPerMs * (n - 1)
<1>1. Ms(t) \in Nat /\ TicksPerMs * Ms(t) <= t
  BY MsBounds
<1>2. Ms(s) \in Nat /\ s < TicksPerMs * Ms(s) + TicksPerMs
  BY MsBounds
<1>3. TicksPerMs \in Nat
  BY WaitAssumption
<1>4. TicksPerMs * Ms(t) >= TicksPerMs * (Ms(s) + n)
  BY <1>1, <1>2, <1>3
<1>5. /\ TicksPerMs * (Ms(s) + n) = TicksPerMs * Ms(s) + TicksPerMs * n
      /\ TicksPerMs * (n - 1) = TicksPerMs * n - TicksPerMs
      /\ TicksPerMs * Ms(s) \in Int /\ TicksPerMs * n \in Int /\ TicksPerMs * Ms(t) \in Int
  BY <1>1, <1>2, <1>3
<1> QED
  BY <1>1, <1>2, <1>3, <1>4, <1>5

(* time_ms() does not go back.                                             *)
LEMMA MsMonotone ==
  ASSUME NEW s \in Nat, NEW t \in Nat, s <= t
  PROVE  Ms(s) <= Ms(t)
<1> SUFFICES ASSUME Ms(s) > Ms(t) PROVE FALSE
  BY MsBounds
<1>1. Ms(s) \in Nat /\ Ms(t) \in Nat
  BY MsBounds
<1>2. PICK n \in Nat : n = Ms(s) - Ms(t) /\ n >= 1
  BY <1>1
<1>3. s - t > TicksPerMs * (n - 1)
  BY <1>1, <1>2, MsElapsed
<1>4. TicksPerMs * (n - 1) >= 0
  BY <1>2, WaitAssumption
<1> QED
  BY <1>3, <1>4, <1>2, WaitAssumption

-----------------------------------------------------------------------------
Running == {"test", "poll", "answer", "timeout"}

(* How much time has passed since what the loop has not seen yet.          *)
LoopIInv ==
  /\ LoopTypeOK
  /\ at \in Running => time = Ms(begun) /\ begun <= now
  /\ answered => since <= now
  /\ at = "start" /\ answered => since = now
  /\ at = "test" /\ ~polled => now <= begun + spent
  /\ at = "test" /\ answered => now <= since + spent
  /\ at = "timeout" => Ms(now) >= time + Limit /\ polled
  /\ at = "timeout" /\ answered => now <= since + MaxStep

(* The initial states satisfy the inductive invariant.                     *)
LEMMA InitLoopIInv == LoopInit => LoopIInv
<1> SUFFICES ASSUME LoopInit PROVE LoopIInv
  OBVIOUS
<1>1. /\ TicksPerMs \in Nat \ {0} /\ MaxTime \in Nat /\ MaxStep \in Nat
      /\ TicksPerMs <= MaxTime
  BY WaitAssumption
<1>2. now \in 0 .. TicksPerMs - 1 /\ spent = 0 /\ time = 0 /\ begun = 0 /\ since = 0
  BY DEF LoopInit
<1>3. /\ now \in 0 .. MaxTime /\ spent \in 0 .. MaxStep /\ time \in Nat
      /\ begun \in 0 .. MaxTime /\ since \in 0 .. MaxTime
  BY <1>1, <1>2
<1>4. at = "start" /\ answered = FALSE /\ polled = FALSE /\ got = FALSE
  BY DEF LoopInit
<1>5. at \notin Running /\ at # "test" /\ at # "timeout"
  BY <1>4 DEF Running
<1>6. answered \in BOOLEAN /\ polled \in BOOLEAN /\ got \in BOOLEAN /\ ~answered
  BY <1>4
<1>7. LoopTypeOK
  BY <1>3, <1>4, <1>6 DEF LoopTypeOK
<1> QED
  BY <1>5, <1>6, <1>7 DEF LoopIInv

(* Every step keeps it.                                                    *)
LEMMA StepLoopIInv == LoopIInv /\ [LoopNext]_loopVars => LoopIInv'
<1> SUFFICES ASSUME LoopIInv, [LoopNext]_loopVars PROVE LoopIInv'
  OBVIOUS
<1> USE WaitAssumption DEF LoopIInv, LoopTypeOK, Running
<1>1. CASE TimerCounts
  BY <1>1 DEF TimerCounts
<1>2. CASE CardAnswers
  BY <1>2 DEF CardAnswers
<1>3. CASE Start
  <2>1. Ms(now) \in Nat
    BY MsBounds
  <2>2. /\ time' = Ms(now) /\ begun' = now /\ at' = "test" /\ spent' = 0
        /\ now' = now /\ answered' = answered /\ since' = since
        /\ polled' = polled /\ got' = got
    BY <1>3 DEF Start, StartFrom
  <2>3. 0 \in 0 .. MaxStep
    OBVIOUS
  <2>4. LoopTypeOK'
    BY <2>1, <2>2, <2>3
  <2>5. time' = Ms(begun)' /\ (begun <= now)'
    BY <2>2 DEF Ms
  <2>6. (answered => since <= now)' /\ (at # "timeout")'
    BY <2>2
  <2>7. (now <= begun + spent)'
    BY <2>2
  <2>8. ASSUME answered' PROVE now' <= since' + spent'
    <3>1. answered
      BY <2>2, <2>8
    <3>2. now \in Int /\ since = now
      BY <1>3, <3>1 DEF Start, StartFrom
    <3> QED
      BY <2>2, <3>2
  <2>9. at' = "test"
    BY <2>2
  <2> HIDE WaitAssumption DEF LoopTypeOK
  <2> QED
    BY <2>4, <2>5, <2>6, <2>7, <2>8, <2>9, Zenon
<1>4. CASE Test
  <2>1. ASSUME Ms(now) >= time + Limit PROVE polled
    <3>1. SUFFICES ASSUME ~polled PROVE FALSE
      OBVIOUS
    <3>2. now - begun > TicksPerMs * (Limit - 1)
      BY <1>4, <2>1, MsElapsed DEF Test, TestUntil
    <3>3. now - begun <= MaxStep
      BY <1>4, <3>1 DEF Test, TestUntil
    <3>4. TicksPerMs * (Limit - 1) \in Int
      OBVIOUS
    <3> QED
      BY <3>2, <3>3, <3>4
  <2>2. Ms(now) \in Nat
    BY MsBounds
  <2> QED
    BY <1>4, <2>1, <2>2 DEF Test, TestUntil
<1>5. CASE Poll
  BY <1>5 DEF Poll, PollThen
<1>6. CASE UNCHANGED loopVars
  BY <1>6 DEF loopVars
<1> QED
  BY <1>1, <1>2, <1>3, <1>4, <1>5, <1>6 DEF LoopNext, Loop

(* The inductive invariant holds in every reachable state.                 *)
THEOREM LoopInvariance == LoopSpec => []LoopIInv
BY InitLoopIInv, StepLoopIInv, PTL DEF LoopSpec

(* Type correctness, for every tick rate, limit and length of a step.      *)
THEOREM LoopTypeCorrect == LoopSpec => []LoopTypeOK
<1>1. LoopIInv => LoopTypeOK
  BY DEF LoopIInv
<1> QED
  BY <1>1, LoopInvariance, PTL

(* No timeout comes a millisecond or more early.                           *)
THEOREM NotEarly == LoopSpec => []TimeoutNotEarly
<1>1. LoopIInv => TimeoutNotEarly
  BY MsElapsed, WaitAssumption DEF LoopIInv, LoopTypeOK, Running, TimeoutNotEarly
<1> QED
  BY <1>1, LoopInvariance, PTL

(* After a timeout the byte that is looked at has been read.               *)
THEOREM HasPolled == LoopSpec => []TimeoutHasPolled
<1>1. LoopIInv => TimeoutHasPolled
  BY DEF LoopIInv, TimeoutHasPolled
<1> QED
  BY <1>1, LoopInvariance, PTL

(* An answer that came a step before the limit is never missed.            *)
THEOREM NoAnswerMissed == LoopSpec => []AnswerInTimeTaken
<1>1. LoopIInv => AnswerInTimeTaken
  <2> SUFFICES ASSUME LoopIInv, at = "timeout", answered
               PROVE  Ms(since + MaxStep) >= time + Limit
    BY DEF AnswerInTimeTaken
  <2>1. Ms(now) >= time + Limit /\ now <= since + MaxStep
    BY DEF LoopIInv
  <2>2. now \in Nat /\ since + MaxStep \in Nat /\ time + Limit \in Nat
    BY WaitAssumption DEF LoopIInv, LoopTypeOK
  <2>3. Ms(now) <= Ms(since + MaxStep)
    BY <2>1, <2>2, MsMonotone
  <2> QED
    BY <2>1, <2>2, <2>3, MsBounds
<1> QED
  BY <1>1, LoopInvariance, PTL
=============================================================================
