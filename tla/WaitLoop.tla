------------------------------ MODULE WaitLoop ------------------------------
(***************************************************************************)
(* The loop with which sd.c waits, at most Limit ms, for the card:         *)
(*                                                                         *)
(*     time = time_ms();                                                   *)
(*     while (time_ms() < time + Limit) {                                  *)
(*         data = spi_transfer(0xFF);                                      *)
(*         if (<data is the answer>) break;                                *)
(*     }                                                                   *)
(*     if (<data is not the answer>) <timeout>                             *)
(*                                                                         *)
(* (sd.c:159-174, 219-234, 274-291, 321-332, 363-379, 402-413; without a   *)
(* body sd.c:31-33, where nothing is ever answered.)  time_ms() is the     *)
(* timer divided by TicksPerMs; that rdtime() reads the timer as if in one *)
(* step is what module RdTime shows.  The timer runs while the loop does,  *)
(* at most MaxStep ticks during one evaluation of the condition or one     *)
(* pass through the body, for no interrupt is enabled.                     *)
(***************************************************************************)
EXTENDS Integers

CONSTANTS TicksPerMs,  \* TIMEBASE_FREQ / 1000
          Limit,       \* milliseconds to wait
          MaxStep,     \* ticks that pass at most during a step of the loop
          MaxTime      \* bound: the timer stops here

ASSUME WaitAssumption ==
  /\ TicksPerMs \in Nat \ {0} /\ Limit \in Nat
  /\ MaxStep \in Nat \ {0} /\ MaxTime \in Nat /\ TicksPerMs <= MaxTime
  \* A step (a few reads of the timer, or a byte on the SPI bus) is shorter
  \* than the wait, by more than the millisecond that rounding may cost.
  /\ MaxStep <= TicksPerMs * (Limit - 1)

VARIABLES now,       \* the timer, in ticks
          spent,     \* ticks since the last step of the loop
          at,
          time,      \* the local: time_ms() at the beginning
          begun,     \* history: the timer at that moment
          answered,  \* the answer is on the bus, from now on
          since,     \* history: the timer when it came
          polled,    \* the body has run: "data" holds a byte of the card
          got        \* "data" is the answer

loopVars == <<now, spent, at, time, begun, answered, since, polled, got>>

Ms(t) == t \div TicksPerMs

LoopTypeOK ==
  /\ now \in 0 .. MaxTime
  /\ spent \in 0 .. MaxStep
  /\ at \in {"start", "test", "poll", "answer", "timeout"}
  /\ time \in Nat
  /\ begun \in 0 .. MaxTime
  /\ answered \in BOOLEAN
  /\ since \in 0 .. MaxTime
  /\ polled \in BOOLEAN
  /\ got \in BOOLEAN

(* The loop begins at any offset into a millisecond.                       *)
LoopInit ==
  /\ now \in 0 .. TicksPerMs - 1
  /\ spent = 0
  /\ at = "start"
  /\ time = 0 /\ begun = 0
  /\ answered = FALSE /\ since = 0
  /\ polled = FALSE /\ got = FALSE

(* The timer counts; what it does before and after the loop is immaterial. *)
TimerCounts ==
  /\ at \in {"test", "poll"}
  /\ now < MaxTime
  /\ spent < MaxStep
  /\ now' = now + 1 /\ spent' = spent + 1
  /\ UNCHANGED <<at, time, begun, answered, since, polled, got>>

(* The card puts its answer on the bus, and keeps it there.                *)
CardAnswers ==
  /\ ~answered
  /\ answered' = TRUE /\ since' = now
  /\ UNCHANGED <<now, spent, at, time, begun, polled, got>>

StartFrom(ms) ==
  /\ at = "start"
  /\ time' = ms /\ begun' = now
  /\ at' = "test" /\ spent' = 0
  /\ UNCHANGED <<now, answered, since, polled, got>>

TestUntil(ms) ==
  /\ at = "test"
  /\ at' = IF Ms(now) < ms THEN "poll" ELSE "timeout"
  /\ spent' = 0
  /\ UNCHANGED <<now, time, begun, answered, since, polled, got>>

PollThen(after, start) ==
  /\ at = "poll"
  /\ polled' = TRUE /\ got' = answered
  /\ at' = IF answered THEN after ELSE "test"
  /\ time' = start
  /\ spent' = 0
  /\ UNCHANGED <<now, begun, answered, since>>

(* Mutant: gives up in the last millisecond of the wait.                   *)
TestLastMs == TestUntil(time + Limit - 1)

(* Mutant: the limit is left out of the deadline.                          *)
TestNoLimit == TestUntil(time)

(* Mutant: the loop goes on after the answer.                              *)
PollNoBreak == PollThen("test", time)

(* Mutant: the wait begins anew with every byte.                           *)
PollRestarts == PollThen("answer", Ms(now))

(* time = time_ms();                                                       *)
Start == StartFrom(Ms(now))

(* while (time_ms() < time + Limit)                                        *)
Test == TestUntil(time + Limit)

(* data = spi_transfer(0xFF); if(...) break;                               *)
Poll == PollThen("answer", time)

Loop == Start \/ Test \/ Poll

LoopNext == TimerCounts \/ CardAnswers \/ Loop

LoopSpec == LoopInit /\ [][LoopNext]_loopVars

(* The loop runs and the timer counts.  The card may never answer.         *)
FairLoopSpec == LoopSpec /\ WF_loopVars(Loop) /\ WF_loopVars(TimerCounts)

-----------------------------------------------------------------------------
(* A timeout comes more than Limit - 1 ms after the beginning: time_ms()   *)
(* rounds down twice, which costs less than one millisecond.               *)
TimeoutNotEarly ==
  at = "timeout" => now - begun > TicksPerMs * (Limit - 1)

(* After the loop the code looks at the last byte it read; it has read one.*)
(* (sd_send_cmd starts with data = 0, which would pass for the R1 of a     *)
(* ready card, and sd_send_cmd12 with an uninitialised byte.)              *)
TimeoutHasPolled == at = "timeout" => polled

(* An answer that is there one step before the limit is taken, although    *)
(* the time is tested before the bus.                                      *)
AnswerInTimeTaken ==
  at = "timeout" /\ answered => Ms(since + MaxStep) >= time + Limit

(* The loop ends, by an answer or by the limit.                            *)
LoopEnds == at = "test" ~> at \in {"answer", "timeout"}

(* "//Wait 2 ms for SD card" (sd.c:33), "//Timout after 100ms" (sd.c:161): *)
(* the wait lasts at least Limit ms.  It does not hold (README, 7).        *)
WaitsInFull == at = "timeout" => now - begun >= TicksPerMs * Limit
=============================================================================
