----------------------------- MODULE WaitLoopMC -----------------------------
(* A millisecond of four ticks: the loop begins at every offset into one.  *)
(* The timer's bound leaves the loop time to end from each.                *)
EXTENDS WaitLoop

MCTicksPerMs == 4
MCLimit == 3
MCMaxStep == 2
MCMaxTime == 24
TwoMs == 2
=============================================================================
