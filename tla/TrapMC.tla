------------------------------ MODULE TrapMC ------------------------------
(* A frame of three cells below _sp; mscratch is anything at reset.        *)
EXTENDS Trap

MCSps == {20, 30}
MCMscratch == {0, 9, 30}
MCValues == {0, 1}
=============================================================================
