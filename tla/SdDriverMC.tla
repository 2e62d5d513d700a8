----------------------------- MODULE SdDriverMC -----------------------------
(* Four blocks and reads of up to three: first, middle and last block of a *)
(* multi-block read, single reads, and reads that end with the card.       *)
EXTENDS SdDriver

MCLastLba == 3
MCMaxCount == 3
AllFaults == FaultKinds
Lost == {"lost"}
Stall == {"stall"}
=============================================================================
