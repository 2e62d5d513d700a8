------------------------------ MODULE RdTimeMC ------------------------------
(* Small words, so that several carries happen while a call is in progress *)
(* and every relative position of timer and reader is reached.             *)
EXTENDS RdTime

MCWord == 3
MCMaxHigh == 3
=============================================================================
