----------------------------- MODULE DevicesMC -----------------------------
(* Serial: FIFOs shorter than a number with its newline, so that the       *)
(* driver has to wait in the middle of one, numbers of one to three binary *)
(* digits, and a buffer with room for exactly those.  Display: a step may  *)
(* pass half of the blank, the longest that the assumption allows, and     *)
(* several phases of the beam against the polls occur.  Cache: a first, a  *)
(* last and two blocks between them, every alignment of both ends, ranges  *)
(* up to the end of the address space; the frame buffer has two blocks.    *)
EXTENDS Devices

MCUartDepth == 2
MCRadix == 2
MCNums == {0, 1, 2, 6}
MCLabel == <<MCRadix + 2>>
MCSize == 5
=============================================================================
