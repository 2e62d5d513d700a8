------------------------------- MODULE SpiMC -------------------------------
(* FIFOs of two entries: one more than the driver ever uses, and enough    *)
(* for bytes left over from before a reset to be in each of them.          *)
EXTENDS Spi

MCBytes == {0, 1}
MCDepth == 2
=============================================================================
