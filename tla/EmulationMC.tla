---------------------------- MODULE EmulationMC ----------------------------
(* Words of four bytes of one bit: sixteen addresses, four words, half     *)
(* words of two bytes.  The words at 4 and 8 may be mapped, the one at 0   *)
(* may be read at most: its number is also load_reservation's "none".      *)
EXTENDS Emulation

I(op, rd, rs1, rs2, fn) == [op |-> op, rd |-> rd, rs1 |-> rs1, rs2 |-> rs2, fn |-> fn]
MCRegs == {0, SP, 5, 6}
MCInstrs ==
  {I("lr", rd, 5, 0, "") : rd \in {0, 5, 6}} \cup {I("sc", 6, 5, 6, "")} \cup
  {I("amo", 6, 5, 6, fn) : fn \in {"add", "swap", "min", "maxu"}} \cup {I("amo", 0, 5, 0, "add")} \cup
  {I(op, 6, 5, 0, "") : op \in Loads} \cup {I(op, 0, 5, 6, "") : op \in Stores}
(* The same with the stack pointer.                                        *)
MCWithSp == MCInstrs \cup {I("lw", SP, 5, 0, ""), I("sw", 0, 5, SP, ""), I("amo", 6, 5, SP, "swap")}

MCValues == {4, 7}
Map(w0, w4, w8) == [a \in {0, 4, 8, 12} |->
  CASE a = 0 -> w0 [] a = 4 -> w4 [] a = 8 -> w8 [] a = 12 -> "none"]
MCMaps == {Map("none", "rw", "rw"), Map("ro", "rw", "ro"), Map("none", "ro", "none"),
           Map("none", "none", "rw")}
=============================================================================
