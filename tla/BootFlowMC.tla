----------------------------- MODULE BootFlowMC -----------------------------
(* Regions of three cells for the device tree, the firmware and the        *)
(* kernel, and pieces of two cells: a file may be missing, exactly one     *)
(* piece, a piece and a half, or two pieces and too large for its region   *)
(* (each file takes three or fewer of these, to limit the combinations).   *)
EXTENDS BootFlow

MCDtb == 0
MCOpensbi == 3
MCKernel == 6
MCFrame == 9
MCLoad == 2
MCMaxSize == 4
MCCards == {c \in [Names -> {Missing, 2, 3, 4}] :
              /\ c["idk.raw"] \in {Missing, 3}
              /\ c["image.bin"] # 2 /\ c["tree.dtb"] # 2 /\ c["fw_jump.bin"] # 3}
AllFaults == {"fail", "halfopen"}
=============================================================================
