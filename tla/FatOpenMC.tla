----------------------------- MODULE FatOpenMC -----------------------------
(* Volumes: DWORDs of eight bits, sectors of four bytes and directory      *)
(* entries of two; FAT12 up to 3 clusters, FAT16 up to 6, FAT32 up to 12.  *)
(* Names: a body of three bytes and an extension of two: both hold a       *)
(* character of two bytes, and the body has room for one with a byte left  *)
(* over.                                                                   *)
EXTENDS FatOpen, TLC

MCSS == 4
MCSzDirE == 2

Base == [jump |-> TRUE, sign |-> TRUE, fat32 |-> FALSE, bps |-> 4, spc |-> 1, nrsv |-> 1,
         nfats |-> 1, nroot |-> 2, tot16 |-> 10, tot32 |-> 0, fatsz16 |-> 4, fatsz32 |-> 0,
         ver |-> 0, rootclus |-> 2]
NotFat == [Base EXCEPT !.jump = FALSE]
NoBs == [NotFat EXCEPT !.sign = FALSE]

(* A volume in sector 0: sizes and counts around every limit.              *)
Old == {[Base EXCEPT !.spc = c, !.nrsv = r, !.nfats = n, !.nroot = d,
                     !.tot16 = t, !.fatsz16 = f] :
          c \in 0 .. 3, r \in 0 .. 2, n \in 1 .. 3, d \in {0, 2, 3, 4},
          t \in {0} \cup 4 .. 22, f \in 0 .. 4}
Early == {[Base EXCEPT !.sign = FALSE, !.tot16 = t, !.tot32 = u, !.nfats = n] :
            t \in 0 .. 9, u \in {0, 15, 16, 20}, n \in 0 .. 3}
New == {[Base EXCEPT !.fat32 = TRUE, !.spc = c, !.nrsv = r, !.nfats = n, !.nroot = d, !.tot16 = 0,
                     !.tot32 = t, !.fatsz16 = 0, !.fatsz32 = f, !.ver = v] :
          c \in {1, 2}, r \in {1, 2, 250}, n \in 1 .. 2, d \in {0, 2},
          t \in {0, 20, 255} \cup 8 .. 36, f \in {0, 8, 12, 14, 127, 130}, v \in 0 .. 1}
Sfd == {[pt |-> <<0, 0, 0, 0>>, sector |-> 0 :> b] :
          b \in Old \cup Early \cup New \cup {NoBs, [Base EXCEPT !.bps = 8], [Base EXCEPT !.bps = 8, !.fat32 = TRUE]}}

(* Partitions, which may be missing, be none of FAT, or be a volume that   *)
(* mount_volume refuses; two of them may begin at the same sector.         *)
Mbr == {[pt |-> <<p, q, r, s>>, sector |-> 0 :> NotFat @@ 5 :> a @@ 30 :> b] :
          p \in {0, 5, 30}, q \in {0, 5, 30}, r \in {0, 5}, s \in {0, 30},
          a \in {Base, NotFat, NoBs, [Base EXCEPT !.nrsv = 0, !.fat32 = TRUE]},
          b \in {Base, NotFat, [Base EXCEPT !.tot16 = 12]}}
MCDrives == Sfd \cup Mbr

=============================================================================
