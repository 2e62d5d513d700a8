----------------------------- MODULE FatMount -----------------------------
(***************************************************************************)
(* mount_volume (ff.c): find_volume looks for a FAT volume on the drive,   *)
(* in sector 0 and then in the partitions of its MBR, one read at a time;  *)
(* then the fields of the volume's boot sector become the geometry that    *)
(* the rest of FatFs works with.                                           *)
(*                                                                         *)
(* DWORDs are numbers below 2^Width.  A boot sector b has the fields       *)
(* jump (a jump code), sign (55AA), fat32 (the name of the filesystem),    *)
(* and, as the BPB names them: bps, spc, nrsv, nfats, nroot, tot16, tot32, *)
(* fatsz16, fatsz32, ver, rootclus.                                        *)
(***************************************************************************)
EXTENDS FatVolume

CONSTANTS
  Width,                          \* of a DWORD, in bits
  MAX_FAT12, MAX_FAT16, MAX_FAT32,  \* clusters of each type at most
  MinTot16, MinTot32,             \* 128 and 0x10000: see PlausibleBpb
  Drives                          \* [pt : four numbers, sector : boot sectors]

Parts == 1 .. 4

(* What the drive gives can be read as numbers; no more is assumed of it.  *)
ASSUME MountAssumption ==
  /\ Width \in Nat
  /\ \A d \in Drives :
       /\ 0 \in DOMAIN d.sector /\ DOMAIN d.sector \subseteq Nat
       /\ \A i \in Parts : d.pt[i] = 0 \/ d.pt[i] \in DOMAIN d.sector
       /\ \A s \in DOMAIN d.sector :
            LET b == d.sector[s]
            IN  {b.spc, b.nrsv, b.nfats, b.nroot, b.tot16, b.tot32, b.fatsz16, b.fatsz32} \subseteq Nat

AtBpb == 5
AtEnd == 6

VARIABLES
  drive,
  at,       \* 0 for sector 0, the partition that is looked at, AtBpb or AtEnd
  winsect,  \* the sector in the window, or NoSector
  fmt,      \* what check_fs made of it (0 is a FAT volume)
  result,
  volume,   \* the geometry, once mounted
  unread    \* history: the sectors that could not be read

mountVars == <<drive, at, winsect, fmt, result, volume, unread>>

NoFs == [type |-> "none"]

MountInit ==
  /\ drive \in Drives
  /\ at = 0 /\ winsect = NoSector /\ fmt = 3
  /\ result = "RUNNING" /\ volume = NoFs /\ unread = {}

PowerOf2(n) == n # 0 /\ \E k \in 0 .. Width - 1 : n = 2 ^ k

(* A volume of the days before 55AA, or one with it that is not a FAT32.   *)
PlausibleBpb(b) ==
  /\ b.bps = SS /\ PowerOf2(b.spc) /\ b.nrsv # 0 /\ b.nfats \in {1, 2} /\ b.nroot # 0
  /\ b.tot16 >= MinTot16 \/ b.tot32 >= MinTot32
  /\ b.fatsz16 # 0

(* check_fs, of a sector that was read.                                    *)
CheckFs(b) ==
  CASE b.jump /\ ((b.sign /\ b.fat32) \/ PlausibleBpb(b)) -> 0
    [] b.sign /\ ~(b.jump /\ (b.fat32 \/ PlausibleBpb(b))) -> 2
    [] OTHER -> 3

(* The sector is read and looked at; 4 is a read that failed.              *)
Look(sect) ==
  \/ winsect' = sect /\ fmt' = CheckFs(drive.sector[sect]) /\ UNCHANGED unread
  \/ winsect' = NoSector /\ fmt' = 4 /\ unread' = unread \cup {sect}

(* Mutant: a valid boot sector is taken for a volume.                      *)
FindsAnyBs(f) ==
  IF f < 3 THEN at' = AtBpb /\ UNCHANGED result
  ELSE at' = AtEnd /\ result' = IF f = 4 THEN "FR_DISK_ERR" ELSE "FR_NO_FILESYSTEM"

Finds(f) ==
  IF f < 2 THEN at' = AtBpb /\ UNCHANGED result
  ELSE at' = AtEnd /\ result' = IF f = 4 THEN "FR_DISK_ERR" ELSE "FR_NO_FILESYSTEM"

(* find_volume: sector 0 is a volume (SFD), or has the partition table.    *)
FindInSector0 ==
  /\ at = 0 /\ Look(0)
  /\ IF fmt' = 2 THEN at' = 1 /\ UNCHANGED result ELSE Finds(fmt')
  /\ UNCHANGED <<drive, volume>>

(* Mutant: the volume is the last partition's that has one.                *)
GoesOnToLast(f, i) == i < 4

(* It goes on to the next partition, whatever was wrong with this one.     *)
GoesOn(f, i) == f >= 2 /\ i < 4

FindInPartition ==
  /\ at \in Parts
  /\ IF drive.pt[at] # 0 THEN Look(drive.pt[at])
                         ELSE fmt' = 3 /\ UNCHANGED <<winsect, unread>>
  /\ IF GoesOn(fmt', at) THEN at' = at + 1 /\ UNCHANGED result ELSE Finds(fmt')
  /\ UNCHANGED <<drive, volume>>

-----------------------------------------------------------------------------
Dword(n) == n % 2 ^ Width
Either(a, b) == IF a # 0 THEN a ELSE b

EntriesPerSector == SS \div SZDIRE
FatSize(b) == Either(b.fatsz16, b.fatsz32)
TotalSectors(b) == Either(b.tot16, b.tot32)
FatArea(b) == Dword(FatSize(b) * b.nfats)
SysSectors(b) == Dword(b.nrsv + FatArea(b) + b.nroot \div EntriesPerSector)
ClusterCount(b) == (TotalSectors(b) - SysSectors(b)) \div b.spc

TypeOf(nclst) ==
  CASE nclst \in 0 .. MAX_FAT12             -> "FAT12"
    [] nclst \in MAX_FAT12 + 1 .. MAX_FAT16 -> "FAT16"
    [] nclst \in MAX_FAT16 + 1 .. MAX_FAT32 -> "FAT32"
    [] OTHER -> "none"

(* Mutant: two entries too few are asked for.                              *)
FatBytesNeededShort(type, n_fatent) ==
  CASE type = "FAT32" -> (n_fatent - 2) * 4
    [] type = "FAT16" -> (n_fatent - 2) * 2
    [] type = "FAT12" -> ((n_fatent - 2) * 3) \div 2

FatBytesNeeded(type, n_fatent) ==
  CASE type = "FAT32" -> n_fatent * 4
    [] type = "FAT16" -> n_fatent * 2
    [] type = "FAT12" -> (n_fatent * 3) \div 2 + (n_fatent % 2)

(* What mount_volume makes of the boot sector of a volume at bsect, or     *)
(* NoFs if it refuses it.                                                  *)
Geometry(b, bsect) ==
  LET type == TypeOf(ClusterCount(b))
      n_fatent == ClusterCount(b) + 2
      fatbase == Dword(bsect + b.nrsv)
  IN  IF /\ b.bps = SS /\ b.nfats \in {1, 2} /\ PowerOf2(b.spc)
         /\ b.nroot % EntriesPerSector = 0 /\ b.nrsv # 0
         /\ TotalSectors(b) >= SysSectors(b)
         /\ ClusterCount(b) # 0 /\ type # "none"
         /\ IF type = "FAT32" THEN b.ver = 0 /\ b.nroot = 0 ELSE b.nroot # 0
         /\ FatSize(b) >= (FatBytesNeeded(type, n_fatent) + SS - 1) \div SS
      THEN [type |-> type, csize |-> b.spc, n_fatent |-> n_fatent, volbase |-> bsect,
            fatbase |-> fatbase, fsize |-> FatSize(b), n_fats |-> b.nfats,
            dirbase |-> IF type = "FAT32" THEN b.rootclus ELSE Dword(fatbase + FatArea(b)),
            database |-> Dword(bsect + SysSectors(b)), n_rootdir |-> b.nroot]
      ELSE NoFs

ReadBpb ==
  /\ at = AtBpb /\ at' = AtEnd
  /\ volume' = Geometry(drive.sector[winsect], winsect)
  /\ result' = IF volume' = NoFs THEN "FR_NO_FILESYSTEM" ELSE "FR_OK"
  /\ UNCHANGED <<drive, winsect, fmt, unread>>

MountNext == FindInSector0 \/ FindInPartition \/ ReadBpb

MountSpec == MountInit /\ [][MountNext]_mountVars

-----------------------------------------------------------------------------
MountTypeOK ==
  /\ at \in 0 .. AtEnd /\ (at = AtBpb => fmt = 0 /\ winsect # NoSector)
  /\ winsect \in (DOMAIN drive.sector) \cup {NoSector} /\ fmt \in {0, 2, 3, 4}
  /\ result \in {"RUNNING", "FR_OK", "FR_DISK_ERR", "FR_NO_FILESYSTEM"}
  /\ (at = AtEnd <=> result # "RUNNING") /\ (result = "FR_OK" <=> volume # NoFs)
  /\ unread \subseteq DOMAIN drive.sector

(* The geometry of a volume that is mounted holds together: FATs, root     *)
(* directory and clusters lie on the volume, in this order and apart from  *)
(* each other, and each cluster has its entry in the first FAT.  Where     *)
(* numbers of a boot sector are so large that DWORDs wrap nothing is said. *)
NoWrap ==
  LET b == drive.sector[winsect]
  IN  b.nrsv + FatSize(b) * b.nfats + b.nroot < 2 ^ Width /\ winsect + TotalSectors(b) < 2 ^ Width

GeometryHolds ==
  result = "FR_OK" /\ NoWrap =>
    LET fatsEnd == volume.fatbase + volume.n_fats * volume.fsize
        rootEnd == fatsEnd + (volume.n_rootdir * SZDIRE) \div SS
    IN  /\ volume.volbase < volume.fatbase
        /\ volume.type # "FAT32" => volume.dirbase = fatsEnd
        /\ rootEnd = volume.database
        /\ \A c \in Clusters(volume) :
             /\ Clst2Sect(volume, c) + volume.csize <= volume.volbase + TotalSectors(drive.sector[winsect])
             /\ FatSectorLast(volume, c) < volume.fatbase + volume.fsize

(* The volume mounted is sector 0's, or that of the first partition that   *)
(* has one among those that could be read.                                 *)
IsVolume(sect) == CheckFs(drive.sector[sect]) = 0
FirstReadable ==
  result = "FR_OK" =>
    \/ winsect = 0 /\ IsVolume(0)
    \/ \E i \in Parts :
         /\ winsect = drive.pt[i] /\ IsVolume(winsect)
         /\ \A j \in 1 .. i - 1 :
              drive.pt[j] = 0 \/ drive.pt[j] \in unread \/ ~IsVolume(drive.pt[j])

(* "An error occurred in the disk I/O layer" is what a mount that fails    *)
(* for it tells (ff.c:3516), and not that there is no filesystem.  It does *)
(* not hold (README, 7).                                                   *)
DiskErrorTold == result = "FR_NO_FILESYSTEM" => unread = {}
=============================================================================
