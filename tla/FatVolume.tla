----------------------------- MODULE FatVolume -----------------------------
(***************************************************************************)
(* A FAT volume as ff.c sees it once it is mounted, and what the volume    *)
(* holds by definition: the chain of a file, its bytes, the entry that a   *)
(* path leads to.  The first group of operators translates ff.c, the       *)
(* second is the reference that the state machine FatFs is checked against.*)
(*                                                                         *)
(* A volume v has the fields that mount_volume computes (type, csize,      *)
(* n_fatent, fatbase, dirbase, database, n_rootdir; csize and n_fatent in  *)
(* sectors and entries), the FAT (fat: the value of each cluster's entry), *)
(* and the sectors that hold directory entries (ent: other sectors read as *)
(* the end of a directory).                                                *)
(***************************************************************************)
EXTENDS Integers, Sequences

CONSTANTS SS,        \* bytes per sector
          SZDIRE,    \* bytes per directory entry
          MAX_DIR    \* bound on the size of a directory, in bytes

ASSUME FatAssumption ==
  /\ SS \in Nat \ {0} /\ SZDIRE \in Nat \ {0} /\ MAX_DIR \in Nat \ {0}
  /\ SS % 4 = 0 /\ SS % SZDIRE = 0 /\ MAX_DIR % SZDIRE = 0

(* get_fat: no cluster number, the values of FAT entries are 28 bits wide. *)
DISK_ERR == 268435456

(* The window holds no sector.                                             *)
NoSector == -1

Clusters(v) == 2 .. v.n_fatent - 1

(* clst2sect: 0 if there is no such cluster.                               *)
Clst2Sect(v, clst) ==
  IF clst \in Clusters(v) THEN v.database + v.csize * (clst - 2) ELSE 0

(* The sectors where get_fat finds the first and the last byte of the      *)
(* entry of a cluster; a FAT12 entry may lie across two.                   *)
FatSector(v, clst) ==
  v.fatbase + CASE v.type = "FAT12" -> (clst + clst \div 2) \div SS
                [] v.type = "FAT16" -> clst \div (SS \div 2)
                [] v.type = "FAT32" -> clst \div (SS \div 4)

FatSectorLast(v, clst) ==
  IF v.type = "FAT12" THEN v.fatbase + (clst + clst \div 2 + 1) \div SS
                      ELSE FatSector(v, clst)

EndEntry == [name |-> "end", attr |-> "none", clust |-> 0, size |-> 0]

(* The entry at offset ofs of a directory that has it in sector sect.      *)
EntryAt(v, sect, ofs) ==
  IF sect \in DOMAIN v.ent THEN v.ent[sect][(ofs % SS) \div SZDIRE + 1] ELSE EndEntry

(* dir_sdi(dp, 0): where a directory begins; cluster 0 is the root.        *)
DirSdi(v, sclust) ==
  LET clst == IF sclust = 0 /\ v.type = "FAT32" THEN v.dirbase ELSE sclust
  IN  [clust |-> clst, dptr |-> 0,
       sect  |-> IF clst = 0 THEN v.dirbase ELSE Clst2Sect(v, clst)]

-----------------------------------------------------------------------------
(* The k-th cluster of a chain, counted from 0, or 0 if the chain ends, or *)
(* breaks, before it.                                                      *)
Link(v, first, k) ==
  LET L[i \in 0 .. k] ==
        LET before == L[i - 1]
            c == IF i = 0 THEN first ELSE IF before = 0 THEN 0 ELSE v.fat[before]
        IN  IF c \in Clusters(v) THEN c ELSE 0
  IN  L[k]

ClusterBytes(v) == v.csize * SS

(* Byte i of a file, counted from 0: the place on the volume it is at.     *)
FileByte(v, first, i) ==
  LET c == Link(v, first, i \div ClusterBytes(v))
  IN  IF c = 0 THEN <<0, 0>>
      ELSE <<Clst2Sect(v, c) + (i % ClusterBytes(v)) \div SS, i % SS>>

(* The bytes of a file as far as its chain goes.                           *)
FileBytes(v, first, size) ==
  LET byte == [i \in 1 .. size |-> FileByte(v, first, i - 1)]
      n == CHOOSE m \in 0 .. size : /\ \A i \in 1 .. m : byte[i] # <<0, 0>>
                                    /\ m = size \/ byte[m + 1] = <<0, 0>>
  IN  SubSeq(byte, 1, n)

(* Entry k of a directory, or an end if the directory has ended (eot),     *)
(* or an error if its chain is broken there, or it has no sector at all.   *)
EntryNo(v, sclust, k) ==
  LET d == DirSdi(v, sclust)
      i == (k * SZDIRE) \div ClusterBytes(v)
      c == Link(v, d.clust, i)
      before == IF i = 0 THEN 0 ELSE Link(v, d.clust, i - 1)
      broken == [EndEntry EXCEPT !.name = "broken"]
  IN  IF d.sect = 0 THEN broken
      ELSE IF d.clust = 0
      THEN IF k < v.n_rootdir THEN EntryAt(v, v.dirbase + (k * SZDIRE) \div SS, k * SZDIRE)
                              ELSE EndEntry
      ELSE IF c # 0
      THEN EntryAt(v, Clst2Sect(v, c) + ((k * SZDIRE) % ClusterBytes(v)) \div SS, k * SZDIRE)
      ELSE IF before # 0 /\ v.fat[before] >= v.n_fatent THEN EndEntry
      ELSE broken

(* The first entry of that name that is not a volume label; or where the   *)
(* search comes to an end without it.                                      *)
StopsAt(e, name) == e.name \in {"end", "broken"} \/ (e.name = name /\ e.attr # "vol")

Lookup(v, sclust, name) ==
  LET Stops == {k \in 0 .. MAX_DIR \div SZDIRE - 1 : StopsAt(EntryNo(v, sclust, k), name)}
  IN  IF Stops = {} THEN EndEntry
      ELSE EntryNo(v, sclust, CHOOSE k \in Stops : \A j \in Stops : k <= j)

(* The entries on the way along a path, from the root directory, and the   *)
(* one it leads to.                                                        *)
Route(v, path) ==
  LET T[i \in 0 .. Len(path)] ==
        LET parent == T[i - 1]
        IN  IF i = 0 THEN [EndEntry EXCEPT !.name = "root", !.attr = "dir"]
            ELSE IF parent.name \in {"end", "broken"} THEN parent
            ELSE IF parent.attr # "dir" THEN EndEntry
            ELSE Lookup(v, parent.clust, path[i])
  IN  T

Target(v, path) == Route(v, path)[Len(path)]
=============================================================================
