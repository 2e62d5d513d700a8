----------------------------- MODULE FatFsMC -----------------------------
(* Sectors of four bytes and entries of two: a FAT sector then holds two   *)
(* entries of a FAT16 and one of a FAT32, and entries of a FAT12 lie       *)
(* across two sectors.  n_fatent stands for the end of a chain.  A         *)
(* directory may have eight entries.                                       *)
EXTENDS FatFs, TLC

MCSS == 4
MCSzDirE == 2
MCMaxDir == 16

E(name, attr, clust, size) == [name |-> name, attr |-> attr, clust |-> clust, size |-> size]
Other == E("O", "none", 0, 0)
Label == E("F", "vol", 0, 0)

(* Clusters of two sectors; the file F in clusters 5, 2, 4; a directory D  *)
(* in cluster 3 that fills it; the label of the volume is F too.           *)
V16 == [type |-> "FAT16", csize |-> 2, n_fatent |-> 6, fatbase |-> 1, dirbase |-> 4,
        database |-> 6, n_rootdir |-> 4,
        fat |-> 2 :> 4 @@ 3 :> 6 @@ 4 :> 6 @@ 5 :> 2,
        ent |-> 4 :> <<Label, E("D", "dir", 3, 0)>> @@ 5 :> <<E("F", "none", 5, 19), Other>>
             @@ 8 :> <<Other, Other>> @@ 9 :> <<Other, E("G", "none", 0, 0)>>]

(* Clusters of one sector; a full root directory.                          *)
V12 == [type |-> "FAT12", csize |-> 1, n_fatent |-> 6, fatbase |-> 1, dirbase |-> 4,
        database |-> 5, n_rootdir |-> 2,
        fat |-> 2 :> 5 @@ 3 :> 6 @@ 4 :> 6 @@ 5 :> 3,
        ent |-> 4 :> <<E("F", "none", 2, 11), E("D", "dir", 4, 0)>>
             @@ 7 :> <<EndEntry, EndEntry>>]

(* The root directory, and D, in chains.                                   *)
V32 == [type |-> "FAT32", csize |-> 1, n_fatent |-> 8, fatbase |-> 1, dirbase |-> 2,
        database |-> 9, n_rootdir |-> 0,
        fat |-> 2 :> 7 @@ 3 :> 5 @@ 4 :> 6 @@ 5 :> 8 @@ 6 :> 8 @@ 7 :> 8,
        ent |-> 9 :> <<Other, E("D", "dir", 4, 0)>> @@ 14 :> <<E("F", "none", 3, 6), EndEntry>>
             @@ 11 :> <<Other, Other>> @@ 13 :> <<E("G", "none", 5, 3), Other>>]

(* Broken: a file whose chain is too short or circular; a directory, and  *)
(* a file, that begin nowhere; a root directory that is circular, or that  *)
(* begins nowhere; a file that begins at 0xFFFFFFFF.                       *)
Broken ==
  {[V16 EXCEPT !.fat[2] = v] : v \in {6, 2}} \cup
  {[V16 EXCEPT !.ent[4][2].clust = 6, !.ent[5][1].clust = 0]} \cup
  {[V32 EXCEPT !.fat[7] = 2, !.ent[14][1].name = "O", !.ent[14][2] = Other]} \cup
  {[V32 EXCEPT !.dirbase = 0], [V32 EXCEPT !.ent[14][1].clust = DISK_ERR]}

MCVolumes == {V16, V12, V32} \cup Broken

Op(op, path, n) == [op |-> op, path |-> path, n |-> n]
MCRequests ==
  {Op(op, <<>>, 0) : op \in {"mount", "unmount", "close", "open"}} \cup
  {Op("open", p, 0) : p \in {<<"F">>, <<"D", "G">>, <<"D">>, <<"F", "G">>}} \cup
  {Op("read", <<>>, n) : n \in {3, 9}} \cup
  {Op("seek", <<>>, n) : n \in {0, 8, 30}}
AllFaults == {"init", "read", "nofs"}
=============================================================================
