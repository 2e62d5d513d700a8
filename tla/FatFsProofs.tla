---------------------------- MODULE FatFsProofs ----------------------------
(***************************************************************************)
(* FatFs, for sectors and volumes of any size and shape (broken ones too), *)
(* any calls in any order and any faults: its two buffers and the state of *)
(* its drive, the types of all its state, and the cursors of its file.     *)
(* Then the mount of a volume, for any drive: which volume is found, and   *)
(* that its geometry holds together.  Then the contract: that the calls    *)
(* implement FileApi, and that what errors tell is so.  Last the names: in *)
(* fields of any width, from paths of any length.                          *)
(***************************************************************************)
EXTENDS FatFs, FatOpen, Induction, SequenceTheorems, TLAPS

(* The fields of a FIL and a FATFS that matter here.                       *)
IsFil(f) == {"open", "err", "sect", "buf"} \subseteq DOMAIN f
IsFatfs(f) == {"mounted", "up", "ready"} \subseteq DOMAIN f

(* What BufferTrue says of a file object, and what it is for a change of   *)
(* it to be harmless.                                                      *)
BufTrue(f) == f.open /\ f.err = "FR_OK" /\ f.sect # 0 => f.buf = f.sect

FileInv == IsFil(fp) /\ BufTrue(fp)

Reading == {"dir_find", "dir_next", "cluster", "sector", "follow"}
DriveInv ==
  /\ IsFatfs(fs)
  /\ fs.mounted => fs.ready
  /\ pc \in Reading => fs.ready

IInv == WindowTrue /\ FileInv /\ DriveInv

LEMMA InitIInv == Init => IInv
BY DEF Init, IInv, WindowTrue, FileInv, IsFil, BufTrue, DriveInv, IsFatfs, Reading

-----------------------------------------------------------------------------
(* The window.                                                             *)
LEMMA MoveWindowTrue ==
  ASSUME NEW sect, NEW ok \in BOOLEAN, WindowTrue, MoveWindow(sect, ok)
  PROVE  WindowTrue'
BY DEF MoveWindow, WindowTrue

LEMMA GetFatTrue ==
  ASSUME NEW clst, NEW val, WindowTrue, GetFat(clst, val)
  PROVE  WindowTrue'
BY DEF GetFat, MoveWindow, WindowTrue

LEMMA MountTrue ==
  ASSUME NEW f, NEW r, WindowTrue, MountVolume(f, r)
  PROVE  WindowTrue'
BY DEF MountVolume, Mount, WindowTrue

LEMMA WindowStep == WindowTrue /\ [Next]_vars => WindowTrue'
<1> SUFFICES ASSUME WindowTrue, [Next]_vars PROVE WindowTrue'
  OBVIOUS
<1>1. CASE UNCHANGED win
  BY <1>1 DEF WindowTrue
<1>2. CASE FMount
  BY <1>2, MountTrue DEF FMount
<1>3. CASE FOpen
  BY <1>3, MountTrue DEF FOpen
<1>4. CASE DirFind
  BY <1>4, MoveWindowTrue DEF DirFind
<1>5. CASE DirNext
  <2>1. UNCHANGED win \/ \E val \in FatValues(vol) : GetFat(dp.clust, val)
    BY <1>5 DEF DirNext
  <2> QED
    BY <1>1, <2>1, GetFatTrue
<1>6. CASE ReadCluster
  <2>1. UNCHANGED win \/ \E val \in FatValues(vol) : GetFat(fp.clust, val)
    BY <1>6 DEF ReadCluster
  <2> QED
    BY <1>1, <2>1, GetFatTrue
<1>7. CASE SeekFollow
  <2>1. \E val \in FatValues(vol) : GetFat(fp.clust, val)
    BY <1>7 DEF SeekFollow
  <2> QED
    BY <2>1, GetFatTrue
<1>8. CASE FUnmount \/ FRead \/ ReadSector
  BY <1>1, <1>8 DEF FUnmount, FRead, ReadSector
<1>9. CASE FLseek \/ SeekSector \/ FClose
  BY <1>1, <1>9 DEF FLseek, SeekSector, FClose
<1>10. CASE UNCHANGED vars \/ \E q \in Requests : Call(q)
  BY <1>1, <1>10 DEF vars, Call
<1> QED
  BY <1>2, <1>3, <1>4, <1>5, <1>6, <1>7, <1>8, <1>9, <1>10 DEF Next, Step

-----------------------------------------------------------------------------
(* The file's buffer.  Three kinds of change keep it true: of the position *)
(* or the cluster, to an error, and to a sector that has been read.        *)
LEMMA OtherFields ==
  ASSUME NEW f, IsFil(f), NEW v
  PROVE  /\ IsFil([f EXCEPT !.fptr = v]) /\ IsFil([f EXCEPT !.clust = v])
         /\ BufTrue(f) => BufTrue([f EXCEPT !.fptr = v]) /\ BufTrue([f EXCEPT !.clust = v])
BY DEF IsFil, BufTrue

LEMMA ErrorField ==
  ASSUME NEW f, IsFil(f), NEW r, r # "FR_OK"
  PROVE  /\ IsFil([f EXCEPT !.err = r]) /\ BufTrue([f EXCEPT !.err = r])
         /\ IsFil([f EXCEPT !.err = r, !.buf = Junk]) /\ BufTrue([f EXCEPT !.err = r, !.buf = Junk])
         /\ IsFil([f EXCEPT !.open = FALSE]) /\ BufTrue([f EXCEPT !.open = FALSE])
BY DEF IsFil, BufTrue

LEMMA SectorRead ==
  ASSUME NEW f, IsFil(f), NEW sect
  PROVE  /\ IsFil([f EXCEPT !.sect = sect, !.buf = sect])
         /\ BufTrue([f EXCEPT !.sect = sect, !.buf = sect])
BY DEF IsFil, BufTrue

LEMMA FileAborts ==
  ASSUME FileInv, NEW r, r # "FR_OK", Abort(r)
  PROVE  FileInv'
BY ErrorField DEF FileInv, Abort, BufTrue, IsFil

LEMMA FileOpenFails ==
  ASSUME FileInv, NEW r, OpenFails(r)
  PROVE  FileInv'
BY DEF FileInv, OpenFails, BufTrue, IsFil

LEMMA FileAdvances ==
  ASSUME NEW f, IsFil(f), BufTrue(f), NEW sect, NEW from, NEW n, Advance(sect, from, n, f)
  PROVE  FileInv'
<1>1. fp' = [f EXCEPT !.fptr = f.fptr + n]
  BY DEF Advance
<1> QED
  BY <1>1, OtherFields DEF FileInv

LEMMA FileFound ==
  ASSUME FileInv, NEW e, Found(e)
  PROVE  FileInv'
<1>1. CASE Opened(e)
  BY <1>1 DEF Opened, FileInv, IsFil, BufTrue
<1>2. ASSUME NEW clst, NEW path, Search(clst, path) PROVE FileInv'
  BY <1>2, FileOpenFails DEF Search, FileInv
<1> QED
  BY <1>1, <1>2, FileOpenFails DEF Found

LEMMA FileStep == FileInv /\ [Next]_vars => FileInv'
<1> SUFFICES ASSUME FileInv, [Next]_vars PROVE FileInv'
  OBVIOUS
<1>1. CASE UNCHANGED fp
  BY <1>1 DEF FileInv
<1>2. CASE FOpen
  BY <1>1, <1>2, FileOpenFails DEF FOpen, OpensRoot, Search
<1>3. CASE DirFind
  BY <1>1, <1>3, FileOpenFails, FileFound DEF DirFind, NotFound
<1>4. CASE DirNext
  <2>1. UNCHANGED fp \/ \E r : OpenFails(r)
    BY <1>4, Zenon DEF DirNext, NotFound
  <2> QED
    BY <1>1, <2>1, FileOpenFails
<1>5. CASE FRead
  BY <1>1, <1>5 DEF FRead, Refuse
<1>6. CASE ReadCluster
  <2>1. \/ UNCHANGED fp \/ Abort("FR_INT_ERR") \/ Abort("FR_DISK_ERR")
        \/ \E clst : fp' = [fp EXCEPT !.clust = clst]
    BY <1>6, Zenon DEF ReadCluster
  <2> QED
    BY <1>1, <2>1, FileAborts, OtherFields DEF FileInv
<1>7. CASE ReadSector
  <2> DEFINE sect == Clst2Sect(vol, fp.clust) + Csect
             rest == Smaller(SS - (fp.fptr % SS), call.n)
             read == [fp EXCEPT !.sect = sect, !.buf = sect]
             junk == [fp EXCEPT !.err = "FR_DISK_ERR", !.buf = Junk]
  <2>1. \/ Abort("FR_INT_ERR") \/ Abort("FR_DISK_ERR") \/ fp' = junk
        \/ \E s, from, n : Advance(s, from, n, fp)
        \/ Advance(sect, 0, rest, read)
    BY <1>7, Zenon DEF ReadSector
  <2>2. IsFil(read) /\ BufTrue(read) /\ IsFil(junk) /\ BufTrue(junk)
    BY SectorRead, ErrorField DEF FileInv
  <2>3. ASSUME Advance(sect, 0, rest, read) PROVE FileInv'
    BY <2>2, <2>3, FileAdvances
  <2>4. ASSUME NEW s, NEW from, NEW n, Advance(s, from, n, fp) PROVE FileInv'
    BY <2>4, FileAdvances DEF FileInv
  <2>5. ASSUME fp' = junk PROVE FileInv'
    BY <2>2, <2>5 DEF FileInv
  <2> QED
    BY <2>1, <2>3, <2>4, <2>5, FileAborts
<1>8. CASE FLseek
  <2>1. \/ UNCHANGED fp
        \/ \E v : fp' = [fp EXCEPT !.fptr = v]
        \/ \E v, c : fp' = [fp EXCEPT !.fptr = v, !.clust = c]
    BY <1>8, Zenon DEF FLseek, Refuse
  <2> QED
    BY <1>1, <2>1 DEF FileInv, IsFil, BufTrue
<1>9. CASE SeekFollow
  <2> DEFINE f == [fp EXCEPT !.fptr = fp.fptr + ClusterBytes(vol)]
  <2>1. \/ \E c : fp' = [f EXCEPT !.clust = c]
        \/ fp' = [f EXCEPT !.err = "FR_DISK_ERR"]
        \/ fp' = [f EXCEPT !.err = "FR_INT_ERR"]
    BY <1>9, Zenon DEF SeekFollow
  <2>2. IsFil(f) /\ BufTrue(f)
    BY OtherFields DEF FileInv
  <2> HIDE DEF f
  <2> QED
    BY <2>1, <2>2 DEF FileInv, IsFil, BufTrue
<1>10. CASE SeekSector
  <2> DEFINE f == [fp EXCEPT !.fptr = fp.fptr + call.n]
             sect == Clst2Sect(vol, fp.clust) + call.n \div SS
  <2>1. \/ fp' = f
        \/ fp' = [f EXCEPT !.err = "FR_INT_ERR"]
        \/ fp' = [f EXCEPT !.sect = sect, !.buf = sect]
        \/ fp' = [f EXCEPT !.err = "FR_DISK_ERR", !.buf = Junk]
    BY <1>10, Zenon DEF SeekSector
  <2>2. IsFil(f) /\ BufTrue(f)
    BY OtherFields DEF FileInv
  <2> HIDE DEF f, sect
  <2> QED
    BY <2>1, <2>2 DEF FileInv, IsFil, BufTrue
<1>11. CASE FClose
  BY <1>1, <1>11 DEF FClose, FileInv, IsFil, BufTrue
<1> QED
  BY <1>1, <1>2, <1>3, <1>4, <1>5, <1>6, <1>7, <1>8, <1>9, <1>10, <1>11
     DEF Next, Step, FMount, FUnmount, Call, vars

-----------------------------------------------------------------------------
(* The drive.                                                              *)
LEMMA MountReady ==
  ASSUME NEW f, IsFatfs(f), f.mounted => f.ready, NEW r, MountVolume(f, r)
  PROVE  /\ IsFatfs(fs')
         /\ fs'.mounted => fs'.ready
         /\ r = "FR_OK" => fs'.ready
BY DEF MountVolume, Mount, IsFatfs

LEMMA DriveStep == DriveInv /\ [Next]_vars => DriveInv'
<1> SUFFICES ASSUME DriveInv, [Next]_vars PROVE DriveInv'
  OBVIOUS
<1>1. CASE UNCHANGED <<fs, pc>>
  BY <1>1 DEF DriveInv
<1>2. CASE \E q \in Requests : Call(q)
  BY <1>2, RequestsAssumption DEF Call, DriveInv, Reading
<1>3. CASE FMount
  <2>1. PICK r \in MountResults :
          MountVolume([fs EXCEPT !.registered = TRUE, !.mounted = FALSE], r) /\ Return(r)
    BY <1>3 DEF FMount
  <2>2. IsFatfs([fs EXCEPT !.registered = TRUE, !.mounted = FALSE])
    BY DEF DriveInv, IsFatfs
  <2>3. ~[fs EXCEPT !.registered = TRUE, !.mounted = FALSE].mounted
    BY DEF DriveInv, IsFatfs
  <2> QED
    BY <2>1, <2>2, <2>3, MountReady DEF Return, DriveInv, Reading
<1>4. CASE FUnmount
  BY <1>4 DEF FUnmount, Return, DriveInv, IsFatfs, Reading
<1>5. CASE FOpen
  <2>1. PICK r \in MountResults :
          /\ MountVolume(fs, r)
          /\ IF r # "FR_OK" THEN OpenFails(r)
             ELSE IF call.q.path = <<>> THEN OpensRoot
             ELSE Search(0, call.q.path)
    BY <1>5 DEF FOpen
  <2>2. IsFatfs(fs') /\ (fs'.mounted => fs'.ready) /\ (r = "FR_OK" => fs'.ready)
    BY <2>1, MountReady DEF DriveInv
  <2>3. r # "FR_OK" => pc' = "idle"
    BY <2>1 DEF OpenFails, Return
  <2> QED
    BY <2>2, <2>3 DEF DriveInv, Reading
<1>6. CASE FRead
  BY <1>6 DEF FRead, MayUse, Valid, Refuse, Return, DriveInv, Reading
<1>7. CASE FLseek
  <2>1. fs' = fs /\ (pc' = "idle" \/ Valid)
    BY <1>7, Zenon DEF FLseek, MayUse, Refuse, Return
  <2> QED
    BY <2>1 DEF Valid, DriveInv, Reading
<1>8. CASE FClose
  BY <1>8 DEF FClose, Return, DriveInv, Reading
<1>9. CASE DirFind \/ DirNext \/ ReadCluster \/ ReadSector \/ SeekFollow \/ SeekSector
  <2>1. fs' = fs /\ pc \in Reading
    BY <1>9 DEF DirFind, DirNext, ReadCluster, ReadSector, SeekFollow, SeekSector, Reading
  <2> QED
    BY <2>1 DEF DriveInv
<1> QED
  BY <1>1, <1>2, <1>3, <1>4, <1>5, <1>6, <1>7, <1>8, <1>9 DEF Next, Step, vars

-----------------------------------------------------------------------------
(* The inductive invariant holds in every reachable state.                 *)
THEOREM Invariance == Spec => []IInv
<1>1. IInv /\ [Next]_vars => IInv'
  BY WindowStep, FileStep, DriveStep DEF IInv
<1> QED
  BY <1>1, InitIInv, PTL DEF Spec

(* The window holds the sector it is taken for.                            *)
THEOREM WindowIsTrue == Spec => []WindowTrue
<1>1. IInv => WindowTrue
  BY DEF IInv
<1> QED
  BY <1>1, Invariance, PTL

(* So does the buffer of a file that has not been spoilt by an error.      *)
THEOREM BufferIsTrue == Spec => []BufferTrue
<1>1. IInv => BufferTrue
  BY DEF IInv, FileInv, BufTrue, BufferTrue
<1> QED
  BY <1>1, Invariance, PTL

(* Whatever fails, neither buffer is ever taken for another sector.        *)
THEOREM BuffersAreTrue == Spec => []BuffersTrue
<1>1. WindowTrue /\ BufferTrue => BuffersTrue
  BY DEF BuffersTrue
<1> QED
  BY <1>1, WindowIsTrue, BufferIsTrue, PTL

(* Sectors are read only from a drive whose last initialisation succeeded, *)
(* although SD_init outlives one that fails.                               *)
THEOREM DriveIsReady == Spec => []DriveReady
<1>1. IInv => DriveReady
  BY DEF IInv, DriveInv, Reading, DriveReady
<1> QED
  BY <1>1, Invariance, PTL

-----------------------------------------------------------------------------
(* Chains.  Link is the last element of a function defined by recursion:   *)
(* that there is one function for each length, and that a longer one       *)
(* continues a shorter one, is shown by induction.                         *)
ChainStep(v, first, L, i) ==
  LET before == L[i - 1]
      c == IF i = 0 THEN first ELSE IF before = 0 THEN 0 ELSE v.fat[before]
  IN  IF c \in Clusters(v) THEN c ELSE 0

IsChain(v, first, k, L) == L = [i \in 0 .. k |-> ChainStep(v, first, L, i)]

LEMMA ChainExists ==
  ASSUME NEW v, NEW first, NEW k \in Nat
  PROVE  \E L : IsChain(v, first, k, L)
<1> DEFINE T == {n \in Nat : \E L : IsChain(v, first, n, L)}
<1>1. 0 \in T
  <2> DEFINE L == [i \in 0 .. 0 |-> IF first \in Clusters(v) THEN first ELSE 0]
  <2>1. \A i \in 0 .. 0 : L[i] = ChainStep(v, first, L, i)
    BY DEF ChainStep
  <2>2. IsChain(v, first, 0, L)
    BY <2>1 DEF IsChain
  <2> QED
    BY <2>2
<1>2. ASSUME NEW n \in Nat, n \in T PROVE n + 1 \in T
  <2>1. PICK L : IsChain(v, first, n, L)
    BY <1>2
  <2> DEFINE K == [i \in 0 .. n + 1 |-> IF i <= n THEN L[i] ELSE ChainStep(v, first, L, n + 1)]
  <2>2. \A i \in 0 .. n : K[i] = L[i] /\ L[i] = ChainStep(v, first, L, i)
    BY <2>1 DEF IsChain
  <2>3. K[n + 1] = ChainStep(v, first, L, n + 1)
    OBVIOUS
  <2>4. \A i \in 0 .. n + 1 : ChainStep(v, first, K, i) = ChainStep(v, first, L, i)
    <3> SUFFICES ASSUME NEW i \in 0 .. n + 1
                 PROVE  ChainStep(v, first, K, i) = ChainStep(v, first, L, i)
      OBVIOUS
    <3> HIDE DEF K
    <3>1. CASE i = 0
      BY <3>1 DEF ChainStep
    <3>2. CASE i # 0
      <4>1. i - 1 \in 0 .. n
        BY <3>2
      <4>2. K[i - 1] = L[i - 1]
        BY <2>2, <4>1
      <4> QED
        BY <4>2 DEF ChainStep
    <3> QED
      BY <3>1, <3>2
  <2>5. \A i \in 0 .. n + 1 : K[i] = ChainStep(v, first, K, i)
    <3> SUFFICES ASSUME NEW i \in 0 .. n + 1 PROVE K[i] = ChainStep(v, first, K, i)
      OBVIOUS
    <3> HIDE DEF K
    <3>1. i \in 0 .. n \/ i = n + 1
      OBVIOUS
    <3> QED
      BY <2>2, <2>3, <2>4, <3>1
  <2>6. IsChain(v, first, n + 1, K)
    BY <2>5 DEF IsChain
  <2> QED
    BY <2>6
<1> HIDE DEF T
<1>3. k \in T
  BY <1>1, <1>2, SetInduction
<1> QED
  BY <1>3 DEF T

LEMMA ChainsAgree ==
  ASSUME NEW v, NEW first, NEW k \in Nat, NEW n \in Nat,
         NEW L, NEW K, IsChain(v, first, k, L), IsChain(v, first, n, K)
  PROVE  \A i \in Nat : i <= k /\ i <= n => L[i] = K[i]
<1> DEFINE T == {i \in Nat : i <= k /\ i <= n => L[i] = K[i]}
<1>1. \A i \in Nat : /\ i <= k => L[i] = ChainStep(v, first, L, i)
                     /\ i <= n => K[i] = ChainStep(v, first, K, i)
  BY DEF IsChain
<1>2. 0 \in T
  BY <1>1 DEF ChainStep
<1>3. ASSUME NEW i \in Nat, i \in T PROVE i + 1 \in T
  <2>1. (i + 1) - 1 = i /\ i + 1 # 0
    OBVIOUS
  <2>2. L[i] = K[i] => ChainStep(v, first, L, i + 1) = ChainStep(v, first, K, i + 1)
    BY <2>1 DEF ChainStep
  <2> QED
    BY <1>1, <1>3, <2>2
<1> HIDE DEF T
<1>4. Nat \subseteq T
  BY <1>2, <1>3, SetInduction
<1> QED
  BY <1>4 DEF T

LEMMA LinkIsChain ==
  ASSUME NEW v, NEW first, NEW k \in Nat
  PROVE  \E L : IsChain(v, first, k, L) /\ Link(v, first, k) = L[k]
<1> DEFINE L == CHOOSE L : IsChain(v, first, k, L)
<1>1. Link(v, first, k) = L[k]
  BY DEF Link, IsChain, ChainStep
<1>2. IsChain(v, first, k, L)
  BY ChainExists
<1> QED
  BY <1>1, <1>2

(* The first cluster of a chain, and the one that follows another.         *)
LEMMA FirstLink ==
  ASSUME NEW v, NEW first
  PROVE  Link(v, first, 0) = IF first \in Clusters(v) THEN first ELSE 0
<1>1. PICK L : IsChain(v, first, 0, L) /\ Link(v, first, 0) = L[0]
  BY LinkIsChain
<1>2. L[0] = ChainStep(v, first, L, 0)
  BY <1>1 DEF IsChain
<1> QED
  BY <1>1, <1>2 DEF ChainStep

LEMMA NextLink ==
  ASSUME NEW v, NEW first, NEW k \in Nat
  PROVE  Link(v, first, k + 1) =
           LET c == IF Link(v, first, k) = 0 THEN 0 ELSE v.fat[Link(v, first, k)]
           IN  IF c \in Clusters(v) THEN c ELSE 0
<1>1. PICK L : IsChain(v, first, k, L) /\ Link(v, first, k) = L[k]
  BY LinkIsChain
<1>2. PICK K : IsChain(v, first, k + 1, K) /\ Link(v, first, k + 1) = K[k + 1]
  BY LinkIsChain
<1>3. L[k] = K[k]
  BY <1>1, <1>2, ChainsAgree
<1>4. K[k + 1] = ChainStep(v, first, K, k + 1)
  BY <1>2 DEF IsChain
<1>5. (k + 1) - 1 = k /\ k + 1 # 0
  OBVIOUS
<1> QED
  BY <1>1, <1>2, <1>3, <1>4, <1>5 DEF ChainStep

-----------------------------------------------------------------------------
(* Types.                                                                  *)
FileErrors == {"FR_OK", "FR_DISK_ERR", "FR_INT_ERR"}
FilType ==
  [open : BOOLEAN, id : 0 .. MaxMounts, sclust : Nat, size : Nat, err : FileErrors,
   fptr : Nat, clust : Nat, sect : Nat, buf : Int]
FatfsType ==
  [registered : BOOLEAN, mounted : BOOLEAN, id : 0 .. MaxMounts, up : BOOLEAN, ready : BOOLEAN]
CallType == [q : Requests, n : Nat, fptr : Nat, err : FileErrors]
DirType(P) == [clust : Nat, sect : Nat, dptr : Nat, path : P]
WindowType == [tag : Int, holds : Int]
Steps == {"idle", "mount", "unmount", "open", "read", "seek", "close",
          "dir_find", "dir_next", "cluster", "sector", "follow"}

TypeInv ==
  /\ vol \in Volumes /\ fs \in FatfsType /\ win \in WindowType /\ fp \in FilType
  /\ (\E P : dp \in DirType(P)) /\ pc \in Steps /\ call \in CallType
  /\ res \in Results /\ (res = "RUNNING" <=> pc # "idle")
  /\ failed \in BOOLEAN

(* A mount that is called for has room in Fsid; a volume is mounted only   *)
(* while its drive is up.                                                  *)
MountInv ==
  /\ fs.mounted => fs.up
  /\ pc = "mount" => fs.id < MaxMounts
  /\ pc = "open" => fs.id < MaxMounts \/ fs.mounted

(* f_read and f_lseek stay in the file.                                    *)
InFile ==
  /\ fp.open /\ fp.err = "FR_OK" => fp.fptr <= fp.size
  /\ pc \in {"cluster", "sector", "follow"} =>
       fp.open /\ fp.err = "FR_OK" /\ fp.fptr + call.n <= fp.size

LEMMA Sentinels == DISK_ERR \in Nat /\ Junk \in Int /\ NoSector \in Int
BY DEF DISK_ERR, Junk, NoSector

LEMMA VolumeNumbers ==
  ASSUME NEW v \in Volumes
  PROVE  /\ v.csize \in Nat \ {0} /\ v.n_fatent \in Nat /\ v.n_fatent < DISK_ERR /\ v.n_fatent > 2
         /\ v.fatbase \in Nat /\ v.dirbase \in Nat /\ v.database \in Nat /\ v.n_rootdir \in Nat
         /\ ClusterBytes(v) \in Nat \ {0} /\ v.database # 0
<1>1. /\ v.csize \in Nat \ {0} /\ v.n_fatent \in 3 .. DISK_ERR - 1
      /\ v.fatbase \in Nat /\ v.dirbase \in Nat /\ v.database \in Nat \ {0} /\ v.n_rootdir \in Nat
  BY VolumesAssumption
<1>2. SS \in Nat \ {0}
  BY FatAssumption
<1>3. v.csize * SS \in Nat \ {0}
  <2> DEFINE c == v.csize
  <2>1. c \in Nat \ {0}
    BY <1>1
  <2> HIDE DEF c
  <2>2. c * SS \in Nat \ {0}
    BY <1>2, <2>1
  <2> QED
    BY <2>2 DEF c
<1> QED
  BY <1>1, <1>3, Sentinels DEF ClusterBytes

(* Sectors have numbers, whatever the cluster.                             *)
LEMMA ClusterSector ==
  ASSUME NEW v \in Volumes, NEW c
  PROVE  Clst2Sect(v, c) \in Nat
<1>1. CASE c \in Clusters(v)
  <2>1. c - 2 \in Nat
    BY <1>1, VolumeNumbers DEF Clusters
  <2>2. v.csize * (c - 2) \in Nat
    BY <2>1, VolumeNumbers, ProductOfNats
  <2> QED
    BY <2>2, VolumeNumbers DEF Clst2Sect
<1>2. CASE c \notin Clusters(v)
  BY <1>2 DEF Clst2Sect
<1> QED
  BY <1>1, <1>2

LEMMA FatSectors ==
  ASSUME NEW v \in Volumes, NEW c \in Clusters(v)
  PROVE  FatSector(v, c) \in Nat /\ FatSectorLast(v, c) \in Nat
<1>1. c \in Nat
  BY VolumeNumbers DEF Clusters
<1>2. SS \in Nat \ {0} /\ SS \div 2 \in Nat \ {0} /\ SS \div 4 \in Nat \ {0}
  BY FatAssumption
<1>3. \A a \in Nat, d \in Nat \ {0} : a \div d \in Nat
  BY DivMod
<1>4. /\ (c + c \div 2) \div SS \in Nat /\ (c + c \div 2 + 1) \div SS \in Nat
      /\ c \div (SS \div 2) \in Nat /\ c \div (SS \div 4) \in Nat
  <2> DEFINE a == c + c \div 2
             b == c + c \div 2 + 1
             s2 == SS \div 2
             s4 == SS \div 4
  <2>1. a \in Nat /\ b \in Nat /\ s2 \in Nat \ {0} /\ s4 \in Nat \ {0}
    BY <1>1, <1>2
  <2> HIDE DEF a, b, s2, s4
  <2>2. a \div SS \in Nat /\ b \div SS \in Nat /\ c \div s2 \in Nat /\ c \div s4 \in Nat
    BY <1>1, <1>2, <1>3, <2>1
  <2> QED
    BY <2>2 DEF a, b, s2, s4
<1>5. v.fatbase \in Nat /\ v.type \in {"FAT12", "FAT16", "FAT32"}
  BY VolumesAssumption
<1>6. CASE v.type = "FAT12"
  BY <1>4, <1>5, <1>6 DEF FatSector, FatSectorLast
<1>7. CASE v.type = "FAT16"
  BY <1>4, <1>5, <1>7 DEF FatSector, FatSectorLast
<1>8. CASE v.type = "FAT32"
  BY <1>4, <1>5, <1>8 DEF FatSector, FatSectorLast
<1> QED
  BY <1>5, <1>6, <1>7, <1>8

LEMMA EntryNumbers ==
  ASSUME NEW v \in Volumes, NEW sect, NEW ofs \in Nat
  PROVE  /\ EntryAt(v, sect, ofs).clust \in Nat /\ EntryAt(v, sect, ofs).size \in Nat
         /\ EntryAt(v, sect, ofs).clust \in FatValues(v)
         /\ EntryAt(v, sect, ofs).name # "broken"
<1>0. FatValues(v) \subseteq Nat /\ 0 \in FatValues(v)
  BY VolumeNumbers, Sentinels DEF FatValues
<1>1. CASE sect \in DOMAIN v.ent
  <2> DEFINE i == (ofs % SS) \div SZDIRE + 1
  <2>1. i \in 1 .. SS \div SZDIRE
    <3> DEFINE n == SS \div SZDIRE
               r == ofs % SS
               k == r \div SZDIRE
    <3>1. SS \in Nat \ {0} /\ SZDIRE \in Nat \ {0} /\ SS % SZDIRE = 0
      BY FatAssumption
    <3>2. r \in 0 .. SS - 1
      BY <3>1, DivMod
    <3>3. n \in Nat /\ SS = SZDIRE * n
      BY <3>1, DivMod
    <3> HIDE DEF n, r
    <3>4. k \in Nat /\ r = SZDIRE * k + (r % SZDIRE) /\ r % SZDIRE \in Nat
      BY <3>1, <3>2, DivMod
    <3> HIDE DEF k
    <3>5. k < n
      <4>1. SUFFICES ASSUME n <= k PROVE FALSE
        BY <3>3, <3>4
      <4>2. SZDIRE * n <= SZDIRE * k
        BY <3>1, <3>3, <3>4, <4>1, ProductMonotone
      <4>3. SZDIRE * k \in Nat /\ SZDIRE * n \in Nat
        BY <3>1, <3>3, <3>4, ProductOfNats
      <4> QED
        BY <3>2, <3>3, <3>4, <4>2, <4>3
    <3>6. k + 1 \in 1 .. n
      BY <3>3, <3>4, <3>5
    <3> QED
      BY <3>6 DEF n, k, r
  <2> HIDE DEF i
  <2>2. /\ v.ent[sect][i].clust \in FatValues(v) /\ v.ent[sect][i].size \in Nat
        /\ v.ent[sect][i].name # "broken"
    BY <1>1, <2>1, VolumesAssumption
  <2> QED
    BY <1>0, <1>1, <2>2 DEF EntryAt, i
<1>2. CASE sect \notin DOMAIN v.ent
  BY <1>0, <1>2 DEF EntryAt, EndEntry
<1> QED
  BY <1>1, <1>2

(* What the changes of the state leave of the types.                       *)
LEMMA FaultType ==
  ASSUME failed \in BOOLEAN, NEW f, Fault(f)
  PROVE  failed' \in BOOLEAN
BY DEF Fault

LEMMA WindowMoves ==
  ASSUME win \in WindowType, failed \in BOOLEAN, NEW sect \in Nat, NEW ok \in BOOLEAN,
         MoveWindow(sect, ok)
  PROVE  win' \in WindowType /\ failed' \in BOOLEAN
BY FaultType, Sentinels DEF MoveWindow, WindowType

LEMMA EntryRead ==
  ASSUME vol \in Volumes, win \in WindowType, failed \in BOOLEAN, WindowTrue,
         NEW clst \in Nat, NEW val, GetFat(clst, val)
  PROVE  /\ win' \in WindowType /\ failed' \in BOOLEAN
         /\ val = DISK_ERR => Fault("read")
         /\ val # DISK_ERR => UNCHANGED failed
         /\ val \in Clusters(vol) => clst \in Clusters(vol) /\ val = vol.fat[clst]
         /\ clst \in Clusters(vol) => val = vol.fat[clst] \/ val = DISK_ERR
         /\ clst \notin Clusters(vol) => val = 1
<1> DEFINE s == FatSector(vol, clst)
           last == FatSectorLast(vol, clst)
<1>1. CASE clst \notin Clusters(vol)
  <2>1. val = 1 /\ UNCHANGED <<win, failed>>
    BY <1>1 DEF GetFat, HasEntry
  <2>2. val \notin Clusters(vol) /\ val # DISK_ERR
    BY <2>1 DEF Clusters, DISK_ERR
  <2> QED
    BY <1>1, <2>1, <2>2
<1>2. CASE clst \in Clusters(vol)
  <2>1. s \in Nat /\ last \in Nat
    BY <1>2, FatSectors
  <2>2. ~(win.tag = s /\ win.holds # s)
    BY <2>1 DEF WindowTrue, NoSector
  <2>3. vol.fat[clst] \in 0 .. vol.n_fatent /\ vol.n_fatent < DISK_ERR /\ vol.n_fatent \in Nat
    BY <1>2, VolumesAssumption, VolumeNumbers
  <2>4. DISK_ERR \notin Clusters(vol) /\ vol.fat[clst] # DISK_ERR
    BY <2>3, Sentinels DEF Clusters
  <2> HIDE DEF s, last
  <2>5. \/ /\ MoveWindow(last, TRUE) \/ (win' = [tag |-> last, holds |-> last] /\ UNCHANGED failed)
           /\ val = vol.fat[clst]
        \/ /\ val = DISK_ERR
           /\ MoveWindow(last, FALSE) \/ (Fault("read") /\ win' = [tag |-> NoSector, holds |-> Junk])
    BY <1>2, <2>2 DEF GetFat, HasEntry, s, last
  <2>6. ASSUME MoveWindow(last, TRUE) PROVE win' \in WindowType /\ UNCHANGED failed
    <3>1. win' \in WindowType
      BY <2>1, <2>6, WindowMoves
    <3> QED
      BY <2>6, <3>1 DEF MoveWindow
  <2>7. ASSUME MoveWindow(last, FALSE) PROVE win' \in WindowType /\ Fault("read")
    <3>1. win' \in WindowType
      BY <2>1, <2>7, WindowMoves
    <3> QED
      BY <2>7, <3>1 DEF MoveWindow
  <2>8. [tag |-> last, holds |-> last] \in WindowType /\ [tag |-> NoSector, holds |-> Junk] \in WindowType
    BY <2>1, Sentinels DEF WindowType
  <2>9. CASE /\ MoveWindow(last, TRUE) \/ (win' = [tag |-> last, holds |-> last] /\ UNCHANGED failed)
             /\ val = vol.fat[clst]
    BY <1>2, <2>4, <2>6, <2>8, <2>9
  <2>10. CASE /\ val = DISK_ERR
              /\ MoveWindow(last, FALSE) \/ (Fault("read") /\ win' = [tag |-> NoSector, holds |-> Junk])
    BY <1>2, <2>4, <2>7, <2>8, <2>10, FaultType
  <2> QED
    BY <2>5, <2>9, <2>10
<1> QED
  BY <1>1, <1>2

LEMMA MountTypes ==
  ASSUME win \in WindowType, failed \in BOOLEAN, NEW f \in FatfsType, NEW r, MountVolume(f, r),
         f.mounted => f.up, f.id < MaxMounts \/ f.mounted
  PROVE  /\ fs' \in FatfsType /\ win' \in WindowType /\ failed' \in BOOLEAN
         /\ fs'.mounted => fs'.up
<1> DEFINE up == [f EXCEPT !.mounted = FALSE, !.up = TRUE, !.ready = TRUE]
           down == [f EXCEPT !.mounted = FALSE, !.ready = FALSE]
           ok == [up EXCEPT !.mounted = TRUE, !.id = up.id + 1]
<1>1. up \in FatfsType /\ ~up.mounted /\ up.id = f.id /\ up.up /\ down \in FatfsType /\ ~down.mounted
  BY DEF FatfsType
<1> HIDE DEF up
<1>2. f.id < MaxMounts => ok \in FatfsType /\ ok.up
  <2>1. f.id \in 0 .. MaxMounts
    BY DEF FatfsType
  <2>2. f.id < MaxMounts => up.id + 1 \in 0 .. MaxMounts
    BY <1>1, <2>1, RequestsAssumption
  <2>3. ASSUME NEW n \in 0 .. MaxMounts
        PROVE  [up EXCEPT !.mounted = TRUE, !.id = n] \in FatfsType
    BY <1>1, <2>3 DEF FatfsType
  <2>4. ok.up = up.up
    BY <1>1 DEF FatfsType
  <2> QED
    BY <1>1, <2>2, <2>3, <2>4
<1> HIDE DEF down, ok
<1>3. [tag |-> 0, holds |-> 0] \in WindowType /\ [tag |-> NoSector, holds |-> Junk] \in WindowType
  BY Sentinels DEF WindowType
<1>4. \/ fs' = f /\ UNCHANGED <<win, failed>>
      \/ /\ ~(f.mounted /\ f.up)
         /\ \/ Fault("init") /\ fs' = down /\ UNCHANGED win
            \/ Fault("read") /\ fs' = up /\ win' = [tag |-> NoSector, holds |-> Junk]
            \/ Fault("nofs") /\ fs' = up /\ win' = [tag |-> 0, holds |-> 0]
            \/ fs' = ok /\ win' = [tag |-> 0, holds |-> 0] /\ UNCHANGED failed
  BY DEF MountVolume, Mount, up, down, ok
<1>5. failed' \in BOOLEAN
  BY <1>4, FaultType
<1> QED
  BY <1>1, <1>2, <1>3, <1>4, <1>5

LEMMA FilFields ==
  ASSUME NEW f \in FilType
  PROVE  /\ f.open \in BOOLEAN /\ f.id \in 0 .. MaxMounts /\ f.err \in FileErrors
         /\ f.sclust \in Nat /\ f.size \in Nat /\ f.fptr \in Nat /\ f.clust \in Nat
         /\ f.sect \in Nat /\ f.buf \in Int
BY DEF FilType

LEMMA FilChanges ==
  ASSUME NEW f \in FilType, NEW n \in Nat, NEW c \in Nat, NEW b \in Int, NEW e \in FileErrors
  PROVE  /\ [f EXCEPT !.fptr = n] \in FilType /\ [f EXCEPT !.clust = c] \in FilType
         /\ [f EXCEPT !.fptr = n, !.clust = c] \in FilType
         /\ [f EXCEPT !.sect = c, !.buf = b] \in FilType
         /\ [f EXCEPT !.err = e] \in FilType /\ [f EXCEPT !.err = e, !.buf = b] \in FilType
         /\ [f EXCEPT !.open = FALSE] \in FilType
<1>1. [f EXCEPT !.fptr = n] \in FilType /\ [f EXCEPT !.clust = c] \in FilType
  BY DEF FilType
<1>2. [f EXCEPT !.fptr = n, !.clust = c] \in FilType
  BY DEF FilType
<1>3. [f EXCEPT !.sect = c, !.buf = b] \in FilType
  BY DEF FilType
<1>4. [f EXCEPT !.err = e] \in FilType
  BY DEF FilType
<1>5. [f EXCEPT !.err = e, !.buf = b] \in FilType
  BY DEF FilType
<1>6. [f EXCEPT !.open = FALSE] \in FilType
  BY DEF FilType
<1> QED
  BY <1>1, <1>2, <1>3, <1>4, <1>5, <1>6

LEMMA CallChanges ==
  ASSUME NEW c \in CallType, NEW n \in Nat
  PROVE  [c EXCEPT !.n = n] \in CallType /\ c.n \in Nat /\ c.err \in FileErrors /\ c.q \in Requests
BY DEF CallType

(* What a step leaves of the place it is at and the result.                *)
Answers == Results \ {"RUNNING", "NONE"}
PlaceType == pc \in Steps /\ res \in Results /\ (res = "RUNNING" <=> pc # "idle")

LEMMA Returns ==
  ASSUME NEW r \in Answers, Return(r)
  PROVE  PlaceType' /\ pc' = "idle"
BY DEF Return, Answers, Results, Steps, PlaceType

LEMMA Continues ==
  ASSUME PlaceType, pc # "idle", NEW next \in Steps \ {"idle", "mount", "open"}, Continue(next)
  PROVE  PlaceType' /\ pc' = next /\ pc' # "mount" /\ pc' # "open"
BY DEF Continue, PlaceType

LEMMA OpenEnds ==
  ASSUME fp \in FilType, NEW r \in Answers, OpenFails(r)
  PROVE  /\ PlaceType' /\ pc' = "idle" /\ fp' \in FilType /\ ~fp'.open
         /\ \E P : dp' \in DirType(P)
<1>1. NoDir \in DirType({<<>>})
  BY DEF NoDir, DirType
<1>2. [fp EXCEPT !.open = FALSE] \in FilType /\ ~[fp EXCEPT !.open = FALSE].open
  BY DEF FilType
<1> QED
  BY <1>1, <1>2, Returns DEF OpenFails

LEMMA SearchBegins ==
  ASSUME vol \in Volumes, fp \in FilType, PlaceType, pc # "idle",
         NEW sclust \in Nat, NEW path, Search(sclust, path)
  PROVE  /\ PlaceType' /\ pc' # "mount" /\ pc' # "open" /\ fp' \in FilType
         /\ \E P : dp' \in DirType(P)
         /\ pc' \in {"idle", "dir_find"} /\ (fp' = fp \/ ~fp'.open)
<1> DEFINE d == DirSdi(vol, sclust)
<1>1. d.clust \in Nat /\ d.sect \in Nat
  <2> DEFINE clst == IF sclust = 0 /\ vol.type = "FAT32" THEN vol.dirbase ELSE sclust
  <2>1. clst \in Nat
    BY VolumeNumbers
  <2>2. (IF clst = 0 THEN vol.dirbase ELSE Clst2Sect(vol, clst)) \in Nat
    BY VolumeNumbers, ClusterSector
  <2> HIDE DEF clst
  <2>3. d = [clust |-> clst, dptr |-> 0,
             sect |-> IF clst = 0 THEN vol.dirbase ELSE Clst2Sect(vol, clst)]
    BY DEF DirSdi, clst
  <2> QED
    BY <2>1, <2>2, <2>3
<1> HIDE DEF d
<1>2. CASE d.sect = 0
  <2>1. OpenFails("FR_INT_ERR")
    BY <1>2 DEF Search, d
  <2> QED
    BY <2>1, OpenEnds DEF Answers, Results
<1>3. CASE d.sect # 0
  <2>1. /\ Continue("dir_find") /\ UNCHANGED fp
        /\ dp' = [clust |-> d.clust, sect |-> d.sect, dptr |-> 0, path |-> path]
    BY <1>3 DEF Search, d
  <2>2. dp' \in DirType({path})
    BY <1>1, <2>1 DEF DirType
  <2> QED
    BY <2>1, <2>2, Continues DEF Steps
<1> QED
  BY <1>2, <1>3

LEMMA InitTypes == Init => TypeInv /\ MountInv /\ InFile
<1> SUFFICES ASSUME Init PROVE TypeInv /\ MountInv /\ InFile
  OBVIOUS
<1>1. fs \in FatfsType /\ ~fs.mounted
  BY RequestsAssumption DEF Init, FatfsType
<1>2. win \in WindowType
  BY Sentinels DEF Init, WindowType
<1>3. fp \in FilType /\ ~fp.open
  BY RequestsAssumption, Sentinels DEF Init, FilType, FileErrors
<1>4. dp \in DirType({<<>>})
  BY DEF Init, NoDir, DirType
<1>5. call \in CallType
  BY RequestsAssumption DEF Init, CallType, FileErrors
<1>6. vol \in Volumes /\ pc = "idle" /\ res = "NONE" /\ failed = FALSE
  BY DEF Init
<1> QED
  BY <1>1, <1>2, <1>3, <1>4, <1>5, <1>6 DEF TypeInv, MountInv, InFile, Steps, Results

(* One lemma for each group of actions.                                    *)
LEMMA CallTypes ==
  ASSUME TypeInv, MountInv, InFile, NEW q \in Requests, Call(q)
  PROVE  TypeInv' /\ MountInv' /\ InFile'
<1>1. call' = [q |-> q, n |-> q.n, fptr |-> fp.fptr, err |-> fp.err]
  BY DEF Call
<1>2. call' \in CallType
  BY <1>1, FilFields, RequestsAssumption DEF TypeInv, CallType
<1>3. /\ pc' = q.op /\ res' = "RUNNING" /\ failed' = FALSE /\ UNCHANGED <<vol, fs, win, fp, dp>>
      /\ fs.id < MaxMounts \/ q.op \notin {"mount", "open"} \/ (q.op = "open" /\ fs.mounted)
      /\ q.op \in {"mount", "unmount", "open", "read", "seek", "close"}
  BY RequestsAssumption DEF Call
<1>4. TypeInv'
  BY <1>2, <1>3 DEF TypeInv, Steps, Results
<1>5. MountInv'
  BY <1>3 DEF MountInv
<1> QED
  BY <1>3, <1>4, <1>5 DEF InFile

LEMMA MountStepTypes ==
  ASSUME TypeInv, MountInv, InFile, FMount
  PROVE  TypeInv' /\ MountInv' /\ InFile'
<1> DEFINE f == [fs EXCEPT !.registered = TRUE, !.mounted = FALSE]
<1>1. PICK r \in MountResults : MountVolume(f, r) /\ Return(r)
  BY DEF FMount
<1>2. f \in FatfsType /\ ~f.mounted /\ f.id = fs.id
  BY DEF TypeInv, FatfsType
<1>3. fs.id < MaxMounts
  BY DEF FMount, MountInv
<1> HIDE DEF f
<1>4. fs' \in FatfsType /\ win' \in WindowType /\ failed' \in BOOLEAN /\ (fs'.mounted => fs'.up)
  BY <1>1, <1>2, <1>3, MountTypes DEF TypeInv
<1>5. PlaceType' /\ pc' = "idle"
  BY <1>1, Returns DEF MountResults, Answers, Results
<1>6. UNCHANGED <<vol, fp, dp, call>>
  BY DEF FMount
<1>7. TypeInv'
  BY <1>4, <1>5, <1>6 DEF TypeInv, PlaceType
<1>8. MountInv' /\ InFile'
  BY <1>4, <1>5, <1>6 DEF MountInv, InFile
<1> QED
  BY <1>7, <1>8

LEMMA OpenStepTypes ==
  ASSUME TypeInv, MountInv, InFile, FOpen
  PROVE  TypeInv' /\ MountInv' /\ InFile'
<1>1. PICK r \in MountResults :
        /\ MountVolume(fs, r)
        /\ IF r # "FR_OK" THEN OpenFails(r)
           ELSE IF call.q.path = <<>> THEN OpensRoot
           ELSE Search(0, call.q.path)
  BY DEF FOpen
<1>2. fs' \in FatfsType /\ win' \in WindowType /\ failed' \in BOOLEAN /\ (fs'.mounted => fs'.up)
  BY <1>1, MountTypes DEF TypeInv, MountInv, FOpen
<1>3. /\ PlaceType' /\ pc' \in {"idle", "dir_find"} /\ fp' \in FilType
      /\ (\E P : dp' \in DirType(P)) /\ (fp' = fp \/ ~fp'.open)
  <2>1. CASE \E a \in Answers : OpenFails(a)
    BY <2>1, OpenEnds DEF TypeInv
  <2>3. OpensRoot => \E a \in Answers : OpenFails(a)
    BY DEF OpensRoot, Answers, Results
  <2>2. CASE Search(0, call.q.path)
    BY <2>2, SearchBegins DEF TypeInv, PlaceType, FOpen
  <2> QED
    BY <1>1, <2>1, <2>2, <2>3 DEF MountResults, Answers, Results
<1>4. UNCHANGED <<vol, call>>
  BY DEF FOpen
<1>5. TypeInv'
  BY <1>2, <1>3, <1>4 DEF TypeInv, PlaceType
<1>6. MountInv' /\ InFile'
  BY <1>2, <1>3, <1>4 DEF MountInv, InFile, FOpen
<1> QED
  BY <1>5, <1>6

LEMMA FoundTypes ==
  ASSUME TypeInv, InFile, pc = "dir_find", NEW e, e.clust \in Nat, e.size \in Nat, Found(e)
  PROVE  /\ PlaceType' /\ pc' \in {"idle", "dir_find"} /\ fp' \in FilType
         /\ \E P : dp' \in DirType(P)
         /\ fp'.open /\ fp'.err = "FR_OK" => fp'.fptr <= fp'.size
<1>1. CASE \E r \in Answers : OpenFails(r)
  BY <1>1, OpenEnds DEF TypeInv
<1>2. CASE Opened(e)
  <2>1. fp' = [open |-> TRUE, id |-> fs.id, sclust |-> e.clust, size |-> e.size, err |-> "FR_OK",
               fptr |-> 0, clust |-> fp.clust, sect |-> 0, buf |-> fp.buf]
    BY <1>2 DEF Opened
  <2>2. fs.id \in 0 .. MaxMounts /\ fp.clust \in Nat /\ fp.buf \in Int
    BY FilFields DEF TypeInv, FatfsType
  <2>3. fp' \in FilType /\ fp'.fptr = 0 /\ fp'.size \in Nat
    BY <2>1, <2>2 DEF FilType, FileErrors
  <2>4. NoDir \in DirType({<<>>})
    BY DEF NoDir, DirType
  <2> QED
    BY <1>2, <2>3, <2>4, Returns DEF Opened, Answers, Results
<1>3. CASE \E path : Search(e.clust, path)
  <2>1. fp' = fp \/ ~fp'.open
    BY <1>3, SearchBegins DEF TypeInv, PlaceType
  <2> QED
    BY <1>3, <2>1, SearchBegins DEF TypeInv, PlaceType, InFile
<1> QED
  BY <1>1, <1>2, <1>3 DEF Found, Answers, Results

LEMMA DirFindTypes ==
  ASSUME TypeInv, MountInv, InFile, DirFind
  PROVE  TypeInv' /\ MountInv' /\ InFile'
<1> DEFINE e == EntryAt(vol, win'.holds, dp.dptr)
<1>1. dp.sect \in Nat /\ dp.dptr \in Nat
  BY DEF TypeInv, DirType
<1>2. win' \in WindowType /\ failed' \in BOOLEAN
  BY <1>1, WindowMoves DEF DirFind, TypeInv
<1>3. e.clust \in Nat /\ e.size \in Nat
  BY <1>1, EntryNumbers DEF TypeInv
<1> HIDE DEF e
<1>4. /\ PlaceType' /\ pc' \in {"idle", "dir_find", "dir_next"} /\ fp' \in FilType
      /\ \E P : dp' \in DirType(P)
      /\ fp'.open /\ fp'.err = "FR_OK" => fp'.fptr <= fp'.size
  <2>1. CASE \E r \in Answers : OpenFails(r)
    BY <2>1, OpenEnds DEF TypeInv
  <2>2. CASE Found(e)
    BY <1>3, <2>2, FoundTypes DEF DirFind
  <2>3. CASE Continue("dir_next") /\ UNCHANGED <<fp, dp>>
    BY <2>3, Continues DEF TypeInv, PlaceType, Steps, InFile, DirFind
  <2> QED
    BY <2>1, <2>2, <2>3 DEF DirFind, NotFound, Answers, Results, e
<1>5. UNCHANGED <<vol, fs, call>>
  BY DEF DirFind
<1>6. TypeInv'
  BY <1>2, <1>4, <1>5 DEF TypeInv, PlaceType
<1>7. MountInv' /\ InFile'
  BY <1>4, <1>5 DEF MountInv, InFile
<1> QED
  BY <1>6, <1>7

LEMMA DirNextTypes ==
  ASSUME TypeInv, MountInv, InFile, WindowTrue, DirNext
  PROVE  TypeInv' /\ MountInv' /\ InFile'
<1> DEFINE ofs == NextOffset
           MoveTo(clst, sect) ==
             /\ dp' = [dp EXCEPT !.dptr = ofs, !.clust = clst, !.sect = sect]
             /\ Continue("dir_find") /\ UNCHANGED fp
<1>1. dp.clust \in Nat /\ dp.sect \in Nat /\ dp.dptr \in Nat /\ ofs \in Nat /\ vol \in Volumes
  BY FatAssumption DEF TypeInv, DirType, NextOffset
<1>2. pc = "dir_next"
  BY DEF DirNext
<1> HIDE DEF ofs
<1>3. \/ UNCHANGED <<win, failed>>
      \/ \E val \in FatValues(vol) : GetFat(dp.clust, val)
  BY DEF DirNext
<1>4. win' \in WindowType /\ failed' \in BOOLEAN
  BY <1>1, <1>3, EntryRead DEF TypeInv
<1>5. \/ \E r \in Answers : OpenFails(r)
      \/ \E c \in Nat, s \in Nat : MoveTo(c, s)
  <2>1. \/ NotFound \/ MoveTo(dp.clust, dp.sect) \/ MoveTo(dp.clust, dp.sect + 1)
        \/ OpenFails("FR_INT_ERR") \/ OpenFails("FR_DISK_ERR")
        \/ \E val \in FatValues(vol) : MoveTo(val, Clst2Sect(vol, val))
    BY Zenon DEF DirNext, ofs
  <2>2. NotFound => OpenFails("FR_NO_FILE") \/ OpenFails("FR_NO_PATH")
    BY DEF NotFound
  <2>3. \A val \in FatValues(vol) : val \in Nat /\ Clst2Sect(vol, val) \in Nat
    BY <1>1, VolumeNumbers, ClusterSector, Sentinels DEF FatValues
  <2>4. {"FR_NO_FILE", "FR_NO_PATH", "FR_INT_ERR", "FR_DISK_ERR"} \subseteq Answers
    BY DEF Answers, Results
  <2>5. dp.sect + 1 \in Nat
    BY <1>1
  <2> HIDE DEF MoveTo
  <2> QED
    BY <1>1, <2>1, <2>2, <2>3, <2>4, <2>5
<1>6. /\ PlaceType' /\ pc' \in {"idle", "dir_find"} /\ fp' \in FilType
      /\ (\E P : dp' \in DirType(P)) /\ (fp' = fp \/ ~fp'.open)
  <2>1. CASE \E r \in Answers : OpenFails(r)
    BY <2>1, OpenEnds DEF TypeInv
  <2>2. CASE \E c \in Nat, s \in Nat : MoveTo(c, s)
    <3>1. PICK c \in Nat, s \in Nat : MoveTo(c, s)
      BY <2>2
    <3>2. PICK P : dp \in DirType(P)
      BY DEF TypeInv
    <3>3. dp' \in DirType(P)
      BY <1>1, <3>1, <3>2 DEF DirType
    <3> QED
      BY <1>2, <3>1, <3>3, Continues DEF TypeInv, PlaceType, Steps
  <2> QED
    BY <1>5, <2>1, <2>2
<1>7. UNCHANGED <<vol, fs, call>>
  BY DEF DirNext
<1>8. TypeInv'
  BY <1>4, <1>6, <1>7 DEF TypeInv, PlaceType
<1>9. MountInv' /\ InFile'
  BY <1>2, <1>6, <1>7 DEF MountInv, InFile
<1> QED
  BY <1>8, <1>9

-----------------------------------------------------------------------------
(* The sector of a byte.                                                   *)
LEMMA ByteSector ==
  ASSUME NEW v \in Volumes, NEW first, NEW i \in Nat
  PROVE  LET c == Link(v, first, i \div ClusterBytes(v))
         IN  /\ i \div ClusterBytes(v) = (i \div SS) \div v.csize
             /\ i % ClusterBytes(v) = SS * ((i \div SS) % v.csize) + (i % SS)
             /\ FileByte(v, first, i)[1] =
                  IF c = 0 THEN 0 ELSE Clst2Sect(v, c) + ((i \div SS) % v.csize)
<1>1. v.csize \in Nat \ {0} /\ SS \in Nat \ {0}
  BY VolumeNumbers, FatAssumption
<1>2. /\ i \div ClusterBytes(v) = (i \div SS) \div v.csize
      /\ i % ClusterBytes(v) = SS * ((i \div SS) % v.csize) + (i % SS)
      /\ (i % ClusterBytes(v)) \div SS = (i \div SS) % v.csize
  <2> DEFINE n == v.csize
  <2>1. n \in Nat \ {0} /\ SS \in Nat \ {0}
    BY <1>1
  <2> HIDE DEF n
  <2>2. i \div (n * SS) = (i \div SS) \div n
    BY <2>1, DivByProduct, Zenon
  <2>3. i % (n * SS) = SS * ((i \div SS) % n) + (i % SS)
    BY <2>1, DivByProduct, Zenon
  <2>4. (i % (n * SS)) \div SS = (i \div SS) % n
    BY <2>1, DivByProduct, Zenon
  <2> QED
    BY <2>2, <2>3, <2>4, Zenon DEF ClusterBytes, n
<1> DEFINE c == Link(v, first, i \div ClusterBytes(v))
<1>3. FileByte(v, first, i) =
        IF c = 0 THEN <<0, 0>>
        ELSE <<Clst2Sect(v, c) + (i % ClusterBytes(v)) \div SS, i % SS>>
  BY DEF FileByte
<1> HIDE DEF c
<1>4. FileByte(v, first, i)[1] =
        IF c = 0 THEN 0 ELSE Clst2Sect(v, c) + (i % ClusterBytes(v)) \div SS
  BY <1>3
<1> QED
  BY <1>2, <1>4, Zenon DEF c

LEMMA SameSector ==
  ASSUME NEW v \in Volumes, NEW first, NEW i \in Nat, NEW j \in Nat, i \div SS = j \div SS
  PROVE  FileByte(v, first, i)[1] = FileByte(v, first, j)[1]
BY ByteSector

LEMMA Boundary ==
  ASSUME NEW v \in Volumes, NEW i \in Nat
  PROVE  i % ClusterBytes(v) = 0 <=> i % SS = 0 /\ (i \div SS) % v.csize = 0
<1> DEFINE x == (i \div SS) % v.csize
           y == i % SS
<1>1. SS \in Nat \ {0} /\ v.csize \in Nat \ {0}
  BY VolumeNumbers, FatAssumption
<1>2. i \div SS \in Nat /\ y \in Nat
  BY <1>1
<1>3. x \in Nat
  <2> DEFINE q == i \div SS
             n == v.csize
  <2>1. q \in Nat /\ n \in Nat \ {0}
    BY <1>1, <1>2
  <2> HIDE DEF q, n
  <2>2. q % n \in Nat
    BY <2>1, DivMod
  <2> QED
    BY <2>2 DEF q, n
<1>4. i % ClusterBytes(v) = SS * x + y
  BY ByteSector
<1> HIDE DEF x, y
<1>5. SS * x + y = 0 <=> x = 0 /\ y = 0
  BY <1>1, <1>2, <1>3
<1> QED
  BY <1>4, <1>5 DEF x, y

(* The first sector of a cluster is a place, so every place before it is   *)
(* in a cluster before it.                                                 *)
LEMMA WholeClusters ==
  ASSUME NEW v \in Volumes
  PROVE  ClusterBytes(v) % SS = 0 /\ \A i \in Nat : i % ClusterBytes(v) = 0 => i % SS = 0
<1>1. ClusterBytes(v) \in Nat \ {0}
  BY VolumeNumbers
<1>2. SS \in Nat \ {0} /\ v.csize \in Nat
  BY VolumeNumbers, FatAssumption
<1>3. ClusterBytes(v) = SS * v.csize + 0 /\ 0 \in 0 .. SS - 1
  BY <1>2 DEF ClusterBytes
<1>4. ClusterBytes(v) % SS = 0
  <2> DEFINE n == v.csize
  <2>1. n \in Nat /\ ClusterBytes(v) = SS * n + 0
    BY <1>2, <1>3
  <2> HIDE DEF n
  <2> QED
    BY <1>1, <1>2, <1>3, <2>1, DivModUnique
<1> QED
  BY <1>4, Boundary

-----------------------------------------------------------------------------
(* The cursor of a file: its cluster is the one of the byte before the     *)
(* position, or inside the loops of f_read and f_lseek the one of the      *)
(* byte at it; and inside a sector its sector is the one of the position.  *)
(* Of a cluster that is none nothing is said: no call goes on from it.     *)
OnChain(f, k) == f.clust \in Clusters(vol) => f.clust = Link(vol, f.sclust, k)
OnItsSector(f) == f.fptr % SS # 0 => f.sect = FileByte(vol, f.sclust, f.fptr)[1]

Resting ==
  fp.open /\ fp.err = "FR_OK" /\ pc \notin {"sector", "follow"} =>
    /\ fp.fptr > 0 => OnChain(fp, (fp.fptr - 1) \div ClusterBytes(vol))
    /\ OnItsSector(fp)
AtSector ==
  pc = "sector" =>
    call.n > 0 /\ OnChain(fp, fp.fptr \div ClusterBytes(vol)) /\ OnItsSector(fp)
AtFollow ==
  pc = "follow" =>
    /\ call.n > 0 /\ fp.fptr % ClusterBytes(vol) = 0
    /\ OnChain(fp, fp.fptr \div ClusterBytes(vol))
CursorInv == Resting /\ AtSector /\ AtFollow

CursorsInv == TypeInv /\ MountInv /\ InFile /\ CursorInv

LEMMA FileAborted ==
  ASSUME fp \in FilType, NEW r \in {"FR_DISK_ERR", "FR_INT_ERR"}, Abort(r)
  PROVE  PlaceType' /\ pc' = "idle" /\ fp' \in FilType /\ fp'.err # "FR_OK"
<1>1. r \in Answers /\ r \in FileErrors /\ r # "FR_OK"
  BY DEF Answers, Results, FileErrors
<1>2. fp' = [fp EXCEPT !.err = r] /\ Return(r)
  BY DEF Abort
<1>3. fp'.err = r /\ fp' \in FilType
  BY <1>1, <1>2 DEF FilType
<1> QED
  BY <1>1, <1>2, <1>3, Returns

(* A call that has ended, and left the file alone or spoilt it.            *)
LEMMA CursorEnds ==
  ASSUME CursorInv, pc \notin {"sector", "follow"}, pc' \notin {"sector", "follow"},
         UNCHANGED vol,
         \/ fp' = fp \/ ~fp'.open \/ fp'.err # "FR_OK" \/ fp'.fptr = 0
  PROVE  CursorInv'
<1>1. CASE fp' = fp
  BY <1>1 DEF CursorInv, Resting, AtSector, AtFollow, OnChain, OnItsSector
<1>2. CASE ~fp'.open \/ fp'.err # "FR_OK"
  BY <1>2 DEF CursorInv, Resting, AtSector, AtFollow
<1>3. CASE fp'.fptr = 0
  <2>1. fp'.fptr % SS = 0
    BY <1>3, FatAssumption
  <2> QED
    BY <1>3, <2>1 DEF CursorInv, Resting, AtSector, AtFollow, OnItsSector
<1> QED
  BY <1>1, <1>2, <1>3

LEMMA ReadBegins ==
  ASSUME CursorsInv, FRead
  PROVE  CursorsInv'
<1>1. UNCHANGED <<vol, fs, win, fp, dp, failed>> /\ pc = "read"
  BY DEF FRead, Refuse
<1>2. CASE ~MayUse /\ Refuse /\ UNCHANGED call
  <2>1. PICK r : Return(r) /\ r \in (FileErrors \ {"FR_OK"}) \cup {"FR_INVALID_OBJECT"}
    BY <1>2, FilFields DEF MayUse, Refuse, CursorsInv, TypeInv
  <2>2. PlaceType' /\ pc' = "idle"
    BY <2>1, Returns DEF Answers, Results, FileErrors
  <2>3. CursorInv'
    BY <1>1, <2>2, CursorEnds DEF CursorsInv
  <2> QED
    BY <1>1, <1>2, <2>2, <2>3 DEF CursorsInv, TypeInv, PlaceType, MountInv, InFile
<1>3. CASE MayUse /\ Continue("cluster") /\ call' = [call EXCEPT !.n = Smaller(@, fp.size - fp.fptr)]
  <2> DEFINE n == Smaller(call.n, fp.size - fp.fptr)
  <2>1. fp.open /\ fp.err = "FR_OK" /\ fp.fptr <= fp.size
    BY <1>3 DEF MayUse, Valid, CursorsInv, InFile
  <2>2. n \in Nat /\ fp.fptr + n <= fp.size
    <3>1. fp.fptr \in Nat /\ fp.size \in Nat /\ call.n \in Nat
      BY FilFields, CallChanges DEF CursorsInv, TypeInv
    <3> QED
      BY <2>1, <3>1 DEF Smaller
  <2>3. call' = [call EXCEPT !.n = n]
    BY <1>3
  <2> HIDE DEF n
  <2>4. call' \in CallType /\ call'.n = n
    BY <2>2, <2>3 DEF CallType, CursorsInv, TypeInv
  <2>5. PlaceType' /\ pc' = "cluster"
    BY <1>1, <1>3, Continues DEF CursorsInv, TypeInv, PlaceType, Steps
  <2>6. CursorInv'
    BY <1>1, <2>5, CursorEnds DEF CursorsInv
  <2> QED
    BY <1>1, <2>1, <2>2, <2>4, <2>5, <2>6 DEF CursorsInv, TypeInv, PlaceType, MountInv, InFile
<1> QED
  BY <1>2, <1>3 DEF FRead

LEMMA ClusterRead ==
  ASSUME CursorsInv, WindowTrue, ReadCluster
  PROVE  CursorsInv'
<1> DEFINE CB == ClusterBytes(vol)
<1>1. /\ UNCHANGED <<vol, fs, dp, call, got>> /\ pc = "cluster" /\ vol \in Volumes
      /\ fp.open /\ fp.err = "FR_OK" /\ fp.fptr + call.n <= fp.size /\ fp.fptr <= fp.size
  BY DEF ReadCluster, CursorsInv, TypeInv, InFile
<1>2. /\ fp.fptr \in Nat /\ fp.clust \in Nat /\ fp.sclust \in Nat /\ call.n \in Nat
      /\ fp \in FilType /\ failed \in BOOLEAN /\ win \in WindowType /\ PlaceType
  BY FilFields, CallChanges DEF CursorsInv, TypeInv, PlaceType
<1>3. CB \in Nat \ {0}
  BY <1>1, VolumeNumbers
<1>4. /\ fp.fptr > 0 => OnChain(fp, (fp.fptr - 1) \div CB)
      /\ OnItsSector(fp)
  BY <1>1 DEF CursorsInv, CursorInv, Resting
<1>5. OnSector /\ Csect = 0 <=> fp.fptr % CB = 0
  BY <1>1, <1>2, Boundary DEF OnSector, Csect
<1> HIDE DEF CB
<1>6. CASE call.n = 0 /\ Return("FR_OK") /\ UNCHANGED <<win, fp, failed>>
  <2>1. PlaceType' /\ pc' = "idle"
    BY <1>6, Returns DEF Answers, Results
  <2>2. CursorInv'
    BY <1>1, <1>6, <2>1, CursorEnds DEF CursorsInv
  <2> QED
    BY <1>1, <1>6, <2>1, <2>2 DEF CursorsInv, TypeInv, PlaceType, MountInv, InFile
<1>7. CASE /\ call.n > 0 /\ ~(OnSector /\ Csect = 0)
           /\ Continue("sector") /\ UNCHANGED <<win, fp, failed>>
  <2>1. PlaceType' /\ pc' = "sector"
    BY <1>1, <1>2, <1>7, Continues DEF Steps
  <2>2. fp.fptr > 0 /\ (fp.fptr - 1) \div CB = fp.fptr \div CB
    BY <1>2, <1>3, <1>5, <1>7, NotOnBoundary
  <2>3. OnChain(fp, fp.fptr \div CB)
    BY <1>4, <2>2
  <2>4. CursorInv'
    BY <1>1, <1>4, <1>7, <2>1, <2>3 DEF CursorInv, Resting, AtSector, AtFollow, OnChain, OnItsSector, CB
  <2> QED
    BY <1>1, <1>7, <2>1, <2>4 DEF CursorsInv, TypeInv, PlaceType, MountInv, InFile
<1>8. ASSUME call.n > 0, OnSector, Csect = 0, NEW clst \in FatValues(vol),
             IF fp.fptr = 0 THEN clst = fp.sclust /\ UNCHANGED <<win, failed>>
                            ELSE GetFat(fp.clust, clst),
             CASE clst < 2        -> Abort("FR_INT_ERR")
               [] clst = DISK_ERR -> Abort("FR_DISK_ERR")
               [] OTHER -> Continue("sector") /\ fp' = [fp EXCEPT !.clust = clst]
      PROVE  CursorsInv'
  <2>1. clst \in Nat
    BY <1>1, VolumeNumbers, Sentinels DEF FatValues
  <2>2. win' \in WindowType /\ failed' \in BOOLEAN
    BY <1>1, <1>2, <1>8, EntryRead DEF CursorsInv
  <2>3. CASE Abort("FR_INT_ERR") \/ Abort("FR_DISK_ERR")
    <3>1. PlaceType' /\ pc' = "idle" /\ fp' \in FilType /\ fp'.err # "FR_OK"
      BY <1>2, <2>3, FileAborted
    <3>2. CursorInv'
      BY <1>1, <3>1, CursorEnds DEF CursorsInv
    <3> QED
      BY <1>1, <2>2, <3>1, <3>2 DEF CursorsInv, TypeInv, PlaceType, MountInv, InFile
  <2>4. CASE Continue("sector") /\ fp' = [fp EXCEPT !.clust = clst]
    <3>1. PlaceType' /\ pc' = "sector"
      BY <1>1, <1>2, <2>4, Continues DEF Steps
    <3>2. /\ fp' \in FilType /\ fp'.clust = clst /\ fp'.fptr = fp.fptr /\ fp'.sclust = fp.sclust
          /\ fp'.open = fp.open /\ fp'.err = fp.err /\ fp'.size = fp.size
      BY <1>2, <2>1, <2>4 DEF FilType
    <3>3. clst \in Clusters(vol) => clst = Link(vol, fp.sclust, fp.fptr \div CB)
      <4> SUFFICES ASSUME clst \in Clusters(vol)
                   PROVE  clst = Link(vol, fp.sclust, fp.fptr \div CB)
        OBVIOUS
      <4>1. CASE fp.fptr = 0
        <5>1. fp.fptr \div CB = 0
          BY <1>3, <4>1
        <5> QED
          BY <1>8, <4>1, <5>1, FirstLink
      <4>2. CASE fp.fptr # 0
        <5>1. fp.clust \in Clusters(vol) /\ clst = vol.fat[fp.clust]
          BY <1>1, <1>2, <1>8, <4>2, EntryRead
        <5> DEFINE k == (fp.fptr - 1) \div CB
        <5>2. k \in Nat /\ k + 1 = fp.fptr \div CB
          <6>1. fp.fptr % CB = 0 /\ fp.fptr > 0 /\ fp.fptr - 1 \in Nat
            BY <1>2, <1>5, <1>8, <4>2
          <6>2. k + 1 = fp.fptr \div CB
            BY <1>2, <1>3, <6>1, OnBoundary
          <6>3. k \in Nat
            BY <1>3, <6>1, DivMod
          <6> QED
            BY <6>2, <6>3
        <5>3. fp.clust = Link(vol, fp.sclust, k)
          BY <1>2, <1>4, <4>2, <5>1 DEF OnChain
        <5> HIDE DEF k
        <5>4. fp.clust # 0
          BY <5>1 DEF Clusters
        <5> QED
          BY <5>1, <5>2, <5>3, <5>4, NextLink
      <4> QED
        BY <4>1, <4>2
    <3>4. fp'.fptr % SS = 0
      BY <1>8, <3>2 DEF OnSector
    <3>5. CursorInv'
      BY <1>1, <1>8, <3>1, <3>2, <3>3, <3>4
         DEF CursorInv, Resting, AtSector, AtFollow, OnChain, OnItsSector, CB
    <3>6. InFile'
      BY <1>1, <3>2 DEF InFile
    <3> QED
      BY <1>1, <2>2, <3>1, <3>2, <3>5, <3>6 DEF CursorsInv, TypeInv, PlaceType, MountInv
  <2> QED
    BY <1>8, <2>3, <2>4
<1> QED
  BY <1>6, <1>7, <1>8 DEF ReadCluster

(* rcnt bytes of one cluster have been read, and if the position is now    *)
(* inside a sector, it is the one that the file has in its buffer.         *)
LEMMA Advanced ==
  ASSUME CursorsInv, pc = "sector", UNCHANGED <<vol, fs, win, dp>>, failed' \in BOOLEAN,
         NEW sect, NEW from, NEW n \in Nat, n > 0, n <= call.n,
         NEW f \in FilType, f.fptr = fp.fptr, f.clust = fp.clust, f.sclust = fp.sclust,
         f.size = fp.size, f.open = fp.open, f.err = fp.err,
         Advance(sect, from, n, f),
         (fp.fptr % ClusterBytes(vol)) + n <= ClusterBytes(vol),
         (fp.fptr + n) % SS # 0 => f.sect = FileByte(vol, fp.sclust, fp.fptr + n)[1]
  PROVE  CursorsInv'
<1>1. /\ vol \in Volumes /\ fp.open /\ fp.err = "FR_OK" /\ fp.fptr + call.n <= fp.size
      /\ OnChain(fp, fp.fptr \div ClusterBytes(vol))
  BY DEF CursorsInv, TypeInv, InFile, CursorInv, AtSector
<1>2. fp.fptr \in Nat /\ call.n \in Nat /\ fp.size \in Nat /\ PlaceType
  BY FilFields, CallChanges DEF CursorsInv, TypeInv, PlaceType
<1>3. PlaceType' /\ pc' = "cluster"
  BY <1>2, Continues DEF Advance, Steps
<1>4. call' = [call EXCEPT !.n = call.n - n] /\ fp' = [f EXCEPT !.fptr = fp.fptr + n]
  BY DEF Advance
<1>5. call' \in CallType /\ call'.n = call.n - n
  BY <1>2, <1>4 DEF CallType, CursorsInv, TypeInv
<1>6. /\ fp' \in FilType /\ fp'.fptr = fp.fptr + n /\ fp'.clust = fp.clust
      /\ fp'.sclust = fp.sclust /\ fp'.size = fp.size /\ fp'.open = fp.open
      /\ fp'.err = fp.err /\ fp'.sect = f.sect
  BY <1>2, <1>4 DEF FilType
<1>7. (fp.fptr + n - 1) \div ClusterBytes(vol) = fp.fptr \div ClusterBytes(vol)
  BY <1>1, <1>2, VolumeNumbers, StepInside
<1>8. CursorInv'
  <2>1. OnChain(fp, (fp.fptr - 1) \div ClusterBytes(vol))'
    <3>1. fp'.fptr - 1 = fp.fptr + n - 1
      BY <1>2, <1>6
    <3> QED
      BY <1>1, <1>6, <1>7, <3>1 DEF OnChain
  <2>2. OnItsSector(fp)'
    BY <1>6 DEF OnItsSector
  <2> QED
    BY <1>3, <2>1, <2>2 DEF CursorInv, Resting, AtSector, AtFollow, OnChain
<1>9. InFile'
  BY <1>1, <1>2, <1>5, <1>6 DEF InFile
<1> QED
  BY <1>3, <1>5, <1>6, <1>8, <1>9 DEF CursorsInv, TypeInv, PlaceType, MountInv

(* What is left of a sector is in the cluster, and a read that ends inside *)
(* the sector has not left it.                                             *)
LEMMA RestOfSector ==
  ASSUME NEW v \in Volumes, NEW i \in Nat, NEW m \in Nat, m > 0
  PROVE  LET rest == Smaller(SS - (i % SS), m)
         IN  /\ rest \in Nat /\ rest > 0 /\ rest <= m
             /\ (i % ClusterBytes(v)) + rest <= ClusterBytes(v)
             /\ (i + rest) % SS # 0 => (i + rest) \div SS = i \div SS
<1> DEFINE rest == Smaller(SS - (i % SS), m)
           x == (i \div SS) % v.csize
           y == i % SS
           c == v.csize
<1>1. SS \in Nat \ {0} /\ c \in Nat \ {0}
  BY VolumeNumbers, FatAssumption
<1>2. y \in 0 .. SS - 1
  BY <1>1
<1>3. x \in 0 .. c - 1
  <2> DEFINE q == i \div SS
  <2>1. q \in Nat
    BY <1>1
  <2> HIDE DEF q, c
  <2>2. q % c \in 0 .. c - 1
    BY <1>1, <2>1, DivMod
  <2> QED
    BY <2>2 DEF q, c
<1>4. i % ClusterBytes(v) = SS * x + y
  BY ByteSector
<1>5. ClusterBytes(v) = SS * c
  BY <1>1 DEF ClusterBytes
<1>6. rest \in Nat /\ rest > 0 /\ rest <= m /\ y + rest <= SS
  BY <1>1, <1>2 DEF Smaller
<1> HIDE DEF x, y, c, rest
<1>7. SS * x + y + rest <= SS * c
  <2>1. SS * (x + 1) <= SS * c
    BY <1>1, <1>3, ProductMonotone
  <2>2. SS * (x + 1) = SS * x + SS /\ SS * x \in Nat /\ SS * c \in Nat
    BY <1>1, <1>3, ProductOfNats
  <2> QED
    BY <1>1, <1>2, <1>6, <2>1, <2>2
<1>8. (i + rest) % SS # 0 => (i + rest) \div SS = i \div SS
  <2>1. y + rest = SS => (i + rest) % SS = 0
    BY <1>1, <1>6, StepInside DEF y
  <2>2. y + rest < SS => (i + rest) \div SS = i \div SS
    BY <1>1, <1>6, StepInside DEF y
  <2> QED
    BY <1>1, <1>2, <1>6, <2>1, <2>2
<1>9. (i % ClusterBytes(v)) + rest <= ClusterBytes(v)
  BY <1>4, <1>5, <1>7
<1> QED
  BY <1>6, <1>8, <1>9 DEF rest

(* So are the sectors that are read at once.                               *)
LEMMA RestOfCluster ==
  ASSUME NEW v \in Volumes, NEW i \in Nat, i % SS = 0, NEW m \in Nat, m \div SS > 0
  PROVE  LET n == Smaller(m \div SS, v.csize - ((i \div SS) % v.csize)) * SS
         IN  /\ n \in Nat /\ n > 0 /\ n <= m
             /\ (i % ClusterBytes(v)) + n <= ClusterBytes(v)
             /\ (i + n) % SS = 0
<1> DEFINE x == (i \div SS) % v.csize
           c == v.csize
           k == m \div SS
           w == Smaller(k, c - x)
           n == w * SS
<1>1. SS \in Nat \ {0} /\ c \in Nat \ {0}
  BY VolumeNumbers, FatAssumption
<1>2. k \in Nat /\ k > 0 /\ SS * k <= m
  <2>1. m % SS \in Nat /\ m = SS * k + (m % SS) /\ k \in Nat
    BY <1>1, DivMod
  <2> HIDE DEF k
  <2>2. SS * k \in Nat
    BY <1>1, <2>1, ProductOfNats
  <2> QED
    BY <2>1, <2>2 DEF k
<1>3. x \in 0 .. c - 1
  <2> DEFINE q == i \div SS
  <2>1. q \in Nat
    BY <1>1
  <2> HIDE DEF q, c
  <2>2. q % c \in 0 .. c - 1
    BY <1>1, <2>1, DivMod
  <2> QED
    BY <2>2 DEF q, c
<1>4. i % ClusterBytes(v) = SS * x
  <2>1. i % ClusterBytes(v) = SS * x + (i % SS)
    BY ByteSector
  <2> HIDE DEF x
  <2>2. SS * x \in Nat
    BY <1>1, <1>3, ProductOfNats
  <2> QED
    BY <2>1, <2>2
<1>5. ClusterBytes(v) = SS * c
  BY <1>1 DEF ClusterBytes
<1> HIDE DEF x, c, k
<1>6. w \in Nat /\ w > 0 /\ w <= k /\ w + x <= c
  BY <1>1, <1>2, <1>3 DEF Smaller
<1> HIDE DEF w
<1>7. n = SS * w /\ n \in Nat /\ n > 0
  BY <1>1, <1>6
<1>8. n <= m
  <2>1. SS * w <= SS * k
    BY <1>1, <1>2, <1>6, ProductMonotone
  <2>2. SS * k \in Nat
    BY <1>1, <1>2, ProductOfNats
  <2> QED
    BY <1>2, <1>7, <2>1, <2>2
<1>9. SS * x + n <= SS * c
  <2>1. SS * (w + x) <= SS * c
    BY <1>1, <1>3, <1>6, ProductMonotone
  <2>2. SS * (w + x) = SS * w + SS * x
    BY <1>1, <1>3, <1>6
  <2>3. SS * x \in Nat /\ SS * c \in Nat
    BY <1>1, <1>3, ProductOfNats
  <2> QED
    BY <1>7, <2>1, <2>2, <2>3
<1>10. (i + n) % SS = 0
  <2>1. n % SS = 0
    <3>1. n = SS * w + 0 /\ 0 \in 0 .. SS - 1
      BY <1>1, <1>7
    <3> HIDE DEF n
    <3> QED
      BY <1>1, <1>6, <1>7, <3>1, DivModUnique
  <2> HIDE DEF n
  <2> QED
    BY <1>1, <1>7, <2>1, Multiples
<1>11. (i % ClusterBytes(v)) + n <= ClusterBytes(v)
  BY <1>4, <1>5, <1>9
<1> QED
  BY <1>7, <1>8, <1>10, <1>11 DEF w, x, c, k

LEMMA SectorStep ==
  ASSUME CursorsInv, ReadSector
  PROVE  CursorsInv'
<1> DEFINE base == Clst2Sect(vol, fp.clust)
           sect == base + Csect
           rest == Smaller(SS - (fp.fptr % SS), call.n)
           whole == WholeSectors * SS
           read == [fp EXCEPT !.sect = sect, !.buf = sect]
<1>1. /\ UNCHANGED <<vol, fs, win, dp>> /\ pc = "sector" /\ vol \in Volumes
      /\ fp.open /\ fp.err = "FR_OK" /\ fp.fptr + call.n <= fp.size /\ fp.fptr <= fp.size
      /\ call.n > 0 /\ OnChain(fp, fp.fptr \div ClusterBytes(vol)) /\ OnItsSector(fp)
  BY DEF ReadSector, CursorsInv, TypeInv, InFile, CursorInv, AtSector
<1>2. /\ fp.fptr \in Nat /\ fp.clust \in Nat /\ fp.sclust \in Nat /\ call.n \in Nat
      /\ fp \in FilType /\ call \in CallType /\ failed \in BOOLEAN /\ PlaceType
  BY FilFields, CallChanges DEF CursorsInv, TypeInv, PlaceType
<1>3. base \in Nat /\ sect \in Nat
  <2>1. Csect \in Nat
    <3> DEFINE q == fp.fptr \div SS
               c == vol.csize
    <3>1. q \in Nat /\ c \in Nat \ {0}
      BY <1>1, <1>2, FatAssumption, VolumeNumbers, DivMod
    <3> HIDE DEF q, c
    <3>2. q % c \in Nat
      BY <3>1, DivMod
    <3> QED
      BY <3>2 DEF Csect, q, c
  <2> QED
    BY <1>1, <2>1, ClusterSector
<1>4. /\ rest \in Nat /\ rest > 0 /\ rest <= call.n
      /\ (fp.fptr % ClusterBytes(vol)) + rest <= ClusterBytes(vol)
      /\ (fp.fptr + rest) % SS # 0 => (fp.fptr + rest) \div SS = fp.fptr \div SS
  BY <1>1, <1>2, RestOfSector
<1>5. /\ read \in FilType /\ read.fptr = fp.fptr /\ read.clust = fp.clust
      /\ read.sclust = fp.sclust /\ read.size = fp.size /\ read.open = fp.open
      /\ read.err = fp.err /\ read.sect = sect
  <2> HIDE DEF base, sect
  <2>1. read \in FilType
    <3>1. sect \in Int
      BY <1>3
    <3> QED
      BY <1>2, <1>3, <3>1, FilChanges DEF FileErrors
  <2> QED
    BY <1>2, <2>1 DEF FilType
<1>6. ASSUME OnSector, base # 0
      PROVE  FileByte(vol, fp.sclust, fp.fptr)[1] = sect
  <2>1. fp.clust \in Clusters(vol)
    BY <1>6 DEF Clst2Sect
  <2>2. fp.clust = Link(vol, fp.sclust, fp.fptr \div ClusterBytes(vol))
    BY <1>1, <2>1 DEF OnChain
  <2>3. fp.clust # 0
    BY <2>1 DEF Clusters
  <2> QED
    BY <1>1, <1>2, <2>2, <2>3, ByteSector DEF Csect
<1>7. (fp.fptr + rest) % SS # 0 =>
        FileByte(vol, fp.sclust, fp.fptr + rest)[1] = FileByte(vol, fp.sclust, fp.fptr)[1]
  <2>1. fp.fptr + rest \in Nat
    BY <1>2, <1>4
  <2> HIDE DEF rest
  <2> QED
    BY <1>1, <1>2, <1>4, <2>1, SameSector
<1>8. ASSUME OnSector, call.n \div SS > 0
      PROVE  /\ whole \in Nat /\ whole > 0 /\ whole <= call.n
             /\ (fp.fptr % ClusterBytes(vol)) + whole <= ClusterBytes(vol)
             /\ (fp.fptr + whole) % SS = 0
  BY <1>1, <1>2, <1>8, RestOfCluster DEF WholeSectors, Csect, OnSector
<1> HIDE DEF rest, whole, read, sect, base
<1>9. CASE Abort("FR_INT_ERR") /\ UNCHANGED <<call, failed>>
  <2>1. PlaceType' /\ pc' = "idle" /\ fp' \in FilType /\ fp'.err # "FR_OK"
    BY <1>2, <1>9, FileAborted
  <2> QED
    BY <1>1, <1>9, <2>1 DEF CursorsInv, TypeInv, PlaceType, MountInv, InFile, CursorInv, Resting,
                            AtSector, AtFollow
<1>10. CASE /\ Fault("read") /\ UNCHANGED call
            /\ \/ Abort("FR_DISK_ERR")
               \/ /\ Return("FR_DISK_ERR")
                  /\ fp' = [fp EXCEPT !.err = "FR_DISK_ERR", !.buf = Junk]
  <2>1. PlaceType' /\ pc' = "idle"
    BY <1>2, <1>10, FileAborted, Returns DEF Answers, Results
  <2>2. fp' \in FilType /\ fp'.err # "FR_OK"
    <3>1. CASE fp' = [fp EXCEPT !.err = "FR_DISK_ERR", !.buf = Junk]
      BY <1>2, <3>1, Sentinels DEF FilType, FileErrors
    <3> QED
      BY <1>2, <1>10, <3>1, FileAborted
  <2>3. failed' \in BOOLEAN
    BY <1>2, <1>10, FaultType
  <2> QED
    BY <1>1, <1>10, <2>1, <2>2, <2>3
       DEF CursorsInv, TypeInv, PlaceType, MountInv, InFile, CursorInv, Resting, AtSector, AtFollow
<1>11. CASE OnSector /\ call.n \div SS > 0 /\ Advance(sect, 0, whole, fp) /\ UNCHANGED failed
  BY <1>1, <1>2, <1>8, <1>11, Advanced
<1>12. CASE OnSector /\ base # 0 /\ fp.sect = sect /\ Advance(fp.buf, 0, rest, fp) /\ UNCHANGED failed
  BY <1>1, <1>2, <1>4, <1>6, <1>7, <1>12, Advanced
<1>13. CASE OnSector /\ base # 0 /\ Advance(sect, 0, rest, read) /\ UNCHANGED failed
  BY <1>1, <1>2, <1>4, <1>5, <1>6, <1>7, <1>13, Advanced
<1>14. CASE ~OnSector /\ Advance(fp.buf, fp.fptr % SS, rest, fp) /\ UNCHANGED failed
  <2>1. fp.sect = FileByte(vol, fp.sclust, fp.fptr)[1]
    BY <1>1, <1>14 DEF OnItsSector, OnSector
  <2> QED
    BY <1>1, <1>2, <1>4, <1>7, <1>14, <2>1, Advanced
<1> QED
  BY <1>9, <1>10, <1>11, <1>12, <1>13, <1>14, Zenon
     DEF ReadSector, base, sect, rest, whole, read

LEMMA SeekBegins ==
  ASSUME CursorsInv, FLseek
  PROVE  CursorsInv'
<1> DEFINE CB == ClusterBytes(vol)
           ofs == Smaller(call.n, fp.size)
           here == fp.fptr > 0 /\ SameOrLater(ofs, fp.fptr)
           from == IF here THEN (fp.fptr - 1) - ((fp.fptr - 1) % CB) ELSE 0
           clst == IF here THEN fp.clust ELSE fp.sclust
<1>1. UNCHANGED <<vol, fs, win, dp, failed>> /\ pc = "seek" /\ vol \in Volumes
  BY DEF FLseek, CursorsInv, TypeInv
<1>2. /\ fp.fptr \in Nat /\ fp.clust \in Nat /\ fp.sclust \in Nat /\ call.n \in Nat /\ fp.size \in Nat
      /\ fp \in FilType /\ call \in CallType /\ PlaceType
  BY FilFields, CallChanges DEF CursorsInv, TypeInv, PlaceType
<1>3. CB \in Nat \ {0}
  BY <1>1, VolumeNumbers
<1>4. CASE ~MayUse /\ Refuse /\ UNCHANGED call
  <2>1. PICK r : Return(r) /\ r \in (FileErrors \ {"FR_OK"}) \cup {"FR_INVALID_OBJECT"}
    BY <1>4, FilFields DEF MayUse, Refuse, CursorsInv, TypeInv
  <2>2. PlaceType' /\ pc' = "idle" /\ fp' = fp
    BY <1>4, <2>1, Returns DEF Answers, Results, FileErrors, Refuse
  <2>3. CursorInv'
    BY <1>1, <2>2, CursorEnds DEF CursorsInv
  <2> QED
    BY <1>1, <1>4, <2>2, <2>3 DEF CursorsInv, TypeInv, PlaceType, MountInv, InFile
<1>5. CASE /\ MayUse
           /\ \/ /\ ofs = 0
                 /\ fp' = [fp EXCEPT !.fptr = 0] /\ Return("FR_OK") /\ UNCHANGED call
              \/ /\ ofs > 0 /\ clst = 0
                 /\ fp' = [fp EXCEPT !.fptr = from, !.clust = 0]
                 /\ Return("FR_OK") /\ UNCHANGED call
              \/ /\ ofs > 0 /\ clst # 0
                 /\ fp' = [fp EXCEPT !.fptr = from, !.clust = clst]
                 /\ call' = [call EXCEPT !.n = ofs - from] /\ Continue("follow")
  <2>1. /\ fp.open /\ fp.err = "FR_OK" /\ fp.fptr <= fp.size
        /\ fp.fptr > 0 => OnChain(fp, (fp.fptr - 1) \div CB)
    BY <1>1, <1>5 DEF MayUse, Valid, CursorsInv, InFile, CursorInv, Resting
  <2>2. ofs \in Nat /\ ofs <= fp.size
    BY <1>2 DEF Smaller
  <2> HIDE DEF ofs
  <2>3. /\ from \in Nat /\ clst \in Nat /\ from % CB = 0
        /\ ofs > 0 => from < ofs
        /\ ofs > 0 /\ clst \in Clusters(vol) => clst = Link(vol, fp.sclust, from \div CB)
    <3>1. CASE here
      <4> DEFINE b == fp.fptr - 1
                 a == ofs - 1
      <4>1. /\ b \in Nat /\ from = b - (b % CB) /\ clst = fp.clust
            /\ a \div CB >= b \div CB
        BY <1>2, <3>1 DEF SameOrLater
      <4>2. ofs > 0 => a \in Nat
        BY <2>2
      <4> HIDE DEF a, b, from
      <4>3. from \in Nat /\ from % CB = 0 /\ from \div CB = b \div CB
        BY <1>3, <4>1, RoundedDown
      <4>4. ofs > 0 => from <= a
        BY <1>3, <4>1, <4>2, RoundedDown
      <4>5. ofs > 0 => from < ofs
        BY <2>2, <4>3, <4>4 DEF a
      <4>6. clst \in Clusters(vol) => clst = Link(vol, fp.sclust, from \div CB)
        BY <2>1, <3>1, <4>1, <4>3 DEF OnChain, b
      <4> QED
        BY <1>2, <4>1, <4>3, <4>5, <4>6
    <3>2. CASE ~here
      <4>1. from = 0 /\ clst = fp.sclust /\ from % CB = 0 /\ from \div CB = 0
        BY <1>3, <3>2
      <4> QED
        BY <1>2, <4>1, FirstLink
    <3> QED
      BY <3>1, <3>2
  <2> HIDE DEF from, clst, CB, here
  <2>4. from % SS = 0
    BY <1>1, <2>3, WholeClusters DEF CB
  <2>5. CASE ofs = 0 /\ fp' = [fp EXCEPT !.fptr = 0] /\ Return("FR_OK") /\ UNCHANGED call
    <3>1. PlaceType' /\ pc' = "idle"
      BY <2>5, Returns DEF Answers, Results
    <3>2. fp' \in FilType /\ fp'.fptr = 0 /\ fp'.size \in Nat
      BY <1>2, <2>5 DEF FilType
    <3>3. CursorInv'
      BY <1>1, <3>1, <3>2, CursorEnds DEF CursorsInv
    <3> QED
      BY <1>1, <2>5, <3>1, <3>2, <3>3 DEF CursorsInv, TypeInv, PlaceType, MountInv, InFile
  <2>6. CASE /\ ofs > 0 /\ fp' = [fp EXCEPT !.fptr = from, !.clust = 0]
             /\ Return("FR_OK") /\ UNCHANGED call
    <3>1. PlaceType' /\ pc' = "idle"
      BY <2>6, Returns DEF Answers, Results
    <3>2. fp' \in FilType /\ fp'.fptr = from /\ fp'.clust = 0 /\ fp'.size = fp.size
      BY <1>2, <2>3, <2>6 DEF FilType
    <3>3. fp'.fptr <= fp'.size
      BY <1>2, <2>2, <2>3, <2>6, <3>2
    <3>4. 0 \notin Clusters(vol)
      BY DEF Clusters
    <3>5. CursorInv'
      BY <1>1, <2>4, <3>1, <3>2, <3>4 DEF CursorInv, Resting, AtSector, AtFollow, OnChain, OnItsSector
    <3> QED
      BY <1>1, <2>6, <3>1, <3>2, <3>3, <3>5 DEF CursorsInv, TypeInv, PlaceType, MountInv, InFile
  <2>7. CASE /\ ofs > 0 /\ fp' = [fp EXCEPT !.fptr = from, !.clust = clst]
             /\ call' = [call EXCEPT !.n = ofs - from] /\ Continue("follow")
    <3>1. PlaceType' /\ pc' = "follow"
      BY <1>1, <1>2, <2>7, Continues DEF Steps
    <3>2. /\ fp' \in FilType /\ fp'.fptr = from /\ fp'.clust = clst /\ fp'.size = fp.size
          /\ fp'.sclust = fp.sclust /\ fp'.open = fp.open /\ fp'.err = fp.err
      BY <1>2, <2>3, <2>7 DEF FilType
    <3>3. ofs - from \in Nat /\ ofs - from > 0
      BY <2>2, <2>3, <2>7
    <3>4. call' \in CallType /\ call'.n = ofs - from
      BY <1>2, <2>7, <3>3 DEF CallType
    <3>5. fp'.fptr + call'.n <= fp'.size /\ fp'.fptr <= fp'.size
      BY <1>2, <2>2, <2>3, <2>7, <3>2, <3>4
    <3>6. CursorInv'
      BY <1>1, <2>3, <2>7, <3>1, <3>2, <3>3, <3>4
         DEF CursorInv, Resting, AtSector, AtFollow, OnChain, CB
    <3> QED
      BY <1>1, <2>1, <3>1, <3>2, <3>4, <3>5, <3>6 DEF CursorsInv, TypeInv, PlaceType, MountInv, InFile
  <2> QED
    BY <1>5, <2>5, <2>6, <2>7
<1> QED
  BY <1>4, <1>5, Zenon DEF FLseek, CB, ofs, here, from, clst

LEMMA ChainFollowed ==
  ASSUME CursorsInv, WindowTrue, SeekFollow
  PROVE  CursorsInv'
<1> DEFINE CB == ClusterBytes(vol)
           n == call.n - CB
           f == [fp EXCEPT !.fptr = fp.fptr + CB]
<1>1. /\ UNCHANGED <<vol, fs, dp>> /\ pc = "follow" /\ vol \in Volumes /\ call.n > CB
      /\ fp.open /\ fp.err = "FR_OK" /\ fp.fptr + call.n <= fp.size
      /\ fp.fptr % CB = 0 /\ OnChain(fp, fp.fptr \div CB)
  BY DEF SeekFollow, CursorsInv, TypeInv, InFile, CursorInv, AtFollow
<1>2. /\ fp.fptr \in Nat /\ fp.clust \in Nat /\ call.n \in Nat /\ fp.size \in Nat
      /\ fp \in FilType /\ call \in CallType /\ PlaceType
  BY FilFields, CallChanges DEF CursorsInv, TypeInv, PlaceType
<1>3. CB \in Nat \ {0}
  BY <1>1, VolumeNumbers
<1>4. PICK clst \in FatValues(vol) :
        /\ GetFat(fp.clust, clst)
        /\ CASE clst = DISK_ERR -> Return("FR_DISK_ERR") /\ fp' = [f EXCEPT !.err = "FR_DISK_ERR"]
             [] clst \notin Clusters(vol) /\ clst # DISK_ERR ->
                  Return("FR_INT_ERR") /\ fp' = [f EXCEPT !.err = "FR_INT_ERR"]
             [] OTHER -> Continue("follow") /\ fp' = [f EXCEPT !.clust = clst]
  BY Zenon DEF SeekFollow
<1>5. clst \in Nat
  BY <1>1, VolumeNumbers, Sentinels DEF FatValues
<1>6. win' \in WindowType /\ failed' \in BOOLEAN
  BY <1>1, <1>2, <1>4, EntryRead DEF CursorsInv, TypeInv
<1>7. n \in Nat /\ n > 0 /\ (fp.fptr + CB) + n = fp.fptr + call.n /\ fp.fptr + CB <= fp.size
  BY <1>1, <1>2, <1>3
<1>8. call' \in CallType /\ call'.n = n
  <2>1. call' = [call EXCEPT !.n = n]
    BY DEF SeekFollow
  <2> HIDE DEF n
  <2> QED
    BY <1>2, <1>7, <2>1 DEF CallType
<1>9. /\ f \in FilType /\ f.fptr = fp.fptr + CB /\ f.size = fp.size /\ f.sclust = fp.sclust
      /\ f.open = fp.open /\ f.err = fp.err
  BY <1>2, <1>3 DEF FilType
<1>10. (fp.fptr + CB) % CB = 0 /\ (fp.fptr + CB) \div CB = fp.fptr \div CB + 1
  <2> DEFINE p == fp.fptr
  <2>1. p \in Nat /\ CB \in Nat /\ CB \in Nat \ {0} /\ (p % CB) + CB = CB
    BY <1>1, <1>2, <1>3
  <2> HIDE DEF p, CB
  <2>2. (p + CB) % CB = 0 /\ (p + CB) \div CB = p \div CB + 1
    BY <2>1, StepInside
  <2> QED
    BY <2>2 DEF p
<1>11. fp.fptr \div CB \in Nat
  BY <1>2, <1>3, DivMod
<1> HIDE DEF n, f, CB
<1>12. CASE /\ Return("FR_DISK_ERR") \/ Return("FR_INT_ERR")
            /\ \E r \in {"FR_DISK_ERR", "FR_INT_ERR"} : fp' = [f EXCEPT !.err = r]
  <2>1. PlaceType' /\ pc' = "idle"
    BY <1>12, Returns DEF Answers, Results
  <2>2. fp' \in FilType /\ fp'.err # "FR_OK"
    BY <1>9, <1>12 DEF FilType, FileErrors
  <2> QED
    BY <1>1, <1>6, <1>8, <2>1, <2>2
       DEF CursorsInv, TypeInv, PlaceType, MountInv, InFile, CursorInv, Resting, AtSector, AtFollow
<1>13. CASE clst \in Clusters(vol) /\ Continue("follow") /\ fp' = [f EXCEPT !.clust = clst]
  <2>1. PlaceType' /\ pc' = "follow"
    BY <1>1, <1>2, <1>13, Continues DEF Steps
  <2>2. /\ fp' \in FilType /\ fp'.clust = clst /\ fp'.fptr = fp.fptr + CB /\ fp'.size = fp.size
        /\ fp'.sclust = fp.sclust /\ fp'.open /\ fp'.err = "FR_OK"
    BY <1>1, <1>5, <1>9, <1>13 DEF FilType
  <2>3. clst = Link(vol, fp.sclust, fp.fptr \div CB + 1)
    <3>1. fp.clust \in Clusters(vol) /\ clst = vol.fat[fp.clust]
      BY <1>1, <1>2, <1>4, <1>13, EntryRead DEF CursorsInv, TypeInv
    <3>2. fp.clust = Link(vol, fp.sclust, fp.fptr \div CB) /\ fp.clust # 0
      BY <1>1, <3>1 DEF OnChain, Clusters
    <3> DEFINE k == fp.fptr \div CB
    <3>3. k \in Nat /\ fp.clust = Link(vol, fp.sclust, k)
      BY <1>11, <3>2
    <3> HIDE DEF k
    <3>4. clst = Link(vol, fp.sclust, k + 1)
      BY <1>13, <3>1, <3>2, <3>3, NextLink
    <3> QED
      BY <3>4 DEF k
  <2>4. CursorInv'
    BY <1>1, <1>7, <1>8, <1>10, <2>1, <2>2, <2>3
       DEF CursorInv, Resting, AtSector, AtFollow, OnChain, CB
  <2>5. InFile'
    BY <1>1, <1>7, <1>8, <2>2 DEF InFile
  <2> QED
    BY <1>1, <1>6, <1>8, <2>1, <2>2, <2>4, <2>5 DEF CursorsInv, TypeInv, PlaceType, MountInv
<1> QED
  BY <1>4, <1>12, <1>13

LEMMA SeekEnds ==
  ASSUME CursorsInv, SeekSector
  PROVE  CursorsInv'
<1> DEFINE CB == ClusterBytes(vol)
           f == [fp EXCEPT !.fptr = fp.fptr + call.n]
           base == Clst2Sect(vol, fp.clust)
           nsect == base + call.n \div SS
<1>1. /\ UNCHANGED <<vol, fs, win, dp, call>> /\ pc = "follow" /\ vol \in Volumes /\ call.n <= CB
      /\ fp.open /\ fp.err = "FR_OK" /\ fp.fptr + call.n <= fp.size /\ call.n > 0
      /\ fp.fptr % CB = 0 /\ OnChain(fp, fp.fptr \div CB)
  BY DEF SeekSector, CursorsInv, TypeInv, InFile, CursorInv, AtFollow
<1>2. /\ fp.fptr \in Nat /\ fp.clust \in Nat /\ call.n \in Nat /\ fp.size \in Nat
      /\ fp \in FilType /\ call \in CallType /\ PlaceType /\ failed \in BOOLEAN
  BY FilFields, CallChanges DEF CursorsInv, TypeInv, PlaceType
<1>3. CB \in Nat \ {0} /\ CB % SS = 0 /\ fp.fptr % SS = 0 /\ SS \in Nat \ {0}
  BY <1>1, <1>2, VolumeNumbers, WholeClusters, FatAssumption
<1>4. (fp.fptr + call.n) % SS = call.n % SS
  BY <1>2, <1>3, Multiples
<1>5. (fp.fptr + call.n - 1) \div CB = fp.fptr \div CB
  <2> DEFINE p == fp.fptr
             m == call.n
  <2>1. p \in Nat /\ m \in Nat /\ CB \in Nat \ {0} /\ m > 0 /\ (p % CB) + m <= CB
    BY <1>1, <1>2, <1>3
  <2> HIDE DEF p, m, CB
  <2>2. (p + m - 1) \div CB = p \div CB
    BY <2>1, StepInside
  <2> QED
    BY <2>2 DEF p, m
<1>6. base \in Nat /\ nsect \in Nat
  <2>1. call.n \div SS \in Nat
    BY <1>2, <1>3
  <2> QED
    BY <1>1, <2>1, ClusterSector
<1>7. ASSUME call.n % SS # 0, base # 0
      PROVE  FileByte(vol, fp.sclust, fp.fptr + call.n)[1] = nsect
  <2>1. call.n < CB
    BY <1>1, <1>2, <1>3, <1>7
  <2>2. /\ (fp.fptr + call.n) \div CB = fp.fptr \div CB
        /\ (fp.fptr + call.n) % CB = call.n
    <3> DEFINE p == fp.fptr
               m == call.n
    <3>1. p \in Nat /\ m \in Nat /\ CB \in Nat \ {0} /\ p % CB = 0 /\ (p % CB) + m < CB
      BY <1>1, <1>2, <1>3, <2>1
    <3> HIDE DEF p, m, CB
    <3>2. (p + m) \div CB = p \div CB /\ (p + m) % CB = (p % CB) + m
      BY <3>1, StepInside
    <3> QED
      BY <3>1, <3>2 DEF p, m
  <2>3. fp.clust \in Clusters(vol)
    BY <1>7 DEF Clst2Sect
  <2>4. fp.clust = Link(vol, fp.sclust, fp.fptr \div CB) /\ fp.clust # 0
    BY <1>1, <2>3 DEF OnChain, Clusters
  <2>5. FileByte(vol, fp.sclust, fp.fptr + call.n) = <<nsect, (fp.fptr + call.n) % SS>>
    BY <2>2, <2>4 DEF FileByte
  <2> QED
    BY <2>5
<1>8. /\ f \in FilType /\ f.fptr = fp.fptr + call.n /\ f.size = fp.size /\ f.sclust = fp.sclust
      /\ f.clust = fp.clust /\ f.open /\ f.err = "FR_OK"
  BY <1>1, <1>2 DEF FilType
<1> HIDE DEF f, base, nsect, CB
<1>9. CASE /\ Return("FR_INT_ERR") \/ (Return("FR_DISK_ERR") /\ Fault("read"))
           /\ failed' = failed \/ Fault("read")
           /\ \/ fp' = [f EXCEPT !.err = "FR_INT_ERR"]
              \/ fp' = [f EXCEPT !.err = "FR_DISK_ERR", !.buf = Junk]
  <2>1. PlaceType' /\ pc' = "idle"
    BY <1>9, Returns DEF Answers, Results
  <2>2. fp' \in FilType /\ fp'.err # "FR_OK"
    <3>1. CASE fp' = [f EXCEPT !.err = "FR_INT_ERR"]
      BY <1>8, <3>1 DEF FilType, FileErrors
    <3>2. CASE fp' = [f EXCEPT !.err = "FR_DISK_ERR", !.buf = Junk]
      BY <1>8, <3>2, Sentinels DEF FilType, FileErrors
    <3> QED
      BY <1>9, <3>1, <3>2
  <2>3. failed' \in BOOLEAN
    BY <1>2, <1>9, FaultType
  <2> QED
    BY <1>1, <2>1, <2>2, <2>3
       DEF CursorsInv, TypeInv, PlaceType, MountInv, InFile, CursorInv, Resting, AtSector, AtFollow
<1>10. CASE /\ Return("FR_OK") /\ UNCHANGED failed
            /\ \/ call.n % SS = 0 /\ fp' = f
               \/ call.n % SS # 0 /\ base # 0 /\ nsect = fp.sect /\ fp' = f
               \/ call.n % SS # 0 /\ base # 0 /\ fp' = [f EXCEPT !.sect = nsect, !.buf = nsect]
  <2>1. PlaceType' /\ pc' = "idle"
    BY <1>10, Returns DEF Answers, Results
  <2>2. /\ fp' \in FilType /\ fp'.fptr = fp.fptr + call.n /\ fp'.size = fp.size
        /\ fp'.sclust = fp.sclust /\ fp'.clust = fp.clust /\ fp'.open /\ fp'.err = "FR_OK"
        /\ call.n % SS # 0 => base # 0 /\ fp'.sect = nsect
    <3>1. CASE fp' = f
      <4>1. f.sect = fp.sect
        BY <1>2 DEF f, FilType
      <4> QED
        BY <1>8, <1>10, <3>1, <4>1, FilFields DEF FilType
    <3>2. CASE call.n % SS # 0 /\ base # 0 /\ fp' = [f EXCEPT !.sect = nsect, !.buf = nsect]
      <4>1. nsect \in Int
        BY <1>6
      <4> QED
        BY <1>6, <1>8, <3>2, <4>1 DEF FilType
    <3> QED
      BY <1>10, <3>1, <3>2
  <2>3. OnItsSector(fp)'
    BY <1>1, <1>4, <1>7, <2>2 DEF OnItsSector
  <2>4. OnChain(fp, (fp.fptr - 1) \div ClusterBytes(vol))'
    <3>1. fp'.fptr - 1 = fp.fptr + call.n - 1 /\ ClusterBytes(vol)' = CB
      BY <1>1, <1>2, <2>2 DEF CB
    <3>2. (fp'.fptr - 1) \div CB = fp.fptr \div CB
      BY <1>5, <3>1
    <3> QED
      BY <1>1, <2>2, <3>1, <3>2 DEF OnChain
  <2>5. CursorInv'
    BY <2>1, <2>3, <2>4 DEF CursorInv, Resting, AtSector, AtFollow
  <2>6. InFile'
    BY <1>1, <2>1, <2>2 DEF InFile
  <2> QED
    BY <1>1, <1>10, <2>1, <2>2, <2>5, <2>6 DEF CursorsInv, TypeInv, PlaceType, MountInv
<1> QED
  BY <1>9, <1>10, Zenon DEF SeekSector, f, base, nsect

LEMMA CloseStep ==
  ASSUME CursorsInv, FClose \/ FUnmount
  PROVE  CursorsInv'
<1>1. /\ UNCHANGED <<vol, win, dp, call, failed>>
      /\ \/ UNCHANGED fs
         \/ fs' = [fs EXCEPT !.registered = FALSE, !.mounted = FALSE]
      /\ \/ UNCHANGED fp \/ fp' = [fp EXCEPT !.open = FALSE]
      /\ Return("FR_OK") \/ Return("FR_INVALID_OBJECT")
      /\ pc \in {"close", "unmount"}
  BY DEF FClose, FUnmount
<1>2. PlaceType' /\ pc' = "idle"
  BY <1>1, Returns DEF Answers, Results
<1>3. fp' \in FilType /\ (fp' = fp \/ ~fp'.open)
  BY <1>1 DEF CursorsInv, TypeInv, FilType
<1>4. fs' \in FatfsType /\ (fs'.mounted => fs'.up)
  BY <1>1 DEF CursorsInv, TypeInv, MountInv, FatfsType
<1>5. CursorInv'
  BY <1>1, <1>2, <1>3, CursorEnds DEF CursorsInv
<1> QED
  BY <1>1, <1>2, <1>3, <1>4, <1>5 DEF CursorsInv, TypeInv, PlaceType, MountInv, InFile

(* The steps that leave the cursors alone.                                 *)
LEMMA OtherSteps ==
  ASSUME CursorsInv, WindowTrue,
         FMount \/ FOpen \/ DirFind \/ DirNext \/ \E q \in Requests : Call(q)
  PROVE  CursorsInv'
<1>1. TypeInv' /\ MountInv' /\ InFile'
  BY CallTypes, MountStepTypes, OpenStepTypes, DirFindTypes, DirNextTypes DEF CursorsInv
<1>2. /\ UNCHANGED vol /\ pc \notin {"sector", "follow"} /\ pc' \notin {"sector", "follow"}
      /\ fp' = fp \/ ~fp'.open \/ fp'.fptr = 0
  <2>1. CASE FMount \/ \E q \in Requests : Call(q)
    BY <2>1, RequestsAssumption DEF FMount, Call, Return
  <2>2. ASSUME NEW r, OpenFails(r) PROVE pc' = "idle" /\ ~fp'.open
    BY <2>2 DEF OpenFails, Return, CursorsInv, TypeInv, FilType
  <2>3. ASSUME NEW c, NEW p, Search(c, p)
        PROVE  pc' \in {"idle", "dir_find"} /\ (fp' = fp \/ ~fp'.open)
    BY <2>2, <2>3 DEF Search, Continue
  <2>4. ASSUME NEW e, Found(e)
        PROVE  pc' \in {"idle", "dir_find"} /\ (fp' = fp \/ ~fp'.open \/ fp'.fptr = 0)
    <3>1. Opened(e) => pc' = "idle" /\ fp'.fptr = 0
      BY DEF Opened, Return
    <3> QED
      BY <2>2, <2>3, <2>4, <3>1 DEF Found
  <2>5. CASE FOpen
    BY <2>2, <2>3, <2>5 DEF FOpen, OpensRoot
  <2>6. CASE DirFind
    <3>1. \/ \E r : OpenFails(r)
          \/ Found(EntryAt(vol, win'.holds, dp.dptr))
          \/ Continue("dir_next") /\ UNCHANGED fp
      BY <2>6, Zenon DEF DirFind, NotFound
    <3> QED
      BY <2>2, <2>4, <2>6, <3>1 DEF DirFind, Continue
  <2>7. CASE DirNext
    <3>1. (\E r : OpenFails(r)) \/ (Continue("dir_find") /\ UNCHANGED fp)
      BY <2>7, Zenon DEF DirNext, NotFound
    <3> QED
      BY <2>2, <2>7, <3>1 DEF DirNext, Continue
  <2> QED
    BY <2>1, <2>5, <2>6, <2>7
<1>3. CursorInv'
  BY <1>2, CursorEnds DEF CursorsInv
<1> QED
  BY <1>1, <1>3 DEF CursorsInv

LEMMA CursorsStep == CursorsInv /\ WindowTrue /\ [Next]_vars => CursorsInv'
<1> SUFFICES ASSUME CursorsInv, WindowTrue, [Next]_vars PROVE CursorsInv'
  OBVIOUS
<1>1. CASE UNCHANGED vars
  BY <1>1 DEF vars, CursorsInv, TypeInv, MountInv, InFile, CursorInv, Resting, AtSector, AtFollow,
              OnChain, OnItsSector
<1> QED
  BY <1>1, OtherSteps, CloseStep, ReadBegins, ClusterRead, SectorStep, SeekBegins, ChainFollowed, SeekEnds
     DEF Next, Step

(* The cursors' invariant rests on the window's.                           *)
THEOREM CursorsInvariance == Spec => []CursorsInv
<1>1. Init => CursorsInv
  <2>1. Init => CursorInv
    <3> SUFFICES ASSUME Init PROVE CursorInv
      OBVIOUS
    <3>1. pc = "idle" /\ ~fp.open
      BY DEF Init
    <3> QED
      BY <3>1 DEF CursorInv, Resting, AtSector, AtFollow
  <2> QED
    BY <2>1, InitTypes DEF CursorsInv
<1>2. CursorsInv /\ WindowTrue /\ [Next]_vars => CursorsInv'
  BY CursorsStep
<1> QED
  BY <1>1, <1>2, WindowIsTrue, PTL DEF Spec

(* Whatever the program calls and whatever fails: the types of the state,  *)
(* and that a call has a result exactly when it has ended.                 *)
THEOREM TypeCorrect == Spec => []TypeOK
<1>1. CursorsInv => TypeOK
  BY FilFields DEF CursorsInv, TypeInv, TypeOK, FatfsType, WindowType, DirType, CallType, Steps,
                   FileErrors, Results
<1> QED
  BY <1>1, CursorsInvariance, PTL

(* Between calls position, cluster and sector of a file agree, on every    *)
(* volume, whatever was read, sought and failed before.                    *)
THEOREM CursorsDoAgree == Spec => []CursorsAgree
<1>1. CursorsInv => CursorsAgree
  BY DEF CursorsInv, TypeInv, InFile, CursorInv, Resting, OnChain, OnItsSector, CursorsAgree, Good,
         Clst2Sect
<1> QED
  BY <1>1, CursorsInvariance, PTL

-----------------------------------------------------------------------------
(* The mount of a volume.  The partitions before the one that is looked at *)
(* have no volume, as far as they could be read; and the geometry is what  *)
(* the boot sector in the window makes it.                                 *)
NoneBefore(k) ==
  \A j \in 1 .. k - 1 :
    drive.pt[j] = 0 \/ drive.pt[j] \in unread \/ ~IsVolume(drive.pt[j])

FirstFound ==
  \/ winsect = 0 /\ IsVolume(0)
  \/ \E k \in Parts : winsect = drive.pt[k] /\ IsVolume(winsect) /\ NoneBefore(k)

SearchInv ==
  /\ MountTypeOK /\ drive \in Drives
  /\ at \in Parts => NoneBefore(at)
  /\ at = AtBpb => FirstFound
  /\ result = "FR_OK" =>
       /\ FirstFound /\ winsect # NoSector
       /\ volume = Geometry(drive.sector[winsect], winsect)

LEMMA DriveNumbers ==
  ASSUME NEW d \in Drives
  PROVE  /\ 0 \in DOMAIN d.sector /\ DOMAIN d.sector \subseteq Nat
         /\ \A k \in Parts : d.pt[k] = 0 \/ d.pt[k] \in DOMAIN d.sector
BY MountAssumption

LEMMA BootSectorNumbers ==
  ASSUME NEW d \in Drives, NEW s \in DOMAIN d.sector
  PROVE  LET b == d.sector[s]
         IN  /\ b.spc \in Nat /\ b.nrsv \in Nat /\ b.nfats \in Nat /\ b.nroot \in Nat
             /\ b.tot16 \in Nat /\ b.tot32 \in Nat /\ b.fatsz16 \in Nat /\ b.fatsz32 \in Nat
BY MountAssumption

LEMMA CheckFsType ==
  ASSUME NEW b
  PROVE  CheckFs(b) \in {0, 2, 3}
BY DEF CheckFs

(* A look at a sector of the drive.                                        *)
LEMMA Looked ==
  ASSUME MountTypeOK, NEW s \in DOMAIN drive.sector, Look(s), drive' = drive
  PROVE  /\ winsect' \in DOMAIN drive.sector \cup {NoSector} /\ fmt' \in {0, 2, 3, 4}
         /\ unread' \subseteq DOMAIN drive.sector /\ unread \subseteq unread'
         /\ fmt' # 4 => winsect' = s /\ fmt' = CheckFs(drive.sector[s])
         /\ fmt' = 4 => s \in unread'
         /\ fmt' = 0 <=> winsect' = s /\ fmt' # 4 /\ IsVolume(s)
<1>1. CheckFs(drive.sector[s]) \in {0, 2, 3}
  BY CheckFsType
<1> QED
  BY <1>1 DEF Look, MountTypeOK, IsVolume

LEMMA MountStart == MountInit => SearchInv
<1> SUFFICES ASSUME MountInit PROVE SearchInv
  OBVIOUS
<1>1. /\ drive \in Drives /\ at = 0 /\ winsect = NoSector /\ fmt = 3
      /\ result = "RUNNING" /\ volume = NoFs /\ unread = {}
  BY DEF MountInit
<1> QED
  BY <1>1 DEF SearchInv, MountTypeOK, Parts, AtBpb, AtEnd

(* Sector 0: a volume, a table of partitions, or neither.                  *)
LEMMA Sector0Step ==
  ASSUME SearchInv, FindInSector0
  PROVE  SearchInv'
<1>1. /\ at = 0 /\ Look(0) /\ drive' = drive /\ volume' = volume
      /\ IF fmt' = 2 THEN at' = 1 /\ result' = result ELSE Finds(fmt')
  BY DEF FindInSector0
<1>2. /\ MountTypeOK /\ drive \in Drives /\ 0 \in DOMAIN drive.sector
      /\ DOMAIN drive.sector \subseteq Nat
  BY DriveNumbers DEF SearchInv
<1>3. /\ winsect' \in DOMAIN drive.sector \cup {NoSector} /\ fmt' \in {0, 2, 3, 4}
      /\ unread' \subseteq DOMAIN drive.sector
      /\ fmt' = 0 => winsect' = 0 /\ IsVolume(0)
  BY <1>1, <1>2, Looked
<1>4. result = "RUNNING" /\ ~(result = "FR_OK") /\ volume = NoFs
  BY <1>1, <1>2 DEF MountTypeOK, AtEnd
<1>5. CASE fmt' = 2
  <2>1. at' = 1 /\ result' = "RUNNING"
    BY <1>1, <1>4, <1>5
  <2>2. MountTypeOK'
    BY <1>1, <1>3, <1>4, <2>1 DEF MountTypeOK, AtBpb, AtEnd
  <2>3. NoneBefore(at)'
    BY <2>1 DEF NoneBefore
  <2> QED
    BY <1>1, <1>2, <2>1, <2>2, <2>3 DEF SearchInv, AtBpb
<1>6. CASE fmt' = 0
  <2>1. at' = AtBpb /\ result' = "RUNNING"
    BY <1>1, <1>4, <1>6 DEF Finds
  <2>2. winsect' # NoSector /\ winsect' = 0 /\ IsVolume(0)'
    BY <1>1, <1>3, <1>6 DEF NoSector, IsVolume
  <2>3. MountTypeOK'
    BY <1>1, <1>3, <1>4, <1>6, <2>1, <2>2 DEF MountTypeOK, AtBpb, AtEnd
  <2>4. FirstFound'
    BY <2>2 DEF FirstFound
  <2> QED
    BY <1>1, <1>2, <2>1, <2>3, <2>4 DEF SearchInv, AtBpb, Parts
<1>7. CASE fmt' \in {3, 4}
  <2>1. at' = AtEnd /\ result' \in {"FR_DISK_ERR", "FR_NO_FILESYSTEM"}
    BY <1>1, <1>7 DEF Finds
  <2>2. MountTypeOK'
    BY <1>1, <1>3, <1>4, <2>1 DEF MountTypeOK, AtBpb, AtEnd
  <2> QED
    BY <1>1, <1>2, <2>1, <2>2 DEF SearchInv, AtBpb, AtEnd, Parts
<1> QED
  BY <1>3, <1>5, <1>6, <1>7

(* A partition: one more without a volume, or the first that has one.      *)
LEMMA PartitionStep ==
  ASSUME SearchInv, FindInPartition
  PROVE  SearchInv'
<1>k. PICK k \in 1 .. 4 : k = at
  BY DEF FindInPartition, Parts
<1>s. PICK s : s = drive.pt[k]
  OBVIOUS
<1>1. /\ at = k /\ drive' = drive /\ volume' = volume
      /\ IF s # 0 THEN Look(s) ELSE fmt' = 3 /\ winsect' = winsect /\ unread' = unread
      /\ IF fmt' >= 2 /\ k < 4 THEN at' = k + 1 /\ result' = result ELSE Finds(fmt')
  BY <1>k, <1>s DEF FindInPartition, GoesOn
<1>2. /\ MountTypeOK /\ drive \in Drives /\ NoneBefore(k)
      /\ s = 0 \/ s \in DOMAIN drive.sector
      /\ DOMAIN drive.sector \subseteq Nat
  BY <1>1, <1>s, DriveNumbers DEF SearchInv, Parts
<1>3. /\ winsect' \in DOMAIN drive.sector \cup {NoSector} /\ fmt' \in {0, 2, 3, 4}
      /\ unread' \subseteq DOMAIN drive.sector /\ unread \subseteq unread'
      /\ fmt' = 0 => winsect' = s /\ IsVolume(s) /\ s \in Nat
      /\ fmt' # 0 => s = 0 \/ s \in unread' \/ ~IsVolume(s)
  <2>1. CASE s = 0
    BY <1>1, <1>2, <2>1 DEF MountTypeOK
  <2>2. CASE s # 0
    BY <1>1, <1>2, <2>2, Looked
  <2> QED
    BY <2>1, <2>2
<1>4. result = "RUNNING" /\ ~(result = "FR_OK") /\ volume = NoFs
  BY <1>1, <1>2 DEF MountTypeOK, AtEnd
<1>5. \A j \in 1 .. k - 1 :
        drive.pt[j] = 0 \/ drive.pt[j] \in unread' \/ ~IsVolume(drive.pt[j])
  BY <1>2, <1>3 DEF NoneBefore
<1>6. \A sect : IsVolume(sect)' <=> IsVolume(sect)
  BY <1>1 DEF IsVolume
<1>p. drive'.pt = drive.pt
  BY <1>1
<1>7. CASE fmt' = 0
  <2>1. at' = AtBpb /\ result' = "RUNNING"
    BY <1>1, <1>4, <1>7 DEF Finds
  <2>2. winsect' # NoSector /\ winsect' = s
    BY <1>3, <1>7 DEF NoSector
  <2>3. MountTypeOK'
    BY <1>1, <1>3, <1>4, <1>7, <2>1, <2>2 DEF MountTypeOK, AtBpb, AtEnd
  <2>4. NoneBefore(k)'
    BY <1>5, <1>6, <1>p DEF NoneBefore
  <2>5. winsect' = drive'.pt[k] /\ IsVolume(winsect)'
    <3>1. IsVolume(winsect)' <=> CheckFs(drive'.sector[winsect']) = 0
      BY DEF IsVolume
    <3>2. IsVolume(s) <=> CheckFs(drive.sector[s]) = 0
      BY DEF IsVolume
    <3> QED
      BY <1>1, <1>3, <1>7, <1>s, <2>2, <3>1, <3>2
  <2>6. FirstFound'
    BY <2>4, <2>5 DEF FirstFound, Parts
  <2> QED
    BY <1>1, <1>2, <2>1, <2>3, <2>6 DEF SearchInv, AtBpb, Parts
<1>8. CASE fmt' # 0 /\ k < 4
  <2>1. at' = k + 1 /\ result' = "RUNNING"
    BY <1>1, <1>3, <1>4, <1>8
  <2>2. MountTypeOK'
    BY <1>1, <1>3, <1>4, <1>8, <2>1 DEF MountTypeOK, AtBpb, AtEnd
  <2>3. NoneBefore(at)'
    <3>1. \A j \in 1 .. k : j \in 1 .. k - 1 \/ j = k
      BY <1>1
    <3>2. \A j \in 1 .. k :
            drive.pt[j] = 0 \/ drive.pt[j] \in unread' \/ ~IsVolume(drive.pt[j])
      BY <1>3, <1>5, <1>8, <1>s, <3>1
    <3>3. at' - 1 = k
      BY <2>1
    <3>4. \A j \in 1 .. at' - 1 :
            drive'.pt[j] = 0 \/ drive'.pt[j] \in unread' \/ CheckFs(drive'.sector[drive'.pt[j]]) # 0
      BY <1>1, <3>2, <3>3 DEF IsVolume
    <3> QED
      BY <3>4 DEF NoneBefore, IsVolume
  <2> QED
    BY <1>1, <1>2, <1>8, <2>1, <2>2, <2>3 DEF SearchInv, AtBpb
<1>9. CASE fmt' # 0 /\ k = 4
  <2>1. at' = AtEnd /\ result' \in {"FR_DISK_ERR", "FR_NO_FILESYSTEM"}
    BY <1>1, <1>3, <1>9 DEF Finds
  <2>2. MountTypeOK'
    BY <1>1, <1>3, <1>4, <2>1 DEF MountTypeOK, AtBpb, AtEnd
  <2> QED
    BY <1>1, <1>2, <2>1, <2>2 DEF SearchInv, AtBpb, AtEnd, Parts
<1> QED
  BY <1>1, <1>7, <1>8, <1>9

LEMMA ReadBpbStep ==
  ASSUME SearchInv, ReadBpb
  PROVE  SearchInv'
<1>1. /\ at = AtBpb /\ at' = AtEnd /\ volume' = Geometry(drive.sector[winsect], winsect)
      /\ result' = IF volume' = NoFs THEN "FR_NO_FILESYSTEM" ELSE "FR_OK"
      /\ drive' = drive /\ winsect' = winsect /\ fmt' = fmt /\ unread' = unread
  BY DEF ReadBpb
<1>2. MountTypeOK /\ drive \in Drives /\ FirstFound /\ winsect # NoSector
  BY <1>1 DEF SearchInv, MountTypeOK
<1>3. MountTypeOK'
  BY <1>1, <1>2 DEF MountTypeOK, AtBpb, AtEnd
<1>4. FirstFound'
  BY <1>1, <1>2 DEF FirstFound, NoneBefore, IsVolume
<1>5. volume' = Geometry(drive.sector[winsect], winsect)'
  BY <1>1
<1> QED
  BY <1>1, <1>2, <1>3, <1>4, <1>5 DEF SearchInv, AtBpb, AtEnd, Parts

LEMMA MountStep == SearchInv /\ [MountNext]_mountVars => SearchInv'
<1>1. SearchInv /\ UNCHANGED mountVars => SearchInv'
  <2> SUFFICES ASSUME SearchInv, UNCHANGED mountVars PROVE SearchInv'
    OBVIOUS
  <2>1. /\ drive' = drive /\ at' = at /\ winsect' = winsect /\ fmt' = fmt
        /\ result' = result /\ volume' = volume /\ unread' = unread
    BY DEF mountVars
  <2>2. FirstFound' <=> FirstFound
    BY <2>1 DEF FirstFound, NoneBefore, IsVolume
  <2>3. NoneBefore(at)' <=> NoneBefore(at)
    BY <2>1 DEF NoneBefore, IsVolume
  <2>4. MountTypeOK'
    BY <2>1 DEF MountTypeOK, SearchInv
  <2>5. Geometry(drive.sector[winsect], winsect)' = Geometry(drive.sector[winsect], winsect)
    BY <2>1
  <2> QED
    BY <2>1, <2>2, <2>3, <2>4, <2>5 DEF SearchInv
<1> QED
  BY <1>1, Sector0Step, PartitionStep, ReadBpbStep DEF MountNext

LEMMA MountInvariance == MountSpec => []SearchInv
BY MountStart, MountStep, PTL DEF MountSpec

(* No state of a mount is of the wrong type.                               *)
THEOREM MountTypeCorrect == MountSpec => []MountTypeOK
<1>1. SearchInv => MountTypeOK
  BY DEF SearchInv
<1> QED
  BY <1>1, MountInvariance, PTL

(* For every card: the volume that is mounted is sector 0's, or that of    *)
(* the first partition that has one among those that could be read         *)
(* (ff.c:3444-3451).                                                       *)
THEOREM FirstIsMounted == MountSpec => []FirstReadable
<1>1. SearchInv => FirstReadable
  BY DEF SearchInv, FirstReadable, FirstFound, NoneBefore
<1> QED
  BY <1>1, MountInvariance, PTL

-----------------------------------------------------------------------------
(* The geometry: what mount_volume computes from a boot sector holds       *)
(* together, where no DWORD wraps.                                         *)
LEMMA EntrySizes ==
  /\ SS \in Nat \ {0} /\ SZDIRE \in Nat \ {0} /\ EntriesPerSector \in Nat \ {0}
  /\ SS = SZDIRE * EntriesPerSector
  /\ SS \div 4 \in Nat \ {0} /\ SS = 4 * (SS \div 4)
  /\ SS \div 2 \in Nat \ {0} /\ SS = 2 * (SS \div 2)
<1>1. SS \in Nat \ {0} /\ SZDIRE \in Nat \ {0} /\ SS % 4 = 0 /\ SS % SZDIRE = 0
  BY FatAssumption
<1>2. SS \div SZDIRE \in Nat /\ SS = SZDIRE * (SS \div SZDIRE) + 0
  BY <1>1, DivMod
<1> DEFINE e == SS \div SZDIRE
<1> HIDE DEF e
<1>3. e \in Nat /\ SS = SZDIRE * e
  <2>1. e \in Nat /\ SZDIRE * e \in Int
    BY <1>1, <1>2 DEF e
  <2> QED
    BY <1>1, <1>2, <2>1 DEF e
<1>4. e # 0
  <2> SUFFICES ASSUME e = 0 PROVE FALSE
    OBVIOUS
  <2>1. SZDIRE * 0 = 0
    BY <1>1
  <2> QED
    BY <1>1, <1>3, <2>1
<1>5. EntriesPerSector = e
  BY DEF EntriesPerSector, e
<1>6. /\ SS \div 4 \in Nat \ {0} /\ SS = 4 * (SS \div 4)
      /\ SS \div 2 \in Nat \ {0} /\ SS = 2 * (SS \div 2)
  BY <1>1
<1> QED
  BY <1>1, <1>3, <1>4, <1>5, <1>6

LEMMA DoesNotWrap ==
  ASSUME NEW n \in Nat, n < 2 ^ Width
  PROVE  Dword(n) = n
<1>1. 2 ^ Width \in Int
  BY MountAssumption
<1> DEFINE m == 2 ^ Width
<1>2. m \in Nat \ {0} /\ n \in 0 .. m - 1
  BY <1>1
<1>3. Dword(n) = n % m
  BY DEF Dword
<1> HIDE DEF m
<1>4. n = m * 0 + n
  BY <1>2
<1> QED
  BY <1>2, <1>3, <1>4, DivModUnique

(* The bytes of a root directory that is a whole number of sectors.        *)
LEMMA RootSectors ==
  ASSUME NEW n \in Nat, n % EntriesPerSector = 0
  PROVE  (n * SZDIRE) \div SS = n \div EntriesPerSector
<1> DEFINE e == EntriesPerSector
           q == n \div EntriesPerSector
<1>1. e \in Nat \ {0} /\ SZDIRE \in Nat \ {0} /\ SS \in Nat \ {0} /\ SS = SZDIRE * e
  BY EntrySizes
<1>2. q \in Nat /\ n = e * q
  <2>1. /\ n \div EntriesPerSector \in Nat
        /\ n = EntriesPerSector * (n \div EntriesPerSector) + (n % EntriesPerSector)
    BY <1>1, DivMod
  <2>2. EntriesPerSector * (n \div EntriesPerSector) \in Nat
    BY <1>1, <2>1, ProductOfNats
  <2> QED
    BY <2>1, <2>2
<1> HIDE DEF e, q
<1>3. n * SZDIRE = SS * q
  <2>1. (e * q) * SZDIRE = (SZDIRE * e) * q
    BY <1>1, <1>2
  <2> QED
    BY <1>1, <1>2, <2>1
<1>4. n * SZDIRE \in Nat
  BY <1>1, ProductOfNats
<1> DEFINE a == n * SZDIRE
<1> HIDE DEF a
<1>5. a \in Nat /\ a = SS * q + 0 /\ 0 \in 0 .. SS - 1
  <2>1. SS * q \in Nat /\ a = SS * q /\ a \in Nat
    BY <1>1, <1>2, <1>3, <1>4, ProductOfNats DEF a
  <2> QED
    BY <1>1, <2>1
<1>6. a \div SS = q
  BY <1>1, <1>2, <1>5, DivModUnique
<1> QED
  BY <1>6 DEF a, q

(* Rounding up, and what is then below the rounded size.                   *)
LEMMA RoomFor ==
  ASSUME NEW d \in Nat \ {0}, NEW n \in Nat, NEW size \in Nat, size >= (n + d - 1) \div d,
         NEW a \in Nat, a < n
  PROVE  a \div d < size
<1> DEFINE m == n + d - 1
           q == m \div d
           r == m % d
           p == a \div d
           t == a % d
<1>1. q \in Nat /\ r \in 0 .. d - 1 /\ m = d * q + r /\ m \in Nat
  <2>1. m \in Nat
    OBVIOUS
  <2> HIDE DEF m
  <2> QED
    BY <2>1, DivMod
<1>2. p \in Nat /\ t \in 0 .. d - 1 /\ a = d * p + t
  BY DivMod
<1>3. size >= q /\ m = n + d - 1
  OBVIOUS
<1> HIDE DEF m, q, r, p, t
<1>4. p < q
  <2> SUFFICES ASSUME q <= p PROVE FALSE
    BY <1>1, <1>2
  <2>1. d * q <= d * p /\ d * q \in Nat /\ d * p \in Nat
    BY <1>1, <1>2, ProductMonotone, ProductOfNats
  <2> QED
    BY <1>1, <1>2, <1>3, <2>1
<1>5. p < size
  BY <1>1, <1>2, <1>3, <1>4
<1> QED
  BY <1>5 DEF p

(* Each cluster has its entry in a FAT of the size that is asked for.      *)
LEMMA EntryInFat ==
  ASSUME NEW type \in {"FAT12", "FAT16", "FAT32"}, NEW n \in Nat, NEW c \in Nat, c < n,
         NEW size \in Nat, size >= (FatBytesNeeded(type, n) + SS - 1) \div SS
  PROVE  /\ type = "FAT12" => (c + c \div 2 + 1) \div SS < size
         /\ type = "FAT16" => c \div (SS \div 2) < size
         /\ type = "FAT32" => c \div (SS \div 4) < size
<1>s. SS \in Nat \ {0}
  BY EntrySizes
<1>1. CASE type = "FAT12"
  <2>1. FatBytesNeeded(type, n) = (n * 3) \div 2 + (n % 2)
    BY <1>1 DEF FatBytesNeeded
  <2>2. PICK m \in Nat : m = (n * 3) \div 2 + (n % 2)
    OBVIOUS
  <2>3. PICK a \in Nat : a = c + c \div 2 + 1
    OBVIOUS
  <2>4. a < m
    BY <2>2, <2>3
  <2>5. a \div SS < size
    BY <1>s, <2>1, <2>2, <2>4, RoomFor
  <2> QED
    BY <1>1, <2>3, <2>5
<1>2. CASE type = "FAT16"
  <2>1. FatBytesNeeded(type, n) = n * 2 /\ n * 2 \in Nat /\ 2 * c \in Nat /\ 2 * c < n * 2
    BY <1>2 DEF FatBytesNeeded
  <2>2. (2 * c) \div SS < size
    BY <1>s, <2>1, RoomFor
  <2>3. (2 * c) \div SS = c \div (SS \div 2)
    <3>1. PICK h \in Nat \ {0} : h = SS \div 2 /\ SS = 2 * h
      BY EntrySizes
    <3>2. ((2 * c) \div (2 * h)) = ((2 * c) \div 2) \div h
      <4>1. 2 * h = h * 2 /\ 2 * c \in Nat /\ 2 \in Nat \ {0}
        BY <3>1
      <4> QED
        BY <3>1, <4>1, DivByProduct
    <3>3. (2 * c) \div 2 = c
      OBVIOUS
    <3> QED
      BY <3>1, <3>2, <3>3
  <2> QED
    BY <1>2, <2>2, <2>3
<1>3. CASE type = "FAT32"
  <2>1. FatBytesNeeded(type, n) = n * 4 /\ n * 4 \in Nat /\ 4 * c \in Nat /\ 4 * c < n * 4
    BY <1>3 DEF FatBytesNeeded
  <2>2. (4 * c) \div SS < size
    BY <1>s, <2>1, RoomFor
  <2>3. (4 * c) \div SS = c \div (SS \div 4)
    <3>1. PICK h \in Nat \ {0} : h = SS \div 4 /\ SS = 4 * h
      BY EntrySizes
    <3>2. ((4 * c) \div (4 * h)) = ((4 * c) \div 4) \div h
      <4>1. 4 * h = h * 4 /\ 4 * c \in Nat /\ 4 \in Nat \ {0}
        BY <3>1
      <4> QED
        BY <3>1, <4>1, DivByProduct
    <3>3. (4 * c) \div 4 = c
      OBVIOUS
    <3> QED
      BY <3>1, <3>2, <3>3
  <2> QED
    BY <1>3, <2>2, <2>3
<1> QED
  BY <1>1, <1>2, <1>3

LEMMA GeometryIsSound ==
  ASSUME NEW d \in Drives, NEW s \in DOMAIN d.sector, NEW b, b = d.sector[s],
         NEW g, g = Geometry(b, s), g # NoFs,
         b.nrsv + FatSize(b) * b.nfats + b.nroot < 2 ^ Width,
         s + TotalSectors(b) < 2 ^ Width
  PROVE  /\ g.volbase < g.fatbase
         /\ g.type # "FAT32" => g.dirbase = g.fatbase + g.n_fats * g.fsize
         /\ g.fatbase + g.n_fats * g.fsize + (g.n_rootdir * SZDIRE) \div SS = g.database
         /\ \A c \in Clusters(g) :
              /\ Clst2Sect(g, c) + g.csize <= g.volbase + TotalSectors(b)
              /\ FatSectorLast(g, c) < g.fatbase + g.fsize
<1>1. /\ s \in Nat /\ b.spc \in Nat /\ b.nrsv \in Nat /\ b.nfats \in Nat /\ b.nroot \in Nat
      /\ b.tot16 \in Nat /\ b.tot32 \in Nat /\ b.fatsz16 \in Nat /\ b.fatsz32 \in Nat
  BY BootSectorNumbers, DriveNumbers
<1>2. PICK F \in Nat : F = FatSize(b)
  BY <1>1 DEF FatSize, Either
<1>3. PICK T \in Nat : T = TotalSectors(b)
  BY <1>1 DEF TotalSectors, Either
<1>4. PICK cc : cc = ClusterCount(b)
  OBVIOUS
<1>5. PICK type : type = TypeOf(cc)
  OBVIOUS
<1>6. PICK sys : sys = SysSectors(b)
  OBVIOUS
<1>7. /\ b.nfats \in {1, 2} /\ PowerOf2(b.spc) /\ b.nroot % EntriesPerSector = 0 /\ b.nrsv # 0
      /\ T >= sys /\ type # "none"
      /\ F >= (FatBytesNeeded(type, cc + 2) + SS - 1) \div SS
      /\ g = [type |-> type, csize |-> b.spc, n_fatent |-> cc + 2, volbase |-> s,
              fatbase |-> Dword(s + b.nrsv), fsize |-> F, n_fats |-> b.nfats,
              dirbase |-> IF type = "FAT32" THEN b.rootclus
                          ELSE Dword(Dword(s + b.nrsv) + FatArea(b)),
              database |-> Dword(s + sys), n_rootdir |-> b.nroot]
  BY <1>2, <1>3, <1>4, <1>5, <1>6 DEF Geometry
<1>8. type \in {"FAT12", "FAT16", "FAT32"}
  BY <1>5, <1>7 DEF TypeOf
<1>9. PICK A \in Nat : A = F * b.nfats /\ A = b.nfats * F
  <2>1. CASE b.nfats = 1
    BY <2>1
  <2>2. CASE b.nfats = 2
    BY <2>2
  <2> QED
    BY <1>7, <2>1, <2>2
<1>10. PICK R \in Nat : R = b.nroot \div EntriesPerSector /\ R <= b.nroot
  <2>1. PICK e \in Nat \ {0} : e = EntriesPerSector
    BY EntrySizes
  <2>2. PICK n \in Nat : n = b.nroot
    BY <1>1
  <2>3. PICK q \in Nat : q = n \div e /\ q <= n
    BY <2>1, QuotientBelow
  <2> QED
    BY <2>1, <2>2, <2>3
<1>11. /\ b.nrsv + A + b.nroot < 2 ^ Width /\ s + T < 2 ^ Width /\ 2 ^ Width \in Int
  BY <1>2, <1>3, <1>9, MountAssumption
<1>12. FatArea(b) = A
  <2>1. A < 2 ^ Width
    BY <1>1, <1>11
  <2>2. Dword(A) = A
    BY <2>1, DoesNotWrap
  <2> QED
    BY <1>2, <1>9, <2>2 DEF FatArea
<1>13. sys = b.nrsv + A + R /\ sys \in Nat
  <2>1. b.nrsv + A + R \in Nat /\ b.nrsv + A + R < 2 ^ Width
    BY <1>1, <1>10, <1>11
  <2>2. Dword(b.nrsv + A + R) = b.nrsv + A + R
    BY <2>1, DoesNotWrap
  <2> QED
    BY <1>6, <1>10, <1>12, <2>1, <2>2 DEF SysSectors
<1>14. Dword(s + b.nrsv) = s + b.nrsv
  <2>1. s + b.nrsv \in Nat /\ s + b.nrsv < 2 ^ Width
    BY <1>1, <1>7, <1>11, <1>13
  <2> QED
    BY <2>1, DoesNotWrap
<1>15. Dword(s + sys) = s + sys
  <2>1. s + sys \in Nat /\ s + sys < 2 ^ Width
    BY <1>1, <1>7, <1>11, <1>13
  <2> QED
    BY <2>1, DoesNotWrap
<1>16. Dword(s + b.nrsv + A) = s + b.nrsv + A
  <2>1. s + b.nrsv + A \in Nat /\ s + b.nrsv + A < 2 ^ Width
    BY <1>1, <1>7, <1>11, <1>13
  <2> QED
    BY <2>1, DoesNotWrap
<1>17. PICK k \in Nat \ {0} : k = b.spc
  BY <1>1, <1>7 DEF PowerOf2
<1>18. cc \in Nat /\ k * cc <= T - sys /\ k * cc \in Nat
  <2>1. PICK left \in Nat : left = T - sys
    BY <1>7, <1>13
  <2>2. cc = left \div k
    BY <1>3, <1>4, <1>6, <1>17, <2>1 DEF ClusterCount
  <2>3. PICK q \in Nat : q = left \div k /\ k * q \in Nat /\ k * q <= left
    BY <1>17, <2>1, QuotientBelow
  <2>4. cc = q
    BY <2>2, <2>3
  <2> QED
    BY <2>1, <2>3, <2>4
<1>19. /\ g.type = type /\ g.csize = k /\ g.n_fatent = cc + 2 /\ g.volbase = s
       /\ g.fatbase = s + b.nrsv /\ g.fsize = F /\ g.n_fats = b.nfats
       /\ g.database = s + b.nrsv + A + R /\ g.n_rootdir = b.nroot
       /\ type # "FAT32" => g.dirbase = s + b.nrsv + A
  BY <1>1, <1>7, <1>12, <1>13, <1>14, <1>15, <1>16, <1>17
<1>20. g.volbase < g.fatbase
  BY <1>1, <1>7, <1>19
<1>21. /\ g.type # "FAT32" => g.dirbase = g.fatbase + g.n_fats * g.fsize
       /\ g.fatbase + g.n_fats * g.fsize + (g.n_rootdir * SZDIRE) \div SS = g.database
  <2>1. (g.n_rootdir * SZDIRE) \div SS = R
    BY <1>1, <1>7, <1>10, <1>19, RootSectors
  <2>2. g.n_fats * g.fsize = A
    BY <1>9, <1>19
  <2> QED
    BY <1>1, <1>19, <2>1, <2>2
<1>22. ASSUME NEW c \in Clusters(g)
       PROVE  /\ Clst2Sect(g, c) + g.csize <= g.volbase + TotalSectors(b)
              /\ FatSectorLast(g, c) < g.fatbase + g.fsize
  <2>1. c \in Nat /\ c >= 2 /\ c < cc + 2
    BY <1>18, <1>19 DEF Clusters
  <2>2. Clst2Sect(g, c) + g.csize <= g.volbase + TotalSectors(b)
    <3>1. k * (c - 2) + k = k * (c - 1)
      BY <2>1
    <3>2. k * (c - 1) <= k * cc
      <4>1. c - 1 \in Nat /\ c - 1 <= cc
        BY <1>18, <2>1
      <4> QED
        BY <1>17, <1>18, <4>1, ProductMonotone
    <3>3. k * (c - 2) \in Nat /\ k * (c - 1) \in Nat
      <4>1. c - 1 \in Nat /\ c - 2 \in Nat
        BY <2>1
      <4> QED
        BY <4>1, ProductOfNats
    <3>4. Clst2Sect(g, c) = s + b.nrsv + A + R + k * (c - 2)
      BY <1>19 DEF Clst2Sect
    <3>5. PICK u \in Nat : u = k * (c - 2)
      BY <3>3
    <3>6. u + k <= T - sys
      <4>1. PICK v \in Nat : v = k * (c - 1)
        BY <3>3
      <4>2. PICK w \in Nat : w = k * cc
        BY <1>18
      <4>3. u + k = v /\ v <= w /\ w <= T - sys
        BY <1>18, <3>1, <3>2, <3>5, <4>1, <4>2
      <4> QED
        BY <1>13, <4>3
    <3> QED
      BY <1>1, <1>3, <1>13, <1>19, <3>4, <3>5, <3>6
  <2>3. FatSectorLast(g, c) < g.fatbase + g.fsize
    <3>1. cc + 2 \in Nat
      BY <1>18
    <3>2. /\ type = "FAT12" => (c + c \div 2 + 1) \div SS < F
          /\ type = "FAT16" => c \div (SS \div 2) < F
          /\ type = "FAT32" => c \div (SS \div 4) < F
      BY <1>7, <1>8, <2>1, <3>1, EntryInFat
    <3>3. /\ (c + c \div 2 + 1) \div SS \in Int
          /\ c \div (SS \div 2) \in Int /\ c \div (SS \div 4) \in Int
      <4>1. PICK n \in Nat : n = c + c \div 2 + 1
        BY <2>1
      <4>2. n \div SS \in Nat
        BY EntrySizes, DivMod
      <4>3. c \div (SS \div 2) \in Nat /\ c \div (SS \div 4) \in Nat
        BY <2>1, EntrySizes, DivMod
      <4> QED
        BY <4>1, <4>2, <4>3
    <3> QED
      BY <1>1, <1>8, <1>19, <3>2, <3>3 DEF FatSectorLast, FatSector
  <2> QED
    BY <2>2, <2>3
<1> QED
  BY <1>20, <1>21, <1>22

(* For every drive, sector size and limit of cluster counts: the geometry  *)
(* of a mounted volume holds together, where no DWORD wraps                *)
(* (ff.c:3589-3638).                                                       *)
THEOREM GeometryIsAlwaysSound == MountSpec => []GeometryHolds
<1>1. SearchInv => GeometryHolds
  <2> SUFFICES ASSUME SearchInv, result = "FR_OK", NoWrap
               PROVE  LET fatsEnd == volume.fatbase + volume.n_fats * volume.fsize
                          rootEnd == fatsEnd + (volume.n_rootdir * SZDIRE) \div SS
                      IN  /\ volume.volbase < volume.fatbase
                          /\ volume.type # "FAT32" => volume.dirbase = fatsEnd
                          /\ rootEnd = volume.database
                          /\ \A c \in Clusters(volume) :
                               /\ Clst2Sect(volume, c) + volume.csize
                                    <= volume.volbase + TotalSectors(drive.sector[winsect])
                               /\ FatSectorLast(volume, c) < volume.fatbase + volume.fsize
    BY DEF GeometryHolds
  <2>1. /\ drive \in Drives /\ winsect \in DOMAIN drive.sector
        /\ volume = Geometry(drive.sector[winsect], winsect) /\ volume # NoFs
    BY DEF SearchInv, MountTypeOK
  <2>2. PICK b : b = drive.sector[winsect]
    OBVIOUS
  <2>3. /\ b.nrsv + FatSize(b) * b.nfats + b.nroot < 2 ^ Width
        /\ winsect + TotalSectors(b) < 2 ^ Width
    BY <2>2 DEF NoWrap
  <2> QED
    BY <2>1, <2>2, <2>3, GeometryIsSound
<1> QED
  BY <1>1, MountInvariance, PTL
-----------------------------------------------------------------------------
(* The contract.  What the proof adds to the cursors: a step belongs to    *)
(* the call that was asked for, and it goes on from where that began.      *)
ServedBy(p) ==
  CASE p \in {"open", "dir_find", "dir_next"} -> "open"
    [] p \in {"read", "cluster", "sector"}    -> "read"
    [] p \in {"seek", "follow"}               -> "seek"
    [] OTHER                                  -> p

CallInv ==
  /\ fp.id <= fs.id
  /\ pc # "idle" => call.q.op = ServedBy(pc)
  /\ pc \notin {"idle", "cluster", "sector"} => got = <<>>
  /\ pc \in {"read", "seek", "close"} =>
       call.n = call.q.n /\ call.fptr = fp.fptr /\ call.err = fp.err
  /\ pc \in {"dir_find", "dir_next"} => fs.mounted
  /\ pc \in {"cluster", "sector", "follow"} => Good /\ call.err = "FR_OK"

(* The cluster of a position is one of the volume, but for the first       *)
(* cluster of a file whose chain has none; and inside a sector it always   *)
(* is.                                                                     *)
Known(f) == f.clust \in Clusters(vol) \/ (f.clust = f.sclust /\ f.clust # 0)
ClusterInv ==
  /\ fp.open /\ fp.err = "FR_OK" /\ pc # "sector" => (fp.fptr > 0 => Known(fp))
  /\ fp.open /\ fp.err = "FR_OK" /\ pc # "follow" =>
       (fp.fptr % SS # 0 => fp.clust \in Clusters(vol))
  /\ pc = "sector" /\ fp.clust \notin Clusters(vol) =>
       Link(vol, fp.sclust, fp.fptr \div ClusterBytes(vol)) = 0
  /\ pc = "follow" => Known(fp)

(* The bytes read so far are the next ones of the file, and those that are *)
(* left make up the number that was asked for.                             *)
BytesFrom(v, first, from, n) == [i \in 1 .. n |-> FileByte(v, first, from + i - 1)]
ReadInv ==
  pc \in {"cluster", "sector"} =>
    /\ call.fptr <= fp.fptr /\ call.fptr <= fp.size
    /\ got = BytesFrom(vol, fp.sclust, call.fptr, fp.fptr - call.fptr)
    /\ fp.fptr + call.n = call.fptr + Smaller(call.q.n, fp.size - call.fptr)
    /\ fp.fptr > call.fptr =>
         Link(vol, fp.sclust, (fp.fptr - 1) \div ClusterBytes(vol)) # 0
SeekInv ==
  pc = "follow" => fp.fptr + call.n = Smaller(call.q.n, fp.size)

(* The search is in the directory that the path leads to up to there, at   *)
(* its entry k, and the name is not that of an entry before it.            *)
AtEntry(v, sclust, k, d) ==
  LET first == DirSdi(v, sclust).clust
      i == (k * SZDIRE) \div ClusterBytes(v)
  IN  /\ DirSdi(v, sclust).sect # 0
      /\ k * SZDIRE < MAX_DIR /\ d.dptr = k * SZDIRE
      /\ IF first = 0
         THEN d.clust = 0 /\ k < v.n_rootdir /\ d.sect = v.dirbase + (k * SZDIRE) \div SS
         ELSE /\ d.clust = Link(v, first, i) /\ d.clust # 0
              /\ d.sect = Clst2Sect(v, d.clust) + ((k * SZDIRE) % ClusterBytes(v)) \div SS

NotBefore(v, sclust, name, k) ==
  \A i \in Nat : i < k => ~StopsAt(EntryNo(v, sclust, i), name)

IsRest(path, j, rest) ==
  /\ j \in Nat /\ j + Len(rest) = Len(path) /\ rest # <<>>
  /\ \A i \in 1 .. Len(rest) : rest[i] = path[j + i]

FindInv ==
  pc \in {"dir_find", "dir_next"} =>
    \E j \in 0 .. Len(call.q.path), k \in Nat :
      LET dir == Route(vol, call.q.path)[j]
      IN  /\ dp.path \in Seq(STRING) /\ IsRest(call.q.path, j, dp.path)
          /\ dir.name \notin {"end", "broken"} /\ dir.attr = "dir"
          /\ AtEntry(vol, dir.clust, k, dp)
          /\ NotBefore(vol, dir.clust, Head(dp.path), IF pc = "dir_find" THEN k ELSE k + 1)

(* The file is one that a path leads to; and what errors tell is so.       *)
CauseInv ==
  /\ fp.open => \E p \in PathsAsked :
       LET e == Target(vol, p)
       IN  IsFile(e) /\ fp.sclust = e.clust /\ fp.size = e.size
  /\ fp.open /\ fp.err = "FR_INT_ERR" => vol \notin Sound
  /\ ErrorsHaveCause

KeepInv == CallInv /\ ClusterInv /\ ReadInv /\ SeekInv /\ FindInv /\ CauseInv

(* A larger number has no smaller quotient.                                *)
LEMMA QuotientMonotone ==
  ASSUME NEW d \in Nat \ {0}, NEW a \in Nat, NEW b \in Nat, a <= b
  PROVE  a \div d <= b \div d
<1>1. PICK p \in Nat : p = a \div d /\ a = d * p + (a % d) /\ a % d \in 0 .. d - 1
  BY DivMod
<1>2. PICK q \in Nat : q = b \div d /\ b = d * q + (b % d) /\ b % d \in 0 .. d - 1
  BY DivMod
<1>3. ASSUME q + 1 <= p PROVE FALSE
  <2>1. d * (q + 1) <= d * p
    BY <1>1, <1>2, <1>3, ProductMonotone
  <2>2. d * (q + 1) = d * q + d /\ d * q \in Nat /\ d * p \in Nat
    BY <1>1, <1>2
  <2> QED
    BY <1>1, <1>2, <2>1, <2>2
<1> QED
  BY <1>1, <1>2, <1>3

-----------------------------------------------------------------------------
(* The reference: what a chain, the bytes of a file, a directory and a path  *)
(* are.                                                                    *)
LEMMA LinkIsCluster ==
  ASSUME NEW v, NEW first, NEW k \in Nat, Link(v, first, k) # 0
  PROVE  Link(v, first, k) \in Clusters(v)
<1>1. CASE k = 0
  BY <1>1, FirstLink
<1>2. CASE k # 0
  <2>1. PICK j \in Nat : k = j + 1
    <3>1. k - 1 \in Nat /\ k = (k - 1) + 1
      BY <1>2
    <3> QED
      BY <3>1
  <2> QED
    BY <2>1, NextLink
<1> QED
  BY <1>1, <1>2

(* A chain that has ended does not go on.                                  *)
LEMMA EndedChain ==
  ASSUME NEW v, NEW first, NEW k \in Nat, Link(v, first, k) = 0
  PROVE  \A n \in Nat : n >= k => Link(v, first, n) = 0
<1> DEFINE T == {n \in Nat : n >= k => Link(v, first, n) = 0}
<1>1. 0 \in T
  OBVIOUS
<1>2. ASSUME NEW n \in Nat, n \in T PROVE n + 1 \in T
  <2>1. CASE n + 1 = k
    BY <2>1
  <2>2. CASE n >= k
    <3>1. Link(v, first, n) = 0
      BY <1>2, <2>2
    <3>2. 0 \notin Clusters(v)
      BY DEF Clusters
    <3>3. Link(v, first, n + 1) = 0
      BY <3>1, <3>2, NextLink
    <3> QED
      BY <3>3
  <2>3. CASE n + 1 < k
    BY <2>3
  <2> QED
    BY <2>1, <2>2, <2>3
<1> HIDE DEF T
<1>3. Nat \subseteq T
  BY <1>1, <1>2, SetInduction
<1> QED
  BY <1>3 DEF T

(* A cluster has a sector, and a byte of a chain a place.                  *)
LEMMA SectorOfCluster ==
  ASSUME NEW v \in Volumes, NEW c
  PROVE  Clst2Sect(v, c) = 0 <=> c \notin Clusters(v)
<1>1. CASE c \in Clusters(v)
  <2>1. c - 2 \in Nat
    BY <1>1, VolumeNumbers DEF Clusters
  <2>2. v.csize * (c - 2) \in Nat
    BY <2>1, VolumeNumbers, ProductOfNats
  <2> QED
    BY <1>1, <2>2, VolumeNumbers DEF Clst2Sect
<1> QED
  BY <1>1 DEF Clst2Sect

LEMMA NoByte ==
  ASSUME NEW v \in Volumes, NEW first, NEW i \in Nat
  PROVE  FileByte(v, first, i) = <<0, 0>> <=> Link(v, first, i \div ClusterBytes(v)) = 0
<1> DEFINE c == Link(v, first, i \div ClusterBytes(v))
<1>1. CASE c = 0
  BY <1>1 DEF FileByte
<1>2. CASE c # 0
  <2>1. PICK k \in Nat : k = i \div ClusterBytes(v)
    BY VolumeNumbers, DivMod
  <2>2. c \in Clusters(v)
    BY <1>2, <2>1, LinkIsCluster
  <2>3. PICK b \in Nat : b = Clst2Sect(v, c) /\ b # 0
    BY <2>2, ClusterSector, SectorOfCluster
  <2>4. PICK m \in Nat : m = i % ClusterBytes(v)
    BY VolumeNumbers, DivMod
  <2>5. PICK q \in Nat : q = m \div SS
    BY FatAssumption, DivMod
  <2>6. FileByte(v, first, i) = <<b + q, i % SS>>
    BY <1>2, <2>3, <2>4, <2>5 DEF FileByte
  <2> QED
    BY <1>2, <2>3, <2>6
<1> QED
  BY <1>1, <1>2

LEMMA FileBytesAre ==
  ASSUME NEW v, NEW first, NEW size \in Nat
  PROVE  \E n \in 0 .. size :
           /\ \A i \in 0 .. n - 1 : FileByte(v, first, i) # <<0, 0>>
           /\ n = size \/ FileByte(v, first, n) = <<0, 0>>
           /\ FileBytes(v, first, size) = BytesFrom(v, first, 0, n)
<1> DEFINE byte == [i \in 1 .. size |-> FileByte(v, first, i - 1)]
           P(m) == /\ \A i \in 1 .. m : byte[i] # <<0, 0>>
                   /\ m = size \/ byte[m + 1] = <<0, 0>>
           n == CHOOSE m \in 0 .. size : P(m)
           T == {m \in Nat : m = size \/ (m < size /\ byte[m + 1] = <<0, 0>>)}
<1>1. \E m \in 0 .. size : P(m)
  <2>1. T \in SUBSET Nat /\ size \in T
    OBVIOUS
  <2> HIDE DEF T
  <2>2. PICK m \in T : \A k \in T : m <= k
    BY <2>1, LeastElement
  <2>3. m \in 0 .. size /\ (m = size \/ byte[m + 1] = <<0, 0>>)
    <3> HIDE DEF byte
    <3>1. m \in Nat /\ m <= size
      BY <2>1, <2>2 DEF T
    <3> QED
      BY <2>2, <3>1 DEF T
  <2>4. \A i \in 1 .. m : byte[i] # <<0, 0>>
    <3> SUFFICES ASSUME NEW i \in 1 .. m, byte[i] = <<0, 0>> PROVE FALSE
      OBVIOUS
    <3>1. i - 1 \in Nat /\ i - 1 < size /\ (i - 1) + 1 = i /\ i - 1 < m
      BY <2>3
    <3> HIDE DEF byte
    <3>2. i - 1 \in T
      BY <3>1 DEF T
    <3> QED
      BY <2>2, <2>3, <3>1, <3>2
  <2> QED
    BY <2>3, <2>4
<1>2. n \in 0 .. size /\ P(n)
  BY <1>1
<1>3. FileBytes(v, first, size) = SubSeq(byte, 1, n)
  BY DEF FileBytes
<1> HIDE DEF n
<1>4. SubSeq(byte, 1, n) = BytesFrom(v, first, 0, n)
  <2>1. SubSeq(byte, 1, n) = [i \in 1 .. n |-> byte[i]]
    BY <1>2 DEF SubSeq
  <2>2. \A i \in 1 .. n : byte[i] = FileByte(v, first, 0 + i - 1)
    BY <1>2
  <2> QED
    BY <2>1, <2>2 DEF BytesFrom
<1>5. \A i \in 0 .. n - 1 : FileByte(v, first, i) # <<0, 0>>
  <2> SUFFICES ASSUME NEW i \in 0 .. n - 1 PROVE FileByte(v, first, i) # <<0, 0>>
    OBVIOUS
  <2>1. i + 1 \in 1 .. n /\ i + 1 \in 1 .. size /\ (i + 1) - 1 = i
    BY <1>2
  <2> QED
    BY <1>2, <2>1
<1>6. n = size \/ FileByte(v, first, n) = <<0, 0>>
  <2>1. ASSUME n < size PROVE byte[n + 1] = FileByte(v, first, n)
    <3>1. n + 1 \in 1 .. size /\ (n + 1) - 1 = n
      BY <1>2, <2>1
    <3> QED
      BY <3>1
  <2>2. n = size \/ byte[n + 1] = <<0, 0>>
    BY <1>2
  <2> HIDE DEF byte
  <2> QED
    BY <1>2, <2>1, <2>2
<1> QED
  BY <1>2, <1>3, <1>4, <1>5, <1>6

(* The next k bytes of a file, if its chain goes that far.                 *)
LEMMA NextBytes ==
  ASSUME NEW v \in Volumes, NEW first, NEW size \in Nat, NEW p \in Nat, NEW k \in Nat,
         p + k <= size,
         k > 0 => Link(v, first, (p + k - 1) \div ClusterBytes(v)) # 0
  PROVE  SubSeq(FileBytes(v, first, size), p + 1, p + k) = BytesFrom(v, first, p, k)
<1>1. PICK n \in 0 .. size :
        /\ n = size \/ FileByte(v, first, n) = <<0, 0>>
        /\ FileBytes(v, first, size) = BytesFrom(v, first, 0, n)
  BY FileBytesAre
<1>2. k > 0 => p + k <= n
  <2> SUFFICES ASSUME k > 0, n < p + k PROVE FALSE
    BY <1>1
  <2>1. n \in Nat /\ FileByte(v, first, n) = <<0, 0>> /\ p + k - 1 \in Nat /\ n <= p + k - 1
    BY <1>1
  <2> DEFINE CB == ClusterBytes(v)
  <2>2. PICK a \in Nat : a = n \div CB /\ Link(v, first, a) = 0
    BY <2>1, NoByte, VolumeNumbers, DivMod
  <2>3. PICK b \in Nat : b = (p + k - 1) \div CB
    BY <2>1, VolumeNumbers, DivMod
  <2>4. a <= b
    BY <2>1, <2>2, <2>3, VolumeNumbers, QuotientMonotone
  <2> QED
    BY <2>2, <2>3, <2>4, EndedChain
<1> DEFINE s == FileBytes(v, first, size)
<1>3. SubSeq(s, p + 1, p + k) = [i \in 1 .. k |-> s[i + p]]
  <2>1. SubSeq(s, p + 1, p + k) = [i \in 1 .. (1 + (p + k) - (p + 1)) |-> s[i + (p + 1) - 1]]
    BY DEF SubSeq
  <2>2. 1 + (p + k) - (p + 1) = k /\ \A i \in 1 .. k : i + (p + 1) - 1 = i + p
    OBVIOUS
  <2> QED
    BY <2>1, <2>2
<1>4. \A i \in 1 .. k : s[i + p] = FileByte(v, first, p + i - 1)
  <2> SUFFICES ASSUME NEW i \in 1 .. k PROVE s[i + p] = FileByte(v, first, p + i - 1)
    OBVIOUS
  <2>1. i + p \in 1 .. n /\ 0 + (i + p) - 1 = p + i - 1
    BY <1>1, <1>2
  <2> QED
    BY <1>1, <2>1 DEF BytesFrom
<1> QED
  BY <1>3, <1>4 DEF BytesFrom

(* A file one of whose bytes is nowhere has a chain that is too short.     *)
LEMMA ShortChain ==
  ASSUME NEW v, NEW first, NEW size \in Nat, NEW i \in Nat, i < size,
         FileByte(v, first, i) = <<0, 0>>
  PROVE  Len(FileBytes(v, first, size)) # size
<1>1. PICK n \in 0 .. size :
        /\ \A j \in 0 .. n - 1 : FileByte(v, first, j) # <<0, 0>>
        /\ FileBytes(v, first, size) = BytesFrom(v, first, 0, n)
  BY FileBytesAre
<1>2. n # size
  <2>1. n = size => i \in 0 .. n - 1
    OBVIOUS
  <2> QED
    BY <1>1, <2>1
<1>3. Len(BytesFrom(v, first, 0, n)) = n
  BY <1>1 DEF BytesFrom
<1> QED
  BY <1>1, <1>2, <1>3

-----------------------------------------------------------------------------
(* Entries are numbered up to the size that a directory may have.          *)
LEMMA EntryIndex ==
  ASSUME NEW k \in Nat
  PROVE  k * SZDIRE < MAX_DIR <=> k \in 0 .. MAX_DIR \div SZDIRE - 1
<1>1. PICK n \in Nat : n = MAX_DIR \div SZDIRE /\ MAX_DIR = SZDIRE * n
  <2>1. MAX_DIR \in Nat /\ SZDIRE \in Nat \ {0} /\ MAX_DIR % SZDIRE = 0
    BY FatAssumption
  <2>2. PICK n \in Nat : n = MAX_DIR \div SZDIRE /\ MAX_DIR = SZDIRE * n + (MAX_DIR % SZDIRE)
    BY <2>1, DivMod
  <2>3. SZDIRE * n \in Nat
    BY <2>1, ProductOfNats
  <2> QED
    BY <2>1, <2>2, <2>3
<1>2. SZDIRE \in Nat \ {0} /\ k * SZDIRE = SZDIRE * k
  BY FatAssumption
<1>3. SZDIRE * k \in Nat /\ SZDIRE * n \in Nat
  BY <1>1, <1>2, ProductOfNats
<1>4. ASSUME n <= k PROVE SZDIRE * n <= SZDIRE * k
  BY <1>1, <1>2, <1>4, ProductMonotone
<1>5. ASSUME k + 1 <= n PROVE SZDIRE * k < SZDIRE * n
  <2>1. SZDIRE * (k + 1) <= SZDIRE * n
    BY <1>1, <1>2, <1>5, ProductMonotone
  <2>2. SZDIRE * (k + 1) = SZDIRE * k + SZDIRE
    BY <1>2
  <2> QED
    BY <1>2, <1>3, <2>1, <2>2
<1> QED
  BY <1>1, <1>2, <1>3, <1>4, <1>5

(* What a name leads to in a directory: the first entry that stops the     *)
(* search, or the end.                                                     *)
LEMMA LookupStops ==
  ASSUME NEW v, NEW sclust, NEW name, NEW k \in Nat, k * SZDIRE < MAX_DIR,
         StopsAt(EntryNo(v, sclust, k), name), NotBefore(v, sclust, name, k)
  PROVE  Lookup(v, sclust, name) = EntryNo(v, sclust, k)
<1> DEFINE Stops == {j \in 0 .. MAX_DIR \div SZDIRE - 1 : StopsAt(EntryNo(v, sclust, j), name)}
<1>1. k \in Stops
  BY EntryIndex
<1>2. \A j \in Stops : j \in Nat /\ k <= j
  BY DEF NotBefore
<1>3. Lookup(v, sclust, name) =
        IF Stops = {} THEN EndEntry
        ELSE EntryNo(v, sclust, CHOOSE m \in Stops : \A j \in Stops : m <= j)
  BY DEF Lookup
<1> HIDE DEF Stops
<1> DEFINE m == CHOOSE m \in Stops : \A j \in Stops : m <= j
<1>4. m \in Stops /\ \A j \in Stops : m <= j
  BY <1>1, <1>2
<1>5. Lookup(v, sclust, name) = EntryNo(v, sclust, m)
  BY <1>1, <1>3
<1> HIDE DEF m
<1>6. m <= k /\ k <= m /\ m \in Nat
  BY <1>1, <1>2, <1>4
<1> QED
  BY <1>5, <1>6

LEMMA LookupEnds ==
  ASSUME NEW v, NEW sclust, NEW name,
         \A k \in Nat : k * SZDIRE < MAX_DIR => ~StopsAt(EntryNo(v, sclust, k), name)
  PROVE  Lookup(v, sclust, name) = EndEntry
<1>1. \A k \in 0 .. MAX_DIR \div SZDIRE - 1 : k \in Nat /\ k * SZDIRE < MAX_DIR
  BY EntryIndex
<1> QED
  BY <1>1 DEF Lookup

-----------------------------------------------------------------------------
(* The entries along a path, like a chain.                                 *)
RouteStep(v, path, T, i) ==
  LET parent == T[i - 1]
  IN  IF i = 0 THEN [EndEntry EXCEPT !.name = "root", !.attr = "dir"]
      ELSE IF parent.name \in {"end", "broken"} THEN parent
      ELSE IF parent.attr # "dir" THEN EndEntry
      ELSE Lookup(v, parent.clust, path[i])

IsRoute(v, path, n, T) == T = [i \in 0 .. n |-> RouteStep(v, path, T, i)]

LEMMA RouteExists ==
  ASSUME NEW v, NEW path, NEW k \in Nat
  PROVE  \E T : IsRoute(v, path, k, T)
<1> DEFINE U == {n \in Nat : \E T : IsRoute(v, path, n, T)}
<1>1. 0 \in U
  <2> DEFINE T == [i \in 0 .. 0 |-> [EndEntry EXCEPT !.name = "root", !.attr = "dir"]]
  <2>1. \A i \in 0 .. 0 : T[i] = RouteStep(v, path, T, i)
    BY DEF RouteStep
  <2>2. IsRoute(v, path, 0, T)
    BY <2>1 DEF IsRoute
  <2> QED
    BY <2>2
<1>2. ASSUME NEW n \in Nat, n \in U PROVE n + 1 \in U
  <2>1. PICK T : IsRoute(v, path, n, T)
    BY <1>2
  <2> DEFINE K == [i \in 0 .. n + 1 |-> IF i <= n THEN T[i] ELSE RouteStep(v, path, T, n + 1)]
  <2>2. \A i \in 0 .. n : K[i] = T[i] /\ T[i] = RouteStep(v, path, T, i)
    BY <2>1 DEF IsRoute
  <2>3. K[n + 1] = RouteStep(v, path, T, n + 1)
    OBVIOUS
  <2>4. \A i \in 0 .. n + 1 : RouteStep(v, path, K, i) = RouteStep(v, path, T, i)
    <3> SUFFICES ASSUME NEW i \in 0 .. n + 1
                 PROVE  RouteStep(v, path, K, i) = RouteStep(v, path, T, i)
      OBVIOUS
    <3> HIDE DEF K
    <3>1. CASE i = 0
      BY <3>1 DEF RouteStep
    <3>2. CASE i # 0
      <4>1. i - 1 \in 0 .. n
        BY <3>2
      <4>2. K[i - 1] = T[i - 1]
        BY <2>2, <4>1
      <4> QED
        BY <4>2 DEF RouteStep
    <3> QED
      BY <3>1, <3>2
  <2>5. \A i \in 0 .. n + 1 : K[i] = RouteStep(v, path, K, i)
    <3> SUFFICES ASSUME NEW i \in 0 .. n + 1 PROVE K[i] = RouteStep(v, path, K, i)
      OBVIOUS
    <3> HIDE DEF K
    <3>1. i \in 0 .. n \/ i = n + 1
      OBVIOUS
    <3> QED
      BY <2>2, <2>3, <2>4, <3>1
  <2>6. IsRoute(v, path, n + 1, K)
    BY <2>5 DEF IsRoute
  <2> QED
    BY <2>6
<1> HIDE DEF U
<1>3. k \in U
  BY <1>1, <1>2, SetInduction
<1> QED
  BY <1>3 DEF U

LEMMA RouteIs ==
  ASSUME NEW v, NEW path, Len(path) \in Nat
  PROVE  /\ Route(v, path)[0] = [EndEntry EXCEPT !.name = "root", !.attr = "dir"]
         /\ \A i \in 1 .. Len(path) :
              LET parent == Route(v, path)[i - 1]
              IN  Route(v, path)[i] =
                    IF parent.name \in {"end", "broken"} THEN parent
                    ELSE IF parent.attr # "dir" THEN EndEntry
                    ELSE Lookup(v, parent.clust, path[i])
<1> DEFINE T == CHOOSE T : IsRoute(v, path, Len(path), T)
<1>1. Route(v, path) = T
  BY DEF Route, IsRoute, RouteStep
<1>2. IsRoute(v, path, Len(path), T)
  BY RouteExists
<1> HIDE DEF T
<1>3. \A i \in 0 .. Len(path) : T[i] = RouteStep(v, path, T, i)
  BY <1>2 DEF IsRoute
<1>4. T[0] = [EndEntry EXCEPT !.name = "root", !.attr = "dir"]
  BY <1>3 DEF RouteStep
<1>5. ASSUME NEW i \in 1 .. Len(path)
      PROVE  LET parent == T[i - 1]
             IN  T[i] = IF parent.name \in {"end", "broken"} THEN parent
                        ELSE IF parent.attr # "dir" THEN EndEntry
                        ELSE Lookup(v, parent.clust, path[i])
  BY <1>3 DEF RouteStep
<1> QED
  BY <1>1, <1>4, <1>5

(* Where a path has ended, or is broken, the rest of it leads nowhere.     *)
LEMMA RouteEnds ==
  ASSUME NEW v, NEW path, Len(path) \in Nat, NEW m \in 0 .. Len(path),
         Route(v, path)[m].name \in {"end", "broken"}
  PROVE  Target(v, path) = Route(v, path)[m]
<1> DEFINE T == Route(v, path)
           U == {i \in Nat : m <= i /\ i <= Len(path) => T[i] = T[m]}
<1>1. 0 \in U
  OBVIOUS
<1>2. ASSUME NEW i \in Nat, i \in U PROVE i + 1 \in U
  <2> SUFFICES ASSUME m <= i + 1, i + 1 <= Len(path) PROVE T[i + 1] = T[m]
    OBVIOUS
  <2>1. CASE m = i + 1
    BY <2>1
  <2>2. CASE m <= i
    <3>1. T[i] = T[m]
      BY <1>2, <2>2
    <3>2. i + 1 \in 1 .. Len(path) /\ (i + 1) - 1 = i
      OBVIOUS
    <3> HIDE DEF T
    <3>3. T[i].name \in {"end", "broken"}
      BY <3>1 DEF T
    <3>4. T[i + 1] = T[i]
      BY <3>2, <3>3, RouteIs DEF T
    <3> QED
      BY <3>1, <3>4
  <2> QED
    BY <2>1, <2>2
<1> HIDE DEF U
<1>3. Len(path) \in U
  BY <1>1, <1>2, SetInduction
<1> QED
  BY <1>3 DEF U, Target

(* So it does where it is a file.                                          *)
LEMMA RouteStopsAtFile ==
  ASSUME NEW v, NEW path, Len(path) \in Nat, NEW m \in Nat, m < Len(path),
         Route(v, path)[m].attr # "dir"
  PROVE  Target(v, path).name \in {"end", "broken"}
<1> DEFINE T == Route(v, path)
<1>1. m + 1 \in 1 .. Len(path) /\ (m + 1) - 1 = m /\ m + 1 \in 0 .. Len(path)
  OBVIOUS
<1>2. T[m + 1] = IF T[m].name \in {"end", "broken"} THEN T[m] ELSE EndEntry
  <2> HIDE DEF T
  <2> QED
    BY <1>1, RouteIs DEF T
<1>3. T[m + 1].name \in {"end", "broken"}
  BY <1>2 DEF EndEntry
<1> HIDE DEF T
<1> QED
  BY <1>1, <1>3, RouteEnds DEF T

-----------------------------------------------------------------------------
(* The place of an entry: its sector in the directory, the cluster that    *)
(* has it, and that sector in the cluster; and those of the next entry.    *)
LEMMA RoomForEntry ==
  ASSUME NEW k \in Nat
  PROVE  ((k * SZDIRE) % SS) + SZDIRE <= SS
<1>1. SS \in Nat \ {0} /\ SZDIRE \in Nat \ {0} /\ SS % SZDIRE = 0
  BY FatAssumption
<1>2. PICK n \in Nat : SS = SZDIRE * n
  <2>1. PICK n \in Nat : n = SS \div SZDIRE
    BY <1>1, DivMod
  <2>2. SS = SZDIRE * n + 0
    BY <1>1, <2>1, DivMod
  <2>3. SZDIRE * n \in Nat
    BY <1>1, ProductOfNats
  <2>4. SS = SZDIRE * n
    BY <2>2, <2>3
  <2> QED
    BY <2>4
<1>3. PICK a \in Nat : a = k * SZDIRE
  BY <1>1, ProductOfNats
<1>4a. PICK r \in 0 .. SS - 1 : r = a % SS
  BY <1>1, <1>3, DivMod
<1>4b. PICK q \in Nat : q = a \div SS
  BY <1>1, <1>3, DivMod
<1>4. r = a % SS /\ a = SS * q + r
  BY <1>1, <1>4a, <1>4b, DivMod
<1>5. PICK j \in Int : j = k - n * q
  BY <1>2, <1>4
<1>6. r = SZDIRE * j
  <2>1. SS * q = SZDIRE * (n * q)
    <3>1. (SZDIRE * n) * q = SZDIRE * (n * q)
      BY <1>1, <1>2, <1>4
    <3> QED
      BY <1>2, <3>1
  <2>2. PICK m \in Nat : m = n * q
    BY <1>2, <1>4, ProductOfNats
  <2>3. SZDIRE * (k - m) = SZDIRE * k - SZDIRE * m
    BY <1>1, <2>2
  <2>4. SZDIRE * m \in Nat /\ SZDIRE * k \in Nat /\ k * SZDIRE = SZDIRE * k
    BY <1>1, <2>2, ProductOfNats
  <2> QED
    BY <1>3, <1>4, <1>5, <2>1, <2>2, <2>3, <2>4
<1>7. j + 1 <= n
  <2> SUFFICES ASSUME n <= j PROVE FALSE
    BY <1>2, <1>5
  <2>1. j \in Nat
    BY <1>2, <1>5
  <2>2. SZDIRE * n <= SZDIRE * j
    BY <1>1, <1>2, <2>1, ProductMonotone
  <2> QED
    BY <1>1, <1>2, <1>4, <1>6, <2>2
<1>8. SZDIRE * (j + 1) <= SZDIRE * n
  <2>1. CASE j + 1 \in Nat
    BY <1>1, <1>2, <1>7, <2>1, ProductMonotone
  <2>2. CASE j + 1 \notin Nat
    <3>1. j < 0
      BY <1>5, <2>2
    <3>2. PICK i \in Nat : i = 0 - j /\ i >= 1
      BY <1>5, <3>1
    <3>3. SZDIRE * i >= 1
      <4>1. SZDIRE * 1 <= SZDIRE * i
        BY <1>1, <3>2, ProductMonotone
      <4> QED
        BY <1>1, <3>2, <4>1
    <3>4. SZDIRE * j = 0 - SZDIRE * i
      <4>1. j = 0 - i
        BY <1>5, <3>2
      <4> QED
        BY <1>1, <3>2, <4>1
    <3> QED
      BY <1>1, <1>4, <1>6, <3>2, <3>3, <3>4
  <2> QED
    BY <2>1, <2>2
<1>9. SZDIRE * (j + 1) = SZDIRE * j + SZDIRE
  BY <1>1, <1>5
<1>10. SZDIRE * j \in Int
  BY <1>1, <1>5
<1> QED
  BY <1>1, <1>2, <1>3, <1>4, <1>6, <1>8, <1>9, <1>10

(* Where entry k and the one after it begin (a, b), and in which sectors   *)
(* of the directory (x, y).                                                *)
InPlaces(v, k, a, b, x, y) ==
  /\ a = k * SZDIRE /\ b = (k + 1) * SZDIRE /\ b = a + SZDIRE /\ b \div SZDIRE = k + 1
  /\ x = a \div SS /\ y = b \div SS
  /\ b % SS # 0 => y = x
  /\ b % SS = 0 => y = x + 1
  /\ a \div ClusterBytes(v) = x \div v.csize
  /\ b \div ClusterBytes(v) = y \div v.csize
  /\ (a % ClusterBytes(v)) \div SS = x % v.csize
  /\ (b % ClusterBytes(v)) \div SS = y % v.csize

LEMMA EntryPlaces ==
  ASSUME NEW v \in Volumes, NEW k \in Nat
  PROVE  \E a \in Nat, b \in Nat, x \in Nat, y \in Nat : InPlaces(v, k, a, b, x, y)
<1>1. SS \in Nat \ {0} /\ SZDIRE \in Nat \ {0}
  BY FatAssumption
<1>2. PICK a \in Nat : a = k * SZDIRE
  BY <1>1, ProductOfNats
<1>3. PICK b \in Nat : b = (k + 1) * SZDIRE /\ b = a + SZDIRE
  <2>1. (k + 1) * SZDIRE = k * SZDIRE + SZDIRE
    BY <1>1
  <2>2. a + SZDIRE \in Nat
    BY <1>1
  <2> QED
    BY <1>2, <2>1, <2>2
<1>4. b \div SZDIRE = k + 1
  <2>1. b = SZDIRE * (k + 1) + 0 /\ 0 \in 0 .. SZDIRE - 1 /\ k + 1 \in Nat
    BY <1>1, <1>3
  <2> QED
    BY <1>1, <2>1, DivModUnique
<1>5. PICK x \in Nat, y \in Nat : x = a \div SS /\ y = b \div SS
  BY <1>1, DivMod
<1>6. (a % SS) + SZDIRE <= SS /\ a % SS \in Nat
  BY <1>1, <1>2, RoomForEntry
<1>7. (b % SS # 0 => y = x) /\ (b % SS = 0 => y = x + 1)
  <2>1. (a % SS) + SZDIRE < SS => (a + SZDIRE) \div SS = a \div SS /\ (a + SZDIRE) % SS = (a % SS) + SZDIRE
    BY <1>1, StepInside
  <2>2. (a % SS) + SZDIRE = SS => (a + SZDIRE) \div SS = a \div SS + 1 /\ (a + SZDIRE) % SS = 0
    BY <1>1, StepInside
  <2>3. PICK r \in Nat : r = a % SS
    BY <1>6
  <2>4. r + SZDIRE < SS \/ r + SZDIRE = SS
    BY <1>1, <1>6, <2>3
  <2>5. r + SZDIRE # 0
    BY <1>1
  <2> QED
    BY <1>3, <1>5, <2>1, <2>2, <2>3, <2>4, <2>5
<1>8. PICK c \in Nat \ {0} : c = v.csize
  BY VolumeNumbers
<1>9. ASSUME NEW i \in Nat
      PROVE  /\ i \div ClusterBytes(v) = (i \div SS) \div v.csize
             /\ (i % ClusterBytes(v)) \div SS = (i \div SS) % v.csize
  <2> SS \in Nat \ {0}
    BY <1>1
  <2>1. i \div ClusterBytes(v) = (i \div SS) \div v.csize
    BY ByteSector
  <2>2. (i % (c * SS)) \div SS = (i \div SS) % c
    BY DivByProduct, Zenon
  <2> QED
    BY <1>8, <2>1, <2>2, Zenon DEF ClusterBytes
<1> QED
  BY <1>2, <1>3, <1>4, <1>5, <1>7, <1>9 DEF InPlaces

(* The next sector of a directory, in its cluster or in the next one.      *)
LEMMA NextSector ==
  ASSUME NEW c \in Nat \ {0}, NEW x \in Nat
  PROVE  /\ x % c \in Nat /\ x \div c \in Nat
         /\ (x + 1) % c # 0 => (x + 1) \div c = x \div c /\ (x + 1) % c = (x % c) + 1
         /\ (x + 1) % c = 0 => (x + 1) \div c = x \div c + 1
<1>1. x % c \in 0 .. c - 1 /\ x \div c \in Nat
  BY DivMod
<1>2. (x % c) + 1 < c => (x + 1) \div c = x \div c /\ (x + 1) % c = (x % c) + 1
  BY StepInside
<1>3. (x % c) + 1 = c => (x + 1) \div c = x \div c + 1 /\ (x + 1) % c = 0
  BY StepInside
<1>4. PICK r \in 0 .. c - 1 : r = x % c
  BY <1>1
<1>5. r + 1 < c \/ r + 1 = c
  OBVIOUS
<1>6. r + 1 # 0
  OBVIOUS
<1> QED
  BY <1>1, <1>2, <1>3, <1>4, <1>5, <1>6

(* A root directory that is not a chain ends with a sector.                *)
LEMMA RootEndsWithSector ==
  ASSUME NEW v \in Volumes
  PROVE  (v.n_rootdir * SZDIRE) % SS = 0
<1>1. SS \in Nat \ {0} /\ SZDIRE \in Nat \ {0} /\ SS % SZDIRE = 0
  BY FatAssumption
<1>2. PICK m \in Nat \ {0} : m = SS \div SZDIRE /\ SS = SZDIRE * m
  <2>1. PICK m \in Nat : m = SS \div SZDIRE /\ SS = SZDIRE * m + (SS % SZDIRE)
    BY <1>1, DivMod
  <2>2. SZDIRE * m \in Nat
    BY <1>1, ProductOfNats
  <2>3. SS = SZDIRE * m
    BY <1>1, <2>1, <2>2
  <2>4. m # 0
    BY <1>1, <2>3
  <2> QED
    BY <2>1, <2>3, <2>4
<1>3. PICK n \in Nat : n = v.n_rootdir /\ n % m = 0
  BY <1>2, VolumesAssumption
<1>4. PICK q \in Nat : n = m * q
  <2>1. PICK q \in Nat : q = n \div m
    BY <1>2, <1>3, DivMod
  <2>2. n = m * q + 0
    <3>1. n = m * (n \div m) + (n % m)
      BY DivMod
    <3> QED
      BY <1>3, <2>1, <3>1
  <2>3. m * q \in Nat
    BY <1>2, ProductOfNats
  <2>4. n = m * q
    BY <2>2, <2>3
  <2> QED
    BY <2>4
<1>5. n * SZDIRE = SS * q + 0
  <2>1. (m * q) * SZDIRE = (SZDIRE * m) * q
    BY <1>1, <1>2, <1>4
  <2>2. SS * q \in Nat
    BY <1>1, <1>4, ProductOfNats
  <2>3. n * SZDIRE = SS * q
    BY <1>2, <1>4, <2>1
  <2> QED
    BY <2>2, <2>3
<1>6. n * SZDIRE \in Nat /\ 0 \in 0 .. SS - 1
  BY <1>1, <1>3, ProductOfNats
<1>7. (n * SZDIRE) % SS = 0
  <2>1. PICK b \in Nat : b = n * SZDIRE
    BY <1>6
  <2> QED
    BY <1>1, <1>4, <1>5, <1>6, <2>1, DivModUnique
<1> QED
  BY <1>3, <1>7

-----------------------------------------------------------------------------
(* The entry at the place where the search is, is the one of that number.  *)
LEMMA EntryHere ==
  ASSUME NEW v, NEW sclust, NEW k, NEW d, AtEntry(v, sclust, k, d)
  PROVE  EntryNo(v, sclust, k) = EntryAt(v, d.sect, d.dptr)
BY DEF AtEntry, EntryNo

LEMMA NoDirectory ==
  ASSUME NEW v, NEW sclust, NEW k, DirSdi(v, sclust).sect = 0
  PROVE  EntryNo(v, sclust, k).name = "broken"
BY DEF EntryNo, EndEntry

LEMMA FirstEntry ==
  ASSUME NEW v \in Volumes, NEW sclust, DirSdi(v, sclust).sect # 0,
         NEW d, d.clust = DirSdi(v, sclust).clust, d.sect = DirSdi(v, sclust).sect, d.dptr = 0
  PROVE  AtEntry(v, sclust, 0, d)
<1> DEFINE first == DirSdi(v, sclust).clust
<1>1. /\ DirSdi(v, sclust).sect = IF first = 0 THEN v.dirbase ELSE Clst2Sect(v, first)
      /\ first = IF sclust = 0 /\ v.type = "FAT32" THEN v.dirbase ELSE sclust
  BY DEF DirSdi
<1>2. /\ 0 * SZDIRE = 0 /\ 0 < MAX_DIR /\ 0 \div SS = 0
      /\ 0 \div ClusterBytes(v) = 0 /\ 0 % ClusterBytes(v) = 0
  BY FatAssumption, VolumeNumbers
<1>3. v.n_rootdir \in Nat /\ (v.type # "FAT32" => v.n_rootdir # 0) /\ v.dirbase \in Nat
  BY VolumesAssumption
<1> HIDE DEF first
<1>4. CASE first = 0
  <2>1. v.type # "FAT32" /\ d.sect = v.dirbase
    BY <1>1, <1>4
  <2>2. 0 < v.n_rootdir /\ d.sect = v.dirbase + 0
    BY <1>3, <2>1
  <2> QED
    BY <1>2, <1>4, <2>2 DEF AtEntry, first
<1>5. CASE first # 0
  <2>1. first \in Clusters(v) /\ d.sect = Clst2Sect(v, first) /\ d.clust = first
    BY <1>1, <1>5, SectorOfCluster DEF first
  <2>2. Link(v, first, 0) = first
    BY <2>1, FirstLink
  <2>3. d.sect = Clst2Sect(v, first) + 0
    BY <2>1, ClusterSector
  <2> QED
    BY <1>2, <1>5, <2>1, <2>2, <2>3 DEF AtEntry, first
<1> QED
  BY <1>4, <1>5

(* From one entry to the next: in the same sector, in the next sector, in  *)
(* the next cluster.                                                       *)
LEMMA NextInSector ==
  ASSUME NEW v \in Volumes, NEW sclust, NEW k \in Nat, NEW d, AtEntry(v, sclust, k, d),
         (k + 1) * SZDIRE < MAX_DIR, ((k + 1) * SZDIRE) % SS # 0,
         NEW e, e.clust = d.clust, e.sect = d.sect, e.dptr = (k + 1) * SZDIRE
  PROVE  AtEntry(v, sclust, k + 1, e)
<1> DEFINE first == DirSdi(v, sclust).clust
<1>0. PICK a \in Nat, b \in Nat, x \in Nat, y \in Nat : InPlaces(v, k, a, b, x, y)
  BY EntryPlaces
<1>1. /\ a = k * SZDIRE /\ b = (k + 1) * SZDIRE
      /\ x = a \div SS /\ y = b \div SS
      /\ b % SS # 0 => y = x
      /\ b % SS = 0 => y = x + 1
      /\ a \div ClusterBytes(v) = x \div v.csize
      /\ b \div ClusterBytes(v) = y \div v.csize
      /\ (a % ClusterBytes(v)) \div SS = x % v.csize
      /\ (b % ClusterBytes(v)) \div SS = y % v.csize
  BY <1>0 DEF InPlaces
<1>2. x = y
  BY <1>1
<1>3. first = 0 => k + 1 < v.n_rootdir
  <2> SUFFICES ASSUME first = 0 PROVE k + 1 < v.n_rootdir
    OBVIOUS
  <2>1. k < v.n_rootdir
    BY DEF AtEntry
  <2>2. k + 1 # v.n_rootdir
    BY RootEndsWithSector
  <2> QED
    BY <2>1, <2>2, VolumeNumbers
<1> QED
  BY <1>1, <1>2, <1>3 DEF AtEntry

LEMMA NextInCluster ==
  ASSUME NEW v \in Volumes, NEW sclust, NEW k \in Nat, NEW d, AtEntry(v, sclust, k, d),
         (k + 1) * SZDIRE < MAX_DIR, ((k + 1) * SZDIRE) % SS = 0,
         IF d.clust = 0 THEN k + 1 < v.n_rootdir
                        ELSE (((k + 1) * SZDIRE) \div SS) % v.csize # 0,
         NEW e, e.clust = d.clust, e.sect = d.sect + 1, e.dptr = (k + 1) * SZDIRE
  PROVE  AtEntry(v, sclust, k + 1, e)
<1> DEFINE first == DirSdi(v, sclust).clust
<1>0. PICK a \in Nat, b \in Nat, x \in Nat, y \in Nat : InPlaces(v, k, a, b, x, y)
  BY EntryPlaces
<1>1. /\ a = k * SZDIRE /\ b = (k + 1) * SZDIRE
      /\ x = a \div SS /\ y = b \div SS
      /\ b % SS # 0 => y = x
      /\ b % SS = 0 => y = x + 1
      /\ a \div ClusterBytes(v) = x \div v.csize
      /\ b \div ClusterBytes(v) = y \div v.csize
      /\ (a % ClusterBytes(v)) \div SS = x % v.csize
      /\ (b % ClusterBytes(v)) \div SS = y % v.csize
  BY <1>0 DEF InPlaces
<1>2. y = x + 1
  BY <1>1
<1>3. CASE first = 0
  <2>1. d.clust = 0 /\ d.sect = v.dirbase + x
    BY <1>1, <1>3 DEF AtEntry
  <2>2. e.sect = v.dirbase + y
    BY <1>2, <2>1, VolumeNumbers
  <2> QED
    BY <1>1, <1>3, <2>1, <2>2 DEF AtEntry
<1>4. CASE first # 0
  <2>1. d.clust = Link(v, first, x \div v.csize) /\ d.clust # 0
    BY <1>1, <1>4 DEF AtEntry
  <2>2. d.sect = Clst2Sect(v, d.clust) + (x % v.csize)
    BY <1>1, <1>4 DEF AtEntry
  <2>3. y % v.csize # 0
    BY <1>1, <2>1
  <2>4. PICK c \in Nat \ {0} : c = v.csize
    BY VolumeNumbers
  <2>5. y \div c = x \div c /\ y % c = (x % c) + 1 /\ x % c \in Nat
    BY <1>2, <2>3, <2>4, NextSector
  <2>6. e.sect = Clst2Sect(v, d.clust) + (y % v.csize)
    BY <2>2, <2>4, <2>5, ClusterSector
  <2>7. e.clust = Link(v, first, y \div v.csize)
    BY <2>1, <2>4, <2>5
  <2> QED
    BY <1>1, <1>4, <2>1, <2>6, <2>7 DEF AtEntry
<1> QED
  BY <1>3, <1>4

LEMMA NextCluster ==
  ASSUME NEW v \in Volumes, NEW sclust, NEW k \in Nat, NEW d, AtEntry(v, sclust, k, d),
         ((k + 1) * SZDIRE) % SS = 0, d.clust # 0,
         (((k + 1) * SZDIRE) \div SS) % v.csize = 0
  PROVE  /\ v.fat[d.clust] <= 1 => EntryNo(v, sclust, k + 1).name = "broken"
         /\ v.fat[d.clust] = v.n_fatent => EntryNo(v, sclust, k + 1) = EndEntry
         /\ \A e : /\ v.fat[d.clust] \in Clusters(v) /\ (k + 1) * SZDIRE < MAX_DIR
                   /\ e.clust = v.fat[d.clust] /\ e.sect = Clst2Sect(v, v.fat[d.clust])
                   /\ e.dptr = (k + 1) * SZDIRE
                   => AtEntry(v, sclust, k + 1, e)
<1> DEFINE first == DirSdi(v, sclust).clust
<1>0. PICK a \in Nat, b \in Nat, x \in Nat, y \in Nat : InPlaces(v, k, a, b, x, y)
  BY EntryPlaces
<1>1. /\ a = k * SZDIRE /\ b = (k + 1) * SZDIRE
      /\ x = a \div SS /\ y = b \div SS
      /\ b % SS # 0 => y = x
      /\ b % SS = 0 => y = x + 1
      /\ a \div ClusterBytes(v) = x \div v.csize
      /\ b \div ClusterBytes(v) = y \div v.csize
      /\ (a % ClusterBytes(v)) \div SS = x % v.csize
      /\ (b % ClusterBytes(v)) \div SS = y % v.csize
  BY <1>0 DEF InPlaces
<1>2. PICK c \in Nat \ {0} : c = v.csize
  BY VolumeNumbers
<1>3. y = x + 1 /\ y % c = 0
  BY <1>1, <1>2
<1>4. PICK i \in Nat : i = x \div c /\ y \div c = i + 1
  BY <1>3, NextSector
<1>5. first # 0 /\ d.clust = Link(v, first, i)
  BY <1>1, <1>2, <1>4 DEF AtEntry
<1>6. d.clust \in Clusters(v) /\ v.fat[d.clust] \in 0 .. v.n_fatent
  BY <1>5, LinkIsCluster, VolumesAssumption
<1>7. Link(v, first, i + 1) = IF v.fat[d.clust] \in Clusters(v) THEN v.fat[d.clust] ELSE 0
  BY <1>5, NextLink
<1>8. DirSdi(v, sclust).sect # 0
  BY DEF AtEntry
<1>9. /\ b \div ClusterBytes(v) = i + 1 /\ i + 1 # 0 /\ (i + 1) - 1 = i
      /\ (b % ClusterBytes(v)) \div SS = 0
  BY <1>1, <1>2, <1>3, <1>4
<1>10. v.n_fatent \in Nat /\ d.clust >= 2 /\ d.clust < v.n_fatent
  BY <1>6, VolumeNumbers DEF Clusters
<1> HIDE DEF first
<1>11. ASSUME Link(v, first, i + 1) = 0
       PROVE  EntryNo(v, sclust, k + 1) =
                IF v.fat[d.clust] >= v.n_fatent THEN EndEntry
                                                ELSE [EndEntry EXCEPT !.name = "broken"]
  BY <1>1, <1>5, <1>8, <1>9, <1>11 DEF EntryNo, first
<1>12. ASSUME v.fat[d.clust] <= 1 PROVE EntryNo(v, sclust, k + 1).name = "broken"
  <2>1. v.fat[d.clust] \notin Clusters(v) /\ ~(v.fat[d.clust] >= v.n_fatent)
    BY <1>6, <1>10, <1>12 DEF Clusters
  <2> QED
    BY <1>7, <1>11, <2>1 DEF EndEntry
<1>13. ASSUME v.fat[d.clust] = v.n_fatent PROVE EntryNo(v, sclust, k + 1) = EndEntry
  <2>1. v.fat[d.clust] \notin Clusters(v) /\ v.fat[d.clust] >= v.n_fatent
    BY <1>10, <1>13 DEF Clusters
  <2> QED
    BY <1>7, <1>11, <2>1
<1>14. ASSUME NEW e, v.fat[d.clust] \in Clusters(v), (k + 1) * SZDIRE < MAX_DIR,
              e.clust = v.fat[d.clust], e.sect = Clst2Sect(v, v.fat[d.clust]),
              e.dptr = (k + 1) * SZDIRE
       PROVE  AtEntry(v, sclust, k + 1, e)
  <2>1. e.clust = Link(v, first, i + 1) /\ e.clust # 0
    BY <1>7, <1>14 DEF Clusters
  <2>2. e.sect = Clst2Sect(v, e.clust) + 0
    BY <1>14, ClusterSector
  <2> QED
    BY <1>1, <1>5, <1>8, <1>9, <1>14, <2>1, <2>2 DEF AtEntry, first
<1> QED
  BY <1>12, <1>13, <1>14

LEMMA RootEnds ==
  ASSUME NEW v, NEW sclust, NEW k \in Nat, NEW d, AtEntry(v, sclust, k, d), d.clust = 0,
         v.n_rootdir \in Nat, k + 1 >= v.n_rootdir
  PROVE  EntryNo(v, sclust, k + 1) = EndEntry
<1>1. DirSdi(v, sclust).clust = 0 /\ DirSdi(v, sclust).sect # 0 /\ ~(k + 1 < v.n_rootdir)
  BY DEF AtEntry
<1> QED
  BY <1>1 DEF EntryNo

-----------------------------------------------------------------------------
(* The bytes that a read takes from the sectors of one cluster are the     *)
(* next ones of the file.                                                  *)
LEMMA AddMultiple ==
  ASSUME NEW d \in Nat \ {0}, NEW x \in Nat, NEW t \in Nat
  PROVE  (d * x + t) \div d = x + t \div d /\ (d * x + t) % d = t % d
<1>1. PICK q \in Nat : q = t \div d
  BY DivMod
<1>2. PICK r \in 0 .. d - 1 : r = t % d
  BY DivMod
<1>3. t = d * q + r
  BY <1>1, <1>2, DivMod
<1>4. d * x \in Nat /\ d * q \in Nat /\ d * (x + q) = d * x + d * q
  BY ProductOfNats
<1>5. PICK a \in Nat : a = d * x + t
  BY <1>4
<1>6. a = d * (x + q) + r /\ x + q \in Nat
  BY <1>3, <1>4, <1>5
<1>7. a \div d = x + q /\ a % d = r
  BY <1>6, DivModUnique
<1> QED
  BY <1>1, <1>2, <1>5, <1>7

LEMMA SectorBytes ==
  ASSUME NEW v \in Volumes, NEW first, NEW i \in Nat, NEW n \in Nat,
         (i % ClusterBytes(v)) + n <= ClusterBytes(v),
         NEW c, c = Link(v, first, i \div ClusterBytes(v)), c # 0,
         NEW sect, sect = Clst2Sect(v, c) + ((i \div SS) % v.csize)
  PROVE  Bytes(sect, i % SS, n) = BytesFrom(v, first, i, n)
<1>1. SS \in Nat \ {0} /\ ClusterBytes(v) \in Nat \ {0} /\ v.csize \in Nat \ {0}
  BY FatAssumption, VolumeNumbers
<1>0. \A e \in Nat, d \in Nat \ {0} : e \div d \in Nat /\ e % d \in Nat
  <2> SUFFICES ASSUME NEW e \in Nat, NEW d \in Nat \ {0} PROVE e \div d \in Nat /\ e % d \in Nat
    OBVIOUS
  <2>1. e % d \in 0 .. d - 1 /\ e \div d \in Nat
    BY DivMod
  <2> QED
    BY <2>1
<1>2. PICK x \in Nat : x = (i \div SS) % v.csize
  BY <1>0, <1>1, Zenon
<1>3. PICK r \in Nat : r = i % SS
  BY <1>0, <1>1, Zenon
<1>4. PICK b \in Nat : b = Clst2Sect(v, c)
  BY ClusterSector
<1>5. sect = b + x /\ sect # Junk
  BY <1>2, <1>4 DEF Junk
<1>6. PICK m \in Nat : m = i % ClusterBytes(v)
  BY <1>1, DivMod
<1>7. m = SS * x + r
  BY <1>2, <1>3, <1>6, ByteSector
<1>8. PICK p \in Nat : p = i \div SS
  BY <1>1, DivMod
<1>9. i = SS * p + r
  BY <1>1, <1>3, <1>8, DivMod
<1>10. ASSUME NEW j \in 1 .. n
       PROVE  FileByte(v, first, i + j - 1)
                = <<sect + (r + j - 1) \div SS, (r + j - 1) % SS>>
  <2>1. PICK k \in Nat : k = j - 1
    BY <1>10
  <2>2. m + k < ClusterBytes(v)
    BY <1>1, <1>6, <2>1
  <2>3. /\ (i + k) \div ClusterBytes(v) = i \div ClusterBytes(v)
        /\ (i + k) % ClusterBytes(v) = m + k
    <3>1. (i % ClusterBytes(v)) + k < ClusterBytes(v)
      BY <1>6, <2>2
    <3> QED
      BY <1>1, <1>6, <3>1, StepInside
  <2>4. FileByte(v, first, i + k) = <<b + (m + k) \div SS, (i + k) % SS>>
    BY <1>4, <2>3 DEF FileByte
  <2>5. PICK t \in Nat : t = r + k
    OBVIOUS
  <2>6. m + k = SS * x + t /\ i + k = SS * p + t
    <3>1. SS * x \in Nat /\ SS * p \in Nat
      BY <1>1, ProductOfNats
    <3> QED
      BY <1>7, <1>9, <2>5, <3>1
  <2>7. PICK q \in Nat : q = t \div SS
    BY <1>1, DivMod
  <2>8. (m + k) \div SS = x + q
    <3>1. (SS * x + t) \div SS = x + t \div SS
      BY <1>1, AddMultiple, Zenon
    <3> QED
      BY <2>6, <2>7, <3>1, Zenon
  <2>9. (i + k) % SS = t % SS
    <3>1. (SS * p + t) % SS = t % SS
      BY <1>1, AddMultiple, Zenon
    <3> QED
      BY <2>6, <3>1, Zenon
  <2>10. i + j - 1 = i + k /\ r + j - 1 = t /\ sect + q = b + (x + q)
    BY <1>5, <2>1, <2>5
  <2> QED
    BY <2>4, <2>7, <2>8, <2>9, <2>10
<1>11. Bytes(sect, i % SS, n) = [j \in 1 .. n |-> <<sect + (r + j - 1) \div SS, (r + j - 1) % SS>>]
  BY <1>3, <1>5 DEF Bytes
<1> QED
  BY <1>10, <1>11 DEF BytesFrom

Joined(s, t) == s \o t

LEMMA BytesJoin ==
  ASSUME NEW v, NEW first, NEW p \in Nat, NEW a \in Nat, NEW n \in Nat,
         NEW s, s = BytesFrom(v, first, p, a), NEW t, t = BytesFrom(v, first, p + a, n)
  PROVE  Joined(s, t) = BytesFrom(v, first, p, a + n)
<1> DEFINE S == {FileByte(v, first, i) : i \in Nat}
<1>1. s \in Seq(S) /\ Len(s) = a
  BY DEF BytesFrom
<1>2. t \in Seq(S) /\ Len(t) = n
  BY DEF BytesFrom
<1>3. \A i \in 1 .. a : s[i] = FileByte(v, first, p + i - 1)
  BY DEF BytesFrom
<1>4. \A i \in 1 .. n : t[i] = FileByte(v, first, p + a + i - 1)
  BY DEF BytesFrom
<1> HIDE DEF S
<1>5. s \o t = [i \in 1 .. a + n |-> IF i <= a THEN s[i] ELSE t[i - a]]
  <2>1. s \o t \in Seq(S) /\ Len(s \o t) = a + n
    BY <1>1, <1>2
  <2>2. s \o t = [i \in 1 .. a + n |-> (s \o t)[i]]
    <3> DEFINE u == s \o t
    <3>1. u \in Seq(S) /\ Len(u) = a + n
      BY <2>1
    <3> HIDE DEF u
    <3>2. u \in [1 .. a + n -> S]
      BY <3>1
    <3>3. u = [i \in 1 .. a + n |-> u[i]]
      BY <3>2
    <3> QED
      BY <3>3 DEF u
  <2>3. \A i \in 1 .. a + n : (s \o t)[i] = IF i <= a THEN s[i] ELSE t[i - a]
    BY <1>1, <1>2
  <2> QED
    BY <2>2, <2>3
<1>6. ASSUME NEW i \in 1 .. a + n
      PROVE  (IF i <= a THEN s[i] ELSE t[i - a]) = FileByte(v, first, p + i - 1)
  <2>1. CASE i <= a
    BY <1>3, <2>1
  <2>2. CASE ~(i <= a)
    <3>1. i - a \in 1 .. n /\ p + a + (i - a) - 1 = p + i - 1
      BY <2>2
    <3> QED
      BY <1>4, <2>2, <3>1
  <2> QED
    BY <2>1, <2>2
<1> QED
  BY <1>5, <1>6 DEF BytesFrom, Joined

-----------------------------------------------------------------------------
(* What the contract sees of the state, and each of its actions in terms   *)
(* of that.                                                                *)
Lost == [good |-> FALSE, file |-> NoFile, pos |-> 0, err |-> "FR_OK"]
Held(err, pos) ==
  [good |-> TRUE, file |-> FileOf(vol, fp.sclust, fp.size), err |-> err,
   pos |-> IF err = "FR_OK" THEN pos ELSE 0]
ApiHandle ==
  IF ~Good THEN Lost
  ELSE IF pc = "idle" THEN Held(fp.err, fp.fptr) ELSE Held(call.err, call.fptr)
ApiData == IF pc = "idle" THEN got ELSE <<>>

Failures == {"FR_DISK_ERR", "FR_INT_ERR", "FR_NOT_READY", "FR_NO_FILESYSTEM", "FR_NOT_ENABLED"}
Absent == {"FR_NO_FILE", "FR_NO_PATH", "FR_INVALID_NAME"}

Serving(op) ==
  res = "RUNNING" /\ call.q.op = op /\ vol' = vol /\ call'.q = call.q

LEMMA ApiHandleIs ==
  Contract!NoHandle = Lost /\ Contract!Failures = Failures /\ Contract!Absent = Absent
BY DEF Contract!NoHandle, Contract!Failures, Contract!Absent, Lost, Failures, Absent

LEMMA ApiStutters ==
  ASSUME vol' = vol, call'.q = call.q, res' = res, ApiHandle' = ApiHandle, ApiData' = ApiData
  PROVE  [Contract!Next]_(Contract!apiVars)
BY DEF Contract!apiVars, ApiHandle, ApiData, Held, Lost

LEMMA ApiBegins ==
  ASSUME NEW q \in Requests, res # "RUNNING", vol' = vol, call'.q = q, res' = "RUNNING",
         ApiHandle' = ApiHandle, ApiData' = <<>>
  PROVE  [Contract!Next]_(Contract!apiVars)
<1>1. Contract!Begin(q)
  BY DEF Contract!Begin, Contract!Idle, ApiHandle, ApiData, Held, Lost
<1> QED
  BY <1>1 DEF Contract!Next

LEMMA ApiMounts ==
  ASSUME Serving("mount"), res' \in {"FR_OK"} \cup Failures, ApiHandle' = Lost, ApiData' = <<>>
  PROVE  [Contract!Next]_(Contract!apiVars)
<1>1. Contract!MountEnds
  BY DEF Contract!MountEnds, Contract!Running, Contract!NoHandle, Contract!Failures, Failures,
         Serving, ApiHandle, ApiData, Held, Lost
<1> QED
  BY <1>1 DEF Contract!Next

LEMMA ApiUnmounts ==
  ASSUME Serving("unmount"), res' = "FR_OK", ApiHandle' = Lost, ApiData' = <<>>
  PROVE  [Contract!Next]_(Contract!apiVars)
<1>1. Contract!UnmountEnds
  BY DEF Contract!UnmountEnds, Contract!Running, Contract!NoHandle, Serving, ApiHandle, ApiData,
         Held, Lost
<1> QED
  BY <1>1 DEF Contract!Next

LEMMA ApiOpens ==
  ASSUME Serving("open"), res' = "FR_OK", ApiData' = <<>>,
         Files[vol][call.q.path] # NoFile,
         ApiHandle' = [good |-> TRUE, file |-> Files[vol][call.q.path], pos |-> 0, err |-> "FR_OK"]
  PROVE  [Contract!Next]_(Contract!apiVars)
<1>1. Contract!OpenEnds
  BY DEF Contract!OpenEnds, Contract!Running, Serving, ApiHandle, ApiData, Held, Lost
<1> QED
  BY <1>1 DEF Contract!Next

LEMMA ApiOpenFails ==
  ASSUME Serving("open"), ApiData' = <<>>, ApiHandle' = Lost,
         res' \in Failures \/ (res' \in Absent /\ Files[vol][call.q.path] = NoFile)
  PROVE  [Contract!Next]_(Contract!apiVars)
<1>1. Contract!OpenEnds
  BY DEF Contract!OpenEnds, Contract!Running, Contract!NoHandle, Contract!Failures,
         Contract!Absent, Failures, Absent, Serving, ApiHandle, ApiData, Held, Lost
<1> QED
  BY <1>1 DEF Contract!Next

LEMMA ApiRefuses ==
  ASSUME Serving(call.q.op), call.q.op \in {"read", "seek", "close"},
         ApiData' = <<>>, ApiHandle' = ApiHandle,
         \/ ~ApiHandle.good /\ res' = "FR_INVALID_OBJECT"
         \/ /\ ApiHandle.good /\ ApiHandle.err # "FR_OK"
            /\ call.q.op # "close" /\ res' = ApiHandle.err
  PROVE  [Contract!Next]_(Contract!apiVars)
<1>1. Contract!Refused
  BY DEF Contract!Refused, ApiHandle, Held, Lost
<1>2. Contract!Running(call.q.op)
  BY DEF Contract!Running, Serving
<1>3. Contract!ReadEnds \/ Contract!SeekEnds \/ Contract!CloseEnds
  BY <1>1, <1>2
     DEF Contract!ReadEnds, Contract!SeekEnds, Contract!CloseEnds, ApiHandle, ApiData, Held, Lost
<1> QED
  BY <1>3 DEF Contract!Next

(* A read that ends with r has given the k next bytes of the file.         *)
LEMMA ApiReads ==
  ASSUME Serving("read"), ApiHandle.good, ApiHandle.err = "FR_OK",
         NEW k \in 0 .. Smaller(call.q.n, ApiHandle.file.size - ApiHandle.pos),
         ApiData' = SubSeq(ApiHandle.file.bytes, ApiHandle.pos + 1, ApiHandle.pos + k),
         Len(ApiData') = k,
         \/ /\ res' = "FR_OK" /\ k = Smaller(call.q.n, ApiHandle.file.size - ApiHandle.pos)
            /\ ApiHandle' = [ApiHandle EXCEPT !.pos = ApiHandle.pos + k]
         \/ /\ res' \in Failures /\ ApiHandle' = [ApiHandle EXCEPT !.err = res', !.pos = 0]
  PROVE  [Contract!Next]_(Contract!apiVars)
<1>1. Contract!Running("read")
  BY DEF Contract!Running, Serving
<1>2. Contract!ReadEnds
  BY <1>1, ApiHandleIs
     DEF Contract!ReadEnds, Contract!ShorterOf, Smaller, Contract!Spoilt, ApiHandle, ApiData, Held, Lost
<1> QED
  BY <1>2 DEF Contract!Next

LEMMA ApiSeeks ==
  ASSUME Serving("seek"), ApiHandle.good, ApiHandle.err = "FR_OK", ApiData' = <<>>,
         \/ /\ res' = "FR_OK"
            /\ \/ ApiHandle' = [ApiHandle EXCEPT !.pos = Smaller(call.q.n, ApiHandle.file.size)]
               \/ ApiHandle.file.bytes = <<>> /\ ApiHandle' = ApiHandle
         \/ /\ res' \in Failures /\ ApiHandle' = [ApiHandle EXCEPT !.err = res', !.pos = 0]
  PROVE  [Contract!Next]_(Contract!apiVars)
<1>1. Contract!Running("seek")
  BY DEF Contract!Running, Serving
<1>2. Contract!SeekEnds
  BY <1>1, ApiHandleIs
     DEF Contract!SeekEnds, Contract!ShorterOf, Smaller, Contract!Spoilt, ApiHandle, ApiData, Held, Lost
<1> QED
  BY <1>2 DEF Contract!Next

LEMMA ApiCloses ==
  ASSUME Serving("close"), ApiHandle.good, res' = "FR_OK", ApiData' = <<>>, ApiHandle' = Lost
  PROVE  [Contract!Next]_(Contract!apiVars)
<1>1. Contract!Running("close")
  BY DEF Contract!Running, Serving
<1>2. Contract!CloseEnds
  BY <1>1, ApiHandleIs DEF Contract!CloseEnds, ApiHandle, ApiData, Held, Lost
<1> QED
  BY <1>2 DEF Contract!Next

-----------------------------------------------------------------------------
(* What is under a path, and when a volume is not sound.                   *)
LEMMA FilesAre ==
  ASSUME NEW v \in Volumes, NEW p \in PathsAsked
  PROVE  LET e == Target(v, p)
         IN  Files[v][p] = IF IsFile(e) THEN FileOf(v, e.clust, e.size) ELSE NoFile
BY DEF Files

LEMMA UnsoundPath ==
  ASSUME NEW v \in Volumes, NEW p \in PathsAsked, Target(v, p).name = "broken"
  PROVE  v \notin Sound
BY DEF Sound

LEMMA UnsoundFile ==
  ASSUME TypeInv, CauseInv, fp.open,
         NEW i \in Nat, i < fp.size, Link(vol, fp.sclust, i \div ClusterBytes(vol)) = 0
  PROVE  vol \notin Sound
<1>1. vol \in Volumes /\ fp.size \in Nat
  BY FilFields DEF TypeInv
<1>2. PICK p \in PathsAsked :
        IsFile(Target(vol, p)) /\ fp.sclust = Target(vol, p).clust /\ fp.size = Target(vol, p).size
  BY DEF CauseInv
<1>3. Files[vol][p] = FileOf(vol, fp.sclust, fp.size)
  BY <1>1, <1>2, FilesAre
<1>4. FileByte(vol, fp.sclust, i) = <<0, 0>>
  BY <1>1, NoByte
<1>5. Len(FileBytes(vol, fp.sclust, fp.size)) # fp.size
  BY <1>1, <1>4, ShortChain
<1>6. Files[vol][p] # NoFile /\ Len(Files[vol][p].bytes) # Files[vol][p].size
  BY <1>1, <1>3, <1>5 DEF FileOf, NoFile
<1> QED
  BY <1>6 DEF Sound

-----------------------------------------------------------------------------
(* What a step leaves of the invariant.                                    *)
LEMMA KeptAtEnd ==
  ASSUME CallInv, ClusterInv, pc' = "idle", vol' = vol, fp'.id <= fs'.id,
         \/ fp' = fp /\ pc \notin {"sector", "follow"}
         \/ ~fp'.open \/ fp'.err # "FR_OK"
  PROVE  CallInv' /\ ClusterInv' /\ ReadInv' /\ SeekInv' /\ FindInv'
<1>1. CallInv' /\ ReadInv' /\ SeekInv' /\ FindInv'
  BY DEF CallInv, ReadInv, SeekInv, FindInv
<1>2. ClusterInv'
  BY DEF ClusterInv, Known
<1> QED
  BY <1>1, <1>2

LEMMA KeptCause ==
  ASSUME CauseInv, vol' = vol,
         fp'.open => fp.open /\ fp'.sclust = fp.sclust /\ fp'.size = fp.size,
         fp'.open /\ fp'.err = "FR_INT_ERR" => vol \notin Sound,
         ErrorsHaveCause'
  PROVE  CauseInv'
BY DEF CauseInv

LEMMA ErrorsCaused ==
  ASSUME vol' = vol,
         res' = "FR_INT_ERR" => vol \notin Sound,
         res' = "FR_DISK_ERR" =>
           failed' \/ call'.err = "FR_DISK_ERR" \/ (fp'.open /\ fp'.sclust = DISK_ERR)
  PROVE  ErrorsHaveCause'
BY DEF ErrorsHaveCause

Invs == IInv /\ CursorsInv /\ KeepInv

LEMMA ValidIsGood ==
  ASSUME Invs
  PROVE  Valid <=> Good
BY DEF Invs, CursorsInv, MountInv, Valid, Good

(* The program calls.                                                      *)
LEMMA CallKeeps ==
  ASSUME Invs, NEW q \in Requests, Call(q)
  PROVE  KeepInv' /\ [Contract!Next]_(Contract!apiVars)
<1>1. /\ pc = "idle" /\ res # "RUNNING" /\ vol' = vol /\ fs' = fs /\ fp' = fp /\ got' = <<>>
      /\ pc' = q.op /\ res' = "RUNNING"
      /\ call' = [q |-> q, n |-> q.n, fptr |-> fp.fptr, err |-> fp.err]
  BY DEF Call, Invs, CursorsInv, TypeInv
<1>2. q.op \in {"mount", "unmount", "open", "read", "seek", "close"}
  BY RequestsAssumption
<1>3. CallInv'
  BY <1>1, <1>2 DEF Invs, KeepInv, CallInv, ServedBy
<1>4. ClusterInv'
  BY <1>1, <1>2 DEF Invs, KeepInv, ClusterInv, Known
<1>5. ReadInv' /\ SeekInv' /\ FindInv'
  BY <1>1, <1>2 DEF ReadInv, SeekInv, FindInv
<1>6. ErrorsHaveCause'
  BY <1>1 DEF ErrorsHaveCause
<1>7. CauseInv'
  BY <1>1, <1>6 DEF Invs, KeepInv, CauseInv
<1>8. ApiHandle' = ApiHandle /\ ApiData' = <<>>
  BY <1>1, <1>2 DEF ApiHandle, ApiData, Good, Held, Lost
<1>9. [Contract!Next]_(Contract!apiVars)
  BY <1>1, <1>8, ApiBegins
<1> QED
  BY <1>3, <1>4, <1>5, <1>7, <1>9 DEF KeepInv

(* mount_volume: the file is good after it if it was good and nothing was  *)
(* mounted, and then it is the same volume.                                *)
LEMMA MountOutcome ==
  ASSUME fs \in FatfsType, fp \in FilType, fp.id <= fs.id,
         NEW f \in FatfsType, f.id = fs.id, NEW r \in MountResults, MountVolume(f, r)
  PROVE  /\ fp.id <= fs'.id /\ fs' \in [registered : BOOLEAN, mounted : BOOLEAN, id : Nat,
                                        up : BOOLEAN, ready : BOOLEAN]
         /\ r = "FR_OK" => fs'.mounted
         /\ r # "FR_OK" => r \in Failures /\ r # "FR_INT_ERR"
         /\ fs' = f \/ ~fs'.mounted \/ fp.id # fs'.id
         /\ r = "FR_DISK_ERR" => failed'
<1>1. f.id \in Nat /\ fp.id \in Nat /\ fp.id <= f.id
  BY DEF FatfsType, FilType
<1>2. CASE ~f.registered /\ r = "FR_NOT_ENABLED" /\ fs' = f
  BY <1>1, <1>2 DEF FatfsType, Failures
<1>3. CASE f.registered /\ f.mounted /\ f.up /\ r = "FR_OK" /\ fs' = f
  BY <1>1, <1>3 DEF FatfsType
<1>4. CASE r = "FR_NOT_READY" /\ fs' = [f EXCEPT !.mounted = FALSE, !.ready = FALSE]
  BY <1>1, <1>4 DEF FatfsType, Failures
<1>5. CASE /\ r \in {"FR_DISK_ERR", "FR_NO_FILESYSTEM"} /\ (r = "FR_DISK_ERR" => failed')
           /\ fs' = [f EXCEPT !.mounted = FALSE, !.up = TRUE, !.ready = TRUE]
  BY <1>1, <1>5 DEF FatfsType, Failures
<1>6. CASE /\ r = "FR_OK"
           /\ fs' = [[f EXCEPT !.mounted = FALSE, !.up = TRUE, !.ready = TRUE]
                       EXCEPT !.mounted = TRUE, !.id = f.id + 1]
  <2>1. fs' = [f EXCEPT !.mounted = TRUE, !.up = TRUE, !.ready = TRUE, !.id = f.id + 1]
    BY <1>6 DEF FatfsType
  <2>2. fs'.mounted /\ fs'.id = f.id + 1 /\ f.id + 1 \in Nat
    BY <1>1, <2>1 DEF FatfsType
  <2>3. fs' \in [registered : BOOLEAN, mounted : BOOLEAN, id : Nat, up : BOOLEAN, ready : BOOLEAN]
    BY <2>1, <2>2 DEF FatfsType
  <2> QED
    BY <1>1, <1>6, <2>2, <2>3
<1>7. r = "FR_DISK_ERR" /\ Fault("read") => failed'
  BY DEF Fault
<1> QED
  BY <1>2, <1>3, <1>4, <1>5, <1>6, <1>7 DEF MountVolume, Mount, FatfsType

LEMMA MountKeeps ==
  ASSUME Invs, FMount
  PROVE  KeepInv' /\ [Contract!Next]_(Contract!apiVars)
<1> DEFINE f == [fs EXCEPT !.registered = TRUE, !.mounted = FALSE]
<1>1. PICK r \in MountResults : MountVolume(f, r) /\ Return(r)
  BY DEF FMount
<1>2. /\ pc = "mount" /\ pc' = "idle" /\ res' = r /\ vol' = vol /\ fp' = fp /\ call' = call
      /\ got' = got /\ fs \in FatfsType /\ fp \in FilType /\ res = "RUNNING"
  BY <1>1 DEF FMount, Return, Invs, CursorsInv, TypeInv
<1>3. f \in FatfsType /\ f.id = fs.id /\ ~f.mounted
  BY <1>2 DEF FatfsType
<1> HIDE DEF f
<1>4. call.q.op = "mount" /\ got = <<>> /\ fp.id <= fs.id
  BY <1>2 DEF Invs, KeepInv, CallInv, ServedBy
<1>5. /\ fp.id <= fs'.id /\ (r # "FR_OK" => r \in Failures /\ r # "FR_INT_ERR")
      /\ (fs' = f \/ ~fs'.mounted \/ fp.id # fs'.id) /\ (r = "FR_DISK_ERR" => failed')
  BY <1>1, <1>2, <1>3, <1>4, MountOutcome
<1>6. CallInv' /\ ClusterInv' /\ ReadInv' /\ SeekInv' /\ FindInv'
  BY <1>2, <1>5, KeptAtEnd DEF Invs, KeepInv
<1>7. ErrorsHaveCause'
  BY <1>2, <1>5, ErrorsCaused
<1>8. CauseInv'
  BY <1>2, <1>7, KeptCause DEF Invs, KeepInv, CauseInv
<1>9. ApiHandle' = Lost /\ ApiData' = <<>>
  BY <1>2, <1>3, <1>4, <1>5 DEF ApiHandle, ApiData, Good, Lost
<1>10. [Contract!Next]_(Contract!apiVars)
  BY <1>2, <1>4, <1>5, <1>9, ApiMounts DEF Serving
<1> QED
  BY <1>6, <1>8, <1>10 DEF KeepInv

LEMMA UnmountKeeps ==
  ASSUME Invs, FUnmount
  PROVE  KeepInv' /\ [Contract!Next]_(Contract!apiVars)
<1>1. /\ pc = "unmount" /\ pc' = "idle" /\ res' = "FR_OK" /\ vol' = vol /\ fp' = fp /\ call' = call
      /\ got' = got /\ res = "RUNNING" /\ fs \in FatfsType
      /\ fs' = [fs EXCEPT !.registered = FALSE, !.mounted = FALSE]
  BY DEF FUnmount, Return, Invs, CursorsInv, TypeInv
<1>2. ~fs'.mounted /\ fs'.id = fs.id
  BY <1>1 DEF FatfsType
<1>3. call.q.op = "unmount" /\ got = <<>> /\ fp.id <= fs.id
  BY <1>1 DEF Invs, KeepInv, CallInv, ServedBy
<1>4. CallInv' /\ ClusterInv' /\ ReadInv' /\ SeekInv' /\ FindInv'
  BY <1>1, <1>2, <1>3, KeptAtEnd DEF Invs, KeepInv
<1>5. CauseInv'
  BY <1>1, ErrorsCaused, KeptCause DEF Invs, KeepInv, CauseInv
<1>6. ApiHandle' = Lost /\ ApiData' = <<>>
  BY <1>1, <1>2, <1>3 DEF ApiHandle, ApiData, Good, Lost
<1>7. [Contract!Next]_(Contract!apiVars)
  BY <1>1, <1>3, <1>6, ApiUnmounts DEF Serving
<1> QED
  BY <1>4, <1>5, <1>7 DEF KeepInv

LEMMA CloseKeeps ==
  ASSUME Invs, FClose
  PROVE  KeepInv' /\ [Contract!Next]_(Contract!apiVars)
<1>1. /\ pc = "close" /\ pc' = "idle" /\ vol' = vol /\ fs' = fs /\ call' = call
      /\ got' = got /\ res = "RUNNING" /\ fp \in FilType
      /\ \/ Good /\ res' = "FR_OK" /\ fp' = [fp EXCEPT !.open = FALSE]
         \/ ~Good /\ res' = "FR_INVALID_OBJECT" /\ fp' = fp
  BY ValidIsGood DEF FClose, Return, Invs, CursorsInv, TypeInv
<1>2. /\ call.q.op = "close" /\ got = <<>> /\ fp.id <= fs.id
      /\ call.fptr = fp.fptr /\ call.err = fp.err
  BY <1>1 DEF Invs, KeepInv, CallInv, ServedBy
<1>3. fp'.id = fp.id /\ (fp' = fp \/ ~fp'.open)
  BY <1>1 DEF FilType
<1>4. CallInv' /\ ClusterInv' /\ ReadInv' /\ SeekInv' /\ FindInv'
  BY <1>1, <1>2, <1>3, KeptAtEnd DEF Invs, KeepInv
<1>5. ErrorsHaveCause'
  BY <1>1, ErrorsCaused
<1>6. CauseInv'
  BY <1>1, <1>3, <1>5, KeptCause DEF Invs, KeepInv, CauseInv
<1>7. ApiData' = <<>>
  BY <1>1, <1>2 DEF ApiData
<1>8. ASSUME Good, res' = "FR_OK", ~fp'.open PROVE [Contract!Next]_(Contract!apiVars)
  <2>1. ApiHandle' = Lost /\ ApiHandle.good
    BY <1>1, <1>8 DEF ApiHandle, Good, Held
  <2> QED
    BY <1>1, <1>2, <1>7, <1>8, <2>1, ApiCloses DEF Serving
<1>9. ASSUME ~Good, res' = "FR_INVALID_OBJECT", fp' = fp PROVE [Contract!Next]_(Contract!apiVars)
  <2>1. ApiHandle' = ApiHandle /\ ~ApiHandle.good
    BY <1>1, <1>9 DEF ApiHandle, Good, Lost
  <2> QED
    BY <1>1, <1>2, <1>7, <1>9, <2>1, ApiRefuses DEF Serving
<1> QED
  BY <1>1, <1>3, <1>4, <1>6, <1>8, <1>9 DEF KeepInv, FilType

-----------------------------------------------------------------------------
(* f_open: the search along the path finds what the path leads to.         *)
LEMMA PathAsked ==
  ASSUME CursorsInv
  PROVE  /\ call.q.path \in PathsAsked /\ call.q.path \in Seq(STRING) /\ Len(call.q.path) \in Nat
         /\ vol \in Volumes
BY RequestsAssumption DEF CursorsInv, TypeInv, CallType, PathsAsked

LEMMA RouteGoesOn ==
  ASSUME NEW v, NEW path, Len(path) \in Nat, NEW j \in Nat, j < Len(path),
         Route(v, path)[j].name \notin {"end", "broken"}, Route(v, path)[j].attr = "dir"
  PROVE  Route(v, path)[j + 1] = Lookup(v, Route(v, path)[j].clust, path[j + 1])
<1>1. j + 1 \in 1 .. Len(path) /\ (j + 1) - 1 = j
  OBVIOUS
<1> QED
  BY <1>1, RouteIs

LEMMA NothingThere ==
  ASSUME NEW v \in Volumes, NEW path \in PathsAsked, Len(path) \in Nat,
         NEW m \in 0 .. Len(path), Route(v, path)[m].name \in {"end", "broken"}
  PROVE  Files[v][path] = NoFile /\ (Route(v, path)[m].name = "broken" => v \notin Sound)
<1>1. Target(v, path) = Route(v, path)[m]
  BY RouteEnds
<1> QED
  BY <1>1, FilesAre, UnsoundPath DEF IsFile

LEMMA OpenEnded ==
  ASSUME Invs, NEW r, OpenFails(r), pc \in {"open", "dir_find", "dir_next"},
         vol' = vol, call' = call, got' = got, fp.id <= fs'.id,
         r \in Failures \/ (r \in Absent /\ Files[vol][call.q.path] = NoFile),
         r = "FR_INT_ERR" => vol \notin Sound, r = "FR_DISK_ERR" => failed'
  PROVE  KeepInv' /\ [Contract!Next]_(Contract!apiVars)
<1>1. /\ pc' = "idle" /\ res' = r /\ fp' = [fp EXCEPT !.open = FALSE] /\ fp \in FilType
      /\ res = "RUNNING"
  BY DEF OpenFails, Return, Invs, CursorsInv, TypeInv
<1>2. ~fp'.open /\ fp'.id = fp.id
  BY <1>1 DEF FilType
<1>3. call.q.op = "open" /\ got = <<>>
  BY DEF Invs, KeepInv, CallInv, ServedBy
<1>4. CallInv' /\ ClusterInv' /\ ReadInv' /\ SeekInv' /\ FindInv'
  BY <1>1, <1>2, KeptAtEnd DEF Invs, KeepInv
<1>5. ErrorsHaveCause'
  BY <1>1, ErrorsCaused
<1>6. CauseInv'
  BY <1>2, <1>5, KeptCause DEF Invs, KeepInv
<1>7. ApiHandle' = Lost /\ ApiData' = <<>>
  BY <1>1, <1>2, <1>3 DEF ApiHandle, ApiData, Good
<1>8. [Contract!Next]_(Contract!apiVars)
  BY <1>1, <1>3, <1>7, ApiOpenFails DEF Serving
<1> QED
  BY <1>4, <1>6, <1>8 DEF KeepInv

(* The search goes on, and nothing the program sees changes.               *)
LEMMA SearchGoesOn ==
  ASSUME Invs, pc \in {"open", "dir_find", "dir_next"}, pc' \in {"dir_find", "dir_next"},
         vol' = vol, call' = call, got' = got, fp' = fp, res' = res,
         fs'.mounted, fp.id <= fs'.id, Good' = Good, FindInv'
  PROVE  KeepInv' /\ [Contract!Next]_(Contract!apiVars)
<1>1. call.q.op = "open" /\ got = <<>> /\ res = "RUNNING"
  BY DEF Invs, CursorsInv, TypeInv, KeepInv, CallInv, ServedBy
<1>2. CallInv'
  BY <1>1 DEF CallInv, ServedBy
<1>3. ClusterInv' /\ ReadInv' /\ SeekInv'
  BY DEF Invs, KeepInv, ClusterInv, ReadInv, SeekInv, Known
<1>4. ErrorsHaveCause'
  BY <1>1, ErrorsCaused
<1>5. CauseInv'
  BY <1>4, KeptCause DEF Invs, KeepInv, CauseInv
<1>6. ApiHandle' = ApiHandle /\ ApiData' = ApiData
  BY DEF ApiHandle, ApiData, Held, Lost
<1>7. [Contract!Next]_(Contract!apiVars)
  BY <1>6, ApiStutters
<1> QED
  BY <1>2, <1>3, <1>5, <1>7 DEF KeepInv

(* A directory on the path is searched from its first entry.               *)
LEMMA SearchStarts ==
  ASSUME Invs, pc \in {"open", "dir_find"},
         vol' = vol, call' = call, got' = got, fs'.mounted, fp.id <= fs'.id,
         fp' = fp => Good' = Good,
         NEW j \in Nat, j < Len(call.q.path), NEW rest, rest \in Seq(STRING),
         IsRest(call.q.path, j, rest),
         NEW dir, dir = Route(vol, call.q.path)[j],
         dir.name \notin {"end", "broken"}, dir.attr = "dir",
         Search(dir.clust, rest)
  PROVE  KeepInv' /\ [Contract!Next]_(Contract!apiVars)
<1> DEFINE path == call.q.path
<1>1. path \in PathsAsked /\ Len(path) \in Nat /\ vol \in Volumes
  BY PathAsked DEF Invs
<1>2. PICK d : d = DirSdi(vol, dir.clust)
  OBVIOUS
<1>3. CASE d.sect = 0
  <2>1. OpenFails("FR_INT_ERR")
    BY <1>2, <1>3 DEF Search
  <2>2. EntryNo(vol, dir.clust, 0).name = "broken"
    BY <1>2, <1>3, NoDirectory
  <2>3. 0 * SZDIRE < MAX_DIR
    BY FatAssumption
  <2>4. Lookup(vol, dir.clust, path[j + 1]) = EntryNo(vol, dir.clust, 0)
    <3>1. StopsAt(EntryNo(vol, dir.clust, 0), path[j + 1])
      BY <2>2 DEF StopsAt
    <3>2. NotBefore(vol, dir.clust, path[j + 1], 0)
      BY DEF NotBefore
    <3> QED
      BY <2>3, <3>1, <3>2, LookupStops
  <2>5. Route(vol, path)[j + 1] = Lookup(vol, dir.clust, path[j + 1])
    BY <1>1, RouteGoesOn
  <2>6. vol \notin Sound
    <3>1. j + 1 \in 0 .. Len(path)
      BY <1>1
    <3> HIDE DEF path
    <3> QED
      BY <1>1, <2>2, <2>4, <2>5, <3>1, NothingThere
  <2> QED
    BY <2>1, <2>6, OpenEnded DEF Failures
<1>4. CASE d.sect # 0
  <2>1. /\ pc' = "dir_find" /\ res' = res /\ fp' = fp
        /\ dp' = [clust |-> d.clust, sect |-> d.sect, dptr |-> 0, path |-> rest]
    BY <1>2, <1>4 DEF Search, Continue
  <2>2. AtEntry(vol, dir.clust, 0, dp')
    <3>1. dp'.clust = d.clust /\ dp'.sect = d.sect /\ dp'.dptr = 0
      BY <2>1
    <3> QED
      BY <1>1, <1>2, <1>4, <3>1, FirstEntry
  <2>3. NotBefore(vol, dir.clust, Head(rest), 0)
    BY DEF NotBefore
  <2>4. FindInv'
    <3>1. /\ dp'.path = rest /\ j \in 0 .. Len(path) /\ 0 \in Nat
      BY <1>1, <2>1
    <3>2. \E i \in 0 .. Len(path), k \in Nat :
            LET p == Route(vol, path)[i]
            IN  /\ dp'.path \in Seq(STRING) /\ IsRest(path, i, dp'.path)
                /\ p.name \notin {"end", "broken"} /\ p.attr = "dir"
                /\ AtEntry(vol, p.clust, k, dp')
                /\ NotBefore(vol, p.clust, Head(dp'.path), k)
      BY <2>2, <2>3, <3>1
    <3> QED
      BY <2>1, <3>2 DEF FindInv
  <2> QED
    BY <2>1, <2>4, SearchGoesOn
<1> QED
  BY <1>3, <1>4

LEMMA OpenKeeps ==
  ASSUME Invs, FOpen
  PROVE  KeepInv' /\ [Contract!Next]_(Contract!apiVars)
<1> DEFINE path == call.q.path
<1>1. PICK r \in MountResults :
        /\ MountVolume(fs, r)
        /\ IF r # "FR_OK" THEN OpenFails(r)
           ELSE IF path = <<>> THEN OpensRoot
           ELSE Search(0, path)
  BY DEF FOpen
<1>2. /\ pc = "open" /\ vol' = vol /\ call' = call /\ got' = got
      /\ fs \in FatfsType /\ fp \in FilType /\ fp.id <= fs.id /\ (fs.mounted => fs.up)
  BY DEF FOpen, Invs, CursorsInv, TypeInv, MountInv, KeepInv, CallInv
<1>3. /\ fp.id <= fs'.id /\ (r = "FR_OK" => fs'.mounted)
      /\ (r # "FR_OK" => r \in Failures /\ r # "FR_INT_ERR")
      /\ fs' = fs \/ ~fs'.mounted \/ fp.id # fs'.id
      /\ r = "FR_DISK_ERR" => failed'
  BY <1>1, <1>2, MountOutcome
<1>4. path \in PathsAsked /\ path \in Seq(STRING) /\ Len(path) \in Nat /\ vol \in Volumes
  BY PathAsked DEF Invs
<1>5. Route(vol, path)[0] = [EndEntry EXCEPT !.name = "root", !.attr = "dir"]
  BY <1>4, RouteIs
<1>6. CASE r # "FR_OK"
  BY <1>1, <1>2, <1>3, <1>6, OpenEnded
<1>7. CASE r = "FR_OK" /\ path = <<>>
  <2>1. Target(vol, path) = Route(vol, path)[0]
    BY <1>7 DEF Target
  <2>2. Target(vol, path).attr = "dir"
    BY <1>5, <2>1 DEF EndEntry
  <2>3. Files[vol][path] = NoFile
    BY <1>4, <2>2, FilesAre DEF IsFile
  <2>4. CASE DirSdi(vol, 0).sect = 0
    <3>1. OpenFails("FR_INT_ERR") /\ vol \notin Sound
      BY <1>1, <1>7, <2>4 DEF OpensRoot, Sound
    <3> QED
      BY <1>2, <1>3, <3>1, OpenEnded DEF Failures
  <2>5. CASE DirSdi(vol, 0).sect # 0
    <3>1. OpenFails("FR_INVALID_NAME")
      BY <1>1, <1>7, <2>5 DEF OpensRoot
    <3> QED
      BY <1>2, <1>3, <2>3, <3>1, OpenEnded DEF Absent
  <2> QED
    BY <2>4, <2>5
<1>8. CASE r = "FR_OK" /\ path # <<>>
  <2>1. 0 < Len(path)
    BY <1>4, <1>8
  <2>2. IsRest(path, 0, path)
    BY <1>4, <1>8 DEF IsRest
  <2>3. PICK dir : dir = Route(vol, path)[0]
    OBVIOUS
  <2>4. dir.name = "root" /\ dir.attr = "dir" /\ dir.clust = 0
    BY <1>5, <2>3 DEF EndEntry
  <2>5. Search(dir.clust, path)
    BY <1>1, <1>8, <2>4
  <2>6. fp' = fp => Good' = Good
    <3>1. fs.mounted => fs' = fs
      BY <1>1, <1>2 DEF MountVolume, Mount
    <3> QED
      BY <1>3, <3>1 DEF Good
  <2> HIDE DEF path
  <2>7. /\ dir.name \notin {"end", "broken"} /\ fs'.mounted /\ pc \in {"open", "dir_find"}
        /\ 0 \in Nat
    BY <1>2, <1>3, <1>8, <2>4
  <2> QED
    BY <1>2, <1>3, <1>4, <2>1, <2>2, <2>3, <2>4, <2>5, <2>6, <2>7, SearchStarts DEF path
<1> QED
  BY <1>6, <1>7, <1>8

(* Where the search is.                                                    *)
AtStep(j, k, dir) ==
  /\ dir = Route(vol, call.q.path)[j] /\ dir.name \notin {"end", "broken"} /\ dir.attr = "dir"
  /\ j < Len(call.q.path) /\ dp.path \in Seq(STRING) /\ IsRest(call.q.path, j, dp.path)
  /\ Head(dp.path) = call.q.path[j + 1]
  /\ AtEntry(vol, dir.clust, k, dp)
  /\ NotBefore(vol, dir.clust, Head(dp.path), IF pc = "dir_find" THEN k ELSE k + 1)
  /\ Route(vol, call.q.path)[j + 1] = Lookup(vol, dir.clust, Head(dp.path))

LEMMA SearchIsAt ==
  ASSUME Invs, pc \in {"dir_find", "dir_next"}
  PROVE  \E j \in Nat, k \in Nat : \E dir : AtStep(j, k, dir)
<1> DEFINE path == call.q.path
<1>1. Len(path) \in Nat /\ vol \in Volumes
  BY PathAsked DEF Invs
<1>2. PICK j \in 0 .. Len(path), k \in Nat :
        LET p == Route(vol, path)[j]
        IN  /\ dp.path \in Seq(STRING) /\ IsRest(path, j, dp.path)
            /\ p.name \notin {"end", "broken"} /\ p.attr = "dir"
            /\ AtEntry(vol, p.clust, k, dp)
            /\ NotBefore(vol, p.clust, Head(dp.path), IF pc = "dir_find" THEN k ELSE k + 1)
  BY DEF Invs, KeepInv, FindInv
<1>3. PICK dir : dir = Route(vol, path)[j]
  OBVIOUS
<1>4. j \in Nat /\ Len(dp.path) \in Nat /\ Len(dp.path) > 0 /\ j + Len(dp.path) = Len(path)
  BY <1>1, <1>2 DEF IsRest
<1>5. Head(dp.path) = path[j + 1]
  <2>1. Head(dp.path) = dp.path[1] /\ 1 \in 1 .. Len(dp.path)
    BY <1>2, <1>4
  <2> QED
    BY <1>2, <2>1 DEF IsRest
<1>6. Route(vol, path)[j + 1] = Lookup(vol, dir.clust, path[j + 1])
  <2>1. j < Len(path)
    BY <1>1, <1>4
  <2> HIDE DEF path
  <2> QED
    BY <1>1, <1>2, <1>3, <1>4, <2>1, RouteGoesOn
<1>7. AtStep(j, k, dir)
  BY <1>1, <1>2, <1>3, <1>4, <1>5, <1>6 DEF AtStep
<1> QED
  BY <1>4, <1>7

(* The rest of a path after its next segment.                              *)
LEMMA RestGoesOn ==
  ASSUME NEW path, Len(path) \in Nat, NEW j \in Nat, NEW rest \in Seq(STRING),
         IsRest(path, j, rest), Len(rest) # 1
  PROVE  /\ j + 1 \in Nat /\ j + 1 < Len(path) /\ Tail(rest) \in Seq(STRING)
         /\ IsRest(path, j + 1, Tail(rest))
<1>0. Len(rest) \in Nat /\ Len(rest) > 0 /\ j + Len(rest) = Len(path) /\ Len(<< >>) = 0
  BY DEF IsRest
<1>1a. PICK n \in Nat : n = Len(rest)
  BY <1>0
<1>1b. n # 1 /\ n > 0 /\ j + n = Len(path)
  BY <1>0, <1>1a, Zenon
<1>1. n = Len(rest) /\ n > 1 /\ j + n = Len(path)
  BY <1>1a, <1>1b
<1>2. Tail(rest) \in Seq(STRING) /\ Len(Tail(rest)) = n - 1
  BY <1>1
<1>3. \A i \in 1 .. n - 1 : Tail(rest)[i] = rest[i + 1]
  BY <1>1
<1>4. ASSUME NEW i \in 1 .. n - 1
      PROVE  Tail(rest)[i] = path[(j + 1) + i]
  <2>1. i + 1 \in 1 .. n /\ j + (i + 1) = (j + 1) + i
    BY <1>1
  <2>2. rest[i + 1] = path[j + (i + 1)]
    BY <1>1, <2>1 DEF IsRest
  <2> QED
    BY <1>3, <2>1, <2>2
<1>5. Tail(rest) # <<>>
  <2> SUFFICES ASSUME Tail(rest) = <<>> PROVE FALSE
    OBVIOUS
  <2>1. n - 1 = 0
    BY <1>0, <1>2
  <2> QED
    BY <1>1, <2>1
<1>6. j + 1 \in Nat /\ j + 1 < Len(path) /\ (j + 1) + (n - 1) = Len(path)
  BY <1>1
<1>7. IsRest(path, j + 1, Tail(rest))
  BY <1>2, <1>4, <1>5, <1>6 DEF IsRest
<1> QED
  BY <1>2, <1>6, <1>7

(* The search of a directory comes to an end without the name, or to a     *)
(* place where the directory is broken.                                    *)
LEMMA SearchEnds ==
  ASSUME Invs, NEW j \in Nat, NEW k \in Nat, NEW dir, AtStep(j, k, dir),
         Lookup(vol, dir.clust, Head(dp.path)).name \in {"end", "broken"}
  PROVE  /\ Files[vol][call.q.path] = NoFile
         /\ Lookup(vol, dir.clust, Head(dp.path)).name = "broken" => vol \notin Sound
<1> DEFINE path == call.q.path
<1>1. path \in PathsAsked /\ Len(path) \in Nat /\ vol \in Volumes
  BY PathAsked DEF Invs
<1>2. Route(vol, path)[j + 1] = Lookup(vol, dir.clust, Head(dp.path)) /\ j + 1 \in 0 .. Len(path)
  BY <1>1 DEF AtStep
<1> HIDE DEF path
<1> QED
  BY <1>1, <1>2, NothingThere DEF path

LEMMA NotFoundKeeps ==
  ASSUME Invs, pc \in {"dir_find", "dir_next"}, NotFound,
         vol' = vol, call' = call, got' = got, fp.id <= fs'.id,
         NEW j \in Nat, NEW k \in Nat, NEW dir, AtStep(j, k, dir),
         Lookup(vol, dir.clust, Head(dp.path)).name = "end"
  PROVE  KeepInv' /\ [Contract!Next]_(Contract!apiVars)
<1>1. Files[vol][call.q.path] = NoFile
  BY SearchEnds
<1>2. PICK r \in {"FR_NO_FILE", "FR_NO_PATH"} : OpenFails(r)
  BY DEF NotFound
<1> QED
  BY <1>1, <1>2, OpenEnded DEF Absent

LEMMA FoundKeeps ==
  ASSUME Invs, pc = "dir_find", vol' = vol, fs' = fs, call' = call, got' = got,
         NEW j \in Nat, NEW k \in Nat, NEW dir, AtStep(j, k, dir),
         NEW e, e = EntryNo(vol, dir.clust, k), e.name \notin {"end", "broken"},
         e.clust \in Nat, e.size \in Nat,
         Matches(e), Found(e)
  PROVE  KeepInv' /\ [Contract!Next]_(Contract!apiVars)
<1> DEFINE path == call.q.path
<1>1. path \in PathsAsked /\ Len(path) \in Nat /\ vol \in Volumes
  BY PathAsked DEF Invs
<1>2. /\ fp.id <= fs.id /\ fs.mounted /\ call.q.op = "open" /\ got = <<>>
      /\ fs \in FatfsType /\ fp \in FilType /\ res = "RUNNING"
  BY DEF Invs, CursorsInv, TypeInv, KeepInv, CallInv, ServedBy
<1>3. Lookup(vol, dir.clust, Head(dp.path)) = e
  <2>1. StopsAt(e, Head(dp.path))
    BY DEF Matches, StopsAt
  <2>2. k * SZDIRE < MAX_DIR /\ NotBefore(vol, dir.clust, Head(dp.path), k)
    BY DEF AtStep, AtEntry
  <2> QED
    BY <2>1, <2>2, LookupStops
<1>4. /\ Route(vol, path)[j + 1] = e /\ j + 1 \in 0 .. Len(path) /\ dp.path \in Seq(STRING)
      /\ j + Len(dp.path) = Len(path) /\ Len(dp.path) \in Nat /\ Len(dp.path) > 0
  BY <1>1, <1>3 DEF AtStep, IsRest
<1>5. CASE Len(dp.path) = 1
  <2>1. Target(vol, path) = e
    BY <1>1, <1>4, <1>5 DEF Target
  <2>2. CASE e.attr = "dir"
    <3>1. Files[vol][path] = NoFile
      BY <1>1, <2>1, <2>2, FilesAre DEF IsFile
    <3>2. OpenFails("FR_NO_FILE")
      BY <1>5, <2>2 DEF Found
    <3> QED
      BY <1>2, <3>1, <3>2, OpenEnded DEF Absent
  <2>3. CASE e.attr # "dir"
    <3>1. Files[vol][path] = FileOf(vol, e.clust, e.size) /\ IsFile(e)
      BY <1>1, <2>1, <2>3, FilesAre DEF IsFile
    <3>2. /\ pc' = "idle" /\ res' = "FR_OK"
          /\ fp' = [open |-> TRUE, id |-> fs.id, sclust |-> e.clust, size |-> e.size,
                    err |-> "FR_OK", fptr |-> 0, clust |-> fp.clust, sect |-> 0, buf |-> fp.buf]
      BY <1>5, <2>3 DEF Found, Opened, Return
    <3>3. /\ fp'.open /\ fp'.id = fs.id /\ fp'.sclust = e.clust /\ fp'.size = e.size
          /\ fp'.err = "FR_OK" /\ fp'.fptr = 0
      BY <3>2
    <3>4. 0 % SS = 0
      BY FatAssumption
    <3>5. CallInv' /\ ReadInv' /\ SeekInv' /\ FindInv'
      <4>1. fp'.id <= fs'.id
        BY <1>2, <3>3 DEF FatfsType
      <4> QED
        BY <3>2, <4>1 DEF CallInv, ReadInv, SeekInv, FindInv
    <3>6. ClusterInv'
      BY <3>2, <3>3, <3>4 DEF ClusterInv
    <3>7. CauseInv'
      <4>1. ErrorsHaveCause'
        BY <3>2, ErrorsCaused
      <4>2. IsFile(Target(vol, path)) /\ fp'.sclust = Target(vol, path).clust
            /\ fp'.size = Target(vol, path).size
        BY <2>1, <3>1, <3>3
      <4> QED
        BY <1>1, <3>3, <4>1, <4>2 DEF CauseInv
    <3>8. Files[vol][path] # NoFile
      BY <3>1 DEF FileOf, NoFile
    <3>9. ApiHandle' = [good |-> TRUE, file |-> Files[vol][path], pos |-> 0, err |-> "FR_OK"]
      <4>1. Good'
        BY <1>2, <3>3 DEF Good
      <4>2. Held(fp.err, fp.fptr)' = [good |-> TRUE, file |-> Files[vol][path], pos |-> 0,
                                      err |-> "FR_OK"]
        BY <3>1, <3>3 DEF Held
      <4> QED
        BY <3>2, <4>1, <4>2 DEF ApiHandle
    <3>10. ApiData' = <<>>
      BY <1>2, <3>2 DEF ApiData
    <3>11. [Contract!Next]_(Contract!apiVars)
      BY <1>2, <3>2, <3>8, <3>9, <3>10, ApiOpens DEF Serving
    <3> QED
      BY <3>5, <3>6, <3>7, <3>11 DEF KeepInv
  <2> QED
    BY <2>2, <2>3
<1>6. CASE Len(dp.path) # 1
  <2>1. /\ j + 1 \in Nat /\ j + 1 < Len(path) /\ Tail(dp.path) \in Seq(STRING)
        /\ IsRest(path, j + 1, Tail(dp.path))
    <3> HIDE DEF path
    <3>1. IsRest(path, j, dp.path)
      BY DEF AtStep, path
    <3> QED
      BY <1>1, <1>4, <1>6, <3>1, RestGoesOn
  <2>2. CASE e.attr # "dir"
    <3>1. Target(vol, path).name \in {"end", "broken"}
      <4> HIDE DEF path
      <4> QED
        BY <1>1, <1>4, <2>1, <2>2, RouteStopsAtFile
    <3>2. Files[vol][path] = NoFile
      BY <1>1, <3>1, FilesAre DEF IsFile
    <3>3. OpenFails("FR_NO_PATH")
      BY <1>6, <2>2 DEF Found
    <3> QED
      BY <1>2, <3>2, <3>3, OpenEnded DEF Absent
  <2>3. CASE e.attr = "dir"
    <3>1. Search(e.clust, Tail(dp.path))
      BY <1>6, <2>3 DEF Found
    <3>2. fp' = fp => Good' = Good
      BY DEF Good
    <3>3. fs'.mounted /\ fp.id <= fs'.id
      BY <1>2
    <3> HIDE DEF path
    <3> QED
      BY <1>4, <2>1, <2>3, <3>1, <3>2, <3>3, SearchStarts DEF path
  <2> QED
    BY <2>2, <2>3
<1> QED
  BY <1>5, <1>6

LEMMA FindKeeps ==
  ASSUME Invs, DirFind
  PROVE  KeepInv' /\ [Contract!Next]_(Contract!apiVars)
<1>1. /\ pc = "dir_find" /\ vol' = vol /\ fs' = fs /\ call' = call /\ got' = got
      /\ fp.id <= fs.id /\ fs.mounted /\ vol \in Volumes /\ dp.sect \in Nat /\ dp.dptr \in Nat
  BY DEF DirFind, Invs, CursorsInv, TypeInv, DirType, KeepInv, CallInv
<1>1a. PICK j \in Nat, k \in Nat : \E dir : AtStep(j, k, dir)
  BY <1>1, SearchIsAt
<1>2. PICK dir : AtStep(j, k, dir)
  BY <1>1a
<1>3. CASE MoveWindow(dp.sect, FALSE) /\ OpenFails("FR_DISK_ERR")
  <2>1. failed'
    BY <1>3 DEF MoveWindow, Fault
  <2> QED
    BY <1>1, <1>3, <2>1, OpenEnded DEF Failures
<1>4. ASSUME MoveWindow(dp.sect, TRUE), NEW e, e = EntryAt(vol, win'.holds, dp.dptr)
      PROVE  /\ e = EntryNo(vol, dir.clust, k) /\ e.clust \in Nat /\ e.size \in Nat
             /\ e.name # "broken"
  <2>1. win'.holds = dp.sect
    BY <1>1, <1>4 DEF MoveWindow, Invs, IInv, WindowTrue, NoSector
  <2> QED
    BY <1>1, <1>2, <1>4, <2>1, EntryHere, EntryNumbers DEF AtStep
<1>5. ASSUME MoveWindow(dp.sect, TRUE), NEW e, e = EntryAt(vol, win'.holds, dp.dptr),
             e.name = "end", NotFound
      PROVE  KeepInv' /\ [Contract!Next]_(Contract!apiVars)
  <2>1. e = EntryNo(vol, dir.clust, k)
    BY <1>4, <1>5
  <2>2. Lookup(vol, dir.clust, Head(dp.path)) = e
    <3>1. StopsAt(e, Head(dp.path))
      BY <1>5 DEF StopsAt
    <3>2. k * SZDIRE < MAX_DIR /\ NotBefore(vol, dir.clust, Head(dp.path), k)
      BY <1>1, <1>2 DEF AtStep, AtEntry
    <3> QED
      BY <2>1, <3>1, <3>2, LookupStops
  <2> QED
    BY <1>1, <1>2, <1>5, <2>2, NotFoundKeeps
<1>6. ASSUME MoveWindow(dp.sect, TRUE), NEW e, e = EntryAt(vol, win'.holds, dp.dptr),
             e.name # "end", Matches(e), Found(e)
      PROVE  KeepInv' /\ [Contract!Next]_(Contract!apiVars)
  <2>1. /\ e = EntryNo(vol, dir.clust, k) /\ e.clust \in Nat /\ e.size \in Nat
        /\ e.name \notin {"end", "broken"}
    BY <1>4, <1>6
  <2> QED
    BY <1>1, <1>2, <1>6, <2>1, FoundKeeps
<1>7. ASSUME MoveWindow(dp.sect, TRUE), NEW e, e = EntryAt(vol, win'.holds, dp.dptr),
             e.name # "end", ~Matches(e), Continue("dir_next"), fp' = fp, dp' = dp
      PROVE  KeepInv' /\ [Contract!Next]_(Contract!apiVars)
  <2>1. /\ e = EntryNo(vol, dir.clust, k) /\ e.name \notin {"end", "broken"}
    BY <1>4, <1>7
  <2>2. ~StopsAt(e, Head(dp.path))
    BY <1>7, <2>1 DEF StopsAt, Matches
  <2>3. NotBefore(vol, dir.clust, Head(dp.path), k + 1)
    <3>1. NotBefore(vol, dir.clust, Head(dp.path), k)
      BY <1>1, <1>2 DEF AtStep
    <3>2. \A i \in Nat : i < k + 1 => i < k \/ i = k
      OBVIOUS
    <3> QED
      BY <2>1, <2>2, <3>1, <3>2 DEF NotBefore
  <2>4. pc' = "dir_next" /\ res' = res
    BY <1>7 DEF Continue
  <2>5. FindInv'
    <3>1. \E i \in 0 .. Len(call.q.path), n \in Nat :
            LET p == Route(vol, call.q.path)[i]
            IN  /\ dp.path \in Seq(STRING) /\ IsRest(call.q.path, i, dp.path)
                /\ p.name \notin {"end", "broken"} /\ p.attr = "dir"
                /\ AtEntry(vol, p.clust, n, dp)
                /\ NotBefore(vol, p.clust, Head(dp.path), n + 1)
      <4>1. j \in 0 .. Len(call.q.path)
        BY <1>2, PathAsked DEF AtStep, Invs
      <4> QED
        BY <1>2, <2>3, <4>1 DEF AtStep
    <3> QED
      BY <1>1, <1>7, <2>4, <3>1 DEF FindInv
  <2>6. Good' = Good
    BY <1>1, <1>7 DEF Good
  <2> QED
    BY <1>1, <1>7, <2>4, <2>5, <2>6, SearchGoesOn
<1> QED
  BY <1>3, <1>5, <1>6, <1>7 DEF DirFind

(* A directory of the greatest size ends with it.                          *)
LEMMA LookupOver ==
  ASSUME NEW v, NEW sclust, NEW name, NEW k \in Nat,
         NotBefore(v, sclust, name, k + 1), (k + 1) * SZDIRE >= MAX_DIR
  PROVE  Lookup(v, sclust, name) = EndEntry
<1>1. SZDIRE \in Nat \ {0} /\ MAX_DIR \in Nat
  BY FatAssumption
<1>2. ASSUME NEW i \in Nat, i * SZDIRE < MAX_DIR PROVE i < k + 1
  <2> SUFFICES ASSUME k + 1 <= i PROVE FALSE
    BY <1>2
  <2>1. SZDIRE * (k + 1) <= SZDIRE * i
    BY <1>1, ProductMonotone
  <2>2. SZDIRE * (k + 1) = (k + 1) * SZDIRE /\ SZDIRE * i = i * SZDIRE
    BY <1>1
  <2>3. SZDIRE * (k + 1) \in Nat /\ SZDIRE * i \in Nat
    BY <1>1, ProductOfNats
  <2> QED
    BY <1>1, <1>2, <2>1, <2>2, <2>3
<1>3. \A i \in Nat : i * SZDIRE < MAX_DIR => ~StopsAt(EntryNo(v, sclust, i), name)
  BY <1>2 DEF NotBefore
<1> QED
  BY <1>3, LookupEnds

(* The next entry is where the code goes.                                  *)
LEMMA MoveKeeps ==
  ASSUME Invs, pc = "dir_next", vol' = vol, fs' = fs, call' = call, got' = got, fp' = fp,
         Continue("dir_find"),
         NEW j \in Nat, NEW k \in Nat, NEW dir, AtStep(j, k, dir),
         dp'.path = dp.path, AtEntry(vol, dir.clust, k + 1, dp')
  PROVE  KeepInv' /\ [Contract!Next]_(Contract!apiVars)
<1>1. pc' = "dir_find" /\ res' = res
  BY DEF Continue
<1>2. FindInv'
  <2>1. j \in 0 .. Len(call.q.path) /\ k + 1 \in Nat
    BY PathAsked DEF AtStep, Invs
  <2>2. \E i \in 0 .. Len(call.q.path), n \in Nat :
          LET p == Route(vol, call.q.path)[i]
          IN  /\ dp'.path \in Seq(STRING) /\ IsRest(call.q.path, i, dp'.path)
              /\ p.name \notin {"end", "broken"} /\ p.attr = "dir"
              /\ AtEntry(vol, p.clust, n, dp')
              /\ NotBefore(vol, p.clust, Head(dp'.path), n)
    BY <2>1 DEF AtStep
  <2> QED
    BY <1>1, <2>2 DEF FindInv
<1>3. Good' = Good /\ fs'.mounted /\ fp.id <= fs'.id
  BY DEF Good, Invs, KeepInv, CallInv
<1> QED
  BY <1>1, <1>2, <1>3, SearchGoesOn

(* The cluster of a directory is one of the volume.                        *)
LEMMA DirectoryCluster ==
  ASSUME NEW v \in Volumes, NEW sclust, NEW k \in Nat, NEW d, AtEntry(v, sclust, k, d),
         d.clust # 0
  PROVE  d.clust \in Clusters(v) /\ v.fat[d.clust] \in 0 .. v.n_fatent
<1>1. PICK a \in Nat, b \in Nat, x \in Nat, y \in Nat : InPlaces(v, k, a, b, x, y)
  BY EntryPlaces
<1>2. PICK i \in Nat : i = (k * SZDIRE) \div ClusterBytes(v)
  BY <1>1, VolumeNumbers, DivMod DEF InPlaces
<1>3. d.clust \in Clusters(v)
  BY <1>2, LinkIsCluster DEF AtEntry
<1> QED
  BY <1>3, VolumesAssumption

(* The steps of dir_next that read no FAT entry.                           *)
LEMMA NextKeepsWithoutFat ==
  ASSUME Invs, pc = "dir_next", vol' = vol, fs' = fs, call' = call, got' = got,
         NEW j \in Nat, NEW k \in Nat, NEW dir, AtStep(j, k, dir),
         NEW ofs \in Nat, ofs = (k + 1) * SZDIRE, ofs \div SZDIRE = k + 1,
         \/ /\ \/ ofs >= MAX_DIR
               \/ ofs % SS = 0 /\ dp.clust = 0 /\ ofs \div SZDIRE >= vol.n_rootdir
            /\ NotFound
         \/ /\ ofs < MAX_DIR /\ ofs % SS # 0
            /\ dp' = [dp EXCEPT !.dptr = ofs, !.clust = dp.clust, !.sect = dp.sect]
            /\ Continue("dir_find") /\ UNCHANGED fp
         \/ /\ ofs < MAX_DIR /\ ofs % SS = 0
            /\ IF dp.clust = 0 THEN ofs \div SZDIRE < vol.n_rootdir
                               ELSE (ofs \div SS) % vol.csize # 0
            /\ dp' = [dp EXCEPT !.dptr = ofs, !.clust = dp.clust, !.sect = dp.sect + 1]
            /\ Continue("dir_find") /\ UNCHANGED fp
  PROVE  KeepInv' /\ [Contract!Next]_(Contract!apiVars)
<1> DEFINE name == Head(dp.path)
<1>1. /\ vol \in Volumes /\ vol.n_rootdir \in Nat /\ fp.id <= fs.id
      /\ \E P : dp \in DirType(P)
  BY VolumeNumbers DEF Invs, CursorsInv, TypeInv, KeepInv, CallInv
<1>2. AtEntry(vol, dir.clust, k, dp) /\ NotBefore(vol, dir.clust, name, k + 1)
  BY DEF AtStep
<1>3. CASE /\ \/ ofs >= MAX_DIR
              \/ ofs % SS = 0 /\ dp.clust = 0 /\ ofs \div SZDIRE >= vol.n_rootdir
           /\ NotFound
  <2>1. Lookup(vol, dir.clust, name) = EndEntry
    <3>1. CASE ofs >= MAX_DIR
      BY <1>2, <3>1, LookupOver
    <3>2. CASE ~(ofs >= MAX_DIR) /\ dp.clust = 0 /\ ofs \div SZDIRE >= vol.n_rootdir
      <4>1. EntryNo(vol, dir.clust, k + 1) = EndEntry
        BY <1>1, <1>2, <3>2, RootEnds
      <4>2. (k + 1) * SZDIRE < MAX_DIR /\ k + 1 \in Nat
        BY <3>2, FatAssumption
      <4>3. StopsAt(EntryNo(vol, dir.clust, k + 1), name)
        BY <4>1 DEF EndEntry, StopsAt
      <4> QED
        BY <1>2, <4>1, <4>2, <4>3, LookupStops
    <3> QED
      BY <1>3, <3>1, <3>2
  <2> QED
    BY <1>1, <1>3, <2>1, NotFoundKeeps DEF EndEntry
<1>4. CASE /\ ofs < MAX_DIR /\ ofs % SS # 0
           /\ dp' = [dp EXCEPT !.dptr = ofs, !.clust = dp.clust, !.sect = dp.sect]
           /\ Continue("dir_find") /\ UNCHANGED fp
  <2>1. dp'.clust = dp.clust /\ dp'.sect = dp.sect /\ dp'.dptr = ofs /\ dp'.path = dp.path
    BY <1>1, <1>4 DEF DirType
  <2>2. AtEntry(vol, dir.clust, k + 1, dp')
    BY <1>1, <1>2, <1>4, <2>1, NextInSector
  <2> QED
    BY <1>4, <2>1, <2>2, MoveKeeps
<1>5. CASE /\ ofs < MAX_DIR /\ ofs % SS = 0
           /\ IF dp.clust = 0 THEN ofs \div SZDIRE < vol.n_rootdir
                              ELSE (ofs \div SS) % vol.csize # 0
           /\ dp' = [dp EXCEPT !.dptr = ofs, !.clust = dp.clust, !.sect = dp.sect + 1]
           /\ Continue("dir_find") /\ UNCHANGED fp
  <2>1. dp'.clust = dp.clust /\ dp'.sect = dp.sect + 1 /\ dp'.dptr = ofs /\ dp'.path = dp.path
    BY <1>1, <1>5 DEF DirType
  <2>2. AtEntry(vol, dir.clust, k + 1, dp')
    BY <1>1, <1>2, <1>5, <2>1, NextInCluster
  <2> QED
    BY <1>5, <2>1, <2>2, MoveKeeps
<1> QED
  BY <1>3, <1>4, <1>5

(* The one that does.                                                      *)
LEMMA NextKeepsWithFat ==
  ASSUME Invs, pc = "dir_next", vol' = vol, fs' = fs, call' = call, got' = got,
         NEW j \in Nat, NEW k \in Nat, NEW dir, AtStep(j, k, dir),
         NEW ofs \in Nat, ofs = (k + 1) * SZDIRE, ofs \div SZDIRE = k + 1,
         ofs < MAX_DIR, ofs % SS = 0, dp.clust # 0, (ofs \div SS) % vol.csize = 0,
         NEW val \in FatValues(vol), GetFat(dp.clust, val),
         \/ val <= 1 /\ OpenFails("FR_INT_ERR")
         \/ val = DISK_ERR /\ OpenFails("FR_DISK_ERR")
         \/ val = vol.n_fatent /\ val > 1 /\ NotFound
         \/ /\ val > 1 /\ val # DISK_ERR /\ val # vol.n_fatent
            /\ dp' = [dp EXCEPT !.dptr = ofs, !.clust = val, !.sect = Clst2Sect(vol, val)]
            /\ Continue("dir_find") /\ UNCHANGED fp
  PROVE  KeepInv' /\ [Contract!Next]_(Contract!apiVars)
<1> DEFINE name == Head(dp.path)
<1>1. /\ vol \in Volumes /\ vol.n_fatent \in Nat /\ vol.n_fatent < DISK_ERR /\ DISK_ERR \in Nat
      /\ fp.id <= fs.id /\ \E P : dp \in DirType(P)
  BY VolumeNumbers, Sentinels DEF Invs, CursorsInv, TypeInv, KeepInv, CallInv
<1>2. AtEntry(vol, dir.clust, k, dp) /\ NotBefore(vol, dir.clust, name, k + 1)
  BY DEF AtStep
<1>3. dp.clust \in Clusters(vol) /\ vol.fat[dp.clust] \in 0 .. vol.n_fatent
  BY <1>1, <1>2, DirectoryCluster
<1>4. /\ val = vol.fat[dp.clust] \/ val = DISK_ERR
      /\ val = DISK_ERR => failed'
  <2>1. win \in WindowType /\ failed \in BOOLEAN /\ WindowTrue /\ dp.clust \in Nat
    BY <1>1 DEF Invs, CursorsInv, TypeInv, IInv, DirType
  <2>2. (val = vol.fat[dp.clust] \/ val = DISK_ERR) /\ (val = DISK_ERR => Fault("read"))
    BY <1>1, <1>3, <2>1, EntryRead
  <2> QED
    BY <2>2 DEF Fault
<1>5. /\ vol.fat[dp.clust] <= 1 => EntryNo(vol, dir.clust, k + 1).name = "broken"
      /\ vol.fat[dp.clust] = vol.n_fatent => EntryNo(vol, dir.clust, k + 1) = EndEntry
      /\ \A e : /\ vol.fat[dp.clust] \in Clusters(vol) /\ (k + 1) * SZDIRE < MAX_DIR
                /\ e.clust = vol.fat[dp.clust] /\ e.sect = Clst2Sect(vol, vol.fat[dp.clust])
                /\ e.dptr = (k + 1) * SZDIRE
                => AtEntry(vol, dir.clust, k + 1, e)
  BY <1>1, <1>2, NextCluster
<1>6. EntryNo(vol, dir.clust, k + 1).name \in {"end", "broken"} =>
        Lookup(vol, dir.clust, name) = EntryNo(vol, dir.clust, k + 1)
  <2> SUFFICES ASSUME EntryNo(vol, dir.clust, k + 1).name \in {"end", "broken"}
               PROVE  Lookup(vol, dir.clust, name) = EntryNo(vol, dir.clust, k + 1)
    OBVIOUS
  <2>1. StopsAt(EntryNo(vol, dir.clust, k + 1), name)
    BY DEF StopsAt
  <2>2. (k + 1) * SZDIRE < MAX_DIR /\ k + 1 \in Nat
    OBVIOUS
  <2> QED
    BY <1>2, <2>1, <2>2, LookupStops
<1>7. CASE val <= 1 /\ OpenFails("FR_INT_ERR")
  <2>1. val = vol.fat[dp.clust]
    <3>1. DISK_ERR > 1
      BY DEF DISK_ERR
    <3> QED
      BY <1>1, <1>4, <1>7, <3>1
  <2>2. Lookup(vol, dir.clust, name).name = "broken"
    BY <1>5, <1>6, <1>7, <2>1
  <2>3. vol \notin Sound
    BY <2>2, SearchEnds
  <2> QED
    BY <1>1, <1>7, <2>3, OpenEnded DEF Failures
<1>8. CASE val = DISK_ERR /\ OpenFails("FR_DISK_ERR")
  BY <1>1, <1>4, <1>8, OpenEnded DEF Failures
<1>9. CASE val = vol.n_fatent /\ NotFound
  <2>1. val = vol.fat[dp.clust]
    BY <1>1, <1>4, <1>9
  <2>2. Lookup(vol, dir.clust, name) = EndEntry
    BY <1>5, <1>6, <1>9, <2>1 DEF EndEntry
  <2> QED
    BY <1>1, <1>9, <2>2, NotFoundKeeps DEF EndEntry
<1>10. CASE /\ val > 1 /\ val # DISK_ERR /\ val # vol.n_fatent
            /\ dp' = [dp EXCEPT !.dptr = ofs, !.clust = val, !.sect = Clst2Sect(vol, val)]
            /\ Continue("dir_find") /\ UNCHANGED fp
  <2>1. /\ dp'.clust = val /\ dp'.sect = Clst2Sect(vol, val) /\ dp'.dptr = ofs
        /\ dp'.path = dp.path
    BY <1>1, <1>10 DEF DirType
  <2>2. val = vol.fat[dp.clust] /\ val \in Clusters(vol)
    BY <1>1, <1>3, <1>4, <1>10 DEF Clusters
  <2>3. AtEntry(vol, dir.clust, k + 1, dp')
    BY <1>5, <2>1, <2>2
  <2> QED
    BY <1>10, <2>1, <2>3, MoveKeeps
<1> QED
  BY <1>7, <1>8, <1>9, <1>10

LEMMA NextKeeps ==
  ASSUME Invs, DirNext
  PROVE  KeepInv' /\ [Contract!Next]_(Contract!apiVars)
<1>1. pc = "dir_next" /\ vol' = vol /\ fs' = fs /\ call' = call /\ got' = got
  BY DEF DirNext
<1>1a. PICK j \in Nat, k \in Nat : \E dir : AtStep(j, k, dir)
  BY <1>1, SearchIsAt
<1>2. PICK dir : AtStep(j, k, dir)
  BY <1>1a
<1>3. vol \in Volumes
  BY DEF Invs, CursorsInv, TypeInv
<1>4. PICK ofs \in Nat : ofs = NextOffset /\ ofs = (k + 1) * SZDIRE /\ ofs \div SZDIRE = k + 1
  <2>1. PICK a \in Nat, b \in Nat, x \in Nat, y \in Nat : InPlaces(vol, k, a, b, x, y)
    BY <1>3, EntryPlaces
  <2>2. dp.dptr = k * SZDIRE
    BY <1>2 DEF AtStep, AtEntry
  <2> QED
    BY <2>1, <2>2 DEF InPlaces, NextOffset
<1>5. \/ /\ \/ ofs >= MAX_DIR
            \/ ofs % SS = 0 /\ dp.clust = 0 /\ ofs \div SZDIRE >= vol.n_rootdir
         /\ NotFound
      \/ /\ ofs < MAX_DIR /\ ofs % SS # 0
         /\ dp' = [dp EXCEPT !.dptr = ofs, !.clust = dp.clust, !.sect = dp.sect]
         /\ Continue("dir_find") /\ UNCHANGED fp
      \/ /\ ofs < MAX_DIR /\ ofs % SS = 0
         /\ IF dp.clust = 0 THEN ofs \div SZDIRE < vol.n_rootdir
                            ELSE (ofs \div SS) % vol.csize # 0
         /\ dp' = [dp EXCEPT !.dptr = ofs, !.clust = dp.clust, !.sect = dp.sect + 1]
         /\ Continue("dir_find") /\ UNCHANGED fp
      \/ /\ ofs < MAX_DIR /\ ofs % SS = 0 /\ dp.clust # 0 /\ (ofs \div SS) % vol.csize = 0
         /\ \E val \in FatValues(vol) :
              /\ GetFat(dp.clust, val)
              /\ CASE val <= 1            -> OpenFails("FR_INT_ERR")
                   [] val = DISK_ERR      -> OpenFails("FR_DISK_ERR")
                   [] val = vol.n_fatent  -> NotFound
                   [] OTHER -> /\ dp' = [dp EXCEPT !.dptr = ofs, !.clust = val,
                                                   !.sect = Clst2Sect(vol, val)]
                               /\ Continue("dir_find") /\ UNCHANGED fp
  BY <1>4 DEF DirNext
<1>6. CASE /\ ofs < MAX_DIR /\ ofs % SS = 0 /\ dp.clust # 0 /\ (ofs \div SS) % vol.csize = 0
           /\ \E val \in FatValues(vol) :
                /\ GetFat(dp.clust, val)
                /\ CASE val <= 1            -> OpenFails("FR_INT_ERR")
                     [] val = DISK_ERR      -> OpenFails("FR_DISK_ERR")
                     [] val = vol.n_fatent  -> NotFound
                     [] OTHER -> /\ dp' = [dp EXCEPT !.dptr = ofs, !.clust = val,
                                                     !.sect = Clst2Sect(vol, val)]
                                 /\ Continue("dir_find") /\ UNCHANGED fp
  <2> DEFINE IntErr == OpenFails("FR_INT_ERR")
             DiskErr == OpenFails("FR_DISK_ERR")
             Moves(val) == /\ dp' = [dp EXCEPT !.dptr = ofs, !.clust = val,
                                               !.sect = Clst2Sect(vol, val)]
                           /\ Continue("dir_find") /\ UNCHANGED fp
  <2>1. PICK val \in FatValues(vol) :
          /\ GetFat(dp.clust, val)
          /\ CASE val <= 1            -> IntErr
               [] val = DISK_ERR      -> DiskErr
               [] val = vol.n_fatent  -> NotFound
               [] OTHER               -> Moves(val)
    BY <1>6
  <2>2. val \in Nat /\ DISK_ERR > 1 /\ vol.n_fatent > 1 /\ vol.n_fatent < DISK_ERR
    BY <1>3, VolumeNumbers, Sentinels DEF FatValues, DISK_ERR
  <2>3. \/ val <= 1 /\ IntErr
        \/ val = DISK_ERR /\ DiskErr
        \/ val = vol.n_fatent /\ val > 1 /\ NotFound
        \/ val > 1 /\ val # DISK_ERR /\ val # vol.n_fatent /\ Moves(val)
    <3> DEFINE lost == NotFound
               moves == Moves(val)
    <3>1. (CASE val <= 1            -> IntErr
             [] val = DISK_ERR      -> DiskErr
             [] val = vol.n_fatent  -> lost
             [] OTHER               -> moves)
      BY <2>1
    <3>2. val <= 1 \/ val > 1
      BY <2>2
    <3> HIDE DEF IntErr, DiskErr, Moves, lost, moves
    <3>3. \/ val <= 1 /\ IntErr
          \/ val = DISK_ERR /\ DiskErr
          \/ val = vol.n_fatent /\ val > 1 /\ lost
          \/ val > 1 /\ val # DISK_ERR /\ val # vol.n_fatent /\ moves
      BY <2>2, <3>1, <3>2
    <3> QED
      BY <3>3 DEF lost, moves
  <2> QED
    BY <1>1, <1>2, <1>4, <1>6, <2>1, <2>3, NextKeepsWithFat
<1> QED
  BY <1>1, <1>2, <1>4, <1>5, <1>6, NextKeepsWithoutFat

-----------------------------------------------------------------------------
(* A handle that has been spoilt, and one that has been moved.             *)
LEMMA HandleSpoilt ==
  ASSUME NEW file, NEW err, NEW pos,
         ApiHandle = [good |-> TRUE, file |-> file, err |-> err, pos |-> pos],
         ApiHandle' = [good |-> TRUE, file |-> file, err |-> res', pos |-> 0]
  PROVE  ApiHandle' = [ApiHandle EXCEPT !.err = res', !.pos = 0]
<1> DEFINE Handles == [good : BOOLEAN, file : {file}, err : {err, res'}, pos : {pos, 0}]
           h == [ApiHandle EXCEPT !.err = res', !.pos = 0]
<1>1. h \in Handles /\ h.good /\ h.file = file /\ h.err = res' /\ h.pos = 0
  OBVIOUS
<1> HIDE DEF h
<1>2. h = [good |-> TRUE, file |-> file, err |-> res', pos |-> 0]
  BY <1>1
<1> QED
  BY <1>2 DEF h

LEMMA HandleMoved ==
  ASSUME NEW file, NEW err, NEW pos, NEW n,
         ApiHandle = [good |-> TRUE, file |-> file, err |-> err, pos |-> pos],
         ApiHandle' = [good |-> TRUE, file |-> file, err |-> err, pos |-> n]
  PROVE  ApiHandle' = [ApiHandle EXCEPT !.pos = n]
<1> DEFINE Handles == [good : BOOLEAN, file : {file}, err : {err}, pos : {pos, n}]
           h == [ApiHandle EXCEPT !.pos = n]
<1>1. h \in Handles /\ h.good /\ h.file = file /\ h.err = err /\ h.pos = n
  OBVIOUS
<1> HIDE DEF h
<1>2. h = [good |-> TRUE, file |-> file, err |-> err, pos |-> n]
  BY <1>1
<1> QED
  BY <1>2 DEF h

(* There are as many bytes as were asked for.                              *)
LEMMA BytesLength ==
  ASSUME NEW v, NEW first, NEW p, NEW k \in Nat
  PROVE  Len(BytesFrom(v, first, p, k)) = k
BY DEF BytesFrom

(* What a read has given so far is what the contract allows it to end with.*)
LEMMA ReadSoFar ==
  ASSUME TypeInv, InFile, ReadInv, pc \in {"cluster", "sector"}
  PROVE  LET k == fp.fptr - call.fptr
             file == FileOf(vol, fp.sclust, fp.size)
         IN  /\ k \in 0 .. Smaller(call.q.n, file.size - call.fptr)
             /\ got = SubSeq(file.bytes, call.fptr + 1, call.fptr + k) /\ Len(got) = k
             /\ call.fptr + k = fp.fptr
             /\ call.n = 0 => k = Smaller(call.q.n, file.size - call.fptr)
<1> DEFINE k == fp.fptr - call.fptr
           bytes == FileBytes(vol, fp.sclust, fp.size)
           most == Smaller(call.q.n, fp.size - call.fptr)
<1>1. /\ vol \in Volumes /\ fp.fptr \in Nat /\ fp.size \in Nat /\ call.n \in Nat
      /\ call.fptr \in Nat /\ call.q.n \in Nat
  BY FilFields, RequestsAssumption DEF TypeInv, CallType
<1>2. fp.fptr + call.n <= fp.size
  BY DEF InFile
<1>3. /\ call.fptr <= fp.fptr /\ call.fptr <= fp.size
      /\ got = BytesFrom(vol, fp.sclust, call.fptr, k)
      /\ fp.fptr + call.n = call.fptr + most
      /\ fp.fptr > call.fptr => Link(vol, fp.sclust, (fp.fptr - 1) \div ClusterBytes(vol)) # 0
  BY DEF ReadInv
<1>4. most \in Nat
  BY <1>1, <1>3 DEF Smaller
<1> HIDE DEF most
<1>5. /\ k \in Nat /\ k <= most /\ call.fptr + k = fp.fptr /\ call.fptr + k <= fp.size
      /\ call.n = 0 => k = most
      /\ k > 0 => fp.fptr > call.fptr
  BY <1>1, <1>2, <1>3, <1>4
<1> HIDE DEF k
<1>6. SubSeq(bytes, call.fptr + 1, call.fptr + k) = BytesFrom(vol, fp.sclust, call.fptr, k)
  <2>1. call.fptr + k - 1 = fp.fptr - 1
    BY <1>1, <1>5
  <2>2. k > 0 => Link(vol, fp.sclust, (call.fptr + k - 1) \div ClusterBytes(vol)) # 0
    BY <1>3, <1>5, <2>1
  <2>3. call.fptr + k <= fp.size
    BY <1>5
  <2>4. vol \in Volumes /\ fp.size \in Nat /\ call.fptr \in Nat /\ k \in Nat
    BY <1>1, <1>5
  <2> QED
    BY <2>2, <2>3, <2>4, NextBytes, Zenon DEF bytes
<1>7. got = SubSeq(bytes, call.fptr + 1, call.fptr + k) /\ Len(got) = k
  BY <1>3, <1>5, <1>6, BytesLength
<1> HIDE DEF bytes
<1>8. k \in 0 .. most
  BY <1>4, <1>5
<1> QED
  BY <1>5, <1>7, <1>8 DEF FileOf, k, bytes, most

(* A read that fails.                                                      *)
LEMMA ReadFails ==
  ASSUME Invs, pc \in {"cluster", "sector"}, vol' = vol, fs' = fs, call' = call, got' = got,
         NEW r \in {"FR_DISK_ERR", "FR_INT_ERR"}, Return(r),
         fp'.open = fp.open, fp'.id = fp.id, fp'.sclust = fp.sclust, fp'.size = fp.size,
         fp'.err = r,
         r = "FR_INT_ERR" => vol \notin Sound,
         r = "FR_DISK_ERR" => failed' \/ fp.sclust = DISK_ERR
  PROVE  KeepInv' /\ [Contract!Next]_(Contract!apiVars)
<1>1. /\ pc' = "idle" /\ res' = r /\ res = "RUNNING" /\ fp.open /\ fp.err = "FR_OK"
      /\ call.q.op = "read" /\ Good /\ call.err = "FR_OK" /\ fp.id <= fs.id
  BY DEF Return, Invs, CursorsInv, TypeInv, InFile, KeepInv, CallInv, ServedBy
<1>2. CallInv' /\ ClusterInv' /\ ReadInv' /\ SeekInv' /\ FindInv'
  BY <1>1, KeptAtEnd DEF Invs, KeepInv
<1>3. ErrorsHaveCause'
  BY <1>1, ErrorsCaused
<1>4. CauseInv'
  BY <1>1, <1>3, KeptCause DEF Invs, KeepInv
<1> DEFINE k == fp.fptr - call.fptr
<1>5. /\ ApiHandle = Held("FR_OK", call.fptr)
      /\ ApiHandle' = [ApiHandle EXCEPT !.err = res', !.pos = 0]
      /\ ApiData' = got
  <2> DEFINE file == FileOf(vol, fp.sclust, fp.size)
  <2>1. ApiHandle = [good |-> TRUE, file |-> file, err |-> "FR_OK", pos |-> call.fptr]
    BY <1>1 DEF ApiHandle, Held
  <2>2. Good' /\ r # "FR_OK"
    BY <1>1 DEF Good
  <2>3. ApiHandle' = [good |-> TRUE, file |-> file, err |-> r, pos |-> 0]
    BY <1>1, <2>2 DEF ApiHandle, Held
  <2>4. ApiData' = got
    BY <1>1 DEF ApiData
  <2>5. ApiHandle = Held("FR_OK", call.fptr)
    BY <2>1 DEF Held
  <2> HIDE DEF file
  <2>6. ApiHandle' = [ApiHandle EXCEPT !.err = res', !.pos = 0]
    BY <1>1, <2>1, <2>3, HandleSpoilt
  <2> QED
    BY <2>4, <2>5, <2>6
<1>6. ApiHandle.good /\ ApiHandle.err = "FR_OK" /\ ApiHandle.pos = call.fptr
      /\ ApiHandle.file = FileOf(vol, fp.sclust, fp.size)
  BY <1>5 DEF Held
<1>7. /\ k \in 0 .. Smaller(call.q.n, ApiHandle.file.size - ApiHandle.pos)
      /\ got = SubSeq(ApiHandle.file.bytes, ApiHandle.pos + 1, ApiHandle.pos + k) /\ Len(got) = k
  BY <1>6, ReadSoFar DEF Invs, CursorsInv, KeepInv
<1>8. res' \in Failures
  BY <1>1 DEF Failures
<1>9. Serving("read")
  BY <1>1 DEF Serving
<1> HIDE DEF k
<1>10. [Contract!Next]_(Contract!apiVars)
  BY <1>5, <1>6, <1>7, <1>8, <1>9, ApiReads
<1> QED
  BY <1>2, <1>4, <1>10 DEF KeepInv

(* A call is refused.                                                      *)
LEMMA RefuseKeeps ==
  ASSUME Invs, pc \in {"read", "seek"}, ~MayUse, Refuse, vol' = vol, fs' = fs, call' = call,
         got' = got
  PROVE  KeepInv' /\ [Contract!Next]_(Contract!apiVars)
<1>1. /\ pc' = "idle" /\ fp' = fp /\ (~Good \/ fp.err # "FR_OK")
      /\ res' = IF Good THEN fp.err ELSE "FR_INVALID_OBJECT"
  BY ValidIsGood DEF MayUse, Refuse, Return
<1>2. /\ res = "RUNNING" /\ call.q.op = pc /\ got = <<>> /\ call.fptr = fp.fptr
      /\ call.err = fp.err /\ fp.id <= fs.id
  BY DEF Invs, CursorsInv, TypeInv, KeepInv, CallInv, ServedBy
<1>3. CallInv' /\ ClusterInv' /\ ReadInv' /\ SeekInv' /\ FindInv'
  BY <1>1, <1>2, KeptAtEnd DEF Invs, KeepInv
<1>4. res' = "FR_INT_ERR" => vol \notin Sound
  BY <1>1 DEF Good, Invs, KeepInv, CauseInv
<1>5. res' = "FR_DISK_ERR" => call'.err = "FR_DISK_ERR"
  BY <1>1, <1>2
<1>6. ErrorsHaveCause'
  BY <1>4, <1>5, ErrorsCaused
<1>7. CauseInv'
  BY <1>1, <1>6, KeptCause DEF Invs, KeepInv, CauseInv
<1>8. ApiData' = <<>> /\ ApiHandle' = ApiHandle
  BY <1>1, <1>2 DEF ApiData, ApiHandle, Good, Held, Lost
<1>9. (~Good => ~ApiHandle.good) /\ (Good => ApiHandle.good /\ ApiHandle.err = fp.err)
  BY <1>2 DEF ApiHandle, Held, Lost
<1>10. [Contract!Next]_(Contract!apiVars)
  BY <1>1, <1>2, <1>8, <1>9, ApiRefuses DEF Serving
<1> QED
  BY <1>3, <1>7, <1>10 DEF KeepInv

(* f_read begins, or refuses.                                              *)
LEMMA ReadKeeps ==
  ASSUME Invs, FRead
  PROVE  KeepInv' /\ [Contract!Next]_(Contract!apiVars)
<1>1. /\ pc = "read" /\ vol' = vol /\ fs' = fs /\ got' = got /\ fp' = fp /\ failed' = failed
      /\ res = "RUNNING" /\ call.q.op = "read" /\ got = <<>> /\ call.n = call.q.n
      /\ call.fptr = fp.fptr /\ call.err = fp.err /\ fp.id <= fs.id
      /\ fp \in FilType /\ call \in CallType /\ vol \in Volumes
  BY DEF FRead, Refuse, Invs, CursorsInv, TypeInv, KeepInv, CallInv, ServedBy
<1>2. ASSUME ~MayUse, Refuse, call' = call
      PROVE  KeepInv' /\ [Contract!Next]_(Contract!apiVars)
  BY <1>1, <1>2, RefuseKeeps
<1>3. ASSUME MayUse, Continue("cluster"),
             call' = [call EXCEPT !.n = Smaller(@, fp.size - fp.fptr)]
      PROVE  KeepInv' /\ [Contract!Next]_(Contract!apiVars)
  <2>1. /\ pc' = "cluster" /\ res' = res /\ Good /\ fp.open /\ fp.err = "FR_OK"
        /\ fp.fptr <= fp.size /\ fp.fptr \in Nat /\ fp.size \in Nat /\ call.n \in Nat
    BY <1>1, <1>3, ValidIsGood, FilFields
       DEF MayUse, Valid, Continue, Invs, CursorsInv, InFile, CallType
  <2>2. /\ call'.q = call.q /\ call'.fptr = call.fptr /\ call'.err = call.err
        /\ call'.n = Smaller(call.n, fp.size - fp.fptr)
    BY <1>1, <1>3 DEF CallType
  <2>3. CallInv' /\ SeekInv' /\ FindInv'
    BY <1>1, <2>1, <2>2 DEF CallInv, SeekInv, FindInv, ServedBy, Good
  <2>4. ClusterInv'
    BY <1>1, <2>1 DEF ClusterInv, Known, Invs, KeepInv
  <2>5. ReadInv'
    <3>1. got = BytesFrom(vol, fp.sclust, fp.fptr, fp.fptr - fp.fptr)
      <4>1. fp.fptr - fp.fptr = 0
        BY <2>1
      <4>2. BytesFrom(vol, fp.sclust, fp.fptr, 0) = <<>>
        BY DEF BytesFrom
      <4> QED
        BY <1>1, <4>1, <4>2
    <3> QED
      BY <1>1, <2>1, <2>2, <3>1 DEF ReadInv, BytesFrom
  <2>6. CauseInv'
    BY <1>1, <2>1, <2>2, ErrorsCaused, KeptCause DEF Invs, KeepInv, CauseInv
  <2>7. ApiHandle' = ApiHandle /\ ApiData' = ApiData
    BY <1>1, <2>1, <2>2 DEF ApiHandle, ApiData, Good, Held, Lost
  <2>8. [Contract!Next]_(Contract!apiVars)
    BY <1>1, <2>1, <2>2, <2>7, ApiStutters
  <2> QED
    BY <2>3, <2>4, <2>5, <2>6, <2>8 DEF KeepInv
<1> QED
  BY <1>1, <1>2, <1>3 DEF FRead

-----------------------------------------------------------------------------
(* A read goes from one step to the next.                                  *)
LEMMA ReadGoesOn ==
  ASSUME Invs, pc \in {"cluster", "sector"}, pc' \in {"cluster", "sector"},
         res' = res, vol' = vol, fs' = fs,
         call'.q = call.q, call'.err = call.err, call'.fptr = call.fptr,
         fp'.open = fp.open, fp'.id = fp.id, fp'.sclust = fp.sclust, fp'.size = fp.size,
         fp'.err = fp.err, ClusterInv', ReadInv'
  PROVE  KeepInv' /\ [Contract!Next]_(Contract!apiVars)
<1>1. /\ res = "RUNNING" /\ fp.open /\ fp.err = "FR_OK"
      /\ call.q.op = "read" /\ Good /\ call.err = "FR_OK" /\ fp.id <= fs.id
  BY DEF Invs, CursorsInv, TypeInv, InFile, KeepInv, CallInv, ServedBy
<1>2. CallInv' /\ SeekInv' /\ FindInv'
  BY <1>1 DEF CallInv, SeekInv, FindInv, ServedBy, Good
<1>3. CauseInv'
  BY <1>1, ErrorsCaused, KeptCause DEF Invs, KeepInv
<1>4. ApiHandle' = ApiHandle /\ ApiData' = ApiData
  BY <1>1 DEF ApiHandle, ApiData, Good, Held
<1>5. [Contract!Next]_(Contract!apiVars)
  BY <1>4, ApiStutters
<1> QED
  BY <1>2, <1>3, <1>5 DEF KeepInv

(* A cluster that is none of the volume's has no bytes of the file.        *)
LEMMA NoCluster ==
  ASSUME Known(fp), fp.clust \notin Clusters(vol), NEW k \in Nat
  PROVE  Link(vol, fp.sclust, k) = 0
<1>1. fp.sclust \notin Clusters(vol)
  BY DEF Known
<1>2. Link(vol, fp.sclust, 0) = 0
  BY <1>1, FirstLink
<1>3. k >= 0
  OBVIOUS
<1> QED
  BY <1>2, <1>3, EndedChain

(* Where the next entry is none of the volume's clusters, the chain ends.  *)
LEMMA ChainEndsHere ==
  ASSUME TypeInv, WindowTrue, Known(fp), NEW k \in Nat, OnChain(fp, k),
         NEW clst, GetFat(fp.clust, clst), clst \notin Clusters(vol), clst # DISK_ERR
  PROVE  Link(vol, fp.sclust, k + 1) = 0
<1>1. CASE fp.clust \in Clusters(vol)
  <2>1. clst = vol.fat[fp.clust]
    <3>1. fp.clust \in Nat
      BY FilFields DEF TypeInv
    <3> QED
      BY <1>1, <3>1, EntryRead DEF TypeInv
  <2>2. fp.clust = Link(vol, fp.sclust, k)
    BY <1>1 DEF OnChain
  <2> QED
    BY <2>1, <2>2, NextLink
<1>2. CASE fp.clust \notin Clusters(vol)
  BY <1>2, NoCluster
<1> QED
  BY <1>1, <1>2

(* The loop of f_read, on the boundary of a cluster and elsewhere.         *)
LEMMA ClusterKeeps ==
  ASSUME Invs, ReadCluster
  PROVE  KeepInv' /\ [Contract!Next]_(Contract!apiVars)
<1> DEFINE CB == ClusterBytes(vol)
<1>1. /\ vol' = vol /\ fs' = fs /\ call' = call /\ got' = got /\ pc = "cluster"
      /\ vol \in Volumes /\ res = "RUNNING" /\ fp.open /\ fp.err = "FR_OK"
      /\ fp.fptr + call.n <= fp.size /\ WindowTrue /\ TypeInv /\ CauseInv
  BY DEF ReadCluster, Invs, IInv, CursorsInv, TypeInv, InFile, KeepInv
<1>2. /\ fp.fptr \in Nat /\ fp.clust \in Nat /\ fp.sclust \in Nat /\ call.n \in Nat
      /\ fp.size \in Nat /\ fp \in FilType /\ call \in CallType
  BY <1>1, FilFields, CallChanges DEF TypeInv
<1>3. CB \in Nat \ {0}
  BY <1>1, VolumeNumbers
<1>4. /\ fp.fptr > 0 => OnChain(fp, (fp.fptr - 1) \div CB) /\ Known(fp)
      /\ fp.fptr % SS # 0 => fp.clust \in Clusters(vol)
      /\ ReadInv /\ Good /\ call.err = "FR_OK" /\ call.q.op = "read" /\ fp.id <= fs.id
  BY <1>1 DEF Invs, CursorsInv, CursorInv, Resting, KeepInv, ClusterInv, CallInv, ServedBy
<1>5. OnSector /\ Csect = 0 <=> fp.fptr % CB = 0
  BY <1>1, <1>2, Boundary DEF OnSector, Csect
<1> HIDE DEF CB
<1>6. ASSUME call.n = 0, Return("FR_OK"), UNCHANGED <<win, fp, failed>>
      PROVE  KeepInv' /\ [Contract!Next]_(Contract!apiVars)
  <2>1. pc' = "idle" /\ res' = "FR_OK" /\ fp' = fp
    BY <1>6 DEF Return
  <2>2. CallInv' /\ ClusterInv' /\ ReadInv' /\ SeekInv' /\ FindInv'
    BY <1>1, <1>4, <2>1, KeptAtEnd DEF Invs, KeepInv
  <2>3. ErrorsHaveCause'
    BY <1>1, <2>1, ErrorsCaused
  <2>4. CauseInv'
    BY <1>1, <2>1, <2>3, KeptCause DEF CauseInv
  <2> DEFINE k == fp.fptr - call.fptr
             file == FileOf(vol, fp.sclust, fp.size)
  <2>5. /\ k \in 0 .. Smaller(call.q.n, file.size - call.fptr)
        /\ got = SubSeq(file.bytes, call.fptr + 1, call.fptr + k) /\ Len(got) = k
        /\ call.fptr + k = fp.fptr
        /\ k = Smaller(call.q.n, file.size - call.fptr)
    BY <1>1, <1>4, <1>6, ReadSoFar DEF Invs, CursorsInv
  <2>6. /\ ApiHandle = [good |-> TRUE, file |-> file, err |-> "FR_OK", pos |-> call.fptr]
        /\ ApiHandle' = [good |-> TRUE, file |-> file, err |-> "FR_OK", pos |-> fp.fptr]
        /\ ApiData' = got
    BY <1>1, <1>4, <2>1 DEF ApiHandle, ApiData, Good, Held
  <2> HIDE DEF k, file
  <2>7. ApiHandle' = [ApiHandle EXCEPT !.pos = fp.fptr]
    BY <2>6, HandleMoved
  <2>8. /\ ApiHandle.good /\ ApiHandle.err = "FR_OK" /\ ApiHandle.pos = call.fptr
        /\ ApiHandle.file = file
    BY <2>6
  <2>9. ApiHandle' = [ApiHandle EXCEPT !.pos = ApiHandle.pos + k]
    BY <2>5, <2>7, <2>8
  <2>10. Serving("read")
    BY <1>1, <1>4 DEF Serving
  <2>11. [Contract!Next]_(Contract!apiVars)
    BY <2>1, <2>5, <2>6, <2>8, <2>9, <2>10, ApiReads
  <2> QED
    BY <2>2, <2>4, <2>11 DEF KeepInv
<1>7. ASSUME ~(OnSector /\ Csect = 0), Continue("sector"), UNCHANGED <<win, fp, failed>>
      PROVE  KeepInv' /\ [Contract!Next]_(Contract!apiVars)
  <2>1. pc' = "sector" /\ res' = res /\ fp' = fp
    BY <1>7 DEF Continue
  <2>2. fp.fptr > 0 /\ fp.fptr \div CB \in Nat
    BY <1>2, <1>3, <1>5, <1>7, NotOnBoundary, DivMod
  <2>3. fp.clust \notin Clusters(vol) => Link(vol, fp.sclust, fp.fptr \div CB) = 0
    BY <1>4, <2>2, NoCluster
  <2>4. ClusterInv'
    BY <1>1, <1>4, <2>1, <2>3 DEF ClusterInv, CB
  <2>5. ReadInv'
    BY <1>1, <1>4, <2>1 DEF ReadInv
  <2> QED
    BY <1>1, <2>1, <2>4, <2>5, ReadGoesOn
<1>8. ASSUME call.n > 0, OnSector, Csect = 0, NEW clst \in FatValues(vol),
             IF fp.fptr = 0 THEN clst = fp.sclust /\ UNCHANGED <<win, failed>>
                            ELSE GetFat(fp.clust, clst),
             CASE clst < 2        -> Abort("FR_INT_ERR")
               [] clst = DISK_ERR -> Abort("FR_DISK_ERR")
               [] OTHER -> Continue("sector") /\ fp' = [fp EXCEPT !.clust = clst]
      PROVE  KeepInv' /\ [Contract!Next]_(Contract!apiVars)
  <2>1. clst \in Nat /\ DISK_ERR > 2
    BY <1>1, VolumeNumbers, Sentinels DEF FatValues, DISK_ERR
  <2>2. ASSUME clst \notin Clusters(vol), clst # DISK_ERR
        PROVE  Link(vol, fp.sclust, fp.fptr \div CB) = 0
    <3>1. CASE fp.fptr = 0
      <4>1. fp.fptr \div CB = 0
        BY <1>3, <3>1
      <4> QED
        BY <1>8, <2>2, <3>1, <4>1, FirstLink
    <3>2. CASE fp.fptr # 0
      <4> DEFINE k == (fp.fptr - 1) \div CB
      <4>1. k \in Nat /\ k + 1 = fp.fptr \div CB
        <5>1. fp.fptr % CB = 0 /\ fp.fptr > 0 /\ fp.fptr - 1 \in Nat
          BY <1>2, <1>5, <1>8, <3>2
        <5>2. k + 1 = fp.fptr \div CB
          BY <1>2, <1>3, <5>1, OnBoundary
        <5>3. k \in Nat
          BY <1>3, <5>1, DivMod
        <5> QED
          BY <5>2, <5>3
      <4>2. OnChain(fp, k) /\ Known(fp)
        BY <1>2, <1>4, <3>2
      <4> HIDE DEF k
      <4>3. GetFat(fp.clust, clst)
        BY <1>8, <3>2
      <4>4. Link(vol, fp.sclust, k + 1) = 0
        BY <1>1, <2>2, <4>1, <4>2, <4>3, ChainEndsHere
      <4> QED
        BY <4>1, <4>4
    <3> QED
      BY <3>1, <3>2
  <2>3. ASSUME clst < 2, Abort("FR_INT_ERR")
        PROVE  KeepInv' /\ [Contract!Next]_(Contract!apiVars)
    <3>1. clst \notin Clusters(vol) /\ clst # DISK_ERR
      BY <2>1, <2>3 DEF Clusters
    <3>2. fp.fptr < fp.size
      BY <1>1, <1>2, <1>8
    <3>3. vol \notin Sound
      BY <1>1, <1>2, <2>2, <3>1, <3>2, UnsoundFile DEF CB
    <3>4. /\ fp'.open = fp.open /\ fp'.id = fp.id /\ fp'.sclust = fp.sclust
          /\ fp'.size = fp.size /\ fp'.err = "FR_INT_ERR" /\ Return("FR_INT_ERR")
      BY <1>2, <2>3 DEF Abort, FilType
    <3> QED
      BY <1>1, <3>3, <3>4, ReadFails
  <2>4. ASSUME clst = DISK_ERR, Abort("FR_DISK_ERR")
        PROVE  KeepInv' /\ [Contract!Next]_(Contract!apiVars)
    <3>1. failed' \/ fp.sclust = DISK_ERR
      <4>1. CASE fp.fptr = 0
        BY <1>8, <2>4, <4>1
      <4>2. CASE fp.fptr # 0
        <5>1. Fault("read")
          BY <1>1, <1>2, <1>8, <2>4, <4>2, EntryRead DEF TypeInv
        <5> QED
          BY <5>1 DEF Fault
      <4> QED
        BY <4>1, <4>2
    <3>2. /\ fp'.open = fp.open /\ fp'.id = fp.id /\ fp'.sclust = fp.sclust
          /\ fp'.size = fp.size /\ fp'.err = "FR_DISK_ERR" /\ Return("FR_DISK_ERR")
      BY <1>2, <2>4 DEF Abort, FilType
    <3> QED
      BY <1>1, <3>1, <3>2, ReadFails
  <2>5. ASSUME clst # DISK_ERR, Continue("sector"), fp' = [fp EXCEPT !.clust = clst]
        PROVE  KeepInv' /\ [Contract!Next]_(Contract!apiVars)
    <3>1. /\ pc' = "sector" /\ res' = res /\ fp'.open = fp.open /\ fp'.id = fp.id
          /\ fp'.sclust = fp.sclust /\ fp'.size = fp.size /\ fp'.err = fp.err
          /\ fp'.fptr = fp.fptr /\ fp'.clust = clst
      BY <1>2, <2>5 DEF Continue, FilType
    <3>2. fp.fptr % SS = 0
      BY <1>8 DEF OnSector
    <3>3. ClusterInv'
      BY <1>1, <2>2, <2>5, <3>1, <3>2 DEF ClusterInv, CB
    <3>4. ReadInv'
      BY <1>1, <1>4, <3>1 DEF ReadInv
    <3> QED
      BY <1>1, <3>1, <3>3, <3>4, ReadGoesOn
  <2> QED
    BY <1>8, <2>1, <2>3, <2>4, <2>5
<1> QED
  BY <1>6, <1>7, <1>8 DEF ReadCluster

-----------------------------------------------------------------------------
(* Bytes have been read from the sector of the position, and on from it,   *)
(* inside its cluster.                                                     *)
LEMMA ReadAdvances ==
  ASSUME Invs, pc = "sector", vol' = vol, fs' = fs,
         NEW from, from = fp.fptr % SS, NEW n \in Nat, n > 0, n <= call.n,
         NEW f \in FilType, f.fptr = fp.fptr, f.clust = fp.clust, f.sclust = fp.sclust,
         f.size = fp.size, f.open = fp.open, f.err = fp.err, f.id = fp.id,
         fp.clust \in Clusters(vol),
         NEW sect, sect = Clst2Sect(vol, fp.clust) + Csect,
         Advance(sect, from, n, f),
         (fp.fptr % ClusterBytes(vol)) + n <= ClusterBytes(vol)
  PROVE  KeepInv' /\ [Contract!Next]_(Contract!apiVars)
<1> DEFINE CB == ClusterBytes(vol)
           k == fp.fptr - call.fptr
<1>1. /\ vol \in Volumes /\ fp.fptr \in Nat /\ call.n \in Nat /\ call.fptr \in Nat
      /\ call \in CallType /\ call.q.n \in Nat /\ fp.size \in Nat
  BY FilFields, RequestsAssumption DEF Invs, CursorsInv, TypeInv, CallType
<1>2. /\ OnChain(fp, fp.fptr \div CB) /\ ReadInv
      /\ call.fptr <= fp.fptr /\ call.fptr <= fp.size
      /\ got = BytesFrom(vol, fp.sclust, call.fptr, k)
      /\ fp.fptr + call.n = call.fptr + Smaller(call.q.n, fp.size - call.fptr)
  BY DEF Invs, CursorsInv, CursorInv, AtSector, KeepInv, ReadInv
<1>3. fp.clust = Link(vol, fp.sclust, fp.fptr \div CB) /\ fp.clust # 0
  BY <1>2 DEF OnChain, Clusters
<1>4. Bytes(sect, from, n) = BytesFrom(vol, fp.sclust, fp.fptr, n)
  BY <1>1, <1>3, SectorBytes DEF Csect
<1>5. k \in Nat /\ call.fptr + k = fp.fptr /\ (fp.fptr + n) - call.fptr = k + n
  BY <1>1, <1>2
<1>6. /\ got' = got \o BytesFrom(vol, fp.sclust, fp.fptr, n)
      /\ pc' = "cluster" /\ res' = res
      /\ call' = [call EXCEPT !.n = call.n - n] /\ fp' = [f EXCEPT !.fptr = fp.fptr + n]
  BY <1>4 DEF Advance, Continue
<1>7. /\ call'.n = call.n - n /\ call'.q = call.q /\ call'.fptr = call.fptr /\ call'.err = call.err
      /\ fp'.fptr = fp.fptr + n /\ fp'.clust = fp.clust /\ fp'.sclust = fp.sclust
      /\ fp'.size = fp.size /\ fp'.open = fp.open /\ fp'.err = fp.err /\ fp'.id = fp.id
  BY <1>1, <1>6 DEF FilType, CallType
<1> HIDE DEF k
<1>8. got' = BytesFrom(vol, fp.sclust, call.fptr, k + n)
  <2> DEFINE next == BytesFrom(vol, fp.sclust, call.fptr + k, n)
  <2>1. got' = Joined(got, next)
    BY <1>5, <1>6, Zenon DEF Joined
  <2>2. call.fptr \in Nat /\ k \in Nat /\ got = BytesFrom(vol, fp.sclust, call.fptr, k)
    BY <1>1, <1>2, <1>5
  <2>3. next = BytesFrom(vol, fp.sclust, call.fptr + k, n)
    OBVIOUS
  <2> HIDE DEF next
  <2> QED
    BY <2>1, <2>2, <2>3, BytesJoin
<1>9. Link(vol, fp.sclust, (fp.fptr + n - 1) \div CB) # 0
  <2>1. (fp.fptr + n - 1) \div CB = fp.fptr \div CB
    BY <1>1, VolumeNumbers, StepInside
  <2> QED
    BY <1>3, <2>1
<1>10. ReadInv'
  <2>1. got' = BytesFrom(vol', fp'.sclust, call'.fptr, fp'.fptr - call'.fptr)
    BY <1>5, <1>7, <1>8
  <2>2. Link(vol', fp'.sclust, (fp'.fptr - 1) \div ClusterBytes(vol')) # 0
    <3>1. fp'.fptr - 1 = fp.fptr + n - 1
      BY <1>1, <1>7
    <3> QED
      BY <1>7, <1>9, <3>1, Zenon
  <2>3. /\ call'.fptr <= fp'.fptr /\ call'.fptr <= fp'.size
        /\ fp'.fptr + call'.n = call'.fptr + Smaller(call'.q.n, fp'.size - call'.fptr)
    BY <1>1, <1>2, <1>7
  <2> QED
    BY <2>1, <2>2, <2>3 DEF ReadInv, BytesFrom
<1>11. ClusterInv'
  BY <1>6, <1>7 DEF ClusterInv, Known
<1> QED
  BY <1>6, <1>7, <1>10, <1>11, ReadGoesOn

(* A sector, or sectors, are read, or what is in the buffer is taken.      *)
LEMMA SectorKeeps ==
  ASSUME Invs, ReadSector
  PROVE  KeepInv' /\ [Contract!Next]_(Contract!apiVars)
<1> DEFINE base == Clst2Sect(vol, fp.clust)
           sect == base + Csect
           rest == Smaller(SS - (fp.fptr % SS), call.n)
           whole == WholeSectors * SS
           read == [fp EXCEPT !.sect = sect, !.buf = sect]
<1>1. /\ vol' = vol /\ fs' = fs /\ pc = "sector" /\ vol \in Volumes /\ res = "RUNNING"
      /\ fp.open /\ fp.err = "FR_OK" /\ fp.fptr + call.n <= fp.size
      /\ call.n > 0 /\ OnChain(fp, fp.fptr \div ClusterBytes(vol)) /\ OnItsSector(fp)
      /\ BufTrue(fp) /\ TypeInv /\ CauseInv
  BY DEF ReadSector, Invs, IInv, FileInv, CursorsInv, TypeInv, InFile, CursorInv, AtSector, KeepInv
<1>2. /\ fp.fptr \in Nat /\ fp.clust \in Nat /\ fp.sclust \in Nat /\ call.n \in Nat
      /\ fp.size \in Nat /\ fp \in FilType /\ call \in CallType
  BY <1>1, FilFields, CallChanges DEF TypeInv
<1>3. /\ fp.fptr % SS # 0 => fp.clust \in Clusters(vol)
      /\ fp.clust \notin Clusters(vol) =>
           Link(vol, fp.sclust, fp.fptr \div ClusterBytes(vol)) = 0
  BY <1>1 DEF Invs, KeepInv, ClusterInv
<1>4. base \in Nat /\ Csect \in Nat /\ sect \in Nat
  <2>1. Csect \in Nat
    <3> DEFINE q == fp.fptr \div SS
               c == vol.csize
    <3>1. q \in Nat /\ c \in Nat \ {0}
      BY <1>1, <1>2, FatAssumption, VolumeNumbers, DivMod
    <3> HIDE DEF q, c
    <3>2. q % c \in Nat
      BY <3>1, DivMod
    <3> QED
      BY <3>2 DEF Csect, q, c
  <2> QED
    BY <1>1, <2>1, ClusterSector
<1>5. base = 0 <=> fp.clust \notin Clusters(vol)
  BY <1>1, SectorOfCluster
<1>6. base # 0 => sect # 0
  BY <1>4
<1>7. /\ rest \in Nat /\ rest > 0 /\ rest <= call.n
      /\ (fp.fptr % ClusterBytes(vol)) + rest <= ClusterBytes(vol)
  BY <1>1, <1>2, RestOfSector
<1>8. /\ read \in FilType /\ read.fptr = fp.fptr /\ read.clust = fp.clust
      /\ read.sclust = fp.sclust /\ read.size = fp.size /\ read.open = fp.open
      /\ read.err = fp.err /\ read.id = fp.id
  <2> HIDE DEF base, sect
  <2>1. read \in FilType
    <3>1. sect \in Int
      BY <1>4
    <3> QED
      BY <1>2, <1>4, <3>1, FilChanges DEF FileErrors
  <2> QED
    BY <1>2, <2>1 DEF FilType
<1>9. ASSUME ~OnSector
      PROVE  fp.buf = sect
  <2>1. fp.clust \in Clusters(vol)
    BY <1>3, <1>9 DEF OnSector
  <2>2. fp.clust = Link(vol, fp.sclust, fp.fptr \div ClusterBytes(vol)) /\ fp.clust # 0
    BY <1>1, <2>1 DEF OnChain, Clusters
  <2>3. FileByte(vol, fp.sclust, fp.fptr)[1] = sect
    BY <1>1, <1>2, <2>2, ByteSector DEF Csect
  <2>4. fp.sect = sect
    BY <1>1, <1>9, <2>3 DEF OnItsSector, OnSector
  <2> QED
    BY <1>1, <1>5, <1>6, <2>1, <2>4 DEF BufTrue
<1>10. ASSUME fp.sect = sect, base # 0
       PROVE  fp.buf = sect
  BY <1>1, <1>6, <1>10 DEF BufTrue
<1> HIDE DEF rest, read, whole
<1>11. ASSUME OnSector, base = 0, Abort("FR_INT_ERR"), UNCHANGED <<call, got, failed>>
       PROVE  KeepInv' /\ [Contract!Next]_(Contract!apiVars)
  <2>1. vol \notin Sound
    <3>1. fp.fptr < fp.size
      BY <1>1, <1>2
    <3> QED
      BY <1>1, <1>2, <1>3, <1>5, <1>11, <3>1, UnsoundFile
  <2>2. /\ fp'.open = fp.open /\ fp'.id = fp.id /\ fp'.sclust = fp.sclust
        /\ fp'.size = fp.size /\ fp'.err = "FR_INT_ERR" /\ Return("FR_INT_ERR")
    BY <1>2, <1>11 DEF Abort, FilType
  <2> QED
    BY <1>1, <1>11, <2>1, <2>2, ReadFails
<1>12. ASSUME /\ Return("FR_DISK_ERR") /\ Fault("read") /\ UNCHANGED <<call, got>>
              /\ \/ fp' = [fp EXCEPT !.err = "FR_DISK_ERR"]
                 \/ fp' = [fp EXCEPT !.err = "FR_DISK_ERR", !.buf = Junk]
       PROVE  KeepInv' /\ [Contract!Next]_(Contract!apiVars)
  <2>1. /\ fp'.open = fp.open /\ fp'.id = fp.id /\ fp'.sclust = fp.sclust
        /\ fp'.size = fp.size /\ fp'.err = "FR_DISK_ERR"
    <3>1. CASE fp' = [fp EXCEPT !.err = "FR_DISK_ERR"]
      BY <1>2, <3>1 DEF FilType
    <3>2. CASE fp' = [fp EXCEPT !.err = "FR_DISK_ERR", !.buf = Junk]
      BY <1>2, <3>2 DEF FilType
    <3> QED
      BY <1>12, <3>1, <3>2
  <2>2. failed'
    BY <1>12 DEF Fault
  <2> QED
    BY <1>1, <1>12, <2>1, <2>2, ReadFails
<1>13. ASSUME OnSector, base # 0, call.n \div SS > 0, Advance(sect, 0, whole, fp)
       PROVE  KeepInv' /\ [Contract!Next]_(Contract!apiVars)
  <2>1. /\ whole \in Nat /\ whole > 0 /\ whole <= call.n
        /\ (fp.fptr % ClusterBytes(vol)) + whole <= ClusterBytes(vol)
    BY <1>1, <1>2, <1>13, RestOfCluster DEF OnSector, Csect, WholeSectors, whole
  <2>2. fp.fptr % SS = 0 /\ fp.clust \in Clusters(vol)
    BY <1>5, <1>13 DEF OnSector
  <2> QED
    BY <1>1, <1>2, <1>13, <2>1, <2>2, ReadAdvances
<1>14. ASSUME OnSector, base # 0, fp.sect = sect, Advance(fp.buf, 0, rest, fp)
       PROVE  KeepInv' /\ [Contract!Next]_(Contract!apiVars)
  <2>1. fp.fptr % SS = 0 /\ fp.clust \in Clusters(vol) /\ fp.buf = sect
    BY <1>5, <1>10, <1>14 DEF OnSector
  <2> QED
    BY <1>1, <1>2, <1>7, <1>14, <2>1, ReadAdvances
<1>15. ASSUME OnSector, base # 0, Advance(sect, 0, rest, read)
       PROVE  KeepInv' /\ [Contract!Next]_(Contract!apiVars)
  <2>1. fp.fptr % SS = 0 /\ fp.clust \in Clusters(vol)
    BY <1>5, <1>15 DEF OnSector
  <2> QED
    BY <1>1, <1>2, <1>7, <1>8, <1>15, <2>1, ReadAdvances
<1>16. ASSUME ~OnSector, Advance(fp.buf, fp.fptr % SS, rest, fp)
       PROVE  KeepInv' /\ [Contract!Next]_(Contract!apiVars)
  <2>1. fp.clust \in Clusters(vol) /\ fp.buf = sect
    BY <1>3, <1>9, <1>16 DEF OnSector
  <2> QED
    BY <1>1, <1>2, <1>7, <1>16, <2>1, ReadAdvances
<1>17. \/ OnSector /\ base = 0 /\ Abort("FR_INT_ERR") /\ UNCHANGED <<call, got, failed>>
       \/ /\ Return("FR_DISK_ERR") /\ Fault("read") /\ UNCHANGED <<call, got>>
          /\ \/ fp' = [fp EXCEPT !.err = "FR_DISK_ERR"]
             \/ fp' = [fp EXCEPT !.err = "FR_DISK_ERR", !.buf = Junk]
       \/ OnSector /\ base # 0 /\ call.n \div SS > 0 /\ Advance(sect, 0, whole, fp)
       \/ OnSector /\ base # 0 /\ fp.sect = sect /\ Advance(fp.buf, 0, rest, fp)
       \/ OnSector /\ base # 0 /\ Advance(sect, 0, rest, read)
       \/ ~OnSector /\ Advance(fp.buf, fp.fptr % SS, rest, fp)
  BY Zenon DEF ReadSector, Abort, base, sect, rest, whole, read
<1> QED
  BY <1>11, <1>12, <1>13, <1>14, <1>15, <1>16, <1>17

-----------------------------------------------------------------------------
(* A seek goes on, ends, or fails.                                         *)
Seeking ==
  /\ pc \in {"seek", "follow"} /\ res = "RUNNING" /\ fp.open /\ fp.err = "FR_OK"
  /\ call.q.op = "seek" /\ Good /\ call.err = "FR_OK" /\ fp.id <= fs.id /\ got = <<>>
SameFile ==
  /\ vol' = vol /\ fs' = fs /\ got' = got
  /\ call'.q = call.q /\ call'.err = call.err /\ call'.fptr = call.fptr
  /\ fp'.open = fp.open /\ fp'.id = fp.id /\ fp'.sclust = fp.sclust /\ fp'.size = fp.size

LEMMA SeekGoesOn ==
  ASSUME Invs, Seeking, SameFile, fp'.err = fp.err, pc' = "follow", res' = res,
         ClusterInv', SeekInv'
  PROVE  KeepInv' /\ [Contract!Next]_(Contract!apiVars)
<1>1. CallInv' /\ ReadInv' /\ FindInv'
  BY DEF Seeking, SameFile, CallInv, ReadInv, FindInv, ServedBy, Good
<1>2. CauseInv'
  BY ErrorsCaused, KeptCause DEF Seeking, SameFile, Invs, KeepInv
<1>3. ApiHandle' = ApiHandle /\ ApiData' = ApiData
  BY DEF Seeking, SameFile, ApiHandle, ApiData, Good, Held
<1>4. [Contract!Next]_(Contract!apiVars)
  BY <1>3, ApiStutters DEF SameFile
<1> QED
  BY <1>1, <1>2, <1>4 DEF KeepInv

LEMMA SeekIsOver ==
  ASSUME Invs, Seeking, SameFile, fp'.err = fp.err, Return("FR_OK"), ClusterInv',
         \/ fp'.fptr = Smaller(call.q.n, fp.size)
         \/ FileBytes(vol, fp.sclust, fp.size) = <<>> /\ fp'.fptr = call.fptr
  PROVE  KeepInv' /\ [Contract!Next]_(Contract!apiVars)
<1>1. pc' = "idle" /\ res' = "FR_OK" /\ Good'
  BY DEF Return, Seeking, SameFile, Good
<1>2. CallInv' /\ ReadInv' /\ FindInv' /\ SeekInv'
  BY <1>1 DEF Seeking, SameFile, CallInv, ReadInv, FindInv, SeekInv
<1>3. CauseInv'
  BY <1>1, ErrorsCaused, KeptCause DEF Seeking, SameFile, Invs, KeepInv
<1> DEFINE file == FileOf(vol, fp.sclust, fp.size)
<1>4. /\ ApiHandle = [good |-> TRUE, file |-> file, err |-> "FR_OK", pos |-> call.fptr]
      /\ ApiHandle' = [good |-> TRUE, file |-> file, err |-> "FR_OK", pos |-> fp'.fptr]
      /\ ApiData' = <<>>
  BY <1>1 DEF Seeking, SameFile, ApiHandle, ApiData, Held
<1>5. file.size = fp.size /\ file.bytes = FileBytes(vol, fp.sclust, fp.size)
  BY DEF FileOf
<1> HIDE DEF file
<1>6. ApiHandle.good /\ ApiHandle.err = "FR_OK" /\ ApiHandle.file = file
  BY <1>4
<1>7. ApiHandle' = [ApiHandle EXCEPT !.pos = fp'.fptr]
  BY <1>4, HandleMoved
<1>8. \/ ApiHandle' = [ApiHandle EXCEPT !.pos = Smaller(call.q.n, ApiHandle.file.size)]
      \/ ApiHandle.file.bytes = <<>> /\ ApiHandle' = ApiHandle
  <2>1. CASE fp'.fptr = Smaller(call.q.n, fp.size)
    BY <1>5, <1>6, <1>7, <2>1
  <2>2. CASE FileBytes(vol, fp.sclust, fp.size) = <<>> /\ fp'.fptr = call.fptr
    BY <1>4, <1>5, <1>6, <2>2
  <2> QED
    BY <2>1, <2>2
<1>9. Serving("seek")
  BY DEF Serving, Seeking, SameFile
<1>10. [Contract!Next]_(Contract!apiVars)
  BY <1>1, <1>4, <1>6, <1>8, <1>9, ApiSeeks
<1> QED
  BY <1>2, <1>3, <1>10 DEF KeepInv

LEMMA SeekFails ==
  ASSUME Invs, Seeking, SameFile, NEW r \in {"FR_DISK_ERR", "FR_INT_ERR"}, Return(r),
         fp'.err = r,
         r = "FR_INT_ERR" => vol \notin Sound,
         r = "FR_DISK_ERR" => failed'
  PROVE  KeepInv' /\ [Contract!Next]_(Contract!apiVars)
<1>1. pc' = "idle" /\ res' = r /\ Good' /\ r # "FR_OK" /\ fp'.open
  BY DEF Return, Seeking, SameFile, Good
<1>2. CallInv' /\ ClusterInv' /\ ReadInv' /\ SeekInv' /\ FindInv'
  BY <1>1, KeptAtEnd DEF Seeking, SameFile, Invs, KeepInv
<1>3. ErrorsHaveCause'
  BY <1>1, ErrorsCaused DEF SameFile
<1>4. CauseInv'
  BY <1>1, <1>3, KeptCause DEF Seeking, SameFile, Invs, KeepInv
<1> DEFINE file == FileOf(vol, fp.sclust, fp.size)
<1>5. /\ ApiHandle = [good |-> TRUE, file |-> file, err |-> "FR_OK", pos |-> call.fptr]
      /\ ApiHandle' = [good |-> TRUE, file |-> file, err |-> res', pos |-> 0]
      /\ ApiData' = <<>>
  BY <1>1 DEF Seeking, SameFile, ApiHandle, ApiData, Held
<1> HIDE DEF file
<1>6. ApiHandle.good /\ ApiHandle.err = "FR_OK" /\ ApiHandle.file = file
  BY <1>5
<1>7. ApiHandle' = [ApiHandle EXCEPT !.err = res', !.pos = 0]
  BY <1>5, HandleSpoilt
<1>8. res' \in Failures /\ Serving("seek")
  BY <1>1 DEF Failures, Serving, Seeking, SameFile
<1>9. [Contract!Next]_(Contract!apiVars)
  BY <1>5, <1>6, <1>7, <1>8, ApiSeeks
<1> QED
  BY <1>2, <1>4, <1>9 DEF KeepInv

(* A file whose first cluster is none of the volume's has no bytes.        *)
LEMMA EmptyFile ==
  ASSUME NEW v \in Volumes, NEW first, first \notin Clusters(v), NEW size \in Nat
  PROVE  FileBytes(v, first, size) = <<>>
<1>1. FileByte(v, first, 0) = <<0, 0>>
  <2>1. 0 \div ClusterBytes(v) = 0
    <3> DEFINE CB == ClusterBytes(v)
    <3>1. CB \in Nat \ {0}
      BY VolumeNumbers
    <3> HIDE DEF CB
    <3>2. 0 \div CB = 0
      BY <3>1
    <3> QED
      BY <3>2 DEF CB
  <2>2. Link(v, first, 0 \div ClusterBytes(v)) = 0
    BY <2>1, FirstLink
  <2> QED
    BY <2>2, NoByte
<1>2. PICK n \in 0 .. size :
        /\ \A i \in 0 .. n - 1 : FileByte(v, first, i) # <<0, 0>>
        /\ FileBytes(v, first, size) = BytesFrom(v, first, 0, n)
  BY FileBytesAre
<1>3. n = 0
  BY <1>1, <1>2
<1>4. BytesFrom(v, first, 0, 0) = <<>>
  BY DEF BytesFrom
<1> QED
  BY <1>2, <1>3, <1>4

-----------------------------------------------------------------------------
(* f_lseek begins: the position is in the file's current cluster or in a   *)
(* later one of its chain; or at its beginning.                            *)
LEMMA SeekKeeps ==
  ASSUME Invs, FLseek
  PROVE  KeepInv' /\ [Contract!Next]_(Contract!apiVars)
<1> DEFINE CB == ClusterBytes(vol)
           ofs == Smaller(call.n, fp.size)
           here == fp.fptr > 0 /\ SameOrLater(ofs, fp.fptr)
           from == IF here THEN (fp.fptr - 1) - ((fp.fptr - 1) % CB) ELSE 0
           clst == IF here THEN fp.clust ELSE fp.sclust
           Goal == KeepInv' /\ [Contract!Next]_(Contract!apiVars)
<1>1. /\ vol' = vol /\ fs' = fs /\ got' = got /\ pc = "seek" /\ vol \in Volumes
      /\ res = "RUNNING" /\ call.q.op = "seek" /\ got = <<>> /\ call.n = call.q.n
      /\ call.fptr = fp.fptr /\ call.err = fp.err /\ fp.id <= fs.id
      /\ fp \in FilType /\ call \in CallType
      /\ fp.fptr \in Nat /\ fp.sclust \in Nat /\ fp.clust \in Nat
      /\ fp.size \in Nat /\ call.n \in Nat
  BY FilFields, CallChanges
     DEF FLseek, Invs, CursorsInv, TypeInv, KeepInv, CallInv, ServedBy
<1>2. ASSUME ~MayUse, Refuse, call' = call
      PROVE  Goal
  BY <1>1, <1>2, RefuseKeeps
<1>3. ASSUME MayUse
      PROVE  /\ Seeking
             /\ fp.fptr > 0 => Known(fp) /\ OnChain(fp, (fp.fptr - 1) \div CB)
  <2>1. Good /\ fp.open /\ fp.err = "FR_OK"
    BY <1>3, ValidIsGood DEF MayUse, Valid
  <2> QED
    BY <1>1, <2>1 DEF Seeking, Invs, CursorsInv, CursorInv, Resting, KeepInv, ClusterInv
<1>4. ofs \in Nat /\ ofs = Smaller(call.q.n, fp.size)
  BY <1>1 DEF Smaller
<1> HIDE DEF ofs, from, CB, Goal
<1>5. ASSUME MayUse, ofs = 0, fp' = [fp EXCEPT !.fptr = 0], Return("FR_OK"), UNCHANGED call
      PROVE  Goal
  <2>1. SameFile /\ fp'.err = fp.err /\ fp'.fptr = 0 /\ pc' = "idle"
    BY <1>1, <1>5 DEF SameFile, FilType, Return
  <2>2. ClusterInv'
    <3>1. fp'.fptr % SS = 0
      BY <2>1, FatAssumption
    <3> QED
      BY <2>1, <3>1 DEF ClusterInv
  <2> QED
    BY <1>3, <1>4, <1>5, <2>1, <2>2, SeekIsOver DEF Goal
<1>6. ASSUME MayUse, clst = 0, fp' = [fp EXCEPT !.fptr = from, !.clust = 0],
             Return("FR_OK"), UNCHANGED call
      PROVE  Goal
  <2>1. 0 \notin Clusters(vol)
    BY DEF Clusters
  <2>2. fp.sclust = 0
    BY <1>3, <1>6, <2>1 DEF Known
  <2>3. fp.fptr = 0
    <3> SUFFICES ASSUME fp.fptr > 0 PROVE FALSE
      BY <1>1
    <3>1. fp.clust \in Clusters(vol)
      BY <1>3, <1>6, <2>2 DEF Known
    <3>2. (fp.fptr - 1) \div CB \in Nat
      <4> DEFINE b == fp.fptr - 1
      <4>1. b \in Nat /\ CB \in Nat \ {0}
        BY <1>1, VolumeNumbers DEF CB
      <4> HIDE DEF b
      <4>2. b \div CB \in Nat
        BY <4>1, DivMod
      <4> QED
        BY <4>2 DEF b
    <3>3. Link(vol, fp.sclust, 0) = 0
      BY <2>1, <2>2, FirstLink
    <3>4. Link(vol, fp.sclust, (fp.fptr - 1) \div CB) = 0
      <4> DEFINE k == (fp.fptr - 1) \div CB
      <4>1. k \in Nat /\ k >= 0
        BY <3>2
      <4> HIDE DEF k
      <4>2. Link(vol, fp.sclust, k) = 0
        BY <3>3, <4>1, EndedChain
      <4> QED
        BY <4>2 DEF k
    <3> QED
      BY <1>3, <1>6, <2>1, <3>1, <3>4 DEF OnChain
  <2>4. from = 0
    BY <2>3 DEF from
  <2>5. SameFile /\ fp'.err = fp.err /\ fp'.fptr = 0 /\ pc' = "idle"
    BY <1>1, <1>6, <2>4 DEF SameFile, FilType, Return
  <2>6. ClusterInv'
    <3>1. fp'.fptr % SS = 0
      BY <2>5, FatAssumption
    <3> QED
      BY <2>5, <3>1 DEF ClusterInv
  <2>7. FileBytes(vol, fp.sclust, fp.size) = <<>>
    BY <1>1, <2>1, <2>2, EmptyFile
  <2> QED
    BY <1>1, <1>3, <1>6, <2>3, <2>5, <2>6, <2>7, SeekIsOver DEF Goal
<1>7. ASSUME MayUse, ofs > 0, clst # 0, fp' = [fp EXCEPT !.fptr = from, !.clust = clst],
             call' = [call EXCEPT !.n = ofs - from], Continue("follow")
      PROVE  Goal
  <2>1. from \in Nat
    <3>1. CASE here
      <4> DEFINE b == fp.fptr - 1
      <4>1. b \in Nat /\ CB \in Nat \ {0} /\ from = b - (b % CB)
        BY <1>1, <3>1, VolumeNumbers DEF CB, from
      <4> HIDE DEF b
      <4>2. b - (b % CB) \in Nat
        BY <4>1, RoundedDown
      <4> QED
        BY <4>1, <4>2
    <3>2. CASE ~here
      BY <3>2 DEF from
    <3> QED
      BY <3>1, <3>2
  <2>2. /\ SameFile /\ fp'.err = fp.err /\ fp'.fptr = from /\ fp'.clust = clst
        /\ pc' = "follow" /\ res' = res /\ call'.n = ofs - from
    BY <1>1, <1>7 DEF SameFile, FilType, CallType, Continue
  <2>3. Known(fp)'
    BY <1>1, <1>3, <1>7, <2>2 DEF Known, SameFile
  <2>4. ClusterInv'
    BY <2>2, <2>3 DEF ClusterInv
  <2>5. SeekInv'
    BY <1>1, <1>4, <2>1, <2>2 DEF SeekInv, SameFile
  <2> QED
    BY <1>3, <1>7, <2>2, <2>4, <2>5, SeekGoesOn DEF Goal
<1>8. \/ ~MayUse /\ Refuse /\ UNCHANGED call
      \/ /\ MayUse /\ ofs = 0
         /\ fp' = [fp EXCEPT !.fptr = 0] /\ Return("FR_OK") /\ UNCHANGED call
      \/ /\ MayUse /\ clst = 0
         /\ fp' = [fp EXCEPT !.fptr = from, !.clust = 0]
         /\ Return("FR_OK") /\ UNCHANGED call
      \/ /\ MayUse /\ ofs > 0 /\ clst # 0
         /\ fp' = [fp EXCEPT !.fptr = from, !.clust = clst]
         /\ call' = [call EXCEPT !.n = ofs - from] /\ Continue("follow")
  BY Zenon DEF FLseek, CB, ofs, from
<1> QED
  BY <1>2, <1>5, <1>6, <1>7, <1>8 DEF Goal

(* The state at the loop of f_lseek.                                       *)
LEMMA AtLoop ==
  ASSUME Invs, pc = "follow"
  PROVE  /\ Seeking /\ Known(fp) /\ OnChain(fp, fp.fptr \div ClusterBytes(vol))
         /\ fp.fptr + call.n = Smaller(call.q.n, fp.size) /\ fp.fptr + call.n <= fp.size
         /\ fp.fptr % ClusterBytes(vol) = 0 /\ call.n > 0
         /\ vol \in Volumes /\ fp \in FilType /\ call \in CallType
         /\ fp.fptr \in Nat /\ fp.clust \in Nat /\ fp.size \in Nat /\ call.n \in Nat
<1>1. vol \in Volumes /\ fp \in FilType /\ call \in CallType
  BY DEF Invs, CursorsInv, TypeInv
<1>2. fp.fptr \in Nat /\ fp.clust \in Nat /\ fp.size \in Nat /\ call.n \in Nat
  BY <1>1, FilFields, CallChanges
<1> QED
  BY <1>1, <1>2
     DEF Invs, CursorsInv, TypeInv, InFile, CursorInv, AtFollow, KeepInv, CallInv, ClusterInv,
         SeekInv, Seeking, ServedBy

(* One pass of the loop.                                                   *)
LEMMA FollowKeeps ==
  ASSUME Invs, SeekFollow
  PROVE  KeepInv' /\ [Contract!Next]_(Contract!apiVars)
<1> DEFINE CB == ClusterBytes(vol)
           f == [fp EXCEPT !.fptr = fp.fptr + CB]
           k == fp.fptr \div CB
           Goal == KeepInv' /\ [Contract!Next]_(Contract!apiVars)
<1>1. /\ pc = "follow" /\ vol' = vol /\ fs' = fs /\ got' = got /\ call.n > CB
      /\ call' = [call EXCEPT !.n = call.n - CB]
  BY DEF SeekFollow
<1>2. /\ Seeking /\ Known(fp) /\ OnChain(fp, k)
      /\ fp.fptr + call.n = Smaller(call.q.n, fp.size) /\ fp.fptr + call.n <= fp.size
      /\ fp.fptr % CB = 0 /\ vol \in Volumes /\ fp \in FilType /\ call \in CallType
      /\ fp.fptr \in Nat /\ fp.clust \in Nat /\ fp.size \in Nat /\ call.n \in Nat
  BY <1>1, AtLoop
<1>3. TypeInv /\ WindowTrue /\ CauseInv
  BY DEF Invs, IInv, CursorsInv, KeepInv
<1>4. PICK clst \in FatValues(vol) :
        /\ GetFat(fp.clust, clst)
        /\ CASE clst = DISK_ERR -> Return("FR_DISK_ERR") /\ fp' = [f EXCEPT !.err = "FR_DISK_ERR"]
             [] clst \notin Clusters(vol) /\ clst # DISK_ERR ->
                  Return("FR_INT_ERR") /\ fp' = [f EXCEPT !.err = "FR_INT_ERR"]
             [] OTHER -> Continue("follow") /\ fp' = [f EXCEPT !.clust = clst]
  BY Zenon DEF SeekFollow
<1>5. CB \in Nat \ {0}
  BY <1>2, VolumeNumbers
<1>6. k \in Nat /\ (fp.fptr + CB) \div CB = k + 1
  <2> DEFINE p == fp.fptr
  <2>1. p \in Nat /\ CB \in Nat /\ CB \in Nat \ {0} /\ (p % CB) + CB = CB
    BY <1>2, <1>5
  <2> HIDE DEF p, CB
  <2>2. (p + CB) \div CB = p \div CB + 1 /\ p \div CB \in Nat
    BY <2>1, StepInside, DivMod
  <2> QED
    BY <2>2 DEF p
<1>7. /\ f \in FilType /\ f.fptr = fp.fptr + CB /\ f.size = fp.size /\ f.sclust = fp.sclust
      /\ f.open = fp.open /\ f.err = fp.err /\ f.id = fp.id
  BY <1>2, <1>5 DEF FilType
<1> HIDE DEF f, CB, k, Goal
<1>8. /\ call'.n = call.n - CB /\ call'.q = call.q /\ call'.err = call.err
      /\ call'.fptr = call.fptr
  BY <1>1, <1>2 DEF CallType
<1>9. ASSUME NEW r \in {"FR_DISK_ERR", "FR_INT_ERR"}, fp' = [f EXCEPT !.err = r]
      PROVE  SameFile /\ fp'.err = r
  BY <1>1, <1>7, <1>8, <1>9 DEF SameFile, FilType
<1>10. ASSUME clst = DISK_ERR, Return("FR_DISK_ERR"), fp' = [f EXCEPT !.err = "FR_DISK_ERR"]
       PROVE  Goal
  <2>1. failed'
    <3>1. Fault("read")
      BY <1>2, <1>3, <1>4, <1>10, EntryRead DEF TypeInv
    <3> QED
      BY <3>1 DEF Fault
  <2> QED
    BY <1>2, <1>9, <1>10, <2>1, SeekFails DEF Goal
<1>11. ASSUME clst \notin Clusters(vol), clst # DISK_ERR,
              Return("FR_INT_ERR"), fp' = [f EXCEPT !.err = "FR_INT_ERR"]
       PROVE  Goal
  <2>1. Link(vol, fp.sclust, k + 1) = 0
    BY <1>2, <1>3, <1>4, <1>6, <1>11, ChainEndsHere
  <2>2. Link(vol, fp.sclust, (fp.fptr + CB) \div ClusterBytes(vol)) = 0
    BY <1>6, <2>1 DEF CB
  <2>3. fp.fptr + CB \in Nat /\ fp.fptr + CB < fp.size
    BY <1>1, <1>2, <1>5
  <2>4. vol \notin Sound
    BY <1>2, <1>3, <2>2, <2>3, UnsoundFile DEF Seeking
  <2> QED
    BY <1>2, <1>9, <1>11, <2>4, SeekFails DEF Goal
<1>12. ASSUME clst \in Clusters(vol), Continue("follow"), fp' = [f EXCEPT !.clust = clst]
       PROVE  Goal
  <2>1. /\ SameFile /\ fp'.err = fp.err /\ fp'.fptr = fp.fptr + CB /\ fp'.clust = clst
        /\ pc' = "follow" /\ res' = res
    BY <1>1, <1>7, <1>8, <1>12 DEF SameFile, FilType, Continue
  <2>2. ClusterInv'
    BY <1>1, <1>12, <2>1 DEF ClusterInv, Known
  <2>3. SeekInv'
    BY <1>2, <1>5, <1>8, <2>1 DEF SeekInv, SameFile
  <2> QED
    BY <1>2, <2>1, <2>2, <2>3, SeekGoesOn DEF Goal
<1> QED
  BY <1>4, <1>10, <1>11, <1>12 DEF Goal

(* The rest of f_lseek.                                                    *)
LEMMA SeekSectorKeeps ==
  ASSUME Invs, SeekSector
  PROVE  KeepInv' /\ [Contract!Next]_(Contract!apiVars)
<1> DEFINE CB == ClusterBytes(vol)
           f == [fp EXCEPT !.fptr = fp.fptr + call.n]
           base == Clst2Sect(vol, fp.clust)
           nsect == base + call.n \div SS
           Goal == KeepInv' /\ [Contract!Next]_(Contract!apiVars)
<1>1. /\ pc = "follow" /\ vol' = vol /\ fs' = fs /\ got' = got /\ call' = call
  BY DEF SeekSector
<1>2. /\ Seeking /\ Known(fp) /\ OnChain(fp, fp.fptr \div CB)
      /\ fp.fptr + call.n = Smaller(call.q.n, fp.size) /\ fp.fptr + call.n <= fp.size
      /\ fp.fptr % CB = 0 /\ call.n > 0
      /\ vol \in Volumes /\ fp \in FilType /\ call \in CallType
      /\ fp.fptr \in Nat /\ fp.clust \in Nat /\ fp.size \in Nat /\ call.n \in Nat
  BY <1>1, AtLoop
<1>3. TypeInv /\ CauseInv
  BY DEF Invs, CursorsInv, KeepInv
<1>4. base = 0 <=> fp.clust \notin Clusters(vol)
  BY <1>2, SectorOfCluster
<1>5. CB \in Nat \ {0} /\ fp.fptr % SS = 0 /\ SS \in Nat \ {0}
  BY <1>2, VolumeNumbers, WholeClusters, FatAssumption
<1>6. (fp.fptr + call.n) % SS = call.n % SS
  BY <1>2, <1>5, Multiples
<1>7. /\ f \in FilType /\ f.fptr = fp.fptr + call.n /\ f.size = fp.size /\ f.sclust = fp.sclust
      /\ f.open = fp.open /\ f.err = fp.err /\ f.id = fp.id /\ f.clust = fp.clust
  BY <1>2 DEF FilType
<1> HIDE DEF f, base, nsect, Goal
<1>8. ASSUME call.n % SS # 0, base = 0, fp' = [f EXCEPT !.err = "FR_INT_ERR"],
             Return("FR_INT_ERR")
      PROVE  Goal
  <2>1. Link(vol, fp.sclust, fp.fptr \div CB) = 0
    <3> DEFINE k == fp.fptr \div CB
    <3>1. k \in Nat
      BY <1>2, <1>5, DivMod
    <3> HIDE DEF k
    <3>2. Link(vol, fp.sclust, k) = 0
      BY <1>2, <1>4, <1>8, <3>1, NoCluster
    <3> QED
      BY <3>2 DEF k
  <2>2. fp.fptr < fp.size
    BY <1>2
  <2>3. vol \notin Sound
    BY <1>2, <1>3, <2>1, <2>2, UnsoundFile DEF Seeking
  <2>4. SameFile /\ fp'.err = "FR_INT_ERR"
    BY <1>1, <1>7, <1>8 DEF SameFile, FilType
  <2> QED
    BY <1>2, <1>8, <2>3, <2>4, SeekFails DEF Goal
<1>9. ASSUME fp' = [f EXCEPT !.err = "FR_DISK_ERR", !.buf = Junk],
             Return("FR_DISK_ERR"), Fault("read")
      PROVE  Goal
  <2>1. SameFile /\ fp'.err = "FR_DISK_ERR" /\ failed'
    BY <1>1, <1>7, <1>9 DEF SameFile, FilType, Fault
  <2> QED
    BY <1>2, <1>9, <2>1, SeekFails DEF Goal
<1>10. ASSUME Return("FR_OK"), call.n % SS = 0 \/ base # 0,
              fp' = f \/ fp' = [f EXCEPT !.sect = nsect, !.buf = nsect]
       PROVE  Goal
  <2>1. /\ fp'.open = f.open /\ fp'.id = f.id /\ fp'.sclust = f.sclust /\ fp'.size = f.size
        /\ fp'.err = f.err /\ fp'.fptr = f.fptr /\ fp'.clust = f.clust
    <3>1. CASE fp' = f
      BY <3>1
    <3>2. CASE fp' = [f EXCEPT !.sect = nsect, !.buf = nsect]
      BY <1>7, <3>2 DEF FilType
    <3> QED
      BY <1>10, <3>1, <3>2
  <2>2. SameFile /\ fp'.err = fp.err /\ pc' = "idle"
    BY <1>1, <1>7, <1>10, <2>1 DEF SameFile, Return
  <2>3. Known(fp)'
    BY <1>1, <1>2, <1>7, <2>1 DEF Known
  <2>4. fp'.fptr % SS # 0 => fp'.clust \in Clusters(vol)
    BY <1>4, <1>6, <1>7, <1>10, <2>1
  <2>5. ClusterInv'
    BY <1>1, <2>2, <2>3, <2>4 DEF ClusterInv
  <2>6. fp'.fptr = Smaller(call.q.n, fp.size)
    BY <1>2, <1>7, <2>1
  <2> QED
    BY <1>2, <1>10, <2>2, <2>5, <2>6, SeekIsOver DEF Goal
<1>11. \/ /\ call.n % SS # 0 /\ base = 0 /\ fp' = [f EXCEPT !.err = "FR_INT_ERR"]
          /\ Return("FR_INT_ERR")
       \/ /\ fp' = [f EXCEPT !.err = "FR_DISK_ERR", !.buf = Junk]
          /\ Return("FR_DISK_ERR") /\ Fault("read")
       \/ /\ Return("FR_OK") /\ (call.n % SS = 0 \/ base # 0)
          /\ fp' = f \/ fp' = [f EXCEPT !.sect = nsect, !.buf = nsect]
  BY Zenon DEF SeekSector, f, base, nsect
<1> QED
  BY <1>8, <1>9, <1>10, <1>11 DEF Goal

-----------------------------------------------------------------------------
(* The contract is kept: by every step, and at the beginning.              *)
LEMMA InitKept == Init => KeepInv /\ Contract!Init
<1> SUFFICES ASSUME Init PROVE KeepInv /\ Contract!Init
  OBVIOUS
<1>1. /\ pc = "idle" /\ res = "NONE" /\ got = <<>> /\ failed = FALSE
      /\ ~fp.open /\ fp.id = 0 /\ fs.id = 0 /\ call.q \in Requests
  BY DEF Init
<1>2. CallInv /\ ClusterInv
  BY <1>1 DEF CallInv, ClusterInv
<1>3. ReadInv /\ SeekInv /\ FindInv /\ CauseInv
  BY <1>1 DEF ReadInv, SeekInv, FindInv, CauseInv, ErrorsHaveCause
<1>4. ApiHandle = Lost /\ ApiData = <<>>
  BY <1>1 DEF ApiHandle, ApiData, Good
<1>5. Contract!Init
  BY <1>1, <1>4 DEF ApiHandle, ApiData, Lost, Held, Contract!Init, Contract!NoHandle
<1> QED
  BY <1>2, <1>3, <1>5 DEF KeepInv

LEMMA NothingHappens ==
  ASSUME Invs, UNCHANGED vars
  PROVE  KeepInv' /\ [Contract!Next]_(Contract!apiVars)
<1>1. /\ vol' = vol /\ fs' = fs /\ fp' = fp /\ dp' = dp /\ pc' = pc /\ call' = call
      /\ res' = res /\ got' = got /\ failed' = failed
  BY DEF vars
<1>2. CallInv' /\ ClusterInv' /\ ReadInv' /\ SeekInv'
  BY <1>1 DEF Invs, KeepInv, CallInv, ServedBy, ClusterInv, ReadInv, SeekInv, Good, Known
<1>3. FindInv'
  BY <1>1 DEF Invs, KeepInv, FindInv
<1>4. CauseInv'
  BY <1>1 DEF Invs, KeepInv, CauseInv, ErrorsHaveCause
<1>5. ApiHandle' = ApiHandle /\ ApiData' = ApiData
  BY <1>1 DEF ApiHandle, ApiData, Good, Held, Lost
<1>6. [Contract!Next]_(Contract!apiVars)
  BY <1>1, <1>5, ApiStutters
<1> QED
  BY <1>2, <1>3, <1>4, <1>6 DEF KeepInv

LEMMA EveryStepKeeps ==
  ASSUME Invs, [Next]_vars
  PROVE  KeepInv' /\ [Contract!Next]_(Contract!apiVars)
BY NothingHappens, CallKeeps, MountKeeps, UnmountKeeps, OpenKeeps, FindKeeps, NextKeeps, ReadKeeps,
   ClusterKeeps, SectorKeeps, SeekKeeps, FollowKeeps, SeekSectorKeeps, CloseKeeps
   DEF Next, Step

THEOREM KeepInvariance == Spec => []Invs
<1>1. Init => KeepInv
  BY InitKept
<1>2. IInv /\ CursorsInv /\ KeepInv /\ [Next]_vars => KeepInv'
  BY EveryStepKeeps DEF Invs
<1>3. IInv /\ CursorsInv /\ KeepInv <=> Invs
  BY DEF Invs
<1> QED
  BY <1>1, <1>2, <1>3, Invariance, CursorsInvariance, PTL DEF Spec

(* FatFs implements FileApi, on every volume, for every request and        *)
(* whatever fails: the file opened is the one under the path, the bytes    *)
(* read are its next ones, and a file an error has spoilt gives no more.   *)
THEOREM ContractIsKept == Spec => KeepsContract
<1>1. Init => Contract!Init
  BY InitKept
<1>2. Invs /\ [Next]_vars => [Contract!Next]_(Contract!apiVars)
  BY EveryStepKeeps
<1> QED
  BY <1>1, <1>2, KeepInvariance, PTL DEF Spec, KeepsContract, Contract!Spec

(* An error the program is told of is one that happened.                   *)
THEOREM ErrorsAreCaused == Spec => []ErrorsHaveCause
<1>1. Invs => ErrorsHaveCause
  BY DEF Invs, KeepInv, CauseInv
<1> QED
  BY <1>1, KeepInvariance, PTL

-----------------------------------------------------------------------------
(* Names: that what create_name has written is what the characters it has*)
(* read stand for.                                                       *)

(* A sequence of sequences, joined: FlattenSeq is the last element of a  *)
(* function defined by recursion.                                        *)
FlatStep(s, F, j) == IF j = 1 THEN s[j] ELSE Joined(F[j - 1], s[j])
IsFlat(s, n, F) == F = [j \in 1 .. n |-> FlatStep(s, F, j)]

(* That function exists, ...                                             *)
LEMMA FlatExists ==
  ASSUME NEW s, NEW n \in Nat
  PROVE  \E F : IsFlat(s, n, F)
<1> DEFINE T == {k \in Nat : \E F : IsFlat(s, k, F)}
<1>1. 0 \in T
  <2> DEFINE F == [j \in 1 .. 0 |-> 0]
  <2>1. F = [j \in 1 .. 0 |-> FlatStep(s, F, j)]
    OBVIOUS
  <2>2. IsFlat(s, 0, F)
    BY <2>1 DEF IsFlat
  <2> QED
    BY <2>2
<1>2. ASSUME NEW k \in Nat, k \in T PROVE k + 1 \in T
  <2>1. PICK F : IsFlat(s, k, F)
    BY <1>2
  <2> DEFINE G == [j \in 1 .. k + 1 |-> IF j <= k THEN F[j] ELSE FlatStep(s, F, k + 1)]
  <2>2. \A j \in 1 .. k : G[j] = F[j] /\ F[j] = FlatStep(s, F, j)
    BY <2>1 DEF IsFlat
  <2>3. G[k + 1] = FlatStep(s, F, k + 1)
    OBVIOUS
  <2>4. \A j \in 1 .. k + 1 : FlatStep(s, G, j) = FlatStep(s, F, j)
    <3> SUFFICES ASSUME NEW j \in 1 .. k + 1
                 PROVE  FlatStep(s, G, j) = FlatStep(s, F, j)
      OBVIOUS
    <3> HIDE DEF G
    <3>1. CASE j = 1
      BY <3>1 DEF FlatStep
    <3>2. CASE j # 1
      <4>1. j - 1 \in 1 .. k
        BY <3>2
      <4>2. G[j - 1] = F[j - 1]
        BY <2>2, <4>1
      <4> QED
        BY <4>2 DEF FlatStep
    <3> QED
      BY <3>1, <3>2
  <2>5. \A j \in 1 .. k + 1 : G[j] = FlatStep(s, G, j)
    <3> SUFFICES ASSUME NEW j \in 1 .. k + 1 PROVE G[j] = FlatStep(s, G, j)
      OBVIOUS
    <3> HIDE DEF G
    <3>1. j \in 1 .. k \/ j = k + 1
      OBVIOUS
    <3> QED
      BY <2>2, <2>3, <2>4, <3>1
  <2>6. IsFlat(s, k + 1, G)
    BY <2>5 DEF IsFlat
  <2> QED
    BY <2>6
<1> HIDE DEF T
<1>3. n \in T
  BY <1>1, <1>2, SetInduction
<1> QED
  BY <1>3 DEF T

(* ... satisfies its equation, ...                                       *)
LEMMA FlatValues ==
  ASSUME NEW s, NEW n \in Nat, NEW F, IsFlat(s, n, F)
  PROVE  \A j \in 1 .. n : F[j] = FlatStep(s, F, j)
<1> SUFFICES ASSUME NEW j \in 1 .. n PROVE F[j] = FlatStep(s, F, j)
  OBVIOUS
<1> DEFINE G == [k \in 1 .. n |-> FlatStep(s, F, k)]
<1>1. F = G
  BY DEF IsFlat
<1>2. G[j] = FlatStep(s, F, j)
  OBVIOUS
<1> HIDE DEF G
<1> QED
  BY <1>1, <1>2

(* ... and depends on what is joined only.                               *)
LEMMA FlatsAgree ==
  ASSUME NEW s, NEW t, NEW n \in Nat, NEW m \in Nat, n <= m,
         \A j \in 1 .. n : s[j] = t[j],
         NEW F, NEW G, IsFlat(s, n, F), IsFlat(t, m, G)
  PROVE  \A j \in 1 .. n : F[j] = G[j]
<1> DEFINE T == {j \in Nat : j \in 1 .. n => F[j] = G[j]}
<1>1. \A j \in 1 .. n : F[j] = FlatStep(s, F, j) /\ G[j] = FlatStep(t, G, j)
  <2>1. \A j \in 1 .. n : j \in 1 .. m
    OBVIOUS
  <2> QED
    BY <2>1, FlatValues
<1>2. 0 \in T
  OBVIOUS
<1>3. ASSUME NEW j \in Nat, j \in T PROVE j + 1 \in T
  <2> SUFFICES ASSUME j + 1 \in 1 .. n PROVE F[j + 1] = G[j + 1]
    OBVIOUS
  <2>1. CASE j = 0
    BY <1>1, <2>1 DEF FlatStep
  <2>2. CASE j # 0
    <3>1. j \in 1 .. n /\ (j + 1) - 1 = j /\ j + 1 # 1
      BY <2>2
    <3>2. F[j] = G[j] /\ s[j + 1] = t[j + 1]
      BY <1>3, <3>1
    <3>3. FlatStep(s, F, j + 1) = FlatStep(t, G, j + 1)
      BY <3>1, <3>2 DEF FlatStep
    <3> QED
      BY <1>1, <3>3
  <2> QED
    BY <2>1, <2>2
<1> HIDE DEF T
<1>4. Nat \subseteq T
  BY <1>2, <1>3, SetInduction
<1> QED
  BY <1>4 DEF T

(* FlattenSeq is such a function's last value.                           *)
LEMMA FlattenIs ==
  ASSUME NEW s, NEW n \in Nat, n # 0, Len(s) = n
  PROVE  \E F : IsFlat(s, n, F) /\ N!FlattenSeq(s) = F[n]
<1> DEFINE F == CHOOSE F : IsFlat(s, n, F)
<1>1. N!FlattenSeq(s) = F[n]
  BY DEF N!FlattenSeq, IsFlat, FlatStep, Joined
<1>2. IsFlat(s, n, F)
  BY FlatExists
<1> QED
  BY <1>1, <1>2

(* One more sequence at the end.                                         *)
LEMMA FlattenLonger ==
  ASSUME NEW s, NEW t, NEW n \in Nat, n # 0, Len(s) = n, Len(t) = n + 1,
         \A j \in 1 .. n : s[j] = t[j]
  PROVE  N!FlattenSeq(t) = Joined(N!FlattenSeq(s), t[n + 1])
<1>1. PICK F : IsFlat(s, n, F) /\ N!FlattenSeq(s) = F[n]
  BY FlattenIs
<1>2. PICK m \in Nat : m = n + 1
  OBVIOUS
<1>3. PICK G : IsFlat(t, m, G) /\ N!FlattenSeq(t) = G[m]
  BY <1>2, FlattenIs
<1>4. \A j \in 1 .. n : F[j] = G[j]
  BY <1>1, <1>2, <1>3, FlatsAgree
<1>5. m \in 1 .. m /\ n \in 1 .. n /\ m # 1 /\ m - 1 = n
  BY <1>2
<1>6. G[m] = FlatStep(t, G, m)
  BY <1>3, <1>5, FlatValues
<1> QED
  BY <1>1, <1>2, <1>3, <1>4, <1>5, <1>6 DEF FlatStep

(* One sequence.                                                         *)
LEMMA FlattenOne ==
  ASSUME NEW t, Len(t) = 1
  PROVE  N!FlattenSeq(t) = t[1]
<1>1. PICK n \in Nat : n = 1 /\ n # 0 /\ Len(t) = n /\ n \in 1 .. n
  OBVIOUS
<1>2. PICK G : IsFlat(t, n, G) /\ N!FlattenSeq(t) = G[n]
  BY <1>1, FlattenIs
<1>3. G[n] = FlatStep(t, G, n)
  BY <1>1, <1>2, FlatValues
<1> QED
  BY <1>1, <1>2, <1>3 DEF FlatStep

(* One more sequence is joined at the end.                               *)
LEMMA FlattenAppend ==
  ASSUME NEW C, NEW s \in Seq(Seq(C)), NEW u \in Seq(C)
  PROVE  N!FlattenSeq(Append(s, u)) = Joined(N!FlattenSeq(s), u)
<1> DEFINE t == Append(s, u)
           n == Len(s)
<1>1. n \in Nat /\ Len(t) = n + 1 /\ t[n + 1] = u /\ \A j \in 1 .. n : s[j] = t[j]
  OBVIOUS
<1>2. CASE n = 0
  <2>1. N!FlattenSeq(s) = s /\ s = <<>>
    BY <1>2 DEF N!FlattenSeq
  <2>2. Joined(s, u) = u
    BY <2>1 DEF Joined
  <2> HIDE DEF t
  <2>3. Len(t) = 1 /\ t[1] = u
    BY <1>1, <1>2
  <2>4. N!FlattenSeq(t) = t[1]
    BY <2>3, FlattenOne
  <2> QED
    BY <2>1, <2>2, <2>3, <2>4 DEF t
<1>3. CASE n # 0
  <2> HIDE DEF t, n
  <2>1. Len(s) = n
    BY DEF n
  <2> QED
    BY <1>1, <1>3, <2>1, FlattenLonger DEF t
<1> QED
  BY <1>2, <1>3

(* The characters of a segment: of one byte, or of two.                  *)
FirstBytes == {x \in N!Chars : N!Dbc1st(x)}
Units == {<<x>> : x \in N!Chars} \cup {<<x, y>> : x \in FirstBytes, y \in N!Chars}
Dot == <<".">>
Text == Seq(N!Chars)

(* A character stands for as many bytes as it has.                       *)
LEMMA UnitValue ==
  ASSUME NEW u \in Units
  PROVE  N!Value(u) \in Text /\ Len(N!Value(u)) = Len(u) /\ Len(u) \in {1, 2}
<1>1. CASE u \in {<<x>> : x \in N!Chars}
  <2>1. PICK x \in N!Chars : u = <<x>>
    BY <1>1
  <2>2. Len(u) = 1 /\ u[1] = x
    BY <2>1
  <2>3. N!Upper(x) \in N!Chars
    BY DEF N!Upper, N!Chars
  <2>4. N!Value(u) = <<N!Upper(x)>>
    BY <2>2 DEF N!Value
  <2> QED
    BY <2>2, <2>3, <2>4 DEF Text
<1>2. CASE u \in {<<x, y>> : x \in FirstBytes, y \in N!Chars}
  <2>1. PICK x \in FirstBytes, y \in N!Chars : u = <<x, y>>
    BY <1>2
  <2>2. Len(u) = 2 /\ u \in Text
    BY <2>1 DEF Text, FirstBytes
  <2>3. N!Value(u) = u
    BY <2>2 DEF N!Value
  <2> QED
    BY <2>2, <2>3
<1> QED
  BY <1>1, <1>2 DEF Units

(* No characters are no bytes.                                           *)
LEMMA BytesEmpty == N!Bytes(<<>>) = <<>>
<1>1. [k \in DOMAIN <<>> |-> N!Value(<<>>[k])] = <<>>
  OBVIOUS
<1> QED
  BY <1>1 DEF N!Bytes, N!FlattenSeq

(* The bytes of one more character are put at the end.                   *)
LEMMA BytesAppend ==
  ASSUME NEW us \in Seq(Units), NEW u \in Units
  PROVE  N!Bytes(Append(us, u)) = Joined(N!Bytes(us), N!Value(u))
<1> DEFINE V(ws) == [k \in DOMAIN ws |-> N!Value(ws[k])]
           t == Append(us, u)
<1>1. V(us) \in Seq(Text) /\ N!Value(u) \in Text
  <2>1. \A k \in 1 .. Len(us) : N!Value(us[k]) \in Text
    BY UnitValue
  <2> QED
    BY <2>1, UnitValue
<1>2. Len(t) = Len(us) + 1 /\ DOMAIN t = 1 .. Len(us) + 1 /\ DOMAIN us = 1 .. Len(us)
      /\ t[Len(us) + 1] = u /\ \A k \in 1 .. Len(us) : t[k] = us[k]
  BY AppendProperties
<1>3. Len(us) \in Nat
  OBVIOUS
<1>4. V(t) = Append(V(us), N!Value(u))
  <2>1. Len(V(us)) = Len(us)
    BY <1>2, <1>3
  <2>2. V(t) \in Seq(Text)
    <3>1. \A k \in 1 .. Len(us) + 1 : t[k] \in Units
      BY <1>2, <1>3
    <3>2. \A k \in 1 .. Len(us) + 1 : N!Value(t[k]) \in Text
      BY <3>1, UnitValue
    <3> QED
      BY <3>2, <1>2, <1>3
  <2>3. Len(V(t)) = Len(us) + 1
    BY <1>2, <1>3
  <2> DEFINE w == Append(V(us), N!Value(u))
  <2>4. w \in Seq(Text) /\ Len(w) = Len(us) + 1 /\ w[Len(us) + 1] = N!Value(u)
        /\ \A k \in 1 .. Len(us) : w[k] = V(us)[k]
    BY <1>1, <2>1, AppendProperties
  <2>5. \A k \in 1 .. Len(us) : V(us)[k] = N!Value(us[k]) /\ V(t)[k] = N!Value(t[k])
    BY <1>2, <1>3
  <2>6. V(t)[Len(us) + 1] = N!Value(u)
    BY <1>2, <1>3
  <2> HIDE DEF w, V, t
  <2>7. \A k \in 1 .. Len(us) + 1 : V(t)[k] = w[k]
    <3> SUFFICES ASSUME NEW k \in 1 .. Len(us) + 1 PROVE V(t)[k] = w[k]
      OBVIOUS
    <3>1. k \in 1 .. Len(us) \/ k = Len(us) + 1
      BY <1>3
    <3> QED
      BY <3>1, <1>2, <2>4, <2>5, <2>6
  <2>8. V(t) = w
    BY <2>2, <2>3, <2>4, <2>7, SeqEqual
  <2> QED
    BY <2>8 DEF w
<1>5. N!Bytes(t) = N!FlattenSeq(V(t)) /\ N!Bytes(us) = N!FlattenSeq(V(us))
  BY DEF N!Bytes
<1> HIDE DEF V, t
<1>6. N!FlattenSeq(Append(V(us), N!Value(u))) = Joined(N!FlattenSeq(V(us)), N!Value(u))
  BY <1>1, FlattenAppend DEF Text
<1> QED
  BY <1>4, <1>5, <1>6 DEF t

(* What two joined sequences of bytes are.                               *)
LEMMA JoinedType ==
  ASSUME NEW s \in Text, NEW t \in Text
  PROVE  /\ Joined(s, t) \in Text /\ Len(Joined(s, t)) = Len(s) + Len(t)
         /\ \A k \in 1 .. Len(s) + Len(t) : Joined(s, t)[k] =
              IF k <= Len(s) THEN s[k] ELSE t[k - Len(s)]
BY ConcatProperties DEF Text, Joined

(* The front of a longer sequence, ...                                   *)
LEMMA SubSeqFront ==
  ASSUME NEW S, NEW us \in Seq(S), NEW u \in S, NEW n \in 0 .. Len(us)
  PROVE  SubSeq(Append(us, u), 1, n) = SubSeq(us, 1, n)
<1> DEFINE t == Append(us, u)
<1>1. Len(us) \in Nat /\ \A k \in 1 .. Len(us) : t[k] = us[k] /\ us[k] \in S
  BY AppendProperties
<1> HIDE DEF t
<1>2. /\ SubSeq(t, 1, n) \in Seq(S) /\ Len(SubSeq(t, 1, n)) = n
      /\ \A k \in 1 .. n : SubSeq(t, 1, n)[k] = t[k]
  <2>1. \A k \in 1 .. n : t[k] \in S
    BY <1>1
  <2> QED
    BY <2>1, SubSeqProperties
<1>3. /\ SubSeq(us, 1, n) \in Seq(S) /\ Len(SubSeq(us, 1, n)) = n
      /\ \A k \in 1 .. n : SubSeq(us, 1, n)[k] = us[k]
  <2>1. \A k \in 1 .. n : us[k] \in S
    BY <1>1
  <2> QED
    BY <2>1, SubSeqProperties
<1>4. \A k \in 1 .. n : SubSeq(t, 1, n)[k] = SubSeq(us, 1, n)[k]
  BY <1>1, <1>2, <1>3
<1>5. SubSeq(t, 1, n) = SubSeq(us, 1, n)
  BY <1>2, <1>3, <1>4, SeqEqual
<1> QED
  BY <1>5 DEF t

(* ... and its back.                                                     *)
LEMMA SubSeqBack ==
  ASSUME NEW S, NEW us \in Seq(S), NEW u \in S, NEW m \in 1 .. Len(us) + 1
  PROVE  SubSeq(Append(us, u), m, Len(us) + 1) = Append(SubSeq(us, m, Len(us)), u)
<1> DEFINE t == Append(us, u)
           n == Len(us)
           a == SubSeq(t, m, n + 1)
           b == SubSeq(us, m, n)
<1>1. /\ n \in Nat /\ \A k \in 1 .. n : t[k] = us[k] /\ us[k] \in S
      /\ t[n + 1] = u
  BY AppendProperties
<1> HIDE DEF t, n
<1>2. m \in Nat /\ 1 <= m /\ m <= n + 1
  BY <1>1 DEF n
<1>3. a \in Seq(S) /\ Len(a) = n - m + 2 /\ \A k \in 1 .. n - m + 2 : a[k] = t[m + k - 1]
  <2>1. \A k \in m .. n + 1 : t[k] \in S
    <3> SUFFICES ASSUME NEW k \in m .. n + 1 PROVE t[k] \in S
      OBVIOUS
    <3>1. k \in 1 .. n \/ k = n + 1
      BY <1>1, <1>2
    <3> QED
      BY <1>1, <3>1
  <2>2. n + 1 \in Int /\ m \in Int /\ m <= n + 1 /\ (n + 1) - m + 1 = n - m + 2
    BY <1>1, <1>2
  <2> QED
    BY <2>1, <2>2, SubSeqProperties
<1>4. b \in Seq(S) /\ Len(b) = n - m + 1 /\ \A k \in 1 .. n - m + 1 : b[k] = us[m + k - 1]
  <2>1. \A k \in m .. n : us[k] \in S
    BY <1>1, <1>2
  <2>2. n \in Int /\ m \in Int /\ n - m + 1 = IF m <= n THEN n - m + 1 ELSE 0
    BY <1>1, <1>2
  <2> QED
    BY <2>1, <2>2, SubSeqProperties
<1> HIDE DEF a, b
<1>5. /\ Append(b, u) \in Seq(S) /\ Len(Append(b, u)) = Len(b) + 1
      /\ \A k \in 1 .. Len(b) : Append(b, u)[k] = b[k]
      /\ Append(b, u)[Len(b) + 1] = u
  BY <1>4, AppendProperties
<1>6. \A k \in 1 .. Len(a) : a[k] = Append(b, u)[k]
  <2> SUFFICES ASSUME NEW k \in 1 .. Len(a) PROVE a[k] = Append(b, u)[k]
    OBVIOUS
  <2>1. k \in 1 .. n - m + 2
    BY <1>3
  <2>2. CASE k = n - m + 2
    <3>1. m + k - 1 = n + 1 /\ k = Len(b) + 1
      BY <1>1, <1>2, <1>4, <2>2
    <3> QED
      BY <1>1, <1>3, <1>5, <2>1, <3>1
  <2>3. CASE k # n - m + 2
    <3>1. k \in 1 .. n - m + 1 /\ k \in 1 .. Len(b) /\ m + k - 1 \in 1 .. n
      BY <1>1, <1>2, <1>4, <2>1, <2>3
    <3> QED
      BY <1>1, <1>3, <1>4, <1>5, <2>1, <3>1
  <2> QED
    BY <2>2, <2>3
<1>7. Len(a) = Len(Append(b, u))
  BY <1>1, <1>2, <1>3, <1>4, <1>5
<1>8. a = Append(b, u)
  BY <1>3, <1>5, <1>6, <1>7, SeqEqual
<1> QED
  BY <1>8 DEF a, b, t, n

(* Where the dots are.                                                   *)
LEMMA DotsAppend ==
  ASSUME NEW us \in Seq(Units), NEW u \in Units
  PROVE  N!Dots(Append(us, u)) =
           IF u = Dot THEN N!Dots(us) \cup {Len(us) + 1} ELSE N!Dots(us)
<1> DEFINE t == Append(us, u)
<1>1. /\ Len(us) \in Nat /\ DOMAIN t = 1 .. Len(us) + 1 /\ DOMAIN us = 1 .. Len(us)
      /\ t[Len(us) + 1] = u /\ \A k \in 1 .. Len(us) : t[k] = us[k]
  BY AppendProperties
<1> HIDE DEF t
<1>2. \A k \in DOMAIN t : k \in DOMAIN us \/ k = Len(us) + 1
  BY <1>1
<1>3. N!Dots(t) = {k \in DOMAIN t : t[k] = Dot} /\ N!Dots(us) = {k \in DOMAIN us : us[k] = Dot}
  BY DEF N!Dots, Dot
<1>4. \A k : k \in N!Dots(t) <=> k \in N!Dots(us) \/ (k = Len(us) + 1 /\ u = Dot)
  BY <1>1, <1>2, <1>3
<1>5. N!Dots(t) = IF u = Dot THEN N!Dots(us) \cup {Len(us) + 1} ELSE N!Dots(us)
  BY <1>4
<1> QED
  BY <1>5 DEF t

(* Where no dot is.                                                      *)
LEMMA DotIn ==
  ASSUME NEW us \in Seq(Units)
  PROVE  N!Dots(us) \subseteq 1 .. Len(us) /\ Len(us) + 1 \notin N!Dots(us)
BY DEF N!Dots

(* The dot, if there is one, ...                                         *)
LEMMA OneDot ==
  ASSUME NEW us \in Seq(Units), NEW d, N!Dots(us) = {d}
  PROVE  N!FirstDot(us) = d /\ d \in 1 .. Len(us)
<1>1. d \in 1 .. Len(us)
  BY DotIn
<1>2. d \in Nat /\ N!Dots(us) # {}
  BY <1>1
<1>3. N!FirstDot(us) = CHOOSE k \in {d} : \A n \in {d} : k <= n
  BY <1>2 DEF N!FirstDot
<1> QED
  BY <1>1, <1>2, <1>3

(* ... and if there is none.                                             *)
LEMMA NoDot ==
  ASSUME NEW us \in Seq(Units), N!Dots(us) = {}
  PROVE  N!FirstDot(us) = Len(us) + 1 /\ N!BodyBytes(us) = N!Bytes(us) /\ N!ExtBytes(us) = <<>>
<1>1. Len(us) \in Nat /\ N!FirstDot(us) = Len(us) + 1
  BY DEF N!FirstDot
<1>2. SubSeq(us, 1, N!FirstDot(us) - 1) = us
  <2>1. N!FirstDot(us) - 1 = Len(us)
    BY <1>1
  <2> QED
    BY <2>1, SubSeqFull
<1>3. SubSeq(us, N!FirstDot(us) + 1, Len(us)) = <<>>
  <2>1. N!FirstDot(us) + 1 \in Int /\ Len(us) < N!FirstDot(us) + 1
    BY <1>1
  <2> QED
    BY <1>1, <2>1, SubSeqEmpty
<1> QED
  BY <1>1, <1>2, <1>3, BytesEmpty DEF N!BodyBytes, N!ExtBytes

(* What one more character does to the fields: before the dot, ...       *)
LEMMA BodyGrows ==
  ASSUME NEW us \in Seq(Units), NEW u \in Units, u # Dot, N!Dots(us) = {}
  PROVE  /\ N!Dots(Append(us, u)) = {}
         /\ N!BodyBytes(Append(us, u)) = Joined(N!BodyBytes(us), N!Value(u))
         /\ N!ExtBytes(Append(us, u)) = <<>>
<1>1. Append(us, u) \in Seq(Units)
  BY AppendProperties
<1>2. N!Dots(Append(us, u)) = {}
  BY DotsAppend
<1>3. N!BodyBytes(Append(us, u)) = N!Bytes(Append(us, u)) /\ N!BodyBytes(us) = N!Bytes(us)
      /\ N!ExtBytes(Append(us, u)) = <<>>
  BY <1>1, <1>2, NoDot
<1> QED
  BY <1>2, <1>3, BytesAppend

(* ... the dot, ...                                                      *)
LEMMA DotIsMet ==
  ASSUME NEW us \in Seq(Units), Dot \in Units, N!Dots(us) = {}
  PROVE  /\ N!Dots(Append(us, Dot)) = {N!FirstDot(Append(us, Dot))}
         /\ N!BodyBytes(Append(us, Dot)) = N!BodyBytes(us)
         /\ N!ExtBytes(Append(us, Dot)) = <<>>
<1> DEFINE t == Append(us, Dot)
           n == Len(us)
<1>1. t \in Seq(Units) /\ n \in Nat /\ Len(t) = n + 1
  BY AppendProperties
<1>2. N!Dots(t) = {n + 1}
  BY DotsAppend
<1> HIDE DEF t, n
<1>3. N!FirstDot(t) = n + 1
  BY <1>1, <1>2, OneDot
<1>4. SubSeq(t, 1, N!FirstDot(t) - 1) = us
  <2>1. N!FirstDot(t) - 1 = n /\ n \in 0 .. Len(us)
    BY <1>1, <1>3 DEF n
  <2>2. SubSeq(t, 1, n) = SubSeq(us, 1, n)
    BY <2>1, SubSeqFront DEF t
  <2>3. SubSeq(us, 1, n) = us
    BY SubSeqFull DEF n
  <2> QED
    BY <2>1, <2>2, <2>3
<1>5. SubSeq(t, N!FirstDot(t) + 1, Len(t)) = <<>>
  <2>1. N!FirstDot(t) + 1 \in Int /\ Len(t) \in Int /\ Len(t) < N!FirstDot(t) + 1
    BY <1>1, <1>3
  <2> QED
    BY <2>1, SubSeqEmpty
<1>6. N!BodyBytes(us) = N!Bytes(us)
  BY NoDot
<1> QED
  BY <1>2, <1>3, <1>4, <1>5, <1>6, BytesEmpty DEF N!BodyBytes, N!ExtBytes, t

(* ... and after it.                                                     *)
LEMMA ExtGrows ==
  ASSUME NEW us \in Seq(Units), NEW u \in Units, u # Dot,
         N!Dots(us) = {N!FirstDot(us)}
  PROVE  /\ N!Dots(Append(us, u)) = {N!FirstDot(Append(us, u))}
         /\ N!BodyBytes(Append(us, u)) = N!BodyBytes(us)
         /\ N!ExtBytes(Append(us, u)) = Joined(N!ExtBytes(us), N!Value(u))
<1> DEFINE t == Append(us, u)
           n == Len(us)
<1>1. t \in Seq(Units) /\ n \in Nat /\ Len(t) = n + 1
  BY AppendProperties
<1>2. PICK d : d = N!FirstDot(us)
  OBVIOUS
<1>3. N!Dots(us) = {d} /\ d \in 1 .. n
  BY <1>2, OneDot
<1>4. N!Dots(t) = {d}
  BY <1>3, DotsAppend
<1>5. SubSeq(t, d + 1, n + 1) = Append(SubSeq(us, d + 1, n), u)
  <2>1. d + 1 \in 1 .. Len(us) + 1
    BY <1>1, <1>3
  <2> QED
    BY <2>1, SubSeqBack
<1>6. SubSeq(t, 1, d - 1) = SubSeq(us, 1, d - 1)
  <2>1. d - 1 \in 0 .. Len(us)
    BY <1>1, <1>3
  <2> QED
    BY <2>1, SubSeqFront
<1>7. SubSeq(us, d + 1, n) \in Seq(Units)
  <2>1. d + 1 \in Int /\ n \in Int /\ \A k \in d + 1 .. n : us[k] \in Units
    BY <1>1, <1>3
  <2> QED
    BY <2>1, SubSeqProperties
<1> HIDE DEF t, n
<1>8. N!FirstDot(t) = d
  BY <1>1, <1>4, OneDot
<1>9. N!ExtBytes(t) = Joined(N!ExtBytes(us), N!Value(u))
  <2>1. N!ExtBytes(t) = N!Bytes(Append(SubSeq(us, d + 1, n), u))
    BY <1>1, <1>5, <1>8 DEF N!ExtBytes
  <2>2. N!ExtBytes(us) = N!Bytes(SubSeq(us, d + 1, n))
    BY <1>2 DEF N!ExtBytes, n
  <2> QED
    BY <2>1, <2>2, <1>7, BytesAppend
<1>10. N!BodyBytes(t) = N!BodyBytes(us)
  BY <1>2, <1>6, <1>8 DEF N!BodyBytes
<1> QED
  BY <1>4, <1>8, <1>9, <1>10 DEF t

(* A second dot is one too many.                                         *)
LEMMA SecondDot ==
  ASSUME NEW us \in Seq(Units), Dot \in Units, N!Dots(us) # {}
  PROVE  ~ N!TwoFields(Append(us, Dot))
<1>1. PICK d \in N!Dots(us) : TRUE
  OBVIOUS
<1>2. Len(us) + 1 \notin N!Dots(us)
  BY DotIn
<1>3. {d, Len(us) + 1} \subseteq N!Dots(Append(us, Dot)) /\ d # Len(us) + 1
  BY <1>1, <1>2, DotsAppend
<1> QED
  BY <1>3 DEF N!TwoFields

-----------------------------------------------------------------------------
(* What has been written after the characters us, at i of a field that   *)
(* ends at ni.                                                           *)
InFields(us, i, ni) ==
  /\ N!BodyBytes(us) \in Text /\ N!ExtBytes(us) \in Text
  /\ \/ /\ ni = Body /\ N!Dots(us) = {}
        /\ i = Len(N!BodyBytes(us)) /\ i <= ni /\ N!ExtBytes(us) = <<>>
     \/ /\ ni = Body + Ext /\ N!Dots(us) = {N!FirstDot(us)}
        /\ Len(N!BodyBytes(us)) <= Body
        /\ i = Body + Len(N!ExtBytes(us)) /\ i <= ni
  /\ i = 0 <=> us = <<>>

ByteAt(s, k) == IF k <= Len(s) THEN s[k] ELSE N!Blank
NameAt(us, k) == IF k < Body THEN ByteAt(N!BodyBytes(us), k + 1)
                 ELSE ByteAt(N!ExtBytes(us), k - Body + 1)

NameBytes == 0 .. Body + Ext - 1
Written(us, sfn) == \A k \in NameBytes : sfn[k] = NameAt(us, k)

(* A character that fits: the place of the next one, ...                 *)
LEMMA UnitFits ==
  ASSUME NEW us \in Seq(Units), NEW i \in Nat, NEW ni \in Nat, InFields(us, i, ni),
         NEW u \in Units, u # Dot, i + Len(u) <= ni
  PROVE  InFields(Append(us, u), i + Len(u), ni)
<1> DEFINE t == Append(us, u)
<1>1. N!Value(u) \in Text /\ Len(N!Value(u)) = Len(u) /\ Len(u) \in {1, 2}
  BY UnitValue
<1>2. t # <<>>
  BY AppendProperties
<1>3. Body \in Nat \ {0} /\ Ext \in Nat \ {0}
  BY NameAssumption DEF N!SfnAssumption
<1>4. CASE ni = Body /\ N!Dots(us) = {}
  <2>1. /\ N!Dots(t) = {} /\ N!BodyBytes(t) = Joined(N!BodyBytes(us), N!Value(u))
        /\ N!ExtBytes(t) = <<>>
    BY <1>4, BodyGrows
  <2>2. N!BodyBytes(us) \in Text /\ i = Len(N!BodyBytes(us))
    BY <1>3, <1>4 DEF InFields
  <2>3. N!BodyBytes(t) \in Text /\ Len(N!BodyBytes(t)) = i + Len(u)
    BY <1>1, <2>1, <2>2, JoinedType
  <2>4. N!ExtBytes(t) \in Text
    BY <2>1 DEF Text
  <2>6. i + Len(u) # 0
    BY <1>1
  <2> HIDE DEF t
  <2> QED
    BY <1>1, <1>2, <1>4, <2>1, <2>3, <2>4, <2>6 DEF InFields, t
<1>5. CASE ni = Body + Ext /\ N!Dots(us) = {N!FirstDot(us)}
  <2>1. /\ N!Dots(t) = {N!FirstDot(t)} /\ N!BodyBytes(t) = N!BodyBytes(us)
        /\ N!ExtBytes(t) = Joined(N!ExtBytes(us), N!Value(u))
    BY <1>5, ExtGrows
  <2>2. N!BodyBytes(us) \in Text /\ N!ExtBytes(us) \in Text
        /\ i = Body + Len(N!ExtBytes(us)) /\ Len(N!BodyBytes(us)) <= Body
    BY <1>3, <1>5 DEF InFields
  <2>3. N!ExtBytes(t) \in Text /\ Len(N!ExtBytes(t)) = Len(N!ExtBytes(us)) + Len(u)
    <3>1. /\ Joined(N!ExtBytes(us), N!Value(u)) \in Text
          /\ Len(Joined(N!ExtBytes(us), N!Value(u))) = Len(N!ExtBytes(us)) + Len(N!Value(u))
      BY <1>1, <2>2, JoinedType
    <3> QED
      BY <1>1, <2>1, <3>1
  <2>4. i + Len(u) = Body + Len(N!ExtBytes(t))
    <3>1. Len(N!ExtBytes(us)) \in Nat /\ Len(u) \in Nat
      BY <1>1, <2>2 DEF Text
    <3> QED
      BY <1>3, <2>2, <2>3, <3>1
  <2>5. i + Len(u) # 0
    BY <1>1
  <2> HIDE DEF t
  <2> QED
    BY <1>2, <1>5, <2>1, <2>2, <2>3, <2>4, <2>5 DEF InFields, t
<1> QED
  BY <1>4, <1>5 DEF InFields

(* ... the bytes that are written, ...                                   *)
LEMMA UnitWritten ==
  ASSUME NEW us \in Seq(Units), NEW i \in Nat, NEW ni \in Nat, InFields(us, i, ni),
         NEW u \in Units, u # Dot, i + Len(u) <= ni,
         NEW k \in NameBytes
  PROVE  NameAt(Append(us, u), k) =
           IF k \in i .. i + Len(u) - 1 THEN N!Value(u)[k - i + 1] ELSE NameAt(us, k)
<1> DEFINE t == Append(us, u)
<1>1. N!Value(u) \in Text /\ Len(N!Value(u)) = Len(u) /\ Len(u) \in {1, 2}
  BY UnitValue
<1>2. Body \in Nat \ {0} /\ Ext \in Nat \ {0} /\ k \in Nat
  BY NameAssumption DEF N!SfnAssumption, NameBytes
<1>3. CASE ni = Body /\ N!Dots(us) = {}
  <2>1. N!BodyBytes(t) = Joined(N!BodyBytes(us), N!Value(u)) /\ N!ExtBytes(t) = <<>>
    BY <1>3, BodyGrows
  <2>2. N!BodyBytes(us) \in Text /\ i = Len(N!BodyBytes(us)) /\ N!ExtBytes(us) = <<>>
    BY <1>2, <1>3 DEF InFields
  <2>3. /\ Len(N!BodyBytes(t)) = i + Len(u)
        /\ \A j \in 1 .. i + Len(u) : N!BodyBytes(t)[j] =
             IF j <= i THEN N!BodyBytes(us)[j] ELSE N!Value(u)[j - i]
    <3>1. /\ Len(Joined(N!BodyBytes(us), N!Value(u))) = Len(N!BodyBytes(us)) + Len(N!Value(u))
          /\ \A j \in 1 .. Len(N!BodyBytes(us)) + Len(N!Value(u)) :
               Joined(N!BodyBytes(us), N!Value(u))[j] =
                 IF j <= Len(N!BodyBytes(us)) THEN N!BodyBytes(us)[j]
                 ELSE N!Value(u)[j - Len(N!BodyBytes(us))]
      BY <1>1, <2>2, JoinedType
    <3> HIDE DEF t
    <3> QED
      BY <1>1, <2>1, <2>2, <3>1
  <2> HIDE DEF t
  <2>4. CASE k >= Body
    <3>1. k \notin i .. i + Len(u) - 1
      BY <1>1, <1>2, <1>3, <2>4
    <3> QED
      BY <1>2, <2>1, <2>2, <2>4, <3>1 DEF NameAt, t
  <2>5. CASE k < Body
    <3>1. /\ NameAt(t, k) = ByteAt(N!BodyBytes(t), k + 1)
          /\ NameAt(us, k) = ByteAt(N!BodyBytes(us), k + 1)
      BY <2>5 DEF NameAt
    <3>2. k - i + 1 = (k + 1) - i
      BY <1>2
    <3>3. CASE k < i
      <4>1. k + 1 \in 1 .. i + Len(u) /\ k + 1 <= i /\ k \notin i .. i + Len(u) - 1
            /\ k + 1 <= i + Len(u)
        BY <1>1, <1>2, <3>3
      <4> QED
        BY <2>2, <2>3, <3>1, <4>1 DEF ByteAt, t
    <3>4. CASE k \in i .. i + Len(u) - 1
      <4>1. k + 1 \in 1 .. i + Len(u) /\ ~ (k + 1 <= i) /\ k + 1 <= i + Len(u)
        BY <1>1, <1>2, <3>4
      <4> QED
        BY <2>3, <3>1, <3>2, <3>4, <4>1 DEF ByteAt, t
    <3>5. CASE k > i + Len(u) - 1
      <4>1. ~ (k + 1 <= i) /\ ~ (k + 1 <= i + Len(u)) /\ k \notin i .. i + Len(u) - 1
        BY <1>1, <1>2, <3>5
      <4> QED
        BY <2>2, <2>3, <3>1, <4>1 DEF ByteAt, t
    <3> QED
      BY <1>1, <1>2, <3>3, <3>4, <3>5
  <2> QED
    BY <1>2, <2>4, <2>5
<1>4. CASE ni = Body + Ext /\ N!Dots(us) = {N!FirstDot(us)}
  <2>1. N!BodyBytes(t) = N!BodyBytes(us) /\ N!ExtBytes(t) = Joined(N!ExtBytes(us), N!Value(u))
    BY <1>4, ExtGrows
  <2>2. PICK m \in Nat : m = Len(N!ExtBytes(us))
    BY <1>2, <1>4 DEF InFields, Text
  <2>3. N!ExtBytes(us) \in Text /\ i = Body + m
    BY <1>2, <1>4, <2>2 DEF InFields
  <2>4. /\ Len(N!ExtBytes(t)) = m + Len(u)
        /\ \A j \in 1 .. m + Len(u) : N!ExtBytes(t)[j] =
             IF j <= m THEN N!ExtBytes(us)[j] ELSE N!Value(u)[j - m]
    <3>1. /\ Len(Joined(N!ExtBytes(us), N!Value(u))) = Len(N!ExtBytes(us)) + Len(N!Value(u))
          /\ \A j \in 1 .. Len(N!ExtBytes(us)) + Len(N!Value(u)) :
               Joined(N!ExtBytes(us), N!Value(u))[j] =
                 IF j <= Len(N!ExtBytes(us)) THEN N!ExtBytes(us)[j]
                 ELSE N!Value(u)[j - Len(N!ExtBytes(us))]
      BY <1>1, <2>3, JoinedType
    <3> HIDE DEF t
    <3> QED
      BY <1>1, <2>1, <2>2, <3>1
  <2> HIDE DEF t
  <2>5. CASE k < Body
    <3>1. k \notin i .. i + Len(u) - 1
      BY <1>1, <1>2, <2>3, <2>5
    <3> QED
      BY <2>1, <2>5, <3>1 DEF NameAt, t
  <2>6. CASE k >= Body
    <3> DEFINE j == k - Body + 1
    <3>1. j \in Nat /\ j >= 1 /\ j - m = k - i + 1 /\ (j <= m <=> k < i)
          /\ (j <= m + Len(u) <=> k <= i + Len(u) - 1)
      BY <1>1, <1>2, <2>3, <2>6
    <3>2. ~ (k < Body)
      BY <1>2, <2>6
    <3>3. NameAt(t, k) = ByteAt(N!ExtBytes(t), j) /\ NameAt(us, k) = ByteAt(N!ExtBytes(us), j)
      BY <3>2 DEF NameAt
    <3> HIDE DEF j
    <3>4. CASE k < i
      <4>1. j \in 1 .. m + Len(u) /\ j <= m /\ j <= m + Len(u) /\ k \notin i .. i + Len(u) - 1
        BY <1>1, <1>2, <3>1, <3>4
      <4> QED
        BY <2>2, <2>4, <3>3, <4>1 DEF ByteAt, t
    <3>5. CASE k \in i .. i + Len(u) - 1
      <4>1. j \in 1 .. m + Len(u) /\ ~ (j <= m) /\ j <= m + Len(u)
        BY <1>1, <1>2, <3>1, <3>5
      <4> QED
        BY <2>2, <2>4, <3>1, <3>3, <3>5, <4>1 DEF ByteAt, t
    <3>6. CASE k > i + Len(u) - 1
      <4>1. ~ (j <= m) /\ ~ (j <= m + Len(u)) /\ k \notin i .. i + Len(u) - 1
        BY <1>1, <1>2, <3>1, <3>6
      <4> QED
        BY <2>2, <2>4, <3>3, <4>1 DEF ByteAt, t
    <3> QED
      BY <1>1, <1>2, <3>4, <3>5, <3>6
  <2> QED
    BY <1>2, <2>5, <2>6
<1> QED
  BY <1>3, <1>4 DEF InFields

(* ... and none that does not.                                           *)
LEMMA UnitTooLong ==
  ASSUME NEW us \in Seq(Units), NEW i \in Nat, NEW ni \in Nat, InFields(us, i, ni),
         NEW u \in Units, u # Dot, i + Len(u) > ni
  PROVE  ~ N!TwoFields(Append(us, u))
<1> DEFINE t == Append(us, u)
<1>1. N!Value(u) \in Text /\ Len(N!Value(u)) = Len(u) /\ Len(u) \in {1, 2}
  BY UnitValue
<1>3. Body \in Nat \ {0} /\ Ext \in Nat \ {0}
  BY NameAssumption DEF N!SfnAssumption
<1>4. CASE ni = Body /\ N!Dots(us) = {}
  <2>1. N!BodyBytes(t) = Joined(N!BodyBytes(us), N!Value(u))
    BY <1>4, BodyGrows
  <2>2. N!BodyBytes(us) \in Text /\ i = Len(N!BodyBytes(us))
    BY <1>3, <1>4 DEF InFields
  <2>3. Len(N!BodyBytes(t)) = i + Len(u)
    BY <1>1, <2>1, <2>2, JoinedType
  <2> HIDE DEF t
  <2>4. ~ (Len(N!BodyBytes(t)) <= Body)
    BY <1>1, <1>3, <1>4, <2>3
  <2> QED
    BY <2>4 DEF N!TwoFields, t
<1>5. CASE ni = Body + Ext /\ N!Dots(us) = {N!FirstDot(us)}
  <2>1. N!ExtBytes(t) = Joined(N!ExtBytes(us), N!Value(u))
    BY <1>5, ExtGrows
  <2>2. PICK m \in Nat : m = Len(N!ExtBytes(us))
    BY <1>3, <1>5 DEF InFields, Text
  <2>3. N!ExtBytes(us) \in Text /\ i = Body + m
    BY <1>3, <1>5, <2>2 DEF InFields
  <2>4. Len(N!ExtBytes(t)) = m + Len(u)
    BY <1>1, <2>1, <2>2, <2>3, JoinedType
  <2> HIDE DEF t
  <2>5. ~ (Len(N!ExtBytes(t)) <= Ext)
    BY <1>1, <1>3, <1>5, <2>3, <2>4
  <2> QED
    BY <2>5 DEF N!TwoFields, t
<1> QED
  BY <1>4, <1>5 DEF InFields

(* The dot ends the body, and writes nothing.                            *)
LEMMA DotFits ==
  ASSUME NEW us \in Seq(Units), NEW i \in Nat, InFields(us, i, Body)
  PROVE  /\ InFields(Append(us, Dot), Body, Body + Ext)
         /\ \A k \in NameBytes : NameAt(Append(us, Dot), k) = NameAt(us, k)
<1> DEFINE t == Append(us, Dot)
<1>1. Body \in Nat \ {0} /\ Ext \in Nat \ {0}
  BY NameAssumption DEF N!SfnAssumption
<1>2. Dot \in Units
  BY DEF Dot, Units, N!Chars
<1>3. /\ N!Dots(us) = {} /\ i = Len(N!BodyBytes(us)) /\ i <= Body
      /\ N!BodyBytes(us) \in Text /\ N!ExtBytes(us) = <<>>
  BY <1>1 DEF InFields
<1>4. /\ N!Dots(t) = {N!FirstDot(t)} /\ N!BodyBytes(t) = N!BodyBytes(us)
      /\ N!ExtBytes(t) = <<>>
  BY <1>2, <1>3, DotIsMet
<1>5. t # <<>>
  BY <1>2, AppendProperties
<1>6. N!ExtBytes(t) \in Text /\ Len(N!ExtBytes(t)) = 0
  BY <1>4 DEF Text
<1> HIDE DEF t
<1>7. InFields(t, Body, Body + Ext)
  BY <1>1, <1>3, <1>4, <1>5, <1>6 DEF InFields
<1>8. \A k \in NameBytes : NameAt(t, k) = NameAt(us, k)
  BY <1>3, <1>4 DEF NameAt
<1> QED
  BY <1>7, <1>8 DEF t

(* A field with its blanks.                                              *)
LEMMA PaddedIs ==
  ASSUME NEW s \in Text, NEW n \in Nat
  PROVE  N!Padded(s, n) = [k \in 1 .. n |-> ByteAt(s, k)]
BY DEF N!Padded, ByteAt

(* What is written is the entry's name, but for its first byte.          *)
LEMMA FieldIsWritten ==
  ASSUME NEW us \in Seq(Units), N!BodyBytes(us) \in Text, N!ExtBytes(us) \in Text,
         NEW k \in NameBytes
  PROVE  N!Field(us)[k + 1] = NameAt(us, k)
<1> DEFINE a == N!Padded(N!BodyBytes(us), Body)
           b == N!Padded(N!ExtBytes(us), Ext)
           B == N!Chars \cup {N!Blank}
<1>1. Body \in Nat \ {0} /\ Ext \in Nat \ {0} /\ k \in 0 .. Body + Ext - 1
  BY NameAssumption DEF N!SfnAssumption, NameBytes
<1>2. /\ \A n \in 1 .. Body : ByteAt(N!BodyBytes(us), n) \in B
      /\ \A n \in 1 .. Ext : ByteAt(N!ExtBytes(us), n) \in B
  BY <1>1 DEF Text, ByteAt
<1>3. /\ a = [n \in 1 .. Body |-> ByteAt(N!BodyBytes(us), n)]
      /\ b = [n \in 1 .. Ext |-> ByteAt(N!ExtBytes(us), n)]
  BY <1>1, PaddedIs
<1> HIDE DEF a, b, B
<1>4. /\ a \in Seq(B) /\ Len(a) = Body /\ \A n \in 1 .. Body : a[n] = ByteAt(N!BodyBytes(us), n)
      /\ b \in Seq(B) /\ Len(b) = Ext /\ \A n \in 1 .. Ext : b[n] = ByteAt(N!ExtBytes(us), n)
  BY <1>1, <1>2, <1>3
<1>5. \A n \in 1 .. Body + Ext : (a \o b)[n] = IF n <= Body THEN a[n] ELSE b[n - Body]
  <2>1. \A n \in 1 .. Len(a) + Len(b) :
          (a \o b)[n] = IF n <= Len(a) THEN a[n] ELSE b[n - Len(a)]
    BY <1>4, ConcatProperties
  <2> QED
    BY <1>4, <2>1
<1>6. N!Field(us) = a \o b
  BY DEF N!Field, a, b
<1>7. CASE k < Body
  <2>1. k + 1 \in 1 .. Body + Ext /\ k + 1 <= Body /\ k + 1 \in 1 .. Body
    BY <1>1, <1>7
  <2> QED
    BY <1>4, <1>5, <1>6, <1>7, <2>1 DEF NameAt
<1>8. CASE ~ (k < Body)
  <2>1. /\ k + 1 \in 1 .. Body + Ext /\ ~ (k + 1 <= Body)
        /\ (k + 1) - Body \in 1 .. Ext /\ (k + 1) - Body = k - Body + 1
    BY <1>1, <1>8
  <2> QED
    BY <1>4, <1>5, <1>6, <1>8, <2>1 DEF NameAt
<1> QED
  BY <1>7, <1>8

(* What is stored, if its first byte would mark a deleted entry.         *)
LEMMA StoredIsEntryName ==
  ASSUME NEW us \in Seq(Units), N!BodyBytes(us) \in Text, N!ExtBytes(us) \in Text,
         NEW T, NEW sfn \in [NameBytes -> T], Written(us, sfn)
  PROVE  (IF sfn[0] = N!DDEM THEN [sfn EXCEPT ![0] = N!RDDEM] ELSE sfn) = N!EntryName(us)
<1> DEFINE s == IF sfn[0] = N!DDEM THEN [sfn EXCEPT ![0] = N!RDDEM] ELSE sfn
<1>1. Body \in Nat \ {0} /\ Ext \in Nat \ {0}
  BY NameAssumption DEF N!SfnAssumption
<1>2. 0 \in NameBytes
  BY <1>1 DEF NameBytes
<1>3. \A k \in NameBytes : sfn[k] = N!Field(us)[k + 1]
  BY FieldIsWritten DEF Written
<1>4. sfn[0] = N!Field(us)[1]
  <2>1. 0 + 1 = 1
    OBVIOUS
  <2> QED
    BY <1>2, <1>3, <2>1
<1> DEFINE g == [k \in NameBytes |-> IF k = 0 THEN N!Stands(N!Field(us)[1]) ELSE N!Field(us)[k + 1]]
<1>5. DOMAIN s = NameBytes /\ DOMAIN g = NameBytes
  OBVIOUS
<1>6. s[0] = N!Stands(sfn[0]) /\ \A k \in NameBytes : k # 0 => s[k] = sfn[k]
  BY <1>2 DEF N!Stands
<1>7. \A k \in NameBytes : g[k] = IF k = 0 THEN N!Stands(N!Field(us)[1]) ELSE N!Field(us)[k + 1]
  OBVIOUS
<1>8. s = [k \in NameBytes |-> s[k]] /\ g = [k \in NameBytes |-> g[k]]
  OBVIOUS
<1>9. g = N!EntryName(us)
  BY DEF N!EntryName, NameBytes
<1> HIDE DEF s, g
<1>10. \A k \in NameBytes : s[k] = g[k]
  BY <1>3, <1>4, <1>6, <1>7
<1>11. s = g
  BY <1>8, <1>10
<1> QED
  BY <1>9, <1>11 DEF s

(* Every character that fits is legal: the segment has its two fields.   *)
LEMMA FieldsAreTwo ==
  ASSUME NEW us \in Seq(Units), NEW i \in Nat, NEW ni \in Nat, InFields(us, i, ni), i # 0,
         \A k \in DOMAIN us : N!Legal(us[k])
  PROVE  N!TwoFields(us)
<1>1. Body \in Nat \ {0} /\ Ext \in Nat \ {0}
  BY NameAssumption DEF N!SfnAssumption
<1>2. us # <<>> /\ N!Dots(us) \subseteq {N!FirstDot(us)}
  BY DEF InFields
<1>3. Len(N!BodyBytes(us)) <= Body /\ Len(N!ExtBytes(us)) <= Ext
  <2>1. CASE ni = Body /\ N!Dots(us) = {}
    <3>1. Len(N!ExtBytes(us)) = 0 /\ Len(N!BodyBytes(us)) <= Body
      BY <1>1, <2>1 DEF InFields
    <3> QED
      BY <1>1, <3>1
  <2>2. CASE ni = Body + Ext /\ N!Dots(us) = {N!FirstDot(us)}
    <3>1. PICK m \in Nat : m = Len(N!ExtBytes(us))
      BY DEF InFields, Text
    <3>2. Len(N!BodyBytes(us)) <= Body /\ i = Body + m /\ i <= ni
      BY <1>1, <2>2, <3>1 DEF InFields
    <3> QED
      BY <1>1, <2>2, <3>1, <3>2
  <2> QED
    BY <2>1, <2>2 DEF InFields
<1> QED
  BY <1>2, <1>3 DEF N!TwoFields

(* All characters are legal, and one more.                               *)
LEMMA LegalAppend ==
  ASSUME NEW us \in Seq(Units), NEW u \in Units
  PROVE  /\ Append(us, u) \in Seq(Units)
         /\ (\A k \in DOMAIN Append(us, u) : N!Legal(Append(us, u)[k]))
              <=> (\A k \in DOMAIN us : N!Legal(us[k])) /\ N!Legal(u)
<1> DEFINE t == Append(us, u)
<1>1. /\ t \in Seq(Units) /\ Len(us) \in Nat
      /\ DOMAIN t = 1 .. Len(us) + 1 /\ DOMAIN us = 1 .. Len(us)
      /\ t[Len(us) + 1] = u /\ \A k \in 1 .. Len(us) : t[k] = us[k]
  BY AppendProperties
<1> HIDE DEF t
<1>2. \A k : k \in DOMAIN t <=> k \in DOMAIN us \/ k = Len(us) + 1
  BY <1>1
<1>3. (\A k \in DOMAIN t : N!Legal(t[k])) <=> (\A k \in DOMAIN us : N!Legal(us[k])) /\ N!Legal(u)
  BY <1>1, <1>2
<1> QED
  BY <1>1, <1>3 DEF t

(* A character that is not legal makes a name that is none.              *)
LEMMA IllegalIsNot ==
  ASSUME NEW us \in Seq(Units), NEW u \in Units, ~ N!Legal(u)
  PROVE  ~ N!TwoFields(Append(us, u))
BY LegalAppend DEF N!TwoFields

-----------------------------------------------------------------------------
(* The inductive invariant: while characters are read, what has been     *)
(* written is what they stand for.                                       *)
NameSoFar ==
  /\ InFields(segment, nameI, nameNi)
  /\ Written(segment, nameSfn)
  /\ \A k \in DOMAIN segment : N!Legal(segment[k])

NameInv ==
  /\ N!TypeOK
  /\ segment \in Seq(Units)
  /\ namePc \in {"loop", "second", "skip"} => NameSoFar
  /\ namePc = "second" => N!Dbc1st(nameC) /\ nameI < nameNi
  /\ N!NameIsEightThree

(* Nothing is read, and nothing written.                                 *)
LEMMA NameStart == N!Init => NameInv
<1> SUFFICES ASSUME N!Init PROVE NameInv
  OBVIOUS
<1>1. Body \in Nat \ {0} /\ Ext \in Nat \ {0}
  BY NameAssumption DEF N!SfnAssumption
<1>2. /\ namePc = "loop" /\ nameC = "/" /\ nameI = 0 /\ nameNi = Body /\ nameLast = FALSE
      /\ segment = <<>> /\ nameSfn = [k \in 0 .. Body + Ext - 1 |-> N!Blank]
  BY DEF N!Init
<1>3. N!TypeOK
  <2>1. nameC \in N!Chars
    BY <1>2 DEF N!Chars
  <2>2. nameSfn \in [0 .. Body + Ext - 1 -> (N!Chars \ {N!End}) \cup {N!Blank, N!RDDEM}]
    BY <1>2
  <2>3. nameI \in 0 .. nameNi /\ nameNi \in {Body, Body + Ext}
    BY <1>1, <1>2
  <2> QED
    BY <1>2, <2>1, <2>2, <2>3 DEF N!TypeOK
<1>4. segment \in Seq(Units) /\ N!Dots(segment) = {} /\ Len(segment) = 0
  BY <1>2 DEF N!Dots
<1>5. N!BodyBytes(segment) = <<>> /\ N!ExtBytes(segment) = <<>>
  BY <1>2, <1>4, NoDot, BytesEmpty
<1>6. InFields(segment, nameI, nameNi)
  <2>1. /\ N!BodyBytes(segment) \in Text /\ Len(N!BodyBytes(segment)) = 0
        /\ N!ExtBytes(segment) \in Text
    BY <1>5 DEF Text
  <2> QED
    BY <1>1, <1>2, <1>4, <1>5, <2>1 DEF InFields
<1>7. Written(segment, nameSfn)
  <2> SUFFICES ASSUME NEW k \in NameBytes PROVE nameSfn[k] = NameAt(segment, k)
    BY DEF Written
  <2>1. nameSfn[k] = N!Blank
    BY <1>2 DEF NameBytes
  <2>2. k \in Nat /\ (k >= Body => k - Body + 1 >= 1)
    BY <1>1 DEF NameBytes
  <2> QED
    BY <1>1, <1>5, <2>1, <2>2 DEF NameAt, ByteAt
<1>8. \A k \in DOMAIN segment : N!Legal(segment[k])
  BY <1>2
<1>9. N!NameIsEightThree
  BY <1>2 DEF N!NameIsEightThree, N!EightThree, N!DotName, N!End
<1> QED
  BY <1>2, <1>3, <1>4, <1>6, <1>7, <1>8, <1>9 DEF NameInv, NameSoFar

(* A character read while there is room for none, or one that is illegal.*)
LEMMA Rejecting ==
  ASSUME NameInv, namePc \in {"loop", "second"}, N!Reject, nameC' \in N!Chars,
         NEW u \in Units, segment' = Append(segment, u), ~ N!TwoFields(Append(segment, u))
  PROVE  NameInv'
<1>1. /\ namePc' = "bad" /\ nameI' = nameI /\ nameNi' = nameNi /\ nameSfn' = nameSfn
      /\ nameLast' = nameLast
  BY DEF N!Reject
<1>2. N!TypeOK'
  BY <1>1 DEF NameInv, N!TypeOK
<1>3. segment' \in Seq(Units)
  BY AppendProperties DEF NameInv
<1>4. N!NameIsEightThree'
  <2>1. namePc' = "bad" /\ ~ N!TwoFields(segment')
    BY <1>1
  <2> QED
    BY <2>1 DEF N!NameIsEightThree, N!EightThree, N!DotName
<1> QED
  BY <1>1, <1>2, <1>3, <1>4 DEF NameInv

(* The segment has ended.                                                *)
LEMMA Finishing ==
  ASSUME NameInv, namePc \in {"loop", "skip"}, NEW b \in BOOLEAN, N!Finish(b), nameC' \in N!Chars
  PROVE  NameInv'
<1>1. /\ NameSoFar /\ N!TypeOK /\ segment \in Seq(Units)
  BY DEF NameInv
<1>2. /\ nameLast' = b /\ nameI' = nameI /\ nameNi' = nameNi /\ segment' = segment
      /\ namePc' = IF nameI = 0 THEN "bad" ELSE "ok"
      /\ nameSfn' = IF nameI = 0 THEN nameSfn
                    ELSE IF nameSfn[0] = N!DDEM THEN [nameSfn EXCEPT ![0] = N!RDDEM] ELSE nameSfn
  BY DEF N!Finish, N!Stored
<1>3. Body \in Nat \ {0} /\ Ext \in Nat \ {0}
  BY NameAssumption DEF N!SfnAssumption
<1>4. /\ nameI \in Nat /\ nameNi \in Nat
      /\ nameSfn \in [NameBytes -> (N!Chars \ {N!End}) \cup {N!Blank, N!RDDEM}]
  BY <1>1, <1>3 DEF N!TypeOK, NameBytes
<1>5. nameSfn' \in [NameBytes -> (N!Chars \ {N!End}) \cup {N!Blank, N!RDDEM}]
  BY <1>2, <1>4
<1>6. N!TypeOK'
  BY <1>1, <1>2, <1>5 DEF N!TypeOK, NameBytes
<1>7. CASE nameI = 0
  <2>1. segment = <<>>
    BY <1>1, <1>7 DEF NameSoFar, InFields
  <2>2. ~ N!TwoFields(segment')
    BY <1>2, <2>1 DEF N!TwoFields
  <2>3. namePc' = "bad"
    BY <1>2, <1>7
  <2> QED
    BY <1>1, <1>2, <1>6, <2>2, <2>3 DEF NameInv, N!NameIsEightThree, N!EightThree, N!DotName
<1>8. CASE nameI # 0
  <2>1. N!TwoFields(segment)
    BY <1>1, <1>4, <1>8, FieldsAreTwo DEF NameSoFar
  <2>2. N!BodyBytes(segment) \in Text /\ N!ExtBytes(segment) \in Text /\ Written(segment, nameSfn)
    BY <1>1 DEF NameSoFar, InFields
  <2>3. nameSfn' = N!EntryName(segment)
    BY <1>1, <1>2, <1>4, <1>8, <2>2, StoredIsEntryName
  <2>4. namePc' = "ok"
    BY <1>2, <1>8
  <2>5. N!NameIsEightThree'
    BY <1>2, <2>1, <2>3, <2>4 DEF N!NameIsEightThree, N!EightThree, N!DotName
  <2> QED
    BY <1>1, <1>2, <1>6, <2>4, <2>5 DEF NameInv
<1> QED
  BY <1>7, <1>8

(* A legal character for which there is room.                            *)
LEMMA Taking ==
  ASSUME NameInv, namePc \in {"loop", "second"},
         NEW u \in Units, u # Dot, N!Legal(u), nameI + Len(u) <= nameNi,
         segment' = Append(segment, u), nameI' = nameI + Len(u), nameNi' = nameNi,
         nameLast' = nameLast, namePc' = "loop", nameC' \in N!Chars, nameC' # N!End,
         N!TypeOK',
         \A k \in NameBytes : nameSfn'[k] = IF k \in nameI .. nameI + Len(u) - 1
                                            THEN N!Value(u)[k - nameI + 1] ELSE nameSfn[k]
  PROVE  NameInv'
<1>1. NameSoFar /\ segment \in Seq(Units)
  BY DEF NameInv
<1>2. Body \in Nat \ {0} /\ Ext \in Nat \ {0}
  BY NameAssumption DEF N!SfnAssumption
<1>3. nameI \in Nat /\ nameNi \in Nat
  BY <1>2 DEF NameInv, N!TypeOK
<1>4. InFields(segment', nameI', nameNi')
  BY <1>1, <1>3, UnitFits DEF NameSoFar
<1>5. Written(segment', nameSfn')
  <2> SUFFICES ASSUME NEW k \in NameBytes PROVE nameSfn'[k] = NameAt(segment', k)
    BY DEF Written
  <2>1. NameAt(segment', k) = IF k \in nameI .. nameI + Len(u) - 1
                              THEN N!Value(u)[k - nameI + 1] ELSE NameAt(segment, k)
    BY <1>1, <1>3, UnitWritten DEF NameSoFar
  <2>2. nameSfn[k] = NameAt(segment, k)
    BY <1>1 DEF NameSoFar, Written
  <2> QED
    BY <2>1, <2>2
<1>6. segment' \in Seq(Units) /\ \A k \in DOMAIN segment' : N!Legal(segment'[k])
  BY <1>1, LegalAppend DEF NameSoFar
<1>7. N!NameIsEightThree'
  BY DEF N!NameIsEightThree, N!EightThree, N!DotName
<1> QED
  BY <1>4, <1>5, <1>6, <1>7 DEF NameInv, NameSoFar

(* A character of one byte, ...                                          *)
LEMMA OneByteUnit ==
  ASSUME NEW x \in N!Chars
  PROVE  /\ <<x>> \in Units /\ Len(<<x>>) = 1 /\ N!Value(<<x>>) = <<N!Upper(x)>>
         /\ N!Legal(<<x>>) <=> ~ N!Illegal(x)
         /\ <<x>> = Dot <=> x = "."
BY DEF Units, N!Value, N!Legal, Dot

(* ... and of two.                                                       *)
LEMMA TwoByteUnit ==
  ASSUME NEW x \in N!Chars, N!Dbc1st(x), NEW y \in N!Chars
  PROVE  /\ <<x, y>> \in Units /\ Len(<<x, y>>) = 2 /\ N!Value(<<x, y>>) = <<x, y>>
         /\ N!Legal(<<x, y>>) <=> N!Dbc2nd(y)
         /\ <<x, y>> # Dot
<1>1. x \in FirstBytes
  BY DEF FirstBytes
<1> QED
  BY <1>1 DEF Units, N!Value, N!Legal, Dot

(* The types of the state.                                               *)
LEMMA NameNumbers ==
  ASSUME N!TypeOK
  PROVE  /\ Body \in Nat \ {0} /\ Ext \in Nat \ {0}
         /\ nameI \in Nat /\ nameNi \in Nat /\ nameI <= nameNi
         /\ nameNi \in {Body, Body + Ext} /\ nameNi <= Body + Ext
         /\ nameSfn \in [NameBytes -> (N!Chars \ {N!End}) \cup {N!Blank, N!RDDEM}]
<1>1. Body \in Nat \ {0} /\ Ext \in Nat \ {0}
  BY NameAssumption DEF N!SfnAssumption
<1> QED
  BY <1>1 DEF N!TypeOK, NameBytes

(* A dot, or a byte too many.                                            *)
LEMMA DotOrOverflowStep ==
  ASSUME NameInv, namePc = "loop", nameC' \in N!Chars, N!DotOrOverflow
  PROVE  NameInv'
<1>1. /\ N!TypeOK /\ NameSoFar /\ segment \in Seq(Units)
      /\ InFields(segment, nameI, nameNi)
  BY DEF NameInv, NameSoFar
<1>2. /\ Body \in Nat \ {0} /\ Ext \in Nat \ {0} /\ nameI \in Nat /\ nameNi \in Nat
      /\ nameNi \in {Body, Body + Ext}
  BY <1>1, NameNumbers
<1> DEFINE u == <<nameC'>>
<1>3. /\ u \in Units /\ Len(u) = 1 /\ (u = Dot <=> nameC' = ".")
  BY OneByteUnit
<1>4. /\ nameC' # N!End /\ segment' = Append(segment, u)
      /\ nameC' = "." \/ nameI >= nameNi
  BY DEF N!DotOrOverflow
<1> HIDE DEF u
<1>5. CASE nameC' # "."
  <2>1. N!Reject
    BY <1>5 DEF N!DotOrOverflow
  <2>2. ~ N!TwoFields(Append(segment, u))
    <3>1. nameI + Len(u) > nameNi /\ u # Dot
      BY <1>2, <1>3, <1>4, <1>5
    <3> QED
      BY <1>1, <1>2, <1>3, <3>1, UnitTooLong
  <2> QED
    BY <1>3, <1>4, <2>1, <2>2, Rejecting
<1>6. CASE nameC' = "." /\ nameNi = Body + Ext
  <2>1. N!Reject
    BY <1>6 DEF N!DotOrOverflow
  <2>2. N!Dots(segment) # {}
    <3>1. nameNi # Body
      BY <1>2, <1>6
    <3>2. N!Dots(segment) = {N!FirstDot(segment)}
      BY <1>1, <3>1 DEF InFields
    <3> QED
      BY <3>2
  <2>3. u = Dot
    BY <1>3, <1>6
  <2>4. ~ N!TwoFields(Append(segment, u))
    BY <1>1, <1>3, <2>2, <2>3, SecondDot
  <2> QED
    BY <1>3, <1>4, <2>1, <2>4, Rejecting
<1>7. CASE nameC' = "." /\ nameNi # Body + Ext
  <2>1. u = Dot /\ nameNi = Body
    BY <1>2, <1>3, <1>7
  <2>2. /\ nameI' = Body /\ nameNi' = Body + Ext /\ namePc' = namePc
        /\ nameSfn' = nameSfn /\ nameLast' = nameLast
    BY <1>7 DEF N!DotOrOverflow
  <2>3. /\ InFields(segment', Body, Body + Ext)
        /\ \A k \in NameBytes : NameAt(segment', k) = NameAt(segment, k)
    BY <1>1, <1>2, <1>4, <2>1, DotFits
  <2>4. Written(segment', nameSfn')
    BY <1>1, <2>2, <2>3 DEF NameSoFar, Written
  <2>5. N!Legal(u)
    <3>1. ~ N!Illegal(nameC')
      BY <1>7 DEF N!Illegal
    <3> QED
      BY <3>1, OneByteUnit DEF u
  <2>6. segment' \in Seq(Units) /\ \A k \in DOMAIN segment' : N!Legal(segment'[k])
    BY <1>1, <1>3, <1>4, <2>5, LegalAppend DEF NameSoFar
  <2>7. N!TypeOK'
    <3>1. Body \in 0 .. Body + Ext
      BY <1>2
    <3> QED
      BY <1>1, <2>2, <3>1 DEF N!TypeOK
  <2>8. N!NameIsEightThree'
    BY <1>4, <2>2 DEF N!NameIsEightThree, N!EightThree, N!DotName
  <2> QED
    BY <2>2, <2>3, <2>4, <2>6, <2>7, <2>8 DEF NameInv, NameSoFar
<1> QED
  BY <1>5, <1>6, <1>7

(* A byte that is a character.                                           *)
LEMMA SingleByteStep ==
  ASSUME NameInv, namePc = "loop", nameC' \in N!Chars, N!SingleByte
  PROVE  NameInv'
<1>1. /\ N!TypeOK /\ NameSoFar /\ segment \in Seq(Units)
      /\ InFields(segment, nameI, nameNi)
  BY DEF NameInv, NameSoFar
<1>2. /\ Body \in Nat \ {0} /\ Ext \in Nat \ {0} /\ nameI \in Nat /\ nameNi \in Nat
      /\ nameNi <= Body + Ext
      /\ nameSfn \in [NameBytes -> (N!Chars \ {N!End}) \cup {N!Blank, N!RDDEM}]
  BY <1>1, NameNumbers
<1> DEFINE u == <<nameC'>>
<1>3. /\ nameC' # N!End /\ nameC' # "." /\ nameI < nameNi /\ segment' = Append(segment, u)
  BY DEF N!SingleByte, N!Fits
<1>4. /\ u \in Units /\ Len(u) = 1 /\ u # Dot /\ N!Value(u) = <<N!Upper(nameC')>>
      /\ N!Legal(u) <=> ~ N!Illegal(nameC')
  BY <1>3, OneByteUnit
<1> HIDE DEF u
<1>5. CASE N!Illegal(nameC')
  <2>1. N!Reject
    BY <1>5 DEF N!SingleByte
  <2>2. ~ N!TwoFields(Append(segment, u))
    BY <1>1, <1>4, <1>5, IllegalIsNot
  <2> QED
    BY <1>3, <1>4, <2>1, <2>2, Rejecting
<1>6. CASE ~ N!Illegal(nameC')
  <2>1. /\ nameSfn' = [nameSfn EXCEPT ![nameI] = N!Upper(nameC')]
        /\ nameI' = nameI + 1 /\ namePc' = namePc /\ nameNi' = nameNi /\ nameLast' = nameLast
    BY <1>6 DEF N!SingleByte
  <2>2. nameI \in NameBytes /\ nameI + Len(u) <= nameNi /\ nameI' = nameI + Len(u)
    BY <1>2, <1>3, <1>4, <2>1 DEF NameBytes
  <2>3. N!Upper(nameC') \in N!Chars \ {N!End}
    BY <1>3 DEF N!Upper, N!Chars, N!End, N!DDEM
  <2>4. nameSfn' \in [NameBytes -> (N!Chars \ {N!End}) \cup {N!Blank, N!RDDEM}]
    BY <1>2, <2>1, <2>3
  <2>5. \A k \in NameBytes : nameSfn'[k] = IF k = nameI THEN N!Upper(nameC') ELSE nameSfn[k]
    BY <1>2, <2>1
  <2>6. \A k \in NameBytes : nameSfn'[k] = IF k \in nameI .. nameI + Len(u) - 1
                                           THEN N!Value(u)[k - nameI + 1] ELSE nameSfn[k]
    <3> SUFFICES ASSUME NEW k \in NameBytes
                 PROVE  nameSfn'[k] = IF k \in nameI .. nameI + Len(u) - 1
                                      THEN N!Value(u)[k - nameI + 1] ELSE nameSfn[k]
      OBVIOUS
    <3>1. k \in Int /\ (k \in nameI .. nameI + Len(u) - 1 <=> k = nameI)
          /\ (k = nameI => k - nameI + 1 = 1)
      BY <1>2, <1>4 DEF NameBytes
    <3>2. N!Value(u)[1] = N!Upper(nameC')
      BY <1>4
    <3> QED
      BY <2>5, <3>1, <3>2
  <2>7. N!TypeOK'
    <3>1. nameI' \in 0 .. nameNi'
      BY <1>2, <1>3, <2>1
    <3> QED
      BY <1>1, <2>1, <2>4, <3>1 DEF N!TypeOK, NameBytes
  <2>8. namePc' = "loop" /\ N!Legal(u)
    BY <1>4, <1>6, <2>1
  <2> QED
    BY <1>3, <1>4, <2>1, <2>2, <2>6, <2>7, <2>8, Taking
<1> QED
  BY <1>5, <1>6

(* The second byte of a character.                                       *)
LEMMA SecondByteStep ==
  ASSUME NameInv, N!SecondByte
  PROVE  NameInv'
<1>1. /\ N!TypeOK /\ NameSoFar /\ segment \in Seq(Units)
      /\ InFields(segment, nameI, nameNi)
      /\ namePc = "second" /\ nameC' \in N!Chars /\ nameC \in N!Chars
      /\ N!Dbc1st(nameC) /\ nameI < nameNi
  BY DEF NameInv, NameSoFar, N!SecondByte, N!TypeOK
<1>2. /\ Body \in Nat \ {0} /\ Ext \in Nat \ {0} /\ nameI \in Nat /\ nameNi \in Nat
      /\ nameNi <= Body + Ext
      /\ nameSfn \in [NameBytes -> (N!Chars \ {N!End}) \cup {N!Blank, N!RDDEM}]
  BY <1>1, NameNumbers
<1> DEFINE u == <<nameC, nameC'>>
<1>3. segment' = Append(segment, u)
  BY DEF N!SecondByte
<1>4. /\ u \in Units /\ Len(u) = 2 /\ u # Dot /\ N!Value(u) = u
      /\ N!Legal(u) <=> N!Dbc2nd(nameC')
      /\ u[1] = nameC /\ u[2] = nameC'
  BY <1>1, TwoByteUnit
<1> HIDE DEF u
<1>5. CASE ~ N!RoomForBoth(nameC')
  <2>1. N!Reject
    BY <1>5 DEF N!SecondByte
  <2>2. ~ N!TwoFields(Append(segment, u))
    <3>1. CASE ~ N!Dbc2nd(nameC')
      BY <1>1, <1>4, <3>1, IllegalIsNot
    <3>2. CASE ~ (nameI < nameNi - 1)
      <4>1. nameI + Len(u) > nameNi
        BY <1>2, <1>4, <3>2
      <4> QED
        BY <1>1, <1>2, <1>4, <4>1, UnitTooLong
    <3> QED
      BY <1>5, <3>1, <3>2 DEF N!RoomForBoth
  <2> QED
    BY <1>1, <1>3, <1>4, <2>1, <2>2, Rejecting
<1>6. CASE N!RoomForBoth(nameC')
  <2>1. /\ nameSfn' = [nameSfn EXCEPT ![nameI] = nameC, ![nameI + 1] = nameC']
        /\ nameI' = nameI + 2 /\ namePc' = "loop" /\ nameNi' = nameNi /\ nameLast' = nameLast
    BY <1>6 DEF N!SecondByte
  <2>2. /\ nameI \in NameBytes /\ nameI + 1 \in NameBytes
        /\ nameI + Len(u) <= nameNi /\ nameI' = nameI + Len(u)
    BY <1>2, <1>4, <1>6, <2>1 DEF NameBytes, N!RoomForBoth
  <2>3. nameC \in N!Chars \ {N!End} /\ nameC' \in N!Chars \ {N!End}
    BY <1>1, <1>6 DEF N!RoomForBoth, N!Dbc1st, N!Dbc2nd, N!End, N!DDEM
  <2>4. nameSfn' \in [NameBytes -> (N!Chars \ {N!End}) \cup {N!Blank, N!RDDEM}]
    BY <1>2, <2>1, <2>3
  <2>5. \A k \in NameBytes : nameSfn'[k] = IF k = nameI + 1 THEN nameC'
                                           ELSE IF k = nameI THEN nameC ELSE nameSfn[k]
    BY <1>2, <2>1
  <2>6. \A k \in NameBytes : nameSfn'[k] = IF k \in nameI .. nameI + Len(u) - 1
                                           THEN N!Value(u)[k - nameI + 1] ELSE nameSfn[k]
    <3> SUFFICES ASSUME NEW k \in NameBytes
                 PROVE  nameSfn'[k] = IF k \in nameI .. nameI + Len(u) - 1
                                      THEN N!Value(u)[k - nameI + 1] ELSE nameSfn[k]
      OBVIOUS
    <3>1. /\ k \in nameI .. nameI + Len(u) - 1 <=> k = nameI \/ k = nameI + 1
          /\ k = nameI => k - nameI + 1 = 1 /\ k # nameI + 1
          /\ k = nameI + 1 => k - nameI + 1 = 2
      BY <1>2, <1>4 DEF NameBytes
    <3> QED
      BY <1>4, <2>5, <3>1
  <2>7. N!TypeOK'
    <3>1. nameI' \in 0 .. nameNi'
      BY <1>2, <1>4, <2>1, <2>2
    <3> QED
      BY <1>1, <2>1, <2>4, <3>1 DEF N!TypeOK, NameBytes
  <2>8. N!Legal(u)
    BY <1>4, <1>6 DEF N!RoomForBoth
  <2> QED
    BY <1>1, <1>3, <1>4, <2>1, <2>2, <2>3, <2>6, <2>7, <2>8, Taking
<1> QED
  BY <1>5, <1>6

(* Every step keeps the invariant.                                       *)
LEMMA NameStep == NameInv /\ [N!Next]_nameVars => NameInv'
<1> SUFFICES ASSUME NameInv, [N!Next]_nameVars PROVE NameInv'
  OBVIOUS
<1>1. CASE UNCHANGED nameVars
  BY <1>1 DEF nameVars, NameInv, NameSoFar, N!TypeOK, N!NameIsEightThree, N!EightThree, N!DotName
<1>2. CASE N!Loop
  <2>1. namePc = "loop" /\ nameC' \in N!Chars
    BY <1>2 DEF N!Loop
  <2>2. CASE N!EndOfPath
    BY <2>1, <2>2, Finishing DEF N!EndOfPath
  <2>3. CASE N!Separator
    <3>1. /\ namePc' = "skip" /\ nameI' = nameI /\ nameNi' = nameNi /\ nameSfn' = nameSfn
          /\ nameLast' = nameLast /\ segment' = segment
      BY <2>3 DEF N!Separator
    <3>2. nameC' # N!End
      BY <2>3 DEF N!Separator, N!IsSeparator, N!End
    <3> QED
      BY <2>1, <3>1, <3>2 DEF NameInv, NameSoFar, N!TypeOK, N!NameIsEightThree, N!EightThree, N!DotName
  <2>4. CASE N!DotOrOverflow
    BY <2>1, <2>4, DotOrOverflowStep
  <2>5. CASE N!FirstByte
    <3>1. /\ namePc' = "second" /\ nameI' = nameI /\ nameNi' = nameNi /\ nameSfn' = nameSfn
          /\ nameLast' = nameLast /\ segment' = segment
          /\ N!Dbc1st(nameC') /\ nameI < nameNi /\ nameC' # N!End
      BY <2>5 DEF N!FirstByte, N!Fits
    <3>2. N!Dbc1st(nameC)'
      BY <3>1 DEF N!Dbc1st
    <3> QED
      BY <2>1, <3>1, <3>2 DEF NameInv, NameSoFar, N!TypeOK, N!NameIsEightThree, N!EightThree, N!DotName
  <2>6. CASE N!SingleByte
    BY <2>1, <2>6, SingleByteStep
  <2> QED
    BY <1>2, <2>2, <2>3, <2>4, <2>5, <2>6 DEF N!Loop
<1>3. CASE N!SecondByte
  BY <1>3, SecondByteStep
<1>4. CASE N!Skip
  <2>1. namePc = "skip" /\ nameC' \in N!Chars
    BY <1>4 DEF N!Skip
  <2>2. CASE N!IsSeparator(nameC')
    <3>1. /\ namePc' = namePc /\ nameI' = nameI /\ nameNi' = nameNi /\ nameSfn' = nameSfn
          /\ nameLast' = nameLast /\ segment' = segment
      BY <1>4, <2>2 DEF N!Skip
    <3>2. nameC' # N!End
      BY <2>2 DEF N!IsSeparator, N!End
    <3> QED
      BY <2>1, <3>1, <3>2 DEF NameInv, NameSoFar, N!TypeOK, N!NameIsEightThree, N!EightThree, N!DotName
  <2>3. CASE ~ N!IsSeparator(nameC')
    <3>1. N!Finish(nameC' = N!End) /\ (nameC' = N!End) \in BOOLEAN
      BY <1>4, <2>3 DEF N!Skip
    <3> QED
      BY <2>1, <3>1, Finishing
  <2> QED
    BY <2>2, <2>3
<1> QED
  BY <1>1, <1>2, <1>3, <1>4 DEF N!Next

-----------------------------------------------------------------------------
(* Both, as f_open uses them.                                            *)
LEMMA NamesInvariance == OpenSpec => []NameInv
<1>1. OpenInit => NameInv
  BY NameStart DEF OpenInit
<1>2. NameInv /\ [OpenNext]_<<called, mountVars, nameVars>> => NameInv'
  <2>1. [OpenNext]_<<called, mountVars, nameVars>> => [N!Next]_nameVars
    BY DEF OpenNext, nameVars
  <2> QED
    BY <2>1, NameStep
<1> QED
  BY <1>1, <1>2, PTL DEF OpenSpec

(* A behaviour of both is one of the search for a volume.                *)
LEMMA OpenMounts == OpenSpec => MountSpec
<1>1. OpenInit => MountInit
  BY DEF OpenInit
<1>2. [OpenNext]_<<called, mountVars, nameVars>> => [MountNext]_mountVars
  BY DEF OpenNext
<1> QED
  BY <1>1, <1>2, PTL DEF OpenSpec, MountSpec

(* No state of either is of the wrong type; in particular create_name    *)
(* never writes outside the name field, however long the segment.        *)
THEOREM OpenTypeCorrect == OpenSpec => []OpenTypeOK
<1>1. NameInv /\ MountTypeOK => OpenTypeOK
  BY DEF NameInv, OpenTypeOK
<1> QED
  BY <1>1, NamesInvariance, OpenMounts, MountTypeCorrect, PTL

(* For a path of any length, and fields of any width: a segment is       *)
(* accepted exactly if it is an 8.3 name, or a dot and perhaps an        *)
(* extension; that name is what is searched for, and the path is not     *)
(* read beyond its end (ff.c:3029-3090).                                 *)
THEOREM NamesAreEightThree == OpenSpec => []NameIsEightThree
<1>1. NameInv => NameIsEightThree
  BY DEF NameInv, NameIsEightThree
<1> QED
  BY <1>1, NamesInvariance, PTL
=============================================================================
