------------------------------- MODULE FatFs -------------------------------
(***************************************************************************)
(* FatFs (ff.c) as it is configured here: read-only, no long names, one    *)
(* volume.  A call of the API is a sequence of steps, of which each makes  *)
(* at most one decision on what disk_read gave; any disk_read may fail.    *)
(*                                                                         *)
(* Two buffers cache sectors: the window of the volume (win: FAT and       *)
(* directories) and the one of the file (fp.buf).  Of each there is the    *)
(* sector the code takes it for (win.tag, fp.sect) and the sector it holds *)
(* or Junk.  What junk would be taken for is chosen freely.                *)
(***************************************************************************)
EXTENDS FatVolume

CONSTANTS
  Volumes,    \* the volumes that may be on the card
  Requests,   \* the calls the program may make
  MaxMounts,  \* bound on Fsid, the number of mounts
  Faults      \* a subset of {"init", "read", "nofs"}

ASSUME RequestsAssumption ==
  /\ \A q \in Requests :
       /\ q.op \in {"mount", "unmount", "open", "read", "seek", "close"}
       /\ q.path \in Seq(STRING) /\ q.n \in Nat
  /\ MaxMounts \in Nat

(* The values of FAT entries, of which n_fatent stands for any that is not *)
(* smaller, and get_fat's answer to a disk error, 0xFFFFFFFF, which a       *)
(* directory entry may have for its first cluster.                         *)
FatValues(v) == 0 .. v.n_fatent \cup {DISK_ERR}

(* What mount_volume and the types of ff.c make sure of: there are         *)
(* reserved sectors (ff.c:3609) and clusters (3615); a root directory that *)
(* is not a chain has entries (3633), and fills its sectors (3603), one    *)
(* that is has none (3629).  No chain, no entry and no place of a cluster  *)
(* need be right.                                                          *)
ASSUME VolumesAssumption ==
  \A v \in Volumes :
    /\ v.type \in {"FAT12", "FAT16", "FAT32"}
    /\ v.csize \in Nat \ {0} /\ v.n_fatent \in 3 .. DISK_ERR - 1
    /\ v.fatbase \in Nat /\ v.dirbase \in Nat /\ v.database \in Nat \ {0}
    /\ v.n_rootdir \in Nat /\ v.n_rootdir % (SS \div SZDIRE) = 0
    /\ v.n_rootdir = 0 <=> v.type = "FAT32"
    /\ \A c \in Clusters(v) : v.fat[c] \in 0 .. v.n_fatent
    /\ \A s \in DOMAIN v.ent, i \in 1 .. SS \div SZDIRE :
         /\ v.ent[s][i].clust \in FatValues(v) /\ v.ent[s][i].size \in Nat
         /\ v.ent[s][i].name # "broken"

Junk == -2

VARIABLES
  vol,    \* the volume
  fs,     \* FATFS: registered, mounted (fs_type # 0), id; SD_init as up;
          \* history: ready, whether the last disk_initialize succeeded
  win,    \* the window
  fp,     \* FIL
  dp,     \* DIR dj of f_open, and the rest of its path
  pc,     \* the next step of the call
  call,   \* its request; n counts down; fptr and err of the file before it
  res,    \* its result, or "RUNNING"
  got,    \* the bytes read so far
  failed  \* history: whether a read has failed in this call

vars == <<vol, fs, win, fp, dp, pc, call, res, got, failed>>

(* The DIR of f_open is a local variable of it.                            *)
NoDir == [clust |-> 0, sect |-> 0, dptr |-> 0, path |-> <<>>]

Init ==
  /\ vol \in Volumes
  /\ fs = [registered |-> FALSE, mounted |-> FALSE, id |-> 0,
           up |-> FALSE, ready |-> FALSE]
  /\ win = [tag |-> NoSector, holds |-> Junk]
  /\ fp = [open |-> FALSE, id |-> 0, sclust |-> 0, size |-> 0, err |-> "FR_OK",
           fptr |-> 0, clust |-> 0, sect |-> 0, buf |-> Junk]
  /\ dp = NoDir
  /\ pc = "idle" /\ res = "NONE" /\ got = <<>> /\ failed = FALSE
  /\ \E q \in Requests : call = [q |-> q, n |-> 0, fptr |-> 0, err |-> "FR_OK"]

(* The program calls.                                                      *)
Call(q) ==
  /\ pc = "idle"
  /\ fs.id < MaxMounts \/ q.op \notin {"mount", "open"} \/ (q.op = "open" /\ fs.mounted)
  /\ pc' = q.op /\ res' = "RUNNING" /\ got' = <<>>
  /\ call' = [q |-> q, n |-> q.n, fptr |-> fp.fptr, err |-> fp.err]
  /\ failed' = FALSE /\ UNCHANGED <<vol, fs, win, fp, dp>>

Return(r) == pc' = "idle" /\ res' = r
Continue(next) == pc' = next /\ UNCHANGED res
Fault(f) == f \in Faults /\ failed' = (failed \/ f = "read")

-----------------------------------------------------------------------------
(* move_window, and whether it succeeds.                                   *)
MoveWindow(sect, ok) ==
  \/ ok /\ win.tag = sect /\ UNCHANGED <<win, failed>>
  \/ ok /\ win.tag # sect /\ win' = [tag |-> sect, holds |-> sect] /\ UNCHANGED failed
  \/ ~ok /\ win.tag # sect /\ Fault("read") /\ win' = [tag |-> NoSector, holds |-> Junk]

(* Mutant: the volume's last cluster is taken for one that is not there.   *)
HasEntryButLast(clst) == clst \in 2 .. vol.n_fatent - 2

HasEntry(clst) == clst \in Clusters(vol)

(* get_fat of a cluster, and its result.                                   *)
GetFat(clst, val) ==
  LET s == FatSector(vol, clst)
      last == FatSectorLast(vol, clst)
      misread == win.tag = s /\ win.holds # s
  IN  \/ ~HasEntry(clst) /\ val = 1 /\ UNCHANGED <<win, failed>>
      \/ /\ HasEntry(clst)
         /\ IF s = last THEN MoveWindow(last, TRUE)
            ELSE win' = [tag |-> last, holds |-> last] /\ UNCHANGED failed
         /\ IF misread THEN val \in 0 .. vol.n_fatent ELSE val = vol.fat[clst]
      \/ /\ HasEntry(clst) /\ val = DISK_ERR
         /\ IF s = last THEN MoveWindow(last, FALSE)
            ELSE Fault("read") /\ win' = [tag |-> NoSector, holds |-> Junk]

(* mount_volume with find_volume, where f is the filesystem object it      *)
(* finds: nothing to do if the volume is mounted and the drive up.          *)
(* Otherwise the drive is initialised again, and its boot sector read.  If  *)
(* the drive fails, SD_init stays as it is (diskio.c:61).                   *)
Mount(f, needed, r) ==
  \/ ~f.registered /\ r = "FR_NOT_ENABLED" /\ fs' = f /\ UNCHANGED <<win, failed>>
  \/ f.registered /\ ~needed /\ r = "FR_OK" /\ fs' = f /\ UNCHANGED <<win, failed>>
  \/ /\ f.registered /\ needed
     /\ LET up == [f EXCEPT !.mounted = FALSE, !.up = TRUE, !.ready = TRUE]
        IN  \/ /\ r = "FR_NOT_READY" /\ Fault("init")
               /\ fs' = [f EXCEPT !.mounted = FALSE, !.ready = FALSE] /\ UNCHANGED win
            \/ /\ r = "FR_DISK_ERR" /\ Fault("read")
               /\ fs' = up /\ win' = [tag |-> NoSector, holds |-> Junk]
            \/ /\ r = "FR_NO_FILESYSTEM" /\ Fault("nofs")
               /\ fs' = up /\ win' = [tag |-> 0, holds |-> 0]
            \/ /\ r = "FR_OK" /\ UNCHANGED failed
               /\ fs' = [up EXCEPT !.mounted = TRUE, !.id = @ + 1]
               /\ win' = [tag |-> 0, holds |-> 0]

MountVolume(f, r) == Mount(f, ~(f.mounted /\ f.up), r)

(* Mutant: fs_type is not looked at.                                       *)
ValidById == fp.open /\ fp.id = fs.id /\ fs.up

(* validate                                                                *)
Valid == fp.open /\ fs.mounted /\ fp.id = fs.id /\ fs.up

-----------------------------------------------------------------------------
MountResults == {"FR_OK", "FR_NOT_ENABLED", "FR_NOT_READY", "FR_DISK_ERR",
                 "FR_NO_FILESYSTEM"}

(* f_mount(&fs, "", 1): the object is registered, whatever it was, and     *)
(* then mounted.                                                           *)
FMount ==
  /\ pc = "mount"
  /\ \E r \in MountResults :
       MountVolume([fs EXCEPT !.registered = TRUE, !.mounted = FALSE], r) /\ Return(r)
  /\ UNCHANGED <<vol, fp, dp, call, got>>

(* f_mount(NULL, "", 0)                                                    *)
FUnmount ==
  /\ pc = "unmount"
  /\ fs' = [fs EXCEPT !.registered = FALSE, !.mounted = FALSE]
  /\ Return("FR_OK")
  /\ UNCHANGED <<vol, win, fp, dp, call, got, failed>>

OpenFails(r) == Return(r) /\ fp' = [fp EXCEPT !.open = FALSE] /\ dp' = NoDir

(* A directory is searched from its first entry.                           *)
Search(sclust, path) ==
  LET d == DirSdi(vol, sclust)
  IN  IF d.sect = 0 THEN OpenFails("FR_INT_ERR")
      ELSE /\ Continue("dir_find") /\ UNCHANGED fp
           /\ dp' = [clust |-> d.clust, sect |-> d.sect, dptr |-> 0, path |-> path]

(* A path without a name is that of the root directory, which is no file.  *)
OpensRoot ==
  OpenFails(IF DirSdi(vol, 0).sect = 0 THEN "FR_INT_ERR" ELSE "FR_INVALID_NAME")

(* f_open: mount_volume, then follow_path from the root.                   *)
FOpen ==
  /\ pc = "open"
  /\ \E r \in MountResults :
       /\ MountVolume(fs, r)
       /\ IF r # "FR_OK" THEN OpenFails(r)
          ELSE IF call.q.path = <<>> THEN OpensRoot
          ELSE Search(0, call.q.path)
  /\ UNCHANGED <<vol, call, got>>

(* The segment looked for is not there.                                    *)
NotFound == OpenFails(IF Len(dp.path) = 1 THEN "FR_NO_FILE" ELSE "FR_NO_PATH")

(* Mutant: what the file object held of an older file stays in its buffer. *)
OpenedKeepsSector(e) ==
  /\ Return("FR_OK") /\ dp' = NoDir
  /\ fp' = [open |-> TRUE, id |-> fs.id, sclust |-> e.clust, size |-> e.size,
            err |-> "FR_OK", fptr |-> 0, clust |-> fp.clust, sect |-> fp.sect, buf |-> fp.buf]

(* The end of f_open.                                                      *)
Opened(e) ==
  /\ Return("FR_OK") /\ dp' = NoDir
  /\ fp' = [open |-> TRUE, id |-> fs.id, sclust |-> e.clust, size |-> e.size,
            err |-> "FR_OK", fptr |-> 0, clust |-> fp.clust, sect |-> 0, buf |-> fp.buf]

(* The entry e has the name of the segment (follow_path, f_open).          *)
Found(e) ==
  IF Len(dp.path) = 1
  THEN IF e.attr = "dir" THEN OpenFails("FR_NO_FILE") ELSE Opened(e)
  ELSE IF e.attr # "dir" THEN OpenFails("FR_NO_PATH")
  ELSE Search(e.clust, Tail(dp.path))

(* Mutant: a volume label is taken for a file of its name.                 *)
MatchesLabel(e) == e.name = Head(dp.path)

Matches(e) == e.name = Head(dp.path) /\ e.attr # "vol"

(* One entry in the loop of dir_find.                                      *)
DirFind ==
  /\ pc = "dir_find"
  /\ \/ MoveWindow(dp.sect, FALSE) /\ OpenFails("FR_DISK_ERR")
     \/ /\ MoveWindow(dp.sect, TRUE)
        /\ LET e == EntryAt(vol, win'.holds, dp.dptr)
           IN  \/ e.name = "end" /\ NotFound
               \/ e.name # "end" /\ Matches(e) /\ Found(e)
               \/ e.name # "end" /\ ~Matches(e) /\ Continue("dir_next") /\ UNCHANGED <<fp, dp>>
  /\ UNCHANGED <<vol, fs, call, got>>

(* Mutant: the offset has a type that MAX_DIR is too large for.            *)
NextOffsetWraps == (dp.dptr + SZDIRE) % MAX_DIR

NextOffset == dp.dptr + SZDIRE

(* dir_next                                                                *)
DirNext ==
  /\ pc = "dir_next"
  /\ LET ofs == NextOffset
         MoveTo(clst, sect) ==
           /\ dp' = [dp EXCEPT !.dptr = ofs, !.clust = clst, !.sect = sect]
           /\ Continue("dir_find") /\ UNCHANGED fp
     IN  \/ /\ \/ ofs >= MAX_DIR
               \/ ofs % SS = 0 /\ dp.clust = 0 /\ ofs \div SZDIRE >= vol.n_rootdir
            /\ NotFound /\ UNCHANGED <<win, failed>>
         \/ /\ ofs < MAX_DIR /\ ofs % SS # 0
            /\ MoveTo(dp.clust, dp.sect) /\ UNCHANGED <<win, failed>>
         \/ /\ ofs < MAX_DIR /\ ofs % SS = 0
            /\ IF dp.clust = 0 THEN ofs \div SZDIRE < vol.n_rootdir
                               ELSE (ofs \div SS) % vol.csize # 0
            /\ MoveTo(dp.clust, dp.sect + 1) /\ UNCHANGED <<win, failed>>
         \/ /\ ofs < MAX_DIR /\ ofs % SS = 0
            /\ dp.clust # 0 /\ (ofs \div SS) % vol.csize = 0
            /\ \E val \in FatValues(vol) :
                 /\ GetFat(dp.clust, val)
                 /\ CASE val <= 1            -> OpenFails("FR_INT_ERR")
                      [] val = DISK_ERR      -> OpenFails("FR_DISK_ERR")
                      [] val = vol.n_fatent  -> NotFound
                      [] OTHER               -> MoveTo(val, Clst2Sect(vol, val))
  /\ UNCHANGED <<vol, fs, call, got>>

-----------------------------------------------------------------------------
Abort(r) == Return(r) /\ fp' = [fp EXCEPT !.err = r]

(* validate and fp->err at the beginning of f_read and f_lseek.            *)
MayUse == Valid /\ fp.err = "FR_OK"
Refuse == Return(IF Valid THEN fp.err ELSE "FR_INVALID_OBJECT") /\ UNCHANGED fp

Smaller(a, b) == IF a < b THEN a ELSE b

FRead ==
  /\ pc = "read"
  /\ \/ ~MayUse /\ Refuse /\ UNCHANGED call
     \/ /\ MayUse /\ Continue("cluster")
        /\ call' = [call EXCEPT !.n = Smaller(@, fp.size - fp.fptr)]
        /\ UNCHANGED fp
  /\ UNCHANGED <<vol, fs, win, dp, got, failed>>

Csect == (fp.fptr \div SS) % vol.csize
OnSector == fp.fptr % SS = 0

(* The loop of f_read: on the boundary of a cluster the chain is followed. *)
ReadCluster ==
  /\ pc = "cluster"
  /\ \/ call.n = 0 /\ Return("FR_OK") /\ UNCHANGED <<win, fp, failed>>
     \/ /\ call.n > 0 /\ ~(OnSector /\ Csect = 0)
        /\ Continue("sector") /\ UNCHANGED <<win, fp, failed>>
     \/ /\ call.n > 0 /\ OnSector /\ Csect = 0
        /\ \E clst \in FatValues(vol) :
             /\ IF fp.fptr = 0 THEN clst = fp.sclust /\ UNCHANGED <<win, failed>>
                               ELSE GetFat(fp.clust, clst)
             /\ CASE clst < 2        -> Abort("FR_INT_ERR")
                  [] clst = DISK_ERR -> Abort("FR_DISK_ERR")
                  [] OTHER -> Continue("sector") /\ fp' = [fp EXCEPT !.clust = clst]
  /\ UNCHANGED <<vol, fs, dp, call, got>>

Bytes(sect, from, n) ==
  [i \in 1 .. n |-> IF sect = Junk THEN <<Junk, i>>
                    ELSE <<sect + (from + i - 1) \div SS, (from + i - 1) % SS>>]

(* rcnt bytes have come from that sector, or those sectors.                *)
Advance(sect, from, rcnt, f) ==
  /\ got' = got \o Bytes(sect, from, rcnt)
  /\ call' = [call EXCEPT !.n = @ - rcnt]
  /\ fp' = [f EXCEPT !.fptr = @ + rcnt]
  /\ Continue("cluster")

(* The sectors that can be read at once, straight to the caller's buffer.  *)
WholeSectors == Smaller(call.n \div SS, vol.csize - Csect)

(* The second half of the loop: a sector, or sectors, are read.            *)
ReadSector ==
  /\ pc = "sector"
  /\ LET base == Clst2Sect(vol, fp.clust)
         sect == base + Csect
         rest == Smaller(SS - (fp.fptr % SS), call.n)
     IN  \/ /\ OnSector /\ base = 0
            /\ Abort("FR_INT_ERR") /\ UNCHANGED <<call, got, failed>>
         \/ /\ OnSector /\ base # 0 /\ call.n \div SS > 0
            /\ \/ Advance(sect, 0, WholeSectors * SS, fp) /\ UNCHANGED failed
               \/ Fault("read") /\ Abort("FR_DISK_ERR") /\ UNCHANGED <<call, got>>
         \/ /\ OnSector /\ base # 0 /\ call.n \div SS = 0
            /\ \/ fp.sect = sect /\ Advance(fp.buf, 0, rest, fp) /\ UNCHANGED failed
               \/ /\ fp.sect # sect /\ UNCHANGED failed
                  /\ Advance(sect, 0, rest, [fp EXCEPT !.sect = sect, !.buf = sect])
               \/ /\ fp.sect # sect /\ Fault("read") /\ Return("FR_DISK_ERR")
                  /\ fp' = [fp EXCEPT !.err = "FR_DISK_ERR", !.buf = Junk]
                  /\ UNCHANGED <<call, got>>
         \/ /\ ~OnSector /\ Advance(fp.buf, fp.fptr % SS, rest, fp) /\ UNCHANGED failed
  /\ UNCHANGED <<vol, fs, win, dp>>

-----------------------------------------------------------------------------
(* Mutant: a seek to the end of a cluster starts from the next one.        *)
SameOrLaterAtEnd(ofs, from) == ofs \div ClusterBytes(vol) >= from \div ClusterBytes(vol)

(* Mutant: the comparison is the wrong way round.                          *)
SameOrLaterSwapped(ofs, from) == (from - 1) \div ClusterBytes(vol) >= (ofs - 1) \div ClusterBytes(vol)

(* A seek to the same or a following cluster starts from the current one.  *)
SameOrLater(ofs, from) == (ofs - 1) \div ClusterBytes(vol) >= (from - 1) \div ClusterBytes(vol)

(* f_lseek; an offset past the end is clipped to the size.                 *)
FLseek ==
  /\ pc = "seek"
  /\ \/ ~MayUse /\ Refuse /\ UNCHANGED call
     \/ /\ MayUse
        /\ LET ofs == Smaller(call.n, fp.size)
               here == fp.fptr > 0 /\ SameOrLater(ofs, fp.fptr)
               from == IF here THEN (fp.fptr - 1) - ((fp.fptr - 1) % ClusterBytes(vol)) ELSE 0
               clst == IF here THEN fp.clust ELSE fp.sclust
           IN  \/ /\ ofs = 0
                  /\ fp' = [fp EXCEPT !.fptr = 0] /\ Return("FR_OK") /\ UNCHANGED call
               \/ /\ ofs > 0 /\ clst = 0
                  /\ fp' = [fp EXCEPT !.fptr = from, !.clust = 0]
                  /\ Return("FR_OK") /\ UNCHANGED call
               \/ /\ ofs > 0 /\ clst # 0
                  /\ fp' = [fp EXCEPT !.fptr = from, !.clust = clst]
                  /\ call' = [call EXCEPT !.n = ofs - from] /\ Continue("follow")
  /\ UNCHANGED <<vol, fs, win, dp, got, failed>>

(* One pass of its loop along the chain.                                   *)
SeekFollow ==
  /\ pc = "follow" /\ call.n > ClusterBytes(vol)
  /\ \E clst \in FatValues(vol) :
       /\ GetFat(fp.clust, clst)
       /\ LET f == [fp EXCEPT !.fptr = @ + ClusterBytes(vol)]
              Fails(r) == Return(r) /\ fp' = [f EXCEPT !.err = r]
          IN  CASE clst = DISK_ERR -> Fails("FR_DISK_ERR")
                [] clst \notin Clusters(vol) /\ clst # DISK_ERR -> Fails("FR_INT_ERR")
                [] OTHER -> Continue("follow") /\ fp' = [f EXCEPT !.clust = clst]
  /\ call' = [call EXCEPT !.n = @ - ClusterBytes(vol)]
  /\ UNCHANGED <<vol, fs, dp, got>>

(* The rest: the position inside the cluster, whose sector is read if the  *)
(* position is inside of it.                                               *)
SeekSector ==
  /\ pc = "follow" /\ call.n <= ClusterBytes(vol)
  /\ LET f == [fp EXCEPT !.fptr = @ + call.n]
         base == Clst2Sect(vol, fp.clust)
         nsect == base + call.n \div SS
     IN  \/ call.n % SS = 0 /\ fp' = f /\ Return("FR_OK") /\ UNCHANGED failed
         \/ /\ call.n % SS # 0 /\ base = 0
            /\ fp' = [f EXCEPT !.err = "FR_INT_ERR"] /\ Return("FR_INT_ERR")
            /\ UNCHANGED failed
         \/ /\ call.n % SS # 0 /\ base # 0
            /\ \/ nsect = fp.sect /\ fp' = f /\ Return("FR_OK") /\ UNCHANGED failed
               \/ /\ nsect # fp.sect /\ Return("FR_OK") /\ UNCHANGED failed
                  /\ fp' = [f EXCEPT !.sect = nsect, !.buf = nsect]
               \/ /\ nsect # fp.sect /\ Return("FR_DISK_ERR") /\ Fault("read")
                  /\ fp' = [f EXCEPT !.err = "FR_DISK_ERR", !.buf = Junk]
  /\ UNCHANGED <<vol, fs, win, dp, call, got>>

FClose ==
  /\ pc = "close"
  /\ \/ Valid /\ Return("FR_OK") /\ fp' = [fp EXCEPT !.open = FALSE]
     \/ ~Valid /\ Return("FR_INVALID_OBJECT") /\ UNCHANGED fp
  /\ UNCHANGED <<vol, fs, win, dp, call, got, failed>>

Step ==
  \/ FMount \/ FUnmount \/ FOpen \/ DirFind \/ DirNext
  \/ FRead \/ ReadCluster \/ ReadSector \/ FLseek \/ SeekFollow \/ SeekSector \/ FClose

Next == Step \/ \E q \in Requests : Call(q)

Spec == Init /\ [][Next]_vars

(* A call runs to its end: nothing but its own loops holds it up, for the  *)
(* boot loader runs it with interrupts off, and disk_read returns.         *)
FairSpec == Spec /\ WF_vars(Step)

-----------------------------------------------------------------------------
Results == {"NONE", "RUNNING", "FR_OK", "FR_DISK_ERR", "FR_INT_ERR", "FR_NOT_READY",
            "FR_NO_FILE", "FR_NO_PATH", "FR_INVALID_NAME", "FR_INVALID_OBJECT",
            "FR_NOT_ENABLED", "FR_NO_FILESYSTEM"}

(* The type of the state; a call has a result exactly when it has ended.   *)
TypeOK ==
  /\ vol \in Volumes
  /\ fs \in [registered : BOOLEAN, mounted : BOOLEAN, id : 0 .. MaxMounts,
             up : BOOLEAN, ready : BOOLEAN]
  /\ win.tag \in Int /\ win.holds \in Int
  /\ fp.open \in BOOLEAN /\ fp.id \in 0 .. MaxMounts /\ fp.err \in Results
  /\ \A x \in {fp.sclust, fp.size, fp.fptr, fp.clust, fp.sect} : x \in Nat
  /\ fp.buf \in Int
  /\ \A x \in {dp.clust, dp.sect, dp.dptr} : x \in Nat
  /\ pc \in {"idle", "mount", "unmount", "open", "read", "seek", "close",
            "dir_find", "dir_next", "cluster", "sector", "follow"}
  /\ call.q \in Requests /\ call.n \in Nat /\ call.fptr \in Nat /\ call.err \in Results
  /\ res \in Results /\ (res = "RUNNING" <=> pc # "idle")
  /\ failed \in BOOLEAN

(* The window of the volume holds the sector it is taken for, also after   *)
(* reads that failed and after another mount (move_window).                *)
WindowTrue == win.tag # NoSector => win.holds = win.tag

(* So does the buffer of a file that no error has spoilt (fp->sect).       *)
BufferTrue == fp.open /\ fp.err = "FR_OK" /\ fp.sect # 0 => fp.buf = fp.sect

(* No sector is taken for another (ff.c:1079, 3984).                       *)
BuffersTrue == WindowTrue /\ BufferTrue

Good == fp.open /\ fs.mounted /\ fp.id = fs.id

(* Between calls the position of a good file, its cluster and its sector   *)
(* agree: fp->clust is the one of the byte before the position and, inside *)
(* a sector, fp->sect the one of the position.  This is what f_read and    *)
(* f_lseek go on from.                                                     *)
CursorsAgree ==
  pc = "idle" /\ Good /\ fp.err = "FR_OK" /\ fp.fptr > 0 =>
    /\ fp.fptr <= fp.size
    /\ Clst2Sect(vol, fp.clust) # 0 =>
         fp.clust = Link(vol, fp.sclust, (fp.fptr - 1) \div ClusterBytes(vol))
    /\ fp.fptr % SS # 0 => fp.sect = FileByte(vol, fp.sclust, fp.fptr)[1]

(* No call uses the drive unless its last initialisation succeeded,        *)
(* although SD_init stays set when a later one fails (diskio.c:61).        *)
DriveReady ==
  pc \in {"dir_find", "dir_next", "cluster", "sector", "follow"} => fs.ready

PathsAsked == {q.path : q \in Requests}
IsFile(e) == e.name \notin {"end", "broken"} /\ e.attr # "dir"
NoFile == [size |-> -1, bytes |-> <<>>]
FileOf(v, sclust, size) == [size |-> size, bytes |-> FileBytes(v, sclust, size)]

(* What is under each path, on each volume.                                *)
Files ==
  [v \in Volumes |-> [p \in PathsAsked |->
     LET e == Target(v, p) IN IF IsFile(e) THEN FileOf(v, e.clust, e.size) ELSE NoFile]]

(* The volumes that have a root directory and where the paths asked for    *)
(* lead to no broken chain.                                                *)
Sound ==
  {v \in Volumes :
     /\ DirSdi(v, 0).sect # 0
     /\ \A p \in PathsAsked :
          /\ Target(v, p).name # "broken"
          /\ Files[v][p] # NoFile => Len(Files[v][p].bytes) = Files[v][p].size}

(* An error the program is told of is one that happened: a disk error only *)
(* if a read failed in this call or in one that spoilt the file, or the    *)
(* file begins at 0xFFFFFFFF, which f_read takes for get_fat's failure;    *)
(* an internal error only on a broken volume.                              *)
ErrorsHaveCause ==
  /\ res = "FR_DISK_ERR" =>
       failed \/ call.err = "FR_DISK_ERR" \/ (fp.open /\ fp.sclust = DISK_ERR)
  /\ res = "FR_INT_ERR" => vol \notin Sound

(* The calls keep the contract of FileApi, whatever the volume and the     *)
(* faults: a file opened is the one the path leads to, the bytes read are  *)
(* the next bytes of it, a failed read gives no byte of another place.     *)
Contract == INSTANCE FileApi WITH
  None   <- NoFile,
  files  <- Files[vol],
  handle <- IF ~Good THEN [good |-> FALSE, file |-> NoFile, pos |-> 0, err |-> "FR_OK"]
            ELSE LET err == IF pc = "idle" THEN fp.err ELSE call.err
                     fptr == IF pc = "idle" THEN fp.fptr ELSE call.fptr
                 IN  [good |-> TRUE, file |-> FileOf(vol, fp.sclust, fp.size), err |-> err,
                      pos |-> IF err = "FR_OK" THEN fptr ELSE 0],
  request <- call.q,
  result  <- res,
  data    <- IF pc = "idle" THEN got ELSE <<>>

KeepsContract == Contract!Spec

(* Every call returns, on a circular chain too (MAX_DIR in dir_next, the   *)
(* size of the file in f_read and f_lseek).                                *)
CallReturns == pc # "idle" ~> pc = "idle"
=============================================================================
