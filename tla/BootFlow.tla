------------------------------ MODULE BootFlow ------------------------------
(***************************************************************************)
(* The boot sequence of main.c: mount the card, show a picture (VDP_test), *)
(* load the kernel, the device tree and the OpenSBI firmware into memory,  *)
(* unmount, and jump to the firmware.                                      *)
(*                                                                         *)
(* Files are read through FatFs in pieces of LOAD_SIZE.  What f_mount,     *)
(* f_open and f_read give is taken from ff.c and from what module Disk     *)
(* says of disk_read: a failed read of the card, or a read of many sectors *)
(* that ended without the card hearing so, may leave the disk tainted.  A  *)
(* tainted disk delivers anything, with FR_OK, and FatFs goes on with what *)
(* it gave, so that nothing which is read later is sure either.            *)
(*                                                                         *)
(* Memory is counted in cells of any size that divides LOAD_SIZE; a cell   *)
(* holds <<name, i>>, cell i of that file, or Junk, which is anything that *)
(* nobody may rely on, or what it held before.                             *)
(***************************************************************************)
EXTENDS Integers, Sequences

CONSTANTS
  DTB_ADDR, OPENSBI_ADDR, KERNEL_ADDR, VDP_B0_BASE,
  LOAD_SIZE,
  MaxSize,     \* bound on the size of a file
  Cards,       \* what may be on a FAT volume of the card: the size of each
               \* file, or Missing
  Faults       \* what the card may do, a subset of {"fail", "halfopen"}

Names == {"idk.raw", "image.bin", "tree.dtb", "fw_jump.bin"}
Missing == -1

ASSUME BootAssumption ==
  /\ DTB_ADDR \in Nat /\ OPENSBI_ADDR \in Nat /\ KERNEL_ADDR \in Nat
  /\ VDP_B0_BASE \in Nat /\ MaxSize \in Nat /\ LOAD_SIZE \in Nat \ {0}
  /\ DTB_ADDR <= OPENSBI_ADDR /\ OPENSBI_ADDR <= KERNEL_ADDR
  /\ KERNEL_ADDR <= VDP_B0_BASE
  /\ Cards \subseteq [Names -> 0 .. MaxSize \cup {Missing}]
  /\ Faults \subseteq {"fail", "halfopen"}

(* The files, in the order in which they are loaded, and where to.         *)
Files == <<"idk.raw", "image.bin", "tree.dtb", "fw_jump.bin">>
Required == Names \ {"idk.raw"}

Addr == [n \in Names |-> CASE n = "idk.raw"     -> VDP_B0_BASE
                           [] n = "image.bin"   -> KERNEL_ADDR
                           [] n = "tree.dtb"    -> DTB_ADDR
                           [] n = "fw_jump.bin" -> OPENSBI_ADDR]

Cells == 0 .. VDP_B0_BASE + MaxSize
Junk == <<"junk", 0>>
Old == <<"old", 0>>
Contents == (Names \X (0 .. MaxSize)) \cup {Junk, Old}

VARIABLES
  size,       \* the files on the volume that is mounted
  pc,         \* where main is
  which,      \* the file that load_from_sd is about
  file,       \* its FIL: the size that f_open found, and file_offset
  mem,        \* the memory, as the loader sees it through the data cache
  unflushed,  \* files whose cells may be in the data cache only
  tainted,    \* the disk is tainted, as in module Disk, or was
  failed,     \* history: files whose load a read error ended ("mount" too)
  halfOpen    \* history: a call that succeeded tainted the disk

vars == <<size, pc, which, file, mem, unflushed, tainted, failed,
          halfOpen>>

TypeOK ==
  /\ size \in Cards
  /\ pc \in {"mount", "open", "read", "vdp", "unmount", "jump", "opensbi",
             "returned"}
  /\ which \in 1 .. 4
  /\ file \in [size : 0 .. MaxSize, off : 0 .. MaxSize] /\ file.off <= file.size
  /\ mem \in [Cells -> Contents]
  /\ unflushed \subseteq Names
  /\ tainted \in BOOLEAN
  /\ failed \subseteq Names \cup {"mount"}
  /\ halfOpen \in BOOLEAN

Name == Files[which]

Init ==
  /\ size \in Cards
  /\ pc = "mount" /\ which = 1
  /\ file = [size |-> 0, off |-> 0]
  /\ mem = [a \in Cells |-> Old]
  /\ unflushed = {}
  /\ tainted = FALSE /\ failed = {} /\ halfOpen = FALSE

-----------------------------------------------------------------------------
(* f_mount reads single sectors.  When it fails, main returns.  A read of  *)
(* a partition that fails does not make it fail: find_volume passes over   *)
(* the partition, and the volume is one behind it (ff.c:3448-3450).        *)
Mount ==
  /\ pc = "mount"
  /\ \/ /\ pc' = "open"
        /\ UNCHANGED <<size, tainted, failed, halfOpen>>
     \/ /\ "fail" \in Faults
        /\ pc' = "open" /\ size' \in Cards
        /\ tainted' \in BOOLEAN /\ halfOpen' = tainted'
        /\ UNCHANGED failed
     \/ /\ "fail" \in Faults
        /\ pc' = "returned" /\ failed' = {"mount"} /\ tainted' \in BOOLEAN
        /\ UNCHANGED <<size, halfOpen>>
  /\ UNCHANGED <<which, file, mem, unflushed>>

(* Mutant: VDP_test gives the result to main, which returns.               *)
LoadFailedStops == pc' = "returned"

(* load_from_sd has returned -1: main returns, VDP_test does not look.     *)
LoadFailed == pc' = IF Name \in Required THEN "returned" ELSE "vdp"

(* f_open reads single sectors, those of the directory and of the FAT.     *)
Open ==
  /\ pc = "open"
  /\ \/ \E s \in 0 .. MaxSize :
          /\ tainted \/ s = size[Name]
          /\ file' = [size |-> s, off |-> 0]
          /\ pc' = "read"
          /\ UNCHANGED <<tainted, failed>>
     \/ /\ tainted \/ size[Name] = Missing
        /\ LoadFailed
        /\ UNCHANGED <<file, tainted, failed>>
     \/ /\ "fail" \in Faults \/ tainted
        /\ LoadFailed
        /\ tainted' \in {tainted, TRUE}
        /\ failed' = failed \cup {Name}
        /\ UNCHANGED file
  /\ UNCHANGED <<size, which, mem, unflushed, halfOpen>>

(* The bytes that f_read is to deliver now: LOAD_SIZE, or what is left.    *)
Rest == file.size - file.off
Piece == IF Rest < LOAD_SIZE THEN Rest ELSE LOAD_SIZE

(* Mutant: the pieces are all stored at the beginning.                     *)
StoredAtStart(n, good) ==
  [a \in Cells |-> IF a \in Addr[Name] .. Addr[Name] + n - 1
                   THEN IF good THEN <<Name, a - Addr[Name] + file.off>> ELSE Junk
                   ELSE mem[a]]

(* Memory after n cells of the file were stored behind the ones before.    *)
Stored(n, good) ==
  LET first == Addr[Name] + file.off
  IN  [a \in Cells |-> IF a \in first .. first + n - 1
                       THEN IF good THEN <<Name, a - Addr[Name]>> ELSE Junk
                       ELSE mem[a]]

(* f_read returns FR_OK with n cells: of the file, unless the disk was     *)
(* tainted before or became so on the way.                                 *)
FRead(n) ==
  /\ \/ UNCHANGED tainted
     \/ "halfopen" \in Faults /\ n > 0 /\ tainted' = TRUE
  /\ halfOpen' = (halfOpen \/ (tainted' /\ ~tainted))
  /\ mem' = Stored(n, ~tainted /\ ~tainted')
  /\ unflushed' = IF n = 0 THEN unflushed ELSE unflushed \cup {Name}

(* f_read fails, at the card or over what a tainted disk gave for the FAT, *)
(* after it stored who knows what of the cells.                            *)
FReadFails ==
  /\ "fail" \in Faults \/ tainted
  /\ Rest > 0
  /\ mem' = Stored(Piece, FALSE)
  /\ unflushed' = unflushed \cup {Name}
  /\ tainted' \in {tainted, TRUE}
  /\ halfOpen' = halfOpen
  /\ failed' = failed \cup {Name}

(* The end of load_from_sd, and what main, or VDP_test, does then.         *)
Loaded ==
  /\ pc' = CASE Name = "idk.raw"     -> "vdp"
             [] Name = "fw_jump.bin" -> "unmount"
             [] OTHER                -> "open"
  /\ which' = IF Name \in {"image.bin", "tree.dtb"} THEN which + 1 ELSE which

(* Mutant: after a failed read the file is read again from its start.      *)
ReadRetried ==
  /\ pc = "read"
  /\ \/ /\ FRead(Piece)
        /\ file' = [file EXCEPT !.off = @ + Piece]
        /\ \/ Piece = LOAD_SIZE /\ UNCHANGED <<pc, which>>
           \/ Piece # LOAD_SIZE /\ Loaded
        /\ UNCHANGED failed
     \/ /\ FReadFails
        /\ file' = [file EXCEPT !.off = 0]
        /\ UNCHANGED <<pc, which>>
  /\ UNCHANGED size

(* One pass through the loop of load_from_sd, which ends with a piece      *)
(* shorter than LOAD_SIZE, be it empty.                                    *)
Read ==
  /\ pc = "read"
  /\ \/ /\ FRead(Piece)
        /\ file' = [file EXCEPT !.off = @ + Piece]
        /\ \/ Piece = LOAD_SIZE /\ UNCHANGED <<pc, which>>
           \/ Piece # LOAD_SIZE /\ Loaded
        /\ UNCHANGED failed
     \/ /\ FReadFails
        /\ LoadFailed
        /\ UNCHANGED <<file, which>>
  /\ UNCHANGED size

(* The rest of VDP_test: the frame buffer is flushed, and the sprite moved *)
(* in the next vertical blank.                                             *)
VdpTest ==
  /\ pc = "vdp"
  /\ unflushed' = unflushed \ {"idk.raw"}
  /\ which' = 2
  /\ pc' = "open"
  /\ UNCHANGED <<size, file, mem, tainted, failed, halfOpen>>

Unmount ==
  /\ pc = "unmount"
  /\ pc' = "jump"
  /\ UNCHANGED <<size, which, file, mem, unflushed, tainted, failed,
                 halfOpen>>

(* jump_to_opensbi: interrupts and translation off, the fences, the jump.  *)
JumpToOpensbi ==
  /\ pc = "jump"
  /\ pc' = "opensbi"
  /\ UNCHANGED <<size, which, file, mem, unflushed, tainted, failed,
                 halfOpen>>

Next == Mount \/ Open \/ Read \/ VdpTest \/ Unmount \/ JumpToOpensbi

Spec == Init /\ [][Next]_vars

(* main is the only thread, and every call in it returns.                  *)
FairSpec == Spec /\ WF_vars(Next)

-----------------------------------------------------------------------------
(* No picture failed at the card, for then nothing stops the boot          *)
(* (VDP.c:292), and no call that succeeded has left a read open there: an  *)
(* f_read whose end the card missed (sd.c:393), or a mount that passed     *)
(* over a partition which it could not read (ff.c:3450).                   *)
Clean == "idk.raw" \notin failed /\ ~halfOpen

Region(n) == Addr[n] .. Addr[n] + size[n] - 1

(* The k-th file is in memory but for what later files were stored over.   *)
Kept(k) ==
  LET n == Files[k]
  IN  /\ size[n] # Missing
      /\ \A i \in 0 .. size[n] - 1 :
           \/ mem[Addr[n] + i] = <<n, i>>
           \/ \E j \in k + 1 .. 4 : Addr[n] + i \in Region(Files[j])

(* When control goes to the firmware, the kernel, the device tree and the  *)
(* firmware are in memory as they are on the volume, though files of any   *)
(* size are stored piece by piece, and after a picture that may be         *)
(* missing.  Where they overlap, the cells are those of the file that was  *)
(* loaded last (main.c:376-394).                                           *)
IntactAtJump ==
  pc \in {"jump", "opensbi"} /\ Clean => \A k \in 2 .. 4 : Kept(k)

(* main returns only for a reason: a file that it needs is missing or      *)
(* could not be read, or the card was tainted before.  The picture may be  *)
(* missing (main.c:334-404, VDP.c:292).                                    *)
StopsForCause ==
  pc = "returned" =>
    \/ failed \cap (Required \cup {"mount"}) # {}
    \/ \E n \in Required : size[n] = Missing
    \/ ~Clean

(* The boot ends, one way or the other, with files of any size and with    *)
(* any failures.                                                           *)
BootEnds == <>(pc \in {"opensbi", "returned"})

(* "Flush loaded ranges explicitly before calling this function" says      *)
(* jump_to_opensbi (main.c:276-279) of itself.  It does not hold (README,  *)
(* 7): main flushes nothing but the frame buffer.                          *)
FlushedAtJump == pc = "opensbi" => unflushed = {}

(* Every image is whole.  It does not hold either (README, 7): nothing     *)
(* compares the size of a file with the room for it.                       *)
Intact(n) == \A i \in 0 .. size[n] - 1 : mem[Addr[n] + i] = <<n, i>>
NoneOverwritten ==
  pc \in {"jump", "opensbi"} /\ Clean => \A n \in Required : Intact(n)

(* The device tree ends before the firmware, the firmware before the       *)
(* kernel.                                                                 *)
Fits ==
  /\ DTB_ADDR + size["tree.dtb"] <= OPENSBI_ADDR
  /\ OPENSBI_ADDR + size["fw_jump.bin"] <= KERNEL_ADDR
=============================================================================
