--------------------------- MODULE BootFlowProofs ---------------------------
(***************************************************************************)
(* The boot sequence for load addresses, piece sizes, file sizes and files *)
(* of any number: the images are in memory when main jumps to the          *)
(* firmware, but for what files that were loaded later were stored over.   *)
(***************************************************************************)
EXTENDS BootFlow, TLAPS

LEMMA NameOf ==
  /\ which = 1 => Name = "idk.raw"
  /\ which = 2 => Name = "image.bin"
  /\ which = 3 => Name = "tree.dtb"
  /\ which = 4 => Name = "fw_jump.bin"
BY DEF Name, Files

LEMMA AddrOf ==
  /\ Addr["idk.raw"] = VDP_B0_BASE
  /\ Addr["image.bin"] = KERNEL_ADDR
  /\ Addr["tree.dtb"] = DTB_ADDR
  /\ Addr["fw_jump.bin"] = OPENSBI_ADDR
BY DEF Addr, Names

LEMMA AddrType == \A n \in Names : Addr[n] \in Nat /\ Addr[n] <= VDP_B0_BASE
BY AddrOf, BootAssumption DEF Names

-----------------------------------------------------------------------------
(* The order of the loads.                                                 *)
InOrder ==
  /\ pc = "mount" => which = 1
  /\ pc = "vdp" => which = 1
  /\ pc \in {"unmount", "jump", "opensbi"} => which = 4

(* Only a failed load of the picture, and a call that succeeded with a     *)
(* read left open, leave main running on a tainted disk.                   *)
Untainted == Clean /\ pc # "returned" => ~tainted

(* What load_from_sd has stored of its file so far.                        *)
Reading ==
  Clean /\ pc = "read" =>
    /\ size[Name] = file.size
    /\ \A i \in 0 .. file.off - 1 : mem[Addr[Name] + i] = <<Name, i>>

Done(k) == k < which \/ (k = which /\ pc \in {"unmount", "jump", "opensbi"})

(* The files that were loaded before are still there, but for what the     *)
(* ones after them were, or are being, stored over.                        *)
LoadedKept ==
  Clean /\ pc # "returned" => \A k \in 2 .. 4 : Done(k) => Kept(k)

IInv == TypeOK /\ InOrder /\ Untainted /\ Reading /\ LoadedKept

LEMMA InitIInv == Init => IInv
<1> SUFFICES ASSUME Init PROVE IInv
  OBVIOUS
<1>1. mem \in [Cells -> Contents]
  BY DEF Init, Contents
<1>2. 0 \in 0 .. MaxSize
  BY BootAssumption
<1>3. file \in [size : 0 .. MaxSize, off : 0 .. MaxSize] /\ file.off <= file.size
  BY <1>2 DEF Init
<1>4. tainted = FALSE /\ halfOpen = FALSE
  BY DEF Init
<1>5. TypeOK
  <2>1. size \in Cards /\ pc = "mount" /\ which \in 1 .. 4
    BY DEF Init
  <2>2. unflushed \subseteq Names /\ failed \subseteq Names \cup {"mount"}
    BY DEF Init
  <2>3. tainted \in BOOLEAN /\ halfOpen \in BOOLEAN
    BY <1>4
  <2> QED
    BY <1>1, <1>3, <2>1, <2>2, <2>3, Zenon DEF TypeOK
<1>6. InOrder /\ Untainted /\ Reading
  BY DEF Init, InOrder, Untainted, Reading
<1>7. \A k \in 2 .. 4 : ~Done(k)
  BY DEF Init, Done
<1> QED
  BY <1>5, <1>6, <1>7 DEF IInv, LoadedKept

-----------------------------------------------------------------------------
(* The cells that hold a file lie in memory.                               *)
LEMMA FileCells ==
  ASSUME NEW n \in Names, NEW i \in 0 .. MaxSize
  PROVE  Addr[n] + i \in Cells
<1>1. Addr[n] \in Nat /\ Addr[n] <= VDP_B0_BASE
  BY AddrType
<1> QED
  BY <1>1, BootAssumption DEF Cells

(* Storing a piece keeps memory well formed and leaves other cells alone.  *)
LEMMA StoredCells ==
  ASSUME TypeOK, Name \in Names, NEW n \in Nat, n <= Rest, NEW good \in BOOLEAN
  PROVE  /\ Stored(n, good) \in [Cells -> Contents]
         /\ \A a \in Cells :
              a < Addr[Name] + file.off \/ a >= Addr[Name] + file.off + n =>
                Stored(n, good)[a] = mem[a]
<1> DEFINE base == Addr[Name]
           first == base + file.off
<1>1. base \in Nat
  BY AddrType
<1>2. file.size \in 0 .. MaxSize /\ file.off \in 0 .. MaxSize /\ MaxSize \in Nat
  BY BootAssumption DEF TypeOK
<1>3. n <= file.size - file.off
  BY DEF Rest
<1>4. Cells \subseteq Int
  BY BootAssumption DEF Cells
<1>5. ASSUME NEW a \in Cells, a \in first .. first + n - 1
      PROVE  a - base \in 0 .. MaxSize
  BY <1>1, <1>2, <1>3, <1>4, <1>5
<1> DEFINE f == [a \in Cells |-> IF a \in first .. first + n - 1
                                THEN IF good THEN <<Name, a - base>> ELSE Junk
                                ELSE mem[a]]
<1>6. Stored(n, good) = f
  BY DEF Stored
<1>7. mem \in [Cells -> Contents]
  BY DEF TypeOK
<1>8. ASSUME NEW a \in Cells PROVE f[a] \in Contents
  BY <1>5, <1>7 DEF Contents
<1>9. f \in [Cells -> Contents]
  BY <1>8
<1>10. ASSUME NEW a \in Cells, a < first \/ a >= first + n PROVE f[a] = mem[a]
  BY <1>1, <1>2, <1>4, <1>10
<1> QED
  BY <1>6, <1>9, <1>10

(* And puts the cells of the file behind the ones that are there.          *)
LEMMA StoredPiece ==
  ASSUME TypeOK, Name \in Names, NEW n \in Nat, n <= Rest,
         NEW i \in file.off .. file.off + n - 1
  PROVE  Stored(n, TRUE)[Addr[Name] + i] = <<Name, i>>
<1>1. Addr[Name] \in Nat
  BY AddrType
<1>2. file.size \in 0 .. MaxSize /\ file.off \in 0 .. MaxSize /\ MaxSize \in Nat
  BY BootAssumption DEF TypeOK
<1>3. i \in 0 .. MaxSize
  BY <1>2 DEF Rest
<1>4. Addr[Name] + i \in Cells
  BY <1>3, FileCells
<1>5. /\ Addr[Name] + i \in Addr[Name] + file.off .. Addr[Name] + file.off + n - 1
      /\ Addr[Name] + i - Addr[Name] = i
  BY <1>1, <1>2
<1>6. Stored(n, TRUE) =
        [a \in Cells |-> IF a \in Addr[Name] + file.off .. Addr[Name] + file.off + n - 1
                        THEN <<Name, a - Addr[Name]>> ELSE mem[a]]
  BY DEF Stored
<1>7. PICK c \in Cells : c = Addr[Name] + i
  BY <1>4
<1>8. Stored(n, TRUE)[c] = <<Name, c - Addr[Name]>>
  BY <1>5, <1>6, <1>7
<1>9. c - Addr[Name] = i
  BY <1>1, <1>2, <1>3, <1>7
<1> QED
  BY <1>7, <1>8, <1>9, Zenon

-----------------------------------------------------------------------------
LEMMA PieceBounds ==
  ASSUME TypeOK
  PROVE  /\ Rest \in Nat /\ Piece \in Nat /\ Piece <= Rest
         /\ Piece # LOAD_SIZE => Piece = Rest
         /\ file.off + Piece \in 0 .. MaxSize /\ file.off + Piece <= file.size
<1>1. /\ file.size \in 0 .. MaxSize /\ file.off \in 0 .. MaxSize
      /\ file.off <= file.size
  BY DEF TypeOK
<1>2. LOAD_SIZE \in Nat /\ MaxSize \in Nat
  BY BootAssumption
<1> QED
  BY <1>1, <1>2 DEF Rest, Piece

LEMMA NameType == TypeOK => Name \in Names /\ size[Name] \in Int
<1> SUFFICES ASSUME TypeOK PROVE Name \in Names /\ size[Name] \in Int
  OBVIOUS
<1>1. which = 1 \/ which = 2 \/ which = 3 \/ which = 4
  BY DEF TypeOK
<1>2. Name \in Names
  BY <1>1, NameOf DEF Names
<1>3. size \in [Names -> 0 .. MaxSize \cup {Missing}]
  BY BootAssumption DEF TypeOK
<1> QED
  BY <1>2, <1>3, BootAssumption DEF Missing

LEMMA SizeType == TypeOK => \A n \in Names : size[n] \in Int /\ size[n] <= MaxSize
<1> SUFFICES ASSUME TypeOK, NEW n \in Names
             PROVE  size[n] \in Int /\ size[n] <= MaxSize
  OBVIOUS
<1>1. size \in [Names -> 0 .. MaxSize \cup {Missing}]
  BY BootAssumption DEF TypeOK
<1> QED
  BY <1>1, BootAssumption DEF Missing

-----------------------------------------------------------------------------
(* What a successful f_read does to what is in memory.                     *)
LEMMA FReadStores ==
  ASSUME IInv, pc = "read", FRead(Piece), failed' = failed
  PROVE  /\ mem' \in [Cells -> Contents]
         /\ tainted' \in BOOLEAN /\ halfOpen' \in BOOLEAN
         /\ unflushed' \subseteq Names
         /\ Clean' => /\ Clean /\ ~tainted'
                      /\ \A i \in 0 .. file.off + Piece - 1 :
                           mem'[Addr[Name] + i] = <<Name, i>>
                      /\ \A k \in 2 .. 4 : k < which =>
                           \A i \in 0 .. size[Files[k]] - 1 :
                             \/ mem'[Addr[Files[k]] + i] = <<Files[k], i>>
                             \/ \E j \in k + 1 .. 4 :
                                  Addr[Files[k]] + i \in Region(Files[j])
<1>1. TypeOK
  BY DEF IInv
<1>2. Name \in Names
  BY <1>1, NameType
<1>3. /\ Piece \in Nat /\ Piece <= Rest
      /\ file.off + Piece \in 0 .. MaxSize /\ file.off + Piece <= file.size
  BY <1>1, PieceBounds
<1>4. tainted' \in BOOLEAN /\ halfOpen' \in BOOLEAN
  BY <1>1 DEF FRead, TypeOK
<1> DEFINE good == ~tainted /\ ~tainted'
<1>5. mem' = Stored(Piece, good) /\ good \in BOOLEAN
  BY DEF FRead
<1> HIDE DEF good
<1>6. mem' \in [Cells -> Contents]
  BY <1>1, <1>2, <1>3, <1>5, StoredCells
<1>7. unflushed' \subseteq Names
  BY <1>1, <1>2 DEF FRead, TypeOK
<1>8. ASSUME Clean'
      PROVE  /\ Clean /\ ~tainted' /\ good
  <2>1. Clean
    BY <1>8 DEF Clean, FRead
  <2>2. ~tainted
    BY <2>1 DEF IInv, Untainted
  <2>3. ~tainted'
    BY <1>8, <2>2, <1>4 DEF Clean, FRead
  <2> QED
    BY <2>1, <2>2, <2>3 DEF good
<1>9. ASSUME Clean', NEW i \in 0 .. file.off + Piece - 1
      PROVE  mem'[Addr[Name] + i] = <<Name, i>>
  <2>1. /\ Addr[Name] \in Nat /\ file.off \in Nat /\ i \in 0 .. MaxSize
        /\ MaxSize \in Nat
    BY <1>1, <1>2, <1>3, AddrType, BootAssumption DEF TypeOK
  <2>2. Addr[Name] + i \in Cells
    BY <1>2, <2>1, FileCells
  <2>3. CASE i < file.off
    <3>a. Clean /\ i \in 0 .. file.off - 1
      BY <1>8, <1>9, <2>1, <2>3
    <3>1. mem[Addr[Name] + i] = <<Name, i>>
      BY <3>a DEF IInv, Reading
    <3>2. Addr[Name] + i < Addr[Name] + file.off
      BY <2>1, <2>3
    <3>3. Stored(Piece, good)[Addr[Name] + i] = mem[Addr[Name] + i]
      BY <1>1, <1>2, <1>3, <1>5, <2>2, <3>2, StoredCells
    <3> QED
      BY <1>5, <3>1, <3>3
  <2>4. CASE i >= file.off
    <3>1. i \in file.off .. file.off + Piece - 1
      BY <1>3, <2>1, <2>4
    <3>2. mem' = Stored(Piece, TRUE)
      BY <1>5, <1>8, <1>9
    <3> QED
      BY <1>1, <1>2, <1>3, <3>1, <3>2, StoredPiece
  <2> QED
    BY <2>1, <2>3, <2>4
<1>10. ASSUME Clean', NEW k \in 2 .. 4, k < which, NEW i \in 0 .. size[Files[k]] - 1
       PROVE  \/ mem'[Addr[Files[k]] + i] = <<Files[k], i>>
              \/ \E j \in k + 1 .. 4 : Addr[Files[k]] + i \in Region(Files[j])
  <2> DEFINE n == Files[k]
  <2>1. n \in Names
    BY DEF Files, Names
  <2>2. /\ size[n] \in Int /\ size[n] <= MaxSize /\ MaxSize \in Nat
        /\ Addr[n] \in Nat /\ Addr[Name] \in Nat
        /\ file.off \in Nat /\ file.size \in Nat
    BY <1>1, <1>2, <2>1, SizeType, AddrType, BootAssumption DEF TypeOK
  <2>3. i \in 0 .. MaxSize
    BY <2>2
  <2>4. Addr[n] + i \in Cells
    BY <2>1, <2>3, FileCells
  <2>5. Clean
    BY <1>8, <1>10
  <2>6. file.size = size[Name]
    BY <2>5 DEF IInv, Reading
  <2>7. \/ mem[Addr[n] + i] = <<n, i>>
        \/ \E j \in k + 1 .. 4 : Addr[n] + i \in Region(Files[j])
    BY <1>10, <2>5 DEF IInv, LoadedKept, Done, Kept
  <2>8. CASE \/ Addr[n] + i < Addr[Name] + file.off
             \/ Addr[n] + i >= Addr[Name] + file.off + Piece
    <3>1. Stored(Piece, good)[Addr[n] + i] = mem[Addr[n] + i]
      BY <1>1, <1>2, <1>3, <1>5, <2>4, <2>8, StoredCells
    <3> QED
      BY <1>5, <2>7, <3>1
  <2>9. CASE ~(\/ Addr[n] + i < Addr[Name] + file.off
               \/ Addr[n] + i >= Addr[Name] + file.off + Piece)
    <3>1. Addr[n] + i \in Addr[Name] .. Addr[Name] + size[Name] - 1
      BY <1>3, <2>2, <2>3, <2>6, <2>9
    <3>2. Addr[n] + i \in Region(Files[which])
      BY <3>1 DEF Region, Name
    <3>3. which \in k + 1 .. 4
      BY <1>1, <1>10 DEF TypeOK
    <3> QED
      BY <3>2, <3>3
  <2> QED
    BY <2>8, <2>9
<1> QED
  BY <1>4, <1>6, <1>7, <1>8, <1>9, <1>10

-----------------------------------------------------------------------------
(* Steps that leave memory alone and load nothing keep what was loaded.    *)
LEMMA NothingLoaded ==
  ASSUME IInv, pc # "returned", Clean' => Clean, mem' = mem, size' = size,
         \A k \in 2 .. 4 : Done(k)' => Done(k)
  PROVE  LoadedKept'
BY DEF IInv, LoadedKept, Kept, Region

LEMMA StepIInv == IInv /\ [Next]_vars => IInv'
<1> SUFFICES ASSUME IInv, [Next]_vars PROVE IInv'
  OBVIOUS
<1>t. TypeOK /\ Name \in Names
  BY NameType DEF IInv
<1>o. InOrder /\ Untainted
  BY DEF IInv
<1>0. 0 \in 0 .. MaxSize
  BY BootAssumption
<1>1. CASE Mount
  <2>1. /\ which' = which /\ mem' = mem /\ file' = file /\ unflushed' = unflushed
        /\ pc' \in {"open", "returned"} /\ size' \in Cards /\ pc = "mount"
        /\ failed' \subseteq Names \cup {"mount"}
        /\ tainted' \in BOOLEAN /\ halfOpen' \in BOOLEAN
    BY <1>1, <1>t DEF Mount, TypeOK
  <2>2. TypeOK'
    BY <1>t, <2>1 DEF TypeOK
  <2>3. InOrder' /\ Reading'
    BY <2>1 DEF InOrder, Reading
  <2>4. Untainted'
    BY <1>1, <1>o DEF Mount, Untainted, Clean
  <2>5. which' = 1
    BY <1>o, <2>1 DEF InOrder
  <2>6. LoadedKept'
    BY <2>1, <2>5 DEF LoadedKept, Done
  <2> QED
    BY <2>2, <2>3, <2>4, <2>6 DEF IInv
<1>2. CASE Open
  <2>a. \/ /\ pc' = "read" /\ failed' = failed
           /\ \E n \in 0 .. MaxSize : /\ tainted \/ n = size[Name]
                                      /\ file' = [size |-> n, off |-> 0]
        \/ /\ LoadFailed /\ file' = file
           /\ failed' = failed \/ failed' = failed \cup {Name}
    BY <1>2, Zenon DEF Open
  <2>b. LoadFailed => /\ pc' \in {"returned", "vdp"}
                      /\ pc' = "vdp" => Name = "idk.raw"
    BY <1>t DEF LoadFailed, Required
  <2>c. which # 1 => Name # "idk.raw"
    BY <1>t, NameOf DEF TypeOK
  <2>1. /\ pc' \in {"read", "returned", "vdp"} /\ pc = "open"
        /\ pc' = "vdp" => which = 1
        /\ failed \subseteq failed' /\ failed' \subseteq failed \cup {Name}
    BY <1>2, <2>a, <2>b, <2>c DEF Open
  <2>2. /\ which' = which /\ mem' = mem /\ size' = size /\ halfOpen' = halfOpen
        /\ unflushed' = unflushed
    BY <1>2 DEF Open
  <2>3. tainted' \in BOOLEAN
    BY <1>2, <1>t DEF Open, TypeOK
  <2>4. Clean' => Clean
    BY <2>1, <2>2 DEF Clean
  <2>5. /\ file' \in [size : 0 .. MaxSize, off : 0 .. MaxSize]
        /\ file'.off <= file'.size
    <3>1. CASE file' = file
      BY <1>t, <3>1 DEF TypeOK
    <3>2. CASE \E n \in 0 .. MaxSize : file' = [size |-> n, off |-> 0]
      BY <1>0, <3>2
    <3> QED
      BY <2>a, <3>1, <3>2
  <2>6. TypeOK'
    BY <1>t, <2>1, <2>2, <2>3, <2>5 DEF TypeOK
  <2>7. InOrder'
    BY <1>o, <2>1, <2>2 DEF InOrder
  <2>8. Untainted'
    BY <1>2, <1>t, <1>o, <2>1, <2>4, NameOf DEF Open, LoadFailed, Untainted, Clean, TypeOK,
       Required, Names
  <2>9. Reading'
    <3>1. SUFFICES ASSUME Clean', pc' = "read"
                   PROVE  /\ size[Name] = file'.size
                          /\ file'.off = 0
      BY <2>2 DEF Reading, Name
    <3>2. ~tainted
      BY <1>o, <2>1, <2>4, <3>1 DEF Untainted
    <3> QED
      BY <2>a, <2>b, <3>1, <3>2
  <2>10. LoadedKept'
    BY <2>1, <2>2, <2>4, NothingLoaded DEF Done
  <2> QED
    BY <2>6, <2>7, <2>8, <2>9, <2>10 DEF IInv
<1>4. CASE VdpTest
  <2>1. /\ which' = 2 /\ pc' = "open" /\ pc = "vdp" /\ which = 1
        /\ UNCHANGED <<size, file, mem, tainted, failed, halfOpen>>
        /\ unflushed' = unflushed \ {"idk.raw"}
    BY <1>4, <1>o DEF VdpTest, InOrder
  <2>2. TypeOK'
    BY <1>t, <2>1 DEF TypeOK
  <2>3. InOrder' /\ Reading' /\ Untainted'
    BY <1>o, <2>1 DEF InOrder, Reading, Untainted, Clean
  <2>4. LoadedKept'
    BY <2>1 DEF LoadedKept, Done
  <2> QED
    BY <2>2, <2>3, <2>4 DEF IInv
<1>5. CASE Unmount \/ JumpToOpensbi
  <2>1. /\ pc \in {"unmount", "jump"} /\ pc' \in {"jump", "opensbi"}
        /\ UNCHANGED <<size, which, file, mem, unflushed, tainted, failed, halfOpen>>
    BY <1>5 DEF Unmount, JumpToOpensbi
  <2>2. TypeOK'
    BY <1>t, <2>1 DEF TypeOK
  <2>3. InOrder' /\ Reading' /\ Untainted'
    BY <1>o, <2>1 DEF InOrder, Reading, Untainted, Clean
  <2>4. LoadedKept'
    BY <2>1, NothingLoaded DEF Done, Clean
  <2> QED
    BY <2>2, <2>3, <2>4 DEF IInv
<1>6. CASE UNCHANGED vars
  <2>1. TypeOK' /\ InOrder' /\ Reading' /\ Untainted'
    BY <1>6 DEF IInv, vars, TypeOK, InOrder, Reading, Untainted, Clean, Name
  <2>2. LoadedKept'
    BY <1>6 DEF IInv, vars, LoadedKept, Clean, Done, Kept, Region
  <2> QED
    BY <2>1, <2>2 DEF IInv
<1>3. CASE Read
  <2>1. pc = "read" /\ size' = size
    BY <1>3 DEF Read
  <2>2. CASE /\ FRead(Piece)
             /\ file' = [file EXCEPT !.off = @ + Piece]
             /\ \/ Piece = LOAD_SIZE /\ UNCHANGED <<pc, which>>
                \/ Piece # LOAD_SIZE /\ Loaded
             /\ UNCHANGED failed
    <3>1. /\ mem' \in [Cells -> Contents]
          /\ tainted' \in BOOLEAN /\ halfOpen' \in BOOLEAN /\ unflushed' \subseteq Names
      BY <2>1, <2>2, FReadStores
    <3>2. Clean' => /\ Clean /\ ~tainted'
                    /\ \A i \in 0 .. file.off + Piece - 1 :
                         mem'[Addr[Name] + i] = <<Name, i>>
                    /\ \A k \in 2 .. 4 : k < which =>
                         \A i \in 0 .. size[Files[k]] - 1 :
                           \/ mem'[Addr[Files[k]] + i] = <<Files[k], i>>
                           \/ \E j \in k + 1 .. 4 :
                                Addr[Files[k]] + i \in Region(Files[j])
      BY <2>1, <2>2, FReadStores
    <3>3. /\ file' \in [size : 0 .. MaxSize, off : 0 .. MaxSize]
          /\ file'.off <= file'.size
          /\ file'.size = file.size /\ file'.off = file.off + Piece
      BY <1>t, <2>2, PieceBounds DEF TypeOK
    <3>i. file.off \in Int /\ file.size \in Int /\ Piece \in Int /\ file'.off \in Int
      BY <1>t, <3>3, PieceBounds DEF TypeOK
    <3>4. Clean => size[Name] = file.size
      BY <2>1 DEF IInv, Reading
    <3>5. Untainted'
      BY <3>2 DEF Untainted
    <3>6. CASE UNCHANGED <<pc, which>>
      <4>1. TypeOK'
        BY <1>t, <2>1, <2>2, <3>1, <3>3, <3>6 DEF TypeOK
      <4>2. InOrder'
        BY <1>o, <3>6 DEF InOrder
      <4>3. Reading'
        <5>1. Name' = Name
          BY <3>6 DEF Name
        <5>2. SUFFICES ASSUME Clean'
                       PROVE  /\ size[Name] = file'.size
                              /\ \A i \in 0 .. file'.off - 1 : mem'[Addr[Name] + i] = <<Name, i>>
          BY <2>1, <5>1 DEF Reading
        <5>3. file'.off - 1 = file.off + Piece - 1
          BY <3>i, <3>3
        <5>4. \A i \in 0 .. file.off + Piece - 1 : mem'[Addr[Name] + i] = <<Name, i>>
          BY <3>2, <5>2
        <5>5. size[Name] = file'.size
          BY <3>2, <3>3, <3>4, <5>2
        <5> QED
          BY <5>3, <5>4, <5>5
      <4>4. LoadedKept'
        BY <2>1, <3>2, <3>6 DEF IInv, LoadedKept, Kept, Region, Done
      <4> QED
        BY <3>5, <4>1, <4>2, <4>3, <4>4 DEF IInv
    <3>7. CASE Piece # LOAD_SIZE /\ Loaded
      <4>1. file.off + Piece = file.size
        BY <1>t, <3>7, PieceBounds DEF Rest, TypeOK
      <4>2. /\ Name = "idk.raw" => which' = which /\ pc' = "vdp"
            /\ Name = "image.bin" => which' = which + 1 /\ pc' = "open"
            /\ Name = "tree.dtb" => which' = which + 1 /\ pc' = "open"
            /\ Name = "fw_jump.bin" => which' = which /\ pc' = "unmount"
        BY <3>7 DEF Loaded
      <4>3. \/ which = 1 /\ Name = "idk.raw"
            \/ which = 2 /\ Name = "image.bin"
            \/ which = 3 /\ Name = "tree.dtb"
            \/ which = 4 /\ Name = "fw_jump.bin"
        BY <1>t, NameOf DEF TypeOK
      <4>4. /\ which' \in 1 .. 4 /\ pc' \in {"vdp", "open", "unmount"}
            /\ pc' = "vdp" => which' = 1
            /\ pc' = "unmount" => which' = 4
            /\ \A k \in 2 .. 4 : Done(k)' => k < which \/ k = which
        BY <2>1, <4>2, <4>3 DEF Done
      <4>5. TypeOK'
        BY <1>t, <2>1, <2>2, <3>1, <3>3, <4>4 DEF TypeOK
      <4>6. InOrder' /\ Reading'
        BY <4>4 DEF InOrder, Reading
      <4>7. ASSUME Clean', NEW k \in 2 .. 4, Done(k)'
            PROVE  /\ size[Files[k]] # Missing
                   /\ \A i \in 0 .. size[Files[k]] - 1 :
                        \/ mem'[Addr[Files[k]] + i] = <<Files[k], i>>
                        \/ \E j \in k + 1 .. 4 : Addr[Files[k]] + i \in Region(Files[j])
        <5>1. Clean
          BY <3>2, <4>7
        <5>2. CASE k < which
          BY <2>1, <3>2, <4>7, <5>1, <5>2 DEF IInv, LoadedKept, Kept, Done
        <5>3. CASE k = which
          <6>0. Files[k] = Name
            BY <5>3 DEF Name
          <6>1. size[Name] = file.size /\ file.size \in 0 .. MaxSize
            BY <1>t, <3>4, <5>1 DEF TypeOK
          <6>2. size[Name] # Missing
            BY <6>1, BootAssumption DEF Missing
          <6>3. size[Name] - 1 = file.off + Piece - 1
            BY <3>i, <4>1, <6>1
          <6>4. \A i \in 0 .. file.off + Piece - 1 : mem'[Addr[Name] + i] = <<Name, i>>
            BY <3>2, <4>7
          <6> QED
            BY <6>0, <6>2, <6>3, <6>4
        <5> QED
          BY <4>4, <4>7, <5>2, <5>3
      <4>8. LoadedKept'
        BY <2>1, <4>7 DEF LoadedKept, Kept, Region
      <4> QED
        BY <3>5, <4>5, <4>6, <4>8 DEF IInv
    <3> QED
      BY <2>2, <3>6, <3>7
  <2>3. CASE FReadFails /\ LoadFailed /\ UNCHANGED <<file, which>>
    <3>1. mem' \in [Cells -> Contents]
      <4>1. mem' = Stored(Piece, FALSE) /\ FALSE \in BOOLEAN
        BY <2>3 DEF FReadFails
      <4> QED
        BY <1>t, <4>1, PieceBounds, StoredCells
    <3>2. /\ tainted' \in BOOLEAN /\ halfOpen' = halfOpen
          /\ unflushed' \subseteq Names /\ failed' = failed \cup {Name}
      BY <1>t, <2>3 DEF FReadFails, TypeOK
    <3>3. /\ pc' \in {"returned", "vdp"}
          /\ pc' = "vdp" => Name = "idk.raw" /\ which = 1
      BY <1>t, <2>3, NameOf DEF LoadFailed, Required, TypeOK
    <3>4. TypeOK'
      BY <1>t, <2>1, <2>3, <3>1, <3>2, <3>3 DEF TypeOK
    <3>5. InOrder' /\ Reading'
      BY <2>3, <3>3 DEF InOrder, Reading
    <3>6. Clean' => pc' = "returned"
      BY <3>2, <3>3 DEF Clean
    <3>7. Untainted' /\ LoadedKept'
      BY <3>6 DEF Untainted, LoadedKept
    <3> QED
      BY <3>4, <3>5, <3>7 DEF IInv
  <2> QED
    BY <1>3, <2>2, <2>3, Zenon DEF Read
<1> QED
  BY <1>1, <1>2, <1>3, <1>4, <1>5, <1>6 DEF Next

-----------------------------------------------------------------------------
(* The inductive invariant holds in every reachable state.                 *)
THEOREM Invariance == Spec => []IInv
BY InitIInv, StepIInv, PTL DEF Spec

(* Type correctness: file_offset never passes the end of the file, and     *)
(* memory never holds a cell that is beyond the end of one.                *)
THEOREM TypeCorrect == Spec => []TypeOK
<1>1. IInv => TypeOK
  BY DEF IInv
<1> QED
  BY <1>1, Invariance, PTL

(* When main jumps to the firmware, every image is in memory, but for what *)
(* later ones were stored over, if no read of the picture failed and no    *)
(* call that succeeded has left a read open on the card.                   *)
THEOREM ImagesIntact == Spec => []IntactAtJump
<1>1. IInv => IntactAtJump
  <2> SUFFICES ASSUME IInv, pc \in {"jump", "opensbi"}, Clean, NEW k \in 2 .. 4
               PROVE  Kept(k)
    BY DEF IntactAtJump
  <2>1. which = 4
    BY DEF IInv, InOrder
  <2>2. Done(k)
    BY <2>1 DEF Done
  <2> QED
    BY <2>2 DEF IInv, LoadedKept
<1> QED
  BY <1>1, Invariance, PTL

(* Images that fit are stored over by none: they are whole.                *)
LEMMA FittingLieApart ==
  ASSUME TypeOK, Fits, NEW k \in 2 .. 4, NEW j \in k + 1 .. 4,
         NEW i \in 0 .. size[Files[k]] - 1
  PROVE  Addr[Files[k]] + i \notin Region(Files[j])
<1>1. /\ size["image.bin"] \in Int /\ size["tree.dtb"] \in Int
      /\ size["fw_jump.bin"] \in Int
  BY SizeType DEF Names
<1>2. (k = 2 /\ j = 3) \/ (k = 2 /\ j = 4) \/ (k = 3 /\ j = 4)
  OBVIOUS
<1>3. Files[2] = "image.bin" /\ Files[3] = "tree.dtb" /\ Files[4] = "fw_jump.bin"
  BY DEF Files
<1>4. CASE k = 2 /\ j = 3
  BY <1>1, <1>3, <1>4, AddrOf, BootAssumption DEF Region, Fits
<1>5. CASE k = 2 /\ j = 4
  BY <1>1, <1>3, <1>5, AddrOf, BootAssumption DEF Region, Fits
<1>6. CASE k = 3 /\ j = 4
  BY <1>1, <1>3, <1>6, AddrOf, BootAssumption DEF Region, Fits
<1> QED
  BY <1>2, <1>4, <1>5, <1>6

(* When the device tree ends before the firmware and the firmware before   *)
(* the kernel, as the addresses of main.c:12-15 ask for, every image is    *)
(* whole at the jump.                                                      *)
THEOREM FittingImagesWhole == Spec => [](Fits => NoneOverwritten)
<1>1. IInv /\ IntactAtJump => (Fits => NoneOverwritten)
  <2> SUFFICES ASSUME IInv, IntactAtJump, Fits, pc \in {"jump", "opensbi"}, Clean,
                      NEW n \in Required, NEW i \in 0 .. size[n] - 1
               PROVE  mem[Addr[n] + i] = <<n, i>>
    BY DEF NoneOverwritten, Intact
  <2>1. PICK k \in 2 .. 4 : Files[k] = n
    BY DEF Files, Required, Names
  <2>2. \/ mem[Addr[n] + i] = <<n, i>>
        \/ \E j \in k + 1 .. 4 : Addr[n] + i \in Region(Files[j])
    BY <2>1 DEF IntactAtJump, Kept
  <2>3. \A j \in k + 1 .. 4 : Addr[n] + i \notin Region(Files[j])
    BY <2>1, FittingLieApart DEF IInv
  <2> QED
    BY <2>2, <2>3
<1> QED
  BY <1>1, Invariance, ImagesIntact, PTL

-----------------------------------------------------------------------------
(* A step of main does not stop it without a cause.                        *)
LEMMA StepStopsForCause ==
  ASSUME IInv, StopsForCause, [Next]_vars
  PROVE  StopsForCause'
<1>t. TypeOK /\ Name \in Names
  BY NameType DEF IInv
<1>1. LoadFailed /\ pc' = "returned" => Name \in Required
  BY DEF LoadFailed
<1>2. CASE Mount
  BY <1>2 DEF Mount, StopsForCause
<1>3. CASE Open
  <2>1. size' = size /\ halfOpen' = halfOpen /\ pc = "open"
    BY <1>3 DEF Open
  <2>2. \/ pc' = "read" /\ failed' = failed
        \/ /\ tainted \/ size[Name] = Missing
           /\ LoadFailed /\ failed' = failed
        \/ LoadFailed /\ failed' = failed \cup {Name}
    BY <1>3 DEF Open
  <2>3. tainted => ~Clean'
    BY <2>1, <2>2 DEF IInv, Untainted, Clean
  <2> QED
    BY <1>1, <2>1, <2>2, <2>3 DEF StopsForCause
<1>4. CASE Read
  <2>1. CASE Loaded
    <3>1. pc' # "returned"
      BY <2>1 DEF Loaded
    <3> QED
      BY <3>1 DEF StopsForCause
  <2>2. CASE UNCHANGED <<pc, which>>
    BY <1>4, <2>2 DEF Read, StopsForCause
  <2>3. CASE FReadFails /\ LoadFailed
    <3>1. failed' = failed \cup {Name}
      BY <2>3 DEF FReadFails
    <3> QED
      BY <1>1, <2>3, <3>1 DEF StopsForCause
  <2> QED
    BY <1>4, <2>1, <2>2, <2>3, Zenon DEF Read
<1>5. CASE VdpTest \/ Unmount \/ JumpToOpensbi
  BY <1>5 DEF VdpTest, Unmount, JumpToOpensbi, StopsForCause
<1>6. CASE UNCHANGED vars
  BY <1>6 DEF vars, StopsForCause, Clean
<1> QED
  BY <1>2, <1>3, <1>4, <1>5, <1>6 DEF Next

(* main returns only when a needed file is missing or could not be read,   *)
(* or after the card was left tainted.                                     *)
THEOREM StopsWithCause == Spec => []StopsForCause
<1>1. Init => StopsForCause
  BY DEF Init, StopsForCause
<1>2. IInv /\ StopsForCause /\ [Next]_vars => StopsForCause'
  BY StepStopsForCause
<1> QED
  BY <1>1, <1>2, Invariance, PTL DEF Spec
=============================================================================
