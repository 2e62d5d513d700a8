----------------------------- MODULE Emulation -----------------------------
(***************************************************************************)
(* emulation.c: the instructions that the hart lacks (atomics, accesses    *)
(* that are not aligned) are carried out by the handlers that              *)
(* emulation_init installs, on the trap frame that boot.S builds, one      *)
(* memory access at a time.  An access runs with mstatus.MPRV set and      *)
(* mtvec pointing behind it, so that one that faults goes on there.        *)
(*                                                                         *)
(* The program is in supervisor mode.  Between its instructions its        *)
(* registers but sp may change, and after a fault its supervisor may change *)
(* what is mapped.                                                         *)
(***************************************************************************)
EXTENDS Words

CONSTANTS Regs,     \* numbers of registers, 0 and SP among them
          Instrs,   \* the instructions: [op, rd, rs1, rs2, fn]
          Places,   \* bound: number of emulated instructions of a run
          Values,   \* what the other instructions put in registers
          MSp,      \* M-mode's stack pointer while the handler runs
          Stale,    \* words that may be left in the frame's slot of x0
          Maps      \* the permissions that the supervisor may give

SP == 2
NoReservation == 0
NoLink == -1

VARIABLES
  x, pc, sepc, mem, perm,   \* the program's state (see Isa)
  reservation,              \* load_reservation
  mtvec,                    \* "isr" for isr_vector, or "access"
  at,                       \* "program", or the handler's next access
  ins,                      \* the instruction that trapped
  ctx,                      \* the frame: reg, and where it returns to
  i, data,                  \* the handlers' loop and what it has read
  link,                     \* history: the word of the last LR that no SC
                            \* has stored to
  was                       \* history: mem and link at the trap, and the
                            \* instruction before it

vars == <<x, pc, sepc, mem, perm, reservation, mtvec, at, ins, ctx, i, data, link, was>>
program == <<x, pc, sepc, perm>>

Loads == {"lw", "lh", "lhu"}
Stores == {"sw", "sh"}
Address == x[ins.rs1]

ASSUME EmulationAssumption ==
  /\ {0, SP} \subseteq Regs /\ Places \in Nat
  /\ {MSp} \cup Stale \cup Values \subseteq Word
  /\ \A n \in Instrs :
       /\ {n.rd, n.rs1, n.rs2} \subseteq Regs
       /\ n.op \in {"lr", "sc", "amo"} \cup Loads \cup Stores
       /\ n.op = "amo" => n.fn \in {"add", "swap", "min", "maxu"}

NoIns == [op |-> "none"]
NoFrame == [reg |-> [r \in Regs |-> 0], to |-> "same"]

Init ==
  /\ x = [r \in Regs |-> 0] /\ pc = 0 /\ sepc = 0
  /\ mem = [a \in Word |-> a % ByteSize] /\ perm \in Maps
  /\ reservation = NoReservation /\ mtvec = "isr"
  /\ at = "program" /\ ins = NoIns
  /\ ctx = NoFrame /\ i = 0 /\ data = 0
  /\ link = NoLink /\ was = [mem |-> mem, link |-> link, ins |-> NoIns]

(* Accesses through the program's mapping.                                 *)
Mapped(a) == perm[a - (a % WordBytes)]
Readable(a) == Mapped(a) # "none"
Writable(a) == Mapped(a) = "rw"

(* Between the instructions that trap.                                     *)
Compute ==
  /\ at = "program" /\ pc # Stvec
  /\ \E r \in Regs \ {0, SP}, v \in Values : x' = [x EXCEPT ![r] = v]
  /\ UNCHANGED <<pc, sepc, mem, perm, reservation, mtvec, at, ins, ctx, i, data, link, was>>

Supervisor ==
  /\ at = "program" /\ pc = Stvec
  /\ pc' = sepc /\ perm' \in Maps
  /\ UNCHANGED <<x, sepc, mem, reservation, mtvec, at, ins, ctx, i, data, link, was>>

Len(op) == IF op \in {"lh", "lhu", "sh"} THEN HalfBytes ELSE WordBytes

(* What the handler of the instruction does first: the instruction itself  *)
(* is read if mtval holds the address (trap_misaligned_ld, _st).           *)
FirstAccess(op) == IF op \in Loads \cup Stores THEN "fetch" ELSE op

(* isr_vector: sp is swapped with mscratch before the registers are saved, *)
(* and the slot of x0 is not written.                                      *)
Trap(n) ==
  /\ at = "program" /\ pc # Stvec /\ pc < Places
  /\ n.op \in Loads \cup Stores => ~Aligned(x[n.rs1], Len(n.op))
  /\ ins' = n /\ at' = FirstAccess(n.op)
  /\ \E s \in Stale : ctx' = [reg |-> [x EXCEPT ![SP] = MSp, ![0] = s], to |-> "same"]
  /\ i' = 0 /\ data' = 0
  /\ UNCHANGED <<program, mem, reservation, mtvec, link, was>>

(* Mutant: the vector stays where the last access put it.                  *)
RedirectKeepsVector(reg) ==
  /\ at' = "restore" /\ ctx' = [reg |-> reg, to |-> "stvec"]
  /\ mtvec' = "access"

(* emulation_trap_to_supervisor, after an access that faulted.             *)
Redirect(reg) ==
  /\ at' = "restore" /\ ctx' = [reg |-> reg, to |-> "stvec"]
  /\ mtvec' = "isr"

(* The end of a handler: the instruction is skipped.                       *)
Finish(reg) ==
  /\ at' = "restore" /\ ctx' = [reg |-> reg, to |-> "next"]
  /\ mtvec' = "isr"

(* emulation_read_word and its like have gone through and another access   *)
(* follows.                                                                *)
Proceed(next) ==
  /\ at' = next /\ mtvec' = "access" /\ UNCHANGED ctx

Reg(r) == IF r # 0 THEN ctx.reg[r] ELSE 0
Set(r, v) == [ctx.reg EXCEPT ![r] = v]

(* trap_invalid_inst, LR: rs1 is not compared with 0 there.                *)
EmulateLR ==
  /\ at = "lr"
  /\ LET addr == ctx.reg[ins.rs1]
     IN  IF Aligned(addr, WordBytes) /\ Readable(addr)
         THEN /\ reservation' = addr /\ link' = addr
              /\ Finish(Set(ins.rd, Get(mem, addr, WordBytes)))
         ELSE Redirect(ctx.reg) /\ UNCHANGED <<reservation, link>>
  /\ UNCHANGED <<program, mem, ins, i, data, was>>

ReservationAfterStore == NoReservation

(* SC                                                                      *)
EmulateSC ==
  /\ at = "sc"
  /\ LET addr == Reg(ins.rs1)
     IN  \/ /\ reservation = addr /\ Aligned(addr, WordBytes) /\ Writable(addr)
            /\ mem' = Put(mem, addr, WordBytes, Reg(ins.rs2))
            /\ reservation' = ReservationAfterStore /\ link' = NoLink
            /\ Finish(Set(ins.rd, 0))
         \/ /\ reservation = addr /\ ~(Aligned(addr, WordBytes) /\ Writable(addr))
            /\ Redirect(ctx.reg) /\ UNCHANGED <<mem, reservation, link>>
         \/ /\ reservation # addr
            /\ Finish(Set(ins.rd, 1)) /\ UNCHANGED <<mem, reservation, link>>
  /\ UNCHANGED <<program, ins, i, data, was>>

Smaller(a, b) == IF a < b THEN a ELSE b
Larger(a, b) == IF a > b THEN a ELSE b

(* The switch on sel; the bitwise functions, and those of the other sign,  *)
(* are left out.                                                           *)
AmoResult(fn, src, old) ==
  CASE fn = "add"  -> Wrap(src + old)
    [] fn = "swap" -> src
    [] fn = "min"  -> Wrap(Smaller(Signed(src), Signed(old)))
    [] fn = "maxu" -> Larger(src, old)

(* The other atomics: a load, whose value reg[rd] gets only ...            *)
AtomicLoad ==
  /\ at = "amo"
  /\ LET addr == Reg(ins.rs1)
     IN  IF Aligned(addr, WordBytes) /\ Readable(addr)
         THEN data' = Get(mem, addr, WordBytes) /\ Proceed("amo store")
         ELSE Redirect(ctx.reg) /\ UNCHANGED data
  /\ UNCHANGED <<program, mem, reservation, ins, i, link, was>>

(* Mutant: reg[rd] is written although the store faults.                   *)
RegsIfStoreFaultsWritten == Set(ins.rd, data)

RegsIfStoreFaults == ctx.reg

(* ... when the store has gone through.                                    *)
AtomicStore ==
  /\ at = "amo store"
  /\ LET addr == Reg(ins.rs1)
     IN  IF Writable(addr)
         THEN /\ mem' = Put(mem, addr, WordBytes, AmoResult(ins.fn, Reg(ins.rs2), data))
              /\ Finish(Set(ins.rd, data))
         ELSE Redirect(RegsIfStoreFaults) /\ UNCHANGED mem
  /\ UNCHANGED <<program, reservation, ins, i, data, link, was>>

(* trap_misaligned_ld and trap_misaligned_st read the instruction, which   *)
(* may be where the program cannot read.                                   *)
Fetch ==
  /\ at = "fetch"
  /\ \/ Proceed(IF ins.op \in Loads THEN "load" ELSE "store")
     \/ Redirect(ctx.reg)
  /\ UNCHANGED <<program, mem, reservation, ins, i, data, link, was>>

(* Mutant: the loop over the bytes makes one pass too many.                *)
MoreBytesAndOne == i <= Len(ins.op)

MoreBytes == i < Len(ins.op)

LoadByte ==
  /\ at = "load" /\ MoreBytes
  /\ LET a == Wrap(Address + i)
     IN  IF Readable(a)
         THEN data' = data + mem[a] * Weight(i) /\ i' = i + 1 /\ Proceed("load")
         ELSE Redirect(ctx.reg) /\ UNCHANGED <<i, data>>
  /\ UNCHANGED <<program, mem, reservation, ins, link, was>>

Loaded == IF ins.op = "lh" THEN Extend(data) ELSE data

LoadEnds ==
  /\ at = "load" /\ ~MoreBytes
  /\ Finish(IF ins.rd # 0 THEN Set(ins.rd, Loaded) ELSE ctx.reg)
  /\ UNCHANGED <<program, mem, reservation, ins, i, data, link, was>>

StoreByte ==
  /\ at = "store" /\ MoreBytes
  /\ LET a == Wrap(Address + i)
     IN  IF Writable(a)
         THEN mem' = [mem EXCEPT ![a] = ByteOf(Reg(ins.rs2), i)] /\ i' = i + 1 /\ Proceed("store")
         ELSE Redirect(ctx.reg) /\ UNCHANGED <<mem, i>>
  /\ UNCHANGED <<program, reservation, ins, data, link, was>>

StoreEnds ==
  /\ at = "store" /\ ~MoreBytes
  /\ Finish(ctx.reg)
  /\ UNCHANGED <<program, mem, reservation, ins, i, data, link, was>>

(* The end of isr_vector: x2 is not loaded from the frame, x0 neither.     *)
Restore ==
  /\ at = "restore" /\ at' = "program"
  /\ x' = [r \in Regs |-> IF r \in {0, SP} THEN x[r] ELSE ctx.reg[r]]
  /\ IF ctx.to = "stvec" THEN sepc' = pc /\ pc' = Stvec
                         ELSE pc' = pc + 1 /\ UNCHANGED sepc
  /\ was' = [mem |-> mem, link |-> link, ins |-> ins] /\ i' = 0 /\ data' = 0
  /\ ins' = NoIns /\ ctx' = NoFrame
  /\ UNCHANGED <<mem, perm, reservation, mtvec, link>>

Handler ==
  \/ EmulateLR \/ EmulateSC \/ AtomicLoad \/ AtomicStore \/ Fetch
  \/ LoadByte \/ LoadEnds \/ StoreByte \/ StoreEnds \/ Restore

Next == Handler \/ Compute \/ Supervisor \/ \E n \in Instrs : Trap(n)

Spec == Init /\ [][Next]_vars

-----------------------------------------------------------------------------
TypeOK ==
  /\ x \in [Regs -> Word] /\ pc \in Stvec .. Places /\ sepc \in 0 .. Places
  /\ mem \in [Word -> Byte] /\ was.mem \in [Word -> Byte] /\ perm \in Maps
  /\ reservation \in Word /\ link \in Word \cup {NoLink}
  /\ mtvec \in {"isr", "access"}
  /\ at \in {"program", "restore", "lr", "sc", "amo", "amo store", "fetch", "load", "store"}
  /\ ins \in Instrs \cup {NoIns} /\ ctx.reg \in [Regs -> Word] /\ ctx.to \in {"same", "next", "stvec"}
  /\ i \in 0 .. WordBytes /\ data \in Word

(* Whenever the program runs, traps go to isr_vector again and no access   *)
(* is made on its behalf: every way out of a handler that moved mtvec has  *)
(* moved it back (emulation.c:146, :272, :334, :388).                      *)
VectorRestored == at = "program" => mtvec = "isr"

(* For the program an emulated instruction is one step: its registers and  *)
(* memory are changed as the instruction changes them, or the supervisor   *)
(* is called at its place and they are not changed at all.  An SC that     *)
(* succeeds belongs to an LR.                                              *)
Architecture == INSTANCE Isa WITH mem <- was.mem, link <- was.link, last <- was.ins

EmulatesIsa == Architecture!Spec
=============================================================================
