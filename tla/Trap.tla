------------------------------- MODULE Trap -------------------------------
(***************************************************************************)
(* Traps to machine mode: isr_vector (boot.S) saves the registers in a     *)
(* frame, exception_handler (exception.c) gives the frame to the handler   *)
(* of the cause, and isr_vector returns to what the frame says by then.    *)
(*                                                                         *)
(* The program that is interrupted is main, in machine mode, with the      *)
(* handlers that emulation_init and main have set; or, where boot_kernel   *)
(* is called, the kernel in supervisor mode with the handlers of           *)
(* boot_kernel.  Interrupts stay off in both (mie is 0).  How an access is *)
(* emulated is the subject of the module Emulation.                        *)
(*                                                                         *)
(* Places are counted in parcels of two bytes.  The program is built with  *)
(* compressed instructions (makefile:7,58), so that an instruction has one *)
(* parcel or two, whatever it traps for; an ecall has two.                 *)
(***************************************************************************)
EXTENDS Integers

CONSTANTS Top,          \* _sp, the top of the machine-mode stack
          FrameSize,    \* of struct irq_context
          Sps,          \* stack pointers of the program
          MscratchAtReset,  \* what mscratch may hold at reset
          Values,       \* of other registers
          MaxPc         \* bound on the program, in parcels

ASSUME TrapAssumption ==
  /\ Top \in Int /\ FrameSize \in Int /\ Sps \subseteq Int /\ MscratchAtReset \subseteq Int
  /\ Values \subseteq Int /\ 0 \in Values /\ MaxPc \in Nat

Names == {"ra", "sp", "a0", "a7"}
Causes == {"illegal", "breakpoint", "misaligned", "fault", "ecall_s", "ecall_m"}
SbiCalls == {"putchar", "getchar", "fence", "set_timer", "shutdown", "unknown"}
Stvec == -1

VARIABLES
  at,        \* "program", "handler", "restore" or "stopped"
  mode,      \* of the program: "M" or "S"
  x, pc,     \* its registers (a7 names an SBI call) and its place
  mscratch,
  table,     \* _exception_table: the handler of each cause
  deleg,     \* medeleg
  cause,     \* mcause of the trap that runs
  len,       \* the instruction at mepc, in parcels
  frame,     \* pc, mode (status) and registers
  was        \* history: the registers and the place at the trap, and mscratch
             \* before it

vars == <<at, mode, x, pc, mscratch, table, deleg, cause, len, frame,
          was>>

(* main has called emulation_init and set illegal_handler.                 *)
Init ==
  /\ at = "program" /\ mode = "M" /\ pc = 0
  /\ x = [ra |-> 0, sp |-> Top, a0 |-> 0, a7 |-> "unknown"]
  /\ mscratch \in MscratchAtReset
  /\ table = [c \in Causes |-> CASE c = "illegal" -> "hang"
                                 [] c = "misaligned" -> "emulate"
                                 [] c = "breakpoint" -> "skip"
                                 [] OTHER -> "none"]
  /\ deleg = {} /\ cause = "fault" /\ len = 2
  /\ frame = [pc |-> pc, mode |-> mode, reg |-> x]
  /\ was = [pc |-> pc, x |-> x, mscratch |-> mscratch]

BootKernel ==
  /\ at = "program" /\ mode = "M" /\ pc # Stvec
  /\ mode' = "S" /\ pc' = 0 /\ x' = [x EXCEPT !.a0 = 0]
  /\ mscratch' = Top
  /\ table' = [table EXCEPT !["ecall_s"] = "sbi", !["illegal"] = "hang"]
  /\ deleg' = {"illegal", "misaligned"}
  /\ UNCHANGED <<at, cause, len, frame, was>>

(* Instructions that do not trap.                                          *)
Compute ==
  /\ at = "program"
  /\ \/ \E v \in Values : x' = [x EXCEPT !.a0 = v] \/ x' = [x EXCEPT !.ra = v]
     \/ \E s \in Sps : x' = [x EXCEPT !.sp = s]
     \/ \E f \in SbiCalls : x' = [x EXCEPT !.a7 = f]
  /\ UNCHANGED <<at, mode, pc, mscratch, table, deleg, cause, len, frame, was>>

Ecalls == {"ecall_s", "ecall_m"}

(* isr_vector up to the call: sp is swapped with mscratch, and what the    *)
(* frame has for x2 is sp after that.                                      *)
Save(c) ==
  /\ at = "program" /\ pc + 2 <= MaxPc
  /\ len' \in {1, 2} /\ (c \in Ecalls => len' = 2)
  /\ c = (IF mode = "S" THEN "ecall_s" ELSE "ecall_m") \/ c \notin Ecalls
  /\ mode = "S" => c \notin deleg
  /\ at' = "handler" /\ cause' = c
  /\ x' = [x EXCEPT !.sp = mscratch - FrameSize] /\ mscratch' = x.sp
  /\ frame' = [pc |-> pc, mode |-> mode, reg |-> x']
  /\ was' = [pc |-> pc, x |-> x, mscratch |-> mscratch]
  /\ UNCHANGED <<mode, pc, table, deleg>>

Return(f) == at' = "restore" /\ frame' = f
Stop == at' = "stopped" /\ UNCHANGED frame

(* "ctx->pc += 4", whatever the length of the instruction.                 *)
Skipped(f) == [f EXCEPT !.pc = @ + 2]
SetReg(f, r, v) == [f EXCEPT !.reg[r] = v]

(* Mutant: the pc is advanced for no cause.                                *)
ResumeAtSame == frame

(* exception_handler: an ecall resumes behind itself.                      *)
Resume == IF cause \in Ecalls THEN Skipped(frame) ELSE frame

(* emulation_trap_to_supervisor                                            *)
ToSupervisor(f) == [pc |-> Stvec, mode |-> "S", reg |-> f.reg]

(* sbi_syscall; -1 is "no character".                                      *)
SbiSyscall(f) ==
  CASE f.reg.a7 \in {"putchar", "fence"} -> Return(f)
    [] f.reg.a7 = "getchar" -> \E ch \in Values \cup {-1} : Return(SetReg(f, "a0", ch))
    [] f.reg.a7 \in {"set_timer", "shutdown", "unknown"} -> Stop

(* trap_misaligned_ld, of which any register may be the target.  It reads  *)
(* the instruction first, and knows none that is compressed.               *)
Emulate(f) ==
  \/ len = 2 /\ \E r \in Names \ {"a7"}, v \in Values : Return(Skipped(SetReg(f, r, v)))
  \/ Return(ToSupervisor(f))

(* trap_breakpoint reads the instruction too, but only to print it.        *)
Skip(f) == Return(Skipped(f)) \/ Return(ToSupervisor(f))

(* exception_handler and the handler it calls; a cause without one is an   *)
(* assertion that fails, and illegal_handler never returns.                *)
Dispatch ==
  /\ at = "handler"
  /\ \/ table[cause] \in {"none", "hang"} /\ Stop
     \/ table[cause] = "sbi" /\ SbiSyscall(Resume)
     \/ table[cause] = "emulate" /\ Emulate(Resume)
     \/ table[cause] = "skip" /\ Skip(Resume)
  /\ UNCHANGED <<mode, x, pc, mscratch, table, deleg, cause, len, was>>

(* Mutant: the frame is not popped.                                        *)
FrameTopUnpopped == x.sp

FrameTop == x.sp + FrameSize

(* The rest of isr_vector.                                                 *)
Restore ==
  /\ at = "restore" /\ at' = "program"
  /\ x' = [frame.reg EXCEPT !.sp = mscratch] /\ mscratch' = FrameTop
  /\ pc' = frame.pc /\ mode' = frame.mode
  /\ UNCHANGED <<table, deleg, cause, len, frame, was>>

Next == BootKernel \/ Compute \/ Dispatch \/ Restore \/ \E c \in Causes : Save(c)

Spec == Init /\ [][Next]_vars

-----------------------------------------------------------------------------
Registers == [ra : Values, sp : Int, a0 : Values \cup {-1}, a7 : SbiCalls]
Frames == [pc : Stvec .. MaxPc, mode : {"M", "S"}, reg : Registers]

TypeOK ==
  /\ at \in {"program", "handler", "restore", "stopped"} /\ mode \in {"M", "S"}
  /\ x \in Registers /\ pc \in Stvec .. MaxPc /\ mscratch \in Int
  /\ table \in [Causes -> {"none", "hang", "emulate", "skip", "sbi"}]
  /\ deleg \subseteq Causes /\ cause \in Causes /\ len \in {1, 2}
  /\ frame \in Frames
  /\ was \in [pc : Stvec .. MaxPc, x : Registers, mscratch : Int]

(* However many traps there have been, the kernel runs with the whole of   *)
(* the machine-mode stack in mscratch, and its handlers' frames are all at *)
(* the same place.                                                         *)
Booted == table["ecall_s"] = "sbi"
StackReturned == at = "program" /\ Booted => mscratch = Top

(* The parcels by which an ebreak of one parcel is overshot.               *)
Overshoot == IF cause = "breakpoint" /\ len = 1 THEN 1 ELSE 0

(* A program that goes on after a trap has the registers it had, sp among  *)
(* them, but for the one the handler answers in.  Either its supervisor    *)
(* goes on, or it does, behind the instruction, once - except behind an    *)
(* ebreak of two bytes, where it goes on two bytes too far (ResumesBehind).*)
ContextKept ==
  [][at = "restore" =>
       /\ \A r \in Names : x'[r] = was.x[r] \/ (r = "a0" /\ cause = "ecall_s")
                           \/ (r # "sp" /\ cause = "misaligned")
       /\ mscratch' = was.mscratch
       /\ IF pc' = Stvec THEN mode' = "S"
                         ELSE pc' = was.pc + len + Overshoot /\ mode' = mode]_vars

(* "ebreak is 32-bit" (emulation.c:412): the program goes on behind it.    *)
(* It does not hold of the program as it is built (README, 7).             *)
ResumesBehind == [][at = "restore" /\ pc' # Stvec => pc' = was.pc + len]_vars

(* The frame of every trap lies on the machine-mode stack: boot.S sets up  *)
(* the vector for main too (boot.S:118).  It does not hold of the traps of *)
(* main (README, 7).                                                       *)
FrameOnStack == at = "handler" => x.sp = Top - FrameSize
=============================================================================
