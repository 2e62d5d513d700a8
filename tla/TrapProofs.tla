---------------------------- MODULE TrapProofs ----------------------------
(***************************************************************************)
(* Saving and restoring of a program's context by isr_vector, for frames   *)
(* and stacks of any size and any number of traps.                         *)
(***************************************************************************)
EXTENDS Trap, TLAPS

(* The handlers that main and boot_kernel set.                             *)
TableInv ==
  /\ table["illegal"] = "hang" /\ table["misaligned"] = "emulate"
  /\ table["breakpoint"] = "skip" /\ table["fault"] = "none" /\ table["ecall_m"] = "none"
  /\ table["ecall_s"] \in {"none", "sbi"}

(* Between the two swaps of sp and mscratch.                               *)
Swapped ==
  /\ x.sp = was.mscratch - FrameSize /\ mscratch = was.x.sp
  /\ Booted => was.mscratch = Top
  /\ was.pc = pc /\ pc + 2 <= MaxPc
  /\ cause \in Ecalls => len = 2

(* What the frame holds when a handler gets it, and ...                    *)
FrameSaved ==
  /\ frame.pc = was.pc /\ frame.mode = mode
  /\ frame.reg.ra = was.x.ra /\ frame.reg.a0 = was.x.a0 /\ frame.reg.a7 = was.x.a7

(* ... when it is given back.                                              *)
FrameReturned ==
  /\ frame.reg.ra = was.x.ra \/ cause = "misaligned"
  /\ frame.reg.a0 = was.x.a0 \/ cause \in {"misaligned", "ecall_s"}
  /\ frame.reg.a7 = was.x.a7
  /\ \/ frame.pc = Stvec /\ frame.mode = "S"
     \/ frame.pc = was.pc + 2 /\ frame.mode = mode /\ (len = 2 \/ cause = "breakpoint")

IInv ==
  /\ TypeOK /\ TableInv
  /\ StackReturned
  /\ at \in {"handler", "restore"} => Swapped
  /\ at = "handler" => FrameSaved
  /\ at = "restore" => FrameReturned

-----------------------------------------------------------------------------
(* Every handler returns a frame of the type of the frame it got.          *)
LEMMA RegisterType ==
  ASSUME NEW f \in Registers
  PROVE  /\ f.ra \in Values /\ f.sp \in Int /\ f.a0 \in Values \cup {-1} /\ f.a7 \in SbiCalls
         /\ f = [ra |-> f.ra, sp |-> f.sp, a0 |-> f.a0, a7 |-> f.a7]
BY DEF Registers

LEMMA InitIInv == Init => IInv
<1> SUFFICES ASSUME Init PROVE IInv
  OBVIOUS
<1> USE TrapAssumption DEF Init
<1>1. x \in Registers
  BY DEF Registers, SbiCalls
<1>2. table \in [Causes -> {"none", "hang", "emulate", "skip", "sbi"}] /\ TableInv
  BY DEF Causes, TableInv
<1>3. mscratch \in Int /\ pc \in Stvec .. MaxPc /\ ~Booted
  BY <1>2 DEF Stvec, Booted, Causes
<1>4. TypeOK
  BY <1>1, <1>2, <1>3 DEF TypeOK, Causes, Frames
<1> QED
  BY <1>2, <1>3, <1>4 DEF IInv, StackReturned

LEMMA StepBootKernel == IInv /\ BootKernel => IInv'
<1> SUFFICES ASSUME IInv, BootKernel PROVE IInv'
  OBVIOUS
<1> USE TrapAssumption DEF IInv, BootKernel
<1>1. x' \in Registers
  BY RegisterType DEF TypeOK, Registers
<1>2. /\ table' \in [Causes -> {"none", "hang", "emulate", "skip", "sbi"}]
      /\ TableInv'
  BY DEF TypeOK, Causes, TableInv
<1>3. TypeOK'
  BY <1>1, <1>2 DEF TypeOK, Stvec, Causes, Frames
<1> QED
  BY <1>2, <1>3 DEF StackReturned, Booted

LEMMA StepCompute == IInv /\ Compute => IInv'
<1> SUFFICES ASSUME IInv, Compute PROVE IInv'
  OBVIOUS
<1> USE TrapAssumption DEF IInv, Compute
<1>1. x' \in Registers
  BY RegisterType DEF TypeOK, Registers
<1>2. TypeOK' /\ TableInv'
  BY <1>1 DEF TypeOK, TableInv
<1> QED
  BY <1>2 DEF StackReturned, Booted

LEMMA StepSave ==
  ASSUME NEW c \in Causes, IInv, Save(c)
  PROVE  IInv'
<1> USE TrapAssumption DEF IInv, Save
<1>1. x \in Registers /\ mscratch \in Int
  BY DEF TypeOK
<1>2. x' = [ra |-> x.ra, sp |-> mscratch - FrameSize, a0 |-> x.a0, a7 |-> x.a7]
  BY <1>1, RegisterType
<1>3. x' \in Registers
  BY <1>1, <1>2, RegisterType DEF Registers
<1>4. /\ frame'.pc = pc /\ frame'.mode = mode /\ frame'.reg = x'
      /\ was'.pc = pc /\ was'.x = x /\ was'.mscratch = mscratch
  OBVIOUS
<1>5. mscratch' \in Int
  BY <1>1, RegisterType
<1>6. TypeOK' /\ TableInv'
  BY <1>1, <1>3, <1>4, <1>5 DEF TypeOK, TableInv, Frames
<1>7. Swapped'
  BY <1>1, <1>2, <1>4 DEF Swapped, StackReturned, Booted
<1>8. FrameSaved'
  BY <1>2, <1>4 DEF FrameSaved
<1> QED
  BY <1>6, <1>7, <1>8 DEF StackReturned

(* The frame a handler gets.                                               *)
LEMMA FrameType ==
  ASSUME IInv, at = "handler"
  PROVE  frame \in Frames /\ frame.pc + 2 <= MaxPc
BY DEF IInv, TypeOK, FrameSaved, Swapped

unprimed == <<mode, x, pc, mscratch, table, deleg, cause, len, was>>

(* A handler that answers in a0, that has any register for its target, or  *)
(* in none, keeps the rest of the frame.                                   *)
LEMMA StepReturn ==
  ASSUME NEW f \in Frames, IInv, at = "handler", Return(f), UNCHANGED unprimed,
         f.reg.ra = frame.reg.ra \/ cause = "misaligned",
         f.reg.a0 = frame.reg.a0 \/ cause \in {"misaligned", "ecall_s"},
         f.reg.a7 = frame.reg.a7,
         \/ f.pc = Stvec /\ f.mode = "S"
         \/ f.pc = frame.pc + 2 /\ f.mode = frame.mode /\ (len = 2 \/ cause = "breakpoint")
  PROVE  IInv'
<1> USE DEF Return, unprimed, IInv
<1>1. TypeOK' /\ TableInv'
  BY DEF TypeOK, TableInv
<1>2. Swapped'
  BY DEF Swapped, Booted
<1>3. FrameReturned'
  BY DEF FrameSaved, FrameReturned
<1> QED
  BY <1>1, <1>2, <1>3 DEF StackReturned

LEMMA StepStop ==
  ASSUME IInv, at = "handler", Stop, UNCHANGED unprimed
  PROVE  IInv'
BY DEF Stop, unprimed, IInv, TypeOK, TableInv, StackReturned

LEMMA SkippedType ==
  ASSUME NEW f \in Frames, f.pc + 2 <= MaxPc
  PROVE  /\ Skipped(f) \in Frames
         /\ Skipped(f).pc = f.pc + 2 /\ Skipped(f).mode = f.mode /\ Skipped(f).reg = f.reg
BY TrapAssumption DEF Skipped, Frames, Stvec

LEMMA SetRegType ==
  ASSUME NEW f \in Frames, NEW r \in Names \ {"a7"}, NEW v \in Values
  PROVE  /\ SetReg(f, r, v) \in Frames
         /\ SetReg(f, r, v).pc = f.pc /\ SetReg(f, r, v).mode = f.mode
         /\ SetReg(f, r, v).reg.a7 = f.reg.a7
<1>1. f.reg \in Registers
  BY DEF Frames
<1>2. /\ [f.reg EXCEPT ![r] = v] \in Registers
      /\ [f.reg EXCEPT ![r] = v].a7 = f.reg.a7
  BY <1>1, TrapAssumption DEF Registers, Names
<1> QED
  BY <1>2 DEF SetReg, Frames

LEMMA SetA0Type ==
  ASSUME NEW f \in Frames, NEW ch \in Values \cup {-1}
  PROVE  /\ SetReg(f, "a0", ch) \in Frames
         /\ SetReg(f, "a0", ch).pc = f.pc /\ SetReg(f, "a0", ch).mode = f.mode
         /\ SetReg(f, "a0", ch).reg.a7 = f.reg.a7 /\ SetReg(f, "a0", ch).reg.ra = f.reg.ra
<1>1. f.reg \in Registers
  BY DEF Frames
<1>2. /\ [f.reg EXCEPT !.a0 = ch] \in Registers
      /\ [f.reg EXCEPT !.a0 = ch].a7 = f.reg.a7 /\ [f.reg EXCEPT !.a0 = ch].ra = f.reg.ra
  BY <1>1 DEF Registers
<1> QED
  BY <1>2 DEF SetReg, Frames

LEMMA ToSupervisorType ==
  ASSUME NEW f \in Frames
  PROVE  ToSupervisor(f) \in Frames
<1>1. Stvec \in Stvec .. MaxPc
  BY TrapAssumption DEF Stvec
<1> QED
  BY <1>1 DEF ToSupervisor, Frames

LEMMA StepDispatch == IInv /\ Dispatch => IInv'
<1> SUFFICES ASSUME IInv, Dispatch PROVE IInv'
  OBVIOUS
<1>1. at = "handler" /\ UNCHANGED unprimed
  BY DEF Dispatch, unprimed
<1>2. frame \in Frames /\ frame.pc + 2 <= MaxPc
  BY <1>1, FrameType
<1>3. /\ table[cause] = "sbi" => cause = "ecall_s"
      /\ table[cause] = "emulate" => cause = "misaligned"
      /\ table[cause] = "skip" => cause = "breakpoint"
  BY DEF IInv, TypeOK, TableInv, Causes
<1>4. CASE table[cause] \in {"none", "hang"} /\ Stop
  BY <1>1, <1>4, StepStop
<1>5. CASE table[cause] = "sbi" /\ SbiSyscall(Resume)
  <2>1. Resume = Skipped(frame) /\ cause = "ecall_s" /\ len = 2
    BY <1>1, <1>3, <1>5 DEF Resume, Ecalls, IInv, Swapped
  <2>2. Resume.reg.a7 \in SbiCalls
    BY <1>2, <2>1, SkippedType DEF Frames, Registers
  <2>3. CASE Return(Resume)
    BY <1>1, <1>2, <2>1, <2>3, SkippedType, StepReturn
  <2>4. ASSUME NEW ch \in Values \cup {-1}, Return(SetReg(Resume, "a0", ch))
        PROVE  IInv'
    <3> DEFINE g == SetReg(Resume, "a0", ch)
    <3>1. /\ Resume \in Frames /\ Resume.reg = frame.reg /\ Resume.mode = frame.mode
          /\ Resume.pc = frame.pc + 2
      BY <1>2, <2>1, SkippedType
    <3>2. /\ g \in Frames /\ g.pc = frame.pc + 2 /\ g.mode = frame.mode
          /\ g.reg.a7 = frame.reg.a7 /\ g.reg.ra = frame.reg.ra
      BY <3>1, SetA0Type
    <3> QED
      BY <1>1, <2>1, <2>4, <3>2, StepReturn
  <2>5. CASE Stop
    BY <1>1, <2>5, StepStop
  <2> QED
    BY <1>5, <2>2, <2>3, <2>4, <2>5 DEF SbiSyscall, SbiCalls
<1>6. CASE table[cause] = "emulate" /\ Emulate(Resume)
  <2>1. Resume = frame /\ cause = "misaligned"
    BY <1>3, <1>6 DEF Resume, Ecalls
  <2>2. ASSUME len = 2,
               NEW r \in Names \ {"a7"}, NEW v \in Values, Return(Skipped(SetReg(frame, r, v)))
        PROVE  IInv'
    <3> DEFINE g == SetReg(frame, r, v)
    <3>1. g \in Frames /\ g.pc = frame.pc /\ g.mode = frame.mode /\ g.reg.a7 = frame.reg.a7
      BY <1>2, SetRegType
    <3>2. /\ Skipped(g) \in Frames /\ Skipped(g).pc = frame.pc + 2
          /\ Skipped(g).mode = frame.mode /\ Skipped(g).reg = g.reg
      BY <1>2, <3>1, SkippedType
    <3> QED
      BY <1>1, <2>1, <2>2, <3>1, <3>2, StepReturn
  <2>3. CASE Return(ToSupervisor(frame))
    BY <1>1, <1>2, <2>1, <2>3, ToSupervisorType, StepReturn DEF ToSupervisor
  <2> QED
    BY <1>6, <2>1, <2>2, <2>3 DEF Emulate
<1>7. CASE table[cause] = "skip" /\ Skip(Resume)
  <2>1. Resume = frame
    BY <1>3, <1>7 DEF Resume, Ecalls
  <2>2. CASE Return(Skipped(frame))
    BY <1>1, <1>2, <1>3, <1>7, <2>2, SkippedType, StepReturn
  <2>3. CASE Return(ToSupervisor(frame))
    BY <1>1, <1>2, <2>3, ToSupervisorType, StepReturn DEF ToSupervisor
  <2> QED
    BY <1>7, <2>1, <2>2, <2>3 DEF Skip
<1> QED
  BY <1>4, <1>5, <1>6, <1>7 DEF Dispatch

-----------------------------------------------------------------------------
LEMMA StepRestore == IInv /\ Restore => IInv'
<1> SUFFICES ASSUME IInv, Restore PROVE IInv'
  OBVIOUS
<1> USE TrapAssumption DEF IInv, Restore
<1>1. frame.reg \in Registers /\ frame.pc \in Stvec .. MaxPc /\ frame.mode \in {"M", "S"}
  BY DEF TypeOK, Frames
<1>2. mscratch \in Int /\ x.sp \in Int /\ was.mscratch \in Int
  BY RegisterType DEF TypeOK
<1>3. x' \in Registers
  BY <1>1, <1>2 DEF Registers
<1>4. mscratch' = was.mscratch
  BY <1>2 DEF FrameTop, Swapped
<1>5. TypeOK' /\ TableInv'
  BY <1>1, <1>2, <1>3, <1>4 DEF TypeOK, TableInv
<1> QED
  BY <1>4, <1>5 DEF StackReturned, Booted, Swapped

(* Every step preserves the inductive invariant.                           *)
LEMMA StepIInv == IInv /\ [Next]_vars => IInv'
<1>1. IInv /\ UNCHANGED vars => IInv'
  BY DEF vars, IInv, TypeOK, TableInv, StackReturned, Booted, Swapped, FrameSaved, FrameReturned
<1> QED
  BY <1>1, StepBootKernel, StepCompute, StepDispatch, StepRestore, StepSave DEF Next

(* The inductive invariant holds in every reachable state.                 *)
THEOREM Invariance == Spec => []IInv
BY InitIInv, StepIInv, PTL DEF Spec

(* Type correctness, with the bounds on the pc.                            *)
THEOREM TypeCorrect == Spec => []TypeOK
<1>1. IInv => TypeOK
  BY DEF IInv
<1> QED
  BY <1>1, Invariance, PTL

(* The machine-mode stack is empty whenever the kernel runs, after any     *)
(* number of traps.                                                        *)
THEOREM StackIsReturned == Spec => []StackReturned
<1>1. IInv => StackReturned
  BY DEF IInv
<1> QED
  BY <1>1, Invariance, PTL

(* A program that goes on after a trap has its registers and its mode, and *)
(* is behind the instruction, or two bytes behind that after an ebreak of  *)
(* two bytes.                                                              *)
THEOREM ContextIsKept == Spec => ContextKept
<1> DEFINE Kept ==
      at = "restore" =>
        /\ \A r \in Names : x'[r] = was.x[r] \/ (r = "a0" /\ cause = "ecall_s")
                            \/ (r # "sp" /\ cause = "misaligned")
        /\ mscratch' = was.mscratch
        /\ IF pc' = Stvec THEN mode' = "S"
                          ELSE pc' = was.pc + len + Overshoot /\ mode' = mode
<1>1. IInv /\ [Next]_vars => [Kept]_vars
  <2> SUFFICES ASSUME IInv, Next, at = "restore" PROVE Kept
    OBVIOUS
  <2>1. Restore
    BY DEF Next, BootKernel, Compute, Save, Dispatch
  <2>2. frame.reg \in Registers /\ was.x \in Registers /\ mscratch = was.x.sp
    BY DEF IInv, TypeOK, Frames, Swapped
  <2>3. /\ x'.ra = frame.reg.ra /\ x'.a0 = frame.reg.a0 /\ x'.a7 = frame.reg.a7
        /\ x'.sp = was.x.sp
    BY <2>1, <2>2 DEF Restore, Registers
  <2>4. \A r \in Names : x'[r] = was.x[r] \/ (r = "a0" /\ cause = "ecall_s")
                         \/ (r # "sp" /\ cause = "misaligned")
    BY <2>3 DEF IInv, FrameReturned, Names
  <2>5. mscratch' = was.mscratch
    <3>1. x.sp \in Int /\ was.mscratch \in Int /\ x.sp = was.mscratch - FrameSize
      BY RegisterType DEF IInv, Swapped, TypeOK
    <3> QED
      BY <2>1, <3>1, TrapAssumption DEF Restore, FrameTop
  <2>6. IF pc' = Stvec THEN mode' = "S"
                       ELSE pc' = was.pc + len + Overshoot /\ mode' = mode
    <3>1. was.pc \in Int /\ was.pc >= -1 /\ len \in {1, 2}
      BY TrapAssumption DEF IInv, TypeOK, Stvec
    <3>2. len + Overshoot = 2 \/ (len = 1 /\ cause # "breakpoint")
      BY <3>1 DEF Overshoot
    <3>3. \/ frame.pc = Stvec /\ frame.mode = "S"
          \/ frame.pc = was.pc + 2 /\ frame.mode = mode /\ (len = 2 \/ cause = "breakpoint")
      BY DEF IInv, FrameReturned
    <3>4. Overshoot \in Int
      BY DEF Overshoot
    <3> QED
      BY <2>1, <3>1, <3>2, <3>3, <3>4 DEF Restore, Stvec
  <2> QED
    BY <2>4, <2>5, <2>6
<1> QED
  BY <1>1, Invariance, PTL DEF Spec, ContextKept
=============================================================================
