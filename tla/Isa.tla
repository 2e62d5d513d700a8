-------------------------------- MODULE Isa --------------------------------
(***************************************************************************)
(* What a program may expect of the instructions that emulation.c emulates: *)
(* each is carried out whole, or the supervisor is called and it is as if   *)
(* it had not begun (a store that is not aligned may have stored some of    *)
(* its bytes).  A conditional store succeeds only if the program has loaded *)
(* the word with a reservation and no conditional store has succeeded since.*)
(***************************************************************************)
EXTENDS Words

CONSTANTS Regs,     \* numbers of registers; 0 is always 0
          Instrs,   \* [op, rd, rs1, rs2, fn]
          NoLink

VARIABLES x,        \* the registers
          pc,       \* the instruction to be executed, or Stvec
          sepc,     \* where the supervisor was called
          mem,      \* the bytes of memory
          perm,     \* "none", "ro" or "rw" for each word
          link,     \* the word that is reserved, or NoLink
          last      \* the emulated instruction before

isaVars == <<x, pc, sepc, mem, perm, link, last>>

Loads == {"lw", "lh", "lhu"}
Stores == {"sw", "sh"}
Len(op) == IF op \in {"lh", "lhu", "sh"} THEN HalfBytes ELSE WordBytes

WordAt(a) == a - (a % WordBytes)
CanRead(a) == perm[WordAt(a)] # "none"
CanWrite(a) == perm[WordAt(a)] = "rw"

Write(r, v) == x' = [x EXCEPT ![r] = IF r = 0 THEN 0 ELSE v]
Retire == pc' = pc + 1 /\ UNCHANGED <<sepc, perm>>

Amo(fn, src, old) ==
  CASE fn = "add"  -> Wrap(old + src)
    [] fn = "swap" -> src
    [] fn = "min"  -> CHOOSE w \in {src, old} : \A v \in {src, old} : Signed(w) <= Signed(v)
    [] fn = "maxu" -> CHOOSE w \in {src, old} : \A v \in {src, old} : w >= v

LoadReserved(i) ==
  LET a == x[i.rs1]
  IN  /\ i.op = "lr" /\ Aligned(a, WordBytes) /\ CanRead(a)
      /\ Write(i.rd, Get(mem, a, WordBytes)) /\ link' = a
      /\ Retire /\ UNCHANGED mem

StoreConditional(i) ==
  LET a == x[i.rs1]
  IN  /\ i.op = "sc"
      /\ \/ /\ link = a /\ CanWrite(a)
            /\ mem' = Put(mem, a, WordBytes, x[i.rs2])
            /\ Write(i.rd, 0) /\ link' = NoLink
         \/ Write(i.rd, 1) /\ UNCHANGED <<mem, link>>
      /\ Retire

Atomic(i) ==
  LET a == x[i.rs1]
      old == Get(mem, a, WordBytes)
  IN  /\ i.op = "amo" /\ Aligned(a, WordBytes) /\ CanWrite(a)
      /\ mem' = Put(mem, a, WordBytes, Amo(i.fn, x[i.rs2], old))
      /\ Write(i.rd, old) /\ Retire /\ UNCHANGED link

Load(i) ==
  LET a == x[i.rs1]
      v == Get(mem, a, Len(i.op))
  IN  /\ i.op \in Loads /\ \A k \in 0 .. Len(i.op) - 1 : CanRead(Wrap(a + k))
      /\ Write(i.rd, IF i.op = "lh" THEN Extend(v) ELSE v)
      /\ Retire /\ UNCHANGED <<mem, link>>

Store(i) ==
  LET a == x[i.rs1]
  IN  /\ i.op \in Stores /\ \A k \in 0 .. Len(i.op) - 1 : CanWrite(Wrap(a + k))
      /\ mem' = Put(mem, a, Len(i.op), x[i.rs2])
      /\ Retire /\ UNCHANGED <<x, link>>

(* The supervisor is called.                                               *)
CallSupervisor(i) ==
  /\ pc' = Stvec /\ sepc' = pc
  /\ \/ UNCHANGED mem
     \/ i.op \in Stores /\ \E k \in 1 .. Len(i.op) - 1 : mem' = Put(mem, x[i.rs1], k, x[i.rs2])
  /\ UNCHANGED <<x, perm, link>>

(* The program's other instructions, or the supervisor, which may change   *)
(* what is mapped.                                                         *)
Others ==
  \/ pc # Stvec /\ \E r \in Regs, v \in Word : Write(r, v) /\ UNCHANGED <<pc, sepc, mem, perm, link, last>>
  \/ /\ pc = Stvec /\ pc' = sepc
     /\ UNCHANGED <<x, sepc, mem, link, last>>

Next ==
  \/ Others
  \/ /\ pc # Stvec
     /\ \E i \in Instrs :
          /\ last' = i
          /\ \/ LoadReserved(i) \/ StoreConditional(i) \/ Atomic(i) \/ Load(i) \/ Store(i)
             \/ CallSupervisor(i)

Spec == [][Next]_isaVars
=============================================================================
