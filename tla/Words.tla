------------------------------- MODULE Words -------------------------------
(***************************************************************************)
(* Words of a small RISC-V hart: WordBytes bytes of ByteSize values each    *)
(* (4 and 256 on RV32), which are its addresses too.  Bytes are in order of *)
(* significance, and sums wrap.                                             *)
(***************************************************************************)
EXTENDS Integers

CONSTANTS ByteSize, WordBytes

ASSUME WordsAssumption == ByteSize \in Nat \ {0, 1} /\ WordBytes \in Nat \ {0, 1}

(* What byte i of a word counts for: ByteSize to the power of i.           *)
Weight(i) ==
  LET weight[k \in 0 .. i] == IF k = 0 THEN 1 ELSE ByteSize * weight[k - 1]
  IN  weight[i]

WordSize == Weight(WordBytes)
Byte == 0 .. ByteSize - 1
Word == 0 .. WordSize - 1
Wrap(n) == n % WordSize
Signed(w) == IF w >= WordSize \div 2 THEN w - WordSize ELSE w
Aligned(a, len) == a % len = 0

(* Byte i of a word, and the word, or part, made of len bytes of memory.   *)
ByteOf(w, i) == (w \div Weight(i)) % ByteSize
Get(mem, a, len) ==
  LET value[k \in 0 .. len] ==
        IF k = 0 THEN 0 ELSE value[k - 1] + mem[Wrap(a + (k - 1))] * Weight(k - 1)
  IN  value[len]
Put(mem, a, len, w) ==
  [b \in Word |-> IF Wrap(b - a) < len THEN ByteOf(w, Wrap(b - a)) ELSE mem[b]]

(* The half word h, of half as many bytes, extended by its sign.           *)
HalfBytes == WordBytes \div 2
Extend(h) == IF h >= Weight(HalfBytes) \div 2
             THEN h + WordSize - Weight(HalfBytes) ELSE h

(* The pc in a call of the supervisor; otherwise it counts instructions.   *)
Stvec == -1
=============================================================================
