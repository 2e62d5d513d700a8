-------------------------- MODULE EmulationProofs --------------------------
(***************************************************************************)
(* The emulation for words of any width, any set of instructions, and      *)
(* whatever the supervisor maps: the vector of the emulated accesses, the  *)
(* types, and that it implements Isa.  Programs that use sp in an emulated *)
(* instruction are left out of the last: EmulationSp.cfg shows why.        *)
(***************************************************************************)
EXTENDS Emulation, Induction, TLAPS

-----------------------------------------------------------------------------
(* The vector.                                                             *)
(* A handler that is done, one way or the other, has moved mtvec back.     *)
IInv == at \in {"program", "restore"} => mtvec = "isr"

LEMMA InitIInv == Init => IInv
BY DEF Init, IInv

(* The two ways out of a handler, and the way to its next access.          *)
LEMMA WaysOut ==
  ASSUME NEW reg
  PROVE  /\ Redirect(reg) => mtvec' = "isr"
         /\ Finish(reg) => mtvec' = "isr"
BY DEF Redirect, Finish

LEMMA AnotherAccess ==
  ASSUME NEW next, Proceed(next), next \notin {"program", "restore"}
  PROVE  IInv'
BY DEF Proceed, IInv

(* Every step preserves the invariant.                                     *)
LEMMA StepIInv == IInv /\ [Next]_vars => IInv'
<1> SUFFICES ASSUME IInv, [Next]_vars PROVE IInv'
  OBVIOUS
<1>1. CASE EmulateLR
  BY <1>1, WaysOut DEF EmulateLR, IInv
<1>2. CASE EmulateSC
  BY <1>2, WaysOut DEF EmulateSC, IInv
<1>3. CASE AtomicLoad
  BY <1>3, WaysOut, AnotherAccess DEF AtomicLoad, IInv
<1>4. CASE AtomicStore
  BY <1>4, WaysOut DEF AtomicStore, IInv
<1>5. CASE Fetch
  BY <1>5, WaysOut, AnotherAccess DEF Fetch, IInv
<1>6. CASE LoadByte
  BY <1>6, WaysOut, AnotherAccess DEF LoadByte, IInv
<1>7. CASE LoadEnds
  BY <1>7, WaysOut DEF LoadEnds, IInv
<1>8. CASE StoreByte
  BY <1>8, WaysOut, AnotherAccess DEF StoreByte, IInv
<1>9. CASE StoreEnds
  BY <1>9, WaysOut DEF StoreEnds, IInv
<1>10. CASE Restore
  BY <1>10 DEF Restore, IInv
<1>11. CASE Compute \/ Supervisor
  BY <1>11 DEF Compute, Supervisor, IInv
<1>12. ASSUME NEW n \in Instrs, Trap(n) PROVE IInv'
  BY <1>12 DEF Trap, FirstAccess, IInv
<1>13. CASE UNCHANGED vars
  BY <1>13 DEF vars, IInv
<1> QED
  BY <1>1, <1>2, <1>3, <1>4, <1>5, <1>6, <1>7, <1>8, <1>9, <1>10, <1>11, <1>12, <1>13
     DEF Next, Handler

(* The inductive invariant holds in every reachable state.                 *)
THEOREM Invariance == Spec => []IInv
BY InitIInv, StepIInv, PTL DEF Spec

(* Whenever the program runs, its traps go to isr_vector.                  *)
THEOREM VectorIsRestored == Spec => []VectorRestored
<1>1. IInv => VectorRestored
  BY DEF IInv, VectorRestored
<1> QED
  BY <1>1, Invariance, PTL

-----------------------------------------------------------------------------
(* Words.  Weight and Get are defined by recursion: the function that each *)
(* is the last element of exists, and any two of them agree.               *)
LEMMA Numbers ==
  /\ ByteSize \in Nat /\ ByteSize >= 2 /\ WordBytes \in Nat /\ WordBytes >= 2
  /\ HalfBytes \in Nat /\ HalfBytes <= WordBytes
BY WordsAssumption DEF HalfBytes

IsWeight(k, f) == f = [n \in 0 .. k |-> IF n = 0 THEN 1 ELSE ByteSize * f[n - 1]]

LEMMA WeightExists ==
  ASSUME NEW k \in Nat
  PROVE  \E f : IsWeight(k, f)
<1> DEFINE T == {n \in Nat : \E f : IsWeight(n, f)}
<1>1. 0 \in T
  <2> DEFINE f == [m \in 0 .. 0 |-> 1]
  <2>1. IsWeight(0, f)
    BY DEF IsWeight
  <2> QED
    BY <2>1
<1>2. ASSUME NEW n \in Nat, n \in T PROVE n + 1 \in T
  <2>1. PICK f : IsWeight(n, f)
    BY <1>2
  <2>2. \A m \in 0 .. n : f[m] = IF m = 0 THEN 1 ELSE ByteSize * f[m - 1]
    BY <2>1 DEF IsWeight
  <2> DEFINE g == [m \in 0 .. n + 1 |-> IF m <= n THEN f[m] ELSE ByteSize * f[n]]
  <2>3. \A m \in 0 .. n + 1 : g[m] = IF m = 0 THEN 1 ELSE ByteSize * g[m - 1]
    <3> SUFFICES ASSUME NEW m \in 0 .. n + 1
                 PROVE  g[m] = IF m = 0 THEN 1 ELSE ByteSize * g[m - 1]
      OBVIOUS
    <3>1. CASE m <= n
      BY <2>2, <3>1
    <3>2. CASE m = n + 1
      BY <3>2
    <3> QED
      BY <3>1, <3>2
  <2>4. IsWeight(n + 1, g)
    BY <2>3 DEF IsWeight
  <2> QED
    BY <2>4
<1> HIDE DEF T
<1>3. k \in T
  BY <1>1, <1>2, SetInduction
<1> QED
  BY <1>3 DEF T

LEMMA WeightIs ==
  ASSUME NEW k \in Nat
  PROVE  \E f : IsWeight(k, f) /\ Weight(k) = f[k]
<1> DEFINE f == CHOOSE f : IsWeight(k, f)
<1>1. Weight(k) = f[k]
  BY DEF Weight, IsWeight
<1>2. IsWeight(k, f)
  BY WeightExists
<1> QED
  BY <1>1, <1>2

LEMMA WeightsAgree ==
  ASSUME NEW k \in Nat, NEW f, NEW g, IsWeight(k, f), IsWeight(k + 1, g)
  PROVE  f[k] = g[k]
<1> DEFINE T == {n \in Nat : n <= k => f[n] = g[n]}
<1>1. \A n \in 0 .. k : f[n] = IF n = 0 THEN 1 ELSE ByteSize * f[n - 1]
  BY DEF IsWeight
<1>2. \A n \in 0 .. k : g[n] = IF n = 0 THEN 1 ELSE ByteSize * g[n - 1]
  BY DEF IsWeight
<1>3. 0 \in T
  BY <1>1, <1>2
<1>4. ASSUME NEW n \in Nat, n \in T PROVE n + 1 \in T
  <2> SUFFICES ASSUME n + 1 <= k PROVE f[n + 1] = g[n + 1]
    OBVIOUS
  <2>1. n + 1 \in 0 .. k /\ n + 1 # 0 /\ (n + 1) - 1 = n /\ f[n] = g[n]
    BY <1>4
  <2>2. f[n + 1] = ByteSize * f[(n + 1) - 1] /\ g[n + 1] = ByteSize * g[(n + 1) - 1]
    BY <1>1, <1>2, <2>1
  <2> QED
    BY <2>1, <2>2
<1> HIDE DEF T
<1>5. k \in T
  BY <1>3, <1>4, SetInduction
<1> QED
  BY <1>5 DEF T

LEMMA NextWeight ==
  ASSUME NEW k \in Nat
  PROVE  Weight(0) = 1 /\ Weight(k + 1) = ByteSize * Weight(k)
<1>1. PICK f : IsWeight(k, f) /\ Weight(k) = f[k]
  BY WeightIs
<1>2. PICK g : IsWeight(k + 1, g) /\ Weight(k + 1) = g[k + 1]
  BY WeightIs
<1>3. PICK h : IsWeight(0, h) /\ Weight(0) = h[0]
  BY WeightIs
<1>4. g[k + 1] = ByteSize * g[k]
  <2>1. k + 1 \in 0 .. k + 1 /\ k + 1 # 0 /\ (k + 1) - 1 = k
    OBVIOUS
  <2> QED
    BY <1>2, <2>1 DEF IsWeight
<1>5. h[0] = 1
  BY <1>3 DEF IsWeight
<1> QED
  BY <1>1, <1>2, <1>3, <1>4, <1>5, WeightsAgree

(* A byte more weighs at least twice as much.                              *)
LEMMA WeightGrows ==
  ASSUME NEW k \in Nat
  PROVE  /\ Weight(k) \in Nat /\ Weight(k) > k
         /\ Weight(k + 1) \in Nat /\ Weight(k) <= Weight(k + 1)
<1> DEFINE T == {n \in Nat : Weight(n) \in Nat /\ Weight(n) > n}
<1>1. 0 \in T
  BY NextWeight
<1>2. ASSUME NEW n \in Nat, Weight(n) \in Nat, Weight(n) > n
      PROVE  /\ Weight(n + 1) \in Nat /\ Weight(n + 1) > n + 1
             /\ Weight(n) <= Weight(n + 1)
  <2>1. PICK v \in Nat : v = Weight(n)
    BY <1>2
  <2>2. Weight(n + 1) = ByteSize * v
    BY <2>1, NextWeight
  <2>3. ByteSize * v \in Nat /\ v * 2 <= v * ByteSize
    BY Numbers, ProductOfNats, ProductMonotone
  <2>4. ByteSize * v = v * ByteSize
    BY Numbers
  <2> QED
    BY <1>2, <2>1, <2>2, <2>3, <2>4
<1>3. ASSUME NEW n \in Nat, n \in T PROVE n + 1 \in T
  BY <1>2, <1>3
<1>4. k \in T
  <2> HIDE DEF T
  <2> QED
    BY <1>1, <1>3, SetInduction
<1> QED
  BY <1>2, <1>4

LEMMA WeightMonotone ==
  ASSUME NEW k \in Nat, NEW n \in Nat, k <= n
  PROVE  Weight(k) \in Nat /\ Weight(n) \in Nat /\ Weight(k) <= Weight(n)
<1> DEFINE T == {j \in Nat : Weight(k) <= Weight(k + j)}
<1>1. 0 \in T
  BY WeightGrows
<1>2. ASSUME NEW j \in Nat, j \in T PROVE j + 1 \in T
  <2>1. PICK p \in Nat : p = k + j
    OBVIOUS
  <2>2. Weight(p) <= Weight(p + 1) /\ Weight(p) \in Nat /\ Weight(p + 1) \in Nat
    BY WeightGrows
  <2>3. Weight(k) \in Nat /\ k + (j + 1) = p + 1
    BY <2>1, WeightGrows
  <2> QED
    BY <1>2, <2>1, <2>2, <2>3
<1>3. n - k \in T
  <2> HIDE DEF T
  <2>1. n - k \in Nat
    OBVIOUS
  <2> QED
    BY <1>1, <1>2, <2>1, SetInduction
<1>4. k + (n - k) = n
  OBVIOUS
<1> QED
  BY <1>3, <1>4, WeightGrows

LEMMA WordSizes == WordSize \in Nat /\ WordSize > WordBytes
BY Numbers, WeightGrows DEF WordSize

(* Addresses wrap.                                                         *)
LEMMA Remainder ==
  ASSUME NEW n \in Int
  PROVE  /\ Wrap(n) \in Word
         /\ n \in Word => Wrap(n) = n
         /\ WordSize <= n /\ n < 2 * WordSize => Wrap(n) = n - WordSize
         /\ -WordSize <= n /\ n < 0 => Wrap(n) = n + WordSize
<1>1. PICK d \in Nat \ {0} : d = WordSize
  BY WordSizes, Numbers
<1>2. n % d \in 0 .. d - 1
  OBVIOUS
<1>3. n \in 0 .. d - 1 => (n % d) = n
  OBVIOUS
<1>4. d <= n /\ n < 2 * d => (n % d) = n - d
  OBVIOUS
<1>5. -d <= n /\ n < 0 => (n % d) = n + d
  OBVIOUS
<1> QED
  BY <1>1, <1>2, <1>3, <1>4, <1>5 DEF Wrap, Word

-----------------------------------------------------------------------------
(* Memory: what a sequence of bytes stands for, and what a store does.     *)
IsSum(m, a, k, f) ==
  f = [n \in 0 .. k |-> IF n = 0 THEN 0 ELSE f[n - 1] + m[Wrap(a + (n - 1))] * Weight(n - 1)]

LEMMA SumExists ==
  ASSUME NEW m, NEW a, NEW k \in Nat
  PROVE  \E f : IsSum(m, a, k, f)
<1> DEFINE T == {n \in Nat : \E f : IsSum(m, a, n, f)}
<1>1. 0 \in T
  <2> DEFINE f == [n \in 0 .. 0 |-> 0]
  <2>1. IsSum(m, a, 0, f)
    BY DEF IsSum
  <2> QED
    BY <2>1
<1>2. ASSUME NEW n \in Nat, n \in T PROVE n + 1 \in T
  <2>1. PICK f : IsSum(m, a, n, f)
    BY <1>2
  <2>2. \A j \in 0 .. n :
          f[j] = IF j = 0 THEN 0 ELSE f[j - 1] + m[Wrap(a + (j - 1))] * Weight(j - 1)
    BY <2>1 DEF IsSum
  <2> DEFINE g == [j \in 0 .. n + 1 |->
                     IF j <= n THEN f[j] ELSE f[n] + m[Wrap(a + (j - 1))] * Weight(j - 1)]
  <2>3. \A j \in 0 .. n + 1 :
          g[j] = IF j = 0 THEN 0 ELSE g[j - 1] + m[Wrap(a + (j - 1))] * Weight(j - 1)
    <3> SUFFICES ASSUME NEW j \in 0 .. n + 1
                 PROVE  g[j] = IF j = 0 THEN 0
                               ELSE g[j - 1] + m[Wrap(a + (j - 1))] * Weight(j - 1)
      OBVIOUS
    <3>1. CASE j <= n
      BY <2>2, <3>1
    <3>2. CASE j = n + 1
      BY <3>2
    <3> QED
      BY <3>1, <3>2
  <2>4. IsSum(m, a, n + 1, g)
    BY <2>3 DEF IsSum
  <2> QED
    BY <2>4
<1> HIDE DEF T
<1>3. k \in T
  BY <1>1, <1>2, SetInduction
<1> QED
  BY <1>3 DEF T

LEMMA SumIs ==
  ASSUME NEW m, NEW a, NEW k \in Nat
  PROVE  \E f : IsSum(m, a, k, f) /\ Get(m, a, k) = f[k]
<1> DEFINE f == CHOOSE f : IsSum(m, a, k, f)
<1>1. Get(m, a, k) = f[k]
  BY DEF Get, IsSum
<1>2. IsSum(m, a, k, f)
  BY SumExists
<1> QED
  BY <1>1, <1>2

LEMMA SumsAgree ==
  ASSUME NEW m, NEW a, NEW k \in Nat, NEW f, NEW g,
         IsSum(m, a, k, f), IsSum(m, a, k + 1, g)
  PROVE  f[k] = g[k]
<1> DEFINE T == {n \in Nat : n <= k => f[n] = g[n]}
<1>1. \A n \in 0 .. k :
        f[n] = IF n = 0 THEN 0 ELSE f[n - 1] + m[Wrap(a + (n - 1))] * Weight(n - 1)
  BY DEF IsSum
<1>2. \A n \in 0 .. k :
        g[n] = IF n = 0 THEN 0 ELSE g[n - 1] + m[Wrap(a + (n - 1))] * Weight(n - 1)
  BY DEF IsSum
<1>3. 0 \in T
  BY <1>1, <1>2
<1>4. ASSUME NEW n \in Nat, n \in T PROVE n + 1 \in T
  <2> SUFFICES ASSUME n + 1 <= k PROVE f[n + 1] = g[n + 1]
    OBVIOUS
  <2>1. n + 1 \in 0 .. k /\ n + 1 # 0 /\ (n + 1) - 1 = n /\ f[n] = g[n]
    BY <1>4
  <2>2. /\ f[n + 1] = f[(n + 1) - 1] + m[Wrap(a + ((n + 1) - 1))] * Weight((n + 1) - 1)
        /\ g[n + 1] = g[(n + 1) - 1] + m[Wrap(a + ((n + 1) - 1))] * Weight((n + 1) - 1)
    BY <1>1, <1>2, <2>1
  <2> QED
    BY <2>1, <2>2
<1> HIDE DEF T
<1>5. k \in T
  BY <1>3, <1>4, SetInduction
<1> QED
  BY <1>5 DEF T

LEMMA NextByte ==
  ASSUME NEW m, NEW a, NEW k \in Nat
  PROVE  /\ Get(m, a, 0) = 0
         /\ Get(m, a, k + 1) = Get(m, a, k) + m[Wrap(a + k)] * Weight(k)
<1>1. PICK f : IsSum(m, a, k, f) /\ Get(m, a, k) = f[k]
  BY SumIs
<1>2. PICK g : IsSum(m, a, k + 1, g) /\ Get(m, a, k + 1) = g[k + 1]
  BY SumIs
<1>3. PICK h : IsSum(m, a, 0, h) /\ Get(m, a, 0) = h[0]
  BY SumIs
<1>4. g[k + 1] = g[k] + m[Wrap(a + k)] * Weight(k)
  <2>1. k + 1 \in 0 .. k + 1 /\ k + 1 # 0 /\ (k + 1) - 1 = k
    OBVIOUS
  <2>2. g[k + 1] = g[(k + 1) - 1] + m[Wrap(a + ((k + 1) - 1))] * Weight((k + 1) - 1)
    BY <1>2, <2>1 DEF IsSum
  <2> QED
    BY <2>1, <2>2
<1>5. h[0] = 0
  BY <1>3 DEF IsSum
<1>6. f[k] = g[k]
  BY <1>1, <1>2, SumsAgree
<1> QED
  BY <1>1, <1>2, <1>3, <1>4, <1>5, <1>6

Memories == [Word -> Byte]

(* k bytes are a number of k bytes.                                        *)
LEMMA GetType ==
  ASSUME NEW m \in Memories, NEW a \in Word, NEW k \in Nat
  PROVE  Get(m, a, k) \in Nat /\ Get(m, a, k) < Weight(k)
<1> DEFINE T == {n \in Nat : Get(m, a, n) \in Nat /\ Get(m, a, n) < Weight(n)}
<1>1. 0 \in T
  BY NextByte, NextWeight
<1>2. ASSUME NEW n \in Nat, n \in T PROVE n + 1 \in T
  <2>1. PICK v \in Nat : v = Get(m, a, n)
    BY <1>2
  <2>2. PICK u \in Nat : u = Weight(n)
    BY WeightGrows
  <2>3. a + n \in Int /\ Wrap(a + n) \in Word
    <3>1. a + n \in Int
      BY WordSizes DEF Word
    <3> QED
      BY <3>1, Remainder
  <2>4. PICK y \in 0 .. ByteSize - 1 : y = m[Wrap(a + n)]
    BY <2>3 DEF Memories, Byte
  <2>5. Get(m, a, n + 1) = v + y * u
    BY <2>1, <2>2, <2>4, NextByte
  <2>6. Weight(n + 1) = ByteSize * u
    BY <2>2, NextWeight
  <2>7. y * u \in Nat /\ u * (y + 1) <= u * ByteSize
    <3>1. y \in Nat /\ y + 1 \in Nat /\ y + 1 <= ByteSize /\ ByteSize \in Nat
      BY <2>4, Numbers
    <3> QED
      BY <2>2, <3>1, ProductOfNats, ProductMonotone
  <2>8. u * (y + 1) = y * u + u /\ u * ByteSize = ByteSize * u
    <3>1. y \in Int /\ ByteSize \in Int
      BY Numbers
    <3> QED
      BY <2>2, <3>1
  <2>9. ByteSize * u \in Nat
    BY Numbers, <2>2, ProductOfNats
  <2>10. v < u
    BY <1>2, <2>1, <2>2
  <2>11. v + y * u \in Nat /\ v + y * u < ByteSize * u
    BY <2>1, <2>2, <2>7, <2>8, <2>9, <2>10
  <2> QED
    BY <2>5, <2>6, <2>11
<1> HIDE DEF T
<1>3. k \in T
  BY <1>1, <1>2, SetInduction
<1> QED
  BY <1>3 DEF T

LEMMA WordRead ==
  ASSUME NEW m \in Memories, NEW a \in Word
  PROVE  /\ \A k \in 0 .. WordBytes : Get(m, a, k) \in Word
         /\ Extend(Get(m, a, HalfBytes)) \in Word
<1>1. WordSize \in Nat
  BY WordSizes
<1>2. ASSUME NEW k \in 0 .. WordBytes PROVE Get(m, a, k) \in Word
  <2>1. k \in Nat /\ k <= WordBytes /\ WordBytes \in Nat
    BY Numbers
  <2>2. Get(m, a, k) \in Nat /\ Get(m, a, k) < Weight(k)
    BY <2>1, GetType
  <2>3. Weight(k) \in Nat /\ Weight(k) <= WordSize
    BY <2>1, WeightMonotone DEF WordSize
  <2> QED
    BY <1>1, <2>2, <2>3 DEF Word
<1>3. Extend(Get(m, a, HalfBytes)) \in Word
  <2>1. PICK h \in Nat : h = Get(m, a, HalfBytes) /\ h < Weight(HalfBytes)
    BY Numbers, GetType
  <2>2. Weight(HalfBytes) \in Nat /\ Weight(HalfBytes) <= WordSize
    BY Numbers, WeightMonotone DEF WordSize
  <2>3. h \in Word /\ h + WordSize - Weight(HalfBytes) \in Word
    BY <1>1, <2>1, <2>2 DEF Word
  <2> QED
    BY <2>1, <2>3 DEF Extend
<1> QED
  BY <1>2, <1>3

LEMMA ByteType ==
  ASSUME NEW w \in Word, NEW k \in Nat
  PROVE  ByteOf(w, k) \in Byte
<1>1. PICK u \in Nat \ {0} : u = Weight(k)
  BY WeightGrows
<1>2. PICK q \in Nat : q = w \div u
  <2>1. w \in Nat
    BY WordSizes DEF Word
  <2> QED
    BY <1>1, <2>1, DivMod
<1>3. ByteSize \in Nat \ {0}
  BY Numbers
<1>4. (q % ByteSize) \in 0 .. ByteSize - 1
  BY <1>3, DivMod
<1> QED
  BY <1>1, <1>2, <1>4 DEF ByteOf, Byte

LEMMA PutType ==
  ASSUME NEW m \in Memories, NEW a \in Word, NEW k \in Nat, NEW w \in Word
  PROVE  Put(m, a, k, w) \in Memories
<1> SUFFICES ASSUME NEW b \in Word, Wrap(b - a) < k PROVE ByteOf(w, Wrap(b - a)) \in Byte
  BY DEF Put, Memories
<1>1. b - a \in Int
  BY WordSizes DEF Word
<1>2. Wrap(b - a) \in Nat
  BY <1>1, Remainder DEF Word
<1> QED
  BY <1>2, ByteType

LEMMA PutNone ==
  ASSUME NEW m \in Memories, NEW a \in Word, NEW w
  PROVE  Put(m, a, 0, w) = m
<1>1. \A b \in Word : ~(Wrap(b - a) < 0)
  <2> TAKE b \in Word
  <2>1. b - a \in Int
    BY WordSizes DEF Word
  <2> QED
    BY <2>1, Remainder DEF Word
<1> QED
  BY <1>1 DEF Put, Memories

(* One byte more.                                                          *)
LEMMA PutNext ==
  ASSUME NEW m \in Memories, NEW a \in Word, NEW k \in 0 .. WordBytes - 1, NEW w
  PROVE  [Put(m, a, k, w) EXCEPT ![Wrap(a + k)] = ByteOf(w, k)] = Put(m, a, k + 1, w)
<1>1. PICK z \in Word : z = Wrap(a + k)
  <2>1. a + k \in Int
    BY WordSizes, Numbers DEF Word
  <2> QED
    BY <2>1, Remainder
<1>2. \A b \in Word : /\ Wrap(b - a) \in Nat
                      /\ b = z => Wrap(b - a) = k
                      /\ Wrap(b - a) = k => b = z
  <2> TAKE b \in Word
  <2>1. /\ a \in Int /\ b \in Int /\ k \in Int /\ 0 <= a /\ a < WordSize /\ 0 <= b /\ b < WordSize
        /\ 0 <= k /\ k < WordSize /\ WordSize \in Nat
    BY WordSizes, Numbers DEF Word
  <2>2. Wrap(b - a) = IF b >= a THEN b - a ELSE b - a + WordSize
    <3>1. b - a \in Int
      BY <2>1
    <3>2. b >= a => b - a \in Word
      BY <2>1 DEF Word
    <3>3. ~(b >= a) => -WordSize <= b - a /\ b - a < 0
      BY <2>1
    <3> QED
      BY <3>1, <3>2, <3>3, Remainder
  <2>3. z = IF a + k < WordSize THEN a + k ELSE a + k - WordSize
    <3>1. a + k \in Int
      BY <2>1
    <3>2. a + k < WordSize => a + k \in Word
      BY <2>1 DEF Word
    <3>3. ~(a + k < WordSize) => WordSize <= a + k /\ a + k < 2 * WordSize
      BY <2>1
    <3>4. a + k < WordSize => Wrap(a + k) = a + k
      BY <3>1, <3>2, Remainder
    <3>5. ~(a + k < WordSize) => Wrap(a + k) = a + k - WordSize
      <4>1. PICK s \in Int : s = a + k
        BY <3>1
      <4>2. WordSize <= s /\ s < 2 * WordSize => Wrap(s) = s - WordSize
        BY Remainder
      <4> QED
        BY <2>1, <3>3, <4>1, <4>2
    <3> QED
      BY <1>1, <3>4, <3>5
  <2> QED
    BY <2>1, <2>2, <2>3
<1>3. \A b \in Word : Wrap(b - a) < k + 1 <=> (Wrap(b - a) < k \/ b = z)
  <2> TAKE b \in Word
  <2>1. k \in Int /\ Wrap(b - a) \in Int /\ (b = z <=> Wrap(b - a) = k)
    BY <1>2, Numbers
  <2> QED
    BY <2>1
<1>4. \A b \in Word : [Put(m, a, k, w) EXCEPT ![z] = ByteOf(w, k)][b] = Put(m, a, k + 1, w)[b]
  <2> TAKE b \in Word
  <2>1. CASE b = z
    <3>1. Wrap(b - a) = k /\ Wrap(b - a) < k + 1
      BY <1>2, <1>3, <2>1
    <3> QED
      BY <2>1, <3>1 DEF Put
  <2>2. CASE b # z
    BY <1>3, <2>2 DEF Put
  <2> QED
    BY <2>1, <2>2
<1> QED
  BY <1>1, <1>4 DEF Put

-----------------------------------------------------------------------------
(* AMOs.                                                                   *)
LEMMA SignedType ==
  ASSUME NEW w \in Word
  PROVE  Signed(w) \in Int /\ Wrap(Signed(w)) = w
<1>1. PICK h \in Nat : h = WordSize \div 2
  BY WordSizes, DivMod
<1>2. WordSize \in Nat /\ w \in Nat /\ w < WordSize
  BY WordSizes DEF Word
<1>3. CASE w >= h
  <2>1. Signed(w) = w - WordSize
    BY <1>1, <1>3 DEF Signed
  <2>2. w - WordSize \in Int /\ -WordSize <= w - WordSize /\ w - WordSize < 0
    BY <1>2
  <2>3. Wrap(w - WordSize) = (w - WordSize) + WordSize
    BY <2>2, Remainder
  <2> QED
    BY <1>2, <2>1, <2>2, <2>3
<1>4. CASE ~(w >= h)
  <2>1. Signed(w) = w
    BY <1>1, <1>4 DEF Signed
  <2>2. w \in Int
    BY <1>2
  <2> QED
    BY <1>2, <2>1, <2>2, Remainder
<1> QED
  BY <1>3, <1>4

Functions == {"add", "swap", "min", "maxu"}

LEMMA AmoType ==
  ASSUME NEW fn \in Functions, NEW src \in Word, NEW old \in Word
  PROVE  AmoResult(fn, src, old) \in Word
<1>1. src + old \in Int /\ src \in Int /\ old \in Int
  BY WordSizes DEF Word
<1>2. Signed(src) \in Int /\ Signed(old) \in Int
  BY SignedType
<1>3. Smaller(Signed(src), Signed(old)) \in Int
  BY <1>2 DEF Smaller
<1>4. Larger(src, old) \in Word
  BY DEF Larger
<1> QED
  BY <1>1, <1>3, <1>4, Remainder DEF AmoResult, Functions

(* Isa has the words of this module.                                       *)
LEMMA SameSizes ==
  /\ Architecture!WordSize = WordSize /\ Architecture!HalfBytes = HalfBytes
  /\ \A n : Architecture!Weight(n) = Weight(n)
BY DEF Architecture!WordSize, Architecture!Weight, WordSize, Weight, Architecture!HalfBytes, HalfBytes

LEMMA SameWords ==
  /\ Architecture!Word = Word /\ Architecture!Byte = Byte
  /\ \A n : Architecture!Wrap(n) = Wrap(n) /\ Architecture!Signed(n) = Signed(n)
  /\ \A n : Architecture!Extend(n) = Extend(n)
BY SameSizes DEF Architecture!Word, Architecture!Byte, Architecture!Wrap, Architecture!Signed,
   Architecture!Extend, Word, Byte, Wrap, Signed, Extend

LEMMA AmoIsIsa ==
  ASSUME NEW fn \in Functions, NEW src \in Word, NEW old \in Word
  PROVE  AmoResult(fn, src, old) = Architecture!Amo(fn, src, old)
<1>1. src + old = old + src /\ src \in Int /\ old \in Int
  BY WordSizes DEF Word
<1>2. /\ Signed(src) \in Int /\ Signed(old) \in Int
      /\ Wrap(Signed(src)) = src /\ Wrap(Signed(old)) = old
  BY SignedType
<1>3. CASE fn = "add" \/ fn = "swap"
  BY <1>1, <1>3, SameWords DEF AmoResult, Architecture!Amo
<1>4. CASE fn = "min"
  <2>1. PICK r : r = CHOOSE w \in {src, old} :
                       \A v \in {src, old} : Architecture!Signed(w) <= Architecture!Signed(v)
    OBVIOUS
  <2>2. \E w \in {src, old} :
          \A v \in {src, old} : Architecture!Signed(w) <= Architecture!Signed(v)
    BY <1>2, SameWords
  <2>3. r \in {src, old} /\ \A v \in {src, old} : Architecture!Signed(r) <= Architecture!Signed(v)
    BY <2>1, <2>2
  <2>4. \A v \in {src, old} : Signed(r) <= Signed(v)
    BY <2>3, SameWords
  <2>5. Signed(r) = Smaller(Signed(src), Signed(old))
    BY <1>2, <2>3, <2>4 DEF Smaller
  <2>6. Wrap(Signed(r)) = r
    BY <1>2, <2>3
  <2>7. Architecture!Amo(fn, src, old) = r
    BY <1>4, <2>1 DEF Architecture!Amo
  <2>8. AmoResult(fn, src, old) = Wrap(Smaller(Signed(src), Signed(old)))
    BY <1>4 DEF AmoResult
  <2> QED
    BY <2>5, <2>6, <2>7, <2>8
<1>5. CASE fn = "maxu"
  <2>1. PICK r : r = CHOOSE w \in {src, old} : \A v \in {src, old} : w >= v
    OBVIOUS
  <2>2. \E w \in {src, old} : \A v \in {src, old} : w >= v
    BY <1>1
  <2>3. r \in {src, old} /\ \A v \in {src, old} : r >= v
    BY <2>1, <2>2
  <2>4. r = Larger(src, old)
    BY <1>1, <2>3 DEF Larger
  <2>5. Architecture!Amo(fn, src, old) = r
    BY <1>5, <2>1 DEF Architecture!Amo
  <2>6. AmoResult(fn, src, old) = Larger(src, old)
    BY <1>5 DEF AmoResult
  <2> QED
    BY <2>4, <2>5, <2>6
<1> QED
  BY <1>3, <1>4, <1>5 DEF Functions

-----------------------------------------------------------------------------
(* Types.  A handler is at an access of its instruction; a load that is    *)
(* under way has the sum of the bytes it has read.                         *)
Frames == [reg : [Regs -> Word], to : {"same", "next", "stvec"}]
Pasts == [mem : Memories, link : Word \cup {NoLink}, ins : Instrs \cup {NoIns}]

Types ==
  /\ x \in [Regs -> Word] /\ pc \in Stvec .. Places /\ sepc \in 0 .. Places
  /\ mem \in Memories /\ was \in Pasts /\ perm \in Maps
  /\ reservation \in Word /\ link \in Word \cup {NoLink}
  /\ mtvec \in {"isr", "access"}
  /\ ins \in Instrs \cup {NoIns} /\ ctx \in Frames
  /\ i \in 0 .. WordBytes /\ data \in Word

AtAccess ==
  /\ at \in {"program", "restore", "lr", "sc", "amo", "amo store", "fetch", "load", "store"}
  /\ at # "program" => ins \in Instrs /\ pc \in 0 .. Places - 1
  /\ at \in {"lr", "sc", "amo"} => ins.op = at
  /\ at = "amo store" => ins.op = "amo"
  /\ at = "fetch" => ins.op \in Loads \cup Stores
  /\ at = "load" => ins.op \in Loads
  /\ at = "store" => ins.op \in Stores
  /\ at = "fetch" => i = 0 /\ data = 0
  /\ at \in {"load", "store"} => i <= Len(ins.op)
  /\ at = "load" => data = Get(mem, Address, i)

TypeInv == Types /\ AtAccess

LEMMA Lengths ==
  ASSUME NEW op
  PROVE  Len(op) \in {HalfBytes, WordBytes} /\ Len(op) \in 1 .. WordBytes
<1>1. HalfBytes >= 1
  BY WordsAssumption DEF HalfBytes
<1> QED
  BY <1>1, Numbers DEF Len

LEMMA Instructions ==
  ASSUME NEW n \in Instrs
  PROVE  /\ n.rd \in Regs /\ n.rs1 \in Regs /\ n.rs2 \in Regs
         /\ n.op \in {"lr", "sc", "amo"} \cup Loads \cup Stores
         /\ n.op = "amo" => n.fn \in Functions
         /\ n # NoIns
BY EmulationAssumption DEF Functions, NoIns, Loads, Stores

LEMMA ZeroIsWord == 0 \in Word /\ 1 \in Word
BY WordSizes, Numbers DEF Word

LEMMA InitTypes == Init => TypeInv
<1> SUFFICES ASSUME Init PROVE TypeInv
  OBVIOUS
<1>1. x \in [Regs -> Word] /\ NoFrame \in Frames
  BY ZeroIsWord DEF Init, NoFrame, Frames
<1>2. mem \in Memories
  <2>1. \A a \in Word : (a % ByteSize) \in Byte
    <3> TAKE a \in Word
    <3>1. PICK d \in Nat \ {0} : d = ByteSize
      BY Numbers
    <3>2. a \in Int
      BY WordSizes DEF Word
    <3>3. (a % d) \in 0 .. d - 1
      BY <3>2
    <3> QED
      BY <3>1, <3>3 DEF Byte
  <2> QED
    BY <2>1 DEF Init, Memories
<1>3. was \in Pasts
  BY <1>2 DEF Init, Pasts
<1>4. pc \in Stvec .. Places /\ sepc \in 0 .. Places /\ i \in 0 .. WordBytes
  BY EmulationAssumption, Numbers DEF Init, Stvec
<1>5. Types
  BY <1>1, <1>2, <1>3, <1>4, ZeroIsWord DEF Init, Types, NoReservation
<1>6. AtAccess
  BY DEF Init, AtAccess
<1> QED
  BY <1>5, <1>6 DEF TypeInv

(* In a handler the address is a word.                                     *)
LEMMA AddressType ==
  ASSUME TypeInv, at # "program"
  PROVE  /\ ins \in Instrs /\ Address \in Word
         /\ (ins.rs1 # 0 => Reg(ins.rs1) = ctx.reg[ins.rs1])
         /\ \A r \in Regs : ctx.reg[r] \in Word /\ Reg(r) \in Word /\ x[r] \in Word
<1>1. ins \in Instrs
  BY DEF TypeInv, AtAccess
<1>2. \A r \in Regs : ctx.reg[r] \in Word /\ Reg(r) \in Word /\ x[r] \in Word
  BY ZeroIsWord DEF TypeInv, Types, Frames, Reg
<1> QED
  BY <1>1, <1>2, Instructions DEF Address, Reg

LEMMA SetType ==
  ASSUME TypeInv, NEW r \in Regs, NEW v \in Word
  PROVE  Set(r, v) \in [Regs -> Word] /\ ctx.reg \in [Regs -> Word]
BY DEF Set, TypeInv, Types, Frames

(* The two ways out of a handler.                                          *)
LEMMA LeavesTypes ==
  ASSUME TypeInv, at # "program", NEW reg \in [Regs -> Word],
         Redirect(reg) \/ Finish(reg),
         UNCHANGED <<program, ins, was>>, mem' \in Memories,
         reservation' \in Word, link' \in Word \cup {NoLink},
         i' \in 0 .. WordBytes, data' \in Word
  PROVE  TypeInv'
<1>1. ctx' \in Frames /\ mtvec' \in {"isr", "access"} /\ at' = "restore"
  BY DEF Redirect, Finish, Frames
<1>2. Types'
  BY <1>1 DEF TypeInv, Types, program
<1>3. AtAccess'
  BY <1>1 DEF TypeInv, AtAccess, program
<1> QED
  BY <1>2, <1>3 DEF TypeInv

(* The way to its next access.                                             *)
LEMMA ProceedsTypes ==
  ASSUME TypeInv, at # "program", NEW next, Proceed(next),
         UNCHANGED <<program, ins, was, reservation, link>>, mem' \in Memories,
         i' \in 0 .. WordBytes, data' \in Word, AtAccess'
  PROVE  TypeInv'
BY DEF TypeInv, Types, Proceed, program

LEMMA StepLR == TypeInv /\ EmulateLR => TypeInv'
<1> SUFFICES ASSUME TypeInv, EmulateLR PROVE TypeInv'
  OBVIOUS
<1>1. at # "program" /\ ins \in Instrs
  BY AddressType DEF EmulateLR
<1>2. ctx.reg[ins.rs1] \in Word
  BY <1>1, AddressType, Instructions
<1>3. Get(mem, ctx.reg[ins.rs1], WordBytes) \in Word
  <2>1. WordBytes \in 0 .. WordBytes
    BY Numbers
  <2> QED
    BY <1>2, <2>1, WordRead DEF TypeInv, Types
<1>4. \E reg \in [Regs -> Word] : Redirect(reg) \/ Finish(reg)
  BY <1>1, <1>3, SetType, Instructions DEF EmulateLR
<1>5. /\ UNCHANGED <<program, ins, was>> /\ mem' \in Memories
      /\ i' \in 0 .. WordBytes /\ data' \in Word
  BY DEF EmulateLR, TypeInv, Types
<1>6. reservation' \in Word /\ link' \in Word \cup {NoLink}
  BY <1>2 DEF EmulateLR, TypeInv, Types
<1> QED
  BY <1>1, <1>4, <1>5, <1>6, LeavesTypes

LEMMA StepSC == TypeInv /\ EmulateSC => TypeInv'
<1> SUFFICES ASSUME TypeInv, EmulateSC PROVE TypeInv'
  OBVIOUS
<1>1. at # "program" /\ ins \in Instrs
  BY AddressType DEF EmulateSC
<1>2. Reg(ins.rs1) \in Word /\ Reg(ins.rs2) \in Word
  BY <1>1, AddressType, Instructions
<1>3. Put(mem, Reg(ins.rs1), WordBytes, Reg(ins.rs2)) \in Memories
  BY <1>2, PutType, Numbers DEF TypeInv, Types
<1>4. \E reg \in [Regs -> Word] : Redirect(reg) \/ Finish(reg)
  BY <1>1, SetType, Instructions, ZeroIsWord DEF EmulateSC
<1>5. /\ UNCHANGED <<program, ins, was>>
      /\ i' \in 0 .. WordBytes /\ data' \in Word
  BY DEF EmulateSC, TypeInv, Types
<1>6. mem' \in Memories
  BY <1>3 DEF EmulateSC, TypeInv, Types
<1>7. reservation' \in Word /\ link' \in Word \cup {NoLink}
  BY ZeroIsWord DEF EmulateSC, TypeInv, Types, ReservationAfterStore, NoReservation
<1> QED
  BY <1>1, <1>4, <1>5, <1>6, <1>7, LeavesTypes

LEMMA StepAtomicLoad == TypeInv /\ AtomicLoad => TypeInv'
<1> SUFFICES ASSUME TypeInv, AtomicLoad PROVE TypeInv'
  OBVIOUS
<1>1. at # "program" /\ ins \in Instrs /\ ins.op = "amo" /\ pc \in 0 .. Places - 1
  BY DEF AtomicLoad, TypeInv, AtAccess
<1>2. Get(mem, Reg(ins.rs1), WordBytes) \in Word
  <2>1. WordBytes \in 0 .. WordBytes /\ Reg(ins.rs1) \in Word
    BY <1>1, AddressType, Instructions, Numbers
  <2> QED
    BY <2>1, WordRead DEF TypeInv, Types
<1>3. /\ UNCHANGED <<program, ins, was, reservation, link>> /\ mem' \in Memories
      /\ i' \in 0 .. WordBytes /\ data' \in Word
      /\ reservation' \in Word /\ link' \in Word \cup {NoLink}
  BY <1>2 DEF AtomicLoad, TypeInv, Types
<1>4. CASE Redirect(ctx.reg)
  BY <1>1, <1>3, <1>4, SetType, LeavesTypes, ZeroIsWord, Instructions
<1>5. CASE Proceed("amo store")
  <2>1. AtAccess'
    BY <1>1, <1>3, <1>5 DEF AtAccess, Proceed, program
  <2> QED
    BY <1>1, <1>3, <1>5, <2>1, ProceedsTypes
<1> QED
  BY <1>4, <1>5 DEF AtomicLoad

LEMMA StepAtomicStore == TypeInv /\ AtomicStore => TypeInv'
<1> SUFFICES ASSUME TypeInv, AtomicStore PROVE TypeInv'
  OBVIOUS
<1>1. at # "program" /\ ins \in Instrs /\ ins.op = "amo"
  BY DEF AtomicStore, TypeInv, AtAccess
<1>2. Reg(ins.rs1) \in Word /\ Reg(ins.rs2) \in Word /\ data \in Word
  BY <1>1, AddressType, Instructions DEF TypeInv, Types
<1>3. AmoResult(ins.fn, Reg(ins.rs2), data) \in Word
  BY <1>1, <1>2, Instructions, AmoType
<1>4. Put(mem, Reg(ins.rs1), WordBytes, AmoResult(ins.fn, Reg(ins.rs2), data)) \in Memories
  BY <1>2, <1>3, PutType, Numbers DEF TypeInv, Types
<1>5. \E reg \in [Regs -> Word] : Redirect(reg) \/ Finish(reg)
  BY <1>1, <1>2, SetType, Instructions DEF AtomicStore, RegsIfStoreFaults
<1>6. /\ UNCHANGED <<program, ins, was>> /\ mem' \in Memories
      /\ i' \in 0 .. WordBytes /\ data' \in Word
      /\ reservation' \in Word /\ link' \in Word \cup {NoLink}
  BY <1>4 DEF AtomicStore, TypeInv, Types
<1> QED
  BY <1>1, <1>5, <1>6, LeavesTypes

LEMMA StepFetch == TypeInv /\ Fetch => TypeInv'
<1> SUFFICES ASSUME TypeInv, Fetch PROVE TypeInv'
  OBVIOUS
<1>1. /\ at # "program" /\ ins \in Instrs /\ ins.op \in Loads \cup Stores
      /\ pc \in 0 .. Places - 1 /\ i = 0 /\ data = 0
  BY DEF Fetch, TypeInv, AtAccess
<1>2. /\ UNCHANGED <<program, ins, was, reservation, link, mem, i, data>> /\ mem' \in Memories
      /\ i' \in 0 .. WordBytes /\ data' \in Word
      /\ reservation' \in Word /\ link' \in Word \cup {NoLink}
  BY DEF Fetch, TypeInv, Types
<1>3. CASE Redirect(ctx.reg)
  BY <1>1, <1>2, <1>3, SetType, LeavesTypes, ZeroIsWord, Instructions
<1>4. ASSUME NEW next, next = (IF ins.op \in Loads THEN "load" ELSE "store"), Proceed(next)
      PROVE  TypeInv'
  <2>1. 0 <= Len(ins.op) /\ Get(mem, Address, 0) = 0
    BY Lengths, NextByte
  <2>2. /\ at' = next /\ pc' = pc /\ ins' = ins /\ i' = 0 /\ data' = 0 /\ mem' = mem
        /\ Address' = Address
    BY <1>1, <1>2, <1>4 DEF Proceed, program, Address
  <2>3. next \in {"load", "store"} /\ (next = "load" => ins.op \in Loads)
        /\ (next = "store" => ins.op \in Stores)
    BY <1>1, <1>4
  <2>4. AtAccess'
    BY <1>1, <2>1, <2>2, <2>3 DEF AtAccess
  <2> QED
    BY <1>1, <1>2, <1>4, <2>4, ProceedsTypes
<1> QED
  BY <1>3, <1>4 DEF Fetch

LEMMA StepLoadByte == TypeInv /\ LoadByte => TypeInv'
<1> SUFFICES ASSUME TypeInv, LoadByte PROVE TypeInv'
  OBVIOUS
<1>1. /\ at # "program" /\ ins \in Instrs /\ ins.op \in Loads
      /\ pc \in 0 .. Places - 1 /\ data = Get(mem, Address, i) /\ i \in 0 .. WordBytes
      /\ i < Len(ins.op)
  BY DEF LoadByte, TypeInv, Types, AtAccess, MoreBytes
<1>2. /\ UNCHANGED <<program, ins, was, reservation, link>> /\ mem' = mem /\ mem' \in Memories
      /\ mem \in Memories
      /\ reservation' \in Word /\ link' \in Word \cup {NoLink}
  BY DEF LoadByte, TypeInv, Types
<1>3. CASE Redirect(ctx.reg) /\ UNCHANGED <<i, data>>
  <2>1. i' \in 0 .. WordBytes /\ data' \in Word
    BY <1>3 DEF TypeInv, Types
  <2>2. ctx.reg \in [Regs -> Word]
    BY DEF TypeInv, Types, Frames
  <2> QED
    BY <1>1, <1>2, <1>3, <2>1, <2>2, LeavesTypes
<1>4. CASE Proceed("load") /\ i' = i + 1 /\ data' = data + mem[Wrap(Address + i)] * Weight(i)
  <2>1. /\ i \in Nat /\ i + 1 \in 0 .. WordBytes /\ i + 1 <= Len(ins.op)
    BY <1>1, Lengths, Numbers
  <2>2. data' = Get(mem, Address, i + 1)
    BY <1>1, <1>4, <2>1, NextByte
  <2>3. Get(mem, Address, i + 1) \in Word
    BY <1>1, <1>2, <2>1, AddressType, WordRead
  <2>4. /\ at' = "load" /\ pc' = pc /\ ins' = ins /\ Address' = Address
    BY <1>2, <1>4 DEF Proceed, program, Address
  <2>5. AtAccess'
    BY <1>1, <1>2, <1>4, <2>1, <2>2, <2>4 DEF AtAccess
  <2> QED
    BY <1>1, <1>2, <1>4, <2>1, <2>2, <2>3, <2>5, ProceedsTypes
<1> QED
  BY <1>3, <1>4 DEF LoadByte

LEMMA StepLoadEnds == TypeInv /\ LoadEnds => TypeInv'
<1> SUFFICES ASSUME TypeInv, LoadEnds PROVE TypeInv'
  OBVIOUS
<1>1. /\ at # "program" /\ ins \in Instrs /\ ins.op \in Loads
      /\ data = Get(mem, Address, i) /\ i = Len(ins.op)
  BY Lengths, Numbers DEF LoadEnds, TypeInv, Types, AtAccess, MoreBytes
<1>2. /\ UNCHANGED <<program, ins, was>> /\ mem' \in Memories
      /\ i' \in 0 .. WordBytes /\ data' \in Word
      /\ reservation' \in Word /\ link' \in Word \cup {NoLink}
  BY DEF LoadEnds, TypeInv, Types
<1>3. Loaded \in Word
  <2>1. mem \in Memories /\ data \in Word
    BY DEF TypeInv, Types
  <2>2. ins.op = "lh" => data = Get(mem, Address, HalfBytes)
    BY <1>1 DEF Len
  <2> QED
    BY <1>1, <2>1, <2>2, AddressType, WordRead DEF Loaded
<1>4. \E reg \in [Regs -> Word] : Redirect(reg) \/ Finish(reg)
  BY <1>1, <1>3, SetType, Instructions DEF LoadEnds
<1> QED
  BY <1>1, <1>2, <1>4, LeavesTypes

LEMMA StepStoreByte == TypeInv /\ StoreByte => TypeInv'
<1> SUFFICES ASSUME TypeInv, StoreByte PROVE TypeInv'
  OBVIOUS
<1>1. /\ at # "program" /\ ins \in Instrs /\ ins.op \in Stores
      /\ pc \in 0 .. Places - 1 /\ i \in 0 .. WordBytes /\ i < Len(ins.op)
  BY DEF StoreByte, TypeInv, Types, AtAccess, MoreBytes
<1>2. /\ UNCHANGED <<program, ins, was, reservation, link>> /\ mem \in Memories
      /\ reservation' \in Word /\ link' \in Word \cup {NoLink} /\ data' \in Word
  BY DEF StoreByte, TypeInv, Types
<1>3. CASE Redirect(ctx.reg) /\ UNCHANGED <<mem, i>>
  <2>1. i' \in 0 .. WordBytes /\ mem' \in Memories
    BY <1>3 DEF TypeInv, Types
  <2>2. ctx.reg \in [Regs -> Word]
    BY DEF TypeInv, Types, Frames
  <2> QED
    BY <1>1, <1>2, <1>3, <2>1, <2>2, LeavesTypes
<1>4. CASE Proceed("store") /\ i' = i + 1
           /\ mem' = [mem EXCEPT ![Wrap(Address + i)] = ByteOf(Reg(ins.rs2), i)]
  <2>1. /\ i \in Nat /\ i + 1 \in 0 .. WordBytes /\ i + 1 <= Len(ins.op)
    BY <1>1, Lengths, Numbers
  <2>2. ByteOf(Reg(ins.rs2), i) \in Byte
    BY <1>1, <2>1, AddressType, Instructions, ByteType
  <2>3. mem' \in Memories
    BY <1>2, <1>4, <2>2 DEF Memories
  <2>4. at' = "store" /\ pc' = pc /\ ins' = ins
    BY <1>2, <1>4 DEF Proceed, program
  <2>5. AtAccess'
    BY <1>1, <1>4, <2>1, <2>4 DEF AtAccess
  <2> QED
    BY <1>1, <1>2, <1>4, <2>1, <2>3, <2>5, ProceedsTypes
<1> QED
  BY <1>3, <1>4 DEF StoreByte

LEMMA StepStoreEnds == TypeInv /\ StoreEnds => TypeInv'
<1> SUFFICES ASSUME TypeInv, StoreEnds PROVE TypeInv'
  OBVIOUS
<1>1. /\ at # "program" /\ UNCHANGED <<program, ins, was>> /\ mem' \in Memories
      /\ i' \in 0 .. WordBytes /\ data' \in Word
      /\ reservation' \in Word /\ link' \in Word \cup {NoLink}
  BY DEF StoreEnds, TypeInv, Types
<1>2. ctx.reg \in [Regs -> Word] /\ Finish(ctx.reg)
  BY DEF StoreEnds, TypeInv, Types, Frames
<1> QED
  BY <1>1, <1>2, LeavesTypes

LEMMA StepRestore == TypeInv /\ Restore => TypeInv'
<1> SUFFICES ASSUME TypeInv, Restore PROVE TypeInv'
  OBVIOUS
<1>1. x' \in [Regs -> Word] /\ ctx' \in Frames
  BY ZeroIsWord DEF Restore, NoFrame, Frames, TypeInv, Types
<1>2. pc' \in Stvec .. Places /\ sepc' \in 0 .. Places
  <2>1. pc \in 0 .. Places - 1 /\ sepc \in 0 .. Places
    BY DEF Restore, TypeInv, Types, AtAccess
  <2> QED
    BY <2>1, EmulationAssumption DEF Restore, Stvec
<1>3. was' \in Pasts
  BY DEF Restore, Pasts, TypeInv, Types
<1>4. i' \in 0 .. WordBytes /\ data' \in Word
  BY Numbers, ZeroIsWord DEF Restore
<1>5. Types'
  BY <1>1, <1>2, <1>3, <1>4 DEF Restore, TypeInv, Types
<1>6. AtAccess'
  BY DEF Restore, AtAccess
<1> QED
  BY <1>5, <1>6 DEF TypeInv

LEMMA StepProgram == TypeInv /\ (Compute \/ Supervisor) => TypeInv'
<1> SUFFICES ASSUME TypeInv, Compute \/ Supervisor PROVE TypeInv'
  OBVIOUS
<1>1. x' \in [Regs -> Word]
  BY EmulationAssumption DEF Compute, Supervisor, TypeInv, Types
<1>2. pc' \in Stvec .. Places
  BY DEF Compute, Supervisor, TypeInv, Types, Stvec
<1>3. Types'
  BY <1>1, <1>2 DEF Compute, Supervisor, TypeInv, Types
<1>4. AtAccess'
  BY DEF Compute, Supervisor, AtAccess
<1> QED
  BY <1>3, <1>4 DEF TypeInv

LEMMA StepTrap ==
  ASSUME TypeInv, NEW n \in Instrs, Trap(n)
  PROVE  TypeInv'
<1>1. ctx' \in Frames
  BY EmulationAssumption DEF Trap, Frames, TypeInv, Types
<1>2. i' \in 0 .. WordBytes /\ data' \in Word
  BY Numbers, ZeroIsWord DEF Trap
<1>3. Types'
  BY <1>1, <1>2 DEF Trap, program, TypeInv, Types
<1>4. pc' \in 0 .. Places - 1
  BY EmulationAssumption DEF Trap, program, TypeInv, Types, Stvec
<1>5. /\ at' \in {"lr", "sc", "amo", "fetch"} /\ (at' \in {"lr", "sc", "amo"} => n.op = at')
      /\ (at' = "fetch" => n.op \in Loads \cup Stores)
  BY Instructions DEF Trap, FirstAccess, Loads, Stores
<1>6. ins' = n /\ i' = 0 /\ data' = 0
  BY DEF Trap
<1>7. AtAccess'
  BY <1>4, <1>5, <1>6 DEF AtAccess
<1> QED
  BY <1>3, <1>7 DEF TypeInv

LEMMA StepTypes == TypeInv /\ [Next]_vars => TypeInv'
<1> SUFFICES ASSUME TypeInv, [Next]_vars PROVE TypeInv'
  OBVIOUS
<1>1. CASE UNCHANGED vars
  BY <1>1 DEF vars, TypeInv, Types, AtAccess, Address
<1>2. CASE Handler
  BY <1>2, StepLR, StepSC, StepAtomicLoad, StepAtomicStore, StepFetch, StepLoadByte,
     StepLoadEnds, StepStoreByte, StepStoreEnds, StepRestore DEF Handler
<1>3. CASE Compute \/ Supervisor
  BY <1>3, StepProgram
<1>4. CASE \E n \in Instrs : Trap(n)
  BY <1>4, StepTrap
<1> QED
  BY <1>1, <1>2, <1>3, <1>4 DEF Next

LEMMA TypesInvariant == Spec => []TypeInv
BY InitTypes, StepTypes, PTL DEF Spec

(* Registers, frame, reservation and loop of a handler keep their types at *)
(* every access; what a load has read so far is a word.                    *)
THEOREM TypeCorrect == Spec => []TypeOK
<1>1. TypeInv => TypeOK
  BY DEF TypeInv, Types, AtAccess, TypeOK, Pasts, Frames, Memories
<1> QED
  BY <1>1, TypesInvariant, PTL

-----------------------------------------------------------------------------
(* The frame has the registers of the program, but for sp and x0.          *)
Agrees == \A r \in Regs \ {0, SP} : ctx.reg[r] = x[r]

(* What isr_vector will make of them.                                      *)
Restored == [r \in Regs |-> IF r \in {0, SP} THEN x[r] ELSE ctx.reg[r]]

Written(r, v) == [x EXCEPT ![r] = IF r = 0 THEN 0 ELSE v]

(* The word that an SC may store to has been reserved by an LR.            *)
Reserved == reservation # NoReservation => link = reservation

Unchanged == mem = was.mem /\ link = was.link

(* The effects of an instruction that has been carried out.                *)
LrDone ==
  /\ ins.op = "lr" /\ Aligned(Address, WordBytes) /\ Readable(Address)
  /\ Restored = Written(ins.rd, Get(was.mem, Address, WordBytes))
  /\ mem = was.mem /\ link = Address

ScDone ==
  /\ ins.op = "sc"
  /\ \/ /\ was.link = Address /\ Writable(Address)
        /\ mem = Put(was.mem, Address, WordBytes, x[ins.rs2])
        /\ Restored = Written(ins.rd, 0) /\ link = NoLink
     \/ Restored = Written(ins.rd, 1) /\ Unchanged

AmoDone ==
  /\ ins.op = "amo" /\ Aligned(Address, WordBytes) /\ Writable(Address)
  /\ LET old == Get(was.mem, Address, WordBytes)
     IN  /\ mem = Put(was.mem, Address, WordBytes, AmoResult(ins.fn, x[ins.rs2], old))
         /\ Restored = Written(ins.rd, old)
  /\ link = was.link

LoadDone ==
  /\ ins.op \in Loads
  /\ \A k \in 0 .. Len(ins.op) - 1 : Readable(Wrap(Address + k))
  /\ LET v == Get(was.mem, Address, Len(ins.op))
     IN  Restored = Written(ins.rd, IF ins.op = "lh" THEN Extend(v) ELSE v)
  /\ Unchanged

StoreDone ==
  /\ ins.op \in Stores
  /\ \A k \in 0 .. Len(ins.op) - 1 : Writable(Wrap(Address + k))
  /\ mem = Put(was.mem, Address, Len(ins.op), x[ins.rs2])
  /\ Restored = x /\ link = was.link

Redirected ==
  /\ \/ mem = was.mem
     \/ /\ ins.op \in Stores
        /\ \E k \in 1 .. Len(ins.op) - 1 : mem = Put(was.mem, Address, k, x[ins.rs2])
  /\ Restored = x /\ link = was.link

(* What is done and what is left of the instruction, at each access.       *)
Progress ==
  /\ x[0] = 0 /\ Reserved
  /\ at = "program" => Unchanged
  /\ at \notin {"program", "restore"} => Agrees
  /\ at \in {"lr", "sc", "amo", "amo store", "fetch", "load"} => Unchanged
  /\ at = "amo store" => data = Get(mem, Address, WordBytes) /\ Aligned(Address, WordBytes)
  /\ at = "load" => \A k \in 0 .. i - 1 : Readable(Wrap(Address + k))
  /\ at = "store" =>
       /\ \A k \in 0 .. i - 1 : Writable(Wrap(Address + k))
       /\ mem = Put(was.mem, Address, i, x[ins.rs2]) /\ link = was.link
  /\ at = "restore" =>
       \/ ctx.to = "next" /\ (LrDone \/ ScDone \/ AmoDone \/ LoadDone \/ StoreDone)
       \/ ctx.to = "stvec" /\ Redirected

(* The programs that the emulation serves: their emulated instructions     *)
(* leave sp alone and no LR is at x0, whose slot in the frame is stale;    *)
(* and the word at 0 is not writable, as 0 stands for no reservation.      *)
Supported ==
  /\ \A n \in Instrs : SP \notin {n.rd, n.rs1, n.rs2} /\ (n.op = "lr" => n.rs1 # 0)
  /\ \A m \in Maps : m[0] # "rw"

InHandler == at \notin {"program", "restore"}

LEMMA InitProgress == Init => Progress
BY EmulationAssumption DEF Init, Progress, Reserved, Unchanged

(* What a handler finds in the frame is what the program has.              *)
LEMMA FrameHolds ==
  ASSUME Supported, TypeInv, Progress, InHandler
  PROVE  /\ ins \in Instrs /\ Address \in Word /\ x[ins.rs2] \in Word
         /\ Reg(ins.rs1) = Address /\ Reg(ins.rs2) = x[ins.rs2]
         /\ ins.op = "lr" => ctx.reg[ins.rs1] = Address
<1>1. ins \in Instrs /\ Address \in Word /\ x[0] = 0 /\ Agrees /\ x[ins.rs2] \in Word
  BY AddressType, Instructions DEF InHandler, Progress
<1>2. \A r \in Regs \ {SP} : Reg(r) = x[r] /\ (r # 0 => ctx.reg[r] = x[r])
  BY <1>1 DEF Agrees, Reg
<1>3. /\ ins.rs1 \in Regs \ {SP} /\ ins.rs2 \in Regs \ {SP}
      /\ ins.op = "lr" => ins.rs1 # 0
  BY <1>1, Instructions DEF Supported
<1> QED
  BY <1>1, <1>2, <1>3 DEF Address

(* What isr_vector makes of a frame in which one register was written, or  *)
(* none.                                                                   *)
LEMMA RestoredSet ==
  ASSUME TypeInv, x[0] = 0, Agrees, x' = x,
         NEW rd \in Regs \ {SP}, NEW v \in Word
  PROVE  /\ ctx'.reg = Set(rd, v) => Restored' = [x EXCEPT ![rd] = IF rd = 0 THEN 0 ELSE v]
         /\ ctx'.reg = ctx.reg => Restored' = x
         /\ rd = 0 => [x EXCEPT ![rd] = IF rd = 0 THEN 0 ELSE v] = x
<1>1. x \in [Regs -> Word] /\ ctx.reg \in [Regs -> Word]
  BY DEF TypeInv, Types, Frames
<1>2. Restored' = [r \in Regs |-> IF r \in {0, SP} THEN x[r] ELSE ctx'.reg[r]]
  BY DEF Restored
<1>3. \A r \in Regs \ {0, SP} : ctx.reg[r] = x[r]
  BY DEF Agrees
<1>4. ctx'.reg = ctx.reg => Restored' = x
  BY <1>1, <1>2, <1>3
<1>5. ASSUME ctx'.reg = Set(rd, v)
      PROVE  Restored' = [x EXCEPT ![rd] = IF rd = 0 THEN 0 ELSE v]
  <2>1. \A r \in Regs : Set(rd, v)[r] = IF r = rd THEN v ELSE ctx.reg[r]
    BY <1>1 DEF Set
  <2>2. \A r \in Regs : (IF r \in {0, SP} THEN x[r] ELSE ctx'.reg[r])
                        = [x EXCEPT ![rd] = IF rd = 0 THEN 0 ELSE v][r]
    BY <1>1, <1>3, <1>5, <2>1
  <2> QED
    BY <1>1, <1>2, <2>2
<1>6. rd = 0 => [x EXCEPT ![rd] = IF rd = 0 THEN 0 ELSE v] = x
  BY <1>1
<1> QED
  BY <1>4, <1>5, <1>6

LEMMA ProgressAtEnd ==
  ASSUME x[0] = 0, x' = x, Reserved', at' = "restore",
         \/ ctx'.to = "next" /\ (LrDone' \/ ScDone' \/ AmoDone' \/ LoadDone' \/ StoreDone')
         \/ ctx'.to = "stvec" /\ Redirected'
  PROVE  Progress'
BY DEF Progress

(* After a fault the program has what it had.                              *)
LEMMA ProgressIfRedirected ==
  ASSUME Supported, TypeInv, Progress, InHandler, Redirect(ctx.reg),
         UNCHANGED <<x, mem, reservation, ins, link, was>>, link = was.link,
         \/ mem = was.mem
         \/ /\ ins.op \in Stores
            /\ \E k \in 1 .. Len(ins.op) - 1 : mem = Put(was.mem, Address, k, x[ins.rs2])
  PROVE  Progress'
<1>1. x[0] = 0 /\ Agrees /\ Reserved'
  BY DEF Progress, InHandler, Reserved
<1>2. Restored' = x
  <2>1. \E rd \in Regs \ {SP} : \E v \in Word : TRUE
    BY ZeroIsWord, EmulationAssumption DEF SP
  <2> QED
    BY <1>1, <2>1, RestoredSet DEF Redirect
<1>3. Address' = Address
  BY DEF Address
<1>4. Redirected'
  BY <1>2, <1>3 DEF Redirected
<1> QED
  BY <1>1, <1>4, ProgressAtEnd DEF Redirect

LEMMA ProgressLR == Supported /\ TypeInv /\ Progress /\ EmulateLR => Progress'
<1> SUFFICES ASSUME Supported, TypeInv, Progress, EmulateLR PROVE Progress'
  OBVIOUS
<1>1. InHandler /\ ins.op = "lr" /\ Unchanged /\ Agrees /\ x[0] = 0
  BY DEF EmulateLR, InHandler, TypeInv, AtAccess, Progress
<1>2. /\ ins \in Instrs /\ Address \in Word /\ ctx.reg[ins.rs1] = Address
      /\ ins.rd \in Regs \ {SP}
  BY <1>1, FrameHolds, Instructions DEF Supported
<1>3. UNCHANGED <<x, perm, mem, ins, was>> /\ Address' = Address
  BY DEF EmulateLR, program, Address
<1>4. CASE Redirect(ctx.reg) /\ UNCHANGED <<reservation, link>>
  BY <1>1, <1>3, <1>4, ProgressIfRedirected DEF Unchanged
<1>5. ASSUME Aligned(Address, WordBytes), Readable(Address),
             reservation' = Address, link' = Address,
             Finish(Set(ins.rd, Get(mem, Address, WordBytes)))
      PROVE  Progress'
  <2>1. Get(mem, Address, WordBytes) \in Word
    BY <1>2, WordRead, Numbers DEF TypeInv, Types
  <2>2. Restored' = [x EXCEPT ![ins.rd] = IF ins.rd = 0 THEN 0 ELSE Get(mem, Address, WordBytes)]
    BY <1>1, <1>2, <1>3, <1>5, <2>1, RestoredSet DEF Finish
  <2>3. LrDone'
    BY <1>1, <1>3, <1>5, <2>2 DEF LrDone, Written, Readable, Mapped, Unchanged
  <2>4. Reserved'
    BY <1>5 DEF Reserved
  <2> QED
    BY <1>1, <1>3, <1>5, <2>3, <2>4, ProgressAtEnd DEF Finish
<1> QED
  BY <1>2, <1>4, <1>5 DEF EmulateLR

LEMMA ProgressSC == Supported /\ TypeInv /\ Progress /\ EmulateSC => Progress'
<1> SUFFICES ASSUME Supported, TypeInv, Progress, EmulateSC PROVE Progress'
  OBVIOUS
<1>1. InHandler /\ ins.op = "sc" /\ Unchanged /\ Agrees /\ x[0] = 0 /\ Reserved
  BY DEF EmulateSC, InHandler, TypeInv, AtAccess, Progress
<1>2. /\ ins \in Instrs /\ Reg(ins.rs1) = Address /\ Reg(ins.rs2) = x[ins.rs2]
      /\ ins.rd \in Regs \ {SP}
  BY <1>1, FrameHolds, Instructions DEF Supported
<1>3. UNCHANGED <<x, perm, ins, was>> /\ Address' = Address
  BY DEF EmulateSC, program, Address
<1>4. ASSUME reservation = Address, Writable(Address),
             mem' = Put(mem, Address, WordBytes, x[ins.rs2]),
             reservation' = NoReservation, link' = NoLink, Finish(Set(ins.rd, 0))
      PROVE  Progress'
  <2>1. Address # NoReservation
    <3>1. 0 - (0 % WordBytes) = 0
      BY Numbers
    <3>2. perm[0] # "rw"
      BY DEF Supported, TypeInv, Types
    <3> QED
      BY <1>4, <3>1, <3>2 DEF Writable, Mapped, NoReservation
  <2>2. was.link = Address
    BY <1>1, <1>4, <2>1 DEF Reserved, Unchanged
  <2>3. Restored' = [x EXCEPT ![ins.rd] = IF ins.rd = 0 THEN 0 ELSE 0]
    BY <1>1, <1>2, <1>3, <1>4, ZeroIsWord, RestoredSet DEF Finish
  <2>4. ScDone'
    BY <1>1, <1>3, <1>4, <2>2, <2>3 DEF ScDone, Written, Writable, Mapped, Unchanged
  <2>5. Reserved'
    BY <1>4 DEF Reserved
  <2> QED
    BY <1>1, <1>3, <1>4, <2>4, <2>5, ProgressAtEnd DEF Finish
<1>5. CASE Redirect(ctx.reg) /\ UNCHANGED <<mem, reservation, link>>
  BY <1>1, <1>3, <1>5, ProgressIfRedirected DEF Unchanged
<1>6. CASE Finish(Set(ins.rd, 1)) /\ UNCHANGED <<mem, reservation, link>>
  <2>1. Restored' = [x EXCEPT ![ins.rd] = IF ins.rd = 0 THEN 0 ELSE 1]
    BY <1>1, <1>2, <1>3, <1>6, ZeroIsWord, RestoredSet DEF Finish
  <2>2. ScDone'
    BY <1>1, <1>3, <1>6, <2>1 DEF ScDone, Written, Unchanged
  <2>3. Reserved'
    BY <1>1, <1>6 DEF Reserved
  <2> QED
    BY <1>1, <1>3, <1>6, <2>2, <2>3, ProgressAtEnd DEF Finish
<1> QED
  BY <1>2, <1>4, <1>5, <1>6 DEF EmulateSC, ReservationAfterStore

LEMMA ProgressAtomicLoad == Supported /\ TypeInv /\ Progress /\ AtomicLoad => Progress'
<1> SUFFICES ASSUME Supported, TypeInv, Progress, AtomicLoad PROVE Progress'
  OBVIOUS
<1>1. InHandler /\ Unchanged /\ Agrees /\ x[0] = 0 /\ Reserved
  BY DEF AtomicLoad, InHandler, TypeInv, AtAccess, Progress
<1>2. Reg(ins.rs1) = Address
  BY <1>1, FrameHolds
<1>3. UNCHANGED <<x, perm, mem, reservation, ins, link, was>> /\ Address' = Address
  BY DEF AtomicLoad, program, Address
<1>4. CASE Redirect(ctx.reg)
  BY <1>1, <1>3, <1>4, ProgressIfRedirected DEF Unchanged
<1>5. ASSUME Aligned(Address, WordBytes), data' = Get(mem, Address, WordBytes),
             Proceed("amo store")
      PROVE  Progress'
  BY <1>1, <1>3, <1>5 DEF Proceed, Progress, Agrees, Unchanged, Reserved
<1> QED
  BY <1>2, <1>4, <1>5 DEF AtomicLoad

LEMMA ProgressAtomicStore == Supported /\ TypeInv /\ Progress /\ AtomicStore => Progress'
<1> SUFFICES ASSUME Supported, TypeInv, Progress, AtomicStore PROVE Progress'
  OBVIOUS
<1>1. /\ InHandler /\ ins.op = "amo" /\ Unchanged /\ Agrees /\ x[0] = 0 /\ Reserved
      /\ data = Get(mem, Address, WordBytes) /\ Aligned(Address, WordBytes)
  BY DEF AtomicStore, InHandler, TypeInv, AtAccess, Progress
<1>2. /\ Reg(ins.rs1) = Address /\ Reg(ins.rs2) = x[ins.rs2] /\ ins.rd \in Regs \ {SP}
  BY <1>1, FrameHolds, Instructions DEF Supported
<1>3. UNCHANGED <<x, perm, reservation, ins, link, was>> /\ Address' = Address
  BY DEF AtomicStore, program, Address
<1>4. CASE Redirect(ctx.reg) /\ UNCHANGED mem
  BY <1>1, <1>3, <1>4, ProgressIfRedirected DEF Unchanged
<1>5. ASSUME Writable(Address),
             mem' = Put(mem, Address, WordBytes, AmoResult(ins.fn, x[ins.rs2], data)),
             Finish(Set(ins.rd, data))
      PROVE  Progress'
  <2>1. data \in Word
    BY DEF TypeInv, Types
  <2>2. Restored' = [x EXCEPT ![ins.rd] = IF ins.rd = 0 THEN 0 ELSE data]
    BY <1>1, <1>2, <1>3, <1>5, <2>1, RestoredSet DEF Finish
  <2>3. AmoDone'
    BY <1>1, <1>3, <1>5, <2>2 DEF AmoDone, Written, Writable, Mapped, Unchanged
  <2>4. Reserved'
    BY <1>1, <1>3 DEF Reserved
  <2> QED
    BY <1>1, <1>3, <1>5, <2>3, <2>4, ProgressAtEnd DEF Finish
<1> QED
  BY <1>2, <1>4, <1>5 DEF AtomicStore, RegsIfStoreFaults

LEMMA ProgressFetch == Supported /\ TypeInv /\ Progress /\ Fetch => Progress'
<1> SUFFICES ASSUME Supported, TypeInv, Progress, Fetch PROVE Progress'
  OBVIOUS
<1>1. InHandler /\ Unchanged /\ Agrees /\ x[0] = 0 /\ Reserved /\ i = 0
  BY DEF Fetch, InHandler, TypeInv, AtAccess, Progress
<1>2. UNCHANGED <<x, perm, mem, reservation, ins, link, was, i>> /\ Address' = Address
  BY DEF Fetch, program, Address
<1>3. CASE Redirect(ctx.reg)
  BY <1>1, <1>2, <1>3, ProgressIfRedirected DEF Unchanged
<1>4. ASSUME NEW next \in {"load", "store"}, Proceed(next) PROVE Progress'
  <2>1. mem = Put(was.mem, Address, 0, x[ins.rs2])
    BY <1>1, FrameHolds, PutNone DEF TypeInv, Types, Unchanged
  <2>2. \A k \in 0 .. i' - 1 : FALSE
    BY <1>1, <1>2
  <2> QED
    BY <1>1, <1>2, <1>4, <2>1, <2>2 DEF Proceed, Progress, Agrees, Unchanged, Reserved
<1> QED
  BY <1>3, <1>4 DEF Fetch

LEMMA ProgressLoadByte == Supported /\ TypeInv /\ Progress /\ LoadByte => Progress'
<1> SUFFICES ASSUME Supported, TypeInv, Progress, LoadByte PROVE Progress'
  OBVIOUS
<1>1. /\ InHandler /\ Unchanged /\ Agrees /\ x[0] = 0 /\ Reserved /\ i \in Nat
      /\ \A k \in 0 .. i - 1 : Readable(Wrap(Address + k))
  BY DEF LoadByte, InHandler, TypeInv, Types, AtAccess, Progress
<1>2. UNCHANGED <<x, perm, mem, reservation, ins, link, was>> /\ Address' = Address
  BY DEF LoadByte, program, Address
<1>3. CASE Redirect(ctx.reg)
  BY <1>1, <1>2, <1>3, ProgressIfRedirected DEF Unchanged
<1>4. ASSUME Readable(Wrap(Address + i)), i' = i + 1, Proceed("load") PROVE Progress'
  <2>1. \A k \in 0 .. i' - 1 : k \in 0 .. i - 1 \/ k = i
    BY <1>1, <1>4
  <2>2. \A k \in 0 .. i' - 1 : Readable(Wrap(Address + k))
    BY <1>1, <1>4, <2>1
  <2>3. (\A k \in 0 .. i - 1 : Readable(Wrap(Address + k)))'
    BY <1>2, <2>2 DEF Readable, Mapped
  <2> QED
    BY <1>1, <1>2, <1>4, <2>3 DEF Proceed, Progress, Agrees, Unchanged, Reserved
<1> QED
  BY <1>3, <1>4 DEF LoadByte

LEMMA ProgressLoadEnds == Supported /\ TypeInv /\ Progress /\ LoadEnds => Progress'
<1> SUFFICES ASSUME Supported, TypeInv, Progress, LoadEnds PROVE Progress'
  OBVIOUS
<1>1. /\ InHandler /\ ins.op \in Loads /\ Unchanged /\ Agrees /\ x[0] = 0 /\ Reserved
      /\ i = Len(ins.op) /\ data = Get(mem, Address, i)
      /\ \A k \in 0 .. i - 1 : Readable(Wrap(Address + k))
  BY Lengths, Numbers
     DEF LoadEnds, InHandler, TypeInv, Types, AtAccess, Progress, MoreBytes
<1>2. UNCHANGED <<x, perm, mem, reservation, ins, link, was>> /\ Address' = Address
  BY DEF LoadEnds, program, Address
<1>3. ins \in Instrs /\ ins.rd \in Regs \ {SP} /\ Address \in Word
  BY <1>1, FrameHolds, Instructions DEF Supported
<1>4. Loaded \in Word
  <2>1. mem \in Memories /\ data \in Word
    BY DEF TypeInv, Types
  <2>2. ins.op = "lh" => data = Get(mem, Address, HalfBytes)
    BY <1>1 DEF Len
  <2> QED
    BY <1>3, <2>1, <2>2, WordRead DEF Loaded
<1>5. Restored' = [x EXCEPT ![ins.rd] = IF ins.rd = 0 THEN 0 ELSE Loaded]
  <2>1. CASE ins.rd = 0
    BY <1>1, <1>2, <1>3, <1>4, <2>1, RestoredSet DEF LoadEnds, Finish
  <2>2. CASE ins.rd # 0
    BY <1>1, <1>2, <1>3, <1>4, <2>2, RestoredSet DEF LoadEnds, Finish
  <2> QED
    BY <2>1, <2>2
<1>6. LoadDone'
  <2>1. Get(was.mem, Address, Len(ins.op)) = data
    BY <1>1 DEF Unchanged
  <2>2. (\A k \in 0 .. Len(ins.op) - 1 : Readable(Wrap(Address + k)))'
    BY <1>1, <1>2 DEF Readable, Mapped
  <2> QED
    BY <1>1, <1>2, <1>5, <2>1, <2>2 DEF LoadDone, Written, Loaded, Unchanged
<1>7. Reserved' /\ at' = "restore" /\ ctx'.to = "next"
  BY <1>1, <1>2 DEF Reserved, LoadEnds, Finish
<1> QED
  BY <1>1, <1>2, <1>6, <1>7, ProgressAtEnd

LEMMA ProgressStoreByte == Supported /\ TypeInv /\ Progress /\ StoreByte => Progress'
<1> SUFFICES ASSUME Supported, TypeInv, Progress, StoreByte PROVE Progress'
  OBVIOUS
<1>1. /\ InHandler /\ ins.op \in Stores /\ Agrees /\ x[0] = 0 /\ Reserved
      /\ i \in Nat /\ i < Len(ins.op)
      /\ \A k \in 0 .. i - 1 : Writable(Wrap(Address + k))
      /\ mem = Put(was.mem, Address, i, x[ins.rs2]) /\ link = was.link
  BY DEF StoreByte, InHandler, TypeInv, Types, AtAccess, Progress, MoreBytes
<1>2. UNCHANGED <<x, perm, reservation, ins, link, was>> /\ Address' = Address
  BY DEF StoreByte, program, Address
<1>3. Address \in Word /\ Reg(ins.rs2) = x[ins.rs2] /\ was.mem \in Memories
  BY <1>1, FrameHolds DEF TypeInv, Types, Pasts
<1>4. Len(ins.op) \in 1 .. WordBytes
  BY Lengths
<1>5. CASE Redirect(ctx.reg) /\ UNCHANGED mem
  <2>1. i = 0 => mem = was.mem
    BY <1>1, <1>3, PutNone
  <2>2. i # 0 => i \in 1 .. Len(ins.op) - 1
    BY <1>1, <1>4
  <2> QED
    BY <1>1, <1>2, <1>5, <2>1, <2>2, ProgressIfRedirected
<1>6. ASSUME Writable(Wrap(Address + i)), i' = i + 1, Proceed("store"),
             mem' = [mem EXCEPT ![Wrap(Address + i)] = ByteOf(x[ins.rs2], i)]
      PROVE  Progress'
  <2>1. i \in 0 .. WordBytes - 1
    BY <1>1, <1>4, Numbers
  <2>2. mem' = Put(was.mem, Address, i + 1, x[ins.rs2])
    <3>1. \A w : [Put(was.mem, Address, i, w) EXCEPT ![Wrap(Address + i)] = ByteOf(w, i)]
                = Put(was.mem, Address, i + 1, w)
      BY <1>3, <2>1, PutNext
    <3> QED
      BY <1>1, <1>6, <3>1
  <2>3. \A k \in 0 .. i' - 1 : k \in 0 .. i - 1 \/ k = i
    BY <1>1, <1>6
  <2>4. \A k \in 0 .. i' - 1 : Writable(Wrap(Address + k))
    BY <1>1, <1>6, <2>3
  <2>5. (\A k \in 0 .. i - 1 : Writable(Wrap(Address + k)))'
    BY <1>2, <2>4 DEF Writable, Mapped
  <2> QED
    BY <1>1, <1>2, <1>6, <2>2, <2>5 DEF Proceed, Progress, Agrees, Unchanged, Reserved
<1> QED
  BY <1>3, <1>5, <1>6 DEF StoreByte

LEMMA ProgressStoreEnds == Supported /\ TypeInv /\ Progress /\ StoreEnds => Progress'
<1> SUFFICES ASSUME Supported, TypeInv, Progress, StoreEnds PROVE Progress'
  OBVIOUS
<1>1. /\ InHandler /\ ins.op \in Stores /\ Agrees /\ x[0] = 0 /\ Reserved
      /\ i = Len(ins.op)
      /\ \A k \in 0 .. i - 1 : Writable(Wrap(Address + k))
      /\ mem = Put(was.mem, Address, i, x[ins.rs2]) /\ link = was.link
  BY Lengths, Numbers
     DEF StoreEnds, InHandler, TypeInv, Types, AtAccess, Progress, MoreBytes
<1>2. UNCHANGED <<x, perm, mem, reservation, ins, link, was>> /\ Address' = Address
  BY DEF StoreEnds, program, Address
<1>3. ins.rd \in Regs \ {SP}
  BY <1>1, FrameHolds, Instructions DEF Supported
<1>4. Restored' = x
  BY <1>1, <1>2, <1>3, ZeroIsWord, RestoredSet DEF StoreEnds, Finish
<1>5. (\A k \in 0 .. Len(ins.op) - 1 : Writable(Wrap(Address + k)))'
  BY <1>1, <1>2 DEF Writable, Mapped
<1>6. StoreDone'
  BY <1>1, <1>2, <1>4, <1>5 DEF StoreDone
<1>7. Reserved' /\ at' = "restore" /\ ctx'.to = "next"
  BY <1>1, <1>2 DEF Reserved, StoreEnds, Finish
<1> QED
  BY <1>1, <1>2, <1>6, <1>7, ProgressAtEnd

LEMMA ProgressRestore == Supported /\ TypeInv /\ Progress /\ Restore => Progress'
<1> SUFFICES ASSUME Supported, TypeInv, Progress, Restore PROVE Progress'
  OBVIOUS
<1>1. x'[0] = 0
  BY EmulationAssumption DEF Restore, Progress
<1>2. Unchanged' /\ Reserved'
  BY DEF Restore, Unchanged, Progress, Reserved
<1>3. at' = "program"
  BY DEF Restore
<1> QED
  BY <1>1, <1>2, <1>3 DEF Progress

LEMMA ProgressProgram == TypeInv /\ Progress /\ (Compute \/ Supervisor) => Progress'
<1> SUFFICES ASSUME TypeInv, Progress, Compute \/ Supervisor PROVE Progress'
  OBVIOUS
<1>1. x'[0] = 0
  BY EmulationAssumption DEF Compute, Supervisor, Progress, TypeInv, Types
<1>2. Unchanged' /\ Reserved' /\ at' = "program"
  BY DEF Compute, Supervisor, Unchanged, Progress, Reserved
<1> QED
  BY <1>1, <1>2 DEF Progress

LEMMA ProgressTrap ==
  ASSUME TypeInv, Progress, NEW n \in Instrs, Trap(n)
  PROVE  Progress'
<1>1. at' \in {"lr", "sc", "amo", "fetch"}
  BY Instructions DEF Trap, FirstAccess, Loads, Stores
<1>2. Agrees'
  BY DEF Trap, Agrees, program, TypeInv, Types
<1>3. Unchanged' /\ Reserved' /\ x'[0] = 0
  BY DEF Trap, Unchanged, Progress, Reserved, program
<1> QED
  BY <1>1, <1>2, <1>3 DEF Progress

LEMMA StepProgress == Supported /\ TypeInv /\ Progress /\ [Next]_vars => Progress'
<1> SUFFICES ASSUME Supported, TypeInv, Progress, [Next]_vars PROVE Progress'
  OBVIOUS
<1>1. CASE UNCHANGED vars
  BY <1>1 DEF vars, Progress, Reserved, Unchanged, Agrees, Restored, Written, Address,
     Readable, Writable, Mapped, LrDone, ScDone, AmoDone, LoadDone, StoreDone, Redirected
<1>2. CASE Handler
  BY <1>2, ProgressLR, ProgressSC, ProgressAtomicLoad, ProgressAtomicStore, ProgressFetch,
     ProgressLoadByte, ProgressLoadEnds, ProgressStoreByte, ProgressStoreEnds, ProgressRestore
     DEF Handler
<1>3. CASE Compute \/ Supervisor
  BY <1>3, ProgressProgram
<1>4. CASE \E n \in Instrs : Trap(n)
  BY <1>4, ProgressTrap
<1> QED
  BY <1>1, <1>2, <1>3, <1>4 DEF Next

-----------------------------------------------------------------------------
(* Every step is a step of Isa, or none.                                   *)
LEMMA SameMemory ==
  /\ \A m, a, k : Architecture!Get(m, a, k) = Get(m, a, k)
  /\ \A m, a, k, w : Architecture!Put(m, a, k, w) = Put(m, a, k, w)
<1>1. \A w, k : Architecture!ByteOf(w, k) = ByteOf(w, k)
  BY SameSizes DEF Architecture!ByteOf, ByteOf
<1>2. ASSUME NEW m, NEW a, NEW k PROVE Architecture!Get(m, a, k) = Get(m, a, k)
  BY SameSizes, SameWords DEF Architecture!Get, Get
<1>3. ASSUME NEW m, NEW a, NEW k, NEW w
      PROVE  Architecture!Put(m, a, k, w) = Put(m, a, k, w)
  BY <1>1, SameWords DEF Architecture!Put, Put
<1> QED
  BY <1>2, <1>3

LEMMA SameAccesses ==
  /\ \A a : Architecture!CanRead(a) <=> Readable(a)
  /\ \A a : Architecture!CanWrite(a) <=> Writable(a)
  /\ \A a, k : Architecture!Aligned(a, k) <=> Aligned(a, k)
  /\ \A op : Architecture!Len(op) = Len(op)
  /\ Architecture!Loads = Loads /\ Architecture!Stores = Stores
BY SameSizes DEF Architecture!CanRead, Architecture!CanWrite, Architecture!WordAt, Architecture!Aligned,
   Architecture!Len, Architecture!Loads, Architecture!Stores, Readable, Writable, Mapped, Aligned,
   Len, Loads, Stores

LEMMA ComputeIsIsa == TypeInv /\ Compute => Architecture!Next
<1> SUFFICES ASSUME TypeInv, Compute PROVE Architecture!Next
  OBVIOUS
<1>1. PICK r \in Regs \ {0, SP}, v \in Values : x' = [x EXCEPT ![r] = v]
  BY DEF Compute
<1>2. r \in Regs /\ v \in Architecture!Word /\ Architecture!Write(r, v)
  BY <1>1, SameWords, EmulationAssumption DEF Architecture!Write
<1>3. pc # Architecture!Stvec /\ UNCHANGED <<pc, sepc, was, perm>>
  BY DEF Compute, Stvec, Architecture!Stvec
<1> QED
  BY <1>2, <1>3 DEF Architecture!Next, Architecture!Others

LEMMA SupervisorIsIsa == Supervisor => Architecture!Next
BY DEF Supervisor, Stvec, Architecture!Stvec, Architecture!Next, Architecture!Others

(* The end of an instruction.                                              *)
Returns ==
  /\ ins \in Instrs /\ pc \in 0 .. Places - 1
  /\ x' = Restored /\ perm' = perm
  /\ was'.mem = mem /\ was'.link = link /\ was'.ins = ins

LEMMA LoadReservedIsIsa ==
  Returns /\ Architecture!Retire /\ LrDone => Architecture!LoadReserved(ins)
BY SameMemory, SameAccesses
   DEF Returns, LrDone, Written, Address, Architecture!LoadReserved, Architecture!Write

LEMMA StoreConditionalIsIsa ==
  Returns /\ Architecture!Retire /\ ScDone => Architecture!StoreConditional(ins)
BY SameMemory, SameAccesses
   DEF Returns, ScDone, Written, Address, Unchanged, Architecture!StoreConditional, Architecture!Write

LEMMA AtomicIsIsa ==
  TypeInv /\ Returns /\ Architecture!Retire /\ AmoDone => Architecture!Atomic(ins)
<1> SUFFICES ASSUME TypeInv, Returns, Architecture!Retire, AmoDone
             PROVE  Architecture!Atomic(ins)
  OBVIOUS
<1> DEFINE old == Get(was.mem, Address, WordBytes)
<1>1. ins \in Instrs /\ ins.op = "amo" /\ ins.fn \in Functions
  BY Instructions DEF Returns, AmoDone
<1>2. old \in Word /\ x[ins.rs2] \in Word
  <2>1. Address \in Word /\ was.mem \in Memories /\ x[ins.rs2] \in Word
    BY <1>1, Instructions DEF TypeInv, Types, Pasts, Address
  <2>2. WordBytes \in 0 .. WordBytes
    BY Numbers
  <2> QED
    BY <2>1, <2>2, WordRead
<1>3. AmoResult(ins.fn, x[ins.rs2], old) = Architecture!Amo(ins.fn, x[ins.rs2], old)
  BY <1>1, <1>2, AmoIsIsa
<1>4. /\ Aligned(Address, WordBytes) /\ Writable(Address)
      /\ mem = Put(was.mem, Address, WordBytes, AmoResult(ins.fn, x[ins.rs2], old))
      /\ Restored = Written(ins.rd, old) /\ link = was.link
  BY DEF AmoDone
<1>5. old = Architecture!Get(was.mem, x[ins.rs1], WordBytes)
  BY SameMemory DEF Address
<1> HIDE DEF old
<1> QED
  BY <1>1, <1>3, <1>4, <1>5, SameMemory, SameAccesses
     DEF Returns, Written, Address, Architecture!Atomic, Architecture!Write

LEMMA LoadIsIsa ==
  Returns /\ Architecture!Retire /\ LoadDone => Architecture!Load(ins)
BY SameMemory, SameAccesses, SameWords
   DEF Returns, LoadDone, Written, Address, Unchanged, Architecture!Load, Architecture!Write

LEMMA StoreIsIsa ==
  Returns /\ Architecture!Retire /\ StoreDone => Architecture!Store(ins)
BY SameMemory, SameAccesses, SameWords
   DEF Returns, StoreDone, Address, Architecture!Store

LEMMA CallIsIsa ==
  Returns /\ pc' = Stvec /\ sepc' = pc /\ Redirected => Architecture!CallSupervisor(ins)
BY SameMemory, SameAccesses
   DEF Returns, Redirected, Address, Stvec, Architecture!Stvec, Architecture!CallSupervisor

LEMMA RestoreIsIsa == TypeInv /\ Progress /\ Restore => Architecture!Next
<1> SUFFICES ASSUME TypeInv, Progress, Restore PROVE Architecture!Next
  OBVIOUS
<1>1. Returns
  BY DEF Restore, Returns, Restored, TypeInv, AtAccess
<1>2. pc # Architecture!Stvec
  BY <1>1 DEF Returns, Architecture!Stvec
<1>3. CASE ctx.to = "next" /\ (LrDone \/ ScDone \/ AmoDone \/ LoadDone \/ StoreDone)
  <2>1. Architecture!Retire
    BY <1>1, <1>3 DEF Restore, Returns, Architecture!Retire
  <2> QED
    BY <1>1, <1>2, <1>3, <2>1, LoadReservedIsIsa, StoreConditionalIsIsa, AtomicIsIsa, LoadIsIsa,
       StoreIsIsa DEF Returns, Architecture!Next
<1>4. CASE ctx.to = "stvec" /\ Redirected
  <2>1. pc' = Stvec /\ sepc' = pc
    BY <1>4 DEF Restore
  <2> QED
    BY <1>1, <1>2, <1>4, <2>1, CallIsIsa DEF Returns, Architecture!Next
<1> QED
  BY <1>3, <1>4 DEF Restore, Progress

(* Before its end a handler does nothing that the program sees.            *)
LEMMA HandlerIsUnseen ==
  ASSUME Handler \/ (\E n \in Instrs : Trap(n)) \/ UNCHANGED vars, ~Restore
  PROVE  UNCHANGED Architecture!isaVars
BY DEF Handler, EmulateLR, EmulateSC, AtomicLoad, AtomicStore, Fetch, LoadByte, LoadEnds,
   StoreByte, StoreEnds, Trap, vars, program, Architecture!isaVars

LEMMA StepIsIsa ==
  TypeInv /\ Progress /\ [Next]_vars => [Architecture!Next]_(Architecture!isaVars)
<1> SUFFICES ASSUME TypeInv, Progress, [Next]_vars
             PROVE  Architecture!Next \/ UNCHANGED Architecture!isaVars
  OBVIOUS
<1>1. CASE Restore
  BY <1>1, RestoreIsIsa
<1>2. CASE Compute \/ Supervisor
  BY <1>2, ComputeIsIsa, SupervisorIsIsa
<1>3. CASE (Handler \/ (\E n \in Instrs : Trap(n)) \/ UNCHANGED vars) /\ ~Restore
  BY <1>3, HandlerIsUnseen
<1> QED
  BY <1>1, <1>2, <1>3 DEF Next, Handler

LEMMA ProgressInvariant ==
  ASSUME Supported
  PROVE  Spec => [](TypeInv /\ Progress)
<1>1. Init => TypeInv /\ Progress
  BY InitTypes, InitProgress
<1>2. (TypeInv /\ Progress) /\ [Next]_vars => (TypeInv /\ Progress)'
  BY StepTypes, StepProgress
<1> QED
  BY <1>1, <1>2, PTL DEF Spec

(* For a supported program each emulated instruction is one step, carried  *)
(* out whole or not at all (but for the first bytes of a store), and an SC *)
(* that succeeds belongs to an LR.                                         *)
THEOREM ImplementsIsa == Supported => (Spec => EmulatesIsa)
<1> SUFFICES ASSUME Supported PROVE Spec => EmulatesIsa
  OBVIOUS
<1>1. Spec => [](TypeInv /\ Progress)
  BY ProgressInvariant
<1>2. TypeInv /\ Progress /\ [Next]_vars => [Architecture!Next]_(Architecture!isaVars)
  BY StepIsIsa
<1> QED
  BY <1>1, <1>2, PTL DEF Spec, EmulatesIsa, Architecture!Spec
=============================================================================
