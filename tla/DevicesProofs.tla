--------------------------- MODULE DevicesProofs ---------------------------
(***************************************************************************)
(* The devices that are driven through registers.  First the byte exchange *)
(* of spi.c, for FIFOs of any depth and any contents of the controller at  *)
(* the reset of the board.  Then the three of module Devices: the display, *)
(* the cache and the serial port each have an inductive invariant, and a   *)
(* step of one leaves the state of the others as it is.                    *)
(***************************************************************************)
EXTENDS Spi, Devices, Induction, SequenceTheorems, TLAPS

(* Where the byte of the running transfer is.                              *)
OnItsWay ==
  \/ Len(tx) = 1 /\ ~shift /\ rx = <<>>
  \/ tx = <<>> /\ shift /\ rx = <<>>
  \/ tx = <<>> /\ ~shift /\ rx = <<answer>>

IInv ==
  /\ TypeOK
  /\ pc \in {"idle", "tx_empty", "rx_empty", "write"} => Quiet
  /\ pc = "wait" => OnItsWay
  /\ pc = "read" => tx = <<>> /\ ~shift /\ rx = <<answer>>

LEMMA ByteExists == AnyByte \in Bytes
BY SpiAssumption DEF AnyByte

LEMMA UpToType ==
  ASSUME NEW s \in UpTo(Depth)
  PROVE  s \in Seq(Bytes) /\ Len(s) <= Depth
<1>1. PICK k \in 0 .. Depth : s \in [1 .. k -> Bytes]
  BY DEF UpTo
<1>2. k \in Nat /\ k <= Depth
  BY <1>1, SpiAssumption
<1> QED
  BY <1>1, <1>2

LEMMA InitIInv == Init => IInv
<1> SUFFICES ASSUME Init PROVE IInv
  OBVIOUS
<1>1. tx \in Seq(Bytes) /\ Len(tx) <= Depth /\ rx \in Seq(Bytes) /\ Len(rx) <= Depth
  BY UpToType DEF Init
<1>2. tx_data \in Bytes /\ rx_data \in Bytes /\ answer \in Bytes
  BY ByteExists DEF Init
<1>3. pc = "off" /\ shift \in BOOLEAN /\ selected \in BOOLEAN
  BY DEF Init
<1>4. TypeOK
  BY <1>1, <1>2, <1>3, Zenon DEF TypeOK
<1> QED
  BY <1>3, <1>4 DEF IInv

LEMMA StepIInv == IInv /\ [Next]_vars => IInv'
<1> SUFFICES ASSUME IInv, [Next]_vars PROVE IInv'
  OBVIOUS
<1>t. TypeOK /\ Depth \in Nat /\ Depth >= 1
  BY SpiAssumption DEF IInv
<1>1. CASE StartShift
  <2>1. /\ tx' \in Seq(Bytes) /\ Len(tx') = Len(tx) - 1 /\ Len(tx) >= 1
    BY <1>1, <1>t DEF StartShift, TypeOK
  <2>2. TypeOK'
    BY <1>1, <1>t, <2>1 DEF StartShift, TypeOK
  <2>3. Len(tx) = 1 => tx' = <<>>
    BY <1>t, <2>1 DEF TypeOK
  <2> QED
    BY <1>1, <2>2, <2>3 DEF StartShift, IInv, Quiet, OnItsWay
<1>2. CASE EndShift
  <2>1. PICK b \in Bytes : /\ answer' = b
                           /\ rx' = IF Len(rx) < Depth THEN Append(rx, b) ELSE rx
    BY <1>2 DEF EndShift
  <2>2. rx' \in Seq(Bytes) /\ Len(rx') <= Depth
    BY <1>t, <2>1 DEF TypeOK
  <2>a. /\ shift' \in BOOLEAN /\ answer' \in Bytes
        /\ tx' = tx /\ pc' = pc /\ selected' = selected
        /\ tx_data' = tx_data /\ rx_data' = rx_data
    BY <1>2, <2>1 DEF EndShift
  <2>3. TypeOK'
    BY <1>t, <2>a, <2>2 DEF TypeOK
  <2>4. rx = <<>> => rx' = <<answer'>>
    BY <1>t, <2>1
  <2> QED
    BY <1>2, <2>3, <2>4 DEF EndShift, IInv, Quiet, OnItsWay
<1>3. CASE SpiInit
  <2>a. <<>> \in Seq(Bytes) /\ Len(<<>>) = 0
    OBVIOUS
  <2>b. /\ tx' \in Seq(Bytes) /\ Len(tx') <= Depth
        /\ rx' \in Seq(Bytes) /\ Len(rx') <= Depth
    BY <1>3, <1>t, <2>a DEF SpiInit
  <2>c. /\ shift' \in BOOLEAN /\ selected' \in BOOLEAN /\ pc' = "idle"
        /\ tx_data' \in Bytes /\ rx_data' \in Bytes /\ answer' \in Bytes
    BY <1>3, <1>t DEF SpiInit, TypeOK
  <2>1. TypeOK'
    BY <2>b, <2>c DEF TypeOK
  <2> QED
    BY <1>3, <2>1 DEF SpiInit, IInv, Quiet
<1>4. ASSUME NEW on \in BOOLEAN, Select(on) PROVE IInv'
  BY <1>4, <1>t DEF Select, IInv, TypeOK, Quiet
<1>5. ASSUME NEW b \in Bytes, Transfer(b) PROVE IInv'
  BY <1>5, <1>t DEF Transfer, IInv, TypeOK, Quiet
<1>6. CASE WaitTxEmpty \/ WaitRxEmpty
  BY <1>6, <1>t DEF WaitTxEmpty, WaitRxEmpty, IInv, TypeOK, Quiet
<1>7. CASE WriteTx
  <2>1. tx = <<>> /\ rx = <<>> /\ ~shift /\ tx_data \in Bytes
    BY <1>7, <1>t DEF WriteTx, IInv, Quiet, TypeOK
  <2>2. tx' = <<tx_data>>
    BY <1>7, <1>t, <2>1 DEF WriteTx
  <2>3. tx' \in Seq(Bytes) /\ Len(tx') = 1
    BY <2>1, <2>2
  <2>4. TypeOK'
    BY <1>7, <1>t, <2>3 DEF WriteTx, TypeOK
  <2> QED
    BY <1>7, <2>1, <2>3, <2>4 DEF WriteTx, IInv, OnItsWay
<1>8. CASE WaitRx
  BY <1>8, <1>t DEF WaitRx, IInv, TypeOK, OnItsWay
<1>9. CASE ReadRx
  <2>1. tx = <<>> /\ ~shift /\ rx = <<answer>> /\ answer \in Bytes
    BY <1>9, <1>t DEF ReadRx, IInv, TypeOK
  <2>2. rx # <<>> /\ Head(rx) = answer /\ Tail(rx) = <<>>
    BY <2>1
  <2>3. rx_data' = answer /\ rx' = <<>>
    BY <1>9, <2>2 DEF ReadRx
  <2>4. TypeOK'
    BY <1>9, <1>t, <2>1, <2>3 DEF ReadRx, TypeOK
  <2> QED
    BY <1>9, <2>1, <2>3, <2>4 DEF ReadRx, IInv, Quiet
<1>10. CASE Restart
  BY <1>10, <1>t DEF Restart, IInv, TypeOK
<1>11. CASE UNCHANGED vars
  BY <1>11, <1>t DEF vars, IInv, TypeOK, Quiet, OnItsWay
<1> QED
  BY <1>1, <1>2, <1>3, <1>4, <1>5, <1>6, <1>7, <1>8, <1>9, <1>10, <1>11
     DEF Next, Controller, Driver

-----------------------------------------------------------------------------
(* The inductive invariant holds in every reachable state.                 *)
THEOREM Invariance == Spec => []IInv
BY InitIInv, StepIInv, PTL DEF Spec

(* Type correctness, for FIFOs of any depth.                               *)
THEOREM TypeCorrect == Spec => []TypeOK
<1>1. IInv => TypeOK
  BY DEF IInv
<1> QED
  BY <1>1, Invariance, PTL

(* No byte is in flight between two calls of spi_transfer.                 *)
THEOREM Quietness == Spec => []QuietBetweenCalls
<1>1. IInv => QuietBetweenCalls
  BY DEF IInv, QuietBetweenCalls
<1> QED
  BY <1>1, Invariance, PTL

(* Every call returns the byte that the slave sent during it.              *)
THEOREM Exchange == Spec => AnswerOfThisByte
<1>1. IInv /\ [Next]_vars => [pc = "read" /\ pc' = "idle" => rx_data' = answer]_vars
  <2> SUFFICES ASSUME IInv, Next, pc = "read", pc' = "idle"
               PROVE  rx_data' = answer
    OBVIOUS
  <2>1. ReadRx
    BY DEF Next, Controller, StartShift, EndShift, SpiInit, Select, Transfer, Driver,
           WaitTxEmpty, WaitRxEmpty, WriteTx, WaitRx, Restart
  <2>2. rx = <<answer>> /\ answer \in Bytes
    BY DEF IInv, TypeOK
  <2>3. rx # <<>> /\ Head(rx) = answer
    BY <2>2
  <2> QED
    BY <2>1, <2>3 DEF ReadRx
<1> QED
  BY <1>1, Invariance, PTL DEF Spec, AnswerOfThisByte

-----------------------------------------------------------------------------
(* The display.  The second wait is entered in the picture, or so soon     *)
(* after it that the blank lasts for two more steps.                       *)
VdpInv ==
  /\ V!TypeOK
  /\ vdpPc \in {"place", "load", "regs", "first", "second", "move"} => "moved" \notin shown
  /\ vdpPc = "second" => line < Visible + Step
  /\ vdpPc = "move" => line >= Visible
  /\ vdpPc = "done" => shown \subseteq {"moved"} \/ (line >= Visible /\ "moved" \notin shown)

-----------------------------------------------------------------------------
(* The cache.  The blocks of the range that the loop has passed are not    *)
(* dirty any more, and none becomes dirty before the call returns.         *)
Passed == {b \in C!RangeBlocks(start, length) : b * Block < p}

CacheInv ==
  /\ C!TypeOK
  /\ start + length <= C!Top
  /\ cachePc = "before" => start = FbBase /\ length = FbSize
  /\ cachePc = "loop" =>
       /\ Passed \cap dirty = {}
       /\ ~C!RoundsPastTop => \A b \in C!RangeBlocks(start, length) : b * Block < last
  /\ cachePc = "after" /\ ~C!RoundsPastTop => C!RangeBlocks(start, length) \cap dirty = {}
  /\ C!RangeInMemory

-----------------------------------------------------------------------------
(* The serial port.  What the UART holds is what is owed; what is printed  *)
(* and what is left of it is the whole line.                               *)
Printed(n) == Label \o S!HexDigits(n) \o <<S!NewLine>>

SerialInv ==
  /\ S!TypeOK
  /\ uartRx \in Seq(S!Digits)
  /\ serialPc = "read" => uartRx # <<>>
  /\ serialPc = "write" => Len(uartTx) < UartDepth
  /\ serialPc \in {"off", "reset"} => owed = <<>> /\ said = <<>>
  /\ serialPc \in {"full", "write"} => num \in Nums /\ said \o rest = Printed(num)
  /\ serialPc \in {"idle", "read"} /\ said # <<>> => num \in Nums /\ said = Printed(num)
  /\ S!NothingLost

LEMMA FrameNumbers ==
  /\ Visible \in Nat /\ Blank \in Nat /\ Step \in Nat \ {0}
  /\ 2 * Step <= Blank /\ Step <= Visible
  /\ V!Frame \in Nat \ {0} /\ V!Frame = Visible + Blank
BY DevicesAssumption DEF V!VdpAssumption, V!Frame

(* A line of the next few: in this frame or in the next.                   *)
LEMMA LineAfter ==
  ASSUME NEW n \in 0 .. V!Frame - 1, NEW d \in 0 .. Step
  PROVE  /\ n + d < V!Frame => (n + d) % V!Frame = n + d
         /\ n + d >= V!Frame => (n + d) % V!Frame = n + d - V!Frame
<1> DEFINE F == V!Frame
           a == n + d
<1>1. F \in Nat \ {0} /\ a \in Nat /\ a < 2 * F
  BY FrameNumbers
<1> HIDE DEF F, a
<1>2. ASSUME a < F PROVE a % F = a
  <2>1. a \in 0 .. F - 1 /\ a = F * 0 + a
    BY <1>1, <1>2
  <2> QED
    BY <1>1, <2>1, DivModUnique
<1>3. ASSUME a >= F PROVE a % F = a - F
  <2> DEFINE r == a - F
  <2>1. r \in 0 .. F - 1 /\ a = F * 1 + r
    BY <1>1, <1>3
  <2> HIDE DEF r
  <2>2. a % F = r
    BY <1>1, <2>1, DivModUnique
  <2> QED
    BY <2>2 DEF r
<1> QED
  BY <1>1, <1>2, <1>3 DEF F, a

(* What a step of the beam may do.                                         *)
LEMMA BeamEffect ==
  ASSUME V!TypeOK, V!BeamMoves
  PROVE  /\ line' \in 0 .. V!Frame - 1
         /\ line < Visible => line' < Visible + Step
         /\ line + Step < V!Frame => line < line'
         /\ \/ /\ line < line' /\ shown' \subseteq shown \cup {sprite'}
               /\ line >= Visible => shown' = shown
            \/ shown' \subseteq {sprite'}
<1>1. line \in 0 .. V!Frame - 1
  BY DEF V!TypeOK
<1>2. PICK d \in 1 .. Step :
        LET passed == {n \in 1 .. d : (line + n) % V!Frame < Visible}
            wrapped == line + d >= V!Frame
        IN /\ line' = (line + d) % V!Frame
           /\ shown' = (IF wrapped THEN {} ELSE shown)
                         \cup (IF passed = {} THEN {} ELSE {sprite'})
  BY DEF V!BeamMoves
<1>3. d \in Nat /\ d >= 1 /\ d <= Step /\ d \in 0 .. Step
  BY <1>2, FrameNumbers
<1> DEFINE passed == {n \in 1 .. d : (line + n) % V!Frame < Visible}
<1>4. CASE line + d < V!Frame
  <2>1. line' = line + d
    BY <1>1, <1>2, <1>3, <1>4, LineAfter
  <2>2. shown' = shown \cup (IF passed = {} THEN {} ELSE {sprite'})
    <3>1. ~(line + d >= V!Frame)
      BY <1>1, <1>3, <1>4, FrameNumbers
    <3> QED
      BY <1>2, <3>1
  <2>3. ASSUME line >= Visible PROVE passed = {}
    <3> SUFFICES ASSUME NEW n \in 1 .. d PROVE ~((line + n) % V!Frame < Visible)
      OBVIOUS
    <3>1. n \in 0 .. Step /\ line + n < V!Frame
      BY <1>1, <1>3, <1>4, FrameNumbers
    <3>2. (line + n) % V!Frame = line + n
      BY <1>1, <3>1, LineAfter
    <3> QED
      BY <1>1, <2>3, <3>2, FrameNumbers
  <2> HIDE DEF passed
  <2>4. line' \in 0 .. V!Frame - 1 /\ line < line'
    BY <1>1, <1>3, <1>4, <2>1, FrameNumbers
  <2>5. line < Visible => line' < Visible + Step
    BY <1>1, <1>3, <2>1, FrameNumbers
  <2> QED
    BY <2>2, <2>3, <2>4, <2>5
<1>5. CASE line + d >= V!Frame
  <2>1. line' = line + d - V!Frame
    BY <1>1, <1>2, <1>3, <1>5, LineAfter
  <2>2. shown' \subseteq {sprite'}
    BY <1>2, <1>5
  <2>3. line' \in 0 .. V!Frame - 1 /\ line' < Step /\ ~(line + Step < V!Frame)
    BY <1>1, <1>3, <1>5, <2>1, FrameNumbers
  <2> QED
    BY <2>2, <2>3, FrameNumbers
<1> QED
  BY <1>1, <1>3, <1>4, <1>5, FrameNumbers

LEMMA VdpStep ==
  ASSUME VdpInv, V!Next
  PROVE  VdpInv'
<1>1. V!TypeOK /\ V!BeamMoves
  BY DEF VdpInv, V!Next, V!Poll, V!Place, V!Load, V!Regs, V!PollFirst, V!PollSecond, V!Move, V!Done,
         V!Go
<1>2. /\ line' \in 0 .. V!Frame - 1 /\ line \in 0 .. V!Frame - 1
      /\ line < Visible => line' < Visible + Step
      /\ \/ /\ line < line'
            /\ shown' \subseteq shown \cup {sprite'}
            /\ line >= Visible => shown' = shown
         \/ shown' \subseteq {sprite'}
      /\ line + Step < V!Frame => line < line'
  BY <1>1, BeamEffect DEF V!TypeOK
<1>3. /\ vdpPc \in {"place", "load", "regs", "first", "second", "move", "done"}
      /\ vdpPc = "done" => sprite = "moved"
      /\ vdpPc \in {"load", "regs", "first", "second", "move"} => sprite = "placed"
      /\ shown \subseteq {"none", "placed", "moved"}
  BY <1>1 DEF V!TypeOK
<1>4. ASSUME vdpPc' \in {"load", "regs", "first", "second", "move"}, sprite' = "placed"
      PROVE  V!TypeOK'
  BY <1>2, <1>3, <1>4 DEF V!TypeOK
<1>5. ASSUME vdpPc' = "done", sprite' = "moved"
      PROVE  V!TypeOK'
  BY <1>2, <1>3, <1>5 DEF V!TypeOK
<1>6. CASE V!Place \/ V!Load \/ V!Regs
  <2>1. vdpPc' \in {"load", "regs", "first"} /\ sprite' = "placed" /\ "moved" \notin shown
    BY <1>3, <1>6 DEF V!Place, V!Load, V!Regs, V!Go, VdpInv
  <2>2. "moved" \notin shown'
    BY <1>2, <2>1
  <2> QED
    BY <1>4, <2>1, <2>2 DEF VdpInv
<1>7. CASE V!PollFirst \/ V!PollSecond
  <2>1. /\ vdpPc \in {"first", "second"} /\ vdpPc' \in {"first", "second", "move"}
        /\ sprite' = "placed" /\ "moved" \notin shown
        /\ vdpPc' = "second" => line < Visible
        /\ vdpPc' = "move" => vdpPc = "second" /\ line >= Visible
    <3>1. "moved" \notin shown /\ sprite = "placed" /\ sprite' = sprite
      BY <1>3, <1>7 DEF V!PollFirst, V!PollSecond, V!Go, VdpInv
    <3>2. CASE V!PollFirst
      BY <1>2, <3>1, <3>2, FrameNumbers DEF V!PollFirst, V!Go, V!V_BLK
    <3>3. CASE V!PollSecond
      BY <1>2, <3>1, <3>3, FrameNumbers DEF V!PollSecond, V!Go, V!V_BLK
    <3> QED
      BY <1>7, <3>1, <3>2, <3>3
  <2>2. "moved" \notin shown'
    BY <1>2, <2>1
  <2>3. vdpPc' = "second" => line' < Visible + Step
    BY <1>2, <2>1
  <2>4. ASSUME vdpPc' = "move" PROVE line' >= Visible
    <3>1. line >= Visible /\ line < Visible + Step
      BY <2>1, <2>4 DEF VdpInv
    <3>2. line + Step < V!Frame
      BY <1>2, <3>1, FrameNumbers
    <3> QED
      BY <1>2, <3>1, <3>2, FrameNumbers
  <2> QED
    BY <1>4, <2>1, <2>2, <2>3, <2>4 DEF VdpInv
<1>8. CASE V!Move
  <2>1. vdpPc = "move" /\ vdpPc' = "done" /\ sprite' = "moved" /\ "moved" \notin shown /\ line >= Visible
    BY <1>8 DEF V!Move, V!Go, VdpInv
  <2>2. shown' \subseteq {"moved"} \/ (line' >= Visible /\ "moved" \notin shown')
    BY <1>2, <2>1, FrameNumbers
  <2> QED
    BY <1>5, <2>1, <2>2 DEF VdpInv
<1>9. CASE V!Done
  <2>1. vdpPc = "done" /\ vdpPc' = "done" /\ sprite' = "moved"
    BY <1>3, <1>9 DEF V!Done, V!Go
  <2>2. shown \subseteq {"moved"} \/ (line >= Visible /\ "moved" \notin shown)
    BY <2>1 DEF VdpInv
  <2>3. shown' \subseteq {"moved"} \/ (line' >= Visible /\ "moved" \notin shown')
    BY <1>2, <2>1, <2>2, FrameNumbers
  <2> QED
    BY <1>5, <2>1, <2>3 DEF VdpInv
<1> QED
  BY <1>6, <1>7, <1>8, <1>9 DEF V!Next, V!Poll

LEMMA VdpInit == V!Init => VdpInv
BY FrameNumbers DEF V!Init, VdpInv, V!TypeOK

LEMMA CacheNumbers ==
  /\ Block \in Nat \ {0} /\ C!Top \in Nat \ {0} /\ C!Top % Block = 0
  /\ FbBase \in Nat /\ FbSize \in Nat /\ FbBase + FbSize < C!Top
  /\ FbBase % Block = 0 /\ FbSize % Block = 0
<1>1. /\ Width \in Nat /\ Block \in Nat \ {0} /\ C!Top % Block = 0
      /\ FbBase \in Nat /\ FbSize \in Nat /\ FbBase + FbSize < C!Top
      /\ FbBase % Block = 0 /\ FbSize % Block = 0
  BY DevicesAssumption DEF C!CacheAssumption
<1>2. C!Top \in Int
  BY <1>1 DEF C!Top
<1> HIDE DEF C!Top
<1> QED
  BY <1>1, <1>2

(* Blocks and where they begin.                                            *)
LEMMA BlockBegins ==
  ASSUME NEW a \in Nat
  PROVE  /\ C!BlockOf(a) \in Nat /\ C!BlockOf(a) * Block \in Nat
         /\ C!BlockOf(a) * Block <= a /\ a < C!BlockOf(a) * Block + Block
         /\ (C!BlockOf(a) * Block) % Block = 0
         /\ a % Block = 0 => C!BlockOf(a) * Block = a
<1> DEFINE q == a \div Block
           r == a % Block
           c == Block * q
<1>1. q \in Nat /\ r \in 0 .. Block - 1 /\ a = Block * q + r /\ Block \in Nat \ {0}
  BY CacheNumbers, DivMod
<1> HIDE DEF q, r
<1>2. c \in Nat /\ c = Block * q + 0 /\ q * Block = c
  BY <1>1, ProductOfNats
<1>3. c <= a /\ a < c + Block /\ (r = 0 => c = a)
  BY <1>1, <1>2
<1> HIDE DEF c
<1>4. c % Block = 0
  BY <1>1, <1>2, DivModUnique
<1> QED
  BY <1>1, <1>2, <1>3, <1>4 DEF q, r, C!BlockOf

LEMMA BlocksInOrder ==
  ASSUME NEW a \in Nat, NEW b \in Nat
  PROVE  /\ a <= b => C!BlockOf(a) <= C!BlockOf(b) /\ C!BlockOf(a) * Block <= C!BlockOf(b) * Block
         /\ a + Block <= b => C!BlockOf(a) * Block < C!BlockOf(b) * Block
<1> DEFINE q == C!BlockOf(a)
           t == C!BlockOf(b)
<1>a. /\ q \in Nat /\ q * Block <= a /\ a < q * Block + Block
      /\ t \in Nat /\ t * Block <= b /\ b < t * Block + Block
  BY BlockBegins
<1> HIDE DEF q, t
<1>b. /\ Block \in Nat \ {0} /\ q * Block = Block * q /\ t * Block = Block * t
      /\ Block * q \in Nat /\ Block * t \in Nat
  BY <1>a, CacheNumbers
<1>1. /\ q \in Nat /\ t \in Nat /\ Block \in Nat \ {0} /\ q * Block = Block * q /\ t * Block = Block * t
      /\ Block * q \in Nat /\ Block * t \in Nat
      /\ Block * q <= a /\ a < Block * q + Block /\ Block * t <= b /\ b < Block * t + Block
  BY <1>a, <1>b
<1>2. ASSUME t < q PROVE b < a
  <2>1. Block * (t + 1) <= Block * q
    BY <1>1, <1>2, ProductMonotone
  <2>2. Block * (t + 1) = Block * t + Block
    BY <1>1
  <2> QED
    BY <1>1, <2>1, <2>2
<1>3. a <= b => q <= t /\ q * Block <= t * Block
  <2>1. q <= t => Block * q <= Block * t
    BY <1>1, ProductMonotone
  <2> QED
    BY <1>1, <1>2, <2>1
<1>4. a + Block <= b => q * Block < t * Block
  BY <1>1
<1> QED
  BY <1>3, <1>4 DEF q, t

(* Between two multiples is at least one block.                            *)
LEMMA MultipleAfter ==
  ASSUME NEW a \in Nat, NEW b \in Nat, a % Block = 0, b % Block = 0
  PROVE  /\ (a + Block) % Block = 0
         /\ a < b => a + Block <= b
<1>1. (a + Block) % Block = 0
  <2>1. Block \in Nat \ {0} /\ Block \in Nat /\ Block % Block = 0
    BY CacheNumbers, MultipleOfItself
  <2> QED
    BY <2>1, Multiples
<1>2. ASSUME a < b PROVE a + Block <= b
  <2> DEFINE q == C!BlockOf(a)
             t == C!BlockOf(b)
  <2>a. q \in Nat /\ t \in Nat /\ a = q * Block /\ b = t * Block
    BY BlockBegins
  <2>2. q <= t
    BY <1>2, BlocksInOrder
  <2> HIDE DEF q, t
  <2>1. /\ q \in Nat /\ t \in Nat /\ Block \in Nat \ {0}
        /\ a = Block * q /\ b = Block * t
    BY <2>a, CacheNumbers
  <2>3. q # t
    BY <1>2, <2>1
  <2>4. Block * (q + 1) <= Block * t
    BY <2>1, <2>2, <2>3, ProductMonotone
  <2>5. Block * (q + 1) = Block * q + Block
    BY <2>1
  <2> QED
    BY <2>1, <2>4, <2>5
<1> QED
  BY <1>1, <1>2

LEMMA RangeBlock ==
  ASSUME NEW s \in Nat, NEW n \in Nat, s + n <= C!Top, NEW b \in C!RangeBlocks(s, n)
  PROVE  /\ \E a \in Nat : s <= a /\ a < s + n /\ b = C!BlockOf(a)
         /\ b \in C!Blocks /\ b \in Nat
<1>1. PICK a \in s .. s + n - 1 : b = C!BlockOf(a)
  BY DEF C!RangeBlocks
<1>2. a \in Nat /\ s <= a /\ a < s + n /\ a < C!Top
  BY <1>1, CacheNumbers
<1>3. b \in Nat /\ b <= C!BlockOf(C!Top) /\ C!BlockOf(C!Top) \in Nat
  <2>1. C!Top \in Nat /\ a <= C!Top
    BY <1>2, CacheNumbers
  <2>2. C!BlockOf(a) <= C!BlockOf(C!Top)
    BY <1>2, <2>1, BlocksInOrder
  <2> QED
    BY <1>1, <1>2, <2>1, <2>2, BlockBegins
<1>4. b # C!BlockOf(C!Top)
  <2>1. b * Block <= a
    BY <1>1, <1>2, BlockBegins
  <2>2. C!BlockOf(C!Top) * Block = C!Top
    BY BlockBegins, CacheNumbers
  <2> QED
    BY <1>2, <2>1, <2>2, CacheNumbers
<1>5. b \in C!Blocks
  BY <1>3, <1>4 DEF C!Blocks, C!BlockOf
<1> QED
  BY <1>1, <1>2, <1>3, <1>5

-----------------------------------------------------------------------------
LEMMA CacheTypes ==
  ASSUME C!TypeOK
  PROVE  /\ start \in Nat /\ length \in Nat /\ p \in Nat /\ last \in Nat
         /\ start < C!Top /\ p < C!Top /\ last < C!Top /\ p % Block = 0 /\ last % Block = 0
         /\ dirty \subseteq C!Blocks /\ pending \subseteq C!Blocks
         /\ cachePc \in {"idle", "stored", "before", "loop", "after", "flushed"}
BY CacheNumbers DEF C!TypeOK

LEMMA MemorySteps ==
  ASSUME CacheInv, C!Memory
  PROVE  CacheInv'
<1>1. /\ UNCHANGED <<cachePc, start, length, p, last>>
      /\ dirty' \subseteq dirty /\ dirty' \cup pending' \subseteq dirty \cup pending
  BY DEF C!Memory, C!Evict, C!Arrive
<1>2. C!TypeOK'
  BY <1>1 DEF CacheInv, C!TypeOK
<1>3. C!RangeBlocks(start, length)' = C!RangeBlocks(start, length) /\ Passed' = Passed
      /\ (C!RoundsPastTop)' = C!RoundsPastTop
  BY <1>1 DEF C!RangeBlocks, Passed, C!RoundsPastTop, C!BlockOf
<1> QED
  BY <1>1, <1>2, <1>3 DEF CacheInv, C!RangeInMemory

LEMMA StoreStep ==
  ASSUME CacheInv, C!Store
  PROVE  CacheInv'
<1>1. PICK s \in 0 .. C!Top - 1 : \E n \in 0 .. C!Top - s :
        /\ start' = s /\ length' = n
        /\ dirty' = dirty \cup C!RangeBlocks(s, n)
  BY DEF C!Store
<1>2. PICK n \in 0 .. C!Top - s :
        /\ start' = s /\ length' = n
        /\ dirty' = dirty \cup C!RangeBlocks(s, n)
  BY <1>1
<1>3. s \in Nat /\ n \in Nat /\ s + n <= C!Top /\ n <= C!Top
  BY <1>1, <1>2, CacheNumbers
<1>4. C!RangeBlocks(s, n) \subseteq C!Blocks
  BY <1>3, RangeBlock
<1>5. cachePc' = "stored" /\ UNCHANGED <<p, last, pending>>
  BY DEF C!Store
<1>6. C!TypeOK'
  BY <1>1, <1>2, <1>3, <1>4, <1>5, CacheNumbers DEF CacheInv, C!TypeOK
<1> QED
  BY <1>2, <1>3, <1>5, <1>6 DEF CacheInv, C!RangeInMemory

(* No block of the range is before the one that the loop begins with.      *)
LEMMA NoneBefore ==
  ASSUME NEW s \in Nat, NEW n \in Nat, s + n <= C!Top, NEW b \in C!RangeBlocks(s, n)
  PROVE  b * Block >= C!BlockOf(s) * Block
<1>1. PICK a \in Nat : s <= a /\ b = C!BlockOf(a)
  BY RangeBlock
<1> QED
  BY <1>1, BlocksInOrder, BlockBegins

LEMMA CacheFlushRangeStep ==
  ASSUME CacheInv, C!CacheFlushRange
  PROVE  CacheInv'
<1>1. /\ start \in Nat /\ length \in Nat /\ start + length <= C!Top /\ C!TypeOK
      /\ UNCHANGED <<start, length, dirty, pending>>
  BY CacheTypes DEF CacheInv, C!CacheFlushRange
<1>2. /\ C!RangeBlocks(start, length)' = C!RangeBlocks(start, length)
      /\ (C!RoundsPastTop)' = C!RoundsPastTop
  BY <1>1 DEF C!RangeBlocks, C!RoundsPastTop, C!BlockOf
<1>3. CASE length = 0
  <2>1. cachePc' = "flushed" /\ UNCHANGED <<p, last>>
    BY <1>3 DEF C!CacheFlushRange
  <2>2. C!RangeBlocks(start, length) = {}
    BY <1>1, <1>3 DEF C!RangeBlocks
  <2>3. C!TypeOK'
    BY <1>1, <2>1 DEF C!TypeOK
  <2> QED
    BY <1>1, <1>2, <2>1, <2>2, <2>3 DEF CacheInv, C!RangeInMemory
<1>4. CASE length # 0
  <2> DEFINE end == start + length + Block - 1
             e == end % C!Top
  <2>1. /\ cachePc' = "loop" /\ p' = C!BlockOf(start) * Block
        /\ last' = C!BlockOf(e) * Block
    BY <1>4 DEF C!CacheFlushRange, C!RoundedDown, C!LastBlock, C!BlockOf
  <2>2. end \in Nat /\ e \in Nat /\ e < C!Top /\ (end < C!Top => e = end)
    <3>1. end \in Nat
      BY <1>1, CacheNumbers
    <3> HIDE DEF end
    <3>2. e \in 0 .. C!Top - 1
      BY <3>1, CacheNumbers, DivMod
    <3>3. ASSUME end < C!Top PROVE e = end
      <4>1. end \in 0 .. C!Top - 1 /\ 0 \in Nat /\ end = C!Top * 0 + end
        BY <3>1, <3>3, CacheNumbers
      <4> QED
        BY <3>1, <4>1, CacheNumbers, DivModUnique
    <3> QED
      BY <3>1, <3>2, <3>3, CacheNumbers
  <2>3. p' \in 0 .. C!Top - 1 /\ p' % Block = 0
    BY <1>1, <2>1, BlockBegins, CacheTypes, CacheNumbers
  <2>4. last' \in 0 .. C!Top - 1 /\ last' % Block = 0
    <3> HIDE DEF e
    <3> QED
      BY <2>1, <2>2, BlockBegins, CacheNumbers
  <2>5. C!TypeOK'
    BY <1>1, <2>1, <2>3, <2>4 DEF C!TypeOK
  <2>6. Passed' = {}
    <3>1. \A b \in C!RangeBlocks(start, length) : b * Block >= p' /\ b \in Nat
      BY <1>1, <2>1, NoneBefore, RangeBlock
    <3>2. \A b \in C!RangeBlocks(start, length) : ~(b * Block < p')
      BY <2>3, <3>1, CacheNumbers
    <3> QED
      BY <1>2, <3>2 DEF Passed
  <2>7. ASSUME ~C!RoundsPastTop, NEW b \in C!RangeBlocks(start, length)
        PROVE  b * Block < last'
    <3>1. end < C!Top
      BY <1>1, <2>7, CacheNumbers DEF C!RoundsPastTop
    <3>2. PICK a \in Nat : a < start + length /\ b = C!BlockOf(a)
      BY <1>1, RangeBlock
    <3>3. a + Block <= end
      BY <1>1, <3>2, CacheNumbers
    <3>4. last' = C!BlockOf(end) * Block
      BY <2>1, <2>2, <3>1
    <3> HIDE DEF end
    <3> QED
      BY <2>2, <3>2, <3>3, <3>4, BlocksInOrder
  <2> HIDE DEF end, e
  <2> QED
    BY <1>1, <1>2, <2>1, <2>5, <2>6, <2>7 DEF CacheInv, C!RangeInMemory
<1> QED
  BY <1>3, <1>4

LEMMA FramebufferSteps ==
  ASSUME CacheInv, C!FramebufferFlush \/ C!FenceBefore
  PROVE  CacheInv'
<1>1. /\ start \in Nat /\ length \in Nat /\ start + length <= C!Top /\ C!TypeOK
      /\ UNCHANGED <<start, length, dirty, pending>>
  BY CacheTypes DEF CacheInv, C!FramebufferFlush, C!FenceBefore
<1>2. C!RangeBlocks(start, length)' = C!RangeBlocks(start, length)
  BY <1>1 DEF C!RangeBlocks, C!BlockOf
<1>3. CASE C!FramebufferFlush
  <2>1. cachePc' = "before" /\ start = FbBase /\ length = FbSize /\ UNCHANGED <<p, last>>
    BY <1>3 DEF C!FramebufferFlush
  <2>2. C!TypeOK'
    BY <1>1, <2>1 DEF C!TypeOK
  <2> QED
    BY <1>1, <2>1, <2>2 DEF CacheInv, C!RangeInMemory
<1>4. CASE C!FenceBefore
  <2>1. /\ cachePc' = "loop" /\ p' = start /\ last' = start + length
        /\ start = FbBase /\ length = FbSize
    BY <1>4 DEF C!FenceBefore, CacheInv
  <2>2. last' < C!Top /\ last' % Block = 0 /\ start % Block = 0
    BY <2>1, CacheNumbers, Multiples
  <2>3. C!TypeOK'
    BY <1>1, <2>1, <2>2, CacheNumbers DEF C!TypeOK
  <2>4. \A b \in C!RangeBlocks(start, length) : b * Block >= start /\ b * Block < start + length
    <3> SUFFICES ASSUME NEW b \in C!RangeBlocks(start, length)
                 PROVE  b * Block >= start /\ b * Block < start + length
      OBVIOUS
    <3>1. PICK a \in Nat : a < start + length /\ b = C!BlockOf(a)
      BY <1>1, RangeBlock
    <3>2. b * Block <= a /\ b * Block \in Nat
      BY <3>1, BlockBegins
    <3>3. b * Block >= start
      BY <1>1, <2>2, NoneBefore, BlockBegins
    <3> QED
      BY <1>1, <3>1, <3>2, <3>3
  <2>5. Passed' = {}
    <3>1. \A b \in C!RangeBlocks(start, length) : ~(b * Block < p')
      <4> SUFFICES ASSUME NEW b \in C!RangeBlocks(start, length) PROVE ~(b * Block < p')
        OBVIOUS
      <4>1. b \in Nat /\ b * Block \in Int
        BY <1>1, RangeBlock, CacheNumbers
      <4> QED
        BY <1>1, <2>1, <2>4, <4>1
    <3> QED
      BY <1>2, <3>1 DEF Passed
  <2> QED
    BY <1>1, <1>2, <2>1, <2>3, <2>4, <2>5 DEF CacheInv, C!RangeInMemory
<1> QED
  BY <1>3, <1>4

(* The step that matters: the block at p is the only one that is passed.   *)
LEMMA FlushBlockStep ==
  ASSUME CacheInv, C!FlushBlock
  PROVE  CacheInv'
<1>1. /\ start \in Nat /\ length \in Nat /\ start + length <= C!Top /\ C!TypeOK
      /\ p \in Nat /\ last \in Nat /\ last < C!Top /\ p % Block = 0 /\ last % Block = 0
      /\ dirty \subseteq C!Blocks /\ pending \subseteq C!Blocks
      /\ UNCHANGED <<cachePc, start, length, last>> /\ cachePc = "loop" /\ ~(p >= last)
      /\ dirty' = dirty \ {C!BlockOf(p)}
      /\ pending' = pending \cup (dirty \cap {C!BlockOf(p)})
      /\ p' = (p + Block) % C!Top
  BY CacheTypes DEF CacheInv, C!FlushBlock, C!NextBlock, C!AtEnd
<1>2. /\ C!RangeBlocks(start, length)' = C!RangeBlocks(start, length)
      /\ (C!RoundsPastTop)' = C!RoundsPastTop
  BY <1>1 DEF C!RangeBlocks, C!RoundsPastTop, C!BlockOf
<1>3. p + Block <= last /\ (p + Block) % Block = 0 /\ p + Block \in Nat
  BY <1>1, CacheNumbers, MultipleAfter
<1>4. p' = p + Block
  <2> DEFINE q == p + Block
  <2>1. q \in 0 .. C!Top - 1 /\ q \in Nat /\ q = C!Top * 0 + q
    BY <1>1, <1>3, CacheNumbers
  <2> HIDE DEF q
  <2>2. q % C!Top = q
    BY <2>1, CacheNumbers, DivModUnique
  <2> QED
    BY <1>1, <2>2 DEF q
<1>5. C!TypeOK'
  <2>1. p' \in 0 .. C!Top - 1 /\ p' % Block = 0
    BY <1>1, <1>3, <1>4, CacheNumbers
  <2>2. dirty' \subseteq C!Blocks /\ pending' \subseteq C!Blocks
    BY <1>1
  <2> QED
    BY <1>1, <2>1, <2>2 DEF C!TypeOK
<1>6. ASSUME NEW b \in C!RangeBlocks(start, length), b * Block < p + Block
      PROVE  b \notin dirty'
  <2>1. PICK a \in Nat : b = C!BlockOf(a)
    BY <1>1, RangeBlock
  <2>2. b \in Nat /\ b * Block \in Nat /\ (b * Block) % Block = 0
    BY <2>1, BlockBegins
  <2>3. CASE b * Block < p
    BY <1>1, <2>3 DEF CacheInv, Passed
  <2>4. CASE b * Block >= p
    <3>1. b * Block = p
      <4> DEFINE m == b * Block
      <4>1. m \in Nat /\ m % Block = 0 /\ m >= p /\ m < p + Block
        BY <1>6, <2>2, <2>4
      <4> HIDE DEF m
      <4>2. ~(p < m)
        BY <1>1, <4>1, CacheNumbers, MultipleAfter
      <4>3. m = p
        BY <1>1, <4>1, <4>2
      <4> QED
        BY <4>3 DEF m
    <3>2. p = Block * b + 0 /\ 0 \in 0 .. Block - 1
      BY <2>2, <3>1, CacheNumbers
    <3>3. C!BlockOf(p) = b
      BY <1>1, <2>2, <3>2, CacheNumbers, DivModUnique DEF C!BlockOf
    <3> QED
      BY <1>1, <3>3
  <2> QED
    BY <1>1, <2>2, <2>3, <2>4
<1>7. Passed' \cap dirty' = {}
  BY <1>2, <1>4, <1>6 DEF Passed
<1> QED
  BY <1>1, <1>2, <1>5, <1>7 DEF CacheInv, C!RangeInMemory

LEMMA LoopEnd ==
  ASSUME CacheInv, C!EndLoop \/ C!FenceAfter
  PROVE  CacheInv'
<1>1. /\ C!TypeOK /\ p \in Nat /\ last \in Nat /\ start \in Nat /\ length \in Nat
      /\ start + length <= C!Top
      /\ UNCHANGED <<start, length, p, last, dirty, pending>>
  BY CacheTypes DEF CacheInv, C!EndLoop, C!FenceAfter
<1>2. /\ C!RangeBlocks(start, length)' = C!RangeBlocks(start, length)
      /\ (C!RoundsPastTop)' = C!RoundsPastTop
  BY <1>1 DEF C!RangeBlocks, C!RoundsPastTop, C!BlockOf
<1>3. CASE C!EndLoop
  <2>1. cachePc = "loop" /\ cachePc' = "after" /\ p >= last
    BY <1>3 DEF C!EndLoop, C!AtEnd
  <2>2. C!TypeOK'
    BY <1>1, <2>1 DEF C!TypeOK
  <2>3. ASSUME ~C!RoundsPastTop, NEW b \in C!RangeBlocks(start, length) PROVE b \notin dirty
    <3>1. b \in Nat /\ b * Block < last
      BY <1>1, <2>1, <2>3, RangeBlock DEF CacheInv
    <3>2. b * Block < p
      BY <1>1, <2>1, <3>1, CacheNumbers
    <3> QED
      BY <2>1, <3>2 DEF CacheInv, Passed
  <2> QED
    BY <1>1, <1>2, <2>1, <2>2, <2>3 DEF CacheInv, C!RangeInMemory
<1>4. CASE C!FenceAfter
  <2>1. cachePc = "after" /\ cachePc' = "flushed" /\ pending = {}
    BY <1>4 DEF C!FenceAfter, C!FenceDone
  <2>2. C!TypeOK'
    BY <1>1, <2>1 DEF C!TypeOK
  <2> QED
    BY <1>1, <1>2, <2>1, <2>2 DEF CacheInv, C!RangeInMemory
<1> QED
  BY <1>3, <1>4

LEMMA CacheStep ==
  ASSUME CacheInv, C!Next
  PROVE  CacheInv'
BY MemorySteps, StoreStep, CacheFlushRangeStep, FramebufferSteps, FlushBlockStep, LoopEnd
   DEF C!Next, C!Call, C!Flush

LEMMA CacheInit == C!Init => CacheInv
<1> SUFFICES ASSUME C!Init PROVE CacheInv
  OBVIOUS
<1>1. cachePc = "idle" /\ start = 0 /\ length = 0 /\ p = 0 /\ last = 0 /\ dirty = {} /\ pending = {}
  BY DEF C!Init
<1>2. 0 % Block = 0
  <2>1. 0 \in Nat /\ 0 \in 0 .. Block - 1 /\ 0 = Block * 0 + 0
    BY CacheNumbers
  <2> QED
    BY <2>1, CacheNumbers, DivModUnique
<1>3. C!TypeOK
  BY <1>1, <1>2, CacheNumbers DEF C!TypeOK
<1> QED
  BY <1>1, <1>3, CacheNumbers DEF CacheInv, C!RangeInMemory

LEMMA SerialNumbers ==
  /\ UartDepth \in Nat \ {0} /\ Radix \in Nat /\ Radix >= 2 /\ Size \in Nat /\ Size >= 3
  /\ Nums \subseteq Nat /\ \A n \in Nums : n < S!Power(Size - 2)
  /\ Label \in Seq(Nat)
BY DevicesAssumption DEF S!SerialAssumption

(* Numbers of k digits.  Power is defined by recursion: the function that  *)
(* it is the last element of exists, and any two of them agree.            *)
IsPower(k, f) == f = [i \in 0 .. k |-> IF i = 0 THEN 1 ELSE Radix * f[i - 1]]

LEMMA PowerExists ==
  ASSUME NEW k \in Nat
  PROVE  \E f : IsPower(k, f)
<1> DEFINE T == {n \in Nat : \E f : IsPower(n, f)}
<1>1. 0 \in T
  <2> DEFINE f == [i \in 0 .. 0 |-> 1]
  <2>1. IsPower(0, f)
    BY DEF IsPower
  <2> QED
    BY <2>1
<1>2. ASSUME NEW n \in Nat, n \in T PROVE n + 1 \in T
  <2>1. PICK f : IsPower(n, f)
    BY <1>2
  <2>2. \A i \in 0 .. n : f[i] = IF i = 0 THEN 1 ELSE Radix * f[i - 1]
    BY <2>1 DEF IsPower
  <2> DEFINE g == [i \in 0 .. n + 1 |-> IF i <= n THEN f[i] ELSE Radix * f[n]]
  <2>3. \A i \in 0 .. n + 1 : g[i] = IF i = 0 THEN 1 ELSE Radix * g[i - 1]
    <3> SUFFICES ASSUME NEW i \in 0 .. n + 1
                 PROVE  g[i] = IF i = 0 THEN 1 ELSE Radix * g[i - 1]
      OBVIOUS
    <3>1. CASE i <= n
      BY <2>2, <3>1
    <3>2. CASE i = n + 1
      BY <3>2
    <3> QED
      BY <3>1, <3>2
  <2>4. IsPower(n + 1, g)
    BY <2>3 DEF IsPower
  <2> QED
    BY <2>4
<1> HIDE DEF T
<1>3. k \in T
  BY <1>1, <1>2, SetInduction
<1> QED
  BY <1>3 DEF T

LEMMA PowerIs ==
  ASSUME NEW k \in Nat
  PROVE  \E f : IsPower(k, f) /\ S!Power(k) = f[k]
<1> DEFINE f == CHOOSE f : IsPower(k, f)
<1>1. S!Power(k) = f[k]
  BY DEF S!Power, IsPower
<1>2. IsPower(k, f)
  BY PowerExists
<1> QED
  BY <1>1, <1>2

LEMMA PowersAgree ==
  ASSUME NEW k \in Nat, NEW f, NEW g, IsPower(k, f), IsPower(k + 1, g)
  PROVE  f[k] = g[k]
<1> DEFINE T == {i \in Nat : i <= k => f[i] = g[i]}
<1>1. \A i \in 0 .. k : f[i] = IF i = 0 THEN 1 ELSE Radix * f[i - 1]
  BY DEF IsPower
<1>2. \A i \in 0 .. k : g[i] = IF i = 0 THEN 1 ELSE Radix * g[i - 1]
  BY DEF IsPower
<1>3. 0 \in T
  BY <1>1, <1>2
<1>4. ASSUME NEW i \in Nat, i \in T PROVE i + 1 \in T
  <2> SUFFICES ASSUME i + 1 <= k PROVE f[i + 1] = g[i + 1]
    OBVIOUS
  <2>1. i + 1 \in 0 .. k /\ i + 1 # 0 /\ (i + 1) - 1 = i /\ f[i] = g[i]
    BY <1>4
  <2>2. f[i + 1] = Radix * f[(i + 1) - 1] /\ g[i + 1] = Radix * g[(i + 1) - 1]
    BY <1>1, <1>2, <2>1
  <2> QED
    BY <2>1, <2>2
<1> HIDE DEF T
<1>5. k \in T
  BY <1>3, <1>4, SetInduction
<1> QED
  BY <1>5 DEF T

LEMMA NextPower ==
  ASSUME NEW k \in Nat
  PROVE  S!Power(0) = 1 /\ S!Power(k + 1) = Radix * S!Power(k)
<1>1. PICK f : IsPower(k, f) /\ S!Power(k) = f[k]
  BY PowerIs
<1>2. PICK g : IsPower(k + 1, g) /\ S!Power(k + 1) = g[k + 1]
  BY PowerIs
<1>3. PICK h : IsPower(0, h) /\ S!Power(0) = h[0]
  BY PowerIs
<1>4. g[k + 1] = Radix * g[k]
  <2>1. k + 1 \in 0 .. k + 1 /\ k + 1 # 0 /\ (k + 1) - 1 = k
    OBVIOUS
  <2> QED
    BY <1>2, <2>1 DEF IsPower
<1>5. h[0] = 1
  BY <1>3 DEF IsPower
<1> QED
  BY <1>1, <1>2, <1>3, <1>4, <1>5, PowersAgree

LEMMA PowerType ==
  ASSUME NEW k \in Nat
  PROVE  S!Power(k) \in Nat
<1> DEFINE T == {n \in Nat : S!Power(n) \in Nat}
<1>1. 0 \in T
  BY NextPower
<1>2. ASSUME NEW n \in Nat, n \in T PROVE n + 1 \in T
  <2>1. S!Power(n + 1) = Radix * S!Power(n)
    BY NextPower
  <2> QED
    BY <1>2, <2>1, SerialNumbers, ProductOfNats
<1> HIDE DEF T
<1>3. k \in T
  BY <1>1, <1>2, SetInduction
<1> QED
  BY <1>3 DEF T

-----------------------------------------------------------------------------
(* The digits of a number: those of its quotient, and the remainder.       *)
LEMMA Quotient ==
  ASSUME NEW n \in Nat
  PROVE  /\ n \div Radix \in Nat /\ n % Radix \in S!Digits
         /\ n = (n \div Radix) * Radix + (n % Radix)
         /\ n >= Radix => n \div Radix < n /\ n \div Radix > 0
<1> DEFINE q == n \div Radix
           r == n % Radix
<1>1. q \in Nat /\ r \in 0 .. Radix - 1 /\ n = Radix * q + r
  <2>1. Radix \in Nat \ {0}
    BY SerialNumbers
  <2>2. q \in Nat /\ r \in 0 .. Radix - 1 /\ n = Radix * (n \div Radix) + r
    BY <2>1, DivMod
  <2> QED
    BY <2>2
<1> HIDE DEF q, r
<1>2. n = q * Radix + r
  BY <1>1, SerialNumbers
<1>3. ASSUME n >= Radix PROVE q < n /\ q > 0
  <2>1. q # 0
    <3> SUFFICES ASSUME q = 0 PROVE FALSE
      OBVIOUS
    <3>1. n = r
      BY <1>1, SerialNumbers
    <3> QED
      BY <1>1, <1>3, <3>1, SerialNumbers
  <2>2. q * 2 <= q * Radix
    BY <1>1, SerialNumbers, ProductMonotone
  <2>3. q * Radix \in Nat
    BY <1>1, SerialNumbers, ProductOfNats
  <2> QED
    BY <1>1, <1>2, <2>1, <2>2, <2>3
<1> QED
  BY <1>1, <1>2, <1>3 DEF q, r, S!Digits

HexStep(h, m) == IF m < Radix THEN <<m>> ELSE Append(h[m \div Radix], m % Radix)
IsHex(n, h) == h = [m \in 0 .. n |-> HexStep(h, m)]

LEMMA HexExists ==
  ASSUME NEW k \in Nat
  PROVE  \E h : IsHex(k, h)
<1> DEFINE T == {n \in Nat : \E h : IsHex(n, h)}
<1>1. 0 \in T
  <2> DEFINE h == [m \in 0 .. 0 |-> <<m>>]
  <2>1. \A m \in 0 .. 0 : h[m] = HexStep(h, m)
    BY SerialNumbers DEF HexStep
  <2>2. IsHex(0, h)
    BY <2>1 DEF IsHex
  <2> QED
    BY <2>2
<1>2. ASSUME NEW n \in Nat, n \in T PROVE n + 1 \in T
  <2>1. PICK h : IsHex(n, h)
    BY <1>2
  <2>2. \A m \in 0 .. n : h[m] = HexStep(h, m)
    BY <2>1 DEF IsHex
  <2> DEFINE g == [m \in 0 .. n + 1 |-> IF m <= n THEN h[m] ELSE HexStep(h, n + 1)]
  <2>3. \A m \in 0 .. n : g[m] = h[m]
    OBVIOUS
  <2>4. g[n + 1] = HexStep(h, n + 1)
    OBVIOUS
  <2> HIDE DEF g
  <2>5. ASSUME NEW m \in 0 .. n + 1 PROVE HexStep(g, m) = HexStep(h, m)
    <3>1. m \in Nat /\ Radix \in Nat
      BY SerialNumbers
    <3>2. CASE m < Radix
      BY <3>2 DEF HexStep
    <3>3. CASE ~(m < Radix)
      <4>1. m \div Radix \in 0 .. n
        BY <3>1, <3>3, Quotient
      <4> QED
        BY <2>3, <3>3, <4>1 DEF HexStep
    <3> QED
      BY <3>2, <3>3
  <2>6. \A m \in 0 .. n + 1 : g[m] = HexStep(g, m)
    <3> SUFFICES ASSUME NEW m \in 0 .. n + 1 PROVE g[m] = HexStep(g, m)
      OBVIOUS
    <3>1. m \in 0 .. n \/ m = n + 1
      OBVIOUS
    <3> QED
      BY <2>2, <2>3, <2>4, <2>5, <3>1
  <2>7. IsHex(n + 1, g)
    BY <2>6 DEF IsHex, g
  <2> QED
    BY <2>7
<1> HIDE DEF T
<1>3. k \in T
  BY <1>1, <1>2, SetInduction
<1> QED
  BY <1>3 DEF T

LEMMA HexIs ==
  ASSUME NEW n \in Nat
  PROVE  \E h : IsHex(n, h) /\ S!HexDigits(n) = h[n]
<1> DEFINE h == CHOOSE h : IsHex(n, h)
<1>1. S!HexDigits(n) = h[n]
  BY DEF S!HexDigits, IsHex, HexStep
<1>2. IsHex(n, h)
  BY HexExists
<1> QED
  BY <1>1, <1>2

LEMMA HexAgree ==
  ASSUME NEW n \in Nat, NEW k \in Nat, NEW h, NEW g, IsHex(n, h), IsHex(k, g)
  PROVE  \A m \in Nat : m <= n /\ m <= k => h[m] = g[m]
<1> DEFINE T == {m \in Nat : m <= n /\ m <= k => h[m] = g[m]}
<1>1. \A m \in Nat : /\ m <= n => h[m] = HexStep(h, m)
                     /\ m <= k => g[m] = HexStep(g, m)
  BY DEF IsHex
<1>2. ASSUME NEW m \in Nat, \A j \in 0 .. m - 1 : j \in T PROVE m \in T
  <2> SUFFICES ASSUME m <= n, m <= k PROVE h[m] = g[m]
    OBVIOUS
  <2>1. HexStep(h, m) = HexStep(g, m)
    <3>1. CASE m < Radix
      BY <3>1 DEF HexStep
    <3>2. CASE ~(m < Radix)
      <4>1. m \div Radix \in 0 .. m - 1 /\ m \div Radix <= n /\ m \div Radix <= k
        <5>1. m >= Radix
          BY <3>2, SerialNumbers
        <5>2. m \div Radix \in Nat /\ m \div Radix < m
          BY <5>1, Quotient
        <5> QED
          BY <5>2
      <4>2. h[m \div Radix] = g[m \div Radix]
        BY <1>2, <4>1
      <4> QED
        BY <3>2, <4>2 DEF HexStep
    <3> QED
      BY <3>1, <3>2
  <2> QED
    BY <1>1, <2>1
<1> HIDE DEF T
<1>3. Nat \subseteq T
  BY <1>2, StrongInduction
<1> QED
  BY <1>3 DEF T

LEMMA HexOf ==
  ASSUME NEW n \in Nat
  PROVE  /\ n < Radix => S!HexDigits(n) = <<n>>
         /\ n >= Radix => S!HexDigits(n) = Append(S!HexDigits(n \div Radix), n % Radix)
<1>1. PICK h : IsHex(n, h) /\ S!HexDigits(n) = h[n]
  BY HexIs
<1>2. h[n] = HexStep(h, n)
  BY <1>1 DEF IsHex
<1>3. ASSUME n >= Radix
      PROVE  S!HexDigits(n) = Append(S!HexDigits(n \div Radix), n % Radix)
  <2>1. n \div Radix \in Nat /\ n \div Radix <= n
    BY <1>3, Quotient
  <2>2. PICK g : IsHex(n \div Radix, g) /\ S!HexDigits(n \div Radix) = g[n \div Radix]
    BY <2>1, HexIs
  <2>3. h[n \div Radix] = g[n \div Radix]
    BY <1>1, <2>1, <2>2, HexAgree
  <2>4. ~(n < Radix)
    BY <1>3, SerialNumbers
  <2> QED
    BY <1>1, <1>2, <2>2, <2>3, <2>4 DEF HexStep
<1> QED
  BY <1>1, <1>2, <1>3 DEF HexStep

-----------------------------------------------------------------------------
(* The number that digits stand for, which is defined by recursion too.    *)
IsValue(d, n, f) == f = [k \in 0 .. n |-> IF k = 0 THEN 0 ELSE f[k - 1] * Radix + d[k]]

LEMMA ValueExists ==
  ASSUME NEW d, NEW k \in Nat
  PROVE  \E f : IsValue(d, k, f)
<1> DEFINE T == {n \in Nat : \E f : IsValue(d, n, f)}
<1>1. 0 \in T
  <2> DEFINE f == [i \in 0 .. 0 |-> 0]
  <2>1. IsValue(d, 0, f)
    BY DEF IsValue
  <2> QED
    BY <2>1
<1>2. ASSUME NEW n \in Nat, n \in T PROVE n + 1 \in T
  <2>1. PICK f : IsValue(d, n, f)
    BY <1>2
  <2>2. \A i \in 0 .. n : f[i] = IF i = 0 THEN 0 ELSE f[i - 1] * Radix + d[i]
    BY <2>1 DEF IsValue
  <2> DEFINE g == [i \in 0 .. n + 1 |-> IF i <= n THEN f[i] ELSE f[n] * Radix + d[n + 1]]
  <2>3. \A i \in 0 .. n + 1 : g[i] = IF i = 0 THEN 0 ELSE g[i - 1] * Radix + d[i]
    <3> SUFFICES ASSUME NEW i \in 0 .. n + 1
                 PROVE  g[i] = IF i = 0 THEN 0 ELSE g[i - 1] * Radix + d[i]
      OBVIOUS
    <3>1. CASE i <= n
      BY <2>2, <3>1
    <3>2. CASE i = n + 1
      BY <3>2
    <3> QED
      BY <3>1, <3>2
  <2>4. IsValue(d, n + 1, g)
    BY <2>3 DEF IsValue
  <2> QED
    BY <2>4
<1> HIDE DEF T
<1>3. k \in T
  BY <1>1, <1>2, SetInduction
<1> QED
  BY <1>3 DEF T

LEMMA ValueIs ==
  ASSUME NEW d \in Seq(Nat)
  PROVE  \E f : IsValue(d, Len(d), f) /\ S!NumberOf(d) = f[Len(d)]
<1> DEFINE f == CHOOSE f : IsValue(d, Len(d), f)
<1>1. S!NumberOf(d) = f[Len(d)]
  BY DEF S!NumberOf, IsValue
<1>2. Len(d) \in Nat
  OBVIOUS
<1>3. IsValue(d, Len(d), f)
  BY <1>2, ValueExists
<1> QED
  BY <1>1, <1>3

LEMMA ValuesAgree ==
  ASSUME NEW d, NEW e, NEW k \in Nat, NEW f, NEW g,
         \A i \in 1 .. k : d[i] = e[i], IsValue(d, k, f), IsValue(e, k + 1, g)
  PROVE  f[k] = g[k]
<1> DEFINE T == {i \in Nat : i <= k => f[i] = g[i]}
<1>1. \A i \in 0 .. k : f[i] = IF i = 0 THEN 0 ELSE f[i - 1] * Radix + d[i]
  BY DEF IsValue
<1>2. \A i \in 0 .. k : g[i] = IF i = 0 THEN 0 ELSE g[i - 1] * Radix + e[i]
  BY DEF IsValue
<1>3. 0 \in T
  BY <1>1, <1>2
<1>4. ASSUME NEW i \in Nat, i \in T PROVE i + 1 \in T
  <2> SUFFICES ASSUME i + 1 <= k PROVE f[i + 1] = g[i + 1]
    OBVIOUS
  <2>1. /\ i + 1 \in 0 .. k /\ i + 1 # 0 /\ (i + 1) - 1 = i /\ f[i] = g[i]
        /\ d[i + 1] = e[i + 1]
    BY <1>4
  <2>2. /\ f[i + 1] = f[(i + 1) - 1] * Radix + d[i + 1]
        /\ g[i + 1] = g[(i + 1) - 1] * Radix + e[i + 1]
    BY <1>1, <1>2, <2>1
  <2> QED
    BY <2>1, <2>2
<1> HIDE DEF T
<1>5. k \in T
  BY <1>3, <1>4, SetInduction
<1> QED
  BY <1>5 DEF T

LEMMA NumberOfAppend ==
  ASSUME NEW d \in Seq(Nat), NEW a \in Nat
  PROVE  S!NumberOf(Append(d, a)) = S!NumberOf(d) * Radix + a
<1> DEFINE ds == Append(d, a)
<1>1. PICK k \in Nat : k = Len(d)
  OBVIOUS
<1>2. PICK e : e = ds
  OBVIOUS
<1>3. e \in Seq(Nat) /\ Len(e) = k + 1 /\ e[k + 1] = a /\ \A i \in 1 .. k : d[i] = e[i]
  BY <1>1, <1>2
<1>a. PICK f : IsValue(d, k, f) /\ S!NumberOf(d) = f[k]
  BY <1>1, ValueIs
<1>b. PICK g : IsValue(e, k + 1, g) /\ S!NumberOf(e) = g[k + 1]
  BY <1>3, ValueIs
<1>4. f[k] = g[k]
  <2>1. IsValue(d, k, f) /\ IsValue(e, k + 1, g) /\ k \in Nat
    BY <1>a, <1>b
  <2>2. \A i \in 1 .. k : d[i] = e[i]
    BY <1>3
  <2> QED
    BY <2>1, <2>2, ValuesAgree, SMT
<1>5. g[k + 1] = g[k] * Radix + e[k + 1]
  <2>1. k + 1 \in 0 .. k + 1 /\ k + 1 # 0 /\ (k + 1) - 1 = k
    OBVIOUS
  <2> QED
    BY <1>b, <2>1 DEF IsValue
<1> QED
  BY <1>2, <1>3, <1>a, <1>b, <1>4, <1>5

LEMMA NumberOfOne ==
  ASSUME NEW a \in Nat
  PROVE  S!NumberOf(<<a>>) = a
<1>1. <<a>> \in Seq(Nat) /\ Len(<<a>>) = 1
  OBVIOUS
<1>2. PICK f : IsValue(<<a>>, 1, f) /\ S!NumberOf(<<a>>) = f[1]
  BY <1>1, ValueIs
<1>3. f[0] = 0 /\ f[1] = f[0] * Radix + <<a>>[1]
  BY <1>2 DEF IsValue
<1>4. 0 * Radix = 0
  BY SerialNumbers
<1> QED
  BY <1>2, <1>3, <1>4

(* What HexDigits returns: digits, with no zero in front, that stand for   *)
(* its argument.                                                           *)
ReadsAs(d, n) ==
  /\ d \in Seq(S!Digits) /\ Len(d) >= 1
  /\ n > 0 => d[1] # 0
  /\ Len(d) > 1 => n > 0
  /\ S!NumberOf(d) = n

LEMMA DigitsReadAs ==
  ASSUME NEW n \in Nat
  PROVE  ReadsAs(S!HexDigits(n), n)
<1> DEFINE T == {m \in Nat : ReadsAs(S!HexDigits(m), m)}
<1>1. ASSUME NEW m \in Nat, \A i \in 0 .. m - 1 : i \in T PROVE m \in T
  <2>r. Radix \in Nat
    BY SerialNumbers
  <2>1. CASE m < Radix
    <3>1. S!HexDigits(m) = <<m>>
      BY <2>1, HexOf
    <3>2. m \in S!Digits
      BY <2>r, <2>1 DEF S!Digits
    <3>3. S!NumberOf(<<m>>) = m
      BY NumberOfOne
    <3>4. <<m>> \in Seq(S!Digits) /\ Len(<<m>>) = 1 /\ <<m>>[1] = m
      BY <3>2
    <3>5. ReadsAs(<<m>>, m)
      BY <3>3, <3>4 DEF ReadsAs
    <3> QED
      BY <3>1, <3>5
  <2>2. CASE m >= Radix
    <3> DEFINE q == m \div Radix
               r == m % Radix
               d == S!HexDigits(q)
    <3>1. /\ q \in Nat /\ r \in S!Digits /\ m = q * Radix + r /\ q < m /\ q > 0
      BY <2>2, Quotient
    <3>2. S!HexDigits(m) = Append(d, r)
      BY <2>2, HexOf
    <3> HIDE DEF q, r
    <3>3. ReadsAs(d, q)
      BY <1>1, <3>1
    <3> HIDE DEF d
    <3>4. d \in Seq(S!Digits) /\ Len(d) >= 1 /\ d[1] # 0 /\ S!NumberOf(d) = q
      BY <3>1, <3>3 DEF ReadsAs
    <3>5. d \in Seq(Nat) /\ r \in Nat
      BY <2>r, <3>1, <3>4 DEF S!Digits
    <3>6. S!NumberOf(Append(d, r)) = m
      BY <3>1, <3>4, <3>5, NumberOfAppend
    <3>7. /\ Append(d, r) \in Seq(S!Digits) /\ Len(Append(d, r)) = Len(d) + 1
          /\ Append(d, r)[1] = d[1]
      BY <3>1, <3>4
    <3>8. ReadsAs(Append(d, r), m)
      BY <3>1, <3>4, <3>6, <3>7 DEF ReadsAs
    <3> QED
      BY <3>2, <3>8
  <2> QED
    BY <2>r, <2>1, <2>2
<1> HIDE DEF T
<1>2. n \in T
  BY <1>1, StrongInduction
<1> QED
  BY <1>2 DEF T

(* Of a number below Power(k + 1) there are at most k + 1 digits.          *)
LEMMA DigitsFit ==
  ASSUME NEW n \in Nums
  PROVE  Len(S!HexDigits(n)) + 2 <= Size
<1> DEFINE T == {k \in Nat : \A m \in Nat : m < S!Power(k + 1) => Len(S!HexDigits(m)) <= k + 1}
<1>r. Radix \in Nat
  BY SerialNumbers
<1>1. ASSUME NEW m \in Nat, m < Radix PROVE Len(S!HexDigits(m)) = 1
  BY <1>1, HexOf
<1>2. 0 \in T
  <2>1. S!Power(0 + 1) = Radix
    BY <1>r, NextPower
  <2> QED
    BY <2>1, <1>1
<1>3. ASSUME NEW k \in Nat, k \in T PROVE k + 1 \in T
  <2> SUFFICES ASSUME NEW m \in Nat, m < S!Power((k + 1) + 1)
               PROVE  Len(S!HexDigits(m)) <= (k + 1) + 1
    OBVIOUS
  <2>1. CASE m < Radix
    <3>1. Len(S!HexDigits(m)) = 1
      BY <2>1, <1>1
    <3> QED
      BY <3>1
  <2>2. CASE m >= Radix
    <3> DEFINE q == m \div Radix
               r == m % Radix
               e == S!Power(k + 1)
               d == S!HexDigits(q)
    <3>1. q \in Nat /\ r \in S!Digits /\ m = q * Radix + r
      BY Quotient
    <3>2. S!HexDigits(m) = Append(d, r)
      BY <2>2, HexOf
    <3>3. e \in Nat /\ S!Power((k + 1) + 1) = Radix * e
      BY NextPower, PowerType
    <3> HIDE DEF q, r, e
    <3>4. q < e
      <4> SUFFICES ASSUME e <= q PROVE FALSE
        BY <3>1, <3>3
      <4>1. Radix * e <= Radix * q
        BY <1>r, <3>1, <3>3, ProductMonotone
      <4>2. Radix * q = q * Radix
        BY <1>r, <3>1
      <4>3. q * Radix <= m /\ Radix * e \in Nat /\ q * Radix \in Nat
        <5>1. Radix * e \in Nat /\ q * Radix \in Nat
          BY <1>r, <3>1, <3>3, ProductOfNats
        <5> QED
          BY <5>1, <3>1, <1>r DEF S!Digits
      <4> QED
        BY <3>3, <4>1, <4>2, <4>3
    <3>5. Len(d) <= k + 1
      BY <1>3, <3>1, <3>4 DEF e
    <3>6. d \in Seq(S!Digits)
      BY <3>1, DigitsReadAs DEF ReadsAs
    <3> HIDE DEF d
    <3>7. Len(Append(d, r)) = Len(d) + 1 /\ Len(d) \in Nat
      BY <3>1, <3>6
    <3> QED
      BY <3>2, <3>5, <3>7
  <2> QED
    BY <1>r, <2>1, <2>2
<1> HIDE DEF T
<1>4. Size - 3 \in T
  <2>1. Nat \subseteq T
    BY <1>2, <1>3, SetInduction
  <2>2. Size - 3 \in Nat
    BY SerialNumbers
  <2> QED
    BY <2>1, <2>2
<1>5. n \in Nat /\ n < S!Power((Size - 3) + 1)
  BY SerialNumbers
<1>6. Len(S!HexDigits(n)) <= (Size - 3) + 1
  BY <1>4, <1>5 DEF T
<1>7. Len(S!HexDigits(n)) \in Nat
  BY <1>5, DigitsReadAs DEF ReadsAs
<1> QED
  BY <1>6, <1>7, SerialNumbers

-----------------------------------------------------------------------------
(* Sequences: a first element moved from one to the end of another, and    *)
(* what is between a prefix and a last element.                            *)
LEMMA HeadThenTail ==
  ASSUME NEW T, NEW b \in Seq(T), b # <<>>
  PROVE  /\ Head(b) \in T /\ Tail(b) \in Seq(T) /\ Len(Tail(b)) = Len(b) - 1
         /\ <<Head(b)>> \o Tail(b) = b
<1>1. /\ Head(b) \in T /\ Tail(b) \in Seq(T) /\ Len(Tail(b)) = Len(b) - 1
      /\ \A i \in 1 .. Len(Tail(b)) : Tail(b)[i] = b[i + 1]
  BY HeadTailProperties
<1> DEFINE h == <<Head(b)>>
           t == Tail(b)
<1>2. h \in Seq(T) /\ Len(h) = 1 /\ h[1] = b[1]
  BY <1>1
<1>3. /\ h \o t \in Seq(T) /\ Len(h \o t) = Len(h) + Len(t)
      /\ \A i \in 1 .. Len(h) + Len(t) :
           (h \o t)[i] = IF i <= Len(h) THEN h[i] ELSE t[i - Len(h)]
  BY <1>1, <1>2, ConcatProperties
<1>4. Len(b) \in Nat /\ Len(h \o t) = Len(b)
  BY <1>1, <1>2, <1>3
<1>5. ASSUME NEW i \in 1 .. Len(b) PROVE (h \o t)[i] = b[i]
  <2>1. CASE i = 1
    BY <1>1, <1>2, <1>3, <1>4, <2>1
  <2>2. CASE i > 1
    <3>1. (h \o t)[i] = t[i - 1] /\ i - 1 \in 1 .. Len(t) /\ (i - 1) + 1 = i
      BY <1>1, <1>2, <1>3, <1>4, <2>2
    <3> QED
      BY <1>1, <3>1
  <2> QED
    BY <2>1, <2>2
<1>6. h \o t = b
  BY <1>3, <1>4, <1>5, SeqEqual
<1> QED
  BY <1>1, <1>6

LEMMA MoveFirst ==
  ASSUME NEW T, NEW a \in Seq(T), NEW b \in Seq(T), b # <<>>
  PROVE  Append(a, Head(b)) \o Tail(b) = a \o b
<1> DEFINE h == Head(b)
           t == Tail(b)
<1>1. h \in T /\ t \in Seq(T) /\ <<h>> \o t = b
  BY HeadThenTail
<1> HIDE DEF h, t
<1>2. Append(a, h) = a \o <<h>> /\ <<h>> \in Seq(T)
  BY <1>1, AppendIsConcat
<1>3. (a \o <<h>>) \o t = a \o (<<h>> \o t)
  BY <1>1, <1>2, ConcatAssociative
<1>4. Append(a, h) \o t = a \o b
  BY <1>1, <1>2, <1>3
<1> QED
  BY <1>4 DEF h, t

LEMMA AppendToSecond ==
  ASSUME NEW T, NEW a \in Seq(T), NEW b \in Seq(T), NEW c \in T
  PROVE  Append(a \o b, c) = a \o Append(b, c)
<1>1. <<c>> \in Seq(T) /\ a \o b \in Seq(T)
  BY ConcatProperties
<1>2. Append(a \o b, c) = (a \o b) \o <<c>> /\ Append(b, c) = b \o <<c>>
  BY <1>1, AppendIsConcat
<1> QED
  BY <1>1, <1>2, ConcatAssociative

LEMMA Between ==
  ASSUME NEW T, NEW a \in Seq(T), NEW b \in Seq(T), NEW c \in T
  PROVE  LET s == a \o b \o <<c>> IN SubSeq(s, Len(a) + 1, Len(s) - 1) = b
<1> DEFINE ab == a \o b
           s == ab \o <<c>>
           m == Len(a) + 1
           n == Len(s) - 1
<1>1. /\ ab \in Seq(T) /\ Len(ab) = Len(a) + Len(b)
      /\ \A i \in 1 .. Len(a) + Len(b) : ab[i] = IF i <= Len(a) THEN a[i] ELSE b[i - Len(a)]
  BY ConcatProperties
<1>2. <<c>> \in Seq(T) /\ Len(<<c>>) = 1 /\ Len(a) \in Nat /\ Len(b) \in Nat
  OBVIOUS
<1> HIDE DEF ab
<1>3. /\ s \in Seq(T) /\ Len(s) = Len(ab) + 1
      /\ \A i \in 1 .. Len(ab) : s[i] = ab[i]
  <2>1. PICK end \in Seq(T) : end = <<c>> /\ Len(end) = 1
    BY <1>2
  <2>2. s = ab \o end
    BY <2>1
  <2>3. /\ ab \o end \in Seq(T) /\ Len(ab \o end) = Len(ab) + Len(end)
        /\ \A i \in 1 .. Len(ab) + Len(end) :
             (ab \o end)[i] = IF i <= Len(ab) THEN ab[i] ELSE end[i - Len(ab)]
    <3>1. \A u, v \in Seq(T) :
            /\ u \o v \in Seq(T) /\ Len(u \o v) = Len(u) + Len(v)
            /\ \A i \in 1 .. Len(u) + Len(v) :
                 (u \o v)[i] = IF i <= Len(u) THEN u[i] ELSE v[i - Len(u)]
      BY ConcatProperties
    <3>2. ab \in Seq(T) /\ end \in Seq(T)
      BY <1>1, <2>1
    <3> QED
      BY <3>1, <3>2
  <2>4. Len(ab) \in Nat
    BY <1>1, <1>2
  <2> QED
    BY <2>1, <2>2, <2>3, <2>4
<1> HIDE DEF s
<1>4. m \in Int /\ n \in Int /\ n = Len(a) + Len(b) /\ n - m + 1 = Len(b)
  BY <1>1, <1>2, <1>3
<1>5. \A i \in m .. n : s[i] \in T
  BY <1>2, <1>3, <1>4, ElementOfSeq
<1>6. /\ SubSeq(s, m, n) \in Seq(T)
      /\ Len(SubSeq(s, m, n)) = IF m <= n THEN n - m + 1 ELSE 0
      /\ \A i \in 1 .. n - m + 1 : SubSeq(s, m, n)[i] = s[m + i - 1]
  BY <1>4, <1>5, SubSeqProperties
<1>7. Len(SubSeq(s, m, n)) = Len(b)
  BY <1>2, <1>4, <1>6
<1>8. ASSUME NEW i \in 1 .. Len(b) PROVE SubSeq(s, m, n)[i] = b[i]
  <2>1. m + i - 1 = Len(a) + i /\ (Len(a) + i) - Len(a) = i /\ Len(a) + i > Len(a)
        /\ Len(a) + i \in 1 .. Len(a) + Len(b)
    BY <1>2
  <2>2. SubSeq(s, m, n)[i] = s[Len(a) + i]
    BY <1>4, <1>6, <2>1
  <2>3. s[Len(a) + i] = ab[Len(a) + i]
    BY <1>1, <1>2, <1>3, <2>1
  <2>4. ab[Len(a) + i] = b[i]
    BY <1>1, <1>2, <2>1
  <2> QED
    BY <2>2, <2>3, <2>4
<1>9. SubSeq(s, m, n) = b
  BY <1>6, <1>7, <1>8, SeqEqual
<1> QED
  BY <1>9 DEF s, ab

-----------------------------------------------------------------------------
(* The serial port's steps.                                                *)
LEMMA CharSets ==
  /\ S!Digits \subseteq S!Chars /\ S!Garbage \in S!Chars /\ S!NewLine \in S!Chars
  /\ Label \in Seq(S!Chars)
<1>1. /\ S!Digits \subseteq S!Chars /\ S!Garbage \in S!Chars /\ S!NewLine \in S!Chars
      /\ S!Range(Label) \subseteq S!Chars
  BY DEF S!Chars
<1>2. /\ Label \in [1 .. Len(Label) -> Nat] /\ Len(Label) \in Nat
      /\ DOMAIN Label = 1 .. Len(Label)
  BY SerialNumbers, LenProperties
<1>3. Label \in [1 .. Len(Label) -> S!Range(Label)]
  BY <1>2 DEF S!Range
<1>4. Label \in Seq(S!Range(Label))
  BY <1>2, <1>3, SeqDef
<1> QED
  BY <1>1, <1>4, SeqMonotonic

LEMMA PrintedIs ==
  ASSUME NEW n \in Nums
  PROVE  Printed(n) \in Seq(S!Chars) /\ Printed(n) # <<>>
<1>1. S!HexDigits(n) \in Seq(S!Chars)
  BY SerialNumbers, DigitsReadAs, CharSets, SeqMonotonic DEF ReadsAs
<1> DEFINE d == S!HexDigits(n)
<1> HIDE DEF d
<1>2. Label \o d \in Seq(S!Chars) /\ <<S!NewLine>> \in Seq(S!Chars)
  BY <1>1, CharSets, ConcatProperties DEF d
<1>3. /\ Label \o d \o <<S!NewLine>> \in Seq(S!Chars)
      /\ Len(Label \o d \o <<S!NewLine>>) = Len(Label \o d) + Len(<<S!NewLine>>)
  BY <1>2, ConcatProperties
<1>4. Label \o d \o <<S!NewLine>> # <<>>
  BY <1>2, <1>3
<1> QED
  BY <1>3, <1>4 DEF Printed, d

(* The type of the serial port's state, a component at a time.             *)
LEMMA SerialTypes ==
  S!TypeOK <=>
    /\ serialPc \in {"off", "reset", "idle", "full", "write", "read"}
    /\ uartTx \in Seq(S!Chars) /\ Len(uartTx) <= UartDepth
    /\ uartRx \in Seq(S!Chars) /\ Len(uartRx) <= UartDepth
    /\ uartShift = <<>> \/ \E ch \in S!Chars : uartShift = <<ch>>
    /\ uartOld \in BOOLEAN /\ (uartShift = <<>> => ~uartOld)
    /\ rest \in Seq(S!Chars) /\ said \in Seq(S!Chars) /\ owed \in Seq(S!Chars)
    /\ serialPc \in {"full", "write"} <=> rest # <<>>
    /\ num \in Nums \cup {S!None} /\ result \in S!Digits \cup {S!None}
BY DEF S!TypeOK

LEMMA SerialTypesNext ==
  S!TypeOK' <=>
    /\ serialPc' \in {"off", "reset", "idle", "full", "write", "read"}
    /\ uartTx' \in Seq(S!Chars) /\ Len(uartTx') <= UartDepth
    /\ uartRx' \in Seq(S!Chars) /\ Len(uartRx') <= UartDepth
    /\ uartShift' = <<>> \/ \E ch \in S!Chars : uartShift' = <<ch>>
    /\ uartOld' \in BOOLEAN /\ (uartShift' = <<>> => ~uartOld')
    /\ rest' \in Seq(S!Chars) /\ said' \in Seq(S!Chars) /\ owed' \in Seq(S!Chars)
    /\ serialPc' \in {"full", "write"} <=> rest' # <<>>
    /\ num' \in Nums \cup {S!None} /\ result' \in S!Digits \cup {S!None}
BY DEF S!TypeOK

LEMMA StartShiftStep ==
  ASSUME SerialInv, S!StartShift
  PROVE  SerialInv'
<1>1. /\ uartTx # <<>> /\ uartShift = <<>>
      /\ uartShift' = <<Head(uartTx)>> /\ uartOld' = FALSE /\ uartTx' = Tail(uartTx)
      /\ serialPc' = serialPc /\ uartRx' = uartRx /\ rest' = rest /\ num' = num
      /\ result' = result /\ owed' = owed /\ said' = said
  BY DEF S!StartShift
<1>2. S!TypeOK
  BY DEF SerialInv
<1>3. uartTx \in Seq(S!Chars) /\ Len(uartTx) <= UartDepth /\ UartDepth \in Nat /\ ~uartOld
  BY <1>1, <1>2, SerialTypes, SerialNumbers
<1>4. /\ Head(uartTx) \in S!Chars /\ Tail(uartTx) \in Seq(S!Chars)
      /\ Len(Tail(uartTx)) = Len(uartTx) - 1
      /\ <<Head(uartTx)>> \o Tail(uartTx) = uartTx
  BY <1>1, <1>3, HeadThenTail
<1>5. Len(uartTx') < UartDepth
  BY <1>1, <1>3, <1>4
<1>a. uartTx' \in Seq(S!Chars) /\ Len(uartTx') <= UartDepth
  BY <1>1, <1>3, <1>4
<1>b. uartShift' # <<>> /\ \E ch \in S!Chars : uartShift' = <<ch>>
  BY <1>1, <1>4
<1>c. uartOld' = FALSE
  BY <1>1
<1>6. S!TypeOK'
  BY <1>1, <1>2, <1>a, <1>b, <1>c, SerialTypes, SerialTypesNext
<1>7. serialPc' \notin {"off", "reset"} => owed' = uartShift' \o uartTx'
  <2>1. <<>> \o uartTx = uartTx
    BY <1>3, ConcatEmptySeq
  <2> QED
    BY <1>1, <1>3, <1>4, <2>1 DEF SerialInv, S!NothingLost
<1> QED
  BY <1>1, <1>5, <1>6, <1>7 DEF SerialInv, S!NothingLost, Printed

LEMMA EndShiftStep ==
  ASSUME SerialInv, S!EndShift
  PROVE  SerialInv'
<1>1. /\ uartShift # <<>> /\ uartShift' = <<>> /\ uartOld' = FALSE
      /\ owed' = IF uartOld \/ owed = <<>> THEN owed ELSE Tail(owed)
      /\ serialPc' = serialPc /\ uartTx' = uartTx /\ uartRx' = uartRx /\ rest' = rest
      /\ num' = num /\ result' = result /\ said' = said
  BY DEF S!EndShift
<1>2. S!TypeOK
  BY DEF SerialInv
<1>3. /\ uartTx \in Seq(S!Chars) /\ owed \in Seq(S!Chars) /\ uartOld \in BOOLEAN
      /\ \E ch \in S!Chars : uartShift = <<ch>>
  BY <1>1, <1>2, SerialTypes
<1>4. <<>> \o uartTx = uartTx
  BY <1>3, ConcatEmptySeq
<1>5. serialPc \in {"off", "reset"} => owed' = <<>>
  BY <1>1 DEF SerialInv
<1>6. serialPc \notin {"off", "reset"} => owed' = uartTx
  <2> SUFFICES ASSUME serialPc \notin {"off", "reset"} PROVE owed' = uartTx
    OBVIOUS
  <2>1. owed = (IF uartOld THEN <<>> ELSE uartShift) \o uartTx
    BY DEF SerialInv, S!NothingLost
  <2>2. CASE uartOld
    BY <1>1, <1>4, <2>1, <2>2
  <2>3. CASE ~uartOld
    <3>1. PICK ch \in S!Chars : uartShift = <<ch>>
      BY <1>3
    <3>2. owed = <<ch>> \o uartTx
      BY <2>1, <2>3, <3>1
    <3>3. owed # <<>> /\ Tail(owed) = uartTx
      <4>1. <<ch>> \in Seq(S!Chars) /\ Len(<<ch>>) = 1 /\ <<ch>>[1] = ch
        OBVIOUS
      <4>2. /\ Len(owed) = 1 + Len(uartTx) /\ Len(uartTx) \in Nat
            /\ \A i \in 1 .. 1 + Len(uartTx) :
                 owed[i] = IF i <= 1 THEN <<ch>>[i] ELSE uartTx[i - 1]
        BY <1>3, <3>2, <4>1, ConcatProperties
      <4>3. owed # <<>>
        BY <1>3, <4>2
      <4>4. /\ Tail(owed) \in Seq(S!Chars) /\ Len(Tail(owed)) = Len(uartTx)
            /\ \A i \in 1 .. Len(Tail(owed)) : Tail(owed)[i] = owed[i + 1]
        BY <1>3, <4>2, <4>3, HeadTailProperties
      <4>5. \A i \in 1 .. Len(uartTx) : Tail(owed)[i] = uartTx[i]
        BY <4>2, <4>4
      <4> QED
        BY <1>3, <4>3, <4>4, <4>5, SeqEqual
    <3> QED
      BY <1>1, <2>3, <3>3
  <2> QED
    BY <1>3, <2>2, <2>3
<1>7. owed' \in Seq(S!Chars)
  <2>1. <<>> \in Seq(S!Chars)
    OBVIOUS
  <2> QED
    BY <1>3, <1>5, <1>6, <2>1
<1>8. S!TypeOK'
  BY <1>1, <1>2, <1>7, SerialTypes, SerialTypesNext
<1> QED
  BY <1>1, <1>4, <1>5, <1>6, <1>8 DEF SerialInv, S!NothingLost, Printed

LEMMA ArriveStep ==
  ASSUME SerialInv, S!Arrive
  PROVE  SerialInv'
<1>1. PICK ch \in S!Digits : uartRx' = IF Len(uartRx) < UartDepth THEN Append(uartRx, ch) ELSE uartRx
  BY DEF S!Arrive
<1>2. /\ serialPc' = serialPc /\ uartTx' = uartTx /\ uartShift' = uartShift
      /\ uartOld' = uartOld /\ rest' = rest /\ num' = num /\ result' = result
      /\ owed' = owed /\ said' = said
  BY DEF S!Arrive
<1>3. S!TypeOK /\ uartRx \in Seq(S!Digits)
  BY DEF SerialInv
<1>4. /\ uartRx' \in Seq(S!Digits) /\ Len(uartRx') <= UartDepth
      /\ uartRx # <<>> => uartRx' # <<>>
  <2>1. Len(uartRx) <= UartDepth /\ UartDepth \in Nat
    BY <1>3, SerialNumbers, SerialTypes
  <2>2. /\ Append(uartRx, ch) \in Seq(S!Digits) /\ Append(uartRx, ch) # <<>>
        /\ Len(Append(uartRx, ch)) = Len(uartRx) + 1 /\ Len(uartRx) \in Nat
    BY <1>3, AppendProperties
  <2> QED
    BY <1>1, <1>3, <2>1, <2>2
<1>5. uartRx' \in Seq(S!Chars)
  BY <1>4, CharSets, SeqMonotonic
<1>6. S!TypeOK'
  BY <1>2, <1>3, <1>4, <1>5, SerialTypes, SerialTypesNext
<1> QED
  BY <1>2, <1>4, <1>6 DEF SerialInv, S!NothingLost, Printed

LEMMA InitWritesStep ==
  ASSUME SerialInv, S!InitWrites
  PROVE  SerialInv'
<1>1. /\ serialPc = "off" /\ serialPc' = "reset"
      /\ uartTx' = IF Len(uartTx) < UartDepth THEN Append(uartTx, S!Garbage) ELSE uartTx
      /\ uartShift' = uartShift /\ uartOld' = uartOld /\ uartRx' = uartRx /\ rest' = rest
      /\ num' = num /\ result' = result /\ owed' = owed /\ said' = said
  BY DEF S!InitWrites, S!Put
<1>2. S!TypeOK
  BY DEF SerialInv
<1>3. uartTx' \in Seq(S!Chars) /\ Len(uartTx') <= UartDepth
  <2>1. uartTx \in Seq(S!Chars) /\ Len(uartTx) <= UartDepth /\ UartDepth \in Nat
    BY <1>2, SerialNumbers, SerialTypes
  <2>2. /\ Append(uartTx, S!Garbage) \in Seq(S!Chars)
        /\ Len(Append(uartTx, S!Garbage)) = Len(uartTx) + 1 /\ Len(uartTx) \in Nat
    BY <2>1, CharSets, AppendProperties
  <2> QED
    BY <1>1, <2>1, <2>2
<1>4. S!TypeOK'
  BY <1>1, <1>2, <1>3, SerialTypes, SerialTypesNext
<1> QED
  BY <1>1, <1>4 DEF SerialInv, S!NothingLost

LEMMA InitResetsStep ==
  ASSUME SerialInv, S!InitResets
  PROVE  SerialInv'
<1>1. /\ serialPc = "reset" /\ serialPc' = "idle" /\ uartTx' = <<>> /\ uartRx' = <<>>
      /\ uartShift' \in {uartShift, <<>>} /\ uartOld' = (uartShift' # <<>>)
      /\ rest' = rest /\ num' = num /\ result' = result /\ owed' = owed /\ said' = said
  BY DEF S!InitResets
<1>2. S!TypeOK /\ owed = <<>> /\ said = <<>>
  BY <1>1 DEF SerialInv
<1>3. /\ uartTx' \in Seq(S!Chars) /\ Len(uartTx') <= UartDepth
      /\ uartRx' \in Seq(S!Chars) /\ Len(uartRx') <= UartDepth
      /\ uartRx' \in Seq(S!Digits)
  <2>1. <<>> \in Seq(S!Chars) /\ <<>> \in Seq(S!Digits) /\ Len(<<>>) = 0
    OBVIOUS
  <2> QED
    BY <1>1, <2>1, SerialNumbers
<1>4. S!TypeOK'
  <2>1. uartShift' = <<>> \/ \E ch \in S!Chars : uartShift' = <<ch>>
    BY <1>1, <1>2, SerialTypes
  <2>2. uartOld' \in BOOLEAN /\ (uartShift' = <<>> => ~uartOld')
    BY <1>1
  <2> QED
    BY <1>1, <1>2, <1>3, <2>1, <2>2, SerialTypes, SerialTypesNext
<1>5. owed' = (IF uartOld' THEN <<>> ELSE uartShift') \o uartTx'
  <2>1. <<>> \o <<>> = <<>>
    OBVIOUS
  <2>2. (IF uartOld' THEN <<>> ELSE uartShift') = <<>>
    BY <1>1
  <2> QED
    BY <1>1, <1>2, <2>1, <2>2
<1> QED
  BY <1>1, <1>2, <1>3, <1>4, <1>5 DEF SerialInv, S!NothingLost

LEMMA PutstrHexStep ==
  ASSUME SerialInv, NEW n \in Nums, S!PutstrHex(n)
  PROVE  SerialInv'
<1>1. /\ serialPc = "idle" /\ serialPc' = "full" /\ num' = n /\ said' = <<>>
      /\ rest' = Printed(n)
      /\ uartTx' = uartTx /\ uartShift' = uartShift /\ uartOld' = uartOld
      /\ uartRx' = uartRx /\ result' = result /\ owed' = owed
  BY DEF S!PutstrHex, S!uart, Printed
<1>2. S!TypeOK
  BY DEF SerialInv
<1>3. Printed(n) \in Seq(S!Chars) /\ Printed(n) # <<>> /\ <<>> \in Seq(S!Chars)
  BY PrintedIs
<1>4. S!TypeOK'
  BY <1>1, <1>2, <1>3, SerialTypes, SerialTypesNext
<1>5. num' \in Nums /\ said' \o rest' = Printed(num')
  <2>1. <<>> \o Printed(n) = Printed(n)
    BY <1>3, ConcatEmptySeq
  <2>2. Printed(num') = Printed(n)
    BY <1>1
  <2> QED
    BY <1>1, <2>1, <2>2
<1>6. S!NothingLost'
  BY <1>1 DEF SerialInv, S!NothingLost
<1>7. uartRx' \in Seq(S!Digits)
  BY <1>1 DEF SerialInv
<1> QED
  BY <1>1, <1>4, <1>5, <1>6, <1>7 DEF SerialInv

LEMMA WaitTxFullStep ==
  ASSUME SerialInv, S!WaitTxFull
  PROVE  SerialInv'
<1>1. /\ serialPc = "full" /\ serialPc' = "write" /\ Len(uartTx) # UartDepth
      /\ uartTx' = uartTx /\ uartShift' = uartShift /\ uartOld' = uartOld /\ uartRx' = uartRx
      /\ rest' = rest /\ num' = num /\ result' = result /\ owed' = owed /\ said' = said
  BY DEF S!WaitTxFull, S!TxFull, S!uart
<1>2. S!TypeOK
  BY DEF SerialInv
<1>3. Len(uartTx') < UartDepth
  <2>1. uartTx \in Seq(S!Chars) /\ Len(uartTx) <= UartDepth /\ UartDepth \in Nat
    BY <1>2, SerialNumbers, SerialTypes
  <2> QED
    BY <1>1, <2>1
<1>4. S!TypeOK'
  BY <1>1, <1>2, SerialTypes, SerialTypesNext
<1>5. Printed(num') = Printed(num)
  BY <1>1
<1> QED
  BY <1>1, <1>3, <1>4, <1>5 DEF SerialInv, S!NothingLost

LEMMA WriteTxStep ==
  ASSUME SerialInv, S!WriteTx
  PROVE  SerialInv'
<1> DEFINE h == Head(rest)
           t == Tail(rest)
<1>1. /\ serialPc = "write" /\ serialPc' = IF t = <<>> THEN "idle" ELSE "full"
      /\ uartTx' = IF Len(uartTx) < UartDepth THEN Append(uartTx, h) ELSE uartTx
      /\ owed' = Append(owed, h) /\ said' = Append(said, h) /\ rest' = t
      /\ uartShift' = uartShift /\ uartOld' = uartOld /\ uartRx' = uartRx
      /\ num' = num /\ result' = result
  BY DEF S!WriteTx, S!Put
<1>2. S!TypeOK /\ Len(uartTx) < UartDepth
  BY <1>1 DEF SerialInv
<1>3. /\ uartTx \in Seq(S!Chars) /\ said \in Seq(S!Chars) /\ owed \in Seq(S!Chars)
      /\ rest \in Seq(S!Chars) /\ rest # <<>>
      /\ uartShift = <<>> \/ \E ch \in S!Chars : uartShift = <<ch>>
  BY <1>1, <1>2, SerialTypes
<1>4. h \in S!Chars /\ t \in Seq(S!Chars)
  BY <1>3, HeadThenTail
<1>5. Append(said, h) \o t = said \o rest
  BY <1>3, MoveFirst
<1> HIDE DEF h, t
<1>6. uartTx' = Append(uartTx, h) /\ uartTx' \in Seq(S!Chars) /\ Len(uartTx') <= UartDepth
  BY <1>1, <1>2, <1>3, <1>4, SerialNumbers
<1>7. /\ Append(owed, h) \in Seq(S!Chars) /\ Append(said, h) \in Seq(S!Chars)
      /\ Append(said, h) # <<>>
  BY <1>3, <1>4, AppendProperties
<1>8. S!TypeOK'
  BY <1>1, <1>2, <1>4, <1>6, <1>7, SerialTypes, SerialTypesNext
<1>9. num' \in Nums /\ said' \o rest' = Printed(num')
  <2>1. num \in Nums /\ said \o rest = Printed(num)
    BY <1>1 DEF SerialInv
  <2>2. Printed(num') = Printed(num)
    BY <1>1
  <2> QED
    BY <1>1, <1>5, <2>1, <2>2
<1>a. t = <<>> => said' = Printed(num')
  BY <1>1, <1>7, <1>9, ConcatEmptySeq
<1>b. owed' = (IF uartOld' THEN <<>> ELSE uartShift') \o uartTx'
  <2>1. PICK sent : sent = IF uartOld THEN <<>> ELSE uartShift
    OBVIOUS
  <2>2. owed = sent \o uartTx
    BY <1>1, <2>1 DEF SerialInv, S!NothingLost
  <2>3. sent \in Seq(S!Chars)
    <3>1. CASE sent = <<>>
      BY <3>1
    <3>2. CASE \E ch \in S!Chars : sent = <<ch>>
      BY <3>2
    <3> QED
      BY <1>3, <2>1, <3>1, <3>2
  <2>4. Append(sent \o uartTx, h) = sent \o Append(uartTx, h)
    <3>1. uartTx \in Seq(S!Chars)
      BY <1>3
    <3>2. PICK ch \in S!Chars : ch = h
      BY <1>4
    <3>3. \A a, b \in Seq(S!Chars) : \A c \in S!Chars : Append(a \o b, c) = a \o Append(b, c)
      BY AppendToSecond
    <3>4. \A b \in Seq(S!Chars) : \A c \in S!Chars : Append(sent \o b, c) = sent \o Append(b, c)
      BY <3>3, <2>3
    <3> QED
      BY <3>1, <3>2, <3>4
  <2>5. sent = IF uartOld' THEN <<>> ELSE uartShift'
    BY <1>1, <2>1
  <2> QED
    BY <1>1, <1>6, <2>2, <2>4, <2>5
<1>c. uartRx' \in Seq(S!Digits)
  BY <1>1 DEF SerialInv
<1> QED
  BY <1>1, <1>8, <1>9, <1>a, <1>b, <1>c DEF SerialInv, S!NothingLost

LEMMA GetCharStep ==
  ASSUME SerialInv, S!GetChar
  PROVE  SerialInv'
<1>1. /\ serialPc = "idle"
      /\ \/ uartRx # <<>> /\ serialPc' = "read" /\ result' = result
         \/ result' = S!None /\ serialPc' = serialPc
      /\ uartTx' = uartTx /\ uartShift' = uartShift /\ uartOld' = uartOld /\ uartRx' = uartRx
      /\ rest' = rest /\ num' = num /\ owed' = owed /\ said' = said
  BY DEF S!GetChar, S!HasChar, S!uart
<1>2. S!TypeOK
  BY DEF SerialInv
<1>3. result' \in S!Digits \cup {S!None}
  BY <1>1, <1>2, SerialTypes
<1>4. S!TypeOK'
  BY <1>1, <1>2, <1>3, SerialTypes, SerialTypesNext
<1>5. Printed(num') = Printed(num)
  BY <1>1
<1> QED
  BY <1>1, <1>4, <1>5 DEF SerialInv, S!NothingLost

LEMMA ReadRxStep ==
  ASSUME SerialInv, S!ReadRx
  PROVE  SerialInv'
<1>1. /\ serialPc = "read" /\ serialPc' = "idle"
      /\ result' = IF uartRx = <<>> THEN S!Garbage ELSE Head(uartRx)
      /\ uartRx' = IF uartRx = <<>> THEN uartRx ELSE Tail(uartRx)
      /\ uartTx' = uartTx /\ uartShift' = uartShift /\ uartOld' = uartOld
      /\ rest' = rest /\ num' = num /\ owed' = owed /\ said' = said
  BY DEF S!ReadRx
<1>2. S!TypeOK /\ uartRx \in Seq(S!Digits) /\ uartRx # <<>>
  BY <1>1 DEF SerialInv
<1>3. result' \in S!Digits /\ uartRx' \in Seq(S!Digits) /\ Len(uartRx') = Len(uartRx) - 1
  BY <1>1, <1>2, HeadThenTail
<1>4. uartRx' \in Seq(S!Chars) /\ Len(uartRx') <= UartDepth
  <2>1. Len(uartRx) <= UartDepth /\ UartDepth \in Nat /\ Len(uartRx) \in Nat
    BY <1>2, SerialNumbers, SerialTypes
  <2> QED
    BY <1>3, <2>1, CharSets, SeqMonotonic
<1>5. S!TypeOK'
  BY <1>1, <1>2, <1>3, <1>4, SerialTypes, SerialTypesNext
<1>6. Printed(num') = Printed(num)
  BY <1>1
<1> QED
  BY <1>1, <1>3, <1>5, <1>6 DEF SerialInv, S!NothingLost

LEMMA RestartStep ==
  ASSUME SerialInv, S!Restart
  PROVE  SerialInv'
<1>1. /\ serialPc' = "off" /\ rest' = <<>> /\ num' = S!None /\ result' = S!None
      /\ owed' = <<>> /\ said' = <<>>
      /\ uartTx' = uartTx /\ uartShift' = uartShift /\ uartOld' = uartOld /\ uartRx' = uartRx
  BY DEF S!Restart, S!uart
<1>2. S!TypeOK
  BY DEF SerialInv
<1>3. <<>> \in Seq(S!Chars)
  OBVIOUS
<1>4. S!TypeOK'
  BY <1>1, <1>2, <1>3, SerialTypes, SerialTypesNext
<1> QED
  BY <1>1, <1>4 DEF SerialInv, S!NothingLost

LEMMA SerialStep ==
  ASSUME SerialInv, S!Next
  PROVE  SerialInv'
BY StartShiftStep, EndShiftStep, ArriveStep, InitWritesStep, InitResetsStep, PutstrHexStep,
   WaitTxFullStep, WriteTxStep, GetCharStep, ReadRxStep, RestartStep
   DEF S!Next, S!Uart, S!Driver

LEMMA SerialInit == S!Init => SerialInv
<1> SUFFICES ASSUME S!Init PROVE SerialInv
  OBVIOUS
<1>1. /\ serialPc = "off" /\ uartRx = <<>> /\ rest = <<>> /\ num = S!None /\ result = S!None
      /\ owed = <<>> /\ said = <<>>
      /\ uartShift \in {<<>>, <<S!Garbage>>} /\ uartOld = (uartShift # <<>>)
  BY DEF S!Init
<1>2. PICK n \in 0 .. UartDepth : uartTx = [k \in 1 .. n |-> S!Garbage]
  BY DEF S!Init
<1>3. uartTx \in Seq(S!Chars) /\ Len(uartTx) <= UartDepth
  <2>1. n \in Nat /\ n <= UartDepth
    BY SerialNumbers
  <2>2. uartTx \in [1 .. n -> S!Chars] /\ DOMAIN uartTx = 1 .. n
    BY <1>2, CharSets
  <2>3. uartTx \in Seq(S!Chars)
    BY <2>1, <2>2, SeqDef
  <2>4. Len(uartTx) = n
    BY <2>1, <2>2, <2>3, LenProperties
  <2> QED
    BY <2>1, <2>3, <2>4
<1>4. /\ <<>> \in Seq(S!Chars) /\ <<>> \in Seq(S!Digits) /\ Len(<<>>) = 0 /\ UartDepth \in Nat
  BY SerialNumbers
<1>5. uartShift = <<>> \/ \E ch \in S!Chars : uartShift = <<ch>>
  BY <1>1, CharSets
<1>6. uartOld \in BOOLEAN /\ (uartShift = <<>> => ~uartOld)
  BY <1>1
<1>7. S!TypeOK
  BY <1>1, <1>3, <1>4, <1>5, <1>6, SerialTypes
<1> QED
  BY <1>1, <1>4, <1>7 DEF SerialInv, S!NothingLost

(* When the call has returned, what it said is a label, the digits of its  *)
(* argument and a newline.                                                 *)
LEMMA PrintedReadsBack == SerialInv => S!NumberReadsBack
<1> SUFFICES ASSUME SerialInv, serialPc = "idle", said # <<>>
             PROVE  LET digits == SubSeq(said, Len(Label) + 1, Len(said) - 1)
                    IN /\ said = Label \o digits \o <<S!NewLine>>
                       /\ S!NumberOf(digits) = num
                       /\ Len(digits) >= 1 /\ (Len(digits) > 1 => digits[1] # 0)
                       /\ Len(digits) + 2 <= Size
  BY DEF S!NumberReadsBack
<1>1. num \in Nums /\ said = Printed(num)
  BY DEF SerialInv
<1>2. PICK d : d = S!HexDigits(num)
  OBVIOUS
<1>3. said = Label \o d \o <<S!NewLine>>
  BY <1>1, <1>2 DEF Printed
<1>4. num \in Nat
  BY <1>1, SerialNumbers
<1>5. ReadsAs(d, num) /\ Len(d) + 2 <= Size
  BY <1>1, <1>2, <1>4, DigitsReadAs, DigitsFit
<1>6. d \in Seq(S!Chars)
  BY <1>5, CharSets, SeqMonotonic DEF ReadsAs
<1>7. SubSeq(said, Len(Label) + 1, Len(said) - 1) = d
  BY <1>3, <1>6, CharSets, Between
<1> QED
  BY <1>3, <1>4, <1>5, <1>7 DEF ReadsAs

-----------------------------------------------------------------------------
(* The three together.  The steps of one leave the state of the others,    *)
(* and with it their invariants, as they are.                              *)
DevicesInv == SerialInv /\ VdpInv /\ CacheInv

LEMMA SerialAtRest == SerialInv /\ UNCHANGED serialVars => SerialInv'
<1> SUFFICES ASSUME SerialInv, UNCHANGED serialVars PROVE SerialInv'
  OBVIOUS
<1>1. /\ serialPc' = serialPc /\ uartTx' = uartTx /\ uartShift' = uartShift
      /\ uartOld' = uartOld /\ uartRx' = uartRx /\ rest' = rest /\ num' = num
      /\ result' = result /\ owed' = owed /\ said' = said
  BY DEF serialVars
<1>2. S!TypeOK'
  BY <1>1, SerialTypes, SerialTypesNext DEF SerialInv
<1>3. Printed(num') = Printed(num)
  BY <1>1
<1> QED
  BY <1>1, <1>2, <1>3 DEF SerialInv, S!NothingLost

LEMMA VdpAtRest == VdpInv /\ UNCHANGED vdpVars => VdpInv'
BY DEF vdpVars, VdpInv, V!TypeOK

LEMMA CacheAtRest == CacheInv /\ UNCHANGED cacheVars => CacheInv'
BY DEF cacheVars, CacheInv, Passed, C!TypeOK, C!RangeInMemory, C!RoundsPastTop

LEMMA DevicesStart == DevicesInit => DevicesInv
BY SerialInit, VdpInit, CacheInit DEF DevicesInit, DevicesInv

LEMMA DevicesStep == DevicesInv /\ [DevicesNext]_devices => DevicesInv'
<1> SUFFICES ASSUME DevicesInv, [DevicesNext]_devices PROVE DevicesInv'
  OBVIOUS
<1>1. CASE SerialUsed /\ S!Next
  BY <1>1, SerialStep, VdpAtRest, CacheAtRest DEF SerialUsed, DevicesInv
<1>2. CASE VdpUsed /\ V!Next
  BY <1>2, VdpStep, SerialAtRest, CacheAtRest DEF VdpUsed, DevicesInv
<1>3. CASE CacheUsed /\ C!Next
  BY <1>3, CacheStep, SerialAtRest, VdpAtRest DEF CacheUsed, DevicesInv
<1>4. CASE UNCHANGED devices
  BY <1>4, SerialAtRest, VdpAtRest, CacheAtRest DEF devices, DevicesInv
<1> QED
  BY <1>1, <1>2, <1>3, <1>4 DEF DevicesNext

LEMMA DevicesInvariance == DevicesSpec => []DevicesInv
BY DevicesStart, DevicesStep, PTL DEF DevicesSpec

(* No state of the serial port, the display or the cache is of the wrong   *)
(* type; above all, getchar never hands out what an empty FIFO gives.      *)
THEOREM DevicesTypeCorrect == DevicesSpec => []DevicesTypeOK
<1>1. DevicesInv => DevicesTypeOK
  BY DEF DevicesInv, DevicesTypeOK, SerialInv, VdpInv, CacheInv
<1> QED
  BY <1>1, DevicesInvariance, PTL

(* For every depth of the FIFO: what is written after serial_init is sent, *)
(* once and in order (serial.c:73-82).                                     *)
THEOREM NothingIsLost == DevicesSpec => []NothingLost
<1>1. DevicesInv => NothingLost
  BY DEF DevicesInv, SerialInv, NothingLost
<1> QED
  BY <1>1, DevicesInvariance, PTL

(* For every radix, label and size of outbuf: what is printed of a number  *)
(* reads as that number, and fits (serial.c:111-131).                      *)
THEOREM NumbersReadBack == DevicesSpec => []NumberReadsBack
<1>1. DevicesInv => NumberReadsBack
  BY PrintedReadsBack DEF DevicesInv, NumberReadsBack
<1> QED
  BY <1>1, DevicesInvariance, PTL

(* For every frame in which the blank outlasts two steps of the program:   *)
(* no frame shows the sprite at both its places (VDP.c:345-352).           *)
THEOREM NeverTorn == DevicesSpec => []NotTorn
<1>1. DevicesInv => NotTorn
  <2> SUFFICES ASSUME VdpInv, "moved" \in shown PROVE shown = {"moved"}
    BY DEF DevicesInv, NotTorn, V!NotTorn
  <2>1. vdpPc = "done"
    BY DEF VdpInv, V!TypeOK
  <2>2. shown \subseteq {"moved"}
    BY <2>1 DEF VdpInv
  <2> QED
    BY <2>2
<1> QED
  BY <1>1, DevicesInvariance, PTL

(* For every range that the address space holds without its last line:     *)
(* what is flushed is in memory when the call returns.                     *)
THEOREM RangesReachMemory == DevicesSpec => []RangeInMemory
<1>1. DevicesInv => RangeInMemory
  BY DEF DevicesInv, CacheInv, RangeInMemory
<1> QED
  BY <1>1, DevicesInvariance, PTL
=============================================================================
