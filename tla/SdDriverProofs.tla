--------------------------- MODULE SdDriverProofs ---------------------------
(***************************************************************************)
(* Theorems about the SD driver, for every size of the card, every length  *)
(* of a read and every set of faults.                                      *)
(***************************************************************************)
EXTENDS SdDriver, SequenceTheorems, TLAPS

-----------------------------------------------------------------------------
(* What the card may do, in the cases the proofs distinguish.              *)

(* An exchange is an answer, a refusal, or was not heard by the card.      *)
LEMMA ExchangeCases ==
  ASSUME NEW c, NEW cmd, NEW lba, NEW o \in Exchange(c, cmd, lba)
  PROVE  \/ Accepts(c, cmd) /\ o = Answer(c, cmd, lba)
         \/ /\ Accepts(c, cmd) /\ o = Refusal(c, cmd)
            /\ cmd \in {"CMD12", "CMD17", "CMD18"}
         \/ o \in Unheard(c, cmd)
BY DEF Exchange

(* Clocking out data keeps the card a card, of the same kind and power.    *)
LEMMA DrainedType ==
  ASSUME NEW c \in Cards, NEW d \in Drained(c)
  PROVE  d \in Cards /\ d.kind = c.kind /\ d.power = c.power
<1>1. CASE ~Sending(c)
  BY <1>1 DEF Drained, Sending
<1>2. CASE c.stream = "single"
  <2>1. d \in {[c EXCEPT !.mid = TRUE], [c EXCEPT !.stream = "none", !.mid = FALSE]}
    BY <1>2 DEF Drained, Sending
  <2> QED
    BY <2>1 DEF Cards
<1>3. CASE c.stream = "multi"
  <2>1. PICK at \in (c.next .. LastLba + 1) \X BOOLEAN :
               d = [c EXCEPT !.next = at[1], !.mid = at[2]]
    BY <1>3 DEF Drained, Sending
  <2>2. at[1] \in 0 .. LastLba + 1 /\ at[2] \in BOOLEAN
    BY CardAssumption DEF Cards
  <2> QED
    BY <2>1, <2>2 DEF Cards
<1> QED
  BY <1>1, <1>2, <1>3 DEF Sending

(* So does deselecting it, which opens no read.                            *)
LEMMA ReleasedType ==
  ASSUME NEW c \in Cards, NEW d \in Released(c)
  PROVE  /\ d \in Cards
         /\ d.kind = c.kind /\ d.power = c.power /\ d.app = c.app /\ d.up = c.up
         /\ c.stream = "none" => d.stream = "none"
BY DEF Released, Cards

(* Executing a command keeps the kind of the card.                         *)
LEMMA ExecutedType ==
  ASSUME NEW c \in Cards, NEW cmd \in Commands, NEW lba \in Lbas
  PROVE  Executed(c, cmd, lba) \in Cards /\ Executed(c, cmd, lba).kind = c.kind
<1> DEFINE e == Executed(c, cmd, lba)
<1>1. CASE cmd = "CMD0"
  <2>1. e = [c EXCEPT !.power = "idle", !.up = FALSE, !.app = FALSE,
                      !.stream = "none", !.mid = FALSE]
    BY <1>1 DEF Executed
  <2> QED
    BY <2>1 DEF Cards
<1>2. CASE cmd = "CMD55"
  <2>1. e = [c EXCEPT !.app = TRUE]
    BY <1>2 DEF Executed
  <2> QED
    BY <2>1 DEF Cards
<1>3. CASE cmd = "ACMD41"
  <2>1. e = [c EXCEPT !.app = FALSE,
                      !.power = IF c.app /\ c.up THEN "ready" ELSE c.power]
    BY <1>3 DEF Executed
  <2> QED
    BY <2>1 DEF Cards
<1>4. CASE cmd \in {"CMD17", "CMD18"} /\ c.power = "ready"
  <2>1. e = [c EXCEPT !.app = FALSE, !.mid = FALSE, !.next = lba,
                      !.stream = IF cmd = "CMD17" THEN "single" ELSE "multi"]
    BY <1>4 DEF Executed
  <2>2. lba \in 0 .. LastLba + 1
    BY CardAssumption DEF Lbas
  <2> QED
    BY <2>1, <2>2 DEF Cards
<1>5. CASE cmd = "CMD12"
  <2>1. e = [c EXCEPT !.app = FALSE, !.stream = "none", !.mid = FALSE]
    BY <1>5 DEF Executed
  <2> QED
    BY <2>1 DEF Cards
<1>6. CASE \/ cmd \in {"CMD8", "CMD58"}
           \/ cmd \in {"CMD17", "CMD18"} /\ c.power # "ready"
  <2>1. e = [c EXCEPT !.app = FALSE]
    BY <1>6 DEF Executed
  <2> QED
    BY <2>1 DEF Cards
<1> HIDE DEF e
<1> QED
  BY <1>1, <1>2, <1>3, <1>4, <1>5, <1>6 DEF Commands, e

(* The outcome of an exchange is well formed.                              *)
LEMMA ExchangeType ==
  ASSUME NEW c \in Cards, NEW cmd \in Commands, NEW lba \in Lbas,
         NEW o \in Exchange(c, cmd, lba)
  PROVE  /\ o.card \in Cards /\ o.card.kind = c.kind
         /\ o.r1 \in Bytes /\ o.tail \in Tails /\ o.fault \in BOOLEAN
<1>1. CASE o = Answer(c, cmd, lba)
  BY <1>1, ExecutedType DEF Answer, Bytes, Tails, R1, AnswerTail
<1>2. CASE o = Refusal(c, cmd) /\ cmd \in {"CMD12", "CMD17", "CMD18"}
  <2>1. 0 \in Lbas
    BY CardAssumption DEF Lbas
  <2>2. [c EXCEPT !.app = FALSE] \in Cards /\ [c EXCEPT !.app = FALSE].kind = c.kind
    BY DEF Cards
  <2> QED
    BY <1>2, <2>1, <2>2, ExecutedType DEF Refusal, Bytes, Tails
<1>3. CASE o \in Unheard(c, cmd)
  BY <1>3, DrainedType DEF Unheard, Bytes, Tails, Accepts
<1> QED
  BY <1>1, <1>2, <1>3, ExchangeCases

(* The wait for a token: the card stays what it is.                        *)
LEMMA TokenType ==
  ASSUME NEW c \in Cards, NEW o \in Token(c)
  PROVE  /\ o.card \in Cards /\ o.card.kind = c.kind /\ o.card.power = c.power
         /\ o.byte \in Bytes /\ o.block \in BlockValues /\ o.fault \in BOOLEAN
<1>1. /\ ReadEnded(c) \in Cards
      /\ ReadEnded(c).kind = c.kind /\ ReadEnded(c).power = c.power
  BY DEF ReadEnded, Cards
<1>2. ASSUME InStep(c)
      PROVE  /\ BlockSent(c) \in Cards
             /\ BlockSent(c).kind = c.kind /\ BlockSent(c).power = c.power
  <2>1. c.next + 1 \in 0 .. LastLba + 1
    BY <1>2, CardAssumption DEF InStep, Cards
  <2> QED
    BY <2>1 DEF BlockSent, Cards
<1>3. CASE o = LateToken(c) \/ o = ErrorToken(c)
  <2>1. InStep(c) \in BOOLEAN
    BY DEF InStep
  <2>2. /\ o.card = c \/ o.card = ReadEnded(c)
        /\ o.byte \in {"FF", "low"} /\ o.block = Misframed /\ o.fault = InStep(c)
    BY <1>3 DEF LateToken, ErrorToken
  <2> QED
    BY <1>1, <2>1, <2>2 DEF Bytes, BlockValues
<1>4. CASE InStep(c) /\ o = DataToken(c)
  <2>1. c.next \in Lbas
    BY <1>4, CardAssumption DEF InStep, Cards, Lbas
  <2> QED
    BY <1>2, <1>4, <2>1 DEF DataToken, Bytes, BlockValues
<1>5. CASE Sending(c) /\ c.mid
  <2>1. o \in [card : Drained(c), byte : Bytes, block : {Misframed}, fault : {FALSE}]
    BY <1>5 DEF Token, InStep
  <2> QED
    BY <2>1, DrainedType DEF BlockValues
<1>6. CASE InStep(c)
  BY <1>3, <1>4, <1>6 DEF Token
<1>7. CASE ~InStep(c) /\ ~(Sending(c) /\ c.mid)
  BY <1>3, <1>7 DEF Token
<1> QED
  BY <1>5, <1>6, <1>7

(* The wait for the end of busy.                                           *)
LEMMA SettleType ==
  ASSUME NEW c \in Cards, NEW o \in Settle(c)
  PROVE  /\ o.card \in Cards /\ o.card.kind = c.kind /\ o.card.power = c.power
         /\ o.byte \in Bytes /\ o.fault \in BOOLEAN
<1>1. CASE Sending(c)
  <2>1. o \in [card : Drained(c), byte : Bytes, fault : {FALSE}]
    BY <1>1 DEF Settle
  <2> QED
    BY <2>1, DrainedType
<1>2. CASE ~Sending(c)
  <2>1. /\ o.card = c
        /\ o.byte \in {"FF", "00"}
        /\ o.fault = TRUE \/ o.fault = FALSE
    BY <1>2 DEF Settle
  <2> QED
    BY <2>1 DEF Bytes
<1> QED
  BY <1>1, <1>2

-----------------------------------------------------------------------------
(* Type correctness.                                                       *)

(* The part of a step that sends a command of sd_init.                     *)
LEMMA SdSendCmdType ==
  ASSUME TypeOK, NEW cmd \in Commands, NEW o \in Exchange(card, cmd, 0), SdSendCmd(o)
  PROVE  /\ card' \in Cards /\ card'.kind = card.kind
         /\ selected' \in BOOLEAN /\ r1' \in Bytes /\ trouble' \in BOOLEAN
         /\ UNCHANGED <<req, buf, res, dirty>>
<1>1. 0 \in Lbas
  BY CardAssumption DEF Lbas
<1>2. /\ o.card \in Cards /\ o.card.kind = card.kind
      /\ o.r1 \in Bytes /\ o.fault \in BOOLEAN
  BY <1>1, ExchangeType DEF TypeOK
<1>3. card' \in Cards /\ card'.kind = card.kind
  BY <1>2, ReleasedType DEF SdSendCmd
<1> QED
  BY <1>2, <1>3 DEF SdSendCmd, TypeOK

(* Every disk_read asks for sectors of the card.                           *)
LEMMA RequestType ==
  ASSUME NEW q \in Requests
  PROVE  q.lba \in Lbas /\ q.count \in 1 .. MaxCount /\ q.lba + q.count <= LastLba + 1
BY DEF Requests

(* The command that starts a read is a command.                            *)
LEMMA ReadCommand ==
  ASSUME NEW q \in Requests
  PROVE  (IF q.count = 1 THEN "CMD17" ELSE "CMD18") \in Commands
BY DEF Commands

(* The initial values of request and buffer.                               *)
LEMMA NoRequestType ==
  /\ [lba |-> 0, count |-> 1] \in Requests
  /\ <<>> \in Seq(BlockValues) /\ Len(<<>>) = 0
BY CardAssumption, CountAssumption DEF Requests, Lbas

LEMMA TypeInit == Init => TypeOK
<1> SUFFICES ASSUME Init PROVE TypeOK
  OBVIOUS
<1>1. buf = <<>> /\ req = [lba |-> 0, count |-> 1]
  BY DEF Init
<1>2. buf \in Seq(BlockValues) /\ Len(buf) <= req.count /\ req \in Requests
  BY <1>1, NoRequestType
<1> QED
  BY <1>2 DEF Init, TypeOK, Bytes

(* The type invariant is inductive by itself.                              *)
LEMMA TypeStep ==
  ASSUME TypeOK, pc = "token" => Len(buf) < req.count, [Next]_vars
  PROVE  TypeOK'
<1> USE DEF TypeOK, InitPcs, ReadPcs
<1>1. CASE DiskInitialize
  BY <1>1, ReleasedType DEF DiskInitialize
<1>2. CASE Cmd0
  BY <1>2, SdSendCmdType DEF Cmd0, Commands
<1>3. CASE Cmd8
  BY <1>3, SdSendCmdType DEF Cmd8, Commands
<1>4. CASE Cmd55
  BY <1>4, SdSendCmdType DEF Cmd55, Commands
<1>5. CASE Acmd41
  BY <1>5, SdSendCmdType DEF Acmd41, Commands
<1>6. CASE Cmd58
  BY <1>6, SdSendCmdType DEF Cmd58, Commands
<1>7. ASSUME NEW q \in Requests, DiskRead(q) PROVE TypeOK'
  <2> DEFINE cmd == IF q.count = 1 THEN "CMD17" ELSE "CMD18"
  <2>1. PICK o \in Exchange(card, cmd, q.lba) :
          /\ r1' = o.r1
          /\ trouble' = (trouble \/ o.fault)
          /\ \/ o.r1 # "00" /\ Return(o.card, "RES_ERROR")
             \/ /\ o.r1 = "00" /\ card' = o.card /\ selected' = TRUE
                /\ res' = "none" /\ pc' = "token"
    BY <1>7 DEF DiskRead
  <2>2. o.card \in Cards /\ o.r1 \in Bytes /\ o.fault \in BOOLEAN
    BY <2>1, RequestType, ReadCommand, ExchangeType
  <2>3. /\ card' \in Cards /\ selected' \in BOOLEAN
        /\ pc' \in {"idle", "token"} /\ res' \in {"none", "RES_ERROR"}
    BY <2>1, <2>2, ReleasedType DEF Return
  <2>4. buf' \in Seq(BlockValues) /\ Len(buf') <= req'.count /\ req' \in Requests
    BY <1>7, NoRequestType, RequestType, CountAssumption DEF DiskRead
  <2> QED
    BY <1>7, <2>1, <2>2, <2>3, <2>4 DEF DiskRead
<1>8. CASE ReadBlock
  <2>1. PICK o \in Token(card) :
          /\ trouble' = (trouble \/ o.fault)
          /\ \/ o.byte # "FE" /\ Return(o.card, "RES_ERROR") /\ UNCHANGED buf
             \/ /\ buf' = Append(buf, o.block)
                /\ \/ Return(o.card, "RES_OK")
                   \/ /\ card' = o.card /\ pc' \in {"stop", "token"}
                      /\ UNCHANGED <<selected, res>>
    BY <1>8 DEF ReadBlock
  <2>2. o.card \in Cards /\ o.block \in BlockValues /\ o.fault \in BOOLEAN
    BY <2>1, TokenType
  <2>3. buf' \in Seq(BlockValues) /\ Len(buf') <= req.count
    <3>1. Len(buf) < req.count /\ req.count \in Nat /\ Len(buf) \in Nat
      BY <1>8, CountAssumption, RequestType DEF ReadBlock
    <3> QED
      BY <2>1, <2>2, <3>1
  <2>4. card' \in Cards /\ selected' \in BOOLEAN
    BY <2>1, <2>2, ReleasedType DEF Return
  <2> QED
    BY <1>8, <2>1, <2>2, <2>3, <2>4 DEF ReadBlock, Return
<1>9. CASE StopTransmission
  <2>1. PICK o \in Exchange(card, "CMD12", 0) :
          /\ r1' = IF o.r1 \in {"00", "01", "low"} THEN o.r1 ELSE r1
          /\ trouble' = (trouble \/ o.fault)
          /\ \/ Return(o.card, "RES_ERROR")
             \/ card' = o.card /\ pc' = "busy" /\ UNCHANGED <<selected, res>>
    BY <1>9 DEF StopTransmission
  <2>2. o.card \in Cards /\ o.r1 \in Bytes /\ o.fault \in BOOLEAN
    BY <2>1, ExchangeType, CardAssumption DEF Commands, Lbas
  <2>3. card' \in Cards /\ selected' \in BOOLEAN
    BY <2>1, <2>2, ReleasedType DEF Return
  <2> QED
    BY <1>9, <2>1, <2>2, <2>3 DEF StopTransmission, Return
<1>10. CASE WaitNotBusy
  <2>1. PICK o \in Settle(card) :
          /\ trouble' = (trouble \/ o.fault)
          /\ Return(o.card, IF o.byte = "FF" THEN "RES_OK" ELSE "RES_ERROR")
    BY <1>10 DEF WaitNotBusy
  <2>2. o.card \in Cards /\ o.fault \in BOOLEAN
    BY <2>1, SettleType
  <2>3. card' \in Cards
    BY <2>1, <2>2, ReleasedType DEF Return
  <2> QED
    BY <1>10, <2>1, <2>2, <2>3 DEF WaitNotBusy, Return
<1>11. CASE CardPowersUp
  <2>1. card' \in Cards
    BY <1>11 DEF CardPowersUp, Cards
  <2> QED
    BY <1>11, <2>1 DEF CardPowersUp
<1>12. CASE Restart
  <2>1. buf' = <<>> /\ req' = [lba |-> 0, count |-> 1]
    BY <1>12 DEF Restart
  <2>2. buf' \in Seq(BlockValues) /\ Len(buf') <= req'.count /\ req' \in Requests
    BY <2>1, NoRequestType
  <2> QED
    BY <1>12, <2>2 DEF Restart, Bytes
<1>13. CASE UNCHANGED vars
  BY <1>13 DEF vars
<1> QED
  BY <1>1, <1>2, <1>3, <1>4, <1>5, <1>6, <1>7, <1>8, <1>9, <1>10, <1>11, <1>12, <1>13
     DEF Next, SdInit, SdRead

-----------------------------------------------------------------------------
(* What the card was asked, from what the driver reads.                    *)

(* Only a card that executes CMD8 echoes its argument.                     *)
LEMMA EchoHeard ==
  ASSUME NEW c \in Cards, NEW o \in Exchange(c, "CMD8", 0), o.tail = "echo"
  PROVE  Accepts(c, "CMD8") /\ o = Answer(c, "CMD8", 0)
<1>1. o \notin Unheard(c, "CMD8")
  BY DEF Unheard
<1> QED
  BY <1>1, ExchangeCases

(* A card without an open read puts no byte on the bus but its answer.     *)
LEMMA QuietAnswer ==
  ASSUME NEW c \in Cards, NEW cmd, NEW lba, NEW o \in Exchange(c, cmd, lba),
         ~Sending(c), o.r1 # "FF"
  PROVE  /\ Accepts(c, cmd)
         /\ \/ o = Answer(c, cmd, lba)
            \/ cmd \in {"CMD12", "CMD17", "CMD18"} /\ o.r1 = "low"
<1>1. o \notin Unheard(c, cmd)
  BY DEF Unheard
<1>2. o = Refusal(c, cmd) => o.r1 = "low"
  BY DEF Refusal
<1> QED
  BY <1>1, <1>2, ExchangeCases

(* The commands of sd_init after CMD0 open no read, and only ACMD41 may    *)
(* change the power state.                                                 *)
LEMMA ExecutedInit ==
  ASSUME NEW c \in Cards, NEW cmd \in {"CMD8", "CMD55", "ACMD41", "CMD58"}
  PROVE  /\ Executed(c, cmd, 0).stream = c.stream
         /\ Executed(c, cmd, 0).power \in {c.power, "ready"}
         /\ cmd # "ACMD41" => Executed(c, cmd, 0).power = c.power
<1> DEFINE e == Executed(c, cmd, 0)
<1>1. CASE cmd = "CMD55"
  <2>1. e = [c EXCEPT !.app = TRUE]
    BY <1>1 DEF Executed
  <2> QED
    BY <1>1, <2>1 DEF Cards
<1>2. CASE cmd = "ACMD41"
  <2>1. e = [c EXCEPT !.app = FALSE,
                      !.power = IF c.app /\ c.up THEN "ready" ELSE c.power]
    BY <1>2 DEF Executed
  <2> QED
    BY <1>2, <2>1 DEF Cards
<1>3. CASE cmd \in {"CMD8", "CMD58"}
  <2>1. e = [c EXCEPT !.app = FALSE]
    BY <1>3 DEF Executed
  <2> QED
    BY <1>3, <2>1 DEF Cards
<1> QED
  BY <1>1, <1>2, <1>3

(* A command of a read leaves the power state alone.                       *)
LEMMA ReadKeepsPower ==
  ASSUME NEW c \in Cards, NEW cmd \in {"CMD12", "CMD17", "CMD18"}, NEW lba \in Lbas,
         NEW o \in Exchange(c, cmd, lba)
  PROVE  o.card.power = c.power
<1>1. Executed(c, cmd, lba).power = c.power /\ Executed(c, cmd, 0).power = c.power
  BY DEF Executed, Cards
<1>2. CASE o = Answer(c, cmd, lba)
  BY <1>1, <1>2 DEF Answer
<1>3. CASE o = Refusal(c, cmd)
  BY <1>1, <1>3 DEF Refusal, Cards
<1>4. CASE o \in Unheard(c, cmd)
  BY <1>4, DrainedType DEF Unheard
<1> QED
  BY <1>2, <1>3, <1>4, ExchangeCases

(* R1 = 00 of a ready card without an open read means that it has opened   *)
(* the one that was asked for.                                             *)
LEMMA ReadOpened ==
  ASSUME NEW c \in Cards, NEW cmd \in {"CMD17", "CMD18"}, NEW lba \in Lbas,
         NEW o \in Exchange(c, cmd, lba),
         c.stream = "none", c.power = "ready", o.r1 = "00"
  PROVE  /\ o.card.stream = IF cmd = "CMD17" THEN "single" ELSE "multi"
         /\ ~o.card.mid
         /\ o.card.next = lba
<1>1. o = Answer(c, cmd, lba)
  BY QuietAnswer DEF Sending
<1>2. Executed(c, cmd, lba) =
        [c EXCEPT !.app = FALSE, !.mid = FALSE, !.next = lba,
                  !.stream = IF cmd = "CMD17" THEN "single" ELSE "multi"]
  BY DEF Executed
<1> QED
  BY <1>1, <1>2 DEF Answer, Cards

(* A token of a card in step brings the block it was to send.              *)
LEMMA TokenInStep ==
  ASSUME NEW c \in Cards, InStep(c), NEW o \in Token(c), o.byte = "FE"
  PROVE  o = DataToken(c)
BY DEF Token, LateToken, ErrorToken

-----------------------------------------------------------------------------
(* The inductive invariant.  A part that speaks of the card while a read   *)
(* is in progress holds of the reads that began on a card with no read     *)
(* open (~dirty); of the others nothing can be said.                       *)

Opened(q) == IF q.count = 1 THEN "single" ELSE "multi"

(* How far the initialisation has got is known of the card.                *)
InitPhase ==
  /\ pc \in {"cmd55", "acmd41", "cmd58"} => card.stream = "none" /\ card.power # "raw"
  /\ pc = "cmd58" => card.power = "ready"
  /\ sdInit <=> pc \in {"idle"} \cup ReadPcs
  /\ pc \in {"idle"} \cup ReadPcs => card.power = "ready" /\ card.kind = "SDHC"

(* The card sends the block the driver wants next, up to the last one.     *)
ReadPhase ==
  /\ pc # "idle" => res = "none"
  /\ pc = "token" => Len(buf) < req.count
  /\ pc \in {"stop", "busy"} => Len(buf) = req.count /\ req.count > 1
  /\ pc \in ReadPcs /\ ~dirty => buf = Blocks(req.lba, Len(buf))
  /\ pc \in {"token", "stop"} /\ ~dirty =>
       /\ card.stream = Opened(req) /\ ~card.mid
       /\ card.next = req.lba + Len(buf)

IInv == TypeOK /\ InitPhase /\ ReadPhase /\ ReadSound

(* The initial states satisfy the inductive invariant.                     *)
LEMMA InitIInv == Init => IInv
<1> SUFFICES ASSUME Init PROVE IInv
  OBVIOUS
<1>1. TypeOK
  BY TypeInit
<1> QED
  BY <1>1 DEF Init, IInv, InitPhase, ReadPhase, ReadSound, ReadPcs

(* A step of sd_init keeps what is known of the initialisation.            *)
LEMMA InitPhaseInit ==
  ASSUME IInv, SdInit
  PROVE  InitPhase'
<1> USE DEF InitPhase, ReadPcs
<1>0. card \in Cards
  BY DEF IInv, TypeOK
<1>1. CASE DiskInitialize
  BY <1>1 DEF DiskInitialize, IInv
<1>2. CASE Cmd0
  BY <1>2 DEF Cmd0, IInv
<1>3. CASE Cmd8
  <2>1. PICK o \in Exchange(card, "CMD8", 0) :
          /\ SdSendCmd(o)
          /\ pc' = IF o.r1 = "01" /\ o.tail = "echo" THEN "cmd55" ELSE "failed"
    BY <1>3 DEF Cmd8
  <2>2. CASE o.r1 = "01" /\ o.tail = "echo"
    <3>1. Accepts(card, "CMD8") /\ o = Answer(card, "CMD8", 0)
      BY <1>0, <2>2, EchoHeard
    <3>2. o.card \in Cards /\ o.card.stream = "none" /\ o.card.power # "raw"
      <4>1. o.card = Executed(card, "CMD8", 0)
        BY <3>1 DEF Answer
      <4>2. Executed(card, "CMD8", 0) \in Cards
        BY <1>0, ExecutedType, CardAssumption DEF Commands, Lbas
      <4>3. card.stream = "none" /\ card.power # "raw"
        BY <3>1 DEF Accepts
      <4> QED
        BY <1>0, <4>1, <4>2, <4>3, ExecutedInit
    <3>3. card'.stream = "none" /\ card'.power # "raw"
      BY <2>1, <2>2, <3>2, ReleasedType DEF SdSendCmd
    <3> QED
      BY <1>3, <2>1, <2>2, <3>3 DEF Cmd8, IInv
  <2>3. CASE ~(o.r1 = "01" /\ o.tail = "echo")
    BY <1>3, <2>1, <2>3 DEF Cmd8, IInv
  <2> QED
    BY <2>2, <2>3
<1>4. ASSUME NEW cmd \in {"CMD55", "ACMD41", "CMD58"}, NEW o \in Exchange(card, cmd, 0),
             card.stream = "none", card.power # "raw", o.r1 # "FF", SdSendCmd(o)
      PROVE  /\ card'.stream = "none" /\ card'.power # "raw"
             /\ cmd # "ACMD41" => card'.power = card.power
             /\ cmd = "ACMD41" /\ o.r1 = "00" => card'.power = "ready"
             /\ cmd = "CMD58" /\ o.tail = "ccs" => card'.kind = "SDHC"
  <2>1. o = Answer(card, cmd, 0)
    BY <1>0, <1>4, QuietAnswer DEF Sending
  <2>2. o.card \in Cards /\ o.card.stream = "none" /\ o.card.power # "raw"
        /\ o.card.kind = card.kind
        /\ (cmd # "ACMD41" => o.card.power = card.power)
    <3>1. o.card = Executed(card, cmd, 0)
      BY <2>1 DEF Answer
    <3>2. /\ Executed(card, cmd, 0) \in Cards
          /\ Executed(card, cmd, 0).kind = card.kind
      <4>1. cmd \in Commands /\ 0 \in Lbas
        BY CardAssumption DEF Commands, Lbas
      <4> QED
        BY <1>0, <4>1, ExecutedType
    <3>3. /\ Executed(card, cmd, 0).stream = card.stream
          /\ Executed(card, cmd, 0).power \in {card.power, "ready"}
          /\ cmd # "ACMD41" => Executed(card, cmd, 0).power = card.power
      BY <1>0, ExecutedInit
    <3> QED
      BY <1>4, <3>1, <3>2, <3>3
  <2>3. cmd = "ACMD41" /\ o.r1 = "00" => o.card.power = "ready"
    BY <2>1 DEF Answer, R1
  <2>4. cmd = "CMD58" /\ o.tail = "ccs" => card.kind = "SDHC"
    BY <2>1 DEF Answer, AnswerTail
  <2>5. /\ card'.stream = "none" /\ card'.power = o.card.power
        /\ card'.kind = card.kind
    BY <1>4, <2>2, ReleasedType DEF SdSendCmd
  <2> QED
    BY <2>2, <2>3, <2>4, <2>5
<1>5. CASE Cmd55
  BY <1>4, <1>5 DEF Cmd55, IInv
<1>6. CASE Acmd41
  BY <1>4, <1>6 DEF Acmd41, IInv
<1>7. CASE Cmd58
  BY <1>4, <1>7 DEF Cmd58, IInv
<1> QED
  BY <1>1, <1>2, <1>3, <1>5, <1>6, <1>7 DEF SdInit

(* A step of a read, of the card or of the board keeps it as well.         *)
LEMMA InitPhaseOther ==
  ASSUME IInv,
         \/ \E q \in Requests : DiskRead(q)
         \/ SdRead \/ CardPowersUp \/ Restart \/ UNCHANGED vars
  PROVE  InitPhase'
<1> USE DEF InitPhase, ReadPcs
<1>0. card \in Cards
  BY DEF IInv, TypeOK
<1>1. ASSUME NEW q \in Requests, DiskRead(q) PROVE InitPhase'
  <2> DEFINE cmd == IF q.count = 1 THEN "CMD17" ELSE "CMD18"
  <2>1. PICK o \in Exchange(card, cmd, q.lba) :
          /\ pc' \in {"idle", "token"}
          /\ card' \in Released(o.card) \/ card' = o.card
    BY <1>1 DEF DiskRead, Return
  <2>2. o.card \in Cards /\ o.card.kind = card.kind
    BY <1>0, <2>1, RequestType, ReadCommand, ExchangeType
  <2>3. cmd \in {"CMD12", "CMD17", "CMD18"} /\ q.lba \in Lbas
    BY RequestType
  <2>4. o.card.power = card.power
    BY <1>0, <2>1, <2>3, ReadKeepsPower
  <2>5. card'.power = card.power /\ card'.kind = card.kind
    BY <2>1, <2>2, <2>4, ReleasedType
  <2> QED
    BY <1>1, <2>1, <2>5 DEF DiskRead, IInv
<1>2. CASE ReadBlock
  <2>1. PICK o \in Token(card) :
          /\ pc' \in {"idle", "token", "stop"}
          /\ card' \in Released(o.card) \/ card' = o.card
    BY <1>2 DEF ReadBlock, Return
  <2>2. card'.power = card.power /\ card'.kind = card.kind
    BY <1>0, <2>1, TokenType, ReleasedType
  <2> QED
    BY <1>2, <2>1, <2>2 DEF ReadBlock, IInv
<1>3. CASE StopTransmission
  <2>1. PICK o \in Exchange(card, "CMD12", 0) :
          /\ pc' \in {"idle", "busy"}
          /\ card' \in Released(o.card) \/ card' = o.card
    BY <1>3 DEF StopTransmission, Return
  <2>2. 0 \in Lbas /\ "CMD12" \in Commands
    BY CardAssumption DEF Lbas, Commands
  <2>3. o.card \in Cards /\ o.card.kind = card.kind
    BY <1>0, <2>1, <2>2, ExchangeType
  <2>4. o.card.power = card.power
    BY <1>0, <2>1, <2>2, ReadKeepsPower
  <2>5. card'.power = card.power /\ card'.kind = card.kind
    BY <2>1, <2>3, <2>4, ReleasedType
  <2> QED
    BY <1>3, <2>1, <2>5 DEF StopTransmission, IInv
<1>4. CASE WaitNotBusy
  <2>1. PICK o \in Settle(card) : card' \in Released(o.card) /\ pc' = "idle"
    BY <1>4 DEF WaitNotBusy, Return
  <2>2. card'.power = card.power /\ card'.kind = card.kind
    BY <1>0, <2>1, SettleType, ReleasedType
  <2> QED
    BY <1>4, <2>1, <2>2 DEF WaitNotBusy, IInv
<1>5. CASE CardPowersUp
  BY <1>0, <1>5 DEF CardPowersUp, IInv, Cards
<1>6. CASE Restart
  BY <1>6 DEF Restart
<1>7. CASE UNCHANGED vars
  BY <1>7 DEF vars, IInv
<1> QED
  BY <1>1, <1>2, <1>3, <1>4, <1>5, <1>6, <1>7 DEF SdRead

(* One more block in order.                                                *)
LEMMA BlocksAppend ==
  ASSUME NEW lba \in Int, NEW s \in Seq(BlockValues), s = Blocks(lba, Len(s))
  PROVE  Append(s, lba + Len(s)) = Blocks(lba, Len(s) + 1)
<1> DEFINE t == Append(s, lba + Len(s))
<1>1. Len(s) \in Nat /\ DOMAIN s = 1 .. Len(s)
  OBVIOUS
<1>2. DOMAIN t = 1 .. Len(s) + 1
  BY <1>1
<1>3. ASSUME NEW i \in 1 .. Len(s) + 1 PROVE t[i] = lba + i - 1
  <2>1. CASE i \in 1 .. Len(s)
    BY <1>1, <2>1 DEF Blocks
  <2>2. CASE i = Len(s) + 1
    BY <1>1, <2>2
  <2> QED
    BY <1>1, <2>1, <2>2
<1> QED
  BY <1>1, <1>2, <1>3 DEF Blocks

(* The empty buffer holds the first no blocks.                             *)
LEMMA BlocksNone ==
  ASSUME NEW lba \in Int
  PROVE  Len(<<>>) = 0 /\ <<>> = Blocks(lba, 0)
BY DEF Blocks

ReadInv == ReadPhase /\ ReadSound

(* Outside of a read there is nothing to keep.                             *)
LEMMA ReadInvInit ==
  ASSUME IInv, SdInit
  PROVE  ReadInv'
<1>1. /\ res = "none" /\ res' = res
      /\ pc' \in {"cmd0", "cmd8", "cmd55", "acmd41", "cmd58", "idle", "failed"}
  BY DEF IInv, ReadPhase, SdInit, DiskInitialize, Cmd0, Cmd8, Cmd55, Acmd41, Cmd58,
         SdSendCmd
<1> QED
  BY <1>1 DEF ReadInv, ReadPhase, ReadSound, ReadPcs

(* The start of a read.                                                    *)
LEMMA ReadInvStart ==
  ASSUME IInv, NEW q \in Requests, DiskRead(q)
  PROVE  ReadInv'
<1> DEFINE cmd == IF q.count = 1 THEN "CMD17" ELSE "CMD18"
<1>1. q.lba \in Int /\ q.count \in Nat /\ q.count >= 1
  BY RequestType, CardAssumption, CountAssumption DEF Lbas
<1>2. buf' = <<>> /\ req' = q /\ Len(buf') = 0 /\ buf' = Blocks(q.lba, 0)
  BY <1>1, BlocksNone DEF DiskRead
<1>3. PICK o \in Exchange(card, cmd, q.lba) :
        \/ pc' = "idle" /\ res' = "RES_ERROR"
        \/ o.r1 = "00" /\ card' = o.card /\ res' = "none" /\ pc' = "token"
  BY DEF DiskRead, Return
<1>4. CASE pc' = "idle" /\ res' = "RES_ERROR"
  BY <1>4 DEF ReadInv, ReadPhase, ReadSound, ReadPcs
<1>5. CASE o.r1 = "00" /\ card' = o.card /\ res' = "none" /\ pc' = "token"
  <2>1. ASSUME ~dirty'
        PROVE  card'.stream = Opened(q) /\ ~card'.mid /\ card'.next = q.lba
    <3>1. card.stream = "none"
      BY <2>1 DEF DiskRead
    <3>2. card \in Cards /\ card.power = "ready"
      BY DEF IInv, TypeOK, InitPhase, DiskRead
    <3>3. cmd \in {"CMD17", "CMD18"} /\ q.lba \in Lbas
      BY RequestType
    <3>4. /\ o.card.stream = IF cmd = "CMD17" THEN "single" ELSE "multi"
          /\ ~o.card.mid /\ o.card.next = q.lba
      BY <1>5, <3>1, <3>2, <3>3, ReadOpened
    <3> QED
      BY <1>5, <3>4 DEF Opened
  <2> QED
    BY <1>1, <1>2, <1>5, <2>1 DEF ReadInv, ReadPhase, ReadSound, ReadPcs
<1> QED
  BY <1>3, <1>4, <1>5

(* One block of a read.                                                    *)
LEMMA ReadInvBlock ==
  ASSUME IInv, ReadBlock
  PROVE  ReadInv'
<1>1. /\ req \in Requests /\ buf \in Seq(BlockValues) /\ card \in Cards
      /\ pc = "token" /\ Len(buf) < req.count
  BY DEF IInv, TypeOK, ReadPhase, ReadBlock
<1>2. /\ req.lba \in 0 .. LastLba /\ req.count \in Nat /\ req.count >= 1
      /\ req.lba + req.count <= LastLba + 1 /\ Len(buf) \in Nat /\ LastLba \in Nat
  BY <1>1, RequestType, CardAssumption, CountAssumption DEF Lbas
<1>3. PICK o \in Token(card) :
        \/ /\ pc' = "idle" /\ res' = "RES_ERROR"
        \/ /\ o.byte = "FE" /\ buf' = Append(buf, o.block)
           /\ \/ req.count = 1 /\ pc' = "idle"
              \/ /\ req.count > 1 /\ card' = o.card /\ res' = res
                 /\ pc' = IF Len(buf') = req.count THEN "stop" ELSE "token"
  BY DEF ReadBlock, Return
<1>4. CASE pc' = "idle" /\ res' = "RES_ERROR"
  BY <1>4 DEF ReadInv, ReadPhase, ReadSound, ReadPcs
<1>5. CASE o.byte = "FE" /\ buf' = Append(buf, o.block)
  <2>1. Len(buf') = Len(buf) + 1
    <3>1. o.block \in BlockValues
      BY <1>1, TokenType
    <3> QED
      BY <1>1, <1>5, <3>1
  <2>2. req' = req /\ dirty' = dirty
    BY DEF ReadBlock
  <2>3. ASSUME ~dirty
        PROVE  /\ buf' = Blocks(req.lba, Len(buf'))
               /\ req.count > 1 => /\ o.card.stream = "multi" /\ ~o.card.mid
                                   /\ o.card.next = req.lba + Len(buf')
    <3>1. /\ card.stream = Opened(req) /\ ~card.mid /\ card.next = req.lba + Len(buf)
          /\ buf = Blocks(req.lba, Len(buf))
      BY <1>1, <2>3 DEF IInv, ReadPhase, ReadPcs
    <3>2. InStep(card)
      BY <1>1, <1>2, <3>1 DEF InStep, Sending, Opened
    <3>3. o = DataToken(card)
      BY <1>1, <1>5, <3>2, TokenInStep
    <3>4. o.block = req.lba + Len(buf) /\ o.card = BlockSent(card)
      BY <3>1, <3>3 DEF DataToken
    <3>5. buf' = Blocks(req.lba, Len(buf) + 1)
      <4>1. req.lba \in Int
        BY <1>2
      <4>2. Append(buf, req.lba + Len(buf)) = Blocks(req.lba, Len(buf) + 1)
        BY <1>1, <3>1, <4>1, BlocksAppend
      <4> QED
        BY <1>5, <3>4, <4>2
    <3>6. CASE req.count > 1
      <4>1. card.stream = "multi"
        BY <1>2, <3>1, <3>6 DEF Opened
      <4>2. o.card = [card EXCEPT !.next = card.next + 1]
        BY <3>4, <4>1 DEF BlockSent
      <4>3. /\ o.card.stream = card.stream /\ o.card.mid = card.mid
            /\ o.card.next = card.next + 1
        BY <1>1, <4>2 DEF Cards
      <4>4. card.next + 1 = req.lba + Len(buf')
        BY <1>2, <2>1, <3>1
      <4> QED
        BY <2>1, <3>1, <3>5, <4>1, <4>3, <4>4
    <3> QED
      BY <2>1, <3>5, <3>6
  <2>4. CASE req.count = 1 /\ pc' = "idle"
    BY <1>2, <1>1, <2>1, <2>2, <2>3, <2>4 DEF ReadInv, ReadPhase, ReadSound, ReadPcs
  <2>5. CASE /\ req.count > 1 /\ card' = o.card /\ res' = res
             /\ pc' = IF Len(buf') = req.count THEN "stop" ELSE "token"
    <3>1. res' = "none"
      BY <1>1, <2>5 DEF IInv, ReadPhase
    <3> QED
      BY <3>1, <1>2, <1>1, <2>1, <2>2, <2>3, <2>5
       DEF ReadInv, ReadPhase, ReadSound, ReadPcs, Opened
  <2> QED
    BY <1>3, <1>4, <2>4, <2>5
<1> QED
  BY <1>3, <1>4, <1>5

(* The end of a multi-block read.                                          *)
LEMMA ReadInvEnd ==
  ASSUME IInv, StopTransmission \/ WaitNotBusy
  PROVE  ReadInv'
<1>1. /\ UNCHANGED <<req, buf, dirty>> /\ pc \in {"stop", "busy"}
      /\ pc' \in {"idle", "busy"}
  BY DEF StopTransmission, WaitNotBusy, Return
<1> QED
  <2>1. pc \in ReadPcs /\ Len(buf) = req.count /\ req.count > 1
    BY <1>1 DEF IInv, ReadPhase, ReadPcs
  <2>2. ~dirty => buf = Blocks(req.lba, req.count)
    BY <2>1 DEF IInv, ReadPhase
  <2>3. Len(buf') = Len(buf) /\ pc' # "token" /\ pc' # "stop"
    BY <1>1
  <2>4. pc' = "busy" => res' = "none"
    BY DEF StopTransmission, WaitNotBusy, Return, IInv, ReadPhase
  <2> QED
    BY <1>1, <2>1, <2>2, <2>3, <2>4 DEF ReadInv, ReadPhase, ReadSound, ReadPcs

(* The card's own step, the reset and stuttering.                          *)
LEMMA ReadInvOther ==
  ASSUME IInv, CardPowersUp \/ Restart \/ UNCHANGED vars
  PROVE  ReadInv'
<1>1. CASE CardPowersUp
  <2>1. pc \notin {"idle"} \cup ReadPcs
    BY <1>1 DEF CardPowersUp, IInv, InitPhase
  <2> QED
    BY <1>1, <2>1 DEF CardPowersUp, IInv, ReadInv, ReadPhase, ReadSound, ReadPcs
<1>2. CASE Restart
  BY <1>2 DEF Restart, ReadInv, ReadPhase, ReadSound, ReadPcs
<1>3. CASE UNCHANGED vars
  BY <1>3 DEF vars, IInv, ReadInv, ReadPhase, ReadSound, ReadPcs
<1> QED
  BY <1>1, <1>2, <1>3

(* Every step keeps the inductive invariant.                               *)
LEMMA StepIInv == IInv /\ [Next]_vars => IInv'
<1> SUFFICES ASSUME IInv, [Next]_vars PROVE IInv'
  OBVIOUS
<1>1. TypeOK'
  BY TypeStep DEF IInv, ReadPhase
<1>2. InitPhase'
  BY InitPhaseInit, InitPhaseOther DEF Next
<1>3. ReadInv'
  BY ReadInvInit, ReadInvStart, ReadInvBlock, ReadInvEnd, ReadInvOther DEF Next, SdRead
<1> QED
  BY <1>1, <1>2, <1>3 DEF IInv, ReadInv

(* The inductive invariant holds in every reachable state.                 *)
THEOREM Invariance == Spec => []IInv
BY InitIInv, StepIInv, PTL DEF Spec

(* Type correctness, for every card, bound and set of faults.              *)
THEOREM TypeCorrect == Spec => []TypeOK
<1>1. IInv => TypeOK
  BY DEF IInv
<1> QED
  BY <1>1, Invariance, PTL

(* Whenever disk_read returns RES_OK, and no earlier read was still open   *)
(* on the card when it began, the buffer holds the requested sectors, in   *)
(* order, whatever the card loses, delays or refuses.                      *)
THEOREM ReadsAreSound == Spec => []ReadSound
<1>1. IInv => ReadSound
  BY DEF IInv
<1> QED
  BY <1>1, Invariance, PTL

(* SD_init is only ever true of an operational SDHC card, whatever the     *)
(* card was doing when the board was reset.                                *)
THEOREM InitIsSound == Spec => []InitSound
<1>1. IInv => InitSound
  BY DEF IInv, InitPhase, InitSound
<1> QED
  BY <1>1, Invariance, PTL

(* Every way back to FatFs leaves the card deselected, whatever the card   *)
(* answers: a fact that is inductive by itself.                            *)
THEOREM IdleIsDeselected == Spec => []Deselected
<1>1. Init => Deselected
  BY DEF Init, Deselected
<1>2. Deselected /\ [Next]_vars => Deselected'
  <2> SUFFICES ASSUME Deselected, [Next]_vars PROVE Deselected'
    OBVIOUS
  <2> USE DEF Deselected
  <2>1. CASE SdInit
    BY <2>1 DEF SdInit, DiskInitialize, Cmd0, Cmd8, Cmd55, Acmd41, Cmd58, SdSendCmd
  <2>2. CASE \E q \in Requests : DiskRead(q)
    BY <2>2 DEF DiskRead, Return
  <2>3. CASE SdRead
    BY <2>3 DEF SdRead, ReadBlock, StopTransmission, WaitNotBusy, Return
  <2>4. CASE CardPowersUp \/ Restart \/ UNCHANGED vars
    BY <2>4 DEF CardPowersUp, Restart, vars
  <2> QED
    BY <2>1, <2>2, <2>3, <2>4 DEF Next
<1> QED
  BY <1>1, <1>2, PTL DEF Spec

-----------------------------------------------------------------------------
(* What a card that does its part makes of every step.                     *)

(* A command that the card accepts and does not fail is executed.          *)
LEMMA FaultlessAnswer ==
  ASSUME NEW c, NEW cmd, NEW lba, NEW o \in Exchange(c, cmd, lba),
         Accepts(c, cmd), ~o.fault
  PROVE  o = Answer(c, cmd, lba)
<1>1. o \notin Unheard(c, cmd)
  BY DEF Unheard
<1>2. o # Refusal(c, cmd)
  BY DEF Refusal
<1> QED
  BY <1>1, <1>2, ExchangeCases

(* The state and the answer of a card after each command of sd_init.       *)
LEMMA InitAnswers ==
  ASSUME NEW c \in Cards
  PROVE  /\ LET a == Answer(c, "CMD0", 0)
            IN  /\ a.r1 = "01" /\ a.card \in Cards
                /\ a.card.power = "idle" /\ a.card.stream = "none"
         /\ c.power = "idle" =>
              LET a == Answer(c, "CMD8", 0)
              IN  /\ a.card \in Cards
                  /\ a.card.power = "idle" /\ a.card.stream = c.stream
                  /\ c.kind # "v1" => a.r1 = "01" /\ a.tail = "echo"
         /\ c.power = "idle" =>
              LET a == Answer(c, "CMD55", 0)
              IN  /\ a.card \in Cards
                  /\ a.card.power = "idle" /\ a.card.app /\ a.r1 = "01"
         /\ c.power = "idle" /\ c.app =>
              LET a == Answer(c, "ACMD41", 0)
              IN  /\ a.card \in Cards
                  /\ \/ a.r1 = "01" /\ a.card.power = "idle"
                     \/ a.r1 = "00" /\ a.card.power = "ready"
         /\ c.power = "ready" =>
              LET a == Answer(c, "CMD58", 0)
              IN  /\ a.card \in Cards /\ a.r1 = "00"
                  /\ a.card.stream = c.stream
                  /\ c.kind = "SDHC" => a.tail = "ccs"
<1>0. \A cmd \in Commands : Executed(c, cmd, 0) \in Cards
  BY ExecutedType, CardAssumption DEF Lbas
<1>1. LET a == Answer(c, "CMD0", 0)
      IN  /\ a.r1 = "01" /\ a.card \in Cards
          /\ a.card.power = "idle" /\ a.card.stream = "none"
  <2>1. /\ Executed(c, "CMD0", 0).power = "idle"
        /\ Executed(c, "CMD0", 0).stream = "none"
    BY DEF Executed, Cards
  <2> QED
    BY <1>0, <2>1 DEF Answer, Illegal, R1, Commands
<1>2. ASSUME c.power = "idle"
      PROVE  LET a == Answer(c, "CMD8", 0)
             IN  /\ a.card \in Cards
                 /\ a.card.power = "idle" /\ a.card.stream = c.stream
                 /\ c.kind # "v1" => a.r1 = "01" /\ a.tail = "echo"
  <2>1. /\ Executed(c, "CMD8", 0).power = c.power
        /\ Executed(c, "CMD8", 0).stream = c.stream
    BY ExecutedInit
  <2> QED
    BY <1>0, <1>2, <2>1 DEF Answer, Illegal, R1, AnswerTail, Commands
<1>3. ASSUME c.power = "idle"
      PROVE  LET a == Answer(c, "CMD55", 0)
             IN  /\ a.card \in Cards
                 /\ a.card.power = "idle" /\ a.card.app /\ a.r1 = "01"
  <2>1. /\ Executed(c, "CMD55", 0).power = c.power
        /\ Executed(c, "CMD55", 0).app
    BY DEF Executed, Cards
  <2> QED
    BY <1>0, <1>3, <2>1 DEF Answer, Illegal, R1, Commands
<1>4. ASSUME c.power = "idle", c.app
      PROVE  LET a == Answer(c, "ACMD41", 0)
             IN  /\ a.card \in Cards
                 /\ \/ a.r1 = "01" /\ a.card.power = "idle"
                    \/ a.r1 = "00" /\ a.card.power = "ready"
  <2>1. Executed(c, "ACMD41", 0).power \in {"idle", "ready"}
    BY <1>4, ExecutedInit
  <2> QED
    BY <1>0, <1>4, <2>1 DEF Answer, Illegal, R1, Commands
<1>5. ASSUME c.power = "ready"
      PROVE  LET a == Answer(c, "CMD58", 0)
             IN  /\ a.card \in Cards /\ a.r1 = "00"
                 /\ a.card.stream = c.stream
                 /\ c.kind = "SDHC" => a.tail = "ccs"
  <2>1. /\ Executed(c, "CMD58", 0).power = c.power
        /\ Executed(c, "CMD58", 0).stream = c.stream
    BY ExecutedInit
  <2> QED
    BY <1>0, <1>5, <2>1 DEF Answer, Illegal, R1, AnswerTail, Commands
<1> QED
  BY <1>1, <1>2, <1>3, <1>4, <1>5

(* CMD12 ends a multi-block read of a ready card, and is answered with 00. *)
LEMMA StopAnswer ==
  ASSUME NEW c \in Cards, c.power = "ready", c.stream = "multi"
  PROVE  /\ Answer(c, "CMD12", 0).r1 = "00"
         /\ Answer(c, "CMD12", 0).card.stream = "none"
<1>1. Executed(c, "CMD12", 0) = [c EXCEPT !.app = FALSE, !.stream = "none", !.mid = FALSE]
  BY DEF Executed
<1>2. /\ Executed(c, "CMD12", 0).stream = "none"
      /\ Executed(c, "CMD12", 0).power = "ready"
  BY <1>1 DEF Cards
<1> QED
  BY <1>2 DEF Answer, Illegal, R1

(* The single block of a read, once sent, ends it.                         *)
LEMMA SingleSent ==
  ASSUME NEW c \in Cards, InStep(c), c.stream = "single"
  PROVE  DataToken(c).card.stream = "none"
BY DEF DataToken, BlockSent, Cards

(* Where the driver is when nothing has gone wrong so far.                 *)
TroubleFree ==
  ~trouble =>
    /\ pc = "cmd8" => card.power = "idle" /\ card.stream = "none"
    /\ pc \in {"cmd55", "acmd41"} => card.power = "idle"
    /\ pc = "acmd41" => card.app
    /\ pc \in ReadPcs => ~dirty
    /\ pc = "busy" => card.stream = "none"

GoodInv == TroubleFree /\ NoFailureWithoutTrouble

(* Trouble stays until the next reset.                                     *)
LEMMA TroubleStays ==
  ASSUME TypeOK, ~trouble', [Next]_vars
  PROVE  ~trouble \/ Restart
BY DEF Next, SdInit, SdRead, DiskInitialize, Cmd0, Cmd8, Cmd55, Acmd41, Cmd58, SdSendCmd,
       DiskRead, ReadBlock, StopTransmission, WaitNotBusy, CardPowersUp, vars, TypeOK

(* A command of sd_init that the card accepts and does not fail.           *)
LEMMA FaultlessSend ==
  ASSUME TypeOK, NEW cmd \in Commands, NEW o \in Exchange(card, cmd, 0), SdSendCmd(o),
         ~trouble', Accepts(card, cmd)
  PROVE  /\ o = Answer(card, cmd, 0)
         /\ card'.kind = card.kind /\ res' = res
         /\ o.card \in Cards =>
              /\ card'.power = o.card.power /\ card'.app = o.card.app
              /\ o.card.stream = "none" => card'.stream = "none"
<1>1. ~o.fault
  BY DEF SdSendCmd
<1>2. o = Answer(card, cmd, 0)
  BY <1>1, FaultlessAnswer
<1> QED
  BY <1>2, SdSendCmdType, ReleasedType DEF SdSendCmd

(* A step of sd_init.                                                      *)
LEMMA GoodInit ==
  ASSUME IInv, GoodInv, ~trouble, ~trouble', SdInit
  PROVE  GoodInv'
<1> USE DEF GoodInv, TroubleFree, NoFailureWithoutTrouble, ReadPcs
<1>0. TypeOK /\ card \in Cards
  BY DEF IInv, TypeOK
<1>1. CASE DiskInitialize
  BY <1>1 DEF DiskInitialize
<1>2. CASE Cmd0
  <2>1. PICK o \in Exchange(card, "CMD0", 0) :
          SdSendCmd(o) /\ pc' = IF o.r1 = "01" THEN "cmd8" ELSE "failed"
    BY <1>2 DEF Cmd0
  <2>2. Accepts(card, "CMD0") /\ "CMD0" \in Commands
    BY DEF Accepts, Commands
  <2>3. o = Answer(card, "CMD0", 0) /\ res' = res
    BY <1>0, <2>1, <2>2, FaultlessSend
  <2>4. o.r1 = "01" /\ o.card \in Cards /\ o.card.power = "idle" /\ o.card.stream = "none"
    BY <1>0, <2>3, InitAnswers
  <2>5. card'.power = "idle" /\ card'.stream = "none"
    BY <1>0, <2>1, <2>2, <2>4, FaultlessSend
  <2> QED
    BY <2>1, <2>3, <2>4, <2>5
<1>3. CASE Cmd8
  <2>1. PICK o \in Exchange(card, "CMD8", 0) :
          /\ SdSendCmd(o)
          /\ pc' = IF o.r1 = "01" /\ o.tail = "echo" THEN "cmd55" ELSE "failed"
    BY <1>3 DEF Cmd8
  <2>2. card.power = "idle" /\ card.stream = "none"
    BY <1>3 DEF Cmd8
  <2>3. Accepts(card, "CMD8") /\ "CMD8" \in Commands
    BY <2>2 DEF Accepts, Commands
  <2>4. o = Answer(card, "CMD8", 0) /\ res' = res /\ card'.kind = card.kind
    BY <1>0, <2>1, <2>3, FaultlessSend
  <2>5. /\ o.card \in Cards /\ o.card.power = "idle"
        /\ card.kind # "v1" => o.r1 = "01" /\ o.tail = "echo"
    BY <1>0, <2>2, <2>4, InitAnswers
  <2>6. card'.power = "idle"
    BY <1>0, <2>1, <2>3, <2>5, FaultlessSend
  <2> QED
    BY <2>1, <2>4, <2>5, <2>6
<1>4. CASE Cmd55
  <2>1. PICK o \in Exchange(card, "CMD55", 0) :
          SdSendCmd(o) /\ pc' = IF o.r1 \in {"00", "01"} THEN "acmd41" ELSE "failed"
    BY <1>4 DEF Cmd55
  <2>2. card.power = "idle" /\ card.stream = "none"
    BY <1>4 DEF Cmd55, IInv, InitPhase
  <2>3. Accepts(card, "CMD55") /\ "CMD55" \in Commands
    BY <2>2 DEF Accepts, Commands
  <2>4. o = Answer(card, "CMD55", 0) /\ res' = res
    BY <1>0, <2>1, <2>3, FaultlessSend
  <2>5. o.card \in Cards /\ o.card.power = "idle" /\ o.card.app /\ o.r1 = "01"
    BY <1>0, <2>2, <2>4, InitAnswers
  <2>6. card'.power = "idle" /\ card'.app
    BY <1>0, <2>1, <2>3, <2>5, FaultlessSend
  <2> QED
    BY <2>1, <2>4, <2>5, <2>6
<1>5. CASE Acmd41
  <2>1. PICK o \in Exchange(card, "ACMD41", 0) :
          /\ SdSendCmd(o)
          /\ pc' = CASE o.r1 = "01" -> "cmd55" [] o.r1 = "00" -> "cmd58" [] OTHER -> "failed"
    BY <1>5 DEF Acmd41
  <2>2. card.power = "idle" /\ card.app /\ card.stream = "none"
    BY <1>5 DEF Acmd41, IInv, InitPhase
  <2>3. Accepts(card, "ACMD41") /\ "ACMD41" \in Commands
    BY <2>2 DEF Accepts, Commands
  <2>4. o = Answer(card, "ACMD41", 0) /\ res' = res
    BY <1>0, <2>1, <2>3, FaultlessSend
  <2>5. /\ o.card \in Cards
        /\ \/ o.r1 = "01" /\ o.card.power = "idle"
           \/ o.r1 = "00" /\ o.card.power = "ready"
    <3>1. LET a == Answer(card, "ACMD41", 0)
          IN  /\ a.card \in Cards
              /\ \/ a.r1 = "01" /\ a.card.power = "idle"
                 \/ a.r1 = "00" /\ a.card.power = "ready"
      BY <1>0, <2>2, InitAnswers
    <3> QED
      BY <2>4, <3>1
  <2>6. card'.power = o.card.power
    BY <1>0, <2>1, <2>3, <2>5, FaultlessSend
  <2>7. \/ pc' = "cmd55" /\ card'.power = "idle"
        \/ pc' = "cmd58"
    BY <2>1, <2>5, <2>6
  <2> QED
    BY <2>4, <2>7
<1>6. CASE Cmd58
  <2>1. PICK o \in Exchange(card, "CMD58", 0) :
          /\ SdSendCmd(o)
          /\ pc' = IF o.r1 = "00" /\ o.tail = "ccs" THEN "idle" ELSE "failed"
    BY <1>6 DEF Cmd58
  <2>2. card.power = "ready" /\ card.stream = "none"
    BY <1>6 DEF Cmd58, IInv, InitPhase
  <2>3. Accepts(card, "CMD58") /\ "CMD58" \in Commands
    BY <2>2 DEF Accepts, Commands
  <2>4. o = Answer(card, "CMD58", 0) /\ res' = res /\ card'.kind = card.kind
    BY <1>0, <2>1, <2>3, FaultlessSend
  <2>5. /\ o.card \in Cards /\ o.r1 = "00" /\ o.card.stream = "none"
        /\ card.kind = "SDHC" => o.tail = "ccs"
    BY <1>0, <2>2, <2>4, InitAnswers
  <2>6. card'.stream = "none"
    BY <1>0, <2>1, <2>3, <2>5, FaultlessSend
  <2> QED
    BY <2>1, <2>4, <2>5, <2>6
<1> QED
  BY <1>1, <1>2, <1>3, <1>4, <1>5, <1>6 DEF SdInit

(* A step of a read.                                                       *)
LEMMA GoodRead ==
  ASSUME IInv, GoodInv, ~trouble, ~trouble',
         SdRead \/ \E q \in Requests : DiskRead(q)
  PROVE  GoodInv'
<1> USE DEF GoodInv, TroubleFree, NoFailureWithoutTrouble, ReadPcs
<1>0. TypeOK /\ card \in Cards
  BY DEF IInv, TypeOK
<1>1. ASSUME NEW q \in Requests, DiskRead(q) PROVE GoodInv'
  <2> DEFINE cmd == IF q.count = 1 THEN "CMD17" ELSE "CMD18"
  <2>1. PICK o \in Exchange(card, cmd, q.lba) :
          /\ trouble' = (trouble \/ o.fault)
          /\ \/ o.r1 # "00"
             \/ o.r1 = "00" /\ res' = "none" /\ pc' = "token"
    BY <1>1 DEF DiskRead
  <2>2. card.stream = "none" /\ card.power = "ready" /\ ~dirty'
    BY <1>1 DEF DiskRead, IInv, InitPhase
  <2>3. o = Answer(card, cmd, q.lba)
    <3>1. Accepts(card, cmd) /\ ~o.fault
      BY <2>1, <2>2 DEF Accepts
    <3> QED
      BY <2>1, <3>1, FaultlessAnswer
  <2>4. o.r1 = "00"
    <3>1. cmd \in {"CMD17", "CMD18"} /\ ~Illegal(card, cmd)
      BY <2>2 DEF Illegal
    <3>2. Executed(card, cmd, q.lba).power = "ready"
      BY <1>0, <2>2, <3>1 DEF Executed, Cards
    <3> QED
      BY <2>3, <3>1, <3>2 DEF Answer, R1
  <2> QED
    BY <2>1, <2>2, <2>4
<1>2. CASE ReadBlock
  <2>1. PICK o \in Token(card) :
          /\ trouble' = (trouble \/ o.fault)
          /\ \/ o.byte # "FE"
             \/ /\ o.byte = "FE"
                /\ \/ req.count = 1 /\ Return(o.card, "RES_OK")
                   \/ req.count > 1 /\ pc' \in {"stop", "token"} /\ res' = res
    BY <1>2 DEF ReadBlock
  <2>2. pc = "token" /\ ~dirty /\ dirty' = dirty
    BY <1>2 DEF ReadBlock
  <2>3. card.stream = Opened(req) /\ InStep(card)
    <3>1. /\ card.stream = Opened(req) /\ ~card.mid /\ card.next = req.lba + Len(buf)
          /\ Len(buf) < req.count
      BY <2>2 DEF IInv, ReadPhase
    <3>2. /\ req.lba \in 0 .. LastLba /\ req.count \in Nat
          /\ req.lba + req.count <= LastLba + 1 /\ Len(buf) \in Nat /\ LastLba \in Nat
      BY <1>0, RequestType, CardAssumption, CountAssumption DEF Lbas, TypeOK
    <3> QED
      BY <3>1, <3>2 DEF InStep, Sending, Opened
  <2>4. o = DataToken(card)
    <3>1. ~o.fault
      BY <2>1
    <3>2. o # LateToken(card) /\ o # ErrorToken(card)
      BY <2>3, <3>1 DEF LateToken, ErrorToken
    <3> QED
      BY <2>1, <2>3, <3>2 DEF Token
  <2>5. CASE req.count = 1
    <3>1. o.card.stream = "none"
      BY <1>0, <2>3, <2>4, <2>5, SingleSent DEF Opened
    <3>2. o.card \in Cards
      BY <1>0, <2>1, TokenType
    <3>3. card'.stream = "none" /\ res' = "RES_OK" /\ pc' = "idle"
      BY <2>1, <2>4, <2>5, <3>1, <3>2, ReleasedType DEF Return, DataToken
    <3> QED
      BY <3>3
  <2>6. CASE req.count # 1
    <3>1. pc' \in {"stop", "token"} /\ res' = res
      BY <2>1, <2>4, <2>6 DEF DataToken
    <3> QED
      BY <2>2, <3>1
  <2> QED
    BY <2>5, <2>6
<1>3. CASE StopTransmission
  <2>1. PICK o \in Exchange(card, "CMD12", 0) :
          /\ r1' = IF o.r1 \in {"00", "01", "low"} THEN o.r1 ELSE r1
          /\ trouble' = (trouble \/ o.fault)
          /\ \/ r1' # "00"
             \/ card' = o.card /\ pc' = "busy" /\ res' = res
    BY <1>3 DEF StopTransmission
  <2>2. pc = "stop" /\ ~dirty /\ dirty' = dirty
    BY <1>3 DEF StopTransmission
  <2>3. card.power = "ready" /\ card.stream = "multi"
    <3>1. req.count > 1 /\ card.stream = Opened(req)
      BY <2>2 DEF IInv, ReadPhase
    <3>2. Opened(req) = "multi"
      BY <3>1 DEF Opened
    <3> QED
      BY <2>2, <3>1, <3>2 DEF IInv, InitPhase
  <2>4. o = Answer(card, "CMD12", 0)
    <3>1. Accepts(card, "CMD12") /\ ~o.fault
      BY <2>1, <2>3 DEF Accepts
    <3> QED
      BY <2>1, <3>1, FaultlessAnswer
  <2>5. o.r1 = "00" /\ o.card.stream = "none"
    BY <1>0, <2>3, <2>4, StopAnswer
  <2> QED
    BY <2>1, <2>2, <2>5
<1>4. CASE WaitNotBusy
  <2>1. PICK o \in Settle(card) :
          /\ trouble' = (trouble \/ o.fault)
          /\ Return(o.card, IF o.byte = "FF" THEN "RES_OK" ELSE "RES_ERROR")
    BY <1>4 DEF WaitNotBusy
  <2>2. card.stream = "none"
    BY <1>4 DEF WaitNotBusy
  <2>3. o.card = card /\ o.byte = "FF"
    <3>1. ~o.fault
      BY <2>1
    <3>2. o # [card |-> card, byte |-> "00", fault |-> TRUE]
      BY <3>1
    <3>3. o = [card |-> card, byte |-> "FF", fault |-> FALSE]
      BY <2>1, <2>2, <3>2 DEF Settle, Sending
    <3> QED
      BY <3>3
  <2>4. card'.stream = "none" /\ res' = "RES_OK" /\ pc' = "idle"
    BY <1>0, <2>1, <2>2, <2>3, ReleasedType DEF Return
  <2> QED
    BY <2>4
<1> QED
  BY <1>1, <1>2, <1>3, <1>4 DEF SdRead

(* Every step.                                                             *)
LEMMA GoodStep == IInv /\ GoodInv /\ [Next]_vars => GoodInv'
<1> SUFFICES ASSUME IInv, GoodInv, [Next]_vars PROVE GoodInv'
  OBVIOUS
<1> USE DEF GoodInv, TroubleFree, NoFailureWithoutTrouble, ReadPcs
<1>1. CASE trouble'
  BY <1>1
<1>2. CASE Restart
  BY <1>2 DEF Restart
<1>3. CASE ~trouble /\ ~trouble'
  <2>1. CASE CardPowersUp
    <3>1. card'.power = card.power /\ card'.stream = card.stream
          /\ card'.app = card.app /\ card'.kind = card.kind
      BY <2>1 DEF CardPowersUp, IInv, TypeOK, Cards
    <3> QED
      BY <2>1, <3>1 DEF CardPowersUp
  <2>2. CASE UNCHANGED vars
    BY <2>2 DEF vars
  <2> QED
    BY <1>2, <1>3, <2>1, <2>2, GoodInit, GoodRead DEF Next
<1> QED
  BY <1>1, <1>2, <1>3, TroubleStays DEF IInv

(* With a card that does its part an SDHC card is always initialised,      *)
(* every disk_read succeeds, and no read stays open between two calls,     *)
(* from whatever state the card was in when the board was reset.           *)
THEOREM NothingFailsAlone == Spec => []NoFailureWithoutTrouble
<1>1. Init => GoodInv
  BY DEF Init, GoodInv, TroubleFree, NoFailureWithoutTrouble, ReadPcs
<1>2. GoodInv => NoFailureWithoutTrouble
  BY DEF GoodInv
<1> QED
  BY <1>1, <1>2, GoodStep, Invariance, PTL DEF Spec

-----------------------------------------------------------------------------
(* The driver implements the contract of module Disk, step by step.  The   *)
(* barred variables of the contract, by their names:                       *)

data == IF res = "RES_OK" THEN buf ELSE <<>>
tainted == IF pc \in ReadPcs THEN dirty ELSE sdInit /\ card.stream # "none"

contractVars == <<sdInit, pc \in ReadPcs, req, res, data, tainted>>

(* What the parts of the inductive invariant say of them.                  *)
LEMMA ContractFacts ==
  ASSUME IInv
  PROVE  /\ tainted \in BOOLEAN /\ (pc \in ReadPcs) \in BOOLEAN
         /\ pc # "idle" => res = "none" /\ data = <<>>
         /\ pc \notin {"idle"} \cup ReadPcs => ~sdInit /\ ~tainted
         /\ pc \in {"idle"} \cup ReadPcs => sdInit
         /\ sdInit \in BOOLEAN /\ dirty \in BOOLEAN
<1>1. /\ sdInit \in BOOLEAN /\ dirty \in BOOLEAN
      /\ pc \notin {"idle"} \cup ReadPcs => ~sdInit
      /\ pc \in {"idle"} \cup ReadPcs => sdInit
  BY DEF IInv, TypeOK, InitPhase
<1>2. tainted \in BOOLEAN
  BY <1>1 DEF tainted
<1>3. pc # "idle" => res = "none" /\ data = <<>>
  BY DEF IInv, ReadPhase, data
<1>4. pc \notin {"idle"} \cup ReadPcs => ~tainted
  BY <1>1 DEF tainted
<1> QED
  BY <1>1, <1>2, <1>3, <1>4

(* sd_init changes nothing the contract sees until it has succeeded, and   *)
(* then the card has no read open.                                         *)
LEMMA InitImplements ==
  ASSUME IInv, IInv', SdInit
  PROVE  DiskLayer!Initialize \/ UNCHANGED contractVars
<1>1. /\ pc \in {"reset", "cmd0", "cmd8", "cmd55", "acmd41", "cmd58"}
      /\ pc' \in {"idle", "failed", "cmd0", "cmd8", "cmd55", "acmd41", "cmd58"}
      /\ pc' = "idle" => pc = "cmd58"
      /\ req' = req /\ res' = res
  BY DEF SdInit, DiskInitialize, Cmd0, Cmd8, Cmd55, Acmd41, Cmd58, SdSendCmd
<1>2. res = "none" /\ data = <<>> /\ data' = <<>> /\ ~sdInit /\ ~tainted
  BY <1>1, ContractFacts DEF ReadPcs, data
<1>3. tainted = FALSE /\ sdInit = FALSE
  BY <1>2, ContractFacts
<1>4. (pc \in ReadPcs) = FALSE /\ (pc' \in ReadPcs) = FALSE
  BY <1>1 DEF ReadPcs
<1>5. CASE pc' = "idle"
  <2>1. card'.stream = "none"
    <3>1. Cmd58 /\ pc = "cmd58"
      BY <1>1, <1>5 DEF SdInit, DiskInitialize, Cmd0, Cmd8, Cmd55, Acmd41
    <3>2. card \in Cards /\ card.stream = "none"
      BY <3>1 DEF IInv, TypeOK, InitPhase
    <3>3. PICK o \in Exchange(card, "CMD58", 0) : SdSendCmd(o) /\ o.r1 = "00"
      BY <1>5, <3>1 DEF Cmd58
    <3>4. o = Answer(card, "CMD58", 0)
      BY <3>2, <3>3, QuietAnswer DEF Sending
    <3>5. o.card = Executed(card, "CMD58", 0)
      BY <3>4 DEF Answer
    <3>6. o.card \in Cards /\ o.card.stream = "none"
      <4>1. "CMD58" \in Commands /\ 0 \in Lbas
        BY CardAssumption DEF Commands, Lbas
      <4>2. Executed(card, "CMD58", 0) \in Cards
        BY <3>2, <4>1, ExecutedType
      <4>3. Executed(card, "CMD58", 0).stream = card.stream
        BY <3>2, ExecutedInit
      <4> QED
        BY <3>2, <3>5, <4>2, <4>3
    <3> QED
      BY <3>3, <3>6, ReleasedType DEF SdSendCmd
  <2>2. sdInit' = TRUE
    BY <1>5 DEF IInv, InitPhase, TypeOK
  <2>3. tainted' = FALSE
    BY <1>4, <2>1, <2>2 DEF tainted
  <2> QED
    BY <1>1, <1>2, <1>3, <1>4, <2>2, <2>3
       DEF DiskLayer!Initialize, data, tainted
<1>6. CASE pc' # "idle"
  <2>1. sdInit' = FALSE
    BY <1>1, <1>6 DEF IInv, InitPhase, TypeOK, ReadPcs
  <2>2. tainted' = FALSE
    BY <1>4, <2>1 DEF tainted
  <2> QED
    BY <1>1, <1>2, <1>3, <1>4, <2>1, <2>2 DEF contractVars
<1> QED
  BY <1>5, <1>6

(* A disk_read begins, or is refused before anything is transferred.       *)
LEMMA StartImplements ==
  ASSUME IInv, IInv', NEW q \in Requests, DiskRead(q)
  PROVE  DiskLayer!Begin(q) \/ DiskLayer!Refuse(q)
<1>1. pc = "idle" /\ req' = q /\ dirty' = (card.stream # "none") /\ sdInit' = sdInit
  BY DEF DiskRead
<1>2. sdInit /\ (pc \in ReadPcs) = FALSE
  BY <1>1, ContractFacts DEF ReadPcs
<1>3. tainted = (card.stream # "none")
  BY <1>1, <1>2 DEF tainted, ReadPcs
<1>4. \/ pc' = "idle" /\ res' = "RES_ERROR"
      \/ pc' = "token" /\ res' = "none"
  BY DEF DiskRead, Return
<1>5. data' = <<>> /\ tainted' \in BOOLEAN
  BY <1>4 DEF data, tainted, ReadPcs, IInv, TypeOK
<1>6. CASE pc' = "idle" /\ res' = "RES_ERROR"
  <2>1. (pc' \in ReadPcs) = FALSE
    BY <1>6 DEF ReadPcs
  <2> QED
    BY <1>1, <1>2, <1>5, <1>6, <2>1 DEF DiskLayer!Refuse, data, tainted
<1>7. CASE pc' = "token" /\ res' = "none"
  <2>1. (pc' \in ReadPcs) = TRUE /\ tainted' = tainted
    BY <1>1, <1>3, <1>7 DEF ReadPcs, tainted
  <2> QED
    BY <1>1, <1>2, <1>5, <1>7, <2>1 DEF DiskLayer!Begin, data, tainted
<1> QED
  BY <1>4, <1>6, <1>7

(* The end of a read that succeeds: all sectors are there, in order if no  *)
(* earlier read was open when it began.                                    *)
LEMMA SucceedImplements ==
  ASSUME IInv, IInv', pc \in ReadPcs, pc' = "idle", res' = "RES_OK",
         Len(buf') = req.count, UNCHANGED <<sdInit, req, dirty>>,
         ~dirty /\ req.count = 1 => card'.stream = "none"
  PROVE  DiskLayer!Succeed
<1>1. /\ (pc \in ReadPcs) = TRUE /\ (pc' \in ReadPcs) = FALSE
      /\ data' = buf' /\ tainted = dirty
  BY DEF ReadPcs, data, tainted
<1>2. buf' \in [1 .. req.count -> BlockValues]
  BY DEF IInv, TypeOK
<1>3. ~dirty => buf' = Blocks(req.lba, req.count)
  BY DEF IInv, ReadSound
<1>4. ~dirty /\ req.count = 1 => ~tainted'
  BY <1>1 DEF tainted
<1>5. tainted' \in BOOLEAN
  BY ContractFacts, <1>1 DEF tainted, IInv, TypeOK
<1> QED
  BY <1>1, <1>2, <1>3, <1>4, <1>5
     DEF DiskLayer!Succeed, DiskLayer!Wanted, Blocks, data, tainted

(* The end of a read that fails.                                           *)
LEMMA FailImplements ==
  ASSUME IInv, IInv', pc \in ReadPcs, pc' = "idle", res' = "RES_ERROR",
         UNCHANGED <<sdInit, req>>
  PROVE  DiskLayer!Fail
<1>1. /\ (pc \in ReadPcs) = TRUE /\ (pc' \in ReadPcs) = FALSE /\ data' = <<>>
  BY DEF ReadPcs, data
<1>2. tainted' \in BOOLEAN
  BY <1>1 DEF tainted, IInv, TypeOK
<1> QED
  BY <1>1, <1>2 DEF DiskLayer!Fail, data, tainted

(* Between them the contract sees nothing.                                 *)
LEMMA TransferImplements ==
  ASSUME IInv, pc \in ReadPcs, pc' \in ReadPcs, UNCHANGED <<sdInit, req, res, dirty>>
  PROVE  UNCHANGED contractVars
<1>1. res = "none" /\ res' = "none"
  BY DEF IInv, ReadPhase, ReadPcs
<1>2. (pc \in ReadPcs) = TRUE /\ (pc' \in ReadPcs) = TRUE
  OBVIOUS
<1> QED
  BY <1>1, <1>2 DEF contractVars, data, tainted

(* A step of a running read.                                               *)
LEMMA ReadImplements ==
  ASSUME IInv, IInv', SdRead
  PROVE  DiskLayer!Succeed \/ DiskLayer!Fail \/ UNCHANGED contractVars
<1>1. CASE ReadBlock
  <2>1. PICK o \in Token(card) :
          \/ Return(o.card, "RES_ERROR")
          \/ /\ o.byte = "FE" /\ buf' = Append(buf, o.block)
             /\ \/ req.count = 1 /\ Return(o.card, "RES_OK")
                \/ pc' \in {"token", "stop"} /\ res' = res
    BY <1>1 DEF ReadBlock
  <2>2. pc = "token" /\ pc \in ReadPcs /\ UNCHANGED <<sdInit, req, dirty>>
    BY <1>1 DEF ReadBlock, ReadPcs
  <2>3. card \in Cards /\ o.card \in Cards /\ o.block \in BlockValues
    BY <2>1, TokenType DEF IInv, TypeOK
  <2>4. CASE Return(o.card, "RES_ERROR")
    BY <2>2, <2>4, FailImplements DEF Return
  <2>5. CASE /\ o.byte = "FE" /\ buf' = Append(buf, o.block)
             /\ req.count = 1 /\ Return(o.card, "RES_OK")
    <3>1. Len(buf) < req.count /\ Len(buf) \in Nat /\ buf \in Seq(BlockValues)
      BY <2>2 DEF IInv, TypeOK, ReadPhase
    <3>2. Len(buf) = 0 /\ Len(buf') = 1
      BY <2>3, <2>5, <3>1
    <3>3. ASSUME ~dirty PROVE card'.stream = "none"
      <4>1. /\ card.stream = "single" /\ ~card.mid /\ card.next = req.lba + Len(buf)
        BY <2>2, <2>5, <3>3 DEF IInv, ReadPhase, Opened
      <4>2. req.lba + req.count <= LastLba + 1 /\ req.lba \in Int /\ LastLba \in Nat
        BY RequestType, CardAssumption DEF IInv, TypeOK, Lbas
      <4>3. InStep(card)
        BY <2>5, <3>2, <4>1, <4>2 DEF InStep, Sending
      <4>4. o = DataToken(card)
        BY <2>1, <2>3, <2>5, <4>3, TokenInStep
      <4>5. o.card.stream = "none"
        BY <2>3, <4>1, <4>3, <4>4, SingleSent
      <4> QED
        BY <2>3, <2>5, <4>5, ReleasedType DEF Return
    <3>4. pc' = "idle" /\ res' = "RES_OK" /\ Len(buf') = req.count
      BY <2>5, <3>2 DEF Return
    <3> QED
      BY <2>2, <3>3, <3>4, SucceedImplements
  <2>6. CASE pc' \in {"token", "stop"} /\ res' = res
    <3>1. pc' \in ReadPcs
      BY <2>6 DEF ReadPcs
    <3> QED
      BY <2>2, <2>6, <3>1, TransferImplements
  <2> QED
    BY <2>1, <2>4, <2>5, <2>6
<1>2. CASE StopTransmission
  <2>1. pc \in ReadPcs /\ UNCHANGED <<sdInit, req, dirty>>
    BY <1>2 DEF StopTransmission, ReadPcs
  <2>2. \/ pc' = "idle" /\ res' = "RES_ERROR"
        \/ pc' = "busy" /\ res' = res
    BY <1>2 DEF StopTransmission, Return
  <2>3. CASE pc' = "idle" /\ res' = "RES_ERROR"
    BY <2>1, <2>3, FailImplements
  <2>4. CASE pc' = "busy" /\ res' = res
    <3>1. pc' \in ReadPcs
      BY <2>4 DEF ReadPcs
    <3> QED
      BY <2>1, <2>4, <3>1, TransferImplements
  <2> QED
    BY <2>2, <2>3, <2>4
<1>3. CASE WaitNotBusy
  <2>1. pc = "busy" /\ pc \in ReadPcs /\ UNCHANGED <<sdInit, req, dirty, buf>>
    BY <1>3 DEF WaitNotBusy, ReadPcs
  <2>2. pc' = "idle" /\ res' \in {"RES_OK", "RES_ERROR"}
    BY <1>3 DEF WaitNotBusy, Return
  <2>3. Len(buf') = req.count /\ req.count > 1 /\ req.count # 1
    BY <2>1, CountAssumption DEF IInv, ReadPhase, TypeOK, Requests
  <2> QED
    BY <2>1, <2>2, <2>3, SucceedImplements, FailImplements
<1> QED
  BY <1>1, <1>2, <1>3 DEF SdRead

(* The steps of the card and the board.                                    *)
LEMMA OtherImplements ==
  ASSUME IInv, IInv', CardPowersUp \/ Restart \/ UNCHANGED vars
  PROVE  DiskLayer!Reset \/ UNCHANGED contractVars
<1>1. CASE CardPowersUp
  <2>1. card'.stream = card.stream
    BY <1>1 DEF CardPowersUp, IInv, TypeOK, Cards
  <2> QED
    BY <1>1, <2>1 DEF CardPowersUp, contractVars, data, tainted
<1>2. CASE Restart
  <2>1. (pc' \in ReadPcs) = FALSE /\ data' = <<>> /\ tainted' = FALSE
    BY <1>2 DEF Restart, ReadPcs, data, tainted
  <2> QED
    BY <1>2, <2>1 DEF Restart, DiskLayer!Reset, data, tainted
<1>3. CASE UNCHANGED vars
  BY <1>3 DEF vars, contractVars, data, tainted
<1> QED
  BY <1>1, <1>2, <1>3

(* Every behaviour of the driver is one the contract of the disk layer     *)
(* allows: up to the calls and results FatFs sees, sd.c and diskio.c do    *)
(* what module Disk says, and nothing else.                                *)
THEOREM DiskContractHolds == Spec => DiskContract
<1>1. Init => DiskLayer!Init
  BY DEF Init, DiskLayer!Init, ReadPcs
<1>2. IInv /\ IInv' /\ [Next]_vars => [DiskLayer!Next]_(DiskLayer!diskVars)
  <2> SUFFICES ASSUME IInv, IInv', [Next]_vars
               PROVE  DiskLayer!Next \/ UNCHANGED contractVars
    BY DEF contractVars, DiskLayer!diskVars, data, tainted
  <2>1. ASSUME NEW q \in Requests, DiskRead(q) PROVE DiskLayer!Next
    <3>1. q \in [lba : Lbas, count : 1 .. MaxCount]
      BY DEF Requests
    <3> QED
      BY <2>1, <3>1, StartImplements DEF DiskLayer!Next
  <2>2. CASE SdInit
    BY <2>2, InitImplements DEF DiskLayer!Next
  <2>3. CASE SdRead
    BY <2>3, ReadImplements DEF DiskLayer!Next
  <2>4. CASE CardPowersUp \/ Restart \/ UNCHANGED vars
    BY <2>4, OtherImplements DEF DiskLayer!Next
  <2> QED
    BY <2>1, <2>2, <2>3, <2>4 DEF Next
<1> QED
  BY <1>1, <1>2, Invariance, PTL DEF Spec, DiskContract, DiskLayer!Spec
=============================================================================
