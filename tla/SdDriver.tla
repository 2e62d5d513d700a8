------------------------------ MODULE SdDriver ------------------------------
(***************************************************************************)
(* The SD card driver: sd.c, and the disk_initialize, disk_status and      *)
(* disk_read of diskio.c through which FatFs calls it, against the card of *)
(* module SdCard.  A step is one command with the wait for its answer, one *)
(* wait for a data token with the block behind it, or one wait for the end *)
(* of busy; all of them run to completion on the single hart.  Between     *)
(* two steps the card may finish its power-up, and the board may be reset, *)
(* which restarts the boot loader but does not take power from the card.   *)
(***************************************************************************)
EXTENDS SdCard, Sequences

CONSTANT MaxCount   \* bound on the blocks of one read

ASSUME CountAssumption == MaxCount \in Nat \ {0}

VARIABLES
  card,
  pc,        \* where the driver is; "idle": between two disk_ calls
  selected,  \* chip select of the card
  sdInit,    \* SD_init of diskio.c
  r1,        \* the local r1 of sd_init and sd_read_block
  req,       \* sector and count of the current, or last, disk_read
  buf,       \* blocks stored into the caller's buffer by that call
  res,       \* its result
  dirty,     \* history: a read was open on the card when that call began
  trouble    \* history: since the reset the card did not do its part

vars == <<card, pc, selected, sdInit, r1, req, buf, res, dirty, trouble>>

InitPcs == {"cmd0", "cmd8", "cmd55", "acmd41", "cmd58"}
ReadPcs == {"token", "stop", "busy"}
Requests == {q \in [lba : Lbas, count : 1 .. MaxCount] : q.lba + q.count <= LastLba + 1}
Blocks(lba, count) == [i \in 1 .. count |-> lba + i - 1]

TypeOK ==
  /\ card \in Cards
  /\ pc \in {"reset", "idle", "failed"} \cup InitPcs \cup ReadPcs
  /\ selected \in BOOLEAN
  /\ sdInit \in BOOLEAN
  /\ r1 \in Bytes
  /\ req \in Requests
  /\ buf \in Seq(BlockValues) /\ Len(buf) <= req.count
  /\ res \in {"none", "RES_OK", "RES_ERROR"}
  /\ dirty \in BOOLEAN
  /\ trouble \in BOOLEAN

(* Freshly powered, or left over from before a reset of the board.         *)
Init ==
  /\ card \in {c \in Cards : /\ c.stream # "none" => c.power = "ready"
                             /\ c.power = "ready" => c.up
                             /\ c.power = "raw" => ~c.up
                             /\ c.mid => Sending(c)
                             /\ c.stream = "none" => c.next = 0}
  /\ pc = "reset" /\ selected = FALSE /\ sdInit = FALSE /\ r1 = "FF"
  /\ req = [lba |-> 0, count |-> 1] /\ buf = <<>> /\ res = "none"
  /\ dirty = FALSE /\ trouble = FALSE

-----------------------------------------------------------------------------
(* sd_send_cmd: without an answer it returns -1 and leaves the card        *)
(* selected; otherwise it hands over the byte it took for R1 and deselects.*)
SdSendCmd(o) ==
  /\ \/ /\ o.r1 = "FF"
        /\ card' = o.card /\ selected' = TRUE
        /\ UNCHANGED r1
     \/ /\ o.r1 # "FF"
        /\ card' \in Released(o.card) /\ selected' = FALSE
        /\ r1' = o.r1
  /\ trouble' = (trouble \/ o.fault)
  /\ UNCHANGED <<req, buf, res, dirty>>

(* disk_initialize calls sd_init: deselect, wait and give the card its     *)
(* first clocks.                                                           *)
DiskInitialize ==
  /\ pc = "reset"
  /\ card' \in Released(card) /\ selected' = FALSE
  /\ pc' = "cmd0"
  /\ UNCHANGED <<sdInit, r1, req, buf, res, dirty, trouble>>

Cmd0 ==
  /\ pc = "cmd0"
  /\ \E o \in Exchange(card, "CMD0", 0) :
       /\ SdSendCmd(o)
       /\ pc' = IF o.r1 = "01" THEN "cmd8" ELSE "failed"
  /\ UNCHANGED sdInit

Cmd8 ==
  /\ pc = "cmd8"
  /\ \E o \in Exchange(card, "CMD8", 0) :
       /\ SdSendCmd(o)
       /\ pc' = IF o.r1 = "01" /\ o.tail = "echo" THEN "cmd55" ELSE "failed"
  /\ UNCHANGED sdInit

Cmd55 ==
  /\ pc = "cmd55"
  /\ \E o \in Exchange(card, "CMD55", 0) :
       /\ SdSendCmd(o)
       /\ pc' = IF o.r1 \in {"00", "01"} THEN "acmd41" ELSE "failed"
  /\ UNCHANGED sdInit

(* Mutant: polls until R1 is 00, whatever else is answered or not.         *)
Acmd41UntilReady ==
  /\ pc = "acmd41"
  /\ \E o \in Exchange(card, "ACMD41", 0) :
       /\ SdSendCmd(o)
       /\ pc' = IF o.r1 = "00" THEN "cmd58" ELSE "cmd55"
  /\ UNCHANGED sdInit

Acmd41 ==
  /\ pc = "acmd41"
  /\ \E o \in Exchange(card, "ACMD41", 0) :
       /\ SdSendCmd(o)
       /\ pc' = CASE o.r1 = "01" -> "cmd55"
                  [] o.r1 = "00" -> "cmd58"
                  [] OTHER       -> "failed"
  /\ UNCHANGED sdInit

(* Mutant: an answered CMD58 is enough, the capacity bit is not looked at. *)
Cmd58AnyCapacity ==
  /\ pc = "cmd58"
  /\ \E o \in Exchange(card, "CMD58", 0) :
       /\ SdSendCmd(o)
       /\ sdInit' = (sdInit \/ o.r1 = "00")
       /\ pc' = IF o.r1 = "00" THEN "idle" ELSE "failed"

(* The last command of sd_init; disk_initialize sets SD_init.              *)
Cmd58 ==
  /\ pc = "cmd58"
  /\ \E o \in Exchange(card, "CMD58", 0) :
       /\ SdSendCmd(o)
       /\ LET good == o.r1 = "00" /\ o.tail = "ccs"
          IN  /\ sdInit' = (sdInit \/ good)
              /\ pc' = IF good THEN "idle" ELSE "failed"

-----------------------------------------------------------------------------
(* Every exit of sd_read_block deselects the card; disk_read turns its     *)
(* result into RES_OK or RES_ERROR.                                        *)
Return(c, result) ==
  /\ card' \in Released(c) /\ selected' = FALSE
  /\ res' = result
  /\ pc' = "idle"

(* The call of disk_read up to the answer of CMD17, or of CMD18 for more   *)
(* than one block: no answer, or one other than 00, ends the call.         *)
DiskRead(q) ==
  /\ pc = "idle"
  /\ req' = q /\ buf' = <<>>
  /\ dirty' = (card.stream # "none")
  /\ \E o \in Exchange(card, IF q.count = 1 THEN "CMD17" ELSE "CMD18", q.lba) :
       /\ r1' = o.r1
       /\ trouble' = (trouble \/ o.fault)
       /\ \/ /\ o.r1 # "00"
             /\ Return(o.card, "RES_ERROR")
          \/ /\ o.r1 = "00"
             /\ card' = o.card /\ selected' = TRUE
             /\ res' = "none"
             /\ pc' = "token"
  /\ UNCHANGED sdInit

(* The mutants of ReadBlock differ from it in what they do with a byte     *)
(* that is no token, in the number of blocks they read, and in what they   *)
(* do after the last one.                                                  *)
ReadBlockBut(isToken(_), Refused(_), more(_), after) ==
  /\ pc = "token"
  /\ \E o \in Token(card) :
       /\ trouble' = (trouble \/ o.fault)
       /\ \/ /\ ~isToken(o.byte)
             /\ Refused(o.card)
             /\ UNCHANGED buf
          \/ /\ isToken(o.byte)
             /\ buf' = Append(buf, o.block)
             /\ \/ req.count = 1 /\ Return(o.card, "RES_OK")
                \/ /\ req.count > 1
                   /\ card' = o.card
                   /\ pc' = IF more(Len(buf')) THEN "token" ELSE after
                   /\ UNCHANGED <<selected, res>>
  /\ UNCHANGED <<sdInit, r1, req, dirty>>

Fails(c) == Return(c, "RES_ERROR")
IsFE(b) == b = "FE"
MoreBlocks(n) == n < req.count

(* Mutant: every byte other than FF counts as the token.                   *)
ReadBlockAnyToken ==
  ReadBlockBut(LAMBDA b : b # "FF", Fails, MoreBlocks, "stop")

(* Mutant: no CMD12 after the last block.                                  *)
ReadBlockNoStop == ReadBlockBut(IsFE, Fails, MoreBlocks, "busy")

(* Mutant: the error exit does not deselect the card.                      *)
ReadBlockLeavesSelected ==
  ReadBlockBut(IsFE, LAMBDA c : /\ card' = c /\ pc' = "idle" /\ res' = "RES_ERROR"
                                /\ UNCHANGED selected,
               MoreBlocks, "stop")

(* Mutant: waits for the token without a timeout.                          *)
ReadBlockNoTimeout ==
  ReadBlockBut(IsFE, LAMBDA c : card' = c /\ UNCHANGED <<pc, res, selected>>,
               MoreBlocks, "stop")

(* Mutant: a failed token wait ends the loop instead of the call.          *)
ReadBlockPartialOk ==
  ReadBlockBut(IsFE, LAMBDA c : Return(c, "RES_OK"), MoreBlocks, "stop")

(* One block: the wait for the token and the 512 bytes.  A timeout or any  *)
(* other byte ends the call, without CMD12 whatever the count.             *)
ReadBlock ==
  /\ pc = "token"
  /\ \E o \in Token(card) :
       /\ trouble' = (trouble \/ o.fault)
       /\ \/ /\ o.byte # "FE"
             /\ Return(o.card, "RES_ERROR")
             /\ UNCHANGED buf
          \/ /\ o.byte = "FE"
             /\ buf' = Append(buf, o.block)
             /\ \/ req.count = 1 /\ Return(o.card, "RES_OK")
                \/ /\ req.count > 1
                   /\ card' = o.card
                   /\ pc' = IF Len(buf') = req.count THEN "stop" ELSE "token"
                   /\ UNCHANGED <<selected, res>>
  /\ UNCHANGED <<sdInit, r1, req, dirty>>

(* sd_send_cmd12, whose result is ignored: after a timeout r1 still is the *)
(* answer of CMD18.                                                        *)
StopTransmission ==
  /\ pc = "stop"
  /\ \E o \in Exchange(card, "CMD12", 0) :
       /\ r1' = IF o.r1 \in {"00", "01", "low"} THEN o.r1 ELSE r1
       /\ trouble' = (trouble \/ o.fault)
       /\ \/ /\ r1' # "00"
             /\ Return(o.card, "RES_ERROR")
          \/ /\ r1' = "00"
             /\ card' = o.card
             /\ pc' = "busy"
             /\ UNCHANGED <<selected, res>>
  /\ UNCHANGED <<sdInit, req, buf, dirty>>

WaitNotBusy ==
  /\ pc = "busy"
  /\ \E o \in Settle(card) :
       /\ trouble' = (trouble \/ o.fault)
       /\ Return(o.card, IF o.byte = "FF" THEN "RES_OK" ELSE "RES_ERROR")
  /\ UNCHANGED <<sdInit, r1, req, buf, dirty>>

-----------------------------------------------------------------------------
(* The card finishes its internal power-up, which ACMD41 polls for.        *)
CardPowersUp ==
  /\ card.power = "idle" /\ ~card.up
  /\ card' = [card EXCEPT !.up = TRUE]
  /\ UNCHANGED <<pc, selected, sdInit, r1, req, buf, res, dirty, trouble>>

(* The board is reset, the card is not.                                    *)
Restart ==
  /\ pc' = "reset" /\ selected' = FALSE /\ sdInit' = FALSE /\ r1' = "FF"
  /\ req' = [lba |-> 0, count |-> 1] /\ buf' = <<>> /\ res' = "none"
  /\ dirty' = FALSE /\ trouble' = FALSE
  /\ UNCHANGED card

SdInit == DiskInitialize \/ Cmd0 \/ Cmd8 \/ Cmd55 \/ Acmd41 \/ Cmd58
SdRead == ReadBlock \/ StopTransmission \/ WaitNotBusy

Next ==
  \/ SdInit
  \/ \E q \in Requests : DiskRead(q)
  \/ SdRead
  \/ CardPowersUp
  \/ Restart

Spec == Init /\ [][Next]_vars

(* A call that has begun goes on (one hart, no interrupts), and a card     *)
(* that is polled finishes its power-up.  No reset and no call is promised.*)
FairSpec == Spec /\ WF_vars(SdInit \/ SdRead) /\ WF_vars(CardPowersUp)

-----------------------------------------------------------------------------
(* disk_read's promise to FatFs: RES_OK means that the buffer holds the    *)
(* requested sectors, in order.  (sd.c:337-421; it takes it for granted    *)
(* that no earlier read is still open on the card.)                        *)
ReadSound ==
  pc = "idle" /\ res = "RES_OK" /\ ~dirty => buf = Blocks(req.lba, req.count)

(* SD_init, which disk_status reports, is only ever true of an SDHC card   *)
(* in its operational state, even if the card was in the middle of a read  *)
(* when the board was reset (sd.c:25-131, diskio.c:60-62).                 *)
InitSound == sdInit => card.power = "ready" /\ card.kind = "SDHC"

(* With a card that does its part nothing goes wrong: an SDHC card is      *)
(* always initialised, every read succeeds, and no read stays open between *)
(* two calls - from whatever state the card was in at the reset.           *)
NoFailureWithoutTrouble ==
  ~trouble => /\ pc = "failed" => card.kind # "SDHC"
              /\ res # "RES_ERROR"
              /\ pc = "idle" => card.stream = "none"

(* The card is selected between two calls of FatFs only after a failed     *)
(* sd_init, which leaves it so when a command is not answered.             *)
Deselected == pc = "idle" => ~selected

(* sd_init ends, though it polls ACMD41 without a limit (sd.c:83-97),      *)
InitEnds == pc = "cmd0" ~> pc \in {"idle", "failed", "reset"}

(* and so does every read, whatever the card does or leaves undone.        *)
ReadEnds == pc = "token" ~> pc \in {"idle", "reset"}

(* so that every call of the disk layer ends.                              *)
CallsEnd == InitEnds /\ ReadEnds

(* The driver implements the contract of module Disk.  The buffer counts   *)
(* when the call succeeded; during a call the disk is as tainted as it was *)
(* when the call began, between calls it is if the card has a read open.   *)
DiskLayer == INSTANCE Disk WITH
  Sectors <- Lbas,
  Values  <- BlockValues,
  up      <- sdInit,
  busy    <- pc \in ReadPcs,
  request <- req,
  result  <- res,
  data    <- IF res = "RES_OK" THEN buf ELSE <<>>,
  tainted <- IF pc \in ReadPcs THEN dirty ELSE sdInit /\ card.stream # "none"

(* Every behaviour of the driver is one the contract allows.               *)
DiskContract == DiskLayer!Spec

(* What the documentation of the disk layer says of disk_read without any  *)
(* condition: "RES_OK (0) The function succeeded."                         *)
ReadTruth == pc = "idle" /\ res = "RES_OK" => buf = Blocks(req.lba, req.count)

(* What "//End transfer" (sd.c:392) says of a multi-block read that did    *)
(* not return early: the transfer has ended.  It does not hold (README, 7).*)
EndTransfer ==
  pc = "idle" /\ res = "RES_OK" /\ req.count > 1 /\ ~dirty => card.stream = "none"
=============================================================================
