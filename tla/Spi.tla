-------------------------------- MODULE Spi --------------------------------
(***************************************************************************)
(* spi.c over the FIFOs of the SPI controller.  A byte that is written to  *)
(* the transmit FIFO moves into the shift register, and is exchanged there *)
(* for a byte of the slave, which arrives in the receive FIFO; all of that *)
(* happens while the driver polls the status register.  The driver reads   *)
(* TX_EMPTY and RX_EMPTY in two reads of that register.                    *)
(***************************************************************************)
EXTENDS Integers, Sequences

CONSTANTS Bytes,    \* values of a byte
          Depth     \* entries of each FIFO

Nothing == -1   \* what is read from an empty FIFO

ASSUME SpiAssumption == Depth \in Nat \ {0} /\ Bytes # {} /\ Bytes \subseteq Nat

VARIABLES
  tx, rx,     \* the FIFOs
  shift,      \* a byte is in the shift register
  pc,         \* "off" before spi_init, else where spi_transfer is
  selected,   \* the chip select is active
  tx_data,    \* the argument of spi_transfer
  rx_data,    \* what the last call returned
  answer      \* history: what the slave sent last

vars == <<tx, rx, shift, pc, selected, tx_data, rx_data, answer>>

AnyByte == CHOOSE b \in Bytes : TRUE

TypeOK ==
  /\ tx \in Seq(Bytes) /\ Len(tx) <= Depth
  /\ rx \in Seq(Bytes) /\ Len(rx) <= Depth
  /\ shift \in BOOLEAN
  /\ pc \in {"off", "idle", "tx_empty", "rx_empty", "write", "wait", "read"}
  /\ selected \in BOOLEAN
  /\ tx_data \in Bytes /\ rx_data \in Bytes /\ answer \in Bytes

UpTo(n) == UNION {[1 .. k -> Bytes] : k \in 0 .. n}

(* The boot loader may have been restarted while the controller was busy.  *)
Init ==
  /\ tx \in UpTo(Depth) /\ rx \in UpTo(Depth)
  /\ shift \in BOOLEAN
  /\ pc = "off" /\ selected \in BOOLEAN
  /\ tx_data = AnyByte /\ rx_data = AnyByte /\ answer = AnyByte

-----------------------------------------------------------------------------
(* The controller.                                                         *)
StartShift ==
  /\ tx # <<>> /\ ~shift
  /\ tx' = Tail(tx) /\ shift' = TRUE
  /\ UNCHANGED <<rx, pc, selected, tx_data, rx_data, answer>>

(* A byte that arrives when the receive FIFO is full is lost.              *)
EndShift ==
  /\ shift
  /\ shift' = FALSE
  /\ \E b \in Bytes :
       /\ answer' = b
       /\ rx' = IF Len(rx) < Depth THEN Append(rx, b) ELSE rx
  /\ UNCHANGED <<tx, pc, selected, tx_data, rx_data>>

Controller == StartShift \/ EndShift

-----------------------------------------------------------------------------
(* Mutant: spi_init does not reset the controller.                         *)
SpiInitNoReset ==
  /\ pc = "off"
  /\ pc' = "idle"
  /\ UNCHANGED <<tx, rx, shift, selected, tx_data, rx_data, answer>>

(* The reset empties the FIFOs, stops the shift register and deselects.    *)
SpiInit ==
  /\ pc = "off"
  /\ tx' = <<>> /\ rx' = <<>> /\ shift' = FALSE /\ selected' = FALSE
  /\ pc' = "idle"
  /\ UNCHANGED <<tx_data, rx_data, answer>>

Select(on) ==
  /\ pc = "idle"
  /\ selected' = on
  /\ UNCHANGED <<tx, rx, shift, pc, tx_data, rx_data, answer>>

Transfer(b) ==
  /\ pc = "idle"
  /\ tx_data' = b
  /\ pc' = "tx_empty"
  /\ UNCHANGED <<tx, rx, shift, selected, rx_data, answer>>

(* while(!TX_EMPTY || !RX_EMPTY): one read of the status for each.         *)
WaitTxEmpty ==
  /\ pc = "tx_empty"
  /\ tx = <<>>
  /\ pc' = "rx_empty"
  /\ UNCHANGED <<tx, rx, shift, selected, tx_data, rx_data, answer>>

WaitRxEmpty ==
  /\ pc = "rx_empty"
  /\ pc' = IF rx = <<>> THEN "write" ELSE "tx_empty"
  /\ UNCHANGED <<tx, rx, shift, selected, tx_data, rx_data, answer>>

(* Mutant: does not wait for the received byte, as for a write-only bus.   *)
WriteTxOnly ==
  /\ pc = "write"
  /\ tx' = IF Len(tx) < Depth THEN Append(tx, tx_data) ELSE tx
  /\ pc' = "idle"
  /\ UNCHANGED <<rx, shift, selected, tx_data, rx_data, answer>>

(* Mutant: the byte is written twice.                                      *)
WriteTxTwice ==
  /\ pc = "write"
  /\ tx' = tx \o <<tx_data, tx_data>>
  /\ pc' = "wait"
  /\ UNCHANGED <<rx, shift, selected, tx_data, rx_data, answer>>

WriteTx ==
  /\ pc = "write"
  /\ tx' = IF Len(tx) < Depth THEN Append(tx, tx_data) ELSE tx
  /\ pc' = "wait"
  /\ UNCHANGED <<rx, shift, selected, tx_data, rx_data, answer>>

WaitRx ==
  /\ pc = "wait"
  /\ rx # <<>>
  /\ pc' = "read"
  /\ UNCHANGED <<tx, rx, shift, selected, tx_data, rx_data, answer>>

ReadRx ==
  /\ pc = "read"
  /\ rx_data' = IF rx = <<>> THEN Nothing ELSE Head(rx)
  /\ rx' = IF rx = <<>> THEN rx ELSE Tail(rx)
  /\ pc' = "idle"
  /\ UNCHANGED <<tx, shift, selected, tx_data, answer>>

(* The board is reset; the controller keeps what it has.                   *)
Restart ==
  /\ pc' = "off"
  /\ UNCHANGED <<tx, rx, shift, selected, tx_data, rx_data, answer>>

Driver == WaitTxEmpty \/ WaitRxEmpty \/ WriteTx \/ WaitRx \/ ReadRx

Next ==
  \/ Controller
  \/ SpiInit
  \/ \E on \in BOOLEAN : Select(on)
  \/ \E b \in Bytes : Transfer(b)
  \/ Driver
  \/ Restart

Spec == Init /\ [][Next]_vars

(* The driver polls, and the controller, which is never inhibited, shifts. *)
FairSpec == Spec /\ WF_vars(Controller) /\ WF_vars(Driver)

-----------------------------------------------------------------------------
Quiet == tx = <<>> /\ rx = <<>> /\ ~shift

(* spi_transfer is a full-duplex exchange: it returns the byte that the    *)
(* slave sent during this very byte.  One byte left behind would put every *)
(* later answer of the card one byte late (spi.c:124-138).                 *)
AnswerOfThisByte == [][pc = "read" /\ pc' = "idle" => rx_data' = answer]_vars

(* Between two calls nothing is in flight, so that the chip select, which  *)
(* is a plain register write, never changes in the middle of a byte.       *)
QuietBetweenCalls == pc = "idle" => Quiet

(* Every transfer ends, with whatever the controller held at the reset.    *)
TransferEnds == pc = "tx_empty" ~> pc \in {"idle", "off"}
=============================================================================
