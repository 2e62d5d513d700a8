------------------------------- MODULE SdCard -------------------------------
(***************************************************************************)
(* The SD card on the SPI bus, as the driver in sd.c sees it.  The card is *)
(* not part of the repository: these operators say, for each thing the     *)
(* driver does on the bus, in which states the card may be afterwards and  *)
(* what the driver may have read meanwhile.                                *)
(*                                                                         *)
(* Bytes are abstracted to the classes the driver tells apart:             *)
(*   "00", "01"  those values       "low"   another value with bit 7 clear *)
(*   "FE", "FF"  those values       "high"  another value with bit 7 set   *)
(* Four-byte answer tails to what sd_init tests: "echo" is 0x000001AA,     *)
(* "ccs" has bit 30 set, "sc" has it clear.                                *)
(* A block of 512 bytes is the number of the block it is a copy of, or     *)
(* Misframed when it is cut out of the middle of something else.           *)
(***************************************************************************)
EXTENDS Integers

CONSTANTS LastLba,   \* number of the last block of the card
          Faults     \* what may go wrong, a subset of FaultKinds

FaultKinds == {"lost",    \* a command does not reach the card
               "stall",   \* a token, or the end of busy, later than 100 ms
               "error"}   \* the card answers a read with an error

ASSUME CardAssumption == LastLba \in Nat /\ Faults \subseteq FaultKinds

Bytes == {"00", "01", "low", "high", "FE", "FF"}
Tails == {"none", "echo", "ccs", "sc"}
Commands == {"CMD0", "CMD8", "CMD12", "CMD17", "CMD18", "CMD55", "ACMD41",
             "CMD58"}

Lbas == 0 .. LastLba
Misframed == -1
BlockValues == Lbas \cup {Misframed}

Cards ==
  [kind   : {"v1", "SDSC", "SDHC"},
   power  : {"raw", "idle", "ready"},   \* before CMD0; idle state; operational
   up     : BOOLEAN,                    \* internal power-up has finished
   app    : BOOLEAN,                    \* the next command is an ACMD
   stream : {"none", "single", "multi", \* read whose data are still to be sent
             "halted"},                 \* CMD18 that failed, waits for CMD12
   next   : 0 .. LastLba + 1,           \* block that is sent next
   mid    : BOOLEAN]                    \* the host lost the framing of it

Sending(c) == c.stream \in {"single", "multi"}

-----------------------------------------------------------------------------
R1(c) == IF c.power = "ready" THEN "00" ELSE "01"

(* The state in which the card is after it executed a command.             *)
Executed(c, cmd, lba) ==
  CASE cmd = "CMD0" ->
         [c EXCEPT !.power = "idle", !.up = FALSE, !.app = FALSE,
                   !.stream = "none", !.mid = FALSE]
    [] cmd = "CMD55" -> [c EXCEPT !.app = TRUE]
    [] cmd = "ACMD41" ->
         [c EXCEPT !.app = FALSE,
                   !.power = IF c.app /\ c.up THEN "ready" ELSE @]
    [] cmd \in {"CMD17", "CMD18"} /\ c.power = "ready" ->
         [c EXCEPT !.app = FALSE, !.mid = FALSE, !.next = lba,
                   !.stream = IF cmd = "CMD17" THEN "single" ELSE "multi"]
    [] cmd = "CMD12" -> [c EXCEPT !.app = FALSE, !.stream = "none", !.mid = FALSE]
    [] OTHER -> [c EXCEPT !.app = FALSE]

(* Commands the card refuses with an error bit in R1.                      *)
Illegal(c, cmd) ==
  \/ cmd = "CMD8" /\ c.kind = "v1"
  \/ cmd = "ACMD41" /\ ~c.app
  \/ cmd \in {"CMD17", "CMD18"} /\ c.power # "ready"
  \/ cmd = "CMD12" /\ c.stream = "none"

AnswerTail(c, cmd) ==
  CASE cmd = "CMD8"  -> "echo"
    [] cmd = "CMD58" -> IF c.power = "ready" /\ c.kind = "SDHC" THEN "ccs" ELSE "sc"
    [] OTHER         -> "none"

(* The answer of a card that executes the command.                         *)
Answer(c, cmd, lba) ==
  [card  |-> Executed(c, cmd, lba),
   r1    |-> IF Illegal(c, cmd) THEN "low" ELSE R1(Executed(c, cmd, lba)),
   tail  |-> AnswerTail(c, cmd),
   fault |-> FALSE]

(* The same, but with an error bit in R1; a read is then not started.      *)
Refusal(c, cmd) ==
  [card  |-> IF cmd = "CMD12" THEN Executed(c, cmd, 0) ELSE [c EXCEPT !.app = FALSE],
   r1    |-> "low",
   tail  |-> "none",
   fault |-> TRUE]

(* While a read is open the host clocks its data out, whatever it believes *)
(* to receive: afterwards the card is anywhere in, or at the end of, them. *)
Drained(c) ==
  CASE ~Sending(c)         -> {c}
    [] c.stream = "single" -> {[c EXCEPT !.mid = TRUE],
                               [c EXCEPT !.stream = "none", !.mid = FALSE]}
    [] c.stream = "multi"  -> {[c EXCEPT !.next = at[1], !.mid = at[2]] :
                               at \in (c.next .. LastLba + 1) \X BOOLEAN}

(* Before CMD0 the card knows no other command, and while it sends the     *)
(* data of a read only CMD12 and CMD0 interrupt it.                        *)
Accepts(c, cmd) ==
  /\ c.power = "raw" => cmd = "CMD0"
  /\ c.stream # "none" => cmd \in {"CMD0", "CMD12"}

(* What the host reads for an answer when the card does not execute the    *)
(* command: nothing, or any byte of the data that is being sent.           *)
(* (The 32 bits of the echo are never met in data by accident.)  It is the *)
(* card's fault if it could have executed it.                              *)
Unheard(c, cmd) ==
  [card  : Drained(c),
   r1    : IF Sending(c) THEN Bytes ELSE {"FF"},
   tail  : IF Sending(c) THEN Tails \ {"echo"} ELSE {"none"},
   fault : {Accepts(c, cmd)}]

(* One command frame and the wait for its R1 and answer tail.              *)
Exchange(c, cmd, lba) ==
  LET reads == {"CMD12", "CMD17", "CMD18"}
  IN  IF ~Accepts(c, cmd)
      THEN Unheard(c, cmd)
      ELSE {Answer(c, cmd, lba)}
             \cup (IF "lost" \in Faults THEN Unheard(c, cmd) ELSE {})
             \cup (IF "error" \in Faults /\ cmd \in reads THEN {Refusal(c, cmd)} ELSE {})

(* The card has a block to send, and the host expects a token.             *)
InStep(c) == Sending(c) /\ ~c.mid /\ c.next <= LastLba

BlockSent(c) ==
  IF c.stream = "single"
  THEN [c EXCEPT !.stream = "none"] ELSE [c EXCEPT !.next = c.next + 1]

ReadEnded(c) ==
  [c EXCEPT !.stream = IF c.stream = "single" THEN "none" ELSE "halted"]

LateToken(c) ==
  [card |-> c, byte |-> "FF", block |-> Misframed, fault |-> InStep(c)]

ErrorToken(c) ==
  [card |-> ReadEnded(c), byte |-> "low", block |-> Misframed, fault |-> InStep(c)]

DataToken(c) ==
  [card |-> BlockSent(c), byte |-> "FE", block |-> c.next, fault |-> FALSE]

(* The wait for a data token and, if it is one (0xFE), the 512 bytes and   *)
(* the CRC that the host clocks out after it.  Without a fault the token   *)
(* comes within 100 ms, which the host waits for.                          *)
Token(c) ==
  IF InStep(c)
  THEN {DataToken(c)} \cup (IF "stall" \in Faults THEN {LateToken(c)} ELSE {})
                     \cup (IF "error" \in Faults THEN {ErrorToken(c)} ELSE {})
  ELSE IF Sending(c) /\ c.mid
       THEN [card : Drained(c), byte : Bytes, block : {Misframed}, fault : {FALSE}]
       ELSE {LateToken(c)} \cup (IF Sending(c) THEN {ErrorToken(c)} ELSE {})

(* The wait for the end of the busy signal after CMD12 ("FF").             *)
Settle(c) ==
  IF Sending(c)
  THEN [card : Drained(c), byte : Bytes, fault : {FALSE}]
  ELSE {[card |-> c, byte |-> "FF", fault |-> FALSE]}
         \cup (IF "stall" \in Faults
               THEN {[card |-> c, byte |-> "00", fault |-> TRUE]} ELSE {})

(* Deselecting a card in the middle of a read may end the read, or leave   *)
(* it to go on with the next select.                                       *)
Released(c) == {c, [c EXCEPT !.stream = "none", !.mid = FALSE]}
=============================================================================
