------------------------------- MODULE Serial -------------------------------
(***************************************************************************)
(* serial.c over the UART: a transmit FIFO that drops what is written to   *)
(* it when it is full, a shift register behind it, and a receive FIFO that *)
(* drops what arrives when it is full.  The driver polls the status bits.  *)
(***************************************************************************)
EXTENDS Integers, Sequences, SequencesExt

CONSTANTS Depth,    \* entries of each FIFO
          Radix,    \* 16 in the code
          Nums,     \* numbers that are printed
          Label,    \* the string before a number
          Size      \* of outbuf: 32 in the code

Digits == 0 .. Radix - 1
NewLine == Radix
Garbage == Radix + 1  \* 'B', which serial_init writes before its reset
None == -1            \* serial_getchar's answer when nothing has come

Chars == Digits \cup {NewLine, Garbage} \cup Range(Label)

(* Numbers of k digits are below Power(k).                                 *)
Power(k) ==
  LET power[i \in 0 .. k] == IF i = 0 THEN 1 ELSE Radix * power[i - 1]
  IN  power[k]

(* outbuf has room for the digits of an unsigned long, a newline and a 0.  *)
SerialAssumption ==
  /\ Depth \in Nat \ {0} /\ Radix \in Nat \ {0, 1} /\ Size \in Nat \ 0 .. 2
  /\ Nums \subseteq Nat /\ \A n \in Nums : n < Power(Size - 2)
  /\ Label \in Seq(Nat)

VARIABLES
  pc,         \* "off", "reset", "idle", "full", "write", "read"
  tx, shift,  \* the transmit FIFO, and the shift register: <<>> or <<char>>
  old,        \* the shift register's character is of before serial_init
  rx,         \* the receive FIFO
  rest,       \* characters that serial_putstr_hex has yet to write
  num,        \* its argument
  result,     \* of the last serial_getchar
  owed,       \* history: what was written and is not yet on the line
  said        \* history: what the last serial_putstr_hex wrote

vars == <<pc, tx, shift, old, rx, rest, num, result, owed, said>>
uart == <<tx, shift, old, rx>>

TypeOK ==
  /\ pc \in {"off", "reset", "idle", "full", "write", "read"}
  /\ \A q \in {tx, rx} : q \in Seq(Chars) /\ Len(q) <= Depth
  /\ shift \in {<<>>} \cup {<<ch>> : ch \in Chars}
  /\ old \in BOOLEAN /\ (shift = <<>> => ~old)
  /\ rest \in Seq(Chars) /\ said \in Seq(Chars) /\ owed \in Seq(Chars)
  /\ pc \in {"full", "write"} <=> rest # <<>>
  /\ num \in Nums \cup {None} /\ result \in Digits \cup {None}

(* The UART may still be sending when the boot loader is restarted.        *)
Init ==
  /\ pc = "off"
  /\ tx \in {[k \in 1 .. n |-> Garbage] : n \in 0 .. Depth}
  /\ shift \in {<<>>, <<Garbage>>} /\ old = (shift # <<>>)
  /\ rx = <<>> /\ rest = <<>> /\ num = None /\ result = None
  /\ owed = <<>> /\ said = <<>>

-----------------------------------------------------------------------------
(* The UART.                                                               *)
StartShift ==
  /\ tx # <<>> /\ shift = <<>>
  /\ shift' = <<Head(tx)>> /\ old' = FALSE /\ tx' = Tail(tx)
  /\ UNCHANGED <<pc, rx, rest, num, result, owed, said>>

(* A character is on the line.                                             *)
EndShift ==
  /\ shift # <<>>
  /\ shift' = <<>> /\ old' = FALSE
  /\ owed' = IF old \/ owed = <<>> THEN owed ELSE Tail(owed)
  /\ UNCHANGED <<pc, tx, rx, rest, num, result, said>>

Arrive ==
  /\ \E ch \in Digits : rx' = IF Len(rx) < Depth THEN Append(rx, ch) ELSE rx
  /\ UNCHANGED <<pc, tx, shift, old, rest, num, result, owed, said>>

Put(ch) == tx' = IF Len(tx) < Depth THEN Append(tx, ch) ELSE tx

-----------------------------------------------------------------------------
(* serial_init writes a character and then empties the FIFOs; what is in   *)
(* the shift register may be finished or not.                              *)
InitWrites ==
  /\ pc = "off"
  /\ Put(Garbage)
  /\ pc' = "reset"
  /\ UNCHANGED <<shift, old, rx, rest, num, result, owed, said>>

InitResets ==
  /\ pc = "reset"
  /\ tx' = <<>> /\ rx' = <<>> /\ shift' \in {shift, <<>>} /\ old' = (shift' # <<>>)
  /\ pc' = "idle"
  /\ UNCHANGED <<rest, num, result, owed, said>>

-----------------------------------------------------------------------------
(* The digits of a number, built from the last one backwards.              *)

(* Mutant: while, not do-while: nothing is printed of a zero.              *)
HexDigitsWhile(n) ==
  LET hex[m \in 0 .. n] == IF m = 0 THEN <<>>
                           ELSE Append(hex[m \div Radix], m % Radix)
  IN hex[n]

HexDigits(n) ==
  LET hex[m \in 0 .. n] == IF m < Radix THEN <<m>>
                           ELSE Append(hex[m \div Radix], m % Radix)
  IN hex[n]

PutstrHex(n) ==
  /\ pc = "idle"
  /\ num' = n /\ said' = <<>>
  /\ rest' = Label \o HexDigits(n) \o <<NewLine>>
  /\ pc' = "full"
  /\ UNCHANGED <<uart, result, owed>>

(* Mutant: no wait.                                                        *)
TxFullNever == FALSE

TxFull == Len(tx) = Depth

WaitTxFull ==
  /\ pc = "full" /\ ~TxFull
  /\ pc' = "write"
  /\ UNCHANGED <<uart, rest, num, result, owed, said>>

WriteTx ==
  /\ pc = "write"
  /\ Put(Head(rest))
  /\ owed' = Append(owed, Head(rest)) /\ said' = Append(said, Head(rest))
  /\ rest' = Tail(rest)
  /\ pc' = IF Tail(rest) = <<>> THEN "idle" ELSE "full"
  /\ UNCHANGED <<shift, old, rx, num, result>>

-----------------------------------------------------------------------------
(* Mutant: the receive register is read without a look at RXVALID.         *)
HasCharAlways == TRUE

HasChar == rx # <<>>

GetChar ==
  /\ pc = "idle"
  /\ IF HasChar THEN pc' = "read" /\ UNCHANGED result
                ELSE result' = None /\ UNCHANGED pc
  /\ UNCHANGED <<uart, rest, num, owed, said>>

ReadRx ==
  /\ pc = "read"
  /\ result' = IF rx = <<>> THEN Garbage ELSE Head(rx)
  /\ rx' = IF rx = <<>> THEN rx ELSE Tail(rx)
  /\ pc' = "idle"
  /\ UNCHANGED <<tx, shift, old, rest, num, owed, said>>

(* The board is reset; the UART goes on.                                   *)
Restart ==
  /\ pc' = "off"
  /\ rest' = <<>> /\ num' = None /\ result' = None
  /\ owed' = <<>> /\ said' = <<>>
  /\ UNCHANGED uart

Driver == InitWrites \/ InitResets \/ WaitTxFull \/ WriteTx \/ ReadRx
Uart == StartShift \/ EndShift
Next == Uart \/ Arrive \/ Driver \/ (\E n \in Nums : PutstrHex(n)) \/ GetChar \/ Restart

Spec == Init /\ [][Next]_vars

(* The driver polls, and the UART, which nothing holds back, sends.        *)
FairSpec == Spec /\ WF_vars(Driver) /\ WF_vars(Uart)

-----------------------------------------------------------------------------
(* Everything that is written after serial_init is sent, once and in       *)
(* order, although a full FIFO drops what it is given: what is owed is     *)
(* what the UART holds, but for one character of before the reset, which   *)
(* may be in the shift register (serial.c:73-82).                          *)
NothingLost ==
  pc \notin {"off", "reset"} =>
    owed = (IF old THEN <<>> ELSE shift) \o tx

(* The number that a sequence of digits stands for.                        *)
NumberOf(digits) ==
  LET value[k \in 0 .. Len(digits)] ==
        IF k = 0 THEN 0 ELSE value[k - 1] * Radix + digits[k]
  IN  value[Len(digits)]

(* What is printed of a number reads as that number: at least one digit,   *)
(* no zero in front, and it fits the buffer with its newline and its end   *)
(* (serial.c:111-131).                                                     *)
NumberReadsBack ==
  pc = "idle" /\ said # <<>> =>
    LET digits == SubSeq(said, Len(Label) + 1, Len(said) - 1)
    IN /\ said = Label \o digits \o <<NewLine>>
       /\ NumberOf(digits) = num
       /\ Len(digits) >= 1 /\ (Len(digits) > 1 => digits[1] # 0)
       /\ Len(digits) + 2 <= Size

(* Every call of serial_putstr_hex returns, however full the FIFO is.      *)
PrintEnds == pc = "full" ~> pc \in {"idle", "off"}
=============================================================================
