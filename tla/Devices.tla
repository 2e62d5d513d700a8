------------------------------ MODULE Devices ------------------------------
(***************************************************************************)
(* The serial port, the display and the data cache.  Their code shares no  *)
(* state, and the one processor is in one of them at a time: a behaviour   *)
(* is one of the device that is used, with the others at rest.             *)
(***************************************************************************)
EXTENDS Integers, Sequences

CONSTANTS UartDepth, Radix, Nums, Label, Size,   \* Serial
          Visible, Blank, Step,                  \* Vdp
          Width, Block, FbBase, FbSize           \* Cache

VARIABLES used,                                                     \* the device
          serialPc, uartTx, uartShift, uartOld, uartRx,
          rest, num, result, owed, said,                            \* Serial
          vdpPc, line, sprite, shown,                               \* Vdp
          cachePc, start, length, p, last, dirty, pending           \* Cache

S == INSTANCE Serial WITH
       pc <- serialPc, tx <- uartTx, shift <- uartShift, old <- uartOld, rx <- uartRx,
       Depth <- UartDepth
V == INSTANCE Vdp WITH pc <- vdpPc
C == INSTANCE Cache WITH pc <- cachePc

ASSUME DevicesAssumption == S!SerialAssumption /\ V!VdpAssumption /\ C!CacheAssumption

serialVars == <<serialPc, uartTx, uartShift, uartOld, uartRx, rest, num, result, owed, said>>
vdpVars == <<vdpPc, line, sprite, shown>>
cacheVars == <<cachePc, start, length, p, last, dirty, pending>>
devices == <<used, serialVars, vdpVars, cacheVars>>

DevicesInit ==
  /\ used \in {"serial", "vdp", "cache"}
  /\ S!Init /\ V!Init /\ C!Init
  /\ used # "serial" => uartTx = <<>> /\ uartShift = <<>>
  /\ used # "vdp" => line = 0

SerialUsed == used = "serial" /\ UNCHANGED <<used, vdpVars, cacheVars>>
VdpUsed == used = "vdp" /\ UNCHANGED <<used, serialVars, cacheVars>>
CacheUsed == used = "cache" /\ UNCHANGED <<used, serialVars, vdpVars>>

DevicesNext ==
  \/ SerialUsed /\ S!Next
  \/ VdpUsed /\ V!Next
  \/ CacheUsed /\ C!Next

DevicesSpec == DevicesInit /\ [][DevicesNext]_devices

(* The fairness of the three.                                              *)
FairDevicesSpec ==
  /\ DevicesSpec
  /\ WF_devices(SerialUsed /\ S!Driver) /\ WF_devices(SerialUsed /\ S!Uart)
  /\ WF_devices(VdpUsed /\ V!Next) /\ SF_devices(VdpUsed /\ V!Load /\ vdpPc' = "regs")
  /\ WF_devices(CacheUsed /\ C!Call) /\ WF_devices(CacheUsed /\ C!Flush)
  /\ WF_devices(CacheUsed /\ C!Arrive)

-----------------------------------------------------------------------------
(* The types of the three; of the serial port, that a character received   *)
(* is never what an empty FIFO gives (serial.c:101-107).                   *)
DevicesTypeOK == S!TypeOK /\ V!TypeOK /\ C!TypeOK

(* Everything that is written after serial_init is sent, once and in order *)
(* (serial.c:73-82).                                                       *)
NothingLost == S!NothingLost

(* What is printed of a number reads as that number (serial.c:111-131).    *)
NumberReadsBack == S!NumberReadsBack

(* The sprite of VDP_test jumps between two frames (VDP.c:345-352).        *)
NotTorn == V!NotTorn

(* What is flushed has reached memory when the call returns (main.c:117,   *)
(* VDP.c:51).                                                              *)
RangeInMemory == C!RangeInMemory

(* The three wait for hardware without a limit, and return all the same.   *)
DevicesReturn ==
  /\ S!PrintEnds
  /\ used = "vdp" => V!TestEnds
  /\ C!FlushEnds
=============================================================================
