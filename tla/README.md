# A verification of the ARES boot loader

ARES_bootloader is the first program of a small RISC-V (RV32, one hart)
computer. It runs in M-mode with interrupts off, initialises a serial port, an
SPI controller, an SD card and a video chip, loads a Linux kernel image, a device
tree and the OpenSBI firmware from a FAT volume on the card into memory, and
jumps to the firmware. This directory holds TLA+ models of it, the TLC
configurations that check them, and proofs, checked by TLAPS, of the properties
that matter most. Line numbers below refer to the sources under `src/`.

Contents: 1 the system, 2 the modules, 3 the abstractions, 4 the runs, 5 fairness,
6 the proofs, 7 where code and comments disagree, 8 what is not modelled,
9 the plan, 10 how to run it.

## 1. The system

    main.c ── load_from_sd ──> ff.c (FatFs) ──> diskio.c ──> sd.c ──> spi.c ──> SPI controller ──> SD card
      │                                                       │
      ├── VDP.c (picture, frame buffer)                       └── rdtime.c ──> machine timer
      ├── serial.c (messages)
      └── exception.c / emulation.c / sbi.c <── boot.S (trap vector)

Everything is called by `main` and runs to completion; only the hardware (timer,
SPI controller, card, video chip) and a reset of the board happen by themselves.
A reset is not a power cycle: the card and the controller keep their state.

| component | state | operations | hard behaviour | correct when |
|---|---|---|---|---|
| Machine timer, `rdtime.c` | none of its own; the 64-bit counter, read as two 32-bit CSRs | `rdtime`, `time_ms`, `time_us` | the counter carries between the two reads | the value returned is one the timer had during the call; time never goes back; the retry ends |
| Timed waits, seven loops in `sd.c` | `time`, the last byte read | the loop `while (time_ms() < time + N)` | times are rounded, the limit is tested before the bus, the byte examined afterwards may never have been read | not a millisecond short; something was read before a timeout; a timely answer is never missed |
| SD driver and disk layer, `sd.c`, `diskio.c` | `SD_init`, the chip select, `r1`; on the card: its state, and a read that is still open | `disk_initialize`, `disk_read`, `disk_status`, below them `sd_init`, `sd_read_block`, three `sd_send_cmd` | lost commands, late tokens, error answers, a reset in the middle of a read, data that look like answers | `RES_OK` means the requested sectors; `SD_init` means an operational SDHC card; a healthy card always works; the card is released; everything ends |
| SPI driver, `spi.c` | FIFOs and shift register of the controller | `spi_init`, `spi_select`, `spi_deselect`, `spi_transfer` | polled while bytes move by themselves; leftovers from before a reset | the byte returned is that of this exchange; nothing is in flight when the chip select changes |
| Boot sequence, `main.c` | the files' contents in memory, where `main` is | `f_mount`, `VDP_test`, `load_from_sd` three times, `jump_to_opensbi` | adjoining regions whose bounds nothing checks, errors that are ignored, caches | each image is in memory at the jump but for what a later one was stored over; `main` gives up only for a reason; it ends |
| FatFs, `ff.c` (third party) | mounted volume, sector window, open file and its sector buffer | `f_mount`, `f_open`, `f_read`, `f_lseek`, `f_close` | broken or circular FAT chains, failed reads, stale buffers, handles of an older mount, numbers taken from the card | `FR_OK` means the file's next bytes; an error sticks to the file and has a cause; the volume's areas lie on the volume; a name's fields are those of its segment; every call ends |
| Video test, `VDP.c` | sprite, tile and frame memory, control register | `VDP_test`, `framebuffer_flush` | two busy waits on vertical blank against the beam; the result of its load is ignored | it ends; no frame shows half a move; the frame buffer is in memory |
| Cache flush, `main.c`, `VDP.c` | dirty blocks, blocks on their way to memory | `cache_flush_range`, `framebuffer_flush` | ranges that are not aligned, addresses that wrap, a fence that must wait for the cache's own write-backs too | a flushed range is in memory; the loop ends |
| Trap entry and dispatch, `boot.S`, `exception.c` | register frame, handler table, `mscratch` | `isr_vector`, `exception_handler`, `exception_set_handler` | the frame is built on the stack in `mscratch`, which only `boot_kernel` sets | registers survive a trap; the pc advances once; the stack is given back |
| Instruction emulation, `emulation.c` | `load_reservation`, `mtvec` while an access is tried | LR, SC, AMO, misaligned loads and stores | a fault in the middle of an emulated access; operands come from the frame | for the program an instruction is carried out whole or its supervisor is called; `mtvec` is restored |
| SBI calls, `sbi.c` | none | `sbi_syscall` | reached only from `boot_kernel`, which `main` does not call | the result is in the caller's register, all else is kept |
| Serial port, `serial.c` | transmit and receive FIFO | `serial_init`, `serial_putchar`, `serial_getchar`, `serial_putstr_hex` | waits for the FIFO without a limit; the UART goes on over a reset | characters are not lost and stay in order; numbers read back |
| Keyboard test, `keyboard.c` | event FIFO | `keyboard_test` (call commented out) | endless by design | every event is shown once |
| Helpers, `helpers.c`, `syscalls.c` | none | `memset`, `memcpy`, `memcmp`, `strchr` | boundaries | as in the C standard |
| Build inputs and data: `payload.S`, `*.ld`, `makefile`, `tree`, `test`, `documents` | | | | the addresses agree with `main.c` |

How they interact:

- The boot sequence knows FatFs by its results only; module `FileApi` is what those
  mean. FatFs knows the disk layer by `RES_OK` and `RES_ERROR`; module `Disk` is what
  those mean.
- The driver and the card share one bus without framing: the only thing that tells
  an answer from leftover data is the value of a byte. Most hazards of this
  program come from that: a read that ends early leaves the card sending.
- Every wait of the driver relies on `rdtime`, and every byte on `spi_transfer`.
- Traps are taken only if something goes wrong before the jump; the handlers that
  are registered on the way (`emulation_init`, `illegal_handler`) are then reached
  through a frame on a stack nobody has set up.

`PROJECT.json` lists each hazard at its line, with the properties that cover it.

## 2. The modules

    RdTime        rdtime()                         RdTimeMC,   TimeProofs
    WaitLoop      the timed wait of sd.c           WaitLoopMC, TimeProofs
    Spi           spi.c                            SpiMC,      DevicesProofs
    SdCard        the card (operators, no state machine)
      └ SdDriver  sd.c and diskio.c (EXTENDS)      SdDriverMC, SdDriverProofs
    Disk          the contract of the disk layer; SdDriver implements it (INSTANCE)
    FatVolume     a FAT volume: ff.c's arithmetic, and what a volume holds
      ├ FatFs     f_mount ... f_close of ff.c      FatFsMC,    FatFsProofs
      └ FatMount  find_volume and mount_volume
    FileApi       the contract of the file functions; FatFs implements it (INSTANCE)
    SfnName       create_name of ff.c
    FatOpen       FatMount and SfnName             FatOpenMC,  FatFsProofs
    BootFlow      main.c                           BootFlowMC, BootFlowProofs
    Trap          boot.S, exception.c, sbi.c       TrapMC,     TrapProofs
    Words         words and bytes of a small hart
      ├ Emulation emulation.c                      EmulationMC, EmulationProofs
      └ Isa       the instructions; Emulation implements them (INSTANCE)
    Devices       one processor over the three     DevicesMC,  DevicesProofs
      ├ Vdp       VDP_test against the beam
      ├ Cache     the two cache flushes
      └ Serial    serial.c against the UART
    Induction     numbers: induction over a set, quotients, multiples (lemmas only)

The modules form a tower. `RdTime` shows that a read of the timer is as if it were
one step; `WaitLoop` takes it as one. `Spi` shows that an exchange of a byte is as
if it were one step; `SdDriver` takes a command with its answer as one.
`WaitLoop` shows what a timed wait does with an answer that is in time and one
that is not; in `SdDriver` an answer comes or does not come ("stall"). `SdDriver`
implements `Disk`, and `BootFlow` takes from `Disk` when the card may be
*tainted*, that is, when `RES_OK` has ceased to mean anything. `FatFs` stands
between the two: over a `disk_read` that succeeds or fails it implements
`FileApi`, which is what `BootFlow` uses of it. `SfnName` and `FatMount` say what
two of its steps, a segment of a path and a mount, do inside; `Cache`, `Vdp` and
`Serial` are the steps of `main` that wait for hardware. `Trap` takes the
emulation of an instruction as one step, `Emulation` a trap.

**RdTime.** `timer` is the hardware counter, a pair of words; `hi`, `lo` are the
locals, `pc` the instruction. `ReadHi`, `ReadLo` and `Again` are the three CSR
reads (`rdtime.c:11-13`), `Tick` the counter. `called` and `result` are the
timer at the call and the last value returned.

**WaitLoop.** `TimerCounts` is the counter, `CardAnswers` the card; `Start`, `Test` and `Poll` are the assignment to `time`, the loop
condition and the body; `Ms` is `time_ms`. The timer ticks at any moment, at most
`MaxStep` times during one step. `begun` and `since` remember when the loop began
and when the answer came.

**Spi.** `tx`, `rx` and `shift` are the FIFOs and the shift register,
`StartShift` and `EndShift` what the controller does by itself. The driver's
actions are the accesses of `spi_transfer`: the loop over two bits of the status
register (two reads of it, `WaitTxEmpty`, `WaitRxEmpty`), the write, the second
loop, the read. `Restart` is a reset of the board, after which `SpiInit` finds
whatever was there.

**SdCard.** For each thing the driver does on the bus - send a command and wait
for its answer (`Exchange`), wait for a data token and clock out a block
(`Token`), wait for the end of busy (`Settle`), release the chip select
(`Released`) - an operator gives the set of outcomes: the card afterwards, what
the driver read, and whether the card failed to do its part (`fault`). The card
is external; these operators are what the driver's code expects of one, and what
`Faults` adds to that.

**SdDriver.** `pc` is the command or wait that comes next in `sd_init` or
`sd_read_block`; `sdInit` is `SD_init` of `diskio.c`; `r1` is the local variable,
kept because `sd_read_block` looks at it after a CMD12 that may not have set it.
`DiskInitialize` and `Cmd0` ... `Cmd58` are `disk_initialize` with `sd_init`;
`DiskRead` is the call of `disk_read` up to the answer of CMD17 or CMD18,
`ReadBlock` one pass through the loop over the blocks, `StopTransmission` the
CMD12, `WaitNotBusy` the last wait. `sd_read_block` calls
`sd_read_block_single` when one block is asked for: the same steps without
CMD12. `CardPowersUp` and `Restart` are the two things that happen by
themselves. `dirty` and `trouble` are history: whether a read was open when the
call began, and whether the card has failed to do its part since the reset.

**Disk.** The contract: `Begin`, then `Succeed` or `Fail`, or `Refuse` at once.
A read of an untainted disk fails or delivers what was asked for; it taints the
disk when it fails, and may do so when it succeeds on several sectors (the end of
such a read is not verified by the driver). Nothing is promised of the data of a
tainted disk. `SdDriver!DiskContract` is `Disk!Spec` under the refinement
mapping at the end of `SdDriver`: during a call the disk is as tainted as it was
when the call began; between calls it is if the card has a read open.

**BootFlow.** `pc` and `which` say where `main` is and which file is being loaded;
`file` is the FIL (its size as `f_open` found it, and `file_offset`); `mem` the
memory in cells. `Mount`, `Open`, `Read`, `VdpTest`, `Unmount` and
`JumpToOpensbi` are the calls of `main`; a `Read` is one pass through the loop of
`load_from_sd` (`main.c:315-324`), which stores a piece behind the ones before and
goes on until a piece is short. A `Mount` may succeed after a partition that could not be
read was passed over (`ff.c:3448-3450`); the volume is then another one, and the card may
still be sending. `tainted` stays set once it is: FatFs goes on with what such a card gave.
`halfOpen` is history, a call that succeeded and left the disk tainted. A failed load ends `main`, except for the picture,
whose result `VDP_test` ignores (`VDP.c:292`). `unflushed` records whose cells may
be in the data cache only.

**FatFs.** A call of the API is a sequence of steps; `pc` is the loop it is in, and a
step makes at most one decision on what `disk_read` gave. `fs` is the FATFS (with
`SD_init` of the disk layer, which `disk_status` reports), `fp` the FIL, `dp` the
local DIR of `f_open` and the rest of its path. `win` and `fp.buf` are the two
sector buffers: of each the model keeps the sector the code takes it for and the
sector it holds, or `Junk` after a read that failed. `MoveWindow` and `GetFat`
are `move_window` and `get_fat`; `DirFind` and `DirNext` one pass of the loop of
`dir_find`, `ReadCluster` and `ReadSector` the two halves of the loop of `f_read`,
`SeekFollow` and `SeekSector` the loop and the end of `f_lseek`.

**FatVolume.** First the arithmetic of `ff.c` (`clst2sect`, where `get_fat` finds an
entry, `dir_sdi`), then, independent of it, the reference: the k-th cluster of a
chain, byte i of a file, the entry that a path leads to.

**FileApi.** The contract: files under paths, a handle with a position and an error,
and for each call what it may answer. `FatFs!KeepsContract` is `FileApi!Spec` under
the mapping at the end of `FatFs`, in which the files are those of the reference.

**FatMount.** `at` is the place `find_volume` looks at (sector 0, a partition), then
the boot sector (`ReadBpb`). `Look` is `check_fs`; `Geometry` the arithmetic of
`mount_volume` on numbers that wrap.

**SfnName.** One action per branch of the loop of `create_name`; the path is chosen a
byte at a time as it is read. `units` is history, the characters of one or two bytes,
from which `TwoFields` says what its body and extension are. `EightThree` asks for a body,
as 8.3 does; `DotName` is a segment that has none.

**Trap.** `Save` and `Restore` are the two halves of `isr_vector`, `Dispatch` is
`exception_handler` with the handler it finds in `table`. `BootKernel` is
`boot_kernel`, as if `main` called it. The program between the traps may put any
value in its registers, also in `sp`. Places are counted in parcels of two bytes, for the
program is built with compressed instructions (`makefile:7,58`): `len` is the length of
the instruction at `mepc`, one parcel or two, and the handlers add two whatever it is.

**Emulation.** `at` is the memory access the handler is about to make. Each of them
runs with `mtvec` pointing behind it (`Proceed` leaves it so, `Finish` and `Redirect`
set it back) and faults where the supervisor's mapping does not allow it. `ctx` is the
frame, with M-mode's stack pointer in the slot of x2 and anything in the slot of x0.
`was` and `link` are history for the refinement: memory and reservation as the program
saw them last.

**Isa.** What a program may expect of LR, SC, AMOs, loads and stores: one step each,
or a call of the supervisor. `Emulation!EmulatesIsa` is `Isa!Spec` with the memory of
the last return; the program's registers are its own.

**Vdp.** `line` is where the beam is; every step of the processor lets some lines pass.
`Regs`, `PollFirst`, `PollSecond` and `Move` are the stores and the two busy waits at
the end of `VDP_test`. `shown` is history: the positions of the sprite that lines of
this frame were drawn with.

**Cache.** `dirty` are the blocks newer than memory, `pending` those on their way. The
cache may write back any block by itself (`Evict`). `CacheFlushRange` computes the
bounds of the loop in arithmetic that wraps, `FramebufferFlush` has its own.

**Serial.** `tx`, `rx` and `shift` are the FIFOs, which drop what they have no room
for, and the shift register. `PutstrHex` builds its string and `WaitTxFull`,
`WriteTx` send it; `GetChar` and `ReadRx` are the two accesses of `serial_getchar`.
`Restart` is a reset of the board with the UART still sending.

**Devices.** `used` is the one of the three that the processor is in; a step of
`DevicesNext` is one of that device, and leaves the others at rest.

## 3. The abstractions

- *Bytes* of the card are the classes the driver tells apart: `00`, `01`, `FE`,
  `FF`, and other values with bit 7 clear or set. The four-byte tails of CMD8 and
  CMD58 are what `sd_init` tests of them.
- *Blocks* of 512 bytes are named by their number on the card, or `Misframed`
  when cut out of something else. Their CRC is ignored by the code, and here.
- *One command is one step.* Sound because the program has one thread and no
  interrupt, and because `Spi` and `WaitLoop` say what happens inside a step. A
  reset in the middle of a command is a reset before or after it with a card that
  had or had not heard it; the outcomes in which a command is lost cover both.
- *Memory* is counted in cells of any size that divides `LOAD_SIZE`. A cell holds
  a numbered piece of a file, what it held before, or `Junk`, about which nothing
  may be concluded. A failed read leaves `Junk` in the piece it was about, also
  where the code would have stored good data: no property depends on the
  difference.
- *Addresses and file sizes* are constants; overlaps between regions are real.
- *A FAT volume* is a record of what `mount_volume` computes, the FAT entries and the
  directory entries; a byte of a file is the place it has on the volume, so that a
  byte from a wrong place is always seen. `n_fatent` stands for all larger values of
  an entry: no code distinguishes them. A name is one value, and a path a sequence of
  names; how one becomes the other is `SfnName`.
- *`FatFs` mounts from sector 0*, or fails in one of three ways; the search itself is
  `FatMount`.
- *A failed read* may leave anything in the buffer: `Junk`, of which the bytes are
  those of no sector, and which, if it were taken for a FAT sector, would give any
  entry.
- *The hart of `Emulation`* has words of four bytes of one bit, so that every
  alignment, every width and wrapping sums occur at sixteen addresses. `mstatus` is
  left out but for what `Trap` needs of it; MPRV is set and cleared around each access
  by the same lines.
- *The supervisor* of `Emulation` may change its mapping when it is called. There is
  one program: a context switch between LR and SC is the TODO of `emulation.c:188`.
- *The kernel of `Trap`* is any sequence of instructions and traps in S-mode.
- The text the program prints, the video chip's control register and tile memory, and
  the result codes of the driver that distinguish one failure from another are left
  out. Nothing tests them.

## 4. The runs

| run | what is asked | properties |
|---|---|---|
| `rdtime` | the torn read | `ResultInCall`, `CallReturns` |
| `wait_loop` | the timed wait, at every offset into a millisecond | `TimeoutNotEarly`, `TimeoutHasPolled`, `AnswerInTimeTaken`, `LoopEnds` |
| `spi` | the exchange of bytes over the FIFOs | `QuietBetweenCalls`, `AnswerOfThisByte`, `TransferEnds` |
| `sd_driver` | the driver against every card and all faults | `ReadSound`, `InitSound`, `NoFailureWithoutTrouble`, `Deselected`, `DiskContract`, `CallsEnd` |
| `sd_read_truth` | does `RES_OK` always mean the right sectors? No | `ReadTruth` (violated) |
| `boot_flow` | the boot, with all combinations of files and failures | `IntactAtJump`, `StopsForCause`, `BootEnds` |
| `fat_fs` | the file functions on volumes of all three types, intact and broken; any read may fail | `TypeOK`, `BuffersTrue`, `CursorsAgree`, `DriveReady`, `ErrorsHaveCause`, `KeepsContract`, `CallReturns` |
| `fat_open` | the search for the volume and its geometry; names, and how far the path is read | `OpenTypeOK`, `GeometryHolds`, `FirstReadable`, `NameIsEightThree` |
| `trap` | traps of `main` and of a kernel | `StackReturned`, `ContextKept` |
| `emulation` | emulated instructions, with faults at any access | `TypeOK`, `VectorRestored`, `EmulatesIsa` |
| `emulation_sp` | the same with `sp` as an operand: no | `EmulatesIsa` (violated) |
| `devices` | printing and receiving; the two waits on vertical blank; the two cache flushes | `DevicesTypeOK`, `NothingLost`, `NumberReadsBack`, `NotTorn`, `RangeInMemory`, `DevicesReturn` |

Type invariants that are proved (section 6) are not checked again in a run, nor is what
follows from another property (`ResultsMonotone` from `ResultInCall`).

What they show, and why their bounds are enough:

**rdtime.** Words of 3 values, 4 high words: the low word wraps three times, so
that a call can meet none, one or several carries, at each of its three reads,
and can be forced to retry more than once. The protocol compares words only for
equality and order; larger ones add no case. (The proof is for all sizes.) The
counter stops at its maximum, where the retry always succeeds; on the hardware a
second carry would need 2^32 ticks within one retry. `CallReturns` needs the
bound: a counter that carries at every iteration would keep any such loop going.

**wait_loop.** Four ticks per millisecond and a limit of 3 ms: the loop begins at
all four offsets; a step lasts up to two ticks, so that the limit, a tick, and the
answer can fall in any order. The timer's bound of 24 ticks is past the end of
the longest loop. `TimeoutNotEarly` says that rounding costs less than a
millisecond; that it does cost something is in section 7. `AnswerInTimeTaken`
is the race between the answer and the limit: an answer that is on the bus one step
before the limit is taken. `TimeoutHasPolled` matters because the code examines
`data` after the loop, which begins as 0 (a valid R1) in `sd_send_cmd` and is
uninitialised in `sd_send_cmd12`.

**spi.** FIFOs of two entries and two byte values: the driver never has more than
one byte under way, the second entry is for leftovers of a reset. Deadlock is
checked. `AnswerOfThisByte` fails if a single byte is left behind anywhere, which
would shift all later answers of the card. `TransferEnds` shows why `spi_init`
must reset the controller: with a byte left in the receive FIFO the first wait
of `spi_transfer` would never end.

**sd_driver.** A card of four blocks of each of the three kinds and in any state
a reset may find it in, and reads of one to three blocks: the first, a
middle and the last block of a multi-block read, reads that end with the card,
and a stale open read in front of, inside and behind the blocks asked for. Every
fault may happen at every step, any number of times. `ReadSound` and `InitSound`
are about wrong results: good data, from the right place and in order, and no
card reported ready which is not. `NoFailureWithoutTrouble` is the converse and
keeps the driver honest: a healthy card, from any state a reset leaves it in, is
initialised, is read without an error, and is left without an open read.
`Deselected`: no exit of `sd_read_block` forgets the chip select. `CallsEnd`:
both calls return, though ACMD41 is polled without a limit.
`DiskContract` is the refinement.

**boot_flow.** The device tree, the firmware and the kernel have regions of three
cells that adjoin as in `main.c` (the device tree 64K below the firmware, the
firmware 4M below the kernel), and pieces are two cells long. A file may be
missing, be exactly one piece long (which costs an empty read), a piece and a half,
or two pieces and so too large for its region. `IntactAtJump` says that each image is
as it is on the volume at the jump, but for the cells that a file loaded after it was
stored over: image.bin may lose some to both others, tree.dtb to fw_jump.bin, which
loses none. It has three exceptions (`Clean`), which are the ways in which this boot
loader can start a corrupt image without knowing it, besides an image that is too large:
the load of the picture failed at the card and the boot goes on with a card that is still
sending; a CMD12 was missed; or the mount passed over a partition whose read failed
(`ff.c:3450`) and left the card sending. A mount that passed over one and left nothing
open is no exception: the images are then those of the volume that was mounted, and which
that is says `FirstReadable`. `StopsForCause` is the converse: `main` returns only over
a missing file or a card that failed. Deadlock
is not checked here and in `WaitLoop`, which end by design.

**fat_fs.** Sectors of four bytes and entries of two, so that files and directories of a
few entries cross sectors and clusters, and a FAT12 entry crosses two. The intact
volumes have one FAT type each, files that are not in the order of their clusters, a
size inside a sector and inside a cluster, an empty file, a directory that fills its
cluster, a full root directory, a root directory in a chain, and a volume label with the
name of a file. Reads ask for less than a sector and more than a cluster; seeks go to the beginning, to the end of a
cluster and past the end, which is inside a sector. `MaxMounts` = 2 is the mount that
invalidates a handle. The broken volumes have a file that ends too
early, circles in a file and in the root directory, first clusters that are none, a root
directory that begins nowhere, and a file that begins at 0xFFFFFFFF. The empty path is
asked for too: it is that of the root directory, which is no file, or which is not there
(`OpensRoot`, `ff.c:3142-3144`). `KeepsContract` is what a program relies on;
`CursorsAgree` says why it can: between calls position, cluster and sector of a file
agree. `DriveReady` holds though `SD_init` is never cleared: a mount that fails leaves
no volume behind, and everything else asks for the volume first. `ErrorsHaveCause` is
the converse of the contract's freedom to fail. It has one exception that only the proof
brought to light: `f_read` takes the first cluster of a file from its directory entry
and compares it with 0xFFFFFFFF, `get_fat`'s answer to a disk error (`ff.c:4037`), so that a
file that begins there reports a disk error without one. `CallReturns` needs the bound on
directories (`MAX_DIR`) in `dir_next`.

**fat_open, the volume.** DWORDs of eight bits, and boot sectors with all combinations
of numbers around each of the limits, for volumes in sector 0, and partition tables with
four entries of which any may be missing, unreadable, not FAT or broken. `GeometryHolds`
says that the areas follow each other inside the volume and that each cluster has its
entry in the first FAT - for numbers whose sums fit a DWORD: where they wrap,
`mount_volume` does not notice. `FirstReadable` is which volume is mounted.

**fat_open, the name.** Fields of three and two bytes, one byte of each kind, any path: a
character of two bytes at every position of both fields, with the path ending inside
it. `NameIsEightThree` compares with a definition by characters, not bytes: what is
accepted are the 8.3 names and, though they are none, a dot and a dot with an extension
(`DotName`, section 7). A path of more characters than the fields hold is refused before it is read on.

**trap.** A frame of three cells, a program of five parcels in which instructions of one
and two parcels follow each other, any cause at each, stack pointers above and below the
frame. A frame of `main`'s own traps may lie anywhere: nothing on
its way has set `mscratch` (section 7). `StackReturned` and `ContextKept` say that for
the kernel, and apart from that place for `main` too, traps can follow each other
without an end. A program goes on behind the instruction that trapped, of whichever length
it is, but for an ebreak of two bytes, which is overshot by two (`Overshoot`, section 7). The run stops where the handlers do (`_exit`, `while (1)`), hence no
deadlock check.

**emulation.** Three instructions in a row, each of any kind, with two of the four words
mapped, mapped read-only or not at all, before and after each: an LR with its SC, the SC
again, a store between them; misaligned accesses across a boundary that may be mapped.
The word at 0 is never writable, so that the reservation "0 for none" is not confused
with one; no program of a supervisor with a null page would have it otherwise.
`emulation_sp` adds instructions with `sp` as operand, for which `EmulatesIsa` fails.

**devices.** The code of the three shares no state, and there is one processor: a
behaviour of the run is one of the serial port, of the display or of the cache, with the
others at rest. `FatOpen` is made in the same way of `FatMount` and `SfnName`; while
names are asked for, the drive is one of its drives and stays unmounted.

**devices, the display.** A frame of 28 lines of which eight are blank, and up to four
lines per step: every phase of the beam at every instruction. The assumption `2 * Step
<= Blank` is what the busy waits rely on: a poll and the store after it, with whatever
delays them, take less than the blank (on the hardware microseconds against more than a
millisecond).

**devices, the cache.** Sixteen addresses in four blocks: every range, every alignment
of both ends, and the end of the address space. `RangeInMemory` leaves out the ranges
whose end rounds to or past the end of the address space: there `last` wraps and nothing
is flushed; the board's memory ends far below.

**devices, the serial port.** FIFOs of two entries, shorter than anything printed, and a
UART in any state at a reset. Radix 2 has numbers of one to three digits; the buffer has
room for exactly those, as 32 bytes have for eight.

## 5. Fairness

- `WF(Reader)`, `WF(Loop)`, `WF(Driver)`, `WF(SdInit \/ SdRead)`, `WF(Next)` of
  `BootFlow`: one hart, no interrupt enabled, no other thread; code that has begun
  goes on. No fairness for calls that nobody has made, and none for resets.
- `WF(TimerCounts)` in `WaitLoop`: the timer counts. It is not assumed in `RdTime`.
- `WF(Controller)`: the SPI controller is never inhibited (`spi.c:89-104` leaves
  that bit clear), so a byte that was written is shifted.
- `WF(CardPowersUp)`: an SD card that is polled with ACMD41 finishes its
  power-up. A card that does not would keep `sd_init` in its loop forever
  (`sd.c:83-103`); `CallsEnd` rests on this assumption and says so here.
- `BootEnds` needs each call of FatFs to end, which is `CallReturns` of `FatFs`; for the
  driver below it that is `CallsEnd`.
- `WF(Step)` of `FatFs`: a call goes on, and `disk_read` returns (`CallsEnd`).
- `FairDevicesSpec` is the fairness of the three devices, each for the time it is used:
- `WF(Next)` of `Vdp`, with `SF` of the end of the picture's load (`BootEnds`' reasons).
- `WF(Call)`, `WF(Flush)`, `WF(Arrive)` of `Cache`: the processor goes on, and what is
  on its way to memory arrives there. Nothing is assumed of `Evict`.
- `WF(Driver)`, `WF(Uart)` of `Serial`: a UART without flow control, as this one is,
  sends what is in its FIFO. Nothing is assumed of what arrives.

## 6. The proofs

All are checked by `tlapm` to the last leaf. They hold for every value of the
constants that satisfies the named assumption of the module:

| module | assumptions | theorems (and the property of a run that each states) |
|---|---|---|
| `TimeProofs` | `WordAssumption`: words have at least one value | `TypeCorrect`, `ReadIsAtomic` (`ResultInCall`), `Monotone` |
| | `WaitAssumption`: there is a tick per ms, and a step is shorter than the limit less 1 ms | `LoopTypeCorrect`, `NotEarly` (`TimeoutNotEarly`), `HasPolled` (`TimeoutHasPolled`), `NoAnswerMissed` (`AnswerInTimeTaken`) |
| `DevicesProofs` | `SpiAssumption`: FIFOs have an entry, there are bytes | `TypeCorrect`, `Quietness` (`QuietBetweenCalls`), `Exchange` (`AnswerOfThisByte`) |
| | `DevicesAssumption`: the buffer has room for the numbers printed; the blank is at least two steps long; cache blocks divide the address space and the frame buffer | `DevicesTypeCorrect` (`DevicesTypeOK`), `NothingIsLost` (`NothingLost`), `NumbersReadBack` (`NumberReadsBack`), `NeverTorn` (`NotTorn`), `RangesReachMemory` (`RangeInMemory`) |
| `SdDriverProofs` | `CardAssumption`, `CountAssumption`: the card has a block, reads may have one | `TypeCorrect`, `ReadsAreSound` (`ReadSound`), `InitIsSound` (`InitSound`), `IdleIsDeselected` (`Deselected`), `NothingFailsAlone` (`NoFailureWithoutTrouble`), `DiskContractHolds` (`DiskContract`) |
| `BootFlowProofs` | `BootAssumption`: the regions are in the order device tree, firmware, kernel, frame buffer | `TypeCorrect`, `ImagesIntact` (`IntactAtJump`), `FittingImagesWhole`, `StopsWithCause` (`StopsForCause`) |
| `FatFsProofs` | for the two properties of the buffers and the drive none: the volumes are arbitrary | `BuffersAreTrue` (`BuffersTrue`), `DriveIsReady` (`DriveReady`) |
| | `FatAssumption`, `RequestsAssumption`, `VolumesAssumption`: a sector has whole entries, what the volume says are numbers of the width of their fields; there are reserved sectors and clusters, and a root directory of fixed size fills its sectors, as `mount_volume` makes sure of (`ff.c:3603-3633`) | `TypeCorrect` (`TypeOK`), `CursorsDoAgree` (`CursorsAgree`), `ContractIsKept` (`KeepsContract`), `ErrorsAreCaused` (`ErrorsHaveCause`) |
| | `FatAssumption`, `MountAssumption`: what the boot sectors say are numbers | `MountTypeCorrect`, `FirstIsMounted` (`FirstReadable`), `GeometryIsAlwaysSound` (`GeometryHolds`) |
| | those two and `NameAssumption`: both fields of a name have a byte | `OpenTypeCorrect` (`OpenTypeOK`), `NamesAreEightThree` (`NameIsEightThree`) |
| `TrapProofs` | `TrapAssumption`: addresses and values are integers | `TypeCorrect`, `StackIsReturned` (`StackReturned`), `ContextIsKept` (`ContextKept`) |
| `EmulationProofs` | `WordsAssumption`: words of two bytes or more, bytes of two values or more; for the last two `EmulationAssumption`: operands are registers, values are words | `VectorIsRestored` (`VectorRestored`), `TypeCorrect` (`TypeOK`), `ImplementsIsa` (`EmulatesIsa`) |

`ImplementsIsa` has a hypothesis of its own, `Supported`, which is not an assumption of
`Emulation` because `emulation_sp` shows what happens without it: no emulated
instruction has sp as an operand. Its other two parts are as necessary, and the instance
of `emulation` has them too: no LR takes its address from x0, whose slot in the frame
`boot.S` does not write and which LR, alone among the handlers, reads
(`emulation.c:161-192`), and the word at address 0 is not writable, since its number is
what `load_reservation` holds for "none".

The assumption on `MaxStep` in `WaitLoop` is needed, and is true: a step is one or
two reads of the timer, or one byte on the bus (some microseconds), the shortest
wait with a body is 100 ms. Without it the loop could end before its first poll.

The arguments:

- **RdTime.** `IInv` adds `InCall` to the property: what is known of `hi` and `lo`
  at each instruction, relative to the timer at the call and now. The step that
  matters is `Again`: the high word is the one read before `lo`, hence no carry
  came between.
- **WaitLoop.** The property speaks of rounded times, the step of ticks. `IInv`
  counts the ticks since whatever the loop has not noticed: until the first poll
  `now <= begun + spent`, after an answer `now <= since + spent`. `MsElapsed`
  and `MsMonotone` turn ticks into milliseconds once.
- **Spi.** While the driver waits, the byte is in exactly one of three places
  (`OnItsWay`), and at the third it is the last thing the slave sent.
- **Vdp.** `VdpInv` says where the beam can be at each of the last steps. The one that
  matters is the second poll: it is made after one that did not see the blank, so that
  `line < Visible + Step` before it, and the store that follows comes at most two steps
  later, still in a blank of `2 * Step` lines.
- **Cache.** While the loop runs, the blocks it has passed (`Passed`) are clean; that they
  are all of the range at its end is arithmetic on multiples of `Block`, of which the
  range's first and last address are rounded in different directions.
- **Serial.** `SerialInv` says that what has been printed and what is left of it are the
  line of the call, `Printed(num)`, and that what the UART holds is what is owed. That
  `Printed(num)` reads back is not about the state: `DigitsReadAs` and `DigitsFit` go by
  strong induction from `n \div Radix` to `n`, over the set of numbers for which they hold.
- **SdDriver.** `InitSound` is not inductive: that CMD58 answered with the capacity
  bit says something only if the answer came from the command. `InitPhase` says
  that from CMD8 on no read is open on the card: the echo of CMD8, which no data
  imitate, is the evidence that the card heard it, so it was not sending.
  `ReadSound` needs `ReadPhase`: from the answer of CMD17 or CMD18 on, if no read
  was open before, the card sends exactly the block that the buffer wants next,
  `card.next = req.lba + Len(buf)`. The lemmas before it say, per bus operation,
  what its outcomes do to the card. `NoFailureWithoutTrouble` needs to know that a card
  without `trouble` is where the driver takes it to be at each command (`GoodInv`): that
  it is out of an open read after CMD0, has heard CMD8, is ready after ACMD41, and that
  nothing is open when a read that succeeded ends. `DiskContract` follows from `IInv`
  alone: a step of the driver is a step of `Disk` or none, by `SucceedImplements`,
  `FailImplements` and their like, one for each place at which a call can end.
- **BootFlow.** `IInv` says that what `load_from_sd` has stored so far is a prefix
  of its file (`Reading`), that files loaded earlier are still there but for what lies in
  the region of a later one (`LoadedKept`), and that the disk is untainted as long as none
  of the three exceptions has happened (`Untainted`). The step that matters is a `Read`:
  the cells it writes belong to the region of its own file, because it stops at the size
  of the file. `FittingLieApart` is the rest of `FittingImagesWhole`: regions that fit
  share no cell.
- **FatFs.** The three properties hold together or not at all: a window is true because
  every read that fails takes its number away; the buffer of a file is true because an
  error is kept in `fp.err` and a new file begins with `sect` 0; the drive is ready
  inside a call because the call has asked `Valid` or `MountVolume`, and what those
  ask for implies it: a mounted volume is one whose `disk_initialize` succeeded.
  Nothing of it depends on what is on the volume.
- **FatFs, the cursors.** `CursorsAgree` speaks of the moments between calls only.
  `CursorsInv` has what each loop keeps: that `fp.clust` is the cluster number
  `ClusterIndex` of the chain, reached by `get_fat` from the first one, that the sector in
  `fp.sect` is the one of the position, and that what is still to be read or passed is
  inside the file (`InFile`). A seek may go on from where it is because its first test is
  by clusters, and ends on a boundary with `fp.clust` still the cluster before; the two
  cases of a position on and off a boundary (`OnBoundary`, `NotOnBoundary`) are the proof.
  The chain is a recursive function over a set of numbers, which exists by `ChainExists`.
- **FatFs, the contract.** `KeepInv` adds to the cursors what a call knows of the
  reference. `FindInv`: the search is in the directory to which the first `j` names of the
  path lead (`Route`), at the place of its entry `k` (`AtEntry`), and no entry before
  stops it (`NotBefore`); so where it ends is `Lookup`, and where the path ends `Target`.
  `AtEntry` goes on from one entry to the next by `NextInSector`, `NextInCluster` and
  `NextCluster`, one for each way of `dir_next`. `ReadInv`: the bytes read are those from
  the position at the call, and with those that are left make up what was asked for;
  none of them is behind the end of the chain. `SeekInv` is the same for a seek.
  `ClusterInv`: the cluster of a position is one of the volume, but for the first of a
  file without any - the one case in which `f_read` and `f_lseek` go on with a number
  that is no cluster. `CauseInv`: the open file is one that a path leads to, and a
  spoilt one was spoilt on a volume that is not `Sound`. What the program sees is
  `ApiHandle` and `ApiData`; each step changes them as one of the actions of `FileApi`
  does (`ApiReads`, `ApiSeeks`, `ApiOpenFails` and their like) or not at all
  (`ApiStutters`).
- **FatMount.** The partitions before the one that is looked at have no volume or could
  not be read (`SearchInv`). `GeometryIsSound` follows the sums of `mount_volume` area by
  area: because they are bounded by the number of sectors (`NoWrap`), no sum before wraps,
  and `FatBytesNeeded` rounded up to sectors has an entry for each cluster, also for the
  entries of one and a half bytes (`EntryInFat`).
- **SfnName.** `NameSoFar` says that the bytes written are those of the characters read
  (`Written`), and where the next one goes (`InFields`): in the body no dot has been met and
  `i` is the length of what is before it; in the extension exactly one. A character that
  is read does one of three things to the two fields of the reference, `BodyGrows`,
  `DotIsMet` or `ExtGrows`, and `UnitWritten` says that the bytes written do the same. One
  for which there is no room (`UnitTooLong`), a second dot and an illegal one each make
  a name that is none, however the path goes on. The reference joins the bytes of the
  characters with `FlattenSeq`, a recursive function; `FlattenAppend` is what the proof
  needs of it. By `OpenMounts` the theorems about `MountSpec` hold of `OpenSpec` too.
- **Trap.** While a handler runs, `mscratch` holds the program's stack pointer and `sp`
  is a frame below what `mscratch` was; the frame holds the registers of the program
  but sp. The step that matters is `Restore`: both are swapped back, whatever the
  handler has made of the frame. Where the program goes on is in the frame (`FrameReturned`),
  with the length of the instruction for the causes that are skipped.
- **Emulation.** `mtvec` is away only at the accesses that follow another access of the
  same instruction, and each way from there to `restore` sets it back. The refinement
  needs to know at each access what is done and what is left (`Progress`): the frame
  `Agrees` with the program's registers but for sp and x0, memory is what it was or, in a
  store, what the first `i` bytes have made of it (`PutNext`, for every width and also
  where addresses wrap), and a load has the number that `i` bytes stand for (`NextByte`).
  `Reserved` ties `load_reservation` to the last LR. At `restore` the effect of the whole
  instruction is there (`LrDone` and its like) or none that the program may not see
  (`Redirected`); all steps but that one leave the state of `Isa` unchanged.

Induction is done over sets of numbers: `Induction` proves from the least element of a
set that a set which has 0 and with each number the next is all of `Nat`, and a lemma takes
the set of the numbers for which its statement holds. The library's induction theorems take
an operator and cannot be used by the provers installed.

Checked by TLC only:

- liveness (`CallReturns`, `LoopEnds`, `TransferEnds`, `CallsEnd`, `BootEnds`,
  `DevicesReturn`): fairness and ENABLED are out of the prover's reach;
- what does not hold: the statements refuted by `sd_read_truth` and `emulation_sp`.

## 7. Where code and comments disagree

The first two are runs in which TLC finds the statement violated. Those after them are
definitions of the modules, named with each, that do not hold: as an invariant in the
configuration of the module's run TLC shows how.

- `documents/doc/dread.html:43-44` says of `RES_OK`: "The function succeeded." When
  a token is late or an error token comes, `sd_read_block` returns without CMD12
  (`sd.c:369-379`). The card goes on, and the next `disk_read` may take bytes of
  the old transfer for its R1, its token and its data (`sd_read_truth`).
- `# SP` (`boot.S:51`): the slot gets machine mode's stack pointer, for sp has been
  swapped by then, and it is not loaded back. The emulator reads and writes operands
  in the frame: an instruction with sp among them goes wrong (`emulation_sp`).
- `//End transfer` (`sd.c:392`): the result of `sd_send_cmd12` is ignored and `r1`
  still holds the `00` of CMD18, so a CMD12 without an answer counts as answered
  (`EndTransfer` of `SdDriver`).
- `//Wait 2 ms for SD card` (`sd.c:33`): two rounded times are compared, the wait
  may end after little more than 1 ms (`WaitsInFull` of `WaitLoop`).
- "Flush loaded ranges explicitly before calling this function when the D-cache is
  enabled" (`main.c:276-279`): `main` flushes only the frame buffer
  (`FlushedAtJump` of `BootFlow`).
- `# Setup IRQ vector` (`boot.S:118`): the vector is set, the stack it uses is not.
  Only `boot_kernel`, which `main` does not call, writes `mscratch` (`main.c:178`), so a
  trap on the boot path, for which `main` installs handlers (`main.c:354-355`), builds
  its frame wherever the register points (`FrameOnStack` of `Trap`).
- "An error occurred in the disk I/O layer" (`ff.c:3516`): not if it occurred while a
  partition was looked at. `find_volume` takes every result from 2 on, also the 4 of a
  disk error, as a reason to try the next partition (`ff.c:3450`), and the mount says
  that there is no filesystem, or takes a later volume (`DiskErrorTold` of `FatMount`) - with
  FR_OK, from a card that may still be sending, the third exception of `IntactAtJump`.
- "Dot directory names ("." and "..") are not allowed" (`documents/doc/filename.html:19`;
  the table at `:30` says of ".": "Invalid name"): `create_name` refuses ".." but takes "."
  for a name of eleven blanks, and ".ext" for one with a blank body (`NoDotNames` of
  `SfnName`).
- "ebreak is 32-bit" (`emulation.c:412`): the build has compressed instructions
  (`makefile:7,58`, rv32imafc), in which an ebreak has two bytes. `trap_breakpoint` adds
  four, and the program goes on in the middle of, or behind, the next instruction
  (`ResumesBehind` of `Trap`).
- The load addresses (`main.c:12-15`) leave 64K for the device tree and 4M for the
  firmware, and no size is compared with that: a larger file is stored over, or overwritten
  by, its neighbour, and the boot goes on (`NoneOverwritten` of `BootFlow`).

## 8. What is not modelled

- *FatFs*: what this program does not call (`f_opendir`, `f_readdir`, `f_stat`,
  `f_findfirst`, `f_gets`, ...), and what `ffconf.h` leaves out of the build: writing
  (`FF_FS_READONLY`, `disk_write` with it), long names, exFAT, relative paths, more than
  one volume, 64-bit addresses, locks, fast seek. With that most of the lines of `ff.c`
  and all of `ffunicode.c` (`FF_USE_LFN` = 0) are not part of the program. The
  comparison of names with entries is by `Matches`, of whole names.
- *`boot_kernel`* is in `Trap` as if it were called; in this commit it is not. Nor are
  `dump_csrs`, `jump_to_program`, `dump_sv32_translation`, `set_mtimecmp`,
  `exception_set_syscall_handler` and `emulation_take_irq`, which are left out.
- *`trap_invalid_inst`* is never reached: `main` puts `illegal_handler` in its place
  directly after `emulation_init` (`main.c:354-355`), and `boot_kernel` delegates illegal
  instructions and misaligned accesses to the kernel. `Emulation` has it as it would run.
- *Alignment of `mtvec`*: the labels that `emulation.c` puts there have the two-byte
  alignment of a compressed build, and `mtvec` drops the two low bits of an address. The
  models take each label for the address that is used.
- *`FatMount`* has each read deliver its sector or fail; what the reads of a card give that
  an earlier failed read left sending is in `BootFlow` only (`tainted`).
- *Interrupts*: `mie` is 0 throughout; `irq_callback` stops the board.
- *Emulation*: the bitwise AMOs, `amomax` and `amominu` differ from those modelled in one
  operator; the assertions on other opcodes stop the board.
- *Boot sequence*: `payload.S` and the other ways to start a program that `main` does not
  take. `framebuffer_flush` is one step of `BootFlow`; `Cache` has it.
- *VDP*: tile, map and sprite data, and the directions of the sprite, which is moved
  once.
- *Keyboard test*: commented out in `main`; it prints what it reads.
- *`helpers.c`, `syscalls.c`*: loops over memory without state, and stubs.
- *`payload.S`, link scripts, `makefile`, `tree`, `test`, `documents`, archives*:
  data and build inputs; their addresses appear as constants.

## 9. The plan

Done, in this order: `RdTime`, `WaitLoop`, `Spi`, `SdCard` with `SdDriver` and `Disk`,
`BootFlow`; `FatVolume`, `FatFs` and `FileApi`; `Words`, `Isa` and `Emulation`; `Trap`;
`FatMount`; `SfnName`, `Vdp`, `Cache`, `Serial`; `FatOpen`.

What is left, in the order of what it would add:

1. `BootFlow` over `FileApi` instead of its own `Read`, so that the chain from the card
   to the images is one refinement. The two agree on what a read gives; `BootFlow` has
   files in cells, `FileApi` in bytes.
2. `f_opendir` and `f_readdir`, if the program begins to use them, over `DirFind`'s
   steps.

## 10. Running it

    tlc -config SdDriver.cfg SdDriverMC      # one run: the .cfg and the module it belongs to
    tlapm SdDriverProofs.tla                 # one module of proofs

`PROJECT.json` names every run with its configuration and module, the source
lines each definition stands for, and for each property a mutant: a changed
definition, kept beside the original and marked "Mutant", under which the
property fails.
