------------------------------- MODULE Cache -------------------------------
(***************************************************************************)
(* The two loops that push data out of the data cache block by block:      *)
(* cache_flush_range for a program that is about to be started, and        *)
(* framebuffer_flush for the display, which reads the memory behind the    *)
(* cache.  Addresses have Width bits and wrap.  A flushed or cleaned block *)
(* is on its way to memory until a fence has waited for it, and the cache  *)
(* may write back any block on its own at any time.                        *)
(***************************************************************************)
EXTENDS Integers, FiniteSets

CONSTANTS Width,    \* bits of an address
          Block,    \* bytes of a cache block
          FbBase, FbSize    \* the frame buffer

Top == 2 ^ Width

CacheAssumption ==
  /\ Width \in Nat /\ Block \in Nat \ {0} /\ Top % Block = 0
  /\ FbBase \in Nat /\ FbSize \in Nat /\ FbBase + FbSize < Top
  /\ FbBase % Block = 0 /\ FbSize % Block = 0

VARIABLES
  pc,               \* "idle", "stored", "before", "loop", "after", "flushed"
  start, length,    \* the range that was stored, and is flushed
  p, last,          \* the loop
  dirty, pending    \* blocks newer than memory, and those on their way

vars == <<pc, start, length, p, last, dirty, pending>>

BlockOf(a) == a \div Block
Blocks == 0 .. Top \div Block - 1
RangeBlocks(s, n) == {BlockOf(a) : a \in s .. s + n - 1}

TypeOK ==
  /\ pc \in {"idle", "stored", "before", "loop", "after", "flushed"}
  /\ start \in 0 .. Top - 1 /\ length \in 0 .. Top
  /\ p \in 0 .. Top - 1 /\ last \in 0 .. Top - 1
  /\ p % Block = 0 /\ last % Block = 0
  /\ dirty \subseteq Blocks /\ pending \subseteq Blocks

Init ==
  /\ pc = "idle"
  /\ start = 0 /\ length = 0 /\ p = 0 /\ last = 0
  /\ dirty = {} /\ pending = {}

-----------------------------------------------------------------------------
(* The processor stores over a range before the range is flushed.          *)
Store ==
  /\ pc \in {"idle", "flushed"}
  /\ \E s \in 0 .. Top - 1 : \E n \in 0 .. Top - s :
       /\ start' = s /\ length' = n
       /\ dirty' = dirty \cup RangeBlocks(s, n)
  /\ pc' = "stored"
  /\ UNCHANGED <<p, last, pending>>

(* The cache writes a block back, and memory takes one.                    *)
Evict ==
  \E b \in dirty : /\ dirty' = dirty \ {b} /\ pending' = pending \cup {b}
                   /\ UNCHANGED <<pc, start, length, p, last>>

Arrive ==
  \E b \in pending : /\ pending' = pending \ {b}
                     /\ UNCHANGED <<pc, start, length, p, last, dirty>>

-----------------------------------------------------------------------------
RoundedDown(a) == (a \div Block) * Block

LastBlock(s, n) == RoundedDown((s + n + Block - 1) % Top)

CacheFlushRange ==
  /\ pc = "stored"
  /\ IF length = 0
     THEN pc' = "flushed" /\ UNCHANGED <<p, last>>
     ELSE /\ p' = RoundedDown(start)
          /\ last' = LastBlock(start, length)
          /\ pc' = "loop"
  /\ UNCHANGED <<start, length, dirty, pending>>

(* The frame buffer's own loop, between two fences.                        *)
FramebufferFlush ==
  /\ pc = "stored" /\ start = FbBase /\ length = FbSize
  /\ pc' = "before"
  /\ UNCHANGED <<start, length, p, last, dirty, pending>>

FenceBefore ==
  /\ pc = "before" /\ pending = {}
  /\ p' = start /\ last' = start + length
  /\ pc' = "loop"
  /\ UNCHANGED <<start, length, dirty, pending>>

AtEnd == p >= last

NextBlock == (p + Block) % Top

(* cbo.flush and cbo.clean.                                                *)
FlushBlock ==
  /\ pc = "loop" /\ ~AtEnd
  /\ dirty' = dirty \ {BlockOf(p)}
  /\ pending' = pending \cup (dirty \cap {BlockOf(p)})
  /\ p' = NextBlock
  /\ UNCHANGED <<pc, start, length, last>>

EndLoop ==
  /\ pc = "loop" /\ AtEnd
  /\ pc' = "after"
  /\ UNCHANGED <<start, length, p, last, dirty, pending>>

(* Mutant: without the fence.                                              *)
FenceNone == TRUE

FenceDone == pending = {}

FenceAfter ==
  /\ pc = "after" /\ FenceDone
  /\ pc' = "flushed"
  /\ UNCHANGED <<start, length, p, last, dirty, pending>>

Flush == FenceBefore \/ FlushBlock \/ EndLoop \/ FenceAfter
Call == CacheFlushRange \/ FramebufferFlush
Memory == Evict \/ Arrive
Next == Memory \/ Store \/ Call \/ Flush

Spec == Init /\ [][Next]_vars

(* The processor goes on, and what is on its way to memory arrives.        *)
FairSpec == Spec /\ WF_vars(Call) /\ WF_vars(Flush) /\ WF_vars(Arrive)

-----------------------------------------------------------------------------
(* The end of the range, rounded up, would be the end of the address space *)
(* or beyond: last wraps to the first block, and nothing is flushed.  The  *)
(* memory of the board ends far below.                                     *)
RoundsPastTop == start + length + Block - 1 >= Top

(* What is flushed has reached memory when the call returns, also in the   *)
(* first and the last block of a range that is not aligned, and also a     *)
(* block that the cache had begun to write back on its own before          *)
(* (main.c:117-137, VDP.c:51-62).                                          *)
RangeInMemory ==
  pc = "flushed" /\ ~RoundsPastTop =>
    RangeBlocks(start, length) \cap (dirty \cup pending) = {}

(* The loop ends for every range, up to the last block of the address      *)
(* space, where the address of the next block would wrap.                  *)
FlushEnds == pc = "stored" ~> pc = "flushed"
=============================================================================
