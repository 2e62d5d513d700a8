-------------------------------- MODULE Disk --------------------------------
(***************************************************************************)
(* What the disk layer (diskio.c over sd.c) promises to FatFs, in terms of *)
(* its calls and results only.                                             *)
(*                                                                         *)
(* disk_initialize either succeeds or fails.  disk_read of an untainted    *)
(* disk fails or delivers the sectors that were asked for.  It taints the  *)
(* disk when it fails, and also when it succeeds on more than one sector:  *)
(* the card may then still be sending data, and RES_OK of the next call    *)
(* means nothing.  Only a reset of the board is sure to end that.          *)
(***************************************************************************)
EXTENDS Integers, Sequences

CONSTANTS Sectors,   \* sector numbers of the card, integers
          Values,    \* what a sector-sized piece of a buffer may hold: a
                     \* sector's contents, named by its number, or others
          MaxCount   \* bound on the sectors of one read

VARIABLES up,        \* disk_status reports an initialised drive
          busy,      \* a disk_read is running
          request,   \* its, or the last one's, sector and count
          result,    \* "none" while it runs, else its result
          data,      \* the caller's buffer, meaningful when the call is over
          tainted    \* a read may still be open on the card

diskVars == <<up, busy, request, result, data, tainted>>

Wanted(q) == [i \in 1 .. q.count |-> q.lba + i - 1]

Init ==
  /\ up = FALSE /\ busy = FALSE /\ result = "none" /\ tainted = FALSE
  /\ request = [lba |-> 0, count |-> 1] /\ data = <<>>

Initialize ==
  /\ ~up
  /\ up' = TRUE
  /\ UNCHANGED <<busy, request, result, data, tainted>>

Begin(q) ==
  /\ up /\ ~busy
  /\ busy' = TRUE /\ request' = q /\ result' = "none" /\ data' = <<>>
  /\ UNCHANGED <<up, tainted>>

(* The call fails before anything is transferred.                          *)
Refuse(q) ==
  /\ up /\ ~busy
  /\ request' = q /\ result' = "RES_ERROR" /\ data' = <<>>
  /\ tainted' \in BOOLEAN
  /\ UNCHANGED <<up, busy>>

Succeed ==
  /\ busy
  /\ busy' = FALSE /\ result' = "RES_OK"
  /\ data' \in [1 .. request.count -> Values]
  /\ ~tainted => /\ data' = Wanted(request)
                 /\ request.count = 1 => ~tainted'
  /\ tainted' \in BOOLEAN
  /\ UNCHANGED <<up, request>>

Fail ==
  /\ busy
  /\ busy' = FALSE /\ result' = "RES_ERROR"
  /\ data' = <<>>
  /\ tainted' \in BOOLEAN
  /\ UNCHANGED <<up, request>>

Reset ==
  /\ up' = FALSE /\ busy' = FALSE /\ result' = "none" /\ tainted' = FALSE
  /\ request' = [lba |-> 0, count |-> 1] /\ data' = <<>>

Next ==
  \/ Initialize \/ Succeed \/ Fail \/ Reset
  \/ \E q \in [lba : Sectors, count : 1 .. MaxCount] : Begin(q) \/ Refuse(q)

Spec == Init /\ [][Next]_diskVars
=============================================================================
