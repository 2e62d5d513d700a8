-------------------------------- MODULE Vdp --------------------------------
(***************************************************************************)
(* VDP_test against the beam of the display: the sprite is placed, the     *)
(* picture loaded, and then the sprite is moved after two busy waits on    *)
(* the vertical-blank bit of the status register, the first for its end    *)
(* and the second for its start.  The beam runs while the processor works: *)
(* between two of its steps pass from 1 to Step lines.  Step covers        *)
(* everything that may delay a poll or the store after it; where the       *)
(* processor is busy with the card, it takes many steps.                   *)
(***************************************************************************)
EXTENDS Integers, FiniteSets

CONSTANTS Visible, Blank,   \* lines of a frame
          Step              \* lines that pass in a step, at most

(* The store that ends the test is made two steps after the last poll that *)
(* did not see the blank, at the latest.                                   *)
VdpAssumption ==
  /\ Visible \in Nat /\ Blank \in Nat /\ Step \in Nat \ {0}
  /\ 2 * Step <= Blank /\ Step <= Visible

Frame == Visible + Blank

VARIABLES
  pc,     \* "place", "load", "regs", "first", "second", "move" or "done"
  line,   \* of the beam: 0 .. Visible - 1, then the blank
  sprite, \* the position in s_att[0]: "none", "placed" or "moved"
  shown   \* history: the positions that lines of this frame were drawn with

vars == <<pc, line, sprite, shown>>

TypeOK ==
  /\ pc \in {"place", "load", "regs", "first", "second", "move", "done"}
  /\ line \in 0 .. Frame - 1
  /\ sprite = CASE pc = "place" -> "none" [] pc = "done" -> "moved" [] OTHER -> "placed"
  /\ shown \subseteq {"none", "placed", "moved"}

Init ==
  /\ pc = "place"
  /\ line \in 0 .. Frame - 1
  /\ sprite = "none" /\ shown = {"none"}

-----------------------------------------------------------------------------
V_BLK == line >= Visible

(* The lines that the beam passes now show the sprite where it is from now *)
(* on; the first line of a frame begins a new record.                      *)
BeamMoves ==
  \E d \in 1 .. Step :
    LET passed == {n \in 1 .. d : (line + n) % Frame < Visible}
        wrapped == line + d >= Frame
    IN /\ line' = (line + d) % Frame
       /\ shown' = (IF wrapped THEN {} ELSE shown)
                     \cup (IF passed = {} THEN {} ELSE {sprite'})

Go(from, to) == pc = from /\ pc' = to /\ BeamMoves

(* The sprite is placed and the layers are enabled wherever the beam is.   *)
Place == sprite' = "placed" /\ Go("place", "load")

(* The sprite's and the tiles' data, the picture from the card, the flush. *)
Load == UNCHANGED sprite /\ (Go("load", "load") \/ Go("load", "regs"))

(* The offsets of the tile layers are stored at once, wherever the beam is. *)
Regs == UNCHANGED sprite /\ Go("regs", "first")

(* Mutant: the first wait is left out, as if the call came in the picture. *)
PollFirstOnce == UNCHANGED sprite /\ Go("first", "second")

PollFirst == UNCHANGED sprite /\ Go("first", IF V_BLK THEN "first" ELSE "second")

(* Mutant: waits for the first line of the blank itself.                   *)
PollSecondLine ==
  UNCHANGED sprite /\ Go("second", IF line = Visible THEN "move" ELSE "second")

PollSecond == UNCHANGED sprite /\ Go("second", IF V_BLK THEN "move" ELSE "second")

Move == sprite' = "moved" /\ Go("move", "done")

Done == UNCHANGED sprite /\ Go("done", "done")

Poll == PollFirst \/ PollSecond
Next == Place \/ Load \/ Regs \/ Poll \/ Move \/ Done

Spec == Init /\ [][Next]_vars

(* The processor runs, and the picture's load ends.                        *)
FairSpec == Spec /\ WF_vars(Next) /\ SF_vars(Load /\ pc' = "regs")

-----------------------------------------------------------------------------
(* The sprite jumps between frames: none is drawn partly with the old and  *)
(* partly with the new position, although the store is not synchronised    *)
(* with anything but the two polls, whenever the load ends (VDP.c:345-352).*)
NotTorn == "moved" \in shown => shown = {"moved"}

(* Both edges of the blank are seen, so that the test ends and the boot    *)
(* goes on (VDP.c:345-346).                                                *)
TestEnds == <>(pc = "done")
=============================================================================
