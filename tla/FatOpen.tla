------------------------------ MODULE FatOpen ------------------------------
(***************************************************************************)
(* What f_open does before it looks into a directory: the volume is        *)
(* mounted, and a segment of the path becomes a name.  The two share no    *)
(* state, and a behaviour is one of either of them.                        *)
(***************************************************************************)
EXTENDS FatMount

CONSTANTS Body, Ext     \* bytes of the fields of a name: see SfnName

VARIABLES
  called,                                              \* the function
  namePc, nameC, nameI, nameNi, nameSfn, nameLast, segment

nameVars == <<namePc, nameC, nameI, nameNi, nameSfn, nameLast, segment>>

N == INSTANCE SfnName WITH
       pc <- namePc, c <- nameC, i <- nameI, ni <- nameNi, sfn <- nameSfn,
       last <- nameLast, units <- segment

ASSUME NameAssumption == N!SfnAssumption

(* The drive, while only names are asked for.                              *)
Idle == CHOOSE d \in Drives : TRUE

OpenInit ==
  /\ called \in {"mount_volume", "create_name"}
  /\ MountInit /\ N!Init
  /\ called = "create_name" => drive = Idle

OpenNext ==
  \/ called = "mount_volume" /\ MountNext /\ UNCHANGED <<called, nameVars>>
  \/ called = "create_name" /\ N!Next /\ UNCHANGED <<called, mountVars>>

OpenSpec == OpenInit /\ [][OpenNext]_<<called, mountVars, nameVars>>

-----------------------------------------------------------------------------
(* The types of both.                                                      *)
OpenTypeOK == MountTypeOK /\ N!TypeOK

(* A segment of a path is accepted exactly if it is an 8.3 name, or a dot  *)
(* and perhaps an extension; that name is what is searched for, and the    *)
(* path is not read beyond its end (ff.c:3029-3090).                       *)
NameIsEightThree == N!NameIsEightThree
=============================================================================
