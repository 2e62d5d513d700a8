------------------------------ MODULE SfnName ------------------------------
(***************************************************************************)
(* create_name of FatFs as it is configured here (no long names, no        *)
(* relative paths, code page 932): the next segment of a path becomes the  *)
(* name field of a directory entry.  The path is read a byte at a time,    *)
(* and is here chosen as it is read.  In this code page a byte of the      *)
(* range of dbc_1st makes a character with the byte after it, which may    *)
(* look like a letter, or like a separator.                                *)
(***************************************************************************)
EXTENDS Integers, Sequences, SequencesExt

CONSTANTS Body, Ext     \* bytes of the two fields: 8 and 3

SfnAssumption == Body \in Nat \ {0} /\ Ext \in Nat \ {0}

End == "end"            \* NUL, or any other byte up to a space
DDEM == "E5"            \* what marks a deleted entry
RDDEM == "05"
Blank == " "

(* One byte of each kind.  "\\" is a separator and a second byte, DDEM is  *)
(* a first and a second byte, "*" stands for what no name may contain.     *)
Chars == {"a", "A", ".", "/", "\\", "*", "81", DDEM, End}
IsSeparator(c) == c \in {"/", "\\"}
Dbc1st(c) == c \in {"81", DDEM}
Dbc2nd(c) == c \in {"a", "A", "\\", "81", DDEM}
Illegal(c) == c = "*"
Upper(c) == IF c = "a" THEN "A" ELSE c

VARIABLES
  pc,       \* "loop", "second", "skip", "ok" or "bad"
  c,        \* the byte read last
  i, ni,    \* where the next byte goes, and the end of the field
  sfn,      \* the name field
  last,     \* NS_LAST: no segment follows
  units     \* history: the characters of the segment, of one or two bytes

vars == <<pc, c, i, ni, sfn, last, units>>

TypeOK ==
  /\ pc \in {"loop", "second", "skip", "ok", "bad"}
  /\ c \in Chars /\ last \in BOOLEAN
  /\ ni \in {Body, Body + Ext} /\ i \in 0 .. ni
  /\ sfn \in [0 .. Body + Ext - 1 -> (Chars \ {End}) \cup {Blank, RDDEM}]

Init ==
  /\ pc = "loop" /\ c = "/"
  /\ i = 0 /\ ni = Body
  /\ sfn = [k \in 0 .. Body + Ext - 1 |-> Blank]
  /\ last = FALSE /\ units = <<>>

-----------------------------------------------------------------------------
Stored == IF sfn[0] = DDEM THEN [sfn EXCEPT ![0] = RDDEM] ELSE sfn

Finish(lastSegment) ==
  /\ last' = lastSegment
  /\ pc' = IF i = 0 THEN "bad" ELSE "ok"
  /\ sfn' = IF i = 0 THEN sfn ELSE Stored
  /\ UNCHANGED <<i, ni, units>>

EndOfPath ==
  /\ c' = End
  /\ Finish(TRUE)

Separator ==
  /\ IsSeparator(c')
  /\ pc' = "skip"
  /\ UNCHANGED <<i, ni, sfn, last, units>>

Reject ==
  /\ pc' = "bad"
  /\ UNCHANGED <<i, ni, sfn, last>>

(* A dot ends the body, once; any other byte must fit the field.           *)
DotOrOverflow ==
  /\ c' # End /\ ~IsSeparator(c')
  /\ c' = "." \/ i >= ni
  /\ units' = Append(units, <<c'>>)
  /\ IF ni = Body + Ext \/ c' # "."
     THEN Reject
     ELSE /\ i' = Body /\ ni' = Body + Ext
          /\ UNCHANGED <<pc, sfn, last>>

Fits == c' \notin {End, "."} /\ ~IsSeparator(c') /\ i < ni

FirstByte ==
  /\ Fits /\ Dbc1st(c')
  /\ pc' = "second"
  /\ UNCHANGED <<i, ni, sfn, last, units>>

SingleByte ==
  /\ Fits /\ ~Dbc1st(c')
  /\ units' = Append(units, <<c'>>)
  /\ IF Illegal(c')
     THEN Reject
     ELSE /\ sfn' = [sfn EXCEPT ![i] = Upper(c')]
          /\ i' = i + 1
          /\ UNCHANGED <<pc, ni, last>>

Loop ==
  /\ pc = "loop"
  /\ c' \in Chars
  /\ EndOfPath \/ Separator \/ DotOrOverflow \/ FirstByte \/ SingleByte

(* Mutant: the room for the second byte is not asked for.                  *)
RoomForBothOfOne(d) == Dbc2nd(d)

RoomForBoth(d) == Dbc2nd(d) /\ i < ni - 1

(* The second byte is taken as it is.                                      *)
SecondByte ==
  /\ pc = "second"
  /\ c' \in Chars
  /\ units' = Append(units, <<c, c'>>)
  /\ IF RoomForBoth(c')
     THEN /\ sfn' = [sfn EXCEPT ![i] = c, ![i + 1] = c']
          /\ i' = i + 2
          /\ pc' = "loop"
          /\ UNCHANGED <<ni, last>>
     ELSE Reject

(* Duplicated separators are skipped, and the byte after them decides      *)
(* whether this was the last segment.                                      *)
Skip ==
  /\ pc = "skip"
  /\ c' \in Chars
  /\ IF IsSeparator(c')
     THEN UNCHANGED <<pc, i, ni, sfn, last, units>>
     ELSE Finish(c' = End)

Next == Loop \/ SecondByte \/ Skip

Spec == Init /\ [][Next]_vars

-----------------------------------------------------------------------------
(* What 8.3 means, from the characters us of a segment: the fields are     *)
(* what is before and after the dot.                                       *)
Value(u) == IF Len(u) = 1 THEN <<Upper(u[1])>> ELSE u
Bytes(us) == FlattenSeq([k \in DOMAIN us |-> Value(us[k])])

Dots(us) == {k \in DOMAIN us : us[k] = <<".">>}
FirstDot(us) == IF Dots(us) = {} THEN Len(us) + 1
                ELSE CHOOSE k \in Dots(us) : \A n \in Dots(us) : k <= n
BodyBytes(us) == Bytes(SubSeq(us, 1, FirstDot(us) - 1))
ExtBytes(us) == Bytes(SubSeq(us, FirstDot(us) + 1, Len(us)))

Legal(u) == IF Len(u) = 1 THEN ~Illegal(u[1]) ELSE Dbc2nd(u[2])
TwoFields(us) ==
  /\ us # <<>> /\ Dots(us) \subseteq {FirstDot(us)}
  /\ \A k \in DOMAIN us : Legal(us[k])
  /\ Len(BodyBytes(us)) <= Body /\ Len(ExtBytes(us)) <= Ext

(* A name needs a body; a segment that begins with the dot has none.       *)
EightThree(us) == TwoFields(us) /\ BodyBytes(us) # <<>>
DotName(us) == TwoFields(us) /\ BodyBytes(us) = <<>>

Padded(s, n) == [k \in 1 .. n |-> IF k <= Len(s) THEN s[k] ELSE Blank]
Field(us) == Padded(BodyBytes(us), Body) \o Padded(ExtBytes(us), Ext)

Stands(b) == IF b = DDEM THEN RDDEM ELSE b
EntryName(us) ==
  [k \in 0 .. Body + Ext - 1 |-> IF k = 0 THEN Stands(Field(us)[1]) ELSE Field(us)[k + 1]]

(* A segment is accepted exactly if it is an 8.3 name, or a dot that an   *)
(* extension may follow (NoDotNames).  Its two fields are what is searched *)
(* for, with the byte in front replaced that would mark a deleted entry; a *)
(* character of two bytes is never divided, nor does one spill from the    *)
(* body into the extension; and no byte is read after the end of the path, *)
(* also if that is in the middle of a character (ff.c:3029-3090).          *)
NameIsEightThree ==
  /\ pc = "ok" => (EightThree(units) \/ DotName(units)) /\ sfn = EntryName(units)
  /\ pc = "bad" => ~EightThree(units) /\ ~DotName(units)
  /\ c = End => pc \in {"ok", "bad"}

(* "Dot directory names are not allowed" (documents/doc/filename.html:19,  *)
(* and the table at 30): a segment without a body is refused.  It does not *)
(* hold (README, 7).                                                       *)
NoDotNames == pc = "ok" => EightThree(units)
=============================================================================
