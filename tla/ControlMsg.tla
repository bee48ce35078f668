------------------------------ MODULE ControlMsg ------------------------------
(***************************************************************************)
(* Control messages: the bytes a viewer sends to the device.  They are made *)
(* by src/frontend/js/protocol.js and checked by ValidateControlMsg of      *)
(* src/internal/protocol/control.go.                                        *)
(*                                                                          *)
(* A frame is abstracted to its type byte, its size in bytes, and what the  *)
(* length fields of its type hold: `declared` is the length of the text, the *)
(* name or the data, `more` the length of the descriptor behind the name of  *)
(* a UHID device.                                                            *)
(***************************************************************************)
EXTENDS Integers, Sequences

Types    == 0..17
Text     == 1
Clip     == 9
UHID     == 12

\* The types that carry a part whose length they declare.
Declaring == {Text, Clip, UHID, 13, 16}

MaxText == 300
MaxSize == 2^18
MaxClip == MaxSize - 14

Frame == [type : Nat, size : Nat, declared : Nat, more : Nat]

\* Bytes that a message of type t, at index t + 1, has in any case.
FixedShort == <<14, 5, 31, 21, 2, 1, 1, 1, 2, 14, 2, 1, 8, 5, 3, 1, 2, 1>>  \* variant
Fixed == <<14, 5, 32, 21, 2, 1, 1, 1, 2, 14, 2, 1, 8, 5, 3, 1, 2, 1>>

OverLimit(f) == \/ f.type = Text /\ f.declared > MaxText
                \/ f.type = Clip /\ f.declared > MaxClip

\* The length of the message at the head of the frame.
Total(f) == Fixed[f.type + 1]
            + (IF f.type \in Declaring THEN f.declared ELSE 0)
            + (IF f.type = UHID THEN 2 + f.more ELSE 0)

\* The result of ValidateControlMsg.  A frame too short for one of its length
\* fields is also shorter than the message the field belongs to.
Validate(f) == IF f.size < 1 THEN 0
               ELSE IF f.type \notin Types THEN -1
               ELSE IF f.size < Total(f) \/ OverLimit(f) THEN 0
               ELSE Total(f)

-------------------------------------------------------------------------------
\* The fields of each type as the comments of control.go give them, in bytes,
\* without the parts of declared length.
Fields == << <<1, 1, 4, 4, 4>>,                    \* keycode
             <<1, 4>>,                             \* text
             <<1, 1, 8, 12, 2, 4, 4>>,             \* touch
             <<1, 12, 2, 2, 4>>,                   \* scroll
             <<1, 1>>, <<1>>, <<1>>, <<1>>, <<1, 1>>,
             <<1, 8, 1, 4>>,                       \* clipboard
             <<1, 1>>, <<1>>,
             <<1, 2, 2, 2, 1, 2>>,                 \* UHID device
             <<1, 2, 2>>, <<1, 2>>, <<1>>, <<1, 1>>, <<1>> >>

\* No type has more than seven of them.
Width(t) ==
  LET field(i) == IF i <= Len(Fields[t + 1]) THEN Fields[t + 1][i] ELSE 0
  IN  field(1) + field(2) + field(3) + field(4) + field(5) + field(6) + field(7)

\* A frame that begins with a whole message the device knows.
Whole(f) ==
  /\ f.size > 0
  /\ f.type \in Types
  /\ f.size >= Width(f.type) + (IF f.type \in Declaring THEN f.declared ELSE 0)
                             + (IF f.type = UHID THEN f.more ELSE 0)
  /\ f.type = Text => f.declared <= MaxText
  /\ f.type = Clip => 14 + f.declared <= MaxSize

\* The types the page has an encoder for, and the size of its buffer.
PageSize(t) == CASE t = 0 -> 14 [] t = 2 -> 32 [] t = 3 -> 21
                 [] t \in {4, 10} -> 2 [] t \in {5, 6, 7, 11} -> 1
PageFrames == {[type |-> t, size |-> PageSize(t), declared |-> 0, more |-> 0]
                 : t \in {0, 2, 3, 4, 5, 6, 7, 10, 11}}
===============================================================================
