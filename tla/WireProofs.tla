------------------------------ MODULE WireProofs ------------------------------
(* That relays which succeed each other on one connection do not get out of *)
(* step with its messages as long as they do not overlap, and that each      *)
(* takes at most one message too many, for any number of relays.             *)
EXTENDS Wire, TLAPS

-------------------------------------------------------------------------------
(* Types *)

LEMMA TypeInit == Init => TypeOK
<1> SUFFICES ASSUME Init PROVE TypeOK
  OBVIOUS
<1> USE DEF Init
<1>1. open \in BOOLEAN /\ refused \in BOOLEAN /\ garbled \in BOOLEAN /\ shared \in BOOLEAN
  OBVIOUS
<1>2. /\ reader \in [Relays -> {"none", "made", "check", "read", "done", "end"}]
      /\ need \in [Relays -> 0..2] /\ after \in [Relays -> 0..2]
  OBVIOUS
<1>3. left \in 0..2 /\ \A r \in Relays : need[r] > 0 => reader[r] \in {"read", "end"}
  OBVIOUS
<1>4. QED
  BY <1>1, <1>2, <1>3 DEF TypeOK

\* What the two outcomes of a read leave behind.
LEMMA AdvanceTypes ==
  ASSUME TypeOK, NEW r \in Relays, reader[r] = "read", NEW n \in 0..2, Advance(r, n),
         garbled' = (garbled \/ left # need[r]),
         UNCHANGED <<conn, current, shared, after, last>>
  PROVE  TypeOK'
BY DEF Advance, TypeOK, conn

LEMMA RefuseTypes ==
  ASSUME TypeOK, NEW r \in Relays, reader[r] = "read", NEW n \in 0..2, Refuse(r, n),
         garbled' = (garbled \/ left # need[r]),
         UNCHANGED <<conn, current, shared, after, last>>
  PROVE  TypeOK'
BY DEF Refuse, End, TypeOK, conn

LEMMA ReadTypes ==
  ASSUME TypeOK, NEW r \in Relays, ReadPart(r) PROVE TypeOK'
<1> USE DEF ReadPart
<1>1. need[r] \in 0..2
  BY DEF TypeOK
<1>2. CASE \E n \in Rests : Advance(r, n)
  <2>1. PICK n \in Rests : Advance(r, n)
    BY <1>2
  <2>2. n \in 0..2
    BY DEF Rests
  <2>3. QED
    BY <2>1, <2>2, AdvanceTypes
<1>3. CASE \E n \in Rests \cup {0} : Refuse(r, n)
  <2>1. PICK n \in Rests \cup {0} : Refuse(r, n)
    BY <1>3
  <2>2. n \in 0..2
    BY DEF Rests
  <2>3. QED
    BY <2>1, <2>2, RefuseTypes
<1>4. CASE need[r] > 0 /\ Advance(r, need[r] - 1)
  <2>1. need[r] - 1 \in 0..2
    BY <1>1, <1>4
  <2>2. QED
    BY <1>4, <2>1, AdvanceTypes
<1>5. CASE Refuse(r, 1)
  BY <1>5, RefuseTypes
<1>6. QED
  BY <1>2, <1>3, <1>4, <1>5

LEMMA TypeStep == TypeOK /\ [Next]_vars => TypeOK'
<1> SUFFICES ASSUME TypeOK, [Next]_vars PROVE TypeOK'
  OBVIOUS
<1> USE WireAssumption DEF TypeOK, conn, wire
<1>1. ASSUME NEW r \in Relays, Replace(r) PROVE TypeOK'
  BY <1>1 DEF Replace
<1>2. ASSUME NEW r \in Relays, Launch(r) PROVE TypeOK'
  BY <1>2 DEF Launch, Active
<1>3. ASSUME NEW r \in Relays, SiblingEnds(r) PROVE TypeOK'
  BY <1>3 DEF SiblingEnds, Active
<1>4. ASSUME NEW r \in Relays, Check(r) PROVE TypeOK'
  BY <1>4 DEF Check, End
<1>5. ASSUME NEW r \in Relays, ReadFails(r) PROVE TypeOK'
  BY <1>5 DEF ReadFails, End
<1>6. ASSUME NEW r \in Relays, Deliver(r) PROVE TypeOK'
  <2>1. after' \in [Relays -> 0..2]
    BY <1>6 DEF Deliver
  <2>2. QED
    BY <1>6, <2>1 DEF Deliver, End
<1>7. CASE StopRelay
  BY <1>7 DEF StopRelay
<1>8. CASE CloseConn
  BY <1>8 DEF CloseConn
<1>9. ASSUME NEW f \in Data, SendControlMsg(f) PROVE TypeOK'
  BY <1>9 DEF SendControlMsg
<1>10. CASE UNCHANGED vars
  BY <1>10 DEF vars
<1>11. QED
  BY <1>1, <1>2, <1>3, <1>4, <1>5, <1>6, <1>7, <1>8, <1>9, <1>10, ReadTypes
     DEF Next, Reader

\* Every variable keeps its type, for any number of relays and any messages.
THEOREM WireTyped == Spec => []TypeOK
BY TypeInit, TypeStep, PTL DEF Spec

-------------------------------------------------------------------------------
(* Framing *)

\* While relays have not overlapped, at most one is at the connection, it is in
\* step, and it leaves the connection between two messages.
Alone == \A q, r \in Relays : Active(q) /\ Active(r) => q = r
Level == open => \A r \in Relays : Active(r) => left = need[r]
Clean == (open /\ ~refused /\ \A r \in Relays : ~Active(r)) => left = 0
Fresh == \A r \in Relays : reader[r] \notin {"read", "end"} => need[r] = 0

FrameInv == Fresh /\ (~shared => (~garbled /\ Alone /\ Level /\ Clean))

LEMMA FrameInit == Init => FrameInv
BY DEF Init, FrameInv, Alone, Level, Clean, Fresh, Active

\* The steps that touch no connection.
LEMMA FrameQuiet ==
  ASSUME FrameInv, UNCHANGED <<reader, need, wire, shared>>, open' => open
  PROVE  FrameInv'
BY DEF FrameInv, Alone, Level, Clean, Fresh, Active, wire

LEMMA FrameLaunch ==
  ASSUME TypeOK, FrameInv, NEW r \in Relays, Launch(r) PROVE FrameInv'
<1> USE DEF Launch, FrameInv, wire, conn
<1>1. Fresh'
  BY DEF Fresh, TypeOK
<1>2. ASSUME ~shared' PROVE ~garbled' /\ Alone' /\ Level' /\ Clean'
  <2>1. ~shared /\ ~refused /\ \A q \in Relays : ~Active(q)
    BY <1>2
  <2>2. need[r] = 0
    BY DEF Fresh
  <2>3. \A q \in Relays : Active(q)' => q = r
    BY <2>1 DEF Active, TypeOK
  <2>4. Active(r)'
    BY DEF Active, TypeOK
  <2>5. QED
    BY <2>1, <2>2, <2>3, <2>4 DEF Alone, Level, Clean
<1>3. QED
  BY <1>1, <1>2

\* A reader that was alone and goes on, in step as before.
LEMMA FrameGoesOn ==
  ASSUME TypeOK, FrameInv, NEW r \in Relays, Active(r), Active(r)', Fresh',
         \A q \in Relays : q # r => reader'[q] = reader[q],
         UNCHANGED shared, open' => open,
         ~shared => ~garbled' /\ (open' => left' = need'[r])
  PROVE  FrameInv'
<1>1. ASSUME ~shared PROVE Alone' /\ Level' /\ Clean'
  <2>1. \A q \in Relays : Active(q)' => q = r
    BY <1>1 DEF FrameInv, Alone, Active
  <2>2. QED
    BY <1>1, <2>1 DEF Alone, Level, Clean
<1>2. QED
  BY <1>1 DEF FrameInv

\* A reader that was alone and leaves, between two messages unless one was
\* refused or the connection is closed.
LEMMA FrameLeaves ==
  ASSUME TypeOK, FrameInv, NEW r \in Relays, Active(r), reader'[r] = "end", Fresh',
         \A q \in Relays : q # r => reader'[q] = reader[q],
         UNCHANGED shared, ~shared => ~garbled' /\ (left' = 0 \/ refused' \/ ~open')
  PROVE  FrameInv'
<1>1. ASSUME ~shared PROVE Alone' /\ Level' /\ Clean'
  <2>1. \A q \in Relays : ~Active(q)'
    BY <1>1 DEF FrameInv, Alone, Active
  <2>2. QED
    BY <1>1, <2>1 DEF Alone, Level, Clean
<1>2. QED
  BY <1>1 DEF FrameInv

LEMMA FrameRead ==
  ASSUME TypeOK, FrameInv, NEW r \in Relays, ReadPart(r) PROVE FrameInv'
<1> USE DEF ReadPart, wire, conn
<1>1. Active(r) /\ open
  BY DEF Active
<1>2. ~shared => ~garbled'
  BY <1>1 DEF FrameInv, Level
<1>3. need[r] \in 0..2 /\ \A n \in Rests : n \in 1..2
  BY DEF TypeOK, Rests
<1>4. ASSUME NEW n \in 0..2, Advance(r, n) PROVE FrameInv'
  <2>1. Fresh' /\ Active(r)' /\ \A q \in Relays : q # r => reader'[q] = reader[q]
    BY <1>4 DEF Advance, FrameInv, Fresh, TypeOK, Active
  <2>2. ~shared => left' = need'[r]
    BY <1>2, <1>4 DEF Advance, TypeOK
  <2>3. QED
    BY <1>1, <1>2, <2>1, <2>2, FrameGoesOn
<1>5. ASSUME NEW n, Refuse(r, n) PROVE FrameInv'
  <2>1. /\ Fresh' /\ reader'[r] = "end" /\ refused'
        /\ \A q \in Relays : q # r => reader'[q] = reader[q]
    BY <1>5 DEF Refuse, End, FrameInv, Fresh, TypeOK
  <2>2. QED
    BY <1>1, <1>2, <2>1, FrameLeaves
<1>6. QED
  <2>1. CASE need[r] = 0
    BY <1>3, <1>4, <1>5, <2>1
  <2>2. CASE need[r] > 0
    <3>1. need[r] - 1 \in 0..2
      BY <1>3, <2>2
    <3>2. QED
      BY <1>4, <1>5, <2>2, <3>1
  <2>3. QED
    BY <1>3, <2>1, <2>2

LEMMA FrameStep == TypeOK /\ FrameInv /\ [Next]_vars => FrameInv'
<1> SUFFICES ASSUME TypeOK, FrameInv, [Next]_vars PROVE FrameInv'
  OBVIOUS
<1> USE DEF conn, wire
<1>1. ASSUME NEW r \in Relays, Replace(r) PROVE FrameInv'
  <2>1. \A q \in Relays : Active(q)' <=> Active(q)
    BY <1>1 DEF Replace, Active, TypeOK
  <2>2. Fresh'
    BY <1>1 DEF Replace, FrameInv, Fresh, TypeOK
  <2>3. QED
    BY <1>1, <2>1, <2>2 DEF Replace, FrameInv, Alone, Level, Clean
<1>2. ASSUME NEW r \in Relays, Check(r) PROVE FrameInv'
  <2>1. /\ Active(r) /\ need[r] = 0 /\ Fresh' /\ reader'[r] \in {"read", "end"}
        /\ \A q \in Relays : q # r => reader'[q] = reader[q]
        /\ UNCHANGED <<open, need, left, refused, garbled, shared>>
    BY <1>2 DEF Check, End, FrameInv, Fresh, TypeOK, Active
  <2>2. ~shared /\ open => left = 0
    BY <2>1 DEF FrameInv, Level
  <2>3. CASE reader'[r] = "read"
    BY <2>1, <2>2, <2>3, FrameGoesOn DEF Active, FrameInv
  <2>4. CASE reader'[r] = "end"
    BY <2>1, <2>2, <2>4, FrameLeaves DEF FrameInv
  <2>5. QED
    BY <2>1, <2>3, <2>4
<1>3. ASSUME NEW r \in Relays, ReadFails(r) PROVE FrameInv'
  <2>1. /\ Active(r) /\ Fresh' /\ reader'[r] = "end" /\ ~open'
        /\ \A q \in Relays : q # r => reader'[q] = reader[q]
        /\ UNCHANGED <<garbled, shared>>
    BY <1>3 DEF ReadFails, End, FrameInv, Fresh, TypeOK, Active
  <2>2. QED
    BY <2>1, FrameLeaves DEF FrameInv
<1>4. ASSUME NEW r \in Relays, Deliver(r) PROVE FrameInv'
  <2>1. /\ Active(r) /\ need[r] = 0 /\ Fresh' /\ reader'[r] \in {"check", "read", "end"}
        /\ \A q \in Relays : q # r => reader'[q] = reader[q]
        /\ UNCHANGED <<open, need, left, refused, garbled, shared>>
    BY <1>4 DEF Deliver, End, FrameInv, Fresh, TypeOK, Active
  <2>2. ~shared /\ open => left = 0
    BY <2>1 DEF FrameInv, Level
  <2>3. CASE reader'[r] \in {"check", "read"}
    BY <2>1, <2>2, <2>3, FrameGoesOn DEF Active, FrameInv
  <2>4. CASE reader'[r] = "end"
    BY <2>1, <2>2, <2>4, FrameLeaves DEF FrameInv
  <2>5. QED
    BY <2>1, <2>3, <2>4
<1>5. ASSUME NEW r \in Relays, SiblingEnds(r) PROVE FrameInv'
  BY <1>5, FrameQuiet DEF SiblingEnds
<1>6. CASE StopRelay \/ CloseConn \/ \E f \in Data : SendControlMsg(f)
  BY <1>6, FrameQuiet DEF StopRelay, CloseConn, SendControlMsg
<1>7. CASE UNCHANGED vars
  BY <1>7, FrameQuiet DEF vars
<1>8. QED
  BY <1>1, <1>2, <1>3, <1>4, <1>5, <1>6, <1>7, FrameLaunch, FrameRead
     DEF Next, Reader

\* However many relays succeed each other on a connection, its readers stay in
\* step with its messages unless two of them have overlapped, or one was
\* started after a message was refused half-way.
THEOREM InStepTheorem == Spec => []InStep
<1>1. FrameInv => InStep
  BY DEF FrameInv, InStep
<1>2. QED
  BY <1>1, TypeInit, TypeStep, FrameInit, FrameStep, PTL DEF Spec

-------------------------------------------------------------------------------
(* Messages taken too many *)

TakenInv == \A r \in Relays :
              /\ after[r] \in {0, 1}
              /\ r \notin stopped => after[r] = 0
              /\ reader[r] \in {"none", "made", "read", "done"} => after[r] = 0

LEMMA TakenStep == TypeOK /\ TakenInv /\ [Next]_vars => TakenInv'
<1> SUFFICES ASSUME TypeOK, TakenInv, [Next]_vars PROVE TakenInv'
  OBVIOUS
<1> USE WireAssumption DEF TakenInv, TypeOK
<1>1. ASSUME NEW r \in Relays, Replace(r) PROVE TakenInv'
  BY <1>1 DEF Replace
<1>2. ASSUME NEW r \in Relays, Launch(r) PROVE TakenInv'
  BY <1>2 DEF Launch
<1>3. ASSUME NEW r \in Relays, SiblingEnds(r) PROVE TakenInv'
  BY <1>3 DEF SiblingEnds
<1>4. ASSUME NEW r \in Relays, Check(r) PROVE TakenInv'
  BY <1>4 DEF Check, End
<1>5. ASSUME NEW r \in Relays, ReadFails(r) PROVE TakenInv'
  BY <1>5 DEF ReadFails, End
<1>6. ASSUME NEW r \in Relays, ReadPart(r) PROVE TakenInv'
  BY <1>6 DEF ReadPart, Advance, Refuse, End
<1>7. ASSUME NEW r \in Relays, Deliver(r) PROVE TakenInv'
  BY <1>7 DEF Deliver, End
<1>8. CASE StopRelay \/ CloseConn \/ \E f \in Data : SendControlMsg(f)
  BY <1>8 DEF StopRelay, CloseConn, SendControlMsg
<1>9. CASE UNCHANGED vars
  BY <1>9 DEF vars
<1>10. QED
  BY <1>1, <1>2, <1>3, <1>4, <1>5, <1>6, <1>7, <1>8, <1>9 DEF Next, Reader

\* A relay that was stopped takes at most one message away from the relay that
\* has replaced it, for any number of relays and whichever stream it reads.
THEOREM OneMoreTheorem == Spec => []OneMore
<1>1. Init => TakenInv
  BY DEF Init, TakenInv
<1>2. TakenInv => OneMore
  BY DEF TakenInv, OneMore
<1>3. QED
  BY <1>1, <1>2, TypeInit, TypeStep, TakenStep, PTL DEF Spec

-------------------------------------------------------------------------------
(* Control messages *)

\* The sizes ValidateControlMsg has in its code are those the fields add up to.
LEMMA Widths ==
  ASSUME NEW t \in Types
  PROVE  /\ Fixed[t + 1] \in Nat \ {0}
         /\ Width(t) = Fixed[t + 1] + (IF t = UHID THEN 2 ELSE 0)
<1>1. /\ Width(0) = 14 /\ Width(1) = 5 /\ Width(2) = 32 /\ Width(3) = 21 /\ Width(4) = 2
      /\ Width(5) = 1 /\ Width(6) = 1 /\ Width(7) = 1 /\ Width(8) = 2 /\ Width(9) = 14
      /\ Width(10) = 2 /\ Width(11) = 1 /\ Width(12) = 10 /\ Width(13) = 5 /\ Width(14) = 3
      /\ Width(15) = 1 /\ Width(16) = 2 /\ Width(17) = 1
  BY DEF Width, Fields
<1>2. /\ Fixed[1] = 14 /\ Fixed[2] = 5 /\ Fixed[3] = 32 /\ Fixed[4] = 21 /\ Fixed[5] = 2
      /\ Fixed[6] = 1 /\ Fixed[7] = 1 /\ Fixed[8] = 1 /\ Fixed[9] = 2 /\ Fixed[10] = 14
      /\ Fixed[11] = 2 /\ Fixed[12] = 1 /\ Fixed[13] = 8 /\ Fixed[14] = 5 /\ Fixed[15] = 3
      /\ Fixed[16] = 1 /\ Fixed[17] = 2 /\ Fixed[18] = 1
  BY DEF Fixed
<1>3. t \in 0..17
  BY DEF Types
<1>4. QED
  BY <1>1, <1>2, <1>3 DEF UHID

\* What ValidateControlMsg returns for a frame is positive exactly if a whole
\* message of a known type is at its head, and is then the length of that
\* message by its fields: for frames of any size and any declared lengths.
THEOREM ValidateCorrect ==
  ASSUME NEW f \in Frame
  PROVE  /\ Validate(f) > 0 <=> Whole(f)
         /\ Whole(f) => /\ f.type <= 17
                        /\ Validate(f) =
                             Width(f.type)
                             + (IF f.type \in Declaring THEN f.declared ELSE 0)
                             + (IF f.type = UHID THEN f.more ELSE 0)
<1> USE DEF Frame
<1>1. CASE f.type \notin Types
  BY <1>1 DEF Validate, Whole
<1>2. CASE f.type \in Types
  <2> DEFINE total == Width(f.type)
                      + (IF f.type \in Declaring THEN f.declared ELSE 0)
                      + (IF f.type = UHID THEN f.more ELSE 0)
  <2>1. Total(f) = total /\ total \in Nat
    BY <1>2, Widths DEF Total
  <2>2. total > 0
    BY <1>2, Widths
  <2>3. ~OverLimit(f) <=> /\ f.type = Text => f.declared <= MaxText
                          /\ f.type = Clip => 14 + f.declared <= MaxSize
    <3>1. MaxSize \in Int
      BY DEF MaxSize
    <3>2. QED
      BY <3>1 DEF OverLimit, MaxClip, MaxText
  <2> HIDE DEF total
  <2>4. QED
    BY <1>2, <2>1, <2>2, <2>3 DEF Validate, Whole, total, Types
<1>3. QED
  BY <1>1, <1>2

\* The frames the page makes are whole messages.
LEMMA PageWhole == ASSUME NEW f \in PageFrames PROVE Whole(f)
<1>1. PICK t \in {0, 2, 3, 4, 5, 6, 7, 10, 11} :
        f = [type |-> t, size |-> PageSize(t), declared |-> 0, more |-> 0]
  BY DEF PageFrames
<1>2. QED
  BY <1>1, Widths DEF Whole, Types, PageSize, Text, Clip, UHID, Fixed, MaxSize

\* Whatever a viewer sends, SendControlMsg writes it exactly if it begins with a
\* whole message of a known type, and refuses none of the page's.
THEOREM FramedTheorem == Spec => []ControlFramed
<1> DEFINE Judged == last # None => /\ last.frame \in Frame
                                    /\ last.written <=> Whole(last.frame)
<1>1. Init => Judged
  BY DEF Init
<1>2. Judged /\ [Next]_vars => Judged'
  <2> SUFFICES ASSUME Judged, [Next]_vars PROVE Judged'
    OBVIOUS
  <2>1. ASSUME NEW f \in Data, SendControlMsg(f) PROVE Judged'
    BY <2>1, WireAssumption, ValidateCorrect DEF SendControlMsg
  <2>2. CASE UNCHANGED last
    BY <2>2
  <2>3. QED
    BY <2>1, <2>2
       DEF Next, Reader, Replace, Launch, SiblingEnds, Check, ReadFails, ReadPart,
           Deliver, StopRelay, CloseConn, vars
<1>3. Judged => ControlFramed
  <2>1. last.frame \in PageFrames => Whole(last.frame)
    BY PageWhole
  <2>2. QED
    BY <2>1 DEF ControlFramed
<1>4. QED
  BY <1>1, <1>2, <1>3, PTL DEF Spec
===============================================================================
