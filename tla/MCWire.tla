-------------------------------- MODULE MCWire --------------------------------
(* Three relays; control messages of every type, empty, one byte short, exact  *)
(* and one byte long, with the lengths at and around the limits.               *)
EXTENDS Wire
MCLengths(t) == IF t \notin Declaring THEN {0}
                ELSE {0, 2} \cup (IF t = Text THEN {300, 301} ELSE {})
                            \cup (IF t = Clip THEN {MaxClip, MaxClip + 1} ELSE {})
MCShapes == UNION {{[type |-> t, size |-> Width(t) + n, declared |-> d, more |-> IF t = UHID THEN 3 ELSE 0]
                      : d \in MCLengths(t), n \in {-1, 0, 1}} : t \in Types}
MCData == MCShapes \cup {[f EXCEPT !.size = @ + f.declared + f.more] : f \in MCShapes}
          \cup {[type |-> 18, size |-> n, declared |-> 0, more |-> 0] : n \in {0, 1, 2}}
===============================================================================
