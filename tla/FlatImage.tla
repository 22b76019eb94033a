------------------------------ MODULE FlatImage ------------------------------
(***************************************************************************)
(* What the class ImageHandler of avb/avbtool.py promises (lines 727-740): *)
(* a file that is read at a cursor, extended at its end and truncated,     *)
(* whether an Android sparse image or a plain file holds it.               *)
(***************************************************************************)
EXTENDS Integers, Sequences

CONSTANT Units  \* what the image is made of; 0 is a NUL

VARIABLES content, pos, returned

vars == <<content, pos, returned>>

Least(m, n) == IF m <= n THEN m ELSE n

Zeros(n) == [i \in 1 .. n |-> 0]

Init == content \in Seq(Units) /\ pos = 0 /\ returned = << >>

Extend(data) ==
    content' = content \o data /\ pos' = 0 /\ returned' = << >>

\* To a smaller size or, with NULs, to a larger one.
Resize(size) ==
    /\ content' = IF size <= Len(content) THEN SubSeq(content, 1, size)
                  ELSE content \o Zeros(size - Len(content))
    /\ pos' \in IF size = Len(content) THEN {0, pos} ELSE {0}
    /\ returned' = << >>

Seek(offset) == pos' = offset /\ returned' = << >> /\ UNCHANGED content

Read(size) ==
    LET data == SubSeq(content, pos + 1, Least(pos + size, Len(content)))
    IN  returned' = data /\ pos' = pos + Len(data) /\ UNCHANGED content

\* An exception: nothing has happened.
Refuse == returned' = << >> /\ UNCHANGED <<content, pos>>

\* For TLC the data and the sizes are those the step itself shows.
Next ==
    \/ Extend(SubSeq(content', Len(content) + 1, Len(content')))
    \/ Resize(Len(content'))
    \/ Seek(pos')
    \/ pos \in 0 .. Len(content) /\ \E size \in 0 .. Len(content) : Read(size)
    \/ Refuse

Spec == Init /\ [][Next]_vars
=============================================================================
