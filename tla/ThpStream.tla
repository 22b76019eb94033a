------------------------------ MODULE ThpStream ------------------------------
(***************************************************************************)
(* initramfs/touch-view/piano-touch-view.c, main(): the records of         *)
(* /proc/nvt_thp_stream are read in whatever pieces poll() and read()      *)
(* deliver them, cut out of the buffer, and the scan recovers after bytes  *)
(* that belong to no record.                                               *)
(*                                                                         *)
(* A byte of the model stands for a field: a record is Magic, a number n   *)
(* (its lengths) and n more.  Two bytes are the 32 of a header; a number   *)
(* that is not one (NoLength) is a header length below 32.                 *)
(***************************************************************************)
EXTENDS Integers, Sequences, SequencesExt

CONSTANTS
    MaxLen,   \* the longest body of a record
    Pieces,   \* bound: records and stretches of other bytes on the wire
    BufSize,  \* sizeof(buf)
    Magic, NoLength

ThpStreamAssumption ==
    /\ MaxLen \in Nat /\ Pieces \in Nat /\ BufSize \in Nat
    /\ MaxLen + 2 < BufSize
    /\ Magic # NoLength /\ {Magic, NoLength} \cap Nat = {}

Bytes == {Magic, NoLength} \cup 0 .. MaxLen

\* What the driver writes: a body may hold anything, the magic included.  The
\* other bytes do not look like a header.
Records == UNION {{<<Magic, n>> \o body : body \in [1 .. n -> Bytes]} : n \in 0 .. MaxLen}
Others  == {<<NoLength>>, <<0, NoLength>>, <<Magic, NoLength>>}

VARIABLES
    wire,     \* what the driver writes, piece by piece
    at,       \* how much of it has been read
    buf,      \* buf[0 .. have - 1]
    handled   \* what handle_frame() was called with

vars == <<wire, at, buf, handled>>

Init ==
    /\ wire \in UNION {[1 .. n -> Records \cup Others] : n \in 1 .. Pieces}
    /\ at = 0 /\ buf = << >> /\ handled = << >>

\* have - off >= hlen + flen
Complete(b, off) == Len(b) - off >= 2 + b[off + 2]

IsHeader(b, off) == b[off + 1] = Magic /\ b[off + 2] \in Nat

\* Mutant: after a bad header the scan goes on behind it.
AfterBadHeader(off) == off + 2

\* One byte on.
AfterBad(off) == off + 1

\* The loop over the buffer: how far it gets, and the records it finds.
Scan(b) ==
    LET scan[off \in 0 .. Len(b)] ==
          IF Len(b) - off < 2 THEN [off |-> off, found |-> << >>]
          ELSE IF ~ IsHeader(b, off) THEN scan[AfterBad(off)]
          ELSE IF ~ Complete(b, off) THEN [off |-> off, found |-> << >>]
          ELSE LET end  == off + 2 + b[off + 2]
                   rest == scan[end]
               IN  [rest EXCEPT !.found = <<SubSeq(b, off + 1, end)>> \o @]
    IN  scan[0]

\* Mutant: what has been handled stays in the buffer.
KeepAll(b, off) == b

\* memmove and have -= off: what is left for the next read.
Keep(b, off) == SubSeq(b, off + 1, Len(b))

\* One iteration of the loop of main(): read() brings n bytes, and the buffer
\* is searched.
Iterate(n) ==
    LET bytes == FlattenSeq(wire)
        b     == buf \o SubSeq(bytes, at + 1, at + n)
        scan  == Scan(b)
    IN  /\ n <= BufSize - Len(buf) /\ at + n <= Len(bytes)
        /\ at' = at + n
        /\ handled' = handled \o scan.found
        /\ buf' = Keep(b, scan.off)
        /\ UNCHANGED wire

Next == \E n \in 1 .. BufSize : Iterate(n)

Spec == Init /\ [][Next]_vars
-----------------------------------------------------------------------------
\* The buffer always has room: a read that could bring nothing would be the
\* last one.
TypeOK ==
    /\ wire \in Seq(Records \cup Others) /\ at \in 0 .. Len(FlattenSeq(wire))
    /\ buf \in Seq(Bytes) /\ Len(buf) < BufSize
    /\ handled \in Seq(Records)

\* Where piece i of the wire ends.
End(i) == Len(FlattenSeq(SubSeq(wire, 1, i)))

\* However the reads cut the stream, every record that has arrived completely
\* has been handled, once and in order, and nothing else has - also after
\* bytes that belong to none, and when a record holds the magic.
RecordsInOrder ==
    LET arrived == [i \in DOMAIN wire |->
                      IF wire[i] \in Records /\ End(i) <= at THEN <<wire[i]>> ELSE << >>]
    IN  handled = FlattenSeq(arrived)
=============================================================================
