------------------------------- MODULE MCTouch -------------------------------
(***************************************************************************)
(* The three parts of piano-touch-view.c, in the order a touch takes them: *)
(* main() cuts records out of the stream, handle_frame() makes a reference *)
(* out of them, and the contacts found above it are tracked and reported.  *)
(* All they share is one record and one list of contacts at a time, so     *)
(* that a behaviour has steps of one part only.                            *)
(*                                                                         *)
(* The reference sees one stylus type among three, two shapes and two      *)
(* nodes, whose baselines can drift by half the threshold.  A threshold of *)
(* 20 leaves deltas that are followed (8 and 9), too small to be (below 8) *)
(* and too large (from 10), and a patience of two frames.                  *)
(*                                                                         *)
(* The tracker has three slots on a line of four positions; contacts less  *)
(* than two apart are taken for the same finger.  next_id starts at 0 and  *)
(* just before it wraps.                                                   *)
(***************************************************************************)
EXTENDS TouchTracker, TLC

CONSTANTS MaxLen, Pieces, BufSize, Magic, NoLength,
          Types, Pens, Shapes, ProbeFrames, RefFrames, Threshold, Signal, MaxBase, Starts,
          Nodes, None

VARIABLES
    part,                      \* the part that is run
    wire, at, buf, handled,    \* of ThpStream
    probe, probeCount, refType, shape, refCount, samples, reference, base, finger,
    held                       \* of ThpReference

stream  == <<wire, at, buf, handled>>
matrix  == <<probe, probeCount, refType, shape, refCount, samples, reference, base,
             finger, held>>
allVars == <<part, stream, matrix, vars>>

Stream == INSTANCE ThpStream
Matrix == INSTANCE ThpReference

ASSUME TouchAssumption == Stream!ThpStreamAssumption /\ Matrix!ThpReferenceAssumption

MCFirstIds == {0, 6}
MCTypes    == {3, 6, 8}
MCPens     == {6}
MCStarts   == {0, 10}

\* Nodes and shapes are interchangeable.
MCSymmetry == Permutations(Nodes) \cup Permutations(Shapes)

NoDrift  == base = [n \in Nodes |-> 0]
NoStream == wire = << >> /\ at = 0 /\ buf = << >> /\ handled = << >>

MCInit ==
    /\ Init /\ Matrix!Init
    /\ \/ part = "stream" /\ Stream!Init /\ NoDrift /\ nextId = 0
       \/ part = "reference" /\ NoStream /\ nextId = 0
       \/ part = "tracker" /\ NoStream /\ NoDrift

MCNext ==
    \/ part = "stream" /\ Stream!Next /\ UNCHANGED <<part, matrix, vars>>
    \/ part = "reference" /\ Matrix!Next /\ UNCHANGED <<part, stream, vars>>
    \/ part = "tracker" /\ Next /\ UNCHANGED <<part, stream, matrix>>

MCSpec == MCInit /\ [][MCNext]_allVars

\* The types of all parts; the buffer of the stream always has room.
TypesOK ==
    /\ part = "stream" => Stream!TypeOK
    /\ part = "reference" => Matrix!TypeOK
    /\ part = "tracker" => TypeOK

\* However the reads cut the stream, every record that has arrived completely
\* has been handled, once and in order, and nothing else (ThpStream).
RecordsInOrder == part = "stream" => Stream!RecordsInOrder

\* What the touches are measured against: frames of the type that came most often
\* and is not the stylus', and a baseline that is followed (ThpReference).
ReferenceSound == Matrix!ReferenceSound

\* Neither a finger while the reference is taken nor one that moves does harm: the
\* reference is of the bare node, a contact does not jump, and a hand at rest keeps
\* all of its contacts (ThpReference, TouchTracker).
FingersForgiven == Matrix!StartForgivesTouch /\ ContactsSteady
=============================================================================
