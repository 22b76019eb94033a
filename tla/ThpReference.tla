---------------------------- MODULE ThpReference ----------------------------
(***************************************************************************)
(* initramfs/touch-view/piano-touch-view.c, handle_frame() up to           *)
(* find_points(): which frames of the touch controller count, how the      *)
(* reference is taken from the first of them and how it follows the        *)
(* baseline afterwards.                                                    *)
(*                                                                         *)
(* The value of a node in a frame is its baseline, which drifts by itself, *)
(* and the signal of a finger that is on the node.                         *)
(***************************************************************************)
EXTENDS Integers, Sequences, FiniteSets, Functions

CONSTANTS
    Nodes,        \* of the matrix
    Types,        \* frame types, as numbers
    Pens,         \* those of the stylus: 6, 7, 9, 0x1d
    Shapes,       \* rows and columns
    ProbeFrames,  \* TYPE_PROBE_FRAMES
    RefFrames,    \* opt.ref_frames
    Threshold,    \* opt.threshold
    Signal,       \* what a finger adds
    MaxBase,      \* bound: a baseline stays in 0 .. MaxBase
    Starts,       \* where it may start
    None

\* The last conjunct is about the options, which piano-touch.service leaves at
\* their defaults (threshold 200, reference 32): neither the drift while the
\* reference is taken nor the least delta that is followed is near a touch.
ThpReferenceAssumption ==
    /\ Types \subseteq Nat /\ Pens \subseteq Types /\ Types # Pens
    /\ Shapes # {} /\ None \notin Types \cup Shapes \cup Nat
    /\ ProbeFrames \in Nat \ {0} /\ RefFrames \in Nat \ {0}
    /\ Threshold \in Nat \ {0} /\ Signal \in Nat /\ Signal >= Threshold
    /\ MaxBase \in Nat /\ Starts \subseteq 0 .. MaxBase
    /\ Nodes # {} /\ None \notin [Nodes -> Nat]
    /\ RefFrames < Threshold \div 2 /\ 8 < Threshold \div 2

VARIABLES
    probe,     \* probe_types
    probeCount, \* probe_count
    refType,   \* ref_type, None for -1
    shape,     \* st.rows and st.cols, once they count
    refCount,  \* ref_count
    samples,   \* ref_samples of each node, and whether a finger was on it
    reference, \* of each node; None until have_reference
    \* the panel
    base,      \* the baseline of each node
    finger,    \* is one on the node?
    held       \* frames with a finger anywhere since the reference (to Patience)

filter == <<probe, probeCount, refType, shape>>
vars   == <<filter, refCount, samples, reference, base, finger, held>>

\* How far a reference that is followed is behind its baseline: the baseline may
\* move from sample to sample, and deltas below eight are not followed.
Lag == IF RefFrames < 8 THEN 8 ELSE RefFrames

\* For so many frames a reference need not be followed.
Patience == Threshold \div 2 - Lag

NoSamples == [n \in Nodes |-> << >>]

Init ==
    /\ probe = [t \in Types |-> 0] /\ probeCount = 0 /\ refType = None /\ shape = None
    /\ refCount = 0 /\ samples = NoSamples /\ reference = None
    /\ base \in [Nodes -> Starts] /\ finger = [n \in Nodes |-> FALSE] /\ held = 0

\* The first of the most frequent types.
Dominant(p) == CHOOSE t \in Types : \A u \in Types :
                  p[u] < p[t] \/ (p[u] = p[t] /\ t <= u)

Counts(t) == t \notin Pens

\* A frame before ref_type is known.
ProbeType(t) ==
    /\ refType = None
    /\ IF Counts(t)
       THEN /\ probe' = [probe EXCEPT ![t] = @ + 1]
            /\ probeCount' = probeCount + 1
            /\ refType' = IF probeCount' < ProbeFrames THEN None
                          ELSE Dominant(probe')
       ELSE UNCHANGED <<probe, probeCount, refType>>
    /\ UNCHANGED <<shape, refCount, samples, reference, base, held>>

\* Mutant: the mean.
MedianMean(s) ==
    FoldFunction(LAMBDA r, sum : r.value + sum, 0, s) \div Len(s)

\* The samples below v, and those up to it.
Below(s, v) == {i \in DOMAIN s : s[i].value < v}
UpTo(s, v)  == {i \in DOMAIN s : s[i].value <= v}

\* A sorted column has v at Len(s) \div 2, counted from 0.
InTheMiddle(s, v) == /\ Cardinality(Below(s, v)) <= Len(s) \div 2
                     /\ Len(s) \div 2 < Cardinality(UpTo(s, v))

\* column[ref_count / 2] of the sorted column.
Median(s) == CHOOSE v \in {s[i].value : i \in DOMAIN s} : InTheMiddle(s, v)

ShapeCounts(g) == shape \in {None, g}

Value(n) == base[n] + (IF finger[n] THEN Signal ELSE 0)

\* A baseline moves by at most one from one frame that counts to the next.
Drift == /\ base' \in [Nodes -> 0 .. MaxBase]
         /\ \A n \in Nodes : base'[n] - base[n] \in -1 .. 1

Sampled(n) == Append(samples[n], [value |-> Value(n), finger |-> finger[n]])
Fingers(n) == {i \in DOMAIN Sampled(n) : Sampled(n)[i].finger}

\* A finger was on the node in half of the samples.
Covered(n) == 2 * Cardinality(Fingers(n)) >= RefFrames

\* build_reference()
BuildReference ==
    /\ reference' = [n \in Nodes |-> Median(Sampled(n))]
    /\ samples' = NoSamples
    /\ held' = IF \E n \in Nodes : Covered(n) THEN Patience ELSE 0

\* A frame that becomes a sample.  The last one makes the reference, and the
\* samples are not read again.
Sample(t, g) ==
    /\ refType = t /\ reference = None /\ ShapeCounts(g)
    /\ shape' = IF refCount = 0 THEN g ELSE shape
    /\ refCount' = refCount + 1
    /\ IF refCount' < RefFrames
       THEN /\ samples' = [n \in Nodes |-> Sampled(n)]
            /\ UNCHANGED <<reference, held>>
       ELSE BuildReference
    /\ Drift
    /\ UNCHANGED <<probe, probeCount, refType>>

\* Mutant: a reference that follows too slowly.
Eighth64(d) == IF d < 0 THEN - ((- d) \div 64) ELSE d \div 64

\* Division in C truncates.
Eighth(d) == IF d < 0 THEN - ((- d) \div 8) ELSE d \div 8

Delta(n) == Value(n) - reference[n]

\* Mutant: whatever is near.
QuietAlways == TRUE

\* Nothing is near the threshold, on the whole matrix: st.max_delta.
Quiet == \A n \in Nodes : Delta(n) < Threshold \div 2

Touched == \E n \in Nodes : finger[n]

\* A frame once there is a reference.
Measure(t, g) ==
    /\ refType = t /\ shape = g /\ reference # None
    /\ reference' = IF Quiet THEN [n \in Nodes |-> reference[n] + Eighth(Delta(n))]
                    ELSE reference
    /\ held' = IF Touched /\ held < Patience THEN held + 1 ELSE held
    /\ Drift
    /\ UNCHANGED <<filter, refCount, samples>>

\* handle_frame(); a frame with a bad checksum or length, or of another type,
\* changes nothing.
Frame == \E t \in Types, g \in Shapes :
            /\ ProbeType(t) \/ Sample(t, g) \/ Measure(t, g)
            /\ UNCHANGED finger

\* A finger comes to a node or leaves it.
Finger == /\ \E n \in Nodes : finger' = [finger EXCEPT ![n] = ~ @]
          /\ UNCHANGED <<filter, refCount, samples, reference, base, held>>

Next == Frame \/ Finger

Spec == Init /\ [][Next]_vars
-----------------------------------------------------------------------------
TypeOK ==
    /\ probe \in [Types -> 0 .. ProbeFrames] /\ probeCount \in 0 .. ProbeFrames
    /\ refType \in Types \cup {None} /\ shape \in Shapes \cup {None}
    /\ refCount \in 0 .. RefFrames
    /\ samples \in [Nodes -> Seq([value : 0 .. (MaxBase + Signal), finger : BOOLEAN])]
    /\ reference \in [Nodes -> 0 .. (MaxBase + Signal)] \cup {None}
    /\ base \in [Nodes -> 0 .. MaxBase] /\ finger \in [Nodes -> BOOLEAN]
    /\ held \in 0 .. Patience

\* The tool locks onto a matrix type, never one of the stylus and never one
\* that came less often than another (lines 626-637).
LocksOntoMatrix ==
    refType # None => /\ refType \notin Pens
                      /\ \A t \in Types \ Pens : probe[t] <= probe[refType]

\* "keep fingers off while it starts": fingers that are on a node in fewer than
\* half of the first frames leave no trace in its reference (header 23-24,
\* build_reference).
ForgivesTouch ==
    reference = None /\ reference' # None =>
        \A n \in Nodes : ~ Covered(n) =>
            \E i \in DOMAIN Sampled(n) \ Fingers(n) : Sampled(n)[i].value = reference'[n]

\* So it is whenever a reference is made.
StartForgivesTouch == [][ForgivesTouch]_vars

\* A finger anywhere keeps the references of all nodes from being followed.  As
\* long as that has been so for fewer frames than Patience, a bare node never comes
\* near a touch, in either direction and however far its baseline has drifted, and
\* a finger is never taken for the baseline.
FollowsSlowDrift ==
    reference # None /\ held < Patience =>
        \A n \in Nodes : IF finger[n] THEN Delta(n) >= Threshold \div 2
                         ELSE - (Threshold \div 2) < Delta(n) /\ Delta(n) < Threshold \div 2

\* What the touches are measured against: the right frames, and a baseline that
\* is followed.
ReferenceSound == LocksOntoMatrix /\ FollowsSlowDrift
=============================================================================
