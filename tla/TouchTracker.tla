---------------------------- MODULE TouchTracker ----------------------------
(***************************************************************************)
(* initramfs/touch-view/piano-touch-view.c, mode "input": track() matches  *)
(* the contacts of a frame to the slots of the previous one, ui_report()   *)
(* writes the difference to /dev/uinput, and the kernel's input core keeps *)
(* the state that readers of the touchscreen see.                          *)
(*                                                                         *)
(* A frame is the sequence of screen positions find_points and to_screen   *)
(* made of it, no two of them the same.  Positions are the points of a     *)
(* line.                                                                   *)
(***************************************************************************)
EXTENDS Integers, Sequences, FiniteSets

CONSTANTS
    Width,      \* positions are 0 .. Width - 1
    MaxPoints,  \* MAX_POINTS
    MaxDist,    \* TRACK_MAX_DIST
    IdMod,      \* tracking IDs are next_id modulo this, 0x10000
    FirstIds,   \* next_id of the process when the model starts
    MaxDowns,   \* bound: contacts that begin in one process
    NoContact   \* an empty slot of the input core

ASSUME TrackerAssumption ==
    /\ Width \in Nat \ {0} /\ MaxPoints \in Nat \ {0} /\ MaxDist \in Nat \ {0}
    /\ IdMod \in Nat \ {0} /\ FirstIds \subseteq Nat /\ MaxDowns \in Nat
    /\ MaxDowns < IdMod
    /\ NoContact \notin 0 .. (IdMod - 1)

Pos    == 0 .. (Width - 1)
Slots  == 0 .. (MaxPoints - 1)
Ids    == 0 .. (IdMod - 1)
Frames == {f \in UNION {[1 .. n -> Pos] : n \in 0 .. MaxPoints} :
             \A i, j \in DOMAIN f : f[i] = f[j] => i = j}

VARIABLES
    \* trk
    active,   \* slots with a contact
    fresh,    \* active slots whose contact began with this frame
    ended,    \* slots whose contact ended with this frame
    id, pos,  \* of the contact in each slot
    nextId,   \* next_id
    \* ui
    reported, \* reported_touch
    \* the input core
    mt,       \* tracking ID of each slot
    mtPos,    \* position of each slot
    btnTouch, \* BTN_TOUCH
    absXY,    \* ABS_X, ABS_Y
    \* the model's
    frame,    \* the last frame
    downs     \* contacts begun

trk    == <<active, fresh, ended, id, pos, nextId>>
device == <<mt, mtPos, btnTouch, absXY>>
vars   == <<trk, reported, device, frame, downs>>

Zero == [s \in Slots |-> 0]
Empty == [s \in Slots |-> NoContact]

Init == /\ active = {} /\ fresh = {} /\ ended = {}
        /\ id = Zero /\ pos = Zero /\ nextId \in FirstIds
        /\ reported = FALSE
        /\ mt = Empty /\ mtPos = Zero /\ btnTouch = FALSE /\ absXY = 0
        /\ frame = << >> /\ downs = 0

Dist(a, b) == IF a < b THEN b - a ELSE a - b

\* Mutant: contacts may be any distance away.
BestAnywhere(s, pts, left) ==
    LET nearest == {i \in left : \A j \in left :
                      Dist(pts[i], pos[s]) <= Dist(pts[j], pos[s])}
    IN  IF left = {} THEN 0 ELSE CHOOSE i \in nearest : \A j \in nearest : i <= j

\* The contact of pts, among those left, that slot s takes: the first of the
\* nearest; 0 when none is near.
Best(s, pts, left) ==
    LET near    == {i \in left : Dist(pts[i], pos[s]) < MaxDist}
        nearest == {i \in near : \A j \in near :
                      Dist(pts[i], pos[s]) <= Dist(pts[j], pos[s])}
    IN  IF near = {} THEN 0 ELSE CHOOSE i \in nearest : \A j \in nearest : i <= j

\* Slots choose in their order, each among what the earlier ones left.
Match(pts) ==
    LET m[s \in Slots] ==
          IF s \notin active THEN 0
          ELSE Best(s, pts, DOMAIN pts \ {m[t] : t \in 0 .. (s - 1)})
    IN  [s \in Slots |-> m[s]]

\* The position of x in the ascending order of S, from 0.
Rank(x, S) == Cardinality({y \in S : y < x})

\* Mutant: a slot that has just ended is used again in the same frame.
IdleOrEnded(kept, gone) == Slots \ kept

\* Slots for new contacts: neither active nor ended in this frame.
Idle(kept, gone) == Slots \ (kept \cup gone)

\* Mutant: next_id is not masked.
NewIdUnmasked(k) == nextId + k

\* The ID of the k-th new contact of a frame.
NewId(k) == (nextId + k) % IdMod

\* track(), with the match m: unmatched contacts take the idle slots in order, if there are any.
Track(pts, m) ==
    LET kept == {s \in active : m[s] # 0}
        new  == DOMAIN pts \ {m[s] : s \in kept}
        idle == Idle(kept, active \ kept)
        down == {s \in idle : Rank(s, idle) < Cardinality(new)}
        Point(s) == IF s \in down
                    THEN CHOOSE i \in new : Rank(i, new) = Rank(s, idle)
                    ELSE m[s]
    IN  /\ downs + Cardinality(down) <= MaxDowns
        /\ downs' = downs + Cardinality(down)
        /\ active' = kept \cup down
        /\ fresh' = down
        /\ ended' = active \ kept
        /\ pos' = [s \in Slots |-> IF s \in active' THEN pts[Point(s)] ELSE pos[s]]
        /\ id' = [s \in Slots |->
                    IF s \in down THEN NewId(Rank(s, idle)) ELSE id[s]]
        /\ nextId' = nextId + Cardinality(down)
        /\ frame' = pts

\* Mutant: tracking ID -1 is not written.
SlotEventsNoLift ==
    mt' = [s \in Slots |-> IF s \in fresh' THEN id'[s] ELSE mt[s]]

\* The ABS_MT_TRACKING_ID events of ui_report(), after track().
SlotEvents ==
    mt' = [s \in Slots |-> IF s \in ended' THEN NoContact
                           ELSE IF s \in fresh' THEN id'[s]
                           ELSE mt[s]]

TouchKey ==
    IF (active' # {}) # reported
    THEN btnTouch' = (active' # {}) /\ reported' = (active' # {})
    ELSE UNCHANGED <<btnTouch, reported>>

\* The first slot reported with a position.
FirstActive(s) == s \in active' \ ended' /\ \A t \in active' \ ended' : s <= t

\* ui_report()
Report ==
    /\ SlotEvents
    /\ mtPos' = [s \in Slots |-> IF s \in active' \ ended' THEN pos'[s] ELSE mtPos[s]]
    /\ absXY' = IF active' \ ended' = {} THEN absXY
                ELSE pos'[CHOOSE s \in active' : FirstActive(s)]
    /\ TouchKey

\* handle_frame(), for a frame that gets as far as find_points().
HandleFrame == \E pts \in Frames :
    \E m \in {Match(pts)} : Track(pts, m) /\ Report

\* The process ends, however it does, and piano-touch.service starts it again:
\* the input core has a new device.
Exit == /\ active' = {} /\ fresh' = {} /\ ended' = {}
        /\ id' = Zero /\ pos' = Zero /\ nextId' = 0
        /\ reported' = FALSE
        /\ mt' = Empty /\ mtPos' = Zero /\ btnTouch' = FALSE /\ absXY' = 0
        /\ frame' = << >> /\ downs' = 0

Next == HandleFrame \/ Exit

Spec == Init /\ [][Next]_vars
-----------------------------------------------------------------------------
TypeOK ==
    /\ active \subseteq Slots /\ fresh \subseteq active
    /\ ended \subseteq Slots \ active
    /\ id \in [Slots -> Ids] /\ pos \in [Slots -> Pos] /\ nextId \in Nat
    /\ reported \in BOOLEAN /\ btnTouch \in BOOLEAN
    /\ mt \in [Slots -> Ids \cup {NoContact}]
    /\ mtPos \in [Slots -> Pos] /\ absXY \in Pos
    /\ frame \in Frames /\ downs \in 0 .. MaxDowns

\* Readers see what the tracker means: the same contacts in the same slots at
\* the same positions, BTN_TOUCH while there is one, and a pointer position
\* that belongs to one of them.
ReadersAgree ==
    /\ mt = [s \in Slots |-> IF s \in active THEN id[s] ELSE NoContact]
    /\ \A s \in active : mtPos[s] = pos[s]
    /\ btnTouch = (active # {})
    /\ active # {} => \E s \in active : absXY = pos[s]

\* What readers see obeys the protocol, across frames, lifts in the frame in
\* which another finger comes down, ID wrap-around and restarts.
Protocol == INSTANCE MtProtocol WITH contact <- mt

FollowsProtocol == Protocol!Spec

\* Every contact of a frame is in some slot at its own position, and no slot is
\* active without one - unless the slots of this and the last frame together
\* leave no room (MAX_POINTS).
EveryContactTracked ==
    /\ \A s \in active : \E i \in DOMAIN frame : frame[i] = pos[s]
    /\ active \cup ended = Slots \/ Cardinality(active) = Len(frame)

\* Between two frames fingers, slots and readers agree.
FramesAgree == ReadersAgree /\ EveryContactTracked

\* A contact never jumps: under the same ID it moves less than TRACK_MAX_DIST
\* between frames ("a contact moving further ... is a new finger", line 77).
NoJump ==
    [][\A s \in active \cap active' :
         id'[s] = id[s] /\ downs' >= downs => Dist(pos[s], pos'[s]) < MaxDist]_vars

\* A hand that does not move keeps all its contacts: a repeated frame ends
\* none and begins only what had found no room.
StillHand ==
    [][frame' = frame /\ nextId' >= nextId =>
         \A s \in active : s \in active' \ fresh' /\ id'[s] = id[s]
                           /\ pos'[s] = pos[s]]_vars

\* A contact stays with its finger: it does not jump, and a hand at rest keeps
\* all of them.
ContactsSteady == NoJump /\ StillHand
=============================================================================
