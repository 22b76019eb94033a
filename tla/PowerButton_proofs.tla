-------------------------- MODULE PowerButton_proofs --------------------------
(***************************************************************************)
(* Proofs about PowerButton for every range of brightness, every LONG_PRESS *)
(* and any number of presses, crashes and changes by the desktop.          *)
(***************************************************************************)
EXTENDS PowerButton, FiniteSetTheorems, FunctionTheorems, SequenceTheorems, TLAPS

Events == {"down", "up"}

\* The indices of the presses in a sequence of events, and their number.
DownAt(s) == {i \in 1 .. Len(s) : s[i] = "down"}
Downs(s)  == Cardinality(DownAt(s))

-----------------------------------------------------------------------------
(* Counting presses.                                                       *)

\* There are finitely many, and none in an empty sequence.
LEMMA DownsType ==
    ASSUME NEW s \in Seq(Events)
    PROVE  IsFiniteSet(DownAt(s)) /\ Downs(s) \in Nat
<1>1. IsFiniteSet(1 .. Len(s))
    BY FS_Interval
<1>2. IsFiniteSet(DownAt(s))
    BY <1>1, FS_Subset DEF DownAt
<1>3. QED
    BY <1>2, FS_CardinalityType DEF Downs

LEMMA DownsEmpty == Downs(<< >>) = 0
<1>1. DownAt(<< >>) = {}
    BY DEF DownAt
<1>2. QED
    BY <1>1, FS_EmptySet DEF Downs

\* An event at the end counts if it is a press.
LEMMA DownsAppend ==
    ASSUME NEW s \in Seq(Events), NEW e \in Events
    PROVE  Downs(Append(s, e)) = Downs(s) + (IF e = "down" THEN 1 ELSE 0)
<1>1. /\ Len(Append(s, e)) = Len(s) + 1
      /\ \A i \in 1 .. Len(s) : Append(s, e)[i] = s[i]
      /\ Append(s, e)[Len(s) + 1] = e
    BY AppendProperties
<1>2. Len(s) \in Nat
    BY LenProperties
<1>3. CASE e = "down"
    <2>1. DownAt(Append(s, e)) = DownAt(s) \cup {Len(s) + 1}
        BY <1>1, <1>2, <1>3 DEF DownAt
    <2>2. Len(s) + 1 \notin DownAt(s)
        BY <1>2 DEF DownAt
    <2>3. QED
        BY <1>3, <2>1, <2>2, DownsType, FS_AddElement DEF Downs
<1>4. CASE e # "down"
    <2>1. DownAt(Append(s, e)) = DownAt(s)
        BY <1>1, <1>2, <1>4 DEF DownAt
    <2>2. QED
        BY <1>4, <2>1, DownsType DEF Downs
<1>5. QED
    BY <1>3, <1>4

\* What is handled is counted off.
LEMMA DownsTail ==
    ASSUME NEW s \in Seq(Events), s # << >>
    PROVE  Downs(s) = Downs(Tail(s)) + (IF Head(s) = "down" THEN 1 ELSE 0)
<1> DEFINE later == {i \in 2 .. Len(s) : s[i] = "down"}
           next  == [i \in DownAt(Tail(s)) |-> i + 1]
<1>1. /\ Len(s) \in Nat /\ Len(s) >= 1
      /\ Tail(s) \in Seq(Events) /\ Len(Tail(s)) = Len(s) - 1
      /\ \A i \in 1 .. Len(Tail(s)) : Tail(s)[i] = s[i + 1]
    BY HeadTailProperties, EmptySeq, LenProperties
<1>2. next \in Bijection(DownAt(Tail(s)), later)
    <2>1. next \in [DownAt(Tail(s)) -> later]
        BY <1>1 DEF DownAt
    <2>2. \A a, b \in DownAt(Tail(s)) : next[a] = next[b] => a = b
        BY <1>1 DEF DownAt
    <2>3. \A j \in later : \E i \in DownAt(Tail(s)) : next[i] = j
        <3>1. SUFFICES ASSUME NEW j \in later
                       PROVE  j - 1 \in DownAt(Tail(s)) /\ next[j - 1] = j
            OBVIOUS
        <3>2. j - 1 \in DownAt(Tail(s))
            BY <1>1 DEF DownAt
        <3>3. QED
            BY <3>2 DEF DownAt
    <2>4. QED
        BY <2>1, <2>2, <2>3, Fun_IsBij
<1>3. IsFiniteSet(later) /\ Cardinality(later) = Downs(Tail(s))
    BY <1>1, <1>2, DownsType, FS_Bijection, Fun_ExistsBij DEF Downs
<1>4. CASE Head(s) = "down"
    <2>1. DownAt(s) = later \cup {1}
        BY <1>1, <1>4 DEF DownAt
    <2>2. 1 \notin later
        OBVIOUS
    <2>3. QED
        BY <1>1, <1>3, <1>4, <2>1, <2>2, FS_AddElement, DownsType DEF Downs
<1>5. CASE Head(s) # "down"
    <2>1. DownAt(s) = later
        BY <1>1, <1>5 DEF DownAt
    <2>2. Downs(s) = Downs(Tail(s)) /\ Downs(s) \in Nat
        BY <1>3, <2>1, DownsType DEF Downs
    <2>3. QED
        BY <1>5, <2>2
<1>6. QED
    BY <1>4, <1>5
-----------------------------------------------------------------------------
(* The inductive invariant.                                                *)

\* Every press is counted once: it was acted on, is being timed, or is an event
\* that waits in the batch or in the queue - or was lost to a crash.
EachPressOnce ==
    acts + (IF pressed = None THEN 0 ELSE 1) + Downs(batch) + Downs(queue) <= presses

\* The last event the service has not handled tells whether the key is held;
\* once there is none, the service times a key no longer than it is held.
KeyKnown ==
    /\ queue # << >> => (queue[Len(queue)] = "down" <=> held)
    /\ queue = << >> /\ batch # << >> => (batch[Len(batch)] = "down" <=> held)
    /\ queue = << >> /\ batch = << >> /\ pressed # None => held /\ pressed <= heldFor

\* A service that does not run has no device open and nothing in hand.
NothingInHand == ~ running => queue = << >> /\ batch = << >> /\ pressed = None

\* What the calls still to be made will leave behind.
ScreenKnown ==
    /\ userLevel # 0
    /\ crashes = 0 /\ writes = 0 /\ refused = 0 =>
         \/ calls = << >> /\ saved = None /\ brightness = userLevel
         \/ calls = << >> /\ saved = userLevel /\ brightness = 0
         \/ calls = <<0>> /\ saved = userLevel
         \/ calls = <<userLevel>> /\ saved = None
         \/ calls = <<userLevel, Dialog>> /\ saved = None
         \/ calls = <<Dialog>> /\ saved = None /\ brightness = userLevel

IInv == TypeOK /\ EachPressOnce /\ KeyKnown /\ NothingInHand /\ ScreenKnown
-----------------------------------------------------------------------------
(* Types.                                                                  *)

LEMMA InitTypeOK == Init => TypeOK
<1> SUFFICES ASSUME Init PROVE TypeOK
    OBVIOUS
<1>1. queue \in Seq({"down", "up"}) /\ batch \in Seq({"down", "up"})
      /\ calls \in Seq(Levels \cup {Dialog}) /\ Len(calls) = 0
    BY EmptySeq DEF Init
<1>2. 0 \in 0 .. LongPress /\ 0 \in 0 .. MaxPresses /\ 0 \in 0 .. MaxCrashes
      /\ 0 \in 0 .. Writes /\ 0 \in 0 .. MaxRefused
    BY PowerButtonAssumption
<1>3. brightness \in Levels /\ userLevel \in Levels
    BY DEF Init
<1>4. saved \in (Levels \ {0}) \cup {None} /\ pressed \in 0 .. LongPress \cup {None}
    BY DEF Init
<1>5. held \in BOOLEAN /\ running \in BOOLEAN
    BY DEF Init
<1>6. acts \in Nat /\ dialogs \in 0 .. acts
    BY DEF Init
<1>7. heldFor \in 0 .. LongPress /\ presses \in 0 .. MaxPresses /\ crashes \in 0 .. MaxCrashes
       /\ writes \in 0 .. Writes /\ refused \in 0 .. MaxRefused
    BY <1>2 DEF Init
<1>8. QED
    BY <1>1, <1>3, <1>4, <1>5, <1>6, <1>7 DEF TypeOK

\* What the service is about to call.
LEMMA CallTypes ==
    ASSUME TypeOK
    PROVE  /\ WakeCalls \in Seq(Levels \cup {Dialog}) /\ Len(WakeCalls) <= 1
           /\ WakeCalls \o <<Dialog>> \in Seq(Levels \cup {Dialog})
           /\ Len(WakeCalls \o <<Dialog>>) <= 2
           /\ <<0>> \in Seq(Levels \cup {Dialog})
           /\ SavedLevel \in Levels \ {0}
<1>1. WakeCalls \in Seq(Levels \cup {Dialog}) /\ Len(WakeCalls) <= 1
    <2>1. CASE saved = None
        BY <2>1, EmptySeq DEF WakeCalls
    <2>2. CASE saved # None
        BY <2>2 DEF TypeOK, WakeCalls
    <2>3. QED
        BY <2>1, <2>2
<1>2. <<Dialog>> \in Seq(Levels \cup {Dialog}) /\ Len(<<Dialog>>) = 1
    OBVIOUS
<1>3. WakeCalls \o <<Dialog>> \in Seq(Levels \cup {Dialog})
      /\ Len(WakeCalls \o <<Dialog>>) = Len(WakeCalls) + 1
    BY <1>1, <1>2, ConcatProperties
<1>4. Len(WakeCalls) \in Nat
    BY <1>1, LenProperties
<1>5. 0 \in Levels /\ 1 \in Levels
    BY PowerButtonAssumption DEF Levels
<1>6. SavedLevel \in Levels \ {0}
    BY <1>5 DEF TypeOK, SavedLevel
<1>7. QED
    BY <1>1, <1>3, <1>4, <1>5, <1>6

LEMMA NextTypeOK == TypeOK /\ [Next]_vars => TypeOK'
<1> SUFFICES ASSUME TypeOK, [Next]_vars PROVE TypeOK'
    OBVIOUS
<1> USE DEF TypeOK
<1>a. \A n \in 0 .. LongPress : Older(n) \in 0 .. LongPress
    BY PowerButtonAssumption DEF Older
<1>b. 0 \in 0 .. LongPress /\ LongPress \in Nat
    BY PowerButtonAssumption
<1>c. \A e \in {"down", "up"} : Emit(e) => queue' \in Seq({"down", "up"})
    BY DEF Emit
<1>1. CASE Press
    BY <1>1, <1>b, <1>c, PowerButtonAssumption DEF Press, service
<1>2. CASE Release
    BY <1>2, <1>c DEF Release, service, counts
<1>3. CASE Tick
    BY <1>3, <1>a DEF Tick, counts
<1>4. CASE Desktop
    BY <1>4, PowerButtonAssumption DEF Desktop, service
<1>5. CASE Read
    BY <1>5 DEF Read, counts
<1>6. CASE HandleEvent
    <2>1. batch' \in Seq({"down", "up"})
        BY <1>6, HeadTailProperties DEF HandleEvent, Rest
    <2>2. /\ calls' \in Seq(Levels \cup {Dialog}) /\ Len(calls') <= 2
          /\ saved' \in (Levels \ {0}) \cup {None}
          /\ pressed' \in 0 .. LongPress \cup {None}
          /\ acts' \in Nat /\ acts <= acts'
        <3>1. CASE HandleDown
            BY <3>1, <1>b DEF HandleDown
        <3>2. CASE HandleUp /\ pressed = None
            BY <3>2 DEF HandleUp
        <3>3. CASE HandleUp /\ pressed # None /\ saved = None
            <4>1. calls' = <<0>> /\ saved' = SavedLevel /\ pressed' = None
                  /\ acts' = acts + 1
                BY <3>3 DEF HandleUp, Toggle
            <4>2. Len(calls') = 1
                BY <4>1
            <4>3. calls' \in Seq(Levels \cup {Dialog}) /\ saved' \in Levels \ {0}
                BY <4>1, CallTypes
            <4>4. QED
                BY <4>1, <4>2, <4>3
        <3>4. CASE HandleUp /\ pressed # None /\ saved # None
            BY <3>4, CallTypes DEF HandleUp, Toggle, Wake
        <3>5. QED
            BY <1>6, <3>1, <3>2, <3>3, <3>4 DEF HandleEvent
    <2>3. QED
        BY <1>6, <2>1, <2>2 DEF HandleEvent
<1>7. CASE Timeout
    BY <1>7, CallTypes DEF Timeout, Looping
<1>8. CASE Call
    <2>1. brightness' \in Levels /\ refused' \in 0 .. MaxRefused
        BY <1>8, PowerButtonAssumption DEF Call, Answered, Refused
    <2>2. QED
        BY <1>8, <2>1 DEF Call
<1>9. CASE Crash
    <2>1. crashes' \in 0 .. MaxCrashes
        BY <1>9, PowerButtonAssumption DEF Crash
    <2>2. << >> \in Seq({"down", "up"}) /\ << >> \in Seq(Levels \cup {Dialog})
          /\ Len(<< >>) = 0
        BY EmptySeq
    <2>3. /\ queue' \in Seq({"down", "up"}) /\ batch' \in Seq({"down", "up"})
          /\ calls' \in Seq(Levels \cup {Dialog}) /\ Len(calls') <= 2
        BY <1>9, <2>2 DEF Crash
    <2>4. QED
        BY <1>9, <2>1, <2>3 DEF Crash
<1>10. CASE Restart
    BY <1>10 DEF Restart, counts
<1>11. CASE UNCHANGED vars
    BY <1>11 DEF vars, service, counts
<1>12. QED
    BY <1>1, <1>2, <1>3, <1>4, <1>5, <1>6, <1>7, <1>8, <1>9, <1>10, <1>11 DEF Next

\* TypeOK holds in every reachable state: no level is out of range, no more than
\* two calls are ever pending, and what is saved can light the screen
\* (`brightness(bl) or 1`, line 77).
THEOREM TypeCorrect == Spec => []TypeOK
<1>1. QED
    BY InitTypeOK, NextTypeOK, PTL DEF Spec
-----------------------------------------------------------------------------
(* One press does one thing.                                               *)

\* A change of the key reaches the queue of a running service, at its end.
LEMMA EmitQueue ==
    ASSUME TypeOK, NEW e \in Events, Emit(e)
    PROVE  /\ running => /\ queue' # << >> /\ queue'[Len(queue')] = e
                         /\ Downs(queue') = Downs(queue) + (IF e = "down" THEN 1 ELSE 0)
           /\ ~ running => queue' = queue
<1>1. queue \in Seq(Events)
    BY DEF TypeOK, Events
<1>2. CASE running
    <2>1. queue' = Append(queue, e)
        BY <1>2 DEF Emit
    <2>2. QED
        BY <1>1, <1>2, <2>1, AppendProperties, DownsAppend
<1>3. CASE ~ running
    BY <1>3 DEF Emit
<1>4. QED
    BY <1>2, <1>3

LEMMA InitEachPressOnce == Init => EachPressOnce
BY DownsEmpty DEF Init, EachPressOnce

LEMMA NextEachPressOnce == TypeOK /\ EachPressOnce /\ [Next]_vars => EachPressOnce'
<1> SUFFICES ASSUME TypeOK, EachPressOnce, [Next]_vars PROVE EachPressOnce'
    OBVIOUS
<1> DEFINE timed == IF pressed = None THEN 0 ELSE 1
<1>a. /\ queue \in Seq(Events) /\ batch \in Seq(Events)
      /\ acts \in Nat /\ presses \in Nat
    BY PowerButtonAssumption DEF TypeOK, Events
<1>b. Downs(queue) \in Nat /\ Downs(batch) \in Nat /\ timed \in {0, 1}
    BY <1>a, DownsType
<1>c. acts + timed + Downs(batch) + Downs(queue) <= presses
    BY DEF EachPressOnce
<1>d. SUFFICES acts' + timed' + Downs(batch') + Downs(queue') <= presses'
    BY DEF EachPressOnce
<1> HIDE DEF timed
<1>1. CASE Press
    <2>1. Downs(queue') <= Downs(queue) + 1 /\ Downs(queue') \in Nat
        BY <1>1, <1>a, <1>b, EmitQueue DEF Press, Events
    <2>2. timed' = timed /\ batch' = batch /\ acts' = acts /\ presses' = presses + 1
        BY <1>1 DEF Press, service, timed
    <2>3. Downs(batch') = Downs(batch)
        BY <2>2
    <2>4. QED
        BY <1>a, <1>b, <1>c, <2>1, <2>2, <2>3
<1>2. CASE Release
    <2>1. Downs(queue') = Downs(queue)
        BY <1>2, <1>a, <1>b, EmitQueue DEF Release, Events
    <2>2. timed' = timed /\ batch' = batch /\ acts' = acts /\ presses' = presses
        BY <1>2 DEF Release, service, counts, timed
    <2>3. QED
        BY <1>c, <2>1, <2>2
<1>3. CASE Tick
    <2>1. pressed = None <=> pressed' = None
        BY <1>3, PowerButtonAssumption DEF Tick, Older, TypeOK
    <2>2. timed' = timed
        BY <2>1 DEF timed
    <2>3. QED
        BY <1>3, <1>c, <2>2 DEF Tick, counts
<1>4. CASE Read
    <2>1. Downs(batch') = Downs(queue) /\ Downs(queue') = 0 /\ Downs(batch) = 0
        BY <1>4, DownsEmpty DEF Read, Looping
    <2>2. timed' = timed /\ acts' = acts /\ presses' = presses
        BY <1>4 DEF Read, counts, timed
    <2>3. QED
        BY <1>a, <1>b, <1>c, <2>1, <2>2
<1>5. CASE HandleEvent
    <2>1. /\ batch # << >> /\ batch' = Tail(batch) /\ queue' = queue
          /\ presses' = presses /\ (HandleDown \/ HandleUp)
        BY <1>5 DEF HandleEvent, Rest
    <2>2. Downs(batch) = Downs(batch') + (IF Head(batch) = "down" THEN 1 ELSE 0)
        BY <1>a, <2>1, DownsTail
    <2>3. Downs(batch') \in Nat /\ Downs(queue') = Downs(queue)
        BY <1>a, <2>1, DownsType, HeadTailProperties
    <2>4. CASE HandleDown
        <3>1. Head(batch) = "down" /\ acts' = acts /\ timed' \in {0, 1}
            BY <2>4 DEF HandleDown, timed
        <3>2. Downs(batch) = Downs(batch') + 1
            BY <2>2, <3>1
        <3>3. acts + Downs(batch') + 1 + Downs(queue) <= presses
            BY <1>a, <1>b, <1>c, <2>3, <3>2
        <3>4. QED
            BY <1>a, <1>b, <2>1, <2>3, <3>1, <3>3, SMTT(30)
    <2>5. CASE HandleUp
        <3>1. Downs(batch) = Downs(batch')
            BY <2>2, <2>3, <2>5 DEF HandleUp
        <3>2. acts' + timed' = acts + timed
            BY <1>a, <2>5 DEF HandleUp, timed
        <3>3. acts' \in Nat /\ timed' \in {0, 1}
            BY <1>a, <2>5 DEF HandleUp, timed
        <3>4. QED
            BY <1>a, <1>b, <1>c, <2>1, <2>3, <3>1, <3>2, <3>3
    <2>6. QED
        BY <2>1, <2>4, <2>5
<1>6. CASE Timeout
    <2>1. pressed # None
        BY <1>6, PowerButtonAssumption DEF Timeout, Due
    <2>2. acts' + timed' = acts + timed
        BY <1>6, <1>a, <2>1 DEF Timeout, timed
    <2>3. batch' = batch /\ queue' = queue /\ presses' = presses
        BY <1>6 DEF Timeout
    <2>4. QED
        BY <1>c, <2>2, <2>3
<1>7. CASE Crash
    <2>1. Downs(batch') = 0 /\ Downs(queue') = 0 /\ timed' = 0
        BY <1>7, DownsEmpty DEF Crash, timed
    <2>2. acts' = acts /\ presses' = presses
        BY <1>7 DEF Crash
    <2>3. QED
        BY <1>a, <1>b, <1>c, <2>1, <2>2
<1>8. CASE UNCHANGED <<queue, batch, pressed, acts, presses>>
    BY <1>8, <1>c DEF timed
<1>9. QED
    BY <1>1, <1>2, <1>3, <1>4, <1>5, <1>6, <1>7, <1>8
       DEF Next, Desktop, Call, Restart, service, counts, vars
-----------------------------------------------------------------------------
(* What the service knows of the key.                                      *)

LEMMA NextNothingInHand == TypeOK /\ NothingInHand /\ [Next]_vars => NothingInHand'
<1> SUFFICES ASSUME TypeOK, NothingInHand, [Next]_vars, ~ running'
             PROVE  queue' = << >> /\ batch' = << >> /\ pressed' = None
    BY DEF NothingInHand
<1> USE DEF NothingInHand
<1>1. CASE Press
    BY <1>1 DEF Press, Emit, service
<1>2. CASE Release
    BY <1>2 DEF Release, Emit, service, counts
<1>3. CASE Tick
    BY <1>3 DEF Tick, counts
<1>4. CASE Desktop
    BY <1>4 DEF Desktop, service
<1>5. CASE Read \/ HandleEvent \/ Timeout \/ Call
    BY <1>5 DEF Read, HandleEvent, Timeout, Call, Looping
<1>6. CASE Crash
    BY <1>6 DEF Crash
<1>7. CASE Restart
    BY <1>7 DEF Restart
<1>8. CASE UNCHANGED vars
    BY <1>8 DEF vars, service
<1>9. QED
    BY <1>1, <1>2, <1>3, <1>4, <1>5, <1>6, <1>7, <1>8 DEF Next

LEMMA NextKeyKnown ==
    TypeOK /\ NothingInHand /\ KeyKnown /\ [Next]_vars => KeyKnown'
<1> SUFFICES ASSUME TypeOK, NothingInHand, KeyKnown, [Next]_vars PROVE KeyKnown'
    OBVIOUS
<1>a. queue \in Seq(Events) /\ batch \in Seq(Events)
    BY DEF TypeOK, Events
<1>1. CASE Press
    <2>1. CASE running
        BY <1>1, <2>1, EmitQueue DEF Press, KeyKnown, Events
    <2>2. CASE ~ running
        BY <1>1, <2>2, EmitQueue DEF Press, KeyKnown, NothingInHand, Events, service
    <2>3. QED
        BY <2>1, <2>2
<1>2. CASE Release
    <2>1. CASE running
        BY <1>2, <2>1, EmitQueue DEF Release, KeyKnown, Events
    <2>2. CASE ~ running
        BY <1>2, <2>2, EmitQueue DEF Release, KeyKnown, NothingInHand, Events,
                                     service, counts
    <2>3. QED
        BY <2>1, <2>2
<1>3. CASE Tick
    <2>1. queue' = queue /\ batch' = batch /\ held' = held
        BY <1>3 DEF Tick
    <2>2. ASSUME queue = << >>, batch = << >>, pressed' # None
          PROVE  held /\ pressed' <= heldFor'
        <3>1. pressed # None /\ held /\ pressed <= heldFor
            BY <1>3, <2>2 DEF Tick, KeyKnown
        <3>2. pressed' = Older(pressed) /\ heldFor' = Older(heldFor)
            BY <1>3, <3>1 DEF Tick
        <3>3. pressed \in 0 .. LongPress /\ heldFor \in 0 .. LongPress
            BY <3>1 DEF TypeOK
        <3>4. QED
            BY <3>1, <3>2, <3>3, PowerButtonAssumption DEF Older
    <2>3. QED
        BY <2>1, <2>2 DEF KeyKnown
<1>4. CASE Read
    BY <1>4 DEF Read, Looping, KeyKnown
<1>5. CASE HandleEvent
    <2>1. /\ batch # << >> /\ batch' = Tail(batch)
          /\ queue' = queue /\ held' = held /\ heldFor' = heldFor
        BY <1>5 DEF HandleEvent, Rest
    <2>2. /\ Len(batch) \in Nat /\ Len(Tail(batch)) = Len(batch) - 1
          /\ Tail(batch) \in Seq(Events)
          /\ \A i \in 1 .. Len(Tail(batch)) : Tail(batch)[i] = batch[i + 1]
        BY <1>a, <2>1, HeadTailProperties, LenProperties
    <2>3. CASE queue # << >>
        BY <2>1, <2>3 DEF KeyKnown
    <2>4. CASE queue = << >> /\ batch' # << >>
        <3>1. Len(Tail(batch)) \in 1 .. Len(Tail(batch))
            BY <2>1, <2>2, <2>4, EmptySeq
        <3>2. Tail(batch)[Len(Tail(batch))] = batch[Len(batch)]
            BY <2>2, <3>1
        <3>3. QED
            BY <2>1, <2>4, <3>2 DEF KeyKnown
    <2>5. CASE queue = << >> /\ batch' = << >>
        <3>1. Head(batch) = batch[Len(batch)]
            <4>1. Len(Tail(batch)) = 0
                BY <2>1, <2>5
            <4>2. Len(Tail(batch)) = Len(batch) - 1 /\ Len(batch) \in Nat
                BY <2>2
            <4>3. Len(batch) = 1
                BY <4>1, <4>2
            <4>4. QED
                BY <4>3
        <3>2. Head(batch) = "down" <=> held
            BY <2>1, <2>5, <3>1 DEF KeyKnown
        <3>3. CASE HandleDown
            BY <2>1, <2>5, <3>2, <3>3 DEF HandleDown, KeyKnown, TypeOK
        <3>4. CASE HandleUp
            BY <2>1, <2>5, <3>4 DEF HandleUp, KeyKnown
        <3>5. QED
            BY <1>5, <3>3, <3>4 DEF HandleEvent
    <2>6. QED
        BY <2>3, <2>4, <2>5
<1>6. CASE Timeout
    BY <1>6 DEF Timeout, KeyKnown
<1>7. CASE Crash
    BY <1>7 DEF Crash, KeyKnown
<1>8. CASE UNCHANGED <<queue, batch, pressed, held, heldFor>>
    BY <1>8 DEF KeyKnown
<1>9. QED
    BY <1>1, <1>2, <1>3, <1>4, <1>5, <1>6, <1>7, <1>8
       DEF Next, Desktop, Call, Restart, service, counts, vars

\* The step that opens the dialog finds the key held for LONG_PRESS.
LEMMA TimeoutWhileHeld ==
    ASSUME TypeOK, KeyKnown, Timeout
    PROVE  held /\ heldFor = LongPress
<1>1. pressed = LongPress /\ pressed # None
    BY PowerButtonAssumption DEF Timeout, Due
<1>2. held /\ LongPress <= heldFor
    BY <1>1 DEF Timeout, Looping, KeyKnown
<1>3. QED
    BY <1>2, PowerButtonAssumption DEF TypeOK
-----------------------------------------------------------------------------
(* What the calls do to the screen.                                        *)

LEMMA TwoCalls == ASSUME NEW a, NEW b PROVE <<a>> \o <<b>> = <<a, b>>
<1> DEFINE S == {a, b}
<1>1. <<a>> \in Seq(S) /\ <<b>> \in Seq(S) /\ <<a, b>> \in Seq(S)
    OBVIOUS
<1>2. Len(<<a>>) = 1 /\ Len(<<b>>) = 1 /\ Len(<<a, b>>) = 2
    OBVIOUS
<1>3. /\ <<a>> \o <<b>> \in Seq(S) /\ Len(<<a>> \o <<b>>) = 2
      /\ (<<a>> \o <<b>>)[1] = a /\ (<<a>> \o <<b>>)[2] = b
    BY <1>1, <1>2, ConcatProperties
<1>4. \A i \in 1 .. 2 : (<<a>> \o <<b>>)[i] = <<a, b>>[i]
    BY <1>3
<1>5. QED
    BY <1>1, <1>2, <1>3, <1>4, SeqEqual

LEMMA InitScreenKnown == Init => ScreenKnown
BY DEF Init, ScreenKnown, Levels

LEMMA NextScreenKnown == TypeOK /\ ScreenKnown /\ [Next]_vars => ScreenKnown'
<1> SUFFICES ASSUME TypeOK, ScreenKnown, [Next]_vars PROVE ScreenKnown'
    OBVIOUS
<1>a. userLevel \in Nat /\ userLevel # 0 /\ userLevel # None /\ userLevel # Dialog
      /\ None # 0 /\ Dialog # 0
    BY PowerButtonAssumption DEF TypeOK, Levels, ScreenKnown
<1>1. CASE Desktop
    <2>1. writes' # 0
        BY <1>1, PowerButtonAssumption DEF Desktop, TypeOK
    <2>2. userLevel' # 0
        BY <1>1 DEF Desktop
    <2>3. QED
        BY <2>1, <2>2 DEF ScreenKnown
<1>2. CASE Crash
    <2>1. crashes' # 0
        BY <1>2, PowerButtonAssumption DEF Crash, TypeOK
    <2>2. userLevel' # 0
        BY <1>2, <1>a DEF Crash
    <2>3. QED
        BY <2>1, <2>2 DEF ScreenKnown
<1>3. CASE HandleEvent
    <2>1. /\ calls = << >> /\ brightness' = brightness /\ userLevel' = userLevel
          /\ crashes' = crashes /\ writes' = writes /\ refused' = refused
        BY <1>3 DEF HandleEvent
    <2>2. CASE UNCHANGED <<calls, saved>>
        BY <2>1, <2>2 DEF ScreenKnown
    <2>3. CASE Toggle /\ saved = None
        <3>1. saved' = SavedLevel /\ calls' = <<0>>
            BY <2>3 DEF Toggle
        <3>2. crashes = 0 /\ writes = 0 /\ refused = 0 => saved' = userLevel
            BY <1>a, <2>1, <2>3, <3>1 DEF ScreenKnown, SavedLevel
        <3>3. QED
            BY <1>a, <2>1, <3>1, <3>2 DEF ScreenKnown
    <2>4. CASE Toggle /\ saved # None
        <3>1. saved' = None /\ calls' = <<saved>>
            BY <2>4 DEF Toggle, Wake, WakeCalls
        <3>2. crashes = 0 /\ writes = 0 /\ refused = 0 => saved = userLevel
            BY <2>1, <2>4 DEF ScreenKnown
        <3>3. QED
            BY <1>a, <2>1, <3>1, <3>2 DEF ScreenKnown
    <2>5. QED
        BY <1>3, <2>2, <2>3, <2>4 DEF HandleEvent, HandleDown, HandleUp
<1>4. CASE Timeout
    <2>1. /\ calls = << >> /\ brightness' = brightness /\ userLevel' = userLevel
          /\ crashes' = crashes /\ writes' = writes /\ saved' = None
          /\ refused' = refused
          /\ calls' = WakeCalls \o <<Dialog>>
        BY <1>4 DEF Timeout, Looping
    <2>2. CASE saved = None
        <3>1. calls' = <<Dialog>>
            BY <2>1, <2>2 DEF WakeCalls
        <3>2. QED
            BY <1>a, <2>1, <2>2, <3>1 DEF ScreenKnown
    <2>3. CASE saved # None
        <3>1. calls' = <<saved, Dialog>>
            <4>1. WakeCalls = <<saved>>
                BY <2>3 DEF WakeCalls
            <4>2. QED
                BY <2>1, <4>1, TwoCalls
        <3>2. QED
            BY <1>a, <2>1, <2>3, <3>1 DEF ScreenKnown
    <2>4. QED
        BY <2>2, <2>3
<1>5. CASE Call
    <2>1. /\ calls # << >> /\ calls' = Tail(calls) /\ saved' = saved
          /\ userLevel' = userLevel /\ crashes' = crashes /\ writes' = writes
        BY <1>5 DEF Call
    <2>c. Answered \/ Refused
        BY <1>5 DEF Call
    <2>r. CASE Refused
        <3>1. refused' # 0
            BY <2>r DEF Refused, TypeOK
        <3>2. QED
            BY <1>a, <2>1, <3>1 DEF ScreenKnown
    <2>a. SUFFICES ASSUME Answered PROVE ScreenKnown'
        BY <2>c, <2>r
    <2>b. /\ refused' = refused
          /\ brightness' = IF Head(calls) = Dialog THEN brightness ELSE Head(calls)
        BY <2>a DEF Answered
    <2>2. SUFFICES ASSUME crashes = 0, writes = 0, refused = 0 PROVE ScreenKnown'
        BY <1>a, <2>1, <2>b DEF ScreenKnown
    <2>3. CASE calls = <<0>> /\ saved = userLevel
        <3>1. calls' = << >> /\ brightness' = 0
            BY <1>a, <2>1, <2>b, <2>3
        <3>2. QED
            BY <1>a, <2>1, <2>b, <2>3, <3>1 DEF ScreenKnown
    <2>4. CASE calls = <<userLevel>> /\ saved = None
        <3>1. calls' = << >> /\ brightness' = userLevel
            BY <1>a, <2>1, <2>b, <2>4
        <3>2. QED
            BY <1>a, <2>1, <2>b, <2>4, <3>1 DEF ScreenKnown
    <2>5. CASE calls = <<userLevel, Dialog>> /\ saved = None
        <3>1. calls' = <<Dialog>> /\ brightness' = userLevel
            BY <1>a, <2>1, <2>b, <2>5
        <3>2. QED
            BY <1>a, <2>1, <2>b, <2>5, <3>1 DEF ScreenKnown
    <2>6. CASE calls = <<Dialog>> /\ saved = None /\ brightness = userLevel
        <3>1. calls' = << >> /\ brightness' = brightness
            BY <2>1, <2>b, <2>6
        <3>2. QED
            BY <1>a, <2>1, <2>b, <2>6, <3>1 DEF ScreenKnown
    <2>7. QED
        BY <2>1, <2>b, <2>2, <2>3, <2>4, <2>5, <2>6 DEF ScreenKnown
<1>6. CASE UNCHANGED <<calls, saved, brightness, userLevel, crashes, writes,
                      refused>>
    BY <1>6 DEF ScreenKnown
<1>7. QED
    BY <1>1, <1>2, <1>3, <1>4, <1>5, <1>6
       DEF Next, Press, Release, Tick, Read, Restart, service, counts, vars
-----------------------------------------------------------------------------
(* The theorems.                                                           *)

LEMMA InitIInv == Init => IInv
<1>1. Init => KeyKnown /\ NothingInHand
    BY DEF Init, KeyKnown, NothingInHand
<1>2. QED
    BY <1>1, InitTypeOK, InitEachPressOnce, InitScreenKnown DEF IInv

LEMMA NextIInv == IInv /\ [Next]_vars => IInv'
BY NextTypeOK, NextEachPressOnce, NextKeyKnown, NextNothingInHand, NextScreenKnown
   DEF IInv

LEMMA Invariant == Spec => []IInv
BY InitIInv, NextIInv, PTL DEF Spec

LEMMA IInvPresses == IInv => PressesDoOneThing
<1> SUFFICES ASSUME IInv PROVE OneActPerPress /\ RestoresLevel
    BY DEF PressesDoOneThing
<1> USE DEF IInv
<1>1. OneActPerPress
    <2>1. Downs(batch) \in Nat /\ Downs(queue) \in Nat
        BY DownsType DEF TypeOK, Events
    <2>2. acts \in Nat /\ presses \in Nat
        BY PowerButtonAssumption DEF TypeOK
    <2>3. QED
        BY <2>1, <2>2 DEF EachPressOnce, OneActPerPress
<1>2. RestoresLevel
    <2>1. userLevel # None
        BY PowerButtonAssumption DEF TypeOK, Levels
    <2>2. QED
        BY <2>1 DEF ScreenKnown, RestoresLevel
<1>3. QED
    BY <1>1, <1>2

\* Whatever comes between the two events of a press - a time-out, a read that
\* brings several events, a call that blocks, a crash and a restart - no press does
\* two things; and as long as nobody else writes the brightness, no SetBrightness
\* fails and the service does not crash, the screen is dark exactly while there is
\* a level to restore, which is the one it had.
THEOREM PressesSafe == Spec => []PressesDoOneThing
BY Invariant, IInvPresses, PTL

\* The dialog is opened only for a key that is still down and has been down for
\* LONG_PRESS: a release is never left unread when the time-out is decided.
THEOREM DialogSafe == Spec => DialogOnlyWhileHeld
<1>1. IInv /\ [Next]_vars => [dialogs' # dialogs => held /\ heldFor = LongPress]_vars
    <2> SUFFICES ASSUME IInv, [Next]_vars, dialogs' # dialogs
                 PROVE  held /\ heldFor = LongPress
        OBVIOUS
    <2>1. Timeout
        BY DEF Next, Press, Release, Tick, Desktop, Read, HandleEvent, Call, Crash,
               Restart, vars, counts
    <2>2. QED
        BY <2>1, TimeoutWhileHeld DEF IInv
<1>2. QED
    BY <1>1, Invariant, PTL DEF Spec, DialogOnlyWhileHeld
=============================================================================
