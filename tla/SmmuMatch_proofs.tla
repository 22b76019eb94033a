--------------------------- MODULE SmmuMatch_proofs ---------------------------
(***************************************************************************)
(* Proofs about SmmuMatch for every table size, stream width, bootloader   *)
(* table and sequence of command lines.                                    *)
(***************************************************************************)
EXTENDS SmmuMatch, TLAPS

\* The ranges two entries cover have no stream in common when the script's
\* overlap test (lines 86-87) does not fire.
LEMMA NoOverlapNoSharedStream ==
    ASSUME NEW e \in SMR, NEW id \in Streams, NEW mask \in SUBSET MaskBits,
           ~ Overlaps(e, id, mask), NEW s \in Streams
    PROVE  ~ (Hits(e, s) /\ Hits([valid |-> TRUE, id |-> id, mask |-> mask], s))
<1>1. SUFFICES ASSUME Hits(e, s), SymDiff(s, id) \ mask = {}
               PROVE  FALSE
    BY DEF Hits
<1>2. e.valid /\ SymDiff(s, e.id) \ e.mask = {}
    BY <1>1 DEF Hits
<1>3. SymDiff(id, e.id) \ (mask \cup e.mask) = {}
    BY <1>1, <1>2 DEF SymDiff
<1>4. QED
    BY <1>2, <1>3 DEF Overlaps

LEMMA InitTypeOK == Init => TypeOK
<1> SUFFICES ASSUME Init PROVE TypeOK
    OBVIOUS
<1>1. BootTable(boot)
    BY BootAssumption DEF Init
<1>2. smr \in [Slots -> SMR] /\ s2cr \in [Slots -> Routes]
    BY <1>1 DEF Init, BootTable, Slots
<1>3. route \in Routes
    <2>1. PICK c \in Contexts : TRUE
        BY MarkAssumption
    <2>2. [type |-> "context", cb |-> c] \in Routes
        BY DEF Routes
    <2>3. QED
        BY <2>2 DEF Init
<1>4. QED
    BY <1>2, <1>3, MarkAssumption DEF Init, TypeOK, NoCall

LEMMA NormalType ==
    ASSUME NEW r \in Request, InRange(r)
    PROVE  /\ Normal(r).sid \in Streams
           /\ Normal(r).mask \in SUBSET MaskBits
           /\ NewEntry(r) \in SMR
BY DEF Request, Normal, InRange, Streams, NewEntry, SMR

\* What the script knows between two of its commands.
Progress ==
    /\ pc \in {"next", "route", "match", "recheck"} => PassThrough(route)
    /\ pc \in {"route", "match", "recheck"} => todo # <<>>
    /\ pc \in {"route", "match"} =>
         /\ free \in Slots
         /\ ~ smr[free].valid
         /\ InRange(Head(todo))
         /\ ~ Clashes(Head(todo))
    /\ pc = "match" => s2cr[free] = route

IInv == TypeOK /\ NoConflict /\ BootloaderKept /\ AddedPassThrough /\ Progress

LEMMA NextTypeOK == TypeOK /\ Progress /\ [Next]_vars => TypeOK'
<1> SUFFICES ASSUME TypeOK, Progress, [Next]_vars PROVE TypeOK'
    OBVIOUS
<1> USE DEF TypeOK
<1>1. ASSUME NEW c \in Calls, Start(c) PROVE TypeOK'
    BY <1>1, CallsAssumption, MarkAssumption DEF Start, Slots
<1>2. CASE SetupOff
    BY <1>2 DEF SetupOff, Stop, Slots
<1>3. CASE SetupRefused
    BY <1>3 DEF SetupRefused, Stop, Slots
<1>4. CASE SetupDone
    BY <1>4 DEF SetupDone, Slots
<1>5. CASE Finish
    BY <1>5 DEF Finish, Stop, Slots
<1>6. CASE SkipArg
    BY <1>6 DEF SkipArg, Slots
<1>7. CASE RefuseArg
    BY <1>7 DEF RefuseArg, Stop, Slots
<1>8. CASE ClaimSlot
    <2>1. boot.nsmr \in Nat
        BY BootAssumption DEF BootTable
    <2>2. free' \in Nat
        BY <1>8, <2>1 DEF ClaimSlot, Slots
    <2>3. QED
        BY <1>8, <2>2 DEF ClaimSlot, Slots
<1>9. CASE WriteRoute
    BY <1>9 DEF WriteRoute, Slots
<1>10. CASE WriteMatch
    <2>1. Head(todo) \in Request
        BY <1>10 DEF WriteMatch, Progress
    <2>2. smr' \in [Slots -> SMR]
        BY <1>10, <2>1, NormalType DEF WriteMatch, Progress
    <2>3. QED
        BY <1>10, <2>2 DEF WriteMatch, Slots
<1>11. CASE Recheck
    BY <1>11 DEF Recheck, Stop, Slots, Progress
<1>12. CASE Interrupt
    BY <1>12 DEF Interrupt, Stop, Slots
<1>13. CASE UNCHANGED vars
    BY <1>13 DEF vars, Slots
<1>14. QED
    BY <1>1, <1>2, <1>3, <1>4, <1>5, <1>6, <1>7, <1>8, <1>9, <1>10, <1>11,
       <1>12, <1>13 DEF Next, Script
-----------------------------------------------------------------------------
\* Only WriteMatch touches the SMRs and only WriteRoute the S2CRs, and both
\* only the free slot, which was invalid.
LEMMA TableSteps ==
    ASSUME Next
    PROVE  /\ boot' = boot
           /\ smr' = smr \/ WriteMatch
           /\ s2cr' = s2cr \/ WriteRoute
BY DEF Next, Start, Script, SetupOff, SetupRefused, SetupDone, Finish, SkipArg,
       RefuseArg, ClaimSlot, WriteRoute, WriteMatch, Recheck, Interrupt

LEMMA WriteMatchEffect ==
    ASSUME TypeOK, Progress, WriteMatch, smr' # smr
    PROVE  /\ free \in Slots /\ Head(todo) \in Request
           /\ ~ smr[free].valid /\ ~ Clashes(Head(todo)) /\ s2cr[free] = route
           /\ PassThrough(route) /\ InRange(Head(todo))
           /\ smr' = [smr EXCEPT ![free] = NewEntry(Head(todo))]
           /\ smr'[free] = NewEntry(Head(todo))
           /\ \A i \in Slots : i # free => smr'[i] = smr[i]
BY DEF TypeOK, Progress, WriteMatch

LEMMA NextNoConflict == IInv /\ [Next]_vars => NoConflict'
<1> SUFFICES ASSUME IInv, [Next]_vars PROVE NoConflict'
    OBVIOUS
<1> USE DEF IInv
<1>1. CASE smr' = smr /\ boot' = boot
    BY <1>1 DEF NoConflict, Slots
<1>2. CASE WriteMatch /\ smr' # smr
    <2> DEFINE r == Head(todo)
    <2>1. \A i \in Slots, s \in Streams :
            i # free => ~ (Hits(smr[i], s) /\ Hits(NewEntry(r), s))
        <3> SUFFICES ASSUME NEW i \in Slots, NEW s \in Streams, i # free
                     PROVE  ~ (Hits(smr[i], s) /\ Hits(NewEntry(r), s))
            OBVIOUS
        <3>1. ~ Overlaps(smr[i], Normal(r).sid, Normal(r).mask)
            BY <1>2, WriteMatchEffect DEF Clashes
        <3>2. smr[i] \in SMR
            BY DEF TypeOK
        <3>3. Normal(r).sid \in Streams /\ Normal(r).mask \in SUBSET MaskBits
            BY <1>2, WriteMatchEffect, NormalType
        <3>4. QED
            BY <3>1, <3>2, <3>3, NoOverlapNoSharedStream DEF NewEntry
    <2>2. SUFFICES ASSUME NEW i \in Slots, NEW j \in Slots, NEW s \in Streams,
                          Hits(smr'[i], s), Hits(smr'[j], s)
                   PROVE  i = j
        <3>1. boot' = boot
            BY <1>2 DEF WriteMatch
        <3>2. QED
            BY <3>1 DEF NoConflict, Slots
    <2>3. CASE i = free \/ j = free
        BY <1>2, <2>1, <2>2, <2>3, WriteMatchEffect
    <2>4. CASE i # free /\ j # free
        BY <1>2, <2>2, <2>4, WriteMatchEffect DEF NoConflict
    <2>5. QED
        BY <2>3, <2>4
<1>3. QED
    BY <1>1, <1>2, TableSteps DEF vars

LEMMA NextBootloaderKept == IInv /\ [Next]_vars => BootloaderKept'
<1> SUFFICES ASSUME IInv, [Next]_vars PROVE BootloaderKept'
    OBVIOUS
<1> USE DEF IInv
<1>1. boot' = boot /\ (smr' = smr \/ WriteMatch) /\ (s2cr' = s2cr \/ WriteRoute)
    BY TableSteps DEF vars
<1>2. SUFFICES ASSUME NEW i \in Slots, boot.smr[i].valid
               PROVE  smr'[i] = smr[i] /\ s2cr'[i] = s2cr[i]
    BY <1>1 DEF BootloaderKept, Slots
<1>3. smr[i].valid
    BY <1>2 DEF BootloaderKept
<1>4. smr'[i] = smr[i]
    BY <1>1, <1>3, WriteMatchEffect
<1>5. s2cr'[i] = s2cr[i]
    BY <1>1, <1>3 DEF WriteRoute, Progress, TypeOK
<1>6. QED
    BY <1>4, <1>5

LEMMA NextAddedPassThrough == IInv /\ [Next]_vars => AddedPassThrough'
<1> SUFFICES ASSUME IInv, [Next]_vars PROVE AddedPassThrough'
    OBVIOUS
<1> USE DEF IInv
<1>1. boot' = boot /\ (smr' = smr \/ WriteMatch) /\ (s2cr' = s2cr \/ WriteRoute)
    BY TableSteps DEF vars
<1>2. SUFFICES ASSUME NEW i \in Slots, smr'[i].valid, ~ boot.smr[i].valid
               PROVE  s2cr'[i].type = "context" /\ s2cr'[i].cb \notin boot.translating
    BY <1>1 DEF AddedPassThrough, Slots, PassThrough
<1>3. CASE WriteMatch /\ smr' # smr
    <2>1. s2cr' = s2cr
        BY <1>3 DEF WriteMatch
    <2>2. CASE i = free
        BY <1>3, <2>1, <2>2, WriteMatchEffect DEF PassThrough
    <2>3. CASE i # free
        <3>1. smr[i].valid
            BY <1>2, <1>3, <2>3, WriteMatchEffect
        <3>2. QED
            BY <1>2, <2>1, <3>1 DEF AddedPassThrough, PassThrough
    <2>4. QED
        BY <2>2, <2>3
<1>4. CASE smr' = smr
    <2>1. s2cr'[i] = s2cr[i]
        BY <1>1, <1>2, <1>4 DEF WriteRoute, Progress, TypeOK
    <2>2. QED
        BY <1>2, <1>4, <2>1 DEF AddedPassThrough, PassThrough
<1>5. QED
    BY <1>1, <1>3, <1>4

LEMMA NextProgress == IInv /\ [Next]_vars => Progress'
<1> SUFFICES ASSUME IInv, [Next]_vars PROVE Progress'
    OBVIOUS
<1> USE DEF IInv, TypeOK
<1>1. ASSUME NEW c \in Calls, Start(c) PROVE Progress'
    BY <1>1 DEF Start, Progress
<1>2. CASE SetupOff
    BY <1>2 DEF SetupOff, Stop, Progress
<1>3. CASE SetupRefused
    BY <1>3 DEF SetupRefused, Stop, Progress
<1>4. CASE SetupDone
    BY <1>4 DEF SetupDone, Progress, PassThrough
<1>5. CASE Finish
    BY <1>5 DEF Finish, Stop, Progress
<1>6. CASE SkipArg
    BY <1>6 DEF SkipArg, Progress, PassThrough
<1>7. CASE RefuseArg
    BY <1>7 DEF RefuseArg, Stop, Progress
<1>8. CASE ClaimSlot
    BY <1>8 DEF ClaimSlot, Progress, PassThrough, ToAdd, FirstFree, Slots,
                Clashes, InRange
<1>9. CASE WriteRoute
    BY <1>9 DEF WriteRoute, Progress, PassThrough, Slots, Clashes, InRange
<1>10. CASE WriteMatch
    BY <1>10 DEF WriteMatch, Progress, PassThrough
<1>11. CASE Recheck
    BY <1>11 DEF Recheck, Stop, Progress, PassThrough
<1>12. CASE Interrupt
    BY <1>12 DEF Interrupt, Stop, Progress
<1>13. CASE UNCHANGED vars
    BY <1>13 DEF vars, Progress, PassThrough, Slots, Clashes, InRange
<1>14. QED
    BY <1>1, <1>2, <1>3, <1>4, <1>5, <1>6, <1>7, <1>8, <1>9, <1>10, <1>11,
       <1>12, <1>13 DEF Next, Script

LEMMA InitIInv == Init => IInv
<1> SUFFICES ASSUME Init PROVE IInv
    OBVIOUS
<1>1. BootTable(boot)
    BY BootAssumption DEF Init
<1>2. NoConflict /\ BootloaderKept /\ AddedPassThrough
    BY <1>1 DEF Init, NoConflict, BootloaderKept, AddedPassThrough, BootTable,
                Slots
<1>3. Progress
    BY DEF Init, Progress
<1>4. QED
    BY <1>2, <1>3, InitTypeOK DEF IInv

\* Every value the model's variables take is one the registers and the
\* script's variables can hold.
THEOREM TypeCorrect == Spec => []TypeOK
<1>1. IInv /\ [Next]_vars => IInv'
    BY NextTypeOK, NextNoConflict, NextBootloaderKept, NextAddedPassThrough,
       NextProgress DEF IInv
<1>2. IInv => TypeOK
    BY DEF IInv
<1>3. QED
    BY InitIInv, <1>1, <1>2, PTL DEF Spec

LEMMA Invariance == Spec => []IInv
<1>1. IInv /\ [Next]_vars => IInv'
    BY NextTypeOK, NextNoConflict, NextBootloaderKept, NextAddedPassThrough,
       NextProgress DEF IInv
<1>2. QED
    BY InitIInv, <1>1, PTL DEF Spec

\* No sequence of command lines, refused writes and interruptions makes a
\* stream hit two valid SMRs (the guard of lines 82-91 is sufficient).
THEOREM ConflictFree == Spec => []NoConflict
<1>1. IInv => NoConflict
    BY DEF IInv
<1>2. QED
    BY Invariance, <1>1, PTL

\* An added match is pass-through from the moment it is valid, wherever the
\* script is interrupted (the order of lines 97-99 is sufficient).
THEOREM RouteBeforeMatch == Spec => []AddedPassThrough
<1>1. IInv => AddedPassThrough
    BY DEF IInv
<1>2. QED
    BY Invariance, <1>1, PTL

\* ABL's own entries keep match and route for ever.
THEOREM BootloaderSafe == Spec => []BootloaderKept
<1>1. IInv => BootloaderKept
    BY DEF IInv
<1>2. QED
    BY Invariance, <1>1, PTL

\* All three at once: the tables are sound between any two writes (lines 82-99).
THEOREM TablesAreSound == Spec => []TablesSound
<1>1. IInv => TablesSound
    BY DEF IInv, TablesSound
<1>2. QED
    BY Invariance, <1>1, PTL
-----------------------------------------------------------------------------
(* What a command line has achieved, argument by argument. *)

ArgsTodo ==
    /\ pc # "idle" =>
         \A m \in DOMAIN todo : \E k \in DOMAIN call.args : todo[m] = call.args[k]
    /\ pc \in {"route", "match"} =>
         ~ call.check /\ ~ Matched(Normal(Head(todo)))

ArgsDone ==
    /\ pc # "idle" /\ ~ call.check =>
         \A k \in DOMAIN call.args :
            \/ \E m \in DOMAIN todo : todo[m] = call.args[k]
            \/ Matched(Normal(call.args[k]))
    /\ pc # "idle" => exit = "none"
    /\ exit = "ok" /\ ~ call.check =>
         \A k \in DOMAIN call.args : Matched(Normal(call.args[k]))

LEMMA ArgsTyped == TypeOK => call.args \in Seq(Request)
<1>1. call \in Calls => call.args \in Seq(Request)
    BY CallsAssumption
<1>2. call = NoCall => call.args = <<>>
    BY DEF NoCall
<1>3. <<>> \in Seq(Request)
    OBVIOUS
<1>4. QED
    BY <1>1, <1>2, <1>3 DEF TypeOK

\* Removing the first argument loses no other one.
LEMMA TailElements ==
    ASSUME NEW q \in Seq(Request), q # <<>>
    PROVE  /\ 1 \in DOMAIN q /\ Head(q) = q[1]
           /\ \A m \in DOMAIN q : m # 1 =>
                 m - 1 \in DOMAIN Tail(q) /\ Tail(q)[m - 1] = q[m]
           /\ \A m \in DOMAIN Tail(q) :
                 m + 1 \in DOMAIN q /\ Tail(q)[m] = q[m + 1]
OBVIOUS

\* A table write never un-matches an argument: the slot was invalid.
LEMMA MatchedKept ==
    ASSUME TypeOK, Progress, [Next]_vars, NEW r, Matched(r)
    PROVE  Matched(r)'
<1>1. boot' = boot /\ (smr' = smr \/ WriteMatch)
    BY TableSteps DEF vars
<1>2. PICK i \in Slots : Covers(smr[i], r.sid, r.mask)
    BY DEF Matched
<1>3. smr'[i] = smr[i]
    BY <1>1, <1>2, WriteMatchEffect DEF Covers
<1>4. QED
    BY <1>1, <1>2, <1>3 DEF Matched, Slots, Covers

LEMMA NextArgsTodo == TypeOK /\ Progress /\ ArgsTodo /\ [Next]_vars => ArgsTodo'
<1> SUFFICES ASSUME TypeOK, Progress, ArgsTodo, [Next]_vars PROVE ArgsTodo'
    OBVIOUS
<1>1. ASSUME NEW c \in Calls, Start(c) PROVE ArgsTodo'
    BY <1>1 DEF Start, ArgsTodo
<1>2. CASE SetupOff \/ SetupRefused \/ Finish \/ RefuseArg \/ Interrupt
    BY <1>2 DEF SetupOff, SetupRefused, Finish, RefuseArg, Interrupt, Stop,
                ArgsTodo
<1>3. CASE SetupDone
    BY <1>3 DEF SetupDone, ArgsTodo
<1>4. CASE SkipArg \/ Recheck
    <2>1. UNCHANGED call /\ ((todo' = Tail(todo) /\ pc' = "next") \/ pc' = "idle")
        BY <1>4 DEF SkipArg, Recheck, Stop
    <2>2. todo # <<>> /\ todo \in Seq(Request) /\ pc # "idle"
        BY <1>4 DEF SkipArg, Recheck, Progress, TypeOK
    <2>3. QED
        BY <2>1, <2>2, TailElements DEF ArgsTodo
<1>5. CASE ClaimSlot
    BY <1>5 DEF ClaimSlot, ToAdd, ArgsTodo, Matched, Slots, Normal
<1>6. CASE WriteRoute
    BY <1>6 DEF WriteRoute, ArgsTodo, Matched, Slots, Normal
<1>7. CASE WriteMatch
    BY <1>7 DEF WriteMatch, ArgsTodo
<1>8. CASE UNCHANGED vars
    BY <1>8 DEF vars, ArgsTodo, Matched, Slots, Normal
<1>9. QED
    BY <1>1, <1>2, <1>3, <1>4, <1>5, <1>6, <1>7, <1>8 DEF Next, Script

LEMMA NextArgsDone == TypeOK /\ Progress /\ ArgsDone /\ [Next]_vars => ArgsDone'
<1> SUFFICES ASSUME TypeOK, Progress, ArgsDone, [Next]_vars PROVE ArgsDone'
    OBVIOUS
<1>1. ASSUME NEW c \in Calls, Start(c) PROVE ArgsDone'
    BY <1>1 DEF Start, ArgsDone
<1> DEFINE Kept == call' = call => \A k \in DOMAIN call.args :
                      Matched(Normal(call.args[k]))
                        => Matched(Normal(call.args[k]))'
<1>2. Kept
    <2>1. \A r \in Request : Matched(Normal(r)) => Matched(Normal(r))'
        <3> SUFFICES ASSUME NEW r \in Request, Matched(Normal(r))
                     PROVE  Matched(Normal(r))'
            OBVIOUS
        <3>1. QED
            BY MatchedKept DEF Normal
    <2>2. \A k \in DOMAIN call.args : call.args[k] \in Request
        BY ArgsTyped
    <2>3. QED
        BY <2>1, <2>2 DEF Normal, Matched
<1> HIDE DEF Kept
<1>3. CASE SetupOff \/ SetupRefused \/ RefuseArg \/ Interrupt
    BY <1>3 DEF SetupOff, SetupRefused, RefuseArg, Interrupt, Stop, ArgsDone
<1>4. CASE Finish
    <2>1. pc # "idle" /\ todo = <<>> /\ UNCHANGED call /\ pc' = "idle"
        BY <1>4 DEF Finish, Stop
    <2>2. QED
        BY <1>2, <2>1 DEF ArgsDone, Kept
<1>5. CASE SkipArg \/ Recheck
    <2>1. /\ UNCHANGED call
          /\ pc # "idle"
          /\ todo # <<>>
          /\ \/ /\ todo' = Tail(todo) /\ pc' = "next" /\ exit' = exit
                /\ Matched(Normal(Head(todo))) \/ call.check
             \/ pc' = "idle" /\ exit' = "died"
        BY <1>5 DEF SkipArg, Recheck, Stop, Progress
    <2>2. \A k \in DOMAIN call.args, m \in DOMAIN todo :
            todo[m] = call.args[k] /\ m = 1 /\ todo' = Tail(todo) /\ ~ call.check
              /\ exit' = exit
              => Matched(Normal(call.args[k]))
        BY <2>1, TailElements DEF TypeOK, ArgsDone
    <2>3. \A k \in DOMAIN call.args, m \in DOMAIN todo :
            todo[m] = call.args[k] /\ m # 1 /\ todo' = Tail(todo)
              => m - 1 \in DOMAIN todo' /\ todo'[m - 1] = call.args[k]
        BY <2>1, TailElements DEF TypeOK
    <2>4. QED
        BY <1>2, <2>1, <2>2, <2>3 DEF ArgsDone, Kept
<1>6. CASE SetupDone \/ ClaimSlot \/ WriteRoute \/ WriteMatch
    <2>1. UNCHANGED <<call, todo, exit>> /\ pc # "idle"
        BY <1>6 DEF SetupDone, ClaimSlot, WriteRoute, WriteMatch
    <2>2. QED
        BY <1>2, <2>1 DEF ArgsDone, Kept
<1>7. CASE UNCHANGED vars
    BY <1>2, <1>7 DEF vars, ArgsDone, Kept
<1>8. QED
    BY <1>1, <1>3, <1>4, <1>5, <1>6, <1>7 DEF Next, Script

\* A slot that covers a normalised request is hit by each of its streams.
LEMMA MatchedHitsAll ==
    ASSUME NEW r \in Request, Matched(Normal(r)), NEW s \in StreamsOf(r)
    PROVE  \E i \in Slots : Hits(smr[i], s)
<1>1. PICK i \in Slots : Covers(smr[i], Normal(r).sid, Normal(r).mask)
    BY DEF Matched
<1>2. SymDiff(r.sid \ r.mask, smr[i].id) \ smr[i].mask = {} /\ r.mask \ smr[i].mask = {}
      /\ smr[i].valid
    BY <1>1 DEF Covers, Normal
<1>3. SymDiff(s, r.sid) \subseteq r.mask
    BY DEF StreamsOf
<1>4. SymDiff(s, smr[i].id) \ smr[i].mask = {}
    BY <1>2, <1>3 DEF SymDiff
<1>5. QED
    BY <1>2, <1>4 DEF Hits

LEMMA DoneInvariance == Spec => [](IInv /\ ArgsTodo /\ ArgsDone)
<1>1. Init => ArgsTodo /\ ArgsDone
    BY DEF Init, ArgsTodo, ArgsDone
<1>2. IInv /\ ArgsTodo /\ ArgsDone /\ [Next]_vars => (ArgsTodo /\ ArgsDone)'
    BY NextArgsTodo, NextArgsDone DEF IInv
<1>3. QED
    BY Invariance, <1>1, <1>2, PTL DEF Spec

\* Exit 0 of a real run: no stream of any of its arguments faults, from then
\* until the next run starts.
THEOREM OkIsRouted == Spec => []OkMeansRouted
<1>1. TypeOK /\ ArgsDone => OkMeansRouted
    BY ArgsTyped, MatchedHitsAll DEF ArgsDone, OkMeansRouted
<1>2. QED
    BY DoneInvariance, <1>1, PTL DEF IInv

\* A write to either table needs an argument that was unmatched: run a second
\* time, a command line that succeeded writes nothing.
THEOREM RerunWritesNothing == Spec => WritesOnlyUnmatched
<1> DEFINE A == smr' # smr \/ s2cr' # s2cr =>
                  /\ ~ call.check
                  /\ \E k \in DOMAIN call.args : ~ Matched(Normal(call.args[k]))
<1>1. IInv /\ ArgsTodo /\ [Next]_vars => [A]_vars
    <2> SUFFICES ASSUME IInv, ArgsTodo, Next, smr' # smr \/ s2cr' # s2cr
                 PROVE  A
        OBVIOUS
    <2>1. WriteMatch \/ WriteRoute
        BY TableSteps
    <2>2. pc \in {"route", "match"}
        BY <2>1 DEF WriteMatch, WriteRoute
    <2>3. Head(todo) = todo[1] /\ 1 \in DOMAIN todo
        BY <2>2, TailElements DEF IInv, TypeOK, Progress
    <2>4. QED
        BY <2>2, <2>3 DEF ArgsTodo
<1>2. QED
    BY DoneInvariance, <1>1, PTL DEF Spec, WritesOnlyUnmatched
-----------------------------------------------------------------------------
(* SmmuMatch implements StreamRouting.  $s2cr is the USB stream's route:   *)

UsbRoute ==
    pc \in {"next", "route", "match", "recheck"} =>
        \E i \in Slots : Hits(smr[i], UsbSid) /\ s2cr[i] = route

LEMMA RoutingOfHit ==
    ASSUME NoConflict, NEW i \in Slots, NEW s \in Streams, Hits(smr[i], s)
    PROVE  Routing[s] = s2cr[i]
<1> DEFINE hit == {j \in Slots : Hits(smr[j], s)}
<1>1. hit = {i}
    BY DEF NoConflict
<1>2. hit # {} /\ (CHOOSE j \in hit : TRUE) = i
    BY <1>1
<1>3. QED
    BY <1>1, <1>2 DEF Routing

LEMMA RoutingOfMiss ==
    ASSUME NEW s \in Streams, \A i \in Slots : ~ Hits(smr[i], s)
    PROVE  Routing[s] = Unmatched
BY DEF Routing

LEMMA NextUsbRoute == IInv /\ UsbRoute /\ [Next]_vars => UsbRoute'
<1> SUFFICES ASSUME IInv, UsbRoute, [Next]_vars PROVE UsbRoute'
    OBVIOUS
<1> USE DEF IInv
<1>1. boot' = boot /\ (smr' = smr \/ WriteMatch) /\ (s2cr' = s2cr \/ WriteRoute)
    BY TableSteps DEF vars
<1>2. CASE SetupDone
    BY <1>2 DEF SetupDone, UsbRoute, FirstMatch, Covers, Hits, Slots
<1>3. CASE pc' \in {"next", "route", "match", "recheck"} /\ ~ SetupDone
    <2>1. pc \in {"next", "route", "match", "recheck"} /\ route' = route
        BY <1>3 DEF vars, Next, Start, Script, SetupOff, SetupRefused, Finish,
                    SkipArg, RefuseArg, ClaimSlot, WriteRoute, WriteMatch,
                    Recheck, Interrupt, Stop
    <2>2. PICK i \in Slots : Hits(smr[i], UsbSid) /\ s2cr[i] = route
        BY <2>1 DEF UsbRoute
    <2>3. smr'[i] = smr[i]
        BY <1>1, <2>2, WriteMatchEffect DEF Hits
    <2>4. s2cr'[i] = s2cr[i]
        BY <1>1, <2>2 DEF WriteRoute, Progress, TypeOK, Hits
    <2>5. QED
        BY <1>1, <2>1, <2>2, <2>3, <2>4 DEF UsbRoute, Slots, Hits
<1>4. QED
    BY <1>2, <1>3 DEF UsbRoute

LEMMA StepRefines == IInv /\ IInv' /\ UsbRoute /\ [Next]_vars => [Abstract!Next]_Routing
<1> SUFFICES ASSUME IInv, NoConflict', UsbRoute, [Next]_vars
             PROVE  Abstract!Next \/ Routing' = Routing
    BY DEF IInv
<1> USE DEF IInv
<1>1. boot' = boot /\ (smr' = smr \/ WriteMatch) /\ (s2cr' = s2cr \/ WriteRoute)
    BY TableSteps DEF vars
<1>2. CASE WriteMatch /\ smr' # smr
    <2> DEFINE S == {s \in Streams : Hits(NewEntry(Head(todo)), s)}
    <2>1. s2cr' = s2cr
        BY <1>2 DEF WriteMatch
    <2>2. PICK u \in Slots : Hits(smr[u], UsbSid) /\ s2cr[u] = route
        BY <1>2 DEF WriteMatch, UsbRoute
    <2>3. Routing[UsbSid] = route /\ route \in Routes
        BY <2>2, RoutingOfHit, BitsAssumption DEF TypeOK
    <2>4. \A s \in S, i \in Slots : ~ Hits(smr[i], s)
        <3> SUFFICES ASSUME NEW s \in S, NEW i \in Slots, Hits(smr[i], s)
                     PROVE  FALSE
            OBVIOUS
        <3>1. i # free
            BY <1>2, WriteMatchEffect DEF Hits
        <3>2. Hits(smr'[i], s) /\ Hits(smr'[free], s)
            BY <1>2, <3>1, WriteMatchEffect
        <3>3. QED
            BY <1>1, <1>2, <3>1, <3>2, WriteMatchEffect DEF NoConflict, Slots
    <2>5. \A s \in S : Routing[s] = Unmatched
        BY <2>4, RoutingOfMiss
    <2>6. \A s \in S : Routing'[s] = route
        <3> SUFFICES ASSUME NEW s \in S PROVE Routing'[s] = route
            OBVIOUS
        <3>1. Hits(smr'[free], s) /\ s2cr'[free] = route /\ free \in Slots'
            BY <1>1, <1>2, <2>1, WriteMatchEffect DEF Slots
        <3> DEFINE hit == {j \in Slots' : Hits(smr'[j], s)}
        <3>2. hit = {free}
            BY <3>1 DEF NoConflict
        <3>3. hit # {} /\ (CHOOSE j \in hit : TRUE) = free
            BY <3>2
        <3>4. QED
            BY <3>1, <3>2, <3>3 DEF Routing
    <2>7. \A s \in Streams \ S : Routing'[s] = Routing[s]
        <3> SUFFICES ASSUME NEW s \in Streams \ S PROVE Routing'[s] = Routing[s]
            OBVIOUS
        <3>1. \A i \in Slots : Hits(smr'[i], s) <=> Hits(smr[i], s)
            BY <1>2, WriteMatchEffect DEF Hits
        <3>2. {i \in Slots' : Hits(smr'[i], s)} = {i \in Slots : Hits(smr[i], s)}
            BY <1>1, <3>1 DEF Slots
        <3>3. QED
            BY <2>1, <3>2 DEF Routing
    <2>8. Routing' = [s \in Streams |-> IF s \in S THEN Routing[UsbSid] ELSE Routing[s]]
        <3>1. Routing' = [s \in Streams |-> Routing'[s]]
            BY DEF Routing
        <3>2. QED
            BY <2>3, <2>6, <2>7, <3>1
    <2>9. Abstract!Grant(S)
        BY <2>3, <2>5, <2>8 DEF Abstract!Grant
    <2>10. QED
        BY <2>9 DEF Abstract!Next
<1>3. CASE smr' = smr
    <2> SUFFICES ASSUME NEW s \in Streams PROVE Routing'[s] = Routing[s]
        BY DEF Routing
    <2>1. CASE \E i \in Slots : Hits(smr[i], s)
        <3>1. PICK i \in Slots : Hits(smr[i], s)
            BY <2>1
        <3>2. s2cr'[i] = s2cr[i]
            BY <1>1, <3>1 DEF WriteRoute, Progress, TypeOK, Hits
        <3> DEFINE hit == {j \in Slots : Hits(smr[j], s)}
        <3>3. hit = {i}
            BY <3>1 DEF NoConflict
        <3>4. hit # {} /\ (CHOOSE j \in hit : TRUE) = i
            BY <3>3
        <3>5. {j \in Slots' : Hits(smr'[j], s)} = hit
            BY <1>1, <1>3 DEF Slots
        <3>6. QED
            BY <3>2, <3>3, <3>4, <3>5 DEF Routing
    <2>2. CASE ~ \E i \in Slots : Hits(smr[i], s)
        BY <1>1, <1>3, <2>2 DEF Routing, Slots
    <2>3. QED
        BY <2>1, <2>2
<1>4. QED
    BY <1>1, <1>2, <1>3

LEMMA InitRefines == IInv => Abstract!Init
<1> SUFFICES ASSUME IInv, NEW s \in Streams
             PROVE  Routing[s] \in Routes \cup {Unmatched}
    BY DEF Abstract!Init, Routing
<1>1. CASE \E i \in Slots : Hits(smr[i], s)
    BY <1>1, RoutingOfHit DEF IInv, TypeOK
<1>2. CASE ~ \E i \in Slots : Hits(smr[i], s)
    BY <1>2, RoutingOfMiss
<1>3. QED
    BY <1>1, <1>2

\* Seen from the devices the script does nothing but turn faulting streams
\* into streams routed like USB's, a whole range in one step.
THEOREM Implements == Spec => RepairsRouting
<1>1. Init => UsbRoute
    BY DEF Init, UsbRoute
<1>2. Spec => [](IInv /\ UsbRoute)
    BY <1>1, NextUsbRoute, Invariance, PTL DEF Spec
<1>3. QED
    BY <1>2, InitIInv, InitRefines, StepRefines, PTL
       DEF Spec, RepairsRouting, Abstract!Spec
=============================================================================
