-------------------------- MODULE MCTestImage_proofs --------------------------
(***************************************************************************)
(* Proofs about the two programs of the test image: TouchTest for every    *)
(* number of runs at a time and every choice of their options, PID 1 for   *)
(* every bound of its loops, and both as MCTestImage composes them.        *)
(***************************************************************************)
EXTENDS MCTestImage, TLAPS

Codes  == {None, 0} \cup 10 .. 15
Inside == {"load", "loadSpi", "wait", "rebind", "check", "irq", "start", "view",
           "spawn", "listed"}

\* The part of TypeOK that is about the runs; a run that is inside a stage was
\* asked for it.
RunsOK ==
    /\ args \in [Runs -> Args] /\ stage \in [Runs -> 0 .. 5]
    /\ pc \in [Runs -> Inside \cup {"stage", "over", "read", "gone"}]
    /\ code \in [Runs -> Codes] /\ exit \in [Runs -> Codes] /\ rcFile \in Codes
    /\ \A r \in Runs : pc[r] \in Inside => stage[r] <= args[r].last

\* The part that is about the system.
KernelOK ==
    /\ image \in BOOLEAN /\ streams \in BOOLEAN /\ mux \in BOOLEAN /\ irq \in BOOLEAN
    /\ daemon \in BOOLEAN
    /\ loaded \subseteq {"pinctrl-sm8750", "gpi", "spi-geni-qcom", "nt36532e_ts", "uinput"}
    /\ bound \subseteq {"tlmm", "spi", "ts"}

\* What stage 2 has seen to before its first modprobe.
Matched == streams /\ "tlmm" \in bound

\* A run that is about to load a DMA master has matched the streams.
LoadsMatched ==
    \A r \in Runs : stage[r] = 2 /\ pc[r] \in {"load", "loadSpi"} => Matched

IInv == RunsOK /\ KernelOK /\ LoadsMatched /\ StreamsBeforeDma

LEMMA Typing == RunsOK /\ KernelOK => TypeOK
BY DEF RunsOK, KernelOK, TypeOK, Codes, Inside
-----------------------------------------------------------------------------
(* The ways a run moves.                                                   *)

LEMMA LastStage ==
    ASSUME RunsOK, NEW r \in Runs
    PROVE  args[r].last \in 0 .. 5 /\ args[r].first \in 0 .. 5 /\ stage[r] \in 0 .. 5
BY TouchTestAssumption DEF RunsOK

LEMMA GotoOK ==
    ASSUME RunsOK, NEW r \in Runs, NEW p \in Inside, stage[r] <= args[r].last, Goto(r, p)
    PROVE  RunsOK'
BY DEF RunsOK, Goto

LEMMA EndedOK ==
    ASSUME RunsOK, NEW r \in Runs, NEW c \in Codes, Ended(r, c)
    PROVE  RunsOK'
BY DEF RunsOK, Ended, Inside

LEMMA FailOK ==
    ASSUME RunsOK, NEW r \in Runs, Fail(r)
    PROVE  RunsOK'
<1>1. 10 + stage[r] \in Codes
    BY LastStage DEF Codes
<1>2. QED
    BY <1>1, EndedOK DEF Fail

\* A stage passed is not the last one when another follows.
LEMMA PassOK ==
    ASSUME RunsOK, NEW r \in Runs, stage[r] <= args[r].last, Pass(r)
    PROVE  RunsOK'
<1>1. CASE stage[r] = args[r].last
    <2>1. 0 \in Codes
        BY DEF Codes
    <2>2. QED
        BY <1>1, <2>1, EndedOK DEF Pass
<1>2. CASE stage[r] # args[r].last
    <2>1. stage[r] + 1 \in 0 .. 5
        BY <1>2, LastStage
    <2>2. QED
        BY <1>2, <2>1 DEF Pass, RunsOK, Inside
<1>3. QED
    BY <1>1, <1>2

\* load() of a module of the image.
LEMMA LoadOK ==
    ASSUME RunsOK, NEW r \in Runs, NEW m, NEW p \in Inside, stage[r] <= args[r].last,
           Load(r, m, p)
    PROVE  RunsOK' /\ loaded' \subseteq loaded \cup {m}
BY GotoOK, FailOK DEF Load
-----------------------------------------------------------------------------
(* The runs.                                                               *)

LEMMA InitRunsOK == Init => RunsOK
<1> SUFFICES ASSUME Init PROVE RunsOK
    OBVIOUS
<1>1. stage \in [Runs -> 0 .. 5]
    BY TouchTestAssumption DEF Init
<1>2. None \in Codes
    BY DEF Codes
<1>3. QED
    BY <1>1, <1>2 DEF Init, RunsOK, Inside

LEMMA StepRunsOK ==
    ASSUME RunsOK, NEW r \in Runs, Step(r)
    PROVE  RunsOK'
<1>a. \A p \in Inside : pc[r] = p => stage[r] <= args[r].last
    BY DEF RunsOK
<1>1. CASE NoStage(r)
    BY <1>1, EndedOK DEF NoStage, Codes
<1>2. CASE Stage0(r)
    BY <1>2, PassOK, FailOK DEF Stage0, Due, At
<1>3. CASE Stage1(r)
    BY <1>3, <1>a, PassOK, FailOK, LoadOK DEF Stage1, Due, At, Inside
<1>4. CASE Stage2(r)
    <2>1. ASSUME Due(r, 2), IF "tlmm" \in bound THEN RepairOrFail(r)
                            ELSE Fail(r) /\ UNCHANGED streams
          PROVE  RunsOK'
        BY <2>1, GotoOK, FailOK DEF RepairOrFail, Due, At, Inside
    <2>2. CASE At(r, 2, "load") /\ Load(r, "gpi", "loadSpi")
        BY <2>2, <1>a, LoadOK DEF At, Inside
    <2>3. CASE At(r, 2, "loadSpi") /\ Load(r, "spi-geni-qcom", "wait")
        BY <2>3, <1>a, LoadOK DEF At, Inside
    <2>4. ASSUME At(r, 2, "wait"),
                 IF "spi" \in bound THEN Goto(r, IF mux THEN "check" ELSE "rebind")
                 ELSE Fail(r)
          PROVE  RunsOK'
        BY <2>4, <1>a, GotoOK, FailOK DEF At, Inside
    <2>5. CASE At(r, 2, "rebind") /\ Goto(r, "check")
        BY <2>5, <1>a, GotoOK DEF At, Inside
    <2>6. ASSUME At(r, 2, "check"), IF mux THEN Pass(r) ELSE Fail(r)
          PROVE  RunsOK'
        BY <2>6, <1>a, PassOK, FailOK DEF At, Inside
    <2>7. QED
        BY <1>4, <2>1, <2>2, <2>3, <2>4, <2>5, <2>6 DEF Stage2
<1>5. CASE Stage3(r)
    BY <1>5, <1>a, PassOK, FailOK, GotoOK, LoadOK DEF Stage3, Found, Due, At, Inside
<1>6. CASE Stage4(r)
    BY <1>6, <1>a, PassOK, FailOK, GotoOK DEF Stage4, Due, At, Inside
<1>7. CASE Stage5(r)
    BY <1>7, <1>a, PassOK, FailOK, GotoOK, LoadOK DEF Stage5, Due, At, Inside
<1>8. CASE WriteRc(r)
    BY <1>8 DEF WriteRc, RunsOK, Inside
<1>9. CASE ReadRc(r)
    BY <1>9 DEF ReadRc, RunsOK, Inside
<1>10. QED
    BY <1>1, <1>2, <1>3, <1>4, <1>5, <1>6, <1>7, <1>8, <1>9 DEF Step

LEMMA NextRunsOK == RunsOK /\ [Next]_vars => RunsOK'
<1> SUFFICES ASSUME RunsOK, [Next]_vars PROVE RunsOK'
    OBVIOUS
<1>1. CASE UNCHANGED run
    BY <1>1 DEF run, RunsOK
<1>2. QED
    BY <1>1, StepRunsOK DEF Next, Binds, vars
-----------------------------------------------------------------------------
(* The system.                                                             *)

\* What one step may do to modules, devices and stream matches.  A DMA master is
\* loaded only by a run that is at that instruction of stage 2, an SPI device
\* appears only beside the modules of stage 2, a touch device beside an SPI one;
\* nothing takes the TLMM or the stream matches away.
Effects ==
    /\ streams' \in {streams, TRUE}
    /\ "tlmm" \in bound => "tlmm" \in bound'
    /\ loaded' = loaded
       \/ (\E m \in {"pinctrl-sm8750", "nt36532e_ts", "uinput"} : loaded' = loaded \cup {m})
       \/ (\E r \in Runs, m \in {"gpi", "spi-geni-qcom"} :
             stage[r] = 2 /\ pc[r] \in {"load", "loadSpi"} /\ loaded' = loaded \cup {m})
    /\ bound' \subseteq bound
       \/ bound' = bound \cup {"tlmm"}
       \/ ({"gpi", "spi-geni-qcom"} \subseteq loaded /\ bound' = bound \cup {"spi"})
       \/ ("spi" \in bound /\ bound' = bound \cup {"ts"})
    /\ mux' \in {mux, TRUE, FALSE} /\ irq' \in {irq, TRUE, FALSE}
    /\ daemon' \in {daemon, TRUE, FALSE} /\ image' = image

LEMMA LoadEffect ==
    ASSUME NEW r, NEW m, NEW p, Load(r, m, p)
    PROVE  loaded' = loaded \/ loaded' = loaded \cup {m}
BY DEF Load

LEMMA StepEffects ==
    ASSUME NEW r \in Runs, Step(r)
    PROVE  Effects
<1>1. CASE UNCHANGED kernel
    BY <1>1 DEF kernel, Effects
<1>2. CASE Stage1(r)
    BY <1>1, <1>2, LoadEffect DEF Stage1, Effects
<1>3. CASE Stage2(r)
    <2>1. CASE Due(r, 2)
        BY <1>1, <1>3, <2>1 DEF Stage2, Effects, RepairOrFail, Due, At
    <2>2. CASE At(r, 2, "load") \/ At(r, 2, "loadSpi")
        BY <1>1, <1>3, <2>2, LoadEffect DEF Stage2, Effects, Due, At
    <2>3. CASE At(r, 2, "wait") \/ At(r, 2, "rebind") \/ At(r, 2, "check")
        BY <1>1, <1>3, <2>3 DEF Stage2, Effects, Due, At
    <2>4. QED
        BY <1>3, <2>1, <2>2, <2>3 DEF Stage2
<1>4. CASE Stage3(r)
    BY <1>1, <1>4, LoadEffect DEF Stage3, Effects
<1>5. CASE Stage5(r)
    BY <1>1, <1>5, LoadEffect DEF Stage5, Effects
<1>6. QED
    BY <1>1, <1>2, <1>3, <1>4, <1>5 DEF Step, NoStage, Stage0, Stage4, WriteRc, ReadRc

LEMMA NextEffects == KernelOK /\ [Next]_vars => Effects
<1> SUFFICES ASSUME KernelOK, [Next]_vars PROVE Effects
    OBVIOUS
<1>1. CASE Binds
    BY <1>1 DEF Binds, Effects, run
<1>2. CASE UNCHANGED vars
    BY <1>2 DEF vars, kernel, Effects
<1>3. QED
    BY <1>1, <1>2, StepEffects DEF Next

LEMMA EffectsKernelOK == KernelOK /\ Effects => KernelOK'
BY ZenonT(30) DEF KernelOK, Effects
-----------------------------------------------------------------------------
(* Streams before DMA.                                                     *)

LEMMA EffectsMatched == Effects /\ Matched => Matched'
BY DEF Effects, Matched

LEMMA EffectsStreams ==
    Effects /\ KernelOK /\ LoadsMatched /\ StreamsBeforeDma => StreamsBeforeDma'
<1> SUFFICES ASSUME Effects, KernelOK, LoadsMatched, StreamsBeforeDma,
                    loaded' \cap {"gpi", "spi-geni-qcom"} # {} \/ bound' \cap {"spi", "ts"} # {}
             PROVE  Matched'
    BY DEF StreamsBeforeDma, Matched
<1>1. CASE loaded \cap {"gpi", "spi-geni-qcom"} # {} \/ bound \cap {"spi", "ts"} # {}
    BY <1>1, EffectsMatched DEF StreamsBeforeDma, Matched
<1>2. CASE loaded \cap {"gpi", "spi-geni-qcom"} = {} /\ bound \cap {"spi", "ts"} = {}
    <2>1. bound' \cap {"spi", "ts"} = {}
        BY <1>2 DEF Effects
    <2>2. \E r \in Runs : stage[r] = 2 /\ pc[r] \in {"load", "loadSpi"}
        BY <1>2, <2>1 DEF Effects
    <2>3. Matched
        BY <2>2 DEF LoadsMatched
    <2>4. QED
        BY <2>3, EffectsMatched
<1>3. QED
    BY <1>1, <1>2

\* Only stage 2 brings a run to the modprobes of stage 2: from its start with
\* the TLMM bound, by adding the matches, or from the first modprobe.
LEMMA StepLoading ==
    ASSUME RunsOK, NEW r \in Runs, Step(r), LoadsMatched,
           stage'[r] = 2, pc'[r] \in {"load", "loadSpi"}
    PROVE  Matched'
<1>a. /\ pc \in [Runs -> Inside \cup {"stage", "over", "read", "gone"}]
      /\ stage \in [Runs -> 0 .. 5]
    BY DEF RunsOK
<1>b. ~ Pass(r) /\ ~ Fail(r) /\ ~ (\E c \in Codes : Ended(r, c))
    BY <1>a DEF Pass, Fail, Ended
<1>c. \A p : Goto(r, p) => p \in {"load", "loadSpi"} /\ stage[r] = 2
    BY <1>a DEF Goto
<1>1. CASE Stage2(r)
    <2>1. CASE Due(r, 2) /\ "tlmm" \in bound /\ RepairOrFail(r)
        BY <1>1, <1>b, <2>1 DEF Stage2, Due, At, RepairOrFail, Matched
    <2>2. CASE At(r, 2, "load") /\ LoadsMatched
        BY <1>1, <2>2 DEF Stage2, Due, At, LoadsMatched, Matched
    <2>3. CASE At(r, 2, "loadSpi") /\ Load(r, "spi-geni-qcom", "wait")
        BY <1>b, <1>c, <2>3 DEF Load
    <2>4. CASE At(r, 2, "wait") /\ (Goto(r, "check") \/ Goto(r, "rebind") \/ Fail(r))
        BY <1>b, <1>c, <2>4
    <2>5. CASE At(r, 2, "rebind") /\ Goto(r, "check")
        BY <1>c, <2>5
    <2>6. CASE At(r, 2, "check") /\ (Pass(r) \/ Fail(r))
        BY <1>b, <2>6
    <2>7. CASE Due(r, 2) /\ Fail(r)
        BY <1>b, <2>7
    <2>8. QED
        BY <1>1, <2>1, <2>2, <2>3, <2>4, <2>5, <2>6, <2>7 DEF Stage2
<1>2. CASE NoStage(r) \/ WriteRc(r) \/ ReadRc(r)
    BY <1>2, <1>a, <1>b DEF NoStage, WriteRc, ReadRc, Codes
<1>3. CASE Stage0(r) \/ Stage1(r)
    BY <1>3, <1>b, <1>c DEF Stage0, Stage1, Load
<1>4. CASE Stage3(r)
    BY <1>4, <1>b, <1>c DEF Stage3, Load, Found
<1>5. CASE Stage4(r)
    BY <1>5, <1>b, <1>c DEF Stage4
<1>6. CASE Stage5(r)
    <2>1. Pass(r) \/ Fail(r) \/ Goto(r, "start") \/ Goto(r, "spawn") \/ Goto(r, "listed")
        BY <1>6 DEF Stage5, Load
    <2>2. QED
        BY <1>b, <1>c, <2>1
<1>7. QED
    BY <1>1, <1>2, <1>3, <1>4, <1>5, <1>6 DEF Step

\* A step of one run leaves the others where they are.
LEMMA OthersStay ==
    ASSUME RunsOK, NEW r \in Runs, Step(r), NEW q \in Runs, q # r
    PROVE  stage'[q] = stage[q] /\ pc'[q] = pc[q]
<1>a. /\ pc \in [Runs -> Inside \cup {"stage", "over", "read", "gone"}]
      /\ stage \in [Runs -> 0 .. 5]
    BY DEF RunsOK
<1>b. Pass(r) \/ Fail(r) \/ (\E c : Ended(r, c)) \/ (\E p : Goto(r, p))
      => stage'[q] = stage[q] /\ pc'[q] = pc[q]
    BY <1>a DEF Pass, Fail, Ended, Goto
<1>1. CASE NoStage(r) \/ Stage0(r) \/ Stage1(r)
    BY <1>1, <1>b DEF NoStage, Stage0, Stage1, Load
<1>2. CASE Stage2(r)
    BY <1>2, <1>b DEF Stage2, Load, RepairOrFail
<1>3. CASE Stage3(r)
    BY <1>3, <1>b DEF Stage3, Load, Found
<1>4. CASE Stage4(r) \/ Stage5(r)
    BY <1>4, <1>b DEF Stage4, Stage5, Load
<1>5. CASE WriteRc(r) \/ ReadRc(r)
    BY <1>5, <1>a DEF WriteRc, ReadRc
<1>6. QED
    BY <1>1, <1>2, <1>3, <1>4, <1>5 DEF Step

LEMMA NextLoadsMatched ==
    RunsOK /\ KernelOK /\ LoadsMatched /\ [Next]_vars => LoadsMatched'
<1> SUFFICES ASSUME RunsOK, KernelOK, LoadsMatched, [Next]_vars,
                    NEW q \in Runs, stage'[q] = 2, pc'[q] \in {"load", "loadSpi"}
             PROVE  Matched'
    BY DEF LoadsMatched
<1>1. CASE stage'[q] = stage[q] /\ pc'[q] = pc[q]
    BY <1>1, NextEffects, EffectsMatched DEF LoadsMatched
<1>2. CASE Step(q)
    BY <1>2, StepLoading
<1>3. QED
    BY <1>1, <1>2, OthersStay DEF Next, Binds, vars, run
-----------------------------------------------------------------------------
(* The theorems.                                                           *)

LEMMA InitIInv == Init => IInv
<1>1. Init => KernelOK /\ LoadsMatched /\ StreamsBeforeDma
    BY DEF Init, KernelOK, LoadsMatched, StreamsBeforeDma
<1>2. QED
    BY <1>1, InitRunsOK DEF IInv

LEMMA NextIInv == IInv /\ [Next]_vars => IInv'
BY NextRunsOK, NextEffects, EffectsKernelOK, EffectsStreams, NextLoadsMatched DEF IInv

LEMMA Invariant == Spec => []IInv
BY InitIInv, NextIInv, PTL DEF Spec

\* Every variable has its type: no run goes past stage 5, and the code it ends
\* with is 0 or names the stage that failed.
THEOREM TypeCorrect == Spec => []TypeOK
<1>1. IInv => TypeOK
    BY Typing DEF IInv
<1>2. QED
    BY <1>1, Invariant, PTL

\* However many runs there are, whatever stages they are asked for and in whatever
\* order they meet each other and the kernel, no DMA master is loaded and no SPI
\* or touch device bound before the streams are matched and the TLMM is bound.
THEOREM StreamsSafe == Spec => []StreamsBeforeDma
<1>1. IInv => StreamsBeforeDma
    BY DEF IInv
<1>2. QED
    BY <1>1, Invariant, PTL
-----------------------------------------------------------------------------
(* PID 1.                                                                  *)

\* A round is begun only while some are left (line 71).
Painting == beacon \in {"white", "black"} => rounds < Rounds

Pid1Inv == Pid1!TypeOK /\ Painting

LEMMA Pid1Init == Pid1!Init => Pid1Inv
<1> SUFFICES ASSUME Pid1!Init PROVE Pid1Inv
    OBVIOUS
<1>1. /\ w \in 0 .. (UdcLimit + 1) /\ rounds \in 0 .. Rounds /\ n \in Nat
      /\ diags \in 0 .. MaxDiags /\ holds \in 0 .. MaxHolds
    BY Pid1Assumption DEF Pid1!Init, Pid1!TestImageAssumption
<1>2. btOk \in BOOLEAN /\ udc \in BOOLEAN /\ wiphy \in BOOLEAN /\ ~ btOk
    BY DEF Pid1!Init
<1> QED BY <1>1, <1>2 DEF Pid1!Init, Pid1Inv, Pid1!TypeOK, Painting

LEMMA DiagCounts ==
    ASSUME Pid1Inv, Pid1!Diag
    PROVE  diags' \in 0 .. MaxDiags
BY Pid1Assumption DEF Pid1!Diag, Pid1Inv, Pid1!TypeOK, Pid1!TestImageAssumption

LEMMA MainSteps ==
    ASSUME Pid1Inv, Pid1!Main
    PROVE  Pid1Inv'
<1> USE Pid1Assumption DEF Pid1Inv, Pid1!TypeOK, Painting, Pid1!TestImageAssumption,
        Pid1!script, Pid1!paint, Pid1!wlanbt, Pid1!print, Pid1!kernel, Pid1!human
<1>1. CASE Pid1!StreamMatches
    BY <1>1 DEF Pid1!StreamMatches
<1>2. CASE Pid1!UdcPoll
    BY <1>2 DEF Pid1!UdcPoll
<1>3. CASE Pid1!NoUdc
    BY <1>3 DEF Pid1!NoUdc
<1>4. CASE Pid1!Gadget
    BY <1>4, DiagCounts DEF Pid1!Gadget
<1>5. CASE Pid1!Network
    BY <1>5 DEF Pid1!Network
<1> QED BY <1>1, <1>2, <1>3, <1>4, <1>5 DEF Pid1!Main

LEMMA LadderSteps ==
    ASSUME Pid1Inv, Pid1!Ladder
    PROVE  Pid1Inv'
<1> USE Pid1Assumption DEF Pid1Inv, Pid1!TypeOK, Painting, Pid1!TestImageAssumption,
        Pid1!script, Pid1!paint, Pid1!wlanbt, Pid1!print, Pid1!kernel, Pid1!human,
        Pid1!Climb
<1>1. CASE Pid1!BtModules
    BY <1>1 DEF Pid1!BtModules, Pid1!Modprobe
<1>2. CASE Pid1!BtAwaitSetup
    BY <1>2 DEF Pid1!BtAwaitSetup
<1>3. CASE Pid1!BtAwaitResult
    <2>1. CASE UNCHANGED <<ladder, btOk>> /\ n' = n + 1
        BY <1>3, <2>1 DEF Pid1!BtAwaitResult
    <2>2. CASE btOk' = (Pid1!BtVerdict /\ n < ResultLimit) /\ ladder' = "hold" /\ n' = 0
        <3>1. btOk' \in BOOLEAN /\ (btOk' => hci = "completed")
            BY <2>2 DEF Pid1!BtVerdict
        <3> QED BY <1>3, <2>2, <3>1 DEF Pid1!BtAwaitResult
    <2> QED BY <1>3, <2>1, <2>2 DEF Pid1!BtAwaitResult
<1>4. CASE Pid1!WlanHold
    BY <1>4 DEF Pid1!WlanHold
<1>5. CASE Pid1!PciePhy
    BY <1>5 DEF Pid1!PciePhy, Pid1!Modprobe
<1>6. CASE Pid1!WlanModules
    BY <1>6 DEF Pid1!WlanModules, Pid1!Modprobe
<1>7. CASE Pid1!WlanAwait
    BY <1>7 DEF Pid1!WlanAwait
<1> QED BY <1>1, <1>2, <1>3, <1>4, <1>5, <1>6, <1>7 DEF Pid1!Ladder

LEMMA BesideSteps ==
    ASSUME Pid1Inv, \/ Pid1!DiagLoop \/ Pid1!Beacon \/ Pid1!UdcAppears
                    \/ Pid1!BtSetup \/ Pid1!WiphyAppears \/ Pid1!Operator
    PROVE  Pid1Inv'
<1> USE Pid1Assumption DEF Pid1Inv, Pid1!TypeOK, Painting, Pid1!TestImageAssumption,
        Pid1!script, Pid1!paint, Pid1!wlanbt, Pid1!print, Pid1!kernel, Pid1!human
<1>1. CASE Pid1!DiagLoop
    BY <1>1, DiagCounts DEF Pid1!DiagLoop
<1>2. CASE Pid1!Beacon
    BY <1>2 DEF Pid1!Beacon, Pid1!Again
<1>3. CASE Pid1!UdcAppears
    BY <1>3 DEF Pid1!UdcAppears
<1>4. CASE Pid1!BtSetup
    BY <1>4 DEF Pid1!BtSetup
<1>5. CASE Pid1!WiphyAppears
    BY <1>5 DEF Pid1!WiphyAppears
<1>6. CASE Pid1!Operator
    <2>1. files' \subseteq {"stop-beacon", "stop-diag", "wlan-hold"}
        BY <1>6 DEF Pid1!Operator
    <2>2. holds' \in 0 .. MaxHolds
        BY <1>6 DEF Pid1!Operator
    <2> QED BY <1>6, <2>1, <2>2 DEF Pid1!Operator
<1> QED BY <1>1, <1>2, <1>3, <1>4, <1>5, <1>6
-----------------------------------------------------------------------------
(* Both.                                                                   *)

BothInv == IInv /\ Pid1Inv

LEMMA BothInit == MCInit => BothInv
BY InitIInv, Pid1Init DEF MCInit, BothInv

LEMMA StillIInv == ASSUME IInv, UNCHANGED vars PROVE IInv'
BY NextIInv

LEMMA StillPid1 == ASSUME Pid1Inv, UNCHANGED pid1 PROVE Pid1Inv'
BY DEF pid1, Pid1Inv, Pid1!TypeOK, Painting

LEMMA BothNext == BothInv /\ [MCNext]_allVars => BothInv'
<1> SUFFICES ASSUME BothInv, [MCNext]_allVars PROVE BothInv'
    OBVIOUS
<1>1. CASE Pid1Step(Pid1!Next)
    <2>1. IInv'
        BY <1>1, StillIInv DEF Pid1Step, BothInv
    <2>2. Pid1Inv'
        BY <1>1, MainSteps, LadderSteps, BesideSteps DEF Pid1Step, Pid1!Next, BothInv
    <2> QED BY <2>1, <2>2 DEF BothInv
<1>2. CASE program = "touch-test" /\ Next /\ UNCHANGED <<program, pid1>>
    <2>1. Pid1Inv'
        BY <1>2, StillPid1 DEF BothInv
    <2> QED BY <1>2, <2>1, NextIInv DEF BothInv
<1>3. CASE UNCHANGED allVars
    BY <1>3, StillIInv, StillPid1 DEF allVars, BothInv
<1> QED BY <1>1, <1>2, <1>3 DEF MCNext

LEMMA BothInvariant == MCSpec => []BothInv
BY BothInit, BothNext, PTL DEF MCSpec

\* In both programs loops end at their bounds and variables keep their types, and
\* "BT result: yes" (line 253 of initramfs/init) is never wrong, however the setup
\* of Bluetooth and the wait for it race.
THEOREM TypesCorrect == MCSpec => []TypesOK
<1>1. BothInv => TypesOK
    BY Typing DEF BothInv, IInv, Pid1Inv, TypesOK
<1>2. QED
    BY <1>1, BothInvariant, PTL

\* The same of StreamsBeforeDma for the programs as they are composed.
THEOREM ImageStreamsSafe == MCSpec => []StreamsBeforeDma
<1>1. BothInv => StreamsBeforeDma
    BY DEF BothInv, IInv
<1>2. QED
    BY <1>1, BothInvariant, PTL
=============================================================================
