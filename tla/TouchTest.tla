------------------------------ MODULE TouchTest ------------------------------
(***************************************************************************)
(* initramfs/tests/piano-touch-test: the staged bring-up of the touch path *)
(* on the test image.  It is started from the menu of piano-tests, on the  *)
(* console or over SSH, so that two runs of it may meet; the kernel binds  *)
(* devices in its own time, or never.                                      *)
(***************************************************************************)
EXTENDS Integers

CONSTANTS
    Runs,  \* the runs of the script
    Args   \* their options: the first and the last stage

ASSUME TouchTestAssumption ==
    Args \subseteq [first : 0 .. 5, last : 0 .. 5]

None == -1

VARIABLES
    \* each run: its options, where it is, its stage, the code its stages ended
    \* with, the code it exits with
    args, pc, stage, code, exit,
    rcFile,   \* /run/touch-test.rc
    \* the system
    image,    \* stage 0 finds every node, firmware file and module
    streams,  \* the QUP1 streams are matched
    loaded,   \* modules
    bound,    \* devices
    mux,      \* GPIO40-43 are on qup1_se2
    irq,      \* irq_enabled: 1
    daemon    \* the piano-touch-view of stage 5 runs

run    == <<args, pc, stage, code, exit, rcFile>>
kernel == <<image, streams, loaded, bound, mux, irq, daemon>>
vars   == <<run, kernel>>

Init ==
    /\ args \in [Runs -> Args]
    /\ pc = [r \in Runs |-> "stage"]
    /\ stage = [r \in Runs |-> args[r].first]
    /\ code = [r \in Runs |-> None] /\ exit = [r \in Runs |-> None]
    /\ rcFile = None
    /\ image \in BOOLEAN /\ streams \in BOOLEAN
    /\ loaded = {} /\ bound = {} /\ mux = FALSE /\ irq = FALSE
    /\ daemon = FALSE

At(r, s, p) == stage[r] = s /\ pc[r] = p

Goto(r, p) == /\ pc' = [pc EXCEPT ![r] = p]
              /\ UNCHANGED <<args, stage, code, exit, rcFile>>

\* The stages are over, with this code.
Ended(r, c) == /\ code' = [code EXCEPT ![r] = c]
               /\ pc' = [pc EXCEPT ![r] = "over"]
               /\ UNCHANGED <<args, stage, exit, rcFile>>

Fail(r) == Ended(r, 10 + stage[r])

\* pass, and the loop of line 269.
Pass(r) ==
    IF stage[r] = args[r].last THEN Ended(r, 0)
    ELSE /\ stage' = [stage EXCEPT ![r] = @ + 1]
         /\ pc' = [pc EXCEPT ![r] = "stage"]
         /\ UNCHANGED <<args, code, exit, rcFile>>

\* A loop of no stages at all: --stage N --upto M with M < N.
NoStage(r) ==
    /\ pc[r] = "stage" /\ stage[r] > args[r].last /\ Ended(r, 0)
    /\ UNCHANGED kernel

Due(r, s) == At(r, s, "stage") /\ s <= args[r].last

Stage0(r) ==
    /\ Due(r, 0)
    /\ IF image THEN Pass(r) ELSE Fail(r)
    /\ UNCHANGED kernel

\* load(): modprobe may fail, but a module that is there is not loaded again.
Load(r, m, p) ==
    \/ loaded' = loaded \cup {m} /\ Goto(r, p)
    \/ m \notin loaded /\ Fail(r) /\ UNCHANGED loaded

\* wait_for: it looks until the device is bound or the time is up.
Found(r, d, p) == IF d \in bound THEN Goto(r, p) ELSE Fail(r)

Stage1(r) ==
    \/ /\ Due(r, 1) /\ "tlmm" \notin bound
       /\ Load(r, "pinctrl-sm8750", "wait")
       /\ UNCHANGED <<image, streams, bound, mux, irq, daemon>>
    \/ /\ Due(r, 1) /\ "tlmm" \in bound /\ Pass(r)
       /\ UNCHANGED kernel
    \/ /\ At(r, 1, "wait")
       /\ IF "tlmm" \in bound THEN Pass(r) ELSE Fail(r)
       /\ UNCHANGED kernel

\* Mutant: a failed repair is a warning, as in init.
RepairOrWarn(r) ==
    \/ streams' = TRUE /\ Goto(r, "load")
    \/ Goto(r, "load") /\ UNCHANGED streams

\* Line 192: piano-qup-smmu adds the matches, or the stage ends.
RepairOrFail(r) ==
    \/ streams' = TRUE /\ Goto(r, "load")
    \/ Fail(r) /\ UNCHANGED streams

Stage2(r) ==
    \/ /\ Due(r, 2)
       /\ IF "tlmm" \in bound THEN RepairOrFail(r) ELSE Fail(r) /\ UNCHANGED streams
       /\ UNCHANGED <<image, loaded, bound, mux, irq, daemon>>
    \/ /\ \/ At(r, 2, "load") /\ Load(r, "gpi", "loadSpi")
          \/ At(r, 2, "loadSpi") /\ Load(r, "spi-geni-qcom", "wait")
       /\ UNCHANGED <<image, streams, bound, mux, irq, daemon>>
    \/ /\ At(r, 2, "wait")
       /\ IF "spi" \in bound THEN Goto(r, IF mux THEN "check" ELSE "rebind") ELSE Fail(r)
       /\ UNCHANGED kernel
    \/ /\ At(r, 2, "rebind")  \* lines 201-202: without the controller, no touch
       /\ bound' = bound \ {"spi", "ts"} /\ mux' = FALSE /\ irq' = FALSE
       /\ "ts" \in bound \/ UNCHANGED daemon  \* its device is gone
       /\ daemon' \in {daemon, FALSE}
       /\ Goto(r, "check")
       /\ UNCHANGED <<image, streams, loaded>>
    \/ /\ At(r, 2, "check")   \* lines 208-210
       /\ IF mux THEN Pass(r) ELSE Fail(r)
       /\ UNCHANGED kernel

Stage3(r) ==
    \/ /\ Due(r, 3)
       /\ IF "spi" \in bound THEN Load(r, "nt36532e_ts", "wait")
          ELSE Fail(r) /\ UNCHANGED loaded
       /\ UNCHANGED <<image, streams, bound, mux, irq, daemon>>
    \/ /\ At(r, 3, "wait")
       /\ Found(r, "ts", "irq")
       /\ UNCHANGED kernel
    \/ /\ At(r, 3, "irq")
       /\ IF irq THEN Pass(r) ELSE Fail(r)
       /\ UNCHANGED kernel

\* pidof piano-touch-view
Viewing == daemon \/ \E r \in Runs : At(r, 4, "view")

Stage4(r) ==
    \/ /\ Due(r, 4)
       /\ IF "ts" \in bound /\ ~ Viewing THEN Goto(r, "start") ELSE Fail(r)
       /\ UNCHANGED kernel
    \/ /\ At(r, 4, "start") /\ Goto(r, "view")
       /\ UNCHANGED kernel
    \/ /\ At(r, 4, "view")    \* piano-touch-view ends, with frames or without
       /\ Pass(r) \/ Fail(r)
       /\ UNCHANGED kernel

Stage5(r) ==
    \/ /\ Due(r, 5)
       /\ IF "ts" \notin bound THEN Fail(r)
          ELSE Goto(r, IF Viewing THEN "listed" ELSE "start")
       /\ UNCHANGED kernel
    \/ /\ At(r, 5, "start") /\ Load(r, "uinput", "spawn")
       /\ UNCHANGED <<image, streams, bound, mux, irq, daemon>>
    \/ /\ At(r, 5, "spawn") /\ Goto(r, "listed")
       /\ daemon' \in {daemon, TRUE}  \* it may end at once
       /\ UNCHANGED <<image, streams, loaded, bound, mux, irq>>
    \/ /\ At(r, 5, "listed")  \* lines 263-264
       /\ IF daemon THEN Pass(r) ELSE Fail(r)
       /\ UNCHANGED kernel

\* Lines 39-43: the inner script's code goes through a file.
WriteRc(r) ==
    /\ pc[r] = "over"
    /\ rcFile' = code[r] /\ pc' = [pc EXCEPT ![r] = "read"]
    /\ UNCHANGED <<args, stage, code, exit, kernel>>

ReadRc(r) ==
    /\ pc[r] = "read"
    /\ exit' = [exit EXCEPT ![r] = rcFile] /\ pc' = [pc EXCEPT ![r] = "gone"]
    /\ UNCHANGED <<args, stage, code, rcFile, kernel>>

\* Drivers bind when what they need is there; the SPI pins get their mux with
\* the controller, or not; the firmware download turns the IRQ on.
Binds ==
    /\ \/ /\ "pinctrl-sm8750" \in loaded /\ bound' = bound \cup {"tlmm"}
          /\ UNCHANGED <<mux, irq>>
       \/ /\ {"gpi", "spi-geni-qcom"} \subseteq loaded /\ "spi" \notin bound
          /\ bound' = bound \cup {"spi"} /\ mux' \in BOOLEAN /\ UNCHANGED irq
       \/ /\ "nt36532e_ts" \in loaded /\ "spi" \in bound /\ mux
          /\ bound' = bound \cup {"ts"} /\ UNCHANGED <<mux, irq>>
       \/ "ts" \in bound /\ irq' = TRUE /\ UNCHANGED <<bound, mux>>
    /\ <<bound, mux, irq>>' # <<bound, mux, irq>>
    /\ UNCHANGED <<run, image, streams, loaded, daemon>>

Step(r) == \/ NoStage(r) \/ Stage0(r) \/ Stage1(r) \/ Stage2(r) \/ Stage3(r)
           \/ Stage4(r) \/ Stage5(r) \/ WriteRc(r) \/ ReadRc(r)

Next == (\E r \in Runs : Step(r)) \/ Binds

Spec == Init /\ [][Next]_vars

-----------------------------------------------------------------------------
(* Properties *)

\* Every variable has its type; a run fails at a stage it was asked for.
TypeOK ==
    /\ args \in [Runs -> Args] /\ stage \in [Runs -> 0 .. 5]
    /\ pc \in [Runs -> {"stage", "load", "loadSpi", "wait", "rebind", "check", "irq",
                        "start", "view", "spawn", "listed", "over", "read", "gone"}]
    /\ code \in [Runs -> {None, 0} \cup 10 .. 15]
    /\ exit \in [Runs -> {None, 0} \cup 10 .. 15]
    /\ rcFile \in {None, 0} \cup 10 .. 15
    /\ {image, streams, mux, irq, daemon} \subseteq BOOLEAN
    /\ loaded \subseteq {"pinctrl-sm8750", "gpi", "spi-geni-qcom", "nt36532e_ts", "uinput"}
    /\ bound \subseteq {"tlmm", "spi", "ts"}

\* Lines 11-13: without the stream matches the first SPI DMA resets the SoC.
\* Whatever stages two runs are asked for, in whatever order they meet, no DMA
\* master is loaded, and no SPI or touch device bound, before the streams are
\* matched and the TLMM is bound.
StreamsBeforeDma ==
    (loaded \cap {"gpi", "spi-geni-qcom"} # {} \/ bound \cap {"spi", "ts"} # {})
        => streams /\ "tlmm" \in bound
=============================================================================
