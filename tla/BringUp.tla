------------------------------- MODULE BringUp -------------------------------
(***************************************************************************)
(* rootfs/overlay: the hardware bring-up after the hand-over to systemd.   *)
(* Nothing autoloads; ordered services run shell scripts that load drivers *)
(* one by one and wait for devices to bind, while the kernel binds devices *)
(* whenever their suppliers are there, or never.                           *)
(*                                                                         *)
(* A script is the sequence of its instructions: the state changes and the *)
(* waits of the shell code, each with what its failure does.               *)
(***************************************************************************)
EXTENDS Naturals, Sequences

CONSTANTS
    Configs  \* the boots that differ, see below

Units == {"display", "touch", "radio", "adsp", "audio", "video", "keyboard", "gdm"}

\* streams: /run/piano-smmu-ready exists; off: units not enabled, or display
\* with native-display-off; last: LAST_STAGE of display-start; slow: devices take as long
\* as a script waits at most; dsi: seconds until the DSI PLL locks; missing:
\* modules the root file system does not have for this kernel; dead: devices
\* whose drivers do not bind them.
ASSUME ConfigsAssumption ==
    \A c \in Configs :
        /\ c.streams \in BOOLEAN /\ c.slow \in BOOLEAN
        /\ c.off \subseteq Units \ {"touch", "gdm"}
        /\ c.last \in 1 .. 5 /\ c.dsi \in Nat
        /\ c.missing \subseteq STRING /\ c.dead \subseteq STRING

\* Mutant: a service without its After=.
AfterTouchFree == [display |-> {}, touch |-> {}, radio |-> {"touch"},
    adsp |-> {"display", "touch"}, audio |-> {"adsp"}, video |-> {"display"},
    keyboard |-> {"touch", "display"}, gdm |-> {"display"}]

\* After= (and display's Before=gdm): jobs that have to be over first, in
\* whatever way they ended.
After == [display  |-> {},
          touch    |-> {"display"},
          radio    |-> {"touch"},
          adsp     |-> {"display", "touch"},
          audio    |-> {"adsp"},
          video    |-> {"display"},
          keyboard |-> {"touch", "display"},
          gdm      |-> {"display"}]

\* Mutant: no time for a second DSI PLL lock.
TimeoutStartSecShort ==
    [display |-> 180, touch |-> 60, radio |-> 180, adsp |-> 120,
     audio |-> 120, video |-> 60, keyboard |-> 60, gdm |-> 90]

TimeoutStartSec == [display |-> 240, touch |-> 60, radio |-> 180, adsp |-> 120,
                    audio |-> 120, video |-> 60, keyboard |-> 60, gdm |-> 90]

-----------------------------------------------------------------------------
\* Instructions.  fail: "die" ends the script with 1, "leave" with 0, "warn"
\* goes on.
Need(what, fail)      == [op |-> "need", arg |-> what, secs |-> 0, fail |-> fail]
Load(module, fail)    == [op |-> "load", arg |-> module, secs |-> 0, fail |-> fail]
Wait(dev, secs, fail) == [op |-> "wait", arg |-> dev, secs |-> secs, fail |-> fail]
Do(what, fail)        == [op |-> "do", arg |-> what, secs |-> 0, fail |-> fail]

\* display-start --all goes through its stages, which end at StageEnd.
DisplayScript ==
    << Need("streams", "die"), Load("arm_smmu", "die"), Wait("apps_smmu", 20, "die"),
       Load("gpucc_sm8750", "die"), Wait("gpucc", 20, "die"),
       Wait("adreno_smmu", 20, "die"),
       Load("msm", "die"), Wait("gpu", 30, "die"),
       Load("pinctrl_sm8750", "die"), Load("gpi", "die"), Load("i2c_qcom_geni", "die"),
       Load("ktz8866", "die"), Wait("backlight", 20, "die"),
       Load("dispcc_sm8750", "die"), Load("panel_nt36532", "die"),
       Wait("dpu", 30, "die"), Wait("dsi", 150, "die") >>

StageEnd == << 3, 6, 8, 13, 17 >>

\* Mutant: touch-start does not look at /run/piano-smmu-ready.
TouchScriptUnguarded ==
    << Load("gpio_shared_proxy", "die"), Load("pwrseq_qcom_wcn", "die"),
       Load("pinctrl_sm8750", "die"), Load("gpi", "die"), Load("spi_geni_qcom", "die"),
       Load("nt36532e_ts", "die"), Load("uinput", "die"),
       Do("rebind", "die"), Wait("nvt", 30, "die") >>

TouchScript ==
    << Need("streams", "die"),
       Load("gpio_shared_proxy", "die"), Load("pwrseq_qcom_wcn", "die"),
       Load("pinctrl_sm8750", "die"), Load("gpi", "die"), Load("spi_geni_qcom", "die"),
       Load("nt36532e_ts", "die"), Load("uinput", "die"),
       Do("rebind", "die"), Wait("nvt", 30, "die") >>

\* wlan_clkref: a register is read and written back with its bit set.
RadioScript ==
    << Need("streams", "die"),
       Load("gpio_shared_proxy", "die"), Load("pwrseq_qcom_wcn", "die"),
       Load("pinctrl_sm8750", "die"), Load("hci_uart", "die"),
       Load("pci_pwrctrl_pwrseq", "die"), Do("wlan_clkref", "die"),
       Load("phy_qcom_qmp_pcie", "die"), Load("qrtr", "die"), Load("qrtr_mhi", "die"),
       Load("ath12k_wifi7", "die") >>

\* There is no look at the stream matches here, and none in piano-adsp.service.
AdspScript ==
    << Load("qcom_q6v5_pas", "leave"), Load("qrtr_smd", "warn"),
       Load("qcom_pd_mapper", "warn"), Wait("adsp_rproc", 20, "leave"),
       Do("start_adsp", "leave"), Wait("adsp", 15, "leave"),
       Load("pmic_glink", "warn"), Load("piano_mca", "warn") >>

AudioScript ==
    << Need("adsp", "leave"), Load("snd_soc_fs19xx", "warn"), Load("apr", "leave"),
       Load("q6apm_dai", "warn"), Load("snd_soc_sc8280xp", "warn"),
       Wait("card", 30, "leave") >>

VideoScript ==
    << Need("apps_smmu", "die"), Do("group_DMA", "die"),
       Load("videocc_sm8750", "die"), Load("qcom_iris", "die"),
       Wait("iris", 10, "die") >>

KeyboardScript ==
    << Wait("se6", 10, "die"), Load("hid_nanosic", "die"), Wait("mcu", 10, "die") >>

\* What the units run; LAST_STAGE ends display-start early.
Program == [c \in Configs |->
    [display  |-> SubSeq(DisplayScript, 1, StageEnd[c.last]),
     touch    |-> TouchScript,
     radio    |-> RadioScript,
     adsp     |-> AdspScript,
     audio    |-> AudioScript,
     video    |-> VideoScript,
     keyboard |-> KeyboardScript,
     gdm      |-> << >>]]

\* The modules, and the SMMU or DSP, without which a device cannot bind.
Supplies == [
    apps_smmu   |-> {"arm_smmu"},
    gpucc       |-> {"gpucc_sm8750"},
    adreno_smmu |-> {"gpucc_sm8750", "arm_smmu"},
    gpu         |-> {"msm", "gpucc_sm8750", "arm_smmu"},
    backlight   |-> {"pinctrl_sm8750", "gpi", "i2c_qcom_geni", "ktz8866"},
    dpu         |-> {"msm", "dispcc_sm8750", "panel_nt36532"},
    dsi         |-> {"msm", "dispcc_sm8750", "panel_nt36532"},
    nvt         |-> {"pinctrl_sm8750", "gpi", "spi_geni_qcom", "nt36532e_ts"},
    se6         |-> {"pinctrl_sm8750", "gpi", "i2c_qcom_geni"},
    mcu         |-> {"pinctrl_sm8750", "gpi", "i2c_qcom_geni", "hid_nanosic"},
    adsp_rproc  |-> {"qcom_q6v5_pas"},
    iris        |-> {"arm_smmu", "videocc_sm8750", "qcom_iris"},
    card        |-> {"adsp", "snd_soc_fs19xx", "apr", "q6apm_dai",
                     "snd_soc_sc8280xp"} ]

\* The devices whose moment matters: the panel takeover, the touch driver's
\* probe, the ADSP.  The others are bound when a script is through waiting.
Timed == {"dsi", "nvt", "adsp"}

VARIABLES
    conf,    \* the kind of boot
    pc,      \* state of each unit
    ip,      \* the instruction its script is at
    spent,   \* seconds it has waited
    settled, \* units whose start job is over
    loaded,  \* modules
    bound,   \* timed devices bound
    touchIc, \* what the touch controller would deliver once captured
    group    \* type of the codec's IOMMU group

systemd == <<pc, ip, spent, settled>>
kernel  == <<loaded, bound, touchIc, group>>
vars    == <<conf, systemd, kernel>>

Init ==
    /\ conf \in Configs
    /\ pc = [u \in Units |-> IF u \in conf.off THEN "active" ELSE "queued"]
    /\ ip = [u \in Units |-> 1]
    /\ spent = [u \in Units |-> 0]
    /\ settled = conf.off
    /\ loaded = {} /\ bound = {}
    /\ touchIc = "fresh"
    /\ group = "identity"

\* Mutant: Requires= instead of a bare After=.
StartRequires(u) ==
    /\ pc[u] = "queued" /\ \A v \in After[u] : pc[v] = "active"
    /\ pc' = [pc EXCEPT ![u] = "running"]
    /\ UNCHANGED <<conf, ip, spent, settled, kernel>>

Start(u) ==
    /\ pc[u] = "queued" /\ After[u] \subseteq settled
    /\ pc' = [pc EXCEPT ![u] = "running"]
    /\ UNCHANGED <<conf, ip, spent, settled, kernel>>

\* A script's end.  Restart=on-failure keeps only touch alive, but its job
\* counts as over after the first failure.
Over(u, state) ==
    /\ pc' = [pc EXCEPT ![u] = state]
    /\ ip' = [ip EXCEPT ![u] = 1]
    /\ spent' = [spent EXCEPT ![u] = 0]
    /\ settled' = settled \cup {u}

Failed(u) == Over(u, IF u = "touch" THEN "restart" ELSE "failed")

GoOn(u, t) ==
    /\ ip' = [ip EXCEPT ![u] = @ + 1]
    /\ spent' = [spent EXCEPT ![u] = @ + t]
    /\ UNCHANGED <<pc, settled>>

\* What the failure of instruction i, after t seconds, does.
Fail(u, i, t) ==
    \/ i.fail = "die"   /\ Failed(u)
    \/ i.fail = "leave" /\ Over(u, "active")
    \/ i.fail = "warn"  /\ GoOn(u, t)

\* Device d is bound by the end of a wait for it.
Bound(d) == IF d \in Timed THEN d \in bound
            ELSE d \notin conf.dead /\ Supplies[d] \subseteq loaded \cup bound

Current(u) == Program[conf][u][ip[u]]

AtOp(u, op) == /\ pc[u] = "running" /\ ip[u] <= Len(Program[conf][u])
               /\ Current(u).op = op

Finish(u) ==
    /\ pc[u] = "running" /\ ip[u] > Len(Program[conf][u])
    /\ Over(u, "active")
    /\ UNCHANGED <<conf, kernel>>

Holds(what) == IF what = "streams" THEN conf.streams ELSE Bound(what)

NeedThat(u) ==
    /\ AtOp(u, "need")
    /\ IF Holds(Current(u).arg) THEN GoOn(u, 0) ELSE Fail(u, Current(u), 0)
    /\ UNCHANGED <<conf, kernel>>

\* modprobe: harmless when the module is there already.
Modprobe(u) ==
    /\ AtOp(u, "load")
    /\ LET m == Current(u).arg
       IN  IF m \in conf.missing
           THEN Fail(u, Current(u), 0) /\ UNCHANGED loaded
           ELSE /\ GoOn(u, 0)
                /\ loaded' = loaded \cup {m}
    /\ UNCHANGED <<conf, bound, touchIc, group>>

\* How long a successful wait may have taken.
Took(i) == IF i.arg = "dsi" THEN conf.dsi ELSE IF conf.slow THEN i.secs ELSE 0

Late(i) == ~ Bound(i.arg) \/ Took(i) > i.secs

\* Mutant: no unit is ever killed.
InTimeAlways(u, t) == TRUE

InTime(u, t) == spent[u] + t <= TimeoutStartSec[u]

WaitBound(u) ==
    /\ AtOp(u, "wait") /\ ~ Late(Current(u)) /\ InTime(u, Took(Current(u)))
    /\ GoOn(u, Took(Current(u)))
    /\ UNCHANGED <<conf, kernel>>

WaitGivesUp(u) ==
    /\ AtOp(u, "wait") /\ Late(Current(u)) /\ InTime(u, Current(u).secs)
    /\ Fail(u, Current(u), Current(u).secs)
    /\ UNCHANGED <<conf, kernel>>

\* systemd stops a script that is still waiting at TimeoutStartSec.
Kill(u) ==
    /\ AtOp(u, "wait")
    /\ ~ InTime(u, IF Late(Current(u)) THEN Current(u).secs ELSE Took(Current(u)))
    /\ Over(u, IF u = "touch" THEN "restart" ELSE "killed")
    /\ UNCHANGED <<conf, kernel>>

\* touch-start's unbind and bind.  Each may fail under set -e: a failed unbind
\* leaves the device as it is, a failed bind leaves no spi* entry, and no later
\* run finds the device again.
Rebind(u) ==
    /\ AtOp(u, "do") /\ Current(u).arg = "rebind"
    /\ \/ "nvt" \notin bound /\ GoOn(u, 0) /\ UNCHANGED <<bound, touchIc>>
       \/ /\ "nvt" \in bound /\ GoOn(u, 3)
          /\ touchIc' = "fresh" /\ UNCHANGED bound
       \/ "nvt" \in bound /\ Fail(u, Current(u), 0) /\ UNCHANGED <<bound, touchIc>>
       \/ /\ "nvt" \in bound /\ Fail(u, Current(u), 1)
          /\ touchIc' = "lost" /\ bound' = bound \ {"nvt"}
    /\ UNCHANGED <<conf, loaded, group>>

StartAdsp(u) ==
    /\ AtOp(u, "do") /\ Current(u).arg = "start_adsp"
    /\ \/ GoOn(u, 0) /\ bound' \in {bound, bound \cup {"adsp"}}
       \/ "adsp" \notin bound /\ Fail(u, Current(u), 0) /\ UNCHANGED bound
    /\ UNCHANGED <<conf, loaded, touchIc, group>>

\* radio-start's two devmem calls; nothing else here depends on the clock.
WlanClkref(u) ==
    /\ AtOp(u, "do") /\ Current(u).arg = "wlan_clkref"
    /\ GoOn(u, 0) \/ Fail(u, Current(u), 0)
    /\ UNCHANGED <<conf, kernel>>

GroupToDma(u) ==
    /\ AtOp(u, "do") /\ Current(u).arg = "group_DMA"
    /\ \/ GoOn(u, 0) /\ group' = "DMA"
       \/ Fail(u, Current(u), 0) /\ UNCHANGED group
    /\ UNCHANGED <<conf, loaded, bound, touchIc>>

UnitStep(u) ==
    \/ Start(u) \/ Finish(u) \/ NeedThat(u) \/ Modprobe(u)
    \/ WaitBound(u) \/ WaitGivesUp(u) \/ Kill(u)
    \/ Rebind(u) \/ WlanClkref(u) \/ StartAdsp(u) \/ GroupToDma(u)

\* Restart=on-failure, and piano-touch-view failing after its start.
Restart ==
    /\ pc["touch"] = "restart"
    /\ pc' = [pc EXCEPT !["touch"] = "running"]
    /\ UNCHANGED <<conf, ip, spent, settled, kernel>>

ViewFails ==
    /\ pc["touch"] = "active"
    /\ pc' = [pc EXCEPT !["touch"] = "restart"]
    /\ UNCHANGED <<conf, ip, spent, settled, kernel>>

\* Enabling the DSI output, at any time after msm has what it needs, resets
\* the panel and with it the touch controller.
Takeover ==
    /\ "dsi" \notin bound \cup conf.dead /\ Supplies["dsi"] \subseteq loaded
    /\ bound' = bound \cup {"dsi"}
    /\ touchIc' = IF "nvt" \in bound THEN "wedged" ELSE touchIc
    /\ UNCHANGED <<conf, systemd, loaded, group>>

\* The probe of the touch driver downloads the firmware.
TouchProbe ==
    /\ "nvt" \notin bound \cup conf.dead /\ Supplies["nvt"] \subseteq loaded
    /\ touchIc # "lost"
    /\ bound' = bound \cup {"nvt"} /\ touchIc' = "fresh"
    /\ UNCHANGED <<conf, systemd, loaded, group>>

Next ==
    \/ \E u \in Units : UnitStep(u)
    \/ Restart \/ ViewFails
    \/ Takeover \/ TouchProbe

Spec == Init /\ [][Next]_vars

\* Every script is a process of its own and every wait in it is bounded.
FairSpec == Spec /\ \A u \in Units : WF_vars(UnitStep(u))
-----------------------------------------------------------------------------
Modules == {"arm_smmu", "gpucc_sm8750", "msm", "pinctrl_sm8750", "gpi",
            "i2c_qcom_geni", "ktz8866", "dispcc_sm8750", "panel_nt36532",
            "gpio_shared_proxy", "pwrseq_qcom_wcn", "spi_geni_qcom", "nt36532e_ts",
            "uinput", "hci_uart", "pci_pwrctrl_pwrseq", "phy_qcom_qmp_pcie", "qrtr",
            "qrtr_mhi", "ath12k_wifi7", "qcom_q6v5_pas", "qrtr_smd", "qcom_pd_mapper",
            "pmic_glink", "piano_mca", "snd_soc_fs19xx", "apr", "q6apm_dai",
            "snd_soc_sc8280xp", "videocc_sm8750", "qcom_iris", "hid_nanosic"}

TypeOK ==
    /\ conf \in Configs
    /\ pc \in [Units -> {"queued", "running", "active", "failed", "killed",
                        "restart"}]
    /\ \A u \in Units : /\ ip[u] \in 1 .. (Len(Program[conf][u]) + 1)
                         /\ spent[u] \in 0 .. TimeoutStartSec[u]
    /\ settled \subseteq Units
    /\ loaded \subseteq Modules
    /\ bound \subseteq Timed
    /\ touchIc \in {"fresh", "wedged", "lost"}
    /\ group \in {"identity", "DMA"}

\* The drivers of the masters that the application processor programs.
HostMasters == {"gpi", "spi_geni_qcom", "msm", "ath12k_wifi7", "qcom_iris"}

\* Without the stream matches of the initramfs no unit loads one of them, not even
\* through what another unit loaded (display-start:64, touch-start:3, radio-start:3,
\* video-start:34), and the codec is only ever probed in a translated domain
\* (video-start:5-9).
HostMastersNeedStreams ==
    /\ ~ conf.streams => loaded \cap HostMasters = {}
    /\ "qcom_iris" \in loaded => group = "DMA"

\* The ADSP is a master too, but adsp-start asks for no stream matches: without
\* them "only audio and sensors would fault" (rootfs-init:62).  What it does need is
\* its turn, after the panel has changed hands or display has given up, and after
\* touch (adsp-start:4-6, piano-adsp.service:3).
AdspHasItsTurn ==
    "qcom_q6v5_pas" \in loaded \/ "adsp" \in bound => {"display", "touch"} \subseteq settled

\* No master is started too early: those of the application processor not without
\* their streams, the ADSP not before its turn.
MastersInOrder == HostMastersNeedStreams /\ AdspHasItsTurn

\* Where the native display came up, a running touch service captures from a
\* controller that was set up after the panel takeover (touch-start:19-23).
TouchSurvivesTakeover ==
    pc["display"] = "active" /\ pc["touch"] = "active" /\ "nvt" \in bound =>
        touchIc = "fresh"

\* No unit is killed while it waits as long as its script allows, but for a
\* DSI output that does not come up in the 80 s display-start was sized for
\* (lines 95-99).
KilledOnlyByDsi ==
    [][\A u \in Units : pc[u] # "killed" /\ pc'[u] = "killed" =>
          u = "display" /\ (conf.dsi > 80 \/ "dsi" \notin bound)]_vars

DisplayShort(n) ==
    "display" \in conf.off \/ conf.last < n \/ pc["display"] \in {"failed", "killed"}

FailsAtFirst(u) == pc[u] = "running" /\ ip[u] = 1 /\ pc'[u] = "failed"

\* keyboard and video give up on what display was to provide only when
\* display did not get that far, never for being early.
SuppliersRanFirst ==
    [][/\ FailsAtFirst("keyboard") =>
              DisplayShort(4) \/ Supplies["se6"] \subseteq loaded
       /\ FailsAtFirst("video") => DisplayShort(1)]_vars

\* No unit is lost to the order or the time-outs of the units alone.
LostForCause == KilledOnlyByDsi /\ SuppliersRanFirst

\* Whatever fails or hangs, the login screen is started.
LoginScreen == <>(pc["gdm"] = "active")
=============================================================================
