------------------------------ MODULE TestImage ------------------------------
(***************************************************************************)
(* initramfs/init (/beaconinit), PID 1 of the bring-up test image.  It     *)
(* never hands over: it paints a beacon, waits for a USB device            *)
(* controller, sets up the debug network and ends as a shell, while a      *)
(* ladder in the background brings up Bluetooth and then WLAN.             *)
(*                                                                         *)
(* Main script, beacon, ladder and diagnostics loop are processes; the     *)
(* kernel (controller, Bluetooth setup) and an operator run beside them.   *)
(***************************************************************************)
EXTENDS Naturals

CONSTANTS
    UdcLimit,    \* bound of the loop of line 92, in seconds: 20
    Rounds,      \* bound of the loop of line 71: 1
    SetupLimit,  \* seconds to wait for "hci0: setting up": 30
    ResultLimit, \* seconds to wait for the end of the setup: 75
    PhyLimit,    \* seconds to wait for a wiphy: 30
    MaxHolds,    \* bound: times the operator touches /run/wlan-hold
    MaxDiags     \* bound: counted prints of the diagnostics

TestImageAssumption ==
    /\ UdcLimit \in Nat /\ Rounds \in Nat /\ SetupLimit \in Nat
    /\ ResultLimit \in Nat /\ PhyLimit \in Nat /\ MaxHolds \in Nat
    /\ MaxDiags \in Nat

VARIABLES
    main, w,      \* the main script; seconds waited for a UDC
    beacon, r,    \* the beacon; rounds painted
    ladder, n,    \* the ladder; seconds waited in its current loop
    btOk,         \* bt_ok
    diags,        \* times diag() ran (up to MaxDiags)
    diagLoop,     \* diag_loop: "off", "on", "over"
    loaded,       \* groups of modules loaded, see Modprobe
    files,        \* /run/stop-beacon, /run/stop-diag, /run/wlan-hold
    udc,          \* a UDC is registered
    hci,          \* Bluetooth setup: "none", "running", "completed", "failed"
    wiphy,        \* ath12k registered one
    holds         \* times wlan-hold was touched

script == <<main, w>>
paint  == <<beacon, r>>
wlanbt == <<ladder, n, btOk, loaded>>
print  == <<diags, diagLoop>>
kernel == <<udc, hci, wiphy>>
human  == <<files, holds>>
vars   == <<script, paint, wlanbt, print, kernel, human>>

Init ==
    /\ main = "smmu" /\ w = 0
    /\ beacon = "off" /\ r = 0
    /\ ladder = "off" /\ n = 0 /\ btOk = FALSE /\ loaded = {}
    /\ diags = 0 /\ diagLoop = "off"
    /\ files = {} /\ holds = 0
    /\ udc = FALSE /\ hci = "none" /\ wiphy = FALSE

Diag == diags' = IF diags < MaxDiags THEN diags + 1 ELSE diags
-----------------------------------------------------------------------------
(* The main script.                                                        *)

\* Lines 51-86: a failed repair of the stream matches is a warning that nothing
\* looks at; the beacon goes to the background.
StreamMatches ==
    /\ main = "smmu" /\ main' = "udc"
    /\ beacon' \in {"check", "done"}  \* "done": neither /dev/fb0 nor /dev/mem
    /\ UNCHANGED <<w, r, wlanbt, print, kernel, human>>

\* Mutant: w is not counted up.
UdcPollForEver ==
    /\ main = "udc" /\ udc /\ main' = "gadget"
    /\ UNCHANGED <<w, paint, wlanbt, print, kernel, human>>

\* Lines 92-97.
UdcPoll ==
    /\ main = "udc" /\ w < UdcLimit
    /\ IF udc THEN main' = "gadget" /\ UNCHANGED w
       ELSE w' = w + 2 /\ UNCHANGED main
    /\ UNCHANGED <<paint, wlanbt, print, kernel, human>>

\* Lines 124-128.
NoUdc ==
    /\ main = "udc" /\ w >= UdcLimit
    /\ main' = "shell" /\ diagLoop' = "on"
    /\ UNCHANGED <<w, paint, wlanbt, diags, kernel, human>>

\* Lines 131-156: no configfs, or the gadget does not bind.
Gadget ==
    /\ main = "gadget"
    /\ \/ main' = "network" /\ UNCHANGED print
       \/ main' = "shell" /\ Diag /\ UNCHANGED diagLoop
    /\ UNCHANGED <<w, paint, wlanbt, kernel, human>>

\* Lines 158-334: every failure is a warning, and one of SSH and telnet is
\* there; the ladder goes to the background.
Network ==
    /\ main = "network" /\ main' = "shell"
    /\ ladder' = "bt"
    /\ UNCHANGED <<w, paint, n, btOk, loaded, print, kernel, human>>

Main == StreamMatches \/ UdcPoll \/ NoUdc \/ Gadget \/ Network

\* Lines 116-122.
DiagLoop ==
    /\ diagLoop = "on"
    /\ IF "stop-diag" \in files THEN diagLoop' = "over" /\ UNCHANGED diags
       ELSE Diag /\ UNCHANGED diagLoop
    /\ UNCHANGED <<script, paint, wlanbt, kernel, human>>

\* The condition of line 71.
Again == r < Rounds

\* Lines 61-86: a round is a white and a black fill.
Beacon ==
    /\ \/ /\ beacon = "check"
          /\ beacon' = IF Again /\ "stop-beacon" \notin files THEN "white" ELSE "done"
          /\ UNCHANGED r
       \/ beacon = "white" /\ beacon' = "black" /\ UNCHANGED r
       \/ beacon = "black" /\ beacon' = "check" /\ r' = r + 1
    /\ UNCHANGED <<script, wlanbt, print, kernel, human>>
-----------------------------------------------------------------------------
(* The ladder.                                                             *)

\* The next step of the ladder; its waits start at 0.
Climb(from, to) == ladder = from /\ ladder' = to /\ n' = 0

\* The modprobes of a stage.  Any may fail, and only the log says so; a group
\* of which one module is missing does nothing and is not counted as loaded.
Modprobe(group) == loaded' \in {loaded, loaded \cup {group}}

\* Lines 225-242.
BtModules ==
    /\ Climb("bt", "bt-wait")
    /\ Modprobe("hci_uart")
    /\ UNCHANGED <<script, paint, btOk, print, kernel, human>>

\* Lines 244-245.
BtAwaitSetup ==
    /\ ladder = "bt-wait"
    /\ IF hci = "none" /\ n < SetupLimit
       THEN n' = n + 1 /\ UNCHANGED ladder
       ELSE Climb("bt-wait", "bt-result")
    /\ UNCHANGED <<script, paint, btOk, loaded, print, kernel, human>>

\* Mutant: the second loop has no bound.
BtAwaitResultForEver ==
    /\ ladder = "bt-result" /\ hci \in {"completed", "failed"}
    /\ btOk' = (hci = "completed") /\ Climb("bt-result", "hold")
    /\ UNCHANGED <<script, paint, loaded, print, kernel, human>>

\* Mutant: a setup that has not failed counts as a success.
BtVerdictNotFailed == hci # "failed"

\* What makes the second loop end with bt_ok=yes (line 248).
BtVerdict == hci = "completed"

\* Lines 246-251.
BtAwaitResult ==
    /\ ladder = "bt-result"
    /\ IF ~ BtVerdict /\ hci # "failed" /\ n < ResultLimit
       THEN n' = n + 1 /\ UNCHANGED <<ladder, btOk>>
       ELSE /\ btOk' = (BtVerdict /\ n < ResultLimit)
            /\ Climb("bt-result", "hold")
    /\ UNCHANGED <<script, paint, loaded, print, kernel, human>>

\* Line 271 (after the scan and the idle probes, which change nothing here).
WlanHold ==
    /\ "wlan-hold" \notin files /\ Climb("hold", "pcie")
    /\ UNCHANGED <<script, paint, btOk, loaded, print, kernel, human>>

\* Lines 273-295.
PciePhy ==
    /\ Climb("pcie", "ath12k")
    /\ Modprobe("phy_qcom_qmp_pcie")
    /\ UNCHANGED <<script, paint, btOk, print, kernel, human>>

\* Lines 297-302.
WlanModules ==
    /\ Climb("ath12k", "wlan-wait")
    /\ Modprobe("qrtr")
    /\ UNCHANGED <<script, paint, btOk, print, kernel, human>>

\* Lines 303-320.
WlanAwait ==
    /\ ladder = "wlan-wait"
    /\ IF ~ wiphy /\ n < PhyLimit THEN n' = n + 1 /\ UNCHANGED ladder
       ELSE Climb("wlan-wait", "complete")
    /\ UNCHANGED <<script, paint, btOk, loaded, print, kernel, human>>

Ladder == BtModules \/ BtAwaitSetup \/ BtAwaitResult \/ WlanHold
          \/ PciePhy \/ WlanModules \/ WlanAwait
-----------------------------------------------------------------------------
(* The kernel and the operator.                                            *)

\* dwc3 probes, or never does.
UdcAppears ==
    /\ ~ udc /\ udc' = TRUE
    /\ UNCHANGED <<script, paint, wlanbt, print, hci, wiphy, human>>

\* hci_qca: registered and set up some time after its modules are loaded; with
\* piano_retries=0 a failure is final.
BtSetup ==
    /\ \/ hci = "none" /\ "hci_uart" \in loaded /\ hci' = "running"
       \/ hci = "running" /\ hci' \in {"completed", "failed"}
    /\ UNCHANGED <<script, paint, wlanbt, print, udc, wiphy, human>>

WiphyAppears ==
    /\ ~ wiphy /\ {"phy_qcom_qmp_pcie", "qrtr"} \subseteq loaded
    /\ wiphy' = TRUE
    /\ UNCHANGED <<script, paint, wlanbt, print, udc, hci, human>>

\* Somebody at the shell, or over the network once it is up.
Operator ==
    /\ main = "shell"
    /\ \/ \E f \in {"stop-beacon", "stop-diag"} \ files :
             files' = files \cup {f} /\ UNCHANGED holds
       \/ /\ "wlan-hold" \notin files /\ holds < MaxHolds
          /\ files' = files \cup {"wlan-hold"} /\ holds' = holds + 1
       \/ "wlan-hold" \in files /\ files' = files \ {"wlan-hold"} /\ UNCHANGED holds
    /\ UNCHANGED <<script, paint, wlanbt, print, kernel>>

Next == \/ Main \/ DiagLoop \/ Beacon \/ Ladder
        \/ UdcAppears \/ BtSetup \/ WiphyAppears \/ Operator

Spec == Init /\ [][Next]_vars

\* The script's processes run; nothing else has to happen.
FairSpec == /\ Spec
            /\ WF_vars(Main) /\ WF_vars(Beacon) /\ WF_vars(Ladder)
            /\ WF_vars(DiagLoop)
-----------------------------------------------------------------------------
\* The loops end at their bounds; and the evidence line "BT result: yes" (253) is
\* never wrong, also for a setup that ends while the ladder stops waiting.
TypeOK ==
    /\ main \in {"smmu", "udc", "gadget", "network", "shell"}
    /\ w \in 0 .. (UdcLimit + 1)
    /\ beacon \in {"off", "check", "white", "black", "done"} /\ r \in 0 .. Rounds
    /\ ladder \in {"off", "bt", "bt-wait", "bt-result", "hold", "pcie", "ath12k",
                   "wlan-wait", "complete"}
    /\ n \in Nat /\ btOk \in BOOLEAN
    /\ loaded \subseteq {"hci_uart", "phy_qcom_qmp_pcie", "qrtr"}
    /\ diags \in 0 .. MaxDiags /\ diagLoop \in {"off", "on", "over"}
    /\ files \subseteq {"stop-beacon", "stop-diag", "wlan-hold"}
    /\ holds \in 0 .. MaxHolds
    /\ udc \in BOOLEAN /\ wiphy \in BOOLEAN
    /\ hci \in {"none", "running", "completed", "failed"}
    /\ btOk => hci = "completed"

\* Whatever is broken - no controller, no gadget, no stream matches - the
\* operator gets a shell.
ShellReached == <>(main = "shell")

\* The ladder gets to its end, with its last evidence, however Bluetooth and
\* WLAN fail or hang, unless the operator parks it for good.
LadderCompletes ==
    (ladder = "bt") ~> (ladder = "complete" \/ (ladder = "hold" /\ "wlan-hold" \in files))
=============================================================================
