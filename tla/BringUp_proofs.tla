---------------------------- MODULE BringUp_proofs ----------------------------
(***************************************************************************)
(* Proofs about BringUp for every boot of Configs, in every order systemd  *)
(* allows, with devices that bind early, late or never.                    *)
(*                                                                         *)
(* What the scripts say is put into a few lemmas about their instructions; *)
(* a step of a unit then either starts it, ends its script or carries one  *)
(* instruction out.                                                        *)
(***************************************************************************)
EXTENDS BringUp, SequenceTheorems, TLAPS

Script(u) == Program[conf][u]

Scripts == [touch |-> TouchScript, radio |-> RadioScript, adsp |-> AdspScript,
            audio |-> AudioScript, video |-> VideoScript, keyboard |-> KeyboardScript,
            gdm |-> << >>]

-----------------------------------------------------------------------------
(* The scripts.                                                            *)

LEMMA ScriptOf ==
    ASSUME conf \in Configs, NEW u \in Units, u # "display"
    PROVE  Script(u) = Scripts[u]
BY DEF Script, Program, Scripts, Units

\* display-start is run up to the end of LAST_STAGE.
LEMMA DisplayScriptOf ==
    ASSUME conf \in Configs
    PROVE  /\ Len(Script("display")) = StageEnd[conf.last]
           /\ StageEnd[conf.last] \in {3, 6, 8, 13, 17}
           /\ \A k \in 1 .. Len(Script("display")) : Script("display")[k] = DisplayScript[k]
<1> DEFINE n == StageEnd[conf.last]
           R == {DisplayScript[k] : k \in 1 .. n}
<1>1. n \in {3, 6, 8, 13, 17}
    BY ConfigsAssumption DEF StageEnd
<1>2. Script("display") = SubSeq(DisplayScript, 1, n)
    BY DEF Script, Program
<1> HIDE DEF n
<1>3. 1 \in Int /\ n \in Int /\ \A k \in 1 .. n : DisplayScript[k] \in R
    BY <1>1
<1> HIDE DEF R
<1>4. /\ Len(SubSeq(DisplayScript, 1, n)) = IF 1 <= n THEN n - 1 + 1 ELSE 0
      /\ \A i \in 1 .. n - 1 + 1 : SubSeq(DisplayScript, 1, n)[i] = DisplayScript[1 + i - 1]
    BY <1>3, SubSeqProperties
<1>5. Len(Script("display")) = n
    BY <1>1, <1>2, <1>4
<1>6. ASSUME NEW k \in 1 .. n PROVE Script("display")[k] = DisplayScript[k]
    <2>1. k \in 1 .. n - 1 + 1 /\ 1 + k - 1 = k
        BY <1>1
    <2>2. QED
        BY <1>2, <1>4, <2>1
<1>7. QED
    BY <1>1, <1>5, <1>6 DEF n

\* The longest a script can have waited before each of its instructions, and at
\* its end; touch-start sleeps 3 s in its rebind.
WaitedBy ==
    [display  |-> << 0, 0, 0, 20, 20, 40, 60, 60, 90, 90, 90, 90, 90, 110, 110, 110, 140, 290 >>,
     touch    |-> << 0, 0, 0, 0, 0, 0, 0, 0, 0, 3, 33 >>,
     radio    |-> << 0, 0, 0, 0, 0, 0, 0, 0, 0, 0, 0, 0 >>,
     adsp     |-> << 0, 0, 0, 0, 20, 20, 35, 35, 35 >>,
     audio    |-> << 0, 0, 0, 0, 0, 0, 30 >>,
     video    |-> << 0, 0, 0, 0, 0, 10 >>,
     keyboard |-> << 0, 10, 10, 20 >>,
     gdm      |-> << 0 >>]

\* What the proofs know of instruction i at place k of the script of u.
Shape(u, k, i) ==
    /\ i.op \in {"need", "load", "wait", "do"} /\ i.fail \in {"die", "leave", "warn"}
    /\ i.secs \in Nat
    /\ i.op # "load" => i.fail # "warn"
    /\ u = "display" => i.fail = "die" /\ i.op # "do"
    /\ i.op # "wait" => i.secs = 0

LoadShape(u, k, i) ==
    i.op = "load" =>
       /\ i.arg \in Modules
       /\ i.arg \in HostMasters =>
             u \in {"display", "touch", "radio", "video"} /\ k > 1
       /\ i.arg = "qcom_iris" => u = "video" /\ k > 2
       /\ i.arg = "arm_smmu" => u = "display" /\ k > 1
       /\ i.arg = "panel_nt36532" => u = "display" /\ k = 15
       /\ i.arg = "nt36532e_ts" => u = "touch"
       /\ i.arg = "qcom_q6v5_pas" => u = "adsp"

\* The first instructions of the scripts that load bus masters.
GuardShape(u, k, i) ==
    /\ k = 1 /\ u \in {"display", "touch", "radio"} => i = Need("streams", "die")
    /\ k = 1 /\ u = "video" => i = Need("apps_smmu", "die")
    /\ k = 2 /\ u = "video" => i = Do("group_DMA", "die")
    /\ k = 1 /\ u = "keyboard" => i = Wait("se6", 10, "die")

\* What display-start has done by the place it is at.
DisplayShape(k, i) ==
    /\ k = 3 => i = Wait("apps_smmu", 20, "die")
    /\ k = 9 => i = Load("pinctrl_sm8750", "die")
    /\ k = 10 => i = Load("gpi", "die")
    /\ k = 11 => i = Load("i2c_qcom_geni", "die")
    /\ k = 15 => i = Load("panel_nt36532", "die")
    /\ k = 17 => i = Wait("dsi", 150, "die")

DoShape(u, k, i) ==
    /\ i.op = "do" => \/ i.arg = "rebind" /\ u = "touch" /\ i.fail = "die"
                      \/ i.arg = "wlan_clkref" /\ u = "radio" /\ i.fail = "die"
                      \/ i.arg = "start_adsp" /\ u = "adsp" /\ i.fail = "leave"
                      \/ i.arg = "group_DMA" /\ u = "video" /\ i.fail = "die"
    /\ i.op = "wait" /\ i.arg = "dsi" => u = "display" /\ k = 17 /\ i.secs = 150

\* The waits add up to what WaitedBy says, and fit into the unit's time-out.
TimeShape(u, k, i) ==
    /\ WaitedBy[u][k] \in Nat /\ WaitedBy[u][k + 1] \in Nat
    /\ WaitedBy[u][k] + i.secs <= WaitedBy[u][k + 1]
    /\ i.op = "do" /\ i.arg = "rebind" => WaitedBy[u][k] + 3 <= WaitedBy[u][k + 1]
    /\ ~ (u = "display" /\ k = 17) => WaitedBy[u][k + 1] <= TimeoutStartSec[u]
    /\ u = "display" /\ k = 17 => WaitedBy[u][k] + 80 <= TimeoutStartSec[u]

AllShapes(u, k, i) ==
    /\ Shape(u, k, i) /\ LoadShape(u, k, i) /\ GuardShape(u, k, i)
    /\ u = "display" => DisplayShape(k, i)
    /\ DoShape(u, k, i) /\ TimeShape(u, k, i)

LEMMA DisplayShapes == \A k \in 1 .. 17 : AllShapes("display", k, DisplayScript[k])
<1> USE DEF DisplayScript, Need, Load, Wait, Do
<1>1. \A k \in 1 .. 17 : Shape("display", k, DisplayScript[k])
    BY DEF Shape
<1>2. \A k \in 1 .. 17 : LoadShape("display", k, DisplayScript[k])
    BY DEF LoadShape, Modules, HostMasters
<1>3. \A k \in 1 .. 17 : GuardShape("display", k, DisplayScript[k])
    BY DEF GuardShape
<1>4. \A k \in 1 .. 17 : DisplayShape(k, DisplayScript[k])
    BY DEF DisplayShape
<1>5. \A k \in 1 .. 17 : DoShape("display", k, DisplayScript[k])
    BY DEF DoShape
<1>6. \A k \in 1 .. 17 : TimeShape("display", k, DisplayScript[k])
    BY DEF TimeShape, WaitedBy, TimeoutStartSec
<1>7. QED
    BY <1>1, <1>2, <1>3, <1>4, <1>5, <1>6 DEF AllShapes

LEMMA OtherShapes ==
    /\ \A k \in 1 .. 10 : AllShapes("touch", k, TouchScript[k])
    /\ \A k \in 1 .. 11 : AllShapes("radio", k, RadioScript[k])
    /\ \A k \in 1 .. 8 : AllShapes("adsp", k, AdspScript[k])
    /\ \A k \in 1 .. 6 : AllShapes("audio", k, AudioScript[k])
    /\ \A k \in 1 .. 5 : AllShapes("video", k, VideoScript[k])
    /\ \A k \in 1 .. 3 : AllShapes("keyboard", k, KeyboardScript[k])
<1> USE DEF Need, Load, Wait, Do, AllShapes, Shape, LoadShape, Modules, HostMasters, GuardShape,
            DoShape, TimeShape, WaitedBy, TimeoutStartSec
<1>1. \A k \in 1 .. 10 : AllShapes("touch", k, TouchScript[k])
    BY DEF TouchScript
<1>2. \A k \in 1 .. 11 : AllShapes("radio", k, RadioScript[k])
    BY DEF RadioScript
<1>3. \A k \in 1 .. 8 : AllShapes("adsp", k, AdspScript[k])
    BY DEF AdspScript
<1>4. \A k \in 1 .. 6 : AllShapes("audio", k, AudioScript[k])
    BY DEF AudioScript
<1>5. \A k \in 1 .. 5 : AllShapes("video", k, VideoScript[k])
    BY DEF VideoScript
<1>6. \A k \in 1 .. 3 : AllShapes("keyboard", k, KeyboardScript[k])
    BY DEF KeyboardScript
<1> HIDE DEF AllShapes
<1>7. QED
    BY <1>1, <1>2, <1>3, <1>4, <1>5, <1>6

\* Every instruction of every script is what the shapes say.
LEMMA ScriptFacts ==
    ASSUME conf \in Configs, NEW u \in Units
    PROVE  /\ Len(Script(u)) \in Nat
           /\ \A k \in 1 .. Len(Script(u)) : AllShapes(u, k, Script(u)[k])
           /\ Len(Script("display")) \in {3, 6, 8, 13, 17}
           /\ Len(Script("display")) = StageEnd[conf.last]
<1>1. CASE u = "display"
    <2>1. \A k \in 1 .. Len(Script("display")) : k \in 1 .. 17
        BY DisplayScriptOf
    <2>2. ASSUME NEW k \in 1 .. Len(Script("display"))
          PROVE  AllShapes("display", k, Script("display")[k])
        <3>1. Script("display")[k] = DisplayScript[k]
            BY DisplayScriptOf
        <3>2. AllShapes("display", k, DisplayScript[k])
            BY <2>1, DisplayShapes
        <3>3. QED
            BY <3>1, <3>2
    <2>3. Len(Script("display")) \in Nat
        BY DisplayScriptOf
    <2>4. QED
        BY <1>1, <2>2, <2>3, DisplayScriptOf
<1>2. CASE u # "display"
    <2>1. Script(u) = Scripts[u]
        BY <1>2, ScriptOf
    <2>2. /\ Len(Scripts["touch"]) = 10 /\ Len(Scripts["radio"]) = 11
          /\ Len(Scripts["adsp"]) = 8 /\ Len(Scripts["audio"]) = 6
          /\ Len(Scripts["video"]) = 5 /\ Len(Scripts["keyboard"]) = 3
          /\ Len(Scripts["gdm"]) = 0
        BY DEF Scripts, TouchScript, RadioScript, AdspScript, AudioScript, VideoScript,
           KeyboardScript
    <2>3. Len(Scripts[u]) \in Nat /\ \A k \in 1 .. Len(Scripts[u]) : AllShapes(u, k, Scripts[u][k])
        <3>1. /\ Scripts["touch"] = TouchScript /\ Scripts["radio"] = RadioScript
              /\ Scripts["adsp"] = AdspScript /\ Scripts["audio"] = AudioScript
              /\ Scripts["video"] = VideoScript /\ Scripts["keyboard"] = KeyboardScript
            BY DEF Scripts
        <3>2. QED
            BY <1>2, <2>2, <3>1, OtherShapes, SMTT(30) DEF Units
    <2>4. QED
        BY <2>1, <2>3, DisplayScriptOf
<1>3. QED
    BY <1>1, <1>2

-----------------------------------------------------------------------------
(* The invariant.                                                          *)

\* What ip and spent are when no script runs; what is off stays so.
Resting ==
    /\ ip \in [Units -> Nat] /\ spent \in [Units -> Nat]
    /\ \A u \in Units : pc[u] # "running" => ip[u] = 1
    /\ \A u \in Units : pc[u] = "restart" => u = "touch"
    /\ \A u \in conf.off : pc[u] = "active"

\* Past its first instructions a script knows what they asked for.
Guarded ==
    /\ "arm_smmu" \in loaded => conf.streams
    /\ \A u \in {"display", "touch", "radio", "video"} : ip[u] > 1 => conf.streams
    /\ ip["video"] > 2 => group = "DMA"

\* display-start has carried out its instruction k.
Past(k) ==
    /\ k <= Len(Script("display"))
    /\ \/ ip["display"] > k
       \/ pc["display"] = "active" /\ "display" \notin conf.off

\* What display-start leaves behind, and that nobody else loads the panel.
DisplayLeaves ==
    /\ Past(3) => "arm_smmu" \in loaded /\ "apps_smmu" \notin conf.dead
    /\ Past(9) => "pinctrl_sm8750" \in loaded
    /\ Past(10) => "gpi" \in loaded
    /\ Past(11) => "i2c_qcom_geni" \in loaded
    /\ Past(17) => "dsi" \in bound
    /\ "panel_nt36532" \in loaded => pc["display"] \in {"failed", "killed"} \/ Past(15)

\* A unit runs after the jobs it waits for, the touch driver after display, and the
\* ADSP after both.
Ordered ==
    /\ \A u \in Units \ conf.off : pc[u] # "queued" => After[u] \subseteq settled
    /\ "display" \in settled => pc["display"] \in {"active", "failed", "killed"}
    /\ "nt36532e_ts" \in loaded => "display" \in settled
    /\ "nvt" \in bound => "nt36532e_ts" \in loaded
    /\ AdspHasItsTurn

\* The panel takeover only ever meets a touch controller that is set up after
\* display has failed.
TouchKnown ==
    /\ touchIc = "wedged" => pc["display"] \in {"failed", "killed"}
    /\ touchIc = "lost" => "nvt" \notin bound

\* No script has waited longer than its instructions make it.
WithinBudget == \A u \in Units : spent[u] <= WaitedBy[u][ip[u]]

IInv == /\ TypeOK /\ Resting /\ Guarded /\ HostMastersNeedStreams /\ DisplayLeaves
        /\ Ordered /\ TouchKnown /\ WithinBudget

LEMMA InitIInv == Init => IInv
<1> SUFFICES ASSUME Init PROVE IInv
    OBVIOUS
<1> USE DEF Init
<1>1. /\ conf.streams \in BOOLEAN /\ conf.off \subseteq Units \ {"touch", "gdm"}
      /\ conf \in Configs
    BY ConfigsAssumption
<1>2. \A u \in Units : Len(Script(u)) \in Nat
    BY <1>1, ScriptFacts
<1>3. \A u \in Units : WaitedBy[u][1] = 0 /\ TimeoutStartSec[u] \in Nat
    BY DEF WaitedBy, TimeoutStartSec, Units
<1>4. TypeOK
    BY <1>1, <1>2, <1>3 DEF TypeOK, Script
<1>5. Resting /\ Guarded /\ HostMastersNeedStreams
    BY <1>1 DEF Resting, Guarded, HostMastersNeedStreams, Units
<1>6. Ordered /\ TouchKnown
    BY <1>1 DEF Ordered, TouchKnown, Units, AdspHasItsTurn
<1>7. DisplayLeaves
    <2>1. ~ Past(3) /\ ~ Past(9) /\ ~ Past(10) /\ ~ Past(11) /\ ~ Past(17)
        BY <1>1 DEF Past, Units
    <2>2. QED
        BY <2>1 DEF DisplayLeaves
<1>8. WithinBudget
    BY <1>3 DEF WithinBudget
<1>9. QED
    BY <1>4, <1>5, <1>6, <1>7, <1>8 DEF IInv

-----------------------------------------------------------------------------
(* The steps of a unit.                                                    *)

\* The script of u ends, by itself or not.
Ends(u) ==
    /\ pc[u] = "running"
    /\ \E st \in {"active", "failed", "killed", "restart"} :
          /\ Over(u, st)
          /\ u = "display" /\ st = "active" => ip[u] > Len(Script(u))
          /\ st = "restart" => u = "touch"
          /\ st = "killed" => Kill(u)
          /\ st = "failed" => \/ NeedThat(u) /\ ~ Holds(Current(u).arg)
                              \/ AtOp(u, "load") \/ AtOp(u, "wait") \/ AtOp(u, "do")
    /\ UNCHANGED <<conf, loaded, group>>
    /\ \/ UNCHANGED <<bound, touchIc>>
       \/ u = "touch" /\ touchIc' = "lost" /\ bound' = bound \ {"nvt"}

\* An instruction that takes t seconds.
TakesTime(u, i, t) ==
    /\ t <= i.secs \/ (t = 3 /\ i.op = "do" /\ i.arg = "rebind")
    /\ spent[u] + t <= TimeoutStartSec[u] \/ i.op # "wait"

\* What instruction i does when it is carried out.
Effect(i) ==
    \/ i.op = "need" /\ Holds(i.arg) /\ UNCHANGED kernel
    \/ i.op = "wait" /\ Bound(i.arg) /\ UNCHANGED kernel
    \/ i.op = "load" /\ i.fail = "warn" /\ UNCHANGED kernel
    \/ i.op = "load" /\ loaded' = loaded \cup {i.arg} /\ UNCHANGED <<bound, touchIc, group>>
    \/ /\ i.op = "do" /\ i.arg = "rebind" /\ touchIc' \in {touchIc, "fresh"}
       /\ UNCHANGED <<loaded, bound, group>>
    \/ i.op = "do" /\ i.arg = "wlan_clkref" /\ UNCHANGED kernel
    \/ /\ i.op = "do" /\ i.arg = "start_adsp" /\ bound' \in {bound, bound \cup {"adsp"}}
       /\ UNCHANGED <<loaded, touchIc, group>>
    \/ /\ i.op = "do" /\ i.arg = "group_DMA" /\ group' = "DMA"
       /\ UNCHANGED <<loaded, bound, touchIc>>

\* u carries out its current instruction and goes on.
Advances(u) ==
    /\ pc[u] = "running" /\ ip[u] \in 1 .. Len(Script(u))
    /\ \E t \in Nat : GoOn(u, t) /\ TakesTime(u, Current(u), t)
    /\ UNCHANGED conf
    /\ Effect(Current(u))

\* What the failure of an instruction does.
LEMMA FailEnds ==
    ASSUME conf \in Configs, NEW u \in Units, ip[u] \in Nat \ {0}, NEW op, AtOp(u, op),
           op # "load", NEW t, Fail(u, Current(u), t)
    PROVE  \E st \in {"active", "failed", "restart"} :
             /\ Over(u, st)
             /\ u = "display" => st # "active"
             /\ st = "restart" => u = "touch"
<1>1. ip[u] \in 1 .. Len(Script(u)) /\ Current(u) = Script(u)[ip[u]] /\ Current(u).op = op
    BY ScriptFacts DEF AtOp, Script, Current
<1>2. Shape(u, ip[u], Current(u))
    BY <1>1, ScriptFacts DEF AllShapes
<1>3. Current(u).fail # "warn" /\ (u = "display" => Current(u).fail = "die")
    BY <1>1, <1>2 DEF Shape
<1>4. QED
    BY <1>3 DEF Fail, Failed

\* Every step of a unit starts it, ends its script or advances it.
LEMMA UnitSteps ==
    ASSUME IInv, NEW u \in Units, UnitStep(u)
    PROVE  Start(u) \/ Ends(u) \/ Advances(u)
<1>1. conf \in Configs /\ conf.dsi \in Nat /\ ip[u] \in Nat \ {0} /\ spent[u] \in Nat
    BY ConfigsAssumption DEF IInv, TypeOK, Resting
<1>2. ASSUME NEW op, AtOp(u, op)
      PROVE  /\ pc[u] = "running" /\ ip[u] \in 1 .. Len(Script(u)) /\ Current(u).op = op
             /\ Shape(u, ip[u], Current(u))
    BY <1>1, <1>2, ScriptFacts DEF AtOp, Script, Current, AllShapes
<1>3. CASE Start(u)
    BY <1>3
<1>4. CASE Finish(u)
    BY <1>4 DEF Finish, Ends, Script, kernel
<1>5. CASE NeedThat(u)
    <2>1. Current(u).secs \in Nat
        BY <1>2, <1>5 DEF NeedThat, Shape
    <2>2. CASE Holds(Current(u).arg)
        <3>a. GoOn(u, 0)
            BY <1>5, <2>2 DEF NeedThat
        <3>b. Current(u).op = "need"
            BY <1>2, <1>5 DEF NeedThat
        <3>1. TakesTime(u, Current(u), 0)
            BY <2>1, <3>b DEF TakesTime
        <3>2. Effect(Current(u)) /\ UNCHANGED conf
            BY <1>2, <1>5, <2>2 DEF NeedThat, Effect
        <3>3. QED
            BY <1>2, <1>5, <3>a, <3>1, <3>2 DEF NeedThat, Advances
    <2>3. CASE ~ Holds(Current(u).arg)
        <3>1. Fail(u, Current(u), 0) /\ AtOp(u, "need")
            BY <1>5, <2>3 DEF NeedThat
        <3>2. PICK st \in {"active", "failed", "restart"} :
                 Over(u, st) /\ (u = "display" => st # "active") /\ (st = "restart" => u = "touch")
            BY <1>1, <3>1, FailEnds
        <3>3. QED
            BY <1>2, <1>5, <2>3, <3>1, <3>2 DEF Ends, NeedThat, kernel
    <2>4. QED
        BY <2>2, <2>3
<1>6. CASE Modprobe(u)
    <2>1. AtOp(u, "load")
        BY <1>6 DEF Modprobe
    <2>2. /\ pc[u] = "running" /\ ip[u] \in 1 .. Len(Script(u)) /\ Current(u).op = "load"
          /\ Shape(u, ip[u], Current(u)) /\ Current(u).secs \in Nat
        BY <1>2, <2>1 DEF Shape
    <2>3. CASE Current(u).arg \notin conf.missing
        <3>a. GoOn(u, 0)
            BY <1>6, <2>3 DEF Modprobe
        <3>1. TakesTime(u, Current(u), 0)
            BY <2>2 DEF TakesTime
        <3>2. Effect(Current(u)) /\ UNCHANGED conf
            BY <1>6, <2>2, <2>3 DEF Modprobe, Effect
        <3>3. QED
            BY <2>2, <3>a, <3>1, <3>2 DEF Advances
    <2>4. CASE Current(u).arg \in conf.missing
        <3>1. Fail(u, Current(u), 0) /\ UNCHANGED <<conf, kernel>>
            BY <1>6, <2>4 DEF Modprobe, kernel
        <3>2. CASE Current(u).fail = "warn"
            <4>1. GoOn(u, 0)
                BY <3>1, <3>2 DEF Fail
            <4>2. TakesTime(u, Current(u), 0)
                BY <2>2 DEF TakesTime
            <4>3. Effect(Current(u))
                BY <2>2, <3>1, <3>2 DEF Effect
            <4>4. QED
                BY <2>2, <3>1, <4>1, <4>2, <4>3 DEF Advances
        <3>3. CASE Current(u).fail # "warn"
            <4>1. u = "display" => Current(u).fail = "die"
                BY <2>2 DEF Shape
            <4>2. \E st \in {"active", "failed", "restart"} :
                     Over(u, st) /\ (u = "display" => st # "active") /\ (st = "restart" => u = "touch")
                BY <3>1, <3>3, <4>1 DEF Fail, Failed
            <4>3. QED
                BY <2>1, <2>2, <3>1, <4>2 DEF Ends, kernel
        <3>4. QED
            BY <3>2, <3>3
    <2>5. QED
        BY <2>3, <2>4
<1>7. CASE WaitBound(u)
    <2>1. /\ pc[u] = "running" /\ ip[u] \in 1 .. Len(Script(u)) /\ Current(u).op = "wait"
          /\ Current(u).secs \in Nat
        BY <1>2, <1>7 DEF WaitBound, Shape
    <2>2. Took(Current(u)) \in Nat
        BY <1>1, <2>1 DEF Took
    <2>3. Bound(Current(u).arg) /\ Took(Current(u)) <= Current(u).secs
        BY <1>7, <2>1, <2>2 DEF WaitBound, Late
    <2>a. GoOn(u, Took(Current(u))) /\ spent[u] + Took(Current(u)) <= TimeoutStartSec[u]
        BY <1>7 DEF WaitBound, InTime
    <2>4. TakesTime(u, Current(u), Took(Current(u)))
        BY <2>3, <2>a DEF TakesTime
    <2>5. Effect(Current(u)) /\ UNCHANGED conf
        BY <1>7, <2>1, <2>3 DEF WaitBound, Effect
    <2>6. QED
        BY <2>1, <2>2, <2>a, <2>4, <2>5 DEF Advances
<1>8. CASE WaitGivesUp(u)
    <2>1. AtOp(u, "wait") /\ Fail(u, Current(u), Current(u).secs)
        BY <1>8 DEF WaitGivesUp
    <2>2. PICK st \in {"active", "failed", "restart"} :
             Over(u, st) /\ (u = "display" => st # "active") /\ (st = "restart" => u = "touch")
        BY <1>1, <2>1, FailEnds
    <2>3. QED
        BY <1>2, <1>8, <2>1, <2>2 DEF Ends, WaitGivesUp, kernel
<1>9. CASE Kill(u)
    BY <1>2, <1>9 DEF Kill, Ends, kernel
<1>10. CASE Rebind(u)
    <2>1. /\ AtOp(u, "do") /\ pc[u] = "running" /\ ip[u] \in 1 .. Len(Script(u))
          /\ Current(u).op = "do" /\ Current(u).arg = "rebind" /\ Current(u).secs \in Nat
        BY <1>2, <1>10 DEF Rebind, Shape
    <2>2. u = "touch"
        <3>1. DoShape(u, ip[u], Current(u))
            BY <1>1, <2>1, ScriptFacts DEF AllShapes, Script, Current
        <3>2. QED
            BY <2>1, <3>1 DEF DoShape
    <2>3. CASE GoOn(u, 0) /\ UNCHANGED <<bound, touchIc>>
        <3>1. TakesTime(u, Current(u), 0)
            BY <2>1 DEF TakesTime
        <3>2. Effect(Current(u)) /\ UNCHANGED conf
            BY <1>10, <2>1, <2>3 DEF Rebind, Effect
        <3>3. QED
            BY <2>1, <2>3, <3>1, <3>2 DEF Advances
    <2>4. CASE GoOn(u, 3) /\ touchIc' = "fresh" /\ UNCHANGED bound
        <3>1. TakesTime(u, Current(u), 3)
            BY <2>1 DEF TakesTime
        <3>2. Effect(Current(u)) /\ UNCHANGED conf
            BY <1>10, <2>1, <2>4 DEF Rebind, Effect
        <3>3. QED
            BY <2>1, <2>4, <3>1, <3>2 DEF Advances
    <2>5. CASE /\ Fail(u, Current(u), 1)
               /\ touchIc' = "lost" /\ bound' = bound \ {"nvt"}
        <3>1. PICK st \in {"active", "failed", "restart"} :
                 Over(u, st) /\ (u = "display" => st # "active") /\ (st = "restart" => u = "touch")
            BY <1>1, <2>1, <2>5, FailEnds
        <3>2. QED
            BY <1>10, <2>1, <2>2, <2>5, <3>1 DEF Rebind, Ends
    <2>6. CASE Fail(u, Current(u), 0) /\ UNCHANGED <<bound, touchIc>>
        <3>1. PICK st \in {"active", "failed", "restart"} :
                 Over(u, st) /\ (u = "display" => st # "active") /\ (st = "restart" => u = "touch")
            BY <1>1, <2>1, <2>6, FailEnds
        <3>2. QED
            BY <1>10, <2>1, <2>6, <3>1 DEF Rebind, Ends
    <2>7. QED
        BY <1>10, <2>3, <2>4, <2>5, <2>6 DEF Rebind
<1>11. CASE WlanClkref(u)
    <2>1. /\ AtOp(u, "do") /\ pc[u] = "running" /\ ip[u] \in 1 .. Len(Script(u))
          /\ Current(u).op = "do" /\ Current(u).arg = "wlan_clkref" /\ Current(u).secs \in Nat
        BY <1>2, <1>11 DEF WlanClkref, Shape
    <2>2. CASE GoOn(u, 0)
        <3>1. TakesTime(u, Current(u), 0)
            BY <2>1 DEF TakesTime
        <3>2. Effect(Current(u)) /\ UNCHANGED conf
            BY <1>11, <2>1 DEF WlanClkref, Effect
        <3>3. QED
            BY <2>1, <2>2, <3>1, <3>2 DEF Advances
    <2>3. CASE Fail(u, Current(u), 0)
        <3>1. PICK st \in {"active", "failed", "restart"} :
                 Over(u, st) /\ (u = "display" => st # "active") /\ (st = "restart" => u = "touch")
            BY <1>1, <2>1, <2>3, FailEnds
        <3>2. QED
            BY <1>11, <2>1, <3>1 DEF WlanClkref, Ends, kernel
    <2>4. QED
        BY <1>11, <2>2, <2>3 DEF WlanClkref
<1>12. CASE StartAdsp(u)
    <2>1. /\ AtOp(u, "do") /\ pc[u] = "running" /\ ip[u] \in 1 .. Len(Script(u))
          /\ Current(u).op = "do" /\ Current(u).arg = "start_adsp" /\ Current(u).secs \in Nat
        BY <1>2, <1>12 DEF StartAdsp, Shape
    <2>2. CASE GoOn(u, 0) /\ bound' \in {bound, bound \cup {"adsp"}}
        <3>1. TakesTime(u, Current(u), 0)
            BY <2>1 DEF TakesTime
        <3>2. Effect(Current(u)) /\ UNCHANGED conf
            BY <1>12, <2>1, <2>2 DEF StartAdsp, Effect
        <3>3. QED
            BY <2>1, <2>2, <3>1, <3>2 DEF Advances
    <2>3. CASE Fail(u, Current(u), 0) /\ UNCHANGED bound
        <3>1. PICK st \in {"active", "failed", "restart"} :
                 Over(u, st) /\ (u = "display" => st # "active") /\ (st = "restart" => u = "touch")
            BY <1>1, <2>1, <2>3, FailEnds
        <3>2. QED
            BY <1>12, <2>1, <2>3, <3>1 DEF StartAdsp, Ends
    <2>4. QED
        BY <1>12, <2>2, <2>3 DEF StartAdsp
<1>13. CASE GroupToDma(u)
    <2>1. /\ AtOp(u, "do") /\ pc[u] = "running" /\ ip[u] \in 1 .. Len(Script(u))
          /\ Current(u).op = "do" /\ Current(u).arg = "group_DMA" /\ Current(u).secs \in Nat
        BY <1>2, <1>13 DEF GroupToDma, Shape
    <2>2. CASE GoOn(u, 0) /\ group' = "DMA"
        <3>1. TakesTime(u, Current(u), 0)
            BY <2>1 DEF TakesTime
        <3>2. Effect(Current(u)) /\ UNCHANGED conf
            BY <1>13, <2>1, <2>2 DEF GroupToDma, Effect
        <3>3. QED
            BY <2>1, <2>2, <3>1, <3>2 DEF Advances
    <2>3. CASE Fail(u, Current(u), 0) /\ UNCHANGED group
        <3>1. PICK st \in {"active", "failed", "restart"} :
                 Over(u, st) /\ (u = "display" => st # "active") /\ (st = "restart" => u = "touch")
            BY <1>1, <2>1, <2>3, FailEnds
        <3>2. QED
            BY <1>13, <2>1, <2>3, <3>1 DEF GroupToDma, Ends
    <2>4. QED
        BY <1>13, <2>2, <2>3 DEF GroupToDma
<1>14. QED
    BY <1>3, <1>4, <1>5, <1>6, <1>7, <1>8, <1>9, <1>10, <1>11, <1>12, <1>13 DEF UnitStep

-----------------------------------------------------------------------------
(* The invariant is kept.                                                  *)

LEMMA StartIInv ==
    ASSUME IInv, NEW u \in Units, Start(u)
    PROVE  IInv'
<1>1. /\ pc[u] = "queued" /\ After[u] \subseteq settled
      /\ pc' = [pc EXCEPT ![u] = "running"] /\ UNCHANGED <<conf, ip, spent, settled, kernel>>
    BY DEF Start
<1>2. pc \in [Units -> {"queued", "running", "active", "failed", "killed", "restart"}]
    BY DEF IInv, TypeOK
<1>3. TypeOK'
    BY <1>1 DEF IInv, TypeOK, kernel
<1>4. Resting'
    BY <1>1, <1>2 DEF IInv, Resting
<1>5. Guarded' /\ HostMastersNeedStreams' /\ WithinBudget'
    BY <1>1 DEF IInv, Guarded, HostMastersNeedStreams, WithinBudget, kernel
<1>6. DisplayLeaves'
    <2>1. ASSUME NEW k \in {3, 9, 10, 11, 17}, Past(k)' PROVE Past(k)
        BY <1>1, <1>2, <2>1 DEF Past, Script
    <2>2. CASE u = "display"
        <3>1. ip["display"] = 1
            BY <1>1, <2>2 DEF IInv, Resting
        <3>2. "panel_nt36532" \notin loaded
            BY <1>1, <2>2, <3>1 DEF IInv, DisplayLeaves, Past
        <3>3. QED
            BY <1>1, <2>1, <3>2 DEF IInv, DisplayLeaves, kernel
    <2>3. CASE u # "display"
        <3>1. pc'["display"] = pc["display"]
            BY <1>1, <1>2, <2>3 DEF Units
        <3>2. Past(15)' <=> Past(15)
            BY <1>1, <3>1 DEF Past, Script
        <3>3. QED
            BY <1>1, <2>1, <3>1, <3>2 DEF IInv, DisplayLeaves, kernel
    <2>4. QED
        BY <2>2, <2>3
<1>7. Ordered' /\ TouchKnown'
    <2>1. \A v \in Units : pc'[v] = IF v = u THEN "running" ELSE pc[v]
        BY <1>1, <1>2
    <2>2. "display" \in Units /\ ("display" = u => "display" \notin settled)
        BY <1>1 DEF IInv, Ordered, Units
    <2>3. QED
        BY <1>1, <2>1, <2>2 DEF IInv, Ordered, TouchKnown, AdspHasItsTurn, kernel
<1>8. QED
    BY <1>3, <1>4, <1>5, <1>6, <1>7 DEF IInv

LEMMA EndsIInv ==
    ASSUME IInv, NEW u \in Units, Ends(u)
    PROVE  IInv'
<1>1. PICK st \in {"active", "failed", "killed", "restart"} :
        /\ Over(u, st)
        /\ u = "display" /\ st = "active" => ip[u] > Len(Script(u))
        /\ st = "restart" => u = "touch"
    BY DEF Ends
<1>2. /\ pc[u] = "running" /\ UNCHANGED <<conf, loaded, group>>
      /\ \/ UNCHANGED <<bound, touchIc>>
         \/ u = "touch" /\ touchIc' = "lost" /\ bound' = bound \ {"nvt"}
    BY DEF Ends
<1>3. /\ conf \in Configs /\ conf.off \subseteq Units \ {"touch", "gdm"}
      /\ pc \in [Units -> {"queued", "running", "active", "failed", "killed", "restart"}]
      /\ ip \in [Units -> Nat] /\ spent \in [Units -> Nat]
    BY ConfigsAssumption DEF IInv, TypeOK, Resting
<1>4. /\ pc' = [pc EXCEPT ![u] = st] /\ ip' = [ip EXCEPT ![u] = 1]
      /\ spent' = [spent EXCEPT ![u] = 0] /\ settled' = settled \cup {u}
    BY <1>1 DEF Over
<1>5. \A v \in Units : /\ pc'[v] = (IF v = u THEN st ELSE pc[v])
                       /\ ip'[v] = (IF v = u THEN 1 ELSE ip[v])
                       /\ spent'[v] = (IF v = u THEN 0 ELSE spent[v])
    BY <1>3, <1>4
<1>6. TypeOK'
    <2>1. \A v \in Units : /\ ip'[v] \in 1 .. (Len(Program[conf'][v]) + 1)
                           /\ spent'[v] \in 0 .. TimeoutStartSec[v]
        <3>1. ASSUME NEW v \in Units PROVE Len(Program[conf][v]) \in Nat /\ TimeoutStartSec[v] \in Nat
            <4>1. Len(Script(v)) \in Nat
                BY <1>3, ScriptFacts
            <4>2. QED
                BY <4>1 DEF Script, TimeoutStartSec, Units
        <3>2. QED
            BY <1>2, <1>5, <3>1 DEF IInv, TypeOK
    <2>2. pc' \in [Units -> {"queued", "running", "active", "failed", "killed", "restart"}]
        BY <1>3, <1>4
    <2>3. bound' \subseteq Timed /\ touchIc' \in {"fresh", "wedged", "lost"}
        BY <1>2 DEF IInv, TypeOK
    <2>4. QED
        BY <1>2, <1>4, <2>1, <2>2, <2>3 DEF IInv, TypeOK
<1>7. Resting'
    <2>1. ip' \in [Units -> Nat] /\ spent' \in [Units -> Nat]
        BY <1>3, <1>4
    <2>2. \A v \in conf.off : v \in Units /\ v # u
        BY <1>2, <1>3 DEF IInv, Resting
    <2>3. QED
        BY <1>1, <1>2, <1>5, <2>1, <2>2 DEF IInv, Resting
<1>8. Guarded' /\ HostMastersNeedStreams'
    BY <1>2, <1>5 DEF IInv, Guarded, HostMastersNeedStreams, Units
<1>9. DisplayLeaves'
    <2>1. CASE u # "display"
        <3>1. pc'["display"] = pc["display"] /\ ip'["display"] = ip["display"]
            BY <1>5, <2>1 DEF Units
        <3>2. \A k \in Nat : Past(k)' <=> Past(k)
            BY <1>2, <3>1 DEF Past, Script
        <3>3. "dsi" \in bound => "dsi" \in bound'
            BY <1>2
        <3>4. QED
            BY <1>2, <3>1, <3>2, <3>3 DEF IInv, DisplayLeaves
    <2>2. CASE u = "display"
        <3>1. pc'["display"] = st /\ ip'["display"] = 1 /\ UNCHANGED <<bound, touchIc>>
            BY <1>2, <1>5, <2>2
        <3>2. ASSUME NEW k \in {3, 9, 10, 11, 15, 17}, Past(k)'
              PROVE  Past(k)
            <4>1. st = "active" /\ k <= Len(Script("display"))
                BY <1>2, <3>1, <3>2 DEF Past, Script
            <4>2. Len(Script("display")) \in Nat /\ ip["display"] \in Nat
                BY <1>3, <2>2, ScriptFacts
            <4>3. ip["display"] > k
                BY <1>1, <2>2, <4>1, <4>2
            <4>4. QED
                BY <4>1, <4>3 DEF Past
        <3>3. "panel_nt36532" \in loaded => pc'["display"] \in {"failed", "killed"} \/ Past(15)'
            <4>1. SUFFICES ASSUME "panel_nt36532" \in loaded, st \notin {"failed", "killed"}
                           PROVE  Past(15)'
                BY <3>1
            <4>2. st = "active"
                BY <1>1, <2>2, <4>1
            <4>3. Past(15)
                BY <1>2, <2>2, <4>1 DEF IInv, DisplayLeaves
            <4>4. "display" \notin conf.off
                BY <1>2, <1>3, <2>2 DEF IInv, Resting
            <4>5. QED
                BY <1>2, <3>1, <4>2, <4>3, <4>4 DEF Past, Script
        <3>4. QED
            BY <1>2, <3>1, <3>2, <3>3 DEF IInv, DisplayLeaves
    <2>3. QED
        BY <2>1, <2>2
<1>10. Ordered'
    <2>1. \A v \in Units \ conf.off : pc'[v] # "queued" => After[v] \subseteq settled'
        BY <1>2, <1>4, <1>5 DEF IInv, Ordered
    <2>2. "display" \in settled' => pc'["display"] \in {"active", "failed", "killed"}
        BY <1>1, <1>4, <1>5 DEF IInv, Ordered, Units
    <2>3. QED
        BY <1>2, <1>4, <2>1, <2>2 DEF IInv, Ordered, AdspHasItsTurn
<1>11. TouchKnown'
    <2>1. "nvt" \in bound' => "nvt" \in bound
        BY <1>2
    <2>2. pc["display"] \in {"failed", "killed"} => pc'["display"] = pc["display"]
        BY <1>2, <1>5 DEF Units
    <2>3. QED
        BY <1>2, <2>1, <2>2 DEF IInv, TouchKnown
<1>12. WithinBudget'
    <2>1. \A v \in Units : WaitedBy[v][1] = 0
        BY DEF WaitedBy, Units
    <2>2. QED
        BY <1>5, <2>1 DEF IInv, WithinBudget
<1>13. QED
    BY <1>6, <1>7, <1>8, <1>9, <1>10, <1>11, <1>12 DEF IInv

\* What an instruction changes of the kernel.
LEMMA EffectKernel ==
    ASSUME NEW i, Effect(i)
    PROVE  /\ loaded \subseteq loaded' /\ \A m \in loaded' \ loaded : i.op = "load" /\ m = i.arg
           /\ bound \subseteq bound' /\ bound' \subseteq bound \cup {"adsp"}
           /\ "adsp" \in bound' \ bound => i.op = "do" /\ i.arg = "start_adsp"
           /\ touchIc' \in {touchIc, "fresh"}
           /\ group' \in {group, "DMA"}
           /\ i.op = "need" => Holds(i.arg)
           /\ i.op = "wait" => Bound(i.arg)
           /\ i.op = "load" /\ i.fail # "warn" => i.arg \in loaded'
           /\ i.op = "do" /\ i.arg = "group_DMA" => group' = "DMA"
BY DEF Effect, kernel

LEMMA AdvancesIInv ==
    ASSUME IInv, NEW u \in Units, Advances(u)
    PROVE  IInv'
<1> DEFINE i == Current(u)
           k == ip[u]
<1>1. PICK t \in Nat : GoOn(u, t) /\ TakesTime(u, i, t)
    BY DEF Advances
<1>2. /\ pc[u] = "running" /\ k \in 1 .. Len(Script(u)) /\ conf' = conf /\ Effect(i)
    BY DEF Advances
<1>3. /\ conf \in Configs /\ conf.off \subseteq Units \ {"touch", "gdm"}
      /\ ip \in [Units -> Nat] /\ spent \in [Units -> Nat]
      /\ bound \subseteq Timed /\ loaded \subseteq Modules
    BY ConfigsAssumption DEF IInv, TypeOK, Resting
<1>4. /\ ip' = [ip EXCEPT ![u] = @ + 1] /\ spent' = [spent EXCEPT ![u] = @ + t]
      /\ pc' = pc /\ settled' = settled
    BY <1>1 DEF GoOn
<1>5. \A v \in Units : /\ ip'[v] = (IF v = u THEN k + 1 ELSE ip[v])
                       /\ spent'[v] = (IF v = u THEN spent[u] + t ELSE spent[v])
    BY <1>3, <1>4
<1>6. /\ Len(Script(u)) \in Nat /\ Shape(u, k, i) /\ LoadShape(u, k, i) /\ GuardShape(u, k, i)
      /\ u = "display" => DisplayShape(k, i)
      /\ DoShape(u, k, i) /\ TimeShape(u, k, i)
    <2>1. i = Script(u)[k]
        BY DEF Current, Script
    <2>2. Len(Script(u)) \in Nat /\ AllShapes(u, k, Script(u)[k])
        BY <1>2, <1>3, ScriptFacts
    <2>3. QED
        BY <2>1, <2>2 DEF AllShapes
<1>k. k \in Nat \ {0} /\ spent[u] \in Nat
    BY <1>2, <1>3, <1>6
<1>7. /\ loaded \subseteq loaded' /\ \A m \in loaded' \ loaded : i.op = "load" /\ m = i.arg
      /\ bound \subseteq bound' /\ bound' \subseteq bound \cup {"adsp"}
      /\ "adsp" \in bound' \ bound => i.op = "do" /\ i.arg = "start_adsp"
      /\ touchIc' \in {touchIc, "fresh"}
      /\ group' \in {group, "DMA"}
      /\ i.op = "need" => Holds(i.arg)
      /\ i.op = "wait" => Bound(i.arg)
      /\ i.op = "load" /\ i.fail # "warn" => i.arg \in loaded'
      /\ i.op = "do" /\ i.arg = "group_DMA" => group' = "DMA"
    BY <1>2, EffectKernel
<1> HIDE DEF i, k
<1>8. spent[u] + t <= WaitedBy[u][k + 1] /\ WaitedBy[u][k + 1] \in Nat
    <2>1. spent[u] <= WaitedBy[u][k]
        BY DEF IInv, WithinBudget, k
    <2>2. /\ WaitedBy[u][k] \in Nat /\ WaitedBy[u][k + 1] \in Nat /\ i.secs \in Nat
          /\ WaitedBy[u][k] + i.secs <= WaitedBy[u][k + 1]
          /\ i.op = "do" /\ i.arg = "rebind" => WaitedBy[u][k] + 3 <= WaitedBy[u][k + 1]
        BY <1>6 DEF TimeShape, Shape
    <2>3. t <= i.secs \/ (t = 3 /\ i.op = "do" /\ i.arg = "rebind")
        BY <1>1 DEF TakesTime
    <2>4. QED
        BY <1>k, <2>1, <2>2, <2>3
<1>9. WithinBudget'
    BY <1>5, <1>8 DEF IInv, WithinBudget, k
<1>10. TypeOK'
    <2>1. spent[u] + t <= TimeoutStartSec[u]
        <3>1. CASE u = "display" /\ k = 17
            <4>1. i.op = "wait"
                BY <1>6, <3>1 DEF DisplayShape, Wait
            <4>2. QED
                BY <1>1, <4>1 DEF TakesTime
        <3>2. CASE ~ (u = "display" /\ k = 17)
            <4>1. WaitedBy[u][k + 1] <= TimeoutStartSec[u]
                BY <1>6, <3>2 DEF TimeShape
            <4>2. TimeoutStartSec[u] \in Nat
                BY DEF TimeoutStartSec, Units
            <4>3. QED
                BY <1>k, <1>8, <4>1, <4>2
        <3>3. QED
            BY <3>1, <3>2
    <2>2. \A v \in Units : /\ ip'[v] \in 1 .. (Len(Program[conf'][v]) + 1)
                           /\ spent'[v] \in 0 .. TimeoutStartSec[v]
        <3>1. k + 1 \in 1 .. (Len(Program[conf][u]) + 1)
            BY <1>2, <1>6 DEF Script
        <3>2. spent[u] + t \in 0 .. TimeoutStartSec[u]
            BY <1>k, <2>1 DEF TimeoutStartSec, Units
        <3>3. QED
            BY <1>2, <1>5, <3>1, <3>2 DEF IInv, TypeOK
    <2>3. loaded' \subseteq Modules
        BY <1>3, <1>6, <1>7 DEF LoadShape
    <2>4. bound' \subseteq Timed
        BY <1>3, <1>7 DEF Timed
    <2>5. touchIc' \in {"fresh", "wedged", "lost"} /\ group' \in {"identity", "DMA"}
        BY <1>7 DEF IInv, TypeOK
    <2>6. QED
        BY <1>2, <1>4, <2>2, <2>3, <2>4, <2>5 DEF IInv, TypeOK
<1>11. Resting'
    <2>1. ip' \in [Units -> Nat] /\ spent' \in [Units -> Nat]
        BY <1>3, <1>4
    <2>2. QED
        BY <1>2, <1>4, <1>5, <2>1 DEF IInv, Resting
<1>12. Guarded'
    <2>1. u \in {"display", "touch", "radio", "video"} => conf.streams
        <3>1. CASE k > 1
            BY <3>1 DEF IInv, Guarded, k
        <3>2. CASE k = 1 /\ u \in {"display", "touch", "radio"}
            BY <1>6, <1>7, <3>2 DEF GuardShape, Need, Holds
        <3>3. CASE k = 1 /\ u = "video"
            <4>1. Bound("apps_smmu")
                BY <1>6, <1>7, <3>3 DEF GuardShape, Need, Holds
            <4>2. "arm_smmu" \in loaded \cup bound
                BY <4>1 DEF Bound, Supplies, Timed
            <4>3. QED
                BY <1>3, <4>2 DEF Timed, IInv, Guarded
        <3>4. QED
            BY <1>k, <3>1, <3>2, <3>3
    <2>2. "arm_smmu" \in loaded' => conf.streams
        <3>1. CASE "arm_smmu" \in loaded
            BY <3>1 DEF IInv, Guarded
        <3>2. CASE "arm_smmu" \in loaded' \ loaded
            <4>1. u = "display"
                BY <1>6, <1>7, <3>2 DEF LoadShape
            <4>2. QED
                BY <2>1, <4>1
        <3>3. QED
            BY <3>1, <3>2
    <2>3. ip'["video"] > 2 => group' = "DMA"
        <3>1. CASE u = "video" /\ k = 2
            BY <1>6, <1>7, <3>1 DEF GuardShape, Do
        <3>2. CASE ~ (u = "video" /\ k = 2)
            <4>1. ip'["video"] > 2 => ip["video"] > 2
                BY <1>5, <1>k, <3>2 DEF k, Units
            <4>2. QED
                BY <1>7, <4>1 DEF IInv, Guarded
        <3>3. QED
            BY <3>1, <3>2
    <2>4. \A v \in {"display", "touch", "radio", "video"} : ip'[v] > 1 => conf.streams
        BY <1>5, <2>1 DEF IInv, Guarded, Units
    <2>5. QED
        BY <1>2, <2>2, <2>3, <2>4 DEF Guarded
<1>13. HostMastersNeedStreams'
    <2>1. ASSUME ~ conf.streams, NEW m \in loaded' \cap HostMasters PROVE FALSE
        <3>1. m \notin loaded
            BY <2>1 DEF IInv, HostMastersNeedStreams
        <3>2. u \in {"display", "touch", "radio", "video"} /\ k > 1
            BY <1>6, <1>7, <2>1, <3>1 DEF LoadShape
        <3>3. QED
            BY <2>1, <3>2 DEF IInv, Guarded, k
    <2>2. "qcom_iris" \in loaded' => group' = "DMA"
        <3>1. CASE "qcom_iris" \in loaded
            BY <1>7, <3>1 DEF IInv, HostMastersNeedStreams
        <3>2. CASE "qcom_iris" \in loaded' \ loaded
            <4>1. u = "video" /\ k > 2
                BY <1>6, <1>7, <3>2 DEF LoadShape
            <4>2. QED
                BY <1>7, <4>1 DEF IInv, Guarded, k
        <3>3. QED
            BY <3>1, <3>2
    <2>3. QED
        BY <1>2, <2>1, <2>2 DEF HostMastersNeedStreams
<1>14. DisplayLeaves'
    <2>1. Bound("apps_smmu") => "arm_smmu" \in loaded /\ "apps_smmu" \notin conf.dead
        BY <1>3 DEF Bound, Supplies, Timed
    <2>2. ASSUME NEW n \in 1 .. 17, Past(n)' PROVE Past(n) \/ (u = "display" /\ k = n)
        <3>1. n <= Len(Script("display"))
            BY <1>2, <2>2 DEF Past, Script
        <3>2. CASE u = "display"
            BY <1>2, <1>4, <1>5, <1>k, <2>2, <3>1, <3>2 DEF Past, k
        <3>3. CASE u # "display"
            BY <1>2, <1>4, <1>5, <2>2, <3>1, <3>3 DEF Past, Units
        <3>4. QED
            BY <3>2, <3>3
    <2>3. u = "display" => /\ k = 3 => Bound("apps_smmu")
                           /\ k = 9 => "pinctrl_sm8750" \in loaded'
                           /\ k = 10 => "gpi" \in loaded'
                           /\ k = 11 => "i2c_qcom_geni" \in loaded'
                           /\ k = 17 => "dsi" \in bound
        BY <1>6, <1>7 DEF DisplayShape, Wait, Load, Bound, Timed
    <2>4. ASSUME "panel_nt36532" \in loaded'
          PROVE  pc["display"] \in {"failed", "killed"} \/ Past(15)'
        <3>1. CASE "panel_nt36532" \in loaded
            <4>1. pc["display"] \in {"failed", "killed"} \/ Past(15)
                BY <3>1 DEF IInv, DisplayLeaves
            <4>2. Past(15) => Past(15)'
                BY <1>2, <1>3, <1>4, <1>5, SMTT(30) DEF Past, Script, k, Units
            <4>3. QED
                BY <4>1, <4>2
        <3>2. CASE "panel_nt36532" \in loaded' \ loaded
            <4>1. u = "display" /\ k = 15
                BY <1>6, <1>7, <3>2 DEF LoadShape
            <4>2. ip'["display"] = 16 /\ 15 <= Len(Script("display"))
                BY <1>2, <1>5, <1>6, <4>1
            <4>3. QED
                BY <1>2, <4>2 DEF Past, Script
        <3>3. QED
            BY <2>4, <3>1, <3>2
    <2>5. Past(3)' => "arm_smmu" \in loaded' /\ "apps_smmu" \notin conf.dead
        BY <1>7, <2>1, <2>2, <2>3 DEF IInv, DisplayLeaves
    <2>6. /\ Past(9)' => "pinctrl_sm8750" \in loaded'
          /\ Past(10)' => "gpi" \in loaded'
          /\ Past(11)' => "i2c_qcom_geni" \in loaded'
          /\ Past(17)' => "dsi" \in bound'
        BY <1>7, <2>2, <2>3 DEF IInv, DisplayLeaves
    <2>7. QED
        BY <1>2, <1>4, <2>4, <2>5, <2>6 DEF DisplayLeaves
<1>15. Ordered' /\ TouchKnown'
    <2>1. "nt36532e_ts" \in loaded' \ loaded => "display" \in settled
        <3>1. SUFFICES ASSUME "nt36532e_ts" \in loaded' \ loaded PROVE "display" \in settled
            OBVIOUS
        <3>2. u = "touch"
            BY <1>6, <1>7, <3>1 DEF LoadShape
        <3>3. After["touch"] = {"display"} /\ "touch" \in Units \ conf.off
            BY <1>3 DEF After, Units
        <3>4. QED
            BY <1>2, <3>2, <3>3 DEF IInv, Ordered
    <2>2. "nvt" \in bound' => "nvt" \in bound
        BY <1>7
    <2>3. AdspHasItsTurn'
        <3>1. SUFFICES ASSUME "qcom_q6v5_pas" \in loaded' \/ "adsp" \in bound'
                       PROVE  {"display", "touch"} \subseteq settled
            BY <1>4 DEF AdspHasItsTurn
        <3>2. CASE "qcom_q6v5_pas" \in loaded \/ "adsp" \in bound
            BY <3>2 DEF IInv, Ordered, AdspHasItsTurn
        <3>3. CASE ~ ("qcom_q6v5_pas" \in loaded \/ "adsp" \in bound)
            <4>1. u = "adsp"
                BY <1>6, <1>7, <3>1, <3>3 DEF LoadShape, DoShape
            <4>2. u \in Units \ conf.off /\ pc[u] # "queued"
                BY <1>2 DEF IInv, Resting
            <4>3. QED
                BY <4>1, <4>2 DEF IInv, Ordered, After
        <3>4. QED
            BY <3>2, <3>3
    <2>4. QED
        BY <1>2, <1>4, <1>7, <2>1, <2>2, <2>3 DEF IInv, Ordered, TouchKnown
<1>16. QED
    BY <1>9, <1>10, <1>11, <1>12, <1>13, <1>14, <1>15 DEF IInv

\* Restart and ViewFails move the touch unit only.
LEMMA TouchMovesIInv ==
    ASSUME IInv, NEW st \in {"running", "restart"},
           pc["touch"] \in {"active", "restart"}, pc' = [pc EXCEPT !["touch"] = st],
           UNCHANGED <<conf, ip, spent, settled, kernel>>
    PROVE  IInv'
<1>1. /\ conf.off \subseteq Units \ {"touch", "gdm"}
      /\ pc \in [Units -> {"queued", "running", "active", "failed", "killed", "restart"}]
    BY ConfigsAssumption DEF IInv, TypeOK
<1>2. \A u \in Units : pc'[u] = IF u = "touch" THEN st ELSE pc[u]
    BY <1>1
<1>3. TypeOK' /\ Guarded' /\ HostMastersNeedStreams' /\ WithinBudget'
    BY <1>1 DEF IInv, TypeOK, Guarded, HostMastersNeedStreams, WithinBudget, kernel
<1>4. Resting'
    BY <1>1, <1>2 DEF IInv, Resting, Units
<1>5. pc'["display"] = pc["display"]
    BY <1>2 DEF Units
<1>6. DisplayLeaves'
    BY <1>5 DEF IInv, DisplayLeaves, Past, Script, kernel
<1>7. Ordered' /\ TouchKnown'
    BY <1>1, <1>2, <1>5 DEF IInv, Ordered, TouchKnown, AdspHasItsTurn, kernel
<1>8. QED
    BY <1>3, <1>4, <1>6, <1>7 DEF IInv

LEMMA TakeoverIInv == IInv /\ Takeover => IInv'
<1> SUFFICES ASSUME IInv, Takeover PROVE IInv'
    OBVIOUS
<1>1. /\ "dsi" \notin bound /\ "panel_nt36532" \in loaded /\ bound' = bound \cup {"dsi"}
      /\ touchIc' = IF "nvt" \in bound THEN "wedged" ELSE touchIc
      /\ UNCHANGED <<conf, systemd, loaded, group>>
    BY DEF Takeover, Supplies
<1>2. "nvt" \in bound => pc["display"] \in {"failed", "killed"}
    <2>1. SUFFICES ASSUME "nvt" \in bound, pc["display"] = "active" PROVE FALSE
        BY DEF IInv, Ordered
    <2>2. Past(15)
        BY <1>1, <2>1 DEF IInv, DisplayLeaves
    <2>3. ip["display"] = 1
        BY <2>1 DEF IInv, Resting, Units
    <2>4. Len(Script("display")) = 17 /\ "display" \notin conf.off
        <3>1. Len(Script("display")) \in {3, 6, 8, 13, 17}
            BY DisplayScriptOf DEF IInv, TypeOK
        <3>2. 15 <= Len(Script("display"))
            BY <2>2 DEF Past
        <3>a. \A n \in {3, 6, 8, 13, 17} : 15 <= n => n = 17
            OBVIOUS
        <3>3. Len(Script("display")) = 17
            BY <3>1, <3>2, <3>a
        <3>4. "display" \notin conf.off
            BY <2>2, <2>3 DEF Past
        <3>5. QED
            BY <3>3, <3>4
    <2>a. 17 <= 17
        OBVIOUS
    <2>5. Past(17)
        BY <2>1, <2>4, <2>a DEF Past
    <2>6. QED
        BY <1>1, <2>5 DEF IInv, DisplayLeaves
<1>3. TypeOK'
    BY <1>1 DEF IInv, TypeOK, Timed, systemd
<1>4. Resting' /\ Guarded' /\ HostMastersNeedStreams' /\ WithinBudget'
    BY <1>1 DEF IInv, Resting, Guarded, HostMastersNeedStreams, WithinBudget, systemd
<1>5. DisplayLeaves'
    BY <1>1 DEF IInv, DisplayLeaves, Past, Script, systemd
<1>6. Ordered' /\ TouchKnown'
    BY <1>1, <1>2 DEF IInv, Ordered, TouchKnown, AdspHasItsTurn, systemd
<1>7. QED
    BY <1>3, <1>4, <1>5, <1>6 DEF IInv

LEMMA TouchProbeIInv == IInv /\ TouchProbe => IInv'
<1> SUFFICES ASSUME IInv, TouchProbe PROVE IInv'
    OBVIOUS
<1>1. /\ "nt36532e_ts" \in loaded /\ bound' = bound \cup {"nvt"} /\ touchIc' = "fresh"
      /\ UNCHANGED <<conf, systemd, loaded, group>>
    BY DEF TouchProbe, Supplies
<1>2. TypeOK'
    BY <1>1 DEF IInv, TypeOK, Timed, systemd
<1>3. Resting' /\ Guarded' /\ HostMastersNeedStreams' /\ WithinBudget'
    BY <1>1 DEF IInv, Resting, Guarded, HostMastersNeedStreams, WithinBudget, systemd
<1>4. DisplayLeaves'
    BY <1>1 DEF IInv, DisplayLeaves, Past, Script, systemd
<1>5. Ordered' /\ TouchKnown'
    BY <1>1 DEF IInv, Ordered, TouchKnown, AdspHasItsTurn, systemd
<1>6. QED
    BY <1>2, <1>3, <1>4, <1>5 DEF IInv

LEMMA NextIInv == IInv /\ [Next]_vars => IInv'
<1> SUFFICES ASSUME IInv, [Next]_vars PROVE IInv'
    OBVIOUS
<1>1. ASSUME NEW u \in Units, UnitStep(u) PROVE IInv'
    BY <1>1, UnitSteps, StartIInv, EndsIInv, AdvancesIInv
<1>2. CASE Restart
    BY <1>2, TouchMovesIInv DEF Restart
<1>3. CASE ViewFails
    BY <1>3, TouchMovesIInv DEF ViewFails
<1>4. CASE Takeover
    BY <1>4, TakeoverIInv
<1>5. CASE TouchProbe
    BY <1>5, TouchProbeIInv
<1>6. CASE UNCHANGED vars
    BY <1>6 DEF vars, systemd, kernel, IInv, TypeOK, Resting, Guarded, HostMastersNeedStreams,
       DisplayLeaves, Past, Script, Ordered, AdspHasItsTurn, TouchKnown, WithinBudget
<1>7. QED
    BY <1>1, <1>2, <1>3, <1>4, <1>5, <1>6 DEF Next

\* The invariant of every boot.
THEOREM Invariance == Spec => []IInv
BY InitIInv, NextIInv, PTL DEF Spec

\* Types; no script is past its end, and none outlives its TimeoutStartSec.
THEOREM TypeCorrect == Spec => []TypeOK
<1>1. IInv => TypeOK
    BY DEF IInv
<1>2. QED
    BY <1>1, Invariance, PTL

\* Without the stream matches of the initramfs no unit of any boot loads the
\* driver of a master of the application processor, and the codec's is loaded in a
\* translated domain; the ADSP, which is started whether there are matches or not,
\* is started only when the display and touch jobs are over.
THEOREM MastersSafe == Spec => []MastersInOrder
<1>1. IInv => MastersInOrder
    BY DEF IInv, Ordered, MastersInOrder
<1>2. QED
    BY <1>1, Invariance, PTL

\* Where the native display came up a running touch service never captures from
\* a controller that the panel takeover has reset.
THEOREM TouchSafe == Spec => []TouchSurvivesTakeover
<1>1. IInv => TouchSurvivesTakeover
    BY DEF IInv, TypeOK, TouchKnown, TouchSurvivesTakeover
<1>2. QED
    BY <1>1, Invariance, PTL

-----------------------------------------------------------------------------
(* Units lost for a cause.                                                 *)

\* A script that is killed while it waits is display-start at its last wait.
LEMMA KillForDsi ==
    ASSUME IInv, NEW u \in Units, Kill(u)
    PROVE  u = "display" /\ (conf.dsi > 80 \/ "dsi" \notin bound)
<1> DEFINE i == Current(u)
           k == ip[u]
           t == IF Late(i) THEN i.secs ELSE Took(i)
<1>1. /\ conf \in Configs /\ conf.dsi \in Nat /\ spent[u] \in Nat
      /\ k \in 1 .. (Len(Script(u)) + 1) /\ spent[u] <= WaitedBy[u][k]
    BY ConfigsAssumption DEF IInv, TypeOK, Resting, WithinBudget, Script
<1>2. k <= Len(Script(u)) /\ i.op = "wait" /\ ~ (spent[u] + t <= TimeoutStartSec[u])
    BY DEF Kill, AtOp, InTime, Script
<1>3. /\ Shape(u, k, i) /\ DoShape(u, k, i) /\ TimeShape(u, k, i)
      /\ u = "display" => DisplayShape(k, i)
    <2>1. i = Script(u)[k]
        BY DEF Current, Script
    <2>2. Len(Script(u)) \in Nat
        BY <1>1, ScriptFacts
    <2>3. k \in 1 .. Len(Script(u))
        BY <1>1, <1>2, <2>2
    <2>4. AllShapes(u, k, Script(u)[k])
        BY <1>1, <2>3, ScriptFacts
    <2>5. QED
        BY <2>1, <2>4 DEF AllShapes
<1>4. i.secs \in Nat /\ TimeoutStartSec[u] \in Nat /\ WaitedBy[u][k] \in Nat
    BY <1>3 DEF Shape, TimeShape, TimeoutStartSec, Units
<1>5. CASE u = "display" /\ k = 17
    <2>1. SUFFICES ASSUME conf.dsi <= 80, "dsi" \in bound PROVE FALSE
        BY <1>1, <1>5
    <2>2. i.arg = "dsi" /\ i.secs = 150
        BY <1>3, <1>5 DEF DisplayShape, Wait
    <2>3. Took(i) = conf.dsi
        BY <2>2 DEF Took
    <2>4. Bound(i.arg)
        BY <2>1, <2>2 DEF Bound, Timed
    <2>5. ~ (conf.dsi > 150)
        BY <1>1, <2>1
    <2>6. t = conf.dsi
        BY <2>2, <2>3, <2>4, <2>5 DEF Late
    <2>7. WaitedBy[u][k] + 80 <= TimeoutStartSec[u]
        BY <1>3, <1>5 DEF TimeShape
    <2> HIDE DEF t, i, k
    <2>8. QED
        BY <1>1, <1>2, <1>4, <2>1, <2>6, <2>7
<1>6. CASE ~ (u = "display" /\ k = 17)
    <2>1. i.arg # "dsi"
        BY <1>2, <1>3, <1>6 DEF DoShape
    <2>2. Took(i) \in 0 .. i.secs
        BY <1>4, <2>1 DEF Took
    <2>3. t \in 0 .. i.secs
        BY <1>4, <2>2
    <2>4. /\ WaitedBy[u][k + 1] \in Nat /\ WaitedBy[u][k] + i.secs <= WaitedBy[u][k + 1]
          /\ WaitedBy[u][k + 1] <= TimeoutStartSec[u]
        BY <1>3, <1>6 DEF TimeShape
    <2> HIDE DEF t, i, k
    <2>5. QED
        BY <1>1, <1>2, <1>4, <2>3, <2>4, SMTT(30)
<1>7. QED
    BY <1>5, <1>6

LEMMA KilledStep ==
    ASSUME IInv, Next, NEW u \in Units, pc[u] # "killed", pc'[u] = "killed"
    PROVE  u = "display" /\ (conf.dsi > 80 \/ "dsi" \notin bound)
<1>1. pc \in [Units -> {"queued", "running", "active", "failed", "killed", "restart"}]
    BY DEF IInv, TypeOK
<1>2. ASSUME NEW v \in Units, UnitStep(v) PROVE v = u /\ Kill(u)
    <2>1. ~ Start(v)
        BY <1>1 DEF Start
    <2>2. ~ Advances(v)
        BY DEF Advances, GoOn
    <2>3. Ends(v)
        BY <1>2, <2>1, <2>2, UnitSteps
    <2>4. PICK st \in {"active", "failed", "killed", "restart"} :
             Over(v, st) /\ (st = "killed" => Kill(v))
        BY <2>3 DEF Ends
    <2>5. v = u /\ st = "killed"
        BY <1>1, <2>4 DEF Over
    <2>6. QED
        BY <2>4, <2>5
<1>3. ~ Restart /\ ~ ViewFails /\ ~ Takeover /\ ~ TouchProbe
    BY <1>1 DEF Restart, ViewFails, Takeover, TouchProbe, systemd
<1>4. Kill(u)
    BY <1>2, <1>3 DEF Next
<1>5. QED
    BY <1>4, KillForDsi

\* A unit that waits for display runs when display is over; when it is active
\* it has gone through its stages.
LEMMA DisplayDone ==
    ASSUME IInv, NEW u \in {"keyboard", "video"}, pc[u] = "running", NEW n \in {1, 4},
           ~ DisplayShort(n)
    PROVE  /\ Past(3)
           /\ n = 4 => Past(9) /\ Past(10) /\ Past(11)
<1>1. /\ conf \in Configs /\ conf.off \subseteq Units /\ conf.last \in 1 .. 5
      /\ u \in Units \ conf.off
    BY ConfigsAssumption DEF IInv, TypeOK, Resting, Units
<1>2. "display" \in settled
    BY <1>1 DEF IInv, Ordered, After
<1>3. "display" \notin conf.off /\ ~ (conf.last < n) /\ pc["display"] = "active"
    BY <1>2 DEF IInv, Ordered, DisplayShort
<1>4. Len(Script("display")) = StageEnd[conf.last]
    BY <1>1, DisplayScriptOf
<1>5. StageEnd[conf.last] >= 3 /\ (n = 4 => StageEnd[conf.last] >= 13)
    BY <1>1, <1>3 DEF StageEnd
<1>6. StageEnd[conf.last] \in Nat
    BY <1>1 DEF StageEnd
<1>7. QED
    <2> DEFINE L == StageEnd[conf.last]
    <2> HIDE DEF L
    <2>1. L \in Nat /\ L >= 3 /\ (n = 4 => L >= 13) /\ Len(Script("display")) = L
        BY <1>4, <1>5, <1>6 DEF L
    <2>2. 3 <= L /\ (n = 4 => 9 <= L /\ 10 <= L /\ 11 <= L)
        BY <2>1
    <2>3. QED
        BY <1>3, <2>1, <2>2 DEF Past

LEMMA KeyboardStep ==
    ASSUME IInv, FailsAtFirst("keyboard")
    PROVE  DisplayShort(4) \/ Supplies["se6"] \subseteq loaded
<1>1. SUFFICES ASSUME ~ DisplayShort(4) PROVE Supplies["se6"] \subseteq loaded
    OBVIOUS
<1>2. Past(9) /\ Past(10) /\ Past(11)
    BY <1>1, DisplayDone DEF FailsAtFirst
<1>3. QED
    BY <1>2 DEF IInv, DisplayLeaves, Supplies

LEMMA VideoStep ==
    ASSUME IInv, Next, FailsAtFirst("video")
    PROVE  DisplayShort(1)
<1>1. SUFFICES ASSUME ~ DisplayShort(1) PROVE FALSE
    OBVIOUS
<1>2. /\ conf \in Configs /\ "video" \in Units
      /\ pc["video"] = "running" /\ ip["video"] = 1 /\ pc'["video"] = "failed"
      /\ pc \in [Units -> {"queued", "running", "active", "failed", "killed", "restart"}]
    BY DEF FailsAtFirst, IInv, TypeOK, Units
<1>3. Holds("apps_smmu")
    <2>1. Past(3)
        BY <1>1, <1>2, DisplayDone
    <2>2. "arm_smmu" \in loaded /\ "apps_smmu" \notin conf.dead
        BY <2>1 DEF IInv, DisplayLeaves
    <2>3. QED
        BY <2>2 DEF Holds, Bound, Supplies, Timed
<1>4. Current("video") = Need("apps_smmu", "die")
    BY <1>2 DEF Current, Program, VideoScript
<1>5. ASSUME NEW v \in Units, UnitStep(v) PROVE v = "video" /\ Ends("video")
    <2>1. ~ Start(v)
        BY <1>2 DEF Start
    <2>2. ~ Advances(v)
        BY <1>2 DEF Advances, GoOn
    <2>3. Ends(v)
        BY <1>5, <2>1, <2>2, UnitSteps
    <2>4. QED
        BY <1>2, <2>3 DEF Ends, Over
<1>6. ~ Restart /\ ~ ViewFails /\ ~ Takeover /\ ~ TouchProbe
    BY <1>2 DEF Restart, ViewFails, Takeover, TouchProbe, systemd
<1>7. Ends("video")
    BY <1>5, <1>6 DEF Next
<1>8. PICK st \in {"active", "failed", "killed", "restart"} :
        /\ Over("video", st)
        /\ st = "failed" => \/ ~ Holds(Current("video").arg)
                            \/ AtOp("video", "load") \/ AtOp("video", "wait") \/ AtOp("video", "do")
    BY <1>7 DEF Ends
<1>9. st = "failed"
    BY <1>2, <1>8 DEF Over
<1>10. QED
    BY <1>3, <1>4, <1>8, <1>9 DEF AtOp, Need

\* No unit is lost to the order and the time-outs of the units: a wait is cut
\* off only for a DSI output that does not come up in the time it was given, and
\* keyboard and video give up at once only when display did not get that far.
THEOREM LostForCauseProved == Spec => LostForCause
<1> DEFINE killed == \A u \in Units : pc[u] # "killed" /\ pc'[u] = "killed" =>
                        u = "display" /\ (conf.dsi > 80 \/ "dsi" \notin bound)
           first  == /\ FailsAtFirst("keyboard") =>
                           DisplayShort(4) \/ Supplies["se6"] \subseteq loaded
                     /\ FailsAtFirst("video") => DisplayShort(1)
<1>1. IInv /\ [Next]_vars => [killed]_vars /\ [first]_vars
    BY KilledStep, KeyboardStep, VideoStep
<1>2. QED
    BY <1>1, Invariance, PTL DEF Spec, LostForCause, KilledOnlyByDsi, SuppliersRanFirst
=============================================================================
