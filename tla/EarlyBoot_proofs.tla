--------------------------- MODULE EarlyBoot_proofs ---------------------------
(***************************************************************************)
(* Proofs about EarlyBoot, for any number of partitions, any poll limit    *)
(* and any operator.                                                       *)
(***************************************************************************)
EXTENDS EarlyBoot, FiniteSetTheorems, TLAPS

LEMMA InitTypeOK == Init => TypeOK
BY EarlyBootAssumption DEF Init, TypeOK, Facts, Markers, Reasons, Step, Dir

\* A poll that counts one match finds a labelled partition.
LEMMA OneVisible ==
    ASSUME labelled \subseteq Parts, Cardinality(Visible) = 1
    PROVE  /\ (CHOOSE p \in Visible : TRUE) \in labelled
           /\ (CHOOSE p \in Visible : TRUE) \in Parts
<1>1. Visible # {}
    <2> SUFFICES ASSUME Visible = {} PROVE FALSE
        OBVIOUS
    <2>1. Cardinality({}) = 1
        BY Zenon
    <2>2. QED
        BY <2>1, FS_EmptySet
<1>2. (CHOOSE p \in Visible : TRUE) \in Visible
    BY <1>1, Zenon DEF Goto, Step, Markers
<1>3. QED
    BY <1>2 DEF Visible, Goto, Markers

LEMMA NextTypeOK == TypeOK /\ [Next]_vars => TypeOK'
<1> SUFFICES ASSUME TypeOK, [Next]_vars PROVE TypeOK'
    OBVIOUS
<1> USE DEF image, storage, rootfs
<1>1. CASE NetUp \/ NetUnavailable
    BY <1>1 DEF TypeOK, NetUp, NetUnavailable, Goto, Step, Markers
<1>2. ASSUME NEW s \in Step, Begin(s) PROVE TypeOK'
    <2>1. run' \subseteq Markers
        BY <1>2 DEF Begin, TypeOK
    <2>2. begun' = begun + 1 /\ pc' = "run" /\ step' = s
        BY <1>2 DEF Begin, Goto
    <2>3. UNCHANGED <<image, reason, net, sshd, storage, rootfs, touches>>
        BY <1>2 DEF Begin
    <2>4. begun' \in Nat
        <3>1. begun \in Nat
            BY DEF TypeOK
        <3>2. QED
            BY <2>2, <3>1
    <2>5. step' \in Step \cup {"none"}
        BY <2>2
    <2>6. QED
        BY <2>1, <2>2, <2>3, <2>4, <2>5, Zenon DEF TypeOK
<1>3. CASE SmmuRepair \/ RefClock
    BY <1>3, ZenonT(30) DEF TypeOK, SmmuRepair, RefClock, Goto, Rescue, Reasons, Step, Markers
<1>4. CASE LoadPhy \/ LoadHost
    BY <1>4, ZenonT(30) DEF TypeOK, LoadPhy, LoadHost, Modprobe, Goto, Rescue, Reasons, Step
<1>5. CASE CheckRootArg
    BY <1>5 DEF TypeOK, CheckRootArg, Goto, Rescue, Reasons
<1>6. CASE Poll
    <2>1. n' \in 0 .. PollLimit
        <3>1. n' = n \/ (n < PollLimit /\ n' = n + 1)
            BY <1>6 DEF Poll
        <3>2. n \in 0 .. PollLimit
            BY DEF TypeOK
        <3>3. QED
            BY <3>1, <3>2, EarlyBootAssumption
    <2>2. device' \in Parts \cup {NoPart}
        BY <1>6, OneVisible DEF Poll, TypeOK
    <2>3. pc' \in {"poll", "node", "rescue"} /\ step' = "none" /\ reason' \in Reasons
        BY <1>6 DEF TypeOK, Poll, At, Goto, Rescue, Reasons
    <2>4. UNCHANGED <<image, run, net, sshd, modules, parts, rootfs, touches, begun>>
        BY <1>6 DEF Poll
    <2>5. QED
        BY <2>1, <2>2, <2>3, <2>4 DEF TypeOK
<1>7. CASE CheckNode
    BY <1>7 DEF TypeOK, CheckNode, Goto, Rescue, Reasons, Step
<1>8. CASE MountRoot
    BY <1>8 DEF TypeOK, MountRoot, MountOptions, diagnostic, Goto, Rescue, Reasons
<1>9. CASE VerifyRoot
    BY <1>9 DEF TypeOK, VerifyRoot, Goto, Rescue, Reasons, Step
<1>10. CASE StopSsh \/ CheckDirs \/ SwitchRoot
    BY <1>10, ZenonT(30) DEF TypeOK, StopSsh, CheckDirs, SwitchRoot, pidfile, Goto, Rescue, Reasons, Markers
<1>11. ASSUME NEW d \in Dir, MoveMount(d) PROVE TypeOK'
    BY <1>11 DEF TypeOK, MoveMount, Goto, Rescue, Reasons, At
<1>12. ASSUME NEW p \in Parts, PartStep(p) PROVE TypeOK'
    BY <1>12 DEF TypeOK, PartStep
<1>13. CASE SshDies
    BY <1>13 DEF TypeOK, SshDies
<1>14. CASE Touch
    <2>1. touches' \in 0 .. MaxTouches
        <3>1. touches < MaxTouches /\ touches' = touches + 1
            BY <1>14 DEF Touch
        <3>2. touches \in 0 .. MaxTouches
            BY DEF TypeOK
        <3>3. QED
            BY <3>1, <3>2, EarlyBootAssumption
    <2>2. run' \subseteq Markers
        BY <1>14 DEF TypeOK, Touch, Markers
    <2>3. UNCHANGED <<image, pc, step, reason, net, sshd, storage, rootfs, begun>>
        BY <1>14 DEF Touch
    <2>4. QED
        BY <2>1, <2>2, <2>3 DEF TypeOK
<1>15. CASE UNCHANGED vars
    BY <1>15 DEF TypeOK, vars
<1>16. QED
    BY <1>1, <1>2, <1>3, <1>4, <1>5, <1>6, <1>7, <1>8, <1>9, <1>10, <1>11,
       <1>12, <1>13, <1>14, <1>15 DEF Next, Script

-----------------------------------------------------------------------------
(* The inductive invariant.  None of the promises of EarlyBoot is inductive: *)
(* each holds because of where the script must already have been.  Every     *)
(* part below ties a place in the script to what was achieved before it.     *)

\* A step is named exactly while it waits or runs; a reason, in rescue only.
PlaceOK ==
    /\ (pc \in {"wait", "run"}) <=> (step # "none")
    /\ (pc = "rescue") <=> (reason # "none")

StreamsPending == pc = "net" \/ step = "smmu"

StreamsOK ==
    /\ StreamsPending => modules = {}
    /\ StreamsPending \/ pc = "rescue" \/ smmuReady
    /\ modules # {} => smmuReady
    /\ reason = "smmu" => modules = {}

PastHost == \/ pc \in {"root", "poll", "node", "verify", "parked", "dirs", "move", "handoff"}
            \/ step \in {"mount-root", "switch-root"}

HostOK ==
    /\ step = "ufs-host" => "phy" \in modules
    /\ PastHost => modules = {"phy", "host"}

PastNode == \/ pc \in {"verify", "parked", "dirs", "move", "handoff"}
            \/ step \in {"mount-root", "switch-root"}

NodeOK ==
    /\ device # NoPart => device \in labelled
    /\ PastNode => device # NoPart /\ parts[device] = "node"

PastMount == pc \in {"verify", "dirs", "move", "handoff"} \/ step = "switch-root"

MountOK ==
    /\ PastMount => sysroot = "ro" /\ ~ diagnostic
    /\ diagnostic => sysroot # "ro"

MovesOK ==
    /\ moved # {} => pc \in {"move", "rescue", "handoff", "panic"} /\ ~ diagnostic
    /\ "run" \in moved => moved = Dir /\ pc # "rescue"
    /\ pc = "handoff" => moved = Dir

SshOK ==
    /\ sshd = "on" => pidfile
    /\ pc \in {"dirs", "move", "handoff"} => sshd # "on" /\ ~ pidfile

OperatorOK ==
    diagnostic => begun <= touches /\ ("next" \in run => begun < touches)

IInv == /\ TypeOK /\ PlaceOK /\ StreamsOK /\ HostOK /\ NodeOK
        /\ MountOK /\ MovesOK /\ SshOK /\ OperatorOK

\* The names of steps and reasons follow the place.
LEMMA PlaceOKStep == TypeOK /\ PlaceOK /\ [Next]_vars => PlaceOK'
<1> SUFFICES ASSUME TypeOK, PlaceOK, [Next]_vars PROVE PlaceOK'
    OBVIOUS
<1> USE DEF image, storage, rootfs, Goto, Rescue, At, Step, PlaceOK
<1>1. CASE NetUp \/ NetUnavailable \/ SmmuRepair \/ RefClock \/ LoadPhy \/
    LoadHost \/ CheckRootArg \/ Poll
    BY <1>1 DEF NetUp, NetUnavailable, SmmuRepair, RefClock, LoadPhy,
        LoadHost, CheckRootArg, Poll, Modprobe
<1>2. CASE CheckNode \/ MountRoot \/ VerifyRoot \/ StopSsh \/ CheckDirs \/
    SwitchRoot \/ SshDies \/ Touch
    BY <1>2 DEF CheckNode, MountRoot, VerifyRoot, StopSsh, CheckDirs,
        SwitchRoot, SshDies, Touch
<1>3. ASSUME NEW s \in Step, Begin(s) PROVE PlaceOK'
    BY <1>3 DEF Begin
<1>4. ASSUME NEW d \in Dir, MoveMount(d) PROVE PlaceOK'
    BY <1>4 DEF MoveMount
<1>5. ASSUME NEW p \in Parts, PartStep(p) PROVE PlaceOK'
    BY <1>5 DEF PartStep
<1>6. CASE UNCHANGED vars
    BY <1>6 DEF vars
<1>7. QED
    BY <1>1, <1>2, <1>3, <1>4, <1>5, <1>6, Zenon DEF Next, Script

\* Only SmmuRepair leaves the first step, and only later steps load modules.
LEMMA StreamsOKStep == TypeOK /\ PlaceOK /\ StreamsOK /\ [Next]_vars =>
    StreamsOK'
<1> SUFFICES ASSUME TypeOK, PlaceOK, StreamsOK, [Next]_vars PROVE StreamsOK'
    OBVIOUS
<1> USE DEF image, storage, rootfs, Goto, Rescue, At, Step, PlaceOK, StreamsOK,
    StreamsPending, smmuReady
<1>1. CASE NetUp \/ NetUnavailable \/ SmmuRepair \/ RefClock \/ LoadPhy \/
    LoadHost \/ CheckRootArg \/ Poll
    BY <1>1 DEF NetUp, NetUnavailable, SmmuRepair, RefClock, LoadPhy,
        LoadHost, CheckRootArg, Poll, Modprobe
<1>2. CASE CheckNode \/ MountRoot \/ VerifyRoot \/ StopSsh \/ CheckDirs \/
    SwitchRoot \/ SshDies \/ Touch
    BY <1>2 DEF CheckNode, MountRoot, VerifyRoot, StopSsh, CheckDirs,
        SwitchRoot, SshDies, Touch
<1>3. ASSUME NEW s \in Step, Begin(s) PROVE StreamsOK'
    BY <1>3 DEF Begin
<1>4. ASSUME NEW d \in Dir, MoveMount(d) PROVE StreamsOK'
    BY <1>4 DEF MoveMount
<1>5. ASSUME NEW p \in Parts, PartStep(p) PROVE StreamsOK'
    BY <1>5 DEF PartStep
<1>6. CASE UNCHANGED vars
    BY <1>6 DEF vars
<1>7. QED
    BY <1>1, <1>2, <1>3, <1>4, <1>5, <1>6, Zenon DEF Next, Script

\* The two modprobe steps come one after the other.
LEMMA HostOKStep == TypeOK /\ PlaceOK /\ HostOK /\ [Next]_vars => HostOK'
<1> SUFFICES ASSUME TypeOK, PlaceOK, HostOK, [Next]_vars PROVE HostOK'
    OBVIOUS
<1> USE DEF image, storage, rootfs, Goto, Rescue, At, Step, HostOK, PastHost,
    PlaceOK
<1>1. CASE NetUp \/ NetUnavailable \/ SmmuRepair \/ RefClock \/ CheckRootArg \/
    Poll \/ CheckNode
    BY <1>1 DEF NetUp, NetUnavailable, SmmuRepair, RefClock, CheckRootArg,
        Poll, CheckNode
<1>2. CASE MountRoot \/ VerifyRoot \/ StopSsh \/ CheckDirs \/ SwitchRoot \/
    SshDies \/ Touch
    BY <1>2 DEF MountRoot, VerifyRoot, StopSsh, CheckDirs, SwitchRoot,
        SshDies, Touch
<1>3. CASE LoadPhy \/ LoadHost
    <2>1. CASE LoadPhy
        BY <2>1 DEF LoadPhy, Modprobe
    <2>2. CASE LoadHost
        <3>1. modules \subseteq {"phy", "host"}
            BY DEF TypeOK
        <3>2. CASE modules' = modules \cup {"host"} /\ Goto("root", "none")
            <4>1. "phy" \in modules
                BY <2>2 DEF LoadHost, Modprobe
            <4>2. modules' = {"phy", "host"}
                BY <3>1, <3>2, <4>1, Zenon
            <4>3. QED
                BY <3>2, <4>2
        <3>3. CASE Rescue("ufs-host") /\ UNCHANGED modules
            BY <3>3
        <3>4. QED
            BY <2>2, <3>2, <3>3 DEF LoadHost, Modprobe
    <2>3. QED
        BY <1>3, <2>1, <2>2
<1>4. ASSUME NEW s \in Step, Begin(s) PROVE HostOK'
    BY <1>4 DEF Begin
<1>5. ASSUME NEW d \in Dir, MoveMount(d) PROVE HostOK'
    BY <1>5 DEF MoveMount
<1>6. ASSUME NEW p \in Parts, PartStep(p) PROVE HostOK'
    BY <1>6 DEF PartStep
<1>7. CASE UNCHANGED vars
    BY <1>7 DEF vars
<1>8. QED
    BY <1>1, <1>2, <1>3, <1>4, <1>5, <1>6, <1>7, Zenon DEF Next, Script

\* A poll finds a labelled partition, and CheckNode goes on only with its node.
LEMMA NodeOKStep == TypeOK /\ PlaceOK /\ NodeOK /\ [Next]_vars => NodeOK'
<1> SUFFICES ASSUME TypeOK, PlaceOK, NodeOK, [Next]_vars PROVE NodeOK'
    OBVIOUS
<1> USE DEF image, storage, rootfs, Goto, Rescue, At, Step, NodeOK, PastNode,
    PlaceOK
<1>1. CASE NetUp \/ NetUnavailable \/ SmmuRepair \/ RefClock \/ LoadPhy \/
    LoadHost \/ CheckRootArg \/ CheckNode
    BY <1>1 DEF NetUp, NetUnavailable, SmmuRepair, RefClock, LoadPhy,
        LoadHost, CheckRootArg, CheckNode, Modprobe
<1>2. CASE MountRoot \/ VerifyRoot \/ StopSsh \/ CheckDirs \/ SwitchRoot \/
    SshDies \/ Touch
    BY <1>2 DEF MountRoot, VerifyRoot, StopSsh, CheckDirs, SwitchRoot,
        SshDies, Touch
<1>3. CASE Poll
    <2>1. labelled \subseteq Parts
        BY DEF TypeOK
    <2>2. QED
        BY <1>3, <2>1, OneVisible DEF Poll
<1>4. ASSUME NEW s \in Step, Begin(s) PROVE NodeOK'
    BY <1>4 DEF Begin
<1>5. ASSUME NEW d \in Dir, MoveMount(d) PROVE NodeOK'
    BY <1>5 DEF MoveMount
<1>6. ASSUME NEW p \in Parts, PartStep(p) PROVE NodeOK'
    <2>1. labelled \subseteq Parts /\ parts \in [Parts -> {"absent",
        "sysfs", "node"}]
        BY DEF TypeOK
    <2>2. device \in Parts /\ parts[device] = "node" => parts'[device] = "node"
        BY <1>6, <2>1 DEF PartStep
    <2>3. QED
        BY <1>6, <2>1, <2>2 DEF PartStep
<1>7. CASE UNCHANGED vars
    BY <1>7 DEF vars
<1>8. QED
    BY <1>1, <1>2, <1>3, <1>4, <1>5, <1>6, <1>7, Zenon DEF Next, Script

\* A diagnostic boot is parked after its mount.
LEMMA MountOKStep == TypeOK /\ PlaceOK /\ MountOK /\ [Next]_vars => MountOK'
<1> SUFFICES ASSUME TypeOK, PlaceOK, MountOK, [Next]_vars PROVE MountOK'
    OBVIOUS
<1> USE DEF image, storage, rootfs, Goto, Rescue, At, Step, MountOK,
    MountOptions, PastMount, PlaceOK, diagnostic
<1>1. CASE NetUp \/ NetUnavailable \/ SmmuRepair \/ RefClock \/ LoadPhy \/
    LoadHost \/ CheckRootArg \/ Poll
    BY <1>1 DEF NetUp, NetUnavailable, SmmuRepair, RefClock, LoadPhy,
        LoadHost, CheckRootArg, Poll, Modprobe
<1>2. CASE CheckNode \/ MountRoot \/ VerifyRoot \/ StopSsh \/ CheckDirs \/
    SwitchRoot \/ SshDies \/ Touch
    BY <1>2 DEF CheckNode, MountRoot, VerifyRoot, StopSsh, CheckDirs,
        SwitchRoot, SshDies, Touch
<1>3. ASSUME NEW s \in Step, Begin(s) PROVE MountOK'
    BY <1>3 DEF Begin
<1>4. ASSUME NEW d \in Dir, MoveMount(d) PROVE MountOK'
    BY <1>4 DEF MoveMount
<1>5. ASSUME NEW p \in Parts, PartStep(p) PROVE MountOK'
    BY <1>5 DEF PartStep
<1>6. CASE UNCHANGED vars
    BY <1>6 DEF vars
<1>7. QED
    BY <1>1, <1>2, <1>3, <1>4, <1>5, <1>6, Zenon DEF Next, Script

\* Nothing moves before the mount succeeded, and /run moves last.
LEMMA MovesOKStep == TypeOK /\ PlaceOK /\ MountOK /\ MovesOK /\ [Next]_vars =>
    MovesOK'
<1> SUFFICES ASSUME TypeOK, PlaceOK, MountOK, MovesOK, [Next]_vars PROVE
    MovesOK'
    OBVIOUS
<1> USE DEF image, storage, rootfs, Goto, Rescue, At, Step, Before, Dir,
    MountOK, MovesOK, NextDir, PastMount, PlaceOK, diagnostic
<1>1. CASE NetUp \/ NetUnavailable \/ SmmuRepair \/ RefClock \/ LoadPhy \/
    LoadHost \/ CheckRootArg \/ Poll
    BY <1>1 DEF NetUp, NetUnavailable, SmmuRepair, RefClock, LoadPhy,
        LoadHost, CheckRootArg, Poll, Modprobe
<1>2. CASE CheckNode \/ MountRoot \/ VerifyRoot \/ StopSsh \/ CheckDirs \/
    SwitchRoot \/ SshDies \/ Touch
    BY <1>2 DEF CheckNode, MountRoot, VerifyRoot, StopSsh, CheckDirs,
        SwitchRoot, SshDies, Touch
<1>3. ASSUME NEW s \in Step, Begin(s) PROVE MovesOK'
    BY <1>3 DEF Begin
<1>4. ASSUME NEW d \in Dir, MoveMount(d) PROVE MovesOK'
    <2>1. moved \subseteq Dir
        BY DEF TypeOK
    <2>2. d \notin moved /\ Before[d] \subseteq moved /\ pc = "move" /\
        step = "none"
        BY <1>4 DEF MoveMount
    <2>3. CASE moved' = moved \cup {d} /\ UNCHANGED <<pc, step, reason>>
        <3>1. ~ diagnostic'
            BY <1>4, <2>2 DEF MoveMount
        <3>2. ASSUME d = "run" PROVE moved' = Dir
            <4>1. Before[d] = {"dev", "proc", "sys"}
                BY <3>2
            <4>2. QED
                BY <2>1, <2>2, <2>3, <3>2, <4>1, Zenon
        <3>3. "run" \notin moved
            BY <2>2
        <3>4. QED
            BY <2>2, <2>3, <3>1, <3>2, <3>3
    <2>4. CASE Rescue("move") /\ UNCHANGED moved
        <3>1. "run" \notin moved
            BY <2>2
        <3>2. QED
            BY <1>4, <2>2, <2>4, <3>1 DEF MoveMount
    <2>5. QED
        BY <1>4, <2>3, <2>4 DEF MoveMount
<1>5. ASSUME NEW p \in Parts, PartStep(p) PROVE MovesOK'
    BY <1>5 DEF PartStep
<1>6. CASE UNCHANGED vars
    BY <1>6 DEF vars
<1>7. QED
    BY <1>1, <1>2, <1>3, <1>4, <1>5, <1>6, Zenon DEF Next, Script

\* StopSsh passes only without a daemon and without its file.
LEMMA SshOKStep == TypeOK /\ PlaceOK /\ SshOK /\ [Next]_vars => SshOK'
<1> SUFFICES ASSUME TypeOK, PlaceOK, SshOK, [Next]_vars PROVE SshOK'
    OBVIOUS
<1> USE DEF image, storage, rootfs, Goto, Rescue, At, Step, PlaceOK, SshOK,
    diagnostic, pidfile
<1>1. CASE NetUp \/ NetUnavailable \/ SmmuRepair \/ RefClock \/ LoadPhy \/
    LoadHost \/ CheckRootArg \/ Poll
    BY <1>1 DEF NetUp, NetUnavailable, SmmuRepair, RefClock, LoadPhy,
        LoadHost, CheckRootArg, Poll, Modprobe
<1>2. CASE CheckNode \/ MountRoot \/ VerifyRoot \/ StopSsh \/ CheckDirs \/
    SwitchRoot \/ SshDies \/ Touch
    BY <1>2 DEF CheckNode, MountRoot, VerifyRoot, StopSsh, CheckDirs,
        SwitchRoot, SshDies, Touch
<1>3. ASSUME NEW s \in Step, Begin(s) PROVE SshOK'
    BY <1>3 DEF Begin
<1>4. ASSUME NEW d \in Dir, MoveMount(d) PROVE SshOK'
    BY <1>4 DEF MoveMount
<1>5. ASSUME NEW p \in Parts, PartStep(p) PROVE SshOK'
    BY <1>5 DEF PartStep
<1>6. CASE UNCHANGED vars
    BY <1>6 DEF vars
<1>7. QED
    BY <1>1, <1>2, <1>3, <1>4, <1>5, <1>6, Zenon DEF Next, Script

\* A touch adds at most one to what Begin may consume.
LEMMA OperatorOKStep == TypeOK /\ OperatorOK /\ [Next]_vars => OperatorOK'
<1> SUFFICES ASSUME TypeOK, OperatorOK, [Next]_vars PROVE OperatorOK'
    OBVIOUS
<1> USE DEF image, storage, rootfs, OperatorOK, diagnostic
<1>1. begun \in Nat /\ touches \in Nat
    <2>1. begun \in Nat /\ touches \in 0 .. MaxTouches
        BY DEF TypeOK
    <2>2. QED
        BY <2>1, EarlyBootAssumption
<1>2. ASSUME NEW s \in Step, Begin(s) PROVE OperatorOK'
    BY <1>1, <1>2 DEF Begin
<1>3. CASE Touch
    BY <1>1, <1>3 DEF Touch
<1>4. CASE NetUp \/ SmmuRepair \/ StopSsh
    BY <1>4 DEF NetUp, SmmuRepair, StopSsh
<1>5. CASE \/ NetUnavailable \/ RefClock \/ LoadPhy \/ LoadHost \/ CheckRootArg
           \/ Poll \/ CheckNode \/ MountRoot \/ VerifyRoot \/ CheckDirs
           \/ SwitchRoot \/ SshDies
    <2>1. UNCHANGED <<given, run, touches, begun>>
        BY <1>5 DEF NetUnavailable, RefClock, LoadPhy, LoadHost, Modprobe,
            CheckRootArg, Poll, CheckNode, MountRoot, VerifyRoot, CheckDirs,
            SwitchRoot, SshDies
    <2>2. QED
        BY <2>1
<1>6. ASSUME NEW d \in Dir, MoveMount(d) PROVE OperatorOK'
    BY <1>6 DEF MoveMount
<1>7. ASSUME NEW p \in Parts, PartStep(p) PROVE OperatorOK'
    BY <1>7 DEF PartStep
<1>8. CASE UNCHANGED vars
    BY <1>8 DEF vars
<1>9. QED
    BY <1>2, <1>3, <1>4, <1>5, <1>6, <1>7, <1>8, Zenon DEF Next, Script

LEMMA InitIInv == Init => IInv
<1> SUFFICES ASSUME Init PROVE IInv
    OBVIOUS
<1>1. PlaceOK /\ StreamsOK /\ HostOK /\ NodeOK
    BY DEF Init, PlaceOK, StreamsOK, StreamsPending, HostOK, PastHost, NodeOK,
        PastNode
<1>2. MountOK /\ MovesOK /\ SshOK
    BY DEF Init, MountOK, PastMount, MovesOK, SshOK, pidfile
<1>3. OperatorOK
    BY DEF Init, OperatorOK
<1>4. QED
    BY <1>1, <1>2, <1>3, InitTypeOK DEF IInv

LEMMA NextIInv == IInv /\ [Next]_vars => IInv'
BY NextTypeOK, PlaceOKStep, StreamsOKStep, HostOKStep, NodeOKStep, MountOKStep,
   MovesOKStep, SshOKStep, OperatorOKStep, Zenon DEF IInv

\* The places of the script and what was achieved on the way to them.
THEOREM InvariantHolds == Spec => []IInv
BY InitIInv, NextIInv, PTL DEF Spec

\* The early-boot state is well formed in every reachable state.
THEOREM TypeCorrect == Spec => []TypeOK
<1>1. IInv => TypeOK
    BY DEF IInv
<1>2. QED
    BY <1>1, InvariantHolds, PTL

\* For any storage and any operator, UFS drivers meet repaired streams, and
\* the rescue message about unloaded DMA drivers stays true.
THEOREM DmaAfterStreams == Spec => []NoDmaBeforeStreams
<1>1. IInv => NoDmaBeforeStreams
    BY DEF IInv, StreamsOK, NoDmaBeforeStreams
<1>2. QED
    BY <1>1, InvariantHolds, PTL

\* Whatever partitions come up in whatever order, switch_root runs only with
\* every precondition of the hand-over met.
THEOREM HandoffIsComplete == Spec => []HandoffComplete
<1>1. IInv => HandoffComplete
    <2> SUFFICES ASSUME IInv, pc = "handoff" PROVE HandoffComplete
        BY DEF HandoffComplete
    <2>1. step = "none"
        BY DEF IInv, PlaceOK
    <2>2. ~ diagnostic /\ sysroot = "ro"
        BY DEF IInv, MountOK, PastMount
    <2>3. device \in labelled /\ parts[device] = "node"
        BY DEF IInv, NodeOK, PastNode
    <2>4. moved = Dir /\ sshd # "on" /\ ~ pidfile
        BY DEF IInv, MovesOK, SshOK
    <2>5. modules = {"phy", "host"} /\ smmuReady
        BY <2>1 DEF IInv, HostOK, PastHost, StreamsOK, StreamsPending
    <2>6. QED
        BY <2>2, <2>3, <2>4, <2>5, Zenon DEF HandoffComplete
<1>2. QED
    BY <1>1, InvariantHolds, PTL

\* No sequence of touches makes a diagnostic boot write to userdata or leave
\* for Debian.
THEOREM DiagnosticIsReadOnly == Spec => []DiagnosticReadOnly
<1>1. IInv => DiagnosticReadOnly
    BY DEF IInv, MountOK, PastMount, MovesOK, DiagnosticReadOnly
<1>2. QED
    BY <1>1, InvariantHolds, PTL

\* A rescue shell has its log, whichever step it was entered from.
THEOREM RescueHasLog == Spec => []RescueKeepsItsLog
<1>1. IInv => RescueKeepsItsLog
    BY DEF IInv, PlaceOK, MovesOK, RescueKeepsItsLog
<1>2. QED
    BY <1>1, InvariantHolds, PTL

\* However many touches arrive and whenever, each starts at most one step.
THEOREM TouchesBoundSteps == Spec => []OneTouchOneStep
<1>1. IInv => OneTouchOneStep
    BY DEF IInv, OperatorOK, OneTouchOneStep
<1>2. QED
    BY <1>1, InvariantHolds, PTL
=============================================================================
