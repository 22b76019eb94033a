------------------------------ MODULE EarlyBoot ------------------------------
(***************************************************************************)
(* initramfs/rootfs-init (/pianoinit), PID 1 from the kernel's hand-over   *)
(* to systemd: a shell script that opens an SSH way in, repairs the SMMU,  *)
(* loads the UFS drivers, waits for userdata, mounts it read-only and      *)
(* moves into it - or falls into a rescue loop that it never leaves.       *)
(*                                                                         *)
(* Around it run the kernel (a partition first gets its sysfs entry, then  *)
(* its device node), the SSH daemon (which may die) and, in a diagnostic   *)
(* boot, an operator who answers every step with /run/piano-next.          *)
(***************************************************************************)
EXTENDS Naturals, FiniteSets

CONSTANTS
    Parts,      \* partitions the UFS host may bring up
    NoPart,     \* $device while it is empty
    PollLimit,  \* polls for userdata; 90 in the code
    MaxTouches  \* bound: how often the operator touches /run/piano-next

ASSUME EarlyBootAssumption ==
    NoPart \notin Parts /\ PollLimit \in Nat /\ MaxTouches \in Nat

VARIABLES
    \* fixed by the image, the command line and the kind of boot
    given,      \* which of the facts below hold
    labelled,   \* partitions whose PARTNAME is userdata
    \* the script
    pc,         \* what it does next
    step,       \* the step it is in or waits to begin, or "none"
    reason,     \* /run/rootfs-error: the argument of rescue
    n,          \* polls made
    device,     \* $device
    \* the system
    run,        \* the marker files in /run
    net,        \* "ready" once NCM_READY was logged
    sshd,       \* dropbear: off, on, or dead without having removed its file
    modules,    \* UFS modules loaded
    parts,      \* what the kernel shows of each partition
    sysroot,    \* how /sysroot is mounted
    moved,      \* API file systems moved into /sysroot
    \* the operator
    touches,    \* times /run/piano-next was touched
    begun       \* BEGIN lines logged

image   == <<given, labelled>>
storage == <<modules, parts, n, device>>
rootfs  == <<sysroot, moved>>
vars    == <<image, pc, step, reason, run, net, sshd, storage, rootfs, touches,
             begun>>

\* /etc/piano/diagnostic exists; the last root= is PARTLABEL=userdata; dwc3 is
\* bound (a warm boot: there is a USB controller).
Facts      == {"diagnostic", "root=userdata", "dwc3"}
diagnostic == "diagnostic" \in given

\* /run/piano-smmu-ready, /run/piano-dropbear.pid, /run/piano-next
Markers   == {"smmu-ready", "dropbear.pid", "next"}
smmuReady == "smmu-ready" \in run
pidfile   == "dropbear.pid" \in run

\* The steps announced with step().
Step == {"smmu", "ufs-clkref", "ufs-phy", "ufs-host", "mount-root", "switch-root"}

\* The directories moved, each with those that go before it (lines 131, 134).
Dir    == {"dev", "proc", "sys", "run"}
Before == [dev |-> {}, proc |-> {"dev"}, sys |-> {"dev", "proc"},
           run |-> {"dev", "proc", "sys"}]

At(place, s)   == pc = place /\ step = s
Goto(place, s) == pc' = place /\ step' = s

\* rescue: record the reason and stay in a shell loop for ever.
Rescue(why) == Goto("rescue", "none") /\ reason' = why

Init ==
    /\ given \in SUBSET Facts
    /\ labelled \in SUBSET Parts
    /\ pc = "net" /\ step = "none"
    /\ reason = "none"
    /\ n = 0 /\ device = NoPart
    /\ run = {}
    /\ net = "down" /\ sshd = "off"
    /\ modules = {}
    /\ parts = [p \in Parts |-> "absent"]
    /\ sysroot = "unmounted" /\ moved = {}
    /\ touches = 0 /\ begun = 0

\* Lines 40-45.  usb-network gives up after 120 s and dropbear may fail:
\* either is a warning.
NetUp ==
    /\ At("net", "none") /\ "dwc3" \in given
    /\ net' = "ready" /\ sshd' = "on" /\ run' = run \cup {"dropbear.pid"}
    /\ Goto("wait", "smmu")
    /\ UNCHANGED <<image, reason, storage, rootfs, touches, begun>>

NetUnavailable ==
    /\ At("net", "none")
    /\ Goto("wait", "smmu")
    /\ UNCHANGED <<image, reason, run, net, sshd, storage, rootfs, touches, begun>>

\* Mutant: /run/piano-next is not removed (line 52).
BeginKeepsNext(s) ==
    /\ At("wait", s)
    /\ diagnostic => "next" \in run
    /\ begun' = begun + 1
    /\ Goto("run", s)
    /\ UNCHANGED <<image, reason, run, net, sshd, storage, rootfs, touches>>

\* step(): a diagnostic boot waits for /run/piano-next and consumes it.
Begin(s) ==
    /\ At("wait", s)
    /\ diagnostic => "next" \in run
    /\ run' = IF diagnostic THEN run \ {"next"} ELSE run
    /\ begun' = begun + 1
    /\ Goto("run", s)
    /\ UNCHANGED <<image, reason, net, sshd, storage, rootfs, touches>>

\* Mutant: the first batch of streams is as optional as the second.
SmmuRepairOptional ==
    /\ At("run", "smmu")
    /\ run' \in {run, run \cup {"smmu-ready"}}
    /\ Goto("wait", "ufs-clkref")
    /\ UNCHANGED <<image, reason, net, sshd, storage, rootfs, touches, begun>>

\* Lines 57-69: the UFS, QUP and WLAN streams or rescue; the ADSP streams are
\* optional, and the flag is set in both cases.
SmmuRepair ==
    /\ At("run", "smmu")
    /\ \/ /\ run' = run \cup {"smmu-ready"}
          /\ Goto("wait", "ufs-clkref") /\ UNCHANGED reason
       \/ Rescue("smmu") /\ UNCHANGED run
    /\ UNCHANGED <<image, net, sshd, storage, rootfs, touches, begun>>

\* Lines 73-74: read and write back one register.
RefClock ==
    /\ At("run", "ufs-clkref")
    /\ \/ Goto("wait", "ufs-phy") /\ UNCHANGED reason
       \/ Rescue("clkref")
    /\ UNCHANGED <<image, run, net, sshd, storage, rootfs, touches, begun>>

\* Lines 77 and 80.
Modprobe(s, m, place, then) ==
    /\ At("run", s)
    /\ \/ modules' = modules \cup {m} /\ Goto(place, then) /\ UNCHANGED reason
       \/ Rescue(s) /\ UNCHANGED modules
    /\ UNCHANGED <<image, run, net, sshd, parts, n, device, rootfs, touches, begun>>

LoadPhy  == Modprobe("ufs-phy", "phy", "wait", "ufs-host")
LoadHost == Modprobe("ufs-host", "host", "root", "none")

\* Lines 82-88.
CheckRootArg ==
    /\ At("root", "none")
    /\ IF "root=userdata" \in given
       THEN Goto("poll", "none") /\ UNCHANGED reason
       ELSE Rescue("root")
    /\ UNCHANGED <<image, run, net, sshd, storage, rootfs, touches, begun>>

\* The userdata partitions sysfs shows.
Visible == {p \in labelled : parts[p] # "absent"}

\* Mutant: one poll too many.
PollOnceMore ==
    /\ At("poll", "none")
    /\ IF n > PollLimit THEN Goto("node", "none") /\ UNCHANGED n
       ELSE n' = n + 1 /\ UNCHANGED <<pc, step>>
    /\ UNCHANGED <<image, reason, run, net, sshd, device, modules, parts, rootfs,
                   touches, begun>>

\* Mutant: n is not counted up.
PollForEver ==
    /\ At("poll", "none")
    /\ Cardinality(Visible) = 1
    /\ device' = CHOOSE p \in Visible : TRUE
    /\ Goto("node", "none")
    /\ UNCHANGED <<image, reason, run, net, sshd, n, modules, parts, rootfs,
                   touches, begun>>

\* Lines 91-102: one pass over /sys/class/block.
Poll ==
    /\ At("poll", "none")
    /\ \/ /\ n = PollLimit
          /\ Goto("node", "none") /\ UNCHANGED <<reason, n, device>>
       \/ /\ n < PollLimit /\ Cardinality(Visible) > 1
          /\ Rescue("ambiguous") /\ UNCHANGED <<n, device>>
       \/ /\ n < PollLimit /\ Cardinality(Visible) = 1
          /\ device' = CHOOSE p \in Visible : TRUE
          /\ Goto("node", "none") /\ UNCHANGED <<reason, n>>
       \/ /\ n < PollLimit /\ Visible = {}
          /\ n' = n + 1 /\ UNCHANGED <<pc, step, reason, device>>
    /\ UNCHANGED <<image, run, net, sshd, modules, parts, rootfs, touches, begun>>

\* Line 103.
CheckNode ==
    /\ At("node", "none")
    /\ IF device # NoPart /\ parts[device] = "node"
       THEN Goto("wait", "mount-root") /\ UNCHANGED reason
       ELSE Rescue("absent")
    /\ UNCHANGED <<image, run, net, sshd, storage, rootfs, touches, begun>>

MountOptions == IF diagnostic THEN "ro,noload" ELSE "ro"

\* Lines 106-113: a diagnostic boot ends here.
MountRoot ==
    /\ At("run", "mount-root")
    /\ \/ /\ sysroot' = MountOptions
          /\ Goto(IF diagnostic THEN "parked" ELSE "verify", "none")
          /\ UNCHANGED reason
       \/ Rescue("mount") /\ UNCHANGED sysroot
    /\ UNCHANGED <<image, run, net, sshd, storage, moved, touches, begun>>

\* Lines 115-123: an executable init and this kernel's module tree.
VerifyRoot ==
    /\ At("verify", "none")
    /\ \/ Goto("wait", "switch-root") /\ UNCHANGED reason
       \/ \E why \in {"init", "modules"} : Rescue(why)
    /\ UNCHANGED <<image, run, net, sshd, storage, rootfs, touches, begun>>

\* Mutant: the pid file is removed, the daemon is not stopped.
StopSshFileOnly ==
    /\ At("run", "switch-root")
    /\ run' = run \ {"dropbear.pid"}
    /\ Goto("dirs", "none")
    /\ UNCHANGED <<image, reason, net, sshd, storage, rootfs, touches, begun>>

\* Lines 127-130: kill fails when the daemon is gone but its file is not.
StopSsh ==
    /\ At("run", "switch-root")
    /\ IF pidfile /\ sshd # "on"
       THEN Rescue("ssh") /\ UNCHANGED <<sshd, run>>
       ELSE /\ sshd' = (IF pidfile THEN "off" ELSE sshd)
            /\ run' = run \ {"dropbear.pid"}
            /\ Goto("dirs", "none") /\ UNCHANGED reason
    /\ UNCHANGED <<image, net, storage, rootfs, touches, begun>>

\* Lines 131-133: every target is checked before anything moves.
CheckDirs ==
    /\ At("dirs", "none")
    /\ \/ Goto("move", "none") /\ UNCHANGED reason
       \/ Rescue("dirs")
    /\ UNCHANGED <<image, run, net, sshd, storage, rootfs, touches, begun>>

\* Mutant: the loop runs the other way round, /run first.
NextDirReversed(d) == d \notin moved /\ \A e \in Dir \ moved : d \notin Before[e]

\* The directory the loop of lines 134-136 is at: the first not yet moved.
NextDir(d) == d \notin moved /\ Before[d] \subseteq moved

MoveMount(d) ==
    /\ At("move", "none") /\ NextDir(d)
    /\ \/ moved' = moved \cup {d} /\ UNCHANGED <<pc, step, reason>>
       \/ Rescue("move") /\ UNCHANGED moved
    /\ UNCHANGED <<image, run, net, sshd, storage, sysroot, touches, begun>>

\* Line 137: exec switch_root.  If it fails PID 1 has nothing left to run: its exit
\* is the end of the kernel.
SwitchRoot ==
    /\ At("move", "none") /\ moved = Dir
    /\ Goto("handoff", "none") \/ Goto("panic", "none")
    /\ UNCHANGED <<image, reason, run, net, sshd, storage, rootfs, touches, begun>>

Script ==
    \/ NetUp \/ NetUnavailable
    \/ \E s \in Step : Begin(s)
    \/ SmmuRepair \/ RefClock \/ LoadPhy \/ LoadHost
    \/ CheckRootArg \/ Poll \/ CheckNode \/ MountRoot \/ VerifyRoot
    \/ StopSsh \/ CheckDirs \/ (\E d \in Dir : MoveMount(d)) \/ SwitchRoot

\* The kernel registers a partition: its class entry and uevent first, its
\* node in devtmpfs later.
PartStep(p) ==
    /\ "host" \in modules /\ pc # "panic"
    /\ \/ parts[p] = "absent" /\ parts' = [parts EXCEPT ![p] = "sysfs"]
       \/ parts[p] = "sysfs"  /\ parts' = [parts EXCEPT ![p] = "node"]
    /\ UNCHANGED <<image, pc, step, reason, run, net, sshd, modules, n, device,
                   rootfs, touches, begun>>

\* dropbear is killed by something else: the pid file stays.
SshDies ==
    /\ sshd = "on"
    /\ sshd' = "dead"
    /\ UNCHANGED <<image, pc, step, reason, run, net, storage, rootfs, touches,
                   begun>>

\* The operator of a diagnostic boot, who has no way in but SSH; nothing
\* stops a touch before the WAIT it is meant for.
Touch ==
    /\ diagnostic /\ net = "ready" /\ touches < MaxTouches
    /\ run' = run \cup {"next"} /\ touches' = touches + 1
    /\ UNCHANGED <<image, pc, step, reason, net, sshd, storage, rootfs, begun>>

\* PID 1 sits in the rescue shell, in the diagnostic sleep, is systemd, or is gone.
Ended == pc \in {"rescue", "parked", "handoff", "panic"}

Next ==
    \/ Script
    \/ \E p \in Parts : PartStep(p)
    \/ SshDies
    \/ Touch

Spec == Init /\ [][Next]_vars

\* The script runs whenever it can: every command it waits for returns.
FairSpec == Spec /\ WF_vars(Script)
-----------------------------------------------------------------------------
Reasons == {"none", "smmu", "clkref", "ufs-phy", "ufs-host", "root", "ambiguous",
            "absent", "mount", "init", "modules", "ssh", "dirs", "move"}

TypeOK ==
    /\ given \subseteq Facts
    /\ run \subseteq Markers
    /\ net \in {"down", "ready"}
    /\ labelled \subseteq Parts
    /\ pc \in {"net", "wait", "run", "root", "poll", "node", "verify", "dirs",
              "move", "rescue", "parked", "handoff", "panic"}
    /\ step \in Step \cup {"none"}
    /\ reason \in Reasons
    /\ n \in 0 .. PollLimit
    /\ device \in Parts \cup {NoPart}
    /\ sshd \in {"off", "on", "dead"}
    /\ modules \subseteq {"phy", "host"}
    /\ parts \in [Parts -> {"absent", "sysfs", "node"}]
    /\ sysroot \in {"unmounted", "ro", "ro,noload"}
    /\ moved \subseteq Dir
    /\ touches \in 0 .. MaxTouches
    /\ begun \in Nat
\* No UFS driver is loaded before the SMMU lets their DMA through, and the
\* rescue message of line 58 ("DMA drivers remain unloaded") is true for ever.
NoDmaBeforeStreams ==
    /\ modules # {} => smmuReady
    /\ reason = "smmu" => modules = {}

\* What systemd finds: the only root it may start on, mounted read-only for
\* its own fsck, with every API file system, every driver and no initramfs
\* SSH daemon left on port 22 (lines 105-137).
HandoffComplete ==
    pc = "handoff" =>
        /\ ~ diagnostic
        /\ device \in labelled /\ parts[device] = "node"
        /\ sysroot = "ro" /\ moved = Dir
        /\ modules = {"phy", "host"} /\ smmuReady
        /\ sshd # "on" /\ ~ pidfile

\* "Diagnostic boots never replay the journal or start a writable Debian
\* system" (line 109), whatever the operator touches and when.
DiagnosticReadOnly ==
    diagnostic => sysroot # "ro" /\ moved = {} /\ pc # "handoff"

\* A rescue shell always finds its log and /run/rootfs-error where they were
\* written, even when it is entered half-way through the moves.
RescueKeepsItsLog ==
    pc = "rescue" => reason # "none" /\ "run" \notin moved

\* In a diagnostic boot a touch lets at most one step begin, however touches
\* and waits interleave (lines 49-55).
OneTouchOneStep == diagnostic => begun <= touches

\* A boot without an operator always gets somewhere: it never hangs between
\* two steps, with or without USB, storage or userdata, but ends in the hand-over,
\* in a rescue, or with the failure of switch_root itself.
BootEnds == (~ diagnostic) ~> Ended

\* The line rescue() logs (29): the shell is reachable over SSH - where the
\* network came up and nothing killed the daemon.
RescueReachable ==
    pc = "rescue" /\ net = "ready" /\ sshd # "dead" => sshd = "on"
=============================================================================
