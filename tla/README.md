# TLA+ models of piano-debian

This directory holds TLA+ specifications of the programs that boot Debian on the
tablet "piano" and bring up its hardware, model-checking runs for them, and proofs, for
every value of the constants, of what matters most about ten of these programs: the SMMU
repair, the boot script, the bring-up services, the touch daemon, the power button, the
test image, the sparse image writer, and of avbtool the image handler, the footer commands
and the verification of vbmeta images. Source paths are relative to the repository root.

    tlc -config MCSmmuMatch.cfg MCSmmuMatch.tla      one run (a second to two and a half minutes each)
    tlapm SmmuMatch_proofs.tla                       the proofs about one module

`PROJECT.json` lists the runs, the source lines every definition stands for, the
hazards of the code with the properties that cover them, and for every checked
property a *mutant*: a plausible mistake in one definition with which TLC finds the
property violated (the operators marked "Mutant:" in the modules).

1. [The system](#1-the-system)
2. [Modules and how they correspond to the code](#2-modules-and-how-they-correspond-to-the-code)
3. [Runs, bounds, fairness](#3-runs-bounds-fairness)
4. [Proofs](#4-proofs)
5. [Where the code disagrees with what it says](#5-where-the-code-disagrees-with-what-it-says)
6. [Not modelled](#6-not-modelled)
7. [Plan](#7-plan)

## 1. The system

A boot goes through four stages, each of which trusts the one before:

    bootloader (ABL) --boot.img--> kernel + initramfs: rootfs-init is PID 1
      rootfs-init: USB network and SSH, piano-qup-smmu, UFS drivers, mount userdata
        --switch_root--> systemd: piano-*.service in order, each a shell script
          --> gdm; the touch daemon and the power-button service run from then on

A second image (`initramfs/init`) stays in the initramfs and serves bring-up tests.
On the build host, Python and shell programs make the images that are flashed.

| component | state it keeps | operations | hard about it | correct when |
|---|---|---|---|---|
| **SMMU repair** `initramfs/tests/piano-qup-smmu` | the SMR/S2CR register files of the apps SMMU | match a list of stream ranges; `--check` | works on registers live DMA goes through; may be killed between two writes; run again with overlapping ranges; a hypervisor may ignore a write | no stream matched twice, none live on a stale route, the bootloader's own entries untouched, exit 0 means routed |
| **Production initramfs** `initramfs/rootfs-init` | marker files in `/run`, mounts, loaded UFS modules, the SSH daemon | a sequence of steps, a poll for userdata, the moves into `/sysroot`, `rescue` | every step may fail; devices appear when they want; a rescue may be entered half-way through the moves; in diagnostic boots an operator releases each step with a file | no DMA before the repair, complete hand-over or a usable rescue, never stuck, diagnostic boots write nothing |
| **Bring-up services** `rootfs/overlay/usr/lib/piano/*-start`, `piano-*.service` | modules, bound devices, `/run/piano-*` | seven scripts of waits and loads under systemd ordering | scripts overlap, devices bind late or never, time-outs of units against the waits in their scripts, the display takeover wedges the touch controller | masters only with stream matches (the ADSP in its turn), touch survives, units fail only for a cause, login screen always |
| **Touch daemon** `initramfs/touch-view/piano-touch-view.c` | a byte buffer; frame type, shape and reference; contacts in slots; what was written to uinput | read and cut the record stream; take and follow a reference; find points; match them to slots; report | records in pieces, stray bytes; fingers during start-up, drift; contacts that land, cross, lift and are replaced in one frame; ID wrap; restart | records once and in order; a reference without fingers in it; readers see the tracker's contacts and a legal protocol |
| **Power button** `…/piano/power-button` | time of the press, saved brightness | short press, long press | the release races the time-out; events queue while the service blocks; others change the brightness; restarts | one act per press, the user's brightness comes back, dialog only for a held key |
| **Test image** `initramfs/init`, `initramfs/tests/piano-touch-test` | marker files, modules, evidence lines | main script, beacon, radio ladder, diagnostics loop; staged touch test | four processes and an operator; waits with bounds; two test runs that meet | always ends in a shell, evidence is true, no DMA before the streams |
| **Sparse images** `scripts/ext4-to-simg.py`; class `ImageHandler` of `avb/avbtool.py` | chunk list; header counts in the file and in memory | convert; read, seek, append, truncate in place | chunk boundaries, full disk between two writes | what is flashed is the image; the handler behaves as a flat file |
| **Footers** `avb/avbtool.py`, called by `scripts/sign-boot-avb.sh` | the image, its struct and footer | add_hash(tree)_footer, append_vbmeta_image, resize, erase, zero | exceptions and kills between steps, any sequence of commands | the image data survives; a footer is true; adding is idempotent |
| **vbmeta images** `avb/avbtool.py` | images with footers, vbmeta images that include or chain others; the descriptors `verify_image` has still to check | add footers with descriptors, make_vbmeta_image, verify_image, calculate_vbmeta_digest, calculate_kernel_cmdline | images are built again, damaged or cut short after others were made from them; hash trees laid out for another program, the kernel | what is accepted is what was signed and what is pinned; no false alarm; the kernel can read it |
| **mkbootimg** `mkbootimg/*.py` | a boot or vendor_boot image | pack, unpack, print the options, repack in place | two independent computations of where each file is; the image is emptied before the last checks; a chain of programs that may fail | what is read back was packed; the printed options make the same image; a repack changes the ramdisk only |
| **Rest of avbtool** keys, certificates, A/B metadata, FEC | – | each writes one file | large numbers | not modelled |
| **Bluetooth scanner, PD locator** `initramfs/bt-scan`, `initramfs/pd-locator` | HCI/QRTR sockets | commands, events, announcements | late answers, retries | planned |
| **Small services** `swapfile-start`, `pstore-save`, `usb-network`, `cpufreq-start` | a swap file, an archive, a gadget | once per boot | crash between two steps | planned |
| **Build scripts** `scripts/build-*.sh` and others | files in an output directory | compile, pack, sign | gates, leftovers of a failed build | partly planned |
| **Tests and helpers** `piano-tests`, `piano-*-test`, `piano-collect*`, `piano-smoke` | – | prompts, log collection | hardly any | not modelled |
| **Data** device trees, topology, configuration, CI | – | – | – | not modelled |

Components interact through few things: registers and modules in the kernel, marker
files (`/run/piano-smmu-ready` above all: the initramfs writes it, six scripts refuse
to go on without it), the journal of systemd jobs, and image files. `/run` survives
the hand-over because `rootfs-init` moves it, last.

## 2. Modules and how they correspond to the code

| module | models | state |
|---|---|---|
| `SmmuMatch` | `piano-qup-smmu` | register files, the script's variables, the place in it |
| `StreamRouting` | what its header promises | the route of each stream |
| `EarlyBoot` | `rootfs-init` | place, step, marker files, modules, mounts, sshd, partitions |
| `BringUp` | the services after the hand-over | per unit: place in its script, time spent; modules, devices, panel, touch controller |
| `TouchTracker` | `track()`, `ui_report()`, the input core | `trk`, `reported_touch`, the slots readers see |
| `MtProtocol` | the multi-touch protocol, type B | contact in each slot, BTN_TOUCH |
| `ThpReference` | `handle_frame()` up to `find_points()` | probe counts, reference, baseline and finger |
| `ThpStream` | the buffer loop of `main()` | the wire, the buffer, the records handled |
| `PowerButton` | the service's event loop | event queue, press, saved level, running calls |
| `TestImage`, `TouchTest` | PID 1 of the test image; the staged touch test | places, marker files, modules |
| `SparseImage` | `ext4-to-simg.py`, and flashing its output | ranges, extents, chunks, the partition |
| `ImageHandler`, `FlatImage` | class `ImageHandler`; what it promises | file and memory; content and cursor |
| `ImageFooter` | the footer commands of avbtool | the image as a sequence of units, the running command |
| `HashTree` | the hash tree of avbtool, and dm-verity reading it | – (functions) |
| `VbmetaImage` | vbmeta structs: descriptors, header, signing, finding, checking | – (functions) |
| `AvbImages` | the images of a build, the commands that bind them, verify_image | the images, what was made of them, the descriptors still to verify |
| `BootImage` | mkbootimg, unpack_bootimg, the options it prints | – (functions) |
| `RepackBoot` | running mkbootimg and repack_bootimg | the image, what is in it, the running chain of programs, the clock |

Three modules compose what one run checks. `MCTouch` runs the three stages of the touch
daemon, `MCImages` the four programs that write images, `MCTestImage` the two programs of
the test image. In the first two a behaviour takes steps of one part only, because the
parts share nothing but finished results: a record, a frame of points, an image file.

An action is one uninterruptible piece of a program: what happens between two points
at which another process, the kernel, a crash or an operator can come in.

**SmmuMatch.** A stream ID is the set of the positions of its 1 bits, so that
`(a ^ b) & ~mask == 0` is set algebra and everything holds for any width. `Start`
reads the identification registers and finds the USB entry; each argument is checked
(`RefuseArg`, `SkipArg`, `ClaimSlot`), then `WriteRoute` writes S2CR, `WriteMatch` writes SMR, and
`Recheck` reads it back; `Interrupt` may come anywhere. Assumptions about the hardware:
reads succeed, an S2CR write takes effect, an SMR write takes effect unless the
hypervisor rejects its mask (`Rejected`). `Routing` is the refinement mapping: what
the two tables together do to each stream.

**EarlyBoot.** `pc` and `step` are the place in the script, `reason` the argument
`rescue` was called with. Every command that can fail has both outcomes. In a
diagnostic boot `Begin` waits for the operator's file and removes it. `SwitchRoot` hands
over or fails, which ends PID 1 (`panic`). `PartStep` is the
kernel: a partition gets its sysfs entry before its node, so that the poll may see a
partition whose node does not exist yet. `SshDies` leaves the pid file behind.

**BringUp.** A unit's script is the sequence of its instructions (`Need`, `Load`,
`Wait`, `Do`), each with what its failure does: end the script with 1, with 0, or warn;
every modprobe, register access and unbind of the seven scripts is one.
systemd starts a unit when the jobs named in `After` are over, in whatever way, and
kills it after `TimeoutStartSec`. Devices that take long (the DSI output, the touch
controller, the ADSP) bind asynchronously; others are bound by the end of the wait for
them or are dead in this boot. A wait either takes its whole time or none, per boot.
`modprobe` takes no time and fails only for a module that the root file system lacks.
The takeover by msm makes a touch controller that was set up before it `wedged`;
`rebind` makes it fresh.

**TouchTracker.** A frame is a sequence of positions, no two equal, as `find_points`
delivers it. `HandleFrame` is all of `track()` and `ui_report()`: slots look for their nearest
point in slot order (`Best`), slots without one end, the remaining points go to slots
that are neither active nor just ended (`Idle`), then the events of each slot and the
single-touch ones are written up to `SYN_REPORT`. `Exit` is the end of the process, which destroys the uinput device.

**ThpReference, ThpStream.** Before the contacts stand two other filters. The stream
is a sequence of records and stray bytes delivered in arbitrary pieces; one model byte
stands for a header field. The matrix is a set of nodes: the value of each in a frame is a
baseline, which drifts by at most one per frame, each node by itself, plus the signal of a
finger on it. The reference is followed only in a frame in which no node has half a touch
(`Quiet`, the maximum of line 666), so that a finger anywhere holds it everywhere: `held`
counts the frames with a finger. Points are what `find_points()` makes of one frame, and TouchTracker
takes any of them.

**PowerButton.** Key events reach a queue while the service is busy in `gdbus` calls,
and `read` takes all of them. `Tick` is time, which only matters for how long the key is
held. `Desktop` writes the brightness. A `SetBrightness` may fail (`Refused`), of which the
service takes no notice. A crash loses `saved`; systemd restarts the
service. Not modelled: an event queue that overflows, no backlight device at all.

**TestImage, TouchTest.** The four processes of `initramfs/init` with the marker files
through which an operator stops or holds them; the stages of `piano-touch-test`, two
runs at a time, with the result file they share. They share no state either, and
`MCTestImage` runs one or the other.

**SparseImage.** The three loops of the converter step by step, the `sys.exit` for a raw
image that is too short, and then the bootloader that writes the chunks. **ImageHandler**
has the file and what the object remembers of it as separate variables; each append and
cut changes the file in the order of the code and reads it again, and a full disk can
stop an append in the middle. The caller's truncate then repairs a plain file but returns
before it touches a sparse one, whose header stays torn (`failed = "restored"`). The header of an Android sparse image is its two counts, a
chunk its kind, size and data. Files with CRC32 chunks and empty plain files are left
out (section 5 says why).

**ImageFooter.** The image is a sequence of units: image data, NULs, tree, FEC, a struct,
a footer. A command goes through open (which cuts off what an earlier run added), check,
tree, FEC, making the struct, append, gap, footer; `Exception` runs the handler of the
command at any step, `Kill` does not. `FooterCommands` is any set of commands, with structs
of any size, larger than `MaxVbmeta` (64 KiB in the code) too, which avbtool does not check.
In three ways avbtool itself spoils an image, and `spoilt` tells of them: a struct and footer
without room cut the image (`"cut"`, lines 3364, 3587, 3875); zero_hashtree of an empty tree writes a
block and moves the footer behind it (`"shifted"`, 2338–2344); and a full disk in an append
to a sparse image leaves a torn header, which truncating to the old size does not mend
(`Tear`, `"torn"`). Bounds: nothing is run on a spoilt image; a tree has one level or none; a
kept tree becomes part of the image at most once; appends to a plain image and cuts happen
wholly or not at all (ImageHandler has them in parts).

**HashTree, VbmetaImage, AvbImages.** A file is a sequence of cells; a digest is one cell
and carries what was hashed, a signature what was signed and with which key, so that no two
inputs have the same and nothing else does. The struct is really laid out: header,
authentication block, auxiliary block with sizes and offsets as the header has them, and
every reader goes by the header. Blocks have two cells, which makes trees of two levels
with a partly filled last block out of five cells. A command that writes is one step
(ImageFooter has them in parts); `verify_image` is one step per descriptor, and one per
block where it hashes a tree. `Build` makes an image anew, `Zero` damages a copy at the
first cell of each kind, `Truncate` cuts it there. `made` is a history variable: what the
last command that wrote an image made of it. Left out: salts, FEC, rollback indexes, the
printed forms, and partitions without a name (section 5). Bounds: an image that is built
gets a footer that takes descriptors from no other image, and the output of
make_vbmeta_image is no image that is built. That output is emptied before any included
image is read, as argparse does it. `Deepened` follows chains as print_partition_digests
does, from image to image to any depth, while `VbmetaDigest` takes one step. `VerityAccepts`
is the reference: dm-verity from its own definition, with none of avbtool's offsets.

**BootImage, RepackBoot.** A cell stands for 1024 bytes. The writer pads as it goes, the
reader computes offsets from the header; both are translated as they are. A command line
is a record of its options after argparse. A repack is a chain: unpack, add files, pack
the ramdisk, `Open` (mkbootimg's argument parsing, which empties the image), `Write`;
`Die` ends it anywhere, inside `Write` with a part of the image written; a value that
mkbootimg refuses while it writes the header leaves a part of that (`Torn`). `want` is a
history variable: what has been put in. `clock` counts the seconds that name a ramdisk.

## 3. Runs, bounds, fairness

| run | checks | bounds, and why they are enough | states |
|---|---|---|---|
| `smmu` | TypeOK, TablesSound, OkMeansRouted, RepairsRouting | 3 bits, of which 2 can be masked: ranges that are equal, nested, disjoint and overlapping; 9 register files (with room, full, no USB entry, USB faulting, too many registers…); 1 or 2 arguments out of 9, so that one repeats or overlaps the other; 2 runs | 28 333 |
| `early_boot` | TypeOK, NoDmaBeforeStreams, HandoffComplete, RescueKeepsItsLog, OneTouchOneStep, BootEnds | 2 partitions (none, one or both labelled userdata); 3 polls for 90: before, at and after the last one; 7 touches, one more than a diagnostic boot consumes | 15 184 |
| `bring_up` | TypeOK, MastersInOrder, TouchSurvivesTakeover, LostForCause, LoginScreen | 9 boots that differ in stream matches, disabled units, last display stage, slow devices, DSI lock at 0, 80, 110 and 151 s, missing modules, dead devices; in each some independent units are off so that the others interleave | 224 399 |
| `touch` | TypesOK, FramesAgree, ReferenceSound, RecordsInOrder, FollowsProtocol, FingersForgiven | contacts: 3 slots, 4 positions, distance 2: two slots that want one point, crossing, replacing, no slot left; IDs modulo 8 starting before the wrap, 4 contacts. Stream: up to 3 records or stretches of bytes, bodies up to 2 (any content, the magic too), a buffer just larger than a record. Reference: 2 nodes, which may swap; 3 frame types of which one is the stylus, 2 shapes, 3 frames per decision, threshold 20, baselines that drift by half of it, a patience of 2 frames: fingers that stay shorter and longer | 1 382 462 |
| `power_button` | TypeOK, PressesDoOneThing, DialogOnlyWhileHeld, PressDecided | levels 0–2, long press 2 ticks (so shorter, equal, longer), 3 presses, 1 crash, 1 write by others, 1 call that fails | 25 232 |
| `test_image` | TypesOK, StreamsBeforeDma, Pid1Ends | waits of 2 polls instead of 30 and 75: answers before, at and after the end; 2 holds; 6 stage ranges (default, all, single, last, empty) for each of 2 runs | 245 899 |
| `images` | TypesOK, Flashed, FileAgrees, FootersSound, ReadsBack, Repackable, Implements | writer: every list of free ranges of 6 blocks, chunks of 2 blocks, raw images of every length. Handler: 3 files, 3 payloads, 3 offsets, 3 blocks of 2 units, 4 chunks: cuts at, before and within every kind of chunk. Footers: images shorter than a block, unaligned and aligned, plain and sparse; partitions too small, exact and larger; structs smaller and larger than what is reserved for them, appended or not; empty trees; one exception or kill; any number of commands. Boot images: every header version with and without each file, absent, empty, filling its pages or not; command lines up to one character too long; addresses up to one too large; 0 to 2 vendor ramdisks; a repack adds any set of 3 files of which one is missing; 2 seconds | 285 003 |
| `vbmeta` | TypeOK, VerifySound, FreshVerifies, DeviceUnderstands, DigestPins | 4 images, one with a digest, one with a tree, two that include and chain in both orders; 4 footer commands, 8 vbmeta commands (one makes a chain of three images, one includes the image it writes), 6 verifications, so that each check of the code has a command that passes and one that fails it; one build or bad copy: the properties compare each image with one other state of it; any number of commands | 282 814 |
| `early_boot_rescue` | RescueReachable — violated | as `early_boot` | |
| `power_button_toggle` | ShortPressToggles — violated | 2 presses, 1 write by the desktop, no crash | |
| `image_footer_tight` | NothingCutOff — violated | a partition without room | |
| `vbmeta_truncated` | VerifyEnds — violated | one image with a tree, verified by itself and through an image that includes it | |

What they show:

- *TablesSound*: at every moment at which DMA may be under way, also if the script is
  killed there. *RepairsRouting*: seen from a device, whole ranges change from faulting
  to the route of USB and nothing else ever changes (refinement of `StreamRouting`).
- *HandoffComplete*: systemd never gets half a system. *RescueKeepsItsLog*: `/run` moves
  last, and no failure of a move leads to a rescue without its log. *BootEnds*: a boot
  without an operator reaches hand-over, rescue, or the failure of `switch_root` itself.
- *MastersInOrder*: no module that makes a DMA master of the application processor run is
  loaded by any script on a boot without stream matches – not even one loaded on behalf of
  another unit – and the codec probes only in a translated domain. The ADSP is the exception:
  `adsp-start` loads its driver and starts it without asking for matches, which
  `rootfs-init:62` accepts; it only waits until the display and touch jobs are over.
  *LostForCause*: the order and time-outs of
  the units kill no unit whose devices are only as slow as its own script allows, with
  the one exception the display script documents; and no unit fails for being started
  before its supplier. *LoginScreen*: gdm starts in any case.
- *FollowsProtocol*: whatever fingers do, readers of the uinput device see legal
  multi-touch (refinement of `MtProtocol`); *FramesAgree* and *FingersForgiven* say that
  they also see the right contacts, under the same ID for the same finger.
- *PressesDoOneThing*, *DialogOnlyWhileHeld*: one press never toggles *and* opens the dialog,
  and a release that is queued behind a blocking call is not overlooked; waking restores
  the level the user had, where nobody else writes the brightness and no call fails, and
  `power_button_toggle` shows why it has to say so.
- *FingersForgiven*, for the reference: the median forgives a finger in fewer than half of
  the start-up frames; *ReferenceSound*: stylus frames never make the reference, and slow drift does
  not come near a touch on any bare node, nor is a finger taken for the baseline, until fingers
  have been on the panel for `Patience` frames since the reference was taken. The limit is
  real: a finger that rests stops the reference of every node, and then the drift of the
  others can reach a touch (TLC refutes the property without it). *RecordsInOrder*: nothing is
  lost, repeated or misread.
- *Flashed*: the flashed partition has every allocated block in its place; *Implements*:
  the handler is a flat file to its callers (refinement of `FlatImage`); *FileAgrees*: the
  file on disk says what the object remembers. Where a full disk has stopped an append that
  holds for a plain file; a sparse one cannot be read again, also after the caller has
  truncated it to the size it had, until it is cut to a smaller size.
- *FootersSound*: no command, exception or kill changes image data, leaves a footer that lies,
  or forgets the original size, up to the three ways named in section 2 (`spoilt`); and what
  avbtool checks for add_hash_footer, add_hashtree_footer and resize_image is enough room for
  a struct of up to `MaxVbmeta` (`GapFits`), so that these do not cut with such a struct.
- *ReadsBack*: unpack_bootimg finds each file where mkbootimg has put it, for every header
  version, and a repack changes the ramdisk, in the format it had, and nothing else.
  *Repackable*: the options it prints are accepted and make the same image, but for the
  signature of a GKI image, which they do not carry; and once a repack has emptied the
  image mkbootimg refuses nothing any more, but for a name that a repack within the same
  second has used.
- *VerifySound*: an image that is accepted is the one last made, with the key that was
  asked for, and every partition it pins still holds what it held then, whatever was built
  again, damaged, or cut short in between. *FreshVerifies* is the converse: nothing that
  is still as it was made is refused. *DeviceUnderstands*: the kernel, going by its own
  arithmetic, reads every block of an accepted partition that its tree pins, and the version of
  libavb an image asks for understands every descriptor it has taken over. *DigestPins*:
  no step changes the kernel command line of an image and leaves its vbmeta digest; nor, if
  the images it chains chain no others, its partition digests. With a chain of three the last
  image counts for the partition digests but not for the vbmeta digest, and the claim is
  false (section 5).
- *Pid1Ends* (the main script reaches its shell and the ladder its end), *PressDecided*, *BootEnds*, *LoginScreen*: progress.

**Fairness** is weak and only on what runs: the boot script (`WF(Script)`); each unit's
own steps, among them the wait that ends by its count; the four processes of the test
image; time, reads, handlers, calls and the restart of the power-button service (systemd
has `Restart=` for it); the steps of `verify_image`. Nothing is assumed of devices, of the operator, of crashes or of
presses: they may never come. A process that polls with a bound is scheduled by the kernel,
which is all that weak fairness says. The other modules state no liveness.

`CHECK_DEADLOCK FALSE` stands where the program really ends: PID 1 is parked or has
handed over, units are settled, a stream or a sequence of presses is over, an image is
written, or its only copy is lost.

## 4. Proofs

Eight modules, each named after the one it is about, are checked by TLAPS for every value
of the constants that satisfies the assumptions stated with them. Where a run composes
programs (`MCTouch`, `MCTestImage`, `MCImages`), the proofs are about the composition and
its properties, by the name the run checks.

| proofs | theorems that state a run's property | further theorems |
|---|---|---|
| `SmmuMatch_proofs` | TypeOK, TablesSound, OkMeansRouted, RepairsRouting | ConflictFree, RouteBeforeMatch, BootloaderSafe, RerunWritesNothing |
| `EarlyBoot_proofs` | TypeOK, NoDmaBeforeStreams, HandoffComplete, RescueKeepsItsLog, OneTouchOneStep | DiagnosticIsReadOnly |
| `BringUp_proofs` | TypeOK, MastersInOrder, TouchSurvivesTakeover, LostForCause | |
| `MCTouch_proofs` | TypesOK, FramesAgree, FollowsProtocol, ReferenceSound, FingersForgiven, RecordsInOrder | the first three of `TouchTracker` by itself; Steady |
| `PowerButton_proofs` | TypeOK, PressesDoOneThing, DialogOnlyWhileHeld | |
| `MCTestImage_proofs` | TypesOK, StreamsBeforeDma | both for any number of test runs |
| `MCImages_proofs` | Flashed, FootersSound, FileAgrees, Implements, ReadsBack | |
| `AvbImages_proofs` | TypeOK, VerifySound, FreshVerifies, DeviceUnderstands, DigestPins | |

Induction over data needs theorems with an operator for a parameter, which no prover
installed with TLAPS 1.4.5 can instantiate. Where a proof counts or sums (presses, slots,
blocks of chunks, bytes of records) it argues by the least element of a set of naturals
instead (`Least`, from `WFMin` and `NatLessThanWellFounded`): were there a length at which
the formula fails there would be a least one, and the step from the length before refutes
it. That a recursive function *has* the value its definition says is shown the same way, as
the existence of the function up to each length.

**SmmuMatch** (any number of bits, any register files without conflicts, any command
lines, any set of rejected masks). Inductive invariant:

    IInv == TypeOK /\ NoConflict /\ BootloaderKept /\ AddedPassThrough /\ Progress

None of the first four is inductive: `WriteMatch` keeps *NoConflict* only because the
search has found no overlap for this very argument and slot, keeps *AddedPassThrough* only
because this slot's route has been written, and *BootloaderKept* only because the slot was
free. `Progress` says what the script has established at each place. The lemma
`NoOverlapNoSharedStream` is the arithmetic at the bottom: if the test of line 89 finds no
overlap, no stream hits both ranges. From IInv follow `TypeCorrect`, `TablesAreSound` (with
`ConflictFree`, `RouteBeforeMatch`, `BootloaderSafe` as its parts). `OkIsRouted` needs two
more invariants, `ArgsTodo` and `ArgsDone`: what is still to do is a suffix of the
arguments, what is done is matched and stays matched. `RerunWritesNothing` is the action
property that a write needs an argument that was not matched. `Implements` proves the
refinement of `StreamRouting`, with the further invariant `UsbRoute` (the route the script
writes is the one USB has); a step that sets a whole masked range valid is one `Grant`.

**EarlyBoot** (any partitions, poll limit and number of touches). `IInv` is the
conjunction of TypeOK and eight facts about places in the script: which steps have a name
and reason (PlaceOK), when streams are matched (StreamsOK), when UFS modules are loaded
(HostOK), when `device` is a labelled node (NodeOK), how `/sysroot` is mounted (MountOK),
that `/run` moves last (MovesOK), that a running daemon has its pid file (SshOK), and that
the operator's touches bound the steps (OperatorOK). Each is preserved under the
assumption of at most three others, one lemma each, split by action. `InvariantHolds` puts
them together; the named properties follow from it. `DiagnosticReadOnly` and
`WritesOnlyUnmatched` are proved without being checked again by a run.

**BringUp** (any set of boots: streams, disabled units, last stage, slow and dead devices,
missing modules, any time of the DSI output). Inductive invariant:

    IInv == TypeOK /\ Resting /\ Guarded /\ HostMastersNeedStreams /\ DisplayLeaves
            /\ Ordered /\ TouchKnown /\ WithinBudget

*MastersInOrder* has two halves. `HostMastersNeedStreams` needs `Guarded`: a script past its
first instructions knows what they asked for; the ADSP's turn is part of `Ordered`.
*TouchSurvivesTakeover* needs `Ordered` (a unit runs after the jobs it waits for),
`DisplayLeaves` (what the display script has done by each instruction, and that nobody else
loads the panel) and `TouchKnown` (the takeover meets a touch controller that is set up only
after display has failed). *LostForCause* rests on `WithinBudget`: no script has waited longer than
the instructions behind it make it, so that only the display script can reach its
`TimeoutStartSec`, in the case its unit documents.

**TouchTracker** (any number of slots, any number of points, any distance, any width of
IDs that is more than the contacts of one run, so that an ID is not given twice). Invariant:

    IInv == TypeOK /\ FramesAgree /\ TouchReported /\ ContactsApart /\ IdsKnown

The heart is one frame: the recursive matching gives each point to at most one slot, ended
slots are not given away in the frame that ends them, and the n-th free point goes to the
n-th idle slot. `IdsKnown` bounds the distance of two live IDs, without which the modulo
could make them equal. `Refinement` (in `MCTouch_proofs`, like all about the tracker) takes
a frame apart into its steps of `MtProtocol`; `Steady` is the action property that a contact follows a finger within the distance, and a
hand that does not move keeps all.

**MCTouch** (the three stages; any number of types, shapes and frames). The parts share no
variables, so the tracker's theorems carry over. *ReferenceSound* holds for any set of nodes
and needs `ProbesKnown`, `SamplesClose` (a sample is as far from its node's baseline as it is
old) and `ReferenceNear`: no reference is farther behind its baseline than `Lag`, the
distance at which it is followed again, and the frames in which a finger held it. Until
these are `Patience`, the rest of half a threshold, the largest delta of the matrix is that of
a finger, if there is one, so that the test of line 666 does what is meant. The
assumptions `RefFrames < Threshold \div 2` and `8 < Threshold \div 2` are about options that
`piano-touch.service` leaves at their defaults (32 frames, threshold 200), which make `Patience`
68 frames. *FingersForgiven* is a fact about medians: fewer than half of
the samples cannot move the middle one outside the others. *RecordsInOrder* holds for every
stream and every way of cutting it into reads: `StreamInv` says that the buffer is the
part of the stream behind what was handled, with no record at its beginning, and that
`handled` is what a scan of the whole stream up to there finds.

**PowerButton** (any levels, any LONG_PRESS, any number of presses, crashes and writes).
Invariant `TypeOK /\ EachPressOnce /\ KeyKnown /\ NothingInHand /\ ScreenKnown`. `KeyKnown`
says that the last event the service has not handled tells whether the key is held, and that,
once there is none, it times the key no longer than it has been held. `EachPressOnce` counts: the
presses acted on, being timed and still in the batch or the queue are no more than were made. `ScreenKnown` has the brightness for each value of
`saved` as long as nobody else writes it and no call fails.

**MCTestImage** (any number of test runs, any of their options, any bounds of the loops).
For the staged test `RunsOK /\ KernelOK /\ LoadsMatched`: *StreamsBeforeDma* is kept by
the runs together, because a run about to load a master has matched the streams itself, and
nothing ever unmatches them. `Pid1Inv` is the same for the processes of PID 1, with the
bounds of their loops.

**MCImages, writer** (any number of blocks, any ordered list of free ranges, any raw image,
any chunk size). `WriterInv`: the extents, and then the chunks, tile the partition from block 0
on without gap or overlap, and a tile is in use all over or free all over; while the
bootloader writes, the blocks below the current chunk are done (`DiskKnown`). **Footers**
(any set of commands, any sizes of images and partitions, any number of faults).
`FooterInv` says what is known at each step of a command: between commands the image is
`Clean` (it keeps the original data, and a footer in it is true); inside one, that the data is
there without a footer (`Image`), how much `Room` is left before the end of the partition, that
the struct describes what is in front of it (`Describes`) and stands where the footer will say
(`StructAt`), and, for zero_hashtree, that what is still to be written completes a sound image
(`Pieces`). The lemmas are about sequences of units: what a cut, a padding, an append
leaves of each part. The invariant is

    FooterSafe == /\ spoilt = "no" => FooterInv
                  /\ spoilt # "no" => step \in {"idle", "footer", "write"}

and what it says before the gap is negative is that a struct of up to `MaxVbmeta` has room
(`GapFits`). A larger one, or append_vbmeta_image without room, makes the gap negative and
`spoilt` records the cut; `image_footer_tight` shows such a cut. `ImageFooterAssumption` asks
nothing of the size of a struct and of the room behind an image, only that `MaxVbmeta` is whole
blocks. **Handler** (any
files, payloads and patterns, any block size, any seeks, reads and sizes). `HandlerInv` says
that there is an image f the handler has read last, and what `file` has to do with it
(`Known`): it is f, or, once a full disk has stopped an append, f is still at its beginning;
the header of a sparse file is torn then, before and after the caller's truncate.
`Value(f)` is what f stands for; `Off(b, k)` is where its chunk k + 1 begins. For every call
there is a g that is known afterwards, and what the caller sees goes from `Value(f)` to
`Value(g)` as in a flat file (`Result`, `Moves`). Behind that are what each chunk expands to
(`UnitIs`), that the value of a file that is cut is the value cut (`CutBody`), that the
header gets the sum of the blocks that are left (`KeptIs`), and what the loop of `read` has at
each of its turns (`TookChunk`, `ReadInside`, and `ReadBehind` for a cursor behind the image).
`ImageHandlerAssumption` asks of the files that they are well formed, without CRC32 chunks,
and not empty if plain (section 5 says why). **Boot images** (any set of command lines,
kernels, ramdisks and tables of any size, any size of page that holds a header, any second of
the clock). `RepackInv` says that an image that promises something is what an `Accepted` command
line has packed: one that mkbootimg neither rejects nor refuses. *ReadsBack* is then a fact
about two programs, `AnyReadBack`: unpack_bootimg inverts mkbootimg. Every file begins at a
page (`BootAt`, `VendorAt`: sums of the pages in front of it, in whatever order the header
version has them), and the sizes from which unpack_bootimg adds up the pages again are those that
were written; a ramdisk of a table is at its offset in their section (`RamdisksHeld`); a
command line that was cut into two fields is put together again (`SecondHalf`). A repack
keeps the promise because the options that are printed for such an image are a command line
again (`AgainCommand`, `VendorAgainCommand`) that packs the same but for the ramdisk
(`AnyRepacked`): `RepackInv` carries them from `Repack` to `Write`, past every failure.
`RepackBootAssumption` asks of a command line what argparse gives: texts without a NUL, addresses
from 0 on, files, pages that hold a header, and a file for each ramdisk of a table. The invariants
of the four programs are in `MCImages_invariants`.

**AvbImages** (any images, keys and algorithms, any command lines that are well formed,
any number of builds and of bad copies, blocks of any size that hold two digests). The
invariant has a module of its own, `AvbImages_invariants`:

    ImagesKnown == Known /\ JobKnown

`Known` says what every image is now: as the last command left it (`Left`), or a copy of
that with cells zeroed or its end missing (`Damaged`); what its footer says (`Footed`), what
its struct holds, and how that goes with the covers and chains that `made` remembers: the
struct has a descriptor for each, and each hash, hashtree or chain descriptor says what one
of them says, to the digest, the size and the place of the tree (`Knows`, `Describes`,
`Links`). An image with a footer holds what its own descriptor was made of, the data and
the tree unless zero_hashtree has marked it (`HoldsCovers`). `JobKnown` is the loop
of verify_image: of the images looked at so far every descriptor has either passed its
check or is still in `todo`. *VerifySound* then rests on three facts about cells. A header
that is read and whose signature or digest matches is the whole struct that was signed
(`Checked` of a damaged copy that was signed is false, because the signature carries
what was signed). A descriptor found by walking the offsets of the header is one that was
written (`Parses` inverts `Generate`: what the tool packs it reads back). And the root
digest pins the data: level by level from the root, equal digests have equal blocks
(`RootPins`), for any number of levels. The proofs about trees and about lists of
descriptors argue by the least level or index at which the claim fails.
*FreshVerifies*, the converse, has an invariant of its own beside this one, `JobMeant`:
while the images that are looked at, and what they cover, are as they were made, with the
key and the chains that were asked for (`Hopeful`), `todo` holds nothing but descriptors
that were put into these images, and nothing has been refused. For a struct that was left
alone its hash, signature and key are those of what was signed (`LeftChecked`), and a
descriptor of one cover agrees with the image that still holds it (`FreshPasses`): the
digest, the root digest and the tree where its descriptor says, or a zeroed one if the
command line accepts it. That the cover is the right one of several is the reason why
`Covers` keeps the last of each partition *and* type, as the tool does with descriptors:
an image can include a digest of a partition from one image and its tree from another.
*DeviceUnderstands* needs the tool's arithmetic to be the kernel's: the sizes and offsets
that `calc_hash_level_offsets` adds up and those dm-verity finds from the number of data
blocks are the same at every level (`VerityHolds`), and an image's tree is where its
descriptor says it is. *DigestPins* is about what calculate_vbmeta_digest concatenates: the
structs of an image and of the images it is chained to, with nothing in between. Only the
first cell of a struct is a header, so that two equal concatenations are cut at the same
places; and equal structs have equal descriptors. For the partition digests the proof needs
`OneLevel`, under which the chains that are followed are those whose structs were hashed. That
a command reads its own output as empty (`EmptiedIncluded`) is needed for what `made` says
of an image that includes itself.

Only model-checked:

- all liveness (*BootEnds*, *LoginScreen*, *PressDecided*, *Pid1Ends*): it rests on fairness and
  ENABLED, which TLAPS 1.4.5 does not reason about;
- *Repackable*: that the options printed for an image make the same image again, cell by
  cell, needs every field of every header, not only those that say where a file is; and
  *TypesOK* of `MCImages`, which speaks of the cells of images that promise nothing, too:
  those cut short and those without their signature.

## 5. Where the code disagrees with what it says

Four disagreements are runs that TLC finds violated:

| run | the code | what it says |
|---|---|---|
| `early_boot_rescue` | `rootfs-init:132,135` call `rescue` after 126–128 have killed dropbear | line 29: rescue is reachable over SSH |
| `power_button_toggle` | `power-button:76` decides by `saved`; once the desktop has lit the panel by itself the next press lights it again | line 5: a short press toggles the backlight |
| `image_footer_tight` | `avbtool.py:3364` truncates into the image when struct and footer do not fit | 3336–3337: anything that goes wrong restores the image |
| `vbmeta_truncated` | `avbtool.py:4188` reads nothing behind the end of an image, 4194 takes nothing off what is left, and the loop of 4182 never ends | 2530–2531: `AvbError` if verification fails |

Others were seen while the modules were written. The models follow the code; no run
refers to them:

- `piano-qup-smmu:71-73,99`: a mask is range-checked (line 76) but a stream ID is not, and
  its bits from 16 on would end up in the mask field of the register. The model takes IDs that
  fit, as `rootfs-init:57-66` and `piano-touch-test:192` pass them.
- `rootfs-init:128` fails the boot when the pid file is left by a daemon that died
  (36–37: networking trouble does not stop the boot); `:51` waits for ever in a diagnostic
  boot without network (44); `:103` accepts a partition before its node can be opened.
- `piano-adsp.service:3` against `adsp-start:4-6`; `modprobe.d/piano.conf:1` against the
  plain `modprobe` calls of `display-start:83` and `adsp-start:50`.
- `power-button:51-57`: a wake whose call fails has forgotten the level; the panel stays dark
  and the next presses light it at level 1.
- `piano-touch-view.c:386-411`: slots choose in slot order, so "nearest" (23–26) holds per
  slot, not over all; `:666`: a finger at rest anywhere keeps the reference of every node
  from following, so that long drift under it can become a touch elsewhere.
- `initramfs/init:133,155` end in a shell without the network lines 14 and 59–60 promise;
  `:92` waits 20 s, `:125` logs 120 s; `:300` against 323–325; `:245-247` against 196–198.
- `piano-touch-test:40-42`: two runs share one result file (27–28), so that a run can exit
  with the other's code; `:239` against 240.
- `avbtool.py:1065,1079` read past the end where 1042–1043 promise the rest; `:1155` counts
  chunks without the CRC32 ones of the file, so that cutting such a file leaves a wrong
  count; `:1117` returns without repairing the header when a failed append is cut back to a
  size it already has, so that a sparse image cannot be opened any more after its first
  append failed; `:2338-2344` write a block for a tree of size 0 and so
  shift what stands behind it; `:3463,3705` do not compare a struct with the `MAX_VBMETA_SIZE`
  that was reserved for it, and with a larger one `:3587,3875` cut into the image as 3364 does.
- `avbtool.py:2670-2675` print the digests of partitions down a chain of any length, but
  2702–2715 hash the image and what it chains to: with a third image in the chain the printed
  digests can change while the vbmeta digest stays. TLC refutes *DigestPins* without
  `OneLevel` after four steps.
- `avbtool.py:1694-1700`: a hash descriptor without a partition name is verified from where
  the handle of the image happens to stand, not from its start; `:4409`: the output of
  make_vbmeta_image is emptied before anything is checked, so a command that fails leaves
  an empty image; `:3089`: the rollback locations of included chain descriptors are not
  looked at.
- `repack_bootimg.py:244`: two repacks of an image with several ramdisks within a second
  give the same name, which mkbootimg refuses after emptying the image;
  `unpack_bootimg.py:517-521` calls the printed options equivalent, which they are not for
  the signature of a GKI image.
- `make-disable-vbmeta.py:35-45` repeats lines that do not parse as Python.

## 6. Not modelled

- Drawing on the framebuffer and option parsing of the touch daemon: no state besides the
  screen. `find_points()`: a function of one frame; its result is any sequence of distinct
  positions in the models.
- A time-out of contacts (`piano-touch-view.c:830`): the code has none, so there is no step
  to model; a finger stays down for as long as the controller sends nothing.
- avbtool: keys, certificates, RSA and FEC arithmetic, A/B metadata, test images, printed
  forms and argparse. They write one file from their arguments, or compute on numbers that
  a model checker cannot enumerate.
- mkbootimg: the pretty output; `--src_bootimg` of the repack, which only finds the files to
  add; `generate_gki_certificate` beyond its result.
- `make-disable-vbmeta.py`, which does not parse, and the build scripts, which stage files
  one after the other from the beginning.
- Output and wording of all scripts; the read-only status scripts and log collectors; device
  trees, topology, configuration without behaviour; CI recipes.
- Bluetooth scanner, protection-domain locator, small services: see the plan.

PROJECT.json names each part with its reason. Memory, processes and files that fail for no
reason a program handles are left out everywhere.

## 7. Plan

Done in this order, the most important first: SMMU repair and its refinement, early boot,
bring-up, touch contacts, power button, reference and stream, test image, images and
footers; the proofs about the first two; vbmeta images and hash trees; boot images; the
proofs about the bring-up services, the touch daemon, the power button, the test image, the
sparse image writer, the footer commands, the image handler with its refinement, and the
verification of vbmeta images, and boot images that are made, read and repacked.

Next:

1. **PdLocator** and **HciScan**: request/answer with late and repeated answers.
2. **FindPoints** as an operator checked against local maxima.
3. **Swapfile**, **PstoreSave**, **UsbNetwork**: crash between two steps.
4. **BootimgGate**: the gates of the build scripts and what a failed build leaves.
5. More proofs: `Repackable`, and the types of `MCImages`.
