----------------------------- MODULE RepackBoot -----------------------------
(***************************************************************************)
(* mkbootimg.py run by hand or by scripts/build-bootimg.sh, and            *)
(* mkbootimg/repack_bootimg.py, which adds files to the ramdisk of an      *)
(* image and packs the image again in place.                               *)
(*                                                                         *)
(* A repack is a chain of programs: unpack_bootimg, lz4 or gzip with cpio, *)
(* copies, mkbootfs with lz4 or gzip, and mkbootimg on the options that    *)
(* unpack_bootimg has printed.  Each of them may fail, which ends the      *)
(* chain; mkbootimg empties the image when it opens it.                    *)
(***************************************************************************)
EXTENDS BootImage

CONSTANTS
    Commands,  \* command lines of mkbootimg
    Files,     \* names of files in a ramdisk
    Present,   \* those that --ramdisk_add can copy: the others are not there
    Seconds    \* the clock, second by second, as it is printed

\* What a command line gives: texts without a NUL, addresses, files, and pages that
\* hold a header (argparse, and "choices" of --pagesize).  A file is made of cells,
\* and those of a ramdisk name its files.
IsText(t) == t \in Seq(ToSet(t)) /\ NulChar \notin ToSet(t)

IsCell(x) ==
    /\ DOMAIN x = {"content", "i"} /\ x.i \in Nat
    /\ "kind" \in DOMAIN x.content => x.content.files \subseteq Files

IsFile(f) == f \in Seq(ToSet(f)) /\ \A k \in 1 .. Len(f) : IsCell(f[k])

IsFragment(f) ==
    /\ f = [type |-> f.type, name |-> f.name, board_id |-> f.board_id, file |-> f.file]
    /\ IsText(f.name) /\ f.file # None /\ IsFile(f.file)

IsCommand(a) ==
    /\ a.vendor \in BOOLEAN /\ a.header_version \in Nat
    /\ a.pagesize \in Nat /\ a.pagesize >= BootHeaderSize
    /\ \A o \in {"base", "kernel_offset", "ramdisk_offset", "second_offset", "dtb_offset",
                 "tags_offset"} : a[o] \in Nat
    /\ IsText(a.cmdline) /\ IsText(a.vendor_cmdline)
    /\ \A o \in {"kernel", "ramdisk", "second", "dtb", "recovery_dtbo", "vendor_ramdisk",
                 "vendor_bootconfig", "gki"} : a[o] = None \/ IsFile(a[o])
    /\ a.fragments \in Seq(ToSet(a.fragments))
    /\ \A k \in 1 .. Len(a.fragments) : IsFragment(a.fragments[k])

ASSUME RepackBootAssumption ==
    /\ BootImageAssumption
    /\ \A a \in Commands : IsCommand(a)
    /\ IsFiniteSet(Files) /\ Present \subseteq Files
    /\ Len(Seconds) \in Nat \ {0} /\ \A k \in 1 .. Len(Seconds) : Seconds[k] # NulChar
    /\ \A kind \in {"lz4", "gzip"}, files \in SUBSET Files : Archive(kind, files) # None

VARIABLES
    image,   \* the image file
    want,    \* what was packed into it, or None when no command has succeeded
    pc,      \* the step of the command that is run, or "idle"
    job,     \* that command: options, type (0 is not a repack), ramdisk, adds, before
    clock    \* the current second

vars == <<image, want, pc, job, clock>>

\* BootImageType; RamdiskFormat is the kind of the content.
BOOT_IMAGE                 == 1
VENDOR_BOOT_IMAGE          == 2
SINGLE_RAMDISK_FRAGMENT    == 3
MULTIPLE_RAMDISK_FRAGMENTS == 4

\* Mutant: the exit status of lz4 and gzip is not looked at.
IsArchiveAny(f) == f # << >>

IsArchive(f) ==
    /\ f # << >> /\ "kind" \in DOMAIN f[1].content /\ f[1].content.kind \in {"lz4", "gzip"}
    /\ f = Archive(f[1].content.kind, f[1].content.files)

\* A file that is not empty, of the versions that carry it.
Carried(a, f, versions) == IF a.header_version \in versions /\ filesize(f) > 0 THEN f ELSE None
Bytes(f)                == IF f = None THEN << >> ELSE f

\* What the options of a command line put into the image.
Packed(a) ==
    IF a.vendor
    THEN [vendor |-> TRUE, board |-> a.board, cmdline |-> a.vendor_cmdline,
          load |-> a.base + a.kernel_offset,
          files |-> [vendor_ramdisk |-> IF a.header_version = 3 THEN Bytes(a.vendor_ramdisk) ELSE None,
                     fragments  |-> IF a.header_version = 4 THEN Fragments(a) ELSE << >>,
                     dtb        |-> Carried(a, a.dtb, {3, 4}),
                     bootconfig |-> IF a.header_version = 4 THEN Bytes(a.vendor_bootconfig) ELSE None]]
    ELSE [vendor |-> FALSE, board |-> IF a.header_version < 3 THEN a.board ELSE "", cmdline |-> a.cmdline,
          load |-> IF a.header_version < 3 THEN a.base + a.kernel_offset ELSE 0,
          files |-> [kernel |-> Bytes(a.kernel), ramdisk |-> Bytes(a.ramdisk),
                     second |-> Carried(a, a.second, 0 .. 2),
                     recovery_dtbo |-> Carried(a, a.recovery_dtbo, {1, 2}),
                     dtb |-> Carried(a, a.dtb, {2}),
                     signature |-> IF a.header_version < 4 \/ a.gki = None THEN None
                                   ELSE Signature(a)]]

\* What unpack_bootimg says of an image, in the same form.
Read(i) ==
    LET u == Unpack(i)
        o == Options(u)
    IN  [vendor |-> u.vendor, board |-> o.board, files |-> u.files,
         cmdline |-> IF u.vendor THEN o.vendor_cmdline ELSE o.cmdline,
         load |-> IF u.vendor \/ u.header.header_version < 3 THEN o.base + o.kernel_offset ELSE 0]

NoJob == [options |-> Defaults, type |-> 0, ramdisk |-> Content("none", {}), adds |-> {}, before |-> None]

Init == image = << >> /\ want = None /\ pc = "idle" /\ job = NoJob /\ clock = 1

End  == pc' = "idle" /\ job' = NoJob /\ UNCHANGED clock
Fail == End /\ UNCHANGED <<image, want>>
-----------------------------------------------------------------------------
(* mkbootimg                                                               *)

\* The beginning of a header, which no reader accepts.
Torn == [content |-> Content("torn", {}), i |-> 0]

\* Bound: a file that holds more than that is not made again, as mkbootimg does not read it.
Make ==
    /\ pc = "idle" /\ image \in {<< >>, <<Torn>>}
    /\ \E a \in Commands :
       IF UsageError(a)
       THEN Fail
       ELSE pc' = "open" /\ job' = [NoJob EXCEPT !.options = a] /\ UNCHANGED <<image, want, clock>>

\* FileType('wb') of --output or --vendor_boot.
Open ==
    /\ pc = "open"
    /\ IF UsageError(job.options) THEN Fail
       ELSE pc' = "write" /\ image' = << >> /\ want' = None /\ UNCHANGED <<job, clock>>

\* What is in the file when avbtool fails or the signature is too long.
Unsigned(a) == Mkbootimg([a EXCEPT !.gki = << >>])
Partial(a)  == SubSeq(Unsigned(a), 1, Len(Unsigned(a)) - SignatureSize)

\* What the repack promises of an image that held w.
Patched(w) ==
    LET new == Archive(job.ramdisk.kind, job.ramdisk.files)
        name == <<"RAMDISK_", Seconds[clock]>>
    IN  CASE job.type = BOOT_IMAGE -> [w EXCEPT !.files.ramdisk = new, !.files.signature = None]
          [] job.type = VENDOR_BOOT_IMAGE -> [w EXCEPT !.files.vendor_ramdisk = new]
          [] job.type = SINGLE_RAMDISK_FRAGMENT -> [w EXCEPT !.files.fragments[1].file = new]
          [] OTHER -> [w EXCEPT !.files.fragments =
                          Append(@, [type |-> 1, name |-> name, board_id |-> 0, file |-> new])]

\* A refusal that comes after the magic is written: a number that does not fit its
\* field, or no dtb.  The others come before the header.
Begun(a) ==
    IF a.vendor
    THEN ~ \/ a.header_version \notin {3, 4}
           \/ a.header_version = 3 /\ (a.vendor_ramdisk = None \/ a.fragments # << >>)
           \/ a.header_version = 4 /\ BadNames(Fragments(a))
    ELSE a.fragments = << >> /\ a.header_version <= 2

Write ==
    /\ pc = "write" /\ End
    /\ CASE Refused(job.options) ->
                image' = (IF Begun(job.options) THEN <<Torn>> ELSE image) /\ UNCHANGED want
         [] ~ Refused(job.options) /\ TooLong(job.options) ->
                image' = Partial(job.options) /\ want' = None
         [] OTHER ->
                /\ image' = Mkbootimg(job.options)
                /\ want' = IF job.type = 0 THEN Packed(job.options)
                           ELSE IF job.before = None THEN None ELSE Patched(job.before)
-----------------------------------------------------------------------------
(* repack_bootimg                                                          *)

TypeOf(info) ==
    IF ~ info.vendor THEN BOOT_IMAGE
    ELSE IF info.header.header_version = 3 THEN VENDOR_BOOT_IMAGE
    ELSE CASE Len(info.files.fragments) = 1 -> SINGLE_RAMDISK_FRAGMENT
           [] Len(info.files.fragments) > 1 -> MULTIPLE_RAMDISK_FRAGMENTS
           [] OTHER                         -> 0

\* RamdiskImage: the ramdisk to unpack, or a new one.
RamdiskOf(info) ==
    CASE TypeOf(info) = BOOT_IMAGE              -> info.files.ramdisk
      [] TypeOf(info) = VENDOR_BOOT_IMAGE       -> info.files.vendor_ramdisk
      [] TypeOf(info) = SINGLE_RAMDISK_FRAGMENT -> info.files.fragments[1].file
      [] OTHER                                  -> Archive("lz4", {})

\* BootImage.__init__: _unpack_bootimg and _unpack_ramdisk.
Repack(adds) ==
    /\ pc = "idle" /\ Readable(image)
    /\ LET info == Unpack(image)
       IN  IF TypeOf(info) = 0 \/ ~ IsArchive(RamdiskOf(info)) THEN Fail
           ELSE /\ pc' = "add"
                /\ job' = [options |-> Options(info), type |-> TypeOf(info), adds |-> adds,
                           ramdisk |-> RamdiskOf(info)[1].content, before |-> want]
                /\ UNCHANGED <<image, want, clock>>

\* add_files; copy2 of a file that is not there raises.
AddFiles ==
    /\ pc = "add"
    /\ IF job.adds \subseteq Present
       THEN /\ pc' = "pack" /\ job' = [job EXCEPT !.ramdisk.files = @ \cup job.adds]
            /\ UNCHANGED <<image, want, clock>>
       ELSE Fail

\* Mutant: a name that does not tell one repack from another.
NewNameSame(second) == <<"RAMDISK_">>

NewName(second) == <<"RAMDISK_", second>>

\* repack_bootimg: the previous options with the new ramdisk in place of the
\* old one, or as one more fragment.
WithRamdisk(a, type, new) ==
    CASE type = BOOT_IMAGE              -> [a EXCEPT !.ramdisk = new]
      [] type = VENDOR_BOOT_IMAGE       -> [a EXCEPT !.vendor_ramdisk = new]
      [] type = SINGLE_RAMDISK_FRAGMENT -> [a EXCEPT !.fragments[1].file = new]
      [] OTHER -> [a EXCEPT !.fragments =
                      Append(@, [type |-> 1, name |-> NewName(Seconds[clock]), board_id |-> 0, file |-> new])]

\* repack_ramdisk, in the format it had, and the command line of mkbootimg.
PackRamdisk ==
    /\ pc = "pack" /\ pc' = "open"
    /\ job' = [job EXCEPT !.options =
                 WithRamdisk(@, job.type, Archive(job.ramdisk.kind, job.ramdisk.files))]
    /\ UNCHANGED <<image, want, clock>>

\* A program of the chain is missing, fails or is killed; mkbootimg leaves what
\* it has written.
Die ==
    \/ pc \in {"add", "pack", "open"} /\ Fail
    \/ /\ pc = "write" /\ ~ Refused(job.options) /\ ~ TooLong(job.options)
       /\ \E n \in 0 .. Len(Mkbootimg(job.options)) - 1 :
            image' = SubSeq(Mkbootimg(job.options), 1, n)
       /\ End /\ UNCHANGED want

Tick == /\ pc = "idle" /\ clock < Len(Seconds) /\ clock' = clock + 1
        /\ UNCHANGED <<image, want, pc, job>>

Next ==
    \/ Make
    \/ \E adds \in SUBSET Files \ {{}} : Repack(adds)
    \/ AddFiles \/ PackRamdisk \/ Open \/ Write \/ Die \/ Tick

Spec == Init /\ [][Next]_vars
-----------------------------------------------------------------------------
\* The image is made of cells, a command that repacks has a ramdisk, and an
\* image that is not readable holds nothing.
TypeOK ==
    /\ \A k \in 1 .. Len(image) : DOMAIN image[k] = {"content", "i"} /\ image[k].i \in Nat
    /\ pc \in {"idle", "add", "pack", "open", "write"} /\ job.type \in 0 .. 4
    /\ pc \in {"add", "pack"} => job.type > 0 /\ job.ramdisk.kind \in {"lz4", "gzip"}
    /\ clock \in 1 .. Len(Seconds)
    /\ want # None => Readable(image)

\* Reading back.  What unpack_bootimg computes from the header of an image is
\* what was put into it: each file at its place and of its size, and none that
\* the header version does not carry, the command line although headers 0 to 2
\* split it, the board and the load address; and after repacks, what the first
\* image held with the ramdisk, and nothing else, changed (build-bootimg.sh 163-196,
\* repack_bootimg.py 220-260).
ReadsBack == want # None => Read(image) = want

\* An empty --recovery_dtbo file is given an offset, and none when it is read back.
SameImage(i, j) ==
    \/ i = j
    \/ /\ Len(i) = Len(j) /\ IsBoot(i) /\ IsBoot(j)
       /\ Header(i).header_version \in {1, 2} /\ Header(i).recovery_dtbo_size = 0
       /\ LET at0(h) == [h EXCEPT !.recovery_dtbo_offset = 0]
          IN  at0(Header(i)) = at0(Header(j))
       /\ \A k \in (BootHeaderSize + 1) .. Len(i) : i[k] = j[k]

\* The options that unpack_bootimg prints for an image are options that mkbootimg
\* accepts, and they make the same image again, except that the signature of a
\* GKI image is lost ("would be equivalent", unpack_bootimg.py 517-521).
Rebuilds ==
    want # None =>
        LET o == Options(Unpack(image))
        IN  /\ ~ UsageError(o) /\ ~ Refused(o)
            /\ IF ~ want.vendor /\ want.files.signature # None
               THEN Read(Mkbootimg(o)) = [want EXCEPT !.files.signature = None]
               ELSE SameImage(image, Mkbootimg(o))

\* By the time a repack of a whole image opens it, which empties it, nothing is left that
\* mkbootimg may refuse, except one thing: a second repack, within a second, of an
\* image with several ramdisks, whose new name is then taken.
RepackAccepted ==
    job.before # None /\ pc \in {"open", "write"} =>
        /\ ~ UsageError(job.options)
        /\ Refused(job.options) <=>
             /\ job.type = MULTIPLE_RAMDISK_FRAGMENTS
             /\ \E k \in 1 .. Len(job.options.fragments) - 1 :
                  job.options.fragments[k].name = <<"RAMDISK_", Seconds[clock]>>
=============================================================================
