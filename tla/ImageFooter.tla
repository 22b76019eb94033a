---------------------------- MODULE ImageFooter ----------------------------
(***************************************************************************)
(* avb/avbtool.py, the commands that put a vbmeta struct and a footer at   *)
(* the end of an image in place, move them and take them off again:        *)
(* add_hash_footer (which scripts/sign-boot-avb.sh signs boot.img with),   *)
(* add_hashtree_footer, append_vbmeta_image, resize_image, erase_footer    *)
(* and zero_hashtree.                                                      *)
(*                                                                         *)
(* A command is a process that changes the image in several steps.  A step *)
(* may raise an exception (no key, a full disk), and the process may be    *)
(* killed.  The image is what ImageHandler shows of it, see FlatImage; an  *)
(* offset is a number of units.                                            *)
(*                                                                         *)
(* There are three ways in which avbtool itself spoils an image: what it   *)
(* appends leaves no room for the footer, it zeroes a tree that is empty,  *)
(* or an append to a sparse image stops half way.  They are steps here,    *)
(* and the variable spoilt tells of them.                                  *)
(***************************************************************************)
EXTENDS Integers, Sequences

CONSTANTS
    BlockSize,  \* units in a block; the footer takes one
    MaxVbmeta,  \* MAX_VBMETA_SIZE
    Sizes,      \* sizes of the images
    Commands,   \* command lines, see below
    MaxFaults   \* bound: exceptions and kills

\* op: the command; part: --partition_size, 0 for none; size: of the vbmeta
\* struct; append: not --do_not_append_vbmeta_image; keep: --keep_hashtree;
\* tree: not --no_hashtree; fec: units of FEC data, 0 without --generate_fec.
Adds == {"add_hash", "add_hashtree", "append_vbmeta"}

ImageFooterAssumption ==
    /\ BlockSize \in Nat \ {0, 1} /\ MaxVbmeta \in Nat \ {0} /\ MaxVbmeta % BlockSize = 0
    /\ Sizes \subseteq Nat /\ MaxFaults \in Nat
    /\ \A c \in Commands :
         /\ c.op \in Adds \cup {"resize", "erase", "zero"}
         /\ c.part \in Nat /\ c.size \in Nat \ {0}
         /\ c.append \in BOOLEAN /\ c.keep \in BOOLEAN /\ c.tree \in BOOLEAN
         /\ c.fec \in Nat /\ c.fec % BlockSize = 0
         /\ c.append \/ c.op \in {"add_hash", "add_hashtree"}

\* Units: of the image, NULs, of a tree, of FEC data, the marker of a tree or of
\* FEC data that was zeroed, of a vbmeta struct, and a footer.
Data(i) == [kind |-> "data", n |-> i]
Nul     == [kind |-> "nul"]
Tree    == [kind |-> "tree"]
Fec     == [kind |-> "fec"]
Zeroed  == [kind |-> "zeroed"]
Footer(orig, at, size) == [kind |-> "footer", orig |-> orig, at |-> at, size |-> size]

\* A vbmeta struct: its size, its descriptor ("none", "hash" or "tree"), the data
\* that was hashed, the size of the tree that follows it, and the FEC data.
NoVbmeta == [size |-> 0, desc |-> "none", hashed |-> << >>, tree |-> 0, fecAt |-> 0, fec |-> 0]
Blob(v)  == [i \in 1 .. v.size |-> [kind |-> "vbmeta", n |-> i, v |-> v]]

VARIABLES
    image,
    sparse,   \* it is an Android sparse image
    pc,       \* the step of the command, or "idle"
    job,      \* the command and its variables: cmd, orig (original_image_size), at
              \* (vbmeta_offset), v, part, and todo, what zero_hashtree writes
    original, \* the image without what the commands have added
    hurt,     \* a command was stopped where it restores nothing
    spoilt,   \* "no"; or avbtool has "cut" off the end of the image, "shifted" what the
              \* footer points to, or "torn" the header of a sparse image
    faults    \* exceptions and kills so far

vars == <<image, sparse, pc, job, original, hurt, spoilt, faults>>

NoJob == [cmd |-> "none", orig |-> 0, at |-> 0, v |-> NoVbmeta, part |-> 0, todo |-> << >>]

Init ==
    /\ sparse \in BOOLEAN
    /\ \E n \in Sizes : (sparse => n % BlockSize = 0) /\ image = [i \in 1 .. n |-> Data(i)]
    /\ pc = "idle" /\ job = NoJob /\ original = image
    /\ hurt = FALSE /\ spoilt = "no" /\ faults = 0

Repeat(u, n) == [i \in 1 .. n |-> u]
Round(n)     == ((n + BlockSize - 1) \div BlockSize) * BlockSize

\* Mutant: the footer's own block is forgotten.
MaxMetadataNoFooter == MaxVbmeta

MaxMetadata == MaxVbmeta + BlockSize

\* calc_hash_level_offsets: the tree of the model has one level, or none.
TreeSize(n) == IF n > BlockSize THEN BlockSize ELSE 0

\* ImageHandler.truncate, and an append.
Resized(n) == IF n <= Len(image) THEN SubSeq(image, 1, n)
              ELSE image \o Repeat(Nul, n - Len(image))

HasFooter == image # << >> /\ image[Len(image)].kind = "footer"
Current   == image[Len(image)]

\* _parse_image: the struct that the footer points to, if it is one.
Parsed == IF HasFooter /\ Current.at < Len(image) /\ image[Current.at + 1].kind = "vbmeta"
          THEN image[Current.at + 1].v ELSE NoVbmeta

Go(step)   == pc' = step /\ UNCHANGED <<sparse, original, hurt, faults>>
Goto(step) == Go(step) /\ UNCHANGED spoilt
End        == Goto("idle") /\ job' = NoJob
Raise      == End /\ UNCHANGED image

\* The exception handlers of lines 3379, 3601 and 3890.
Restore == End /\ image' = Resized(job.orig)

\* The header of a sparse image counts a chunk that is not there whole: ImageHandler
\* can read nothing of it any more (FileAgrees there).
Tear == /\ pc' = "idle" /\ job' = NoJob /\ image' = << >> /\ spoilt' = "torn"
        /\ UNCHANGED <<sparse, original, hurt>>

Op == job.cmd.op
Is(step, ops) == pc = step /\ Op \in ops
-----------------------------------------------------------------------------
(* Starting a command, and adding a footer.                                *)

\* Mutant: what an earlier run has added is taken for image.
OriginalIsImage == Len(image)

\* Lines 3482-3493: "If there's already a footer ..."
OriginalSize == IF HasFooter THEN Current.orig ELSE Len(image)

\* The command leaves a tree in the image, and no footer.
LeavesTree(c) == c.keep \/ (c.op = "add_hashtree" /\ ~ c.append)

Start(c) ==
    /\ pc = "idle" /\ job' = [NoJob EXCEPT !.cmd = c]
    \* bound: nothing is run on an image that is spoilt
    /\ spoilt = "no"
    \* bound: a tree becomes part of the image only once
    /\ LeavesTree(c) => \A k \in DOMAIN original : original[k].kind = "data"
    /\ Goto("open") /\ UNCHANGED image

\* What is wrong with the command line before the image is touched.
Refused ==
    \/ Op = "add_hash" /\ job.cmd.part # 0 /\ job.cmd.part < MaxMetadata
    \/ Op = "add_hash" /\ ~ job.cmd.append /\ HasFooter  \* it is opened read-only
    \/ Op # "add_hash" /\ job.cmd.part % BlockSize # 0
    \/ Op = "add_hashtree" /\ job.cmd.part = 0 /\ Len(image) % BlockSize # 0

Open ==
    /\ Is("open", Adds)
    /\ IF Refused THEN Raise
       ELSE /\ image' = Resized(OriginalSize) /\ Goto("check")
            /\ job' = [job EXCEPT !.orig = OriginalSize,
                         !.part = IF Op = "add_hash" /\ job.cmd.part = 0
                                  THEN Round(OriginalSize + MaxMetadata) ELSE job.cmd.part]

\* Mutant: the size is not checked.
TooLargeNever(n) == FALSE

\* The image does not fit in the partition with what is to be added.
TooLarge(n) ==
    /\ job.part > 0
    /\ \/ Op = "add_hash" /\ n > job.part - MaxMetadata
       \/ /\ Op = "add_hashtree"
          /\ n > job.part - MaxMetadata
                   - (IF job.cmd.tree THEN TreeSize(job.part) + job.cmd.fec ELSE 0)

Check ==
    \/ /\ Is("check", {"add_hash"}) /\ job.part % BlockSize # 0 /\ Raise
    \/ /\ Is("check", {"add_hash", "append_vbmeta"})
       /\ Op = "add_hash" => job.part % BlockSize = 0
       /\ IF TooLarge(Len(image)) THEN Restore ELSE Goto("vbmeta") /\ UNCHANGED <<image, job>>
    \/ /\ Is("check", {"add_hashtree"})
       /\ IF TooLarge(Round(Len(image))) THEN Restore
          ELSE /\ image' = Resized(Round(Len(image))) /\ Goto("tree") /\ UNCHANGED job

NewTree == IF job.cmd.tree THEN TreeSize(Len(image)) ELSE 0

HashTree ==
    /\ Is("tree", {"add_hashtree"})
    /\ image' = image \o Repeat(Tree, NewTree)
    /\ job' = [job EXCEPT !.v = [NoVbmeta EXCEPT !.size = job.cmd.size, !.desc = "tree",
                                    !.hashed = image, !.tree = NewTree]]
    /\ Goto("fec")

FecData ==
    /\ Is("fec", {"add_hashtree"})
    /\ LET size == IF job.cmd.tree THEN job.cmd.fec ELSE 0
       IN  /\ image' = image \o Repeat(Fec, size)
           /\ job' = IF job.cmd.fec = 0 THEN job
                     ELSE [job EXCEPT !.v.fecAt = Len(image), !.v.fec = size]
    /\ Goto(IF job.cmd.append THEN "append" ELSE "end")

\* The digest, or the struct of another file; and the image is padded.
MakeVbmeta ==
    /\ Is("vbmeta", {"add_hash", "append_vbmeta"})
    /\ job' = [job EXCEPT !.v = [NoVbmeta EXCEPT !.size = job.cmd.size,
                 !.desc   = IF Op = "add_hash" THEN "hash" ELSE "none",
                 !.hashed = IF Op = "add_hash" THEN image ELSE << >>]]
    /\ IF job.cmd.append THEN Goto("append") /\ image' = Resized(Round(Len(image)))
       ELSE Goto("end") /\ UNCHANGED image

\* The struct is in a file of its own; a hash tree stays in the image.
NotAppended ==
    /\ Is("end", {"add_hash", "add_hashtree"}) /\ pc' = "idle" /\ job' = NoJob
    /\ original' = IF Op = "add_hashtree" THEN image ELSE original
    /\ UNCHANGED <<image, sparse, hurt, spoilt, faults>>

AppendVbmeta ==
    /\ Is("append", Adds)
    /\ image' = image \o Blob(job.v) \o Repeat(Nul, Round(job.v.size) - job.v.size)
    /\ job' = [job EXCEPT !.at = Len(image)]
    /\ Goto("gap")

\* What is left between the struct and the footer.
Gap == IF job.part = 0 THEN 0 ELSE job.part - Len(image) - BlockSize

\* append_dont_care: without room it is asked for a negative number of bytes,
\* which shortens a file that is not sparse and fails for one that is.
AppendGap ==
    /\ Is("gap", Adds \cup {"resize"})
    /\ IF Gap < 0 /\ (sparse \/ Len(image) + Gap < 0) THEN Restore
       ELSE /\ image' = Resized(Len(image) + Gap) /\ UNCHANGED job
            /\ Go("footer") /\ spoilt' = IF Gap < 0 THEN "cut" ELSE spoilt

AppendFooter ==
    /\ Is("footer", Adds \cup {"resize"})
    /\ image' = image \o Repeat(Nul, BlockSize - 1)
                      \o <<Footer(job.orig, job.at, job.v.size)>>
    /\ End
-----------------------------------------------------------------------------
(* Moving it and taking it off.                                            *)

\* Mutant: the end of the struct is not rounded up to a block.
VbmetaEndUnrounded == Current.at + Current.size

VbmetaEnd == Round(Current.at + Current.size)

Resize ==
    /\ Is("open", {"resize"})
    /\ IF \/ job.cmd.part % BlockSize # 0 \/ Parsed = NoVbmeta
          \/ job.cmd.part < Round(Current.at + Current.size) + BlockSize
       THEN Raise
       ELSE /\ image' = Resized(VbmetaEnd) /\ Goto("gap")
            /\ job' = [job EXCEPT !.orig = Current.orig, !.at = Current.at, !.v = Parsed,
                                  !.part = job.cmd.part]

\* The end of the tree and of the FEC data of a struct.
TreeEnd(v) == IF v.fecAt > 0 THEN v.fecAt + v.fec ELSE Len(v.hashed) + v.tree

Erase ==
    /\ Is("open", {"erase"}) /\ job' = NoJob /\ pc' = "idle"
    /\ IF Parsed = NoVbmeta \/ (job.cmd.keep /\ Parsed.desc # "tree")
       THEN UNCHANGED <<image, original>>
       ELSE /\ image' = Resized(IF job.cmd.keep THEN TreeEnd(Parsed) ELSE Current.orig)
            /\ original' = IF job.cmd.keep THEN image' ELSE original
    /\ UNCHANGED <<sparse, hurt, spoilt, faults>>

\* Lines 2338-2343, for the tree or for the FEC data.
ZeroBlocks(n) == << <<Zeroed>> \o Repeat(Nul, BlockSize - 1), Repeat(Nul, n - BlockSize) >>

\* There is no tree, or no FEC data where there should be: a block is written all
\* the same, and append_fill is asked for a negative number of bytes, which is
\* nothing for a plain file and fails for a sparse one when the counts are written.
Empty(v) == v.tree = 0 \/ (v.fecAt > 0 /\ v.fec = 0)

ZeroHashtree ==
    /\ Is("open", {"zero"})
    /\ IF Parsed.desc # "tree" THEN Raise
       ELSE IF Empty(Parsed) /\ sparse THEN Tear /\ UNCHANGED faults
       ELSE /\ image' = Resized(Len(Parsed.hashed)) /\ Go("write")
            /\ spoilt' = IF Empty(Parsed) THEN "shifted" ELSE spoilt
            /\ job' = [job EXCEPT !.todo =
                 ZeroBlocks(Parsed.tree)
                   \o (IF Parsed.fecAt > 0 THEN ZeroBlocks(Parsed.fec) ELSE << >>)
                   \o << SubSeq(image, TreeEnd(Parsed) + 1, Len(image)) >>]

Write ==
    /\ Is("write", {"zero"})
    /\ IF job.todo = << >> THEN Raise
       ELSE /\ image' = image \o Head(job.todo) /\ Goto("write")
            /\ job' = [job EXCEPT !.todo = Tail(@)]
-----------------------------------------------------------------------------
(* Faults.                                                                 *)

\* The step appends to the image.
Appends ==
    \/ pc = "tree" /\ NewTree > 0
    \/ pc = "fec" /\ job.cmd.fec > 0
    \/ pc \in {"append", "gap", "footer"}
    \/ pc = "write" /\ job.todo # << >>

Fault == pc # "idle" /\ faults < MaxFaults /\ faults' = faults + 1

\* Adding a footer restores the image; the other commands do not.  Nor does it help
\* a sparse image when the first append stops half way: it is truncated to the size
\* that it has already (lines 1117-1119).  In a plain file an append is all or nothing.
Exception ==
    /\ Fault
    /\ \/ /\ pc' = "idle" /\ job' = NoJob /\ UNCHANGED <<sparse, original, spoilt>>
          /\ IF pc = "open" THEN UNCHANGED <<image, hurt>>
             ELSE IF Op \in Adds THEN image' = Resized(job.orig) /\ UNCHANGED hurt
             ELSE hurt' = TRUE /\ UNCHANGED image
       \/ sparse /\ Appends /\ (Op \in Adds => Len(image) = job.orig) /\ Tear

\* Between two steps, or half way through an append to a sparse image.
Kill ==
    /\ Fault
    /\ \/ /\ pc' = "idle" /\ job' = NoJob /\ UNCHANGED <<image, sparse, original, spoilt>>
          /\ hurt' = (hurt \/ pc \notin {"open", "check"})
       \/ sparse /\ Appends /\ Tear

Next ==
    \/ \E c \in Commands : Start(c)
    \/ Open \/ Check \/ HashTree \/ FecData \/ MakeVbmeta \/ NotAppended
    \/ AppendVbmeta \/ AppendGap \/ AppendFooter
    \/ Resize \/ Erase \/ ZeroHashtree \/ Write
    \/ Exception \/ Kill

Spec == Init /\ [][Next]_vars
-----------------------------------------------------------------------------
(* Properties *)

Steps == {"idle", "open", "check", "tree", "fec", "vbmeta", "append", "gap", "footer",
          "write", "end"}

\* The variables have their types; between commands there are whole blocks,
\* unless the image itself is not one, and an image with a footer has them always.
TypeOK ==
    /\ \A k \in DOMAIN image : image[k].kind \in
         {"data", "nul", "tree", "fec", "zeroed", "vbmeta", "footer"}
    /\ sparse \in BOOLEAN /\ pc \in Steps /\ hurt \in BOOLEAN /\ faults \in 0 .. MaxFaults
    /\ spoilt \in {"no", "cut", "shifted", "torn"}
    /\ job.orig \in Nat /\ job.at \in Nat /\ job.part \in Nat
    /\ HasFooter \/ (sparse /\ ~ hurt) => Len(image) % BlockSize = 0

\* What avbtool checks beforehand is enough: add_hash_footer and add_hashtree_footer
\* have room for the footer if the struct is no larger than they reserve for it (lines
\* 3463 and 3705), and resize_image always.
GapFits ==
    pc = "gap" /\ (Op = "resize" \/ (Op # "append_vbmeta" /\ job.cmd.size <= MaxVbmeta)) =>
        Gap >= 0

\* Nothing of the image itself is changed or lost.
ImageKept ==
    Len(image) >= Len(original) /\ SubSeq(image, 1, Len(original)) = original

\* A footer at the end of the image points to a complete vbmeta struct behind the
\* image; the digest in it is of what is in the image now, and what the hash tree
\* and the FEC data are said to occupy holds them, or the zeroes of zero_hashtree.
FooterSound ==
    HasFooter =>
        LET f == Current
            v == Parsed
        IN  /\ f.orig <= f.at /\ f.at + f.size < Len(image)
            /\ v.size = f.size /\ SubSeq(image, f.at + 1, f.at + f.size) = Blob(v)
            /\ v.hashed = SubSeq(image, 1, Len(v.hashed))
            /\ v.desc = "hash" => Len(v.hashed) = f.orig
            /\ v.desc = "tree" =>
                 /\ f.orig <= Len(v.hashed) /\ TreeEnd(v) <= f.at
                 /\ \A k \in Len(v.hashed) + 1 .. Len(v.hashed) + v.tree :
                      image[k].kind \in {"tree", "zeroed", "nul"}
                 /\ \A k \in v.fecAt + 1 .. v.fecAt + v.fec :
                      image[k].kind \in {"fec", "zeroed", "nul"}

\* Lines 3479-3481: adding a footer is idempotent.  Between commands, as long as
\* none was killed or failed where it restores nothing, a footer remembers the size
\* of the image as it was at first, whatever was run since, and without one
\* nothing that was added is left.
Remembered ==
    pc = "idle" /\ ~ hurt =>
        IF HasFooter THEN Current.orig = Len(original) ELSE image = original

\* Lines 3336-3337: "If anything goes wrong from here-on, restore the image back
\* to its original size."  Refuted: append_vbmeta_image does not check that the
\* image fits, and for a plain file cuts off what is in the way of the footer.
NothingCutOff == pc = "idle" => SubSeq(image, 1, Len(original)) = original
=============================================================================
