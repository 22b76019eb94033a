------------------------------ MODULE MCImages ------------------------------
(***************************************************************************)
(* The programs that write images, each on files of its own: ext4-to-simg  *)
(* ("writer"), the ImageHandler of avbtool.py ("handler"), its commands    *)
(* that put a footer at the end of an image ("footer"), and mkbootimg with *)
(* repack_bootimg ("repack").  A behaviour is one of one program, as no    *)
(* image goes from one to the other between their steps.                   *)
(*                                                                         *)
(* writer: every file system of six blocks, with every way dumpe2fs can    *)
(* list its free blocks (a run of free blocks that crosses a group         *)
(* boundary is listed in parts), in chunks of two blocks.                  *)
(*                                                                         *)
(* handler: blocks of two units.  A plain file, an empty sparse one, and   *)
(* one with all kinds of chunks but CRC32; data in which every place of a  *)
(* block differs.                                                          *)
(*                                                                         *)
(* footer: images of one unit (less than a block), of three and of four.   *)
(* Partitions that are too small, just large enough and larger; a struct   *)
(* that fills its block, one that does not, and one larger than what is    *)
(* reserved for it; structs that are not appended.                         *)
(*                                                                         *)
(* repack: see MCBootImage; two seconds of the clock.                      *)
(***************************************************************************)
EXTENDS RepackBoot, MCBootImage

CONSTANTS TotalBlocks, PerChunk, Units, BlockSize, Patterns, Payloads, Offsets,
          MaxBlocks, MaxChunks, CanFail, Opened,
          MaxVbmeta, ImageSizes, FooterCommands, MaxFaults

VARIABLES
    program,                                            \* the program that is run
    phase, free, raw, i, pos, extents, e, off, chunks, c, at, disk,  \* of SparseImage
    file, mem, cursor, returned, failed,                \* of ImageHandler
    part, sparse, step, args, original, hurt, spoilt, faults  \* of ImageFooter

writer  == <<phase, free, raw, i, pos, extents, e, off, chunks, c, at, disk>>
handler == <<file, mem, cursor, returned, failed>>
footer  == <<part, sparse, step, args, original, hurt, spoilt, faults>>
allVars == <<program, writer, handler, footer, vars>>

Writer  == INSTANCE SparseImage
Handler == INSTANCE ImageHandler WITH pos <- cursor, Files <- Opened
-----------------------------------------------------------------------------
(* writer and handler *)

MCSeconds == <<"07", "08">>

MCPatterns == {<<1, 2>>}
MCPayloads == {<<>>, <<1>>, <<1, 1, 2, 1>>}
MCOffsets  == {-1, 1, 3}

Piece(kind, sz, data) == [kind |-> kind, sz |-> sz, data |-> data]

SparseFile(body, blocks) ==
    [sparse |-> TRUE, blocks |-> blocks, chunks |-> Len(body), body |-> body]

MCOpened ==
    { [sparse |-> FALSE, blocks |-> 0, chunks |-> 0, body |-> <<1, 2, 1, 2, 1>>],
      SparseFile(<<>>, 0),
      SparseFile(<<Piece("raw", 1, <<1, 2>>), Piece("dontCare", 1, <<>>),
                   Piece("fill", 1, <<2, 1>>)>>, 3) }

Bounds == SUBSET (0 .. TotalBlocks)

\* A list of ranges from its first blocks and its ends.
FreeList(F, E) ==
    LET nth(S, k) == CHOOSE x \in S : Cardinality({y \in S : y <= x}) = k
    IN  [k \in 1 .. Cardinality(F) |-> [first |-> nth(F, k), end |-> nth(E, k)]]

StartWriter == \E F, E \in Bounds :
    /\ Cardinality(F) = Cardinality(E)
    /\ LET list == FreeList(F, E)
       IN  /\ \A k \in 1 .. Len(list) : list[k].first < list[k].end
           /\ \A k \in 1 .. (Len(list) - 1) : list[k].end <= list[k + 1].first
           /\ Writer!Start(list)

-----------------------------------------------------------------------------
(* footer *)

C(op, n, size) ==
    [op |-> op, part |-> n, size |-> size, append |-> TRUE, keep |-> FALSE,
     tree |-> TRUE, fec |-> 0]

MCFooterCommands ==
    { C("add_hash", 6, 1), C("add_hash", 8, 2), C("add_hash", 9, 1), C("add_hash", 0, 1),
      C("add_hash", 2, 1), [C("add_hash", 8, 2) EXCEPT !.append = FALSE],
      C("add_hash", 8, 3), [C("add_hashtree", 0, 1) EXCEPT !.append = FALSE],
      C("add_hashtree", 0, 1), C("add_hashtree", 12, 2),
      [C("add_hashtree", 12, 1) EXCEPT !.fec = 2],
      [C("add_hashtree", 8, 1) EXCEPT !.tree = FALSE],
      C("append_vbmeta", 18, 1), C("append_vbmeta", 7, 1), C("append_vbmeta", 6, 1),
      C("resize", 6, 1), C("resize", 14, 1),
      C("erase", 0, 1), [C("erase", 0, 1) EXCEPT !.keep = TRUE], C("zero", 0, 1) }

Footer == INSTANCE ImageFooter WITH
    image <- part, pc <- step, job <- args, Sizes <- ImageSizes, Commands <- FooterCommands
-----------------------------------------------------------------------------
ASSUME ImagesAssumption ==
    /\ Writer!SparseAssumption /\ Handler!ImageHandlerAssumption
    /\ Footer!ImageFooterAssumption

\* The programs that are not run do not matter.
IdleWriter  == Writer!Start(<< >>) /\ raw = 0
IdleHandler == Handler!Init /\ file = Handler!Sparse(<< >>)
IdleFooter  == Footer!Init /\ ~ sparse /\ \A n \in ImageSizes : Len(part) <= n

MCInit ==
    \/ program = "writer" /\ StartWriter /\ IdleHandler /\ IdleFooter /\ Init
    \/ program = "handler" /\ IdleWriter /\ Handler!Init /\ IdleFooter /\ Init
    \/ program = "footer" /\ IdleWriter /\ IdleHandler /\ Footer!Init /\ Init
    \/ program = "repack" /\ IdleWriter /\ IdleHandler /\ IdleFooter /\ Init

MCNext ==
    \/ program = "writer" /\ Writer!Next /\ UNCHANGED <<program, handler, footer, vars>>
    \/ program = "handler" /\ Handler!Next /\ UNCHANGED <<program, writer, footer, vars>>
    \/ program = "footer" /\ Footer!Next /\ UNCHANGED <<program, writer, handler, vars>>
    \/ program = "repack" /\ Next /\ UNCHANGED <<program, writer, handler, footer>>

MCSpec == MCInit /\ [][MCNext]_allVars
-----------------------------------------------------------------------------
\* The types of all programs: raw chunks are never empty and never too large, the
\* handler's cursor is never before the image, an image with a footer has whole
\* blocks, and a boot image that is repacked has been read whole.
TypesOK ==
    /\ program = "writer" => Writer!TypeOK
    /\ program = "handler" => Handler!TypeOK
    /\ program = "footer" => Footer!TypeOK
    /\ program = "repack" => TypeOK

\* The disk gets every block that is in use, at its place, and nothing is written
\* over a block that is skipped (SparseImage).
Flashed == Writer!Flashed

\* What the handler remembers is what the file says, after any appends and cuts; what
\* cannot be read again is a sparse file in which an append has stopped half way, also
\* when it is truncated to the size it had (ImageHandler).
FileAgrees == program = "handler" => Handler!FileAgrees

\* To its callers the handler of a sparse file, or of a plain one, is a flat
\* file: it implements FlatImage (avbtool.py 732-736).
Implements == Handler!Implements

\* What avbtool checks before it adds or moves a footer leaves room for it.  And as long
\* as it has not spoilt the image by a footer without room, a zeroed tree that is empty
\* or a torn sparse header: the image is never changed, by commands that an exception
\* stops or that are killed neither; a footer points to a whole struct behind it, with
\* the digest of what the image is now; and between commands the footer remembers the
\* size that the image has had at first (ImageFooter).
FootersSound ==
    program = "footer" =>
        /\ Footer!GapFits
        /\ spoilt = "no" => Footer!ImageKept /\ Footer!FooterSound /\ Footer!Remembered

\* The options that unpack_bootimg prints make the same image again, but for the
\* signature; and when a repack empties a whole image nothing is left that mkbootimg
\* refuses, but for the name of a ramdisk within the same second (RepackBoot).
Repackable == Rebuilds /\ RepackAccepted
=============================================================================
