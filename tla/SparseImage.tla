----------------------------- MODULE SparseImage -----------------------------
(***************************************************************************)
(* scripts/ext4-to-simg.py: a raw ext4 image becomes an Android sparse     *)
(* image that stores the allocated blocks and skips the free ones, and     *)
(* what the bootloader does with it when it is flashed.                    *)
(*                                                                         *)
(* A chunk of the file has a kind and a length only: its place on the      *)
(* partition is the sum of the lengths before it.                          *)
(***************************************************************************)
EXTENDS Integers, Sequences

CONSTANTS
    TotalBlocks, \* blocks of the file system
    PerChunk     \* blocks in a chunk of MAX_CHUNK bytes

SparseAssumption ==
    TotalBlocks \in Nat \ {0} /\ PerChunk \in Nat \ {0}

Blocks == 0 .. (TotalBlocks - 1)
From(a, b) == a .. (b - 1)

\* What dumpe2fs lists, sorted: ranges of free blocks, each a pair of its
\* first block and the one after its last.
FreeLists ==
    {f \in Seq([first : Blocks, end : 1 .. TotalBlocks]) :
       /\ \A k \in 1 .. Len(f) : f[k].first < f[k].end
       /\ \A k \in 1 .. (Len(f) - 1) : f[k].end <= f[k + 1].first}

Extent(kind, start, length) == [kind |-> kind, start |-> start, length |-> length]

\* A block of the partition that still holds what was there before.
Stale == -1

VARIABLES
    phase,   \* what is done: "extents", "chunks", "write", and then "flash" by
             \* the bootloader; or "failed", and at the end "done"
    free,    \* free_ranges()
    raw,     \* blocks the raw image file really has
    i, pos,  \* the next range, and the first block after the last extent
    extents,
    e, off,  \* the next extent, and how much of it is in chunks already
    chunks,
    c,       \* the next chunk to be stored, and then to be flashed
    at,      \* the place the bootloader writes next
    disk     \* the partition: the image's block in each place, or Stale

vars == <<phase, free, raw, i, pos, extents, e, off, chunks, c, at, disk>>

Start(f) ==
    /\ phase = "extents" /\ free = f /\ raw \in 0 .. TotalBlocks
    /\ i = 1 /\ pos = 0 /\ extents = << >>
    /\ e = 1 /\ off = 0 /\ chunks = << >>
    /\ c = 1 /\ at = 0 /\ disk = [b \in Blocks |-> Stale]

Init == \E f \in FreeLists : Start(f)

\* The allocated blocks before a free range, if there are any.
Gap(f) == IF f.first > pos THEN <<Extent("raw", pos, f.first - pos)>> ELSE << >>

AddRange ==
    /\ phase = "extents" /\ i <= Len(free)
    /\ extents' = (extents \o Gap(free[i]))
                    \o <<Extent("dontcare", free[i].first, free[i].end - free[i].first)>>
    /\ pos' = free[i].end /\ i' = i + 1
    /\ UNCHANGED <<phase, free, raw, e, off, chunks, c, at, disk>>

\* The allocated blocks after the last free range.
LastGap == IF pos < TotalBlocks THEN <<Extent("raw", pos, TotalBlocks - pos)>>
           ELSE << >>

AddTail ==
    /\ phase = "extents" /\ i > Len(free)
    /\ extents' = extents \o LastGap
    /\ pos' = TotalBlocks
    /\ phase' = "chunks"
    /\ UNCHANGED <<free, raw, i, e, off, chunks, c, at, disk>>

AddSkip ==
    /\ phase = "chunks" /\ e <= Len(extents) /\ extents[e].kind = "dontcare"
    /\ chunks' = Append(chunks, extents[e])
    /\ e' = e + 1
    /\ UNCHANGED <<phase, free, raw, i, pos, extents, off, c, at, disk>>

\* Mutant: every chunk of an extent has the full length.
ChunkLengthFull == PerChunk

\* min(per_chunk, length - off)
ChunkLength == IF PerChunk < extents[e].length - off THEN PerChunk
               ELSE extents[e].length - off

AddRaw ==
    /\ phase = "chunks" /\ e <= Len(extents) /\ extents[e].kind = "raw"
    /\ chunks' = Append(chunks, Extent("raw", extents[e].start + off, ChunkLength))
    /\ IF off + PerChunk < extents[e].length
       THEN off' = off + PerChunk /\ e' = e
       ELSE off' = 0 /\ e' = e + 1
    /\ UNCHANGED <<phase, free, raw, i, pos, extents, c, at, disk>>

EndChunks ==
    /\ phase = "chunks" /\ e > Len(extents)
    /\ phase' = "write" /\ c' = 1
    /\ UNCHANGED <<free, raw, i, pos, extents, e, off, chunks, at, disk>>

\* Mutant: what read() returned is not compared with what was asked for.
FullUnchecked(k) == TRUE

\* read() returned all of the chunk's data.
Full(k) == k.start + k.length <= raw

WriteChunk ==
    /\ phase = "write" /\ c <= Len(chunks)
    /\ chunks[c].kind = "raw" => Full(chunks[c])
    /\ c' = c + 1
    /\ UNCHANGED <<phase, free, raw, i, pos, extents, e, off, chunks, at, disk>>

\* sys.exit, with the chunks so far in the output file.
ShortImage ==
    /\ phase = "write" /\ c <= Len(chunks)
    /\ chunks[c].kind = "raw" /\ ~Full(chunks[c])
    /\ phase' = "failed"
    /\ UNCHANGED <<free, raw, i, pos, extents, e, off, chunks, c, at, disk>>

EndFile ==
    /\ phase = "write" /\ c > Len(chunks)
    /\ phase' = "flash" /\ c' = 1
    /\ UNCHANGED <<free, raw, i, pos, extents, e, off, chunks, at, disk>>

\* The bootloader writes a raw chunk's data, in order, at its current place and
\* passes over as many blocks as any chunk says.
FlashRaw ==
    /\ phase = "flash" /\ c <= Len(chunks) /\ chunks[c].kind = "raw"
    /\ disk' = [b \in Blocks |->
                  IF b \in From(at, at + chunks[c].length)
                  THEN chunks[c].start + (b - at)
                  ELSE disk[b]]
    /\ at' = at + chunks[c].length /\ c' = c + 1
    /\ UNCHANGED <<phase, free, raw, i, pos, extents, e, off, chunks>>

FlashSkip ==
    /\ phase = "flash" /\ c <= Len(chunks) /\ chunks[c].kind = "dontcare"
    /\ at' = at + chunks[c].length /\ c' = c + 1
    /\ UNCHANGED <<phase, free, raw, i, pos, extents, e, off, chunks, disk>>

FlashEnd ==
    /\ phase = "flash" /\ c > Len(chunks)
    /\ phase' = "done"
    /\ UNCHANGED <<free, raw, i, pos, extents, e, off, chunks, c, at, disk>>

Next == \/ AddRange \/ AddTail \/ AddSkip \/ AddRaw \/ EndChunks
        \/ WriteChunk \/ ShortImage \/ EndFile
        \/ FlashRaw \/ FlashSkip \/ FlashEnd

Spec == Init /\ [][Next]_vars
-----------------------------------------------------------------------------
FreeBlocks == UNION {From(free[k].first, free[k].end) : k \in 1 .. Len(free)}

Extents == [kind : {"raw", "dontcare"}, start : Nat, length : Nat]

\* A raw chunk is never empty and never larger than MAX_CHUNK (line 29), and the
\* bootloader stays on the partition.
TypeOK ==
    /\ phase \in {"extents", "chunks", "write", "flash", "failed", "done"}
    /\ free \in Seq([first : Blocks, end : 1 .. TotalBlocks])
    /\ raw \in 0 .. TotalBlocks
    /\ i \in Nat \ {0} /\ pos \in 0 .. TotalBlocks /\ extents \in Seq(Extents)
    /\ e \in Nat \ {0} /\ off \in Nat /\ chunks \in Seq(Extents)
    /\ \A k \in 1 .. Len(chunks) :
          chunks[k].kind = "raw" => chunks[k].length \in 1 .. PerChunk
    /\ c \in Nat \ {0} /\ at \in 0 .. TotalBlocks
    /\ disk \in [Blocks -> Blocks \cup {Stale}]

\* What is flashed from a finished file: every allocated block of the image at
\* its own place, none of them missing from a raw image that is too short (line
\* 66), and nothing written over the free ones (header 4-10: free blocks become
\* DONT_CARE, the rest must not keep stale bytes).
Flashed == phase = "done" =>
    \A b \in Blocks : IF b \in FreeBlocks THEN disk[b] = Stale
                     ELSE disk[b] = b /\ b < raw
=============================================================================
