---------------------------- MODULE ImageHandler ----------------------------
(***************************************************************************)
(* avb/avbtool.py, class ImageHandler: reading, appending to and cutting   *)
(* an Android sparse image, or a plain file, in place.  The file and what  *)
(* the handler remembers of it are separate: every change is written to    *)
(* the file, which is then read again.  An append to a full disk stops in  *)
(* the middle; what the callers do then is to truncate the image to its    *)
(* original size.                                                          *)
(*                                                                         *)
(* A unit stands for the bytes of a part of a block.  A place in the file  *)
(* is the index of the chunk that is stored there.                         *)
(***************************************************************************)
EXTENDS Integers, Sequences, SequencesExt, FiniteSetsExt

CONSTANTS
    Units,      \* 0 is a NUL
    BlockSize,  \* units in a block
    Patterns,   \* fill_data: sequences of units whose length divides BlockSize
    Files,      \* the files the handler is opened on
    Payloads,   \* what append_raw is called with
    Offsets,    \* what seek is called with
    MaxBlocks,  \* bound: the largest size, in blocks
    MaxChunks,  \* bound: chunks in a file
    CanFail     \* the disk may become full

VARIABLES
    file,     \* sparse, the header's total_blocks and total_chunks, and the
              \* chunks (or units) stored
    mem,      \* the handler, see ReadHeader
    pos,      \* _file_pos
    returned, \* what read() returned, if that was the last call
    failed    \* an append stopped in the middle: "no", "yes"; or "restored", when
              \* truncate() has returned that was to restore the size before it

vars == <<file, mem, pos, returned, failed>>

\* A file that is not sparse has no counts.
Plain(units) == [sparse |-> FALSE, blocks |-> 0, chunks |-> 0, body |-> units]

\* A chunk that is stored: sz in blocks, data the units of a raw chunk or the
\* pattern of a fill chunk.
Raw(data)      == [kind |-> "raw", sz |-> Len(data) \div BlockSize, data |-> data]
Fill(p, n)     == [kind |-> "fill", sz |-> n \div BlockSize, data |-> p]
DontCare(n)    == [kind |-> "dontCare", sz |-> n \div BlockSize, data |-> << >>]
Crc            == [kind |-> "crc", sz |-> 0, data |-> << >>]

Sum(s) == LET f[k \in 0 .. Len(s)] == IF k = 0 THEN 0 ELSE f[k - 1] + s[k] IN f[Len(s)]

\* The sum of the sizes of the first k chunks, in blocks.
Blocks(body, k) == Sum([i \in 1 .. k |-> body[i].sz])

Sparse(body) ==
    [sparse |-> TRUE, blocks |-> Blocks(body, Len(body)), chunks |-> Len(body), body |-> body]

\* The files of the model: read without an exception and without CRC32 chunks.
Stored ==
    {c \in [kind : {"raw", "fill", "dontCare"}, sz : Nat, data : Seq(Units)] :
        /\ c.kind = "raw" => Len(c.data) = c.sz * BlockSize
        /\ c.kind = "fill" => c.data # << >>}

WellFormed(f) ==
    \/ ~ f.sparse /\ f.body \in Seq(Units) \ {<< >>} /\ f = Plain(f.body)
    \/ f.sparse /\ f.body \in Seq(Stored) /\ f = Sparse(f.body)

ImageHandlerAssumption ==
    /\ BlockSize \in Nat \ {0} /\ 0 \in Units /\ CanFail \in BOOLEAN
    /\ MaxBlocks \in Nat /\ MaxChunks \in Nat
    /\ \A f \in Files : f.sparse \in BOOLEAN /\ WellFormed(f)
    /\ Payloads \subseteq Seq(Units) /\ Offsets \subseteq Int
    /\ \A p \in Patterns : p \in Seq(Units) /\ p # << >> /\ BlockSize % Len(p) = 0

\* What _read_header raises ValueError for, or struct.error: a plain file that is
\* shorter than the header of a sparse one is unreadable too.
Malformed(f) ==
    \/ ~ f.sparse /\ f.body = << >>
    \/ /\ f.sparse
       /\ \/ f.chunks # Len(f.body)
          \/ \E k \in 1 .. Len(f.body) :
                f.body[k].kind = "raw" /\ Len(f.body[k].data) # f.body[k].sz * BlockSize
          \/ f.blocks # Blocks(f.body, Len(f.body))

Broken == [sparse |-> FALSE, chunks |-> << >>, blocks |-> 0, count |-> 0, end |-> 0, size |-> -1]

\* _chunks: the chunks but for those with a CRC.
Chunks(f) ==
    LET chunk(k) == [kind |-> f.body[k].kind, at |-> k, data |-> f.body[k].data,
                     out |-> BlockSize * Blocks(f.body, k - 1), size |-> BlockSize * f.body[k].sz]
        read[k \in 0 .. Len(f.body)] ==
            IF k = 0 THEN << >>
            ELSE IF f.body[k].kind = "crc" THEN read[k - 1]
            ELSE Append(read[k - 1], chunk(k))
    IN  read[Len(f.body)]

\* _num_total_blocks, _num_total_chunks, _sparse_end, image_size.
ReadHeader(f) ==
    IF Malformed(f) THEN Broken
    ELSE [sparse |-> f.sparse, blocks |-> f.blocks, count |-> f.chunks, end |-> Len(f.body),
          chunks |-> IF f.sparse THEN Chunks(f) ELSE << >>,
          size   |-> IF f.sparse THEN BlockSize * f.blocks ELSE Len(f.body)]

Init ==
    /\ file \in Files /\ mem = ReadHeader(file) /\ pos = 0
    /\ returned = << >> /\ failed = "no"

Usable == failed = "no" /\ mem # Broken

Refused == returned' = << >> /\ UNCHANGED <<file, mem, pos, failed>>

Reread == mem' = ReadHeader(file') /\ pos' = 0 /\ returned' = << >> /\ failed' = "no"

Zeros(n)   == [i \in 1 .. n |-> 0]
Aligned(n) == n % BlockSize = 0
Repeat(p, n) == [i \in 1 .. n |-> p[((i - 1) % Len(p)) + 1]]
-----------------------------------------------------------------------------
\* The common part of the append operations: of a chunk to a sparse file, of
\* units to another.
Append_(chunk, units) ==
    /\ file' = IF mem.sparse
               THEN [file EXCEPT !.blocks = mem.blocks + chunk.sz, !.chunks = mem.count + 1,
                                 !.body = Append(@, chunk)]
               ELSE [file EXCEPT !.body = @ \o units]
    /\ Reread

Room(n) == mem.size + n <= MaxBlocks * BlockSize /\ mem.end < MaxChunks

AppendDontCare(n) ==
    /\ Usable /\ (mem.sparse => Room(n))
    /\ IF Aligned(n) THEN Append_(DontCare(n), Zeros(n)) ELSE Refused

\* Without multiple_block_size only for a file that is not sparse (line 3754
\* makes the size a multiple of a block size that is not smaller).
AppendRaw(data, multiple) ==
    /\ Usable /\ (multiple \/ ~ mem.sparse)
    /\ IF multiple /\ ~ Aligned(Len(data)) THEN Refused
       ELSE Append_(Raw(data), data)

AppendFill(p, n) ==
    /\ Usable
    /\ IF Aligned(n) THEN Append_(Fill(p, n), Repeat(p, n)) ELSE Refused

\* The disk is full: the counts are written, and the data in part.
DiskFull(data) ==
    /\ CanFail /\ Usable /\ Aligned(Len(data))
    /\ \E k \in 0 .. (Len(data) - 1) :
         file' = IF mem.sparse
                 THEN [file EXCEPT !.blocks = mem.blocks + Raw(data).sz, !.chunks = mem.count + 1,
                                   !.body = Append(@, [Raw(data) EXCEPT !.data = SubSeq(data, 1, k)])]
                 ELSE [file EXCEPT !.body = @ \o SubSeq(data, 1, k)]
    /\ failed' = "yes" /\ returned' = << >> /\ UNCHANGED <<mem, pos>>
-----------------------------------------------------------------------------
Negative(offset) == offset < 0

Seek(offset) ==
    /\ Usable
    /\ IF Negative(offset) THEN Refused
       ELSE pos' = offset /\ returned' = << >> /\ UNCHANGED <<file, mem, failed>>

\* bisect_right(_chunk_output_offsets, offset) - 1; 0 for none.
ChunkAt(offset) == Max({0} \cup {k \in 1 .. Len(mem.chunks) : mem.chunks[k].out <= offset})

\* The k-th unit that a chunk stands for.
UnitAt(c, k) == CASE c.kind = "raw"      -> c.data[k]
                  [] c.kind = "fill"     -> c.data[((k - 1) % Len(c.data)) + 1]
                  [] c.kind = "dontCare" -> 0

\* Mutant: a fill is read from the beginning of its pattern.
PieceUnshifted(c, from, n) ==
    [i \in 1 .. n |-> UnitAt(c, IF c.kind = "fill" THEN i ELSE from + i)]

\* Lines 1067-1076; from is chunk_pos_offset, n chunk_pos_to_go.
Piece(c, from, n) == [i \in 1 .. n |-> UnitAt(c, from + i)]

\* The loop of lines 1062-1083, from chunk k on: where it is, how much is left and
\* what it has read.  Behind the last chunk chunk_pos_to_go is negative.
ReadChunks(k, p, togo) ==
    LET loop[j \in k - 1 .. Len(mem.chunks)] ==
            IF j < k THEN [pos |-> p, togo |-> togo, data |-> << >>]
            ELSE LET s == loop[j - 1]
                     c == mem.chunks[j]
                     n == Min({c.size - (s.pos - c.out), s.togo})
                 IN  IF s.togo <= 0 THEN s
                     ELSE [pos |-> s.pos + n, togo |-> s.togo - n,
                           data |-> s.data \o Piece(c, s.pos - c.out, n)]
    IN  loop[Len(mem.chunks)]

Read(n) ==
    /\ Usable
    /\ IF ~ mem.sparse
       THEN /\ returned' = SubSeq(file.body, pos + 1, Min({pos + n, mem.size}))
            /\ pos' = pos + Len(returned')
            /\ UNCHANGED <<file, mem, failed>>
       ELSE IF n > 0 /\ mem.chunks = << >> THEN Refused  \* IndexError
       ELSE LET r == ReadChunks(ChunkAt(pos), pos, n)
            IN  returned' = r.data /\ pos' = r.pos /\ UNCHANGED <<file, mem, failed>>
-----------------------------------------------------------------------------
\* Lines 1125-1150: the chunk is kept in part.
Shrink(chunk, units) ==
    [chunk EXCEPT !.sz = units \div BlockSize,
                  !.data = IF chunk.kind = "raw" THEN SubSeq(@, 1, units) ELSE @]

\* Mutant: the size of a chunk that is cut is not updated.
KeptBlocksUncut(k, size) == Sum([i \in 1 .. k |-> mem.chunks[i].size \div BlockSize])

\* The blocks of the first k chunks, once the image ends at size.
KeptBlocks(k, size) ==
    Sum([i \in 1 .. k |-> (Min({mem.chunks[i].out + mem.chunks[i].size, size})
                             - mem.chunks[i].out) \div BlockSize])

Cut(size) ==
    LET k    == ChunkAt(size)
        c    == mem.chunks[k]
        part == c.out # size
        kept == IF part THEN k ELSE k - 1
        head == SubSeq(file.body, 1, c.at - 1)
    IN  /\ file' = [file EXCEPT !.chunks = kept, !.blocks = KeptBlocks(kept, size),
                       !.body = IF part THEN Append(head, Shrink(file.body[c.at], size - c.out))
                                ELSE head]
        /\ Reread

\* Lines 1117-1119.
Unchanged ==
    /\ failed' = IF failed = "yes" THEN "restored" ELSE "no"
    /\ returned' = << >> /\ UNCHANGED <<file, mem, pos>>

Truncate(size) ==
    /\ mem # Broken /\ failed # "restored"
    /\ IF ~ mem.sparse
       THEN /\ file' = [file EXCEPT !.body =
                          SubSeq(@, 1, Min({size, Len(@)})) \o Zeros(Max({0, size - Len(@)}))]
            /\ Reread
       ELSE IF ~ Aligned(size) THEN Refused
       ELSE IF size = mem.size THEN Unchanged
       ELSE IF size < mem.size THEN Cut(size)
       ELSE AppendDontCare(size - mem.size)

Sizes == 0 .. (MaxBlocks * BlockSize)

Next ==
    \/ \E n \in Sizes : Room(n) /\ AppendDontCare(n)
    \/ \E d \in Payloads, m \in BOOLEAN : Room(Len(d)) /\ AppendRaw(d, m)
    \/ \E p \in Patterns, n \in Sizes : Room(n) /\ AppendFill(p, n)
    \/ \E d \in Payloads : Room(Len(d)) /\ DiskFull(d)
    \/ \E o \in Offsets : Seek(o)
    \/ \E n \in Sizes : Read(n)
    \* what is left to do after a failure is to restore the original size
    \* bound: and a plain file is never cut down to nothing
    \/ \E n \in Sizes : /\ failed = "yes" => n <= mem.size
                        /\ mem.sparse \/ n > 0
                        /\ Truncate(n)

Spec == Init /\ [][Next]_vars
-----------------------------------------------------------------------------
(* Properties *)

\* The variables have their types, and no call moves the cursor before the
\* beginning of the image.
TypeOK ==
    /\ file.sparse \in BOOLEAN /\ file.blocks \in Nat /\ file.chunks \in Nat
    /\ file.sparse \/ file.body \in Seq(Units)
    /\ mem.sparse \in BOOLEAN /\ mem.size \in Nat /\ mem.end \in Nat
    /\ pos \in Nat /\ returned \in Seq(Units) /\ failed \in {"no", "yes", "restored"}

\* Whatever is appended, cut off and cut in the middle in whatever order, the file can
\* be read again, and what the handler remembers is what it says.  If an append has
\* stopped half way, that is so of a plain file, and of a sparse one as soon as it is
\* cut to a smaller size; but until then its header is torn, and it stays torn when it
\* is truncated to the size that it had, as the callers do (lines 1117-1119).
FileAgrees ==
    /\ mem # Broken
    /\ failed = "no" => mem = ReadHeader(file)
    /\ failed # "no" => (Malformed(file) <=> file.sparse)
    /\ failed = "restored" => file.sparse

\* What is in the image: what the stored chunks stand for, one after the other.
Expand(c) == CASE c.kind = "raw"      -> c.data
               [] c.kind = "fill"     -> Repeat(c.data, c.sz * BlockSize)
               [] c.kind = "dontCare" -> Zeros(c.sz * BlockSize)
               [] c.kind = "crc"      -> << >>

Content ==
    IF ~ file.sparse THEN SubSeq(file.body, 1, mem.size)
    ELSE FlattenSeq([k \in 1 .. mem.end |-> Expand(file.body[k])])

Flat == INSTANCE FlatImage WITH content <- Content

\* Lines 732-736: sparse or not, "the operations do the same": all that a caller
\* can see of the handler is what a flat file would show.  After an append that
\* failed, truncation to a size before it still does what it does to a flat file.
Implements == Flat!Spec
=============================================================================
