------------------------- MODULE MCImages_invariants -------------------------
(***************************************************************************)
(* What the programs of MCImages keep, and the words in which              *)
(* MCImages_proofs says it.  WriterInv: extents and chunks tile the        *)
(* partition.  FooterInv: what is known of an image at each step of a      *)
(* command.  HandlerInv: what the file has to do with the image that was   *)
(* read last.  RepackInv: an image that promises something is what an      *)
(* accepted command line has packed, and a repack of it has the options    *)
(* that keep that promise.                                                 *)
(***************************************************************************)
EXTENDS MCImages

-----------------------------------------------------------------------------
(* The writer.                                                             *)

\* What the writer is told: ranges of free blocks, in order.
FreeOK ==
    /\ free \in Seq([first : Writer!Blocks, end : 1 .. TotalBlocks])
    /\ \A k \in 1 .. Len(free) : free[k].first < free[k].end
    /\ \A k \in 1 .. Len(free) - 1 : free[k].end <= free[k + 1].first

\* Where the extent or chunk behind x begins, and the first one behind s.
Behind(x) == x.start + x.length

Reach(s)  == IF s = << >> THEN 0 ELSE Behind(s[Len(s)])

\* An extent at p: not empty, on the partition, and all of it in F or none.
Tile(x, p, F) ==
    /\ x \in Writer!Extents /\ x.start = p /\ x.length > 0 /\ Behind(x) <= TotalBlocks
    /\ \A b \in p .. Behind(x) - 1 : (b \in F) <=> (x.kind = "dontcare")

\* Extents or chunks without a gap from the first block on.
Before(s, k) == IF k = 1 THEN 0 ELSE Behind(s[k - 1])

Tiles(s, F) == s \in Seq(Writer!Extents) /\ \A k \in 1 .. Len(s) : Tile(s[k], Before(s, k), F)

ExtentsKnown ==
    /\ Tiles(extents, Writer!FreeBlocks) /\ Reach(extents) = pos /\ i \in 1 .. Len(free) + 1
    /\ phase = "extents" => pos = IF i = 1 THEN 0 ELSE free[i - 1].end
    /\ phase # "extents" => pos = TotalBlocks

ChunksKnown ==
    /\ Tiles(chunks, Writer!FreeBlocks) /\ e \in Nat \ {0} /\ off \in Nat
    /\ \A k \in 1 .. Len(chunks) : chunks[k].kind = "raw" => chunks[k].length <= PerChunk
    /\ phase = "extents" => chunks = << >> /\ e = 1 /\ off = 0
    /\ phase = "chunks" =>
         /\ e <= Len(extents) + 1
         /\ off > 0 => e <= Len(extents) /\ extents[e].kind = "raw" /\ off < extents[e].length
         /\ Reach(chunks) = Before(extents, e) + off
    /\ phase \notin {"extents", "chunks"} => Reach(chunks) = TotalBlocks

\* The chunks up to the k-th have been read whole.
Whole(k) == \A j \in 1 .. k : chunks[j].kind = "raw" => Writer!Full(chunks[j])

DiskKnown ==
    /\ c \in 1 .. Len(chunks) + 1 /\ at \in Nat
    /\ phase = "write" => Whole(c - 1)
    /\ phase \in {"flash", "done"} => Whole(Len(chunks))
    /\ phase = "flash" => at = Before(chunks, c)
    /\ phase = "done" => at = TotalBlocks
    /\ phase \notin {"flash", "done"} => at = 0
    /\ \A b \in Writer!Blocks \ Writer!FreeBlocks : b < at => b < raw
    /\ disk = [b \in Writer!Blocks |-> IF b < at /\ b \notin Writer!FreeBlocks THEN b
                                       ELSE Writer!Stale]

Phases == {"extents", "chunks", "write", "flash", "failed", "done"}

WriterInv ==
    /\ phase \in Phases /\ FreeOK /\ raw \in 0 .. TotalBlocks
    /\ ExtentsKnown /\ ChunksKnown /\ DiskKnown

\* Where the ranges before the n-th end.
FreeEnd(n) == IF n = 1 THEN 0 ELSE free[n - 1].end
-----------------------------------------------------------------------------
(* The footers: what is known between two steps of a command.              *)

IsSeq(s) == \E T : s \in Seq(T)

\* s is at the beginning of w.
Keeps(w, s) == Len(s) <= Len(w) /\ \A k \in 1 .. Len(s) : w[k] = s[k]

NoFooter(w)     == \A k \in 1 .. Len(w) : w[k].kind # "footer"

NoneInside(w)   == \A k \in 1 .. Len(w) : w[k].kind = "footer" => k = Len(w)

EndsInFooter(w) == w # << >> /\ w[Len(w)].kind = "footer"

Aligned(n) == n \in Nat /\ n % BlockSize = 0

\* The struct v is at the place x of w.
StructAt(w, x, v) ==
    /\ Aligned(x) /\ v.size \in Nat \ {0} /\ x + Footer!Round(v.size) <= Len(w)
    /\ \A k \in 1 .. v.size : w[x + k] = [kind |-> "vbmeta", n |-> k, v |-> v]

\* What v says is true of w, of which a part before x has been described, the first
\* m units being the image.
Describes(v, w, x, m) ==
    /\ v.desc \in {"none", "hash", "tree"} /\ m \in Nat /\ m <= x
    /\ IsSeq(v.hashed) /\ Len(v.hashed) <= x /\ Keeps(w, v.hashed)
    /\ v.tree \in Nat /\ v.fecAt \in Nat /\ v.fec \in Nat
    /\ v.desc = "hash" => Len(v.hashed) = m
    /\ v.desc = "tree" =>
         /\ m <= Len(v.hashed) /\ Footer!TreeEnd(v) <= x
         /\ v.tree > 0 => v.tree >= BlockSize
         /\ v.fecAt > 0 => v.fecAt = Len(v.hashed) + v.tree
         /\ v.fecAt > 0 /\ v.tree > 0 => v.fec >= BlockSize
         /\ v.fecAt + v.fec <= x
         /\ \A k \in Len(v.hashed) + 1 .. Len(v.hashed) + v.tree : w[k].kind \in {"tree", "zeroed", "nul"}
         /\ \A k \in v.fecAt + 1 .. v.fecAt + v.fec : w[k].kind \in {"fec", "zeroed", "nul"}

\* A footer f, and what it points to.
Points(w, f, v) ==
    /\ f.size = v.size /\ StructAt(w, f.at, v) /\ Describes(v, w, f.at, f.orig)
    /\ f.at + Footer!Round(f.size) + BlockSize <= Len(w)

\* The image w, of which o is what was there at first; h: something was left undone.
ImageOK(w, o, h) ==
    /\ IsSeq(w) /\ IsSeq(o) /\ Keeps(w, o) /\ NoneInside(w) /\ h \in BOOLEAN
    /\ EndsInFooter(w) =>
         /\ Points(w, w[Len(w)], w[w[Len(w)].at + 1].v)
         /\ Len(o) <= w[Len(w)].orig
         /\ ~ h => w[Len(w)].orig = Len(o)

Clean == ImageOK(part, original, hurt) /\ (~ hurt /\ ~ EndsInFooter(part) => part = original)

Ops(S) == args.cmd \in FooterCommands /\ args.cmd.op \in S

\* The first args.orig units are the image that a footer is added to or was added to.
Image ==
    /\ IsSeq(part) /\ IsSeq(original) /\ Keeps(part, original) /\ NoFooter(part) /\ hurt \in BOOLEAN
    /\ args.orig \in Nat /\ Len(original) <= args.orig /\ args.orig <= Len(part)
    /\ ~ hurt => args.orig = Len(original)

\* There is room for n more units and a footer.
Room(n) == args.part \in Nat /\ (args.part > 0 => Len(part) + n + BlockSize <= args.part)

FecSize(cmd) == IF cmd.tree THEN cmd.fec ELSE 0

\* What avbtool checks for the command cmd is enough.
Checked(cmd) == cmd.op = "resize" \/ (cmd.op # "append_vbmeta" /\ cmd.size <= MaxVbmeta)

OpenOK == Clean /\ args.cmd \in FooterCommands

CheckOK ==
    /\ Ops(Footer!Adds) /\ Image /\ Len(part) = args.orig /\ args.part \in Nat
    /\ args.cmd.op = "add_hash" => args.part > 0

VbmetaOK ==
    /\ Ops({"add_hash", "append_vbmeta"}) /\ Image /\ Len(part) = args.orig
    /\ args.part \in Nat
    /\ Checked(args.cmd) =>
         Footer!Round(Len(part)) + Footer!Round(args.cmd.size) + BlockSize <= args.part

TreeOK ==
    /\ Ops({"add_hashtree"}) /\ Image /\ Aligned(Len(part))
    /\ Room((IF args.cmd.tree THEN Footer!TreeSize(Len(part)) ELSE 0)
                + FecSize(args.cmd) + MaxVbmeta)

FecOK ==
    /\ Ops({"add_hashtree"}) /\ Image /\ Aligned(Len(part))
    /\ args.v.size = args.cmd.size /\ args.v.desc = "tree" /\ args.v.fecAt = 0
    /\ Describes(args.v, part, Len(part), args.orig) /\ Len(part) = Len(args.v.hashed) + args.v.tree
    /\ args.v.tree > 0 => args.cmd.tree
    /\ Room(FecSize(args.cmd) + MaxVbmeta)

AppendOK ==
    /\ Ops(Footer!Adds) /\ Image /\ Aligned(Len(part))
    /\ args.v.size \in Nat \ {0} /\ Describes(args.v, part, Len(part), args.orig)
    /\ args.part \in Nat /\ (Checked(args.cmd) => Room(Footer!Round(args.v.size)))

FooterOK ==
    /\ Ops(Footer!Adds \cup {"resize"}) /\ Image
    /\ StructAt(part, args.at, args.v) /\ Describes(args.v, part, args.at, args.orig)

GapOK == args.part \in Nat /\ (Checked(args.cmd) => Room(0))

EndOK ==
    /\ Ops({"add_hash", "add_hashtree"}) /\ Image
    /\ args.cmd.op = "add_hash" => Len(part) = args.orig

\* What is still to be written makes of part the image w; p: where each piece goes.
Pieces(w, p, todo, n) ==
    /\ IsSeq(todo) /\ p \in [1 .. Len(todo) + 1 -> Nat] /\ p[1] = n /\ p[Len(todo) + 1] = Len(w)
    /\ \A k \in 1 .. Len(todo) :
         /\ p[k] < Len(w) /\ IsSeq(todo[k]) /\ p[k] + Len(todo[k]) = p[k + 1]
         /\ \A j \in 1 .. Len(todo[k]) : todo[k][j] = w[p[k] + j]

WriteOK ==
    /\ Ops({"zero"}) /\ IsSeq(part) /\ Len(original) <= Len(part)
    /\ \E w, p : /\ ImageOK(w, original, hurt) /\ EndsInFooter(w) /\ Keeps(w, part)
                 /\ Pieces(w, p, args.todo, Len(part))

FooterInv ==
    /\ step \in {"idle", "open", "check", "vbmeta", "tree", "fec", "append", "gap", "footer",
                  "end", "write"}
    /\ step = "idle" => Clean
    /\ step = "open" => OpenOK
    /\ step = "check" => CheckOK
    /\ step = "vbmeta" => VbmetaOK
    /\ step = "tree" => TreeOK
    /\ step = "fec" => FecOK
    /\ step = "append" => AppendOK
    /\ step = "gap" => FooterOK /\ GapOK
    /\ step = "footer" => FooterOK
    /\ step = "end" => EndOK
    /\ step = "write" => WriteOK

\* As long as nothing is spoilt; then a command comes to its end, and none is started.
FooterSafe ==
    /\ spoilt = "no" => FooterInv
    /\ spoilt # "no" => step \in {"idle", "footer", "write"}
-----------------------------------------------------------------------------
(* The handler: sums over the first chunks of a file.                      *)

\* f is what the recursion of Sum computes.
Adds(s, n, f) == f = [k \in 0 .. n |-> IF k = 0 THEN 0 ELSE f[k - 1] + s[k]]

\* Where each chunk begins in the image, in units.
Off(b, k) == BlockSize * Handler!Blocks(b, k)

Body == Seq(Handler!Stored)
-----------------------------------------------------------------------------
(* What the chunks stand for.                                              *)

\* f is what the recursion of FlattenSeq computes.
Flattens(w, n, f) == f = [q \in 1 .. n |-> IF q = 1 THEN w[q] ELSE f[q-1] \o w[q]]

\* The first k chunks of a body, as an image.
Val(b, k) == Handler!FlattenSeq([q \in 1 .. k |-> Handler!Expand(b[q])])

\* The image has the units of the chunks, each chunk where it begins.
ValKnown(b, n) ==
    /\ Val(b, n) \in Seq(Units) /\ Len(Val(b, n)) = Off(b, n)
    /\ \A k \in 1 .. n : \A j \in 1 .. BlockSize * b[k].sz :
         Val(b, n)[Off(b, k - 1) + j] = Handler!Expand(b[k])[j]
-----------------------------------------------------------------------------
(* Reading the header.                                                     *)

\* What the handler remembers of the chunk k.
ChunkOf(b, k) == [kind |-> b[k].kind, at |-> k, data |-> b[k].data,
                  out |-> BlockSize * Handler!Blocks(b, k - 1), size |-> BlockSize * b[k].sz]

\* r is what the recursion of _chunks computes.
Reads(b, n, r) ==
    r = [k \in 0 .. n |-> IF k = 0 THEN << >>
                          ELSE IF b[k].kind = "crc" THEN r[k - 1]
                          ELSE Append(r[k - 1], ChunkOf(b, k))]

\* The chunks of b as the handler remembers them.
Lists(cs, b) == IsSeq(cs) /\ Len(cs) = Len(b) /\ \A k \in 1 .. Len(b) : cs[k] = ChunkOf(b, k)
-----------------------------------------------------------------------------
(* The handler and the file it has open.                                   *)

\* What a well-formed file is the image of.
Value(f) == IF f.sparse THEN Val(f.body, Len(f.body)) ELSE f.body

\* The handler has read f; unless an append has stopped, that is the file, and
\* otherwise what was in it is there.
Known(f, fl, m, fd) ==
    /\ f.sparse \in BOOLEAN /\ Handler!WellFormed(f) /\ m = Handler!ReadHeader(f)
    /\ fd \in {"no", "yes", "restored"}
    /\ fd = "no" => fl = f
    /\ fd # "no" /\ fl.sparse => Handler!Malformed(fl)
    /\ fd = "restored" => fl.sparse
    /\ fl = [sparse |-> f.sparse, blocks |-> fl.blocks, chunks |-> fl.chunks, body |-> fl.body]
    /\ IsSeq(fl.body) /\ Keeps(fl.body, f.body)
    /\ ~ f.sparse => fl.body \in Seq(Units) /\ fl.blocks = 0 /\ fl.chunks = 0

HandlerInv ==
    (\E f : Known(f, file, mem, failed)) /\ cursor \in Nat /\ returned \in Seq(Units)

\* What Content shows of a file and what is remembered of it.
Shows(fl, m) ==
    IF ~ fl.sparse THEN SubSeq(fl.body, 1, m.size)
    ELSE Handler!FlattenSeq([k \in 1 .. m.end |-> Handler!Expand(fl.body[k])])

\* The image becomes w, seen from a caller; v: what it was.
Moves(v, w) ==
    \/ (\E d \in Seq(Units) : w = v \o d) /\ cursor' = 0 /\ returned' = << >>
    \/ Keeps(v, w) /\ cursor' = 0 /\ returned' = << >>
    \/ w = v /\ returned' = << >>
    \/ /\ w = v /\ cursor \in 0 .. Len(v)
       /\ \E n \in 0 .. Len(v) :
            /\ returned' = SubSeq(v, cursor + 1, Handler!Flat!Least(cursor + n, Len(v)))
            /\ cursor' = cursor + Len(returned')

Result(f) ==
    \E g : /\ Known(g, file', mem', failed') /\ Moves(Value(f), Value(g))
           /\ cursor' \in Nat /\ returned' \in Seq(Units)

\* The file has become g, which has been read.
Reads_(g) == g.sparse \in BOOLEAN /\ Handler!WellFormed(g) /\ file' = g /\ Handler!Reread
-----------------------------------------------------------------------------
(* Cutting.                                                                *)

CutTo(b, k, n, t) ==
    /\ t \in Body /\ Len(t) = k
    /\ \A q \in 1 .. k - 1 : t[q] = b[q]
    /\ t[k].sz = (n - Off(b, k - 1)) \div BlockSize
    /\ Keeps(Val(b, Len(b)), Val(t, k))
-----------------------------------------------------------------------------
(* Reading.                                                                *)

\* One turn of the loop of read: s is where it is, x the chunk.
Took(s, x) ==
    IF s.togo <= 0 THEN s
    ELSE [pos |-> s.pos + Handler!Min({x.size - (s.pos - x.out), s.togo}),
          togo |-> s.togo - Handler!Min({x.size - (s.pos - x.out), s.togo}),
          data |-> s.data \o Handler!Piece(x, s.pos - x.out,
                                           Handler!Min({x.size - (s.pos - x.out), s.togo}))]

Loops(k, p, n, l, r) ==
    r = [j \in k - 1 .. l |-> IF j < k THEN [pos |-> p, togo |-> n, data |-> << >>]
                              ELSE Took(r[j - 1], mem.chunks[j])]

\* Where the loop is when it has read v from p up to h, of what ends at q.
Upto(v, p, q, h) == [pos |-> h, togo |-> q - h, data |-> SubSeq(v, p + 1, h)]
-----------------------------------------------------------------------------
(* mkbootimg and unpack_bootimg: files in pages.                           *)

\* The file f is at the place n of w.
Holds(w, n, f) == n + Len(f) <= Len(w) /\ \A k \in 1 .. Len(f) : w[n + k] = f[k]

\* w is made of n pages.
Paged(w, p, n) == IsSeq(w) /\ n \in Nat /\ Len(w) = p * n

\* What PadFile adds to m cells behind n pages.
PadSize(l, p) == (p - (l % p)) % p
-----------------------------------------------------------------------------
(* Texts in fields.                                                        *)

NulAt(b) == SelectInSeq(b, LAMBDA x : x = NulChar)
-----------------------------------------------------------------------------
(* The ramdisks of a vendor_boot image, one behind the other.              *)

FilesOK(fs) == IsSeq(fs) /\ \A k \in 1 .. Len(fs) : IsSeq(fs[k].file)

\* r is what the recursion of Ramdisks computes.
Joins(fs, n, r) == r = [k \in 0 .. n |-> IF k = 0 THEN << >> ELSE r[k - 1] \o fs[k].file]
-----------------------------------------------------------------------------
(* The header of a boot image.                                             *)

\* h is f with the fields of g behind it.
MergeOf(h, f, g) ==
    /\ DOMAIN h = (DOMAIN f) \cup (DOMAIN g)
    /\ \A x : x \in DOMAIN f => h[x] = f[x]
    /\ \A x : x \in DOMAIN g /\ x \notin DOMAIN f => h[x] = g[x]

RamdiskAddr(a) == IF filesize(a.ramdisk) > 0 THEN a.base + a.ramdisk_offset ELSE 0

SecondAddr(a)  == IF filesize(a.second) > 0 THEN a.base + a.second_offset ELSE 0

LineField(a)   == Field(Asciiz(a.cmdline), BootArgs + BootExtraArgs)

\* What the header h of a command says.
BootFields(h, a) ==
    /\ "magic" \in DOMAIN h /\ h["magic"] = "ANDROID!" /\ h["header_version"] = a.header_version
    /\ h["kernel_size"] = filesize(a.kernel) /\ h["ramdisk_size"] = filesize(a.ramdisk)
    /\ a.header_version < 3 =>
         /\ h["second_size"] = filesize(a.second) /\ h["page_size"] = a.pagesize
         /\ h["kernel_addr"] = a.base + a.kernel_offset /\ h["name"] = a.board
         /\ h["ramdisk_addr"] = RamdiskAddr(a) /\ h["second_addr"] = SecondAddr(a)
         /\ h["tags_addr"] = a.base + a.tags_offset
         /\ h["cmdline"] = Field(FirstArgs(a), BootArgs)
         /\ h["extra_cmdline"] = Field(ExtraArgs(a), BootExtraArgs)
    /\ a.header_version \in {1, 2} =>
         /\ h["recovery_dtbo_size"] = filesize(a.recovery_dtbo)
         /\ h["recovery_dtbo_offset"] = IF a.recovery_dtbo = None THEN 0 ELSE RecoveryDtboOffset(a)
    /\ a.header_version = 2 => h["dtb_size"] = filesize(a.dtb) /\ h["dtb_addr"] = a.base + a.dtb_offset
    /\ a.header_version > 2 => h["cmdline"] = LineField(a)
    /\ a.header_version = 4 => h["signature_size"] = IF a.gki = None THEN 0 ELSE SignatureSize

V0Names == {"magic", "header_version", "kernel_size", "kernel_addr", "ramdisk_size", "ramdisk_addr",
            "second_size", "second_addr", "tags_addr", "page_size", "os", "name", "cmdline", "id",
            "extra_cmdline"}

V0Fields(h, a) ==
    /\ h["magic"] = "ANDROID!" /\ h["header_version"] = a.header_version
    /\ h["kernel_size"] = filesize(a.kernel) /\ h["ramdisk_size"] = filesize(a.ramdisk)
    /\ h["second_size"] = filesize(a.second) /\ h["page_size"] = a.pagesize
    /\ h["kernel_addr"] = a.base + a.kernel_offset /\ h["name"] = a.board
    /\ h["ramdisk_addr"] = RamdiskAddr(a) /\ h["second_addr"] = SecondAddr(a)
    /\ h["tags_addr"] = a.base + a.tags_offset
    /\ h["cmdline"] = Field(FirstArgs(a), BootArgs)
    /\ h["extra_cmdline"] = Field(ExtraArgs(a), BootExtraArgs)

\* The page size of a boot image, and the number of pages before each file.
BootPage(a) == IF a.header_version > 2 THEN V3PageSize ELSE a.pagesize

Page2(a, p) == 1 + Pages(filesize(a.kernel), p)

Page3(a, p) == Page2(a, p) + Pages(filesize(a.ramdisk), p)

Page4(a, p) == Page3(a, p) + Pages(filesize(a.second), p)

Page5(a, p) == Page4(a, p) + Pages(filesize(a.recovery_dtbo), p)
-----------------------------------------------------------------------------
(* mkbootimg: the files of a boot image.                                   *)

IsOption(f) == f = None \/ IsSeq(f)

\* The commands that make a boot image.
BootCommand(a) == IsCommand(a) /\ a.vendor = FALSE /\ ~ UsageError(a) /\ ~ Refused(a) /\ ~ TooLong(a)

\* Each file is in w where the header puts it.
BootAt(w, a, p) ==
    /\ IsSeq(w) /\ BootHeaderSize <= Len(w) /\ w[1] = [content |-> BootHeader(a), i |-> 1]
    /\ Holds(w, p * 1, Bytes(a.kernel)) /\ Holds(w, p * Page2(a, p), Bytes(a.ramdisk))
    /\ Holds(w, p * Page3(a, p), Bytes(a.second))
    /\ a.header_version \in {1, 2} => Holds(w, p * Page4(a, p), Bytes(a.recovery_dtbo))
    /\ a.header_version = 2 => Holds(w, p * Page5(a, p), Bytes(a.dtb))
    /\ a.header_version = 4 /\ a.gki # None => Holds(w, p * Page3(a, p), Signature(a))
-----------------------------------------------------------------------------
(* unpack_bootimg: the files of a boot image.                              *)

FilesOfBoot(kernel, ramdisk, second, dtbo, dtb, signature) ==
    [kernel |-> kernel, ramdisk |-> ramdisk, second |-> second, recovery_dtbo |-> dtbo,
     dtb |-> dtb, signature |-> signature]

\* unpack_boot_image, with the sizes as it finds them.
BootRead(w, h, p, second, dtbo, dtb, sig) ==
    [vendor |-> FALSE, header |-> h,
     files |-> FilesOfBoot(
        Extract(w, p, h.kernel_size),
        Extract(w, p * (1 + Pages(h.kernel_size, p)), h.ramdisk_size),
        IfAny(w, p * (1 + Pages(h.kernel_size, p) + Pages(h.ramdisk_size, p)), second),
        IF dtbo > 0 THEN Extract(w, h.recovery_dtbo_offset, dtbo) ELSE None,
        IfAny(w, p * (1 + Pages(h.kernel_size, p) + Pages(h.ramdisk_size, p) + Pages(second, p)
                        + Pages(dtbo, p)), dtb),
        IfAny(w, p * (1 + Pages(h.kernel_size, p) + Pages(h.ramdisk_size, p)), sig))]

BootSizes(a, second, dtbo, dtb, sig) ==
    /\ second = IF a.header_version \in 0 .. 2 THEN filesize(a.second) ELSE 0
    /\ dtbo = IF a.header_version \in {1, 2} THEN filesize(a.recovery_dtbo) ELSE 0
    /\ dtb = IF a.header_version \in {2} THEN filesize(a.dtb) ELSE 0
    /\ sig = IF a.header_version \in {4} THEN (IF a.gki = None THEN 0 ELSE SignatureSize) ELSE 0
-----------------------------------------------------------------------------
(* The options that unpack_bootimg prints for a boot image.                *)

OptionNames ==
    {"vendor", "header_version", "kernel", "ramdisk", "second", "dtb", "recovery_dtbo", "vendor_ramdisk",
     "vendor_bootconfig", "fragments", "cmdline", "vendor_cmdline", "board", "base", "kernel_offset",
     "ramdisk_offset", "second_offset", "dtb_offset", "tags_offset", "os_version", "os_patch_level",
     "pagesize", "gki"}

CommonOptions(o, h, f) ==
    /\ OptionNames \subseteq DOMAIN o /\ o.vendor = FALSE /\ o.header_version = h.header_version
    /\ o.kernel = f.kernel /\ o.ramdisk = f.ramdisk /\ o.gki = None /\ o.fragments = << >>
    /\ o.vendor_cmdline = << >> /\ o.vendor_ramdisk = None /\ o.vendor_bootconfig = None

\* Versions 3 and 4.
LateOptions(o, h) ==
    /\ o.cmdline = cstr(h.cmdline) /\ o.board = "" /\ o.second = None /\ o.recovery_dtbo = None
    /\ o.dtb = None /\ o.pagesize = 2 /\ o.base = 16 /\ o.kernel_offset = 1 /\ o.ramdisk_offset = 4
    /\ o.second_offset = 3 /\ o.dtb_offset = 5 /\ o.tags_offset = 0

\* Versions 0 to 2.
EarlyOptions(o, h, f) ==
    /\ o.second = f.second /\ o.recovery_dtbo = f.recovery_dtbo /\ o.dtb = f.dtb
    /\ o.pagesize = h.page_size /\ o.base = 0 /\ o.kernel_offset = h.kernel_addr
    /\ o.ramdisk_offset = h.ramdisk_addr /\ o.second_offset = h.second_addr
    /\ o.tags_offset = h.tags_addr /\ o.board = h.name
    /\ o.dtb_offset = IF h.header_version = 2 THEN h.dtb_addr ELSE 5
    /\ o.cmdline = cstr(h.cmdline) \o cstr(h.extra_cmdline)

\* What the printed options o say of a command that made the image.
AgainOptions(o, a) ==
    /\ o.vendor = FALSE /\ o.header_version = a.header_version
    /\ o.board = IF a.header_version < 3 THEN a.board ELSE ""
    /\ o.cmdline = a.cmdline
    /\ a.header_version < 3 => o.base + o.kernel_offset = a.base + a.kernel_offset
    /\ o.kernel = Bytes(a.kernel) /\ o.ramdisk = Bytes(a.ramdisk) /\ o.gki = None
    /\ o.second = Carried(a, a.second, 0 .. 2) /\ o.dtb = Carried(a, a.dtb, {2})
    /\ o.recovery_dtbo = Carried(a, a.recovery_dtbo, {1, 2})

\* Those of its options that say how an image is read.
OffsetsOK(o) ==
    /\ o.base \in Nat /\ o.kernel_offset \in Nat /\ o.ramdisk_offset \in Nat
    /\ o.second_offset \in Nat /\ o.dtb_offset \in Nat /\ o.tags_offset \in Nat
    /\ o.pagesize \in Nat /\ o.pagesize >= BootHeaderSize
-----------------------------------------------------------------------------
(* A repack of a boot image.                                               *)

OptFile(f) == f = None \/ IsFile(f)

PackedAs(vendor, board, line, load, files) ==
    [vendor |-> vendor, board |-> board, cmdline |-> line, load |-> load, files |-> files]

Renewed(f, new)   == [f EXCEPT !.ramdisk = new, !.signature = None]

RenewedIn(w, new) == [w EXCEPT !.files.ramdisk = new, !.files.signature = None]
-----------------------------------------------------------------------------
(* mkbootimg: a vendor_boot image.                                         *)

\* The commands that make a vendor_boot image.
VendorCommand(a) == IsCommand(a) /\ a.vendor = TRUE /\ ~ UsageError(a) /\ ~ Refused(a)

RamdiskSize(a) == IF a.header_version > 3 THEN Total(Fragments(a)) ELSE filesize(a.vendor_ramdisk)

\* What the header h of a command says.
VendorFields(h, a) ==
    /\ "magic" \in DOMAIN h /\ h["magic"] = "VNDRBOOT" /\ h["header_version"] = a.header_version
    /\ h["page_size"] = a.pagesize /\ h["kernel_addr"] = a.base + a.kernel_offset
    /\ h["ramdisk_addr"] = a.base + a.ramdisk_offset /\ h["ramdisk_size"] = RamdiskSize(a)
    /\ h["cmdline"] = Field(Asciiz(a.vendor_cmdline), VendorArgs)
    /\ h["tags_addr"] = a.base + a.tags_offset /\ h["name"] = a.board
    /\ h["header_size"] = VendorHeaderSize /\ h["dtb_size"] = filesize(a.dtb)
    /\ h["dtb_addr"] = a.base + a.dtb_offset

TableFields(h, a) ==
    /\ h["table_size"] = Len(Fragments(a)) * TableEntrySize /\ h["entry_num"] = Len(Fragments(a))
    /\ h["entry_size"] = TableEntrySize /\ h["bootconfig_size"] = filesize(a.vendor_bootconfig)

VendorNames == {"magic", "header_version", "page_size", "kernel_addr", "ramdisk_addr", "ramdisk_size",
                "cmdline", "tags_addr", "name", "header_size", "dtb_size", "dtb_addr"}

\* The number of pages before each part.
VPage1(p)    == Pages(VendorHeaderSize, p)

VPage2(a, p) == VPage1(p) + Pages(RamdiskSize(a), p)

VPage3(a, p) == VPage2(a, p) + Pages(filesize(a.dtb), p)

VPage4(a, p) == VPage3(a, p) + Pages(Len(Fragments(a)), p)

\* Each part is in w where the header puts it.
VendorAt(w, a, p) ==
    /\ IsSeq(w) /\ VendorHeaderSize <= Len(w) /\ w[1] = [content |-> VendorHeader(a), i |-> 1]
    /\ ~ (a.header_version > 3) => Holds(w, p * VPage1(p), Bytes(a.vendor_ramdisk))
    /\ Holds(w, p * VPage2(a, p), Bytes(a.dtb))
    /\ a.header_version > 3 =>
         /\ Holds(w, p * VPage1(p), Ramdisks(Fragments(a)))
         /\ Holds(w, p * VPage3(a, p), Table(a))
         /\ Holds(w, p * VPage4(a, p), Bytes(a.vendor_bootconfig))
-----------------------------------------------------------------------------
(* unpack_bootimg: a vendor_boot image.                                    *)

\* A fragment as the table entry x tells it.
ReadFragment(w, p, n, x) ==
    [type |-> x.type, name |-> cstr(x.name), board_id |-> x.board_id,
     file |-> Extract(w, p * n + x.offset, x.size)]

VendorFiles(ramdisk, fs, dtb, bootconfig) ==
    [vendor_ramdisk |-> ramdisk, fragments |-> fs, dtb |-> dtb, bootconfig |-> bootconfig]

\* unpack_vendor_boot_image, with the pages as it finds them.
VendorRead(w, h, p, n1, n2, n3) ==
    [vendor |-> TRUE, header |-> h,
     files |-> VendorFiles(
        IF h.header_version > 3 THEN None ELSE Extract(w, p * n1, h.ramdisk_size),
        IF h.header_version > 3
        THEN [k \in 1 .. h.entry_num |->
                ReadFragment(w, p, n1, w[p * n3 + h.entry_size * (k - 1) + 1].content)]
        ELSE << >>,
        IfAny(w, p * n2, h.dtb_size),
        IF h.header_version > 3 THEN Extract(w, p * (n3 + Pages(h.table_size, p)), h.bootconfig_size)
        ELSE None)]
-----------------------------------------------------------------------------
(* A repack of a vendor_boot image.                                        *)

VendorPrinted(o, h, f) ==
    /\ OptionNames \subseteq DOMAIN o /\ o.vendor = TRUE /\ o.header_version = h.header_version
    /\ o.pagesize = h.page_size /\ o.base = 0 /\ o.kernel_offset = h.kernel_addr
    /\ o.ramdisk_offset = h.ramdisk_addr /\ o.tags_offset = h.tags_addr /\ o.dtb_offset = h.dtb_addr
    /\ o.second_offset = 3 /\ o.vendor_cmdline = cstr(h.cmdline) /\ o.board = h.name
    /\ o.dtb = f.dtb /\ o.vendor_bootconfig = f.bootconfig /\ o.fragments = f.fragments
    /\ o.vendor_ramdisk = f.vendor_ramdisk /\ o.kernel = None /\ o.ramdisk = None /\ o.second = None
    /\ o.recovery_dtbo = None /\ o.cmdline = << >> /\ o.gki = None

\* What the printed options o say of a command that made the image.
VendorAgain(o, a) ==
    /\ o.vendor = TRUE /\ o.header_version = a.header_version /\ o.board = a.board
    /\ o.vendor_cmdline = a.vendor_cmdline /\ o.base + o.kernel_offset = a.base + a.kernel_offset
    /\ o.dtb = Carried(a, a.dtb, {3, 4})
    /\ o.vendor_ramdisk = IF a.header_version = 3 THEN Bytes(a.vendor_ramdisk) ELSE None
    /\ o.fragments = IF a.header_version = 4 THEN Fragments(a) ELSE << >>
    /\ o.vendor_bootconfig = IF a.header_version = 4 THEN Bytes(a.vendor_bootconfig) ELSE None

\* The options with other ramdisks.
OthersSame(o, q) == \A y \in OptionNames \ {"vendor_ramdisk", "fragments"} : q[y] = o[y]

\* w was packed with the options of o, and z with those of q.
SamePacked(w, z, o, q, v) ==
    \E x1, x2, x3, x4, x5, x6 :
      /\ w = PackedAs(x1, x2, x3, x4, VendorFiles(o.vendor_ramdisk, o.fragments, x5, x6))
      /\ z = PackedAs(x1, x2, x3, x4,
               VendorFiles(IF v = 3 THEN Bytes(q.vendor_ramdisk) ELSE None,
                 IF v = 4 THEN q.fragments ELSE << >>, x5, x6))

\* What a repack makes of what was packed.
PatchedWhole(w, new) == [w EXCEPT !.files.vendor_ramdisk = new]

PatchedFirst(w, new) == [w EXCEPT !.files.fragments[1].file = new]

PatchedLast(w, x)    == [w EXCEPT !.files.fragments = Append(@, x)]

\* The fragments with another first file, and with one more.
FirstWith(fs, new) == [fs EXCEPT ![1].file = new]

OneMore(fs, x)     == Append(fs, x)

AllFragments(fs) == IsSeq(fs) /\ \A k \in 1 .. Len(fs) : IsFragment(fs[k])

\* A new fragment: the second that names it is none of the characters that end a text.
NewFragment(second, new) == [type |-> 1, name |-> NewName(second), board_id |-> 0, file |-> new]
-----------------------------------------------------------------------------
(* A repack of any image.                                                  *)

\* WithRamdisk and Patched, with the new fragment x.
WithBy(o, ty, new, x) ==
    CASE ty = BOOT_IMAGE              -> [o EXCEPT !.ramdisk = new]
      [] ty = VENDOR_BOOT_IMAGE       -> [o EXCEPT !.vendor_ramdisk = new]
      [] ty = SINGLE_RAMDISK_FRAGMENT -> [o EXCEPT !.fragments[1].file = new]
      [] OTHER                        -> [o EXCEPT !.fragments = Append(@, x)]

PatchedBy(w, ty, new, x) ==
    CASE ty = BOOT_IMAGE              -> RenewedIn(w, new)
      [] ty = VENDOR_BOOT_IMAGE       -> PatchedWhole(w, new)
      [] ty = SINGLE_RAMDISK_FRAGMENT -> PatchedFirst(w, new)
      [] OTHER                        -> PatchedLast(w, x)
-----------------------------------------------------------------------------
(* The states of the repack program.                                       *)

\* The commands that make an image.
Accepted(a) == BootCommand(a) \/ VendorCommand(a)

\* The new ramdisk of a job, and the fragment it may become.
NewRamdisk(j)  == Archive(j.ramdisk.kind, j.ramdisk.files)

AddedBy(j, t)  == NewFragment(Seconds[t], NewRamdisk(j))

\* What was printed for the image that a repack is to change.
PrintedFor(j) ==
    \E a : /\ Accepted(a) /\ j.before = Packed(a)
           /\ j.options = Options(Unpack(Mkbootimg(a))) /\ j.type = TypeOf(Unpack(Mkbootimg(a)))

\* The new ramdisk of a job can be packed.
CanPack(j) ==
    /\ j.ramdisk.kind \in {"lz4", "gzip"} /\ j.ramdisk.files \subseteq Files
    /\ j.ramdisk = Content(j.ramdisk.kind, j.ramdisk.files)

\* The options of a job make what the repack promises.
Promised(j, t) ==
    /\ IsCommand(j.options)
    /\ Packed(j.options) = PatchedBy(j.before, j.type, NewRamdisk(j), AddedBy(j, t))

\* The image is what an accepted command has packed; a repack of it first has the options
\* that were printed for it, then those with the new ramdisk; and while mkbootimg writes,
\* the image promises nothing.
ImageInv == want # None => \E a : Accepted(a) /\ image = Mkbootimg(a) /\ want = Packed(a)

PackInv  == pc \in {"add", "pack"} =>
                job.type # 0 /\ (job.before # None => PrintedFor(job) /\ CanPack(job))

OpenInv  == pc \in {"open", "write"} =>
                /\ job.type = 0 => IsCommand(job.options)
                /\ job.type # 0 /\ job.before # None => Promised(job, clock)

WriteInv == pc = "write" => want = None /\ ~ UsageError(job.options)

JobInv   == {"options", "type", "ramdisk", "adds", "before"} \subseteq DOMAIN job

RepackInv ==
    clock \in 1 .. Len(Seconds) /\ JobInv /\ ImageInv /\ PackInv /\ OpenInv /\ WriteInv
=============================================================================
