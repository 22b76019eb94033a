----------------------------- MODULE BootImage -----------------------------
(***************************************************************************)
(* mkbootimg/mkbootimg.py and mkbootimg/unpack_bootimg.py: the files that  *)
(* scripts/build-bootimg.sh packs into boot.img, and what is read back.    *)
(*                                                                         *)
(* A file is a sequence of cells, a cell standing for 1024 bytes: a page   *)
(* is 2 to 16 of them.  mkbootimg writes its output from the front, each   *)
(* file padded to a page; unpack_bootimg computes from the header where    *)
(* each file is.  Names and the image id are compared only; a text is a    *)
(* sequence of characters.                                                 *)
(***************************************************************************)
EXTENDS Integers, Sequences, FiniteSets, SequencesExt

CONSTANTS
    None,          \* an option that is not given
    BootArgs,      \* BOOT_ARGS_SIZE, in characters
    BootExtraArgs, \* BOOT_EXTRA_ARGS_SIZE
    VendorArgs,    \* VENDOR_BOOT_ARGS_SIZE
    AddressLimit   \* the first address that a field of 32 bits cannot hold

BootImageAssumption ==
    /\ BootArgs \in Nat \ {0} /\ BootExtraArgs \in Nat \ {0}
    /\ VendorArgs \in Nat \ {0} /\ AddressLimit \in Nat \ {0}

V3PageSize       == 4  \* BOOT_IMAGE_HEADER_V3_PAGESIZE
BootHeaderSize   == 2  \* 1632, 1648, 1660, 1580 or 1584 bytes
VendorHeaderSize == 3  \* 2112 or 2128 bytes
SignatureSize    == 4  \* BOOT_IMAGE_V4_SIGNATURE_SIZE

\* A file of n cells.  The content of a ramdisk is a set of files in an archive
\* of kind "lz4" or "gzip".
Content(kind, files) == [kind |-> kind, files |-> files]
Cells(content, n)    == [i \in 1 .. n |-> [content |-> content, i |-> i]]
Nul                  == [content |-> Content("nul", {}), i |-> 0]

\* It grows with the files.
Archive(kind, files) == Cells(Content(kind, files), 1 + Cardinality(files))

Zeros(n)         == [i \in 1 .. n |-> Nul]
filesize(f)      == IF f = None THEN 0 ELSE Len(f)
Pages(size, p)   == (size + p - 1) \div p
PadFile(out, p)  == out \o Zeros((p - (Len(out) % p)) % p)

WritePadded(out, f, p) == IF f = None THEN out ELSE PadFile(out \o f, p)

WriteHeader(header, size, p) == PadFile(Cells(header, size), p)
-----------------------------------------------------------------------------
(* Texts, versions and addresses on the command line.                      *)

NulChar == "NUL"

\* AsciizBytes; cstr; a field of struct.pack "s".
Asciiz(text)        == Append(text, NulChar)
Field(bytes, size)  == [i \in 1 .. size |-> IF i <= Len(bytes) THEN bytes[i] ELSE NulChar]
cstr(bytes) == IF NulChar \in ToSet(bytes)
               THEN SubSeq(bytes, 1, SelectInSeq(bytes, LAMBDA x : x = NulChar) - 1)
               ELSE bytes

\* parse_os_version of "a", "a.b" or "a.b.c", and format_os_version; the text
\* "no match" is << >>, and None is no option.
Part(v, k) == IF k <= Len(v) THEN v[k] ELSE 0
ParseVersion(v) == IF v = << >> THEN 0 ELSE Part(v, 1) * 2^14 + Part(v, 2) * 2^7 + Part(v, 3)

\* Mutant: the third number is left out.
FormatVersionShort(n) == IF n = 0 THEN << >> ELSE <<n \div 2^14, (n \div 2^7) % 2^7>>

FormatVersion(n) == IF n = 0 THEN << >> ELSE <<n \div 2^14, (n \div 2^7) % 2^7, n % 2^7>>

\* parse_os_patch_level of <<year, month>>, and format_os_patch_level.
ParseLevel(l)  == IF l = << >> THEN 0 ELSE (l[1] - 2000) * 2^4 + l[2]
FormatLevel(n) == IF n = 0 THEN << >> ELSE <<2000 + n \div 2^4, n % 2^4>>

\* decode_os_version_patch_level
DecodeOs(n) == <<FormatVersion(n \div 2^11), FormatLevel(n % 2^11)>>
EncodeOs(a) == ParseVersion(a.os_version) * 2^11 + ParseLevel(a.os_patch_level)

Fits(address) == address < AddressLimit
-----------------------------------------------------------------------------
(* mkbootimg.                                                              *)
(*                                                                         *)
(* A command line is a record of its options.  vendor: --vendor_boot and   *)
(* not --output names the image; fragments: of --vendor_ramdisk_fragment;  *)
(* gki: what avbtool writes for the --gki_signing options, or None.        *)

\* parse_vendor_ramdisk_args: the ramdisks of a vendor_boot image.
PlainFragment(file) == [type |-> 1, name |-> << >>, board_id |-> 0, file |-> file]
Fragments(a) == (IF a.vendor_ramdisk = None THEN << >> ELSE <<PlainFragment(a.vendor_ramdisk)>>)
                    \o a.fragments

\* VendorRamdiskTableBuilder.add_entry: ramdisk_total_size, and what it is before
\* the k-th; write_ramdisks_padded: the ramdisks one behind the other.
TotalSize(fs) ==
    LET sum[k \in 0 .. Len(fs)] == IF k = 0 THEN 0 ELSE sum[k - 1] + Len(fs[k].file)
    IN  sum
OffsetOf(fs, k) == TotalSize(fs)[k - 1]
Total(fs)       == TotalSize(fs)[Len(fs)]

Ramdisks(fs) ==
    LET first[k \in 0 .. Len(fs)] == IF k = 0 THEN << >> ELSE first[k - 1] \o fs[k].file
    IN  first[Len(fs)]

Entries(a) ==
    LET fs == Fragments(a)
    IN  [k \in 1 .. Len(fs) |->
            [size |-> Len(fs[k].file), offset |-> OffsetOf(fs, k),
             type |-> fs[k].type, name |-> fs[k].name, board_id |-> fs[k].board_id]]

TableEntrySize == 1  \* VENDOR_RAMDISK_TABLE_ENTRY_V4_SIZE: 108 bytes

BadNames(fs) ==
    \/ \E k \in 1 .. Len(fs) : fs[k].name = <<"default">>
    \/ \E j, k \in 1 .. Len(fs) : j # k /\ fs[j].name = fs[k].name

\* parse_cmdline: what argparse refuses before the image is opened.
CmdlineSize(a) == BootArgs + BootExtraArgs - (IF a.header_version < 3 THEN 1 ELSE 0)
UsageError(a)  == \/ Len(Asciiz(a.cmdline)) > CmdlineSize(a)
                  \/ Len(Asciiz(a.vendor_cmdline)) > VendorArgs

\* main, write_header and write_vendor_boot_header: an exception with the image
\* open.
Overflows(a, options) == \E o \in options : ~ Fits(a.base + a[o])

Refused(a) ==
    IF a.vendor
    THEN \/ a.header_version \notin {3, 4}
         \/ a.header_version = 3 /\ (a.vendor_ramdisk = None \/ a.fragments # << >>)
         \/ a.header_version = 4 /\ BadNames(Fragments(a))
         \/ Overflows(a, {"kernel_offset", "ramdisk_offset", "tags_offset"})
    ELSE \/ a.fragments # << >> \/ a.header_version > 4
         \/ a.second # None /\ a.header_version > 2
         \/ a.header_version = 2 /\ filesize(a.dtb) = 0
         \/ /\ a.header_version < 3
            /\ Overflows(a, {"kernel_offset", "tags_offset"}
                  \cup (IF filesize(a.ramdisk) > 0 THEN {"ramdisk_offset"} ELSE {})
                  \cup (IF filesize(a.second) > 0 THEN {"second_offset"} ELSE {}))

\* get_recovery_dtbo_offset
RecoveryDtboOffset(a) ==
    a.pagesize * (1 + Pages(filesize(a.kernel), a.pagesize) + Pages(filesize(a.ramdisk), a.pagesize)
                    + Pages(filesize(a.second), a.pagesize))

\* update_sha, and the digest in write_header.
Sha(f)     == <<IF f = None THEN << >> ELSE f, filesize(f)>>
ImageId(a) == <<Sha(a.kernel), Sha(a.ramdisk), Sha(a.second)>>
                  \o (IF a.header_version > 0 THEN <<Sha(a.recovery_dtbo)>> ELSE << >>)
                  \o (IF a.header_version > 1 THEN <<Sha(a.dtb)>> ELSE << >>)

\* parse_cmdline's last lines: headers 0 to 2 split the command line in two.
FirstLen(a)  == IF Len(a.cmdline) + 1 < BootArgs THEN Len(a.cmdline) + 1 ELSE BootArgs - 1
FirstArgs(a) == Append(SubSeq(Asciiz(a.cmdline), 1, FirstLen(a)), NulChar)
ExtraArgs(a) == SubSeq(Asciiz(a.cmdline), BootArgs, Len(a.cmdline) + 1)

HeaderV0(a) ==
    [magic |-> "ANDROID!", header_version |-> a.header_version,
     kernel_size |-> filesize(a.kernel), kernel_addr |-> a.base + a.kernel_offset,
     ramdisk_size |-> filesize(a.ramdisk),
     ramdisk_addr |-> IF filesize(a.ramdisk) > 0 THEN a.base + a.ramdisk_offset ELSE 0,
     second_size |-> filesize(a.second),
     second_addr |-> IF filesize(a.second) > 0 THEN a.base + a.second_offset ELSE 0,
     tags_addr |-> a.base + a.tags_offset, page_size |-> a.pagesize, os |-> EncodeOs(a),
     name |-> a.board, cmdline |-> Field(FirstArgs(a), BootArgs), id |-> ImageId(a),
     extra_cmdline |-> Field(ExtraArgs(a), BootExtraArgs)]

HeaderV1(a) ==
    [recovery_dtbo_size |-> filesize(a.recovery_dtbo),
     recovery_dtbo_offset |-> IF a.recovery_dtbo = None THEN 0 ELSE RecoveryDtboOffset(a)]

HeaderV2(a) == [dtb_size |-> filesize(a.dtb), dtb_addr |-> a.base + a.dtb_offset]

\* write_header_v3_and_above
HeaderV3(a) ==
    [magic |-> "ANDROID!", header_version |-> a.header_version,
     kernel_size |-> filesize(a.kernel), ramdisk_size |-> filesize(a.ramdisk),
     os |-> EncodeOs(a), cmdline |-> Field(Asciiz(a.cmdline), BootArgs + BootExtraArgs)]

HeaderV4(a) == [signature_size |-> IF a.gki = None THEN 0 ELSE SignatureSize]

\* A header with the fields that later versions have behind it.
With(header, fields) ==
    [x \in DOMAIN header \cup DOMAIN fields |-> IF x \in DOMAIN header THEN header[x] ELSE fields[x]]

\* write_header
BootHeader(a) ==
    CASE a.header_version = 0 -> HeaderV0(a)
      [] a.header_version = 1 -> With(HeaderV0(a), HeaderV1(a))
      [] a.header_version = 2 -> With(With(HeaderV0(a), HeaderV1(a)), HeaderV2(a))
      [] a.header_version = 3 -> HeaderV3(a)
      [] OTHER                -> With(HeaderV3(a), HeaderV4(a))

\* write_vendor_boot_header
VendorHeaderV3(a) ==
    [magic |-> "VNDRBOOT", header_version |-> a.header_version, page_size |-> a.pagesize,
     kernel_addr |-> a.base + a.kernel_offset, ramdisk_addr |-> a.base + a.ramdisk_offset,
     ramdisk_size |-> IF a.header_version > 3 THEN Total(Fragments(a)) ELSE filesize(a.vendor_ramdisk),
     cmdline |-> Field(Asciiz(a.vendor_cmdline), VendorArgs), tags_addr |-> a.base + a.tags_offset,
     name |-> a.board, header_size |-> VendorHeaderSize,
     dtb_size |-> filesize(a.dtb), dtb_addr |-> a.base + a.dtb_offset]

VendorHeaderV4(a) ==
    [table_size |-> Len(Fragments(a)) * TableEntrySize, entry_num |-> Len(Fragments(a)),
     entry_size |-> TableEntrySize, bootconfig_size |-> filesize(a.vendor_bootconfig)]

VendorHeader(a) ==
    IF a.header_version > 3 THEN With(VendorHeaderV3(a), VendorHeaderV4(a)) ELSE VendorHeaderV3(a)

\* write_data; add_boot_image_signature puts avbtool's output, filled up, last.
Signature(a) == a.gki \o Zeros(SignatureSize - Len(a.gki))

WriteData(a, out, p) ==
    LET v == a.header_version
        put(o, f)  == WritePadded(o, f, p)
        carried(f, versions) == IF v \in versions THEN f ELSE None
        unsigned == put(put(put(put(put(out, a.kernel), a.ramdisk), a.second),
                            carried(a.recovery_dtbo, {1, 2})), carried(a.dtb, {2}))
    IN  IF v = 4 /\ a.gki # None THEN PadFile(unsigned \o Signature(a), p) ELSE unsigned

\* write_vendor_boot_data: the ramdisks are not padded one by one.
Table(a) == [k \in 1 .. Len(Fragments(a)) |-> [content |-> Entries(a)[k], i |-> 1]]

WriteVendorData(a, out, p) ==
    LET put(o, f) == WritePadded(o, f, p)
        ramdisks  == PadFile(out \o Ramdisks(Fragments(a)), p)
    IN  IF a.header_version > 3
        THEN put(PadFile(put(ramdisks, a.dtb) \o Table(a), p), a.vendor_bootconfig)
        ELSE put(put(out, a.vendor_ramdisk), a.dtb)

\* main, from the header on.  A signature that is too long is refused when the
\* files before it are written; generate_gki_certificate runs before that.
TooLong(a) == ~ a.vendor /\ a.header_version = 4 /\ a.gki # None /\ Len(a.gki) > SignatureSize

Mkbootimg(a) ==
    IF a.vendor
    THEN WriteVendorData(a, WriteHeader(VendorHeader(a), VendorHeaderSize, a.pagesize), a.pagesize)
    ELSE LET p == IF a.header_version > 2 THEN V3PageSize ELSE a.pagesize
         IN  WriteData(a, WriteHeader(BootHeader(a), BootHeaderSize, p), p)
-----------------------------------------------------------------------------
(* unpack_bootimg.                                                         *)

\* extract_image: a read past the end is short.
Extract(image, offset, size) ==
    SubSeq(image, offset + 1, IF offset + size < Len(image) THEN offset + size ELSE Len(image))

Header(image) == image[1].content

\* unpack_bootimg and struct.unpack: the magic is one of the two, and the header
\* is there as a whole.
StartsWith(image, magic, size) ==
    /\ Len(image) >= size /\ image[1].i = 1
    /\ "magic" \in DOMAIN Header(image) /\ Header(image).magic = magic
IsBoot(image)   == StartsWith(image, "ANDROID!", BootHeaderSize)
IsVendor(image) == StartsWith(image, "VNDRBOOT", VendorHeaderSize)

SizeOf(h, field, versions) == IF h.header_version \in versions THEN h[field] ELSE 0

\* A file of size 0 is not extracted.
IfAny(image, offset, size) == IF size > 0 THEN Extract(image, offset, size) ELSE None

\* unpack_boot_image: what it extracts, and the rest of its info.
UnpackBoot(image) ==
    LET h == Header(image)
        v == h.header_version
        p == IF v < 3 THEN h.page_size ELSE V3PageSize
        second    == SizeOf(h, "second_size", 0 .. 2)
        dtbo      == SizeOf(h, "recovery_dtbo_size", {1, 2})
        dtb       == SizeOf(h, "dtb_size", {2})
        signature == SizeOf(h, "signature_size", {4})
        first     == 1 + Pages(h.kernel_size, p)
        next      == first + Pages(h.ramdisk_size, p)
    IN  [vendor |-> FALSE, header |-> h,
         files |->
           [kernel    |-> Extract(image, p, h.kernel_size),
            ramdisk   |-> Extract(image, p * first, h.ramdisk_size),
            second    |-> IfAny(image, p * next, second),
            recovery_dtbo |-> IF dtbo > 0 THEN Extract(image, h.recovery_dtbo_offset, dtbo) ELSE None,
            dtb       |-> IfAny(image, p * (next + Pages(second, p) + Pages(dtbo, p)), dtb),
            signature |-> IfAny(image, p * next, signature)]]

\* Mutant: a header of two pages is taken for one page.
VendorHeaderOnePage(h) == 1

VendorHeaderPages(h) == Pages(h.header_size, h.page_size)

\* unpack_vendor_boot_image
UnpackVendor(image) ==
    LET h == Header(image)
        p == h.page_size
        v4     == h.header_version > 3
        base   == VendorHeaderPages(h)
        dtbAt  == base + Pages(h.ramdisk_size, p)
        tableAt == dtbAt + Pages(h.dtb_size, p)
        entry(k) == image[p * tableAt + h.entry_size * (k - 1) + 1].content
        fragment(k) ==
            [type |-> entry(k).type, name |-> cstr(entry(k).name), board_id |-> entry(k).board_id,
             file |-> Extract(image, p * base + entry(k).offset, entry(k).size)]
    IN  [vendor |-> TRUE, header |-> h,
         files |->
           [vendor_ramdisk |-> IF v4 THEN None ELSE Extract(image, p * base, h.ramdisk_size),
            fragments  |-> IF v4 THEN [k \in 1 .. h.entry_num |-> fragment(k)] ELSE << >>,
            dtb        |-> IfAny(image, p * dtbAt, h.dtb_size),
            bootconfig |-> IF v4 THEN Extract(image, p * (tableAt + Pages(h.table_size, p)), h.bootconfig_size)
                           ELSE None]]

\* struct.unpack of every entry of the table.
TableThere(image) ==
    LET h == Header(image)
        p == h.page_size
        tableAt == VendorHeaderPages(h) + Pages(h.ramdisk_size, p) + Pages(h.dtb_size, p)
    IN  h.header_version > 3 => p * tableAt + h.table_size <= Len(image)

Readable(image) == IsBoot(image) \/ (IsVendor(image) /\ TableThere(image))

\* unpack_bootimg
Unpack(image) == IF IsVendor(image) THEN UnpackVendor(image) ELSE UnpackBoot(image)
-----------------------------------------------------------------------------
(* The options that make the image again.                                  *)

\* parse_cmdline: the defaults of options that are not given.
Defaults ==
    [vendor |-> FALSE, header_version |-> 0, kernel |-> None, ramdisk |-> None, second |-> None,
     dtb |-> None, recovery_dtbo |-> None, vendor_ramdisk |-> None, vendor_bootconfig |-> None,
     fragments |-> << >>, cmdline |-> << >>, vendor_cmdline |-> << >>, board |-> "",
     base |-> 16, kernel_offset |-> 1, ramdisk_offset |-> 4, second_offset |-> 3,
     dtb_offset |-> 5, tags_offset |-> 0, os_version |-> << >>, os_patch_level |-> << >>,
     pagesize |-> 2, gki |-> None]

\* BootImageInfoFormatter.format_mkbootimg_argument
BootOptions(info) ==
    LET h == info.header
        f == info.files
        common == [Defaults EXCEPT
            !.header_version = h.header_version, !.kernel = f.kernel, !.ramdisk = f.ramdisk,
            !.os_version = DecodeOs(h.os)[1], !.os_patch_level = DecodeOs(h.os)[2]]
    IN  IF h.header_version > 2 THEN [common EXCEPT !.cmdline = cstr(h.cmdline)]
        ELSE [common EXCEPT
            !.second = f.second, !.recovery_dtbo = f.recovery_dtbo, !.dtb = f.dtb,
            !.pagesize = h.page_size, !.base = 0, !.kernel_offset = h.kernel_addr,
            !.ramdisk_offset = h.ramdisk_addr, !.second_offset = h.second_addr,
            !.tags_offset = h.tags_addr, !.board = h.name,
            !.dtb_offset = IF h.header_version = 2 THEN h.dtb_addr ELSE @,
            !.cmdline = cstr(h.cmdline) \o cstr(h.extra_cmdline)]

\* VendorBootImageInfoFormatter.format_mkbootimg_argument
VendorOptions(info) ==
    LET h == info.header
        f == info.files
    IN  [Defaults EXCEPT
            !.vendor = TRUE, !.header_version = h.header_version, !.pagesize = h.page_size,
            !.base = 0, !.kernel_offset = h.kernel_addr, !.ramdisk_offset = h.ramdisk_addr,
            !.tags_offset = h.tags_addr, !.dtb_offset = h.dtb_addr,
            !.vendor_cmdline = cstr(h.cmdline), !.board = h.name, !.dtb = f.dtb,
            !.vendor_bootconfig = f.bootconfig, !.fragments = f.fragments,
            !.vendor_ramdisk = f.vendor_ramdisk]

Options(info) == IF info.vendor THEN VendorOptions(info) ELSE BootOptions(info)
=============================================================================
