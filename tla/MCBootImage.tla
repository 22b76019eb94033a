---------------------------- MODULE MCBootImage -----------------------------
(***************************************************************************)
(* What mkbootimg is run on: pages of two and of four cells; kernels that  *)
(* fill their pages and that do not; ramdisks of either format, of         *)
(* another, and empty; every header version with and without the files it  *)
(* carries and does not carry; command lines of every length up to one     *)
(* character too many; vendor_boot images of no, one and several ramdisks. *)
(***************************************************************************)
EXTENDS BootImage

File(kind, n) == Cells(Content(kind, {}), n)
Empty         == << >>
Lz4(files)    == Archive("lz4", files)
Text(n)       == SubSeq(<<"a", "b", "c", "d", "e">>, 1, n)

RamdiskFiles == {"init", "new", "gone"}

Plain == [Defaults EXCEPT !.kernel = File("kernel", 3), !.ramdisk = Lz4({"init"}), !.board = "piano",
                          !.os_version = <<15, 0, 127>>, !.os_patch_level = <<2026, 8>>]

BootFiles ==
    { [Plain EXCEPT !.header_version = v, !.second = s, !.recovery_dtbo = o, !.dtb = d] :
        v \in 0 .. 3, s \in {None, File("second", 1)},
        o \in {None, Empty, File("dtbo", 2)}, d \in {None, File("dtb", 3)} }

BootRamdisks ==
    { [Plain EXCEPT !.header_version = v, !.kernel = k, !.ramdisk = r, !.pagesize = p,
                    !.dtb = File("dtb", 1)] :
        v \in {0, 2, 4}, k \in {None, File("kernel", 4)}, p \in {2, 4},
        r \in {None, Empty, Lz4({}), Archive("gzip", {"init", "new"}), File("cpio", 2)} }

BootLines ==
    { [Plain EXCEPT !.header_version = v, !.cmdline = Text(n), !.dtb = File("dtb", 1)] :
        v \in 1 .. 5, n \in 0 .. 4 }

BootRest ==
    { [Plain EXCEPT !.header_version = 4, !.gki = File("sig", n)] : n \in {1, 4, 5} }
    \cup { [Plain EXCEPT !.base = b, !.second = File("second", 1), ![o] = 9] :
             b \in {16, 22}, o \in {"kernel_offset", "ramdisk_offset", "second_offset", "tags_offset"} }
    \cup { [Plain EXCEPT !.os_version = n, !.os_patch_level = l] :
             n \in {<<>>, <<1>>, <<63, 127>>}, l \in {<<>>, <<2000, 1>>, <<2127, 12>>} }

Fragment(name, file) == [type |-> 2, name |-> name, board_id |-> 7, file |-> file]

Vendor == [Plain EXCEPT !.vendor = TRUE, !.header_version = 4, !.kernel = None, !.ramdisk = None]

VendorImages ==
    { [Vendor EXCEPT !.header_version = v, !.vendor_ramdisk = r, !.fragments = f, !.dtb = d,
                     !.pagesize = p, !.vendor_bootconfig = c] :
        v \in {2, 3, 4}, p \in {2, 4}, r \in {None, Lz4({"init"})},
        d \in {None, File("dtb", 3)}, c \in {None, File("bootconfig", 1)},
        f \in { <<>>, <<Fragment(<<"r">>, Archive("gzip", {}))>>,
                <<Fragment(<<"r">>, Lz4({})), Fragment(<<"s">>, File("cpio", 1))>> } }

VendorRest ==
    { [Vendor EXCEPT !.fragments = <<Fragment(n, Lz4({})), Fragment(<<"r">>, Lz4({}))>>] :
        n \in {<<"default">>, <<"r">>, <<>>} }
    \cup { [Vendor EXCEPT !.vendor_ramdisk = Lz4({}), !.vendor_cmdline = Text(n)] : n \in 1 .. 3 }
    \cup { [Vendor EXCEPT !.vendor_ramdisk = Lz4({}), ![o] = 14] :
             o \in {"kernel_offset", "dtb_offset"} }

BootCommands == BootFiles \cup BootRamdisks \cup BootLines \cup BootRest \cup VendorImages \cup VendorRest
=============================================================================
