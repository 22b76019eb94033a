---------------------------- MODULE MCAvbImages ----------------------------
(***************************************************************************)
(* A boot image with a digest, a system image with a tree, an image that   *)
(* takes the descriptor of the system image and is signed with a key of    *)
(* its own, and a top image that takes some and chains some.  Blocks of    *)
(* two cells: a system image of one has no tree, one of five a tree of two *)
(* levels that are not full.                                               *)
(***************************************************************************)
EXTENDS AvbImages

MCNames == <<"boot", "system", "vbmeta", "vbmeta_system">>

MCKeySize == [dev |-> 2, oem |-> 3]

MCSizes == [boot |-> {3}, system |-> {1, 5}]

Plain == [op |-> "make", image |-> "boot", output |-> "vbmeta", alg |-> "NONE", key |-> None,
          pkmd |-> 0, chains |-> << >>, props |-> << >>, cmdlines |-> << >>, include |-> << >>,
          location |-> 0, rootfs |-> None, flags |-> {}, persistent |-> FALSE, tree |-> TRUE,
          as_rootfs |-> FALSE, padding |-> 1]

Signed2048(a) == [a EXCEPT !.alg = "SHA256_RSA2048", !.key = "dev"]
Signed4096(a) == [a EXCEPT !.alg = "SHA256_RSA4096", !.key = "oem"]

HashFooter == [Plain EXCEPT !.op = "add_hash"]
TreeFooter == [Plain EXCEPT !.op = "add_hashtree", !.image = "system"]

MCFooters ==
    { Signed2048([HashFooter EXCEPT !.flags = {"no ab"}, !.props = <<"p">>]),
      [TreeFooter EXCEPT !.as_rootfs = TRUE, !.flags = {"once"}],
      [TreeFooter EXCEPT !.tree = FALSE, !.persistent = TRUE],
      [Signed2048(HashFooter) EXCEPT !.key = "oem"] }

System == [Plain EXCEPT !.output = "vbmeta_system", !.include = <<"system">>]

ChainSystem == [name |-> "vbmeta_system", location |-> 1, key |-> "oem", ab |-> TRUE]
ChainBoot   == [name |-> "boot", location |-> 2, key |-> "dev", ab |-> FALSE]

MCMakes ==
    { Signed4096(System),
      Signed2048([Plain EXCEPT !.include = <<"boot">>, !.chains = <<ChainSystem>>, !.pkmd = 1]),
      Signed2048([Plain EXCEPT !.include = <<"boot", "vbmeta_system", "system">>, !.rootfs = "system", !.location = 1,
                               !.cmdlines = <<[root |-> "given"]>>, !.padding = 8]),
      [Plain EXCEPT !.chains = <<ChainSystem, ChainBoot>>],
      [Plain EXCEPT !.chains = <<ChainSystem>>, !.location = 1],
      [Plain EXCEPT !.output = "vbmeta_system", !.chains = <<ChainBoot>>],
      [Plain EXCEPT !.include = <<"boot", "vbmeta">>],
      [Signed2048(Plain) EXCEPT !.key = "oem"] }

V(image, key, follow) ==
    [image |-> image, key |-> key, follow |-> follow, expected |-> {}, accept_zeroed |-> FALSE]

MCVerifies ==
    { V("vbmeta", None, TRUE), V("vbmeta", "dev", FALSE), V("vbmeta", "oem", TRUE),
      [V("vbmeta", "dev", FALSE) EXCEPT !.expected = {ChainSystem}],
      [V("vbmeta_system", None, FALSE) EXCEPT !.accept_zeroed = TRUE],
      V("boot", None, FALSE) }
-----------------------------------------------------------------------------
(* A partition with a tree, verified by its own footer and by an image that *)
(* includes its descriptor.                                                *)

FewFooters  == { TreeFooter, [TreeFooter EXCEPT !.as_rootfs = TRUE] }
FewMakes    == { [Plain EXCEPT !.include = <<"system">>] }
FewVerifies == { V("vbmeta", None, FALSE), V("system", None, FALSE) }
=============================================================================
