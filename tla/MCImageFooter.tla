--------------------------- MODULE MCImageFooter ---------------------------
(***************************************************************************)
(* Blocks of two units and an image of four: less room than image, struct  *)
(* and footer need.                                                        *)
(***************************************************************************)
EXTENDS ImageFooter

MCTightCommands ==
    { [op |-> "append_vbmeta", part |-> 4, size |-> 1, append |-> TRUE, keep |-> FALSE,
       tree |-> TRUE, fec |-> 0] }
=============================================================================
