------------------------------ MODULE MCBringUp ------------------------------
(***************************************************************************)
(* The boots that differ: no stream matches, no native display, a display  *)
(* stopped before its takeover, and PLLs that lock at once, after the 80 s *)
(* seen on the device, within the 150 s of the script and after them.      *)
(* Each has some of the independent units switched off, so that the others *)
(* can interleave.                                                         *)
(***************************************************************************)
EXTENDS BringUp

C(streams, off, last, slow, dsi, missing, dead) ==
    [streams |-> streams, off |-> off, last |-> last, slow |-> slow,
     dsi |-> dsi, missing |-> missing, dead |-> dead]

MCConfigs ==
    { C(FALSE, {}, 5, FALSE, 0, {}, {}),
      C(TRUE, {"display", "radio"}, 5, FALSE, 0, {}, {}),
      C(TRUE, {"radio", "adsp"}, 3, FALSE, 0, {}, {"mcu"}),
      C(TRUE, {"adsp", "video", "audio"}, 5, TRUE, 80, {}, {}),
      C(TRUE, {"radio", "audio", "video"}, 5, TRUE, 80, {}, {}),
      C(TRUE, {"radio", "video", "keyboard"}, 5, FALSE, 0, {"piano_mca"}, {}),
      C(TRUE, {"video", "adsp"}, 5, TRUE, 110, {}, {}),
      C(TRUE, {"radio", "adsp"}, 5, FALSE, 151, {"ktz8866"}, {}),
      C(TRUE, {"radio", "keyboard"}, 5, FALSE, 0, {}, {"gpucc", "card"}) }
=============================================================================
