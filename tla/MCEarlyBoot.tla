----------------------------- MODULE MCEarlyBoot -----------------------------
(***************************************************************************)
(* Two partitions, either, both or none of them named userdata; three      *)
(* polls instead of ninety; one touch more than a diagnostic boot consumes.*)
(***************************************************************************)
EXTENDS EarlyBoot

MCParts == {"sda34", "sdb2"}
=============================================================================
