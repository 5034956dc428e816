----------------------------- MODULE MCRtuBoot -----------------------------
(* Small instances of RtuBoot for TLC. *)
EXTENDS RtuBoot

CONSTANTS p1, p2, p3

=============================================================================
