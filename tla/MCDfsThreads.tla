---------------------------- MODULE MCDfsThreads ----------------------------
(* Small instances of DfsThreads for TLC. *)
EXTENDS DfsThreads
=============================================================================
