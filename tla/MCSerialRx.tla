----------------------------- MODULE MCSerialRx -----------------------------
(* Small instances of SerialRx for TLC. *)
EXTENDS SerialRx
=============================================================================
