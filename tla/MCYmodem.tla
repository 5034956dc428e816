----------------------------- MODULE MCYmodem -------------------------------
(* Instances of Ymodem for TLC. *)
EXTENDS Ymodem

NoDamage == {}
AnyMessage == {"header", "data", "null", "eot"}
PacketDamage == {"short", "seq", "crc", "lost"}
LateDamage == {"seq", "crc", "lost"}
=============================================================================
