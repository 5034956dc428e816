------------------------------ MODULE MCSdFile ------------------------------
(* Small instances of SdFile for TLC. *)
EXTENDS SdFile, TLC

CONSTANTS a, b, c

Copy(x, y) == [op |-> "copy", a |-> x, b |-> y]
Contrasted(x, y) == [op |-> "contrast", a |-> x, b |-> y]
Rm(x) == [op |-> "rm", a |-> x, b |-> x]

\* A source of two chunks; no destination, a longer one, or an empty one.
Cards == {a :> <<"x", "y">>,
          (a :> <<"x", "y">>) @@ (b :> <<"y", "y", "x">>),
          (a :> <<"x">>) @@ (b :> << >>)}

CopyCommands == {Copy(a, b), Copy(b, c), Rm(b)}
AllCommands == {Copy(a, b), Copy(b, b), Contrasted(a, b), Contrasted(a, c), Rm(b)}
=============================================================================
