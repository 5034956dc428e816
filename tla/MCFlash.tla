------------------------------ MODULE MCFlash ------------------------------
(* A flash of four sectors of unequal size, the boot loader in the first    *)
(* and the application in the others, for TLC.                              *)
EXTENDS Flash

CONSTANT bit

StartOf == [s \in 0..4 |-> <<8, 12, 14, 18, 20>>[s + 1]]
Table == [bl |-> [offset |-> 0, len |-> 4], app |-> [offset |-> 4, len |-> 8]]

One == {bit}
Zero == {}
Images == {<<>>, <<One, Zero, Zero, One, Zero, Zero, One>>, [i \in 1..9 |-> Zero]}

\* Erases and writes that begin inside a sector or a word, and some out of bounds.
Erase(p, a, n) == [op |-> "erase", part |-> p, addr |-> a, size |-> n, data |-> <<>>]
Write(p, a, d) == [op |-> "write", part |-> p, addr |-> a, size |-> Len(d), data |-> d]
Calls ==
  {Erase("app", 1, 1), Erase("app", 1, 2), Erase("app", 6, 2), Erase("app", 7, 2),
   Erase("app", 4, 0), Erase("bl", 3, 2)}
  \cup {Write("app", 1, <<Zero, One, Zero, Zero, Zero>>), Write("app", 7, <<Zero>>)}

=============================================================================
