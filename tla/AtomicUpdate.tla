---------------------------- MODULE AtomicUpdate ----------------------------
(***************************************************************************)
(* What the boot sequence promises when no SD or flash operation fails:    *)
(* an update is atomic.  `target' is the firmware the next start of the    *)
(* device runs.  Storing an installable package is the commit point: it    *)
(* becomes the target at once, whatever power losses follow, and no start  *)
(* ever runs anything else.                                                *)
(***************************************************************************)
CONSTANTS Image, Installable, NoImage

VARIABLES target, running

Init == target \in Image \cup {NoImage} /\ running = NoImage

Start == running = NoImage /\ target # NoImage /\ running' = target /\ UNCHANGED target

Stop == running # NoImage /\ running' = NoImage /\ UNCHANGED target

Deliver ==
  /\ running # NoImage /\ running' = NoImage
  /\ target' \in Installable

Next == Start \/ Stop \/ Deliver

Spec == Init /\ [][Next]_<<target, running>>
=============================================================================
