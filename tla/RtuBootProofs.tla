---------------------------- MODULE RtuBootProofs ----------------------------
(***************************************************************************)
(* Proofs about the boot sequence, for every set of packages, every size   *)
(* and every bound on failures and power losses.                           *)
(***************************************************************************)
EXTENDS RtuBoot, TLAPS

ReleaseAt  == {"relOta", "relBack", "relLast", "rblRelBack", "rblRelLast"}
RblAt      == {"rblBack", "rblLast", "rblRelBack", "rblRelLast"}
CopyAt     == {"vCopy1", "vCopy2", "iCopy1", "iCopy2"}
FallbackAt == {"rmFailed", "checkBack", "relBack", "checkLast", "relLast"}
UpdateAt   == {"updCheck", "vRm1", "vCopy1", "vRm2", "vCopy2",
               "iRm1", "iRm2", "iCopy1", "iCopy2", "rmOta"}
RemoveAt   == {"rmIllegal", "rmFailed", "rmOta", "vRm1", "vRm2", "iRm1", "iRm2"}
-----------------------------------------------------------------------------
(* A call is inside a phase only at a label that makes such a call, and a    *)
(* release inside a phase works on a whole package.                          *)
PhaseOK ==
  /\ \/ ph = "call"
     \/ ph \in {"erasing", "program"} /\ at \in ReleaseAt
        /\ file[ReleaseSrc[at]] \in Pkg \ NoPart
     \/ ph = "copy" /\ at \in CopyAt
  /\ ph \in {"call", "erasing"} => n = 0

TypeInv == TypeOK /\ PhaseOK

(* What the outcome of the last release says about the flash, per label. *)
ReleasedInv ==
  /\ at \in {"main", "mount", "format", "key", "checkOta", "rmIllegal", "relOta"} => released = None
  /\ at \in FallbackAt => released = Failed
  /\ at \in UpdateAt => released \in Pkg
  /\ at \in {"jump", "app"} => released # Failed
  /\ at \in UpdateAt \cup {"jump", "app"} /\ released \in Pkg => app = released
  /\ ph = "program" /\ good = Blocks => app = file[ReleaseSrc[at]]

(* The boot sequence without I/O failures. *)
CrashInv ==
  /\ at \notin FallbackAt \cup RblAt \cup {"format"} /\ good = n
  /\ "ota" \in open => file["ota"] \notin Good
  /\ app = Partial \/ at \in UpdateAt \cup {"relOta"} => file["ota"] \in Good
  /\ at \in UpdateAt => app = file["ota"]
  /\ at \in {"rmIllegal", "jump", "app"} => file["ota"] \notin Good
  /\ at = "app" => app # Blank
  /\ at = "rmOta" => file["back"] = app
  /\ file["ota"] \notin Good /\ installed = app => file["back"] = app
-----------------------------------------------------------------------------
(* The tables of labels, written out. *)
LEMMA Tables ==
  /\ DOMAIN ReleaseSrc = ReleaseAt /\ DOMAIN CopySrc = CopyAt /\ DOMAIN Removes = RemoveAt
  /\ \A l \in ReleaseAt : ReleaseSrc[l] \in Path
  /\ \A l \in CopyAt : CopySrc[l] \in Path /\ CopyDst[l] \in Path \ {"ota"}
  /\ \A l \in RemoveAt : Removes[l] \in Path /\ After[l] \in Label
  /\ \A l \in CopyAt : After[l] \in Label
BY DEF ReleaseSrc, CopySrc, CopyDst, Removes, After, Label, Stopped,
       ReleaseAt, CopyAt, RemoveAt, Path

\* The labels, spelled out.
LEMMA Labels ==
  Label = ReleaseAt \cup CopyAt \cup RemoveAt \cup
          {"main", "mount", "format", "key", "checkOta", "checkBack", "checkLast",
           "updCheck", "rblBack", "rblLast", "jump", "app", "shell", "hung"}
BY DEF Label, ReleaseSrc, After, Stopped, ReleaseAt, CopyAt, RemoveAt

\* The types hold at the start.
LEMMA TypeInit == Init => TypeInv
<1> SUFFICES ASSUME Init PROVE TypeInv
  OBVIOUS
<1>1. file \in [Path -> Pkg \cup {Absent, Torn}]
  BY DEF Init
<1>2. n \in 0..Blocks /\ faults \in 0..MaxFault /\ crashes \in 0..MaxCrash
  BY BoundAssumption DEF Init
<1> QED
  BY <1>1, <1>2, Labels DEF Init, TypeInv, TypeOK, PhaseOK

\* A check of a package, whatever it finds, keeps the types.
LEMMA TypeCheck ==
  ASSUME TypeInv, NEW l \in Label, NEW path \in Path,
         NEW valid \in Label, NEW invalid \in Label, NEW missing \in Label,
         l \notin ReleaseAt \cup CopyAt, Check(l, path, valid, invalid, missing)
  PROVE  TypeInv'
<1>1. Label = Label' /\ "hung" \in Label
  BY Labels
<1>2. ph = "call"
  BY DEF TypeInv, PhaseOK, Check
<1>3. Verdict(file[path]) \in {-1, 0, 1}
  BY DEF Verdict, AsksAppCheck
<1>4. at' \in Label
  BY <1>1, <1>3 DEF Check
<1>5. open' \subseteq Path /\ faults' \in 0..MaxFault
  BY BoundAssumption DEF TypeInv, TypeOK, Check, Fault, NoFault
<1> QED
  BY <1>1, <1>2, <1>4, <1>5 DEF TypeInv, TypeOK, PhaseOK, Check, call, hist

\* So does the end of a release, which says where the boot goes on.
LEMMA TypeReleaseReturn ==
  ASSUME TypeInv, at \in ReleaseAt, NEW ok \in BOOLEAN,
         ok => file[ReleaseSrc[at]] \in Pkg, ReleaseReturn(ok), UNCHANGED <<file, crashes>>,
         open' \subseteq Path, app' \in Pkg \cup {Blank, Partial}, faults' \in 0..MaxFault
  PROVE  TypeInv'
<1>1. at' \in {"updCheck", "rmFailed", "jump", "checkLast", "shell"}
  BY DEF ReleaseReturn, ReleaseAt
<1>2. at' \in Label
  BY <1>1, Labels DEF RemoveAt
<1>3. ph' = "call" /\ n' = 0 /\ n' \in 0..Blocks /\ good' \in 0..n'
  BY BoundAssumption DEF ReleaseReturn
<1>4. released' \in Pkg \cup {None, Failed}
  BY DEF ReleaseReturn
<1>5. installed' \in Pkg \cup {None} /\ previous' \in Pkg \cup {None}
  <2>1. installed' \in Pkg \cup {None}
    BY DEF ReleaseReturn, ReleaseSrc, ReleaseAt, TypeInv, TypeOK
  <2> QED
    BY <2>1 DEF ReleaseReturn, TypeInv, TypeOK
<1> QED
  BY <1>2, <1>3, <1>4, <1>5 DEF TypeInv, TypeOK, PhaseOK

\* TypeInv is inductive.
LEMMA TypeStep == TypeInv /\ [Next]_vars => TypeInv'
<1> SUFFICES ASSUME TypeInv, [Next]_vars PROVE TypeInv'
  OBVIOUS
<1> USE DEF TypeInv
<1>1. {"hung", "mount", "format", "key", "jump", "shell", "app", "main", "checkOta",
       "rblBack", "rblLast"} \subseteq Label
  BY Labels
<1>2. at \in DOMAIN ReleaseSrc <=> at \in ReleaseAt
  BY Tables
<1>3. at \in CopyAt => After[at] \in Label
  BY Tables
<1>4. CopyReturn /\ at \in CopyAt => at' \in Label /\ ph' = "call" /\ n' = 0 /\ n' \in 0..Blocks /\ good' \in 0..n'
  BY <1>3, BoundAssumption DEF CopyReturn
<1>5. \A f : f \in Pkg \cup {Absent, Torn} => Dst(f) \in [Path -> Pkg \cup {Absent, Torn}]
  BY DEF Dst, TypeOK
<1>6. at \in CopyAt => file[CopySrc[at]] \in Pkg \cup {Absent, Torn}
  BY Tables DEF TypeOK
<1>7. at \in CopyAt => Overwritten \subseteq [Path -> Pkg \cup {Absent, Torn}]
  BY <1>5, <1>6 DEF Overwritten, TypeOK
<1>8. (Fault \/ NoFault) => faults' \in 0..MaxFault
  BY BoundAssumption DEF Fault, NoFault, TypeOK
<1>9. Restarted => /\ at' \in Label /\ ph' = "call" /\ n' = 0 /\ n' \in 0..Blocks /\ good' \in 0..n'
                   /\ open' \subseteq Path /\ released' = None
                   /\ UNCHANGED <<installed, previous>>
  BY <1>1, BoundAssumption DEF Restarted
<1>10. CASE FindCard \/ Mount \/ Format
  <2>1. Formatted \in [Path -> Pkg \cup {Absent, Torn}]
    BY DEF Formatted
  <2>2. at' \in Label /\ file' \in [Path -> Pkg \cup {Absent, Torn}] /\ faults' \in 0..MaxFault
    BY <1>1, <1>8, <1>10, <2>1 DEF FindCard, Mount, Format, TypeOK, card
  <2>3. ph = "call"
    BY <1>10 DEF FindCard, Mount, Format, PhaseOK, ReleaseAt, CopyAt
  <2>4. UNCHANGED <<app, call, open, hist, crashes>>
    BY <1>10 DEF FindCard, Mount, Format, card
  <2> QED
    BY <2>2, <2>3, <2>4 DEF TypeOK, PhaseOK, call, hist
<1>11. CASE KeyCheck
  <2>1. ph = "call"
    BY <1>11 DEF KeyCheck, PhaseOK, ReleaseAt, CopyAt
  <2> QED
    BY <2>1, <1>1, <1>11 DEF KeyCheck, TypeOK, PhaseOK, call, hist, card
<1>12. CASE CheckOta
  <2>1. {"checkOta", "relOta", "rmIllegal", "jump"} \subseteq Label /\ "ota" \in Path
        /\ "checkOta" \notin ReleaseAt \cup CopyAt
    BY Labels DEF ReleaseAt, RemoveAt, CopyAt, Path
  <2> QED
    BY <2>1, <1>12, TypeCheck DEF CheckOta
<1>13. CASE CheckBack
  <2>1. {"checkBack", "relBack", "checkLast"} \subseteq Label /\ "back" \in Path
        /\ "checkBack" \notin ReleaseAt \cup CopyAt
    BY Labels DEF ReleaseAt, CopyAt, Path
  <2> QED
    BY <2>1, <1>13, TypeCheck DEF CheckBack
<1>14. CASE CheckLast
  <2>1. {"checkLast", "relLast", "shell"} \subseteq Label /\ "last" \in Path
        /\ "checkLast" \notin ReleaseAt \cup CopyAt
    BY Labels DEF ReleaseAt, CopyAt, Path
  <2> QED
    BY <2>1, <1>14, TypeCheck DEF CheckLast
<1>15. CASE UpdCheck
  <2>1. {"updCheck", "vRm1", "iRm1"} \subseteq Label /\ "back" \in Path
        /\ "updCheck" \notin ReleaseAt \cup CopyAt
    BY Labels DEF ReleaseAt, RemoveAt, CopyAt, Path
  <2> QED
    BY <2>1, <1>15, TypeCheck DEF UpdCheck
<1>30. CASE RblCheckBack
  <2>1. {"rblBack", "rblRelBack", "shell"} \subseteq Label /\ "back" \in Path
        /\ "rblBack" \notin ReleaseAt \cup CopyAt
    BY Labels DEF ReleaseAt, CopyAt, Path
  <2> QED
    BY <2>1, <1>30, TypeCheck DEF RblCheckBack
<1>31. CASE RblCheckLast
  <2>1. {"rblLast", "rblRelLast", "shell"} \subseteq Label /\ "last" \in Path
        /\ "rblLast" \notin ReleaseAt \cup CopyAt
    BY Labels DEF ReleaseAt, CopyAt, Path
  <2> QED
    BY <2>1, <1>31, TypeCheck DEF RblCheckLast
<1>32. CASE RblJump \/ Rbl
  <2>1. ph = "call"
    BY <1>32 DEF RblJump, Rbl, PhaseOK, ReleaseAt, CopyAt
  <2> QED
    BY <2>1, <1>1, <1>32 DEF RblJump, Rbl, TypeOK, PhaseOK, call, hist, card
<1>16. CASE Remove
  <2>1. at \in RemoveAt
    BY <1>16, Tables DEF Remove
  <2>2. ph = "call"
    BY <2>1 DEF PhaseOK, ReleaseAt, CopyAt, RemoveAt
  <2>3. at' \in Label
    BY <2>1, <1>16, Tables DEF Remove
  <2>4. file' \in [Path -> Pkg \cup {Absent, Torn}] /\ faults' \in 0..MaxFault
    BY <1>8, <1>16 DEF Remove, TypeOK
  <2> QED
    BY <2>2, <2>3, <2>4, <1>16 DEF Remove, TypeOK, PhaseOK, call, hist
<1>17. CASE ReleaseOpen
  <2>1. at \in ReleaseAt /\ ph = "call"
    BY <1>17, <1>2 DEF ReleaseOpen
  <2>2. faults' \in 0..MaxFault /\ ReleaseSrc[at] \in Path
    BY <2>1, <1>8, <1>17, Tables DEF ReleaseOpen
  <2>3. CASE at' = "hung" /\ UNCHANGED <<app, call, open, hist>>
    BY <2>1, <2>2, <2>3, <1>1, <1>17 DEF ReleaseOpen, TypeOK, PhaseOK, call, hist
  <2>4. CASE ReleaseReturn(FALSE) /\ open' \in {open, open \cup {ReleaseSrc[at]}} /\ UNCHANGED app
    <3>1. open' \subseteq Path /\ app' \in Pkg \cup {Blank, Partial}
      BY <2>2, <2>4 DEF TypeOK
    <3>2. UNCHANGED <<file, crashes>>
      BY <1>17 DEF ReleaseOpen
    <3> QED
      BY <2>1, <2>2, <2>4, <3>1, <3>2, TypeReleaseReturn
  <2>5. CASE file[ReleaseSrc[at]] \in Pkg \ NoPart /\ ph' = "erasing" /\ app' = Partial
             /\ UNCHANGED <<at, n, good, open, hist>>
    BY <2>1, <2>2, <2>5, <1>17 DEF ReleaseOpen, TypeOK, PhaseOK, hist
  <2> QED
    BY <2>3, <2>4, <2>5, <1>17 DEF ReleaseOpen
<1>18. CASE ReleaseErase
  <2>1. at \in ReleaseAt /\ file[ReleaseSrc[at]] \in Pkg \ NoPart
    BY <1>18 DEF ReleaseErase, PhaseOK
  <2>2. faults' \in 0..MaxFault
    BY <1>8, <1>18 DEF ReleaseErase
  <2>3. CASE ph' = "program" /\ app' = Blank /\ UNCHANGED <<at, n, good, hist>>
    BY <2>1, <2>2, <2>3, <1>18 DEF ReleaseErase, TypeOK, PhaseOK, card, hist
  <2>4. CASE app' \in {Blank, Partial} /\ ReleaseReturn(FALSE)
    BY <2>1, <2>2, <2>4, <1>18, TypeReleaseReturn DEF ReleaseErase, card, TypeOK
  <2> QED
    BY <2>3, <2>4, <1>18 DEF ReleaseErase
<1>19. CASE ReleaseChunk
  <2>1. at \in ReleaseAt /\ file[ReleaseSrc[at]] \in Pkg \ NoPart
    BY <1>19 DEF ReleaseChunk, PhaseOK
  <2>2. faults' \in 0..MaxFault
    BY <1>8, <1>19 DEF ReleaseChunk
  <2>3. CASE /\ n' = n + 1 /\ good' \in {good, good + 1}
             /\ app' = IF good' = Blocks THEN file[ReleaseSrc[at]] ELSE Partial
             /\ UNCHANGED <<at, ph, hist>>
    <3>1. n' \in 0..Blocks /\ good' \in 0..n'
      BY <2>3, <1>19, BoundAssumption DEF ReleaseChunk, MoreChunks, TypeOK
    <3> QED
      BY <2>1, <2>2, <2>3, <3>1, <1>19 DEF ReleaseChunk, TypeOK, PhaseOK, card, hist
  <2>4. CASE app' \in {app, Partial} /\ ReleaseReturn(FALSE)
    BY <2>1, <2>2, <2>4, <1>19, TypeReleaseReturn DEF ReleaseChunk, card, TypeOK
  <2> QED
    BY <2>3, <2>4, <1>19 DEF ReleaseChunk
<1>20. CASE ReleaseVerify
  <2>1. at \in ReleaseAt /\ file[ReleaseSrc[at]] \in Pkg
    BY <1>20 DEF ReleaseVerify, PhaseOK
  <2> QED
    BY <2>1, <1>20, TypeReleaseReturn DEF ReleaseVerify, card, TypeOK
<1>21. CASE CopyOpen
  <2>1. at \in CopyAt /\ ph = "call" /\ CopySrc[at] \in Path /\ CopyDst[at] \in Path
    BY <1>21, Tables DEF CopyOpen
  <2>2. faults' \in 0..MaxFault
    BY <1>8, <1>21 DEF CopyOpen
  <2>3. file' \in [Path -> Pkg \cup {Absent, Torn}]
    BY <1>21, <2>1 DEF CopyOpen, TypeOK
  <2>4. CASE CopyReturn
    BY <2>1, <2>2, <2>3, <2>4, <1>4, <1>21 DEF CopyOpen, TypeOK, PhaseOK, hist
  <2>5. CASE at' = "hung" /\ UNCHANGED <<file, open, call>>
    BY <2>1, <2>2, <2>5, <1>1, <1>21 DEF CopyOpen, TypeOK, PhaseOK, hist, call
  <2>6. CASE ph' = "copy" /\ UNCHANGED <<at, n, good, open>>
    BY <2>1, <2>2, <2>3, <2>6, <1>21 DEF CopyOpen, TypeOK, PhaseOK, hist
  <2> QED
    BY <2>4, <2>5, <2>6, <1>21 DEF CopyOpen
<1>22. CASE CopyChunk
  <2>1. at \in CopyAt
    BY <1>22 DEF CopyChunk, PhaseOK
  <2>2. faults' \in 0..MaxFault
    BY <1>8, <1>22 DEF CopyChunk
  <2>3. file' \in [Path -> Pkg \cup {Absent, Torn}]
    BY <2>1, <1>5, <1>7, <1>22 DEF CopyChunk, TypeOK
  <2>4. CASE n' = n + 1 /\ good' \in {good, good + 1} /\ UNCHANGED <<at, ph>>
    <3>1. n' \in 0..Blocks /\ good' \in 0..n'
      BY <2>4, <1>22, BoundAssumption DEF CopyChunk, MoreChunks, TypeOK
    <3> QED
      BY <2>1, <2>2, <2>3, <2>4, <3>1, <1>22 DEF CopyChunk, TypeOK, PhaseOK, hist
  <2>5. CASE CopyReturn
    BY <2>1, <2>2, <2>3, <2>5, <1>4, <1>22 DEF CopyChunk, TypeOK, PhaseOK, hist
  <2>6. CASE at' = "hung" /\ ph' = "call" /\ n' = 0 /\ good' = 0
    BY <2>2, <2>3, <2>6, <1>1, <1>22, BoundAssumption DEF CopyChunk, TypeOK, PhaseOK, hist
  <2> QED
    BY <2>4, <2>5, <2>6, <1>22 DEF CopyChunk
<1>23. CASE CopyClose
  <2>1. at \in CopyAt /\ CopyDst[at] \in Path
    BY <1>23, Tables DEF CopyClose, PhaseOK
  <2>2. faults' \in 0..MaxFault
    BY <1>8, <1>23 DEF CopyClose
  <2>3. file' \in [Path -> Pkg \cup {Absent, Torn}]
    BY <2>1, <1>5, <1>6, <1>23 DEF CopyClose
  <2>4. open' \subseteq Path
    BY <2>1, <1>23 DEF CopyClose, TypeOK
  <2> QED
    BY <2>1, <2>2, <2>3, <2>4, <1>4, <1>23 DEF CopyClose, TypeOK, PhaseOK, hist
<1>24. CASE Jump
  <2>1. ph = "call"
    BY <1>24 DEF Jump, PhaseOK, ReleaseAt, CopyAt
  <2> QED
    BY <2>1, <1>1, <1>24 DEF Jump, TypeOK, PhaseOK, call, hist, card
<1>25. CASE AppDeliver
  <2>1. file' \in [Path -> Pkg \cup {Absent, Torn}]
    BY <1>25 DEF AppDeliver, TypeOK
  <2> QED
    BY <2>1, <1>9, <1>25 DEF AppDeliver, TypeOK, PhaseOK
<1>26. CASE YmodemOta
  <2>1. ph = "call"
    BY <1>26 DEF YmodemOta, PhaseOK, ReleaseAt, CopyAt
  <2>2. file' \in [Path -> Pkg \cup {Absent, Torn}]
    BY <1>26 DEF YmodemOta, TypeOK, card
  <2>3. CASE Restarted
    BY <2>2, <2>3, <1>9, <1>26 DEF YmodemOta, TypeOK, PhaseOK
  <2>4. CASE ~Restarted
    <3>1. at' \in {"hung", "shell"} /\ UNCHANGED <<open, call, hist>>
      BY <2>4, <1>26 DEF YmodemOta, card
    <3> QED
      BY <2>1, <2>2, <3>1, <1>1, <1>26 DEF YmodemOta, TypeOK, PhaseOK, call, hist
  <2> QED
    BY <2>3, <2>4
<1>27. CASE Reset
  BY <1>9, <1>27 DEF Reset, TypeOK, PhaseOK
<1>28. CASE Crash
  <2>1. /\ crashes' \in 0..MaxCrash /\ app' \in Pkg \cup {Blank, Partial}
        /\ file' \in [Path -> Pkg \cup {Absent, Torn}]
    BY <1>28, BoundAssumption DEF Crash, Formatted, TypeOK
  <2> QED
    BY <2>1, <1>9, <1>28 DEF Crash, TypeOK, PhaseOK
<1>29. CASE UNCHANGED vars
  BY <1>29 DEF vars, TypeOK, PhaseOK
<1> QED
  BY <1>10, <1>11, <1>12, <1>13, <1>14, <1>15, <1>16, <1>17, <1>18, <1>19, <1>20, <1>21,
     <1>22, <1>23, <1>24, <1>25, <1>26, <1>27, <1>28, <1>29, <1>30, <1>31, <1>32
  DEF Next, Boot

(* Every variable keeps to its range, and a release in progress works on a   *)
(* whole package: the labels and phases of the calls in rtu_boot_startup,    *)
(* rb_fw_release and copy_file.                                              *)
THEOREM TypeCorrect == Spec => []TypeOK
<1>1. Spec => []TypeInv
  BY TypeInit, TypeStep, PTL DEF Spec
<1>2. TypeInv => TypeOK
  BY DEF TypeInv
<1> QED
  BY <1>1, <1>2, PTL

-----------------------------------------------------------------------------
(* What a check leaves alone and where it goes. *)
LEMMA CheckEffect ==
  ASSUME NEW l, NEW path, NEW valid, NEW invalid, NEW missing,
         Check(l, path, valid, invalid, missing)
  PROVE  /\ at = l /\ at' \in {"hung", valid, invalid, missing}
         /\ UNCHANGED <<file, app, ph, n, good, released, installed, previous>>
<1>1. Verdict(file[path]) \in {-1, 0, 1}
  BY DEF Verdict, AsksAppCheck
<1> QED
  BY <1>1 DEF Check, call, hist

\* Nothing has been released at the start.
LEMMA ReleasedInit == Init => ReleasedInv
BY DEF Init, ReleasedInv, FallbackAt, UpdateAt

\* The end of a release is what ReleasedInv says of the label it goes on at.
LEMMA ReleasedReturn ==
  ASSUME TypeInv, TypeInv', ReleasedInv, at \in ReleaseAt, NEW ok \in BOOLEAN, ReleaseReturn(ok),
         ok => file[ReleaseSrc[at]] \in Pkg /\ app' = file[ReleaseSrc[at]]
  PROVE  ReleasedInv'
<1>1. ph' = "call"
  BY DEF ReleaseReturn
<1>2. CASE ok
  <2>1. at' \in {"updCheck", "jump"} /\ released' \in Pkg /\ app' = released'
    BY <1>2 DEF ReleaseReturn, ReleaseAt
  <2> QED
    BY <1>1, <2>1, PkgAssumption DEF ReleasedInv, FallbackAt, UpdateAt
<1>3. CASE ~ok
  <2>1. at' \in FallbackAt \cup {"shell"} /\ released' = Failed
    BY <1>3 DEF ReleaseReturn, ReleaseAt, FallbackAt
  <2> QED
    BY <1>1, <2>1, PkgAssumption DEF ReleasedInv, FallbackAt, UpdateAt
<1> QED
  BY <1>2, <1>3

\* ReleasedInv is inductive relative to TypeInv.
LEMMA ReleasedStep == TypeInv /\ TypeInv' /\ ReleasedInv /\ [Next]_vars => ReleasedInv'
<1> SUFFICES ASSUME TypeInv, TypeInv', ReleasedInv, [Next]_vars PROVE ReleasedInv'
  OBVIOUS
<1> USE DEF ReleasedInv
<1>1. Restarted => ReleasedInv'
  BY PkgAssumption DEF Restarted, FallbackAt, UpdateAt
<1>2. at \in CopyAt => After[at] \in UpdateAt
  BY DEF CopyAt, After, UpdateAt
<1>3. ph = "program" => at \in ReleaseAt
  BY DEF TypeInv, PhaseOK
<1>10. CASE FindCard \/ Mount \/ Format
  BY <1>10, <1>3, PkgAssumption
  DEF FindCard, Mount, Format, FallbackAt, UpdateAt, ReleaseAt, card, call, hist, None, Failed
<1>11. CASE KeyCheck
  BY <1>11, <1>3 DEF KeyCheck, FallbackAt, UpdateAt, ReleaseAt, call, hist
<1>12. CASE CheckOta
  BY <1>12, <1>3, CheckEffect, PkgAssumption DEF CheckOta, FallbackAt, UpdateAt, ReleaseAt, None, Failed
<1>13. CASE CheckBack
  BY <1>13, <1>3, CheckEffect, PkgAssumption DEF CheckBack, FallbackAt, UpdateAt, ReleaseAt
<1>14. CASE CheckLast
  BY <1>14, <1>3, CheckEffect, PkgAssumption DEF CheckLast, FallbackAt, UpdateAt, ReleaseAt
<1>15. CASE UpdCheck
  BY <1>15, <1>3, CheckEffect, PkgAssumption DEF UpdCheck, FallbackAt, UpdateAt, ReleaseAt
<1>30. CASE RblCheckBack
  BY <1>30, <1>3, CheckEffect DEF RblCheckBack, FallbackAt, UpdateAt, ReleaseAt
<1>31. CASE RblCheckLast
  BY <1>31, <1>3, CheckEffect DEF RblCheckLast, FallbackAt, UpdateAt, ReleaseAt
<1>32. CASE RblJump \/ Rbl
  BY <1>32, <1>3, PkgAssumption
  DEF RblJump, Rbl, FallbackAt, UpdateAt, ReleaseAt, call, hist, None, Failed
<1>16. CASE Remove
  <2>1. at \in RemoveAt
    BY <1>16, Tables DEF Remove
  <2>2. \/ at = "rmIllegal" /\ After[at] = "jump"
        \/ at = "rmFailed" /\ After[at] = "checkBack"
        \/ at \in UpdateAt /\ After[at] \in UpdateAt \cup {"jump"}
    BY <2>1 DEF RemoveAt, UpdateAt, After
  <2>3. ph' # "program"
    BY <1>16, <1>3, <2>1 DEF Remove, RemoveAt, ReleaseAt, call
  <2> QED
    BY <2>2, <2>3, <1>16, PkgAssumption DEF Remove, FallbackAt, UpdateAt, hist, None, Failed
<1>17. CASE ReleaseOpen
  <2>1. at \in ReleaseAt
    BY <1>17, Tables DEF ReleaseOpen
  <2>2. CASE ReleaseReturn(FALSE)
    BY <2>1, <2>2, ReleasedReturn
  <2>3. CASE at' = "hung" /\ UNCHANGED call
    BY <2>3, <1>17 DEF ReleaseOpen, call, hist, FallbackAt, UpdateAt
  <2>4. CASE ph' = "erasing" /\ UNCHANGED <<at, released>>
    BY <2>1, <2>4 DEF ReleaseAt, FallbackAt, UpdateAt
  <2> QED
    BY <2>2, <2>3, <2>4, <1>17 DEF ReleaseOpen, hist
<1>18. CASE ReleaseErase
  <2>1. at \in ReleaseAt /\ file[ReleaseSrc[at]] \in Pkg
    BY <1>18 DEF ReleaseErase, TypeInv, PhaseOK
  <2>2. CASE ReleaseReturn(FALSE)
    BY <2>1, <2>2, ReleasedReturn
  <2>3. CASE UNCHANGED <<at, n, good, hist>> /\ ph' = "program" /\ NoFault
    <3>1. good' # Blocks
      BY <2>3, <1>18, BoundAssumption DEF ReleaseErase, TypeInv, TypeOK, PhaseOK
    <3> QED
      BY <2>1, <2>3, <3>1 DEF ReleaseAt, FallbackAt, UpdateAt, hist
  <2> QED
    BY <2>2, <2>3, <1>18 DEF ReleaseErase
<1>19. CASE ReleaseChunk
  <2>1. at \in ReleaseAt
    BY <1>19, <1>3 DEF ReleaseChunk
  <2>2. CASE ReleaseReturn(FALSE)
    BY <2>1, <2>2, ReleasedReturn
  <2>3. CASE /\ app' = IF good' = Blocks THEN file[ReleaseSrc[at]] ELSE Partial
             /\ UNCHANGED <<at, ph, hist>>
    BY <2>1, <2>3, <1>19 DEF ReleaseChunk, ReleaseAt, FallbackAt, UpdateAt, hist, card
  <2> QED
    BY <2>2, <2>3, <1>19 DEF ReleaseChunk
<1>20. CASE ReleaseVerify
  <2>1. at \in ReleaseAt /\ file[ReleaseSrc[at]] \in Pkg
    BY <1>20 DEF ReleaseVerify, TypeInv, PhaseOK
  <2> QED
    BY <2>1, <1>20, ReleasedReturn DEF ReleaseVerify
<1>21. CASE CopyOpen
  <2>1. at \in CopyAt
    BY <1>21, Tables DEF CopyOpen
  <2>2. at' \in UpdateAt \cup {"hung"} /\ ph' # "program"
    BY <2>1, <1>2, <1>21 DEF CopyOpen, CopyReturn, call, CopyAt, UpdateAt
  <2> QED
    BY <2>1, <2>2, <1>21, PkgAssumption DEF CopyOpen, CopyAt, FallbackAt, UpdateAt, hist
<1>22. CASE CopyChunk
  <2>1. at \in CopyAt
    BY <1>22 DEF CopyChunk, TypeInv, PhaseOK
  <2>2. at' \in UpdateAt \cup {"hung"} /\ ph' # "program"
    BY <2>1, <1>2, <1>22 DEF CopyChunk, CopyReturn, CopyAt, UpdateAt
  <2> QED
    BY <2>1, <2>2, <1>22, PkgAssumption DEF CopyChunk, CopyAt, FallbackAt, UpdateAt, hist
<1>23. CASE CopyClose
  <2>1. at \in CopyAt
    BY <1>23 DEF CopyClose, TypeInv, PhaseOK
  <2>2. at' \in UpdateAt /\ ph' # "program"
    BY <2>1, <1>2, <1>23 DEF CopyClose, CopyReturn
  <2> QED
    BY <2>1, <2>2, <1>23, PkgAssumption DEF CopyClose, CopyAt, FallbackAt, UpdateAt, hist
<1>24. CASE Jump
  BY <1>24, <1>3 DEF Jump, ReleaseAt, FallbackAt, UpdateAt, hist, call
<1>25. CASE AppDeliver
  BY <1>1, <1>25 DEF AppDeliver
<1>26. CASE YmodemOta
  <2>1. ~Restarted => at' \in {"hung", "shell"} /\ UNCHANGED call
    BY <1>26 DEF YmodemOta
  <2>2. ph # "program"
    BY <1>26, <1>3 DEF YmodemOta, ReleaseAt
  <2> QED
    BY <2>1, <2>2, <1>1 DEF call, FallbackAt, UpdateAt
<1>27. CASE Reset
  BY <1>1, <1>27 DEF Reset
<1>28. CASE Crash
  BY <1>1, <1>28 DEF Crash
<1>29. CASE UNCHANGED vars
  BY <1>29 DEF vars, FallbackAt, UpdateAt
<1> QED
  BY <1>10, <1>11, <1>12, <1>13, <1>14, <1>15, <1>16, <1>17, <1>18, <1>19, <1>20, <1>21,
     <1>22, <1>23, <1>24, <1>25, <1>26, <1>27, <1>28, <1>29, <1>30, <1>31, <1>32
  DEF Next, Boot

(* A boot that wrote the flash jumps only into the whole image of the        *)
(* package it released last, whatever failed on the way (rb_fw_release and   *)
(* the branches of rtu_boot_startup), for every set of packages and every    *)
(* number of failures and power losses.                                      *)
THEOREM JumpsCorrect == Spec => []JumpsToReleased
<1>1. Spec => []TypeInv
  BY TypeInit, TypeStep, PTL DEF Spec
<1>2. Spec => []ReleasedInv
  BY <1>1, ReleasedInit, ReleasedStep, PTL DEF Spec
<1>3. ReleasedInv => JumpsToReleased
  BY DEF ReleasedInv, JumpsToReleased
<1> QED
  BY <1>2, <1>3, PTL

-----------------------------------------------------------------------------
(* What rb_fw_update copies is never a package with an unsupported algo2.    *)
UsableInv ==
  /\ at \in UpdateAt \cup {"relOta"} => file["ota"] \notin Algo2Crc
  /\ at \in {"vRm1", "vCopy1"} => file["back"] \notin Algo2Crc

BackupsKept == \A p \in {"back", "last"} : file'[p] \in Algo2Crc => file'[p] = file[p]

\* A copy of an update reads a file whose check did not refuse its algo2.
LEMMA CopySourceUsable ==
  ASSUME TypeInv, UsableInv, at \in CopyAt
  PROVE  /\ file[CopySrc[at]] \notin Algo2Crc
         /\ \A f : f \notin Algo2Crc =>
              /\ \A p \in Path : Dst(f)[p] \in Algo2Crc => Dst(f)[p] = file[p]
              /\ Dst(f)["ota"] = file["ota"]
         /\ After[at] \in UpdateAt \ {"vRm1", "vCopy1"}
<1>1. CopyDst[at] \in Path \ {"ota"}
  BY Tables
<1>2. file[CopySrc[at]] \notin Algo2Crc
  BY DEF UsableInv, CopyAt, UpdateAt, CopySrc
<1>3. After[at] \in UpdateAt \ {"vRm1", "vCopy1"}
  BY DEF CopyAt, UpdateAt, After
<1> QED
  BY <1>1, <1>2, <1>3 DEF Dst, TypeInv, TypeOK, Path

\* UsableInv is inductive relative to TypeInv, and its steps keep the backups usable.
LEMMA UsableStep ==
  TypeInv /\ TypeInv' /\ UsableInv /\ [Next]_vars => UsableInv' /\ BackupsKept
<1> SUFFICES ASSUME TypeInv, TypeInv', UsableInv, [Next]_vars PROVE UsableInv' /\ BackupsKept
  OBVIOUS
<1>1. ph \in {"erasing", "program"} => at \in ReleaseAt
  BY DEF TypeInv, PhaseOK
<1>2. Absent \notin Algo2Crc /\ Torn \notin Algo2Crc
  BY PkgAssumption
<1>3. ASSUME UNCHANGED file, at' \notin {"relOta", "vRm1", "vCopy1"},
             at' \in UpdateAt => at \in UpdateAt \cup {"relOta"}
      PROVE  UsableInv' /\ BackupsKept
  BY <1>3 DEF UsableInv, BackupsKept
<1>4. ASSUME at' \notin UpdateAt \cup {"relOta"},
             \A p \in {"back", "last"} : file'[p] \in {Absent, file[p]}
      PROVE  UsableInv' /\ BackupsKept
  BY <1>2, <1>4 DEF UsableInv, BackupsKept, UpdateAt
<1>10. CASE FindCard \/ Mount \/ Format
  <2>1. /\ at' \in {"mount", "format", "key", "jump"}
        /\ \A p \in Path : file'[p] \in {Absent, file[p]}
    BY <1>10 DEF FindCard, Mount, Format, Formatted, card
  <2> QED
    BY <2>1, <1>4 DEF UpdateAt, Path
<1>11. CASE KeyCheck
  BY <1>11, <1>3 DEF KeyCheck, UpdateAt, card
<1>12. CASE CheckOta
  <2>1. at' = "relOta" => file["ota"] \notin Algo2Crc
    BY <1>12 DEF CheckOta, Check, Verdict, AsksAppCheck
  <2> QED
    BY <2>1, <1>12, CheckEffect DEF CheckOta, UsableInv, BackupsKept, UpdateAt
<1>13. CASE CheckBack
  BY <1>13, <1>3, CheckEffect DEF CheckBack, UpdateAt
<1>14. CASE CheckLast
  BY <1>14, <1>3, CheckEffect DEF CheckLast, UpdateAt
<1>15. CASE UpdCheck
  <2>1. at' = "vRm1" => file["back"] \notin Algo2Crc
    BY <1>15 DEF UpdCheck, Check, Verdict, AsksAppCheck
  <2> QED
    BY <2>1, <1>15, CheckEffect DEF UpdCheck, UsableInv, BackupsKept, UpdateAt
<1>30. CASE RblCheckBack
  BY <1>30, <1>3, CheckEffect DEF RblCheckBack, UpdateAt
<1>31. CASE RblCheckLast
  BY <1>31, <1>3, CheckEffect DEF RblCheckLast, UpdateAt
<1>32. CASE RblJump \/ Rbl
  BY <1>32, <1>3 DEF RblJump, Rbl, UpdateAt, card
<1>16. CASE Remove
  <2>1. at \in RemoveAt
    BY <1>16, Tables DEF Remove
  <2>2. \A p \in Path : file'[p] \in {Absent, file[p]}
    BY <1>16 DEF Remove, TypeInv, TypeOK
  <2>3. at' \in UpdateAt => at \in UpdateAt
    BY <2>1, <1>16 DEF Remove, After, RemoveAt, UpdateAt
  <2>4. at' # "relOta" /\ (at' \in {"vRm1", "vCopy1"} => at = "vRm1")
    BY <2>1, <1>16 DEF Remove, After, RemoveAt
  <2> QED
    BY <2>2, <2>3, <2>4, <1>2 DEF UsableInv, BackupsKept, Path
<1>17. CASE ReleaseOpen
  BY <1>17, <1>3, Tables DEF ReleaseOpen, ReleaseReturn, ReleaseAt, UpdateAt, UsableInv, BackupsKept
<1>18. CASE ReleaseErase
  BY <1>18, <1>1, <1>3 DEF ReleaseErase, ReleaseReturn, ReleaseAt, UpdateAt, UsableInv, BackupsKept, card
<1>19. CASE ReleaseChunk
  BY <1>19, <1>1, <1>3 DEF ReleaseChunk, ReleaseReturn, ReleaseAt, UpdateAt, UsableInv, BackupsKept, card
<1>20. CASE ReleaseVerify
  BY <1>20, <1>1, <1>3 DEF ReleaseVerify, ReleaseReturn, ReleaseAt, UpdateAt, card
<1>21. CASE CopyOpen
  <2>1. at \in CopyAt
    BY <1>21, Tables DEF CopyOpen
  <2>2. file' \in {file, Dst(Torn)}
    BY <2>1, <1>21 DEF CopyOpen, Dst
  <2>3. at' \in {at, "hung", After[at]}
    BY <1>21 DEF CopyOpen, CopyReturn
  <2>4. at = "vCopy1" => CopyDst[at] = "last"
    BY DEF CopyDst
  <2>5. at' = "vCopy1" => file'["back"] = file["back"]
    BY <2>1, <2>2, <2>3, <2>4, CopySourceUsable DEF Dst, TypeInv, TypeOK, Path
  <2> QED
    BY <1>2, <2>1, <2>2, <2>3, <2>5, CopySourceUsable
    DEF UsableInv, BackupsKept, Path, CopyAt, UpdateAt
<1>22. CASE CopyChunk
  <2>1. at \in CopyAt
    BY <1>22 DEF CopyChunk, TypeInv, PhaseOK
  <2>2. file' \in {file, Dst(Torn), Dst(file[CopySrc[at]])}
    BY <1>22 DEF CopyChunk, Overwritten
  <2>3. at' \in {at, "hung", After[at]}
    BY <1>22 DEF CopyChunk, CopyReturn
  <2>4. at = "vCopy1" => CopyDst[at] = "last"
    BY DEF CopyDst
  <2>5. at' = "vCopy1" => file'["back"] = file["back"]
    BY <2>1, <2>2, <2>3, <2>4, CopySourceUsable DEF Dst, TypeInv, TypeOK, Path
  <2> QED
    BY <1>2, <2>1, <2>2, <2>3, <2>5, CopySourceUsable
    DEF UsableInv, BackupsKept, Path, CopyAt, UpdateAt
<1>23. CASE CopyClose
  <2>1. at \in CopyAt
    BY <1>23 DEF CopyClose, TypeInv, PhaseOK
  <2>2. file' \in {Dst(Torn), Dst(file[CopySrc[at]])} /\ at' = After[at]
    BY <1>23 DEF CopyClose, CopyReturn
  <2> QED
    BY <1>2, <2>1, <2>2, CopySourceUsable DEF UsableInv, BackupsKept, Path, CopyAt, UpdateAt
<1>24. CASE Jump
  BY <1>24, <1>3 DEF Jump, UpdateAt, card
<1>25. CASE AppDeliver
  BY <1>25, <1>4 DEF AppDeliver, Restarted, UpdateAt, TypeInv, TypeOK, Path
<1>26. CASE YmodemOta
  <2>1. at' \in {"hung", "shell", "main"}
    BY <1>26 DEF YmodemOta, Restarted
  <2>2. \A p \in {"back", "last"} : file'[p] = file[p]
    BY <1>26 DEF YmodemOta, card, TypeInv, TypeOK, Path
  <2> QED
    BY <2>1, <2>2, <1>4 DEF UpdateAt
<1>27. CASE Reset
  BY <1>27, <1>3 DEF Reset, Restarted, UpdateAt
<1>28. CASE Crash
  <2>1. at' = "main" /\ \A p \in Path : file'[p] \in {Absent, file[p]}
    BY <1>28 DEF Crash, Restarted, Formatted
  <2> QED
    BY <2>1, <1>4 DEF UpdateAt, Path
<1>29. CASE UNCHANGED vars
  BY <1>29 DEF vars, UsableInv, BackupsKept
<1> QED
  BY <1>10, <1>11, <1>12, <1>13, <1>14, <1>15, <1>16, <1>17, <1>18, <1>19, <1>20, <1>21,
     <1>22, <1>23, <1>24, <1>25, <1>26, <1>27, <1>28, <1>29, <1>30, <1>31, <1>32
  DEF Next, Boot

(* No step of the boot sequence stores in back.rbl or last.rbl a package     *)
(* that the check refuses for its algo2 field (rb_fw_update copies only what *)
(* sd_check_firmware_validity accepted), whatever fails on the way.          *)
THEOREM BackupsStayUsable == Spec => BackupsUsable
<1>1. Spec => []TypeInv
  BY TypeInit, TypeStep, PTL DEF Spec
<1>2. Init => UsableInv
  BY DEF Init, UsableInv, UpdateAt
<1>3. Spec => []UsableInv
  BY <1>1, <1>2, UsableStep, PTL DEF Spec
<1>4. TypeInv /\ TypeInv' /\ UsableInv /\ [Next]_vars
        => [\A p \in {"back", "last"} : file'[p] \in Algo2Crc => file'[p] = file[p]]_vars
  BY UsableStep DEF BackupsKept
<1> QED
  BY <1>1, <1>3, <1>4, PTL DEF Spec, BackupsUsable

-----------------------------------------------------------------------------
(* The device without I/O failures, whose packages can all be flashed and    *)
(* whose operator sends none from the shell.  Power may fail at any step.    *)
CrashOnly == MaxFault = 0 /\ NoPart = {} /\ ShellUsed = FALSE

\* Without failures none is counted.
LEMMA NoFaults == CrashOnly /\ TypeInv => ~Fault
BY DEF CrashOnly, TypeInv, TypeOK, Fault

\* Without failures a package is installable exactly if its check returns 1.
LEMMA GoodFacts ==
  CrashOnly => /\ Good = Pkg \ Algo2Crc
               /\ {Absent, Torn, Blank, Partial, None, Failed} \cap Good = {}
               /\ \A f : (f \in Good <=> Verdict(f) = 1)
BY PkgAssumption DEF CrashOnly, Good, Verdict, AsksAppCheck

\* The sequence without failures starts in CrashInv.
LEMMA CrashInit == CrashOnly /\ Init => CrashInv
BY PkgAssumption, GoodFacts
DEF Init, CrashInv, FallbackAt, RblAt, UpdateAt, Blank, Partial, None, Absent

\* A copy leaves the package being installed alone, and ends with the backup.
LEMMA CopyFacts ==
  ASSUME TypeInv, at \in CopyAt
  PROVE  /\ \A f : Dst(f)["ota"] = file["ota"]
         /\ After[at] \in UpdateAt
         /\ at \in UpdateAt
         /\ After[at] = "rmOta" => CopySrc[at] = "ota" /\ CopyDst[at] = "back"
         /\ at = "rmOta" => FALSE
BY Tables DEF Dst, CopyAt, UpdateAt, After, CopySrc, CopyDst, TypeInv, TypeOK, Path

\* CrashInv is inductive relative to the other invariants.
LEMMA CrashStep ==
  ASSUME CrashOnly, TypeInv, TypeInv', ReleasedInv, CrashInv, [Next]_vars
  PROVE  CrashInv'
<1> USE DEF CrashInv
<1>1. ~Fault
  BY NoFaults
<1>2. ph \in {"erasing", "program"} => at = "relOta"
  BY DEF TypeInv, PhaseOK, ReleaseAt, FallbackAt, RblAt
<1>3. Restarted /\ file' = file /\ app' = app => CrashInv'
  BY DEF Restarted, FallbackAt, RblAt, UpdateAt
<1>10. CASE FindCard \/ Mount \/ Format
  BY <1>1, <1>10 DEF FindCard, Mount, Format, FallbackAt, RblAt, UpdateAt, card, call, hist
<1>11. CASE KeyCheck
  BY <1>11 DEF KeyCheck, FallbackAt, RblAt, UpdateAt, call, hist, card
<1>12. CASE CheckOta
  <2>1. at' = "relOta" => file["ota"] \in Good
    BY <1>1, <1>12, GoodFacts DEF CheckOta, Check, Verdict, AsksAppCheck
  <2>2. at' \in {"rmIllegal", "jump"} => file["ota"] \notin Good
    BY <1>1, <1>12, GoodFacts DEF CheckOta, Check, Verdict, AsksAppCheck
  <2>3. "ota" \in open' => file["ota"] \notin Good
    BY <1>1, <1>12, GoodFacts DEF CheckOta, Check, AsksAppCheck
  <2> QED
    BY <2>1, <2>2, <2>3, <1>12, CheckEffect DEF CheckOta, FallbackAt, RblAt, UpdateAt
<1>13. CASE CheckBack
  BY <1>13, CheckEffect DEF CheckBack, FallbackAt, RblAt
<1>14. CASE CheckLast
  BY <1>14, CheckEffect DEF CheckLast, FallbackAt, RblAt
<1>15. CASE UpdCheck
  <2>1. "ota" \in open' => "ota" \in open
    BY <1>15 DEF UpdCheck, Check
  <2> QED
    BY <2>1, <1>15, CheckEffect DEF UpdCheck, FallbackAt, RblAt, UpdateAt
<1>30. CASE RblCheckBack
  BY <1>30, CheckEffect DEF RblCheckBack, RblAt
<1>31. CASE RblCheckLast
  BY <1>31, CheckEffect DEF RblCheckLast, RblAt
<1>32. CASE RblJump \/ Rbl
  BY <1>32 DEF RblJump, Rbl, CrashOnly
<1>16. CASE Remove
  <2>1. at \in RemoveAt /\ UNCHANGED <<app, ph, n, good, open, installed>>
    BY <1>16, Tables DEF Remove, call, hist
  <2>2. \/ at = "rmIllegal" /\ Removes[at] = "ota" /\ After[at] = "jump"
        \/ at = "rmOta" /\ Removes[at] = "ota" /\ After[at] = "jump"
        \/ at \in UpdateAt /\ Removes[at] = "back" /\ After[at] \in UpdateAt \ {"rmOta"}
    BY <2>1 DEF RemoveAt, FallbackAt, RblAt, UpdateAt, Removes, After
  <2>3. at' = After[at] /\ file' = IF Removes[at] \in open THEN file
                                   ELSE [file EXCEPT ![Removes[at]] = Absent]
    BY <1>1, <1>16 DEF Remove
  <2>4. file \in [Path -> Pkg \cup {Absent, Torn}] /\ "ota" \in Path /\ "back" \in Path
    BY DEF TypeInv, TypeOK, Path
  <2>5. CASE at = "rmIllegal"
    <3>1. at' = "jump" /\ file'["ota"] \notin Good /\ file'["back"] = file["back"]
      BY <2>2, <2>3, <2>4, <2>5, GoodFacts DEF RemoveAt, UpdateAt
    <3> QED
      BY <2>1, <2>5, <3>1 DEF FallbackAt, RblAt, UpdateAt
  <2>6. CASE at = "rmOta"
    <3>1. file["ota"] \in Good /\ "ota" \notin open /\ app = file["ota"] /\ file["back"] = app
      BY <2>6 DEF UpdateAt
    <3>2. at' = "jump" /\ file'["ota"] \notin Good /\ file'["back"] = file["back"]
      BY <3>1, <2>3, <2>4, <2>6, GoodFacts DEF Removes, After
    <3> QED
      BY <2>1, <3>1, <3>2, GoodFacts DEF FallbackAt, RblAt, UpdateAt
  <2>7. CASE at \in UpdateAt /\ Removes[at] = "back" /\ After[at] \in UpdateAt \ {"rmOta"}
    <3>1. file'["ota"] = file["ota"] /\ at' \in UpdateAt \ {"rmOta"}
      BY <2>3, <2>4, <2>7
    <3> QED
      BY <2>1, <2>7, <3>1 DEF FallbackAt, RblAt, UpdateAt
  <2> QED
    BY <2>2, <2>5, <2>6, <2>7
<1>17. CASE ReleaseOpen
  <2>1. at = "relOta" /\ ReleaseSrc[at] = "ota" /\ file["ota"] \in Good
    BY <1>17, Tables DEF ReleaseOpen, ReleaseAt, FallbackAt, RblAt, ReleaseSrc
  <2>2. "ota" \notin open /\ file["ota"] \notin NoPart
    BY <2>1 DEF CrashOnly
  <2>3. app' = Partial /\ UNCHANGED <<at, n, good, open, hist, file>>
    BY <1>1, <2>1, <2>2, <1>17 DEF ReleaseOpen
  <2> QED
    BY <2>1, <2>3 DEF UpdateAt, FallbackAt, RblAt, hist
<1>18. CASE ReleaseErase
  <2>1. at = "relOta" /\ app' = Blank /\ UNCHANGED <<at, n, good, hist, card>>
    BY <1>1, <1>2, <1>18 DEF ReleaseErase
  <2> QED
    BY <2>1 DEF UpdateAt, FallbackAt, RblAt, hist, card
<1>19. CASE ReleaseChunk
  <2>1. at = "relOta" /\ good' = n' /\ UNCHANGED <<at, hist, card>>
    BY <1>1, <1>2, <1>19 DEF ReleaseChunk
  <2> QED
    BY <2>1 DEF UpdateAt, FallbackAt, RblAt, hist, card
<1>20. CASE ReleaseVerify
  <2>1. at = "relOta" /\ ReleaseSrc[at] = "ota" /\ file["ota"] \in Good
    BY <1>2, <1>20 DEF ReleaseVerify, ReleaseSrc
  <2>2. app = file["ota"]
    BY <2>1, <1>20 DEF ReleaseVerify, ReleasedInv
  <2>3. at' = "updCheck" /\ n' = 0 /\ good' = 0
    BY <2>1, <1>20 DEF ReleaseVerify, ReleaseReturn
  <2> QED
    BY <2>1, <2>2, <2>3, <1>20, GoodFacts DEF ReleaseVerify, UpdateAt, FallbackAt, RblAt, card
<1>21. CASE CopyOpen
  <2>1. at \in CopyAt
    BY <1>21, Tables DEF CopyOpen
  <2>2. file["ota"] \in Good /\ app = file["ota"] /\ app # Partial
    BY <2>1, CopyFacts, GoodFacts
  <2>3. file' \in {file, Dst(Torn)} /\ UNCHANGED <<app, installed>> /\ open' = open /\ good' = n'
    BY <1>1, <2>1, <1>21 DEF CopyOpen, CopyReturn, Dst, hist, call
  <2>4. at' \in {"hung", at} \/ (file[CopySrc[at]] = Absent /\ at' = After[at])
    BY <1>1, <1>21 DEF CopyOpen, CopyReturn
  <2>5. at' \in (UpdateAt \ {"rmOta"}) \cup {"hung"}
    BY <2>1, <2>2, <2>4, CopyFacts, GoodFacts
  <2>6. file'["ota"] = file["ota"]
    BY <2>1, <2>3, CopyFacts
  <2> QED
    BY <2>2, <2>3, <2>5, <2>6 DEF UpdateAt, FallbackAt, RblAt
<1>22. CASE CopyChunk
  <2>1. at \in CopyAt
    BY <1>22 DEF CopyChunk, TypeInv, PhaseOK
  <2>2. file["ota"] \in Good /\ app = file["ota"] /\ app # Partial
    BY <2>1, CopyFacts, GoodFacts
  <2>3. file' \in Overwritten /\ UNCHANGED <<app, installed, open, at>> /\ good' = n'
    BY <1>1, <1>22 DEF CopyChunk, hist
  <2>4. file'["ota"] = file["ota"] /\ at # "rmOta"
    BY <2>1, <2>3, CopyFacts DEF Overwritten
  <2> QED
    BY <2>1, <2>2, <2>3, <2>4, CopyFacts DEF UpdateAt, FallbackAt, RblAt
<1>23. CASE CopyClose
  <2>1. at \in CopyAt
    BY <1>23 DEF CopyClose, TypeInv, PhaseOK
  <2>2. file["ota"] \in Good /\ app = file["ota"] /\ app # Partial
    BY <2>1, CopyFacts, GoodFacts
  <2>3. file' = Dst(file[CopySrc[at]]) /\ UNCHANGED <<app, installed, open>>
        /\ at' = After[at] /\ good' = n'
    BY <1>1, <1>23 DEF CopyClose, CopyReturn, hist
  <2>4. file'["ota"] = file["ota"] /\ at' \in UpdateAt
    BY <2>1, <2>3, CopyFacts
  <2>5. at' = "rmOta" => file'["back"] = app
    BY <2>1, <2>2, <2>3, CopyFacts DEF Dst, TypeInv, TypeOK, Path
  <2> QED
    BY <2>2, <2>3, <2>4, <2>5 DEF UpdateAt, FallbackAt, RblAt
<1>24. CASE Jump
  BY <1>24 DEF Jump, UpdateAt, FallbackAt, RblAt, call, card, hist
<1>25. CASE AppDeliver
  <2>1. file'["back"] = file["back"] /\ app # Partial
    BY <1>25, PkgAssumption DEF AppDeliver, TypeInv, TypeOK, Path
  <2> QED
    BY <2>1, <1>25 DEF AppDeliver, Restarted, UpdateAt, FallbackAt, RblAt
<1>26. CASE YmodemOta
  BY <1>26 DEF YmodemOta, CrashOnly
<1>27. CASE Reset
  BY <1>3, <1>27 DEF Reset
<1>28. CASE Crash
  <2>0. file' = file
    BY <1>28 DEF Crash
  <2>1. CASE app' = app
    BY <1>3, <1>28, <2>0, <2>1 DEF Crash
  <2>2. CASE app' = Partial /\ ph = "program"
    BY <1>2, <1>28, <2>0, <2>2 DEF Crash, Restarted, UpdateAt, FallbackAt, RblAt
  <2> QED
    BY <2>1, <2>2, <1>28 DEF Crash
<1>29. CASE UNCHANGED vars
  BY <1>29 DEF vars, UpdateAt, FallbackAt, RblAt
<1> QED
  BY <1>10, <1>11, <1>12, <1>13, <1>14, <1>15, <1>16, <1>17, <1>18, <1>19, <1>20, <1>21,
     <1>22, <1>23, <1>24, <1>25, <1>26, <1>27, <1>28, <1>29, <1>30, <1>31, <1>32
  DEF Next, Boot

\* The invariants of the sequence without failures.
LEMMA CrashInvariant == ASSUME CrashOnly PROVE Spec => [](TypeInv /\ CrashInv)
<1>1. Spec => []TypeInv
  BY TypeInit, TypeStep, PTL DEF Spec
<1>2. Spec => []ReleasedInv
  BY <1>1, ReleasedInit, ReleasedStep, PTL DEF Spec
<1>3. Init => CrashInv
  BY CrashInit
<1>4. TypeInv /\ TypeInv' /\ ReleasedInv /\ CrashInv /\ [Next]_vars => CrashInv'
  BY CrashStep
<1> QED
  BY <1>1, <1>2, <1>3, <1>4, PTL DEF Spec

(* Without I/O failures the device only ever starts a whole image, wherever  *)
(* power fails: rtu_boot_startup keeps the OTA package until rb_fw_release   *)
(* has written all of it.                                                    *)
THEOREM WholeImageCorrect == ASSUME CrashOnly PROVE Spec => []StartsWholeImage
<1>1. TypeInv /\ CrashInv => StartsWholeImage
  BY DEF CrashInv, StartsWholeImage, TypeInv, TypeOK
<1> QED
  BY <1>1, CrashInvariant, PTL

(* Without I/O failures an application area that is not whole is always      *)
(* covered by an installable package on the card (rb_fw_release, remove).    *)
THEOREM RecoverableCorrect == ASSUME CrashOnly PROVE Spec => []Recoverable
<1>1. TypeInv /\ CrashInv => Recoverable
  BY DEF CrashInv, Recoverable, TypeInv, PhaseOK, FallbackAt, RblAt, ReleaseAt
<1> QED
  BY <1>1, CrashInvariant, PTL

(* Without I/O failures the backup of a device that runs the package it      *)
(* installed last is that package (rb_fw_update before the last remove).     *)
THEOREM BackupCorrect == ASSUME CrashOnly PROVE Spec => []BackupIsRunning
<1>1. TypeInv /\ CrashInv => BackupIsRunning
  BY DEF CrashInv, BackupIsRunning
<1> QED
  BY <1>1, CrashInvariant, PTL

(* Without I/O failures the boot sequence deletes an installable package     *)
(* only when the flash holds it (the remove after rb_fw_update).             *)
THEOREM OtaKeptCorrect == ASSUME CrashOnly PROVE Spec => OtaKeptUntilInstalled
<1>1. ASSUME TypeInv, CrashInv, [Next]_vars, at \notin Stopped,
             file["ota"] \in Good, file'["ota"] # file["ota"]
      PROVE  app = file["ota"]
  <2>1. ~Fault
    BY <1>1, NoFaults
  <2>2. ~(Reset \/ AppDeliver \/ RblJump \/ Rbl \/ YmodemOta \/ Crash \/ UNCHANGED vars)
    BY <1>1 DEF Reset, AppDeliver, RblJump, Rbl, YmodemOta, Crash, CrashInv, Stopped, vars
  <2>3. ~(CheckOta \/ CheckBack \/ CheckLast \/ UpdCheck \/ RblCheckBack \/ RblCheckLast)
    BY <1>1, CheckEffect
    DEF CheckOta, CheckBack, CheckLast, UpdCheck, RblCheckBack, RblCheckLast
  <2>4. ~(FindCard \/ Mount \/ Format \/ KeyCheck \/ Jump)
    BY <1>1, <2>1 DEF FindCard, Mount, Format, KeyCheck, Jump, CrashInv, card
  <2>5. ~(ReleaseOpen \/ ReleaseErase \/ ReleaseChunk \/ ReleaseVerify)
    BY <1>1 DEF ReleaseOpen, ReleaseErase, ReleaseChunk, ReleaseVerify, card
  <2>6. CopyOpen \/ CopyChunk \/ CopyClose => at \in CopyAt
    BY <1>1, Tables DEF CopyOpen, CopyChunk, CopyClose, TypeInv, PhaseOK
  <2>7. CASE CopyOpen \/ CopyChunk \/ CopyClose
    BY <1>1, <2>6, <2>7, CopyFacts DEF CrashInv
  <2>8. CASE Remove
    <3>1. at \in RemoveAt /\ Removes[at] = "ota"
      BY <1>1, <2>8, Tables DEF Remove, TypeInv, TypeOK, Path
    <3>2. at = "rmOta"
      BY <1>1, <3>1 DEF RemoveAt, Removes, CrashInv, FallbackAt
    <3> QED
      BY <1>1, <3>2 DEF CrashInv, UpdateAt
  <2> QED
    BY <1>1, <2>2, <2>3, <2>4, <2>5, <2>7, <2>8 DEF Next, Boot
<1>2. TypeInv /\ CrashInv /\ [Next]_vars
        => [(at \notin Stopped /\ file["ota"] \in Good /\ file'["ota"] # file["ota"])
              => app = file["ota"]]_vars
  BY <1>1
<1> QED
  BY <1>2, CrashInvariant, PTL DEF Spec, OtaKeptUntilInstalled

-----------------------------------------------------------------------------
(* The refinement of AtomicUpdate. *)
TargetBar  == IF file["ota"] \in Good THEN file["ota"] ELSE IF app \in Pkg THEN app ELSE None
RunningBar == IF at = "app" THEN app ELSE None

\* Every step is one of AtomicUpdate or a stutter.
LEMMA AtomicStep ==
  ASSUME CrashOnly, TypeInv, TypeInv', ReleasedInv, CrashInv, CrashInv', [Next]_vars
  PROVE  [Atomic!Next]_<<TargetBar, RunningBar>>
<1>1. ~Fault
  BY NoFaults
<1>2. ph \in {"erasing", "program"} => at = "relOta"
  BY DEF TypeInv, PhaseOK, ReleaseAt, FallbackAt, RblAt, CrashInv
<1>3. Good \subseteq Pkg /\ None \notin Pkg /\ Blank \notin Pkg /\ Partial \notin Pkg
  BY PkgAssumption DEF Good
<1>4. ASSUME at # "app", at' # "app", file'["ota"] = file["ota"],
             app' = app \/ file["ota"] \in Good
      PROVE  UNCHANGED <<TargetBar, RunningBar>>
  BY <1>4 DEF TargetBar, RunningBar
<1>10. CASE FindCard \/ Mount \/ Format
  BY <1>1, <1>4, <1>10 DEF FindCard, Mount, Format, CrashInv, card
<1>11. CASE KeyCheck
  BY <1>4, <1>11 DEF KeyCheck, card
<1>12. CASE CheckOta
  BY <1>4, <1>12, CheckEffect DEF CheckOta
<1>13. CASE CheckBack
  BY <1>4, <1>13, CheckEffect DEF CheckBack
<1>14. CASE CheckLast
  BY <1>4, <1>14, CheckEffect DEF CheckLast
<1>15. CASE UpdCheck
  BY <1>4, <1>15, CheckEffect DEF UpdCheck
<1>30. CASE RblCheckBack
  BY <1>4, <1>30, CheckEffect DEF RblCheckBack
<1>31. CASE RblCheckLast
  BY <1>4, <1>31, CheckEffect DEF RblCheckLast
<1>32. CASE RblJump \/ Rbl
  BY <1>32 DEF RblJump, Rbl, CrashOnly
<1>16. CASE Remove
  <2>1. at \in RemoveAt /\ app' = app /\ at' # "app" /\ at # "app"
    BY <1>16, Tables DEF Remove, RemoveAt, After
  <2>2. CASE file'["ota"] = file["ota"]
    BY <1>4, <2>1, <2>2
  <2>3. CASE file'["ota"] # file["ota"]
    <3>1. file'["ota"] = Absent /\ Removes[at] = "ota"
      BY <1>16, <2>3 DEF Remove, TypeInv, TypeOK, Path
    <3>2. at \in {"rmIllegal", "rmOta"}
      BY <2>1, <3>1 DEF RemoveAt, Removes, CrashInv, FallbackAt
    <3>3. at = "rmOta" => app = file["ota"] /\ file["ota"] \in Good
      BY DEF CrashInv, UpdateAt
    <3>4. at = "rmIllegal" => file["ota"] \notin Good
      BY DEF CrashInv
    <3> QED
      BY <1>3, <2>1, <3>1, <3>2, <3>3, <3>4, GoodFacts DEF TargetBar, RunningBar
  <2> QED
    BY <2>2, <2>3
<1>17. CASE ReleaseOpen
  <2>1. at = "relOta" /\ file["ota"] \in Good
    BY <1>17, Tables DEF ReleaseOpen, ReleaseAt, CrashInv, FallbackAt, RblAt
  <2>2. at' # "app"
    BY <2>1, <1>17 DEF ReleaseOpen, ReleaseReturn
  <2> QED
    BY <1>4, <2>1, <2>2, <1>17 DEF ReleaseOpen
<1>18. CASE ReleaseErase
  BY <1>1, <1>2, <1>4, <1>18 DEF ReleaseErase, card, CrashInv
<1>19. CASE ReleaseChunk
  BY <1>1, <1>2, <1>4, <1>19 DEF ReleaseChunk, card, CrashInv
<1>20. CASE ReleaseVerify
  BY <1>2, <1>4, <1>20 DEF ReleaseVerify, ReleaseReturn, card
<1>21. CASE CopyOpen
  <2>1. at \in CopyAt
    BY <1>21, Tables DEF CopyOpen
  <2>2. file' \in {file, Dst(Torn)} /\ app' = app /\ at' \in {at, "hung", After[at]}
    BY <2>1, <1>21 DEF CopyOpen, CopyReturn, Dst
  <2> QED
    BY <1>4, <2>1, <2>2, CopyFacts DEF UpdateAt
<1>22. CASE CopyChunk
  <2>1. at \in CopyAt
    BY <1>22 DEF CopyChunk, TypeInv, PhaseOK
  <2>2. file' \in {file, Dst(Torn), Dst(file[CopySrc[at]])} /\ app' = app /\ at' = at
    BY <1>1, <1>22 DEF CopyChunk, Overwritten
  <2> QED
    BY <1>4, <2>1, <2>2, CopyFacts DEF UpdateAt
<1>23. CASE CopyClose
  <2>1. at \in CopyAt
    BY <1>23 DEF CopyClose, TypeInv, PhaseOK
  <2>2. file' \in {Dst(Torn), Dst(file[CopySrc[at]])} /\ app' = app /\ at' = After[at]
    BY <1>23 DEF CopyClose, CopyReturn
  <2> QED
    BY <1>4, <2>1, <2>2, CopyFacts DEF UpdateAt
<1>24. CASE Jump
  <2>1. CASE at' = "shell"
    BY <1>4, <1>24, <2>1 DEF Jump, card
  <2>2. CASE at' = "app"
    <3>1. app \in Pkg /\ file["ota"] \notin Good /\ UNCHANGED <<app, file>> /\ at = "jump"
      BY <1>24, <2>2 DEF Jump, card, CrashInv, TypeInv, TypeOK
    <3>2. Atomic!Start
      BY <1>3, <2>2, <3>1 DEF Atomic!Start, TargetBar, RunningBar
    <3> QED
      BY <3>2 DEF Atomic!Next
  <2> QED
    BY <1>24, <2>1, <2>2 DEF Jump
<1>25. CASE AppDeliver
  <2>1. at = "app" /\ at' = "main" /\ app \in Pkg /\ app' = app
    BY <1>25 DEF AppDeliver, Restarted
  <2>2. RunningBar = app /\ RunningBar' = None
    BY <2>1 DEF RunningBar
  <2>3. file["ota"] \notin Good
    BY <2>1 DEF CrashInv
  <2>4. CASE file'["ota"] \in Good
    BY <1>3, <2>1, <2>2, <2>4 DEF Atomic!Next, Atomic!Deliver, TargetBar, RunningBar
  <2>5. CASE file'["ota"] \notin Good
    BY <1>3, <2>1, <2>2, <2>3, <2>5 DEF Atomic!Next, Atomic!Stop, TargetBar, RunningBar
  <2> QED
    BY <2>4, <2>5
<1>26. CASE YmodemOta
  BY <1>26 DEF YmodemOta, CrashOnly
<1>27. CASE Reset
  <2>1. UNCHANGED <<file, app>> /\ at' = "main"
    BY <1>27 DEF Reset, Restarted
  <2>2. CASE at # "app"
    BY <1>4, <2>1, <2>2
  <2>3. CASE at = "app"
    <3>1. app # None
      BY <1>3 DEF TypeInv, TypeOK, None, Blank, Partial
    <3> QED
      BY <2>1, <2>3, <3>1 DEF Atomic!Next, Atomic!Stop, TargetBar, RunningBar
  <2> QED
    BY <2>2, <2>3
<1>28. CASE Crash
  <2>1. at # "app" /\ at' # "app" /\ file' = file
    BY <1>28 DEF Crash, Restarted, Stopped, CrashInv
  <2>2. app' = app \/ file["ota"] \in Good
    BY <1>2, <1>28 DEF Crash, CrashInv
  <2> QED
    BY <1>4, <2>1, <2>2
<1>29. CASE UNCHANGED vars
  BY <1>29 DEF vars, TargetBar, RunningBar
<1> QED
  BY <1>10, <1>11, <1>12, <1>13, <1>14, <1>15, <1>16, <1>17, <1>18, <1>19, <1>20, <1>21,
     <1>22, <1>23, <1>24, <1>25, <1>26, <1>27, <1>28, <1>29, <1>30, <1>31, <1>32
  DEF Next, Boot

(* Without I/O failures the boot sequence implements the atomic update: a    *)
(* package takes effect when it is stored, and no power loss inside the      *)
(* check, release, copy and remove calls is visible.                         *)
THEOREM UpdateAtomicCorrect == ASSUME CrashOnly PROVE Spec => UpdateIsAtomic
<1>1. Spec => [](TypeInv /\ CrashInv)
  BY CrashInvariant
<1>2. Spec => []ReleasedInv
  <2>1. Spec => []TypeInv
    BY TypeInit, TypeStep, PTL DEF Spec
  <2> QED
    BY <2>1, ReleasedInit, ReleasedStep, PTL DEF Spec
<1>3. Init => Atomic!Init
  <2> SUFFICES ASSUME Init PROVE TargetBar \in Pkg \cup {None} /\ RunningBar = None
    BY DEF Atomic!Init, TargetBar, RunningBar
  <2> QED
    BY DEF Init, TargetBar, RunningBar, Good
<1>4. TypeInv /\ TypeInv' /\ ReleasedInv /\ CrashInv /\ CrashInv' /\ [Next]_vars
        => [Atomic!Next]_<<TargetBar, RunningBar>>
  BY AtomicStep
<1> QED
  BY <1>1, <1>2, <1>3, <1>4, PTL
  DEF Spec, UpdateIsAtomic, Atomic!Spec, TargetBar, RunningBar

=============================================================================
