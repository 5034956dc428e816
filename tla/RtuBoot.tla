------------------------------- MODULE RtuBoot -------------------------------
(***************************************************************************)
(* The boot sequence of the device, from main() to the jump into the      *)
(* application: mounting the SD card (bsp_sd.c), the firmware checks, the  *)
(* release of a package into the application flash, the renewal of the     *)
(* backup packages and the jump (rtu_boot.c); and the shell command rbl,   *)
(* which uses the same calls once the sequence has ended.                  *)
(*                                                                         *)
(* The SD card holds three package files: the one to install ("ota"), the  *)
(* backup ("back") and the previous one ("last").  What survives a power   *)
(* loss is `file' and `app'; everything else is RAM.  Power may fail       *)
(* between any two steps (Crash), and every SD or flash operation may fail *)
(* (the alternatives guarded by Fault).                                    *)
(***************************************************************************)
EXTENDS Integers

CONSTANTS
  Pkg,       \* packages whose header and body check out (type, hdr_crc, pkg_crc)
  Algo2Crc,  \* those whose algo2 field asks for the app check that is not implemented
  NoPart,    \* those no release can flash: unknown part_name, too large, or empty
  ShellUsed, \* whether the operator types ymodem_ota and rbl in the shell
  Blocks,    \* number of chunks of a package
  MaxFault,  \* bound on SD and flash failures
  MaxCrash   \* bound on power losses during the boot sequence

Absent  == "absent"     \* no such file
Torn    == "torn"       \* a file that fails the header or body check
Blank   == "blank"      \* erased flash: the vector table is not legal
Partial == "partial"    \* legal-looking vectors, but not a whole image
None    == "none"
Failed  == "failed"

Path == {"ota", "back", "last"}

\* Packages the check accepts and a release can flash.
Good == Pkg \ (Algo2Crc \cup NoPart)

ASSUME PkgAssumption ==
  /\ Algo2Crc \subseteq Pkg
  /\ NoPart \subseteq Pkg
  /\ Pkg \cap {Absent, Torn, Blank, Partial, None, Failed} = {}

ASSUME BoundAssumption ==
  /\ ShellUsed \in BOOLEAN
  /\ Blocks \in Nat \ {0}
  /\ MaxFault \in Nat
  /\ MaxCrash \in Nat

VARIABLES
  file,      \* the package files on the SD card
  app,       \* the application area of the on-chip flash
  at,        \* the call the main thread is about to make, or is inside
  ph,        \* the phase of that call
  n,         \* chunks done by that call
  good,      \* how many of them hold the right data
  open,      \* files left open by a call that returned
  released,  \* history: outcome of the last release since reset
  installed, \* history: package of the last successful release of "ota"
  previous,  \* history: the package installed before that one
  faults, crashes

vars == <<file, app, at, ph, n, good, open, released,
          installed, previous, faults, crashes>>
card  == <<file, open>>
call  == <<ph, n, good>>
hist  == <<released, installed, previous>>

Fault   == faults < MaxFault /\ faults' = faults + 1
NoFault == faults' = faults
-----------------------------------------------------------------------------
(* Labels of the sequence and the files each call works on. *)

ReleaseSrc == [relOta |-> "ota", relBack |-> "back", relLast |-> "last",
               rblRelBack |-> "back", rblRelLast |-> "last"]

\* rb_fw_update: the v-branch when the backup is valid, the i-branch otherwise.
CopySrc == [vCopy1 |-> "back", vCopy2 |-> "ota", iCopy1 |-> "ota",  iCopy2 |-> "ota"]
CopyDstLastTwice == [vCopy1 |-> "last", vCopy2 |-> "back", iCopy1 |-> "last", iCopy2 |-> "last"]
CopyDst == [vCopy1 |-> "last", vCopy2 |-> "back", iCopy1 |-> "last", iCopy2 |-> "back"]

Removes ==
  [rmIllegal |-> "ota", rmFailed |-> "ota", rmOta |-> "ota",
   vRm1 |-> "back", vRm2 |-> "back", iRm1 |-> "back", iRm2 |-> "back"]

\* The label that follows a remove or a copy.
After ==
  [rmIllegal |-> "jump", rmFailed |-> "checkBack", rmOta |-> "jump",
   vRm1 |-> "vCopy1", vCopy1 |-> "vRm2", vRm2 |-> "vCopy2", vCopy2 |-> "rmOta",
   iRm1 |-> "iRm2", iRm2 |-> "iCopy1", iCopy1 |-> "iCopy2", iCopy2 |-> "rmOta"]

Stopped == {"app", "shell", "hung"}

Label == DOMAIN ReleaseSrc \cup DOMAIN After \cup Stopped
         \cup {"main", "mount", "format", "key", "checkOta", "checkBack", "checkLast",
               "updCheck", "rblBack", "rblLast", "jump"}

Init ==
  /\ file \in [Path -> {Absent} \cup Pkg]
  /\ file["ota"] = Absent
  /\ app \in {Blank} \cup Pkg
  /\ at = "main" /\ ph = "call" /\ n = 0 /\ good = 0
  /\ open = {}
  /\ released = None /\ installed = None /\ previous = None
  /\ faults = 0 /\ crashes = 0
-----------------------------------------------------------------------------
(* main() and bsp_sd_mount: the card is waited for, and formatted when it    *)
(* does not mount, which is tried again.                                     *)

Formatted == [p \in Path |-> Absent]

FindCard ==
  /\ at = "main"
  /\ \/ NoFault /\ at' = "mount"
     \/ Fault /\ at' = "jump"
  /\ UNCHANGED <<card, app, call, hist, crashes>>

Mount ==
  /\ at = "mount"
  /\ \/ NoFault /\ at' = "key"
     \/ Fault /\ at' = "format"
  /\ UNCHANGED <<card, app, call, hist, crashes>>

Format ==
  /\ at = "format"
  /\ \/ NoFault /\ at' = "mount" /\ file' = Formatted
     \/ Fault /\ at' = "jump" /\ file' \in {file, Formatted}
  /\ UNCHANGED <<app, call, open, hist, crashes>>

\* fal_init and shell_key_check: Enter within three seconds leaves the sequence.
KeyCheckStarts ==
  /\ at = "key"
  /\ at' \in {"jump", "checkOta"}
  /\ UNCHANGED <<card, app, call, hist, faults, crashes>>

KeyCheck ==
  /\ at = "key"
  /\ at' \in {"shell", "checkOta"}
  /\ UNCHANGED <<card, app, call, hist, faults, crashes>>

\* The algo2 field asks for the app check, which is not implemented.
AsksAppCheckNever(f) == FALSE
AsksAppCheck(f) == f \in Algo2Crc

\* What sd_check_firmware_validity returns when every read succeeds.
Verdict(f) == IF f = Absent THEN -1 ELSE IF f \in Pkg /\ ~AsksAppCheck(f) THEN 1 ELSE 0

(* sd_check_firmware_validity(path), called at label l.  A package with the  *)
(* unsupported algo2 check is refused without closing its descriptor; a     *)
(* second open of a file still open yields a descriptor without FIL, and    *)
(* the first read through it trips an assertion.                            *)
Check(l, path, valid, invalid, missing) ==
  /\ at = l
  /\ \/ /\ path \in open
        /\ at' = "hung" /\ NoFault /\ UNCHANGED open
     \/ /\ path \notin open
        /\ NoFault
        /\ at' = CASE Verdict(file[path]) = 1  -> valid
                   [] Verdict(file[path]) = 0  -> invalid
                   [] Verdict(file[path]) = -1 -> missing
        /\ open' = IF AsksAppCheck(file[path]) THEN open \cup {path} ELSE open
     \/ /\ path \notin open
        /\ Fault
        /\ at' \in IF file[path] = Absent THEN {missing} ELSE {invalid, missing}
        /\ UNCHANGED open
  /\ UNCHANGED <<file, app, call, hist, crashes>>

CheckOtaSwapped == Check("checkOta", "ota", "rmIllegal", "relOta", "jump")

CheckOta  == Check("checkOta",  "ota",  "relOta",  "rmIllegal", "jump")
CheckBack == Check("checkBack", "back", "relBack", "checkLast", "checkLast")
CheckLast == Check("checkLast", "last", "relLast", "shell",     "shell")
UpdCheck  == Check("updCheck",  "back", "vRm1",    "iRm1",      "iRm1")

\* remove(path): refused while the file is open, its result is never looked at.
Remove ==
  /\ at \in DOMAIN Removes
  /\ at' = After[at]
  /\ \/ NoFault /\ file' = IF Removes[at] \in open THEN file
                           ELSE [file EXCEPT ![Removes[at]] = Absent]
     \/ Fault /\ UNCHANGED file
  /\ UNCHANGED <<app, call, open, hist, crashes>>
-----------------------------------------------------------------------------
\* The loops over the chunks of a package: while (pos < fw.pkg_size).
MoreChunksOrOne == n <= Blocks
MoreChunks == n < Blocks

(* rb_fw_release: open and read the header, erase, program chunk by chunk    *)
(* with read-back, compare the CRC of what was read back.                    *)

\* The caller's branch on the value rb_fw_release returned.
ReleaseReturn(ok) ==
  /\ at' = CASE at = "relOta"  -> IF ok THEN "updCheck" ELSE "rmFailed"
             [] at = "relBack" -> IF ok THEN "jump" ELSE "checkLast"
             [] OTHER          -> IF ok THEN "jump" ELSE "shell"
  /\ released' = IF ok THEN file[ReleaseSrc[at]] ELSE Failed
  /\ installed' = IF ok /\ at = "relOta" THEN file["ota"] ELSE installed
  /\ previous' = IF installed' # installed THEN installed ELSE previous
  /\ ph' = "call" /\ n' = 0 /\ good' = 0

ReleaseOpen ==
  /\ at \in DOMAIN ReleaseSrc /\ ph = "call"
  /\ LET src == ReleaseSrc[at] IN
     \/ /\ src \in open
        /\ at' = "hung" /\ NoFault /\ UNCHANGED <<app, call, open, hist>>
     \/ /\ src \notin open /\ file[src] \in NoPart
        /\ ReleaseReturn(FALSE) /\ NoFault /\ UNCHANGED <<app, open>>
     \/ /\ src \notin open /\ file[src] \in Pkg \ NoPart
        /\ ph' = "erasing" /\ app' = Partial
        /\ NoFault /\ UNCHANGED <<at, n, good, open, hist>>
     \/ /\ src \notin open       \* open fails, or the header read: the file stays open
        /\ Fault /\ ReleaseReturn(FALSE)
        /\ open' \in {open, open \cup {src}} /\ UNCHANGED app
  /\ UNCHANGED <<file, crashes>>

ReleaseErase ==
  /\ ph = "erasing"
  /\ \/ /\ NoFault
        /\ ph' = "program" /\ app' = Blank /\ UNCHANGED <<at, n, good, hist>>
     \/ /\ Fault
        /\ app' \in {Blank, Partial} /\ ReleaseReturn(FALSE)
  /\ UNCHANGED <<card, crashes>>

ReleaseChunk ==
  /\ ph = "program" /\ MoreChunks
  /\ \/ /\ \/ NoFault /\ good' = good + 1
           \/ Fault /\ good' = good
        /\ n' = n + 1
        /\ app' = IF good' = Blocks THEN file[ReleaseSrc[at]] ELSE Partial
        /\ UNCHANGED <<at, ph, hist>>
     \/ /\ Fault                 \* read, write or read-back fails
        /\ app' \in {app, Partial} /\ ReleaseReturn(FALSE)
  /\ UNCHANGED <<card, crashes>>

ReleaseVerifyNoCrc ==
  /\ ph = "program" /\ n = Blocks
  /\ ReleaseReturn(TRUE)
  /\ UNCHANGED <<card, app, faults, crashes>>

ReleaseVerify ==
  /\ ph = "program" /\ n = Blocks
  /\ ReleaseReturn(good = n)
  /\ UNCHANGED <<card, app, faults, crashes>>
-----------------------------------------------------------------------------
(* copy_file, as rb_fw_update uses it: the result is ignored.  The          *)
(* destination is neither removed nor truncated first.                      *)

CopyReturnAgain == at' = at /\ ph' = "call" /\ n' = 0 /\ good' = 0
CopyReturn == at' = After[at] /\ ph' = "call" /\ n' = 0 /\ good' = 0

CopyOpen ==
  /\ at \in DOMAIN CopySrc /\ ph = "call"
  /\ LET src == CopySrc[at]
         dst == CopyDst[at] IN
     \/ /\ file[src] = Absent
        /\ NoFault /\ CopyReturn /\ UNCHANGED <<file, open>>
     \/ /\ file[src] # Absent /\ {src, dst} \cap open # {}
        /\ NoFault /\ at' = "hung" /\ UNCHANGED <<file, open, call>>
     \/ /\ file[src] # Absent /\ {src, dst} \cap open = {}
        /\ NoFault /\ ph' = "copy"
        /\ file' = IF file[dst] = Absent THEN [file EXCEPT ![dst] = Torn] ELSE file
        /\ UNCHANGED <<at, n, good, open>>
     \/ Fault /\ CopyReturn /\ UNCHANGED <<file, open>>   \* malloc or an open fails
  /\ UNCHANGED <<app, hist, crashes>>

Dst(f) == [file EXCEPT ![CopyDst[at]] = f]

(* The card once part of the destination is overwritten: torn, until it      *)
(* equals the source, which is before the last chunk where the old content   *)
(* agrees with the new one.                                                  *)
Overwritten ==
  IF file[CopyDst[at]] = file[CopySrc[at]] THEN {file}
  ELSE {Dst(Torn), Dst(file[CopySrc[at]])}

CopyChunk ==
  /\ ph = "copy" /\ MoreChunks
  /\ \/ /\ NoFault
        /\ n' = n + 1 /\ good' = good + 1
        /\ file' \in Overwritten /\ UNCHANGED <<at, ph>>
     \/ /\ Fault                 \* a write fails, the retry appends
        /\ n' = n + 1 /\ good' \in {good, good + 1}
        /\ file' = Dst(Torn) /\ UNCHANGED <<at, ph>>
     \/ /\ Fault /\ CopyReturn   \* a read fails, or the third write
        /\ file' \in Overwritten \cup {file, Dst(Torn)}
     \/ /\ Fault /\ at' = "hung" \* card full: reopened while still open
        /\ ph' = "call" /\ n' = 0 /\ good' = 0
        /\ file' \in Overwritten \cup {file}
  /\ UNCHANGED <<app, open, hist, crashes>>

CopyClose ==
  /\ ph = "copy" /\ n = Blocks
  /\ CopyReturn
  /\ \/ /\ NoFault /\ UNCHANGED open
        /\ file' = Dst(IF good = n THEN file[CopySrc[at]] ELSE Torn)
     \/ /\ Fault                 \* the directory entry is not written, the file may stay open
        /\ open' \in {open, open \cup {CopyDst[at]}}
        /\ file' \in {Dst(Torn), Dst(IF good = n THEN file[CopySrc[at]] ELSE Torn)}
  /\ UNCHANGED <<app, hist, crashes>>
-----------------------------------------------------------------------------
\* rb_jump_to_app: only the vector table is looked at.
Jump ==
  /\ at = "jump"
  /\ at' = IF app = Blank THEN "shell" ELSE "app"
  /\ UNCHANGED <<card, app, call, hist, faults, crashes>>

-----------------------------------------------------------------------------
(* The shell command rbl.  It runs when the boot sequence has ended.         *)

\* rbl jump: the operator answers for what is in the flash.
RblJump ==
  /\ ShellUsed /\ at = "shell"
  /\ at' = "jump" /\ released' = None
  /\ UNCHANGED <<card, app, call, installed, previous, faults, crashes>>

\* rbl back and rbl last: check, release and jump.
Rbl ==
  /\ ShellUsed /\ at = "shell"
  /\ at' \in {"rblBack", "rblLast"}
  /\ UNCHANGED <<card, app, call, hist, faults, crashes>>

RblCheckBack == Check("rblBack", "back", "rblRelBack", "shell", "shell")
RblCheckLast == Check("rblLast", "last", "rblRelLast", "shell", "shell")
-----------------------------------------------------------------------------
Restarted ==
  /\ at' = "main" /\ ph' = "call" /\ n' = 0 /\ good' = 0
  /\ open' = {} /\ released' = None
  /\ UNCHANGED <<installed, previous>>

(* The running application stores a package to install, whole or torn, and  *)
(* resets the device.                                                        *)
AppDeliver ==
  /\ at = "app" /\ app \in Pkg
  /\ \E f \in Pkg \cup {Torn} : file' = [file EXCEPT !["ota"] = f]
  /\ Restarted
  /\ UNCHANGED <<app, faults, crashes>>

(* The shell command ymodem_ota: the old package is deleted first; a whole  *)
(* transfer resets the device, a failed one leaves no file.                  *)
YmodemOta ==
  /\ ShellUsed
  /\ at = "shell"
  /\ \/ /\ "ota" \in open
        /\ at' \in {"hung", "shell"} /\ UNCHANGED <<card, call, hist>>
     \/ /\ "ota" \notin open
        /\ \E f \in Pkg \cup {Torn} : file' = [file EXCEPT !["ota"] = f]
        /\ Restarted
     \/ /\ "ota" \notin open
        /\ file' = [file EXCEPT !["ota"] = Absent]
        /\ UNCHANGED <<at, open, call, hist>>
  /\ UNCHANGED <<app, faults, crashes>>

\* Power cycle or reset of a device that has left the boot sequence.
Reset ==
  /\ at \in Stopped
  /\ Restarted
  /\ UNCHANGED <<file, app, faults, crashes>>

(* Power loss inside the sequence or rbl: a chunk being programmed is left   *)
(* half done, a card being formatted is lost.                                *)
Crash ==
  /\ at \notin Stopped
  /\ crashes < MaxCrash /\ crashes' = crashes + 1
  /\ Restarted
  /\ app' \in IF ph = "program" /\ n < Blocks THEN {app, Partial} ELSE {app}
  /\ file' \in IF at = "format" THEN {file, Formatted} ELSE {file}
  /\ UNCHANGED faults

\* The steps of the main thread, and those of the shell's in rbl.
Boot ==
  \/ FindCard \/ Mount \/ Format \/ KeyCheck
  \/ CheckOta \/ CheckBack \/ CheckLast \/ UpdCheck
  \/ RblCheckBack \/ RblCheckLast
  \/ Remove
  \/ ReleaseOpen \/ ReleaseErase \/ ReleaseChunk \/ ReleaseVerify
  \/ CopyOpen \/ CopyChunk \/ CopyClose
  \/ Jump

Next == Boot \/ AppDeliver \/ RblJump \/ Rbl \/ YmodemOta \/ Reset \/ Crash

Spec == Init /\ [][Next]_vars

\* Every call returns: SD and flash operations time out.
FairSpec == Spec /\ WF_vars(Boot)
-----------------------------------------------------------------------------
(* Every variable keeps to its range. *)
TypeOK ==
  /\ file \in [Path -> Pkg \cup {Absent, Torn}]
  /\ app \in Pkg \cup {Blank, Partial}
  /\ at \in Label
  /\ ph \in {"call", "erasing", "program", "copy"}
  /\ n \in 0..Blocks
  /\ good \in 0..n
  /\ open \subseteq Path
  /\ released \in Pkg \cup {None, Failed}
  /\ installed \in Pkg \cup {None}
  /\ previous \in Pkg \cup {None}
  /\ faults \in 0..MaxFault
  /\ crashes \in 0..MaxCrash

(* A boot that wrote the application flash jumps only into the whole image   *)
(* of the package it released last: whatever SD read, erase, write or        *)
(* read-back failed on the way, a half-written image is never started by the *)
(* boot that half wrote it, nor by rbl back and rbl last, unless the         *)
(* operator types rbl jump (rb_fw_release's read-back CRC and the branches   *)
(* of rtu_boot_startup and rbl).                                             *)
JumpsToReleased ==
  /\ released = Failed => at \notin {"jump", "app"}
  /\ released \in Pkg /\ at \in {"jump", "app"} => app = released

(* With no I/O failure, the device only ever starts a whole image, however   *)
(* often power fails and wherever it fails in the sequence.                  *)
StartsWholeImage == at = "app" => app \in Pkg

(* With no I/O failure, an application area that is not a whole image is     *)
(* always covered by an installable package on the card: no power loss       *)
(* leaves the device without firmware.                                       *)
Recoverable == app = Partial \/ ph \in {"erasing", "program"} => file["ota"] \in Good

(* With no I/O failure, once an update has been installed and the device     *)
(* runs it, the backup is that same package (rb_fw_update before the remove  *)
(* of the OTA package).                                                      *)
BackupIsRunning == at = "app" /\ installed = app => file["back"] = app

(* The backup files are never renewed with a package the next check would    *)
(* refuse for its algo2 field, even after I/O failures.                      *)
BackupsUsable ==
  [][\A p \in {"back", "last"} : file'[p] \in Algo2Crc => file'[p] = file[p]]_vars

(* With no I/O failure the boot sequence deletes a package that could be     *)
(* installed only after the flash holds it.                                  *)
OtaKeptUntilInstalled ==
  [][(at \notin Stopped /\ file["ota"] \in Good /\ file'["ota"] # file["ota"])
       => app = file["ota"]]_vars

(* With no I/O failure and finitely many power losses, a boot that finds an  *)
(* installable package ends in that package running, unless Enter takes the  *)
(* user to the shell, the package being in the flash or still on the card.   *)
(* (A backup with the unsupported algo2 stops every such boot: its check in  *)
(* rb_fw_update leaves it open, and the copy to it trips an assertion.)      *)
UpdateCompletes ==
  \A p \in Good :
    (at = "main" /\ file["ota"] = p /\ file["back"] \notin Algo2Crc)
      ~> \/ at = "app" /\ app = p
         \/ at = "shell" /\ p \in {app, file["ota"]}

(* The boot sequence and the command rbl always end, failures or not: a card *)
(* that stops failing is not formatted for ever, and no file a refused check *)
(* left open makes a later call wait.                                        *)
BootEnds == at \notin Stopped ~> at \in Stopped

(* With no I/O failure an update is atomic: the firmware the next start runs *)
(* is the package delivered last that can be installed, or else the image in *)
(* the flash, and no step in between is visible.                             *)
Atomic == INSTANCE AtomicUpdate WITH
  Image <- Pkg, Installable <- Good, NoImage <- None,
  target <- IF file["ota"] \in Good THEN file["ota"]
            ELSE IF app \in Pkg THEN app ELSE None,
  running <- IF at = "app" THEN app ELSE None

UpdateIsAtomic == Atomic!Spec
-----------------------------------------------------------------------------
(* What the comments of the code say and the code does not do.              *)

(* boot_config.h: last.rbl is the package of the previous version. *)
LastIsPrevious ==
  at = "app" /\ installed = app /\ previous \in Pkg => file["last"] = previous

(* rtu_boot_startup: a package that is not legal is deleted. *)
IllegalIsDeleted ==
  [][at = "rmIllegal" /\ at' = "jump" => file'["ota"] = Absent]_vars
=============================================================================
