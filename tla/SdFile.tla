------------------------------- MODULE SdFile -------------------------------
(***************************************************************************)
(* Files on the SD card: the helpers of bsp_sd.c (file_open, file_read,    *)
(* file_write, file_close, copy_file and the shell commands copy and       *)
(* file_contrast) over the vnode and descriptor tables of DFS and the FIL  *)
(* objects of FatFs.                                                       *)
(*                                                                         *)
(* One command runs at a time; what a command leaves behind (descriptors,  *)
(* vnodes, half written files) meets the next one.  A file is a sequence   *)
(* of chunks of the size copy_file reads and writes.                       *)
(***************************************************************************)
EXTENDS Integers, Sequences, FiniteSets

CONSTANTS
  Path, Chunk,
  Card,      \* the cards the system starts with: functions from some paths to contents
  FreeRoom,  \* chunks that are free on them
  MaxFd,     \* size of the descriptor table
  Command,   \* commands the user may type: [op |-> ..., a |-> path, b |-> path]
  FailIn,    \* calls that may fail: a subset of {"open", "read", "write", "close"}
  Tears,     \* whether a failed write may leave part of the chunk
  MaxFault,  \* bound on failures
  MaxCrash   \* bound on power losses while a command runs

None  == "none"
Torn  == "torn"    \* a chunk partly overwritten
Eof   == "eof"
Err   == "error"
Closed == -1
ReadTries  == 6    \* ERROR_TYR_NUM
WriteTries == 3

ASSUME SdFileAssumption ==
  /\ \A c \in Card : DOMAIN c \subseteq Path /\ c \in [DOMAIN c -> Seq(Chunk)]
  /\ \A c \in Command : c.op \in {"copy", "contrast", "rm"} /\ {c.a, c.b} \subseteq Path
  /\ Chunk \cap {None, Torn, Eof, Err} = {}
  /\ FailIn \subseteq {"open", "read", "write", "close"}
  /\ FreeRoom \in Nat /\ MaxFd \in Nat /\ MaxFault \in Nat /\ MaxCrash \in Nat /\ Tears \in BOOLEAN

VARIABLES
  disk,    \* contents of the files that exist, as the FIL objects see them
  room,    \* free chunks
  vnode,   \* reference counts of the vnodes in the hash table
  desc,    \* the descriptor table
  cmd, pc, \* the command that runs and its next call
  fd,      \* its two descriptors
  buf,     \* what it last read through each
  rtry,    \* attempts file_read has left
  wtry,    \* try_num of copy_file
  ret,     \* what the command returned: "ok" is 0, "fail" is -1
  fresh,   \* history: copy_file started with no destination
  failed,  \* history: calls of this command that failed for good
  lost,    \* history: descriptors that are open and that no command will close
  faults, crashes

vars == <<disk, room, vnode, desc, cmd, pc, fd, buf, rtry, wtry, ret, fresh, failed, lost, faults, crashes>>
tables == <<vnode, desc, lost>>
files  == <<disk, room>>
hist   == <<fresh, failed, crashes>>

Fault(call) == call \in FailIn /\ faults < MaxFault /\ faults' = faults + 1
NoFault == faults' = faults

NoCommand == [op |-> None, a |-> None, b |-> None]
NoFds == [src |-> Closed, dst |-> Closed]
NoData == [src |-> None, dst |-> None]

Init ==
  /\ disk \in Card /\ room = FreeRoom
  /\ vnode = << >> /\ desc = << >>
  /\ cmd = NoCommand /\ pc = "idle" /\ fd = NoFds /\ buf = NoData
  /\ rtry = ReadTries /\ wtry = WriteTries /\ ret = None
  /\ fresh = FALSE /\ failed = {} /\ lost = {}
  /\ faults = 0 /\ crashes = 0
-----------------------------------------------------------------------------
(* DFS and FatFs. *)

Without(f, x) == [y \in DOMAIN f \ {x} |-> f[y]]
With(f, x, e) == [y \in DOMAIN f \cup {x} |-> IF y = x THEN e ELSE f[y]]

FreeFds == (0 .. MaxFd - 1) \ DOMAIN desc

\* A file that is already open gets a descriptor, but no FIL object.
FilAlways(p) == TRUE
NewFil(p) == p \notin DOMAIN vnode

AppendPastEnd(p, append) == IF append THEN Len(disk[p]) + 1 ELSE 0
AppendAtStart(p, append) == 0
OpenAt(p, append) == IF append /\ NewFil(p) THEN Len(disk[p]) ELSE 0

\* file_open begins with *fd = -1, whatever it held.
Overwrites(x) == lost' = lost \cup ({fd[x]} \ {Closed})

\* open(p), its result in fd[x]: create is O_CREAT, append is O_APPEND.  A file it
\* creates counts as changed.
OpenOk(x, p, create, append) ==
  /\ FreeFds # {}
  /\ p \in DOMAIN disk \/ create
  /\ disk' = IF p \in DOMAIN disk THEN disk ELSE With(disk, p, << >>)
  /\ LET k == CHOOSE k \in FreeFds : \A j \in FreeFds : k <= j IN
     /\ vnode' = With(vnode, p, IF NewFil(p) THEN 1 ELSE vnode[p] + 1)
     /\ desc' = With(desc, k, [path |-> p, fil |-> NewFil(p),
                               pos |-> IF p \in DOMAIN disk THEN OpenAt(p, append) ELSE 0,
                               entry |-> Len(disk'[p]), mod |-> p \notin DOMAIN disk, err |-> FALSE])
     /\ fd' = [fd EXCEPT ![x] = k]
  /\ Overwrites(x)
  /\ UNCHANGED room

OpenFails(x, p, create) ==
  /\ IF FreeFds = {} \/ (p \notin DOMAIN disk /\ ~create) THEN NoFault ELSE Fault("open")
  /\ fd' = [fd EXCEPT ![x] = Closed]
  /\ Overwrites(x)
  /\ UNCHANGED <<files, vnode, desc>>

\* The directory entry of a file whose FIL object is lost without f_sync.
Stale(d) == [disk EXCEPT ![d.path] = SubSeq(@, 1, IF Len(@) < d.entry THEN Len(@) ELSE d.entry)]

\* fd_release and the end of dfs_file_close.
ReleaseKeepsVnode(k) == desc' = Without(desc, k) /\ lost' = lost \ {k} /\ UNCHANGED vnode
Release(k) ==
  LET p == desc[k].path IN
  /\ desc' = Without(desc, k) /\ lost' = lost \ {k}
  /\ vnode' = IF vnode[p] = 1 THEN Without(vnode, p) ELSE [vnode EXCEPT ![p] = @ - 1]

(* file_close(&fd[x]).  The close of a file others have open too does not    *)
(* reach FatFs, the FIL object it may hold is lost.  A failure is a card     *)
(* that refuses the directory entry: all six attempts fail, or the second    *)
(* returns without writing it, f_sync having forgotten the change.           *)
CloseTo(x, next) ==
  \/ /\ fd[x] = Closed
     /\ pc' = next /\ NoFault /\ UNCHANGED <<disk, tables, fd, failed>>
  \/ /\ fd[x] # Closed
     /\ LET d == desc[fd[x]] IN
        \/ /\ vnode[d.path] > 1
           /\ disk' = IF d.fil THEN Stale(d) ELSE disk
           /\ Release(fd[x]) /\ fd' = [fd EXCEPT ![x] = Closed]
           /\ pc' = next /\ NoFault /\ UNCHANGED failed
        \/ /\ vnode[d.path] = 1 /\ ~d.fil      \* RT_ASSERT(fd != RT_NULL)
           /\ pc' = "hung" /\ NoFault /\ UNCHANGED <<disk, tables, fd, failed>>
        \/ /\ vnode[d.path] = 1 /\ d.fil
           /\ disk' = IF d.mod THEN disk ELSE Stale(d)
           /\ Release(fd[x]) /\ fd' = [fd EXCEPT ![x] = Closed]
           /\ pc' = next /\ NoFault /\ UNCHANGED failed
        \/ /\ vnode[d.path] = 1 /\ d.fil /\ d.mod /\ Fault("close")
           /\ \/ lost' = lost \cup {fd[x]} /\ UNCHANGED <<disk, vnode, desc, fd>>
              \/ /\ disk' = Stale(d) /\ Release(fd[x])
                 /\ fd' = [fd EXCEPT ![x] = Closed]
           /\ pc' = next /\ failed' = failed \cup {"close"}

NextTryUncounted == UNCHANGED rtry
NextTry == rtry' = rtry - 1

(* One attempt of file_read(&fd[x]), next being where its caller goes on and *)
(* close the file_close it ends with when its attempts are used up.  FatFs   *)
(* keeps the error in the FIL object.                                        *)
ReadOnce(x, next, close) ==
  \/ /\ fd[x] = Closed
     /\ buf' = [buf EXCEPT ![x] = Err] /\ pc' = next
     /\ NoFault /\ UNCHANGED <<desc, rtry, failed>>
  \/ /\ fd[x] # Closed /\ ~desc[fd[x]].fil      \* RT_ASSERT(fd != RT_NULL)
     /\ pc' = "hung" /\ NoFault /\ UNCHANGED <<desc, buf, rtry, failed>>
  \/ /\ fd[x] # Closed /\ desc[fd[x]].fil
     /\ LET d == desc[fd[x]] IN
        \/ /\ ~d.err /\ NoFault
           /\ IF d.pos < Len(disk[d.path])
              THEN /\ buf' = [buf EXCEPT ![x] = disk[d.path][d.pos + 1]]
                   /\ desc' = [desc EXCEPT ![fd[x]].pos = @ + 1]
              ELSE /\ buf' = [buf EXCEPT ![x] = Eof]
                   /\ UNCHANGED desc
           /\ pc' = next /\ rtry' = ReadTries /\ UNCHANGED failed
        \/ /\ IF d.err THEN NoFault ELSE d.pos < Len(disk[d.path]) /\ Fault("read")
           /\ desc' = [desc EXCEPT ![fd[x]].err = TRUE]
           /\ IF rtry > 1
              THEN NextTry /\ UNCHANGED <<pc, buf, failed>>
              ELSE /\ rtry' = ReadTries /\ pc' = close
                   /\ buf' = [buf EXCEPT ![x] = Err]
                   /\ failed' = failed \cup {"read"}

(* f_write of one chunk through descriptor k. *)
Growing(k) == desc[k].pos = Len(disk[desc[k].path])

Placed(k, c) ==
  /\ disk' = [disk EXCEPT ![desc[k].path] =
                IF Growing(k) THEN Append(@, c) ELSE [@ EXCEPT ![desc[k].pos + 1] = c]]
  /\ room' = IF Growing(k) THEN room - 1 ELSE room

Fits(k) == Growing(k) => room > 0
-----------------------------------------------------------------------------
(* The commands. *)

Start ==
  /\ pc = "idle"
  /\ \E c \in Command :
     /\ cmd' = c
     /\ pc' = CASE c.op = "copy" -> "openSrc" [] c.op = "contrast" -> "openA" [] c.op = "rm" -> "rm"
     /\ fresh' = (c.b \notin DOMAIN disk)
  /\ fd' = NoFds /\ buf' = NoData
  /\ wtry' = WriteTries /\ ret' = None /\ failed' = {}
  /\ UNCHANGED <<files, tables, rtry, faults, crashes>>

Return(r) == pc' = "idle" /\ ret' = r

(* copy_file *)
CopyOpenSrc ==
  /\ pc = "openSrc"
  /\ \/ OpenOk("src", cmd.a, FALSE, FALSE) /\ NoFault /\ pc' = "openDst" /\ UNCHANGED ret
     \/ OpenFails("src", cmd.a, FALSE) /\ Return("fail")
  /\ UNCHANGED <<cmd, buf, rtry, wtry, hist>>

CopyOpenDstForgets ==
  /\ pc = "openDst"
  /\ \/ OpenOk("dst", cmd.b, TRUE, FALSE) /\ NoFault /\ pc' = "read" /\ UNCHANGED ret
     \/ OpenFails("dst", cmd.b, TRUE) /\ Return("fail")
  /\ UNCHANGED <<cmd, buf, rtry, wtry, hist>>

CopyOpenDst ==
  /\ pc = "openDst"
  /\ \/ OpenOk("dst", cmd.b, TRUE, FALSE) /\ NoFault /\ pc' = "read"
     \/ OpenFails("dst", cmd.b, TRUE) /\ pc' = "failClose"
  /\ UNCHANGED <<cmd, buf, rtry, wtry, ret, hist>>

CopyRead ==
  /\ pc = "read"
  /\ ReadOnce("src", "readDone", "readClose")
  /\ UNCHANGED <<files, vnode, lost, cmd, fd, wtry, ret, fresh, crashes>>

\* The loop ends at the end of the file and on a failed read alike.
CopyReadDone ==
  /\ pc = "readDone"
  /\ pc' = CASE buf.src = Eof -> "closeSrc" [] buf.src = Err -> "closeDst" [] OTHER -> "write"
  /\ UNCHANGED <<files, tables, cmd, fd, buf, rtry, wtry, ret, hist, faults>>

\* bytes_written != bytes_read
WriteRefused == wtry' = wtry - 1 /\ pc' = IF wtry > 1 THEN "reopen" ELSE "failClose"

CopyWrite ==
  /\ pc = "write"
  /\ \/ /\ fd.dst = Closed
        /\ WriteRefused /\ NoFault /\ UNCHANGED <<files, desc, lost, failed>>
     \/ /\ fd.dst # Closed /\ ~desc[fd.dst].fil    \* RT_ASSERT(fd != RT_NULL)
        /\ pc' = "hung" /\ NoFault /\ UNCHANGED <<files, desc, lost, wtry, failed>>
     \/ /\ fd.dst # Closed /\ desc[fd.dst].fil
        /\ \/ /\ Fits(fd.dst) /\ NoFault
              /\ Placed(fd.dst, buf.src)
              /\ desc' = [desc EXCEPT ![fd.dst].pos = @ + 1, ![fd.dst].mod = TRUE]
              /\ pc' = "read" /\ wtry' = WriteTries /\ UNCHANGED <<lost, failed>>
           \/ /\ ~Fits(fd.dst) /\ NoFault         \* card full: a short count, dst stays open
              /\ lost' = IF wtry > 1 THEN lost ELSE lost \cup {fd.dst}
              /\ desc' = [desc EXCEPT ![fd.dst].mod = TRUE]
              /\ WriteRefused /\ UNCHANGED <<files, failed>>
           \/ /\ Fits(fd.dst) /\ Fault("write")
              /\ \/ UNCHANGED <<files, failed>>
                 \/ Tears /\ Placed(fd.dst, Torn) /\ failed' = failed \cup {"torn"}
              /\ desc' = [desc EXCEPT ![fd.dst].err = TRUE]
              /\ pc' = "writeClose" /\ UNCHANGED <<lost, wtry>>
  /\ UNCHANGED <<vnode, cmd, fd, buf, rtry, ret, fresh, crashes>>

\* file_write closes a file it could not write to.
CopyWriteClose ==
  /\ pc = "writeClose"
  /\ CloseTo("dst", IF wtry > 1 THEN "reopen" ELSE "failClose")
  /\ wtry' = wtry - 1
  /\ UNCHANGED <<room, cmd, buf, rtry, ret, fresh, crashes>>

ReopenAtStart ==
  /\ pc = "reopen" /\ pc' = "write"
  /\ \/ OpenOk("dst", cmd.b, FALSE, FALSE) /\ NoFault
     \/ OpenFails("dst", cmd.b, FALSE)
  /\ UNCHANGED <<cmd, buf, rtry, wtry, ret, hist>>

CopyReopen ==
  /\ pc = "reopen" /\ pc' = "write"
  /\ \/ OpenOk("dst", cmd.b, FALSE, TRUE) /\ NoFault
     \/ OpenFails("dst", cmd.b, FALSE)
  /\ UNCHANGED <<cmd, buf, rtry, wtry, ret, hist>>

CopyCloseSrc ==
  /\ pc \in {"readClose", "closeSrc"}
  /\ CloseTo("src", "closeDst")
  /\ UNCHANGED <<room, cmd, buf, rtry, wtry, ret, fresh, crashes>>

CopyCloseDst ==
  /\ pc = "closeDst"
  /\ CloseTo("dst", "idle")
  /\ ret' = IF pc' = "idle" THEN "ok" ELSE ret
  /\ UNCHANGED <<room, cmd, buf, rtry, wtry, fresh, crashes>>

CopyFail ==
  /\ pc = "failClose"
  /\ CloseTo("src", "idle")
  /\ ret' = IF pc' = "idle" THEN "fail" ELSE ret
  /\ UNCHANGED <<room, cmd, buf, rtry, wtry, fresh, crashes>>

(* file_contrast: fd.src is fd[0], fd.dst is fd[1]. *)
ContrastOpen ==
  /\ \/ /\ pc = "openA" /\ pc' = "openB"
        /\ (OpenOk("src", cmd.a, FALSE, FALSE) /\ NoFault) \/ OpenFails("src", cmd.a, FALSE)
     \/ /\ pc = "openB" /\ pc' = "readA"
        /\ (OpenOk("dst", cmd.b, FALSE, FALSE) /\ NoFault) \/ OpenFails("dst", cmd.b, FALSE)
  /\ UNCHANGED <<cmd, buf, rtry, wtry, ret, hist>>

ContrastRead ==
  /\ \/ pc = "readA" /\ ReadOnce("src", "readB", "readCloseA")
     \/ pc = "readB" /\ ReadOnce("dst", "compare", "readCloseB")
  /\ UNCHANGED <<files, vnode, lost, cmd, fd, wtry, ret, fresh, crashes>>

ContrastNoLength ==
  /\ pc = "compare"
  /\ \/ Eof \notin {buf.src, buf.dst} /\ buf.src # buf.dst /\ pc' = "closeA" /\ ret' = "differ"
     \/ Eof \in {buf.src, buf.dst} /\ pc' = "closeA" /\ ret' = "same"
     \/ buf.src = buf.dst /\ buf.src # Eof /\ pc' = "readA" /\ UNCHANGED ret
  /\ UNCHANGED <<files, tables, cmd, fd, buf, rtry, wtry, hist, faults>>

(* Two failed reads are a comparison of -1 bytes: it runs past the buffers   *)
(* until it meets a difference or leaves the memory.                         *)
Contrast ==
  /\ pc = "compare"
  /\ \/ /\ buf.src = Err /\ buf.dst = Err
        /\ \/ pc' = "hung" /\ UNCHANGED ret
           \/ pc' = "closeA" /\ ret' = "differ"
     \/ /\ {buf.src, buf.dst} # {Err}
        /\ \/ buf.src # buf.dst /\ pc' = "closeA" /\ ret' = "differ"
           \/ buf.src = buf.dst /\ buf.src = Eof /\ pc' = "closeA" /\ ret' = "same"
           \/ buf.src = buf.dst /\ buf.src # Eof /\ pc' = "readA" /\ UNCHANGED ret
  /\ UNCHANGED <<files, tables, cmd, fd, buf, rtry, wtry, hist, faults>>

ContrastClose ==
  /\ \/ pc = "readCloseA" /\ CloseTo("src", "readB")
     \/ pc = "readCloseB" /\ CloseTo("dst", "compare")
     \/ pc = "closeA" /\ CloseTo("src", "closeB")
     \/ pc = "closeB" /\ CloseTo("dst", "idle")
  /\ UNCHANGED <<room, cmd, buf, rtry, wtry, ret, fresh, crashes>>

(* remove: dfs_file_unlink refuses a path that has a vnode. *)
Remove ==
  /\ pc = "rm"
  /\ IF cmd.a \in DOMAIN disk \ DOMAIN vnode
     THEN /\ disk' = Without(disk, cmd.a) /\ room' = room + Len(disk[cmd.a])
          /\ Return("ok")
     ELSE Return("fail") /\ UNCHANGED files
  /\ UNCHANGED <<tables, cmd, fd, buf, rtry, wtry, hist, faults>>

\* Reset or power loss: what FatFs has not put into the directory is lost.
Reset ==
  /\ \/ pc \in {"idle", "hung"} /\ UNCHANGED crashes
     \/ pc \notin {"idle", "hung"} /\ crashes < MaxCrash /\ crashes' = crashes + 1
  /\ disk' = [p \in DOMAIN disk |->
       IF \E k \in DOMAIN desc : desc[k].path = p /\ desc[k].fil
       THEN Stale(CHOOSE d \in {desc[k] : k \in DOMAIN desc} : d.path = p /\ d.fil)[p]
       ELSE disk[p]]
  /\ vnode' = << >> /\ desc' = << >> /\ lost' = {}
  /\ cmd' = NoCommand /\ pc' = "idle" /\ fd' = NoFds /\ buf' = NoData
  /\ rtry' = ReadTries /\ wtry' = WriteTries /\ ret' = None
  /\ fresh' = FALSE /\ failed' = {}
  /\ UNCHANGED <<room, faults>>

Step ==
  \/ CopyOpenSrc \/ CopyOpenDst \/ CopyRead \/ CopyReadDone \/ CopyWrite
  \/ CopyWriteClose \/ CopyReopen \/ CopyCloseSrc \/ CopyCloseDst \/ CopyFail
  \/ ContrastOpen \/ ContrastRead \/ Contrast \/ ContrastClose
  \/ Remove

Next == Start \/ Step \/ Reset

Spec == Init /\ [][Next]_vars

\* The shell runs a command to its end: every call of DFS returns.
FairSpec == Spec /\ WF_vars(Step)
-----------------------------------------------------------------------------
Calls == {"idle", "hung", "openSrc", "openDst", "read", "readDone", "readClose", "write",
          "writeClose", "reopen", "closeSrc", "closeDst", "failClose", "openA", "openB",
          "readA", "readB", "readCloseA", "readCloseB", "compare", "closeA", "closeB", "rm"}

(* Every variable keeps to its range, the two descriptors of a command that  *)
(* runs are open or -1, and no offset is past the end of its file.           *)
TypeOK ==
  /\ DOMAIN disk \subseteq Path
  /\ \A p \in DOMAIN disk : disk[p] \in Seq(Chunk \cup {Torn})
  /\ room \in Nat
  /\ DOMAIN desc \subseteq 0 .. MaxFd - 1 /\ lost \subseteq DOMAIN desc
  /\ \A k \in DOMAIN desc :
       /\ desc[k].path \in DOMAIN disk
       /\ desc[k].pos \in 0 .. Len(disk[desc[k].path])
       /\ desc[k].entry \in Nat
  /\ pc \in Calls
  /\ pc # "idle" => {fd.src, fd.dst} \subseteq DOMAIN desc \cup {Closed}
  /\ {buf.src, buf.dst} \subseteq Chunk \cup {Torn, None, Eof, Err}
  /\ rtry \in 1..ReadTries /\ wtry \in 0..WriteTries
  /\ ret \in {None, "ok", "fail", "same", "differ"}
  /\ faults \in 0..MaxFault /\ crashes \in 0..MaxCrash

(* A vnode counts the descriptors on its path, and at most one of them holds *)
(* a FIL object: FatFs is built without file locks and never has one file    *)
(* open twice, whatever copy_file reopens (dfs_file_open, dfs_elm_open).     *)
On(p) == {k \in DOMAIN desc : desc[k].path = p}
VnodesCount ==
  /\ DOMAIN vnode = {desc[k].path : k \in DOMAIN desc}
  /\ \A p \in DOMAIN vnode :
       /\ vnode[p] = Cardinality(On(p))
       /\ Cardinality({k \in On(p) : desc[k].fil}) <= 1

(* A command that ends has closed every descriptor it opened, on every error *)
(* path, but for those whose close the card refused and, on a full card, the *)
(* destination of copy_file: a reopen writes over its descriptor, and the    *)
(* last attempt leaves it open.                                              *)
DescriptorsReturned == pc = "idle" => DOMAIN desc = lost

(* A copy to a path that did not exist is exact when copy_file returns 0 and *)
(* no read or close failed for good and no failed write left something: the  *)
(* reopen with O_APPEND resumes where it stopped.  A read that failed is     *)
(* taken for the end of the file: it may cost the rest, never more.          *)
FreshCopy == pc = "idle" /\ ret = "ok" /\ cmd.op = "copy" /\ fresh
FreshCopyExact ==
  /\ FreshCopy /\ failed = {} => disk[cmd.b] = disk[cmd.a]
  /\ FreshCopy /\ failed = {"read"} =>
       disk[cmd.b] \in {SubSeq(disk[cmd.a], 1, k) : k \in 0 .. Len(disk[cmd.a])}

(* file_contrast reports equal contents only for equal files, whatever reads *)
(* and opens fail.                                                           *)
ContrastSound == ret = "same" => disk[cmd.a] = disk[cmd.b]

(* Every command ends, at worst in the assertion handler.                    *)
CommandEnds == pc # "idle" ~> pc \in {"idle", "hung"}
-----------------------------------------------------------------------------
(* What the code says of itself and does not do.                             *)

(* dfs_elm_read, dfs_elm_write and dfs_elm_close assert that the descriptor  *)
(* has a FIL object.                                                         *)
AssertionsHold == pc # "hung"
=============================================================================
