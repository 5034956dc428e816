----------------------------- MODULE DfsThreads -----------------------------
(***************************************************************************)
(* open, close and unlink called by threads that run beside each other:    *)
(* the main thread in the boot sequence and the thread of the shell, whose *)
(* commands work on the same card (dfs_posix.c, dfs.c, dfs_file.c,         *)
(* dfs_elm.c).                                                             *)
(*                                                                         *)
(* Descriptors are guarded by the fd lock, the table of open files (vnodes) *)
(* by the fm lock, and the count of a vnode by neither: open() counts up   *)
(* under the fm lock, fd_release() counts down under the fd lock, and each *)
(* is a load and a store.  open() of a file that is open already leaves    *)
(* the fm lock before it looks at the count again, twice; close() looks at  *)
(* it four times.  What goes wrong then is part of the model; the           *)
(* properties say how far it can reach.                                     *)
(***************************************************************************)
EXTENDS Integers, FiniteSets

CONSTANTS
  Thread, Path,
  MaxFd,     \* DFS_FD_MAX
  MaxCalls   \* bound on the calls of open, close and unlink

ASSUME BoundAssumption == MaxFd \in Nat \ {0} /\ MaxCalls \in Nat /\ Path # {}

VARIABLES
  at,        \* what each thread is about to do in its call
  path, slot,\* the file and the descriptor of the call
  reg,       \* the count it has loaded
  fds,       \* the descriptor table
  vnodes,    \* the files in the hash table
  ref,       \* their ref_count
  fmLock, fdLock, \* owners of the two mutexes
  hold,      \* the descriptors each caller has got and not closed
  calls,     \* calls so far
  shared,    \* history: files two threads have used at the same time
  raced,     \* history: files of which two opens or closes have overlapped
  after      \* history: descriptors opened on the file of an unlink since its test

vars == <<at, path, slot, reg, fds, vnodes, ref, fmLock, fdLock, hold, calls, shared, raced, after>>
hist  == <<calls, shared, raced>>
table == <<vnodes, ref>>

Slot == 0..MaxFd-1
Nobody == "nobody"
ASSUME NobodyAssumption == Nobody \notin Thread

\* node: slot free, no vnode, one found but not counted, one in the hash, or freed memory.
FreeFd == [path |-> CHOOSE p \in Path : TRUE, node |-> "free", fil |-> FALSE]

On(p) == {s \in Slot : fds[s].node = "live" /\ fds[s].path = p}

Init ==
  /\ at = [t \in Thread |-> "idle"]
  /\ path = [t \in Thread |-> FreeFd.path] /\ slot = [t \in Thread |-> 0]
  /\ reg = [t \in Thread |-> 0]
  /\ fds = [s \in Slot |-> FreeFd]
  /\ vnodes = {} /\ ref = [p \in Path |-> 0]
  /\ fmLock = Nobody /\ fdLock = Nobody
  /\ hold = [t \in Thread |-> {}]
  /\ calls = 0 /\ shared = {} /\ raced = {} /\ after = [t \in Thread |-> {}]

Go(t, l) == at' = [at EXCEPT ![t] = l]

\* rt_mutex_release refuses a thread that is not the owner: dfs_file_open's second unlock.
Unlock(lock, t) == IF lock = t THEN Nobody ELSE lock

\* A thread that uses freed memory may do anything: the model ends there.
Wild == \E t \in Thread : at[t] = "wild"
Dangling(t) == fds[slot[t]].node = "freed"

\* t is in an open or a close of p.
InCall(t, p) == at[t] \notin {"idle", "test", "unlink"} /\ path[t] = p
Uses(t, p) == (at[t] # "idle" /\ path[t] = p) \/ \E s \in hold[t] : fds[s].path = p
-----------------------------------------------------------------------------
(* The callers: a thread opens files it has not open, closes what it opened, *)
(* and unlinks.                                                             *)

Begins(t, p, l) ==
  /\ ~Wild
  /\ at[t] = "idle" /\ calls < MaxCalls /\ calls' = calls + 1
  /\ Go(t, l) /\ path' = [path EXCEPT ![t] = p]
  /\ shared' = IF \E u \in Thread \ {t} : Uses(u, p) THEN shared \cup {p} ELSE shared
  /\ UNCHANGED <<reg, fds, table, fmLock, fdLock, after>>

Overlaps(p) == raced' = IF \E u \in Thread : InCall(u, p) THEN raced \cup {p} ELSE raced

CallOpen(t, p) ==
  /\ ~Uses(t, p)
  /\ Begins(t, p, "new") /\ Overlaps(p) /\ UNCHANGED <<slot, hold>>

CallClose(t, s) ==
  /\ s \in hold[t]
  /\ Begins(t, fds[s].path, "close") /\ Overlaps(fds[s].path)
  /\ slot' = [slot EXCEPT ![t] = s] /\ hold' = [hold EXCEPT ![t] = @ \ {s}]

UnlinkWithoutTest(t, p) == Begins(t, p, "unlink") /\ UNCHANGED <<slot, hold, raced>>
CallUnlink(t, p) == Begins(t, p, "test") /\ UNCHANGED <<slot, hold, raced>>
-----------------------------------------------------------------------------
(* open(): fd_new under the fd lock.                                        *)

FdFreeAlways == TRUE
FdFree == fdLock = Nobody

\* fd_slot_alloc and fd_slot_expand: the table grows up to DFS_FD_MAX.
FreeSlotsPastEnd == {s \in 0..MaxFd : s \in Slot => fds[s].node = "free"}
FreeSlots == {s \in 0..MaxFd-1 : fds[s].node = "free"}

FindSlot(t) ==
  /\ at[t] = "new" /\ FdFree
  /\ \/ \E s \in FreeSlots :
          /\ \A r \in FreeSlots : s <= r
          /\ slot' = [slot EXCEPT ![t] = s]
          /\ fdLock' = t /\ Go(t, "newSet")
     \/ /\ FreeSlots = {}
        /\ Go(t, "idle") /\ UNCHANGED <<slot, fdLock>>
  /\ UNCHANGED <<path, reg, fds, table, fmLock, hold, hist, after>>

SetSlot(t) ==
  /\ at[t] = "newSet"
  /\ fds' = [fds EXCEPT ![slot[t]] = [path |-> path[t], node |-> "none", fil |-> FALSE]]
  /\ fdLock' = Unlock(fdLock, t) /\ Go(t, "find")
  /\ UNCHANGED <<path, slot, reg, table, fmLock, hold, hist, after>>

(* dfs_file_open: the vnode of a file that is open is counted up and the     *)
(* lock released at once; else a new one enters the hash and the lock is    *)
(* kept over f_open.                                                        *)
Attach(t) ==
  /\ fds' = [fds EXCEPT ![slot[t]].node = "live"]
  /\ after' = [u \in Thread |-> IF at[u] = "unlink" /\ path[u] = path[t]
                                THEN after[u] \cup {slot[t]} ELSE after[u]]

FindVnode(t) ==
  /\ at[t] = "find" /\ fmLock = Nobody
  /\ fmLock' = t
  /\ \/ /\ path[t] \in vnodes
        /\ reg' = [reg EXCEPT ![t] = ref[path[t]]] /\ Go(t, "count")
        /\ fds' = [fds EXCEPT ![slot[t]].node = "found"]
        /\ UNCHANGED <<table, after>>
     \/ /\ path[t] \notin vnodes
        /\ vnodes' = vnodes \cup {path[t]} /\ ref' = [ref EXCEPT ![path[t]] = 1]
        /\ Attach(t) /\ Go(t, "elm") /\ UNCHANGED reg
  /\ UNCHANGED <<path, slot, fdLock, hold, hist>>

CountUp(t) ==
  /\ at[t] = "count"
  /\ \/ /\ Dangling(t)
        /\ Go(t, "wild") /\ UNCHANGED <<fds, ref, fmLock, after>>
     \/ /\ ~Dangling(t)
        /\ ref' = [ref EXCEPT ![path[t]] = reg[t] + 1]
        /\ Attach(t) /\ fmLock' = Nobody /\ Go(t, "elm")
  /\ UNCHANGED <<path, slot, reg, vnodes, fdLock, hold, hist>>

\* The caller has its descriptor.
Opened(t) ==
  /\ fmLock' = Unlock(fmLock, t) /\ Go(t, "idle")
  /\ hold' = [hold EXCEPT ![t] = @ \cup {slot[t]}]

(* A look at the count of the vnode, which another thread may have freed or  *)
(* counted down since the last: the RT_ASSERT of dfs_elm_open and           *)
(* dfs_elm_close.                                                           *)
AssertCounted(t, next) ==
  /\ Go(t, IF Dangling(t) THEN "wild" ELSE IF ref[path[t]] > 0 THEN next ELSE "hung")
  /\ UNCHANGED <<path, slot, reg, fds, table, fmLock, fdLock, hold, hist, after>>

\* dfs_elm_open: only the first opener gets a FIL object.
ElmOpen(t) == at[t] = "elm" /\ AssertCounted(t, "first")

FirstOpen(t) ==
  /\ at[t] = "first"
  /\ \/ /\ Dangling(t)
        /\ Go(t, "wild") /\ UNCHANGED <<fmLock, hold>>
     \/ /\ ~Dangling(t) /\ ref[path[t]] > 1
        /\ Opened(t)
     \/ /\ ~Dangling(t) /\ ref[path[t]] <= 1
        /\ Go(t, "fopen") /\ UNCHANGED <<fmLock, hold>>
  /\ UNCHANGED <<path, slot, reg, fds, table, fdLock, hist, after>>

FOpen(t) ==
  /\ at[t] = "fopen"
  /\ \/ /\ Dangling(t)
        /\ Go(t, "wild") /\ UNCHANGED <<fmLock, hold, fds, reg>>
     \/ /\ ~Dangling(t)
        /\ fds' = [fds EXCEPT ![slot[t]].fil = TRUE]
        /\ Opened(t) /\ UNCHANGED reg
     \/ /\ ~Dangling(t)                              \* no such file, or the card fails
        /\ reg' = [reg EXCEPT ![t] = ref[path[t]]]
        /\ Go(t, "failed") /\ UNCHANGED <<fmLock, hold, fds>>
  /\ UNCHANGED <<path, slot, table, fdLock, hist, after>>

(* The vnode of p leaves the hash and is freed by the thread of slot s: any  *)
(* other descriptor that has it dangles.                                    *)
FreeVnode(p, s) ==
  /\ vnodes' = vnodes \ {p}
  /\ fds' = [x \in Slot |->
       IF x = s THEN [fds[x] EXCEPT !.node = "none"]
       ELSE IF fds[x].path = p /\ fds[x].node \in {"found", "live"}
            THEN [fds[x] EXCEPT !.node = "freed"] ELSE fds[x]]

OpenFailed(t) ==
  /\ at[t] = "failed"
  /\ \/ /\ Dangling(t)
        /\ Go(t, "wild") /\ UNCHANGED ref
     \/ /\ ~Dangling(t)
        /\ ref' = [ref EXCEPT ![path[t]] = reg[t] - 1] /\ Go(t, "undo")
  /\ UNCHANGED <<path, slot, reg, fds, vnodes, fmLock, fdLock, hold, hist, after>>

UndoKeepsVnode(t) ==
  /\ at[t] = "undo"
  /\ fmLock' = Unlock(fmLock, t) /\ Go(t, "release")
  /\ UNCHANGED <<path, slot, reg, fds, table, fdLock, hold, hist, after>>

Undo(t) ==
  /\ at[t] = "undo"
  /\ \/ /\ Dangling(t)
        /\ Go(t, "wild") /\ UNCHANGED <<fds, vnodes, fmLock>>
     \/ /\ ~Dangling(t)
        /\ IF ref[path[t]] = 0 THEN FreeVnode(path[t], slot[t]) ELSE UNCHANGED <<vnodes, fds>>
        /\ fmLock' = Unlock(fmLock, t) /\ Go(t, "release")
  /\ UNCHANGED <<path, slot, reg, ref, fdLock, hold, hist, after>>
-----------------------------------------------------------------------------
(* close(): dfs_file_close under the fm lock, which looks at the count       *)
(* before and after f_close, as does dfs_elm_close, and fd_release.          *)

CloseVnode(t) ==
  /\ at[t] = "close" /\ fmLock = Nobody
  /\ \/ /\ Dangling(t)
        /\ Go(t, "wild") /\ UNCHANGED fmLock
     \/ /\ ~Dangling(t) /\ ref[path[t]] <= 0        \* -ENXIO: the descriptor stays
        /\ Go(t, "idle") /\ UNCHANGED fmLock
     \/ /\ ~Dangling(t) /\ ref[path[t]] > 0
        /\ Go(t, "elmClose") /\ fmLock' = t
  /\ UNCHANGED <<path, slot, reg, fds, table, fdLock, hold, hist, after>>

\* dfs_elm_close, up to the assertion that the last descriptor has the FIL object.
ElmClose(t) == at[t] = "elmClose" /\ AssertCounted(t, "sole")

SoleClose(t) ==
  /\ at[t] = "sole"
  /\ Go(t, IF Dangling(t) THEN "wild"
           ELSE IF ref[path[t]] > 1 THEN "last"
           ELSE IF fds[slot[t]].fil THEN "fclose" ELSE "hung")
  /\ UNCHANGED <<path, slot, reg, fds, table, fmLock, fdLock, hold, hist, after>>

FCloseKeepsLock(t) ==
  /\ at[t] = "fclose"
  /\ \/ Dangling(t) /\ Go(t, "wild") /\ UNCHANGED fds
     \/ /\ ~Dangling(t) /\ fds' = [fds EXCEPT ![slot[t]].fil = FALSE]
        /\ Go(t, "last")
     \/ ~Dangling(t) /\ Go(t, "idle") /\ UNCHANGED fds
  /\ UNCHANGED <<path, slot, reg, table, fmLock, fdLock, hold, hist, after>>

FClose(t) ==
  /\ at[t] = "fclose"
  /\ \/ /\ Dangling(t)
        /\ Go(t, "wild") /\ UNCHANGED <<fds, fmLock>>
     \/ /\ ~Dangling(t)
        /\ fds' = [fds EXCEPT ![slot[t]].fil = FALSE]
        /\ Go(t, "last") /\ UNCHANGED fmLock
     \/ /\ ~Dangling(t)
        /\ Go(t, "idle") /\ fmLock' = Nobody         \* the descriptor stays
        /\ UNCHANGED fds
  /\ UNCHANGED <<path, slot, reg, table, fdLock, hold, hist, after>>

LastClose(t) ==
  /\ at[t] = "last"
  /\ \/ /\ Dangling(t)
        /\ Go(t, "wild") /\ UNCHANGED <<fds, vnodes, fmLock>>
     \/ /\ ~Dangling(t)
        /\ IF ref[path[t]] = 1 THEN FreeVnode(path[t], slot[t]) ELSE UNCHANGED <<vnodes, fds>>
        /\ fmLock' = Nobody /\ Go(t, "release")
  /\ UNCHANGED <<path, slot, reg, ref, fdLock, hold, hist, after>>

\* fdt_fd_release: a descriptor that has its vnode still counts it down.
Release(t) ==
  /\ at[t] = "release" /\ FdFree
  /\ \/ /\ fds[slot[t]].node = "live"
        /\ reg' = [reg EXCEPT ![t] = ref[path[t]]]
        /\ fdLock' = t /\ Go(t, "countDown") /\ UNCHANGED fds
     \/ /\ fds[slot[t]].node = "none"
        /\ fds' = [fds EXCEPT ![slot[t]] = FreeFd]
        /\ Go(t, "idle") /\ UNCHANGED <<reg, fdLock>>
     \/ /\ Dangling(t)
        /\ Go(t, "wild") /\ UNCHANGED <<reg, fds, fdLock>>
  /\ UNCHANGED <<path, slot, table, fmLock, hold, hist, after>>

CountDown(t) ==
  /\ at[t] = "countDown"
  /\ \/ /\ Dangling(t)
        /\ Go(t, "wild") /\ UNCHANGED <<fds, ref, fdLock>>
     \/ /\ ~Dangling(t)
        /\ ref' = [ref EXCEPT ![path[t]] = reg[t] - 1]
        /\ fds' = [fds EXCEPT ![slot[t]] = FreeFd]
        /\ fdLock' = Unlock(fdLock, t) /\ Go(t, "idle")
  /\ UNCHANGED <<path, slot, reg, vnodes, fmLock, hold, hist, after>>
-----------------------------------------------------------------------------
(* unlink(): the test under the fm lock, then f_unlink without it.           *)

TestOpen(t) ==
  /\ at[t] = "test" /\ fmLock = Nobody
  /\ Go(t, IF path[t] \in vnodes THEN "idle" ELSE "unlink")
  /\ after' = [after EXCEPT ![t] = {}]
  /\ UNCHANGED <<path, slot, reg, fds, table, fmLock, fdLock, hold, hist>>

FUnlink(t) ==
  /\ at[t] = "unlink"
  /\ Go(t, "idle") /\ after' = [after EXCEPT ![t] = {}]
  /\ UNCHANGED <<path, slot, reg, fds, table, fmLock, fdLock, hold, hist>>

Step(t) ==
  /\ ~Wild
  /\ \/ FindSlot(t) \/ SetSlot(t) \/ FindVnode(t) \/ CountUp(t)
     \/ ElmOpen(t) \/ FirstOpen(t) \/ FOpen(t) \/ OpenFailed(t) \/ Undo(t)
     \/ CloseVnode(t) \/ ElmClose(t) \/ SoleClose(t) \/ FClose(t) \/ LastClose(t) \/ Release(t) \/ CountDown(t)
     \/ TestOpen(t) \/ FUnlink(t)

Call(t) ==
  \/ \E p \in Path : CallOpen(t, p) \/ CallUnlink(t, p)
  \/ \E s \in Slot : CallClose(t, s)

Next == \E t \in Thread : Step(t) \/ Call(t)

Spec == Init /\ [][Next]_vars

(* A thread goes on with the call it is in, and a mutex is handed to a       *)
(* thread that waits for it.  No thread has to call.                        *)
FairSpec == Spec /\ \A t \in Thread : SF_vars(Step(t))
-----------------------------------------------------------------------------
Labels == {"idle", "new", "newSet", "find", "count", "elm", "first", "fopen", "failed", "undo",
           "close", "elmClose", "sole", "fclose", "last", "release", "countDown",
           "test", "unlink", "hung", "wild"}

(* Every variable keeps to its range.  A count is an int of C, and two       *)
(* threads that count one file at the same time may take it below zero.      *)
TypeOK ==
  /\ at \in [Thread -> Labels]
  /\ path \in [Thread -> Path] /\ slot \in [Thread -> Slot]
  /\ reg \in [Thread -> Int]
  /\ fds \in [Slot -> [path : Path, node : {"free", "none", "found", "live", "freed"}, fil : BOOLEAN]]
  /\ vnodes \subseteq Path /\ ref \in [Path -> Int]
  /\ {fmLock, fdLock} \subseteq Thread \cup {Nobody}
  /\ hold \in [Thread -> SUBSET Slot]
  /\ calls \in 0..MaxCalls /\ shared \subseteq Path /\ raced \subseteq Path
  /\ after \in [Thread -> SUBSET Slot]

(* A descriptor belongs to one caller, and is the one it asked for: threads  *)
(* that open and close at the same time never get, or release, each other's. *)
HasSlot(t) == at[t] \in Labels \ {"idle", "new", "newSet", "test", "unlink", "hung", "wild"}
Owned(t) == hold[t] \cup (IF HasSlot(t) THEN {slot[t]} ELSE {})

DescriptorsExclusive ==
  /\ \A t \in Thread : \A s \in Owned(t) : fds[s].node # "free"
  /\ \A t, u \in Thread : t # u => Owned(t) \cap Owned(u) = {}

(* A file no two threads have used at the same time keeps an exact count,    *)
(* whatever else goes on in the tables: while no call works on it, it is in  *)
(* the hash if and only if a descriptor has it, and is counted once for each *)
(* (dfs_file.h: "Descriptor reference count").  And no assertion of the file *)
(* system fails, nor is freed memory used, before two threads have used one  *)
(* file at the same time.                                                    *)
Quiet(p) == \A t \in Thread : at[t] # "idle" => path[t] # p

UnsharedSafe ==
  /\ \A p \in Path \ shared : Quiet(p) =>
       /\ p \in vnodes <=> On(p) # {}
       /\ p \in vnodes => ref[p] = Cardinality(On(p))
  /\ (\E t \in Thread : at[t] \in {"hung", "wild"}) => shared # {}

(* unlink removes a file under a descriptor that reached it (dfs_file_open   *)
(* gave it the vnode) before the test found the file closed only if two      *)
(* opens or closes of that file had overlapped and one of them freed the     *)
(* vnode under the descriptor.  Nothing is said of an open that reaches the  *)
(* vnode after the test: it loses its file.                                  *)
Reached(p) == {s \in Slot : fds[s].node \in {"live", "freed"} /\ fds[s].path = p}
UnlinkSafe ==
  \A t \in Thread : at[t] = "unlink" =>
    \A s \in Reached(path[t]) \ after[t] : fds[s].node = "freed" /\ path[t] \in raced

(* Every call ends: the two locks are never held against each other, and no  *)
(* path out of a call keeps one.                                             *)
CallsEnd ==
  \A t \in Thread : at[t] # "idle" ~> \/ at[t] = "idle"
                                      \/ \E u \in Thread : at[u] \in {"hung", "wild"}
=============================================================================
