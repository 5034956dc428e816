-------------------------- MODULE DfsThreadsProofs --------------------------
(***************************************************************************)
(* Proofs about open, close and unlink of threads that run beside each     *)
(* other, for any number of threads, files, descriptors and calls.         *)
(***************************************************************************)
EXTENDS DfsThreads, FiniteSetTheorems, TLAPS

Node(s) == fds[s].node

(* Where a thread may be that has a lock: at no place where it waits for one. *)
LockInv ==
  /\ \A t \in Thread : fdLock = t => at[t] \in {"newSet", "countDown", "wild"}
  /\ \A t \in Thread :
       fmLock = t => at[t] \in {"count", "elm", "first", "fopen", "failed", "undo",
                                "elmClose", "sole", "fclose", "last", "hung", "wild"}

NoHoldAndWait ==
  \A t \in Thread : t \in {fdLock, fmLock} =>
    at[t] \notin {"idle", "new", "find", "close", "release", "test"}

(* A descriptor is given out under the fd lock, while it is still free.     *)
DescInv ==
  /\ \A t \in Thread : at[t] = "newSet" => fdLock = t /\ Node(slot[t]) = "free"
  /\ \A t \in Thread : HasSlot(t) => slot[t] \notin hold[t]
  /\ DescriptorsExclusive

(* A file that is about to be removed has the descriptors since its test.    *)
OnSafe == \A t \in Thread : at[t] = "unlink" => On(path[t]) \subseteq after[t]

(* What a descriptor points to is in the hash, unless it has been freed.    *)
NodeInv ==
  /\ \A s \in Slot : Node(s) \in {"found", "live"} => fds[s].path \in vnodes
  /\ \A t \in Thread : HasSlot(t) => fds[slot[t]].path = path[t]
  /\ \A t \in Thread : at[t] = "count" => Node(slot[t]) \in {"found", "freed"}
  /\ OnSafe

(* Who uses a file: one thread, unless the file is shared; and through one   *)
(* descriptor, none of the caller's others while it opens or closes.        *)
OneUser == \A p \in Path \ shared : \A t, u \in Thread : Uses(t, p) /\ Uses(u, p) => t = u
OneSlot == \A t \in Thread : \A r, s \in hold[t] : fds[r].path = fds[s].path => r = s
NotHeld ==
  \A t \in Thread : at[t] \notin {"idle", "test", "unlink"} =>
    \A s \in hold[t] : fds[s].path # path[t]

UseInv == OneUser /\ OneSlot /\ NotHeld

(* The vnode of a file: not there, of one descriptor, or of two of which the *)
(* second was left behind, with the FIL object, by a close that failed.     *)
None(p)      == p \notin vnodes /\ On(p) = {}
One(p, s)    == p \in vnodes /\ On(p) = {s} /\ ref[p] = 1
Undone(p, s) == p \in vnodes /\ On(p) = {s} /\ ref[p] = 0
Two(p, s, l) == s # l /\ p \in vnodes /\ On(p) = {s, l} /\ ref[p] = 2 /\ fds[l].fil
Both(p, s)   == \E l \in Slot : Two(p, s, l)
Left(p, l)   == One(p, l) /\ fds[l].fil

Rest(p)    == None(p) \/ \E l \in Slot : Left(p, l)
Held(p, s) == Left(p, s) \/ Both(p, s)

Stage(t, p, s) ==
  /\ at[t] = "find" => Node(s) = "none"
  /\ at[t] = "count" => reg[t] = 1 /\ Node(s) = "found" /\ \E l \in Slot : Left(p, l)
  /\ at[t] \in {"elm", "first"} => One(p, s) \/ Both(p, s)
  /\ at[t] = "fopen" => One(p, s)
  /\ at[t] = "failed" => One(p, s) /\ reg[t] = 1
  /\ at[t] = "undo" => Undone(p, s)
  /\ at[t] \in {"close", "elmClose", "sole"} => Held(p, s)
  /\ at[t] = "fclose" => Left(p, s)
  /\ at[t] = "last" => One(p, s) \/ Both(p, s)
  /\ at[t] = "release" => (Node(s) = "none" /\ None(p)) \/ Both(p, s)
  /\ at[t] = "countDown" => Both(p, s) /\ reg[t] = 2
  /\ at[t] \notin {"hung", "wild"}

Stages == {"count", "elm", "first", "fopen", "failed", "undo",
           "close", "elmClose", "sole", "fclose", "last", "release", "countDown"}
Free(p) == \A t \in Thread : /\ path[t] = p => at[t] \notin Stages
                             /\ \A s \in hold[t] : fds[s].path # p

CountOK(p) ==
  /\ Free(p) => Rest(p)
  /\ \A t \in Thread : \A s \in hold[t] : fds[s].path = p => Held(p, s)
  /\ \A t \in Thread : path[t] = p /\ at[t] # "idle" => Stage(t, p, slot[t])

CountInv == \A p \in Path \ shared : CountOK(p)
-----------------------------------------------------------------------------
(* A free descriptor is of the type of a descriptor.                         *)
LEMMA FreeFdType == FreeFd.path \in Path /\ FreeFd.node = "free" /\ FreeFd.fil = FALSE
                    /\ FreeFd \in [path : Path, node : {"free", "none", "found", "live", "freed"}, fil : BOOLEAN]
  BY BoundAssumption DEF FreeFd

(* The types hold at the start.                                              *)
LEMMA TypeInit == Init => TypeOK
<1> SUFFICES ASSUME Init PROVE TypeOK
  OBVIOUS
<1>1. 0 \in Slot /\ 0 \in 0..MaxCalls
  BY BoundAssumption DEF Slot
<1> QED
  BY <1>1, FreeFdType DEF Init, TypeOK, Labels

(* The descriptors as a table: what its steps may write into it.            *)
LEMMA FdsType ==
  ASSUME TypeOK, NEW s \in Slot
  PROVE  /\ fds[s].path \in Path /\ fds[s].fil \in BOOLEAN
         /\ fds[s].node \in {"free", "none", "found", "live", "freed"}
  BY DEF TypeOK

(* Taking a vnode out of the table keeps the types.                          *)
LEMMA FreeVnodeType ==
  ASSUME TypeOK, NEW p \in Path, NEW s \in Slot, FreeVnode(p, s)
  PROVE  /\ vnodes' \subseteq Path
         /\ fds' \in [Slot -> [path : Path, node : {"free", "none", "found", "live", "freed"}, fil : BOOLEAN]]
  BY DEF TypeOK, FreeVnode

(* Every step keeps the types.                                               *)
LEMMA TypeStep == TypeOK /\ [Next]_vars => TypeOK'
<1> SUFFICES ASSUME TypeOK, [Next]_vars PROVE TypeOK'
  OBVIOUS
<1> DEFINE Fds == [Slot -> [path : Path, node : {"free", "none", "found", "live", "freed"}, fil : BOOLEAN]]
<1>1. \A t \in Thread : /\ slot[t] \in Slot /\ path[t] \in Path /\ reg[t] \in Int
                        /\ ref[path[t]] \in Int /\ fds[slot[t]] \in [path : Path, node : {"free", "none", "found", "live", "freed"}, fil : BOOLEAN]
  BY DEF TypeOK
<1>2. ASSUME NEW t \in Thread, NEW l \in Labels, Go(t, l) PROVE at' \in [Thread -> Labels]
  BY <1>2 DEF TypeOK, Go
<1>3. ASSUME NEW t \in Thread PROVE Unlock(fdLock, t) \in Thread \cup {Nobody} /\ Unlock(fmLock, t) \in Thread \cup {Nobody}
  BY DEF TypeOK, Unlock
<1>4. ASSUME NEW t \in Thread, FindSlot(t) PROVE TypeOK'
  <2>1. FreeSlots \subseteq Slot
    BY DEF FreeSlots, Slot
  <2>2. at' \in [Thread -> Labels]
    BY <1>4, <1>2 DEF FindSlot, Labels
  <2> QED
    BY <1>4, <2>1, <2>2 DEF FindSlot, TypeOK, table, hist
<1>5. ASSUME NEW t \in Thread, SetSlot(t) PROVE TypeOK'
  <2>1. at' \in [Thread -> Labels]
    BY <1>5, <1>2 DEF SetSlot, Labels
  <2>2. fds' \in Fds
    BY <1>5, <1>1 DEF SetSlot, TypeOK
  <2> QED
    BY <1>5, <1>3, <2>1, <2>2 DEF SetSlot, TypeOK, table, hist
<1>6. ASSUME NEW t \in Thread, Attach(t)
      PROVE  fds' \in Fds /\ after' \in [Thread -> SUBSET Slot]
  BY <1>1, <1>6 DEF Attach, TypeOK
<1>7. ASSUME NEW t \in Thread, FindVnode(t) PROVE TypeOK'
  <2>1. at' \in [Thread -> Labels]
    BY <1>7, <1>2 DEF FindVnode, Labels
  <2>2. fds' \in Fds /\ after' \in [Thread -> SUBSET Slot]
    BY <1>1, <1>6, <1>7 DEF FindVnode, TypeOK
  <2>3. reg' \in [Thread -> Int] /\ ref' \in [Path -> Int] /\ vnodes' \subseteq Path
    BY <1>1, <1>7 DEF FindVnode, TypeOK, table
  <2> QED
    BY <1>7, <2>1, <2>2, <2>3 DEF FindVnode, TypeOK, hist
<1>8. ASSUME NEW t \in Thread, CountUp(t) PROVE TypeOK'
  <2>1. at' \in [Thread -> Labels]
    BY <1>8, <1>2 DEF CountUp, Labels
  <2>2. fds' \in Fds /\ after' \in [Thread -> SUBSET Slot]
    BY <1>1, <1>6, <1>8 DEF CountUp, TypeOK
  <2>3. ref' \in [Path -> Int]
    BY <1>1, <1>8 DEF CountUp, TypeOK
  <2> QED
    BY <1>8, <2>1, <2>2, <2>3 DEF CountUp, TypeOK, hist
<1>9. ASSUME NEW t \in Thread, Opened(t)
      PROVE  /\ at' \in [Thread -> Labels] /\ hold' \in [Thread -> SUBSET Slot]
             /\ fmLock' \in Thread \cup {Nobody}
  BY <1>1, <1>2, <1>3, <1>9 DEF Opened, TypeOK, Labels
<1>0. ASSUME NEW t \in Thread
      PROVE  [fds EXCEPT ![slot[t]].fil = TRUE] \in Fds /\ [fds EXCEPT ![slot[t]].fil = FALSE] \in Fds
  <2> DEFINE Fd == [path : Path, node : {"free", "none", "found", "live", "freed"}, fil : BOOLEAN]
  <2>1. [fds[slot[t]] EXCEPT !.fil = TRUE] \in Fd /\ [fds[slot[t]] EXCEPT !.fil = FALSE] \in Fd
    BY <1>1
  <2> HIDE DEF Fd
  <2>2. fds \in [Slot -> Fd]
    BY DEF TypeOK, Fd
  <2>3. [fds EXCEPT ![slot[t]].fil = TRUE] \in [Slot -> Fd] /\ [fds EXCEPT ![slot[t]].fil = FALSE] \in [Slot -> Fd]
    BY <2>1, <2>2
  <2> QED
    BY <2>3 DEF Fd
<1>10. ASSUME NEW t \in Thread, ElmOpen(t) \/ ElmClose(t) \/ SoleClose(t) PROVE TypeOK'
  <2>1. at' \in [Thread -> Labels]
    BY <1>10, <1>2 DEF ElmOpen, ElmClose, SoleClose, AssertCounted, Labels
  <2> QED
    BY <1>10, <2>1 DEF ElmOpen, ElmClose, SoleClose, AssertCounted, TypeOK, table, hist
<1>23. ASSUME NEW t \in Thread, FirstOpen(t) PROVE TypeOK'
  <2>1. /\ at' \in [Thread -> Labels] /\ hold' \in [Thread -> SUBSET Slot]
        /\ fmLock' \in Thread \cup {Nobody}
    BY <1>23, <1>2, <1>9 DEF FirstOpen, TypeOK, Labels
  <2> QED
    BY <1>23, <2>1 DEF FirstOpen, TypeOK, table, hist
<1>11. ASSUME NEW t \in Thread, FOpen(t) PROVE TypeOK'
  <2>1. /\ at' \in [Thread -> Labels] /\ hold' \in [Thread -> SUBSET Slot]
        /\ fmLock' \in Thread \cup {Nobody}
    BY <1>11, <1>2, <1>9 DEF FOpen, TypeOK, Labels
  <2>2. fds' \in Fds /\ reg' \in [Thread -> Int]
    <3>1. fds' = fds \/ fds' = [fds EXCEPT ![slot[t]].fil = TRUE]
      BY <1>11 DEF FOpen
    <3>2. reg' \in [Thread -> Int]
      BY <1>1, <1>11 DEF FOpen, TypeOK
    <3>3. fds' \in Fds
      <4>1. fds \in Fds
        BY DEF TypeOK
      <4> HIDE DEF Fds
      <4> QED
        BY <1>0, <3>1, <4>1
    <3> QED
      BY <3>2, <3>3
  <2> QED
    BY <1>11, <2>1, <2>2 DEF FOpen, TypeOK, table, hist
<1>12. ASSUME NEW t \in Thread, OpenFailed(t) PROVE TypeOK'
  <2>1. at' \in [Thread -> Labels] /\ ref' \in [Path -> Int]
    BY <1>1, <1>12, <1>2 DEF OpenFailed, TypeOK, Labels
  <2> QED
    BY <1>12, <2>1 DEF OpenFailed, TypeOK, hist
<1>24. ASSUME NEW t \in Thread, Undo(t) PROVE TypeOK'
  <2>1. at' \in [Thread -> Labels] /\ fmLock' \in Thread \cup {Nobody}
    BY <1>24, <1>2, <1>3 DEF Undo, TypeOK, Labels
  <2>2. fds' \in Fds /\ vnodes' \subseteq Path
    BY <1>1, <1>24, FreeVnodeType DEF Undo, TypeOK
  <2> QED
    BY <1>24, <2>1, <2>2 DEF Undo, TypeOK, hist
<1>13. ASSUME NEW t \in Thread, CloseVnode(t) PROVE TypeOK'
  <2>1. at' \in [Thread -> Labels] /\ fmLock' \in Thread \cup {Nobody}
    BY <1>13, <1>2 DEF CloseVnode, TypeOK, Labels
  <2> QED
    BY <1>13, <2>1 DEF CloseVnode, TypeOK, table, hist
<1>14. ASSUME NEW t \in Thread, FClose(t) PROVE TypeOK'
  <2>1. at' \in [Thread -> Labels] /\ fmLock' \in Thread \cup {Nobody}
    BY <1>14, <1>2 DEF FClose, TypeOK, Labels
  <2>2. fds' \in Fds
    <3>1. fds' = fds \/ fds' = [fds EXCEPT ![slot[t]].fil = FALSE]
      BY <1>14 DEF FClose
    <3>2. fds \in Fds
      BY DEF TypeOK
    <3> HIDE DEF Fds
    <3> QED
      BY <1>0, <3>1, <3>2
  <2> QED
    BY <1>14, <2>1, <2>2 DEF FClose, TypeOK, table, hist
<1>15. ASSUME NEW t \in Thread, LastClose(t) PROVE TypeOK'
  <2>1. at' \in [Thread -> Labels] /\ fmLock' \in Thread \cup {Nobody}
    BY <1>15, <1>2 DEF LastClose, TypeOK, Labels
  <2>2. fds' \in Fds /\ vnodes' \subseteq Path
    BY <1>1, <1>15, FreeVnodeType DEF LastClose, TypeOK, table
  <2> QED
    BY <1>15, <2>1, <2>2 DEF LastClose, TypeOK, hist
<1>16. ASSUME NEW t \in Thread, Release(t) PROVE TypeOK'
  <2>1. at' \in [Thread -> Labels] /\ fdLock' \in Thread \cup {Nobody}
    BY <1>16, <1>2 DEF Release, TypeOK, Labels
  <2>2. fds' \in Fds /\ reg' \in [Thread -> Int]
    <3>1. fds' = fds \/ fds' = [fds EXCEPT ![slot[t]] = FreeFd]
      BY <1>16 DEF Release
    <3>2. fds' \in Fds
      BY <1>1, <3>1, FreeFdType DEF TypeOK
    <3> QED
      BY <1>1, <1>16, <3>2 DEF Release, TypeOK
  <2> QED
    BY <1>16, <2>1, <2>2 DEF Release, TypeOK, table, hist
<1>17. ASSUME NEW t \in Thread, CountDown(t) PROVE TypeOK'
  <2>1. at' \in [Thread -> Labels] /\ fdLock' \in Thread \cup {Nobody}
    BY <1>17, <1>2, <1>3 DEF CountDown, TypeOK, Labels
  <2>2. fds' \in Fds /\ ref' \in [Path -> Int]
    BY <1>1, <1>17, FreeFdType DEF CountDown, TypeOK
  <2> QED
    BY <1>17, <2>1, <2>2 DEF CountDown, TypeOK, hist
<1>18. ASSUME NEW t \in Thread, TestOpen(t) \/ FUnlink(t) PROVE TypeOK'
  <2>1. at' \in [Thread -> Labels]
    BY <1>18, <1>2 DEF TestOpen, FUnlink, Labels
  <2> QED
    BY <1>18, <2>1 DEF TestOpen, FUnlink, TypeOK, table, hist
<1>19. ASSUME NEW t \in Thread, NEW p \in Path, NEW l \in Labels, Begins(t, p, l),
              slot' \in [Thread -> Slot], hold' \in [Thread -> SUBSET Slot], raced' \subseteq Path
       PROVE  TypeOK'
  <2>1. at' \in [Thread -> Labels] /\ path' \in [Thread -> Path] /\ shared' \subseteq Path
    BY <1>19, <1>2 DEF Begins, TypeOK
  <2>2. calls' \in 0..MaxCalls
    BY <1>19, BoundAssumption DEF Begins, TypeOK
  <2> QED
    BY <1>19, <2>1, <2>2 DEF Begins, TypeOK, table
<1>20. ASSUME NEW t \in Thread, NEW p \in Path, CallOpen(t, p) \/ CallUnlink(t, p) PROVE TypeOK'
  <2>1. slot' = slot /\ hold' = hold /\ raced' \subseteq Path
    BY <1>20 DEF CallOpen, CallUnlink, Overlaps, TypeOK
  <2> QED
    BY <1>19, <1>20, <2>1 DEF CallOpen, CallUnlink, Labels, TypeOK
<1>21. ASSUME NEW t \in Thread, NEW s \in Slot, CallClose(t, s) PROVE TypeOK'
  <2>1. slot' \in [Thread -> Slot] /\ hold' \in [Thread -> SUBSET Slot] /\ fds[s].path \in Path
    BY <1>21, FdsType DEF CallClose, TypeOK
  <2>2. raced' \subseteq Path
    BY <1>21, <2>1 DEF CallClose, Overlaps, TypeOK
  <2> QED
    BY <1>19, <1>21, <2>1, <2>2 DEF CallClose, Labels
<1>22. CASE UNCHANGED vars
  BY <1>22 DEF vars, table, hist, TypeOK
<1> QED
  BY <1>4, <1>5, <1>7, <1>8, <1>10, <1>11, <1>12, <1>13, <1>14, <1>15, <1>16, <1>17, <1>18,
     <1>20, <1>21, <1>22, <1>23, <1>24 DEF Next, Step, Call

(* Every variable keeps to its range, whatever the threads do to each other. *)
THEOREM TypeCorrect == Spec => []TypeOK
  BY TypeInit, TypeStep, PTL DEF Spec
-----------------------------------------------------------------------------
(* One step of a thread, seen by the others.                                *)
OthersStay(t) ==
  \A u \in Thread \ {t} : /\ at'[u] = at[u] /\ path'[u] = path[u] /\ slot'[u] = slot[u]
                          /\ reg'[u] = reg[u] /\ hold'[u] = hold[u]

(* A step of t changes nothing of another thread.                            *)
LEMMA OthersStayed ==
  ASSUME TypeOK, NEW t \in Thread, Step(t) \/ Call(t)
  PROVE  OthersStay(t)
<1> USE DEF OthersStay, Go, TypeOK
<1>1. FindSlot(t) \/ SetSlot(t) => OthersStay(t)
  BY DEF FindSlot, SetSlot
<1>2. FindVnode(t) \/ CountUp(t) => OthersStay(t)
  BY DEF FindVnode, CountUp
<1>3. ElmOpen(t) \/ ElmClose(t) \/ SoleClose(t) => OthersStay(t)
  BY DEF ElmOpen, ElmClose, SoleClose, AssertCounted
<1>12. FirstOpen(t) => OthersStay(t)
  BY DEF FirstOpen, Opened
<1>4. FOpen(t) => OthersStay(t)
  BY DEF FOpen, Opened
<1>5. OpenFailed(t) \/ Undo(t) => OthersStay(t)
  BY DEF OpenFailed, Undo
<1>6. CloseVnode(t) \/ FClose(t) => OthersStay(t)
  BY DEF CloseVnode, FClose
<1>7. LastClose(t) \/ CountDown(t) => OthersStay(t)
  BY DEF LastClose, CountDown
<1>8. Release(t) => OthersStay(t)
  BY DEF Release
<1>9. TestOpen(t) \/ FUnlink(t) => OthersStay(t)
  BY DEF TestOpen, FUnlink
<1>10. ASSUME NEW p \in Path, CallOpen(t, p) \/ CallUnlink(t, p) PROVE OthersStay(t)
  BY <1>10 DEF CallOpen, CallUnlink, Begins
<1>11. ASSUME NEW s \in Slot, CallClose(t, s) PROVE OthersStay(t)
  BY <1>11 DEF CallClose, Begins
<1> QED
  BY <1>1, <1>2, <1>3, <1>4, <1>5, <1>6, <1>7, <1>8, <1>9, <1>10, <1>11, <1>12 DEF Step, Call

SlotAt == {"find", "count", "elm", "first", "fopen", "failed", "undo",
           "close", "elmClose", "sole", "fclose", "last", "release", "countDown"}

(* The labels at which a thread has a descriptor of its own.                 *)
LEMMA HasSlotAt ==
  ASSUME TypeOK, NEW t \in Thread
  PROVE  HasSlot(t) <=> at[t] \in SlotAt
  BY DEF HasSlot, Labels, SlotAt, TypeOK

(* The descriptors of a thread, by its label.                                *)
LEMMA OwnedAt ==
  ASSUME TypeOK, NEW t \in Thread
  PROVE  /\ at[t] \in SlotAt => Owned(t) = hold[t] \cup {slot[t]}
         /\ at[t] \notin SlotAt => Owned(t) = hold[t]
         /\ Owned(t) \subseteq Slot
  BY HasSlotAt DEF Owned, TypeOK

(* A step that takes no descriptor from the table, and gives back only its   *)
(* own, disturbs nobody.                                                    *)
LEMMA DescKeep ==
  ASSUME TypeOK, TypeOK', DescInv, NEW t \in Thread, OthersStay(t),
         \A s \in Slot : Node(s) = "free" => Node(s)' = "free",
         \A s \in Slot : Node(s)' = "free" => Node(s) = "free" \/ s \in Owned(t) \ Owned(t)',
         Owned(t)' \subseteq Owned(t),
         at'[t] # "newSet",
         at'[t] \in SlotAt => slot'[t] \notin hold'[t],
         \A u \in Thread \ {t} : fdLock = u => fdLock' = u
  PROVE  DescInv'
<1>1. \A u \in Thread \ {t} : Owned(u)' = Owned(u) /\ at'[u] = at[u]
                              /\ slot'[u] = slot[u] /\ hold'[u] = hold[u]
  BY DEF OthersStay, Owned, HasSlot
<1>2. ASSUME NEW u \in Thread, at'[u] = "newSet" PROVE fdLock' = u /\ Node(slot[u])' = "free"
  BY SMTT(30), <1>1, <1>2 DEF DescInv, TypeOK, Node
<1>3. ASSUME NEW u \in Thread, HasSlot(u)' PROVE slot'[u] \notin hold'[u]
  <2>1. CASE u = t
    <3>1. at'[t] \in SlotAt
      BY <1>3, <2>1 DEF HasSlot, Labels, SlotAt, TypeOK
    <3> QED
      BY <2>1, <3>1
  <2>2. CASE u # t
    BY <1>1, <1>3, <2>2 DEF DescInv, HasSlot
  <2> QED
    BY <2>1, <2>2
<1>4. ASSUME NEW u \in Thread, NEW s \in Owned(u)' PROVE fds'[s].node # "free"
  <2>1. s \in Slot /\ s \in Owned(u) /\ Node(s) # "free"
    BY <1>1, <1>4, OwnedAt DEF DescInv, DescriptorsExclusive, Node
  <2>2. ~ (s \in Owned(t) \ Owned(t)')
    BY <1>1, <1>4, <2>1 DEF DescInv, DescriptorsExclusive
  <2> QED
    BY <2>1, <2>2 DEF Node
<1>5. ASSUME NEW u \in Thread, NEW v \in Thread, u # v PROVE Owned(u)' \cap Owned(v)' = {}
  <2>1. Owned(u)' \subseteq Owned(u) /\ Owned(v)' \subseteq Owned(v)
    BY <1>1
  <2> QED
    BY <2>1, <1>5 DEF DescInv, DescriptorsExclusive
<1> QED
  BY <1>2, <1>3, <1>4, <1>5 DEF DescInv, DescriptorsExclusive, Node

(* No descriptor is in use at the start.                                     *)
LEMMA DescInit == Init => DescInv
<1> SUFFICES ASSUME Init PROVE DescInv
  OBVIOUS
<1>1. \A t \in Thread : at[t] = "idle" /\ hold[t] = {}
  BY DEF Init
<1>2. \A t \in Thread : Owned(t) = {}
  BY <1>1 DEF Owned, HasSlot
<1> QED
  BY <1>1, <1>2 DEF DescInv, DescriptorsExclusive, HasSlot

(* Taking a vnode out of the table frees no descriptor.                      *)
LEMMA FreeVnodeNodes ==
  ASSUME TypeOK, NEW p \in Path, NEW r \in Slot, FreeVnode(p, r), Node(r) # "free"
  PROVE  \A s \in Slot : Node(s)' = "free" <=> Node(s) = "free"
  BY DEF FreeVnode, Node, TypeOK

(* Every step keeps the descriptors of the threads apart.                    *)
LEMMA DescStep == TypeOK /\ TypeOK' /\ DescInv /\ [Next]_vars => DescInv'
<1> SUFFICES ASSUME TypeOK, TypeOK', DescInv, [Next]_vars PROVE DescInv'
  OBVIOUS
<1>1. CASE UNCHANGED vars
  BY <1>1 DEF vars, table, hist, DescInv, DescriptorsExclusive, Owned, HasSlot, Node
<1>2. ASSUME NEW t \in Thread, Step(t) \/ Call(t) PROVE DescInv'
  <2>1. OthersStay(t)
    BY <1>2, OthersStayed
  <2>2. /\ slot[t] \in Slot /\ path[t] \in Path
        /\ at[t] \in SlotAt => Node(slot[t]) # "free" /\ slot[t] \notin hold[t]
    BY HasSlotAt DEF DescInv, DescriptorsExclusive, Owned, TypeOK, Node
  <2>3. /\ at[t] \in SlotAt => Owned(t) = hold[t] \cup {slot[t]}
        /\ at[t] \notin SlotAt => Owned(t) = hold[t]
        /\ at'[t] \in SlotAt => Owned(t)' = hold'[t] \cup {slot'[t]}
        /\ at'[t] \notin SlotAt => Owned(t)' = hold'[t]
    BY OwnedAt, HasSlotAt DEF Owned, HasSlot, SlotAt, Labels, TypeOK
  <2> DEFINE Writes == \A s \in Slot : Node(s)' = "free" <=> Node(s) = "free"
             Keeps == /\ at[t] \in SlotAt /\ at'[t] \in SlotAt
                      /\ hold' = hold /\ slot' = slot /\ fdLock' = fdLock
  <2>4. Writes /\ Keeps => DescInv'
    BY <2>1, <2>2, <2>3, DescKeep DEF SlotAt
  <2>5. CASE FindSlot(t)
    <3>1. CASE FreeSlots = {}
      BY SMTT(30), <3>1, <2>1, <2>3, <2>5, DescKeep DEF FindSlot, Go, SlotAt, Node, TypeOK
    <3>2. CASE FreeSlots # {}
      <4>1. /\ slot'[t] \in FreeSlots /\ fdLock = Nobody /\ fdLock' = t /\ at' = [at EXCEPT ![t] = "newSet"]
            /\ fds' = fds /\ hold' = hold /\ at[t] = "new"
        BY <3>2, <2>5 DEF FindSlot, FdFree, Go, TypeOK
      <4>2. Node(slot[t])' = "free"
        BY <4>1 DEF FreeSlots, Node
      <4>3. \A u \in Thread : at[u] # "newSet"
        BY <4>1, NobodyAssumption DEF DescInv
      <4>4. \A u \in Thread : Owned(u)' = Owned(u)
        BY <4>1, <2>1 DEF OthersStay, Owned, HasSlot, TypeOK
      <4>5. \A u \in Thread : at'[u] = "newSet" => u = t
        BY <4>1, <4>3 DEF TypeOK
      <4>6. \A u \in Thread : HasSlot(u)' => u # t /\ HasSlot(u)
        BY <4>1, <2>1 DEF OthersStay, HasSlot, TypeOK
      <4> QED
        BY <4>1, <4>2, <4>4, <4>5, <4>6, <2>1 DEF DescInv, DescriptorsExclusive, OthersStay, Node
    <3> QED
      BY <3>1, <3>2
  <2>6. CASE SetSlot(t)
    <3>1. /\ fdLock = t /\ Node(slot[t]) = "free" /\ at[t] = "newSet" /\ at' = [at EXCEPT ![t] = "find"]
          /\ hold' = hold /\ slot' = slot
      BY <2>6 DEF SetSlot, Go, DescInv
    <3>2. \A s \in Slot : s # slot[t] => fds'[s] = fds[s]
      BY <2>6 DEF SetSlot, TypeOK
    <3>3. Node(slot[t])' = "none"
      BY <2>2, <2>6, <3>1 DEF SetSlot, Node, TypeOK
    <3>4. \A u \in Thread : slot[t] \notin Owned(u)
      BY <3>1 DEF DescInv, DescriptorsExclusive, Node
    <3>5. Owned(t)' = hold[t] \cup {slot[t]} /\ Owned(t) = hold[t]
      BY <3>1, <2>3 DEF SlotAt, TypeOK
    <3>6. \A u \in Thread \ {t} : Owned(u)' = Owned(u)
      BY <2>1 DEF OthersStay, Owned, HasSlot
    <3>7. ASSUME NEW u \in Thread PROVE at'[u] # "newSet"
      BY <3>1 DEF DescInv, TypeOK
    <3>8. ASSUME NEW u \in Thread, HasSlot(u)' PROVE slot'[u] \notin hold'[u]
      BY <3>1, <3>4, <3>5, <3>8, <2>1 DEF DescInv, OthersStay, HasSlot
    <3>9. ASSUME NEW u \in Thread, NEW s \in Owned(u)' PROVE fds'[s].node # "free"
      <4>1. s \in Slot
        BY <3>9, <2>2, <3>5, <3>6, OwnedAt
      <4>2. CASE s = slot[t]
        BY <3>1, <3>3, <4>2 DEF Node
      <4>3. CASE s # slot[t]
        <5>1. s \in Owned(u)
          BY <3>5, <3>6, <3>9, <4>3
        <5> QED
          BY <4>1, <4>3, <5>1, <3>2 DEF DescInv, DescriptorsExclusive
      <4> QED
        BY <4>2, <4>3
    <3>10. ASSUME NEW u \in Thread, NEW v \in Thread, u # v PROVE Owned(u)' \cap Owned(v)' = {}
      BY <3>4, <3>5, <3>6, <3>10 DEF DescInv, DescriptorsExclusive
    <3> QED
      BY <3>7, <3>8, <3>9, <3>10 DEF DescInv, DescriptorsExclusive
  <2>7. CASE FindVnode(t)
    <3>1. Keeps
      BY <2>7 DEF FindVnode, Go, TypeOK, SlotAt
    <3>2. Writes
      BY <2>2, <2>7, <3>1 DEF FindVnode, Attach, Node, TypeOK
    <3> QED
      BY <2>4, <3>1, <3>2
  <2>8. CASE CountUp(t)
    <3>1. CASE Dangling(t)
      BY <3>1, <2>1, <2>3, <2>8, DescKeep DEF CountUp, Go, SlotAt, Node, TypeOK
    <3>2. CASE ~Dangling(t)
      <4>1. Keeps
        BY <2>8, <3>2 DEF CountUp, Go, TypeOK, SlotAt
      <4>2. Writes
        BY <2>2, <2>8, <3>2, <4>1 DEF CountUp, Attach, Node, TypeOK
      <4> QED
        BY <2>4, <4>1, <4>2
    <3> QED
      BY <3>1, <3>2
  <2>9. ASSUME fds' = fds /\ fdLock' = fdLock /\ at[t] \in SlotAt, Opened(t) /\ slot' = slot PROVE DescInv'
    BY <2>1, <2>3, <2>9, DescKeep DEF Opened, Go, SlotAt, Node, TypeOK
  <2>10. ASSUME fds' = fds, fdLock' = fdLock, hold' = hold, slot' = slot, at'[t] \in {"hung", "wild", "idle"}
         PROVE  DescInv'
    BY <2>1, <2>3, <2>10, DescKeep DEF SlotAt, Node
  <2>11. CASE ElmOpen(t) \/ ElmClose(t) \/ SoleClose(t)
    <3>1. /\ at[t] \in SlotAt /\ at'[t] \in {"wild", "hung", "first", "sole", "last", "fclose"}
          /\ fds' = fds /\ hold' = hold /\ slot' = slot /\ fdLock' = fdLock
      BY <2>11 DEF ElmOpen, ElmClose, SoleClose, AssertCounted, Go, SlotAt, TypeOK
    <3>2. CASE at'[t] \in {"wild", "hung"}
      BY <2>10, <3>1, <3>2
    <3>3. CASE at'[t] \in {"first", "sole", "last", "fclose"}
      BY <2>4, <3>1, <3>3 DEF SlotAt, Node
    <3> QED
      BY <3>1, <3>2, <3>3
  <2>23. CASE FirstOpen(t)
    <3>1. CASE Opened(t)
      BY <2>9, <2>23, <3>1 DEF FirstOpen, SlotAt
    <3>2. CASE Go(t, "wild") /\ hold' = hold
      BY <2>10, <2>23, <3>2 DEF FirstOpen, Go, TypeOK
    <3>3. CASE Go(t, "fopen") /\ hold' = hold
      BY <2>4, <2>23, <3>3 DEF FirstOpen, Go, SlotAt, Node, TypeOK
    <3> QED
      BY <2>23, <3>1, <3>2, <3>3 DEF FirstOpen
  <2>12. CASE FOpen(t)
    <3>1. CASE Go(t, "wild") /\ UNCHANGED <<hold, fds>>
      BY <2>10, <2>12, <3>1 DEF FOpen, Go, TypeOK
    <3>2. CASE Go(t, "failed") /\ UNCHANGED <<hold, fds>>
      BY <2>4, <2>12, <3>2 DEF FOpen, Go, SlotAt, Node, TypeOK
    <3>3. CASE fds' = [fds EXCEPT ![slot[t]].fil = TRUE] /\ Opened(t)
      <4>1. Writes
        BY <2>2, <3>3 DEF Node, TypeOK
      <4> QED
        <5>1. /\ at[t] \in SlotAt /\ at'[t] = "idle" /\ slot' = slot /\ fdLock' = fdLock
              /\ hold'[t] = hold[t] \cup {slot[t]}
          BY <2>12, <3>3 DEF FOpen, Opened, Go, SlotAt, TypeOK
        <5> QED
          BY <2>1, <2>3, <4>1, <5>1, DescKeep DEF SlotAt
    <3> QED
      BY <2>12, <3>1, <3>2, <3>3 DEF FOpen
  <2>13. CASE OpenFailed(t)
    <3>1. CASE Dangling(t)
      BY <2>10, <2>13, <3>1 DEF OpenFailed, Go, TypeOK
    <3>2. CASE ~Dangling(t)
      BY <2>4, <2>13, <3>2 DEF OpenFailed, Go, TypeOK, SlotAt, Node
    <3> QED
      BY <3>1, <3>2
  <2>24. CASE Undo(t)
    <3>1. CASE Dangling(t)
      BY <2>10, <2>24, <3>1 DEF Undo, Go, TypeOK
    <3>2. CASE ~Dangling(t)
      <4>1. Keeps
        BY <2>24, <3>2 DEF Undo, Go, TypeOK, SlotAt
      <4>2. Writes
        BY <2>2, <2>24, <3>2, <4>1, FreeVnodeNodes DEF Undo, Node
      <4> QED
        BY <2>4, <4>1, <4>2
    <3> QED
      BY <3>1, <3>2
  <2>14. CASE CloseVnode(t)
    <3>1. CASE at'[t] \in {"wild", "idle", "hung"}
      BY <2>10, <2>14, <3>1 DEF CloseVnode
    <3>2. CASE at'[t] \notin {"wild", "idle", "hung"}
      <4>1. at[t] = "close" /\ at'[t] = "elmClose"
        BY <2>14, <3>2 DEF CloseVnode, Go, TypeOK
      <4> QED
        BY <2>4, <2>14, <4>1 DEF CloseVnode, SlotAt, Node
    <3> QED
      BY <3>1, <3>2
  <2>15. CASE FClose(t)
    <3>1. CASE at'[t] \in {"idle", "wild"} /\ fds' = fds
      BY <2>10, <2>15, <3>1 DEF FClose
    <3>2. CASE Go(t, "last") /\ fds' = [fds EXCEPT ![slot[t]].fil = FALSE]
      <4>1. Writes
        BY <2>2, <3>2 DEF Node, TypeOK
      <4>2. Keeps
        BY <2>15, <3>2 DEF FClose, Go, SlotAt, TypeOK
      <4> QED
        BY <2>4, <4>1, <4>2
    <3> QED
      BY <2>15, <3>1, <3>2 DEF FClose, Go, TypeOK
  <2>16. CASE LastClose(t)
    <3>1. CASE Dangling(t)
      BY <2>10, <2>16, <3>1 DEF LastClose, Go, TypeOK
    <3>2. CASE ~Dangling(t)
      <4>1. Keeps
        BY <2>16, <3>2 DEF LastClose, Go, TypeOK, SlotAt
      <4>2. Writes
        BY <2>2, <2>16, <3>2, <4>1, FreeVnodeNodes DEF LastClose, Node
      <4> QED
        BY <2>4, <4>1, <4>2
    <3> QED
      BY <3>1, <3>2
  <2>17. ASSUME at[t] \in SlotAt, Go(t, "idle"), fds' = [fds EXCEPT ![slot[t]] = FreeFd],
                hold' = hold, slot' = slot, \A u \in Thread \ {t} : fdLock = u => fdLock' = u
         PROVE  DescInv'
    <3>1. at'[t] = "idle"
      BY <2>17 DEF Go, TypeOK
    <3>2. Owned(t) = hold[t] \cup {slot[t]} /\ Owned(t)' = hold[t] /\ slot[t] \notin hold[t]
      BY <2>2, <2>3, <2>17, <3>1 DEF SlotAt
    <3>3. \A s \in Slot : s # slot[t] => Node(s)' = Node(s)
      BY <2>17 DEF Node, TypeOK
    <3>4. Node(slot[t])' = "free"
      BY <2>2, <2>17, FreeFdType DEF Node, TypeOK
    <3> QED
      BY <2>1, <2>2, <2>17, <3>1, <3>2, <3>3, <3>4, DescKeep DEF SlotAt
  <2>18. CASE Release(t)
    <3>1. CASE Node(slot[t]) = "live"
      <4>1. fdLock = Nobody /\ fds' = fds
        BY <2>18, <3>1 DEF Release, FdFree, Node, Dangling
      <4> QED
        BY <2>1, <2>2, <2>3, <2>18, <3>1, <4>1, DescKeep, NobodyAssumption DEF Release, Go, SlotAt, Node, Dangling, TypeOK
    <3>2. CASE Node(slot[t]) = "none"
      BY <2>17, <2>18, <3>2 DEF Release, Node, Dangling, SlotAt
    <3>3. CASE Dangling(t)
      BY <2>10, <2>18, <3>3 DEF Release, Dangling, Go, TypeOK
    <3> QED
      BY <2>18, <3>1, <3>2, <3>3 DEF Release, Node
  <2>19. CASE CountDown(t)
    <3>1. CASE Dangling(t)
      BY <2>10, <2>19, <3>1 DEF CountDown, Go, TypeOK
    <3>2. CASE ~Dangling(t)
      BY <2>17, <2>19, <3>2 DEF CountDown, Unlock, SlotAt
    <3> QED
      BY <3>1, <3>2
  <2>20. CASE TestOpen(t) \/ FUnlink(t)
    <3>1. /\ at'[t] \in {"idle", "unlink"} /\ at[t] \notin SlotAt
          /\ fds' = fds /\ hold' = hold /\ fdLock' = fdLock
      BY <2>20 DEF TestOpen, FUnlink, Go, SlotAt, TypeOK
    <3> QED
      BY <2>1, <2>3, <3>1, DescKeep DEF SlotAt, Node
  <2>21. ASSUME NEW p \in Path, CallOpen(t, p) \/ CallUnlink(t, p) PROVE DescInv'
    <3>1. /\ at[t] = "idle" /\ at'[t] \in {"new", "test"}
          /\ fds' = fds /\ hold' = hold /\ fdLock' = fdLock
      BY <2>21 DEF CallOpen, CallUnlink, Begins, Go, TypeOK
    <3> QED
      BY <2>1, <2>3, <3>1, DescKeep DEF SlotAt, Node
  <2>22. ASSUME NEW s \in Slot, CallClose(t, s) PROVE DescInv'
    <3>1. /\ at[t] = "idle" /\ at'[t] = "close" /\ slot'[t] = s /\ hold'[t] = hold[t] \ {s}
          /\ s \in hold[t] /\ fds' = fds /\ fdLock' = fdLock
      BY <2>22 DEF CallClose, Begins, Go, TypeOK
    <3>2. Owned(t)' = Owned(t)
      BY <2>3, <3>1 DEF SlotAt
    <3> QED
      BY <2>1, <3>1, <3>2, DescKeep DEF Node
  <2> QED
    BY <1>2, <2>5, <2>6, <2>7, <2>8, <2>11, <2>12, <2>13, <2>14, <2>15, <2>16, <2>18, <2>19, <2>20,
       <2>21, <2>22, <2>23, <2>24 DEF Step, Call
<1> QED
  BY <1>1, <1>2 DEF Next

(* The types and the descriptors, in every reachable state.                  *)
LEMMA DescInvariant == Spec => [](TypeOK /\ DescInv)
<1>1. TypeOK /\ DescInv /\ [Next]_vars => DescInv'
  BY TypeStep, DescStep
<1> QED
  BY TypeInit, TypeStep, DescInit, <1>1, PTL DEF Spec

(* A descriptor belongs to one caller: threads that open and close at the    *)
(* same time never get, or release, each other's.                           *)
THEOREM DescriptorsCorrect == Spec => []DescriptorsExclusive
<1>1. DescInv => DescriptorsExclusive
  BY DEF DescInv
<1> QED
  BY DescInvariant, <1>1, PTL
-----------------------------------------------------------------------------
(* No vnode is in use at the start.                                          *)
LEMMA NodeInit == Init => NodeInv
<1> SUFFICES ASSUME Init PROVE NodeInv
  OBVIOUS
<1>1. \A t \in Thread : at[t] = "idle" /\ ~HasSlot(t)
  BY DEF Init, HasSlot
<1>2. \A s \in Slot : Node(s) = "free"
  BY FreeFdType DEF Init, Node
<1> QED
  BY <1>1, <1>2 DEF NodeInv, OnSafe

(* A step that works on the thread's own descriptor, and at most cuts off    *)
(* others from a vnode that it frees.                                       *)
LEMMA NodeKeep ==
  ASSUME TypeOK, TypeOK', DescInv, NodeInv, NEW t \in Thread, OthersStay(t),
         at[t] \in SlotAt \cup {"newSet"}, path' = path, slot' = slot, at'[t] # "unlink",
         \A s \in Slot \ {slot[t]} :
           /\ fds'[s].path = fds[s].path
           /\ Node(s)' = Node(s) \/ Node(s)' = "freed",
         \A s \in Slot : Node(s)' \in {"found", "live"} => fds'[s].path \in vnodes',
         \A s \in Slot : Node(s)' = "free" \/ Node(s)' = "none" \/ fds'[s].path = fds[s].path,
         at'[t] \in SlotAt => slot'[t] = slot[t] /\ fds'[slot[t]].path = path[t],
         at'[t] = "count" => Node(slot[t])' \in {"found", "freed"},
         \A u \in Thread \ {t} : after[u] \subseteq after'[u],
         Node(slot[t])' = "live" => \/ Node(slot[t]) = "live"
                                    \/ \A u \in Thread : at[u] = "unlink" /\ path[u] = path[t]
                                                           => slot[t] \in after'[u],
         Node(slot[t])' = "live" => fds[slot[t]].path = path[t]
  PROVE  NodeInv'
<1>0. slot[t] \in Slot /\ at[t] # "unlink"
  BY DEF TypeOK, SlotAt
<1>1. ASSUME NEW u \in Thread \ {t}, HasSlot(u)
      PROVE  slot[u] \in Slot \ {slot[t]} /\ slot'[u] = slot[u] /\ at'[u] = at[u]
  <2>1. slot[u] \in Owned(u) /\ slot[u] \in Slot
    BY <1>1 DEF Owned, TypeOK
  <2>2. CASE at[t] = "newSet"
    BY <2>1, <2>2 DEF DescInv, DescriptorsExclusive, Node, OthersStay
  <2>3. CASE at[t] \in SlotAt
    BY <2>1, <2>3, OwnedAt DEF DescInv, DescriptorsExclusive, OthersStay
  <2> QED
    BY <2>2, <2>3 DEF OthersStay, SlotAt
<1>2. ASSUME NEW u \in Thread, HasSlot(u)' PROVE fds'[slot'[u]].path = path'[u]
  <2>1. CASE u = t
    <3>1. at'[t] \in SlotAt
      BY <1>2, <2>1 DEF HasSlot, Labels, SlotAt, TypeOK
    <3> QED
      BY <2>1, <3>1
  <2>2. CASE u # t
    <3>1. HasSlot(u)
      BY <1>2, <2>2 DEF HasSlot, OthersStay
    <3> QED
      BY <2>2, <3>1, <1>1 DEF NodeInv
  <2> QED
    BY <2>1, <2>2
<1>3. ASSUME NEW u \in Thread, at'[u] = "count" PROVE Node(slot[u])' \in {"found", "freed"}
  <2>1. CASE u = t
    BY <1>3, <2>1 DEF Node, SlotAt
  <2>2. CASE u # t
    <3>1. at[u] = "count" /\ HasSlot(u)
      BY <1>3, <2>2, HasSlotAt DEF OthersStay, SlotAt
    <3> QED
      BY <2>2, <3>1, <1>1 DEF NodeInv, Node
  <2> QED
    BY <2>1, <2>2
<1>4. ASSUME NEW u \in Thread, at'[u] = "unlink", NEW s \in Slot, Node(s)' = "live", fds'[s].path = path'[u]
      PROVE  s \in after'[u]
  <2>1. u # t /\ at[u] = "unlink" /\ path[u] = path'[u] /\ fds[s].path = path[u]
    BY <1>4 DEF OthersStay
  <2>2. CASE Node(s) = "live"
    <3>1. s \in On(path[u])
      BY <1>4, <2>1, <2>2 DEF On, Node
    <3> QED
      BY <2>1, <3>1 DEF NodeInv, OnSafe
  <2>3. CASE Node(s) # "live"
    BY <1>0, <1>4, <2>1, <2>3 DEF Node
  <2> QED
    BY <2>2, <2>3
<1>5. OnSafe'
  BY <1>4 DEF OnSafe, On, Node
<1> QED
  BY <1>2, <1>3, <1>5 DEF NodeInv

(* A step that leaves the table and the hash alone.                         *)
LEMMA NodeSame ==
  ASSUME TypeOK, TypeOK', NodeInv, NEW t \in Thread, OthersStay(t), fds' = fds, vnodes' = vnodes,
         \A u \in Thread \ {t} : after[u] \subseteq after'[u],
         at'[t] \in SlotAt => fds[slot'[t]].path = path'[t],
         at'[t] # "count",
         at'[t] = "unlink" => On(path'[t]) \subseteq after'[t]
  PROVE  NodeInv'
<1>1. \A s \in Slot : Node(s)' \in {"found", "live"} => fds'[s].path \in vnodes'
  BY DEF NodeInv, Node
<1>2. ASSUME NEW u \in Thread, HasSlot(u)' PROVE fds'[slot'[u]].path = path'[u]
  <2>1. CASE u = t
    BY <1>2, <2>1 DEF HasSlot, Labels, SlotAt, TypeOK
  <2>2. CASE u # t
    BY <1>2, <2>2 DEF NodeInv, HasSlot, OthersStay
  <2> QED
    BY <2>1, <2>2
<1>3. \A u \in Thread : at'[u] = "count" => Node(slot[u])' \in {"found", "freed"}
  BY DEF NodeInv, OthersStay, Node
<1>4. OnSafe'
  <2>1. ASSUME NEW u \in Thread, at'[u] = "unlink", NEW s \in Slot, fds[s].node = "live", fds[s].path = path'[u]
        PROVE  s \in after'[u]
    <3>1. CASE u = t
      BY <2>1, <3>1 DEF On
    <3>2. CASE u # t
      BY <2>1, <3>2 DEF NodeInv, OnSafe, OthersStay, On
    <3> QED
      BY <3>1, <3>2
  <2> QED
    BY <2>1 DEF OnSafe, On
<1> QED
  BY <1>1, <1>2, <1>3, <1>4 DEF NodeInv

(* Every step keeps the vnodes of descriptors as their owners expect them.   *)
LEMMA NodeStep == TypeOK /\ TypeOK' /\ DescInv /\ DescInv' /\ NodeInv /\ [Next]_vars => NodeInv'
<1> SUFFICES ASSUME TypeOK, TypeOK', DescInv, DescInv', NodeInv, [Next]_vars PROVE NodeInv'
  OBVIOUS
<1>1. CASE UNCHANGED vars
  BY <1>1 DEF vars, table, hist, NodeInv, OnSafe, HasSlot, Node, On
<1>2. ASSUME NEW t \in Thread, Step(t) \/ Call(t) PROVE NodeInv'
  <2>1. OthersStay(t)
    BY <1>2, OthersStayed
  <2>2. /\ slot[t] \in Slot /\ path[t] \in Path
        /\ at[t] \in SlotAt => Node(slot[t]) # "free" /\ fds[slot[t]].path = path[t]
    BY HasSlotAt DEF DescInv, DescriptorsExclusive, Owned, NodeInv, TypeOK, Node
  <2>3. \A s \in Slot : Node(s) \in {"found", "live"} => fds[s].path \in vnodes
    BY DEF NodeInv
  <2>4. CASE FindSlot(t)
    <3>1. at'[t] \in {"newSet", "idle"} /\ UNCHANGED <<fds, vnodes, after>>
      BY <2>4 DEF FindSlot, Go, TypeOK, table
    <3> QED
      BY <2>1, <3>1, NodeSame DEF SlotAt
  <2>5. CASE SetSlot(t)
    <3>1. /\ at[t] = "newSet" /\ at'[t] = "find" /\ UNCHANGED <<slot, path, vnodes, after>>
      BY <2>5 DEF SetSlot, Go, TypeOK, table
    <3>2. \A s \in Slot \ {slot[t]} : fds'[s] = fds[s]
      BY <2>5 DEF SetSlot, TypeOK
    <3>3. fds'[slot[t]].path = path[t] /\ fds'[slot[t]].node = "none"
      BY <2>2, <2>5 DEF SetSlot, TypeOK
    <3> QED
      BY <2>1, <2>2, <2>3, <3>1, <3>2, <3>3, NodeKeep DEF Node, SlotAt
  <2>6. ASSUME Attach(t), UNCHANGED <<path, slot>>, at[t] \in {"find", "count"}, at'[t] = "elm",
               path[t] \in vnodes', vnodes \subseteq vnodes'
        PROVE  NodeInv'
    <3>1. \A s \in Slot \ {slot[t]} : fds'[s] = fds[s]
      BY <2>6 DEF Attach, TypeOK
    <3>2. fds'[slot[t]].path = path[t] /\ fds'[slot[t]].node = "live" /\ fds[slot[t]].path = path[t]
      BY <2>2, <2>6 DEF Attach, SlotAt, TypeOK
    <3>3. /\ \A u \in Thread \ {t} : after[u] \subseteq after'[u]
          /\ \A u \in Thread : at[u] = "unlink" /\ path[u] = path[t] => slot[t] \in after'[u]
      BY <2>6 DEF Attach
    <3> QED
      BY <2>1, <2>2, <2>3, <2>6, <3>1, <3>2, <3>3, NodeKeep DEF Node, SlotAt
  <2>7. CASE FindVnode(t)
    <3>1. CASE path[t] \in vnodes
      <4>1. /\ at[t] = "find" /\ at'[t] = "count" /\ UNCHANGED <<slot, path, vnodes, after>>
            /\ fds' = [fds EXCEPT ![slot[t]].node = "found"]
        BY <2>7, <3>1 DEF FindVnode, Go, TypeOK, table
      <4>2. \A s \in Slot \ {slot[t]} : fds'[s] = fds[s]
        BY <4>1 DEF TypeOK
      <4>3. fds'[slot[t]].path = path[t] /\ fds'[slot[t]].node = "found" /\ fds[slot[t]].path = path[t]
        BY <2>2, <4>1 DEF SlotAt, TypeOK
      <4> QED
        BY <2>1, <2>2, <2>3, <3>1, <4>1, <4>2, <4>3, NodeKeep DEF Node, SlotAt
    <3>2. CASE path[t] \notin vnodes
      BY <2>6, <2>7, <3>2 DEF FindVnode, Go, TypeOK
    <3> QED
      BY <3>1, <3>2
  <2>8. ASSUME UNCHANGED <<fds, vnodes, path, after>>, at[t] \in SlotAt,
               at'[t] \notin {"count", "unlink"}, slot' = slot
        PROVE  NodeInv'
    BY <2>1, <2>2, <2>8, NodeSame
  <2>9. CASE CountUp(t)
    <3>1. CASE Dangling(t)
      BY <2>8, <2>9, <3>1 DEF CountUp, Go, SlotAt, TypeOK
    <3>2. CASE ~Dangling(t)
      <4>1. Node(slot[t]) = "found"
        BY <2>9, <3>2 DEF CountUp, Dangling, NodeInv, Node
      <4>2. path[t] \in vnodes
        BY <2>2, <2>3, <2>9, <4>1 DEF CountUp, SlotAt
      <4> QED
        BY <2>6, <2>9, <3>2, <4>2 DEF CountUp, Go, TypeOK
    <3> QED
      BY <3>1, <3>2
  <2>10. CASE ElmOpen(t) \/ ElmClose(t) \/ SoleClose(t)
    <3>1. /\ at[t] \in SlotAt /\ at'[t] \in {"wild", "hung", "first", "sole", "last", "fclose"}
          /\ UNCHANGED <<fds, vnodes, path, slot, after>>
      BY <2>10 DEF ElmOpen, ElmClose, SoleClose, AssertCounted, Go, SlotAt, TypeOK, table
    <3> QED
      BY <2>8, <3>1
  <2>25. CASE FirstOpen(t)
    BY <2>8, <2>25 DEF FirstOpen, Opened, Go, SlotAt, TypeOK, table
  <2>11. ASSUME UNCHANGED <<slot, path, vnodes, after>>, at[t] \in SlotAt, at'[t] \notin {"count", "unlink"},
                \A s \in Slot : fds'[s].path = fds[s].path /\ fds'[s].node = fds[s].node
         PROVE  NodeInv'
    BY <2>1, <2>2, <2>3, <2>11, NodeKeep DEF Node
  <2>12. CASE FOpen(t)
    <3>1. fds' = fds \/ fds' = [fds EXCEPT ![slot[t]].fil = TRUE]
      BY <2>12 DEF FOpen
    <3>2. \A s \in Slot : fds'[s].path = fds[s].path /\ fds'[s].node = fds[s].node
      <4>1. CASE fds' = [fds EXCEPT ![slot[t]].fil = TRUE]
        BY <4>1, Zenon DEF TypeOK
      <4> QED
        BY <3>1, <4>1
    <3> QED
      BY <2>11, <2>12, <3>2 DEF FOpen, Opened, Go, SlotAt, TypeOK, table
  <2>13. ASSUME FreeVnode(path[t], slot[t]), UNCHANGED <<slot, path, after>>,
                at[t] \in SlotAt, at'[t] = "release"
         PROVE  NodeInv'
    <3>1. fds'[slot[t]].node = "none" /\ fds'[slot[t]].path = path[t] /\ fds[slot[t]].path = path[t]
      BY <2>2, <2>13 DEF FreeVnode, TypeOK
    <3>2. ASSUME NEW s \in Slot \ {slot[t]}
          PROVE  /\ fds'[s].path = fds[s].path
                 /\ Node(s)' = Node(s) \/ Node(s)' = "freed"
                 /\ Node(s)' \in {"found", "live"} => fds'[s].path \in vnodes'
      BY <2>3, <2>13 DEF FreeVnode, Node, TypeOK
    <3> QED
      BY <2>1, <2>2, <2>13, <3>1, <3>2, NodeKeep DEF Node
  <2>14. CASE OpenFailed(t)
    <3>1. at'[t] \in {"wild", "undo"}
      BY <2>14 DEF OpenFailed, Go, TypeOK
    <3> QED
      BY <2>8, <2>14, <3>1 DEF OpenFailed, SlotAt
  <2>26. CASE Undo(t)
    <3>1. CASE Dangling(t) \/ ref[path[t]] # 0
      BY <2>8, <2>26, <3>1 DEF Undo, Go, SlotAt, TypeOK
    <3>2. CASE ~Dangling(t) /\ ref[path[t]] = 0
      BY <2>13, <2>26, <3>2 DEF Undo, Go, SlotAt, TypeOK
    <3> QED
      BY <3>1, <3>2
  <2>15. CASE CloseVnode(t)
    <3>1. at'[t] \in {"wild", "idle", "elmClose"}
      BY <2>15 DEF CloseVnode, Go, TypeOK
    <3> QED
      BY <2>8, <2>15, <3>1 DEF CloseVnode, SlotAt, table
  <2>16. CASE FClose(t)
    <3>1. fds' = fds \/ fds' = [fds EXCEPT ![slot[t]].fil = FALSE]
      BY <2>16 DEF FClose
    <3>2. \A s \in Slot : fds'[s].path = fds[s].path /\ fds'[s].node = fds[s].node
      <4>1. CASE fds' = [fds EXCEPT ![slot[t]].fil = FALSE]
        BY <4>1, Zenon DEF TypeOK
      <4> QED
        BY <3>1, <4>1
    <3>3. at'[t] \in {"last", "idle", "wild"} /\ at[t] = "fclose" /\ UNCHANGED <<slot, path, vnodes, after>>
      BY <2>16 DEF FClose, Go, TypeOK, table
    <3> QED
      BY <2>11, <3>2, <3>3 DEF SlotAt
  <2>17. CASE LastClose(t)
    <3>1. CASE Dangling(t) \/ ref[path[t]] # 1
      BY <2>8, <2>17, <3>1 DEF LastClose, Go, SlotAt, TypeOK
    <3>2. CASE ~Dangling(t) /\ ref[path[t]] = 1
      BY <2>13, <2>17, <3>2 DEF LastClose, Go, SlotAt, TypeOK
    <3> QED
      BY <3>1, <3>2
  <2>18. ASSUME at[t] \in SlotAt, at'[t] = "idle", fds' = [fds EXCEPT ![slot[t]] = FreeFd],
                UNCHANGED <<slot, path, vnodes, after>>
         PROVE  NodeInv'
    <3>1. \A s \in Slot \ {slot[t]} : fds'[s] = fds[s]
      BY <2>18 DEF TypeOK
    <3>2. fds'[slot[t]].node = "free"
      BY <2>2, <2>18, FreeFdType DEF TypeOK
    <3> QED
      BY <2>1, <2>2, <2>3, <2>18, <3>1, <3>2, NodeKeep DEF Node, SlotAt
  <2>19. CASE Release(t)
    <3>1. CASE fds' = fds
      <4>1. at'[t] \in {"countDown", "wild", "idle"} /\ at[t] = "release"
        BY <2>19 DEF Release, Go, TypeOK
      <4> QED
        BY <2>8, <2>19, <3>1, <4>1 DEF Release, SlotAt, table
    <3>2. CASE fds' # fds
      BY <2>18, <2>19, <3>2 DEF Release, Go, SlotAt, TypeOK, table
    <3> QED
      BY <3>1, <3>2
  <2>20. CASE CountDown(t)
    <3>1. CASE Dangling(t)
      BY <2>8, <2>20, <3>1 DEF CountDown, Go, SlotAt, TypeOK
    <3>2. CASE ~Dangling(t)
      BY <2>18, <2>20, <3>2 DEF CountDown, Go, SlotAt, TypeOK
    <3> QED
      BY <3>1, <3>2
  <2>21. CASE TestOpen(t)
    <3>1. /\ at'[t] = (IF path[t] \in vnodes THEN "idle" ELSE "unlink") /\ path' = path
          /\ UNCHANGED <<fds, vnodes>> /\ \A u \in Thread \ {t} : after'[u] = after[u]
      BY <2>21 DEF TestOpen, Go, TypeOK, table
    <3>2. path[t] \notin vnodes => On(path[t]) = {}
      BY <2>3 DEF On, Node
    <3> QED
      BY <2>1, <3>1, <3>2, NodeSame DEF SlotAt
  <2>22. CASE FUnlink(t)
    <3>1. at'[t] = "idle" /\ UNCHANGED <<fds, vnodes>> /\ \A u \in Thread \ {t} : after'[u] = after[u]
      BY <2>22 DEF FUnlink, Go, TypeOK, table
    <3> QED
      BY <2>1, <3>1, NodeSame DEF SlotAt
  <2>23. ASSUME NEW p \in Path, CallOpen(t, p) \/ CallUnlink(t, p) PROVE NodeInv'
    <3>1. at'[t] \in {"new", "test"} /\ UNCHANGED <<fds, vnodes, after>>
      BY <2>23 DEF CallOpen, CallUnlink, Begins, Go, TypeOK, table
    <3> QED
      BY <2>1, <3>1, NodeSame DEF SlotAt
  <2>24. ASSUME NEW s \in Slot, CallClose(t, s) PROVE NodeInv'
    <3>1. at'[t] = "close" /\ UNCHANGED <<fds, vnodes, after>> /\ slot'[t] = s /\ path'[t] = fds[s].path
      BY <2>24 DEF CallClose, Begins, Go, TypeOK, table
    <3> QED
      BY <2>1, <3>1, NodeSame DEF SlotAt
  <2> QED
    BY <1>2, <2>4, <2>5, <2>7, <2>9, <2>10, <2>12, <2>14, <2>15, <2>16, <2>17, <2>19, <2>20, <2>21,
       <2>22, <2>23, <2>24, <2>25, <2>26 DEF Step, Call
<1> QED
  BY <1>1, <1>2 DEF Next

(* The types, the descriptors and the vnodes, in every reachable state.      *)
LEMMA NodeInvariant == Spec => [](TypeOK /\ DescInv /\ NodeInv)
<1>1. TypeOK /\ DescInv /\ NodeInv /\ [Next]_vars => NodeInv'
  BY TypeStep, DescStep, NodeStep
<1> QED
  BY NodeInit, DescInvariant, <1>1, PTL DEF Spec
-----------------------------------------------------------------------------
(* The path of a descriptor changes only while a call gets it or gives it up. *)
LEMMA PathsStay ==
  ASSUME TypeOK, NEW t \in Thread, Step(t) \/ Call(t), NEW s \in Slot
  PROVE  fds'[s].path = fds[s].path \/ (s = slot[t] /\ at[t] \in SlotAt \cup {"newSet"})
<1> USE DEF SlotAt, TypeOK
<1>1. CASE UNCHANGED fds
  BY <1>1
<1>2. CASE SetSlot(t)
  BY <1>2 DEF SetSlot
<1>3. CASE FindVnode(t) \/ CountUp(t)
  BY <1>3 DEF FindVnode, CountUp, Attach
<1>4. CASE FOpen(t) \/ FClose(t)
  BY <1>4 DEF FOpen, FClose
<1>5. CASE Undo(t) \/ LastClose(t)
  BY <1>5 DEF Undo, LastClose, FreeVnode
<1>6. CASE Release(t) \/ CountDown(t)
  BY <1>6 DEF Release, CountDown
<1>7. FindSlot(t) \/ ElmOpen(t) \/ ElmClose(t) \/ SoleClose(t) => UNCHANGED fds
  BY DEF FindSlot, ElmOpen, ElmClose, SoleClose, AssertCounted
<1>9. FirstOpen(t) \/ OpenFailed(t) \/ CloseVnode(t) \/ TestOpen(t) \/ FUnlink(t) => UNCHANGED fds
  BY DEF FirstOpen, OpenFailed, CloseVnode, TestOpen, FUnlink
<1>8. Call(t) => UNCHANGED fds
  BY DEF Call, CallOpen, CallClose, CallUnlink, Begins
<1> QED
  BY <1>1, <1>2, <1>3, <1>4, <1>5, <1>6, <1>7, <1>8, <1>9 DEF Step

(* f_open gives the descriptor its FIL object, and changes nothing else.     *)
LEMMA FilSet ==
  ASSUME TypeOK, NEW t \in Thread, fds' = [fds EXCEPT ![slot[t]].fil = TRUE]
  PROVE  /\ \A s \in Slot : fds'[s].path = fds[s].path /\ fds'[s].node = fds[s].node
         /\ \A s \in Slot \ {slot[t]} : fds'[s] = fds[s]
         /\ fds'[slot[t]].fil
  BY Zenon DEF TypeOK

(* No step changes the path of a descriptor that a caller has open.          *)
LEMMA HeldPaths ==
  ASSUME TypeOK, DescInv, NEW t \in Thread, Step(t) \/ Call(t), NEW u \in Thread, NEW s \in hold[u]
  PROVE  s \in Slot /\ fds'[s].path = fds[s].path
<1>1. s \in Slot /\ s \in Owned(u)
  BY DEF TypeOK, Owned
<1>2. at[t] = "newSet" => s # slot[t]
  BY <1>1 DEF DescInv, DescriptorsExclusive, Node
<1>3. at[t] \in SlotAt => s # slot[t]
  BY <1>1, HasSlotAt, OwnedAt DEF DescInv, DescriptorsExclusive
<1> QED
  BY <1>1, <1>2, <1>3, PathsStay

(* What a step inside a call does to the descriptors of its caller.         *)
LEMMA StepHold ==
  ASSUME TypeOK, NEW t \in Thread, Step(t)
  PROVE  /\ at[t] # "idle" /\ path' = path /\ shared' = shared /\ raced' = raced
         /\ at[t] \in {"test", "unlink"} => at'[t] \in {"idle", "unlink"}
         /\ \/ hold' = hold
            \/ /\ at[t] \in SlotAt /\ at'[t] = "idle"
               /\ hold' = [hold EXCEPT ![t] = @ \cup {slot[t]}]
               /\ \A s \in Slot : fds'[s].path = fds[s].path
<1> USE DEF SlotAt, TypeOK, Go, hist
<1>1. CASE FindSlot(t) \/ SetSlot(t)
  BY <1>1 DEF FindSlot, SetSlot
<1>2. CASE FindVnode(t) \/ CountUp(t)
  BY <1>2 DEF FindVnode, CountUp
<1>3. CASE ElmOpen(t) \/ ElmClose(t) \/ SoleClose(t)
  BY <1>3 DEF ElmOpen, ElmClose, SoleClose, AssertCounted
<1>9. CASE FirstOpen(t)
  BY <1>9 DEF FirstOpen, Opened
<1>4. CASE FOpen(t)
  BY <1>4, FilSet DEF FOpen, Opened
<1>5. CASE OpenFailed(t) \/ Undo(t) \/ CloseVnode(t)
  BY <1>5 DEF OpenFailed, Undo, CloseVnode
<1>6. CASE FClose(t) \/ LastClose(t)
  BY <1>6 DEF FClose, LastClose
<1>7. CASE Release(t) \/ CountDown(t)
  BY <1>7 DEF Release, CountDown
<1>8. CASE TestOpen(t) \/ FUnlink(t)
  BY <1>8 DEF TestOpen, FUnlink
<1> QED
  BY <1>1, <1>2, <1>3, <1>4, <1>5, <1>6, <1>7, <1>8, <1>9 DEF Step

(* Nobody uses a file at the start.                                          *)
LEMMA UseInit == Init => UseInv
<1> SUFFICES ASSUME Init PROVE UseInv
  OBVIOUS
<1>1. \A t \in Thread : at[t] = "idle" /\ hold[t] = {}
  BY DEF Init
<1> QED
  BY <1>1 DEF UseInv, OneUser, OneSlot, NotHeld, Uses

(* Every step keeps the files that are not shared to one user.               *)
LEMMA UseStep == TypeOK /\ TypeOK' /\ DescInv /\ NodeInv /\ UseInv /\ [Next]_vars => UseInv'
<1> SUFFICES ASSUME TypeOK, TypeOK', DescInv, NodeInv, UseInv, [Next]_vars PROVE UseInv'
  OBVIOUS
<1>1. CASE UNCHANGED vars
  BY <1>1 DEF vars, table, hist, UseInv, OneUser, OneSlot, NotHeld, Uses
<1>2. ASSUME NEW t \in Thread, Step(t) \/ Call(t) PROVE UseInv'
  <2>1. OthersStay(t)
    BY <1>2, OthersStayed
  <2>2. \A u \in Thread : \A s \in hold[u] : s \in Slot /\ fds'[s].path = fds[s].path
    BY <1>2, HeldPaths
  <2>3. \A u \in Thread \ {t} : \A p \in Path : Uses(u, p)' <=> Uses(u, p)
    BY <2>1, <2>2 DEF OthersStay, Uses
  <2>4. CASE Step(t)
    <3>1. /\ at[t] # "idle" /\ path' = path /\ shared' = shared
          /\ at[t] \in {"test", "unlink"} => at'[t] \in {"idle", "unlink"}
          /\ \/ hold' = hold
             \/ /\ at[t] \in SlotAt /\ at'[t] = "idle"
                /\ hold' = [hold EXCEPT ![t] = @ \cup {slot[t]}]
                /\ \A s \in Slot : fds'[s].path = fds[s].path
      BY <2>4, StepHold
    <3>2. at[t] \in SlotAt => fds[slot[t]].path = path[t]
      BY HasSlotAt DEF NodeInv
    <3>4. \A s \in hold'[t] : s \in Slot /\ (s \in hold[t] \/ (s = slot[t] /\ at[t] \in SlotAt /\ fds[s].path = path[t]))
                              /\ fds'[s].path = fds[s].path
      BY <3>1, <3>2, <2>2 DEF TypeOK
    <3>5. \A p \in Path : Uses(t, p)' => Uses(t, p)
      BY <3>1, <3>4 DEF Uses
    <3>6. OneUser'
      BY <2>3, <3>1, <3>5 DEF UseInv, OneUser
    <3>7. ASSUME NEW u \in Thread, NEW r \in hold'[u], NEW s \in hold'[u], fds'[r].path = fds'[s].path
          PROVE  r = s
      <4>1. CASE u = t
        <5>1. at[t] \in SlotAt => \A x \in hold[t] : fds[x].path # path[t]
          BY DEF UseInv, NotHeld, SlotAt
        <5> QED
          BY <3>4, <3>7, <4>1, <5>1 DEF UseInv, OneSlot
      <4>2. CASE u # t
        BY <2>1, <2>2, <3>7, <4>2 DEF OthersStay, UseInv, OneSlot
      <4> QED
        BY <4>1, <4>2
    <3>8. ASSUME NEW u \in Thread, at'[u] \notin {"idle", "test", "unlink"}, NEW s \in hold'[u]
          PROVE  fds'[s].path # path'[u]
      <4>1. CASE u = t
        <5>1. hold'[t] = hold[t] /\ at[t] \notin {"idle", "test", "unlink"}
          BY <3>1, <3>8, <4>1
        <5> QED
          BY <2>2, <3>1, <3>8, <4>1, <5>1 DEF UseInv, NotHeld
      <4>2. CASE u # t
        BY <2>1, <2>2, <3>8, <4>2 DEF OthersStay, UseInv, NotHeld
      <4> QED
        BY <4>1, <4>2
    <3> QED
      BY <3>6, <3>7, <3>8 DEF UseInv, OneSlot, NotHeld
  <2>5. ASSUME NEW p \in Path, NEW l \in Labels, Begins(t, p, l), hold'[t] \subseteq hold[t],
               l \in {"test"} \/ \A s \in hold'[t] : fds[s].path # p
        PROVE  UseInv'
    <3>1. /\ at'[t] = l /\ path'[t] = p /\ fds' = fds
          /\ shared' = IF \E u \in Thread \ {t} : Uses(u, p) THEN shared \cup {p} ELSE shared
      BY <2>5 DEF Begins, Go, TypeOK
    <3>2. \A q \in Path : Uses(t, q)' => Uses(t, q) \/ q = p
      BY <2>5, <3>1 DEF Uses
    <3>3. OneUser'
      <4>1. \A u \in Thread \ {t} : p \in shared' \/ ~Uses(u, p)
        BY <3>1
      <4>2. \A q \in Path \ shared' : q \in Path \ shared
        BY <3>1
      <4> QED
        BY <2>3, <3>2, <4>1, <4>2 DEF UseInv, OneUser
    <3>4. OneSlot'
      BY <2>1, <2>5, <3>1 DEF OthersStay, UseInv, OneSlot
    <3>5. NotHeld'
      BY <2>1, <2>5, <3>1 DEF OthersStay, UseInv, NotHeld
    <3> QED
      BY <3>3, <3>4, <3>5 DEF UseInv
  <2>6. ASSUME NEW p \in Path, CallOpen(t, p) \/ CallUnlink(t, p) PROVE UseInv'
    BY <2>5, <2>6 DEF CallOpen, CallUnlink, Uses, Labels
  <2>7. ASSUME NEW s \in Slot, CallClose(t, s) PROVE UseInv'
    <3>1. hold'[t] = hold[t] \ {s} /\ s \in hold[t] /\ fds[s].path \in Path
      BY <2>7 DEF CallClose, TypeOK
    <3>2. \A r \in hold'[t] : fds[r].path # fds[s].path
      BY <3>1 DEF UseInv, OneSlot
    <3> QED
      BY <2>5, <2>7, <3>1, <3>2 DEF CallClose, Labels
  <2> QED
    BY <1>2, <2>4, <2>6, <2>7 DEF Call
<1> QED
  BY <1>1, <1>2 DEF Next
-----------------------------------------------------------------------------
(* A step in which a file keeps its vnode, its count and its descriptors.   *)
SameFile(p) ==
  /\ On(p)' = On(p) /\ ref'[p] = ref[p]
  /\ p \in vnodes' <=> p \in vnodes
  /\ \A l \in On(p) : fds'[l].fil = fds[l].fil

(* A step that leaves a file alone keeps every form of its count.            *)
LEMMA SameFileKeeps ==
  ASSUME NEW p \in Path, SameFile(p)
  PROVE  /\ None(p)' <=> None(p)
         /\ \A s \in Slot : One(p, s)' <=> One(p, s)
         /\ \A s \in Slot : Undone(p, s)' <=> Undone(p, s)
         /\ \A s \in Slot : Both(p, s)' <=> Both(p, s)
         /\ \A s \in Slot : Left(p, s)' <=> Left(p, s)
         /\ \A s \in Slot : Held(p, s)' <=> Held(p, s)
         /\ Rest(p)' <=> Rest(p)
<1>1. None(p)' <=> None(p)
  BY DEF None, SameFile
<1>2. \A s \in Slot : One(p, s)' <=> One(p, s)
  BY DEF One, SameFile
<1>6. \A s \in Slot : Undone(p, s)' <=> Undone(p, s)
  BY DEF Undone, SameFile
<1>3. \A s \in Slot : Left(p, s)' <=> Left(p, s)
  <2>1. \A s \in Slot : One(p, s) => fds'[s].fil = fds[s].fil
    BY DEF One, SameFile
  <2> QED
    BY <1>2, <2>1 DEF Left
<1>4. \A s, l \in Slot : Two(p, s, l)' <=> Two(p, s, l)
  BY DEF Two, SameFile
<1>5. \A s \in Slot : Both(p, s)' <=> Both(p, s)
  BY <1>4 DEF Both
<1> QED
  BY <1>1, <1>2, <1>3, <1>5, <1>6 DEF Held, Rest

(* A step inside a call touches only its own file.                          *)
LEMMA StepFds ==
  ASSUME TypeOK, DescInv, NodeInv, NEW t \in Thread, Step(t), NEW s \in Slot
  PROVE  \/ fds'[s] = fds[s]
         \/ /\ fds[s].node = "free" \/ fds[s].path = path[t]
            /\ fds'[s].node \in {"free", "none"} \/ fds'[s].path = path[t]
<1>1. /\ at[t] \in SlotAt => fds[slot[t]].path = path[t]
      /\ at[t] = "newSet" => fds[slot[t]].node = "free"
  BY HasSlotAt DEF NodeInv, DescInv, Node
<1> USE DEF SlotAt, TypeOK
<1>2. CASE fds' = fds
  BY <1>2
<1>3. CASE SetSlot(t)
  BY <1>1, <1>3 DEF SetSlot
<1>4. CASE FindVnode(t)
  BY <1>1, <1>4 DEF FindVnode, Attach
<1>5. CASE CountUp(t)
  BY <1>1, <1>5 DEF CountUp, Attach
<1>6. CASE FOpen(t) /\ fds' # fds
  BY <1>1, <1>6, FilSet DEF FOpen
<1>7. CASE FClose(t)
  BY <1>1, <1>7 DEF FClose
<1>8. CASE Undo(t) \/ LastClose(t)
  BY <1>1, <1>8 DEF Undo, LastClose, FreeVnode
<1>9. CASE Release(t) \/ CountDown(t)
  BY <1>1, <1>9, FreeFdType DEF Release, CountDown
<1>10. FindSlot(t) \/ ElmOpen(t) \/ ElmClose(t) \/ SoleClose(t) => fds' = fds
  BY DEF FindSlot, ElmOpen, ElmClose, SoleClose, AssertCounted
<1>11. FirstOpen(t) \/ OpenFailed(t) \/ CloseVnode(t) \/ TestOpen(t) \/ FUnlink(t) => fds' = fds
  BY DEF FirstOpen, OpenFailed, CloseVnode, TestOpen, FUnlink
<1> QED
  BY <1>2, <1>3, <1>4, <1>5, <1>6, <1>7, <1>8, <1>9, <1>10, <1>11 DEF Step

(* A step changes the count and the vnode of its own file only.              *)
LEMMA StepTable ==
  ASSUME TypeOK, NEW t \in Thread, Step(t), NEW p \in Path, p # path[t]
  PROVE  ref'[p] = ref[p] /\ (p \in vnodes' <=> p \in vnodes)
<1> USE DEF TypeOK, table
<1>1. CASE FindVnode(t) \/ CountUp(t) \/ CountDown(t)
  BY <1>1 DEF FindVnode, CountUp, CountDown
<1>2. CASE OpenFailed(t) \/ Undo(t) \/ LastClose(t)
  BY <1>2 DEF OpenFailed, Undo, LastClose, FreeVnode
<1>3. FindSlot(t) \/ SetSlot(t) \/ FirstOpen(t) \/ FOpen(t) \/ CloseVnode(t) \/ FClose(t)
      \/ Release(t) \/ TestOpen(t) \/ FUnlink(t) => UNCHANGED <<vnodes, ref>>
  BY DEF FindSlot, SetSlot, FirstOpen, FOpen, CloseVnode, FClose, Release, TestOpen, FUnlink
<1>4. ElmOpen(t) \/ ElmClose(t) \/ SoleClose(t) => UNCHANGED <<vnodes, ref>>
  BY DEF ElmOpen, ElmClose, SoleClose, AssertCounted
<1> QED
  BY <1>1, <1>2, <1>3, <1>4 DEF Step

(* A step leaves every other file alone.                                     *)
LEMMA StepFrame ==
  ASSUME TypeOK, DescInv, NodeInv, NEW t \in Thread, Step(t), NEW p \in Path, p # path[t]
  PROVE  SameFile(p)
<1>1. \A s \in Slot : fds'[s].node = "live" /\ fds'[s].path = p => fds'[s] = fds[s]
  BY StepFds
<1>2. \A s \in Slot : fds[s].node = "live" /\ fds[s].path = p => fds'[s] = fds[s]
  BY StepFds
<1>3. On(p)' = On(p)
  BY <1>1, <1>2 DEF On
<1>4. \A l \in On(p) : fds'[l].fil = fds[l].fil
  BY <1>2 DEF On
<1> QED
  BY <1>3, <1>4, StepTable DEF SameFile

(* The beginning of a call leaves every file alone.                          *)
LEMMA CallFrame ==
  ASSUME NEW t \in Thread, Call(t), NEW p \in Path
  PROVE  SameFile(p)
<1>1. fds' = fds /\ UNCHANGED <<vnodes, ref>>
  BY DEF Call, CallOpen, CallClose, CallUnlink, Begins, table
<1> QED
  BY <1>1 DEF SameFile, On

(* A file that is used by one thread is worked on by no other.              *)
LEMMA Alone ==
  ASSUME UseInv, NEW p \in Path \ shared, NEW t \in Thread, Uses(t, p), NEW u \in Thread \ {t}
  PROVE  (path[u] = p => at[u] = "idle") /\ \A s \in hold[u] : fds[s].path # p
  BY DEF UseInv, OneUser, Uses

(* No count is wrong at the start.                                           *)
LEMMA CountInit == Init => CountInv
<1> SUFFICES ASSUME Init, NEW p \in Path PROVE CountOK(p)
  BY DEF CountInv
<1>1. \A t \in Thread : at[t] = "idle" /\ hold[t] = {}
  BY DEF Init
<1>2. None(p)
  BY FreeFdType DEF Init, None, On
<1> QED
  BY <1>1, <1>2 DEF CountOK, Rest

(* A step on another file.                                                  *)
LEMMA CountFrame ==
  ASSUME TypeOK, TypeOK', DescInv, NodeInv, UseInv, NEW t \in Thread, Step(t),
         NEW p \in Path, p # path[t], CountOK(p)
  PROVE  CountOK(p)'
<1>1. SameFile(p) /\ OthersStay(t)
  BY StepFrame, OthersStayed
<1>2. \A u \in Thread : \A s \in hold[u] : s \in Slot /\ fds'[s].path = fds[s].path
  BY HeldPaths
<1>3. /\ path' = path
      /\ \A s \in hold'[t] : fds'[s].path = p => s \in hold[t]
      /\ \A s \in hold[t] : fds[s].path = p => s \in hold'[t]
  <2>1. at[t] \in SlotAt => fds[slot[t]].path = path[t]
    BY HasSlotAt DEF NodeInv
  <2> QED
    BY <1>2, <2>1, StepHold DEF TypeOK
<1>4. \A u \in Thread : \A s \in hold'[u] : fds'[s].path = p => s \in hold[u] /\ fds[s].path = p
  BY <1>1, <1>2, <1>3 DEF OthersStay
<1>5. \A u \in Thread : \A s \in hold[u] : fds[s].path = p => s \in hold'[u] /\ fds'[s].path = p
  BY <1>1, <1>2, <1>3 DEF OthersStay
<1>6. Free(p)' => Free(p)
  BY <1>1, <1>3, <1>5 DEF Free, OthersStay
<1>7. ASSUME Free(p)' PROVE Rest(p)'
  BY <1>1, <1>6, <1>7, SameFileKeeps DEF CountOK
<1>8. ASSUME NEW u \in Thread, NEW s \in hold'[u], fds'[s].path = p PROVE Held(p, s)'
  <2>1. s \in Slot /\ Held(p, s)
    BY <1>2, <1>4, <1>8 DEF CountOK
  <2> QED
    BY <1>1, <2>1, SameFileKeeps
<1>9. ASSUME NEW u \in Thread, path'[u] = p, at'[u] # "idle" PROVE Stage(u, p, slot[u])'
  <2>1. u # t /\ path[u] = p /\ at'[u] = at[u] /\ reg'[u] = reg[u] /\ slot'[u] = slot[u] /\ slot[u] \in Slot
    BY <1>1, <1>3, <1>9 DEF OthersStay, TypeOK
  <2>2. Stage(u, p, slot[u])
    BY <1>9, <2>1 DEF CountOK
  <2>3. at[u] \in SlotAt => fds'[slot[u]].node = fds[slot[u]].node
    <3>1. at[u] \in SlotAt => fds[slot[u]].node # "free" /\ fds[slot[u]].path = p
      BY <2>1, HasSlotAt DEF NodeInv, DescInv, DescriptorsExclusive, Owned
    <3> QED
      BY <2>1, <3>1, StepFds
  <2> QED
    BY <1>1, <2>1, <2>2, <2>3, SameFileKeeps DEF Stage, Node, SlotAt
<1> QED
  BY <1>7, <1>8, <1>9 DEF CountOK

(* A step of the only user of a file.                                       *)
LEMMA CountOwn ==
  ASSUME TypeOK, TypeOK', UseInv, NEW t \in Thread, OthersStay(t), Uses(t, path'[t]),
         NEW p \in Path \ shared, path'[t] = p,
         \A u \in Thread : \A s \in hold[u] : fds'[s].path = fds[s].path,
         at'[t] \notin Stages /\ (\A s \in hold'[t] : fds'[s].path # p) => Rest(p)',
         \A s \in hold'[t] : fds'[s].path = p => Held(p, s)',
         at'[t] # "idle" => Stage(t, p, slot[t])'
  PROVE  CountOK(p)'
<1>1. \A u \in Thread \ {t} : (path[u] = p => at[u] = "idle") /\ \A s \in hold[u] : fds[s].path # p
  BY Alone
<1>2. \A u \in Thread \ {t} : (path'[u] = p => at'[u] = "idle") /\ \A s \in hold'[u] : fds'[s].path # p
  BY <1>1 DEF OthersStay
<1>3. Free(p)' => Rest(p)'
  BY DEF Free
<1>4. \A u \in Thread : \A s \in hold'[u] : fds'[s].path = p => Held(p, s)'
  BY <1>2
<1>5. ASSUME NEW u \in Thread, path'[u] = p, at'[u] # "idle" PROVE Stage(u, p, slot[u])'
  <2>1. u = t
    BY <1>2, <1>5
  <2> QED
    BY <1>5, <2>1
<1> QED
  BY <1>3, <1>4, <1>5 DEF CountOK

(* A step of the only user of a file keeps its count right.                  *)
LEMMA CountStepOwn ==
  ASSUME TypeOK, TypeOK', DescInv, NodeInv, UseInv, NEW t \in Thread, Step(t),
         NEW p \in Path \ shared, p = path[t], CountOK(p)
  PROVE  CountOK(p)'
<1>1. /\ OthersStay(t) /\ at[t] # "idle" /\ path'[t] = p /\ Uses(t, path'[t])
      /\ \A u \in Thread : \A r \in hold[u] : fds'[r].path = fds[r].path
  <2>1. at[t] # "idle" /\ path' = path
    BY StepHold
  <2>2. OthersStay(t)
    BY OthersStayed
  <2>3. \A u \in Thread : \A r \in hold[u] : fds'[r].path = fds[r].path
    BY HeldPaths
  <2> QED
    BY <2>1, <2>2, <2>3 DEF Uses
<1> USE <1>1
<1>2. PICK s \in Slot : s = slot[t]
  BY DEF TypeOK
<1>3. Stage(t, p, s)
  BY <1>2 DEF CountOK
<1>4. at[t] \in SlotAt => fds[s].path = p
  BY <1>2, HasSlotAt DEF NodeInv
<1>5. at[t] \notin {"test", "unlink"} => \A r \in hold[t] : fds[r].path # p
  BY DEF UseInv, NotHeld
<1>6. at[t] \in {"new", "newSet", "find"} => Rest(p)
  <2>1. \A u \in Thread \ {t} : (path[u] = p => at[u] = "idle") /\ \A r \in hold[u] : fds[r].path # p
    BY Alone
  <2> QED
    BY <1>5, <2>1 DEF CountOK, Free, Stages
(* The three ways a step may end. *)
<1>7. ASSUME at[t] \notin {"test", "unlink"}, hold' = hold, slot'[t] = s, at'[t] \in Stages, Stage(t, p, s)'
      PROVE  CountOK(p)'
  <2>1. \A r \in hold'[t] : fds'[r].path # p
    BY <1>5, <1>7
  <2>2. Stage(t, p, slot[t])'
    BY <1>7 DEF Stage, Node
  <2> QED
    BY <1>7, <2>1, <2>2, CountOwn
<1>8. ASSUME at[t] \notin {"test", "unlink"}, hold' = hold, at'[t] \in {"newSet", "idle"}, Rest(p)'
      PROVE  CountOK(p)'
  <2>1. \A r \in hold'[t] : fds'[r].path # p
    BY <1>5, <1>8
  <2>2. Stage(t, p, slot[t])'
    BY <1>8 DEF Stage
  <2> QED
    BY <1>8, <2>1, <2>2, CountOwn
<1>9. ASSUME at[t] \in SlotAt, Opened(t), Held(p, s)', fds'[s].path = p
      PROVE  CountOK(p)'
  <2>1. hold'[t] = hold[t] \cup {s} /\ at'[t] = "idle"
    BY <1>2, <1>9 DEF Opened, Go, TypeOK
  <2>2. \A r \in hold'[t] : fds'[r].path = p => r = s
    BY <1>5, <1>9, <2>1 DEF SlotAt
  <2> QED
    BY <1>9, <2>1, <2>2, CountOwn
<1>10. ASSUME fds' = fds, UNCHANGED <<vnodes, ref>> PROVE SameFile(p)
  BY <1>10 DEF SameFile, On
<1>11. CASE FindSlot(t)
  <2>1. fds' = fds /\ UNCHANGED <<vnodes, ref>> /\ hold' = hold /\ at[t] = "new" /\ at'[t] \in {"newSet", "idle"}
    BY <1>11 DEF FindSlot, Go, TypeOK, table
  <2> QED
    BY <1>6, <1>8, <1>10, <2>1, SameFileKeeps
<1>12. CASE SetSlot(t)
  <2>1. /\ at[t] = "newSet" /\ at'[t] = "find" /\ UNCHANGED <<vnodes, ref, hold, slot>> /\ fds[s].node = "free"
        /\ fds' = [fds EXCEPT ![s] = [path |-> path[t], node |-> "none", fil |-> FALSE]]
    BY <1>2, <1>12 DEF SetSlot, Go, DescInv, Node, TypeOK, table
  <2>2. fds'[s].node = "none" /\ \A r \in Slot \ {s} : fds'[r] = fds[r]
    BY <2>1 DEF TypeOK
  <2>3. SameFile(p)
    BY <2>1, <2>2 DEF SameFile, On
  <2>4. Rest(p)'
    BY <1>6, <2>1, <2>3, SameFileKeeps
  <2>5. Stage(t, p, slot[t])'
    BY <1>2, <2>1, <2>2 DEF Stage, Node
  <2>6. \A r \in hold'[t] : fds'[r].path # p
    BY <1>5, <2>1
  <2> QED
    BY <2>1, <2>4, <2>5, <2>6, CountOwn
<1>13. CASE FindVnode(t)
  <2>1. at[t] = "find" /\ fds[s].node = "none" /\ Rest(p) /\ fds[s].path = p
    BY <1>3, <1>4, <1>6, <1>13 DEF FindVnode, Stage, Node, SlotAt
  <2>2. CASE p \in vnodes
    <3>1. PICK l \in Slot : Left(p, l)
      BY <2>1, <2>2 DEF Rest, None
    <3>2. /\ at'[t] = "count" /\ UNCHANGED <<vnodes, ref, hold, slot>> /\ reg'[t] = ref[p]
          /\ fds' = [fds EXCEPT ![s].node = "found"]
      BY <1>2, <1>13, <2>2 DEF FindVnode, Go, TypeOK, table
    <3>3. fds'[s].node = "found" /\ \A r \in Slot \ {s} : fds'[r] = fds[r]
      BY <3>2 DEF TypeOK
    <3>4. SameFile(p)
      BY <2>1, <3>2, <3>3 DEF SameFile, On
    <3>5. Left(p, l)' /\ reg'[t] = 1
      BY <3>1, <3>2, <3>4, SameFileKeeps DEF Left, One
    <3> QED
      BY <1>2, <1>7, <2>1, <3>2, <3>3, <3>5 DEF Stage, Node, Stages
  <2>3. CASE p \notin vnodes
    <3>1. None(p)
      BY <2>1, <2>3 DEF Rest, Left, One
    <3>2. /\ at'[t] = "elm" /\ UNCHANGED <<hold, slot>> /\ p \in vnodes' /\ ref'[p] = 1
          /\ fds' = [fds EXCEPT ![s].node = "live"]
      BY <1>2, <1>13, <2>3 DEF FindVnode, Attach, Go, TypeOK
    <3>3. fds'[s].node = "live" /\ fds'[s].path = p /\ \A r \in Slot \ {s} : fds'[r] = fds[r]
      BY <2>1, <3>2 DEF TypeOK
    <3>4. On(p)' = {s}
      BY <3>1, <3>3 DEF None, On
    <3> QED
      BY <1>2, <1>7, <2>1, <3>2, <3>4 DEF Stage, One, Stages
  <2> QED
    BY <2>2, <2>3
<1>14. CASE CountUp(t)
  <2>1. at[t] = "count" /\ reg[t] = 1 /\ fds[s].node = "found" /\ fds[s].path = p
    BY <1>3, <1>4, <1>14 DEF CountUp, Stage, Node, SlotAt
  <2>2. PICK l \in Slot : Left(p, l)
    BY <1>3, <2>1 DEF Stage
  <2>3. /\ at'[t] = "elm" /\ UNCHANGED <<hold, slot, vnodes>> /\ ref'[p] = 2
        /\ fds' = [fds EXCEPT ![s].node = "live"]
    BY <1>2, <1>14, <2>1 DEF CountUp, Dangling, Attach, Go, TypeOK
  <2>4. fds'[s].node = "live" /\ fds'[s].path = p /\ \A r \in Slot \ {s} : fds'[r] = fds[r]
    BY <2>1, <2>3 DEF TypeOK
  <2>5. l # s /\ On(p) = {l} /\ p \in vnodes
    BY <2>1, <2>2 DEF Left, One, On
  <2>6. On(p)' = {s, l} /\ fds'[l] = fds[l]
    BY <2>4, <2>5 DEF On
  <2>7. Both(p, s)'
    BY <2>2, <2>3, <2>5, <2>6 DEF Both, Two, Left
  <2> QED
    BY <1>2, <1>7, <2>1, <2>3, <2>7 DEF Stage, Stages
(* One or both: a descriptor that is on the file. *)
<1>15. \A x \in Slot : One(p, x) \/ Both(p, x) \/ Left(p, x) \/ Held(p, x) =>
         p \in vnodes /\ fds[x].node = "live" /\ fds[x].path = p
  <2>1. \A x \in Slot : One(p, x) \/ Both(p, x) => x \in On(p) /\ p \in vnodes
    BY DEF One, Both, Two
  <2>2. \A x \in Slot : Left(p, x) \/ Held(p, x) => One(p, x) \/ Both(p, x)
    BY DEF Left, Held
  <2> QED
    BY <2>1, <2>2 DEF On
<1>16. \A x \in Slot : /\ One(p, x) => ref[p] = 1
                       /\ Both(p, x) => ref[p] = 2
                       /\ Left(p, x) => ref[p] = 1 /\ fds[x].fil
                       /\ Held(p, x) => (Left(p, x) \/ Both(p, x))
  BY DEF One, Both, Two, Left, Held
<1>17. CASE ElmOpen(t)
  <2>1. at[t] = "elm" /\ (One(p, s) \/ Both(p, s))
    BY <1>3, <1>17 DEF ElmOpen, Stage
  <2>2. fds' = fds /\ UNCHANGED <<vnodes, ref, slot, hold>> /\ ~Dangling(t)
    BY <1>2, <1>15, <1>17, <2>1 DEF ElmOpen, AssertCounted, Dangling, table
  <2>3. at'[t] = "first"
    BY <1>16, <1>17, <2>1, <2>2 DEF ElmOpen, AssertCounted, Go, TypeOK
  <2>4. One(p, s)' \/ Both(p, s)'
    BY <1>10, <2>1, <2>2, SameFileKeeps
  <2> QED
    BY <1>2, <1>7, <2>1, <2>2, <2>3, <2>4 DEF Stage, Stages
<1>27. CASE FirstOpen(t)
  <2>1. at[t] = "first" /\ (One(p, s) \/ Both(p, s))
    BY <1>3, <1>27 DEF FirstOpen, Stage
  <2>2. fds' = fds /\ UNCHANGED <<vnodes, ref, slot>> /\ ~Dangling(t)
    BY <1>2, <1>15, <1>27, <2>1 DEF FirstOpen, Dangling, table
  <2>3. SameFile(p)
    BY <1>10, <2>2
  <2>4. CASE One(p, s)
    <3>1. at'[t] = "fopen" /\ hold' = hold /\ One(p, s)'
      BY <1>16, <1>27, <2>2, <2>3, <2>4, SameFileKeeps DEF FirstOpen, Go, TypeOK
    <3> QED
      BY <1>2, <1>7, <2>1, <2>2, <3>1 DEF Stage, Stages
  <2>5. CASE Both(p, s)
    <3>1. Opened(t) /\ Held(p, s)' /\ fds'[s].path = p
      BY <1>15, <1>16, <1>27, <2>2, <2>3, <2>5, SameFileKeeps DEF FirstOpen, Held
    <3> QED
      BY <1>9, <2>1, <3>1 DEF SlotAt
  <2> QED
    BY <2>1, <2>4, <2>5
<1>18. CASE FOpen(t)
  <2>1. at[t] = "fopen" /\ One(p, s)
    BY <1>3, <1>18 DEF FOpen, Stage
  <2>2. UNCHANGED <<vnodes, ref, slot>> /\ ~Dangling(t)
    BY <1>2, <1>15, <1>18, <2>1 DEF FOpen, Dangling, table
  <2>3. CASE fds' = [fds EXCEPT ![slot[t]].fil = TRUE] /\ Opened(t)
    <3>1. /\ \A r \in Slot : fds'[r].path = fds[r].path /\ fds'[r].node = fds[r].node
          /\ fds'[s].fil
      BY <1>2, <2>3, FilSet
    <3>2. On(p)' = On(p)
      BY <3>1 DEF On
    <3>3. Left(p, s)'
      BY <2>1, <2>2, <3>1, <3>2 DEF Left, One
    <3>4. Held(p, s)' /\ fds'[s].path = p
      BY <1>15, <2>1, <3>1, <3>3 DEF Held
    <3> QED
      BY <1>9, <2>1, <2>3, <3>4 DEF SlotAt
  <2>4. CASE reg' = [reg EXCEPT ![t] = ref[path[t]]] /\ Go(t, "failed") /\ UNCHANGED <<hold, fds>>
    <3>1. at'[t] = "failed" /\ reg'[t] = 1
      BY <1>16, <2>1, <2>4 DEF Go, TypeOK
    <3>2. One(p, s)'
      BY <1>10, <2>1, <2>2, <2>4, SameFileKeeps
    <3> QED
      BY <1>2, <1>7, <2>1, <2>2, <2>4, <3>1, <3>2 DEF Stage, Stages
  <2> QED
    BY <1>18, <2>2, <2>3, <2>4 DEF FOpen
<1>19. ASSUME FreeVnode(p, s), On(p) = {s}, at[t] \in SlotAt, at'[t] = "release", hold' = hold, slot' = slot
       PROVE  CountOK(p)'
  <2>1. fds'[s].node = "none" /\ \A r \in Slot \ {s} : fds'[r].node = "live" => fds'[r] = fds[r]
    BY <1>19 DEF FreeVnode, TypeOK
  <2>2. On(p)' = {}
    BY <1>19, <2>1 DEF On
  <2>3. None(p)' /\ Node(s)' = "none"
    BY <1>19, <2>1, <2>2 DEF None, FreeVnode, Node
  <2> QED
    BY <1>2, <1>7, <1>19, <2>3 DEF Stage, Stages, SlotAt
<1>20. CASE OpenFailed(t)
  <2>1. at[t] = "failed" /\ One(p, s) /\ reg[t] = 1
    BY <1>3, <1>20 DEF OpenFailed, Stage
  <2>2. ~Dangling(t)
    BY <1>2, <1>15, <2>1 DEF Dangling
  <2>3. at'[t] = "undo" /\ UNCHANGED <<fds, vnodes, hold, slot>> /\ ref'[p] = 0
    BY <1>20, <2>1, <2>2 DEF OpenFailed, Go, TypeOK
  <2>4. Undone(p, s)'
    BY <2>1, <2>3 DEF Undone, One, On
  <2> QED
    BY <1>2, <1>7, <2>1, <2>3, <2>4 DEF Stage, Stages
<1>28. CASE Undo(t)
  <2>1. at[t] = "undo" /\ On(p) = {s} /\ ref[p] = 0
    BY <1>3, <1>28 DEF Undo, Stage, Undone
  <2>2. ~Dangling(t)
    BY <1>2, <2>1 DEF Dangling, On
  <2>3. FreeVnode(p, s) /\ at'[t] = "release" /\ hold' = hold /\ slot' = slot
    BY <1>2, <1>28, <2>1, <2>2 DEF Undo, Go, TypeOK
  <2> QED
    BY <1>19, <2>1, <2>3 DEF SlotAt
<1>21. CASE CloseVnode(t)
  <2>1. at[t] = "close" /\ Held(p, s)
    BY <1>3, <1>21 DEF CloseVnode, Stage
  <2>2. fds' = fds /\ UNCHANGED <<vnodes, ref, slot, hold>> /\ ~Dangling(t)
    BY <1>2, <1>15, <1>21, <2>1 DEF CloseVnode, Dangling, table
  <2>3. at'[t] = "elmClose"
    BY <1>16, <1>21, <2>1, <2>2 DEF CloseVnode, Go, TypeOK
  <2>4. Held(p, s)'
    BY <1>10, <2>1, <2>2, SameFileKeeps
  <2> QED
    BY <1>2, <1>7, <2>1, <2>2, <2>3, <2>4 DEF Stage, Stages
<1>29. CASE ElmClose(t)
  <2>1. at[t] = "elmClose" /\ Held(p, s)
    BY <1>3, <1>29 DEF ElmClose, Stage
  <2>2. fds' = fds /\ UNCHANGED <<vnodes, ref, slot, hold>> /\ ~Dangling(t)
    BY <1>2, <1>15, <1>29, <2>1 DEF ElmClose, AssertCounted, Dangling, table
  <2>3. at'[t] = "sole"
    BY <1>16, <1>29, <2>1, <2>2 DEF ElmClose, AssertCounted, Go, TypeOK
  <2>4. Held(p, s)'
    BY <1>10, <2>1, <2>2, SameFileKeeps
  <2> QED
    BY <1>2, <1>7, <2>1, <2>2, <2>3, <2>4 DEF Stage, Stages
<1>30. CASE SoleClose(t)
  <2>1. at[t] = "sole" /\ Held(p, s)
    BY <1>3, <1>30 DEF SoleClose, Stage
  <2>2. fds' = fds /\ UNCHANGED <<vnodes, ref, slot, hold>> /\ ~Dangling(t)
    BY <1>2, <1>15, <1>30, <2>1 DEF SoleClose, Dangling, table
  <2>3. SameFile(p)
    BY <1>10, <2>2
  <2>4. CASE Left(p, s)
    <3>1. ref[p] = 1 /\ fds[s].fil
      BY <1>16, <2>4
    <3>2. at'[t] = "fclose"
      BY <1>2, <1>30, <2>2, <3>1 DEF SoleClose, Go, TypeOK
    <3>3. Left(p, s)'
      BY <2>3, <2>4, SameFileKeeps
    <3> QED
      BY <1>2, <1>7, <2>1, <2>2, <3>2, <3>3 DEF Stage, Stages
  <2>5. CASE Both(p, s)
    <3>1. ref[p] = 2
      BY <1>16, <2>5
    <3>2. at'[t] = "last"
      BY <1>2, <1>30, <2>2, <3>1 DEF SoleClose, Go, TypeOK
    <3>3. Both(p, s)'
      BY <2>3, <2>5, SameFileKeeps
    <3> QED
      BY <1>2, <1>7, <2>1, <2>2, <3>2, <3>3 DEF Stage, Stages
  <2> QED
    BY <1>16, <2>1, <2>4, <2>5
<1>22. CASE FClose(t)
  <2>1. at[t] = "fclose" /\ Left(p, s) /\ UNCHANGED <<vnodes, ref, slot, hold>>
    BY <1>3, <1>22 DEF FClose, Stage, table
  <2>2. CASE fds' = [fds EXCEPT ![slot[t]].fil = FALSE] /\ Go(t, "last")
    <3>1. \A r \in Slot : fds'[r].path = fds[r].path /\ fds'[r].node = fds[r].node
      BY <2>2 DEF TypeOK
    <3>2. One(p, s)'
      BY <2>1, <3>1 DEF Left, One, On
    <3>3. at'[t] = "last"
      BY <2>2 DEF Go, TypeOK
    <3> QED
      BY <1>2, <1>7, <2>1, <3>2, <3>3 DEF Stage, Stages
  <2>3. CASE fds' = fds /\ at'[t] = "idle"
    <3>1. Rest(p)'
      BY <1>10, <2>1, <2>3, SameFileKeeps DEF Rest
    <3> QED
      BY <1>8, <2>1, <2>3, <3>1
  <2> QED
    <3>1. ~Dangling(t)
      BY <1>2, <1>15, <2>1 DEF Dangling
    <3> QED
      BY <1>22, <2>2, <2>3, <3>1 DEF FClose, Go, TypeOK
<1>23. CASE LastClose(t)
  <2>1. at[t] = "last" /\ (One(p, s) \/ Both(p, s))
    BY <1>3, <1>23 DEF LastClose, Stage
  <2>2. ~Dangling(t) /\ UNCHANGED <<ref, slot, hold>>
    BY <1>2, <1>15, <1>23, <2>1 DEF LastClose, Dangling
  <2>3. at'[t] = "release"
    BY <1>23, <2>2 DEF LastClose, Go, TypeOK
  <2>4. CASE One(p, s)
    <3>1. FreeVnode(p, s)
      BY <1>2, <1>16, <1>23, <2>2, <2>4 DEF LastClose
    <3> QED
      BY <1>19, <2>1, <2>2, <2>3, <2>4, <3>1 DEF SlotAt, One
  <2>5. CASE Both(p, s)
    <3>1. fds' = fds /\ vnodes' = vnodes
      BY <1>16, <1>23, <2>2, <2>5 DEF LastClose
    <3>2. Both(p, s)'
      BY <1>10, <2>2, <2>5, <3>1, SameFileKeeps
    <3> QED
      BY <1>2, <1>7, <2>1, <2>2, <2>3, <3>2 DEF Stage, Stages
  <2> QED
    BY <2>1, <2>4, <2>5
<1>24. CASE Release(t)
  <2>1. at[t] = "release" /\ ((Node(s) = "none" /\ None(p)) \/ Both(p, s)) /\ UNCHANGED <<vnodes, ref, slot, hold>>
    BY <1>3, <1>24 DEF Release, Stage, table
  <2>2. CASE Node(s) = "none" /\ None(p)
    <3>1. fds' = [fds EXCEPT ![s] = FreeFd] /\ at'[t] = "idle"
      BY <1>2, <1>24, <2>2 DEF Release, Dangling, Node, Go, TypeOK
    <3>2. fds'[s].node = "free" /\ \A r \in Slot \ {s} : fds'[r] = fds[r]
      BY <3>1, FreeFdType DEF TypeOK
    <3>3. On(p)' = {}
      BY <2>2, <3>2 DEF None, On
    <3>4. Rest(p)'
      BY <2>1, <2>2, <3>3 DEF Rest, None
    <3> QED
      BY <1>8, <2>1, <3>1, <3>4
  <2>3. CASE Both(p, s)
    <3>1. fds[s].node = "live" /\ ref[p] = 2
      BY <1>15, <1>16, <2>3
    <3>2. fds' = fds /\ reg'[t] = 2 /\ at'[t] = "countDown"
      BY <1>2, <1>24, <3>1 DEF Release, Dangling, Go, TypeOK
    <3>3. Both(p, s)'
      BY <1>10, <2>1, <2>3, <3>2, SameFileKeeps
    <3> QED
      BY <1>2, <1>7, <2>1, <3>2, <3>3 DEF Stage, Stages
  <2> QED
    BY <2>1, <2>2, <2>3
<1>25. CASE CountDown(t)
  <2>1. at[t] = "countDown" /\ Both(p, s) /\ reg[t] = 2 /\ UNCHANGED <<vnodes, slot, hold>>
    BY <1>3, <1>25 DEF CountDown, Stage
  <2>2. ~Dangling(t)
    BY <1>2, <1>15, <2>1 DEF Dangling
  <2>3. fds' = [fds EXCEPT ![s] = FreeFd] /\ at'[t] = "idle" /\ ref'[p] = 1
    BY <1>2, <1>25, <2>1, <2>2 DEF CountDown, Go, TypeOK
  <2>4. fds'[s].node = "free" /\ \A r \in Slot \ {s} : fds'[r] = fds[r]
    BY <2>3, FreeFdType DEF TypeOK
  <2>5. PICK l \in Slot : Two(p, s, l)
    BY <2>1 DEF Both
  <2>6. On(p)' = {l} /\ fds'[l] = fds[l]
    BY <2>4, <2>5 DEF Two, On
  <2>7. Left(p, l)'
    BY <2>1, <2>3, <2>5, <2>6 DEF Left, One, Two
  <2>8. Rest(p)'
    BY <2>7 DEF Rest
  <2> QED
    BY <1>8, <2>1, <2>3, <2>8
<1>26. CASE TestOpen(t) \/ FUnlink(t)
  <2>1. /\ at[t] \in {"test", "unlink"} /\ at'[t] \in {"idle", "unlink"}
        /\ UNCHANGED <<fds, vnodes, ref, slot, hold>>
    BY <1>26 DEF TestOpen, FUnlink, Go, TypeOK, table
  <2>2. SameFile(p)
    BY <1>10, <2>1
  <2>3. \A u \in Thread \ {t} : (path[u] = p => at[u] = "idle") /\ \A r \in hold[u] : fds[r].path # p
    BY Alone
  <2>4. ASSUME \A r \in hold'[t] : fds'[r].path # p PROVE Rest(p)'
    <3>1. Free(p)
      BY <2>1, <2>3, <2>4 DEF Free, Stages
    <3> QED
      BY <2>2, <3>1, SameFileKeeps DEF CountOK
  <2>5. ASSUME NEW r \in hold'[t], fds'[r].path = p PROVE Held(p, r)'
    <3>1. r \in Slot /\ Held(p, r)
      BY <2>1, <2>5 DEF CountOK, TypeOK
    <3> QED
      BY <2>2, <3>1, SameFileKeeps
  <2>6. Stage(t, p, slot[t])'
    BY <2>1 DEF Stage
  <2> QED
    BY <2>1, <2>4, <2>5, <2>6, CountOwn
<1> QED
  BY <1>11, <1>12, <1>13, <1>14, <1>17, <1>18, <1>20, <1>21, <1>22, <1>23, <1>24, <1>25, <1>26,
     <1>27, <1>28, <1>29, <1>30 DEF Step

(* A call that begins.                                                      *)
LEMMA CountCall ==
  ASSUME TypeOK, TypeOK', DescInv, UseInv, NEW t \in Thread, Call(t),
         NEW p \in Path \ shared', CountOK(p)
  PROVE  CountOK(p)'
<1>1. SameFile(p) /\ OthersStay(t) /\ fds' = fds /\ p \in Path \ shared
  BY CallFrame, OthersStayed DEF Call, CallOpen, CallClose, CallUnlink, Begins
<1>2. PICK q \in Path, l \in {"new", "test", "close"} :
        /\ Begins(t, q, l)
        /\ l = "new" => ~Uses(t, q)
        /\ l # "close" => hold' = hold
        /\ l = "close" => /\ slot'[t] \in hold[t] /\ fds[slot'[t]].path = q
                          /\ hold'[t] = hold[t] \ {slot'[t]}
  BY FdsType DEF Call, CallOpen, CallClose, CallUnlink, TypeOK
<1>3. at[t] = "idle" /\ at'[t] = l /\ path'[t] = q
  BY <1>2 DEF Begins, Go, TypeOK
<1>4. hold'[t] \subseteq hold[t] /\ hold[t] \subseteq Slot
  BY <1>2 DEF TypeOK
<1>5. \A u \in Thread \ {t} : p = q => ~Uses(u, p)
  BY <1>2 DEF Begins
<1>6. ASSUME Free(p)' PROVE Rest(p)'
  <2>1. Free(p)
    <3>1. \A r \in hold[t] : fds[r].path # p
      <4>1. CASE l = "close"
        <5>1. q # p
          BY <1>3, <1>6, <4>1 DEF Free, Stages
        <5> QED
          BY <1>1, <1>2, <1>6, <4>1, <5>1 DEF Free
      <4>2. CASE l # "close"
        BY <1>1, <1>2, <1>6, <4>2 DEF Free
      <4> QED
        BY <4>1, <4>2
    <3> QED
      BY <1>1, <1>3, <1>6, <3>1 DEF Free, OthersStay, Stages
  <2> QED
    BY <1>1, <2>1, SameFileKeeps DEF CountOK
<1>7. ASSUME NEW u \in Thread, NEW r \in hold'[u], fds'[r].path = p PROVE Held(p, r)'
  <2>1. r \in hold[u] /\ r \in Slot
    BY <1>1, <1>4, <1>7 DEF OthersStay, TypeOK
  <2> QED
    BY <1>1, <1>7, <2>1, SameFileKeeps DEF CountOK
<1>8. ASSUME NEW u \in Thread, path'[u] = p, at'[u] # "idle" PROVE Stage(u, p, slot[u])'
  <2>1. CASE u = t
    <3>1. CASE l = "close"
      <4>1. slot'[t] \in Slot /\ Held(p, slot'[t])
        BY <1>2, <1>3, <1>4, <1>8, <2>1, <3>1 DEF CountOK
      <4>2. PICK s \in Slot : s = slot'[t]
        BY <4>1
      <4>3. Held(p, s)'
        BY <1>1, <4>1, <4>2, SameFileKeeps
      <4>4. Stage(t, p, s)'
        BY <1>3, <3>1, <4>3 DEF Stage
      <4> QED
        BY <2>1, <4>2, <4>4 DEF Stage, Node
    <3>2. CASE l # "close"
      BY <1>3, <2>1, <3>2 DEF Stage
    <3> QED
      BY <3>1, <3>2
  <2>2. CASE u # t
    <3>1. PICK s \in Slot : s = slot[u]
      BY DEF TypeOK
    <3>2. at'[u] = at[u] /\ reg'[u] = reg[u] /\ slot'[u] = s /\ Stage(u, p, s)
      BY <1>1, <1>8, <2>2, <3>1 DEF CountOK, OthersStay
    <3>3. Stage(u, p, s)'
      BY <1>1, <3>2, SameFileKeeps DEF Stage, Node
    <3> QED
      BY <3>2, <3>3 DEF Stage, Node
  <2> QED
    BY <2>1, <2>2
<1> QED
  BY <1>6, <1>7, <1>8 DEF CountOK

(* Every step keeps the counts of the files that are not shared.             *)
LEMMA CountStep ==
  TypeOK /\ TypeOK' /\ DescInv /\ NodeInv /\ UseInv /\ CountInv /\ [Next]_vars => CountInv'
<1> SUFFICES ASSUME TypeOK, TypeOK', DescInv, NodeInv, UseInv, CountInv, [Next]_vars,
                    NEW p \in Path \ shared'
             PROVE  CountOK(p)'
  BY DEF CountInv
<1>1. CASE UNCHANGED vars
  <2>1. CountOK(p)
    BY <1>1 DEF CountInv, vars, hist
  <2>2. SameFile(p)
    BY <1>1 DEF SameFile, On, vars, table
  <2>3. UNCHANGED <<at, path, slot, reg, fds, hold>>
    BY <1>1 DEF vars
  <2>4. Free(p)' <=> Free(p)
    BY <2>3 DEF Free
  <2>5. \A t \in Thread : \A s \in hold[t] : s \in Slot
    BY DEF TypeOK
  <2>6. ASSUME NEW t \in Thread, path[t] = p, at[t] # "idle" PROVE Stage(t, p, slot[t])'
    <3>1. PICK s \in Slot : s = slot[t]
      BY DEF TypeOK
    <3>2. Stage(t, p, s)
      BY <2>1, <2>6, <3>1 DEF CountOK
    <3>3. Stage(t, p, s)'
      BY <2>2, <2>3, <3>2, SameFileKeeps DEF Stage, Node
    <3> QED
      BY <2>3, <3>1, <3>3 DEF Stage, Node
  <2> QED
    BY <2>1, <2>2, <2>3, <2>4, <2>5, <2>6, SameFileKeeps DEF CountOK
<1>2. ASSUME NEW t \in Thread, Step(t) PROVE CountOK(p)'
  <2>1. p \in Path \ shared
    BY <1>2, StepHold
  <2>2. CountOK(p)
    BY <2>1 DEF CountInv
  <2> QED
    BY <1>2, <2>1, <2>2, CountFrame, CountStepOwn
<1>3. ASSUME NEW t \in Thread, Call(t) PROVE CountOK(p)'
  <2>1. p \in Path \ shared
    BY <1>3 DEF Call, CallOpen, CallClose, CallUnlink, Begins
  <2>2. CountOK(p)
    BY <2>1 DEF CountInv
  <2> QED
    BY <1>3, <2>2, CountCall
<1> QED
  BY <1>1, <1>2, <1>3 DEF Next

(* All the parts of the invariant, in every reachable state.                 *)
LEMMA CountInvariant == Spec => [](TypeOK /\ DescInv /\ NodeInv /\ UseInv /\ CountInv)
<1>1. TypeOK /\ DescInv /\ NodeInv /\ UseInv /\ [Next]_vars => UseInv'
  BY TypeStep, UseStep
<1>2. TypeOK /\ DescInv /\ NodeInv /\ UseInv /\ CountInv /\ [Next]_vars => CountInv'
  BY TypeStep, CountStep
<1> QED
  BY UseInit, CountInit, NodeInvariant, <1>1, <1>2, PTL DEF Spec

(* A count that is right is the number of descriptors.                       *)
LEMMA CountCards ==
  ASSUME NEW p \in Path, NEW s \in Slot
  PROVE  /\ One(p, s) => ref[p] = Cardinality(On(p)) /\ On(p) # {} /\ p \in vnodes
         /\ Both(p, s) => ref[p] = Cardinality(On(p)) /\ On(p) # {} /\ p \in vnodes
<1>1. One(p, s) => ref[p] = Cardinality(On(p)) /\ On(p) # {} /\ p \in vnodes
  BY FS_Singleton DEF One
<1>2. ASSUME Both(p, s) PROVE ref[p] = Cardinality(On(p)) /\ On(p) # {} /\ p \in vnodes
  <2>1. PICK l \in Slot : Two(p, s, l)
    BY <1>2 DEF Both
  <2>2. IsFiniteSet({l}) /\ Cardinality({l}) = 1
    BY FS_Singleton
  <2>3. Cardinality({l} \cup {s}) = Cardinality({l}) + 1
    <3>1. s \notin {l}
      BY <2>1 DEF Two
    <3> QED
      BY <2>2, <3>1, FS_AddElement
  <2>4. On(p) = {l} \cup {s}
    BY <2>1 DEF Two
  <2> QED
    BY <2>1, <2>2, <2>3, <2>4 DEF Two
<1> QED
  BY <1>1, <1>2

(* A file no two threads have used at the same time keeps an exact count,    *)
(* whatever goes on in the tables, and no assertion of the file system fails *)
(* nor is freed memory used before two threads have used one file at the    *)
(* same time.                                                               *)
THEOREM UnsharedCorrect == Spec => []UnsharedSafe
<1>1. TypeOK /\ UseInv /\ CountInv => UnsharedSafe
  <2> SUFFICES ASSUME TypeOK, UseInv, CountInv PROVE UnsharedSafe
    OBVIOUS
  <2>1. ASSUME NEW p \in Path \ shared, Quiet(p)
        PROVE  /\ p \in vnodes <=> On(p) # {}
               /\ p \in vnodes => ref[p] = Cardinality(On(p))
    <3>1. CountOK(p)
      BY DEF CountInv
    <3>2. (\E s \in Slot : Held(p, s)) \/ Rest(p)
      <4>1. CASE \E t \in Thread : \E s \in hold[t] : fds[s].path = p
        BY <3>1, <4>1 DEF CountOK, TypeOK
      <4>2. CASE \A t \in Thread : \A s \in hold[t] : fds[s].path # p
        <5>1. Free(p)
          BY <2>1, <4>2 DEF Free, Quiet, Stages
        <5> QED
          BY <3>1, <5>1 DEF CountOK
      <4> QED
        BY <4>1, <4>2
    <3>3. None(p) \/ \E s \in Slot : One(p, s) \/ Both(p, s)
      BY <3>2 DEF Rest, Held, Left
    <3> QED
      BY <3>3, CountCards DEF None
  <2>2. ASSUME NEW t \in Thread, at[t] \in {"hung", "wild"} PROVE shared # {}
    <3>1. path[t] \in Path
      BY DEF TypeOK
    <3>2. path[t] \notin shared => Stage(t, path[t], slot[t])
      BY <2>2, <3>1 DEF CountInv, CountOK
    <3> QED
      BY <2>2, <3>2 DEF Stage
  <2> QED
    BY <2>1, <2>2 DEF UnsharedSafe
<1> QED
  BY CountInvariant, <1>1, PTL
-----------------------------------------------------------------------------
(* No lock is held at the start.                                             *)
LEMMA LockInit == Init => LockInv
  BY NobodyAssumption DEF Init, LockInv

(* A thread takes a lock only while it has none.                             *)
LEMMA LockStep == TypeOK /\ LockInv /\ [Next]_vars => LockInv'
<1> SUFFICES ASSUME TypeOK, LockInv, [Next]_vars PROVE LockInv'
  OBVIOUS
<1>1. CASE UNCHANGED vars
  BY <1>1 DEF vars, LockInv
<1>2. ASSUME NEW t \in Thread, Step(t) \/ Call(t) PROVE LockInv'
  <2>1. \A u \in Thread \ {t} : at'[u] = at[u]
    BY <1>2, OthersStayed DEF OthersStay
  <2> USE <2>1, NobodyAssumption DEF LockInv, Go, TypeOK
  <2>2. CASE FindSlot(t) \/ SetSlot(t)
    BY <2>2 DEF FindSlot, FdFree, SetSlot, Unlock
  <2>3. CASE FindVnode(t) \/ CountUp(t)
    BY <2>3 DEF FindVnode, CountUp
  <2>4. CASE ElmOpen(t) \/ ElmClose(t) \/ SoleClose(t)
    BY <2>4 DEF ElmOpen, ElmClose, SoleClose, AssertCounted
  <2>13. CASE FirstOpen(t)
    BY <2>13 DEF FirstOpen, Opened, Unlock
  <2>5. CASE FOpen(t)
    BY <2>5 DEF FOpen, Opened, Unlock
  <2>6. CASE OpenFailed(t) \/ Undo(t)
    BY <2>6 DEF OpenFailed, Undo, Unlock
  <2>7. CASE CloseVnode(t)
    BY <2>7 DEF CloseVnode
  <2>8. CASE FClose(t) \/ LastClose(t)
    BY <2>8 DEF FClose, LastClose
  <2>9. CASE Release(t)
    BY <2>9 DEF Release, FdFree
  <2>10. CASE CountDown(t)
    BY <2>10 DEF CountDown, Unlock
  <2>11. CASE TestOpen(t) \/ FUnlink(t)
    BY <2>11 DEF TestOpen, FUnlink
  <2>12. CASE Call(t)
    BY <2>12 DEF Call, CallOpen, CallClose, CallUnlink, Begins
  <2> QED
    BY <1>2, <2>2, <2>3, <2>4, <2>5, <2>6, <2>7, <2>8, <2>9, <2>10, <2>11, <2>12, <2>13 DEF Step
<1> QED
  BY <1>1, <1>2 DEF Next

(* No thread waits for a lock while it has one, or keeps one when its call   *)
(* has ended: the locks of the descriptors and of the files are never held   *)
(* against each other (the safety half of CallsEnd).                        *)
THEOREM LocksCorrect == Spec => []NoHoldAndWait
<1>1. LockInv => NoHoldAndWait
  BY DEF LockInv, NoHoldAndWait
<1>2. TypeOK /\ LockInv /\ [Next]_vars => LockInv'
  BY LockStep
<1> QED
  BY LockInit, TypeCorrect, <1>1, <1>2, PTL DEF Spec
=============================================================================
