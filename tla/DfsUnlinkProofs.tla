-------------------------- MODULE DfsUnlinkProofs --------------------------
(***************************************************************************)
(* Proofs about the files of which no two opens or closes have overlapped: *)
(* their counts are exact, however many callers have them open, no          *)
(* descriptor of theirs loses its vnode, and so unlink does not remove them *)
(* under a descriptor that reached them before its test.                   *)
(***************************************************************************)
EXTENDS DfsThreadsProofs

(* One thread at a time opens or closes a file that is not raced.           *)
OneCaller ==
  \A p \in Path \ raced : \A t, u \in Thread : InCall(t, p) /\ InCall(u, p) => t = u

(* The file is in the hash if and only if a descriptor has it, and is       *)
(* counted once for each.                                                   *)
Exact(p) ==
  /\ p \in vnodes <=> On(p) # {}
  /\ p \in vnodes => ref[p] = Cardinality(On(p))

(* What a thread in a call of the file knows of its descriptor, and where   *)
(* the count is exact: everywhere but between the two halves of an undo.    *)
AtWork == {"elm", "first", "fopen", "failed", "undo",
           "close", "elmClose", "sole", "fclose", "last", "countDown"}
Work(t, p, s) ==
  /\ at[t] # "undo" => Exact(p)
  /\ at[t] = "find" => Node(s) = "none"
  /\ at[t] = "count" => Node(s) = "found" /\ p \in vnodes /\ reg[t] = ref[p]
  /\ at[t] \in AtWork => s \in On(p)
  /\ at[t] \in {"fopen", "failed", "undo", "fclose"} => On(p) = {s}
  /\ at[t] = "failed" => reg[t] = 1
  /\ at[t] = "undo" => Undone(p, s)
  /\ at[t] = "release" => Node(s) = "none" \/ (s \in On(p) /\ ref[p] > 1)
  /\ at[t] = "countDown" => reg[t] = ref[p] /\ ref[p] > 1
  /\ at[t] # "wild"

Untouched(p) == \A t \in Thread : ~InCall(t, p)

CountedOK(p) ==
  /\ Untouched(p) => Exact(p)
  /\ \A s \in Slot : fds[s].path = p => Node(s) # "freed"
  /\ \A s \in Slot : fds[s].path = p /\ Node(s) = "found" =>
       \E t \in Thread : at[t] = "count" /\ path[t] = p /\ slot[t] = s
  /\ \A t \in Thread : \A s \in hold[t] : fds[s].path = p => s \in On(p)
  /\ \A t \in Thread : InCall(t, p) => Work(t, p, slot[t])

CountedInv == \A p \in Path \ raced : CountedOK(p)
-----------------------------------------------------------------------------
(* The descriptors of a file can be counted.                                 *)
LEMMA OnFinite ==
  ASSUME NEW p
  PROVE  /\ IsFiniteSet(On(p)) /\ Cardinality(On(p)) \in Nat
         /\ IsFiniteSet(On(p)') /\ Cardinality(On(p)') \in Nat
<1>1. IsFiniteSet(Slot)
  BY FS_Interval, BoundAssumption DEF Slot
<1>2. On(p) \subseteq Slot /\ On(p)' \subseteq Slot
  BY DEF On
<1> QED
  BY <1>1, <1>2, FS_Subset, FS_CardinalityType

(* An exact count tells a first and a sole descriptor from one of several.   *)
LEMMA ExactCount ==
  ASSUME NEW p, Exact(p), NEW s \in On(p)
  PROVE  /\ p \in vnodes /\ ref[p] = Cardinality(On(p)) /\ ref[p] \in Nat /\ ref[p] >= 1
         /\ ref[p] = 1 <=> On(p) = {s}
<1>1. p \in vnodes /\ ref[p] = Cardinality(On(p)) /\ On(p) # {}
  BY DEF Exact
<1>2. ref[p] \in Nat /\ ref[p] # 0
  BY <1>1, OnFinite, FS_EmptySet
<1>3. ASSUME On(p) = {s} PROVE ref[p] = 1
  BY <1>1, <1>3, FS_Singleton
<1>4. ASSUME ref[p] = 1 PROVE On(p) = {s}
  <2>1. IsFiniteSet(On(p)) /\ {s} \in SUBSET On(p) /\ Cardinality({s}) = 1
    BY OnFinite, FS_Singleton
  <2> QED
    BY <1>1, <1>4, <2>1, FS_Subset
<1> QED
  BY <1>1, <1>2, <1>3, <1>4

(* A descriptor that gets the vnode is counted up, one that gives it up is   *)
(* counted down.                                                            *)
LEMMA CountOneMore ==
  ASSUME NEW p, NEW s, s \notin On(p), On(p)' = On(p) \cup {s}
  PROVE  Cardinality(On(p)') = Cardinality(On(p)) + 1
  BY OnFinite, FS_AddElement

LEMMA CountOneLess ==
  ASSUME NEW p, NEW s \in On(p), On(p)' = On(p) \ {s}
  PROVE  Cardinality(On(p)') = Cardinality(On(p)) - 1
  BY OnFinite, FS_RemoveElement

(* A step that leaves a file alone keeps an exact count exact.               *)
LEMMA ExactSame ==
  ASSUME NEW p \in Path, SameFile(p)
  PROVE  Exact(p)' <=> Exact(p)
<1>1. Cardinality(On(p)') = Cardinality(On(p))
  BY DEF SameFile
<1> QED
  BY <1>1 DEF SameFile, Exact
-----------------------------------------------------------------------------
(* Nobody is in a call at the start.                                         *)
LEMMA OneCallerInit == Init => OneCaller
  BY DEF Init, OneCaller, InCall

(* A step neither begins a call nor moves it to another file.                *)
LEMMA StepCaller ==
  ASSUME TypeOK, NEW t \in Thread, Step(t), NEW p
  PROVE  InCall(t, p)' => InCall(t, p)
  BY StepHold DEF InCall

(* Every step keeps the files that are not raced to one caller.              *)
LEMMA OneCallerStep == TypeOK /\ OneCaller /\ [Next]_vars => OneCaller'
<1> SUFFICES ASSUME TypeOK, OneCaller, [Next]_vars PROVE OneCaller'
  OBVIOUS
<1>1. CASE UNCHANGED vars
  BY <1>1 DEF vars, hist, OneCaller, InCall
<1>2. ASSUME NEW t \in Thread, Step(t) PROVE OneCaller'
  <2>1. OthersStay(t) /\ raced' = raced
    BY <1>2, OthersStayed, StepHold
  <2>2. \A u \in Thread, p \in Path : InCall(u, p)' => InCall(u, p)
    BY <1>2, <2>1, StepCaller DEF OthersStay, InCall
  <2> QED
    BY <2>1, <2>2 DEF OneCaller
<1>3. ASSUME NEW t \in Thread, Call(t) PROVE OneCaller'
  <2>1. OthersStay(t)
    BY <1>3, OthersStayed
  <2>2. \A u \in Thread \ {t} : \A p \in Path : InCall(u, p)' <=> InCall(u, p)
    BY <2>1 DEF OthersStay, InCall
  <2>3. ASSUME NEW q \in Path, at'[t] # "idle", path'[t] = q, Overlaps(q) PROVE OneCaller'
    <3>1. \A p \in Path : InCall(t, p)' => p = q
      BY <2>3 DEF InCall
    <3>2. \A p \in Path \ raced' : p \in Path \ raced /\ (p = q => \A u \in Thread : ~InCall(u, p))
      BY <2>3 DEF Overlaps
    <3> QED
      BY <2>2, <3>1, <3>2 DEF OneCaller
  <2>4. ASSUME NEW q \in Path, CallOpen(t, q) PROVE OneCaller'
    BY <2>3, <2>4 DEF CallOpen, Begins, Go, TypeOK
  <2>5. ASSUME NEW q \in Path, CallUnlink(t, q) PROVE OneCaller'
    <3>1. raced' = raced /\ at'[t] = "test"
      BY <2>5 DEF CallUnlink, Begins, Go, TypeOK
    <3> QED
      BY <2>2, <3>1 DEF OneCaller, InCall
  <2>6. ASSUME NEW s \in Slot, CallClose(t, s) PROVE OneCaller'
    <3>1. fds[s].path \in Path /\ at'[t] = "close" /\ path'[t] = fds[s].path /\ Overlaps(fds[s].path)
      BY <2>6, FdsType DEF CallClose, Begins, Go, TypeOK
    <3> QED
      BY <2>3, <3>1
  <2> QED
    BY <1>3, <2>4, <2>5, <2>6 DEF Call
<1> QED
  BY <1>1, <1>2, <1>3 DEF Next
-----------------------------------------------------------------------------
(* Nobody has a file at the start.                                           *)
LEMMA CountedInit == Init => CountedInv
<1> SUFFICES ASSUME Init, NEW p \in Path PROVE CountedOK(p)
  BY DEF CountedInv
<1>1. \A t \in Thread : at[t] = "idle" /\ hold[t] = {}
  BY DEF Init
<1>2. \A s \in Slot : Node(s) = "free"
  BY FreeFdType DEF Init, Node
<1>3. Exact(p)
  BY <1>2 DEF Init, Exact, On, Node
<1> QED
  BY <1>1, <1>2, <1>3 DEF CountedOK, InCall

(* What another thread, or a call of another file, leaves of a file: its     *)
(* count, its vnode, its descriptors and its callers.                       *)
Apart(p) ==
  /\ SameFile(p)
  /\ \A s \in Slot : fds'[s].path = p /\ fds'[s].node \notin {"free", "none"} => fds'[s] = fds[s]
  /\ \A s \in Slot : fds[s].path = p /\ fds[s].node # "free" => fds'[s] = fds[s]
  /\ \A t \in Thread : \A s \in hold'[t] : fds'[s].path = p => s \in hold[t] /\ fds[s].path = p
  /\ \A t \in Thread : InCall(t, p)' <=> InCall(t, p)
  /\ \A t \in Thread : InCall(t, p) => UNCHANGED <<at[t], path[t], slot[t], reg[t]>>

LEMMA CountedApart ==
  ASSUME TypeOK, TypeOK', DescInv, NodeInv, NEW p \in Path, CountedOK(p), Apart(p)
  PROVE  CountedOK(p)'
<1>1. /\ SameFile(p) /\ (Exact(p)' <=> Exact(p)) /\ On(p)' = On(p) /\ ref'[p] = ref[p]
      /\ p \in vnodes' <=> p \in vnodes
  BY ExactSame DEF Apart, SameFile
<1>2. Untouched(p)' => Exact(p)'
  BY <1>1 DEF CountedOK, Untouched, Apart
<1>3. ASSUME NEW s \in Slot, fds'[s].path = p PROVE Node(s)' # "freed"
  BY <1>3 DEF CountedOK, Apart, Node
<1>4. ASSUME NEW s \in Slot, fds'[s].path = p, Node(s)' = "found"
      PROVE  \E t \in Thread : at'[t] = "count" /\ path'[t] = p /\ slot'[t] = s
  <2>1. fds[s].path = p /\ Node(s) = "found"
    BY <1>4 DEF Apart, Node
  <2>2. PICK t \in Thread : at[t] = "count" /\ path[t] = p /\ slot[t] = s
    BY <2>1 DEF CountedOK
  <2>3. InCall(t, p)
    BY <2>2 DEF InCall
  <2> QED
    BY <2>2, <2>3 DEF Apart
<1>5. ASSUME NEW t \in Thread, NEW s \in hold'[t], fds'[s].path = p PROVE s \in On(p)'
  BY <1>1, <1>5 DEF CountedOK, Apart
<1>6. ASSUME NEW t \in Thread, InCall(t, p)' PROVE Work(t, p, slot[t])'
  <2>1. InCall(t, p) /\ UNCHANGED <<at[t], path[t], slot[t], reg[t]>> /\ slot[t] \in Slot
    BY <1>6 DEF Apart, TypeOK
  <2>2. PICK s \in Slot : s = slot[t]
    BY <2>1
  <2>3. Work(t, p, s)
    BY <2>1, <2>2 DEF CountedOK
  <2>4. at[t] \in SlotAt => Node(s) # "free" /\ fds[s].path = p
    BY <2>1, <2>2, HasSlotAt DEF NodeInv, DescInv, DescriptorsExclusive, Owned, Node, InCall
  <2>5. at[t] \in SlotAt => Node(s)' = Node(s)
    BY <2>4 DEF Apart, Node
  <2>6. Undone(p, s)' <=> Undone(p, s)
    BY <1>1, SameFileKeeps
  <2>7. Work(t, p, s)'
    BY <1>1, <2>1, <2>3, <2>5, <2>6 DEF Work, AtWork, SlotAt
  <2> QED
    BY <2>1, <2>2, <2>7 DEF Work, Node
<1> QED
  BY <1>2, <1>3, <1>4, <1>5, <1>6 DEF CountedOK

(* A step of a thread that is not in an open or a close of the file.        *)
LEMMA CountedFrame ==
  ASSUME TypeOK, TypeOK', DescInv, NodeInv, NEW t \in Thread, Step(t), NEW p \in Path, ~InCall(t, p),
         CountedOK(p)
  PROVE  CountedOK(p)'
<1>1. OthersStay(t) /\ ~InCall(t, p)' /\ at[t] # "idle" /\ path' = path
  BY OthersStayed, StepCaller, StepHold
<1>2. \A u \in Thread : /\ InCall(u, p)' <=> InCall(u, p)
                        /\ InCall(u, p) => UNCHANGED <<at[u], path[u], slot[u], reg[u]>>
  BY <1>1 DEF OthersStay, InCall
<1>3. CASE path[t] = p
  <2>1. TestOpen(t) \/ FUnlink(t)
    <3>1. at[t] \in {"test", "unlink"}
      BY <1>1, <1>3 DEF InCall
    <3>2. ~(FindSlot(t) \/ SetSlot(t) \/ FindVnode(t) \/ CountUp(t) \/ ElmOpen(t) \/ FirstOpen(t) \/ FOpen(t))
      BY <3>1 DEF FindSlot, SetSlot, FindVnode, CountUp, ElmOpen, FirstOpen, FOpen
    <3>3. ~(OpenFailed(t) \/ Undo(t) \/ CloseVnode(t) \/ ElmClose(t) \/ SoleClose(t) \/ FClose(t) \/ LastClose(t) \/ Release(t) \/ CountDown(t))
      BY <3>1 DEF OpenFailed, Undo, CloseVnode, ElmClose, SoleClose, FClose, LastClose, Release, CountDown
    <3> QED
      BY <3>2, <3>3 DEF Step
  <2>2. fds' = fds /\ UNCHANGED <<vnodes, ref, hold>>
    BY <2>1 DEF TestOpen, FUnlink, table
  <2>3. Apart(p)
    BY <1>2, <2>2 DEF Apart, SameFile, On
  <2> QED
    BY <2>3, CountedApart
<1>4. CASE path[t] # p
  <2>1. SameFile(p)
    BY <1>4, StepFrame
  <2>2. \A s \in Slot : /\ fds'[s].path = p /\ fds'[s].node \notin {"free", "none"} => fds'[s] = fds[s]
                        /\ fds[s].path = p /\ fds[s].node # "free" => fds'[s] = fds[s]
    BY <1>4, StepFds
  <2>3. ASSUME NEW u \in Thread, NEW s \in hold'[u], fds'[s].path = p PROVE s \in hold[u] /\ fds[s].path = p
    <3>1. s \in hold[u]
      <4>1. at[t] \in SlotAt => fds[slot[t]].path = path[t]
        BY HasSlotAt DEF NodeInv
      <4>2. slot[t] \in Slot
        BY DEF TypeOK
      <4> QED
        BY <1>1, <1>4, <2>3, <4>1, <4>2, StepHold DEF OthersStay, TypeOK
    <3> QED
      BY <2>3, <3>1, HeldPaths
  <2>4. Apart(p)
    BY <1>2, <2>1, <2>2, <2>3 DEF Apart
  <2> QED
    BY <2>4, CountedApart
<1> QED
  BY <1>3, <1>4

(* A step of the only caller of a file: what is left to show of it.         *)
LEMMA CountedOwn ==
  ASSUME TypeOK, TypeOK', DescInv, NodeInv, OneCaller, NEW t \in Thread, Step(t), InCall(t, path[t]),
         NEW p \in Path \ raced, p = path[t], CountedOK(p),
         NEW s \in Slot, s = slot'[t],
         at'[t] \in {"new", "newSet", "idle"} => Exact(p)',
         at'[t] \notin {"new", "newSet", "idle"} => Work(t, p, s)',
         \A r \in On(p) : r \in On(p)' \/ (r = slot[t] /\ at[t] \in SlotAt),
         \A r \in Slot : fds'[r].path = p => Node(r)' # "freed",
         \A r \in Slot : fds'[r].path = p /\ Node(r)' = "found" => at'[t] = "count" /\ r = s,
         hold' = hold \/ (at'[t] = "idle" /\ hold' = [hold EXCEPT ![t] = @ \cup {s}] /\ s \in On(p)')
  PROVE  CountedOK(p)'
<1>1. OthersStay(t) /\ path'[t] = p
  BY OthersStayed, StepHold
<1>2. \A u \in Thread \ {t} : ~InCall(u, p) /\ ~InCall(u, p)'
  BY <1>1 DEF OneCaller, OthersStay, InCall
<1>3. InCall(t, p)' <=> at'[t] \notin {"idle", "test", "unlink"}
  BY <1>1 DEF InCall
<1>4. Untouched(p)' => Exact(p)'
  <2>1. at[t] \notin {"test", "unlink"}
    BY DEF InCall
  <2>2. at'[t] \notin {"test", "unlink"} \/ Exact(p)'
    BY DEF Work
  <2> QED
    BY <1>3, <2>2 DEF Untouched
<1>5. ASSUME NEW r \in Slot, fds'[r].path = p, Node(r)' = "found"
      PROVE  \E u \in Thread : at'[u] = "count" /\ path'[u] = p /\ slot'[u] = r
  BY <1>1, <1>5
<1>6. ASSUME NEW u \in Thread, NEW r \in hold'[u], fds'[r].path = p PROVE r \in On(p)'
  <2>1. CASE r \in hold[u]
    <3>1. fds[r].path = p
      BY <1>6, <2>1, HeldPaths
    <3>2. r \in On(p)
      BY <2>1, <3>1 DEF CountedOK
    <3>3. at[t] \in SlotAt => r # slot[t]
      BY <2>1, HasSlotAt, OwnedAt DEF DescInv, DescriptorsExclusive, Owned
    <3> QED
      BY <3>2, <3>3
  <2>2. CASE r \notin hold[u]
    <3>1. hold' = [hold EXCEPT ![t] = @ \cup {s}] /\ s \in On(p)'
      BY <1>6, <2>2
    <3>2. r = s
      BY <1>6, <2>2, <3>1 DEF TypeOK
    <3> QED
      BY <3>1, <3>2
  <2> QED
    BY <2>1, <2>2
<1>7. ASSUME NEW u \in Thread, InCall(u, p)' PROVE Work(u, p, slot[u])'
  <2>1. u = t /\ at'[t] # "idle"
    BY <1>2, <1>3, <1>7
  <2>2. CASE at'[t] \in {"new", "newSet"}
    BY <2>1, <2>2 DEF Work, AtWork
  <2>3. CASE at'[t] \notin {"new", "newSet"}
    BY <2>1, <2>3 DEF Work, Node
  <2> QED
    BY <2>2, <2>3
<1> QED
  BY <1>4, <1>5, <1>6, <1>7 DEF CountedOK

(* The vnode of a file that only one descriptor has is freed under no other. *)
LEMMA FreeSole ==
  ASSUME TypeOK, NEW p \in Path, NEW s \in Slot, FreeVnode(p, s), On(p) = {s},
         \A r \in Slot : fds[r].path = p => Node(r) \notin {"found", "freed"}
  PROVE  /\ Node(s)' = "none" /\ On(p)' = {} /\ p \notin vnodes' /\ Exact(p)'
         /\ \A r \in Slot : fds'[r].path = p => Node(r)' \notin {"found", "freed"}
<1>1. Node(s)' = "none" /\ \A r \in Slot : fds'[r].path = fds[r].path
  BY DEF FreeVnode, Node, TypeOK
<1>2. ASSUME NEW r \in Slot, fds'[r].path = p PROVE Node(r)' \notin {"found", "live", "freed"}
  <2>1. CASE r = s
    BY <1>1, <2>1
  <2>2. CASE r # s
    <3>1. fds[r].path = p /\ Node(r) \notin {"found", "live", "freed"}
      BY <1>1, <1>2, <2>2 DEF On, Node
    <3>2. fds'[r] = fds[r]
      BY <2>2, <3>1 DEF FreeVnode, Node
    <3> QED
      BY <3>1, <3>2 DEF Node
  <2> QED
    BY <2>1, <2>2
<1>3. On(p)' = {}
  BY <1>2 DEF On, Node
<1>4. p \notin vnodes'
  BY DEF FreeVnode
<1> QED
  BY <1>1, <1>2, <1>3, <1>4 DEF Exact

(* A step of the only caller of a file that is not raced keeps its count.    *)
LEMMA CountedStepOwn ==
  ASSUME TypeOK, TypeOK', DescInv, NodeInv, OneCaller, NEW t \in Thread, Step(t), InCall(t, path[t]),
         NEW p \in Path \ raced, p = path[t], CountedOK(p)
  PROVE  CountedOK(p)'
<1>1. PICK s \in Slot : s = slot[t]
  BY DEF TypeOK
<1>2. Work(t, p, s)
  BY <1>1 DEF CountedOK
<1>3. at[t] \in SlotAt => fds[s].path = p /\ Node(s) # "free" /\ Node(s) # "freed"
  BY <1>1, HasSlotAt DEF NodeInv, DescInv, DescriptorsExclusive, Owned, CountedOK, Node
<1>4. ~(at[t] \in SlotAt /\ Dangling(t))
  BY <1>1, <1>3 DEF Dangling, Node
<1>5. \A r \in Slot : fds[r].path = p => /\ Node(r) # "freed"
                                         /\ Node(r) = "found" => at[t] = "count" /\ r = s
  <2>1. \A u \in Thread : at[u] = "count" /\ path[u] = p => u = t
    BY DEF OneCaller, InCall
  <2> QED
    BY <1>1, <2>1 DEF CountedOK
(* Steps that look, and steps that write. *)
<1>6. ASSUME fds' = fds, vnodes' = vnodes, ref' = ref PROVE SameFile(p) /\ On(p)' = On(p) /\ (Exact(p)' <=> Exact(p))
  BY <1>6, ExactSame DEF SameFile, On
<1>7. ASSUME UNCHANGED <<fds, vnodes, ref>>, slot' = slot, at[t] # "count",
             at'[t] = "idle" => Exact(p), at'[t] # "idle" => Work(t, p, s)', at'[t] \notin {"new", "newSet"},
             hold' = hold \/ (at'[t] = "idle" /\ hold' = [hold EXCEPT ![t] = @ \cup {s}] /\ s \in On(p))
      PROVE  CountedOK(p)'
  <2>1. \A r \in Slot : fds'[r].path = p => Node(r)' \notin {"found", "freed"}
    BY <1>5, <1>7 DEF Node
  <2>2. s = slot'[t]
    BY <1>1, <1>7
  <2>3. at'[t] \in {"new", "newSet", "idle"} => Exact(p)'
    BY <1>6, <1>7
  <2> QED
    BY <1>6, <1>7, <2>1, <2>2, <2>3, CountedOwn
<1>8. ASSUME slot' = slot, hold' = hold, at[t] \in SlotAt, at'[t] # "count",
             at'[t] \in {"new", "newSet", "idle"} => Exact(p)',
             at'[t] \notin {"new", "newSet", "idle"} => Work(t, p, s)',
             On(p) \ {s} \subseteq On(p)',
             \A r \in Slot : fds'[r].path = p => Node(r)' \notin {"found", "freed"}
      PROVE  CountedOK(p)'
  <2>1. s = slot'[t] /\ \A r \in On(p) : r \in On(p)' \/ (r = slot[t] /\ at[t] \in SlotAt)
    BY <1>1, <1>8
  <2> QED
    BY <1>8, <2>1, CountedOwn
<1>9. at[t] # "undo" => Exact(p)
  BY <1>2 DEF Work
<1>10. at[t] \in AtWork => s \in On(p)
  BY <1>2 DEF Work
<1>11. CASE FindSlot(t)
  <2>1. /\ fds' = fds /\ UNCHANGED <<vnodes, ref, hold>> /\ at[t] = "new" /\ at'[t] \in {"newSet", "idle"}
    BY <1>11 DEF FindSlot, Go, TypeOK, table
  <2>2. \A r \in Slot : fds'[r].path = p => Node(r)' \notin {"found", "freed"}
    BY <1>5, <2>1 DEF Node
  <2>3. PICK x \in Slot : x = slot'[t]
    BY DEF TypeOK
  <2> QED
    BY <1>6, <1>9, <2>1, <2>2, <2>3, CountedOwn
<1>12. CASE SetSlot(t)
  <2>1. /\ at[t] = "newSet" /\ at'[t] = "find" /\ UNCHANGED <<vnodes, ref, hold, slot>> /\ fds[s].node = "free"
        /\ fds' = [fds EXCEPT ![s] = [path |-> path[t], node |-> "none", fil |-> FALSE]]
    BY <1>1, <1>12 DEF SetSlot, Go, DescInv, Node, TypeOK, table
  <2>2. fds'[s].node = "none" /\ \A r \in Slot \ {s} : fds'[r] = fds[r]
    BY <2>1 DEF TypeOK
  <2>3. On(p)' = On(p) /\ SameFile(p)
    BY <2>1, <2>2 DEF SameFile, On
  <2>4. Exact(p)'
    BY <1>9, <2>1, <2>3, ExactSame
  <2>5. Work(t, p, s)'
    BY <2>1, <2>2, <2>4 DEF Work, AtWork, Node
  <2>6. \A r \in Slot : fds'[r].path = p => Node(r)' \notin {"found", "freed"}
    BY <1>5, <2>1, <2>2 DEF Node
  <2>7. s = slot'[t]
    BY <1>1, <2>1
  <2> QED
    BY <2>1, <2>3, <2>4, <2>5, <2>6, <2>7, CountedOwn
<1>13. CASE FindVnode(t)
  <2>1. at[t] = "find" /\ fds[s].node = "none" /\ fds[s].path = p /\ Exact(p)
    BY <1>2, <1>3, <1>13 DEF FindVnode, Work, Node, SlotAt
  <2>2. CASE p \in vnodes
    <3>1. /\ at'[t] = "count" /\ UNCHANGED <<vnodes, ref, hold, slot>> /\ reg'[t] = ref[p]
          /\ fds' = [fds EXCEPT ![s].node = "found"]
      BY <1>1, <1>13, <2>2 DEF FindVnode, Go, TypeOK, table
    <3>2. fds'[s].node = "found" /\ \A r \in Slot \ {s} : fds'[r] = fds[r]
      BY <3>1 DEF TypeOK
    <3>3. On(p)' = On(p) /\ SameFile(p)
      BY <2>1, <3>1, <3>2 DEF SameFile, On
    <3>4. Work(t, p, s)'
      <4>1. Exact(p)'
        BY <2>1, <3>3, ExactSame
      <4> QED
        BY <2>2, <3>1, <3>2, <4>1 DEF Work, AtWork, Node
    <3>5. \A r \in Slot : fds'[r].path = p => /\ Node(r)' # "freed"
                                              /\ Node(r)' = "found" => r = s
      BY <1>5, <2>1, <3>2 DEF Node
    <3>6. s = slot'[t]
      BY <1>1, <3>1
    <3> QED
      BY <3>1, <3>3, <3>4, <3>5, <3>6, CountedOwn
  <2>3. CASE p \notin vnodes
    <3>1. /\ at'[t] = "elm" /\ UNCHANGED <<hold, slot>> /\ p \in vnodes' /\ ref'[p] = 1
          /\ fds' = [fds EXCEPT ![s].node = "live"]
      BY <1>1, <1>13, <2>3 DEF FindVnode, Attach, Go, TypeOK
    <3>2. fds'[s].node = "live" /\ fds'[s].path = p /\ \A r \in Slot \ {s} : fds'[r] = fds[r]
      BY <2>1, <3>1 DEF TypeOK
    <3>3. On(p)' = {s} /\ On(p) = {}
      BY <2>1, <2>3, <3>2 DEF Exact, On
    <3>4. Exact(p)'
      BY <3>1, <3>3, FS_Singleton DEF Exact
    <3>5. Work(t, p, s)'
      BY <3>1, <3>3, <3>4 DEF Work, AtWork
    <3>6. \A r \in Slot : fds'[r].path = p => Node(r)' \notin {"found", "freed"}
      BY <1>5, <2>1, <3>2 DEF Node
    <3> QED
      BY <1>8, <2>1, <3>1, <3>3, <3>5, <3>6 DEF SlotAt
  <2> QED
    BY <2>2, <2>3
<1>14. CASE CountUp(t)
  <2>1. /\ at[t] = "count" /\ fds[s].node = "found" /\ fds[s].path = p /\ Exact(p)
        /\ p \in vnodes /\ reg[t] = ref[p]
    BY <1>2, <1>3, <1>14 DEF CountUp, Work, Node, SlotAt
  <2>2. /\ at'[t] = "elm" /\ UNCHANGED <<hold, slot, vnodes>> /\ ref'[p] = ref[p] + 1
        /\ fds' = [fds EXCEPT ![s].node = "live"]
    BY <1>1, <1>14, <2>1 DEF CountUp, Dangling, Attach, Go, TypeOK
  <2>3. fds'[s].node = "live" /\ fds'[s].path = p /\ \A r \in Slot \ {s} : fds'[r] = fds[r]
    BY <2>1, <2>2 DEF TypeOK
  <2>4. s \notin On(p) /\ On(p)' = On(p) \cup {s}
    BY <2>1, <2>3 DEF On
  <2>5. Exact(p)'
    BY <2>1, <2>2, <2>4, CountOneMore DEF Exact
  <2>6. Work(t, p, s)'
    BY <2>2, <2>4, <2>5 DEF Work, AtWork
  <2>7. \A r \in Slot : fds'[r].path = p => Node(r)' \notin {"found", "freed"}
    BY <1>5, <2>3 DEF Node
  <2> QED
    BY <1>8, <2>1, <2>2, <2>4, <2>6, <2>7 DEF SlotAt
<1>15. CASE ElmOpen(t) \/ ElmClose(t)
  <2>1. at[t] \in {"elm", "elmClose"} /\ s \in On(p) /\ Exact(p)
    BY <1>9, <1>10, <1>15 DEF ElmOpen, ElmClose, AtWork
  <2>2. UNCHANGED <<fds, vnodes, ref, slot, hold>> /\ at'[t] \in {"first", "sole", "hung"}
    BY <1>4, <1>15, <2>1 DEF ElmOpen, ElmClose, AssertCounted, Go, SlotAt, TypeOK, table
  <2>3. Work(t, p, s)'
    BY <1>6, <2>1, <2>2 DEF Work, AtWork
  <2> QED
    BY <1>7, <2>1, <2>2, <2>3
<1>16. CASE FirstOpen(t)
  <2>1. at[t] = "first" /\ s \in On(p) /\ Exact(p)
    BY <1>9, <1>10, <1>16 DEF FirstOpen, AtWork
  <2>2. UNCHANGED <<fds, vnodes, ref, slot>>
    BY <1>16 DEF FirstOpen, table
  <2>3. CASE Opened(t)
    BY <1>1, <1>7, <2>1, <2>2, <2>3 DEF Opened, Go, TypeOK
  <2>4. CASE ~Opened(t)
    <3>1. at'[t] = "fopen" /\ hold' = hold /\ ref[p] <= 1
      BY <1>4, <1>16, <2>1, <2>4 DEF FirstOpen, Go, SlotAt, TypeOK
    <3>2. On(p) = {s}
      BY <2>1, <3>1, ExactCount
    <3>3. Work(t, p, s)'
      BY <1>6, <2>1, <2>2, <3>1, <3>2 DEF Work, AtWork
    <3> QED
      BY <1>7, <2>1, <2>2, <3>1, <3>3
  <2> QED
    BY <2>3, <2>4
<1>17. ASSUME \A r \in Slot : fds'[r].path = fds[r].path /\ fds'[r].node = fds[r].node, vnodes' = vnodes, ref' = ref
       PROVE  On(p)' = On(p) /\ (Exact(p)' <=> Exact(p)) /\ \A r \in Slot : Node(r)' = Node(r)
  <2>1. On(p)' = On(p)
    BY <1>17 DEF On
  <2> QED
    BY <1>17, <2>1 DEF Exact, Node
<1>18. CASE FOpen(t)
  <2>1. at[t] = "fopen" /\ On(p) = {s} /\ Exact(p) /\ UNCHANGED <<vnodes, ref, slot>>
    BY <1>2, <1>18 DEF FOpen, Work, table
  <2>2. ~Dangling(t) /\ ref[p] = 1
    BY <1>4, <2>1, ExactCount DEF SlotAt
  <2>3. CASE fds' = [fds EXCEPT ![slot[t]].fil = TRUE] /\ Opened(t)
    <3>1. \A r \in Slot : fds'[r].path = fds[r].path /\ fds'[r].node = fds[r].node
      BY <2>3, FilSet
    <3>2. On(p)' = On(p) /\ Exact(p)' /\ \A r \in Slot : Node(r)' = Node(r)
      BY <1>17, <2>1, <3>1
    <3>3. \A r \in Slot : fds'[r].path = p => Node(r)' \notin {"found", "freed"}
      BY <1>5, <2>1, <3>1, <3>2
    <3>4. at'[t] = "idle" /\ hold' = [hold EXCEPT ![t] = @ \cup {s}] /\ s = slot'[t]
      BY <1>1, <2>1, <2>3 DEF Opened, Go, TypeOK
    <3>5. s \in On(p)' /\ On(p)' = On(p)
      BY <2>1, <3>2
    <3> QED
      BY <3>2, <3>3, <3>4, <3>5, CountedOwn
  <2>4. CASE fds' = fds /\ Go(t, "failed")
    <3>1. at'[t] = "failed" /\ hold' = hold /\ reg'[t] = 1
      BY <1>1, <1>18, <2>1, <2>2, <2>4 DEF FOpen, Opened, Go, TypeOK
    <3>2. Work(t, p, s)'
      BY <1>6, <2>1, <2>4, <3>1 DEF Work, AtWork
    <3> QED
      BY <1>7, <2>1, <2>4, <3>1, <3>2
  <2> QED
    BY <1>18, <2>2, <2>3, <2>4 DEF FOpen
<1>19. CASE OpenFailed(t)
  <2>1. at[t] = "failed" /\ On(p) = {s} /\ Exact(p) /\ reg[t] = 1
    BY <1>2, <1>19 DEF OpenFailed, Work
  <2>2. at'[t] = "undo" /\ UNCHANGED <<fds, vnodes, hold, slot>> /\ ref'[p] = 0
    BY <1>4, <1>19, <2>1 DEF OpenFailed, Go, SlotAt, TypeOK
  <2>3. On(p)' = {s} /\ p \in vnodes'
    BY <2>1, <2>2 DEF On, Exact
  <2>4. Work(t, p, s)'
    BY <2>2, <2>3 DEF Work, AtWork, Undone
  <2>5. \A r \in Slot : fds'[r].path = p => Node(r)' \notin {"found", "freed"}
    BY <1>5, <2>1, <2>2 DEF Node
  <2> QED
    BY <1>8, <2>1, <2>2, <2>3, <2>4, <2>5 DEF SlotAt
(* The end of a vnode. *)
<1>20. ASSUME FreeVnode(p, s), On(p) = {s}, at[t] \in SlotAt \ {"count"}, at'[t] = "release", hold' = hold, slot' = slot
       PROVE  CountedOK(p)'
  <2>1. /\ Node(s)' = "none" /\ On(p)' = {} /\ Exact(p)'
        /\ \A r \in Slot : fds'[r].path = p => Node(r)' \notin {"found", "freed"}
    <3>1. \A r \in Slot : fds[r].path = p => Node(r) \notin {"found", "freed"}
      BY <1>5, <1>20
    <3> QED
      BY <1>20, <3>1, FreeSole
  <2>2. Work(t, p, s)'
    BY <1>20, <2>1 DEF Work, AtWork
  <2> QED
    BY <1>8, <1>20, <2>1, <2>2
<1>21. CASE Undo(t)
  <2>1. at[t] = "undo" /\ On(p) = {s} /\ ref[p] = 0
    BY <1>2, <1>21 DEF Undo, Work, Undone
  <2>2. FreeVnode(p, s) /\ at'[t] = "release" /\ hold' = hold /\ slot' = slot
    BY <1>1, <1>4, <1>21, <2>1 DEF Undo, Go, SlotAt, TypeOK
  <2> QED
    BY <1>20, <2>1, <2>2 DEF SlotAt
<1>22. CASE CloseVnode(t)
  <2>1. at[t] = "close" /\ s \in On(p) /\ Exact(p) /\ ref[p] >= 1 /\ ref[p] \in Nat
    BY <1>9, <1>10, <1>22, ExactCount DEF CloseVnode, AtWork
  <2>2. UNCHANGED <<fds, vnodes, ref, slot, hold>> /\ at'[t] = "elmClose"
    BY <1>4, <1>22, <2>1 DEF CloseVnode, Go, SlotAt, TypeOK, table
  <2>3. Work(t, p, s)'
    BY <1>6, <2>1, <2>2 DEF Work, AtWork
  <2> QED
    BY <1>7, <2>1, <2>2, <2>3
<1>23. CASE SoleClose(t)
  <2>1. at[t] = "sole" /\ s \in On(p) /\ Exact(p)
    BY <1>9, <1>10, <1>23 DEF SoleClose, AtWork
  <2>2. /\ UNCHANGED <<fds, vnodes, ref, slot, hold>> /\ at'[t] \in {"last", "fclose", "hung"}
        /\ at'[t] = "fclose" => ref[p] <= 1
    BY <1>4, <1>23, <2>1 DEF SoleClose, Go, SlotAt, TypeOK, table
  <2>3. at'[t] = "fclose" => On(p) = {s}
    BY <2>1, <2>2, ExactCount
  <2>4. Work(t, p, s)'
    BY <1>6, <2>1, <2>2, <2>3 DEF Work, AtWork
  <2> QED
    BY <1>7, <2>1, <2>2, <2>4
<1>24. CASE FClose(t)
  <2>1. at[t] = "fclose" /\ On(p) = {s} /\ Exact(p) /\ UNCHANGED <<vnodes, ref, slot, hold>> /\ ~Dangling(t)
    BY <1>2, <1>4, <1>24 DEF FClose, Work, SlotAt, table
  <2>2. CASE fds' = [fds EXCEPT ![slot[t]].fil = FALSE] /\ Go(t, "last")
    <3>1. \A r \in Slot : fds'[r].path = fds[r].path /\ fds'[r].node = fds[r].node
      BY <2>2 DEF TypeOK
    <3>2. On(p)' = On(p) /\ Exact(p)' /\ \A r \in Slot : Node(r)' = Node(r)
      BY <1>17, <2>1, <3>1
    <3>3. at'[t] = "last"
      BY <2>2 DEF Go, TypeOK
    <3>4. Work(t, p, s)'
      BY <2>1, <3>2, <3>3 DEF Work, AtWork
    <3>5. \A r \in Slot : fds'[r].path = p => Node(r)' \notin {"found", "freed"}
      BY <1>5, <2>1, <3>1, <3>2
    <3> QED
      BY <1>8, <2>1, <3>2, <3>3, <3>4, <3>5 DEF SlotAt
  <2>3. CASE fds' = fds /\ Go(t, "idle")
    <3>1. at'[t] = "idle"
      BY <2>3 DEF Go, TypeOK
    <3> QED
      BY <1>7, <2>1, <2>3, <3>1
  <2> QED
    BY <1>24, <2>1, <2>2, <2>3 DEF FClose
<1>25. CASE LastClose(t)
  <2>1. at[t] = "last" /\ s \in On(p) /\ Exact(p) /\ ref[p] >= 1 /\ ref[p] \in Nat
    BY <1>9, <1>10, <1>25, ExactCount DEF LastClose, AtWork
  <2>2. at'[t] = "release" /\ UNCHANGED <<ref, slot, hold>>
    BY <1>4, <1>25, <2>1 DEF LastClose, Go, SlotAt, TypeOK
  <2>3. CASE ref[p] = 1
    <3>1. On(p) = {s}
      BY <2>1, <2>3, ExactCount
    <3>2. FreeVnode(p, s)
      BY <1>1, <1>4, <1>25, <2>1, <2>3 DEF LastClose, SlotAt
    <3> QED
      BY <1>20, <2>1, <2>2, <3>1, <3>2 DEF SlotAt
  <2>4. CASE ref[p] # 1
    <3>1. fds' = fds /\ vnodes' = vnodes
      BY <1>4, <1>25, <2>1, <2>4 DEF LastClose, SlotAt
    <3>2. Work(t, p, s)'
      BY <1>6, <2>1, <2>2, <2>4, <3>1 DEF Work, AtWork
    <3> QED
      BY <1>7, <2>1, <2>2, <3>1, <3>2
  <2> QED
    BY <2>3, <2>4
<1>26. CASE Release(t)
  <2>1. /\ at[t] = "release" /\ Exact(p) /\ UNCHANGED <<vnodes, ref, slot, hold>>
        /\ Node(s) = "none" \/ (s \in On(p) /\ ref[p] > 1)
    BY <1>2, <1>26 DEF Release, Work, table
  <2>2. CASE Node(s) = "none"
    <3>1. fds' = [fds EXCEPT ![s] = FreeFd] /\ at'[t] = "idle"
      BY <1>1, <1>26, <2>2 DEF Release, Dangling, Node, Go, TypeOK
    <3>2. fds'[s].node = "free" /\ \A r \in Slot \ {s} : fds'[r] = fds[r]
      BY <3>1, FreeFdType DEF TypeOK
    <3>3. On(p)' = On(p) /\ SameFile(p)
      BY <2>1, <2>2, <3>2 DEF SameFile, On, Node
    <3>4. Exact(p)'
      BY <2>1, <3>3, ExactSame
    <3>5. \A r \in Slot : fds'[r].path = p => Node(r)' \notin {"found", "freed"}
      BY <1>5, <2>1, <3>2 DEF Node
    <3> QED
      BY <1>8, <2>1, <3>1, <3>3, <3>4, <3>5 DEF SlotAt
  <2>3. CASE s \in On(p) /\ ref[p] > 1
    <3>1. fds' = fds /\ reg'[t] = ref[p] /\ at'[t] = "countDown"
      BY <1>1, <1>26, <2>3 DEF Release, Dangling, On, Go, TypeOK
    <3>2. Work(t, p, s)'
      BY <1>6, <2>1, <2>3, <3>1 DEF Work, AtWork
    <3> QED
      BY <1>7, <2>1, <3>1, <3>2
  <2> QED
    BY <2>1, <2>2, <2>3
<1>27. CASE CountDown(t)
  <2>1. /\ at[t] = "countDown" /\ s \in On(p) /\ Exact(p) /\ reg[t] = ref[p] /\ ref[p] > 1
        /\ UNCHANGED <<vnodes, slot, hold>>
    BY <1>2, <1>27 DEF CountDown, Work, AtWork
  <2>2. fds' = [fds EXCEPT ![s] = FreeFd] /\ at'[t] = "idle" /\ ref'[p] = ref[p] - 1
    BY <1>1, <1>4, <1>27, <2>1 DEF CountDown, Go, SlotAt, TypeOK
  <2>3. fds'[s].node = "free" /\ \A r \in Slot \ {s} : fds'[r] = fds[r]
    BY <2>2, FreeFdType DEF TypeOK
  <2>4. On(p)' = On(p) \ {s}
    BY <2>3 DEF On
  <2>5. p \in vnodes /\ ref[p] = Cardinality(On(p)) /\ On(p) # {s}
    BY <2>1, ExactCount
  <2>6. Exact(p)'
    BY <2>1, <2>2, <2>4, <2>5, CountOneLess DEF Exact
  <2>7. \A r \in Slot : fds'[r].path = p => Node(r)' \notin {"found", "freed"}
    BY <1>5, <2>1, <2>3 DEF Node
  <2> QED
    BY <1>8, <2>1, <2>2, <2>4, <2>6, <2>7 DEF SlotAt
<1>28. ~(TestOpen(t) \/ FUnlink(t))
  BY DEF TestOpen, FUnlink, InCall
<1> QED
  BY <1>11, <1>12, <1>13, <1>14, <1>15, <1>16, <1>18, <1>19, <1>21, <1>22, <1>23, <1>24, <1>25, <1>26,
     <1>27, <1>28 DEF Step

(* A call that begins.                                                      *)
LEMMA CountedCall ==
  ASSUME TypeOK, TypeOK', DescInv, NodeInv, NEW t \in Thread, Call(t),
         NEW p \in Path \ raced', CountedOK(p)
  PROVE  CountedOK(p)'
<1>1. SameFile(p) /\ OthersStay(t) /\ fds' = fds /\ (Exact(p)' <=> Exact(p)) /\ On(p)' = On(p)
  BY CallFrame, OthersStayed, ExactSame DEF Call, CallOpen, CallClose, CallUnlink, Begins, SameFile
<1>2. PICK q \in Path, l \in {"new", "test", "close"} :
        /\ Begins(t, q, l)
        /\ l # "test" => Overlaps(q)
        /\ l # "close" => hold' = hold
        /\ l = "close" => /\ slot'[t] \in hold[t] /\ fds[slot'[t]].path = q
                          /\ hold'[t] = hold[t] \ {slot'[t]}
  BY FdsType DEF Call, CallOpen, CallClose, CallUnlink, TypeOK
<1>3. at[t] = "idle" /\ at'[t] = l /\ path'[t] = q
  BY <1>2 DEF Begins, Go, TypeOK
<1>4. \A u \in Thread : hold'[u] \subseteq hold[u] /\ hold[u] \subseteq Slot
  BY <1>1, <1>2 DEF OthersStay, TypeOK
<1>5. CASE p = q /\ l # "test"
  <2>1. \A u \in Thread : ~InCall(u, p)
    BY <1>2, <1>5 DEF Overlaps
  <2>2. \A u \in Thread \ {t} : ~InCall(u, p)'
    BY <1>1, <2>1 DEF OthersStay, InCall
  <2>3. Exact(p)'
    BY <1>1, <2>1 DEF CountedOK, Untouched
  <2>4. \A s \in Slot : fds[s].path = p => Node(s) # "found"
    BY <2>1 DEF CountedOK, InCall
  <2>5. Work(t, p, slot[t])'
    <3>1. CASE l = "close"
      <4>1. slot'[t] \in On(p)'
        BY <1>1, <1>2, <1>5, <3>1 DEF CountedOK
      <4> QED
        BY <1>3, <2>3, <3>1, <4>1 DEF Work, AtWork
    <3>2. CASE l = "new"
      BY <1>3, <2>3, <3>2 DEF Work, AtWork
    <3> QED
      BY <1>5, <3>1, <3>2
  <2> QED
    BY <1>1, <1>4, <2>2, <2>3, <2>4, <2>5 DEF CountedOK, Node
<1>6. CASE p # q \/ l = "test"
  <2>1. \A u \in Thread : /\ InCall(u, p)' <=> InCall(u, p)
                          /\ InCall(u, p) => UNCHANGED <<at[u], path[u], slot[u], reg[u]>>
    BY <1>1, <1>3, <1>6 DEF OthersStay, InCall
  <2>2. Apart(p)
    BY <1>1, <1>4, <2>1 DEF Apart
  <2> QED
    BY <2>2, CountedApart
<1> QED
  BY <1>5, <1>6

(* Every step keeps the counts of the files that are not raced.              *)
LEMMA CountedStep ==
  TypeOK /\ TypeOK' /\ DescInv /\ NodeInv /\ OneCaller /\ CountedInv /\ [Next]_vars => CountedInv'
<1> SUFFICES ASSUME TypeOK, TypeOK', DescInv, NodeInv, OneCaller, CountedInv, [Next]_vars,
                    NEW p \in Path \ raced'
             PROVE  CountedOK(p)'
  BY DEF CountedInv
<1>1. CASE UNCHANGED vars
  <2>1. CountedOK(p)
    BY <1>1 DEF CountedInv, vars, hist
  <2>2. Apart(p)
    BY <1>1 DEF Apart, SameFile, On, InCall, vars, table
  <2> QED
    BY <2>1, <2>2, CountedApart
<1>2. ASSUME NEW t \in Thread, Step(t) PROVE CountedOK(p)'
  <2>1. p \in Path \ raced
    BY <1>2, StepHold
  <2>2. CountedOK(p)
    BY <2>1 DEF CountedInv
  <2>3. CASE InCall(t, p)
    <3>1. p = path[t]
      BY <2>3 DEF InCall
    <3> QED
      BY <1>2, <2>1, <2>2, <2>3, <3>1, CountedStepOwn
  <2>4. CASE ~InCall(t, p)
    BY <1>2, <2>1, <2>2, <2>4, CountedFrame
  <2> QED
    BY <2>3, <2>4
<1>3. ASSUME NEW t \in Thread, Call(t) PROVE CountedOK(p)'
  <2>1. p \in Path \ raced
    BY <1>3 DEF Call, CallOpen, CallClose, CallUnlink, Begins, Overlaps
  <2>2. CountedOK(p)
    BY <2>1 DEF CountedInv
  <2> QED
    BY <1>3, <2>2, CountedCall
<1> QED
  BY <1>1, <1>2, <1>3 DEF Next

(* All the parts of the invariant, in every reachable state.                 *)
LEMMA CountedInvariant == Spec => [](TypeOK /\ NodeInv /\ CountedInv)
<1>1. TypeOK /\ OneCaller /\ [Next]_vars => OneCaller'
  BY OneCallerStep
<1>2. TypeOK /\ DescInv /\ NodeInv /\ OneCaller /\ CountedInv /\ [Next]_vars => CountedInv'
  BY TypeStep, CountedStep
<1> QED
  BY OneCallerInit, CountedInit, NodeInvariant, <1>1, <1>2, PTL DEF Spec
-----------------------------------------------------------------------------
(* unlink removes a file under a descriptor that reached it before the test  *)
(* found the file closed only if two opens or closes of that file had        *)
(* overlapped and one of them freed the vnode under the descriptor.          *)
THEOREM UnlinkCorrect == Spec => []UnlinkSafe
<1>1. TypeOK /\ NodeInv /\ CountedInv => UnlinkSafe
  <2> SUFFICES ASSUME TypeOK, NodeInv, CountedInv, NEW t \in Thread, at[t] = "unlink",
                      NEW s \in Reached(path[t]) \ after[t]
               PROVE  fds[s].node = "freed" /\ path[t] \in raced
    BY DEF UnlinkSafe
  <2>1. s \in Slot /\ fds[s].path = path[t] /\ path[t] \in Path
    BY DEF Reached, TypeOK
  <2>2. fds[s].node = "freed"
    <3>1. s \notin On(path[t])
      BY DEF NodeInv, OnSafe
    <3> QED
      BY <2>1, <3>1 DEF Reached, On
  <2>3. path[t] \in raced
    BY <2>1, <2>2 DEF CountedInv, CountedOK, Node
  <2> QED
    BY <2>2, <2>3
<1> QED
  BY CountedInvariant, <1>1, PTL

(* A file of which no two opens or closes have overlapped is, while none is  *)
(* under way, in the hash if and only if a descriptor has it, and is counted *)
(* once for each, whichever threads have it open; and what a caller has open *)
(* is still on it.                                                          *)
CountsExact ==
  \A p \in Path \ raced : (\A t \in Thread : ~InCall(t, p)) =>
    /\ Exact(p)
    /\ \A t \in Thread : \A s \in hold[t] : fds[s].path = p => s \in On(p)

THEOREM CountsCorrect == Spec => []CountsExact
<1>1. CountedInv => CountsExact
  BY DEF CountedInv, CountedOK, Untouched, CountsExact
<1> QED
  BY CountedInvariant, <1>1, PTL
=============================================================================
