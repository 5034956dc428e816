----------------------------- MODULE SdFileProofs ----------------------------
(***************************************************************************)
(* Theorems about SdFile, for every card, set of commands, size of the     *)
(* descriptor table and bound on failures and resets.                      *)
(*                                                                         *)
(* TablesOK is what DFS and FatFs keep to whatever is called: the counts   *)
(* of the vnodes, the one FIL object of a file, offsets inside the file.   *)
(* CommandOK says what a command has in its hands at each of its calls,    *)
(* and which of its descriptors it still has to close there.  ContrastOK   *)
(* and CopyOK follow file_contrast and a copy to a new path through their  *)
(* loops.                                                                  *)
(***************************************************************************)
EXTENDS SdFile, FiniteSetTheorems, TLAPS

Slot == 0 .. MaxFd - 1
Content == Seq(Chunk \cup {Torn})
Side == {"src", "dst"}
Descriptor == [path : Path, fil : BOOLEAN, pos : Nat, entry : Nat, mod : BOOLEAN, err : BOOLEAN]

\* A descriptor that takes no part in the FIL object has never moved.
DescOK ==
  /\ DOMAIN desc \subseteq Slot
  /\ desc \in [DOMAIN desc -> Descriptor]
  /\ \A k \in DOMAIN desc :
       /\ desc[k].path \in DOMAIN disk
       /\ desc[k].pos <= Len(disk[desc[k].path])
       /\ ~desc[k].fil => desc[k].pos = 0

\* One FIL object of a file, and a vnode for every file that is open.
FilesOK ==
  /\ \A j, k \in DOMAIN desc : desc[j].path = desc[k].path /\ desc[j].fil /\ desc[k].fil => j = k
  /\ DOMAIN vnode = {desc[k].path : k \in DOMAIN desc}
  /\ vnode \in [DOMAIN vnode -> Nat]
  /\ \A p \in DOMAIN vnode : vnode[p] = Cardinality(On(p))

DiskOK ==
  /\ DOMAIN disk \subseteq Path
  /\ disk \in [DOMAIN disk -> Content]
  /\ room \in Nat

TablesOK == DiskOK /\ DescOK /\ FilesOK /\ lost \subseteq DOMAIN desc

-----------------------------------------------------------------------------
\* The descriptors a command still closes, or opens over, from each call on.
Pending ==
  CASE pc \in {"openDst", "failClose", "openB"} -> {"src"}
    [] pc \in {"closeDst", "closeB"} -> {"dst"}
    [] pc \in {"idle", "openSrc", "openA", "rm"} -> {}
    [] OTHER -> Side

CopyCalls == {"openSrc", "openDst", "read", "readDone", "readClose", "write", "writeClose",
              "reopen", "closeSrc", "closeDst", "failClose"}
ContrastCalls == {"openA", "openB", "readA", "readB", "readCloseA", "readCloseB", "compare",
                  "closeA", "closeB"}

FdsOK ==
  /\ fd \in [Side -> Slot \cup {Closed}]
  /\ pc # "idle" =>
       /\ \A x \in Side : fd[x] \in DOMAIN desc \cup {Closed}
       /\ fd["src"] = fd["dst"] => fd["src"] = Closed
  /\ \A k \in DOMAIN desc \ lost : \E x \in Pending : fd[x] = k

CommandOK ==
  /\ pc \in Calls
  /\ pc \in CopyCalls => cmd \in Command /\ cmd.op = "copy"
  /\ pc \in ContrastCalls => cmd \in Command /\ cmd.op = "contrast"
  /\ pc = "rm" => cmd \in Command /\ cmd.op = "rm"
  /\ buf \in [Side -> Chunk \cup {Torn, None, Eof, Err}]
  /\ pc = "readDone" => buf["src"] # None /\ (buf["src"] = Err => fd["src"] = Closed)
  /\ pc \in {"write", "writeClose", "reopen"} => buf["src"] \in Chunk \cup {Torn}
  /\ rtry \in 1 .. ReadTries /\ wtry \in 0 .. WriteTries
  /\ pc \in {"openSrc", "openDst", "read", "readDone", "write", "writeClose", "reopen"} => wtry >= 1
  /\ ret \in {None, "ok", "fail", "same", "differ"}
  /\ ret \in {"ok", "fail"} => pc = "idle"
  /\ ret = "same" => pc \in {"closeA", "closeB", "idle", "hung"} /\ cmd.op = "contrast"
  /\ faults \in 0 .. MaxFault /\ crashes \in 0 .. MaxCrash

Core == TablesOK /\ FdsOK /\ CommandOK

\* The descriptor fd[x] is of file p, which has not changed since it was opened.
Unwritten(x, p) ==
  fd[x] # Closed => /\ desc[fd[x]].path = p
                    /\ ~desc[fd[x]].mod
                    /\ desc[fd[x]].entry >= Len(disk[p])
-----------------------------------------------------------------------------
(* file_contrast. *)

Readable(x) == fd[x] # Closed /\ desc[fd[x]].fil
Pos(x) == desc[fd[x]].pos

\* The two files agree in their first n chunks.
Agree(n) ==
  /\ n <= Len(disk[cmd.a]) /\ n <= Len(disk[cmd.b])
  /\ \A i \in 1 .. n : disk[cmd.a][i] = disk[cmd.b][i]

\* A chunk of p before n, or the end of p at n, has been read.
HasRead(x, p, n) ==
  \/ buf[x] = Err
  \/ /\ Readable(x) /\ p \in DOMAIN disk
     /\ \/ buf[x] = Eof /\ n = Len(disk[p]) /\ Pos(x) = n
        \/ n < Len(disk[p]) /\ buf[x] = disk[p][n + 1] /\ Pos(x) = n + 1

ContrastFiles ==
  /\ pc \in ContrastCalls \ {"openA"} => Unwritten("src", cmd.a)
  /\ pc \in ContrastCalls \ {"openA", "openB"} => Unwritten("dst", cmd.b)

ContrastOK ==
  /\ ContrastFiles
  /\ pc = "openB" /\ fd["src"] # Closed => Pos("src") = 0
  /\ pc = "readA" /\ Readable("src") /\ Readable("dst") =>
       Pos("src") = Pos("dst") /\ Agree(Pos("src"))
  /\ pc \in {"readCloseA"} => buf["src"] = Err
  /\ pc = "readB" =>
       \/ buf["src"] = Err
       \/ Readable("src") /\ (Readable("dst") =>
             HasRead("src", cmd.a, Pos("dst")) /\ Agree(Pos("dst")))
  /\ pc = "readCloseB" => buf["dst"] = Err
  /\ pc = "compare" =>
       \/ Err \in {buf["src"], buf["dst"]}
       \/ \E n \in Nat :
            HasRead("src", cmd.a, n) /\ HasRead("dst", cmd.b, n) /\ Agree(n)
  /\ ret = "same" => disk[cmd.a] = disk[cmd.b]
-----------------------------------------------------------------------------
(* copy_file to a path that did not exist. *)

\* The first n chunks of the source are the destination.
Copied(n) ==
  /\ n = Len(disk[cmd.b]) /\ n <= Len(disk[cmd.a])
  /\ \A i \in 1 .. n : disk[cmd.b][i] = disk[cmd.a][i]

\* Everything, or what came before a read that failed.
Done ==
  /\ {cmd.a, cmd.b} \subseteq DOMAIN disk
  /\ \E n \in Nat : Copied(n) /\ (failed = {} => n = Len(disk[cmd.a]))

\* Nothing was lost but a read.
Sound == fresh /\ failed \subseteq {"read"}

Looping == {"read", "readDone", "readClose", "write", "writeClose", "reopen"}

\* What is written through the descriptor of the destination goes to its end, and
\* as long as it has the FIL object it is the only one.
DestinationOK ==
  fd["dst"] # Closed =>
    /\ desc[fd["dst"]].path = cmd.b
    /\ desc[fd["dst"]].fil =>
         /\ desc[fd["dst"]].mod \/ desc[fd["dst"]].entry >= Len(disk[cmd.b])
         /\ Pos("dst") = Len(disk[cmd.b])
         /\ \A k \in DOMAIN desc : desc[k].path = cmd.b => k = fd["dst"]

SourceOK == cmd.a \in DOMAIN disk /\ cmd.a # cmd.b /\ Unwritten("src", cmd.a)
TargetOK == cmd.a # cmd.b /\ {cmd.a, cmd.b} \subseteq DOMAIN disk /\ DestinationOK

\* A chunk of the source has been read and is not yet written.
InHand ==
  /\ Pos("src") >= 1
  /\ buf["src"] = disk[cmd.a][Pos("src")] /\ Copied(Pos("src") - 1)

CopyOK ==
  /\ pc \in {"openSrc", "openDst"} /\ fresh => cmd.b \notin DOMAIN disk
  /\ pc \in {"openDst"} \cup Looping => fd["src"] # Closed
  /\ pc \in Looping \cup {"openDst", "closeSrc"} /\ Sound => SourceOK
  /\ pc \in Looping \cup {"closeSrc", "closeDst"} /\ Sound => TargetOK
  /\ pc = "openDst" => Pos("src") = 0
  /\ pc = "readClose" => "read" \in failed
  /\ pc \in {"read", "readClose"} /\ Sound => Copied(Pos("src"))
  /\ pc = "readDone" /\ Sound =>
       \/ buf["src"] = Eof /\ Copied(Pos("src")) /\ Pos("src") = Len(disk[cmd.a])
       \/ buf["src"] \in Chunk \cup {Torn} /\ InHand
  /\ pc \in {"write", "writeClose", "reopen"} /\ Sound => InHand
  /\ pc \in {"closeSrc", "closeDst"} /\ Sound => Done
  /\ FreshCopy /\ Sound => Done

IInv == Core /\ ContrastOK /\ CopyOK
-----------------------------------------------------------------------------
(* The tables. *)

\* Every set of slots is finite, and not empty only if it has a least element.
LEMMA SlotSets ==
  ASSUME NEW S \in SUBSET Slot
  PROVE  /\ IsFiniteSet(S) /\ Cardinality(S) \in Nat
         /\ S # {} => \E k \in S : \A j \in S : k <= j
<1>1. MaxFd \in Nat BY SdFileAssumption
<1>2. IsFiniteSet(Slot) BY <1>1, FS_Interval, SMT DEF Slot
<1>3. IsFiniteSet(S) BY <1>2, FS_Subset
<1>4. ASSUME S # {} PROVE \E k \in S : \A j \in S : k <= j
  <2>1. S \subseteq Nat BY <1>1 DEF Slot
  <2>2. \E x \in S : \A y \in S : ~ (<<y, x>> \in OpToRel(<, Nat))
    BY <1>4, <2>1, WFMin, NatLessThanWellFounded
  <2>3. PICK x \in S : \A y \in S : ~ (y < x) BY <2>1, <2>2 DEF OpToRel
  <2> QED BY <2>1, <2>3
<1> QED BY <1>3, <1>4, FS_CardinalityType

\* fd_alloc takes a free slot.
LEMMA Allocated ==
  ASSUME FreeFds # {}
  PROVE  (CHOOSE k \in FreeFds : \A j \in FreeFds : k <= j) \in Slot \ DOMAIN desc
<1>1. FreeFds \in SUBSET Slot BY DEF FreeFds, Slot
<1>2. \E k \in FreeFds : \A j \in FreeFds : k <= j BY <1>1, SlotSets
<1>3. (CHOOSE k \in FreeFds : \A j \in FreeFds : k <= j) \in FreeFds BY <1>2
<1> QED BY <1>3 DEF FreeFds, Slot

\* A descriptor of p more is one more in the count of p, and of no other file.
LEMMA CountOpened ==
  ASSUME DescOK, NEW k \in Slot \ DOMAIN desc, NEW p,
         DOMAIN desc' = DOMAIN desc \cup {k}, desc'[k].path = p,
         \A j \in DOMAIN desc : desc'[j] = desc[j]
  PROVE  /\ Cardinality(On(p)') = Cardinality(On(p)) + 1
         /\ \A q : q # p => On(q)' = On(q)
<1>1. On(p)' = On(p) \cup {k} BY DEF On
<1>2. \A q : q # p => On(q)' = On(q) BY DEF On
<1>3. k \notin On(p) /\ On(p) \in SUBSET Slot BY DEF On, DescOK
<1>4. Cardinality(On(p) \cup {k}) = Cardinality(On(p)) + 1 BY <1>3, SlotSets, FS_AddElement
<1> QED BY <1>1, <1>2, <1>4

\* A descriptor less is one less in the count of its file.
LEMMA CountClosed ==
  ASSUME DescOK, NEW k \in DOMAIN desc, NEW p, desc[k].path = p,
         DOMAIN desc' = DOMAIN desc \ {k},
         \A j \in DOMAIN desc \ {k} : desc'[j] = desc[j]
  PROVE  /\ Cardinality(On(p)') = Cardinality(On(p)) - 1
         /\ \A q : q # p => On(q)' = On(q)
<1>1. On(p)' = On(p) \ {k} BY DEF On
<1>2. \A q : q # p => On(q)' = On(q) BY DEF On
<1>3. k \in On(p) /\ On(p) \in SUBSET Slot BY DEF On, DescOK
<1>4. Cardinality(On(p) \ {k}) = Cardinality(On(p)) - 1 BY <1>3, SlotSets, FS_RemoveElement
<1> QED BY <1>1, <1>2, <1>4

\* A count of one is one descriptor, a count of zero none.
LEMMA Counts ==
  ASSUME DescOK, NEW p
  PROVE  /\ Cardinality(On(p)) \in Nat
         /\ Cardinality(On(p)) = 0 <=> \A j \in DOMAIN desc : desc[j].path # p
         /\ Cardinality(On(p)) = 1 => \A j, k \in DOMAIN desc :
              desc[j].path = p /\ desc[k].path = p => j = k
         /\ \A k \in DOMAIN desc :
              (\A j \in DOMAIN desc : desc[j].path = p <=> j = k) => Cardinality(On(p)) = 1
<1>1. On(p) \in SUBSET Slot BY DEF On, DescOK
<1>2. IsFiniteSet(On(p)) /\ Cardinality(On(p)) \in Nat BY <1>1, SlotSets
<1>3. Cardinality(On(p)) = 0 <=> On(p) = {} BY <1>2, FS_EmptySet
<1>4. Cardinality(On(p)) = 1 <=> \E x : On(p) = {x} BY <1>2, FS_Singleton
<1>5. Cardinality(On(p)) = 0 <=> \A j \in DOMAIN desc : desc[j].path # p BY <1>3 DEF On
<1>6. ASSUME Cardinality(On(p)) = 1, NEW j \in DOMAIN desc, NEW k \in DOMAIN desc,
             desc[j].path = p, desc[k].path = p
      PROVE  j = k
  <2>1. PICK x : On(p) = {x} BY <1>4, <1>6
  <2>2. j \in On(p) /\ k \in On(p) BY <1>6 DEF On
  <2> QED BY <2>1, <2>2
<1>7. ASSUME NEW k \in DOMAIN desc, \A j \in DOMAIN desc : desc[j].path = p <=> j = k
      PROVE  Cardinality(On(p)) = 1
  <2>1. On(p) = {k} BY <1>7 DEF On
  <2> QED BY <2>1, <1>4
<1> QED BY <1>2, <1>5, <1>6, <1>7

\* With and Without, seen from outside.
LEMMA WithIn ==
  ASSUME NEW f, NEW S, f \in [DOMAIN f -> S], NEW x, NEW e \in S
  PROVE  /\ With(f, x, e) \in [DOMAIN With(f, x, e) -> S]
         /\ DOMAIN With(f, x, e) = DOMAIN f \cup {x}
         /\ With(f, x, e)[x] = e
         /\ \A y \in DOMAIN f : y # x => With(f, x, e)[y] = f[y]
BY DEF With

\* A function without an argument.
LEMMA WithoutIn ==
  ASSUME NEW f, NEW S, f \in [DOMAIN f -> S], NEW x
  PROVE  /\ Without(f, x) \in [DOMAIN Without(f, x) -> S]
         /\ DOMAIN Without(f, x) = DOMAIN f \ {x}
         /\ \A y \in DOMAIN f \ {x} : Without(f, x)[y] = f[y]
BY DEF Without

\* Contents and what the model makes of them.
LEMMA Contents ==
  /\ << >> \in Content /\ Len(<< >>) = 0
  /\ \A s \in Content : Len(s) \in Nat
  /\ \A s \in Content : \A i \in 1 .. Len(s) : s[i] \in Chunk \cup {Torn}
BY DEF Content

\* A step that keeps paths and FIL objects keeps the counts.
LEMMA SameFiles ==
  ASSUME FilesOK, UNCHANGED vnode, DOMAIN desc' = DOMAIN desc,
         \A j \in DOMAIN desc : desc'[j].path = desc[j].path /\ desc'[j].fil = desc[j].fil
  PROVE  FilesOK'
<1>1. \A q : On(q)' = On(q) BY DEF On
<1>2. {desc'[k].path : k \in DOMAIN desc'} = {desc[k].path : k \in DOMAIN desc} OBVIOUS
<1>3. vnode' = vnode OBVIOUS
<1>4. \A p \in DOMAIN vnode : vnode'[p] = Cardinality(On(p)') BY <1>1, <1>3 DEF FilesOK
<1> QED BY <1>2, <1>3, <1>4 DEF FilesOK
-----------------------------------------------------------------------------
(* What a call of DFS does to the tables. *)

\* open has put descriptor k of file p into fd[x].
Opened(x, p, k, append) ==
  /\ k \in Slot \ DOMAIN desc
  /\ fd' = [fd EXCEPT ![x] = k]
  /\ DOMAIN desc' = DOMAIN desc \cup {k}
  /\ \A j \in DOMAIN desc : desc'[j] = desc[j]
  /\ DOMAIN disk' = DOMAIN disk \cup {p}
  /\ \A q \in DOMAIN disk : disk'[q] = disk[q]
  /\ p \notin DOMAIN disk => disk'[p] = << >>
  /\ desc'[k] \in Descriptor
  /\ desc'[k].path = p
  /\ desc'[k].fil <=> p \notin DOMAIN vnode
  /\ desc'[k].pos = IF append /\ p \in DOMAIN disk /\ p \notin DOMAIN vnode
                    THEN Len(disk[p]) ELSE 0
  /\ desc'[k].entry = Len(disk'[p])
  /\ desc'[k].mod <=> p \notin DOMAIN disk
  /\ lost' = lost \cup ({fd[x]} \ {Closed})

\* An open that succeeds takes a free descriptor and leaves the others alone.
LEMMA OpenEffect ==
  ASSUME TablesOK, NEW x \in Side, NEW p \in Path, NEW create \in BOOLEAN, NEW append \in BOOLEAN,
         OpenOk(x, p, create, append)
  PROVE  \E k : Opened(x, p, k, append)
<1> DEFINE k == CHOOSE k \in FreeFds : \A j \in FreeFds : k <= j
           d == [path |-> p, fil |-> NewFil(p),
                 pos |-> IF p \in DOMAIN disk THEN OpenAt(p, append) ELSE 0,
                 entry |-> Len(disk'[p]), mod |-> p \notin DOMAIN disk, err |-> FALSE]
<1>1. k \in Slot \ DOMAIN desc BY Allocated DEF OpenOk
<1>2. /\ fd' = [fd EXCEPT ![x] = k] /\ desc' = With(desc, k, d)
      /\ disk' = IF p \in DOMAIN disk THEN disk ELSE With(disk, p, << >>)
      /\ lost' = lost \cup ({fd[x]} \ {Closed})
  BY Zenon DEF OpenOk, Overwrites
<1>3. /\ DOMAIN disk' = DOMAIN disk \cup {p}
      /\ \A q \in DOMAIN disk : disk'[q] = disk[q]
      /\ p \notin DOMAIN disk => disk'[p] = << >>
  BY <1>2 DEF With
<1>4. disk'[p] \in Content /\ Len(disk'[p]) \in Nat
  BY <1>3, Contents DEF TablesOK, DiskOK
<1>5. NewFil(p) \in BOOLEAN /\ (NewFil(p) <=> p \notin DOMAIN vnode) BY DEF NewFil
<1>6. (IF p \in DOMAIN disk THEN OpenAt(p, append) ELSE 0)
        = (IF append /\ p \in DOMAIN disk /\ p \notin DOMAIN vnode THEN Len(disk[p]) ELSE 0)
  BY <1>5 DEF OpenAt
<1>7. d.pos \in Nat BY <1>6, Contents DEF TablesOK, DiskOK
<1>8. d \in Descriptor BY <1>4, <1>5, <1>7 DEF Descriptor
<1>9. d.path = p /\ (d.fil <=> p \notin DOMAIN vnode) /\ d.entry = Len(disk'[p])
      /\ (d.mod <=> p \notin DOMAIN disk)
      /\ d.pos = IF append /\ p \in DOMAIN disk /\ p \notin DOMAIN vnode THEN Len(disk[p]) ELSE 0
  BY <1>5, <1>6
<1> HIDE DEF k, d
<1>10. /\ DOMAIN desc' = DOMAIN desc \cup {k}
       /\ \A j \in DOMAIN desc : desc'[j] = desc[j]
       /\ desc'[k] = d
  BY <1>1, <1>2 DEF With
<1>11. /\ desc'[k] \in Descriptor /\ desc'[k].path = p
       /\ desc'[k].fil <=> p \notin DOMAIN vnode
       /\ desc'[k].entry = Len(disk'[p])
       /\ desc'[k].mod <=> p \notin DOMAIN disk
       /\ desc'[k].pos = IF append /\ p \in DOMAIN disk /\ p \notin DOMAIN vnode
                         THEN Len(disk[p]) ELSE 0
  BY <1>8, <1>9, <1>10
<1>12. Opened(x, p, k, append) BY Zenon, <1>1, <1>2, <1>3, <1>10, <1>11 DEF Opened
<1> QED BY <1>12

\* A new descriptor keeps the tables in order.
LEMMA OpenTables ==
  ASSUME TablesOK, NEW x \in Side, NEW p \in Path, NEW create \in BOOLEAN, NEW append \in BOOLEAN,
         fd[x] \in DOMAIN desc \cup {Closed}, OpenOk(x, p, create, append)
  PROVE  TablesOK'
<1>1. PICK k : Opened(x, p, k, append) BY OpenEffect
<1>2. /\ vnode' = With(vnode, p, IF NewFil(p) THEN 1 ELSE vnode[p] + 1)
      /\ room' = room
      /\ disk' = IF p \in DOMAIN disk THEN disk ELSE With(disk, p, << >>)
      /\ desc' = With(desc, k, desc'[k])
  <2>1. k = CHOOSE j \in FreeFds : \A i \in FreeFds : j <= i
    <3>1. k \in DOMAIN desc' \ DOMAIN desc BY <1>1 DEF Opened
    <3> QED BY <3>1 DEF OpenOk, With
  <2>2. k \in {k} BY <1>1 DEF Opened
  <2>3. \E e : desc' = With(desc, k, e) BY Zenon, <2>1 DEF OpenOk
  <2>4. PICK e : desc' = With(desc, k, e) BY <2>3
  <2>5. desc'[k] = e BY <2>4 DEF With
  <2>6. desc' = With(desc, k, desc'[k]) BY <2>4, <2>5
  <2>7. /\ vnode' = With(vnode, p, IF NewFil(p) THEN 1 ELSE vnode[p] + 1) /\ room' = room
        /\ disk' = IF p \in DOMAIN disk THEN disk ELSE With(disk, p, << >>)
    BY Zenon DEF OpenOk
  <2> QED BY Zenon, <2>6, <2>7
<1>3. DiskOK'
  <2>1. CASE p \in DOMAIN disk
    BY <2>1, <1>2 DEF TablesOK, DiskOK
  <2>2. CASE p \notin DOMAIN disk
    <3>1. disk \in [DOMAIN disk -> Content] /\ << >> \in Content BY Contents DEF TablesOK, DiskOK
    <3>2. With(disk, p, << >>) \in [DOMAIN With(disk, p, << >>) -> Content] BY <3>1 DEF With
    <3>3. DOMAIN With(disk, p, << >>) = DOMAIN disk \cup {p} BY DEF With
    <3> QED BY <3>2, <3>3, <2>2, <1>2 DEF DiskOK, TablesOK
  <2> QED BY <2>1, <2>2
<1>4. DescOK'
  <2>3. desc' \in [DOMAIN desc' -> Descriptor]
    <3>1. desc \in [DOMAIN desc -> Descriptor] /\ desc'[k] \in Descriptor
      BY <1>1 DEF Opened, TablesOK, DescOK
    <3>2. With(desc, k, desc'[k]) \in [DOMAIN With(desc, k, desc'[k]) -> Descriptor]
      BY <3>1 DEF With
    <3> QED BY Zenon, <3>2, <1>2
  <2>4. DOMAIN desc' \subseteq Slot BY <1>1 DEF Opened, TablesOK, DescOK
  <2>5. ASSUME NEW j \in DOMAIN desc
        PROVE  /\ desc'[j].path \in DOMAIN disk'
               /\ desc'[j].pos <= Len(disk'[desc'[j].path])
               /\ ~desc'[j].fil => desc'[j].pos = 0
    BY <1>1 DEF Opened, TablesOK, DescOK
  <2>6. /\ desc'[k].path \in DOMAIN disk'
        /\ desc'[k].pos <= Len(disk'[desc'[k].path])
        /\ ~desc'[k].fil => desc'[k].pos = 0
    <3>1. disk'[p] \in Content BY <1>1, <1>3 DEF Opened, DiskOK
    <3>2. Len(disk'[p]) \in Nat BY <3>1, Contents
    <3> QED BY <1>1, <3>2 DEF Opened
  <2> QED BY <1>1, <2>3, <2>4, <2>5, <2>6 DEF DescOK, Opened
<1>5. FilesOK'
  <2>1. \A i, j \in DOMAIN desc' :
          desc'[i].path = desc'[j].path /\ desc'[i].fil /\ desc'[j].fil => i = j
    BY <1>1 DEF Opened, TablesOK, FilesOK
  <2>2. DOMAIN vnode' = DOMAIN vnode \cup {p} BY <1>2 DEF With
  <2>3. DOMAIN vnode' = {desc'[j].path : j \in DOMAIN desc'}
    BY <1>1, <2>2 DEF Opened, TablesOK, FilesOK
  <2>4. vnode' \in [DOMAIN vnode' -> Nat]
    <3>1. vnode \in [DOMAIN vnode -> Nat] BY DEF TablesOK, FilesOK
    <3>2. (IF NewFil(p) THEN 1 ELSE vnode[p] + 1) \in Nat BY <3>1 DEF NewFil
    <3>3. With(vnode, p, IF NewFil(p) THEN 1 ELSE vnode[p] + 1)
            \in [DOMAIN vnode \cup {p} -> Nat]
      BY <3>1, <3>2 DEF With
    <3> QED BY <3>3, <2>2, <1>2
  <2>5. Cardinality(On(p)') = Cardinality(On(p)) + 1 /\ \A q : q # p => On(q)' = On(q)
    BY <1>1, CountOpened DEF Opened, TablesOK
  <2>6. vnode'[p] = Cardinality(On(p)')
    <3>1. CASE p \in DOMAIN vnode
      BY <3>1, <1>2, <2>5 DEF With, NewFil, TablesOK, FilesOK
    <3>2. CASE p \notin DOMAIN vnode
      <4>1. \A j \in DOMAIN desc : desc[j].path # p BY <3>2 DEF TablesOK, FilesOK
      <4>2. Cardinality(On(p)) = 0 BY <4>1, Counts DEF TablesOK
      <4>3. vnode'[p] = 1 BY <3>2, <1>2 DEF With, NewFil
      <4> QED BY <4>2, <4>3, <2>5
    <3> QED BY <3>1, <3>2
  <2>7. \A q \in DOMAIN vnode' : vnode'[q] = Cardinality(On(q)')
    <3> TAKE q \in DOMAIN vnode'
    <3>1. CASE q = p BY <3>1, <2>6
    <3>2. CASE q # p
      <4>1. q \in DOMAIN vnode /\ vnode'[q] = vnode[q] BY <3>2, <2>2, <1>2 DEF With
      <4> QED BY <4>1, <3>2, <2>5 DEF TablesOK, FilesOK
    <3> QED BY <3>1, <3>2
  <2> QED BY <2>1, <2>3, <2>4, <2>7 DEF FilesOK
<1>6. lost' \subseteq DOMAIN desc' BY <1>1 DEF Opened, TablesOK
<1> QED BY <1>3, <1>4, <1>5, <1>6 DEF TablesOK
\* What is left of a file is its beginning, and all of it if the entry is up to date.
LEMMA StaleDisk ==
  ASSUME TablesOK, NEW d \in Descriptor, d.path \in DOMAIN disk
  PROVE  /\ Stale(d) \in [DOMAIN disk -> Content]
         /\ \A q \in DOMAIN disk \ {d.path} : Stale(d)[q] = disk[q]
         /\ d.entry >= Len(disk[d.path]) => Stale(d) = disk
<1> DEFINE p == d.path
           n == IF Len(disk[p]) < d.entry THEN Len(disk[p]) ELSE d.entry
<1>1. disk \in [DOMAIN disk -> Content] /\ disk[p] \in Content /\ d.entry \in Nat
  BY DEF TablesOK, DiskOK, Descriptor
<1>2. Len(disk[p]) \in Nat BY <1>1, Contents
<1>3. n \in 0 .. Len(disk[p]) /\ (d.entry >= Len(disk[p]) => n = Len(disk[p])) BY <1>1, <1>2
<1>4. Stale(d) = [disk EXCEPT ![p] = SubSeq(disk[p], 1, n)] BY DEF Stale
<1> HIDE DEF n
<1>5. SubSeq(disk[p], 1, n) \in Content BY <1>1, <1>2, <1>3 DEF Content
<1>6. n = Len(disk[p]) => SubSeq(disk[p], 1, n) = disk[p] BY <1>1, <1>2, <1>3 DEF Content
<1> QED BY <1>1, <1>3, <1>4, <1>5, <1>6

\* What file_close(&fd[x]) does before its caller goes on at next.
Closing(x, next) ==
  \/ /\ pc' = "hung" \/ (fd[x] = Closed /\ pc' = next)
     /\ UNCHANGED <<disk, vnode, desc, lost, fd, failed>>
  \/ /\ pc' = next /\ fd[x] # Closed /\ desc[fd[x]].mod
     /\ lost' = lost \cup {fd[x]} /\ failed' = failed \cup {"close"}
     /\ UNCHANGED <<disk, vnode, desc, fd>>
  \/ /\ pc' = next /\ fd[x] # Closed
     /\ Release(fd[x]) /\ fd' = [fd EXCEPT ![x] = Closed]
     /\ failed' = failed \/ failed' = failed \cup {"close"}
     /\ \/ disk' = disk
        \/ /\ disk' = Stale(desc[fd[x]])
           /\ desc[fd[x]].fil
           /\ \/ vnode[desc[fd[x]].path] > 1
              \/ ~desc[fd[x]].mod
              \/ failed' = failed \cup {"close"}

\* file_close is one of its four outcomes, and a failure is counted.
LEMMA CloseEffect ==
  ASSUME NEW x \in Side, NEW next, CloseTo(x, next)
  PROVE  Closing(x, next) /\ faults' \in {faults, faults + 1} /\ (faults' # faults => faults < MaxFault)
<1>1. CASE fd[x] = Closed /\ pc' = next /\ NoFault /\ UNCHANGED <<disk, tables, fd, failed>>
  BY <1>1 DEF Closing, NoFault, tables
<1>2. CASE ~(fd[x] = Closed /\ pc' = next /\ NoFault /\ UNCHANGED <<disk, tables, fd, failed>>)
  <2> DEFINE d == desc[fd[x]]
  <2>1. fd[x] # Closed BY Zenon, <1>2 DEF CloseTo
  <2>2. \/ /\ vnode[d.path] > 1
           /\ disk' = IF d.fil THEN Stale(d) ELSE disk
           /\ Release(fd[x]) /\ fd' = [fd EXCEPT ![x] = Closed]
           /\ pc' = next /\ NoFault /\ UNCHANGED failed
        \/ /\ vnode[d.path] = 1 /\ ~d.fil
           /\ pc' = "hung" /\ NoFault /\ UNCHANGED <<disk, tables, fd, failed>>
        \/ /\ vnode[d.path] = 1 /\ d.fil
           /\ disk' = IF d.mod THEN disk ELSE Stale(d)
           /\ Release(fd[x]) /\ fd' = [fd EXCEPT ![x] = Closed]
           /\ pc' = next /\ NoFault /\ UNCHANGED failed
        \/ /\ vnode[d.path] = 1 /\ d.fil /\ d.mod /\ Fault("close")
           /\ \/ lost' = lost \cup {fd[x]} /\ UNCHANGED <<disk, vnode, desc, fd>>
              \/ /\ disk' = Stale(d) /\ Release(fd[x])
                 /\ fd' = [fd EXCEPT ![x] = Closed]
           /\ pc' = next /\ failed' = failed \cup {"close"}
    BY Zenon, <1>2 DEF CloseTo
  <2> HIDE DEF d
  <2>3. d = desc[fd[x]] BY DEF d
  <2>4. CASE /\ vnode[d.path] > 1
             /\ disk' = IF d.fil THEN Stale(d) ELSE disk
             /\ Release(fd[x]) /\ fd' = [fd EXCEPT ![x] = Closed]
             /\ pc' = next /\ NoFault /\ UNCHANGED failed
    BY Zenon, <2>1, <2>3, <2>4 DEF Closing, NoFault
  <2>5. CASE /\ vnode[d.path] = 1 /\ ~d.fil
             /\ pc' = "hung" /\ NoFault /\ UNCHANGED <<disk, tables, fd, failed>>
    BY Zenon, <2>5 DEF Closing, NoFault, tables
  <2>6. CASE /\ vnode[d.path] = 1 /\ d.fil
             /\ disk' = IF d.mod THEN disk ELSE Stale(d)
             /\ Release(fd[x]) /\ fd' = [fd EXCEPT ![x] = Closed]
             /\ pc' = next /\ NoFault /\ UNCHANGED failed
    BY Zenon, <2>1, <2>3, <2>6 DEF Closing, NoFault
  <2>7. CASE /\ vnode[d.path] = 1 /\ d.fil /\ d.mod /\ Fault("close")
             /\ \/ lost' = lost \cup {fd[x]} /\ UNCHANGED <<disk, vnode, desc, fd>>
                \/ /\ disk' = Stale(d) /\ Release(fd[x])
                   /\ fd' = [fd EXCEPT ![x] = Closed]
             /\ pc' = next /\ failed' = failed \cup {"close"}
    BY Zenon, <2>1, <2>3, <2>7 DEF Closing, Fault
  <2> QED BY <2>2, <2>4, <2>5, <2>6, <2>7
<1> QED BY <1>1, <1>2

\* The tables of a released descriptor.
LEMMA Released ==
  ASSUME TablesOK, NEW k \in DOMAIN desc, Release(k)
  PROVE  /\ DOMAIN desc' = DOMAIN desc \ {k}
         /\ \A j \in DOMAIN desc \ {k} : desc'[j] = desc[j]
         /\ desc' \in [DOMAIN desc' -> Descriptor]
         /\ lost' = lost \ {k}
BY WithoutIn DEF Release, Without, TablesOK, DescOK

\* A descriptor less keeps the tables in order.
LEMMA CloseTables ==
  ASSUME TablesOK, NEW k \in DOMAIN desc, Release(k), room' = room,
         disk' = disk \/ (disk' = Stale(desc[k]) /\ desc[k].fil)
  PROVE  TablesOK' /\ DOMAIN disk' = DOMAIN disk
<1>1. /\ DOMAIN desc' = DOMAIN desc \ {k}
      /\ \A j \in DOMAIN desc \ {k} : desc'[j] = desc[j]
      /\ desc' \in [DOMAIN desc' -> Descriptor]
      /\ lost' = lost \ {k}
  BY Released
<1>2. PICK d \in Descriptor : d = desc[k] BY DEF TablesOK, DescOK
<1>3. d.path \in DOMAIN disk BY <1>2 DEF TablesOK, DescOK
<1>4. disk' \in [DOMAIN disk -> Content] /\ \A q \in DOMAIN disk : q # d.path \/ ~d.fil => disk'[q] = disk[q]
  BY <1>2, <1>3, StaleDisk DEF TablesOK, DiskOK
<1>5. DOMAIN disk' = DOMAIN disk BY <1>4
<1>6. DiskOK' BY <1>4, <1>5 DEF TablesOK, DiskOK
<1>7. DescOK'
  <2>1. ASSUME NEW j \in DOMAIN desc'
        PROVE  /\ desc'[j].path \in DOMAIN disk'
               /\ desc'[j].pos <= Len(disk'[desc'[j].path])
               /\ ~desc'[j].fil => desc'[j].pos = 0
    <3>1. j \in DOMAIN desc /\ j # k /\ desc'[j] = desc[j] BY <1>1
    <3>2. desc[j] \in Descriptor /\ desc[j].path \in DOMAIN disk /\ desc[j].pos <= Len(disk[desc[j].path])
          /\ (~desc[j].fil => desc[j].pos = 0)
      BY <3>1 DEF TablesOK, DescOK
    <3>3. CASE desc[j].path # d.path \/ ~d.fil BY <1>4, <1>5, <3>1, <3>2, <3>3
    <3>4. CASE desc[j].path = d.path /\ d.fil
      <4>1. ~desc[j].fil BY <3>1, <3>4, <1>2 DEF TablesOK, FilesOK
      <4>2. desc[j].pos = 0 BY <4>1, <3>2
      <4>3. disk'[d.path] \in Content BY <1>3, <1>4
      <4>4. Len(disk'[d.path]) \in Nat BY <4>3, Contents
      <4> QED BY <4>2, <4>4, <3>1, <3>2, <3>4, <1>5
    <3> QED BY <3>3, <3>4
  <2> QED BY <1>1, <2>1 DEF TablesOK, DescOK
<1>8. FilesOK'
  <2>1. PICK p : p = desc[k].path OBVIOUS
  <2>2. Cardinality(On(p)') = Cardinality(On(p)) - 1 /\ \A q : q # p => On(q)' = On(q)
    BY <1>1, <2>1, CountClosed DEF TablesOK
  <2>3. vnode' = IF vnode[p] = 1 THEN Without(vnode, p) ELSE [vnode EXCEPT ![p] = vnode[p] - 1]
    BY <2>1 DEF Release
  <2>4. p \in DOMAIN vnode /\ vnode[p] = Cardinality(On(p)) /\ vnode \in [DOMAIN vnode -> Nat]
    BY <2>1 DEF TablesOK, FilesOK
  <2>5. \A i, j \in DOMAIN desc' :
          desc'[i].path = desc'[j].path /\ desc'[i].fil /\ desc'[j].fil => i = j
    BY <1>1 DEF TablesOK, FilesOK
  <2>6. Cardinality(On(p)) # 0 BY <2>1, Counts DEF TablesOK
  <2>7. CASE vnode[p] = 1
    <3>1. /\ vnode' \in [DOMAIN vnode' -> Nat] /\ DOMAIN vnode' = DOMAIN vnode \ {p}
          /\ \A q \in DOMAIN vnode \ {p} : vnode'[q] = vnode[q]
      BY <2>3, <2>4, <2>7 DEF Without
    <3>2. \A j \in DOMAIN desc : desc[j].path = p => j = k
      BY <2>1, <2>4, <2>7, Counts DEF TablesOK
    <3>3. DOMAIN vnode' = {desc'[j].path : j \in DOMAIN desc'}
      <4>1. DOMAIN vnode = {desc[j].path : j \in DOMAIN desc} BY DEF TablesOK, FilesOK
      <4> QED BY <4>1, <3>1, <3>2, <1>1, <2>1
    <3>4. \A q \in DOMAIN vnode' : vnode'[q] = Cardinality(On(q)')
      BY <3>1, <2>2 DEF TablesOK, FilesOK
    <3> QED BY <2>5, <3>1, <3>3, <3>4 DEF FilesOK
  <2>8. CASE vnode[p] # 1
    <3>1. vnode[p] - 1 \in Nat BY <2>4, <2>6
    <3>2. vnode' \in [DOMAIN vnode' -> Nat] /\ DOMAIN vnode' = DOMAIN vnode
          /\ vnode'[p] = vnode[p] - 1 /\ \A q \in DOMAIN vnode \ {p} : vnode'[q] = vnode[q]
      BY <2>3, <2>4, <2>8, <3>1
    <3>3. \E j \in DOMAIN desc : desc[j].path = p /\ j # k
      <4>1. SUFFICES ASSUME \A j \in DOMAIN desc : desc[j].path = p => j = k PROVE FALSE OBVIOUS
      <4>2. Cardinality(On(p)) = 1 BY <4>1, <2>1, Counts DEF TablesOK
      <4> QED BY <4>2, <2>4, <2>8
    <3>4. DOMAIN vnode' = {desc'[j].path : j \in DOMAIN desc'}
      <4>1. DOMAIN vnode = {desc[j].path : j \in DOMAIN desc} BY DEF TablesOK, FilesOK
      <4> QED BY <4>1, <3>2, <3>3, <1>1, <2>1
    <3>5. \A q \in DOMAIN vnode' : vnode'[q] = Cardinality(On(q)')
      BY <3>2, <2>2, <2>4 DEF TablesOK, FilesOK
    <3> QED BY <2>5, <3>2, <3>4, <3>5 DEF FilesOK
  <2> QED BY <2>7, <2>8
<1>9. lost' \subseteq DOMAIN desc' BY <1>1 DEF TablesOK
<1> QED BY <1>5, <1>6, <1>7, <1>8, <1>9 DEF TablesOK
\* A step that leaves files and paths alone: at most offset, change and error
\* of descriptor k are different.
Touched(k) ==
  /\ desc' \in [DOMAIN desc -> Descriptor]
  /\ \A j \in DOMAIN desc \ {k} : desc'[j] = desc[j]
  /\ k \in DOMAIN desc =>
       desc'[k].path = desc[k].path /\ desc'[k].fil = desc[k].fil /\ desc'[k].entry = desc[k].entry

\* What one attempt of file_read(&fd[x]) does.
Reading(x, next, close) ==
  \/ /\ fd[x] = Closed /\ pc' = next /\ buf' = [buf EXCEPT ![x] = Err]
     /\ desc' = desc /\ UNCHANGED <<rtry, failed>>
  \/ /\ pc' = "hung" /\ desc' = desc /\ UNCHANGED <<buf, rtry, failed>>
  \/ /\ Readable(x) /\ Pos(x) < Len(disk[desc[fd[x]].path])
     /\ buf' = [buf EXCEPT ![x] = disk[desc[fd[x]].path][Pos(x) + 1]]
     /\ desc' = [desc EXCEPT ![fd[x]].pos = @ + 1]
     /\ pc' = next /\ rtry' = ReadTries /\ UNCHANGED failed
  \/ /\ Readable(x) /\ ~(Pos(x) < Len(disk[desc[fd[x]].path]))
     /\ buf' = [buf EXCEPT ![x] = Eof] /\ desc' = desc
     /\ pc' = next /\ rtry' = ReadTries /\ UNCHANGED failed
  \/ /\ Readable(x) /\ rtry > 1 /\ rtry' = rtry - 1
     /\ desc' = [desc EXCEPT ![fd[x]].err = TRUE] /\ UNCHANGED <<pc, buf, failed>>
  \/ /\ Readable(x) /\ rtry' = ReadTries /\ pc' = close
     /\ desc' = [desc EXCEPT ![fd[x]].err = TRUE]
     /\ buf' = [buf EXCEPT ![x] = Err] /\ failed' = failed \cup {"read"}

\* One attempt of file_read is one of its six outcomes, and a failure is counted.
LEMMA ReadEffect ==
  ASSUME NEW x \in Side, NEW next, NEW close, ReadOnce(x, next, close)
  PROVE  /\ Reading(x, next, close)
         /\ faults' \in {faults, faults + 1} /\ (faults' # faults => faults < MaxFault)
<1> DEFINE k == fd[x]
           d == desc[fd[x]]
<1>1. CASE fd[x] = Closed \/ ~desc[fd[x]].fil
  <2>1. \/ /\ fd[x] = Closed
           /\ buf' = [buf EXCEPT ![x] = Err] /\ pc' = next
           /\ NoFault /\ UNCHANGED <<desc, rtry, failed>>
        \/ /\ pc' = "hung" /\ NoFault /\ UNCHANGED <<desc, buf, rtry, failed>>
    BY Zenon, <1>1 DEF ReadOnce
  <2> QED BY <2>1 DEF Reading, NoFault
<1>2. CASE ~(fd[x] = Closed \/ ~desc[fd[x]].fil)
  <2>1. Readable(x) BY <1>2 DEF Readable
  <2>2. \/ /\ ~d.err /\ NoFault
           /\ IF d.pos < Len(disk[d.path])
              THEN /\ buf' = [buf EXCEPT ![x] = disk[d.path][d.pos + 1]]
                   /\ desc' = [desc EXCEPT ![k].pos = @ + 1]
              ELSE /\ buf' = [buf EXCEPT ![x] = Eof]
                   /\ UNCHANGED desc
           /\ pc' = next /\ rtry' = ReadTries /\ UNCHANGED failed
        \/ /\ IF d.err THEN NoFault ELSE d.pos < Len(disk[d.path]) /\ Fault("read")
           /\ desc' = [desc EXCEPT ![k].err = TRUE]
           /\ IF rtry > 1
              THEN NextTry /\ UNCHANGED <<pc, buf, failed>>
              ELSE /\ rtry' = ReadTries /\ pc' = close
                   /\ buf' = [buf EXCEPT ![x] = Err]
                   /\ failed' = failed \cup {"read"}
    BY Zenon, <1>2 DEF ReadOnce
  <2>3. d.pos = Pos(x) BY DEF Pos
  <2>4. CASE /\ ~d.err /\ NoFault
             /\ IF d.pos < Len(disk[d.path])
                THEN /\ buf' = [buf EXCEPT ![x] = disk[d.path][d.pos + 1]]
                     /\ desc' = [desc EXCEPT ![k].pos = @ + 1]
                ELSE /\ buf' = [buf EXCEPT ![x] = Eof]
                     /\ UNCHANGED desc
             /\ pc' = next /\ rtry' = ReadTries /\ UNCHANGED failed
    BY Zenon, <2>1, <2>3, <2>4 DEF Reading, NoFault
  <2>5. CASE /\ IF d.err THEN NoFault ELSE d.pos < Len(disk[d.path]) /\ Fault("read")
             /\ desc' = [desc EXCEPT ![k].err = TRUE]
             /\ IF rtry > 1
                THEN NextTry /\ UNCHANGED <<pc, buf, failed>>
                ELSE /\ rtry' = ReadTries /\ pc' = close
                     /\ buf' = [buf EXCEPT ![x] = Err]
                     /\ failed' = failed \cup {"read"}
    <3>1. faults' = faults \/ (faults < MaxFault /\ faults' = faults + 1)
      BY Zenon, <2>5 DEF NoFault, Fault
    <3>2. Reading(x, next, close) BY Zenon, <2>1, <2>5 DEF Reading, NextTry
    <3> QED BY <3>1, <3>2
  <2> QED BY <2>2, <2>4, <2>5
<1> QED BY <1>1, <1>2

\* The fields of a descriptor one step changes.
LEMMA Fields ==
  ASSUME desc \in [DOMAIN desc -> Descriptor], NEW k \in DOMAIN desc
  PROVE  /\ desc' = [desc EXCEPT ![k].pos = @ + 1] =>
              Touched(k) /\ desc'[k].pos = desc[k].pos + 1 /\ desc'[k].mod = desc[k].mod
         /\ desc' = [desc EXCEPT ![k].err = TRUE] =>
              Touched(k) /\ desc'[k].pos = desc[k].pos /\ desc'[k].mod = desc[k].mod
         /\ desc' = [desc EXCEPT ![k].mod = TRUE] =>
              Touched(k) /\ desc'[k].pos = desc[k].pos /\ desc'[k].mod
         /\ desc' = [desc EXCEPT ![k].pos = @ + 1, ![k].mod = TRUE] =>
              Touched(k) /\ desc'[k].pos = desc[k].pos + 1 /\ desc'[k].mod
         /\ desc' = desc => Touched(k)
<1>1. desc[k] \in Descriptor OBVIOUS
<1>2. desc' = [desc EXCEPT ![k].pos = @ + 1] =>
              Touched(k) /\ desc'[k].pos = desc[k].pos + 1 /\ desc'[k].mod = desc[k].mod
  BY <1>1 DEF Touched, Descriptor
<1>3. desc' = [desc EXCEPT ![k].err = TRUE] =>
              Touched(k) /\ desc'[k].pos = desc[k].pos /\ desc'[k].mod = desc[k].mod
  BY ZenonT(40), <1>1 DEF Touched, Descriptor
<1>4. desc' = [desc EXCEPT ![k].mod = TRUE] =>
              Touched(k) /\ desc'[k].pos = desc[k].pos /\ desc'[k].mod
  BY ZenonT(40), <1>1 DEF Touched, Descriptor
<1>5. desc' = [desc EXCEPT ![k].pos = @ + 1, ![k].mod = TRUE] =>
              Touched(k) /\ desc'[k].pos = desc[k].pos + 1 /\ desc'[k].mod
  <2> SUFFICES ASSUME desc' = [desc EXCEPT ![k].pos = @ + 1, ![k].mod = TRUE]
               PROVE  Touched(k) /\ desc'[k].pos = desc[k].pos + 1 /\ desc'[k].mod
    OBVIOUS
  <2>1. PICK e : e = [desc[k] EXCEPT !.pos = @ + 1] OBVIOUS
  <2>2. e \in Descriptor /\ e.path = desc[k].path /\ e.fil = desc[k].fil /\ e.entry = desc[k].entry
        /\ e.pos = desc[k].pos + 1
    BY <1>1, <2>1 DEF Descriptor
  <2>3. PICK d : d = [e EXCEPT !.mod = TRUE] OBVIOUS
  <2>4. d \in Descriptor /\ d.path = e.path /\ d.fil = e.fil /\ d.entry = e.entry
        /\ d.pos = e.pos /\ d.mod
    BY <2>2, <2>3 DEF Descriptor
  <2>5. desc' = [desc EXCEPT ![k] = d] BY <2>1, <2>3
  <2> QED BY <2>2, <2>4, <2>5 DEF Touched
<1> QED BY <1>2, <1>3, <1>4, <1>5 DEF Touched

\* Touching a descriptor keeps the tables in order if its offset stays in the file.
LEMMA TouchTables ==
  ASSUME TablesOK, NEW k \in DOMAIN desc, Touched(k), DiskOK', DOMAIN disk' = DOMAIN disk,
         \A q \in DOMAIN disk : Len(disk[q]) <= Len(disk'[q]),
         desc'[k].pos <= Len(disk'[desc[k].path]), ~desc[k].fil => desc'[k].pos = 0,
         vnode' = vnode, lost' \subseteq DOMAIN desc
  PROVE  TablesOK'
<1>1. DOMAIN desc' = DOMAIN desc BY DEF Touched
<1>2. \A j \in DOMAIN desc : desc'[j].path = desc[j].path /\ desc'[j].fil = desc[j].fil
  BY DEF Touched
<1>3. FilesOK' BY <1>1, <1>2, SameFiles DEF TablesOK
<1>4. ASSUME NEW j \in DOMAIN desc
      PROVE  /\ desc'[j].path \in DOMAIN disk' /\ desc'[j].pos <= Len(disk'[desc'[j].path])
             /\ ~desc'[j].fil => desc'[j].pos = 0
  <2>1. CASE j = k BY <2>1, <1>2 DEF TablesOK, DescOK
  <2>2. CASE j # k
    <3>1. desc'[j] = desc[j] /\ desc[j] \in Descriptor BY <2>2 DEF Touched, TablesOK, DescOK
    <3>2. desc[j].path \in DOMAIN disk /\ desc[j].pos <= Len(disk[desc[j].path])
          /\ (~desc[j].fil => desc[j].pos = 0)
      BY DEF TablesOK, DescOK
    <3>3. disk[desc[j].path] \in Content /\ disk'[desc[j].path] \in Content
      BY <3>2 DEF TablesOK, DiskOK
    <3>4. Len(disk[desc[j].path]) \in Nat /\ Len(disk'[desc[j].path]) \in Nat /\ desc[j].pos \in Nat
      BY <3>1, <3>3, Contents DEF Descriptor
    <3> QED BY <3>1, <3>2, <3>4
  <2> QED BY <2>1, <2>2
<1>5. DescOK' BY <1>1, <1>4 DEF DescOK, TablesOK, Touched
<1> QED BY <1>1, <1>3, <1>5 DEF TablesOK

\* A read keeps the tables in order, and changes the descriptor it reads through.
LEMMA ReadTables ==
  ASSUME TablesOK, NEW x \in Side, NEW next, NEW close, Reading(x, next, close),
         fd[x] \in DOMAIN desc \cup {Closed}, UNCHANGED <<disk, room, vnode, lost>>
  PROVE  TablesOK' /\ DOMAIN desc' = DOMAIN desc
<1>1. CASE desc' = desc
  BY <1>1 DEF TablesOK, DiskOK, DescOK, FilesOK, On
<1>2. CASE /\ Readable(x) /\ Pos(x) < Len(disk[desc[fd[x]].path])
           /\ desc' = [desc EXCEPT ![fd[x]].pos = @ + 1]
  <2>1. PICK k \in DOMAIN desc : k = fd[x] BY <1>2 DEF Readable
  <2>2. Touched(k) /\ desc'[k].pos = desc[k].pos + 1
    BY <1>2, <2>1, Fields DEF TablesOK, DescOK
  <2>3. desc[k].fil /\ desc[k].pos < Len(disk[desc[k].path]) BY <1>2, <2>1 DEF Readable, Pos
  <2>4. disk[desc[k].path] \in Content /\ desc[k].pos \in Nat
    BY DEF TablesOK, DiskOK, DescOK, Descriptor
  <2>5. Len(disk[desc[k].path]) \in Nat BY <2>4, Contents
  <2>6. \A q \in DOMAIN disk : Len(disk[q]) <= Len(disk'[q])
    BY Contents DEF TablesOK, DiskOK
  <2>7. desc'[k].pos <= Len(disk'[desc[k].path]) BY <2>2, <2>3, <2>4, <2>5
  <2>8. DiskOK' /\ lost' \subseteq DOMAIN desc /\ disk' = disk BY DEF TablesOK, DiskOK
  <2> QED BY <2>2, <2>3, <2>6, <2>7, <2>8, TouchTables DEF Touched
<1>3. CASE Readable(x) /\ desc' = [desc EXCEPT ![fd[x]].err = TRUE]
  <2>1. PICK k \in DOMAIN desc : k = fd[x] BY <1>3 DEF Readable
  <2>2. Touched(k) /\ desc'[k].pos = desc[k].pos
    BY <1>3, <2>1, Fields DEF TablesOK, DescOK
  <2>3. \A q \in DOMAIN disk : Len(disk[q]) <= Len(disk'[q])
    BY Contents DEF TablesOK, DiskOK
  <2>4. desc[k].pos <= Len(disk[desc[k].path]) /\ (~desc[k].fil => desc[k].pos = 0)
    BY DEF TablesOK, DescOK
  <2> QED BY <2>2, <2>3, <2>4, TouchTables DEF TablesOK, DiskOK, Touched
<1> QED BY Zenon, <1>1, <1>2, <1>3 DEF Reading
\* A chunk in the file at the offset of descriptor k.
LEMMA PlacedDisk ==
  ASSUME TablesOK, NEW k \in DOMAIN desc, NEW c \in Chunk \cup {Torn}, Placed(k, c), Fits(k)
  PROVE  /\ DiskOK' /\ DOMAIN disk' = DOMAIN disk
         /\ \A q \in DOMAIN disk : Len(disk[q]) <= Len(disk'[q])
         /\ \A q \in DOMAIN disk : q # desc[k].path => disk'[q] = disk[q]
         /\ desc[k].pos + 1 <= Len(disk'[desc[k].path])
         /\ Growing(k) => disk'[desc[k].path] = Append(disk[desc[k].path], c)
<1>1. PICK p : p = desc[k].path OBVIOUS
<1>2. PICK s : s = disk[p] OBVIOUS
<1>3. p \in DOMAIN disk /\ s \in Content /\ desc[k].pos \in Nat /\ desc[k].pos <= Len(s)
  BY <1>1, <1>2 DEF TablesOK, DescOK, DiskOK, Descriptor
<1>4. Len(s) \in Nat BY <1>3, Contents
<1>5. room \in Nat /\ disk \in [DOMAIN disk -> Content] BY DEF TablesOK, DiskOK
<1>6. \A q \in DOMAIN disk : Len(disk[q]) \in Nat BY <1>5, Contents
<1>7. CASE Growing(k)
  <2>1. disk' = [disk EXCEPT ![p] = Append(s, c)] /\ room' = room - 1 /\ room > 0
        /\ desc[k].pos = Len(s)
    BY <1>1, <1>2, <1>7 DEF Placed, Fits, Growing
  <2>2. Append(s, c) \in Content /\ Len(Append(s, c)) = Len(s) + 1 BY <1>3 DEF Content
  <2>3. DOMAIN disk' = DOMAIN disk /\ disk'[p] = Append(s, c)
        /\ \A q \in DOMAIN disk : q # p => disk'[q] = disk[q]
    BY <2>1, <1>3
  <2>4. DiskOK'
    <3>1. disk' \in [DOMAIN disk' -> Content] BY <1>3, <1>5, <2>1, <2>2, <2>3
    <3>2. room' \in Nat BY <1>5, <2>1
    <3> QED BY <2>3, <3>1, <3>2 DEF TablesOK, DiskOK
  <2>5. \A q \in DOMAIN disk : Len(disk[q]) <= Len(disk'[q])
    BY <1>2, <1>4, <1>6, <2>2, <2>3
  <2> QED BY <1>1, <1>2, <1>4, <2>1, <2>2, <2>3, <2>4, <2>5
<1>8. CASE ~Growing(k)
  <2>1. disk' = [disk EXCEPT ![p] = [s EXCEPT ![desc[k].pos + 1] = c]] /\ room' = room
        /\ desc[k].pos # Len(s)
    BY <1>1, <1>2, <1>8 DEF Placed, Growing
  <2>2. PICK t : t = [s EXCEPT ![desc[k].pos + 1] = c] OBVIOUS
  <2>3. t \in Content /\ Len(t) = Len(s)
    <3>1. s \in [1 .. Len(s) -> Chunk \cup {Torn}] BY <1>3 DEF Content
    <3>2. desc[k].pos + 1 \in 1 .. Len(s) BY <1>3, <1>4, <2>1
    <3>3. t \in [1 .. Len(s) -> Chunk \cup {Torn}] BY <3>1, <3>2, <2>2
    <3> QED BY <1>4, <3>3 DEF Content
  <2>4. DOMAIN disk' = DOMAIN disk /\ disk'[p] = t
        /\ \A q \in DOMAIN disk : q # p => disk'[q] = disk[q]
    BY <2>1, <2>2, <1>3
  <2>5. DiskOK'
    <3>1. disk' \in [DOMAIN disk' -> Content] BY <1>3, <1>5, <2>1, <2>2, <2>3, <2>4
    <3> QED BY <2>1, <2>4, <3>1 DEF TablesOK, DiskOK
  <2>6. \A q \in DOMAIN disk : Len(disk[q]) <= Len(disk'[q])
    BY <1>2, <1>4, <1>6, <2>3, <2>4
  <2> QED BY <1>1, <1>3, <1>4, <1>8, <2>1, <2>3, <2>4, <2>5, <2>6
<1> QED BY <1>7, <1>8

\* What one write of copy_file does.
Wrote == UNCHANGED <<disk, room, failed>>
Writing ==
  \/ /\ fd["dst"] = Closed /\ WriteRefused /\ Wrote /\ UNCHANGED <<desc, lost>>
  \/ /\ pc' = "hung" /\ Wrote /\ UNCHANGED <<desc, lost, wtry>>
  \/ /\ Readable("dst") /\ Fits(fd["dst"]) /\ Placed(fd["dst"], buf["src"])
     /\ desc' = [desc EXCEPT ![fd["dst"]].pos = @ + 1, ![fd["dst"]].mod = TRUE]
     /\ pc' = "read" /\ wtry' = WriteTries /\ UNCHANGED <<lost, failed>>
  \/ /\ Readable("dst") /\ ~Fits(fd["dst"]) /\ WriteRefused /\ Wrote
     /\ lost' = IF wtry > 1 THEN lost ELSE lost \cup {fd["dst"]}
     /\ desc' = [desc EXCEPT ![fd["dst"]].mod = TRUE]
  \/ /\ Readable("dst") /\ Fits(fd["dst"])
     /\ desc' = [desc EXCEPT ![fd["dst"]].err = TRUE]
     /\ \/ Wrote
        \/ Placed(fd["dst"], Torn) /\ failed' = failed \cup {"torn"}
     /\ pc' = "writeClose" /\ UNCHANGED <<lost, wtry>>

\* One f_write of copy_file is one of its outcomes, and a failure is counted.
LEMMA WriteEffect ==
  ASSUME CopyWrite
  PROVE  /\ pc = "write" /\ Writing
         /\ UNCHANGED <<vnode, cmd, fd, buf, rtry, ret, fresh, crashes>>
         /\ faults' \in {faults, faults + 1} /\ (faults' # faults => faults < MaxFault)
<1>1. UNCHANGED <<vnode, cmd, fd, buf, rtry, ret, fresh, crashes>> /\ pc = "write"
  BY Zenon DEF CopyWrite
<1>2. fd.dst = fd["dst"] /\ buf.src = buf["src"] OBVIOUS
<1>3. (faults' = faults \/ (faults < MaxFault /\ faults' = faults + 1)) /\ Writing
  <2>1. CASE fd["dst"] = Closed \/ ~desc[fd["dst"]].fil
    <3>1. \/ /\ fd["dst"] = Closed
             /\ WriteRefused /\ NoFault /\ UNCHANGED <<files, desc, lost, failed>>
          \/ pc' = "hung" /\ NoFault /\ UNCHANGED <<files, desc, lost, wtry, failed>>
      BY Zenon, <2>1, <1>2 DEF CopyWrite
    <3> QED BY Zenon, <3>1 DEF Writing, NoFault, Wrote, files
  <2>2. CASE ~(fd["dst"] = Closed \/ ~desc[fd["dst"]].fil)
    <3>1. Readable("dst") BY <2>2 DEF Readable
    <3>2. \/ /\ Fits(fd["dst"]) /\ NoFault
             /\ Placed(fd["dst"], buf["src"])
             /\ desc' = [desc EXCEPT ![fd["dst"]].pos = @ + 1, ![fd["dst"]].mod = TRUE]
             /\ pc' = "read" /\ wtry' = WriteTries /\ UNCHANGED <<lost, failed>>
          \/ /\ ~Fits(fd["dst"]) /\ NoFault
             /\ lost' = IF wtry > 1 THEN lost ELSE lost \cup {fd["dst"]}
             /\ desc' = [desc EXCEPT ![fd["dst"]].mod = TRUE]
             /\ WriteRefused /\ UNCHANGED <<files, failed>>
          \/ /\ Fits(fd["dst"]) /\ Fault("write")
             /\ \/ UNCHANGED <<files, failed>>
                \/ Tears /\ Placed(fd["dst"], Torn) /\ failed' = failed \cup {"torn"}
             /\ desc' = [desc EXCEPT ![fd["dst"]].err = TRUE]
             /\ pc' = "writeClose" /\ UNCHANGED <<lost, wtry>>
      BY Zenon, <2>2, <1>2 DEF CopyWrite
    <3> QED BY Zenon, <3>1, <3>2 DEF Writing, NoFault, Fault, Wrote, files
  <2> QED BY <2>1, <2>2
<1> QED BY Zenon, <1>1, <1>3

\* A write keeps the tables in order and every descriptor open.
LEMMA WriteTables ==
  ASSUME TablesOK, Writing, vnode' = vnode, fd["dst"] \in DOMAIN desc \cup {Closed},
         buf["src"] \in Chunk \cup {Torn}
  PROVE  TablesOK' /\ DOMAIN desc' = DOMAIN desc
<1>1. CASE Wrote /\ UNCHANGED <<desc, lost>>
  BY <1>1 DEF Wrote, TablesOK, DiskOK, DescOK, FilesOK, On
<1>2. CASE /\ Readable("dst") /\ lost' \subseteq lost \cup {fd["dst"]}
           /\ Wrote
           /\ \/ desc' = [desc EXCEPT ![fd["dst"]].mod = TRUE]
              \/ desc' = [desc EXCEPT ![fd["dst"]].err = TRUE]
  <2>1. PICK k \in DOMAIN desc : k = fd["dst"] BY <1>2 DEF Readable
  <2>2. Touched(k) /\ desc'[k].pos = desc[k].pos
    BY <1>2, <2>1, Fields DEF TablesOK, DescOK
  <2>3. \A q \in DOMAIN disk : Len(disk[q]) <= Len(disk'[q])
    BY <1>2, Contents DEF TablesOK, DiskOK, Wrote
  <2>4. desc'[k].pos <= Len(disk'[desc[k].path]) /\ (~desc[k].fil => desc'[k].pos = 0)
    BY <1>2, <2>2 DEF TablesOK, DescOK, Wrote
  <2>5. DiskOK' /\ DOMAIN disk' = DOMAIN disk /\ lost' \subseteq DOMAIN desc
    BY <1>2, <2>1 DEF TablesOK, DiskOK, Wrote
  <2> QED BY <2>2, <2>3, <2>4, <2>5, TouchTables DEF Touched
<1>3. CASE /\ Readable("dst") /\ Fits(fd["dst"]) /\ lost' = lost
           /\ \/ /\ Placed(fd["dst"], buf["src"])
                 /\ desc' = [desc EXCEPT ![fd["dst"]].pos = @ + 1, ![fd["dst"]].mod = TRUE]
              \/ Placed(fd["dst"], Torn) /\ desc' = [desc EXCEPT ![fd["dst"]].err = TRUE]
  <2>1. PICK k \in DOMAIN desc : k = fd["dst"] BY <1>3 DEF Readable
  <2>2. Touched(k) /\ desc'[k].pos \in {desc[k].pos, desc[k].pos + 1} /\ desc[k].pos \in Nat
    BY <1>3, <2>1, Fields DEF TablesOK, DescOK, Descriptor
  <2>3. PICK c \in Chunk \cup {Torn} : Placed(k, c) BY <1>3, <2>1
  <2>4. /\ DiskOK' /\ DOMAIN disk' = DOMAIN disk
        /\ \A q \in DOMAIN disk : Len(disk[q]) <= Len(disk'[q])
        /\ desc[k].pos + 1 <= Len(disk'[desc[k].path])
    BY <1>3, <2>1, <2>3, PlacedDisk
  <2>5. disk'[desc[k].path] \in Content BY <2>4 DEF TablesOK, DescOK, DiskOK
  <2>6. Len(disk'[desc[k].path]) \in Nat BY <2>5, Contents
  <2>7. desc'[k].pos <= Len(disk'[desc[k].path]) BY <2>2, <2>4, <2>6
  <2>8. desc[k].fil BY <1>3, <2>1 DEF Readable
  <2>9. lost' \subseteq DOMAIN desc BY <1>3 DEF TablesOK
  <2> QED BY <2>2, <2>4, <2>7, <2>8, <2>9, TouchTables DEF Touched
<1> QED BY <1>1, <1>2, <1>3 DEF Writing
-----------------------------------------------------------------------------
(* The descriptors of the command that runs. *)

\* The paths of a command are paths.
LEMMA PathsOK == ASSUME NEW c \in Command PROVE c.a \in Path /\ c.b \in Path
BY SdFileAssumption

\* A descriptor that was opened over is lost, the new one is in the hands of the command.
LEMMA FdsOpen ==
  ASSUME FdsOK, pc # "idle", TablesOK, NEW x \in Side, NEW p, NEW append \in BOOLEAN,
         NEW k, Opened(x, p, k, append), Pending \ {x} \subseteq Pending', x \in Pending'
  PROVE  FdsOK'
<1>1. k \in Slot /\ k \notin DOMAIN desc /\ k # Closed BY SdFileAssumption DEF Opened, Slot, Closed
<1>2. DOMAIN desc' = DOMAIN desc \cup {k} /\ lost' = lost \cup ({fd[x]} \ {Closed})
      /\ fd' = [fd EXCEPT ![x] = k]
  BY DEF Opened
<1>3. fd \in [Side -> Slot \cup {Closed}] /\ (\A y \in Side : fd[y] \in DOMAIN desc \cup {Closed})
      /\ (fd["src"] = fd["dst"] => fd["src"] = Closed)
  BY DEF FdsOK
<1>4. fd' \in [Side -> Slot \cup {Closed}] /\ fd'[x] = k /\ \A y \in Side \ {x} : fd'[y] = fd[y]
  BY <1>1, <1>2, <1>3
<1>5. \A y \in Side : fd'[y] \in DOMAIN desc' \cup {Closed} BY <1>2, <1>3, <1>4
<1>6. fd'["src"] # fd'["dst"]
  <2>1. \A y \in Side \ {x} : fd'[y] # fd'[x] BY <1>1, <1>3, <1>4
  <2> QED BY <2>1 DEF Side
<1>7. ASSUME NEW j \in DOMAIN desc' \ lost' PROVE \E y \in Pending' : fd'[y] = j
  <2>1. CASE j = k BY <2>1, <1>4
  <2>2. CASE j # k
    <3>1. j \in DOMAIN desc \ lost /\ (fd[x] = Closed \/ j # fd[x]) BY <2>2, <1>2
    <3>2. PICK y \in Pending : fd[y] = j BY <3>1 DEF FdsOK
    <3>3. j # Closed BY <3>1, SdFileAssumption DEF TablesOK, DescOK, Slot, Closed
    <3>4. y # x /\ y \in Side BY <3>1, <3>2, <3>3 DEF Pending, Side
    <3> QED BY <3>2, <3>4, <1>4
  <2> QED BY <2>1, <2>2
<1> QED BY <1>4, <1>5, <1>6, <1>7 DEF FdsOK

\* So it is when the open fails.
LEMMA FdsShut ==
  ASSUME FdsOK, pc # "idle", TablesOK, NEW x \in Side, fd' = [fd EXCEPT ![x] = Closed],
         lost' = lost \cup ({fd[x]} \ {Closed}), desc' = desc, Pending \ {x} \subseteq Pending'
  PROVE  FdsOK' /\ lost' \subseteq DOMAIN desc'
<1>3. fd \in [Side -> Slot \cup {Closed}] /\ (\A y \in Side : fd[y] \in DOMAIN desc \cup {Closed})
      /\ (fd["src"] = fd["dst"] => fd["src"] = Closed)
  BY DEF FdsOK
<1>4. fd' \in [Side -> Slot \cup {Closed}] /\ fd'[x] = Closed /\ \A y \in Side \ {x} : fd'[y] = fd[y]
  BY <1>3
<1>5. \A y \in Side : fd'[y] \in DOMAIN desc' \cup {Closed} BY <1>3, <1>4
<1>6. fd'["src"] = fd'["dst"] => fd'["src"] = Closed BY <1>3, <1>4 DEF Side
<1>7. ASSUME NEW j \in DOMAIN desc' \ lost' PROVE \E y \in Pending' : fd'[y] = j
  <2>1. j \in DOMAIN desc \ lost /\ (fd[x] = Closed \/ j # fd[x]) OBVIOUS
  <2>2. PICK y \in Pending : fd[y] = j BY <2>1 DEF FdsOK
  <2>3. j # Closed BY <2>1, SdFileAssumption DEF TablesOK, DescOK, Slot, Closed
  <2>4. y # x /\ y \in Side BY <2>1, <2>2, <2>3 DEF Pending, Side
  <2> QED BY <2>2, <2>4, <1>4
<1>8. lost' \subseteq DOMAIN desc' BY <1>3 DEF TablesOK
<1> QED BY <1>4, <1>5, <1>6, <1>7, <1>8 DEF FdsOK

\* After file_close(&fd[x]) the command has fd[x] no more to close.
LEMMA FdsClose ==
  ASSUME FdsOK, pc # "idle", TablesOK, NEW x \in Side, NEW next, Closing(x, next),
         pc' = "hung" \/ Pending \ {x} \subseteq Pending', room' = room
  PROVE  FdsOK' /\ TablesOK' /\ DOMAIN disk' = DOMAIN disk
<1>3. fd \in [Side -> Slot \cup {Closed}] /\ (\A y \in Side : fd[y] \in DOMAIN desc \cup {Closed})
      /\ (fd["src"] = fd["dst"] => fd["src"] = Closed)
  BY DEF FdsOK
<1>4. Closed \notin DOMAIN desc BY SdFileAssumption DEF TablesOK, DescOK, Slot, Closed
<1>5. Pending \subseteq Side BY DEF Pending, Side
<1>6. pc' = "hung" => Pending' = Side BY DEF Pending
<1>7. CASE /\ pc' = "hung" \/ fd[x] = Closed
           /\ UNCHANGED <<disk, vnode, desc, lost, fd>>
  <2>1. TablesOK' BY <1>7 DEF TablesOK, DiskOK, DescOK, FilesOK, On
  <2>2. \A j \in DOMAIN desc \ lost : \E y \in Pending' : fd[y] = j
    <3> TAKE j \in DOMAIN desc \ lost
    <3>1. PICK y \in Pending : fd[y] = j BY DEF FdsOK
    <3>2. y \in Pending' BY <3>1, <1>4, <1>5, <1>6, <1>7
    <3> QED BY <3>1, <3>2
  <2>3. fd' = fd /\ desc' = desc /\ lost' = lost BY <1>7
  <2> QED BY <2>1, <2>2, <2>3, <1>3, <1>7 DEF FdsOK
<1>8. CASE /\ pc' = next /\ fd[x] # Closed /\ lost' = lost \cup {fd[x]}
           /\ UNCHANGED <<disk, vnode, desc, fd>>
  <2>1. lost' \subseteq DOMAIN desc BY <1>3, <1>8 DEF TablesOK
  <2>2. TablesOK' BY <1>8, <2>1 DEF TablesOK, DiskOK, DescOK, FilesOK, On
  <2>3. \A j \in DOMAIN desc \ lost' : \E y \in Pending' : fd[y] = j
    <3> TAKE j \in DOMAIN desc \ lost'
    <3>1. j \in DOMAIN desc \ lost /\ j # fd[x] BY <1>8
    <3>2. PICK y \in Pending : fd[y] = j BY <3>1 DEF FdsOK
    <3>3. y \in Pending' BY <3>1, <3>2, <1>5, <1>6, <1>8
    <3> QED BY <3>2, <3>3
  <2> QED BY <2>2, <2>3, <1>3, <1>8 DEF FdsOK
<1>9. CASE /\ pc' = next /\ fd[x] # Closed
           /\ Release(fd[x]) /\ fd' = [fd EXCEPT ![x] = Closed]
           /\ disk' = disk \/ (disk' = Stale(desc[fd[x]]) /\ desc[fd[x]].fil)
  <2>1. PICK k \in DOMAIN desc : k = fd[x] BY <1>3, <1>9
  <2>2. DOMAIN desc' = DOMAIN desc \ {k} /\ lost' = lost \ {k} BY <1>9, <2>1, Released
  <2>3. TablesOK' /\ DOMAIN disk' = DOMAIN disk BY <1>9, <2>1, CloseTables
  <2>4. fd' \in [Side -> Slot \cup {Closed}] /\ fd'[x] = Closed
        /\ \A y \in Side \ {x} : fd'[y] = fd[y] /\ fd[y] # k
    BY <1>3, <1>9, <2>1 DEF Side
  <2>5. \A y \in Side : fd'[y] \in DOMAIN desc' \cup {Closed} BY <1>3, <2>2, <2>4
  <2>6. fd'["src"] = fd'["dst"] => fd'["src"] = Closed BY <1>3, <2>4 DEF Side
  <2>7. ASSUME NEW j \in DOMAIN desc' \ lost' PROVE \E y \in Pending' : fd'[y] = j
    <3>1. j \in DOMAIN desc \ lost /\ j # k BY <2>2
    <3>2. PICK y \in Pending : fd[y] = j BY <3>1 DEF FdsOK
    <3>3. y \in Side \ {x} BY <3>1, <3>2, <2>1, <1>5
    <3>4. y \in Pending' BY <3>3, <3>2, <1>6
    <3> QED BY <3>2, <3>3, <3>4, <2>4
  <2> QED BY <2>3, <2>4, <2>5, <2>6, <2>7 DEF FdsOK
<1> QED BY Zenon, <1>7, <1>8, <1>9 DEF Closing

\* A step that opens and closes nothing.
LEMMA FdsKeep ==
  ASSUME FdsOK, pc # "idle", fd' = fd, DOMAIN desc' = DOMAIN desc, lost \subseteq lost',
         \A x \in Pending \ Pending' : fd[x] \in lost' \cup {Closed},
         Closed \notin DOMAIN desc
  PROVE  FdsOK'
<1>1. ASSUME NEW j \in DOMAIN desc' \ lost' PROVE \E y \in Pending' : fd'[y] = j
  <2>1. PICK y \in Pending : fd[y] = j BY DEF FdsOK
  <2> QED BY <2>1
<1> QED BY <1>1 DEF FdsOK
-----------------------------------------------------------------------------
(* Core is inductive, action by action. *)

\* What every open of a command does to Core, its change of pc and ret apart.
LEMMA CoreOpen ==
  ASSUME Core, pc # "idle", NEW x \in Side, NEW p \in Path, NEW create \in BOOLEAN,
         NEW append \in BOOLEAN,
         \/ OpenOk(x, p, create, append) /\ NoFault /\ x \in Pending'
         \/ OpenFails(x, p, create),
         Pending \ {x} \subseteq Pending'
  PROVE  /\ TablesOK' /\ FdsOK' /\ faults' \in 0 .. MaxFault
         /\ DOMAIN disk' \subseteq DOMAIN disk \cup {p}
<1>1. fd[x] \in DOMAIN desc \cup {Closed} BY DEF Core, FdsOK
<1>2. faults \in 0 .. MaxFault /\ MaxFault \in Nat BY SdFileAssumption DEF Core, CommandOK
<1>3. CASE OpenOk(x, p, create, append) /\ NoFault /\ x \in Pending'
  <2>1. TablesOK' BY <1>1, <1>3, OpenTables DEF Core
  <2>2. PICK k : Opened(x, p, k, append) BY <1>3, OpenEffect DEF Core
  <2>3. FdsOK' BY <1>3, <2>2, FdsOpen DEF Core
  <2> QED BY <1>2, <1>3, <2>1, <2>2, <2>3 DEF NoFault, Opened
<1>4. CASE OpenFails(x, p, create)
  <2>1. /\ fd' = [fd EXCEPT ![x] = Closed] /\ lost' = lost \cup ({fd[x]} \ {Closed})
        /\ desc' = desc /\ disk' = disk /\ room' = room /\ vnode' = vnode
    BY <1>4 DEF OpenFails, Overwrites, files
  <2>2. FdsOK' /\ lost' \subseteq DOMAIN desc' BY <2>1, FdsShut DEF Core
  <2>3. TablesOK' BY <2>1, <2>2 DEF Core, TablesOK, DiskOK, DescOK, FilesOK, On
  <2>4. faults' = faults \/ (faults < MaxFault /\ faults' = faults + 1)
    BY Zenon, <1>4 DEF OpenFails, NoFault, Fault
  <2> QED BY <1>2, <2>1, <2>2, <2>3, <2>4
<1> QED BY <1>3, <1>4

\* A source that does not open ends the command with nothing in its hands.
LEMMA CoreCopyOpenSrc == ASSUME Core, CopyOpenSrc PROVE Core'
<1>1. pc = "openSrc" /\ UNCHANGED <<cmd, buf, rtry, wtry, crashes>> BY DEF CopyOpenSrc, hist
<1>2. cmd \in Command /\ cmd.op = "copy" BY <1>1 DEF Core, CommandOK, CopyCalls
<1>3. cmd.a \in Path BY <1>2, PathsOK
<1>4. \/ OpenOk("src", cmd.a, FALSE, FALSE) /\ NoFault /\ pc' = "openDst" /\ ret' = ret
      \/ OpenFails("src", cmd.a, FALSE) /\ pc' = "idle" /\ ret' = "fail"
  BY DEF CopyOpenSrc, Return
<1>5. Pending = {} /\ (pc' = "openDst" => Pending' = {"src"}) BY <1>1 DEF Pending
<1>6. TablesOK' /\ FdsOK' /\ faults' \in 0 .. MaxFault BY <1>1, <1>3, <1>4, <1>5, CoreOpen DEF Side
<1>7. CommandOK'
  BY <1>1, <1>2, <1>4, <1>6 DEF Core, CommandOK, CopyCalls, ContrastCalls, Calls
<1> QED BY <1>6, <1>7 DEF Core

\* A destination that does not open leaves the source to failClose.
LEMMA CoreCopyOpenDst == ASSUME Core, CopyOpenDst PROVE Core'
<1>1. pc = "openDst" /\ UNCHANGED <<cmd, buf, rtry, wtry, ret, crashes>> BY DEF CopyOpenDst, hist
<1>2. cmd \in Command /\ cmd.op = "copy" BY <1>1 DEF Core, CommandOK, CopyCalls
<1>3. cmd.b \in Path BY <1>2, PathsOK
<1>4. \/ OpenOk("dst", cmd.b, TRUE, FALSE) /\ NoFault /\ pc' = "read"
      \/ OpenFails("dst", cmd.b, TRUE) /\ pc' = "failClose"
  BY DEF CopyOpenDst
<1>5. Pending = {"src"} /\ (pc' = "read" => Pending' = Side) /\ (pc' = "failClose" => Pending' = {"src"})
  BY <1>1 DEF Pending
<1>6. TablesOK' /\ FdsOK' /\ faults' \in 0 .. MaxFault BY <1>1, <1>3, <1>4, <1>5, CoreOpen DEF Side
<1>7. CommandOK'
  BY <1>1, <1>2, <1>4, <1>6 DEF Core, CommandOK, CopyCalls, ContrastCalls, Calls
<1> QED BY <1>6, <1>7 DEF Core

\* A reopen writes over a descriptor that is open on a full card: it is lost.
LEMMA CoreCopyReopen == ASSUME Core, CopyReopen PROVE Core'
<1>1. pc = "reopen" /\ pc' = "write" /\ UNCHANGED <<cmd, buf, rtry, wtry, ret, crashes>>
  BY DEF CopyReopen, hist
<1>2. cmd \in Command /\ cmd.op = "copy" BY <1>1 DEF Core, CommandOK, CopyCalls
<1>3. cmd.b \in Path BY <1>2, PathsOK
<1>4. \/ OpenOk("dst", cmd.b, FALSE, TRUE) /\ NoFault
      \/ OpenFails("dst", cmd.b, FALSE)
  BY DEF CopyReopen
<1>5. Pending = Side /\ Pending' = Side BY <1>1 DEF Pending
<1>6. TablesOK' /\ FdsOK' /\ faults' \in 0 .. MaxFault BY <1>1, <1>3, <1>4, <1>5, CoreOpen DEF Side
<1>7. CommandOK'
  BY <1>1, <1>2, <1>4, <1>6 DEF Core, CommandOK, CopyCalls, ContrastCalls, Calls
<1> QED BY <1>6, <1>7 DEF Core

\* file_contrast goes on with either file not open.
LEMMA CoreContrastOpen == ASSUME Core, ContrastOpen PROVE Core'
<1>1. UNCHANGED <<cmd, buf, rtry, wtry, ret, crashes>> BY DEF ContrastOpen, hist
<1>2. \/ /\ pc = "openA" /\ pc' = "openB"
         /\ (OpenOk("src", cmd.a, FALSE, FALSE) /\ NoFault) \/ OpenFails("src", cmd.a, FALSE)
      \/ /\ pc = "openB" /\ pc' = "readA"
         /\ (OpenOk("dst", cmd.b, FALSE, FALSE) /\ NoFault) \/ OpenFails("dst", cmd.b, FALSE)
  BY DEF ContrastOpen
<1>3. cmd \in Command /\ cmd.op = "contrast" BY <1>2 DEF Core, CommandOK, ContrastCalls
<1>4. cmd.a \in Path /\ cmd.b \in Path BY <1>3, PathsOK
<1>5. /\ pc = "openA" => Pending = {}
      /\ pc = "openB" => Pending = {"src"}
      /\ pc' = "openB" => Pending' = {"src"}
      /\ pc' = "readA" => Pending' = Side
  BY DEF Pending
<1>6. TablesOK' /\ FdsOK' /\ faults' \in 0 .. MaxFault
  <2>1. CASE pc = "openA" BY <2>1, <1>2, <1>4, <1>5, CoreOpen DEF Side
  <2>2. CASE pc = "openB" BY <2>2, <1>2, <1>4, <1>5, CoreOpen DEF Side
  <2> QED BY <2>1, <2>2, <1>2
<1>7. CommandOK'
  BY <1>1, <1>2, <1>3, <1>6 DEF Core, CommandOK, CopyCalls, ContrastCalls, Calls
<1> QED BY <1>6, <1>7 DEF Core

\* What every close of a command does to Core.
LEMMA CoreClose ==
  ASSUME Core, pc # "idle", NEW x \in Side, NEW next, CloseTo(x, next), room' = room,
         pc' = "hung" \/ Pending \ {x} \subseteq Pending'
  PROVE  /\ TablesOK' /\ FdsOK' /\ faults' \in 0 .. MaxFault /\ pc' \in {next, "hung"}
<1>1. Closing(x, next) /\ faults' \in {faults, faults + 1} /\ (faults' # faults => faults < MaxFault)
  BY CloseEffect
<1>2. faults \in 0 .. MaxFault /\ MaxFault \in Nat BY SdFileAssumption DEF Core, CommandOK
<1>3. faults' \in 0 .. MaxFault BY <1>1, <1>2
<1>4. pc' \in {next, "hung"} BY Zenon, <1>1 DEF Closing
<1>5. TablesOK' /\ FdsOK' BY <1>1, FdsClose DEF Core
<1> QED BY <1>3, <1>4, <1>5

\* The closes of copy_file, and the descriptor each leaves to the next.
LEMMA CoreCopyClose ==
  ASSUME Core, CopyWriteClose \/ CopyCloseSrc \/ CopyCloseDst \/ CopyFail
  PROVE  Core'
<1>1. CASE CopyWriteClose
  <2>1. pc = "writeClose" /\ wtry' = wtry - 1 /\ UNCHANGED <<room, cmd, buf, rtry, ret, fresh, crashes>>
        /\ CloseTo("dst", IF wtry > 1 THEN "reopen" ELSE "failClose")
    BY <1>1 DEF CopyWriteClose
  <2>2. wtry \in 1 .. WriteTries /\ cmd \in Command /\ cmd.op = "copy"
    BY <2>1 DEF Core, CommandOK, WriteTries, CopyCalls
  <2>3. PICK next \in {"reopen", "failClose"} :
          CloseTo("dst", next) /\ (next = "reopen" <=> wtry > 1)
    BY <2>1, <2>2
  <2>4. pc' \in {next, "hung"} BY <2>3, CloseEffect DEF Closing, Side
  <2>5. Pending = Side /\ Pending' \in {Side, {"src"}} BY <2>1, <2>3, <2>4 DEF Pending
  <2>6. TablesOK' /\ FdsOK' /\ faults' \in 0 .. MaxFault
    BY <2>1, <2>3, <2>5, CoreClose DEF Side
  <2>7. CommandOK'
    BY <2>1, <2>2, <2>3, <2>4, <2>6 DEF Core, CommandOK, CopyCalls, ContrastCalls, Calls, WriteTries
  <2> QED BY <2>6, <2>7 DEF Core
<1>2. CASE CopyCloseSrc
  <2>1. pc \in {"readClose", "closeSrc"} /\ CloseTo("src", "closeDst")
        /\ UNCHANGED <<room, cmd, buf, rtry, wtry, ret, fresh, crashes>>
    BY <1>2 DEF CopyCloseSrc
  <2>2. pc' \in {"closeDst", "hung"} BY <2>1, CloseEffect DEF Closing, Side
  <2>3. Pending = Side /\ Pending' \in {Side, {"dst"}} BY <2>1, <2>2 DEF Pending
  <2>4. TablesOK' /\ FdsOK' /\ faults' \in 0 .. MaxFault
    BY <2>1, <2>3, CoreClose DEF Side
  <2>5. CommandOK'
    BY <2>1, <2>2, <2>4 DEF Core, CommandOK, CopyCalls, ContrastCalls, Calls
  <2> QED BY <2>4, <2>5 DEF Core
<1>3. CASE CopyCloseDst
  <2>1. pc = "closeDst" /\ CloseTo("dst", "idle") /\ ret' = (IF pc' = "idle" THEN "ok" ELSE ret)
        /\ UNCHANGED <<room, cmd, buf, rtry, wtry, fresh, crashes>>
    BY <1>3 DEF CopyCloseDst
  <2>2. pc' \in {"idle", "hung"} BY <2>1, CloseEffect DEF Closing, Side
  <2>3. Pending = {"dst"} BY <2>1 DEF Pending
  <2>4. TablesOK' /\ FdsOK' /\ faults' \in 0 .. MaxFault
    BY <2>1, <2>3, CoreClose DEF Side
  <2>5. CommandOK'
    BY <2>1, <2>2, <2>4 DEF Core, CommandOK, CopyCalls, ContrastCalls, Calls
  <2> QED BY <2>4, <2>5 DEF Core
<1>4. CASE CopyFail
  <2>1. pc = "failClose" /\ CloseTo("src", "idle") /\ ret' = (IF pc' = "idle" THEN "fail" ELSE ret)
        /\ UNCHANGED <<room, cmd, buf, rtry, wtry, fresh, crashes>>
    BY <1>4 DEF CopyFail
  <2>2. pc' \in {"idle", "hung"} BY <2>1, CloseEffect DEF Closing, Side
  <2>3. Pending = {"src"} BY <2>1 DEF Pending
  <2>4. TablesOK' /\ FdsOK' /\ faults' \in 0 .. MaxFault
    BY <2>1, <2>3, CoreClose DEF Side
  <2>5. CommandOK'
    BY <2>1, <2>2, <2>4 DEF Core, CommandOK, CopyCalls, ContrastCalls, Calls
  <2> QED BY <2>4, <2>5 DEF Core
<1> QED BY <1>1, <1>2, <1>3, <1>4

\* The closes of file_contrast, those that end a failed read among them.
LEMMA CoreContrastClose == ASSUME Core, ContrastClose PROVE Core'
<1>1. UNCHANGED <<room, cmd, buf, rtry, wtry, ret, fresh, crashes>> BY DEF ContrastClose
<1>2. PICK x \in Side, next \in {"readB", "compare", "closeB", "idle"} :
        /\ CloseTo(x, next)
        /\ \/ pc = "readCloseA" /\ x = "src" /\ next = "readB"
           \/ pc = "readCloseB" /\ x = "dst" /\ next = "compare"
           \/ pc = "closeA" /\ x = "src" /\ next = "closeB"
           \/ pc = "closeB" /\ x = "dst" /\ next = "idle"
  BY Zenon DEF ContrastClose, Side
<1>3. pc' \in {next, "hung"} BY <1>2, CloseEffect DEF Closing
<1>4. pc' = "hung" \/ Pending \ {x} \subseteq Pending'
  BY <1>2, <1>3 DEF Pending, Side
<1>5. TablesOK' /\ FdsOK' /\ faults' \in 0 .. MaxFault BY <1>1, <1>2, <1>4, CoreClose
<1>6. cmd \in Command /\ cmd.op = "contrast" BY <1>2 DEF Core, CommandOK, ContrastCalls
<1>7. CommandOK'
  BY <1>1, <1>2, <1>3, <1>5, <1>6 DEF Core, CommandOK, CopyCalls, ContrastCalls, Calls
<1> QED BY <1>5, <1>7 DEF Core
\* What every read of a command does to Core.
LEMMA CoreReading ==
  ASSUME Core, pc # "idle", NEW x \in Side, NEW next, NEW close, ReadOnce(x, next, close),
         UNCHANGED <<files, vnode, lost, cmd, fd, wtry, ret, fresh, crashes>>,
         next \notin {"hung", pc, close}, Pending = Side, pc' \in {pc, next, close} => Pending' = Side
  PROVE  /\ Reading(x, next, close)
         /\ TablesOK' /\ FdsOK' /\ faults' \in 0 .. MaxFault
         /\ rtry' \in 1 .. ReadTries
         /\ buf' \in [Side -> Chunk \cup {Torn, None, Eof, Err}]
         /\ \A y \in Side \ {x} : buf'[y] = buf[y]
         /\ pc' \in {pc, next, close, "hung"}
         /\ pc' = next => buf'[x] # None /\ (buf'[x] = Err => fd[x] = Closed)
<1>1. Reading(x, next, close) /\ faults' \in {faults, faults + 1} /\ (faults' # faults => faults < MaxFault)
  BY ReadEffect
<1>2. faults \in 0 .. MaxFault /\ MaxFault \in Nat BY SdFileAssumption DEF Core, CommandOK
<1>3. pc' \in {pc, next, close, "hung"} BY Zenon, <1>1 DEF Reading
<1>4. Pending' = Side
  <2>1. pc' = "hung" => Pending' = Side BY DEF Pending
  <2> QED BY <1>3, <2>1
<1>5. UNCHANGED <<disk, room, vnode, lost, fd>> BY DEF files
<1>6. fd[x] \in DOMAIN desc \cup {Closed} BY DEF Core, FdsOK
<1>7. TablesOK' /\ DOMAIN desc' = DOMAIN desc BY <1>1, <1>5, <1>6, ReadTables DEF Core
<1>8. Closed \notin DOMAIN desc BY SdFileAssumption DEF Core, TablesOK, DescOK, Slot, Closed
<1>9. FdsOK' BY <1>4, <1>5, <1>7, <1>8, FdsKeep DEF Core
<1>10. buf \in [Side -> Chunk \cup {Torn, None, Eof, Err}] /\ rtry \in 1 .. ReadTries
  BY DEF Core, CommandOK
<1>11. Readable(x) /\ Pos(x) < Len(disk[desc[fd[x]].path]) =>
         disk[desc[fd[x]].path][Pos(x) + 1] \in Chunk \cup {Torn}
  <2> SUFFICES ASSUME Readable(x), Pos(x) < Len(disk[desc[fd[x]].path])
               PROVE  disk[desc[fd[x]].path][Pos(x) + 1] \in Chunk \cup {Torn}
    OBVIOUS
  <2>1. PICK k \in DOMAIN desc : k = fd[x] BY <1>6 DEF Readable
  <2>2. PICK s : s = disk[desc[k].path] OBVIOUS
  <2>3. s \in Content /\ desc[k].pos \in Nat
    BY <2>2 DEF Core, TablesOK, DescOK, DiskOK, Descriptor
  <2>4. Len(s) \in Nat /\ desc[k].pos < Len(s) BY <2>1, <2>2, <2>3, Contents DEF Pos
  <2>5. desc[k].pos + 1 \in 1 .. Len(s) BY <2>3, <2>4
  <2> QED BY <2>1, <2>2, <2>3, <2>5, Contents DEF Pos
<1>12. Chunk \cap {None, Torn, Eof, Err} = {} BY SdFileAssumption
<1>13. /\ rtry' \in 1 .. ReadTries
       /\ \/ buf' = buf /\ (pc' = pc \/ pc' = "hung")
          \/ \E e \in Chunk \cup {Torn, Eof} : buf' = [buf EXCEPT ![x] = e]
          \/ (fd[x] = Closed \/ pc' = close) /\ buf' = [buf EXCEPT ![x] = Err]
  <2>0. ReadTries \in 1 .. ReadTries BY DEF ReadTries
  <2>1. CASE pc' = "hung" /\ UNCHANGED <<buf, rtry>> BY <2>1, <1>10
  <2>2. CASE fd[x] = Closed /\ buf' = [buf EXCEPT ![x] = Err] /\ rtry' = rtry BY <2>2, <1>10
  <2>3. CASE Readable(x) /\ rtry > 1 /\ rtry' = rtry - 1 /\ UNCHANGED <<pc, buf>>
    BY <2>3, <1>10 DEF ReadTries
  <2>4. CASE rtry' = ReadTries /\ pc' = close /\ buf' = [buf EXCEPT ![x] = Err] BY <2>4, <2>0
  <2>5. CASE rtry' = ReadTries /\ buf' = [buf EXCEPT ![x] = Eof] BY <2>5, <2>0
  <2>6. CASE /\ Readable(x) /\ Pos(x) < Len(disk[desc[fd[x]].path]) /\ rtry' = ReadTries
             /\ buf' = [buf EXCEPT ![x] = disk[desc[fd[x]].path][Pos(x) + 1]]
    BY <2>6, <2>0, <1>11
  <2> QED BY Zenon, <1>1, <2>1, <2>2, <2>3, <2>4, <2>5, <2>6 DEF Reading
<1>14. /\ buf' \in [Side -> Chunk \cup {Torn, None, Eof, Err}]
       /\ \A y \in Side \ {x} : buf'[y] = buf[y]
  BY <1>10, <1>13
<1>15. Err # None /\ \A e \in Chunk \cup {Torn, Eof} : e # None /\ e # Err
  BY <1>12 DEF None, Torn, Eof, Err
<1>17. pc' = next => buf'[x] # None /\ (buf'[x] = Err => fd[x] = Closed) BY <1>10, <1>13, <1>15
<1> QED BY <1>1, <1>2, <1>3, <1>7, <1>9, <1>13, <1>14, <1>17
\* A read of copy_file keeps both descriptors in its hands.
LEMMA CoreCopyRead == ASSUME Core, CopyRead PROVE Core'
<1>1. pc = "read" /\ ReadOnce("src", "readDone", "readClose")
      /\ UNCHANGED <<files, vnode, lost, cmd, fd, wtry, ret, fresh, crashes>>
  BY DEF CopyRead
<1>2. Pending = Side /\ (pc' \in {"read", "readDone", "readClose"} => Pending' = Side)
  BY <1>1 DEF Pending
<1>3. /\ TablesOK' /\ FdsOK' /\ faults' \in 0 .. MaxFault
      /\ rtry' \in 1 .. ReadTries
      /\ buf' \in [Side -> Chunk \cup {Torn, None, Eof, Err}]
      /\ pc' \in {"read", "readDone", "readClose", "hung"}
      /\ pc' = "readDone" => buf'["src"] # None /\ (buf'["src"] = Err => fd["src"] = Closed)
  BY <1>1, <1>2, CoreReading DEF Side
<1>4. cmd \in Command /\ cmd.op = "copy" BY <1>1 DEF Core, CommandOK, CopyCalls
<1>5. CommandOK'
  BY <1>1, <1>3, <1>4 DEF Core, CommandOK, CopyCalls, ContrastCalls, Calls
<1> QED BY <1>3, <1>5 DEF Core

\* So does a read of file_contrast.
LEMMA CoreContrastRead == ASSUME Core, ContrastRead PROVE Core'
<1>1. UNCHANGED <<files, vnode, lost, cmd, fd, wtry, ret, fresh, crashes>> BY DEF ContrastRead
<1>2. PICK x \in Side, next \in {"readB", "compare"}, close \in {"readCloseA", "readCloseB"} :
        /\ ReadOnce(x, next, close)
        /\ \/ pc = "readA" /\ x = "src" /\ next = "readB" /\ close = "readCloseA"
           \/ pc = "readB" /\ x = "dst" /\ next = "compare" /\ close = "readCloseB"
  BY Zenon DEF ContrastRead, Side
<1>3. Pending = Side /\ (pc' \in {pc, next, close} => Pending' = Side)
  BY <1>2 DEF Pending
<1>4. /\ TablesOK' /\ FdsOK' /\ faults' \in 0 .. MaxFault
      /\ rtry' \in 1 .. ReadTries
      /\ buf' \in [Side -> Chunk \cup {Torn, None, Eof, Err}]
      /\ pc' \in {pc, next, close, "hung"}
  BY <1>1, <1>2, <1>3, CoreReading
<1>5. cmd \in Command /\ cmd.op = "contrast" BY <1>2 DEF Core, CommandOK, ContrastCalls
<1>6. CommandOK'
  BY <1>1, <1>2, <1>4, <1>5 DEF Core, CommandOK, CopyCalls, ContrastCalls, Calls
<1> QED BY <1>4, <1>6 DEF Core

\* Between two calls: pc moves on, the tables stay.
LEMMA CorePass ==
  ASSUME Core, pc # "idle", UNCHANGED <<files, tables, fd>>, Pending \subseteq Pending'
  PROVE  TablesOK' /\ FdsOK'
<1>1. UNCHANGED <<disk, room, vnode, desc, lost, fd>> BY DEF files, tables
<1>2. TablesOK' BY <1>1 DEF Core, TablesOK, DiskOK, DescOK, FilesOK, On
<1>3. Closed \notin DOMAIN desc BY SdFileAssumption DEF Core, TablesOK, DescOK, Slot, Closed
<1>4. FdsOK' BY <1>1, <1>3, FdsKeep DEF Core
<1> QED BY <1>2, <1>4

\* A failed read that is not closed is one with no descriptor.
LEMMA CoreCopyReadDone == ASSUME Core, CopyReadDone PROVE Core'
<1>1. /\ pc = "readDone" /\ UNCHANGED <<files, tables, cmd, fd, buf, rtry, wtry, ret, faults, crashes>>
      /\ pc' = (CASE buf["src"] = Eof -> "closeSrc" [] buf["src"] = Err -> "closeDst" [] OTHER -> "write")
  BY DEF CopyReadDone, hist
<1>2. /\ pc' \in {"closeSrc", "closeDst", "write"}
      /\ pc' = "closeDst" => buf["src"] = Err
      /\ pc' = "write" => buf["src"] \notin {Eof, Err}
  BY <1>1 DEF Eof, Err
<1>3. cmd \in Command /\ cmd.op = "copy" /\ buf["src"] \in Chunk \cup {Torn, Eof, Err}
      /\ (buf["src"] = Err => fd["src"] = Closed)
  BY <1>1 DEF Core, CommandOK, CopyCalls, Side
<1>4. UNCHANGED <<disk, room, vnode, desc, lost, fd>> BY <1>1 DEF files, tables
<1>5. TablesOK' BY <1>4 DEF Core, TablesOK, DiskOK, DescOK, FilesOK, On
<1>6. Closed \notin DOMAIN desc BY SdFileAssumption DEF Core, TablesOK, DescOK, Slot, Closed
<1>7. \A x \in Pending \ Pending' : fd[x] = Closed
  BY <1>1, <1>2, <1>3 DEF Pending, Side
<1>8. FdsOK' BY <1>1, <1>4, <1>6, <1>7, FdsKeep DEF Core
<1>9. CommandOK'
  BY <1>1, <1>2, <1>3 DEF Core, CommandOK, CopyCalls, ContrastCalls, Calls
<1> QED BY <1>5, <1>8, <1>9 DEF Core

\* A write that is given up leaves its descriptor lost, closed or to writeClose.
LEMMA CoreCopyWrite == ASSUME Core, CopyWrite PROVE Core'
<1>1. /\ pc = "write" /\ Writing
      /\ UNCHANGED <<vnode, cmd, fd, buf, rtry, ret, fresh, crashes>>
      /\ faults' \in {faults, faults + 1} /\ (faults' # faults => faults < MaxFault)
  BY WriteEffect
<1>2. faults \in 0 .. MaxFault /\ MaxFault \in Nat BY SdFileAssumption DEF Core, CommandOK
<1>3. faults' \in 0 .. MaxFault BY <1>1, <1>2
<1>4. cmd \in Command /\ cmd.op = "copy" /\ buf["src"] \in Chunk \cup {Torn} /\ wtry \in 1 .. WriteTries
  BY <1>1 DEF Core, CommandOK, CopyCalls, WriteTries
<1>5. fd["dst"] \in DOMAIN desc \cup {Closed} BY <1>1 DEF Core, FdsOK, Side
<1>6. TablesOK' /\ DOMAIN desc' = DOMAIN desc BY <1>1, <1>4, <1>5, WriteTables DEF Core
<1>7. /\ pc' \in {"hung", "read", "reopen", "failClose", "writeClose"}
      /\ wtry' \in 0 .. WriteTries
      /\ pc' \in {"read", "reopen", "writeClose"} => wtry' >= 1
      /\ lost \subseteq lost'
      /\ pc' = "failClose" => fd["dst"] \in lost' \cup {Closed}
  <2>1. CASE pc' = "hung" /\ UNCHANGED <<lost, wtry>> BY <2>1, <1>4
  <2>2. CASE WriteRefused /\ lost' = IF wtry > 1 THEN lost ELSE lost \cup {fd["dst"]}
    BY <2>2, <1>4 DEF WriteRefused, WriteTries
  <2>5. CASE WriteRefused /\ fd["dst"] = Closed /\ lost' = lost
    BY <2>5, <1>4 DEF WriteRefused, WriteTries
  <2>3. CASE pc' = "read" /\ wtry' = WriteTries /\ UNCHANGED lost BY <2>3 DEF WriteTries
  <2>4. CASE pc' = "writeClose" /\ UNCHANGED <<lost, wtry>> BY <2>4, <1>4
  <2> QED BY Zenon, <1>1, <2>1, <2>2, <2>3, <2>4, <2>5 DEF Writing
<1>8. Closed \notin DOMAIN desc BY SdFileAssumption DEF Core, TablesOK, DescOK, Slot, Closed
<1>9. Pending = Side /\ Pending \ Pending' \subseteq {"dst"} /\ (pc' # "failClose" => Pending' = Side)
  BY <1>1, <1>7 DEF Pending, Side
<1>10. FdsOK' BY <1>1, <1>6, <1>7, <1>8, <1>9, FdsKeep DEF Core
<1>11. CommandOK'
  BY <1>1, <1>3, <1>4, <1>7 DEF Core, CommandOK, CopyCalls, ContrastCalls, Calls
<1> QED BY <1>6, <1>10, <1>11 DEF Core

\* A comparison touches no table.
LEMMA CoreContrast == ASSUME Core, Contrast PROVE Core'
<1>1. /\ pc = "compare" /\ UNCHANGED <<files, tables, cmd, fd, buf, rtry, wtry, faults, crashes>>
      /\ pc' \in {"hung", "closeA", "readA"}
      /\ ret' \in {ret, "differ", "same"} /\ (ret' = "same" => pc' = "closeA" \/ ret' = ret)
  BY DEF Contrast, hist
<1>2. cmd \in Command /\ cmd.op = "contrast" /\ ret \notin {"ok", "fail", "same"}
  BY <1>1 DEF Core, CommandOK, ContrastCalls
<1>3. Pending = Side /\ Pending' = Side BY <1>1 DEF Pending
<1>4. TablesOK' /\ FdsOK' BY <1>1, <1>3, CorePass
<1>5. CommandOK'
  BY <1>1, <1>2 DEF Core, CommandOK, CopyCalls, ContrastCalls, Calls
<1> QED BY <1>4, <1>5 DEF Core

\* A file that is removed is open nowhere.
LEMMA CoreRemove == ASSUME Core, Remove PROVE Core'
<1>1. pc = "rm" /\ pc' = "idle" /\ ret' \in {"ok", "fail"}
      /\ UNCHANGED <<tables, cmd, fd, buf, rtry, wtry, faults, crashes>>
      /\ \/ /\ cmd.a \in DOMAIN disk \ DOMAIN vnode
            /\ disk' = Without(disk, cmd.a) /\ room' = room + Len(disk[cmd.a])
         \/ disk' = disk /\ room' = room
  BY DEF Remove, Return, hist, files
<1>2. UNCHANGED <<vnode, desc, lost>> BY <1>1 DEF tables
<1>3. cmd \in Command /\ cmd.op = "rm" BY <1>1 DEF Core, CommandOK
<1>4. CASE disk' = disk /\ room' = room
  <2>1. TablesOK' BY <1>2, <1>4 DEF Core, TablesOK, DiskOK, DescOK, FilesOK, On
  <2> QED BY <1>1, <1>2, <1>3, <2>1
          DEF Core, FdsOK, Pending, CommandOK, CopyCalls, ContrastCalls, Calls
<1>5. CASE /\ cmd.a \in DOMAIN disk \ DOMAIN vnode
           /\ disk' = Without(disk, cmd.a) /\ room' = room + Len(disk[cmd.a])
  <2>1. PICK p \in DOMAIN disk : p = cmd.a BY <1>5
  <2>2. disk \in [DOMAIN disk -> Content] /\ room \in Nat /\ DOMAIN disk \subseteq Path
    BY DEF Core, TablesOK, DiskOK
  <2>3. Len(disk[p]) \in Nat BY <2>2, Contents
  <2>4. disk' \in [DOMAIN disk' -> Content] /\ DOMAIN disk' = DOMAIN disk \ {p}
        /\ \A q \in DOMAIN disk \ {p} : disk'[q] = disk[q]
    BY <1>5, <2>1, <2>2 DEF Without
  <2>5. DiskOK' BY <1>5, <2>1, <2>2, <2>3, <2>4 DEF DiskOK
  <2>6. \A k \in DOMAIN desc : desc[k].path # p BY <1>5, <2>1 DEF Core, TablesOK, FilesOK
  <2>7. DescOK' BY <1>2, <2>4, <2>6 DEF Core, TablesOK, DescOK
  <2>8. FilesOK' /\ lost' \subseteq DOMAIN desc' BY <1>2 DEF Core, TablesOK, FilesOK, On
  <2>9. TablesOK' BY <2>5, <2>7, <2>8 DEF TablesOK
  <2> QED BY <1>1, <1>2, <1>3, <2>9
          DEF Core, FdsOK, Pending, CommandOK, CopyCalls, ContrastCalls, Calls
<1> QED BY <1>1, <1>4, <1>5

\* A command starts with no descriptor: those that are open are lost.
LEMMA CoreStart == ASSUME Core, Start PROVE Core'
<1>1. PICK c \in Command :
        /\ cmd' = c
        /\ pc' = CASE c.op = "copy" -> "openSrc" [] c.op = "contrast" -> "openA" [] c.op = "rm" -> "rm"
  BY DEF Start
<1>2. pc = "idle" /\ fd' = NoFds /\ buf' = NoData /\ wtry' = WriteTries /\ ret' = None
      /\ UNCHANGED <<disk, room, vnode, desc, lost, rtry, faults, crashes>>
  BY DEF Start, files, tables
<1>3. c.op \in {"copy", "contrast", "rm"} BY SdFileAssumption
<1>4. \/ c.op = "copy" /\ pc' = "openSrc"
      \/ c.op = "contrast" /\ pc' = "openA"
      \/ c.op = "rm" /\ pc' = "rm"
  BY <1>1, <1>3
<1>5. TablesOK' BY <1>2 DEF Core, TablesOK, DiskOK, DescOK, FilesOK, On
<1>6. Pending = {} /\ Pending' = {} BY <1>2, <1>4 DEF Pending
<1>7. fd' \in [Side -> Slot \cup {Closed}] /\ \A x \in Side : fd'[x] = Closed
  BY <1>2 DEF NoFds, Side
<1>8. FdsOK' BY <1>2, <1>6, <1>7 DEF Core, FdsOK, Side
<1>9. buf' \in [Side -> Chunk \cup {Torn, None, Eof, Err}] BY <1>2 DEF NoData, Side
<1>10. CommandOK'
  BY <1>1, <1>2, <1>4, <1>9
  DEF Core, CommandOK, CopyCalls, ContrastCalls, Calls, WriteTries, None
<1> QED BY <1>5, <1>8, <1>10 DEF Core

\* Nothing is open, and nothing runs.
LEMMA Fresh ==
  ASSUME DiskOK', vnode' = << >>, desc' = << >>, lost' = {}, pc' = "idle", fd' = NoFds,
         buf' = NoData, rtry' = ReadTries, wtry' = WriteTries, ret' = None,
         faults' \in 0 .. MaxFault, crashes' \in 0 .. MaxCrash
  PROVE  Core'
<1>1. DOMAIN desc' = {} /\ DOMAIN vnode' = {} OBVIOUS
<1>2. DescOK' BY <1>1 DEF DescOK
<1>3. FilesOK' BY <1>1 DEF FilesOK
<1>4. TablesOK' BY <1>1, <1>2, <1>3 DEF TablesOK
<1>5. fd' \in [Side -> Slot \cup {Closed}] BY DEF NoFds, Side
<1>6. FdsOK' BY <1>1, <1>5 DEF FdsOK
<1>7. buf' \in [Side -> Chunk \cup {Torn, None, Eof, Err}] BY DEF NoData, Side
<1>8. CommandOK'
  BY <1>7 DEF CommandOK, CopyCalls, ContrastCalls, Calls, WriteTries, ReadTries, None
<1> QED BY <1>4, <1>6, <1>8 DEF Core

\* What a reset leaves of the files.
LEMMA CoreReset == ASSUME Core, Reset PROVE Core'
<1>1. /\ vnode' = << >> /\ desc' = << >> /\ lost' = {} /\ pc' = "idle" /\ fd' = NoFds
      /\ buf' = NoData /\ rtry' = ReadTries /\ wtry' = WriteTries /\ ret' = None
      /\ room' = room /\ faults' = faults
      /\ crashes' = crashes \/ (crashes < MaxCrash /\ crashes' = crashes + 1)
  BY Zenon DEF Reset
<1>2. faults \in 0 .. MaxFault /\ crashes \in 0 .. MaxCrash /\ MaxCrash \in Nat
  BY SdFileAssumption DEF Core, CommandOK
<1>3. crashes' \in 0 .. MaxCrash BY <1>1, <1>2
<1>4. DiskOK'
  <2>1. disk' = [p \in DOMAIN disk |->
           IF \E k \in DOMAIN desc : desc[k].path = p /\ desc[k].fil
           THEN Stale(CHOOSE d \in {desc[k] : k \in DOMAIN desc} : d.path = p /\ d.fil)[p]
           ELSE disk[p]]
    BY DEF Reset
  <2>2. disk \in [DOMAIN disk -> Content] BY DEF Core, TablesOK, DiskOK
  <2>3. ASSUME NEW p \in DOMAIN disk PROVE disk'[p] \in Content
    <3>1. CASE \E k \in DOMAIN desc : desc[k].path = p /\ desc[k].fil
      <4>1. PICK e : e = CHOOSE d \in {desc[k] : k \in DOMAIN desc} : d.path = p /\ d.fil OBVIOUS
      <4>2. e \in {desc[k] : k \in DOMAIN desc} /\ e.path = p BY <3>1, <4>1
      <4>3. e \in Descriptor BY <4>2 DEF Core, TablesOK, DescOK
      <4>4. Stale(e) \in [DOMAIN disk -> Content] BY <4>2, <4>3, StaleDisk DEF Core
      <4>5. disk'[p] = Stale(e)[p] BY <2>1, <3>1, <4>1
      <4> QED BY <4>4, <4>5
    <3>2. CASE ~\E k \in DOMAIN desc : desc[k].path = p /\ desc[k].fil BY <2>1, <2>2, <3>2
    <3> QED BY <3>1, <3>2
  <2>4. DOMAIN disk' = DOMAIN disk /\ disk' = [p \in DOMAIN disk |-> disk'[p]] BY <2>1
  <2>5. disk' \in [DOMAIN disk' -> Content] BY <2>3, <2>4
  <2> QED BY <1>1, <2>4, <2>5 DEF Core, TablesOK, DiskOK
<1> QED BY <1>1, <1>2, <1>3, <1>4, Fresh
\* The system starts with every table empty.
LEMMA CoreInit == ASSUME Init PROVE Core
<1>1. disk \in Card /\ room = FreeRoom /\ vnode = << >> /\ desc = << >> /\ fd = NoFds /\ buf = NoData
      /\ pc = "idle" /\ lost = {} /\ rtry = ReadTries /\ wtry = WriteTries /\ ret = None
      /\ faults = 0 /\ crashes = 0
  BY DEF Init
<1>2. DOMAIN desc = {} /\ DOMAIN vnode = {} BY <1>1
<1>3. DiskOK
  <2>1. DOMAIN disk \subseteq Path /\ disk \in [DOMAIN disk -> Seq(Chunk)] /\ room \in Nat
    BY <1>1, SdFileAssumption
  <2>2. \A s \in Seq(Chunk) : s \in Content BY DEF Content
  <2>3. disk \in [DOMAIN disk -> Content] BY <2>1, <2>2
  <2> QED BY <2>1, <2>3 DEF DiskOK
<1>4. DescOK BY <1>1, <1>2 DEF DescOK
<1>5. FilesOK BY <1>1, <1>2 DEF FilesOK
<1>6. fd \in [Side -> Slot \cup {Closed}] /\ buf \in [Side -> Chunk \cup {Torn, None, Eof, Err}]
  BY <1>1 DEF NoFds, NoData, Side
<1>7. FdsOK BY <1>1, <1>2, <1>6 DEF FdsOK
<1>8. CommandOK
  BY <1>1, <1>6, SdFileAssumption
  DEF CommandOK, CopyCalls, ContrastCalls, Calls, WriteTries, ReadTries, None
<1> QED BY <1>1, <1>3, <1>4, <1>5, <1>7, <1>8 DEF Core, TablesOK

\* Core is inductive.
LEMMA CoreStep == Core /\ [Next]_vars => Core'
<1> SUFFICES ASSUME Core, [Next]_vars PROVE Core' OBVIOUS
<1>1. CASE UNCHANGED vars
  BY <1>1
  DEF vars, Core, TablesOK, DiskOK, DescOK, FilesOK, On, FdsOK, Pending, CommandOK
<1>2. CASE Step
  BY <1>2, CoreCopyOpenSrc, CoreCopyOpenDst, CoreCopyRead, CoreCopyReadDone, CoreCopyWrite,
     CoreCopyClose, CoreCopyReopen, CoreContrastOpen, CoreContrastRead, CoreContrast,
     CoreContrastClose, CoreRemove
  DEF Step
<1> QED BY <1>1, <1>2, CoreStart, CoreReset DEF Next

\* Every variable keeps to its range, every descriptor inside its file.
THEOREM TypeCorrect == Spec => []TypeOK
<1>1. Init => Core BY CoreInit
<1>2. ASSUME Core PROVE TypeOK
  <2>1. TablesOK /\ FdsOK /\ CommandOK BY <1>2 DEF Core
  <2>2. DOMAIN disk \subseteq Path /\ (\A p \in DOMAIN disk : disk[p] \in Seq(Chunk \cup {Torn}))
        /\ room \in Nat
    BY <2>1 DEF TablesOK, DiskOK, Content
  <2>3. DOMAIN desc \subseteq 0 .. MaxFd - 1 /\ lost \subseteq DOMAIN desc
    BY <2>1 DEF TablesOK, DescOK, Slot
  <2>4. ASSUME NEW k \in DOMAIN desc
        PROVE  /\ desc[k].path \in DOMAIN disk
               /\ desc[k].pos \in 0 .. Len(disk[desc[k].path])
               /\ desc[k].entry \in Nat
    <3>1. desc[k] \in Descriptor /\ desc[k].path \in DOMAIN disk
          /\ desc[k].pos <= Len(disk[desc[k].path])
      BY <2>1 DEF TablesOK, DescOK
    <3>2. Len(disk[desc[k].path]) \in Nat BY <3>1, <2>1, Contents DEF TablesOK, DiskOK
    <3> QED BY <3>1, <3>2 DEF Descriptor
  <2>5. pc \in Calls /\ (pc # "idle" => {fd.src, fd.dst} \subseteq DOMAIN desc \cup {Closed})
        /\ {buf.src, buf.dst} \subseteq Chunk \cup {Torn, None, Eof, Err}
    BY <2>1 DEF CommandOK, FdsOK, Side
  <2>6. /\ rtry \in 1 .. ReadTries /\ wtry \in 0 .. WriteTries
        /\ ret \in {None, "ok", "fail", "same", "differ"}
        /\ faults \in 0 .. MaxFault /\ crashes \in 0 .. MaxCrash
    BY <2>1 DEF CommandOK
  <2> QED BY <2>2, <2>3, <2>4, <2>5, <2>6 DEF TypeOK
<1> QED BY <1>1, <1>2, CoreStep, PTL DEF Spec

\* The vnode and descriptor tables agree, and FatFs has no file open twice:
\* the counts of dfs_file_open and dfs_file_close, whatever the commands leave open.
THEOREM VnodesCorrect == Spec => []VnodesCount
<1>1. Init => Core BY CoreInit
<1>2. ASSUME Core PROVE VnodesCount
  <2>1. DescOK /\ FilesOK BY <1>2 DEF Core, TablesOK
  <2>2. ASSUME NEW p PROVE Cardinality({k \in On(p) : desc[k].fil}) <= 1
    <3> DEFINE S == {k \in On(p) : desc[k].fil}
    <3>1. \A j, k \in S : j = k BY <2>1 DEF FilesOK, On
    <3>2. S = {} \/ \E k : S = {k} BY <3>1
    <3> HIDE DEF S
    <3>3. ASSUME S = {} PROVE Cardinality(S) <= 1 BY <3>3, FS_EmptySet
    <3>4. ASSUME \E k : S = {k} PROVE Cardinality(S) <= 1
      <4>1. Cardinality(S) = 1 BY <3>4, FS_Singleton
      <4> QED BY <4>1
    <3>5. Cardinality(S) <= 1 BY <3>2, <3>3, <3>4
    <3> QED BY <3>5 DEF S
  <2> QED BY <2>1, <2>2 DEF FilesOK, VnodesCount
<1> QED BY <1>1, <1>2, CoreStep, PTL DEF Spec

\* A command that has ended has closed every descriptor it opened, on every
\* error path, but for those counted as lost.
THEOREM ReturnsCorrect == Spec => []DescriptorsReturned
<1>1. Init => Core BY CoreInit
<1>2. ASSUME Core PROVE DescriptorsReturned
  <2> SUFFICES ASSUME pc = "idle" PROVE DOMAIN desc = lost BY DEF DescriptorsReturned
  <2>1. Pending = {} BY DEF Pending
  <2>2. DOMAIN desc \ lost = {} BY <1>2, <2>1 DEF Core, FdsOK
  <2> QED BY <1>2, <2>2 DEF Core, TablesOK
<1> QED BY <1>1, <1>2, CoreStep, PTL DEF Spec
-----------------------------------------------------------------------------
(* What calls leave of the two descriptors. *)

\* Facts about the descriptors a command holds.
LEMMA Held ==
  ASSUME Core, pc # "idle"
  PROVE  /\ \A x \in Side : fd[x] = Closed \/ fd[x] \in DOMAIN desc
         /\ Closed \notin DOMAIN desc
         /\ \A x, y \in Side : x # y /\ fd[x] # Closed => fd[x] # fd[y]
         /\ \A k \in DOMAIN desc :
              /\ desc[k].path \in DOMAIN disk /\ disk[desc[k].path] \in Content
              /\ Len(disk[desc[k].path]) \in Nat
              /\ desc[k].pos \in Nat /\ desc[k].entry \in Nat
              /\ desc[k].pos <= Len(disk[desc[k].path])
              /\ ~desc[k].fil => desc[k].pos = 0
<1>1. Closed \notin DOMAIN desc BY SdFileAssumption DEF Core, TablesOK, DescOK, Slot, Closed
<1>2. ASSUME NEW k \in DOMAIN desc
      PROVE  /\ desc[k].path \in DOMAIN disk /\ disk[desc[k].path] \in Content
             /\ Len(disk[desc[k].path]) \in Nat
             /\ desc[k].pos \in Nat /\ desc[k].entry \in Nat
             /\ desc[k].pos <= Len(disk[desc[k].path])
             /\ ~desc[k].fil => desc[k].pos = 0
  <2>1. desc[k] \in Descriptor /\ desc[k].path \in DOMAIN disk
        /\ desc[k].pos <= Len(disk[desc[k].path]) /\ (~desc[k].fil => desc[k].pos = 0)
    BY DEF Core, TablesOK, DescOK
  <2>2. disk[desc[k].path] \in Content BY <2>1 DEF Core, TablesOK, DiskOK
  <2> QED BY <2>1, <2>2, Contents DEF Descriptor
<1>3. \A x, y \in Side : x # y /\ fd[x] # Closed => fd[x] # fd[y] BY DEF Core, FdsOK, Side
<1>4. \A x \in Side : fd[x] = Closed \/ fd[x] \in DOMAIN desc BY DEF Core, FdsOK
<1> QED BY <1>1, <1>2, <1>3, <1>4

\* A read changes nothing of the other descriptor, and of its own the offset.
LEMMA ReadKeeps ==
  ASSUME Core, pc # "idle", NEW x \in Side, NEW next, NEW close, Reading(x, next, close),
         UNCHANGED <<disk, fd>>
  PROVE  /\ \A y \in Side : \A p : Unwritten(y, p) => Unwritten(y, p)'
         /\ \A y \in Side : Readable(y)' <=> Readable(y)
         /\ \A y \in Side \ {x} : Readable(y) => Pos(y)' = Pos(y)
         /\ \A k \in DOMAIN desc : desc'[k].path = desc[k].path /\ desc'[k].fil = desc[k].fil
         /\ DOMAIN desc' = DOMAIN desc
         /\ \A y \in Side \ {x} : fd[y] # Closed => desc'[fd[y]] = desc[fd[y]]
         /\ ~Readable(x) => desc' = desc
<1>1. CASE desc' = desc
  BY <1>1 DEF Unwritten, Readable, Pos
<1>2. CASE /\ Readable(x)
           /\ \/ desc' = [desc EXCEPT ![fd[x]].pos = @ + 1]
              \/ desc' = [desc EXCEPT ![fd[x]].err = TRUE]
  <2>1. PICK k \in DOMAIN desc : k = fd[x] BY <1>2, Held DEF Readable
  <2>2. Touched(k) /\ desc'[k].mod = desc[k].mod
    BY <1>2, <2>1, Fields DEF Core, TablesOK, DescOK
  <2>3. DOMAIN desc' = DOMAIN desc /\ (\A j \in DOMAIN desc \ {k} : desc'[j] = desc[j])
        /\ desc'[k].path = desc[k].path /\ desc'[k].fil = desc[k].fil
        /\ desc'[k].entry = desc[k].entry
    BY <2>2 DEF Touched
  <2>4. \A y \in Side : fd[y] = k \/ fd[y] = Closed \/ fd[y] \in DOMAIN desc \ {k} BY Held
  <2>5. \A y \in Side \ {x} : fd[y] # k BY <2>1, Held
  <2>6. \A y \in Side \ {x} : fd[y] # Closed => desc'[fd[y]] = desc[fd[y]] BY <2>3, <2>4, <2>5
  <2>7. \A y \in Side : \A p : Unwritten(y, p) => Unwritten(y, p)'
    BY <2>2, <2>3, <2>4 DEF Unwritten
  <2>8. \A y \in Side : Readable(y)' <=> Readable(y) BY <2>3, <2>4 DEF Readable
  <2>9. \A y \in Side \ {x} : Readable(y) => Pos(y)' = Pos(y) BY <2>6 DEF Readable, Pos
  <2> QED BY <2>1, <2>3, <2>6, <2>7, <2>8, <2>9, <1>2
<1> QED BY Zenon, <1>1, <1>2 DEF Reading

\* And what it reads.
LEMMA ReadGets ==
  ASSUME Core, pc # "idle", NEW x \in Side, NEW next, NEW close, Reading(x, next, close),
         UNCHANGED <<disk, fd>>, NEW p, Readable(x) => desc[fd[x]].path = p
  PROVE  /\ \A y \in Side \ {x} : buf'[y] = buf[y]
         /\ \/ pc' = next /\ fd[x] = Closed /\ buf'[x] = Err /\ failed' = failed
            \/ pc' = "hung"
            \/ /\ pc' = next /\ Readable(x) /\ Pos(x) < Len(disk[p])
               /\ buf'[x] = disk[p][Pos(x) + 1] /\ Pos(x)' = Pos(x) + 1 /\ failed' = failed
            \/ /\ pc' = next /\ Readable(x) /\ Pos(x) = Len(disk[p])
               /\ buf'[x] = Eof /\ Pos(x)' = Pos(x) /\ failed' = failed
            \/ /\ pc' = pc /\ Readable(x) /\ buf' = buf /\ Pos(x)' = Pos(x) /\ failed' = failed
            \/ /\ pc' = close /\ Readable(x) /\ buf'[x] = Err /\ Pos(x)' = Pos(x)
               /\ failed' = failed \cup {"read"}
<1>0. buf \in [Side -> Chunk \cup {Torn, None, Eof, Err}] BY DEF Core, CommandOK
<1>1. CASE fd[x] = Closed /\ pc' = next /\ buf' = [buf EXCEPT ![x] = Err] /\ failed' = failed
  BY <1>0, <1>1
<1>2. CASE pc' = "hung" /\ buf' = buf BY <1>2
<1>3. CASE Readable(x)
  <2>1. PICK k \in DOMAIN desc : k = fd[x] BY <1>3, Held DEF Readable
  <2>2. desc[k].path = p /\ Pos(x) = desc[k].pos /\ Pos(x)' = desc'[k].pos
    BY <1>3, <2>1 DEF Pos
  <2>3. Pos(x) \in Nat /\ Pos(x) <= Len(disk[p]) /\ Len(disk[p]) \in Nat BY <2>2, Held
  <2>4. /\ desc' = [desc EXCEPT ![k].pos = @ + 1] => Pos(x)' = Pos(x) + 1
        /\ desc' = [desc EXCEPT ![k].err = TRUE] => Pos(x)' = Pos(x)
        /\ desc' = desc => Pos(x)' = Pos(x)
    BY <2>2, Fields DEF Core, TablesOK, DescOK
  <2>5. CASE /\ Pos(x) < Len(disk[desc[fd[x]].path])
             /\ buf' = [buf EXCEPT ![x] = disk[desc[fd[x]].path][Pos(x) + 1]]
             /\ desc' = [desc EXCEPT ![fd[x]].pos = @ + 1]
             /\ pc' = next /\ UNCHANGED failed
    BY <1>0, <1>3, <2>1, <2>2, <2>4, <2>5
  <2>6. CASE /\ ~(Pos(x) < Len(disk[desc[fd[x]].path]))
             /\ buf' = [buf EXCEPT ![x] = Eof] /\ desc' = desc
             /\ pc' = next /\ UNCHANGED failed
    BY <1>0, <1>3, <2>1, <2>2, <2>3, <2>4, <2>6
  <2>7. CASE desc' = [desc EXCEPT ![fd[x]].err = TRUE] /\ UNCHANGED <<pc, buf, failed>>
    BY <1>0, <1>3, <2>1, <2>4, <2>7
  <2>8. CASE /\ pc' = close /\ desc' = [desc EXCEPT ![fd[x]].err = TRUE]
             /\ buf' = [buf EXCEPT ![x] = Err] /\ failed' = failed \cup {"read"}
    BY <1>0, <1>3, <2>1, <2>4, <2>8
  <2> QED BY Zenon, <1>1, <1>2, <2>5, <2>6, <2>7, <2>8 DEF Reading
<1> QED BY Zenon, <1>1, <1>2, <1>3 DEF Reading

\* A close leaves the other descriptor alone, and the file if it has not changed.
LEMMA CloseKeeps ==
  ASSUME Core, pc # "idle", NEW x \in Side, NEW next, Closing(x, next)
  PROVE  /\ fd'[x] \in {Closed, fd[x]}
         /\ fd'[x] # Closed => desc' = desc
         /\ DOMAIN desc' \subseteq DOMAIN desc
         /\ \A k \in DOMAIN desc' : desc'[k] = desc[k]
         /\ \A y \in Side \ {x} : fd'[y] = fd[y] /\ (fd[y] # Closed => desc'[fd[y]] = desc[fd[y]])
         /\ \A p : Unwritten(x, p) => disk' = disk
         /\ \A q \in DOMAIN disk : disk'[q] = disk[q]
              \/ (fd[x] # Closed /\ q = desc[fd[x]].path /\ disk' = Stale(desc[fd[x]]))
<1>1. fd \in [Side -> Slot \cup {Closed}] BY DEF Core, FdsOK
<1>2. CASE UNCHANGED <<disk, desc, fd>>
  BY <1>2
<1>3. CASE /\ fd[x] # Closed /\ Release(fd[x]) /\ fd' = [fd EXCEPT ![x] = Closed]
           /\ disk' = disk \/ disk' = Stale(desc[fd[x]])
  <2>1. PICK k \in DOMAIN desc : k = fd[x] BY <1>3, Held
  <2>2. DOMAIN desc' = DOMAIN desc \ {k} /\ \A j \in DOMAIN desc \ {k} : desc'[j] = desc[j]
    BY <1>3, <2>1, Released DEF Core
  <2>3. fd'[x] = Closed /\ \A y \in Side \ {x} : fd'[y] = fd[y] /\ fd[y] # k
    BY <1>1, <1>3, <2>1, Held
  <2>4. \A y \in Side \ {x} : fd[y] # Closed => desc'[fd[y]] = desc[fd[y]]
    BY <2>2, <2>3, Held
  <2>5. PICK d \in Descriptor : d = desc[k] BY DEF Core, TablesOK, DescOK
  <2>6. d.path \in DOMAIN disk BY <2>5, Held
  <2>7. /\ \A q \in DOMAIN disk \ {d.path} : Stale(d)[q] = disk[q]
        /\ d.entry >= Len(disk[d.path]) => Stale(d) = disk
    BY <2>6, StaleDisk DEF Core
  <2>8. \A p : Unwritten(x, p) => disk' = disk BY <1>3, <2>1, <2>5, <2>7 DEF Unwritten
  <2>9. \A q \in DOMAIN disk : disk'[q] = disk[q]
          \/ (fd[x] # Closed /\ q = desc[fd[x]].path /\ disk' = Stale(desc[fd[x]]))
    BY <1>3, <2>1, <2>5, <2>7
  <2> QED BY <2>2, <2>3, <2>4, <2>8, <2>9
<1> QED BY Zenon, <1>2, <1>3 DEF Closing
\* An open leaves the other descriptor alone, and gives one of a file as it is.
LEMMA OpenKeeps ==
  ASSUME Core, pc # "idle", NEW x \in Side, NEW p, NEW k, NEW append \in BOOLEAN,
         Opened(x, p, k, append)
  PROVE  /\ fd'[x] = k /\ k # Closed /\ desc'[k].path = p
         /\ \A y \in Side \ {x} : fd'[y] = fd[y] /\ (fd[y] # Closed => desc'[fd[y]] = desc[fd[y]])
         /\ \A y \in Side \ {x} : \A q : Unwritten(y, q) => Unwritten(y, q)'
         /\ Len(disk'[p]) \in Nat
         /\ p \in DOMAIN disk => Unwritten(x, p)'
         /\ \A j \in DOMAIN desc : desc'[j] = desc[j]
<1>1. fd \in [Side -> Slot \cup {Closed}] /\ k \in Slot /\ k # Closed
  BY SdFileAssumption DEF Core, FdsOK, Opened, Slot, Closed
<1>2. fd'[x] = k /\ \A y \in Side \ {x} : fd'[y] = fd[y] BY <1>1 DEF Opened
<1>3. \A y \in Side \ {x} : fd[y] # Closed => desc'[fd[y]] = desc[fd[y]] BY Held DEF Opened
<1>4. ASSUME NEW y \in Side \ {x}, NEW q, Unwritten(y, q) PROVE Unwritten(y, q)'
  <2>1. CASE fd[y] = Closed BY <2>1, <1>2, <1>4 DEF Unwritten
  <2>2. CASE fd[y] # Closed
    <3>1. fd'[y] = fd[y] /\ desc'[fd'[y]] = desc[fd[y]] /\ fd[y] \in DOMAIN desc
      BY <2>2, <1>2, <1>3, Held
    <3>2. desc[fd[y]].path = q /\ ~desc[fd[y]].mod /\ desc[fd[y]].entry >= Len(disk[q])
      BY <2>2, <1>4 DEF Unwritten
    <3>3. q \in DOMAIN disk BY <3>1, <3>2, Held
    <3>4. disk'[q] = disk[q] BY <3>3 DEF Opened
    <3> QED BY <3>1, <3>2, <3>4 DEF Unwritten
  <2> QED BY <2>1, <2>2
<1>5. disk'[p] \in Content
  <2>1. CASE p \in DOMAIN disk BY <2>1 DEF Opened, Core, TablesOK, DiskOK
  <2>2. CASE p \notin DOMAIN disk BY <2>2, Contents DEF Opened
  <2> QED BY <2>1, <2>2
<1>6. Len(disk'[p]) \in Nat BY <1>5, Contents
<1>7. p \in DOMAIN disk => Unwritten(x, p)' BY <1>2, <1>6 DEF Unwritten, Opened
<1>8. \A j \in DOMAIN desc : desc'[j] = desc[j] BY DEF Opened
<1>9. desc'[k].path = p BY DEF Opened
<1> QED BY <1>1, <1>2, <1>3, <1>4, <1>6, <1>7, <1>8, <1>9
-----------------------------------------------------------------------------
(* file_contrast. *)

\* Each file is opened at its start.
LEMMA ContrastOpens == ASSUME Core, Core', ContrastOK, ContrastOpen PROVE ContrastOK'
<1>1. UNCHANGED <<cmd, buf, ret>> BY DEF ContrastOpen
<1>2. \/ /\ pc = "openA" /\ pc' = "openB"
         /\ (OpenOk("src", cmd.a, FALSE, FALSE) /\ NoFault) \/ OpenFails("src", cmd.a, FALSE)
      \/ /\ pc = "openB" /\ pc' = "readA"
         /\ (OpenOk("dst", cmd.b, FALSE, FALSE) /\ NoFault) \/ OpenFails("dst", cmd.b, FALSE)
  BY DEF ContrastOpen
<1>3. PICK a \in Path, b \in Path : a = cmd.a /\ b = cmd.b
  BY <1>2, PathsOK DEF Core, CommandOK, ContrastCalls
<1>4. cmd'.a = a /\ cmd'.b = b BY <1>1, <1>3
<1>5. ret' # "same" BY <1>1, <1>2 DEF Core, CommandOK
<1>6. CASE pc = "openA"
  <2>1. \/ OpenOk("src", a, FALSE, FALSE) \/ OpenFails("src", a, FALSE) BY <1>2, <1>3, <1>6
  <2>2. pc' = "openB" BY <1>2, <1>6
  <2>3. Unwritten("src", a)' /\ (fd'["src"] # Closed => Pos("src")' = 0)
    <3>1. CASE OpenOk("src", a, FALSE, FALSE)
      <4>1. PICK k : Opened("src", a, k, FALSE) BY <3>1, OpenEffect DEF Core, Side
      <4>3. a \in DOMAIN disk BY <3>1 DEF OpenOk
      <4>2. Unwritten("src", a)' /\ fd'["src"] = k BY <4>1, <4>3, <1>6, OpenKeeps DEF Side
      <4> QED BY <4>1, <4>2 DEF Opened, Pos
    <3>2. CASE OpenFails("src", a, FALSE)
      <4>1. fd'["src"] = Closed BY <3>2 DEF OpenFails, Core, FdsOK, Side
      <4> QED BY <4>1 DEF Unwritten
    <3> QED BY <2>1, <3>1, <3>2
  <2> QED BY <2>2, <2>3, <1>4, <1>5 DEF ContrastOK, ContrastFiles, ContrastCalls
<1>7. CASE pc = "openB"
  <2>1. \/ OpenOk("dst", b, FALSE, FALSE) \/ OpenFails("dst", b, FALSE) BY <1>2, <1>3, <1>7
  <2>2. pc' = "readA" BY <1>2, <1>7
  <2>3. Unwritten("src", a) /\ (fd["src"] # Closed => Pos("src") = 0)
    BY <1>3, <1>7 DEF ContrastOK, ContrastFiles, ContrastCalls
  <2>4. /\ Unwritten("src", a)' /\ Unwritten("dst", b)'
        /\ Readable("src")' /\ Readable("dst")' => Pos("src")' = 0 /\ Pos("dst")' = 0
    <3>1. CASE OpenOk("dst", b, FALSE, FALSE)
      <4>1. PICK k : Opened("dst", b, k, FALSE) BY <3>1, OpenEffect DEF Core, Side
      <4>2. Unwritten("dst", b)' /\ Unwritten("src", a)' /\ fd'["dst"] = k
            /\ fd'["src"] = fd["src"] /\ (fd["src"] # Closed => desc'[fd["src"]] = desc[fd["src"]])
        <5>1. b \in DOMAIN disk BY <3>1 DEF OpenOk
        <5>2. /\ fd'["dst"] = k /\ Unwritten("dst", b)' /\ (Unwritten("src", a) => Unwritten("src", a)')
              /\ fd'["src"] = fd["src"] /\ (fd["src"] # Closed => desc'[fd["src"]] = desc[fd["src"]])
          BY <4>1, <5>1, <1>7, OpenKeeps DEF Side
        <5> QED BY <5>2, <2>3
      <4> QED BY <4>1, <4>2, <2>3 DEF Opened, Pos, Readable
    <3>2. CASE OpenFails("dst", b, FALSE)
      <4>1. fd'["dst"] = Closed /\ fd'["src"] = fd["src"] /\ desc' = desc /\ disk' = disk
        BY <3>2 DEF OpenFails, Core, FdsOK, Side, files
      <4> QED BY <4>1, <2>3 DEF Unwritten, Readable
    <3> QED BY <2>1, <3>1, <3>2
  <2>5. ASSUME Readable("src")', Readable("dst")'
        PROVE  0 <= Len(disk'[a]) /\ 0 <= Len(disk'[b])
    <3>1. fd'["src"] \in DOMAIN desc' /\ fd'["dst"] \in DOMAIN desc'
      BY <2>2, <2>5 DEF Core, FdsOK, Readable, Side
    <3>2. desc'[fd'["src"]].path = a /\ desc'[fd'["dst"]].path = b
      BY <2>4, <2>5 DEF Unwritten, Readable
    <3>3. a \in DOMAIN disk' /\ b \in DOMAIN disk' BY <3>1, <3>2 DEF Core, TablesOK, DescOK
    <3>4. disk'[a] \in Content /\ disk'[b] \in Content BY <3>3 DEF Core, TablesOK, DiskOK
    <3>5. Len(disk'[a]) \in Nat /\ Len(disk'[b]) \in Nat BY <3>4, Contents
    <3> QED BY <3>5
  <2> QED BY <2>2, <2>4, <2>5, <1>4, <1>5 DEF ContrastOK, ContrastFiles, ContrastCalls, Agree
<1> QED BY <1>2, <1>6, <1>7

\* The second file is read where the first was, or an attempt is repeated.
LEMMA ContrastReads == ASSUME Core, Core', ContrastOK, ContrastRead PROVE ContrastOK'
<1>1. UNCHANGED <<disk, cmd, fd, ret>> BY DEF ContrastRead, files
<1>2. \/ pc = "readA" /\ ReadOnce("src", "readB", "readCloseA")
      \/ pc = "readB" /\ ReadOnce("dst", "compare", "readCloseB")
  BY DEF ContrastRead
<1>3. PICK a, b : a = cmd.a /\ b = cmd.b OBVIOUS
<1>4. cmd'.a = a /\ cmd'.b = b BY <1>1, <1>3
<1>5. ret' # "same" BY <1>1, <1>2 DEF Core, CommandOK
<1>6. Unwritten("src", a) /\ Unwritten("dst", b)
  BY <1>2, <1>3 DEF ContrastOK, ContrastFiles, ContrastCalls
<1>7. (Readable("src") => desc[fd["src"]].path = a) /\ (Readable("dst") => desc[fd["dst"]].path = b)
  BY <1>6 DEF Unwritten, Readable
<1>8. \A n : Agree(n)' <=> Agree(n) BY <1>1 DEF Agree
<1>9. CASE pc = "readA"
  <2>1. Reading("src", "readB", "readCloseA") BY <1>2, <1>9, ReadEffect DEF Side
  <2>2. /\ Unwritten("src", a)' /\ Unwritten("dst", b)'
        /\ Readable("src")' <=> Readable("src")
        /\ Readable("dst")' <=> Readable("dst")
        /\ Readable("dst") => Pos("dst")' = Pos("dst")
    BY <1>1, <1>6, <1>9, <2>1, ReadKeeps DEF Side
  <2>3. \/ pc' = "readB" /\ fd["src"] = Closed /\ buf'["src"] = Err
        \/ pc' = "hung"
        \/ /\ pc' = "readB" /\ Readable("src") /\ Pos("src") < Len(disk[a])
           /\ buf'["src"] = disk[a][Pos("src") + 1] /\ Pos("src")' = Pos("src") + 1
        \/ /\ pc' = "readB" /\ Readable("src") /\ Pos("src") = Len(disk[a])
           /\ buf'["src"] = Eof /\ Pos("src")' = Pos("src")
        \/ pc' = "readA" /\ Readable("src") /\ buf' = buf /\ Pos("src")' = Pos("src")
        \/ pc' = "readCloseA" /\ Readable("src") /\ buf'["src"] = Err
    BY <1>1, <1>7, <1>9, <2>1, ReadGets DEF Side
  <2>4. Readable("src") /\ Readable("dst") => Pos("src") = Pos("dst") /\ Agree(Pos("src"))
    BY <1>9 DEF ContrastOK
  <2>5. Readable("src") => a \in DOMAIN disk BY <1>7, <1>9, Held DEF Readable, Side
  <2>6. CASE pc' = "readA"
    BY <1>4, <1>5, <1>8, <2>2, <2>3, <2>4, <2>6 DEF ContrastOK, ContrastFiles
  <2>7. CASE pc' = "readB"
    <3>1. \/ buf'["src"] = Err
          \/ Readable("src")' /\ (Readable("dst")' =>
               HasRead("src", a, Pos("dst"))' /\ Agree(Pos("dst"))')
      <4>1. CASE buf'["src"] = Err BY <4>1
      <4>2. CASE buf'["src"] # Err
        <5>1. Readable("src") /\ Readable("src")' BY <2>2, <2>3, <2>7, <4>2
        <5>2. ASSUME Readable("dst")'
              PROVE  HasRead("src", a, Pos("dst"))' /\ Agree(Pos("dst"))'
          <6>1. PICK n : n = Pos("dst") OBVIOUS
          <6>2. Pos("dst")' = n /\ Pos("src") = n /\ Agree(n) BY <5>1, <5>2, <6>1, <2>2, <2>4
          <6>3. HasRead("src", a, n)'
            BY <6>2, <5>1, <2>3, <2>5, <2>7, <4>2, <1>1 DEF HasRead
          <6> QED BY <6>2, <6>3, <1>8
        <5> QED BY <5>1, <5>2
      <4> QED BY <4>1, <4>2
    <3> QED BY <3>1, <1>4, <1>5, <2>2, <2>7 DEF ContrastOK, ContrastFiles
  <2>8. CASE pc' = "readCloseA"
    BY <1>4, <1>5, <2>2, <2>3, <2>8 DEF ContrastOK, ContrastFiles
  <2>9. CASE pc' = "hung"
    BY <1>4, <1>5, <2>9 DEF ContrastOK, ContrastFiles, ContrastCalls
  <2> QED BY <2>3, <2>6, <2>7, <2>8, <2>9
<1>10. CASE pc = "readB"
  <2>1. Reading("dst", "compare", "readCloseB") BY <1>2, <1>10, ReadEffect DEF Side
  <2>2. /\ Unwritten("src", a)' /\ Unwritten("dst", b)'
        /\ Readable("src")' <=> Readable("src")
        /\ Readable("dst")' <=> Readable("dst")
        /\ Readable("src") => Pos("src")' = Pos("src")
    BY <1>1, <1>6, <1>10, <2>1, ReadKeeps DEF Side
  <2>3. /\ buf'["src"] = buf["src"]
        /\ \/ pc' = "compare" /\ fd["dst"] = Closed /\ buf'["dst"] = Err
           \/ pc' = "hung"
           \/ /\ pc' = "compare" /\ Readable("dst") /\ Pos("dst") < Len(disk[b])
              /\ buf'["dst"] = disk[b][Pos("dst") + 1] /\ Pos("dst")' = Pos("dst") + 1
           \/ /\ pc' = "compare" /\ Readable("dst") /\ Pos("dst") = Len(disk[b])
              /\ buf'["dst"] = Eof /\ Pos("dst")' = Pos("dst")
           \/ pc' = "readB" /\ Readable("dst") /\ buf' = buf /\ Pos("dst")' = Pos("dst")
           \/ pc' = "readCloseB" /\ Readable("dst") /\ buf'["dst"] = Err
    BY <1>1, <1>7, <1>10, <2>1, ReadGets DEF Side
  <2>4. \/ buf["src"] = Err
        \/ Readable("src") /\ (Readable("dst") =>
              HasRead("src", a, Pos("dst")) /\ Agree(Pos("dst")))
    BY <1>3, <1>10 DEF ContrastOK
  <2>5. \A n : Readable("src") /\ HasRead("src", a, n) => HasRead("src", a, n)'
    BY <1>1, <2>2, <2>3 DEF HasRead
  <2>6. Readable("dst") => b \in DOMAIN disk BY <1>7, <1>10, Held DEF Readable, Side
  <2>7. CASE pc' = "readB"
    <3>1. \/ buf'["src"] = Err
          \/ Readable("src")' /\ (Readable("dst")' =>
               HasRead("src", a, Pos("dst"))' /\ Agree(Pos("dst"))')
      <4>1. CASE buf'["src"] = Err BY <4>1
      <4>2. CASE buf'["src"] # Err
        <5>1. PICK n : n = Pos("dst") OBVIOUS
        <5>2. Pos("dst")' = n BY <5>1, <2>3, <2>7
        <5>3. Readable("src") /\ (Readable("dst") => HasRead("src", a, n) /\ Agree(n))
          BY <5>1, <2>3, <2>4, <4>2
        <5>4. Readable("src")' /\ (Readable("dst")' => HasRead("src", a, n)' /\ Agree(n)')
          BY <5>3, <2>2, <2>5, <1>8
        <5> QED BY <5>2, <5>4
      <4> QED BY <4>1, <4>2
    <3> QED BY <3>1, <1>4, <1>5, <2>2, <2>7 DEF ContrastOK, ContrastFiles
  <2>8. CASE pc' = "compare"
    <3>1. \/ Err \in {buf'["src"], buf'["dst"]}
          \/ \E n \in Nat : HasRead("src", a, n)' /\ HasRead("dst", b, n)' /\ Agree(n)'
      <4>1. CASE buf'["src"] = Err \/ buf'["dst"] = Err BY <4>1
      <4>2. CASE buf'["src"] # Err /\ buf'["dst"] # Err
        <5>1. Readable("dst") BY <2>3, <2>8, <4>2
        <5>2. PICK n \in Nat : n = Pos("dst") BY <5>1, <1>10, Held DEF Readable, Pos, Side
        <5>3. Readable("src") /\ HasRead("src", a, n) /\ Agree(n) BY <5>1, <5>2, <2>3, <2>4, <4>2
        <5>4. HasRead("dst", b, n)'
          BY <5>1, <5>2, <2>2, <2>3, <2>6, <2>8, <4>2, <1>1 DEF HasRead
        <5> QED BY <5>3, <5>4, <2>5, <1>8
      <4> QED BY <4>1, <4>2
    <3> QED BY <3>1, <1>4, <1>5, <2>2, <2>8 DEF ContrastOK, ContrastFiles
  <2>9. CASE pc' = "readCloseB"
    BY <1>4, <1>5, <2>2, <2>3, <2>9 DEF ContrastOK, ContrastFiles
  <2>10. CASE pc' = "hung"
    BY <1>4, <1>5, <2>10 DEF ContrastOK, ContrastFiles, ContrastCalls
  <2> QED BY <2>3, <2>7, <2>8, <2>9, <2>10
<1> QED BY <1>2, <1>9, <1>10

\* Files of one length that agree up to it are equal.
LEMMA AgreeToTheEnd ==
  ASSUME NEW s \in Content, NEW t \in Content, Len(s) = Len(t), \A i \in 1 .. Len(s) : s[i] = t[i]
  PROVE  s = t
BY DEF Content

\* Equal chunks are one more in which the files agree, two ends are equal files.
LEMMA ContrastCompares == ASSUME Core, Core', ContrastOK, Contrast PROVE ContrastOK'
<1>1. /\ pc = "compare"
      /\ UNCHANGED <<disk, desc, cmd, fd, buf>>
      /\ \/ pc' = "hung" /\ ret' = ret
         \/ pc' = "closeA" /\ ret' = "differ"
         \/ /\ buf["src"] = buf["dst"] /\ buf["src"] # Err
            /\ \/ buf["src"] = Eof /\ pc' = "closeA" /\ ret' = "same"
               \/ buf["src"] # Eof /\ pc' = "readA" /\ ret' = ret
  BY DEF Contrast, files, tables
<1>2. PICK a, b : a = cmd.a /\ b = cmd.b OBVIOUS
<1>3. cmd'.a = a /\ cmd'.b = b BY <1>1, <1>2
<1>4. ret # "same" BY <1>1 DEF Core, CommandOK
<1>5. Unwritten("src", a)' /\ Unwritten("dst", b)'
  BY <1>1, <1>2 DEF ContrastOK, ContrastFiles, ContrastCalls, Unwritten
<1>6. CASE ret' # "same" /\ pc' # "readA"
  BY <1>1, <1>3, <1>5, <1>6 DEF ContrastOK, ContrastFiles
<1>7. CASE /\ buf["src"] = buf["dst"] /\ buf["src"] # Err
           /\ \/ buf["src"] = Eof /\ pc' = "closeA" /\ ret' = "same"
              \/ buf["src"] # Eof /\ pc' = "readA" /\ ret' = ret
  <2>1. PICK n \in Nat : HasRead("src", a, n) /\ HasRead("dst", b, n) /\ Agree(n)
    BY <1>1, <1>2, <1>7 DEF ContrastOK
  <2>2. /\ Readable("src") /\ a \in DOMAIN disk
        /\ \/ buf["src"] = Eof /\ n = Len(disk[a]) /\ Pos("src") = n
           \/ n < Len(disk[a]) /\ buf["src"] = disk[a][n + 1] /\ Pos("src") = n + 1
    BY <2>1, <1>7 DEF HasRead
  <2>3. /\ Readable("dst") /\ b \in DOMAIN disk
        /\ \/ buf["dst"] = Eof /\ n = Len(disk[b]) /\ Pos("dst") = n
           \/ n < Len(disk[b]) /\ buf["dst"] = disk[b][n + 1] /\ Pos("dst") = n + 1
    BY <2>1, <1>7 DEF HasRead
  <2>4. disk[a] \in Content /\ disk[b] \in Content
    BY <2>2, <2>3 DEF Core, TablesOK, DiskOK
  <2>5. Len(disk[a]) \in Nat /\ Len(disk[b]) \in Nat BY <2>4, Contents
  <2>6. \A q \in {a, b} : n < Len(disk[q]) => disk[q][n + 1] # Eof
    <3>1. ASSUME NEW q \in {a, b}, n < Len(disk[q]) PROVE disk[q][n + 1] # Eof
      <4>1. n + 1 \in 1 .. Len(disk[q]) BY <3>1, <2>5
      <4>2. disk[q][n + 1] \in Chunk \cup {Torn} BY <4>1, <2>4, Contents
      <4> QED BY <4>2, SdFileAssumption DEF Torn, Eof
    <3> QED BY <3>1
  <2>7. n <= Len(disk[a]) /\ n <= Len(disk[b]) /\ \A i \in 1 .. n : disk[a][i] = disk[b][i]
    BY <2>1, <1>2 DEF Agree
  <2>8. CASE buf["src"] = Eof /\ pc' = "closeA" /\ ret' = "same"
    <3>1. n = Len(disk[a]) /\ n = Len(disk[b]) BY <2>2, <2>3, <2>6, <2>8, <1>7
    <3>2. disk[a] = disk[b] BY <3>1, <2>4, <2>7, AgreeToTheEnd
    <3> QED BY <3>2, <2>8, <1>1, <1>3, <1>5 DEF ContrastOK, ContrastFiles
  <2>9. CASE buf["src"] # Eof /\ pc' = "readA" /\ ret' = ret
    <3>1. /\ n < Len(disk[a]) /\ n < Len(disk[b]) /\ disk[a][n + 1] = disk[b][n + 1]
          /\ Pos("src") = n + 1 /\ Pos("dst") = n + 1
      BY <2>2, <2>3, <2>9, <1>7
    <3>2. n + 1 <= Len(disk[a]) /\ n + 1 <= Len(disk[b]) BY <3>1, <2>5
    <3>3. \A i \in 1 .. n + 1 : i \in 1 .. n \/ i = n + 1 OBVIOUS
    <3>4. Agree(n + 1) BY <3>1, <3>2, <3>3, <2>7, <1>2 DEF Agree
    <3>5. Pos("src")' = n + 1 /\ Pos("dst")' = n + 1 BY <3>1, <1>1 DEF Pos
    <3>6. Agree(n + 1)' BY <3>4, <1>1 DEF Agree
    <3>7. ret' # "same" BY <2>9, <1>4
    <3> QED BY <3>5, <3>6, <3>7, <2>9, <1>3, <1>5 DEF ContrastOK, ContrastFiles
  <2> QED BY <2>8, <2>9, <1>7
<1> QED BY <1>1, <1>4, <1>6, <1>7

\* A close after a failed read keeps the error in the buffer, so that no result
\* is "same" on account of it, and changes no file.
LEMMA ContrastCloses == ASSUME Core, Core', ContrastOK, ContrastClose PROVE ContrastOK'
<1>1. UNCHANGED <<cmd, buf, ret>> BY DEF ContrastClose
<1>2. PICK x \in Side, next \in {"readB", "compare", "closeB", "idle"} :
        /\ CloseTo(x, next)
        /\ \/ pc = "readCloseA" /\ x = "src" /\ next = "readB"
           \/ pc = "readCloseB" /\ x = "dst" /\ next = "compare"
           \/ pc = "closeA" /\ x = "src" /\ next = "closeB"
           \/ pc = "closeB" /\ x = "dst" /\ next = "idle"
  BY Zenon DEF ContrastClose, Side
<1>3. Closing(x, next) BY <1>2, CloseEffect
<1>4. pc' \in {next, "hung"} BY Zenon, <1>3 DEF Closing
<1>5. PICK a, b : a = cmd.a /\ b = cmd.b OBVIOUS
<1>6. cmd'.a = a /\ cmd'.b = b BY <1>1, <1>5
<1>7. Unwritten("src", a) /\ Unwritten("dst", b)
  BY <1>2, <1>5 DEF ContrastOK, ContrastFiles, ContrastCalls
<1>8. disk' = disk BY <1>2, <1>3, <1>7, CloseKeeps DEF Side
<1>9. \A y \in Side : \A p : Unwritten(y, p) => Unwritten(y, p)'
  <2>1. /\ fd'[x] \in {Closed, fd[x]} /\ (fd'[x] # Closed => desc' = desc)
        /\ \A y \in Side \ {x} : fd'[y] = fd[y] /\ (fd[y] # Closed => desc'[fd[y]] = desc[fd[y]])
    BY <1>2, <1>3, CloseKeeps
  <2> QED BY <2>1, <1>8 DEF Unwritten
<1>10. Unwritten("src", a)' /\ Unwritten("dst", b)' BY <1>7, <1>9 DEF Side
<1>11. ret' = "same" => disk'[a] = disk'[b] BY <1>1, <1>5, <1>8 DEF ContrastOK
<1>12. CASE pc' = "readB"
  <2>1. buf'["src"] = Err BY <1>1, <1>2, <1>4, <1>12 DEF ContrastOK
  <2> QED BY <2>1, <1>6, <1>10, <1>11, <1>12 DEF ContrastOK, ContrastFiles
<1>13. CASE pc' = "compare"
  <2>1. buf'["dst"] = Err BY <1>1, <1>2, <1>4, <1>13 DEF ContrastOK
  <2> QED BY <2>1, <1>6, <1>10, <1>11, <1>13 DEF ContrastOK, ContrastFiles
<1>14. CASE pc' \in {"closeB", "idle", "hung"}
  BY <1>6, <1>10, <1>11, <1>14 DEF ContrastOK, ContrastFiles
<1> QED BY <1>4, <1>12, <1>13, <1>14

\* The calls of copy_file are its own, and it changes no command.
LEMMA CopyCallsOnly ==
  CopyOpenSrc \/ CopyOpenDst \/ CopyRead \/ CopyReadDone \/ CopyWrite \/ CopyWriteClose
    \/ CopyReopen \/ CopyCloseSrc \/ CopyCloseDst \/ CopyFail
  => pc \in CopyCalls /\ cmd' = cmd
BY DEF CopyCalls, CopyOpenSrc, CopyOpenDst, CopyRead, CopyReadDone, CopyWrite, CopyWriteClose,
       CopyReopen, CopyCloseSrc, CopyCloseDst, CopyFail

\* ContrastOK is inductive relative to Core.
LEMMA ContrastStep == Core /\ Core' /\ ContrastOK /\ [Next]_vars => ContrastOK'
<1> SUFFICES ASSUME Core, Core', ContrastOK, [Next]_vars PROVE ContrastOK' OBVIOUS
<1>1. CASE UNCHANGED vars
  BY <1>1 DEF vars, ContrastOK, ContrastFiles, Unwritten, Readable, Pos, Agree, HasRead
<1>2. CASE ContrastOpen BY <1>2, ContrastOpens
<1>3. CASE ContrastRead BY <1>3, ContrastReads
<1>4. CASE Contrast BY <1>4, ContrastCompares
<1>5. CASE ContrastClose BY <1>5, ContrastCloses
<1>6. CASE pc' \notin ContrastCalls /\ ret' # "same"
  BY <1>6 DEF ContrastOK, ContrastFiles, ContrastCalls
<1>7. CASE Start
  <2>1. pc' \in {"openSrc", "openA", "rm"} /\ ret' # "same"
    BY <1>7, SdFileAssumption DEF Start, None
  <2> QED BY <2>1 DEF ContrastOK, ContrastFiles, ContrastCalls
<1>8. CASE Reset
  <2>1. pc' = "idle" /\ ret' # "same" BY <1>8 DEF Reset, None
  <2> QED BY <2>1, <1>6 DEF ContrastCalls
<1>9. CASE Remove
  <2>1. pc' = "idle" /\ ret' # "same" BY <1>9 DEF Remove, Return
  <2> QED BY <2>1, <1>6 DEF ContrastCalls
<1>10. ASSUME CopyOpenSrc \/ CopyOpenDst \/ CopyRead \/ CopyReadDone \/ CopyWrite
         \/ CopyWriteClose \/ CopyReopen \/ CopyCloseSrc \/ CopyCloseDst \/ CopyFail
       PROVE pc' \notin ContrastCalls /\ ret' # "same"
  <2>1. pc \in CopyCalls BY <1>10, CopyCallsOnly
  <2>2. cmd' = cmd /\ cmd.op = "copy" BY <1>10, <2>1, CopyCallsOnly DEF Core, CommandOK
  <2>3. cmd'.op # "contrast" BY <2>2
  <2> QED BY <2>3 DEF Core, CommandOK
<1>11. CASE Step BY <1>2, <1>3, <1>4, <1>5, <1>6, <1>9, <1>10, <1>11 DEF Step
<1> QED BY <1>1, <1>7, <1>8, <1>11 DEF Next

\* file_contrast reports equal contents only for equal files, whatever reads, opens
\* and closes fail and whatever the commands before it left open.
THEOREM ContrastCorrect == Spec => []ContrastSound
<1>1. ASSUME Init PROVE Core /\ ContrastOK
  <2>1. pc = "idle" /\ ret # "same" BY <1>1 DEF Init, None
  <2> QED BY <2>1, <1>1, CoreInit DEF ContrastOK, ContrastFiles, ContrastCalls
<1>2. Core /\ ContrastOK /\ [Next]_vars => (Core /\ ContrastOK)' BY CoreStep, ContrastStep
<1>3. ContrastOK => ContrastSound BY DEF ContrastOK, ContrastSound
<1> QED BY <1>1, <1>2, <1>3, PTL DEF Spec
-----------------------------------------------------------------------------
(* copy_file to a path that did not exist. *)

\* What a call of copy_file leaves of its history: a failure is not forgotten.
LEMMA SoundBefore ==
  ASSUME fresh' = fresh, failed \subseteq failed', Sound' PROVE Sound /\ fresh /\ failed \subseteq {"read"}
BY DEF Sound

\* The destination holds the only FIL object of its file, and the only descriptor.
LEMMA OnlyDestination ==
  ASSUME Core, DestinationOK, Readable("dst"), pc # "idle" PROVE vnode[desc[fd["dst"]].path] = 1
<1>1. PICK k \in DOMAIN desc : k = fd["dst"] BY Held DEF Readable, Side
<1>2. PICK b : b = cmd.b OBVIOUS
<1>3. desc[k].path = b /\ \A j \in DOMAIN desc : desc[j].path = b => j = k
  BY <1>1, <1>2 DEF DestinationOK, Readable
<1>4. \A j \in DOMAIN desc : desc[j].path = b <=> j = k BY <1>3
<1>5. DescOK /\ FilesOK BY DEF Core, TablesOK
<1>6. Cardinality(On(b)) = 1 BY <1>4, <1>5, Counts
<1>7. b \in DOMAIN vnode BY <1>1, <1>3, <1>5 DEF FilesOK
<1>8. vnode[b] = Cardinality(On(b)) BY <1>5, <1>7 DEF FilesOK
<1> QED BY <1>1, <1>3, <1>6, <1>8

\* file_close of the destination loses nothing of it: the FIL object is its own.
LEMMA CloseDestination ==
  ASSUME Core, pc # "idle", TargetOK, NEW next, Closing("dst", next), "close" \notin failed',
         UNCHANGED cmd
  PROVE  disk' = disk /\ TargetOK'
<1>1. /\ fd'["dst"] \in {Closed, fd["dst"]} /\ (fd'["dst"] # Closed => desc' = desc)
  BY CloseKeeps DEF Side
<1>2. DestinationOK BY DEF TargetOK
<1>3. disk' = disk
  <2>1. CASE disk' # disk
    <3>1. /\ fd["dst"] # Closed /\ disk' = Stale(desc[fd["dst"]]) /\ desc[fd["dst"]].fil
          /\ vnode[desc[fd["dst"]].path] > 1 \/ ~desc[fd["dst"]].mod
      BY Zenon, <2>1 DEF Closing
    <3>2. vnode[desc[fd["dst"]].path] = 1 BY <1>2, <3>1, OnlyDestination DEF Readable
    <3>3. ~desc[fd["dst"]].mod BY <3>1, <3>2
    <3>4. desc[fd["dst"]].path = cmd.b /\ desc[fd["dst"]].entry >= Len(disk[cmd.b])
      BY <1>2, <3>1, <3>3 DEF DestinationOK
    <3>5. Unwritten("dst", cmd.b) BY <3>3, <3>4 DEF Unwritten
    <3>6. disk' = disk BY <3>5, CloseKeeps DEF Side
    <3> QED BY <3>6
  <2> QED BY <2>1
<1>4. DestinationOK' BY <1>1, <1>2, <1>3 DEF DestinationOK, Pos
<1> QED BY <1>3, <1>4 DEF TargetOK

\* The source exists, the destination does not: they are two files.
LEMMA CopyOpensSrc == ASSUME Core, CopyOK, CopyOpenSrc PROVE CopyOK'
<1>1. pc = "openSrc" /\ UNCHANGED <<cmd, fresh, failed>> BY DEF CopyOpenSrc, hist
<1>2. PICK a \in Path : a = cmd.a BY <1>1, PathsOK DEF Core, CommandOK, CopyCalls
<1>3. \/ OpenOk("src", a, FALSE, FALSE) /\ pc' = "openDst"
      \/ pc' = "idle" /\ ret' = "fail"
  BY <1>2 DEF CopyOpenSrc, Return
<1>4. CASE OpenOk("src", a, FALSE, FALSE) /\ pc' = "openDst"
  <2>1. PICK k : Opened("src", a, k, FALSE) BY <1>4, OpenEffect DEF Core, Side
  <2>2. a \in DOMAIN disk BY <1>4 DEF OpenOk
  <2>3. DOMAIN disk' = DOMAIN disk BY <2>1, <2>2 DEF Opened
  <2>4. fd'["src"] = k /\ k # Closed /\ Unwritten("src", a)' BY <1>1, <2>1, <2>2, OpenKeeps DEF Side
  <2>5. Pos("src")' = 0 BY <2>1, <2>4 DEF Opened, Pos
  <2>6. fresh => cmd.b \notin DOMAIN disk BY <1>1 DEF CopyOK
  <2>7. Sound' => SourceOK' BY <1>1, <1>2, <2>2, <2>3, <2>4, <2>6 DEF Sound, SourceOK
  <2> QED BY <1>1, <1>4, <2>3, <2>4, <2>5, <2>6, <2>7 DEF CopyOK, Looping, FreshCopy
<1>5. CASE pc' = "idle" /\ ret' = "fail" BY <1>5 DEF CopyOK, Looping, FreshCopy
<1> QED BY <1>3, <1>4, <1>5

\* A destination that is created has a FIL object, alone, and nothing in it.
LEMMA CopyOpensDst == ASSUME Core, CopyOK, CopyOpenDst PROVE CopyOK'
<1>1. pc = "openDst" /\ UNCHANGED <<cmd, fresh, failed>> BY DEF CopyOpenDst, hist
<1>2. PICK a \in Path, b \in Path : a = cmd.a /\ b = cmd.b
  BY <1>1, PathsOK DEF Core, CommandOK, CopyCalls
<1>3. \/ OpenOk("dst", b, TRUE, FALSE) /\ pc' = "read"
      \/ pc' = "failClose"
  BY <1>2 DEF CopyOpenDst
<1>4. CASE OpenOk("dst", b, TRUE, FALSE) /\ pc' = "read"
  <2>1. PICK k : Opened("dst", b, k, FALSE) BY <1>4, OpenEffect DEF Core, Side
  <2>2. fd["src"] # Closed /\ Pos("src") = 0 BY <1>1 DEF CopyOK
  <2>3. /\ fd'["dst"] = k /\ k # Closed
        /\ fd'["src"] = fd["src"] /\ desc'[fd["src"]] = desc[fd["src"]]
        /\ Unwritten("src", a) => Unwritten("src", a)'
    BY <1>1, <2>1, <2>2, OpenKeeps DEF Side
  <2>4. Pos("src")' = 0 BY <2>2, <2>3 DEF Pos
  <2>5. ASSUME Sound' PROVE SourceOK' /\ TargetOK' /\ Copied(0)'
    <3>1. Sound /\ fresh BY <1>1, <2>5 DEF Sound
    <3>2. b \notin DOMAIN disk /\ a \in DOMAIN disk /\ a # b /\ Unwritten("src", a)
      BY <1>1, <1>2, <3>1 DEF CopyOK, SourceOK
    <3>3. DOMAIN disk' = DOMAIN disk \cup {b} /\ disk'[b] = << >> /\ disk'[a] = disk[a]
      BY <2>1, <3>2 DEF Opened
    <3>4. DestinationOK'
      <4>1. desc'[k].path = b /\ desc'[k].pos = 0 /\ desc'[k].entry = Len(disk'[b])
        BY <2>1, <3>2 DEF Opened
      <4>2. Len(disk'[b]) = 0 BY <3>3, Contents
      <4>3. \A j \in DOMAIN desc : desc'[j].path # b BY <1>1, <2>1, <3>2, Held DEF Opened
      <4>4. \A j \in DOMAIN desc' : desc'[j].path = b => j = k BY <2>1, <4>3 DEF Opened
      <4> QED BY <1>1, <1>2, <2>3, <4>1, <4>2, <4>4 DEF DestinationOK, Pos
    <3>5. disk[a] \in Content BY <3>2 DEF Core, TablesOK, DiskOK
    <3>6. Copied(0)' BY <1>1, <1>2, <3>3, <3>5, Contents DEF Copied
    <3> QED BY <1>1, <1>2, <2>3, <3>2, <3>3, <3>4, <3>6 DEF SourceOK, TargetOK
  <2> QED BY <1>4, <2>2, <2>3, <2>4, <2>5 DEF CopyOK, Looping, FreshCopy
<1>5. CASE pc' = "failClose" BY <1>5 DEF CopyOK, Looping, FreshCopy
<1> QED BY <1>3, <1>4, <1>5

\* A reopened destination is written at its end, if it has a FIL object at all.
LEMMA CopyReopens == ASSUME Core, CopyOK, CopyReopen PROVE CopyOK'
<1>1. pc = "reopen" /\ pc' = "write" /\ UNCHANGED <<cmd, buf, fresh, failed>> BY DEF CopyReopen, hist
<1>2. PICK a \in Path, b \in Path : a = cmd.a /\ b = cmd.b
  BY <1>1, PathsOK DEF Core, CommandOK, CopyCalls
<1>3. OpenOk("dst", b, FALSE, TRUE) \/ OpenFails("dst", b, FALSE) BY <1>2 DEF CopyReopen
<1>4. fd["src"] # Closed BY <1>1 DEF CopyOK, Looping
<1>5. Sound' => Sound BY <1>1 DEF Sound
<1>6. Sound => SourceOK /\ TargetOK /\ InHand BY <1>1 DEF CopyOK, Looping
<1>7. CASE OpenOk("dst", b, FALSE, TRUE)
  <2>1. PICK k : Opened("dst", b, k, TRUE) BY <1>7, OpenEffect DEF Core, Side
  <2>2. b \in DOMAIN disk BY <1>7 DEF OpenOk
  <2>3. DOMAIN disk' = DOMAIN disk /\ \A q \in DOMAIN disk : disk'[q] = disk[q]
    BY <2>1, <2>2 DEF Opened
  <2>4. /\ fd'["dst"] = k /\ k # Closed /\ Unwritten("dst", b)'
        /\ fd'["src"] = fd["src"] /\ desc'[fd["src"]] = desc[fd["src"]]
        /\ Unwritten("src", a) => Unwritten("src", a)'
    BY <1>1, <1>4, <2>1, <2>2, OpenKeeps DEF Side
  <2>5. Pos("src")' = Pos("src") BY <2>4 DEF Pos
  <2>6. DestinationOK'
    <3>1. desc'[k].path = b /\ desc'[k].entry = Len(disk'[b]) /\ disk'[b] = disk[b]
      BY <2>1, <2>2 DEF Opened
    <3>2. Len(disk'[b]) \in Nat BY <1>1, <2>1, OpenKeeps DEF Side
    <3>3. ASSUME desc'[k].fil
          PROVE  desc'[k].pos = Len(disk'[b]) /\ \A j \in DOMAIN desc' : desc'[j].path = b => j = k
      <4>1. b \notin DOMAIN vnode BY <2>1, <3>3 DEF Opened
      <4>2. desc'[k].pos = Len(disk'[b]) BY <2>1, <2>2, <3>1, <4>1 DEF Opened
      <4>3. \A j \in DOMAIN desc : desc'[j].path # b
        BY <2>1, <4>1 DEF Opened, Core, TablesOK, FilesOK
      <4> QED BY <2>1, <4>2, <4>3 DEF Opened
    <3> QED BY <1>1, <1>2, <2>4, <3>1, <3>2, <3>3 DEF DestinationOK, Pos
  <2>7. ASSUME Sound PROVE SourceOK' /\ TargetOK' /\ InHand'
    <3>1. SourceOK /\ TargetOK /\ InHand BY <1>6, <2>7
    <3>2. SourceOK' BY <3>1, <1>1, <1>2, <2>3, <2>4 DEF SourceOK
    <3>3. TargetOK' BY <3>1, <1>1, <2>3, <2>6 DEF TargetOK
    <3>4. disk'[a] = disk[a] /\ disk'[b] = disk[b] BY <3>1, <1>2, <2>3 DEF TargetOK
    <3>5. InHand' BY <3>1, <3>4, <1>1, <1>2, <2>5 DEF InHand, Copied
    <3> QED BY <3>2, <3>3, <3>5
  <2> QED BY <1>1, <1>4, <1>5, <2>4, <2>7 DEF CopyOK, Looping, FreshCopy
<1>8. CASE OpenFails("dst", b, FALSE)
  <2>1. disk' = disk /\ desc' = desc /\ fd'["dst"] = Closed /\ fd'["src"] = fd["src"]
    BY <1>8 DEF OpenFails, Core, FdsOK, Side, files
  <2>2. SourceOK' <=> SourceOK BY <1>1, <2>1 DEF SourceOK, Unwritten
  <2>3. TargetOK => TargetOK' BY <1>1, <2>1 DEF TargetOK, DestinationOK
  <2>4. InHand' <=> InHand BY <1>1, <2>1 DEF InHand, Copied, Pos
  <2> QED BY <1>1, <1>4, <1>5, <1>6, <2>1, <2>2, <2>3, <2>4 DEF CopyOK, Looping, FreshCopy
<1> QED BY <1>3, <1>7, <1>8

\* A read takes the next chunk of the source or meets its end.
LEMMA CopyReads == ASSUME Core, CopyOK, CopyRead PROVE CopyOK'
<1>1. pc = "read" /\ UNCHANGED <<disk, cmd, fd, fresh>> BY DEF CopyRead, files
<1>2. Reading("src", "readDone", "readClose") BY ReadEffect DEF CopyRead, Side
<1>3. /\ pc' \in {"read", "readDone", "readClose", "hung"}
      /\ failed \subseteq failed' /\ (pc' = "readClose" => "read" \in failed')
  BY Zenon, <1>1, <1>2 DEF Reading
<1>4. fd["src"] # Closed BY <1>1 DEF CopyOK, Looping
<1>5. ASSUME Sound', pc' # "hung"
      PROVE  /\ SourceOK' /\ TargetOK'
             /\ pc' \in {"read", "readClose"} => Copied(Pos("src"))'
             /\ pc' = "readDone" =>
                  \/ buf'["src"] = Eof /\ Copied(Pos("src"))' /\ Pos("src")' = Len(disk'[cmd'.a])
                  \/ buf'["src"] \in Chunk \cup {Torn} /\ InHand'
  <2>1. Sound BY <1>1, <1>3, <1>5, SoundBefore
  <2>2. SourceOK /\ TargetOK /\ Copied(Pos("src")) BY <1>1, <2>1 DEF CopyOK, Looping
  <2>3. PICK a, b : a = cmd.a /\ b = cmd.b OBVIOUS
  <2>4. cmd'.a = a /\ cmd'.b = b BY <1>1, <2>3
  <2>5. /\ Unwritten("src", a)' /\ DOMAIN desc' = DOMAIN desc
        /\ \A k \in DOMAIN desc : desc'[k].path = desc[k].path
        /\ fd["dst"] # Closed => desc'[fd["dst"]] = desc[fd["dst"]]
    BY <1>1, <1>2, <2>2, <2>3, ReadKeeps DEF SourceOK, Side
  <2>6. SourceOK' BY <1>1, <2>2, <2>3, <2>4, <2>5 DEF SourceOK
  <2>7. TargetOK' BY <1>1, <2>2, <2>3, <2>4, <2>5 DEF TargetOK, DestinationOK, Pos
  <2>8. desc[fd["src"]].path = a BY <1>4, <2>2, <2>3 DEF SourceOK, Unwritten
  <2>9. PICK n \in Nat : n = Pos("src") BY <1>1, <1>4, Held DEF Pos, Side
  <2>10. Copied(n) BY <2>2, <2>9
  <2>11. Copied(n)' BY <1>1, <2>10 DEF Copied
  <2>12. \/ /\ pc' = "readDone" /\ n < Len(disk[a])
            /\ buf'["src"] = disk[a][n + 1] /\ Pos("src")' = n + 1
         \/ pc' = "readDone" /\ n = Len(disk[a]) /\ buf'["src"] = Eof /\ Pos("src")' = n
         \/ pc' = "read" /\ Pos("src")' = n
         \/ pc' = "readClose" /\ Pos("src")' = n
    BY <1>1, <1>2, <1>4, <1>5, <2>8, <2>9, ReadGets DEF Side
  <2>13. CASE /\ pc' = "readDone" /\ n < Len(disk[a])
              /\ buf'["src"] = disk[a][n + 1] /\ Pos("src")' = n + 1
    <3>1. disk[a] \in Content BY <2>2, <2>3 DEF SourceOK, Core, TablesOK, DiskOK
    <3>2. n + 1 \in 1 .. Len(disk[a]) BY <2>13, <3>1, Contents
    <3>3. buf'["src"] \in Chunk \cup {Torn} BY <2>13, <3>1, <3>2, Contents
    <3>4. Copied(Pos("src") - 1)' BY <2>11, <2>13
    <3>5. InHand' BY <1>1, <2>4, <2>13, <3>4 DEF InHand
    <3> QED BY <2>6, <2>7, <2>13, <3>3, <3>5
  <2>14. CASE pc' = "readDone" /\ n = Len(disk[a]) /\ buf'["src"] = Eof /\ Pos("src")' = n
    BY <1>1, <2>4, <2>6, <2>7, <2>11, <2>14
  <2>15. CASE pc' \in {"read", "readClose"} /\ Pos("src")' = n
    BY <2>6, <2>7, <2>11, <2>15
  <2> QED BY <2>12, <2>13, <2>14, <2>15
<1> QED BY <1>1, <1>3, <1>4, <1>5 DEF CopyOK, Looping, FreshCopy

\* The loop goes on with a chunk in hand; it ends at the end of the source, and on
\* a failed read, which a copy with its source open meets as readClose.
LEMMA CopyReadsDone == ASSUME Core, CopyOK, CopyReadDone PROVE CopyOK'
<1>1. /\ pc = "readDone" /\ UNCHANGED <<disk, desc, cmd, fd, buf, ret, fresh, failed>>
      /\ pc' = (CASE buf["src"] = Eof -> "closeSrc" [] buf["src"] = Err -> "closeDst" [] OTHER -> "write")
  BY DEF CopyReadDone, files, tables, hist
<1>2. /\ pc' \in {"closeSrc", "closeDst", "write"}
      /\ pc' = "closeSrc" => buf["src"] = Eof
      /\ pc' = "closeDst" => buf["src"] = Err
      /\ pc' = "write" => buf["src"] # Eof
  BY <1>1 DEF Eof, Err
<1>3. fd["src"] # Closed BY <1>1 DEF CopyOK, Looping
<1>4. ASSUME Sound'
      PROVE  /\ SourceOK' /\ TargetOK'
             /\ pc' \in {"closeSrc", "closeDst"} => Done'
             /\ pc' = "write" => InHand'
  <2>1. Sound BY <1>1, <1>4 DEF Sound
  <2>2. /\ SourceOK /\ TargetOK
        /\ \/ buf["src"] = Eof /\ Copied(Pos("src")) /\ Pos("src") = Len(disk[cmd.a])
           \/ buf["src"] \in Chunk \cup {Torn} /\ InHand
    BY <1>1, <2>1 DEF CopyOK, Looping
  <2>3. Eof \notin Chunk \cup {Torn} /\ Err \notin Chunk \cup {Torn} /\ Eof # Err
    BY SdFileAssumption DEF Eof, Err, Torn
  <2>4. SourceOK' /\ TargetOK'
    BY <1>1, <2>2 DEF SourceOK, Unwritten, TargetOK, DestinationOK, Pos
  <2>5. pc' # "closeDst" BY <1>2, <2>2, <2>3
  <2>6. pc' = "write" => InHand' BY <1>1, <1>2, <2>2 DEF InHand, Copied, Pos
  <2>7. ASSUME pc' = "closeSrc" PROVE Done'
    <3>1. Copied(Pos("src")) /\ Pos("src") = Len(disk[cmd.a]) BY <1>2, <2>2, <2>3, <2>7
    <3>2. PICK n \in Nat : n = Pos("src") BY <1>1, <1>3, Held DEF Pos, Side
    <3>3. Copied(n) /\ n = Len(disk[cmd.a]) BY <3>1, <3>2
    <3>4. Copied(n)' /\ n = Len(disk'[cmd'.a]) BY <1>1, <3>3 DEF Copied
    <3> QED BY <1>1, <2>2, <3>4 DEF Done, TargetOK
  <2> QED BY <1>2, <2>4, <2>5, <2>6, <2>7
<1> QED BY <1>1, <1>2, <1>3, <1>4 DEF CopyOK, Looping, FreshCopy

\* A chunk more.
LEMMA Appended ==
  ASSUME NEW s \in Content, NEW c \in Chunk \cup {Torn}
  PROVE  /\ Len(Append(s, c)) = Len(s) + 1
         /\ \A i \in 1 .. Len(s) : Append(s, c)[i] = s[i]
         /\ Append(s, c)[Len(s) + 1] = c
BY DEF Content

\* A chunk in hand that goes to the end of the destination is one more copied.
LEMMA CopyGrows ==
  ASSUME Core, pc = "write", SourceOK, TargetOK, InHand, fd["src"] # Closed, Readable("dst"),
         Fits(fd["dst"]), Placed(fd["dst"], buf["src"]), UNCHANGED <<cmd, fd, buf>>,
         desc' = [desc EXCEPT ![fd["dst"]].pos = @ + 1, ![fd["dst"]].mod = TRUE]
  PROVE  SourceOK' /\ TargetOK' /\ Copied(Pos("src"))'
<1>1. PICK a, b : a = cmd.a /\ b = cmd.b OBVIOUS
<1>2. cmd'.a = a /\ cmd'.b = b BY <1>1
<1>3. PICK k \in DOMAIN desc : k = fd["dst"] BY Held DEF Readable, Side
<1>4. PICK j \in DOMAIN desc : j = fd["src"] BY Held DEF Side
<1>5. j # k BY <1>3, <1>4, Held DEF Side
<1>6. Touched(k) /\ desc'[k].pos = desc[k].pos + 1 /\ desc'[k].mod
  BY <1>3, Fields DEF Core, TablesOK, DescOK
<1>7. /\ DOMAIN desc' = DOMAIN desc /\ desc'[j] = desc[j]
      /\ \A i \in DOMAIN desc : desc'[i].path = desc[i].path
      /\ desc'[k].fil = desc[k].fil
  BY <1>5, <1>6 DEF Touched
<1>8. /\ desc[k].path = b /\ desc[k].fil /\ desc[k].pos = Len(disk[b])
      /\ \A i \in DOMAIN desc : desc[i].path = b => i = k
  BY <1>1, <1>3 DEF TargetOK, DestinationOK, Readable, Pos
<1>9. a # b /\ a \in DOMAIN disk /\ b \in DOMAIN disk BY <1>1 DEF TargetOK
<1>10. buf["src"] \in Chunk \cup {Torn} BY DEF Core, CommandOK
<1>11. PICK c \in Chunk \cup {Torn} : c = buf["src"] BY <1>10
<1>12. /\ DOMAIN disk' = DOMAIN disk /\ disk'[a] = disk[a]
       /\ disk'[b] = Append(disk[b], c)
  BY <1>3, <1>8, <1>9, <1>11, PlacedDisk DEF Core, Growing
<1>13. disk[b] \in Content /\ disk[a] \in Content BY <1>9 DEF Core, TablesOK, DiskOK
<1>14. PICK n \in Nat : n = Len(disk[b]) BY <1>13, Contents
<1>15. /\ Len(disk'[b]) = n + 1 /\ disk'[b][n + 1] = c
       /\ \A i \in 1 .. n : disk'[b][i] = disk[b][i]
  BY <1>12, <1>13, <1>14, Appended
<1>16. SourceOK'
  <2>1. Unwritten("src", a)' BY <1>1, <1>4, <1>7, <1>12 DEF SourceOK, Unwritten
  <2> QED BY <2>1, <1>2, <1>9, <1>12 DEF SourceOK
<1>17. TargetOK'
  <2>1. DestinationOK' BY ZenonT(40), <1>2, <1>3, <1>6, <1>7, <1>8, <1>14, <1>15 DEF DestinationOK, Pos
  <2> QED BY <2>1, <1>2, <1>9, <1>12 DEF TargetOK
<1>18. PICK m \in Nat : m = desc[j].pos BY <1>4, Held
<1>19. Pos("src") = m /\ Pos("src")' = m BY <1>4, <1>7, <1>18 DEF Pos
<1>20. m - 1 = n /\ c = disk[a][m] /\ \A i \in 1 .. n : disk[b][i] = disk[a][i]
  BY <1>1, <1>11, <1>14, <1>19 DEF InHand, Copied
<1>21. m <= Len(disk[a])
  <2>1. desc[j].path = a BY <1>1, <1>4 DEF SourceOK, Unwritten
  <2> QED BY <2>1, <1>4, <1>18, Held
<1>22. m = n + 1 BY <1>18, <1>14, <1>20
<1>23. \A i \in 1 .. m : i \in 1 .. n \/ i = m BY <1>22
<1>24. \A i \in 1 .. m : disk'[b][i] = disk'[a][i] BY <1>12, <1>15, <1>20, <1>22, <1>23
<1>25. Copied(m)' BY <1>2, <1>12, <1>15, <1>21, <1>22, <1>24 DEF Copied
<1> QED BY <1>16, <1>17, <1>19, <1>25

\* A write appends the chunk or leaves the destination as it was, but for a torn
\* one, which is among the failures.
LEMMA CopyWrites == ASSUME Core, CopyOK, CopyWrite PROVE CopyOK'
<1>1. pc = "write" /\ Writing /\ UNCHANGED <<cmd, fd, buf, fresh>> BY WriteEffect
<1>2. fd["src"] # Closed BY <1>1 DEF CopyOK, Looping
<1>3. /\ pc' \in {"hung", "read", "reopen", "failClose", "writeClose"}
      /\ failed' = failed \/ failed' = failed \cup {"torn"}
  <2>1. WriteRefused => pc' \in {"reopen", "failClose"} BY DEF WriteRefused
  <2> QED BY Zenon, <1>1, <2>1 DEF Writing, Wrote
<1>4. ASSUME Sound', pc' # "hung"
      PROVE  /\ SourceOK' /\ TargetOK'
             /\ pc' = "read" => Copied(Pos("src"))'
             /\ pc' \in {"reopen", "writeClose"} => InHand'
  <2>1. Sound BY <1>1, <1>3, <1>4, SoundBefore
  <2>2. SourceOK /\ TargetOK /\ InHand BY <1>1, <2>1 DEF CopyOK, Looping
  <2>3. "torn" \notin failed' BY <1>4 DEF Sound
  <2>4. CASE Readable("dst") /\ Fits(fd["dst"]) /\ Placed(fd["dst"], buf["src"]) /\ pc' = "read"
             /\ desc' = [desc EXCEPT ![fd["dst"]].pos = @ + 1, ![fd["dst"]].mod = TRUE]
    <3>1. SourceOK' /\ TargetOK' /\ Copied(Pos("src"))' BY <1>1, <1>2, <2>2, <2>4, CopyGrows
    <3> QED BY <3>1, <2>4
  <2>5. CASE /\ pc' # "read" /\ disk' = disk
             /\ \/ desc' = desc
                \/ /\ Readable("dst")
                   /\ \/ desc' = [desc EXCEPT ![fd["dst"]].mod = TRUE]
                      \/ desc' = [desc EXCEPT ![fd["dst"]].err = TRUE]
    <3>1. CASE desc' = desc
      <4>1. SourceOK' /\ TargetOK' /\ InHand'
        BY <1>1, <2>2, <2>5, <3>1
        DEF SourceOK, Unwritten, TargetOK, DestinationOK, InHand, Copied, Pos
      <4> QED BY <4>1, <2>5
    <3>2. CASE /\ Readable("dst")
               /\ \/ desc' = [desc EXCEPT ![fd["dst"]].mod = TRUE]
                  \/ desc' = [desc EXCEPT ![fd["dst"]].err = TRUE]
      <4>1. PICK k \in DOMAIN desc : k = fd["dst"] BY <1>1, <3>2, Held DEF Readable, Side
      <4>2. PICK j \in DOMAIN desc : j = fd["src"] BY <1>1, <1>2, Held DEF Side
      <4>3. j # k BY <1>1, <1>2, <4>1, <4>2, Held DEF Side
      <4>4. Touched(k) /\ desc'[k].pos = desc[k].pos /\ (desc'[k].mod \/ desc'[k].mod = desc[k].mod)
        BY <3>2, <4>1, Fields DEF Core, TablesOK, DescOK
      <4>5. /\ DOMAIN desc' = DOMAIN desc /\ desc'[j] = desc[j]
            /\ \A i \in DOMAIN desc : desc'[i].path = desc[i].path
            /\ desc'[k].fil = desc[k].fil /\ desc'[k].entry = desc[k].entry
        BY <4>3, <4>4 DEF Touched
      <4>6. SourceOK' BY <1>1, <2>2, <2>5, <4>2, <4>5 DEF SourceOK, Unwritten
      <4>7. TargetOK'
        BY <1>1, <2>2, <2>5, <4>1, <4>4, <4>5 DEF TargetOK, DestinationOK, Pos
      <4>8. InHand' BY <1>1, <2>2, <2>5, <4>2, <4>5 DEF InHand, Copied, Pos
      <4> QED BY <4>6, <4>7, <4>8, <2>5
    <3> QED BY <3>1, <3>2, <2>5
  <2>6. WriteRefused => pc' # "read" BY DEF WriteRefused
  <2>7. failed' # failed \cup {"torn"} BY <2>3
  <2>8. Wrote => disk' = disk BY DEF Wrote
  <2> QED BY Zenon, <1>1, <1>4, <2>4, <2>5, <2>6, <2>7, <2>8 DEF Writing
<1> QED BY <1>1, <1>2, <1>3, <1>4 DEF CopyOK, Looping, FreshCopy

\* What the closes of copy_file have in common.
LEMMA CopyClosing ==
  ASSUME NEW x \in Side, NEW next, Closing(x, next), fresh' = fresh
  PROVE  /\ pc' \in {next, "hung"} /\ failed \subseteq failed'
         /\ Sound' => Sound /\ failed' = failed /\ "close" \notin failed'
<1>1. pc' \in {next, "hung"} BY Zenon DEF Closing
<1>2. failed' = failed \/ failed' = failed \cup {"close"} BY Zenon DEF Closing
<1>3. failed \subseteq failed' BY <1>2
<1> QED BY <1>1, <1>2, <1>3 DEF Sound

\* The destination is closed whole, in the loop and behind it.
LEMMA CopyClosesDst == ASSUME Core, CopyOK, CopyWriteClose \/ CopyCloseDst PROVE CopyOK'
<1>1. UNCHANGED <<cmd, buf, fresh>> BY DEF CopyWriteClose, CopyCloseDst
<1>2. PICK next \in {"reopen", "failClose", "idle"} :
        /\ CloseTo("dst", next)
        /\ \/ pc = "writeClose" /\ next # "idle"
           \/ pc = "closeDst" /\ next = "idle"
  BY Zenon DEF CopyWriteClose, CopyCloseDst
<1>3. Closing("dst", next) BY <1>2, CloseEffect DEF Side
<1>4. /\ pc' \in {next, "hung"} /\ failed \subseteq failed'
      /\ Sound' => Sound /\ failed' = failed /\ "close" \notin failed'
  BY <1>1, <1>3, CopyClosing DEF Side
<1>5. /\ fd'["src"] = fd["src"] /\ (fd["src"] # Closed => desc'[fd["src"]] = desc[fd["src"]])
  BY <1>2, <1>3, CloseKeeps DEF Side
<1>6. CASE pc = "writeClose"
  <2>1. fd["src"] # Closed BY <1>6 DEF CopyOK, Looping
  <2>2. ASSUME Sound' PROVE SourceOK' /\ TargetOK' /\ InHand'
    <3>1. SourceOK /\ TargetOK /\ InHand BY <1>4, <1>6, <2>2 DEF CopyOK, Looping
    <3>2. disk' = disk /\ TargetOK' BY <1>1, <1>3, <1>4, <1>6, <2>2, <3>1, CloseDestination
    <3>3. SourceOK' BY <1>1, <1>5, <2>1, <3>1, <3>2 DEF SourceOK, Unwritten
    <3>4. InHand' BY <1>1, <1>5, <2>1, <3>1, <3>2 DEF InHand, Copied, Pos
    <3> QED BY <3>2, <3>3, <3>4
  <2> QED BY <1>2, <1>4, <1>5, <1>6, <2>1, <2>2 DEF CopyOK, Looping, FreshCopy
<1>7. CASE pc = "closeDst"
  <2>1. ASSUME Sound' PROVE Done'
    <3>1. TargetOK /\ Done BY <1>4, <1>7, <2>1 DEF CopyOK
    <3>2. disk' = disk BY <1>1, <1>3, <1>4, <1>7, <2>1, <3>1, CloseDestination
    <3> QED BY <1>1, <1>4, <2>1, <3>1, <3>2 DEF Done, Copied
  <2> QED BY <1>2, <1>4, <1>7, <2>1 DEF CopyOK, Looping, FreshCopy
<1> QED BY <1>2, <1>6, <1>7

\* A close of the source changes no file, and the loop has ended.
LEMMA CopyClosesSrc == ASSUME Core, CopyOK, CopyCloseSrc PROVE CopyOK'
<1>1. UNCHANGED <<cmd, buf, fresh>> /\ pc \in {"readClose", "closeSrc"} /\ CloseTo("src", "closeDst")
  BY DEF CopyCloseSrc
<1>2. Closing("src", "closeDst") BY <1>1, CloseEffect DEF Side
<1>3. /\ pc' \in {"closeDst", "hung"} /\ failed \subseteq failed'
      /\ Sound' => Sound /\ failed' = failed /\ "close" \notin failed'
  BY <1>1, <1>2, CopyClosing DEF Side
<1>4. ASSUME Sound' PROVE TargetOK' /\ Done'
  <2>1. SourceOK /\ TargetOK BY <1>1, <1>3, <1>4 DEF CopyOK, Looping
  <2>2. disk' = disk BY <1>1, <1>2, <2>1, CloseKeeps DEF SourceOK, Side
  <2>3. /\ fd'["dst"] = fd["dst"] /\ (fd["dst"] # Closed => desc'[fd["dst"]] = desc[fd["dst"]])
        /\ DOMAIN desc' \subseteq DOMAIN desc /\ \A k \in DOMAIN desc' : desc'[k] = desc[k]
    BY <1>1, <1>2, CloseKeeps DEF Side
  <2>4. TargetOK' BY <1>1, <2>1, <2>2, <2>3 DEF TargetOK, DestinationOK, Pos
  <2>5. Done
    <3>1. CASE pc = "closeSrc" BY <1>3, <1>4, <3>1 DEF CopyOK
    <3>2. CASE pc = "readClose"
      <4>1. fd["src"] # Closed /\ "read" \in failed /\ Copied(Pos("src"))
        BY <1>3, <1>4, <3>2 DEF CopyOK, Looping
      <4>2. Pos("src") \in Nat BY <3>2, <4>1, Held DEF Pos, Side
      <4> QED BY <2>1, <4>1, <4>2 DEF Done, TargetOK
    <3> QED BY <1>1, <3>1, <3>2
  <2>6. Done' BY <1>1, <1>3, <1>4, <2>2, <2>5 DEF Done, Copied
  <2> QED BY <2>4, <2>6
<1> QED BY <1>3, <1>4 DEF CopyOK, Looping, FreshCopy

\* A copy that fails promises nothing.
LEMMA CopyFails == ASSUME Core, CopyOK, CopyFail PROVE CopyOK'
<1>1. CloseTo("src", "idle") /\ fresh' = fresh /\ ret' = (IF pc' = "idle" THEN "fail" ELSE ret)
  BY DEF CopyFail
<1>2. pc' \in {"idle", "hung"} BY <1>1, CloseEffect, CopyClosing DEF Side
<1> QED BY <1>1, <1>2 DEF CopyOK, Looping, FreshCopy

\* The calls of the other commands, which change no command either.
LEMMA OtherCallsOnly ==
  ContrastOpen \/ ContrastRead \/ Contrast \/ ContrastClose \/ Remove
  => pc \in ContrastCalls \cup {"rm"} /\ cmd' = cmd
BY DEF ContrastCalls, ContrastOpen, ContrastRead, Contrast, ContrastClose, Remove

\* CopyOK is inductive relative to Core.
LEMMA CopyStep == Core /\ Core' /\ CopyOK /\ [Next]_vars => CopyOK'
<1> SUFFICES ASSUME Core, Core', CopyOK, [Next]_vars PROVE CopyOK' OBVIOUS
<1>1. CASE UNCHANGED vars
  BY <1>1
  DEF vars, CopyOK, Looping, Sound, SourceOK, TargetOK, DestinationOK, Unwritten, InHand, Done,
      Copied, FreshCopy, Pos
<1>2. CASE pc' \notin CopyCalls /\ ~FreshCopy'
  BY <1>2 DEF CopyOK, Looping, CopyCalls
<1>3. CASE Start
  <2>1. /\ pc' \in {"openSrc", "openA", "rm"} /\ disk' = disk
        /\ fresh' = (cmd'.b \notin DOMAIN disk)
    BY <1>3, SdFileAssumption DEF Start, files
  <2> QED BY <2>1 DEF CopyOK, Looping, FreshCopy
<1>4. CASE Reset
  <2>1. pc' = "idle" /\ ret' # "ok" BY <1>4 DEF Reset, None
  <2> QED BY <2>1, <1>2 DEF CopyCalls, FreshCopy
<1>5. CASE ContrastOpen \/ ContrastRead \/ Contrast \/ ContrastClose \/ Remove
  <2>1. cmd'.op # "copy" BY <1>5, OtherCallsOnly DEF Core, CommandOK, ContrastCalls
  <2> QED BY <2>1, <1>2 DEF Core, CommandOK, FreshCopy
<1>6. CASE Step
  BY <1>5, <1>6, CopyOpensSrc, CopyOpensDst, CopyReads, CopyReadsDone, CopyWrites, CopyClosesDst,
     CopyReopens, CopyClosesSrc, CopyFails
  DEF Step
<1> QED BY <1>1, <1>3, <1>4, <1>6 DEF Next

\* The inductive invariant of the system.
THEOREM Inductive == Spec => []IInv
<1>1. ASSUME Init PROVE IInv
  <2>1. Core BY <1>1, CoreInit
  <2>2. pc = "idle" /\ ret \notin {"same", "ok"} BY <1>1 DEF Init, None
  <2>3. ContrastOK BY <2>2 DEF ContrastOK, ContrastFiles, ContrastCalls
  <2>4. CopyOK BY <2>2 DEF CopyOK, Looping, FreshCopy
  <2> QED BY <2>1, <2>3, <2>4 DEF IInv
<1>2. IInv /\ [Next]_vars => IInv' BY CoreStep, ContrastStep, CopyStep DEF IInv
<1> QED BY <1>1, <1>2, PTL DEF Spec

\* The start of a file.
LEMMA Beginning ==
  ASSUME NEW s \in Content, NEW t \in Content, Len(t) <= Len(s), \A i \in 1 .. Len(t) : t[i] = s[i]
  PROVE  t = SubSeq(s, 1, Len(t))
BY DEF Content

\* A copy to a path that did not exist is exact when copy_file returns 0 and
\* nothing failed for good, and after a failed read it is the start of the source,
\* however many writes were refused and resumed behind a reopen.
THEOREM FreshCopyCorrect == Spec => []FreshCopyExact
<1>1. ASSUME IInv PROVE FreshCopyExact
  <2>1. ASSUME FreshCopy, failed \subseteq {"read"}
        PROVE  /\ failed = {} => disk[cmd.b] = disk[cmd.a]
               /\ disk[cmd.b] \in {SubSeq(disk[cmd.a], 1, k) : k \in 0 .. Len(disk[cmd.a])}
    <3>1. Done BY <1>1, <2>1 DEF IInv, CopyOK, Sound, FreshCopy
    <3>2. PICK n \in Nat : Copied(n) /\ (failed = {} => n = Len(disk[cmd.a])) BY <3>1 DEF Done
    <3>3. disk[cmd.a] \in Content /\ disk[cmd.b] \in Content
      BY <1>1, <3>1 DEF IInv, Core, TablesOK, DiskOK, Done
    <3>4. n = Len(disk[cmd.b]) /\ n <= Len(disk[cmd.a])
          /\ \A i \in 1 .. n : disk[cmd.b][i] = disk[cmd.a][i]
      BY <3>2 DEF Copied
    <3>5. failed = {} => disk[cmd.b] = disk[cmd.a] BY <3>2, <3>3, <3>4, AgreeToTheEnd
    <3>6. disk[cmd.b] = SubSeq(disk[cmd.a], 1, n) BY <3>3, <3>4, Beginning
    <3>7. n \in 0 .. Len(disk[cmd.a]) BY <3>3, <3>4, Contents
    <3> QED BY <3>5, <3>6, <3>7
  <2> QED BY <2>1 DEF FreshCopyExact
<1> QED BY <1>1, Inductive, PTL
====
