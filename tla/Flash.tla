-------------------------------- MODULE Flash --------------------------------
(***************************************************************************)
(* The on-chip flash: the partitions of FAL (fal_partition.c) over the     *)
(* driver (drv_flash_f4.c), with the two that use them, the release of a   *)
(* package (rb_fw_release in rtu_boot.c) and the shell command fal         *)
(* (fal_rtt.c).                                                            *)
(*                                                                         *)
(* Addresses are those of the chip, 32 bits wide (Modulus).  A byte is the *)
(* set of its bits that are one: programming only clears bits, erasing a   *)
(* sector sets them all.  A step is one sector erased or one word, half    *)
(* word or byte programmed and read back; each may fail (Fault), and power *)
(* may fail before or in the middle of it (Crash).                         *)
(***************************************************************************)
EXTENDS Integers, Sequences

CONSTANTS
  Sectors,   \* number of sectors
  Start,     \* Start[s]: first address of sector s; Start[Sectors]: end of the flash
  Modulus,   \* 2^32: addresses and sizes are unsigned
  Part,      \* the partition table: offset and length of each
  Bit,       \* the bits of a byte
  Image,     \* the packages to release, each a sequence of bytes
  FalCalls,  \* the erases and writes the operator asks for
  ChunkLen,  \* bytes released at a time
  MaxFault,  \* bound on SD and flash failures
  MaxCrash   \* bound on power losses

Flash  == Start[0] .. Start[Sectors] - 1
Byte   == SUBSET Bit
Erased == Bit
Area(p) == Start[0] + Part[p].offset .. Start[0] + Part[p].offset + Part[p].len - 1

ASSUME SectorAssumption ==
  /\ Sectors \in Nat \ {0}
  /\ Start \in [0..Sectors -> Nat]
  /\ \A s, t \in 0..Sectors : s < t => Start[s] < Start[t]
  /\ Modulus \in Nat /\ Start[Sectors] < Modulus

\* fal_cfg.h: partitions begin and end where sectors do, and do not overlap.
ASSUME PartAssumption ==
  /\ "app" \in DOMAIN Part
  /\ \A p \in DOMAIN Part :
       /\ Part[p] \in [offset : Nat, len : Nat \ {0}]
       /\ \E s \in 0..Sectors : Start[0] + Part[p].offset = Start[s]
       /\ \E s \in 0..Sectors : Start[0] + Part[p].offset + Part[p].len = Start[s]
  /\ \A p, q \in DOMAIN Part : p # q => Area(p) \cap Area(q) = {}

ASSUME CallAssumption ==
  /\ \A i \in Image : i \in Seq(Byte) /\ Len(i) < Modulus
  /\ \A c \in FalCalls :
       /\ c.op \in {"erase", "write"} /\ c.part \in DOMAIN Part
       /\ c.addr \in 0..Modulus-1 /\ c.size \in 0..Modulus-1
       /\ c.op = "write" => c.data \in Seq(Byte) /\ Len(c.data) = c.size
  /\ ChunkLen \in Nat \ {0} /\ MaxFault \in Nat /\ MaxCrash \in Nat

VARIABLES
  mem,     \* the cells of the flash
  call,    \* the last call of fal_partition_erase or fal_partition_write
  ph,      \* what the driver is doing for it
  done,    \* sectors erased, or bytes programmed, by that call
  last,    \* history: what that call returned
  rel,     \* the release: none, running, or the value it returned
  pkg,     \* its package
  pos,     \* dst_write_pos once the chunk being written counts
  right,   \* whether what was read back is the package so far: its CRC
  faults, crashes

vars == <<mem, call, ph, done, last, rel, pkg, pos, right, faults, crashes>>
release == <<rel, pkg, pos, right>>

Fault   == faults < MaxFault /\ faults' = faults + 1
NoFault == faults' = faults

NoCall == [op |-> "erase", part |-> "app", addr |-> 0, size |-> 0, data |-> <<>>]
EraseOf(p, n) == [op |-> "erase", part |-> p, addr |-> 0, size |-> n, data |-> <<>>]
WriteOf(p, a, d) == [op |-> "write", part |-> p, addr |-> a, size |-> Len(d), data |-> d]

Init ==
  /\ mem \in [Flash -> {Erased, {}}]
  /\ \A p \in DOMAIN Part : \A a, b \in Area(p) : mem[a] = mem[b]
  /\ call = NoCall /\ ph = "idle" /\ done = 0 /\ last = "none"
  /\ rel = "none" /\ pkg = <<>> /\ pos = 0 /\ right = TRUE
  /\ faults = 0 /\ crashes = 0
-----------------------------------------------------------------------------
(* The address of a call in the flash, and the tests on it.                 *)

Addr(c) == (Start[0] + Part[c.part].offset + c.addr) % Modulus

\* fal_partition_erase, fal_partition_write: the sum is unsigned.
OutOfPartNoSize(c) == c.addr > Part[c.part].len
OutOfPart(c) == (c.addr + c.size) % Modulus > Part[c.part].len

\* stm32_flash_erase, stm32_flash_write.
OutOfFlash(c) == (Addr(c) + c.size) % Modulus > Start[Sectors] \/ c.size < 1

\* GetSector: an address in no sector gets the number of one that is not there.
GetSectorLate(a) ==
  IF \E s \in 0..Sectors-1 : Start[s] < a /\ a <= Start[s+1]
  THEN CHOOSE s \in 0..Sectors-1 : Start[s] < a /\ a <= Start[s+1]
  ELSE Sectors
GetSector(a) ==
  IF \E s \in 0..Sectors-1 : Start[s] <= a /\ a < Start[s+1]
  THEN CHOOSE s \in 0..Sectors-1 : Start[s] <= a /\ a < Start[s+1]
  ELSE Sectors

FirstSector(c) == GetSector(Addr(c))
NbOneLess(c) == GetSector((Addr(c) + c.size - 1) % Modulus) - FirstSector(c)
NbOneMore(c) == GetSector((Addr(c) + c.size) % Modulus) - FirstSector(c) + 1
NbOfSectors(c) == GetSector((Addr(c) + c.size - 1) % Modulus) - FirstSector(c) + 1

Cells(s) == IF s < Sectors THEN Start[s] .. Start[s+1] - 1 ELSE {}

\* What the driver programs next: a word, a half word or a byte.
Unit(a, left) == IF a % 4 = 0 /\ left >= 4 THEN 4
                 ELSE IF a % 2 = 0 /\ left >= 2 THEN 2 ELSE 1

Here == Addr(call) + done
Chunk == Here .. Here + Unit(Here, call.size - done) - 1
Given(a) == call.data[a - Addr(call) + 1]
-----------------------------------------------------------------------------
(* A call of fal_partition_erase or fal_partition_write, and its return.    *)

Begin(c) ==
  /\ ph = "idle"
  /\ call' = c /\ done' = 0
  /\ IF OutOfPart(c) \/ OutOfFlash(c)
     THEN ph' = "idle" /\ last' = "error"
     ELSE ph' = c.op /\ last' = "none"

Return(r) == ph' = "idle" /\ last' = r /\ UNCHANGED <<call, done>>

\* HAL_FLASHEx_Erase, one sector: a failed erase leaves it as it may.
EraseSector ==
  /\ ph = "erase"
  /\ LET s == FirstSector(call) + done IN
     \/ /\ s < Sectors /\ NoFault
        /\ mem' = [a \in Flash |-> IF a \in Cells(s) THEN Erased ELSE mem[a]]
        /\ IF done + 1 < NbOfSectors(call)
           THEN done' = done + 1 /\ UNCHANGED <<call, ph, last>>
           ELSE Return("ok")
     \/ /\ s < Sectors /\ Fault
        /\ \E U \in SUBSET Cells(s) :
             mem' = [a \in Flash |-> IF a \in U THEN Erased ELSE mem[a]]
        /\ Return("error")
     \/ /\ s >= Sectors /\ NoFault    \* no such sector
        /\ Return("error") /\ UNCHANGED mem
  /\ UNCHANGED <<release, crashes>>

\* The cells a program of the next unit may leave when it does not complete.
HalfDone ==
  {[a \in Flash |-> IF a \in U THEN mem[a] \cap Given(a) ELSE mem[a]] : U \in SUBSET Chunk}

\* HAL_FLASH_Program of one unit and the comparison that follows it.
ReadsBackAny(m) == TRUE
ReadsBack(m) == \A a \in Chunk : m[a] = Given(a)

ProgramUnit ==
  /\ ph = "write"
  /\ \/ /\ NoFault
        /\ mem' = [a \in Flash |-> IF a \in Chunk THEN mem[a] \cap Given(a) ELSE mem[a]]
        /\ IF ~ReadsBack(mem') THEN Return("error")
           ELSE IF done + Unit(Here, call.size - done) < call.size
           THEN done' = done + Unit(Here, call.size - done) /\ UNCHANGED <<call, ph, last>>
           ELSE Return("ok")
     \/ Fault /\ mem' \in HalfDone /\ Return("error")
  /\ UNCHANGED <<release, crashes>>
-----------------------------------------------------------------------------
(* rb_fw_release, from the erase to the comparison of the CRC.              *)

Rest == Len(pkg) - pos
NextChunk == SubSeq(pkg, pos + 1, pos + (IF Rest < ChunkLen THEN Rest ELSE ChunkLen))

NotAdvanced == pos
Advanced == pos + Len(NextChunk)

ReleaseErase(i) ==
  /\ ph = "idle" /\ rel \notin {"erase", "write"}
  /\ Begin(EraseOf("app", Len(i)))
  /\ rel' = "erase" /\ pkg' = i /\ pos' = 0 /\ right' = TRUE
  /\ UNCHANGED <<mem, faults, crashes>>

\* The erase returned; a chunk is read from the card and written.
ReleaseWrite ==
  /\ ph = "idle" /\ last = "ok"
  /\ rel = "erase" \/ (rel = "write" /\ pos < Len(pkg))
  /\ \/ NoFault /\ Begin(WriteOf("app", pos, NextChunk)) /\ rel' = "write" /\ UNCHANGED right
     \/ /\ Fault               \* the card delivers something else
        /\ \E d \in [1..Len(NextChunk) -> {Erased, {}}] :
             Begin(WriteOf("app", pos, d)) /\ right' = (right /\ d = NextChunk)
        /\ rel' = "write"
     \/ /\ Fault               \* the card delivers nothing
        /\ rel' = "failed" /\ UNCHANGED <<call, ph, done, last, right>>
  /\ pos' = Advanced
  /\ UNCHANGED <<mem, pkg, crashes>>

\* The last call failed, or all is written: compare the CRC.
CrcMatchesAlways == TRUE
CrcMatches == right

ReleaseReturn ==
  /\ ph = "idle"
  /\ \/ rel \in {"erase", "write"} /\ last = "error" /\ rel' = "failed"
     \/ /\ rel = "write" /\ last = "ok" /\ pos = Len(pkg)
        /\ rel' = IF CrcMatches THEN "released" ELSE "failed"
  /\ UNCHANGED <<mem, call, ph, done, last, pkg, pos, right, faults, crashes>>

(* fal erase and fal write: the operator types them when no release runs.   *)
Fal ==
  /\ ph = "idle" /\ rel \notin {"erase", "write"}
  /\ \E c \in FalCalls : Begin(c)
  /\ rel' = "none" /\ UNCHANGED <<mem, pkg, pos, right, faults, crashes>>

(* Power loss: what was being erased or programmed is half done.            *)
Crash ==
  /\ crashes < MaxCrash /\ crashes' = crashes + 1
  /\ \/ UNCHANGED mem
     \/ ph = "write" /\ mem' \in HalfDone
     \/ /\ ph = "erase"
        /\ \E U \in SUBSET Cells(FirstSector(call) + done) :
             mem' = [a \in Flash |-> IF a \in U THEN Erased ELSE mem[a]]
  /\ call' = NoCall /\ ph' = "idle" /\ done' = 0 /\ last' = "none"
  /\ rel' = "none" /\ pkg' = <<>> /\ pos' = 0 /\ right' = TRUE
  /\ UNCHANGED faults

Driver == EraseSector \/ ProgramUnit
Main == ReleaseWrite \/ ReleaseReturn \/ Driver

Next == Main \/ (\E i \in Image : ReleaseErase(i)) \/ Fal \/ Crash

Spec == Init /\ [][Next]_vars

\* The flash controller raises a flag or times out, and so does the card.
FairSpec == Spec /\ WF_vars(Main)
-----------------------------------------------------------------------------
Range(c) == Addr(c) .. Addr(c) + c.size - 1

(* Every variable keeps to its range, and a call under way to its partition. *)
TypeOK ==
  /\ mem \in [Flash -> Byte]
  /\ ph # "idle" => Range(call) # {} /\ Range(call) \subseteq Area(call.part)
  /\ ph \in {"idle", "erase", "write"}
  /\ done \in 0..call.size
  /\ last \in {"none", "ok", "error"}
  /\ rel \in {"none", "erase", "write", "failed", "released"}
  /\ pos \in 0..Len(pkg)
  /\ faults \in 0..MaxFault /\ crashes \in 0..MaxCrash

(* A call that returned its size did all of it, and the flash still shows    *)
(* it: the range is erased, or holds the data (the read-back of              *)
(* stm32_flash_write, the sector count of stm32_flash_erase).                *)
DoneExact ==
  ph = "idle" /\ last = "ok" =>
    \A a \in Range(call) : mem[a] = IF call.op = "erase" THEN Erased ELSE Given(a)

(* A release that returned 1 left the whole package in the partition,        *)
(* whatever chunk, sector or card read failed before (rb_fw_release).        *)
ReleaseExact ==
  rel = "released" => \A i \in 1..Len(pkg) : mem[Start[0] + Part["app"].offset + i - 1] = pkg[i]

(* A release of a package that fits fails only if an operation failed:       *)
(* erase, chunks and units agree on every size, so nothing is programmed     *)
(* over cells that are not erased.                                           *)
FailsOnlyOnFault ==
  rel = "failed" /\ Len(pkg) \in 1..Part["app"].len => faults > 0

(* No step changes a cell of a partition other than the one called for:      *)
(* nothing done to "app", fail as it may, touches the boot loader.           *)
OthersKept ==
  [][\A p \in DOMAIN Part \ {call.part} : \A a \in Area(p) : mem'[a] = mem[a]]_vars

(* A write clears bits in its range only; an erase sets bits only in         *)
(* the sectors its range meets.                                              *)
StaysInRange ==
  [][\A a \in Flash : mem'[a] # mem[a] =>
       \/ ph = "write" /\ a \in Range(call) /\ mem'[a] \subseteq mem[a]
       \/ /\ ph = "erase" /\ mem[a] \subseteq mem'[a]
          /\ \E b \in Range(call), s \in 0..Sectors-1 : {a, b} \subseteq Cells(s)]_vars

(* A release that began returns, unless power fails.                         *)
ReleaseEnds == rel = "erase" ~> rel \notin {"erase", "write"}
=============================================================================
