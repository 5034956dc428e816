---------------------------- MODULE FlashProofs ----------------------------
(***************************************************************************)
(* What TLAPS proves of module Flash, for every layout of the flash, every *)
(* partition table and every package.  The release needs no hypothesis.    *)
(* The commands of the operator do: fal_partition_erase and                *)
(* fal_partition_write add addr and size in 32 bits, and where the sum     *)
(* wraps (NoWrap fails) a call leaves its partition.                       *)
(***************************************************************************)
EXTENDS Flash, WellFoundedInduction, TLAPS

(* The operator types no address and size whose sum exceeds 32 bits.         *)
NoWrap == \A c \in FalCalls : c.addr + c.size < Modulus

Base(p) == Start[0] + Part[p].offset
Releasing == rel \in {"erase", "write"}
Sound == NoWrap \/ Releasing

KnownCall(c) ==
  /\ c.op \in {"erase", "write"} /\ c.part \in DOMAIN Part
  /\ c.addr \in Nat /\ c.size \in Nat
  /\ c.op = "write" => c.data \in Seq(Byte) /\ Len(c.data) = c.size

\* What a call that passed the tests is, when the sums did not wrap.
Good(c) == KnownCall(c) /\ c.size >= 1 /\ c.addr + c.size <= Part[c.part].len

Shape ==
  /\ mem \in [Flash -> Byte]
  /\ KnownCall(call)
  /\ ph \in {"idle", "erase", "write"}
  /\ done \in Nat
  /\ last \in {"none", "ok", "error"}
  /\ rel \in {"none", "erase", "write", "failed", "released"}
  /\ pkg \in Seq(Byte) /\ Len(pkg) < Modulus
  /\ pos \in 0..Len(pkg)
  /\ right \in BOOLEAN
  /\ faults \in 0..MaxFault /\ crashes \in 0..MaxCrash
  /\ ph # "idle" => ph = call.op /\ last = "none" /\ rel \in {"none", "erase", "write"}

UnderWay ==
  /\ ph # "idle" \/ last = "ok" => Good(call)
  /\ done <= call.size
  /\ ph = "erase" =>
       /\ done < NbOfSectors(call)
       /\ done > 0 => Addr(call) + done <= Start[FirstSector(call) + done]
       /\ \A a \in Range(call) :
            a < Start[FirstSector(call) + done] => mem[a] = Erased
  /\ ph = "write" =>
       /\ done < call.size
       /\ \A a \in Range(call) : a < Here => mem[a] = Given(a)
  /\ DoneExact
CallInv == Sound => UnderWay

RelInv ==
  /\ rel = "erase" => call = EraseOf("app", Len(pkg)) /\ pos = 0 /\ right
  /\ rel = "write" =>
       /\ call.op = "write" /\ call.part = "app" /\ call.addr + call.size = pos
       /\ Len(pkg) \in 1..Part["app"].len
       /\ right => /\ \A j \in 1..call.size : call.data[j] = pkg[call.addr + j]
                   /\ \A i \in 1..call.addr : mem[Base("app") + i - 1] = pkg[i]
  /\ ReleaseExact

Ahead == IF ph = "write" THEN Here ELSE Base("app") + pos

FaultInv ==
  faults = 0 =>
    /\ Releasing /\ Len(pkg) \in 1..Part["app"].len => last # "error"
    /\ rel = "write" =>
         /\ right
         /\ \A a \in Ahead .. Base("app") + Len(pkg) - 1 : mem[a] = Erased
    /\ FailsOnlyOnFault

IInv == Shape /\ CallInv /\ RelInv /\ FaultInv
-----------------------------------------------------------------------------
(* The layout: sectors, partitions, and what a good call covers.            *)

(* The type of the constants, in the form the proofs use.                    *)
LEMMA Constants ==
  /\ Sectors \in Nat /\ Sectors >= 1 /\ Modulus \in Nat /\ Start[Sectors] < Modulus
  /\ \A s \in 0..Sectors : Start[s] \in Nat
  /\ \A s, t \in 0..Sectors : s < t => Start[s] < Start[t]
  /\ \A s \in 0..Sectors : Start[0] <= Start[s] /\ Start[s] <= Start[Sectors]
  /\ MaxFault \in Nat /\ MaxCrash \in Nat /\ ChunkLen \in Nat /\ ChunkLen >= 1
<1>1. Sectors \in Nat /\ Sectors >= 1 /\ Modulus \in Nat /\ Start[Sectors] < Modulus
  BY SectorAssumption
<1>2. \A s \in 0..Sectors : Start[s] \in Nat
  BY SectorAssumption
<1>3. \A s, t \in 0..Sectors : s < t => Start[s] < Start[t]
  BY SectorAssumption
<1>4. \A s \in 0..Sectors : Start[0] <= Start[s] /\ Start[s] <= Start[Sectors]
  <2>1. TAKE s \in 0..Sectors
  <2>2. 0 \in 0..Sectors /\ Sectors \in 0..Sectors
    BY <1>1
  <2>3. s = 0 \/ 0 < s
    OBVIOUS
  <2>4. s = Sectors \/ s < Sectors
    BY <1>1
  <2>5. Start[0] <= Start[s]
    BY <1>2, <1>3, <2>2, <2>3
  <2>6. Start[s] <= Start[Sectors]
    BY <1>2, <1>3, <2>2, <2>4
  <2>7. QED BY <2>5, <2>6
<1>5. QED BY <1>1, <1>2, <1>3, <1>4, CallAssumption

(* An address below Modulus is stored as it is.                              *)
LEMMA NoWrapHere ==
  ASSUME NEW x \in Nat, x < Modulus
  PROVE  x % Modulus = x
BY Constants

(* A partition begins and ends where sectors do, within the flash.           *)
LEMMA PartSpan ==
  ASSUME NEW p \in DOMAIN Part
  PROVE  /\ Base(p) \in Nat /\ Part[p].offset \in Nat /\ Part[p].len \in Nat
         /\ Area(p) = Base(p) .. Base(p) + Part[p].len - 1
         /\ Base(p) + Part[p].len <= Start[Sectors]
         /\ Area(p) \subseteq Flash
         /\ \E s \in 0..Sectors : Base(p) = Start[s]
         /\ \E s \in 0..Sectors : Base(p) + Part[p].len = Start[s]
<1>1. /\ Part[p] \in [offset : Nat, len : Nat \ {0}]
      /\ \E s \in 0..Sectors : Base(p) = Start[s]
      /\ \E s \in 0..Sectors : Base(p) + Part[p].len = Start[s]
  BY PartAssumption DEF Base
<1>2. Part[p].offset \in Nat /\ Part[p].len \in Nat
  BY <1>1
<1>3. Base(p) \in Nat /\ Base(p) >= Start[0] /\ Start[0] \in Nat /\ Start[Sectors] \in Nat
  BY <1>2, Constants DEF Base
<1>4. Base(p) + Part[p].len <= Start[Sectors]
  BY <1>1, <1>2, Constants
<1>5. Area(p) = Base(p) .. Base(p) + Part[p].len - 1
  BY DEF Area, Base
<1>6. Area(p) \subseteq Flash
  BY <1>2, <1>3, <1>4, <1>5 DEF Flash
<1>7. QED BY <1>1, <1>2, <1>3, <1>4, <1>5, <1>6

(* Every address of the flash is in a sector: the last one that begins at or *)
(* below it.                                                                 *)
LEMMA SectorExists ==
  ASSUME NEW a \in Flash
  PROVE  \E s \in 0..Sectors-1 : Start[s] <= a /\ a < Start[s+1]
<1> DEFINE T == {s \in 0..Sectors : a < Start[s]}
<1>1. a \in Int /\ Start[0] <= a /\ a < Start[Sectors]
  BY Constants DEF Flash
<1>2. T \subseteq Nat /\ Sectors \in T
  BY <1>1, Constants
<1>3. \E x \in T : \A y \in T : ~ (<<y, x>> \in OpToRel(<, Nat))
  <2>1. T # {}
    BY <1>2
  <2> HIDE DEF T
  <2>2. QED BY <1>2, <2>1, WFMin, NatLessThanWellFounded
<1>4. PICK x \in T : \A y \in T : ~ (y < x)
  BY <1>2, <1>3 DEF OpToRel
<1>5. x \in 0..Sectors /\ a < Start[x] /\ x # 0
  BY <1>1, Constants
<1>6. x - 1 \in 0..Sectors-1 /\ x - 1 \in 0..Sectors /\ x - 1 < x
  BY <1>5, Constants
<1>7. x - 1 \notin T
  BY <1>4, <1>6
<1>8. Start[x-1] <= a
  BY <1>1, <1>6, <1>7, Constants
<1>9. x - 1 + 1 = x
  BY <1>5
<1>10. QED BY <1>5, <1>6, <1>8, <1>9

(* GetSector finds it.                                                       *)
LEMMA GetSectorFinds ==
  ASSUME NEW a \in Flash
  PROVE  /\ GetSector(a) \in 0..Sectors-1
         /\ Start[GetSector(a)] <= a /\ a < Start[GetSector(a) + 1]
BY SectorExists DEF GetSector

(* Sectors are in the order of their addresses.                              *)
LEMMA SectorOrder ==
  ASSUME NEW s \in 0..Sectors, NEW t \in 0..Sectors
  PROVE  Start[s] < Start[t] <=> s < t
<1>1. s < t \/ s = t \/ t < s
  OBVIOUS
<1>2. Start[s] \in Nat /\ Start[t] \in Nat
  BY Constants
<1>3. QED BY <1>1, <1>2, Constants

(* What a good call covers: a range of cells of its partition.               *)
LEMMA GoodRange ==
  ASSUME NEW c, Good(c)
  PROVE  /\ c.part \in DOMAIN Part /\ c.addr \in Nat /\ c.size \in Nat /\ c.size >= 1
         /\ Base(c.part) \in Nat
         /\ Addr(c) = Base(c.part) + c.addr /\ Addr(c) \in Nat
         /\ Addr(c) + c.size <= Base(c.part) + Part[c.part].len
         /\ Addr(c) + c.size <= Start[Sectors]
         /\ (Addr(c) + c.size - 1) % Modulus = Addr(c) + c.size - 1
         /\ Range(c) # {} /\ Range(c) \subseteq Area(c.part)
         /\ Range(c) \subseteq Flash
<1>1. /\ c.part \in DOMAIN Part /\ c.addr \in Nat /\ c.size \in Nat /\ c.size >= 1
      /\ c.addr + c.size <= Part[c.part].len
  BY DEF Good, KnownCall
<1> DEFINE p == c.part
<1>2. /\ Base(p) \in Nat /\ Part[p].offset \in Nat /\ Part[p].len \in Nat
      /\ Area(p) = Base(p) .. Base(p) + Part[p].len - 1
      /\ Base(p) + Part[p].len <= Start[Sectors]
      /\ Area(p) \subseteq Flash
  BY <1>1, PartSpan
<1>3. Start[Sectors] \in Nat /\ Start[Sectors] < Modulus /\ Modulus \in Nat
  BY Constants
<1>4. Base(p) + c.addr \in Nat /\ Base(p) + c.addr < Modulus
  BY SMTT(30), <1>1, <1>2, <1>3
<1>5. Addr(c) = Base(p) + c.addr
  BY <1>4, NoWrapHere DEF Addr, Base
<1>6. Addr(c) + c.size - 1 \in Nat /\ Addr(c) + c.size - 1 < Modulus
  <2>1. \A b, n, l, a \in Nat : n >= 1 /\ a + n <= l /\ b + l <= Start[Sectors]
          => b + a + n - 1 \in Nat /\ b + a + n - 1 < Modulus
    BY <1>3
  <2>2. QED BY <1>1, <1>2, <1>5, <2>1
<1>7. (Addr(c) + c.size - 1) % Modulus = Addr(c) + c.size - 1
  BY <1>6, NoWrapHere
<1>8. Range(c) # {} /\ Range(c) \subseteq Area(p)
  <2>1. Range(c) = Base(p) + c.addr .. Base(p) + c.addr + c.size - 1
    BY <1>5 DEF Range
  <2>2. \A n, l, a \in Nat : n >= 1 /\ a + n <= l => 0 <= a /\ a <= a + n - 1 /\ a + n - 1 <= l - 1
    OBVIOUS
  <2>3. c.addr <= c.addr + c.size - 1 /\ c.addr + c.size - 1 <= Part[p].len - 1
    BY <1>1, <1>2, <2>2
  <2>4. Base(p) + c.addr \in Range(c)
    BY <1>1, <1>2, <2>1, <2>3
  <2>5. ASSUME NEW x \in Range(c) PROVE x \in Area(p)
    BY SMTT(30), <1>1, <1>2, <2>1, <2>3, <2>5
  <2>6. QED BY <2>4, <2>5
<1>9. Addr(c) + c.size <= Base(p) + Part[p].len /\ Addr(c) + c.size <= Start[Sectors]
  BY <1>1, <1>2, <1>3, <1>5
<1>10. QED BY <1>1, <1>2, <1>4, <1>5, <1>7, <1>8, <1>9

(* The sectors a good call erases: from that of its first byte to that of    *)
(* its last, and all of them sectors of its partition.                       *)
LEMMA GoodSectors ==
  ASSUME NEW c, Good(c)
  PROVE  /\ FirstSector(c) \in 0..Sectors-1 /\ NbOfSectors(c) \in Nat
         /\ NbOfSectors(c) >= 1 /\ FirstSector(c) + NbOfSectors(c) <= Sectors
         /\ Start[FirstSector(c)] <= Addr(c) /\ Addr(c) < Start[FirstSector(c) + 1]
         /\ Addr(c) + c.size <= Start[FirstSector(c) + NbOfSectors(c)]
         /\ \A s \in FirstSector(c) .. FirstSector(c) + NbOfSectors(c) - 1 :
              /\ Cells(s) = Start[s] .. Start[s+1] - 1
              /\ Cells(s) \subseteq Area(c.part)
              /\ Start[s] <= Addr(c) + c.size - 1
<1> DEFINE f == FirstSector(c)
           e == Addr(c) + c.size - 1
           g == GetSector(e)
           p == c.part
<1>1. /\ p \in DOMAIN Part /\ c.size \in Nat /\ c.size >= 1 /\ c.addr \in Nat
      /\ Base(p) \in Nat /\ Addr(c) = Base(p) + c.addr /\ Addr(c) \in Nat
      /\ Addr(c) + c.size <= Base(p) + Part[p].len
      /\ e % Modulus = e /\ Range(c) \subseteq Flash
  BY GoodRange
<1>2. Addr(c) \in Flash /\ e \in Flash
  BY <1>1 DEF Range
<1>3. f \in 0..Sectors-1 /\ Start[f] <= Addr(c) /\ Addr(c) < Start[f+1]
  BY <1>2, GetSectorFinds DEF FirstSector
<1>4. g \in 0..Sectors-1 /\ Start[g] <= e /\ e < Start[g+1]
  BY <1>2, GetSectorFinds
<1>5. NbOfSectors(c) = g - f + 1
  BY <1>1 DEF NbOfSectors
<1> HIDE DEF g, f
<1>6. f <= g
  <2>1. f \in 0..Sectors /\ g+1 \in 0..Sectors /\ Start[f] \in Nat /\ Start[g+1] \in Nat
    BY <1>3, <1>4, Constants
  <2>2. Start[f] < Start[g+1]
    BY <1>1, <1>3, <1>4, <2>1
  <2>3. f < g+1
    BY <2>1, <2>2, SectorOrder
  <2>4. QED BY <1>3, <1>4, <2>3
<1>7. PICK sb \in 0..Sectors : Base(p) = Start[sb]
  BY <1>1, PartSpan
<1>8. PICK se \in 0..Sectors : Base(p) + Part[p].len = Start[se]
  BY <1>1, PartSpan
<1>9. sb <= f
  <2>1. f+1 \in 0..Sectors /\ Start[f+1] \in Nat
    BY <1>3, Constants
  <2>2. Start[sb] < Start[f+1]
    BY <1>1, <1>3, <1>7, <2>1
  <2>3. QED BY <1>3, <2>1, <2>2, SectorOrder
<1>10. g + 1 <= se
  <2>1. g \in 0..Sectors /\ Start[g] \in Nat /\ Start[se] \in Nat
    BY <1>4, Constants
  <2>2. Start[g] < Start[se]
    BY <1>1, <1>4, <1>8, <2>1
  <2>3. g < se
    BY <2>1, <2>2, SectorOrder
  <2>4. QED BY <1>4, <2>3
<1>11. ASSUME NEW s \in f .. g
       PROVE  /\ Cells(s) = Start[s] .. Start[s+1] - 1
              /\ Cells(s) \subseteq Area(p)
              /\ Start[s] <= e
  <2>1. /\ s \in 0..Sectors /\ s+1 \in 0..Sectors /\ s < Sectors /\ g \in 0..Sectors
        /\ Start[s] \in Nat /\ Start[s+1] \in Nat /\ Start[g] \in Nat
    BY <1>3, <1>4, Constants
  <2>2. Cells(s) = Start[s] .. Start[s+1] - 1
    BY <2>1 DEF Cells
  <2>3. Start[sb] <= Start[s]
    BY <1>3, <1>7, <1>9, <2>1, SectorOrder, Constants
  <2>4. Start[s+1] <= Start[se]
    BY <1>4, <1>8, <1>10, <2>1, SectorOrder, Constants
  <2>5. Start[s] <= Start[g]
    BY <1>4, <2>1, SectorOrder, Constants
  <2>6. /\ Area(p) = Base(p) .. Base(p) + Part[p].len - 1 
        /\ Part[p].len \in Nat
    BY <1>1, PartSpan
  <2>7. Cells(s) \subseteq Area(p)
    <3>1. Start[sb] \in Nat /\ Start[se] \in Nat
      BY Constants
    <3>2. ASSUME NEW x \in Start[s] .. Start[s+1] - 1 PROVE x \in Area(p)
      <4>1. x \in Int /\ Start[sb] <= x /\ x <= Start[se] - 1
        BY <2>1, <2>3, <2>4, <3>1
      <4>2. Base(p) <= x /\ x <= Base(p) + Part[p].len - 1
        <5>1. Base(p) = Start[sb] /\ Base(p) + Part[p].len = Start[se]
          BY <1>7, <1>8
        <5>2. Base(p) \in Nat /\ Part[p].len \in Nat
          BY <1>1, PartSpan
        <5>3. QED BY <3>1, <4>1, <5>1, <5>2
      <4>3. QED BY <2>6, <4>1, <4>2
    <3>3. QED BY <2>2, <3>2
  <2>8. Start[s] <= e
    BY <1>1, <1>4, <2>1, <2>5
  <2>9. QED BY <2>2, <2>7, <2>8
<1>12. f + NbOfSectors(c) = g + 1 /\ f + NbOfSectors(c) - 1 = g
  BY <1>3, <1>4, <1>5
<1>13. /\ NbOfSectors(c) \in Nat /\ NbOfSectors(c) >= 1 /\ f + NbOfSectors(c) <= Sectors
       /\ Addr(c) + c.size <= Start[f + NbOfSectors(c)]
  <2>1. Start[g+1] \in Nat
    BY <1>4, Constants
  <2>2. QED BY <1>1, <1>3, <1>4, <1>5, <1>6, <1>12, <2>1, Constants
<1>14. QED BY <1>3, <1>11, <1>12, <1>13 DEF f

(* What is programmed next: something, and not more than is left.            *)
LEMMA UnitFits ==
  ASSUME NEW a \in Int, NEW left \in Nat, left >= 1
  PROVE  Unit(a, left) \in Nat /\ Unit(a, left) >= 1 /\ Unit(a, left) <= left
BY DEF Unit
-----------------------------------------------------------------------------
(* What a step does to the cells, and what a call is when it begins.        *)

(* A cell changes only if it is in the sector being erased, and then it is   *)
(* erased, or in the unit being programmed, and then it loses bits.          *)
LEMMA Effect ==
  ASSUME Shape, Next
  PROVE  /\ mem' \in [Flash -> Byte]
         /\ \A a \in Flash :
              \/ mem'[a] = mem[a]
              \/ /\ ph = "erase" /\ a \in Cells(FirstSector(call) + done)
                 /\ mem'[a] = Erased
              \/ /\ ph = "write" /\ a \in Chunk
                 /\ mem'[a] = mem[a] \cap Given(a)
<1>1. mem \in [Flash -> Byte]
  BY DEF Shape
<1>2. ASSUME NEW U \in SUBSET Cells(FirstSector(call) + done), ph = "erase",
             mem' = [a \in Flash |-> IF a \in U THEN Erased ELSE mem[a]]
      PROVE  /\ mem' \in [Flash -> Byte]
             /\ \A a \in Flash :
                  \/ mem'[a] = mem[a]
                  \/ /\ ph = "erase" /\ a \in Cells(FirstSector(call) + done)
                     /\ mem'[a] = Erased
  BY <1>1, <1>2 DEF Byte, Erased
<1>3. ASSUME NEW U \in SUBSET Chunk, ph = "write",
             mem' = [a \in Flash |-> IF a \in U THEN mem[a] \cap Given(a) ELSE mem[a]]
      PROVE  /\ mem' \in [Flash -> Byte]
             /\ \A a \in Flash :
                  \/ mem'[a] = mem[a]
                  \/ /\ ph = "write" /\ a \in Chunk
                     /\ mem'[a] = mem[a] \cap Given(a)
  <2>1. \A a \in Flash : mem[a] \in SUBSET Bit /\ mem[a] \cap Given(a) \in SUBSET Bit
    BY <1>1 DEF Byte
  <2>2. mem' \in [Flash -> Byte]
    BY <1>3, <2>1 DEF Byte
  <2>3. QED BY <1>3, <2>2
<1>4. ASSUME mem' \in HalfDone, ph = "write"
      PROVE  \E U \in SUBSET Chunk :
               mem' = [a \in Flash |-> IF a \in U THEN mem[a] \cap Given(a) ELSE mem[a]]
  BY <1>4 DEF HalfDone
<1>5. CASE UNCHANGED mem
  BY <1>1, <1>5
<1>6. CASE EraseSector
  <2> DEFINE s == FirstSector(call) + done
  <2>1. ph = "erase"
    BY <1>6 DEF EraseSector
  <2>2. \/ mem' = [a \in Flash |-> IF a \in Cells(s) THEN Erased ELSE mem[a]]
        \/ \E U \in SUBSET Cells(s) :
             mem' = [a \in Flash |-> IF a \in U THEN Erased ELSE mem[a]]
        \/ UNCHANGED mem
    BY <1>6 DEF EraseSector
  <2>3. CASE UNCHANGED mem
    BY <1>5, <2>3
  <2>4. CASE mem' = [a \in Flash |-> IF a \in Cells(s) THEN Erased ELSE mem[a]]
    <3>1. Cells(s) \in SUBSET Cells(s)
      OBVIOUS
    <3>2. QED BY <1>2, <2>1, <2>4, <3>1
  <2>5. CASE \E U \in SUBSET Cells(s) :
               mem' = [a \in Flash |-> IF a \in U THEN Erased ELSE mem[a]]
    BY <1>2, <2>1, <2>5
  <2>6. QED BY <2>2, <2>3, <2>4, <2>5
<1>7. CASE ProgramUnit
  <2>1. ph = "write"
    BY <1>7 DEF ProgramUnit
  <2>2. \/ mem' = [a \in Flash |-> IF a \in Chunk THEN mem[a] \cap Given(a) ELSE mem[a]]
        \/ mem' \in HalfDone
    BY <1>7 DEF ProgramUnit
  <2>3. Chunk \in SUBSET Chunk
    OBVIOUS
  <2>4. QED BY <1>3, <1>4, <2>1, <2>2, <2>3
<1>8. CASE Crash
  <2>1. \/ UNCHANGED mem
        \/ ph = "write" /\ mem' \in HalfDone
        \/ /\ ph = "erase"
           /\ \E U \in SUBSET Cells(FirstSector(call) + done) :
                mem' = [a \in Flash |-> IF a \in U THEN Erased ELSE mem[a]]
    BY <1>8 DEF Crash
  <2>2. QED BY <1>2, <1>3, <1>4, <1>5, <2>1
<1>9. CASE ReleaseWrite \/ ReleaseReturn \/ Fal \/ \E i \in Image : ReleaseErase(i)
  BY <1>5, <1>9 DEF ReleaseWrite, ReleaseReturn, Fal, ReleaseErase
<1>10. QED BY <1>6, <1>7, <1>8, <1>9 DEF Next, Main, Driver

(* The sector an erase has come to lies in its partition and begins within   *)
(* its range; the unit a write has come to lies in its range.                *)
LEMMA Place ==
  ASSUME Shape, UnderWay
  PROVE  /\ ph = "erase" =>
              LET s == FirstSector(call) + done IN
              /\ s \in 0..Sectors-1 /\ Cells(s) = Start[s] .. Start[s+1] - 1
              /\ Cells(s) \subseteq Area(call.part)
              /\ Start[s] <= Addr(call) + call.size - 1
         /\ ph = "write" =>
              LET u == Unit(Here, call.size - done) IN
              /\ u \in Nat /\ u >= 1 /\ done + u <= call.size
              /\ Here \in Nat /\ Chunk = Here .. Here + u - 1
              /\ Chunk \subseteq Range(call)
<1>1. done \in Nat
  BY DEF Shape
<1>2. ASSUME ph = "erase"
      PROVE  LET s == FirstSector(call) + done IN
             /\ s \in 0..Sectors-1 /\ Cells(s) = Start[s] .. Start[s+1] - 1
             /\ Cells(s) \subseteq Area(call.part)
             /\ Start[s] <= Addr(call) + call.size - 1
  <2> DEFINE f == FirstSector(call)
             n == NbOfSectors(call)
  <2>1. Good(call) /\ done < n
    BY <1>2 DEF UnderWay
  <2>2. /\ f \in 0..Sectors-1 /\ n \in Nat /\ f + n <= Sectors
        /\ \A s \in f .. f + n - 1 :
              /\ Cells(s) = Start[s] .. Start[s+1] - 1
              /\ Cells(s) \subseteq Area(call.part)
              /\ Start[s] <= Addr(call) + call.size - 1
    BY <2>1, GoodSectors
  <2> HIDE DEF f, n
  <2>3. f + done \in f .. f + n - 1 /\ f + done \in 0..Sectors-1
    BY <1>1, <2>1, <2>2, Constants
  <2>4. QED BY <2>2, <2>3 DEF f, n
<1>3. ASSUME ph = "write"
      PROVE  LET u == Unit(Here, call.size - done) IN
             /\ u \in Nat /\ u >= 1 /\ done + u <= call.size
             /\ Here \in Nat /\ Chunk = Here .. Here + u - 1
             /\ Chunk \subseteq Range(call)
  <2> DEFINE u == Unit(Here, call.size - done)
  <2>1. Good(call) /\ done < call.size
    BY <1>3 DEF UnderWay
  <2>2. Addr(call) \in Nat /\ call.size \in Nat
    BY <2>1, GoodRange
  <2>3. call.size - done \in Nat /\ call.size - done >= 1
    BY <1>1, <2>1, <2>2
  <2>4. Here \in Nat
    BY <1>1, <2>2 DEF Here
  <2>5. u \in Nat /\ u >= 1 /\ u <= call.size - done
    <3> DEFINE l == call.size - done
               h == Here
    <3>1. h \in Int /\ l \in Nat /\ l >= 1
      BY <2>3, <2>4
    <3> HIDE DEF l, h
    <3>2. Unit(h, l) \in Nat /\ Unit(h, l) >= 1 /\ Unit(h, l) <= l
      BY <3>1, UnitFits
    <3>3. QED BY <3>2 DEF l, h
  <2>6. Chunk = Here .. Here + u - 1
    BY DEF Chunk
  <2> HIDE DEF u
  <2>7. ASSUME NEW a \in Chunk PROVE a \in Range(call)
    BY SMTT(30), <1>1, <2>2, <2>4, <2>5, <2>6, <2>7 DEF Here, Range
  <2>8. done + u <= call.size
    BY <1>1, <2>2, <2>5
  <2>9. QED BY <2>4, <2>5, <2>6, <2>7, <2>8 DEF u
<1>4. QED BY <1>2, <1>3

(* A call whose sums do not wrap begins exactly if it is good.               *)
LEMMA BeginCall ==
  ASSUME NEW c, KnownCall(c), c.addr + c.size < Modulus, Begin(c)
  PROVE  /\ call' = c /\ done' = 0
         /\ IF Good(c) THEN ph' = c.op /\ last' = "none" ELSE ph' = "idle" /\ last' = "error"
<1>1. c.part \in DOMAIN Part /\ c.addr \in Nat /\ c.size \in Nat
  BY DEF KnownCall
<1>2. (c.addr + c.size) % Modulus = c.addr + c.size
  BY <1>1, NoWrapHere
<1>3. OutOfPart(c) <=> c.addr + c.size > Part[c.part].len
  BY <1>2 DEF OutOfPart
<1>4. ASSUME Good(c) PROVE ~OutOfFlash(c)
  <2>1. /\ Addr(c) \in Nat /\ c.size >= 1 /\ Addr(c) + c.size <= Start[Sectors]
    BY <1>4, GoodRange
  <2>2. Addr(c) + c.size \in Nat /\ Addr(c) + c.size < Modulus
    BY <1>1, <2>1, Constants
  <2>3. (Addr(c) + c.size) % Modulus = Addr(c) + c.size
    BY <2>2, NoWrapHere
  <2>4. QED BY <1>1, <2>1, <2>2, <2>3, Constants DEF OutOfFlash
<1>5. ASSUME ~OutOfPart(c), ~OutOfFlash(c) PROVE Good(c)
  <2>1. Part[c.part].len \in Nat
    BY <1>1, PartSpan
  <2>2. c.size >= 1
    BY <1>1, <1>5 DEF OutOfFlash
  <2>3. QED BY <1>1, <1>3, <1>5, <2>1, <2>2 DEF Good
<1>6. Good(c) => ~OutOfPart(c)
  <2>1. Part[c.part].len \in Nat
    BY <1>1, PartSpan
  <2>2. QED BY <1>1, <1>3, <2>1 DEF Good
<1>7. QED BY <1>4, <1>5, <1>6 DEF Begin

(* A call that has just begun has nothing to show yet.                       *)
LEMMA BeginUnderWay ==
  ASSUME NEW c, KnownCall(c), c.addr + c.size < Modulus, Begin(c)
  PROVE  UnderWay'
<1>1. /\ call' = c /\ done' = 0
      /\ IF Good(c) THEN ph' = c.op /\ last' = "none" ELSE ph' = "idle" /\ last' = "error"
  BY BeginCall
<1>2. c.size \in Nat
  BY DEF KnownCall
<1>3. CASE ~Good(c)
  BY <1>1, <1>2, <1>3 DEF UnderWay, DoneExact
<1>4. CASE Good(c)
  <2>1. ph' = c.op /\ last' = "none"
    BY <1>1, <1>4
  <2>2. /\ FirstSector(c) \in 0..Sectors-1 /\ NbOfSectors(c) \in Nat /\ NbOfSectors(c) >= 1
        /\ Start[FirstSector(c)] <= Addr(c)
    BY <1>4, GoodSectors
  <2>3. Addr(c) \in Nat /\ c.size >= 1 /\ FirstSector(c) \in 0..Sectors
    BY <1>4, <2>2, GoodRange, Constants
  <2>4. Start[FirstSector(c)] \in Nat
    BY <2>3, Constants
  <2>5. \A a \in Range(c) : a >= Addr(c) /\ a \in Int
    BY <1>2, <2>3 DEF Range
  <2>6. ph' = "erase" =>
          /\ done' < NbOfSectors(call')
          /\ done' > 0 => Addr(call') + done' <= Start[FirstSector(call') + done']
          /\ \A a \in Range(call') : a < Start[FirstSector(call') + done'] => mem'[a] = Erased
    <3>1. FirstSector(c) + 0 = FirstSector(c)
      BY <2>2, Constants
    <3>2. \A a \in Range(c) : ~ (a < Start[FirstSector(c)])
      BY <2>2, <2>3, <2>4, <2>5
    <3>3. QED BY <1>1, <2>2, <3>1, <3>2
  <2>7. Here' = Addr(c)
    BY <1>1, <2>3 DEF Here
  <2>8. \A a \in Range(call') : ~ (a < Here')
    BY <1>1, <2>3, <2>5, <2>7
  <2>9. done' < call'.size /\ done' <= call'.size
    BY <1>1, <1>2, <2>3
  <2>10. ph' # "idle" /\ last' # "ok" /\ Good(call')
    BY <1>1, <1>4, <2>1 DEF Good, KnownCall
  <2>11. QED BY <2>6, <2>8, <2>9, <2>10 DEF UnderWay, DoneExact
<1>5. QED BY <1>3, <1>4
-----------------------------------------------------------------------------
(* The release.                                                             *)

(* What the next chunk of the package is.                                    *)
LEMMA ChunkFacts ==
  ASSUME Shape, pos < Len(pkg)
  PROVE  /\ NextChunk \in Seq(Byte) /\ Len(NextChunk) \in Nat /\ Len(NextChunk) >= 1
         /\ pos + Len(NextChunk) <= Len(pkg)
         /\ \A j \in 1..Len(NextChunk) : NextChunk[j] = pkg[pos + j]
<1> DEFINE n == IF Rest < ChunkLen THEN Rest ELSE ChunkLen
<1>1. pkg \in Seq(Byte) /\ pos \in Nat /\ Len(pkg) \in Nat
  BY DEF Shape
<1>2. n \in Nat /\ n >= 1 /\ pos + n <= Len(pkg)
  BY <1>1, Constants DEF Rest
<1>3. NextChunk = SubSeq(pkg, pos + 1, pos + n)
  BY DEF NextChunk
<1> HIDE DEF n
<1>4. pos + 1 \in 1..Len(pkg) + 1 /\ pos + n \in 0..Len(pkg)
  BY <1>1, <1>2
<1>5. SubSeq(pkg, pos + 1, pos + n) \in Seq(Byte) /\ Len(SubSeq(pkg, pos + 1, pos + n)) = n
  BY <1>1, <1>2, <1>4
<1>6. ASSUME NEW j \in 1..n PROVE SubSeq(pkg, pos + 1, pos + n)[j] = pkg[pos + j]
  <2>1. SubSeq(pkg, pos + 1, pos + n)[j] = pkg[pos + 1 + j - 1]
    BY <1>1, <1>2, <1>4
  <2>2. pos + 1 + j - 1 = pos + j
    BY <1>1, <1>2
  <2>3. QED BY <2>1, <2>2
<1>7. QED BY <1>2, <1>3, <1>5, <1>6

(* The data of a call are bytes, indexed by the distance from its address.   *)
LEMMA GivenByte ==
  ASSUME Good(call), call.op = "write", NEW a \in Range(call)
  PROVE  /\ a - Addr(call) + 1 \in 1..call.size
         /\ Given(a) = call.data[a - Addr(call) + 1] /\ Given(a) \in Byte
<1>1. Addr(call) \in Nat /\ call.size \in Nat /\ call.size >= 1
  BY GoodRange
<1>2. a - Addr(call) + 1 \in 1..call.size
  BY <1>1 DEF Range
<1>3. call.data \in Seq(Byte) /\ Len(call.data) = call.size
  BY DEF Good, KnownCall
<1>4. QED BY <1>2, <1>3 DEF Given

(* A chunk is written only of a package that fits and has a byte left.       *)
LEMMA BytesLeft ==
  ASSUME Shape, CallInv, RelInv, ReleaseWrite
  PROVE  /\ Releasing /\ ph = "idle" /\ last = "ok" /\ UnderWay /\ Good(call)
         /\ pos < Len(pkg) /\ Len(pkg) \in 1..Part["app"].len
<1>1. /\ ph = "idle" /\ last = "ok" /\ Releasing
      /\ rel = "erase" \/ (rel = "write" /\ pos < Len(pkg))
  BY DEF ReleaseWrite, Releasing
<1>2. UnderWay /\ Good(call)
  BY <1>1 DEF CallInv, Sound, UnderWay
<1>3. CASE rel = "erase"
  <2>1. call = EraseOf("app", Len(pkg)) /\ pos = 0
    BY <1>3 DEF RelInv
  <2>2. call.size = Len(pkg) /\ call.part = "app" /\ call.addr = 0
    BY <2>1 DEF EraseOf
  <2>3. Part["app"].len \in Nat
    BY PartAssumption
  <2>4. QED BY <1>1, <1>2, <2>1, <2>2, <2>3 DEF Good, KnownCall
<1>4. CASE rel = "write"
  BY <1>1, <1>2, <1>4 DEF RelInv
<1>5. QED BY <1>1, <1>3, <1>4

(* ReleaseWrite, case by case.                                               *)
LEMMA WriteCases ==
  ASSUME Shape, CallInv, RelInv, ReleaseWrite
  PROVE  /\ mem' = mem /\ pkg' = pkg /\ crashes' = crashes
         /\ pos' = pos + Len(NextChunk)
         /\ \/ /\ rel' = "failed" /\ faults < MaxFault /\ faults' = faults + 1
               /\ UNCHANGED <<call, ph, done, last, right>>
            \/ \E d \in Seq(Byte) :
                 /\ Len(d) = Len(NextChunk)
                 /\ Begin(WriteOf("app", pos, d)) /\ KnownCall(WriteOf("app", pos, d))
                 /\ rel' = "write" /\ right' \in BOOLEAN
                 /\ right' => right /\ d = NextChunk
                 /\ \/ faults' = faults /\ right' = right
                    \/ faults < MaxFault /\ faults' = faults + 1
<1>1. /\ NextChunk \in Seq(Byte) /\ Len(NextChunk) \in Nat
  BY BytesLeft, ChunkFacts
<1>2. pos \in Nat /\ right \in BOOLEAN
  BY DEF Shape
<1>3. ASSUME NEW d \in Seq(Byte) PROVE KnownCall(WriteOf("app", pos, d))
  <2>1. WriteOf("app", pos, d) =
          [op |-> "write", part |-> "app", addr |-> pos, size |-> Len(d), data |-> d]
    BY DEF WriteOf
  <2>2. Len(d) \in Nat
    OBVIOUS
  <2>3. QED BY <1>2, <2>1, <2>2, PartAssumption DEF KnownCall
<1>4. mem' = mem /\ pkg' = pkg /\ crashes' = crashes /\ pos' = pos + Len(NextChunk)
  BY DEF ReleaseWrite, Advanced
<1>5. CASE /\ faults' = faults /\ Begin(WriteOf("app", pos, NextChunk))
           /\ rel' = "write" /\ right' = right
  BY <1>1, <1>2, <1>3, <1>4, <1>5
<1>6. CASE /\ faults < MaxFault /\ faults' = faults + 1 /\ rel' = "write"
           /\ \E d \in [1..Len(NextChunk) -> {Erased, {}}] :
                Begin(WriteOf("app", pos, d)) /\ right' = (right /\ d = NextChunk)
  <2>1. PICK d \in [1..Len(NextChunk) -> {Erased, {}}] :
          Begin(WriteOf("app", pos, d)) /\ right' = (right /\ d = NextChunk)
    BY <1>6
  <2>2. {Erased, {}} \subseteq Byte
    BY DEF Byte, Erased
  <2>3. d \in Seq(Byte) /\ Len(d) = Len(NextChunk)
    <3> DEFINE n == Len(NextChunk)
               S == {Erased, {}}
    <3>1. n \in Nat /\ S \subseteq Byte /\ d \in [1..n -> S]
      BY <1>1, <2>1, <2>2
    <3> HIDE DEF n, S
    <3>2. d \in [1..n -> Byte]
      BY <3>1
    <3>3. d \in Seq(Byte) /\ Len(d) = n
      BY <3>1, <3>2
    <3>4. QED BY <3>3 DEF n
  <2>4. right' \in BOOLEAN /\ (right' => right /\ d = NextChunk)
    BY <2>1
  <2>5. QED BY <1>3, <1>4, <1>6, <2>1, <2>3, <2>4
<1>7. CASE /\ faults < MaxFault /\ faults' = faults + 1 /\ rel' = "failed"
           /\ UNCHANGED <<call, ph, done, last, right>>
  BY <1>4, <1>7
<1>8. QED BY <1>5, <1>6, <1>7 DEF ReleaseWrite, Fault, NoFault

(* When the calls so far succeeded and delivered the package, so much of the *)
(* partition holds it.                                                       *)
LEMMA Written ==
  ASSUME Shape, CallInv, RelInv, rel = "write", ph = "idle", last = "ok", right
  PROVE  \A i \in 1..pos : mem[Base("app") + i - 1] = pkg[i]
<1>1. UnderWay /\ Good(call) /\ DoneExact
  BY DEF CallInv, Sound, Releasing, UnderWay
<1>2. /\ call.op = "write" /\ call.part = "app" /\ call.addr + call.size = pos
      /\ \A j \in 1..call.size : call.data[j] = pkg[call.addr + j]
      /\ \A i \in 1..call.addr : mem[Base("app") + i - 1] = pkg[i]
  BY DEF RelInv
<1>3. /\ call.addr \in Nat /\ call.size \in Nat /\ Base("app") \in Nat
      /\ Addr(call) = Base("app") + call.addr
  BY <1>1, <1>2, GoodRange
<1>4. \A a \in Range(call) : mem[a] = Given(a)
  BY <1>1, <1>2 DEF DoneExact
<1>5. SUFFICES ASSUME NEW i \in call.addr + 1 .. pos
               PROVE  mem[Base("app") + i - 1] = pkg[i]
  BY <1>2, <1>3
<1> DEFINE a == Base("app") + i - 1
<1>6. a \in Range(call) /\ a - Addr(call) + 1 = i - call.addr /\ i - call.addr \in 1..call.size
  BY <1>2, <1>3 DEF Range
<1>7. mem[a] = call.data[i - call.addr]
  BY <1>4, <1>6 DEF Given
<1>8. call.addr + (i - call.addr) = i
  BY <1>3
<1>9. QED BY <1>2, <1>6, <1>7, <1>8
-----------------------------------------------------------------------------
(* The invariants hold at the start and every step keeps them.              *)

(* The start.                                                                *)
LEMMA InitIInv == Init => IInv
<1> SUFFICES ASSUME Init PROVE IInv
  OBVIOUS
<1>1. mem \in [Flash -> Byte]
  BY DEF Init, Byte, Erased
<1>2. KnownCall(call) /\ call.size = 0
  BY PartAssumption DEF Init, NoCall, KnownCall
<1>3. pkg \in Seq(Byte) /\ Len(pkg) = 0 /\ 0 < Modulus
  BY Constants DEF Init
<1>4. Shape
  BY <1>1, <1>2, <1>3, Constants DEF Init, Shape
<1>5. CallInv
  BY <1>2 DEF Init, CallInv, UnderWay, DoneExact
<1>6. RelInv /\ FaultInv
  BY DEF Init, RelInv, ReleaseExact, FaultInv, FailsOnlyOnFault, Releasing
<1>7. QED BY <1>4, <1>5, <1>6 DEF IInv

(* A package is a sequence of bytes whose length has 32 bits.                *)
LEMMA EraseKnown ==
  ASSUME NEW i \in Image
  PROVE  /\ i \in Seq(Byte) /\ Len(i) \in Nat /\ Len(i) < Modulus
         /\ EraseOf("app", Len(i)) =
              [op |-> "erase", part |-> "app", addr |-> 0, size |-> Len(i), data |-> <<>>]
         /\ KnownCall(EraseOf("app", Len(i)))
<1>1. i \in Seq(Byte) /\ Len(i) < Modulus
  BY CallAssumption
<1>2. Len(i) \in Nat
  BY <1>1
<1>3. EraseOf("app", Len(i)) =
        [op |-> "erase", part |-> "app", addr |-> 0, size |-> Len(i), data |-> <<>>]
  BY DEF EraseOf
<1>4. QED BY <1>1, <1>2, <1>3, PartAssumption DEF KnownCall

(* What Begin sets, whatever the sums do.                                    *)
LEMMA BeginShape ==
  ASSUME NEW c, KnownCall(c), Begin(c)
  PROVE  /\ call' = c /\ KnownCall(call') /\ done' = 0
         /\ ph' \in {"idle", "erase", "write"} /\ last' \in {"none", "ok", "error"}
         /\ ph' # "idle" => ph' = call'.op /\ last' = "none"
BY DEF Begin, KnownCall

(* What the operator types names a partition.                               *)
LEMMA FalKnown ==
  ASSUME NEW c \in FalCalls PROVE KnownCall(c)
BY CallAssumption, Constants DEF KnownCall

(* Every variable keeps to its range, whatever the sums do.                 *)
LEMMA ShapeStep == ASSUME IInv, Next PROVE Shape'
<1> USE DEF IInv
<1>1. mem' \in [Flash -> Byte]
  BY Effect
<1>2. CASE EraseSector
  <2>1. /\ ph' \in {"idle", ph} /\ last' \in {"ok", "error", last}
        /\ (ph' = "idle" \/ (ph' = ph /\ last' = last))
        /\ done' \in {done, done + 1} /\ call' = call
        /\ rel' = rel /\ pkg' = pkg /\ pos' = pos /\ right' = right /\ crashes' = crashes
        /\ faults' = faults \/ (faults < MaxFault /\ faults' = faults + 1)
    BY <1>2 DEF EraseSector, Return, release, Fault, NoFault
  <2>2. QED BY <1>1, <2>1, Constants DEF Shape
<1>3. CASE ProgramUnit
  <2>1. /\ ph' \in {"idle", ph} /\ last' \in {"ok", "error", last}
        /\ (ph' = "idle" \/ (ph' = ph /\ last' = last))
        /\ done' \in {done, done + Unit(Here, call.size - done)} /\ call' = call
        /\ rel' = rel /\ pkg' = pkg /\ pos' = pos /\ right' = right /\ crashes' = crashes
        /\ faults' = faults \/ (faults < MaxFault /\ faults' = faults + 1)
    BY <1>3 DEF ProgramUnit, Return, release, Fault, NoFault
  <2>2. Unit(Here, call.size - done) \in Nat
    BY DEF Unit
  <2>3. QED BY <1>1, <2>1, <2>2, Constants DEF Shape
<1>4. CASE ReleaseWrite
  <2>1. /\ pos < Len(pkg) /\ ph = "idle"
        /\ Len(NextChunk) \in Nat /\ pos + Len(NextChunk) <= Len(pkg)
    BY <1>4, BytesLeft, ChunkFacts
  <2>2. /\ mem' = mem /\ pkg' = pkg /\ crashes' = crashes /\ pos' = pos + Len(NextChunk)
    BY <1>4, WriteCases
  <2>3. CASE /\ rel' = "failed" /\ faults < MaxFault /\ faults' = faults + 1
             /\ UNCHANGED <<call, ph, done, last, right>>
    BY <2>1, <2>2, <2>3, Constants DEF Shape
  <2>4. CASE \E d \in Seq(Byte) :
               /\ Begin(WriteOf("app", pos, d)) /\ KnownCall(WriteOf("app", pos, d))
               /\ rel' = "write" /\ right' \in BOOLEAN
               /\ \/ faults' = faults
                  \/ faults < MaxFault /\ faults' = faults + 1
    <3>1. PICK d \in Seq(Byte) :
               /\ Begin(WriteOf("app", pos, d)) /\ KnownCall(WriteOf("app", pos, d))
               /\ rel' = "write" /\ right' \in BOOLEAN
               /\ \/ faults' = faults
                  \/ faults < MaxFault /\ faults' = faults + 1
      BY <2>4
    <3>2. /\ KnownCall(call') /\ done' = 0
          /\ ph' \in {"idle", "erase", "write"} /\ last' \in {"none", "ok", "error"}
          /\ ph' # "idle" => ph' = call'.op /\ last' = "none"
      BY <3>1, BeginShape
    <3>3. pos' \in 0..Len(pkg') /\ faults' \in 0..MaxFault /\ pkg' = pkg
      BY <2>1, <2>2, <3>1, Constants DEF Shape
    <3>4. mem' \in [Flash -> Byte] /\ crashes' = crashes
      BY <2>2 DEF Shape
    <3>5. QED BY <3>1, <3>2, <3>3, <3>4 DEF Shape, KnownCall
  <2>5. QED BY <1>4, <2>3, <2>4, WriteCases
<1>5. CASE ReleaseReturn
  <2>1. rel' \in {"failed", "released"} /\ ph = "idle"
    BY <1>5 DEF ReleaseReturn
  <2>2. UNCHANGED <<mem, call, ph, done, last, pkg, pos, right, faults, crashes>>
    BY <1>5 DEF ReleaseReturn
  <2>3. QED BY <2>1, <2>2 DEF Shape, KnownCall
<1>6. ASSUME NEW i \in Image, ReleaseErase(i) PROVE Shape'
  <2>1. /\ i \in Seq(Byte) /\ Len(i) \in Nat /\ Len(i) < Modulus
        /\ KnownCall(EraseOf("app", Len(i)))
    BY EraseKnown
  <2>2. /\ Begin(EraseOf("app", Len(i)))
        /\ rel' = "erase" /\ pkg' = i /\ pos' = 0 /\ right' = TRUE
        /\ mem' = mem /\ faults' = faults /\ crashes' = crashes
    BY <1>6 DEF ReleaseErase
  <2>3. /\ KnownCall(call') /\ done' = 0
        /\ ph' \in {"idle", "erase", "write"} /\ last' \in {"none", "ok", "error"}
        /\ ph' # "idle" => ph' = call'.op /\ last' = "none"
    BY <2>1, <2>2, BeginShape
  <2>4. QED BY <2>1, <2>2, <2>3 DEF Shape, KnownCall
<1>7. CASE Fal
  <2>1. PICK c \in FalCalls : Begin(c)
    BY <1>7 DEF Fal
  <2>2. /\ KnownCall(call') /\ done' = 0
        /\ ph' \in {"idle", "erase", "write"} /\ last' \in {"none", "ok", "error"}
        /\ ph' # "idle" => ph' = call'.op /\ last' = "none"
    BY <2>1, FalKnown, BeginShape
  <2>3. rel' = "none" /\ UNCHANGED <<mem, pkg, pos, right, faults, crashes>>
    BY <1>7 DEF Fal
  <2>4. QED BY <2>2, <2>3 DEF Shape, KnownCall
<1>8. CASE Crash
  <2>1. /\ crashes < MaxCrash /\ crashes' = crashes + 1 /\ faults' = faults
        /\ call' = NoCall /\ ph' = "idle" /\ done' = 0 /\ last' = "none"
        /\ rel' = "none" /\ pkg' = <<>> /\ pos' = 0 /\ right' = TRUE
    BY <1>8 DEF Crash
  <2>2. KnownCall(call')
    BY <2>1, PartAssumption DEF NoCall, KnownCall
  <2>3. pkg' \in Seq(Byte) /\ Len(pkg') = 0 /\ 0 < Modulus
    BY <2>1, Constants
  <2>4. QED BY <1>1, <2>1, <2>2, <2>3, Constants DEF Shape, KnownCall
<1>9. QED BY <1>2, <1>3, <1>4, <1>5, <1>6, <1>7, <1>8 DEF Next, Main, Driver

(* An erase has erased what it has passed.                                   *)
LEMMA EraseCall ==
  ASSUME Shape, UnderWay, EraseSector, mem' \in [Flash -> Byte]
  PROVE  UnderWay'
<1> DEFINE f == FirstSector(call)
           n == NbOfSectors(call)
           s == f + done
<1>1. /\ ph = "erase" /\ call' = call /\ done \in Nat
      /\ Good(call) /\ call.op = "erase" /\ done < n /\ done <= call.size
      /\ done > 0 => Addr(call) + done <= Start[s]
      /\ \A a \in Range(call) : a < Start[s] => mem[a] = Erased
  BY DEF EraseSector, Return, Shape, UnderWay
<1>2. /\ f \in 0..Sectors-1 /\ n \in Nat /\ n >= 1 /\ f + n <= Sectors
      /\ Addr(call) < Start[f+1] /\ Addr(call) + call.size <= Start[f+n]
  BY <1>1, GoodSectors
<1>3. /\ s \in 0..Sectors-1 /\ Cells(s) = Start[s] .. Start[s+1] - 1
      /\ Start[s] <= Addr(call) + call.size - 1
  BY <1>1, Place
<1>4. /\ Addr(call) \in Nat /\ call.size \in Nat /\ call.size >= 1
      /\ Range(call) \subseteq Flash /\ \A a \in Range(call) : a \in Int
  BY <1>1, GoodRange DEF Range
<1> HIDE DEF f, n
<1>5. f + (done + 1) = s + 1 /\ s \in 0..Sectors /\ s + 1 \in 0..Sectors
  BY <1>1, <1>2, <1>3, Constants
<1>6. Start[s] \in Nat /\ Start[s+1] \in Nat /\ Start[s] < Start[s+1]
  BY <1>5, Constants
<1>7. CASE ph' = "idle" /\ last' = "error" /\ done' = done
  BY <1>1, <1>7 DEF UnderWay, DoneExact, Good, KnownCall
<1>8. ASSUME mem' = [a \in Flash |-> IF a \in Cells(s) THEN Erased ELSE mem[a]]
      PROVE  \A a \in Range(call) : a < Start[s+1] => mem'[a] = Erased
  <2> SUFFICES ASSUME NEW a \in Range(call), a < Start[s+1] PROVE mem'[a] = Erased
    OBVIOUS
  <2>1. a \in Flash /\ a \in Int
    BY <1>4
  <2>2. CASE a < Start[s]
    <3>1. mem[a] = Erased
      BY <1>1, <2>2
    <3>2. QED BY <1>8, <2>1, <3>1
  <2>3. CASE ~ (a < Start[s])
    <3>1. a \in Cells(s)
      BY <1>3, <1>6, <2>1, <2>3
    <3>2. QED BY <1>8, <2>1, <3>1
  <2>4. QED BY <2>2, <2>3
<1>9. CASE /\ mem' = [a \in Flash |-> IF a \in Cells(s) THEN Erased ELSE mem[a]]
           /\ done + 1 < n /\ done' = done + 1 /\ ph' = ph /\ last' = last
  <2>1. Addr(call) + (done + 1) <= Start[s+1]
    BY <1>1, <1>2, <1>4, <1>5, <1>6
  <2>2. done + 1 <= call.size
    BY SMTT(30), <1>1, <1>2, <1>3, <1>4, <1>6
  <2>3. \A a \in Range(call) : a < Start[s+1] => mem'[a] = Erased
    BY <1>8, <1>9
  <2>4. Good(call') /\ last' = "none" /\ ph' = "erase"
    BY <1>1, <1>9 DEF Shape
  <2>5. /\ done' < NbOfSectors(call')
        /\ Addr(call') + done' <= Start[FirstSector(call') + done']
        /\ \A a \in Range(call') : a < Start[FirstSector(call') + done'] => mem'[a] = Erased
    BY <1>1, <1>5, <1>9, <2>1, <2>3 DEF f, n
  <2>6. done' <= call'.size
    BY <1>1, <1>9, <2>2
  <2>7. QED BY <2>4, <2>5, <2>6 DEF UnderWay, DoneExact
<1>10. CASE /\ mem' = [a \in Flash |-> IF a \in Cells(s) THEN Erased ELSE mem[a]]
            /\ ~ (done + 1 < n) /\ done' = done /\ ph' = "idle" /\ last' = "ok"
  <2>1. s + 1 = f + n
    BY <1>1, <1>2, <1>10
  <2>2. \A a \in Range(call) : a < Start[s+1]
    BY <1>2, <1>4, <1>6, <2>1 DEF Range
  <2>3. \A a \in Range(call) : mem'[a] = Erased
    BY <1>8, <1>10, <2>2
  <2>4. Good(call') /\ done' <= call'.size /\ call'.op = "erase"
    BY <1>1, <1>10
  <2>5. DoneExact'
    BY <1>1, <2>3, <2>4 DEF DoneExact
  <2>6. QED BY <1>10, <2>4, <2>5 DEF UnderWay
<1>11. \/ ph' = "idle" /\ last' = "error" /\ done' = done
       \/ /\ mem' = [a \in Flash |-> IF a \in Cells(s) THEN Erased ELSE mem[a]]
          /\ IF done + 1 < n
             THEN done' = done + 1 /\ ph' = ph /\ last' = last
             ELSE done' = done /\ ph' = "idle" /\ last' = "ok"
  BY DEF EraseSector, Return, f, n
<1>12. QED BY <1>7, <1>9, <1>10, <1>11

(* A write has written what it has passed, and read it back.                 *)
LEMMA ProgramCall ==
  ASSUME Shape, UnderWay, ProgramUnit, mem' \in [Flash -> Byte]
  PROVE  UnderWay'
<1> DEFINE u == Unit(Here, call.size - done)
<1>1. /\ ph = "write" /\ call' = call /\ done \in Nat
      /\ Good(call) /\ call.op = "write" /\ done < call.size
      /\ \A a \in Range(call) : a < Here => mem[a] = Given(a)
  BY DEF ProgramUnit, Return, Shape, UnderWay
<1>2. /\ Addr(call) \in Nat /\ call.size \in Nat /\ call.size >= 1
      /\ Range(call) \subseteq Flash /\ \A a \in Range(call) : a \in Int
  BY <1>1, GoodRange DEF Range
<1>3. /\ u \in Nat /\ u >= 1 /\ done + u <= call.size
      /\ Here \in Nat /\ Chunk = Here .. Here + u - 1
  BY <1>1, Place
<1>4. \/ ph' = "idle" /\ last' = "error" /\ done' = done
      \/ /\ mem' = [a \in Flash |-> IF a \in Chunk THEN mem[a] \cap Given(a) ELSE mem[a]]
         /\ \A a \in Chunk : mem'[a] = Given(a)
         /\ IF done + u < call.size
            THEN done' = done + u /\ ph' = ph /\ last' = last
            ELSE done' = done /\ ph' = "idle" /\ last' = "ok"
  BY DEF ProgramUnit, Return, ReadsBack
<1> HIDE DEF u
<1>5. ASSUME mem' = [a \in Flash |-> IF a \in Chunk THEN mem[a] \cap Given(a) ELSE mem[a]],
             \A a \in Chunk : mem'[a] = Given(a)
      PROVE  \A a \in Range(call) : a < Here + u => mem'[a] = Given(a)
  <2> SUFFICES ASSUME NEW a \in Range(call), a < Here + u PROVE mem'[a] = Given(a)
    OBVIOUS
  <2>1. a \in Flash /\ a \in Int
    BY <1>2
  <2>2. CASE a < Here
    <3>1. a \notin Chunk
      BY <1>3, <2>1, <2>2
    <3>2. QED BY <1>1, <1>5, <2>1, <2>2, <3>1
  <2>3. CASE ~ (a < Here)
    <3>1. a \in Chunk
      BY <1>3, <2>1, <2>3
    <3>2. QED BY <1>5, <3>1
  <2>4. QED BY <2>2, <2>3
<1>6. \A a : Given(a)' = Given(a)
  BY <1>1 DEF Given
<1>7. CASE ph' = "idle" /\ last' = "error" /\ done' = done
  BY <1>1, <1>2, <1>7 DEF UnderWay, DoneExact
<1>8. CASE /\ mem' = [a \in Flash |-> IF a \in Chunk THEN mem[a] \cap Given(a) ELSE mem[a]]
           /\ \A a \in Chunk : mem'[a] = Given(a)
           /\ done + u < call.size /\ done' = done + u /\ ph' = ph /\ last' = last
  <2>1. Here' = Here + u
    BY <1>1, <1>2, <1>3, <1>8 DEF Here
  <2>2. \A a \in Range(call') : a < Here' => mem'[a] = Given(a)'
    BY <1>1, <1>5, <1>6, <1>8, <2>1
  <2>3. Good(call') /\ last' = "none" /\ ph' = "write" /\ done' < call'.size
        /\ done' <= call'.size
    BY <1>1, <1>2, <1>3, <1>8 DEF Shape
  <2>4. QED BY <2>2, <2>3 DEF UnderWay, DoneExact
<1>9. CASE /\ mem' = [a \in Flash |-> IF a \in Chunk THEN mem[a] \cap Given(a) ELSE mem[a]]
           /\ \A a \in Chunk : mem'[a] = Given(a)
           /\ ~ (done + u < call.size) /\ done' = done /\ ph' = "idle" /\ last' = "ok"
  <2>1. \A a \in Range(call) : a < Here + u
    BY SMTT(30), <1>1, <1>2, <1>3, <1>9 DEF Range, Here
  <2>2. \A a \in Range(call) : mem'[a] = Given(a)
    BY <1>5, <1>9, <2>1
  <2>3. Good(call') /\ done' <= call'.size /\ call'.op = "write"
    BY <1>1, <1>2, <1>9
  <2>4. DoneExact'
    BY <1>1, <1>6, <2>2, <2>3 DEF DoneExact
  <2>5. QED BY <1>9, <2>3, <2>4 DEF UnderWay
<1>10. QED BY <1>4, <1>7, <1>8, <1>9

(* A call whose sums did not wrap has done what it says it has done.         *)
LEMMA CallStep == ASSUME IInv, Next PROVE CallInv'
<1> SUFFICES ASSUME Sound' PROVE UnderWay'
  BY DEF CallInv
<1>1. Shape /\ CallInv /\ RelInv
  BY DEF IInv
<1>2. mem' \in [Flash -> Byte]
  BY <1>1, Effect
<1>3. ASSUME rel' = rel PROVE UnderWay
  BY <1>1, <1>3 DEF CallInv, Sound, Releasing
<1>4. CASE EraseSector
  <2>1. rel' = rel
    BY <1>4 DEF EraseSector, release
  <2>2. QED BY <1>1, <1>2, <1>3, <1>4, <2>1, EraseCall
<1>5. CASE ProgramUnit
  <2>1. rel' = rel
    BY <1>5 DEF ProgramUnit, release
  <2>2. QED BY <1>1, <1>2, <1>3, <1>5, <2>1, ProgramCall
<1>6. CASE ReleaseWrite
  <2>1. UnderWay /\ pos < Len(pkg) /\ Len(pkg) < Modulus /\ pos \in Nat /\ Len(pkg) \in Nat
    BY <1>1, <1>6, BytesLeft DEF Shape
  <2>2. Len(NextChunk) \in Nat /\ pos + Len(NextChunk) <= Len(pkg)
    BY <1>1, <2>1, ChunkFacts
  <2>3. CASE UNCHANGED <<call, ph, done, last, right>> /\ mem' = mem
    BY <2>1, <2>3 DEF UnderWay, DoneExact, Here, Given
  <2>4. CASE \E d \in Seq(Byte) :
               /\ Len(d) = Len(NextChunk)
               /\ Begin(WriteOf("app", pos, d)) /\ KnownCall(WriteOf("app", pos, d))
    <3>1. PICK d \in Seq(Byte) :
               /\ Len(d) = Len(NextChunk)
               /\ Begin(WriteOf("app", pos, d)) /\ KnownCall(WriteOf("app", pos, d))
      BY <2>4
    <3> DEFINE c == WriteOf("app", pos, d)
    <3>2. c.addr = pos /\ c.size = Len(NextChunk)
      BY <3>1 DEF WriteOf
    <3>3. Modulus \in Nat
      BY Constants
    <3>4. c.addr + c.size < Modulus
      BY <2>1, <2>2, <3>2, <3>3
    <3> HIDE DEF c
    <3>5. KnownCall(c) /\ Begin(c)
      BY <3>1 DEF c
    <3>6. QED BY <3>4, <3>5, BeginUnderWay
  <2>5. QED BY <1>1, <1>6, <2>3, <2>4, WriteCases
<1>7. CASE ReleaseReturn
  <2>1. UnderWay /\ UNCHANGED <<mem, call, ph, done, last, pkg, pos, right, faults, crashes>>
    BY <1>1, <1>7 DEF ReleaseReturn, CallInv, Sound, Releasing
  <2>2. QED BY <2>1 DEF UnderWay, DoneExact, Here, Given
<1>8. ASSUME NEW i \in Image, ReleaseErase(i) PROVE UnderWay'
  <2> DEFINE c == EraseOf("app", Len(i))
  <2>1. /\ Len(i) \in Nat /\ Len(i) < Modulus /\ KnownCall(c) /\ c.addr = 0 /\ c.size = Len(i)
    BY EraseKnown
  <2>2. Begin(c)
    BY <1>8 DEF ReleaseErase
  <2> HIDE DEF c
  <2>3. c.addr + c.size < Modulus
    BY <2>1
  <2>4. QED BY <2>1, <2>2, <2>3, BeginUnderWay
<1>9. CASE Fal
  <2>1. PICK c \in FalCalls : Begin(c)
    BY <1>9 DEF Fal
  <2>2. rel' = "none"
    BY <1>9 DEF Fal
  <2>3. c.addr + c.size < Modulus
    BY <2>2 DEF Sound, Releasing, NoWrap
  <2>4. QED BY <2>1, <2>3, FalKnown, BeginUnderWay
<1>10. CASE Crash
  <2>1. call'.size = 0 /\ done' = 0 /\ ph' = "idle" /\ last' = "none"
    BY <1>10 DEF Crash, NoCall
  <2>2. QED BY <2>1 DEF UnderWay, DoneExact
<1>11. QED BY <1>4, <1>5, <1>6, <1>7, <1>8, <1>9, <1>10 DEF Next, Main, Driver

(* The release still knows what it has written.                              *)
LEMMA RelStep == ASSUME IInv, Next PROVE RelInv'
<1>1. Shape /\ CallInv /\ RelInv
  BY DEF IInv
<1>2. ASSUME rel' \in {"none", "failed"} PROVE RelInv'
  BY <1>2 DEF RelInv, ReleaseExact
<1>3. CASE EraseSector
  <2>1. /\ ph = "erase" /\ call' = call
        /\ rel' = rel /\ pkg' = pkg /\ pos' = pos /\ right' = right
    BY <1>3 DEF EraseSector, Return, release
  <2>2. call.op = "erase" /\ rel \in {"none", "erase", "write"}
    BY <1>1, <2>1 DEF Shape
  <2>3. rel # "write"
    BY <1>1, <2>2 DEF RelInv
  <2>4. QED BY <1>1, <2>1, <2>2, <2>3 DEF RelInv, ReleaseExact
<1>4. CASE ProgramUnit
  <2>1. /\ ph = "write" /\ call' = call
        /\ rel' = rel /\ pkg' = pkg /\ pos' = pos /\ right' = right
    BY <1>4 DEF ProgramUnit, Return, release
  <2>2. call.op = "write" /\ rel \in {"none", "erase", "write"}
    BY <1>1, <2>1 DEF Shape
  <2>3. rel # "erase"
    BY <1>1, <2>2 DEF RelInv, EraseOf
  <2>4. CASE rel = "none"
    BY <1>2, <2>1, <2>4
  <2>5. CASE rel = "write"
    <3>1. UnderWay /\ Good(call)
      BY <1>1, <2>1, <2>5 DEF CallInv, Sound, Releasing, UnderWay
    <3>2. /\ call.part = "app" /\ call.addr \in Nat /\ Base("app") \in Nat
          /\ Addr(call) = Base("app") + call.addr /\ call.size \in Nat
          /\ Addr(call) + call.size <= Start[Sectors]
          /\ Base("app") >= Start[0] /\ Start[0] \in Nat /\ Start[Sectors] \in Nat
      <4>1. call.part = "app"
        BY <1>1, <2>5 DEF RelInv
      <4>2. /\ call.addr \in Nat /\ Base("app") \in Nat /\ call.size \in Nat
            /\ Addr(call) = Base("app") + call.addr
            /\ Addr(call) + call.size <= Start[Sectors]
        BY <3>1, <4>1, GoodRange
      <4>3. /\ "app" \in DOMAIN Part /\ 0 \in 0..Sectors /\ Sectors \in 0..Sectors
        BY PartAssumption, Constants
      <4>4. Part["app"].offset \in Nat /\ Start[0] \in Nat /\ Start[Sectors] \in Nat
        BY <4>3, PartSpan, Constants
      <4>5. QED BY <4>1, <4>2, <4>4 DEF Base
    <3>3. ASSUME NEW i \in 1..call.addr, right, mem[Base("app") + i - 1] = pkg[i]
          PROVE  mem'[Base("app") + i - 1] = pkg[i]
      <4> DEFINE a == Base("app") + i - 1
      <4>1. a \in Flash
        <5>1. Start[0] <= a /\ a <= Start[Sectors] - 1 /\ a \in Int
          BY <3>2
        <5>2. QED BY <3>2, <5>1 DEF Flash
      <4>2. Chunk \subseteq Range(call)
        BY <1>1, <2>1, <3>1, Place
      <4>3. a \notin Chunk
        BY <3>2, <4>2 DEF Range
      <4>4. mem'[a] = mem[a]
        BY <1>1, <2>1, <4>1, <4>3, Effect
      <4>5. QED BY <3>3, <4>4
    <3>4. QED BY <1>1, <2>1, <2>5, <3>3 DEF RelInv, ReleaseExact
  <2>6. QED BY <2>2, <2>3, <2>4, <2>5
<1>5. CASE ReleaseWrite
  <2>1. /\ Releasing /\ ph = "idle" /\ last = "ok" /\ pos < Len(pkg)
        /\ Len(pkg) \in 1..Part["app"].len
    BY <1>1, <1>5, BytesLeft
  <2>2. /\ Len(NextChunk) \in Nat
        /\ \A j \in 1..Len(NextChunk) : NextChunk[j] = pkg[pos + j]
    BY <1>1, <2>1, ChunkFacts
  <2>3. mem' = mem /\ pkg' = pkg /\ pos' = pos + Len(NextChunk)
    BY <1>1, <1>5, WriteCases
  <2>4. CASE rel' = "failed"
    BY <1>2, <2>4
  <2>5. CASE \E d \in Seq(Byte) :
               /\ Len(d) = Len(NextChunk) /\ Begin(WriteOf("app", pos, d))
               /\ rel' = "write" /\ (right' => right /\ d = NextChunk)
    <3>1. PICK d \in Seq(Byte) :
               /\ Len(d) = Len(NextChunk) /\ Begin(WriteOf("app", pos, d))
               /\ rel' = "write" /\ (right' => right /\ d = NextChunk)
      BY <2>5
    <3>2. call' = [op |-> "write", part |-> "app", addr |-> pos,
                   size |-> Len(NextChunk), data |-> d]
      BY <3>1 DEF Begin, WriteOf
    <3>3. /\ call'.op = "write" /\ call'.part = "app" /\ call'.addr = pos
          /\ call'.size = Len(NextChunk) /\ call'.data = d
      BY <3>2
    <3>4. ASSUME right PROVE \A i \in 1..pos : mem[Base("app") + i - 1] = pkg[i]
      <4>1. CASE rel = "write"
        BY <1>1, <2>1, <3>4, <4>1, Written
      <4>2. CASE rel = "erase"
        BY <1>1, <4>2 DEF RelInv
      <4>3. QED BY <2>1, <4>1, <4>2 DEF Releasing
    <3>5. right' => /\ \A j \in 1..call'.size : call'.data[j] = pkg'[call'.addr + j]
                    /\ \A i \in 1..call'.addr : mem'[Base("app") + i - 1] = pkg'[i]
      BY <2>2, <2>3, <3>1, <3>3, <3>4
    <3>6. QED BY <2>1, <2>3, <3>1, <3>3, <3>5 DEF RelInv, ReleaseExact
  <2>6. QED BY <1>1, <1>5, <2>4, <2>5, WriteCases
<1>6. CASE ReleaseReturn
  <2>1. CASE rel' = "failed"
    BY <1>2, <2>1
  <2>2. CASE rel = "write" /\ last = "ok" /\ pos = Len(pkg) /\ CrcMatches /\ rel' = "released"
    <3>1. /\ ph = "idle" /\ right /\ mem' = mem /\ pkg' = pkg
      BY <1>6, <2>2 DEF ReleaseReturn, CrcMatches
    <3>2. \A i \in 1..pos : mem[Base("app") + i - 1] = pkg[i]
      BY <1>1, <2>2, <3>1, Written
    <3>3. QED BY <2>2, <3>1, <3>2 DEF RelInv, ReleaseExact, Base
  <2>3. QED BY <1>6, <2>1, <2>2 DEF ReleaseReturn
<1>7. ASSUME NEW i \in Image, ReleaseErase(i) PROVE RelInv'
  <2>1. /\ call' = EraseOf("app", Len(i)) /\ rel' = "erase" /\ pkg' = i
        /\ pos' = 0 /\ right' = TRUE
    BY <1>7 DEF ReleaseErase, Begin
  <2>2. QED BY <2>1 DEF RelInv, ReleaseExact
<1>8. CASE Fal
  BY <1>2, <1>8 DEF Fal
<1>9. CASE Crash
  BY <1>2, <1>9 DEF Crash
<1>10. QED BY <1>3, <1>4, <1>5, <1>6, <1>7, <1>8, <1>9 DEF Next, Main, Driver

(* Without a failure, what is still to be written is erased.                 *)
LEMMA FaultStep == ASSUME IInv, Next PROVE FaultInv'
<1>1. Shape /\ CallInv /\ RelInv /\ FaultInv
  BY DEF IInv
<1>2. ASSUME rel' = "none" \/ faults' # 0 PROVE FaultInv'
  BY <1>2 DEF FaultInv, FailsOnlyOnFault, Releasing
<1> SUFFICES ASSUME faults' = 0 PROVE FaultInv'
  BY <1>2
<1>3. faults \in Nat
  BY <1>1, Constants DEF Shape
<1>4. CASE EraseSector
  <2>1. /\ ph = "erase" /\ call' = call /\ faults' \in {faults, faults + 1}
        /\ rel' = rel /\ pkg' = pkg /\ pos' = pos /\ right' = right
    BY <1>4 DEF EraseSector, Return, release, Fault, NoFault
  <2>2. faults = 0 /\ call.op = "erase" /\ rel \in {"none", "erase", "write"} /\ last = "none"
    BY <1>1, <1>3, <2>1 DEF Shape
  <2>3. rel # "write"
    BY <1>1, <2>2 DEF RelInv
  <2>4. CASE rel = "none"
    BY <1>2, <2>1, <2>4
  <2>5. CASE rel = "erase"
    <3>1. UnderWay
      BY <1>1, <2>5 DEF CallInv, Sound, Releasing
    <3>2. FirstSector(call) + done \in 0..Sectors-1
      BY <1>1, <2>1, <3>1, Place
    <3>3. ~ (FirstSector(call) + done >= Sectors)
      BY <3>2, Constants
    <3>4. last' \in {"none", "ok"}
      BY <1>3, <1>4, <2>2, <3>3 DEF EraseSector, Return, Fault, NoFault
    <3>5. QED BY <2>1, <2>5, <3>4 DEF FaultInv, FailsOnlyOnFault
  <2>6. QED BY <2>2, <2>3, <2>4, <2>5
<1>5. CASE ProgramUnit
  <2> DEFINE u == Unit(Here, call.size - done)
  <2>1. /\ ph = "write" /\ call' = call /\ faults' \in {faults, faults + 1}
        /\ rel' = rel /\ pkg' = pkg /\ pos' = pos /\ right' = right
    BY <1>5 DEF ProgramUnit, Return, release, Fault, NoFault
  <2>2. faults = 0 /\ call.op = "write" /\ rel \in {"none", "erase", "write"} /\ last = "none"
    BY <1>1, <1>3, <2>1 DEF Shape
  <2>3. rel # "erase"
    BY <1>1, <2>2 DEF RelInv, EraseOf
  <2>4. CASE rel = "none"
    BY <1>2, <2>1, <2>4
  <2>5. CASE rel = "write"
    <3> DEFINE e == Base("app") + Len(pkg) - 1
    <3>1. UnderWay /\ Good(call)
      BY <1>1, <2>1, <2>5 DEF CallInv, Sound, Releasing, UnderWay
    <3>2. /\ right /\ \A a \in Here .. e : mem[a] = Erased
      BY <1>1, <2>1, <2>2, <2>5 DEF FaultInv, Ahead
    <3>3. /\ call.part = "app" /\ call.addr + call.size = pos
          /\ pos \in Nat /\ pos <= Len(pkg) /\ Len(pkg) \in Nat /\ pkg \in Seq(Byte)
          /\ Len(pkg) <= Part["app"].len
      BY <1>1, <2>5 DEF RelInv, Shape
    <3>4. /\ Base("app") \in Nat /\ call.addr \in Nat /\ call.size \in Nat
          /\ Addr(call) = Base("app") + call.addr
          /\ Range(call) \subseteq Flash
      BY <3>1, <3>3, GoodRange
    <3>5. /\ u \in Nat /\ u >= 1 /\ done + u <= call.size /\ done \in Nat
          /\ Here \in Nat /\ Chunk = Here .. Here + u - 1 /\ Chunk \subseteq Range(call)
      BY <1>1, <2>1, <3>1, Place DEF Shape
    <3> HIDE DEF u
    <3>6. /\ Addr(call) + call.size = Base("app") + pos
          /\ Here + u <= Base("app") + pos
          /\ Base("app") + pos \in Nat /\ Base("app") + pos <= e + 1
          /\ Base("app") <= Here /\ e \in Int
      <4>1. Addr(call) + call.size = Base("app") + (call.addr + call.size)
        BY <3>4
      <4>2. Addr(call) + call.size = Base("app") + pos
        BY <3>3, <4>1
      <4>3. Here + u <= Addr(call) + call.size /\ Base("app") <= Here
        BY <3>4, <3>5 DEF Here
      <4>4. /\ Base("app") + pos \in Nat /\ Base("app") + pos <= e + 1
            /\ e \in Int
        BY <3>3, <3>4
      <4>5. QED BY <4>2, <4>3, <4>4
    <3>7. ASSUME NEW a \in Chunk PROVE mem[a] \cap Given(a) = Given(a) /\ a \in Flash
      <4>1. a \in Here .. e
        BY SMTT(30), <3>3, <3>4, <3>5, <3>6
      <4>2. Given(a) \in Byte
        BY <2>2, <3>1, <3>5, GivenByte
      <4>3. QED BY <3>2, <3>4, <3>5, <4>1, <4>2 DEF Byte, Erased
    <3>8. mem' = [a \in Flash |-> IF a \in Chunk THEN mem[a] \cap Given(a) ELSE mem[a]]
      BY <1>3, <1>5, <2>2 DEF ProgramUnit, Fault, NoFault
    <3>9. ReadsBack(mem')
      BY <3>7, <3>8 DEF ReadsBack
    <3>10. IF done + u < call.size
           THEN done' = done + u /\ ph' = ph /\ last' = last
           ELSE ph' = "idle" /\ last' = "ok"
      BY <1>3, <1>5, <2>2, <3>9 DEF ProgramUnit, Return, Fault, NoFault, u
    <3>11. last' # "error"
      BY <2>2, <3>10
    <3>12. Ahead' >= Here + u /\ Ahead' \in Nat
      <4>1. CASE done + u < call.size
        <5>1. ph' = "write" /\ Here' = Addr(call) + (done + u)
          BY <2>1, <3>10, <4>1 DEF Here
        <5>2. Here' = Here + u
          BY <3>4, <3>5, <5>1 DEF Here
        <5>3. QED BY <3>5, <5>1, <5>2 DEF Ahead
      <4>2. CASE ~ (done + u < call.size)
        <5>1. Ahead' = Base("app") + pos
          BY <2>1, <3>10, <4>2 DEF Ahead
        <5>2. Base("app") + pos \in Nat /\ Base("app") + pos >= Here + u
          BY <3>5, <3>6
        <5>3. QED BY <5>1, <5>2
      <4>3. QED BY <4>1, <4>2
    <3>13. ASSUME NEW a \in Ahead' .. e PROVE mem'[a] = Erased
      <4>1. a \in Here .. e /\ a \notin Chunk /\ a \in Int
        BY <3>3, <3>4, <3>5, <3>12
      <4>2. mem[a] = Erased
        BY <3>2, <4>1
      <4>3. a \in Flash
        <5>1. "app" \in DOMAIN Part
          BY PartAssumption
        <5>2. /\ Area("app") = Base("app") .. Base("app") + Part["app"].len - 1
              /\ Area("app") \subseteq Flash /\ Part["app"].len \in Nat
          BY <5>1, PartSpan
        <5>3. Base("app") <= a
          BY <3>4, <3>5, <3>6, <4>1
        <5>4. e <= Base("app") + Part["app"].len - 1
          BY <3>3, <3>4, <5>2
        <5>5. Base("app") + Part["app"].len - 1 \in Int
          BY <3>4, <5>2
        <5>6. a <= e
          BY <3>5, <3>6, <4>1
        <5>7. a <= Base("app") + Part["app"].len - 1
          BY <3>6, <4>1, <5>4, <5>5, <5>6
        <5>8. a \in Area("app")
          BY <3>4, <4>1, <5>2, <5>3, <5>5, <5>7
        <5>9. QED BY <5>2, <5>8
      <4>4. QED BY <3>8, <4>1, <4>2, <4>3
    <3>14. right' /\ rel' = "write" /\ pkg' = pkg
      BY <2>1, <2>5, <3>2
    <3>15. \A a \in Ahead' .. Base("app") + Len(pkg') - 1 : mem'[a] = Erased
      BY <3>13, <3>14
    <3>16. QED BY <3>11, <3>14, <3>15 DEF FaultInv, FailsOnlyOnFault
  <2>6. QED BY <2>2, <2>3, <2>4, <2>5
<1>6. CASE ReleaseWrite
  <2>1. /\ Releasing /\ ph = "idle" /\ last = "ok" /\ UnderWay /\ Good(call)
        /\ pos < Len(pkg) /\ Len(pkg) \in 1..Part["app"].len
    BY <1>1, <1>6, BytesLeft
  <2>2. /\ NextChunk \in Seq(Byte) /\ Len(NextChunk) \in Nat /\ Len(NextChunk) >= 1
        /\ pos + Len(NextChunk) <= Len(pkg)
    BY <1>1, <2>1, ChunkFacts
  <2>3. /\ mem' = mem /\ pkg' = pkg /\ pos' = pos + Len(NextChunk)
    BY <1>1, <1>6, WriteCases
  <2>4. PICK d \in Seq(Byte) :
          /\ Len(d) = Len(NextChunk)
          /\ Begin(WriteOf("app", pos, d)) /\ KnownCall(WriteOf("app", pos, d))
          /\ rel' = "write" /\ faults' = faults /\ right' = right
    BY <1>1, <1>3, <1>6, WriteCases
  <2>5. faults = 0 /\ pos \in Nat /\ Len(pkg) \in Nat /\ Len(pkg) < Modulus /\ Modulus \in Nat
    BY <1>1, <2>4, Constants DEF Shape
  <2> DEFINE c == WriteOf("app", pos, d)
  <2>6. c.op = "write" /\ c.part = "app" /\ c.addr = pos /\ c.size = Len(NextChunk)
    BY <2>4 DEF WriteOf
  <2>7. KnownCall(c) /\ Begin(c)
    BY <2>4
  <2> HIDE DEF c
  <2>8. Good(c)
    <3>1. Part["app"].len \in Nat
      BY PartAssumption
    <3>2. c.addr + c.size <= Part["app"].len
      BY <2>1, <2>2, <2>5, <2>6, <3>1
    <3>3. QED BY <2>2, <2>6, <2>7, <3>2 DEF Good
  <2>9. c.addr + c.size < Modulus
    BY <2>2, <2>5, <2>6
  <2>10. call' = c /\ done' = 0 /\ ph' = "write" /\ last' = "none"
    BY <2>6, <2>7, <2>8, <2>9, BeginCall
  <2>11. /\ Addr(c) = Base("app") + pos /\ Base("app") \in Nat
    BY <2>6, <2>8, GoodRange
  <2>12. Ahead' = Base("app") + pos
    BY <2>5, <2>10, <2>11 DEF Ahead, Here
  <2>13. right /\ \A a \in Base("app") + pos .. Base("app") + Len(pkg) - 1 : mem[a] = Erased
    <3>1. CASE rel = "write"
      BY <1>1, <2>1, <2>5, <3>1 DEF FaultInv, Ahead
    <3>2. CASE rel = "erase"
      <4>1. call = EraseOf("app", Len(pkg)) /\ pos = 0 /\ right
        BY <1>1, <3>2 DEF RelInv
      <4>2. call.op = "erase" /\ call.part = "app" /\ call.addr = 0 /\ call.size = Len(pkg)
        BY <4>1 DEF EraseOf
      <4>3. Addr(call) = Base("app")
        BY <2>1, <2>11, <4>2, GoodRange
      <4>4. \A a \in Range(call) : mem[a] = Erased
        BY <2>1, <4>2 DEF UnderWay, DoneExact
      <4>5. Range(call) = Base("app") .. Base("app") + Len(pkg) - 1
        BY <4>2, <4>3 DEF Range
      <4>6. Base("app") + pos = Base("app")
        BY <2>11, <4>1
      <4>7. QED BY <4>1, <4>4, <4>5, <4>6
    <3>3. QED BY <2>1, <3>1, <3>2 DEF Releasing
  <2>14. \A a \in Ahead' .. Base("app") + Len(pkg') - 1 : mem'[a] = Erased
    BY <2>3, <2>12, <2>13
  <2>15. right' /\ rel' = "write" /\ last' # "error"
    BY <2>4, <2>10, <2>13
  <2>16. QED BY <2>14, <2>15 DEF FaultInv, FailsOnlyOnFault
<1>7. CASE ReleaseReturn
  <2>1. UNCHANGED <<mem, call, ph, done, last, pkg, pos, right, faults, crashes>>
    BY <1>7 DEF ReleaseReturn
  <2>2. faults = 0 /\ rel' \in {"failed", "released"}
    BY <1>7, <2>1 DEF ReleaseReturn
  <2>3. rel' = "failed" => ~ (Len(pkg) \in 1..Part["app"].len)
    <3>1. CASE rel \in {"erase", "write"} /\ last = "error"
      BY <1>1, <2>2, <3>1 DEF FaultInv, Releasing
    <3>2. CASE rel = "write" /\ rel' = IF CrcMatches THEN "released" ELSE "failed"
      BY <1>1, <2>2, <3>2 DEF FaultInv, CrcMatches
    <3>3. QED BY <1>7, <3>1, <3>2 DEF ReleaseReturn
  <2>4. QED BY <2>1, <2>2, <2>3 DEF FaultInv, FailsOnlyOnFault, Releasing
<1>8. ASSUME NEW i \in Image, ReleaseErase(i) PROVE FaultInv'
  <2> DEFINE c == EraseOf("app", Len(i))
  <2>1. /\ Len(i) \in Nat /\ Len(i) < Modulus /\ KnownCall(c)
        /\ c.op = "erase" /\ c.part = "app" /\ c.addr = 0 /\ c.size = Len(i)
    BY EraseKnown
  <2>2. Begin(c) /\ rel' = "erase" /\ pkg' = i
    BY <1>8 DEF ReleaseErase
  <2> HIDE DEF c
  <2>3. ASSUME Len(i) \in 1..Part["app"].len PROVE last' = "none"
    <3>1. Good(c)
      BY <2>1, <2>3 DEF Good
    <3>2. c.addr + c.size < Modulus
      BY <2>1
    <3>3. QED BY <2>1, <2>2, <3>1, <3>2, BeginCall
  <2>4. QED BY <2>2, <2>3 DEF FaultInv, FailsOnlyOnFault
<1>9. CASE Fal
  BY <1>2, <1>9 DEF Fal
<1>10. CASE Crash
  BY <1>2, <1>10 DEF Crash
<1>11. QED BY <1>4, <1>5, <1>6, <1>7, <1>8, <1>9, <1>10 DEF Next, Main, Driver
-----------------------------------------------------------------------------

(* The invariant holds in every reachable state, with no hypothesis on what  *)
(* the operator types.                                                       *)
THEOREM Inductive == Spec => []IInv
<1>1. Init => IInv
  BY InitIInv
<1>2. IInv /\ [Next]_vars => IInv'
  <2> SUFFICES ASSUME IInv, [Next]_vars PROVE IInv'
    OBVIOUS
  <2>1. CASE Next
    BY <2>1, ShapeStep, CallStep, RelStep, FaultStep DEF IInv
  <2>2. CASE UNCHANGED vars
    <3>1. /\ mem' = mem /\ call' = call /\ ph' = ph /\ done' = done /\ last' = last
          /\ rel' = rel /\ pkg' = pkg /\ pos' = pos /\ right' = right
          /\ faults' = faults /\ crashes' = crashes
      BY <2>2 DEF vars
    <3>2. Shape'
      BY <3>1 DEF IInv, Shape, KnownCall
    <3>3. CallInv'
      BY <3>1 DEF IInv, CallInv, Sound, Releasing, UnderWay, DoneExact, Here, Given
    <3>4. RelInv'
      BY <3>1 DEF IInv, RelInv, ReleaseExact
    <3>5. FaultInv'
      BY <3>1 DEF IInv, FaultInv, Releasing, Ahead, Here, FailsOnlyOnFault
    <3>6. QED BY <3>2, <3>3, <3>4, <3>5 DEF IInv
  <2>3. QED BY <2>1, <2>2
<1>3. QED BY <1>1, <1>2, PTL DEF Spec

(* Every variable keeps to its range, and a call under way to its partition, *)
(* for an operator who types no sum beyond 32 bits.                          *)
THEOREM TypeCorrect == ASSUME NoWrap PROVE Spec => []TypeOK
<1>1. IInv => TypeOK
  <2> SUFFICES ASSUME IInv PROVE TypeOK
    OBVIOUS
  <2>1. Shape /\ UnderWay
    BY DEF IInv, CallInv, Sound
  <2>2. ph # "idle" => Range(call) # {} /\ Range(call) \subseteq Area(call.part)
    BY <2>1, GoodRange DEF UnderWay
  <2>3. call.size \in Nat
    BY <2>1 DEF Shape, KnownCall
  <2>4. done \in 0..call.size
    BY <2>1, <2>3 DEF Shape, UnderWay
  <2>5. QED BY <2>1, <2>2, <2>4 DEF Shape, TypeOK
<1>2. QED BY <1>1, Inductive, PTL

(* A call that returned its size did all of it.                              *)
THEOREM DoneCorrect == ASSUME NoWrap PROVE Spec => []DoneExact
<1>1. IInv => DoneExact
  BY DEF IInv, CallInv, Sound, UnderWay
<1>2. QED BY <1>1, Inductive, PTL

(* A release that returned 1 left the whole package in the partition,        *)
(* whatever failed, and whatever the operator did before it.                 *)
THEOREM ReleaseCorrect == Spec => []ReleaseExact
<1>1. IInv => ReleaseExact
  BY DEF IInv, RelInv
<1>2. QED BY <1>1, Inductive, PTL

(* A release of a package that fits fails only if an operation failed.       *)
THEOREM FailsCorrect == Spec => []FailsOnlyOnFault
<1>1. IInv => FailsOnlyOnFault
  <2> SUFFICES ASSUME IInv, rel = "failed", Len(pkg) \in 1..Part["app"].len PROVE faults > 0
    BY DEF FailsOnlyOnFault
  <2>1. faults \in Nat
    BY Constants DEF IInv, Shape
  <2>2. QED BY <2>1 DEF IInv, FaultInv, FailsOnlyOnFault
<1>2. QED BY <1>1, Inductive, PTL

(* A step changes cells of the partition called for only.                    *)
LEMMA OthersStep ==
  ASSUME Shape, UnderWay, Next,
         NEW p \in DOMAIN Part, p # call.part, NEW a \in Area(p)
  PROVE  mem'[a] = mem[a]
<1>1. a \in Flash
  BY PartSpan
<1>2. ASSUME ph # "idle" PROVE a \notin Area(call.part)
  <2>1. call.part \in DOMAIN Part
    BY DEF Shape, KnownCall
  <2>2. QED BY <2>1, PartAssumption
<1>3. ASSUME ph = "erase" PROVE a \notin Cells(FirstSector(call) + done)
  BY <1>2, <1>3, Place
<1>4. ASSUME ph = "write" PROVE a \notin Chunk
  <2>1. Range(call) \subseteq Area(call.part)
    BY <1>4, GoodRange DEF UnderWay
  <2>2. QED BY <1>2, <1>4, <2>1, Place
<1>5. QED BY <1>1, <1>3, <1>4, Effect

(* No step changes a cell of a partition other than the one called for.      *)
THEOREM OthersCorrect == ASSUME NoWrap PROVE Spec => OthersKept
<1> DEFINE Kept == \A p \in DOMAIN Part \ {call.part} : \A a \in Area(p) : mem'[a] = mem[a]
<1>1. IInv /\ [Next]_vars => [Kept]_vars
  <2> SUFFICES ASSUME IInv, Next PROVE Kept
    OBVIOUS
  <2>1. Shape /\ UnderWay
    BY DEF IInv, CallInv, Sound
  <2>2. QED BY <2>1, OthersStep
<1>2. QED BY <1>1, Inductive, PTL DEF Spec, OthersKept

(* While a release runs no step changes a cell outside "app": nothing done   *)
(* to the application, fail as it may, touches the boot loader.              *)
ReleaseStays ==
  [][Releasing => \A p \in DOMAIN Part \ {"app"} : \A a \in Area(p) : mem'[a] = mem[a]]_vars

(* A release keeps to its partition, with no hypothesis on the commands the  *)
(* operator gave before it.                                                  *)
THEOREM ReleaseStaysCorrect == Spec => ReleaseStays
<1> DEFINE Kept == Releasing =>
             \A p \in DOMAIN Part \ {"app"} : \A a \in Area(p) : mem'[a] = mem[a]
<1>1. IInv /\ [Next]_vars => [Kept]_vars
  <2> SUFFICES ASSUME IInv, Next, Releasing,
                      NEW p \in DOMAIN Part \ {"app"}, NEW a \in Area(p)
               PROVE  mem'[a] = mem[a]
    OBVIOUS
  <2>1. Shape /\ UnderWay
    BY DEF IInv, CallInv, Sound
  <2>2. call.part = "app"
    BY DEF IInv, RelInv, Releasing, EraseOf
  <2>3. QED BY <2>1, <2>2, OthersStep
<1>2. QED BY <1>1, Inductive, PTL DEF Spec, ReleaseStays

(* A write clears bits in its range only; an erase sets bits only in the     *)
(* sectors its range meets.                                                  *)
THEOREM StaysCorrect == ASSUME NoWrap PROVE Spec => StaysInRange
<1> DEFINE Stays(a) ==
      mem'[a] # mem[a] =>
        \/ ph = "write" /\ a \in Range(call) /\ mem'[a] \subseteq mem[a]
        \/ /\ ph = "erase" /\ mem[a] \subseteq mem'[a]
           /\ \E b \in Range(call), s \in 0..Sectors-1 : {a, b} \subseteq Cells(s)
<1>1. IInv /\ [Next]_vars => [\A a \in Flash : Stays(a)]_vars
  <2> SUFFICES ASSUME IInv, Next, NEW a \in Flash, mem'[a] # mem[a] PROVE Stays(a)
    OBVIOUS
  <2>1. Shape /\ UnderWay
    BY DEF IInv, CallInv, Sound
  <2>2. CASE ph = "write" /\ a \in Chunk /\ mem'[a] = mem[a] \cap Given(a)
    <3>1. a \in Range(call)
      BY <2>1, <2>2, Place
    <3>2. QED BY <2>2, <3>1
  <2>3. CASE /\ ph = "erase" /\ a \in Cells(FirstSector(call) + done)
             /\ mem'[a] = Erased
    <3> DEFINE s == FirstSector(call) + done
               b == IF Addr(call) >= Start[s] THEN Addr(call) ELSE Start[s]
    <3>1. mem[a] \subseteq mem'[a]
      BY <2>1, <2>3 DEF Shape, Byte, Erased
    <3>2. /\ Good(call) /\ done \in Nat
          /\ done > 0 => Addr(call) + done <= Start[s]
      BY <2>1, <2>3 DEF Shape, UnderWay
    <3>3. /\ s \in 0..Sectors-1 /\ Cells(s) = Start[s] .. Start[s+1] - 1
          /\ Start[s] <= Addr(call) + call.size - 1
      BY <2>1, <2>3, Place
    <3>4. /\ Addr(call) \in Nat /\ call.size \in Nat /\ call.size >= 1
      BY <3>2, GoodRange
    <3>5. /\ FirstSector(call) \in Nat /\ Addr(call) < Start[FirstSector(call) + 1]
      BY <3>2, GoodSectors, Constants
    <3> HIDE DEF s
    <3>6. s \in 0..Sectors /\ s + 1 \in 0..Sectors /\ s < s + 1
      BY <3>3, Constants
    <3>7. Start[s] \in Nat /\ Start[s+1] \in Nat /\ Start[s] < Start[s+1]
      BY <3>6, Constants
    <3>8. Addr(call) < Start[s+1]
      <4>1. CASE done = 0
        <5>1. s = FirstSector(call)
          BY <3>5, <4>1 DEF s
        <5>2. QED BY <3>5, <5>1
      <4>2. CASE done > 0
        BY <3>2, <3>4, <3>7, <4>2
      <4>3. QED BY <3>2, <4>1, <4>2
    <3>9. b \in Range(call) /\ b \in Cells(s)
      BY <3>3, <3>4, <3>7, <3>8 DEF Range
    <3> HIDE DEF b
    <3>10. a \in Cells(s)
      BY <2>3 DEF s
    <3>11. \E b0 \in Range(call), s0 \in 0..Sectors-1 : {a, b0} \subseteq Cells(s0)
      BY <3>3, <3>9, <3>10
    <3>12. QED BY <2>3, <3>1, <3>11
  <2>4. QED BY <2>1, <2>2, <2>3, Effect
<1>2. QED BY <1>1, Inductive, PTL DEF Spec, StaysInRange
=============================================================================
