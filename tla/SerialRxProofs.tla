--------------------------- MODULE SerialRxProofs ---------------------------
(***************************************************************************)
(* Proofs about the receive path, for a ring of any size, sessions that    *)
(* ask for any number of bytes and any number of bytes that arrive.        *)
(***************************************************************************)
EXTENDS SerialRx, TLAPS

(* The ranges, without the bounds that only counting the bytes gives. *)
Shape ==
  /\ arrived \in 0..MaxByte /\ reg \in {0, arrived}
  /\ isr \in {"off", "loop"}
  /\ buffer \in [0..BufSz-1 -> 0..MaxByte]
  /\ put \in 0..BufSz-1 /\ get \in 0..BufSz-1 /\ full \in {0, 1}
  /\ rxInd \in Owner /\ sem \in [Owner -> Nat]
  /\ main \in {"io", "poll", "done"}
  /\ op \in {"none", "getchar", "code", "data"} /\ st \in {"read", "take", "sleep"}
  /\ left \in Nat /\ last \in Nat /\ took \in Nat /\ drops \in Nat

(* The ring between its two indices, which are equal only when it is empty. *)
RingInv ==
  /\ put = get => full = 0
  /\ took + Held + drops = Stored
  /\ last <= Stored - Held
  /\ \A i \in 0..Held-1 : buffer[Nth(i)] = Stored - Held + 1 + i

(* The shell's thread waits on the semaphore that rx_indicate releases, and  *)
(* finds it released before it sleeps on it if the ring holds anything.      *)
WakeInv ==
  /\ op # "none" => left # 0 /\ Me = rxInd
  /\ st # "read" => op # "none"
  /\ isr = "off" /\ st = "take" => Held = 0 \/ sem[Me] > 0
  /\ isr = "off" /\ st = "sleep" => Held = 0

IInv == Shape /\ RingInv /\ WakeInv
-----------------------------------------------------------------------------
(* The indices: a step keeps them in the ring, and what the ring holds is a  *)
(* number of bytes, never all of its positions.                             *)
LEMMA HeldRange ==
  ASSUME Shape
  PROVE  /\ Held \in 0..BufSz-1 /\ RxLength = Held
         /\ Next1(put) \in 0..BufSz-1 /\ Next1(get) \in 0..BufSz-1
         /\ \A i \in 0..Held : Nth(i) \in 0..BufSz-1
  BY ConstAssumption DEF Shape, Held, RxLength, Next1, Nth

\* An empty ring and no reader.
LEMMA InitIInv == Init => IInv
<1> SUFFICES ASSUME Init PROVE IInv
  OBVIOUS
<1>1. Shape
  BY ConstAssumption DEF Init, Shape, Owner
<1>2. Held = 0 /\ Stored = 0
  BY ConstAssumption DEF Init, Held, Stored
<1>3. RingInv
  BY <1>2 DEF Init, RingInv
<1>4. WakeInv
  BY DEF Init, WakeInv, Me
<1> QED
  BY <1>1, <1>3, <1>4 DEF IInv

(* Storing a byte: it becomes the last of the ring, and the oldest one is    *)
(* given up when there is no room.                                          *)
LEMMA PutStep ==
  ASSUME Shape, RingInv, IsrPut
  PROVE  Shape' /\ RingInv' /\ st' = st /\ op' = op /\ left' = left
<1>1. Shape'
  <2>1. buffer' \in [0..BufSz-1 -> 0..MaxByte]
    BY DEF Shape, IsrPut
  <2>2. put' \in 0..BufSz-1 /\ get' \in 0..BufSz-1 /\ full' \in {0, 1} /\ drops' \in Nat
    <3>1. Next1(put) \in 0..BufSz-1 /\ Next1(get) \in 0..BufSz-1
      BY HeldRange
    <3> QED
      BY <3>1 DEF Shape, IsrPut, Overruns
  <2>3. reg' = 0 /\ UNCHANGED <<arrived, isr, rxInd, sem, main, op, st, left, last, took>>
    BY DEF IsrPut, thread
  <2> QED
    BY <2>1, <2>2, <2>3 DEF Shape
<1>2. Stored = arrived - 1 /\ Stored' = arrived /\ reg = arrived /\ arrived \in Nat \ {0}
  BY DEF Stored, IsrPut, Shape
<1>3. Held \in 0..BufSz-1
  BY HeldRange
<1>4. Nth(Held) = put
  BY ConstAssumption DEF Nth, Held, Shape
<1>5. CASE ~Overruns
  <2>1. get' = get /\ put' = Next1(put) /\ put' # get /\ UNCHANGED <<full, drops, last, took>>
    BY <1>5 DEF IsrPut, Overruns, thread
  <2>2. Held' = Held + 1
    BY <2>1, ConstAssumption DEF Held, Next1, Shape
  <2>3. ASSUME NEW i \in 0..Held'-1 PROVE buffer'[Nth(i)'] = Stored' - Held' + 1 + i
    <3>1. i \in 0..Held /\ Nth(i)' = Nth(i) /\ Nth(i) \in 0..BufSz-1
      BY <2>1, <2>2, <1>3, HeldRange DEF Nth
    <3>2. CASE i = Held
      <4>1. buffer'[Nth(i)] = reg
        BY <3>1, <3>2, <1>4 DEF IsrPut, Shape
      <4> QED
        BY <4>1, <3>1, <3>2, <2>2, <1>2, <1>3
    <3>3. CASE i # Held
      <4>1. Nth(i) # put /\ i \in 0..Held-1
        BY <3>1, <3>3, <1>3, ConstAssumption DEF Nth, Held, Shape
      <4>2. buffer'[Nth(i)] = buffer[Nth(i)]
        BY <3>1, <4>1 DEF IsrPut, Shape
      <4> QED
        BY <4>1, <4>2, <3>1, <2>2, <1>2, <1>3 DEF RingInv
    <3> QED
      BY <3>2, <3>3
  <2>4. took' + Held' + drops' = Stored' /\ last' <= Stored' - Held'
    BY <2>1, <2>2, <1>2, <1>3 DEF RingInv, Shape
  <2> QED
    BY <1>1, <2>1, <2>3, <2>4 DEF RingInv, IsrPut, thread
<1>6. CASE Overruns
  <2>1. get' = Next1(get) /\ put' = get /\ put = Nth(Held) /\ drops' = drops + 1
       /\ last' = last /\ took' = took
    BY <1>4, <1>6 DEF IsrPut, Overruns, thread
  <2>2. Held = BufSz - 1 /\ Held' = Held /\ put' # get' /\ put # get
    BY <2>1, <1>6, ConstAssumption DEF Held, Overruns, Next1, Shape
  <2>3. ASSUME NEW i \in 0..Held'-1 PROVE buffer'[Nth(i)'] = Stored' - Held' + 1 + i
    <3>1. i \in 0..Held-1 /\ i + 1 \in 0..Held /\ Nth(i)' = Nth(i + 1) /\ Nth(i + 1) \in 0..BufSz-1
      BY <2>1, <2>2, <1>3, HeldRange, ConstAssumption DEF Nth, Next1, Shape
    <3>2. CASE i + 1 = Held
      <4>1. buffer'[Nth(i + 1)] = reg
        BY <3>1, <3>2, <1>4 DEF IsrPut, Shape
      <4> QED
        BY <4>1, <3>1, <3>2, <2>2, <1>2, <1>3
    <3>3. CASE i + 1 # Held
      <4>1. Nth(i + 1) # put /\ i + 1 \in 0..Held-1
        BY <3>1, <3>3, <1>3, ConstAssumption DEF Nth, Held, Shape
      <4>2. buffer'[Nth(i + 1)] = buffer[Nth(i + 1)]
        BY <3>1, <4>1 DEF IsrPut, Shape
      <4>3. buffer[Nth(i + 1)] = Stored - Held + 1 + (i + 1)
        BY <4>1 DEF RingInv
      <4> QED
        BY <4>2, <4>3, <3>1, <2>2, <1>2, <1>3
    <3> QED
      BY <3>2, <3>3
  <2>4. took' + Held' + drops' = Stored' /\ last' <= Stored' - Held'
    <3>1. took + Held + drops = Stored /\ last <= Stored - Held
      BY DEF RingInv
    <3> QED
      BY <3>1, <2>1, <2>2, <1>2, <1>3, ConstAssumption DEF Shape
  <2> QED
    BY <1>1, <2>2, <2>3, <2>4 DEF RingInv, IsrPut, thread
<1> QED
  BY <1>5, <1>6 DEF IsrPut, thread

(* Taking a byte: the oldest one the ring holds, newer than any taken before. *)
LEMMA TakeStep ==
  ASSUME Shape, RingInv, ~Empty, TakeByte, UNCHANGED <<reg, arrived>>
  PROVE  /\ RingInv' /\ Held' = Held - 1 /\ Held # 0
         /\ get' \in 0..BufSz-1 /\ full' \in {0, 1} /\ last' \in Nat /\ took' \in Nat
<1>1. put # get
  BY DEF RingInv, Empty
<1>2. Held \in 1..BufSz-1 /\ Held' = Held - 1
  BY <1>1, HeldRange, ConstAssumption DEF Held, TakeByte, Next1, Shape
<1>3. Stored' = Stored /\ Stored \in Int /\ UNCHANGED <<buffer, put, drops>>
  BY DEF Stored, TakeByte, Shape
<1>4. last' = Stored - Held + 1 /\ took' = took + 1 /\ full' = 0
  <2>1. Nth(0) = get /\ 0 \in 0..Held-1
    BY <1>2, ConstAssumption DEF Nth, Shape
  <2>2. buffer[Nth(0)] = Stored - Held + 1 + 0
    BY <2>1 DEF RingInv
  <2> QED
    BY <2>1, <2>2, <1>2, <1>3 DEF TakeByte
<1>5. ASSUME NEW i \in 0..Held'-1 PROVE buffer'[Nth(i)'] = Stored' - Held' + 1 + i
  <2>1. i + 1 \in 0..Held-1 /\ Nth(i)' = Nth(i + 1)
    BY <1>2, ConstAssumption DEF Nth, Next1, TakeByte, Shape
  <2>2. buffer[Nth(i + 1)] = Stored - Held + 1 + (i + 1)
    BY <2>1 DEF RingInv
  <2> QED
    BY <2>1, <2>2, <1>2, <1>3
<1>6. took' + Held' + drops' = Stored' /\ last' <= Stored' - Held'
  BY <1>2, <1>3, <1>4 DEF RingInv, Shape
<1>7. last' \in Nat /\ took' \in Nat /\ get' \in 0..BufSz-1
  <2>1. buffer[get] \in 0..MaxByte
    BY DEF Shape
  <2> QED
    BY <2>1, <1>4, HeldRange DEF TakeByte, Shape
<1> QED
  BY <1>2, <1>4, <1>5, <1>6, <1>7 DEF RingInv
-----------------------------------------------------------------------------
\* IInv is inductive.
LEMMA StepIInv == IInv /\ [Next]_vars => IInv'
<1> SUFFICES ASSUME IInv, [Next]_vars PROVE IInv'
  OBVIOUS
<1>0. Shape /\ RingInv /\ WakeInv
  BY DEF IInv
<1> USE <1>0
<1>1. UNCHANGED <<ring, hist, reg, arrived>> => RingInv' /\ Held' = Held
  <2> SUFFICES ASSUME UNCHANGED <<ring, hist, reg, arrived>> PROVE RingInv' /\ Held' = Held
    OBVIOUS
  <2>1. Held' = Held /\ Stored' = Stored /\ (\A i : Nth(i)' = Nth(i))
    BY DEF Held, Stored, Nth, ring
  <2> QED
    BY <2>1 DEF RingInv, ring, hist
<1>2. CASE Arrive
  <2>1. Shape'
    BY <1>2, ConstAssumption DEF Arrive, Shape, ring, thread, hist
  <2>2. Stored' = Stored /\ Held' = Held /\ (\A i : Nth(i)' = Nth(i))
    BY <1>2 DEF Arrive, Stored, Held, Nth, ring, Shape
  <2>3. RingInv'
    BY <1>2, <2>2 DEF RingInv, Arrive, ring, hist
  <2>4. WakeInv'
    BY <1>2, <2>2 DEF WakeInv, Arrive, Me, thread
  <2> QED
    BY <2>1, <2>3, <2>4 DEF IInv
<1>3. CASE Interrupt
  <2>1. Shape' /\ WakeInv'
    BY <1>3 DEF Interrupt, Shape, WakeInv, Me, ring, thread, hist
  <2> QED
    BY <1>1, <1>3, <2>1 DEF IInv, Interrupt
<1>4. CASE IsrPut
  <2>1. Shape' /\ RingInv' /\ st' = st /\ op' = op /\ left' = left
    BY <1>4, PutStep
  <2>2. WakeInv'
    BY <1>4, <2>1 DEF WakeInv, IsrPut, Me
  <2> QED
    BY <2>1, <2>2 DEF IInv
<1>5. CASE IsrSignal
  <2>1. RingInv' /\ Held' = Held
    BY <1>1, <1>5 DEF IsrSignal
  <2>2. Shape'
    BY <1>5 DEF IsrSignal, Shape, Asleep, ring, hist
  <2>3. Signals <=> Held # 0
    BY HeldRange DEF Signals
  <2>4. op' = op /\ left' = left /\ rxInd' = rxInd /\ Me' = Me
    BY <1>5 DEF IsrSignal, Me
  <2>5. WakeInv'
    <3>1. CASE ~Signals
      <4>1. st' = st /\ sem' = sem /\ Held = 0
        BY <1>5, <2>3, <3>1 DEF IsrSignal
      <4> QED
        BY <4>1, <2>1, <2>4 DEF WakeInv
    <3>2. CASE Signals /\ Asleep(rxInd)
      <4>1. st' = "read" /\ op # "none"
        BY <1>5, <3>2 DEF IsrSignal, Asleep, WakeInv
      <4> QED
        BY <4>1, <2>4 DEF WakeInv
    <3>3. CASE Signals /\ ~Asleep(rxInd)
      <4>1. st' = st /\ sem' = [sem EXCEPT ![rxInd] = @ + 1]
        BY <1>5, <3>3 DEF IsrSignal
      <4>2. st # "sleep"
        BY <3>3 DEF WakeInv, Asleep
      <4>3. st = "take" => sem'[Me] > 0
        BY <4>1, <4>2 DEF WakeInv, Shape
      <4> QED
        BY <4>1, <4>2, <4>3, <2>4 DEF WakeInv
    <3> QED
      BY <3>1, <3>2, <3>3
  <2> QED
    BY <2>1, <2>2, <2>5 DEF IInv
<1>6. CASE PollBegins \/ PollEnds
  <2>1. Shape' /\ WakeInv'
    BY <1>1, <1>6 DEF PollBegins, PollEnds, Shape, WakeInv, Me, ring, thread, hist
  <2> QED
    BY <1>1, <1>6, <2>1 DEF IInv, PollBegins, PollEnds
<1>7. CASE PollTakes
  <2>1. RingInv' /\ Held' = Held - 1 /\ Held # 0
        /\ get' \in 0..BufSz-1 /\ full' \in {0, 1} /\ last' \in Nat /\ took' \in Nat
    BY <1>7, TakeStep DEF PollTakes
  <2>2. Shape'
    BY <1>7, <2>1 DEF PollTakes, TakeByte, Shape, thread
  <2>3. WakeInv'
    BY <1>7, <2>1 DEF PollTakes, WakeInv, Me, thread
  <2> QED
    BY <2>1, <2>2, <2>3 DEF IInv
<1>8. CASE ReadByte
  <2>1. RingInv' /\ Held' = Held - 1 /\ Held # 0
        /\ get' \in 0..BufSz-1 /\ full' \in {0, 1} /\ last' \in Nat /\ took' \in Nat
    BY <1>8, TakeStep DEF ReadByte
  <2>2. Shape'
    BY <1>8, <2>1 DEF ReadByte, TakeByte, Shape, WakeInv
  <2>3. WakeInv'
    BY <1>8 DEF ReadByte, WakeInv, Me, Shape
  <2> QED
    BY <2>1, <2>2, <2>3 DEF IInv
<1>9. CASE FindEmpty
  <2>1. RingInv' /\ Held' = Held
    BY <1>1, <1>9 DEF FindEmpty
  <2>2. Held = 0
    BY <1>9 DEF FindEmpty, Empty, Held, Shape
  <2>3. Shape' /\ WakeInv'
    BY <1>9, <2>1, <2>2 DEF FindEmpty, Shape, WakeInv, Me, ring, hist
  <2> QED
    BY <2>1, <2>3 DEF IInv
<1>10. CASE TakeSem
  <2>1. RingInv' /\ Held' = Held
    BY <1>1, <1>10 DEF TakeSem
  <2>2. Me \in Owner /\ sem[Me] \in Nat
    BY DEF Me, Owner, Shape
  <2>3. Shape'
    BY <1>10, <2>2 DEF TakeSem, Shape, ring, hist
  <2>4. WakeInv'
    BY <1>10, <2>1, <2>2 DEF TakeSem, WakeInv, Me, Runs
  <2> QED
    BY <2>1, <2>3, <2>4 DEF IInv
<1>11. CASE Timeout
  <2>1. Shape' /\ WakeInv'
    BY <1>11 DEF Timeout, Shape, WakeInv, ring, hist
  <2> QED
    BY <1>1, <1>11, <2>1 DEF IInv, Timeout
<1>12. CASE Getchar \/ ReadCode \/ ReadData
  <2>1. st = "read" /\ st' = "read" /\ left' \in Nat \ {0} /\ op' # "none" /\ Me' = rxInd'
    <3>1. st = "read" /\ st' = "read"
      BY <1>12 DEF Getchar, ReadCode, ReadData, WakeInv
    <3>2. left' \in Nat \ {0}
      <4>1. left' = 1 \/ left' \in Sizes
        BY <1>12 DEF Getchar, ReadCode, ReadData
      <4>2. \A k \in Sizes : k \in Nat /\ k # 0
        BY ConstAssumption
      <4> QED
        BY <4>1, <4>2
    <3>3. op' # "none" /\ Me' = rxInd'
      BY <1>12 DEF Getchar, ReadCode, ReadData, Me
    <3> QED
      BY <3>1, <3>2, <3>3
  <2>2. Shape'
    BY <1>12, <2>1 DEF Getchar, ReadCode, ReadData, Shape, ring, hist
  <2>3. WakeInv'
    BY <2>1 DEF WakeInv
  <2> QED
    BY <1>1, <1>12, <2>2, <2>3 DEF IInv, Getchar, ReadCode, ReadData
<1>13. CASE SessionBegins \/ SessionEnds
  <2>1. st = "read" /\ st' = "read" /\ op = "none" /\ op' = "none"
    BY <1>13 DEF SessionBegins, SessionEnds, WakeInv, thread
  <2>2. Shape'
    <3>1. sem' \in [Owner -> Nat]
      BY <1>13 DEF SessionBegins, SessionEnds, Shape
    <3>2. rxInd' \in Owner
      BY <1>13 DEF SessionBegins, SessionEnds, Owner
    <3> QED
      BY <1>13, <3>1, <3>2 DEF SessionBegins, SessionEnds, Shape, ring, thread, hist
  <2>3. WakeInv'
    BY <2>1 DEF WakeInv
  <2> QED
    BY <1>1, <1>13, <2>2, <2>3 DEF IInv, SessionBegins, SessionEnds
<1>14. CASE UNCHANGED vars
  <2>1. Shape' /\ WakeInv'
    BY <1>1, <1>14 DEF vars, Shape, WakeInv, Me, ring, thread, hist
  <2> QED
    BY <1>1, <1>14, <2>1 DEF IInv, vars, ring, hist
<1> QED
  BY <1>2, <1>3, <1>4, <1>5, <1>6, <1>7, <1>8, <1>9, <1>10, <1>11, <1>12, <1>13, <1>14
     DEF Next, Isr, Poll, Shell, InCall

(* The three parts of the invariant hold in every reachable state.           *)
THEOREM Inductive == Spec => []IInv
  BY InitIInv, StepIInv, PTL DEF Spec

(* Every variable keeps to its range: no reader is ever asked to take a byte *)
(* from an index outside the ring, and the bytes taken and the bytes the     *)
(* ring gave up are never more than those that arrived.                      *)
THEOREM TypeCorrect == Spec => []TypeOK
<1>1. IInv => TypeOK
  <2> SUFFICES ASSUME IInv PROVE TypeOK
    OBVIOUS
  <2>1. Stored \in 0..MaxByte /\ Held \in Nat
    BY HeldRange, ConstAssumption DEF IInv, Shape, RingInv, Stored
  <2> QED
    BY <2>1, ConstAssumption DEF IInv, Shape, RingInv, TypeOK
<1> QED
  BY Inductive, <1>1, PTL

(* The ring holds the bytes stored last, in order, none of them taken, and   *)
(* every byte stored is taken, held or counted as overwritten.               *)
THEOREM BytesInOrder == Spec => []RingIsLatest
<1>1. IInv => RingIsLatest
  <2> SUFFICES ASSUME IInv PROVE RingIsLatest
    OBVIOUS
  <2>1. Held \in Nat /\ Stored \in Int /\ last \in Nat
    BY HeldRange DEF IInv, Shape, Stored
  <2> QED
    BY <2>1 DEF IInv, RingInv, RingIsLatest
<1> QED
  BY Inductive, <1>1, PTL

(* No reader sleeps on its semaphore while the ring holds a byte, whatever   *)
(* the interrupt, the time-outs and the other readers do in between.         *)
THEOREM WakeupNeverLost == Spec => []NoLostWakeup
<1>1. IInv => NoLostWakeup
  BY DEF IInv, WakeInv, NoLostWakeup
<1> QED
  BY Inductive, <1>1, PTL
=============================================================================
