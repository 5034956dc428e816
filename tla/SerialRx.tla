------------------------------ MODULE SerialRx ------------------------------
(***************************************************************************)
(* The receive path of the console: the interrupt of the UART fills a ring *)
(* (serial.c, drv_usart.c) and signals a semaphore; three readers empty    *)
(* it, one after the other or beside each other: the wait for Enter of the *)
(* main thread (shell_key_check in rtu_boot.c), which polls, the shell     *)
(* (finsh_getchar in shell.c), which waits for ever, and a YMODEM session  *)
(* in the thread of the shell (_rym_read_code, _rym_read_data in           *)
(* ymodem.c), which waits for a time and takes the callback of the device  *)
(* over.                                                                   *)
(*                                                                         *)
(* Bytes are numbered as they enter the data register of the UART.  A      *)
(* thread's step is one section with interrupts disabled: one byte of a    *)
(* rt_device_read, or one operation on a semaphore.  The interrupt runs    *)
(* between two of them, and no thread runs while it does.                  *)
(***************************************************************************)
EXTENDS Integers

CONSTANTS
  BufSz,     \* RT_SERIAL_RB_BUFSZ
  Sizes,     \* lengths a session asks _rym_read_data for
  MaxByte    \* bound on the bytes that arrive

ASSUME ConstAssumption ==
  /\ BufSz \in Nat /\ BufSz > 1
  /\ Sizes \subseteq Nat \ {0}
  /\ MaxByte \in Nat

VARIABLES
  reg,       \* the data register: a byte not read yet, or 0
  arrived,   \* number of the last byte that entered it
  isr,       \* the interrupt: off, or in its loop (rx_indicate is called as it leaves it)
  buffer, put, get, full,   \* rx_fifo: put_index, get_index, is_full
  rxInd,     \* whose semaphore rx_indicate releases
  sem,       \* the semaphores of the shell and of the session
  main,      \* the main thread: io before its wait for Enter, poll, done
  op,        \* the call of the shell's thread: getchar, code, data, or none
  st,        \* what it does: read, take the semaphore, or sleep on it
  left,      \* bytes _rym_read_data still wants
  last,      \* history: the last byte any reader took
  took,      \* history: how many were taken
  drops      \* history: how many the ring overwrote

vars == <<reg, arrived, isr, buffer, put, get, full, rxInd, sem, main, op, st,
          left, last, took, drops>>
ring   == <<buffer, put, get, full>>
thread == <<op, st, left>>
hist   == <<last, took, drops>>

Owner == {"finsh", "rym"}
Me == IF op = "getchar" THEN "finsh" ELSE "rym"

Init ==
  /\ reg = 0 /\ arrived = 0 /\ isr = "off"
  /\ buffer = [i \in 0..BufSz-1 |-> 0] /\ put = 0 /\ get = 0 /\ full = 0
  /\ rxInd = "finsh" /\ sem = [o \in Owner |-> 0]
  /\ main = "io" /\ op = "getchar" /\ st = "read" /\ left = 1
  /\ last = 0 /\ took = 0 /\ drops = 0
-----------------------------------------------------------------------------
(* The UART and its interrupt.                                              *)

\* A byte that finds the register full is lost in the hardware, before it has a number.
Arrive ==
  /\ arrived < MaxByte /\ reg = 0
  /\ arrived' = arrived + 1 /\ reg' = arrived'
  /\ UNCHANGED <<isr, ring, rxInd, sem, main, thread, hist>>

Interrupt ==
  /\ isr = "off" /\ reg # 0
  /\ isr' = "loop"
  /\ UNCHANGED <<reg, arrived, ring, rxInd, sem, main, thread, hist>>

Next1Late(i) == IF i + 1 > BufSz THEN 0 ELSE i + 1
Next1(i) == IF i + 1 >= BufSz THEN 0 ELSE i + 1

\* The next position is the read index: the oldest byte is discarded.
OverrunsNever == FALSE
Overruns == Next1(put) = get

IsrPut ==
  /\ isr = "loop" /\ reg # 0
  /\ buffer' = [buffer EXCEPT ![put] = reg]
  /\ put' = Next1(put)
  /\ IF Overruns
     THEN get' = Next1(get) /\ full' = 1 /\ drops' = drops + 1
     ELSE UNCHANGED <<get, full, drops>>
  /\ reg' = 0
  /\ UNCHANGED <<arrived, isr, rxInd, sem, main, thread, last, took>>

RxLength == IF put >= get THEN put - get ELSE BufSz - (get - put)

\* rx_indicate is called for whatever the ring holds.
SignalsOne == RxLength = 1
Signals == RxLength # 0

\* rt_sem_release wakes the thread that sleeps, or counts.
Asleep(o) == st = "sleep" /\ Me = o

IsrSignal ==
  /\ isr = "loop" /\ reg = 0
  /\ isr' = "off"
  /\ IF Signals
     THEN IF Asleep(rxInd) THEN st' = "read" /\ UNCHANGED sem
          ELSE sem' = [sem EXCEPT ![rxInd] = @ + 1] /\ UNCHANGED st
     ELSE UNCHANGED <<st, sem>>
  /\ UNCHANGED <<reg, arrived, ring, rxInd, main, op, left, hist>>
-----------------------------------------------------------------------------
(* rt_device_read of one byte, _serial_int_rx.                              *)

Empty == get = put /\ full = 0

TakeByteKeepsFull ==
  /\ last' = buffer[get] /\ took' = took + 1
  /\ get' = Next1(get)
  /\ UNCHANGED <<buffer, put, full, drops>>

TakeByte ==
  /\ last' = buffer[get] /\ took' = took + 1
  /\ get' = Next1(get) /\ full' = 0
  /\ UNCHANGED <<buffer, put, drops>>

(* shell_key_check: polls for three seconds, or until Enter, and takes what  *)
(* it reads from whom it was meant for.                                     *)
PollBegins ==
  /\ isr = "off" /\ main = "io"
  /\ main' = "poll"
  /\ UNCHANGED <<reg, arrived, isr, ring, rxInd, sem, thread, hist>>

PollTakes ==
  /\ isr = "off" /\ main = "poll" /\ ~Empty
  /\ TakeByte
  /\ main' \in {"poll", "done"}
  /\ UNCHANGED <<reg, arrived, isr, rxInd, sem, thread>>

PollEnds ==
  /\ isr = "off" /\ main = "poll"
  /\ main' = "done"
  /\ UNCHANGED <<reg, arrived, isr, ring, rxInd, sem, thread, hist>>

Poll == PollBegins \/ PollTakes \/ PollEnds

(* The thread of the shell, of lower priority, runs when no interrupt does   *)
(* and main sleeps on the card or has ended.                                *)
Runs == isr = "off" /\ main # "poll"

ReadByte ==
  /\ Runs /\ op # "none" /\ st = "read" /\ ~Empty
  /\ TakeByte
  /\ left' = left - 1
  /\ op' = IF left = 1 THEN "none" ELSE op
  /\ UNCHANGED <<reg, arrived, isr, rxInd, sem, main, st>>

\* Nothing there: on to rt_sem_take, which an interrupt may precede.
FindEmpty ==
  /\ Runs /\ op # "none" /\ st = "read" /\ Empty
  /\ st' = "take"
  /\ UNCHANGED <<reg, arrived, isr, ring, rxInd, sem, main, op, left, hist>>

TakeSem ==
  /\ Runs /\ st = "take"
  /\ IF sem[Me] > 0
     THEN sem' = [sem EXCEPT ![Me] = @ - 1] /\ st' = "read"
     ELSE st' = "sleep" /\ UNCHANGED sem
  /\ UNCHANGED <<reg, arrived, isr, ring, rxInd, main, op, left, hist>>

(* RYM_WAIT_PKG_TICK and RYM_WAIT_CHR_TICK are over: no code, or a short     *)
(* packet.  finsh_getchar waits for ever.                                   *)
TimesOutNever == FALSE
TimesOut == op \in {"code", "data"}

Timeout ==
  /\ Runs /\ st = "sleep" /\ TimesOut
  /\ op' = "none" /\ st' = "read" /\ left' = 0
  /\ UNCHANGED <<reg, arrived, isr, ring, rxInd, sem, main, hist>>
-----------------------------------------------------------------------------
(* The thread between two calls.                                            *)

Getchar ==
  /\ Runs /\ op = "none" /\ rxInd = "finsh"
  /\ op' = "getchar" /\ left' = 1
  /\ UNCHANGED <<reg, arrived, isr, ring, rxInd, sem, main, st, hist>>

\* rym_recv_on_device: the semaphore is new, then the callback is the session's.
SessionBegins ==
  /\ Runs /\ op = "none" /\ rxInd = "finsh"
  /\ sem' = [sem EXCEPT !["rym"] = 0] /\ rxInd' = "rym"
  /\ UNCHANGED <<reg, arrived, isr, ring, main, thread, hist>>

ReadCode ==
  /\ Runs /\ op = "none" /\ rxInd = "rym"
  /\ op' = "code" /\ left' = 1
  /\ UNCHANGED <<reg, arrived, isr, ring, rxInd, sem, main, st, hist>>

ReadData ==
  /\ Runs /\ op = "none" /\ rxInd = "rym"
  /\ op' = "data" /\ left' \in Sizes
  /\ UNCHANGED <<reg, arrived, isr, ring, rxInd, sem, main, st, hist>>

SessionEnds ==
  /\ Runs /\ op = "none" /\ rxInd = "rym"
  /\ rxInd' = "finsh"
  /\ UNCHANGED <<reg, arrived, isr, ring, sem, main, thread, hist>>

Isr == Interrupt \/ IsrPut \/ IsrSignal
InCall == ReadByte \/ FindEmpty \/ TakeSem \/ Timeout
Shell == InCall \/ Getchar \/ SessionBegins \/ ReadCode \/ ReadData \/ SessionEnds

Next == Arrive \/ Isr \/ Poll \/ Shell

Spec == Init /\ [][Next]_vars

(* Interrupts are served, the wait for Enter ends after three seconds, and   *)
(* the shell, whom no thread starves once main has ended, goes on with the   *)
(* call it is in.  Nothing is assumed of the bytes that arrive.              *)
FairSpec == Spec /\ WF_vars(Isr) /\ SF_vars(PollEnds) /\ WF_vars(InCall)
-----------------------------------------------------------------------------
(* Every variable keeps to its range. *)
TypeOK ==
  /\ reg \in 0..MaxByte /\ arrived \in 0..MaxByte
  /\ isr \in {"off", "loop"}
  /\ buffer \in [0..BufSz-1 -> 0..MaxByte]
  /\ put \in 0..BufSz-1 /\ get \in 0..BufSz-1 /\ full \in {0, 1}
  /\ rxInd \in Owner /\ sem \in [Owner -> Nat]
  /\ main \in {"io", "poll", "done"}
  /\ op \in {"none", "getchar", "code", "data"} /\ st \in {"read", "take", "sleep"}
  /\ left \in Nat
  /\ last \in 0..MaxByte /\ took \in 0..MaxByte /\ drops \in 0..MaxByte

Stored == IF reg = 0 THEN arrived ELSE arrived - 1
Held == IF put >= get THEN put - get ELSE put - get + BufSz
Nth(i) == IF get + i < BufSz THEN get + i ELSE get + i - BufSz   \* where the ring holds its byte i

(* The ring holds the bytes stored last, in order, none of them taken        *)
(* before, and every byte stored is taken, held or counted as overwritten:   *)
(* whoever reads, and however often the ring overruns, the indices agree and *)
(* bytes are taken in the order in which they arrived.                       *)
RingIsLatest ==
  /\ took + Held + drops = Stored
  /\ \A i \in 0..Held-1 :
       /\ buffer[Nth(i)] = Stored - Held + 1 + i
       /\ buffer[Nth(i)] > last

(* A reader sleeps only while nothing is there for it: a byte that comes in  *)
(* between the look at the ring and the rt_sem_take does not wait for the    *)
(* next one.                                                                *)
NoLostWakeup == st = "sleep" /\ isr = "off" /\ reg = 0 => Held = 0

(* A read of the session returns, and a byte that arrived is never left      *)
(* behind by a shell that waits for one.                                     *)
ReadsEnd ==
  /\ op \in {"code", "data"} ~> op = "none"
  /\ op = "getchar" /\ reg # 0 ~> op = "none" \/ main = "poll"
=============================================================================
