------------------------------- MODULE Ymodem -------------------------------
(***************************************************************************)
(* ymodem_ota: the shell command that receives a firmware package over the *)
(* console with the YMODEM receiver of ymodem.c and stores it on the SD    *)
(* card.  The sender is a program on a PC; the serial line may damage or   *)
(* lose what it carries, and either side may be late.                      *)
(*                                                                         *)
(* The packages are the units 1 .. Size * Batch, Size to a file of the     *)
(* batch, Width to a packet; a packet is padded with Pad.                  *)
(***************************************************************************)
EXTENDS Integers, Sequences

CONSTANTS
  Size,      \* units of a file, the number in the header
  Width,     \* units of a data packet
  Batch,     \* files the sender sends in one session
  SizeSent,  \* whether the header of the sender carries the size
  HsTries,   \* handshake_timeout: how often C is sent
  MaxErrors, \* RYM_MAX_ERRORS
  Frail,     \* what the line may damage: a subset of {"header", "data", "null", "eot"}
  Damage,    \* and how: a subset of {"short", "seq", "crc", "lost"}
  MaxDamage, \* bound on damaged packets
  LoseCodes, \* whether the answers of the receiver may be lost
  MaxLate,   \* bound on timeouts that a late answer would have met
  MaxResend, \* answers after which the sender stops repeating one packet
  Room,      \* free units on the card
  Tears,     \* whether a failed write may leave part of the packet
  MaxFault   \* bound on failed writes

None == "none"
Pad  == 0
WriteTries == 3

ASSUME YmodemAssumption ==
  /\ {Size, Room, MaxDamage, MaxLate, MaxFault, MaxResend, MaxErrors} \subseteq Nat
  /\ {Width, Batch, HsTries} \subseteq Nat \ {0}
  /\ {SizeSent, LoseCodes, Tears} \subseteq BOOLEAN
  /\ Frail \subseteq {"header", "data", "null", "eot"}
  /\ Damage \subseteq {"short", "seq", "crc", "lost"}
  \* the rest of a short packet would be taken from the packet after it
  /\ MaxLate > 0 => "short" \notin Damage

VARIABLES
  rpc,     \* where the receiver is
  stage,   \* ctx->stage
  tries,   \* C's the handshake has left
  errors,  \* errors of _rym_do_trans
  left,    \* update_file_total_size
  packet,  \* the data ymodem_on_data writes, cut to left
  wtry,    \* its try_num
  file,    \* the units in the file on the card; << >> once it is deleted
  result,  \* what rym_recv_on_device returned
  spc, sfile, sseq, resent,  \* the sender: its state, its file and packet, repetitions
  toRcv, toSnd,              \* what is on the line
  damaged, upset,            \* history: damaged or lost data packets, and other messages
  late, faults, torn         \* history: timeouts too early, failed writes, units they left

rcv  == <<rpc, stage, tries, errors, left, packet, wtry, file, result>>
snd  == <<spc, sfile, sseq, resent>>
line == <<damaged, upset>>
card == <<faults, torn>>
vars == <<rcv, snd, toRcv, toSnd, line, late, card>>

Smaller(a, b) == IF a <= b THEN a ELSE b

Sends(codes) == toSnd' = toSnd \o codes
WelcomesHalf == Sends(<<"ACK">>)
Welcomes == Sends(<<"ACK", "C">>)
Receives == toRcv # << >> /\ toRcv' = Tail(toRcv)
Msg == Head(toRcv)
IsPacket(m) == m.kind \in {"header", "data", "null"}

\* A read that times out: with nothing on its way, or too early.
TimesOut ==
  /\ toRcv = << >> /\ UNCHANGED toRcv
  /\ \/ toSnd = << >> /\ UNCHANGED late
     \/ late < MaxLate /\ late' = late + 1

Init ==
  /\ rpc = "handshake" /\ stage = "establishing" /\ tries = HsTries - 1
  /\ errors = 0 /\ left = 0 /\ packet = << >> /\ wtry = WriteTries
  /\ file = << >> /\ result = None
  /\ spc = "start" /\ sfile = 1 /\ sseq = 0 /\ resent = 0
  /\ toRcv = << >> /\ toSnd = <<"C">>
  /\ damaged = 0 /\ upset = 0 /\ late = 0 /\ faults = 0 /\ torn = 0
-----------------------------------------------------------------------------
(* The receiver, _rym_do_recv. *)

\* ymodem_ota closes the file and restarts, or closes and deletes it.
Fail ==
  /\ rpc' = "end" /\ result' = "fail" /\ file' = << >>
  /\ UNCHANGED <<tries, errors, left, packet, wtry>>

OnBegin == left' = IF SizeSent THEN Size ELSE 0

EnterTrans ==
  /\ rpc' = "trans" /\ stage' = "established" /\ errors' = 0

EnterFin == rpc' = "fin" /\ stage' = "finishing"

HandshakeAgain ==
  \/ /\ tries > 0 /\ tries' = tries - 1 /\ Sends(<<"C">>)
     /\ UNCHANGED <<rpc, stage, errors, left, packet, wtry, file, result>>
  \/ tries = 0 /\ Fail /\ UNCHANGED <<toSnd, stage>>

HandshakeCode ==
  /\ rpc = "handshake"
  /\ TimesOut \/ (Receives /\ ~IsPacket(Msg) /\ UNCHANGED late)
  /\ HandshakeAgain
  /\ UNCHANGED <<snd, line, card>>

HandshakePacket ==
  /\ rpc = "handshake"
  /\ Receives /\ IsPacket(Msg)
  /\ IF Msg.bad = "no" /\ Msg.seq = 0
     THEN /\ OnBegin /\ EnterTrans /\ Welcomes
          /\ UNCHANGED <<tries, packet, wtry, file, result>>
     ELSE Fail /\ UNCHANGED <<toSnd, stage>>
  /\ UNCHANGED <<snd, line, late, card>>

TransErrorUncounted(stg) ==
  /\ stage' = stg /\ Sends(<<"NAK">>)
  /\ UNCHANGED <<rpc, tries, errors, left, packet, wtry, file, result>>

TransErrorEarly(stg) ==
  /\ IF errors + 1 < MaxErrors
     THEN errors' = errors + 1 /\ stage' = stg /\ UNCHANGED rpc
     ELSE EnterFin /\ UNCHANGED errors
  /\ Sends(<<"NAK">>)
  /\ UNCHANGED <<tries, left, packet, wtry, file, result>>

\* Every error of _rym_do_trans but the last is answered with a NAK; the last
\* is forgotten: _rym_do_recv goes on to _rym_do_fin, which sends one too.
TransErrorAt(stg) ==
  /\ IF errors < MaxErrors
     THEN errors' = errors + 1 /\ stage' = stg /\ UNCHANGED rpc
     ELSE EnterFin /\ UNCHANGED errors
  /\ Sends(<<"NAK">>)
  /\ UNCHANGED <<tries, left, packet, wtry, file, result>>

TransCode ==
  /\ rpc = "trans"
  /\ TimesOut \/ (Receives /\ Msg.kind = "can" /\ UNCHANGED late)
  /\ TransErrorAt(stage)
  /\ UNCHANGED <<snd, line, card>>

TransEot ==
  /\ rpc = "trans"
  /\ Receives /\ Msg.kind = "eot"
  /\ EnterFin /\ Sends(<<"NAK">>)
  /\ UNCHANGED <<tries, errors, left, packet, wtry, file, result, snd, line, late, card>>

\* A header the sender repeated; its CRC is not looked at.
HeaderAgain(m) == stage = "established" /\ m.seq = 0

TransDamaged ==
  /\ rpc = "trans"
  /\ Receives /\ IsPacket(Msg)
  /\ \/ Msg.bad \in {"short", "seq"} /\ TransErrorAt(stage)
     \/ Msg.bad = "crc" /\ ~HeaderAgain(Msg) /\ TransErrorAt("transmitting")
  /\ UNCHANGED <<snd, line, late, card>>

TransHeaderAgainAcked ==
  /\ rpc = "trans"
  /\ Receives /\ IsPacket(Msg)
  /\ Msg.bad \notin {"short", "seq"} /\ HeaderAgain(Msg)
  /\ errors' = 0 /\ Sends(<<"ACK">>)
  /\ UNCHANGED <<rpc, stage, tries, left, packet, wtry, file, result>>
  /\ UNCHANGED <<snd, line, late, card>>

TransHeaderAgain ==
  /\ rpc = "trans"
  /\ Receives /\ IsPacket(Msg)
  /\ Msg.bad \notin {"short", "seq"} /\ HeaderAgain(Msg)
  /\ errors' = 0
  /\ UNCHANGED <<rpc, stage, tries, left, packet, wtry, file, result>>
  /\ UNCHANGED <<toSnd, snd, line, late, card>>

\* The sequence number is not compared with the one before it.
CutNot(data) == data
CutShort(data) == SubSeq(data, 1, Smaller(left - 1, Len(data)))
Cut(data) == SubSeq(data, 1, Smaller(left, Len(data)))

TransData ==
  /\ rpc = "trans"
  /\ Receives /\ IsPacket(Msg)
  /\ Msg.bad = "no" /\ ~HeaderAgain(Msg)
  /\ rpc' = "write" /\ stage' = "transmitting"
  /\ packet' = Cut(Msg.data) /\ wtry' = WriteTries
  /\ UNCHANGED <<tries, errors, left, file, result, toSnd, snd, line, late, card>>

\* ymodem_on_data: a card that is full stores less, which is no error.
Stored == SubSeq(packet, 1, Smaller(Len(packet), Room - Len(file)))

OnDataWriteUncut ==
  /\ rpc = "write"
  /\ file' = file \o Stored
  /\ left' = left - Width
  /\ errors' = 0 /\ rpc' = "trans" /\ packet' = << >>
  /\ Sends(<<"ACK">>)
  /\ UNCHANGED <<stage, tries, wtry, result, toRcv, snd, line, late, card>>

OnDataWrite ==
  /\ rpc = "write"
  /\ file' = file \o Stored
  /\ left' = left - Len(packet)
  /\ errors' = 0 /\ rpc' = "trans" /\ packet' = << >>
  /\ Sends(<<"ACK">>)
  /\ UNCHANGED <<stage, tries, wtry, result, toRcv, snd, line, late, card>>

OnDataFailsAcked ==
  /\ rpc = "write"
  /\ faults < MaxFault /\ faults' = faults + 1
  /\ rpc' = "trans" /\ errors' = 0 /\ packet' = << >> /\ Sends(<<"ACK">>)
  /\ UNCHANGED <<stage, tries, left, wtry, file, result, toRcv, snd, line, late, torn>>

\* A write that fails, or the reopen before it.
OnDataFails ==
  /\ rpc = "write"
  /\ faults < MaxFault /\ faults' = faults + 1
  /\ \E n \in IF Tears THEN 0 .. Len(Stored) ELSE {0} :
       file' = file \o SubSeq(packet, 1, n) /\ torn' = torn + n
  /\ wtry' = wtry - 1
  /\ IF wtry > 1
     THEN UNCHANGED <<rpc, stage, errors, packet, toSnd>>
     ELSE /\ EnterFin /\ errors' = 0 /\ packet' = << >>
          /\ Sends(<<"CAN", "NAK">>)
  /\ UNCHANGED <<tries, left, result, toRcv, snd, line, late>>

\* _rym_do_fin waits for the second EOT, then for the packet that ends the
\* batch or begins its next file.
FinEot ==
  /\ rpc = "fin"
  /\ \/ TimesOut /\ Fail /\ UNCHANGED <<toSnd, stage>>
     \/ /\ Receives /\ UNCHANGED late
        /\ IF Msg.kind = "eot"
           THEN /\ rpc' = "finPacket" /\ Welcomes
                /\ UNCHANGED <<stage, tries, errors, left, packet, wtry, file, result>>
           ELSE Fail /\ UNCHANGED <<toSnd, stage>>
  /\ UNCHANGED <<snd, line, card>>

FinPacketAcked ==
  /\ rpc = "finPacket"
  /\ Receives /\ Fail /\ Sends(<<"ACK">>)
  /\ UNCHANGED <<stage, snd, line, late, card>>

FinPacket ==
  /\ rpc = "finPacket"
  /\ \/ TimesOut /\ Fail /\ UNCHANGED <<toSnd, stage>>
     \/ /\ Receives /\ UNCHANGED late
        /\ \/ /\ IsPacket(Msg) /\ Msg.bad = "no" /\ Msg.kind = "header"
              /\ OnBegin /\ EnterTrans /\ Welcomes
              /\ UNCHANGED <<tries, packet, wtry, file, result>>
           \/ /\ IsPacket(Msg) /\ Msg.bad = "no" /\ Msg.kind = "null"
              /\ rpc' = "end" /\ stage' = "finished" /\ result' = "ok" /\ Sends(<<"ACK">>)
              /\ UNCHANGED <<tries, errors, left, packet, wtry, file>>
           \/ /\ ~IsPacket(Msg) \/ Msg.bad # "no" \/ Msg.seq # 0
              /\ Fail /\ UNCHANGED <<toSnd, stage>>
  /\ UNCHANGED <<snd, line, card>>

Receiver ==
  \/ HandshakeCode \/ HandshakePacket
  \/ TransCode \/ TransEot \/ TransDamaged \/ TransHeaderAgain \/ TransData
  \/ OnDataWrite \/ OnDataFails
  \/ FinEot \/ FinPacket
-----------------------------------------------------------------------------
(* The sender and the line. *)

Packets == (Size + Width - 1) \div Width

Unit(f, i) == IF i <= Size THEN (f - 1) * Size + i ELSE Pad

Control(kind) == [kind |-> kind, seq |-> 0, data |-> << >>, bad |-> "no"]
Header  == [Control("header") EXCEPT !.data = [i \in 1..Width |-> Pad]]
Null    == [Control("null") EXCEPT !.data = [i \in 1..Width |-> Pad]]
DataPacket(f, k) ==
  [kind |-> "data", seq |-> k,
   data |-> [i \in 1..Width |-> Unit(f, (k - 1) * Width + i)], bad |-> "no"]

\* What it sends in state s.
Message(s) ==
  CASE s = "header" -> Header
    [] s = "data"   -> DataPacket(sfile, sseq')
    [] s = "eot"    -> Control("eot")
    [] s = "null"   -> Null
    [] s = "quit"   -> Control("can")

SndEnters(s) ==
  /\ spc' = s
  /\ IF s \in {"await", "awaitEnd", "sent"} THEN UNCHANGED toRcv
     ELSE toRcv' = Append(toRcv, Message(s))

SndRepeats ==
  /\ resent' = resent + 1
  /\ UNCHANGED <<sfile, sseq>>
  /\ SndEnters(IF resent < MaxResend THEN spc ELSE "quit")

SndGoesOn(s, f, k) == resent' = 0 /\ sfile' = f /\ sseq' = k /\ SndEnters(s)

SndReads ==
  /\ toSnd # << >> /\ toSnd' = Tail(toSnd)
  /\ LET c == Head(toSnd)
         Body(f) == IF Packets = 0 THEN SndGoesOn("eot", f, 0) ELSE SndGoesOn("data", f, 1)
         Moves ==
           \/ spc = "start" /\ c = "C" /\ SndGoesOn("header", 1, 0)
           \/ spc = "header" /\ c = "ACK" /\ SndGoesOn("await", sfile, 0)
           \/ spc = "await" /\ c = "C" /\ Body(sfile)
           \/ spc = "data" /\ c = "ACK"
              /\ IF sseq < Packets THEN SndGoesOn("data", sfile, sseq + 1)
                 ELSE SndGoesOn("eot", sfile, 0)
           \/ spc = "eot" /\ c = "ACK" /\ SndGoesOn("awaitEnd", sfile, 0)
           \/ spc = "awaitEnd" /\ c = "C"
              /\ IF sfile < Batch THEN SndGoesOn("header", sfile + 1, 0)
                 ELSE SndGoesOn("null", sfile, 0)
           \/ spc = "null" /\ c = "ACK" /\ SndGoesOn("sent", sfile, 0)
           \/ spc \in {"header", "null"} /\ c \in {"NAK", "C"} /\ SndRepeats
           \/ spc \in {"data", "eot"} /\ c = "NAK" /\ SndRepeats
           \/ spc \in {"header", "data"} /\ c = "CAN" /\ SndGoesOn("quit", sfile, 0)
         Known == <<spc, c>> \in
           {<<"start", "C">>, <<"header", "ACK">>, <<"await", "C">>, <<"data", "ACK">>,
            <<"eot", "ACK">>, <<"awaitEnd", "C">>, <<"null", "ACK">>, <<"header", "NAK">>,
            <<"header", "C">>, <<"null", "NAK">>, <<"null", "C">>, <<"data", "NAK">>,
            <<"eot", "NAK">>, <<"header", "CAN">>, <<"data", "CAN">>}
     IN Moves \/ (~Known /\ UNCHANGED <<snd, toRcv>>)
  /\ UNCHANGED <<rcv, line, late, card>>

\* Its own timeout, longer than those of the receiver.
SndTimeout ==
  /\ spc \in {"header", "data", "eot", "null"}
  /\ toSnd = << >>
  /\ late < MaxLate /\ late' = late + 1
  /\ SndRepeats
  /\ UNCHANGED <<rcv, toSnd, line, card>>

\* The line damages what enters it last, or loses an answer.
LineDamages ==
  /\ damaged + upset < MaxDamage
  /\ \/ /\ toRcv # << >>
        /\ LET m == toRcv[Len(toRcv)] IN
           /\ m.kind \in Frail
           /\ \E d \in Damage :
              \/ d = "lost" /\ toRcv' = SubSeq(toRcv, 1, Len(toRcv) - 1)
              \/ /\ d # "lost" /\ IsPacket(m) /\ m.bad = "no"
                 /\ toRcv' = [toRcv EXCEPT ![Len(toRcv)].bad = d]
           /\ IF m.kind = "data" THEN damaged' = damaged + 1 /\ UNCHANGED upset
              ELSE upset' = upset + 1 /\ UNCHANGED damaged
        /\ UNCHANGED toSnd
     \/ /\ LoseCodes /\ toSnd # << >>
        /\ toSnd' = Tail(toSnd) /\ upset' = upset + 1
        /\ UNCHANGED <<toRcv, damaged>>
  /\ UNCHANGED <<rcv, snd, late, card>>

Next == Receiver \/ SndReads \/ SndTimeout \/ LineDamages

Spec == Init /\ [][Next]_vars

\* The shell thread reads what arrives or times out; the PC answers.
FairSpec == Spec /\ WF_vars(Receiver) /\ WF_vars(SndReads)
-----------------------------------------------------------------------------
Image == [i \in 1 .. Size * Batch |-> i]

\* Every variable keeps to its range.
TypeOK ==
  /\ rpc \in {"handshake", "trans", "write", "fin", "finPacket", "end"}
  /\ stage \in {"establishing", "established", "transmitting", "finishing", "finished"}
  /\ tries \in 0 .. HsTries /\ errors \in 0 .. MaxErrors
  /\ left \in 0 .. Size /\ wtry \in 0 .. WriteTries
  /\ packet \in Seq(0 .. Size * Batch) /\ Len(packet) <= left
  /\ file \in Seq(0 .. Size * Batch)
  /\ result \in {None, "ok", "fail"}
  /\ spc \in {"start", "header", "await", "data", "eot", "awaitEnd", "null", "sent", "quit"}
  /\ sfile \in 1 .. Batch /\ sseq \in 0 .. Packets /\ resent \in 0 .. MaxResend + 1
  /\ {damaged, upset} \subseteq 0 .. MaxDamage /\ late \in 0 .. MaxLate
  /\ faults \in 0 .. MaxFault /\ torn \in Nat

(* As long as only packets are damaged or lost, and neither side is late,    *)
(* the file is what was sent so far: no packet is stored twice or skipped,   *)
(* no padding is stored, whatever the retries.                               *)
FileIsPrefix == \A i \in DOMAIN file : i <= Size * Batch /\ file[i] = i

(* Then a transfer reported as successful stored the whole file.             *)
WholeOnSuccess == result = "ok" => file = Image

(* Whatever is damaged, lost or late, the file grows past the sizes in the   *)
(* headers only by what failed writes left in it.                            *)
SizeKept == Len(file) <= Size * Batch + torn

(* And a transfer reported as successful stored as many units as were sent,  *)
(* or filled the card.                                                       *)
LengthOnSuccess == result = "ok" => Len(file) = Smaller(Room, Size * Batch + torn)

(* A sender whose last packet was acknowledged has not been misled: the      *)
(* receiver has ended the transfer as successful.                            *)
SenderIsRight == spc = "sent" => result = "ok"

(* With nothing lost but packets, a transfer fails only after more than       *)
(* RYM_MAX_ERRORS damaged data packets, a packet that could not be written,  *)
(* or the damage of a packet that is not asked for again (the headers and    *)
(* the end of the batch).                                                    *)
ErrorsAreRetried ==
  result = "fail" => damaged > MaxErrors \/ upset > 0 \/ faults >= WriteTries

(* rym_recv_on_device returns.                                               *)
TransferEnds == <>(result # None)
=============================================================================
