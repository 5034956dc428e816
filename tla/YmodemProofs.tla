---------------------------- MODULE YmodemProofs ---------------------------
(***************************************************************************)
(* What TLAPS proves of module Ymodem, for every size of the file and of   *)
(* the packets, every batch and every number of errors the two sides       *)
(* allow.                                                                  *)
(***************************************************************************)
EXTENDS Ymodem, TLAPS

Item == 0 .. Size * Batch
MessageType ==
  [kind : {"header", "data", "null", "eot", "can"}, seq : Nat, data : Seq(Item),
   bad : {"no", "short", "seq", "crc"}]
Code == {"C", "ACK", "NAK", "CAN"}

(* TypeOK by who owns the variables, with the types of what is on the line,  *)
(* and with what holds where a packet is or is not being written.            *)
RcvShape ==
  /\ rpc \in {"handshake", "trans", "write", "fin", "finPacket", "end"}
  /\ stage \in {"establishing", "established", "transmitting", "finishing", "finished"}
  /\ tries \in 0 .. HsTries /\ errors \in 0 .. MaxErrors
  /\ left \in 0 .. Size /\ wtry \in 0 .. WriteTries
  /\ packet \in Seq(Item) /\ Len(packet) <= left
  /\ file \in Seq(Item)
  /\ result \in {None, "ok", "fail"}
  /\ IF rpc = "write" THEN wtry >= 1 ELSE packet = << >>

SndShape ==
  /\ spc \in {"start", "header", "await", "data", "eot", "awaitEnd", "null", "sent", "quit"}
  /\ sfile \in 1 .. Batch /\ sseq \in 0 .. Packets /\ resent \in 0 .. MaxResend + 1
  /\ spc # "quit" => resent <= MaxResend
  /\ spc = "data" => sseq >= 1

LineShape == toRcv \in Seq(MessageType) /\ toSnd \in Seq(Code)

PastShape ==
  /\ damaged \in Nat /\ upset \in Nat /\ damaged + upset <= MaxDamage
  /\ late \in 0 .. MaxLate /\ faults \in 0 .. MaxFault /\ torn \in Nat

Shape == RcvShape /\ SndShape /\ LineShape /\ PastShape
-----------------------------------------------------------------------------
(* The constants.                                                            *)
LEMMA Constant ==
  /\ Size \in Nat /\ Room \in Nat /\ MaxDamage \in Nat /\ MaxLate \in Nat
  /\ MaxFault \in Nat /\ MaxResend \in Nat /\ MaxErrors \in Nat
  /\ Width \in Nat /\ Width >= 1 /\ Batch \in Nat /\ Batch >= 1
  /\ HsTries \in Nat /\ HsTries >= 1
  /\ SizeSent \in BOOLEAN /\ LoseCodes \in BOOLEAN /\ Tears \in BOOLEAN
  /\ Damage \subseteq {"short", "seq", "crc", "lost"}
BY YmodemAssumption

(* A file has a whole number of packets.                                     *)
LEMMA PacketsNat == Packets \in Nat
BY Constant DEF Packets

(* A product of two numbers grows with each of them.                         *)
LEMMA Grows ==
  ASSUME NEW a \in Nat, NEW b \in Nat, NEW c \in Nat, a <= b
  PROVE  a * c \in Nat /\ b * c \in Nat /\ a * c <= b * c
<1>1. a * c \in Nat /\ b * c \in Nat OBVIOUS
<1>2. PICK d \in Nat : b = a + d
  <2>1. b - a \in Nat /\ b = a + (b - a) OBVIOUS
  <2> QED BY <2>1
<1>3. d * c \in Nat OBVIOUS
<1>4. b * c = a * c + d * c BY <1>2
<1> QED BY <1>1, <1>3, <1>4

(* What the sender sends of file f is padding or a unit of the batch.        *)
LEMMA UnitItem ==
  ASSUME NEW f \in 1 .. Batch, NEW i \in Nat
  PROVE  Unit(f, i) \in Item
<1>1. Size \in Nat /\ Batch \in Nat /\ Pad = 0 BY Constant DEF Pad
<1>2. f - 1 \in Nat /\ Batch - 1 \in Nat /\ f - 1 <= Batch - 1 BY <1>1
<1>3. /\ (f - 1) * Size \in Nat /\ (Batch - 1) * Size \in Nat
      /\ (f - 1) * Size <= (Batch - 1) * Size
  BY <1>1, <1>2, Grows
<1>4. (Batch - 1) * Size + Size = Size * Batch BY <1>1
<1>5. Size * Batch \in Nat BY <1>1
<1>6. CASE i <= Size BY <1>1, <1>3, <1>4, <1>5, <1>6 DEF Unit, Item
<1>7. CASE ~(i <= Size) BY <1>1, <1>5, <1>7 DEF Unit, Item
<1> QED BY <1>6, <1>7

(* The messages.                                                             *)
LEMMA MessageTypes ==
  /\ \A k \in {"header", "data", "null", "eot", "can"} : Control(k) \in MessageType
  /\ Header \in MessageType /\ Null \in MessageType
  /\ \A f \in 1 .. Batch, k \in Nat \ {0} : DataPacket(f, k) \in MessageType
<1>1. Pad \in Item BY UnitItem, Constant DEF Pad, Item
<1>2. Width \in Nat BY Constant
<1>3. [i \in 1..Width |-> Pad] \in Seq(Item)
  <2>1. [i \in 1..Width |-> Pad] \in [1..Width -> Item] BY <1>1
  <2> QED BY <1>2, <2>1
<1>4. << >> \in Seq(Item) OBVIOUS
<1>5. ASSUME NEW f \in 1 .. Batch, NEW k \in Nat \ {0}
      PROVE  DataPacket(f, k) \in MessageType
  <2>1. ASSUME NEW i \in 1..Width PROVE Unit(f, (k - 1) * Width + i) \in Item
    <3>1. k - 1 \in Nat /\ i \in Nat BY <1>2
    <3>2. (k - 1) * Width \in Nat BY <3>1, <1>2
    <3>3. (k - 1) * Width + i \in Nat BY <3>1, <3>2
    <3> QED BY <3>3, UnitItem
  <2> DEFINE d == [i \in 1..Width |-> Unit(f, (k - 1) * Width + i)]
  <2>2. d \in [1..Width -> Item] BY <2>1
  <2>3. d \in Seq(Item) BY <2>2, <1>2
  <2> HIDE DEF d
  <2>4. [kind |-> "data", seq |-> k, data |-> d, bad |-> "no"] \in MessageType
    BY <2>3 DEF MessageType
  <2> QED BY <2>4 DEF DataPacket, d
<1> QED BY <1>3, <1>4, <1>5 DEF Control, Header, Null, MessageType

(* What a message taken from the line, and an answer put on it, do to it.    *)
LEMMA LineMoves ==
  ASSUME LineShape
  PROVE  /\ Receives => Msg \in MessageType /\ toRcv' \in Seq(MessageType)
         /\ \A codes \in Seq(Code) : Sends(codes) => toSnd' \in Seq(Code)
<1>1. toRcv \in Seq(MessageType) /\ toSnd \in Seq(Code) BY DEF LineShape
<1>2. ASSUME NEW q \in Seq(MessageType), q # << >>
      PROVE  Head(q) \in MessageType /\ Tail(q) \in Seq(MessageType)
  BY <1>2
<1>3. ASSUME NEW p \in Seq(Code), NEW q \in Seq(Code) PROVE p \o q \in Seq(Code)
  OBVIOUS
<1> QED BY <1>1, <1>2, <1>3 DEF Receives, Msg, Sends

(* Cutting a sequence of units keeps their type and bounds its length.       *)
LEMMA Cuts ==
  ASSUME NEW s \in Seq(Item), NEW n \in Int
  PROVE  /\ SubSeq(s, 1, Smaller(n, Len(s))) \in Seq(Item)
         /\ n >= 0 => Len(SubSeq(s, 1, Smaller(n, Len(s)))) <= n
         /\ SubSeq(s, 1, Smaller(Len(s), n)) \in Seq(Item)
         /\ n >= 0 => Len(SubSeq(s, 1, Smaller(Len(s), n))) <= n
         /\ Len(SubSeq(s, 1, Smaller(n, Len(s)))) <= Len(s)
         /\ Len(SubSeq(s, 1, Smaller(Len(s), n))) <= Len(s)
         /\ \A k \in 0 .. Len(s) : SubSeq(s, 1, k) \in Seq(Item) /\ Len(SubSeq(s, 1, k)) = k
<1> DEFINE m == Smaller(n, Len(s))
           l == Smaller(Len(s), n)
<1>1. m \in Int /\ m <= Len(s) /\ m <= n /\ l = m BY DEF Smaller
<1>2. ASSUME NEW k \in Int, k <= Len(s)
      PROVE  SubSeq(s, 1, k) \in Seq(Item) /\ Len(SubSeq(s, 1, k)) = IF k >= 0 THEN k ELSE 0
  <2>1. \A i \in 1 .. k : i \in 1 .. Len(s) /\ s[i] \in Item BY <1>2
  <2> QED BY <1>2, <2>1
<1> HIDE DEF m, l
<1>3. /\ SubSeq(s, 1, m) \in Seq(Item) /\ Len(SubSeq(s, 1, m)) = IF m >= 0 THEN m ELSE 0
  BY <1>1, <1>2
<1>4. ASSUME NEW k \in 0 .. Len(s)
      PROVE  SubSeq(s, 1, k) \in Seq(Item) /\ Len(SubSeq(s, 1, k)) = k
  BY <1>2
<1>5. Len(s) \in Nat OBVIOUS
<1> QED BY <1>1, <1>3, <1>4, <1>5 DEF m, l

(* The initial state has the types.                                          *)
LEMMA InitShape == Init => Shape
<1> SUFFICES ASSUME Init PROVE Shape OBVIOUS
<1> USE Constant, PacketsNat
<1>1. RcvShape BY DEF Init, RcvShape, WriteTries, None
<1>2. SndShape BY DEF Init, SndShape
<1>3. LineShape BY DEF Init, LineShape, Code
<1>4. PastShape BY DEF Init, PastShape
<1> QED BY <1>1, <1>2, <1>3, <1>4 DEF Shape

(* A header begins a file.                                                   *)
LEMMA BeginShape ==
  ASSUME RcvShape, rpc # "write", OnBegin, EnterTrans,
         UNCHANGED <<tries, packet, wtry, file, result>>
  PROVE  RcvShape'
BY Constant DEF OnBegin, EnterTrans, RcvShape

(* The first byte of a packet, the header of the next file and the codes     *)
(* leave the types of the receiver as they are; so do its failures.          *)
LEMMA ReceiverShape == Shape /\ Receiver => Shape'
<1> SUFFICES ASSUME Shape, Receiver PROVE Shape' OBVIOUS
<1> USE Constant, PacketsNat
<1>1. SndShape' /\ damaged' = damaged /\ upset' = upset
  <2>1. UNCHANGED <<snd, line>>
    BY DEF Receiver, HandshakeCode, HandshakePacket, TransCode, TransEot, TransDamaged,
           TransHeaderAgain, TransData, OnDataWrite, OnDataFails, FinEot, FinPacket
  <2> QED BY <2>1 DEF Shape, SndShape, snd, line
<1>2. LineShape
  BY DEF Shape
<1>3. /\ <<"C">> \in Seq(Code) /\ <<"ACK">> \in Seq(Code) /\ <<"NAK">> \in Seq(Code)
      /\ <<"ACK", "C">> \in Seq(Code) /\ <<"CAN", "NAK">> \in Seq(Code)
  BY DEF Code
<1>4. TimesOut => toRcv' = toRcv /\ late' \in 0 .. MaxLate
  BY DEF TimesOut, Shape, PastShape
<1>5. ASSUME Fail, stage' = stage, rpc # "write" PROVE RcvShape'
  <2>1. << >> \in Seq(Item) OBVIOUS
  <2> QED BY <1>5, <2>1 DEF Fail, Shape, RcvShape
<1>6. PastShape' <=> late' \in 0 .. MaxLate /\ faults' \in 0 .. MaxFault /\ torn' \in Nat
  BY <1>1 DEF Shape, PastShape
<1>7. UNCHANGED card => faults' \in 0 .. MaxFault /\ torn' \in Nat
  BY DEF Shape, PastShape, card
<1>8. UNCHANGED late => late' \in 0 .. MaxLate
  BY DEF Shape, PastShape
<1>9. UNCHANGED toSnd => toSnd' \in Seq(Code)
  BY <1>2 DEF LineShape
<1> SUFFICES RcvShape' /\ LineShape' /\ PastShape' BY <1>1 DEF Shape
<1>a. ASSUME NEW stg \in {"established", "transmitting", "establishing", "finishing", "finished"},
             TransErrorAt(stg), rpc = "trans"
      PROVE  RcvShape' /\ toSnd' \in Seq(Code)
  <2>1. toSnd' \in Seq(Code) BY <1>a, <1>2, <1>3, LineMoves DEF TransErrorAt
  <2>2. RcvShape' BY <1>a DEF TransErrorAt, EnterFin, Shape, RcvShape
  <2> QED BY <2>1, <2>2
<1>b. stage \in {"established", "transmitting", "establishing", "finishing", "finished"}
  BY DEF Shape, RcvShape
<1>10. CASE HandshakeCode
  <2>1. toRcv' \in Seq(MessageType) /\ late' \in 0 .. MaxLate
    BY <1>2, <1>4, <1>8, <1>10, LineMoves DEF HandshakeCode, LineShape
  <2>2. PastShape' BY <2>1, <1>6, <1>7, <1>10 DEF HandshakeCode
  <2>3. toSnd' \in Seq(Code)
    BY <1>2, <1>3, <1>9, <1>10, LineMoves DEF HandshakeCode, HandshakeAgain
  <2>4. ASSUME tries > 0 /\ tries' = tries - 1,
               UNCHANGED <<rpc, stage, errors, left, packet, wtry, file, result>>
        PROVE  RcvShape'
    BY <2>4 DEF Shape, RcvShape
  <2>5. ASSUME Fail /\ UNCHANGED stage PROVE RcvShape'
    BY <1>5, <1>10, <2>5 DEF HandshakeCode
  <2>6. RcvShape' BY <1>10, <2>4, <2>5 DEF HandshakeCode, HandshakeAgain
  <2> QED BY <2>1, <2>2, <2>3, <2>6 DEF LineShape
<1>11. CASE HandshakePacket
  <2>1. toRcv' \in Seq(MessageType) BY <1>2, <1>11, LineMoves DEF HandshakePacket
  <2>2. PastShape' BY <1>6, <1>7, <1>8, <1>11 DEF HandshakePacket
  <2>3. toSnd' \in Seq(Code)
    BY <1>2, <1>3, <1>9, <1>11, LineMoves DEF HandshakePacket, Welcomes
  <2>4. ASSUME Fail /\ UNCHANGED stage PROVE RcvShape'
    BY <1>5, <1>11, <2>4 DEF HandshakePacket
  <2>5. ASSUME OnBegin /\ EnterTrans, UNCHANGED <<tries, packet, wtry, file, result>>
        PROVE  RcvShape'
    BY <1>11, <2>5, BeginShape DEF HandshakePacket, Shape
  <2>6. RcvShape' BY <1>11, <2>4, <2>5 DEF HandshakePacket
  <2> QED BY <2>1, <2>2, <2>3, <2>6 DEF LineShape
<1>12. CASE TransCode
  <2>1. toRcv' \in Seq(MessageType) /\ late' \in 0 .. MaxLate
    BY <1>2, <1>4, <1>8, <1>12, LineMoves DEF TransCode, LineShape
  <2>2. PastShape' BY <2>1, <1>6, <1>7, <1>12 DEF TransCode
  <2>3. RcvShape' /\ toSnd' \in Seq(Code) BY <1>a, <1>b, <1>12 DEF TransCode
  <2> QED BY <2>1, <2>2, <2>3 DEF LineShape
<1>13. CASE TransEot
  <2>1. toRcv' \in Seq(MessageType) BY <1>2, <1>13, LineMoves DEF TransEot
  <2>2. PastShape' BY <1>6, <1>7, <1>8, <1>13 DEF TransEot
  <2>3. toSnd' \in Seq(Code) BY <1>2, <1>3, <1>13, LineMoves DEF TransEot
  <2>4. RcvShape' BY <1>13 DEF TransEot, EnterFin, Shape, RcvShape
  <2> QED BY <2>1, <2>2, <2>3, <2>4 DEF LineShape
<1>14. CASE TransDamaged
  <2>1. toRcv' \in Seq(MessageType) BY <1>2, <1>14, LineMoves DEF TransDamaged
  <2>2. PastShape' BY <1>6, <1>7, <1>8, <1>14 DEF TransDamaged
  <2>3. RcvShape' /\ toSnd' \in Seq(Code) BY <1>a, <1>b, <1>14 DEF TransDamaged
  <2> QED BY <2>1, <2>2, <2>3 DEF LineShape
<1>15. CASE TransHeaderAgain
  <2>1. toRcv' \in Seq(MessageType) BY <1>2, <1>15, LineMoves DEF TransHeaderAgain
  <2>2. PastShape' BY <1>6, <1>7, <1>8, <1>15 DEF TransHeaderAgain
  <2>3. toSnd' \in Seq(Code) BY <1>9, <1>15 DEF TransHeaderAgain
  <2>4. RcvShape' BY <1>15 DEF TransHeaderAgain, Shape, RcvShape
  <2> QED BY <2>1, <2>2, <2>3, <2>4 DEF LineShape
<1>16. CASE TransData
  <2>1. Msg \in MessageType /\ toRcv' \in Seq(MessageType)
    BY <1>2, <1>16, LineMoves DEF TransData
  <2>2. PastShape' BY <1>6, <1>7, <1>8, <1>16 DEF TransData
  <2>3. toSnd' \in Seq(Code) BY <1>9, <1>16 DEF TransData
  <2>4. Msg.data \in Seq(Item) /\ left \in Nat BY <2>1 DEF MessageType, Shape, RcvShape
  <2>5. packet' \in Seq(Item) /\ Len(packet') <= left
    <3> DEFINE d == Msg.data
    <3>1. packet' = SubSeq(d, 1, Smaller(left, Len(d))) BY <1>16 DEF TransData, Cut
    <3>2. d \in Seq(Item) BY <2>4
    <3> HIDE DEF d
    <3>3. left \in Int /\ left >= 0 BY <2>4
    <3>4. /\ SubSeq(d, 1, Smaller(left, Len(d))) \in Seq(Item)
          /\ Len(SubSeq(d, 1, Smaller(left, Len(d)))) <= left
      BY <3>2, <3>3, Cuts
    <3> QED BY <3>1, <3>4
  <2>6. RcvShape' BY <1>16, <2>5 DEF TransData, Shape, RcvShape, WriteTries
  <2> QED BY <2>1, <2>2, <2>3, <2>6 DEF LineShape
<1>17. CASE OnDataWrite
  <2>1. toRcv' \in Seq(MessageType) BY <1>2, <1>17 DEF OnDataWrite, LineShape
  <2>2. PastShape' BY <1>6, <1>7, <1>8, <1>17 DEF OnDataWrite
  <2>3. toSnd' \in Seq(Code) BY <1>2, <1>3, <1>17, LineMoves DEF OnDataWrite
  <2>4. packet \in Seq(Item) /\ file \in Seq(Item) BY DEF Shape, RcvShape
  <2>5. Room - Len(file) \in Int BY <2>4
  <2>6. Stored \in Seq(Item) BY <2>4, <2>5, Cuts DEF Stored
  <2>7. file' \in Seq(Item) BY <1>17, <2>4, <2>6 DEF OnDataWrite
  <2>8. left' \in 0 .. Size BY <1>17, <2>4 DEF OnDataWrite, Shape, RcvShape
  <2>9. RcvShape' BY <1>17, <2>7, <2>8 DEF OnDataWrite, Shape, RcvShape
  <2> QED BY <2>1, <2>2, <2>3, <2>9 DEF LineShape
<1>18. CASE OnDataFails
  <2>1. toRcv' \in Seq(MessageType) BY <1>2, <1>18 DEF OnDataFails, LineShape
  <2>2. packet \in Seq(Item) /\ file \in Seq(Item) BY DEF Shape, RcvShape
  <2>3. Room - Len(file) \in Int BY <2>2
  <2>4. Stored \in Seq(Item) /\ Len(Stored) <= Len(packet) BY <2>2, <2>3, Cuts DEF Stored
  <2>5. PICK n \in 0 .. Len(packet) : file' = file \o SubSeq(packet, 1, n) /\ torn' = torn + n
    <3>1. PICK n \in IF Tears THEN 0 .. Len(Stored) ELSE {0} :
            file' = file \o SubSeq(packet, 1, n) /\ torn' = torn + n
      BY <1>18 DEF OnDataFails
    <3>2. Len(Stored) \in Nat /\ Len(packet) \in Nat BY <2>2, <2>4
    <3>3. n \in 0 .. Len(packet) BY <2>4, <3>1, <3>2
    <3> QED BY <3>1, <3>3
  <2>6. SubSeq(packet, 1, n) \in Seq(Item) BY <2>2, Cuts
  <2>7. file' \in Seq(Item) /\ torn' \in Nat BY <2>2, <2>5, <2>6 DEF Shape, PastShape
  <2>8. faults' \in 0 .. MaxFault /\ late' \in 0 .. MaxLate
    BY <1>18 DEF OnDataFails, Shape, PastShape
  <2>9. PastShape' BY <1>6, <2>7, <2>8
  <2>10. toSnd' \in Seq(Code) BY <1>2, <1>3, <1>9, <1>18, LineMoves DEF OnDataFails
  <2>11. /\ wtry' = wtry - 1 /\ UNCHANGED <<tries, left, result>>
         /\ IF wtry > 1 THEN UNCHANGED <<rpc, stage, errors, packet>>
            ELSE rpc' = "fin" /\ stage' = "finishing" /\ errors' = 0 /\ packet' = << >>
    BY <1>18 DEF OnDataFails, EnterFin
  <2>12. << >> \in Seq(Item) /\ Len(<< >>) = 0 OBVIOUS
  <2>13. rpc = "write" /\ RcvShape BY <1>18 DEF OnDataFails, Shape
  <2>14. ASSUME wtry > 1 PROVE RcvShape'
    BY <2>7, <2>11, <2>13, <2>14 DEF RcvShape, WriteTries
  <2>15. ASSUME ~(wtry > 1) PROVE RcvShape'
    BY <2>7, <2>11, <2>12, <2>13, <2>15 DEF RcvShape, WriteTries
  <2> QED BY <2>1, <2>9, <2>10, <2>14, <2>15 DEF LineShape
<1>19. CASE FinEot
  <2>1. toRcv' \in Seq(MessageType) /\ late' \in 0 .. MaxLate
    BY <1>2, <1>4, <1>8, <1>19, LineMoves DEF FinEot, LineShape
  <2>2. PastShape' BY <2>1, <1>6, <1>7, <1>19 DEF FinEot
  <2>3. toSnd' \in Seq(Code) BY <1>2, <1>3, <1>9, <1>19, LineMoves DEF FinEot, Welcomes
  <2>4. RcvShape' BY <1>5, <1>19 DEF FinEot, Shape, RcvShape
  <2> QED BY <2>1, <2>2, <2>3, <2>4 DEF LineShape
<1>20. CASE FinPacket
  <2>1. toRcv' \in Seq(MessageType) /\ late' \in 0 .. MaxLate
    BY <1>2, <1>4, <1>8, <1>20, LineMoves DEF FinPacket, LineShape
  <2>2. PastShape' BY <2>1, <1>6, <1>7, <1>20 DEF FinPacket
  <2>3. toSnd' \in Seq(Code) BY <1>2, <1>3, <1>9, <1>20, LineMoves DEF FinPacket, Welcomes
  <2>4. ASSUME Fail /\ UNCHANGED stage PROVE RcvShape'
    BY <1>5, <1>20, <2>4 DEF FinPacket
  <2>5. ASSUME OnBegin /\ EnterTrans, UNCHANGED <<tries, packet, wtry, file, result>>
        PROVE  RcvShape'
    BY <1>20, <2>5, BeginShape DEF FinPacket, Shape
  <2>6. ASSUME /\ rpc' = "end" /\ stage' = "finished" /\ result' = "ok"
             /\ UNCHANGED <<tries, errors, left, packet, wtry, file>> PROVE RcvShape'
    BY <1>20, <2>6 DEF FinPacket, Shape, RcvShape
  <2>7. RcvShape' BY <1>20, <2>4, <2>5, <2>6 DEF FinPacket
  <2> QED BY <2>1, <2>2, <2>3, <2>7 DEF LineShape
<1> QED
  BY <1>10, <1>11, <1>12, <1>13, <1>14, <1>15, <1>16, <1>17, <1>18, <1>19, <1>20 DEF Receiver

(* The message the sender sends in state s.                                  *)
LEMMA Messages ==
  ASSUME NEW s \in {"header", "data", "eot", "null", "quit"}, sfile \in 1 .. Batch,
         s = "data" => sseq' \in Nat \ {0}
  PROVE  /\ Message(s) \in MessageType
         /\ Message(s).kind = IF s = "quit" THEN "can" ELSE s
<1>1. CASE s = "header" BY <1>1, MessageTypes DEF Message, Header, Control
<1>2. CASE s = "data" BY <1>2, MessageTypes DEF Message, DataPacket
<1>3. CASE s = "eot" BY <1>3, MessageTypes DEF Message, Control
<1>4. CASE s = "null" BY <1>4, MessageTypes DEF Message, Null, Control
<1>5. CASE s = "quit" BY <1>5, MessageTypes DEF Message, Control
<1> QED BY <1>1, <1>2, <1>3, <1>4, <1>5

(* The state the sender enters, with the message it sends there.             *)
LEMMA SndEntersShape ==
  ASSUME Shape,
         NEW s \in {"header", "await", "data", "eot", "awaitEnd", "null", "sent", "quit"},
         SndEnters(s), sseq' \in Nat, s = "data" => sseq' \in Nat \ {0}
  PROVE  spc' = s /\ toRcv' \in Seq(MessageType)
<1>1. spc' = s BY DEF SndEnters
<1>2. toRcv \in Seq(MessageType) /\ sfile \in 1 .. Batch BY DEF Shape, LineShape, SndShape
<1>3. CASE s \in {"await", "awaitEnd", "sent"} BY <1>1, <1>2, <1>3 DEF SndEnters
<1>4. CASE s \notin {"await", "awaitEnd", "sent"}
  <2>1. Message(s) \in MessageType BY <1>2, <1>4, Messages
  <2>2. toRcv' = Append(toRcv, Message(s)) BY <1>4 DEF SndEnters
  <2> QED BY <1>1, <1>2, <2>1, <2>2
<1> QED BY <1>3, <1>4

(* A sender that goes on to a state, with a file and a packet.               *)
LEMMA SndGoesOnShape ==
  ASSUME Shape,
         NEW s \in {"header", "await", "data", "eot", "awaitEnd", "null", "sent", "quit"},
         NEW f \in 1 .. Batch, NEW k \in 0 .. Packets, s = "data" => k >= 1,
         SndGoesOn(s, f, k)
  PROVE  SndShape' /\ toRcv' \in Seq(MessageType)
<1> USE Constant, PacketsNat
<1>1. resent' = 0 /\ sfile' = f /\ sseq' = k /\ SndEnters(s) BY DEF SndGoesOn
<1>2. spc' = s /\ toRcv' \in Seq(MessageType) BY <1>1, SndEntersShape
<1> QED BY <1>1, <1>2 DEF SndShape

(* It repeats what it sent or gives up.                                      *)
LEMMA SndRepeatsShape ==
  ASSUME Shape, spc \in {"header", "data", "eot", "null"}, SndRepeats
  PROVE  SndShape' /\ toRcv' \in Seq(MessageType)
<1> USE Constant, PacketsNat
<1> DEFINE s == IF resent < MaxResend THEN spc ELSE "quit"
<1>1. resent' = resent + 1 /\ sfile' = sfile /\ sseq' = sseq /\ SndEnters(s)
  BY DEF SndRepeats
<1>2. /\ s \in {"header", "data", "eot", "null", "quit"} /\ (s = "data" => spc = "data")
      /\ (s # "quit" => resent < MaxResend)
  OBVIOUS
<1> HIDE DEF s
<1>3. sseq' \in Nat /\ (s = "data" => sseq' \in Nat \ {0}) BY <1>1, <1>2 DEF Shape, SndShape
<1>4. spc' = s /\ toRcv' \in Seq(MessageType)
  BY <1>1, <1>2, <1>3, SndEntersShape DEF Shape, SndShape
<1> QED BY <1>1, <1>2, <1>4 DEF Shape, SndShape

(* The sender's steps keep the types.                                        *)
LEMMA SenderShape == Shape /\ (SndReads \/ SndTimeout) => Shape'
<1> SUFFICES ASSUME Shape, SndReads \/ SndTimeout PROVE Shape' OBVIOUS
<1> USE Constant, PacketsNat
<1>1. RcvShape' /\ damaged' = damaged /\ upset' = upset /\ faults' = faults /\ torn' = torn
  <2>1. UNCHANGED <<rcv, line, card>> BY DEF SndReads, SndTimeout
  <2> QED BY <2>1 DEF Shape, RcvShape, rcv, line, card
<1>2. late' \in 0 .. MaxLate BY DEF SndReads, SndTimeout, Shape, PastShape
<1>3. PastShape' BY <1>1, <1>2 DEF Shape, PastShape
<1>4. sfile \in 1 .. Batch /\ sseq \in 0 .. Packets BY DEF Shape, SndShape
<1>5. CASE SndTimeout
  <2>1. spc \in {"header", "data", "eot", "null"} /\ SndRepeats /\ toSnd' = toSnd
    BY <1>5 DEF SndTimeout
  <2>2. SndShape' /\ toRcv' \in Seq(MessageType) BY <2>1, SndRepeatsShape
  <2> QED BY <1>1, <1>3, <2>1, <2>2 DEF Shape, LineShape
<1>6. CASE SndReads
  <2>1. toSnd' \in Seq(Code)
    <3>1. toSnd \in Seq(Code) /\ toSnd # << >> /\ toSnd' = Tail(toSnd)
      BY <1>6 DEF SndReads, Shape, LineShape
    <3> QED BY <3>1
  <2>2. \/ SndGoesOn("header", 1, 0)
        \/ \E s \in {"await", "eot", "awaitEnd", "null", "sent", "quit"} : SndGoesOn(s, sfile, 0)
        \/ Packets # 0 /\ SndGoesOn("data", sfile, 1)
        \/ sseq < Packets /\ SndGoesOn("data", sfile, sseq + 1)
        \/ sfile < Batch /\ SndGoesOn("header", sfile + 1, 0)
        \/ spc \in {"header", "data", "eot", "null"} /\ SndRepeats
        \/ UNCHANGED <<snd, toRcv>>
    BY <1>6, Zenon DEF SndReads
  <2>3. ASSUME \/ SndGoesOn("header", 1, 0)
               \/ \E s \in {"await", "eot", "awaitEnd", "null", "sent", "quit"} : SndGoesOn(s, sfile, 0)
               \/ Packets # 0 /\ SndGoesOn("data", sfile, 1)
               \/ sseq < Packets /\ SndGoesOn("data", sfile, sseq + 1)
               \/ sfile < Batch /\ SndGoesOn("header", sfile + 1, 0)
        PROVE  SndShape' /\ toRcv' \in Seq(MessageType)
    <3>1. CASE SndGoesOn("header", 1, 0) BY <3>1, SndGoesOnShape
    <3>2. ASSUME NEW s \in {"await", "eot", "awaitEnd", "null", "sent", "quit"},
                 SndGoesOn(s, sfile, 0)
          PROVE  SndShape' /\ toRcv' \in Seq(MessageType)
      BY <1>4, <3>2, SndGoesOnShape
    <3>3. CASE Packets # 0 /\ SndGoesOn("data", sfile, 1) BY <1>4, <3>3, SndGoesOnShape
    <3>4. CASE sseq < Packets /\ SndGoesOn("data", sfile, sseq + 1)
      BY <1>4, <3>4, SndGoesOnShape
    <3>5. CASE sfile < Batch /\ SndGoesOn("header", sfile + 1, 0)
      BY <1>4, <3>5, SndGoesOnShape
    <3> QED BY <2>3, <3>1, <3>2, <3>3, <3>4, <3>5
  <2>4. ASSUME spc \in {"header", "data", "eot", "null"}, SndRepeats
        PROVE  SndShape' /\ toRcv' \in Seq(MessageType)
    BY <2>4, SndRepeatsShape
  <2>5. ASSUME UNCHANGED <<snd, toRcv>> PROVE SndShape' /\ toRcv' \in Seq(MessageType)
    BY <2>5 DEF Shape, SndShape, LineShape, snd
  <2>6. SndShape' /\ toRcv' \in Seq(MessageType) BY <2>2, <2>3, <2>4, <2>5
  <2> QED BY <1>1, <1>3, <2>1, <2>6 DEF Shape, LineShape
<1> QED BY <1>5, <1>6

(* What the line damages or loses keeps its type.                            *)
LEMMA LineDamagesShape == Shape /\ LineDamages => Shape'
<1> SUFFICES ASSUME Shape, LineDamages PROVE Shape' OBVIOUS
<1> USE Constant
<1>1. UNCHANGED <<rcv, snd, late, card>> BY DEF LineDamages
<1>2. RcvShape' /\ SndShape' BY <1>1 DEF Shape, RcvShape, SndShape, rcv, snd
<1>3. late' = late /\ faults' = faults /\ torn' = torn BY <1>1 DEF card
<1>4. /\ damaged + upset < MaxDamage
      /\ \/ damaged' = damaged + 1 /\ upset' = upset
         \/ upset' = upset + 1 /\ damaged' = damaged
  BY Zenon DEF LineDamages
<1>8. PastShape' BY <1>3, <1>4 DEF Shape, PastShape
<1>5. toRcv \in Seq(MessageType) /\ toSnd \in Seq(Code) BY DEF Shape, LineShape
<1>6. toSnd' \in Seq(Code)
  <2>1. toSnd' = toSnd \/ (toSnd # << >> /\ toSnd' = Tail(toSnd)) BY DEF LineDamages
  <2> QED BY <1>5, <2>1
<1>7. toRcv' \in Seq(MessageType)
  <2>1. CASE toRcv' = toRcv BY <1>5, <2>1
  <2>2. CASE toRcv # << >> /\ toRcv' = SubSeq(toRcv, 1, Len(toRcv) - 1)
    <3>1. Len(toRcv) - 1 \in Nat BY <1>5, <2>2
    <3>2. \A i \in 1 .. Len(toRcv) - 1 : toRcv[i] \in MessageType BY <1>5
    <3> QED BY <2>2, <3>1, <3>2
  <2>3. ASSUME NEW d \in Damage, d # "lost", toRcv # << >>,
               toRcv' = [toRcv EXCEPT ![Len(toRcv)].bad = d]
        PROVE  toRcv' \in Seq(MessageType)
    <3>1. d \in {"short", "seq", "crc"} BY <2>3
    <3> DEFINE m == [toRcv[Len(toRcv)] EXCEPT !.bad = d]
    <3>2. Len(toRcv) \in 1 .. Len(toRcv) BY <1>5, <2>3
    <3>3. toRcv[Len(toRcv)] \in MessageType BY <1>5, <3>2
    <3>4. m \in MessageType BY <3>1, <3>3 DEF MessageType
    <3>5. toRcv' = [toRcv EXCEPT ![Len(toRcv)] = m] BY <2>3
    <3> HIDE DEF m
    <3> QED BY <1>5, <3>2, <3>4, <3>5
  <2> QED BY <2>1, <2>2, <2>3 DEF LineDamages
<1> QED BY <1>2, <1>8, <1>6, <1>7 DEF Shape, LineShape

(* Every step keeps the types.                                               *)
LEMMA ShapeStep == Shape /\ [Next]_vars => Shape'
<1> SUFFICES ASSUME Shape, [Next]_vars PROVE Shape' OBVIOUS
<1>1. CASE UNCHANGED vars
  <2>1. UNCHANGED <<rcv, snd, toRcv, toSnd, line, late, card>> BY <1>1 DEF vars
  <2>2. RcvShape' /\ SndShape' BY <2>1 DEF Shape, RcvShape, SndShape, rcv, snd
  <2>3. LineShape' /\ PastShape' BY <2>1 DEF Shape, LineShape, PastShape, line, card
  <2> QED BY <2>2, <2>3 DEF Shape
<1>2. CASE Next BY <1>2, ReceiverShape, SenderShape, LineDamagesShape DEF Next
<1> QED BY <1>1, <1>2

(* The types of the invariant TypeOK are among them.                         *)
LEMMA ShapeTypeOK == Shape => TypeOK
BY Constant DEF Shape, RcvShape, SndShape, LineShape, PastShape, TypeOK, Item

(* Every variable keeps to its range, whatever is damaged, lost or late.     *)
THEOREM TypeCorrect == Spec => []TypeOK
<1>1. Spec => []Shape BY InitShape, ShapeStep, PTL DEF Spec
<1> QED BY <1>1, ShapeTypeOK, PTL
-----------------------------------------------------------------------------
(* No header of the file after next can overtake the EOT of a file: the      *)
(* receiver begins at most one file for each the sender sends.               *)

Kind(i) == toRcv[i].kind
Line == 1 .. Len(toRcv)

\* The number of the file whose header the sender sends next.
NextFile == IF spc \in {"start", "header"} THEN sfile ELSE sfile + 1

\* n files begun; message i belongs to file of[i].
Numbered(n, of) ==
  /\ n \in 0 .. Batch /\ n <= sfile
  /\ of \in [Line -> 1 .. Batch]
  /\ \A i \in Line : n <= of[i] /\ of[i] <= sfile
  /\ \A i, j \in Line : i <= j => of[i] <= of[j]
  /\ \A i, j \in Line : i < j /\ Kind(i) = "eot" /\ Kind(j) = "header" => of[i] < of[j]
  /\ \A i \in Line : Kind(i) = "eot" => of[i] < NextFile
  /\ rpc = "handshake" => n = 0
  /\ rpc = "finPacket" =>
       /\ n < NextFile
       /\ \A i \in Line : Kind(i) = "header" => n < of[i]
  /\ Len(file) + left <= n * Size + torn

SizeInv ==
  /\ spc = "start" => sfile = 1
  /\ \E n \in 0 .. Batch : \E of \in [Line -> 1 .. Batch] : Numbered(n, of)

(* Nothing is on the line, and no file is begun.                             *)
LEMMA InitSizeInv == Init => SizeInv
<1> SUFFICES ASSUME Init PROVE SizeInv OBVIOUS
<1> USE Constant
<1>1. Line = {} /\ sfile = 1 /\ spc = "start" /\ file = << >> /\ left = 0 /\ torn = 0
      /\ rpc = "handshake"
  BY DEF Init, Line
<1>2. PICK of : of = [i \in {} |-> 1] OBVIOUS
<1>3. of \in [Line -> 1 .. Batch] BY <1>1, <1>2
<1>4. 0 * Size = 0 /\ 0 \in 0 .. Batch OBVIOUS
<1>5. Numbered(0, of) BY <1>1, <1>3, <1>4 DEF Numbered
<1> QED BY <1>1, <1>3, <1>4, <1>5 DEF SizeInv

(* The first message is taken, or left where it is, with m files begun now.  *)
LEMMA TakesNumbered ==
  ASSUME Shape, NEW n \in 0 .. Batch, NEW of, Numbered(n, of),
         NEW m \in 0 .. Batch, n <= m, m <= sfile,
         Receives, UNCHANGED <<spc, sfile>>, spc = "start" => sfile = 1,
         \A i \in Line : i >= 2 => m <= of[i],
         rpc' = "handshake" => m = 0,
         rpc' = "finPacket" =>
           m < NextFile /\ \A i \in Line : i >= 2 /\ Kind(i) = "header" => m < of[i],
         Len(file') + left' <= m * Size + torn'
  PROVE  SizeInv'
<1> USE Constant
<1>1. toRcv \in Seq(MessageType) /\ toRcv # << >> /\ toRcv' = Tail(toRcv)
  BY DEF Shape, LineShape, Receives
<1>2. Len(toRcv') = Len(toRcv) - 1 /\ Len(toRcv) \in Nat /\ Len(toRcv) >= 1 BY <1>1
<1>3. ASSUME NEW i \in Line' PROVE i + 1 \in Line /\ i + 1 >= 2 /\ Kind(i)' = Kind(i + 1)
  <2>1. i \in 1 .. Len(toRcv) - 1 BY <1>2 DEF Line
  <2> QED BY <1>1, <1>2, <2>1 DEF Line, Kind
<1>4. PICK g : g = [i \in Line' |-> of[i + 1]] OBVIOUS
<1>5. g \in [Line' -> 1 .. Batch] BY <1>3, <1>4 DEF Numbered
<1>6. \A i \in Line' : i \in Int /\ g[i] = of[i + 1] /\ g[i] \in 1 .. Batch
  BY <1>4, <1>5 DEF Line
<1>7. spc' = spc /\ sfile' = sfile /\ NextFile' = NextFile BY DEF NextFile
<1>8. \A i \in Line' : m <= g[i] /\ g[i] <= sfile'
  BY <1>3, <1>6, <1>7 DEF Numbered
<1>9. \A i, j \in Line' : i <= j => g[i] <= g[j]
  BY <1>3, <1>6 DEF Numbered
<1>10. \A i, j \in Line' : i < j /\ Kind(i)' = "eot" /\ Kind(j)' = "header" => g[i] < g[j]
  BY <1>3, <1>6 DEF Numbered
<1>11. \A i \in Line' : Kind(i)' = "eot" => g[i] < NextFile'
  BY <1>3, <1>6, <1>7 DEF Numbered
<1>12. rpc' = "finPacket" => m < NextFile' /\ \A i \in Line' : Kind(i)' = "header" => m < g[i]
  BY <1>3, <1>6, <1>7
<1>13. Numbered(m, g)'
  BY <1>5, <1>7, <1>8, <1>9, <1>10, <1>11, <1>12 DEF Numbered
<1> QED BY <1>5, <1>7, <1>13 DEF SizeInv

(* The line is left as it is, and no file is begun.                          *)
LEMMA StaysNumbered ==
  ASSUME Shape, NEW n \in 0 .. Batch, NEW of, Numbered(n, of),
         UNCHANGED <<toRcv, spc, sfile>>,
         rpc' = "handshake" => rpc = "handshake",
         rpc' = "finPacket" => rpc = "finPacket",
         Len(file') + left' <= n * Size + torn'
  PROVE  Numbered(n, of)'
<1>1. Line' = Line /\ NextFile' = NextFile /\ sfile' = sfile BY DEF Line, NextFile
<1>2. \A i \in Line : Kind(i)' = Kind(i) BY DEF Kind
<1> QED BY <1>1, <1>2 DEF Numbered

\* A header begins a file.
Begins == rpc' = "trans" /\ left' \in 0 .. Size /\ file' = file /\ torn' = torn

(* What a step of the receiver can do to the files it has begun.             *)
LEMMA ReceiverBegins ==
  ASSUME Shape, Receiver
  PROVE  /\ UNCHANGED <<spc, sfile>>
         /\ Receives \/ toRcv' = toRcv
         /\ \/ /\ rpc' # "finPacket" /\ (rpc' = "handshake" => rpc = "handshake")
               /\ Len(file') + left' - torn' <= Len(file) + left - torn
            \/ rpc = "handshake" /\ Receives /\ Begins
            \/ rpc = "finPacket" /\ Receives /\ Kind(1) = "header" /\ Begins
            \/ /\ rpc = "fin" /\ Receives /\ Kind(1) = "eot" /\ rpc' = "finPacket"
               /\ UNCHANGED <<left, file, torn>>
<1> USE Constant
<1> DEFINE Plain == /\ rpc' # "finPacket" /\ (rpc' = "handshake" => rpc = "handshake")
                    /\ Len(file') + left' - torn' <= Len(file) + left - torn
<1>1. UNCHANGED <<spc, sfile>> /\ (Receives \/ toRcv' = toRcv)
  <2>1. UNCHANGED snd
    BY DEF Receiver, HandshakeCode, HandshakePacket, TransCode, TransEot, TransDamaged,
           TransHeaderAgain, TransData, OnDataWrite, OnDataFails, FinEot, FinPacket
  <2>2. Receives \/ toRcv' = toRcv
    BY DEF Receiver, HandshakeCode, HandshakePacket, TransCode, TransEot, TransDamaged,
           TransHeaderAgain, TransData, OnDataWrite, OnDataFails, FinEot, FinPacket, TimesOut
  <2> QED BY <2>1, <2>2 DEF snd
<1>2. file \in Seq(Item) /\ packet \in Seq(Item) /\ left \in Nat /\ torn \in Nat /\ left <= Size
      /\ Len(file) \in Nat /\ Len(packet) \in Nat
  BY DEF Shape, RcvShape, PastShape
<1>3. ASSUME rpc' # "finPacket", rpc' = "handshake" => rpc = "handshake",
             UNCHANGED <<left, torn>>, file' = file \/ file' = << >>
      PROVE  Plain
  BY <1>2, <1>3
<1>4. CASE HandshakeCode
  <2>1. Plain BY <1>3, <1>4 DEF HandshakeCode, HandshakeAgain, Fail, card
  <2> QED BY <1>1, <2>1
<1>5. CASE HandshakePacket
  <2>1. Plain \/ Begins
    BY <1>2, <1>3, <1>5 DEF HandshakePacket, Fail, OnBegin, EnterTrans, Begins, card
  <2> QED BY <1>1, <1>5, <2>1 DEF HandshakePacket
<1>6. CASE TransCode \/ TransEot \/ TransDamaged \/ TransHeaderAgain \/ TransData
  <2>1. /\ rpc' \in {"trans", "fin", "write"} /\ UNCHANGED <<left, torn, file>>
    BY <1>6 DEF TransCode, TransEot, TransDamaged, TransHeaderAgain, TransData,
                TransErrorAt, EnterFin, card
  <2> QED BY <1>1, <1>3, <2>1
<1>7. CASE OnDataWrite
  <2>1. Room - Len(file) \in Int BY <1>2
  <2>2. Stored \in Seq(Item) /\ Len(Stored) <= Len(packet) BY <1>2, <2>1, Cuts DEF Stored
  <2>3. file' = file \o Stored /\ left' = left - Len(packet) /\ torn' = torn /\ rpc' = "trans"
    BY <1>7 DEF OnDataWrite, card
  <2>4. Len(file') = Len(file) + Len(Stored) /\ Len(Stored) \in Nat BY <1>2, <2>2, <2>3
  <2> QED BY <1>1, <1>2, <2>2, <2>3, <2>4
<1>8. CASE OnDataFails
  <2>1. Room - Len(file) \in Int BY <1>2
  <2>2. Stored \in Seq(Item) /\ Len(Stored) <= Len(packet) BY <1>2, <2>1, Cuts DEF Stored
  <2>3. PICK n \in IF Tears THEN 0 .. Len(Stored) ELSE {0} :
          file' = file \o SubSeq(packet, 1, n) /\ torn' = torn + n
    BY <1>8 DEF OnDataFails
  <2>4. Len(Stored) \in Nat BY <2>2
  <2>5. n \in 0 .. Len(packet) BY <1>2, <2>2, <2>3, <2>4
  <2>6. SubSeq(packet, 1, n) \in Seq(Item) /\ Len(SubSeq(packet, 1, n)) = n BY <1>2, <2>5, Cuts
  <2>7. Len(file') = Len(file) + n BY <1>2, <2>3, <2>6
  <2>8. left' = left /\ rpc' \in {"write", "fin"} BY <1>8 DEF OnDataFails, EnterFin
  <2> QED BY <1>1, <1>2, <2>3, <2>5, <2>7, <2>8
<1>9. CASE FinEot
  <2>1. Plain \/ /\ rpc = "fin" /\ Receives /\ Kind(1) = "eot" /\ rpc' = "finPacket"
                 /\ UNCHANGED <<left, file, torn>>
    BY <1>3, <1>9 DEF FinEot, Fail, card, Kind, Msg
  <2> QED BY <1>1, <2>1
<1>10. CASE FinPacket
  <2>1. Plain \/ (rpc = "finPacket" /\ Receives /\ Kind(1) = "header" /\ Begins)
    <3>1. rpc = "finPacket" /\ torn' = torn BY <1>10 DEF FinPacket, card
    <3>2. ASSUME Fail PROVE Plain BY <1>3, <3>1, <3>2 DEF Fail
    <3>3. ASSUME rpc' = "end", UNCHANGED <<left, file>> PROVE Plain BY <1>3, <3>1, <3>3
    <3>4. ASSUME Receives, Msg.kind = "header", OnBegin, EnterTrans, UNCHANGED file
          PROVE  rpc = "finPacket" /\ Receives /\ Kind(1) = "header" /\ Begins
      BY <1>2, <3>1, <3>4 DEF OnBegin, EnterTrans, Begins, Kind, Msg
    <3>5. \/ Fail
          \/ rpc' = "end" /\ UNCHANGED <<left, file>>
          \/ Receives /\ Msg.kind = "header" /\ OnBegin /\ EnterTrans /\ UNCHANGED file
      BY <1>10 DEF FinPacket
    <3> HIDE DEF Plain
    <3> QED BY <3>2, <3>3, <3>4, <3>5
  <2> QED BY <1>1, <2>1
<1> QED BY <1>4, <1>5, <1>6, <1>7, <1>8, <1>9, <1>10 DEF Receiver

(* What is stored and what is left together shrink, but for torn units.      *)
LEMMA Balance ==
  ASSUME NEW a \in Nat, NEW b \in Nat, NEW c \in Nat, NEW d \in Nat, NEW e \in Nat,
         NEW f \in Nat, NEW p \in Nat, a + b - c <= d + e - f, d + e <= p + f
  PROVE  a + b <= p + c
OBVIOUS

(* The receiver's steps keep the numbering.                                  *)
LEMMA ReceiverSize == Shape /\ SizeInv /\ Receiver => SizeInv'
<1> SUFFICES ASSUME Shape, SizeInv, Receiver PROVE SizeInv' OBVIOUS
<1> USE Constant
<1>1. PICK n \in 0 .. Batch : \E of \in [Line -> 1 .. Batch] : Numbered(n, of) BY DEF SizeInv
<1>2. PICK of \in [Line -> 1 .. Batch] : Numbered(n, of) BY <1>1
<1>3. UNCHANGED <<spc, sfile>> /\ (Receives \/ toRcv' = toRcv) BY ReceiverBegins
<1>4. spc = "start" => sfile = 1 BY DEF SizeInv
<1>5. n \in Nat /\ n <= sfile /\ sfile \in 1 .. Batch /\ Size \in Nat
  BY <1>2 DEF Numbered, Shape, SndShape
<1>6. n * Size \in Nat /\ (n + 1) * Size = n * Size + Size
  BY <1>5
<1>7. Len(file) + left <= n * Size + torn /\ Len(file) \in Nat /\ left \in Nat /\ torn \in Nat
  BY <1>2 DEF Numbered, Shape, RcvShape, PastShape
<1>8. \A i \in Line : n <= of[i] /\ of[i] <= sfile /\ of[i] \in 1 .. Batch
  BY <1>2 DEF Numbered
<1>9. Receives => 1 \in Line /\ \A i \in Line : of[1] <= of[i]
  <2>1. Receives => Len(toRcv) \in Nat /\ Len(toRcv) >= 1 BY DEF Receives, Shape, LineShape
  <2>2. Receives => 1 \in Line /\ \A i \in Line : i >= 1 BY <2>1 DEF Line
  <2> QED BY <1>2, <2>2 DEF Numbered
<1>10. CASE /\ rpc' # "finPacket" /\ (rpc' = "handshake" => rpc = "handshake")
            /\ Len(file') + left' - torn' <= Len(file) + left - torn
  <2>1. Len(file') \in Nat /\ left' \in Nat /\ torn' \in Nat
    BY ReceiverShape DEF Shape, RcvShape, PastShape
  <2>2. Len(file') + left' <= n * Size + torn'
    <3>1. PICK p \in Nat : p = n * Size BY <1>6
    <3>2. PICK a \in Nat : a = Len(file') BY <2>1
    <3>3. PICK b \in Nat : b = Len(file) BY <1>7
    <3>4. a + left' - torn' <= b + left - torn BY <1>10, <3>2, <3>3
    <3>5. b + left <= p + torn BY <1>7, <3>1, <3>3
    <3>6. a + left' <= p + torn' BY <1>7, <2>1, <3>4, <3>5, Balance
    <3> QED BY <3>1, <3>2, <3>6
  <2>3. CASE toRcv' = toRcv
    <3>1. Numbered(n, of)' BY <1>2, <1>3, <1>10, <2>2, <2>3, StaysNumbered
    <3>2. of \in [Line' -> 1 .. Batch] BY <1>2, <2>3 DEF Line
    <3> QED BY <1>3, <1>4, <3>1, <3>2 DEF SizeInv
  <2>4. CASE Receives
    <3>1. rpc' = "handshake" => n = 0 BY <1>2, <1>10 DEF Numbered
    <3> QED BY <1>2, <1>3, <1>4, <1>5, <1>8, <1>10, <2>2, <2>4, <3>1, TakesNumbered
  <2> QED BY <1>3, <2>3, <2>4
<1>11. CASE rpc = "handshake" /\ Receives /\ Begins
  <2>1. n = 0 BY <1>2, <1>11 DEF Numbered
  <2>2. 1 * Size = Size /\ 0 * Size = 0 /\ 1 \in 0 .. Batch BY <1>5
  <2>3. Len(file') + left' <= 1 * Size + torn' BY <1>7, <1>11, <2>1, <2>2 DEF Begins
  <2>4. \A i \in Line : 1 <= of[i] BY <1>8
  <2> QED BY <1>2, <1>3, <1>4, <1>5, <1>11, <2>1, <2>2, <2>3, <2>4, TakesNumbered DEF Begins
<1>12. CASE rpc = "finPacket" /\ Receives /\ Kind(1) = "header" /\ Begins
  <2>1. n < of[1] BY <1>2, <1>9, <1>12 DEF Numbered
  <2>2. n + 1 <= of[1] /\ n + 1 <= sfile /\ n + 1 \in 0 .. Batch /\ n <= n + 1
    BY <1>5, <1>8, <1>9, <1>12, <2>1
  <2>3. Len(file') + left' <= (n + 1) * Size + torn' BY <1>6, <1>7, <1>12 DEF Begins
  <2>4. \A i \in Line : n + 1 <= of[i] BY <1>5, <1>8, <1>9, <1>12, <2>2
  <2>5. rpc' = "trans" BY <1>12 DEF Begins
  <2> QED BY <1>2, <1>3, <1>4, <1>5, <1>12, <2>2, <2>3, <2>4, <2>5, TakesNumbered
<1>13. CASE /\ rpc = "fin" /\ Receives /\ Kind(1) = "eot" /\ rpc' = "finPacket"
            /\ UNCHANGED <<left, file, torn>>
  <2>1. of[1] < NextFile /\ n <= of[1] BY <1>2, <1>8, <1>9, <1>13 DEF Numbered
  <2>2. n < NextFile BY <1>5, <1>8, <1>9, <1>13, <2>1 DEF NextFile
  <2>3. ASSUME NEW i \in Line, i >= 2, Kind(i) = "header" PROVE n < of[i]
    <3>1. i \in Int /\ 1 < i BY <2>3 DEF Line
    <3>2. of[1] < of[i] BY <1>2, <1>9, <1>13, <2>3, <3>1 DEF Numbered
    <3> QED BY <1>5, <1>8, <1>9, <1>13, <2>1, <3>2
  <2>4. Len(file') + left' <= n * Size + torn' BY <1>7, <1>13
  <2> QED BY <1>2, <1>3, <1>4, <1>5, <1>8, <1>13, <2>2, <2>3, <2>4, TakesNumbered
<1> QED BY <1>10, <1>11, <1>12, <1>13, ReceiverBegins

(* The sender appends a message to the line, or only changes its state.      *)
LEMMA AppendsNumbered ==
  ASSUME Shape, NEW n \in 0 .. Batch, NEW of, Numbered(n, of),
         NEW m, toRcv' = Append(toRcv, m),
         UNCHANGED <<rpc, left, file, torn>>,
         sfile' \in 1 .. Batch, sfile <= sfile', spc' # "start", NextFile <= NextFile',
         m.kind = "header" => NextFile <= sfile', m.kind = "eot" => sfile' < NextFile'
  PROVE  SizeInv'
<1> USE Constant
<1>1. toRcv \in Seq(MessageType) /\ n \in Int /\ n <= sfile /\ sfile \in Int /\ NextFile \in Int
      /\ NextFile' \in Int
  BY DEF Shape, LineShape, SndShape, Numbered, NextFile
<1>2. PICK l \in Nat : l = Len(toRcv) BY <1>1
<1>3. Line = 1 .. l /\ Line' = 1 .. l + 1
  <2>1. Len(toRcv') = l + 1 BY <1>1, <1>2
  <2> QED BY <1>2, <2>1 DEF Line
<1>4. \A i \in 1 .. l : Kind(i)' = Kind(i) /\ i \in 1 .. l + 1 BY <1>1, <1>2 DEF Kind
<1>5. Kind(l + 1)' = m.kind BY <1>1, <1>2 DEF Kind
<1>6. PICK g : g = [i \in 1 .. l + 1 |-> IF i <= l THEN of[i] ELSE sfile'] OBVIOUS
<1>7. \A i \in 1 .. l : of[i] \in 1 .. Batch /\ n <= of[i] /\ of[i] <= sfile
  BY <1>3 DEF Numbered
<1>8. \A i \in 1 .. l : g[i] = of[i] BY <1>4, <1>6
<1>9. g[l + 1] = sfile' BY <1>6
<1>10. \A i \in 1 .. l + 1 : i \in Int /\ (i \in 1 .. l \/ i = l + 1) /\ g[i] \in 1 .. Batch
  BY <1>7, <1>8, <1>9
<1>11. g \in [1 .. l + 1 -> 1 .. Batch] BY <1>6, <1>10
<1>12. \A i \in 1 .. l + 1 : n <= g[i] /\ g[i] <= sfile'
  BY SMTT(30), <1>1, <1>7, <1>8, <1>9, <1>10
<1>13. \A i, j \in 1 .. l + 1 : i <= j => g[i] <= g[j]
  <2>1. ASSUME NEW i \in 1 .. l + 1, NEW j \in 1 .. l + 1, i <= j PROVE g[i] <= g[j]
    <3>1. CASE j = l + 1 BY <1>9, <1>12, <3>1
    <3>2. CASE i \in 1 .. l /\ j \in 1 .. l
      <4>1. of[i] <= of[j] BY <1>3, <2>1, <3>2 DEF Numbered
      <4> QED BY <1>8, <3>2, <4>1
    <3> QED BY <1>10, <2>1, <3>1, <3>2
  <2> QED BY <2>1
<1>14. \A i \in 1 .. l : Kind(i) = "eot" => of[i] < NextFile BY <1>3 DEF Numbered
<1>15. \A i \in 1 .. l + 1 : Kind(i)' = "eot" => g[i] < NextFile'
  <2>1. ASSUME NEW i \in 1 .. l + 1, Kind(i)' = "eot" PROVE g[i] < NextFile'
    <3>1. CASE i = l + 1 BY <1>5, <1>9, <2>1, <3>1
    <3>2. CASE i \in 1 .. l
      <4>1. of[i] < NextFile BY <1>4, <1>14, <2>1, <3>2
      <4> QED BY <1>1, <1>7, <1>8, <3>2, <4>1
    <3> QED BY <1>10, <3>1, <3>2
  <2> QED BY <2>1
<1>16. \A i, j \in 1 .. l + 1 :
         i < j /\ Kind(i)' = "eot" /\ Kind(j)' = "header" => g[i] < g[j]
  <2>1. ASSUME NEW i \in 1 .. l + 1, NEW j \in 1 .. l + 1, i < j,
               Kind(i)' = "eot", Kind(j)' = "header"
        PROVE  g[i] < g[j]
    <3>1. i \in 1 .. l BY <1>10, <2>1
    <3>2. CASE j = l + 1
      <4>1. of[i] < NextFile /\ NextFile <= sfile' BY <1>4, <1>5, <1>14, <2>1, <3>1, <3>2
      <4> QED BY <1>1, <1>7, <1>8, <1>9, <3>1, <3>2, <4>1
    <3>3. CASE j \in 1 .. l
      <4>1. of[i] < of[j] BY <1>3, <1>4, <2>1, <3>1, <3>3 DEF Numbered
      <4> QED BY <1>8, <3>1, <3>3, <4>1
    <3> QED BY <1>10, <3>2, <3>3
  <2> QED BY <2>1
<1>17. rpc = "finPacket" =>
         n < NextFile' /\ \A i \in 1 .. l + 1 : Kind(i)' = "header" => n < g[i]
  <2>1. ASSUME rpc = "finPacket" PROVE n < NextFile /\ n < NextFile'
    <3>1. n < NextFile BY <2>1 DEF Numbered
    <3> QED BY <1>1, <3>1
  <2>2. ASSUME rpc = "finPacket", NEW i \in 1 .. l + 1, Kind(i)' = "header" PROVE n < g[i]
    <3>1. CASE i = l + 1 BY <1>1, <1>5, <1>9, <2>1, <2>2, <3>1
    <3>2. CASE i \in 1 .. l BY <1>3, <1>4, <1>8, <2>2, <3>2 DEF Numbered
    <3> QED BY <1>10, <3>1, <3>2
  <2> QED BY <2>1, <2>2
<1>18. /\ rpc' = "handshake" => n = 0
       /\ Len(file') + left' <= n * Size + torn' /\ rpc' = rpc
  BY DEF Numbered
<1>19. n <= sfile' BY <1>1
<1>20. Numbered(n, g)'
  BY <1>3, <1>11, <1>12, <1>13, <1>15, <1>16, <1>17, <1>18, <1>19 DEF Numbered
<1> QED BY <1>3, <1>11, <1>20 DEF SizeInv

(* The sender only changes its state.                                        *)
LEMMA MovesNumbered ==
  ASSUME Shape, NEW n \in 0 .. Batch, NEW of \in [Line -> 1 .. Batch], Numbered(n, of),
         UNCHANGED <<rpc, left, file, torn, toRcv>>,
         sfile' \in 1 .. Batch, sfile <= sfile', NextFile <= NextFile',
         spc' = "start" => sfile' = 1
  PROVE  SizeInv'
<1> USE Constant
<1>1. n \in Int /\ n <= sfile /\ sfile \in Int /\ NextFile \in Int /\ NextFile' \in Int
  BY DEF Shape, SndShape, Numbered, NextFile
<1>2. Line' = Line /\ \A i \in Line : Kind(i)' = Kind(i) BY DEF Line, Kind
<1>3. \A i \in Line : of[i] \in Int /\ of[i] <= sfile /\ n <= of[i]
  BY DEF Numbered
<1>4. \A i \in Line : Kind(i) = "eot" => of[i] < NextFile BY DEF Numbered
<1>5. \A i \in Line : n <= of[i] /\ of[i] <= sfile' BY <1>1, <1>3
<1>6. \A i \in Line : Kind(i) = "eot" => of[i] < NextFile' BY <1>1, <1>3, <1>4
<1>7. rpc = "finPacket" => n < NextFile' BY <1>1 DEF Numbered
<1>8. n <= sfile' BY <1>1
<1>9. Numbered(n, of)' BY <1>2, <1>5, <1>6, <1>7, <1>8 DEF Numbered
<1> QED BY <1>2, <1>9 DEF SizeInv

(* The files and the states the sender moves to.                             *)
LEMMA SenderMoves ==
  ASSUME Shape, SizeInv, SndReads \/ SndTimeout
  PROVE  /\ UNCHANGED <<rpc, left, file, torn>>
         /\ \/ UNCHANGED <<spc, sfile, toRcv>>
            \/ \E s \in {"header", "await", "data", "eot", "awaitEnd", "null", "sent", "quit"} :
                 /\ SndEnters(s)
                 /\ \/ s # "header" /\ sfile' = sfile
                    \/ s = "header" /\ spc = "start" /\ sfile' = 1
                    \/ s = "header" /\ spc = "header" /\ sfile' = sfile
                    \/ s = "header" /\ spc \notin {"start", "header"} /\ sfile' = sfile + 1
<1>1. UNCHANGED <<rcv, card>> BY DEF SndReads, SndTimeout
<1>2. UNCHANGED <<rpc, left, file, torn>> BY <1>1 DEF rcv, card
<1>3. CASE spc \in {"header", "data", "eot", "null"} /\ SndRepeats
  <2> DEFINE s == IF resent < MaxResend THEN spc ELSE "quit"
  <2>1. SndEnters(s) /\ sfile' = sfile /\ s \in {spc, "quit"} BY <1>3 DEF SndRepeats
  <2> HIDE DEF s
  <2> QED BY <1>2, <1>3, <2>1
<1>4. CASE UNCHANGED <<snd, toRcv>> BY <1>2, <1>4 DEF snd
<1>5. CASE spc = "start" /\ SndGoesOn("header", 1, 0) BY <1>2, <1>5 DEF SndGoesOn
<1>6. ASSUME NEW s \in {"await", "eot", "awaitEnd", "null", "sent", "quit", "data"},
             NEW k, SndGoesOn(s, sfile, k)
      PROVE  SndEnters(s) /\ s # "header" /\ sfile' = sfile
  BY <1>6 DEF SndGoesOn
<1>7. CASE spc = "awaitEnd" /\ SndGoesOn("header", sfile + 1, 0) BY <1>2, <1>7 DEF SndGoesOn
<1>8. CASE \E s \in {"await", "eot", "awaitEnd", "null", "sent", "quit", "data"} :
             \E k : SndGoesOn(s, sfile, k)
  BY <1>2, <1>6, <1>8
<1>9. \/ spc = "start" /\ SndGoesOn("header", 1, 0)
      \/ \E s \in {"await", "eot", "awaitEnd", "null", "sent", "quit", "data"} :
           \E k : SndGoesOn(s, sfile, k)
      \/ spc = "awaitEnd" /\ SndGoesOn("header", sfile + 1, 0)
      \/ spc \in {"header", "data", "eot", "null"} /\ SndRepeats
      \/ UNCHANGED <<snd, toRcv>>
  BY Zenon DEF SndReads, SndTimeout
<1> QED BY <1>3, <1>4, <1>5, <1>7, <1>8, <1>9

(* The sender's steps keep the numbering.                                    *)
LEMMA SenderSize == Shape /\ SizeInv /\ (SndReads \/ SndTimeout) => SizeInv'
<1> SUFFICES ASSUME Shape, SizeInv, SndReads \/ SndTimeout PROVE SizeInv' OBVIOUS
<1> USE Constant
<1>1. PICK n \in 0 .. Batch : \E of \in [Line -> 1 .. Batch] : Numbered(n, of) BY DEF SizeInv
<1>2. PICK of \in [Line -> 1 .. Batch] : Numbered(n, of) BY <1>1
<1>3. UNCHANGED <<rpc, left, file, torn>> BY SenderMoves
<1>4. sfile \in 1 .. Batch /\ sfile' \in 1 .. Batch /\ (spc = "start" => sfile = 1)
  BY SenderShape DEF Shape, SndShape, SizeInv
<1>5. sseq' \in Nat /\ (spc' = "data" => sseq' \in Nat \ {0})
  BY SenderShape, PacketsNat DEF Shape, SndShape
<1>6. CASE UNCHANGED <<spc, sfile, toRcv>>
  <2>1. NextFile' = NextFile /\ NextFile \in Int BY <1>4, <1>6 DEF NextFile
  <2> QED BY <1>2, <1>3, <1>4, <1>6, <2>1, MovesNumbered
<1>7. ASSUME NEW s \in {"header", "await", "data", "eot", "awaitEnd", "null", "sent", "quit"},
             SndEnters(s),
             \/ s # "header" /\ sfile' = sfile
             \/ s = "header" /\ spc = "start" /\ sfile' = 1
             \/ s = "header" /\ spc = "header" /\ sfile' = sfile
             \/ s = "header" /\ spc \notin {"start", "header"} /\ sfile' = sfile + 1
      PROVE  SizeInv'
  <2>1. spc' = s /\ spc' # "start" BY <1>7 DEF SndEnters
  <2>2. sfile <= sfile' /\ NextFile <= NextFile'
    <3>1. CASE s # "header" /\ sfile' = sfile BY <1>4, <2>1, <3>1 DEF NextFile
    <3>2. CASE s = "header" /\ spc = "start" /\ sfile' = 1 BY <1>4, <2>1, <3>2 DEF NextFile
    <3>3. CASE s = "header" /\ spc = "header" /\ sfile' = sfile
      BY <1>4, <2>1, <3>3 DEF NextFile
    <3>4. CASE s = "header" /\ spc \notin {"start", "header"} /\ sfile' = sfile + 1
      BY <1>4, <2>1, <3>4 DEF NextFile
    <3> QED BY <1>7, <3>1, <3>2, <3>3, <3>4
  <2>3. s = "header" => NextFile <= sfile' BY <1>4, <1>7 DEF NextFile
  <2>4. s = "eot" => sfile' < NextFile' BY <1>4, <1>7, <2>1 DEF NextFile
  <2>5. CASE s \in {"await", "awaitEnd", "sent"}
    <3>1. toRcv' = toRcv BY <1>7, <2>5 DEF SndEnters
    <3> QED BY <1>2, <1>3, <1>4, <2>1, <2>2, <3>1, MovesNumbered
  <2>6. CASE s \notin {"await", "awaitEnd", "sent"}
    <3>1. PICK m : m = Message(s) OBVIOUS
    <3>2. toRcv' = Append(toRcv, m) BY <1>7, <2>6, <3>1 DEF SndEnters
    <3>3. m.kind = IF s = "quit" THEN "can" ELSE s
      BY <1>4, <1>5, <1>7, <2>1, <2>6, <3>1, Messages
    <3> QED BY <1>2, <1>3, <1>4, <2>1, <2>2, <2>3, <2>4, <3>2, <3>3, AppendsNumbered
  <2> QED BY <2>5, <2>6
<1> QED BY <1>6, <1>7, SenderMoves

(* So does the line, which drops the last message or damages it.             *)
LEMMA LineSize == Shape /\ SizeInv /\ LineDamages => SizeInv'
<1> SUFFICES ASSUME Shape, SizeInv, LineDamages PROVE SizeInv' OBVIOUS
<1> USE Constant
<1>1. PICK n \in 0 .. Batch : \E of \in [Line -> 1 .. Batch] : Numbered(n, of) BY DEF SizeInv
<1>2. PICK of \in [Line -> 1 .. Batch] : Numbered(n, of) BY <1>1
<1>3. UNCHANGED <<rpc, left, file, torn, spc, sfile>>
  <2>1. UNCHANGED <<rcv, snd, card>> BY DEF LineDamages
  <2> QED BY <2>1 DEF rcv, snd, card
<1>4. toRcv \in Seq(MessageType) BY DEF Shape, LineShape
<1>5. NextFile' = NextFile BY <1>3 DEF NextFile
<1>6. CASE toRcv' = toRcv
  <2>1. sfile' \in 1 .. Batch /\ sfile <= sfile' /\ NextFile <= NextFile'
        /\ (spc' = "start" => sfile' = 1)
    BY <1>3, <1>5 DEF NextFile, Shape, SndShape, SizeInv
  <2> QED BY <1>2, <1>3, <1>6, <2>1, MovesNumbered
<1>7. ASSUME Line' \subseteq Line, \A i \in Line' : Kind(i)' = Kind(i) PROVE SizeInv'
  <2>1. PICK g : g = [i \in Line' |-> of[i]] OBVIOUS
  <2>2. g \in [Line' -> 1 .. Batch] /\ \A i \in Line' : g[i] = of[i] BY <1>7, <2>1
  <2>3. Numbered(n, g)' BY <1>2, <1>3, <1>5, <1>7, <2>2 DEF Numbered
  <2> QED BY <1>3, <2>2, <2>3 DEF SizeInv
<1>8. CASE toRcv # << >> /\ toRcv' = SubSeq(toRcv, 1, Len(toRcv) - 1)
  <2>1. PICK l \in Nat : Len(toRcv) = l + 1
    <3>1. Len(toRcv) - 1 \in Nat /\ Len(toRcv) = (Len(toRcv) - 1) + 1 BY <1>4, <1>8
    <3> QED BY <3>1
  <2>2. toRcv' = SubSeq(toRcv, 1, l) BY <1>8, <2>1
  <2>3. Len(toRcv') = l /\ \A i \in 1 .. l : toRcv'[i] = toRcv[i]
    BY <1>4, <2>1, <2>2
  <2>4. Line' = 1 .. l /\ Line = 1 .. l + 1 BY <2>1, <2>3 DEF Line
  <2>5. Line' \subseteq Line BY <2>4
  <2>6. \A i \in Line' : Kind(i)' = Kind(i) BY <2>3, <2>4 DEF Kind
  <2> QED BY <1>7, <2>5, <2>6
<1>9. ASSUME NEW d \in Damage, d # "lost", toRcv # << >>,
             toRcv' = [toRcv EXCEPT ![Len(toRcv)].bad = d]
      PROVE  SizeInv'
  <2> DEFINE m == [toRcv[Len(toRcv)] EXCEPT !.bad = d]
  <2>1. Len(toRcv) \in 1 .. Len(toRcv) /\ toRcv[Len(toRcv)] \in MessageType BY <1>4, <1>9
  <2>2. m.kind = toRcv[Len(toRcv)].kind BY <2>1 DEF MessageType
  <2>3. toRcv' = [toRcv EXCEPT ![Len(toRcv)] = m] BY <1>9
  <2> HIDE DEF m
  <2>4. Len(toRcv') = Len(toRcv) BY <1>4, <2>1, <2>3
  <2>5. \A i \in 1 .. Len(toRcv) : toRcv'[i].kind = toRcv[i].kind BY <1>4, <2>1, <2>2, <2>3
  <2> QED BY <1>7, <2>4, <2>5 DEF Line, Kind
<1> QED BY <1>6, <1>8, <1>9 DEF LineDamages

(* Every step keeps the numbering.                                           *)
LEMMA SizeStep == Shape /\ SizeInv /\ [Next]_vars => SizeInv'
<1> SUFFICES ASSUME Shape, SizeInv, [Next]_vars PROVE SizeInv' OBVIOUS
<1>1. CASE UNCHANGED vars
  <2>1. UNCHANGED <<rpc, left, file, torn, spc, sfile, toRcv>>
    BY <1>1 DEF vars, rcv, snd, card
  <2>2. PICK n \in 0 .. Batch : \E of \in [Line -> 1 .. Batch] : Numbered(n, of) BY DEF SizeInv
  <2>3. PICK of \in [Line -> 1 .. Batch] : Numbered(n, of) BY <2>2
  <2>4. sfile' \in 1 .. Batch /\ sfile <= sfile' /\ NextFile <= NextFile'
        /\ (spc' = "start" => sfile' = 1)
    BY <2>1, Constant DEF NextFile, Shape, SndShape, SizeInv
  <2> QED BY <2>1, <2>3, <2>4, MovesNumbered
<1>2. CASE Next BY <1>2, ReceiverSize, SenderSize, LineSize DEF Next
<1> QED BY <1>1, <1>2

(* n files of Size units, and n is at most Batch.                            *)
LEMMA SizeInvKeeps == Shape /\ SizeInv => SizeKept
<1> SUFFICES ASSUME Shape, SizeInv PROVE SizeKept OBVIOUS
<1> USE Constant
<1>1. PICK n \in 0 .. Batch : \E of \in [Line -> 1 .. Batch] : Numbered(n, of) BY DEF SizeInv
<1>2. Len(file) + left <= n * Size + torn BY <1>1 DEF Numbered
<1>3. n * Size \in Nat /\ Size * Batch \in Nat /\ n * Size <= Size * Batch
  <2>1. n \in Nat /\ n <= Batch OBVIOUS
  <2>2. n * Size \in Nat /\ Batch * Size \in Nat /\ n * Size <= Batch * Size BY <2>1, Grows
  <2> QED BY <2>2
<1>4. Len(file) \in Nat /\ left \in Nat /\ torn \in Nat BY DEF Shape, RcvShape, PastShape
<1> QED BY <1>2, <1>3, <1>4 DEF SizeKept

(* Whatever is damaged, lost or late, the file on the card is longer than    *)
(* the headers said by no more than failed writes left in it.                *)
THEOREM SizeCorrect == Spec => []SizeKept
<1>1. Init => Shape /\ SizeInv BY InitShape, InitSizeInv
<1>2. (Shape /\ SizeInv) /\ [Next]_vars => (Shape /\ SizeInv)' BY ShapeStep, SizeStep
<1> QED BY <1>1, <1>2, SizeInvKeeps, PTL DEF Spec
-----------------------------------------------------------------------------
(* A line that loses and damages only packets, neither side late, and a card *)
(* that writes a packet or nothing of it.  Then the two sides take turns:    *)
(* one message is on its way, or the answer to it.                           *)
Calm == MaxLate = 0 /\ ~LoseCodes /\ SizeSent /\ ~Tears

\* The sender repeats a packet as often as the receiver asks for it.
Patient == MaxResend >= MaxErrors /\ MaxResend >= 1

\* What ErrorsAreRetried accepts as the reason of a failure.
Excuse == damaged > MaxErrors \/ upset > 0 \/ faults >= WriteTries

\* The units in the first k packets of a file, and those of the files before f too.
Ahead(k) == Smaller(Size, k * Width)
Sent(f, k) == (f - 1) * Size + Ahead(k)

\* The first n units of the batch are on the card, as far as it has room.
Holds(n) == n \in 0 .. Size * Batch /\ file = [i \in 1 .. Smaller(Room, n) |-> i]

\* Message m is on its way, perhaps damaged, or it is lost.
Carries(m) ==
  \/ toRcv = << >>
  \/ \E x \in MessageType :
       toRcv = <<x>> /\ x.kind = m.kind /\ x.seq = m.seq /\ x.data = m.data
Intact == toRcv # << >> /\ Head(toRcv).bad = "no"

Starting ==
  /\ rpc = "handshake" /\ spc = "start" /\ sfile = 1
  /\ toRcv = << >> /\ toSnd = <<"C">> /\ Holds(0)

Greeting ==
  /\ spc = "header" /\ Carries(Header) /\ (~Intact => upset > 0)
  /\ \/ rpc = "handshake" /\ sfile = 1 /\ toSnd \in {<< >>, <<"C">>}
     \/ rpc = "finPacket" /\ toSnd = << >>
  /\ toSnd = <<"C">> => toRcv = << >>
  /\ Holds((sfile - 1) * Size)

Welcomed ==
  /\ rpc = "trans" /\ left = Size /\ errors = 0
  /\ \/ spc = "header" /\ toSnd = <<"ACK", "C">>
     \/ spc = "await" /\ toSnd = <<"C">>
  /\ toRcv = << >> /\ Holds((sfile - 1) * Size)

Sending ==
  /\ rpc = "trans" /\ spc = "data"
  /\ left = Size - Ahead(sseq - 1) /\ Holds(Sent(sfile, sseq - 1))
  /\ \/ /\ toSnd = << >> /\ Carries(DataPacket(sfile, sseq)) /\ errors = resent
        /\ damaged >= errors /\ (~Intact => damaged > errors)
     \/ toSnd = <<"NAK">> /\ toRcv = << >> /\ errors = resent + 1 /\ damaged >= errors

Writing ==
  /\ rpc = "write" /\ spc = "data" /\ toSnd = << >> /\ toRcv = << >>
  /\ left = Size - Ahead(sseq - 1) /\ Holds(Sent(sfile, sseq - 1))
  /\ packet = [i \in 1 .. Smaller(left, Width) |-> Sent(sfile, sseq - 1) + i]
  /\ faults + wtry >= WriteTries

Accepted ==
  /\ rpc = "trans" /\ spc = "data" /\ toSnd = <<"ACK">> /\ toRcv = << >> /\ errors = 0
  /\ left = Size - Ahead(sseq) /\ Holds(Sent(sfile, sseq))

Doomed ==
  /\ rpc = "fin" /\ spc = "data" /\ Excuse /\ FileIsPrefix
  /\ toSnd \in {<< >>, <<"NAK">>, <<"CAN", "NAK">>}
  /\ Carries(DataPacket(sfile, sseq)) /\ (toSnd # << >> => toRcv = << >>)

Ending ==
  /\ rpc \in {"trans", "fin"} /\ spc = "eot" /\ Holds(sfile * Size)
  /\ Carries(Control("eot"))
  /\ toSnd \in {<< >>, <<"NAK">>} /\ (toSnd # << >> => toRcv = << >>)
  /\ toSnd = << >> /\ toRcv = << >> => upset > 0
  /\ rpc = "trans" /\ toSnd = <<"NAK">> => upset > 0
  /\ (rpc = "trans" \/ toSnd = <<"NAK">>) /\ upset = 0 => resent = 0

Closing ==
  /\ rpc = "finPacket" /\ toRcv = << >> /\ Holds(sfile * Size)
  /\ \/ spc = "eot" /\ toSnd = <<"ACK", "C">>
     \/ spc = "awaitEnd" /\ toSnd = <<"C">>

Leaving ==
  /\ rpc = "finPacket" /\ spc = "null" /\ toSnd = << >> /\ Holds(Batch * Size)
  /\ Carries(Null) /\ (~Intact => upset > 0)

Complete ==
  /\ rpc = "end" /\ result = "ok" /\ toRcv = << >> /\ Holds(Batch * Size)
  /\ \/ spc = "null" /\ toSnd = <<"ACK">>
     \/ spc = "sent" /\ toSnd = << >>

NoAck == \A i \in 1 .. Len(toSnd) : toSnd[i] # "ACK"

Quitting ==
  /\ rpc \in {"handshake", "trans", "fin"} /\ spc = "quit" /\ FileIsPrefix
  /\ Carries(Control("can")) /\ (Patient => Excuse) /\ NoAck

Failed ==
  /\ rpc = "end" /\ result = "fail" /\ file = << >> /\ spc # "sent"
  /\ (Patient => Excuse) /\ NoAck

Turn ==
  \/ Starting \/ Greeting \/ Welcomed \/ Sending \/ Writing \/ Accepted \/ Doomed
  \/ Ending \/ Closing \/ Leaving \/ Complete \/ Quitting \/ Failed

Turns == (rpc # "end" => result = None) /\ torn = 0 /\ Turn

(* The smaller of two numbers.                                               *)
LEMMA SmallerIs ==
  ASSUME NEW a \in Int, NEW b \in Int
  PROVE  /\ Smaller(a, b) \in Int /\ Smaller(a, b) <= a /\ Smaller(a, b) <= b
         /\ Smaller(a, b) = a \/ Smaller(a, b) = b
BY DEF Smaller

(* The units of the files before f, and of file f.                           *)
LEMMA FileUnits ==
  ASSUME NEW f \in 1 .. Batch
  PROVE  /\ (f - 1) * Size \in Nat /\ f * Size \in Nat /\ (f - 1) * Size + Size = f * Size
         /\ f * Size <= Size * Batch /\ Size * Batch \in Nat /\ (f + 1 - 1) * Size = f * Size
<1> USE Constant
<1>1. f \in Nat /\ f - 1 \in Nat /\ f <= Batch OBVIOUS
<1>2. (f - 1) * Size \in Nat /\ (f - 1) * Size + Size = f * Size BY <1>1
<1>3. f * Size \in Nat /\ Batch * Size \in Nat /\ f * Size <= Batch * Size BY <1>1, Grows
<1>4. f + 1 - 1 = f BY <1>1
<1> QED BY <1>2, <1>3, <1>4

(* What is sent is part of the batch.                                        *)
LEMMA SentType ==
  ASSUME NEW f \in 1 .. Batch, NEW k \in Nat
  PROVE  Sent(f, k) \in 0 .. Size * Batch
<1> USE Constant
<1>1. k * Width \in Nat BY Constant
<1>2. PICK s \in Int : s = Ahead(k) /\ s >= 0 /\ s <= Size
  BY <1>1, SmallerIs DEF Ahead
<1>3. PICK b \in Nat : b = (f - 1) * Size BY FileUnits
<1>4. PICK w \in Nat : w = Size * Batch BY FileUnits
<1>5. b + Size <= w BY <1>3, <1>4, FileUnits
<1> QED BY <1>2, <1>3, <1>4, <1>5 DEF Sent

(* All packets hold the whole file, and no packet is needed for no unit.     *)
LEMMA PacketsHold == Packets * Width >= Size /\ (Packets = 0 => Size = 0)
<1> USE Constant
<1>1. PICK n \in Nat : n = Size + Width - 1 BY Constant
<1>2. PICK q \in Nat : q = Packets BY PacketsNat
<1>3. q = n \div Width BY <1>1, <1>2 DEF Packets
<1>4. n < (q + 1) * Width BY <1>1, <1>3
<1>5. (q + 1) * Width = q * Width + Width /\ q * Width \in Nat BY Constant
<1>6. q * Width >= Size BY <1>1, <1>4, <1>5
<1>7. q = 0 => q * Width = 0 OBVIOUS
<1> QED BY <1>2, <1>6, <1>7

(* Before the first packet of a file, and after the last.                    *)
LEMMA SentEnds ==
  ASSUME NEW f \in 1 .. Batch
  PROVE  /\ Sent(f, 0) = (f - 1) * Size /\ Sent(f, Packets) = f * Size
         /\ Size - Ahead(0) = Size
         /\ Size - Ahead(Packets) = 0
<1> USE Constant
<1>1. 0 * Width = 0 /\ Packets * Width \in Nat /\ Packets * Width >= Size
  BY PacketsNat, PacketsHold
<1>2. PICK p \in Nat : p = Packets * Width /\ p >= Size BY <1>1
<1>3. Smaller(Size, 0) = 0 /\ Smaller(Size, p) = Size BY <1>2 DEF Smaller
<1>4. (f - 1) * Size \in Nat /\ (f - 1) * Size + Size = f * Size BY FileUnits
<1> QED BY <1>1, <1>2, <1>3, <1>4 DEF Sent, Ahead

(* One packet more.                                                          *)
LEMMA SentNext ==
  ASSUME NEW f \in 1 .. Batch, NEW k \in Nat \ {0}, NEW l \in Nat,
         l = Size - Ahead(k - 1)
  PROVE  /\ Smaller(l, Width) \in Nat
         /\ Sent(f, k) = Sent(f, k - 1) + Smaller(l, Width)
         /\ Size - Ahead(k) = l - Smaller(l, Width)
<1> USE Constant
<1>1. k - 1 \in Nat /\ (k - 1) * Width \in Nat /\ k * Width = (k - 1) * Width + Width
  BY Constant
<1>2. PICK p \in Nat : p = (k - 1) * Width BY <1>1
<1>3. k * Width = p + Width BY <1>1, <1>2
<1>10. Ahead(k) = Smaller(Size, p + Width) /\ Ahead(k - 1) = Smaller(Size, p)
  BY <1>2, <1>3 DEF Ahead
<1>4. l = Size - Smaller(Size, p) BY <1>10
<1>5. PICK b \in Nat : b = (f - 1) * Size BY FileUnits
<1>6. Sent(f, k) = b + Smaller(Size, p + Width) /\ Sent(f, k - 1) = b + Smaller(Size, p)
  BY <1>5, <1>10 DEF Sent
<1>7. CASE Size <= p
  <2>1. Smaller(Size, p) = Size /\ l = 0 /\ Smaller(l, Width) = 0 /\ Smaller(Size, p + Width) = Size
    BY <1>4, <1>7 DEF Smaller
  <2> QED BY <1>10, <1>5, <1>6, <2>1
<1>8. CASE p < Size /\ Size <= p + Width
  <2>1. Smaller(Size, p) = p /\ l = Size - p /\ Smaller(l, Width) = Size - p
        /\ Smaller(Size, p + Width) = Size
    BY <1>4, <1>8 DEF Smaller
  <2>2. Sent(f, k) = b + Size /\ Sent(f, k - 1) = b + p BY <1>6, <2>1
  <2>3. Ahead(k) = Size BY <1>10, <2>1
  <2>4. Size - p \in Nat /\ Size - Size = 0 BY <1>8
  <2> QED BY <1>5, <2>1, <2>2, <2>3, <2>4
<1>9. CASE p + Width < Size
  <2>1. Smaller(Size, p) = p /\ l = Size - p /\ Smaller(l, Width) = Width
        /\ Smaller(Size, p + Width) = p + Width
    BY <1>4, <1>9 DEF Smaller
  <2> QED BY <1>10, <1>5, <1>6, <1>9, <2>1
<1> QED BY <1>7, <1>8, <1>9

(* A data packet cut to what is left of the file holds its next units.       *)
LEMMA CutUnits ==
  ASSUME NEW f \in 1 .. Batch, NEW k \in Nat \ {0}, left \in Nat,
         left = Size - Ahead(k - 1)
  PROVE  Cut(DataPacket(f, k).data) =
           [i \in 1 .. Smaller(left, Width) |-> Sent(f, k - 1) + i]
<1> USE Constant
<1> DEFINE d == DataPacket(f, k).data
<1>1. PICK p \in Nat : p = (k - 1) * Width
  <2>1. k - 1 \in Nat OBVIOUS
  <2> QED BY <2>1
<1>2. PICK b \in Nat : b = (f - 1) * Size BY FileUnits
<1>3. d = [i \in 1 .. Width |-> Unit(f, p + i)] BY <1>1 DEF DataPacket
<1>4. DataPacket(f, k) \in MessageType BY MessageTypes
<1>5. d \in Seq(Item) BY <1>4 DEF MessageType
<1> HIDE DEF d
<1>6. Len(d) = Width
  <2>1. DOMAIN d = 1 .. Width BY <1>3
  <2>2. DOMAIN d = 1 .. Len(d) /\ Len(d) \in Nat BY <1>5
  <2> QED BY <2>1, <2>2
<1>7. PICK m \in Nat : m = Smaller(left, Width) /\ m <= left /\ m <= Width
  BY SmallerIs DEF Smaller
<1>8. left = Size - Smaller(Size, p) BY <1>1 DEF Ahead
<1>9. ASSUME NEW i \in 1 .. m PROVE d[i] = Sent(f, k - 1) + i
  <2>1. i \in 1 .. Width /\ i \in Nat /\ i <= left BY <1>7
  <2>2. Smaller(Size, p) = p /\ p + i <= Size
    <3>1. CASE Size <= p
      <4>1. Smaller(Size, p) = Size /\ left = 0 BY <1>8, <3>1 DEF Smaller
      <4> QED BY <1>7, <1>9, <4>1
    <3>2. CASE p < Size
      <4>1. Smaller(Size, p) = p BY <3>2 DEF Smaller
      <4> QED BY <1>8, <2>1, <3>2, <4>1
    <3> QED BY <3>1, <3>2
  <2>3. d[i] = Unit(f, p + i) BY <1>3, <2>1
  <2>4. Unit(f, p + i) = b + (p + i) BY <1>2, <2>2 DEF Unit
  <2>5. Sent(f, k - 1) = b + p BY <1>1, <1>2, <2>2 DEF Sent, Ahead
  <2>6. b + (p + i) = b + p + i BY <2>1
  <2> QED BY <2>3, <2>4, <2>5, <2>6
<1>10. Cut(d) = SubSeq(d, 1, m) BY <1>6, <1>7 DEF Cut
<1>11. SubSeq(d, 1, m) = [i \in 1 .. m |-> d[i]] BY <1>5, <1>6, <1>7
<1>12. [i \in 1 .. m |-> d[i]] = [i \in 1 .. m |-> Sent(f, k - 1) + i] BY <1>9
<1> QED BY <1>7, <1>10, <1>11, <1>12 DEF d

(* Units written after the units before them extend the prefix.              *)
LEMMA HoldsMore ==
  ASSUME NEW n \in Nat, NEW l \in Nat, n + l \in 0 .. Size * Batch,
         Holds(n), packet = [i \in 1 .. l |-> n + i], file' = file \o Stored
  PROVE  Holds(n + l)'
<1> USE Constant
<1>1. PICK h \in Nat : h = Smaller(Room, n) /\ h <= Room /\ h <= n /\ (h = Room \/ h = n)
  BY SmallerIs DEF Smaller
<1>2. file = [i \in 1 .. h |-> i] BY <1>1 DEF Holds
<1>3. file \in Seq(Nat) /\ Len(file) = h BY <1>2
<1>4. packet \in Seq(Nat) /\ Len(packet) = l
  <2>1. \A i \in 1 .. l : n + i \in Nat OBVIOUS
  <2> QED BY <2>1
<1>5. PICK m \in Nat : m = Smaller(l, Room - h) /\ m <= l /\ m <= Room - h
                       /\ (m = l \/ m = Room - h)
  <2>1. Room - h \in Nat BY <1>1
  <2>2. PICK r \in Nat : r = Room - h BY <2>1
  <2>3. Smaller(l, r) \in Nat /\ Smaller(l, r) <= l /\ Smaller(l, r) <= r
        /\ (Smaller(l, r) = l \/ Smaller(l, r) = r)
    BY DEF Smaller
  <2> QED BY <2>2, <2>3
<1>6. Stored = SubSeq(packet, 1, m) BY <1>3, <1>4, <1>5 DEF Stored
<1>7. Stored \in Seq(Nat) /\ Len(Stored) = m /\ \A i \in 1 .. m : Stored[i] = n + i
  <2>1. SubSeq(packet, 1, m) = [i \in 1 .. m |-> packet[i]] BY <1>4, <1>5
  <2>2. \A i \in 1 .. m : i \in 1 .. l /\ packet[i] = n + i /\ n + i \in Nat BY <1>5
  <2> QED BY <1>6, <2>1, <2>2
<1>8. Len(file') = h + m /\ \A i \in 1 .. h + m :
        file'[i] = IF i <= h THEN file[i] ELSE Stored[i - h]
  <2>1. ASSUME NEW s \in Seq(Nat), NEW t \in Seq(Nat)
        PROVE  /\ s \o t \in Seq(Nat) /\ Len(s \o t) = Len(s) + Len(t)
               /\ \A i \in 1 .. Len(s) + Len(t) :
                    (s \o t)[i] = IF i <= Len(s) THEN s[i] ELSE t[i - Len(s)]
    OBVIOUS
  <2> QED BY <1>3, <1>7, <2>1
<1>9. h + m = Smaller(Room, n + l)
  <2>1. CASE h = Room BY <1>1, <1>5, <2>1 DEF Smaller
  <2>2. CASE h = n /\ m = l BY <1>1, <1>5, <2>2 DEF Smaller
  <2>3. CASE h = n /\ m = Room - h BY <1>1, <1>5, <2>3 DEF Smaller
  <2> QED BY <1>1, <1>5, <2>1, <2>2, <2>3
<1>10. ASSUME NEW i \in 1 .. h + m PROVE file'[i] = i
  <2>1. CASE i <= h BY <1>2, <1>8, <2>1
  <2>2. CASE ~(i <= h)
    <3>1. i - h \in 1 .. m /\ h <= n /\ m >= 1 BY <1>1, <2>2
    <3>2. h = n
      <4>1. h # Room BY <1>5, <3>1
      <4> QED BY <1>1, <4>1
    <3>3. n + (i - h) = i BY <3>2
    <3> QED BY <1>7, <1>8, <2>2, <3>1, <3>3
  <2> QED BY <2>1, <2>2
<1>11. file' \in Seq(Nat) BY <1>3, <1>7
<1>12. file' = [i \in 1 .. h + m |-> i]
  <2>1. file' = [i \in 1 .. Len(file') |-> file'[i]]
    <3>1. ASSUME NEW s \in Seq(Nat) PROVE s = [i \in 1 .. Len(s) |-> s[i]]
      <4>1. s \in [1 .. Len(s) -> Nat] OBVIOUS
      <4> QED BY <4>1
    <3> QED BY <1>11, <3>1
  <2> QED BY <1>8, <1>10, <2>1
<1> QED BY <1>9, <1>12 DEF Holds

(* What the card holds then is what was sent.                                *)
LEMMA HoldsPrefix ==
  ASSUME NEW n, Holds(n)
  PROVE  FileIsPrefix
<1> USE Constant
<1>1. n \in Nat /\ Smaller(Room, n) \in Int /\ Smaller(Room, n) <= n /\ n <= Size * Batch
      /\ Size * Batch \in Nat
  BY SmallerIs DEF Holds
<1>2. file = [i \in 1 .. Smaller(Room, n) |-> i] BY DEF Holds
<1>3. DOMAIN file = 1 .. Smaller(Room, n) BY <1>2
<1>4. ASSUME NEW i \in DOMAIN file PROVE i <= Size * Batch /\ file[i] = i
  BY <1>1, <1>2, <1>3
<1> QED BY <1>4 DEF FileIsPrefix

(* Lines with one or two codes or messages.                                  *)
LEMMA Tuples ==
  ASSUME NEW x, NEW y
  PROVE  /\ <<x>> # << >> /\ Head(<<x>>) = x /\ Tail(<<x>>) = << >> /\ <<x, y>> # << >>
         /\ Head(<<x, y>>) = x /\ Tail(<<x, y>>) = <<y>> /\ Append(<< >>, x) = <<x>>
         /\ << >> \o <<x>> = <<x>> /\ << >> \o <<x, y>> = <<x, y>>
OBVIOUS

(* What the receiver leaves alone; faults only add up.                       *)
LEMMA ReceiverFrame ==
  ASSUME Shape, Receiver
  PROVE  /\ UNCHANGED <<spc, sfile, sseq, resent, damaged, upset>>
         /\ faults' >= faults
         /\ Excuse => Excuse'
<1>1. UNCHANGED <<snd, line>>
  BY DEF Receiver, HandshakeCode, HandshakePacket, TransCode, TransEot, TransDamaged,
         TransHeaderAgain, TransData, OnDataWrite, OnDataFails, FinEot, FinPacket
<1>2. faults \in Nat /\ (faults' = faults \/ faults' = faults + 1)
  <2>1. faults \in Nat BY Constant DEF Shape, PastShape
  <2>2. UNCHANGED card \/ faults' = faults + 1
    BY DEF Receiver, HandshakeCode, HandshakePacket, TransCode, TransEot, TransDamaged,
           TransHeaderAgain, TransData, OnDataWrite, OnDataFails, FinEot, FinPacket
  <2> QED BY <2>1, <2>2 DEF card
<1>3. faults' >= faults BY <1>2
<1>4. Excuse => Excuse' BY <1>1, <1>2 DEF Excuse, line, WriteTries
<1> QED BY <1>1, <1>3, <1>4 DEF snd, line

(* What does not happen on a calm line.                                      *)
LEMMA NotNow ==
  ASSUME Shape, Calm
  PROVE  /\ ~SndTimeout
         /\ TimesOut => toRcv = << >> /\ toSnd = << >> /\ toRcv' = << >>
         /\ toRcv = << >> => ~LineDamages /\ ~Receives
         /\ toSnd = << >> => ~SndReads
         /\ (toRcv = << >> /\ toSnd # << >> /\ rpc # "write") \/ rpc = "end" => ~Receiver
<1>1. ~(late < MaxLate) BY Constant DEF Shape, PastShape, Calm
<1>2. ~SndTimeout BY <1>1 DEF SndTimeout
<1>3. TimesOut => toRcv = << >> /\ toSnd = << >> /\ toRcv' = << >> BY <1>1 DEF TimesOut
<1>4. toRcv = << >> => ~LineDamages /\ ~Receives BY DEF LineDamages, Calm, Receives
<1>5. toSnd = << >> => ~SndReads BY DEF SndReads
<1>6. (toRcv = << >> /\ toSnd # << >> /\ rpc # "write") \/ rpc = "end" => ~Receiver
  BY <1>3, <1>4
  DEF Receiver, HandshakeCode, HandshakePacket, TransCode, TransEot, TransDamaged,
      TransHeaderAgain, TransData, OnDataWrite, OnDataFails, FinEot, FinPacket
<1> QED BY <1>2, <1>3, <1>4, <1>5, <1>6

(* The sender's answers, code by code.                                       *)
LEMMA SenderReads ==
  ASSUME SndReads
  PROVE  /\ toSnd # << >> /\ toSnd' = Tail(toSnd)
         /\ UNCHANGED <<rpc, stage, tries, errors, left, packet, wtry, file, result>>
         /\ UNCHANGED <<damaged, upset, late, faults, torn>>
         /\ LET c == Head(toSnd) IN
            \/ spc = "start" /\ c = "C" /\ SndGoesOn("header", 1, 0)
            \/ spc = "header" /\ c = "ACK" /\ SndGoesOn("await", sfile, 0)
            \/ spc = "await" /\ c = "C" /\ Packets = 0 /\ SndGoesOn("eot", sfile, 0)
            \/ spc = "await" /\ c = "C" /\ Packets # 0 /\ SndGoesOn("data", sfile, 1)
            \/ spc = "data" /\ c = "ACK" /\ sseq < Packets /\ SndGoesOn("data", sfile, sseq + 1)
            \/ spc = "data" /\ c = "ACK" /\ ~(sseq < Packets) /\ SndGoesOn("eot", sfile, 0)
            \/ spc = "eot" /\ c = "ACK" /\ SndGoesOn("awaitEnd", sfile, 0)
            \/ spc = "awaitEnd" /\ c = "C" /\ sfile < Batch /\ SndGoesOn("header", sfile + 1, 0)
            \/ spc = "awaitEnd" /\ c = "C" /\ ~(sfile < Batch) /\ SndGoesOn("null", sfile, 0)
            \/ spc = "null" /\ c = "ACK" /\ SndGoesOn("sent", sfile, 0)
            \/ spc \in {"header", "null"} /\ c \in {"NAK", "C"} /\ SndRepeats
            \/ spc \in {"data", "eot"} /\ c = "NAK" /\ SndRepeats
            \/ spc \in {"header", "data"} /\ c = "CAN" /\ SndGoesOn("quit", sfile, 0)
            \/ /\ <<spc, c>> \notin
                  {<<"start", "C">>, <<"header", "ACK">>, <<"await", "C">>, <<"data", "ACK">>,
                   <<"eot", "ACK">>, <<"awaitEnd", "C">>, <<"null", "ACK">>,
                   <<"header", "NAK">>, <<"header", "C">>, <<"null", "NAK">>, <<"null", "C">>,
                   <<"data", "NAK">>, <<"eot", "NAK">>, <<"header", "CAN">>, <<"data", "CAN">>}
               /\ UNCHANGED <<spc, sfile, sseq, resent, toRcv>>
<1>1. UNCHANGED <<rcv, line, late, card>> BY DEF SndReads
<1>2. toSnd # << >> /\ toSnd' = Tail(toSnd) BY DEF SndReads
<1>3. UNCHANGED <<rpc, stage, tries, errors, left, packet, wtry, file, result>> BY <1>1 DEF rcv
<1>4. UNCHANGED <<damaged, upset, late, faults, torn>> BY <1>1 DEF line, card
<1>5. UNCHANGED <<snd, toRcv>> => UNCHANGED <<spc, sfile, sseq, resent, toRcv>> BY DEF snd
<1> QED BY <1>2, <1>3, <1>4, <1>5, Zenon DEF SndReads

(* The message it sends is the only one on the line.                         *)
LEMMA SendsOne ==
  ASSUME Shape, toRcv = << >>,
         NEW s \in {"header", "data", "eot", "null", "quit"}, SndEnters(s),
         s = "data" => sseq' \in Nat \ {0}
  PROVE  /\ spc' = s /\ Intact'
         /\ s = "header" => Carries(Header)'
         /\ s = "data" /\ sfile' = sfile => Carries(DataPacket(sfile, sseq))'
         /\ s = "eot" => Carries(Control("eot"))'
         /\ s = "null" => Carries(Null)'
         /\ s = "quit" => Carries(Control("can"))'
<1>1. PICK m : m = Message(s) OBVIOUS
<1>2. m \in MessageType BY <1>1, Messages DEF Shape, SndShape
<1>3. spc' = s /\ toRcv' = <<m>>
  <2>1. spc' = s /\ toRcv' = Append(toRcv, m) BY <1>1 DEF SndEnters
  <2> QED BY <2>1, Tuples
<1>4. /\ m.bad = "no" /\ (s = "header" => m = Header)
      /\ (s = "data" => m = DataPacket(sfile, sseq')) /\ (s = "eot" => m = Control("eot"))
      /\ (s = "null" => m = Null) /\ (s = "quit" => m = Control("can"))
  BY <1>1 DEF Message, Header, Null, Control, DataPacket
<1>5. Intact' BY <1>3, <1>4, Tuples DEF Intact
<1>6. ASSUME NEW x, m = x PROVE Carries(x)' BY <1>2, <1>3, <1>6 DEF Carries
<1> QED BY <1>3, <1>4, <1>5, <1>6

(* The message that arrives is the one that was sent, perhaps damaged.        *)
LEMMA Arrives ==
  ASSUME NEW m, Carries(m), toRcv # << >>
  PROVE  /\ Msg \in MessageType /\ Msg.kind = m.kind /\ Msg.seq = m.seq /\ Msg.data = m.data
         /\ Tail(toRcv) = << >> /\ (Intact <=> Msg.bad = "no")
BY Tuples DEF Carries, Msg, Intact

(* The line damages or loses that message.                                   *)
LEMMA DamagesOne ==
  ASSUME Shape, Calm, LineDamages, NEW m, Carries(m)
  PROVE  /\ UNCHANGED <<rpc, stage, tries, errors, left, packet, wtry, file, result>>
         /\ UNCHANGED <<spc, sfile, sseq, resent, toSnd, late, faults, torn>>
         /\ toRcv # << >> /\ Carries(m)'
         /\ IF m.kind = "data" THEN damaged' = damaged + 1 /\ upset' = upset
            ELSE upset' = upset + 1 /\ damaged' = damaged
         /\ Excuse => Excuse'
<1>1. UNCHANGED <<rcv, snd, late, card>> BY DEF LineDamages
<1>2. toRcv # << >> /\ toSnd' = toSnd BY DEF LineDamages, Calm
<1>3. PICK x \in MessageType : toRcv = <<x>> /\ x.kind = m.kind /\ x.seq = m.seq /\ x.data = m.data
  BY <1>2 DEF Carries
<1>4. Len(toRcv) = 1 /\ toRcv[1] = x BY <1>3
<1>5. IF x.kind = "data" THEN damaged' = damaged + 1 /\ upset' = upset
      ELSE upset' = upset + 1 /\ damaged' = damaged
  BY <1>2, <1>4 DEF LineDamages, Calm
<1>6. Carries(m)'
  <2>1. PICK d \in Damage : \/ d = "lost" /\ toRcv' = SubSeq(toRcv, 1, Len(toRcv) - 1)
                            \/ d # "lost" /\ toRcv' = [toRcv EXCEPT ![Len(toRcv)].bad = d]
    BY DEF LineDamages, Calm
  <2>2. CASE d = "lost" /\ toRcv' = SubSeq(toRcv, 1, Len(toRcv) - 1)
    <3>1. toRcv' = SubSeq(<<x>>, 1, 0) BY <1>3, <1>4, <2>2
    <3>2. SubSeq(<<x>>, 1, 0) = << >> OBVIOUS
    <3> QED BY <3>1, <3>2 DEF Carries
  <2>3. CASE d # "lost" /\ toRcv' = [toRcv EXCEPT ![Len(toRcv)].bad = d]
    <3>1. d \in {"short", "seq", "crc"} BY <2>3, Constant
    <3>2. PICK y : y = [x EXCEPT !.bad = d] OBVIOUS
    <3>3. y \in MessageType /\ y.kind = x.kind /\ y.seq = x.seq /\ y.data = x.data
      BY <3>1, <3>2 DEF MessageType
    <3>4. toRcv' = [<<x>> EXCEPT ![1] = y] BY <1>3, <1>4, <2>3, <3>2
    <3>5. [<<x>> EXCEPT ![1] = y] = <<y>> OBVIOUS
    <3> QED BY <1>3, <3>3, <3>4, <3>5 DEF Carries
  <2> QED BY <2>1, <2>2, <2>3
<1>7. damaged \in Nat /\ upset \in Nat BY DEF Shape, PastShape
<1>8. Excuse => Excuse'
  BY <1>1, <1>3, <1>5, <1>7, Constant DEF Excuse, WriteTries, card
<1> QED BY <1>1, <1>2, <1>3, <1>5, <1>6, <1>8 DEF rcv, snd, card

(* No unit is torn, and the result is set at the end.                        *)
LEMMA TurnRest ==
  ASSUME Shape, Calm, Next, rpc # "end" => result = None, torn = 0
  PROVE  torn' = 0 /\ (rpc' # "end" => result' = None)
<1>1. CASE Receiver
  <2>1. torn' = torn
    <3>1. CASE OnDataFails
      <4>1. PICK n \in {0} : torn' = torn + n BY <3>1 DEF OnDataFails, Calm
      <4> QED BY <4>1
    <3>2. CASE ~OnDataFails
      <4>1. UNCHANGED card
        BY <1>1, <3>2
        DEF Receiver, HandshakeCode, HandshakePacket, TransCode, TransEot, TransDamaged,
            TransHeaderAgain, TransData, OnDataWrite, FinEot, FinPacket
      <4> QED BY <4>1 DEF card
    <3> QED BY <3>1, <3>2
  <2>2. rpc # "end" BY <1>1, NotNow
  <2>3. rpc' = "end" \/ result' = result
    BY <1>1
    DEF Receiver, HandshakeCode, HandshakePacket, TransCode, TransEot, TransDamaged,
        TransHeaderAgain, TransData, OnDataWrite, OnDataFails, FinEot, FinPacket,
        HandshakeAgain, TransErrorAt, Fail
  <2> QED BY <2>1, <2>2, <2>3
<1>2. CASE SndReads BY <1>2, SenderReads
<1>3. CASE LineDamages
  <2>1. UNCHANGED <<rcv, card>> BY <1>3 DEF LineDamages
  <2> QED BY <2>1 DEF rcv, card
<1> QED BY <1>1, <1>2, <1>3, NotNow DEF Next

(* A file that is left alone.                                                *)
LEMMA Stays ==
  ASSUME NEW n, Holds(n), file' = file
  PROVE  Holds(n)'
BY DEF Holds

(* The same for the prefix alone.                                            *)
LEMMA PrefixStays == FileIsPrefix /\ file' = file => FileIsPrefix'
BY DEF FileIsPrefix

(* A transfer that fails with nothing on its way to the sender.              *)
LEMMA FailsNow ==
  ASSUME rpc' = "end", result' = "fail", file' = << >>, spc' # "sent",
         Patient => Excuse', NoAck'
  PROVE  Turn'
BY DEF Turn, Failed

(* No answer is no ACK.                                                      *)
LEMMA NoAckPrime == toSnd' = << >> => NoAck'
BY DEF NoAck

(* The first C brings the first header.                                      *)
LEMMA StartingTurn ==
  ASSUME Shape, Calm, Starting, Next
  PROVE  Turn'
<1> USE Constant
<1>1. toRcv = << >> /\ toSnd # << >> /\ rpc = "handshake" /\ spc = "start" /\ Head(toSnd) = "C"
      /\ Tail(toSnd) = << >>
  BY Tuples DEF Starting
<1>2. SndReads BY <1>1, NotNow DEF Next
<1>3. SndGoesOn("header", 1, 0) /\ toSnd' = << >> /\ rpc' = rpc /\ file' = file
  BY <1>1, <1>2, SenderReads
<1>4. SndEnters("header") /\ sfile' = 1 BY <1>3 DEF SndGoesOn
<1>5. spc' = "header" /\ Intact' /\ Carries(Header)' BY <1>1, <1>4, SendsOne
<1>6. (sfile' - 1) * Size = 0 BY <1>4
<1>7. Holds(0)' BY <1>3, Stays DEF Starting
<1>8. Greeting' BY <1>1, <1>3, <1>4, <1>5, <1>6, <1>7 DEF Greeting
<1> QED BY <1>8 DEF Turn

(* A header arrives, is asked for again, or ends the transfer.               *)
LEMMA GreetingTurn ==
  ASSUME Shape, Calm, Greeting, Next
  PROVE  Turn'
<1> USE Constant
<1>1. spc = "header" /\ Carries(Header) /\ (~Intact => upset > 0)
      /\ (toSnd = <<"C">> => toRcv = << >>) /\ toSnd \in {<< >>, <<"C">>}
      /\ (rpc = "finPacket" => toSnd = << >>) /\ rpc \in {"handshake", "finPacket"}
      /\ (rpc = "handshake" => sfile = 1)
  BY DEF Greeting
<1>2. PICK n : n = (sfile - 1) * Size /\ Holds(n) BY DEF Greeting
<1>3. upset \in Nat BY DEF Shape, PastShape
<1>4. Header.kind = "header" /\ Header.seq = 0 /\ Header.bad = "no" BY DEF Header, Control
<1>5. CASE LineDamages
  <2>1. PICK h : h = Header OBVIOUS
  <2>2. /\ UNCHANGED <<rpc, file, spc, sfile, toSnd>> /\ toRcv # << >> /\ Carries(h)'
        /\ upset' = upset + 1
    BY <1>1, <1>4, <1>5, <2>1, DamagesOne
  <2>3. Carries(Header)' BY <2>1, <2>2 DEF Header, Control
  <2>4. upset' > 0 BY <1>3, <2>2
  <2>5. Holds((sfile - 1) * Size)' BY <1>2, <2>2, Stays
  <2>6. toSnd = << >> BY <1>1, <2>2
  <2>7. Greeting' BY <1>1, <2>2, <2>3, <2>4, <2>5, <2>6 DEF Greeting
  <2> QED BY <2>7 DEF Turn
<1>6. CASE SndReads
  <2>1. toSnd = <<"C">> /\ Head(toSnd) = "C" /\ Tail(toSnd) = << >> /\ toRcv = << >>
        /\ rpc = "handshake" /\ upset > 0
    BY <1>1, <1>6, NotNow, Tuples DEF Intact
  <2>2. SndRepeats /\ toSnd' = << >> /\ rpc' = rpc /\ file' = file /\ upset' = upset
    BY <1>1, <1>6, <2>1, SenderReads
  <2>3. sfile' = sfile BY <2>2 DEF SndRepeats
  <2>4. CASE SndEnters("header")
    <3>1. spc' = "header" /\ Intact' /\ Carries(Header)' BY <2>1, <2>4, SendsOne
    <3>2. Holds((sfile - 1) * Size)' BY <1>2, <2>2, <2>3, Stays
    <3>3. Greeting' BY <1>1, <2>1, <2>2, <2>3, <3>1, <3>2 DEF Greeting
    <3> QED BY <3>3 DEF Turn
  <2>5. CASE SndEnters("quit")
    <3>1. spc' = "quit" /\ Carries(Control("can"))' BY <2>1, <2>5, SendsOne
    <3>2. Excuse' BY <2>1, <2>2 DEF Excuse
    <3>3. FileIsPrefix' BY <1>2, <2>2, HoldsPrefix, PrefixStays
    <3>4. Quitting' BY <2>1, <2>2, <3>1, <3>2, <3>3, NoAckPrime DEF Quitting
    <3> QED BY <3>4 DEF Turn
  <2> QED BY <1>1, <2>2, <2>4, <2>5 DEF SndRepeats
<1>7. CASE Receiver
  <2>1. toSnd = << >>
    BY <1>1, <1>7, NotNow
  <2>2. UNCHANGED <<spc, sfile, sseq, resent, damaged, upset>> BY <1>7, ReceiverFrame
  <2>3. ASSUME toRcv # << >>
        PROVE  IsPacket(Msg) /\ Msg.kind = "header" /\ Msg.seq = 0 /\ Tail(toRcv) = << >>
               /\ (Msg.bad # "no" => upset > 0)
    BY <1>1, <1>4, <2>3, Arrives DEF IsPacket
  <2>4. ASSUME Receives PROVE toRcv' = << >> /\ toRcv # << >> BY <2>3, <2>4 DEF Receives
  <2>5. ASSUME Fail, upset > 0, toSnd' = toSnd PROVE Turn'
    <3>1. Excuse' BY <2>2, <2>5 DEF Excuse
    <3> QED BY <1>1, <2>1, <2>2, <2>5, <3>1, FailsNow, NoAckPrime DEF Fail
  <2>6. ASSUME TimesOut PROVE upset > 0 /\ toRcv' = << >>
    BY <1>1, <2>6, NotNow DEF Intact
  <2>7. ASSUME Receives, OnBegin, EnterTrans, Welcomes, file' = file PROVE Turn'
    <3>1. toSnd' = <<"ACK", "C">> BY <2>1, <2>7, Tuples DEF Welcomes, Sends
    <3>2. left' = Size /\ rpc' = "trans" /\ errors' = 0
      BY <2>7 DEF OnBegin, EnterTrans, Calm
    <3>3. Holds((sfile - 1) * Size)' BY <1>2, <2>2, <2>7, Stays
    <3>4. Welcomed' BY <1>1, <2>2, <2>4, <2>7, <3>1, <3>2, <3>3 DEF Welcomed
    <3> QED BY <3>4 DEF Turn
  <2>8. CASE rpc = "handshake"
    <3>1. CASE HandshakeCode
      <4>1. TimesOut /\ HandshakeAgain BY <2>3, <3>1 DEF HandshakeCode, Receives
      <4>2. CASE Fail /\ UNCHANGED <<toSnd, stage>> BY <2>5, <2>6, <4>1, <4>2
      <4>3. CASE Sends(<<"C">>) /\ UNCHANGED <<rpc, file>>
        <5>1. toSnd' = <<"C">> BY <2>1, <4>3, Tuples DEF Sends
        <5>2. Carries(Header)' BY <2>6, <4>1 DEF Carries
        <5>3. Holds((sfile - 1) * Size)' BY <1>2, <2>2, <4>3, Stays
        <5>4. Greeting'
          BY <1>1, <2>2, <2>6, <2>8, <4>1, <4>3, <5>1, <5>2, <5>3 DEF Greeting
        <5> QED BY <5>4 DEF Turn
      <4> QED BY <4>1, <4>2, <4>3 DEF HandshakeAgain
    <3>2. CASE HandshakePacket
      <4>1. CASE Msg.bad = "no" /\ Msg.seq = 0 BY <2>7, <3>2, <4>1 DEF HandshakePacket
      <4>2. CASE ~(Msg.bad = "no" /\ Msg.seq = 0)
        <5>1. upset > 0 BY <2>3, <2>4, <3>2, <4>2 DEF HandshakePacket
        <5> QED BY <2>5, <3>2, <4>2, <5>1 DEF HandshakePacket
      <4> QED BY <4>1, <4>2
    <3> QED
      BY <1>7, <2>8, <3>1, <3>2
      DEF Receiver, TransCode, TransEot, TransDamaged,
          TransHeaderAgain, TransData, OnDataWrite, OnDataFails, FinEot, FinPacket
  <2>9. CASE rpc = "finPacket"
    <3>1. FinPacket
      BY <1>7, <2>9
      DEF Receiver, HandshakeCode, HandshakePacket, TransCode, TransEot, TransDamaged,
          TransHeaderAgain, TransData, OnDataWrite, OnDataFails, FinEot
    <3>2. \/ TimesOut /\ Fail /\ toSnd' = toSnd
          \/ Receives /\ OnBegin /\ EnterTrans /\ Welcomes /\ file' = file
          \/ Receives /\ Msg.kind = "null"
          \/ Receives /\ (~IsPacket(Msg) \/ Msg.bad # "no" \/ Msg.seq # 0) /\ Fail /\ toSnd' = toSnd
      BY <3>1 DEF FinPacket
    <3> QED BY <2>3, <2>4, <2>5, <2>6, <2>7, <3>2
  <2> QED BY <1>1, <2>8, <2>9
<1> QED BY <1>5, <1>6, <1>7, NotNow DEF Next

(* The file begins: its first packet, or its end if it is empty.             *)
LEMMA WelcomedTurn ==
  ASSUME Shape, Calm, Welcomed, Next
  PROVE  Turn'
<1> USE Constant
<1>1. rpc = "trans" /\ toRcv = << >> /\ toSnd # << >> /\ left = Size /\ errors = 0
  <2>1. <<"ACK", "C">> # << >> /\ <<"C">> # << >> BY Tuples
  <2> QED BY <2>1 DEF Welcomed
<1>2. SndReads BY <1>1, NotNow DEF Next
<1>3. UNCHANGED <<rpc, left, errors, file, damaged>> /\ toSnd' = Tail(toSnd)
  BY <1>2, SenderReads
<1>4. sfile \in 1 .. Batch /\ damaged \in Nat BY DEF Shape, SndShape, PastShape
<1>5. PICK n : n = (sfile - 1) * Size /\ Holds(n) BY DEF Welcomed
<1>6. Holds(n)' BY <1>3, <1>5, Stays
<1>7. CASE spc = "header" /\ toSnd = <<"ACK", "C">>
  <2>1. Head(toSnd) = "ACK" /\ toSnd' = <<"C">> BY <1>3, <1>7, Tuples
  <2>2. SndGoesOn("await", sfile, 0) BY <1>2, <1>7, <2>1, SenderReads
  <2>3. spc' = "await" /\ sfile' = sfile /\ toRcv' = toRcv BY <2>2 DEF SndGoesOn, SndEnters
  <2>4. Holds((sfile - 1) * Size)' BY <1>5, <1>6, <2>3
  <2>5. Welcomed' BY <1>1, <1>3, <2>1, <2>3, <2>4 DEF Welcomed
  <2> QED BY <2>5 DEF Turn
<1>8. CASE spc = "await" /\ toSnd = <<"C">>
  <2>1. Head(toSnd) = "C" /\ toSnd' = << >> BY <1>3, <1>8, Tuples
  <2>2. CASE Packets = 0 /\ SndGoesOn("eot", sfile, 0)
    <3>1. sfile' = sfile /\ resent' = 0 /\ SndEnters("eot") BY <2>2 DEF SndGoesOn
    <3>2. spc' = "eot" /\ Intact' /\ Carries(Control("eot"))' BY <1>1, <3>1, SendsOne
    <3>3. n = sfile * Size BY <1>4, <1>5, <2>2, PacketsHold, FileUnits
    <3>4. Holds(sfile * Size)' BY <1>6, <3>1, <3>3
    <3>5. Ending' BY <1>1, <1>3, <2>1, <3>1, <3>2, <3>4 DEF Ending, Intact
    <3> QED BY <3>5 DEF Turn
  <2>3. CASE SndGoesOn("data", sfile, 1)
    <3>1. sfile' = sfile /\ sseq' = 1 /\ resent' = 0 /\ SndEnters("data") BY <2>3 DEF SndGoesOn
    <3>2. spc' = "data" /\ Intact' /\ Carries(DataPacket(sfile, sseq))'
      BY <1>1, <3>1, SendsOne
    <3>3. Sent(sfile, 0) = n /\ Size - Ahead(0) = Size
      BY <1>4, <1>5, SentEnds
    <3>4. sseq' - 1 = 0 BY <3>1
    <3>5. Holds(Sent(sfile, sseq - 1))' BY <1>6, <3>1, <3>3, <3>4 DEF Sent
    <3>6. left' = Size - Ahead(sseq' - 1) BY <1>1, <1>3, <3>3, <3>4
    <3>7. damaged' >= errors' BY <1>1, <1>3, <1>4
    <3>8. Sending' BY <1>1, <1>3, <2>1, <3>1, <3>2, <3>5, <3>6, <3>7 DEF Sending
    <3> QED BY <3>8 DEF Turn
  <2> QED BY <1>2, <1>8, <2>1, <2>2, <2>3, SenderReads
<1> QED BY <1>7, <1>8 DEF Welcomed

(* A packet is repeated until it arrives or the errors are too many.         *)
LEMMA SendingTurn ==
  ASSUME Shape, Calm, Sending, Next
  PROVE  Turn'
<1> USE Constant
<1>1. rpc = "trans" /\ spc = "data" /\ left = Size - Ahead(sseq - 1)
      /\ Holds(Sent(sfile, sseq - 1))
  BY DEF Sending
<1>2. sfile \in 1 .. Batch /\ sseq \in Nat \ {0} /\ damaged \in Nat /\ errors \in 0 .. MaxErrors
      /\ resent \in Nat /\ left \in Nat
  BY <1>1, PacketsNat DEF Shape, SndShape, PastShape, RcvShape
<1>3. PICK n : n = Sent(sfile, sseq - 1) /\ Holds(n) BY <1>1
<1>4. PICK m : m = DataPacket(sfile, sseq) OBVIOUS
<1>5. m.kind = "data" /\ m.seq = sseq BY <1>4 DEF DataPacket
<1>6. ASSUME UNCHANGED <<file, sfile, sseq>> PROVE Holds(Sent(sfile, sseq - 1))'
  <2>1. Sent(sfile, sseq - 1)' = n BY <1>3, <1>6 DEF Sent
  <2> QED BY <1>3, <1>6, <2>1, Stays
<1>7. CASE toSnd = <<"NAK">> /\ toRcv = << >> /\ errors = resent + 1 /\ damaged >= errors
  <2>1. SndReads BY <1>1, <1>7, NotNow, Tuples DEF Next
  <2>2. Head(toSnd) = "NAK" /\ Tail(toSnd) = << >> BY <1>7, Tuples
  <2>3. SndRepeats /\ toSnd' = << >> /\ UNCHANGED <<rpc, left, errors, file, damaged>>
    BY <1>1, <2>1, <2>2, SenderReads
  <2>4. sfile' = sfile /\ sseq' = sseq /\ resent' = resent + 1 BY <2>3 DEF SndRepeats
  <2>5. CASE SndEnters("data")
    <3>1. spc' = "data" /\ Intact' /\ Carries(DataPacket(sfile, sseq))'
      BY <1>2, <1>7, <2>4, <2>5, SendsOne
    <3>2. Holds(Sent(sfile, sseq - 1))' BY <1>6, <2>3, <2>4
    <3>3. Sending' BY <1>1, <1>7, <2>3, <2>4, <3>1, <3>2 DEF Sending
    <3> QED BY <3>3 DEF Turn
  <2>6. CASE ~(resent < MaxResend) /\ SndEnters("quit")
    <3>1. spc' = "quit" /\ Carries(Control("can"))' BY <1>7, <2>6, SendsOne
    <3>2. ~Patient BY <1>2, <1>7, <2>6 DEF Patient
    <3>3. FileIsPrefix' BY <1>3, <2>3, HoldsPrefix, PrefixStays
    <3>4. Quitting' BY <1>1, <2>3, <3>1, <3>2, <3>3, NoAckPrime DEF Quitting, Patient
    <3> QED BY <3>4 DEF Turn
  <2> QED BY <1>1, <2>3, <2>5, <2>6 DEF SndRepeats
<1>8. ASSUME toSnd = << >>, Carries(DataPacket(sfile, sseq)), errors = resent,
             damaged >= errors, ~Intact => damaged > errors
      PROVE  Turn'
  <2>1. CASE LineDamages
    <3>1. /\ UNCHANGED <<rpc, left, errors, file, spc, sfile, sseq, resent, toSnd>>
          /\ Carries(m)' /\ damaged' = damaged + 1
      BY <1>4, <1>5, <1>8, <2>1, DamagesOne
    <3>2. Carries(DataPacket(sfile, sseq))' BY <1>4, <3>1 DEF DataPacket, Unit
    <3>3. damaged' >= errors' /\ damaged' > errors' BY <1>2, <1>8, <3>1
    <3>4. Holds(Sent(sfile, sseq - 1))' BY <1>6, <3>1
    <3>5. Sending' BY <1>1, <1>8, <3>1, <3>2, <3>3, <3>4 DEF Sending
    <3> QED BY <3>5 DEF Turn
  <2>2. CASE Receiver
    <3>1. UNCHANGED <<spc, sfile, sseq, resent, damaged, upset>> BY <2>2, ReceiverFrame
    <3>2. ASSUME toRcv # << >>
          PROVE  Msg.kind = "data" /\ Msg.seq = sseq /\ Msg.data = m.data /\ IsPacket(Msg)
                 /\ Tail(toRcv) = << >> /\ (Intact <=> Msg.bad = "no") /\ Msg \in MessageType
      BY <1>4, <1>5, <1>8, <3>2, Arrives DEF IsPacket
    <3>3. Receives => toRcv' = << >> /\ toRcv # << >> BY <3>2 DEF Receives
    <3>4. ASSUME NEW stg, TransErrorAt(stg), toRcv' = << >>, damaged > errors PROVE Turn'
      <4>1. toSnd' = <<"NAK">> /\ left' = left /\ file' = file
        BY <1>8, <3>4, Tuples DEF TransErrorAt, Sends
      <4>2. CASE errors < MaxErrors
        <5>1. errors' = errors + 1 /\ rpc' = rpc BY <3>4, <4>2 DEF TransErrorAt
        <5>2. Holds(Sent(sfile, sseq - 1))' BY <1>6, <3>1, <4>1
        <5>3. errors' = resent' + 1 /\ damaged' >= errors' BY <1>2, <1>8, <3>1, <3>4, <5>1
        <5>4. Sending' BY <1>1, <3>1, <3>4, <4>1, <5>1, <5>2, <5>3 DEF Sending
        <5> QED BY <5>4 DEF Turn
      <4>3. CASE ~(errors < MaxErrors)
        <5>1. rpc' = "fin" BY <3>4, <4>3 DEF TransErrorAt, EnterFin
        <5>2. damaged > MaxErrors BY <1>2, <3>4, <4>3
        <5>3. Excuse' BY <3>1, <5>2 DEF Excuse
        <5>4. FileIsPrefix' BY <1>3, <4>1, HoldsPrefix, PrefixStays
        <5>5. Carries(DataPacket(sfile, sseq))' BY <3>4 DEF Carries
        <5>6. Doomed' BY <1>1, <3>1, <3>4, <4>1, <5>1, <5>3, <5>4, <5>5 DEF Doomed
        <5> QED BY <5>6 DEF Turn
      <4> QED BY <4>2, <4>3
    <3>5. CASE TransCode
      <4>1. TimesOut /\ TransErrorAt(stage) BY <3>2, <3>5 DEF TransCode, Receives
      <4>2. toRcv = << >> /\ toRcv' = << >> BY <4>1, NotNow
      <4>3. damaged > errors BY <1>8, <4>2 DEF Intact
      <4> QED BY <3>4, <4>1, <4>2, <4>3
    <3>6. CASE TransDamaged
      <4>1. Receives /\ Msg.bad # "no" /\ \E stg : TransErrorAt(stg)
        BY <3>6 DEF TransDamaged
      <4>2. damaged > errors BY <1>8, <3>2, <3>3, <4>1
      <4> QED BY <3>3, <3>4, <4>1, <4>2
    <3>7. CASE TransData
      <4>1. Receives /\ Msg.bad = "no" /\ rpc' = "write" /\ packet' = Cut(Msg.data)
            /\ wtry' = WriteTries /\ UNCHANGED <<left, file, toSnd>> /\ faults' = faults
        BY <3>7 DEF TransData, card
      <4>2. packet' = Cut(DataPacket(sfile, sseq).data) BY <1>4, <3>2, <3>3, <4>1
      <4>3. packet' = [i \in 1 .. Smaller(left, Width) |-> Sent(sfile, sseq - 1) + i]
        BY <1>1, <1>2, <4>2, CutUnits
      <4>4. packet' = [i \in 1 .. Smaller(left, Width) |-> Sent(sfile, sseq - 1) + i]'
        BY <3>1, <4>1, <4>3 DEF Sent
      <4>5. Holds(Sent(sfile, sseq - 1))' BY <1>6, <3>1, <4>1
      <4>6. faults' + wtry' >= WriteTries BY <4>1 DEF Shape, PastShape, WriteTries
      <4>7. Writing' BY <1>1, <1>8, <3>1, <3>3, <4>1, <4>4, <4>5, <4>6 DEF Writing
      <4> QED BY <4>7 DEF Turn
    <3> QED
      BY <1>1, <1>2, <2>2, <3>2, <3>3, <3>5, <3>6, <3>7
      DEF Receiver, HandshakeCode, HandshakePacket, TransEot, HeaderAgain,
          TransHeaderAgain, OnDataWrite, OnDataFails, FinEot, FinPacket
  <2> QED BY <1>8, <2>1, <2>2, NotNow DEF Next
<1> QED BY <1>7, <1>8 DEF Sending

(* The packet is stored, tried again or given up.                            *)
LEMMA WritingTurn ==
  ASSUME Shape, Calm, Writing, Next
  PROVE  Turn'
<1> USE Constant
<1>1. rpc = "write" /\ spc = "data" /\ toSnd = << >> /\ toRcv = << >>
      /\ left = Size - Ahead(sseq - 1)
  BY DEF Writing
<1>2. sfile \in 1 .. Batch /\ sseq \in Nat \ {0} /\ left \in Nat /\ faults \in Nat /\ wtry \in Nat
      /\ faults + wtry >= WriteTries /\ file \in Seq(Item) /\ packet \in Seq(Item)
  BY <1>1, PacketsNat DEF Shape, SndShape, PastShape, RcvShape, Writing
<1>3. Receiver BY <1>1, NotNow DEF Next
<1>4. UNCHANGED <<spc, sfile, sseq, resent, damaged, upset>> BY <1>3, ReceiverFrame
<1>5. PICK n \in Nat : n = Sent(sfile, sseq - 1)
  <2>1. sseq - 1 \in Nat /\ Size * Batch \in Nat BY <1>2
  <2>2. Sent(sfile, sseq - 1) \in 0 .. Size * Batch BY <1>2, <2>1, SentType
  <2> QED BY <2>1, <2>2
<1>10. /\ Smaller(left, Width) \in Nat
       /\ Sent(sfile, sseq) = Sent(sfile, sseq - 1) + Smaller(left, Width)
       /\ Size - Ahead(sseq) = left - Smaller(left, Width)
  BY <1>1, <1>2, SentNext
<1>6. PICK l \in Nat : l = Smaller(left, Width) BY <1>10
<1>7. Holds(n) /\ packet = [i \in 1 .. l |-> n + i] BY <1>5, <1>6 DEF Writing
<1>8. CASE OnDataWrite
  <2>1. rpc' = "trans" /\ file' = file \o Stored /\ left' = left - Len(packet) /\ errors' = 0
        /\ toSnd' = <<"ACK">> /\ toRcv' = toRcv
    BY <1>1, <1>8, Tuples DEF OnDataWrite, Sends
  <2>2. Len(packet) = l
    <3>1. DOMAIN packet = 1 .. l /\ DOMAIN packet = 1 .. Len(packet) /\ Len(packet) \in Nat
      BY <1>2, <1>7
    <3> QED BY <3>1
  <2>3. Sent(sfile, sseq) = n + l /\ Size - Ahead(sseq) = left - l
    BY <1>5, <1>6, <1>10
  <2>4. n + l \in 0 .. Size * Batch BY <1>2, <2>3, SentType
  <2>5. Holds(n + l)' BY <1>7, <2>1, <2>4, HoldsMore
  <2>6. Holds(Sent(sfile, sseq))' BY <1>4, <2>3, <2>5 DEF Sent
  <2>7. Accepted' BY <1>1, <1>4, <2>1, <2>2, <2>3, <2>6 DEF Accepted
  <2> QED BY <2>7 DEF Turn
<1>9. CASE OnDataFails
  <2>1. faults' = faults + 1 /\ wtry' = wtry - 1 /\ left' = left /\ toRcv' = toRcv
    BY <1>9 DEF OnDataFails
  <2>2. file' = file
    <3>1. file' = file \o SubSeq(packet, 1, 0) BY <1>9 DEF OnDataFails, Calm
    <3>2. SubSeq(packet, 1, 0) = << >> /\ file \o << >> = file BY <1>2
    <3> QED BY <3>1, <3>2
  <2>3. Holds(Sent(sfile, sseq - 1))'
    <3>1. Sent(sfile, sseq - 1)' = n BY <1>4, <1>5 DEF Sent
    <3> QED BY <1>7, <2>2, <3>1, Stays
  <2>4. CASE wtry > 1
    <3>1. rpc' = rpc /\ packet' = packet /\ toSnd' = toSnd BY <1>9, <2>4 DEF OnDataFails
    <3>2. faults' + wtry' >= WriteTries BY <1>2, <2>1 DEF WriteTries
    <3>3. packet' = [i \in 1 .. Smaller(left, Width) |-> Sent(sfile, sseq - 1) + i]'
      BY <1>4, <1>5, <1>6, <1>7, <2>1, <3>1 DEF Sent
    <3>4. Writing' BY <1>1, <1>4, <2>1, <2>3, <3>1, <3>2, <3>3 DEF Writing
    <3> QED BY <3>4 DEF Turn
  <2>5. CASE ~(wtry > 1)
    <3>1. rpc' = "fin" /\ toSnd' = <<"CAN", "NAK">>
      BY <1>1, <1>9, <2>5, Tuples DEF OnDataFails, EnterFin, Sends
    <3>2. Excuse' BY <1>2, <2>1, <2>5 DEF Excuse, WriteTries
    <3>3. FileIsPrefix' BY <1>7, <2>2, HoldsPrefix, PrefixStays
    <3>4. Carries(DataPacket(sfile, sseq))' BY <1>1, <2>1 DEF Carries
    <3>5. Doomed' BY <1>1, <1>4, <2>1, <3>1, <3>2, <3>3, <3>4 DEF Doomed
    <3> QED BY <3>5 DEF Turn
  <2> QED BY <2>4, <2>5
<1> QED
  BY <1>1, <1>3, <1>8, <1>9
  DEF Receiver, HandshakeCode, HandshakePacket, TransCode, TransEot, TransDamaged,
      TransHeaderAgain, TransData, FinEot, FinPacket

(* The next packet of the file, or its end.                                  *)
LEMMA AcceptedTurn ==
  ASSUME Shape, Calm, Accepted, Next
  PROVE  Turn'
<1> USE Constant
<1>1. rpc = "trans" /\ spc = "data" /\ toSnd = <<"ACK">> /\ toRcv = << >> /\ errors = 0
      /\ left = Size - Ahead(sseq) /\ toSnd # << >>
      /\ Head(toSnd) = "ACK" /\ Tail(toSnd) = << >>
  BY Tuples DEF Accepted
<1>2. sfile \in 1 .. Batch /\ sseq \in 1 .. Packets /\ damaged \in Nat
  BY <1>1, PacketsNat DEF Shape, SndShape, PastShape
<1>3. SndReads BY <1>1, NotNow DEF Next
<1>4. UNCHANGED <<rpc, left, errors, file, damaged>> /\ toSnd' = << >>
  BY <1>1, <1>3, SenderReads
<1>5. PICK n : n = Sent(sfile, sseq) /\ Holds(n) BY DEF Accepted
<1>6. Holds(n)' BY <1>4, <1>5, Stays
<1>7. CASE sseq < Packets /\ SndGoesOn("data", sfile, sseq + 1)
  <2>1. sfile' = sfile /\ sseq' = sseq + 1 /\ resent' = 0 /\ SndEnters("data")
    BY <1>7 DEF SndGoesOn
  <2>2. sseq' \in Nat \ {0} /\ sseq' - 1 = sseq BY <1>2, <2>1, PacketsNat
  <2>3. spc' = "data" /\ Intact' /\ Carries(DataPacket(sfile, sseq))'
    BY <1>1, <2>1, <2>2, SendsOne
  <2>4. Sent(sfile, sseq - 1)' = n BY <1>5, <2>1, <2>2 DEF Sent
  <2>5. left' = Size - Ahead(sseq' - 1) BY <1>1, <1>4, <2>2
  <2>6. damaged' >= errors' BY <1>1, <1>2, <1>4
  <2>7. Sending' BY <1>1, <1>4, <1>6, <2>1, <2>3, <2>4, <2>5, <2>6 DEF Sending
  <2> QED BY <2>7 DEF Turn
<1>8. CASE ~(sseq < Packets) /\ SndGoesOn("eot", sfile, 0)
  <2>1. sfile' = sfile /\ resent' = 0 /\ SndEnters("eot") BY <1>8 DEF SndGoesOn
  <2>2. spc' = "eot" /\ Intact' /\ Carries(Control("eot"))' BY <1>1, <2>1, SendsOne
  <2>3. sseq = Packets BY <1>2, <1>8, PacketsNat
  <2>4. n = sfile * Size BY <1>2, <1>5, <2>3, SentEnds
  <2>5. Holds(sfile * Size)' BY <1>6, <2>1, <2>4
  <2>6. Ending' BY <1>1, <1>4, <2>1, <2>2, <2>5 DEF Ending, Intact
  <2> QED BY <2>6 DEF Turn
<1> QED BY <1>1, <1>3, <1>7, <1>8, SenderReads

(* The receiver that has given up ends the transfer.                         *)
LEMMA DoomedTurn ==
  ASSUME Shape, Calm, Doomed, Next
  PROVE  Turn'
<1> USE Constant
<1>1. rpc = "fin" /\ spc = "data" /\ Excuse /\ FileIsPrefix
      /\ toSnd \in {<< >>, <<"NAK">>, <<"CAN", "NAK">>} /\ (toSnd # << >> => toRcv = << >>)
  BY DEF Doomed
<1>2. sseq \in Nat \ {0} /\ sfile \in 1 .. Batch BY <1>1, PacketsNat DEF Shape, SndShape
<1>3. PICK m : m = DataPacket(sfile, sseq) /\ Carries(m) BY DEF Doomed
<1>4. m.kind = "data" BY <1>3 DEF DataPacket
<1>5. CASE LineDamages
  <2>1. /\ UNCHANGED <<rpc, file, spc, sfile, sseq, toSnd>> /\ Carries(m)' /\ Excuse'
        /\ toRcv # << >>
    BY <1>1, <1>3, <1>5, DamagesOne
  <2>2. Carries(DataPacket(sfile, sseq))' BY <1>3, <2>1 DEF DataPacket, Unit
  <2>3. FileIsPrefix' BY <1>1, <2>1, PrefixStays
  <2>4. Doomed' BY <1>1, <2>1, <2>2, <2>3 DEF Doomed
  <2> QED BY <2>4 DEF Turn
<1>6. CASE SndReads
  <2>1. toSnd \in {<<"NAK">>, <<"CAN", "NAK">>} /\ toRcv = << >> BY <1>1, <1>6, NotNow
  <2>2. UNCHANGED <<rpc, file, damaged, upset, faults>> /\ toSnd' = Tail(toSnd)
    BY <1>6, SenderReads
  <2>3. Excuse' /\ FileIsPrefix' BY <1>1, <2>2, PrefixStays DEF Excuse
  <2>4. ASSUME SndEnters("quit"), NoAck' PROVE Turn'
    <3>1. spc' = "quit" /\ Carries(Control("can"))' BY <2>1, <2>4, SendsOne
    <3>2. Quitting' BY <1>1, <2>2, <2>3, <2>4, <3>1 DEF Quitting
    <3> QED BY <3>2 DEF Turn
  <2>5. CASE toSnd = <<"NAK">>
    <3>1. Head(toSnd) = "NAK" /\ toSnd' = << >> BY <2>2, <2>5, Tuples
    <3>2. SndRepeats BY <1>1, <1>6, <3>1, SenderReads
    <3>3. CASE SndEnters("data")
      <4>1. sfile' = sfile /\ sseq' = sseq BY <3>2 DEF SndRepeats
      <4>2. spc' = "data" /\ Carries(DataPacket(sfile, sseq))'
        BY <1>2, <2>1, <3>3, <4>1, SendsOne
      <4>3. Doomed' BY <1>1, <2>2, <2>3, <3>1, <4>2 DEF Doomed
      <4> QED BY <4>3 DEF Turn
    <3> QED BY <1>1, <2>4, <3>1, <3>2, <3>3, NoAckPrime DEF SndRepeats
  <2>6. CASE toSnd = <<"CAN", "NAK">>
    <3>1. Head(toSnd) = "CAN" /\ toSnd' = <<"NAK">> BY <2>2, <2>6, Tuples
    <3>2. SndGoesOn("quit", sfile, 0) BY <1>1, <1>6, <3>1, SenderReads
    <3>3. NoAck'
      <4>1. Len(<<"NAK">>) = 1 /\ <<"NAK">>[1] = "NAK" OBVIOUS
      <4> QED BY <3>1, <4>1 DEF NoAck
    <3> QED BY <2>4, <3>2, <3>3 DEF SndGoesOn
  <2> QED BY <2>1, <2>5, <2>6
<1>7. CASE Receiver
  <2>1. toSnd = << >> BY <1>1, <1>7, NotNow
  <2>2. UNCHANGED <<spc, sfile, sseq, resent, damaged, upset>> /\ Excuse'
    BY <1>1, <1>7, ReceiverFrame
  <2>3. FinEot
    BY <1>1, <1>7
    DEF Receiver, HandshakeCode, HandshakePacket, TransCode, TransEot, TransDamaged,
        TransHeaderAgain, TransData, OnDataWrite, OnDataFails, FinPacket
  <2>4. Receives => Msg.kind # "eot" BY <1>3, <1>4, Arrives DEF Receives
  <2>5. Fail /\ toSnd' = toSnd BY <2>3, <2>4 DEF FinEot
  <2> QED BY <1>1, <2>1, <2>2, <2>5, FailsNow, NoAckPrime DEF Fail
<1> QED BY <1>5, <1>6, <1>7, NotNow DEF Next

(* The end of the file is sent twice.                                        *)
LEMMA EndingTurn ==
  ASSUME Shape, Calm, Ending, Next
  PROVE  Turn'
<1> USE Constant
<1>1. rpc \in {"trans", "fin"} /\ spc = "eot" /\ Carries(Control("eot"))
      /\ toSnd \in {<< >>, <<"NAK">>} /\ (toSnd # << >> => toRcv = << >>)
      /\ (toSnd = << >> /\ toRcv = << >> => upset > 0)
      /\ (rpc = "trans" /\ toSnd = <<"NAK">> => upset > 0)
      /\ ((rpc = "trans" \/ toSnd = <<"NAK">>) /\ upset = 0 => resent = 0)
  BY DEF Ending
<1>2. sfile \in 1 .. Batch /\ upset \in Nat /\ resent \in Nat
  BY DEF Shape, SndShape, PastShape
<1>3. PICK n : n = sfile * Size /\ Holds(n) BY DEF Ending
<1>4. PICK m : m = Control("eot") /\ Carries(m) BY <1>1
<1>5. m.kind = "eot" BY <1>4 DEF Control
<1>6. ASSUME UNCHANGED <<file, sfile>> PROVE Holds(sfile * Size)' /\ FileIsPrefix'
  BY <1>3, <1>6, Stays, HoldsPrefix, PrefixStays
<1>7. CASE LineDamages
  <2>1. /\ UNCHANGED <<rpc, file, spc, sfile, resent, toSnd>> /\ toRcv # << >>
        /\ Carries(m)' /\ upset' = upset + 1
    BY <1>4, <1>5, <1>7, DamagesOne
  <2>2. Carries(Control("eot"))' BY <1>4, <2>1 DEF Control
  <2>3. upset' > 0 /\ toSnd = << >> BY <1>1, <1>2, <2>1
  <2>4. Ending' BY <1>1, <1>6, <2>1, <2>2, <2>3 DEF Ending
  <2> QED BY <2>4 DEF Turn
<1>8. CASE SndReads
  <2>1. toSnd = <<"NAK">> /\ toRcv = << >> BY <1>1, <1>8, NotNow, Tuples
  <2>2. Head(toSnd) = "NAK" /\ Tail(toSnd) = << >> BY <2>1, Tuples
  <2>3. SndRepeats /\ toSnd' = << >> /\ UNCHANGED <<rpc, file, damaged, upset, faults>>
    BY <1>1, <1>8, <2>2, SenderReads
  <2>4. sfile' = sfile /\ resent' = resent + 1 BY <2>3 DEF SndRepeats
  <2>5. CASE SndEnters("eot") /\ (rpc = "fin" \/ upset > 0)
    <3>1. spc' = "eot" /\ Intact' /\ Carries(Control("eot"))' BY <2>1, <2>5, SendsOne
    <3>2. ~(upset' = 0 /\ (rpc' = "trans" \/ toSnd' = <<"NAK">>))
      BY <1>1, <2>3, <2>5, Tuples
    <3>3. Ending' BY <1>1, <1>6, <2>3, <2>4, <3>1, <3>2 DEF Ending, Intact
    <3> QED BY <3>3 DEF Turn
  <2>6. CASE ~(resent < MaxResend) /\ SndEnters("quit")
    <3>1. spc' = "quit" /\ Carries(Control("can"))' BY <2>1, <2>6, SendsOne
    <3>2. Patient => upset > 0 BY <1>1, <1>2, <2>1, <2>6 DEF Patient
    <3>3. Patient' => Excuse' BY <2>3, <3>2 DEF Excuse, Patient
    <3>4. Quitting' BY <1>1, <1>6, <2>3, <2>4, <3>1, <3>3, NoAckPrime DEF Quitting, Patient
    <3> QED BY <3>4 DEF Turn
  <2>7. rpc = "trans" => upset > 0 BY <1>1, <1>2, <2>1
  <2> QED BY <1>1, <2>3, <2>5, <2>6, <2>7 DEF SndRepeats
<1>9. CASE Receiver
  <2>1. toSnd = << >> BY <1>1, <1>9, NotNow
  <2>2. UNCHANGED <<spc, sfile, sseq, resent, damaged, upset>> BY <1>9, ReceiverFrame
  <2>3. Receives => Msg.kind = "eot" /\ toRcv' = << >> /\ toRcv # << >> /\ ~IsPacket(Msg)
    BY <1>4, <1>5, Arrives DEF Receives, IsPacket
  <2>4. TimesOut => upset > 0 /\ toRcv' = << >> BY <1>1, NotNow
  <2>5. toRcv' = << >> => Carries(Control("eot"))' BY DEF Carries
  <2>6. CASE rpc = "trans"
    <3>1. upset = 0 => resent = 0 BY <1>1, <2>6
    <3>2. ASSUME rpc' \in {"trans", "fin"}, toSnd' = <<"NAK">>, toRcv' = << >>, file' = file,
                 rpc' = "trans" => upset > 0
          PROVE  Turn'
      <4>1. toSnd' # << >> BY <3>2, Tuples
      <4>2. Ending' BY <1>1, <1>6, <2>2, <2>5, <3>1, <3>2, <4>1 DEF Ending
      <4> QED BY <4>2 DEF Turn
    <3>3. CASE TransCode
      <4>1. TimesOut /\ TransErrorAt(stage) BY <2>3, <3>3 DEF TransCode, Receives
      <4>2. rpc' \in {"trans", "fin"} /\ toSnd' = <<"NAK">> /\ file' = file
        BY <2>1, <2>6, <4>1, Tuples DEF TransErrorAt, EnterFin, Sends
      <4> QED BY <2>4, <3>2, <4>1, <4>2
    <3>4. CASE TransEot
      <4>1. rpc' = "fin" /\ toSnd' = <<"NAK">> /\ file' = file
        BY <2>1, <3>4, Tuples DEF TransEot, EnterFin, Sends
      <4> QED BY <2>3, <3>2, <3>4, <4>1 DEF TransEot
    <3> QED
      BY <1>9, <2>3, <2>6, <3>3, <3>4
      DEF Receiver, HandshakeCode, HandshakePacket, TransDamaged,
          TransHeaderAgain, TransData, OnDataWrite, OnDataFails, FinEot, FinPacket
  <2>7. CASE rpc = "fin"
    <3>1. FinEot
      BY <1>9, <2>7
      DEF Receiver, HandshakeCode, HandshakePacket, TransCode, TransEot, TransDamaged,
          TransHeaderAgain, TransData, OnDataWrite, OnDataFails, FinPacket
    <3>2. CASE TimesOut /\ Fail /\ toSnd' = toSnd
      <4>1. Excuse' BY <2>2, <2>4, <3>2 DEF Excuse
      <4> QED BY <1>1, <2>1, <2>2, <3>2, <4>1, FailsNow, NoAckPrime DEF Fail
    <3>3. CASE Receives /\ rpc' = "finPacket" /\ Welcomes /\ file' = file
      <4>1. toSnd' = <<"ACK", "C">> BY <2>1, <3>3, Tuples DEF Welcomes, Sends
      <4>2. Closing' BY <1>1, <1>6, <2>2, <2>3, <3>3, <4>1 DEF Closing
      <4> QED BY <4>2 DEF Turn
    <3> QED BY <2>3, <3>1, <3>2, <3>3 DEF FinEot
  <2> QED BY <1>1, <2>6, <2>7
<1> QED BY <1>7, <1>8, <1>9, NotNow DEF Next

(* The next file of the batch, or its end.                                   *)
LEMMA ClosingTurn ==
  ASSUME Shape, Calm, Closing, Next
  PROVE  Turn'
<1> USE Constant
<1>1. rpc = "finPacket" /\ toRcv = << >> /\ toSnd # << >>
  <2>1. <<"ACK", "C">> # << >> /\ <<"C">> # << >> BY Tuples
  <2> QED BY <2>1 DEF Closing
<1>2. SndReads BY <1>1, NotNow DEF Next
<1>3. UNCHANGED <<rpc, file>> /\ toSnd' = Tail(toSnd) BY <1>2, SenderReads
<1>4. sfile \in 1 .. Batch BY DEF Shape, SndShape
<1>5. PICK n : n = sfile * Size /\ Holds(n) BY DEF Closing
<1>6. Holds(n)' BY <1>3, <1>5, Stays
<1>7. CASE spc = "eot" /\ toSnd = <<"ACK", "C">>
  <2>1. Head(toSnd) = "ACK" /\ toSnd' = <<"C">> BY <1>3, <1>7, Tuples
  <2>2. SndGoesOn("awaitEnd", sfile, 0) BY <1>2, <1>7, <2>1, SenderReads
  <2>3. spc' = "awaitEnd" /\ sfile' = sfile /\ toRcv' = toRcv
    BY <2>2 DEF SndGoesOn, SndEnters
  <2>4. Closing' BY <1>1, <1>3, <1>5, <1>6, <2>1, <2>3 DEF Closing
  <2> QED BY <2>4 DEF Turn
<1>8. CASE spc = "awaitEnd" /\ toSnd = <<"C">>
  <2>1. Head(toSnd) = "C" /\ toSnd' = << >> BY <1>3, <1>8, Tuples
  <2>2. CASE sfile < Batch /\ SndGoesOn("header", sfile + 1, 0)
    <3>1. sfile' = sfile + 1 /\ SndEnters("header") BY <2>2 DEF SndGoesOn
    <3>2. spc' = "header" /\ Intact' /\ Carries(Header)' BY <1>1, <3>1, SendsOne
    <3>3. (sfile' - 1) * Size = n
      <4>1. sfile' - 1 = sfile BY <1>4, <3>1
      <4> QED BY <1>5, <4>1
    <3>4. Greeting' BY <1>1, <1>3, <1>6, <2>1, <3>2, <3>3, Tuples DEF Greeting
    <3> QED BY <3>4 DEF Turn
  <2>3. CASE ~(sfile < Batch) /\ SndGoesOn("null", sfile, 0)
    <3>1. SndEnters("null") BY <2>3 DEF SndGoesOn
    <3>2. spc' = "null" /\ Intact' /\ Carries(Null)' BY <1>1, <3>1, SendsOne
    <3>3. n = Batch * Size BY <1>4, <1>5, <2>3
    <3>4. Leaving' BY <1>1, <1>3, <1>6, <2>1, <3>2, <3>3 DEF Leaving
    <3> QED BY <3>4 DEF Turn
  <2> QED BY <1>2, <1>8, <2>1, <2>2, <2>3, SenderReads
<1> QED BY <1>7, <1>8 DEF Closing

(* The end of the batch.                                                     *)
LEMMA LeavingTurn ==
  ASSUME Shape, Calm, Leaving, Next
  PROVE  Turn'
<1> USE Constant
<1>1. rpc = "finPacket" /\ spc = "null" /\ toSnd = << >> /\ Carries(Null)
      /\ (~Intact => upset > 0) /\ Holds(Batch * Size)
  BY DEF Leaving
<1>2. PICK n : n = Batch * Size /\ Holds(n) BY <1>1
<1>3. upset \in Nat BY DEF Shape, PastShape
<1>4. PICK m : m = Null /\ Carries(m) BY <1>1
<1>5. m.kind = "null" /\ m.seq = 0 BY <1>4 DEF Null, Control
<1>6. CASE LineDamages
  <2>1. /\ UNCHANGED <<rpc, file, spc, toSnd>> /\ Carries(m)' /\ upset' = upset + 1
    BY <1>4, <1>5, <1>6, DamagesOne
  <2>2. Carries(Null)' BY <1>4, <2>1 DEF Null, Control
  <2>3. Leaving' BY <1>1, <1>2, <1>3, <2>1, <2>2, Stays DEF Leaving
  <2> QED BY <2>3 DEF Turn
<1>7. CASE Receiver
  <2>1. UNCHANGED <<spc, sfile, sseq, resent, damaged, upset>> BY <1>7, ReceiverFrame
  <2>2. Receives => Msg.kind = "null" /\ Msg.seq = 0 /\ IsPacket(Msg) /\ toRcv' = << >>
                    /\ (Msg.bad # "no" => upset > 0)
    BY <1>1, <1>4, <1>5, Arrives DEF Receives, IsPacket
  <2>3. TimesOut => upset > 0 BY <1>1, NotNow DEF Intact
  <2>4. FinPacket
    BY <1>1, <1>7
    DEF Receiver, HandshakeCode, HandshakePacket, TransCode, TransEot, TransDamaged,
        TransHeaderAgain, TransData, OnDataWrite, OnDataFails, FinEot
  <2>5. \/ upset > 0 /\ Fail /\ toSnd' = toSnd
        \/ rpc' = "end" /\ result' = "ok" /\ Sends(<<"ACK">>) /\ file' = file /\ toRcv' = << >>
    BY <2>2, <2>3, <2>4 DEF FinPacket
  <2>6. CASE upset > 0 /\ Fail /\ toSnd' = toSnd
    <3>1. Excuse' BY <2>1, <2>6 DEF Excuse
    <3> QED BY <1>1, <2>1, <2>6, <3>1, FailsNow, NoAckPrime DEF Fail
  <2>7. CASE rpc' = "end" /\ result' = "ok" /\ Sends(<<"ACK">>) /\ file' = file /\ toRcv' = << >>
    <3>1. toSnd' = <<"ACK">> BY <1>1, <2>7, Tuples DEF Sends
    <3>2. Complete' BY <1>1, <1>2, <2>1, <2>7, <3>1, Stays DEF Complete
    <3> QED BY <3>2 DEF Turn
  <2> QED BY <2>5, <2>6, <2>7
<1> QED BY <1>1, <1>6, <1>7, NotNow DEF Next

(* The sender reads the last answer.                                         *)
LEMMA CompleteTurn ==
  ASSUME Shape, Calm, Complete, Next
  PROVE  Turn'
<1> USE Constant
<1>1. rpc = "end" /\ result = "ok" /\ toRcv = << >> BY DEF Complete
<1>2. SndReads BY <1>1, NotNow DEF Next
<1>3. UNCHANGED <<rpc, result, file>> /\ toSnd' = Tail(toSnd) /\ toSnd # << >>
  BY <1>2, SenderReads
<1>4. PICK n : n = Batch * Size /\ Holds(n) BY DEF Complete
<1>5. spc = "null" /\ toSnd = <<"ACK">> BY <1>3 DEF Complete
<1>6. Head(toSnd) = "ACK" /\ toSnd' = << >> BY <1>3, <1>5, Tuples
<1>7. SndGoesOn("sent", sfile, 0) BY <1>2, <1>5, <1>6, SenderReads
<1>8. spc' = "sent" /\ toRcv' = toRcv BY <1>7 DEF SndGoesOn, SndEnters
<1>9. Complete' BY <1>1, <1>3, <1>4, <1>6, <1>8, Stays DEF Complete
<1> QED BY <1>9 DEF Turn

(* Codes other than ACK come and go.                                         *)
LEMMA NoAckMoves ==
  ASSUME Shape, NoAck
  PROVE  /\ toSnd' = toSnd => NoAck'
         /\ \A c \in {"C", "NAK"} : toSnd' = toSnd \o <<c>> => NoAck'
         /\ toSnd # << >> /\ toSnd' = Tail(toSnd) => NoAck' /\ Head(toSnd) # "ACK"
<1>1. toSnd \in Seq(Code) /\ \A i \in 1 .. Len(toSnd) : toSnd[i] # "ACK"
  BY DEF Shape, LineShape, NoAck
<1>2. ASSUME NEW c \in {"C", "NAK"}, toSnd' = toSnd \o <<c>> PROVE NoAck'
  <2>1. <<c>> \in Seq(Code) /\ Len(<<c>>) = 1 /\ <<c>>[1] = c BY DEF Code
  <2>2. Len(toSnd') = Len(toSnd) + 1 BY <1>1, <1>2, <2>1
  <2>3. \A i \in 1 .. Len(toSnd) + 1 :
          toSnd'[i] = IF i <= Len(toSnd) THEN toSnd[i] ELSE c
    BY <1>1, <1>2, <2>1
  <2> QED BY <1>1, <2>2, <2>3 DEF NoAck
<1>3. ASSUME toSnd # << >>, toSnd' = Tail(toSnd) PROVE NoAck' /\ Head(toSnd) # "ACK"
  <2>1. Len(toSnd) \in Nat /\ Len(toSnd) >= 1 /\ Len(toSnd') = Len(toSnd) - 1
        /\ Head(toSnd) = toSnd[1]
    BY <1>1, <1>3
  <2>2. \A i \in 1 .. Len(toSnd) - 1 : i + 1 \in 1 .. Len(toSnd) /\ toSnd'[i] = toSnd[i + 1]
    BY <1>1, <1>3, <2>1
  <2> QED BY <1>1, <2>1, <2>2 DEF NoAck
<1> QED BY <1>2, <1>3 DEF NoAck

(* A sender that has given up ends the transfer.                             *)
LEMMA QuittingTurn ==
  ASSUME Shape, Calm, Quitting, Next
  PROVE  Turn'
<1>1. rpc \in {"handshake", "trans", "fin"} /\ spc = "quit" /\ FileIsPrefix
      /\ (Patient => Excuse) /\ NoAck
  BY DEF Quitting
<1>2. PICK m : m = Control("can") /\ Carries(m) BY DEF Quitting
<1>3. m.kind = "can" BY <1>2 DEF Control
<1>4. Patient' <=> Patient BY DEF Patient
<1>5. CASE LineDamages
  <2>1. UNCHANGED <<rpc, file, spc, toSnd>> /\ Carries(m)' /\ (Excuse => Excuse')
    BY <1>2, <1>5, DamagesOne
  <2>2. Carries(Control("can"))' BY <1>2, <2>1 DEF Control
  <2>3. NoAck' BY <1>1, <2>1, NoAckMoves
  <2>4. Quitting' BY <1>1, <1>4, <2>1, <2>2, <2>3, PrefixStays DEF Quitting
  <2> QED BY <2>4 DEF Turn
<1>6. CASE SndReads
  <2>1. /\ UNCHANGED <<rpc, file, damaged, upset, faults>>
        /\ toSnd # << >> /\ toSnd' = Tail(toSnd)
    BY <1>6, SenderReads
  <2>2. UNCHANGED <<spc, toRcv>> BY <1>1, <1>6, SenderReads
  <2>3. NoAck' BY <1>1, <2>1, NoAckMoves
  <2>4. Excuse => Excuse' BY <2>1 DEF Excuse
  <2>5. Carries(Control("can"))' BY <1>2, <2>2 DEF Carries, Control
  <2>6. Quitting' BY <1>1, <1>4, <2>1, <2>2, <2>3, <2>4, <2>5, PrefixStays DEF Quitting
  <2> QED BY <2>6 DEF Turn
<1>7. CASE Receiver
  <2>1. UNCHANGED <<spc, sfile, sseq, resent, damaged, upset>> /\ (Excuse => Excuse')
    BY <1>7, ReceiverFrame
  <2>2. Receives => Msg.kind = "can" /\ ~IsPacket(Msg) /\ toRcv' = << >>
    BY <1>2, <1>3, Arrives DEF Receives, IsPacket
  <2>3. TimesOut => toRcv' = << >> BY NotNow
  <2>4. Carries(Control("can"))' \/ toRcv' # << >> BY DEF Carries
  <2>5. ASSUME Fail, toSnd' = toSnd PROVE Turn'
    <3>1. NoAck' BY <1>1, <2>5, NoAckMoves
    <3> QED BY <1>1, <1>4, <2>1, <2>5, <3>1, FailsNow DEF Fail
  <2>6. ASSUME NEW c \in {"C", "NAK"}, Sends(<<c>>), rpc' \in {"handshake", "trans", "fin"},
               file' = file, toRcv' = << >>
        PROVE  Turn'
    <3>1. NoAck' BY <1>1, <2>6, NoAckMoves DEF Sends
    <3>2. Quitting' BY <1>1, <1>4, <2>1, <2>4, <2>6, <3>1, PrefixStays DEF Quitting
    <3> QED BY <3>2 DEF Turn
  <2>7. CASE rpc = "handshake"
    <3>1. HandshakeCode
      BY <1>7, <2>2, <2>7
      DEF Receiver, HandshakePacket, TransCode, TransEot, TransDamaged,
          TransHeaderAgain, TransData, OnDataWrite, OnDataFails, FinEot, FinPacket
    <3>2. toRcv' = << >> BY <2>2, <2>3, <3>1 DEF HandshakeCode
    <3>3. (Fail /\ toSnd' = toSnd) \/ (Sends(<<"C">>) /\ rpc' = rpc /\ file' = file)
      BY <3>1 DEF HandshakeCode, HandshakeAgain
    <3> QED BY <2>5, <2>6, <2>7, <3>2, <3>3
  <2>8. CASE rpc = "trans"
    <3>1. TransCode
      BY <1>7, <2>2, <2>8
      DEF Receiver, HandshakeCode, HandshakePacket, TransEot, TransDamaged,
          TransHeaderAgain, TransData, OnDataWrite, OnDataFails, FinEot, FinPacket
    <3>2. toRcv' = << >> BY <2>2, <2>3, <3>1 DEF TransCode
    <3>3. Sends(<<"NAK">>) /\ rpc' \in {"trans", "fin"} /\ file' = file
      BY <2>8, <3>1 DEF TransCode, TransErrorAt, EnterFin
    <3> QED BY <2>6, <3>2, <3>3
  <2>9. CASE rpc = "fin"
    <3>1. FinEot
      BY <1>7, <2>9
      DEF Receiver, HandshakeCode, HandshakePacket, TransCode, TransEot, TransDamaged,
          TransHeaderAgain, TransData, OnDataWrite, OnDataFails, FinPacket
    <3>2. Fail /\ toSnd' = toSnd BY <2>2, <3>1 DEF FinEot
    <3> QED BY <2>5, <3>2
  <2> QED BY <1>1, <2>7, <2>8, <2>9
<1> QED BY <1>5, <1>6, <1>7, NotNow DEF Next

(* A transfer that has failed stays so.                                      *)
LEMMA FailedTurn ==
  ASSUME Shape, Calm, Failed, Next
  PROVE  Turn'
<1>1. rpc = "end" /\ result = "fail" /\ file = << >> /\ spc # "sent" /\ (Patient => Excuse) /\ NoAck
  BY DEF Failed
<1>2. Patient' <=> Patient BY DEF Patient
<1>3. CASE LineDamages
  <2>1. UNCHANGED <<rcv, snd, card>> /\ toSnd' = toSnd BY <1>3 DEF LineDamages, Calm
  <2>2. UNCHANGED <<rpc, result, file, spc, faults>> BY <2>1 DEF rcv, snd, card
  <2>3. Excuse => Excuse'
    <3>1. damaged \in Nat /\ upset \in Nat BY DEF Shape, PastShape
    <3>2. \/ damaged' = damaged + 1 /\ upset' = upset
          \/ upset' = upset + 1 /\ damaged' = damaged
      BY <1>3, Zenon DEF LineDamages
    <3> QED BY <2>2, <3>1, <3>2, Constant DEF Excuse
  <2>4. NoAck' BY <1>1, <2>1, NoAckMoves
  <2>5. Failed' BY <1>1, <1>2, <2>2, <2>3, <2>4 DEF Failed
  <2> QED BY <2>5 DEF Turn
<1>4. CASE SndReads
  <2>1. /\ UNCHANGED <<rpc, result, file, damaged, upset, faults>>
        /\ toSnd # << >> /\ toSnd' = Tail(toSnd)
    BY <1>4, SenderReads
  <2>2. NoAck' /\ Head(toSnd) # "ACK" BY <1>1, <2>1, NoAckMoves
  <2>3. ASSUME NEW s, NEW f, NEW k, SndGoesOn(s, f, k), s # "sent" PROVE spc' # "sent"
    BY <2>3 DEF SndGoesOn, SndEnters
  <2>4. SndRepeats => spc' # "sent" BY <1>1 DEF SndRepeats, SndEnters
  <2>5. spc' # "sent" BY <1>1, <1>4, <2>2, <2>3, <2>4, SenderReads
  <2>6. Excuse => Excuse' BY <2>1 DEF Excuse
  <2>7. Failed' BY <1>1, <1>2, <2>1, <2>2, <2>5, <2>6 DEF Failed
  <2> QED BY <2>7 DEF Turn
<1> QED BY <1>1, <1>3, <1>4, NotNow DEF Next

(* The receiver has sent its first C.                                        *)
LEMMA InitTurns == Init => Turns
<1> SUFFICES ASSUME Init PROVE Turns OBVIOUS
<1> USE Constant
<1>1. Size * Batch \in Nat /\ Smaller(Room, 0) = 0 BY DEF Smaller
<1>2. file = << >> /\ torn = 0 /\ result = None BY DEF Init
<1>3. << >> = [i \in 1 .. 0 |-> i] OBVIOUS
<1>4. Holds(0) BY <1>1, <1>2, <1>3 DEF Holds
<1>5. Starting BY <1>4 DEF Init, Starting
<1> QED BY <1>2, <1>5 DEF Turns, Turn

(* Every step keeps to the turns.                                            *)
LEMMA TurnsStep ==
  ASSUME Shape, Turns, Calm, [Next]_vars
  PROVE  Turns'
<1>1. (rpc # "end" => result = None) /\ torn = 0 /\ Turn BY DEF Turns
<1>2. CASE Next
  <2>1. torn' = 0 /\ (rpc' # "end" => result' = None) BY <1>1, <1>2, TurnRest
  <2>2. Turn'
    BY <1>1, <1>2, StartingTurn, GreetingTurn, WelcomedTurn, SendingTurn, WritingTurn,
       AcceptedTurn, DoomedTurn, EndingTurn, ClosingTurn, LeavingTurn, CompleteTurn,
       QuittingTurn, FailedTurn
    DEF Turn
  <2> QED BY <2>1, <2>2 DEF Turns
<1>3. CASE UNCHANGED vars
  <2>1. UNCHANGED <<rcv, snd, toRcv, toSnd, line, card>> BY <1>3 DEF vars
  <2>2. /\ UNCHANGED <<rpc, left, errors, packet, wtry, file, result, spc, sfile, sseq, resent>>
        /\ UNCHANGED <<toRcv, toSnd, damaged, upset, faults, torn>>
    BY <2>1 DEF rcv, snd, line, card
  <2>3. Turn'
    BY <1>1, <2>2
    DEF Turn, Starting, Greeting, Welcomed, Sending, Writing, Accepted, Doomed, Ending,
        Closing, Leaving, Complete, Quitting, Failed, Holds, Carries, Intact, Excuse,
        Patient, NoAck, FileIsPrefix, Sent, DataPacket, Unit
  <2> QED BY <1>1, <2>2, <2>3 DEF Turns
<1> QED BY <1>2, <1>3

(* On a calm line the two sides take turns for ever.                         *)
THEOREM CalmInductive == ASSUME Calm PROVE Spec => [](Shape /\ Turns)
<1>1. Init => Shape /\ Turns BY InitShape, InitTurns
<1>2. (Shape /\ Turns) /\ [Next]_vars => (Shape /\ Turns)' BY ShapeStep, TurnsStep
<1> QED BY <1>1, <1>2, PTL DEF Spec

(* As long as only packets are damaged or lost and neither side is late, the *)
(* file is what was sent so far: no packet is stored twice or left out, no   *)
(* padding is stored, whatever the retries of the two sides and of the card. *)
THEOREM PrefixCorrect == ASSUME Calm PROVE Spec => []FileIsPrefix
<1>1. ASSUME Turns PROVE FileIsPrefix
  <2>1. FileIsPrefix \/ (\E n : Holds(n)) \/ file = << >>
    BY <1>1
    DEF Turns, Turn, Starting, Greeting, Welcomed, Sending, Writing, Accepted, Doomed,
        Ending, Closing, Leaving, Complete, Quitting, Failed
  <2>2. file = << >> => FileIsPrefix BY DEF FileIsPrefix
  <2> QED BY <2>1, <2>2, HoldsPrefix
<1> QED BY <1>1, CalmInductive, PTL

(* The one turn with success in it holds the whole batch.                    *)
LEMMA SuccessHolds == Turns /\ result = "ok" => torn = 0 /\ Holds(Batch * Size)
BY DEF Turns, Turn, None, Starting, Greeting, Welcomed, Sending, Writing, Accepted, Doomed,
       Ending, Closing, Leaving, Complete, Quitting, Failed

(* Then, where the card has room for the batch, a transfer reported as       *)
(* successful stored all of it.                                              *)
THEOREM WholeCorrect ==
  ASSUME Calm, Room >= Size * Batch PROVE Spec => []WholeOnSuccess
<1>1. ASSUME Turns PROVE WholeOnSuccess
  <2> SUFFICES ASSUME result = "ok" PROVE file = Image BY DEF WholeOnSuccess
  <2>1. Holds(Batch * Size) BY <1>1, SuccessHolds
  <2>2. Batch * Size = Size * Batch /\ Size * Batch \in Nat BY Constant
  <2>3. Smaller(Room, Batch * Size) = Size * Batch BY <2>2, Constant DEF Smaller
  <2> QED BY <2>1, <2>3 DEF Holds, Image
<1> QED BY <1>1, CalmInductive, PTL

(* And a card without that room is filled.                                   *)
THEOREM LengthCorrect == ASSUME Calm PROVE Spec => []LengthOnSuccess
<1>1. ASSUME Turns PROVE LengthOnSuccess
  <2> SUFFICES ASSUME result = "ok" PROVE Len(file) = Smaller(Room, Size * Batch + torn)
    BY DEF LengthOnSuccess
  <2>1. torn = 0 /\ Holds(Batch * Size) BY <1>1, SuccessHolds
  <2>2. PICK w \in Nat : w = Size * Batch /\ w = Batch * Size BY Constant
  <2>3. PICK s \in Nat : s = Smaller(Room, w) BY Constant DEF Smaller
  <2>4. file = [i \in 1 .. s |-> i] BY <2>1, <2>2, <2>3 DEF Holds
  <2>5. Len(file) = s BY <2>4
  <2> QED BY <2>1, <2>2, <2>3, <2>5
<1> QED BY <1>1, CalmInductive, PTL

(* A sender whose last packet is acknowledged has not been misled.           *)
THEOREM SenderCorrect == ASSUME Calm PROVE Spec => []SenderIsRight
<1>1. ASSUME Turns PROVE SenderIsRight
  BY <1>1
  DEF Turns, Turn, SenderIsRight, Starting, Greeting, Welcomed, Sending, Writing, Accepted,
      Doomed, Ending, Closing, Leaving, Complete, Quitting, Failed
<1> QED BY <1>1, CalmInductive, PTL

(* A transfer fails only after more than RYM_MAX_ERRORS damaged data         *)
(* packets, a packet that could not be written, or damage to a packet that   *)
(* is not asked for again, where the sender repeats as often as it is asked. *)
THEOREM RetriesCorrect ==
  ASSUME Calm, Patient PROVE Spec => []ErrorsAreRetried
<1>1. ASSUME Turns PROVE ErrorsAreRetried
  <2> SUFFICES ASSUME result = "fail" PROVE Excuse BY DEF ErrorsAreRetried, Excuse
  <2>1. rpc = "end" /\ ~Complete BY <1>1 DEF Turns, None, Complete
  <2>2. Failed
    BY <1>1, <2>1
    DEF Turns, Turn, Starting, Greeting, Welcomed, Sending, Writing, Accepted, Doomed,
        Ending, Closing, Leaving, Quitting
  <2> QED BY <2>2 DEF Failed
<1> QED BY <1>1, CalmInductive, PTL
=============================================================================
