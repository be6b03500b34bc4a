---------------------------- MODULE NetworkProofs ----------------------------
(***************************************************************************)
(* What holds of the parts of a connection, for every value of the         *)
(* constants: of the handshake, of the comparison of PINs, of the assembly *)
(* of frames, and, with SocketsProofs and AudioProofs, of all five         *)
(* together.                                                               *)
(*                                                                         *)
(* The handshake is a lockstep, so its invariant (HandshakeInv) says for   *)
(* each place of the client where the server can be and which packet is on *)
(* its way (Dialogue, one part per phase), and what both then know         *)
(* (Knowledge).                                                            *)
(*                                                                         *)
(* The comparison of PINs is arithmetic: every number of a message is a    *)
(* power of the generator, so that the proofs are equations between        *)
(* exponents modulo the order, which is a prime, and what is compared in   *)
(* the end is 1 just if the PINs' difference is 0 (Compared).  Powers are  *)
(* a recursive function; what holds of all of them is by induction.        *)
(*                                                                         *)
(* What a push of the assembly contains follows from what the two sets     *)
(* contain (Gathered), and the order of pushes from where the sets stand   *)
(* (PushWindow).  That they belong to the session follows from the sets    *)
(* being emptied before the next one (SentInv), and that over TCP a frame  *)
(* stays in hand from the sets not passing the shard read next (WireInv).  *)
(***************************************************************************)
EXTENDS MCNetwork, SocketsProofs, AudioProofs

-----------------------------------------------------------------------------
\* THE HANDSHAKE

Talking == client \notin {"next", "failed"}

\* One packet at most is under way; none yet, or one lost with the connection.
OneUp(p) == down = <<>> /\ (up = <<>> \/ up = <<p>>)
OneDown(p) == up = <<>> /\ down = <<p>>
Silence == up = <<>> /\ down = <<>>

Hi == Message("crypto_handshake", Plain, FALSE)

Greeting ==
    /\ client = "hello" => server = "hello" /\ Silence
    /\ client = "answer" =>
          \/ server = "hello" /\ OneUp(Hi)
          \/ OneDown(Hi) /\ server = IF state = "pin_needed" THEN "pin_check_1"
                                     ELSE "confirm"

PairingTalk ==
    /\ client \in {"pin", "msg2", "msg4"} => state = "pin_needed"
    /\ client = "pin" => server = "pin_check_1" /\ Silence
    /\ client = "msg2" =>
          \/ server = "pin_check_1" /\ OneUp(Message("pin_check_1", Plain, FALSE))
          \/ server = "pin_check_3" /\ OneDown(Message("pin_check_2", Plain, FALSE))
    /\ client = "msg4" =>
          \/ server = "pin_check_3" /\ OneUp(Message("pin_check_3", Plain, FALSE))
          \/ server = "confirm" /\ OneDown(Message("pin_check_4", Plain, FALSE))

Securing ==
    /\ client = "confirm" => server = "confirm" /\ Silence
    /\ client = "port" =>
          \/ server = "confirm" /\ OneUp(Message("crypto_handshake", key, FALSE))
          \/ /\ server = "greet"
             /\ \E port \in BOOLEAN : OneDown(Message("handshake", key, port))
    /\ client = "greet" => server = "greet" /\ Silence
    /\ client = "wait" =>
          \/ server = "greet" /\ OneUp(Message("handshake", key, FALSE))
          \/ server = "session"
    /\ client = "ok" => server = "session"

\* A datagram is under way only once the client has greeted; one for the
\* client only once the server has answered.
Datagrams ==
    /\ upUdp /\ Talking => client \in {"wait", "ok"}
    /\ downUdp /\ Talking => client \in {"wait", "ok"} /\ server = "session"

Secret == CASE state = "pin_needed" -> ServerPin
            [] state = "client_already_paired" -> Fallback
            [] OTHER -> Plain

Knowledge ==
    /\ server \in {"pin_check_1", "pin_check_3"} => state = "pin_needed"
    /\ serverKey = IF server \in {"confirm", "greet", "session"}
                   THEN Secret ELSE Plain
    /\ client \in {"hello", "answer"} => pin = Fallback
    /\ client \in {"hello", "answer", "pin", "msg2", "msg4"} => key = Plain
    /\ client \in {"confirm", "port", "greet", "wait", "ok"} =>
          /\ key = serverKey
          /\ state = "pin_needed" => pin = ServerPin
          /\ state \in {"encryption_disabled", "pin_needed",
                        "client_already_paired"}
    /\ tcp_only => ~udp

Dialogue == Greeting /\ PairingTalk /\ Securing /\ Datagrams
HandshakeInv == TypeOK /\ Dialogue /\ Knowledge

USE HandshakeAssumption

\* A queue of one packet.
LEMMA OnePacketQueue == ASSUME NEW p
                PROVE  /\ Append(<<>>, p) = <<p>> /\ <<p>> # <<>>
                       /\ Head(<<p>>) = p /\ Tail(<<p>>) = <<>>
  OBVIOUS

\* What either side sends is a packet.
LEMMA Packets == ASSUME NEW t \in {"crypto_handshake", "pin_check_2", "pin_check_4",
                                   "handshake", "pin_check_1", "pin_check_3"},
                        NEW k \in Keys, NEW b \in BOOLEAN
                 PROVE  Message(t, k, b) \in Packet
  BY DEF Message, Packet

LEMMA PlainKey == Plain \in Keys /\ TRUE \in BOOLEAN /\ FALSE \in BOOLEAN
  BY DEF Keys

\* The types, in three parts: Boolean values, the other values, the queues.
LEMMA FlagsKept == FlagsOK /\ [Next]_vars => FlagsOK'
<1> SUFFICES ASSUME FlagsOK, [Next]_vars PROVE FlagsOK'
  OBVIOUS
<1> USE DEF FlagsOK, Receive, Send, Reply, inputs, attempt, remote, udpVars
<1>1. CASE NextAddress
  BY <1>1, Zenon DEF NextAddress
<1>2. CASE Hello
  BY <1>2, Zenon DEF Hello
<1>3. CASE ReceiveAnswer
  BY <1>3, Zenon DEF ReceiveAnswer
<1>4. CASE EnterPin
  BY <1>4, Zenon DEF EnterPin
<1>5. CASE ReceiveMsg2
  BY <1>5, Zenon DEF ReceiveMsg2
<1>6. CASE ReceiveMsg4
  BY <1>6, Zenon DEF ReceiveMsg4
<1>7. CASE Confirm
  BY <1>7, Zenon DEF Confirm
<1>8. CASE ReceivePort
  BY <1>8, Zenon DEF ReceivePort
<1>9. CASE Greet
  BY <1>9, Zenon DEF Greet
<1>10. CASE WaitAnswered
  BY <1>10, Zenon DEF WaitAnswered
<1>11. CASE ReceiveEnds
  BY <1>11, Zenon DEF ReceiveEnds
<1>12. CASE WaitResends
  BY <1>12, Zenon DEF WaitResends
<1>13. CASE WaitEnds
  BY <1>13, Zenon DEF WaitEnds
<1>14. CASE ServerAnswers
  BY <1>14, Zenon DEF ServerAnswers
<1>15. CASE ServerMsg2
  BY <1>15, Zenon DEF ServerMsg2
<1>16. CASE ServerMsg4
  BY <1>16, Zenon DEF ServerMsg4
<1>17. CASE ServerOffers
  BY <1>17, Zenon DEF ServerOffers
<1>18. CASE ServerGreets
  BY <1>18, Zenon DEF ServerGreets
<1>19. CASE ServerCloses
  BY <1>19, Zenon DEF ServerCloses
<1>20. CASE LoseDatagram
  BY <1>20, Zenon DEF LoseDatagram
<1>21. CASE Disconnect
  BY <1>21, Zenon DEF Disconnect
<1>22. CASE \E p \in Pins : SetPin(p)
  BY <1>22, Zenon DEF SetPin
<1>23. CASE UNCHANGED vars
  BY <1>23 DEF vars
<1> QED
  BY <1>1, <1>2, <1>3, <1>4, <1>5, <1>6, <1>7, <1>8, <1>9, <1>10, <1>11, <1>12, <1>13,
       <1>14, <1>15, <1>16, <1>17, <1>18, <1>19, <1>20, <1>21, <1>22, <1>23
  DEF Next, ClientStep, ServerStep

LEMMA ValuesKept == TypeOK /\ [Next]_vars => ValuesOK'
<1> SUFFICES ASSUME TypeOK, [Next]_vars PROVE ValuesOK'
  OBVIOUS
<1> USE DEF TypeOK, ValuesOK, QueuesOK, Packet, Keys, States, Awaited, Receiving, Receive,
        Send, Awaiting, Reply, inputs, attempt, remote, udpVars
<1>1. CASE NextAddress
  BY <1>1 DEF NextAddress
<1>2. CASE Hello
  BY <1>2 DEF Hello
<1>3. CASE ReceiveAnswer
  BY <1>3 DEF ReceiveAnswer
<1>4. CASE EnterPin
  BY <1>4 DEF EnterPin
<1>5. CASE ReceiveMsg2
  BY <1>5 DEF ReceiveMsg2
<1>6. CASE ReceiveMsg4
  BY <1>6 DEF ReceiveMsg4
<1>7. CASE Confirm
  BY <1>7 DEF Confirm
<1>8. CASE ReceivePort
  BY <1>8 DEF ReceivePort
<1>9. CASE Greet
  BY <1>9 DEF Greet
<1>10. CASE WaitAnswered
  BY <1>10 DEF WaitAnswered
<1>11. CASE ReceiveEnds
  BY <1>11 DEF ReceiveEnds
<1>12. CASE WaitResends
  BY <1>12 DEF WaitResends
<1>13. CASE WaitEnds
  BY <1>13 DEF WaitEnds
<1>14. CASE ServerAnswers
  BY <1>14 DEF ServerAnswers
<1>15. CASE ServerMsg2
  BY <1>15 DEF ServerMsg2
<1>16. CASE ServerMsg4
  BY <1>16 DEF ServerMsg4
<1>17. CASE ServerOffers
  BY <1>17 DEF ServerOffers
<1>18. CASE ServerGreets
  BY <1>18 DEF ServerGreets
<1>19. CASE ServerCloses
  BY <1>19 DEF ServerCloses
<1>20. CASE LoseDatagram
  BY <1>20 DEF LoseDatagram
<1>21. CASE Disconnect
  BY <1>21 DEF Disconnect
<1>22. CASE \E p \in Pins : SetPin(p)
  BY <1>22 DEF SetPin
<1>23. CASE UNCHANGED vars
  BY <1>23 DEF vars
<1> QED
  BY <1>1, <1>2, <1>3, <1>4, <1>5, <1>6, <1>7, <1>8, <1>9, <1>10, <1>11, <1>12, <1>13,
       <1>14, <1>15, <1>16, <1>17, <1>18, <1>19, <1>20, <1>21, <1>22, <1>23
  DEF Next, ClientStep, ServerStep

LEMMA Appends == ASSUME NEW q \in Seq(Packet), NEW p \in Packet
                 PROVE  Append(q, p) \in Seq(Packet)
  OBVIOUS

LEMMA NoPackets == <<>> \in Seq(Packet)
  OBVIOUS

LEMMA Tails == ASSUME NEW q \in Seq(Packet), q # <<>>
               PROVE  Tail(q) \in Seq(Packet) /\ Head(q) \in Packet
  OBVIOUS

LEMMA QueuesKept == TypeOK /\ [Next]_vars => QueuesOK'
<1> SUFFICES ASSUME TypeOK, [Next]_vars PROVE QueuesOK'
  OBVIOUS
<1> USE DEF TypeOK, ValuesOK, QueuesOK, Receive, Send, Reply, inputs, attempt, remote, udpVars
<1>1. CASE NextAddress
  BY <1>1, NoPackets DEF NextAddress
<1>2. CASE Hello
  BY <1>2, Packets, PlainKey, Appends, Tails DEF Hello
<1>3. CASE ReceiveAnswer
  BY <1>3, Packets, PlainKey, Appends, Tails DEF ReceiveAnswer
<1>4. CASE EnterPin
  BY <1>4, Packets, PlainKey, Appends, Tails DEF EnterPin
<1>5. CASE ReceiveMsg2
  BY <1>5, Packets, PlainKey, Appends, Tails DEF ReceiveMsg2
<1>6. CASE ReceiveMsg4
  BY <1>6, Packets, PlainKey, Appends, Tails DEF ReceiveMsg4
<1>7. CASE Confirm
  BY <1>7, Packets, PlainKey, Appends, Tails DEF Confirm
<1>8. CASE ReceivePort
  BY <1>8, Packets, PlainKey, Appends, Tails DEF ReceivePort
<1>9. CASE Greet
  BY <1>9, Packets, PlainKey, Appends, Tails DEF Greet
<1>10. CASE WaitAnswered
  BY <1>10, Packets, PlainKey, Appends, Tails DEF WaitAnswered
<1>11. CASE ReceiveEnds
  BY <1>11, Packets, PlainKey, Appends, Tails DEF ReceiveEnds
<1>12. CASE WaitResends
  BY <1>12, Packets, PlainKey, Appends, Tails DEF WaitResends
<1>13. CASE WaitEnds
  BY <1>13, Packets, PlainKey, Appends, Tails DEF WaitEnds
<1>14. CASE ServerAnswers
  BY <1>14, Packets, PlainKey, Appends, Tails DEF ServerAnswers
<1>15. CASE ServerMsg2
  BY <1>15, Packets, PlainKey, Appends, Tails DEF ServerMsg2
<1>16. CASE ServerMsg4
  BY <1>16, Packets, PlainKey, Appends, Tails DEF ServerMsg4
<1>17. CASE ServerOffers
  BY <1>17, Packets, PlainKey, Appends, Tails DEF ServerOffers
<1>18. CASE ServerGreets
  BY <1>18, Packets, PlainKey, Appends, Tails DEF ServerGreets
<1>19. CASE ServerCloses
  BY <1>19, Packets, PlainKey, Appends, Tails DEF ServerCloses
<1>20. CASE LoseDatagram
  BY <1>20, Packets, PlainKey, Appends, Tails DEF LoseDatagram
<1>21. CASE Disconnect
  BY <1>21, Packets, PlainKey, Appends, Tails DEF Disconnect
<1>22. CASE \E p \in Pins : SetPin(p)
  BY <1>22, Packets, PlainKey, Appends, Tails DEF SetPin
<1>23. CASE UNCHANGED vars
  BY <1>23 DEF vars
<1> QED
  BY <1>1, <1>2, <1>3, <1>4, <1>5, <1>6, <1>7, <1>8, <1>9, <1>10, <1>11, <1>12, <1>13,
       <1>14, <1>15, <1>16, <1>17, <1>18, <1>19, <1>20, <1>21, <1>22, <1>23
  DEF Next, ClientStep, ServerStep

LEMMA TypesKept == TypeOK /\ [Next]_vars => TypeOK'
  BY FlagsKept, ValuesKept, QueuesKept DEF TypeOK

\* The hello and its answer: while the client has not heard from the server,
\* its hello is the only packet there can be.
LEMMA GreetingKept == HandshakeInv /\ [Next]_vars => Greeting'
<1> SUFFICES ASSUME HandshakeInv, [Next]_vars PROVE Greeting'
  OBVIOUS
<1> USE DEF HandshakeInv, Dialogue, Greeting, Hi, Talking, OneUp, OneDown, Silence,
        Message, Awaited, Receiving, Receive, Send, Awaiting, Reply, inputs, attempt,
        remote, udpVars
<1>1. CASE NextAddress
  BY <1>1, OnePacketQueue DEF NextAddress
<1>2. CASE Hello
  BY <1>2, OnePacketQueue DEF Hello
<1>3. CASE ReceiveAnswer
  BY <1>3, OnePacketQueue DEF ReceiveAnswer
<1>4. CASE EnterPin
  BY <1>4, OnePacketQueue DEF EnterPin
<1>5. CASE ReceiveMsg2
  BY <1>5, OnePacketQueue DEF ReceiveMsg2
<1>6. CASE ReceiveMsg4
  BY <1>6, OnePacketQueue DEF ReceiveMsg4
<1>7. CASE Confirm
  BY <1>7, OnePacketQueue DEF Confirm
<1>8. CASE ReceivePort
  BY <1>8, OnePacketQueue DEF ReceivePort
<1>9. CASE Greet
  BY <1>9, OnePacketQueue DEF Greet
<1>10. CASE WaitAnswered
  BY <1>10, OnePacketQueue DEF WaitAnswered
<1>11. CASE ReceiveEnds
  BY <1>11, OnePacketQueue DEF ReceiveEnds
<1>12. CASE WaitResends
  BY <1>12, OnePacketQueue DEF WaitResends
<1>13. CASE WaitEnds
  BY <1>13, OnePacketQueue DEF WaitEnds
<1>14. CASE ServerAnswers
  BY <1>14, OnePacketQueue DEF ServerAnswers
<1>15. CASE ServerMsg2
  BY <1>15, OnePacketQueue DEF ServerMsg2
<1>16. CASE ServerMsg4
  BY <1>16, OnePacketQueue DEF ServerMsg4
<1>17. CASE ServerOffers
  BY <1>17, OnePacketQueue DEF ServerOffers
<1>18. CASE ServerGreets
  BY <1>18, OnePacketQueue DEF ServerGreets
<1>19. CASE ServerCloses
  BY <1>19, OnePacketQueue DEF ServerCloses
<1>20. CASE LoseDatagram
  BY <1>20, OnePacketQueue DEF LoseDatagram
<1>21. CASE Disconnect
  BY <1>21, OnePacketQueue DEF Disconnect
<1>22. CASE \E p \in Pins : SetPin(p)
  BY <1>22, OnePacketQueue DEF SetPin
<1>23. CASE UNCHANGED vars
  BY <1>23 DEF vars
<1> QED
  BY <1>1, <1>2, <1>3, <1>4, <1>5, <1>6, <1>7, <1>8, <1>9, <1>10, <1>11, <1>12, <1>13,
       <1>14, <1>15, <1>16, <1>17, <1>18, <1>19, <1>20, <1>21, <1>22, <1>23
  DEF Next, ClientStep, ServerStep

\* The PIN check: steps 1 to 4 alternate, and the server is never ahead.
LEMMA PairingKept == HandshakeInv /\ [Next]_vars => PairingTalk'
<1> SUFFICES ASSUME HandshakeInv, [Next]_vars PROVE PairingTalk'
  OBVIOUS
<1> USE DEF HandshakeInv, Dialogue, Greeting, PairingTalk, Hi, Talking, OneUp, OneDown,
        Silence, Message, Awaited, Receiving, Receive, Send, Awaiting, Reply, inputs,
        attempt, remote, udpVars
<1>1. CASE NextAddress
  BY <1>1, OnePacketQueue DEF NextAddress
<1>2. CASE Hello
  BY <1>2, OnePacketQueue DEF Hello
<1>3. CASE ReceiveAnswer
  BY <1>3, OnePacketQueue DEF ReceiveAnswer
<1>4. CASE EnterPin
  BY <1>4, OnePacketQueue DEF EnterPin
<1>5. CASE ReceiveMsg2
  BY <1>5, OnePacketQueue DEF ReceiveMsg2
<1>6. CASE ReceiveMsg4
  BY <1>6, OnePacketQueue DEF ReceiveMsg4
<1>7. CASE Confirm
  BY <1>7, OnePacketQueue DEF Confirm
<1>8. CASE ReceivePort
  BY <1>8, OnePacketQueue DEF ReceivePort
<1>9. CASE Greet
  BY <1>9, OnePacketQueue DEF Greet
<1>10. CASE WaitAnswered
  BY <1>10, OnePacketQueue DEF WaitAnswered
<1>11. CASE ReceiveEnds
  BY <1>11, OnePacketQueue DEF ReceiveEnds
<1>12. CASE WaitResends
  BY <1>12, OnePacketQueue DEF WaitResends
<1>13. CASE WaitEnds
  BY <1>13, OnePacketQueue DEF WaitEnds
<1>14. CASE ServerAnswers
  BY <1>14, OnePacketQueue DEF ServerAnswers
<1>15. CASE ServerMsg2
  BY <1>15, OnePacketQueue DEF ServerMsg2
<1>16. CASE ServerMsg4
  BY <1>16, OnePacketQueue DEF ServerMsg4
<1>17. CASE ServerOffers
  BY <1>17, OnePacketQueue DEF ServerOffers
<1>18. CASE ServerGreets
  BY <1>18, OnePacketQueue DEF ServerGreets
<1>19. CASE ServerCloses
  BY <1>19, OnePacketQueue DEF ServerCloses
<1>20. CASE LoseDatagram
  BY <1>20, OnePacketQueue DEF LoseDatagram
<1>21. CASE Disconnect
  BY <1>21, OnePacketQueue DEF Disconnect
<1>22. CASE \E p \in Pins : SetPin(p)
  BY <1>22, OnePacketQueue DEF SetPin
<1>23. CASE UNCHANGED vars
  BY <1>23 DEF vars
<1> QED
  BY <1>1, <1>2, <1>3, <1>4, <1>5, <1>6, <1>7, <1>8, <1>9, <1>10, <1>11, <1>12, <1>13,
       <1>14, <1>15, <1>16, <1>17, <1>18, <1>19, <1>20, <1>21, <1>22, <1>23
  DEF Next, ClientStep, ServerStep

\* From the first encrypted packet on; the key is that of Knowledge, so what
\* one side encrypts the other can read.
LEMMA SecuringKept == HandshakeInv /\ [Next]_vars => Securing'
<1> SUFFICES ASSUME HandshakeInv, [Next]_vars PROVE Securing'
  OBVIOUS
<1> USE DEF HandshakeInv, Dialogue, PairingTalk, Securing, Datagrams, Knowledge, Secret,
        Greeting, Hi, TypeOK, FlagsOK, Talking, OneUp, OneDown, Silence, Message, Awaited,
        Receiving, Receive, Send, Awaiting, Reply, inputs, attempt, remote, udpVars
<1>1. CASE NextAddress
  BY <1>1, OnePacketQueue DEF NextAddress
<1>2. CASE Hello
  BY <1>2, OnePacketQueue DEF Hello
<1>3. CASE ReceiveAnswer
  BY <1>3, OnePacketQueue DEF ReceiveAnswer
<1>4. CASE EnterPin
  BY <1>4, OnePacketQueue DEF EnterPin
<1>5. CASE ReceiveMsg2
  BY <1>5, OnePacketQueue DEF ReceiveMsg2
<1>6. CASE ReceiveMsg4
  BY <1>6, OnePacketQueue DEF ReceiveMsg4
<1>7. CASE Confirm
  BY <1>7, OnePacketQueue DEF Confirm
<1>8. CASE ReceivePort
  BY <1>8, OnePacketQueue DEF ReceivePort
<1>9. CASE Greet
  BY <1>9, OnePacketQueue DEF Greet
<1>10. CASE WaitAnswered
  BY <1>10, OnePacketQueue DEF WaitAnswered
<1>11. CASE ReceiveEnds
  BY <1>11, OnePacketQueue DEF ReceiveEnds
<1>12. CASE WaitResends
  BY <1>12, OnePacketQueue DEF WaitResends
<1>13. CASE WaitEnds
  BY <1>13, OnePacketQueue DEF WaitEnds
<1>14. CASE ServerAnswers
  BY <1>14, OnePacketQueue DEF ServerAnswers
<1>15. CASE ServerMsg2
  BY <1>15, OnePacketQueue DEF ServerMsg2
<1>16. CASE ServerMsg4
  BY <1>16, OnePacketQueue DEF ServerMsg4
<1>17. CASE ServerOffers
  BY <1>17, OnePacketQueue DEF ServerOffers
<1>18. CASE ServerGreets
  BY <1>18, OnePacketQueue DEF ServerGreets
<1>19. CASE ServerCloses
  BY <1>19, OnePacketQueue DEF ServerCloses
<1>20. CASE LoseDatagram
  BY <1>20, OnePacketQueue DEF LoseDatagram
<1>21. CASE Disconnect
  BY <1>21, OnePacketQueue DEF Disconnect
<1>22. CASE \E p \in Pins : SetPin(p)
  BY <1>22, OnePacketQueue DEF SetPin
<1>23. CASE UNCHANGED vars
  BY <1>23 DEF vars
<1> QED
  BY <1>1, <1>2, <1>3, <1>4, <1>5, <1>6, <1>7, <1>8, <1>9, <1>10, <1>11, <1>12, <1>13,
       <1>14, <1>15, <1>16, <1>17, <1>18, <1>19, <1>20, <1>21, <1>22, <1>23
  DEF Next, ClientStep, ServerStep

\* Nothing is sent over UDP before the client greets, and sockets are new for
\* every address.
LEMMA DatagramsKept == HandshakeInv /\ [Next]_vars => Datagrams'
<1> SUFFICES ASSUME HandshakeInv, [Next]_vars PROVE Datagrams'
  OBVIOUS
<1> USE DEF HandshakeInv, Dialogue, Securing, Datagrams, Talking, OneUp, OneDown, Silence,
        Message, Awaited, Receiving, Receive, Send, Awaiting, Reply, inputs, attempt,
        remote, udpVars
<1>1. CASE NextAddress
  BY <1>1, OnePacketQueue DEF NextAddress
<1>2. CASE Hello
  BY <1>2, OnePacketQueue DEF Hello
<1>3. CASE ReceiveAnswer
  BY <1>3, OnePacketQueue DEF ReceiveAnswer
<1>4. CASE EnterPin
  BY <1>4, OnePacketQueue DEF EnterPin
<1>5. CASE ReceiveMsg2
  BY <1>5, OnePacketQueue DEF ReceiveMsg2
<1>6. CASE ReceiveMsg4
  BY <1>6, OnePacketQueue DEF ReceiveMsg4
<1>7. CASE Confirm
  BY <1>7, OnePacketQueue DEF Confirm
<1>8. CASE ReceivePort
  BY <1>8, OnePacketQueue DEF ReceivePort
<1>9. CASE Greet
  BY <1>9, OnePacketQueue DEF Greet
<1>10. CASE WaitAnswered
  BY <1>10, OnePacketQueue DEF WaitAnswered
<1>11. CASE ReceiveEnds
  BY <1>11, OnePacketQueue DEF ReceiveEnds
<1>12. CASE WaitResends
  BY <1>12, OnePacketQueue DEF WaitResends
<1>13. CASE WaitEnds
  BY <1>13, OnePacketQueue DEF WaitEnds
<1>14. CASE ServerAnswers
  BY <1>14, OnePacketQueue DEF ServerAnswers
<1>15. CASE ServerMsg2
  BY <1>15, OnePacketQueue DEF ServerMsg2
<1>16. CASE ServerMsg4
  BY <1>16, OnePacketQueue DEF ServerMsg4
<1>17. CASE ServerOffers
  BY <1>17, OnePacketQueue DEF ServerOffers
<1>18. CASE ServerGreets
  BY <1>18, OnePacketQueue DEF ServerGreets
<1>19. CASE ServerCloses
  BY <1>19, OnePacketQueue DEF ServerCloses
<1>20. CASE LoseDatagram
  BY <1>20, OnePacketQueue DEF LoseDatagram
<1>21. CASE Disconnect
  BY <1>21, OnePacketQueue DEF Disconnect
<1>22. CASE \E p \in Pins : SetPin(p)
  BY <1>22, OnePacketQueue DEF SetPin
<1>23. CASE UNCHANGED vars
  BY <1>23 DEF vars
<1> QED
  BY <1>1, <1>2, <1>3, <1>4, <1>5, <1>6, <1>7, <1>8, <1>9, <1>10, <1>11, <1>12, <1>13,
       <1>14, <1>15, <1>16, <1>17, <1>18, <1>19, <1>20, <1>21, <1>22, <1>23
  DEF Next, ClientStep, ServerStep

\* What the two sides know of each other, and that the PIN check passes only
\* for the server's PIN.
LEMMA KnowledgeKept == HandshakeInv /\ [Next]_vars => Knowledge'
<1> SUFFICES ASSUME HandshakeInv, [Next]_vars PROVE Knowledge'
  OBVIOUS
<1> USE DEF HandshakeInv, TypeOK, ValuesOK, States, Dialogue, Greeting, PairingTalk,
        Securing, Knowledge, Secret, Hi, Talking, OneUp, OneDown, Silence, Message,
        Awaited, Receiving, Receive, Send, Awaiting, Reply, inputs, attempt, remote,
        udpVars
<1>1. CASE NextAddress
  BY <1>1, OnePacketQueue DEF NextAddress
<1>2. CASE Hello
  BY <1>2, OnePacketQueue DEF Hello
<1>3. CASE ReceiveAnswer
  BY <1>3, OnePacketQueue DEF ReceiveAnswer
<1>4. CASE EnterPin
  BY <1>4, OnePacketQueue DEF EnterPin
<1>5. CASE ReceiveMsg2
  BY <1>5, OnePacketQueue DEF ReceiveMsg2
<1>6. CASE ReceiveMsg4
  BY <1>6, OnePacketQueue DEF ReceiveMsg4
<1>7. CASE Confirm
  BY <1>7, OnePacketQueue DEF Confirm
<1>8. CASE ReceivePort
  BY <1>8, OnePacketQueue DEF ReceivePort
<1>9. CASE Greet
  BY <1>9, OnePacketQueue DEF Greet
<1>10. CASE WaitAnswered
  BY <1>10, OnePacketQueue DEF WaitAnswered
<1>11. CASE ReceiveEnds
  BY <1>11, OnePacketQueue DEF ReceiveEnds
<1>12. CASE WaitResends
  BY <1>12, OnePacketQueue DEF WaitResends
<1>13. CASE WaitEnds
  BY <1>13, OnePacketQueue DEF WaitEnds
<1>14. CASE ServerAnswers
  BY <1>14, OnePacketQueue DEF ServerAnswers
<1>15. CASE ServerMsg2
  BY <1>15, OnePacketQueue DEF ServerMsg2
<1>16. CASE ServerMsg4
  BY <1>16, OnePacketQueue DEF ServerMsg4
<1>17. CASE ServerOffers
  BY <1>17, OnePacketQueue DEF ServerOffers
<1>18. CASE ServerGreets
  BY <1>18, OnePacketQueue DEF ServerGreets
<1>19. CASE ServerCloses
  BY <1>19, OnePacketQueue DEF ServerCloses
<1>20. CASE LoseDatagram
  BY <1>20, OnePacketQueue DEF LoseDatagram
<1>21. CASE Disconnect
  BY <1>21, OnePacketQueue DEF Disconnect
<1>22. CASE \E p \in Pins : SetPin(p)
  BY <1>22, OnePacketQueue DEF SetPin
<1>23. CASE UNCHANGED vars
  BY <1>23 DEF vars
<1> QED
  BY <1>1, <1>2, <1>3, <1>4, <1>5, <1>6, <1>7, <1>8, <1>9, <1>10, <1>11, <1>12, <1>13,
       <1>14, <1>15, <1>16, <1>17, <1>18, <1>19, <1>20, <1>21, <1>22, <1>23
  DEF Next, ClientStep, ServerStep

LEMMA HandshakeStep == HandshakeInv /\ [Next]_vars => HandshakeInv'
  BY TypesKept, GreetingKept, PairingKept, SecuringKept, DatagramsKept, KnowledgeKept
  DEF HandshakeInv, Dialogue

LEMMA HandshakeStart == Init => HandshakeInv
<1> SUFFICES ASSUME Init PROVE HandshakeInv
  OBVIOUS
<1>1. FlagsOK
  BY Zenon DEF Init, FlagsOK
<1>2. ValuesOK
  BY DEF Init, ValuesOK, Keys, States
<1>3. QueuesOK
  BY NoPackets DEF Init, QueuesOK
<1>4. Dialogue
  BY DEF Init, Dialogue, Greeting, PairingTalk, Securing, Datagrams, Talking
<1>5. Knowledge
  BY DEF Init, Knowledge
<1> QED
  BY <1>1, <1>2, <1>3, <1>4, <1>5 DEF HandshakeInv, TypeOK

LEMMA HandshakeAlways == Spec => []HandshakeInv
  BY HandshakeStart, HandshakeStep, PTL DEF Spec

----------------------------------------------------------------------------
\* Every variable of the handshake keeps its type, with any PINs, any number of
\* addresses and whatever the server and the network do.
THEOREM HandshakeTypeCorrect == Spec => []TypeOK
<1>1. HandshakeInv => TypeOK
  BY DEF HandshakeInv
<1> QED
  BY <1>1, HandshakeAlways, PTL

\* connect_to_server reports a connection only when the server has answered the
\* client's handshake with the same key, and a pairing used its PIN.
THEOREM Agreement == Spec => []OkAgrees
<1>1. HandshakeInv => OkAgrees
  BY DEF HandshakeInv, Dialogue, Securing, Knowledge, OkAgrees
<1> QED
  BY <1>1, HandshakeAlways, PTL

-----------------------------------------------------------------------------
\* THE COMPARISON OF PINS
-----------------------------------------------------------------------------
\* POWERS

\* What holds of the constants.
LEMMA GroupConstants ==
  /\ SM_ORDER \in Nat /\ SM_ORDER > 1 /\ SM_MODULUS \in Nat /\ SM_MODULUS > 3
  /\ SM_ORDER > 0 /\ SM_MODULUS > 0
  /\ SM_GENERATOR \in Nat /\ SM_GENERATOR \in 2 .. SM_MODULUS - 2
BY PinCheckAssumption

LEMMA ModMul ==
  ASSUME NEW a \in Int, NEW b \in Int, NEW w \in Nat, w > 0
  PROVE  ((a % w) * b) % w = (a * b) % w
<1> DEFINE q == a \div w
           r == a % w
<1>1. q \in Int /\ r \in 0 .. w - 1 /\ a = w * q + r
  BY Divided
<1> HIDE DEF q, r
<1> DEFINE p == (r * b) \div w
           s == (r * b) % w
           t == (a * b) \div w
           u == (a * b) % w
<1>2. p \in Int /\ s \in 0 .. w - 1 /\ r * b = w * p + s
  <2>1. r * b \in Int
    BY <1>1
  <2> QED BY <2>1, Divided
<1>3. t \in Int /\ u \in 0 .. w - 1 /\ a * b = w * t + u
  <2>1. a * b \in Int
    OBVIOUS
  <2> QED BY <2>1, Divided
<1> HIDE DEF p, s, t, u
<1>4. q * b \in Int /\ q * b + p \in Int
  BY <1>1, <1>2
<1>5. a * b = w * (q * b) + r * b
  BY <1>1
<1>6. w * (q * b + p) = w * (q * b) + w * p
  BY <1>2, <1>4
<1>7. w * (q * b + p) + s = w * t + u
  <2>1. w * (q * b) \in Int /\ w * p \in Int /\ w * t \in Int
    BY <1>2, <1>3, <1>4
  <2> QED BY <1>2, <1>3, <1>5, <1>6, <2>1
<1>8. s = u
  BY <1>2, <1>3, <1>4, <1>7, Remainder
<1> QED BY <1>8 DEF s, u, r

\* What is equal but for a multiple has the same remainder.
LEMMA Congruent ==
  ASSUME NEW a \in Int, NEW b \in Int, NEW w \in Nat, w > 0, NEW t \in Int, a = b + w * t
  PROVE  a % w = b % w
<1> DEFINE p == a \div w
           r == a % w
           q == b \div w
           s == b % w
<1>1. p \in Int /\ r \in 0 .. w - 1 /\ a = w * p + r
  BY Divided
<1>2. q \in Int /\ s \in 0 .. w - 1 /\ b = w * q + s
  BY Divided
<1> HIDE DEF p, r, q, s
<1>3. w * (q + t) = w * q + w * t /\ q + t \in Int
  BY <1>1, <1>2
<1>4. w * (q + t) + s = w * p + r
  <2>1. w * q \in Int /\ w * t \in Int /\ w * p \in Int
    BY <1>1, <1>2
  <2> QED BY <1>1, <1>2, <1>3, <2>1
<1>5. s = r
  BY <1>1, <1>2, <1>3, <1>4, Remainder
<1> QED BY <1>5 DEF s, r

LEMMA OwnRemainder ==
  ASSUME NEW w \in Nat, w > 0, NEW a \in 0 .. w - 1
  PROVE  a % w = a
OBVIOUS

Residues == 0 .. SM_MODULUS - 1

LEMMA Products ==
  /\ \A a, b \in Int : mulm(a, b) \in Residues /\ mulm(a, b) \in Nat /\ mulm(a, b) = mulm(b, a)
  /\ \A a, b, c \in Int : mulm(mulm(a, b), c) = mulm(a, mulm(b, c))
  /\ \A a \in Residues : mulm(a, 1) = a /\ mulm(1, a) = a
<1>1. ASSUME NEW a \in Int, NEW b \in Int
      PROVE  mulm(a, b) \in Residues /\ mulm(a, b) \in Nat /\ mulm(a, b) = mulm(b, a)
  <2>1. a * b \in Int /\ a * b = b * a
    OBVIOUS
  <2>2. (a * b) % SM_MODULUS \in 0 .. SM_MODULUS - 1
    BY <2>1, GroupConstants, Divided
  <2> QED BY <2>1, <2>2, GroupConstants DEF mulm, Residues
<1>2. ASSUME NEW a \in Int, NEW b \in Int, NEW c \in Int
      PROVE  mulm(mulm(a, b), c) = mulm(a, mulm(b, c))
  <2>1. a * b \in Int /\ b * c \in Int /\ (a * b) * c = (b * c) * a
    OBVIOUS
  <2> DEFINE ab == a * b
             bc == b * c
  <2>2. ((ab % SM_MODULUS) * c) % SM_MODULUS = (ab * c) % SM_MODULUS
    <3>1. ab \in Int
      BY <2>1
    <3> HIDE DEF ab
    <3> QED BY <3>1, GroupConstants, ModMul
  <2>3. ((bc % SM_MODULUS) * a) % SM_MODULUS = (bc * a) % SM_MODULUS
    <3>1. bc \in Int
      BY <2>1
    <3> HIDE DEF bc
    <3> QED BY <3>1, GroupConstants, ModMul
  <2>4. mulm(mulm(a, b), c) = mulm(mulm(b, c), a)
    BY <2>1, <2>2, <2>3 DEF mulm
  <2>5. mulm(b, c) \in Int
    BY <1>1
  <2> QED BY <1>1, <2>4, <2>5
<1>3. ASSUME NEW a \in Residues PROVE mulm(a, 1) = a /\ mulm(1, a) = a
  <2>1. a * 1 = a /\ 1 * a = a /\ a % SM_MODULUS = a
    BY GroupConstants, OwnRemainder DEF Residues
  <2> QED BY <2>1 DEF mulm
<1> QED BY <1>1, <1>2, <1>3

\* Powers, by their recursion.
LEMMA Powers ==
  ASSUME NEW b \in Nat
  PROVE  /\ \A n \in Nat : powm(b, n) \in Residues /\ powm(b, n) \in Nat
         /\ powm(b, 0) = 1
         /\ \A n \in Nat : powm(b, n + 1) = mulm(powm(b, n), b)
<1> DEFINE F == [p \in Nat \X Nat |-> (p[2] * b) % SM_MODULUS]
<1>1. /\ F \in [Nat \X Nat -> Nat]
      /\ \A k, s \in Nat : F[<<k, s>>] = (s * b) % SM_MODULUS
  <2>1. \A s \in Nat : (s * b) % SM_MODULUS \in Nat
    BY Products, GroupConstants DEF mulm
  <2> QED BY <2>1
<1> HIDE DEF F
<1>2. PICK f \in [Nat -> Nat] : f[0] = 1 /\ \A k \in Nat : f[k + 1] = F[<<k, f[k]>>]
  <2>1. 1 \in Nat /\ F \in [Nat \X Nat -> Nat]
    BY <1>1
  <2> QED BY <2>1, Recursion
<1>3. f = [n \in Nat |-> IF n = 0 THEN 1 ELSE (f[n - 1] * b) % SM_MODULUS]
  <2>1. ASSUME NEW n \in Nat, n # 0 PROVE f[n] = (f[n - 1] * b) % SM_MODULUS
    <3>1. n - 1 \in Nat /\ (n - 1) + 1 = n
      BY <2>1
    <3> QED BY <1>1, <1>2, <3>1
  <2> QED BY <1>2, <2>1
<1> DEFINE power == CHOOSE g : g = [n \in Nat |-> IF n = 0 THEN 1
                                                 ELSE (g[n - 1] * b) % SM_MODULUS]
<1>4. power = [n \in Nat |-> IF n = 0 THEN 1 ELSE (power[n - 1] * b) % SM_MODULUS]
  BY <1>3
<1>5. \A n \in Nat : powm(b, n) = power[n]
  BY DEF powm
<1> HIDE DEF power
<1>6. power[0] = 1 /\ \A n \in Nat : power[n + 1] = mulm(power[n], b)
  <2>1. power[0] = 1
    BY <1>4
  <2>2. ASSUME NEW n \in Nat PROVE power[n + 1] = mulm(power[n], b)
    <3>1. n + 1 \in Nat /\ n + 1 # 0 /\ (n + 1) - 1 = n
      OBVIOUS
    <3>2. power[n + 1] = (power[(n + 1) - 1] * b) % SM_MODULUS
      BY <1>4, <3>1
    <3> QED BY <3>1, <3>2 DEF mulm
  <2> QED BY <2>1, <2>2
<1>7. 0 \in Nat /\ \A n \in Nat : n + 1 \in Nat
  OBVIOUS
<1>8. powm(b, 0) = 1 /\ \A n \in Nat : powm(b, n + 1) = mulm(powm(b, n), b)
  BY <1>5, <1>6, <1>7
<1> DEFINE S == {n \in Nat : powm(b, n) \in Residues /\ powm(b, n) \in Nat}
<1>9. S = Nat
  <2>1. 0 \in S
    BY <1>8, GroupConstants DEF Residues
  <2>2. ASSUME NEW n \in S PROVE n + 1 \in S
    BY <1>8, Products
  <2>3. S \in SUBSET Nat
    OBVIOUS
  <2> HIDE DEF S
  <2> QED BY <2>1, <2>2, <2>3, Induction
<1> QED BY <1>8, <1>9

LEMMA PowerOfSum ==
  ASSUME NEW b \in Nat, NEW m \in Nat, NEW n \in Nat
  PROVE  powm(b, m + n) = mulm(powm(b, m), powm(b, n))
<1> DEFINE S == {k \in Nat : powm(b, m + k) = mulm(powm(b, m), powm(b, k))}
<1>1. 0 \in S
  <2>1. m + 0 = m /\ powm(b, 0) = 1 /\ powm(b, m) \in Residues
    BY Powers
  <2>2. mulm(powm(b, m), 1) = powm(b, m)
    BY <2>1, Products
  <2> QED BY <2>1, <2>2
<1>2. ASSUME NEW k \in S PROVE k + 1 \in S
  <2>1. k \in Nat /\ m + k \in Nat /\ m + (k + 1) = (m + k) + 1
    OBVIOUS
  <2>2. powm(b, m + k) = mulm(powm(b, m), powm(b, k))
    OBVIOUS
  <2> HIDE DEF S
  <2>3. powm(b, (m + k) + 1) = mulm(powm(b, m + k), b)
    BY <2>1, Powers
  <2>4. powm(b, k + 1) = mulm(powm(b, k), b) /\ powm(b, k) \in Int /\ powm(b, m) \in Int
    <3>1. powm(b, k) \in Nat /\ powm(b, m) \in Nat
      BY <2>1, Powers
    <3>2. powm(b, k + 1) = mulm(powm(b, k), b)
      BY <2>1, Powers
    <3> QED BY <3>1, <3>2
  <2>5. mulm(mulm(powm(b, m), powm(b, k)), b) = mulm(powm(b, m), mulm(powm(b, k), b))
    BY <2>4, Products
  <2>6. powm(b, m + (k + 1)) = mulm(powm(b, m), powm(b, k + 1))
    BY <2>1, <2>2, <2>3, <2>4, <2>5
  <2> QED BY <2>1, <2>6 DEF S
<1>3. S = Nat
  <2>1. S \in SUBSET Nat
    OBVIOUS
  <2> HIDE DEF S
  <2> QED BY <1>1, <1>2, <2>1, Induction
<1> QED BY <1>3

LEMMA PowerOfProduct ==
  ASSUME NEW b \in Nat, NEW m \in Nat, NEW n \in Nat
  PROVE  powm(b, m * n) = powm(powm(b, m), n)
<1>0. powm(b, m) \in Nat
  BY Powers
<1> DEFINE S == {k \in Nat : powm(b, m * k) = powm(powm(b, m), k)}
<1>1. 0 \in S
  <2>1. m * 0 = 0 /\ powm(b, 0) = 1 /\ powm(powm(b, m), 0) = 1
    BY <1>0, Powers
  <2> QED BY <2>1
<1>2. ASSUME NEW k \in S PROVE k + 1 \in S
  <2>1. k \in Nat /\ m * k \in Nat /\ m * (k + 1) = m * k + m
    OBVIOUS
  <2>2. powm(b, m * k) = powm(powm(b, m), k)
    OBVIOUS
  <2> HIDE DEF S
  <2>3. powm(b, m * k + m) = mulm(powm(b, m * k), powm(b, m))
    BY <2>1, PowerOfSum
  <2>4. powm(powm(b, m), k + 1) = mulm(powm(powm(b, m), k), powm(b, m))
    BY <1>0, <2>1, Powers
  <2>5. powm(b, m * (k + 1)) = powm(powm(b, m), k + 1)
    BY <2>1, <2>2, <2>3, <2>4
  <2> QED BY <2>1, <2>5 DEF S
<1>3. S = Nat
  <2>1. S \in SUBSET Nat
    OBVIOUS
  <2> HIDE DEF S
  <2> QED BY <1>1, <1>2, <2>1, Induction
<1> QED BY <1>3

LEMMA PowersOfOne == \A n \in Nat : powm(1, n) = 1
<1> DEFINE S == {n \in Nat : powm(1, n) = 1}
<1>1. 0 \in S
  BY Powers
<1>2. ASSUME NEW n \in S PROVE n + 1 \in S
  <2>1. n \in Nat /\ powm(1, n) = 1 /\ 1 \in Residues /\ 1 \in Nat
    BY GroupConstants DEF Residues
  <2>2. powm(1, n + 1) = mulm(1, 1) /\ mulm(1, 1) = 1
    <3> HIDE DEF S
    <3>1. powm(1, n + 1) = mulm(powm(1, n), 1)
      BY <2>1, Powers
    <3> QED BY <2>1, <3>1, Products
  <2> QED BY <2>1, <2>2
<1>3. S = Nat
  <2>1. S \in SUBSET Nat
    OBVIOUS
  <2> HIDE DEF S
  <2> QED BY <1>1, <1>2, <2>1, Induction
<1> QED BY <1>3

\* THE GROUP

\* A power of the generator; what either side computes is one.
Gen(n) == powm(SM_GENERATOR, n)

LEMMA Gens ==
  /\ \A n \in Nat : Gen(n) \in Residues /\ Gen(n) \in Nat
  /\ \A m, n \in Nat : mulm(Gen(m), Gen(n)) = Gen(m + n) /\ powm(Gen(m), n) = Gen(m * n)
  /\ Gen(0) = 1
<1>1. SM_GENERATOR \in Nat
  BY GroupConstants
<1>2. \A n \in Nat : Gen(n) \in Residues /\ Gen(n) \in Nat
  BY <1>1, Powers DEF Gen
<1>3. Gen(0) = 1
  BY <1>1, Powers DEF Gen
<1>4. \A m, n \in Nat : mulm(Gen(m), Gen(n)) = Gen(m + n)
  BY <1>1, PowerOfSum DEF Gen
<1>5. \A m, n \in Nat : powm(Gen(m), n) = Gen(m * n)
  BY <1>1, PowerOfProduct DEF Gen
<1> QED BY <1>2, <1>3, <1>4, <1>5

\* The powers repeat after SM_ORDER of them ...
LEMMA Periodic ==
  ASSUME NEW a \in Nat, NEW t \in Nat
  PROVE  Gen(a + SM_ORDER * t) = Gen(a)
<1>1. SM_ORDER \in Nat /\ SM_ORDER * t \in Nat
  BY GroupConstants
<1>2. Gen(SM_ORDER * t) = 1
  <2>1. Gen(SM_ORDER) = 1
    BY GroupAssumption DEF Gen
  <2>2. powm(Gen(SM_ORDER), t) = Gen(SM_ORDER * t)
    BY <1>1, Gens
  <2> QED BY <2>1, <2>2, PowersOfOne
<1>3. Gen(a + SM_ORDER * t) = mulm(Gen(a), Gen(SM_ORDER * t))
  BY <1>1, Gens
<1> QED BY <1>2, <1>3, Gens, Products

LEMMA SamePower ==
  ASSUME NEW a \in Nat, NEW b \in Nat, NEW t \in Int, a = b + SM_ORDER * t
  PROVE  Gen(a) = Gen(b)
<1>1. CASE t >= 0
  BY <1>1, Periodic
<1>2. CASE t < 0
  <2>1. -t \in Nat /\ SM_ORDER * (-t) = -(SM_ORDER * t) /\ SM_ORDER * t \in Int
    BY <1>2, GroupConstants
  <2>2. b = a + SM_ORDER * (-t)
    BY <2>1
  <2> QED BY <2>1, <2>2, Periodic
<1> QED BY <1>1, <1>2

\* ... and not before.
LEMMA OneIsPeriod ==
  ASSUME NEW n \in Nat, Gen(n) = 1
  PROVE  n % SM_ORDER = 0
<1> DEFINE q == n \div SM_ORDER
           r == n % SM_ORDER
<1>1. q \in Int /\ r \in 0 .. SM_ORDER - 1 /\ n = SM_ORDER * q + r
  BY GroupConstants, Divided
<1> HIDE DEF q, r
<1>2. Gen(r) = 1
  <2>1. r \in Nat /\ n = r + SM_ORDER * q
    <3>1. SM_ORDER * q \in Int
      BY <1>1, GroupConstants
    <3> QED BY <1>1, <3>1
  <2> QED BY <1>1, <2>1, SamePower
<1>3. SUFFICES ASSUME r # 0 PROVE FALSE
  BY <1>1 DEF r
<1>4. r \in 1 .. SM_ORDER - 1 /\ r \in Nat
  BY <1>1, <1>3, GroupConstants
<1>5. PICK i \in 1 .. SM_ORDER - 1 : (r * i) % SM_ORDER = 1
  BY <1>4, GroupAssumption
<1>6. i \in Nat /\ r * i \in Nat
  BY <1>4, <1>5, GroupConstants
<1>7. Gen(r * i) = 1
  BY <1>2, <1>4, <1>6, Gens, PowersOfOne
<1>8. PICK p \in Int : r * i = 1 + SM_ORDER * p
  <2> DEFINE n1 == r * i
             p == n1 \div SM_ORDER
  <2>1. n1 \in Int /\ n1 % SM_ORDER = 1
    BY <1>5, <1>6
  <2> HIDE DEF n1
  <2>2. p \in Int /\ n1 = SM_ORDER * p + (n1 % SM_ORDER)
    BY <2>1, GroupConstants, Divided
  <2>3. SM_ORDER * p \in Int
    BY <2>2, GroupConstants
  <2>4. n1 = 1 + SM_ORDER * p
    <3> HIDE DEF p
    <3> QED BY <2>1, <2>2, <2>3
  <2> QED BY <2>2, <2>4 DEF n1
<1>9. Gen(1) = 1
  BY <1>6, <1>7, <1>8, SamePower
<1>10. Gen(1) = SM_GENERATOR
  <2>1. 0 + 1 = 1 /\ powm(SM_GENERATOR, 0 + 1) = mulm(powm(SM_GENERATOR, 0), SM_GENERATOR)
    BY GroupConstants, Powers
  <2>2. powm(SM_GENERATOR, 0) = 1 /\ SM_GENERATOR \in Residues
    BY GroupConstants, Powers DEF Residues
  <2> QED BY <2>1, <2>2, Products DEF Gen
<1> QED BY <1>9, <1>10, GroupConstants

LEMMA SameGen ==
  ASSUME NEW a \in Nat, NEW b \in Nat, Gen(a) = Gen(b)
  PROVE  \E t \in Int : a = b + SM_ORDER * t
<1> DEFINE c == b * (SM_ORDER - 1)
           e == a + c
<1>1. c \in Nat /\ e \in Nat /\ b + c = 0 + SM_ORDER * b
  BY GroupConstants
<1>2. b + c \in Nat /\ e = a + c
  BY <1>1
<1> HIDE DEF c, e
<1>3. Gen(b + c) = 1
  BY <1>1, Periodic, Gens
<1>4. Gen(e) = 1
  <2>1. Gen(a + c) = mulm(Gen(a), Gen(c)) /\ Gen(b + c) = mulm(Gen(b), Gen(c))
    BY <1>1, Gens
  <2> QED BY <1>2, <1>3, <2>1
<1>5. e % SM_ORDER = 0
  BY <1>1, <1>4, OneIsPeriod
<1> DEFINE p == e \div SM_ORDER
<1>6. p \in Int /\ e = SM_ORDER * p + 0
  BY <1>1, <1>5, GroupConstants, Divided
<1> HIDE DEF p
<1>7. p - b \in Int /\ SM_ORDER * (p - b) = SM_ORDER * p - SM_ORDER * b
      /\ SM_ORDER * p \in Int /\ SM_ORDER * b \in Int
  BY <1>6, GroupConstants
<1>8. a = b + SM_ORDER * (p - b)
  <2> DEFINE y == SM_ORDER * p
             z == SM_ORDER * b
  <2>1. /\ y \in Int /\ z \in Int /\ a + c = y + 0 /\ b + c = 0 + z
        /\ SM_ORDER * (p - b) = y - z
    BY <1>1, <1>2, <1>6, <1>7
  <2> HIDE DEF y, z
  <2>2. a = b + (y - z)
    BY <1>1, <2>1
  <2> QED BY <2>1, <2>2
<1> QED BY <1>7, <1>8

\* A quotient, as the power of the difference.
LEMMA Quotient ==
  ASSUME NEW a \in Nat, NEW b \in Nat
  PROVE  /\ b * (SM_ORDER - 1) \in Nat /\ invm(Gen(b)) \in Nat
         /\ mulm(Gen(a), invm(Gen(b))) = Gen(a + b * (SM_ORDER - 1))
<1> DEFINE m == b * (SM_ORDER - 1)
           i == invm(Gen(b))
<1>1. m \in Nat /\ b + m = 0 + SM_ORDER * b /\ b + m \in Nat
  BY GroupConstants
<1> HIDE DEF m
<1>2. Gen(b) \in Nat /\ Gen(m) \in Nat /\ Gen(m) \in Residues /\ Gen(b) \in Residues
  BY <1>1, Gens
<1>3. mulm(Gen(b), Gen(m)) = 1
  BY <1>1, Periodic, Gens
<1>4. Gen(m) \in 1 .. SM_MODULUS - 1
  <2>1. Gen(m) # 0
    <3>1. SUFFICES ASSUME Gen(m) = 0 PROVE FALSE
      OBVIOUS
    <3>2. Gen(b) * 0 = 0 /\ 0 % SM_MODULUS = 0
      BY <1>2, GroupConstants, OwnRemainder
    <3> QED BY <1>3, <3>1, <3>2 DEF mulm
  <2> QED BY <1>2, <2>1 DEF Residues
<1>5. i \in 1 .. SM_MODULUS - 1 /\ mulm(Gen(b), i) = 1
  BY <1>3, <1>4 DEF invm
<1> HIDE DEF i
<1>6. i \in Residues /\ i \in Int
  BY <1>5, GroupConstants DEF Residues
<1>7. i = Gen(m)
  <2>1. mulm(mulm(Gen(m), Gen(b)), i) = mulm(Gen(m), mulm(Gen(b), i))
    BY <1>2, <1>6, Products
  <2>2. mulm(Gen(m), Gen(b)) = 1
    BY <1>2, <1>3, Products
  <2> QED BY <1>2, <1>5, <1>6, <2>1, <2>2, Products
<1>8. mulm(Gen(a), i) = Gen(a + m)
  BY <1>1, <1>7, Gens
<1>9. i \in Nat
  BY <1>5, GroupConstants
<1> QED BY <1>1, <1>8, <1>9 DEF i, m

LEMMA Concealed ==
  ASSUME NEW r \in Nat, NEW x \in Nat, NEW c \in Nat
  PROVE  /\ Hidden(r, x, c) \in Nat
         /\ \E t \in Int : Hidden(r, x, c) + x * c = r + SM_ORDER * t
<1> DEFINE y == r - x * c
           d == y % SM_ORDER
           p == y \div SM_ORDER
<1>1. y \in Int /\ x * c \in Nat /\ y = r - x * c
  OBVIOUS
<1> HIDE DEF y
<1>2. p \in Int /\ d \in 0 .. SM_ORDER - 1 /\ y = SM_ORDER * p + d
  BY <1>1, GroupConstants, Divided
<1> HIDE DEF p, d
<1>3. d \in Nat /\ SM_ORDER * (-p) = -(SM_ORDER * p) /\ SM_ORDER * p \in Int /\ -p \in Int
  BY <1>2, GroupConstants
<1>4. d + x * c = r + SM_ORDER * (-p)
  BY <1>1, <1>2, <1>3
<1>5. Hidden(r, x, c) = d
  BY DEF Hidden, d, y
<1> QED BY <1>3, <1>4, <1>5

\* Both sides of a proof's equation are the same power.
LEMMA Shown ==
  ASSUME NEW i \in Nat, NEW n \in Nat, NEW x \in Nat, NEW c \in Nat
  PROVE  mulm(powm(Gen(i), Hidden(n, x, c)), powm(powm(Gen(i), x), c)) = powm(Gen(i), n)
<1> DEFINE d == Hidden(n, x, c)
<1>1. PICK t \in Int : d + x * c = n + SM_ORDER * t
  BY Concealed
<1>2. d \in Nat
  BY Concealed
<1> HIDE DEF d
<1>3. i * d \in Nat /\ i * x \in Nat /\ (i * x) * c \in Nat /\ i * n \in Nat /\ i * t \in Int
      /\ i * d + (i * x) * c \in Nat
  BY <1>2
<1>4. powm(Gen(i), d) = Gen(i * d) /\ powm(powm(Gen(i), x), c) = Gen((i * x) * c)
      /\ powm(Gen(i), n) = Gen(i * n)
  BY <1>2, <1>3, Gens
<1>5. mulm(Gen(i * d), Gen((i * x) * c)) = Gen(i * d + (i * x) * c)
  BY <1>3, Gens
<1>6. i * d + (i * x) * c = i * n + SM_ORDER * (i * t)
  <2>1. i * (d + x * c) = i * d + (i * x) * c
    BY <1>2
  <2>2. i * (n + SM_ORDER * t) = i * n + SM_ORDER * (i * t)
    BY GroupConstants
  <2> QED BY <1>1, <2>1, <2>2
<1>7. Gen(i * d + (i * x) * c) = Gen(i * n)
  BY <1>3, <1>6, SamePower
<1> QED BY <1>4, <1>5, <1>7 DEF d

LEMMA CoordsShown ==
  ASSUME NEW w \in Nat, NEW r \in Nat, NEW s \in Nat, NEW n \in Nat, NEW c \in Nat
  PROVE  mulm(powm(mulm(Gen(r), powm(Gen(w), s)), c),
              mulm(powm(SM_GENERATOR, Hidden(n, r, c)), powm(Gen(w), Hidden(n, s, c))))
           = mulm(powm(SM_GENERATOR, n), powm(Gen(w), n))
<1> DEFINE d == Hidden(n, r, c)
           e == Hidden(n, s, c)
<1>1. PICK t \in Int : d + r * c = n + SM_ORDER * t
  BY Concealed
<1>2. PICK v \in Int : e + s * c = n + SM_ORDER * v
  BY Concealed
<1>3. d \in Nat /\ e \in Nat
  BY Concealed
<1> HIDE DEF d, e
<1> DEFINE y == r + w * s
           a == y * c + (d + w * e)
           b == n + w * n
<1>4. /\ w * s \in Nat /\ w * e \in Nat /\ w * n \in Nat /\ t + w * v \in Int
      /\ y \in Nat /\ y * c \in Nat /\ d + w * e \in Nat /\ a \in Nat /\ b \in Nat
  BY <1>3
<1>5. a = b + SM_ORDER * (t + w * v)
  <2>1. a = (d + r * c) + w * (e + s * c)
    BY <1>3
  <2>2. (n + SM_ORDER * t) + w * (n + SM_ORDER * v) = b + SM_ORDER * (t + w * v)
    BY GroupConstants
  <2> HIDE DEF a, b
  <2> QED BY <1>1, <1>2, <2>1, <2>2
<1>6. mulm(Gen(r), powm(Gen(w), s)) = Gen(y)
  <2>1. powm(Gen(w), s) = Gen(w * s) /\ mulm(Gen(r), Gen(w * s)) = Gen(r + w * s)
    BY <1>4, Gens
  <2> QED BY <2>1
<1>7. mulm(powm(SM_GENERATOR, d), powm(Gen(w), e)) = Gen(d + w * e)
  <2>1. powm(Gen(w), e) = Gen(w * e) /\ mulm(Gen(d), Gen(w * e)) = Gen(d + w * e)
    BY <1>3, <1>4, Gens
  <2> QED BY <2>1 DEF Gen
<1>8. mulm(powm(SM_GENERATOR, n), powm(Gen(w), n)) = Gen(b)
  <2>1. powm(Gen(w), n) = Gen(w * n) /\ mulm(Gen(n), Gen(w * n)) = Gen(n + w * n)
    BY <1>4, Gens
  <2> QED BY <2>1 DEF Gen
<1> HIDE DEF y
<1>9. mulm(powm(Gen(y), c), Gen(d + w * e)) = Gen(a)
  BY <1>4, Gens
<1> HIDE DEF a, b
<1>10. Gen(a) = Gen(b)
  BY <1>4, <1>5, SamePower
<1> QED BY <1>6, <1>7, <1>8, <1>9, <1>10 DEF d, e

\* The order is a prime: no product of two that are no multiples is one.
LEMMA NoDivisor ==
  ASSUME NEW a \in Nat, NEW b \in Nat, a % SM_ORDER # 0, (a * b) % SM_ORDER = 0
  PROVE  b % SM_ORDER = 0
<1> DEFINE p == a \div SM_ORDER
           r == a % SM_ORDER
           ab == a * b
           s == ab \div SM_ORDER
<1>1. p \in Int /\ r \in 0 .. SM_ORDER - 1 /\ a = SM_ORDER * p + r /\ r # 0
  BY GroupConstants, Divided
<1>2. ab \in Int /\ ab % SM_ORDER = 0 /\ ab = a * b
  OBVIOUS
<1> HIDE DEF p, r, ab
<1>3. s \in Int /\ ab = SM_ORDER * s + 0
  BY <1>2, GroupConstants, Divided
<1> HIDE DEF s
<1>4. r \in 1 .. SM_ORDER - 1 /\ r \in Nat
  BY <1>1, GroupConstants
<1>5. PICK i \in 1 .. SM_ORDER - 1 : (r * i) % SM_ORDER = 1
  BY <1>4, GroupAssumption
<1>6. i \in Nat
  BY <1>5, GroupConstants
<1>7. PICK t \in Int : r * i = SM_ORDER * t + 1
  <2> DEFINE x == r * i
             y == x \div SM_ORDER
  <2>1. x \in Int /\ x % SM_ORDER = 1
    BY <1>4, <1>5, <1>6
  <2> HIDE DEF x
  <2>2. y \in Int /\ x = SM_ORDER * y + 1
    BY <2>1, GroupConstants, Divided
  <2> HIDE DEF y
  <2> QED BY <2>2 DEF x
<1>8. b = 0 + SM_ORDER * (i * s - i * p * b - t * b)
  <2>1. r * b = a * b - (SM_ORDER * p) * b
    <3>1. r = a - SM_ORDER * p
      BY <1>1, GroupConstants
    <3> QED BY <1>1, <3>1, GroupConstants
  <2>2. r * b = SM_ORDER * s - (SM_ORDER * p) * b
    BY <1>2, <1>3, <2>1, GroupConstants
  <2>3. i * (r * b) = SM_ORDER * (i * s - i * p * b)
    BY <1>1, <1>3, <1>6, <2>2, GroupConstants
  <2>4. i * (r * b) = (SM_ORDER * t + 1) * b
    BY <1>4, <1>6, <1>7
  <2>5. (SM_ORDER * t + 1) * b = SM_ORDER * (t * b) + b
    BY <1>7, GroupConstants
  <2> DEFINE y == i * s - i * p * b
             z == t * b
  <2>6. y \in Int /\ z \in Int
    BY <1>1, <1>3, <1>6, <1>7
  <2>7. SM_ORDER * y = SM_ORDER * z + b
    BY <2>3, <2>4, <2>5
  <2>8. i * s - i * p * b - t * b = y - z
    OBVIOUS
  <2> HIDE DEF y, z
  <2>9. b = 0 + SM_ORDER * (y - z)
    BY <2>6, <2>7, GroupConstants
  <2> QED BY <2>8, <2>9
<1>9. i * s - i * p * b - t * b \in Int
  BY <1>1, <1>3, <1>6, <1>7
<1>10. b % SM_ORDER = 0 % SM_ORDER
  <2> DEFINE y == i * s - i * p * b - t * b
  <2>1. y \in Int /\ b = 0 + SM_ORDER * y
    BY <1>8, <1>9
  <2> HIDE DEF y
  <2> QED BY <2>1, GroupConstants, Congruent
<1> QED BY <1>10, GroupConstants, OwnRemainder

\* A power is 1 just for the multiples of the order.
LEMMA OneIs ==
  ASSUME NEW n \in Nat
  PROVE  Gen(n) = 1 <=> n % SM_ORDER = 0
<1>1. ASSUME n % SM_ORDER = 0 PROVE Gen(n) = 1
  <2> DEFINE p == n \div SM_ORDER
  <2>1. p \in Int /\ n = SM_ORDER * p + 0
    BY <1>1, GroupConstants, Divided
  <2> HIDE DEF p
  <2>2. n = 0 + SM_ORDER * p
    BY <2>1, GroupConstants
  <2> QED BY <2>1, <2>2, SamePower, Gens
<1> QED BY <1>1, OneIsPeriod

FoundOut(ra, rb, w, u, sa, sb) == ((ra + w * sa) + (rb + w * sb) * (SM_ORDER - 1)) * u

Expected(ra, rb, u) == u * ra + (u * rb) * (SM_ORDER - 1)

\* What is compared in the end: the quotient of the q's, to the exponents of
\* both sides, and the quotient of the p's differ by a power of the difference
\* of the secrets.
LEMMA Compared ==
  ASSUME NEW ra \in Nat, NEW rb \in Nat, NEW w \in Nat, NEW u \in Nat,
         NEW sa \in 0 .. SM_ORDER - 1, NEW sb \in 0 .. SM_ORDER - 1,
         Gen(w) # 1, Gen(u) # 1
  PROVE  Gen(FoundOut(ra, rb, w, u, sa, sb)) = Gen(Expected(ra, rb, u)) <=> sa = sb
<1> DEFINE l == SM_ORDER - 1
           e == sa + sb * l
           i == ((ra + w * sa) + (rb + w * sb) * l) * u
           j == u * ra + (u * rb) * l
           f == (w * u) * e
<1>1. l \in Nat /\ sa \in Nat /\ sb \in Nat /\ l = SM_ORDER - 1
  BY GroupConstants
<1>2. e \in Nat /\ i \in Nat /\ j \in Nat /\ f \in Nat /\ w * u \in Nat
  <2> HIDE DEF l
  <2>1. sb * l \in Nat /\ w * sa \in Nat /\ rb + w * sb \in Nat /\ u * ra \in Nat
        /\ (u * rb) * l \in Nat /\ w * u \in Nat
    BY <1>1
  <2>2. (rb + w * sb) * l \in Nat /\ e \in Nat
    BY <1>1, <2>1
  <2>3. (ra + w * sa) + (rb + w * sb) * l \in Nat
    BY <2>1, <2>2
  <2> QED BY <2>1, <2>2, <2>3
<1>3. i = j + f
  <2> HIDE DEF l
  <2> QED BY <1>1
<1>4. e = (sa - sb) + SM_ORDER * sb
  BY <1>1, GroupConstants
<1> HIDE DEF e, i, j, f
<1>5. Gen(i) = Gen(j) <=> Gen(f) = 1
  <2>1. Gen(i) = mulm(Gen(j), Gen(f))
    BY <1>2, <1>3, Gens
  <2>2. ASSUME Gen(f) = 1 PROVE Gen(i) = Gen(j)
    BY <1>2, <2>1, <2>2, Gens, Products
  <2>3. ASSUME Gen(i) = Gen(j) PROVE Gen(f) = 1
    <3>1. PICK t \in Int : i = j + SM_ORDER * t
      BY <1>2, <2>3, SameGen
    <3>2. f = 0 + SM_ORDER * t
      <4>1. SM_ORDER * t \in Int
        BY GroupConstants
      <4> QED BY <1>2, <1>3, <3>1, <4>1
    <3> QED BY <1>2, <3>2, SamePower, Gens
  <2> QED BY <2>2, <2>3
<1>6. Gen(f) = 1 <=> e % SM_ORDER = 0
  <2>1. w % SM_ORDER # 0 /\ u % SM_ORDER # 0
    BY OneIs
  <2>2. (w * u) % SM_ORDER # 0
    BY <2>1, NoDivisor
  <2>3. ASSUME Gen(f) = 1 PROVE e % SM_ORDER = 0
    <3>1. ((w * u) * e) % SM_ORDER = 0
      BY <1>2, <2>3, OneIs DEF f
    <3> QED BY <1>2, <2>2, <3>1, NoDivisor
  <2>4. ASSUME e % SM_ORDER = 0 PROVE Gen(f) = 1
    <3> DEFINE p == e \div SM_ORDER
    <3>1. p \in Int /\ e = SM_ORDER * p + 0
      BY <1>2, <2>4, GroupConstants, Divided
    <3> HIDE DEF p
    <3>2. (w * u) * p \in Int /\ f = 0 + SM_ORDER * ((w * u) * p)
      BY <1>2, <3>1, GroupConstants DEF f
    <3> QED BY <1>2, <3>2, SamePower, Gens
  <2> QED BY <2>3, <2>4
<1>7. e % SM_ORDER = 0 <=> sa = sb
  <2>1. e % SM_ORDER = (sa - sb) % SM_ORDER
    <3> DEFINE d == sa - sb
    <3>1. d \in Int /\ e \in Int /\ sb \in Int /\ e = d + SM_ORDER * sb
      BY <1>1, <1>2, <1>4
    <3> HIDE DEF d
    <3>2. SM_ORDER \in Nat /\ SM_ORDER > 0
      BY GroupConstants
    <3>3. e % SM_ORDER = d % SM_ORDER
      BY <3>1, <3>2, Congruent
    <3> QED BY <3>3 DEF d
  <2>2. CASE sa >= sb
    <3>1. (sa - sb) % SM_ORDER = sa - sb
      <4>1. sa - sb \in 0 .. SM_ORDER - 1
        BY <1>1, <2>2, GroupConstants
      <4> QED BY <4>1, GroupConstants, OwnRemainder
    <3> QED BY <1>1, <2>1, <3>1
  <2>3. CASE sa < sb
    <3>1. (sa - sb) % SM_ORDER = (sa - sb) + SM_ORDER
      <4> DEFINE d == (sa - sb) + SM_ORDER
      <4>1. d \in 0 .. SM_ORDER - 1 /\ sa - sb = d + SM_ORDER * (-1)
        BY <1>1, <2>3, GroupConstants
      <4>2. sa - sb \in Int /\ d \in Int
        BY <1>1, GroupConstants
      <4> HIDE DEF d
      <4>3. (sa - sb) % SM_ORDER = d % SM_ORDER
        BY <4>1, <4>2, GroupConstants, Congruent
      <4>4. d % SM_ORDER = d
        BY <4>1, GroupConstants, OwnRemainder
      <4> QED BY <4>3, <4>4 DEF d
    <3> QED BY <1>1, <2>1, <2>3, <3>1, GroupConstants
  <2> QED BY <1>1, <2>2, <2>3
<1> QED BY <1>5, <1>6, <1>7 DEF i, j, FoundOut, Expected

\* THE PROOFS OF A MESSAGE

\* Two that follow the protocol prove what they say, whatever they draw.
LEMMA Hashes ==
  \A v \in 1 .. 8, a, b \in Residues : Hash(v, a, b) \in Nat
BY PinCheckAssumption DEF Residues

LEMMA GenOfOne == Gen(1) = SM_GENERATOR
<1>1. 0 + 1 = 1 /\ powm(SM_GENERATOR, 0 + 1) = mulm(powm(SM_GENERATOR, 0), SM_GENERATOR)
  BY GroupConstants, Powers
<1>2. powm(SM_GENERATOR, 0) = 1 /\ SM_GENERATOR \in Residues
  BY GroupConstants, Powers DEF Residues
<1> QED BY <1>1, <1>2, Products DEF Gen

LEMMA LogShown ==
  ASSUME NEW n \in Nat, NEW x \in Nat, NEW c \in Nat
  PROVE  mulm(powm(SM_GENERATOR, Hidden(n, x, c)), powm(Gen(x), c)) = powm(SM_GENERATOR, n)
<1>1. 1 \in Nat /\ 1 * x = x /\ powm(Gen(1), x) = Gen(1 * x)
  BY Gens
<1>2. mulm(powm(Gen(1), Hidden(n, x, c)), powm(powm(Gen(1), x), c)) = powm(Gen(1), n)
  BY <1>1, Shown
<1> QED BY <1>1, <1>2, GenOfOne

LEMMA HalvesAreProved ==
  ASSUME NEW me, me.x2 \in Nat, me.x3 \in Nat, NEW n \in Nat, NEW v \in {1, 3}
  PROVE  /\ HalvesProved(Halves(me, v, n), v)
         /\ Halves(me, v, n).g2 = Gen(me.x2) /\ Halves(me, v, n).g3 = Gen(me.x3)
<1>1. ASSUME NEW x \in Nat, NEW i \in 1 .. 8
      PROVE  check_know_log(proof_know_log(SM_GENERATOR, x, i, n), SM_GENERATOR,
                            powm(SM_GENERATOR, x), i)
  <2> DEFINE c == Hash(i, powm(SM_GENERATOR, n), Unset)
  <2>1. c \in Nat
    <3>1. powm(SM_GENERATOR, n) \in Residues
      BY GroupConstants, Powers
    <3>2. Unset \in Residues
      BY GroupConstants DEF Unset, Residues
    <3> QED BY <3>1, <3>2, Hashes
  <2>2. proof_know_log(SM_GENERATOR, x, i, n) = [c |-> c, d |-> Hidden(n, x, c)]
    BY DEF proof_know_log
  <2>3. c = Hash(i, powm(SM_GENERATOR, n), Unset)
    OBVIOUS
  <2> HIDE DEF c
  <2>4. mulm(powm(SM_GENERATOR, Hidden(n, x, c)), powm(powm(SM_GENERATOR, x), c))
          = powm(SM_GENERATOR, n)
    BY <2>1, LogShown DEF Gen
  <2> QED BY <2>2, <2>3, <2>4 DEF check_know_log
<1>2. v \in 1 .. 8 /\ v + 1 \in 1 .. 8
  OBVIOUS
<1>3. /\ Halves(me, v, n).g2 = powm(SM_GENERATOR, me.x2)
      /\ Halves(me, v, n).g3 = powm(SM_GENERATOR, me.x3)
      /\ Halves(me, v, n).k2 = proof_know_log(SM_GENERATOR, me.x2, v, n)
      /\ Halves(me, v, n).k3 = proof_know_log(SM_GENERATOR, me.x3, v + 1, n)
  BY DEF Halves
<1> QED BY <1>1, <1>2, <1>3 DEF HalvesProved, Gen

LEMMA CoordsAreProved ==
  ASSUME NEW me, NEW other, NEW w \in Nat, NEW u \in Nat, NEW r \in Nat, NEW n \in Nat,
         NEW v \in 1 .. 8, me.secret \in Nat,
         me.g2 = Gen(w), me.g3 = Gen(u), other.g2 = Gen(w), other.g3 = Gen(u)
  PROVE  check_equal_coords(other, proof_equal_coords(me, r, v, n), powm(me.g3, r),
                            mulm(powm(SM_GENERATOR, r), powm(me.g2, me.secret)), v)
<1> DEFINE a == powm(Gen(u), n)
           b == mulm(powm(SM_GENERATOR, n), powm(Gen(w), n))
           c == Hash(v, a, b)
<1>1. c \in Nat
  <2>1. Gen(u) \in Nat /\ Gen(w) \in Nat
    BY Gens
  <2>2. a \in Residues /\ powm(SM_GENERATOR, n) \in Nat /\ powm(Gen(w), n) \in Nat
    BY <2>1, GroupConstants, Powers
  <2>3. b \in Residues
    BY <2>2, Products
  <2> QED BY <2>2, <2>3, Hashes
<1>2. proof_equal_coords(me, r, v, n)
        = [c |-> c, d1 |-> Hidden(n, r, c), d2 |-> Hidden(n, me.secret, c)]
  BY DEF proof_equal_coords
<1>3. c = Hash(v, a, b)
  OBVIOUS
<1>4. mulm(powm(Gen(u), Hidden(n, r, c)), powm(powm(Gen(u), r), c)) = a
  <2> HIDE DEF c
  <2> QED BY <1>1, Shown
<1>5. mulm(powm(mulm(Gen(r), powm(Gen(w), me.secret)), c),
           mulm(powm(SM_GENERATOR, Hidden(n, r, c)), powm(Gen(w), Hidden(n, me.secret, c)))) = b
  <2> HIDE DEF c
  <2> QED BY <1>1, CoordsShown
<1> HIDE DEF a, b, c
<1> QED BY <1>2, <1>3, <1>4, <1>5 DEF check_equal_coords, Gen

LEMMA LogsAreProved ==
  ASSUME NEW me, NEW other, NEW i \in Nat, NEW n \in Nat, NEW v \in 1 .. 8, me.x3 \in Nat,
         me.qab = Gen(i), other.qab = Gen(i), other.g3o = Gen(me.x3)
  PROVE  check_equal_logs(other, proof_equal_logs(me, v, n), powm(me.qab, me.x3), v)
<1> DEFINE a == powm(SM_GENERATOR, n)
           b == powm(Gen(i), n)
           c == Hash(v, a, b)
<1>1. c \in Nat
  <2>1. a \in Residues /\ b \in Residues
    BY GroupConstants, Powers, Gens
  <2> QED BY <2>1, Hashes
<1>2. proof_equal_logs(me, v, n) = [c |-> c, d |-> Hidden(n, me.x3, c)]
  BY DEF proof_equal_logs
<1>3. c = Hash(v, a, b)
  OBVIOUS
<1>4. mulm(powm(SM_GENERATOR, Hidden(n, me.x3, c)), powm(Gen(me.x3), c)) = a
  <2> HIDE DEF c
  <2> QED BY <1>1, LogShown
<1>5. mulm(powm(Gen(i), Hidden(n, me.x3, c)), powm(powm(Gen(i), me.x3), c)) = b
  <2> HIDE DEF c
  <2> QED BY <1>1, Shown
<1> HIDE DEF a, b, c
<1> QED BY <1>2, <1>3, <1>4, <1>5 DEF check_equal_logs

\* THE INVARIANT

PinMembers(me) ==
  me \in [secret : 0 .. SM_ORDER - 1, x2 : Nat, x3 : Nat, g2 : Residues, g3 : Residues, g3o : Residues,
          p : Residues, q : Residues, pab : Residues, qab : Residues]

\* The halves of this side were in range.
Lucky(me) == Gen(me.x2) # 1 /\ Gen(me.x3) # 1

\* This side has combined the other's halves with its own.
Received(me, other) ==
  /\ me.g2 = Gen(other.x2 * me.x2) /\ me.g3 = Gen(other.x3 * me.x3)
  /\ me.g3o = Gen(other.x3)

Committed(me, r) ==
  /\ me.p = powm(me.g3, r)
  /\ me.q = mulm(powm(SM_GENERATOR, r), powm(me.g2, me.secret))

\* What is on its way before each step.
SecondLetter(me, r, n) ==
  [half |-> Halves(me, 3, n), p |-> me.p, q |-> me.q, eq |-> proof_equal_coords(me, r, 5, n)]

ThirdLetter(me, r, n) ==
  [p |-> me.p, q |-> me.q, eq |-> proof_equal_coords(me, r, 6, n),
   r |-> powm(me.qab, me.x3), log |-> proof_equal_logs(me, 7, n)]

LastLetter(me, n) ==
  [r |-> powm(me.qab, me.x3), log |-> proof_equal_logs(me, 8, n)]

Turns == {"step1", "step2a", "step2b", "step3", "step4", "step5", "end"}

VerdictOK == /\ turn \in Turns
             /\ verdict \in [{"alice", "bob"} -> {"none", "match", "differ", "cheated"}]
             /\ turn # "end" => verdict["alice"] = "none"
             /\ turn \notin {"step5", "end"} => verdict["bob"] = "none"

AtStep2a == \E n \in Nonces : letter = Halves(alice, 1, n)

AtStep2b == Lucky(alice) /\ Received(bob, alice)

AtStep3 == /\ Lucky(alice) /\ Received(bob, alice)
           /\ \E r \in Exponents, n \in Nonces :
                Committed(bob, r) /\ letter = SecondLetter(bob, r, n)

BothReceived == /\ Lucky(alice) /\ Lucky(bob)
                /\ Received(alice, bob) /\ Received(bob, alice)

Quotients(me) ==
  /\ me.pab = mulm(alice.p, invm(bob.p)) /\ me.qab = mulm(alice.q, invm(bob.q))

AtStep4 == /\ BothReceived /\ Quotients(alice)
           /\ \E ra, rb \in Exponents, n \in Nonces :
                /\ Committed(alice, ra) /\ Committed(bob, rb)
                /\ letter = ThirdLetter(alice, ra, n)

AtStep5 == /\ BothReceived /\ Quotients(alice) /\ Quotients(bob)
           /\ \E ra, rb \in Exponents : Committed(alice, ra) /\ Committed(bob, rb)
           /\ \E n \in Nonces : letter = LastLetter(bob, n)

PinInv ==
  /\ PinMembers(alice) /\ PinMembers(bob) /\ VerdictOK
  /\ turn = "step2a" => AtStep2a
  /\ turn = "step2b" => AtStep2b
  /\ turn = "step3"  => AtStep3
  /\ turn = "step4"  => AtStep4
  /\ turn = "step5"  => AtStep5
  /\ PinsCompared

\* ITS STEPS

LEMMA Drawings ==
  /\ Exponents \subseteq Nat /\ Nonces \subseteq Nat
  /\ SecretNumbers \subseteq 0 .. SM_ORDER - 1
  /\ Unset \in Residues /\ Unset \in 0 .. SM_ORDER - 1 /\ Unset \in Nat
BY PinCheckAssumption, GroupConstants DEF Unset, Residues

LEMMA ResetMembers == PinMembers(Reset)
BY Drawings DEF PinMembers, Reset

\* A number in range is not 1.
LEMMA InRangeNotOne ==
  ASSUME NEW g, GroupElem(g)
  PROVE  g # 1
BY DEF GroupElem

\* Combining the halves of the other.
LEMMA Combining ==
  ASSUME NEW me, PinMembers(me), NEW other, other.x2 \in Nat, other.x3 \in Nat,
         NEW m, m.g2 = Gen(other.x2), m.g3 = Gen(other.x3)
  PROVE  /\ PinMembers(Combine(me, m)) /\ Received(Combine(me, m), other)
         /\ Combine(me, m).secret = me.secret
         /\ Combine(me, m).x2 = me.x2 /\ Combine(me, m).x3 = me.x3
<1>1. me.x2 \in Nat /\ me.x3 \in Nat
  BY DEF PinMembers
<1>2. powm(m.g2, me.x2) = Gen(other.x2 * me.x2) /\ powm(m.g3, me.x3) = Gen(other.x3 * me.x3)
  <2>1. powm(Gen(other.x2), me.x2) = Gen(other.x2 * me.x2)
    BY <1>1, Gens
  <2>2. powm(Gen(other.x3), me.x3) = Gen(other.x3 * me.x3)
    BY <1>1, Gens
  <2> QED BY <2>1, <2>2
<1>3. other.x2 * me.x2 \in Nat /\ other.x3 * me.x3 \in Nat
  BY <1>1
<1>4. powm(m.g2, me.x2) \in Residues /\ powm(m.g3, me.x3) \in Residues /\ m.g3 \in Residues
  BY <1>2, <1>3, Gens
<1>5. Combine(me, m) = [me EXCEPT !.g2 = powm(m.g2, me.x2), !.g3 = powm(m.g3, me.x3),
                                  !.g3o = m.g3]
  BY DEF Combine
<1> DEFINE a == powm(m.g2, me.x2)
           b == powm(m.g3, me.x3)
<1> HIDE DEF a, b
<1>6. PinMembers([me EXCEPT !.g2 = a, !.g3 = b, !.g3o = m.g3])
  BY <1>4 DEF PinMembers, a, b
<1>7. LET c == [me EXCEPT !.g2 = a, !.g3 = b, !.g3o = m.g3] IN
      /\ c.g2 = a /\ c.g3 = b /\ c.g3o = m.g3
      /\ c.secret = me.secret /\ c.x2 = me.x2 /\ c.x3 = me.x3
  BY DEF PinMembers
<1> QED BY <1>2, <1>5, <1>6, <1>7 DEF Received, a, b

\* Committing oneself.
LEMMA Committing ==
  ASSUME NEW me, PinMembers(me), NEW r \in Nat
  PROVE  /\ PinMembers(Commit(me, r)) /\ Committed(Commit(me, r), r)
         /\ \A f \in {"secret", "x2", "x3", "g2", "g3", "g3o"} : Commit(me, r)[f] = me[f]
<1> DEFINE a == powm(me.g3, r)
           b == mulm(powm(SM_GENERATOR, r), powm(me.g2, me.secret))
<1>1. me.g2 \in Nat /\ me.g3 \in Nat /\ me.secret \in Nat /\ SM_GENERATOR \in Nat
  BY GroupConstants DEF PinMembers, Residues
<1>2. a \in Residues /\ powm(SM_GENERATOR, r) \in Int /\ powm(me.g2, me.secret) \in Int
  <2>1. powm(me.g3, r) \in Residues
    BY <1>1, Powers
  <2>2. powm(SM_GENERATOR, r) \in Nat
    BY <1>1, Powers
  <2>3. powm(me.g2, me.secret) \in Nat
    BY <1>1, Powers
  <2> QED BY <2>1, <2>2, <2>3
<1>3. b \in Residues
  BY <1>2, Products
<1>4. Commit(me, r) = [me EXCEPT !.p = a, !.q = b]
  BY DEF Commit
<1>5. a = powm(me.g3, r) /\ b = mulm(powm(SM_GENERATOR, r), powm(me.g2, me.secret))
  OBVIOUS
<1> HIDE DEF a, b
<1>6. PinMembers([me EXCEPT !.p = a, !.q = b])
  BY <1>2, <1>3 DEF PinMembers
<1>7. LET c == [me EXCEPT !.p = a, !.q = b] IN
      /\ c.p = a /\ c.q = b
      /\ \A f \in {"secret", "x2", "x3", "g2", "g3", "g3o"} : c[f] = me[f]
  BY DEF PinMembers
<1> QED BY <1>4, <1>5, <1>6, <1>7 DEF Committed

\* Comparing what both have committed themselves to.
LEMMA Comparing ==
  ASSUME NEW me, PinMembers(me), NEW p1 \in Residues, NEW q1 \in Residues, NEW p2, NEW q2,
         NEW a \in Nat, p2 = Gen(a), NEW b \in Nat, q2 = Gen(b)
  PROVE  /\ PinMembers(Compare(me, p1, q1, p2, q2))
         /\ Compare(me, p1, q1, p2, q2).pab = mulm(p1, invm(p2))
         /\ Compare(me, p1, q1, p2, q2).qab = mulm(q1, invm(q2))
         /\ \A f \in {"secret", "x2", "x3", "g2", "g3", "g3o", "p", "q"} :
              Compare(me, p1, q1, p2, q2)[f] = me[f]
<1> DEFINE x == mulm(p1, invm(p2))
           y == mulm(q1, invm(q2))
<1>1. \A n \in Nat : invm(Gen(n)) \in Nat
  BY Quotient
<1>2. x \in Residues /\ y \in Residues
  <2>1. p1 \in Int /\ q1 \in Int /\ invm(p2) \in Int /\ invm(q2) \in Int
    BY <1>1, GroupConstants DEF Residues
  <2> QED BY <2>1, Products
<1>3. Compare(me, p1, q1, p2, q2) = [me EXCEPT !.pab = x, !.qab = y]
  BY DEF Compare
<1>4. x = mulm(p1, invm(p2)) /\ y = mulm(q1, invm(q2))
  OBVIOUS
<1> HIDE DEF x, y
<1>5. PinMembers([me EXCEPT !.pab = x, !.qab = y])
  BY <1>2 DEF PinMembers
<1>6. LET c == [me EXCEPT !.pab = x, !.qab = y] IN
      /\ c.pab = x /\ c.qab = y
      /\ \A f \in {"secret", "x2", "x3", "g2", "g3", "g3o", "p", "q"} : c[f] = me[f]
  BY DEF PinMembers
<1> QED BY <1>3, <1>4, <1>5, <1>6

\* What the two are compared by: the powers they come to.
LEMMA CommittedTo ==
  ASSUME NEW me, NEW w \in Nat, NEW u \in Nat, NEW r \in Nat, me.secret \in Nat,
         me.g2 = Gen(w), me.g3 = Gen(u), Committed(me, r)
  PROVE  me.p = Gen(u * r) /\ me.q = Gen(r + w * me.secret)
<1>1. u * r \in Nat /\ w * me.secret \in Nat /\ r + w * me.secret \in Nat
  OBVIOUS
<1>2. me.p = Gen(u * r) /\ powm(me.g2, me.secret) = Gen(w * me.secret)
  <2>1. powm(Gen(u), r) = Gen(u * r)
    BY Gens
  <2>2. powm(Gen(w), me.secret) = Gen(w * me.secret)
    BY Gens
  <2> QED BY <2>1, <2>2 DEF Committed
<1>3. mulm(Gen(r), Gen(w * me.secret)) = Gen(r + w * me.secret)
  BY <1>1, Gens
<1> QED BY <1>1, <1>2, <1>3 DEF Committed, Gen

\* What either finds out: whether the secrets are the same.
LEMMA Verdicts ==
  ASSUME NEW a, NEW b, PinMembers(a), PinMembers(b), Lucky(a), Lucky(b),
         Received(a, b), Received(b, a),
         NEW ra \in Nat, NEW rb \in Nat, Committed(a, ra), Committed(b, rb)
  PROVE  LET pab == mulm(a.p, invm(b.p))
             qab == mulm(a.q, invm(b.q))
         IN /\ \E k \in Nat : qab = Gen(k)
            /\ powm(powm(qab, a.x3), b.x3) = pab <=> a.secret = b.secret
            /\ powm(powm(qab, b.x3), a.x3) = pab <=> a.secret = b.secret
<1> DEFINE w == a.x2 * b.x2
           u == a.x3 * b.x3
           l == SM_ORDER - 1
           sa == a.secret
           sb == b.secret
           k == (ra + w * sa) + (rb + w * sb) * l
           j == u * ra + (u * rb) * l
           pab == mulm(a.p, invm(b.p))
           qab == mulm(a.q, invm(b.q))
<1>1. /\ a.x2 \in Nat /\ a.x3 \in Nat /\ b.x2 \in Nat /\ b.x3 \in Nat
      /\ sa \in 0 .. SM_ORDER - 1 /\ sb \in 0 .. SM_ORDER - 1 /\ sa \in Nat /\ sb \in Nat
  BY DEF PinMembers
<1>2. w \in Nat /\ u \in Nat /\ b.x2 * a.x2 = w /\ b.x3 * a.x3 = u
  BY <1>1
<1>3. Gen(w) # 1 /\ Gen(u) # 1
  <2>1. ASSUME NEW x \in Nat, NEW y \in Nat, Gen(x) # 1, Gen(y) # 1
        PROVE  Gen(x * y) # 1
    <3>1. x % SM_ORDER # 0 /\ y % SM_ORDER # 0 /\ x * y \in Nat
      BY <2>1, OneIs
    <3>2. (x * y) % SM_ORDER # 0
      BY <3>1, NoDivisor
    <3> QED BY <3>1, <3>2, OneIs
  <2> QED BY <1>1, <2>1 DEF Lucky
<1>4. a.g2 = Gen(w) /\ b.g2 = Gen(w) /\ a.g3 = Gen(u) /\ b.g3 = Gen(u)
  BY <1>2 DEF Received
<1> HIDE DEF w, u
<1>5. a.p = Gen(u * ra) /\ a.q = Gen(ra + w * sa) /\ u * ra \in Nat /\ ra + w * sa \in Nat
  <2>1. a.secret \in Nat /\ a.g2 = Gen(w) /\ a.g3 = Gen(u) /\ w \in Nat /\ u \in Nat
    BY <1>1, <1>2, <1>4
  <2>2. a.p = Gen(u * ra) /\ a.q = Gen(ra + w * a.secret)
    BY <2>1, CommittedTo, Z3
  <2>3. u * ra \in Nat /\ ra + w * a.secret \in Nat
    BY <2>1
  <2> QED BY <2>2, <2>3
<1>6. b.p = Gen(u * rb) /\ b.q = Gen(rb + w * sb) /\ u * rb \in Nat /\ rb + w * sb \in Nat
  <2>1. b.secret \in Nat /\ b.g2 = Gen(w) /\ b.g3 = Gen(u) /\ w \in Nat /\ u \in Nat
    BY <1>1, <1>2, <1>4
  <2>2. b.p = Gen(u * rb) /\ b.q = Gen(rb + w * b.secret)
    BY <2>1, CommittedTo, Z3
  <2>3. u * rb \in Nat /\ rb + w * b.secret \in Nat
    BY <2>1
  <2> QED BY <2>2, <2>3
<1>7. pab = Gen(j) /\ qab = Gen(k)
  <2>1. mulm(Gen(u * ra), invm(Gen(u * rb))) = Gen(j)
    BY <1>5, <1>6, Quotient
  <2>2. mulm(Gen(ra + w * sa), invm(Gen(rb + w * sb))) = Gen(k)
    BY <1>5, <1>6, Quotient
  <2> QED BY <1>5, <1>6, <2>1, <2>2
<1>8. j \in Nat /\ k \in Nat
  <2>1. (u * rb) * l \in Nat /\ (rb + w * sb) * l \in Nat
    BY <1>6, Quotient
  <2> QED BY <1>5, <2>1
<1>9. Gen(k * u) = Gen(j) <=> sa = sb
  <2>1. /\ sa \in 0 .. SM_ORDER - 1 /\ sb \in 0 .. SM_ORDER - 1
        /\ w \in Nat /\ u \in Nat /\ Gen(w) # 1 /\ Gen(u) # 1
    BY <1>1, <1>2, <1>3
  <2> HIDE DEF sa, sb
  <2>2. Gen(FoundOut(ra, rb, w, u, sa, sb)) = Gen(Expected(ra, rb, u)) <=> sa = sb
    BY <2>1, Compared
  <2> QED BY <2>2 DEF FoundOut, Expected
<1> HIDE DEF k, j, pab, qab, sa, sb
<1>10. ASSUME NEW x \in Nat, NEW y \in Nat, x * y = u
       PROVE  powm(powm(Gen(k), x), y) = Gen(k * u)
  <2>1. k * x \in Nat /\ (k * x) * y = k * u
    <3>1. (k * x) * y = k * (x * y)
      BY <1>8
    <3> QED BY <1>8, <1>10, <3>1
  <2>2. powm(Gen(k), x) = Gen(k * x) /\ powm(Gen(k * x), y) = Gen((k * x) * y)
    BY <1>8, <2>1, Gens
  <2> QED BY <2>1, <2>2
<1>11. powm(powm(qab, a.x3), b.x3) = Gen(k * u) /\ powm(powm(qab, b.x3), a.x3) = Gen(k * u)
  <2>1. a.x3 * b.x3 = u
    BY DEF u
  <2> QED BY <1>1, <1>2, <1>7, <1>10, <2>1
<1>12. (powm(powm(qab, a.x3), b.x3) = pab <=> sa = sb)
       /\ (powm(powm(qab, b.x3), a.x3) = pab <=> sa = sb)
  BY <1>7, <1>9, <1>11
<1> QED BY <1>7, <1>8, <1>12 DEF pab, qab, sa, sb

\* Until a verdict there is nothing to compare.
LEMMA NoVerdict ==
  ASSUME PinInv, verdict' = verdict, turn # "end", turn # "step5"
  PROVE  PinsCompared' /\ verdict'["alice"] = "none" /\ verdict'["bob"] = "none"
<1>1. verdict["alice"] = "none" /\ verdict["bob"] = "none"
  BY DEF PinInv, VerdictOK, Turns
<1> QED BY <1>1 DEF PinsCompared

\* Nobody gives up over a message that is in range.
LEMMA GivenUp ==
  ASSUME PinInv, turn # "end", turn # "step5", NEW who \in {"alice", "bob"}, Cheated(who),
         ~InRange(letter)
  PROVE  PinInv'
<1>1. /\ verdict["alice"] = "none" /\ verdict["bob"] = "none"
      /\ verdict \in [{"alice", "bob"} -> {"none", "match", "differ", "cheated"}]
  BY DEF PinInv, VerdictOK, Turns
<1>2. verdict' = [verdict EXCEPT ![who] = "cheated"] /\ turn' = "end"
      /\ alice' = alice /\ bob' = bob /\ letter' = letter
  BY DEF Cheated
<1>3. VerdictOK'
  BY <1>1, <1>2 DEF VerdictOK, Turns
<1>4. PinsCompared'
  <2>1. InRange(letter)' = InRange(letter)
    BY <1>2 DEF InRange
  <2>2. \A x \in {"alice", "bob"} : verdict'[x] \in {"none", "cheated"}
    BY <1>1, <1>2
  <2> QED BY <2>1, <2>2 DEF PinsCompared
<1>5. PinMembers(alice') /\ PinMembers(bob')
  BY <1>2 DEF PinInv
<1> QED BY <1>2, <1>3, <1>4, <1>5 DEF PinInv

LEMMA Step1Kept ==
  ASSUME PinInv, step1
  PROVE  PinInv'
<1>1. PICK s \in SecretNumbers, x2 \in Exponents, x3 \in Exponents, n \in Nonces :
        /\ alice' = [Reset EXCEPT !.secret = s, !.x2 = x2, !.x3 = x3]
        /\ letter' = Halves(alice', 1, n)
  BY DEF step1
<1>2. turn = "step1" /\ turn' = "step2a" /\ bob' = bob /\ verdict' = verdict
  BY DEF step1
<1>3. PinMembers(alice')
  <2>1. s \in 0 .. SM_ORDER - 1 /\ x2 \in Nat /\ x3 \in Nat
    BY Drawings
  <2>2. PinMembers([Reset EXCEPT !.secret = s, !.x2 = x2, !.x3 = x3])
    BY <2>1, ResetMembers DEF PinMembers
  <2> QED BY <1>1, <2>2
<1>4. PinMembers(bob')
  BY <1>2 DEF PinInv
<1>5. PinsCompared' /\ verdict'["alice"] = "none" /\ verdict'["bob"] = "none"
  BY <1>2, NoVerdict
<1>6. VerdictOK'
  BY <1>2, <1>5 DEF VerdictOK, Turns, PinInv
<1>7. AtStep2a'
  BY <1>1 DEF AtStep2a
<1> QED BY <1>2, <1>3, <1>4, <1>5, <1>6, <1>7 DEF PinInv

LEMMA Step2aKept ==
  ASSUME PinInv, step2a
  PROVE  PinInv'
<1>1. turn = "step2a" /\ PinMembers(alice) /\ PinMembers(bob) /\ VerdictOK
  BY DEF PinInv, step2a
<1>2. PICK n \in Nonces : letter = Halves(alice, 1, n)
  BY <1>1 DEF PinInv, AtStep2a
<1>3. alice.x2 \in Nat /\ alice.x3 \in Nat /\ n \in Nat
  BY <1>1, Drawings DEF PinMembers
<1>4. HalvesProved(letter, 1) /\ letter.g2 = Gen(alice.x2) /\ letter.g3 = Gen(alice.x3)
  BY <1>2, <1>3, HalvesAreProved
<1>5. CASE ~HalvesInRange(letter) /\ Cheated("bob")
  <2>1. "k2" \in DOMAIN letter
    BY <1>2 DEF Halves
  <2>2. ~InRange(letter)
    BY <1>5, <2>1 DEF InRange
  <2> QED BY <1>1, <1>5, <2>2, GivenUp
<1>6. CASE /\ HalvesInRange(letter) /\ turn' = "step2b"
           /\ \E x2, x3 \in Exponents :
                bob' = Combine([Reset EXCEPT !.x2 = x2, !.x3 = x3], letter)
           /\ UNCHANGED <<alice, letter, verdict>>
  <2>1. PICK x2 \in Exponents, x3 \in Exponents :
          bob' = Combine([Reset EXCEPT !.x2 = x2, !.x3 = x3], letter)
    BY <1>6
  <2>2. alice' = alice /\ letter' = letter /\ verdict' = verdict /\ turn' = "step2b"
    BY <1>6
  <2> DEFINE me == [Reset EXCEPT !.x2 = x2, !.x3 = x3]
  <2>3. PinMembers(me)
    <3>1. x2 \in Nat /\ x3 \in Nat
      BY Drawings
    <3> QED BY <3>1, ResetMembers DEF PinMembers
  <2> HIDE DEF me
  <2>4. PinMembers(Combine(me, letter)) /\ Received(Combine(me, letter), alice)
    BY <1>3, <1>4, <2>3, Combining
  <2>5. PinMembers(bob') /\ Received(bob', alice') /\ PinMembers(alice')
    BY <1>1, <2>1, <2>2, <2>4 DEF me
  <2>6. Lucky(alice')
    <3>1. GroupElem(letter.g2) /\ GroupElem(letter.g3)
      BY <1>6 DEF HalvesInRange
    <3> QED BY <1>4, <2>2, <3>1, InRangeNotOne DEF Lucky
  <2>7. PinsCompared' /\ verdict'["alice"] = "none" /\ verdict'["bob"] = "none"
    BY <1>1, <2>2, NoVerdict
  <2>8. VerdictOK'
    BY <1>1, <2>2, <2>7 DEF VerdictOK, Turns
  <2> QED BY <2>2, <2>5, <2>6, <2>7, <2>8 DEF PinInv, AtStep2b
<1> QED BY <1>4, <1>5, <1>6 DEF step2a

LEMMA Step2bKept ==
  ASSUME PinInv, step2b
  PROVE  PinInv'
<1>1. /\ turn = "step2b" /\ PinMembers(alice) /\ PinMembers(bob) /\ VerdictOK
      /\ Lucky(alice) /\ Received(bob, alice)
  BY DEF PinInv, step2b, AtStep2b
<1>2. turn' = "step3" /\ alice' = alice /\ verdict' = verdict
  BY DEF step2b
<1>3. PICK s \in SecretNumbers, r \in Exponents, n \in Nonces :
        /\ bob' = Commit([bob EXCEPT !.secret = s], r)
        /\ letter' = SecondLetter(bob', r, n)
  BY DEF step2b, SecondLetter
<1> DEFINE me == [bob EXCEPT !.secret = s]
<1>4. /\ PinMembers(me) /\ me.g2 = bob.g2 /\ me.g3 = bob.g3 /\ me.g3o = bob.g3o
      /\ me.x2 = bob.x2 /\ me.x3 = bob.x3
  BY <1>1, Drawings DEF PinMembers
<1> HIDE DEF me
<1>5. bob' = Commit(me, r) /\ r \in Nat
  BY <1>3, Drawings DEF me
<1>6. /\ PinMembers(bob') /\ Committed(bob', r)
      /\ \A f \in {"secret", "x2", "x3", "g2", "g3", "g3o"} : bob'[f] = me[f]
  BY <1>4, <1>5, Committing
<1>7. Received(bob', alice') /\ Lucky(alice') /\ PinMembers(alice')
  BY <1>1, <1>2, <1>4, <1>6 DEF Received
<1>8. PinsCompared' /\ verdict'["alice"] = "none" /\ verdict'["bob"] = "none"
  BY <1>1, <1>2, NoVerdict
<1>9. VerdictOK'
  BY <1>1, <1>2, <1>8 DEF VerdictOK, Turns
<1>10. AtStep3'
  BY <1>3, <1>6, <1>7 DEF AtStep3
<1> QED BY <1>2, <1>6, <1>7, <1>8, <1>9, <1>10 DEF PinInv

LEMMA Step3Kept ==
  ASSUME PinInv, step3
  PROVE  PinInv'
<1>1. /\ turn = "step3" /\ PinMembers(alice) /\ PinMembers(bob) /\ VerdictOK
      /\ Lucky(alice) /\ Received(bob, alice)
  BY DEF PinInv, step3, AtStep3
<1>2. PICK rb \in Exponents, n \in Nonces :
        Committed(bob, rb) /\ letter = SecondLetter(bob, rb, n)
  BY <1>1 DEF PinInv, AtStep3
<1>3. /\ letter.half = Halves(bob, 3, n) /\ letter.p = bob.p /\ letter.q = bob.q
      /\ letter.eq = proof_equal_coords(bob, rb, 5, n)
      /\ "half" \in DOMAIN letter /\ "eq" \in DOMAIN letter
  BY <1>2 DEF SecondLetter
<1>4. /\ alice.x2 \in Nat /\ alice.x3 \in Nat /\ bob.x2 \in Nat /\ bob.x3 \in Nat
      /\ alice.secret \in Nat /\ bob.secret \in Nat /\ bob.p \in Residues /\ bob.q \in Residues
      /\ rb \in Nat /\ n \in Nat
  BY <1>1, Drawings DEF PinMembers
<1> DEFINE w == alice.x2 * bob.x2
           u == alice.x3 * bob.x3
           me == Combine(alice, letter.half)
<1>5. w \in Nat /\ u \in Nat /\ w = bob.x2 * alice.x2 /\ u = bob.x3 * alice.x3
  BY <1>4
<1>6. HalvesProved(letter.half, 3) /\ letter.half.g2 = Gen(bob.x2)
      /\ letter.half.g3 = Gen(bob.x3)
  BY <1>3, <1>4, HalvesAreProved
<1>7. /\ PinMembers(me) /\ Received(me, bob)
      /\ me.secret = alice.secret /\ me.x2 = alice.x2 /\ me.x3 = alice.x3
  BY <1>1, <1>4, <1>6, Combining
<1>8. bob.g2 = Gen(w) /\ bob.g3 = Gen(u)
  BY <1>1 DEF Received
<1> HIDE DEF me
<1>9. me.g2 = Gen(w) /\ me.g3 = Gen(u)
  BY <1>5, <1>7 DEF Received
<1> HIDE DEF w, u
<1>10. check_equal_coords(me, letter.eq, letter.p, letter.q, 5)
  <2>1. 5 \in 1 .. 8
    OBVIOUS
  <2>2. check_equal_coords(me, proof_equal_coords(bob, rb, 5, n), powm(bob.g3, rb),
                           mulm(powm(SM_GENERATOR, rb), powm(bob.g2, bob.secret)), 5)
    BY <1>4, <1>5, <1>8, <1>9, <2>1, CoordsAreProved
  <2> QED BY <1>2, <1>3, <2>2 DEF Committed
<1>11. ASSUME ~Proved2(letter), Cheated("alice")
       PROVE  PinInv'
  <2>1. ~HalvesInRange(letter.half) \/ ~CoordsInRange(letter)
    BY <1>6, <1>10, <1>11 DEF Proved2, me
  <2>2. ~InRange(letter)
    BY <1>3, <2>1 DEF InRange
  <2> QED BY <1>1, <1>11, <2>2, GivenUp
<1>12. ASSUME Proved2(letter), turn' = "step4", bob' = bob, verdict' = verdict,
              NEW r \in Exponents, NEW m \in Nonces,
              LET half == Commit(me, r)
                  al   == Compare(half, half.p, half.q, letter.p, letter.q)
              IN  alice' = al /\ letter' = ThirdLetter(al, r, m)
       PROVE  PinInv'
  <2> DEFINE half == Commit(me, r)
  <2>1. r \in Nat
    BY Drawings
  <2>2. /\ PinMembers(half) /\ Committed(half, r)
        /\ \A f \in {"secret", "x2", "x3", "g2", "g3", "g3o"} : half[f] = me[f]
    BY <1>7, <2>1, Committing
  <2>3. alice' = Compare(half, half.p, half.q, bob.p, bob.q)
        /\ letter' = ThirdLetter(alice', r, m)
    BY <1>3, <1>12
  <2> HIDE DEF half
  <2>4. half.p \in Residues /\ half.q \in Residues
    BY <2>2 DEF PinMembers
  <2>5. bob.p = Gen(u * rb) /\ bob.q = Gen(rb + w * bob.secret)
    <3>1. /\ w \in Nat /\ u \in Nat /\ rb \in Nat /\ bob.secret \in Nat
          /\ bob.g2 = Gen(w) /\ bob.g3 = Gen(u) /\ Committed(bob, rb)
      BY <1>2, <1>4, <1>5, <1>8
    <3> QED BY <3>1, CommittedTo, Z3
  <2>6. u * rb \in Nat /\ rb + w * bob.secret \in Nat
    BY <1>4, <1>5
  <2>7. /\ PinMembers(alice')
        /\ alice'.pab = mulm(half.p, invm(bob.p)) /\ alice'.qab = mulm(half.q, invm(bob.q))
        /\ \A f \in {"secret", "x2", "x3", "g2", "g3", "g3o", "p", "q"} : alice'[f] = half[f]
    BY <2>2, <2>3, <2>4, <2>5, <2>6, Comparing
  <2>8. /\ alice'.x2 = alice.x2 /\ alice'.x3 = alice.x3 /\ alice'.secret = alice.secret
        /\ alice'.g2 = me.g2 /\ alice'.g3 = me.g3 /\ alice'.g3o = me.g3o
        /\ alice'.p = half.p /\ alice'.q = half.q /\ half.g2 = me.g2 /\ half.g3 = me.g3
        /\ half.secret = alice.secret
    BY <1>7, <2>2, <2>7
  <2>9. Committed(alice', r) /\ Committed(bob', rb)
    BY <1>2, <1>12, <2>2, <2>8 DEF Committed
  <2>10. Lucky(bob')
    <3>1. GroupElem(letter.half.g2) /\ GroupElem(letter.half.g3)
      BY <1>12 DEF Proved2, HalvesInRange
    <3> QED BY <1>6, <1>12, <3>1, InRangeNotOne DEF Lucky
  <2>11. Lucky(alice') /\ Received(alice', bob') /\ Received(bob', alice')
    BY <1>1, <1>7, <1>12, <2>8 DEF Lucky, Received
  <2>12. BothReceived'
    BY <2>10, <2>11 DEF BothReceived
  <2>13. Quotients(alice)'
    BY <1>12, <2>7, <2>8 DEF Quotients
  <2>14. AtStep4'
    BY <2>3, <2>9, <2>12, <2>13 DEF AtStep4
  <2>15. PinsCompared' /\ verdict'["alice"] = "none" /\ verdict'["bob"] = "none"
    BY <1>1, <1>12, NoVerdict
  <2>16. VerdictOK'
    BY <1>1, <1>12, <2>15 DEF VerdictOK, Turns
  <2>17. PinMembers(bob')
    BY <1>1, <1>12
  <2> QED BY <1>12, <2>7, <2>14, <2>15, <2>16, <2>17 DEF PinInv
<1> QED BY <1>11, <1>12 DEF step3, me, ThirdLetter

LEMMA Step4Kept ==
  ASSUME PinInv, step4
  PROVE  PinInv'
<1>1. /\ turn = "step4" /\ PinMembers(alice) /\ PinMembers(bob) /\ VerdictOK
      /\ BothReceived /\ Quotients(alice)
  BY DEF PinInv, step4, AtStep4
<1>2. PICK ra \in Exponents, rb \in Exponents, n \in Nonces :
        /\ Committed(alice, ra) /\ Committed(bob, rb) /\ letter = ThirdLetter(alice, ra, n)
  BY <1>1 DEF PinInv, AtStep4
<1>3. /\ letter.p = alice.p /\ letter.q = alice.q
      /\ letter.eq = proof_equal_coords(alice, ra, 6, n)
      /\ letter.r = powm(alice.qab, alice.x3) /\ letter.log = proof_equal_logs(alice, 7, n)
      /\ "log" \in DOMAIN letter /\ "eq" \in DOMAIN letter
  BY <1>2 DEF ThirdLetter
<1>4. /\ alice.x2 \in Nat /\ alice.x3 \in Nat /\ bob.x2 \in Nat /\ bob.x3 \in Nat
      /\ alice.secret \in Nat /\ bob.secret \in Nat /\ alice.p \in Residues /\ alice.q \in Residues
      /\ ra \in Nat /\ rb \in Nat /\ n \in Nat
  BY <1>1, <1>2, Drawings DEF PinMembers
<1> DEFINE w == bob.x2 * alice.x2
           u == bob.x3 * alice.x3
           me == Compare(bob, letter.p, letter.q, bob.p, bob.q)
<1>5. w \in Nat /\ u \in Nat /\ alice.x2 * bob.x2 = w /\ alice.x3 * bob.x3 = u
  BY <1>4
<1>6. /\ alice.g2 = Gen(w) /\ alice.g3 = Gen(u) /\ bob.g2 = Gen(w) /\ bob.g3 = Gen(u)
      /\ bob.g3o = Gen(alice.x3)
  BY <1>1, <1>5 DEF BothReceived, Received
<1> HIDE DEF w, u
<1>7. bob.p = Gen(u * rb) /\ bob.q = Gen(rb + w * bob.secret)
  <2>1. /\ w \in Nat /\ u \in Nat /\ rb \in Nat /\ bob.secret \in Nat
        /\ bob.g2 = Gen(w) /\ bob.g3 = Gen(u) /\ Committed(bob, rb)
    BY <1>2, <1>4, <1>5, <1>6
  <2> QED BY <2>1, CommittedTo, Z3
<1>8. u * rb \in Nat /\ rb + w * bob.secret \in Nat
  BY <1>4, <1>5
<1>9. /\ PinMembers(me)
      /\ me.pab = mulm(alice.p, invm(bob.p)) /\ me.qab = mulm(alice.q, invm(bob.q))
      /\ \A f \in {"secret", "x2", "x3", "g2", "g3", "g3o", "p", "q"} : me[f] = bob[f]
  BY <1>1, <1>3, <1>4, <1>7, <1>8, Comparing
<1>10. me.pab = alice.pab /\ me.qab = alice.qab
  BY <1>1, <1>9 DEF Quotients
<1> HIDE DEF me
<1>11. /\ \E k \in Nat : alice.qab = Gen(k)
       /\ powm(powm(alice.qab, alice.x3), bob.x3) = alice.pab <=> alice.secret = bob.secret
  <2>1. Lucky(alice) /\ Lucky(bob) /\ Received(alice, bob) /\ Received(bob, alice)
    BY <1>1 DEF BothReceived
  <2> DEFINE pab == mulm(alice.p, invm(bob.p))
             qab == mulm(alice.q, invm(bob.q))
  <2>2. /\ \E k \in Nat : qab = Gen(k)
        /\ powm(powm(qab, alice.x3), bob.x3) = pab <=> alice.secret = bob.secret
    BY <1>1, <1>2, <1>4, <2>1, Verdicts
  <2>3. alice.pab = pab /\ alice.qab = qab
    BY <1>1 DEF Quotients
  <2> QED BY <2>2, <2>3
<1>12. check_equal_coords(bob, letter.eq, letter.p, letter.q, 6)
  <2>1. 6 \in 1 .. 8
    OBVIOUS
  <2>2. check_equal_coords(bob, proof_equal_coords(alice, ra, 6, n), powm(alice.g3, ra),
                           mulm(powm(SM_GENERATOR, ra), powm(alice.g2, alice.secret)), 6)
    BY <1>4, <1>5, <1>6, <2>1, CoordsAreProved
  <2> QED BY <1>2, <1>3, <2>2 DEF Committed
<1>13. check_equal_logs(me, letter.log, letter.r, 7)
  <2>1. 7 \in 1 .. 8 /\ me.g3o = Gen(alice.x3)
    BY <1>6, <1>9
  <2>2. PICK k \in Nat : alice.qab = Gen(k)
    BY <1>11
  <2>3. check_equal_logs(me, proof_equal_logs(alice, 7, n), powm(alice.qab, alice.x3), 7)
    BY <1>4, <1>10, <2>1, <2>2, LogsAreProved
  <2> QED BY <1>3, <2>3
<1>14. ASSUME ~(CoordsInRange(letter) /\ LogsInRange(letter)), Cheated("bob")
       PROVE  PinInv'
  <2>1. ~InRange(letter)
    BY <1>3, <1>14 DEF InRange
  <2> QED BY <1>1, <1>14, <2>1, GivenUp
<1>15. ASSUME turn' = "step5", bob' = me, alice' = alice, NEW m \in Nonces,
              letter' = LastLetter(me, m),
              verdict' = [verdict EXCEPT !.bob = Verdict(me, letter.r)]
       PROVE  PinInv'
  <2>1. PinMembers(alice') /\ PinMembers(bob')
    BY <1>1, <1>9, <1>15
  <2>2. /\ bob'.x2 = bob.x2 /\ bob'.x3 = bob.x3 /\ bob'.secret = bob.secret
        /\ bob'.g2 = bob.g2 /\ bob'.g3 = bob.g3 /\ bob'.g3o = bob.g3o
        /\ bob'.p = bob.p /\ bob'.q = bob.q
    BY <1>9, <1>15
  <2>3. BothReceived'
    BY <1>1, <1>15, <2>2 DEF BothReceived, Lucky, Received
  <2>4. Quotients(alice)' /\ Quotients(bob)'
    BY <1>1, <1>9, <1>15, <2>2 DEF Quotients
  <2>5. Committed(alice', ra) /\ Committed(bob', rb)
    BY <1>2, <1>15, <2>2 DEF Committed
  <2>6. AtStep5'
    BY <1>2, <1>15, <2>3, <2>4, <2>5 DEF AtStep5
  <2>7. Verdict(me, letter.r) = IF alice.secret = bob.secret THEN "match" ELSE "differ"
    BY <1>3, <1>9, <1>10, <1>11 DEF Verdict
  <2>8. verdict \in [{"alice", "bob"} -> {"none", "match", "differ", "cheated"}]
        /\ verdict["alice"] = "none"
    BY <1>1 DEF VerdictOK
  <2>9. /\ verdict' \in [{"alice", "bob"} -> {"none", "match", "differ", "cheated"}]
        /\ verdict'["alice"] = "none"
        /\ verdict'["bob"] = IF alice.secret = bob.secret THEN "match" ELSE "differ"
    BY <1>15, <2>7, <2>8
  <2>10. VerdictOK'
    BY <1>15, <2>9 DEF VerdictOK, Turns
  <2>11. PinsCompared'
    BY <1>15, <2>2, <2>9 DEF PinsCompared
  <2> QED BY <1>15, <2>1, <2>6, <2>10, <2>11 DEF PinInv
<1> QED BY <1>12, <1>13, <1>14, <1>15 DEF step4, me, LastLetter

LEMMA Step5Kept ==
  ASSUME PinInv, step5
  PROVE  PinInv'
<1>1. /\ turn = "step5" /\ PinMembers(alice) /\ PinMembers(bob) /\ VerdictOK
      /\ BothReceived /\ Quotients(alice) /\ Quotients(bob)
  BY DEF PinInv, step5, AtStep5
<1>2. PICK ra \in Exponents, rb \in Exponents, n \in Nonces :
        /\ Committed(alice, ra) /\ Committed(bob, rb) /\ letter = LastLetter(bob, n)
  BY <1>1 DEF PinInv, AtStep5
<1>3. /\ letter.r = powm(bob.qab, bob.x3) /\ letter.log = proof_equal_logs(bob, 8, n)
      /\ "log" \in DOMAIN letter
  BY <1>2 DEF LastLetter
<1>4. /\ alice.x3 \in Nat /\ bob.x3 \in Nat /\ ra \in Nat /\ rb \in Nat /\ n \in Nat
  BY <1>1, <1>2, Drawings DEF PinMembers
<1>5. /\ \E k \in Nat : bob.qab = Gen(k)
      /\ powm(powm(bob.qab, bob.x3), alice.x3) = alice.pab <=> alice.secret = bob.secret
      /\ alice.qab = bob.qab
  <2>1. Lucky(alice) /\ Lucky(bob) /\ Received(alice, bob) /\ Received(bob, alice)
    BY <1>1 DEF BothReceived
  <2> DEFINE pab == mulm(alice.p, invm(bob.p))
             qab == mulm(alice.q, invm(bob.q))
  <2>2. /\ \E k \in Nat : qab = Gen(k)
        /\ powm(powm(qab, bob.x3), alice.x3) = pab <=> alice.secret = bob.secret
    BY <1>1, <1>2, <1>4, <2>1, Verdicts
  <2>3. alice.pab = pab /\ bob.qab = qab /\ alice.qab = qab
    BY <1>1 DEF Quotients
  <2> QED BY <2>2, <2>3
<1>6. check_equal_logs(alice, letter.log, letter.r, 8)
  <2>1. 8 \in 1 .. 8 /\ alice.g3o = Gen(bob.x3)
    BY <1>1 DEF BothReceived, Received
  <2>2. PICK k \in Nat : bob.qab = Gen(k)
    BY <1>5
  <2>3. check_equal_logs(alice, proof_equal_logs(bob, 8, n), powm(bob.qab, bob.x3), 8)
    BY <1>4, <1>5, <2>1, <2>2, LogsAreProved
  <2> QED BY <1>3, <2>3
<1>7. /\ verdict \in [{"alice", "bob"} -> {"none", "match", "differ", "cheated"}]
      /\ verdict["alice"] = "none"
  BY <1>1 DEF VerdictOK
<1>8. ASSUME turn' = "end", alice' = alice, bob' = bob, letter' = letter,
             NEW v \in {"match", "differ", "cheated"},
             verdict' = [verdict EXCEPT !.alice = v],
             v = "match" => alice.secret = bob.secret,
             v = "differ" => alice.secret # bob.secret,
             v = "cheated" => ~InRange(letter)
      PROVE  PinInv'
  <2>1. /\ verdict' \in [{"alice", "bob"} -> {"none", "match", "differ", "cheated"}]
        /\ verdict'["alice"] = v /\ verdict'["bob"] = verdict["bob"]
    BY <1>7, <1>8
  <2>2. VerdictOK'
    BY <1>8, <2>1 DEF VerdictOK, Turns
  <2>3. PinsCompared'
    <3>1. PinsCompared
      BY DEF PinInv
    <3>2. InRange(letter)' = InRange(letter)
      BY <1>8 DEF InRange
    <3> QED BY <1>8, <2>1, <3>1, <3>2 DEF PinsCompared
  <2>4. PinMembers(alice') /\ PinMembers(bob')
    BY <1>1, <1>8
  <2> QED BY <1>8, <2>2, <2>3, <2>4 DEF PinInv
<1>9. CASE ~LogsInRange(letter) /\ Cheated("alice")
  <2>1. ~InRange(letter)
    BY <1>3, <1>9 DEF InRange
  <2>2. /\ verdict' = [verdict EXCEPT !["alice"] = "cheated"] /\ turn' = "end"
        /\ alice' = alice /\ bob' = bob /\ letter' = letter
    BY <1>9 DEF Cheated
  <2> QED BY <1>8, <2>1, <2>2
<1>10. CASE /\ turn' = "end" /\ verdict' = [verdict EXCEPT !.alice = Verdict(alice, letter.r)]
            /\ UNCHANGED <<alice, bob, letter>>
  <2>1. Verdict(alice, letter.r) = IF alice.secret = bob.secret THEN "match" ELSE "differ"
    BY <1>3, <1>5 DEF Verdict
  <2> QED BY <1>8, <1>10, <2>1
<1> QED BY <1>6, <1>9, <1>10 DEF step5

LEMMA PinStart == PinInit => PinInv
<1>1. SUFFICES ASSUME PinInit PROVE PinInv
  OBVIOUS
<1>2. PinMembers(alice) /\ PinMembers(bob)
  BY <1>1, ResetMembers DEF PinInit
<1>3. verdict = [alice |-> "none", bob |-> "none"] /\ turn = "step1"
  BY <1>1 DEF PinInit
<1>4. verdict \in [{"alice", "bob"} -> {"none", "match", "differ", "cheated"}]
      /\ verdict["alice"] = "none" /\ verdict["bob"] = "none"
  BY <1>3
<1> QED BY <1>2, <1>3, <1>4 DEF PinInv, VerdictOK, Turns, PinsCompared

LEMMA PinStep == PinInv /\ [PinNext]_pinVars => PinInv'
<1>1. SUFFICES ASSUME PinInv, [PinNext]_pinVars PROVE PinInv'
  OBVIOUS
<1>2. CASE UNCHANGED pinVars
  BY <1>1, <1>2 DEF PinInv, pinVars, PinMembers, VerdictOK, AtStep2a, AtStep2b, AtStep3,
       AtStep4,
     AtStep5, PinsCompared, InRange, BothReceived, Quotients, Lucky, Received, Committed
<1> QED BY <1>1, <1>2, Step1Kept, Step2aKept, Step2bKept, Step3Kept, Step4Kept, Step5Kept
           DEF PinNext

LEMMA PinAlways == PinSpec => []PinInv
BY PinStart, PinStep, PTL DEF PinSpec

\* What either side finds out is whether the PINs are the same, in every group of the
\* kind and for whatever is drawn; nobody who follows the protocol is taken for a cheat
\* but for a number out of range.
THEOREM PinsAreCompared == PinSpec => []PinsCompared
<1>1. PinInv => PinsCompared
  BY DEF PinInv
<1> QED BY <1>1, PinAlways, PTL

\* The types of crypto::smp's members and of the verdicts.
THEOREM PinTypeCorrect == PinSpec => []PinTypeOK
<1>1. PinInv => PinTypeOK
  BY DEF PinInv, PinMembers, VerdictOK, Turns, PinTypeOK, Residues
<1> QED BY <1>1, PinAlways, PTL

-----------------------------------------------------------------------------
\* THE ASSEMBLY OF FRAMES

SetTypes ==
    /\ open \in BOOLEAN /\ described \in BOOLEAN
    /\ sent \in [Streams -> 0..(MaxFrame + 1)]
    /\ current \in [Streams -> ShardSets] /\ next \in [Streams -> ShardSets]
    /\ pushed \in [Streams -> ShardSets]
    /\ newest \in [Streams -> -1..MaxFrame]

\* A set only holds shards of its own frame, none past the frame's last one.
OwnShards(set) ==
    \A shard \in set.shards :
        /\ shard.frame = set.frame /\ shard.idx <= LastShard[set.frame]
        /\ set.frame <= MaxFrame

Gathered == \A s \in Streams : OwnShards(current[s]) /\ OwnShards(next[s])

\* The sets stand at two consecutive frames, and no push has passed them.
PushWindow ==
    \A s \in Streams :
        /\ described => next[s].frame = current[s].frame + 1 /\ current[s].frame >= 0
        /\ 0 \in Decoded =>
            /\ pushed[s].frame >= newest[s] - 1
            /\ open /\ described => newest[s] <= next[s].frame
            /\ open /\ ~described => newest[s] = -1

AssemblyInv == SetTypes /\ Gathered /\ WholeFrames /\ PushWindow

-----------------------------------------------------------------------------
\* Putting a shard of a set's own frame keeps the set typed and its own.
LEMMA PutOwn ==
    ASSUME NEW set \in ShardSets, OwnShards(set),
           NEW f \in 0..MaxFrame, NEW i \in 0..LastShard[f], set.frame = f
    PROVE  LET filled == Put(set, [frame |-> f, idx |-> i])
           IN filled \in ShardSets /\ OwnShards(filled) /\ filled.frame = f
<1> DEFINE shard == [frame |-> f, idx |-> i]
           filled == Put(set, shard)
<1>1. shard \in Shards
  BY FramesAssumption DEF Shards
<1>2. filled.frame = f /\ filled \in ShardSets
  BY <1>1 DEF Put, ShardSets
<1>3. filled.shards \subseteq set.shards \cup {shard}
  BY DEF Put, ShardSets
<1>4. OwnShards(filled)
  BY <1>2, <1>3, FramesAssumption DEF OwnShards
<1>5. QED
  BY <1>2, <1>4

\* A set of its own shards that holds the frame's last shard and is complete
\* is the whole frame.
LEMMA CompleteIsWhole ==
    ASSUME NEW set \in ShardSets, OwnShards(set), Complete(set),
           NEW f \in 0..MaxFrame, set.frame = f,
           [frame |-> f, idx |-> LastShard[f]] \in set.shards
    PROVE  set.shards = {[frame |-> f, idx |-> i] : i \in 0..LastShard[f]}
<1>1. ASSUME NEW i \in 0..LastShard[f]
      PROVE  [frame |-> f, idx |-> i] \in set.shards
  <2>1. PICK shard \in set.shards : shard.idx = i
    BY DEF Complete
  <2>2. shard = [frame |-> f, idx |-> i]
    BY <2>1 DEF OwnShards, ShardSets, Shards
  <2>3. QED
    BY <2>2
<1>2. ASSUME NEW shard \in set.shards
      PROVE  \E i \in 0..LastShard[f] : shard = [frame |-> f, idx |-> i]
  <2>1. shard.idx \in 0..LastShard[f]
    BY FramesAssumption DEF OwnShards, ShardSets, Shards
  <2>2. shard = [frame |-> f, idx |-> shard.idx]
    BY DEF OwnShards, ShardSets, Shards
  <2>3. QED
    BY <2>1, <2>2
<1>3. QED
  BY <1>1, <1>2

\* The shard just put is in the set.
LEMMA PutIsIn ==
    ASSUME NEW set \in ShardSets, NEW shard PROVE shard \in Put(set, shard).shards
  BY DEF Put, ShardSets

\* Storing a shard in the set of its frame, or restarting at it, keeps the
\* invariant.
LEMMA GatherStep ==
    ASSUME AssemblyInv, described, open, UNCHANGED <<open, described, sent>>,
           NEW s \in Decoded, NEW f \in 0..MaxFrame, NEW i \in 0..LastShard[f],
           NEW set \in ShardSets, OwnShards(set), set.frame = f,
           NEW cur \in ShardSets, NEW nxt \in ShardSets,
           OwnShards(cur), OwnShards(nxt), nxt.frame = cur.frame + 1,
           cur.frame >= current[s].frame, f \in {cur.frame, nxt.frame},
           newest[s] <= nxt.frame \/ 0 \notin Decoded,
           LET filled == Put(set, [frame |-> f, idx |-> i])
           IN IF HasTiming([frame |-> f, idx |-> i]) /\ Complete(filled)
              THEN PushFrame(s, filled) ELSE UNCHANGED <<pushed, newest>>,
           current' = [current EXCEPT ![s] = cur],
           next' = [next EXCEPT ![s] = nxt]
    PROVE  AssemblyInv'
<1> DEFINE shard == [frame |-> f, idx |-> i]
           filled == Put(set, shard)
<1>0. s \in Streams /\ SetTypes /\ Gathered /\ WholeFrames /\ PushWindow
  BY DEF Decoded, AssemblyInv
<1>1. filled \in ShardSets /\ OwnShards(filled) /\ filled.frame = f
  BY PutOwn
<1>2. CASE HasTiming(shard) /\ Complete(filled)
  <2>1. filled.shards = {[frame |-> f, idx |-> k] : k \in 0..LastShard[f]}
    <3>1. [frame |-> f, idx |-> LastShard[f]] \in filled.shards
      BY <1>2, PutIsIn DEF HasTiming
    <3>2. QED
      BY <1>1, <1>2, <3>1, CompleteIsWhole
  <2>2. /\ pushed' = [pushed EXCEPT ![s] = filled]
        /\ newest' = [newest EXCEPT ![s] = IF f > @ THEN f ELSE @]
    BY <1>1, <1>2 DEF PushFrame
  <2>3. SetTypes'
    BY <1>0, <1>1, <2>2 DEF SetTypes
  <2>4. Gathered'
    BY <1>0 DEF SetTypes, Gathered
  <2>5. WholeFrames'
    BY <1>0, <1>1, <2>1, <2>2 DEF SetTypes, WholeFrames
  <2>6. PushWindow'
    <3> SUFFICES ASSUME NEW r \in Streams
                 PROVE  PushWindow!(r)'
      BY DEF PushWindow
    <3>1. CASE r # s
      BY <1>0, <2>2, <3>1 DEF SetTypes, PushWindow
    <3>2. CASE r = s
      <4>1. /\ next'[s] = nxt /\ current'[s] = cur /\ pushed'[s] = filled
            /\ newest'[s] = IF f > newest[s] THEN f ELSE newest[s]
        BY <1>0, <2>2 DEF SetTypes
      <4>2. /\ cur.frame >= 0 /\ cur.frame \in Int /\ nxt.frame \in Int
            /\ newest[s] \in Int
        BY <1>0 DEF SetTypes, PushWindow, ShardSets
      <4>3. QED
        BY <1>0, <1>1, <3>2, <4>1, <4>2 DEF PushWindow
    <3>3. QED
      BY <3>1, <3>2
  <2>7. QED
    BY <2>3, <2>4, <2>5, <2>6 DEF AssemblyInv
<1>3. CASE ~(HasTiming(shard) /\ Complete(filled))
  <2>1. UNCHANGED <<pushed, newest>>
    BY <1>3
  <2>2. SetTypes' /\ Gathered' /\ WholeFrames'
    BY <1>0, <2>1 DEF SetTypes, Gathered, WholeFrames
  <2>3. PushWindow'
    <3> SUFFICES ASSUME NEW r \in Streams
                 PROVE  PushWindow!(r)'
      BY DEF PushWindow
    <3>1. CASE r # s
      BY <1>0, <2>1, <3>1 DEF SetTypes, PushWindow
    <3>2. CASE r = s
      <4>1. next'[s] = nxt /\ current'[s] = cur /\ cur.frame >= 0
        BY <1>0 DEF SetTypes, PushWindow, ShardSets
      <4>2. QED
        BY <1>0, <2>1, <3>2, <4>1 DEF PushWindow
    <3>3. QED
      BY <3>1, <3>2
  <2>4. QED
    BY <2>2, <2>3 DEF AssemblyInv
<1>4. QED
  BY <1>2, <1>3

\* handle_video_shard keeps the invariant, wherever the shard goes.
LEMMA HandleStep ==
    ASSUME AssemblyInv, NEW s \in Streams, NEW f \in 0..MaxFrame,
           NEW i \in 0..LastShard[f], ReceiveShard(s, f, i)
    PROVE  AssemblyInv'
<1> DEFINE shard == [frame |-> f, idx |-> i]
<1>0. SetTypes /\ Gathered /\ PushWindow /\ open /\ HandleShard(s, shard) /\ UNCHANGED <<open, sent>>
  BY DEF AssemblyInv, ReceiveShard
<1>1. CASE s \notin Decoded \/ ~described
  BY <1>0, <1>1 DEF AssemblyInv, HandleShard, DropShard, SetTypes, Gathered, WholeFrames,
       PushWindow
<1>2. CASE s \in Decoded /\ described
  <2>0. /\ current[s] \in ShardSets /\ next[s] \in ShardSets
        /\ OwnShards(current[s]) /\ OwnShards(next[s])
        /\ next[s].frame = current[s].frame + 1 /\ current[s].frame >= 0
        /\ newest[s] <= next[s].frame \/ 0 \notin Decoded
        /\ current[s].frame \in Int /\ newest[s] \in Int
    BY <1>0, <1>2 DEF SetTypes, Gathered, PushWindow, ShardSets
  <2>1. CASE f = current[s].frame
    <3> DEFINE cur == Put(current[s], shard)
    <3>1. Store(s, current[s], shard) /\ UNCHANGED described
      BY <1>0, <1>2, <2>1 DEF HandleShard
    <3>2. cur \in ShardSets /\ OwnShards(cur) /\ cur.frame = f
      BY <2>0, <2>1, PutOwn
    <3>3. current' = [current EXCEPT ![s] = cur] /\ next' = [next EXCEPT ![s] = next[s]]
      BY <1>0, <2>1, <3>1 DEF Store, SetTypes
    <3>4. IF HasTiming(shard) /\ Complete(cur)
          THEN PushFrame(s, cur) ELSE UNCHANGED <<pushed, newest>>
      BY <3>1 DEF Store
    <3>5. UNCHANGED <<open, described, sent>>
      BY <1>0, <3>1
    <3>6. next[s].frame = cur.frame + 1 /\ cur.frame >= current[s].frame
      BY <2>0, <2>1, <3>2
    <3>7. QED
      BY <1>0, <1>2, <2>0, <2>1, <3>2, <3>3, <3>4, <3>5, <3>6, GatherStep
  <2>2. CASE f # current[s].frame /\ f = next[s].frame
    <3> DEFINE nxt == Put(next[s], shard)
    <3>1. Store(s, next[s], shard) /\ UNCHANGED described
      BY <1>0, <1>2, <2>2 DEF HandleShard
    <3>2. nxt \in ShardSets /\ OwnShards(nxt) /\ nxt.frame = f
      BY <2>0, <2>2, PutOwn
    <3>3. current' = [current EXCEPT ![s] = current[s]] /\ next' = [next EXCEPT ![s] = nxt]
      BY <1>0, <2>2, <3>1 DEF Store, SetTypes
    <3>4. IF HasTiming(shard) /\ Complete(nxt)
          THEN PushFrame(s, nxt) ELSE UNCHANGED <<pushed, newest>>
      BY <3>1 DEF Store
    <3>5. UNCHANGED <<open, described, sent>>
      BY <1>0, <3>1
    <3>6. /\ nxt.frame = current[s].frame + 1 /\ current[s].frame >= current[s].frame
          /\ newest[s] <= nxt.frame \/ 0 \notin Decoded
      BY <2>0, <2>2, <3>2
    <3>7. QED
      BY <1>0, <1>2, <2>0, <2>2, <3>2, <3>3, <3>4, <3>5, <3>6, GatherStep
  <2>3. CASE f # current[s].frame /\ f # next[s].frame /\ f > current[s].frame
    <3> DEFINE cur == Put(Empty(f), shard)
    <3>1. Restart(s, shard) /\ UNCHANGED described
      BY <1>0, <1>2, <2>3 DEF HandleShard
    <3>2. Empty(f) \in ShardSets /\ OwnShards(Empty(f)) /\ Empty(f).frame = f
      BY FramesAssumption DEF Empty, OwnShards, ShardSets
    <3>3. cur \in ShardSets /\ OwnShards(cur) /\ cur.frame = f
      BY <3>2, PutOwn
    <3>4. /\ Empty(f + 1) \in ShardSets /\ OwnShards(Empty(f + 1))
          /\ Empty(f + 1).frame = f + 1
      BY FramesAssumption DEF Empty, OwnShards, ShardSets
    <3>5. /\ current' = [current EXCEPT ![s] = cur]
          /\ next' = [next EXCEPT ![s] = Empty(f + 1)]
      BY <3>1 DEF Restart
    <3>6. newest[s] <= f + 1 \/ 0 \notin Decoded
      BY <2>0, <2>3
    <3>7. IF HasTiming(shard) /\ Complete(cur)
          THEN PushFrame(s, cur) ELSE UNCHANGED <<pushed, newest>>
      BY <3>1 DEF Restart
    <3>8. UNCHANGED <<open, described, sent>>
      BY <1>0, <3>1
    <3>9. cur.frame >= current[s].frame /\ Empty(f + 1).frame = cur.frame + 1
      BY <2>0, <2>3, <3>3, <3>4
    <3>10. QED
      BY <1>0, <1>2, <2>0, <3>2, <3>3, <3>4, <3>5, <3>6, <3>7, <3>8, <3>9,
         GatherStep
  <2>4. CASE f # current[s].frame /\ f # next[s].frame /\ ~(f > current[s].frame)
    <3>1. UNCHANGED <<described, current, next, pushed, newest>>
      BY <1>0, <1>2, <2>4 DEF HandleShard
    <3>2. QED
      BY <1>0, <3>1 DEF AssemblyInv, SetTypes, Gathered, WholeFrames, PushWindow
  <2>5. QED
    BY <2>1, <2>2, <2>3, <2>4
<1>3. QED
  BY <1>1, <1>2

\* The inductive invariant holds in every behaviour.
THEOREM AssemblyAlways == AssemblySpec => []AssemblyInv
<1>1. AssemblyInit => AssemblyInv
  <2> SUFFICES ASSUME AssemblyInit PROVE AssemblyInv
    OBVIOUS
  <2>1. SetTypes
    <3>1. Empty(0) \in ShardSets /\ NoPush \in ShardSets
      BY FramesAssumption DEF Empty, NoPush, ShardSets
    <3>2. open \in BOOLEAN /\ described \in BOOLEAN
      BY ZenonT(30) DEF AssemblyInit
    <3>3. sent \in [Streams -> 0..(MaxFrame + 1)] /\ newest \in [Streams -> -1..MaxFrame]
      BY FramesAssumption DEF AssemblyInit
    <3>4. /\ current \in [Streams -> ShardSets] /\ next \in [Streams -> ShardSets]
          /\ pushed \in [Streams -> ShardSets]
      BY <3>1 DEF AssemblyInit
    <3>5. QED
      BY <3>2, <3>3, <3>4 DEF SetTypes
  <2>2. Gathered /\ WholeFrames /\ PushWindow
    BY DEF AssemblyInit, Gathered, OwnShards, WholeFrames, PushWindow, Empty, NoPush
  <2>3. QED
    BY <2>1, <2>2 DEF AssemblyInv
<1>2. AssemblyInv /\ [AssemblyNext]_assemblyVars => AssemblyInv'
  <2> SUFFICES ASSUME AssemblyInv, [AssemblyNext]_assemblyVars PROVE AssemblyInv'
    OBVIOUS
  <2> DEFINE Emptied ==
        /\ current' = [s \in Streams |-> Empty(0)]
        /\ next' = [s \in Streams |-> Empty(1)]
  <2>0. Emptied => /\ current' \in [Streams -> ShardSets]
                   /\ next' \in [Streams -> ShardSets] /\ Gathered'
                   /\ \A s \in Streams : current'[s].frame = 0 /\ next'[s].frame = 1
    BY FramesAssumption DEF Empty, ShardSets, Gathered, OwnShards
  <2>1. CASE OpenSession
    <3>1. SetTypes' /\ Gathered' /\ WholeFrames'
      BY <2>1, FramesAssumption DEF OpenSession, AssemblyInv, SetTypes, Gathered,
           WholeFrames,
         NoPush, ShardSets
    <3>2. PushWindow'
      BY <2>1, FramesAssumption DEF OpenSession, AssemblyInv, SetTypes, PushWindow,
           NoPush, ShardSets
    <3>3. QED
      BY <3>1, <3>2 DEF AssemblyInv
  <2>2. CASE CloseSession
    BY <2>0, <2>2 DEF CloseSession, AssemblyInv, SetTypes, WholeFrames, PushWindow
  <2>3. CASE Describe
    BY <2>0, <2>3 DEF Describe, AssemblyInv, SetTypes, WholeFrames, PushWindow
  <2>4. ASSUME NEW s \in Streams, SendFrame(s) PROVE AssemblyInv'
    <3>1. SetTypes'
      BY <2>4, FramesAssumption DEF SendFrame, clientVars, AssemblyInv, SetTypes
    <3>2. Gathered' /\ WholeFrames' /\ PushWindow'
      BY <2>4 DEF SendFrame, clientVars, AssemblyInv, Gathered, WholeFrames, PushWindow
    <3> QED BY <3>1, <3>2 DEF AssemblyInv
  <2>5. ASSUME NEW s \in Streams, NEW f \in 0..MaxFrame, NEW i \in 0..LastShard[f],
               ReceiveShard(s, f, i)
        PROVE  AssemblyInv'
    BY <2>5, HandleStep
  <2>6. CASE UNCHANGED assemblyVars
    BY <2>6 DEF assemblyVars, clientVars, AssemblyInv, SetTypes, Gathered, WholeFrames,
         PushWindow
  <2>7. QED
    BY <2>1, <2>2, <2>3, <2>4, <2>5, <2>6 DEF AssemblyNext
<1>3. QED
  BY <1>1, <1>2, PTL DEF AssemblySpec

\* Whatever the network does, a decoder only gets whole, unmixed frames.
THEOREM OnlyWholeFrames == AssemblySpec => []WholeFrames
<1>1. AssemblyInv => WholeFrames
  BY DEF AssemblyInv
<1>2. QED
  BY <1>1, AssemblyAlways, PTL

\* A frame reaches its decoder at most one frame late.
THEOREM LateByOne == AssemblySpec => []OvertakenByOne
<1>1. AssemblyInv => OvertakenByOne
  BY DEF AssemblyInv, PushWindow, OvertakenByOne
<1>2. QED
  BY <1>1, AssemblyAlways, PTL

-----------------------------------------------------------------------------
(* The pushes of a stream implement OrderedFrames *)

\* A shard pushes nothing, or a set of its own frame to its own stream.
LEMMA ReceivePushes ==
    ASSUME AssemblyInv, NEW s \in Streams, NEW f \in 0..MaxFrame,
           NEW i \in 0..LastShard[f], ReceiveShard(s, f, i)
    PROVE  \/ UNCHANGED <<pushed, newest>>
           \/ \E set : set.frame = f /\ PushFrame(s, set)
<1> DEFINE shard == [frame |-> f, idx |-> i]
<1>0. HandleShard(s, shard) /\ current[s] \in ShardSets /\ next[s] \in ShardSets
  BY DEF ReceiveShard, AssemblyInv, SetTypes
<1>1. \A set \in ShardSets : Put(set, shard).frame = set.frame
  BY DEF Put, ShardSets
<1>2. Empty(f) \in ShardSets /\ Empty(f).frame = f
  BY FramesAssumption DEF Empty, ShardSets
<1>3. CASE s \notin Decoded \/ ~described
  BY <1>0, <1>3 DEF HandleShard, DropShard
<1>4. CASE s \in Decoded /\ described
  <2>1. CASE f = current[s].frame
    BY <1>0, <1>1, <1>4, <2>1 DEF HandleShard, Store
  <2>2. CASE f # current[s].frame /\ f = next[s].frame
    BY <1>0, <1>1, <1>4, <2>2 DEF HandleShard, Store
  <2>3. CASE f # current[s].frame /\ f # next[s].frame
    BY <1>0, <1>1, <1>2, <1>4, <2>3 DEF HandleShard, Restart
  <2>4. QED
    BY <2>1, <2>2, <2>3
<1>5. QED
  BY <1>3, <1>4

\* Seen from its decoder, every stream is one of OrderedFrames.
THEOREM Implements ==
    ASSUME 0 \in Decoded
    PROVE  AssemblySpec => PushesInOrder
<1>1. AssemblyInit => \A s \in Streams : Delivery(s)!Init
  <2> SUFFICES ASSUME AssemblyInit, NEW s \in Streams PROVE Delivery(s)!Init
    OBVIOUS
  <2>1. pushed[s] = NoPush /\ newest[s] = -1
    BY DEF AssemblyInit
  <2>2. NoPush.frame = -1
    BY DEF NoPush
  <2>3. QED
    BY <2>1, <2>2 DEF Delivery!Init
<1>2. AssemblyInv /\ AssemblyInv' /\ [AssemblyNext]_assemblyVars
        => [\A s \in Streams : [Delivery(s)!Next]_(Delivery(s)!vars)]_assemblyVars
  <2> SUFFICES ASSUME AssemblyInv, AssemblyInv', [AssemblyNext]_assemblyVars, NEW e \in Streams
               PROVE  [Delivery(e)!Next]_(Delivery(e)!vars)
    OBVIOUS
  <2> DEFINE Kept == UNCHANGED <<pushed, newest>>
  <2>0. Kept => UNCHANGED Delivery(e)!vars
    BY DEF Delivery!vars
  <2>1. CASE OpenSession
    BY <2>1 DEF OpenSession, NoPush, Delivery!Next, Delivery!Restart
  <2>2. CASE CloseSession \/ Describe
    BY <2>0, <2>2 DEF CloseSession, Describe
  <2>3. ASSUME NEW s \in Streams, SendFrame(s)
        PROVE  Kept
    BY <2>3 DEF SendFrame, clientVars
  <2>4. ASSUME NEW s \in Streams, NEW f \in 0..MaxFrame,
               NEW i \in 0..LastShard[f], ReceiveShard(s, f, i)
        PROVE  [Delivery(e)!Next]_(Delivery(e)!vars)
    <3>1. CASE Kept
      BY <2>0, <3>1
    <3>2. ASSUME NEW set, set.frame = f, PushFrame(s, set)
          PROVE  [Delivery(e)!Next]_(Delivery(e)!vars)
      <4>0. /\ newest[e] \in -1..MaxFrame /\ pushed \in [Streams -> ShardSets]
            /\ newest \in [Streams -> -1..MaxFrame]
        BY DEF AssemblyInv, SetTypes
      <4>1. CASE s # e
        BY <3>2, <4>0, <4>1 DEF PushFrame, Delivery!vars
      <4>2. CASE s = e
        <5>1. pushed'[e].frame = f
              /\ newest'[e] = IF f > newest[e] THEN f ELSE newest[e]
          BY <3>2, <4>0, <4>2 DEF PushFrame
        <5>2. pushed'[e].frame >= newest'[e] - 1
          BY DEF AssemblyInv, PushWindow
        <5>3. f >= newest[e] - 1
          BY <4>0, <5>1, <5>2
        <5>4. Delivery(e)!Deliver(f)
          BY <5>1, <5>3 DEF Delivery!Deliver
        <5>5. QED
          BY <5>4 DEF Delivery!Next
      <4>3. QED
        BY <4>1, <4>2
    <3>3. QED
      BY <2>4, <3>1, <3>2, ReceivePushes
  <2>5. CASE UNCHANGED assemblyVars
    BY <2>0, <2>5 DEF assemblyVars, clientVars
  <2>6. QED
    BY <2>0, <2>1, <2>2, <2>3, <2>4, <2>5 DEF AssemblyNext
<1>3. QED
  BY <1>1, <1>2, AssemblyAlways, PTL DEF AssemblySpec, PushesInOrder
-----------------------------------------------------------------------------
(* No frame of another session *)

\* Outside a session nothing is described: the next one starts from decoders
\* and sets that are gone.
SentInv == AssemblyInv /\ PushedWasSent /\ (described => open)

\* A shard of a frame sent in this session is put where only such shards are,
\* and what it pushes is its own frame.
LEMMA ReceiveSent ==
    ASSUME SentInv, NEW s \in Streams, NEW f \in 0..MaxFrame,
           NEW i \in 0..LastShard[f], ReceiveShard(s, f, i)
    PROVE  PushedWasSent'
<1> DEFINE shard == [frame |-> f, idx |-> i]
<1>0. /\ HandleShard(s, shard) /\ f < sent[s] /\ UNCHANGED sent /\ AssemblyInv /\ PushedWasSent
      /\ current \in [Streams -> ShardSets] /\ next \in [Streams -> ShardSets]
      /\ pushed \in [Streams -> ShardSets]
  BY DEF ReceiveShard, SentInv, AssemblyInv, SetTypes
<1>1. \A r \in Streams : pushed'[r].frame < sent'[r]
  <2>1. ASSUME NEW set, set.frame = f, PushFrame(s, set)
        PROVE  \A r \in Streams : pushed'[r].frame < sent'[r]
    BY <1>0, <2>1 DEF PushFrame, PushedWasSent
  <2>2. CASE UNCHANGED <<pushed, newest>>
    BY <1>0, <2>2 DEF PushedWasSent
  <2>3. QED
    BY <1>0, <2>1, <2>2, ReceivePushes
<1>2. ASSUME described', NEW r \in Streams
      PROVE  \A old \in current'[r].shards \cup next'[r].shards : old.frame < sent'[r]
  <2>0. described
    BY <1>0, <1>2 DEF HandleShard, DropShard
  <2>1. \A old \in current[r].shards \cup next[r].shards : old.frame < sent[r]
    BY <1>0, <2>0 DEF PushedWasSent
  <2>2. CASE UNCHANGED <<current, next>>
    BY <1>0, <2>1, <2>2
  <2>3. \A set \in ShardSets :
            \A new \in Put(set, shard).shards : new \in set.shards \/ new = shard
    BY DEF Put, ShardSets
  <2>4. ASSUME NEW set \in ShardSets, NEW others,
               {current'[s], next'[s]} \subseteq {Put(set, shard), others},
               set.shards \cup others.shards \subseteq current[s].shards \cup next[s].shards,
               \A e \in Streams \ {s} : current'[e] = current[e] /\ next'[e] = next[e]
        PROVE  \A old \in current'[r].shards \cup next'[r].shards : old.frame < sent'[r]
    <3>1. CASE r # s
      BY <1>0, <2>1, <2>4, <3>1
    <3>2. CASE r = s
      <4>1. SUFFICES ASSUME NEW old \in Put(set, shard).shards \cup others.shards
                     PROVE  old.frame < sent[s]
        BY <1>0, <2>4, <3>2
      <4>2. old = shard \/ old \in current[s].shards \cup next[s].shards
        BY <2>3, <2>4, <4>1
      <4>3. QED
        BY <1>0, <2>1, <3>2, <4>2
    <3>3. QED
      BY <3>1, <3>2
  <2>5. CASE s \in Decoded /\ Store(s, current[s], shard) /\ f = current[s].frame
    BY <1>0, <2>4, <2>5 DEF Store
  <2>6. CASE s \in Decoded /\ Store(s, next[s], shard) /\ f # current[s].frame
    BY <1>0, <2>4, <2>6 DEF Store
  <2>7. CASE s \in Decoded /\ Restart(s, shard)
    <3>1. Empty(f) \in ShardSets /\ Empty(f).shards = {} /\ Empty(f + 1).shards = {}
      BY FramesAssumption DEF Empty, ShardSets
    <3>2. QED
      BY <1>0, <2>4, <2>7, <3>1 DEF Restart
  <2>8. QED
    BY <1>0, <2>0, <2>2, <2>5, <2>6, <2>7 DEF HandleShard, DropShard
<1>3. QED
  BY <1>1, <1>2 DEF PushedWasSent

\* What is pushed in a session was sent in it.
THEOREM OnlySentFrames == AssemblySpec => []PushedWasSent
<1>1. AssemblyInit => PushedWasSent /\ (described => open)
  BY DEF AssemblyInit, PushedWasSent, NoPush
<1>2. AssemblyInv /\ AssemblyInv' /\ PushedWasSent /\ (described => open) /\ [AssemblyNext]_assemblyVars
        => PushedWasSent' /\ (described => open)'
  <2> SUFFICES ASSUME SentInv, AssemblyInv', [AssemblyNext]_assemblyVars
               PROVE  PushedWasSent' /\ (described => open)'
    BY DEF SentInv
  <2>0. /\ sent \in [Streams -> 0..(MaxFrame + 1)] /\ pushed \in [Streams -> ShardSets]
        /\ PushedWasSent /\ (described => open)
    BY DEF SentInv, AssemblyInv, SetTypes
  <2>1. CASE OpenSession
    BY <2>0, <2>1 DEF OpenSession, PushedWasSent, NoPush
  <2>2. CASE CloseSession
    BY <2>0, <2>2 DEF CloseSession, PushedWasSent
  <2>3. CASE Describe
    BY <2>0, <2>3 DEF Describe, PushedWasSent, Empty
  <2>4. ASSUME NEW s \in Streams, SendFrame(s)
        PROVE  PushedWasSent' /\ (described => open)'
    <3>1. /\ UNCHANGED <<open, described, current, next, pushed>>
          /\ sent' = [sent EXCEPT ![s] = @ + 1]
      BY <2>4 DEF SendFrame, clientVars
    <3>2. \A r \in Streams, k \in Int : k < sent[r] => k < sent'[r]
      BY <2>0, <3>1
    <3>3. /\ \A r \in Streams : pushed[r].frame \in Int
          /\ \A r \in Streams : \A shard \in current[r].shards \cup next[r].shards :
                shard.frame \in Int
      BY DEF SentInv, AssemblyInv, SetTypes, ShardSets, Shards
    <3>4. QED
      BY <2>0, <3>1, <3>2, <3>3 DEF PushedWasSent
  <2>5. ASSUME NEW s \in Streams, NEW f \in 0..MaxFrame, NEW i \in 0..LastShard[f],
               ReceiveShard(s, f, i)
        PROVE  PushedWasSent' /\ (described => open)'
    <3>1. open /\ UNCHANGED open
      BY <2>5 DEF ReceiveShard
    <3>2. QED
      BY <2>5, <3>1, ReceiveSent
  <2>6. CASE UNCHANGED assemblyVars
    BY <2>0, <2>6 DEF assemblyVars, clientVars, PushedWasSent
  <2>7. QED
    BY <2>1, <2>2, <2>3, <2>4, <2>5, <2>6 DEF AssemblyNext
<1>3. QED
  BY <1>1, <1>2, AssemblyAlways, PTL DEF AssemblySpec

-----------------------------------------------------------------------------
(* SetTypes *)

\* What the invariant of the pushes leaves out, in the transitions of the session.
SessionInv ==
    /\ sessions \in 0..MaxSessions /\ tcp \in BOOLEAN /\ streaming \in BOOLEAN
    /\ \A s \in Streams : pushed[s].frame < 0 => pushed[s].shards = {}

LEMMA NextSession ==
    ASSUME AssemblyInv, SessionInv, [AssemblyNext]_assemblyVars PROVE SessionInv'
<1> USE DEF SessionInv
<1>0. pushed \in [Streams -> ShardSets]
  BY DEF AssemblyInv, SetTypes
<1>1. CASE OpenSession
  <2>1. tcp' \in BOOLEAN /\ UNCHANGED streaming
    BY <1>1 DEF OpenSession
  <2>2. sessions' \in 0..MaxSessions
    BY <1>1, SessionsAssumption DEF OpenSession
  <2>3. \A s \in Streams : pushed'[s].shards = {}
    BY <1>1 DEF OpenSession, NoPush
  <2>4. QED
    BY <2>1, <2>2, <2>3
<1>2. CASE CloseSession \/ Describe
  BY <1>2 DEF CloseSession, Describe
<1>3. ASSUME NEW s \in Streams, SendFrame(s) PROVE SessionInv'
  BY <1>3 DEF SendFrame, clientVars
<1>4. ASSUME NEW s \in Streams, NEW f \in 0..MaxFrame, NEW i \in 0..LastShard[f],
             ReceiveShard(s, f, i)
      PROVE  SessionInv'
  <2>1. \A r \in Streams : pushed'[r].frame < 0 => pushed'[r].shards = {}
    <3>1. CASE UNCHANGED <<pushed, newest>>
      BY <3>1
    <3>2. ASSUME NEW set, set.frame = f, PushFrame(s, set)
          PROVE  \A r \in Streams : pushed'[r].frame < 0 => pushed'[r].shards = {}
      BY <1>0, <3>2 DEF PushFrame
    <3>3. QED
      BY <1>4, <3>1, <3>2, ReceivePushes
  <2>2. UNCHANGED <<sessions, tcp>> /\ streaming' = TRUE
    BY <1>4 DEF ReceiveShard
  <2>3. QED
    BY <2>1, <2>2
<1>5. CASE UNCHANGED assemblyVars
  BY <1>5 DEF assemblyVars, clientVars
<1>6. QED
  BY <1>1, <1>2, <1>3, <1>4, <1>5 DEF AssemblyNext

\* No set ever holds two shards of one index, whatever repeats itself on the
\* way: a slot of the vector is filled again, not doubled.
THEOREM AssemblyTypeCorrect == AssemblySpec => []AssemblyTypeOK
<1>1. AssemblyInit => SessionInv
  <2> SUFFICES ASSUME AssemblyInit PROVE SessionInv
    OBVIOUS
  <2>1. tcp \in BOOLEAN /\ streaming \in BOOLEAN
    BY ZenonT(30) DEF AssemblyInit
  <2>2. /\ sessions \in 0..MaxSessions
        /\ \A s \in Streams : pushed[s].shards = {}
    BY SessionsAssumption DEF AssemblyInit, NoPush
  <2>3. QED
    BY <2>1, <2>2 DEF SessionInv
<1>2. AssemblyInv /\ SessionInv => AssemblyTypeOK
  <2> SUFFICES ASSUME AssemblyInv, SessionInv PROVE AssemblyTypeOK
    OBVIOUS
  <2>1. \A set \in ShardSets : OwnShards(set) => SetOK(set)
    BY DEF OwnShards, SetOK, ShardSets, Shards
  <2>2. ASSUME NEW s \in Streams PROVE SetOK(pushed[s])
    <3>1. pushed[s] \in ShardSets
      BY DEF AssemblyInv, SetTypes
    <3>2. CASE pushed[s].frame < 0
      BY <3>1, <3>2 DEF SessionInv, SetOK
    <3>3. CASE pushed[s].frame >= 0
      BY <3>1, <3>3 DEF AssemblyInv, WholeFrames, SetOK
    <3>4. QED
      BY <3>1, <3>2, <3>3 DEF ShardSets
  <2>3. QED
    BY <2>1, <2>2 DEF AssemblyInv, SetTypes, Gathered, SessionInv, AssemblyTypeOK
<1>3. AssemblyInv /\ SessionInv /\ [AssemblyNext]_assemblyVars => SessionInv'
  BY NextSession
<1>4. QED
  BY <1>1, <1>2, <1>3, AssemblyAlways, PTL DEF AssemblySpec

-----------------------------------------------------------------------------
(* Over TCP a frame in hand stays until it is pushed *)

\* The first n shards of a frame.
FirstShards(f, n) == {[frame |-> f, idx |-> k] : k \in 0..(n - 1)}

\* A shard below n is one of the first n.
LEMMA IsFirst ==
    ASSUME NEW f, NEW n, NEW k \in 0..(n - 1)
    PROVE  [frame |-> f, idx |-> k] \in FirstShards(f, n)
  BY Zenon DEF FirstShards

\* Over TCP the shards are read in order, so no set that starts over has
\* passed the shard that is read next.
WireInv ==
    /\ open \in BOOLEAN /\ tcp \in BOOLEAN
    /\ wire \in [Streams -> [frame : Nat, idx : Nat]]
    /\ ~open => \A s \in Streams : current[s].frame = 0
    /\ open /\ tcp => \A s \in Streams : current[s].frame <= wire[s].frame

\* A set with the first shards of its frame has one more when that is put.
LEMMA PutNext ==
    ASSUME NEW set \in ShardSets, NEW f \in 0..MaxFrame, NEW i \in 0..LastShard[f],
           FirstShards(f, i) \subseteq set.shards
    PROVE  FirstShards(f, i + 1) \subseteq Put(set, [frame |-> f, idx |-> i]).shards
<1> DEFINE shard == [frame |-> f, idx |-> i]
           filled == Put(set, shard)
<1>0. i \in Nat
  BY FramesAssumption
<1>1. shard \in filled.shards
  BY PutIsIn
<1>2. \A old \in set.shards : old.idx # i => old \in filled.shards
  BY DEF Put, ShardSets
<1>3. ASSUME NEW k \in 0..i PROVE [frame |-> f, idx |-> k] \in filled.shards
  <2>1. CASE k = i
    BY <1>1, <2>1
  <2>2. CASE k # i
    <3>1. k \in 0..(i - 1)
      BY <1>0, <2>2
    <3>2. [frame |-> f, idx |-> k] \in set.shards
      BY <3>1 DEF FirstShards
    <3>3. QED
      BY <1>2, <2>2, <3>2
  <2>3. QED
    BY <2>1, <2>2
<1>4. 0..(i + 1 - 1) = 0..i
  BY <1>0
<1> HIDE DEF filled
<1>5. QED
  BY <1>3, <1>4 DEF FirstShards, filled

\* A set of its own shards that has all of its frame's is complete.
LEMMA AllIsComplete ==
    ASSUME NEW set \in ShardSets, OwnShards(set), NEW f \in 0..MaxFrame, set.frame = f,
           FirstShards(f, LastShard[f] + 1) \subseteq set.shards
    PROVE  Complete(set)
<1>0. LastShard[f] \in Nat
  BY FramesAssumption
<1> SUFFICES ASSUME NEW top \in set.shards, NEW k \in 0..top.idx
             PROVE  \E shard \in set.shards : shard.idx = k
  BY DEF Complete
<1>1. top.idx \in Nat /\ top.idx <= LastShard[f]
  BY DEF OwnShards, ShardSets, Shards
<1> DEFINE n == LastShard[f] + 1
<1>2. n \in Nat /\ k \in Nat /\ k <= n - 1
  BY <1>0, <1>1
<1>3. [frame |-> f, idx |-> k] \in set.shards
  <2> HIDE DEF n
  <2>1. k \in 0..(n - 1)
    BY <1>2
  <2>2. [frame |-> f, idx |-> k] \in FirstShards(f, n)
    BY <2>1, IsFirst
  <2>3. FirstShards(f, n) \subseteq set.shards
    BY DEF n
  <2>4. QED
    BY <2>2, <2>3, Zenon
<1>4. [frame |-> f, idx |-> k].idx = k
  OBVIOUS
<1>5. QED
  BY <1>3, <1>4, Zenon

\* Reading the shard at the head of the TCP stream.
LEMMA AdvanceReads ==
    ASSUME wire \in [Streams -> [frame : Nat, idx : Nat]], NEW s \in Streams,
           NEW f \in Nat, NEW i \in Nat, wire[s] = [frame |-> f, idx |-> i], Advance(s)
    PROVE  /\ wire' \in [Streams -> [frame : Nat, idx : Nat]]
           /\ \A r \in Streams : r # s => wire'[r] = wire[r]
           /\ i = LastShard[f] => wire'[s].frame = f + 1 /\ wire'[s].idx = 0
           /\ i # LastShard[f] => wire'[s].frame = f /\ wire'[s].idx = i + 1
<1> DEFINE ahead == IF HasTiming(wire[s]) THEN [frame |-> wire[s].frame + 1, idx |-> 0]
                                          ELSE [frame |-> wire[s].frame, idx |-> wire[s].idx + 1]
<1>1. wire' = [wire EXCEPT ![s] = ahead]
  BY Zenon DEF Advance
<1>2. wire[s].frame = f /\ wire[s].idx = i
  OBVIOUS
<1>3. HasTiming(wire[s]) <=> i = LastShard[f]
  BY <1>2 DEF HasTiming
<1>4. /\ i = LastShard[f] => ahead = [frame |-> f + 1, idx |-> 0]
      /\ i # LastShard[f] => ahead = [frame |-> f, idx |-> i + 1]
  BY <1>2, <1>3
<1>5. ahead \in [frame : Nat, idx : Nat]
  BY <1>4
<1>6. /\ i = LastShard[f] => ahead.frame = f + 1 /\ ahead.idx = 0
      /\ i # LastShard[f] => ahead.frame = f /\ ahead.idx = i + 1
  BY <1>4
<1> HIDE DEF ahead
<1>7. QED
  BY <1>1, <1>5, <1>6

\* The next shard of a frame in hand is kept with those before it, and the
\* last one pushes the frame.
LEMMA NextIsKept ==
    ASSUME AssemblyInv, WireInv, tcp, described,
           NEW s \in Decoded, NEW f \in 0..MaxFrame, NEW i \in 0..LastShard[f],
           ReceiveShard(s, f, i),
           FirstShards(f, i) \subseteq current[s].shards \cup next[s].shards
    PROVE  /\ FirstShards(f, i + 1) \subseteq current'[s].shards \cup next'[s].shards
           /\ i = LastShard[f] => newest'[s] >= f
<1> DEFINE shard == [frame |-> f, idx |-> i]
<1>0. /\ s \in Streams /\ f \in Nat /\ i \in Nat /\ HandleShard(s, shard)
      /\ current \in [Streams -> ShardSets] /\ next \in [Streams -> ShardSets]
      /\ newest \in [Streams -> -1..MaxFrame]
      /\ OwnShards(current[s]) /\ OwnShards(next[s])
      /\ next[s].frame = current[s].frame + 1
  BY FramesAssumption DEF Decoded, ReceiveShard, AssemblyInv, SetTypes, Gathered, PushWindow
<1>1. current[s].frame <= f /\ current[s].frame \in Int
  <2>1. open /\ wire[s] = shard
    BY DEF ReceiveShard, InOrder
  <2>2. wire[s].frame = f
    BY <2>1
  <2>3. QED
    BY <1>0, <2>1, <2>2 DEF WireInv, ShardSets
<1>2. ASSUME NEW set \in ShardSets, OwnShards(set), set.frame = f,
             FirstShards(f, i) \subseteq set.shards,
             IF HasTiming(shard) /\ Complete(Put(set, shard))
             THEN PushFrame(s, Put(set, shard)) ELSE UNCHANGED <<pushed, newest>>
      PROVE  /\ FirstShards(f, i + 1) \subseteq Put(set, shard).shards
             /\ i = LastShard[f] => newest'[s] >= f
  <2> DEFINE filled == Put(set, shard)
  <2>1. FirstShards(f, i + 1) \subseteq filled.shards
    BY <1>2, PutNext
  <2>2. ASSUME i = LastShard[f] PROVE newest'[s] >= f
    <3>1. filled \in ShardSets /\ OwnShards(filled) /\ filled.frame = f
      BY <1>2, PutOwn
    <3>2. HasTiming(shard)
      BY <2>2 DEF HasTiming
    <3>3. Complete(filled)
      BY <2>1, <2>2, <3>1, AllIsComplete
    <3>4. PushFrame(s, filled)
      BY <1>2, <3>2, <3>3
    <3>5. newest'[s] = IF f > newest[s] THEN f ELSE newest[s]
      BY <1>0, <3>1, <3>4 DEF PushFrame
    <3>6. newest[s] \in Int
      BY <1>0
    <3>7. QED
      BY <1>0, <3>5, <3>6
  <2>3. QED
    BY <2>1, <2>2
<1>3. \A set \in {current[s], next[s]} : \A old \in set.shards : old.frame = set.frame
  BY <1>0 DEF OwnShards
<1>4. \A old \in FirstShards(f, i) : old.frame = f
  BY DEF FirstShards
<1>5. CASE f = current[s].frame
  <2>1. FirstShards(f, i) \subseteq current[s].shards
    BY <1>0, <1>1, <1>3, <1>4, <1>5
  <2>2. Store(s, current[s], shard)
    BY <1>0, <1>5 DEF HandleShard
  <2>3. current'[s] = Put(current[s], shard)
    BY <1>0, <1>5, <2>2 DEF Store
  <2>4. QED
    BY <1>0, <1>2, <1>5, <2>1, <2>2, <2>3 DEF Store
<1>6. CASE f # current[s].frame /\ f = next[s].frame
  <2>1. FirstShards(f, i) \subseteq next[s].shards
    BY <1>0, <1>1, <1>3, <1>4, <1>6
  <2>2. Store(s, next[s], shard)
    BY <1>0, <1>6 DEF HandleShard
  <2>3. next'[s] = Put(next[s], shard)
    BY <1>0, <1>6, <2>2 DEF Store
  <2>4. QED
    BY <1>0, <1>2, <1>6, <2>1, <2>2, <2>3 DEF Store
<1>7. CASE f # current[s].frame /\ f # next[s].frame
  <2>1. Restart(s, shard)
    BY <1>0, <1>1, <1>7 DEF HandleShard
  <2>2. Empty(f) \in ShardSets /\ OwnShards(Empty(f)) /\ Empty(f).frame = f
    BY FramesAssumption DEF Empty, OwnShards, ShardSets
  <2>3. FirstShards(f, i) \subseteq Empty(f).shards
    BY <1>3, <1>4, <1>7
  <2>4. current'[s] = Put(Empty(f), shard)
    BY <1>0, <2>1 DEF Restart
  <2>5. QED
    BY <1>2, <2>1, <2>2, <2>3, <2>4 DEF Restart
<1>8. QED
  BY <1>5, <1>6, <1>7

\* What is read next stays ahead of the sets.
LEMMA WireKept ==
    ASSUME AssemblyInv, WireInv, described => open, [AssemblyNext]_assemblyVars
    PROVE  WireInv'
<1>0. /\ current \in [Streams -> ShardSets]
      /\ \A s \in Streams : current[s].frame \in Int
  BY DEF AssemblyInv, SetTypes, ShardSets
<1>1. CASE OpenSession
  <2>1. tcp' \in BOOLEAN /\ open' = TRUE /\ UNCHANGED current /\ ~open
    BY <1>1 DEF OpenSession
  <2>2. wire' = [s \in Streams |-> [frame |-> 0, idx |-> 0]]
    BY <1>1 DEF OpenSession
  <2>3. QED
    BY <2>1, <2>2 DEF WireInv
<1>2. CASE CloseSession
  BY <1>2 DEF CloseSession, WireInv, Empty
<1>3. CASE Describe
  BY <1>3 DEF Describe, WireInv, Empty
<1>4. ASSUME NEW s \in Streams, SendFrame(s) PROVE WireInv'
  BY <1>4 DEF SendFrame, clientVars, WireInv
<1>5. ASSUME NEW s \in Streams, NEW f \in 0..MaxFrame, NEW i \in 0..LastShard[f],
             ReceiveShard(s, f, i)
      PROVE  WireInv'
  <2> DEFINE shard == [frame |-> f, idx |-> i]
  <2>0. open /\ UNCHANGED <<open, tcp>> /\ HandleShard(s, shard) /\ f \in Nat /\ i \in Nat
    BY <1>5, FramesAssumption DEF ReceiveShard
  <2>1. \A r \in Streams : r # s => current'[r] = current[r]
    BY <1>0, <2>0 DEF HandleShard, DropShard, Store, Restart
  <2>2. current'[s].frame \in {current[s].frame, f}
    <3>1. \A set \in ShardSets : Put(set, shard).frame = set.frame
      BY DEF Put, ShardSets
    <3>2. Empty(f) \in ShardSets /\ Empty(f).frame = f
      BY FramesAssumption DEF Empty, ShardSets
    <3>3. next[s] \in ShardSets /\ current[s] \in ShardSets
      BY DEF AssemblyInv, SetTypes
    <3>4. CASE UNCHANGED current
      BY <3>4
    <3>5. ASSUME NEW set \in {current[s], next[s]}, set.frame = f, Store(s, set, shard)
          PROVE  current'[s].frame \in {current[s].frame, f}
      <4>1. Put(set, shard).frame = f
        BY <3>1, <3>3, <3>5
      <4>2. \/ current' = [current EXCEPT ![s] = Put(set, shard)]
            \/ UNCHANGED current
        BY <3>5, Zenon DEF Store
      <4>3. QED
        BY <1>0, <4>1, <4>2
    <3>6. CASE Restart(s, shard)
      BY <1>0, <3>1, <3>2, <3>6 DEF Restart
    <3>7. QED
      BY <2>0, <3>4, <3>5, <3>6 DEF HandleShard, DropShard
  <2>3. CASE tcp
    <3>1. wire[s] = shard /\ Advance(s)
      BY <1>5, <2>3 DEF ReceiveShard, InOrder
    <3>2. /\ wire'[s].frame = f \/ wire'[s].frame = f + 1
          /\ \A r \in Streams : r # s => wire'[r] = wire[r]
          /\ wire' \in [Streams -> [frame : Nat, idx : Nat]]
      BY <2>0, <3>1, AdvanceReads DEF WireInv
    <3>3. current[s].frame <= f
      <4>1. wire[s].frame = f
        BY <3>1
      <4>2. QED
        BY <2>0, <2>3, <4>1 DEF WireInv
    <3>4. current'[s].frame <= wire'[s].frame
      BY <1>0, <2>0, <2>2, <3>2, <3>3
    <3>5. QED
      BY <2>0, <2>1, <3>2, <3>4 DEF WireInv
  <2>4. CASE ~tcp
    <3>1. UNCHANGED wire
      BY <1>5, <2>4 DEF ReceiveShard
    <3>2. QED
      BY <2>0, <2>4, <3>1 DEF WireInv
  <2>5. QED
    BY <2>3, <2>4
<1>6. CASE UNCHANGED assemblyVars
  BY <1>6 DEF assemblyVars, clientVars, WireInv
<1>7. QED
  BY <1>1, <1>2, <1>3, <1>4, <1>5, <1>6 DEF AssemblyNext

\* A shard that arrives leaves a frame in hand as it is, or adds to it, or
\* pushes it.
LEMMA ReceiveStays ==
    ASSUME AssemblyInv, WireInv, NEW s \in Decoded, NEW f \in 0..MaxFrame, InHand(s, f),
           NEW r \in Streams, NEW g \in 0..MaxFrame, NEW i \in 0..LastShard[g],
           ReceiveShard(r, g, i)
    PROVE  InHand(s, f)' \/ newest'[s] >= f
<1> DEFINE shard == [frame |-> g, idx |-> i]
<1>0. /\ s \in Streams /\ f \in Nat /\ g \in Nat /\ i \in Nat
      /\ open /\ tcp /\ described /\ f < sent[s] /\ newest[s] < f
      /\ UNCHANGED <<open, tcp, sent>> /\ wire[r] = shard /\ Advance(r) /\ HandleShard(r, shard)
      /\ wire \in [Streams -> [frame : Nat, idx : Nat]]
  BY FramesAssumption DEF InHand, Decoded, ReceiveShard, InOrder, WireInv
<1>1. /\ current \in [Streams -> ShardSets] /\ next \in [Streams -> ShardSets]
      /\ pushed \in [Streams -> ShardSets] /\ newest \in [Streams -> -1..MaxFrame]
  BY DEF AssemblyInv, SetTypes
<1>2. described'
  BY <1>0 DEF HandleShard, DropShard
<1>3. newest'[s] \in Int
  <2>1. CASE UNCHANGED <<pushed, newest>>
    BY <1>0, <1>1, <2>1
  <2>2. ASSUME NEW set, set.frame = g, PushFrame(r, set) PROVE newest'[s] \in Int
    BY <1>0, <1>1, <2>2 DEF PushFrame
  <2>3. QED
    BY <2>1, <2>2, ReceivePushes
<1>4. SUFFICES ASSUME newest'[s] < f PROVE InHand(s, f)'
  BY <1>0, <1>3
<1>5. CASE r # s
  <2>1. wire'[s] = wire[s]
    BY <1>0, <1>5 DEF Advance
  <2>2. current'[s] = current[s] /\ next'[s] = next[s]
    BY <1>0, <1>1, <1>5 DEF HandleShard, DropShard, Store, Restart
  <2>3. QED
    BY <1>0, <1>2, <1>4, <2>1, <2>2 DEF InHand
<1>6. CASE r = s /\ g = f
  <2>1. wire[s].frame = f /\ wire[s].idx = i
    BY <1>0, <1>6
  <2>2. FirstShards(f, i) \subseteq current[s].shards \cup next[s].shards
    BY <1>0, <2>1 DEF InHand, FirstShards
  <2>3. /\ FirstShards(f, i + 1) \subseteq current'[s].shards \cup next'[s].shards
        /\ i = LastShard[f] => newest'[s] >= f
    BY <1>0, <1>6, <2>2, NextIsKept
  <2>4. i # LastShard[f]
    BY <1>0, <1>3, <1>4, <2>3
  <2>5. wire'[s].frame = f /\ wire'[s].idx = i + 1
    BY <1>0, <1>6, <2>4, AdvanceReads
  <2>6. QED
    BY <1>0, <1>2, <1>4, <2>3, <2>5 DEF InHand, FirstShards
<1>7. CASE r = s /\ g # f
  <2>1. wire[s].frame = g /\ g < f
    BY <1>0, <1>7 DEF InHand
  <2>2. \/ wire'[s].frame = g + 1 /\ wire'[s].idx = 0
        \/ wire'[s].frame = g
    BY <1>0, <1>7, AdvanceReads
  <2>3. wire'[s].frame < f \/ (wire'[s].frame = f /\ wire'[s].idx = 0)
    BY <1>0, <2>1, <2>2
  <2>4. 0..(0 - 1) = {}
    OBVIOUS
  <2>5. QED
    BY <1>0, <1>2, <1>4, <2>3, <2>4 DEF InHand
<1>8. QED
  BY <1>5, <1>6, <1>7

\* Over TCP no step of a described session loses a shard of a frame sent, or
\* lets the last one of it go by without a push.
THEOREM FramesAreKept ==
    ASSUME 0 \in Decoded
    PROVE  AssemblySpec => FramesStay
<1>1. AssemblyInit => WireInv /\ (described => open)
  <2> SUFFICES ASSUME AssemblyInit PROVE WireInv /\ (described => open)
    OBVIOUS
  <2>1. tcp \in BOOLEAN /\ open \in BOOLEAN
    BY ZenonT(30) DEF AssemblyInit
  <2>2. QED
    BY <2>1 DEF AssemblyInit, WireInv, Empty
<1>2. AssemblyInv /\ WireInv /\ (described => open) /\ [AssemblyNext]_assemblyVars
        => WireInv' /\ (described => open)'
  <2> SUFFICES ASSUME AssemblyInv, WireInv, described => open, [AssemblyNext]_assemblyVars
               PROVE  WireInv' /\ (described => open)'
    OBVIOUS
  <2>1. ASSUME NEW s \in Streams, NEW f \in 0..MaxFrame, NEW i \in 0..LastShard[f],
               ReceiveShard(s, f, i)
        PROVE  open'
    BY <2>1 DEF ReceiveShard
  <2>2. (described => open)'
    BY <2>1 DEF AssemblyNext, OpenSession, CloseSession, Describe, SendFrame, clientVars,
         assemblyVars
  <2>3. QED
    BY <2>2, WireKept
<1>3. AssemblyInv /\ WireInv /\ [AssemblyNext]_assemblyVars
        => [\A s \in Decoded, f \in 0..MaxFrame :
              InHand(s, f) => InHand(s, f)' \/ newest'[s] >= f \/ ~open']_assemblyVars
  <2> SUFFICES ASSUME AssemblyInv, WireInv, [AssemblyNext]_assemblyVars,
                      NEW s \in Decoded, NEW f \in 0..MaxFrame, InHand(s, f)
               PROVE  InHand(s, f)' \/ newest'[s] >= f \/ ~open'
    OBVIOUS
  <2>1. CASE OpenSession \/ CloseSession
    BY <2>1 DEF OpenSession, CloseSession, InHand
  <2>2. CASE Describe
    BY <2>2 DEF Describe, InHand
  <2>3. ASSUME NEW r \in Streams, SendFrame(r) PROVE InHand(s, f)'
    <3>1. f < sent[s] /\ f \in Nat /\ s \in Streams
      BY FramesAssumption DEF InHand, Decoded
    <3>2. sent \in [Streams -> 0..(MaxFrame + 1)] /\ sent' = [sent EXCEPT ![r] = @ + 1]
      BY <2>3 DEF SendFrame, AssemblyInv, SetTypes
    <3>3. f < sent'[s]
      BY <3>1, <3>2, FramesAssumption
    <3>4. QED
      BY <2>3, <3>3 DEF SendFrame, clientVars, InHand
  <2>4. ASSUME NEW r \in Streams, NEW g \in 0..MaxFrame, NEW i \in 0..LastShard[g],
               ReceiveShard(r, g, i)
        PROVE  InHand(s, f)' \/ newest'[s] >= f
    BY <2>4, ReceiveStays
  <2>5. CASE UNCHANGED assemblyVars
    BY <2>5 DEF assemblyVars, clientVars, InHand
  <2>6. QED
    BY <2>1, <2>2, <2>3, <2>4, <2>5 DEF AssemblyNext
<1>4. QED
  BY <1>1, <1>2, <1>3, AssemblyAlways, PTL DEF AssemblySpec, FramesStay

-----------------------------------------------------------------------------
\* ALL OF IT

LEMMA EachPart ==
  NetworkNext \/ UNCHANGED networkVars
    => [Next]_vars /\ [PinNext]_pinVars /\ [AudioNext]_audioVars
       /\ [SocketsNext]_socketsVars /\ [AssemblyNext]_assemblyVars
BY DEF NetworkNext, networkVars, Only

\* A behaviour of the five parts is one of each of them: what is proved of a part
\* holds of the whole that is run.
THEOREM PartsOfTheNetwork ==
  NetworkSpec => Spec /\ PinSpec /\ AudioSpec /\ SocketsSpec /\ AssemblySpec
<1>1. NetworkInit => Init /\ PinInit /\ AudioInit /\ SocketsInit /\ AssemblyInit
  BY DEF NetworkInit
<1> QED BY <1>1, EachPart, PTL DEF NetworkSpec, Spec, PinSpec, AudioSpec, SocketsSpec,
           AssemblySpec

\* Every variable of the five parts keeps to its type.
THEOREM NetworkTypeCorrect == NetworkSpec => []NetworkTypeOK
BY PartsOfTheNetwork, HandshakeTypeCorrect, PinTypeCorrect, AudioTypeCorrect,
   SocketsTypeCorrect, AssemblyTypeCorrect, PTL DEF NetworkTypeOK
=============================================================================
