----------------------------- MODULE Handshake -----------------------------
(***************************************************************************)
(* connect_to_server (streaming/streaming_client.cpp) trying the addresses *)
(* of a server one by one, and wivrn_session_pico::handshake               *)
(* (wivrn/net/wivrn_client_pico.cpp): hello, pairing by PIN, encryption,   *)
(* and the handshake on the stream socket, UDP or the control connection.  *)
(*                                                                         *)
(* The server is external; its steps are those of the fake server that     *)
(* tests/test_client.cpp runs, which may also fall silent or close at any  *)
(* point.  Encryption is a key that sender and receiver must share; the    *)
(* key of an encrypted connection is the PIN it is derived from.  A packet *)
(* that arrives in pieces keeps the client where it is.                    *)
(***************************************************************************)
EXTENDS Naturals, Sequences

CONSTANTS
    Pins,       \* what the user may type or a link may carry
    ServerPin,  \* the one the server displays
    Fallback,   \* "000000"
    Addresses   \* how many addresses the name resolves to

NoPin == "no pin"
Plain == "no key"

ASSUME HandshakeAssumption ==
    /\ ServerPin \in Pins /\ Fallback \in Pins /\ Fallback # ServerPin
    /\ NoPin \notin Pins /\ Plain \notin Pins
    /\ Addresses \in Nat

VARIABLES
    shutdown,     \* the flag of nativeDisconnect
    tcp_only,
    pairing_pin,  \* of streaming_client; outlives attempt and connection
    addrLeft,     \* addresses not tried yet
    client,       \* where the connect thread is
    pin,          \* of this attempt
    key,          \* of the control connection, at the client
    udp,          \* the client has a stream socket
    server,       \* where the server is
    state,        \* what it answered to the hello
    serverKey,
    closed,       \* it has closed the connection
    down, up,     \* control connection: packets to the client, to the server
    downUdp, upUdp  \* a handshake on its way over UDP

attempt == <<pin, key, udp>>
remote == <<server, state, serverKey, closed>>
udpVars == <<downUdp, upUdp>>
inputs == <<shutdown, tcp_only, pairing_pin>>
vars == <<inputs, addrLeft, client, attempt, remote, down, up, udpVars>>

States == {"encryption_disabled", "pin_needed", "client_already_paired",
           "pairing_disabled", "incompatible_version"}
Keys == Pins \cup {Plain}
Packet == [type : {"crypto_handshake", "pin_check_2", "pin_check_4", "handshake",
                   "pin_check_1", "pin_check_3"},
           key : Keys, port : BOOLEAN]
Message(t, k, p) == [type |-> t, key |-> k, port |-> p]

\* What the client waits for in each of its four calls of receive.
Awaited == [answer |-> "crypto_handshake", msg2 |-> "pin_check_2",
            msg4 |-> "pin_check_4", port |-> "handshake"]
Receiving == DOMAIN Awaited

FlagsOK ==
    /\ shutdown \in BOOLEAN /\ tcp_only \in BOOLEAN
    /\ udp \in BOOLEAN /\ closed \in BOOLEAN
    /\ downUdp \in BOOLEAN /\ upUdp \in BOOLEAN

ValuesOK ==
    /\ pairing_pin \in Pins \cup {NoPin} /\ pin \in Pins
    /\ addrLeft \in 0 .. Addresses
    /\ client \in Receiving \cup {"next", "hello", "pin", "confirm", "greet",
                                  "wait", "ok", "failed"}
    /\ key \in Keys /\ serverKey \in Keys
    /\ server \in {"hello", "pin_check_1", "pin_check_3", "confirm", "greet",
                   "session"}
    /\ state \in States

QueuesOK == down \in Seq(Packet) /\ up \in Seq(Packet)

TypeOK == FlagsOK /\ ValuesOK /\ QueuesOK

Init ==
    /\ shutdown = FALSE /\ tcp_only \in BOOLEAN
    /\ pairing_pin \in Pins \cup {NoPin}
    /\ addrLeft = Addresses /\ client = "next"
    /\ pin = Fallback /\ key = Plain /\ udp = FALSE
    /\ server = "hello" /\ state = "pin_needed" /\ serverKey = Plain
    /\ closed = TRUE
    /\ down = <<>> /\ up = <<>> /\ downUdp = FALSE /\ upUdp = FALSE

----------------------------------------------------------------------------
\* The user: a PIN (nativeSetPin, typed or from a link) and nativeDisconnect.

SetPin(p) ==
    /\ pairing_pin' = p
    /\ UNCHANGED <<shutdown, tcp_only, addrLeft, client, attempt, remote, down,
                   up, udpVars>>

Disconnect ==
    /\ ~shutdown /\ shutdown' = TRUE
    /\ UNCHANGED <<tcp_only, pairing_pin, addrLeft, client, attempt, remote,
                   down, up, udpVars>>

----------------------------------------------------------------------------
\* The connect thread.

\* connect_to_server: the next address, with new sockets, unless the user has
\* given up or none is left.
NextAddress ==
    /\ client = "next"
    /\ IF shutdown \/ addrLeft = 0
       THEN /\ client' = "failed"
            /\ UNCHANGED <<addrLeft, attempt, remote, down, up, udpVars>>
       ELSE /\ addrLeft' = addrLeft - 1
            /\ client' \in {"hello", "next"}
            /\ pin' = Fallback /\ key' = Plain /\ udp' = FALSE
            /\ server' = "hello" /\ serverKey' = Plain
            /\ closed' = (client' = "next")
            /\ down' = <<>> /\ up' = <<>>
            /\ downUdp' = FALSE /\ upUdp' = FALSE
            /\ UNCHANGED state
    /\ UNCHANGED inputs

\* receive looks at shutdown before it polls; the poll may then last ten
\* seconds, and what arrives meanwhile is read all the same.
Awaiting(to) == IF shutdown /\ to \in Receiving THEN "next" ELSE to

\* send_control: a lost connection is noticed now or later.
Send(from, packet, to) ==
    /\ client = from
    /\ \/ /\ client' = Awaiting(to)
          /\ up' = IF closed THEN up ELSE Append(up, packet)
       \/ /\ closed
          /\ client' = "next"
          /\ UNCHANGED up

Hello ==
    /\ Send("hello", Message("crypto_handshake", Plain, FALSE), "answer")
    /\ UNCHANGED <<inputs, addrLeft, attempt, remote, down, udpVars>>

\* receive, and the std::get of the packet awaited; it must be encrypted with
\* the key the client has.
Receive(at) ==
    /\ client = at /\ down # <<>>
    /\ Head(down).type = Awaited[at] /\ Head(down).key = key
    /\ down' = Tail(down)

\* The server's answer decides how to go on; two of them end the attempt.
ReceiveAnswer ==
    /\ Receive("answer")
    /\ client' = CASE state = "pin_needed" -> "pin"
                   [] state \in {"encryption_disabled", "client_already_paired"} ->
                        "confirm"
                   [] OTHER -> "next"
    /\ key' = IF state = "client_already_paired" THEN pin ELSE key
    /\ UNCHANGED <<inputs, addrLeft, pin, udp, remote, up, udpVars>>

\* Variant: the wait for a PIN has no end of its own.
EnterPinWaits ==
    /\ client = "pin"
    /\ pairing_pin # NoPin /\ pin' = pairing_pin
    /\ client' = "msg2"
    /\ up' = IF closed THEN up ELSE Append(up, Message("pin_check_1", Plain, FALSE))
    /\ UNCHANGED <<inputs, addrLeft, key, udp, remote, down, udpVars>>

\* pin_enter: a PIN that is there is used without asking; otherwise the wait
\* ends with one, with the fallback on shutdown or after two minutes, or with
\* the connection.  Then step 1 is sent.
EnterPin ==
    /\ client = "pin"
    /\ \/ /\ pin' = IF pairing_pin = NoPin THEN Fallback ELSE pairing_pin
          /\ client' = Awaiting("msg2")
          /\ up' = IF closed THEN up
                   ELSE Append(up, Message("pin_check_1", Plain, FALSE))
       \/ /\ pairing_pin = NoPin /\ closed
          /\ client' = "next"
          /\ UNCHANGED <<pin, up>>
    /\ UNCHANGED <<inputs, addrLeft, key, udp, remote, down, udpVars>>

ReceiveMsg2 ==
    /\ Receive("msg2")
    /\ client' = Awaiting("msg4")
    /\ up' = IF closed THEN up ELSE Append(up, Message("pin_check_3", Plain, FALSE))
    /\ UNCHANGED <<inputs, addrLeft, attempt, remote, udpVars>>

\* Step 5 says whether both sides used the same PIN; the keys come from it.
ReceiveMsg4 ==
    /\ Receive("msg4")
    /\ IF pin = ServerPin THEN client' = "confirm" /\ key' = pin
                          ELSE client' = "next" /\ UNCHANGED key
    /\ UNCHANGED <<inputs, addrLeft, pin, udp, remote, up, udpVars>>

\* The empty crypto_handshake, the first encrypted packet.
Confirm ==
    /\ Send("confirm", Message("crypto_handshake", key, FALSE), "port")
    /\ UNCHANGED <<inputs, addrLeft, attempt, remote, down, udpVars>>

ReceivePort ==
    /\ Receive("port")
    /\ udp' = (Head(down).port /\ ~tcp_only)
    /\ client' = "greet"
    /\ UNCHANGED <<inputs, addrLeft, pin, key, remote, up, udpVars>>

\* send_stream(handshake): over UDP if there is a stream socket.
Greet ==
    /\ \/ /\ client = "greet" /\ udp
          /\ client' = "wait" /\ upUdp' = TRUE
          /\ UNCHANGED up
       \/ /\ ~udp /\ Send("greet", Message("handshake", key, FALSE), "wait")
          /\ UNCHANGED upUdp
    /\ UNCHANGED <<inputs, addrLeft, attempt, remote, down, downUdp>>

\* Each receive has ten seconds; it also ends with shutdown, with the connection
\* and with a packet that is not the one awaited (std::get throws).
ReceiveEnds ==
    /\ client \in Receiving
    /\ client' = "next"
    /\ UNCHANGED <<inputs, addrLeft, attempt, remote, down, up, udpVars>>

\* The last loop: poll returns how many sockets had something to read, so
\* whatever arrives there is taken for the server's handshake.
WaitAnswered ==
    /\ client = "wait"
    /\ \/ downUdp /\ downUdp' = FALSE /\ UNCHANGED down
       \/ down # <<>> /\ down' = Tail(down) /\ UNCHANGED downUdp
    /\ client' = "ok"
    /\ UNCHANGED <<inputs, addrLeft, attempt, remote, up, upUdp>>

WaitResends ==
    /\ client = "wait" /\ udp
    /\ upUdp' = TRUE
    /\ UNCHANGED <<inputs, addrLeft, client, attempt, remote, down, up, downUdp>>

\* Variant: the loop's end is taken for success.
WaitEndsWell ==
    /\ client = "wait"
    /\ client' = "ok"
    /\ UNCHANGED <<inputs, addrLeft, attempt, remote, down, up, udpVars>>

\* After ten seconds handshake returns without handshake_ok, and with a lost
\* connection it throws; connect_to_server drops the session either way.
WaitEnds ==
    /\ client = "wait"
    /\ client' = "next"
    /\ UNCHANGED <<inputs, addrLeft, attempt, remote, down, up, udpVars>>

----------------------------------------------------------------------------
\* The server.

Reply(from, expected, to, packet) ==
    /\ server = from /\ ~closed
    /\ up # <<>> /\ Head(up) = expected
    /\ up' = Tail(up)
    /\ down' = Append(down, packet)
    /\ server' = to
    /\ UNCHANGED <<inputs, addrLeft, client, attempt, closed, udpVars>>

ServerAnswers ==
    /\ state' \in States
    /\ Reply("hello", Message("crypto_handshake", Plain, FALSE),
             IF state' = "pin_needed" THEN "pin_check_1" ELSE "confirm",
             Message("crypto_handshake", Plain, FALSE))
    /\ serverKey' = IF state' = "client_already_paired" THEN Fallback ELSE Plain

ServerMsg2 ==
    /\ Reply("pin_check_1", Message("pin_check_1", Plain, FALSE), "pin_check_3",
             Message("pin_check_2", Plain, FALSE))
    /\ UNCHANGED <<state, serverKey>>

ServerMsg4 ==
    /\ Reply("pin_check_3", Message("pin_check_3", Plain, FALSE), "confirm",
             Message("pin_check_4", Plain, FALSE))
    /\ serverKey' = ServerPin
    /\ UNCHANGED state

\* It offers a stream port, or none.
ServerOffers ==
    /\ \E port \in BOOLEAN :
          Reply("confirm", Message("crypto_handshake", serverKey, FALSE), "greet",
                Message("handshake", serverKey, port))
    /\ UNCHANGED <<state, serverKey>>

\* It answers the client's handshake where that came.
ServerGreets ==
    \/ /\ Reply("greet", Message("handshake", serverKey, FALSE), "session",
                Message("handshake", serverKey, FALSE))
       /\ UNCHANGED <<state, serverKey>>
    \/ /\ server \in {"greet", "session"} /\ ~closed /\ upUdp
       /\ upUdp' = FALSE /\ downUdp' = TRUE
       /\ server' = "session"
       /\ UNCHANGED <<inputs, addrLeft, client, attempt, state, serverKey, closed,
                      down, up>>

ServerCloses ==
    /\ ~closed /\ closed' = TRUE
    /\ UNCHANGED <<inputs, addrLeft, client, attempt, server, state, serverKey,
                   down, up, udpVars>>

LoseDatagram ==
    /\ \/ upUdp /\ upUdp' = FALSE /\ UNCHANGED downUdp
       \/ downUdp /\ downUdp' = FALSE /\ UNCHANGED upUdp
    /\ UNCHANGED <<inputs, addrLeft, client, attempt, remote, down, up>>

----------------------------------------------------------------------------
ClientStep ==
    \/ NextAddress \/ Hello \/ ReceiveAnswer \/ EnterPin \/ ReceiveMsg2
    \/ ReceiveMsg4 \/ Confirm \/ ReceivePort \/ Greet \/ WaitAnswered

ServerStep ==
    \/ ServerAnswers \/ ServerMsg2 \/ ServerMsg4 \/ ServerOffers \/ ServerGreets
    \/ ServerCloses

Next ==
    \/ \E p \in Pins : SetPin(p)
    \/ Disconnect
    \/ ClientStep \/ ReceiveEnds \/ WaitResends \/ WaitEnds
    \/ ServerStep \/ LoseDatagram

Spec == Init /\ [][Next]_vars

----------------------------------------------------------------------------
\* PROPERTIES

\* When connect_to_server reports a connection, the server has the same view:
\* it has answered the client's handshake, both encrypt with the same key or
\* not at all as the server decided, and a pairing used the PIN the server
\* displays, whatever was lost, typed late or left over from another address.
OkAgrees ==
    client = "ok" =>
        /\ server = "session"
        /\ key = serverKey
        /\ state = "pin_needed" => pin = ServerPin
        /\ state \in {"encryption_disabled", "pin_needed", "client_already_paired"}
        /\ tcp_only => ~udp

\* connect_to_server has returned.
Ended == client \in {"ok", "failed"}
=============================================================================
