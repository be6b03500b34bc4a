------------------------------ MODULE MCNetwork ------------------------------
(***************************************************************************)
(* Instances for TLC of five parts of a connection that share no variable: *)
(* the handshake, the comparison of PINs, the sockets, the assembly of     *)
(* frames and the sound.  A behaviour is one of one part, chosen at the    *)
(* start, with the others at rest.                                         *)
(***************************************************************************)
EXTENDS Handshake, PinCheck, Audio, Sockets, FrameAssembly

VARIABLE part

MCPins == {"000000", "right", "wrong"}

(* Frames of one, two and three shards, so that a set that is not emptied   *)
(* could be completed by shards of another frame.                           *)
MCLastShard == [f \in 0..MaxFrame |-> (f + 1) % 3]

(* A hash into few values, so that different numbers may have the same. *)
MCHash(version, a, b) == (5 * version + 3 * a + 7 * b) % 16

networkVars == <<part, vars, pinVars, audioVars, socketsVars, assemblyVars>>

NetworkInit ==
  /\ part \in {"handshake", "pin", "audio", "sockets", "assembly"}
  /\ Init /\ PinInit /\ AudioInit /\ SocketsInit /\ AssemblyInit
  /\ part # "handshake" => pairing_pin = "000000" /\ ~tcp_only
  /\ part # "audio" => stream["speaker"] # None /\ stream["microphone"] # None

(* Only part p moves. *)
Only(p) ==
  /\ UNCHANGED part
  /\ p # "handshake" => UNCHANGED vars
  /\ p # "pin" => UNCHANGED pinVars
  /\ p # "audio" => UNCHANGED audioVars
  /\ p # "sockets" => UNCHANGED socketsVars
  /\ p # "assembly" => UNCHANGED assemblyVars

NetworkNext ==
  \/ part = "handshake" /\ Next         /\ Only("handshake")
  \/ part = "pin"       /\ PinNext      /\ Only("pin")
  \/ part = "audio"     /\ AudioNext    /\ Only("audio")
  \/ part = "sockets"   /\ SocketsNext  /\ Only("sockets")
  \/ part = "assembly"  /\ AssemblyNext /\ Only("assembly")

(* The fairness of the parts, their conditions numbered: as a part stays    *)
(* chosen, one condition may serve a step of each.  The connect thread runs *)
(* on and its deadlines pass, the server owes nothing; AAudio keeps calling *)
(* a started stream; whoever waits for a mutex finds it free for good in    *)
(* the end, as each is taken a few times only; network thread and senders   *)
(* run on; the server describes its streams, and what it sends over TCP     *)
(* arrives.                                                                 *)
Fair(k) ==
  \/ /\ part = "handshake" /\ \/ k = 1 /\ ClientStep
                              \/ k = 2 /\ ReceiveEnds
                              \/ k = 3 /\ WaitEnds
     /\ Only("handshake")
  \/ /\ part = "audio" /\ fault = None
     /\ \/ k = 1 /\ SpeakerStep
        \/ k = 2 /\ (MicrophoneSend \/ MicrophoneEnds)
        \/ k = 3 /\ WorkerStep
        \/ k = 4 /\ net.at # "idle" /\ NetStep
        \/ k = 5 /\ ErrorStep("speaker")
        \/ k = 6 /\ ErrorStep("microphone")
     /\ Only("audio")
  \/ /\ part = "sockets" /\ \/ k = 1 /\ Network
                            \/ k = 2 /\ \E t \in Senders : Sends(t)
     /\ Only("sockets")
  \/ /\ part = "assembly"
     /\ \/ k = 1 /\ Describe
        \/ \E s \in Streams : \E f \in 0..MaxFrame : \E i \in 0..LastShard[f] :
             k = s + 2 /\ ReceiveShard(s, f, i)
     /\ Only("assembly")

NetworkSpec ==
  /\ NetworkInit /\ [][NetworkNext]_networkVars
  /\ \A k \in 1 .. 6 : WF_networkVars(Fair(k))

(* Every variable keeps to its type. *)
NetworkTypeOK == TypeOK /\ PinTypeOK /\ AudioTypeOK /\ SocketsTypeOK /\ AssemblyTypeOK

(* Every call of connect_to_server returns, with a server that falls silent *)
(* at any point, answers late or hangs up, and a user who types no PIN.     *)
HandshakeEnds == []<>(part = "handshake" => Ended)

(* Neither the thread that connects nor those of the sound wait for ever. *)
NobodyWaits == HandshakeEnds /\ NobodyStuck
=============================================================================
