------------------------------- MODULE Sockets -------------------------------
(***************************************************************************)
(* A session's two encrypted sockets (wivrn_sockets.cpp) and the poll loop *)
(* that reads them (wivrn_client_pico.h).                                  *)
(*                                                                         *)
(* Control is TCP: several threads write packets, each a length and its    *)
(* payload, enciphered with one running keystream; writes are partial and  *)
(* a read ends anywhere.  A packet is a sequence of units here, the length *)
(* being the first; a unit remembers the keystream position it was         *)
(* enciphered at.  Stream is UDP: one read takes up to Batch datagrams     *)
(* into one buffer, which the packets made of them share.                  *)
(***************************************************************************)
EXTENDS Integers, Sequences, SequencesExt

CONSTANTS Senders,     \* threads that send on the control socket
          Nobody,      \* the mutex is free
          MaxControl, MaxUnits,       \* bounds: control packets, units of one
          Batch,                      \* num_messages of receive_raw
          MaxDatagrams, Buffers       \* bounds: datagrams, buffers alive

ASSUME SocketsAssumption ==
  Nobody \notin Senders /\ Batch \in Nat \ {0} /\ Buffers \in Nat \ {0}

VARIABLES
  packetsSent,  \* control packets sent so far
  sender,       \* each sender: what it has to write, enciphered or not
  tcpMutex,     \* TCP::mutex
  keystream,    \* position of the encrypter
  tcpWire,      \* units written and not read
  data, position,   \* TCP: units read and not delivered; position of the decrypter
  control,      \* control packets delivered (history)
  arrived,      \* datagrams arrived so far
  queue,        \* datagrams in the kernel's buffer
  buffer, bufferSlots,        \* UDP: the current buffer; what the slots of each hold
  messages,     \* UDP: slots read and not delivered, the next one last
  holders,      \* datagrams kept by the assembly: their buffer and slot
  reading       \* the poll loop: "drain", or the sockets found readable

tcpVars     == <<packetsSent, sender, tcpMutex, keystream, tcpWire, data, position, control>>
streamVars  == <<arrived, queue, buffer, bufferSlots, messages, holders>>
socketsVars == <<tcpVars, streamVars, reading>>

Quiet == [units |-> <<>>, enciphered |-> FALSE]

SocketsInit ==
  /\ packetsSent = 0 /\ keystream = 0 /\ position = 0 /\ arrived = 0
  /\ sender = [t \in Senders |-> Quiet] /\ tcpMutex = Nobody
  /\ tcpWire = <<>> /\ data = <<>> /\ control = <<>> /\ queue = <<>> /\ messages = <<>>
  /\ buffer = 1 /\ bufferSlots = [b \in 1..Buffers |-> [i \in 1..Batch |-> 0]] /\ holders = {}
  /\ reading = "drain"

-----------------------------------------------------------------------------
(* TCP::send_raw and send_many_raw                                          *)

(* A thread has one packet to send, or several at once. *)
SendPackets(t, lengths) ==
  /\ sender[t] = Quiet /\ packetsSent + Len(lengths) <= MaxControl
  /\ LET units(k) == [i \in 1..lengths[k] |->
                        [packet |-> packetsSent + k, of |-> lengths[k], key |-> -1]]
     IN sender' = [sender EXCEPT ![t].units = FlattenSeq([k \in DOMAIN lengths |-> units(k)])]
  /\ packetsSent' = packetsSent + Len(lengths)
  /\ UNCHANGED <<tcpMutex, keystream, tcpWire, data, position, control, streamVars, reading>>

Lock(t) ==
  /\ sender[t] # Quiet /\ tcpMutex = Nobody
  /\ tcpMutex' = t
  /\ UNCHANGED <<packetsSent, sender, keystream, tcpWire, data, position, control, streamVars, reading>>

(* Variant: the packet is enciphered before the lock is taken. *)
MayEncipherEarly(t) == TRUE

MayEncipher(t) == tcpMutex = t

Encipher(t) ==
  /\ sender[t] # Quiet /\ ~sender[t].enciphered /\ MayEncipher(t)
  /\ sender' = [sender EXCEPT ![t] =
       [units |-> [i \in DOMAIN @.units |-> [@.units[i] EXCEPT !.key = keystream + i - 1]],
        enciphered |-> TRUE]]
  /\ keystream' = keystream + Len(sender[t].units)
  /\ UNCHANGED <<packetsSent, tcpMutex, tcpWire, data, position, control, streamVars, reading>>

(* sendmsg takes some of what is left; the lock is held until all is gone. *)
Write(t, n) ==
  LET units == sender[t].units IN
  /\ tcpMutex = t /\ sender[t].enciphered /\ n \in 1..Len(units)
  /\ tcpWire' = tcpWire \o SubSeq(units, 1, n)
  /\ IF n = Len(units) THEN sender' = [sender EXCEPT ![t] = Quiet] /\ tcpMutex' = Nobody
     ELSE sender' = [sender EXCEPT ![t].units = SubSeq(@, n + 1, Len(@))] /\ UNCHANGED tcpMutex
  /\ UNCHANGED <<packetsSent, keystream, data, position, control, streamVars, reading>>

-----------------------------------------------------------------------------
(* The network and the owners of received datagrams.                        *)

Arrive ==
  /\ arrived < MaxDatagrams
  /\ arrived' = arrived + 1 /\ queue' = Append(queue, arrived')
  /\ UNCHANGED <<buffer, bufferSlots, messages, holders, tcpVars, reading>>

(* The last packet that shares the datagram's buffer for it is destroyed. *)
Drop(h) ==
  /\ h \in holders /\ holders' = holders \ {h}
  /\ UNCHANGED <<arrived, queue, buffer, bufferSlots, messages, tcpVars, reading>>

-----------------------------------------------------------------------------
(* The poll loop                                                            *)

Whole(units) == units # <<>> /\ Len(units) >= units[1].of

(* What is delivered of the units read, and what is kept. *)
Deliver(units) ==
  IF Whole(units)
  THEN /\ control' = Append(control, units[1].packet)
       /\ data' = SubSeq(units, units[1].of + 1, Len(units))
  ELSE control' = control /\ data' = units

(* The handler of a datagram keeps its payload, a shard, or does not. *)
Handle(b, i) ==
  holders' \in {holders, holders \union {[datagram |-> bufferSlots'[b][i], buf |-> b, slot |-> i]}}

DrainStream ==
  /\ reading = "drain" /\ messages # <<>>
  /\ messages' = Front(messages)
  /\ UNCHANGED bufferSlots /\ Handle(buffer, Last(messages))
  /\ UNCHANGED <<arrived, queue, buffer, tcpVars, reading>>

(* Variant: only the stream socket is asked for what it has pending. *)
ControlPendingNever == FALSE

ControlPending == Whole(data)

DrainControl ==
  /\ reading = "drain" /\ messages = <<>> /\ ControlPending
  /\ Deliver(data)
  /\ UNCHANGED <<packetsSent, sender, tcpMutex, keystream, tcpWire, position, streamVars, reading>>

Poll ==
  /\ reading = "drain" /\ messages = <<>> /\ ~ControlPending
  /\ queue # <<>> \/ tcpWire # <<>>
  /\ reading' = IF queue = <<>> THEN "control" ELSE IF tcpWire = <<>> THEN "stream" ELSE "both"
  /\ UNCHANGED <<tcpVars, streamVars>>

(* Variant: the buffer is always used again. *)
BufferAgain == {buffer}

(* The buffer is used again when no packet shares it, else a new one is made. *)
BufferFor ==
  LET shared == {h.buf : h \in holders} IN
  IF buffer \in shared THEN (1..Buffers) \ shared ELSE {buffer}

(* The datagrams after the first, pushed last to first. *)
PendingSlots(n) == [k \in 1..n - 1 |-> n + 1 - k]

ReceiveStream ==
  /\ reading \in {"stream", "both"}
  /\ reading' = IF reading = "both" THEN "control" ELSE "drain"
  /\ \E b \in BufferFor :
       LET n == IF Len(queue) < Batch THEN Len(queue) ELSE Batch IN
       /\ buffer' = b
       /\ bufferSlots' = [bufferSlots EXCEPT ![b] = [i \in 1..Batch |-> IF i <= n THEN queue[i] ELSE @[i]]]
       /\ messages' = PendingSlots(n)
       /\ queue' = SubSeq(queue, n + 1, Len(queue))
       /\ Handle(b, 1)
  /\ UNCHANGED <<arrived, tcpVars>>

(* recv returns some of what is there; a packet it completes is delivered. *)
ReceiveControl(n) ==
  /\ reading = "control" /\ n \in 1..Len(tcpWire)
  /\ reading' = "drain"
  /\ tcpWire' = SubSeq(tcpWire, n + 1, Len(tcpWire))
  /\ position' = position + n
  /\ Deliver(data \o SubSeq(tcpWire, 1, n))
  /\ UNCHANGED <<packetsSent, sender, tcpMutex, keystream, streamVars>>

Network == \/ DrainStream \/ DrainControl \/ Poll \/ ReceiveStream
           \/ \E n \in 1..MaxControl * MaxUnits : ReceiveControl(n)

Sends(t) == Lock(t) \/ Encipher(t) \/ \E n \in 1..2 * MaxUnits : Write(t, n)

Lengths == {<<n>> : n \in 2..MaxUnits} \union {<<m, n>> : m, n \in 2..MaxUnits}

SocketsNext ==
  \/ \E t \in Senders : Sends(t) \/ \E lengths \in Lengths : SendPackets(t, lengths)
  \/ Arrive \/ \E h \in holders : Drop(h)
  \/ Network

SocketsSpec == SocketsInit /\ [][SocketsNext]_socketsVars

-----------------------------------------------------------------------------
SocketsTypeOK ==
  /\ tcpMutex \in Senders \union {Nobody}
  /\ reading \in {"drain", "stream", "control", "both"}
  /\ keystream \in Nat /\ position \in Nat /\ buffer \in 1..Buffers

(* The peer's decrypter meets every unit at the keystream position it was   *)
(* enciphered at, and the units of a packet together: concurrent senders    *)
(* and partial writes never put the two out of step.                        *)
KeystreamAligned ==
  /\ \A i \in DOMAIN tcpWire : tcpWire[i].key = position + i - 1
  /\ tcpWire # <<>> /\ data # <<>> /\ ~Whole(data) => tcpWire[1].packet = data[1].packet

(* A datagram someone still holds is not overwritten by a later read. *)
HeldIntact == \A h \in holders : bufferSlots[h.buf][h.slot] = h.datagram

(* Every control packet written is delivered in the end, those that came    *)
(* with an earlier one in the same read among them.                         *)
PacketsDelivered == []<>(Len(control) = packetsSent)
=============================================================================
