------------------------------- MODULE Audio -------------------------------
(***************************************************************************)
(* pico_audio (wivrn/audio/pico_audio.cpp): the ring between the network   *)
(* thread and the speaker's data callback, with its count of bytes; the    *)
(* microphone's callback; and the life of the two AAudio streams, which a  *)
(* thread recreates when a device goes away and the destructor closes.     *)
(*                                                                         *)
(* Threads: net (network thread: operator(), set_mic_state, destructor),   *)
(* spk and mic (the data callbacks), err[k] (the error callback of stream  *)
(* k) and worker (recreate_thread).  Memory that is used after it was      *)
(* freed ends the run: fault.                                              *)
(***************************************************************************)
EXTENDS Integers

CONSTANTS
    output_buffer_capacity, \* slots of the ring
    Wrap,                   \* values of a size_t
    Fill, Low, High,        \* 5, 30 and 50 ms of sound
    MaxRequest,             \* what one callback asks for, at most
    MaxSize,                \* bytes of a packet, at most
    MaxPackets,             \* bound: packets of the session
    MaxEvents               \* bound: devices lost and microphone requests

Capacity == output_buffer_capacity
AudioStreams == {"speaker", "microphone"}

ASSUME AudioAssumption ==
    /\ Capacity \in Nat /\ Capacity >= 2
    /\ {Fill, Low, High, MaxRequest, MaxSize} \subseteq Nat \ {0}
    /\ Low < High
    /\ Wrap \in Nat /\ Wrap > Capacity * MaxSize + Fill + MaxSize
    /\ {MaxPackets, MaxEvents} \subseteq Nat

VARIABLES
    slots,              \* output_buffer_storage: [n, size]
    output_read, output_write,
    buffer_size_bytes,
    speaker_tmp,        \* bytes left of the packet being played
    heard,              \* history: the number of the last packet taken
    stream,             \* what the members speaker and microphone point to
    exiting, mic_running,
    mutex,              \* who holds it
    joinable,           \* recreate_thread.joinable()
    worker,             \* [at, of]: recreate_thread, the stream it captured
    err, net, spk, mic, \* where the other threads are
    copies,             \* the destructor's copies of the two members
    session,            \* the session is there
    fault,
    packets, events,    \* counters for the bounds
    overlap             \* history: what overlapped, see Overlaps

ringVars == <<slots, output_read, output_write, buffer_size_bytes,
              speaker_tmp, heard, spk, packets>>
lifeVars == <<stream, exiting, mic_running, mutex, joinable, worker, err, mic,
              copies, session, events, overlap>>
audioVars == <<ringVars, lifeVars, net, fault>>

None == "none"
Overlaps == {"errors", "end", "toggle", "microphone"}
NextSlot(i) == (i + 1) % Capacity

\* The constructor has run: the speaker plays and the microphone waits for
\* set_mic_state; a description may come without either.
AudioInit ==
    /\ slots = [i \in 0 .. Capacity - 1 |-> [n |-> 0, size |-> 0]]
    /\ output_read = 0 /\ output_write = 0
    /\ buffer_size_bytes = 0 /\ speaker_tmp = 0 /\ heard = 0
    /\ stream \in {[speaker |-> s, microphone |-> m] :
                      s \in {"started", None}, m \in {"stopped", None}}
    /\ exiting = FALSE /\ mic_running = FALSE
    /\ mutex = None /\ joinable = FALSE
    /\ worker = [at |-> None, of |-> "speaker"]
    /\ err = [k \in AudioStreams |-> "idle"]
    /\ net = [at |-> "idle", size |-> 0, want |-> FALSE]
    /\ spk = [at |-> "idle", need |-> 0, size |-> 0]
    /\ mic = "idle"
    /\ copies = [k \in AudioStreams |-> None]
    /\ session = TRUE /\ fault = None
    /\ packets = 0 /\ events = 0 /\ overlap = {}

Pending == worker.at # None \/ \E k \in AudioStreams : err[k] # "idle"

----------------------------------------------------------------------------
\* The network thread puts a packet in the ring, operator().

\* A packet comes; a full ring refuses it.
Push(size) ==
    /\ net.at = "idle" /\ packets < MaxPackets
    /\ packets' = packets + 1
    /\ net' = IF NextSlot(output_write) = output_read
              THEN net
              ELSE [net EXCEPT !.at = "write", !.size = size]
    /\ UNCHANGED <<slots, output_read, output_write, buffer_size_bytes,
                   speaker_tmp, heard, spk, lifeVars, fault>>

PushWrite ==
    /\ net.at = "write"
    /\ slots' = [slots EXCEPT ![NextSlot(output_write)] =
                                [n |-> packets, size |-> net.size]]
    /\ net' = [net EXCEPT !.at = "publish"]
    /\ UNCHANGED <<output_read, output_write, buffer_size_bytes, speaker_tmp,
                   heard, spk, packets, lifeVars, fault>>

PushPublish ==
    /\ net.at = "publish"
    /\ output_write' = NextSlot(output_write)
    /\ net' = [net EXCEPT !.at = "count"]
    /\ UNCHANGED <<slots, output_read, buffer_size_bytes, speaker_tmp, heard,
                   spk, packets, lifeVars, fault>>

\* The bytes are counted once the packet is there for the taking.
PushCount ==
    /\ net.at = "count"
    /\ buffer_size_bytes' = (buffer_size_bytes + net.size) % Wrap
    /\ net' = [net EXCEPT !.at = "idle"]
    /\ UNCHANGED <<slots, output_read, output_write, speaker_tmp, heard, spk,
                   packets, lifeVars, fault>>

----------------------------------------------------------------------------
\* The speaker's data callback.

SpeakerCallback ==
    /\ spk.at = "idle" /\ stream["speaker"] = "started" /\ net.at # "gone"
    /\ IF exiting
       THEN /\ stream' = [stream EXCEPT !["speaker"] = "stopped"]
            /\ UNCHANGED spk
       ELSE /\ \E n \in 1 .. MaxRequest :
                  spk' = [spk EXCEPT !.at = "play", !.need = n]
            /\ UNCHANGED stream
    /\ UNCHANGED <<slots, output_read, output_write, buffer_size_bytes,
                   speaker_tmp, heard, packets, exiting, mic_running, mutex,
                   joinable, worker, err, mic, copies, session, events,
                   overlap, net, fault>>

Smaller(a, b) == IF a < b THEN a ELSE b

\* Bytes of the packet at hand, else the next packet, else silence.
Play ==
    /\ spk.at = "play"
    /\ LET take == Smaller(speaker_tmp, spk.need) IN
       \/ /\ spk.need = 0
          /\ spk' = [spk EXCEPT !.at = "check"]
          /\ UNCHANGED <<speaker_tmp, buffer_size_bytes>>
       \/ /\ take > 0
          /\ speaker_tmp' = speaker_tmp - take
          /\ buffer_size_bytes' = (buffer_size_bytes - take) % Wrap
          /\ spk' = [spk EXCEPT !.need = @ - take]
       \/ /\ spk.need > 0 /\ speaker_tmp = 0 /\ output_read # output_write
          /\ spk' = [spk EXCEPT !.at = "move"]
          /\ UNCHANGED <<speaker_tmp, buffer_size_bytes>>
       \/ /\ spk.need > 0 /\ speaker_tmp = 0 /\ output_read = output_write
          /\ speaker_tmp' = Fill
          /\ buffer_size_bytes' = (buffer_size_bytes + Fill) % Wrap
          /\ UNCHANGED spk
    /\ UNCHANGED <<slots, output_read, output_write, heard, packets, lifeVars,
                   net, fault>>

\* Variant: the slot at output_read is taken, not the next.
PlayMoveOld ==
    /\ spk.at = "move"
    /\ speaker_tmp' = slots[output_read].size
    /\ heard' = slots[output_read].n
    /\ spk' = [spk EXCEPT !.at = "advance"]
    /\ UNCHANGED <<slots, output_read, output_write, buffer_size_bytes,
                   packets, lifeVars, net, fault>>

PlayMove ==
    /\ spk.at = "move"
    /\ speaker_tmp' = slots[NextSlot(output_read)].size
    /\ heard' = slots[NextSlot(output_read)].n
    /\ spk' = [spk EXCEPT !.at = "advance"]
    /\ UNCHANGED <<slots, output_read, output_write, buffer_size_bytes,
                   packets, lifeVars, net, fault>>

PlayAdvance ==
    /\ spk.at = "advance"
    /\ output_read' = NextSlot(output_read)
    /\ spk' = [spk EXCEPT !.at = "play"]
    /\ UNCHANGED <<slots, output_write, buffer_size_bytes, speaker_tmp, heard,
                   packets, lifeVars, net, fault>>

\* Too much sound is waiting: skip packets until it is Low again.
PlayCheck ==
    /\ spk.at \in {"check", "drop"}
    /\ spk' = [spk EXCEPT !.at =
         IF spk.at = "check" /\ buffer_size_bytes > High THEN "drop"
         ELSE IF spk.at = "drop" /\ buffer_size_bytes > Low THEN "skip"
         ELSE "idle"]
    /\ UNCHANGED <<slots, output_read, output_write, buffer_size_bytes,
                   speaker_tmp, heard, packets, lifeVars, net, fault>>

Skip ==
    /\ spk.at = "skip"
    /\ IF output_read = output_write
       THEN /\ spk' = [spk EXCEPT !.at = "idle"]
            /\ UNCHANGED output_read
       ELSE /\ spk' = [spk EXCEPT !.at = "uncount",
                                  !.size = slots[NextSlot(output_read)].size]
            /\ output_read' = NextSlot(output_read)
    /\ UNCHANGED <<slots, output_write, buffer_size_bytes, speaker_tmp, heard,
                   packets, lifeVars, net, fault>>

\* Variant: a packet that is skipped stays counted.
SkipKeepsCount ==
    /\ spk.at = "uncount"
    /\ UNCHANGED buffer_size_bytes
    /\ spk' = [spk EXCEPT !.at = "drop"]
    /\ UNCHANGED <<slots, output_read, output_write, speaker_tmp, heard,
                   packets, lifeVars, net, fault>>

SkipUncount ==
    /\ spk.at = "uncount"
    /\ buffer_size_bytes' = (buffer_size_bytes - spk.size) % Wrap
    /\ spk' = [spk EXCEPT !.at = "drop"]
    /\ UNCHANGED <<slots, output_read, output_write, speaker_tmp, heard,
                   packets, lifeVars, net, fault>>

SpeakerStep ==
    SpeakerCallback \/ Play \/ PlayMove \/ PlayAdvance \/ PlayCheck \/ Skip
    \/ SkipUncount

----------------------------------------------------------------------------
\* The microphone: requests on the network thread, and its data callback.

\* A requestStop, a requestStart through a member; closed memory is a fault.
Request(k, state) ==
    IF stream[k] = "closed" THEN fault' = "freed" /\ UNCHANGED stream
    ELSE /\ UNCHANGED fault
         /\ stream' = IF stream[k] \in {"stopped", "started"}
                      THEN [stream EXCEPT ![k] = state] ELSE stream

\* feature_control: set_mic_state looks at the member and swaps the flag ...
SetMicState(running) ==
    /\ net.at = "idle" /\ events < MaxEvents
    /\ stream["microphone"] # None
    /\ events' = events + 1
    /\ mic_running' = running
    /\ net' = IF mic_running = running THEN net
              ELSE [net EXCEPT !.at = "mic", !.want = running]
    /\ overlap' = IF Pending \/ mic = "ending"
                  THEN overlap \cup {"toggle"} ELSE overlap
    /\ UNCHANGED <<ringVars, stream, exiting, mutex, joinable, worker, err,
                   mic, copies, session, fault>>

\* ... and then asks the stream, whichever the member points to by now.
SetMicRequest ==
    /\ net.at = "mic"
    /\ Request("microphone", IF net.want THEN "started" ELSE "stopped")
    /\ net' = [net EXCEPT !.at = "idle"]
    /\ overlap' = IF Pending \/ mic = "ending"
                  THEN overlap \cup {"toggle"} ELSE overlap
    /\ UNCHANGED <<ringVars, exiting, mic_running, mutex, joinable, worker,
                   err, mic, copies, session, events>>

MicrophoneCallback ==
    /\ mic = "idle" /\ stream["microphone"] = "started" /\ net.at # "gone"
    /\ IF exiting
       THEN /\ stream' = [stream EXCEPT !["microphone"] = "stopped"]
            /\ mic_running' = FALSE
            /\ UNCHANGED mic
       ELSE /\ mic' = "send"
            /\ UNCHANGED <<stream, mic_running>>
    /\ UNCHANGED <<ringVars, exiting, mutex, joinable, worker, err, copies,
                   session, events, overlap, net, fault>>

\* send_control through the reference to the session.  It throws when the
\* connection is lost, and the callback then asks to be the last ...
MicrophoneSend ==
    /\ mic = "send"
    /\ \/ /\ session
          /\ mic' = "idle"
          /\ UNCHANGED <<mic_running, fault, overlap>>
       \/ /\ session
          /\ mic' = "ending"
          /\ mic_running' = FALSE
          /\ overlap' = IF net.at = "mic" THEN overlap \cup {"toggle"} ELSE overlap
          /\ UNCHANGED fault
       \/ /\ ~session
          /\ fault' = "session"
          /\ UNCHANGED <<mic, mic_running, overlap>>
    /\ UNCHANGED <<ringVars, stream, exiting, mutex, joinable, worker, err,
                   copies, session, events, net>>

\* ... which AAudio does when it returns.
MicrophoneEnds ==
    /\ mic = "ending"
    /\ mic' = "idle"
    /\ stream' = [stream EXCEPT !["microphone"] =
                                  IF @ = "started" THEN "stopped" ELSE @]
    /\ UNCHANGED <<ringVars, exiting, mic_running, mutex, joinable, worker, err,
                   copies, session, events, overlap, net, fault>>

----------------------------------------------------------------------------
\* A device goes away: the error callback has recreate_thread open the
\* stream again (recreate_stream).

\* External: AAudio reports the disconnection of an open stream, once.
DeviceLost(k) ==
    /\ stream[k] \in {"stopped", "started"} /\ events < MaxEvents
    /\ err[k] = "idle" /\ net.at # "gone"
    /\ events' = events + 1
    /\ stream' = [stream EXCEPT ![k] = "broken"]
    /\ err' = [err EXCEPT ![k] = "check"]
    /\ overlap' = overlap
         \cup (IF Pending THEN {"errors"} ELSE {})
         \cup (IF net.at = "mic" THEN {"toggle"} ELSE {})
         \cup (IF ~session THEN {"end"} ELSE {})
    /\ UNCHANGED <<ringVars, exiting, mic_running, mutex, joinable, worker,
                   mic, copies, session, net, fault>>

ErrorCheck(k) ==
    /\ err[k] = "check" /\ net.at # "gone"
    /\ err' = [err EXCEPT ![k] = IF exiting THEN "idle" ELSE "lock"]
    /\ UNCHANGED <<ringVars, stream, exiting, mic_running, mutex, joinable,
                   worker, mic, copies, session, events, overlap, net, fault>>

ErrorLock(k) ==
    /\ err[k] = "lock" /\ mutex = None /\ net.at # "gone"
    /\ mutex' = k
    /\ err' = [err EXCEPT ![k] = "join"]
    /\ UNCHANGED <<ringVars, stream, exiting, mic_running, joinable, worker,
                   mic, copies, session, events, overlap, net, fault>>

\* The mutex is held while the previous recreate_thread is joined, and that
\* thread begins by taking it.
ErrorSpawn(k) ==
    /\ err[k] = "join" /\ (joinable => worker.at = None)
    /\ joinable' = TRUE
    /\ worker' = [at |-> "lock", of |-> k]
    /\ mutex' = None
    /\ err' = [err EXCEPT ![k] = "idle"]
    /\ UNCHANGED <<ringVars, stream, exiting, mic_running, mic, copies,
                   session, events, overlap, net, fault>>

WorkerLock ==
    /\ worker.at = "lock" /\ mutex = None
    /\ mutex' = "worker"
    /\ worker' = [worker EXCEPT !.at = "close"]
    /\ UNCHANGED <<ringVars, stream, exiting, mic_running, joinable, err, mic,
                   copies, session, events, overlap, net, fault>>

\* External: closing a stream waits for its callback.
CallbackDone(k) == IF k = "speaker" THEN spk.at = "idle" ELSE mic = "idle"

WorkerClose ==
    /\ worker.at = "close" /\ CallbackDone(worker.of)
    /\ IF stream[worker.of] = "closed"
       THEN fault' = "freed" /\ UNCHANGED <<stream, copies>>
       ELSE /\ stream' = [stream EXCEPT ![worker.of] = "closed"]
            /\ copies' = [copies EXCEPT ![worker.of] =
                                          IF @ = "live" THEN "dead" ELSE @]
            /\ UNCHANGED fault
    /\ worker' = [worker EXCEPT !.at = "build"]
    /\ UNCHANGED <<ringVars, exiting, mic_running, mutex, joinable, err, mic,
                   session, events, overlap, net>>

\* build_speaker, build_microphone: openStream sets the member, to null when
\* the device refuses it (the start of a null speaker is refused as well) ...
WorkerBuild ==
    /\ worker.at = "build"
    /\ \E opened \in {"stopped", None} :
          stream' = [stream EXCEPT ![worker.of] = opened]
    /\ worker' = [worker EXCEPT !.at = "finish"]
    /\ UNCHANGED <<ringVars, exiting, mic_running, mutex, joinable, err, mic,
                   copies, session, events, overlap, net, fault>>

\* Variant: the new microphone counts as running.
WorkerKeepsFlag ==
    /\ worker.at = "finish"
    /\ IF worker.of = "speaker"
       THEN Request("speaker", "started") /\ UNCHANGED mic_running
       ELSE UNCHANGED <<stream, fault, mic_running>>
    /\ worker' = [worker EXCEPT !.at = None]
    /\ mutex' = None
    /\ UNCHANGED <<ringVars, exiting, joinable, err, mic, copies, session,
                   events, overlap, net>>

\* Variant: recreate_thread ends with the mutex held.
WorkerKeepsMutex ==
    /\ worker.at = "finish"
    /\ IF worker.of = "speaker"
       THEN Request("speaker", "started") /\ UNCHANGED mic_running
       ELSE mic_running' = FALSE /\ UNCHANGED <<stream, fault>>
    /\ worker' = [worker EXCEPT !.at = None]
    /\ UNCHANGED mutex
    /\ UNCHANGED <<ringVars, exiting, joinable, err, mic, copies, session,
                   events, overlap, net>>

\* ... then the speaker is started, the microphone marked as not running.
WorkerFinish ==
    /\ worker.at = "finish"
    /\ IF worker.of = "speaker"
       THEN Request("speaker", "started") /\ UNCHANGED mic_running
       ELSE mic_running' = FALSE /\ UNCHANGED <<stream, fault>>
    /\ worker' = [worker EXCEPT !.at = None]
    /\ mutex' = None
    /\ UNCHANGED <<ringVars, exiting, joinable, err, mic, copies, session,
                   events, overlap, net>>

----------------------------------------------------------------------------
\* The connection ends: the session is deleted, then reset_stream_state
\* deletes the pico_audio, all on the network thread.

EndSession ==
    /\ net.at = "idle" /\ session
    /\ session' = FALSE
    /\ net' = [net EXCEPT !.at = "exit"]
    /\ overlap' = overlap
         \cup (IF Pending THEN {"end"} ELSE {})
         \cup (IF stream["microphone"] = "started" \/ mic = "send"
               THEN {"microphone"} ELSE {})
    /\ UNCHANGED <<ringVars, stream, exiting, mic_running, mutex, joinable,
                   worker, err, mic, copies, events, fault>>

Exit ==
    /\ net.at = "exit"
    /\ exiting' = TRUE
    /\ net' = [net EXCEPT !.at = "stop"]
    /\ UNCHANGED <<ringVars, stream, mic_running, mutex, joinable, worker, err,
                   mic, copies, session, events, overlap, fault>>

ExitStop ==
    /\ net.at = "stop"
    /\ LET asked == {"speaker"} \cup
                    (IF mic_running THEN {"microphone"} ELSE {})
       IN  IF \E k \in asked : stream[k] = "closed"
           THEN fault' = "freed" /\ UNCHANGED stream
           ELSE /\ stream' = [k \in AudioStreams |->
                     IF k \in asked /\ stream[k] = "started"
                     THEN "stopped" ELSE stream[k]]
                /\ UNCHANGED fault
    /\ net' = [net EXCEPT !.at = "copy"]
    /\ UNCHANGED <<ringVars, exiting, mic_running, mutex, joinable, worker,
                   err, mic, copies, session, events, overlap>>

\* The loop over {speaker, microphone} copies both members first.
DestroyCopy ==
    /\ net.at = "copy"
    /\ copies' = [k \in AudioStreams |-> CASE stream[k] = None -> None
                                      [] stream[k] = "closed" -> "dead"
                                      [] OTHER -> "live"]
    /\ net' = [net EXCEPT !.at = "close speaker"]
    /\ UNCHANGED <<ringVars, stream, exiting, mic_running, mutex, joinable,
                   worker, err, mic, session, events, overlap, fault>>

DestroyClose(k) ==
    /\ net.at = IF k = "speaker" THEN "close speaker" ELSE "close microphone"
    /\ copies[k] = "live" => CallbackDone(k)
    /\ stream' = IF copies[k] = "live"
                 THEN [stream EXCEPT ![k] = "closed"] ELSE stream
    /\ fault' = IF copies[k] = "dead" THEN "freed" ELSE fault
    /\ net' = [net EXCEPT !.at =
                 IF k = "speaker" THEN "close microphone" ELSE "lock"]
    /\ UNCHANGED <<ringVars, exiting, mic_running, mutex, joinable, worker,
                   err, mic, copies, session, events, overlap>>

DestroyLock ==
    /\ net.at = "lock" /\ mutex = None
    /\ mutex' = "net"
    /\ net' = [net EXCEPT !.at = "join"]
    /\ UNCHANGED <<ringVars, stream, exiting, mic_running, joinable, worker,
                   err, mic, copies, session, events, overlap, fault>>

DestroyJoin ==
    /\ net.at = "join" /\ (joinable => worker.at = None)
    /\ joinable' = FALSE /\ mutex' = None
    /\ net' = [net EXCEPT !.at = "gone"]
    /\ UNCHANGED <<ringVars, stream, exiting, mic_running, worker, err, mic,
                   copies, session, events, overlap, fault>>

\* A callback that comes after that finds the object gone.
Survivor(k) ==
    /\ net.at = "gone"
    /\ stream[k] = "started" \/ err[k] # "idle"
    /\ fault' = "freed"
    /\ UNCHANGED <<ringVars, lifeVars, net>>

----------------------------------------------------------------------------
NetStep ==
    \/ \E size \in 1 .. MaxSize : Push(size)
    \/ PushWrite \/ PushPublish \/ PushCount
    \/ \E running \in BOOLEAN : SetMicState(running)
    \/ SetMicRequest
    \/ EndSession \/ Exit \/ ExitStop \/ DestroyCopy
    \/ \E k \in AudioStreams : DestroyClose(k)
    \/ DestroyLock \/ DestroyJoin

WorkerStep == WorkerLock \/ WorkerClose \/ WorkerBuild \/ WorkerFinish
ErrorStep(k) == ErrorCheck(k) \/ ErrorLock(k) \/ ErrorSpawn(k)

AudioNext ==
    /\ fault = None
    /\ \/ NetStep \/ SpeakerStep \/ MicrophoneCallback \/ MicrophoneSend
       \/ MicrophoneEnds \/ WorkerStep
       \/ \E k \in AudioStreams : DeviceLost(k) \/ ErrorStep(k) \/ Survivor(k)

AudioSpec == AudioInit /\ [][AudioNext]_audioVars

----------------------------------------------------------------------------
\* PROPERTIES

\* What the first packets of the ring add up to, a recursive function.
Sizes == [k \in Nat |-> slots[(output_read + k) % Capacity].size]
Total(size) ==
    LET sum[n \in Nat] == IF n = 0 THEN 0 ELSE sum[n - 1] + size[n]
    IN  sum

\* The bytes that are there to be played: what is left of the packet at hand
\* and the packets of the ring, one that is being moved only once.
Waiting ==
    speaker_tmp + Total(Sizes)[(output_write - output_read) % Capacity]
                - (IF spk.at = "advance" THEN Sizes[1] ELSE 0)

\* buffer_size_bytes says how much is waiting, from which the callback decides
\* to skip packets: it differs only by the packet the network thread has
\* published and not yet counted (then it may even go below zero and wrap) and
\* by the one being skipped, and no interleaving lets it drift.
CountFollows ==
    buffer_size_bytes =
        (Waiting + (IF spk.at = "uncount" THEN spk.size ELSE 0)
                 - (IF net.at = "count" THEN net.size ELSE 0)) % Wrap

RingTypes ==
    /\ slots \in [0 .. Capacity - 1 -> [n : 0 .. MaxPackets, size : 0 .. MaxSize]]
    /\ {output_read, output_write} \subseteq 0 .. Capacity - 1
    /\ buffer_size_bytes \in 0 .. Wrap - 1
    /\ speaker_tmp \in 0 .. (Fill + MaxSize)
    /\ heard \in 0 .. MaxPackets /\ packets \in 0 .. MaxPackets
    /\ spk \in [at : {"idle", "play", "move", "advance", "check", "drop",
                      "skip", "uncount"},
                need : 0 .. MaxRequest, size : 0 .. MaxSize]

NetTypes ==
    net \in [at : {"idle", "write", "publish", "count", "mic", "exit", "stop",
                   "copy", "close speaker", "close microphone", "lock",
                   "join", "gone"},
             size : 0 .. MaxSize, want : BOOLEAN]

LifeTypes ==
    /\ stream \in [AudioStreams -> {None, "stopped", "started", "broken", "closed"}]
    /\ exiting \in BOOLEAN /\ mic_running \in BOOLEAN
    /\ joinable \in BOOLEAN /\ session \in BOOLEAN
    /\ mutex \in {None, "net", "worker"} \cup AudioStreams
    /\ worker \in [at : {None, "lock", "close", "build", "finish"}, of : AudioStreams]
    /\ err \in [AudioStreams -> {"idle", "check", "lock", "join"}]
    /\ mic \in {"idle", "send", "ending"}
    /\ copies \in [AudioStreams -> {None, "live", "dead"}]
    /\ fault \in {None, "freed", "session"}
    /\ events \in 0 .. MaxEvents /\ overlap \subseteq Overlaps

\* The types, and what the ring and its counter have to agree on.
AudioTypeOK == RingTypes /\ NetTypes /\ LifeTypes /\ CountFollows

\* Packets are played in the order they came, each at most once, though some
\* are refused and some skipped.
HeardInOrder ==
    [][spk.at = "move" /\ spk'.at = "advance" => heard' > heard]_audioVars

\* Two threads stuck on each other: recreate_thread waits for the mutex whose
\* holder waits for recreate_thread.
Deadlocked ==
    /\ joinable /\ worker.at = "lock"
    /\ net.at = "join" \/ \E k \in AudioStreams : err[k] = "join"

\* The streams are shared with little locking.  Freed memory is used, or two
\* threads block each other, only if two devices are lost together, one is
\* lost while the session ends, or the server switches the microphone during
\* a recreation; and a deleted session is used only if the microphone was on
\* when it was deleted.
FaultNeedsOverlap ==
    /\ fault = "session" => "microphone" \in overlap
    /\ fault = "freed" \/ Deadlocked =>
          overlap \cap {"errors", "end", "toggle"} # {}

\* As long as no request met a recreation or a callback that ends, mic_running
\* says whether the microphone runs, so that the next request is not swallowed.
MicFollowsFlag ==
    /\ "toggle" \notin overlap /\ session /\ fault = None /\ ~Pending
    /\ net.at # "mic" /\ mic # "ending"
    => (mic_running <=> stream["microphone"] = "started")

\* Neither fault, deadlock nor a wrong flag comes from less than an overlap.
OverlapNeeded == FaultNeedsOverlap /\ MicFollowsFlag

\* Nobody waits for ever, except in that deadlock: once the connection ends the
\* destructor returns, and before, a speaker that was lost plays again.
Failed == fault # None \/ Deadlocked
NobodyStuck ==
    []<>(\/ net.at = "gone" \/ Failed
         \/ session /\ stream["speaker"] \in {None, "started"})
=============================================================================
