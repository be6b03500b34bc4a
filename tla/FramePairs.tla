----------------------------- MODULE FramePairs -----------------------------
(***************************************************************************)
(* The decoded frames of the two eyes, from the decoders' callbacks to the *)
(* render thread.                                                          *)
(*                                                                         *)
(* on_frame_decoded of each stream stores its frame in a ring of three and *)
(* then publishes its index.  wivrn_blit_frame_pair, on the render thread, *)
(* reads the indices and the rings without the mutex, step by step; it     *)
(* also flushes the decoder of stream 1 when it is far behind.  The render *)
(* thread calls it when get_latest_frame finds a frame of stream 0.  The   *)
(* network thread creates the decoders of a session and, when it ends,     *)
(* destroys them and empties the rings.                                    *)
(*                                                                         *)
(* A frame is its index.  The frames a stream delivers are those           *)
(* VideoDecoder can show: each at most one behind the newest               *)
(* (ShownInOrder there).  Copying a slot that is being stored, a race on a *)
(* shared_ptr, is taken to give the old frame or the new one.              *)
(***************************************************************************)
EXTENDS Integers

CONSTANTS MaxFrame,    \* bound: frames 0..MaxFrame of each session
          MaxStores,   \* bound on the frames decoded, all sessions together
          MaxSessions, \* bound on the sessions
          FlushGap     \* the frames stream 1 may be behind, 15 in the code

ASSUME BoundsAssumption ==
    MaxFrame \in Nat /\ MaxStores \in Nat /\ MaxSessions \in Nat
ASSUME GapAssumption == FlushGap \in Nat

Eyes == {0, 1}
Frames == 0..MaxFrame
None == -1   \* no frame: a null pointer

VARIABLES
    ring,     \* decoded_frame_buffers
    latest,   \* latest_decoded_frame_index_per_stream
    decoders, \* streams that have a decoder
    writing,  \* frame stored and not yet published, per stream
    read,     \* render thread: where it is, and the indices it has loaded:
              \* both (idx), and the one of each get_latest_frame (last)
    out,      \* out_frames
    closing,  \* reset_stream_state has emptied the rings of streams < closing
    (* history *)
    sessions, stores,
    best,     \* newest frame published in the session, per stream, else None
    first,    \* first frame published in the session, per stream, else None
    steady,   \* per stream: the frames of the session came one by one
    during,   \* per stream: frames stored since the render thread's loads
    delivering, \* both streams had delivered a frame of this session by then
    ended,    \* a session has ended since the render thread looked for a frame
    lag,      \* how far stream 1 was behind when its index was loaded
    unwarranted \* a flush of a stream 1 that was not that far behind

flushing == <<ended, lag, unwarranted>>
history == <<sessions, stores, best, first, steady, during, delivering, flushing>>
vars == <<ring, latest, decoders, writing, read, out, closing, history>>

-----------------------------------------------------------------------------
FRAME_BUFFER_SIZE == 3

Slot(f) == f % FRAME_BUFFER_SIZE

Empty == [i \in 0..(FRAME_BUFFER_SIZE - 1) |-> None]

\* get_frame
GetFrame(f, s) == IF ring[s][Slot(f)] = f THEN f ELSE None

NoFrames == [s \in Eyes |-> None]
NoIndices == [s \in Eyes |-> 0]
NoneStored == NoIndices

Idle == [at |-> "idle", idx |-> NoIndices, last |-> NoIndices]

\* Where the render thread has yet to load the indices of the pair.
BeforeLoads == {"idle", "look", "gap0", "gap1", "flush", "load0"}

Init ==
    /\ ring = [s \in Eyes |-> Empty]
    /\ latest = [s \in Eyes |-> 0]
    /\ decoders = {}
    /\ writing = NoFrames
    /\ read = Idle
    /\ out = NoFrames
    /\ closing = 0
    /\ sessions = 1 /\ stores = 0
    /\ best = NoFrames
    /\ first = NoFrames
    /\ steady = [s \in Eyes |-> TRUE]
    /\ during = NoneStored /\ delivering = FALSE
    /\ ended = FALSE /\ lag = 0 /\ unwarranted = FALSE

-----------------------------------------------------------------------------
(* The decoders' callbacks, under decoded_frame_mutex *)

Unlocked == \A s \in Eyes : writing[s] = None

\* The newest frame the stream has stored in the session, published or not.
NewestStored(s) == IF writing[s] > best[s] THEN writing[s] ELSE best[s]

\* The frame goes to its slot.
Store(s, f) ==
    /\ Unlocked /\ s \in decoders
    /\ stores < MaxStores /\ f >= best[s] - 1
    /\ ring' = [ring EXCEPT ![s][Slot(f)] = f]
    /\ writing' = [writing EXCEPT ![s] = f]
    /\ stores' = stores + 1
    /\ during' = IF read.at \in BeforeLoads THEN during
                 ELSE [during EXCEPT ![s] = @ + 1]
    /\ steady' = [steady EXCEPT ![s] = @ /\ (best[s] # None => f = best[s] + 1)]
    /\ UNCHANGED <<latest, decoders, read, out, closing, sessions, best, first,
                   delivering, flushing>>

\* Its index is published.
Publish(s) ==
    /\ writing[s] # None
    /\ latest' = [latest EXCEPT ![s] = writing[s]]
    /\ writing' = [writing EXCEPT ![s] = None]
    /\ best' = [best EXCEPT ![s] = IF writing[s] > @ THEN writing[s] ELSE @]
    /\ first' = [first EXCEPT ![s] = IF @ = None THEN writing[s] ELSE @]
    /\ UNCHANGED <<ring, decoders, read, out, closing, sessions, stores, steady,
                   during, delivering, flushing>>

-----------------------------------------------------------------------------
(* The network thread: setup_decoders and reset_stream_state *)

\* The description of the video has arrived: both decoders are created.
SetupDecoders ==
    /\ closing = 0 /\ decoders = {}
    /\ decoders' = Eyes
    /\ UNCHANGED <<ring, latest, writing, read, out, closing, history>>

\* What Reset does but for the slots.
EndSession(s) ==
    /\ Unlocked /\ sessions < MaxSessions
    /\ closing = s
    /\ decoders' = decoders \ {s}
    /\ closing' = (s + 1) % 2
    /\ sessions' = IF s = 1 THEN sessions + 1 ELSE sessions
    /\ best' = [best EXCEPT ![s] = None]
    /\ first' = [first EXCEPT ![s] = None]
    /\ steady' = [steady EXCEPT ![s] = TRUE]
    /\ delivering' = FALSE
    /\ ended' = (read.at \in BeforeLoads \ {"idle", "load0"})
    /\ UNCHANGED <<latest, writing, read, out, stores, during, lag, unwarranted>>

\* Variant: the slots are left as they are.
ResetKeepsFrames(s) == EndSession(s) /\ UNCHANGED ring

\* The decoder of the stream is gone and its slots are emptied; the index it
\* published stays.
Reset(s) == EndSession(s) /\ ring' = [ring EXCEPT ![s] = Empty]

-----------------------------------------------------------------------------
(* The render thread: is there a frame of stream 0 to submit? *)

readIdle == <<ring, latest, decoders, writing, closing, sessions, stores, best,
              first, steady>>

\* get_latest_frame(0), in two steps: the index, then its slot.
LookForFrame ==
    /\ read.at = "idle"
    /\ read' = [read EXCEPT !.at = "look", !.last[0] = latest[0]]
    /\ ended' = FALSE
    /\ UNCHANGED <<readIdle, out, during, delivering, lag, unwarranted>>

\* Variant: the pair is blitted whether there is one or not.
SubmitAnyway ==
    /\ read.at = "look"
    /\ read' = [Idle EXCEPT !.at = "gap0"]
    /\ UNCHANGED <<readIdle, out, during, delivering, flushing>>

\* Only a frame that is there is submitted.
Submit ==
    /\ read.at = "look"
    /\ \/ /\ read.last[0] # 0 /\ GetFrame(read.last[0], 0) # None
          /\ read' = [Idle EXCEPT !.at = "gap0"]
          /\ UNCHANGED ended
       \/ /\ read.last[0] = 0 \/ GetFrame(read.last[0], 0) = None
          /\ read' = Idle
          /\ ended' = FALSE
    /\ UNCHANGED <<readIdle, out, during, delivering, lag, unwarranted>>

-----------------------------------------------------------------------------
(* The render thread: wivrn_blit_frame_pair *)

\* The indices of both streams are loaded, and compared,
Gap0 ==
    /\ read.at = "gap0"
    /\ read' = [read EXCEPT !.at = "gap1", !.idx[0] = latest[0]]
    /\ UNCHANGED <<readIdle, out, during, delivering, flushing>>

Gap1 ==
    /\ read.at = "gap1"
    /\ read' = [Idle EXCEPT !.at =
                    IF /\ read.idx[0] > 0 /\ latest[1] > 0
                       /\ read.idx[0] - latest[1] > FlushGap
                    THEN "flush" ELSE "load0"]
    /\ lag' = IF read'.at = "flush" THEN NewestStored(0) - best[1] ELSE 0
    /\ ended' = (ended /\ read'.at = "flush")
    /\ UNCHANGED <<readIdle, out, during, delivering, unwarranted>>

\* and stream 1 is flushed when they are far apart, if it has a decoder.
Flush ==
    /\ read.at = "flush"
    /\ unwarranted' = (unwarranted \/ (1 \in decoders /\ ~ended /\ lag < FlushGap))
    /\ read' = [read EXCEPT !.at = "load0"]
    /\ lag' = 0 /\ ended' = FALSE
    /\ UNCHANGED <<readIdle, out, during, delivering>>

Load0 ==
    /\ read.at = "load0"
    /\ read' = [read EXCEPT !.at = "load1", !.idx[0] = latest[0]]
    /\ during' = [s \in Eyes |-> IF writing[s] = None THEN 0 ELSE 1]
    /\ delivering' = \A s \in Eyes : best[s] # None
    /\ UNCHANGED <<readIdle, out, flushing>>

Load1 ==
    /\ read.at = "load1"
    /\ read' = [read EXCEPT !.idx[1] = latest[1],
                    !.at = IF read.idx[0] > 0 /\ latest[1] > 0
                           THEN "frame0" ELSE "latest0"]
    /\ UNCHANGED <<readIdle, out, during, delivering, flushing>>

\* Variant: the newer of the two.
ChosenNewer == IF read.idx[0] > read.idx[1] THEN read.idx[0] ELSE read.idx[1]

\* The older of the two frames last published.
Chosen == IF read.idx[0] < read.idx[1] THEN read.idx[0] ELSE read.idx[1]

Frame0 ==
    /\ read.at = "frame0"
    /\ out' = [out EXCEPT ![0] = GetFrame(Chosen, 0)]
    /\ read' = [read EXCEPT !.at = "frame1"]
    /\ UNCHANGED <<readIdle, during, delivering, flushing>>

\* Unless both rings have the chosen frame, each eye gets its latest.
Frame1 ==
    /\ read.at = "frame1"
    /\ out' = [out EXCEPT ![1] = GetFrame(Chosen, 1)]
    /\ read' = [read EXCEPT !.at =
                    IF out[0] # None /\ out'[1] # None THEN "done" ELSE "latest0"]
    /\ UNCHANGED <<readIdle, during, delivering, flushing>>

\* get_latest_frame, in two steps: the index, then its slot.
Latest(s) ==
    /\ read.at = IF s = 0 THEN "latest0" ELSE "latest1"
    /\ read' = [read EXCEPT !.at = IF s = 0 THEN "slot0" ELSE "slot1",
                            !.last[s] = latest[s]]
    /\ UNCHANGED <<readIdle, out, during, delivering, flushing>>

LatestSlot(s) ==
    /\ read.at = IF s = 0 THEN "slot0" ELSE "slot1"
    /\ out' = [out EXCEPT ![s] =
                IF read.last[s] = 0 THEN None ELSE GetFrame(read.last[s], s)]
    /\ read' = [read EXCEPT !.at = IF s = 0 THEN "latest1" ELSE "done"]
    /\ UNCHANGED <<readIdle, during, delivering, flushing>>

\* Both eyes are blitted and the poses of their frames kept for the warp.
Blit ==
    /\ read.at = "done"
    /\ read' = Idle
    /\ out' = NoFrames
    /\ during' = NoneStored /\ delivering' = FALSE
    /\ UNCHANGED <<readIdle, flushing>>

-----------------------------------------------------------------------------
Next ==
    \/ \E s \in Eyes :
        \/ \E f \in Frames : Store(s, f)
        \/ Publish(s) \/ Reset(s) \/ Latest(s) \/ LatestSlot(s)
    \/ SetupDecoders \/ LookForFrame \/ Submit \/ Gap0 \/ Gap1 \/ Flush
    \/ Load0 \/ Load1 \/ Frame0 \/ Frame1 \/ Blit

Spec == Init /\ [][Next]_vars

-----------------------------------------------------------------------------
(* Properties *)

TypeOK ==
    /\ ring \in [Eyes -> [0..(FRAME_BUFFER_SIZE - 1) -> Frames \cup {None}]]
    /\ \A s \in Eyes, i \in 0..(FRAME_BUFFER_SIZE - 1) :
        ring[s][i] = None \/ Slot(ring[s][i]) = i
    /\ latest \in [Eyes -> Frames]
    /\ decoders \in SUBSET Eyes
    /\ {writing, out, best, first} \subseteq [Eyes -> Frames \cup {None}]
    /\ read \in [at : BeforeLoads \cup {"load1", "frame0", "frame1", "latest0",
                                      "slot0", "latest1", "slot1", "done"},
                 idx : [Eyes -> Frames], last : [Eyes -> Frames]]
    /\ closing \in Eyes

\* The streams have been delivering frame by frame since before the loads,
\* and during the read each stored no more than n.
Steady(n) == delivering /\ \A s \in Eyes : steady[s] /\ during[s] <= n

\* The eyes are paired: while both streams deliver frame after frame, one
\* is at most a frame ahead of the other when the indices are loaded, and
\* neither stores more than one frame during the read, both eyes get the same
\* frame (from the second frame of the session, index 0 standing for none).
PairedWhenClose ==
    /\ read.at \in {"frame1", "done"} /\ Steady(1)
    /\ read.idx[0] - read.idx[1] \in -1..1
    /\ \A s \in Eyes : first[s] <= Chosen
    /\ read.idx[0] > 0 /\ read.idx[1] > 0
    => /\ out[0] = Chosen
       /\ read.at = "done" => out[1] = Chosen

\* Neither eye goes blank: with up to two frames stored during the read,
\* a stream that has delivered frame by frame always yields one.
NeverBlank ==
    read.at = "done" /\ Steady(2) =>
        \A s \in Eyes : read.last[s] > 0 => out[s] # None

\* Three slots are enough, while get_frame and get_latest_frame read the rings
\* without the mutex, to pair the eyes and to leave none of them blank.
SlotsSuffice == PairedWhenClose /\ NeverBlank

\* The rings never hold a frame of another session: a slot is empty or holds
\* a frame no newer than the newest of this one.
RingOfSession ==
    \A s \in Eyes : \A i \in 0..(FRAME_BUFFER_SIZE - 1) :
        ring[s][i] > best[s] => ring[s][i] = writing[s]

\* "If stream 1 falls far behind stream 0, flush its decoder so it can catch
\* up": a decoder that is not behind is left alone, though the indices of the
\* last session are still there when the next one begins.  Stream 1 counts as
\* behind when the newest frame it has published in this session is FlushGap
\* frames older than the newest of stream 0, one less than the indices must
\* differ by, as a frame may be published after the next; and a session that
\* ends between the look for a frame and the flush is left out.
FlushOnlyWhenBehind == ~unwarranted
=============================================================================
