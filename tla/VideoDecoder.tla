---------------------------- MODULE VideoDecoder ----------------------------
(***************************************************************************)
(* pico_video_decoder: one MediaCodec decoder and the threads around it.   *)
(*                                                                         *)
(*   network   push_data, then frame_completed; in the end the destructor  *)
(*   input     input_loop: pending_frames -> codec                         *)
(*   output    output_loop: codec -> images of the AImageReader            *)
(*   callback  on_image_available: joins an image with its frame_info      *)
(*   render    flush, called by the render thread                          *)
(*                                                                         *)
(* A frame is its index: the data, the view info and the timestamps that   *)
(* travel with it are left out, and so is what a repeated push appends to  *)
(* a frame that is still pending.  The frames pushed are those             *)
(* FrameAssembly can push: each at most one behind the newest              *)
(* (OvertakenByOne there), any of them repeated.                           *)
(***************************************************************************)
EXTENDS Integers, Sequences, SequencesExt

CONSTANTS MaxFrame,  \* bound: frames 0..MaxFrame
          MaxPushes, \* bound on the frames pushed, repetitions included
          MaxFlushes,\* bound on the flushes
          Buffers,   \* input buffers of the codec
          Reorders   \* the codec ignores the request not to reorder frames

ASSUME FramesAssumption == MaxFrame \in Nat
ASSUME BoundsAssumption == MaxPushes \in Nat /\ MaxFlushes \in Nat
ASSUME CodecAssumption == Buffers \in Nat \ {0} /\ Reorders \in BOOLEAN

VARIABLES
    exiting,  \* the atomic flags
    flushing,
    pending,  \* pending_frames
    infos,    \* pending_frame_infos
    net,      \* network thread: where it is, and the frame it pushes
    input,    \* input thread: where it is, its frame, whether its buffer
              \* index was handed out since the codec's last flush
    output,   \* output thread, likewise
    callback, \* image callback: where it is, and its frame
    render,   \* render thread: the step of flush() it is at
    queued,   \* codec: frames queued for decoding
    done,     \* codec: decoded frames not yet dequeued
    taken,    \* codec: input buffers dequeued and not given back
    images,   \* AImageReader: images not yet acquired
    shown,    \* the last frame given to on_frame_decoded, -1 before
    (* history *)
    pushes, flushes,
    newest,      \* greatest frame pushed
    newestImage, \* greatest frame whose image was handled
    newestShown, \* greatest frame shown
    recorded,    \* frames whose info was recorded since infos was cleared
    early,       \* frames whose image was handled before their info came
    missed       \* the destructor's notification found input before its wait

codec   == <<queued, done, taken, images>>
history == <<pushes, flushes, newest, newestImage, newestShown, recorded,
             early, missed>>
vars == <<exiting, flushing, pending, infos, net, input, output, callback,
          render, codec, shown, history>>

Frames == 0..MaxFrame

-----------------------------------------------------------------------------
Init ==
    /\ exiting = FALSE /\ flushing = FALSE
    /\ pending = <<>> /\ infos = <<>>
    /\ net = [at |-> "idle", frame |-> 0]
    /\ input = [at |-> "top", frame |-> 0, fresh |-> FALSE]
    /\ output = [at |-> "top", frame |-> 0, fresh |-> FALSE]
    /\ callback = [at |-> "idle", frame |-> 0]
    /\ render = "idle"
    /\ queued = <<>> /\ done = <<>> /\ taken = 0 /\ images = <<>>
    /\ shown = -1
    /\ pushes = 0 /\ flushes = 0
    /\ newest = -1 /\ newestImage = -1 /\ newestShown = -1
    /\ recorded = {} /\ early = {} /\ missed = FALSE

\* pending_mutex: the input thread holds it from the test of its wait until
\* it waits or has taken a frame; the other holders let go within a step.
Unlocked == input.at \notin {"checked", "woken"}

\* notify_one, notify_all: only the input thread ever waits.
Notify ==
    input' = IF input.at = "waiting" THEN [input EXCEPT !.at = "top"] ELSE input

-----------------------------------------------------------------------------
(* The network thread *)

\* A frame still last in the queue is extended; a new one drops the oldest
\* of two.
Enqueue(f) ==
    IF pending # <<>> /\ Last(pending) = f THEN pending
    ELSE Append(IF Len(pending) >= 2 THEN Tail(pending) ELSE pending, f)

\* Variant: the queue is not announced.
PushDataSilently(f) ==
    /\ net.at = "idle" /\ ~exiting /\ Unlocked
    /\ pushes < MaxPushes /\ f >= newest - 1
    /\ pending' = Enqueue(f)
    /\ net' = [at |-> "pushed", frame |-> f]
    /\ pushes' = pushes + 1
    /\ newest' = IF f > newest THEN f ELSE newest
    /\ UNCHANGED <<exiting, flushing, infos, input, output, callback, render,
                   codec, shown, flushes, newestImage, newestShown, recorded,
                   early, missed>>

\* push_data
PushData(f) ==
    /\ net.at = "idle" /\ ~exiting /\ Unlocked
    /\ pushes < MaxPushes /\ f >= newest - 1
    /\ pending' = Enqueue(f)
    /\ Notify
    /\ net' = [at |-> "pushed", frame |-> f]
    /\ pushes' = pushes + 1
    /\ newest' = IF f > newest THEN f ELSE newest
    /\ UNCHANGED <<exiting, flushing, infos, output, callback, render,
                   codec, shown, flushes, newestImage, newestShown, recorded,
                   early, missed>>

\* frame_completed
FrameCompleted ==
    /\ net.at = "pushed"
    /\ infos' = Append(infos, net.frame)
    /\ net' = [net EXCEPT !.at = "idle"]
    /\ recorded' = recorded \cup {net.frame}
    /\ UNCHANGED <<exiting, flushing, pending, input, output, callback, render,
                   codec, shown, pushes, flushes, newest, newestImage,
                   newestShown, early, missed>>

\* The destructor, between two frames.  (Nothing orders it after a flush of
\* the render thread; that overlap is undefined and not modelled.)
Exit ==
    /\ net.at = "idle" /\ render = "idle" /\ ~exiting
    /\ exiting' = TRUE
    /\ net' = [net EXCEPT !.at = "exiting"]
    /\ UNCHANGED <<flushing, pending, infos, input, output, callback, render,
                   codec, shown, history>>

\* Variant: nobody is woken.
NotifyNobody ==
    /\ net.at = "exiting"
    /\ net' = [net EXCEPT !.at = "notified"]
    /\ missed' = (input.at = "checked")
    /\ UNCHANGED <<exiting, flushing, pending, infos, input, output, callback,
                   render, codec, shown, pushes, flushes, newest, newestImage,
                   newestShown, recorded, early>>

\* pending_cv.notify_all, without pending_mutex.
NotifyAll ==
    /\ net.at = "exiting"
    /\ Notify
    /\ net' = [net EXCEPT !.at = "notified"]
    /\ missed' = (input.at = "checked")
    /\ UNCHANGED <<exiting, flushing, pending, infos, output, callback,
                   render, codec, shown, pushes, flushes, newest, newestImage,
                   newestShown, recorded, early>>

\* AMediaCodec_stop and _delete; a thread that still calls the codec is
\* taken to get an error.
StopCodec ==
    /\ net.at = "notified"
    /\ net' = [net EXCEPT !.at = "stopped"]
    /\ queued' = <<>> /\ done' = <<>> /\ taken' = Buffers
    /\ input' = [input EXCEPT !.fresh = FALSE]
    /\ output' = [output EXCEPT !.fresh = FALSE]
    /\ UNCHANGED <<exiting, flushing, pending, infos, callback, render, images,
                   shown, history>>

\* Both workers are joined.
Join ==
    /\ net.at = "stopped" /\ input.at = "ended" /\ output.at = "ended"
    /\ net' = [net EXCEPT !.at = "gone"]
    /\ UNCHANGED <<exiting, flushing, pending, infos, input, output, callback,
                   render, codec, shown, history>>

-----------------------------------------------------------------------------
(* The input thread *)

inputIdle == <<exiting, flushing, infos, net, output, callback, render, shown,
               images, done, history>>

\* The head of the loop and the test of pending_cv.wait, under the mutex.
InputTest ==
    /\ input.at = "top"
    /\ input' = [input EXCEPT !.at =
            IF exiting THEN "ended"
            ELSE IF pending # <<>> \/ flushing THEN "woken" ELSE "checked"]
    /\ UNCHANGED <<inputIdle, pending, queued, taken>>

\* The test failed: the mutex is released, and the thread waits.
InputWait ==
    /\ input.at = "checked"
    /\ input' = [input EXCEPT !.at = "waiting"]
    /\ UNCHANGED <<inputIdle, pending, queued, taken>>

\* A wait may end without a notification.
InputSpuriousWake ==
    /\ input.at = "waiting"
    /\ input' = [input EXCEPT !.at = "top"]
    /\ UNCHANGED <<inputIdle, pending, queued, taken>>

\* The wait is over; flushing is read again.  Taking the first of no frames
\* is undefined: the thread is lost.
InputTake ==
    /\ input.at = "woken"
    /\ IF exiting \/ flushing
       THEN /\ input' = [input EXCEPT !.at = IF exiting THEN "ended" ELSE "top"]
            /\ UNCHANGED pending
       ELSE IF pending = <<>>
       THEN input' = [input EXCEPT !.at = "lost"] /\ UNCHANGED pending
       ELSE /\ input' = [input EXCEPT !.at = "polling", !.frame = Head(pending)]
            /\ pending' = Tail(pending)
    /\ UNCHANGED <<inputIdle, queued, taken>>

\* The head of the polling loop: the frame is let go when flushing.
InputPoll ==
    /\ input.at = "polling"
    /\ input' = [input EXCEPT !.at =
                    IF exiting \/ flushing THEN "top" ELSE "dequeuing"]
    /\ UNCHANGED <<inputIdle, pending, queued, taken>>

\* AMediaCodec_dequeueInputBuffer
InputDequeue ==
    /\ input.at = "dequeuing"
    /\ IF taken + Len(queued) < Buffers
       THEN /\ taken' = taken + 1
            /\ input' = [input EXCEPT !.at = "holding", !.fresh = TRUE]
       ELSE /\ input' = [input EXCEPT !.at = "polling"]
            /\ UNCHANGED taken
    /\ UNCHANGED <<inputIdle, pending, queued>>

\* The frame is queued, unless a flush came meanwhile: then the frame is let
\* go and the buffer is not given back, or the codec refuses its index, be it
\* by giving no buffer for it (and taking no empty one back) or when queueing.
InputFeed ==
    /\ input.at = "holding"
    /\ input' = [input EXCEPT !.at = "top", !.fresh = FALSE]
    /\ IF exiting \/ flushing \/ ~input.fresh
       THEN UNCHANGED <<queued, taken>>
       ELSE queued' = Append(queued, input.frame) /\ taken' = taken - 1
    /\ UNCHANGED <<inputIdle, pending>>

-----------------------------------------------------------------------------
(* The codec, the output thread and the image callback *)

outputIdle == <<exiting, flushing, pending, net, input, render, taken,
                pushes, flushes, newest, missed>>

CodecDecode ==
    /\ \E i \in 1..Len(queued) :
        /\ Reorders \/ i = 1
        /\ queued' = RemoveAt(queued, i)
        /\ done' = Append(done, queued[i])
    /\ UNCHANGED <<outputIdle, infos, output, callback, images, shown,
                   newestImage, newestShown, recorded, early>>

\* AMediaCodec_dequeueOutputBuffer; an empty poll changes nothing.
OutputDequeue ==
    /\ output.at = "top" /\ ~exiting /\ ~flushing
    /\ done # <<>>
    /\ output' = [at |-> "holding", frame |-> Head(done), fresh |-> TRUE]
    /\ done' = Tail(done)
    /\ UNCHANGED <<outputIdle, infos, callback, queued, images, shown,
                   newestImage, newestShown, recorded, early>>

\* AMediaCodec_releaseOutputBuffer renders the image, unless a flush came.
OutputRelease ==
    /\ output.at = "holding"
    /\ output' = [output EXCEPT !.at = "top", !.fresh = FALSE]
    /\ images' = IF output.fresh THEN Append(images, output.frame) ELSE images
    /\ UNCHANGED <<outputIdle, infos, callback, queued, done, shown,
                   newestImage, newestShown, recorded, early>>

OutputExit ==
    /\ output.at = "top" /\ exiting
    /\ output' = [output EXCEPT !.at = "ended"]
    /\ UNCHANGED <<outputIdle, infos, callback, codec, shown,
                   newestImage, newestShown, recorded, early>>

\* Variant: the info of the next frame goes too.
PrunedTooFar(seq, f, rest) ==
    \E n \in 0..Len(seq) :
        /\ \A k \in 1..n : seq[k] <= f + 1
        /\ n < Len(seq) => seq[n + 1] > f + 1
        /\ rest = SubSeq(seq, n + 1, Len(seq))

\* Variant: nothing is pruned.
PrunedNever(seq, f, rest) == rest = seq

\* rest is seq without the leading infos of frames before f.
Pruned(seq, f, rest) ==
    \E n \in 0..Len(seq) :
        /\ \A k \in 1..n : seq[k] < f
        /\ n < Len(seq) => seq[n + 1] >= f
        /\ rest = SubSeq(seq, n + 1, Len(seq))

\* on_image_available: the latest image is acquired, the older ones go; its
\* info is erased with those before it.  Without an info it is dropped.
OnImageAvailable ==
    /\ callback.at = "idle" /\ net.at # "gone"
    /\ images # <<>>
    /\ images' = <<>>
    /\ LET f == Last(images)
       IN /\ \/ \E i \in 1..Len(infos) :
                  /\ infos[i] = f
                  /\ \A j \in 1..(i - 1) : infos[j] # f
                  /\ Pruned(RemoveAt(infos, i), f, infos')
                  /\ callback' = [at |-> "found", frame |-> f]
                  /\ UNCHANGED early
             \/ /\ \A i \in 1..Len(infos) : infos[i] # f
                /\ Pruned(infos, f, infos')
                /\ early' = IF net = [at |-> "pushed", frame |-> f]
                            THEN early \cup {f} ELSE early
                /\ UNCHANGED callback
          /\ newestImage' = IF f > newestImage THEN f ELSE newestImage
    /\ UNCHANGED <<outputIdle, output, queued, done, shown, newestShown,
                   recorded>>

\* on_frame_decoded
Show ==
    /\ callback.at = "found"
    /\ callback' = [callback EXCEPT !.at = "idle"]
    /\ shown' = callback.frame
    /\ newestShown' = IF callback.frame > newestShown THEN callback.frame
                      ELSE newestShown
    /\ UNCHANGED <<outputIdle, infos, output, codec, newestImage, recorded,
                   early>>

-----------------------------------------------------------------------------
(* flush, on the render thread *)

flushIdle == <<exiting, net, callback, images, shown, pushes, newest,
               newestImage, newestShown, early, missed>>

FlushBegin ==
    /\ render = "idle" /\ ~exiting /\ flushes < MaxFlushes
    /\ render' = "begun" /\ flushes' = flushes + 1
    /\ flushing' = TRUE
    /\ UNCHANGED <<flushIdle, pending, infos, input, output, queued, done,
                   taken, recorded>>

\* Variant: only the client's own queues are emptied.
FlushCodecKept ==
    /\ render = "begun" /\ render' = "codec"
    /\ UNCHANGED <<flushIdle, flushing, pending, infos, input, output, queued,
                   done, taken, flushes, recorded>>

\* AMediaCodec_flush takes every buffer back.
FlushCodec ==
    /\ render = "begun" /\ render' = "codec"
    /\ queued' = <<>> /\ done' = <<>> /\ taken' = 0
    /\ input' = [input EXCEPT !.fresh = FALSE]
    /\ output' = [output EXCEPT !.fresh = FALSE]
    /\ UNCHANGED <<flushIdle, flushing, pending, infos, flushes, recorded>>

FlushPending ==
    /\ render = "codec" /\ Unlocked /\ render' = "pending"
    /\ pending' = <<>>
    /\ UNCHANGED <<flushIdle, flushing, infos, input, output, queued, done,
                   taken, flushes, recorded>>

FlushInfos ==
    /\ render = "pending" /\ render' = "infos"
    /\ infos' = <<>> /\ recorded' = {}
    /\ UNCHANGED <<flushIdle, flushing, pending, input, output, queued, done,
                   taken, flushes>>

FlushEnd ==
    /\ render = "infos" /\ render' = "idle"
    /\ flushing' = FALSE
    /\ UNCHANGED <<flushIdle, pending, infos, input, output, queued, done,
                   taken, flushes, recorded>>

-----------------------------------------------------------------------------
Network == (\E f \in Frames : PushData(f)) \/ FrameCompleted
Destroy == Exit \/ NotifyAll \/ StopCodec \/ Join
Input == InputTest \/ InputWait \/ InputSpuriousWake \/ InputTake
            \/ InputPoll \/ InputDequeue \/ InputFeed
Output == CodecDecode \/ OutputDequeue \/ OutputRelease \/ OutputExit
            \/ OnImageAvailable \/ Show
Flush == FlushBegin \/ FlushCodec \/ FlushPending \/ FlushInfos \/ FlushEnd

Next == Network \/ Destroy \/ Input \/ Output \/ Flush

Spec == Init /\ [][Next]_vars

\* Every thread keeps running, the codec decodes what it has, and a
\* destructor that has begun goes on.  A flush need not.
FairSpec ==
    /\ Spec
    /\ WF_vars(FrameCompleted)
    /\ WF_vars(NotifyAll) /\ WF_vars(StopCodec) /\ WF_vars(Join)
    /\ WF_vars(InputTest) /\ WF_vars(InputWait) /\ WF_vars(InputTake)
    /\ WF_vars(InputPoll) /\ WF_vars(InputDequeue) /\ WF_vars(InputFeed)
    /\ WF_vars(CodecDecode) /\ WF_vars(OutputDequeue) /\ WF_vars(OutputRelease)
    /\ WF_vars(OutputExit) /\ WF_vars(OnImageAvailable) /\ WF_vars(Show)

-----------------------------------------------------------------------------
(* Properties *)

Places == {"top", "checked", "waiting", "woken", "polling", "dequeuing",
           "holding", "lost", "ended"}

TypeOK ==
    /\ exiting \in BOOLEAN /\ flushing \in BOOLEAN
    /\ pending \in Seq(Frames) /\ Len(pending) <= 2
    /\ infos \in Seq(Frames)
    /\ net \in [at : {"idle", "pushed", "exiting", "notified", "stopped", "gone"},
                frame : Frames]
    /\ input \in [at : Places, frame : Frames, fresh : BOOLEAN]
    /\ output \in [at : {"top", "holding", "ended"}, frame : Frames,
                   fresh : BOOLEAN]
    /\ callback \in [at : {"idle", "found"}, frame : Frames]
    /\ render \in {"idle", "begun", "codec", "pending", "infos"}
    /\ queued \in Seq(Frames) /\ done \in Seq(Frames) /\ images \in Seq(Frames)
    /\ taken \in 0..Buffers
    /\ {shown, newest, newestImage, newestShown} \subseteq -1..MaxFrame

\* Pruning the leading infos only is enough: pending_frame_infos never keeps
\* one that is more than a frame older than an image already handled, so the
\* list stays as short as what is being decoded.
InfosRecent == \A i \in 1..Len(infos) : infos[i] >= newestImage - 1

\* And it never goes too far: the info of a frame newer than every image so
\* far is still there when its image comes.
InfoKept == \A f \in recorded : f > newestImage => \E i \in 1..Len(infos) : infos[i] = f

\* Even a codec that reorders frames shows none more than one frame behind the
\* newest shown: the infos of older frames are gone.
ShownInOrder == shown >= newestShown - 1

\* The decoder passes on what it was promised: the frames given to
\* on_frame_decoded are again a stream of OrderedFrames, through the queue,
\* the codec, the images and every flush.
Delivery == INSTANCE OrderedFrames WITH last <- shown, newest <- newestShown
ShowsInOrder == Delivery!Spec

\* A flush may take an input buffer from the input thread without giving it
\* back to the codec, but the next flush recovers it: no more than one is
\* lost between two flushes.
OneBufferLost ==
    ~exiting /\ render = "idle" =>
        taken <= IF input.at = "holding" /\ input.fresh THEN 2 ELSE 1

\* Without a flush, the newest frame pushed, or the one it overtook, is shown,
\* unless the image of one of them came before its info did.
NewestShown ==
    []<>(newestShown >= newest - 1 \/ {newest - 1, newest} \cap early # {}
            \/ exiting \/ flushes > 0)

\* The destructor returns, unless its notification came between the input
\* thread's test and its wait, since it is sent without the mutex, or the
\* thread took a frame of an empty queue.
DestroyReturns ==
    []<>(net.at \notin {"exiting", "notified", "stopped"} \/ missed \/ input.at = "lost")

\* What is pushed gets shown, and the decoder can be got rid of.
DecoderServes == NewestShown /\ DestroyReturns

\* A decoder that was flushed goes on: its input thread only takes a frame
\* from a queue that has one.  (Of "flush its decoder so it can catch up".)
FlushLetsCatchUp == input.at # "lost"
=============================================================================
