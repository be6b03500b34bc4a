--------------------------- MODULE OrderedFrames ----------------------------
(***************************************************************************)
(* What each stage of the video pipeline promises to the next, abstracted  *)
(* from FrameAssembly and VideoDecoder: a stream of frames in which each   *)
(* is at most one frame behind the newest.  FrameAssembly implements it    *)
(* for the frames it pushes, VideoDecoder for those it shows; VideoDecoder *)
(* and FramePairs take it as their input.                                  *)
(***************************************************************************)
EXTENDS Integers

CONSTANT Frames \* the frame indices

VARIABLES last,   \* the last frame delivered, -1 before the first
          newest  \* the greatest frame delivered

vars == <<last, newest>>

\* No frame of the session has been delivered.
Restart == last' = -1 /\ newest' = -1

Init == last = -1 /\ newest = -1

\* A frame goes to the next stage; it may be a repetition.
Deliver(f) ==
    /\ f >= newest - 1
    /\ last' = f
    /\ newest' = IF f > newest THEN f ELSE newest

Next == Restart \/ \E f \in Frames : Deliver(f)

Spec == Init /\ [][Next]_vars
=============================================================================
