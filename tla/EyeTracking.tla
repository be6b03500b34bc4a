------------------------------ MODULE EyeTracking ------------------------------
(***************************************************************************)
(* Eye-tracking power gating: who lights the infrared illuminators of the   *)
(* headset, and which gaze is sent to the server.  Six threads share it:    *)
(*                                                                         *)
(*   network   the first video shard asks for the light, the reset of a     *)
(*             stream asks for the dark (streaming_client.cpp);             *)
(*   render    asks again on the edges of the stream flag, and whenever the *)
(*             menu raised gEyeTrackReapply (render_thread.cpp);            *)
(*   UI        the gaze-marker toggle (jni.cpp nativeSetEyeDebug);          *)
(*   worker    the one thread that calls the blocking Pvr_SetTrackingMode;  *)
(*             it lives for the process (eye_tracking.cpp eyeModeWorker);   *)
(*   reader    the 300 Hz tracking thread, readEyeGazes;                    *)
(*   tracker   the uplink, pollEyeGaze and the packet it fills.             *)
(*                                                                         *)
(* Eye openness, which follows gEyeOnline the way the gaze does, and the    *)
(* numbers of a gaze are left out.  Pvr_SetTrackingMode is taken to do what *)
(* it is asked (its result is only logged), and the eye service to answer   *)
(* only while the EYE bit is set.                                           *)
(***************************************************************************)
EXTENDS Naturals

\* Bound: streams begun or ended, toggles, doffs, readings and restarts.
CONSTANT MaxEvents

ASSUME EyeAssumption == MaxEvents \in Nat

VARIABLES
    streaming,         \* streaming_client::streaming
    described,         \* is video_desc set?
    net,               \* where the network thread is: idle, started, stopping, clearing
    gStreaming,        \* the render thread's own view of the stream
    streamWasUp,       \* its edge detector
    gSlept,            \* it has handled the headset coming off
    render,            \* where its loop is: boot, forget, load, sleep, sample, up, light, down, menu
    gEyeDebugOn,       \* the gaze-marker toggle
    gEyeTrackReapply,  \* raised by the toggle, taken by the render thread
    ui,                \* idle, or raise: toggle stored, flag not yet raised
    gEyeReqPending, gEyeReqStreaming,   \* the request, under gEyeReqMtx
    asked,             \* history: was there a request since the last boot?
    gEyeSupported,     \* does the headset have the EYE bit?  (found at boot)
    gServerEyeEnabled, \* what the worker made of the last request
    worker,            \* [at, streaming, want]: the worker and its locals
    eyeBit,            \* the EYE bit of the SDK's tracking mode: is the IR lit?
    gEyeIrOn, gEyeOnline, gGazeValid,
    reader,            \* idle, ask, online, valid: where readEyeGazes is
    late,              \* history: a reading was under way at the last Forget
    tracker,           \* idle, poll, send: where the uplink is
    spent              \* how many events have happened

request == <<gEyeReqPending, gEyeReqStreaming, asked>>
netVars == <<streaming, described, net>>
renderVars == <<gStreaming, streamWasUp, gSlept, render>>
uiVars == <<gEyeDebugOn, gEyeTrackReapply, ui>>
workerVars == <<gServerEyeEnabled, worker, gEyeSupported>>
gaze == <<gEyeOnline, gGazeValid>>
readerVars == <<reader, late>>
trackerVars == <<tracker>>
vars == <<netVars, renderVars, uiVars, request, workerVars, eyeBit, gEyeIrOn, gaze,
          readerVars, trackerVars, spent>>

Idle == [at |-> "idle", streaming |-> FALSE, want |-> FALSE]

(* The render thread has yet to enter its loop. *)
Booting == render \in {"boot", "forget", "load"}

(* The process starts with the saved toggle and boots the render thread. *)
Init ==
    /\ streaming = FALSE /\ described = FALSE /\ net = "idle"
    /\ gStreaming = FALSE /\ streamWasUp = FALSE /\ gSlept = FALSE /\ render = "boot"
    /\ gEyeDebugOn \in BOOLEAN /\ gEyeTrackReapply = FALSE /\ ui = "idle"
    /\ gEyeReqPending = FALSE /\ gEyeReqStreaming = FALSE /\ asked = FALSE
    /\ gServerEyeEnabled = FALSE /\ worker = Idle /\ gEyeSupported \in BOOLEAN
    /\ eyeBit = FALSE /\ gEyeIrOn = FALSE
    /\ gEyeOnline = FALSE /\ gGazeValid = FALSE
    /\ reader = "idle" /\ late = FALSE
    /\ tracker = "idle"
    /\ spent = 0

Spend ==
    /\ spent < MaxEvents
    /\ spent' = spent + 1

-----------------------------------------------------------------------------
(* Variant: the request does not overwrite one the worker has not taken yet. *)
KeepFirstRequest(s) ==
    /\ gEyeReqStreaming' = IF gEyeReqPending THEN gEyeReqStreaming ELSE s
    /\ gEyeReqPending' = TRUE
    /\ asked' = ~Booting

(* A request overwrites the one before it and wakes the worker. *)
applyServerEyeTracking(s) ==
    /\ gEyeReqStreaming' = s
    /\ gEyeReqPending' = TRUE
    /\ asked' = ~Booting

-----------------------------------------------------------------------------
(* The network thread. *)

(* The first shard of a stream, whose description has come before it. *)
StreamStarts ==
    /\ net = "idle" /\ ~streaming
    /\ Spend
    /\ described' = TRUE /\ streaming' = TRUE /\ net' = "started"
    /\ UNCHANGED <<renderVars, uiVars, request, workerVars, eyeBit, gEyeIrOn, gaze,
                   readerVars, trackerVars>>

StreamLights ==
    /\ net = "started"
    /\ applyServerEyeTracking(TRUE)
    /\ net' = "idle"
    /\ UNCHANGED <<streaming, described, renderVars, uiVars, workerVars, eyeBit, gEyeIrOn,
                   gaze, readerVars, trackerVars, spent>>

(* reset_stream_state: the request, then the flag, then the description.   *)
(* It also ends connections that never came to stream.                     *)
ResetRequests ==
    /\ net = "idle"
    /\ Spend
    /\ applyServerEyeTracking(FALSE)
    /\ net' = "stopping"
    /\ UNCHANGED <<streaming, described, renderVars, uiVars, workerVars, eyeBit, gEyeIrOn,
                   gaze, readerVars, trackerVars>>

ResetStops ==
    /\ net = "stopping"
    /\ streaming' = FALSE /\ net' = "clearing"
    /\ UNCHANGED <<described, renderVars, uiVars, request, workerVars, eyeBit, gEyeIrOn,
                   gaze, readerVars, trackerVars, spent>>

ResetClears ==
    /\ net = "clearing"
    /\ described' = FALSE /\ net' = "idle"
    /\ UNCHANGED <<streaming, renderVars, uiVars, request, workerVars, eyeBit, gEyeIrOn,
                   gaze, readerVars, trackerVars, spent>>

Network == StreamStarts \/ StreamLights \/ ResetRequests \/ ResetStops \/ ResetClears
-----------------------------------------------------------------------------
(* The render thread: boot, then one turn of the loop after the other. *)

(* initEyeTrackingMode, before the tracking thread of this render thread   *)
(* exists: first the mode, then the flags.                                 *)
BootDark ==
    /\ render = "boot"
    /\ eyeBit' = FALSE
    /\ render' = "forget"
    /\ UNCHANGED <<netVars, gStreaming, streamWasUp, gSlept, uiVars, request, workerVars,
                   gEyeIrOn, gaze, readerVars, trackerVars, spent>>

BootForgets ==
    /\ render = "forget"
    /\ gEyeIrOn' = FALSE /\ gEyeOnline' = FALSE /\ gGazeValid' = FALSE
    /\ late' = FALSE
    /\ render' = "load"
    /\ UNCHANGED <<netVars, gStreaming, streamWasUp, gSlept, uiVars, request, workerVars,
                   eyeBit, reader, trackerVars, spent>>

(* loadAllConfig: the toggle becomes what the file says, which may be older. *)
BootLoads ==
    /\ render = "load"
    /\ gEyeDebugOn' \in BOOLEAN
    /\ render' = "sleep"
    /\ UNCHANGED <<netVars, gStreaming, streamWasUp, gSlept, gEyeTrackReapply, ui, request,
                   workerVars, eyeBit, gEyeIrOn, gaze, readerVars, trackerVars, spent>>

(* Java tells whether the headset is on the head. *)
Doff ==
    /\ render = "sleep" /\ ~gSlept
    /\ Spend
    /\ gStreaming' = FALSE /\ gSlept' = TRUE /\ render' = "sample"
    /\ UNCHANGED <<netVars, streamWasUp, uiVars, request, workerVars, eyeBit, gEyeIrOn,
                   gaze, readerVars, trackerVars>>

Don ==
    /\ render = "sleep" /\ gSlept
    /\ gStreaming' = streaming /\ gSlept' = FALSE /\ render' = "sample"
    /\ UNCHANGED <<netVars, streamWasUp, uiVars, request, workerVars, eyeBit, gEyeIrOn,
                   gaze, readerVars, trackerVars, spent>>

StaysAsItIs ==
    /\ render = "sleep" /\ render' = "sample"
    /\ UNCHANGED <<netVars, gStreaming, streamWasUp, gSlept, uiVars, request, workerVars,
                   eyeBit, gEyeIrOn, gaze, readerVars, trackerVars, spent>>

Sample ==
    /\ render = "sample"
    /\ render' = CASE streaming /\ ~streamWasUp -> "up"
                   [] ~streaming /\ streamWasUp -> "down"
                   [] OTHER -> "menu"
    /\ UNCHANGED <<netVars, gStreaming, streamWasUp, gSlept, uiVars, request, workerVars,
                   eyeBit, gEyeIrOn, gaze, readerVars, trackerVars, spent>>

(* The stream renders only if its resolution is known by now. *)
UpEdge ==
    /\ render = "up"
    /\ streamWasUp' = TRUE
    /\ gStreaming' = (gStreaming \/ described)
    /\ render' = IF described THEN "light" ELSE "menu"
    /\ UNCHANGED <<netVars, gSlept, uiVars, request, workerVars, eyeBit, gEyeIrOn, gaze,
                   readerVars, trackerVars, spent>>

UpLights ==
    /\ render = "light" /\ render' = "menu"
    /\ applyServerEyeTracking(TRUE)
    /\ UNCHANGED <<netVars, gStreaming, streamWasUp, gSlept, uiVars, workerVars, eyeBit,
                   gEyeIrOn, gaze, readerVars, trackerVars, spent>>

DownEdge ==
    /\ render = "down" /\ render' = "menu"
    /\ streamWasUp' = FALSE /\ gStreaming' = FALSE
    /\ applyServerEyeTracking(FALSE)
    /\ UNCHANGED <<netVars, gSlept, uiVars, workerVars, eyeBit, gEyeIrOn, gaze,
                   readerVars, trackerVars, spent>>

(* The lobby is drawn, which takes a surface, and an open overlay too while *)
(* something streams or the headset is off: the menu's request is taken,    *)
(* with the render thread's own view of the stream.                         *)
Reapply ==
    /\ render = "menu" /\ gEyeTrackReapply
    /\ gEyeTrackReapply' = FALSE
    /\ applyServerEyeTracking(gStreaming)
    /\ render' = "sleep"
    /\ UNCHANGED <<netVars, gStreaming, streamWasUp, gSlept, gEyeDebugOn, ui, workerVars,
                   eyeBit, gEyeIrOn, gaze, readerVars, trackerVars, spent>>

(* Variant: the menu's request is taken though the lobby is not drawn. *)
NoReapplyTakes ==
    /\ render = "menu"
    /\ gEyeTrackReapply' = FALSE
    /\ render' = "sleep"
    /\ UNCHANGED <<netVars, gStreaming, streamWasUp, gSlept, gEyeDebugOn, ui, request,
                   workerVars,
                   eyeBit, gEyeIrOn, gaze, readerVars, trackerVars, spent>>

(* It is not drawn, and the request stays. *)
NoReapply ==
    /\ render = "menu"
    /\ render' = "sleep"
    /\ UNCHANGED <<netVars, gStreaming, streamWasUp, gSlept, uiVars, request, workerVars,
                   eyeBit, gEyeIrOn, gaze, readerVars, trackerVars, spent>>

(* nativeStop joins the render thread, which joins the tracking thread;    *)
(* nativeStart starts new ones.  The worker and its request live on.       *)
Restart ==
    /\ render = "sleep" /\ reader = "idle"
    /\ Spend
    /\ gStreaming' = FALSE /\ streamWasUp' = FALSE /\ gSlept' = FALSE /\ render' = "boot"
    /\ asked' = FALSE
    /\ UNCHANGED <<netVars, uiVars, gEyeReqPending, gEyeReqStreaming, workerVars, eyeBit,
                   gEyeIrOn, gaze, readerVars, trackerVars>>

Turn == \/ BootDark \/ BootForgets \/ BootLoads \/ Doff \/ Don \/ StaysAsItIs \/ Sample
        \/ UpEdge \/ UpLights \/ DownEdge \/ Reapply \/ NoReapply
-----------------------------------------------------------------------------
(* The UI thread: nativeSetEyeDebug. *)

Toggle ==
    /\ ui = "idle"
    /\ Spend
    /\ gEyeDebugOn' = ~gEyeDebugOn /\ ui' = "raise"
    /\ UNCHANGED <<netVars, renderVars, gEyeTrackReapply, request, workerVars, eyeBit,
                   gEyeIrOn, gaze, readerVars, trackerVars>>

Raise ==
    /\ ui = "raise" /\ ui' = "idle"
    /\ gEyeTrackReapply' = TRUE
    /\ UNCHANGED <<netVars, renderVars, gEyeDebugOn, request, workerVars, eyeBit, gEyeIrOn,
                   gaze, readerVars, trackerVars, spent>>
-----------------------------------------------------------------------------
(* The worker: take a request, decide, set the mode, publish, forget. *)
Take ==
    /\ worker.at = "idle" /\ gEyeReqPending
    /\ gEyeReqPending' = FALSE
    /\ worker' = [worker EXCEPT !.at = "decide", !.streaming = gEyeReqStreaming]
    /\ UNCHANGED <<netVars, renderVars, uiVars, gEyeReqStreaming, asked,
                   gServerEyeEnabled, gEyeSupported, eyeBit, gEyeIrOn, gaze,
                   readerVars, trackerVars, spent>>

(* Variant: the request is marked as done when it is being done. *)
DecideClears ==
    /\ worker.at = "decide"
    /\ gEyeReqPending' = FALSE
    /\ gServerEyeEnabled' = (worker.streaming /\ gEyeSupported)
    /\ worker' = [worker EXCEPT !.at = "set",
                     !.want = gEyeSupported /\ (worker.streaming \/ gEyeDebugOn)]
    /\ UNCHANGED <<netVars, renderVars, uiVars, gEyeReqStreaming, asked, gEyeSupported,
                   eyeBit, gEyeIrOn, gaze, readerVars, trackerVars, spent>>

Decide ==
    /\ worker.at = "decide"
    /\ gServerEyeEnabled' = (worker.streaming /\ gEyeSupported)
    /\ worker' = [worker EXCEPT !.at = "set",
                     !.want = gEyeSupported /\ (worker.streaming \/ gEyeDebugOn)]
    /\ UNCHANGED <<netVars, renderVars, uiVars, request, gEyeSupported, eyeBit, gEyeIrOn,
                   gaze, readerVars, trackerVars, spent>>

SetMode ==
    /\ worker.at = "set"
    /\ eyeBit' = worker.want
    /\ worker' = [worker EXCEPT !.at = "publish"]
    /\ UNCHANGED <<netVars, renderVars, uiVars, request, gServerEyeEnabled,
                   gEyeSupported, gEyeIrOn, gaze, readerVars, trackerVars, spent>>

Publish ==
    /\ worker.at = "publish"
    /\ gEyeIrOn' = worker.want
    /\ worker' = IF worker.want THEN Idle ELSE [worker EXCEPT !.at = "forget"]
    /\ UNCHANGED <<netVars, renderVars, uiVars, request, gServerEyeEnabled,
                   gEyeSupported, eyeBit, gaze, readerVars, trackerVars, spent>>

(* Variant: only the validity is forgotten. *)
ForgetValidOnly ==
    /\ worker.at = "forget"
    /\ gGazeValid' = FALSE
    /\ late' = (reader # "idle")
    /\ worker' = Idle
    /\ UNCHANGED <<netVars, renderVars, uiVars, request, gServerEyeEnabled, gEyeSupported,
                   eyeBit, gEyeIrOn, gEyeOnline, reader, trackerVars, spent>>

Forget ==
    /\ worker.at = "forget"
    /\ gEyeOnline' = FALSE /\ gGazeValid' = FALSE
    /\ late' = (reader # "idle")
    /\ worker' = Idle
    /\ UNCHANGED <<netVars, renderVars, uiVars, request, gServerEyeEnabled, gEyeSupported,
                   eyeBit, gEyeIrOn, reader, trackerVars, spent>>

Worker == Take \/ Decide \/ SetMode \/ Publish \/ Forget
-----------------------------------------------------------------------------
(* The reader: readEyeGazes, while its render thread is up. *)
CheckIr ==
    /\ reader = "idle" /\ ~Booting
    /\ gEyeIrOn
    /\ Spend
    /\ reader' = "ask"
    /\ UNCHANGED <<netVars, renderVars, uiVars, request, workerVars, eyeBit, gEyeIrOn, gaze,
                   late, trackerVars>>

(* The service does not answer, or answers without a valid gaze, or with one. *)
Ask ==
    /\ reader = "ask"
    /\ \/ /\ reader' = "idle" /\ UNCHANGED gGazeValid
       \/ /\ eyeBit
          /\ reader' = "idle" /\ gGazeValid' = FALSE
       \/ /\ eyeBit
          /\ reader' = "online" /\ UNCHANGED gGazeValid
    /\ UNCHANGED <<netVars, renderVars, uiVars, request, workerVars, eyeBit, gEyeIrOn,
                   gEyeOnline, late, trackerVars, spent>>

GoOnline ==
    /\ reader = "online" /\ reader' = "valid"
    /\ gEyeOnline' = TRUE
    /\ UNCHANGED <<netVars, renderVars, uiVars, request, workerVars, eyeBit, gEyeIrOn,
                   gGazeValid, late, trackerVars, spent>>

SetValid ==
    /\ reader = "valid" /\ reader' = "idle"
    /\ gGazeValid' = TRUE
    /\ UNCHANGED <<netVars, renderVars, uiVars, request, workerVars, eyeBit, gEyeIrOn,
                   gEyeOnline, late, trackerVars, spent>>
-----------------------------------------------------------------------------
(* The uplink: pollEyeGaze looks at gEyeOnline, then overwrites gGazeValid; *)
(* the packet carries a gaze if both flags are still up.                    *)
PollOnline ==
    /\ tracker = "idle" /\ gEyeOnline
    /\ tracker' = "poll"
    /\ UNCHANGED <<netVars, renderVars, uiVars, request, workerVars, eyeBit, gEyeIrOn, gaze,
                   readerVars, spent>>

PollOffline ==
    /\ tracker = "idle" /\ ~gEyeOnline
    /\ gGazeValid' = FALSE
    /\ tracker' = "send"
    /\ UNCHANGED <<netVars, renderVars, uiVars, request, workerVars, eyeBit, gEyeIrOn,
                   gEyeOnline, readerVars, spent>>

PollValid ==
    /\ tracker = "poll" /\ tracker' = "send"
    /\ gGazeValid' = TRUE
    /\ UNCHANGED <<netVars, renderVars, uiVars, request, workerVars, eyeBit, gEyeIrOn,
                   gEyeOnline, readerVars, spent>>

SendGaze ==
    /\ tracker = "send" /\ tracker' = "idle"
    /\ UNCHANGED <<netVars, renderVars, uiVars, request, workerVars, eyeBit, gEyeIrOn, gaze,
                   readerVars, spent>>
-----------------------------------------------------------------------------
Next ==
    \/ Network \/ Turn \/ Restart \/ Toggle \/ Raise \/ Worker
    \/ CheckIr \/ Ask \/ GoOnline \/ SetValid
    \/ PollOnline \/ PollOffline \/ PollValid \/ SendGaze

Spec == Init /\ [][Next]_vars

(* Loops and calls that have begun go on; nobody has to start or end a     *)
(* stream, touch the toggle, or take the headset off or on.  A headset that *)
(* is worn and does not stream has a surface to draw the lobby on, again    *)
(* and again.                                                               *)
Fairness ==
    /\ WF_vars(Turn) /\ WF_vars(Worker)
    /\ WF_vars(StreamLights) /\ WF_vars(ResetStops) /\ WF_vars(ResetClears)
    /\ WF_vars(Raise)
    /\ SF_vars(Reapply /\ ~gStreaming /\ ~gSlept)

LiveSpec == Spec /\ Fairness
-----------------------------------------------------------------------------
NetTypes ==
    /\ streaming \in BOOLEAN /\ described \in BOOLEAN
    /\ net \in {"idle", "started", "stopping", "clearing"}

RenderTypes ==
    /\ gStreaming \in BOOLEAN /\ streamWasUp \in BOOLEAN /\ gSlept \in BOOLEAN
    /\ render \in {"boot", "forget", "load", "sleep", "sample", "up", "light", "down", "menu"}

RequestTypes ==
    /\ gEyeDebugOn \in BOOLEAN /\ gEyeTrackReapply \in BOOLEAN /\ ui \in {"idle", "raise"}
    /\ gEyeReqPending \in BOOLEAN /\ gEyeReqStreaming \in BOOLEAN /\ asked \in BOOLEAN

WorkerTypes ==
    /\ worker \in [at : {"idle", "decide", "set", "publish", "forget"},
                   streaming : BOOLEAN, want : BOOLEAN]
    /\ worker.want => gEyeSupported
    /\ gServerEyeEnabled \in BOOLEAN /\ gEyeSupported \in BOOLEAN

GazeTypes ==
    /\ eyeBit \in BOOLEAN /\ gEyeIrOn \in BOOLEAN
    /\ gEyeOnline \in BOOLEAN /\ gGazeValid \in BOOLEAN /\ late \in BOOLEAN
    /\ reader \in {"idle", "ask", "online", "valid"}
    /\ tracker \in {"idle", "poll", "send"}

TypeOK ==
    /\ NetTypes /\ RenderTypes /\ RequestTypes /\ WorkerTypes /\ GazeTypes
    /\ spent \in 0..MaxEvents

(* The worker has nothing left to do. *)
Applied == worker.at = "idle" /\ ~gEyeReqPending

(* However many requests came while the worker was blocked in the SDK, and *)
(* from whichever thread, the one it ends on is the latest                 *)
(* (eye_tracking.cpp "coalesce to the latest desired state").              *)
LatestWins == Applied => gServerEyeEnabled = (gEyeReqStreaming /\ gEyeSupported)

(* Between requests the SDK's mode and the flag that guards the eye service *)
(* are both what the latest request and the toggle call for: no toggle is   *)
(* lost between the three threads it goes through.  (The requests counted   *)
(* are those made since the boot, which may have been meant for its dark.)  *)
Reevaluated ==
    asked /\ Applied /\ ui = "idle" /\ ~gEyeTrackReapply
        => /\ eyeBit = (gEyeSupported /\ (gEyeReqStreaming \/ gEyeDebugOn))
           /\ gEyeIrOn = eyeBit

(* The illuminators burn power only while somebody wants the gaze: once    *)
(* nothing streams, the marker is off and the headset is worn, they go     *)
(* dark and stay dark, whatever the network and the render thread asked    *)
(* for, in whatever order, on the way there.  (Provided the render thread  *)
(* never took up, when the headset was put on, a stream that its edge      *)
(* detector had not seen start and then did not see end, and there was a   *)
(* request since the last boot, which may have overlapped an older one.)   *)
DarkWhenUnwanted ==
    /\ [](render = "menu" /\ gStreaming => streamWasUp)
    /\ <>[](~streaming /\ ~gEyeDebugOn /\ ~gSlept /\ asked)
    => <>[](~eyeBit /\ ~gEyeIrOn)

(* A stream that stays up is lit, provided the render thread's view of the *)
(* stream never fell behind its edge detector.                             *)
LitWhileStreaming ==
    gEyeSupported /\ [](streamWasUp => gStreaming) /\ <>[]streaming => <>[](eyeBit /\ gEyeIrOn)

(* Both: the light is on exactly while it is needed, in the end. *)
LightSettles == DarkWhenUnwanted /\ LitWhileStreaming

(* Stale gaze is forgotten when the IR is off (eye_tracking.cpp:56): once  *)
(* the worker has seen to it, the gaze cannot be online with the light     *)
(* out, and so go on being sent, unless a reading was under way just then. *)
StaleNeedsOverlap ==
    ~gEyeIrOn /\ worker.at # "forget" /\ ~late => ~gEyeOnline
=============================================================================
