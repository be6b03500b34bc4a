-------------------------- MODULE EyeTrackingProofs --------------------------
(***************************************************************************)
(* That no request and no toggle is lost, and when a stale gaze can stay,   *)
(* for any number of streams, toggles, doffs, readings and restarts.        *)
(*                                                                         *)
(* The invariant follows a request through the worker.  While a newer       *)
(* request waits, nothing is claimed: the worker will come back.  Else what *)
(* it holds is the latest request (Handled), and if moreover no toggle is   *)
(* on its way, what it decided is what toggle and request call for, and     *)
(* mode and flag have followed as far as the worker has come (Followed).    *)
(***************************************************************************)
EXTENDS EyeTracking, TLAPS

\* Nothing is on its way that would make the worker decide again.
Quiet == asked /\ ~gEyeReqPending /\ ui = "idle" /\ ~gEyeTrackReapply

Wanted == gEyeSupported /\ (gEyeReqStreaming \/ gEyeDebugOn)

Handled ==
    ~gEyeReqPending =>
        /\ worker.at = "decide" => worker.streaming = gEyeReqStreaming
        /\ worker.at # "decide" => gServerEyeEnabled = (gEyeReqStreaming /\ gEyeSupported)

Followed ==
    Quiet =>
        /\ worker.at = "decide" => worker.streaming = gEyeReqStreaming
        /\ worker.at \in {"set", "publish"} => worker.want = Wanted
        /\ worker.at \in {"publish", "forget", "idle"} => eyeBit = Wanted
        /\ worker.at \in {"forget", "idle"} => gEyeIrOn = Wanted

\* No request made since the boot can be pending before the boot is over.
NotAsked == Booting => ~asked

\* With the light out the reader does not start, and what it wrote is gone.
Forgotten ==
    ~gEyeIrOn /\ worker.at # "forget" /\ ~late => reader = "idle" /\ ~gEyeOnline

\* The reader exists only while its render thread is up.
ReaderUp == Booting => reader = "idle"

\* The worker is a record of these fields.
WorkerType == worker = [at |-> worker.at, streaming |-> worker.streaming, want |-> worker.want]

Inv == WorkerType /\ NotAsked /\ Handled /\ Followed /\ Forgotten /\ ReaderUp

LEMMA Initially == Init => Inv
<1> SUFFICES ASSUME Init PROVE Inv
  OBVIOUS
<1>1. WorkerType
  BY DEF Init, WorkerType, Idle
<1>2. NotAsked /\ Followed /\ Forgotten /\ ReaderUp
  BY DEF Init, NotAsked, Followed, Quiet, Forgotten, ReaderUp
<1>3. worker.at = "idle" /\ gServerEyeEnabled = FALSE /\ gEyeReqStreaming = FALSE
  BY DEF Init, Idle
<1>4. Handled
  BY <1>3 DEF Handled
<1> QED
  BY <1>1, <1>2, <1>4 DEF Inv

LEMMA Inductive == Inv /\ [Next]_vars => Inv'
<1> SUFFICES ASSUME Inv, [Next]_vars PROVE Inv'
  OBVIOUS
<1> USE DEF Inv, WorkerType, NotAsked, Booting, Handled, Followed, Quiet, Wanted, Forgotten, ReaderUp,
        netVars, renderVars, uiVars, request, workerVars, gaze, readerVars, trackerVars
<1>1. CASE StreamStarts
  BY <1>1 DEF StreamStarts
<1>2. CASE StreamLights
  BY <1>2 DEF StreamLights, applyServerEyeTracking
<1>3. CASE ResetRequests
  BY <1>3 DEF ResetRequests, applyServerEyeTracking
<1>4. CASE ResetStops \/ ResetClears
  BY <1>4 DEF ResetStops, ResetClears
<1>5. CASE BootDark \/ BootForgets \/ BootLoads
  BY <1>5 DEF BootDark, BootForgets, BootLoads
<1>6. CASE Doff \/ Don \/ StaysAsItIs
  BY <1>6 DEF Doff, Don, StaysAsItIs
<1>7. CASE Sample
  BY <1>7 DEF Sample
<1>8. CASE UpEdge
  BY <1>8 DEF UpEdge
<1>9. CASE UpLights
  BY <1>9 DEF UpLights, applyServerEyeTracking
<1>10. CASE DownEdge
  BY <1>10 DEF DownEdge, applyServerEyeTracking
<1>11. CASE Reapply
  BY <1>11 DEF Reapply, applyServerEyeTracking
<1>12. CASE NoReapply
  BY <1>12 DEF NoReapply
<1>13. CASE Restart
  BY <1>13 DEF Restart
<1>14. CASE Toggle
  BY <1>14 DEF Toggle
<1>15. CASE Raise
  BY <1>15 DEF Raise
<1>16. CASE Take
  BY <1>16 DEF Take
<1>17. CASE Decide
  BY <1>17 DEF Decide
<1>18. CASE SetMode
  BY <1>18 DEF SetMode
<1>19. CASE Publish
  BY <1>19 DEF Publish, Idle
<1>20. CASE Forget
  BY <1>20 DEF Forget, Idle
<1>21. CASE CheckIr \/ Ask \/ GoOnline \/ SetValid
  BY <1>21 DEF CheckIr, Ask, GoOnline, SetValid
<1>22. CASE PollOnline \/ PollOffline \/ PollValid \/ SendGaze
  BY <1>22 DEF PollOnline, PollOffline, PollValid, SendGaze
<1>23. CASE UNCHANGED vars
  BY <1>23 DEF vars
<1> QED
  BY <1>1, <1>2, <1>3, <1>4, <1>5, <1>6, <1>7, <1>8, <1>9, <1>10, <1>11, <1>12, <1>13,
     <1>14, <1>15, <1>16, <1>17, <1>18, <1>19, <1>20, <1>21, <1>22, <1>23
     DEF Next, Network, Turn, Worker

(* However many requests came while the worker was blocked, what it ends   *)
(* on is the latest (eye_tracking.cpp applyServerEyeTracking, "coalesce to  *)
(* the latest desired state").                                              *)
THEOREM RequestsCoalesce == Spec => []LatestWins
<1>1. Inv => LatestWins
  BY DEF Inv, Handled, LatestWins, Applied
<1> QED
  BY Initially, Inductive, <1>1, PTL DEF Spec

(* With nothing on its way, mode and flag are what the latest request since *)
(* the boot and the toggle call for (eye_tracking.cpp applyEyeModeNow).     *)
THEOREM NothingLost == Spec => []Reevaluated
<1>1. Inv => Reevaluated
  BY DEF Inv, WorkerType, Followed, Quiet, Wanted, Reevaluated, Applied
<1> QED
  BY Initially, Inductive, <1>1, PTL DEF Spec

(* The gaze stays online without the light only if a reading overlapped the *)
(* worker's clearing of the gaze (eye_tracking.cpp applyEyeModeNow).        *)
THEOREM StaleGaze == Spec => []StaleNeedsOverlap
<1>1. Inv => StaleNeedsOverlap
  BY DEF Inv, Forgotten, StaleNeedsOverlap
<1> QED
  BY Initially, Inductive, <1>1, PTL DEF Spec
-----------------------------------------------------------------------------
(* Types *)

LEMMA InitType == ASSUME Init PROVE TypeOK
<1>1. NetTypes /\ RenderTypes
  BY DEF Init, NetTypes, RenderTypes
<1>2. RequestTypes
  BY DEF Init, RequestTypes
<1>3. WorkerTypes
  BY DEF Init, WorkerTypes, Idle
<1>4. GazeTypes
  BY DEF Init, GazeTypes
<1>5. spent \in 0..MaxEvents
  BY EyeAssumption DEF Init
<1> QED
  BY <1>1, <1>2, <1>3, <1>4, <1>5 DEF TypeOK

LEMMA NetKeepsTypes == NetTypes /\ [Next]_vars => NetTypes'
<1> SUFFICES ASSUME NetTypes, [Next]_vars PROVE NetTypes'
  OBVIOUS
<1>1. CASE Network
  BY <1>1 DEF Network, StreamStarts, StreamLights, ResetRequests, ResetStops, ResetClears,
              NetTypes
<1>2. CASE UNCHANGED netVars
  BY <1>2 DEF netVars, NetTypes
<1>3. Network \/ UNCHANGED netVars
  BY DEF Next, vars, Turn, Worker, BootDark, BootForgets, BootLoads, Doff, Don, StaysAsItIs, Sample,
         UpEdge, UpLights, DownEdge, Reapply, NoReapply, Restart, Toggle, Raise, Take, Decide,
         SetMode, Publish, Forget, CheckIr, Ask, GoOnline, SetValid, PollOnline, PollOffline,
         PollValid, SendGaze
<1> QED
  BY <1>1, <1>2, <1>3

LEMMA RenderKeepsTypes ==
  NetTypes /\ RenderTypes /\ [Next]_vars => RenderTypes'
<1> SUFFICES ASSUME NetTypes, RenderTypes, [Next]_vars PROVE RenderTypes'
  OBVIOUS
<1>1. CASE BootDark \/ BootForgets \/ BootLoads \/ Doff \/ Don \/ StaysAsItIs
  BY <1>1 DEF BootDark, BootForgets, BootLoads, Doff, Don, StaysAsItIs, NetTypes, RenderTypes
<1>2. CASE Sample \/ UpEdge
  BY <1>2 DEF Sample, UpEdge, NetTypes, RenderTypes
<1>3. CASE UpLights \/ DownEdge \/ Reapply \/ NoReapply \/ Restart
  BY <1>3 DEF UpLights, DownEdge, Reapply, NoReapply, Restart, RenderTypes
<1>4. CASE UNCHANGED renderVars
  BY <1>4 DEF renderVars, RenderTypes
<1>5. Turn \/ Restart \/ UNCHANGED renderVars
  BY DEF Next, vars, Network, Worker, StreamStarts, StreamLights, ResetRequests,
         ResetStops, ResetClears, Toggle, Raise, Take, Decide, SetMode, Publish, Forget,
         CheckIr, Ask, GoOnline, SetValid, PollOnline, PollOffline, PollValid, SendGaze
<1> QED
  BY <1>1, <1>2, <1>3, <1>4, <1>5 DEF Turn

LEMMA RequestKeepsTypes ==
  RenderTypes /\ RequestTypes /\ [Next]_vars => RequestTypes'
<1> SUFFICES ASSUME RenderTypes, RequestTypes, [Next]_vars PROVE RequestTypes'
  OBVIOUS
<1> USE DEF RequestTypes
<1>1. CASE StreamLights \/ ResetRequests
  BY <1>1 DEF StreamLights, ResetRequests, applyServerEyeTracking, uiVars
<1>2. CASE UpLights \/ DownEdge
  BY <1>2 DEF UpLights, DownEdge, applyServerEyeTracking, uiVars
<1>3. CASE Reapply
  BY <1>3 DEF Reapply, applyServerEyeTracking, RenderTypes
<1>4. CASE Restart
  BY <1>4 DEF Restart, uiVars
<1>5. CASE Toggle \/ Raise
  BY <1>5 DEF Toggle, Raise, request
<1>6. CASE Take
  BY <1>6 DEF Take, uiVars
<1>7. CASE BootLoads
  BY <1>7 DEF BootLoads, request
<1>8. CASE UNCHANGED <<uiVars, request>>
  BY <1>8 DEF uiVars, request
<1>9. \/ BootLoads \/ StreamLights \/ ResetRequests \/ UpLights \/ DownEdge \/ Reapply \/ Restart
      \/ Toggle \/ Raise \/ Take \/ UNCHANGED <<uiVars, request>>
  BY DEF Next, vars, Network, Turn, Worker, StreamStarts, ResetStops, ResetClears, BootDark,
         BootForgets, Doff, Don, StaysAsItIs, Sample, UpEdge, NoReapply, Decide, SetMode,
         Publish, Forget, CheckIr, Ask, GoOnline, SetValid, PollOnline, PollOffline,
         PollValid, SendGaze
<1> QED
  BY <1>1, <1>2, <1>3, <1>4, <1>5, <1>6, <1>7, <1>8, <1>9

LEMMA WorkerKeepsTypes ==
  RequestTypes /\ WorkerTypes /\ [Next]_vars => WorkerTypes'
<1> SUFFICES ASSUME RequestTypes, WorkerTypes, [Next]_vars PROVE WorkerTypes'
  OBVIOUS
<1> USE DEF WorkerTypes
<1>1. CASE Take
  BY <1>1 DEF Take, RequestTypes
<1>2. CASE Decide
  <2>1. worker' = [worker EXCEPT !.at = "set", !.want = worker'.want]
    BY <1>2 DEF Decide
  <2>2. worker'.want \in BOOLEAN /\ (worker'.want => gEyeSupported')
    BY <1>2 DEF Decide
  <2>3. gServerEyeEnabled' \in BOOLEAN /\ gEyeSupported' \in BOOLEAN
    BY <1>2 DEF Decide
  <2> QED
    BY <2>1, <2>2, <2>3
<1>3. CASE SetMode
  BY <1>3 DEF SetMode
<1>4. CASE Publish \/ Forget
  <2>1. worker' = Idle \/ worker' = [worker EXCEPT !.at = "forget"]
    BY <1>4 DEF Publish, Forget
  <2>2. UNCHANGED <<gServerEyeEnabled, gEyeSupported>>
    BY <1>4 DEF Publish, Forget
  <2>3. CASE worker' = Idle
    BY <2>2, <2>3 DEF Idle
  <2>4. CASE worker' = [worker EXCEPT !.at = "forget"]
    BY <2>2, <2>4
  <2> QED
    BY <2>1, <2>3, <2>4
<1>5. CASE UNCHANGED workerVars
  BY <1>5 DEF workerVars
<1>6. Worker \/ UNCHANGED workerVars
  BY DEF Next, vars, Network, Turn, StreamStarts, StreamLights, ResetRequests, ResetStops,
         ResetClears, BootDark, BootForgets, BootLoads, Doff, Don, StaysAsItIs, Sample, UpEdge,
         UpLights, DownEdge, Reapply, NoReapply, Restart, Toggle, Raise, CheckIr, Ask,
         GoOnline, SetValid, PollOnline, PollOffline, PollValid, SendGaze
<1> QED
  BY <1>1, <1>2, <1>3, <1>4, <1>5, <1>6 DEF Worker

LEMMA GazeKeepsTypes ==
  WorkerTypes /\ GazeTypes /\ [Next]_vars => GazeTypes'
<1> SUFFICES ASSUME WorkerTypes, GazeTypes, [Next]_vars PROVE GazeTypes'
  OBVIOUS
<1> USE DEF GazeTypes
<1>1. CASE BootDark \/ BootForgets
  BY <1>1 DEF BootDark, BootForgets, gaze, readerVars, trackerVars
<1>2. CASE SetMode \/ Publish
  BY <1>2 DEF SetMode, Publish, WorkerTypes, gaze, readerVars, trackerVars
<1>3. CASE Forget
  BY <1>3 DEF Forget, trackerVars
<1>4. CASE CheckIr \/ GoOnline \/ SetValid
  BY <1>4 DEF CheckIr, GoOnline, SetValid, gaze, trackerVars
<1>5. CASE Ask
  BY <1>5 DEF Ask, trackerVars
<1>6. CASE PollOnline \/ PollOffline \/ PollValid \/ SendGaze
  BY <1>6 DEF PollOnline, PollOffline, PollValid, SendGaze, gaze, readerVars
<1>7. CASE UNCHANGED <<eyeBit, gEyeIrOn, gaze, readerVars, trackerVars>>
  BY <1>7 DEF gaze, readerVars, trackerVars
<1>8. \/ BootDark \/ BootForgets \/ SetMode \/ Publish \/ Forget
      \/ CheckIr \/ GoOnline \/ SetValid \/ Ask
      \/ PollOnline \/ PollOffline \/ PollValid \/ SendGaze
      \/ UNCHANGED <<eyeBit, gEyeIrOn, gaze, readerVars, trackerVars>>
  BY DEF Next, vars, Network, Turn, Worker, StreamStarts, StreamLights, ResetRequests,
         ResetStops, ResetClears, BootLoads, Doff, Don, StaysAsItIs, Sample, UpEdge, UpLights,
         DownEdge, Reapply, NoReapply, Restart, Toggle, Raise, Take, Decide
<1> QED
  BY <1>1, <1>2, <1>3, <1>4, <1>5, <1>6, <1>7, <1>8

LEMMA SpentKeepsType == spent \in 0..MaxEvents /\ [Next]_vars => spent' \in 0..MaxEvents
<1> SUFFICES ASSUME spent \in 0..MaxEvents, [Next]_vars PROVE spent' \in 0..MaxEvents
  OBVIOUS
<1>1. CASE Spend
  BY <1>1, EyeAssumption DEF Spend
<1>2. Spend \/ UNCHANGED spent
  BY DEF Next, vars, Network, Turn, Worker, StreamStarts, StreamLights, ResetRequests,
         ResetStops, ResetClears, BootDark, BootForgets, BootLoads, Doff, Don, StaysAsItIs, Sample,
         UpEdge, UpLights, DownEdge, Reapply, NoReapply, Restart, Toggle, Raise, Take,
         Decide, SetMode, Publish, Forget, CheckIr, Ask, GoOnline, SetValid, PollOnline,
         PollOffline, PollValid, SendGaze
<1> QED
  BY <1>1, <1>2

LEMMA NextType == TypeOK /\ [Next]_vars => TypeOK'
  BY NetKeepsTypes, RenderKeepsTypes, RequestKeepsTypes, WorkerKeepsTypes, GazeKeepsTypes,
     SpentKeepsType DEF TypeOK

(* Each thread's place and its locals stay among those of its code, and the *)
(* worker never wants the light of a headset without the illuminators.      *)
THEOREM TypeCorrect == Spec => []TypeOK
<1> QED
  BY InitType, NextType, PTL DEF Spec
=============================================================================
