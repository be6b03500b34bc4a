------------------------------- MODULE Surface -------------------------------
(***************************************************************************)
(* The window the headset draws to: the SurfaceView callbacks of the       *)
(* activity (jni.cpp), the render thread that makes the EGL surface and    *)
(* points the SDK's warp thread at it, and the tracking thread that reads  *)
(* the SDK meanwhile (render_thread.cpp).                                  *)
(*                                                                         *)
(* The UI thread starts and stops the native side and hands windows over   *)
(* through gPendingWindow/gWindowDirty; a window carries one reference per *)
(* hand-over.  The render thread swaps surfaces in steps, because the      *)
(* other two threads run between them.  The warp belongs to the SDK: it    *)
(* presents to the window it captured until it is paused or re-pointed.    *)
(***************************************************************************)
EXTENDS Naturals, FiniteSets

CONSTANTS Windows,      \* the ANativeWindows Android may hand over
          NoWindow,     \* a null pointer, EGL_NO_SURFACE
          MaxStarts,    \* bound: calls of nativeStart that start
          MaxCallbacks, \* bound: surface callbacks
          MaxFailures,  \* bound: failing eglCreateWindowSurface calls
          MaxFovs       \* bound: releases of the field-of-view slider

ASSUME SurfaceAssumption == NoWindow \notin Windows
ASSUME SurfaceBounds ==
  MaxStarts \in Nat /\ MaxCallbacks \in Nat /\ MaxFailures \in Nat /\ MaxFovs \in Nat

VARIABLES
  gRunning,        \* lifetime flag of the render thread
  gPendingWindow, gWindowDirty,   \* the hand-over (render_thread.cpp)
  surface,         \* the window of the SurfaceView's surface, as Android sees it
  refs,            \* references held on each window by this program
  renderPc,        \* render thread: where it is, the window it took over
  curWin, sfc,     \* the window in use, the window its EGL surface was made from
  warp,            \* the SDK's warp: the window it presents to, paused or not
  gTrackPaused,
  tracking,        \* tracking thread: "none", "check" (before the flag), "read"
                   \* (flag seen clear) or "sdk" (inside Pvr_GetMainSensorState)
  gFovDirty,
  handed,          \* windows handed over more than once (history)
  failed,          \* windows whose surface could not be created (history)
  swapReads,       \* SDK reads begun since the tracker was last paused (history)
  budget           \* what is left of the bounds

surfaceVars == <<gRunning, gPendingWindow, gWindowDirty, surface, refs, renderPc,
                 curWin, sfc, warp, gTrackPaused, tracking, gFovDirty, handed,
                 failed, swapReads, budget>>
uiVars     == <<gRunning, gPendingWindow, gWindowDirty, surface, gFovDirty, handed>>
eglVars    == <<curWin, sfc, warp, failed>>

NoWarp == [win |-> NoWindow, paused |-> FALSE, ready |-> FALSE]

SurfaceInit ==
  /\ gRunning = FALSE /\ gWindowDirty = FALSE /\ gTrackPaused = FALSE
  /\ gFovDirty = FALSE
  /\ gPendingWindow = NoWindow /\ surface = NoWindow /\ curWin = NoWindow /\ sfc = NoWindow
  /\ refs = [w \in Windows |-> 0]
  /\ renderPc = [at |-> "none", win |-> NoWindow]
  /\ warp = NoWarp
  /\ tracking = "none"
  /\ handed = {} /\ failed = {} /\ swapReads = 0
  /\ budget = [starts |-> MaxStarts, callbacks |-> MaxCallbacks,
               failures |-> MaxFailures, fovs |-> MaxFovs]

(* The warp can be driven: initialised, and told to own the window. *)
WarpReady == warp.ready

Release(w) == IF w = NoWindow THEN refs ELSE [refs EXCEPT ![w] = @ - 1]

-----------------------------------------------------------------------------
(* UI thread.                                                               *)

(* The activity is created, with no surface yet.  The new render thread     *)
(* starts the tracking thread before it enters its loop.                    *)
NativeStart ==
  /\ ~gRunning /\ renderPc.at = "none" /\ surface = NoWindow /\ budget.starts > 0
  /\ gRunning' = TRUE
  /\ renderPc' = [at |-> "loop", win |-> NoWindow]
  /\ warp' = NoWarp
  /\ tracking' = "check"
  /\ budget' = [budget EXCEPT !.starts = @ - 1]
  /\ UNCHANGED <<gPendingWindow, gWindowDirty, surface, refs, curWin, sfc,
                 gTrackPaused, gFovDirty, handed, failed, swapReads>>

(* The activity is destroyed: the flag is cleared and the UI thread waits   *)
(* for the render thread (UiFree).                                          *)
NativeStop ==
  /\ gRunning
  /\ gRunning' = FALSE
  /\ UNCHANGED <<gPendingWindow, gWindowDirty, surface, refs, renderPc, curWin, sfc,
                 warp, gTrackPaused, tracking, gFovDirty, handed, failed,
                 swapReads, budget>>

UiFree == gRunning \/ renderPc.at = "none"

(* Variant: the reference of an already consumed window is released too. *)
DropPendingConsumed(win) ==
  IF gPendingWindow # win THEN gPendingWindow ELSE NoWindow

(* The pending reference that a new hand-over would lose: only while the    *)
(* render thread has not consumed it.                                       *)
DropPending(win) ==
  IF gWindowDirty /\ gPendingWindow # win THEN gPendingWindow ELSE NoWindow

setWindow(win, r) ==
  LET lost == DropPending(win) IN
  /\ refs' = IF lost = NoWindow THEN r ELSE [r EXCEPT ![lost] = @ - 1]
  /\ gPendingWindow' = win
  /\ gWindowDirty' = TRUE

(* surfaceChanged: the first one of a new surface, or a size change of the  *)
(* one already handed over; each takes a reference.                         *)
SurfaceChanged(w) ==
  /\ UiFree /\ budget.callbacks > 0
  /\ surface = w \/ (surface = NoWindow /\ refs[w] = 0)
  /\ surface' = w
  /\ handed' = IF surface = w THEN handed \union {w} ELSE handed \ {w}
  /\ setWindow(w, [refs EXCEPT ![w] = @ + 1])
  /\ failed' = IF surface = w THEN failed ELSE failed \ {w}
  /\ budget' = [budget EXCEPT !.callbacks = @ - 1]
  /\ UNCHANGED <<gRunning, renderPc, curWin, sfc, warp, gTrackPaused, tracking,
                 gFovDirty, swapReads>>

SurfaceDestroyed ==
  /\ UiFree /\ surface # NoWindow
  /\ surface' = NoWindow
  /\ setWindow(NoWindow, refs)
  /\ UNCHANGED <<gRunning, renderPc, curWin, sfc, warp, gTrackPaused, tracking,
                 gFovDirty, handed, failed, swapReads, budget>>

(* The slider of the field of view is released in the lobby. *)
SetFov ==
  /\ UiFree /\ budget.fovs > 0
  /\ gFovDirty' = TRUE
  /\ budget' = [budget EXCEPT !.fovs = @ - 1]
  /\ UNCHANGED <<gRunning, gPendingWindow, gWindowDirty, surface, refs, renderPc,
                 curWin, sfc, warp, gTrackPaused, tracking, handed, failed, swapReads>>

-----------------------------------------------------------------------------
(* Render thread.                                                           *)

Goto(place) == renderPc' = [renderPc EXCEPT !.at = place]

(* The pending window is consumed.  The same window again changes nothing   *)
(* but the pause flag.                                                      *)
Take ==
  /\ renderPc.at = "loop" /\ gRunning /\ gWindowDirty
  /\ gWindowDirty' = FALSE
  /\ renderPc' = IF gPendingWindow = curWin THEN [at |-> "unpause", win |-> NoWindow]
               ELSE [at |-> "pause", win |-> gPendingWindow]
  /\ UNCHANGED <<gRunning, gPendingWindow, surface, refs, gTrackPaused, tracking,
                 gFovDirty, handed, swapReads, budget, eglVars>>

PauseTracker ==
  /\ renderPc.at = "pause"
  /\ gTrackPaused' = TRUE
  /\ swapReads' = 0
  /\ Goto("swap")
  /\ UNCHANGED <<refs, tracking, budget, uiVars, eglVars>>

(* The warp is paused, the old surface destroyed, its window released. *)
TearDown ==
  /\ renderPc.at = "swap"
  /\ warp' = IF WarpReady THEN [warp EXCEPT !.paused = TRUE] ELSE warp
  /\ sfc' = NoWindow
  /\ refs' = Release(curWin)
  /\ curWin' = renderPc.win
  /\ renderPc' = [at |-> IF renderPc.win = NoWindow THEN "unpause" ELSE "create", win |-> NoWindow]
  /\ UNCHANGED <<gTrackPaused, tracking, failed, swapReads, budget, uiVars>>

(* Variant: the warp captures the new window and stays paused. *)
RePointStayPaused == [win |-> curWin, paused |-> warp.paused, ready |-> TRUE]

(* The warp captures the current window: EV_InitRenderThread, and for a     *)
(* warp that ran before, EV_Resume.                                         *)
RePoint == [win |-> curWin, paused |-> FALSE, ready |-> TRUE]

CreateSurface ==
  /\ renderPc.at = "create"
  /\ sfc' = curWin
  /\ warp' = RePoint
  /\ Goto("unpause")
  /\ UNCHANGED <<refs, curWin, failed, gTrackPaused, tracking, swapReads, budget, uiVars>>

CreateFails ==
  /\ renderPc.at = "create" /\ budget.failures > 0
  /\ failed' = failed \union {curWin}
  /\ budget' = [budget EXCEPT !.failures = @ - 1]
  /\ Goto("unpause")
  /\ UNCHANGED <<refs, curWin, sfc, warp, gTrackPaused, tracking, swapReads, uiVars>>

ResumeTracker ==
  /\ renderPc.at = "unpause"
  /\ gTrackPaused' = FALSE
  /\ Goto("loop")
  /\ UNCHANGED <<refs, tracking, swapReads, budget, uiVars, eglVars>>

(* A surface that could not be made is tried again while the window is     *)
(* held; the warp is not told.                                              *)
Recover ==
  /\ renderPc.at = "loop" /\ gRunning /\ ~gWindowDirty
  /\ sfc = NoWindow /\ curWin # NoWindow
  /\ sfc' = curWin
  /\ UNCHANGED <<refs, renderPc, curWin, warp, failed, gTrackPaused, tracking,
                 swapReads, budget, uiVars>>

(* A new field of view pauses the warp and points it at the same surface    *)
(* again; the tracking thread is not paused.                                *)
FovPause ==
  /\ renderPc.at = "loop" /\ gRunning /\ gFovDirty
  /\ gFovDirty' = FALSE
  /\ IF WarpReady /\ sfc # NoWindow
     THEN warp' = [warp EXCEPT !.paused = TRUE] /\ Goto("fov")
     ELSE UNCHANGED <<warp, renderPc>>
  /\ UNCHANGED <<gRunning, gPendingWindow, gWindowDirty, surface, refs, curWin, sfc,
                 gTrackPaused, tracking, handed, failed, swapReads, budget>>

FovRePoint ==
  /\ renderPc.at = "fov"
  /\ warp' = RePoint
  /\ Goto("loop")
  /\ UNCHANGED <<refs, curWin, sfc, failed, gTrackPaused, tracking, swapReads,
                 budget, uiVars>>

(* The loop ends: the tracking thread is told to stop and joined ... *)
StopTracking ==
  /\ renderPc.at = "loop" /\ ~gRunning
  /\ Goto("join")
  /\ UNCHANGED <<refs, gTrackPaused, tracking, swapReads, budget, uiVars, eglVars>>

(* ... and the surface, the window and the context go; the warp is not told. *)
RenderExit ==
  /\ renderPc.at = "join" /\ tracking = "none"
  /\ sfc' = NoWindow /\ curWin' = NoWindow
  /\ refs' = Release(curWin)
  /\ Goto("none")
  /\ UNCHANGED <<warp, failed, gTrackPaused, tracking, swapReads, budget, uiVars>>

RenderStep == \/ Take \/ PauseTracker \/ TearDown \/ CreateSurface \/ CreateFails
              \/ ResumeTracker \/ Recover \/ FovPause \/ FovRePoint
              \/ StopTracking \/ RenderExit

-----------------------------------------------------------------------------
(* Tracking thread: tests both flags, then calls the SDK.                   *)

Tracks(from, to) ==
  /\ tracking = from /\ tracking' = to
  /\ UNCHANGED <<gTrackPaused, renderPc, refs, budget, uiVars, eglVars>>

TrackerLooks == renderPc.at # "join" /\ ~gTrackPaused /\ Tracks("check", "read")
                /\ UNCHANGED swapReads

(* Variant: the flag is looked at once, before the loop. *)
TrackerReturnsUnchecked == Tracks("sdk", IF renderPc.at = "join" THEN "check" ELSE "read")
                           /\ UNCHANGED swapReads

TrackerReturns == Tracks("sdk", "check") /\ UNCHANGED swapReads
TrackerReads   == Tracks("read", "sdk")
                  /\ swapReads' = IF gTrackPaused THEN swapReads + 1 ELSE swapReads
TrackerEnds    == renderPc.at = "join" /\ Tracks("check", "none") /\ UNCHANGED swapReads

TrackerStep == TrackerLooks \/ TrackerReads \/ TrackerReturns \/ TrackerEnds

SurfaceNext == \/ NativeStart \/ NativeStop \/ SurfaceDestroyed \/ SetFov
               \/ \E w \in Windows : SurfaceChanged(w)
               \/ RenderStep \/ TrackerStep

SurfaceSpec == SurfaceInit /\ [][SurfaceNext]_surfaceVars

-----------------------------------------------------------------------------
SurfaceTypeOK ==
  LET Held == Windows \union {NoWindow} IN
  /\ {gRunning, gWindowDirty, gTrackPaused, gFovDirty} \subseteq BOOLEAN
  /\ {gPendingWindow, surface, curWin, sfc} \subseteq Held
  /\ refs \in [Windows -> Nat]
  /\ renderPc \in [at: {"none", "loop", "pause", "swap", "create", "unpause", "fov", "join"},
                   win: Held]
  /\ warp \in [win: Held, paused: BOOLEAN, ready: BOOLEAN]
  /\ tracking \in {"none", "check", "read", "sdk"}
  /\ handed \union failed \subseteq Held
  /\ swapReads \in Nat
  /\ budget \in [starts: Nat, callbacks: Nat, failures: Nat, fovs: Nat]

(* Who holds a reference on a window: the hand-over, the render thread that *)
(* has taken it, the surface in use.                                        *)
Owners(w) == (IF gWindowDirty /\ gPendingWindow = w THEN 1 ELSE 0)
             + (IF renderPc.win = w THEN 1 ELSE 0)
             + (IF curWin = w THEN 1 ELSE 0)

(* Every window the program still refers to is alive, and one that was      *)
(* handed over only once has not a reference too many: whatever the order   *)
(* of callbacks, swaps and stops, none is freed early or leaked.  (A size   *)
(* change of a window in use leaks the reference it took.)                  *)
WindowsHeld ==
  \A w \in Windows : /\ refs[w] >= Owners(w)
                     /\ w \notin handed => refs[w] = Owners(w)

(* The pause flag is no handshake: the tracking thread may be past its test *)
(* when a swap begins.  But it makes at most that one call during a swap.   *)
OneReadPerSwap == swapReads <= 1

Presents == sfc = surface /\ warp.win = surface /\ ~warp.paused

(* A surface that stays gets shown: the render thread makes an EGL surface  *)
(* from it and the warp presents to it, unpaused, unless the creation of    *)
(* its EGL surface failed (what Recover makes then, the warp never sees).   *)
SurfaceShown ==
  \A w \in Windows :
    []<>(~gRunning \/ surface # w \/ Presents \/ w \in failed)

=============================================================================
