---------------------------- MODULE HeadsetProofs ----------------------------
(***************************************************************************)
(* Proofs about the parts of the app on the headset, for any values of     *)
(* their constants: the window, what is presented to the warp, the         *)
(* settings; then the types of all six parts of MCHeadset.                 *)
(***************************************************************************)
EXTENDS MCHeadset, DevicesProofs

-----------------------------------------------------------------------------
(* THE WINDOW                                                               *)
(*                                                                         *)
(* For any windows and any number of callbacks: a window is counted once    *)
(* for each place that holds it, and only a size change of a window in use  *)
(* lets two places hold the same one.                                       *)

(* The render thread holds a window of its own only on its way to the swap. *)
TakenInSwap == renderPc.win # NoWindow => renderPc.at \in {"pause", "swap"}

(* Two places hold one window only after a size change. *)
OwnedOnce == \A w \in Windows : Owners(w) > 1 => w \in handed

(* The call under way when the tracker is paused is the only one left. *)
LastRead == swapReads <= 1 /\ (gTrackPaused /\ tracking = "read" => swapReads = 0)

References == TakenInSwap /\ WindowsHeld /\ OwnedOnce

-----------------------------------------------------------------------------
(* Types.                                                                   *)

(* A reference that someone owns is there to be released. *)
LEMMA ReleaseType ==
  ASSUME SurfaceTypeOK, NEW r \in [Windows -> Nat], NEW w \in Windows, r[w] > 0
  PROVE  [r EXCEPT ![w] = @ - 1] \in [Windows -> Nat]
BY DEF SurfaceTypeOK

(* The window the render thread uses has a reference. *)
LEMMA InUseHeld ==
  ASSUME SurfaceTypeOK, WindowsHeld
  PROVE  Release(curWin) \in [Windows -> Nat]
<1>1. CASE curWin = NoWindow
  BY <1>1 DEF SurfaceTypeOK, Release
<1>2. CASE curWin # NoWindow
  <2>1. curWin \in Windows
    BY <1>2 DEF SurfaceTypeOK
  <2>2. refs[curWin] > 0
    BY <2>1 DEF SurfaceTypeOK, WindowsHeld, Owners
  <2> QED BY <1>2, <2>1, <2>2 DEF SurfaceTypeOK, Release
<1> QED BY <1>1, <1>2

(* So has the window of a hand-over that is about to be lost. *)
LEMMA LostHeld ==
  ASSUME SurfaceTypeOK, WindowsHeld, NEW win, DropPending(win) # NoWindow
  PROVE  /\ DropPending(win) = gPendingWindow /\ gWindowDirty /\ gPendingWindow # win
         /\ gPendingWindow \in Windows /\ refs[gPendingWindow] > 0
<1>1. DropPending(win) = gPendingWindow /\ gWindowDirty /\ gPendingWindow # win
  BY DEF DropPending
<1>2. gPendingWindow \in Windows
  BY <1>1 DEF SurfaceTypeOK
<1>3. refs[gPendingWindow] > 0
  BY <1>1, <1>2 DEF SurfaceTypeOK, WindowsHeld, Owners
<1> QED BY <1>1, <1>2, <1>3

LEMMA SurfaceInitType == ASSUME SurfaceInit PROVE SurfaceTypeOK
<1> DEFINE Claims == Windows \union {NoWindow}
<1>1. /\ refs \in [Windows -> Nat]
      /\ budget \in [starts: Nat, callbacks: Nat, failures: Nat, fovs: Nat]
  BY SurfaceBounds DEF SurfaceInit
<1>2. /\ warp \in [win: Claims, paused: BOOLEAN, ready: BOOLEAN]
      /\ renderPc \in [at: {"none"}, win: Claims]
  BY DEF SurfaceInit, NoWarp
<1> QED BY <1>1, <1>2 DEF SurfaceInit, SurfaceTypeOK

LEMMA SurfaceNextType ==
  ASSUME SurfaceTypeOK, WindowsHeld, [SurfaceNext]_surfaceVars
  PROVE  SurfaceTypeOK'
<1> USE DEF SurfaceTypeOK, uiVars, eglVars, Goto
<1>1. CASE NativeStart
  BY <1>1 DEF NativeStart, NoWarp
<1>2. CASE NativeStop
  BY <1>2 DEF NativeStop
<1>3. CASE SurfaceDestroyed
  <2>1. refs' \in [Windows -> Nat]
    <3>1. CASE DropPending(NoWindow) = NoWindow
      BY <1>3, <3>1 DEF SurfaceDestroyed, setWindow
    <3>2. CASE DropPending(NoWindow) # NoWindow
      BY <1>3, <3>2, LostHeld DEF SurfaceDestroyed, setWindow
    <3> QED BY <3>1, <3>2
  <2> QED BY <1>3, <2>1 DEF SurfaceDestroyed, setWindow
<1>4. CASE SetFov
  BY <1>4 DEF SetFov
<1>5. ASSUME NEW w \in Windows, SurfaceChanged(w) PROVE SurfaceTypeOK'
  <2>1. refs' \in [Windows -> Nat]
    <3>1. CASE DropPending(w) = NoWindow
      BY <1>5, <3>1 DEF SurfaceChanged, setWindow
    <3>2. CASE DropPending(w) # NoWindow
      BY <1>5, <3>2, LostHeld DEF SurfaceChanged, setWindow
    <3> QED BY <3>1, <3>2
  <2> QED BY <1>5, <2>1 DEF SurfaceChanged, setWindow
<1>6. CASE Take
  BY <1>6 DEF Take
<1>7. CASE PauseTracker
  BY <1>7 DEF PauseTracker
<1>8. CASE TearDown
  BY ZenonT(60), <1>8, InUseHeld DEF TearDown
<1>9. CASE CreateSurface
  BY <1>9 DEF CreateSurface, RePoint
<1>10. CASE CreateFails
  BY <1>10 DEF CreateFails
<1>11. CASE ResumeTracker
  BY <1>11 DEF ResumeTracker
<1>12. CASE Recover
  BY <1>12 DEF Recover
<1>13. CASE FovPause
  BY ZenonT(60), <1>13 DEF FovPause
<1>14. CASE FovRePoint
  BY <1>14 DEF FovRePoint, RePoint
<1>15. CASE StopTracking
  BY <1>15 DEF StopTracking
<1>16. CASE RenderExit
  BY <1>16, InUseHeld DEF RenderExit
<1>17. CASE TrackerStep
  BY <1>17 DEF TrackerStep, TrackerLooks, TrackerReads, TrackerReturns, TrackerEnds, Tracks
<1>18. CASE UNCHANGED surfaceVars
  BY <1>18 DEF surfaceVars
<1> QED
  BY <1>1, <1>2, <1>3, <1>4, <1>5, <1>6, <1>7, <1>8, <1>9, <1>10, <1>11, <1>12, <1>13,
     <1>14, <1>15, <1>16, <1>17, <1>18 DEF SurfaceNext, RenderStep

-----------------------------------------------------------------------------
(* References.                                                              *)

LEMMA InitReferences == SurfaceInit => References
BY SurfaceAssumption DEF SurfaceInit, References, TakenInSwap, WindowsHeld, OwnedOnce,
     Owners

(* A step that hands nothing over, takes nothing and releases nothing. *)
LEMMA NothingHeld ==
  ASSUME References, UNCHANGED <<gPendingWindow, gWindowDirty, refs, curWin, handed>>,
         renderPc'.win = renderPc.win,
         renderPc'.win = NoWindow \/ renderPc'.at \in {"pause", "swap"}
  PROVE  References'
BY DEF References, TakenInSwap, WindowsHeld, OwnedOnce, Owners

(* The old surface's window is released. *)
LEMMA Released ==
  ASSUME SurfaceTypeOK, References, refs' = Release(curWin),
         UNCHANGED <<gPendingWindow, gWindowDirty, handed>>,
         \/ curWin' = renderPc.win /\ renderPc'.win = NoWindow
         \/ curWin' = NoWindow /\ renderPc'.win = renderPc.win /\ renderPc.win = NoWindow
  PROVE  References'
<1>1. TakenInSwap'
  BY DEF TakenInSwap
<1>2. ASSUME NEW w \in Windows
      PROVE  /\ refs'[w] >= Owners(w)'
             /\ w \notin handed' => refs'[w] = Owners(w)'
             /\ Owners(w)' > 1 => w \in handed'
  <2>1. /\ refs[w] >= Owners(w)
        /\ w \notin handed => refs[w] = Owners(w)
        /\ Owners(w) > 1 => w \in handed
    BY DEF References, WindowsHeld, OwnedOnce
  <2>2. refs[w] \in Nat /\ refs'[w] = IF w = curWin THEN refs[w] - 1 ELSE refs[w]
    BY SurfaceAssumption DEF SurfaceTypeOK, Release
  <2>3. Owners(w)' = IF w = curWin THEN Owners(w) - 1 ELSE Owners(w)
    BY SurfaceAssumption DEF Owners
  <2>4. Owners(w) \in Nat
    BY DEF Owners
  <2> QED BY <2>1, <2>2, <2>3, <2>4
<1> QED BY <1>1, <1>2 DEF References, WindowsHeld, OwnedOnce

(* A hand-over of no window: the reference of the one it replaces goes. *)
LEMMA DestroyedReferences ==
  ASSUME SurfaceTypeOK, References, SurfaceDestroyed
  PROVE  References'
<1>1. TakenInSwap'
  BY DEF References, TakenInSwap, SurfaceDestroyed
<1>2. ASSUME NEW w \in Windows
      PROVE  /\ refs'[w] >= Owners(w)'
             /\ w \notin handed' => refs'[w] = Owners(w)'
             /\ Owners(w)' > 1 => w \in handed'
  <2> DEFINE lost == gWindowDirty /\ gPendingWindow = w
  <2>1. /\ refs[w] >= Owners(w)
        /\ w \notin handed => refs[w] = Owners(w)
        /\ Owners(w) > 1 => w \in handed
    BY DEF References, WindowsHeld, OwnedOnce
  <2>2. refs[w] \in Nat /\ refs'[w] = IF lost THEN refs[w] - 1 ELSE refs[w]
    BY SurfaceAssumption DEF SurfaceTypeOK, SurfaceDestroyed, setWindow, DropPending
  <2>3. Owners(w)' = IF lost THEN Owners(w) - 1 ELSE Owners(w)
    BY SurfaceAssumption DEF Owners, SurfaceDestroyed, setWindow
  <2>4. Owners(w) \in Nat /\ handed' = handed
    BY DEF Owners, SurfaceDestroyed
  <2> QED BY <2>1, <2>2, <2>3, <2>4
<1> QED BY <1>1, <1>2 DEF References, WindowsHeld, OwnedOnce

(* A new window has no owner yet; one that comes again is a size change. *)
LEMMA ChangedReferences ==
  ASSUME SurfaceTypeOK, References, NEW v \in Windows, SurfaceChanged(v)
  PROVE  References'
<1>1. TakenInSwap'
  BY DEF References, TakenInSwap, SurfaceChanged
<1>2. ASSUME NEW w \in Windows
      PROVE  /\ refs'[w] >= Owners(w)'
             /\ w \notin handed' => refs'[w] = Owners(w)'
             /\ Owners(w)' > 1 => w \in handed'
  <2> DEFINE toCome == gWindowDirty /\ gPendingWindow = w
             elsewhere == (IF renderPc.win = w THEN 1 ELSE 0) + (IF curWin = w THEN 1 ELSE 0)
  <2>1. /\ refs[w] >= Owners(w)
        /\ w \notin handed => refs[w] = Owners(w)
        /\ Owners(w) > 1 => w \in handed
    BY DEF References, WindowsHeld, OwnedOnce
  <2>2. elsewhere \in Nat /\ Owners(w) = (IF toCome THEN 1 ELSE 0) + elsewhere
    BY DEF Owners
  <2>3. Owners(w)' = (IF v = w THEN 1 ELSE 0) + elsewhere
    BY DEF Owners, SurfaceChanged, setWindow
  <2>4. refs[w] \in Nat
    BY DEF SurfaceTypeOK
  <2> HIDE DEF elsewhere
  <2>5. CASE v = w
    <3>1. refs'[w] = refs[w] + 1
      BY <2>5, SurfaceAssumption DEF SurfaceTypeOK, SurfaceChanged, setWindow, DropPending
    <3>2. w \in handed' \/ refs[w] = 0
      BY <2>5 DEF SurfaceChanged
    <3> QED BY <2>1, <2>2, <2>3, <2>4, <2>5, <3>1, <3>2
  <2>6. CASE v # w
    <3>1. refs'[w] = IF toCome THEN refs[w] - 1 ELSE refs[w]
      BY <2>6, SurfaceAssumption DEF SurfaceTypeOK, SurfaceChanged, setWindow, DropPending
    <3>2. w \in handed' <=> w \in handed
      BY <2>6 DEF SurfaceChanged
    <3> QED BY <2>1, <2>2, <2>3, <2>4, <2>6, <3>1, <3>2
  <2> QED BY <2>5, <2>6
<1> QED BY <1>1, <1>2 DEF References, WindowsHeld, OwnedOnce

(* The render thread takes the window over, unless it has it already. *)
LEMMA TakeReferences ==
  ASSUME SurfaceTypeOK, References, Take
  PROVE  References'
<1>1. TakenInSwap'
  BY DEF TakenInSwap, Take
<1>2. renderPc.win = NoWindow
  BY DEF References, TakenInSwap, Take
<1>3. ASSUME NEW w \in Windows
      PROVE  /\ refs'[w] >= Owners(w)'
             /\ w \notin handed' => refs'[w] = Owners(w)'
             /\ Owners(w)' > 1 => w \in handed'
  <2>1. /\ refs[w] >= Owners(w)
        /\ w \notin handed => refs[w] = Owners(w)
        /\ Owners(w) > 1 => w \in handed
    BY DEF References, WindowsHeld, OwnedOnce
  <2>2. refs[w] \in Nat /\ refs' = refs /\ handed' = handed
    BY DEF SurfaceTypeOK, Take, eglVars
  <2>3. CASE gPendingWindow = curWin /\ curWin = w
    <3>1. Owners(w) = 2 /\ Owners(w)' = 1
      BY <1>2, <2>3, SurfaceAssumption DEF Owners, Take, eglVars
    <3> QED BY <2>1, <2>2, <3>1
  <2>4. CASE ~(gPendingWindow = curWin /\ curWin = w)
    <3>1. Owners(w)' = Owners(w)
      BY <1>2, <2>4, SurfaceAssumption DEF Owners, Take, eglVars, SurfaceTypeOK
    <3> QED BY <2>1, <2>2, <3>1
  <2> QED BY <2>3, <2>4
<1> QED BY <1>1, <1>3 DEF References, WindowsHeld, OwnedOnce

LEMMA NextReferences ==
  ASSUME SurfaceTypeOK, References, [SurfaceNext]_surfaceVars
  PROVE  References'
<1> USE DEF uiVars, eglVars, Goto
<1>1. CASE NativeStart
  BY <1>1, NothingHeld DEF NativeStart, References, TakenInSwap
<1>2. CASE NativeStop
  BY <1>2, NothingHeld DEF NativeStop, References, TakenInSwap
<1>3. CASE SurfaceDestroyed
  BY <1>3, DestroyedReferences
<1>4. CASE SetFov
  BY <1>4, NothingHeld DEF SetFov, References, TakenInSwap
<1>5. ASSUME NEW w \in Windows, SurfaceChanged(w) PROVE References'
  BY <1>5, ChangedReferences
<1>6. CASE Take
  BY <1>6, TakeReferences
<1>7. CASE PauseTracker
  BY <1>7, NothingHeld DEF PauseTracker, SurfaceTypeOK
<1>8. CASE TearDown
  BY <1>8, Released DEF TearDown
<1>9. CASE CreateSurface \/ CreateFails \/ ResumeTracker \/ FovRePoint \/ StopTracking
  <2>1. /\ UNCHANGED <<gPendingWindow, gWindowDirty, refs, curWin, handed>>
        /\ renderPc'.win = renderPc.win /\ renderPc.at \notin {"pause", "swap"}
    BY <1>9 DEF CreateSurface, CreateFails, ResumeTracker, FovRePoint, StopTracking,
                SurfaceTypeOK
  <2> QED BY <2>1, NothingHeld DEF References, TakenInSwap
<1>10. CASE Recover \/ TrackerStep
  BY <1>10, NothingHeld
     DEF Recover, References, TakenInSwap, TrackerStep, TrackerLooks, TrackerReads,
         TrackerReturns, TrackerEnds, Tracks
<1>11. CASE FovPause
  <2>1. /\ UNCHANGED <<gPendingWindow, gWindowDirty, refs, curWin, handed>>
        /\ renderPc'.win = renderPc.win /\ renderPc.at \notin {"pause", "swap"}
    BY <1>11 DEF FovPause, SurfaceTypeOK
  <2> QED BY <2>1, NothingHeld DEF References, TakenInSwap
<1>12. CASE RenderExit
  <2>1. renderPc'.win = renderPc.win /\ renderPc.win = NoWindow
    BY <1>12 DEF RenderExit, References, TakenInSwap, SurfaceTypeOK
  <2> QED BY <1>12, <2>1, Released DEF RenderExit
<1>13. CASE UNCHANGED surfaceVars
  BY <1>13, NothingHeld DEF surfaceVars, References, TakenInSwap
<1> QED
  BY <1>1, <1>2, <1>3, <1>4, <1>5, <1>6, <1>7, <1>8, <1>9, <1>10, <1>11, <1>12, <1>13
     DEF SurfaceNext, RenderStep

-----------------------------------------------------------------------------
(* The pause flag.                                                          *)

LEMMA NextLastRead ==
  ASSUME SurfaceTypeOK, LastRead, [SurfaceNext]_surfaceVars
  PROVE  LastRead'
<1> USE DEF SurfaceTypeOK, LastRead, uiVars, eglVars, Goto
<1>1. CASE NativeStart
  BY <1>1 DEF NativeStart
<1>2. CASE NativeStop \/ SurfaceDestroyed \/ SetFov \/ \E w \in Windows : SurfaceChanged(w)
  <2>1. UNCHANGED <<swapReads, gTrackPaused, tracking>>
    BY <1>2 DEF NativeStop, SurfaceDestroyed, SetFov, SurfaceChanged
  <2> QED BY <2>1
<1>3. CASE Take \/ PauseTracker \/ TearDown \/ CreateSurface \/ CreateFails
  BY <1>3 DEF Take, PauseTracker, TearDown, CreateSurface, CreateFails
<1>4. CASE \/ ResumeTracker \/ Recover \/ FovPause \/ FovRePoint \/ StopTracking
           \/ RenderExit
  BY <1>4 DEF ResumeTracker, Recover, FovPause, FovRePoint, StopTracking, RenderExit
<1>5. CASE TrackerStep
  BY <1>5 DEF TrackerStep, TrackerLooks, TrackerReads, TrackerReturns, TrackerEnds, Tracks
<1>6. CASE UNCHANGED surfaceVars
  BY <1>6 DEF surfaceVars
<1> QED
  BY <1>1, <1>2, <1>3, <1>4, <1>5, <1>6 DEF SurfaceNext, RenderStep

-----------------------------------------------------------------------------
LEMMA SurfaceInvariance == SurfaceSpec => [](SurfaceTypeOK /\ References /\ LastRead)
<1>1. SurfaceInit => SurfaceTypeOK /\ References /\ LastRead
  <2>1. SurfaceInit => LastRead
    BY DEF SurfaceInit, LastRead
  <2> QED BY <2>1, SurfaceInitType, InitReferences
<1>2. SurfaceTypeOK /\ References /\ LastRead /\ [SurfaceNext]_surfaceVars
      => (SurfaceTypeOK /\ References /\ LastRead)'
  BY SurfaceNextType, NextReferences, NextLastRead DEF References
<1> QED BY <1>1, <1>2, PTL DEF SurfaceSpec

(* Every variable of the window's hand-over keeps its type; in particular    *)
(* no reference count goes below zero.                                       *)
THEOREM SurfaceTypeCorrect == SurfaceSpec => []SurfaceTypeOK
BY SurfaceInvariance, PTL

(* Every reference on a window is released by the one who holds it last:    *)
(* while the program refers to a window it is alive, and one handed over    *)
(* once has no reference too many.                                          *)
THEOREM NoWindowLost == SurfaceSpec => []WindowsHeld
<1>1. References => WindowsHeld
  BY DEF References
<1> QED BY <1>1, SurfaceInvariance, PTL

(* The tracking thread makes at most one call of the SDK after it has been  *)
(* paused, however the threads interleave.                                  *)
THEOREM OneLateRead == SurfaceSpec => []OneReadPerSwap
<1>1. LastRead => OneReadPerSwap
  BY DEF LastRead, OneReadPerSwap
<1> QED BY <1>1, SurfaceInvariance, PTL

-----------------------------------------------------------------------------
(* WHAT THE WARP SAMPLES                                                    *)
(*                                                                         *)
(* For a ring of any length and a warp that keeps fewer textures than that. *)

Texture == [ring : {"lobby", "swap"}, slot : 0 .. RingLength - 1, alive : BOOLEAN]
Drawn   == [ring : {"lobby", "swap"}, slot : 0 .. RingLength - 1,
            submit : 0 .. RingLength - 1]

LoopTypes ==
  /\ PresentationTypeOK
  /\ loop \in {"sleep", "edges", "path", "submit"}
  /\ held \in Seq(Texture)
  /\ IF loop = "submit" THEN drawing \in Drawn ELSE drawing = NoDraw

(* The slot of the stream's ring that was drawn d draws ago. *)
Ago(d) == IF gSwap.idx >= d THEN gSwap.idx - d ELSE gSwap.idx - d + RingLength

(* A texture of the stream that is drawn and not yet submitted. *)
Undelivered == IF drawing.ring = "swap" THEN 1 ELSE 0

(* The textures submitted since the warp was given its i-th, it included,   *)
(* and the one to come.                                                     *)
Age(i) == Len(held) - i + 1 + Undelivered

(* A texture the warp has was drawn as many draws ago as others followed it, *)
(* at most: the draws in between were all submitted.                        *)
RecentSlots ==
  /\ \A i \in 1 .. Len(held) : held[i].ring = "swap" /\ held[i].alive =>
       \E d \in 1 + Undelivered .. Age(i) : held[i].slot = Ago(d)
  /\ drawing.ring = "swap" => drawing.slot = Ago(1) /\ drawing.submit = Ago(1)

(* Since the countdown to freeing the lobby's ring began, the stream's       *)
(* textures were submitted, one for each of its steps.                      *)
Countdown ==
  /\ drawing.ring = "lobby" => lobbyFreeDelay = -1
  /\ ~starved => LobbyTexturesLive
  /\ ~starved /\ lobbyFreeDelay >= 0 =>
       \A i \in 1 .. Len(held) :
         Age(i) <= FreeDelay - lobbyFreeDelay => held[i].ring = "swap"

WarpInv == LoopTypes /\ RecentSlots /\ Countdown

-----------------------------------------------------------------------------
(* The warp's textures.                                                     *)

(* The ring that follows a slot. *)
LEMMA NextInRing ==
  ASSUME NEW i \in 0 .. RingLength - 1
  PROVE  /\ (i + 1) % RingLength \in 0 .. RingLength - 1
         /\ (i + 1) % RingLength = IF i + 1 = RingLength THEN 0 ELSE i + 1
<1>1. RingLength \in Nat /\ RingLength > 0
  BY PresentationAssumption
<1>2. CASE i + 1 = RingLength
  <2>1. RingLength % RingLength = 0
    BY <1>1
  <2> QED
    BY <1>1, <1>2, <2>1
<1>3. CASE i + 1 # RingLength
  <2>1. i + 1 \in 0 .. RingLength - 1
    BY <1>1, <1>3
  <2>2. (i + 1) % RingLength = i + 1
    BY <1>1, <2>1
  <2> QED
    BY <1>1, <1>3, <2>1, <2>2
<1> QED
  BY <1>2, <1>3

(* A ring that is deleted takes only the life of its textures. *)
LEMMA DeletedKeeps ==
  ASSUME held \in Seq(Texture), NEW ring
  PROVE  /\ Deleted(ring) \in Seq(Texture) /\ Len(Deleted(ring)) = Len(held)
         /\ \A i \in 1 .. Len(held) :
              /\ Deleted(ring)[i].ring = held[i].ring /\ Deleted(ring)[i].slot = held[i].slot
              /\ Deleted(ring)[i].alive <=> held[i].alive /\ held[i].ring # ring
<1>1. Len(held) \in Nat /\ DOMAIN held = 1 .. Len(held) /\ \A i \in 1 .. Len(held) : held[i] \in Texture
  BY LenProperties, ElementOfSeq
<1> DEFINE e(i) == IF held[i].ring = ring THEN [held[i] EXCEPT !.alive = FALSE] ELSE held[i]
<1>2. ASSUME NEW i \in 1 .. Len(held)
      PROVE  /\ e(i) \in Texture /\ e(i).ring = held[i].ring /\ e(i).slot = held[i].slot
             /\ e(i).alive <=> held[i].alive /\ held[i].ring # ring
  <2>1. held[i] \in Texture
    BY <1>1
  <2>2. CASE held[i].ring = ring
    <3>1. e(i) = [held[i] EXCEPT !.alive = FALSE]
      BY <2>2
    <3> QED
      BY <2>1, <2>2, <3>1 DEF Texture
  <2>3. CASE held[i].ring # ring
    BY <2>1, <2>3 DEF Texture
  <2> QED
    BY <2>2, <2>3
<1>3. Deleted(ring) = [i \in 1 .. Len(held) |-> e(i)]
  BY <1>1 DEF Deleted
<1> HIDE DEF e
<1>4. Deleted(ring) \in Seq(Texture)
  BY <1>1, <1>2, <1>3, IsASeq
<1>5. Len(Deleted(ring)) = Len(held) /\ \A i \in 1 .. Len(held) : Deleted(ring)[i] = e(i)
  BY <1>1, <1>3
<1> QED
  BY <1>2, <1>4, <1>5

(* What is submitted is the newest; the oldest goes when there are more than *)
(* the warp keeps.                                                          *)
LEMMA Submitted ==
  ASSUME held \in Seq(Texture), Len(held) <= WarpDepth, NEW new \in Texture,
         held' = LET all == Append(held, new) IN IF Len(all) > WarpDepth THEN Tail(all) ELSE all
  PROVE  /\ held' \in Seq(Texture) /\ Len(held') <= WarpDepth /\ Len(held') \in Nat \ {0}
         /\ held'[Len(held')] = new
         /\ \A j \in 1 .. Len(held') : j # Len(held') =>
              \E i \in 1 .. Len(held) : held'[j] = held[i] /\ Len(held') - j = Len(held) - i + 1
<1> DEFINE all == Append(held, new)
           n == Len(held)
<1>1. n \in Nat /\ WarpDepth \in Nat \ {0}
  BY LenProperties, PresentationAssumption
<1>2. /\ all \in Seq(Texture) /\ Len(all) = n + 1
      /\ \A i \in 1 .. n : all[i] = held[i]
      /\ all[n + 1] = new
  BY AppendProperties
<1> HIDE DEF all, n
<1>3. CASE Len(all) > WarpDepth
  <2>1. held' = Tail(all)
    BY <1>3 DEF all
  <2>2. all # <<>>
    BY <1>1, <1>2, EmptySeq
  <2>3. /\ held' \in Seq(Texture) /\ Len(held') = n
        /\ \A j \in 1 .. n : held'[j] = all[j + 1]
    <3>1. /\ Tail(all) \in Seq(Texture) /\ Len(Tail(all)) = Len(all) - 1
          /\ \A j \in 1 .. Len(Tail(all)) : Tail(all)[j] = all[j + 1]
      BY ONLY <1>2, <2>2, HeadTailProperties
    <3>2. /\ held' \in Seq(Texture) /\ Len(held') = Len(all) - 1
          /\ \A j \in 1 .. Len(held') : held'[j] = all[j + 1]
      BY ONLY <2>1, <3>1, Zenon
    <3>3. Len(all) - 1 = n
      BY <1>1, <1>2
    <3> QED
      BY <3>2, <3>3
  <2>4. n = WarpDepth
    BY <1>1, <1>2, <1>3 DEF n
  <2>5. ASSUME NEW j \in 1 .. n, j # n
        PROVE  \E i \in 1 .. n : held'[j] = held[i] /\ n - j = n - i + 1
    <3>1. j + 1 \in 1 .. n /\ n - j = n - (j + 1) + 1
      BY <1>1, <2>5
    <3>2. held'[j] = held[j + 1]
      BY <1>2, <2>3, <3>1
    <3> QED
      BY <3>1, <3>2
  <2>6. held'[n] = new
    BY <1>1, <1>2, <2>3, <2>4
  <2> QED
    BY <1>1, <2>3, <2>4, <2>5, <2>6 DEF n
<1>4. CASE ~(Len(all) > WarpDepth)
  <2>1. held' = all
    BY <1>4 DEF all
  <2>2. ASSUME NEW j \in 1 .. n + 1, j # n + 1
        PROVE  \E i \in 1 .. n : held'[j] = held[i] /\ n + 1 - j = n - i + 1
    <3>1. j \in 1 .. n /\ n + 1 - j = n - j + 1
      BY <1>1, <2>2
    <3> QED
      BY <1>2, <2>1, <3>1
  <2> QED
    BY <1>1, <1>2, <1>4, <2>1, <2>2 DEF n
<1> QED
  BY <1>3, <1>4
-----------------------------------------------------------------------------
(* The steps.                                                               *)

LEMMA WarpInit == PresentationInit => WarpInv
<1> SUFFICES ASSUME PresentationInit PROVE WarpInv
  OBVIOUS
<1>1. held = <<>> /\ held \in Seq(Texture) /\ Len(held) = 0 /\ DOMAIN held = {}
  BY EmptySeq DEF PresentationInit
<1>2. LoopTypes
  <2>1. netVars \in BOOLEAN \X BOOLEAN \X BOOLEAN
    BY DEF PresentationInit, netVars
  <2>2. /\ lobby \in [ready: BOOLEAN, idx: 0..RingLength - 1, last: 0..RingLength]
        /\ gSwap \in [ready: BOOLEAN, idx: 0..RingLength - 1]
        /\ lobbyFreeDelay \in -1..FreeDelay
    BY PresentationAssumption DEF PresentationInit, FreshLobby, NoSlot, FreeDelay
  <2>3. Len(held) <= WarpDepth /\ loop = "sleep" /\ drawing = NoDraw
    BY <1>1, PresentationAssumption DEF PresentationInit
  <2> QED
    BY <1>1, <2>1, <2>2, <2>3 DEF LoopTypes, PresentationTypeOK
<1>3. RecentSlots
  BY <1>1 DEF PresentationInit, RecentSlots, NoDraw
<1>4. Countdown
  BY <1>1 DEF PresentationInit, Countdown, LobbyTexturesLive, NoDraw
<1> QED
  BY <1>2, <1>3, <1>4 DEF WarpInv

(* The other threads touch nothing of it. *)
LEMMA OthersKeepWarp ==
  ASSUME WarpInv, UNCHANGED renderVars, netVars' \in BOOLEAN \X BOOLEAN \X BOOLEAN
  PROVE  WarpInv'
<1>1. UNCHANGED <<loop, lobby, lobbyFreeDelay, gSwap, drawing, held, starved>>
  BY DEF renderVars
<1>2. LoopTypes'
  BY <1>1 DEF WarpInv, LoopTypes, PresentationTypeOK
<1>3. RecentSlots'
  BY <1>1 DEF WarpInv, RecentSlots, Ago, Age, Undelivered
<1>4. Countdown'
  BY <1>1 DEF WarpInv, Countdown, LobbyTexturesLive, Age, Undelivered
<1> QED
  BY <1>2, <1>3, <1>4 DEF WarpInv

LEMMA SleepEdgeKeepsWarp == WarpInv /\ SleepEdge => WarpInv'
<1> SUFFICES ASSUME WarpInv, SleepEdge PROVE WarpInv'
  OBVIOUS
<1>1. /\ UNCHANGED <<netVars, lobby, lobbyFreeDelay, gSwap, drawing, held, starved>>
      /\ loop = "sleep" /\ loop' = "edges"
  BY DEF SleepEdge
<1>2. LoopTypes'
  BY <1>1 DEF WarpInv, LoopTypes, PresentationTypeOK
<1>3. RecentSlots'
  BY <1>1 DEF WarpInv, RecentSlots, Ago, Age, Undelivered
<1>4. Countdown'
  BY <1>1 DEF WarpInv, Countdown, LobbyTexturesLive, Age, Undelivered
<1> QED
  BY <1>2, <1>3, <1>4 DEF WarpInv

(* When the stream's ring is made anew its old textures are gone. *)
LEMMA StreamEdgesKeepsWarp == WarpInv /\ StreamEdges => WarpInv'
<1> SUFFICES ASSUME WarpInv, StreamEdges PROVE WarpInv'
  OBVIOUS
<1>0. LoopTypes /\ RecentSlots /\ Countdown /\ PresentationTypeOK /\ held \in Seq(Texture)
  BY DEF WarpInv, LoopTypes
<1>1. /\ UNCHANGED <<netVars, lobby, lobbyFreeDelay, drawing, starved>>
      /\ loop = "edges" /\ loop' = "path" /\ drawing = NoDraw
  BY <1>0 DEF StreamEdges, LoopTypes
<1>2. CASE UNCHANGED <<gSwap, held>>
  <2>1. LoopTypes'
    BY <1>0, <1>1, <1>2 DEF LoopTypes, PresentationTypeOK
  <2>2. RecentSlots'
    BY <1>0, <1>1, <1>2 DEF RecentSlots, Ago, Age, Undelivered
  <2>3. Countdown'
    BY <1>0, <1>1, <1>2 DEF Countdown, LobbyTexturesLive, Age, Undelivered
  <2> QED
    BY <2>1, <2>2, <2>3 DEF WarpInv
<1>3. CASE held' = Deleted("swap") /\ gSwap' \in [ready : BOOLEAN, idx : {0}]
  <2>1. /\ held' \in Seq(Texture) /\ Len(held') = Len(held)
        /\ \A i \in 1 .. Len(held) :
             /\ held'[i].ring = held[i].ring
             /\ held'[i].alive <=> held[i].alive /\ held[i].ring # "swap"
    BY <1>0, <1>3, DeletedKeeps
  <2>2. DOMAIN held = 1 .. Len(held) /\ DOMAIN held' = 1 .. Len(held)
    BY <1>0, <2>1, LenProperties
  <2>3. LoopTypes'
    BY <1>0, <1>1, <1>3, <2>1, PresentationAssumption DEF LoopTypes, PresentationTypeOK
  <2>4. RecentSlots'
    BY <1>1, <2>1 DEF RecentSlots, NoDraw
  <2>5. Countdown'
    BY <1>0, <1>1, <2>1, <2>2 DEF Countdown, LobbyTexturesLive, Age, Undelivered
  <2> QED
    BY <2>3, <2>4, <2>5 DEF WarpInv
<1>4. UNCHANGED <<gSwap, held>> \/ (held' = Deleted("swap") /\ gSwap' \in [ready : BOOLEAN, idx : {0}])
  <2> DEFINE starts  == isStreaming /\ ~streamWasUp /\ videoReady
             ends    == ~isStreaming /\ streamWasUp
             resizes == resolutionDirty /\ StreamEdge(isStreaming) /\ (gSwap.ready \/ starts)
  <2>1. IF starts \/ ends \/ resizes
        THEN gSwap' = [ready |-> ~ends, idx |-> 0] /\ held' = Deleted("swap")
        ELSE UNCHANGED <<gSwap, held>>
    BY DEF StreamEdges
  <2>2. PICK up \in BOOLEAN : up = ~ends
    OBVIOUS
  <2>3. [ready |-> ~ends, idx |-> 0] = [ready |-> up, idx |-> 0]
    BY <2>2
  <2>4. [ready |-> up, idx |-> 0] \in [ready : BOOLEAN, idx : {0}]
    OBVIOUS
  <2> HIDE DEF starts, ends, resizes
  <2> QED
    BY ONLY <2>1, <2>3, <2>4
<1> QED
  BY <1>2, <1>3, <1>4

(* The countdown ends when the warp has none of the lobby's textures left. *)
LEMMA VideoPathKeepsWarp == WarpInv /\ VideoPath => WarpInv'
<1> SUFFICES ASSUME WarpInv, VideoPath PROVE WarpInv'
  OBVIOUS
<1> DEFINE armed == IF lobby.ready /\ lobbyFreeDelay < 0 THEN FreeDelay ELSE lobbyFreeDelay
<1>0. LoopTypes /\ RecentSlots /\ Countdown /\ PresentationTypeOK /\ held \in Seq(Texture)
  BY DEF WarpInv, LoopTypes
<1>1. /\ UNCHANGED netVars
      /\ lobbyFreeDelay' = IF armed = -1 THEN -1 ELSE armed - 1
      /\ loop = "path" /\ drawing = NoDraw
  BY <1>0 DEF VideoPath, LoopTypes
<1>2. /\ RingLength \in Nat /\ WarpDepth \in Nat \ {0} /\ RingLength > WarpDepth
      /\ FreeDelay = RingLength + 2
  BY PresentationAssumption DEF FreeDelay
<1>3. /\ Len(held) \in Nat /\ Len(held) <= WarpDepth /\ DOMAIN held = 1 .. Len(held)
      /\ lobbyFreeDelay \in -1 .. FreeDelay /\ gSwap.idx \in 0 .. RingLength - 1
      /\ gSwap \in [ready : BOOLEAN, idx : 0 .. RingLength - 1]
  BY <1>0, LenProperties DEF PresentationTypeOK
<1>4. armed \in -1 .. FreeDelay
  BY <1>2, <1>3
<1>5. \A i \in 1 .. Len(held) : Age(i) = Len(held) - i + 1
  BY <1>1, <1>3 DEF Age, Undelivered, NoDraw
<1>6. /\ held' \in Seq(Texture) /\ Len(held') = Len(held) /\ DOMAIN held' = 1 .. Len(held)
      /\ \A i \in 1 .. Len(held) :
           /\ held'[i].ring = held[i].ring /\ held'[i].slot = held[i].slot
           /\ held'[i].alive => held[i].alive
           /\ held[i].ring = "swap" \/ armed # 0 => held'[i].alive = held[i].alive
  <2>1. CASE armed = 0
    <3>1. held' = Deleted("lobby")
      BY <2>1 DEF VideoPath
    <3>2. /\ held' \in Seq(Texture) /\ Len(held') = Len(held)
          /\ \A i \in 1 .. Len(held) :
               /\ held'[i].ring = held[i].ring /\ held'[i].slot = held[i].slot
               /\ held'[i].alive <=> held[i].alive /\ held[i].ring # "lobby"
      BY <1>0, <3>1, DeletedKeeps
    <3>3. \A i \in 1 .. Len(held) : held[i] \in Texture /\ held'[i] \in Texture
      BY <1>0, <3>2, ElementOfSeq
    <3>4. \A i \in 1 .. Len(held) : held[i].alive \in BOOLEAN /\ held'[i].alive \in BOOLEAN
      BY <3>3 DEF Texture
    <3>5. DOMAIN held' = 1 .. Len(held)
      BY <3>2, LenProperties
    <3> HIDE DEF armed
    <3>6. \A i \in 1 .. Len(held) : held[i].ring = "swap" => held'[i].alive = held[i].alive
      BY <3>2, <3>4
    <3> QED
      BY <2>1, <3>2, <3>5, <3>6
  <2>2. CASE armed # 0
    BY <1>0, <1>3, <2>2 DEF VideoPath
  <2> QED
    BY <2>1, <2>2
<1>7. \/ /\ loop' = "submit" /\ starved' = starved
         /\ drawing' = [ring |-> "swap", slot |-> gSwap.idx, submit |-> gSwap.idx]
         /\ gSwap' = [gSwap EXCEPT !.idx = (@ + 1) % RingLength]
      \/ /\ loop' = "sleep" /\ starved' = TRUE /\ UNCHANGED <<drawing, gSwap>>
  BY DEF VideoPath, StreamSubmit
<1>8. lobby' \in {lobby, [ready |-> FALSE, idx |-> 0, last |-> NoSlot]}
  BY DEF VideoPath
<1> HIDE DEF armed
<1>9. LoopTypes'
  <2>1. lobbyFreeDelay' \in -1 .. FreeDelay
    BY <1>1, <1>2, <1>4
  <2>2. lobby' \in [ready : BOOLEAN, idx : 0 .. RingLength - 1, last : 0 .. RingLength]
    <3>1. 0 \in 0 .. RingLength - 1 /\ NoSlot \in 0 .. RingLength
      BY <1>2 DEF NoSlot
    <3>2. lobby \in [ready : BOOLEAN, idx : 0 .. RingLength - 1, last : 0 .. RingLength]
      BY <1>0 DEF PresentationTypeOK
    <3>3. [ready |-> FALSE, idx |-> 0, last |-> NoSlot]
            \in [ready : BOOLEAN, idx : 0 .. RingLength - 1, last : 0 .. RingLength]
      BY <3>1
    <3> QED
      BY <1>8, <3>2, <3>3, Zenon
  <2>3. gSwap' \in [ready : BOOLEAN, idx : 0 .. RingLength - 1]
    BY <1>3, <1>7, NextInRing
  <2>4. IF loop' = "submit" THEN drawing' \in Drawn ELSE drawing' = NoDraw
    BY <1>1, <1>3, <1>7 DEF Drawn
  <2>5. loop' \in {"sleep", "edges", "path", "submit"}
    BY <1>7
  <2> QED
    BY <1>0, <1>1, <1>3, <1>6, <2>1, <2>2, <2>3, <2>4, <2>5 DEF LoopTypes,
         PresentationTypeOK
<1>10. RecentSlots'
  <2>1. CASE /\ drawing' = [ring |-> "swap", slot |-> gSwap.idx, submit |-> gSwap.idx]
             /\ gSwap' = [gSwap EXCEPT !.idx = (@ + 1) % RingLength]
    <3>1. gSwap'.idx = IF gSwap.idx + 1 = RingLength THEN 0 ELSE gSwap.idx + 1
      BY <1>3, <2>1, NextInRing
    <3>2. drawing'.ring = "swap" /\ Undelivered' = 1 /\ Undelivered = 0
      BY <1>1, <2>1 DEF Undelivered, NoDraw
    <3>3. \A d \in 1 .. RingLength - 1 : Ago(d) = Ago(d + 1)'
      BY <1>2, <1>3, <3>1 DEF Ago
    <3>4. gSwap.idx = Ago(1)'
      BY <1>2, <1>3, <3>1 DEF Ago
    <3>5. drawing'.slot = Ago(1)' /\ drawing'.submit = Ago(1)'
      BY <2>1, <3>4
    <3>6. ASSUME NEW i \in 1 .. Len(held), held'[i].ring = "swap", held'[i].alive
          PROVE  \E d \in 1 + 1 .. Age(i)' : held'[i].slot = Ago(d)'
      <4>1. PICK d \in 1 .. Age(i) : held[i].slot = Ago(d)
        BY <1>0, <1>6, <3>2, <3>6 DEF RecentSlots
      <4>2. Age(i) \in Nat /\ Age(i) <= RingLength - 1 /\ Age(i)' = Age(i) + 1
        BY <1>2, <1>3, <1>5, <1>6, <3>2 DEF Age
      <4>3. d + 1 \in 1 + 1 .. Age(i)' /\ d \in 1 .. RingLength - 1
        BY <1>2, <4>2
      <4>4. held'[i].slot = Ago(d + 1)'
        BY <1>6, <3>3, <4>1, <4>3
      <4> QED
        BY <4>3, <4>4
    <3> QED
      BY <1>6, <3>2, <3>5, <3>6 DEF RecentSlots
  <2>2. CASE UNCHANGED <<drawing, gSwap>>
    <3>1. Undelivered' = Undelivered /\ \A d : Ago(d)' = Ago(d)
      BY <2>2 DEF Undelivered, Ago
    <3>2. \A i \in 1 .. Len(held) : Age(i)' = Age(i)
      BY <1>6, <3>1 DEF Age
    <3> QED
      BY <1>0, <1>6, <2>2, <3>1, <3>2 DEF RecentSlots
  <2> QED
    BY <1>7, <2>1, <2>2
<1>11. Countdown'
  <2>1. drawing'.ring # "lobby"
    BY <1>1, <1>7 DEF NoDraw
  <2> SUFFICES ASSUME ~starved'
               PROVE  /\ LobbyTexturesLive'
                      /\ lobbyFreeDelay' >= 0 =>
                           \A i \in 1 .. Len(held') :
                             Age(i)' <= FreeDelay' - lobbyFreeDelay' => held'[i].ring = "swap"
    BY <2>1 DEF Countdown
  <2>2. ~starved /\ Undelivered' = 1
    BY <1>7 DEF Undelivered
  <2>3. \A i \in 1 .. Len(held) : Age(i)' = Age(i) + 1
    BY <1>3, <1>5, <1>6, <2>2 DEF Age
  <2>4. armed = 0 => \A i \in 1 .. Len(held) : held[i].ring = "swap"
    <3> SUFFICES ASSUME armed = 0, NEW i \in 1 .. Len(held) PROVE held[i].ring = "swap"
      OBVIOUS
    <3>1. lobbyFreeDelay = 0
      BY <1>2 DEF armed
    <3>2. Age(i) <= FreeDelay - lobbyFreeDelay
      BY <1>2, <1>3, <1>5, <3>1
    <3> QED
      BY <1>0, <2>2, <3>1, <3>2 DEF Countdown
  <2>5. LobbyTexturesLive'
    <3>1. \A i \in 1 .. Len(held) : held[i].ring = "lobby" => held[i].alive
      BY <1>0, <1>3, <2>2 DEF Countdown, LobbyTexturesLive
    <3>2. ASSUME NEW i \in 1 .. Len(held), held'[i].ring = "lobby" PROVE held'[i].alive
      <4>1. held[i].ring = "lobby" /\ armed # 0
        BY <1>6, <2>4, <3>2
      <4> QED
        BY <1>6, <3>1, <4>1
    <3> QED
      BY <1>6, <3>2 DEF LobbyTexturesLive
  <2>6. ASSUME lobbyFreeDelay' >= 0, NEW i \in 1 .. Len(held),
               Age(i)' <= FreeDelay' - lobbyFreeDelay'
        PROVE  held'[i].ring = "swap"
    <3>1. armed \in 1 .. FreeDelay /\ lobbyFreeDelay' = armed - 1
      BY <1>1, <1>2, <1>4, <2>6
    <3>2. FreeDelay' = FreeDelay
      BY DEF FreeDelay
    <3>3. Age(i) <= FreeDelay - armed
      BY <1>2, <1>3, <1>5, <2>3, <2>6, <3>1, <3>2
    <3>4. Age(i) >= 1
      BY <1>3, <1>5
    <3>5. armed = lobbyFreeDelay /\ lobbyFreeDelay >= 0
      BY <1>2, <1>3, <1>5, <3>1, <3>3, <3>4 DEF armed
    <3>6. held[i].ring = "swap"
      BY <1>0, <2>2, <3>3, <3>5 DEF Countdown
    <3> QED
      BY <1>6, <3>6
  <2> QED
    BY <1>6, <2>5, <2>6
<1> QED
  BY <1>9, <1>10, <1>11 DEF WarpInv

LEMMA LobbyPathKeepsWarp == WarpInv /\ LobbyPath => WarpInv'
<1> SUFFICES ASSUME WarpInv, LobbyPath PROVE WarpInv'
  OBVIOUS
<1> DEFINE ring == IF lobby.ready THEN lobby ELSE FreshLobby
<1>0. LoopTypes /\ RecentSlots /\ Countdown /\ PresentationTypeOK
  BY DEF WarpInv, LoopTypes
<1>1. /\ UNCHANGED <<netVars, held, gSwap>>
      /\ lobbyFreeDelay' = -1 /\ loop' = "submit" /\ drawing = NoDraw
      /\ starved' = (starved /\ ~LobbyTexturesLive)
      /\ drawing' = [ring |-> "lobby", slot |-> ring.idx,
                     submit |-> IF cameraOn \/ ring.last = NoSlot THEN ring.idx ELSE ring.last]
      /\ lobby' = [ring EXCEPT !.idx = (@ + 1) % RingLength, !.last = ring.idx]
  BY <1>0 DEF LobbyPath, LoopTypes
<1>2. RingLength \in Nat \ {0} /\ FreeDelay \in Nat
  BY PresentationAssumption DEF FreeDelay
<1>3. ring \in [ready : BOOLEAN, idx : 0 .. RingLength - 1, last : 0 .. RingLength]
  <2>1. FreshLobby \in [ready : BOOLEAN, idx : 0 .. RingLength - 1, last : 0 .. RingLength]
    BY <1>2 DEF FreshLobby, NoSlot
  <2>2. lobby \in [ready : BOOLEAN, idx : 0 .. RingLength - 1, last : 0 .. RingLength]
    BY <1>0 DEF PresentationTypeOK
  <2> QED
    BY <2>1, <2>2
<1> HIDE DEF ring
<1>4. /\ ring.idx \in 0 .. RingLength - 1 /\ ring.last \in 0 .. RingLength
      /\ (ring.idx + 1) % RingLength \in 0 .. RingLength - 1
  BY <1>3, NextInRing
<1>5. drawing' \in Drawn
  <2>1. (IF cameraOn \/ ring.last = NoSlot THEN ring.idx ELSE ring.last) \in 0 .. RingLength - 1
    BY <1>2, <1>4 DEF NoSlot
  <2> QED
    BY <1>1, <1>4, <2>1 DEF Drawn
<1>6. lobby' \in [ready : BOOLEAN, idx : 0 .. RingLength - 1, last : 0 .. RingLength]
  <2>1. 0 .. RingLength - 1 \subseteq 0 .. RingLength
    BY <1>2
  <2> QED
    BY <1>1, <1>3, <1>4, <2>1
<1>7. LoopTypes'
  BY <1>0, <1>1, <1>2, <1>5, <1>6 DEF LoopTypes, PresentationTypeOK, FreeDelay
<1>8. Undelivered = 0 /\ Undelivered' = 0
  BY <1>1 DEF Undelivered, NoDraw
<1>9. RecentSlots'
  BY <1>0, <1>1, <1>8 DEF RecentSlots, Age, Ago
<1>10. Countdown'
  <2>1. LobbyTexturesLive' <=> LobbyTexturesLive
    BY <1>1 DEF LobbyTexturesLive
  <2>2. ~starved' => LobbyTexturesLive
    BY <1>0, <1>1 DEF Countdown
  <2>3. lobbyFreeDelay' = -1 /\ ~(-1 >= 0)
    BY <1>1
  <2> QED
    BY <2>1, <2>2, <2>3 DEF Countdown
<1> QED
  BY <1>7, <1>9, <1>10 DEF WarpInv

LEMMA SubmitKeepsWarp == WarpInv /\ Submit => WarpInv'
<1> SUFFICES ASSUME WarpInv, Submit PROVE WarpInv'
  OBVIOUS
<1> DEFINE new == [ring |-> drawing.ring, slot |-> drawing.submit,
                   alive |-> drawing.ring = "lobby" \/ gSwap.ready]
<1>0. LoopTypes /\ RecentSlots /\ Countdown /\ PresentationTypeOK /\ held \in Seq(Texture)
  BY DEF WarpInv, LoopTypes
<1>1. /\ UNCHANGED <<netVars, gSwap, lobby, lobbyFreeDelay, starved>>
      /\ loop' = "sleep" /\ drawing' = NoDraw /\ drawing \in Drawn
  BY <1>0 DEF Submit, LoopTypes
<1>2. /\ drawing.ring \in {"lobby", "swap"} /\ drawing.submit \in 0 .. RingLength - 1
      /\ (drawing.ring = "lobby" \/ gSwap.ready) \in BOOLEAN
  BY <1>1 DEF Drawn
<1>3. new \in Texture
  BY <1>2 DEF Texture
<1>4. held' = LET all == Append(held, new) IN IF Len(all) > WarpDepth THEN Tail(all) ELSE all
  BY DEF Submit
<1>5. new.ring = drawing.ring /\ new.slot = drawing.submit
      /\ (drawing.ring = "lobby" => new.alive)
  OBVIOUS
<1> HIDE DEF new
<1>6. Len(held) \in Nat /\ Len(held) <= WarpDepth /\ DOMAIN held = 1 .. Len(held)
  BY <1>0, LenProperties DEF PresentationTypeOK
<1>7. /\ held' \in Seq(Texture) /\ Len(held') <= WarpDepth /\ Len(held') \in Nat \ {0}
      /\ held'[Len(held')] = new
      /\ \A j \in 1 .. Len(held') : j # Len(held') =>
           \E i \in 1 .. Len(held) : held'[j] = held[i] /\ Len(held') - j = Len(held) - i + 1
  BY <1>0, <1>3, <1>4, <1>6, Submitted
<1>8. DOMAIN held' = 1 .. Len(held')
  BY <1>7, LenProperties
<1>9. LoopTypes'
  BY <1>0, <1>1, <1>7 DEF LoopTypes, PresentationTypeOK
<1>10. /\ Undelivered' = 0 /\ Undelivered \in {0, 1}
       /\ drawing.ring = "swap" => Undelivered = 1
       /\ \A d : Ago(d)' = Ago(d)
  BY <1>1 DEF Undelivered, NoDraw, Ago
<1>11. RecentSlots'
  <2> SUFFICES ASSUME NEW j \in 1 .. Len(held'), held'[j].ring = "swap", held'[j].alive
               PROVE  \E d \in 1 .. Age(j)' : held'[j].slot = Ago(d)
    BY <1>1, <1>10 DEF RecentSlots, NoDraw
  <2>1. Age(j)' = Len(held') - j + 1
    BY <1>7, <1>10 DEF Age
  <2>2. CASE j = Len(held')
    <3>1. 1 \in 1 .. Age(j)'
      BY <1>7, <2>1, <2>2
    <3>2. held'[j].slot = Ago(1)
      BY <1>0, <1>5, <1>7, <2>2 DEF RecentSlots
    <3> QED
      BY <3>1, <3>2
  <2>3. CASE j # Len(held')
    <3>1. PICK i \in 1 .. Len(held) :
            held'[j] = held[i] /\ Len(held') - j = Len(held) - i + 1
      BY <1>7, <2>3
    <3>2. PICK d \in 1 + Undelivered .. Age(i) : held[i].slot = Ago(d)
      BY <1>0, <3>1 DEF RecentSlots
    <3>3. d \in 1 .. Age(j)'
      <4>1. Len(held) - i \in Int /\ Age(j)' = Len(held) - i + 1 + 1
        BY <1>6, <2>1, <3>1
      <4> QED
        BY <1>10, <3>2, <4>1 DEF Age
    <3> QED
      BY <3>1, <3>2, <3>3
  <2> QED
    BY <2>2, <2>3
<1>12. Countdown'
  <2> SUFFICES ASSUME ~starved
               PROVE  /\ LobbyTexturesLive'
                      /\ lobbyFreeDelay >= 0 =>
                           \A j \in 1 .. Len(held') :
                             Age(j)' <= FreeDelay - lobbyFreeDelay => held'[j].ring = "swap"
    BY <1>1 DEF Countdown, NoDraw, FreeDelay
  <2>1. ASSUME NEW j \in 1 .. Len(held'), held'[j].ring = "lobby" PROVE held'[j].alive
    <3>1. CASE j = Len(held')
      BY <1>5, <1>7, <2>1, <3>1
    <3>2. CASE j # Len(held')
      <4>1. PICK i \in 1 .. Len(held) : held'[j] = held[i]
        BY <1>7, <3>2
      <4> QED
        BY <1>0, <1>6, <2>1, <4>1 DEF Countdown, LobbyTexturesLive
    <3> QED
      BY <3>1, <3>2
  <2>2. ASSUME lobbyFreeDelay >= 0, NEW j \in 1 .. Len(held'),
               Age(j)' <= FreeDelay - lobbyFreeDelay
        PROVE  held'[j].ring = "swap"
    <3>1. drawing.ring = "swap" /\ Undelivered = 1
      <4>1. drawing.ring # "lobby"
        BY <1>0, <2>2 DEF Countdown
      <4> QED
        BY <1>2, <1>10, <4>1
    <3>2. CASE j = Len(held')
      BY <1>5, <1>7, <3>1, <3>2
    <3>3. CASE j # Len(held')
      <4>1. PICK i \in 1 .. Len(held) :
              held'[j] = held[i] /\ Len(held') - j = Len(held) - i + 1
        BY <1>7, <3>3
      <4>2. Age(i) = Age(j)'
        <5>1. Age(i) = Len(held) - i + 1 + 1
          BY <3>1 DEF Age
        <5>2. Age(j)' = Len(held') - j + 1 + 0
          BY <1>10 DEF Age
        <5>3. Len(held') - j = Len(held) - i + 1 /\ Len(held) - i \in Int
          BY <1>6, <4>1
        <5> QED
          BY <5>1, <5>2, <5>3
      <4> QED
        BY <1>0, <2>2, <4>1, <4>2 DEF Countdown
    <3> QED
      BY <3>2, <3>3
  <2> QED
    BY <1>8, <2>1, <2>2 DEF LobbyTexturesLive
<1> QED
  BY <1>9, <1>11, <1>12 DEF WarpInv

LEMMA NextKeepsWarp == WarpInv /\ [PresentationNext]_presentationVars => WarpInv'
<1> SUFFICES ASSUME WarpInv, [PresentationNext]_presentationVars PROVE WarpInv'
  OBVIOUS
<1>1. netVars \in BOOLEAN \X BOOLEAN \X BOOLEAN
  BY DEF WarpInv, LoopTypes, PresentationTypeOK
<1>2. isStreaming \in BOOLEAN /\ videoReady \in BOOLEAN /\ hasFrame \in BOOLEAN
  BY <1>1 DEF netVars
<1>3. CASE Others
  <2>1. UNCHANGED renderVars
    BY <1>3 DEF Others, VideoDescription, FirstShard, FrameDecoded, ResetStream, SetSleep,
                SetResolution, SetPassthrough
  <2>2. isStreaming' \in BOOLEAN /\ videoReady' \in BOOLEAN /\ hasFrame' \in BOOLEAN
    BY <1>2, <1>3 DEF Others, VideoDescription, FirstShard, FrameDecoded, ResetStream,
         SetSleep,
                      SetResolution, SetPassthrough, netVars
  <2>3. netVars' \in BOOLEAN \X BOOLEAN \X BOOLEAN
    BY <2>2 DEF netVars
  <2> QED
    BY <2>1, <2>3, OthersKeepWarp
<1>4. CASE Iterate
  BY <1>4, SleepEdgeKeepsWarp, StreamEdgesKeepsWarp, VideoPathKeepsWarp, LobbyPathKeepsWarp,
     SubmitKeepsWarp DEF Iterate
<1>5. CASE UNCHANGED presentationVars
  <2>1. UNCHANGED renderVars /\ netVars' = netVars
    BY <1>5 DEF presentationVars
  <2> QED
    BY <1>1, <2>1, OthersKeepWarp
<1> QED
  BY <1>3, <1>4, <1>5 DEF PresentationNext

LEMMA Undisturbed == WarpInv => WarpUndisturbed
<1> SUFFICES ASSUME WarpInv PROVE WarpUndisturbed
  OBVIOUS
<1>0. RecentSlots /\ Countdown /\ PresentationTypeOK /\ held \in Seq(Texture)
  BY DEF WarpInv, LoopTypes
<1>1. /\ RingLength \in Nat /\ WarpDepth \in Nat \ {0} /\ RingLength > WarpDepth
      /\ gSwap.idx \in 0 .. RingLength - 1
      /\ Len(held) \in Nat /\ Len(held) <= WarpDepth /\ DOMAIN held = 1 .. Len(held)
  BY <1>0, PresentationAssumption, LenProperties DEF PresentationTypeOK
<1>2. ASSUME drawing.ring = "swap", NEW i \in DOMAIN held, held[i].alive, held[i].ring = "swap"
      PROVE  held[i].slot # drawing.slot
  <2>1. PICK d \in 1 + Undelivered .. Age(i) : held[i].slot = Ago(d)
    BY <1>0, <1>1, <1>2 DEF RecentSlots
  <2>2. d \in 2 .. RingLength
    BY <1>1, <1>2, <2>1 DEF Age, Undelivered
  <2>3. Ago(d) # Ago(1)
    BY <1>1, <2>2 DEF Ago
  <2> QED
    BY <1>0, <1>2, <2>1, <2>3 DEF RecentSlots
<1> QED
  BY <1>0, <1>2 DEF WarpUndisturbed, NeverAliases, Countdown

-----------------------------------------------------------------------------
LEMMA WarpInvariance == PresentationSpec => []WarpInv
<1>1. PresentationInit => WarpInv
  BY WarpInit
<1>2. WarpInv /\ [PresentationNext]_presentationVars => WarpInv'
  BY NextKeepsWarp
<1> QED
  BY <1>1, <1>2, PTL DEF PresentationSpec

(* Every variable keeps to its type. *)
THEOREM PresentationTypeCorrect == PresentationSpec => []PresentationTypeOK
<1>1. WarpInv => PresentationTypeOK
  BY DEF WarpInv, LoopTypes
<1> QED
  BY <1>1, WarpInvariance, PTL

(* Whatever its length, a ring longer than what the warp keeps is enough:     *)
(* the stream is never drawn into a texture the warp samples, and the lobby's *)
(* textures are not freed under it.  (video_swap_init, the countdown of       *)
(* render_loop.)                                                             *)
THEOREM WarpNotDisturbed == PresentationSpec => []WarpUndisturbed
BY Undisturbed, WarpInvariance, PTL

-----------------------------------------------------------------------------
(* THE SETTINGS                                                             *)
(*                                                                         *)
(* For any number of settings, changes and deaths of the process: a thread  *)
(* that has not met the other one here is alone, and how far it is says how *)
(* far the file, its text and the settings agree.                           *)

Doings == {"notStarted", "idle", "raise", "load", "tagged", "positional", "save", "format"}

(* Two threads busy at once have met; one that has met is still busy, and   *)
(* has left its mark.                                                       *)
KeptApart ==
  /\ \A t, u \in Threads : t # u /\ Busy(t) /\ Busy(u) => t \in crowded
  /\ \A t \in crowded : Busy(t)
  /\ crowded # {} => disturbed

(* A file that is missing or empty leaves the defaults. *)
NoneAgrees == file.kind \in {"missing", "empty"} => AgreeBelow(Fov + 1, Defaults)

(* What thread t has achieved where it is. *)
Progress(t) ==
  /\ at[t].do = "load" /\ ~disturbed => NoneAgrees
  /\ at[t].do = "tagged" /\ ~disturbed =>
      /\ file.kind = "tagged" /\ file.vals = text[t]
      /\ AgreeBelow(at[t].i, text[t])
  /\ at[t].do = "format" => AgreeBelow(at[t].i, text[t])

(* A thread alone has made its progress, and nobody has when none is busy.  *)
Agreement ==
  /\ \A t \in Threads : t \notin crowded => Progress(t)
  /\ FileFollows

SettingsInv == SettingsTypeOK /\ KeptApart /\ Agreement

-----------------------------------------------------------------------------
(* Helpers                                                                  *)

(* The end of a loop over the settings is past the last one. *)
LEMMA AtEnd ==
  ASSUME NEW i \in 1..Fov + 1, i \notin Settings
  PROVE  i = Fov + 1
BY SettingsAssumption DEF Settings, Fov

(* A thread that was busy, or gets busy, and has not met the other is the   *)
(* only one.                                                                *)
LEMMA Alone ==
  ASSUME SettingsTypeOK, KeptApart, NEW t \in Threads, NEW d \in Doings, NEW i,
         Does(t, d, i), Busy(t) \/ d \notin {"idle"}, t \notin crowded, t \notin crowded' \/ d = "idle"
  PROVE  crowded' = {} /\ \A u \in Threads \ {t} : ~Busy(u) /\ at'[u] = at[u]
<1>1. \A u \in Threads \ {t} : ~Busy(u)
  BY DEF Does, Meets, KeptApart
<1>2. \A u \in Threads \ {t} : at'[u] = at[u]
  BY DEF Does, SettingsTypeOK
<1>3. crowded \subseteq {t}
  BY <1>1 DEF KeptApart, SettingsTypeOK
<1> QED BY <1>1, <1>2, <1>3 DEF Does, Meets

(* So its own progress is all there is to show of a step. *)
LEMMA StepAgrees ==
  ASSUME SettingsTypeOK, KeptApart, NEW t \in Threads, NEW d \in Doings \ {"raise", "notStarted"},
         NEW i, Does(t, d, i), Busy(t) \/ d # "idle",
         t \notin crowded /\ (t \notin crowded' \/ d = "idle") =>
            Progress(t)' /\ (d = "idle" /\ ~disturbed' => FileAgrees' /\ file'.kind # "positional")
  PROVE  KeptApart' /\ Agreement'
<1>1. /\ at'[t] = [do |-> d, i |-> i] /\ \A u \in Threads \ {t} : at'[u] = at[u]
      /\ Busy(t)' <=> d # "idle"
      /\ \A u \in Threads \ {t} : Busy(u)' <=> Busy(u)
  BY DEF Does, SettingsTypeOK, Busy
<1>2. CASE Meets(t, d)
  <2>1. crowded' = Threads /\ disturbed' /\ d # "idle"
    BY <1>2 DEF Does, Meets
  <2>2. \A u \in Threads : Busy(u)'
    BY <1>1, <1>2 DEF Meets, Threads
  <2> QED BY <2>1, <2>2 DEF KeptApart, Agreement, FileFollows
<1>3. CASE ~Meets(t, d) /\ t \in crowded /\ d # "idle"
  <2>1. crowded' = crowded /\ disturbed' = disturbed /\ \A u \in Threads \ {t} : ~Busy(u)
    BY <1>3 DEF Does, Meets, SettingsTypeOK
  <2>2. KeptApart'
    BY <1>1, <1>3, <2>1 DEF KeptApart, SettingsTypeOK
  <2>3. disturbed' /\ Busy(t)'
    BY <1>1, <1>3, <2>1 DEF KeptApart
  <2>4. \A u \in Threads : u \notin crowded' => Progress(u)'
    BY <1>1, <1>3, <2>1 DEF Progress, Busy
  <2> QED BY <2>2, <2>3, <2>4 DEF Agreement, FileFollows
<1>4. CASE t \in crowded /\ d = "idle"
  <2>1. crowded' = crowded \ {t} /\ disturbed' = TRUE
    BY <1>4 DEF Does, Meets, KeptApart
  <2>2. KeptApart'
    BY <1>1, <1>4, <2>1 DEF KeptApart, SettingsTypeOK, Threads
  <2>3. Progress(t)'
    BY <1>1, <1>4 DEF Progress
  <2>4. ASSUME NEW u \in Threads, u # t, u \notin crowded' PROVE Progress(u)'
    <3>1. ~Busy(u)
      BY <1>4, <2>1, <2>4 DEF KeptApart
    <3> QED BY <1>1, <2>4, <3>1 DEF Progress, Busy
  <2> QED BY <2>1, <2>2, <2>3, <2>4 DEF Agreement, FileFollows
<1>5. CASE ~Meets(t, d) /\ t \notin crowded
  <2>1. t \notin crowded' \/ d = "idle"
    BY <1>5 DEF Does
  <2>2. crowded' = {} /\ \A u \in Threads \ {t} : ~Busy(u) /\ at'[u] = at[u]
    BY <1>5, <2>1, Alone
  <2>3. KeptApart'
    BY <1>1, <2>2 DEF KeptApart
  <2>4. \A u \in Threads : Progress(u)'
    BY <1>1, <1>5, <2>1, <2>2 DEF Progress, Busy
  <2>5. FileFollows'
    BY <1>1, <1>5, <2>1 DEF FileFollows
  <2> QED BY <2>3, <2>4, <2>5 DEF Agreement
<1> QED BY <1>2, <1>3, <1>4, <1>5

(* What may be taken for granted of a thread's own step, alone. *)
LEMMA Before ==
  ASSUME SettingsInv, NEW t \in Threads, NEW d \in Doings, NEW i,
         Does(t, d, i), Busy(t) \/ d # "idle", t \notin crowded, t \notin crowded' \/ d = "idle"
  PROVE  /\ Progress(t)
         /\ ~Busy(t) /\ ~disturbed => FileAgrees /\ file.kind # "positional"
         /\ at[t].do # "format" \/ d # "idle" => disturbed' = disturbed
<1>1. \A u \in Threads \ {t} : ~Busy(u)
  BY Alone DEF SettingsInv
<1>2. Progress(t) /\ (~Busy(t) /\ ~disturbed => FileAgrees /\ file.kind # "positional")
  BY <1>1 DEF SettingsInv, Agreement, FileFollows
<1>3. at[t].do # "format" \/ d # "idle" => disturbed' = disturbed
  BY <1>1 DEF SettingsInv, SettingsTypeOK, Does, Meets
<1> QED BY <1>2, <1>3

-----------------------------------------------------------------------------
LEMMA SettingsInitInv == ASSUME SettingsInit PROVE SettingsInv
<1>1. SettingsTypeOK
  <2>1. Defaults \in [Settings -> Values] /\ [i \in Settings |-> 1] \in [Settings -> Values]
    BY SettingsAssumption DEF Defaults
  <2>2. 1 \in 1..Fov + 1
    BY SettingsAssumption DEF Fov
  <2>3. /\ live \in [Settings -> Values] /\ legacy \in {NoFiles} \union [Settings -> Values]
        /\ file \in [kind: {"missing", "empty", "positional", "tagged"}, vals: [Settings -> Values]]
        /\ text \in [Threads -> [Settings -> Values]]
    BY <2>1 DEF SettingsInit
  <2>4. at \in [Threads -> [do: Doings, i: 1..Fov + 1]]
    BY <2>2 DEF SettingsInit, Threads, NotYet, Doings
  <2>5. fovDirty \in BOOLEAN /\ disturbed \in BOOLEAN /\ crowded \in SUBSET Threads
    BY DEF SettingsInit
  <2> QED BY <2>3, <2>4, <2>5 DEF SettingsTypeOK, Doings
<1>2. KeptApart
  BY DEF SettingsInit, KeptApart, Threads, Busy, NotYet
<1>3. NoneAgrees
  BY DEF SettingsInit, NoneAgrees, AgreeBelow
<1>4. Busy("ui") /\ \A t \in Threads : Progress(t)
  BY <1>3 DEF SettingsInit, Progress, Threads, Busy, NotYet
<1>5. Agreement
  BY <1>4 DEF Agreement, FileFollows, Threads
<1> QED BY <1>1, <1>2, <1>5 DEF SettingsInv

-----------------------------------------------------------------------------
(* Types                                                                    *)

LEMMA DoesType ==
  ASSUME SettingsTypeOK, NEW t \in Threads, NEW d \in Doings, NEW i \in 1..Fov + 1, Does(t, d, i)
  PROVE  /\ at' \in [Threads -> [do: Doings, i: 1..Fov + 1]]
         /\ crowded' \in SUBSET Threads /\ disturbed' \in BOOLEAN
<1>1. at' \in [Threads -> [do: Doings, i: 1..Fov + 1]]
  BY DEF SettingsTypeOK, Does, Doings
<1>2. crowded' \in SUBSET Threads /\ disturbed' \in BOOLEAN
  BY DEF SettingsTypeOK, Does, Meets
<1> QED BY <1>1, <1>2

LEMMA Indices ==
  /\ 1 \in 1..Fov + 1 /\ Fov \in Settings /\ Fov \in Nat
  /\ \A i \in Settings : i + 1 \in 1..Fov + 1
BY SettingsAssumption DEF Settings, Fov

LEMMA SettingsNextType ==
  ASSUME SettingsTypeOK, [SettingsNext]_settingsVars
  PROVE  SettingsTypeOK'
<1>1. ASSUME NEW t \in Threads, OpenSave(t) PROVE SettingsTypeOK'
  BY <1>1, DoesType, Indices DEF OpenSave, SettingsTypeOK, Doings
<1>2. ASSUME NEW t \in Threads, Format(t) PROVE SettingsTypeOK'
  BY <1>2, DoesType, Indices DEF Format, SettingsTypeOK, Doings
<1>3. ASSUME NEW t \in Threads, CloseSave(t) PROVE SettingsTypeOK'
  BY <1>3, DoesType, Indices DEF CloseSave, SettingsTypeOK, Doings
<1>4. ASSUME NEW t \in Threads, ReadFile(t) PROVE SettingsTypeOK'
  <2>1. CASE file.kind \in {"tagged", "positional"}
    <3>1. Does(t, file.kind, 1) /\ file.kind \in Doings /\ text' = [text EXCEPT ![t] = file.vals]
      BY <1>4, <2>1 DEF ReadFile, Doings
    <3> QED BY <1>4, <2>1, <3>1, DoesType, Indices DEF ReadFile, SettingsTypeOK, Doings
  <2>2. CASE file.kind = "missing" /\ legacy # NoFiles
    BY <1>4, <2>2, DoesType, Indices DEF ReadFile, SettingsTypeOK, Doings
  <2>3. CASE ~(file.kind \in {"tagged", "positional"}) /\ ~(file.kind = "missing" /\ legacy # NoFiles)
    BY <1>4, <2>3, DoesType, Indices DEF ReadFile, SettingsTypeOK, Doings
  <2> QED BY <2>1, <2>2, <2>3
<1>5. ASSUME NEW t \in Threads, Apply(t) PROVE SettingsTypeOK'
  <2>1. /\ at[t].do \in Doings /\ at[t].i \in Settings /\ Does(t, at[t].do, at[t].i + 1)
        /\ live' = [live EXCEPT ![at[t].i] = text[t][at[t].i]]
    BY <1>5 DEF Apply, Doings
  <2> QED BY <1>5, <2>1, DoesType, Indices DEF Apply, SettingsTypeOK, Doings
<1>6. ASSUME NEW t \in Threads, Loaded(t) PROVE SettingsTypeOK'
  BY <1>6, DoesType, Indices DEF Loaded, SettingsTypeOK, Doings
<1>7. ASSUME NEW i \in Settings, NEW v \in Values, Set(i, v) PROVE SettingsTypeOK'
  BY <1>7, DoesType, Indices DEF Set, SettingsTypeOK, Doings, Threads
<1>8. ASSUME NEW v \in Values, StoreFov(v) PROVE SettingsTypeOK'
  BY <1>8, Indices DEF StoreFov, SettingsTypeOK, Threads
<1>9. CASE RaiseFovDirty
  BY <1>9 DEF RaiseFovDirty, SettingsTypeOK, Threads
<1>10. CASE TakeFovDirty
  BY <1>10, DoesType, Indices DEF TakeFovDirty, SettingsTypeOK, Doings, Threads
<1>11. CASE StartRender
  BY <1>11, DoesType, Indices DEF StartRender, SettingsTypeOK, Doings, Threads
<1>12. CASE StopRender
  BY <1>12, Indices DEF StopRender, SettingsTypeOK, NotYet, Threads
<1>13. CASE Die
  <2>1. /\ Defaults \in [Settings -> Values] /\ text' \in [Threads -> [Settings -> Values]]
        /\ at' \in [Threads -> [do: Doings, i: 1..Fov + 1]]
    BY <1>13, Indices, SettingsAssumption DEF Die, Defaults, NotYet, Threads, Doings
  <2> QED BY <1>13, <2>1 DEF Die, SettingsTypeOK, Doings
<1>14. CASE UNCHANGED settingsVars
  BY <1>14 DEF settingsVars, SettingsTypeOK
<1> QED
  BY <1>1, <1>2, <1>3, <1>4, <1>5, <1>6, <1>7, <1>8, <1>9, <1>10, <1>11, <1>12, <1>13, <1>14
     DEF SettingsNext

-----------------------------------------------------------------------------
(* Agreement                                                                *)

(* A field of view still to be saved stays so in a step of a loading or     *)
(* saving thread.                                                           *)
LEMMA StillPending ==
  ASSUME SettingsTypeOK, NEW t \in Threads, NEW d, NEW i, Does(t, d, i), fovDirty' = fovDirty,
         Busy(t), FovPending
  PROVE  FovPending'
BY DEF FovPending, Does, SettingsTypeOK, Busy, Threads

(* A step of the UI thread that leaves a field of view to be saved, and     *)
(* touches no other setting, disturbs nobody's progress.                    *)
LEMMA OthersAgree ==
  ASSUME SettingsInv, at["ui"].do \in {"idle", "raise"}, at'["ui"].do \in {"idle", "raise"},
         at'["render"] = at["render"], UNCHANGED <<file, text, crowded, disturbed>>, FovPending',
         \A j \in Settings : live'[j] = live[j] \/ j = Fov
  PROVE  KeptApart' /\ Agreement'
<1>1. ~Busy("ui") /\ ~Busy("ui")' /\ (Busy("render")' <=> Busy("render"))
  BY DEF Busy
<1>2. KeptApart'
  BY <1>1 DEF SettingsInv, SettingsTypeOK, KeptApart, Threads
<1>3. ASSUME NEW i, NEW vals, AgreeBelow(i, vals)
      PROVE  \A j \in Settings : j < i => live'[j] = vals[j] \/ (j = Fov /\ FovPending')
  BY <1>3 DEF AgreeBelow
<1>4. FileAgrees => FileAgrees'
  BY <1>3 DEF FileAgrees, AgreeBelow, Defaults
<1>5. NoneAgrees => NoneAgrees'
  BY <1>3 DEF NoneAgrees, AgreeBelow, Defaults
<1>6. Progress("render") => Progress("render")'
  BY <1>3, <1>5 DEF Progress, AgreeBelow
<1>7. Progress("ui")'
  BY DEF Progress
<1>8. FileFollows'
  BY <1>1, <1>4 DEF SettingsInv, Agreement, FileFollows, Threads
<1> QED BY <1>2, <1>6, <1>7, <1>8 DEF SettingsInv, Agreement, Threads

LEMMA NextAgrees ==
  ASSUME SettingsInv, [SettingsNext]_settingsVars
  PROVE  KeptApart' /\ Agreement'
<1> DEFINE Agrees == KeptApart' /\ Agreement'
<1>1. ASSUME NEW t \in Threads, OpenSave(t) PROVE Agrees
  <2>1. Does(t, "format", 1) /\ "format" \in Doings
    BY <1>1 DEF OpenSave, Doings
  <2>2. at'[t] = [do |-> "format", i |-> 1]
    BY <2>1 DEF Does, SettingsInv, SettingsTypeOK
  <2>3. Progress(t)'
    BY <2>2 DEF Progress, AgreeBelow, Settings
  <2> QED BY <2>1, <2>3, StepAgrees DEF SettingsInv, Doings
<1>2. ASSUME NEW t \in Threads, Format(t) PROVE Agrees
  <2>1. Does(t, "format", at[t].i + 1) /\ "format" \in Doings /\ at[t].do = "format" /\ Busy(t)
    BY <1>2 DEF Format, Doings, Busy
  <2>2. ASSUME t \notin crowded, t \notin crowded' PROVE Progress(t)'
    <3>1. AgreeBelow(at[t].i, text[t])
      BY <1>2, <2>1, <2>2, Before DEF Progress, Format
    <3>2. text'[t] = [text[t] EXCEPT ![at[t].i] = live[at[t].i]] /\ live' = live
      BY <1>2 DEF Format, SettingsInv, SettingsTypeOK
    <3>3. \A j \in Settings : j < at[t].i + 1 => live'[j] = text'[t][j] \/ (j = Fov /\ FovPending')
      <4>1. at[t].i \in Settings /\ text[t] \in [Settings -> Values]
        BY <1>2 DEF Format, SettingsInv, SettingsTypeOK
      <4>2. \A j \in Settings : text'[t][j] = IF j = at[t].i THEN live[j] ELSE text[t][j]
        BY <3>2, <4>1
      <4>3. FovPending => FovPending'
        BY <1>2, <2>1, StillPending DEF Format, SettingsInv
      <4>4. \A j \in Settings : j < at[t].i + 1 => j < at[t].i \/ j = at[t].i
        BY <4>1 DEF Settings
      <4> QED BY <3>1, <3>2, <4>1, <4>2, <4>3, <4>4 DEF AgreeBelow
    <3>4. at'[t] = [do |-> "format", i |-> at[t].i + 1]
      BY <2>1 DEF Does, SettingsInv, SettingsTypeOK
    <3> QED BY <3>3, <3>4 DEF Progress, AgreeBelow
  <2> QED BY <2>1, <2>2, StepAgrees DEF SettingsInv, Doings
<1>3. ASSUME NEW t \in Threads, CloseSave(t) PROVE Agrees
  <2>1. Does(t, "idle", 1) /\ "idle" \in Doings /\ Busy(t) /\ at[t].do = "format"
    BY <1>3 DEF CloseSave, Doings, Busy
  <2>2. ASSUME t \notin crowded PROVE Progress(t)' /\ FileAgrees' /\ file'.kind # "positional"
    <3>1. AgreeBelow(at[t].i, text[t])
      BY <1>3, <2>1, <2>2, Before DEF Progress, CloseSave
    <3>2. at[t].i = Fov + 1
      BY <1>3, AtEnd DEF CloseSave, SettingsInv, SettingsTypeOK
    <3>3. FovPending => FovPending'
      BY <1>3, <2>1, StillPending DEF CloseSave, SettingsInv
    <3>4. file' = [kind |-> "tagged", vals |-> text[t]] /\ live' = live
      BY <1>3 DEF CloseSave
    <3>5. FileAgrees'
      BY <3>1, <3>2, <3>3, <3>4 DEF FileAgrees, AgreeBelow
    <3>6. Progress(t)'
      BY <2>1 DEF Progress, Does, SettingsInv, SettingsTypeOK
    <3> QED BY <3>4, <3>5, <3>6
  <2> QED BY <2>1, <2>2, StepAgrees DEF SettingsInv, Doings
<1>4. ASSUME NEW t \in Threads, ReadFile(t) PROVE Agrees
  <2>1. at[t].do = "load" /\ Busy(t) /\ UNCHANGED <<live, file, fovDirty>>
    BY <1>4 DEF ReadFile, Busy
  <2>2. CASE file.kind \in {"tagged", "positional"}
    <3>1. Does(t, file.kind, 1) /\ file.kind \in Doings /\ text' = [text EXCEPT ![t] = file.vals]
      BY <1>4, <2>2 DEF ReadFile, Doings
    <3>2. at'[t] = [do |-> file.kind, i |-> 1] /\ text'[t] = file.vals
      BY <3>1 DEF Does, SettingsInv, SettingsTypeOK
    <3>3. Progress(t)'
      BY <2>1, <2>2, <3>2 DEF Progress, AgreeBelow, Settings
    <3> QED BY <2>1, <2>2, <3>1, <3>3, StepAgrees DEF SettingsInv, Doings
  <2>3. CASE file.kind = "missing" /\ legacy # NoFiles
    <3>1. Does(t, "positional", 1) /\ "positional" \in Doings
      BY <1>4, <2>3 DEF ReadFile, Doings
    <3>2. Progress(t)'
      BY <3>1 DEF Progress, Does, SettingsInv, SettingsTypeOK
    <3> QED BY <2>1, <3>1, <3>2, StepAgrees DEF SettingsInv, Doings
  <2>4. CASE ~(file.kind \in {"tagged", "positional"}) /\ ~(file.kind = "missing" /\ legacy # NoFiles)
    <3>1. Does(t, "idle", 1) /\ "idle" \in Doings
      BY <1>4, <2>4 DEF ReadFile, Doings
    <3>2. Progress(t)'
      BY <3>1 DEF Progress, Does, SettingsInv, SettingsTypeOK
    <3>3. ASSUME t \notin crowded, ~disturbed' PROVE FileAgrees' /\ file'.kind # "positional"
      <4>1. NoneAgrees
        BY <2>1, <3>1, <3>3, Before DEF Progress
      <4>2. FovPending => FovPending'
        BY <2>1, <3>1, StillPending DEF SettingsInv
      <4> QED BY <2>1, <2>4, <4>1, <4>2 DEF FileAgrees, NoneAgrees, AgreeBelow, Defaults
    <3> QED BY <2>1, <3>1, <3>2, <3>3, StepAgrees DEF SettingsInv, Doings
  <2> QED BY <2>2, <2>3, <2>4
<1>5. ASSUME NEW t \in Threads, Apply(t) PROVE Agrees
  <2>1. /\ Does(t, at[t].do, at[t].i + 1) /\ at[t].do \in Doings \ {"raise", "notStarted", "idle"}
        /\ Busy(t) /\ at[t].do \in {"tagged", "positional"} /\ UNCHANGED <<file, text, fovDirty>>
    BY <1>5 DEF Apply, Doings, Busy
  <2>2. at'[t] = [do |-> at[t].do, i |-> at[t].i + 1]
    BY <2>1 DEF Does, SettingsInv, SettingsTypeOK
  <2>3. ASSUME t \notin crowded, t \notin crowded' PROVE Progress(t)'
    <3>1. at[t].do = "tagged" /\ ~disturbed' => /\ file.kind = "tagged" /\ file.vals = text[t]
                                                /\ AgreeBelow(at[t].i, text[t])
      BY <2>1, <2>3, Before DEF Progress
    <3>2. ASSUME AgreeBelow(at[t].i, text[t])
          PROVE  \A j \in Settings :
                   j < at[t].i + 1 => live'[j] = text'[t][j] \/ (j = Fov /\ FovPending')
      <4>1. at[t].i \in Settings /\ live' = [live EXCEPT ![at[t].i] = text[t][at[t].i]]
        BY <1>5 DEF Apply
      <4>2. \A j \in Settings : live'[j] = IF j = at[t].i THEN text[t][j] ELSE live[j]
        BY <4>1 DEF SettingsInv, SettingsTypeOK
      <4>3. FovPending => FovPending'
        BY <2>1, StillPending DEF SettingsInv
      <4>4. \A j \in Settings : j < at[t].i + 1 => j < at[t].i \/ j = at[t].i
        BY <4>1 DEF Settings
      <4> QED BY <2>1, <3>2, <4>2, <4>3, <4>4 DEF AgreeBelow
    <3> QED BY <2>1, <2>2, <3>1, <3>2 DEF Progress, AgreeBelow
  <2> QED BY <2>1, <2>3, StepAgrees DEF SettingsInv
<1>6. ASSUME NEW t \in Threads, Loaded(t) PROVE Agrees
  <2>1. at[t].do \in {"tagged", "positional"} /\ Busy(t) /\ UNCHANGED <<live, file, text, fovDirty>>
    BY <1>6 DEF Loaded, Busy
  <2>2. CASE at[t].do = "positional"
    <3>1. Does(t, "save", 1) /\ "save" \in Doings
      BY <1>6, <2>2 DEF Loaded, Doings
    <3>2. Progress(t)'
      BY <3>1 DEF Progress, Does, SettingsInv, SettingsTypeOK
    <3> QED BY <2>1, <3>1, <3>2, StepAgrees DEF SettingsInv, Doings
  <2>3. CASE at[t].do = "tagged"
    <3>1. Does(t, "idle", 1) /\ "idle" \in Doings
      BY <1>6, <2>3 DEF Loaded, Doings
    <3>2. Progress(t)'
      BY <3>1 DEF Progress, Does, SettingsInv, SettingsTypeOK
    <3>3. ASSUME t \notin crowded, ~disturbed' PROVE FileAgrees' /\ file'.kind # "positional"
      <4>1. file.kind = "tagged" /\ file.vals = text[t] /\ AgreeBelow(at[t].i, text[t])
        BY <2>1, <2>3, <3>1, <3>3, Before DEF Progress
      <4>2. at[t].i = Fov + 1
        BY <1>6, AtEnd DEF Loaded, SettingsInv, SettingsTypeOK
      <4>3. FovPending => FovPending'
        BY <2>1, <3>1, StillPending DEF SettingsInv
      <4> QED BY <2>1, <4>1, <4>2, <4>3 DEF FileAgrees, AgreeBelow
    <3> QED BY <2>1, <3>1, <3>2, <3>3, StepAgrees DEF SettingsInv, Doings
  <2> QED BY <2>1, <2>2, <2>3
<1>7. ASSUME NEW i \in Settings, NEW v \in Values, Set(i, v) PROVE Agrees
  <2>1. Does("ui", "save", 1) /\ "save" \in Doings /\ "ui" \in Threads
    BY <1>7 DEF Set, Doings, Threads
  <2>2. Progress("ui")'
    BY <2>1 DEF Progress, Does, SettingsInv, SettingsTypeOK
  <2> QED BY <2>1, <2>2, StepAgrees DEF SettingsInv, Doings
<1>8. ASSUME NEW v \in Values, StoreFov(v) PROVE Agrees
  <2>1. /\ at' = [at EXCEPT !["ui"].do = "raise"] /\ at["ui"].do = "idle"
        /\ live' = [live EXCEPT ![Fov] = v] /\ UNCHANGED <<file, text, crowded, disturbed>>
    BY <1>8 DEF StoreFov
  <2>2. /\ at'["ui"].do = "raise" /\ at'["render"] = at["render"] /\ FovPending'
    BY <2>1 DEF SettingsInv, SettingsTypeOK, Threads, FovPending
  <2>3. \A j \in Settings : live'[j] = live[j] \/ (j = Fov /\ FovPending')
    BY <2>1, <2>2 DEF SettingsInv, SettingsTypeOK
  <2> QED BY <2>1, <2>2, <2>3, OthersAgree
<1>9. CASE RaiseFovDirty
  <2>1. /\ at' = [at EXCEPT !["ui"].do = "idle"] /\ at["ui"].do = "raise"
        /\ fovDirty' = TRUE /\ UNCHANGED <<live, file, text, crowded, disturbed>>
    BY <1>9 DEF RaiseFovDirty
  <2>2. /\ at'["ui"].do = "idle" /\ at'["render"] = at["render"] /\ FovPending'
    BY <2>1 DEF SettingsInv, SettingsTypeOK, Threads, FovPending
  <2> QED BY <2>1, <2>2, OthersAgree
<1>10. CASE TakeFovDirty
  <2>1. Does("render", "save", 1) /\ "save" \in Doings /\ "render" \in Threads
    BY <1>10 DEF TakeFovDirty, Doings, Threads
  <2>2. Progress("render")'
    BY <2>1 DEF Progress, Does, SettingsInv, SettingsTypeOK
  <2> QED BY <2>1, <2>2, StepAgrees DEF SettingsInv, Doings
<1>11. CASE StartRender
  <2>1. /\ Does("render", "load", 1) /\ "load" \in Doings /\ "render" \in Threads
        /\ ~Busy("render") /\ at["ui"].do = "idle" /\ UNCHANGED <<live, file, fovDirty>>
    BY <1>11 DEF StartRender, Doings, Threads, Busy, NotYet
  <2>2. ASSUME "render" \notin crowded, "render" \notin crowded' PROVE Progress("render")'
    <3>1. ~disturbed' => FileAgrees
      BY <2>1, <2>2, Before
    <3>2. FovPending => FovPending'
      BY <2>1 DEF FovPending, Does, SettingsInv, SettingsTypeOK, Threads
    <3>3. ~disturbed' => NoneAgrees'
      BY <2>1, <3>1, <3>2 DEF FileAgrees, NoneAgrees, AgreeBelow, Defaults
    <3> QED BY <2>1, <3>3 DEF Progress, Does, SettingsInv, SettingsTypeOK
  <2> QED BY <2>1, <2>2, StepAgrees DEF SettingsInv, Doings
<1>12. CASE StopRender
  <2>1. /\ at' = [at EXCEPT !["render"] = NotYet] /\ at["ui"].do = "idle" /\ at["render"].do = "idle"
        /\ UNCHANGED <<live, file, text, fovDirty, crowded, disturbed>>
    BY <1>12 DEF StopRender
  <2>2. at'["render"].do = "notStarted" /\ at'["ui"] = at["ui"]
    BY <2>1 DEF SettingsInv, SettingsTypeOK, Threads, NotYet
  <2>3. KeptApart'
    BY <2>1, <2>2 DEF SettingsInv, KeptApart, Busy, Threads
  <2>4. \A t \in Threads : Progress(t)'
    BY <2>1, <2>2 DEF Progress, Threads
  <2>5. FileAgrees => FileAgrees'
    BY <2>1, <2>2 DEF FileAgrees, AgreeBelow, FovPending, Defaults
  <2>6. FileFollows'
    BY <2>1, <2>2, <2>5 DEF SettingsInv, Agreement, FileFollows, Busy, Threads
  <2> QED BY <2>3, <2>4, <2>6 DEF Agreement
<1>13. CASE Die
  <2>1. KeptApart' /\ Busy("ui")'
    BY <1>13 DEF Die, KeptApart, Threads, Busy, NotYet
  <2>2. NoneAgrees'
    BY <1>13 DEF Die, NoneAgrees, AgreeBelow, Defaults
  <2>3. \A t \in Threads : Progress(t)'
    BY <1>13, <2>2 DEF Die, Progress, Threads, NotYet
  <2> QED BY <2>1, <2>3 DEF Agreement, FileFollows, Threads
<1>14. CASE UNCHANGED settingsVars
  BY <1>14
     DEF settingsVars, SettingsInv, KeptApart, Agreement, Busy, Progress, NoneAgrees, FileFollows,
         FileAgrees, AgreeBelow, FovPending, Defaults
<1> QED
  BY <1>1, <1>2, <1>3, <1>4, <1>5, <1>6, <1>7, <1>8, <1>9, <1>10, <1>11, <1>12, <1>13, <1>14
     DEF SettingsNext

-----------------------------------------------------------------------------
LEMMA SettingsInvariance == SettingsSpec => []SettingsInv
<1>1. SettingsInit => SettingsInv
  BY SettingsInitInv
<1>2. SettingsInv /\ [SettingsNext]_settingsVars => SettingsInv'
  BY SettingsNextType, NextAgrees DEF SettingsInv
<1> QED BY <1>1, <1>2, PTL DEF SettingsSpec

(* Every variable of the settings keeps its type, whatever format is read   *)
(* and wherever the process dies.                                           *)
THEOREM SettingsTypeCorrect == SettingsSpec => []SettingsTypeOK
<1>1. SettingsInv => SettingsTypeOK
  BY DEF SettingsInv
<1> QED BY <1>1, SettingsInvariance, PTL

(* Whenever nobody loads or saves, the file holds the settings: through the *)
(* upgrade of the old formats, the second load and the later save of        *)
(* render_thread.cpp and a death at any step; but for a field of view still *)
(* to be saved, and until the next save if the threads met.                 *)
THEOREM NoSettingLost == SettingsSpec => []FileFollows
<1>1. SettingsInv => FileFollows
  BY DEF SettingsInv, Agreement
<1> QED BY <1>1, SettingsInvariance, PTL

-----------------------------------------------------------------------------
(* THE PANEL                                                                *)
(*                                                                         *)
(* For any number of changes: what the buffers hold, wherever the two       *)
(* threads stand, was drawn from the view at one time or another.           *)

Picture == [top: 0..version, bottom: 0..version]

PanelInv ==
  /\ PanelTypeOK
  /\ canvas \in [at: {"test", "render", "clean", "pixels", "top", "bottom", "swap"},
                 drawn: 0..version]
  /\ upload \in [at: {"touch", "mark", "fetch", "top", "bottom"}, buf: {"A", "B"}]
  /\ changing \in [ui: BOOLEAN, discovery: BOOLEAN]
  /\ pixels \in [{"A", "B"} -> Picture]

LEMMA PanelInitInv == ASSUME PanelInit PROVE PanelInv
BY PanelAssumption DEF PanelInit, PanelInv, PanelTypeOK, Picture, Blank

(* A picture stays one of the view when the view changes. *)
LEMMA PictureKept ==
  ASSUME PanelInv, ViewChanges PROVE  version' \in 1..MaxUpdates /\ Picture \subseteq Picture'
                                      /\ 0..version \subseteq 0..(version')
BY PanelAssumption DEF PanelInv, PanelTypeOK, ViewChanges, Picture

(* One half of a picture replaced by another one's. *)
LEMMA HalfPut ==
  ASSUME NEW p \in Picture, NEW half \in {"top", "bottom"}, NEW v \in 0..version
  PROVE  [p EXCEPT ![half] = v] \in Picture
BY DEF Picture

LEMMA PanelNextInv == PanelInv /\ [PanelNext]_panelVars => PanelInv'
<1> SUFFICES ASSUME PanelInv, [PanelNext]_panelVars PROVE PanelInv'
  OBVIOUS
<1> USE DEF PanelInv
<1>1. CASE UNCHANGED panelVars
  BY <1>1 DEF PanelTypeOK, Picture, panelVars, bufferVars
<1>2. CASE SetFromNative \/ DiscoveryResolves
  <2>1. /\ version' \in 1..MaxUpdates /\ Picture \subseteq Picture'
        /\ 0..version \subseteq 0..(version')
    BY <1>2, PictureKept DEF SetFromNative, DiscoveryResolves
  <2>2. texture \in Picture /\ canvas.drawn \in 0..version
    BY DEF PanelTypeOK, Picture
  <2>3. texture' \in Picture' /\ canvas'.drawn \in 0..(version')
    BY <1>2, <2>1, <2>2 DEF SetFromNative, DiscoveryResolves
  <2>4. pixels' \in [{"A", "B"} -> Picture']
    BY <1>2, <2>1 DEF SetFromNative, DiscoveryResolves, bufferVars
  <2>5. canvas' \in [at: {"test", "render", "clean", "pixels", "top", "bottom", "swap"},
                    drawn: 0..(version')]
    BY <1>2, <2>1 DEF SetFromNative, DiscoveryResolves
  <2>6. changing' \in [ui: BOOLEAN, discovery: BOOLEAN]
    BY <1>2 DEF SetFromNative, DiscoveryResolves
  <2>7. /\ mDirty' \in BOOLEAN /\ viewDirty' \in BOOLEAN /\ upload' = upload
        /\ mFrontBuffer' = mFrontBuffer /\ mBackBuffer' = mBackBuffer
    BY <1>2 DEF SetFromNative, DiscoveryResolves, PanelTypeOK, bufferVars
  <2>8. /\ {changing'.ui, changing'.discovery} \subseteq BOOLEAN
        /\ {mFrontBuffer', mBackBuffer'} = {"A", "B"} /\ upload'.buf \in {"A", "B"}
    BY <2>6, <2>7 DEF PanelTypeOK
  <2>9. PanelTypeOK'
    BY <2>1, <2>3, <2>7, <2>8 DEF PanelTypeOK, Picture
  <2> QED BY <2>4, <2>5, <2>6, <2>7, <2>9
<1>3. CASE MarkFromNative \/ DiscoveryMarks
  BY <1>3 DEF MarkFromNative, DiscoveryMarks, PanelTypeOK, Picture, bufferVars
<1>4. CASE TestDirty \/ Render \/ MarkClean \/ GetPixels \/ SwapBuffers
  <2>1. /\ version' = version /\ changing' = changing /\ upload' = upload
        /\ texture' = texture /\ pixels' = pixels /\ Picture' = Picture
    BY <1>4 DEF TestDirty, Render, MarkClean, GetPixels, SwapBuffers, Canvas, bufferVars,
         Picture
  <2>2. canvas' \in [at: {"test", "render", "clean", "pixels", "top", "bottom", "swap"},
                    drawn: 0..version]
    <3>1. CASE Render
      BY <3>1, PanelAssumption DEF Render, PanelTypeOK
    <3>2. CASE TestDirty \/ MarkClean \/ GetPixels \/ SwapBuffers
      BY <3>2 DEF TestDirty, MarkClean, GetPixels, SwapBuffers, Canvas
    <3> QED BY <1>4, <3>1, <3>2
  <2>3. mDirty' \in BOOLEAN /\ viewDirty' \in BOOLEAN
    BY <1>4 DEF TestDirty, Render, MarkClean, GetPixels, SwapBuffers, PanelTypeOK
  <2>4. {mFrontBuffer', mBackBuffer'} = {"A", "B"}
    BY <1>4 DEF TestDirty, Render, MarkClean, GetPixels, SwapBuffers, PanelTypeOK,
         bufferVars
  <2>5. PanelTypeOK'
    BY <2>1, <2>2, <2>3, <2>4 DEF PanelTypeOK
  <2> QED BY <2>1, <2>2, <2>5
<1>5. ASSUME NEW half \in {"top", "bottom"}, NEW next \in {"bottom", "swap"}, Put(half, next)
      PROVE  PanelInv'
  <2>1. mBackBuffer \in {"A", "B"} /\ pixels[mBackBuffer] \in Picture
    BY DEF PanelTypeOK
  <2>2. pixels' \in [{"A", "B"} -> Picture]
    BY <1>5, <2>1, HalfPut DEF Put
  <2>3. Picture' = Picture
    BY <1>5 DEF Put, Canvas, Picture
  <2> QED BY <1>5, <2>2, <2>3 DEF Put, Canvas, PanelTypeOK
<1>6. CASE SetTouchState \/ MarkTouch \/ Fetch
  <2>1. /\ version' = version /\ changing' = changing /\ canvas' = canvas
        /\ texture' = texture /\ Picture' = Picture
        /\ pixels' = pixels /\ mFrontBuffer' = mFrontBuffer /\ mBackBuffer' = mBackBuffer
    BY <1>6 DEF SetTouchState, MarkTouch, Fetch, Uploads, bufferVars, Picture
  <2>2. mFrontBuffer \in {"A", "B"}
    BY DEF PanelTypeOK
  <2>3. upload' \in [at: {"touch", "mark", "fetch", "top", "bottom"}, buf: {"A", "B"}]
    BY <1>6, <2>2 DEF SetTouchState, MarkTouch, Fetch, Uploads
  <2>4. mDirty' \in BOOLEAN /\ viewDirty' \in BOOLEAN
    BY <1>6 DEF SetTouchState, MarkTouch, Fetch, PanelTypeOK
  <2>5. PanelTypeOK'
    BY <2>1, <2>3, <2>4 DEF PanelTypeOK
  <2> QED BY <2>1, <2>3, <2>5
<1>7. ASSUME NEW half \in {"top", "bottom"}, NEW next \in {"bottom", "touch"},
             UploadHalf(half, next)
      PROVE  PanelInv'
  <2>1. pixels[upload.buf][half] \in 0..version
    BY DEF PanelTypeOK, Picture
  <2>2. texture \in Picture
    BY DEF PanelTypeOK, Picture
  <2>3. texture' \in Picture
    BY <1>7, <2>1, <2>2, HalfPut DEF UploadHalf
  <2>4. Picture' = Picture
    BY <1>7 DEF UploadHalf, Uploads, Picture
  <2> QED BY <1>7, <2>3, <2>4 DEF UploadHalf, Uploads, PanelTypeOK, Picture, bufferVars
<1> QED BY <1>1, <1>2, <1>3, <1>4, <1>5, <1>6, <1>7 DEF PanelNext, CanvasStep, UploadStep

(* The panel never shows a view that was not drawn, and the two buffers     *)
(* are never the same one.                                                  *)
THEOREM PanelTypeCorrect == PanelSpec => []PanelTypeOK
<1>1. PanelInv => PanelTypeOK
  BY DEF PanelInv
<1> QED BY <1>1, PanelInitInv, PanelNextInv, PTL DEF PanelSpec

-----------------------------------------------------------------------------
(* THE SAVED SERVERS                                                        *)

ServersInv ==
  /\ ServersTypeOK
  /\ found \in [{"discovery", "lobby"} -> SUBSET Servers]

LEMMA CopyLoaded ==
  ASSUME NEW p \in Copies PROVE loadServers(p) \in Copies
BY ServersAssumption DEF Copies, loadServers

LEMMA ServersInitInv == ASSUME ServersInit PROVE ServersInv
<1>1. prefs \in Copies
  BY ServersAssumption DEF ServersInit, Copies
<1> QED BY <1>1, CopyLoaded DEF ServersInit, ServersInv, ServersTypeOK

LEMMA ServersNextInv == ServersInv /\ [ServersNext]_serverVars => ServersInv'
<1> SUFFICES ASSUME ServersInv, [ServersNext]_serverVars PROVE ServersInv'
  OBVIOUS
<1> USE DEF ServersInv, ServersTypeOK
<1>1. CASE UNCHANGED serverVars
  BY <1>1 DEF serverVars
<1>2. ASSUME NEW s \in Servers, NEW by \in {"discovery", "lobby"},
             ServiceResolved(by, s) \/ ServiceLost(by, s)
      PROVE  ServersInv'
  <2>1. found' \in [{"discovery", "lobby"} -> SUBSET Servers]
    BY <1>2 DEF ServiceResolved, ServiceLost
  <2> QED BY <1>2, <2>1 DEF ServiceResolved, ServiceLost
<1>3. ASSUME NEW s \in Servers, AddServer(s) \/ RemoveServer(s) \/ WivrnIntent(s)
      PROVE  ServersInv'
  <2>1. lobbyView' \in Copies /\ discovery' \in Copies
    BY <1>3 DEF AddServer, RemoveServer, WivrnIntent, Copies
  <2>2. prefs' \in {lobbyView', discovery', prefs}
    BY <1>3 DEF AddServer, RemoveServer, WivrnIntent, Saved
  <2> QED BY <1>3, <2>1, <2>2 DEF AddServer, RemoveServer, WivrnIntent
<1>4. ASSUME NEW s \in Servers, setAutoconnect(s) PROVE ServersInv'
  <2>1. lobbyView' \in Copies
    BY <1>4 DEF setAutoconnect, Copies
  <2> QED BY <1>4, <2>1 DEF setAutoconnect, Saved
<1>5. CASE SyncServers
  BY <1>5 DEF SyncServers, Synced, getAllServers, Copies
<1>6. CASE SetServersFromNative
  <2>1. posted \subseteq Servers
    BY <1>6 DEF SetServersFromNative
  <2>2. lobbyView' \in Copies
    BY <1>6, <2>1 DEF SetServersFromNative, Copies
  <2> QED BY <1>6, <2>2 DEF SetServersFromNative, Saved
<1>7. CASE Written
  BY <1>7 DEF Written
<1>8. CASE Restarted
  <2>1. PICK p \in Copies : Recreated(p)
    BY <1>8 DEF Restarted
  <2> QED BY <2>1, CopyLoaded DEF Recreated
<1> QED BY <1>1, <1>2, <1>3, <1>4, <1>5, <1>6, <1>7, <1>8 DEF ServersNext

-----------------------------------------------------------------------------
(* ALL PARTS                                                                *)
(*                                                                         *)
(* A behaviour of MCHeadset is one of each of its parts.                    *)

(* A step of one part is a step or a stutter of every other. *)
LEMMA EachPart ==
  ASSUME [HeadsetNext]_headsetVars
  PROVE  /\ [Next]_vars /\ [SurfaceNext]_surfaceVars
         /\ [PresentationNext]_presentationVars /\ [PanelNext]_panelVars
         /\ [ServersNext]_serverVars /\ [SettingsNext]_settingsVars
BY DEF HeadsetNext, headsetVars, Only

(* Every variable of the headset's parts keeps to its type. *)
THEOREM HeadsetTypeCorrect == HeadsetSpec => []HeadsetTypeOK
<1>1. HeadsetInit => /\ Init /\ SurfaceInit /\ PresentationInit /\ PanelInit
                     /\ ServersInit /\ SettingsInit
  BY DEF HeadsetInit
<1>2. HeadsetSpec => Spec /\ SurfaceSpec /\ PresentationSpec /\ PanelSpec /\ SettingsSpec
  BY <1>1, EachPart, PTL DEF HeadsetSpec, Spec, SurfaceSpec, PresentationSpec, PanelSpec,
     SettingsSpec
<1>3. HeadsetSpec => []ServersTypeOK
  <2>1. ServersInv => ServersTypeOK
    BY DEF ServersInv
  <2> QED BY <1>1, <2>1, EachPart, ServersInitInv, ServersNextInv, PTL DEF HeadsetSpec
<1> QED BY <1>2, <1>3, TypeCorrect, SurfaceTypeCorrect, PresentationTypeCorrect,
           PanelTypeCorrect, SettingsTypeCorrect, PTL DEF HeadsetTypeOK
=============================================================================
