-------------------------------- MODULE Panel --------------------------------
(***************************************************************************)
(* The lobby's panel (VrUiPanel.java, WivrnLobbyView.java): callbacks and  *)
(* touches change the view, a thread of its own draws it into one buffer,  *)
(* and the render thread uploads the other one to a texture in every       *)
(* iteration of the lobby.  Two flags say that the view has to be drawn.   *)
(*                                                                         *)
(* What the view would show is the number of changes made to it; those of  *)
(* a touch, marked under the lock that drawing holds, are not counted.     *)
(* Buffers and texture have two halves, since it takes time to fill and to *)
(* upload them.  The panel stays attached and on display.                  *)
(***************************************************************************)
EXTENDS Naturals

CONSTANT MaxUpdates      \* bound: changes of the view

ASSUME PanelAssumption == MaxUpdates \in Nat \ {0}

VARIABLES
  version,          \* changes of the view so far
  mDirty, viewDirty,   \* VrUiPanel.mDirty, WivrnLobbyView.dirty
  canvas,           \* ui-canvas-render: where it is, what it has drawn
  pixels,           \* the two halves of the buffers
  mFrontBuffer, mBackBuffer,
  changing,         \* UI and discovery thread: what they have yet to mark
  upload,           \* render thread: where it is, the buffer it has fetched
  texture           \* the two halves of what is shown

bufferVars == <<pixels, mFrontBuffer, mBackBuffer>>
panelVars  == <<version, mDirty, viewDirty, canvas, changing, upload, texture, bufferVars>>

Blank == [top |-> 0, bottom |-> 0]

PanelInit ==
  /\ version = 1 /\ mDirty = TRUE /\ viewDirty = TRUE
  /\ canvas = [at |-> "test", drawn |-> 0]
  /\ pixels = [b \in {"A", "B"} |-> Blank]
  /\ mFrontBuffer = "A" /\ mBackBuffer = "B"
  /\ changing = [ui |-> FALSE, discovery |-> FALSE]
  /\ upload = [at |-> "touch", buf |-> "A"]
  /\ texture = Blank

(* mUiLock is held from drawing the view to reading its pixels; whoever     *)
(* else takes it does all he has to in one step.                            *)
UiLockFree == canvas.at \notin {"clean", "pixels"}

-----------------------------------------------------------------------------
(* Changes of the view.                                                     *)

ViewChanges == version < MaxUpdates /\ version' = version + 1

(* The set...FromNative methods change it under the lock, then mark the     *)
(* panel.                                                                   *)
SetFromNative ==
  /\ ~changing.ui /\ UiLockFree /\ ViewChanges
  /\ viewDirty' = TRUE
  /\ changing' = [changing EXCEPT !.ui = TRUE]
  /\ UNCHANGED <<mDirty, canvas, upload, texture, bufferVars>>

MarkFromNative ==
  /\ changing.ui /\ changing' = [changing EXCEPT !.ui = FALSE]
  /\ mDirty' = TRUE
  /\ UNCHANGED <<version, viewDirty, canvas, upload, texture, bufferVars>>

(* The view's discovery of servers does not know the lock, and marks the    *)
(* view only.                                                               *)
DiscoveryResolves ==
  /\ ~changing.discovery /\ ViewChanges
  /\ changing' = [changing EXCEPT !.discovery = TRUE]
  /\ UNCHANGED <<mDirty, viewDirty, canvas, upload, texture, bufferVars>>

DiscoveryMarks ==
  /\ changing.discovery /\ changing' = [changing EXCEPT !.discovery = FALSE]
  /\ viewDirty' = TRUE
  /\ UNCHANGED <<version, mDirty, canvas, upload, texture, bufferVars>>

-----------------------------------------------------------------------------
(* The drawing thread.                                                      *)

Canvas(from, to) ==
  /\ canvas.at = from /\ canvas' = [canvas EXCEPT !.at = to]
  /\ UNCHANGED <<version, changing, upload, texture>>

TestDirty ==
  /\ mDirty \/ viewDirty
  /\ mDirty' = FALSE
  /\ Canvas("test", "render") /\ UNCHANGED <<viewDirty, bufferVars>>

Render ==
  /\ canvas.at = "render"
  /\ canvas' = [at |-> "clean", drawn |-> version]
  /\ UNCHANGED <<version, mDirty, viewDirty, changing, upload, texture, bufferVars>>

(* The last thing render() does, whatever came since it drew. *)
MarkClean ==
  /\ viewDirty' = FALSE
  /\ Canvas("clean", "pixels") /\ UNCHANGED <<mDirty, bufferVars>>

GetPixels == Canvas("pixels", "top") /\ UNCHANGED <<mDirty, viewDirty, bufferVars>>

Put(half, next) ==
  /\ pixels' = [pixels EXCEPT ![mBackBuffer][half] = canvas.drawn]
  /\ Canvas(half, next)
  /\ UNCHANGED <<mDirty, viewDirty, mFrontBuffer, mBackBuffer>>

(* The back buffer becomes the front and the front the next back. *)
SwapBuffers ==
  /\ mFrontBuffer' = mBackBuffer /\ mBackBuffer' = mFrontBuffer
  /\ Canvas("swap", "test") /\ UNCHANGED <<mDirty, viewDirty, pixels>>

CanvasStep == \/ TestDirty \/ Render \/ MarkClean \/ GetPixels
              \/ Put("top", "bottom") \/ Put("bottom", "swap") \/ SwapBuffers

-----------------------------------------------------------------------------
(* The render thread, in the lobby or its overlay.                          *)

Uploads(from, to) ==
  /\ upload.at = from
  /\ upload' = [at |-> to, buf |-> IF to = "top" THEN mFrontBuffer ELSE upload.buf]
  /\ UNCHANGED <<version, canvas, changing, bufferVars>>

(* Variant: a pointer that is not on the panel is not passed on. *)
TouchOnPanelOnly == Uploads("touch", "fetch") /\ UNCHANGED <<mDirty, viewDirty, texture>>

(* The pointer is passed on in every iteration, on the panel or off: the    *)
(* view is marked under the lock, the panel afterwards.                     *)
SetTouchState ==
  /\ UiLockFree
  /\ viewDirty' = TRUE
  /\ Uploads("touch", "mark") /\ UNCHANGED <<mDirty, texture>>

MarkTouch == mDirty' = TRUE /\ Uploads("mark", "fetch") /\ UNCHANGED <<viewDirty, texture>>

(* The front buffer is fetched, then goes to the texture. *)
Fetch == Uploads("fetch", "top") /\ UNCHANGED <<mDirty, viewDirty, texture>>

UploadHalf(half, next) ==
  /\ texture' = [texture EXCEPT ![half] = pixels[upload.buf][half]]
  /\ Uploads(half, next) /\ UNCHANGED <<mDirty, viewDirty>>

UploadStep == \/ SetTouchState \/ MarkTouch \/ Fetch
              \/ UploadHalf("top", "bottom") \/ UploadHalf("bottom", "touch")

PanelNext == \/ SetFromNative \/ MarkFromNative \/ DiscoveryResolves \/ DiscoveryMarks
             \/ CanvasStep \/ UploadStep

PanelSpec == PanelInit /\ [][PanelNext]_panelVars

-----------------------------------------------------------------------------
PanelTypeOK ==
  /\ version \in 1..MaxUpdates /\ canvas.drawn \in 0..version
  /\ {mDirty, viewDirty, changing.ui, changing.discovery} \subseteq BOOLEAN
  /\ {mFrontBuffer, mBackBuffer} = {"A", "B"} /\ upload.buf \in {"A", "B"}
  /\ texture \in [top: 0..version, bottom: 0..version]

(* "This prevents native from reading a buffer while the render thread      *)
(* writes to it" (VrUiPanel.java).                                          *)
NotReadWhileWritten ==
  canvas.at \in {"top", "bottom"} /\ upload.at \in {"top", "bottom"}
    => upload.buf # mBackBuffer

(* The panel shows the view as it is. *)
ShowsView == texture = [top |-> version, bottom |-> version]
=============================================================================
