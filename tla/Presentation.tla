----------------------------- MODULE Presentation -----------------------------
(***************************************************************************)
(* What the render loop hands to the SDK's warp thread: the lobby's ring   *)
(* of textures or the stream's (render_thread.cpp).  The warp runs on its  *)
(* own and goes on sampling the last WarpDepth textures it was given.      *)
(*                                                                         *)
(* One iteration of the loop is three steps, at the three places where it  *)
(* reads flags of other threads: the sleep request, the stream's start and *)
(* end, the choice of the path; then the drawn slot is submitted.  The     *)
(* network thread starts and ends streams, the decoder delivers the first  *)
(* frame, the UI thread changes the resolution, the passthrough camera and *)
(* the sleep request meanwhile.                                            *)
(***************************************************************************)
EXTENDS Integers, Sequences

CONSTANTS RingLength,  \* kSwapLen and kLobbyRing
          WarpDepth,   \* textures the warp keeps
          MaxStreams, MaxSleeps, MaxSwitches  \* bounds of the other threads' calls

ASSUME PresentationAssumption ==
  /\ WarpDepth \in Nat \ {0} /\ RingLength \in Nat /\ RingLength > WarpDepth

VARIABLES
  isStreaming, videoReady, hasFrame, \* streaming_client: a shard, the description,
                                   \* a decoded frame has arrived
  gSleepReq, gSlept, gStreaming, streamWasUp,   \* render_thread.cpp
  resolutionDirty, gWivrnPassthrough, cameraOn,
  loop,           \* the next step of the iteration
  lobby,          \* the lobby's ring: ready, lobbyEyeIdx, lastRenderedIdx
  lobbyFreeDelay, \* iterations left before the lobby's ring is freed, -1: none
  gSwap,          \* the stream's ring: ready, gSwapIdx
  drawing,        \* the texture being drawn, and the one to submit
  held,           \* the textures the warp samples, newest last
  starved,        \* an iteration on the video path had no frame (history)
  missedStart,    \* the stream began before its description came (history)
  left            \* what is left of the bounds

netVars    == <<isStreaming, videoReady, hasFrame>>
renderVars == <<gSlept, gStreaming, streamWasUp, loop, lobby, lobbyFreeDelay,
                gSwap, drawing, held, starved, missedStart>>
uiFlags    == <<gSleepReq, resolutionDirty, gWivrnPassthrough, cameraOn>>
presentationVars == <<netVars, renderVars, uiFlags, left>>

NoSlot == RingLength      \* -1 of lastRenderedIdx
NoDraw == [ring |-> "none", slot |-> NoSlot, submit |-> NoSlot]
FreshLobby == [ready |-> TRUE, idx |-> 0, last |-> NoSlot]

PresentationInit ==
  /\ isStreaming = FALSE /\ videoReady = FALSE /\ hasFrame = FALSE
  /\ gSleepReq = FALSE /\ gSlept = FALSE /\ gStreaming = FALSE /\ streamWasUp = FALSE
  /\ resolutionDirty = FALSE /\ gWivrnPassthrough \in BOOLEAN
  /\ cameraOn = gWivrnPassthrough
  /\ loop = "sleep" /\ lobby = FreshLobby /\ lobbyFreeDelay = -1
  /\ gSwap = [ready |-> FALSE, idx |-> 0]
  /\ drawing = NoDraw /\ held = <<>>
  /\ starved = FALSE /\ missedStart = FALSE
  /\ left = [streams |-> MaxStreams, sleeps |-> MaxSleeps, switches |-> MaxSwitches]

-----------------------------------------------------------------------------
(* The other threads.                                                       *)

VideoDescription ==
  /\ ~videoReady /\ left.streams > 0
  /\ videoReady' = TRUE
  /\ left' = [left EXCEPT !.streams = @ - 1]
  /\ UNCHANGED <<isStreaming, hasFrame, uiFlags, renderVars>>

(* A session begins streaming at its first shard, over UDP perhaps before   *)
(* the description has come over TCP.  Reconnecting takes many iterations   *)
(* of the loop, so the loop has seen the last stream end.                   *)
FirstShard ==
  /\ ~isStreaming /\ ~streamWasUp
  /\ videoReady \/ left.streams > 0
  /\ isStreaming' = TRUE
  /\ UNCHANGED <<videoReady, hasFrame, left, uiFlags, renderVars>>

FrameDecoded ==
  /\ isStreaming /\ videoReady /\ ~hasFrame
  /\ hasFrame' = TRUE
  /\ UNCHANGED <<isStreaming, videoReady, left, uiFlags, renderVars>>

ResetStream ==
  /\ isStreaming \/ videoReady
  /\ isStreaming' = FALSE /\ videoReady' = FALSE /\ hasFrame' = FALSE
  /\ UNCHANGED <<left, uiFlags, renderVars>>

SetSleep ==
  /\ left.sleeps > 0
  /\ gSleepReq' = ~gSleepReq
  /\ left' = [left EXCEPT !.sleeps = @ - 1]
  /\ UNCHANGED <<resolutionDirty, gWivrnPassthrough, cameraOn, netVars, renderVars>>

SetResolution ==
  /\ left.switches > 0 /\ ~resolutionDirty
  /\ resolutionDirty' = TRUE
  /\ left' = [left EXCEPT !.switches = @ - 1]
  /\ UNCHANGED <<gSleepReq, gWivrnPassthrough, cameraOn, netVars, renderVars>>

(* The camera is started and stopped at once, streaming or not. *)
SetPassthrough ==
  /\ left.switches > 0
  /\ gWivrnPassthrough' = ~gWivrnPassthrough /\ cameraOn' = gWivrnPassthrough'
  /\ left' = [left EXCEPT !.switches = @ - 1]
  /\ UNCHANGED <<gSleepReq, resolutionDirty, netVars, renderVars>>

Others == \/ VideoDescription \/ FirstShard \/ FrameDecoded \/ ResetStream
          \/ SetSleep \/ SetResolution \/ SetPassthrough

-----------------------------------------------------------------------------
(* The render loop.                                                         *)

(* Deleting a ring leaves the warp with textures that are gone. *)
Deleted(ring) ==
  [i \in DOMAIN held |-> IF held[i].ring = ring THEN [held[i] EXCEPT !.alive = FALSE]
                         ELSE held[i]]

LobbyTexturesLive == \A i \in DOMAIN held : held[i].ring = "lobby" => held[i].alive

(* Doff and don. *)
SleepEdge ==
  /\ loop = "sleep" /\ loop' = "edges"
  /\ gSlept' = gSleepReq
  /\ CASE gSleepReq /\ ~gSlept -> gStreaming' = FALSE /\ cameraOn' = FALSE
       [] ~gSleepReq /\ gSlept -> gStreaming' = isStreaming /\ cameraOn' = TRUE
       [] OTHER -> UNCHANGED <<gStreaming, cameraOn>>
  /\ UNCHANGED <<streamWasUp, lobby, lobbyFreeDelay, gSwap, drawing, held, starved,
                 missedStart, gSleepReq, resolutionDirty, gWivrnPassthrough, netVars, left>>

(* Variant: a stream that starts is followed only when it has a frame. *)
StreamEdgeNeedsFrame(up) == IF up /\ streamWasUp THEN gStreaming ELSE up /\ hasFrame

(* A stream that starts is followed only when its size is known; one that   *)
(* ends is left.                                                            *)
StreamEdge(up) ==
  CASE up /\ ~streamWasUp -> videoReady \/ gStreaming
    [] ~up /\ streamWasUp -> FALSE
    [] OTHER -> gStreaming

(* The stream's start and end, then a change of the resolution, each with   *)
(* its rebuilding of the stream's ring.                                     *)
StreamEdges ==
  LET starts  == isStreaming /\ ~streamWasUp /\ videoReady
      ends    == ~isStreaming /\ streamWasUp
      resizes == resolutionDirty /\ StreamEdge(isStreaming) /\ (gSwap.ready \/ starts)
  IN
  /\ loop = "edges" /\ loop' = "path"
  /\ streamWasUp' = isStreaming
  /\ gStreaming' = StreamEdge(isStreaming)
  /\ missedStart' = (isStreaming /\ IF streamWasUp THEN missedStart ELSE ~videoReady)
  /\ resolutionDirty' = FALSE
  /\ cameraOn' = IF starts THEN FALSE ELSE cameraOn \/ (ends /\ gWivrnPassthrough)
  /\ IF starts \/ ends \/ resizes
     THEN gSwap' = [ready |-> ~ends, idx |-> 0] /\ held' = Deleted("swap")
     ELSE UNCHANGED <<gSwap, held>>
  /\ UNCHANGED <<gSlept, lobby, lobbyFreeDelay, drawing, starved, gSleepReq,
                 gWivrnPassthrough, netVars, left>>

(* The countdown that lets the warp's textures be replaced first. *)
FreeDelay == RingLength + 2

(* Variant: the stream submits the slot of the iteration before. *)
StreamSubmitPrevious ==
  IF gSwap.idx = 0 THEN RingLength - 1 ELSE gSwap.idx - 1

(* The slot of the stream's ring submitted after one is drawn: the same. *)
StreamSubmit == gSwap.idx

(* The video path: the lobby's ring is freed when its countdown is over,    *)
(* the newest frame is drawn; without a frame nothing is submitted.         *)
VideoPath ==
  LET armed == IF lobby.ready /\ lobbyFreeDelay < 0 THEN FreeDelay ELSE lobbyFreeDelay IN
  /\ loop = "path" /\ gStreaming /\ isStreaming /\ videoReady
  /\ lobbyFreeDelay' = IF armed = -1 THEN -1 ELSE armed - 1
  /\ IF armed = 0
     THEN lobby' = [ready |-> FALSE, idx |-> 0, last |-> NoSlot] /\ held' = Deleted("lobby")
     ELSE UNCHANGED <<lobby, held>>
  /\ IF hasFrame
     THEN /\ drawing' = [ring |-> "swap", slot |-> gSwap.idx, submit |-> StreamSubmit]
          /\ gSwap' = [gSwap EXCEPT !.idx = (@ + 1) % RingLength]
          /\ loop' = "submit" /\ UNCHANGED starved
     ELSE loop' = "sleep" /\ starved' = TRUE /\ UNCHANGED <<drawing, gSwap>>
  /\ UNCHANGED <<gSlept, gStreaming, streamWasUp, missedStart, netVars, uiFlags, left>>

(* The lobby: a ring freed by a stream is rebuilt; the slot drawn in the    *)
(* iteration before is submitted, with the camera on the one just drawn.    *)
LobbyPath ==
  LET ring == IF lobby.ready THEN lobby ELSE FreshLobby IN
  /\ loop = "path" /\ ~(gStreaming /\ isStreaming /\ videoReady)
  /\ lobbyFreeDelay' = -1 /\ starved' = (starved /\ ~LobbyTexturesLive)
  /\ drawing' = [ring |-> "lobby", slot |-> ring.idx,
                 submit |-> IF cameraOn \/ ring.last = NoSlot THEN ring.idx ELSE ring.last]
  /\ lobby' = [ring EXCEPT !.idx = (@ + 1) % RingLength, !.last = ring.idx]
  /\ loop' = "submit"
  /\ UNCHANGED <<gSlept, gStreaming, streamWasUp, gSwap, held, missedStart, netVars,
                 uiFlags, left>>

Submit ==
  /\ loop = "submit" /\ loop' = "sleep"
  /\ LET all == Append(held, [ring |-> drawing.ring, slot |-> drawing.submit,
                           alive |-> drawing.ring = "lobby" \/ gSwap.ready])
     IN held' = IF Len(all) > WarpDepth THEN Tail(all) ELSE all
  /\ drawing' = NoDraw
  /\ UNCHANGED <<gSlept, gStreaming, streamWasUp, lobby, lobbyFreeDelay, gSwap,
                 starved, missedStart, netVars, uiFlags, left>>

Iterate == SleepEdge \/ StreamEdges \/ VideoPath \/ LobbyPath \/ Submit

PresentationNext == Others \/ Iterate

PresentationSpec == PresentationInit /\ [][PresentationNext]_presentationVars

-----------------------------------------------------------------------------
PresentationTypeOK ==
  /\ netVars \in BOOLEAN \X BOOLEAN \X BOOLEAN
  /\ lobby \in [ready: BOOLEAN, idx: 0..RingLength - 1, last: 0..RingLength]
  /\ gSwap \in [ready: BOOLEAN, idx: 0..RingLength - 1]
  /\ lobbyFreeDelay \in -1..FreeDelay
  /\ Len(held) <= WarpDepth

(* The slot being drawn is none the warp samples. *)
NeverAliases(ring) ==
  drawing.ring = ring =>
    \A i \in DOMAIN held :
      held[i].alive /\ held[i].ring = ring => held[i].slot # drawing.slot

(* What the warp samples stays as it was given: the stream is never drawn   *)
(* into such a texture, across starts, ends, changes of the resolution and  *)
(* returns to the lobby, and while frames keep coming the lobby's textures  *)
(* are not freed before the warp has let them go.                           *)
WarpUndisturbed == NeverAliases("swap") /\ (starved \/ LobbyTexturesLive)

(* Of the comment at kLobbyRing: the warp's held entries and the slot being *)
(* rendered never alias.                                                    *)
LobbyNeverAliases == NeverAliases("lobby")

(* The newest texture the warp has is one of the ring, and exists. *)
Shown(ring) == held # <<>> /\ held[Len(held)].ring = ring /\ held[Len(held)].alive

(* The warp has the picture there is to show. *)
Followed == IF isStreaming /\ videoReady /\ hasFrame /\ ~gSleepReq
            THEN Shown("swap") \/ missedStart ELSE isStreaming \/ Shown("lobby")
=============================================================================
