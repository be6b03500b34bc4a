------------------------------ MODULE MCHeadset ------------------------------
(***************************************************************************)
(* Instances for TLC of six parts of the app that share no variable: a     *)
(* decoder, the window, what is presented to the warp, the lobby's panel,  *)
(* the saved servers and the settings.  A behaviour is one of one part,    *)
(* chosen at the start, with the others at rest.                           *)
(***************************************************************************)
EXTENDS VideoDecoder, Surface, Presentation, Panel, ServerLists, Settings

VARIABLE part

headsetVars == <<part, vars, surfaceVars, presentationVars, panelVars, serverVars,
                 settingsVars>>

HeadsetInit ==
  /\ part \in {"decoder", "surface", "presentation", "panel", "servers", "settings"}
  /\ Init /\ SurfaceInit /\ PresentationInit /\ PanelInit /\ ServersInit /\ SettingsInit
  /\ part # "presentation" => ~gWivrnPassthrough
  /\ part # "servers" => prefs.list = {}
  /\ part # "settings" => file.kind = "missing" /\ legacy = NoFiles

(* Only part p moves. *)
Only(p) ==
  /\ UNCHANGED part
  /\ p # "decoder" => UNCHANGED vars
  /\ p # "surface" => UNCHANGED surfaceVars
  /\ p # "presentation" => UNCHANGED presentationVars
  /\ p # "panel" => UNCHANGED panelVars
  /\ p # "servers" => UNCHANGED serverVars
  /\ p # "settings" => UNCHANGED settingsVars

HeadsetNext ==
  \/ part = "decoder"      /\ Next             /\ Only("decoder")
  \/ part = "surface"      /\ SurfaceNext      /\ Only("surface")
  \/ part = "presentation" /\ PresentationNext /\ Only("presentation")
  \/ part = "panel"        /\ PanelNext        /\ Only("panel")
  \/ part = "servers"      /\ ServersNext      /\ Only("servers")
  \/ part = "settings"     /\ SettingsNext     /\ Only("settings")

(* The fairness of the parts, their conditions numbered: as a part stays    *)
(* chosen, one condition may serve a step of each.  The decoder's threads,  *)
(* the codec, the render, the tracking and the drawing thread, the panel's  *)
(* callbacks and the synchronisation run on; what the user, Android and the *)
(* network do is their choice.                                              *)
Fair(k) ==
  \/ /\ part = "decoder"
     /\ \/ k = 1 /\ FrameCompleted
        \/ k = 2 /\ (NotifyAll \/ StopCodec \/ Join)
        \/ k = 3 /\ (\/ InputTest \/ InputWait \/ InputTake
                     \/ InputPoll \/ InputDequeue \/ InputFeed)
        \/ k = 4 /\ CodecDecode
        \/ k = 5 /\ (OutputDequeue \/ OutputRelease \/ OutputExit)
        \/ k = 6 /\ (OnImageAvailable \/ Show)
     /\ Only("decoder")
  \/ /\ part = "surface" /\ \/ k = 1 /\ RenderStep
                            \/ k = 2 /\ TrackerStep
     /\ Only("surface")
  \/ part = "presentation" /\ k = 1 /\ Iterate /\ Only("presentation")
  \/ /\ part = "panel" /\ \/ k = 1 /\ CanvasStep
                          \/ k = 2 /\ UploadStep
                          \/ k = 3 /\ MarkFromNative
                          \/ k = 4 /\ DiscoveryMarks
     /\ Only("panel")
  \/ /\ part = "servers" /\ \/ k = 1 /\ SyncServers
                            \/ k = 2 /\ SetServersFromNative
     /\ Only("servers")

HeadsetSpec ==
  /\ HeadsetInit /\ [][HeadsetNext]_headsetVars
  /\ \A k \in 1 .. 6 : WF_headsetVars(Fair(k))

(* Every variable keeps to its type. *)
HeadsetTypeOK ==
  /\ TypeOK /\ SurfaceTypeOK /\ PresentationTypeOK /\ PanelTypeOK
  /\ ServersTypeOK /\ SettingsTypeOK

(* The warp is given the stream once it can be shown, and the lobby again   *)
(* when there is none: textures that exist, whatever it was left with.      *)
(* (A stream whose first shard overtook its description is not followed.)   *)
LoopPictureFollows == []<>(part = "presentation" => Followed)

(* The panel comes to show the view as it is, whole.  A change that comes   *)
(* without the lock, after the view was drawn and before it is marked       *)
(* clean, is forgotten by both flags, and a torn picture is uploaded now    *)
(* and then: neither stays.                                                 *)
PanelFollows == []<>(part = "panel" => ShowsView)
=============================================================================
