------------------------------ MODULE MCDevices ------------------------------
(***************************************************************************)
(* Instances for TLC of two users of Android's media services that share   *)
(* no variable: a decoder and the passthrough camera.  A behaviour is one  *)
(* of one part, chosen at the start, with the other at rest.               *)
(***************************************************************************)
EXTENDS VideoDecoder, Camera

VARIABLE part

devicesVars == <<part, vars, cameraVars>>

DevicesInit ==
  /\ part \in {"decoder", "camera"}
  /\ Init /\ CameraInit
  /\ part # "camera" => ~passthrough

DevicesNext ==
  \/ part = "decoder" /\ Next       /\ UNCHANGED <<part, cameraVars>>
  \/ part = "camera"  /\ CameraNext /\ UNCHANGED <<part, vars>>

DevicesSpec == DevicesInit /\ [][DevicesNext]_devicesVars
=============================================================================
