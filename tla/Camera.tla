-------------------------------- MODULE Camera --------------------------------
(***************************************************************************)
(* The passthrough camera (pico_passthrough of render/passthrough.cpp):    *)
(* objects of the camera service and of the image reader, got one from the *)
(* other, held in the fields of one C++ object without a lock.  The render *)
(* thread starts and stops it as it boots, sleeps, wakes, enters and       *)
(* leaves a stream, and draws its images in the lobby; the UI thread       *)
(* starts and stops it when the user switches it.                          *)
(*                                                                         *)
(* What a thread has yet to do is a sequence of steps.  Of each object     *)
(* there may be several, numbered; img_reader stands for the reader and    *)
(* the reference to its window.  Shaders and mesh are built without fail;  *)
(* an image is its number.  Two threads that meet in the object race on    *)
(* plain fields; what comes of it is not followed.                         *)
(***************************************************************************)
EXTENDS Integers, Sequences, FiniteSets

CONSTANTS MaxToggles,     \* bound: calls of nativeSetPassthrough
          MaxBroken,      \* bound: starts that fail
          MaxLaunches     \* bound: launches of the render thread

VARIABLES
  passthrough,     \* gWivrnPassthrough
  camera_on, field,    \* the C++ object: what its pointers point to
  got_new, eye_tex,    \* got_new_this_frame, the image in each texture
  alive,           \* objects got and not given back
  todo,            \* the steps each thread has yet to do
  asleep,          \* gSlept of the render thread
  streaming,       \* streamWasUp: "no", "unseen" (its size was not known), "shown"
  spent,           \* toggles, failed starts and launches so far
  overlap,         \* the threads met in the object (history)
  fault,           \* something was used or given back that was gone (history)
  stale            \* an eye was drawn with an older image (history)

objectVars == <<camera_on, field, got_new, eye_tex, alive>>
loopVars   == <<passthrough, asleep, streaming>>
cameraVars == <<objectVars, loopVars, todo, spent, overlap, fault, stale>>

Parts   == {"cam_mgr", "cam_dev", "img_reader", "cam_session", "cam_request"}
Fields  == Parts \cup {"pending_image"}
CamThreads == {"ui", "render"}
Null    == 0

CameraInit ==
  /\ camera_on = FALSE /\ field = [k \in Fields |-> Null]
  /\ got_new = FALSE /\ eye_tex = [e \in {0, 1} |-> Null]
  /\ alive = {} /\ todo = [t \in CamThreads |-> <<>>]
  /\ passthrough \in BOOLEAN /\ asleep = FALSE /\ streaming = "no"
  /\ spent = [toggles |-> 0, failures |-> 0, launches |-> 0]
  /\ overlap = FALSE /\ fault = FALSE /\ stale = FALSE

Held(k) == <<k, field[k]>> \in alive

(* A number that no object of the kind has, and no texture for an image. *)
New(k) == CHOOSE n \in 1 .. Cardinality(alive) + 3 :
            <<k, n>> \notin alive /\ n \notin {eye_tex[0], eye_tex[1]}

-----------------------------------------------------------------------------
(* Steps.                                                                   *)

At(t, verb) == todo[t] # <<>> /\ todo[t][1][1] = verb
Subject(t)  == todo[t][1][2]

(* In the middle of start(), stop(), the destructor or draw(). *)
Inside(steps) ==
  steps # <<>> /\ steps[1][1] \in {"open", "on", "close", "off", "renew", "acquire", "upload"}

(* Thread t does its first step, and goes on with others before the rest. *)
Proceeds(t, others) ==
  /\ todo' = [todo EXCEPT ![t] = others \o Tail(@)]
  /\ overlap' = (overlap \/ \A u \in CamThreads : Inside(todo'[u]))
  /\ UNCHANGED <<loopVars, spent>>

StartSteps == <<<<"open", "cam_mgr">>, <<"open", "cam_dev">>, <<"open", "img_reader">>,
                <<"open", "cam_session">>, <<"open", "cam_request">>, <<"on", TRUE>>>>
StopSteps  == <<<<"close", "pending_image">>, <<"close", "cam_session">>,
                <<"close", "cam_request">>, <<"close", "cam_dev">>,
                <<"close", "img_reader">>, <<"close", "cam_mgr">>, <<"off", FALSE>>>>
DrawSteps(eye) == IF eye = 0 THEN <<<<"acquire", 0>>, <<"upload", 0>>>>
                  ELSE <<<<"upload", 1>>>>

(* Variant: a start does not ask whether the camera is on. *)
AlwaysStart == TRUE

(* start() returns at once when the camera is on. *)
StartNeeded == ~camera_on

Call(t, verb, needed, steps) ==
  /\ At(t, verb)
  /\ Proceeds(t, IF needed THEN steps ELSE <<>>)
  /\ UNCHANGED <<objectVars, fault, stale>>

Start(t) == Call(t, "start", StartNeeded, StartSteps)
Stop(t)  == Call(t, "stop", camera_on, StopSteps)

(* drawLobbyScene() and draw() ask whether the camera is on. *)
Draw == \E eye \in {0, 1} :
          /\ At("render", "draw") /\ Subject("render") = eye
          /\ Call("render", "draw", camera_on /\ field["img_reader"] # Null, DrawSteps(eye))

(* The thread asks before it calls. *)
Test == Call("ui", "test", camera_on # passthrough,
             IF passthrough THEN <<<<"start", "ui">>>> ELSE <<<<"stop", "ui">>>>)
Boot == Call("render", "boot", passthrough, <<<<"start", "boot">>>>)

(* What an object is got from. *)
Source(k) == CASE k = "cam_dev" -> {"cam_mgr"}
               [] k \in {"cam_session", "cam_request"} -> {"cam_dev", "img_reader"}
               [] OTHER -> {}

Open(t) ==
  LET k == Subject(t) IN
  /\ At(t, "open")
  /\ fault' = (\E s \in Source(k) : ~Held(s))
  /\ field' = [field EXCEPT ![k] = New(k)]
  /\ alive' = alive \cup {<<k, New(k)>>}
  /\ Proceeds(t, <<>>)
  /\ UNCHANGED <<camera_on, got_new, eye_tex, stale>>

(* start() returns with what it has got so far in the fields; that of what  *)
(* failed is null, or as it was.  It is always the last thing in todo.      *)
OpenFails(t) ==
  LET k == Subject(t) IN
  /\ At(t, "open") /\ spent.failures < MaxBroken
  /\ spent' = [spent EXCEPT !.failures = @ + 1]
  /\ \/ field' = [field EXCEPT ![k] = Null]
     \/ k # "cam_mgr" /\ UNCHANGED field
  /\ todo' = [todo EXCEPT ![t] = <<>>]
  /\ UNCHANGED <<loopVars, camera_on, got_new, eye_tex, alive, overlap, fault, stale>>

Switch(t) ==
  /\ At(t, "on") \/ At(t, "off")
  /\ camera_on' = Subject(t)
  /\ Proceeds(t, <<>>)
  /\ UNCHANGED <<field, got_new, eye_tex, alive, fault, stale>>

(* A pointer is tested, what it points to given back, and nulled. *)
Close(t) ==
  LET k == Subject(t) IN
  /\ At(t, "close")
  /\ fault' = (field[k] # Null /\ ~Held(k))
  /\ alive' = alive \ {<<k, field[k]>>}
  /\ field' = [field EXCEPT ![k] = Null]
  /\ Proceeds(t, <<>>)
  /\ UNCHANGED <<camera_on, got_new, eye_tex, stale>>

(* At a launch the object is deleted and made anew. *)
Renew ==
  /\ At("render", "renew")
  /\ camera_on' = FALSE /\ field' = [k \in Fields |-> Null]
  /\ got_new' = FALSE /\ eye_tex' = [e \in {0, 1} |-> Null]
  /\ Proceeds("render", <<>>)
  /\ UNCHANGED <<alive, fault, stale>>

(* The left eye looks for a new image, which takes the place of the one     *)
(* kept; an error gives up the one kept.                                    *)
Acquire ==
  LET old == field["pending_image"]
      new == New("pending_image")
      Keep(n, objects) == /\ field' = [field EXCEPT !["pending_image"] = n]
                          /\ alive' = (alive \ {<<"pending_image", old>>}) \cup objects
                          /\ fault' = (~Held("img_reader")
                                         \/ (old # Null /\ n # old /\ ~Held("pending_image")))
  IN
  /\ At("render", "acquire")
  /\ \/ Keep(new, {<<"pending_image", new>>}) /\ got_new' = TRUE
     \/ Keep(old, {<<"pending_image", old>>} \cap alive) /\ got_new' = FALSE
     \/ Keep(Null, {}) /\ got_new' = FALSE
  /\ Proceeds("render", <<>>)
  /\ UNCHANGED <<camera_on, eye_tex, stale>>

(* An eye's half of the image kept is uploaded when the image is new, or    *)
(* the texture, and drawn.                                                  *)
Upload ==
  LET eye   == Subject("render")
      image == field["pending_image"] IN
  /\ At("render", "upload")
  /\ IF image = Null THEN UNCHANGED <<eye_tex, fault, stale>>
     ELSE /\ eye_tex' = IF got_new \/ eye_tex[eye] = Null
                        THEN [eye_tex EXCEPT ![eye] = image] ELSE eye_tex
          /\ fault' = ~Held("pending_image")
          /\ stale' = (eye_tex'[eye] # image)
  /\ Proceeds("render", <<>>)
  /\ UNCHANGED <<camera_on, field, got_new, alive>>

-----------------------------------------------------------------------------
(* What makes the threads turn to the camera.                               *)

Turns(t, steps) ==
  /\ todo[t] = <<>> /\ todo' = [todo EXCEPT ![t] = steps]
  /\ UNCHANGED <<objectVars, overlap, fault, stale>>

nativeSetPassthrough ==
  /\ spent.toggles < MaxToggles
  /\ spent' = [spent EXCEPT !.toggles = @ + 1]
  /\ passthrough' \in BOOLEAN
  /\ Turns("ui", <<<<"test", "ui">>>>)
  /\ UNCHANGED <<asleep, streaming>>

Launch ==
  /\ spent.launches < MaxLaunches
  /\ spent' = [spent EXCEPT !.launches = @ + 1]
  /\ asleep' = FALSE /\ streaming' = "no"
  /\ Turns("render", <<<<"stop", "delete">>, <<"renew", "object">>, <<"boot", "render">>>>)
  /\ UNCHANGED passthrough

(* Doff and don: the latter starts the camera, switched on or not. *)
SleepOrWake ==
  /\ spent.launches > 0
  /\ asleep' = ~asleep
  /\ Turns("render", IF asleep THEN <<<<"start", "wake">>>> ELSE <<<<"stop", "sleep">>>>)
  /\ UNCHANGED <<passthrough, streaming, spent>>

(* A stream whose size is known takes the camera's place; one that ends     *)
(* gives it back.                                                           *)
StreamTurns ==
  /\ spent.launches > 0
  /\ \/ /\ streaming = "no"
        /\ \/ streaming' = "shown"  /\ Turns("render", <<<<"stop", "stream">>>>)
           \/ streaming' = "unseen" /\ Turns("render", <<>>)
     \/ /\ streaming # "no" /\ streaming' = "no"
        /\ Turns("render", IF passthrough THEN <<<<"start", "lobby">>>> ELSE <<>>)
  /\ UNCHANGED <<passthrough, asleep, spent>>

(* The lobby is drawn while no stream is, or by a headset that is put down. *)
DrawLobby ==
  /\ spent.launches > 0 /\ (streaming # "shown" \/ asleep)
  /\ Turns("render", <<<<"draw", 0>>, <<"draw", 1>>>>)
  /\ UNCHANGED <<loopVars, spent>>

CameraNext ==
  /\ ~overlap /\ ~fault
  /\ \/ nativeSetPassthrough \/ Test
     \/ Launch \/ Boot \/ Renew \/ SleepOrWake \/ StreamTurns
     \/ DrawLobby \/ Draw \/ Acquire \/ Upload
     \/ \E t \in CamThreads :
          Start(t) \/ Stop(t) \/ Open(t) \/ OpenFails(t) \/ Switch(t) \/ Close(t)

CameraSpec == CameraInit /\ [][CameraNext]_cameraVars

-----------------------------------------------------------------------------
CameraTypeOK ==
  /\ camera_on \in BOOLEAN /\ got_new \in BOOLEAN
  /\ DOMAIN field = Fields /\ \A k \in Fields : field[k] \in Nat
  /\ \A o \in alive : o[1] \in Fields /\ o[2] # Null
  /\ \A t \in CamThreads : Len(todo[t]) <= Len(StopSteps) + 2

(* Objects of a kind that are lost: open, and no field points to them. *)
Lost(k) == {o \in alive : o[1] = k /\ o[2] # field[k]}

(* Unless the user switches the camera while the render thread is about it, *)
(* nothing is used or given back that is gone, no eye is drawn with another *)
(* image than the one kept, the camera has all its parts when it is on, and *)
(* none when it is off: a start that fails leaves no more than one of each  *)
(* behind.  (start() and stop() of render/passthrough.cpp.)                 *)
CameraOwned ==
  /\ CameraTypeOK
  /\ overlap \/
       /\ ~fault /\ ~stale
       /\ \A k \in Fields : Cardinality(Lost(k)) <= spent.failures
       /\ (\A t \in CamThreads : ~Inside(todo[t])) =>
            IF camera_on THEN \A k \in Parts : Held(k)
            ELSE alive = {} \/ spent.failures > 0
=============================================================================
