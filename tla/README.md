# Verification of the Pico Neo 2 WiVRn client

TLA+ models of the native WiVRn client for the Pico Neo 2 headset (the
application under `src/app`), checked with TLC and, for the core invariants,
proved with TLAPS. Paths below are relative to
`src/app/src/main/cpp/` unless they end in `.java`.

## 1. The system

The client connects to a WiVRn server, receives encoded video over UDP or TCP,
decodes it, shows it through Pico's warp compositor, and sends back poses,
controller input, gaze, microphone audio and statistics. Its threads:

| thread | started by | runs |
|---|---|---|
| UI (Java main) | Android | `MainActivity`, views, `native*` entry points of `core/jni.cpp` |
| connect | `nativeConnect` | `streaming_client::run_connect_loop` |
| network | `connect_to_server` | `network_loop` -> `handle_packet`, `handle_video_shard` |
| tracker | `pico_native_tracker::start` | pose uplink |
| decoder callbacks, output thread | each `pico_decoder` | `AMediaCodec` callbacks, image reader |
| render | `nativeStart` | `render/render_thread.cpp` |
| tracking | render thread | 300 Hz head pose and eye gaze |
| eye worker | first eye request | blocking `Pvr_SetTrackingMode` |
| audio callbacks | AAudio | `wivrn/audio/pico_audio.cpp` |
| panel drawing (`ui-canvas-render`) | `VrUiPanel.attach` | draws the lobby's view into a buffer |
| server synchronisation | `MainActivity` | `ServerDiscovery` -> native list -> lobby, every half second |

### Components

* **Connection** (`streaming/streaming_client.cpp`, `core/jni.cpp`,
  `MainActivity.java`): connect and disconnect requests, the connect thread with
  its addresses and retries, the session and its network thread, the tracker that
  uses the session. State: `shutdown_requested`, `connecting`, `streaming`, the
  session, thread handles, the error shown to the user. Hard: a disconnect while a
  connection is being made; a click while the last attempt is still going down;
  joins that wait for a thread that waits; a session taken away under the tracker.
* **Handshake** (`wivrn/net/wivrn_client_pico.cpp`, `connect_to_server`):
  addresses tried in turn, lockstep exchange with pairing by PIN, timeouts,
  cancellation. Correct when a connection that is reported is one the server has
  accepted with the same keys, and when every attempt ends.
* **PIN check** (`wivrn/common/smp.cpp`): the socialist millionaires' protocol between
  headset and server, four messages with proofs. Correct when both find out whether the
  PINs are the same, and nobody who follows it is taken for a cheat.
* **Sockets** (`wivrn/common/wivrn_sockets.cpp`, `wivrn/net/wivrn_client_pico.h`):
  the control connection, on which four threads send with one running keystream;
  datagrams read in batches into a buffer their packets share; the poll loop.
  Correct when the peer can decipher what arrives, no held datagram is overwritten
  and no packet that was read waits unhandled.
* **Frame assembly** (`handle_video_shard`): two shard sets per stream, filled by
  datagrams that are lost, duplicated and reordered. Correct when only whole
  frames are pushed, at most one frame late.
* **Video decoder** (`wivrn/video/pico_decoder.cpp`): input buffers and frame
  infos go in, images come out of asynchronous callbacks; flush, destruction.
  Correct when each image is paired with the info of its own frame, images come
  out in order, no buffer is lost, and destruction returns.
* **Pairing of the eyes** (`decoded_frame_buffers`,
  `streaming/wivrn_stream_adapter.cpp`): rings of three frames per stream that
  decoders fill and the render thread reads. Correct when both eyes show the same
  frame and neither is blank.
* **Window hand-over** (`core/jni.cpp`, `render/render_thread.cpp`): the UI thread
  hands the `SurfaceView`'s windows to the render thread, which makes EGL surfaces
  of them and points the SDK's warp at them while the tracking thread uses the SDK.
  Correct when each window is released exactly once and the one that stays is shown.
* **Presentation** (`render/render_thread.cpp`): two rings of textures, the
  stream's and the lobby's, of which the warp keeps sampling the last four; edges of
  the stream, doff and don, change of the resolution, camera. Correct when nothing the
  warp samples is drawn into or freed, and the picture follows the stream.
* **Passthrough camera** (`render/passthrough.cpp`): objects of the camera service in one
  C++ object that the render and the UI thread use without a lock. Correct when each is
  given back once and not used afterwards, and both eyes show the image kept.
* **Eye tracking** (`core/eye_tracking.cpp`, `streaming/pvr_eye_bridge.cpp`,
  edges in `render/render_thread.cpp`): three threads ask a worker to switch the
  illuminators; a reader and the uplink share the gaze. Correct when the last
  request wins, the light follows the streams, and no stale gaze is sent.
* **Audio** (`wivrn/audio/pico_audio.cpp`): output ring between network thread and
  audio callback; streams recreated when a device is lost; microphone switched by
  the server. Correct when the byte count follows the ring, packets are heard in
  order, and the threads that close, recreate and switch streams neither use freed
  memory nor wait for each other.
* **Lobby panel** (`VrUiPanel.java`, `WivrnLobbyView.java`, `ui/android_ui.cpp`): a view
  that callbacks and touches change, drawn by a thread of its own into one of two
  buffers while the render thread uploads the other. Correct when the panel comes to
  show the view as it is, whole.
* **Saved servers** (`ServerDiscovery.java`, `WivrnLobbyView.java`,
  `MainActivity.java`): two copies of one list, each saved as a whole under the same
  key. Correct when the lobby shows what is known.
* **Settings** (`core/app_state.cpp`): one file rewritten as a whole by two threads
  without a lock, two older formats; most settings are saved by the thread that stores
  them, the field of view later by another. Correct when the file follows the settings
  and what is not saved yet is known to be so.
* **The rest**: the tracker's arithmetic, latency and stutter statistics, drawing,
  menus, Java views. `components` in `PROJECT.json` lists each with its state and the
  reason when it is left out.

### How the components depend on each other

A frame passes through three models in a row. `FrameAssembly` pushes frames to a
decoder, `VideoDecoder` hands images to `on_frame_decoded`, `FramePairs` stores and
reads them. What each of them promises to the next is one abstract specification,
`OrderedFrames`: a stream of frame indices of which each is at most one behind the
newest so far, any of them repeated. Assembly and decoder implement it
(`PushesInOrder`, `ShowsInOrder`, both proved), decoder and rings assume it of
their input (the guards of `PushData` in `VideoDecoder` and of `Store` in
`FramePairs`), so the three fit together although they are checked apart.

What comes before, the datagrams, is `Sockets`: it shows that a shard the assembly
keeps is not overwritten in its buffer. What comes after, the warp, is
`Presentation`: it shows that a texture given to the warp is not drawn into, and
`Surface` that the warp presents to the window there is.

`Connection` and `Handshake` meet in `connect_to_server`: `Connection` has its outcomes
only (an address fails, answers, or the user gives up), `Handshake` has its inside, and
`PinCheck` what `Handshake` takes for granted, that the check passes just when the PINs
are equal (`PinsAreCompared`, proved). `Camera` has the inside of the `cameraOn` of
`Presentation`. The microphone callback of `Audio` and the tracker of `Connection` both
use the session through a plain pointer; each model has the destruction of the session
as a step of its own. `EyeTracking` and `Presentation` share the edges of the stream and
of the sleep request: the first models what they do to the light, the second what they
do to the picture.

## 2. Modules

| module | models | proofs |
|---|---|---|
| `Connection` | connect, joiner, network and tracker threads | `ConnectionProofs` |
| `Handshake` | addresses, hello, PIN, encryption, stream socket | `NetworkProofs` |
| `PinCheck` | the five steps of `crypto::smp` on both sides | `NetworkProofs` |
| `Sockets` | control keystream and framing, batches of datagrams, poll loop | `SocketsProofs` |
| `OrderedFrames` | abstract: a stream of frames in order but for one | |
| `FrameAssembly` | shards to frames; implements `OrderedFrames` per stream | `NetworkProofs` |
| `VideoDecoder` | one decoder and its threads; implements `OrderedFrames` | `DevicesProofs` |
| `FramePairs` | rings of decoded frames, render thread's reading of them | `FramePairsProofs` |
| `Surface` | windows from the UI thread to EGL and the warp | `HeadsetProofs` |
| `Presentation` | rings of textures the warp samples, choice of the picture | `HeadsetProofs` |
| `Camera` | the camera's objects, started, stopped and drawn by two threads | `DevicesProofs` |
| `EyeTracking` | illuminator requests, worker, reader, uplink | `EyeTrackingProofs` |
| `Audio` | output ring, callbacks, recreation, destructor | `AudioProofs` |
| `Panel` | flags, buffers, drawing thread and upload of the lobby's panel | `HeadsetProofs` |
| `ServerLists` | the two copies of the saved servers and their synchronisation | `HeadsetProofs` |
| `Settings` | the settings and their file | `HeadsetProofs` |

`MC<Module>` instantiates a module for TLC, `MC<Module>_<question>.cfg` is one run.
`MCNetwork`, `MCHeadset` and `MCDevices` instantiate several parts that share no variable; see
section 3. Definitions headed "Variant:" stand before the definition they vary; each
is a plausible bug of that piece of code, used to see that a property can tell.
History variables are marked so in each `VARIABLES`; guards read them only for the
bounds and for the input a stage is promised.

**Connection.** Each of `CallConnect`..., `JoinerLocks`..., `StartsAttempt`... is one
access to shared state: `shutdown`, `user_initiated`, `connect_mutex`, the session,
the handles, the tracker's fields. `callPc` is a Java thread inside `nativeConnect`
or `nativeDisconnect`, `joinPc` a detached lambda of `try_connect`, `connPc` the
connect thread from `run_connect_loop` down, `netPc` the network thread with its
tail (tracker, session, reset). A `std::thread` assigned while joinable, the
process's end, is `fault`. The loop after the first attempt that `auto_reconnect`
would drive is unreachable: nothing sets the flag.

**Handshake.** `client` is the place of the connect thread in `connect_to_server` and
`handshake`, with one value for each of the four calls of `receive` and one for the
last loop (`wait`). `Awaiting` is the test of `shutdown` that `receive` makes before
its poll; the poll may last ten seconds more, so a packet can still be read after a
disconnect. The server follows the order of `tests/test_client.cpp`, answers the
hello with any state, and may stop or close anywhere. Keys are compared, not
computed: the PIN check passes when the PINs are equal.

**PinCheck.** `alice` (headset) and `bob` (server) are the members of `crypto::smp`,
`letter` the message on its way, and each of `step1` to `step5` is the function of that
name, all its checks included. The group is a parameter: `GroupAssumption` says that the
order is a prime and the generator a square, and the modulus is twice the order plus one,
as in the code, whose modulus is a safe prime of 1536 bits and whose generator is 2.
TLC takes the small group of that kind, the squares modulo 23, of order 11 and made by 2.
Exponents may be as large as the order and larger, as the code's are. The hash is any
function to the naturals; TLC's has few values, so it collides, which honest proofs must
not mind. That nobody can cheat is not the model's subject.

**Sockets.** A control packet is a sequence of units, the first its length; a unit
remembers the keystream position it was enciphered at, so an order that differs
between the two ends shows. `SendPackets`, `Lock`, `Encipher`, `Write` are
`TCP::send_raw` and `send_many_raw`, with `sendmsg` taking part of what is left.
`reading` is the place of `wivrn_session_pico::poll`: first what is pending on the
stream, then on the control connection, then one read of each readable socket.
`bufferSlots` is what is physically in the receive buffers, `holders` the packets
that point into them.

**FrameAssembly.** `ReceiveShard(s, f, i)` is `handle_video_shard` as a whole. Over UDP
any shard of a frame sent so far may come at any time, which is loss, repetition
and overtaking at once; over TCP `wire` is the next one. `Put`, `Complete`,
`HasTiming` are the shard-set methods; a frame is pushed by the shard that carries
`timing_info` only.

**VideoDecoder.** `input.at` and `output.at` are the places of the two loops between
lock, wait and codec calls, `callback` the image callback, `render` the five steps
of `flush`, `net` the network thread, whose last steps are the destructor.
MediaCodec is external: it has `Buffers` input buffers, decodes in the order it was
fed or (`Reorders`) not, and a flush returns all buffers and drops its contents. An
index handed out before a flush (`fresh = FALSE`) is refused afterwards.

**FramePairs.** `Store` and `Publish` are the two writes of `on_frame_decoded`, under
one mutex that the reader does not take. The loads of the render thread are steps of
their own: first `LookForFrame` and `Submit`, without whose frame of stream 0 nothing is
blitted; then the two indices of the gap between the streams, the test for a decoder and
`Flush`; then `Load0`, `Load1`, the frame of either eye, and the latest ones if there is
no pair. `Reset` empties the ring of one stream at a time, as `reset_stream_state` does,
and leaves the indices. `lag` and `ended` are history: what `Flush` is judged by.

**Surface.** `SurfaceChanged`, `SurfaceDestroyed`, `NativeStart`, `NativeStop`, `SetFov`
are calls of the UI thread; `refs` counts the references of the program on each
window. `Take` to `ResumeTracker` are the render thread's swap step by step, `Recover`
the retry of a failed surface, `FovPause` and `FovRePoint` the change of the field of
view. `tracking` is where the 300 Hz thread is between its test of `gTrackPaused` and
the return of the SDK call. The warp is external: the window it captured last, and
whether it is paused.

**Presentation.** An iteration of the render loop is `SleepEdge`, `StreamEdges`, then
`VideoPath` or `LobbyPath`, then `Submit`, the places where flags of other threads are
read. `held` are the textures the warp keeps, each with whether it still exists.
`lobbyFreeDelay` is the countdown after which a stream frees the lobby's ring.

**Camera.** `todo[t]` is what thread `t` still has to do: each object got or given back,
each eye drawn is a step, and the places that start, stop and draw the camera put the
steps there (`StreamTurns`: a stream whose size is not known yet does not stop it).
`OpenFails` leaves what a start has got so far. `overlap` is set when both
threads are inside `start`, `stop`, `draw` or the destructor at once: they race on plain
fields, and the model ends there.

**EyeTracking.** Requests go through three variables under one mutex, so a request is
one action; everything else is one access each. The `worker` survives the render
thread, as in the code, so `Restart` may find it in the middle of a call. A boot resets
the mode, then loads the settings (`BootLoads`), which may change the toggle. `Reapply`
is reached only while there is a surface (`NoReapply` is the other case).

**Audio.** The ring's two indices and the byte count are written and read one at a
time (`write`, `publish`, `count` on one side; `move`, `advance`, `uncount` on the
other), the count modulo `Wrap`. `worker` is `recreate_thread`, `err[k]` the error
callback of stream `k`. Memory used after it was freed is `fault`.

**Panel.** `canvas.at` and `upload.at` are the places of the drawing and of the render
thread; a buffer and the texture have two halves, so that a copy in progress shows. The
lock is held from `Render` to `GetPixels`; `SetFromNative` stands for the
`set...FromNative` methods, `DiscoveryResolves` for the view's own discovery, which does
not take the lock. `changing` is what has been changed and not yet marked.

**ServerLists.** `discovery` and `lobbyView` are the lists and stars of the two objects,
`prefs` and `disk` the preferences before and after `apply()` has written them.
`SyncServers` reads on the thread, `SetServersFromNative` merges on the UI thread.
Lists are sets: order, names and an entry added twice are left out.

**Settings.** Each thread goes through `OpenSave` (fopen truncates), `Format` once per
setting and `CloseSave` (fclose writes), or through `ReadFile`, `Apply` once per
setting and `Loaded`. `Set` stores a setting and saves on the UI thread; the field of
view is stored and flagged there (`StoreFov`, `RaiseFovDirty`) and saved by the render
thread when it comes to look (`TakeFovDirty`), which has its own load at each start
(`StartRender`, `StopRender`). `Die` is the end of the process at any point. The other
setting with a delayed save, the IPD (`render/render_thread.cpp:1910-1915`), is not in the
model: `gIpdDirty` is raised nowhere and only a load stores `gSoftIpdMm`.

## 3. What is checked

The bounds are `CONSTANT`s of each configuration. States are distinct states.

| run | states | question |
|---|---|---|
| `connection_safety` | 1.3 million | two callers, two connects, one disconnect, three joiners, two addresses |
| `connection_live` | 0.4 million | one caller, two connects, one disconnect, fair threads |
| `connection_error` | finds it | is the failure of the user's own click always reported? |
| `decoder_safety` | 8.8 million | decoder: three pushes of three frames, two flushes, two buffers, a reordering codec; camera: two switches, two launches, two failed starts |
| `decoder_lost` | finds it | does the input thread survive a flush? |
| `pairs_rings` | 6.9 million | five frames, five stores, two sessions, a gap of two |
| `eye_power` | 0.8 million | any four streams, toggles, doffs, readings, restarts |
| `network_parts` | 0.7 million | handshake, PIN check, sockets, audio, and frame assembly (two streams, one raw, frames of 1, 2 and 3 shards, two sessions, UDP and TCP) |
| `headset_parts` | 1.0 million | decoder, window, presentation, panel, saved servers and settings |
| `panel_buffers` | finds it | is a buffer never written while it is uploaded? |
| `lobby_ring` | finds it | is the lobby's ring long enough for the textures the warp keeps? |

`network_parts`, `headset_parts` and `decoder_safety` check several modules that share
no variable: in each behaviour one part, chosen at the start, moves and the others rest
in an initial state. So each part is checked on all its behaviours, and the states of
the parts add up instead of multiplying. Invariants hold of the parts at rest trivially
and of the one that moves as in a run of its own; a liveness property concerns the part
that moves.

Why the bounds are enough to be interesting:

* Two connects and one disconnect make all three joiners overlap; one click less and
  no joiner can meet another. Two addresses make the loop take its second turn.
* In the handshake, two addresses show what a PIN typed for the first does to the
  second; three PINs are the right one, a wrong one and none.
* In the PIN check two PINs, exponents 1, 6 and 11 (the order, for which the number sent
  is 1 and refused) and nonces 0 and 4 reach agreement, difference and refusal at each step.
* Three control packets of two units, two senders and writes of one unit or more reach
  every interleaving of two senders with a packet cut in two, and a read that ends
  inside a packet. Three datagrams, batches of two and three buffers let a batch come
  while a datagram of the one before is held.
* In assembly a set that is not emptied could be completed by the shards of another
  frame only if frames differ in length, hence 1, 2, 3 shards; five frames move both
  sets twice. Two sessions show what survives the first.
* In the decoder three frames are needed for one to be two behind, two flushes for a
  lost buffer to be recovered, two buffers for one to be lost and one to go on. For
  liveness two frames, one flush and one buffer are enough: the one buffer can be lost.
* Two switches turn the camera on and off again from either state; two failed starts show
  what a second one adds to the first, two launches what is left over from an object
  deleted.
* Five frames in a ring of three let the slot of a chosen frame be overwritten while
  the render thread is on its way to it; a gap of two (15 in the code) can be reached.
* Two windows, three callbacks, two starts: a window replaced before it was taken, one
  replaced while it is used, and one left over by the last start.
* The presentation is checked with a ring of three and a warp that keeps two (the code
  has five and four; the difference, one, is what the argument rests on), two streams,
  one doff and one don, one change of resolution or camera. `lobby_ring` has the real lengths.
* Two changes of the panel's view: one it may forget, one that it may be drawing.
* Two settings of three values, one saved where it is stored and one later, two changes and
  one death: a file can differ from either thread's view in either setting, and a change
  meet the saving of the one before. Two servers, one of them the placeholder.
* The ring of `Audio` works with one slot kept free, so two slots hold one packet and
  a second is refused. `MaxEvents = 2` lets two devices be lost together. With four
  slots, three packets and requests of two units the invariants hold too (2.9
  million states; not kept as a run).

### Properties

*Connection.* `HandlesNotOverwritten`: no interleaving ends in `std::terminate`.
`SessionBelongsToAttempt`, `CleanAttempt`, `JoinerResetsAlone`: neither session nor
decoders nor shards outlive the attempt they belong to, on every way out, and a
joiner that resets them is alone. `TrackerWithSession` bounds what goes wrong with the
tracker: only if the network thread loses the connection while the connect thread is
still starting the tracker does it end up with a dangling pointer or unstopped. This
does happen; the property says it needs exactly that. `DisconnectEnds` and
`CallReturns`: the last disconnect ends the connection, a caller is not blocked for
good, with the exceptions written in the formulas.

*Handshake.* `OkAgrees`: a reported connection is one the server is in, with the same
key, and pairing used the server's PIN. `HandshakeEnds`, checked with the sound's
`NobodyStuck` as `NobodyWaits`.

*PIN check.* `PinsCompared`: the verdict of either side is whether the PINs are equal,
for every choice of random numbers, and no proof of an honest side is refused; what can
be refused is a number that came out of range, which in the real group has no
practical chance.

*Sockets.* `KeystreamAligned`: what is on the wire can be deciphered by a peer that
reads in order, and packets are not torn. `HeldIntact`: a shard the assembly keeps is
the one that was received. `PacketsDelivered`: a packet that came with another in one
read is handled without waiting for a third.

*Frame assembly.* `WholeFrames`, `PushesInOrder` (refinement), `PushedWasSent`,
`FramesPushed`: over TCP every frame that is sent gets pushed, unless the session ends or
a newer frame was pushed before it. Over UDP nothing promises that a frame whose shards all
arrived is pushed: it is not if the last shard overtook another.

*Decoder.* `InfoKept` is one side of pruning `pending_frame_infos` from the front: what
is needed is there (the other, that the list stays short, is proved as
`InfosStayRecent`); `OneBufferLost` bounds what flushes cost; `ShowsInOrder`
(refinement); `NewestShown` and `DestroyReturns`, together `DecoderServes`, with the
races that defeat them as exceptions.

*Pairs.* `SlotsSuffice` says how much may happen during a read before three slots are too
few to pair the eyes (`PairedWhenClose`) and to leave none blank (`NeverBlank`);
`RingOfSession`. `FlushOnlyWhenBehind`: only a stream that has fallen behind in its own
session has its decoder flushed, although the indices of the last session are still
there. It rests on the look for a frame of stream 0, which an emptied ring does not
have, and fails without it; a session that ends between that look and the flush is the
one exception (section 5).

*Window.* `WindowsHeld`: the references taken for hand-overs are released once, by the
one who holds the window last, whatever is overtaken. `OneReadPerSwap`: how much the
pause flag, which is no handshake, lets through. `SurfaceShown`: a window that stays is
what the warp presents to, unpaused.

*Presentation.* `WarpUndisturbed`: the stream is never drawn into a texture the warp
samples, and the lobby's are not freed while it does. `LoopPictureFollows`: the warp gets
the stream when there is one to show, and the lobby when there is none.

*Camera.* `CameraOwned`: whatever the order of boots, doffs, streams and switches, the
camera is opened and given back once, has all its parts while it is on, is drawn from an
image that is still there, the same for both eyes, and a failed start loses one object of
each kind at most; unless the two threads meet.

*Panel.* `PanelFollows`: the picture on the panel does not stay behind the view and does
not stay torn. Both happen for a moment; every iteration of the render thread passes the
pointer on, on the panel or off, and that is what brings the next drawing.

*Eye tracking.* `LatestWins`, `Reevaluated` (no request and no toggle is lost),
`StaleNeedsOverlap`, `LightSettles` (dark in the end when nobody wants the gaze, lit when
a stream stays).

*Audio.* `NetworkTypeOK` contains by how much exactly the byte count may be off and when;
`HeardInOrder`; `OverlapNeeded` and `NobodyStuck` say which overlaps make the streams'
threads use freed memory, wait for each other or lose track of the microphone.

*Servers and settings.* `ServersShown`: the lobby shows what the discovery goes on
knowing. `FileFollows`: when nobody saves or loads, the file is what is in memory, but
for a field of view whose flag is raised or about to be, and unless the two threads have
met since the last save that one of them did alone or the last start. Both happen. A death during a
save leaves an empty file, which the next start reads as the defaults: file and memory
agree, and every setting is lost.

### Fairness

Weak fairness only, on threads that are inside a call or a loop; never on the user,
the server, or a datagram. `Connection`: every thread that has begun goes on, and a
mutex waiter finds the mutex free for good in the end, since there are finitely many
joiners. `EyeTracking`: render loop, worker and the end of a stream reset that has
begun. Its one strong fairness is on the re-apply of a toggle, which needs an EGL surface:
a headset that is worn and does not stream has one again and again, or nothing is shown.

`MCNetwork` and `MCHeadset` state theirs as numbered conditions, `Fair(k)`: as the
part that moves is fixed, one condition of the specification serves a thread of each
part. Handshake: the connect thread, and deadlines that pass. Audio: callbacks of a
started stream (AAudio keeps calling it) and threads. Sockets: the network thread and
the senders. Assembly: what was sent over TCP arrives, and the server describes its
streams. Decoder: its threads, and a codec that decodes what it has. Window: render
and tracking thread. Presentation: the render loop. Panel: drawing and
render thread, and a mark that follows a change. Servers: the two halves of the
synchronisation. Settings have no liveness property, and neither has the run of
`MCDevices`.

`CHECK_DEADLOCK FALSE` is set where the system really may stop: no user acts
(Connection), the decoder is destroyed, the headset rests (EyeTracking), the part that
moves has ended (MCNetwork, MCHeadset: the attempt is over, the audio object is gone,
everything sent has arrived, the last session is over, the app is stopped; MCDevices:
the decoder is destroyed, or threads have met in the camera). `FramePairs` has a render
thread that never stops, and its runs check for deadlock.

## 4. What is proved

The proof modules hold for every value of the constants under the named `ASSUME`s of
the modules. Each component has an inductive invariant, lemmas for its parts, and in
each lemma one step per action.

| component and theorems | invariant and why it is needed |
|---|---|
| Connection, `ConnectionProofs`: `TypeCorrect`, `NoTerminate`, `SessionScoped`, `ResetsAlone`, `AttemptsClean`, `NoStaleError`, `TrackerScoped` | `TypeOK /\ Locking /\ Phases /\ TrackerPhases`. A handle is empty when it is assigned because only the holder of `connect_mutex` joins and assigns (`Locking`), and because the connect thread assigns `network_thread` only before it waits for it (`Phases`: which places of connect and network thread go together, and with which session). `TrackerPhases` is the same for the tracker and is conditional on `overlap`. |
| Handshake, `NetworkProofs`: `HandshakeTypeCorrect`, `Agreement` | `TypeOK /\ Dialogue /\ Knowledge`. The exchange is a lockstep: for each place of the client, where the server can be and the only packet that may be under way (`Dialogue`, in the phases `Greeting`, `PairingTalk`, `Securing`, `Datagrams`), and what keys and PIN both then hold (`Knowledge`). |
| PIN check, `NetworkProofs`: `PinsAreCompared`, `PinTypeCorrect` | `PinInv`: every number in a message is a power of the generator whose exponent is known from what both sides have drawn, one conjunct for each step. Then proofs are equations between exponents modulo the order, each side's check of an honest proof succeeds, and what is compared in the end is 1 just if the order divides the product of the difference of the PINs and exponents that are not 0; as the order is a prime, just if the PINs are equal (`Compared`). It does not rest on the modulus being a prime. |
| Sockets, `SocketsProofs`: `KeystreamInStep`, `HeldNotOverwritten`, `SocketsTypeCorrect` | `ControlTypes /\ Apart /\ UnderWay`. What is read and not delivered, on the wire, and still to be written by the holder of the lock is one sequence (`Stream`): it consists of whole packets and has consecutive positions of the keystream. A partial write or read only moves a border inside of it. Who waits for the lock has packets that are in no one else's hands. `BuffersInv` says that a buffer that is read into has no holder left. |
| Frame assembly, `NetworkProofs`: `AssemblyTypeCorrect`, `OnlyWholeFrames`, `OnlySentFrames`, `LateByOne`, `Implements`, `FramesAreKept` | `SetTypes /\ Gathered /\ WholeFrames /\ PushWindow`. A set holds shards of its own frame only, none past its last (`Gathered`); the two sets of a stream stand at consecutive frames and no push has passed them (`PushWindow`). `Implements` and `FramesAreKept` need stream 0 to have a decoder: otherwise every description empties the sets in mid-session. `OnlySentFrames` adds that outside a session nothing is described (`SentInv`): the next one starts with empty sets. `FramesAreKept` is the action half of `FramesPushed` and adds that over TCP no set has passed the shard read next (`WireInv`). |
| Audio, `AudioProofs`: `AudioTypeCorrect`, `PacketsInOrder`, `OverlapIsNeeded` | `RingInv`: the numbers of the packets rise along the ring, from the one heard last. `LifeInv`: while nothing has overlapped, who may be in a stream's hands at each place of its recreation and of the destructor, and whether the microphone runs as its flag says. `Counted`: the byte count is the sum of the sizes in the ring, up to the step a thread is in. |
| Decoder, `DevicesProofs`: `TypeCorrect`, `InfosStayRecent`, `InfosKept`, `InOrder`, `BuffersRecovered`, `Implements` | `Stages` says that each stage only holds frames that were sent, and that what is shown, imaged and pushed come in this order; `Order` how the list of infos is sorted up to one swap and what pruning has left; `Taken` counts codec buffers through the steps of a flush. |
| Camera, `DevicesProofs`: `CameraIsOwned` | `CamInv`: until both threads have been in the camera at once, one of them at most is inside it, and the step it is about to do (`PlaceOf`) says what is open (`Objects`): while the camera is on, all its parts but those already closed; while it is off, those opened so far. Every other object was left behind by a failed start, so of each kind there are at most as many as starts have failed, which is a count of sets (`Counted`) and needs the facts on cardinality of the library. `Images`: the image kept is in both textures, or will be before it is drawn. |
| Pairs, `FramePairsProofs`: `TypeCorrect`, `RingsScoped`, `ThreeSlotsSuffice`, `BehindWhenFlushed` | `TypeOK`, whose part on slots says that a frame is in its own slot only, then `RingOfSession` is inductive. `ThreeSlotsSuffice` needs `Filled` (the last three frames of a stream that delivers frame by frame are in its ring), `Fresh` (an index the render thread has loaded is as old as the frames stored since make it, no older) and what it has found with them (`Paired`, `Shown`). `BehindWhenFlushed` is inductive with `IndexOfSession` (a stream that has published has an index of this session) and `OnTheWay`: a frame found in the emptied ring was published since, so from the look to the flush the index of stream 0 is not one of the last session; that of stream 1 is one only while the stream has published nothing, and then it is behind. |
| Window, `HeadsetProofs`: `SurfaceTypeCorrect`, `NoWindowLost`, `OneLateRead` | `SurfaceTypeOK /\ References /\ LastRead`. Each place that holds a window counts for one reference; two places hold the same one only after a size change (`OwnedOnce`), and the render thread has one in its hands only on its way to the swap (`TakenInSwap`). A read counted while paused was one whose test came before (`LastRead`). |
| Presentation, `HeadsetProofs`: `PresentationTypeCorrect`, `WarpNotDisturbed` | `LoopTypes /\ RecentSlots /\ Countdown`. A texture the warp still has was drawn at most as many draws ago as it was followed by others (`RecentSlots`), so a ring longer than the warp's does not come round to it; since the countdown began every step of it submitted a texture of the stream (`Countdown`), so at its end none of the lobby's is left, unless the loop ran empty (`starved`). |
| Settings, `HeadsetProofs`: `SettingsTypeCorrect`, `NoSettingLost` | `SettingsInv`: until the threads meet one at most loads or saves (`KeptApart`), how far it is says how far file, text and settings agree (`Progress`), and when nobody does they agree in all but a field of view that is flagged (`Agreement`). A save by one thread alone restores this after a meeting. |
| Panel, servers, `HeadsetProofs`: `PanelTypeCorrect` | `PanelInv`: what the buffers hold, in whichever halves, was drawn from the view at some time. `ServersInv` adds to the types what both have discovered. |
| Eyes, `EyeTrackingProofs`: `TypeCorrect`, `RequestsCoalesce`, `NothingLost`, `StaleGaze` | `WorkerType`, `NotAsked`, `Handled`, `Followed`, `Forgotten`, `ReaderUp`: what the worker still owes at each of its places, so that nothing is owed when it rests. |
| Compositions, `NetworkProofs`: `PartsOfTheNetwork`, `NetworkTypeCorrect`; `HeadsetProofs`: `HeadsetTypeCorrect` | A behaviour of `MCNetwork` is one of each of its parts, since a step of one leaves the others' variables alone (`EachPart`); so what is proved of the parts holds of the composition, its type invariant first. `MCHeadset` likewise. |

`InOrder` and `LateByOne` are the abstract promise as invariants; `NoStaleError` says
that no connection error is displayed while packets are received. The theorems are about
the modules' own specifications, of which the composite runs check the same formulas.

Assumptions beyond the ranges of the constants: the group of the PIN check
(`GroupAssumption`, section 2); a `Wrap` greater than what the ring can hold
(`AudioAssumption`; the code counts in a `size_t`); a ring of the presentation longer than the
warp's; `MaxUpdates` not 0 (`PanelAssumption`), since the view counts as changed once.

Induction. The induction theorems of the library take an operator as a parameter and
cannot be used. Two proofs need induction all the same: the byte count of `Audio`, which
is a sum along the ring, and the laws of powers in `PinCheck`. Both state it for a set of
naturals: if 0 is in it, and n + 1 whenever n is, every natural is (`Induction`). That
follows from every set of naturals having a least element (`Least`), a lemma proved from
the well-foundedness of the order on the naturals. The sum and the power are recursive
functions, of which `Recursion` says that they are what they are defined to be.

What proving found:

* `Audio`: a send of the microphone that fails while the network thread is between
  setting `mic_running` and asking the stream clears the flag again, and the stream is
  asked all the same. Flag and stream then disagree, and the callback may have ended
  before the stream is asked, so that neither half of the request saw it ending. It
  takes more events than the run's `MaxEvents = 2`; the invariant did not go through.
  The model now counts it among the overlaps (`"toggle"`).
* `PinCheck`: nothing depends on the modulus being a prime or on the hash being free of
  collisions; agreement of honest sides depends on the order being one.

The type invariants are proved and not repeated by the runs, but for `NetworkTypeOK`,
which bounds the byte count. Every invariant of the passing runs follows from a theorem, and so do the refinements and
the action properties that ask for no fairness. Only model-checked: what must happen in
the end (`CallReturns`, `DisconnectEnds`, `DecoderServes`, `NobodyWaits`,
`PacketsDelivered`, the second half of `FramesPushed`, `SurfaceShown`,
`LoopPictureFollows`, `PanelFollows`, `ServersShown`, `LightSettles`), since the prover
does not reason about fairness or `ENABLED`; and that the code does otherwise than its
comments say (section 5).

## 5. Where the code does not do what it says

Four runs show a disagreement with a comment of the code; `findings` in
`PROJECT.json` quotes it.

* `connection_error`: the connect thread that ends stores `user_initiated = false`
  (`streaming/streaming_client.cpp:989`) although the user has clicked again since;
  the failure of that click is not shown.
* `decoder_lost`: `input_loop` reads `flushing` twice, in the predicate of its wait and
  after it (`wivrn/video/pico_decoder.cpp:313,316`); a flush that ends in between makes
  it take the first of no frames.
* `lobby_ring`: five slots for a warp that keeps four would do if the slot just drawn
  were submitted; the lobby submits the one before (`render/render_thread.cpp:3203`),
  so it draws into the oldest texture the warp keeps, against the comment at line 186.
* `panel_buffers`: the buffer just uploaded from becomes the back buffer of the next
  drawing (`VrUiPanel.java:117`), against the comment at line 32; the third buffer is
  never used, so an upload may take half of each of two pictures.

Met while modelling, in the models, and excluded by an explicit condition of a property
or described here only:

* Tracker: started after the network thread has already cleaned up, it runs with a
  dangling session and nobody stops it (`overlap` in `Connection`).
* Decoder: the destructor notifies without the mutex, so the input thread may wait for
  ever (`missed`); an image may come before `frame_completed` has recorded its info
  (`early`) and is dropped.
* Pairs: when the rings do not both have the chosen frame, each eye gets its latest
  (`streaming/wivrn_stream_adapter.cpp:70`), so the eyes may differ, though the comment
  at line 185 speaks of the same frame. `reset_stream_state` leaves
  `latest_decoded_frame_index_per_stream` (`streaming/streaming_client.cpp:476`): when a
  session ends after the render thread has looked for a frame of stream 0, the gap may be
  taken between indices of two sessions and a decoder that is not behind be flushed (`ended`).
* Eyes: a toggle applied while the headset is off leaves the stream dark until the next
  edge (`render/render_thread.cpp:1788`, `core/eye_tracking.cpp:22`); a reading under
  way when the worker forgets the gaze brings it back (`eye_tracking.cpp:56,100`); a
  gaze the service calls invalid is sent as valid (`streaming/pvr_eye_bridge.cpp:50`
  against `eye_tracking.cpp:128`).
* Audio: a packet is published before it is counted, and a callback in between wraps
  the count and skips all that waits (`wivrn/audio/pico_audio.cpp:267`);
  `recreate_stream` and the destructor join `recreate_thread` while they hold the mutex
  it takes first (176-182, 253-255); the destructor closes copies of the streams
  without the mutex (242); the session is deleted before the microphone that sends
  through it is closed (`streaming_client.cpp:588`); a recreated microphone waits for
  the next request (169).
* Handshake: `pairing_pin` is never cleared, so a wrong PIN is used again without asking
  (`streaming_client.cpp:640`); the flag that `requestPinEntryUI` raises is read by
  nobody, so the pad never opens by itself; the last loop takes any readable socket for
  the server's handshake (`wivrn/net/wivrn_client_pico.cpp:234`) and does not look at
  `shutdown`.
* Sockets: a comment says that a datagram too small to be deciphered is dropped, the code
  throws, which ends the session (`wivrn/common/wivrn_sockets.cpp:334-336`; not in the
  model, whose datagrams all come from the server).
* Window: a size change of a window in use takes a reference that nobody releases
  (`handed`); the surface made by the retry of a failed one is never given to the warp
  (`render/render_thread.cpp:1798-1812`, `failed`); at exit the surface is destroyed under a
  warp that was not paused.
* Presentation: a stream whose first shard overtakes its description is not followed
  until the next session (`render/render_thread.cpp:1954-1964`, `missedStart`); the
  lobby's textures are freed after a fixed number of iterations even if none of them
  submitted anything (`starved`); putting the headset on starts the camera even when
  streaming or when it is switched off, and a stream that starts while the headset is
  off sets `gStreaming` anyway.
* Panel: the view's discovery changes what is drawn without the lock that serializes
  drawing and changes (`VrUiPanel.java:44`), and a change that comes between drawing and
  `markClean` is forgotten until something else marks the view.
* Camera: two threads start and stop it without a lock (`render/passthrough.cpp:323`,
  `core/jni.cpp:555`, `overlap`); a start that fails half-way keeps what it opened, the next
  one overwrites it, and the destructor does not give it back since the camera is not on;
  the retry in `draw` (line 446) is never reached, since `draw` is only called with the
  camera on.
* Servers: a server deleted in the lobby comes back with the next synchronisation, which
  `ServerDiscovery.java:188` takes care to prevent for a deletion on its own side; an
  intent overwrites the list and the star saved by the lobby.
* Settings: a migration removes the old files before it saves the new one; two threads
  save at once and the file may keep what one of them had formatted before the other stored
  (`disturbed` in `Settings`). A field of view that has been stored and flagged is not in
  the file yet: the process may die before the render thread comes to save it, and a load
  of the next render thread puts the old one back. A setting stored while that thread loads
  (`render/render_thread.cpp:1592`) may be put back in memory likewise.
* Not in a model: `recenter_height` is meant to keep the eye height across a reset of the
  sensors (`core/jni.cpp:65-68`), but `floor_relative` is set at start
  (`render/render_thread.cpp:1580`), and then the height is not added
  (`wivrn/tracking/pico_tracking.cpp:702`). `gSleepReq` keeps its value across restarts of the
  render thread.

## 6. What is not modelled

* **Cryptography** (`wivrn/common/crypto.cpp`, `secrets.cpp`): calls into OpenSSL. The
  models use what the code does with their results: a unit can be deciphered at the
  position of the keystream it was enciphered at.
* **Packets and serialization** (`wivrn_packets.h`, `wivrn_serialization.h`): templates
  over byte buffers without state; the packets that matter are records of the models.
* **The tracker's arithmetic** (`wivrn/tracking/pico_tracking.cpp`): poses, prediction,
  filters, recentring, battery. Sequential numerical code of one thread; what it shares
  with others, the pause flag, the session, the gaze, is in `Surface`, `Connection` and
  `EyeTracking`.
* **Latency tracker and stutter statistics**: numbers for the diagnostics overlay that
  nothing depends on.
* **Drawing** (`render/lobby.cpp`, `render/menu_model.cpp`, `ui/`, shaders, foveation,
  the warp's projection): OpenGL calls and hit tests of one thread. The views of
  `WivrnLobbyView` are only what `Panel` counts; attaching and detaching the panel and
  the overlay that shows diagnostics alone, which passes no touches on, are left out.
* **Camera's shaders and mesh** (`render/passthrough.cpp:34-244`): built once, from a file
  of the headset. Its callbacks are empty.
* **Code nothing calls**: `streaming/pvr_renderer.cpp`, the drawing and clicking of
  `ui/server_list.cpp`, `onConnectionStateChanged` and `requestPinEntry` of
  `MainActivity`, `src/common/wivrn_sockets.cpp` (another copy, outside the build).
* **Third-party code**: `vk_mem_alloc.h`, the OpenXR headers, `stb_image.h`. They are
  more than half of the lines of the tree.
* **Errors of the system**: a `tracker.start()` that throws because no thread can be had
  (the catch block would then wait for a network thread nobody stops,
  `streaming/streaming_client.cpp:969`); a send that fails, after which the session ends: for
  what is claimed about the keystream that is a run in which nobody writes any more, but one
  interrupted after the keystream has advanced (`EINTR`, `wivrn/common/wivrn_sockets.cpp:566`)
  is not covered; a decoded image without a hardware buffer, which is dropped
  (`wivrn/video/pico_decoder.cpp:603`). An audio stream that cannot be reopened is null in
  `Audio`, and calls on it are taken to be refused.
* **Undefined behaviour**: a call on an object another thread has deleted (a decoder flushed
  while it is destroyed, `streaming/wivrn_stream_adapter.cpp:180`; a codec deleted before its
  threads are joined, `wivrn/video/pico_decoder.cpp:276`), a pointer read while it is
  assigned (the session, `core/jni.cpp:512`). Where the code guards against it a property says that the guard
  holds; where it does not, the models make test and use one step, or record a `fault`.

## 7. What could come next

1. The steps that liveness rests on, as action properties with proofs: which step a
   thread that waits is waiting for, and that it stays enabled until it is taken
   (`NobodyWaits`, `PacketsDelivered`, `DecoderServes`).
2. Recentring and the state the tracker keeps over a loss of the session, if its
   arithmetic is abstracted to which of the references a pose is relative to.
3. One composition of `Connection` and `Presentation`: `gStreaming` and the session are
   written by different threads, and the two models meet only through the bounds of each.
