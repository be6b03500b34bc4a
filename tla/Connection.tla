----------------------------- MODULE Connection -----------------------------
(***************************************************************************)
(* The life cycle of a connection: streaming_client::try_connect, its      *)
(* detached joiners, run_connect_loop (the connect thread), network_loop   *)
(* (the network thread), the start and stop of the tracking thread, and    *)
(* the JNI entry points nativeConnect and nativeDisconnect.                *)
(*                                                                         *)
(* Every action is one access to shared state, so the interleavings are    *)
(* those of the threads.  The server, the handshake and the sockets are    *)
(* reduced to their outcomes.  auto_reconnect is never set to true by the  *)
(* code, so the retry loop that follows the first attempt never runs and   *)
(* has no action here.                                                     *)
(***************************************************************************)
EXTENDS Naturals, FiniteSets

CONSTANTS Callers,         \* Java threads that call the JNI entry points
          Joiners,         \* identities for the detached std::threads
          Addresses,       \* addresses getaddrinfo returns at most
          MaxConnects,     \* bound on the calls of nativeConnect
          MaxDisconnects   \* bound on the calls of nativeDisconnect

ASSUME CallersAssumption == IsFiniteSet(Callers) /\ IsFiniteSet(Joiners)
ASSUME CountsAssumption ==
    Addresses \in Nat \ {0} /\ MaxConnects \in Nat /\ MaxDisconnects \in Nat
ASSUME DistinctAssumption == Callers \cap Joiners = {}

NoOne == "nobody"
ASSUME NoOneAssumption == NoOne \notin Callers \cup Joiners

VARIABLES
    shutdown,         \* streaming_client::shutdown
    user_initiated,   \* streaming_client::user_initiated
    nativeConnecting, \* MainActivity.nativeConnecting, mirror of gConnecting
    connect_mutex,    \* holder of connect_mutex
    last_error,       \* last_error is not empty
    banner,           \* the text of gConnectionError: none, empty, text
    session,          \* the unique_ptr session is not null
    sockUp,           \* the session's control socket still works
    dirty,            \* stream state (decoders, shards, frames) is in use
    callPc,           \* progress of each caller
    joinPc,           \* progress of each detached joiner
    joinKind,         \* what the joiner does after the joins
    connPc,           \* progress of the connect thread; "none": not joinable
    addrLeft,         \* addresses not tried yet by connect_to_server
    trkGot,           \* session.get() as read by the connect thread
    netPc,            \* progress of the network thread
    trkThread,        \* tracker.thread
    trkRunning,       \* tracker.running
    trkSession,       \* tracker.session: null, live or dangling
    fault,            \* std::terminate, by the handle assigned while joinable
    connects, disconnects,  \* calls made so far
    overlap,          \* history: a clean-up began before the start-up ended
    clicked,          \* history: the last call is a click on Connect
    fresh             \* history: the connect thread started after that call

flags    == <<shutdown, user_initiated, nativeConnecting>>
errors   == <<last_error, banner>>
sess     == <<session, sockUp, dirty>>
callers  == <<callPc, connects, disconnects>>
joiners  == <<joinPc, joinKind>>
conn     == <<connPc, addrLeft, trkGot>>
tracker  == <<trkThread, trkRunning, trkSession>>
history  == <<overlap, clicked, fresh>>
vars == <<flags, connect_mutex, errors, sess, callers, joiners, conn, netPc,
          tracker, fault, history>>

CallPcs == {"idle", "setUser", "setConnecting", "lock", "check", "stop",
            "dUser", "dStop", "dSpawn"}
JoinPcs == {"unused", "lock", "joinConn", "joinNet", "reset", "clear",
            "start", "done"}
ConnPcs == {"none", "start", "resolve", "addr", "handshake", "drop", "failed",
            "report", "hello", "spawnNet", "trkGet", "trkSet", "trkStart",
            "trkSpawn", "join", "catch", "catchTrk", "catchJoin", "catchEnd",
            "tailConnecting", "tailUser", "exited"}
NetPcs == {"none", "check", "poll", "end", "trkNull", "trkStop", "trkJoin",
           "sessReset", "reset", "exited"}
Pointers == {"null", "live", "dangling"}

-----------------------------------------------------------------------------
Init ==
    /\ shutdown = FALSE /\ user_initiated = FALSE /\ nativeConnecting = FALSE
    /\ connect_mutex = NoOne
    /\ last_error = FALSE /\ banner = "none"
    /\ session = FALSE /\ sockUp = FALSE /\ dirty = FALSE
    /\ callPc = [c \in Callers |-> "idle"]
    /\ connects = 0 /\ disconnects = 0
    /\ joinPc = [j \in Joiners |-> "unused"]
    /\ joinKind = [j \in Joiners |-> "reconnect"]
    /\ connPc = "none" /\ addrLeft = 0 /\ trkGot = "null"
    /\ netPc = "none"
    /\ trkThread = "none" /\ trkRunning = FALSE /\ trkSession = "null"
    /\ fault = "no"
    /\ overlap = FALSE /\ clicked = FALSE /\ fresh = FALSE

\* A pointer taken from session.get() once the session has been destroyed.
Destroyed(p) == IF p = "live" THEN "dangling" ELSE p

\* session.reset(): every copy of the pointer that is left dangles.
DestroySession ==
    /\ session' = FALSE /\ sockUp' = FALSE
    /\ trkGot' = Destroyed(trkGot)
    /\ trkSession' = Destroyed(trkSession)

\* connect_thread = std::thread(...): the assignment terminates the process
\* when the handle still owns a thread.
StartConn ==
    IF connPc = "none"
    THEN connPc' = "start" /\ fresh' = TRUE /\ UNCHANGED fault
    ELSE fault' = "connect_thread" /\ UNCHANGED <<connPc, fresh>>

\* ::shutdown(session->get_control_fd()) when there is a session.
CutSocket == sockUp' = (sockUp /\ ~session)

\* std::thread(...).detach() of a lambda that starts by locking the mutex.
Spawn(kind) ==
    \E j \in Joiners :
        /\ joinPc[j] = "unused"
        /\ joinPc' = [joinPc EXCEPT ![j] = "lock"]
        /\ joinKind' = [joinKind EXCEPT ![j] = kind]

-----------------------------------------------------------------------------
(* JNI entry points *)

\* nativeConnect up to the first store.  onServerConnect refuses while
\* nativeConnecting; flushPendingConnection (an intent) does not ask.
CallConnect(c, byClick) ==
    /\ callPc[c] = "idle" /\ connects < MaxConnects
    /\ byClick => ~nativeConnecting
    /\ connects' = connects + 1
    /\ shutdown' = FALSE
    /\ clicked' = byClick /\ fresh' = FALSE
    /\ callPc' = [callPc EXCEPT ![c] = "setUser"]
    /\ UNCHANGED <<user_initiated, nativeConnecting, connect_mutex, errors, sess,
                   disconnects, joiners, conn, netPc, tracker, fault, overlap>>

SetUserInitiated(c) ==
    /\ callPc[c] = "setUser"
    /\ user_initiated' = TRUE
    /\ callPc' = [callPc EXCEPT ![c] = "setConnecting"]
    /\ UNCHANGED <<shutdown, nativeConnecting, connect_mutex, errors, sess,
                   connects, disconnects, joiners, conn, netPc, tracker, fault,
                   history>>

ShowConnecting(c) ==
    /\ callPc[c] = "setConnecting"
    /\ nativeConnecting' = TRUE
    /\ callPc' = [callPc EXCEPT ![c] = "lock"]
    /\ UNCHANGED <<shutdown, user_initiated, connect_mutex, errors, sess,
                   connects, disconnects, joiners, conn, netPc, tracker, fault,
                   history>>

\* try_connect
LockTry(c) ==
    /\ callPc[c] = "lock" /\ connect_mutex = NoOne
    /\ connect_mutex' = c
    /\ callPc' = [callPc EXCEPT ![c] = "check"]
    /\ UNCHANGED <<flags, errors, sess, connects, disconnects, joiners, conn,
                   netPc, tracker, fault, history>>

StartFirst(c) ==
    /\ callPc[c] = "check" /\ connPc = "none"
    /\ StartConn
    /\ connect_mutex' = NoOne
    /\ callPc' = [callPc EXCEPT ![c] = "idle"]
    /\ UNCHANGED <<flags, errors, sess, connects, disconnects, joiners, addrLeft,
                   trkGot, netPc, tracker, overlap, clicked>>

StopPrevious(c) ==
    /\ callPc[c] = "check" /\ connPc # "none"
    /\ shutdown' = TRUE
    /\ callPc' = [callPc EXCEPT ![c] = "stop"]
    /\ UNCHANGED <<user_initiated, nativeConnecting, connect_mutex, errors, sess,
                   connects, disconnects, joiners, conn, netPc, tracker, fault,
                   history>>

DetachReconnect(c) ==
    /\ callPc[c] = "stop"
    /\ CutSocket
    /\ Spawn("reconnect")
    /\ connect_mutex' = NoOne
    /\ callPc' = [callPc EXCEPT ![c] = "idle"]
    /\ UNCHANGED <<flags, errors, session, dirty, connects, disconnects, conn,
                   netPc, tracker, fault, history>>

\* nativeDisconnect; onDisconnectRequested clears nativeConnecting first.
CallDisconnect(c) ==
    /\ callPc[c] = "idle" /\ disconnects < MaxDisconnects
    /\ disconnects' = disconnects + 1
    /\ nativeConnecting' = FALSE
    /\ shutdown' = TRUE
    /\ clicked' = FALSE
    /\ callPc' = [callPc EXCEPT ![c] = "dUser"]
    /\ UNCHANGED <<user_initiated, connect_mutex, errors, sess, connects, joiners,
                   conn, netPc, tracker, fault, overlap, fresh>>

ClearUserInitiated(c) ==
    /\ callPc[c] = "dUser"
    /\ user_initiated' = FALSE
    /\ callPc' = [callPc EXCEPT ![c] = "dStop"]
    /\ UNCHANGED <<shutdown, nativeConnecting, connect_mutex, errors, sess,
                   connects, disconnects, joiners, conn, netPc, tracker, fault,
                   history>>

CutOnDisconnect(c) ==
    /\ callPc[c] = "dStop"
    /\ CutSocket
    /\ callPc' = [callPc EXCEPT ![c] = "dSpawn"]
    /\ UNCHANGED <<flags, connect_mutex, errors, session, dirty, connects,
                   disconnects, joiners, conn, netPc, tracker, fault, history>>

DetachDisconnect(c) ==
    /\ callPc[c] = "dSpawn"
    /\ Spawn("disconnect")
    /\ callPc' = [callPc EXCEPT ![c] = "idle"]
    /\ UNCHANGED <<flags, connect_mutex, errors, sess, connects, disconnects,
                   conn, netPc, tracker, fault, history>>

CallerNext(c) ==
    \/ \E byClick \in BOOLEAN : CallConnect(c, byClick)
    \/ CallDisconnect(c)
    \/ SetUserInitiated(c) \/ ShowConnecting(c) \/ LockTry(c) \/ StartFirst(c)
    \/ StopPrevious(c) \/ DetachReconnect(c)
    \/ ClearUserInitiated(c) \/ CutOnDisconnect(c) \/ DetachDisconnect(c)

-----------------------------------------------------------------------------
(* The detached joiners *)

\* Variant: the joiner does not take connect_mutex.
JoinerSkipsLock(j) ==
    /\ joinPc[j] = "lock"
    /\ joinPc' = [joinPc EXCEPT ![j] = "joinConn"]
    /\ UNCHANGED <<flags, connect_mutex, errors, sess, callers, joinKind, conn,
                   netPc, tracker, fault, history>>

JoinerLocks(j) ==
    /\ joinPc[j] = "lock" /\ connect_mutex = NoOne
    /\ connect_mutex' = j
    /\ joinPc' = [joinPc EXCEPT ![j] = "joinConn"]
    /\ UNCHANGED <<flags, errors, sess, callers, joinKind, conn, netPc, tracker,
                   fault, history>>

\* Variant: the old connect thread is not joined.
JoinConnSkipped(j) ==
    /\ joinPc[j] = "joinConn"
    /\ joinPc' = [joinPc EXCEPT ![j] = "joinNet"]
    /\ UNCHANGED <<flags, connect_mutex, errors, sess, callers, joinKind, conn,
                   netPc, tracker, fault, history>>

JoinConn(j) ==
    /\ joinPc[j] = "joinConn" /\ connPc \in {"none", "exited"}
    /\ connPc' = "none"
    /\ joinPc' = [joinPc EXCEPT ![j] = "joinNet"]
    /\ UNCHANGED <<flags, connect_mutex, errors, sess, callers, joinKind,
                   addrLeft, trkGot, netPc, tracker, fault, history>>

\* Variant: join() without asking joinable().
JoinNetUnchecked(j) ==
    /\ joinPc[j] = "joinNet" /\ netPc = "exited"
    /\ netPc' = "none"
    /\ joinPc' = [joinPc EXCEPT ![j] = "reset"]
    /\ UNCHANGED <<flags, connect_mutex, errors, sess, callers, joinKind, conn,
                   tracker, fault, history>>

JoinNet(j) ==
    /\ joinPc[j] = "joinNet" /\ netPc \in {"none", "exited"}
    /\ netPc' = "none"
    /\ joinPc' = [joinPc EXCEPT ![j] = "reset"]
    /\ UNCHANGED <<flags, connect_mutex, errors, sess, callers, joinKind, conn,
                   tracker, fault, history>>

JoinerResets(j) ==
    /\ joinPc[j] = "reset"
    /\ DestroySession
    /\ dirty' = FALSE
    /\ joinPc' = [joinPc EXCEPT ![j] = "clear"]
    /\ UNCHANGED <<flags, connect_mutex, errors, callers, joinKind, connPc,
                   addrLeft, netPc, trkThread, trkRunning, fault, history>>

\* shutdown = false; the joiner of nativeDisconnect ends here.
JoinerClears(j) ==
    /\ joinPc[j] = "clear"
    /\ shutdown' = FALSE
    /\ IF joinKind[j] = "disconnect"
       THEN joinPc' = [joinPc EXCEPT ![j] = "done"] /\ connect_mutex' = NoOne
       ELSE joinPc' = [joinPc EXCEPT ![j] = "start"] /\ UNCHANGED connect_mutex
    /\ UNCHANGED <<user_initiated, nativeConnecting, errors, sess, callers,
                   joinKind, conn, netPc, tracker, fault, history>>

JoinerStarts(j) ==
    /\ joinPc[j] = "start"
    /\ StartConn
    /\ joinPc' = [joinPc EXCEPT ![j] = "done"]
    /\ connect_mutex' = NoOne
    /\ UNCHANGED <<flags, errors, sess, callers, joinKind, addrLeft, trkGot,
                   netPc, tracker, overlap, clicked>>

JoinerNext(j) ==
    \/ JoinerLocks(j) \/ JoinConn(j) \/ JoinNet(j)
    \/ JoinerResets(j) \/ JoinerClears(j) \/ JoinerStarts(j)

-----------------------------------------------------------------------------
(* The connect thread: run_connect_loop and connect_to_server *)

ConnGo(from, to) == connPc = from /\ connPc' = to

ConnStart ==
    /\ ConnGo("start", "resolve")
    /\ nativeConnecting' = TRUE
    /\ last_error' = FALSE
    /\ UNCHANGED <<shutdown, user_initiated, connect_mutex, banner, sess, callers,
                   joiners, addrLeft, trkGot, netPc, tracker, fault, history>>

\* The key pair, then getaddrinfo.  When that fails connect_to_server returns
\* with last_error empty; an exception of the key pair's sets it.
Resolve ==
    /\ connPc = "resolve"
    /\ \E n \in 0..Addresses, thrown \in BOOLEAN :
        /\ thrown => n = 0
        /\ addrLeft' = n
        /\ connPc' = IF n = 0 THEN "failed" ELSE "addr"
        /\ last_error' = (last_error \/ thrown)
    /\ UNCHANGED <<flags, connect_mutex, banner, sess, callers, joiners, trkGot,
                   netPc, tracker, fault, history>>

\* The head of the address loop: a shutdown request aborts it.
NextAddress ==
    /\ connPc = "addr"
    /\ IF addrLeft = 0 \/ shutdown
       THEN connPc' = "failed" /\ UNCHANGED addrLeft
       ELSE connPc' = "handshake" /\ addrLeft' = addrLeft - 1
    /\ UNCHANGED <<flags, connect_mutex, errors, sess, callers, joiners, trkGot,
                   netPc, tracker, fault, history>>

\* session = make_unique<wivrn_session_pico>(...): the handshake completes,
\* or runs out of time and leaves a session that is not usable ...
SessionBuilt(ok) ==
    /\ ConnGo("handshake", IF ok THEN "hello" ELSE "drop")
    /\ session' = TRUE /\ sockUp' = TRUE
    /\ UNCHANGED <<flags, connect_mutex, errors, dirty, callers, joiners,
                   addrLeft, trkGot, netPc, tracker, fault, history>>

\* ... or throws, with session still null.
SessionThrows ==
    /\ ConnGo("handshake", "addr")
    /\ last_error' = TRUE
    /\ UNCHANGED <<flags, connect_mutex, banner, sess, callers, joiners, addrLeft,
                   trkGot, netPc, tracker, fault, history>>

DropSession ==
    /\ ConnGo("drop", "addr")
    /\ DestroySession
    /\ UNCHANGED <<flags, connect_mutex, errors, dirty, callers, joiners,
                   addrLeft, netPc, trkThread, trkRunning, fault, history>>

\* connect_to_server returned false: report unless a shutdown was requested.
ConnFailed ==
    /\ connPc = "failed"
    /\ connPc' = IF shutdown THEN "tailConnecting" ELSE "report"
    /\ DestroySession
    /\ UNCHANGED <<flags, connect_mutex, errors, dirty, callers, joiners,
                   addrLeft, netPc, trkThread, trkRunning, fault, history>>

\* setConnectionError(last_error) when the user asked for the connection.
ReportFailure ==
    /\ ConnGo("report", "tailConnecting")
    /\ banner' = IF ~user_initiated THEN banner
                 ELSE IF last_error THEN "text" ELSE "empty"
    /\ UNCHANGED <<flags, connect_mutex, last_error, sess, callers, joiners,
                   addrLeft, trkGot, netPc, tracker, fault, history>>

\* send_headset_info: a write to a broken socket may throw.
SendHeadsetInfo(ok) ==
    /\ ConnGo("hello", IF ok THEN "spawnNet" ELSE "catch")
    /\ ok \/ ~sockUp
    /\ UNCHANGED <<flags, connect_mutex, errors, sess, callers, joiners, addrLeft,
                   trkGot, netPc, tracker, fault, history>>

\* network_thread = std::thread(...), which the system may refuse to create.
SpawnNet ==
    /\ connPc = "spawnNet"
    /\ banner' = "none"
    /\ \/ /\ connPc' = "catch"
          /\ UNCHANGED <<netPc, fault>>
       \/ /\ netPc = "none"
          /\ netPc' = "check" /\ connPc' = "trkGet"
          /\ UNCHANGED fault
       \/ /\ netPc # "none"
          /\ fault' = "network_thread"
          /\ UNCHANGED <<netPc, connPc>>
    /\ UNCHANGED <<flags, connect_mutex, last_error, sess, callers, joiners,
                   addrLeft, trkGot, tracker, history>>

\* tracker.session = session.get(): a read, then a write.
ReadSession ==
    /\ ConnGo("trkGet", "trkSet")
    /\ trkGot' = IF session THEN "live" ELSE "null"
    /\ UNCHANGED <<flags, connect_mutex, errors, sess, callers, joiners, addrLeft,
                   netPc, tracker, fault, history>>

WriteTrackerSession ==
    /\ ConnGo("trkSet", "trkStart")
    /\ trkSession' = trkGot
    /\ UNCHANGED <<flags, connect_mutex, errors, sess, callers, joiners, addrLeft,
                   trkGot, netPc, trkThread, trkRunning, fault, history>>

\* pico_native_tracker::start
TrackerStart ==
    /\ connPc = "trkStart"
    /\ IF trkRunning
       THEN connPc' = "join" /\ UNCHANGED trkRunning
       ELSE connPc' = "trkSpawn" /\ trkRunning' = TRUE
    /\ UNCHANGED <<flags, connect_mutex, errors, sess, callers, joiners, addrLeft,
                   trkGot, netPc, trkThread, trkSession, fault, history>>

TrackerSpawn ==
    /\ connPc = "trkSpawn"
    /\ IF trkThread = "none"
       THEN trkThread' = "run" /\ connPc' = "join" /\ UNCHANGED fault
       ELSE fault' = "tracker_thread" /\ UNCHANGED <<trkThread, connPc>>
    /\ UNCHANGED <<flags, connect_mutex, errors, sess, callers, joiners, addrLeft,
                   trkGot, netPc, trkRunning, trkSession, history>>

JoinNetwork ==
    /\ ConnGo("join", "tailConnecting")
    /\ netPc = "exited" /\ netPc' = "none"
    /\ UNCHANGED <<flags, connect_mutex, errors, sess, callers, joiners, addrLeft,
                   trkGot, tracker, fault, history>>

\* The catch block of run_connect_loop.
Catch ==
    /\ ConnGo("catch", "catchTrk")
    /\ last_error' = TRUE
    /\ banner' = IF user_initiated THEN "text" ELSE banner
    /\ UNCHANGED <<flags, connect_mutex, sess, callers, joiners, addrLeft, trkGot,
                   netPc, tracker, fault, history>>

CatchStopsTracker ==
    /\ ConnGo("catchTrk", "catchJoin")
    /\ trkSession' = "null" /\ trkRunning' = FALSE
    /\ UNCHANGED <<flags, connect_mutex, errors, sess, callers, joiners, addrLeft,
                   trkGot, netPc, trkThread, fault, history>>

CatchJoinsTracker ==
    /\ ConnGo("catchJoin", "catchEnd")
    /\ trkThread \in {"none", "exited"} /\ trkThread' = "none"
    /\ UNCHANGED <<flags, connect_mutex, errors, sess, callers, joiners, addrLeft,
                   trkGot, netPc, trkRunning, trkSession, fault, history>>

CatchResets ==
    /\ ConnGo("catchEnd", "tailConnecting")
    /\ DestroySession
    /\ dirty' = FALSE
    /\ UNCHANGED <<flags, connect_mutex, errors, callers, joiners, addrLeft,
                   netPc, trkThread, trkRunning, fault, history>>

HideConnecting ==
    /\ ConnGo("tailConnecting", "tailUser")
    /\ nativeConnecting' = FALSE
    /\ UNCHANGED <<shutdown, user_initiated, connect_mutex, errors, sess, callers,
                   joiners, addrLeft, trkGot, netPc, tracker, fault, history>>

ConnExits ==
    /\ ConnGo("tailUser", "exited")
    /\ user_initiated' = FALSE
    /\ UNCHANGED <<shutdown, nativeConnecting, connect_mutex, errors, sess,
                   callers, joiners, addrLeft, trkGot, netPc, tracker, fault,
                   history>>

ConnNext ==
    \/ ConnStart \/ Resolve \/ NextAddress
    \/ \E ok \in BOOLEAN : SessionBuilt(ok) \/ SendHeadsetInfo(ok)
    \/ SessionThrows \/ DropSession \/ ConnFailed \/ ReportFailure \/ SpawnNet
    \/ ReadSession \/ WriteTrackerSession \/ TrackerStart \/ TrackerSpawn
    \/ JoinNetwork \/ Catch \/ CatchStopsTracker \/ CatchJoinsTracker
    \/ CatchResets \/ HideConnecting \/ ConnExits

-----------------------------------------------------------------------------
(* The network thread: network_loop *)

NetGo(from, to) == netPc = from /\ netPc' = to

\* Variant: the loop condition forgets shutdown.
NetCheckIgnoresShutdown ==
    /\ NetGo("check", IF ~session THEN "end" ELSE "poll")
    /\ overlap' = (overlap \/ (netPc' = "end" /\ connPc # "join"))
    /\ UNCHANGED <<flags, connect_mutex, errors, sess, callers, joiners, conn,
                   tracker, fault, clicked, fresh>>

\* while (!shutdown && session)
NetCheck ==
    /\ NetGo("check", IF shutdown \/ ~session THEN "end" ELSE "poll")
    /\ overlap' = (overlap \/ (netPc' = "end" /\ connPc # "join"))
    /\ UNCHANGED <<flags, connect_mutex, errors, sess, callers, joiners, conn,
                   tracker, fault, clicked, fresh>>

\* A poll that delivers packets, or none, and leaves the socket working.
NetPoll ==
    /\ NetGo("poll", "check")
    /\ sockUp
    /\ dirty' \in {dirty, TRUE}
    /\ UNCHANGED <<flags, connect_mutex, errors, session, sockUp, callers,
                   joiners, conn, tracker, fault, history>>

\* An exception, or no video shard for ten seconds.
NetBreaks ==
    /\ NetGo("poll", "end")
    /\ last_error' = TRUE
    /\ overlap' = (overlap \/ connPc # "join")
    /\ UNCHANGED <<flags, connect_mutex, banner, sess, callers, joiners, conn,
                   tracker, fault, clicked, fresh>>

NetReports ==
    /\ NetGo("end", "trkNull")
    /\ banner' = IF last_error /\ user_initiated THEN "text" ELSE banner
    /\ UNCHANGED <<flags, connect_mutex, last_error, sess, callers, joiners, conn,
                   tracker, fault, history>>

NetClearsTracker ==
    /\ NetGo("trkNull", "trkStop")
    /\ trkSession' = "null"
    /\ UNCHANGED <<flags, connect_mutex, errors, sess, callers, joiners, conn,
                   trkThread, trkRunning, fault, history>>

\* Variant: the clean-up forgets tracker.stop().
NetLeavesTracker ==
    /\ NetGo("trkStop", "sessReset")
    /\ UNCHANGED <<flags, connect_mutex, errors, sess, callers, joiners, conn,
                   tracker, fault, history>>

\* pico_native_tracker::stop: clear running, then join if there is a thread.
NetStopsTracker ==
    /\ NetGo("trkStop", "trkJoin")
    /\ trkRunning' = FALSE
    /\ UNCHANGED <<flags, connect_mutex, errors, sess, callers, joiners, conn,
                   trkThread, trkSession, fault, history>>

NetJoinsTracker ==
    /\ NetGo("trkJoin", "sessReset")
    /\ trkThread \in {"none", "exited"} /\ trkThread' = "none"
    /\ UNCHANGED <<flags, connect_mutex, errors, sess, callers, joiners, conn,
                   trkRunning, trkSession, fault, history>>

\* Variant: the session is kept.
NetKeepsSession ==
    /\ NetGo("sessReset", "reset")
    /\ UNCHANGED <<flags, connect_mutex, errors, sess, callers, joiners, conn,
                   tracker, fault, history>>

NetDestroysSession ==
    /\ NetGo("sessReset", "reset")
    /\ DestroySession
    /\ UNCHANGED <<flags, connect_mutex, errors, dirty, callers, joiners, connPc,
                   addrLeft, trkThread, trkRunning, fault, history>>

\* Variant: the clean-up forgets reset_stream_state().
NetKeepsStream ==
    /\ NetGo("reset", "exited")
    /\ UNCHANGED <<flags, connect_mutex, errors, sess, callers, joiners, conn,
                   tracker, fault, history>>

\* reset_stream_state
NetResetsStream ==
    /\ NetGo("reset", "exited")
    /\ dirty' = FALSE
    /\ UNCHANGED <<flags, connect_mutex, errors, session, sockUp, callers,
                   joiners, conn, tracker, fault, history>>

NetNext ==
    \/ NetCheck \/ NetPoll \/ NetBreaks \/ NetReports \/ NetClearsTracker
    \/ NetStopsTracker \/ NetJoinsTracker \/ NetDestroysSession
    \/ NetResetsStream

-----------------------------------------------------------------------------
(* The tracking thread and the server *)

\* pico_native_tracker::run leaves its loop when running is false.
TrackerExits ==
    /\ trkThread = "run" /\ ~trkRunning
    /\ trkThread' = "exited"
    /\ UNCHANGED <<flags, connect_mutex, errors, sess, callers, joiners, conn,
                   netPc, trkRunning, trkSession, fault, history>>

PeerCloses ==
    /\ session /\ sockUp
    /\ sockUp' = FALSE
    /\ UNCHANGED <<flags, connect_mutex, errors, session, dirty, callers,
                   joiners, conn, netPc, tracker, fault, history>>

Next ==
    /\ fault = "no"
    /\ \/ \E c \in Callers : CallerNext(c)
       \/ \E j \in Joiners : JoinerNext(j)
       \/ ConnNext \/ NetNext \/ TrackerExits \/ PeerCloses

Spec == Init /\ [][Next]_vars

\* Every thread keeps running; neither the user nor the server has to act.
Fairness ==
    /\ \A c \in Callers :
        WF_vars(fault = "no" /\ callPc[c] # "idle" /\ CallerNext(c))
    /\ \A j \in Joiners : WF_vars(fault = "no" /\ JoinerNext(j))
    /\ WF_vars(fault = "no" /\ ConnNext)
    /\ WF_vars(fault = "no" /\ NetNext)
    /\ WF_vars(fault = "no" /\ TrackerExits)

FairSpec == Spec /\ Fairness

-----------------------------------------------------------------------------
(* Properties *)

FlagsOK ==
    /\ shutdown \in BOOLEAN /\ user_initiated \in BOOLEAN
    /\ nativeConnecting \in BOOLEAN /\ last_error \in BOOLEAN
    /\ session \in BOOLEAN /\ sockUp \in BOOLEAN /\ dirty \in BOOLEAN
    /\ trkRunning \in BOOLEAN /\ overlap \in BOOLEAN
    /\ clicked \in BOOLEAN /\ fresh \in BOOLEAN

DataOK ==
    /\ connect_mutex \in Callers \cup Joiners \cup {NoOne}
    /\ banner \in {"none", "empty", "text"}
    /\ callPc \in [Callers -> CallPcs]
    /\ connects \in 0..MaxConnects /\ disconnects \in 0..MaxDisconnects
    /\ joinPc \in [Joiners -> JoinPcs]
    /\ joinKind \in [Joiners -> {"reconnect", "disconnect"}]
    /\ connPc \in ConnPcs /\ addrLeft \in 0..Addresses /\ trkGot \in Pointers
    /\ netPc \in NetPcs
    /\ trkThread \in {"none", "run", "exited"} /\ trkSession \in Pointers
    /\ fault \in {"no", "connect_thread", "network_thread", "tracker_thread"}

TypeOK == FlagsOK /\ DataOK

\* Phases of the connect thread, relative to the session and network_thread.
NoSession == {"none", "start", "resolve", "addr", "handshake", "report",
              "tailConnecting", "tailUser", "exited"}
BeforeNet == NoSession \cup {"drop", "failed", "hello", "spawnNet", "catch",
                             "catchTrk", "catchJoin", "catchEnd"}

\* Every assignment to connect_thread and network_thread finds the handle
\* empty: starting a connection never ends the process in std::terminate,
\* however the calls of nativeConnect and nativeDisconnect overlap.
HandlesNotOverwritten == fault \notin {"connect_thread", "network_thread"}

\* A session outlives neither the attempt that built it nor the network
\* thread that serves it: whenever the connect thread is between attempts or
\* gone, there is no session and no network thread.
SessionBelongsToAttempt ==
    /\ connPc \in NoSession => ~session
    /\ connPc \in BeforeNet => netPc = "none"

\* A joiner resets the session and the stream state only when no thread of
\* the old connection is left to use them.
JoinerResetsAlone ==
    \A j \in Joiners :
        joinPc[j] \in {"reset", "clear", "start"} =>
            connPc = "none" /\ netPc = "none"

\* No decoder, shard or frame of an earlier connection survives into the
\* next attempt.
CleanAttempt == connPc \in BeforeNet => ~dirty

\* While packets are being received no connection error is displayed.
NoErrorWhileStreaming ==
    netPc \in {"check", "poll"} => banner = "none"

\* Unless the network thread began to clean up before the connect thread had
\* finished starting the tracker, the tracker never runs with a destroyed
\* session, its handle is never overwritten, and it runs only while the connect
\* thread waits for the network thread: a connection that ended leaves none.
TrackerWithSession ==
    ~overlap =>
        /\ fault # "tracker_thread"
        /\ ~(trkThread = "run" /\ trkSession = "dangling")
        /\ connPc \in BeforeNet => trkThread = "none" /\ ~trkRunning

\* streaming_client.h says that user_initiated is true when the user clicked
\* Connect; a failed attempt is reported to the user only if it is.
FailureOfClickIsReported ==
    /\ connPc = "report" /\ clicked /\ fresh
    /\ \A c \in Callers : callPc[c] = "idle"
    => user_initiated

\* A disconnect whose joiner is the only one, with no nativeConnect under way
\* or to come, ends the connection: the joiner gets its turn, the connect
\* thread sees the request wherever it is, and nothing restarts it.  The one
\* exception is the overlap above: a tracker started after the network thread
\* cleared running is joined but never told to stop.
LastWord(j) ==
    /\ joinKind[j] = "disconnect" /\ joinPc[j] \notin {"unused", "done"}
    /\ \A k \in Joiners \ {j} : joinPc[k] \in {"unused", "done"}
    /\ connects = MaxConnects /\ disconnects = MaxDisconnects
    /\ \A c \in Callers : callPc[c] = "idle"
    /\ shutdown
DisconnectEnds ==
    \A j \in Joiners :
        LastWord(j) ~>
            ((joinPc[j] = "done" /\ connPc = "none" /\ ~session) \/ overlap)

\* try_connect blocks its caller for good only while a joiner holds
\* connect_mutex and waits for a connection that streams on and that nobody
\* asks to stop, or for one that the overlap above has blocked.
JoinsUnstopped ==
    /\ \E j \in Joiners : joinPc[j] = "joinConn"
    /\ netPc \in {"check", "poll"} /\ ~shutdown
CallReturns ==
    \A c \in Callers :
        callPc[c] = "lock" ~> (callPc[c] = "idle" \/ JoinsUnstopped \/ overlap)
=============================================================================
