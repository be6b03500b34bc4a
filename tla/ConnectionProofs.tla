-------------------------- MODULE ConnectionProofs --------------------------
(***************************************************************************)
(* Proofs about Connection, for any callers, joiners, addresses and calls. *)
(* The invariants below are not inductive one by one: what a joiner may do *)
(* rests on who holds connect_mutex (Locking), what a session may be rests *)
(* on the phases of the connect and network threads (Phases), and the      *)
(* tracker's state follows from both as long as no clean-up has overlapped *)
(* a start-up (TrackerPhases).  One lemma per part has one step per action.*)
(***************************************************************************)
EXTENDS Connection, TLAPS

Holding == {"joinConn", "joinNet", "reset", "clear", "start"}

\* connect_mutex is held exactly by the thread that is between its lock and
\* unlock.
Locking ==
    /\ \A j \in Joiners : joinPc[j] \in Holding <=> connect_mutex = j
    /\ \A c \in Callers : callPc[c] \in {"check", "stop"} <=> connect_mutex = c

\* Once a joiner has joined it, the connect thread is gone until the joiner
\* starts the next one.
Joined ==
    \A j \in Joiners :
        joinPc[j] \in {"joinNet", "reset", "clear", "start"} => connPc = "none"

Phases ==
    /\ Joined
    /\ SessionBelongsToAttempt
    /\ netPc \in {"reset", "exited"} => ~session
    /\ CleanAttempt
    /\ netPc = "exited" => ~dirty
    /\ NoErrorWhileStreaming
    /\ HandlesNotOverwritten

Starting == {"trkGet", "trkSet", "trkStart", "trkSpawn"}

TrackerPhases ==
    \/ overlap
    \/ /\ fault = "no"
       /\ connPc \in BeforeNet \cup {"trkGet", "trkSet", "trkStart"} =>
            trkThread = "none" /\ ~trkRunning
       /\ connPc \in BeforeNet \cup {"trkGet", "trkSet"} => trkSession = "null"
       /\ connPc = "trkSpawn" => trkThread = "none" /\ trkRunning
       /\ connPc \in Starting => netPc \in {"check", "poll"}
       /\ connPc = "trkSet" => trkGot # "dangling"
       /\ trkSession # "dangling"
       /\ netPc \in {"trkStop", "trkJoin", "sessReset", "reset", "exited"} =>
            trkSession = "null"
       /\ netPc \in {"trkJoin", "sessReset", "reset", "exited"} => ~trkRunning
       /\ netPc \in {"sessReset", "reset", "exited"} => trkThread = "none"

IInv == TypeOK /\ Locking /\ Phases /\ TrackerPhases

-----------------------------------------------------------------------------
\* Every step keeps the flags Boolean.
LEMMA FlagsStep == ASSUME FlagsOK, [Next]_vars PROVE FlagsOK'
<1> USE DEF FlagsOK, flags, errors, sess, callers, joiners, conn, tracker, history
<1>1. ASSUME NEW c \in Callers, NEW b \in BOOLEAN, CallConnect(c, b) PROVE FlagsOK'
  BY <1>1, Zenon DEF CallConnect
<1>2. ASSUME NEW c \in Callers, SetUserInitiated(c) PROVE FlagsOK'
  BY <1>2, Zenon DEF SetUserInitiated
<1>3. ASSUME NEW c \in Callers, ShowConnecting(c) PROVE FlagsOK'
  BY <1>3, Zenon DEF ShowConnecting
<1>4. ASSUME NEW c \in Callers, LockTry(c) PROVE FlagsOK'
  BY <1>4, Zenon DEF LockTry
<1>5. ASSUME NEW c \in Callers, StartFirst(c) PROVE FlagsOK'
  BY <1>5, Zenon DEF StartFirst, StartConn
<1>6. ASSUME NEW c \in Callers, StopPrevious(c) PROVE FlagsOK'
  BY <1>6, Zenon DEF StopPrevious
<1>7. ASSUME NEW c \in Callers, DetachReconnect(c) PROVE FlagsOK'
  BY <1>7, Zenon DEF DetachReconnect, CutSocket, Spawn
<1>8. ASSUME NEW c \in Callers, CallDisconnect(c) PROVE FlagsOK'
  BY <1>8, Zenon DEF CallDisconnect
<1>9. ASSUME NEW c \in Callers, ClearUserInitiated(c) PROVE FlagsOK'
  BY <1>9, Zenon DEF ClearUserInitiated
<1>10. ASSUME NEW c \in Callers, CutOnDisconnect(c) PROVE FlagsOK'
  BY <1>10, Zenon DEF CutOnDisconnect, CutSocket
<1>11. ASSUME NEW c \in Callers, DetachDisconnect(c) PROVE FlagsOK'
  BY <1>11, Zenon DEF DetachDisconnect, Spawn
<1>12. ASSUME NEW j \in Joiners, JoinerLocks(j) PROVE FlagsOK'
  BY <1>12, Zenon DEF JoinerLocks
<1>13. ASSUME NEW j \in Joiners, JoinConn(j) PROVE FlagsOK'
  BY <1>13, Zenon DEF JoinConn
<1>14. ASSUME NEW j \in Joiners, JoinNet(j) PROVE FlagsOK'
  BY <1>14, Zenon DEF JoinNet
<1>15. ASSUME NEW j \in Joiners, JoinerResets(j) PROVE FlagsOK'
  BY <1>15, Zenon DEF JoinerResets, DestroySession, Destroyed
<1>16. ASSUME NEW j \in Joiners, JoinerClears(j) PROVE FlagsOK'
  BY <1>16, Zenon DEF JoinerClears
<1>17. ASSUME NEW j \in Joiners, JoinerStarts(j) PROVE FlagsOK'
  BY <1>17, Zenon DEF JoinerStarts, StartConn
<1>18. ASSUME ConnStart PROVE FlagsOK'
  BY <1>18, Zenon DEF ConnStart, ConnGo
<1>19. ASSUME Resolve PROVE FlagsOK'
  BY <1>19, Zenon DEF Resolve
<1>20. ASSUME NextAddress PROVE FlagsOK'
  BY <1>20, Zenon DEF NextAddress
<1>21. ASSUME NEW b \in BOOLEAN, SessionBuilt(b) PROVE FlagsOK'
  BY <1>21, Zenon DEF SessionBuilt, ConnGo
<1>22. ASSUME NEW b \in BOOLEAN, SendHeadsetInfo(b) PROVE FlagsOK'
  BY <1>22, Zenon DEF SendHeadsetInfo, ConnGo
<1>23. ASSUME SessionThrows PROVE FlagsOK'
  BY <1>23, Zenon DEF SessionThrows, ConnGo
<1>24. ASSUME DropSession PROVE FlagsOK'
  BY <1>24, Zenon DEF DropSession, DestroySession, Destroyed, ConnGo
<1>25. ASSUME ConnFailed PROVE FlagsOK'
  BY <1>25, Zenon DEF ConnFailed, DestroySession, Destroyed
<1>26. ASSUME ReportFailure PROVE FlagsOK'
  BY <1>26, Zenon DEF ReportFailure, ConnGo
<1>27. ASSUME SpawnNet PROVE FlagsOK'
  BY <1>27, Zenon DEF SpawnNet
<1>28. ASSUME ReadSession PROVE FlagsOK'
  BY <1>28, Zenon DEF ReadSession, ConnGo
<1>29. ASSUME WriteTrackerSession PROVE FlagsOK'
  BY <1>29, Zenon DEF WriteTrackerSession, ConnGo
<1>30. ASSUME TrackerStart PROVE FlagsOK'
  BY <1>30, Zenon DEF TrackerStart
<1>31. ASSUME TrackerSpawn PROVE FlagsOK'
  BY <1>31, Zenon DEF TrackerSpawn
<1>32. ASSUME JoinNetwork PROVE FlagsOK'
  BY <1>32, Zenon DEF JoinNetwork, ConnGo
<1>33. ASSUME Catch PROVE FlagsOK'
  BY <1>33, Zenon DEF Catch, ConnGo
<1>34. ASSUME CatchStopsTracker PROVE FlagsOK'
  BY <1>34, Zenon DEF CatchStopsTracker, ConnGo
<1>35. ASSUME CatchJoinsTracker PROVE FlagsOK'
  BY <1>35, Zenon DEF CatchJoinsTracker, ConnGo
<1>36. ASSUME CatchResets PROVE FlagsOK'
  BY <1>36, Zenon DEF CatchResets, DestroySession, Destroyed, ConnGo
<1>37. ASSUME HideConnecting PROVE FlagsOK'
  BY <1>37, Zenon DEF HideConnecting, ConnGo
<1>38. ASSUME ConnExits PROVE FlagsOK'
  BY <1>38, Zenon DEF ConnExits, ConnGo
<1>39. ASSUME NetCheck PROVE FlagsOK'
  BY <1>39, Zenon DEF NetCheck, NetGo
<1>40. ASSUME NetPoll PROVE FlagsOK'
  BY <1>40, Zenon DEF NetPoll, NetGo
<1>41. ASSUME NetBreaks PROVE FlagsOK'
  BY <1>41, Zenon DEF NetBreaks, NetGo
<1>42. ASSUME NetReports PROVE FlagsOK'
  BY <1>42, Zenon DEF NetReports, NetGo
<1>43. ASSUME NetClearsTracker PROVE FlagsOK'
  BY <1>43, Zenon DEF NetClearsTracker, NetGo
<1>44. ASSUME NetStopsTracker PROVE FlagsOK'
  BY <1>44, Zenon DEF NetStopsTracker, NetGo
<1>45. ASSUME NetJoinsTracker PROVE FlagsOK'
  BY <1>45, Zenon DEF NetJoinsTracker, NetGo
<1>46. ASSUME NetDestroysSession PROVE FlagsOK'
  BY <1>46, Zenon DEF NetDestroysSession, DestroySession, Destroyed, NetGo
<1>47. ASSUME NetResetsStream PROVE FlagsOK'
  BY <1>47, Zenon DEF NetResetsStream, NetGo
<1>48. ASSUME TrackerExits PROVE FlagsOK'
  BY <1>48, Zenon DEF TrackerExits
<1>49. ASSUME PeerCloses PROVE FlagsOK'
  BY <1>49, Zenon DEF PeerCloses
<1>50. ASSUME UNCHANGED vars PROVE FlagsOK'
  BY <1>50, Zenon DEF vars
<1>51. QED
  BY <1>1, <1>2, <1>3, <1>4, <1>5, <1>6, <1>7, <1>8, <1>9, <1>10, <1>11,
     <1>12, <1>13, <1>14, <1>15, <1>16, <1>17, <1>18, <1>19, <1>20, <1>21,
     <1>22, <1>23, <1>24, <1>25, <1>26, <1>27, <1>28, <1>29, <1>30, <1>31,
     <1>32, <1>33, <1>34, <1>35, <1>36, <1>37, <1>38, <1>39, <1>40, <1>41,
     <1>42, <1>43, <1>44, <1>45, <1>46, <1>47, <1>48, <1>49, <1>50
  DEF Next, CallerNext, JoinerNext, ConnNext, NetNext

\* Every step keeps the other variables in their types.
LEMMA DataStep == ASSUME DataOK, [Next]_vars PROVE DataOK'
<1> USE CallersAssumption, CountsAssumption, NoOneAssumption
    DEF DataOK, CallPcs, JoinPcs, ConnPcs, NetPcs, Pointers, flags, errors, sess,
        callers, joiners, conn, tracker, history
<1>1. ASSUME NEW c \in Callers, NEW b \in BOOLEAN, CallConnect(c, b) PROVE DataOK'
  BY <1>1 DEF CallConnect
<1>2. ASSUME NEW c \in Callers, SetUserInitiated(c) PROVE DataOK'
  BY <1>2 DEF SetUserInitiated
<1>3. ASSUME NEW c \in Callers, ShowConnecting(c) PROVE DataOK'
  BY <1>3 DEF ShowConnecting
<1>4. ASSUME NEW c \in Callers, LockTry(c) PROVE DataOK'
  BY <1>4 DEF LockTry
<1>5. ASSUME NEW c \in Callers, StartFirst(c) PROVE DataOK'
  BY <1>5 DEF StartFirst, StartConn
<1>6. ASSUME NEW c \in Callers, StopPrevious(c) PROVE DataOK'
  BY <1>6 DEF StopPrevious
<1>7. ASSUME NEW c \in Callers, DetachReconnect(c) PROVE DataOK'
  BY <1>7 DEF DetachReconnect, CutSocket, Spawn
<1>8. ASSUME NEW c \in Callers, CallDisconnect(c) PROVE DataOK'
  BY <1>8 DEF CallDisconnect
<1>9. ASSUME NEW c \in Callers, ClearUserInitiated(c) PROVE DataOK'
  BY <1>9 DEF ClearUserInitiated
<1>10. ASSUME NEW c \in Callers, CutOnDisconnect(c) PROVE DataOK'
  BY <1>10 DEF CutOnDisconnect, CutSocket
<1>11. ASSUME NEW c \in Callers, DetachDisconnect(c) PROVE DataOK'
  BY <1>11 DEF DetachDisconnect, Spawn
<1>12. ASSUME NEW j \in Joiners, JoinerLocks(j) PROVE DataOK'
  BY <1>12 DEF JoinerLocks
<1>13. ASSUME NEW j \in Joiners, JoinConn(j) PROVE DataOK'
  BY <1>13 DEF JoinConn
<1>14. ASSUME NEW j \in Joiners, JoinNet(j) PROVE DataOK'
  BY <1>14 DEF JoinNet
<1>15. ASSUME NEW j \in Joiners, JoinerResets(j) PROVE DataOK'
  BY <1>15 DEF JoinerResets, DestroySession, Destroyed
<1>16. ASSUME NEW j \in Joiners, JoinerClears(j) PROVE DataOK'
  BY <1>16 DEF JoinerClears
<1>17. ASSUME NEW j \in Joiners, JoinerStarts(j) PROVE DataOK'
  BY <1>17 DEF JoinerStarts, StartConn
<1>18. ASSUME ConnStart PROVE DataOK'
  BY <1>18 DEF ConnStart, ConnGo
<1>19. ASSUME Resolve PROVE DataOK'
  BY <1>19 DEF Resolve
<1>20. ASSUME NextAddress PROVE DataOK'
  BY <1>20 DEF NextAddress
<1>21. ASSUME NEW b \in BOOLEAN, SessionBuilt(b) PROVE DataOK'
  BY <1>21 DEF SessionBuilt, ConnGo
<1>22. ASSUME NEW b \in BOOLEAN, SendHeadsetInfo(b) PROVE DataOK'
  BY <1>22 DEF SendHeadsetInfo, ConnGo
<1>23. ASSUME SessionThrows PROVE DataOK'
  BY <1>23 DEF SessionThrows, ConnGo
<1>24. ASSUME DropSession PROVE DataOK'
  BY <1>24 DEF DropSession, DestroySession, Destroyed, ConnGo
<1>25. ASSUME ConnFailed PROVE DataOK'
  BY <1>25 DEF ConnFailed, DestroySession, Destroyed
<1>26. ASSUME ReportFailure PROVE DataOK'
  BY <1>26 DEF ReportFailure, ConnGo
<1>27. ASSUME SpawnNet PROVE DataOK'
  BY <1>27 DEF SpawnNet
<1>28. ASSUME ReadSession PROVE DataOK'
  BY <1>28 DEF ReadSession, ConnGo
<1>29. ASSUME WriteTrackerSession PROVE DataOK'
  BY <1>29 DEF WriteTrackerSession, ConnGo
<1>30. ASSUME TrackerStart PROVE DataOK'
  BY <1>30 DEF TrackerStart
<1>31. ASSUME TrackerSpawn PROVE DataOK'
  BY <1>31 DEF TrackerSpawn
<1>32. ASSUME JoinNetwork PROVE DataOK'
  BY <1>32 DEF JoinNetwork, ConnGo
<1>33. ASSUME Catch PROVE DataOK'
  BY <1>33 DEF Catch, ConnGo
<1>34. ASSUME CatchStopsTracker PROVE DataOK'
  BY <1>34 DEF CatchStopsTracker, ConnGo
<1>35. ASSUME CatchJoinsTracker PROVE DataOK'
  BY <1>35 DEF CatchJoinsTracker, ConnGo
<1>36. ASSUME CatchResets PROVE DataOK'
  BY <1>36 DEF CatchResets, DestroySession, Destroyed, ConnGo
<1>37. ASSUME HideConnecting PROVE DataOK'
  BY <1>37 DEF HideConnecting, ConnGo
<1>38. ASSUME ConnExits PROVE DataOK'
  BY <1>38 DEF ConnExits, ConnGo
<1>39. ASSUME NetCheck PROVE DataOK'
  BY <1>39 DEF NetCheck, NetGo
<1>40. ASSUME NetPoll PROVE DataOK'
  BY <1>40 DEF NetPoll, NetGo
<1>41. ASSUME NetBreaks PROVE DataOK'
  BY <1>41 DEF NetBreaks, NetGo
<1>42. ASSUME NetReports PROVE DataOK'
  BY <1>42 DEF NetReports, NetGo
<1>43. ASSUME NetClearsTracker PROVE DataOK'
  BY <1>43 DEF NetClearsTracker, NetGo
<1>44. ASSUME NetStopsTracker PROVE DataOK'
  BY <1>44 DEF NetStopsTracker, NetGo
<1>45. ASSUME NetJoinsTracker PROVE DataOK'
  BY <1>45 DEF NetJoinsTracker, NetGo
<1>46. ASSUME NetDestroysSession PROVE DataOK'
  BY <1>46 DEF NetDestroysSession, DestroySession, Destroyed, NetGo
<1>47. ASSUME NetResetsStream PROVE DataOK'
  BY <1>47 DEF NetResetsStream, NetGo
<1>48. ASSUME TrackerExits PROVE DataOK'
  BY <1>48 DEF TrackerExits
<1>49. ASSUME PeerCloses PROVE DataOK'
  BY <1>49 DEF PeerCloses
<1>50. ASSUME UNCHANGED vars PROVE DataOK'
  BY <1>50 DEF vars
<1>51. QED
  BY <1>1, <1>2, <1>3, <1>4, <1>5, <1>6, <1>7, <1>8, <1>9, <1>10, <1>11,
     <1>12, <1>13, <1>14, <1>15, <1>16, <1>17, <1>18, <1>19, <1>20, <1>21,
     <1>22, <1>23, <1>24, <1>25, <1>26, <1>27, <1>28, <1>29, <1>30, <1>31,
     <1>32, <1>33, <1>34, <1>35, <1>36, <1>37, <1>38, <1>39, <1>40, <1>41,
     <1>42, <1>43, <1>44, <1>45, <1>46, <1>47, <1>48, <1>49, <1>50
  DEF Next, CallerNext, JoinerNext, ConnNext, NetNext

\* Every step keeps the mutex with the thread between lock and unlock.
LEMMA LockingStep == ASSUME TypeOK, Locking, [Next]_vars PROVE Locking'
<1> USE DistinctAssumption, NoOneAssumption
    DEF TypeOK, DataOK, CallPcs, JoinPcs, Holding, Locking, flags, errors, sess, callers,
        joiners, conn, tracker, history
<1>1. ASSUME NEW c \in Callers, NEW b \in BOOLEAN, CallConnect(c, b) PROVE Locking'
  BY <1>1 DEF CallConnect
<1>2. ASSUME NEW c \in Callers, SetUserInitiated(c) PROVE Locking'
  BY <1>2 DEF SetUserInitiated
<1>3. ASSUME NEW c \in Callers, ShowConnecting(c) PROVE Locking'
  BY <1>3 DEF ShowConnecting
<1>4. ASSUME NEW c \in Callers, LockTry(c) PROVE Locking'
  BY <1>4 DEF LockTry
<1>5. ASSUME NEW c \in Callers, StartFirst(c) PROVE Locking'
  BY <1>5 DEF StartFirst, StartConn
<1>6. ASSUME NEW c \in Callers, StopPrevious(c) PROVE Locking'
  BY <1>6 DEF StopPrevious
<1>7. ASSUME NEW c \in Callers, DetachReconnect(c) PROVE Locking'
  BY <1>7 DEF DetachReconnect, CutSocket, Spawn
<1>8. ASSUME NEW c \in Callers, CallDisconnect(c) PROVE Locking'
  BY <1>8 DEF CallDisconnect
<1>9. ASSUME NEW c \in Callers, ClearUserInitiated(c) PROVE Locking'
  BY <1>9 DEF ClearUserInitiated
<1>10. ASSUME NEW c \in Callers, CutOnDisconnect(c) PROVE Locking'
  BY <1>10 DEF CutOnDisconnect, CutSocket
<1>11. ASSUME NEW c \in Callers, DetachDisconnect(c) PROVE Locking'
  BY <1>11 DEF DetachDisconnect, Spawn
<1>12. ASSUME NEW j \in Joiners, JoinerLocks(j) PROVE Locking'
  BY <1>12 DEF JoinerLocks
<1>13. ASSUME NEW j \in Joiners, JoinConn(j) PROVE Locking'
  BY <1>13 DEF JoinConn
<1>14. ASSUME NEW j \in Joiners, JoinNet(j) PROVE Locking'
  BY <1>14 DEF JoinNet
<1>15. ASSUME NEW j \in Joiners, JoinerResets(j) PROVE Locking'
  BY <1>15 DEF JoinerResets, DestroySession, Destroyed
<1>16. ASSUME NEW j \in Joiners, JoinerClears(j) PROVE Locking'
  BY <1>16 DEF JoinerClears
<1>17. ASSUME NEW j \in Joiners, JoinerStarts(j) PROVE Locking'
  BY <1>17 DEF JoinerStarts, StartConn
<1>18. ASSUME ConnStart PROVE Locking'
  BY <1>18 DEF ConnStart, ConnGo
<1>19. ASSUME Resolve PROVE Locking'
  BY <1>19 DEF Resolve
<1>20. ASSUME NextAddress PROVE Locking'
  BY <1>20 DEF NextAddress
<1>21. ASSUME NEW b \in BOOLEAN, SessionBuilt(b) PROVE Locking'
  BY <1>21 DEF SessionBuilt, ConnGo
<1>22. ASSUME NEW b \in BOOLEAN, SendHeadsetInfo(b) PROVE Locking'
  BY <1>22 DEF SendHeadsetInfo, ConnGo
<1>23. ASSUME SessionThrows PROVE Locking'
  BY <1>23 DEF SessionThrows, ConnGo
<1>24. ASSUME DropSession PROVE Locking'
  BY <1>24 DEF DropSession, DestroySession, Destroyed, ConnGo
<1>25. ASSUME ConnFailed PROVE Locking'
  BY <1>25 DEF ConnFailed, DestroySession, Destroyed
<1>26. ASSUME ReportFailure PROVE Locking'
  BY <1>26 DEF ReportFailure, ConnGo
<1>27. ASSUME SpawnNet PROVE Locking'
  BY <1>27 DEF SpawnNet
<1>28. ASSUME ReadSession PROVE Locking'
  BY <1>28 DEF ReadSession, ConnGo
<1>29. ASSUME WriteTrackerSession PROVE Locking'
  BY <1>29 DEF WriteTrackerSession, ConnGo
<1>30. ASSUME TrackerStart PROVE Locking'
  BY <1>30 DEF TrackerStart
<1>31. ASSUME TrackerSpawn PROVE Locking'
  BY <1>31 DEF TrackerSpawn
<1>32. ASSUME JoinNetwork PROVE Locking'
  BY <1>32 DEF JoinNetwork, ConnGo
<1>33. ASSUME Catch PROVE Locking'
  BY <1>33 DEF Catch, ConnGo
<1>34. ASSUME CatchStopsTracker PROVE Locking'
  BY <1>34 DEF CatchStopsTracker, ConnGo
<1>35. ASSUME CatchJoinsTracker PROVE Locking'
  BY <1>35 DEF CatchJoinsTracker, ConnGo
<1>36. ASSUME CatchResets PROVE Locking'
  BY <1>36 DEF CatchResets, DestroySession, Destroyed, ConnGo
<1>37. ASSUME HideConnecting PROVE Locking'
  BY <1>37 DEF HideConnecting, ConnGo
<1>38. ASSUME ConnExits PROVE Locking'
  BY <1>38 DEF ConnExits, ConnGo
<1>39. ASSUME NetCheck PROVE Locking'
  BY <1>39 DEF NetCheck, NetGo
<1>40. ASSUME NetPoll PROVE Locking'
  BY <1>40 DEF NetPoll, NetGo
<1>41. ASSUME NetBreaks PROVE Locking'
  BY <1>41 DEF NetBreaks, NetGo
<1>42. ASSUME NetReports PROVE Locking'
  BY <1>42 DEF NetReports, NetGo
<1>43. ASSUME NetClearsTracker PROVE Locking'
  BY <1>43 DEF NetClearsTracker, NetGo
<1>44. ASSUME NetStopsTracker PROVE Locking'
  BY <1>44 DEF NetStopsTracker, NetGo
<1>45. ASSUME NetJoinsTracker PROVE Locking'
  BY <1>45 DEF NetJoinsTracker, NetGo
<1>46. ASSUME NetDestroysSession PROVE Locking'
  BY <1>46 DEF NetDestroysSession, DestroySession, Destroyed, NetGo
<1>47. ASSUME NetResetsStream PROVE Locking'
  BY <1>47 DEF NetResetsStream, NetGo
<1>48. ASSUME TrackerExits PROVE Locking'
  BY <1>48 DEF TrackerExits
<1>49. ASSUME PeerCloses PROVE Locking'
  BY <1>49 DEF PeerCloses
<1>50. ASSUME UNCHANGED vars PROVE Locking'
  BY <1>50 DEF vars
<1>51. QED
  BY <1>1, <1>2, <1>3, <1>4, <1>5, <1>6, <1>7, <1>8, <1>9, <1>10, <1>11,
     <1>12, <1>13, <1>14, <1>15, <1>16, <1>17, <1>18, <1>19, <1>20, <1>21,
     <1>22, <1>23, <1>24, <1>25, <1>26, <1>27, <1>28, <1>29, <1>30, <1>31,
     <1>32, <1>33, <1>34, <1>35, <1>36, <1>37, <1>38, <1>39, <1>40, <1>41,
     <1>42, <1>43, <1>44, <1>45, <1>46, <1>47, <1>48, <1>49, <1>50
  DEF Next, CallerNext, JoinerNext, ConnNext, NetNext

\* Every step keeps the phases: a thread's handle is empty when it is filled
\* and what the thread built is gone when it ends.
LEMMA PhasesStep == ASSUME TypeOK, Locking, Phases, [Next]_vars PROVE Phases'
<1> USE DistinctAssumption, NoOneAssumption
    DEF TypeOK, FlagsOK, DataOK, JoinPcs, ConnPcs, NetPcs, CallPcs, Holding, Locking, Phases,
        Joined, SessionBelongsToAttempt, CleanAttempt, NoErrorWhileStreaming,
        HandlesNotOverwritten, NoSession, BeforeNet, flags, errors, sess,
        callers, joiners, conn, tracker, history
<1>1. ASSUME NEW c \in Callers, NEW b \in BOOLEAN, CallConnect(c, b) PROVE Phases'
  BY <1>1 DEF CallConnect
<1>2. ASSUME NEW c \in Callers, SetUserInitiated(c) PROVE Phases'
  BY <1>2 DEF SetUserInitiated
<1>3. ASSUME NEW c \in Callers, ShowConnecting(c) PROVE Phases'
  BY <1>3 DEF ShowConnecting
<1>4. ASSUME NEW c \in Callers, LockTry(c) PROVE Phases'
  BY <1>4 DEF LockTry
<1>5. ASSUME NEW c \in Callers, StartFirst(c) PROVE Phases'
  BY <1>5 DEF StartFirst, StartConn
<1>6. ASSUME NEW c \in Callers, StopPrevious(c) PROVE Phases'
  BY <1>6 DEF StopPrevious
<1>7. ASSUME NEW c \in Callers, DetachReconnect(c) PROVE Phases'
  BY <1>7 DEF DetachReconnect, CutSocket, Spawn
<1>8. ASSUME NEW c \in Callers, CallDisconnect(c) PROVE Phases'
  BY <1>8 DEF CallDisconnect
<1>9. ASSUME NEW c \in Callers, ClearUserInitiated(c) PROVE Phases'
  BY <1>9 DEF ClearUserInitiated
<1>10. ASSUME NEW c \in Callers, CutOnDisconnect(c) PROVE Phases'
  BY <1>10 DEF CutOnDisconnect, CutSocket
<1>11. ASSUME NEW c \in Callers, DetachDisconnect(c) PROVE Phases'
  BY <1>11 DEF DetachDisconnect, Spawn
<1>12. ASSUME NEW j \in Joiners, JoinerLocks(j) PROVE Phases'
  BY <1>12 DEF JoinerLocks
<1>13. ASSUME NEW j \in Joiners, JoinConn(j) PROVE Phases'
  BY <1>13 DEF JoinConn
<1>14. ASSUME NEW j \in Joiners, JoinNet(j) PROVE Phases'
  BY <1>14 DEF JoinNet
<1>15. ASSUME NEW j \in Joiners, JoinerResets(j) PROVE Phases'
  BY <1>15 DEF JoinerResets, DestroySession, Destroyed
<1>16. ASSUME NEW j \in Joiners, JoinerClears(j) PROVE Phases'
  BY <1>16 DEF JoinerClears
<1>17. ASSUME NEW j \in Joiners, JoinerStarts(j) PROVE Phases'
  BY <1>17 DEF JoinerStarts, StartConn
<1>18. ASSUME ConnStart PROVE Phases'
  BY <1>18 DEF ConnStart, ConnGo
<1>19. ASSUME Resolve PROVE Phases'
  BY <1>19 DEF Resolve
<1>20. ASSUME NextAddress PROVE Phases'
  BY <1>20 DEF NextAddress
<1>21. ASSUME NEW b \in BOOLEAN, SessionBuilt(b) PROVE Phases'
  BY <1>21 DEF SessionBuilt, ConnGo
<1>22. ASSUME NEW b \in BOOLEAN, SendHeadsetInfo(b) PROVE Phases'
  BY <1>22 DEF SendHeadsetInfo, ConnGo
<1>23. ASSUME SessionThrows PROVE Phases'
  BY <1>23 DEF SessionThrows, ConnGo
<1>24. ASSUME DropSession PROVE Phases'
  BY <1>24 DEF DropSession, DestroySession, Destroyed, ConnGo
<1>25. ASSUME ConnFailed PROVE Phases'
  BY <1>25 DEF ConnFailed, DestroySession, Destroyed
<1>26. ASSUME ReportFailure PROVE Phases'
  BY <1>26 DEF ReportFailure, ConnGo
<1>27. ASSUME SpawnNet PROVE Phases'
  BY <1>27 DEF SpawnNet
<1>28. ASSUME ReadSession PROVE Phases'
  BY <1>28 DEF ReadSession, ConnGo
<1>29. ASSUME WriteTrackerSession PROVE Phases'
  BY <1>29 DEF WriteTrackerSession, ConnGo
<1>30. ASSUME TrackerStart PROVE Phases'
  BY <1>30 DEF TrackerStart
<1>31. ASSUME TrackerSpawn PROVE Phases'
  BY <1>31 DEF TrackerSpawn
<1>32. ASSUME JoinNetwork PROVE Phases'
  BY <1>32 DEF JoinNetwork, ConnGo
<1>33. ASSUME Catch PROVE Phases'
  BY <1>33 DEF Catch, ConnGo
<1>34. ASSUME CatchStopsTracker PROVE Phases'
  BY <1>34 DEF CatchStopsTracker, ConnGo
<1>35. ASSUME CatchJoinsTracker PROVE Phases'
  BY <1>35 DEF CatchJoinsTracker, ConnGo
<1>36. ASSUME CatchResets PROVE Phases'
  BY <1>36 DEF CatchResets, DestroySession, Destroyed, ConnGo
<1>37. ASSUME HideConnecting PROVE Phases'
  BY <1>37 DEF HideConnecting, ConnGo
<1>38. ASSUME ConnExits PROVE Phases'
  BY <1>38 DEF ConnExits, ConnGo
<1>39. ASSUME NetCheck PROVE Phases'
  BY <1>39 DEF NetCheck, NetGo
<1>40. ASSUME NetPoll PROVE Phases'
  BY <1>40 DEF NetPoll, NetGo
<1>41. ASSUME NetBreaks PROVE Phases'
  BY <1>41 DEF NetBreaks, NetGo
<1>42. ASSUME NetReports PROVE Phases'
  BY <1>42 DEF NetReports, NetGo
<1>43. ASSUME NetClearsTracker PROVE Phases'
  BY <1>43 DEF NetClearsTracker, NetGo
<1>44. ASSUME NetStopsTracker PROVE Phases'
  BY <1>44 DEF NetStopsTracker, NetGo
<1>45. ASSUME NetJoinsTracker PROVE Phases'
  BY <1>45 DEF NetJoinsTracker, NetGo
<1>46. ASSUME NetDestroysSession PROVE Phases'
  BY <1>46 DEF NetDestroysSession, DestroySession, Destroyed, NetGo
<1>47. ASSUME NetResetsStream PROVE Phases'
  BY <1>47 DEF NetResetsStream, NetGo
<1>48. ASSUME TrackerExits PROVE Phases'
  BY <1>48 DEF TrackerExits
<1>49. ASSUME PeerCloses PROVE Phases'
  BY <1>49 DEF PeerCloses
<1>50. ASSUME UNCHANGED vars PROVE Phases'
  BY <1>50 DEF vars
<1>51. QED
  BY <1>1, <1>2, <1>3, <1>4, <1>5, <1>6, <1>7, <1>8, <1>9, <1>10, <1>11,
     <1>12, <1>13, <1>14, <1>15, <1>16, <1>17, <1>18, <1>19, <1>20, <1>21,
     <1>22, <1>23, <1>24, <1>25, <1>26, <1>27, <1>28, <1>29, <1>30, <1>31,
     <1>32, <1>33, <1>34, <1>35, <1>36, <1>37, <1>38, <1>39, <1>40, <1>41,
     <1>42, <1>43, <1>44, <1>45, <1>46, <1>47, <1>48, <1>49, <1>50
  DEF Next, CallerNext, JoinerNext, ConnNext, NetNext

\* Every step keeps the tracker in the state its two threads expect, until a
\* clean-up overlaps a start-up.
LEMMA TrackerStep == ASSUME TypeOK, Phases, TrackerPhases, [Next]_vars PROVE TrackerPhases'
<1> USE DEF TypeOK, FlagsOK, DataOK, ConnPcs, NetPcs, Pointers, Phases, Joined,
        SessionBelongsToAttempt, HandlesNotOverwritten, TrackerPhases, NoSession, BeforeNet, Starting,
        flags, errors, sess, callers, joiners, conn, tracker, history
<1>1. ASSUME NEW c \in Callers, NEW b \in BOOLEAN, CallConnect(c, b) PROVE TrackerPhases'
  BY <1>1 DEF CallConnect
<1>2. ASSUME NEW c \in Callers, SetUserInitiated(c) PROVE TrackerPhases'
  BY <1>2 DEF SetUserInitiated
<1>3. ASSUME NEW c \in Callers, ShowConnecting(c) PROVE TrackerPhases'
  BY <1>3 DEF ShowConnecting
<1>4. ASSUME NEW c \in Callers, LockTry(c) PROVE TrackerPhases'
  BY <1>4 DEF LockTry
<1>5. ASSUME NEW c \in Callers, StartFirst(c) PROVE TrackerPhases'
  BY <1>5 DEF StartFirst, StartConn
<1>6. ASSUME NEW c \in Callers, StopPrevious(c) PROVE TrackerPhases'
  BY <1>6 DEF StopPrevious
<1>7. ASSUME NEW c \in Callers, DetachReconnect(c) PROVE TrackerPhases'
  BY <1>7 DEF DetachReconnect, CutSocket, Spawn
<1>8. ASSUME NEW c \in Callers, CallDisconnect(c) PROVE TrackerPhases'
  BY <1>8 DEF CallDisconnect
<1>9. ASSUME NEW c \in Callers, ClearUserInitiated(c) PROVE TrackerPhases'
  BY <1>9 DEF ClearUserInitiated
<1>10. ASSUME NEW c \in Callers, CutOnDisconnect(c) PROVE TrackerPhases'
  BY <1>10 DEF CutOnDisconnect, CutSocket
<1>11. ASSUME NEW c \in Callers, DetachDisconnect(c) PROVE TrackerPhases'
  BY <1>11 DEF DetachDisconnect, Spawn
<1>12. ASSUME NEW j \in Joiners, JoinerLocks(j) PROVE TrackerPhases'
  BY <1>12 DEF JoinerLocks
<1>13. ASSUME NEW j \in Joiners, JoinConn(j) PROVE TrackerPhases'
  BY <1>13 DEF JoinConn
<1>14. ASSUME NEW j \in Joiners, JoinNet(j) PROVE TrackerPhases'
  BY <1>14 DEF JoinNet
<1>15. ASSUME NEW j \in Joiners, JoinerResets(j) PROVE TrackerPhases'
  BY <1>15 DEF JoinerResets, DestroySession, Destroyed
<1>16. ASSUME NEW j \in Joiners, JoinerClears(j) PROVE TrackerPhases'
  BY <1>16 DEF JoinerClears
<1>17. ASSUME NEW j \in Joiners, JoinerStarts(j) PROVE TrackerPhases'
  BY <1>17 DEF JoinerStarts, StartConn
<1>18. ASSUME ConnStart PROVE TrackerPhases'
  BY <1>18 DEF ConnStart, ConnGo
<1>19. ASSUME Resolve PROVE TrackerPhases'
  BY <1>19 DEF Resolve
<1>20. ASSUME NextAddress PROVE TrackerPhases'
  BY <1>20 DEF NextAddress
<1>21. ASSUME NEW b \in BOOLEAN, SessionBuilt(b) PROVE TrackerPhases'
  BY <1>21 DEF SessionBuilt, ConnGo
<1>22. ASSUME NEW b \in BOOLEAN, SendHeadsetInfo(b) PROVE TrackerPhases'
  BY <1>22 DEF SendHeadsetInfo, ConnGo
<1>23. ASSUME SessionThrows PROVE TrackerPhases'
  BY <1>23 DEF SessionThrows, ConnGo
<1>24. ASSUME DropSession PROVE TrackerPhases'
  BY <1>24 DEF DropSession, DestroySession, Destroyed, ConnGo
<1>25. ASSUME ConnFailed PROVE TrackerPhases'
  BY <1>25 DEF ConnFailed, DestroySession, Destroyed
<1>26. ASSUME ReportFailure PROVE TrackerPhases'
  BY <1>26 DEF ReportFailure, ConnGo
<1>27. ASSUME SpawnNet PROVE TrackerPhases'
  BY <1>27 DEF SpawnNet
<1>28. ASSUME ReadSession PROVE TrackerPhases'
  BY <1>28 DEF ReadSession, ConnGo
<1>29. ASSUME WriteTrackerSession PROVE TrackerPhases'
  BY <1>29 DEF WriteTrackerSession, ConnGo
<1>30. ASSUME TrackerStart PROVE TrackerPhases'
  BY <1>30 DEF TrackerStart
<1>31. ASSUME TrackerSpawn PROVE TrackerPhases'
  BY <1>31 DEF TrackerSpawn
<1>32. ASSUME JoinNetwork PROVE TrackerPhases'
  BY <1>32 DEF JoinNetwork, ConnGo
<1>33. ASSUME Catch PROVE TrackerPhases'
  BY <1>33 DEF Catch, ConnGo
<1>34. ASSUME CatchStopsTracker PROVE TrackerPhases'
  BY <1>34 DEF CatchStopsTracker, ConnGo
<1>35. ASSUME CatchJoinsTracker PROVE TrackerPhases'
  BY <1>35 DEF CatchJoinsTracker, ConnGo
<1>36. ASSUME CatchResets PROVE TrackerPhases'
  BY <1>36 DEF CatchResets, DestroySession, Destroyed, ConnGo
<1>37. ASSUME HideConnecting PROVE TrackerPhases'
  BY <1>37 DEF HideConnecting, ConnGo
<1>38. ASSUME ConnExits PROVE TrackerPhases'
  BY <1>38 DEF ConnExits, ConnGo
<1>39. ASSUME NetCheck PROVE TrackerPhases'
  BY <1>39 DEF NetCheck, NetGo
<1>40. ASSUME NetPoll PROVE TrackerPhases'
  BY <1>40 DEF NetPoll, NetGo
<1>41. ASSUME NetBreaks PROVE TrackerPhases'
  BY <1>41 DEF NetBreaks, NetGo
<1>42. ASSUME NetReports PROVE TrackerPhases'
  BY <1>42 DEF NetReports, NetGo
<1>43. ASSUME NetClearsTracker PROVE TrackerPhases'
  BY <1>43 DEF NetClearsTracker, NetGo
<1>44. ASSUME NetStopsTracker PROVE TrackerPhases'
  BY <1>44 DEF NetStopsTracker, NetGo
<1>45. ASSUME NetJoinsTracker PROVE TrackerPhases'
  BY <1>45 DEF NetJoinsTracker, NetGo
<1>46. ASSUME NetDestroysSession PROVE TrackerPhases'
  BY <1>46 DEF NetDestroysSession, DestroySession, Destroyed, NetGo
<1>47. ASSUME NetResetsStream PROVE TrackerPhases'
  BY <1>47 DEF NetResetsStream, NetGo
<1>48. ASSUME TrackerExits PROVE TrackerPhases'
  BY <1>48 DEF TrackerExits
<1>49. ASSUME PeerCloses PROVE TrackerPhases'
  BY <1>49 DEF PeerCloses
<1>50. ASSUME UNCHANGED vars PROVE TrackerPhases'
  BY <1>50 DEF vars
<1>51. QED
  BY <1>1, <1>2, <1>3, <1>4, <1>5, <1>6, <1>7, <1>8, <1>9, <1>10, <1>11,
     <1>12, <1>13, <1>14, <1>15, <1>16, <1>17, <1>18, <1>19, <1>20, <1>21,
     <1>22, <1>23, <1>24, <1>25, <1>26, <1>27, <1>28, <1>29, <1>30, <1>31,
     <1>32, <1>33, <1>34, <1>35, <1>36, <1>37, <1>38, <1>39, <1>40, <1>41,
     <1>42, <1>43, <1>44, <1>45, <1>46, <1>47, <1>48, <1>49, <1>50
  DEF Next, CallerNext, JoinerNext, ConnNext, NetNext

\* The inductive invariant holds in every behaviour.
THEOREM Inductive == Spec => []IInv
<1>1. Init => IInv
  <2> SUFFICES ASSUME Init PROVE IInv
    OBVIOUS
  <2>1. FlagsOK
    BY Zenon DEF Init, FlagsOK
  <2>2. DataOK
    BY CallersAssumption, CountsAssumption, NoOneAssumption
    DEF Init, DataOK, CallPcs, JoinPcs, ConnPcs, NetPcs, Pointers
  <2>3. Locking /\ Phases
    BY NoOneAssumption
    DEF Init, Locking, Holding, Phases, Joined, SessionBelongsToAttempt,
        CleanAttempt, NoErrorWhileStreaming, HandlesNotOverwritten, NoSession,
        BeforeNet
  <2>4. TrackerPhases
    BY DEF Init, TrackerPhases, NoSession, BeforeNet, Starting
  <2>5. QED
    BY <2>1, <2>2, <2>3, <2>4 DEF IInv, TypeOK
<1>2. IInv /\ [Next]_vars => IInv'
  BY FlagsStep, DataStep, LockingStep, PhasesStep, TrackerStep DEF IInv, TypeOK
<1>3. QED
  BY <1>1, <1>2, PTL DEF Spec

\* Every variable of the connection keeps its type.
THEOREM TypeCorrect == Spec => []TypeOK
<1>1. IInv => TypeOK
  BY DEF IInv
<1>2. QED
  BY <1>1, Inductive, PTL

\* No interleaving of connects and disconnects assigns a joinable
\* connect_thread or network_thread (std::terminate).
THEOREM NoTerminate == Spec => []HandlesNotOverwritten
<1>1. IInv => HandlesNotOverwritten
  BY DEF IInv, Phases
<1>2. QED
  BY <1>1, Inductive, PTL

\* Outside an attempt there is no session, and no network thread outside the
\* part of an attempt that follows its start.
THEOREM SessionScoped == Spec => []SessionBelongsToAttempt
<1>1. IInv => SessionBelongsToAttempt
  BY DEF IInv, Phases
<1>2. QED
  BY <1>1, Inductive, PTL

\* The joiner that resets the session is alone with it.
THEOREM ResetsAlone == Spec => []JoinerResetsAlone
<1>1. IInv => JoinerResetsAlone
  BY DEF IInv, Phases, Joined, SessionBelongsToAttempt, JoinerResetsAlone,
         NoSession, BeforeNet
<1>2. QED
  BY <1>1, Inductive, PTL

\* Every attempt starts from a clean stream state.
THEOREM AttemptsClean == Spec => []CleanAttempt
<1>1. IInv => CleanAttempt
  BY DEF IInv, Phases
<1>2. QED
  BY <1>1, Inductive, PTL

\* No connection error is on display while packets are received.
THEOREM NoStaleError == Spec => []NoErrorWhileStreaming
<1>1. IInv => NoErrorWhileStreaming
  BY DEF IInv, Phases
<1>2. QED
  BY <1>1, Inductive, PTL

\* A dangling session pointer in the running tracker, an overwritten tracker
\* thread or a tracker that outlives its connection needs a clean-up that
\* overlapped the start-up.
THEOREM TrackerScoped == Spec => []TrackerWithSession
<1>1. IInv => TrackerWithSession
  BY DEF IInv, TrackerPhases, TrackerWithSession
<1>2. QED
  BY <1>1, Inductive, PTL
=============================================================================
