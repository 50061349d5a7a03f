------------------------- MODULE StreamSessionProof -------------------------
(***************************************************************************)
(* The memory safety of the streaming sessions, for any number of sessions *)
(* and any calls of the HTTP threads: the control thread and the session   *)
(* threads use a session, and the sockets of the broadcast, only while     *)
(* they exist.  At the end, what session::join() relies on, for a host     *)
(* that is left alone.                                                     *)
(***************************************************************************)
EXTENDS StreamSession, FiniteSetTheorems, TLAPS

\* The sessions a pointer may refer to, and those nobody allocated yet.
LiveSet == {s \in Session : Alive(s)}
NoneSet == {s \in Session : state[s] = "none"}

\* Announcing, with a session_t in hand.
Announcing == {"insert", "ref", "push", "ping", "audio", "video", "run",
               "count", "done", "remove"}

\* Announcing, before the session is known to the control thread.
Unknown == {"insert", "ref", "push", "remove"}

\* session::start() holds its handle on the broadcast.
Started == {"push", "ping", "audio", "video", "run", "count", "done"}

Ended(s) == \A k \in Kind : thread[s][k] = "done"

\* What cmd_announce knows of its session at each point.
AnnounceState ==
  /\ rtsp.pc \in Announcing => rtsp.s \in LiveSet
  /\ rtsp.pc \in Unknown => rtsp.s \notin sessions /\ ~controlEnd[rtsp.s]
  /\ rtsp.pc = "insert" => rtsp.s \notin slots
  /\ rtsp.pc \in Started => <<rtsp.s, "session">> \in refs
  /\ rtsp.pc \in Unknown \union {"ping", "audio"} =>
       thread[rtsp.s]["audio"] = "none"
  /\ rtsp.pc \in Unknown \union {"ping", "audio", "video"} =>
       thread[rtsp.s]["video"] = "none"
  /\ rtsp.pc \in Announcing \ {"insert"} /\ rtsp.s \notin slots =>
       controlEnd[rtsp.s] /\ Ended(rtsp.s)

\* What the walk over the slots knows of the session it is at.
ClearState ==
  /\ slots \subseteq LiveSet
  /\ clear.todo \subseteq slots
  /\ clear.pc = "idle" => clear.todo = {}
  /\ clear.pc # "idle" => slotsLock # NoOne
  /\ clear.pc \in {"joinVideo", "joinAudio", "joinControl", "erase"} =>
       clear.cur \in slots \ clear.todo
  /\ clear.pc \in {"joinAudio", "joinControl", "erase"} =>
       thread[clear.cur]["video"] = "done"
  /\ clear.pc \in {"joinControl", "erase"} => thread[clear.cur]["audio"] = "done"
  /\ clear.pc = "erase" => controlEnd[clear.cur]

\* The control thread has said of no session on its list that it let go.
ControlState ==
  /\ control.todo \subseteq sessions
  /\ control.pc # "scan" => control.todo = {}
  /\ control.pc \notin {"off", "exited"} =>
       sessions \subseteq LiveSet /\ \A s \in sessions : ~controlEnd[s]

\* A session nobody allocated has left no trace.
Fresh == \A s \in NoneSet :
           /\ s \notin sessions /\ s \notin slots /\ ~controlEnd[s]
           /\ \A k \in Kind : thread[s][k] = "none"

\* A handle keeps the broadcast up.
HandlesBacked == refs # {} => broadcast = "up"

\* A thread that may use its session has one, and that one has a handle.
ThreadState ==
  \A s \in Session, k \in Kind : thread[s][k] \in {"ping", "capture"} =>
     s \in LiveSet /\ <<s, "session">> \in refs

IInv == /\ TypeOK /\ AnnounceState /\ ClearState /\ ControlState /\ Fresh
        /\ HandlesBacked /\ ThreadState /\ FreshBroadcast

\* What Stop leaves is well typed.
LEMMA StopType ==
  ASSUME NEW s \in Session, TypeOK, Stop(s)
  PROVE  /\ state' \in [Session -> {"none", "STOPPED", "RUNNING", "STOPPING", "destroyed"}]
         /\ shutdownEvent' \in [Session -> BOOLEAN]
  <1>1. state' \in [Session -> {"none", "STOPPED", "RUNNING", "STOPPING", "destroyed"}]
    BY DEF TypeOK, Stop
  <1>2. shutdownEvent \in [Session -> BOOLEAN]
    BY DEF TypeOK
  <1>3. shutdownEvent' = [shutdownEvent EXCEPT ![s] = @ \/ state[s] = "RUNNING"]
    BY DEF Stop
  <1>4. QED
    BY <1>1, <1>2, <1>3

\* What Destroy leaves is well typed.
LEMMA DestroyType ==
  ASSUME NEW s \in Session, TypeOK, Destroy(s)
  PROVE  /\ state' \in [Session -> {"none", "STOPPED", "RUNNING", "STOPPING", "destroyed"}]
         /\ shutdownEvent' \in [Session -> BOOLEAN]
         /\ controlEnd' \in [Session -> BOOLEAN]
         /\ peer' \in [Session -> BOOLEAN]
         /\ deadline' \in [Session -> {"unset", "armed", "passed"}]
         /\ thread' = thread /\ silent' = silent
         /\ broadcast' \in {"down", "up", "ending"}
         /\ refs' \subseteq (Session \X (Kind \union {"session"}))
         /\ broadcastShutdown' \in BOOLEAN
  <1>1. /\ state' \in [Session -> {"none", "STOPPED", "RUNNING", "STOPPING", "destroyed"}]
        /\ deadline' \in [Session -> {"unset", "armed", "passed"}]
        /\ thread' = thread /\ silent' = silent
        /\ refs' \subseteq (Session \X (Kind \union {"session"}))
    BY DEF TypeOK, Destroy
  <1>2. /\ shutdownEvent' \in [Session -> BOOLEAN]
        /\ controlEnd' \in [Session -> BOOLEAN]
        /\ peer' \in [Session -> BOOLEAN]
    BY DEF TypeOK, Destroy
  <1>3. broadcast' \in {"down", "up", "ending"} /\ broadcastShutdown' \in BOOLEAN
    BY DEF TypeOK, Destroy
  <1>4. QED
    BY <1>1, <1>2, <1>3

\* A live session was allocated.
LEMMA Disjoint == \A s \in LiveSet : s \in Session /\ s \notin NoneSet
  BY DEF LiveSet, NoneSet, Alive

\* session::stop() neither creates nor destroys a session.
LEMMA StopKeeps ==
  ASSUME NEW s \in Session, TypeOK, Stop(s)
  PROVE  LiveSet' = LiveSet /\ NoneSet' = NoneSet
  BY DEF TypeOK, Stop, LiveSet, NoneSet, Alive

\* The last shared_ptr of a session destroys that one and no other.
LEMMA DestroyDrops ==
  ASSUME NEW s \in LiveSet, TypeOK, Destroy(s)
  PROVE  LiveSet' = LiveSet \ {s} /\ NoneSet' = NoneSet
  BY DEF TypeOK, Destroy, LiveSet, NoneSet, Alive

\* make_shared<session_t> adds one session that was not there before.
LEMMA AllocAdds ==
  ASSUME NEW s \in Session, TypeOK, Alloc(s)
  PROVE  LiveSet' = LiveSet \union {s} /\ NoneSet' = NoneSet \ {s} /\ s \in NoneSet
  BY DEF TypeOK, Alloc, LiveSet, NoneSet, Alive

\* Setting a session RUNNING neither creates nor destroys one.
LEMMA RunKeeps ==
  ASSUME TypeOK, SetRunning, rtsp.s \in LiveSet
  PROVE  LiveSet' = LiveSet /\ NoneSet' = NoneSet
  BY DEF TypeOK, SetRunning, LiveSet, NoneSet, Alive

\* A step that leaves the states alone leaves both sets alone.
LEMMA SameState == state' = state => LiveSet' = LiveSet /\ NoneSet' = NoneSet
  BY DEF LiveSet, NoneSet, Alive

-----------------------------------------------------------------------------
(* The start, and one lemma per conjunct of the invariant *)

\* The program starts with no session and no broadcast.
LEMMA InitIInv == Init => IInv
  <1> SUFFICES ASSUME Init PROVE IInv
    OBVIOUS
  <1>1. TypeOK
    <2>1. /\ thread \in [Session -> [Kind -> ThreadPC]]
          /\ clear \in [pc: ClearPC, mode: Modes \union {"none"}, todo: SUBSET Session,
                        cur: Session \union {NoSession}]
          /\ rtsp \in [pc: RtspPC, s: Session \union {NoSession}]
          /\ control \in [pc: ControlPC, todo: SUBSET Session, awaiting: BOOLEAN]
      BY DEF Init, ClearPC, RtspPC, ControlPC, ThreadPC
    <2>2. /\ shutdownEvent \in [Session -> BOOLEAN]
          /\ controlEnd \in [Session -> BOOLEAN]
          /\ peer \in [Session -> BOOLEAN]
      BY DEF Init
    <2>3. /\ state \in [Session -> {"none", "STOPPED", "RUNNING", "STOPPING", "destroyed"}]
          /\ deadline \in [Session -> {"unset", "armed", "passed"}]
      BY DEF Init
    <2>4. slotsLock \in Cleaner \union {NoOne} /\ runningSessions \in Int
      BY DEF Init
    <2>5. /\ silent \subseteq Session /\ slots \subseteq Session /\ sessions \subseteq Session
          /\ refs \subseteq (Session \X (Kind \union {"session"}))
      BY DEF Init
    <2>6. /\ main \in {"view", "walk", "stopped"} /\ launched \in BOOLEAN
          /\ broadcast \in {"down", "up", "ending"} /\ broadcastShutdown \in BOOLEAN
          /\ senders \in {"off", "running"} /\ sessionState \in {"STOPPED", "RUNNING"}
          /\ proc \in {"none", "running", "exited"} /\ shutdown \in BOOLEAN
          /\ aborted \in BOOLEAN
      BY DEF Init
    <2>7. QED
      BY <2>1, <2>2, <2>3, <2>4, <2>5, <2>6 DEF TypeOK
  <1>2. AnnounceState /\ ClearState /\ ControlState
    BY DEF Init, AnnounceState, Announcing, Unknown, Started, ClearState, ControlState
  <1>3. Fresh /\ HandlesBacked /\ ThreadState /\ FreshBroadcast
    BY DEF Init, Fresh, HandlesBacked, ThreadState, FreshBroadcast, NoneSet, Kind
  <1>4. QED
    BY <1>1, <1>2, <1>3 DEF IInv

\* No step takes a variable out of its type.
LEMMA TypeStep == IInv /\ [Next]_vars => TypeOK'
  <1> SUFFICES ASSUME IInv, [Next]_vars PROVE TypeOK'
    OBVIOUS
  <1> USE SessionAssumption DEF TypeOK, ClearPC, AnnouncePC, RtspPC, ControlPC, ThreadPC,
          Kind, Cleaner, Modes, Calls, sessionVars, rtspVars, broadcastVars, processVars
  <1>1. CASE RtspTop
    BY <1>1 DEF IInv, RtspTop
  <1>2. CASE IterateTimesOut
    BY <1>2 DEF IInv, IterateTimesOut
  <1>3. ASSUME NEW s \in Session, Alloc(s) PROVE TypeOK'
    BY <1>3 DEF IInv, Alloc
  <1>4. CASE Insert
    BY <1>4 DEF IInv, AnnounceState, Announcing, LiveSet, Insert
  <1>5. CASE RefBroadcast
    BY <1>5 DEF IInv, AnnounceState, Announcing, LiveSet, RefBroadcast
  <1>6. CASE StartBroadcast
    BY <1>6 DEF IInv, AnnounceState, Announcing, LiveSet, StartBroadcast
  <1>7. CASE StartBroadcastFails
    BY <1>7 DEF IInv, StartBroadcastFails
  <1>8. CASE Remove
    <2>1. rtsp' \in [pc: RtspPC, s: Session \union {NoSession}]
      BY <1>8 DEF IInv, Remove
    <2>2. QED
      BY <1>8, <2>1, DestroyType DEF IInv, AnnounceState, Announcing, LiveSet, Remove
  <1>9. CASE Push
    BY <1>9 DEF IInv, AnnounceState, Announcing, LiveSet, Push
  <1>10. CASE ArmPing
    BY <1>10 DEF IInv, AnnounceState, Announcing, LiveSet, ArmPing
  <1>11. CASE Spawn("audio", "video")
    BY SMTT(30), <1>11 DEF IInv, AnnounceState, Announcing, LiveSet, Spawn
  <1>12. CASE Spawn("video", "run")
    BY <1>12 DEF IInv, AnnounceState, Announcing, LiveSet, Spawn
  <1>13. CASE SetRunning
    BY <1>13 DEF IInv, AnnounceState, Announcing, LiveSet, SetRunning
  <1>14. CASE CountSession
    BY <1>14 DEF IInv, CountSession
  <1>15. CASE AnnounceDone
    <2>1. rtsp' \in [pc: RtspPC, s: Session \union {NoSession}]
      BY <1>15 DEF IInv, AnnounceDone
    <2>2. QED
      BY <1>15, <2>1, DestroyType DEF IInv, AnnounceState, Announcing, LiveSet, AnnounceDone
  <1>16. CASE RtspClear
    BY <1>16 DEF IInv, RtspClear, ClearBegin
  <1>17. CASE RtspLastClear
    BY <1>17 DEF IInv, RtspLastClear, ClearBegin
  <1>18. CASE MainClear
    BY <1>18 DEF IInv, MainClear, ClearBegin
  <1>19. ASSUME NEW s \in Session, Skip(s) PROVE TypeOK'
    <2>1. clear' \in [pc: ClearPC, mode: Modes \union {"none"}, todo: SUBSET Session,
                      cur: Session \union {NoSession}]
      BY <1>19 DEF IInv, Skip
    <2>2. QED
      BY <1>19, <2>1 DEF IInv, Skip, OnlyClear
  <1>20. ASSUME NEW s \in Session, StopSlot(s) PROVE TypeOK'
    <2>1. clear' \in [pc: ClearPC, mode: Modes \union {"none"}, todo: SUBSET Session,
                      cur: Session \union {NoSession}]
      BY <1>20 DEF IInv, StopSlot
    <2>2. QED
      BY SMTT(30), <1>20, <2>1, StopType DEF IInv, StopSlot, OnlyClear
  <1>21. CASE JoinThread("video", "joinVideo", "joinAudio")
    <2>1. clear' \in [pc: ClearPC, mode: Modes \union {"none"}, todo: SUBSET Session,
                      cur: Session \union {NoSession}]
      BY <1>21 DEF IInv, JoinThread
    <2>2. aborted' \in BOOLEAN
      BY <1>21 DEF IInv, JoinThread
    <2>3. QED
      BY <1>21, <2>1, <2>2 DEF IInv, JoinThread, OnlyClear
  <1>22. CASE JoinThread("audio", "joinAudio", "joinControl")
    <2>1. clear' \in [pc: ClearPC, mode: Modes \union {"none"}, todo: SUBSET Session,
                      cur: Session \union {NoSession}]
      BY <1>22 DEF IInv, JoinThread
    <2>2. aborted' \in BOOLEAN
      BY <1>22 DEF IInv, JoinThread
    <2>3. QED
      BY <1>22, <2>1, <2>2 DEF IInv, JoinThread, OnlyClear
  <1>23. CASE JoinControl
    <2>1. clear' \in [pc: ClearPC, mode: Modes \union {"none"}, todo: SUBSET Session,
                      cur: Session \union {NoSession}]
      BY <1>23 DEF IInv, JoinControl
    <2>2. runningSessions' \in Int
      BY <1>23 DEF IInv, JoinControl, DropSession
    <2>3. proc' \in {"none", "running", "exited"} /\ sessionState' \in {"STOPPED", "RUNNING"}
      BY <1>23 DEF IInv, JoinControl
    <2>4. QED
      BY <1>23, <2>1, <2>2, <2>3 DEF IInv, JoinControl, OnlyClear
  <1>24. CASE Erase
    <2>1. clear' \in [pc: ClearPC, mode: Modes \union {"none"}, todo: SUBSET Session,
                      cur: Session \union {NoSession}]
      BY <1>24 DEF IInv, Erase
    <2>2. slots' \in SUBSET Session
      BY <1>24 DEF IInv, Erase
    <2>3. QED
      BY <1>24, <2>1, <2>2, DestroyType DEF IInv, Erase, ClearState
  <1>25. CASE ClearEnd
    <2>1. clear' \in [pc: ClearPC, mode: Modes \union {"none"}, todo: SUBSET Session,
                      cur: Session \union {NoSession}]
      BY <1>25 DEF IInv, ClearEnd
    <2>2. rtsp' \in [pc: RtspPC, s: Session \union {NoSession}]
      BY <1>25 DEF IInv, ClearEnd
    <2>3. launched' \in BOOLEAN
      BY <1>25 DEF IInv, ClearEnd
    <2>4. proc' \in {"none", "running", "exited"}
      BY <1>25 DEF IInv, ClearEnd
    <2>5. sessionState' \in {"STOPPED", "RUNNING"}
      BY <1>25 DEF IInv, ClearEnd
    <2>6. main' \in {"view", "walk", "stopped"}
      BY <1>25 DEF IInv, ClearEnd
    <2>7. QED
      BY <1>25, <2>1, <2>2, <2>3, <2>4, <2>5, <2>6 DEF IInv, ClearEnd
  <1>26. CASE SendersExit
    BY <1>26 DEF IInv, SendersExit
  <1>27. CASE EndBroadcast
    <2>1. control' \in [pc: ControlPC, todo: SUBSET Session, awaiting: BOOLEAN]
      BY <1>27 DEF IInv, EndBroadcast
    <2>2. clear' \in [pc: ClearPC, mode: Modes \union {"none"}, todo: SUBSET Session,
                      cur: Session \union {NoSession}]
      BY <1>27 DEF IInv, EndBroadcast
    <2>3. rtsp' \in [pc: RtspPC, s: Session \union {NoSession}]
      BY <1>27 DEF IInv, EndBroadcast
    <2>4. QED
      BY ZenonT(60), <1>27, <2>1, <2>2, <2>3 DEF IInv, EndBroadcast, ResetShutdown
  <1>28. CASE ControlTop
    BY <1>28 DEF IInv, ControlTop, OnlyControl
  <1>29. CASE ControlScanEnd
    <2>1. control' \in [pc: ControlPC, todo: SUBSET Session, awaiting: BOOLEAN]
      BY <1>29 DEF IInv, ControlScanEnd
    <2>2. QED
      BY <1>29, <2>1 DEF IInv, ControlScanEnd, OnlyControl
  <1>30. ASSUME NEW s \in Session, ControlScan(s) PROVE TypeOK'
    <2>1. control' \in [pc: ControlPC, todo: SUBSET Session, awaiting: BOOLEAN]
      <3>1. /\ control \in [pc: ControlPC, todo: SUBSET Session, awaiting: BOOLEAN]
            /\ peer \in [Session -> BOOLEAN]
        BY DEF IInv
      <3>2. CASE control' = [control EXCEPT !.todo = @ \ {s}]
        BY <3>1, <3>2
      <3>3. CASE control' = [control EXCEPT !.todo = @ \ {s}, !.awaiting = @ \/ ~peer[s]]
        BY <3>1, <3>3
      <3>4. QED
        BY <1>30, <3>2, <3>3 DEF ControlScan
    <2>2. controlEnd' \in [Session -> BOOLEAN]
      BY <1>30 DEF IInv, ControlScan, LetGo
    <2>3. peer' \in [Session -> BOOLEAN]
      BY <1>30 DEF IInv, ControlScan
    <2>4. QED
      BY <1>30, <2>1, <2>2, <2>3, StopType DEF IInv, ControlScan, OnlyControl
  <1>31. CASE ControlDecide
    <2>1. control' \in [pc: ControlPC, todo: SUBSET Session, awaiting: BOOLEAN]
      BY <1>31 DEF IInv, ControlDecide
    <2>2. proc' \in {"none", "running", "exited"}
      BY <1>31 DEF IInv, ControlDecide, NoticeExit
    <2>3. sessionState' \in {"STOPPED", "RUNNING"}
      BY <1>31 DEF IInv, ControlDecide, NoticeExit
    <2>4. QED
      BY <1>31, <2>1, <2>2, <2>3 DEF IInv, ControlDecide, OnlyControl
  <1>32. CASE ControlNothing
    BY <1>32 DEF IInv, ControlNothing, IterateEnds, OnlyControl
  <1>33. CASE ControlFarewell
    BY <1>33 DEF IInv, ControlFarewell, OnlyControl
  <1>34. ASSUME NEW s \in Session, NEW k \in Kind, ThreadStep(s, k) PROVE TypeOK'
    <2>1. ThreadEnds(s, k)
      BY <1>34 DEF ThreadStep, PingTimesOut, CaptureStops
    <2>2. thread' \in [Session -> [Kind -> ThreadPC]]
      BY <2>1 DEF IInv, ThreadEnds
    <2>3. QED
      BY <2>1, <2>2, StopType DEF IInv, ThreadEnds, OnlyThread
  <1>35. ASSUME NEW s \in Session, ClientGoesSilent(s) PROVE TypeOK'
    BY <1>35 DEF IInv, ClientGoesSilent
  <1>36. ASSUME NEW s \in Session, DeadlinePasses(s) PROVE TypeOK'
    BY <1>36 DEF IInv, DeadlinePasses
  <1>37. CASE AppExits
    BY <1>37 DEF IInv, AppExits
  <1>38. CASE ShutDown
    BY <1>38 DEF IInv, ShutDown
  <1>39. ASSUME NEW m \in HttpModes, HttpClear(m) PROVE TypeOK'
    BY <1>39 DEF IInv, HttpClear, ClearBegin, NoticeExit
  <1>40. ASSUME NEW s \in Session, ControlConnect(s) PROVE TypeOK'
    BY <1>40 DEF IInv, ControlConnect, IterateEnds, OnlyControl
  <1>41. ASSUME NEW s \in Session, ControlReceive(s) PROVE TypeOK'
    BY SMTT(30), <1>41 DEF IInv, ControlReceive, IterateEnds, OnlyControl
  <1>42. ASSUME NEW s \in Session, ControlDisconnect(s) PROVE TypeOK'
    BY SMTT(30), <1>42, StopType DEF IInv, ControlDisconnect, IterateEnds, OnlyControl
  <1>43. ASSUME NEW s \in Session, NEW k \in Kind, PingArrives(s, k) PROVE TypeOK'
    BY <1>43 DEF IInv, PingArrives, OnlyThread
  <1>44. ASSUME NEW s \in Session, NEW k \in Kind, CaptureFails(s, k) PROVE TypeOK'
    <2>1. ThreadEnds(s, k)
      BY <1>44 DEF CaptureFails
    <2>2. thread' \in [Session -> [Kind -> ThreadPC]]
      BY <2>1 DEF IInv, ThreadEnds
    <2>3. QED
      BY <2>1, <2>2, StopType DEF IInv, ThreadEnds, OnlyThread
  <1>45. CASE UNCHANGED vars
    BY <1>45 DEF IInv, vars
  <1>46. QED
    BY <1>1, <1>2, <1>3, <1>4, <1>5, <1>6, <1>7, <1>8, <1>9, <1>10, <1>11, <1>12, <1>13,
       <1>14, <1>15, <1>16, <1>17, <1>18, <1>19, <1>20, <1>21, <1>22, <1>23, <1>24, <1>25,
              <1>26, <1>27, <1>28, <1>29, <1>30, <1>31, <1>32, <1>33, <1>34, <1>35, <1>36,
                     <1>37, <1>38, <1>39, <1>40, <1>41, <1>42, <1>43, <1>44, <1>45
       DEF Next, Step, Environment, Announce, ClearStep, ControlStep, ClientEvent

\* broadcast_shutdown is raised while a context ends, and at no other time.
LEMMA FreshStep == IInv /\ [Next]_vars => FreshBroadcast'
  <1> SUFFICES ASSUME IInv, [Next]_vars PROVE FreshBroadcast'
    OBVIOUS
  <1>1. \/ UNCHANGED <<broadcast, broadcastShutdown>>
        \/ UNCHANGED broadcastShutdown /\ broadcast = "down"
        \/ \E s \in Session \union {NoSession} : Destroy(s)
        \/ SendersExit \/ EndBroadcast
    BY DEF Next, Step, Environment, Announce, ClearStep, ControlStep, ClientEvent, ThreadStep,
       vars, sessionVars, rtspVars, broadcastVars, processVars, RtspTop, IterateTimesOut,
       Alloc, Insert, RefBroadcast, StartBroadcast, StartBroadcastFails, Remove, Push,
       ArmPing, Spawn, SetRunning, CountSession, AnnounceDone, RtspClear, RtspLastClear,
       MainClear, HttpClear, ClearBegin, Skip, StopSlot, JoinThread, JoinControl, Erase,
       ClearEnd, OnlyClear, ControlTop, ControlScan, ControlScanEnd, ControlDecide,
       ControlNothing, ControlConnect, ControlReceive, ControlDisconnect, ControlFarewell,
       OnlyControl, PingArrives, PingTimesOut, CaptureStops, CaptureFails, ThreadEnds,
       OnlyThread, ClientGoesSilent, DeadlinePasses, AppExits, ShutDown, IInv, TypeOK
  <1>2. QED
    BY <1>1 DEF IInv, FreshBroadcast, Destroy, SendersExit, EndBroadcast, ResetShutdown

\* The list of the control thread holds live sessions only.
LEMMA ControlStateStep == IInv /\ [Next]_vars => ControlState'
  <1> SUFFICES ASSUME IInv, [Next]_vars PROVE ControlState'
    OBVIOUS
  <1> USE DEF IInv, ControlState
  <1>1. \/ UNCHANGED <<control, sessions, controlEnd, state>>
        \/ UNCHANGED <<control, sessions, controlEnd>> /\ \E s \in Session : Stop(s)
        \/ (\E s \in Session : Alloc(s)) \/ SetRunning \/ StartBroadcast \/ Remove
        \/ Push \/ AnnounceDone \/ Erase \/ EndBroadcast \/ ControlTop
        \/ (\E s \in Session : ControlScan(s)) \/ ControlScanEnd \/ ControlDecide
        \/ ControlNothing \/ (\E s \in Session : ControlConnect(s))
        \/ (\E s \in Session : ControlReceive(s))
        \/ (\E s \in Session : ControlDisconnect(s)) \/ ControlFarewell
    BY ZenonT(60) DEF Next, Step, Environment, Announce, ClearStep, ControlStep, ClientEvent, ThreadStep,
           vars, sessionVars, rtspVars, broadcastVars, processVars,
           RtspTop, IterateTimesOut, Alloc, Insert, RefBroadcast, StartBroadcast,
           StartBroadcastFails,
           Remove, Push, ArmPing, Spawn, SetRunning, CountSession, AnnounceDone,
           RtspClear, RtspLastClear, MainClear, HttpClear, ClearBegin, Skip, StopSlot,
           JoinThread, JoinControl, Erase, ClearEnd, OnlyClear,
           ControlTop, ControlScan, ControlScanEnd, ControlDecide, ControlNothing,
           ControlConnect, ControlReceive, ControlDisconnect, ControlFarewell, OnlyControl,
           PingArrives, PingTimesOut, CaptureStops, CaptureFails, ThreadEnds, OnlyThread,
           ClientGoesSilent, DeadlinePasses, AppExits, ShutDown, SendersExit, EndBroadcast
  <1>2. CASE /\ UNCHANGED <<control, sessions, controlEnd>>
             /\ UNCHANGED state \/ \E s \in Session : Stop(s)
    <2>1. LiveSet' = LiveSet /\ NoneSet' = NoneSet
      BY <1>2, SameState, StopKeeps
    <2>2. UNCHANGED <<control, sessions, controlEnd>>
      BY <1>2
    <2>3. QED
      BY <2>1, <2>2
  <1>3. ASSUME NEW s \in Session, Alloc(s) PROVE ControlState'
    <2>1. UNCHANGED <<control, sessions, controlEnd>>
      BY <1>3 DEF Alloc, broadcastVars
    <2>2. QED
      BY <1>3, <2>1, AllocAdds
  <1>4. CASE SetRunning
    <2>1. UNCHANGED <<control, sessions, controlEnd>> /\ rtsp.s \in LiveSet
      BY <1>4 DEF SetRunning, AnnounceState, Announcing, broadcastVars
    <2>2. QED
      BY <1>4, <2>1, RunKeeps
  <1>5. CASE StartBroadcast
    BY <1>5 DEF StartBroadcast
  <1>6. CASE Remove
    BY ZenonT(60), <1>6, DestroyDrops DEF Remove, Destroy, AnnounceState, Unknown, Announcing, TypeOK
  <1>7. CASE Push
    BY <1>7, SameState DEF Push, AnnounceState, Unknown, Announcing, sessionVars
  <1>8. CASE AnnounceDone
    <2>1. UNCHANGED <<control, sessions>>
      BY <1>8 DEF AnnounceDone
    <2>2. CASE UNCHANGED sessionVars
      BY <2>1, <2>2, SameState DEF sessionVars
    <2>3. CASE Destroy(rtsp.s) /\ rtsp.s \notin slots
      <3>1. rtsp.s \in LiveSet /\ controlEnd[rtsp.s]
        BY <1>8, <2>3 DEF AnnounceDone, AnnounceState, Announcing
      <3>2. control.pc \notin {"off", "exited"} => rtsp.s \notin sessions
        BY <3>1
      <3>3. LiveSet' = LiveSet \ {rtsp.s}
        BY <2>3, <3>1, DestroyDrops
      <3>4. \A s \in sessions : ~controlEnd[s] => ~controlEnd'[s]
        BY <2>3 DEF Destroy, TypeOK
      <3>5. QED
        BY <2>1, <3>2, <3>3, <3>4
    <2>4. QED
      BY <1>8, <2>2, <2>3 DEF AnnounceDone
  <1>9. CASE Erase
    <2>1. UNCHANGED <<control, sessions>>
      BY <1>9 DEF Erase
    <2>2. CASE UNCHANGED sessionVars
      BY <2>1, <2>2, SameState DEF sessionVars
    <2>3. CASE Destroy(clear.cur)
      <3>1. clear.cur \in LiveSet /\ controlEnd[clear.cur]
        BY <1>9, <2>3 DEF Erase, ClearState
      <3>2. control.pc \notin {"off", "exited"} => clear.cur \notin sessions
        BY <3>1
      <3>3. LiveSet' = LiveSet \ {clear.cur}
        BY <2>3, <3>1, DestroyDrops
      <3>4. \A s \in sessions : ~controlEnd[s] => ~controlEnd'[s]
        BY <2>3 DEF Destroy, TypeOK
      <3>5. QED
        BY <2>1, <3>2, <3>3, <3>4
    <2>4. QED
      BY <1>9, <2>2, <2>3 DEF Erase
  <1>10. CASE EndBroadcast
    BY <1>10 DEF EndBroadcast
  <1>11. CASE ControlTop
    BY <1>11, SameState DEF ControlTop, OnlyControl, TypeOK
  <1>12. ASSUME NEW s \in Session, ControlScan(s) PROVE ControlState'
    <2>1. LiveSet' = LiveSet
      BY <1>12, StopKeeps DEF ControlScan, LiveSet, Alive
    <2>2. control'.todo = control.todo \ {s} /\ control'.pc = "scan"
      BY <1>12 DEF ControlScan, TypeOK
    <2>3. \/ sessions' = sessions \ {s} /\ controlEnd' = [controlEnd EXCEPT ![s] = TRUE]
          \/ UNCHANGED <<sessions, controlEnd>>
      BY <1>12 DEF ControlScan, LetGo
    <2>4. QED
      BY <1>12, <2>1, <2>2, <2>3 DEF ControlScan, TypeOK
  <1>13. CASE ControlScanEnd
    BY <1>13, SameState DEF ControlScanEnd, TypeOK
  <1>14. CASE ControlDecide
    BY <1>14, SameState DEF ControlDecide, TypeOK
  <1>15. CASE ControlNothing
    BY <1>15, SameState DEF ControlNothing, IterateEnds, TypeOK
  <1>16. ASSUME NEW s \in Session, ControlConnect(s) PROVE ControlState'
    BY <1>16, SameState DEF ControlConnect, IterateEnds, TypeOK
  <1>17. ASSUME NEW s \in Session, ControlReceive(s) PROVE ControlState'
    BY <1>17, SameState DEF ControlReceive, IterateEnds, TypeOK
  <1>18. ASSUME NEW s \in Session, ControlDisconnect(s) PROVE ControlState'
    BY <1>18, StopKeeps DEF ControlDisconnect, IterateEnds, TypeOK
  <1>19. CASE ControlFarewell
    BY <1>19 DEF ControlFarewell, TypeOK
  <1>20. QED
    BY <1>1, <1>2, <1>3, <1>4, <1>5, <1>6, <1>7, <1>8, <1>9, <1>10, <1>11, <1>12, <1>13,
       <1>14, <1>15, <1>16, <1>17, <1>18, <1>19

\* A session nobody allocated stays untouched.
LEMMA FreshStateStep == IInv /\ [Next]_vars => Fresh'
  <1> SUFFICES ASSUME IInv, [Next]_vars PROVE Fresh'
    OBVIOUS
  <1> USE DEF IInv, Fresh
  <1>1. \/ UNCHANGED <<sessions, slots, controlEnd, thread, state>>
        \/ UNCHANGED <<sessions, slots, controlEnd, thread>> /\ \E s \in Session : Stop(s)
        \/ (\E s \in Session : Alloc(s)) \/ Insert \/ StartBroadcast \/ Remove
        \/ Push \/ Spawn("audio", "video") \/ Spawn("video", "run") \/ SetRunning
        \/ AnnounceDone \/ Erase \/ EndBroadcast
        \/ (\E s \in Session : ControlScan(s)) \/ ControlFarewell
        \/ (\E s \in Session, k \in Kind : PingArrives(s, k))
        \/ (\E s \in Session, k \in Kind : thread[s][k] \in {"ping", "capture"}
             /\ ThreadEnds(s, k))
    BY ZenonT(60) DEF Next, Step, Environment, Announce, ClearStep, ControlStep, ClientEvent, ThreadStep,
           vars, sessionVars, rtspVars, broadcastVars, processVars,
           RtspTop, IterateTimesOut, Alloc, Insert, RefBroadcast, StartBroadcast,
           StartBroadcastFails,
           Remove, Push, ArmPing, Spawn, SetRunning, CountSession, AnnounceDone,
           RtspClear, RtspLastClear, MainClear, HttpClear, ClearBegin, Skip, StopSlot,
           JoinThread, JoinControl, Erase, ClearEnd, OnlyClear,
           ControlTop, ControlScan, ControlScanEnd, ControlDecide, ControlNothing,
           ControlConnect, ControlReceive, ControlDisconnect, ControlFarewell, OnlyControl,
           PingArrives, PingTimesOut, CaptureStops, CaptureFails, ThreadEnds, OnlyThread,
           ClientGoesSilent, DeadlinePasses, AppExits, ShutDown, SendersExit, EndBroadcast
  <1>2. CASE /\ UNCHANGED <<sessions, slots, controlEnd, thread>>
             /\ UNCHANGED state \/ \E s \in Session : Stop(s)
    <2>1. LiveSet' = LiveSet /\ NoneSet' = NoneSet
      BY <1>2, SameState, StopKeeps
    <2>2. UNCHANGED <<sessions, slots, controlEnd, thread>>
      BY <1>2
    <2>3. QED
      BY <2>1, <2>2
  <1>3. ASSUME NEW s \in Session, Alloc(s) PROVE Fresh'
    BY <1>3, AllocAdds DEF Alloc, broadcastVars
  <1>4. CASE Insert
    BY <1>4, Disjoint, SameState DEF Insert, AnnounceState, Announcing, sessionVars,
       broadcastVars
  <1>5. CASE StartBroadcast
    BY <1>5, SameState DEF StartBroadcast, sessionVars
  <1>6. CASE Remove
    <2>1. rtsp.s \in LiveSet
      BY <1>6 DEF Remove, AnnounceState, Announcing
    <2>2. NoneSet' = NoneSet
      BY <1>6, <2>1, DestroyDrops DEF Remove
    <2>3. QED
      BY <1>6, <2>2 DEF Remove, Destroy, TypeOK, NoneSet
  <1>7. CASE Push
    BY <1>7, Disjoint, SameState DEF Push, AnnounceState, Announcing, sessionVars
  <1>8. CASE Spawn("audio", "video")
    <2>1. rtsp.s \in LiveSet
      BY <1>8 DEF Spawn, AnnounceState, Announcing
    <2>2. QED
      BY <1>8, <2>1, Disjoint, SameState DEF Spawn, TypeOK, NoneSet
  <1>9. CASE Spawn("video", "run")
    <2>1. rtsp.s \in LiveSet
      BY <1>9 DEF Spawn, AnnounceState, Announcing
    <2>2. QED
      BY <1>9, <2>1, Disjoint, SameState DEF Spawn, TypeOK, NoneSet
  <1>10. CASE SetRunning
    <2>1. rtsp.s \in LiveSet
      BY <1>10 DEF SetRunning, AnnounceState, Announcing
    <2>2. QED
      BY <1>10, <2>1, RunKeeps DEF SetRunning, broadcastVars
  <1>11. CASE AnnounceDone
    <2>1. CASE UNCHANGED sessionVars
      BY <1>11, <2>1, SameState DEF AnnounceDone, sessionVars
    <2>2. CASE Destroy(rtsp.s)
      <3>1. rtsp.s \in LiveSet
        BY <1>11 DEF AnnounceDone, AnnounceState, Announcing
      <3>2. NoneSet' = NoneSet
        BY <2>2, <3>1, DestroyDrops
      <3>3. QED
        BY <1>11, <2>2, <3>2 DEF AnnounceDone, Destroy, TypeOK, NoneSet
    <2>3. QED
      BY <1>11, <2>1, <2>2 DEF AnnounceDone
  <1>12. CASE Erase
    <2>1. CASE UNCHANGED sessionVars
      BY <1>12, <2>1, SameState DEF Erase, sessionVars
    <2>2. CASE Destroy(clear.cur)
      <3>1. clear.cur \in LiveSet
        BY <1>12 DEF Erase, ClearState
      <3>2. NoneSet' = NoneSet
        BY <2>2, <3>1, DestroyDrops
      <3>3. QED
        BY <1>12, <2>2, <3>2 DEF Erase, Destroy, TypeOK, NoneSet
    <2>3. QED
      BY <1>12, <2>1, <2>2 DEF Erase
  <1>13. CASE EndBroadcast
    BY <1>13, SameState DEF EndBroadcast, sessionVars
  <1>14. ASSUME NEW s \in Session, ControlScan(s) PROVE Fresh'
    <2>1. NoneSet' = NoneSet
      BY <1>14, StopKeeps, SameState DEF ControlScan
    <2>2. s \in sessions
      BY <1>14 DEF ControlScan, ControlState
    <2>3. UNCHANGED <<slots, thread>> /\ sessions' \subseteq sessions
      BY <1>14 DEF ControlScan, OnlyControl
    <2>4. controlEnd' = controlEnd \/ controlEnd' = [controlEnd EXCEPT ![s] = TRUE]
      BY <1>14 DEF ControlScan, LetGo
    <2>5. \A r \in NoneSet : controlEnd'[r] = controlEnd[r]
      BY <2>2, <2>4 DEF TypeOK, NoneSet
    <2>6. QED
      BY <2>1, <2>3, <2>5
  <1>15. CASE ControlFarewell
    <2>1. \A s \in NoneSet : controlEnd'[s] = controlEnd[s]
      BY <1>15 DEF ControlFarewell, NoneSet, TypeOK
    <2>2. QED
      BY <1>15, <2>1, SameState DEF ControlFarewell, OnlyControl
  <1>16. ASSUME NEW s \in Session, NEW k \in Kind, PingArrives(s, k) PROVE Fresh'
    <2>1. s \in LiveSet
      BY <1>16 DEF PingArrives, ThreadState
    <2>2. QED
      BY <1>16, <2>1, Disjoint, SameState DEF PingArrives, OnlyThread, rtspVars, TypeOK, NoneSet
  <1>17. ASSUME NEW s \in Session, NEW k \in Kind,
                thread[s][k] \in {"ping", "capture"} /\ ThreadEnds(s, k)
         PROVE  Fresh'
    <2>1. s \in LiveSet
      BY <1>17 DEF ThreadState
    <2>2. NoneSet' = NoneSet
      BY <1>17, StopKeeps DEF ThreadEnds
    <2>3. QED
      BY <1>17, <2>1, <2>2, Disjoint DEF ThreadEnds, OnlyThread, rtspVars, TypeOK, NoneSet
  <1>18. QED
    BY <1>1, <1>2, <1>3, <1>4, <1>5, <1>6, <1>7, <1>8, <1>9, <1>10, <1>11, <1>12, <1>13,
       <1>14, <1>15, <1>16, <1>17

\* The conjuncts about handles and threads lean on each other.
Backed == HandlesBacked /\ ThreadState

\* A thread of a session has the session and its handle, and the handle the broadcast.
LEMMA ThreadStateStep == IInv /\ [Next]_vars => Backed'
  <1> SUFFICES ASSUME IInv, [Next]_vars PROVE Backed'
    OBVIOUS
  <1> USE DEF IInv, Backed, HandlesBacked, ThreadState
  <1>1. \/ UNCHANGED <<broadcast, refs, thread, state>>
        \/ UNCHANGED <<broadcast, refs, thread>> /\ \E s \in Session : Stop(s)
        \/ (\E s \in Session : Alloc(s)) \/ RefBroadcast \/ StartBroadcast \/ Remove
        \/ Spawn("audio", "video") \/ Spawn("video", "run") \/ SetRunning
        \/ AnnounceDone \/ Erase \/ EndBroadcast
        \/ (\E s \in Session, k \in Kind : PingArrives(s, k))
        \/ (\E s \in Session, k \in Kind : thread[s][k] \in {"ping", "capture"}
             /\ ThreadEnds(s, k))
    BY ZenonT(60) DEF Next, Step, Environment, Announce, ClearStep, ControlStep, ClientEvent, ThreadStep,
           vars, sessionVars, rtspVars, broadcastVars, processVars,
           RtspTop, IterateTimesOut, Alloc, Insert, RefBroadcast, StartBroadcast,
           StartBroadcastFails,
           Remove, Push, ArmPing, Spawn, SetRunning, CountSession, AnnounceDone,
           RtspClear, RtspLastClear, MainClear, HttpClear, ClearBegin, Skip, StopSlot,
           JoinThread, JoinControl, Erase, ClearEnd, OnlyClear,
           ControlTop, ControlScan, ControlScanEnd, ControlDecide, ControlNothing,
           ControlConnect, ControlReceive, ControlDisconnect, ControlFarewell, OnlyControl,
           PingArrives, PingTimesOut, CaptureStops, CaptureFails, ThreadEnds, OnlyThread,
           ClientGoesSilent, DeadlinePasses, AppExits, ShutDown, SendersExit, EndBroadcast
  <1>2. CASE /\ UNCHANGED <<broadcast, refs, thread>>
             /\ UNCHANGED state \/ \E s \in Session : Stop(s)
    <2>1. LiveSet' = LiveSet /\ NoneSet' = NoneSet
      BY <1>2, SameState, StopKeeps
    <2>2. UNCHANGED <<broadcast, refs, thread>>
      BY <1>2
    <2>3. QED
      BY <2>1, <2>2
  <1>3. ASSUME NEW s \in Session, Alloc(s) PROVE Backed'
    BY <1>3, AllocAdds DEF Alloc, broadcastVars
  <1>4. CASE RefBroadcast
    BY <1>4, SameState DEF RefBroadcast, sessionVars
  <1>5. CASE StartBroadcast
    BY <1>5, SameState DEF StartBroadcast, sessionVars
  <1>6. CASE Remove
    <2>1. rtsp.s \in LiveSet /\ \A k \in Kind : thread[rtsp.s][k] \notin {"ping", "capture"}
      BY <1>6 DEF Remove, AnnounceState, Announcing, Unknown, Kind
    <2>2. LiveSet' = LiveSet \ {rtsp.s}
      BY <1>6, <2>1, DestroyDrops DEF Remove
    <2>3. QED
      BY <1>6, <2>1, <2>2 DEF Remove, Destroy
  <1>7. CASE Spawn("audio", "video")
    <2>1. rtsp.s \in LiveSet /\ <<rtsp.s, "session">> \in refs
      BY <1>7 DEF Spawn, AnnounceState, Announcing, Started
    <2>2. LiveSet' = LiveSet
      BY <1>7, SameState DEF Spawn
    <2>3. QED
      BY <1>7, <2>1, <2>2 DEF Spawn, TypeOK
  <1>8. CASE Spawn("video", "run")
    <2>1. rtsp.s \in LiveSet /\ <<rtsp.s, "session">> \in refs
      BY <1>8 DEF Spawn, AnnounceState, Announcing, Started
    <2>2. LiveSet' = LiveSet
      BY <1>8, SameState DEF Spawn
    <2>3. QED
      BY <1>8, <2>1, <2>2 DEF Spawn, TypeOK
  <1>9. CASE SetRunning
    <2>1. rtsp.s \in LiveSet
      BY <1>9 DEF SetRunning, AnnounceState, Announcing
    <2>2. QED
      BY <1>9, <2>1, RunKeeps DEF SetRunning, broadcastVars
  <1>10. CASE AnnounceDone
    <2>1. CASE UNCHANGED sessionVars /\ UNCHANGED <<broadcast, refs>>
      BY <2>1, SameState DEF sessionVars
    <2>2. CASE Destroy(rtsp.s) /\ rtsp.s \notin slots
      <3>1. rtsp.s \in LiveSet /\ \A k \in Kind : thread[rtsp.s][k] \notin {"ping", "capture"}
        BY <1>10, <2>2 DEF AnnounceDone, AnnounceState, Announcing, Ended, Kind
      <3>2. LiveSet' = LiveSet \ {rtsp.s}
        BY <2>2, <3>1, DestroyDrops
      <3>3. QED
        BY <2>2, <3>1, <3>2 DEF Destroy
    <2>3. QED
      BY <1>10, <2>1, <2>2 DEF AnnounceDone
  <1>11. CASE Erase
    <2>1. CASE UNCHANGED sessionVars /\ UNCHANGED <<broadcast, refs>>
      BY <2>1, SameState DEF sessionVars
    <2>2. CASE Destroy(clear.cur)
      <3>1. /\ clear.cur \in LiveSet
            /\ \A k \in Kind : thread[clear.cur][k] \notin {"ping", "capture"}
        BY <1>11 DEF Erase, ClearState, Kind
      <3>2. LiveSet' = LiveSet \ {clear.cur}
        BY <2>2, <3>1, DestroyDrops
      <3>3. QED
        BY <2>2, <3>1, <3>2 DEF Destroy
    <2>3. QED
      BY <1>11, <2>1, <2>2 DEF Erase
  <1>12. CASE EndBroadcast
    BY <1>12, SameState DEF EndBroadcast, sessionVars
  <1>13. ASSUME NEW s \in Session, NEW k \in Kind, PingArrives(s, k) PROVE Backed'
    BY <1>13, SameState DEF PingArrives, OnlyThread, TypeOK
  <1>14. ASSUME NEW s \in Session, NEW k \in Kind,
                thread[s][k] \in {"ping", "capture"} /\ ThreadEnds(s, k)
         PROVE  Backed'
    <2>1. LiveSet' = LiveSet
      BY <1>14, StopKeeps DEF ThreadEnds
    <2>2. <<s, "session">> \in refs'
      BY <1>14 DEF ThreadEnds, Kind
    <2>3. /\ UNCHANGED broadcast /\ refs' = refs \ {<<s, k>>}
          /\ thread' = [thread EXCEPT ![s][k] = "done"]
      BY <1>14 DEF ThreadEnds, OnlyThread
    <2>4. ThreadState'
      <3> SUFFICES ASSUME NEW r \in Session, NEW j \in Kind, thread'[r][j] \in {"ping",
             "capture"}
                   PROVE  r \in LiveSet' /\ <<r, "session">> \in refs'
        BY DEF ThreadState
      <3>1. thread[r][j] \in {"ping", "capture"}
        BY <2>3 DEF TypeOK
      <3>2. QED
        BY <2>1, <2>3, <3>1 DEF Kind
    <2>5. QED
      BY <2>2, <2>3, <2>4
  <1>15. QED
    BY <1>1, <1>2, <1>3, <1>4, <1>5, <1>6, <1>7, <1>8, <1>9, <1>10, <1>11, <1>12, <1>13, <1>14

\* What cmd_announce knows stays true whatever the other threads do.
LEMMA AnnounceStateStep == IInv /\ [Next]_vars => AnnounceState'
  <1> SUFFICES ASSUME IInv, [Next]_vars PROVE AnnounceState'
    OBVIOUS
  <1> USE DEF IInv, AnnounceState, Announcing, Unknown, Started, Ended
  <1>1. \/ UNCHANGED <<rtsp, sessions, controlEnd, slots, refs, thread, state>>
        \/ UNCHANGED <<rtsp, sessions, controlEnd, slots, refs, thread>>
           /\ \E s \in Session : Stop(s)
        \/ (rtsp'.pc \notin Announcing) \/ (\E s \in Session : Alloc(s)) \/ Insert
        \/ RefBroadcast \/ StartBroadcast \/ StartBroadcastFails \/ Push \/ ArmPing
        \/ Spawn("audio", "video") \/ Spawn("video", "run") \/ SetRunning
        \/ CountSession \/ Erase \/ EndBroadcast
        \/ (\E s \in Session : ControlScan(s)) \/ ControlFarewell
        \/ (\E s \in Session, k \in Kind : thread[s][k] = "ping" /\ PingArrives(s, k))
        \/ (\E s \in Session, k \in Kind : thread[s][k] \in {"ping", "capture"}
             /\ ThreadEnds(s, k))
    <2>1. CASE Announce
      BY <2>1 DEF TypeOK, Announce, RtspTop, IterateTimesOut, Remove, AnnounceDone,
         sessionVars, broadcastVars
    <2>2. CASE RtspClear \/ RtspLastClear \/ MainClear \/ \E m \in HttpModes : HttpClear(m)
      BY <2>2 DEF TypeOK, RtspClear, RtspLastClear, MainClear, HttpClear, ClearBegin,
         sessionVars, broadcastVars
    <2>3. CASE ClearStep
      <3>1. CASE ClearEnd
        BY <3>1 DEF ClearEnd, TypeOK, sessionVars, broadcastVars
      <3>2. QED
        BY <2>3, <3>1 DEF TypeOK, ClearStep, Skip, StopSlot, JoinThread, JoinControl, OnlyClear
    <2>4. CASE ControlStep \/ ClientEvent \/ SendersExit \/ EndBroadcast
      BY <2>4 DEF ControlStep, ClientEvent, ControlTop, ControlScanEnd, ControlDecide,
         ControlNothing,
             ControlConnect, ControlReceive, ControlDisconnect, OnlyControl, SendersExit,
             sessionVars,
             rtspVars, processVars
    <2>5. ASSUME NEW s \in Session, NEW k \in Kind,
                 ThreadStep(s, k) \/ CaptureFails(s, k) \/ PingArrives(s, k)
          PROVE \/ PingArrives(s, k) /\ thread[s][k] = "ping"
                \/ ThreadEnds(s, k) /\ thread[s][k] \in {"ping", "capture"}
      BY <2>5 DEF ThreadStep, PingTimesOut, CaptureStops, CaptureFails, PingArrives
    <2>6. ASSUME NEW s \in Session, ClientGoesSilent(s) \/ DeadlinePasses(s)
          PROVE UNCHANGED <<rtsp, sessions, controlEnd, slots, refs, thread, state>>
      BY <2>6 DEF ClientGoesSilent, DeadlinePasses, AppExits, ShutDown, rtspVars,
         broadcastVars, sessionVars
    <2>7. CASE AppExits \/ ShutDown \/ UNCHANGED vars
      BY <2>7 DEF AppExits, ShutDown, rtspVars, broadcastVars, sessionVars, vars
    <2>8. QED
      BY <2>1, <2>2, <2>3, <2>4, <2>5, <2>6, <2>7 DEF Next, Step, Environment
  <1>2. CASE /\ UNCHANGED <<rtsp, sessions, controlEnd, slots, refs, thread>>
             /\ UNCHANGED state \/ \E s \in Session : Stop(s)
    <2>1. LiveSet' = LiveSet /\ NoneSet' = NoneSet
      BY <1>2, SameState, StopKeeps
    <2>2. UNCHANGED <<rtsp, sessions, controlEnd, slots, refs, thread>>
      BY <1>2
    <2>3. QED
      BY <2>1, <2>2
  <1>3. CASE (rtsp'.pc \notin Announcing)
    BY <1>3
  <1>4. ASSUME NEW s \in Session, Alloc(s) PROVE AnnounceState'
    <2>1. rtsp'.pc = "insert" /\ rtsp'.s = s
      BY <1>4 DEF Alloc
    <2>2. LiveSet' = LiveSet \union {s} /\ s \in NoneSet
      BY <1>4, AllocAdds
    <2>3. UNCHANGED <<sessions, controlEnd, slots, thread>>
      BY <1>4 DEF Alloc, broadcastVars
    <2>4. QED
      BY <2>1, <2>2, <2>3 DEF Fresh, Kind
  <1>5. CASE Insert
    BY <1>5, SameState DEF Insert, sessionVars, broadcastVars, TypeOK
  <1>6. CASE RefBroadcast
    BY <1>6, SameState DEF RefBroadcast, sessionVars, broadcastVars, TypeOK
  <1>7. CASE StartBroadcast
    BY <1>7, SameState DEF StartBroadcast, sessionVars, broadcastVars, TypeOK
  <1>8. CASE StartBroadcastFails
    BY <1>8, SameState DEF StartBroadcastFails, sessionVars, broadcastVars, TypeOK
  <1>9. CASE Push
    BY <1>9, SameState DEF Push, sessionVars, broadcastVars, TypeOK
  <1>10. CASE ArmPing
    BY <1>10, SameState DEF ArmPing, sessionVars, broadcastVars, TypeOK
  <1>11. CASE Spawn("audio", "video")
    <2>1. rtsp.s \in LiveSet /\ rtsp.s \in slots
      BY <1>11 DEF Spawn, Ended, Kind
    <2>2. LiveSet' = LiveSet
      BY <1>11, SameState DEF Spawn
    <2>3. QED
      BY <1>11, <2>1, <2>2 DEF Spawn, TypeOK, LiveSet, Kind
  <1>12. CASE Spawn("video", "run")
    <2>1. rtsp.s \in LiveSet /\ rtsp.s \in slots
      BY <1>12 DEF Spawn, Ended, Kind
    <2>2. LiveSet' = LiveSet
      BY <1>12, SameState DEF Spawn
    <2>3. QED
      BY <1>12, <2>1, <2>2 DEF Spawn, TypeOK, LiveSet, Kind
  <1>13. CASE SetRunning
    <2>1. LiveSet' = LiveSet
      BY <1>13, RunKeeps DEF SetRunning
    <2>2. QED
      BY <1>13, <2>1 DEF SetRunning, broadcastVars, TypeOK, Ended
  <1>14. CASE CountSession
    <2>1. LiveSet' = LiveSet
      BY <1>14, SameState DEF CountSession, sessionVars
    <2>2. QED
      BY <1>14, <2>1 DEF CountSession, sessionVars, broadcastVars, TypeOK, Ended
  <1>15. CASE Erase
    <2>1. UNCHANGED <<rtsp, sessions, thread>> /\ slots' = slots \ {clear.cur}
      BY <1>15 DEF Erase, sessionVars, Destroy
    <2>2. CASE rtsp.s = clear.cur
      <3>1. UNCHANGED <<sessionVars, refs>>
        BY <1>15, <2>2 DEF Erase
      <3>2. controlEnd[clear.cur] /\ Ended(clear.cur)
        BY <1>15 DEF Erase, ClearState, Ended, Kind
      <3>3. QED
        BY <1>15, <2>1, <2>2, <3>1, <3>2, SameState DEF sessionVars, Ended
    <2>3. CASE rtsp.s # clear.cur
      <3>1. Destroy(clear.cur) /\ clear.cur \in LiveSet
        BY <1>15, <2>3 DEF Erase, ClearState
      <3>2. LiveSet' = LiveSet \ {clear.cur}
        BY <3>1, DestroyDrops
      <3>3. /\ refs' = refs \ {<<clear.cur, "session">>}
            /\ controlEnd'[rtsp.s] = controlEnd[rtsp.s]
        BY <2>3, <3>1 DEF Destroy, TypeOK
      <3>4. QED
        BY <2>1, <2>3, <3>2, <3>3 DEF Ended
    <2>4. QED
      BY <2>2, <2>3
  <1>16. CASE EndBroadcast
    BY <1>16, SameState DEF EndBroadcast, sessionVars, broadcastVars, Ended, TypeOK
  <1>17. ASSUME NEW s \in Session, ControlScan(s) PROVE AnnounceState'
    <2>1. LiveSet' = LiveSet
      BY <1>17, StopKeeps, SameState DEF ControlScan
    <2>2. /\ UNCHANGED <<rtsp, slots, refs, thread>> /\ sessions' \subseteq sessions
          /\ s \in sessions
      BY <1>17 DEF ControlScan, OnlyControl, ControlState
    <2>3. controlEnd' = controlEnd \/ controlEnd' = [controlEnd EXCEPT ![s] = TRUE]
      BY <1>17 DEF ControlScan, LetGo
    <2>4. rtsp.s \in Session =>
            /\ controlEnd[rtsp.s] => controlEnd'[rtsp.s]
            /\ rtsp.s \notin sessions => controlEnd'[rtsp.s] = controlEnd[rtsp.s]
      BY <2>2, <2>3 DEF TypeOK
    <2>5. rtsp.pc \in Announcing => rtsp.s \in Session
      BY DEF LiveSet
    <2>6. QED
      BY <2>1, <2>2, <2>4, <2>5 DEF Ended
  <1>18. CASE ControlFarewell
    <2>1. LiveSet' = LiveSet
      BY <1>18, SameState DEF ControlFarewell
    <2>2. UNCHANGED <<rtsp, slots, refs, thread, sessions>>
      BY <1>18 DEF ControlFarewell, OnlyControl
    <2>3. rtsp.s \in Session =>
            /\ controlEnd[rtsp.s] => controlEnd'[rtsp.s]
            /\ rtsp.s \notin sessions => controlEnd'[rtsp.s] = controlEnd[rtsp.s]
      BY <1>18 DEF ControlFarewell, TypeOK
    <2>4. rtsp.pc \in Announcing => rtsp.s \in Session
      BY DEF LiveSet
    <2>5. QED
      BY <2>1, <2>2, <2>3, <2>4 DEF Ended
  <1>19. ASSUME NEW s \in Session, NEW k \in Kind,
                thread[s][k] = "ping" /\ PingArrives(s, k)
         PROVE  AnnounceState'
    <2>1. LiveSet' = LiveSet
      BY <1>19, SameState DEF PingArrives
    <2>2. UNCHANGED <<rtsp, slots, refs, sessions, controlEnd>>
      BY <1>19 DEF PingArrives, OnlyThread, rtspVars
    <2>3. \A r \in Session, j \in Kind : thread[r][j] \in {"none", "done"}
            => thread'[r][j] = thread[r][j]
      BY <1>19 DEF PingArrives, TypeOK
    <2>4. rtsp.pc \in Announcing => rtsp.s \in Session
      BY DEF LiveSet
    <2>5. QED
      BY <2>1, <2>2, <2>3, <2>4 DEF Ended, Kind
  <1>20. ASSUME NEW s \in Session, NEW k \in Kind,
                thread[s][k] \in {"ping", "capture"} /\ ThreadEnds(s, k)
         PROVE  AnnounceState'
    <2>1. LiveSet' = LiveSet
      BY <1>20, StopKeeps DEF ThreadEnds
    <2>2. /\ UNCHANGED <<rtsp, slots, sessions, controlEnd>> /\ refs' = refs \ {<<s, k>>}
          /\ k # "session"
      BY <1>20 DEF ThreadEnds, OnlyThread, rtspVars, Kind
    <2>3. \A r \in Session, j \in Kind : thread[r][j] \in {"none", "done"}
            => thread'[r][j] = thread[r][j]
      BY <1>20 DEF ThreadEnds, TypeOK
    <2>4. rtsp.pc \in Announcing => rtsp.s \in Session
      BY DEF LiveSet
    <2>5. QED
      BY <2>1, <2>2, <2>3, <2>4 DEF Ended, Kind
  <1>21. QED
    BY <1>1, <1>2, <1>3, <1>4, <1>5, <1>6, <1>7, <1>8, <1>9, <1>10, <1>11, <1>12, <1>13,
       <1>14, <1>15, <1>16, <1>17, <1>18, <1>19, <1>20

\* What the walk over the slots knows stays true whatever the other threads do.
LEMMA ClearStateStep == IInv /\ [Next]_vars => ClearState'
  <1> SUFFICES ASSUME IInv, [Next]_vars PROVE ClearState'
    OBVIOUS
  <1> USE DEF IInv, ClearState
  <1>1. \/ UNCHANGED <<clear, slots, slotsLock, controlEnd, thread, state>>
        \/ UNCHANGED <<clear, slots, slotsLock, controlEnd, thread>>
           /\ \E s \in Session : Stop(s)
        \/ (\E s \in Session : Alloc(s)) \/ SetRunning \/ Insert \/ Remove
        \/ Spawn("audio", "video") \/ Spawn("video", "run") \/ AnnounceDone
        \/ (\E m \in Modes, a \in Cleaner : ClearBegin(a, m))
        \/ (\E s \in Session : Skip(s)) \/ (\E s \in Session : StopSlot(s))
        \/ JoinThread("video", "joinVideo", "joinAudio")
        \/ JoinThread("audio", "joinAudio", "joinControl") \/ JoinControl \/ Erase
        \/ ClearEnd \/ EndBroadcast \/ (\E s \in Session : ControlScan(s))
        \/ ControlFarewell
        \/ (\E s \in Session, k \in Kind : thread[s][k] = "ping" /\ PingArrives(s, k))
        \/ (\E s \in Session, k \in Kind : ThreadEnds(s, k))
    <2>1. CASE Announce
      BY <2>1 DEF TypeOK, Announce, RtspTop, IterateTimesOut, RefBroadcast, StartBroadcast,
             StartBroadcastFails, Push, ArmPing, CountSession, sessionVars
    <2>2. ASSUME RtspClear \/ RtspLastClear \/ MainClear \/ \E m \in HttpModes : HttpClear(m)
          PROVE  \E m \in Modes, a \in Cleaner : ClearBegin(a, m)
      BY <2>2, SessionAssumption
         DEF RtspClear, RtspLastClear, MainClear, HttpClear, Modes, Calls, Cleaner
    <2>3. CASE ControlStep \/ ClientEvent \/ SendersExit
      BY <2>3 DEF ControlStep, ClientEvent, ControlTop, ControlScanEnd, ControlDecide,
         ControlNothing,
             ControlConnect, ControlReceive, ControlDisconnect, OnlyControl, SendersExit,
             sessionVars,
             rtspVars, processVars
    <2>4. ASSUME NEW s \in Session, NEW k \in Kind,
                 ThreadStep(s, k) \/ CaptureFails(s, k) \/ PingArrives(s, k)
          PROVE  \/ PingArrives(s, k) /\ thread[s][k] = "ping"
                 \/ ThreadEnds(s, k)
      BY <2>4 DEF ThreadStep, PingTimesOut, CaptureStops, CaptureFails, PingArrives
    <2>5. ASSUME NEW s \in Session, ClientGoesSilent(s) \/ DeadlinePasses(s)
          PROVE  UNCHANGED <<clear, slots, slotsLock, controlEnd, thread, state>>
      BY <2>5 DEF ClientGoesSilent, DeadlinePasses, rtspVars
    <2>6. CASE AppExits \/ ShutDown \/ UNCHANGED vars
      BY <2>6 DEF AppExits, ShutDown, rtspVars, sessionVars, vars
    <2>7. QED
      BY <2>1, <2>2, <2>3, <2>4, <2>5, <2>6 DEF Next, Step, Environment, ClearStep
  <1>2. CASE /\ UNCHANGED <<clear, slots, slotsLock, controlEnd, thread>>
             /\ UNCHANGED state \/ \E s \in Session : Stop(s)
    <2>1. LiveSet' = LiveSet /\ NoneSet' = NoneSet
      BY <1>2, SameState, StopKeeps
    <2>2. UNCHANGED <<clear, slots, slotsLock, controlEnd, thread>>
      BY <1>2
    <2>3. QED
      BY <2>1, <2>2
  <1>3. ASSUME NEW s \in Session, Alloc(s) PROVE ClearState'
    <2>1. UNCHANGED <<clear, slots, slotsLock, controlEnd, thread>>
      BY <1>3 DEF Alloc
    <2>2. QED
      BY <1>3, <2>1, AllocAdds
  <1>4. CASE SetRunning
    <2>1. rtsp.s \in LiveSet
      BY <1>4 DEF SetRunning, AnnounceState, Announcing
    <2>2. UNCHANGED <<clear, slots, slotsLock, controlEnd, thread>>
      BY <1>4 DEF SetRunning
    <2>3. QED
      BY <1>4, <2>1, <2>2, RunKeeps
  <1>5. CASE Insert
    <2>1. rtsp.s \in LiveSet
      BY <1>5 DEF Insert, AnnounceState, Announcing
    <2>2. clear.pc = "idle"
      BY <1>5 DEF Insert
    <2>3. LiveSet' = LiveSet
      BY <1>5, SameState DEF Insert, sessionVars
    <2>4. QED
      BY <1>5, <2>1, <2>2, <2>3 DEF Insert
  <1>6. CASE Remove
    <2>1. rtsp.s \in LiveSet
      BY <1>6 DEF Remove, AnnounceState, Announcing
    <2>2. clear.pc = "idle"
      BY <1>6 DEF Remove
    <2>3. LiveSet' = LiveSet \ {rtsp.s}
      BY <1>6, <2>1, DestroyDrops DEF Remove
    <2>4. QED
      BY <1>6, <2>1, <2>2, <2>3 DEF Remove
  <1>7. CASE Spawn("audio", "video")
    <2>1. LiveSet' = LiveSet /\ rtsp.s \in Session /\ thread[rtsp.s]["audio"] = "none"
      BY <1>7, SameState DEF Spawn, AnnounceState, Announcing, LiveSet
    <2>2. UNCHANGED <<clear, slots, slotsLock, controlEnd>>
      BY <1>7 DEF Spawn
    <2>3. \A r \in Session, j \in Kind : thread[r][j] = "done" => thread'[r][j] = "done"
      BY <1>7, <2>1 DEF Spawn, TypeOK
    <2>4. QED
      BY <2>1, <2>2, <2>3 DEF Kind, LiveSet
  <1>8. CASE Spawn("video", "run")
    <2>1. LiveSet' = LiveSet /\ rtsp.s \in Session /\ thread[rtsp.s]["video"] = "none"
      BY <1>8, SameState DEF Spawn, AnnounceState, Announcing, LiveSet
    <2>2. UNCHANGED <<clear, slots, slotsLock, controlEnd>>
      BY <1>8 DEF Spawn
    <2>3. \A r \in Session, j \in Kind : thread[r][j] = "done" => thread'[r][j] = "done"
      BY <1>8, <2>1 DEF Spawn, TypeOK
    <2>4. QED
      BY <2>1, <2>2, <2>3 DEF Kind, LiveSet
  <1>9. CASE AnnounceDone
    <2>1. UNCHANGED <<clear, slots, slotsLock>>
      BY <1>9 DEF AnnounceDone
    <2>2. CASE UNCHANGED sessionVars
      BY <2>1, <2>2, SameState DEF sessionVars
    <2>3. CASE Destroy(rtsp.s) /\ rtsp.s \notin slots
      <3>1. rtsp.s \in LiveSet
        BY <1>9 DEF AnnounceDone, AnnounceState, Announcing
      <3>2. LiveSet' = LiveSet \ {rtsp.s}
        BY <2>3, <3>1, DestroyDrops
      <3>3. thread' = thread /\ \A r \in slots : controlEnd[r] => controlEnd'[r]
        BY <2>3 DEF Destroy, TypeOK
      <3>4. QED
        BY <2>1, <2>3, <3>2, <3>3
    <2>4. QED
      BY <1>9, <2>2, <2>3 DEF AnnounceDone
  <1>10. ASSUME NEW m \in Modes, NEW a \in Cleaner, ClearBegin(a, m) PROVE ClearState'
    <2>1. LiveSet' = LiveSet
      BY <1>10, SameState DEF ClearBegin, sessionVars
    <2>2. QED
      BY <1>10, <2>1, SessionAssumption DEF ClearBegin
  <1>11. ASSUME NEW s \in Session, Skip(s) PROVE ClearState'
    <2>1. LiveSet' = LiveSet
      BY <1>11, SameState DEF Skip
    <2>2. QED
      BY <1>11, <2>1 DEF Skip, OnlyClear, TypeOK
  <1>12. ASSUME NEW s \in Session, StopSlot(s) PROVE ClearState'
    <2>1. LiveSet' = LiveSet
      BY <1>12, StopKeeps DEF StopSlot
    <2>2. QED
      BY <1>12, <2>1 DEF StopSlot, OnlyClear, TypeOK
  <1>13. CASE JoinThread("video", "joinVideo", "joinAudio")
    <2>1. LiveSet' = LiveSet
      BY <1>13, SameState DEF JoinThread
    <2>2. QED
      BY <1>13, <2>1 DEF JoinThread, Joined, OnlyClear, TypeOK
  <1>14. CASE JoinThread("audio", "joinAudio", "joinControl")
    <2>1. LiveSet' = LiveSet
      BY <1>14, SameState DEF JoinThread
    <2>2. QED
      BY <1>14, <2>1 DEF JoinThread, Joined, OnlyClear, TypeOK
  <1>15. CASE JoinControl
    <2>1. LiveSet' = LiveSet
      BY <1>15, SameState DEF JoinControl
    <2>2. QED
      BY <1>15, <2>1 DEF JoinControl, ControlEnded, OnlyClear, TypeOK
  <1>16. CASE Erase
    <2>1. /\ clear'.pc \in {"ending", "walk"} /\ clear'.todo = clear.todo
          /\ slots' = slots \ {clear.cur} /\ slotsLock' = slotsLock
      BY <1>16 DEF Erase, TypeOK
    <2>2. LiveSet \ {clear.cur} \subseteq LiveSet'
      BY <1>16, SameState, DestroyDrops DEF Erase, sessionVars
    <2>3. QED
      BY <1>16, <2>1, <2>2 DEF Erase
  <1>17. CASE ClearEnd
    <2>1. LiveSet' = LiveSet
      BY <1>17, SameState DEF ClearEnd, sessionVars
    <2>2. clear'.pc = "idle" /\ clear'.todo = {} /\ slots' = slots
      BY <1>17 DEF ClearEnd, TypeOK
    <2>3. QED
      BY <2>1, <2>2
  <1>18. CASE EndBroadcast
    <2>1. LiveSet' = LiveSet
      BY <1>18, SameState DEF EndBroadcast, sessionVars
    <2>2. QED
      BY <1>18, <2>1 DEF EndBroadcast, sessionVars, TypeOK
  <1>19. ASSUME NEW s \in Session, ControlScan(s) PROVE ClearState'
    <2>1. LiveSet' = LiveSet
      BY <1>19, StopKeeps, SameState DEF ControlScan
    <2>2. UNCHANGED <<clear, slots, slotsLock, thread>>
      BY <1>19 DEF ControlScan, OnlyControl
    <2>3. controlEnd' = controlEnd \/ controlEnd' = [controlEnd EXCEPT ![s] = TRUE]
      BY <1>19 DEF ControlScan, LetGo
    <2>4. \A r \in Session : controlEnd[r] => controlEnd'[r]
      BY <2>3 DEF TypeOK
    <2>5. QED
      BY <2>1, <2>2, <2>4 DEF LiveSet
  <1>20. CASE ControlFarewell
    <2>1. LiveSet' = LiveSet
      BY <1>20, SameState DEF ControlFarewell
    <2>2. UNCHANGED <<clear, slots, slotsLock, thread>>
      BY <1>20 DEF ControlFarewell, OnlyControl
    <2>3. \A r \in Session : controlEnd[r] => controlEnd'[r]
      BY <1>20 DEF ControlFarewell, TypeOK
    <2>4. QED
      BY <2>1, <2>2, <2>3 DEF LiveSet
  <1>21. ASSUME NEW s \in Session, NEW k \in Kind,
                thread[s][k] = "ping" /\ PingArrives(s, k)
         PROVE  ClearState'
    <2>1. LiveSet' = LiveSet
      BY <1>21, SameState DEF PingArrives
    <2>2. UNCHANGED <<clear, slots, slotsLock, controlEnd>>
      BY <1>21 DEF PingArrives, OnlyThread, rtspVars
    <2>3. \A r \in Session, j \in Kind : thread[r][j] = "done" => thread'[r][j] = "done"
      BY <1>21 DEF PingArrives, TypeOK
    <2>4. QED
      BY <2>1, <2>2, <2>3 DEF Kind, LiveSet
  <1>22. ASSUME NEW s \in Session, NEW k \in Kind, ThreadEnds(s, k) PROVE ClearState'
    <2>1. LiveSet' = LiveSet
      BY <1>22, StopKeeps DEF ThreadEnds
    <2>2. UNCHANGED <<clear, slots, slotsLock, controlEnd>>
      BY <1>22 DEF ThreadEnds, OnlyThread, rtspVars
    <2>3. \A r \in Session, j \in Kind : thread[r][j] = "done" => thread'[r][j] = "done"
      BY <1>22 DEF ThreadEnds, TypeOK
    <2>4. QED
      BY <2>1, <2>2, <2>3 DEF Kind, LiveSet
  <1>23. QED
    BY <1>1, <1>2, <1>3, <1>4, <1>5, <1>6, <1>7, <1>8, <1>9, <1>10, <1>11, <1>12, <1>13,
       <1>14, <1>15, <1>16, <1>17, <1>18, <1>19, <1>20, <1>21, <1>22

-----------------------------------------------------------------------------
(* The theorems *)

\* No step leaves the invariant.
LEMMA IInvStep == IInv /\ [Next]_vars => IInv'
  BY TypeStep, FreshStep, ControlStateStep, FreshStateStep, ThreadStateStep,
     AnnounceStateStep, ClearStateStep DEF IInv, Backed

\* The invariant holds in every reachable state.
LEMMA AlwaysIInv == Spec => []IInv
  BY InitIInv, IInvStep, PTL DEF Spec

\* Every variable of the sessions keeps its type, whatever the threads do.
THEOREM Typing == Spec => []TypeOK
  <1>1. IInv => TypeOK
    BY DEF IInv
  <1>2. QED
    BY <1>1, AlwaysIInv, PTL

\* The control thread never has a destroyed session on its list: session_t is
\* freed only after controlEnd, and controlEnd is raised only when the session
\* is off the list or the control thread has left its loop.
THEOREM ControlIsSafe == Spec => []NoDanglingControl
  <1>1. IInv => NoDanglingControl
    BY DEF IInv, ControlState, NoDanglingControl, LiveSet
  <1>2. QED
    BY <1>1, AlwaysIInv, PTL

\* The video and audio threads run only while their session is alive and its
\* handle keeps the broadcast up.
THEOREM ThreadsAreSafe == Spec => []ThreadsBacked
  <1>1. IInv => ThreadsBacked
    BY DEF IInv, HandlesBacked, ThreadState, ThreadsBacked, LiveSet
  <1>2. QED
    BY <1>1, AlwaysIInv, PTL

\* A new broadcast never starts with the shutdown event of the last one.
THEOREM BroadcastIsFresh == Spec => []FreshBroadcast
  <1>1. IInv => FreshBroadcast
    BY DEF IInv
  <1>2. QED
    BY <1>1, AlwaysIInv, PTL

-----------------------------------------------------------------------------
(* A host that nobody shuts down, whose application stays and whose HTTP   *)
(* threads only launch, resume and count                                   *)

Runs(s) == state[s] \in {"RUNNING", "STOPPING"}
Joins == {"joinVideo", "joinAudio", "joinControl", "erase"}

\* What the constants of such a host are.
QuietHost == /\ AppMayExit = FALSE /\ MayShutDown = FALSE
             /\ HttpModes \subseteq {"launch", "resume", "stopping"}

\* Once something was launched its application runs.
AppRuns == /\ ~shutdown /\ main = "view" /\ slotsLock # "main" /\ proc # "exited"
           /\ rtsp.pc \notin {"last", "lastWalk", "finished"}
           /\ launched \/ clear.mode = "resume" => proc = "running"
           /\ rtsp.pc \in Announcing \/ control.pc # "off" => launched

\* The control thread lives as long as its context, and leaves its loop only
\* when that ends.
ContextState == /\ broadcast = "down" <=> control.pc = "off"
                /\ control.pc \in {"farewell", "exited"} => broadcast = "ending"

\* A session in the slots holds the broadcast, but for the one that is about to
\* take its handle; and one that does is on the list or was let go.
HandleState ==
  /\ \A s \in slots : <<s, "session">> \in refs \/ (rtsp.s = s /\ rtsp.pc \in {"ref", "remove"})
  /\ \A s \in Session : <<s, "session">> \in refs =>
       s \in sessions \/ controlEnd[s] \/ (rtsp.s = s /\ rtsp.pc = "push")

\* A walk joins sessions that are stopping; the one after a broadcast that
\* ended finds none.
WalkState ==
  /\ clear.pc # "idle" => clear.mode \in Calls \ {"cancel"}
  /\ clear.mode = "all" => clear.todo = {} /\ clear.pc \notin Joins
  /\ clear.pc \in Joins => state[clear.cur] = "STOPPING"

\* A session that runs has both threads, and until then it stays in its slot.
StartState ==
  /\ rtsp.pc \in Announcing \ {"count", "done"} => state[rtsp.s] = "STOPPED"
  /\ rtsp.pc = "count" => Runs(rtsp.s)
  /\ rtsp.pc \in Announcing \ {"insert", "count", "done"} => rtsp.s \in slots
  /\ rtsp.pc \in {"video", "run"} => thread[rtsp.s]["audio"] # "none"
  /\ rtsp.pc = "run" => thread[rtsp.s]["video"] # "none"
  /\ \A s \in Session, k \in Kind : Runs(s) => thread[s][k] # "none"

\* The sessions that running_sessions stands for.
Counted == {s \in slots : Runs(s) /\ ~(clear.pc = "erase" /\ clear.cur = s)}
Lag == IF rtsp.pc = "count" THEN 1 ELSE 0
CountState == runningSessions = Cardinality(Counted) - Lag

JInv == /\ IInv /\ AppRuns /\ ContextState /\ HandleState /\ WalkState /\ StartState
        /\ CountState /\ NeverAborts

\* What a step of the control thread may do to where it is.
LEMMA ControlMoves ==
  ASSUME TypeOK, ControlStep \/ ClientEvent
  PROVE  /\ broadcast' = broadcast /\ control.pc # "off" /\ control'.pc # "off"
         /\ UNCHANGED <<shutdown, main, slotsLock, slots, rtsp, clear, launched, thread, refs,
                       runningSessions, aborted>>
         /\ proc = "running" => proc' = "running"
         /\ proc' \in {proc, "none"}
         /\ control'.pc \in {"farewell", "exited"} =>
              control.pc = "farewell" \/ ShuttingDown \/ (control.pc = "decide" /\ proc # "running")
  <1>1. CASE ControlTop
    BY <1>1 DEF ControlTop, OnlyControl, TypeOK
  <1>2. ASSUME NEW s \in Session, ControlScan(s)
        PROVE  control.pc = "scan" /\ control'.pc = "scan" /\ proc' = proc
    BY <1>2 DEF ControlScan, TypeOK
  <1>3. ASSUME NEW s \in Session, ControlScan(s)
        PROVE  UNCHANGED <<broadcast, shutdown, main, slotsLock, slots, rtsp, clear, launched,
                           thread, refs, runningSessions, aborted>>
    BY <1>3 DEF ControlScan, OnlyControl
  <1>4. CASE ControlScanEnd
    <2>1. control'.pc = "decide"
      BY <1>4 DEF ControlScanEnd, TypeOK
    <2>2. QED
      BY <1>4, <2>1 DEF ControlScanEnd, OnlyControl
  <1>5. CASE ControlDecide
    <2>1. control'.pc = IF proc # "running" /\ ~control.awaiting THEN "farewell" ELSE "iterate"
      BY <1>5 DEF ControlDecide, TypeOK
    <2>2. QED
      BY <1>5, <2>1 DEF ControlDecide, OnlyControl, NoticeExit
  <1>6. CASE ControlNothing \/ ControlFarewell \/ ClientEvent
    BY <1>6 DEF ControlNothing, ControlFarewell, IterateEnds, ClientEvent, ControlConnect,
           ControlReceive, ControlDisconnect, OnlyControl, TypeOK
  <1>7. QED
    BY <1>1, <1>2, <1>3, <1>4, <1>5, <1>6 DEF ControlStep

\* Nothing but a shutdown, an exit or a cancel ends the application.
LEMMA AppRunsStep == QuietHost /\ JInv /\ [Next]_vars => AppRuns'
  <1> SUFFICES ASSUME QuietHost, JInv, [Next]_vars PROVE AppRuns'
    OBVIOUS
  <1> USE DEF JInv, IInv, QuietHost, AppRuns
  <1>1. \/ UNCHANGED <<shutdown, main, proc, rtsp, launched, slotsLock, clear, control>>
        \/ Announce \/ RtspClear \/ ClearStep \/ EndBroadcast \/ ControlStep \/ ClientEvent
        \/ \E m \in {"launch", "resume", "stopping"} : HttpClear(m)
    BY DEF Next, Step, Environment, ThreadStep, vars, rtspVars, broadcastVars, processVars,
           RtspLastClear, MainClear, PingArrives, PingTimesOut, CaptureStops,
           CaptureFails, ThreadEnds, OnlyThread, ClientGoesSilent, DeadlinePasses, AppExits,
           ShutDown, SendersExit
  <1>2. CASE Announce
    BY <1>2 DEF Announce, RtspTop, IterateTimesOut, Alloc, Insert, RefBroadcast,
           StartBroadcast, StartBroadcastFails, Remove, Push, ArmPing, Spawn, SetRunning,
           CountSession, AnnounceDone, processVars, broadcastVars, TypeOK, Announcing
  <1>3. CASE RtspClear
    BY <1>3 DEF RtspClear, ClearBegin, broadcastVars, Announcing, TypeOK
  <1>4. ASSUME NEW m \in {"launch", "resume", "stopping"}, HttpClear(m) PROVE AppRuns'
    BY <1>4 DEF HttpClear, ClearBegin, NoticeExit, broadcastVars, TypeOK
  <1>5. CASE ClearStep
    <2>1. ASSUME NEW s \in Session, Skip(s) \/ StopSlot(s) PROVE AppRuns'
      <3>1. clear'.mode = clear.mode
        BY <2>1 DEF Skip, StopSlot, TypeOK
      <3>2. QED
        BY <2>1, <3>1 DEF Skip, StopSlot, OnlyClear
    <2>2. CASE JoinThread("video", "joinVideo", "joinAudio")
      BY <2>2 DEF JoinThread, OnlyClear, TypeOK
    <2>3. CASE JoinThread("audio", "joinAudio", "joinControl")
      BY <2>3 DEF JoinThread, OnlyClear, TypeOK
    <2>4. CASE JoinControl
      BY <2>4 DEF JoinControl, OnlyClear, TypeOK
    <2>5. CASE Erase
      BY <2>5 DEF Erase, processVars, TypeOK
    <2>6. CASE ClearEnd
      <3>1. rtsp'.pc \in {rtsp.pc, "top"}
        <4>1. CASE rtsp' = rtsp
          BY <4>1
        <4>2. CASE rtsp' = [rtsp EXCEPT !.pc = "top"]
          BY <4>2 DEF TypeOK
        <4>3. QED
          BY <2>6, <4>1, <4>2 DEF ClearEnd
      <3>2. main' = main /\ slotsLock' # "main"
        BY <2>6, SessionAssumption DEF ClearEnd, Cleaner
      <3>3. clear'.mode = "none"
        BY <2>6 DEF ClearEnd, TypeOK
      <3>4. /\ shutdown' = shutdown /\ control' = control
            /\ launched' = (launched \/ clear.mode \in {"launch", "resume"})
        BY <2>6 DEF ClearEnd, broadcastVars
      <3>5. proc' # "exited" /\ (launched' => proc' = "running")
        BY <2>6, <3>4 DEF ClearEnd, WalkState
      <3>6. QED
        BY <3>1, <3>2, <3>3, <3>4, <3>5 DEF Announcing
    <2>7. QED
      BY <1>5, <2>1, <2>2, <2>3, <2>4, <2>5, <2>6 DEF ClearStep
  <1>6. CASE EndBroadcast
    BY <1>6 DEF EndBroadcast, processVars, TypeOK, Announcing
  <1>7. CASE ControlStep \/ ClientEvent
    BY <1>7, ControlMoves
  <1>9. QED
    BY <1>1, <1>2, <1>3, <1>4, <1>5, <1>6, <1>7

\* While the application runs, the control thread goes on until its context ends.
LEMMA ContextStep == QuietHost /\ JInv /\ [Next]_vars => ContextState'
  <1> SUFFICES ASSUME QuietHost, JInv, [Next]_vars PROVE ContextState'
    OBVIOUS
  <1> USE DEF JInv, IInv, ContextState
  <1>1. \/ UNCHANGED <<broadcast, control>> \/ StartBroadcast \/ Remove \/ AnnounceDone \/ Erase
        \/ EndBroadcast \/ ControlStep \/ ClientEvent
    BY DEF Next, Step, Environment, ThreadStep, Announce, ClearStep, vars, rtspVars,
           broadcastVars, processVars, RtspTop, IterateTimesOut, Alloc, Insert, RefBroadcast,
           StartBroadcastFails, Push, ArmPing, Spawn, SetRunning, CountSession,
           RtspClear, RtspLastClear, MainClear, HttpClear, ClearBegin, Skip, StopSlot,
           JoinThread, JoinControl, ClearEnd, OnlyClear, PingArrives, PingTimesOut,
           CaptureStops, CaptureFails, ThreadEnds, OnlyThread, ClientGoesSilent,
           DeadlinePasses, AppExits, ShutDown, SendersExit
  <1>2. CASE StartBroadcast
    BY <1>2 DEF StartBroadcast
  <1>3. ASSUME NEW s, Destroy(s), control' = control PROVE ContextState'
    <2>1. broadcast' = broadcast \/ (refs # {} /\ broadcast' = "ending")
      BY <1>3 DEF Destroy
    <2>2. QED
      BY <1>3, <2>1 DEF HandlesBacked
  <1>4. CASE Remove \/ AnnounceDone \/ Erase
    BY <1>3, <1>4 DEF Remove, AnnounceDone, Erase
  <1>5. CASE EndBroadcast
    BY <1>5 DEF EndBroadcast, TypeOK
  <1>6. CASE ControlStep \/ ClientEvent
    <2>1. ShuttingDown => broadcast = "ending"
      BY DEF ShuttingDown, FreshBroadcast, AppRuns
    <2>2. QED
      BY <1>6, <2>1, ControlMoves DEF AppRuns
  <1>8. QED
    BY <1>1, <1>2, <1>4, <1>5, <1>6

\* What the end of a session changes for the others.
LEMMA DestroyLeaves ==
  ASSUME NEW s \in Session, TypeOK, Destroy(s)
  PROVE  /\ refs' = refs \ {<<s, "session">>} /\ thread' = thread
         /\ \A r \in Session \ {s} : controlEnd'[r] = controlEnd[r] /\ state'[r] = state[r]
         /\ state'[s] = "destroyed"
  BY DEF Destroy, TypeOK

\* Handles are taken once and dropped with the session.
LEMMA HandleStep == JInv /\ [Next]_vars => HandleState'
  <1> SUFFICES ASSUME JInv, [Next]_vars PROVE HandleState'
    OBVIOUS
  <1> USE DEF JInv, IInv, HandleState
  <1>1. \/ /\ UNCHANGED <<slots, refs, sessions, controlEnd>>
           /\ UNCHANGED rtsp \/ RtspTop \/ IterateTimesOut \/ ArmPing \/ SetRunning \/ CountSession
              \/ RtspClear \/ RtspLastClear \/ \E s \in Session : Alloc(s)
        \/ Insert \/ RefBroadcast \/ StartBroadcast \/ StartBroadcastFails \/ Remove
        \/ Push \/ Spawn("audio", "video") \/ Spawn("video", "run")
        \/ AnnounceDone \/ Erase \/ ClearEnd \/ EndBroadcast
        \/ (\E s \in Session : ControlScan(s)) \/ ControlFarewell
        \/ (\E s \in Session, k \in Kind : ThreadEnds(s, k))
    BY DEF Next, Step, Environment, Announce, ClearStep, ControlStep, ClientEvent, ThreadStep,
           vars, sessionVars, rtspVars, broadcastVars, processVars,
           RtspTop, IterateTimesOut, Alloc, ArmPing, SetRunning, CountSession,
           RtspClear, RtspLastClear, MainClear, HttpClear, ClearBegin, Skip, StopSlot,
           JoinThread, JoinControl, OnlyClear, ControlTop, ControlScanEnd, ControlDecide,
           ControlNothing, ControlConnect, ControlReceive, ControlDisconnect, OnlyControl,
           PingArrives, PingTimesOut, CaptureStops, CaptureFails, OnlyThread,
           ClientGoesSilent, DeadlinePasses, AppExits, ShutDown, SendersExit
  <1>2. CASE /\ UNCHANGED <<slots, refs, sessions, controlEnd>>
             /\ UNCHANGED rtsp \/ RtspTop \/ IterateTimesOut \/ ArmPing \/ SetRunning
                \/ CountSession \/ RtspClear \/ RtspLastClear \/ \E s \in Session : Alloc(s)
    <2>1. \/ UNCHANGED rtsp
          \/ rtsp.pc \notin {"ref", "remove", "push"}
      BY <1>2 DEF RtspTop, IterateTimesOut, ArmPing, SetRunning, CountSession, RtspClear,
             RtspLastClear, Alloc
    <2>2. QED
      BY <1>2, <2>1
  <1>3. CASE Insert
    BY <1>3 DEF Insert, sessionVars, broadcastVars, TypeOK
  <1>4. CASE RefBroadcast
    BY <1>4 DEF RefBroadcast, sessionVars, TypeOK
  <1>5. CASE StartBroadcast
    <2>1. refs = {}
      BY <1>5 DEF StartBroadcast, HandlesBacked
    <2>2. slots \subseteq {rtsp.s}
      BY <2>1
    <2>3. refs' = {<<rtsp.s, "session">>} /\ slots' = slots
      BY <1>5 DEF StartBroadcast
    <2>4. rtsp'.s = rtsp.s /\ rtsp'.pc = "push"
      BY <1>5 DEF StartBroadcast, TypeOK
    <2>5. QED
      BY <2>2, <2>3, <2>4
  <1>6. CASE StartBroadcastFails
    BY <1>6 DEF StartBroadcastFails, sessionVars, broadcastVars, TypeOK
  <1>7. CASE Remove
    <2>1. rtsp.s \in Session
      BY <1>7 DEF Remove, AnnounceState, Announcing, LiveSet
    <2>2. slots' = slots \ {rtsp.s} /\ Destroy(rtsp.s) /\ sessions' = sessions
      BY <1>7 DEF Remove
    <2>3. QED
      BY SMTT(30), <1>7, <2>1, <2>2, DestroyLeaves DEF Remove, TypeOK
  <1>8. CASE Push
    BY <1>8 DEF Push, sessionVars, TypeOK
  <1>9. CASE Spawn("audio", "video")
    BY <1>9 DEF Spawn, TypeOK
  <1>10. CASE Spawn("video", "run")
    BY <1>10 DEF Spawn, TypeOK
  <1>11. CASE AnnounceDone
    <2>1. rtsp.s \in Session
      BY <1>11 DEF AnnounceDone, AnnounceState, Announcing, LiveSet
    <2>2. CASE UNCHANGED sessionVars /\ UNCHANGED refs
      BY <1>11, <2>2 DEF AnnounceDone, sessionVars
    <2>3. CASE Destroy(rtsp.s) /\ rtsp.s \notin slots
      <3>1. /\ refs' = refs \ {<<rtsp.s, "session">>}
            /\ \A r \in Session \ {rtsp.s} : controlEnd'[r] = controlEnd[r]
        BY <2>1, <2>3, DestroyLeaves
      <3>2. UNCHANGED <<slots, sessions>> /\ rtsp.pc = "done"
        BY <1>11 DEF AnnounceDone
      <3>3. slots \subseteq Session
        BY DEF TypeOK
      <3>4. QED
        BY <2>3, <3>1, <3>2, <3>3
    <2>4. QED
      BY <1>11, <2>2, <2>3 DEF AnnounceDone
  <1>12. CASE Erase
    <2>1. /\ clear.cur \in Session /\ slots' = slots \ {clear.cur}
          /\ UNCHANGED <<rtsp, sessions>>
      BY <1>12 DEF Erase, ClearState, TypeOK
    <2>2. CASE UNCHANGED <<sessionVars, refs>>
      BY <2>1, <2>2 DEF sessionVars
    <2>3. CASE Destroy(clear.cur)
      <3>1. /\ refs' = refs \ {<<clear.cur, "session">>}
            /\ \A r \in Session \ {clear.cur} : controlEnd'[r] = controlEnd[r]
        BY <2>1, <2>3, DestroyLeaves
      <3>2. slots \subseteq Session
        BY DEF TypeOK
      <3>3. QED
        BY <2>1, <3>1, <3>2
    <2>4. QED
      BY <1>12, <2>2, <2>3 DEF Erase
  <1>13. CASE ClearEnd
    <2>1. UNCHANGED <<slots, refs, sessions, controlEnd>>
      BY <1>13 DEF ClearEnd, sessionVars, broadcastVars
    <2>2. UNCHANGED rtsp \/ rtsp.pc \in {"walk", "lastWalk"}
      BY <1>13 DEF ClearEnd
    <2>3. QED
      BY <2>1, <2>2
  <1>14. CASE EndBroadcast
    <2>1. refs = {}
      BY <1>14 DEF EndBroadcast, HandlesBacked
    <2>2. refs' = {} /\ slots' = slots
      BY <1>14, <2>1 DEF EndBroadcast
    <2>3. rtsp' = [rtsp EXCEPT !.pc = IF @ = "ending" THEN "clear" ELSE @]
      BY <1>14 DEF EndBroadcast
    <2>4. rtsp'.s = rtsp.s /\ (rtsp.pc # "ending" => rtsp'.pc = rtsp.pc)
      BY <2>3 DEF TypeOK
    <2>5. QED
      BY <2>1, <2>2, <2>4
  <1>15. ASSUME NEW s \in Session, ControlScan(s) PROVE HandleState'
    <2>1. UNCHANGED <<slots, refs, rtsp>>
      BY <1>15 DEF ControlScan, OnlyControl
    <2>2. \/ sessions' = sessions \ {s} /\ controlEnd' = [controlEnd EXCEPT ![s] = TRUE]
          \/ UNCHANGED <<sessions, controlEnd>>
      BY <1>15 DEF ControlScan, LetGo
    <2>3. \A r \in Session : r \in sessions \/ controlEnd[r] => r \in sessions' \/ controlEnd'[r]
      BY <2>2 DEF TypeOK
    <2>4. QED
      BY <2>1, <2>3
  <1>16. CASE ControlFarewell
    BY <1>16 DEF ControlFarewell, OnlyControl, TypeOK
  <1>17. ASSUME NEW s \in Session, NEW k \in Kind, ThreadEnds(s, k) PROVE HandleState'
    <2>1. UNCHANGED <<slots, rtsp, sessions, controlEnd>> /\ refs' = refs \ {<<s, k>>}
      BY <1>17 DEF ThreadEnds, OnlyThread, rtspVars
    <2>2. \A r : <<r, "session">> \in refs <=> <<r, "session">> \in refs'
      BY <2>1 DEF Kind
    <2>3. QED
      BY <2>1, <2>2
  <1>18. QED
    BY <1>1, <1>2, <1>3, <1>4, <1>5, <1>6, <1>7, <1>8, <1>9, <1>10, <1>11, <1>12, <1>13,
       <1>14, <1>15, <1>16, <1>17

\* What is joined was stopping before.
LEMMA WalkStep == QuietHost /\ JInv /\ [Next]_vars => WalkState'
  <1> SUFFICES ASSUME QuietHost, JInv, [Next]_vars PROVE WalkState'
    OBVIOUS
  <1> USE DEF JInv, IInv, WalkState
  <1>1. \/ UNCHANGED <<clear, state>>
        \/ UNCHANGED clear /\ \E s \in Session : Stop(s)
        \/ (\E s \in Session : Alloc(s)) \/ SetRunning \/ Remove \/ AnnounceDone
        \/ RtspClear \/ (\E m \in {"launch", "resume", "stopping"} : HttpClear(m))
        \/ ClearStep \/ EndBroadcast
    BY DEF Next, Step, Environment, Announce, ControlStep, ClientEvent, ThreadStep,
           vars, sessionVars, rtspVars, QuietHost, AppRuns,
           RtspTop, IterateTimesOut, Insert, RefBroadcast, StartBroadcast, StartBroadcastFails,
           Push, ArmPing, Spawn, CountSession, RtspLastClear, MainClear,
           ControlTop, ControlScan, ControlScanEnd, ControlDecide,
           ControlNothing, ControlConnect, ControlReceive, ControlDisconnect, ControlFarewell,
           OnlyControl, PingArrives, PingTimesOut, CaptureStops, CaptureFails, ThreadEnds,
           OnlyThread, ClientGoesSilent, DeadlinePasses, AppExits, ShutDown, SendersExit
  <1>2. clear.pc \in Joins => clear.cur \in slots /\ clear.cur \in Session
    BY DEF ClearState, Joins, TypeOK
  <1>3. ASSUME UNCHANGED clear, NEW s \in Session, Stop(s) PROVE WalkState'
    <2>1. \A r \in Session : state[r] = "STOPPING" => state'[r] = "STOPPING"
      BY <1>3 DEF Stop, TypeOK
    <2>2. QED
      BY <1>2, <1>3, <2>1
  <1>4. ASSUME NEW s \in Session, Alloc(s) PROVE WalkState'
    BY <1>2, <1>4 DEF Alloc, TypeOK
  <1>5. CASE SetRunning
    <2>1. state[rtsp.s] = "STOPPED" /\ clear' = clear
      BY <1>5 DEF SetRunning, StartState, Announcing
    <2>2. \A r \in Session : state[r] = "STOPPING" => state'[r] = "STOPPING"
      BY <1>5, <2>1 DEF SetRunning, TypeOK
    <2>3. QED
      BY <1>2, <2>1, <2>2
  <1>6. CASE Remove
    BY <1>6 DEF Remove, ClearState, Joins
  <1>7. CASE AnnounceDone
    <2>1. clear' = clear /\ rtsp.s \in Session
      BY <1>7 DEF AnnounceDone, AnnounceState, Announcing, LiveSet
    <2>2. state' = state \/ (Destroy(rtsp.s) /\ rtsp.s \notin slots)
      BY <1>7 DEF AnnounceDone, sessionVars
    <2>3. clear.pc \in Joins => state'[clear.cur] = state[clear.cur]
      BY <1>2, <2>1, <2>2, DestroyLeaves
    <2>4. QED
      BY <2>1, <2>3
  <1>8. CASE RtspClear
    <2>1. clear'.pc = "walk" /\ clear'.todo = slots
          /\ clear'.mode = IF broadcastShutdown THEN "all" ELSE "stopping"
      BY <1>8 DEF RtspClear, ClearBegin
    <2>2. broadcastShutdown => refs = {}
      BY DEF FreshBroadcast, HandlesBacked
    <2>3. broadcastShutdown => slots = {}
      BY <1>8, <2>2 DEF RtspClear, HandleState
    <2>4. QED
      BY <2>1, <2>3 DEF Joins, Calls
  <1>9. ASSUME NEW m \in {"launch", "resume", "stopping"}, HttpClear(m) PROVE WalkState'
    BY <1>9 DEF HttpClear, ClearBegin, Joins, Calls
  <1>10. CASE ClearStep
    <2>1. ASSUME NEW s \in Session, Skip(s) PROVE WalkState'
      BY <2>1 DEF Skip, Joins, TypeOK
    <2>2. ASSUME NEW s \in Session, StopSlot(s) PROVE WalkState'
      <3>1. clear.mode \in {"stopping", "launch", "resume"} /\ clear.pc = "walk"
        BY <2>2 DEF StopSlot, Calls
      <3>2. clear.mode \notin Certs
        BY <3>1, SessionAssumption DEF Calls
      <3>3. state[s] = "STOPPING"
        BY <2>2, <3>1, <3>2 DEF StopSlot, Selected, Certs
      <3>4. state'[s] = "STOPPING"
        BY <2>2, <3>3 DEF StopSlot, Stop
      <3>5. clear'.mode = clear.mode /\ clear'.cur = s
        BY <2>2 DEF StopSlot, TypeOK
      <3>6. QED
        BY <3>1, <3>4, <3>5 DEF Calls
    <2>3. ASSUME NEW k, NEW pc \in Joins, NEW next \in Joins, JoinThread(k, pc, next)
          PROVE  WalkState'
      <3>1. clear.pc \in Joins /\ state' = state
        BY <2>3 DEF JoinThread
      <3>2. clear'.mode = clear.mode /\ clear'.cur = clear.cur /\ clear.pc # "idle"
        BY <2>3 DEF JoinThread, TypeOK, Joins
      <3>3. QED
        BY <3>1, <3>2
    <2>4. CASE JoinControl
      <3>1. clear.pc \in Joins /\ state' = state /\ clear.pc # "idle"
        BY <2>4 DEF JoinControl, Joins
      <3>2. clear'.mode = clear.mode /\ clear'.cur = clear.cur
        BY <2>4 DEF JoinControl, TypeOK
      <3>3. QED
        BY <3>1, <3>2
    <2>5. CASE Erase
      <3>1. clear'.pc \in {"ending", "walk"} /\ clear'.mode = clear.mode
        BY <2>5 DEF Erase, TypeOK
      <3>2. clear.pc \in Joins /\ clear.pc # "idle"
        BY <2>5 DEF Erase, Joins
      <3>3. QED
        BY <3>1, <3>2 DEF Joins
    <2>6. CASE ClearEnd
      <3>1. clear'.pc = "idle" /\ clear'.mode = "none"
        BY <2>6 DEF ClearEnd, TypeOK
      <3>2. QED
        BY <3>1 DEF Joins
    <2>7. QED
      BY <1>10, <2>1, <2>2, <2>3, <2>4, <2>5, <2>6 DEF ClearStep, Joins
  <1>11. CASE EndBroadcast
    <2>1. clear' = [clear EXCEPT !.pc = IF @ = "ending" THEN "walk" ELSE @] /\ state' = state
      BY <1>11 DEF EndBroadcast, sessionVars
    <2>2. /\ clear'.mode = clear.mode /\ clear'.todo = clear.todo /\ clear'.cur = clear.cur
          /\ clear'.pc = clear.pc \/ (clear.pc = "ending" /\ clear'.pc = "walk")
      BY <2>1 DEF TypeOK
    <2>3. QED
      BY <2>1, <2>2 DEF Joins
  <1>12. QED
    BY <1>1, <1>2, <1>3, <1>4, <1>5, <1>6, <1>7, <1>8, <1>9, <1>10, <1>11

\* session::start() spawns both threads before it says RUNNING.
LEMMA StartStep == JInv /\ [Next]_vars => StartState'
  <1> SUFFICES ASSUME JInv, [Next]_vars PROVE StartState'
    OBVIOUS
  <1> USE DEF JInv, IInv, StartState
  <1>1. \/ /\ UNCHANGED state \/ \E s \in Session : Stop(s)
           /\ UNCHANGED <<thread, rtsp, slots>>
        \/ (\E s \in Session : Alloc(s)) \/ Insert \/ RefBroadcast \/ StartBroadcast
        \/ StartBroadcastFails \/ Remove \/ Push \/ ArmPing
        \/ Spawn("audio", "video") \/ Spawn("video", "run") \/ SetRunning \/ AnnounceDone
        \/ RtspTop \/ IterateTimesOut \/ CountSession \/ RtspClear \/ RtspLastClear
        \/ Erase \/ ClearEnd \/ EndBroadcast
        \/ (\E s \in Session, k \in Kind : thread[s][k] \in {"ping", "capture"}
             /\ (PingArrives(s, k) \/ ThreadEnds(s, k)))
    <2>1. CASE Announce
      BY <2>1 DEF Announce
    <2>2. CASE RtspClear \/ RtspLastClear \/ MainClear \/ EndBroadcast \/ SendersExit
      BY <2>2 DEF MainClear, ClearBegin, SendersExit, sessionVars, rtspVars
    <2>3. CASE ClearStep
      BY <2>3 DEF ClearStep, Skip, StopSlot, JoinThread, JoinControl, OnlyClear
    <2>4. CASE ControlStep \/ ClientEvent
      BY <2>4 DEF ControlStep, ClientEvent, ControlTop, ControlScan, ControlScanEnd,
             ControlDecide, ControlNothing, ControlConnect, ControlReceive, ControlDisconnect,
             ControlFarewell, OnlyControl
    <2>5. ASSUME NEW s \in Session, NEW k \in Kind,
                 ThreadStep(s, k) \/ CaptureFails(s, k) \/ PingArrives(s, k)
          PROVE  /\ thread[s][k] \in {"ping", "capture"}
                 /\ PingArrives(s, k) \/ ThreadEnds(s, k)
      BY <2>5 DEF ThreadStep, PingArrives, PingTimesOut, CaptureStops, CaptureFails
    <2>6. CASE \/ \E s \in Session : ClientGoesSilent(s) \/ DeadlinePasses(s)
               \/ AppExits \/ ShutDown \/ \E m \in HttpModes : HttpClear(m)
      BY <2>6 DEF ClientGoesSilent, DeadlinePasses, AppExits, ShutDown, HttpClear, ClearBegin,
             sessionVars, rtspVars
    <2>7. CASE UNCHANGED vars
      BY <2>7 DEF vars, sessionVars, rtspVars
    <2>8. QED
      BY <2>1, <2>2, <2>3, <2>4, <2>5, <2>6, <2>7 DEF Next, Step, Environment
  <1>2. rtsp.pc \in Announcing => rtsp.s \in Session
    BY DEF AnnounceState, LiveSet
  <1>3. CASE /\ UNCHANGED state \/ \E s \in Session : Stop(s)
             /\ UNCHANGED <<thread, rtsp, slots>>
    <2>1. \A r \in Session : /\ state[r] = "STOPPED" => state'[r] = "STOPPED"
                             /\ Runs(r)' <=> Runs(r)
      BY <1>3 DEF Stop, Runs, TypeOK
    <2>2. UNCHANGED <<thread, rtsp, slots>>
      BY <1>3
    <2>3. rtsp.pc = "count" => state'[rtsp.s] \in {"RUNNING", "STOPPING"}
      BY <2>1, <1>2 DEF Announcing, Runs
    <2>4. QED
      BY <1>2, <2>1, <2>2, <2>3 DEF Runs, Announcing
  <1>4. ASSUME NEW s \in Session, Alloc(s) PROVE StartState'
    <2>1. rtsp' = [pc |-> "insert", s |-> s] /\ UNCHANGED <<thread, slots>>
      BY <1>4 DEF Alloc
    <2>2. state'[s] = "STOPPED" /\ \A r \in Session \ {s} : state'[r] = state[r]
      BY <1>4 DEF Alloc, TypeOK
    <2>3. QED
      BY <2>1, <2>2 DEF Runs, Announcing
  <1>5. CASE Insert \/ RefBroadcast \/ StartBroadcast \/ StartBroadcastFails \/ Push \/ ArmPing
    <2>1. /\ rtsp.pc \in Announcing \ {"run", "count", "done"}
          /\ rtsp'.pc \in Announcing \ {"insert", "run", "count", "done", "video"}
          /\ rtsp'.s = rtsp.s
      BY <1>5 DEF Insert, RefBroadcast, StartBroadcast, StartBroadcastFails, Push, ArmPing,
             TypeOK, Announcing
    <2>2. UNCHANGED <<state, thread>> /\ slots \subseteq slots' /\ rtsp.s \in slots'
      BY <1>5, <2>1 DEF Insert, RefBroadcast, StartBroadcast, StartBroadcastFails, Push,
             ArmPing, sessionVars, Announcing
    <2>3. QED
      BY <2>1, <2>2 DEF Runs
  <1>6. CASE Remove
    <2>1. rtsp'.pc = "clear" /\ Destroy(rtsp.s) /\ rtsp.s \in Session
      BY <1>2, <1>6 DEF Remove, Announcing
    <2>2. QED
      BY <2>1, DestroyLeaves DEF Runs, Announcing
  <1>7. CASE Spawn("audio", "video")
    <2>1. rtsp.pc = "audio" /\ rtsp'.pc = "video" /\ rtsp'.s = rtsp.s
      BY <1>7 DEF Spawn, TypeOK
    <2>2. UNCHANGED <<state, slots>> /\ thread' = [thread EXCEPT ![rtsp.s]["audio"] = "ping"]
      BY <1>7 DEF Spawn
    <2>3. thread'[rtsp.s]["audio"] # "none"
          /\ \A r \in Session, k \in Kind : thread[r][k] # "none" => thread'[r][k] # "none"
      BY <1>2, <2>1, <2>2 DEF TypeOK, Announcing, Kind
    <2>4. QED
      BY <2>1, <2>2, <2>3 DEF Runs, Announcing
  <1>8. CASE Spawn("video", "run")
    <2>1. rtsp.pc = "video" /\ rtsp'.pc = "run" /\ rtsp'.s = rtsp.s
      BY <1>8 DEF Spawn, TypeOK
    <2>2. UNCHANGED <<state, slots>> /\ thread' = [thread EXCEPT ![rtsp.s]["video"] = "ping"]
      BY <1>8 DEF Spawn
    <2>3. thread'[rtsp.s]["video"] # "none"
          /\ \A r \in Session, k \in Kind : thread[r][k] # "none" => thread'[r][k] # "none"
      BY <1>2, <2>1, <2>2 DEF TypeOK, Announcing, Kind
    <2>4. thread'[rtsp.s]["audio"] # "none"
      BY <1>2, <2>1, <2>3 DEF Kind, Announcing
    <2>5. QED
      BY <2>1, <2>2, <2>3, <2>4 DEF Runs, Announcing
  <1>9. CASE SetRunning
    <2>1. rtsp.pc = "run" /\ rtsp'.pc = "count" /\ rtsp'.s = rtsp.s /\ thread' = thread
      BY <1>9 DEF SetRunning, TypeOK
    <2>2. state'[rtsp.s] = "RUNNING" /\ \A r \in Session \ {rtsp.s} : state'[r] = state[r]
      BY <1>2, <1>9, <2>1 DEF SetRunning, TypeOK, Announcing
    <2>3. \A k \in Kind : thread[rtsp.s][k] # "none"
      BY <2>1 DEF Kind
    <2>4. QED
      BY <2>1, <2>2, <2>3 DEF Runs, Announcing
  <1>10. CASE AnnounceDone
    <2>1. rtsp'.pc \in {"clear", "ending"} /\ rtsp.s \in Session
      BY <1>2, <1>10 DEF AnnounceDone, Announcing
    <2>2. UNCHANGED <<state, thread>> \/ Destroy(rtsp.s)
      BY <1>10 DEF AnnounceDone, sessionVars
    <2>3. QED
      BY <2>1, <2>2, DestroyLeaves DEF Runs, Announcing
  <1>11. CASE RtspTop \/ IterateTimesOut \/ CountSession \/ RtspClear \/ RtspLastClear
    <2>1. UNCHANGED <<state, thread, slots>> /\ rtsp'.pc \notin Announcing \ {"done"}
      BY <1>11 DEF RtspTop, IterateTimesOut, CountSession, RtspClear, RtspLastClear, ClearBegin,
             sessionVars, TypeOK, Announcing
    <2>2. QED
      BY <2>1 DEF Runs, Announcing
  <1>12. CASE Erase
    <2>1. /\ clear.cur \in Session /\ slots' = slots \ {clear.cur} /\ rtsp' = rtsp
          /\ state[clear.cur] = "STOPPING"
      BY <1>12 DEF Erase, ClearState, TypeOK, WalkState, Joins
    <2>2. UNCHANGED <<state, thread>> \/ (Destroy(clear.cur) /\ rtsp.s # clear.cur)
      BY <1>12 DEF Erase, sessionVars
    <2>3. thread' = thread /\ \A r \in Session : Runs(r)' => Runs(r)
      BY <2>1, <2>2, DestroyLeaves DEF Runs
    <2>4. rtsp.pc \in Announcing => state'[rtsp.s] = state[rtsp.s]
      BY <1>2, <2>1, <2>2, DestroyLeaves
    <2>5. rtsp.pc \in Announcing \ {"count", "done"} => rtsp.s # clear.cur
      BY <2>1
    <2>6. QED
      BY <2>1, <2>3, <2>4, <2>5 DEF Runs, Announcing
  <1>13. CASE ClearEnd
    <2>1. UNCHANGED <<state, thread, slots>>
      BY <1>13 DEF ClearEnd, sessionVars
    <2>2. rtsp' = rtsp \/ rtsp'.pc \in {"top", "finished"}
      <3>1. CASE rtsp' = [rtsp EXCEPT !.pc = "top"] \/ rtsp' = [rtsp EXCEPT !.pc = "finished"]
        BY <3>1 DEF TypeOK
      <3>2. QED
        BY <1>13, <3>1 DEF ClearEnd
    <2>3. QED
      BY <2>1, <2>2 DEF Runs, Announcing
  <1>14. CASE EndBroadcast
    <2>1. UNCHANGED <<state, thread, slots>>
      BY <1>14 DEF EndBroadcast, sessionVars
    <2>2. rtsp' = [rtsp EXCEPT !.pc = IF @ = "ending" THEN "clear" ELSE @]
      BY <1>14 DEF EndBroadcast
    <2>3. rtsp' = rtsp \/ rtsp'.pc = "clear"
      BY <2>2 DEF TypeOK
    <2>4. QED
      BY <2>1, <2>3 DEF Runs, Announcing
  <1>15. ASSUME NEW s \in Session, NEW k \in Kind, thread[s][k] \in {"ping", "capture"},
                PingArrives(s, k) \/ ThreadEnds(s, k)
         PROVE  StartState'
    <2>1. UNCHANGED <<rtsp, slots>>
      BY <1>15 DEF PingArrives, ThreadEnds, OnlyThread, rtspVars
    <2>2. \A r \in Session : /\ state[r] = "STOPPED" => state'[r] = "STOPPED"
                             /\ Runs(r)' <=> Runs(r)
      BY <1>15 DEF PingArrives, ThreadEnds, Stop, Runs, TypeOK
    <2>3. \A r \in Session, j \in Kind : thread[r][j] # "none" => thread'[r][j] # "none"
      <3>1. \/ thread' = [thread EXCEPT ![s][k] = "capture"]
            \/ thread' = [thread EXCEPT ![s][k] = "done"]
        BY <1>15 DEF PingArrives, ThreadEnds
      <3>2. DOMAIN thread = Session /\ \A r \in Session : DOMAIN thread[r] = Kind
        BY DEF TypeOK
      <3>3. QED
        BY ONLY <1>15, <3>1, <3>2
    <2>4. rtsp.pc \in Announcing => rtsp.s \in Session /\ "audio" \in Kind /\ "video" \in Kind
      BY <1>2 DEF Kind
    <2>5. rtsp.pc = "count" => state'[rtsp.s] \in {"RUNNING", "STOPPING"}
      BY <2>2, <1>2 DEF Announcing, Runs
    <2>6. QED
      BY <2>1, <2>2, <2>3, <2>4, <2>5 DEF Announcing, Runs
  <1>16. QED
    BY <1>1, <1>3, <1>4, <1>5, <1>6, <1>7, <1>8, <1>9, <1>10, <1>11, <1>12, <1>13, <1>14, <1>15

\* The sessions that count are the same ones when nobody enters or leaves the
\* slots, starts to run, or is taken off.
LEMMA SameCounted ==
  ASSUME slots' = slots, \A s \in slots : Runs(s)' <=> Runs(s),
         \A s \in slots : (clear'.pc = "erase" /\ clear'.cur = s)
                          <=> (clear.pc = "erase" /\ clear.cur = s)
  PROVE  Counted' = Counted
  BY DEF Counted

\* The count follows each session into RUNNING and out of its join.
LEMMA CountStep == QuietHost /\ JInv /\ [Next]_vars => CountState'
  <1> SUFFICES ASSUME QuietHost, JInv, [Next]_vars PROVE CountState'
    OBVIOUS
  <1> USE DEF JInv, IInv, CountState
  <1>1. IsFiniteSet(Counted) /\ Cardinality(Counted) \in Nat
    <2>1. Counted \in SUBSET Session
      BY DEF Counted, TypeOK
    <2>2. QED
      BY <2>1, SessionAssumption, FS_Subset, FS_CardinalityType
  <1>2. slots \subseteq Session /\ (rtsp.pc \in Announcing => rtsp.s \in Session)
    BY DEF AnnounceState, LiveSet, TypeOK
  <1>3. ASSUME Counted' = Counted, runningSessions' = runningSessions,
               rtsp' = rtsp \/ "count" \notin {rtsp.pc, rtsp'.pc}
        PROVE  CountState'
    BY <1>3 DEF Lag
  <1>4. ASSUME UNCHANGED <<slots, clear, runningSessions, rtsp>>,
               UNCHANGED state \/ \E s \in Session : Stop(s)
        PROVE  CountState'
    <2>1. \A r \in slots : Runs(r)' <=> Runs(r)
      BY <1>2, <1>4 DEF Stop, Runs, TypeOK
    <2>2. QED
      BY <1>3, <1>4, <2>1, SameCounted
  <1>5. CASE Announce
    <2>1. ASSUME NEW s \in Session, Alloc(s) PROVE CountState'
      <3>1. UNCHANGED <<slots, clear, runningSessions>> /\ "count" \notin {rtsp.pc, rtsp'.pc}
        BY <2>1 DEF Alloc
      <3>2. s \notin slots /\ \A r \in Session \ {s} : state'[r] = state[r]
        BY <2>1 DEF Alloc, Fresh, NoneSet, TypeOK
      <3>3. QED
        BY <1>2, <1>3, <3>1, <3>2, SameCounted DEF Runs
    <2>2. CASE RtspTop \/ IterateTimesOut \/ RefBroadcast \/ StartBroadcast \/ Push \/ ArmPing
               \/ StartBroadcastFails \/ Spawn("audio", "video") \/ Spawn("video", "run")
      <3>1. UNCHANGED <<slots, clear, runningSessions, state>>
        BY <2>2 DEF RtspTop, IterateTimesOut, RefBroadcast, StartBroadcast, Push, ArmPing,
               StartBroadcastFails, Spawn, sessionVars, processVars
      <3>2. "count" \notin {rtsp.pc, rtsp'.pc}
        BY <2>2 DEF RtspTop, IterateTimesOut, RefBroadcast, StartBroadcast, Push, ArmPing,
               StartBroadcastFails, Spawn, TypeOK
      <3>3. QED
        BY <1>3, <3>1, <3>2, SameCounted DEF Runs
    <2>3. CASE Insert
      <3>1. UNCHANGED <<clear, runningSessions, state>> /\ slots' = slots \union {rtsp.s}
            /\ state[rtsp.s] = "STOPPED"
        BY <2>3 DEF Insert, sessionVars, processVars, StartState, Announcing
      <3>2. "count" \notin {rtsp.pc, rtsp'.pc}
        BY <2>3 DEF Insert, TypeOK
      <3>3. Counted' = Counted
        BY <3>1 DEF Counted, Runs
      <3>4. QED
        BY <1>3, <3>1, <3>2, <3>3
    <2>4. CASE Remove
      <3>1. /\ UNCHANGED <<clear, runningSessions>> /\ slots' = slots \ {rtsp.s}
            /\ state[rtsp.s] = "STOPPED" /\ Destroy(rtsp.s) /\ rtsp.s \in Session
        BY <1>2, <2>4 DEF Remove, processVars, StartState, Announcing
      <3>2. "count" \notin {rtsp.pc, rtsp'.pc}
        BY <2>4 DEF Remove
      <3>3. \A r \in Session \ {rtsp.s} : state'[r] = state[r]
        BY <3>1, DestroyLeaves
      <3>4. Counted' = Counted
        BY <1>2, <3>1, <3>3 DEF Counted, Runs
      <3>5. QED
        BY <1>3, <3>1, <3>2, <3>4
    <2>5. CASE SetRunning
      <3>1. /\ UNCHANGED <<slots, clear, runningSessions>> /\ rtsp.s \in slots
            /\ state[rtsp.s] = "STOPPED" /\ rtsp.pc = "run"
        BY <2>5 DEF SetRunning, processVars, StartState, Announcing
      <3>2. rtsp'.pc = "count"
        BY <2>5 DEF SetRunning, TypeOK
      <3>3. state'[rtsp.s] = "RUNNING" /\ \A r \in Session \ {rtsp.s} : state'[r] = state[r]
        BY <1>2, <2>5, <3>1 DEF SetRunning, TypeOK
      <3>4. clear.pc = "erase" => clear.cur # rtsp.s
        BY <3>1 DEF WalkState, Joins
      <3>5. Counted' = Counted \union {rtsp.s} /\ rtsp.s \notin Counted
        BY <1>2, <3>1, <3>3, <3>4 DEF Counted, Runs
      <3>6. Cardinality(Counted') = Cardinality(Counted) + 1
        BY <1>1, <3>5, FS_AddElement
      <3>7. QED
        BY <1>1, <3>1, <3>2, <3>6 DEF Lag
    <2>6. CASE CountSession
      <3>1. /\ UNCHANGED <<slots, clear, state>> /\ rtsp.pc = "count"
            /\ runningSessions' = runningSessions + 1
        BY <2>6 DEF CountSession, sessionVars
      <3>2. rtsp'.pc = "done"
        BY <2>6 DEF CountSession, TypeOK
      <3>3. Counted' = Counted
        BY <3>1, SameCounted DEF Runs
      <3>4. QED
        BY <1>1, <3>1, <3>2, <3>3 DEF Lag
    <2>7. CASE AnnounceDone
      <3>1. /\ UNCHANGED <<slots, clear, runningSessions>>
            /\ "count" \notin {rtsp.pc, rtsp'.pc} /\ rtsp.s \in Session
        BY <1>2, <2>7 DEF AnnounceDone, processVars, Announcing
      <3>2. UNCHANGED state \/ (Destroy(rtsp.s) /\ rtsp.s \notin slots)
        BY <2>7 DEF AnnounceDone, sessionVars
      <3>3. \A r \in slots : state'[r] = state[r]
        BY <1>2, <3>1, <3>2, DestroyLeaves
      <3>4. QED
        BY <1>3, <3>1, <3>3, SameCounted DEF Runs
    <2>8. QED
      BY <1>5, <2>1, <2>2, <2>3, <2>4, <2>5, <2>6, <2>7 DEF Announce
  <1>6. ASSUME NEW a \in Cleaner, NEW m, ClearBegin(a, m),
               rtsp' = rtsp \/ "count" \notin {rtsp.pc, rtsp'.pc}
        PROVE  CountState'
    <2>1. UNCHANGED <<slots, state, runningSessions>> /\ clear'.pc = "walk" /\ clear.pc # "erase"
      BY <1>6 DEF ClearBegin, sessionVars, ClearState
    <2>2. QED
      BY <1>3, <1>6, <2>1, SameCounted DEF Runs
  <1>7. CASE RtspClear \/ RtspLastClear \/ MainClear \/ \E m \in HttpModes : HttpClear(m)
    BY <1>6, <1>7 DEF RtspClear, RtspLastClear, MainClear, HttpClear, Cleaner, TypeOK
  <1>8. CASE ClearStep
    <2>1. ASSUME NEW s \in Session, Skip(s) \/ StopSlot(s) PROVE CountState'
      <3>1. /\ UNCHANGED <<slots, runningSessions, rtsp>> /\ clear.pc # "erase"
            /\ UNCHANGED state \/ Stop(s)
        BY <2>1 DEF Skip, StopSlot, OnlyClear
      <3>2. clear'.pc # "erase"
        BY <2>1 DEF Skip, StopSlot, TypeOK
      <3>3. \A r \in slots : Runs(r)' <=> Runs(r)
        BY <1>2, <3>1 DEF Stop, Runs, TypeOK
      <3>4. QED
        BY <1>3, <3>1, <3>2, <3>3, SameCounted
    <2>2. ASSUME NEW k, NEW pc \in Joins \ {"erase"}, NEW next \in Joins \ {"erase"},
                 JoinThread(k, pc, next)
          PROVE  CountState'
      <3>1. UNCHANGED <<slots, runningSessions, state, rtsp>> /\ clear.pc # "erase"
        BY <2>2 DEF JoinThread, OnlyClear
      <3>2. clear'.pc # "erase"
        BY <2>2 DEF JoinThread, TypeOK
      <3>3. QED
        BY <1>3, <3>1, <3>2, SameCounted DEF Runs
    <2>3. CASE JoinControl
      <3>1. /\ UNCHANGED <<slots, state, rtsp>> /\ clear.pc = "joinControl"
            /\ runningSessions' = runningSessions - 1
        BY <2>3 DEF JoinControl, OnlyClear, DropSession
      <3>2. clear'.pc = "erase" /\ clear'.cur = clear.cur
        BY <2>3 DEF JoinControl, TypeOK
      <3>3. clear.cur \in slots /\ state[clear.cur] = "STOPPING"
        BY <3>1 DEF ClearState, WalkState, Joins
      <3>4. Counted' = Counted \ {clear.cur} /\ clear.cur \in Counted
        BY <3>1, <3>2, <3>3 DEF Counted, Runs
      <3>5. Cardinality(Counted') = Cardinality(Counted) - 1
        BY <1>1, <3>4, FS_RemoveElement
      <3>6. QED
        BY <1>1, <3>1, <3>5 DEF Lag
    <2>4. CASE Erase
      <3>1. /\ slots' = slots \ {clear.cur} /\ UNCHANGED <<rtsp, runningSessions>>
            /\ clear.pc = "erase" /\ clear.cur \in Session
        BY <2>4 DEF Erase, processVars, ClearState, TypeOK
      <3>2. clear'.pc # "erase"
        BY <2>4 DEF Erase, TypeOK
      <3>3. UNCHANGED state \/ Destroy(clear.cur)
        BY <2>4 DEF Erase, sessionVars
      <3>4. \A r \in Session \ {clear.cur} : state'[r] = state[r]
        BY <3>1, <3>3, DestroyLeaves
      <3>5. Counted' = Counted
        BY <1>2, <3>1, <3>2, <3>4 DEF Counted, Runs
      <3>6. QED
        BY <1>3, <3>1, <3>5
    <2>5. CASE ClearEnd
      <3>1. UNCHANGED <<slots, state, runningSessions>> /\ clear.pc # "erase"
        BY <2>5 DEF ClearEnd, sessionVars
      <3>2. clear'.pc # "erase"
        BY <2>5 DEF ClearEnd, TypeOK
      <3>3. rtsp' = rtsp \/ "count" \notin {rtsp.pc, rtsp'.pc}
        BY <2>5 DEF ClearEnd, TypeOK
      <3>4. QED
        BY <1>3, <3>1, <3>2, <3>3, SameCounted DEF Runs
    <2>6. QED
      BY <1>8, <2>1, <2>2, <2>3, <2>4, <2>5 DEF ClearStep, Joins
  <1>9. CASE EndBroadcast
    <2>1. UNCHANGED <<slots, state, runningSessions>>
      BY <1>9 DEF EndBroadcast, sessionVars, processVars
    <2>2. /\ clear' = [clear EXCEPT !.pc = IF @ = "ending" THEN "walk" ELSE @]
          /\ rtsp' = [rtsp EXCEPT !.pc = IF @ = "ending" THEN "clear" ELSE @]
      BY <1>9 DEF EndBroadcast
    <2>3. clear' = clear \/ "erase" \notin {clear.pc, clear'.pc}
      BY <2>2 DEF TypeOK
    <2>4. rtsp' = rtsp \/ "count" \notin {rtsp.pc, rtsp'.pc}
      BY <2>2 DEF TypeOK
    <2>5. QED
      BY <1>3, <2>1, <2>3, <2>4, SameCounted DEF Runs
  <1>10. CASE ControlStep \/ ClientEvent
    BY <1>4, <1>10, ControlMoves DEF ControlStep, ClientEvent, ControlTop, ControlScan,
       ControlScanEnd, ControlDecide, ControlNothing, ControlConnect, ControlReceive,
       ControlDisconnect, ControlFarewell
  <1>11. ASSUME NEW s \in Session, NEW k \in Kind,
                ThreadStep(s, k) \/ CaptureFails(s, k) \/ PingArrives(s, k)
         PROVE  CountState'
    BY <1>4, <1>11 DEF ThreadStep, PingArrives, PingTimesOut, CaptureStops, CaptureFails,
       ThreadEnds, OnlyThread, rtspVars, processVars
  <1>12. CASE \/ \E s \in Session : ClientGoesSilent(s) \/ DeadlinePasses(s)
              \/ AppExits \/ ShutDown \/ SendersExit \/ UNCHANGED vars
    BY <1>4, <1>12 DEF ClientGoesSilent, DeadlinePasses, AppExits, ShutDown, SendersExit,
       vars, sessionVars, rtspVars, processVars
  <1>13. QED
    BY <1>5, <1>7, <1>8, <1>9, <1>10, <1>11, <1>12 DEF Next, Step, Environment

\* The threads that a walk joins were started.
LEMMA AbortStep == JInv /\ [Next]_vars => NeverAborts'
  <1> SUFFICES ASSUME JInv, [Next]_vars PROVE NeverAborts'
    OBVIOUS
  <1> USE DEF JInv, IInv, NeverAborts
  <1>1. ASSUME NEW k \in Kind, NEW pc \in Joins, NEW next, JoinThread(k, pc, next)
        PROVE  ~aborted'
    <2>1. state[clear.cur] = "STOPPING" /\ clear.cur \in Session
      BY <1>1 DEF JoinThread, WalkState, ClearState, Joins, TypeOK
    <2>2. thread[clear.cur][k] # "none"
      BY <2>1 DEF StartState, Runs
    <2>3. QED
      BY <1>1, <2>2 DEF JoinThread
  <1>2. aborted' = aborted \/ JoinThread("video", "joinVideo", "joinAudio")
        \/ JoinThread("audio", "joinAudio", "joinControl")
    BY ControlMoves DEF Next, Step, Environment, Announce, ClearStep, ThreadStep, vars,
       rtspVars, broadcastVars, processVars, RtspTop, IterateTimesOut, Alloc, Insert,
       RefBroadcast, StartBroadcast, StartBroadcastFails, Remove, Push, ArmPing, Spawn,
       SetRunning, CountSession, AnnounceDone, RtspClear, RtspLastClear, MainClear, HttpClear,
       ClearBegin, Skip, StopSlot, JoinControl, Erase, ClearEnd, EndBroadcast, PingArrives,
       PingTimesOut, CaptureStops, CaptureFails, ThreadEnds, OnlyThread, ClientGoesSilent,
       DeadlinePasses, AppExits, ShutDown, SendersExit
  <1>3. QED
    BY <1>1, <1>2 DEF Kind, Joins

\* All of this holds of a host that has just started.
LEMMA InitJInv == Init => AppRuns /\ ContextState /\ HandleState /\ WalkState /\ StartState
                          /\ CountState /\ NeverAborts
  <1> SUFFICES ASSUME Init
               PROVE  AppRuns /\ ContextState /\ HandleState /\ WalkState /\ StartState
                      /\ CountState /\ NeverAborts
    OBVIOUS
  <1>1. AppRuns /\ ContextState /\ HandleState /\ NeverAborts
    BY SessionAssumption DEF Init, AppRuns, ContextState, HandleState, NeverAborts, Announcing,
       Cleaner
  <1>2. WalkState /\ StartState
    BY DEF Init, WalkState, StartState, Joins, Announcing, Runs
  <1>3. CountState
    <2>1. Counted = {}
      BY DEF Init, Counted
    <2>2. QED
      BY <2>1, FS_EmptySet DEF Init, CountState, Lag
  <1>4. QED
    BY <1>1, <1>2, <1>3

\* On a host that is not shut down, whose application stays and whose clients
\* only launch and resume, session::join() finds both threads of the session
\* started, the control thread answers it, and running_sessions is the number
\* of the sessions that run.
THEOREM JoinsAreSound == QuietHost => (Spec => []JoinIsSound)
  <1> SUFFICES ASSUME QuietHost PROVE Spec => []JoinIsSound
    OBVIOUS
  <1>1. Init => JInv
    BY InitIInv, InitJInv DEF JInv
  <1>2. JInv /\ [Next]_vars => JInv'
    BY IInvStep, AppRunsStep, ContextStep, HandleStep, WalkStep, StartStep, CountStep,
       AbortStep DEF JInv
  <1>3. JInv => JoinIsSound
    <2> SUFFICES ASSUME JInv PROVE JoinIsSound
      OBVIOUS
    <2>1. NoHang
      <3> SUFFICES ASSUME clear.pc = "joinControl", ~controlEnd[clear.cur]
                   PROVE  control.pc \notin {"off", "exited"} /\ clear.cur \in sessions
        BY DEF NoHang
      <3>1. clear.cur \in slots /\ clear.cur \in Session /\ state[clear.cur] = "STOPPING"
        BY DEF JInv, IInv, ClearState, WalkState, Joins, TypeOK
      <3>2. ~(rtsp.s = clear.cur /\ rtsp.pc \in {"ref", "remove", "push"})
        BY <3>1 DEF JInv, StartState, Announcing
      <3>3. <<clear.cur, "session">> \in refs /\ clear.cur \in sessions
        BY <3>1, <3>2 DEF JInv, HandleState
      <3>4. QED
        BY <3>3 DEF JInv, IInv, HandlesBacked, ContextState
    <2>2. CountIsRunning
      BY DEF JInv, CountState, CountIsRunning, Counted, Runs, Lag
    <2>3. QED
      BY <2>1, <2>2 DEF JInv, JoinIsSound
  <1>4. QED
    BY <1>1, <1>2, <1>3, PTL DEF Spec
=============================================================================
