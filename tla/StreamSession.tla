---------------------------- MODULE StreamSession ----------------------------
(***************************************************************************)
(* The life of the streaming sessions (stream.cpp, and the session slots   *)
(* of rtsp.cpp): ANNOUNCE allocates and starts a session on the RTSP       *)
(* thread, the control thread of the broadcast context watches it, its own *)
(* video and audio threads capture, and whoever clears the slots (the RTSP *)
(* thread, an HTTP handler, the main thread at shutdown) stops it, joins   *)
(* its threads, waits for the control thread to let go, and destroys it.   *)
(* The last session destroyed tears the broadcast context down.            *)
(*                                                                         *)
(* External to this module: the launch event (LaunchSession), the inside   *)
(* of shared_t (SharedRef; here its promise, SoleInstance, is assumed),    *)
(* and the application process, whose exit is an action.                   *)
(***************************************************************************)
EXTENDS Integers, FiniteSets, TLC

CONSTANTS Session,         \* the sessions ever allocated
          NoSession,
          CertOf,          \* the client certificate of each session
          HttpModes,       \* what the HTTP threads may do to the slots
          AppMayExit,      \* the application may exit on its own
          MayGoSilent,     \* the sessions whose client may stop sending for good
          MayShutDown,     \* the process may be asked to shut down
          NoOne            \* nobody holds the slots' mutex

Certs == {CertOf[s] : s \in Session}
Cleaner == {"rtsp", "main", "http"}
Kind == {"video", "audio"}

\* The calls that walk the slots: clear(true) at shutdown, clear(true) from
\* /cancel, clear(false), clear(false) inside /launch and /resume, and
\* clear_by_cert(cert) for each certificate.
Calls == {"all", "cancel", "stopping", "launch", "resume"}
Modes == Calls \union Certs

ASSUME SessionAssumption == /\ IsFiniteSet(Session)
                            /\ NoSession \notin Session
                            /\ NoOne \notin Cleaner
                            /\ Certs \intersect Calls = {}
                            /\ HttpModes \subseteq Modes
                            /\ MayGoSilent \subseteq Session
                            /\ AppMayExit \in BOOLEAN
                            /\ MayShutDown \in BOOLEAN

VARIABLES
  \* session_t
  state,                   \* session.state; "none" before alloc(), "destroyed" after
  shutdownEvent,           \* the session's mail::shutdown is raised
  controlEnd,              \* session.controlEnd is raised
  peer,                    \* session.control.peer is set
  deadline,                \* session.pingTimeout against the clock
  thread,                  \* thread[s][k]: where the video/audio thread is
  silent,                  \* the clients that have stopped sending
  \* rtsp_server_t
  slots,                   \* _session_slots
  slotsLock,               \* who holds its mutex
  clear,                   \* the walk of the holder: [pc, mode, todo, cur]
  rtsp,                    \* the RTSP thread: [pc, s], s while it announces
  main,                    \* the thread in rtsp_stream::start()
  launched,                \* a launch was raised, and connections matched to it
  \* broadcast
  broadcast,               \* shared_t: "down", "up", or "ending"
  refs,                    \* who holds a ptr_t: <<session, holder>>
  broadcastShutdown,       \* mail::broadcast_shutdown is raised
  senders,                 \* the packet threads of the context
  sessions,                \* control_server._sessions
  control,                 \* controlBroadcastThread: [pc, todo, awaiting]
  \* the process
  runningSessions,         \* session::running_sessions
  sessionState,            \* rtsp_stream::session_state
  proc,                    \* the application: "exited" is not noticed yet
  shutdown,                \* mail::man's shutdown event is raised
  aborted                  \* std::thread::join threw: the process is gone

sessionVars == <<state, shutdownEvent, controlEnd, peer, deadline, thread, silent>>
rtspVars == <<slots, slotsLock, clear, rtsp, main, launched>>
broadcastVars == <<broadcast, refs, broadcastShutdown, senders, sessions, control>>
processVars == <<runningSessions, sessionState, proc, shutdown, aborted>>
vars == <<sessionVars, rtspVars, broadcastVars, processVars>>

ClearPC == {"idle", "walk", "joinVideo", "joinAudio", "joinControl", "erase", "ending"}
AnnouncePC == {"insert", "ref", "push", "ping", "audio", "video", "run",
               "count", "done", "remove", "ending"}
RtspPC == {"top", "iterate", "clear", "walk", "last", "lastWalk", "finished"}
            \union AnnouncePC
ControlPC == {"off", "top", "scan", "decide", "iterate", "farewell", "exited"}
ThreadPC == {"none", "ping", "capture", "done"}

TypeOK ==
  /\ state \in [Session -> 
                         {"none", "STOPPED", "RUNNING", "STOPPING", "destroyed"}]
  /\ shutdownEvent \in [Session -> BOOLEAN]
  /\ controlEnd \in [Session -> BOOLEAN]
  /\ peer \in [Session -> BOOLEAN]
  /\ deadline \in [Session -> {"unset", "armed", "passed"}]
  /\ thread \in [Session -> [Kind -> ThreadPC]]
  /\ silent \subseteq Session
  /\ slots \subseteq Session
  /\ slotsLock \in Cleaner \union {NoOne}
  /\ clear \in [pc: ClearPC, mode: Modes \union {"none"}, todo: SUBSET Session,
                cur: Session \union {NoSession}]
  /\ rtsp \in [pc: RtspPC, s: Session \union {NoSession}]
  /\ main \in {"view", "walk", "stopped"}
  /\ launched \in BOOLEAN
  /\ broadcast \in {"down", "up", "ending"}
  /\ refs \subseteq (Session \X (Kind \union {"session"}))
  /\ broadcastShutdown \in BOOLEAN
  /\ senders \in {"off", "running"}
  /\ sessions \subseteq Session
  /\ control \in [pc: ControlPC, todo: SUBSET Session, awaiting: BOOLEAN]
  /\ runningSessions \in Int
  /\ sessionState \in {"STOPPED", "RUNNING"}
  /\ proc \in {"none", "running", "exited"}
  /\ shutdown \in BOOLEAN
  /\ aborted \in BOOLEAN

Init ==
  /\ state = [s \in Session |-> "none"]
  /\ shutdownEvent = [s \in Session |-> FALSE]
  /\ controlEnd = [s \in Session |-> FALSE]
  /\ peer = [s \in Session |-> FALSE]
  /\ deadline = [s \in Session |-> "unset"]
  /\ thread = [s \in Session |-> [k \in Kind |-> "none"]]
  /\ silent = {}
  /\ slots = {} /\ slotsLock = NoOne
  /\ clear = [pc |-> "idle", mode |-> "none", todo |-> {}, cur |-> NoSession]
  /\ rtsp = [pc |-> "top", s |-> NoSession]
  /\ main = "view" /\ launched = FALSE
  /\ broadcast = "down" /\ refs = {} /\ broadcastShutdown = FALSE
  /\ senders = "off" /\ sessions = {}
  /\ control = [pc |-> "off", todo |-> {}, awaiting |-> FALSE]
  /\ runningSessions = 0 /\ sessionState = "STOPPED"
  /\ proc = "none" /\ shutdown = FALSE /\ aborted = FALSE

-----------------------------------------------------------------------------
(* Helpers *)

\* The session_t exists: some shared_ptr (its slot's, or the local one of
\* cmd_announce) refers to it.
Alive(s) == state[s] \notin {"none", "destroyed"}

\* session::stop(): only a RUNNING session can be stopped; any other call is
\* taken for a second one and ignored.
Stop(s) ==
  /\ state' = IF state[s] = "RUNNING" THEN [state EXCEPT ![s] = "STOPPING"] ELSE state
  /\ shutdownEvent' = [shutdownEvent EXCEPT ![s] = @ \/ state[s] = "RUNNING"]

\* proc::proc.running(): the call that finds the application gone also
\* terminates it, which resets the reported session state.
NoticeExit ==
  /\ proc' = IF proc = "exited" THEN "none" ELSE proc
  /\ sessionState' = IF proc = "exited" THEN "STOPPED" ELSE sessionState

\* ~session_t, once no shared_ptr is left: the handle on the broadcast goes,
\* and the last one runs end_broadcast(), which first raises
\* broadcast_shutdown.  What the fields held is nobody's business any more.
Destroy(s) ==
  /\ state' = [state EXCEPT ![s] = "destroyed"]
  /\ shutdownEvent' = [shutdownEvent EXCEPT ![s] = FALSE]
  /\ controlEnd' = [controlEnd EXCEPT ![s] = FALSE]
  /\ peer' = [peer EXCEPT ![s] = FALSE]
  /\ deadline' = [deadline EXCEPT ![s] = "unset"]
  /\ refs' = refs \ {<<s, "session">>}
  /\ IF refs' = {} /\ refs # {}
     THEN broadcast' = "ending" /\ broadcastShutdown' = TRUE
     ELSE UNCHANGED <<broadcast, broadcastShutdown>>
  /\ UNCHANGED <<thread, silent>>

\* Which sessions a walk over the slots stops and joins.
Selected(mode, s) == \/ mode \in {"all", "cancel"}
                     \/ mode \in {"stopping", "launch", "resume"} /\ state[s] = "STOPPING"
                     \/ mode = CertOf[s]

-----------------------------------------------------------------------------
(* cmd_announce: session::alloc, insert, session::start, on the RTSP thread *)

\* while (!shutdown_event->peek()) server.iterate()
RtspTop == /\ rtsp.pc = "top"
           /\ rtsp' = [rtsp EXCEPT !.pc = IF shutdown THEN "last" ELSE "iterate"]
           /\ UNCHANGED <<sessionVars, slots, slotsLock, clear, main, launched,
                          broadcastVars, processVars>>

IterateTimesOut == /\ rtsp.pc = "iterate"
                   /\ rtsp' = [rtsp EXCEPT !.pc = "clear"]
                   /\ UNCHANGED <<sessionVars, slots, slotsLock, clear, main, launched, broadcastVars, processVars>>

\* Faulty: the shared_ptr is moved away before insert() takes it.
AllocMoved(s) == /\ rtsp.pc = "iterate" /\ launched
                 /\ state[s] = "none"
                 /\ state' = [state EXCEPT ![s] = "STOPPED"]
                 /\ sessionState' = "STOPPED"
                 /\ rtsp' = [pc |-> "insert", s |-> NoSession]
                 /\ UNCHANGED <<shutdownEvent, controlEnd, peer, deadline, thread, silent,
                                slots, slotsLock, clear, main, launched, broadcastVars,
                                runningSessions, proc, shutdown, aborted>>

\* ANNOUNCE on a connection that was accepted while a launch was pending; the
\* connection keeps that launch, for as long as its client likes.
Alloc(s) == /\ rtsp.pc = "iterate" /\ launched
            /\ state[s] = "none"
            /\ state' = [state EXCEPT ![s] = "STOPPED"]
            /\ sessionState' = "STOPPED"
            /\ rtsp' = [pc |-> "insert", s |-> s]
            /\ UNCHANGED <<shutdownEvent, controlEnd, peer, deadline, thread, silent,
                           slots, slotsLock, clear, main, launched, broadcastVars,
                           runningSessions, proc, shutdown, aborted>>

Insert == /\ rtsp.pc = "insert" /\ slotsLock = NoOne
          /\ slots' = slots \union {rtsp.s}
          /\ rtsp' = [rtsp EXCEPT !.pc = "ref"]
          /\ UNCHANGED <<sessionVars, slotsLock, clear, main, launched,
                         broadcastVars, processVars>>

\* broadcast.ref() of a context that is up; it blocks while one is ending.
RefBroadcast == /\ rtsp.pc = "ref" /\ broadcast = "up"
                /\ refs' = refs \union {<<rtsp.s, "session">>}
                /\ rtsp' = [rtsp EXCEPT !.pc = "push"]
                /\ UNCHANGED <<sessionVars, slots, slotsLock, clear, main, launched,
                               broadcast, broadcastShutdown, senders, sessions, control,
                               processVars>>

\* start_broadcast(): a new context, with its threads and no sessions yet.
StartBroadcast == /\ rtsp.pc = "ref" /\ broadcast = "down"
                  /\ broadcast' = "up"
                  /\ refs' = {<<rtsp.s, "session">>}
                  /\ senders' = "running"
                  /\ sessions' = {}
                  /\ control' = [pc |-> "top", todo |-> {}, awaiting |-> FALSE]
                  /\ rtsp' = [rtsp EXCEPT !.pc = "push"]
                  /\ UNCHANGED <<sessionVars, slots, slotsLock, clear, main, launched,
                                 broadcastShutdown, processVars>>

\* A port was taken: session::start fails, and the slot is removed.
StartBroadcastFails == /\ rtsp.pc = "ref" /\ broadcast = "down"
                       /\ rtsp' = [rtsp EXCEPT !.pc = "remove"]
                       /\ UNCHANGED <<sessionVars, slots, slotsLock, clear, main,
                                      launched, broadcastVars, processVars>>

Remove == /\ rtsp.pc = "remove" /\ slotsLock = NoOne
          /\ slots' = slots \ {rtsp.s}
          /\ Destroy(rtsp.s)
          /\ rtsp' = [pc |-> "clear", s |-> NoSession]
          /\ UNCHANGED <<slotsLock, clear, main, launched, senders, sessions,
                         control, processVars>>

\* control_server._sessions is locked while the control thread scans it.
Push == /\ rtsp.pc = "push" /\ control.pc # "scan"
        /\ sessions' = sessions \union {rtsp.s}
        /\ rtsp' = [rtsp EXCEPT !.pc = "ping"]
        /\ UNCHANGED <<sessionVars, slots, slotsLock, clear, main, launched,
                       broadcast, refs, broadcastShutdown, senders, control, processVars>>

\* Until here pingTimeout is the epoch, which the control thread finds past.
ArmPing == /\ rtsp.pc = "ping"
           /\ deadline' = [deadline EXCEPT ![rtsp.s] = "armed"]
           /\ rtsp' = [rtsp EXCEPT !.pc = "audio"]
           /\ UNCHANGED <<state, shutdownEvent, controlEnd, peer, thread, silent,
                          slots, slotsLock, clear, main, launched,
                          broadcastVars, processVars>>

\* The first thing each thread does is to take a handle on the broadcast; it
\* cannot block, for the session holds one.
Spawn(k, next) == /\ rtsp.pc = k
                  /\ thread' = [thread EXCEPT ![rtsp.s][k] = "ping"]
                  /\ refs' = refs \union {<<rtsp.s, k>>}
                  /\ rtsp' = [rtsp EXCEPT !.pc = next]
                  /\ UNCHANGED <<state, shutdownEvent, controlEnd, peer, deadline, silent,
                                 slots, slotsLock, clear, main, launched,
                                 broadcast, broadcastShutdown, senders, sessions, control,
                                 processVars>>

SetRunning == /\ rtsp.pc = "run"
              /\ state' = [state EXCEPT ![rtsp.s] = "RUNNING"]
              /\ rtsp' = [rtsp EXCEPT !.pc = "count"]
              /\ UNCHANGED <<shutdownEvent, controlEnd, peer, deadline, thread, silent,
                             slots, slotsLock, clear, main, launched,
                             broadcastVars, processVars>>

\* The first session also runs platf::streaming_will_start().
CountSession == /\ rtsp.pc = "count"
                /\ runningSessions' = runningSessions + 1
                /\ sessionState' = IF runningSessions' = 1 THEN "RUNNING" ELSE sessionState
                /\ rtsp' = [rtsp EXCEPT !.pc = "done"]
                /\ UNCHANGED <<sessionVars, slots, slotsLock, clear, main, launched,
                               broadcastVars, proc, shutdown, aborted>>

\* The local shared_ptr goes; the session may have been cleared meanwhile.
AnnounceDone ==
  /\ rtsp.pc = "done"
  /\ IF rtsp.s \in slots
     THEN /\ rtsp' = [pc |-> "clear", s |-> NoSession]
          /\ UNCHANGED <<sessionVars, broadcast, refs, broadcastShutdown>>
     ELSE /\ Destroy(rtsp.s)
          /\ rtsp' = [pc |-> IF broadcast' = "ending" THEN "ending" ELSE "clear",
                      s |-> NoSession]
  /\ UNCHANGED <<slots, slotsLock, clear, main, launched,
                 senders, sessions, control, processVars>>

Announce == \/ RtspTop \/ IterateTimesOut
            \/ \E s \in Session : Alloc(s)
            \/ Insert \/ RefBroadcast \/ StartBroadcast \/ StartBroadcastFails \/ Remove
            \/ Push \/ ArmPing \/ Spawn("audio", "video") \/ Spawn("video", "run")
            \/ SetRunning \/ CountSession \/ AnnounceDone

-----------------------------------------------------------------------------
(* videoThread and audioThread *)

OnlyThread == UNCHANGED <<controlEnd, peer, deadline, silent, rtspVars, processVars,
                          broadcast, broadcastShutdown, senders, sessions, control>>

\* recv_ping: the client's first packet.
PingArrives(s, k) == /\ thread[s][k] = "ping" /\ s \notin silent
                     /\ thread' = [thread EXCEPT ![s][k] = "capture"]
                     /\ UNCHANGED <<state, shutdownEvent, refs>>
                     /\ OnlyThread

\* The end of a thread: its handle goes, then its fail_guard stops the session.
ThreadEnds(s, k) == /\ thread' = [thread EXCEPT ![s][k] = "done"]
                    /\ refs' = refs \ {<<s, k>>}
                    /\ Stop(s)
                    /\ OnlyThread

\* ping_timeout without a packet; the wait ignores the shutdown event.
PingTimesOut(s, k) == thread[s][k] = "ping" /\ ThreadEnds(s, k)

CaptureStops(s, k) == thread[s][k] = "capture" /\ shutdownEvent[s] /\ ThreadEnds(s, k)

CaptureFails(s, k) == thread[s][k] = "capture" /\ ~shutdownEvent[s] /\ ThreadEnds(s, k)

ThreadStep(s, k) == PingTimesOut(s, k) \/ CaptureStops(s, k)

-----------------------------------------------------------------------------
(* rtsp_server_t::clear and clear_by_cert: stop, join and erase, with the  *)
(* slots locked throughout                                                 *)

ClearBegin(a, mode) ==
  /\ slotsLock = NoOne
  /\ slotsLock' = a
  /\ clear' = [pc |-> "walk", mode |-> mode, todo |-> slots, cur |-> NoSession]
  /\ UNCHANGED <<slots, launched, sessionVars, broadcastVars,
                 runningSessions, shutdown, aborted>>

\* A raised broadcast_shutdown makes the RTSP thread clear every session.
\* Looking at it and locking the slots is one step: it is raised only while
\* no session has a handle on the broadcast, so that what another thread does
\* before this one gets the lock leaves no other session to clear.
RtspClear == /\ rtsp.pc = "clear"
             /\ ClearBegin("rtsp", IF broadcastShutdown THEN "all" ELSE "stopping")
             /\ rtsp' = [rtsp EXCEPT !.pc = "walk"]
             /\ UNCHANGED <<main, proc, sessionState>>

RtspLastClear == /\ rtsp.pc = "last"
                 /\ ClearBegin("rtsp", "all")
                 /\ rtsp' = [rtsp EXCEPT !.pc = "lastWalk"]
                 /\ UNCHANGED <<main, proc, sessionState>>

MainClear == /\ main = "view" /\ shutdown
             /\ ClearBegin("main", "all")
             /\ main' = "walk"
             /\ UNCHANGED <<rtsp, proc, sessionState>>

\* /launch needs no application running, /resume needs one.
HttpClear(mode) == /\ mode = "launch" => proc # "running"
                   /\ mode = "resume" => proc = "running"
                   /\ ClearBegin("http", mode)
                   /\ IF mode \in {"launch", "resume"}
                      THEN NoticeExit
                      ELSE UNCHANGED <<proc, sessionState>>
                   /\ UNCHANGED <<rtsp, main>>

OnlyClear == UNCHANGED <<controlEnd, peer, deadline, thread, silent,
                         slotsLock, rtsp, main, launched, senders, sessions,
                         control, shutdown>>

Skip(s) == /\ clear.pc = "walk" /\ s \in clear.todo
           /\ ~Selected(clear.mode, s)
           /\ clear' = [clear EXCEPT !.todo = @ \ {s}]
           /\ UNCHANGED <<state, shutdownEvent, slots, broadcast, refs,
                          broadcastShutdown, runningSessions, sessionState, proc, aborted>>
           /\ OnlyClear

StopSlot(s) == /\ clear.pc = "walk" /\ s \in clear.todo
               /\ Selected(clear.mode, s)
               /\ Stop(s)
               /\ clear' = [clear EXCEPT !.pc = "joinVideo", !.todo = @ \ {s}, !.cur = s]
               /\ UNCHANGED <<slots, broadcast, refs, broadcastShutdown,
                              runningSessions, sessionState, proc, aborted>>
               /\ OnlyClear

\* Faulty: the audio thread is not waited for.
VideoJoined(s, k) == k = "video" => thread[s][k] \in {"none", "done"}

\* join() returns when the thread ended; it throws if none was started.
Joined(s, k) == thread[s][k] \in {"none", "done"}

JoinThread(k, pc, next) ==
  /\ clear.pc = pc
  /\ Joined(clear.cur, k)
  /\ IF thread[clear.cur][k] = "none"
     THEN aborted' = TRUE /\ UNCHANGED clear
     ELSE clear' = [clear EXCEPT !.pc = next] /\ UNCHANGED aborted
  /\ UNCHANGED <<state, shutdownEvent, slots, broadcast, refs, broadcastShutdown,
                 runningSessions, sessionState, proc>>
  /\ OnlyClear

\* Faulty: the control thread is not waited for.
NoControlEnd(s) == TRUE

\* controlEnd.view() returns.
ControlEnded(s) == controlEnd[s]

\* Faulty: the count drops only while it says that others run.
DropWhileOthers == IF runningSessions > 1 THEN runningSessions - 1 ELSE runningSessions

DropSession == runningSessions - 1

\* The last session runs the platform callbacks.
JoinControl ==
  /\ clear.pc = "joinControl" /\ ControlEnded(clear.cur)
  /\ runningSessions' = DropSession
  /\ IF runningSessions' = 0
     THEN /\ proc' = IF proc = "exited" THEN "none" ELSE proc
          /\ sessionState' = IF proc = "none" THEN sessionState ELSE "STOPPED"
     ELSE UNCHANGED <<proc, sessionState>>
  /\ clear' = [clear EXCEPT !.pc = "erase"]
  /\ UNCHANGED <<state, shutdownEvent, slots, broadcast, refs, broadcastShutdown, aborted>>
  /\ OnlyClear

\* The slot's shared_ptr goes: usually the last one.
Erase ==
  /\ clear.pc = "erase"
  /\ slots' = slots \ {clear.cur}
  /\ IF rtsp.s = clear.cur
     THEN UNCHANGED <<sessionVars, broadcast, refs, broadcastShutdown>>
     ELSE Destroy(clear.cur)
  /\ clear' = [clear EXCEPT !.pc = IF broadcast = "up" /\ broadcast' = "ending"
                                   THEN "ending" ELSE "walk",
                            !.cur = NoSession]
  /\ UNCHANGED <<slotsLock, rtsp, main, launched, senders, sessions,
                 control, processVars>>

\* The walk is over.  /cancel goes on to terminate the application; /launch
\* executes one and raises the launch event, /resume only raises it.
ClearEnd ==
  /\ clear.pc = "walk" /\ clear.todo = {}
  /\ slotsLock' = NoOne
  /\ clear' = [clear EXCEPT !.pc = "idle", !.mode = "none"]
  /\ rtsp' = CASE slotsLock = "rtsp" /\ rtsp.pc = "walk"     -> [rtsp EXCEPT !.pc = "top"]
               [] slotsLock = "rtsp" /\ rtsp.pc = "lastWalk" -> [rtsp EXCEPT !.pc = "finished"]
               [] OTHER -> rtsp
  /\ main' = IF slotsLock = "main" THEN "stopped" ELSE main
  /\ launched' = (launched \/ clear.mode \in {"launch", "resume"})
  /\ CASE clear.mode = "launch" ->
            proc' \in {"running"} \union (IF AppMayExit THEN {"none"} ELSE {})
       [] clear.mode = "cancel" -> proc' = "none"
       [] OTHER -> UNCHANGED proc
  /\ sessionState' = IF clear.mode = "cancel" /\ proc # "none" THEN "STOPPED" ELSE sessionState
  /\ UNCHANGED <<sessionVars, slots, broadcastVars,
                 runningSessions, shutdown, aborted>>

ClearStep == \/ \E s \in Session : Skip(s) \/ StopSlot(s)
             \/ JoinThread("video", "joinVideo", "joinAudio")
             \/ JoinThread("audio", "joinAudio", "joinControl")
             \/ JoinControl \/ Erase \/ ClearEnd

-----------------------------------------------------------------------------
(* end_broadcast *)

\* videoBroadcastThread and audioBroadcastThread find their queues stopped;
\* each raises broadcast_shutdown once more on its way out.
SendersExit == /\ broadcast = "ending" /\ senders = "running"
               /\ senders' = "off"
               /\ broadcastShutdown' = TRUE
               /\ UNCHANGED <<sessionVars, rtspVars, processVars,
                              broadcast, refs, sessions, control>>

\* Faulty: the event stays raised.
LeaveShutdown == UNCHANGED broadcastShutdown

ResetShutdown == broadcastShutdown' = FALSE

\* All threads of the context are joined: reset the event, free the context.
EndBroadcast ==
  /\ broadcast = "ending" /\ senders = "off" /\ control.pc = "exited"
  /\ ResetShutdown
  /\ broadcast' = "down"
  /\ sessions' = {}
  /\ control' = [control EXCEPT !.pc = "off"]
  /\ clear' = [clear EXCEPT !.pc = IF @ = "ending" THEN "walk" ELSE @]
  /\ rtsp' = [rtsp EXCEPT !.pc = IF @ = "ending" THEN "clear" ELSE @]
  /\ UNCHANGED <<sessionVars, slots, slotsLock, main, launched,
                 refs, senders, processVars>>

-----------------------------------------------------------------------------
(* controlBroadcastThread *)

OnlyControl == UNCHANGED <<thread, silent, slots, slotsLock, clear, rtsp, main, launched,
                           broadcast, refs, broadcastShutdown, senders,
                           runningSessions, shutdown, aborted>>

\* Faulty: the loop looks only at the event of the process.
ProcessShutsDown == shutdown

ShuttingDown == shutdown \/ broadcastShutdown

ControlTop == /\ control.pc = "top"
              /\ control' = IF ShuttingDown
                            THEN [control EXCEPT !.pc = "farewell"]
                            ELSE [pc |-> "scan", todo |-> sessions, awaiting |-> FALSE]
              /\ UNCHANGED <<state, shutdownEvent, controlEnd, peer, deadline,
                             sessions, sessionState, proc>>
              /\ OnlyControl

\* Faulty: a session whose client never connected is not told.
LetPeerGo(s) == controlEnd' = [controlEnd EXCEPT ![s] = @ \/ peer[s]]

LetGo(s) == controlEnd' = [controlEnd EXCEPT ![s] = TRUE]

\* now > pingTimeout: also true before cmd_announce has set it.
Overdue(s) == deadline[s] # "armed"

\* One session of the scan: stop it if its client went silent; if it is
\* stopping, forget it and say so on controlEnd; else see whether it still
\* waits for its peer.
ControlScan(s) ==
  /\ control.pc = "scan" /\ s \in control.todo /\ ~ShuttingDown
  /\ IF Overdue(s) THEN Stop(s) ELSE UNCHANGED <<state, shutdownEvent>>
  /\ IF state'[s] = "STOPPING"
     THEN /\ sessions' = sessions \ {s}
          /\ LetGo(s)
          /\ peer' = [peer EXCEPT ![s] = FALSE]
          /\ control' = [control EXCEPT !.todo = @ \ {s}]
     ELSE /\ control' = [control EXCEPT !.todo = @ \ {s}, !.awaiting = @ \/ ~peer[s]]
          /\ UNCHANGED <<sessions, controlEnd, peer>>
  /\ UNCHANGED <<deadline, sessionState, proc>>
  /\ OnlyControl

ControlScanEnd == /\ control.pc = "scan" /\ (control.todo = {} \/ ShuttingDown)
                  /\ control' = [control EXCEPT !.pc = "decide", !.todo = {}]
                  /\ UNCHANGED <<state, shutdownEvent, controlEnd, peer, deadline,
                                 sessions, sessionState, proc>>
                  /\ OnlyControl

\* The sessions are unlocked again.  Without an application, and with no
\* session found awaiting its peer, the loop ends.
ControlDecide == /\ control.pc = "decide"
                 /\ NoticeExit
                 /\ control' = [control EXCEPT !.pc =
                                  IF proc # "running" /\ ~control.awaiting
                                  THEN "farewell" ELSE "iterate",
                                              !.awaiting = FALSE]
                 /\ UNCHANGED <<state, shutdownEvent, controlEnd, peer, deadline,
                                sessions>>
                 /\ OnlyControl

IterateEnds == control' = [control EXCEPT !.pc = "top"]

ControlNothing == /\ control.pc = "iterate"
                  /\ IterateEnds
                  /\ UNCHANGED <<state, shutdownEvent, controlEnd, peer, deadline,
                                 sessions, sessionState, proc>>
                  /\ OnlyControl

\* get_session's slow path claims a session for a new peer.
ControlConnect(s) == /\ control.pc = "iterate" /\ s \in sessions \ silent
                     /\ ~peer[s]
                     /\ peer' = [peer EXCEPT ![s] = TRUE]
                     /\ deadline' = [deadline EXCEPT ![s] = "armed"]
                     /\ IterateEnds
                     /\ UNCHANGED <<state, shutdownEvent, controlEnd, sessions,
                                    sessionState, proc>>
                     /\ OnlyControl

ControlReceive(s) == /\ control.pc = "iterate" /\ s \in sessions \ silent
                     /\ peer[s]
                     /\ deadline' = [deadline EXCEPT ![s] = "armed"]
                     /\ IterateEnds
                     /\ UNCHANGED <<state, shutdownEvent, controlEnd, peer,
                                    sessions, sessionState, proc>>
                     /\ OnlyControl

\* A disconnect, or a message that fails authentication.
ControlDisconnect(s) == /\ control.pc = "iterate" /\ s \in sessions
                        /\ peer[s]
                        /\ deadline' = [deadline EXCEPT ![s] = "armed"]
                        /\ Stop(s)
                        /\ IterateEnds
                        /\ UNCHANGED <<controlEnd, peer, sessions,
                                       sessionState, proc>>
                        /\ OnlyControl

\* Tell every session left, connected or not, that the stream is over.
ControlFarewell ==
  /\ control.pc = "farewell"
  /\ shutdownEvent' = [s \in Session |-> shutdownEvent[s] \/ s \in sessions]
  /\ controlEnd' = [s \in Session |-> controlEnd[s] \/ s \in sessions]
  /\ control' = [control EXCEPT !.pc = "exited"]
  /\ UNCHANGED <<state, peer, deadline, sessions, sessionState, proc>>
  /\ OnlyControl

ControlStep == \/ ControlTop \/ \E s \in Session : ControlScan(s)
               \/ ControlScanEnd \/ ControlDecide \/ ControlNothing \/ ControlFarewell

ClientEvent == \E s \in Session : \/ ControlConnect(s) \/ ControlReceive(s)
                                  \/ ControlDisconnect(s)

-----------------------------------------------------------------------------
(* The environment *)

ClientGoesSilent(s) == /\ s \in MayGoSilent \ silent /\ Alive(s)
                       /\ silent' = silent \union {s}
                       /\ UNCHANGED <<state, shutdownEvent, controlEnd, peer, deadline,
                                      thread, rtspVars, broadcastVars, processVars>>

\* ping_timeout passes with no message from the client.
DeadlinePasses(s) == /\ deadline[s] = "armed"
                     /\ deadline' = [deadline EXCEPT ![s] = "passed"]
                     /\ UNCHANGED <<state, shutdownEvent, controlEnd, peer, thread,
                                    silent, rtspVars, broadcastVars, processVars>>

AppExits == /\ AppMayExit /\ proc = "running"
            /\ proc' = "exited"
            /\ UNCHANGED <<sessionVars, rtspVars, broadcastVars,
                           runningSessions, sessionState, shutdown, aborted>>

ShutDown == /\ MayShutDown /\ ~shutdown
            /\ shutdown' = TRUE
            /\ UNCHANGED <<sessionVars, rtspVars, broadcastVars,
                           runningSessions, sessionState, proc, aborted>>

Environment == \/ \E s \in Session : ClientGoesSilent(s) \/ DeadlinePasses(s)
               \/ AppExits \/ ShutDown
               \/ \E m \in HttpModes : HttpClear(m)
               \/ ClientEvent
               \/ \E s \in Session, k \in Kind : PingArrives(s, k) \/ CaptureFails(s, k)

Step == \/ Announce \/ RtspClear \/ RtspLastClear \/ MainClear \/ ClearStep
        \/ SendersExit \/ EndBroadcast \/ ControlStep
        \/ \E s \in Session, k \in Kind : ThreadStep(s, k)

Next == ~aborted /\ (Step \/ Environment)

Spec == Init /\ [][Next]_vars

\* Each thread of the program goes on when it can.  std::mutex is not fair,
\* but its holders let go of it for 150 ms (the control thread) or 500 ms
\* (the RTSP thread) at a time, so a waiting thread gets it: strong fairness.
\* Nothing is assumed of clients, HTTP requests, the application or errors,
\* except that the time of a silent client runs out.
RtspStep == \/ RtspTop \/ IterateTimesOut \/ RtspClear \/ RtspLastClear
            \/ Announce /\ rtsp.s # NoSession

Fairness ==
  /\ SF_vars(~aborted /\ RtspStep)
  /\ SF_vars(~aborted /\ MainClear)
  /\ WF_vars(~aborted /\ ClearStep)
  /\ WF_vars(~aborted /\ ControlStep)
  /\ WF_vars(~aborted /\ (SendersExit \/ EndBroadcast))
  /\ \A s \in Session : WF_vars(~aborted /\ s \in silent /\ DeadlinePasses(s))
  /\ \A s \in Session, k \in Kind : WF_vars(~aborted /\ ThreadStep(s, k))

FairSpec == Spec /\ Fairness

-----------------------------------------------------------------------------
(* Properties *)

\* The control thread works through raw pointers: every session it may still
\* touch is alive.  This is what controlEnd is for.
NoDanglingControl ==
  control.pc \notin {"off", "exited"} =>
     \A s \in sessions \union control.todo : Alive(s)

\* A thread of a session runs only while the session is alive, and it keeps
\* the broadcast context, whose sockets it uses, up.
ThreadsBacked ==
  \A s \in Session, k \in Kind :
     thread[s][k] \in {"ping", "capture"} =>
        Alive(s) /\ broadcast = "up" /\ <<s, "session">> \in refs

\* A broadcast context that is up was not told to shut down by its
\* predecessor: the event is raised and reset within one end_broadcast().
FreshBroadcast == broadcast # "ending" => ~broadcastShutdown

\* Whoever waits for the control thread to let go of a session is answered.
NoHang == clear.pc = "joinControl" /\ ~controlEnd[clear.cur] =>
            control.pc \notin {"off", "exited"} /\ clear.cur \in sessions

\* running_sessions counts the sessions started and not yet joined; it lags
\* by the one between "state = RUNNING" and ++running_sessions, and is then
\* -1 (2^32 - 1) if that session has ended already.
CountIsRunning ==
  runningSessions =
    Cardinality({s \in slots : /\ state[s] \in {"RUNNING", "STOPPING"}
                               /\ ~(clear.pc = "erase" /\ clear.cur = s)})
      - (IF rtsp.pc = "count" THEN 1 ELSE 0)

\* Nobody joins a thread that was never started.
NeverAborts == ~aborted

\* session::join(): the control thread answers it, the threads it joins exist,
\* and it takes the session off the count that decides who was the last.
JoinIsSound == NoHang /\ CountIsRunning /\ NeverAborts

\* A session that is stopping is joined and destroyed: nobody waits for ever
\* for its threads, for the control thread or for the slots.
StoppedIsDestroyed ==
  \A s \in Session : state[s] = "STOPPING" ~> state[s] = "destroyed"

\* A session whose client went away does not stay, however far it had come.
SilentIsDestroyed ==
  \A s \in Session : s \in silent ~> state[s] = "destroyed"

\* A session that should be over is.
SessionsEnd == StoppedIsDestroyed /\ SilentIsDestroyed

\* A broadcast context that is told to end does end.
BroadcastEnds == broadcast = "ending" ~> broadcast = "down"

\* The connection state GET /api/sessions/state reports is that of the
\* sessions: RUNNING while one runs and the application does too.
StateIsReported ==
  proc = "running" /\ rtsp.s = NoSession /\ (\E s \in slots : state[s] = "RUNNING")
    => sessionState = "RUNNING"

\* "Stop the server and join the server thread": a shutdown comes to an end.
ShutdownEnds == shutdown ~> rtsp.pc = "finished" \/ aborted

-----------------------------------------------------------------------------
(* Model checking *)

\* Every session of the same client.
CertOfMC == [s \in Session |-> "cert"]

\* HTTP handlers that only launch, resume and count sessions.
Quiet == {"launch", "resume"}

Symmetry == Permutations(Session)
=============================================================================
