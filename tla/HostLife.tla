------------------------------ MODULE HostLife ------------------------------
(***************************************************************************)
(* The life of the process of Sunshine: main() (main.cpp), the handlers of *)
(* SIGINT and SIGTERM it installs, the three servers it starts and joins,  *)
(* the system tray (system_tray.cpp) that is its main loop on Linux and    *)
(* macOS, and the task that ends it by force.                              *)
(*                                                                         *)
(* A handler runs on the thread that raised the signal: the main thread    *)
(* (the kernel prefers it; the tray's menu is there too, except on         *)
(* Windows), a thread of the configuration page, or on Windows the thread  *)
(* of the tray or of the session monitor.  Its four steps interleave with  *)
(* everything else, but the main thread waits while it is in one.          *)
(*                                                                         *)
(* What the servers and the guards do is in RtspServer, ConfigServer,      *)
(* DisplayMode, Discovery and StreamSession.                               *)
(***************************************************************************)
EXTENDS Naturals, FiniteSets

CONSTANTS Windows,      \* the build
          WithTray,     \* config::sunshine.system_tray
          MaxSignal     \* bound: the signals that come

Caller == {"main", "web", "tray", "monitor"}
Raising == IF Windows THEN {"web", "tray", "monitor"} ELSE {"main", "web"}
Server == {"http", "web", "rtsp"}

VARIABLES main,         \* where main() is
          life,         \* the process: alive, over by main(), killed, trapped
          guard,        \* display_device_deinit_guard owns the display
          sees,         \* who saw an owner in that guard and has not given back yet
          armed,        \* on_signal() was called, and not undone by the C run-time
          handler,      \* handler[c]: where the handler on that thread is
          signals,      \* how many came
          shutdown,     \* the event mail::shutdown is raised
          pool,         \* the task pool
          forced,       \* force_shutdown is in its timers
          trayReady,    \* tray_initialized
          trayLoop,     \* tray_loop() of the library: none, running, quit
          server,       \* server[s]: its thread
          finder        \* the threads of mDNS and UPnP

lifeVars == <<main, life, guard, sees, armed, handler, signals, shutdown, pool, forced,
              trayReady, trayLoop, server, finder>>

MainAt == {"start", "nvprefs", "pool", "signals", "init", "http", "discover", "peek",
           "threads", "tray", "loop", "join", "drain", "leave", "display", "release",
           "returned"}

TypeOK ==
  /\ main \in MainAt /\ life \in {"alive", "over", "killed", "trapped"}
  /\ {guard, armed, shutdown, forced, trayReady} \subseteq BOOLEAN
  /\ sees \subseteq Caller \union {"end"}
  /\ handler \in [Caller -> {"none", "timer", "raise", "tray", "guard", "release", "asleep"}]
  /\ signals \in 0..MaxSignal
  /\ pool \in {"off", "running", "stopped"}
  /\ trayLoop \in {"none", "running", "quit"}
  /\ server \in [Server -> {"none", "bind", "serving", "ended"}]
  /\ finder \in {"none", "running", "ended"}

Init == /\ main = "start" /\ life = "alive" /\ guard = FALSE /\ sees = {}
        /\ armed = FALSE /\ handler = [c \in Caller |-> "none"] /\ signals = 0
        /\ shutdown = FALSE /\ pool = "off" /\ forced = FALSE
        /\ trayReady = FALSE /\ trayLoop = "none"
        /\ server = [s \in Server |-> "none"] /\ finder = "none"

Idle(c) == handler[c] \in {"none", "asleep"}
Quiet == \A c \in Caller : Idle(c)

\* main() goes on, unless a handler has its thread.
MainStep(from, to) ==
  /\ life = "alive" /\ main = from
  /\ handler["main"] = "none"
  /\ main' = to

display == <<guard, sees>>
asked == <<armed, handler, signals, shutdown>>
timers == <<pool, forced>>
tray == <<trayReady, trayLoop>>
threads == <<server, finder>>

-----------------------------------------------------------------------------
(* Faulty variants, only there to show that the properties can fail *)

\* The thread of the configuration page is not joined.
JoinTwo ==
  /\ MainStep("join", "drain")
  /\ server["http"] = "ended" /\ server["rtsp"] = "ended"
  /\ UNCHANGED <<life, display, asked, timers, tray, threads>>

-----------------------------------------------------------------------------
(* main(): up to the servers *)

\* The display is taken first, as that also repairs what a crash left; this may
\* fail, and nothing is held then.
TakeDisplay ==
  /\ MainStep("start", IF Windows THEN "nvprefs" ELSE "pool")
  /\ guard' \in BOOLEAN
  /\ UNCHANGED <<life, sees, asked, timers, tray, threads>>

\* The driver's settings (NvPrefs) and the window that hears of a logoff.
WatchSession ==
  /\ MainStep("nvprefs", "pool")
  /\ UNCHANGED <<life, display, asked, timers, tray, threads>>

StartPool ==
  /\ MainStep("pool", "signals") /\ pool' = "running"
  /\ UNCHANGED <<life, display, asked, forced, tray, threads>>

OnSignal ==
  /\ MainStep("signals", "init") /\ armed' = TRUE
  /\ UNCHANGED <<life, display, handler, signals, shutdown, timers, tray, threads>>

\* The applications, platf::init(), proc::init(), input and the encoders: what
\* fails is only written to the log.
InitAll ==
  /\ MainStep("init", "http")
  /\ UNCHANGED <<life, display, asked, timers, tray, threads>>

\* http::init(): without credentials or a certificate there is no page to mend
\* anything with, and main() returns.
HttpInit ==
  /\ \/ MainStep("http", "discover")
     \/ MainStep("http", "leave")
  /\ UNCHANGED <<life, display, asked, timers, tray, threads>>

\* Both are started by std::async.
StartFinders ==
  /\ MainStep("discover", "peek") /\ finder' = "running"
  /\ UNCHANGED <<life, display, asked, timers, tray, server>>

\* A shutdown that came so far ends here, before a server is started.
PeekShutdown ==
  /\ MainStep("peek", IF shutdown THEN "leave" ELSE "threads")
  /\ UNCHANGED <<life, display, asked, timers, tray, threads>>

StartServers ==
  /\ MainStep("threads", IF WithTray THEN "tray" ELSE "loop")
  /\ server' = [s \in Server |-> "bind"]
  /\ UNCHANGED <<life, display, asked, timers, tray, finder>>

\* init_tray(), on Windows on a thread that is not waited for.  It may fail.
InitTray ==
  /\ MainStep("tray", "loop")
  /\ IF Windows THEN UNCHANGED tray
     ELSE \/ trayReady' = TRUE /\ trayLoop' = "running"
          \/ UNCHANGED tray
  /\ UNCHANGED <<life, display, asked, timers, threads>>

\* tray_thread_worker(): its loop ends as the one of mainThreadLoop() does.
TrayThread ==
  /\ Windows /\ WithTray /\ life = "alive"
  /\ server["http"] # "none" /\ trayLoop = "none"
  /\ \/ trayReady' = TRUE /\ trayLoop' = "running"
     \/ trayLoop' = "quit" /\ UNCHANGED trayReady
  /\ UNCHANGED <<main, life, display, asked, timers, threads>>

-----------------------------------------------------------------------------
(* main(): waiting, and the way out *)

\* mainThreadLoop(): the events of the tray until it quits (at once when there is
\* none), or the wait for the shutdown.
LoopEnds ==
  /\ MainStep("loop", "join")
  /\ IF WithTray /\ ~Windows THEN ~trayReady \/ trayLoop = "quit" ELSE shutdown
  /\ UNCHANGED <<life, display, asked, timers, tray, threads>>

JoinServers ==
  /\ MainStep("join", "drain")
  /\ \A s \in Server : server[s] = "ended"
  /\ UNCHANGED <<life, display, asked, timers, tray, threads>>

\* task_pool.stop(), join(): its thread ends, and what is timed does not happen.
StopPool ==
  /\ MainStep("drain", "leave") /\ pool' = "stopped"
  /\ UNCHANGED <<life, display, asked, forced, tray, threads>>

\* The locals go, the last one first: the futures and guards of mDNS and UPnP
\* wait for their threads, then input, proc and platf are given back, and on
\* Windows the thread of the monitor is asked to end, and left when it does not.
Leave ==
  /\ MainStep("leave", "display")
  /\ finder # "running"
  /\ UNCHANGED <<life, display, asked, timers, tray, threads>>

\* ~unique_ptr() of the display's guard.
LeaveDisplay ==
  /\ \/ guard /\ MainStep("display", "release") /\ sees' = sees \union {"end"}
     \/ ~guard /\ MainStep("display", "returned") /\ UNCHANGED sees
  /\ UNCHANGED <<life, guard, asked, timers, tray, threads>>

LeaveReleases ==
  /\ MainStep("release", "returned")
  /\ guard' = FALSE /\ sees' = sees \ {"end"}
  /\ UNCHANGED <<life, asked, timers, tray, threads>>

\* exit(): whatever another thread still does is cut off.
Exit ==
  /\ MainStep("returned", "returned") /\ life' = "over"
  /\ UNCHANGED <<display, asked, timers, tray, threads>>

-----------------------------------------------------------------------------
(* The servers and the finders *)

\* The port is bound, or is taken: then the server raises the shutdown itself,
\* and its thread ends.
Bind(s) ==
  /\ life = "alive" /\ server[s] = "bind"
  /\ \/ server' = [server EXCEPT ![s] = "serving"] /\ UNCHANGED shutdown
     \/ server' = [server EXCEPT ![s] = "ended"] /\ shutdown' = TRUE
  /\ UNCHANGED <<main, life, display, armed, handler, signals, timers, tray, finder>>

\* The shutdown is seen; the threads of a server end with the calls they are in.
ServerEnds(s) ==
  /\ life = "alive" /\ server[s] = "serving" /\ shutdown
  /\ s = "web" => Idle("web")
  /\ server' = [server EXCEPT ![s] = "ended"]
  /\ UNCHANGED <<main, life, display, asked, timers, tray, finder>>

\* The UPnP thread sees the shutdown as well (Discovery).
FinderEnds ==
  /\ life = "alive" /\ finder = "running" /\ shutdown
  /\ finder' = "ended"
  /\ UNCHANGED <<main, life, display, asked, timers, tray, server>>

-----------------------------------------------------------------------------
(* The signals *)

\* Who can raise one now: the kernel at any time, the menu of the tray, a request
\* of the page, the session's end or the console's.
MayRaise(c) ==
  /\ c \in Raising
  /\ c = "web" => server["web"] = "serving"
  /\ c = "tray" => trayLoop = "running"
  /\ c = "monitor" => main \notin {"start", "nvprefs"}

\* on_signal_forwarder(); without a handler the process is gone, as it is on
\* Windows with the second signal.
Signal(c) ==
  /\ life = "alive" /\ signals < MaxSignal /\ MayRaise(c) /\ handler[c] = "none"
  /\ signals' = signals + 1
  /\ IF armed THEN /\ handler' = [handler EXCEPT ![c] = "timer"] /\ armed' = ~Windows
                   /\ UNCHANGED life
              ELSE life' = "killed" /\ UNCHANGED <<armed, handler>>
  /\ UNCHANGED <<main, display, shutdown, timers, tray, threads>>

HandlerStep(c, from, to) ==
  /\ life = "alive" /\ handler[c] = from
  /\ handler' = [handler EXCEPT ![c] = to]

\* pushDelayed(task, 10s)
HandlerTimes(c) ==
  /\ HandlerStep(c, "timer", "raise") /\ forced' = TRUE
  /\ UNCHANGED <<main, life, display, armed, signals, shutdown, pool, tray, threads>>

HandlerRaises(c) ==
  /\ HandlerStep(c, "raise", IF WithTray THEN "tray" ELSE "guard") /\ shutdown' = TRUE
  /\ UNCHANGED <<main, life, display, armed, signals, timers, tray, threads>>

\* end_tray(): does nothing for a tray that is not there yet.
HandlerEndsTray(c) ==
  /\ HandlerStep(c, "tray", "guard")
  /\ trayReady' = FALSE
  /\ trayLoop' = IF trayReady THEN "quit" ELSE trayLoop
  /\ UNCHANGED <<main, life, display, armed, signals, shutdown, timers, threads>>

\* exit_sunshine() of the monitor sleeps for ever after its handler.
Done(c) == IF c = "monitor" THEN "asleep" ELSE "none"

\* display_device_deinit_guard = nullptr: the pointer is read and cleared, and who
\* found an owner destroys it.  A handler that comes after main() writes to a local
\* that is gone; that it finds no owner there is what the build leaves in it.
HandlerSees(c) ==
  /\ \/ guard /\ HandlerStep(c, "guard", "release") /\ sees' = sees \union {c}
     \/ ~guard /\ HandlerStep(c, "guard", Done(c)) /\ UNCHANGED sees
  /\ UNCHANGED <<main, life, guard, armed, signals, shutdown, timers, tray, threads>>

HandlerReleases(c) ==
  /\ HandlerStep(c, "release", Done(c))
  /\ guard' = FALSE /\ sees' = sees \ {c}
  /\ UNCHANGED <<main, life, armed, signals, shutdown, timers, tray, threads>>

\* Ten seconds later, when the pool's thread is still there: debug_trap().  The
\* handler has long returned.
Trap ==
  /\ life = "alive" /\ forced /\ pool = "running" /\ Quiet
  /\ life' = "trapped"
  /\ UNCHANGED <<main, display, asked, timers, tray, threads>>

Next ==
  \/ TakeDisplay \/ WatchSession \/ StartPool \/ OnSignal \/ InitAll \/ HttpInit
  \/ StartFinders \/ PeekShutdown \/ StartServers \/ InitTray \/ TrayThread
  \/ LoopEnds \/ JoinServers \/ StopPool \/ Leave \/ LeaveDisplay \/ LeaveReleases \/ Exit
  \/ \E s \in Server : Bind(s) \/ ServerEnds(s)
  \/ FinderEnds
  \/ \E c \in Raising : \/ Signal(c) \/ HandlerTimes(c) \/ HandlerRaises(c)
                        \/ HandlerEndsTray(c) \/ HandlerSees(c) \/ HandlerReleases(c)
  \/ Trap

Main == \/ TakeDisplay \/ WatchSession \/ StartPool \/ OnSignal \/ InitAll \/ HttpInit
        \/ StartFinders \/ PeekShutdown \/ StartServers \/ InitTray
        \/ LoopEnds \/ JoinServers \/ StopPool \/ Leave \/ LeaveDisplay \/ LeaveReleases
        \/ Exit

Threads == FinderEnds \/ \E s \in Server : Bind(s) \/ ServerEnds(s)

Handlers == \E c \in Caller : \/ HandlerTimes(c) \/ HandlerRaises(c) \/ HandlerEndsTray(c)
                               \/ HandlerSees(c) \/ HandlerReleases(c)

\* Threads run, and a timer that is due is run.
Fairness == /\ WF_lifeVars(Main) /\ WF_lifeVars(Threads)
            /\ WF_lifeVars(Handlers) /\ WF_lifeVars(Trap)

Spec == Init /\ [][Next]_lifeVars /\ Fairness

-----------------------------------------------------------------------------
(* Properties *)

\* The display is given back by one thread, and when main() has returned none is
\* still at it: exit() would cut it off with the user's displays as they were for
\* the client.  Two things are left out (see the README): on Windows the threads of
\* the tray and of the monitor are not waited for, and a handler on the main thread
\* may break into another's or its own release, with the guard not yet empty.
GivenBack ==
  ~Windows => /\ Cardinality(sees \ {"main"}) <= 1
              /\ life = "over" => ~guard /\ sees = {}

\* A main() that returns leaves no server behind: the process would be aborted
\* with its handlers in the middle of a call.
NoneIsLeft == main = "returned" => /\ \A s \in Server : server[s] \in {"none", "ended"}
                                   /\ finder # "running"
                                   /\ handler["web"] = "none"

\* An interrupt ends the process, by itself or by force.
AskedEnds == (\E c \in Caller : handler[c] = "raise") ~> life # "alive"

\* A server that cannot have its port ends the others and the process, where the
\* main thread waits for the shutdown.  In the loop of the tray it does not: the
\* process stays with a tray and no server until the user quits.
FailureEnds ==
  (\E s \in Server : server[s] = "ended") /\ (Windows \/ ~WithTray) ~> life # "alive"
=============================================================================
