---------------------------- MODULE ServiceHost ----------------------------
(***************************************************************************)
(* How Sunshine lives on Windows.  The service (tools/sunshinesvc.cpp)     *)
(* starts sunshine.exe in the session at the console, starts it again when *)
(* it ends or when the console moves to another session, and stops when    *)
(* told to, by the service control manager or by the exit code of Sunshine *)
(* (entry_handler.cpp, main.cpp).  The shortcut starts the service.        *)
(*                                                                         *)
(* Of Sunshine only what this protocol sees is kept: it is starting (no    *)
(* handler of SIGINT yet), serving, or ending.  The C run-time of Windows  *)
(* puts back the default action before it calls a handler of SIGINT, so a  *)
(* second one kills the process.                                           *)
(***************************************************************************)
EXTENDS Naturals

CONSTANTS Desktop,      \* the sessions a user may have at the console
          NoDesktop,    \* 0xFFFFFFFF: no session is attached
          MaxLaunch,    \* bound: how often sunshine.exe is started
          MaxMove       \* bound: how often the console moves

VARIABLES scm,          \* service_status.dwCurrentState
          stopEvent,    \* stop_event, manual reset
          sessionEvent, \* session_change_event, auto reset
          pc,           \* where ServiceMain() is
          own,          \* console_session_id
          console,      \* WTSGetActiveConsoleSessionId()
          child,        \* sunshine.exe, in its job object
          home,         \* the session that sunshine.exe runs in
          desired,      \* lifetime::desired_exit_code of that process
          exitCode,     \* what GetExitCodeProcess() says
          armed,        \* the handler of SIGINT is installed
          shortcut,     \* the process started from the shortcut
          quitting,     \* the user asked Sunshine to quit, and it heard it
          launches, moves

serviceVars == <<scm, stopEvent, sessionEvent, pc, own, console, child, home, desired,
                 exitCode, armed, shortcut, quitting, launches, moves>>

TypeOK ==
  /\ scm \in {"start pending", "running", "stop pending", "stopped"}
  /\ {stopEvent, sessionEvent, armed, quitting} \subseteq BOOLEAN
  /\ pc \in {"start", "idle", "create", "watch", "compare", "helper", "grace", "done"}
  /\ {own, home, console} \subseteq Desktop \union {NoDesktop}
  /\ child \in {"none", "starting", "serving", "ending", "ended"}
  /\ desired \in {"zero", "shutdown"}
  /\ exitCode \in {"none", "zero", "shutdown", "killed"}
  /\ shortcut \in {"none", "check", "admin", "pending", "ui"}
  /\ launches \in 0..MaxLaunch /\ moves \in 0..MaxMove

Alive == child \in {"starting", "serving", "ending"}

Init == /\ scm = "stopped" /\ stopEvent = FALSE /\ sessionEvent = FALSE
        /\ pc = "done" /\ own = NoDesktop /\ console \in Desktop \union {NoDesktop}
        /\ child = "none" /\ home = NoDesktop /\ desired = "zero" /\ exitCode = "none"
        /\ armed = FALSE /\ shortcut = "none" /\ quitting = FALSE
        /\ launches = 0 /\ moves = 0

sunshine == <<child, home, desired, exitCode, armed, quitting>>
control == <<scm, stopEvent>>
user == <<console, shortcut, moves>>

-----------------------------------------------------------------------------
(* sunshine.exe *)

Ended(code) == child' = "ended" /\ exitCode' = code /\ armed' = FALSE

\* SIGINT, or a Ctrl-C event: the handler raises the shutdown event; without
\* one the process is gone.
Interrupted ==
  IF armed THEN /\ armed' = FALSE /\ child' = "ending" /\ UNCHANGED exitCode
           ELSE Ended("killed")

\* on_signal(): from here an interrupt is a shutdown.
Serving ==
  /\ child = "starting" /\ child' = "serving" /\ armed' = TRUE
  /\ UNCHANGED <<control, sessionEvent, pc, own, user, home, desired, exitCode, quitting,
                 launches>>

\* exit_sunshine(): the first code that is not zero stays.  The tray and
\* /api/quit pass ERROR_SHUTDOWN_IN_PROGRESS, /api/restart passes 0.
ExitSunshine(code) ==
  /\ child \in {"serving", "ending"}
  /\ desired' = IF desired = "zero" THEN code ELSE desired
  /\ quitting' = (quitting \/ code = "shutdown")
  /\ Interrupted
  /\ UNCHANGED <<control, sessionEvent, pc, own, user, home, launches>>

\* main() returns, or ten seconds pass and debug_trap() is hit.
SunshineEnds ==
  /\ child = "ending"
  /\ \E code \in {desired, "killed"} : Ended(code)
  /\ UNCHANGED <<control, sessionEvent, pc, own, user, home, desired, quitting, launches>>

\* It ends by itself: an error of main(), a crash.
SunshineFails ==
  /\ child \in {"starting", "serving"}
  /\ Ended("killed")
  /\ UNCHANGED <<control, sessionEvent, pc, own, user, home, desired, quitting, launches>>

-----------------------------------------------------------------------------
(* ServiceMain() *)

\* The events are created and the service is running, or one thing failed.
ServiceStart ==
  /\ pc = "start"
  /\ \/ pc' = "idle" /\ scm' = "running"
     \/ pc' = "done" /\ scm' = "stopped"
  /\ stopEvent' = FALSE /\ sessionEvent' = FALSE
  /\ UNCHANGED <<own, user, sunshine, launches>>

\* The wait of 3 s ends: the service stops, or looks at the console.
Idle ==
  /\ pc = "idle"
  /\ \/ /\ stopEvent /\ pc' = "done" /\ scm' = "stopped" /\ UNCHANGED own
     \/ /\ ~stopEvent /\ console # NoDesktop /\ launches < MaxLaunch
        /\ own' = console /\ pc' = "create" /\ UNCHANGED scm
  /\ UNCHANGED <<stopEvent, sessionEvent, user, sunshine, launches>>

\* CreateProcessAsUserW() with the token of the session that was seen, which
\* may fail, as may the token and the job object.
Create ==
  /\ pc = "create"
  /\ \/ /\ pc' = "watch" /\ child' = "starting" /\ home' = own /\ launches' = launches + 1
        /\ desired' = "zero" /\ exitCode' = "none" /\ armed' = FALSE /\ quitting' = FALSE
     \/ pc' = "idle" /\ UNCHANGED <<sunshine, launches>>
  /\ UNCHANGED <<control, sessionEvent, own, user>>

\* WaitForMultipleObjects() answers with the first of its objects that is set.
WakeStop == /\ pc = "watch" /\ stopEvent
            /\ pc' = "helper"
            /\ UNCHANGED <<control, sessionEvent, own, user, sunshine, launches>>

WakeEnded ==
  /\ pc = "watch" /\ ~stopEvent /\ child = "ended"
  /\ stopEvent' = (exitCode = "shutdown")
  /\ pc' = "idle"
  /\ UNCHANGED <<scm, sessionEvent, own, user, sunshine, launches>>

WakeSession ==
  /\ pc = "watch" /\ ~stopEvent /\ child # "ended" /\ sessionEvent
  /\ sessionEvent' = FALSE
  /\ pc' = "compare"
  /\ UNCHANGED <<control, own, user, sunshine, launches>>

\* Faulty: the session that woke the service is not compared.
CompareNothing == /\ pc = "compare" /\ pc' = "watch"
                  /\ UNCHANGED <<control, sessionEvent, own, user, sunshine, launches>>

Compare == /\ pc = "compare"
           /\ pc' = IF console = own THEN "watch" ELSE "helper"
           /\ UNCHANGED <<control, sessionEvent, own, user, sunshine, launches>>

Kill == IF Alive THEN Ended("killed") ELSE UNCHANGED <<child, exitCode, armed>>

\* RunTerminationHelper(): a Ctrl-C from a process in that session.  When it
\* fails the process is killed at once.
Helper ==
  /\ pc = "helper"
  /\ \/ Alive /\ Interrupted /\ pc' = "grace"
     \/ Kill /\ pc' = "idle"
  /\ UNCHANGED <<control, sessionEvent, own, user, home, desired, quitting, launches>>

\* Sunshine ends within 20 s or is killed.
Grace ==
  /\ pc = "grace"
  /\ Kill /\ pc' = "idle"
  /\ UNCHANGED <<control, sessionEvent, own, user, home, desired, quitting, launches>>

-----------------------------------------------------------------------------
(* The service control manager, the console, the shortcut *)

\* SERVICE_CONTROL_STOP and PRESHUTDOWN.
Stop == /\ scm = "running"
        /\ scm' = "stop pending" /\ stopEvent' = TRUE
        /\ UNCHANGED <<sessionEvent, pc, own, user, sunshine, launches>>

\* The console loses its session, or another one connects: HandlerEx() is told
\* of the second, while the service accepts it.
MoveConsole ==
  /\ moves < MaxMove /\ moves' = moves + 1
  /\ console' \in (Desktop \union {NoDesktop}) \ {console}
  /\ sessionEvent' = (sessionEvent \/ (console' # NoDesktop /\ scm = "running"))
  /\ UNCHANGED <<control, pc, own, shortcut, sunshine, launches>>

\* sunshine.exe --shortcut: a running service is left alone.
Shortcut ==
  /\ shortcut = "none" /\ launches < MaxLaunch
  /\ shortcut' = "check"
  /\ UNCHANGED <<control, sessionEvent, pc, own, console, moves, sunshine, launches>>

ShortcutCheck ==
  /\ shortcut = "check"
  /\ shortcut' = IF scm = "running" THEN "none" ELSE "admin"
  /\ UNCHANGED <<control, sessionEvent, pc, own, console, moves, sunshine, launches>>

\* start_service(): a service that is not stopped "is already running".
StartService ==
  /\ shortcut = "admin"
  /\ shortcut' = "pending"
  /\ IF scm = "stopped" /\ pc = "done"
     THEN scm' = "start pending" /\ pc' = "start"
     ELSE UNCHANGED <<scm, pc>>
  /\ UNCHANGED <<stopEvent, sessionEvent, own, console, moves, sunshine, launches>>

\* The status is polled while the start is pending, then the port of the UI is,
\* for 30 s at most.
ShortcutWait ==
  /\ \/ shortcut = "pending" /\ scm # "start pending" /\ shortcut' = "ui"
     \/ shortcut = "ui" /\ shortcut' = "none"
  /\ UNCHANGED <<control, sessionEvent, pc, own, console, moves, sunshine, launches>>

Service == \/ ServiceStart \/ Idle \/ Create \/ WakeStop \/ WakeEnded \/ WakeSession
           \/ Compare \/ Helper \/ Grace

Next ==
  \/ Service
  \/ Serving \/ SunshineEnds \/ SunshineFails
  \/ \E code \in {"zero", "shutdown"} : ExitSunshine(code)
  \/ Stop \/ MoveConsole
  \/ Shortcut \/ ShortcutCheck \/ StartService \/ ShortcutWait

\* ServiceMain() runs on.
Fairness == WF_serviceVars(Service)

Spec == Init /\ [][Next]_serviceVars /\ Fairness

-----------------------------------------------------------------------------
(* Properties *)

\* "restart Sunshine to allow it to spawn inside the new console session": while
\* the service waits with nothing to look at, Sunshine is in the session at the
\* console, unless nobody is.
InConsole == pc = "watch" /\ ~stopEvent /\ ~sessionEvent /\ console # NoDesktop
             => home = console

\* Nothing is left behind: a stopped service has no Sunshine, and one that waits
\* to start another has none either.
NoOrphan == pc \in {"idle", "create", "done", "start"} => ~Alive

\* A service that is told to stop stops.
StopStops == scm = "stop pending" ~> scm = "stopped"

\* "Sunshine is asking for us to shut down": a Sunshine that was asked to quit,
\* and ended, is not started again.
QuitIsKept == [][pc = "create" /\ pc' = "watch" => ~quitting]_serviceVars
=============================================================================
