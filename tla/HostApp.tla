------------------------------- MODULE HostApp -------------------------------
(***************************************************************************)
(* The application a client launches (process.cpp), the /launch, /resume   *)
(* and /cancel handlers (nvhttp.cpp), and the display configuration they   *)
(* change and give back (display_device.cpp).  proc_t has no lock: the     *)
(* HTTPS thread, the thread of the web interface, the control thread and   *)
(* the RTSP thread call running() and terminate() when they like, and      *)
(* terminate() waits for every undo command it runs.                       *)
(*                                                                         *)
(* External: the commands and the application, the display library's       *)
(* scheduler (it keeps one task, tried at once and then again and again),  *)
(* and the sessions' own life (StreamSession, LaunchSession).              *)
(***************************************************************************)
EXTENDS Naturals, FiniteSets

CONSTANTS Prep,                  \* the number of prep commands of an application
          RevertOnDisconnect,    \* dd_config_revert_on_disconnect
          MaxLaunch              \* bound on the requests to launch or resume

Thread == {"http", "web", "control", "rtsp"}
Nobody == "nobody"

VARIABLES
  \* proc_t
  known,                     \* _app_id > 0
  child,                     \* _process and placebo
  prepIt,                    \* _app_prep_it - _app_prep_begin
  term,                      \* where each thread is in terminate()
  pc,                        \* where each thread is otherwise
  mustRevert,                \* revert_display_configuration of launch()
  requests,                  \* /launch and /resume so far
  \* the sessions
  pending,                   \* a launch session waits for its client
  session,                   \* "none", "up", "stopping"
  slots,                     \* the thread that holds the lock of _session_slots
  \* the display library
  display,                   \* "plain" or "configured"
  sched,                     \* its scheduled task
  \* the world
  effects,                   \* effects[i]: prep command i was run and not undone
  crashed,                   \* _app_prep_it left its vector
  overlapped,                \* two threads were in proc_t at once
  forgotten,                 \* an application was forgotten by refresh()
  abandoned                  \* the display was prepared for a client that never
                             \* came, and no application was left

procVars == <<known, child, prepIt, effects, crashed, overlapped>>
history == <<forgotten, abandoned>>
displayVars == <<display, sched>>
sessionVars == <<pending, session, slots>>
vars == <<procVars, term, pc, mustRevert, requests, sessionVars, displayVars, history>>

TermPC == {"off", "kill", "undo", "back", "end"}
PC == {"idle", "launch", "configure", "execute", "prepare", "do", "inc", "start", "fail",
       "raise", "resume", "reconfigure", "cancel", "cancelRun", "revert",
       "join", "joined", "ended"}

TypeOK ==
  /\ known \in BOOLEAN /\ child \in {"none", "running", "placebo", "exited"}
  /\ prepIt \in 0..Prep
  /\ term \in [Thread -> TermPC] /\ pc \in [Thread -> PC]
  /\ mustRevert \in BOOLEAN /\ requests \in 0..MaxLaunch
  /\ pending \in BOOLEAN /\ session \in {"none", "up", "stopping"}
  /\ slots \in Thread \union {Nobody}
  /\ display \in {"plain", "configured"} /\ sched \in {"none", "apply", "revert"}
  /\ effects \in [1..Prep -> BOOLEAN]
  /\ crashed \in BOOLEAN /\ overlapped \in BOOLEAN
  /\ forgotten \in BOOLEAN /\ abandoned \in BOOLEAN

Init == /\ known = FALSE /\ child = "none" /\ prepIt = 0
        /\ term = [t \in Thread |-> "off"] /\ pc = [t \in Thread |-> "idle"]
        /\ mustRevert = FALSE /\ requests = 0
        /\ pending = FALSE /\ session = "none" /\ slots = Nobody
        /\ display = "plain" /\ sched = "none"
        /\ effects = [i \in 1..Prep |-> FALSE]
        /\ crashed = FALSE /\ overlapped = FALSE
        /\ forgotten = FALSE /\ abandoned = FALSE

-----------------------------------------------------------------------------
(* The display library *)

\* revert_configuration(): the new task replaces the scheduled one.
Revert == sched' = "revert" /\ UNCHANGED display

\* The display library applies a configuration, fails for good, or may try again.
Apply == \/ display' = "configured" /\ sched' = "none"
         \/ sched' \in {"none", "apply"} /\ UNCHANGED display

\* configure_display(): options that do not parse change nothing, and a display
\* that is not to be configured is given back.
Configure == Apply \/ Revert \/ UNCHANGED displayVars

\* The scheduler tries again.
Tick == /\ \/ sched = "apply" /\ Apply
           \/ sched = "revert" /\ display' = "plain" /\ sched' = "none"
        /\ UNCHANGED <<procVars, term, pc, mustRevert, requests, sessionVars, history>>

-----------------------------------------------------------------------------
(* proc_t *)

Free(t) == term[t] = "off"
Goto(t, where) == pc' = [pc EXCEPT ![t] = where]

\* In execute() or terminate(), where the members are changed.
InProc(t) == term[t] # "off" \/ pc[t] \in {"execute", "prepare", "do", "inc", "start"}

Enters(t) == overlapped' = (overlapped \/ \E u \in Thread \ {t} : InProc(u))

\* A call of terminate() that returns to `where`.
Terminate(t, where) == /\ term' = [term EXCEPT ![t] = "kill"]
                       /\ Goto(t, where)
                       /\ Enters(t)

\* running(): the application, or none; one that has exited is terminated, or
\* taken for one that goes on in the background.
Running(t, yes, no) ==
  \/ /\ child \in {"running", "placebo"}
     /\ Goto(t, yes) /\ UNCHANGED <<child, term, overlapped>>
  \/ /\ child = "exited"
     /\ \/ child' = "placebo" /\ Goto(t, yes) /\ UNCHANGED <<term, overlapped>>
        \/ Terminate(t, no) /\ UNCHANGED child
  \/ /\ child = "none"
     /\ Goto(t, no) /\ UNCHANGED <<child, term, overlapped>>

Kill(t) == /\ term[t] = "kill"
           /\ child' = "none"
           /\ term' = [term EXCEPT ![t] = "undo"]
           /\ UNCHANGED <<known, prepIt, effects, crashed, overlapped>>

\* for (; _app_prep_it != _app_prep_begin; --_app_prep_it): the undo command is
\* run and awaited.
Undo(t) == /\ term[t] = "undo"
           /\ IF prepIt = 0
              THEN term' = [term EXCEPT ![t] = "end"] /\ UNCHANGED effects
              ELSE /\ effects' = [effects EXCEPT ![prepIt] = FALSE]
                   /\ term' = [term EXCEPT ![t] = "back"]
           /\ UNCHANGED <<known, child, prepIt, crashed, overlapped>>

Back(t) == /\ term[t] = "back"
           /\ IF prepIt = 0 THEN crashed' = TRUE /\ UNCHANGED prepIt
                            ELSE prepIt' = prepIt - 1 /\ UNCHANGED crashed
           /\ term' = [term EXCEPT ![t] = "undo"]
           /\ UNCHANGED <<known, child, effects, overlapped>>

\* Only an application that was launched gives the display back.
EndTerminate(t) == /\ term[t] = "end"
                   /\ IF known THEN Revert ELSE UNCHANGED displayVars
                   /\ known' = FALSE
                   /\ term' = [term EXCEPT ![t] = "off"]
                   /\ UNCHANGED <<child, prepIt, effects, crashed, overlapped>>

TerminateStep(t) ==
  /\ \/ (Kill(t) \/ Undo(t) \/ Back(t)) /\ UNCHANGED displayVars
     \/ EndTerminate(t)
  /\ UNCHANGED <<pc, mustRevert, requests, sessionVars, history>>

\* The application ends by itself.
Exit == /\ child = "running"
        /\ child' = "exited"
        /\ UNCHANGED <<known, prepIt, effects, crashed, overlapped, term, pc, mustRevert,
                       requests, sessionVars, displayVars, history>>

-----------------------------------------------------------------------------
(* /launch, on the HTTPS thread *)

Http(where) == pc["http"] = where /\ Free("http")

LaunchBegin ==
  /\ Http("idle") /\ requests < MaxLaunch
  /\ requests' = requests + 1
  /\ mustRevert' = FALSE
  /\ Running("http", "idle", "launch")
  /\ UNCHANGED <<known, prepIt, effects, crashed, sessionVars, displayVars, history>>

\* Without sessions the display is prepared, and the encoders are probed; then
\* encryption may be refused.  A client may ask for no application.
LaunchPrepares ==
  /\ Http("launch") /\ session # "stopping"
  /\ IF session = "none" THEN mustRevert' = TRUE /\ Configure
                         ELSE UNCHANGED <<mustRevert, displayVars>>
  /\ \E next \in {"execute", "raise", "fail"} : Goto("http", next)
  /\ UNCHANGED <<procVars, term, requests, sessionVars, history>>

\* execute() terminates the previous application first.
Execute == /\ Http("execute")
           /\ Terminate("http", "prepare")
           /\ UNCHANGED <<known, child, prepIt, effects, crashed, mustRevert, requests,
                          sessionVars, displayVars, history>>

\* The application may be gone from the list (404).
Prepare == /\ Http("prepare")
           /\ \/ known' = TRUE /\ prepIt' = 0 /\ Goto("http", "do")
              \/ Goto("http", "fail") /\ UNCHANGED <<known, prepIt>>
           /\ UNCHANGED <<child, effects, crashed, overlapped, term, mustRevert, requests,
                          sessionVars, displayVars, history>>

\* The place of the command run, in the list of what was done.
Done(i) == i

\* A do command: it is run and awaited, or fails, and then what was done so far
\* is undone by the fail_guard.
Do == /\ Http("do")
      /\ IF prepIt = Prep
         THEN Goto("http", "start") /\ UNCHANGED <<effects, term, overlapped>>
         ELSE \/ /\ effects' = [effects EXCEPT ![prepIt + 1] = TRUE]
                 /\ Goto("http", "inc") /\ UNCHANGED <<term, overlapped>>
              \/ Terminate("http", "fail") /\ UNCHANGED effects
      /\ UNCHANGED <<known, child, prepIt, crashed, mustRevert, requests,
                     sessionVars, displayVars, history>>

Inc == /\ Http("inc")
       /\ IF prepIt = Prep THEN crashed' = TRUE /\ UNCHANGED prepIt
                           ELSE prepIt' = Done(prepIt + 1) /\ UNCHANGED crashed
       /\ Goto("http", "do")
       /\ UNCHANGED <<known, child, effects, overlapped, term, mustRevert, requests,
                      sessionVars, displayVars, history>>

\* The application itself; without a command there is nothing to run.
Start == /\ Http("start")
         /\ \/ child' \in {"running", "placebo"} /\ Goto("http", "raise")
               /\ UNCHANGED <<term, overlapped>>
            \/ Terminate("http", "fail") /\ UNCHANGED child
         /\ UNCHANGED <<known, prepIt, effects, crashed, mustRevert, requests,
                        sessionVars, displayVars, history>>

\* Faulty: a failure after the display was prepared leaves it so.
KeepOnFail == FALSE

RevertOnFail == mustRevert

LaunchFails == /\ Http("fail")
               /\ IF RevertOnFail THEN Revert ELSE UNCHANGED displayVars
               /\ Goto("http", "idle")
               /\ UNCHANGED <<procVars, term, mustRevert, requests, sessionVars, history>>

\* launch_session_raise()
RaiseLaunch == /\ Http("raise")
               /\ pending' = TRUE
               /\ Goto("http", "idle")
               /\ UNCHANGED <<procVars, term, mustRevert, requests, session, slots,
                              displayVars, history>>

-----------------------------------------------------------------------------
(* /resume and /cancel *)

ResumeBegin == /\ Http("idle") /\ requests < MaxLaunch
               /\ requests' = requests + 1
               /\ Running("http", "resume", "idle")
               /\ UNCHANGED <<known, prepIt, effects, crashed, mustRevert, sessionVars,
                              displayVars, history>>

\* A resume that fails after it has prepared the display does not give it back:
\* the application still runs.  One without its parameters fails before.
Resume == /\ Http("resume") /\ session # "stopping"
          /\ \/ /\ IF session = "none" THEN Configure ELSE UNCHANGED displayVars
                /\ \E next \in {"raise", "idle"} : Goto("http", next)
             \/ Goto("http", "idle") /\ UNCHANGED displayVars
          /\ abandoned' = (abandoned \/ (pc'["http"] = "idle" /\ ~known))
          /\ UNCHANGED <<procVars, term, mustRevert, requests, sessionVars, forgotten>>

\* terminate_sessions(): the session is joined on this thread.
Cancel == /\ Http("idle") /\ slots = Nobody
          /\ IF session = "none" THEN Goto("http", "cancelRun") /\ UNCHANGED <<session, slots>>
             ELSE session' = "stopping" /\ slots' = "http" /\ Goto("http", "join")
          /\ UNCHANGED <<procVars, term, mustRevert, requests, pending, displayVars,
                         history>>

CancelRuns == /\ Http("cancelRun")
              /\ IF child = "none"
                 THEN Goto("http", "revert") /\ UNCHANGED <<term, overlapped>>
                 ELSE Terminate("http", "revert")
              /\ UNCHANGED <<known, child, prepIt, effects, crashed, mustRevert, requests,
                             sessionVars, displayVars, history>>

CancelReverts == /\ Http("revert")
                 /\ Revert
                 /\ Goto("http", "idle")
                 /\ UNCHANGED <<procVars, term, mustRevert, requests, sessionVars,
                                history>>

HttpStep == \/ LaunchBegin \/ LaunchPrepares \/ Execute \/ Prepare \/ Do \/ Inc \/ Start
            \/ LaunchFails \/ RaiseLaunch
            \/ ResumeBegin \/ Resume \/ Cancel \/ CancelRuns \/ CancelReverts

-----------------------------------------------------------------------------
(* The sessions *)

\* The client comes, or the timer discards its launch.
Connect == /\ pending /\ session = "none" /\ slots = Nobody
           /\ pending' = FALSE /\ session' = "up"
           /\ UNCHANGED <<procVars, term, pc, mustRevert, requests, slots, displayVars,
                          history>>

Discard == /\ pending
           /\ pending' = FALSE
           /\ abandoned' = (abandoned \/ ~known)
           /\ UNCHANGED <<procVars, term, pc, mustRevert, requests, session, slots,
                          displayVars, forgotten>>

\* The client leaves, or is gone.
Leave == /\ session = "up" /\ slots = Nobody
         /\ session' = "stopping"
         /\ UNCHANGED <<procVars, term, pc, mustRevert, requests, pending, slots,
                        displayVars, history>>

\* The control thread polls the application: without one, the session ends.
Poll == /\ pc["control"] = "idle" /\ Free("control") /\ session = "up"
        /\ Running("control", "idle", "ended")
        /\ UNCHANGED <<known, prepIt, effects, crashed, mustRevert, requests, sessionVars,
                       displayVars, history>>

ControlEnds == /\ pc["control"] = "ended" /\ Free("control")
               /\ session' = IF session = "up" /\ slots = Nobody THEN "stopping" ELSE session
               /\ Goto("control", "idle")
               /\ UNCHANGED <<procVars, term, mustRevert, requests, pending, slots,
                              displayVars, history>>

\* clear(false) on the RTSP thread joins what was stopped.
BeginJoin == /\ session = "stopping" /\ slots = Nobody
             /\ pc["rtsp"] = "idle" /\ Free("rtsp")
             /\ slots' = "rtsp"
             /\ Goto("rtsp", "join")
             /\ UNCHANGED <<procVars, term, mustRevert, requests, pending, session,
                            displayVars, history>>

\* The end of join() of the last session: with an application that runs, the
\* display is given back only if the user wants that.
JoinLast(t) == /\ pc[t] = "join" /\ Free(t)
               /\ Running(t, "idle", "joined")
               /\ IF pc'[t] = "idle"
                  THEN /\ session' = "none" /\ slots' = Nobody
                       /\ IF RevertOnDisconnect THEN Revert ELSE UNCHANGED displayVars
                  ELSE UNCHANGED <<session, slots, displayVars>>
               /\ UNCHANGED <<known, prepIt, effects, crashed, mustRevert, requests,
                              pending, history>>

RevertWithoutApp == TRUE

Joined(t) == /\ pc[t] = "joined" /\ Free(t)
             /\ session' = "none" /\ slots' = Nobody
             /\ IF RevertWithoutApp THEN Revert ELSE UNCHANGED displayVars
             /\ Goto(t, "idle")
             /\ UNCHANGED <<procVars, term, mustRevert, requests, pending, history>>

SessionStep == \/ Connect \/ Discard \/ Leave \/ Poll \/ ControlEnds \/ BeginJoin
               \/ \E t \in {"http", "rtsp"} : JoinLast(t) \/ Joined(t)

-----------------------------------------------------------------------------
(* The web interface *)

\* closeApp(), unpair(), unpairAll(), updateClient()
CloseApp == /\ pc["web"] = "idle" /\ Free("web")
            /\ Terminate("web", "idle")
            /\ UNCHANGED <<known, child, prepIt, effects, crashed, mustRevert, requests,
                           sessionVars, displayVars, history>>

\* saveApp() and deleteApp(): proc is replaced by a new one, which knows of no
\* application.
Refresh == /\ pc["web"] = "idle" /\ Free("web") /\ known
           /\ known' = FALSE /\ child' = "none" /\ prepIt' = 0
           /\ Enters("web")
           /\ forgotten' = TRUE
           /\ UNCHANGED <<effects, crashed, term, pc, mustRevert, requests, sessionVars,
                          displayVars, abandoned>>

Step == \/ HttpStep \/ SessionStep \/ CloseApp \/ Refresh \/ Exit \/ Tick
        \/ \E t \in Thread : TerminateStep(t)

Next == ~crashed /\ Step

Spec == Init /\ [][Next]_vars

-----------------------------------------------------------------------------
(* Properties *)

Quiet == \A t \in Thread : Free(t) /\ pc[t] = "idle"

\* A display that was configured for a client has somebody who will give it
\* back: a session, the application, a scheduled task or a request under way;
\* or else its client never came, or the
\* application was forgotten.
DisplayHasKeeper ==
  Quiet /\ (display = "configured" \/ sched = "apply") =>
    known \/ pending \/ session # "none" \/ sched = "revert"
      \/ overlapped \/ forgotten \/ abandoned

\* Once no application is known, every prep command that was run was undone,
\* also when a later one failed, as long as the calls of running() and
\* terminate() do not overlap and the list of applications is not reloaded.
PrepIsUndone ==
  Quiet /\ ~known /\ ~overlapped /\ ~forgotten => \A i \in 1..Prep : ~effects[i]

\* The iterator over the prep commands stays in its vector as long as the
\* calls do not overlap.
IteratorStays == crashed => overlapped

\* "we will revert the config when the app or session terminates"
DisplayGivenBack ==
  Quiet /\ display = "configured" =>
    known \/ pending \/ session # "none" \/ sched = "revert"
=============================================================================
