------------------------------ MODULE HostProof -------------------------------
(***************************************************************************)
(* What HostMC's runs find of four of its parts, for any values of their   *)
(* constants.                                                              *)
(*                                                                         *)
(* HostApp: whoever is in execute() or terminate() without another thread  *)
(* may rely on the iterator and on the members of proc_t (Alone); the      *)
(* commands that were run and not undone are those before the iterator     *)
(* (Undone); and a display that was configured has a keeper, or a request  *)
(* that is still preparing it (Kept).                                      *)
(*                                                                         *)
(* NvPrefs: the driver has the value of the user, or the host's own one    *)
(* and then the undo file has the user's (Truth); the rest says what the   *)
(* process holds at each of its steps.                                     *)
(*                                                                         *)
(* ConfigServer: a server that writes the state file has the part of the   *)
(* other in its tree (Shared); the key is that of the certificate as far   *)
(* as the two are made (KeyPair); no two users have the same token         *)
(* (TokenOfOne).                                                           *)
(*                                                                         *)
(* EncoderProbe: what is remembered of the encoder under test is what it   *)
(* does, as far as it was tested with a display (Exact); an encoder that   *)
(* the constrained search left behind lacks what is required, also when it *)
(* is asked again (LeftBehind).                                            *)
(***************************************************************************)
EXTENDS HostMC, TLAPS

\* The commands of an application and the requests are counted.
AppConstants == Prep \in Nat /\ MaxRequest \in Nat

\* The parts of execute() before and while it runs the application.
Executing == {"prepare", "do", "inc", "start"}

\* A thread that changes the members of proc_t.
Active(t) == term[t] # "off" \/ pc[t] \in Executing

\* Where a call of terminate() returns to; only the HTTPS thread launches.
Returns ==
  /\ \A t \in App!Thread : term[t] # "off" =>
       pc[t] \in {"idle", "launch", "joined", "ended", "revert", "prepare", "fail"}
  /\ \A t \in App!Thread : t # "http" => pc[t] \in {"idle", "join", "joined", "ended"}

\* What a thread that is alone in proc_t may rely on.
Alone ==
  ~overlapped =>
    /\ ~crashed
    /\ \A t, u \in App!Thread : Active(t) /\ Active(u) => t = u
    /\ pc["http"] \in {"do", "inc", "start"} => known
    /\ pc["http"] = "inc" => prepIt < Prep
    /\ pc["http"] = "prepare" /\ App!Free("http") => ~known /\ prepIt = 0
    /\ \A t \in App!Thread :
         /\ term[t] \in {"undo", "back", "end"} => child = "none"
         /\ term[t] = "back" => prepIt > 0
         /\ term[t] = "end" => prepIt = 0

\* Between two runs of an application nothing is left of the first: the
\* commands that were run are those before _app_prep_it, and the one that is
\* being counted.
Undone ==
  ~overlapped /\ ~forgotten =>
    /\ child # "none" => known
    /\ ~known => prepIt = 0
    /\ \A i \in 1..Prep : effects[i] => i <= prepIt \/ (pc["http"] = "inc" /\ i = prepIt + 1)
    /\ \A t \in App!Thread : term[t] = "back" => \A i \in 1..Prep : effects[i] => i < prepIt

\* Who will give the display back, or why nobody will ...
Keeper == known \/ pending \/ session # "none" \/ sched = "revert"
            \/ overlapped \/ forgotten \/ abandoned

\* ... or the request that has prepared it: it fails, or raises a launch.
Preparing == \/ pc["http"] = "raise"
             \/ mustRevert /\ pc["http"] \in Executing \union {"execute", "fail"}

Kept == display = "configured" \/ sched = "apply" => Keeper \/ Preparing

AppInv == App!TypeOK /\ Returns /\ Alone /\ Undone /\ Kept

-----------------------------------------------------------------------------
(* The types, in two parts *)

Flags == /\ known \in BOOLEAN /\ mustRevert \in BOOLEAN /\ pending \in BOOLEAN
         /\ crashed \in BOOLEAN /\ overlapped \in BOOLEAN
         /\ forgotten \in BOOLEAN /\ abandoned \in BOOLEAN

Places == /\ child \in {"none", "running", "placebo", "exited"}
          /\ prepIt \in 0..Prep /\ requests \in 0..MaxRequest
          /\ term \in [App!Thread -> App!TermPC] /\ pc \in [App!Thread -> App!PC]
          /\ session \in {"none", "up", "stopping"}
          /\ slots \in App!Thread \union {App!Nobody}
          /\ display \in {"plain", "configured"} /\ sched \in {"none", "apply", "revert"}
          /\ effects \in [1..Prep -> BOOLEAN]

LEMMA TypeParts == App!TypeOK <=> Flags /\ Places
  BY DEF App!TypeOK, Flags, Places

\* What running() and a call of terminate() do.
LEMMA TerminateDoes ==
  ASSUME Places, NEW t \in App!Thread, NEW where \in App!PC, App!Terminate(t, where)
  PROVE  /\ term' = [term EXCEPT ![t] = "kill"] /\ term' \in [App!Thread -> App!TermPC]
         /\ pc' = [pc EXCEPT ![t] = where] /\ pc' \in [App!Thread -> App!PC]
         /\ overlapped' \in BOOLEAN
  BY DEF Places, App!Terminate, App!Goto, App!Enters, App!TermPC

LEMMA RunningDoes ==
  ASSUME Flags, Places, NEW t \in App!Thread, NEW yes \in App!PC, NEW no \in App!PC,
         App!Running(t, yes, no)
  PROVE  /\ term' \in [App!Thread -> App!TermPC] /\ pc' \in [App!Thread -> App!PC]
         /\ child' \in {"none", "running", "placebo", "exited"}
         /\ overlapped' \in BOOLEAN
  BY TerminateDoes DEF Flags, Places, App!Running, App!Goto

\* The three ends of running(): the application's state is looked at, or
\* terminate() is entered.
LEMMA RunningIs ==
  ASSUME NEW t \in App!Thread, NEW yes, NEW no, App!Running(t, yes, no)
  PROVE  \/ /\ UNCHANGED <<term, overlapped>>
            /\ pc' = [pc EXCEPT ![t] = yes] /\ child \in {"running", "placebo", "exited"}
            /\ child' = child \/ (child = "exited" /\ child' = "placebo")
         \/ /\ UNCHANGED <<term, overlapped>>
            /\ pc' = [pc EXCEPT ![t] = no] /\ child = "none" /\ child' = "none"
         \/ App!Terminate(t, no) /\ child = "exited" /\ UNCHANGED child
  BY DEF App!Running, App!Goto

\* A call of terminate() by the only thread in proc_t keeps it the only one.
LEMMA TerminateAlone ==
  ASSUME Places, Alone, NEW t \in App!Thread, App!Free(t),
         NEW where \in {"joined", "revert", "fail", "idle", "launch", "ended"},
         App!Terminate(t, where), UNCHANGED crashed
  PROVE  ~overlapped' =>
           /\ ~crashed'
           /\ \A u, v \in App!Thread : Active(u)' /\ Active(v)' => u = v
           /\ \A u \in App!Thread \ {t} : pc'[u] = pc[u] /\ term'[u] = "off"
                                      /\ pc[u] \notin Executing \union {"execute"}
           /\ pc'[t] = where /\ term'[t] = "kill"
  <1>1. /\ \A u \in App!Thread \ {t} : pc'[u] = pc[u] /\ term'[u] = term[u]
        /\ pc'[t] = where /\ term'[t] = "kill"
    BY DEF App!Terminate, App!Goto, Places
  <1>2. SUFFICES ASSUME ~overlapped'
        PROVE  /\ ~crashed'
               /\ \A u, v \in App!Thread : Active(u)' /\ Active(v)' => u = v
               /\ \A u \in App!Thread \ {t} : pc'[u] = pc[u] /\ term'[u] = "off"
                                          /\ pc[u] \notin Executing \union {"execute"}
    BY <1>1
  <1>3. /\ ~overlapped
        /\ \A u \in App!Thread \ {t} :
             term[u] = "off" /\ pc[u] \notin Executing \union {"execute"}
    BY <1>2 DEF App!Terminate, App!Enters, App!InProc, Executing
  <1>4. \A u \in App!Thread : Active(u)' => u = t
    BY <1>1, <1>3 DEF Active
  <1> QED BY <1>1, <1>3, <1>4 DEF Alone

-----------------------------------------------------------------------------

\* Every step keeps the flags, ...
LEMMA FlagsStep == ASSUME AppConstants, AppInv, App!Next PROVE Flags'
<1> USE DEF AppConstants, AppInv, Flags
<1>1. CASE App!LaunchBegin
  BY <1>1, TypeParts, RunningDoes DEF App!LaunchBegin, App!Running, App!Terminate,
     App!Enters, App!InProc, App!procVars, App!history, App!displayVars, App!sessionVars,
     App!Http, App!Free, App!Goto
<1>2. CASE App!LaunchPrepares
  BY <1>2, TypeParts DEF App!LaunchPrepares, App!Configure, App!Apply, App!Revert,
     App!procVars, App!history, App!displayVars, App!sessionVars, App!Http, App!Free,
     App!Goto
<1>3. CASE App!Execute
  BY <1>3, TypeParts, TerminateDoes DEF App!Execute, App!Terminate, App!Enters, App!InProc,
     App!procVars, App!history, App!displayVars, App!sessionVars, App!Http, App!Free,
     App!Goto
<1>4. CASE App!Prepare
  BY <1>4, TypeParts DEF App!Prepare, App!procVars, App!history, App!displayVars,
     App!sessionVars, App!Http, App!Free, App!Goto
<1>5. CASE App!Do
  BY <1>5, TypeParts, TerminateDoes DEF App!Do, App!Terminate, App!Enters, App!InProc,
     App!procVars, App!history, App!displayVars, App!sessionVars, App!Http, App!Free,
     App!Goto
<1>6. CASE App!Inc
  BY <1>6, TypeParts DEF App!Inc, App!Done, App!procVars, App!history, App!displayVars,
     App!sessionVars, App!Http, App!Free, App!Goto
<1>7. CASE App!Start
  BY <1>7, TypeParts, TerminateDoes DEF App!Start, App!Terminate, App!Enters, App!InProc,
     App!procVars, App!history, App!displayVars, App!sessionVars, App!Http, App!Free,
     App!Goto
<1>8. CASE App!LaunchFails
  BY <1>8, TypeParts DEF App!LaunchFails, App!RevertOnFail, App!Revert, App!procVars,
     App!history, App!displayVars, App!sessionVars, App!Http, App!Free, App!Goto
<1>9. CASE App!RaiseLaunch
  BY <1>9, TypeParts DEF App!RaiseLaunch, App!procVars, App!history, App!displayVars,
     App!sessionVars, App!Http, App!Free, App!Goto
<1>10. CASE App!ResumeBegin
  BY <1>10, TypeParts, RunningDoes DEF App!ResumeBegin, App!Running, App!Terminate,
     App!Enters, App!InProc, App!procVars, App!history, App!displayVars, App!sessionVars,
     App!Http, App!Free, App!Goto
<1>11. CASE App!Resume
  BY <1>11, TypeParts DEF App!Resume, App!Configure, App!Apply, App!Revert, App!procVars,
     App!history, App!displayVars, App!sessionVars, App!Http, App!Free, App!Goto
<1>12. CASE App!Cancel
  BY <1>12, TypeParts DEF App!Cancel, App!procVars, App!history, App!displayVars,
     App!sessionVars, App!Http, App!Free, App!Goto
<1>13. CASE App!CancelRuns
  BY <1>13, TypeParts, TerminateDoes DEF App!CancelRuns, App!Terminate, App!Enters,
     App!InProc, App!procVars, App!history, App!displayVars, App!sessionVars, App!Http,
     App!Free, App!Goto
<1>14. CASE App!CancelReverts
  BY <1>14, TypeParts DEF App!CancelReverts, App!Revert, App!procVars, App!history,
     App!displayVars, App!sessionVars, App!Http, App!Free, App!Goto
<1>15. CASE App!Connect
  BY <1>15, TypeParts DEF App!Connect, App!procVars, App!history, App!displayVars,
     App!sessionVars, App!Http, App!Free, App!Goto
<1>16. CASE App!Discard
  BY <1>16, TypeParts DEF App!Discard, App!procVars, App!history, App!displayVars,
     App!sessionVars, App!Http, App!Free, App!Goto
<1>17. CASE App!Leave
  BY <1>17, TypeParts DEF App!Leave, App!procVars, App!history, App!displayVars,
     App!sessionVars, App!Http, App!Free, App!Goto
<1>18. CASE App!Poll
  BY <1>18, TypeParts, RunningDoes DEF App!Poll, App!Running, App!Terminate, App!Enters,
     App!InProc, App!procVars, App!history, App!displayVars, App!sessionVars, App!Http,
     App!Free, App!Goto
<1>19. CASE App!ControlEnds
  BY <1>19, TypeParts DEF App!ControlEnds, App!procVars, App!history, App!displayVars,
     App!sessionVars, App!Http, App!Free, App!Goto
<1>20. CASE App!BeginJoin
  BY <1>20, TypeParts DEF App!BeginJoin, App!procVars, App!history, App!displayVars,
     App!sessionVars, App!Http, App!Free, App!Goto
<1>21. ASSUME NEW t \in {"http", "rtsp"}, App!JoinLast(t) PROVE Flags'
  BY <1>21, TypeParts, RunningDoes DEF App!JoinLast, App!Running, App!Terminate, App!Enters,
     App!InProc, App!Revert, App!procVars, App!history, App!displayVars, App!sessionVars,
     App!Http, App!Free, App!Goto
<1>22. ASSUME NEW t \in {"http", "rtsp"}, App!Joined(t) PROVE Flags'
  BY <1>22, TypeParts DEF App!Joined, App!RevertWithoutApp, App!Revert, App!procVars,
     App!history, App!displayVars, App!sessionVars, App!Http, App!Free, App!Goto
<1>23. CASE App!CloseApp
  BY <1>23, TypeParts, TerminateDoes DEF App!CloseApp, App!Terminate, App!Enters,
     App!InProc, App!procVars, App!history, App!displayVars, App!sessionVars, App!Http,
     App!Free, App!Goto
<1>24. CASE App!Refresh
  BY <1>24, TypeParts DEF App!Refresh, App!Enters, App!InProc, App!procVars, App!history,
     App!displayVars, App!sessionVars, App!Http, App!Free, App!Goto
<1>25. CASE App!Exit
  BY <1>25, TypeParts DEF App!Exit, App!procVars, App!history, App!displayVars,
     App!sessionVars, App!Http, App!Free, App!Goto
<1>26. CASE App!Tick
  BY <1>26, TypeParts DEF App!Tick, App!Apply, App!procVars, App!history, App!displayVars,
     App!sessionVars, App!Http, App!Free, App!Goto
<1>27. ASSUME NEW t \in App!Thread, App!TerminateStep(t) PROVE Flags'
  BY <1>27, TypeParts DEF App!TerminateStep, App!Kill, App!Undo, App!Back, App!EndTerminate,
     App!Revert, App!procVars, App!history, App!displayVars, App!sessionVars, App!Http,
     App!Free, App!Goto
<1> QED
  BY <1>1, <1>2, <1>3, <1>4, <1>5, <1>6, <1>7, <1>8, <1>9, <1>10, <1>11, <1>12, <1>13,
     <1>14, <1>15, <1>16, <1>17, <1>18, <1>19, <1>20, <1>21, <1>22, <1>23, <1>24, <1>25,
     <1>26, <1>27 DEF App!Next, App!Step, App!HttpStep, App!SessionStep

\* ... the other types, ...
LEMMA PlacesStep == ASSUME AppConstants, AppInv, App!Next PROVE Places'
<1> USE DEF AppConstants, AppInv, Places, App!TermPC, App!PC, App!Thread, App!Nobody,
     Returns, Alone
<1>1. CASE App!LaunchBegin
  <2>1. /\ term' \in [App!Thread -> App!TermPC] /\ pc' \in [App!Thread -> App!PC]
        /\ child' \in {"none", "running", "placebo", "exited"}
    BY <1>1, RunningDoes, TypeParts DEF App!LaunchBegin, App!Thread, App!PC
  <2> QED BY <1>1, <2>1, TypeParts DEF App!LaunchBegin, App!procVars, App!history,
       App!displayVars, App!sessionVars, App!Http
<1>2. CASE App!LaunchPrepares
  BY <1>2, TypeParts DEF App!LaunchPrepares, App!Configure, App!Apply, App!Revert,
     App!procVars, App!history, App!displayVars, App!sessionVars, App!Http, App!Free,
     App!Goto
<1>3. CASE App!Execute
  <2>1. term' \in [App!Thread -> App!TermPC] /\ pc' \in [App!Thread -> App!PC]
    BY <1>3, TerminateDoes, TypeParts DEF App!Execute, App!Thread, App!PC
  <2> QED BY <1>3, <2>1, TypeParts DEF App!Execute, App!procVars, App!history,
       App!displayVars, App!sessionVars, App!Http
<1>4. CASE App!Prepare
  BY <1>4, TypeParts DEF App!Prepare, App!procVars, App!history, App!displayVars,
     App!sessionVars, App!Http, App!Free, App!Goto
<1>5. CASE App!Do
  <2>1. term' \in [App!Thread -> App!TermPC] /\ pc' \in [App!Thread -> App!PC]
    BY ZenonT(60), <1>5, TerminateDoes, TypeParts DEF App!Do, App!Thread, App!PC, App!Goto
  <2> QED BY <1>5, <2>1, TypeParts DEF App!Do, App!procVars, App!history, App!displayVars,
       App!sessionVars, App!Http
<1>6. CASE App!Inc
  BY <1>6, TypeParts DEF App!Inc, App!Done, App!procVars, App!history, App!displayVars,
     App!sessionVars, App!Http, App!Free, App!Goto
<1>7. CASE App!Start
  <2>1. term' \in [App!Thread -> App!TermPC] /\ pc' \in [App!Thread -> App!PC]
    BY ZenonT(60), <1>7, TerminateDoes, TypeParts DEF App!Start, App!Thread, App!PC, App!Goto
  <2> QED BY <1>7, <2>1, TypeParts DEF App!Start, App!procVars, App!history,
       App!displayVars, App!sessionVars, App!Http
<1>8. CASE App!LaunchFails
  BY <1>8, TypeParts DEF App!LaunchFails, App!RevertOnFail, App!Revert, App!procVars,
     App!history, App!displayVars, App!sessionVars, App!Http, App!Free, App!Goto
<1>9. CASE App!RaiseLaunch
  BY <1>9, TypeParts DEF App!RaiseLaunch, App!procVars, App!history, App!displayVars,
     App!sessionVars, App!Http, App!Free, App!Goto
<1>10. CASE App!ResumeBegin
  <2>1. /\ term' \in [App!Thread -> App!TermPC] /\ pc' \in [App!Thread -> App!PC]
        /\ child' \in {"none", "running", "placebo", "exited"}
    BY <1>10, RunningDoes, TypeParts DEF App!ResumeBegin, App!Thread, App!PC
  <2> QED BY <1>10, <2>1, TypeParts DEF App!ResumeBegin, App!procVars, App!history,
       App!displayVars, App!sessionVars, App!Http
<1>11. CASE App!Resume
  BY <1>11, TypeParts DEF App!Resume, App!Configure, App!Apply, App!Revert, App!procVars,
     App!history, App!displayVars, App!sessionVars, App!Http, App!Free, App!Goto
<1>12. CASE App!Cancel
  BY <1>12, TypeParts DEF App!Cancel, App!procVars, App!history, App!displayVars,
     App!sessionVars, App!Http, App!Free, App!Goto
<1>13. CASE App!CancelRuns
  <2>1. term' \in [App!Thread -> App!TermPC] /\ pc' \in [App!Thread -> App!PC]
    BY ZenonT(60), <1>13, TerminateDoes, TypeParts DEF App!CancelRuns, App!Thread,
       App!PC, App!Goto
  <2> QED BY <1>13, <2>1, TypeParts DEF App!CancelRuns, App!procVars, App!history,
       App!displayVars, App!sessionVars, App!Http
<1>14. CASE App!CancelReverts
  BY <1>14, TypeParts DEF App!CancelReverts, App!Revert, App!procVars, App!history,
     App!displayVars, App!sessionVars, App!Http, App!Free, App!Goto
<1>15. CASE App!Connect
  BY <1>15, TypeParts DEF App!Connect, App!procVars, App!history, App!displayVars,
     App!sessionVars, App!Http, App!Free, App!Goto
<1>16. CASE App!Discard
  BY <1>16, TypeParts DEF App!Discard, App!procVars, App!history, App!displayVars,
     App!sessionVars, App!Http, App!Free, App!Goto
<1>17. CASE App!Leave
  BY <1>17, TypeParts DEF App!Leave, App!procVars, App!history, App!displayVars,
     App!sessionVars, App!Http, App!Free, App!Goto
<1>18. CASE App!Poll
  <2>1. /\ term' \in [App!Thread -> App!TermPC] /\ pc' \in [App!Thread -> App!PC]
        /\ child' \in {"none", "running", "placebo", "exited"}
    BY <1>18, RunningDoes, TypeParts DEF App!Poll, App!Thread, App!PC
  <2> QED BY <1>18, <2>1, TypeParts DEF App!Poll, App!procVars, App!history,
       App!displayVars, App!sessionVars, App!Http
<1>19. CASE App!ControlEnds
  BY <1>19, TypeParts DEF App!ControlEnds, App!procVars, App!history, App!displayVars,
     App!sessionVars, App!Http, App!Free, App!Goto
<1>20. CASE App!BeginJoin
  BY <1>20, TypeParts DEF App!BeginJoin, App!procVars, App!history, App!displayVars,
     App!sessionVars, App!Http, App!Free, App!Goto
<1>21. ASSUME NEW t \in {"http", "rtsp"}, App!JoinLast(t) PROVE Places'
  <2>1. /\ term' \in [App!Thread -> App!TermPC] /\ pc' \in [App!Thread -> App!PC]
        /\ child' \in {"none", "running", "placebo", "exited"}
    BY <1>21, RunningDoes, TypeParts DEF App!JoinLast, App!Thread, App!PC
  <2> QED BY <1>21, <2>1, TypeParts DEF App!JoinLast, App!Revert, App!procVars, App!history,
       App!displayVars, App!sessionVars, App!Http
<1>22. ASSUME NEW t \in {"http", "rtsp"}, App!Joined(t) PROVE Places'
  BY <1>22, TypeParts DEF App!Joined, App!RevertWithoutApp, App!Revert, App!procVars,
     App!history, App!displayVars, App!sessionVars, App!Http, App!Free, App!Goto
<1>23. CASE App!CloseApp
  BY <1>23, TypeParts, TerminateDoes DEF App!CloseApp, App!Terminate, App!Enters,
     App!InProc, App!procVars, App!history, App!displayVars, App!sessionVars, App!Http,
     App!Free, App!Goto
<1>24. CASE App!Refresh
  BY <1>24, TypeParts DEF App!Refresh, App!Enters, App!InProc, App!procVars, App!history,
     App!displayVars, App!sessionVars, App!Http, App!Free, App!Goto
<1>25. CASE App!Exit
  BY <1>25, TypeParts DEF App!Exit, App!procVars, App!history, App!displayVars,
     App!sessionVars, App!Http, App!Free, App!Goto
<1>26. CASE App!Tick
  BY <1>26, TypeParts DEF App!Tick, App!Apply, App!procVars, App!history, App!displayVars,
     App!sessionVars, App!Http, App!Free, App!Goto
<1>27. ASSUME NEW t \in App!Thread, App!TerminateStep(t) PROVE Places'
  <2>1. CASE App!Kill(t)
    BY <1>27, <2>1, TypeParts DEF App!TerminateStep, App!Kill, App!EndTerminate,
         App!displayVars, App!sessionVars, App!history
  <2>2. CASE App!Undo(t)
    <3>1. /\ term' \in [App!Thread -> App!TermPC]
          /\ effects' \in [1..Prep -> BOOLEAN]
      <4>1. CASE prepIt = 0
        BY <2>2, <4>1, TypeParts DEF App!Undo
      <4>2. CASE prepIt # 0
        <5>1. effects' = [effects EXCEPT ![prepIt] = FALSE] /\ term' = [term EXCEPT ![t] = "back"]
          BY <2>2, <4>2 DEF App!Undo
        <5>2. effects' \in [1..Prep -> BOOLEAN]
          BY <5>1, TypeParts, Zenon
        <5> QED BY <5>1, <5>2, TypeParts
      <4> QED BY <4>1, <4>2
    <3> QED BY <1>27, <2>2, <3>1, TypeParts DEF App!TerminateStep, App!Undo,
       App!EndTerminate, App!displayVars, App!sessionVars, App!history
  <2>3. CASE App!Back(t)
    BY <1>27, <2>3, TypeParts DEF App!TerminateStep, App!Back, App!EndTerminate,
         App!displayVars, App!sessionVars, App!history
  <2>4. CASE App!EndTerminate(t)
    BY <1>27, <2>4, TypeParts DEF App!TerminateStep, App!EndTerminate, App!Revert,
         App!displayVars, App!sessionVars, App!history
  <2> QED BY <1>27, <2>1, <2>2, <2>3, <2>4 DEF App!TerminateStep
<1> QED
  BY <1>1, <1>2, <1>3, <1>4, <1>5, <1>6, <1>7, <1>8, <1>9, <1>10, <1>11, <1>12, <1>13,
     <1>14, <1>15, <1>16, <1>17, <1>18, <1>19, <1>20, <1>21, <1>22, <1>23, <1>24, <1>25,
     <1>26, <1>27 DEF App!Next, App!Step, App!HttpStep, App!SessionStep

\* ... the places terminate() returns to, ...
LEMMA ReturnsStep == ASSUME AppConstants, AppInv, App!Next PROVE Returns'
<1> USE DEF AppConstants, AppInv, App!TypeOK, App!TermPC, App!PC, App!Thread, Returns
<1>1. CASE App!LaunchBegin
  BY <1>1 DEF App!LaunchBegin, App!Running, App!Terminate, App!Enters, App!InProc,
     App!procVars, App!history, App!displayVars, App!sessionVars, App!Http, App!Free,
     App!Goto
<1>2. CASE App!LaunchPrepares
  BY <1>2 DEF App!LaunchPrepares, App!Configure, App!Apply, App!Revert, App!procVars,
     App!history, App!displayVars, App!sessionVars, App!Http, App!Free, App!Goto
<1>3. CASE App!Execute
  BY <1>3 DEF App!Execute, App!Terminate, App!Enters, App!InProc, App!procVars, App!history,
     App!displayVars, App!sessionVars, App!Http, App!Free, App!Goto
<1>4. CASE App!Prepare
  BY <1>4 DEF App!Prepare, App!procVars, App!history, App!displayVars, App!sessionVars,
       App!Http, App!Free, App!Goto
<1>5. CASE App!Do
  BY <1>5 DEF App!Do, App!Terminate, App!Enters, App!InProc, App!procVars, App!history,
     App!displayVars, App!sessionVars, App!Http, App!Free, App!Goto
<1>6. CASE App!Inc
  BY <1>6 DEF App!Inc, App!Done, App!procVars, App!history, App!displayVars,
       App!sessionVars, App!Http, App!Free, App!Goto
<1>7. CASE App!Start
  BY <1>7 DEF App!Start, App!Terminate, App!Enters, App!InProc, App!procVars, App!history,
     App!displayVars, App!sessionVars, App!Http, App!Free, App!Goto
<1>8. CASE App!LaunchFails
  BY <1>8 DEF App!LaunchFails, App!RevertOnFail, App!Revert, App!procVars, App!history,
     App!displayVars, App!sessionVars, App!Http, App!Free, App!Goto
<1>9. CASE App!RaiseLaunch
  BY <1>9 DEF App!RaiseLaunch, App!procVars, App!history, App!displayVars, App!sessionVars,
       App!Http, App!Free, App!Goto
<1>10. CASE App!ResumeBegin
  BY <1>10 DEF App!ResumeBegin, App!Running, App!Terminate, App!Enters, App!InProc,
     App!procVars, App!history, App!displayVars, App!sessionVars, App!Http, App!Free,
     App!Goto
<1>11. CASE App!Resume
  BY <1>11 DEF App!Resume, App!Configure, App!Apply, App!Revert, App!procVars, App!history,
     App!displayVars, App!sessionVars, App!Http, App!Free, App!Goto
<1>12. CASE App!Cancel
  BY <1>12 DEF App!Cancel, App!procVars, App!history, App!displayVars, App!sessionVars,
       App!Http, App!Free, App!Goto
<1>13. CASE App!CancelRuns
  BY <1>13 DEF App!CancelRuns, App!Terminate, App!Enters, App!InProc, App!procVars,
     App!history, App!displayVars, App!sessionVars, App!Http, App!Free, App!Goto
<1>14. CASE App!CancelReverts
  BY <1>14 DEF App!CancelReverts, App!Revert, App!procVars, App!history, App!displayVars,
     App!sessionVars, App!Http, App!Free, App!Goto
<1>15. CASE App!Connect
  BY <1>15 DEF App!Connect, App!procVars, App!history, App!displayVars, App!sessionVars,
       App!Http, App!Free, App!Goto
<1>16. CASE App!Discard
  BY <1>16 DEF App!Discard, App!procVars, App!history, App!displayVars, App!sessionVars,
       App!Http, App!Free, App!Goto
<1>17. CASE App!Leave
  BY <1>17 DEF App!Leave, App!procVars, App!history, App!displayVars, App!sessionVars,
       App!Http, App!Free, App!Goto
<1>18. CASE App!Poll
  BY <1>18 DEF App!Poll, App!Running, App!Terminate, App!Enters, App!InProc, App!procVars,
     App!history, App!displayVars, App!sessionVars, App!Http, App!Free, App!Goto
<1>19. CASE App!ControlEnds
  BY <1>19 DEF App!ControlEnds, App!procVars, App!history, App!displayVars, App!sessionVars,
       App!Http, App!Free, App!Goto
<1>20. CASE App!BeginJoin
  BY <1>20 DEF App!BeginJoin, App!procVars, App!history, App!displayVars, App!sessionVars,
       App!Http, App!Free, App!Goto
<1>21. ASSUME NEW t \in {"http", "rtsp"}, App!JoinLast(t) PROVE Returns'
  BY <1>21 DEF App!JoinLast, App!Running, App!Terminate, App!Enters, App!InProc, App!Revert,
     App!procVars, App!history, App!displayVars, App!sessionVars, App!Http, App!Free,
     App!Goto
<1>22. ASSUME NEW t \in {"http", "rtsp"}, App!Joined(t) PROVE Returns'
  BY <1>22 DEF App!Joined, App!RevertWithoutApp, App!Revert, App!procVars, App!history,
     App!displayVars, App!sessionVars, App!Http, App!Free, App!Goto
<1>23. CASE App!CloseApp
  BY <1>23 DEF App!CloseApp, App!Terminate, App!Enters, App!InProc, App!procVars,
     App!history, App!displayVars, App!sessionVars, App!Http, App!Free, App!Goto
<1>24. CASE App!Refresh
  BY <1>24 DEF App!Refresh, App!Enters, App!InProc, App!procVars, App!history,
     App!displayVars, App!sessionVars, App!Http, App!Free, App!Goto
<1>25. CASE App!Exit
  BY <1>25 DEF App!Exit, App!procVars, App!history, App!displayVars, App!sessionVars,
       App!Http, App!Free, App!Goto
<1>26. CASE App!Tick
  BY <1>26 DEF App!Tick, App!Apply, App!procVars, App!history, App!displayVars,
       App!sessionVars, App!Http, App!Free, App!Goto
<1>27. ASSUME NEW t \in App!Thread, App!TerminateStep(t) PROVE Returns'
  BY <1>27 DEF App!TerminateStep, App!Kill, App!Undo, App!Back, App!EndTerminate,
     App!Revert, App!procVars, App!history, App!displayVars, App!sessionVars, App!Http,
     App!Free, App!Goto
<1> QED
  BY <1>1, <1>2, <1>3, <1>4, <1>5, <1>6, <1>7, <1>8, <1>9, <1>10, <1>11, <1>12, <1>13,
     <1>14, <1>15, <1>16, <1>17, <1>18, <1>19, <1>20, <1>21, <1>22, <1>23, <1>24, <1>25,
     <1>26, <1>27 DEF App!Next, App!Step, App!HttpStep, App!SessionStep

\* ... what a thread alone in proc_t relies on, ...
LEMMA AloneStep == ASSUME AppConstants, AppInv, App!Next PROVE Alone'
<1> USE DEF AppConstants, AppInv, App!TypeOK, App!TermPC, App!PC, App!Thread, Returns,
   Alone, Active, Executing
<1>1. CASE App!LaunchBegin
  <2>1. App!Running("http", "idle", "launch")
    BY <1>1 DEF App!LaunchBegin
  <2>2. CASE pc' = [pc EXCEPT !["http"] = "idle"] /\ UNCHANGED <<term, overlapped>>
             /\ child \in {"running", "placebo", "exited"}
             /\ (child' = child \/ (child = "exited" /\ child' = "placebo"))
    BY <1>1, <2>2 DEF App!LaunchBegin, App!procVars, App!history, App!displayVars,
         App!sessionVars, App!Http, App!Free
  <2>3. CASE pc' = [pc EXCEPT !["http"] = "launch"] /\ UNCHANGED <<term, overlapped>>
             /\ child = "none" /\ child' = "none"
    BY <1>1, <2>3 DEF App!LaunchBegin, App!procVars, App!history, App!displayVars,
         App!sessionVars, App!Http, App!Free
  <2>4. CASE App!Terminate("http", "launch") /\ child = "exited" /\ UNCHANGED child
    <3>1. App!Free("http") /\ UNCHANGED <<known, prepIt, crashed>>
      BY <1>1, <2>4 DEF App!LaunchBegin, App!Http
    <3> QED BY <2>4, <3>1, TerminateAlone, TypeParts
  <2> QED BY <2>1, <2>2, <2>3, <2>4, RunningIs DEF App!Thread
<1>2. CASE App!LaunchPrepares
  BY <1>2 DEF App!LaunchPrepares, App!Configure, App!Apply, App!Revert, App!procVars,
     App!history, App!displayVars, App!sessionVars, App!Http, App!Free, App!Goto
<1>3. CASE App!Execute
  BY <1>3 DEF App!Execute, App!Terminate, App!Enters, App!InProc, App!procVars, App!history,
     App!displayVars, App!sessionVars, App!Http, App!Free, App!Goto
<1>4. CASE App!Prepare
  BY <1>4 DEF App!Prepare, App!procVars, App!history, App!displayVars, App!sessionVars,
       App!Http, App!Free, App!Goto
<1>5. CASE App!Do
  BY <1>5 DEF App!Do, App!Terminate, App!Enters, App!InProc, App!procVars, App!history,
     App!displayVars, App!sessionVars, App!Http, App!Free, App!Goto
<1>6. CASE App!Inc
  BY <1>6 DEF App!Inc, App!Done, App!procVars, App!history, App!displayVars,
       App!sessionVars, App!Http, App!Free, App!Goto
<1>7. CASE App!Start
  BY <1>7 DEF App!Start, App!Terminate, App!Enters, App!InProc, App!procVars, App!history,
     App!displayVars, App!sessionVars, App!Http, App!Free, App!Goto
<1>8. CASE App!LaunchFails
  BY <1>8 DEF App!LaunchFails, App!RevertOnFail, App!Revert, App!procVars, App!history,
     App!displayVars, App!sessionVars, App!Http, App!Free, App!Goto
<1>9. CASE App!RaiseLaunch
  BY <1>9 DEF App!RaiseLaunch, App!procVars, App!history, App!displayVars, App!sessionVars,
       App!Http, App!Free, App!Goto
<1>10. CASE App!ResumeBegin
  <2>1. App!Running("http", "resume", "idle")
    BY <1>10 DEF App!ResumeBegin
  <2>2. CASE pc' = [pc EXCEPT !["http"] = "resume"] /\ UNCHANGED <<term, overlapped>>
             /\ child \in {"running", "placebo", "exited"}
             /\ (child' = child \/ (child = "exited" /\ child' = "placebo"))
    BY <1>10, <2>2 DEF App!ResumeBegin, App!procVars, App!history, App!displayVars,
         App!sessionVars, App!Http, App!Free
  <2>3. CASE pc' = [pc EXCEPT !["http"] = "idle"] /\ UNCHANGED <<term, overlapped>>
             /\ child = "none" /\ child' = "none"
    BY <1>10, <2>3 DEF App!ResumeBegin, App!procVars, App!history, App!displayVars,
         App!sessionVars, App!Http, App!Free
  <2>4. CASE App!Terminate("http", "idle") /\ child = "exited" /\ UNCHANGED child
    <3>1. App!Free("http") /\ UNCHANGED <<known, prepIt, crashed>>
      BY <1>10, <2>4 DEF App!ResumeBegin, App!Http
    <3> QED BY <2>4, <3>1, TerminateAlone, TypeParts
  <2> QED BY <2>1, <2>2, <2>3, <2>4, RunningIs DEF App!Thread
<1>11. CASE App!Resume
  BY <1>11 DEF App!Resume, App!Configure, App!Apply, App!Revert, App!procVars, App!history,
     App!displayVars, App!sessionVars, App!Http, App!Free, App!Goto
<1>12. CASE App!Cancel
  BY <1>12 DEF App!Cancel, App!procVars, App!history, App!displayVars, App!sessionVars,
       App!Http, App!Free, App!Goto
<1>13. CASE App!CancelRuns
  <2>1. CASE pc' = [pc EXCEPT !["http"] = "revert"] /\ UNCHANGED <<term, overlapped>>
    BY <1>13, <2>1 DEF App!CancelRuns, App!Http, App!Free
  <2>2. CASE App!Terminate("http", "revert")
    BY <1>13, <2>2, TerminateAlone, TypeParts DEF App!CancelRuns, App!Http
  <2> QED BY <1>13, <2>1, <2>2 DEF App!CancelRuns, App!Goto
<1>14. CASE App!CancelReverts
  BY <1>14 DEF App!CancelReverts, App!Revert, App!procVars, App!history, App!displayVars,
     App!sessionVars, App!Http, App!Free, App!Goto
<1>15. CASE App!Connect
  BY <1>15 DEF App!Connect, App!procVars, App!history, App!displayVars, App!sessionVars,
       App!Http, App!Free, App!Goto
<1>16. CASE App!Discard
  BY <1>16 DEF App!Discard, App!procVars, App!history, App!displayVars, App!sessionVars,
       App!Http, App!Free, App!Goto
<1>17. CASE App!Leave
  BY <1>17 DEF App!Leave, App!procVars, App!history, App!displayVars, App!sessionVars,
       App!Http, App!Free, App!Goto
<1>18. CASE App!Poll
  <2>1. App!Running("control", "idle", "ended")
    BY <1>18 DEF App!Poll
  <2>2. CASE pc' = [pc EXCEPT !["control"] = "idle"] /\ UNCHANGED <<term, overlapped>>
             /\ child \in {"running", "placebo", "exited"}
             /\ (child' = child \/ (child = "exited" /\ child' = "placebo"))
    BY <1>18, <2>2 DEF App!Poll, App!procVars, App!history, App!displayVars,
         App!sessionVars, App!Http, App!Free
  <2>3. CASE pc' = [pc EXCEPT !["control"] = "ended"] /\ UNCHANGED <<term, overlapped>>
             /\ child = "none" /\ child' = "none"
    BY <1>18, <2>3 DEF App!Poll, App!procVars, App!history, App!displayVars,
         App!sessionVars, App!Http, App!Free
  <2>4. CASE App!Terminate("control", "ended") /\ child = "exited" /\ UNCHANGED child
    <3>1. App!Free("control") /\ UNCHANGED <<known, prepIt, crashed>>
      BY <1>18, <2>4 DEF App!Poll, App!Http
    <3> QED BY <2>4, <3>1, TerminateAlone, TypeParts
  <2> QED BY <2>1, <2>2, <2>3, <2>4, RunningIs DEF App!Thread
<1>19. CASE App!ControlEnds
  BY <1>19 DEF App!ControlEnds, App!procVars, App!history, App!displayVars, App!sessionVars,
       App!Http, App!Free, App!Goto
<1>20. CASE App!BeginJoin
  BY <1>20 DEF App!BeginJoin, App!procVars, App!history, App!displayVars, App!sessionVars,
       App!Http, App!Free, App!Goto
<1>21. ASSUME NEW t \in {"http", "rtsp"}, App!JoinLast(t) PROVE Alone'
  <2>1. App!Running(t, "idle", "joined")
    BY <1>21 DEF App!JoinLast
  <2>2. CASE pc' = [pc EXCEPT ![t] = "idle"] /\ UNCHANGED <<term, overlapped>>
             /\ child \in {"running", "placebo", "exited"}
             /\ (child' = child \/ (child = "exited" /\ child' = "placebo"))
    BY <1>21, <2>2 DEF App!JoinLast, App!procVars, App!history, App!displayVars,
         App!sessionVars, App!Http, App!Free
  <2>3. CASE pc' = [pc EXCEPT ![t] = "joined"] /\ UNCHANGED <<term, overlapped>>
             /\ child = "none" /\ child' = "none"
    BY <1>21, <2>3 DEF App!JoinLast, App!procVars, App!history, App!displayVars,
         App!sessionVars, App!Http, App!Free
  <2>4. CASE App!Terminate(t, "joined") /\ child = "exited" /\ UNCHANGED child
    BY <1>21, <2>4, TerminateAlone, TypeParts DEF App!JoinLast
  <2> QED BY <2>1, <2>2, <2>3, <2>4, RunningIs DEF App!Thread
<1>22. ASSUME NEW t \in {"http", "rtsp"}, App!Joined(t) PROVE Alone'
  BY <1>22 DEF App!Joined, App!RevertWithoutApp, App!Revert, App!procVars, App!history,
     App!displayVars, App!sessionVars, App!Http, App!Free, App!Goto
<1>23. CASE App!CloseApp
  <2>1. App!Terminate("web", "idle") /\ App!Free("web") /\ UNCHANGED crashed /\ pc["web"] = "idle"
    BY <1>23 DEF App!CloseApp
  <2>2. UNCHANGED <<known, prepIt, child>>
    BY <1>23 DEF App!CloseApp
  <2> QED BY <2>1, <2>2, TerminateAlone, TypeParts
<1>24. CASE App!Refresh
  BY <1>24 DEF App!Refresh, App!Enters, App!InProc, App!procVars, App!history,
     App!displayVars, App!sessionVars, App!Http, App!Free, App!Goto
<1>25. CASE App!Exit
  BY <1>25 DEF App!Exit, App!procVars, App!history, App!displayVars, App!sessionVars,
       App!Http, App!Free, App!Goto
<1>26. CASE App!Tick
  BY <1>26 DEF App!Tick, App!Apply, App!procVars, App!history, App!displayVars,
       App!sessionVars, App!Http, App!Free, App!Goto
<1>27. ASSUME NEW t \in App!Thread, App!TerminateStep(t) PROVE Alone'
  BY <1>27 DEF App!TerminateStep, App!Kill, App!Undo, App!Back, App!EndTerminate,
     App!Revert, App!procVars, App!history, App!displayVars, App!sessionVars, App!Http,
     App!Free, App!Goto
<1> QED
  BY <1>1, <1>2, <1>3, <1>4, <1>5, <1>6, <1>7, <1>8, <1>9, <1>10, <1>11, <1>12, <1>13,
     <1>14, <1>15, <1>16, <1>17, <1>18, <1>19, <1>20, <1>21, <1>22, <1>23, <1>24, <1>25,
     <1>26, <1>27 DEF App!Next, App!Step, App!HttpStep, App!SessionStep

\* ... the account of the commands, ...
LEMMA UndoneStep == ASSUME AppConstants, AppInv, App!Next PROVE Undone'
<1> USE DEF AppConstants, AppInv, App!TypeOK, App!TermPC, App!PC, App!Thread, Returns,
   Alone, Undone, Active, Executing
<1>1. CASE App!LaunchBegin
  <2>1. App!Running("http", "idle", "launch")
    BY <1>1 DEF App!LaunchBegin
  <2>2. CASE pc' = [pc EXCEPT !["http"] = "idle"] /\ UNCHANGED <<term, overlapped>>
             /\ child \in {"running", "placebo", "exited"}
             /\ (child' = child \/ (child = "exited" /\ child' = "placebo"))
    BY <1>1, <2>2 DEF App!LaunchBegin, App!procVars, App!history, App!displayVars,
         App!sessionVars, App!Http, App!Free
  <2>3. CASE pc' = [pc EXCEPT !["http"] = "launch"] /\ UNCHANGED <<term, overlapped>>
             /\ child = "none" /\ child' = "none"
    BY <1>1, <2>3 DEF App!LaunchBegin, App!procVars, App!history, App!displayVars,
         App!sessionVars, App!Http, App!Free
  <2>4. CASE App!Terminate("http", "launch") /\ child = "exited" /\ UNCHANGED child
    BY <1>1, <2>4 DEF App!LaunchBegin, App!procVars, App!history, App!displayVars,
         App!sessionVars, App!Http, App!Free, App!Terminate, App!Enters, App!InProc,
         App!Goto
  <2> QED BY <2>1, <2>2, <2>3, <2>4, RunningIs DEF App!Thread
<1>2. CASE App!LaunchPrepares
  BY <1>2 DEF App!LaunchPrepares, App!Configure, App!Apply, App!Revert, App!procVars,
     App!history, App!displayVars, App!sessionVars, App!Http, App!Free, App!Goto
<1>3. CASE App!Execute
  BY <1>3 DEF App!Execute, App!Terminate, App!Enters, App!InProc, App!procVars, App!history,
     App!displayVars, App!sessionVars, App!Http, App!Free, App!Goto
<1>4. CASE App!Prepare
  BY <1>4 DEF App!Prepare, App!procVars, App!history, App!displayVars, App!sessionVars,
       App!Http, App!Free, App!Goto
<1>5. CASE App!Do
  BY <1>5 DEF App!Do, App!Terminate, App!Enters, App!InProc, App!procVars, App!history,
     App!displayVars, App!sessionVars, App!Http, App!Free, App!Goto
<1>6. CASE App!Inc
  BY <1>6 DEF App!Inc, App!Done, App!procVars, App!history, App!displayVars,
       App!sessionVars, App!Http, App!Free, App!Goto
<1>7. CASE App!Start
  BY <1>7 DEF App!Start, App!Terminate, App!Enters, App!InProc, App!procVars, App!history,
     App!displayVars, App!sessionVars, App!Http, App!Free, App!Goto
<1>8. CASE App!LaunchFails
  BY <1>8 DEF App!LaunchFails, App!RevertOnFail, App!Revert, App!procVars, App!history,
     App!displayVars, App!sessionVars, App!Http, App!Free, App!Goto
<1>9. CASE App!RaiseLaunch
  BY <1>9 DEF App!RaiseLaunch, App!procVars, App!history, App!displayVars, App!sessionVars,
       App!Http, App!Free, App!Goto
<1>10. CASE App!ResumeBegin
  <2>1. App!Running("http", "resume", "idle")
    BY <1>10 DEF App!ResumeBegin
  <2>2. CASE pc' = [pc EXCEPT !["http"] = "resume"] /\ UNCHANGED <<term, overlapped>>
             /\ child \in {"running", "placebo", "exited"}
             /\ (child' = child \/ (child = "exited" /\ child' = "placebo"))
    BY <1>10, <2>2 DEF App!ResumeBegin, App!procVars, App!history, App!displayVars,
         App!sessionVars, App!Http, App!Free
  <2>3. CASE pc' = [pc EXCEPT !["http"] = "idle"] /\ UNCHANGED <<term, overlapped>>
             /\ child = "none" /\ child' = "none"
    BY <1>10, <2>3 DEF App!ResumeBegin, App!procVars, App!history, App!displayVars,
         App!sessionVars, App!Http, App!Free
  <2>4. CASE App!Terminate("http", "idle") /\ child = "exited" /\ UNCHANGED child
    BY <1>10, <2>4 DEF App!ResumeBegin, App!procVars, App!history, App!displayVars,
         App!sessionVars, App!Http, App!Free, App!Terminate, App!Enters, App!InProc,
         App!Goto
  <2> QED BY <2>1, <2>2, <2>3, <2>4, RunningIs DEF App!Thread
<1>11. CASE App!Resume
  BY <1>11 DEF App!Resume, App!Configure, App!Apply, App!Revert, App!procVars, App!history,
     App!displayVars, App!sessionVars, App!Http, App!Free, App!Goto
<1>12. CASE App!Cancel
  BY <1>12 DEF App!Cancel, App!procVars, App!history, App!displayVars, App!sessionVars,
       App!Http, App!Free, App!Goto
<1>13. CASE App!CancelRuns
  BY <1>13 DEF App!CancelRuns, App!Terminate, App!Enters, App!InProc, App!procVars,
     App!history, App!displayVars, App!sessionVars, App!Http, App!Free, App!Goto
<1>14. CASE App!CancelReverts
  BY <1>14 DEF App!CancelReverts, App!Revert, App!procVars, App!history, App!displayVars,
     App!sessionVars, App!Http, App!Free, App!Goto
<1>15. CASE App!Connect
  BY <1>15 DEF App!Connect, App!procVars, App!history, App!displayVars, App!sessionVars,
       App!Http, App!Free, App!Goto
<1>16. CASE App!Discard
  BY <1>16 DEF App!Discard, App!procVars, App!history, App!displayVars, App!sessionVars,
       App!Http, App!Free, App!Goto
<1>17. CASE App!Leave
  BY <1>17 DEF App!Leave, App!procVars, App!history, App!displayVars, App!sessionVars,
       App!Http, App!Free, App!Goto
<1>18. CASE App!Poll
  <2>1. App!Running("control", "idle", "ended")
    BY <1>18 DEF App!Poll
  <2>2. CASE pc' = [pc EXCEPT !["control"] = "idle"] /\ UNCHANGED <<term, overlapped>>
             /\ child \in {"running", "placebo", "exited"}
             /\ (child' = child \/ (child = "exited" /\ child' = "placebo"))
    BY <1>18, <2>2 DEF App!Poll, App!procVars, App!history, App!displayVars,
         App!sessionVars, App!Http, App!Free
  <2>3. CASE pc' = [pc EXCEPT !["control"] = "ended"] /\ UNCHANGED <<term, overlapped>>
             /\ child = "none" /\ child' = "none"
    BY <1>18, <2>3 DEF App!Poll, App!procVars, App!history, App!displayVars,
         App!sessionVars, App!Http, App!Free
  <2>4. CASE App!Terminate("control", "ended") /\ child = "exited" /\ UNCHANGED child
    BY <1>18, <2>4 DEF App!Poll, App!procVars, App!history, App!displayVars,
         App!sessionVars, App!Http, App!Free, App!Terminate, App!Enters, App!InProc,
         App!Goto
  <2> QED BY <2>1, <2>2, <2>3, <2>4, RunningIs DEF App!Thread
<1>19. CASE App!ControlEnds
  BY <1>19 DEF App!ControlEnds, App!procVars, App!history, App!displayVars, App!sessionVars,
       App!Http, App!Free, App!Goto
<1>20. CASE App!BeginJoin
  BY <1>20 DEF App!BeginJoin, App!procVars, App!history, App!displayVars, App!sessionVars,
       App!Http, App!Free, App!Goto
<1>21. ASSUME NEW t \in {"http", "rtsp"}, App!JoinLast(t) PROVE Undone'
  <2>1. App!Running(t, "idle", "joined")
    BY <1>21 DEF App!JoinLast
  <2>2. CASE pc' = [pc EXCEPT ![t] = "idle"] /\ UNCHANGED <<term, overlapped>>
             /\ child \in {"running", "placebo", "exited"}
             /\ (child' = child \/ (child = "exited" /\ child' = "placebo"))
    BY <1>21, <2>2 DEF App!JoinLast, App!procVars, App!history, App!displayVars,
         App!sessionVars, App!Http, App!Free
  <2>3. CASE pc' = [pc EXCEPT ![t] = "joined"] /\ UNCHANGED <<term, overlapped>>
             /\ child = "none" /\ child' = "none"
    BY <1>21, <2>3 DEF App!JoinLast, App!procVars, App!history, App!displayVars,
         App!sessionVars, App!Http, App!Free
  <2>4. CASE App!Terminate(t, "joined") /\ child = "exited" /\ UNCHANGED child
    <3>1. /\ UNCHANGED <<known, prepIt, effects, child, forgotten>>
          /\ pc[t] = "join" /\ App!Free(t)
      BY <1>21, <2>4 DEF App!JoinLast, App!history
    <3>2. /\ pc' = [pc EXCEPT ![t] = "joined"] /\ term' = [term EXCEPT ![t] = "kill"]
          /\ overlapped => overlapped'
      BY <2>4 DEF App!Terminate, App!Goto, App!Enters
    <3>3. /\ pc'["http"] = "inc" <=> pc["http"] = "inc"
          /\ \A u \in App!Thread : term'[u] = "back" => term[u] = "back"
      BY <3>1, <3>2
    <3> QED BY <3>1, <3>2, <3>3
  <2> QED BY <2>1, <2>2, <2>3, <2>4, RunningIs DEF App!Thread
<1>22. ASSUME NEW t \in {"http", "rtsp"}, App!Joined(t) PROVE Undone'
  BY <1>22 DEF App!Joined, App!RevertWithoutApp, App!Revert, App!procVars, App!history,
     App!displayVars, App!sessionVars, App!Http, App!Free, App!Goto
<1>23. CASE App!CloseApp
  BY <1>23 DEF App!CloseApp, App!Terminate, App!Enters, App!InProc, App!procVars,
     App!history, App!displayVars, App!sessionVars, App!Http, App!Free, App!Goto
<1>24. CASE App!Refresh
  BY <1>24 DEF App!Refresh, App!Enters, App!InProc, App!procVars, App!history,
     App!displayVars, App!sessionVars, App!Http, App!Free, App!Goto
<1>25. CASE App!Exit
  BY <1>25 DEF App!Exit, App!procVars, App!history, App!displayVars, App!sessionVars,
       App!Http, App!Free, App!Goto
<1>26. CASE App!Tick
  BY <1>26 DEF App!Tick, App!Apply, App!procVars, App!history, App!displayVars,
       App!sessionVars, App!Http, App!Free, App!Goto
<1>27. ASSUME NEW t \in App!Thread, App!TerminateStep(t) PROVE Undone'
  BY <1>27 DEF App!TerminateStep, App!Kill, App!Undo, App!Back, App!EndTerminate,
     App!Revert, App!procVars, App!history, App!displayVars, App!sessionVars, App!Http,
     App!Free, App!Goto
<1> QED
  BY <1>1, <1>2, <1>3, <1>4, <1>5, <1>6, <1>7, <1>8, <1>9, <1>10, <1>11, <1>12, <1>13,
     <1>14, <1>15, <1>16, <1>17, <1>18, <1>19, <1>20, <1>21, <1>22, <1>23, <1>24, <1>25,
     <1>26, <1>27 DEF App!Next, App!Step, App!HttpStep, App!SessionStep

\* ... and somebody who gives the display back.
LEMMA KeptStep == ASSUME AppConstants, AppInv, App!Next PROVE Kept'
<1> USE DEF AppConstants, AppInv, App!TypeOK, App!Thread, Alone, Undone, Kept, Keeper,
   Preparing, Executing
<1>1. CASE App!LaunchBegin
  BY <1>1 DEF App!LaunchBegin, App!Running, App!Terminate, App!Enters, App!InProc,
     App!procVars, App!history, App!displayVars, App!sessionVars, App!Http, App!Free,
     App!Goto
<1>2. CASE App!LaunchPrepares
  BY <1>2 DEF App!LaunchPrepares, App!Configure, App!Apply, App!Revert, App!procVars,
     App!history, App!displayVars, App!sessionVars, App!Http, App!Free, App!Goto
<1>3. CASE App!Execute
  BY <1>3 DEF App!Execute, App!Terminate, App!Enters, App!InProc, App!procVars, App!history,
     App!displayVars, App!sessionVars, App!Http, App!Free, App!Goto
<1>4. CASE App!Prepare
  BY <1>4 DEF App!Prepare, App!procVars, App!history, App!displayVars, App!sessionVars,
       App!Http, App!Free, App!Goto
<1>5. CASE App!Do
  BY <1>5 DEF App!Do, App!Terminate, App!Enters, App!InProc, App!procVars, App!history,
     App!displayVars, App!sessionVars, App!Http, App!Free, App!Goto
<1>6. CASE App!Inc
  BY <1>6 DEF App!Inc, App!Done, App!procVars, App!history, App!displayVars,
       App!sessionVars, App!Http, App!Free, App!Goto
<1>7. CASE App!Start
  BY <1>7 DEF App!Start, App!Terminate, App!Enters, App!InProc, App!procVars, App!history,
     App!displayVars, App!sessionVars, App!Http, App!Free, App!Goto
<1>8. CASE App!LaunchFails
  BY <1>8 DEF App!LaunchFails, App!RevertOnFail, App!Revert, App!procVars, App!history,
     App!displayVars, App!sessionVars, App!Http, App!Free, App!Goto
<1>9. CASE App!RaiseLaunch
  BY <1>9 DEF App!RaiseLaunch, App!procVars, App!history, App!displayVars, App!sessionVars,
       App!Http, App!Free, App!Goto
<1>10. CASE App!ResumeBegin
  BY <1>10 DEF App!ResumeBegin, App!Running, App!Terminate, App!Enters, App!InProc,
     App!procVars, App!history, App!displayVars, App!sessionVars, App!Http, App!Free,
     App!Goto
<1>11. CASE App!Resume
  BY <1>11 DEF App!Resume, App!Configure, App!Apply, App!Revert, App!procVars, App!history,
     App!displayVars, App!sessionVars, App!Http, App!Free, App!Goto
<1>12. CASE App!Cancel
  BY <1>12 DEF App!Cancel, App!procVars, App!history, App!displayVars, App!sessionVars,
       App!Http, App!Free, App!Goto
<1>13. CASE App!CancelRuns
  BY <1>13 DEF App!CancelRuns, App!Terminate, App!Enters, App!InProc, App!procVars,
     App!history, App!displayVars, App!sessionVars, App!Http, App!Free, App!Goto
<1>14. CASE App!CancelReverts
  BY <1>14 DEF App!CancelReverts, App!Revert, App!procVars, App!history, App!displayVars,
     App!sessionVars, App!Http, App!Free, App!Goto
<1>15. CASE App!Connect
  BY <1>15 DEF App!Connect, App!procVars, App!history, App!displayVars, App!sessionVars,
       App!Http, App!Free, App!Goto
<1>16. CASE App!Discard
  BY <1>16 DEF App!Discard, App!procVars, App!history, App!displayVars, App!sessionVars,
       App!Http, App!Free, App!Goto
<1>17. CASE App!Leave
  BY <1>17 DEF App!Leave, App!procVars, App!history, App!displayVars, App!sessionVars,
       App!Http, App!Free, App!Goto
<1>18. CASE App!Poll
  BY <1>18 DEF App!Poll, App!Running, App!Terminate, App!Enters, App!InProc, App!procVars,
     App!history, App!displayVars, App!sessionVars, App!Http, App!Free, App!Goto
<1>19. CASE App!ControlEnds
  BY <1>19 DEF App!ControlEnds, App!procVars, App!history, App!displayVars, App!sessionVars,
       App!Http, App!Free, App!Goto
<1>20. CASE App!BeginJoin
  BY <1>20 DEF App!BeginJoin, App!procVars, App!history, App!displayVars, App!sessionVars,
       App!Http, App!Free, App!Goto
<1>21. ASSUME NEW t \in {"http", "rtsp"}, App!JoinLast(t) PROVE Kept'
  BY <1>21 DEF App!JoinLast, App!Running, App!Terminate, App!Enters, App!InProc, App!Revert,
     App!procVars, App!history, App!displayVars, App!sessionVars, App!Http, App!Free,
     App!Goto
<1>22. ASSUME NEW t \in {"http", "rtsp"}, App!Joined(t) PROVE Kept'
  BY <1>22 DEF App!Joined, App!RevertWithoutApp, App!Revert, App!procVars, App!history,
     App!displayVars, App!sessionVars, App!Http, App!Free, App!Goto
<1>23. CASE App!CloseApp
  BY <1>23 DEF App!CloseApp, App!Terminate, App!Enters, App!InProc, App!procVars,
     App!history, App!displayVars, App!sessionVars, App!Http, App!Free, App!Goto
<1>24. CASE App!Refresh
  BY <1>24 DEF App!Refresh, App!Enters, App!InProc, App!procVars, App!history,
     App!displayVars, App!sessionVars, App!Http, App!Free, App!Goto
<1>25. CASE App!Exit
  BY <1>25 DEF App!Exit, App!procVars, App!history, App!displayVars, App!sessionVars,
       App!Http, App!Free, App!Goto
<1>26. CASE App!Tick
  BY <1>26 DEF App!Tick, App!Apply, App!procVars, App!history, App!displayVars,
       App!sessionVars, App!Http, App!Free, App!Goto
<1>27. ASSUME NEW t \in App!Thread, App!TerminateStep(t) PROVE Kept'
  BY <1>27 DEF App!TerminateStep, App!Kill, App!Undo, App!Back, App!EndTerminate,
     App!Revert, App!procVars, App!history, App!displayVars, App!sessionVars, App!Http,
     App!Free, App!Goto
<1> QED
  BY <1>1, <1>2, <1>3, <1>4, <1>5, <1>6, <1>7, <1>8, <1>9, <1>10, <1>11, <1>12, <1>13,
     <1>14, <1>15, <1>16, <1>17, <1>18, <1>19, <1>20, <1>21, <1>22, <1>23, <1>24, <1>25,
     <1>26, <1>27 DEF App!Next, App!Step, App!HttpStep, App!SessionStep

-----------------------------------------------------------------------------
(* The invariant and what follows from it *)

LEMMA AppStarts == AppConstants /\ App!Init => AppInv
  <1> SUFFICES ASSUME AppConstants, App!Init PROVE AppInv
    OBVIOUS
  <1>1. Flags
    BY DEF App!Init, Flags
  <1>2. Places
    BY DEF AppConstants, App!Init, Places, App!Thread, App!PC, App!TermPC, App!Nobody
  <1>3. Returns /\ Alone
    BY DEF App!Init, Returns, Alone, Active, Executing, App!Thread
  <1>4. Undone
    BY DEF App!Init, Undone
  <1>5. Kept
    BY DEF App!Init, Kept
  <1> QED BY <1>1, <1>2, <1>3, <1>4, <1>5, TypeParts DEF AppInv

LEMMA AppIsKept == AppConstants /\ AppInv /\ [App!Next]_(App!vars) => AppInv'
  <1> SUFFICES ASSUME AppConstants, AppInv, [App!Next]_(App!vars) PROVE AppInv'
    OBVIOUS
  <1>1. CASE App!Next
    <2>1. App!TypeOK'
      BY <1>1, FlagsStep, PlacesStep DEF App!TypeOK, Flags, Places
    <2> QED BY <1>1, <2>1, ReturnsStep, AloneStep, UndoneStep, KeptStep DEF AppInv
  <1>2. CASE UNCHANGED App!vars
    BY <1>2 DEF AppInv, App!TypeOK, Returns, Alone, Undone, Kept, Active, Executing,
       Preparing, Keeper, App!Free, App!vars, App!procVars, App!history, App!displayVars,
       App!sessionVars
  <1> QED BY <1>1, <1>2

LEMMA AppInvHolds == AppConstants => (App!Spec => []AppInv)
  <1> SUFFICES ASSUME AppConstants PROVE App!Spec => []AppInv
    OBVIOUS
  <1>1. App!Init => AppInv
    BY AppStarts
  <1>2. AppInv /\ [App!Next]_(App!vars) => AppInv'
    BY AppIsKept
  <1> QED BY <1>1, <1>2, PTL DEF App!Spec

LEMMA AppInvSuffices ==
  AppConstants /\ AppInv =>
    App!TypeOK /\ App!DisplayHasKeeper /\ App!PrepIsUndone /\ App!IteratorStays
  <1> SUFFICES ASSUME AppConstants, AppInv
               PROVE  App!TypeOK /\ App!DisplayHasKeeper /\ App!PrepIsUndone /\ App!IteratorStays
    OBVIOUS
  <1>1. App!DisplayHasKeeper
    BY DEF AppInv, App!DisplayHasKeeper, Kept, Keeper, Preparing, App!Quiet, App!Thread,
         Executing
  <1>2. App!PrepIsUndone
    <2> SUFFICES ASSUME App!Quiet, ~known, ~overlapped, ~forgotten
                 PROVE  \A i \in 1..Prep : ~effects[i]
      BY DEF App!PrepIsUndone
    <2>1. pc["http"] = "idle" /\ prepIt = 0
      BY DEF AppInv, Undone, App!Quiet, App!Thread
    <2> QED BY <2>1 DEF AppInv, Undone, App!TypeOK
  <1>3. App!IteratorStays
    BY DEF AppInv, App!IteratorStays, Alone
  <1> QED BY <1>1, <1>2, <1>3 DEF AppInv

-----------------------------------------------------------------------------
(* The setting of the driver: NvPrefs, for any values of the user and any bounds *)

\* The values of the user are none of the host's own marks.
DriverConstants == DriverValue \cap {"on", "unset", "nofile", "torn", "noundo"} = {}

\* Which undo file the process holds where.
Held ==
  /\ nvPc \in {"off", "restore", "restoreDelete"} => handle = "none"
  /\ nvPc \in {"fill", "save"} => handle = "open"
  /\ nvPc \in {"write", "exit", "exitAgain", "delete", "deleteAgain"} => handle # "none"

\* The driver has the value of the user, or the host's own one; then the undo
\* file has the value of the user.
Truth ==
  /\ nvSaved \in {"on", user}
  /\ nvSaved = "on" => nvFile = user \/ (gaveUp /\ nvFile \in {"nofile", "torn"})

\* What the session of driver_settings holds.
InSession ==
  /\ nvPc \in {"restore", "exit", "exitAgain", "delete", "deleteAgain"} => loaded = nvSaved
  /\ nvPc \in {"restoreDelete", "modify"} =>
       loaded \in {"on", user} /\ (nvSaved # "on" => loaded = nvSaved)
  /\ nvPc = "modify" /\ handle # "none" => loaded = nvSaved
  /\ nvPc \in {"create", "write", "fill", "save"} => loaded = "on" /\ newUndo = user
  /\ nvPc \in {"delete", "deleteAgain"} => nvSaved = user

\* What the undo file and undo_data hold: as long as the driver has the host's
\* value, a file that is held is not written again.
UndoData ==
  /\ nvSaved = "on" /\ nvPc \in {"restoreDelete", "create", "write", "fill", "save"} => gaveUp
  /\ nvSaved = "on" /\ nvPc = "modify" /\ handle = "none" => gaveUp
  /\ nvPc \in {"create", "write"} /\ handle = "closed" => nvSaved # "on"
  /\ nvPc \in {"fill", "save"} => undoData = user
  /\ nvPc = "save" => nvFile = user
  /\ handle = "open" /\ nvPc \notin {"write", "fill"} =>
       nvFile \in DriverValue \union {"unset"} /\ nvFile = undoData
  /\ nvSaved = "on" /\ handle # "none" /\ nvPc \notin {"create", "write"} => undoData = user

\* A process that met no failure.
Clean ==
  nvCrashes = 0 /\ fails = 0 =>
    /\ ~gaveUp /\ handle # "closed" /\ (handle = "none" => nvSaved = user /\ nvFile = "nofile")
    /\ nvPc \notin {"exitAgain", "deleteAgain"} /\ (nvPc = "done" => handle = "none")

Counted == nvCrashes \in Nat /\ fails \in Nat

DriverInv == Driver!TypeOK /\ Counted /\ Held /\ Truth /\ InSession /\ UndoData /\ Clean

LEMMA StartKeeps == ASSUME DriverConstants, DriverInv, Driver!Start PROVE DriverInv'
<1>1. Driver!TypeOK'
  BY DEF DriverInv, Driver!TypeOK, Driver!Theirs, Driver!Start
<1>2. Counted'
  BY DEF DriverInv, Counted, Driver!Works, Driver!Fails, Driver!Start
<1>3. Held'
  BY DEF DriverInv, Held, Driver!Start
<1>4. Truth'
  BY DEF DriverInv, Truth, InSession, UndoData, Driver!Start
<1>5. InSession'
  BY DEF DriverInv, InSession, Truth, Held, Driver!Start
<1>6. UndoData'
  BY DEF DriverInv, UndoData, InSession, Truth, Held, Driver!Start
<1>7. Clean'
  BY DEF DriverInv, Clean, Counted, Held, Truth, InSession, Driver!Works, Driver!Fails,
     Driver!Start
<1> QED BY <1>1, <1>2, <1>3, <1>4, <1>5, <1>6, <1>7 DEF DriverInv

LEMMA StreamKeeps == ASSUME DriverConstants, DriverInv, Driver!Stream PROVE DriverInv'
<1>1. Driver!TypeOK'
  BY DEF DriverInv, Driver!TypeOK, Driver!Theirs, Driver!Stream
<1>2. Counted'
  BY DEF DriverInv, Counted, Driver!Works, Driver!Fails, Driver!Stream
<1>3. Held'
  BY DEF DriverInv, Held, Driver!Stream
<1>4. Truth'
  BY DEF DriverInv, Truth, InSession, UndoData, Driver!Stream
<1>5. InSession'
  BY DEF DriverInv, InSession, Truth, Held, Driver!Stream
<1>6. UndoData'
  BY DEF DriverInv, UndoData, InSession, Truth, Held, Driver!Stream
<1>7. Clean'
  BY DEF DriverInv, Clean, Counted, Held, Truth, InSession, Driver!Works, Driver!Fails,
     Driver!Stream
<1> QED BY <1>1, <1>2, <1>3, <1>4, <1>5, <1>6, <1>7 DEF DriverInv

LEMMA CrashKeeps == ASSUME DriverConstants, DriverInv, Driver!Crash PROVE DriverInv'
<1>1. Driver!TypeOK'
  BY DEF DriverInv, Driver!TypeOK, Driver!Theirs, Driver!Crash
<1>2. Counted'
  BY DEF DriverInv, Counted, Driver!Works, Driver!Fails, Driver!Crash
<1>3. Held'
  BY DEF DriverInv, Held, Driver!Crash
<1>4. Truth'
  BY DEF DriverInv, Truth, InSession, UndoData, Driver!Crash
<1>5. InSession'
  BY DEF DriverInv, InSession, Truth, Held, Driver!Crash
<1>6. UndoData'
  BY DEF DriverInv, UndoData, InSession, Truth, Held, Driver!Crash
<1>7. Clean'
  BY DEF DriverInv, Clean, Counted, Held, Truth, InSession, Driver!Works, Driver!Fails,
     Driver!Crash
<1> QED BY <1>1, <1>2, <1>3, <1>4, <1>5, <1>6, <1>7 DEF DriverInv

LEMMA EditKeeps == ASSUME DriverConstants, DriverInv, Driver!Edit PROVE DriverInv'
<1>1. Driver!TypeOK'
  BY DEF DriverInv, Driver!TypeOK, Driver!Theirs, Driver!Edit
<1>2. Counted'
  BY DEF DriverInv, Counted, Driver!Works, Driver!Fails, Driver!Edit
<1>3. Held'
  BY DEF DriverInv, Held, Driver!Edit
<1>4. Truth'
  BY DEF DriverConstants, DriverInv, Driver!TypeOK, Driver!Theirs, Held, Truth,
     InSession, UndoData, Driver!Edit
<1>5. InSession'
  BY DEF DriverInv, InSession, Truth, Held, Driver!Edit
<1>6. UndoData'
  BY DEF DriverConstants, DriverInv, Driver!TypeOK, Driver!Theirs, Held, Truth,
     InSession, UndoData, Driver!Edit
<1>7. Clean'
  BY DEF DriverInv, Clean, Counted, Held, Truth, InSession, Driver!Works, Driver!Fails,
     Driver!Edit
<1> QED BY <1>1, <1>2, <1>3, <1>4, <1>5, <1>6, <1>7 DEF DriverInv

LEMMA RestoreFromFileKeeps == ASSUME DriverConstants, DriverInv, Driver!RestoreFromFile
  PROVE DriverInv'
<1>1. Driver!TypeOK'
  BY DEF DriverInv, Driver!TypeOK, Driver!Theirs, Driver!RestoreFromFile, Driver!GoBack
<1>2. Counted'
  BY DEF DriverInv, Counted, Driver!Works, Driver!Fails, Driver!RestoreFromFile,
     Driver!GoBack
<1>3. Held'
  BY DEF DriverInv, Held, Driver!RestoreFromFile, Driver!GoBack
<1>4. Truth'
  BY DEF DriverConstants, DriverInv, Driver!TypeOK, Driver!Theirs, Held, Truth,
     InSession, UndoData, Driver!RestoreFromFile, Driver!GoBack
<1>5. InSession'
  BY DEF DriverInv, InSession, Truth, Held, Driver!RestoreFromFile, Driver!GoBack
<1>6. UndoData'
  <2>1. handle' = "none" /\ nvPc' = "restoreDelete" /\ loaded = nvSaved
        /\ (nvSaved = "on" => nvFile = user \/ gaveUp)
    BY DEF DriverInv, Held, InSession, Truth, Driver!RestoreFromFile
  <2>2. "on" \notin DriverValue \union {"unset"} /\ "torn" \notin DriverValue \union {"unset"}
        /\ user \in DriverValue \union {"unset"}
        /\ (nvFile \notin {"nofile", "torn"} => nvFile \in DriverValue \union {"unset"})
    BY DEF DriverConstants, DriverInv, Driver!TypeOK, Driver!Theirs
  <2>3. nvSaved' = "on" => gaveUp'
    <3>1. \/ nvSaved' = nvSaved /\ (nvSaved = "on" => gaveUp')
          \/ nvSaved' = loaded' /\ gaveUp' = gaveUp
      BY Zenon DEF Driver!RestoreFromFile, Driver!Works
    <3>2. loaded' = IF nvFile = "torn" THEN loaded ELSE IF loaded = "on" THEN nvFile ELSE loaded
      BY DEF Driver!RestoreFromFile, Driver!GoBack
    <3>3. nvFile # "nofile"
      BY DEF Driver!RestoreFromFile
    <3> QED BY <2>1, <2>2, <3>1, <3>2, <3>3
  <2> QED BY <2>1, <2>3 DEF UndoData
<1>7. Clean'
  BY DEF DriverInv, Clean, Counted, Held, Truth, InSession, Driver!Works, Driver!Fails,
     Driver!RestoreFromFile, Driver!GoBack
<1> QED BY <1>1, <1>2, <1>3, <1>4, <1>5, <1>6, <1>7 DEF DriverInv

LEMMA DeleteOldKeeps == ASSUME DriverConstants, DriverInv, Driver!DeleteOld PROVE DriverInv'
<1>1. Driver!TypeOK'
  BY DEF DriverInv, Driver!TypeOK, Driver!Theirs, Driver!DeleteOld
<1>2. Counted'
  BY DEF DriverInv, Counted, Driver!Works, Driver!Fails, Driver!DeleteOld
<1>3. Held'
  BY DEF DriverInv, Held, Driver!DeleteOld
<1>4. Truth'
  BY DEF DriverInv, Truth, InSession, UndoData, Driver!DeleteOld
<1>5. InSession'
  BY DEF DriverInv, InSession, Truth, Held, Driver!DeleteOld
<1>6. UndoData'
  BY DEF DriverInv, UndoData, InSession, Truth, Held, Driver!DeleteOld
<1>7. Clean'
  BY DEF DriverInv, Clean, Counted, Held, Truth, InSession, Driver!Works, Driver!Fails,
     Driver!DeleteOld
<1> QED BY <1>1, <1>2, <1>3, <1>4, <1>5, <1>6, <1>7 DEF DriverInv

LEMMA NothingToRestoreKeeps == ASSUME DriverConstants, DriverInv, Driver!NothingToRestore
  PROVE DriverInv'
<1>1. Driver!TypeOK'
  BY DEF DriverInv, Driver!TypeOK, Driver!Theirs, Driver!NothingToRestore
<1>2. Counted'
  BY DEF DriverInv, Counted, Driver!Works, Driver!Fails, Driver!NothingToRestore
<1>3. Held'
  BY DEF DriverInv, Held, Driver!NothingToRestore
<1>4. Truth'
  BY DEF DriverInv, Truth, InSession, UndoData, Driver!NothingToRestore
<1>5. InSession'
  BY DEF DriverInv, InSession, Truth, Held, Driver!NothingToRestore
<1>6. UndoData'
  BY DEF DriverConstants, DriverInv, Driver!TypeOK, Driver!Theirs, Held, Truth,
     InSession, UndoData, Driver!NothingToRestore
<1>7. Clean'
  BY DEF DriverInv, Clean, Counted, Held, Truth, InSession, Driver!Works, Driver!Fails,
     Driver!NothingToRestore
<1> QED BY <1>1, <1>2, <1>3, <1>4, <1>5, <1>6, <1>7 DEF DriverInv

LEMMA CheckAndModifyKeeps == ASSUME DriverConstants, DriverInv, Driver!CheckAndModify
  PROVE DriverInv'
<1>1. Driver!TypeOK'
  BY DEF DriverInv, Driver!TypeOK, Driver!Theirs, Driver!CheckAndModify
<1>2. Counted'
  BY DEF DriverInv, Counted, Driver!Works, Driver!Fails, Driver!CheckAndModify
<1>3. Held'
  BY DEF DriverInv, Held, Driver!CheckAndModify
<1>4. Truth'
  BY DEF DriverInv, Truth, InSession, UndoData, Driver!CheckAndModify
<1>5. InSession'
  BY DEF DriverInv, InSession, Truth, Held, Driver!CheckAndModify
<1>6. UndoData'
  BY DEF DriverInv, UndoData, InSession, Truth, Held, Driver!CheckAndModify
<1>7. Clean'
  BY DEF DriverInv, Clean, Counted, Held, Truth, InSession, Driver!Works, Driver!Fails,
     Driver!CheckAndModify
<1> QED BY <1>1, <1>2, <1>3, <1>4, <1>5, <1>6, <1>7 DEF DriverInv

LEMMA CreateUndoKeeps == ASSUME DriverConstants, DriverInv, Driver!CreateUndo PROVE DriverInv'
<1>1. Driver!TypeOK'
  BY DEF DriverInv, Driver!TypeOK, Driver!Theirs, Driver!CreateUndo
<1>2. Counted'
  BY DEF DriverInv, Counted, Driver!Works, Driver!Fails, Driver!CreateUndo
<1>3. Held'
  BY DEF DriverInv, Held, Driver!CreateUndo
<1>4. Truth'
  BY DEF DriverInv, Truth, InSession, UndoData, Driver!CreateUndo
<1>5. InSession'
  BY DEF DriverInv, InSession, Truth, Held, Driver!CreateUndo
<1>6. UndoData'
  BY DEF DriverInv, UndoData, InSession, Truth, Held, Driver!CreateUndo
<1>7. Clean'
  BY DEF DriverInv, Clean, Counted, Held, Truth, InSession, Driver!Works, Driver!Fails,
     Driver!CreateUndo
<1> QED BY <1>1, <1>2, <1>3, <1>4, <1>5, <1>6, <1>7 DEF DriverInv

LEMMA TruncateKeeps == ASSUME DriverConstants, DriverInv, Driver!Truncate PROVE DriverInv'
<1>1. Driver!TypeOK'
  BY DEF DriverInv, Driver!TypeOK, Driver!Theirs, Driver!Truncate
<1>2. Counted'
  BY DEF DriverInv, Counted, Driver!Works, Driver!Fails, Driver!Truncate
<1>3. Held'
  BY DEF DriverInv, Held, Driver!Truncate
<1>4. Truth'
  BY DEF DriverInv, Truth, InSession, UndoData, Driver!Truncate
<1>5. InSession'
  BY DEF DriverInv, InSession, Truth, Held, Driver!Truncate
<1>6. UndoData'
  BY DEF DriverInv, UndoData, InSession, Truth, Held, Driver!Truncate
<1>7. Clean'
  BY DEF DriverInv, Clean, Counted, Held, Truth, InSession, Driver!Works, Driver!Fails,
     Driver!Truncate
<1> QED BY <1>1, <1>2, <1>3, <1>4, <1>5, <1>6, <1>7 DEF DriverInv

LEMMA FillKeeps == ASSUME DriverConstants, DriverInv, Driver!Fill PROVE DriverInv'
<1>1. Driver!TypeOK'
  BY DEF DriverConstants, DriverInv, Driver!TypeOK, Driver!Theirs, Held, Truth,
     InSession, UndoData, Driver!Fill
<1>2. Counted'
  BY DEF DriverInv, Counted, Driver!Works, Driver!Fails, Driver!Fill
<1>3. Held'
  BY DEF DriverInv, Held, Driver!Fill
<1>4. Truth'
  BY DEF DriverInv, Truth, InSession, UndoData, Driver!Fill
<1>5. InSession'
  BY DEF DriverInv, InSession, Truth, Held, Driver!Fill
<1>6. UndoData'
  BY DEF DriverConstants, DriverInv, Driver!TypeOK, Driver!Theirs, Held, Truth,
     InSession, UndoData, Driver!Fill
<1>7. Clean'
  BY DEF DriverInv, Clean, Counted, Held, Truth, InSession, Driver!Works, Driver!Fails,
     Driver!Fill
<1> QED BY <1>1, <1>2, <1>3, <1>4, <1>5, <1>6, <1>7 DEF DriverInv

LEMMA SaveKeeps == ASSUME DriverConstants, DriverInv, Driver!Save PROVE DriverInv'
<1>1. Driver!TypeOK'
  BY DEF DriverInv, Driver!TypeOK, Driver!Theirs, Driver!Save
<1>2. Counted'
  BY DEF DriverInv, Counted, Driver!Works, Driver!Fails, Driver!Save
<1>3. Held'
  BY DEF DriverInv, Held, Driver!Save
<1>4. Truth'
  BY DEF DriverInv, Truth, InSession, UndoData, Driver!Save
<1>5. InSession'
  BY DEF DriverInv, InSession, Truth, Held, Driver!Save
<1>6. UndoData'
  BY DEF DriverInv, UndoData, InSession, Truth, Held, Driver!Save
<1>7. Clean'
  BY DEF DriverInv, Clean, Counted, Held, Truth, InSession, Driver!Works, Driver!Fails,
     Driver!Save
<1> QED BY <1>1, <1>2, <1>3, <1>4, <1>5, <1>6, <1>7 DEF DriverInv

LEMMA ExitKeeps == ASSUME DriverConstants, DriverInv, Driver!Exit PROVE DriverInv'
<1>1. Driver!TypeOK'
  BY DEF DriverInv, Driver!TypeOK, Driver!Theirs, Driver!Exit
<1>2. Counted'
  BY DEF DriverInv, Counted, Driver!Works, Driver!Fails, Driver!Exit
<1>3. Held'
  BY DEF DriverInv, Held, Driver!Exit
<1>4. Truth'
  BY DEF DriverInv, Truth, InSession, UndoData, Driver!Exit
<1>5. InSession'
  BY DEF DriverInv, InSession, Truth, Held, Driver!Exit
<1>6. UndoData'
  BY DEF DriverInv, UndoData, InSession, Truth, Held, Driver!Exit
<1>7. Clean'
  BY DEF DriverInv, Clean, Counted, Held, Truth, InSession, Driver!Works, Driver!Fails,
     Driver!Exit
<1> QED BY <1>1, <1>2, <1>3, <1>4, <1>5, <1>6, <1>7 DEF DriverInv

LEMMA RestoreAtExitKeeps == ASSUME DriverConstants, DriverInv, Driver!RestoreAtExit PROVE DriverInv'
<1>1. Driver!TypeOK'
  BY DEF DriverConstants, DriverInv, Driver!TypeOK, Driver!Theirs, Held, Truth,
     InSession, UndoData, Driver!RestoreAtExit, Driver!GoBack, Driver!NextTry
<1>2. Counted'
  BY DEF DriverInv, Counted, Driver!Works, Driver!Fails, Driver!RestoreAtExit,
     Driver!GoBack, Driver!NextTry
<1>3. Held'
  BY DEF DriverInv, Held, Driver!RestoreAtExit, Driver!GoBack, Driver!NextTry
<1>4. Truth'
  BY DEF DriverConstants, DriverInv, Driver!TypeOK, Driver!Theirs, Held, Truth,
     InSession, UndoData, Driver!RestoreAtExit, Driver!GoBack, Driver!NextTry
<1>5. InSession'
  BY DEF DriverConstants, DriverInv, Driver!TypeOK, Driver!Theirs, Held, Truth,
     InSession, UndoData, Driver!RestoreAtExit, Driver!GoBack, Driver!NextTry
<1>6. UndoData'
  BY DEF DriverInv, UndoData, InSession, Truth, Held, Driver!RestoreAtExit,
     Driver!GoBack, Driver!NextTry
<1>7. Clean'
  BY DEF DriverInv, Clean, Counted, Held, Truth, InSession, Driver!Works, Driver!Fails,
     Driver!RestoreAtExit, Driver!GoBack, Driver!NextTry
<1> QED BY <1>1, <1>2, <1>3, <1>4, <1>5, <1>6, <1>7 DEF DriverInv

LEMMA DeleteAtExitKeeps == ASSUME DriverConstants, DriverInv, Driver!DeleteAtExit PROVE DriverInv'
<1>1. Driver!TypeOK'
  BY DEF DriverInv, Driver!TypeOK, Driver!Theirs, Driver!DeleteAtExit
<1>2. Counted'
  BY DEF DriverInv, Counted, Driver!Works, Driver!Fails, Driver!DeleteAtExit
<1>3. Held'
  BY DEF DriverInv, Held, Driver!DeleteAtExit
<1>4. Truth'
  BY DEF DriverConstants, DriverInv, Driver!TypeOK, Driver!Theirs, Held, Truth,
     InSession, UndoData, Driver!DeleteAtExit
<1>5. InSession'
  BY DEF DriverInv, InSession, Truth, Held, Driver!DeleteAtExit
<1>6. UndoData'
  BY DEF DriverInv, UndoData, InSession, Truth, Held, Driver!DeleteAtExit
<1>7. Clean'
  BY DEF DriverConstants, DriverInv, Driver!TypeOK, Driver!Theirs, Held, Truth,
     InSession, UndoData, Counted, Clean, Driver!Works, Driver!Fails,
     Driver!DeleteAtExit
<1> QED BY <1>1, <1>2, <1>3, <1>4, <1>5, <1>6, <1>7 DEF DriverInv

LEMMA TerminateKeeps == ASSUME DriverConstants, DriverInv, Driver!Terminate PROVE DriverInv'
<1>1. Driver!TypeOK'
  BY DEF DriverInv, Driver!TypeOK, Driver!Theirs, Driver!Terminate
<1>2. Counted'
  BY DEF DriverInv, Counted, Driver!Works, Driver!Fails, Driver!Terminate
<1>3. Held'
  BY DEF DriverInv, Held, Driver!Terminate
<1>4. Truth'
  BY DEF DriverInv, Truth, InSession, UndoData, Driver!Terminate
<1>5. InSession'
  BY DEF DriverInv, InSession, Truth, Held, Driver!Terminate
<1>6. UndoData'
  BY DEF DriverInv, UndoData, InSession, Truth, Held, Driver!Terminate
<1>7. Clean'
  BY DEF DriverInv, Clean, Counted, Held, Truth, InSession, Driver!Works, Driver!Fails,
     Driver!Terminate
<1> QED BY <1>1, <1>2, <1>3, <1>4, <1>5, <1>6, <1>7 DEF DriverInv

LEMMA DriverStarts == DriverConstants /\ Driver!Init => DriverInv
<1> SUFFICES ASSUME DriverConstants, Driver!Init PROVE DriverInv
  OBVIOUS
<1>1. Driver!TypeOK /\ Counted
  BY DEF Driver!Init, Driver!TypeOK, Counted, Driver!Theirs
<1>2. user \in DriverValue \union {"unset"} /\ nvSaved = user
  BY DEF Driver!Init, Driver!Theirs
<1>3. Held /\ InSession /\ Clean
  BY DEF Driver!Init, Held, InSession, Clean
<1>4. Truth /\ UndoData
  BY <1>2 DEF DriverConstants, Driver!Init, Truth, UndoData
<1> QED BY <1>1, <1>3, <1>4 DEF DriverInv

LEMMA DriverIsKept == DriverConstants /\ DriverInv /\ [Driver!Next]_(Driver!nvVars) => DriverInv'
<1> SUFFICES ASSUME DriverConstants, DriverInv, [Driver!Next]_(Driver!nvVars) PROVE DriverInv'
  OBVIOUS
<1>1. CASE Driver!Next
  BY <1>1, StartKeeps, StreamKeeps, CrashKeeps, EditKeeps, RestoreFromFileKeeps,
     DeleteOldKeeps, NothingToRestoreKeeps, CheckAndModifyKeeps, CreateUndoKeeps,
     TruncateKeeps, FillKeeps, SaveKeeps, ExitKeeps, RestoreAtExitKeeps,
     DeleteAtExitKeeps, TerminateKeeps DEF Driver!Next
<1>2. CASE UNCHANGED Driver!nvVars
  BY <1>2 DEF Driver!nvVars, DriverInv, Driver!TypeOK, Driver!Theirs, Counted, Held,
     Truth, InSession,
       UndoData, Clean
<1> QED BY <1>1, <1>2

LEMMA DriverInvHolds == DriverConstants => (Driver!Spec => []DriverInv)
  <1> SUFFICES ASSUME DriverConstants PROVE Driver!Spec => []DriverInv
    OBVIOUS
  <1>1. Driver!Init => DriverInv
    BY DriverStarts
  <1>2. DriverInv /\ [Driver!Next]_(Driver!nvVars) => DriverInv'
    BY DriverIsKept
  <1> QED BY <1>1, <1>2, PTL DEF Driver!Spec

LEMMA DriverInvSuffices ==
  DriverConstants /\ DriverInv =>
    Driver!TypeOK /\ Driver!UserIsRemembered /\ Driver!NothingElse /\ Driver!CleanExit
<1> SUFFICES ASSUME DriverConstants, DriverInv
             PROVE  Driver!TypeOK /\ Driver!UserIsRemembered /\ Driver!NothingElse
                        /\ Driver!CleanExit
  OBVIOUS
<1>1. Driver!UserIsRemembered /\ Driver!NothingElse
  BY DEF DriverInv, Truth, Driver!UserIsRemembered, Driver!NothingElse
<1>2. Driver!CleanExit
  BY DEF DriverInv, Held, Clean, Driver!CleanExit
<1> QED BY <1>1, <1>2 DEF DriverInv

-----------------------------------------------------------------------------
(* ConfigServer, for any tabs, users and bounds *)


\* The tabs, the users and the bounds.
WebConstants == /\ Foreign \subseteq Tab /\ NoCred \notin Cred
                /\ MaxToken \in Nat /\ MaxKill \in Nat /\ MaxRemove \in Nat

Bounds == tokensCrashes \in 0..MaxKill /\ removed \in 0..MaxRemove

\* Where the servers are with the state file: only a host that serves writes.
Writers ==
  \A s \in Web!Server : /\ writer[s].pc = "idle" => writer[s] = Web!Idle
                        /\ writer[s] # Web!Idle => tokensUp = "serving"

\* What is in the file and in memory, as long as nothing excuses it: a server
\* that writes has the part of the other in its tree.
Shared ==
  ~tokensExcused =>
    /\ writer["config"] = Web!Idle \/ writer["game"] = Web!Idle
    /\ writer["config"] = Web!Idle /\ writer["game"] = Web!Idle =>
         /\ tokensFile # Web!Torn /\ tokensFile.cred = promised
         /\ tokensUp = "serving" => tokensFile.paired = paired
    /\ tokensUp = "serving" => cred = promised
    /\ writer["config"] # Web!Idle =>
         writer["config"].tree.paired = paired /\ writer["config"].tree.cred # NoCred
    /\ writer["game"] # Web!Idle => writer["game"].tree = [cred |-> promised, paired |-> paired]
    /\ \A s \in Web!Server : writer[s].pc = "done" => tokensFile = writer[s].tree

\* How far the host is with its key and certificate.
KeyPair ==
  /\ tokensUp = "between" => key = Web!Generation
  /\ tokensUp = "certificate" => key = Web!Generation /\ cert = Web!Damaged
  /\ removed = 0 =>
       /\ tokensUp \in {"keys", "between"} => cert = Web!Absent
       /\ tokensUp = "off" => \/ cert = Web!Absent
                              \/ key # Web!Absent /\ cert \in {Web!Damaged, key}
  /\ tokensCrashes = 0 /\ tokensUp = "off" => key = Web!Absent \/ cert = Web!Absent \/ key = cert
  /\ Web!KeyIsOfCertificate

\* No two users have the same token.
TokenOfOne ==
  /\ token[NoCred] = Web!NoToken
  /\ \A c \in Cred : token[c].n <= issued
  /\ \A c, d \in Cred : c # d /\ token[c].n # 0 => token[c].n # token[d].n

\* A client that was put out has nothing, unless it had launched.
Client == ~enabled /\ tokensSession # "none" => slipped

WebInv == Web!TypeOK /\ Bounds /\ Writers /\ Shared /\ KeyPair /\ TokenOfOne /\ Client

-----------------------------------------------------------------------------
\* What the parts of a step do to the file and to the writers.
LEMMA ContentIsNotTorn == \A x \in Web!Content : x # Web!Torn
<1> SUFFICES ASSUME NEW x \in Web!Content PROVE x # Web!Torn
  OBVIOUS
<1>1. "torn" \notin DOMAIN x
  BY DEF Web!Content
<1>2. "torn" \in DOMAIN Web!Torn
  BY DEF Web!Torn
<1> QED BY <1>1, <1>2

\* The other server's part stays in a tree.
LEMMA TreeKeeps ==
  ASSUME Web!TypeOK, tokensFile # Web!Torn
  PROVE  /\ \A on \in BOOLEAN : [tokensFile EXCEPT !.paired = on]
                                  = [cred |-> tokensFile.cred, paired |-> on]
         /\ \A c \in Cred : [tokensFile EXCEPT !.cred = c]
                              = [cred |-> c, paired |-> tokensFile.paired]
         /\ tokensFile \in Web!Content
<1>1. tokensFile \in Web!Content
  BY DEF Web!TypeOK
<1> QED BY <1>1 DEF Web!Content

LEMMA BeginDoes ==
  ASSUME Web!TypeOK, NEW s \in Web!Server, NEW tree \in Web!Content, Web!Begin(s, tree)
  PROVE  /\ writer'[s] = [pc |-> "write", tree |-> tree] /\ writer'[s].pc = "write"
         /\ \A r \in Web!Server \ {s} : writer'[r] = writer[r]
         /\ ~tokensExcused' => ~tokensExcused /\ \A r \in Web!Server : writer[r] = Web!Idle
  BY DEF Web!TypeOK, Web!Begin

\* A server goes on, with the tree it has.
LEMMA GoesOn ==
  ASSUME Web!TypeOK, NEW s \in Web!Server, NEW p, writer' = [writer EXCEPT ![s].pc = p]
  PROVE  /\ writer'[s] = [pc |-> p, tree |-> writer[s].tree] /\ writer'[s].pc = p
         /\ \A r \in Web!Server \ {s} : writer'[r] = writer[r]
<1>1. writer[s] \in [pc : {"idle", "write", "fill", "done"}, tree : Web!Content]
  BY DEF Web!TypeOK
<1>2. writer'[s] = [writer[s] EXCEPT !.pc = p] /\ \A r \in Web!Server \ {s} : writer'[r] = writer[r]
  BY DEF Web!TypeOK
<1> QED BY <1>1, <1>2

\* The game server saves its clients, or cannot read the file.
LEMMA SaveStateDoes ==
  ASSUME Web!TypeOK, NEW on \in BOOLEAN, Web!SaveState(on)
  PROVE  /\ paired' = on
         /\ \/ tokensFile = Web!Torn /\ tokensExcused' /\ writer' = writer
            \/ /\ tokensFile # Web!Torn
               /\ writer'["game"] = [pc |-> "write",
                       tree |-> [cred |-> tokensFile.cred, paired |-> on]]
               /\ writer'["game"].pc = "write"
               /\ writer'["config"] = writer["config"]
               /\ ~tokensExcused' => ~tokensExcused /\ \A r \in Web!Server : writer[r] = Web!Idle
<1>1. CASE tokensFile = Web!Torn
  BY <1>1 DEF Web!SaveState
<1>2. CASE tokensFile # Web!Torn
  <2>1. Web!Begin("game", [cred |-> tokensFile.cred, paired |-> on]) /\ paired' = on
    BY <1>2, TreeKeeps DEF Web!SaveState
  <2>2. [cred |-> tokensFile.cred, paired |-> on] \in Web!Content
    BY <1>2, TreeKeeps DEF Web!Content
  <2>3. "game" \in Web!Server /\ "config" \in Web!Server \ {"game"}
    BY DEF Web!Server
  <2> QED BY <1>2, <2>1, <2>2, <2>3, BeginDoes
<1> QED BY <1>1, <1>2

\* The configuration server writes new credentials, or cannot read the file.
LEMMA SavePasswordDoes ==
  ASSUME Web!TypeOK, NEW t \in Tab, NEW new \in Cred, Web!SavePassword(t, new)
  PROVE  /\ writer["config"] = Web!Idle /\ tokensUp = "serving"
         /\ UNCHANGED <<tokensUp, cred, paired, tokensFile>>
         /\ \/ tokensFile = Web!Torn /\ tokensExcused' /\ writer' = writer
            \/ /\ tokensFile # Web!Torn /\ promised' = promised
               /\ writer'["config"] = [pc |-> "write",
                       tree |-> [cred |-> new, paired |-> tokensFile.paired]]
               /\ writer'["config"].pc = "write"
               /\ writer'["game"] = writer["game"]
               /\ ~tokensExcused' => ~tokensExcused /\ \A r \in Web!Server : writer[r] = Web!Idle
<1>1. writer["config"] = Web!Idle /\ tokensUp = "serving"
        /\ UNCHANGED <<tokensUp, cred, paired, tokensFile>>
  BY DEF Web!SavePassword, Web!Accept, Web!Serves
<1>2. CASE tokensFile = Web!Torn
  BY <1>1, <1>2 DEF Web!SavePassword
<1>3. CASE tokensFile # Web!Torn
  <2>1. Web!Begin("config", [cred |-> new, paired |-> tokensFile.paired]) /\ promised' = promised
    BY <1>3, TreeKeeps DEF Web!SavePassword
  <2>2. [cred |-> new, paired |-> tokensFile.paired] \in Web!Content
    BY <1>3, TreeKeeps DEF Web!Content
  <2>3. "config" \in Web!Server /\ "game" \in Web!Server \ {"config"}
    BY DEF Web!Server
  <2> QED BY <1>1, <1>3, <2>1, <2>2, <2>3, BeginDoes
<1> QED BY <1>2, <1>3

\* A token that is forgotten is nobody's.
LEMMA Forgotten ==
  ASSUME WebConstants, WebInv, UNCHANGED issued,
         \A c \in Cred \union {NoCred} : token'[c] \in {token[c], Web!NoToken}
  PROVE  TokenOfOne'
<1>1. token'[NoCred] = Web!NoToken
  BY DEF WebInv, TokenOfOne
<1>2. \A c \in Cred : token'[c].n = token[c].n \/ token'[c].n = 0
  BY DEF Web!NoToken
<1>3. issued \in Nat /\ \A c \in Cred : token[c].n <= issued
  BY DEF WebInv, TokenOfOne, Web!TypeOK
<1> QED BY <1>1, <1>2, <1>3 DEF WebInv, TokenOfOne

\* The game server's save keeps the credentials, ...
LEMMA SharedIsSaved ==
  ASSUME WebConstants, WebInv, NEW on \in BOOLEAN, Web!SaveState(on), tokensUp = "serving",
         UNCHANGED <<tokensUp, cred, tokensFile, promised>>
  PROVE  Shared'
<1> SUFFICES ASSUME ~tokensExcused' PROVE Shared'
  BY DEF Shared
<1>1. /\ paired' = on /\ tokensFile # Web!Torn
      /\ writer'["game"] = [pc |-> "write", tree |-> [cred |-> tokensFile.cred, paired |-> on]]
      /\ writer'["config"] = writer["config"]
      /\ ~tokensExcused /\ \A r \in Web!Server : writer[r] = Web!Idle
  BY SaveStateDoes DEF WebInv
<1>2. /\ writer["game"] = Web!Idle /\ writer["config"] = Web!Idle /\ writer'["config"] = Web!Idle
      /\ writer'["game"].pc = "write" /\ writer'["config"].pc = "idle" /\ writer'["game"] # Web!Idle
  BY <1>1 DEF Web!Server, Web!Idle
<1>3. cred = promised /\ tokensFile.cred = promised
  BY <1>1, <1>2 DEF WebInv, Shared
<1>4. writer'["game"].tree = [cred |-> promised', paired |-> paired']
  BY <1>1, <1>3
<1>5. \A s \in Web!Server : writer'[s].pc # "done"
  BY <1>2 DEF Web!Server
<1> QED BY <1>1, <1>2, <1>3, <1>4, <1>5 DEF Shared

\* ... and a server that goes on keeps its tree.
LEMMA SharedGoesOn ==
  ASSUME WebConstants, WebInv, ~tokensExcused, NEW s \in Web!Server,
         writer[s].pc \in {"write", "fill"},
         NEW p \in {"fill", "done"}, writer' = [writer EXCEPT ![s].pc = p],
         p = "done" => tokensFile' = writer[s].tree,
         UNCHANGED <<tokensUp, cred, paired, promised>>
  PROVE  Shared'
<1>1. /\ writer'[s] = [pc |-> p, tree |-> writer[s].tree]
      /\ \A r \in Web!Server \ {s} : writer'[r] = writer[r]
  BY GoesOn DEF WebInv
<1>2. writer[s] # Web!Idle /\ writer'[s] # Web!Idle /\ writer'[s].pc = p
      /\ writer'[s].tree = writer[s].tree
  BY <1>1 DEF Web!Idle
<1>3. \A r \in Web!Server \ {s} : writer'[r] = Web!Idle /\ writer'[r].pc = "idle"
  BY <1>1, <1>2 DEF WebInv, Shared, Web!Server, Web!Idle
<1>4. \A r \in Web!Server : writer'[r].pc = "done" => tokensFile' = writer'[r].tree
  BY <1>2, <1>3
<1>5. CASE s = "config"
  BY <1>2, <1>3, <1>4, <1>5 DEF WebInv, Shared, Web!Server
<1>6. CASE s = "game"
  BY <1>2, <1>3, <1>4, <1>6 DEF WebInv, Shared, Web!Server
<1> QED BY <1>5, <1>6 DEF Web!Server

\* The types, in three parts.
WriterType == writer \in [Web!Server -> [pc : {"idle", "write", "fill", "done"},
           tree : Web!Content]]

TokenType == /\ token \in [Cred \union {NoCred} -> [n : 0..MaxToken, fresh : BOOLEAN]]
             /\ issued \in 0..MaxToken
             /\ tab \in [Tab -> [cred : Cred \union {NoCred}, token : 0..MaxToken]]

RestType == /\ tokensUp \in {"off", "keys", "between", "certificate", "serving"}
            /\ cred \in Cred \union {NoCred} /\ promised \in Cred \union {NoCred}
            /\ {paired, tokensExcused, enabled, app, slipped} \subseteq BOOLEAN
            /\ tokensFile \in Web!Content \union {Web!Torn}
            /\ {key, cert} \subseteq 0..Web!Damaged
            /\ tokensSession \in {"none", "launched", "streaming"}

LEMMA WebTypeParts == Web!TypeOK <=> WriterType /\ TokenType /\ RestType
  BY DEF Web!TypeOK, WriterType, TokenType, RestType

LEMMA BeginTypes ==
  ASSUME Web!TypeOK, NEW s \in Web!Server, NEW tree \in Web!Content, Web!Begin(s, tree)
  PROVE  WriterType' /\ tokensExcused' \in BOOLEAN
<1>1. [pc |-> "write", tree |-> tree] \in [pc : {"idle", "write", "fill", "done"},
        tree : Web!Content]
  OBVIOUS
<1>2. WriterType'
  BY <1>1 DEF Web!TypeOK, WriterType, Web!Begin
<1>3. tokensExcused' = (tokensExcused \/ \E r \in Web!Server : writer[r] # Web!Idle)
  BY DEF Web!Begin
<1> QED BY <1>2, <1>3

LEMMA SaveStateTypes ==
  ASSUME Web!TypeOK, NEW on \in BOOLEAN, Web!SaveState(on)
  PROVE  WriterType' /\ tokensExcused' \in BOOLEAN /\ paired' \in BOOLEAN
<1>1. CASE tokensFile = Web!Torn
  BY <1>1 DEF Web!SaveState, Web!TypeOK, WriterType
<1>2. CASE tokensFile # Web!Torn
  <2>1. Web!Begin("game", [cred |-> tokensFile.cred, paired |-> on]) /\ paired' = on
    BY <1>2, TreeKeeps DEF Web!SaveState
  <2>2. [cred |-> tokensFile.cred, paired |-> on] \in Web!Content
    BY <1>2, TreeKeeps DEF Web!Content
  <2>3. "game" \in Web!Server
    BY DEF Web!Server
  <2> QED BY <2>1, <2>2, <2>3, BeginTypes
<1> QED BY <1>1, <1>2

LEMMA SavePasswordTypes ==
  ASSUME Web!TypeOK, NEW t \in Tab, NEW new \in Cred, Web!SavePassword(t, new)
  PROVE  WriterType' /\ tokensExcused' \in BOOLEAN
<1>1. CASE tokensFile = Web!Torn
  BY <1>1 DEF Web!SavePassword, Web!TypeOK, WriterType
<1>2. CASE tokensFile # Web!Torn
  <2>1. Web!Begin("config", [cred |-> new, paired |-> tokensFile.paired])
    BY <1>2, TreeKeeps DEF Web!SavePassword
  <2>2. [cred |-> new, paired |-> tokensFile.paired] \in Web!Content
    BY <1>2, TreeKeeps DEF Web!Content
  <2>3. "config" \in Web!Server
    BY DEF Web!Server
  <2> QED BY <2>1, <2>2, <2>3, BeginTypes
<1> QED BY <1>1, <1>2

\* A process that ended has no token.
LEMMA NoTokenLeft ==
  ASSUME WebConstants, Web!TypeOK, token' = [c \in Cred \union {NoCred} |-> Web!NoToken],
         UNCHANGED <<issued, tab>>
  PROVE  TokenType'
<1>1. Web!NoToken \in [n : 0..MaxToken, fresh : BOOLEAN]
  BY DEF Web!NoToken, WebConstants
<1> QED BY <1>1 DEF Web!TypeOK, TokenType

\* Every step keeps the types, ...
LEMMA TypesStep == ASSUME WebConstants, WebInv, Web!Next PROVE Web!TypeOK'
<1>1. CASE Web!CreateKeys
  BY <1>1 DEF WebConstants, WebInv, Bounds, Web!TypeOK, Web!Content, Web!Generation,
     Web!Damaged, Web!Absent, Web!NoToken, Web!Idle, Web!Empty, Web!Server,
     Web!CreateKeys, Web!stateVars, Web!keyVars, Web!tokenVars, Web!clientVars,
     Web!historyVars
<1>2. CASE Web!CreateCertificate
  BY <1>2 DEF WebConstants, WebInv, Bounds, Web!TypeOK, Web!Content, Web!Generation,
     Web!Damaged, Web!Absent, Web!NoToken, Web!Idle, Web!Empty, Web!Server,
     Web!CreateCertificate, Web!Generation, Web!stateVars, Web!keyVars, Web!tokenVars,
     Web!clientVars, Web!historyVars
<1>3. CASE Web!Start
  BY <1>3 DEF WebConstants, WebInv, Bounds, Web!TypeOK, Web!Content, Web!Generation,
     Web!Damaged, Web!Absent, Web!NoToken, Web!Idle, Web!Empty, Web!Server, Web!Start,
     Web!Load, Web!Generation, Web!stateVars, Web!keyVars, Web!tokenVars,
     Web!clientVars, Web!historyVars
<1>4. CASE Web!Crash
  <2>1. RestType'
    BY <1>4 DEF WebInv, Web!TypeOK, RestType, Web!Crash, Web!keyVars
  <2>2. WriterType'
    <3>1. Web!Idle \in [pc : {"idle", "write", "fill", "done"}, tree : Web!Content]
      BY DEF Web!Idle, Web!Empty, Web!Content
    <3> QED BY <1>4, <3>1 DEF WriterType, Web!Crash
  <2>3. TokenType'
    BY <1>4, NoTokenLeft DEF WebInv, Web!Crash
  <2> QED BY <2>1, <2>2, <2>3, WebTypeParts DEF Web!TypeOK, RestType, WriterType, TokenType
<1>5. CASE Web!Remove
  BY <1>5 DEF WebConstants, WebInv, Bounds, Web!TypeOK, Web!Content, Web!Generation,
     Web!Damaged, Web!Absent, Web!NoToken, Web!Idle, Web!Empty, Web!Server, Web!Remove,
     Web!stateVars, Web!keyVars, Web!tokenVars, Web!clientVars, Web!historyVars
<1>6. CASE Web!Pair
  <2>1. WriterType' /\ tokensExcused' \in BOOLEAN /\ paired' \in BOOLEAN
    BY <1>6, SaveStateTypes DEF WebInv, Web!Pair
  <2>2. TokenType' /\ RestType'
    BY <1>6, <2>1 DEF WebInv, Web!TypeOK, RestType, TokenType, Web!Pair, Web!keyVars,
       Web!tokenVars
  <2> QED BY <2>1, <2>2 DEF Web!TypeOK, RestType, WriterType, TokenType
<1>7. CASE Web!Stream
  BY <1>7 DEF WebConstants, WebInv, Bounds, Web!TypeOK, Web!Content, Web!Generation,
     Web!Damaged, Web!Absent, Web!NoToken, Web!Idle, Web!Empty, Web!Server, Web!Stream,
     Web!stateVars, Web!keyVars, Web!tokenVars, Web!clientVars, Web!historyVars
<1>8. CASE Web!Saved
  BY <1>8 DEF WebConstants, WebInv, Bounds, Web!TypeOK, Web!Content, Web!Generation,
     Web!Damaged, Web!Absent, Web!NoToken, Web!Idle, Web!Empty, Web!Server, Web!Saved,
     Web!others, Web!stateVars, Web!keyVars, Web!tokenVars, Web!clientVars,
     Web!historyVars
<1>9. CASE Web!SavedState
  BY <1>9 DEF WebConstants, WebInv, Bounds, Web!TypeOK, Web!Content, Web!Generation,
     Web!Damaged, Web!Absent, Web!NoToken, Web!Idle, Web!Empty, Web!Server,
     Web!SavedState, Web!others, Web!stateVars, Web!keyVars, Web!tokenVars,
     Web!clientVars, Web!historyVars
<1>10. ASSUME NEW s \in Web!Server, Web!Empties(s) PROVE Web!TypeOK'
  <2>1. TokenType' /\ RestType'
    BY <1>10 DEF WebInv, Web!TypeOK, RestType, TokenType, Web!Empties, Web!others, Web!keyVars,
       Web!tokenVars, Web!clientVars
  <2>2. PICK p \in {"fill", "done"} : writer' = [writer EXCEPT ![s].pc = p]
    BY <1>10 DEF Web!Empties
  <2>3. WriterType'
    BY <2>2 DEF WebInv, Web!TypeOK, WriterType
  <2> QED BY <2>1, <2>3 DEF Web!TypeOK, RestType, WriterType, TokenType
<1>11. ASSUME NEW s \in Web!Server, Web!Fills(s) PROVE Web!TypeOK'
  BY <1>11 DEF WebConstants, WebInv, Bounds, Web!TypeOK, Web!Content, Web!Generation,
     Web!Damaged, Web!Absent, Web!NoToken, Web!Idle, Web!Empty, Web!Server, Web!Fills,
     Web!others, Web!stateVars, Web!keyVars, Web!tokenVars, Web!clientVars,
     Web!historyVars
<1>12. ASSUME NEW c \in Cred, Web!HourPasses(c) PROVE Web!TypeOK'
  BY <1>12 DEF WebConstants, WebInv, Bounds, Web!TypeOK, Web!Content, Web!Generation,
     Web!Damaged, Web!Absent, Web!NoToken, Web!Idle, Web!Empty, Web!Server,
     Web!HourPasses, Web!stateVars, Web!keyVars, Web!tokenVars, Web!clientVars,
     Web!historyVars
<1>13. ASSUME NEW t \in Tab, Web!GetCSRFToken(t) PROVE Web!TypeOK'
  <2>1. RestType' /\ WriterType'
    BY <1>13 DEF WebInv, Web!TypeOK, RestType, WriterType, Web!GetCSRFToken, Web!stateVars,
       Web!keyVars, Web!clientVars
  <2>2. /\ token' = [Web!Kept EXCEPT ![Web!ClientId(t)] = [n |-> issued + 1, fresh |-> TRUE]]
        /\ tab' = [tab EXCEPT ![t].token = issued + 1]
        /\ issued' = issued + 1 /\ issued' \in 0..MaxToken
    BY <1>13 DEF Web!GetCSRFToken, WebInv, Web!TypeOK, WebConstants
  <2>3. Web!Kept \in [Cred \union {NoCred} -> [n : 0..MaxToken, fresh : BOOLEAN]]
    BY DEF Web!Kept, Web!NoToken, WebInv, Web!TypeOK, WebConstants
  <2>4. [n |-> issued + 1, fresh |-> TRUE] \in [n : 0..MaxToken, fresh : BOOLEAN]
    BY <2>2
  <2>5. token' \in [Cred \union {NoCred} -> [n : 0..MaxToken, fresh : BOOLEAN]]
    BY <2>2, <2>3, <2>4
  <2>6. tab' \in [Tab -> [cred : Cred \union {NoCred}, token : 0..MaxToken]]
    BY <2>2 DEF WebInv, Web!TypeOK
  <2> QED BY <2>1, <2>2, <2>5, <2>6 DEF Web!TypeOK, RestType, WriterType
<1>14. ASSUME NEW t \in Tab, Web!Login(t) PROVE Web!TypeOK'
  BY <1>14 DEF WebConstants, WebInv, Bounds, Web!TypeOK, Web!Content, Web!Generation,
     Web!Damaged, Web!Absent, Web!NoToken, Web!Idle, Web!Empty, Web!Server, Web!Login,
     Web!Serves, Web!stateVars, Web!keyVars, Web!tokenVars, Web!clientVars,
     Web!historyVars
<1>15. ASSUME NEW t \in Tab, Web!CloseApp(t) PROVE Web!TypeOK'
  BY <1>15 DEF WebConstants, WebInv, Bounds, Web!TypeOK, Web!Content, Web!Generation,
     Web!Damaged, Web!Absent, Web!NoToken, Web!Idle, Web!Empty, Web!Server,
     Web!CloseApp, Web!Accept, Web!Serves, Web!rest, Web!Ok, Web!stateVars, Web!keyVars,
     Web!tokenVars, Web!clientVars, Web!historyVars
<1>16. ASSUME NEW t \in Tab, NEW yes \in BOOLEAN, Web!GetPage(t, yes) PROVE Web!TypeOK'
  BY <1>16 DEF WebConstants, WebInv, Bounds, Web!TypeOK, Web!Content, Web!Generation,
     Web!Damaged, Web!Absent, Web!NoToken, Web!Idle, Web!Empty, Web!Server, Web!GetPage,
     Web!Serves, Web!stateVars, Web!keyVars, Web!tokenVars, Web!clientVars,
     Web!historyVars
<1>17. ASSUME NEW t \in Tab, NEW yes \in BOOLEAN, Web!SavePin(t, yes) PROVE Web!TypeOK'
  BY <1>17 DEF WebConstants, WebInv, Bounds, Web!TypeOK, Web!Content, Web!Generation,
     Web!Damaged, Web!Absent, Web!NoToken, Web!Idle, Web!Empty, Web!Server, Web!SavePin,
     Web!Accept, Web!Serves, Web!stateVars, Web!keyVars, Web!tokenVars, Web!clientVars,
     Web!historyVars
<1>18. ASSUME NEW t \in Tab, NEW yes \in BOOLEAN, Web!UpdateClient(t, yes) PROVE Web!TypeOK'
  <2>1. WriterType' /\ tokensExcused' \in BOOLEAN /\ paired' \in BOOLEAN
    BY <1>18, SaveStateTypes DEF WebInv, Web!UpdateClient
  <2>2. TokenType'
    BY <1>18 DEF WebInv, Web!TypeOK, TokenType, Web!UpdateClient, Web!rest
  <2>3. /\ enabled' \in BOOLEAN /\ app' \in BOOLEAN /\ slipped' \in BOOLEAN
        /\ tokensSession' \in {"none", "launched", "streaming"}
    BY <1>18 DEF WebInv, Web!TypeOK, Web!UpdateClient
  <2>4. RestType'
    BY <1>18, <2>1, <2>3 DEF WebInv, Web!TypeOK, RestType, Web!UpdateClient, Web!keyVars,
       Web!rest
  <2> QED BY <2>1, <2>2, <2>4 DEF Web!TypeOK, RestType, WriterType, TokenType
<1>19. ASSUME NEW t \in Tab, NEW new \in Cred, Web!SavePassword(t, new) PROVE Web!TypeOK'
  <2>1. WriterType' /\ tokensExcused' \in BOOLEAN
    BY <1>19, SavePasswordTypes DEF WebInv
  <2>2. tab' = [tab EXCEPT ![t].cred = new] /\ UNCHANGED <<token, issued>>
    BY <1>19 DEF Web!SavePassword
  <2>3. TokenType'
    BY <2>2 DEF WebInv, Web!TypeOK, TokenType
  <2>4. RestType'
    BY <1>19, <2>1 DEF WebInv, Web!TypeOK, RestType, Web!SavePassword, Web!keyVars,
       Web!clientVars
  <2> QED BY <2>1, <2>3, <2>4 DEF Web!TypeOK, RestType, WriterType, TokenType
<1>20. ASSUME NEW t \in Tab, NEW op \in DOMAIN Web!Asks, Web!Refuse(t, op) PROVE Web!TypeOK'
  <2>1. RestType' /\ WriterType'
    BY <1>20 DEF WebInv, Web!TypeOK, RestType, WriterType, Web!Refuse, Web!stateVars,
       Web!keyVars, Web!clientVars
  <2>2. \/ token' = token
        \/ token' = [token EXCEPT ![Web!ClientId(t)] = Web!NoToken]
    BY <1>20 DEF Web!Refuse
  <2>3. Web!NoToken \in [n : 0..MaxToken, fresh : BOOLEAN]
    BY DEF Web!NoToken, WebConstants
  <2>4. UNCHANGED <<issued, tab>>
    BY <1>20 DEF Web!Refuse
  <2> QED BY <2>1, <2>2, <2>3, <2>4 DEF WebInv, Web!TypeOK, RestType, WriterType
<1>21. ASSUME NEW t \in Tab, NEW op \in DOMAIN Web!Asks, Web!Unpair(t, op) PROVE Web!TypeOK'
  <2>1. WriterType' /\ tokensExcused' \in BOOLEAN /\ paired' \in BOOLEAN
    BY <1>21, SaveStateTypes DEF WebInv, Web!Unpair
  <2>2. TokenType' /\ RestType'
    BY <1>21, <2>1 DEF WebInv, Web!TypeOK, RestType, TokenType, Web!Unpair, Web!keyVars,
       Web!rest
  <2> QED BY <2>1, <2>2 DEF Web!TypeOK, RestType, WriterType, TokenType
<1>22. ASSUME NEW t \in Tab, NEW op \in DOMAIN Web!Asks, Web!Elsewhere(t, op) PROVE Web!TypeOK'
  BY <1>22 DEF WebConstants, WebInv, Bounds, Web!TypeOK, Web!Content, Web!Generation,
     Web!Damaged, Web!Absent, Web!NoToken, Web!Idle, Web!Empty, Web!Server,
     Web!Elsewhere, Web!Accept, Web!Serves, Web!rest, Web!Ok, Web!stateVars,
     Web!keyVars, Web!tokenVars, Web!clientVars, Web!historyVars
<1>23. ASSUME NEW t \in Tab, NEW op \in DOMAIN Web!Asks, Web!Ends(t, op) PROVE Web!TypeOK'
  <2>1. RestType' /\ WriterType'
    BY <1>23 DEF WebInv, Web!TypeOK, RestType, WriterType, Web!Ends, Web!keyVars
  <2>2. TokenType'
    BY <1>23, NoTokenLeft DEF WebInv, Web!Ends
  <2> QED BY <2>1, <2>2 DEF Web!TypeOK, RestType, WriterType, TokenType
<1> QED BY <1>1, <1>2, <1>3, <1>4, <1>5, <1>6, <1>7, <1>8, <1>9, <1>10, <1>11, <1>12,
     <1>13, <1>14, <1>15, <1>16, <1>17, <1>18, <1>19, <1>20, <1>21, <1>22, <1>23 DEF
     Web!Next

\* ... the bounds, ...
LEMMA BoundsStep == ASSUME WebConstants, WebInv, Web!Next PROVE Bounds'
<1>1. CASE Web!CreateKeys
  BY <1>1 DEF WebConstants, WebInv, Bounds, Web!CreateKeys, Web!stateVars, Web!keyVars,
     Web!tokenVars, Web!clientVars, Web!historyVars
<1>2. CASE Web!CreateCertificate
  BY <1>2 DEF WebConstants, WebInv, Bounds, Web!CreateCertificate, Web!Generation,
     Web!stateVars, Web!keyVars, Web!tokenVars, Web!clientVars, Web!historyVars
<1>3. CASE Web!Start
  BY <1>3 DEF WebConstants, WebInv, Bounds, Web!Start, Web!Load, Web!Generation,
     Web!stateVars, Web!keyVars, Web!tokenVars, Web!clientVars, Web!historyVars
<1>4. CASE Web!Crash
  BY <1>4 DEF WebConstants, WebInv, Bounds, Web!Crash, Web!stateVars, Web!keyVars,
     Web!tokenVars, Web!clientVars, Web!historyVars
<1>5. CASE Web!Remove
  BY <1>5 DEF WebConstants, WebInv, Bounds, Web!Remove, Web!stateVars, Web!keyVars,
     Web!tokenVars, Web!clientVars, Web!historyVars
<1>6. CASE Web!Pair
  BY <1>6 DEF WebConstants, WebInv, Bounds, Web!Pair, Web!Free, Web!SaveState,
     Web!Begin, Web!stateVars, Web!keyVars, Web!tokenVars, Web!clientVars,
     Web!historyVars
<1>7. CASE Web!Stream
  BY <1>7 DEF WebConstants, WebInv, Bounds, Web!Stream, Web!stateVars, Web!keyVars,
     Web!tokenVars, Web!clientVars, Web!historyVars
<1>8. CASE Web!Saved
  BY <1>8 DEF WebConstants, WebInv, Bounds, Web!Saved, Web!others, Web!stateVars,
     Web!keyVars, Web!tokenVars, Web!clientVars, Web!historyVars
<1>9. CASE Web!SavedState
  BY <1>9 DEF WebConstants, WebInv, Bounds, Web!SavedState, Web!others, Web!stateVars,
     Web!keyVars, Web!tokenVars, Web!clientVars, Web!historyVars
<1>10. ASSUME NEW s \in Web!Server, Web!Empties(s) PROVE Bounds'
  BY <1>10 DEF WebConstants, WebInv, Bounds, Web!Empties, Web!others, Web!stateVars,
     Web!keyVars, Web!tokenVars, Web!clientVars, Web!historyVars
<1>11. ASSUME NEW s \in Web!Server, Web!Fills(s) PROVE Bounds'
  BY <1>11 DEF WebConstants, WebInv, Bounds, Web!Fills, Web!others, Web!stateVars,
     Web!keyVars, Web!tokenVars, Web!clientVars, Web!historyVars
<1>12. ASSUME NEW c \in Cred, Web!HourPasses(c) PROVE Bounds'
  BY <1>12 DEF WebConstants, WebInv, Bounds, Web!HourPasses, Web!stateVars, Web!keyVars,
     Web!tokenVars, Web!clientVars, Web!historyVars
<1>13. ASSUME NEW t \in Tab, Web!GetCSRFToken(t) PROVE Bounds'
  BY <1>13 DEF WebConstants, WebInv, Bounds, Web!GetCSRFToken, Web!Serves, Web!Kept,
     Web!Ok, Web!stateVars, Web!keyVars, Web!tokenVars, Web!clientVars, Web!historyVars
<1>14. ASSUME NEW t \in Tab, Web!Login(t) PROVE Bounds'
  BY <1>14 DEF WebConstants, WebInv, Bounds, Web!Login, Web!Serves, Web!stateVars,
     Web!keyVars, Web!tokenVars, Web!clientVars, Web!historyVars
<1>15. ASSUME NEW t \in Tab, Web!CloseApp(t) PROVE Bounds'
  BY <1>15 DEF WebConstants, WebInv, Bounds, Web!CloseApp, Web!Accept, Web!Serves,
     Web!rest, Web!Ok, Web!stateVars, Web!keyVars, Web!tokenVars, Web!clientVars,
     Web!historyVars
<1>16. ASSUME NEW t \in Tab, NEW yes \in BOOLEAN, Web!GetPage(t, yes) PROVE Bounds'
  BY <1>16 DEF WebConstants, WebInv, Bounds, Web!GetPage, Web!Serves, Web!stateVars,
     Web!keyVars, Web!tokenVars, Web!clientVars, Web!historyVars
<1>17. ASSUME NEW t \in Tab, NEW yes \in BOOLEAN, Web!SavePin(t, yes) PROVE Bounds'
  BY <1>17 DEF WebConstants, WebInv, Bounds, Web!SavePin, Web!Accept, Web!Serves,
     Web!stateVars, Web!keyVars, Web!tokenVars, Web!clientVars, Web!historyVars
<1>18. ASSUME NEW t \in Tab, NEW yes \in BOOLEAN, Web!UpdateClient(t, yes) PROVE Bounds'
  BY <1>18 DEF WebConstants, WebInv, Bounds, Web!UpdateClient, Web!Accept, Web!Serves,
     Web!Free, Web!SaveState, Web!Begin, Web!rest, Web!Ok, Web!stateVars, Web!keyVars,
     Web!tokenVars, Web!clientVars, Web!historyVars
<1>19. ASSUME NEW t \in Tab, NEW new \in Cred, Web!SavePassword(t, new) PROVE Bounds'
  BY <1>19 DEF WebConstants, WebInv, Bounds, Web!SavePassword, Web!Accept, Web!Serves,
     Web!Free, Web!Begin, Web!Ok, Web!stateVars, Web!keyVars, Web!tokenVars,
     Web!clientVars, Web!historyVars
<1>20. ASSUME NEW t \in Tab, NEW op \in DOMAIN Web!Asks, Web!Refuse(t, op) PROVE Bounds'
  BY <1>20 DEF WebConstants, WebInv, Bounds, Web!Refuse, Web!Serves, Web!stateVars,
     Web!keyVars, Web!tokenVars, Web!clientVars, Web!historyVars
<1>21. ASSUME NEW t \in Tab, NEW op \in DOMAIN Web!Asks, Web!Unpair(t, op) PROVE Bounds'
  BY <1>21 DEF WebConstants, WebInv, Bounds, Web!Unpair, Web!Accept, Web!Serves,
     Web!Free, Web!SaveState, Web!Begin, Web!rest, Web!Ok, Web!stateVars, Web!keyVars,
     Web!tokenVars, Web!clientVars, Web!historyVars
<1>22. ASSUME NEW t \in Tab, NEW op \in DOMAIN Web!Asks, Web!Elsewhere(t, op) PROVE Bounds'
  BY <1>22 DEF WebConstants, WebInv, Bounds, Web!Elsewhere, Web!Accept, Web!Serves,
     Web!rest, Web!Ok, Web!stateVars, Web!keyVars, Web!tokenVars, Web!clientVars,
     Web!historyVars
<1>23. ASSUME NEW t \in Tab, NEW op \in DOMAIN Web!Asks, Web!Ends(t, op) PROVE Bounds'
  BY <1>23 DEF WebConstants, WebInv, Bounds, Web!Ends, Web!Accept, Web!Serves, Web!Ok,
     Web!stateVars, Web!keyVars, Web!tokenVars, Web!clientVars, Web!historyVars
<1> QED BY <1>1, <1>2, <1>3, <1>4, <1>5, <1>6, <1>7, <1>8, <1>9, <1>10, <1>11, <1>12,
     <1>13, <1>14, <1>15, <1>16, <1>17, <1>18, <1>19, <1>20, <1>21, <1>22, <1>23 DEF
     Web!Next

\* ... the places of the writers, ...
LEMMA WritersStep == ASSUME WebConstants, WebInv, Web!Next PROVE Writers'
<1>1. CASE Web!CreateKeys
  BY <1>1 DEF WebInv, Writers, Web!TypeOK, Web!Idle, Web!Empty, Web!Server,
     Web!CreateKeys, Web!stateVars, Web!keyVars, Web!tokenVars, Web!clientVars,
     Web!historyVars
<1>2. CASE Web!CreateCertificate
  BY <1>2 DEF WebInv, Writers, Web!TypeOK, Web!Idle, Web!Empty, Web!Server,
     Web!CreateCertificate, Web!Generation, Web!stateVars, Web!keyVars, Web!tokenVars,
     Web!clientVars, Web!historyVars
<1>3. CASE Web!Start
  BY <1>3 DEF WebInv, Writers, Web!TypeOK, Web!Idle, Web!Empty, Web!Server, Web!Start,
     Web!Load, Web!Generation, Web!stateVars, Web!keyVars, Web!tokenVars,
     Web!clientVars, Web!historyVars
<1>4. CASE Web!Crash
  BY <1>4 DEF WebInv, Writers, Web!TypeOK, Web!Idle, Web!Empty, Web!Server, Web!Crash,
     Web!stateVars, Web!keyVars, Web!tokenVars, Web!clientVars, Web!historyVars
<1>5. CASE Web!Remove
  BY <1>5 DEF WebInv, Writers, Web!TypeOK, Web!Idle, Web!Empty, Web!Server, Web!Remove,
     Web!stateVars, Web!keyVars, Web!tokenVars, Web!clientVars, Web!historyVars
<1>6. CASE Web!Pair
  <2>1. tokensUp = "serving" /\ tokensUp' = "serving" /\ Web!SaveState(TRUE)
    BY <1>6 DEF Web!Pair
  <2>2. \/ writer' = writer
        \/ writer'["game"].pc = "write" /\ writer'["config"] = writer["config"]
    BY <2>1, SaveStateDoes DEF WebInv
  <2> QED BY <2>1, <2>2 DEF WebInv, Writers, Web!Server
<1>7. CASE Web!Stream
  BY <1>7 DEF WebInv, Writers, Web!TypeOK, Web!Idle, Web!Empty, Web!Server, Web!Stream,
     Web!stateVars, Web!keyVars, Web!tokenVars, Web!clientVars, Web!historyVars
<1>8. CASE Web!Saved
  BY <1>8 DEF WebInv, Writers, Web!TypeOK, Web!Idle, Web!Empty, Web!Server, Web!Saved,
     Web!others, Web!stateVars, Web!keyVars, Web!tokenVars, Web!clientVars,
     Web!historyVars
<1>9. CASE Web!SavedState
  BY <1>9 DEF WebInv, Writers, Web!TypeOK, Web!Idle, Web!Empty, Web!Server,
     Web!SavedState, Web!others, Web!stateVars, Web!keyVars, Web!tokenVars,
     Web!clientVars, Web!historyVars
<1>10. ASSUME NEW s \in Web!Server, Web!Empties(s) PROVE Writers'
  <2>1. tokensUp = "serving" /\ tokensUp' = "serving"
    BY <1>10 DEF Web!Empties, Web!others
  <2>2. PICK p \in {"fill", "done"} : writer' = [writer EXCEPT ![s].pc = p]
    BY <1>10 DEF Web!Empties
  <2>3. writer'[s].pc = p /\ \A r \in Web!Server \ {s} : writer'[r] = writer[r]
    BY <2>2, GoesOn DEF WebInv
  <2> QED BY <2>1, <2>3 DEF WebInv, Writers
<1>11. ASSUME NEW s \in Web!Server, Web!Fills(s) PROVE Writers'
  BY <1>11 DEF WebInv, Writers, Web!TypeOK, Web!Idle, Web!Empty, Web!Server, Web!Fills,
     Web!others, Web!stateVars, Web!keyVars, Web!tokenVars, Web!clientVars,
     Web!historyVars
<1>12. ASSUME NEW c \in Cred, Web!HourPasses(c) PROVE Writers'
  BY <1>12 DEF WebInv, Writers, Web!TypeOK, Web!Idle, Web!Empty, Web!Server,
     Web!HourPasses, Web!stateVars, Web!keyVars, Web!tokenVars, Web!clientVars,
     Web!historyVars
<1>13. ASSUME NEW t \in Tab, Web!GetCSRFToken(t) PROVE Writers'
  BY <1>13 DEF WebInv, Writers, Web!TypeOK, Web!Idle, Web!Empty, Web!Server,
     Web!GetCSRFToken, Web!Serves, Web!Kept, Web!Ok, Web!stateVars, Web!keyVars,
     Web!tokenVars, Web!clientVars, Web!historyVars
<1>14. ASSUME NEW t \in Tab, Web!Login(t) PROVE Writers'
  BY <1>14 DEF WebInv, Writers, Web!TypeOK, Web!Idle, Web!Empty, Web!Server, Web!Login,
     Web!Serves, Web!stateVars, Web!keyVars, Web!tokenVars, Web!clientVars,
     Web!historyVars
<1>15. ASSUME NEW t \in Tab, Web!CloseApp(t) PROVE Writers'
  BY <1>15 DEF WebInv, Writers, Web!TypeOK, Web!Idle, Web!Empty, Web!Server,
     Web!CloseApp, Web!Accept, Web!Serves, Web!rest, Web!Ok, Web!stateVars, Web!keyVars,
     Web!tokenVars, Web!clientVars, Web!historyVars
<1>16. ASSUME NEW t \in Tab, NEW yes \in BOOLEAN, Web!GetPage(t, yes) PROVE Writers'
  BY <1>16 DEF WebInv, Writers, Web!TypeOK, Web!Idle, Web!Empty, Web!Server,
     Web!GetPage, Web!Serves, Web!stateVars, Web!keyVars, Web!tokenVars, Web!clientVars,
     Web!historyVars
<1>17. ASSUME NEW t \in Tab, NEW yes \in BOOLEAN, Web!SavePin(t, yes) PROVE Writers'
  BY <1>17 DEF WebInv, Writers, Web!TypeOK, Web!Idle, Web!Empty, Web!Server,
     Web!SavePin, Web!Accept, Web!Serves, Web!stateVars, Web!keyVars, Web!tokenVars,
     Web!clientVars, Web!historyVars
<1>18. ASSUME NEW t \in Tab, NEW yes \in BOOLEAN, Web!UpdateClient(t, yes) PROVE Writers'
  <2>1. tokensUp = "serving" /\ tokensUp' = "serving" /\ Web!SaveState(TRUE)
    BY <1>18 DEF Web!UpdateClient, Web!Accept, Web!Serves, Web!rest
  <2>2. \/ writer' = writer
        \/ writer'["game"].pc = "write" /\ writer'["config"] = writer["config"]
    BY <2>1, SaveStateDoes DEF WebInv
  <2> QED BY <2>1, <2>2 DEF WebInv, Writers, Web!Server
<1>19. ASSUME NEW t \in Tab, NEW new \in Cred, Web!SavePassword(t, new) PROVE Writers'
  <2>1. tokensUp' = "serving"
        /\ \/ writer' = writer
           \/ writer'["config"].pc = "write" /\ writer'["game"] = writer["game"]
    BY <1>19, SavePasswordDoes DEF WebInv
  <2>2. tokensUp = "serving"
    BY <1>19, SavePasswordDoes DEF WebInv
  <2> QED BY <2>1, <2>2 DEF WebInv, Writers, Web!Server
<1>20. ASSUME NEW t \in Tab, NEW op \in DOMAIN Web!Asks, Web!Refuse(t, op) PROVE Writers'
  BY <1>20 DEF WebInv, Writers, Web!TypeOK, Web!Idle, Web!Empty, Web!Server, Web!Refuse,
     Web!Serves, Web!stateVars, Web!keyVars, Web!tokenVars, Web!clientVars,
     Web!historyVars
<1>21. ASSUME NEW t \in Tab, NEW op \in DOMAIN Web!Asks, Web!Unpair(t, op) PROVE Writers'
  <2>1. tokensUp = "serving" /\ tokensUp' = "serving" /\ Web!SaveState(FALSE)
    BY <1>21 DEF Web!Unpair, Web!Accept, Web!Serves, Web!rest
  <2>2. \/ writer' = writer
        \/ writer'["game"].pc = "write" /\ writer'["config"] = writer["config"]
    BY <2>1, SaveStateDoes DEF WebInv
  <2> QED BY <2>1, <2>2 DEF WebInv, Writers, Web!Server
<1>22. ASSUME NEW t \in Tab, NEW op \in DOMAIN Web!Asks, Web!Elsewhere(t, op) PROVE Writers'
  BY <1>22 DEF WebInv, Writers, Web!TypeOK, Web!Idle, Web!Empty, Web!Server,
     Web!Elsewhere, Web!Accept, Web!Serves, Web!rest, Web!Ok, Web!stateVars,
     Web!keyVars, Web!tokenVars, Web!clientVars, Web!historyVars
<1>23. ASSUME NEW t \in Tab, NEW op \in DOMAIN Web!Asks, Web!Ends(t, op) PROVE Writers'
  BY <1>23 DEF WebInv, Writers, Web!TypeOK, Web!Idle, Web!Empty, Web!Server, Web!Ends,
     Web!Accept, Web!Serves, Web!Ok, Web!stateVars, Web!keyVars, Web!tokenVars,
     Web!clientVars, Web!historyVars
<1> QED BY <1>1, <1>2, <1>3, <1>4, <1>5, <1>6, <1>7, <1>8, <1>9, <1>10, <1>11, <1>12,
     <1>13, <1>14, <1>15, <1>16, <1>17, <1>18, <1>19, <1>20, <1>21, <1>22, <1>23 DEF
     Web!Next

\* ... what the file and the memory have in common, ...
LEMMA SharedStep == ASSUME WebConstants, WebInv, Web!Next PROVE Shared'
<1>1. CASE Web!CreateKeys
  BY <1>1 DEF WebInv, Shared, Writers, Web!TypeOK, Web!Idle, Web!Empty, Web!Server,
     Web!CreateKeys, Web!stateVars, Web!keyVars, Web!tokenVars, Web!clientVars,
     Web!historyVars
<1>2. CASE Web!CreateCertificate
  BY <1>2 DEF WebInv, Shared, Writers, Web!TypeOK, Web!Idle, Web!Empty, Web!Server,
     Web!CreateCertificate, Web!Generation, Web!stateVars, Web!keyVars, Web!tokenVars,
     Web!clientVars, Web!historyVars
<1>3. CASE Web!Start
  <2>1. /\ tokensUp # "serving" /\ UNCHANGED <<tokensFile, writer, promised, tokensExcused>>
        /\ cred' = IF tokensFile = Web!Torn THEN NoCred ELSE tokensFile.cred
        /\ paired' = (tokensFile # Web!Torn /\ tokensFile.paired)
    BY <1>3 DEF Web!Start, Web!Load, Web!historyVars
  <2>2. writer["config"] = Web!Idle /\ writer["game"] = Web!Idle
    BY <2>1 DEF WebInv, Writers, Web!Server
  <2> SUFFICES ASSUME ~tokensExcused PROVE Shared'
    BY <2>1 DEF Shared
  <2>3. tokensFile # Web!Torn /\ tokensFile.cred = promised
    BY <2>2 DEF WebInv, Shared
  <2>4. tokensFile.paired \in BOOLEAN
    BY <2>3, TreeKeeps DEF WebInv, Web!Content
  <2>5. cred' = promised /\ paired' = tokensFile.paired
    BY <2>1, <2>3, <2>4
  <2>6. \A s \in Web!Server : writer[s].pc # "done"
    BY <2>2 DEF Web!Server, Web!Idle
  <2> QED BY <2>1, <2>2, <2>3, <2>5, <2>6 DEF Shared
<1>4. CASE Web!Crash
  BY <1>4 DEF WebInv, Shared, Writers, Web!TypeOK, Web!Idle, Web!Empty, Web!Server,
     Web!Crash, Web!stateVars, Web!keyVars, Web!tokenVars, Web!clientVars,
     Web!historyVars
<1>5. CASE Web!Remove
  BY <1>5 DEF WebInv, Shared, Writers, Web!TypeOK, Web!Idle, Web!Empty, Web!Server,
     Web!Remove, Web!stateVars, Web!keyVars, Web!tokenVars, Web!clientVars,
     Web!historyVars
<1>6. CASE Web!Pair
  <2>1. tokensUp = "serving" /\ UNCHANGED <<tokensUp, cred, tokensFile, promised>>
          /\ Web!SaveState(TRUE)
    BY <1>6 DEF Web!Pair
  <2> QED BY <2>1, SharedIsSaved
<1>7. CASE Web!Stream
  BY <1>7 DEF WebInv, Shared, Writers, Web!TypeOK, Web!Idle, Web!Empty, Web!Server,
     Web!Stream, Web!stateVars, Web!keyVars, Web!tokenVars, Web!clientVars,
     Web!historyVars
<1>8. CASE Web!Saved
  <2> SUFFICES ASSUME ~tokensExcused PROVE Shared'
    BY <1>8 DEF Shared, Web!Saved
  <2>1. /\ tokensUp = "serving" /\ writer["config"].pc = "done"
        /\ UNCHANGED <<tokensUp, paired, tokensFile>>
        /\ writer' = [writer EXCEPT !["config"] = Web!Idle]
        /\ cred' = IF tokensFile = Web!Torn \/ tokensFile.cred = NoCred THEN cred
                ELSE tokensFile.cred
        /\ promised' = writer["config"].tree.cred
    BY <1>8 DEF Web!Saved, Web!others
  <2>2. writer'["config"] = Web!Idle /\ writer'["game"] = writer["game"]
    BY <2>1 DEF WebInv, Web!TypeOK, Web!Server
  <2>3. writer["config"] # Web!Idle /\ writer["game"] = Web!Idle
    BY <2>1 DEF WebInv, Shared, Web!Idle
  <2>4. /\ tokensFile = writer["config"].tree /\ tokensFile.paired = paired
        /\ tokensFile.cred # NoCred
    BY <2>1, <2>3 DEF WebInv, Shared, Web!Server
  <2>5. tokensFile \in Web!Content
    BY <2>4 DEF WebInv, Web!TypeOK, Web!Server
  <2>6. tokensFile # Web!Torn
    BY <2>5, ContentIsNotTorn
  <2>7. cred' = promised' /\ tokensFile.cred = promised'
    BY <2>1, <2>4, <2>6
  <2>8. \A s \in Web!Server : writer'[s].pc = "idle"
    BY <2>2, <2>3 DEF Web!Server, Web!Idle
  <2> QED BY <2>1, <2>2, <2>3, <2>4, <2>6, <2>7, <2>8 DEF Shared
<1>9. CASE Web!SavedState
  <2> SUFFICES ASSUME ~tokensExcused PROVE Shared'
    BY <1>9 DEF Shared, Web!SavedState
  <2>1. /\ tokensUp = "serving" /\ writer["game"].pc = "done"
        /\ UNCHANGED <<tokensUp, cred, paired, tokensFile, promised>>
        /\ writer' = [writer EXCEPT !["game"] = Web!Idle]
    BY <1>9 DEF Web!SavedState, Web!others
  <2>2. writer'["game"] = Web!Idle /\ writer'["config"] = writer["config"]
    BY <2>1 DEF WebInv, Web!TypeOK, Web!Server
  <2>3. writer["game"] # Web!Idle /\ writer["config"] = Web!Idle
    BY <2>1 DEF WebInv, Shared, Web!Idle
  <2>4. tokensFile = writer["game"].tree /\ tokensFile = [cred |-> promised, paired |-> paired]
    BY <2>1, <2>3 DEF WebInv, Shared, Web!Server
  <2>5. tokensFile \in Web!Content
    BY <2>4 DEF WebInv, Web!TypeOK, Web!Server
  <2>6. tokensFile # Web!Torn /\ cred = promised
    BY <2>1, <2>5, ContentIsNotTorn DEF WebInv, Shared
  <2>7. tokensFile.cred = promised /\ tokensFile.paired = paired
    BY <2>4
  <2>8. \A s \in Web!Server : writer'[s].pc = "idle"
    BY <2>2, <2>3 DEF Web!Server, Web!Idle
  <2> QED BY <2>1, <2>2, <2>3, <2>6, <2>7, <2>8 DEF Shared
<1>10. ASSUME NEW s \in Web!Server, Web!Empties(s) PROVE Shared'
  <2> SUFFICES ASSUME ~tokensExcused' PROVE Shared'
    BY DEF Shared
  <2>1. /\ writer[s].pc = "write" /\ writer' = [writer EXCEPT ![s].pc = "fill"]
        /\ UNCHANGED <<tokensUp, cred, paired, promised>> /\ ~tokensExcused
    BY <1>10 DEF Web!Empties, Web!others
  <2> QED BY <2>1, SharedGoesOn
<1>11. ASSUME NEW s \in Web!Server, Web!Fills(s) PROVE Shared'
  <2> SUFFICES ASSUME ~tokensExcused' PROVE Shared'
    BY DEF Shared
  <2>1. /\ writer[s].pc = "fill" /\ writer' = [writer EXCEPT ![s].pc = "done"]
        /\ UNCHANGED <<tokensUp, cred, paired, promised>> /\ ~tokensExcused
        /\ tokensFile' = writer[s].tree
    BY <1>11 DEF Web!Fills, Web!others
  <2> QED BY <2>1, SharedGoesOn
<1>12. ASSUME NEW c \in Cred, Web!HourPasses(c) PROVE Shared'
  BY <1>12 DEF WebInv, Shared, Writers, Web!TypeOK, Web!Idle, Web!Empty, Web!Server,
     Web!HourPasses, Web!stateVars, Web!keyVars, Web!tokenVars, Web!clientVars,
     Web!historyVars
<1>13. ASSUME NEW t \in Tab, Web!GetCSRFToken(t) PROVE Shared'
  BY <1>13 DEF WebInv, Shared, Writers, Web!TypeOK, Web!Idle, Web!Empty, Web!Server,
     Web!GetCSRFToken, Web!Serves, Web!Kept, Web!Ok, Web!stateVars, Web!keyVars,
     Web!tokenVars, Web!clientVars, Web!historyVars
<1>14. ASSUME NEW t \in Tab, Web!Login(t) PROVE Shared'
  BY <1>14 DEF WebInv, Shared, Writers, Web!TypeOK, Web!Idle, Web!Empty, Web!Server,
     Web!Login, Web!Serves, Web!stateVars, Web!keyVars, Web!tokenVars, Web!clientVars,
     Web!historyVars
<1>15. ASSUME NEW t \in Tab, Web!CloseApp(t) PROVE Shared'
  BY <1>15 DEF WebInv, Shared, Writers, Web!TypeOK, Web!Idle, Web!Empty, Web!Server,
     Web!CloseApp, Web!Accept, Web!Serves, Web!rest, Web!Ok, Web!stateVars, Web!keyVars,
     Web!tokenVars, Web!clientVars, Web!historyVars
<1>16. ASSUME NEW t \in Tab, NEW yes \in BOOLEAN, Web!GetPage(t, yes) PROVE Shared'
  BY <1>16 DEF WebInv, Shared, Writers, Web!TypeOK, Web!Idle, Web!Empty, Web!Server,
     Web!GetPage, Web!Serves, Web!stateVars, Web!keyVars, Web!tokenVars, Web!clientVars,
     Web!historyVars
<1>17. ASSUME NEW t \in Tab, NEW yes \in BOOLEAN, Web!SavePin(t, yes) PROVE Shared'
  BY <1>17 DEF WebInv, Shared, Writers, Web!TypeOK, Web!Idle, Web!Empty, Web!Server,
     Web!SavePin, Web!Accept, Web!Serves, Web!stateVars, Web!keyVars, Web!tokenVars,
     Web!clientVars, Web!historyVars
<1>18. ASSUME NEW t \in Tab, NEW yes \in BOOLEAN, Web!UpdateClient(t, yes) PROVE Shared'
  <2>1. tokensUp = "serving" /\ UNCHANGED <<tokensUp, cred, tokensFile, promised>>
          /\ Web!SaveState(TRUE)
    BY <1>18 DEF Web!UpdateClient, Web!Accept, Web!Serves, Web!rest
  <2> QED BY <2>1, SharedIsSaved
<1>19. ASSUME NEW t \in Tab, NEW new \in Cred, Web!SavePassword(t, new) PROVE Shared'
  <2> SUFFICES ASSUME ~tokensExcused' PROVE Shared'
    BY DEF Shared
  <2>1. /\ tokensUp = "serving" /\ UNCHANGED <<tokensUp, cred, paired, tokensFile, promised>>
        /\ tokensFile # Web!Torn
        /\ writer'["config"] = [pc |-> "write",
                tree |-> [cred |-> new, paired |-> tokensFile.paired]]
        /\ writer'["game"] = writer["game"]
        /\ ~tokensExcused /\ \A r \in Web!Server : writer[r] = Web!Idle
    BY <1>19, SavePasswordDoes DEF WebInv
  <2>2. writer["game"] = Web!Idle /\ writer["config"] = Web!Idle /\ writer'["game"] = Web!Idle
        /\ writer'["game"].pc = "idle" /\ writer'["config"].pc = "write"
                /\ writer'["config"] # Web!Idle
    BY <2>1 DEF Web!Server, Web!Idle
  <2>3. cred = promised /\ tokensFile.paired = paired /\ new # NoCred
    BY <2>1, <2>2 DEF WebInv, Shared, WebConstants
  <2>4. writer'["config"].tree.paired = paired' /\ writer'["config"].tree.cred # NoCred
    BY <2>1, <2>3
  <2>5. \A s \in Web!Server : writer'[s].pc # "done"
    BY <2>2 DEF Web!Server
  <2> QED BY <2>1, <2>2, <2>3, <2>4, <2>5 DEF Shared
<1>20. ASSUME NEW t \in Tab, NEW op \in DOMAIN Web!Asks, Web!Refuse(t, op) PROVE Shared'
  BY <1>20 DEF WebInv, Shared, Writers, Web!TypeOK, Web!Idle, Web!Empty, Web!Server,
     Web!Refuse, Web!Serves, Web!stateVars, Web!keyVars, Web!tokenVars, Web!clientVars,
     Web!historyVars
<1>21. ASSUME NEW t \in Tab, NEW op \in DOMAIN Web!Asks, Web!Unpair(t, op) PROVE Shared'
  <2>1. tokensUp = "serving" /\ UNCHANGED <<tokensUp, cred, tokensFile, promised>>
          /\ Web!SaveState(FALSE)
    BY <1>21 DEF Web!Unpair, Web!Accept, Web!Serves, Web!rest
  <2> QED BY <2>1, SharedIsSaved
<1>22. ASSUME NEW t \in Tab, NEW op \in DOMAIN Web!Asks, Web!Elsewhere(t, op) PROVE Shared'
  BY <1>22 DEF WebInv, Shared, Writers, Web!TypeOK, Web!Idle, Web!Empty, Web!Server,
     Web!Elsewhere, Web!Accept, Web!Serves, Web!rest, Web!Ok, Web!stateVars,
     Web!keyVars, Web!tokenVars, Web!clientVars, Web!historyVars
<1>23. ASSUME NEW t \in Tab, NEW op \in DOMAIN Web!Asks, Web!Ends(t, op) PROVE Shared'
  BY <1>23 DEF WebInv, Shared, Writers, Web!TypeOK, Web!Idle, Web!Empty, Web!Server,
     Web!Ends, Web!Accept, Web!Serves, Web!Ok, Web!stateVars, Web!keyVars,
     Web!tokenVars, Web!clientVars, Web!historyVars
<1> QED BY <1>1, <1>2, <1>3, <1>4, <1>5, <1>6, <1>7, <1>8, <1>9, <1>10, <1>11, <1>12,
     <1>13, <1>14, <1>15, <1>16, <1>17, <1>18, <1>19, <1>20, <1>21, <1>22, <1>23 DEF
     Web!Next

\* ... what is known of the key and the certificate, ...
LEMMA KeyPairStep == ASSUME WebConstants, WebInv, Web!Next PROVE KeyPair'
<1>1. CASE Web!CreateKeys
  BY <1>1 DEF WebConstants, WebInv, Bounds, KeyPair, Web!KeyIsOfCertificate, Web!TypeOK,
     Web!Generation, Web!Absent, Web!Damaged, Web!CreateKeys, Web!stateVars,
     Web!keyVars, Web!tokenVars, Web!clientVars, Web!historyVars
<1>2. CASE Web!CreateCertificate
  BY <1>2 DEF WebConstants, WebInv, Bounds, KeyPair, Web!KeyIsOfCertificate, Web!TypeOK,
     Web!Generation, Web!Absent, Web!Damaged, Web!CreateCertificate, Web!Generation,
     Web!stateVars, Web!keyVars, Web!tokenVars, Web!clientVars, Web!historyVars
<1>3. CASE Web!Start
  BY <1>3 DEF WebConstants, WebInv, Bounds, KeyPair, Web!KeyIsOfCertificate, Web!TypeOK,
     Web!Generation, Web!Absent, Web!Damaged, Web!Start, Web!Load, Web!Generation,
     Web!stateVars, Web!keyVars, Web!tokenVars, Web!clientVars, Web!historyVars
<1>4. CASE Web!Crash
  BY <1>4 DEF WebConstants, WebInv, Bounds, KeyPair, Web!KeyIsOfCertificate, Web!TypeOK,
     Web!Generation, Web!Absent, Web!Damaged, Web!Crash, Web!stateVars, Web!keyVars,
     Web!tokenVars, Web!clientVars, Web!historyVars
<1>5. CASE Web!Remove
  BY <1>5 DEF WebConstants, WebInv, Bounds, KeyPair, Web!KeyIsOfCertificate, Web!TypeOK,
     Web!Generation, Web!Absent, Web!Damaged, Web!Remove, Web!stateVars, Web!keyVars,
     Web!tokenVars, Web!clientVars, Web!historyVars
<1>6. CASE Web!Pair
  BY <1>6 DEF WebConstants, WebInv, Bounds, KeyPair, Web!KeyIsOfCertificate, Web!TypeOK,
     Web!Generation, Web!Absent, Web!Damaged, Web!Pair, Web!Free, Web!SaveState,
     Web!Begin, Web!stateVars, Web!keyVars, Web!tokenVars, Web!clientVars,
     Web!historyVars
<1>7. CASE Web!Stream
  BY <1>7 DEF WebConstants, WebInv, Bounds, KeyPair, Web!KeyIsOfCertificate, Web!TypeOK,
     Web!Generation, Web!Absent, Web!Damaged, Web!Stream, Web!stateVars, Web!keyVars,
     Web!tokenVars, Web!clientVars, Web!historyVars
<1>8. CASE Web!Saved
  BY <1>8 DEF WebConstants, WebInv, Bounds, KeyPair, Web!KeyIsOfCertificate, Web!TypeOK,
     Web!Generation, Web!Absent, Web!Damaged, Web!Saved, Web!others, Web!stateVars,
     Web!keyVars, Web!tokenVars, Web!clientVars, Web!historyVars
<1>9. CASE Web!SavedState
  BY <1>9 DEF WebConstants, WebInv, Bounds, KeyPair, Web!KeyIsOfCertificate, Web!TypeOK,
     Web!Generation, Web!Absent, Web!Damaged, Web!SavedState, Web!others, Web!stateVars,
     Web!keyVars, Web!tokenVars, Web!clientVars, Web!historyVars
<1>10. ASSUME NEW s \in Web!Server, Web!Empties(s) PROVE KeyPair'
  BY <1>10 DEF WebConstants, WebInv, Bounds, KeyPair, Web!KeyIsOfCertificate, Web!TypeOK,
     Web!Generation, Web!Absent, Web!Damaged, Web!Empties, Web!others, Web!stateVars,
     Web!keyVars, Web!tokenVars, Web!clientVars, Web!historyVars
<1>11. ASSUME NEW s \in Web!Server, Web!Fills(s) PROVE KeyPair'
  BY <1>11 DEF WebConstants, WebInv, Bounds, KeyPair, Web!KeyIsOfCertificate, Web!TypeOK,
     Web!Generation, Web!Absent, Web!Damaged, Web!Fills, Web!others, Web!stateVars,
     Web!keyVars, Web!tokenVars, Web!clientVars, Web!historyVars
<1>12. ASSUME NEW c \in Cred, Web!HourPasses(c) PROVE KeyPair'
  BY <1>12 DEF WebConstants, WebInv, Bounds, KeyPair, Web!KeyIsOfCertificate, Web!TypeOK,
     Web!Generation, Web!Absent, Web!Damaged, Web!HourPasses, Web!stateVars,
     Web!keyVars, Web!tokenVars, Web!clientVars, Web!historyVars
<1>13. ASSUME NEW t \in Tab, Web!GetCSRFToken(t) PROVE KeyPair'
  BY <1>13 DEF WebConstants, WebInv, Bounds, KeyPair, Web!KeyIsOfCertificate, Web!TypeOK,
     Web!Generation, Web!Absent, Web!Damaged, Web!GetCSRFToken, Web!Serves, Web!Kept,
     Web!Ok, Web!stateVars, Web!keyVars, Web!tokenVars, Web!clientVars, Web!historyVars
<1>14. ASSUME NEW t \in Tab, Web!Login(t) PROVE KeyPair'
  BY <1>14 DEF WebConstants, WebInv, Bounds, KeyPair, Web!KeyIsOfCertificate, Web!TypeOK,
     Web!Generation, Web!Absent, Web!Damaged, Web!Login, Web!Serves, Web!stateVars,
     Web!keyVars, Web!tokenVars, Web!clientVars, Web!historyVars
<1>15. ASSUME NEW t \in Tab, Web!CloseApp(t) PROVE KeyPair'
  BY <1>15 DEF WebConstants, WebInv, Bounds, KeyPair, Web!KeyIsOfCertificate, Web!TypeOK,
     Web!Generation, Web!Absent, Web!Damaged, Web!CloseApp, Web!Accept, Web!Serves,
     Web!rest, Web!Ok, Web!stateVars, Web!keyVars, Web!tokenVars, Web!clientVars,
     Web!historyVars
<1>16. ASSUME NEW t \in Tab, NEW yes \in BOOLEAN, Web!GetPage(t, yes) PROVE KeyPair'
  BY <1>16 DEF WebConstants, WebInv, Bounds, KeyPair, Web!KeyIsOfCertificate, Web!TypeOK,
     Web!Generation, Web!Absent, Web!Damaged, Web!GetPage, Web!Serves, Web!stateVars,
     Web!keyVars, Web!tokenVars, Web!clientVars, Web!historyVars
<1>17. ASSUME NEW t \in Tab, NEW yes \in BOOLEAN, Web!SavePin(t, yes) PROVE KeyPair'
  BY <1>17 DEF WebConstants, WebInv, Bounds, KeyPair, Web!KeyIsOfCertificate, Web!TypeOK,
     Web!Generation, Web!Absent, Web!Damaged, Web!SavePin, Web!Accept, Web!Serves,
     Web!stateVars, Web!keyVars, Web!tokenVars, Web!clientVars, Web!historyVars
<1>18. ASSUME NEW t \in Tab, NEW yes \in BOOLEAN, Web!UpdateClient(t, yes) PROVE KeyPair'
  BY <1>18 DEF WebConstants, WebInv, Bounds, KeyPair, Web!KeyIsOfCertificate, Web!TypeOK,
     Web!Generation, Web!Absent, Web!Damaged, Web!UpdateClient, Web!Accept, Web!Serves,
     Web!Free, Web!SaveState, Web!Begin, Web!rest, Web!Ok, Web!stateVars, Web!keyVars,
     Web!tokenVars, Web!clientVars, Web!historyVars
<1>19. ASSUME NEW t \in Tab, NEW new \in Cred, Web!SavePassword(t, new) PROVE KeyPair'
  BY <1>19 DEF WebConstants, WebInv, Bounds, KeyPair, Web!KeyIsOfCertificate, Web!TypeOK,
     Web!Generation, Web!Absent, Web!Damaged, Web!SavePassword, Web!Accept, Web!Serves,
     Web!Free, Web!Begin, Web!Ok, Web!stateVars, Web!keyVars, Web!tokenVars,
     Web!clientVars, Web!historyVars
<1>20. ASSUME NEW t \in Tab, NEW op \in DOMAIN Web!Asks, Web!Refuse(t, op) PROVE KeyPair'
  BY <1>20 DEF WebConstants, WebInv, Bounds, KeyPair, Web!KeyIsOfCertificate, Web!TypeOK,
     Web!Generation, Web!Absent, Web!Damaged, Web!Refuse, Web!Serves, Web!stateVars,
     Web!keyVars, Web!tokenVars, Web!clientVars, Web!historyVars
<1>21. ASSUME NEW t \in Tab, NEW op \in DOMAIN Web!Asks, Web!Unpair(t, op) PROVE KeyPair'
  BY <1>21 DEF WebConstants, WebInv, Bounds, KeyPair, Web!KeyIsOfCertificate, Web!TypeOK,
     Web!Generation, Web!Absent, Web!Damaged, Web!Unpair, Web!Accept, Web!Serves,
     Web!Free, Web!SaveState, Web!Begin, Web!rest, Web!Ok, Web!stateVars, Web!keyVars,
     Web!tokenVars, Web!clientVars, Web!historyVars
<1>22. ASSUME NEW t \in Tab, NEW op \in DOMAIN Web!Asks, Web!Elsewhere(t, op) PROVE KeyPair'
  BY <1>22 DEF WebConstants, WebInv, Bounds, KeyPair, Web!KeyIsOfCertificate, Web!TypeOK,
     Web!Generation, Web!Absent, Web!Damaged, Web!Elsewhere, Web!Accept, Web!Serves,
     Web!rest, Web!Ok, Web!stateVars, Web!keyVars, Web!tokenVars, Web!clientVars,
     Web!historyVars
<1>23. ASSUME NEW t \in Tab, NEW op \in DOMAIN Web!Asks, Web!Ends(t, op) PROVE KeyPair'
  BY <1>23 DEF WebConstants, WebInv, Bounds, KeyPair, Web!KeyIsOfCertificate, Web!TypeOK,
     Web!Generation, Web!Absent, Web!Damaged, Web!Ends, Web!Accept, Web!Serves, Web!Ok,
     Web!stateVars, Web!keyVars, Web!tokenVars, Web!clientVars, Web!historyVars
<1> QED BY <1>1, <1>2, <1>3, <1>4, <1>5, <1>6, <1>7, <1>8, <1>9, <1>10, <1>11, <1>12,
     <1>13, <1>14, <1>15, <1>16, <1>17, <1>18, <1>19, <1>20, <1>21, <1>22, <1>23 DEF
     Web!Next

\* ... the tokens apart, ...
LEMMA TokenOfOneStep == ASSUME WebConstants, WebInv, Web!Next PROVE TokenOfOne'
<1>1. CASE Web!CreateKeys
  BY <1>1 DEF WebConstants, WebInv, TokenOfOne, Web!TypeOK, Web!NoToken, Web!CreateKeys,
     Web!stateVars, Web!keyVars, Web!tokenVars, Web!clientVars, Web!historyVars
<1>2. CASE Web!CreateCertificate
  BY <1>2 DEF WebConstants, WebInv, TokenOfOne, Web!TypeOK, Web!NoToken,
     Web!CreateCertificate, Web!Generation, Web!stateVars, Web!keyVars, Web!tokenVars,
     Web!clientVars, Web!historyVars
<1>3. CASE Web!Start
  BY <1>3 DEF WebConstants, WebInv, TokenOfOne, Web!TypeOK, Web!NoToken, Web!Start,
     Web!Load, Web!Generation, Web!stateVars, Web!keyVars, Web!tokenVars,
     Web!clientVars, Web!historyVars
<1>4. CASE Web!Crash
  BY <1>4 DEF WebConstants, WebInv, TokenOfOne, Web!TypeOK, Web!NoToken, Web!Crash,
     Web!stateVars, Web!keyVars, Web!tokenVars, Web!clientVars, Web!historyVars
<1>5. CASE Web!Remove
  BY <1>5 DEF WebConstants, WebInv, TokenOfOne, Web!TypeOK, Web!NoToken, Web!Remove,
     Web!stateVars, Web!keyVars, Web!tokenVars, Web!clientVars, Web!historyVars
<1>6. CASE Web!Pair
  BY <1>6 DEF WebConstants, WebInv, TokenOfOne, Web!TypeOK, Web!NoToken, Web!Pair,
     Web!Free, Web!SaveState, Web!Begin, Web!stateVars, Web!keyVars, Web!tokenVars,
     Web!clientVars, Web!historyVars
<1>7. CASE Web!Stream
  BY <1>7 DEF WebConstants, WebInv, TokenOfOne, Web!TypeOK, Web!NoToken, Web!Stream,
     Web!stateVars, Web!keyVars, Web!tokenVars, Web!clientVars, Web!historyVars
<1>8. CASE Web!Saved
  BY <1>8 DEF WebConstants, WebInv, TokenOfOne, Web!TypeOK, Web!NoToken, Web!Saved,
     Web!others, Web!stateVars, Web!keyVars, Web!tokenVars, Web!clientVars,
     Web!historyVars
<1>9. CASE Web!SavedState
  BY <1>9 DEF WebConstants, WebInv, TokenOfOne, Web!TypeOK, Web!NoToken, Web!SavedState,
     Web!others, Web!stateVars, Web!keyVars, Web!tokenVars, Web!clientVars,
     Web!historyVars
<1>10. ASSUME NEW s \in Web!Server, Web!Empties(s) PROVE TokenOfOne'
  BY <1>10 DEF WebConstants, WebInv, TokenOfOne, Web!TypeOK, Web!NoToken, Web!Empties,
     Web!others, Web!stateVars, Web!keyVars, Web!tokenVars, Web!clientVars,
     Web!historyVars
<1>11. ASSUME NEW s \in Web!Server, Web!Fills(s) PROVE TokenOfOne'
  BY <1>11 DEF WebConstants, WebInv, TokenOfOne, Web!TypeOK, Web!NoToken, Web!Fills,
     Web!others, Web!stateVars, Web!keyVars, Web!tokenVars, Web!clientVars,
     Web!historyVars
<1>12. ASSUME NEW c \in Cred, Web!HourPasses(c) PROVE TokenOfOne'
  BY <1>12 DEF WebConstants, WebInv, TokenOfOne, Web!TypeOK, Web!NoToken,
     Web!HourPasses, Web!stateVars, Web!keyVars, Web!tokenVars, Web!clientVars,
     Web!historyVars
<1>13. ASSUME NEW t \in Tab, Web!GetCSRFToken(t) PROVE TokenOfOne'
  <2>1. Web!ClientId(t) = cred /\ cred \in Cred
    BY <1>13 DEF Web!GetCSRFToken, Web!Authenticated, Web!ClientId, WebInv, Web!TypeOK
  <2>2. /\ token' = [Web!Kept EXCEPT ![cred] = [n |-> issued + 1, fresh |-> TRUE]]
        /\ issued' = issued + 1 /\ issued \in Nat
    BY <1>13, <2>1 DEF Web!GetCSRFToken, WebInv, Web!TypeOK
  <2>3. /\ Web!Kept \in [Cred \union {NoCred} -> [n : 0..MaxToken, fresh : BOOLEAN]]
        /\ \A c \in Cred \union {NoCred} : Web!Kept[c] \in {token[c], Web!NoToken}
    BY DEF Web!Kept, Web!NoToken, WebInv, Web!TypeOK, WebConstants
  <2>4. /\ token'[cred].n = issued + 1
        /\ \A c \in (Cred \union {NoCred}) \ {cred} : token'[c] \in {token[c], Web!NoToken}
    BY <2>1, <2>2, <2>3
  <2>5. token'[NoCred] = Web!NoToken
    BY <2>1, <2>4 DEF WebConstants, WebInv, TokenOfOne
  <2>6. \A c \in Cred \ {cred} : token'[c].n = token[c].n \/ token'[c].n = 0
    BY <2>4 DEF Web!NoToken
  <2>7. \A c \in Cred : token[c].n <= issued /\ token[c].n \in Nat
    BY DEF WebInv, TokenOfOne, Web!TypeOK
  <2>8. \A c \in Cred : token'[c].n <= issued'
    BY <2>1, <2>2, <2>4, <2>6, <2>7
  <2>9. \A c, d \in Cred : c # d /\ token'[c].n # 0 => token'[c].n # token'[d].n
    BY <2>1, <2>2, <2>4, <2>6, <2>7 DEF WebInv, TokenOfOne
  <2> QED BY <2>5, <2>8, <2>9 DEF TokenOfOne
<1>14. ASSUME NEW t \in Tab, Web!Login(t) PROVE TokenOfOne'
  BY <1>14 DEF WebConstants, WebInv, TokenOfOne, Web!TypeOK, Web!NoToken, Web!Login,
     Web!Serves, Web!stateVars, Web!keyVars, Web!tokenVars, Web!clientVars,
     Web!historyVars
<1>15. ASSUME NEW t \in Tab, Web!CloseApp(t) PROVE TokenOfOne'
  BY <1>15 DEF WebConstants, WebInv, TokenOfOne, Web!TypeOK, Web!NoToken, Web!CloseApp,
     Web!Accept, Web!Serves, Web!rest, Web!Ok, Web!stateVars, Web!keyVars,
     Web!tokenVars, Web!clientVars, Web!historyVars
<1>16. ASSUME NEW t \in Tab, NEW yes \in BOOLEAN, Web!GetPage(t, yes) PROVE TokenOfOne'
  BY <1>16 DEF WebConstants, WebInv, TokenOfOne, Web!TypeOK, Web!NoToken, Web!GetPage,
     Web!Serves, Web!stateVars, Web!keyVars, Web!tokenVars, Web!clientVars,
     Web!historyVars
<1>17. ASSUME NEW t \in Tab, NEW yes \in BOOLEAN, Web!SavePin(t, yes) PROVE TokenOfOne'
  BY <1>17 DEF WebConstants, WebInv, TokenOfOne, Web!TypeOK, Web!NoToken, Web!SavePin,
     Web!Accept, Web!Serves, Web!stateVars, Web!keyVars, Web!tokenVars, Web!clientVars,
     Web!historyVars
<1>18. ASSUME NEW t \in Tab, NEW yes \in BOOLEAN, Web!UpdateClient(t, yes) PROVE TokenOfOne'
  BY <1>18 DEF WebConstants, WebInv, TokenOfOne, Web!TypeOK, Web!NoToken,
     Web!UpdateClient, Web!Accept, Web!Serves, Web!Free, Web!SaveState, Web!Begin,
     Web!rest, Web!Ok, Web!stateVars, Web!keyVars, Web!tokenVars, Web!clientVars,
     Web!historyVars
<1>19. ASSUME NEW t \in Tab, NEW new \in Cred, Web!SavePassword(t, new) PROVE TokenOfOne'
  BY <1>19 DEF WebConstants, WebInv, TokenOfOne, Web!TypeOK, Web!NoToken,
     Web!SavePassword, Web!Accept, Web!Serves, Web!Free, Web!Begin, Web!Ok,
     Web!stateVars, Web!keyVars, Web!tokenVars, Web!clientVars, Web!historyVars
<1>20. ASSUME NEW t \in Tab, NEW op \in DOMAIN Web!Asks, Web!Refuse(t, op) PROVE TokenOfOne'
  <2>1. UNCHANGED issued /\ \A c \in Cred \union {NoCred} : token'[c] \in {token[c], Web!NoToken}
    BY <1>20 DEF WebInv, Web!TypeOK, Web!Refuse
  <2> QED BY <2>1, Forgotten
<1>21. ASSUME NEW t \in Tab, NEW op \in DOMAIN Web!Asks, Web!Unpair(t, op) PROVE TokenOfOne'
  BY <1>21 DEF WebConstants, WebInv, TokenOfOne, Web!TypeOK, Web!NoToken, Web!Unpair,
     Web!Accept, Web!Serves, Web!Free, Web!SaveState, Web!Begin, Web!rest, Web!Ok,
     Web!stateVars, Web!keyVars, Web!tokenVars, Web!clientVars, Web!historyVars
<1>22. ASSUME NEW t \in Tab, NEW op \in DOMAIN Web!Asks, Web!Elsewhere(t, op) PROVE TokenOfOne'
  BY <1>22 DEF WebConstants, WebInv, TokenOfOne, Web!TypeOK, Web!NoToken, Web!Elsewhere,
     Web!Accept, Web!Serves, Web!rest, Web!Ok, Web!stateVars, Web!keyVars,
     Web!tokenVars, Web!clientVars, Web!historyVars
<1>23. ASSUME NEW t \in Tab, NEW op \in DOMAIN Web!Asks, Web!Ends(t, op) PROVE TokenOfOne'
  BY <1>23 DEF WebConstants, WebInv, TokenOfOne, Web!TypeOK, Web!NoToken, Web!Ends,
     Web!Accept, Web!Serves, Web!Ok, Web!stateVars, Web!keyVars, Web!tokenVars,
     Web!clientVars, Web!historyVars
<1> QED BY <1>1, <1>2, <1>3, <1>4, <1>5, <1>6, <1>7, <1>8, <1>9, <1>10, <1>11, <1>12,
     <1>13, <1>14, <1>15, <1>16, <1>17, <1>18, <1>19, <1>20, <1>21, <1>22, <1>23 DEF
     Web!Next

\* ... and an excluded client out.
LEMMA ClientStep == ASSUME WebConstants, WebInv, Web!Next PROVE Client'
<1>1. CASE Web!CreateKeys
  BY <1>1 DEF WebInv, Client, Web!TypeOK, Web!CreateKeys, Web!stateVars, Web!keyVars,
     Web!tokenVars, Web!clientVars, Web!historyVars
<1>2. CASE Web!CreateCertificate
  BY <1>2 DEF WebInv, Client, Web!TypeOK, Web!CreateCertificate, Web!Generation,
     Web!stateVars, Web!keyVars, Web!tokenVars, Web!clientVars, Web!historyVars
<1>3. CASE Web!Start
  BY <1>3 DEF WebInv, Client, Web!TypeOK, Web!Start, Web!Load, Web!Generation,
     Web!stateVars, Web!keyVars, Web!tokenVars, Web!clientVars, Web!historyVars
<1>4. CASE Web!Crash
  BY <1>4 DEF WebInv, Client, Web!TypeOK, Web!Crash, Web!stateVars, Web!keyVars,
     Web!tokenVars, Web!clientVars, Web!historyVars
<1>5. CASE Web!Remove
  BY <1>5 DEF WebInv, Client, Web!TypeOK, Web!Remove, Web!stateVars, Web!keyVars,
     Web!tokenVars, Web!clientVars, Web!historyVars
<1>6. CASE Web!Pair
  BY <1>6 DEF WebInv, Client, Web!TypeOK, Web!Pair, Web!Free, Web!SaveState, Web!Begin,
     Web!stateVars, Web!keyVars, Web!tokenVars, Web!clientVars, Web!historyVars
<1>7. CASE Web!Stream
  BY <1>7 DEF WebInv, Client, Web!TypeOK, Web!Stream, Web!stateVars, Web!keyVars,
     Web!tokenVars, Web!clientVars, Web!historyVars
<1>8. CASE Web!Saved
  BY <1>8 DEF WebInv, Client, Web!TypeOK, Web!Saved, Web!others, Web!stateVars,
     Web!keyVars, Web!tokenVars, Web!clientVars, Web!historyVars
<1>9. CASE Web!SavedState
  BY <1>9 DEF WebInv, Client, Web!TypeOK, Web!SavedState, Web!others, Web!stateVars,
     Web!keyVars, Web!tokenVars, Web!clientVars, Web!historyVars
<1>10. ASSUME NEW s \in Web!Server, Web!Empties(s) PROVE Client'
  BY <1>10 DEF WebInv, Client, Web!TypeOK, Web!Empties, Web!others, Web!stateVars,
     Web!keyVars, Web!tokenVars, Web!clientVars, Web!historyVars
<1>11. ASSUME NEW s \in Web!Server, Web!Fills(s) PROVE Client'
  BY <1>11 DEF WebInv, Client, Web!TypeOK, Web!Fills, Web!others, Web!stateVars,
     Web!keyVars, Web!tokenVars, Web!clientVars, Web!historyVars
<1>12. ASSUME NEW c \in Cred, Web!HourPasses(c) PROVE Client'
  BY <1>12 DEF WebInv, Client, Web!TypeOK, Web!HourPasses, Web!stateVars, Web!keyVars,
     Web!tokenVars, Web!clientVars, Web!historyVars
<1>13. ASSUME NEW t \in Tab, Web!GetCSRFToken(t) PROVE Client'
  BY <1>13 DEF WebInv, Client, Web!TypeOK, Web!GetCSRFToken, Web!Serves, Web!Kept,
     Web!Ok, Web!stateVars, Web!keyVars, Web!tokenVars, Web!clientVars, Web!historyVars
<1>14. ASSUME NEW t \in Tab, Web!Login(t) PROVE Client'
  BY <1>14 DEF WebInv, Client, Web!TypeOK, Web!Login, Web!Serves, Web!stateVars,
     Web!keyVars, Web!tokenVars, Web!clientVars, Web!historyVars
<1>15. ASSUME NEW t \in Tab, Web!CloseApp(t) PROVE Client'
  BY <1>15 DEF WebInv, Client, Web!TypeOK, Web!CloseApp, Web!Accept, Web!Serves,
     Web!rest, Web!Ok, Web!stateVars, Web!keyVars, Web!tokenVars, Web!clientVars,
     Web!historyVars
<1>16. ASSUME NEW t \in Tab, NEW yes \in BOOLEAN, Web!GetPage(t, yes) PROVE Client'
  BY <1>16 DEF WebInv, Client, Web!TypeOK, Web!GetPage, Web!Serves, Web!stateVars,
     Web!keyVars, Web!tokenVars, Web!clientVars, Web!historyVars
<1>17. ASSUME NEW t \in Tab, NEW yes \in BOOLEAN, Web!SavePin(t, yes) PROVE Client'
  BY <1>17 DEF WebInv, Client, Web!TypeOK, Web!SavePin, Web!Accept, Web!Serves,
     Web!stateVars, Web!keyVars, Web!tokenVars, Web!clientVars, Web!historyVars
<1>18. ASSUME NEW t \in Tab, NEW yes \in BOOLEAN, Web!UpdateClient(t, yes) PROVE Client'
  BY <1>18 DEF WebInv, Client, Web!TypeOK, Web!UpdateClient, Web!Accept, Web!Serves,
     Web!Free, Web!SaveState, Web!Begin, Web!rest, Web!Ok, Web!stateVars, Web!keyVars,
     Web!tokenVars, Web!clientVars, Web!historyVars
<1>19. ASSUME NEW t \in Tab, NEW new \in Cred, Web!SavePassword(t, new) PROVE Client'
  BY <1>19 DEF WebInv, Client, Web!TypeOK, Web!SavePassword, Web!Accept, Web!Serves,
     Web!Free, Web!Begin, Web!Ok, Web!stateVars, Web!keyVars, Web!tokenVars,
     Web!clientVars, Web!historyVars
<1>20. ASSUME NEW t \in Tab, NEW op \in DOMAIN Web!Asks, Web!Refuse(t, op) PROVE Client'
  BY <1>20 DEF WebInv, Client, Web!TypeOK, Web!Refuse, Web!Serves, Web!stateVars,
     Web!keyVars, Web!tokenVars, Web!clientVars, Web!historyVars
<1>21. ASSUME NEW t \in Tab, NEW op \in DOMAIN Web!Asks, Web!Unpair(t, op) PROVE Client'
  BY <1>21 DEF WebInv, Client, Web!TypeOK, Web!Unpair, Web!Accept, Web!Serves, Web!Free,
     Web!SaveState, Web!Begin, Web!rest, Web!Ok, Web!stateVars, Web!keyVars,
     Web!tokenVars, Web!clientVars, Web!historyVars
<1>22. ASSUME NEW t \in Tab, NEW op \in DOMAIN Web!Asks, Web!Elsewhere(t, op) PROVE Client'
  BY <1>22 DEF WebInv, Client, Web!TypeOK, Web!Elsewhere, Web!Accept, Web!Serves,
     Web!rest, Web!Ok, Web!stateVars, Web!keyVars, Web!tokenVars, Web!clientVars,
     Web!historyVars
<1>23. ASSUME NEW t \in Tab, NEW op \in DOMAIN Web!Asks, Web!Ends(t, op) PROVE Client'
  BY <1>23 DEF WebInv, Client, Web!TypeOK, Web!Ends, Web!Accept, Web!Serves, Web!Ok,
     Web!stateVars, Web!keyVars, Web!tokenVars, Web!clientVars, Web!historyVars
<1> QED BY <1>1, <1>2, <1>3, <1>4, <1>5, <1>6, <1>7, <1>8, <1>9, <1>10, <1>11, <1>12,
     <1>13, <1>14, <1>15, <1>16, <1>17, <1>18, <1>19, <1>20, <1>21, <1>22, <1>23 DEF
     Web!Next

-----------------------------------------------------------------------------
\* A request that was let in by a token ...
LEMMA AcceptDoes ==
  ASSUME WebConstants, WebInv, NEW t \in Tab, NEW op, Web!Accept(t, op)
  PROVE  Web!IsLatest
<1> DEFINE id == Web!ClientId(t)
           n == IF "csrf" \in Web!Asks[op] /\ t \in Foreign THEN tab[t].token ELSE 0
<1>1. accepted' = [by |-> t, id |-> id, token |-> n]
  BY DEF Web!Accept
<1>2. accepted'.token = n /\ accepted'.id = id
  BY <1>1
<1> SUFFICES ASSUME n # 0
             PROVE  /\ token[id] = [n |-> n, fresh |-> TRUE]
                    /\ \A c \in DOMAIN token \ {id, NoCred} : token[c].n # n
  BY <1>2 DEF Web!IsLatest
<1>3. token[id].n = n /\ token[id].fresh /\ token[id].n # 0
  BY DEF Web!Accept, Web!Allowed, Web!ValidToken
<1>4. id \in Cred \union {NoCred} /\ DOMAIN token = Cred \union {NoCred}
  BY DEF WebInv, Web!TypeOK, Web!ClientId
<1>5. id \in Cred
  BY <1>3, <1>4 DEF WebInv, TokenOfOne, Web!NoToken
<1>6. token[id] \in [n : 0..MaxToken, fresh : BOOLEAN]
  BY <1>4 DEF WebInv, Web!TypeOK
<1>7. token[id] = [n |-> n, fresh |-> TRUE]
  BY <1>3, <1>6
<1>8. \A c \in Cred \ {id} : token[c].n # n
  BY <1>3, <1>5 DEF WebInv, TokenOfOne
<1> QED BY <1>4, <1>5, <1>7, <1>8

\* ... and the steps that let none in.
LEMMA NobodyIsLetIn ==
  ASSUME accepted' = accepted \/ accepted' = Web!Nobody PROVE Web!IsLatest
<1>1. Web!Nobody.token = 0
  BY DEF Web!Nobody
<1> QED BY <1>1 DEF Web!IsLatest

\* No step lets a request in by a token that is old, or another user's.
LEMMA LatestStep == ASSUME WebConstants, WebInv, Web!Next PROVE Web!IsLatest
<1>1. CASE Web!CreateKeys
  BY <1>1, NobodyIsLetIn DEF Web!CreateKeys, Web!tokenVars, Web!others
<1>2. CASE Web!CreateCertificate
  BY <1>2, NobodyIsLetIn DEF Web!CreateCertificate, Web!tokenVars, Web!others
<1>3. CASE Web!Start
  BY <1>3, NobodyIsLetIn DEF Web!Start, Web!tokenVars, Web!others
<1>4. CASE Web!Crash
  BY <1>4, NobodyIsLetIn DEF Web!Crash, Web!tokenVars, Web!others
<1>5. CASE Web!Remove
  BY <1>5, NobodyIsLetIn DEF Web!Remove, Web!tokenVars, Web!others
<1>6. CASE Web!Pair
  BY <1>6, NobodyIsLetIn DEF Web!Pair, Web!tokenVars, Web!others
<1>7. CASE Web!Stream
  BY <1>7, NobodyIsLetIn DEF Web!Stream, Web!tokenVars, Web!others
<1>8. CASE Web!Saved
  BY <1>8, NobodyIsLetIn DEF Web!Saved, Web!tokenVars, Web!others
<1>9. CASE Web!SavedState
  BY <1>9, NobodyIsLetIn DEF Web!SavedState, Web!tokenVars, Web!others
<1>10. ASSUME NEW s \in Web!Server, Web!Empties(s) PROVE Web!IsLatest
  BY <1>10, NobodyIsLetIn DEF Web!Empties, Web!tokenVars, Web!others
<1>11. ASSUME NEW s \in Web!Server, Web!Fills(s) PROVE Web!IsLatest
  BY <1>11, NobodyIsLetIn DEF Web!Fills, Web!tokenVars, Web!others
<1>12. ASSUME NEW c \in Cred, Web!HourPasses(c) PROVE Web!IsLatest
  BY <1>12, NobodyIsLetIn DEF Web!HourPasses, Web!tokenVars, Web!others
<1>13. ASSUME NEW t \in Tab, Web!GetCSRFToken(t) PROVE Web!IsLatest
  BY <1>13, NobodyIsLetIn DEF Web!GetCSRFToken, Web!tokenVars, Web!others
<1>14. ASSUME NEW t \in Tab, Web!Login(t) PROVE Web!IsLatest
  BY <1>14, NobodyIsLetIn DEF Web!Login, Web!tokenVars, Web!others
<1>15. ASSUME NEW t \in Tab, Web!CloseApp(t) PROVE Web!IsLatest
  BY <1>15, AcceptDoes DEF Web!CloseApp
<1>16. ASSUME NEW t \in Tab, NEW yes \in BOOLEAN, Web!GetPage(t, yes) PROVE Web!IsLatest
  BY <1>16, NobodyIsLetIn DEF Web!GetPage, Web!tokenVars, Web!others
<1>17. ASSUME NEW t \in Tab, NEW yes \in BOOLEAN, Web!SavePin(t, yes) PROVE Web!IsLatest
  BY <1>17, AcceptDoes DEF Web!SavePin
<1>18. ASSUME NEW t \in Tab, NEW yes \in BOOLEAN, Web!UpdateClient(t, yes) PROVE Web!IsLatest
  BY <1>18, AcceptDoes DEF Web!UpdateClient
<1>19. ASSUME NEW t \in Tab, NEW new \in Cred, Web!SavePassword(t, new) PROVE Web!IsLatest
  BY <1>19, AcceptDoes DEF Web!SavePassword
<1>20. ASSUME NEW t \in Tab, NEW op \in DOMAIN Web!Asks, Web!Refuse(t, op) PROVE Web!IsLatest
  BY <1>20, NobodyIsLetIn DEF Web!Refuse, Web!tokenVars, Web!others
<1>21. ASSUME NEW t \in Tab, NEW op \in DOMAIN Web!Asks, Web!Unpair(t, op) PROVE Web!IsLatest
  BY <1>21, AcceptDoes DEF Web!Unpair
<1>22. ASSUME NEW t \in Tab, NEW op \in DOMAIN Web!Asks, Web!Elsewhere(t, op) PROVE Web!IsLatest
  BY <1>22, AcceptDoes DEF Web!Elsewhere
<1>23. ASSUME NEW t \in Tab, NEW op \in DOMAIN Web!Asks, Web!Ends(t, op) PROVE Web!IsLatest
  BY <1>23, AcceptDoes DEF Web!Ends
<1> QED BY <1>1, <1>2, <1>3, <1>4, <1>5, <1>6, <1>7, <1>8, <1>9, <1>10, <1>11, <1>12,
     <1>13, <1>14, <1>15, <1>16, <1>17, <1>18, <1>19, <1>20, <1>21, <1>22, <1>23 DEF
     Web!Next

-----------------------------------------------------------------------------
LEMMA WebStarts == WebConstants /\ Web!Start0 => WebInv
<1> SUFFICES ASSUME WebConstants, Web!Start0 PROVE WebInv
  OBVIOUS
<1>1. PICK p \in {"off", "serving"}, c \in Cred \union {NoCred}, g \in {0, 1} :
        /\ Web!StartsAt(p, c, g)
        /\ p = "off" => c = NoCred /\ g = 0
  BY DEF Web!Start0, Web!Init, Web!SetUp, Web!Absent
<1>2. tokensFile = [cred |-> c, paired |-> FALSE]
  BY <1>1 DEF Web!StartsAt, Web!Empty
<1>3. tokensFile \in Web!Content /\ tokensFile.cred = c /\ tokensFile.paired = FALSE
  BY <1>2 DEF Web!Content
<1>4. Web!Idle \in [pc : {"idle", "write", "fill", "done"}, tree : Web!Content]
        /\ Web!Idle.pc = "idle"
  BY DEF Web!Idle, Web!Empty, Web!Content
<1>5. WriterType /\ \A s \in Web!Server : writer[s] = Web!Idle
  BY <1>1, <1>4 DEF WriterType, Web!StartsAt
<1>6. Web!NoToken \in [n : 0..MaxToken, fresh : BOOLEAN] /\ Web!NoToken.n = 0
  BY DEF Web!NoToken, WebConstants
<1>7. [cred |-> NoCred, token |-> 0] \in [cred : Cred \union {NoCred}, token : 0..MaxToken]
  BY DEF WebConstants
<1>8. TokenType
  BY <1>1, <1>6, <1>7 DEF TokenType, Web!StartsAt, WebConstants
<1>9. RestType
  <2>1. {0, 1} \subseteq 0..Web!Damaged /\ key = g /\ cert = g
    BY <1>1 DEF Web!Damaged, WebConstants, Web!StartsAt
  <2>2. {key, cert} \subseteq 0..Web!Damaged
    BY <2>1
  <2>3. paired = FALSE /\ tokensExcused = FALSE /\ enabled = TRUE /\ app = FALSE /\ slipped = FALSE
    BY <1>1 DEF Web!StartsAt
  <2> QED BY <1>1, <1>3, <2>2, <2>3 DEF RestType, Web!StartsAt
<1>10. Bounds /\ Client
  BY <1>1 DEF Bounds, Client, Web!StartsAt, WebConstants
<1>11. Writers
  BY <1>4, <1>5 DEF Writers
<1>12. Shared
  <2>1. tokensFile # Web!Torn
    BY <1>3, ContentIsNotTorn
  <2>2. "config" \in Web!Server /\ "game" \in Web!Server
    BY DEF Web!Server
  <2>3. cred = promised /\ tokensFile.cred = promised /\ tokensFile.paired = paired
    BY <1>1, <1>3 DEF Web!StartsAt
  <2>4. /\ writer["config"] = Web!Idle /\ writer["game"] = Web!Idle
        /\ \A s \in Web!Server : writer[s].pc # "done"
    BY <1>4, <1>5, <2>2
  <2> QED BY <2>1, <2>3, <2>4 DEF Shared
<1>13. KeyPair
  BY <1>1 DEF KeyPair, Web!StartsAt, Web!KeyIsOfCertificate, Web!Absent
<1>14. TokenOfOne
  BY <1>1, <1>6 DEF TokenOfOne, Web!StartsAt
<1> QED BY <1>5, <1>8, <1>9, <1>10, <1>11, <1>12, <1>13, <1>14, WebTypeParts DEF WebInv

LEMMA WebIsKept == WebConstants /\ WebInv /\ [Web!Next]_(Web!configVars) => WebInv'
<1> SUFFICES ASSUME WebConstants, WebInv, [Web!Next]_(Web!configVars) PROVE WebInv'
  OBVIOUS
<1>1. CASE Web!Next
  BY <1>1, TypesStep, BoundsStep, WritersStep, SharedStep, KeyPairStep, TokenOfOneStep,
     ClientStep DEF WebInv
<1>2. CASE UNCHANGED Web!configVars
  <2>1. UNCHANGED <<tokensUp, cred, paired, tokensFile, writer, key, cert, token, issued, tab,
                    accepted, enabled, tokensSession, app, slipped, promised, tokensExcused,
                    answer, tokensCrashes, removed>>
    BY <1>2 DEF Web!configVars, Web!stateVars, Web!keyVars, Web!tokenVars,
       Web!clientVars, Web!historyVars
  <2>2. Web!TypeOK'
    BY <2>1 DEF WebInv, Web!TypeOK
  <2>3. Bounds' /\ Writers' /\ Client'
    BY <2>1 DEF WebInv, Bounds, Writers, Client
  <2>4. Shared'
    BY <2>1 DEF WebInv, Shared
  <2>5. KeyPair'
    BY <2>1 DEF WebInv, KeyPair, Web!KeyIsOfCertificate, Web!Generation
  <2>6. TokenOfOne'
    BY <2>1 DEF WebInv, TokenOfOne
  <2> QED BY <2>2, <2>3, <2>4, <2>5, <2>6 DEF WebInv
<1> QED BY <1>1, <1>2

LEMMA WebInvHolds == WebConstants => (Web!Spec => []WebInv)
  <1> SUFFICES ASSUME WebConstants PROVE Web!Spec => []WebInv
    OBVIOUS
  <1>1. Web!Start0 => WebInv
    BY WebStarts
  <1>2. WebInv /\ [Web!Next]_(Web!configVars) => WebInv'
    BY WebIsKept
  <1> QED BY <1>1, <1>2, PTL DEF Web!Spec

LEMMA WebInvSuffices ==
  WebConstants /\ WebInv =>
    Web!TypeOK /\ Web!FileIsShared /\ Web!KeyIsOfCertificate /\ Web!DisabledIsOut
<1> SUFFICES ASSUME WebConstants, WebInv
             PROVE  Web!TypeOK /\ Web!FileIsShared /\ Web!KeyIsOfCertificate /\ Web!DisabledIsOut
  OBVIOUS
<1>1. Web!KeyIsOfCertificate /\ Web!DisabledIsOut
  BY DEF WebInv, KeyPair, Client, Web!DisabledIsOut
<1>2. Web!FileIsShared
  BY DEF WebInv, Shared, Web!FileIsShared, Web!Server
<1> QED BY <1>1, <1>2 DEF WebInv

LEMMA WebLatest == WebConstants => (Web!Spec => Web!TokenIsLatest)
  <1> SUFFICES ASSUME WebConstants PROVE Web!Spec => Web!TokenIsLatest
    OBVIOUS
  <1>1. Web!Spec => []WebInv
    BY WebInvHolds
  <1>2. WebInv /\ [Web!Next]_(Web!configVars) => [Web!IsLatest]_(Web!configVars)
    BY LatestStep
  <1> QED BY <1>1, <1>2, PTL DEF Web!Spec, Web!TokenIsLatest

-----------------------------------------------------------------------------
(* EncoderProbe *)

ProbeConstants ==
  /\ MaxProbe \in Nat /\ MaxChange \in Nat
  /\ \A g \in Cards : \A e \in Probe!Encoder : \A c \in Probe!Codec : g.can[e][c] \subseteq Probe!GpuConfig
  /\ \A w \in Wanted : w.hevc \in 0..5 /\ w.av1 \in 0..5
  /\ NoEncoder \notin Probe!Encoder

ModeOf(c) == IF c = "hevc" THEN wanted.hevc ELSE wanted.av1
Beyond == {"hevc", "av1"}

\* What validate_config() finds of an encoder when the capabilities remembered
\* of it do not stand in the way.
OpensTruly(e, c, f) ==
  /\ Probe!DeviceOpens(e, f)
  /\ IF Probe!Of[e].api = "nvenc" THEN Probe!NvencOpens(e, c, f)
     ELSE Probe!IsSupported(e, c, f) /\ Probe!CodecOpens(e, c, f) /\ Probe!FrameIsSet(e, c, f)

PassesTruly(e, c) ==
  /\ Probe!Tries(e, ModeOf(c)) /\ Probe!IsSupported(e, c, "PASSED")
  /\ \/ OpensTruly(e, c, "REF_FRAMES_RESTRICT")
     \/ ~OpensTruly(e, "h264", "REF_FRAMES_RESTRICT") /\ OpensTruly(e, c, "PASSED")

\* What the test of a feature finds.
TestTruly(e, c, f) ==
  /\ Probe!IsSupported(e, c, f) /\ OpensTruly(e, c, f)
  /\ (f = "DYNAMIC_RANGE_YUV444" /\ Probe!Of[e].api # "nvenc") =>
        Probe!IsSupported(e, c, "YUV444") /\ OpensTruly(e, c, "YUV444")

\* What a whole validation comes to.
MeetsTruly(e, c) ==
  ModeOf(c) >= 2 =>
    /\ PassesTruly(e, c)
    /\ ModeOf(c) = 5 => TestTruly(e, c, "DYNAMIC_RANGE") \/ TestTruly(e, c, "DYNAMIC_RANGE_YUV444")
    /\ ModeOf(c) = 4 => TestTruly(e, c, "DYNAMIC_RANGE_YUV444")
    /\ ModeOf(c) = 3 => TestTruly(e, c, "DYNAMIC_RANGE")
AllTruly(e) == MeetsTruly(e, "hevc") /\ MeetsTruly(e, "av1")
AllMet(e) == Probe!Meets(e, "hevc", wanted.hevc) /\ Probe!Meets(e, "av1", wanted.av1)

\* The test after which a feature is known.
TestOf(c, f) ==
  CASE c = "hevc" /\ f = "YUV444" -> 2 [] c = "hevc" /\ f = "DYNAMIC_RANGE" -> 3
    [] c = "hevc" /\ f = "DYNAMIC_RANGE_YUV444" -> 4
    [] c = "av1" /\ f = "YUV444" -> 5 [] c = "av1" /\ f = "DYNAMIC_RANGE" -> 6
    [] c = "av1" /\ f = "DYNAMIC_RANGE_YUV444" -> 7
Features == {"YUV444", "DYNAMIC_RANGE", "DYNAMIC_RANGE_YUV444"}

ProbeTyped ==
  /\ gpu \in Cards /\ wanted \in Wanted
  /\ encoder \in Probe!Encoder \union {NoEncoder} /\ previous \in Probe!Encoder \union {NoEncoder}
  /\ hevcMode \in 0..5 /\ av1Mode \in 0..5 /\ yuv444 \subseteq Probe!Codec
  /\ caps \in [Probe!Encoder -> [Probe!Codec -> SUBSET Probe!Capability]]
  /\ search \in {"idle", "configured", "constrained", "fallback"}
  /\ list \in Seq(Probe!Encoder) /\ Len(list) <= Len(Probe!Encoders)
  /\ pos \in 1..(Len(list) + 1) /\ test \in 0..8
  /\ plugged \in BOOLEAN /\ lost \in BOOLEAN /\ replaced \in BOOLEAN

\* While a search is under way nothing is decided, and the encoder under test is
\* one of those that are left, each once.
Searching ==
  /\ search # "idle" => encoder = NoEncoder /\ hevcMode = wanted.hevc /\ av1Mode = wanted.av1
                        /\ ~replaced
  /\ test > 0 => /\ search # "idle" /\ pos <= Len(list)
                 /\ search = "configured" => list[pos] = wanted.encoder
  /\ \A i, j \in 1..Len(list) : list[i] = list[j] => i = j

\* What is remembered of the encoder under test is true, as far as it was tested.
Exact ==
  (test > 0 /\ ~lost) => \A e \in Probe!Encoder : e = list[pos] =>
    \A c \in Beyond :
      /\ "PASSED" \in caps[e][c] <=> PassesTruly(e, c)
      /\ PassesTruly(e, c) => \A f \in Features :
           TestOf(c, f) < test => (f \in caps[e][c] <=> TestTruly(e, c, f))

\* No encoder that the search with constraints has left behind has what is
\* required, and asked again it says the same.
LeftBehind ==
  ~lost =>
    /\ search = "constrained" => \A i \in 1..(pos - 1) : ~AllMet(list[i]) /\ ~AllTruly(list[i])
    /\ (search = "fallback" /\ (wanted.hevc >= 2 \/ wanted.av1 >= 2)) =>
         \A i \in 1..Len(list) : ~AllTruly(list[i]) /\ (i # pos \/ test = 0 => ~AllMet(list[i]))

ProbeInv == ProbeTyped /\ Searching /\ Exact /\ LeftBehind
            /\ Probe!AutoIsTrue /\ Probe!RequirementIsMet

\* The encoders of a platform are each listed once.
LEMMA EncodersTyped ==
  /\ Probe!Encoders \in Seq(Probe!Encoder)
  /\ \A i, j \in 1..Len(Probe!Encoders) : Probe!Encoders[i] = Probe!Encoders[j] => i = j
<1>1. CASE gpu.platform = "windows"
  <2>1. Probe!Encoders = <<"nvenc", "quicksync", "amdvce", "mediafoundation", "software">>
    BY <1>1 DEF Probe!Encoders
  <2> QED BY <2>1 DEF Probe!Encoder
<1>2. CASE gpu.platform # "windows" /\ gpu.platform = "linux"
  <2>1. Probe!Encoders = <<"nvenc", "vulkan", "vaapi", "software">>
    BY <1>2 DEF Probe!Encoders
  <2> QED BY <2>1 DEF Probe!Encoder
<1>3. CASE gpu.platform # "windows" /\ gpu.platform # "linux"
  <2>1. Probe!Encoders = <<"videotoolbox", "software">>
    BY <1>3 DEF Probe!Encoders
  <2> QED BY <2>1 DEF Probe!Encoder
<1> QED BY <1>1, <1>2, <1>3

\* What two sequences are together.
LEMMA Joined ==
  ASSUME NEW S, NEW a \in Seq(S), NEW b \in Seq(S)
  PROVE  /\ a \o b \in Seq(S) /\ Len(a \o b) = Len(a) + Len(b)
         /\ \A j \in 1..(Len(a) + Len(b)) :
              (a \o b)[j] = IF j <= Len(a) THEN a[j] ELSE b[j - Len(a)]
  OBVIOUS

\* Taking one element out of a sequence.
LEMMA TakenOut ==
  ASSUME NEW S, NEW s \in Seq(S), NEW i \in 1..Len(s),
         NEW r, r = SubSeq(s, 1, i - 1) \o SubSeq(s, i + 1, Len(s))
  PROVE  /\ r \in Seq(S) /\ Len(r) = Len(s) - 1
         /\ \A j \in 1..Len(r) : r[j] = IF j < i THEN s[j] ELSE s[j + 1]
<1> DEFINE a == SubSeq(s, 1, i - 1)
           b == SubSeq(s, i + 1, Len(s))
<1>1. /\ a \in Seq(S) /\ Len(a) = i - 1
      /\ \A j \in 1..(i - 1) : a[j] = s[j]
  OBVIOUS
<1>2. /\ b \in Seq(S) /\ Len(b) = Len(s) - i
      /\ \A j \in 1..(Len(s) - i) : b[j] = s[j + i]
  OBVIOUS
<1> HIDE DEF a, b
<1>3. r = a \o b
  BY DEF a, b
<1>4. /\ r \in Seq(S) /\ Len(r) = (i - 1) + (Len(s) - i)
      /\ \A j \in 1..((i - 1) + (Len(s) - i)) : r[j] = IF j <= i - 1 THEN a[j] ELSE b[j - (i - 1)]
  <2>1. /\ a \o b \in Seq(S) /\ Len(a \o b) = Len(a) + Len(b)
        /\ \A j \in 1..(Len(a) + Len(b)) :
              (a \o b)[j] = IF j <= Len(a) THEN a[j] ELSE b[j - Len(a)]
    BY <1>1, <1>2, Joined
  <2> QED BY ONLY <1>1, <1>2, <1>3, <2>1
<1>5. Len(s) \in Nat /\ i \in Nat /\ i <= Len(s) /\ i >= 1
  OBVIOUS
<1>6. Len(r) = Len(s) - 1
  BY ONLY <1>4, <1>5
<1>7. ASSUME NEW j \in 1..Len(r)
      PROVE  r[j] = IF j < i THEN s[j] ELSE s[j + 1]
  <2>1. CASE j <= i - 1
    <3>1. j \in 1..(i - 1) /\ j < i /\ j \in 1..((i - 1) + (Len(s) - i))
      BY ONLY <1>4, <1>5, <2>1, j \in 1..Len(r)
    <3> QED BY ONLY <1>1, <1>4, <2>1, <3>1
  <2>2. CASE ~(j <= i - 1)
    <3>1. r[j] = b[j - (i - 1)] /\ j - (i - 1) \in 1..(Len(s) - i)
      BY ONLY <1>4, <1>5, <1>6, <2>2, j \in 1..Len(r)
    <3>2. (j - (i - 1)) + i = j + 1 /\ ~(j < i)
      BY ONLY <1>5, <1>6, <2>2, j \in 1..Len(r)
    <3>3. b[j - (i - 1)] = s[(j - (i - 1)) + i]
      BY ONLY <1>2, <3>1
    <3> QED BY ONLY <3>1, <3>2, <3>3
  <2> QED BY <2>1, <2>2
<1> QED BY <1>4, <1>6, <1>7

\* The card alone decides what opens, and its platform which encoders there are.
LEMMA TrulyStays ==
  ASSUME gpu' = gpu, wanted' = wanted
  PROVE  /\ Probe!Encoders' = Probe!Encoders /\ Probe!Of' = Probe!Of
         /\ \A e, c, f : /\ Probe!IsSupported(e, c, f)' <=> Probe!IsSupported(e, c, f)
                         /\ OpensTruly(e, c, f)' <=> OpensTruly(e, c, f)
                         /\ TestTruly(e, c, f)' <=> TestTruly(e, c, f)
         /\ \A e, c : PassesTruly(e, c)' <=> PassesTruly(e, c)
         /\ \A e : AllTruly(e)' <=> AllTruly(e)
<1>1. Probe!Encoders' = Probe!Encoders /\ Probe!Of' = Probe!Of
  BY DEF Probe!Encoders, Probe!Of
<1>2. ASSUME NEW e, NEW c, NEW f
      PROVE  Probe!IsSupported(e, c, f)' <=> Probe!IsSupported(e, c, f)
  BY <1>1 DEF Probe!IsSupported
<1>3. ASSUME NEW e, NEW f
      PROVE  Probe!DeviceOpens(e, f)' <=> Probe!DeviceOpens(e, f)
  BY <1>1 DEF Probe!DeviceOpens, Probe!Converts, Probe!PixelFormat
<1>4. ASSUME NEW e, NEW c, NEW f
      PROVE  Probe!NvencOpens(e, c, f)' <=> Probe!NvencOpens(e, c, f)
  BY DEF Probe!NvencOpens
<1>5. ASSUME NEW e, NEW c, NEW f
      PROVE  Probe!CodecOpens(e, c, f)' <=> Probe!CodecOpens(e, c, f)
  BY <1>1 DEF Probe!CodecOpens, Probe!Options
<1>6. ASSUME NEW e, NEW c, NEW f
      PROVE  Probe!FrameIsSet(e, c, f)' <=> Probe!FrameIsSet(e, c, f)
  BY DEF Probe!FrameIsSet
<1>7. ASSUME NEW e, NEW c, NEW f
      PROVE  OpensTruly(e, c, f)' <=> OpensTruly(e, c, f)
  BY <1>1, <1>2, <1>3, <1>4, <1>5, <1>6 DEF OpensTruly
<1>8. ASSUME NEW e, NEW c, NEW f
      PROVE  TestTruly(e, c, f)' <=> TestTruly(e, c, f)
  BY <1>1, <1>2, <1>7 DEF TestTruly
<1>9. ASSUME NEW e, NEW c
      PROVE  PassesTruly(e, c)' <=> PassesTruly(e, c)
  BY <1>1, <1>2, <1>7 DEF PassesTruly, Probe!Tries, ModeOf
<1>10. ASSUME NEW e
       PROVE  AllTruly(e)' <=> AllTruly(e)
  BY <1>8, <1>9 DEF AllTruly, MeetsTruly, ModeOf
<1> QED BY <1>1, <1>2, <1>7, <1>8, <1>9, <1>10

\* A host that starts satisfies the invariant of the probe.
LEMMA ProbeStart ==
  ASSUME ProbeConstants, Probe!Init
  PROVE  ProbeInv
<1>1. ProbeTyped
  <2>1. caps \in [Probe!Encoder -> [Probe!Codec -> SUBSET Probe!Capability]]
    BY DEF Probe!Init
  <2>2. list \in Seq(Probe!Encoder) /\ Len(list) = 0 /\ Len(Probe!Encoders) \in Nat
    BY EncodersTyped DEF Probe!Init
  <2>3. /\ encoder \in Probe!Encoder \union {NoEncoder} /\ previous \in Probe!Encoder \union {NoEncoder}
        /\ hevcMode \in 0..5 /\ av1Mode \in 0..5 /\ yuv444 \subseteq Probe!Codec
        /\ gpu \in Cards /\ wanted \in Wanted
    BY DEF Probe!Init
  <2>4. pos \in 1..(Len(list) + 1) /\ test \in 0..8 /\ Len(list) <= Len(Probe!Encoders)
    BY <2>2 DEF Probe!Init
  <2>5. plugged \in BOOLEAN /\ lost \in BOOLEAN /\ replaced \in BOOLEAN
        /\ search \in {"idle", "configured", "constrained", "fallback"}
    BY DEF Probe!Init
  <2> QED BY <2>1, <2>2, <2>3, <2>4, <2>5 DEF ProbeTyped
<1>2. Searching
  BY DEF Searching, Probe!Init
<1>3. Exact /\ LeftBehind /\ Probe!AutoIsTrue /\ Probe!RequirementIsMet
  BY DEF Exact, LeftBehind, Probe!AutoIsTrue, Probe!RequirementIsMet, Probe!Undisturbed, Probe!Init
<1> QED BY <1>1, <1>2, <1>3 DEF ProbeInv

\* What a validation leaves are capabilities.
LEMMA CapsTyped ==
  ASSUME ProbeTyped
  PROVE  /\ \A e, c, m : Probe!Probed(e, c, m) \in SUBSET Probe!Capability
         /\ \A e : Probe!ProbedH264(e) \in SUBSET Probe!Capability
         /\ \A e \in Probe!Encoder, c \in Probe!Codec, f \in Probe!Capability :
              Probe!Tested(e, c, f) \in SUBSET Probe!Capability
<1>1. ASSUME NEW e, NEW c, NEW m
      PROVE  Probe!Probed(e, c, m) \in SUBSET Probe!Capability
  BY DEF Probe!Probed
<1>2. ASSUME NEW e
      PROVE  Probe!ProbedH264(e) \in SUBSET Probe!Capability
  BY DEF Probe!ProbedH264
<1>3. ASSUME NEW e \in Probe!Encoder, NEW c \in Probe!Codec, NEW f \in Probe!Capability
      PROVE  Probe!Tested(e, c, f) \in SUBSET Probe!Capability
  <2>1. caps[e][c] \in SUBSET Probe!Capability
    BY DEF ProbeTyped
  <2> QED BY <2>1 DEF Probe!Tested
<1> QED BY <1>1, <1>2, <1>3

\* The modes that a choice leaves.
LEMMA ModesTyped ==
  ASSUME ProbeTyped, NEW e
  PROVE  /\ Probe!Settled(e, "hevc", Probe!Adjusted(e)[1]) \in 0..5
         /\ Probe!Settled(e, "av1", Probe!Adjusted(e)[2]) \in 0..5
<1>1. ASSUME NEW c PROVE Probe!AutoMode(e, c) \in 1..5
  BY DEF Probe!AutoMode
<1>2. ASSUME NEW c, NEW m \in 0..5 PROVE Probe!Settled(e, c, m) \in 0..5
  BY <1>1 DEF Probe!Settled
<1>3. ASSUME NEW m \in 0..5 PROVE Probe!AdjustHevc(e, m) \in 0..5
  BY DEF Probe!AdjustHevc
<1>4. ASSUME NEW m \in 0..5, NEW n \in 0..5
      PROVE  Probe!AdjustAv1(e, m, n)[1] \in 0..5 /\ Probe!AdjustAv1(e, m, n)[2] \in 0..5
  BY DEF Probe!AdjustAv1
<1>5. Probe!Adjusted(e)[1] \in 0..5 /\ Probe!Adjusted(e)[2] \in 0..5
  BY <1>3, <1>4 DEF Probe!Adjusted, ProbeTyped
<1> QED BY <1>2, <1>5

\* The tests of the features, in their order.
LEMMA TestsAre ==
  /\ Len(Probe!Tests) = 7
  /\ \A t \in 1..7 : Probe!Tests[t][1] \in Probe!Codec /\ Probe!Tests[t][2] \in Features
  /\ \A t \in 1..7 : \A c \in Beyond, f \in Features :
       TestOf(c, f) = t <=> Probe!Tests[t][1] = c /\ Probe!Tests[t][2] = f
  /\ \A c \in Beyond, f \in Features : TestOf(c, f) \in 2..7
  /\ \A c \in Beyond : TestOf(c, "YUV444") < TestOf(c, "DYNAMIC_RANGE_YUV444")
<1>1. Len(Probe!Tests) = 7
  BY DEF Probe!Tests
<1>2. ASSUME NEW t \in 1..7
      PROVE  /\ Probe!Tests[t][1] \in Probe!Codec /\ Probe!Tests[t][2] \in Features
             /\ \A c \in Beyond, f \in Features :
                  TestOf(c, f) = t <=> Probe!Tests[t][1] = c /\ Probe!Tests[t][2] = f
  <2>1. t = 1 \/ t = 2 \/ t = 3 \/ t = 4 \/ t = 5 \/ t = 6 \/ t = 7
    OBVIOUS
  <2> QED BY <2>1 DEF Probe!Tests, Probe!Codec, Features, Beyond, TestOf
<1>3. \A c \in Beyond, f \in Features : TestOf(c, f) \in 2..7
  BY DEF Beyond, Features, TestOf
<1>4. \A c \in Beyond : TestOf(c, "YUV444") < TestOf(c, "DYNAMIC_RANGE_YUV444")
  BY DEF Beyond, TestOf
<1> QED BY <1>1, <1>2, <1>3, <1>4

\* The encoder under test is one of the list.
LEMMA ThisTyped ==
  ASSUME ProbeTyped, Searching
  PROVE  /\ pos <= Len(list) => Probe!This \in Probe!Encoder
         /\ test > 0 => Probe!This \in Probe!Encoder /\ pos \in 1..Len(list)
         /\ \A i \in 1..Len(list) : list[i] \in Probe!Encoder
         /\ Len(list) \in Nat
  BY DEF ProbeTyped, Searching, Probe!This

\* What a rejection leaves of the list.
LEMMA Rejected ==
  ASSUME ProbeTyped, Searching, Probe!Reject
  PROVE  /\ list' \in Seq(Probe!Encoder) /\ Len(list') = Len(list) - 1
         /\ pos \in 1..Len(list)
         /\ \A j \in 1..Len(list') : list'[j] = IF j < pos THEN list[j] ELSE list[j + 1]
<1>1. pos \in 1..Len(list) /\ list \in Seq(Probe!Encoder)
  BY DEF ProbeTyped, Probe!Reject, Probe!AtEnd
<1>2. list' = SubSeq(list, 1, pos - 1) \o SubSeq(list, pos + 1, Len(list))
  BY DEF Probe!Reject
<1>3. ASSUME NEW r, r = SubSeq(list, 1, pos - 1) \o SubSeq(list, pos + 1, Len(list))
      PROVE  /\ r \in Seq(Probe!Encoder) /\ Len(r) = Len(list) - 1
             /\ \A j \in 1..Len(r) : r[j] = IF j < pos THEN list[j] ELSE list[j + 1]
  BY ONLY <1>1, <1>3, TakenOut, ZenonT(30)
<1> QED BY ONLY <1>1, <1>2, <1>3, ZenonT(30)

\* The table of capabilities after one encoder, or one codec of it, was written.
LEMMA CapsWritten ==
  ASSUME ProbeTyped, NEW e \in Probe!Encoder
  PROVE  /\ \A F \in [Probe!Codec -> SUBSET Probe!Capability] :
              /\ [caps EXCEPT ![e] = F] \in [Probe!Encoder -> [Probe!Codec -> SUBSET Probe!Capability]]
              /\ [caps EXCEPT ![e] = F][e] = F
              /\ \A d \in Probe!Encoder : d # e => [caps EXCEPT ![e] = F][d] = caps[d]
         /\ \A c \in Probe!Codec, S \in SUBSET Probe!Capability :
              /\ [caps EXCEPT ![e][c] = S] \in [Probe!Encoder -> [Probe!Codec -> SUBSET Probe!Capability]]
              /\ [caps EXCEPT ![e][c] = S][e][c] = S
              /\ \A b \in Probe!Codec : b # c => [caps EXCEPT ![e][c] = S][e][b] = caps[e][b]
              /\ \A d \in Probe!Encoder : d # e => [caps EXCEPT ![e][c] = S][d] = caps[d]
<1>1. caps \in [Probe!Encoder -> [Probe!Codec -> SUBSET Probe!Capability]]
  BY DEF ProbeTyped
<1> HIDE DEF Probe!Encoder, Probe!Codec, Probe!Capability
<1>2. ASSUME NEW F \in [Probe!Codec -> SUBSET Probe!Capability]
      PROVE  /\ [caps EXCEPT ![e] = F] \in [Probe!Encoder -> [Probe!Codec -> SUBSET Probe!Capability]]
             /\ [caps EXCEPT ![e] = F][e] = F
             /\ \A d \in Probe!Encoder : d # e => [caps EXCEPT ![e] = F][d] = caps[d]
  BY <1>1
<1>3. ASSUME NEW c \in Probe!Codec, NEW S \in SUBSET Probe!Capability
      PROVE  /\ [caps EXCEPT ![e][c] = S] \in [Probe!Encoder -> [Probe!Codec -> SUBSET Probe!Capability]]
             /\ [caps EXCEPT ![e][c] = S][e][c] = S
             /\ \A b \in Probe!Codec : b # c => [caps EXCEPT ![e][c] = S][e][b] = caps[e][b]
             /\ \A d \in Probe!Encoder : d # e => [caps EXCEPT ![e][c] = S][d] = caps[d]
  BY <1>1
<1> QED BY <1>2, <1>3

\* What the two steps of a validation write, and nothing else.
LEMMA CapsOfSteps ==
  ASSUME ProbeTyped, Searching, Probe!TryCodecs \/ Probe!Reject \/ Probe!Feature
  PROVE  /\ caps' \in [Probe!Encoder -> [Probe!Codec -> SUBSET Probe!Capability]]
         /\ Probe!This \in Probe!Encoder /\ pos \in 1..Len(list)
         /\ \A e \in Probe!Encoder : e # Probe!This => caps'[e] = caps[e]
<1>1. CASE Probe!TryCodecs
  <2>1. Probe!This \in Probe!Encoder /\ pos \in 1..Len(list)
    BY <1>1 DEF ProbeTyped, Probe!TryCodecs, Probe!AtEnd, Probe!This
  <2> DEFINE F == [c \in Probe!Codec |-> IF c = "h264" THEN Probe!ProbedH264(Probe!This)
                      ELSE Probe!Probed(Probe!This, c, IF c = "hevc" THEN hevcMode ELSE av1Mode)]
  <2>2. F \in [Probe!Codec -> SUBSET Probe!Capability]
    BY CapsTyped
  <2>3. caps' = [caps EXCEPT ![Probe!This] = F]
    BY <1>1 DEF Probe!TryCodecs
  <2> HIDE DEF F
  <2> QED BY <2>1, <2>2, <2>3, CapsWritten
<1>2. CASE Probe!Reject
  <2>1. Probe!This \in Probe!Encoder /\ pos \in 1..Len(list)
    BY <1>2 DEF ProbeTyped, Probe!Reject, Probe!AtEnd, Probe!This
  <2> DEFINE F == [c \in Probe!Codec |-> Probe!Capability]
  <2>2. F \in [Probe!Codec -> SUBSET Probe!Capability]
    OBVIOUS
  <2>3. caps' = [caps EXCEPT ![Probe!This] = F]
    BY <1>2 DEF Probe!Reject
  <2> HIDE DEF F
  <2> QED BY <2>1, <2>2, <2>3, CapsWritten
<1>3. CASE Probe!Feature
  <2>1. test \in 1..7
    BY <1>3, TestsAre DEF Probe!Feature
  <2>2. Probe!This \in Probe!Encoder /\ pos \in 1..Len(list)
    BY <2>1, ThisTyped
  <2> DEFINE c == Probe!Tests[test][1]
             S == Probe!Tested(Probe!This, c, Probe!Tests[test][2])
  <2>3. c \in Probe!Codec /\ Probe!Tests[test][2] \in Features
    BY <2>1, TestsAre
  <2>4. S \in SUBSET Probe!Capability
    BY <2>2, <2>3, CapsTyped DEF Features, Probe!Capability
  <2>5. caps' = [caps EXCEPT ![Probe!This][c] = S]
    BY <1>3 DEF Probe!Feature
  <2> HIDE DEF c, S
  <2> QED BY <2>2, <2>3, <2>4, <2>5, CapsWritten
<1> QED BY <1>1, <1>2, <1>3

\* Every step keeps the types and the place in the list.
LEMMA TypedKept ==
  ASSUME ProbeConstants, ProbeTyped, Searching, Probe!Next
  PROVE  ProbeTyped'
<1>1. Len(Probe!Encoders) \in Nat
  BY EncodersTyped
<1>2. Len(list) \in Nat /\ pos \in Nat /\ test \in Nat
  BY DEF ProbeTyped
<1>3. CASE Probe!Plug
  BY <1>3 DEF Probe!Plug, ProbeTyped, Probe!Encoders
<1>4. CASE Probe!NewDriver
  <2>1. Probe!Encoders' = Probe!Encoders
    BY <1>4 DEF Probe!NewDriver, Probe!Encoders
  <2>2. Len(Probe!Encoders)' = Len(Probe!Encoders)
    BY <2>1
  <2> QED BY <1>4, <2>2 DEF Probe!NewDriver, ProbeTyped
<1> SUFFICES ASSUME gpu' = gpu /\ wanted' = wanted, Probe!Encoders' = Probe!Encoders,
                    Len(Probe!Encoders)' = Len(Probe!Encoders)
             PROVE  ProbeTyped'
  BY <1>3, <1>4 DEF Probe!Next, Probe!Begin, Probe!PassOver, Probe!NextSearch, Probe!Reject,
     Probe!TryCodecs, Probe!Feature, Probe!Skip, Probe!Choose, Probe!Encoders
<1>5. CASE Probe!Begin
  <2>1. list' = Probe!Encoders /\ pos' = 1 /\ test' = 0 /\ search' = "configured"
    BY <1>5 DEF Probe!Begin, Probe!Enter
  <2>2. list' \in Seq(Probe!Encoder) /\ Len(list') \in Nat /\ Len(list') = Len(Probe!Encoders)
    BY <2>1, EncodersTyped
  <2>3. hevcMode' \in 0..5 /\ av1Mode' \in 0..5
    BY <1>5 DEF Probe!Begin, ProbeTyped, ProbeConstants
  <2>4. pos' \in 1..(Len(list') + 1) /\ Len(list') <= Len(Probe!Encoders)
    BY <2>1, <2>2
  <2>5. encoder' \in Probe!Encoder \union {NoEncoder} /\ previous' \in Probe!Encoder \union {NoEncoder}
    BY <1>5 DEF Probe!Begin, ProbeTyped
  <2>6. UNCHANGED <<gpu, wanted, plugged, yuv444, caps>> /\ lost' = FALSE /\ replaced' = FALSE
    BY <1>5 DEF Probe!Begin
  <2>7. /\ gpu' \in Cards /\ wanted' \in Wanted /\ plugged' \in BOOLEAN /\ yuv444' \subseteq Probe!Codec
        /\ caps' \in [Probe!Encoder -> [Probe!Codec -> SUBSET Probe!Capability]]
        /\ lost' \in BOOLEAN /\ replaced' \in BOOLEAN
    BY <2>6 DEF ProbeTyped
  <2>8. test' \in 0..8 /\ search' \in {"idle", "configured", "constrained", "fallback"}
    BY <2>1
  <2>9. Len(list') <= Len(Probe!Encoders)'
    BY <2>4
  <2> QED BY <2>2, <2>3, <2>4, <2>5, <2>7, <2>8, <2>9 DEF ProbeTyped
<1>6. CASE Probe!PassOver
  <2>1. pos' \in 1..(Len(list) + 1)
    BY <1>6 DEF Probe!PassOver, ProbeTyped, Probe!AtEnd
  <2> QED BY <1>6, <2>1 DEF Probe!PassOver, ProbeTyped
<1>7. CASE Probe!NextSearch
  <2>1. pos' = 1 /\ test' = 0 /\ search' \in {"idle", "configured", "constrained", "fallback"}
    BY <1>7 DEF Probe!NextSearch, Probe!Enter
  <2>2. pos' \in 1..(Len(list) + 1)
    BY <1>2, <2>1
  <2> QED BY <1>7, <2>1, <2>2 DEF Probe!NextSearch, ProbeTyped
<1>8. CASE Probe!Reject
  <2>1. caps' \in [Probe!Encoder -> [Probe!Codec -> SUBSET Probe!Capability]]
    BY <1>8, CapsOfSteps
  <2>2. list' \in Seq(Probe!Encoder) /\ Len(list') = Len(list) - 1 /\ pos \in 1..Len(list)
    BY <1>8, Rejected
  <2>3. Len(list') <= Len(Probe!Encoders) /\ pos' \in 1..(Len(list') + 1)
    <3>1. pos' = Len(list) \/ pos' = pos
      BY <1>8 DEF Probe!Reject
    <3>2. Len(list) <= Len(Probe!Encoders)
      BY DEF ProbeTyped
    <3> QED BY <1>1, <1>2, <2>2, <3>1, <3>2
  <2> QED BY <1>8, <2>1, <2>2, <2>3 DEF Probe!Reject, ProbeTyped
<1>9. CASE Probe!TryCodecs
  <2>1. caps' \in [Probe!Encoder -> [Probe!Codec -> SUBSET Probe!Capability]]
    BY <1>9, CapsOfSteps
  <2> QED BY <1>9, <2>1 DEF Probe!TryCodecs, ProbeTyped
<1>10. CASE Probe!Feature
  <2>1. caps' \in [Probe!Encoder -> [Probe!Codec -> SUBSET Probe!Capability]]
    BY <1>10, CapsOfSteps
  <2>2. test' \in 0..8
    BY <1>10, TestsAre DEF Probe!Feature
  <2> QED BY <1>10, <2>1, <2>2 DEF Probe!Feature, ProbeTyped
<1>11. CASE Probe!Skip
  <2>1. pos \in 1..Len(list)
    BY <1>11, TestsAre, ThisTyped DEF Probe!Skip, Probe!TestsDone, ProbeTyped
  <2>2. pos' \in 1..(Len(list) + 1)
    BY <1>2, <1>11, <2>1 DEF Probe!Skip
  <2> QED BY <1>11, <2>2 DEF Probe!Skip, ProbeTyped
<1>12. CASE Probe!Choose
  <2>1. Probe!This \in Probe!Encoder
    BY <1>2, <1>12, TestsAre, ThisTyped DEF Probe!Choose, Probe!TestsDone
  <2>2. hevcMode' \in 0..5 /\ av1Mode' \in 0..5
    BY <1>12, ModesTyped DEF Probe!Choose
  <2>3. pos' = 1 /\ test' = 0 /\ search' = "idle"
    BY <1>12 DEF Probe!Choose, Probe!Enter
  <2>4. pos' \in 1..(Len(list) + 1)
    BY <1>2, <2>3
  <2>5. yuv444' \subseteq Probe!Codec
    BY <1>12 DEF Probe!Choose
  <2> QED BY <1>12, <2>1, <2>2, <2>3, <2>4, <2>5 DEF Probe!Choose, ProbeTyped
<1> QED BY <1>3, <1>4, <1>5, <1>6, <1>7, <1>8, <1>9, <1>10, <1>11, <1>12 DEF Probe!Next

\* Every step keeps what a search under way may rely on.
LEMMA SearchingKept ==
  ASSUME ProbeConstants, ProbeTyped, Searching, Probe!Next
  PROVE  Searching'
<1>0. Len(list) \in Nat /\ pos \in Nat /\ test \in 0..8
  BY DEF ProbeTyped
<1>1. CASE Probe!Plug
  BY <1>1 DEF Probe!Plug, Searching
<1>2. CASE Probe!NewDriver
  BY <1>0, <1>2 DEF Probe!NewDriver, Searching
<1>3. CASE Probe!Begin
  <2>1. list' = Probe!Encoders /\ test' = 0 /\ encoder' = NoEncoder /\ replaced' = FALSE
        /\ hevcMode' = wanted.hevc /\ av1Mode' = wanted.av1 /\ wanted' = wanted
    BY <1>3 DEF Probe!Begin, Probe!Enter
  <2>2. \A i, j \in 1..Len(list') : list'[i] = list'[j] => i = j
    BY <2>1, EncodersTyped
  <2> QED BY <2>1, <2>2 DEF Searching
<1>4. CASE Probe!PassOver
  <2>1. test = 0
    BY <1>0, <1>4 DEF Searching, Probe!PassOver, Probe!This
  <2> QED BY <1>4, <2>1 DEF Probe!PassOver, Searching
<1>5. CASE Probe!NextSearch
  <2>1. test' = 0 /\ search # "idle"
    BY <1>5 DEF Probe!NextSearch, Probe!Enter
  <2> QED BY <1>5, <2>1 DEF Probe!NextSearch, Searching
<1>6. CASE Probe!Reject
  <2>1. /\ Len(list') = Len(list) - 1 /\ pos \in 1..Len(list)
        /\ \A j \in 1..Len(list') : list'[j] = IF j < pos THEN list[j] ELSE list[j + 1]
    BY <1>6, Rejected
  <2>2. ASSUME NEW i \in 1..Len(list'), NEW j \in 1..Len(list'), list'[i] = list'[j]
        PROVE  i = j
    <3> DEFINE At(k) == IF k < pos THEN k ELSE k + 1
    <3>1. \A k \in 1..Len(list') : At(k) \in 1..Len(list) /\ list'[k] = list[At(k)]
      BY <1>0, <2>1
    <3>2. At(i) = At(j)
      <4> HIDE DEF At
      <4> QED BY <2>2, <3>1 DEF Searching
    <3> QED BY <1>0, <2>1, <3>2
  <2>3. test' = 0 /\ search' = search /\ search # "idle"
    BY <1>6 DEF Probe!Reject
  <2>4. encoder' = encoder /\ hevcMode' = hevcMode /\ av1Mode' = av1Mode /\ wanted' = wanted
        /\ replaced' = replaced
    BY <1>6 DEF Probe!Reject
  <2>5. encoder = NoEncoder /\ hevcMode = wanted.hevc /\ av1Mode = wanted.av1 /\ ~replaced
    BY <2>3 DEF Searching
  <2>6. ~(test' > 0)
    BY <2>3
  <2> QED BY <2>2, <2>4, <2>5, <2>6 DEF Searching
<1>7. CASE Probe!TryCodecs
  <2>1. pos <= Len(list)
    BY <1>0, <1>7 DEF Probe!TryCodecs, Probe!AtEnd
  <2> QED BY <1>7, <2>1 DEF Probe!TryCodecs, Probe!This, Searching
<1>8. CASE Probe!Feature
  <2>1. test > 0
    BY <1>0, <1>8, TestsAre DEF Probe!Feature
  <2> QED BY <1>8, <2>1 DEF Probe!Feature, Searching
<1>9. CASE Probe!Skip
  BY <1>0, <1>9 DEF Probe!Skip, Searching
<1>10. CASE Probe!Choose
  BY <1>0, <1>10 DEF Probe!Choose, Probe!Enter, Searching
<1> QED BY <1>1, <1>2, <1>3, <1>4, <1>5, <1>6, <1>7, <1>8, <1>9, <1>10 DEF Probe!Next

\* Whether a session opens depends on what is remembered for one feature only.
LEMMA OpensIs ==
  ASSUME NEW e, NEW c, NEW f
  PROVE  Probe!Opens(e, c, f) <=>
           /\ OpensTruly(e, c, f)
           /\ (f = "DYNAMIC_RANGE_YUV444" /\ Probe!Of[e].api # "nvenc") => "YUV444" \in caps[e][c]
<1> HIDE DEF Probe!Of
<1> QED BY DEF Probe!Opens, Probe!SessionOpens, Probe!AvcodecOpens, Probe!Gate, OpensTruly

\* What the three codecs are tried for is what they do.
LEMMA CodecsAreTrue ==
  ASSUME ProbeTyped, Searching, Probe!TryCodecs, NEW c \in Beyond
  PROVE  "PASSED" \in caps'[Probe!This][c] <=> PassesTruly(Probe!This, c)
<1>1. Probe!This \in Probe!Encoder
  BY CapsOfSteps
<1> DEFINE e == Probe!This
           F == [d \in Probe!Codec |-> IF d = "h264" THEN Probe!ProbedH264(e)
                   ELSE Probe!Probed(e, d, IF d = "hevc" THEN hevcMode ELSE av1Mode)]
<1>2. F \in [Probe!Codec -> SUBSET Probe!Capability]
  BY CapsTyped
<1>3. caps' = [caps EXCEPT ![e] = F]
  BY DEF Probe!TryCodecs
<1>4. (IF c = "hevc" THEN hevcMode ELSE av1Mode) = ModeOf(c)
  BY DEF Searching, Probe!TryCodecs, ModeOf
<1>5. F[c] = Probe!Probed(e, c, ModeOf(c))
  BY <1>4 DEF Beyond, Probe!Codec
<1> HIDE DEF F, e
<1>6. caps'[e][c] = Probe!Probed(e, c, ModeOf(c))
  BY <1>1, <1>2, <1>3, <1>5, CapsWritten DEF e
<1>7. /\ Probe!Opens(e, c, "REF_FRAMES_RESTRICT") <=> OpensTruly(e, c, "REF_FRAMES_RESTRICT")
      /\ Probe!Opens(e, "h264", "REF_FRAMES_RESTRICT") <=> OpensTruly(e, "h264", "REF_FRAMES_RESTRICT")
      /\ Probe!Opens(e, c, "PASSED") <=> OpensTruly(e, c, "PASSED")
  BY OpensIs
<1>8. "PASSED" \in Probe!Probed(e, c, ModeOf(c)) <=> PassesTruly(e, c)
  BY <1>7 DEF Probe!Probed, PassesTruly, Probe!Capability
<1> QED BY <1>6, <1>8 DEF e

\* A test of a feature leaves what the encoder does, and the other features alone.
LEMMA TestsAreTrue ==
  ASSUME ProbeTyped, Searching, Exact, Probe!Feature, ~lost', NEW c \in Beyond
  PROVE  /\ "PASSED" \in caps'[Probe!This][c] <=> "PASSED" \in caps[Probe!This][c]
         /\ \A f \in Features : TestOf(c, f) # test =>
              (f \in caps'[Probe!This][c] <=> f \in caps[Probe!This][c])
         /\ PassesTruly(Probe!This, c) => \A f \in Features : TestOf(c, f) = test =>
              (f \in caps'[Probe!This][c] <=> TestTruly(Probe!This, c, f))
<1>1. test \in 1..7 /\ ~lost /\ plugged
  BY TestsAre DEF Probe!Feature, ProbeTyped
<1>2. Probe!This \in Probe!Encoder
  BY <1>1, ThisTyped
<1> DEFINE e == Probe!This
           d == Probe!Tests[test][1]
           g == Probe!Tests[test][2]
           S == Probe!Tested(e, d, g)
<1>3. d \in Probe!Codec /\ g \in Features
  BY <1>1, TestsAre
<1>4. S \in SUBSET Probe!Capability
  BY <1>2, <1>3, CapsTyped DEF Features, Probe!Capability
<1>5. caps' = [caps EXCEPT ![e][d] = S]
  BY DEF Probe!Feature
<1>6. c \in Probe!Codec /\ c # "h264"
  BY DEF Beyond, Probe!Codec
<1>7. \A f \in Features : TestOf(c, f) = test <=> d = c /\ g = f
  BY <1>1, TestsAre
<1>8. /\ "PASSED" \in caps[e][c] <=> PassesTruly(e, c)
      /\ PassesTruly(e, c) => \A f \in Features : TestOf(c, f) < test =>
           (f \in caps[e][c] <=> TestTruly(e, c, f))
  BY <1>1, <1>2 DEF Exact, Probe!This, ProbeTyped
<1>9. d = c => /\ "PASSED" \in S <=> "PASSED" \in caps[e][c]
               /\ \A f \in Features : f # g => (f \in S <=> f \in caps[e][c])
               /\ "PASSED" \in caps[e][c] =>
                    (g \in S <=> Probe!IsSupported(e, c, g) /\ Probe!Opens(e, c, g))
  <2> HIDE DEF e, d, g
  <2>1. "PASSED" # g
    BY <1>3 DEF Features
  <2>2. SUFFICES ASSUME d = c
                 PROVE  /\ "PASSED" \in S <=> "PASSED" \in caps[e][c]
                        /\ \A f \in Features : f # g => (f \in S <=> f \in caps[e][c])
                        /\ "PASSED" \in caps[e][c] =>
                             (g \in S <=> Probe!IsSupported(e, c, g) /\ Probe!Opens(e, c, g))
    OBVIOUS
  <2>3. S = IF ~plugged \/ "PASSED" \notin caps[e][c] THEN caps[e][c]
            ELSE IF Probe!IsSupported(e, c, g) /\ Probe!Opens(e, c, g)
                 THEN caps[e][c] \union {g} ELSE caps[e][c] \ {g}
    BY <1>6, <2>2 DEF Probe!Tested
  <2> HIDE DEF S
  <2> QED BY <1>1, <2>1, <2>3
<1> HIDE DEF S, d, g, e
<1>10. CASE d # c
  <2>1. caps'[e][c] = caps[e][c]
    BY <1>2, <1>3, <1>4, <1>5, <1>6, <1>10, CapsWritten DEF e
  <2> QED BY <1>7, <1>10, <2>1 DEF e
<1>11. CASE d = c
  <2>1. caps'[e][c] = S
    BY <1>2, <1>4, <1>5, <1>6, <1>11, CapsWritten DEF e
  <2>2. TestOf(c, g) = test
    BY <1>3, <1>7, <1>11
  <2>3. PassesTruly(e, c) => (Probe!IsSupported(e, c, g) /\ Probe!Opens(e, c, g) <=> TestTruly(e, c, g))
    <3>1. CASE g # "DYNAMIC_RANGE_YUV444"
      BY <3>1, OpensIs DEF TestTruly
    <3>2. CASE g = "DYNAMIC_RANGE_YUV444"
      <4>1. TestOf(c, "YUV444") < test
        BY <2>2, <3>2, TestsAre
      <4>2. PassesTruly(e, c) => ("YUV444" \in caps[e][c] <=> TestTruly(e, c, "YUV444"))
        BY <1>8, <4>1 DEF Features
      <4>3. TestTruly(e, c, "YUV444") <=> Probe!IsSupported(e, c, "YUV444") /\ OpensTruly(e, c, "YUV444")
        BY DEF TestTruly
      <4>4. Probe!Opens(e, c, g) <=> /\ OpensTruly(e, c, g)
                                     /\ Probe!Of[e].api # "nvenc" => "YUV444" \in caps[e][c]
        BY <3>2, OpensIs
      <4>5. TestTruly(e, c, g) <=>
              /\ Probe!IsSupported(e, c, g) /\ OpensTruly(e, c, g)
              /\ Probe!Of[e].api # "nvenc" =>
                   Probe!IsSupported(e, c, "YUV444") /\ OpensTruly(e, c, "YUV444")
        BY <3>2 DEF TestTruly
      <4> QED BY ONLY <4>2, <4>3, <4>4, <4>5
    <3> QED BY <3>1, <3>2
  <2>4. \A f \in Features : TestOf(c, f) = test <=> f = g
    BY <1>7, <1>11
  <2> QED BY <1>8, <1>9, <1>11, <2>1, <2>3, <2>4 DEF e
<1> QED BY <1>10, <1>11

\* What was tested stays true: only a lost display makes it doubtful.
LEMMA ExactKept ==
  ASSUME ProbeConstants, ProbeTyped, Searching, Exact, Probe!Next
  PROVE  Exact'
<1>0. test \in 0..8
  BY DEF ProbeTyped
<1>1. CASE test' = 0
  BY <1>1 DEF Exact
<1>2. CASE Probe!Plug
  <2>1. /\ gpu' = gpu /\ wanted' = wanted /\ test' = test /\ lost' = lost /\ list' = list
        /\ pos' = pos /\ caps' = caps
    BY <1>2 DEF Probe!Plug
  <2>2. /\ \A e, c, f : TestTruly(e, c, f)' <=> TestTruly(e, c, f)
        /\ \A e, c : PassesTruly(e, c)' <=> PassesTruly(e, c)
    BY <2>1, TrulyStays
  <2> QED BY <2>1, <2>2 DEF Exact
<1>3. CASE Probe!TryCodecs
  <2>1. gpu' = gpu /\ wanted' = wanted /\ list' = list /\ pos' = pos /\ test' = 1
    BY <1>3 DEF Probe!TryCodecs
  <2>2. \A e, c : PassesTruly(e, c)' <=> PassesTruly(e, c)
    BY <2>1, TrulyStays
  <2>3. \A c \in Beyond : "PASSED" \in caps'[list[pos]][c] <=> PassesTruly(list[pos], c)
    BY <1>3, CodecsAreTrue DEF Probe!This
  <2>4. \A c \in Beyond, f \in Features : ~(TestOf(c, f) < 1)
    BY TestsAre
  <2> HIDE DEF Features, Beyond
  <2> QED BY <2>1, <2>2, <2>3, <2>4 DEF Exact
<1>4. CASE Probe!Feature
  <2>1. /\ gpu' = gpu /\ wanted' = wanted /\ list' = list /\ pos' = pos /\ test' = test + 1
        /\ test > 0
    BY <1>0, <1>4, TestsAre DEF Probe!Feature
  <2>2. /\ \A e, c, f : TestTruly(e, c, f)' <=> TestTruly(e, c, f)
        /\ \A e, c : PassesTruly(e, c)' <=> PassesTruly(e, c)
    BY <2>1, TrulyStays
  <2>3. SUFFICES ASSUME ~lost', NEW c \in Beyond
                 PROVE  /\ "PASSED" \in caps'[list[pos]][c] <=> PassesTruly(list[pos], c)
                        /\ PassesTruly(list[pos], c) => \A f \in Features : TestOf(c, f) < test + 1 =>
                             (f \in caps'[list[pos]][c] <=> TestTruly(list[pos], c, f))
    BY <2>1, <2>2 DEF Exact
  <2>4. list[pos] \in Probe!Encoder
    BY <2>1, ThisTyped DEF Probe!This
  <2>5. ~lost
    BY <1>4, <2>3 DEF Probe!Feature
  <2>6. /\ "PASSED" \in caps[list[pos]][c] <=> PassesTruly(list[pos], c)
        /\ PassesTruly(list[pos], c) => \A f \in Features : TestOf(c, f) < test =>
             (f \in caps[list[pos]][c] <=> TestTruly(list[pos], c, f))
    BY <2>1, <2>4, <2>5 DEF Exact
  <2>7. /\ "PASSED" \in caps'[list[pos]][c] <=> "PASSED" \in caps[list[pos]][c]
        /\ \A f \in Features : TestOf(c, f) # test =>
              (f \in caps'[list[pos]][c] <=> f \in caps[list[pos]][c])
        /\ PassesTruly(list[pos], c) => \A f \in Features : TestOf(c, f) = test =>
              (f \in caps'[list[pos]][c] <=> TestTruly(list[pos], c, f))
    BY <1>4, <2>3, TestsAreTrue DEF Probe!This
  <2>8. \A f \in Features : TestOf(c, f) < test + 1 => TestOf(c, f) < test \/ TestOf(c, f) = test
    BY <1>0, TestsAre
  <2>9. \A f \in Features : TestOf(c, f) < test => TestOf(c, f) # test
    BY <1>0, TestsAre
  <2> QED BY <2>6, <2>7, <2>8, <2>9
<1>5. ASSUME Probe!NewDriver \/ Probe!Begin \/ Probe!PassOver \/ Probe!NextSearch \/ Probe!Reject
             \/ Probe!Skip \/ Probe!Choose
      PROVE  test' = 0
  <2>1. Probe!NewDriver => test = 0 /\ test' = test
    BY <1>0 DEF Probe!NewDriver, Searching
  <2>2. Probe!PassOver => test = 0 /\ test' = test
    BY <1>0 DEF Probe!PassOver, Searching, Probe!This
  <2> QED BY <1>5, <2>1, <2>2 DEF Probe!Begin, Probe!NextSearch, Probe!Reject, Probe!Skip,
       Probe!Choose, Probe!Enter
<1> QED BY <1>1, <1>2, <1>3, <1>4, <1>5 DEF Probe!Next

\* After all the tests the search with constraints decides by what is true.
LEMMA MetIsTrue ==
  ASSUME ProbeConstants, ProbeTyped, Searching, Exact, ~lost, test > 7
  PROVE  AllMet(Probe!This) <=> AllTruly(Probe!This)
<1>1. Probe!This \in Probe!Encoder /\ test > 0
  BY ThisTyped DEF ProbeTyped
<1> DEFINE e == Probe!This
<1>2. ASSUME NEW c \in Beyond
      PROVE  Probe!Meets(e, c, ModeOf(c)) <=> MeetsTruly(e, c)
  <2>1. ModeOf(c) \in 0..5
    BY DEF ModeOf, ProbeTyped, ProbeConstants
  <2>2. /\ "PASSED" \in caps[e][c] <=> PassesTruly(e, c)
        /\ PassesTruly(e, c) => \A f \in Features : TestOf(c, f) < test =>
             (f \in caps[e][c] <=> TestTruly(e, c, f))
    BY <1>1 DEF Exact, Probe!This
  <2>3. \A f \in Features : TestOf(c, f) < test
    BY TestsAre DEF ProbeTyped
  <2>4. PassesTruly(e, c) =>
          /\ "DYNAMIC_RANGE" \in caps[e][c] <=> TestTruly(e, c, "DYNAMIC_RANGE")
          /\ "DYNAMIC_RANGE_YUV444" \in caps[e][c] <=> TestTruly(e, c, "DYNAMIC_RANGE_YUV444")
    BY <2>2, <2>3 DEF Features
  <2>5. Probe!HasHdr(e, c) <=> "DYNAMIC_RANGE" \in caps[e][c] \/ "DYNAMIC_RANGE_YUV444" \in caps[e][c]
    BY DEF Probe!HasHdr
  <2> HIDE DEF e
  <2>6. Probe!Meets(e, c, ModeOf(c)) <=>
          (ModeOf(c) >= 2 =>
             /\ "PASSED" \in caps[e][c]
             /\ ModeOf(c) = 5 => "DYNAMIC_RANGE" \in caps[e][c] \/ "DYNAMIC_RANGE_YUV444" \in caps[e][c]
             /\ ModeOf(c) = 4 => "DYNAMIC_RANGE_YUV444" \in caps[e][c]
             /\ ModeOf(c) = 3 => "DYNAMIC_RANGE" \in caps[e][c])
    BY <2>1, <2>5 DEF Probe!Meets, Probe!Lacks
  <2>7. "PASSED" \in caps[e][c] <=> PassesTruly(e, c)
    BY <2>2
  <2> QED BY <2>4, <2>6, <2>7 DEF MeetsTruly
<1>3. ModeOf("hevc") = wanted.hevc /\ ModeOf("av1") = wanted.av1
  BY DEF ModeOf
<1>4. AllMet(e) <=> Probe!Meets(e, "hevc", ModeOf("hevc")) /\ Probe!Meets(e, "av1", ModeOf("av1"))
  BY <1>3 DEF AllMet
<1>5. /\ Probe!Meets(e, "hevc", ModeOf("hevc")) <=> MeetsTruly(e, "hevc")
      /\ Probe!Meets(e, "av1", ModeOf("av1")) <=> MeetsTruly(e, "av1")
  BY <1>2 DEF Beyond
<1> QED BY <1>4, <1>5 DEF AllTruly

\* What is required of an encoder only looks at what is remembered of it.
LEMMA MetStays ==
  ASSUME NEW e, wanted' = wanted, caps'[e] = caps[e]
  PROVE  AllMet(e)' <=> AllMet(e)
BY DEF AllMet, Probe!Meets, Probe!Lacks, Probe!HasHdr

\* What was left behind stays without what is required.
LEMMA LeftKept ==
  ASSUME ProbeConstants, ProbeTyped, Searching, Exact, LeftBehind, Probe!Next
  PROVE  LeftBehind'
<1>0. Len(list) \in Nat /\ pos \in Nat /\ test \in 0..8 /\ pos <= Len(list) + 1 /\ pos >= 1
  BY DEF ProbeTyped
<1>1. CASE search' \in {"idle", "configured"}
  BY <1>1 DEF LeftBehind
<1>2. CASE Probe!Plug
  <2>1. /\ gpu' = gpu /\ wanted' = wanted /\ caps' = caps /\ lost' = lost /\ search' = search
        /\ list' = list /\ pos' = pos /\ test' = test
    BY <1>2 DEF Probe!Plug
  <2>2. \A e : (AllTruly(e)' <=> AllTruly(e)) /\ (AllMet(e)' <=> AllMet(e))
    BY <2>1, TrulyStays, MetStays
  <2> QED BY <2>1, <2>2 DEF LeftBehind
<1>3. CASE Probe!NextSearch
  <2>1. /\ gpu' = gpu /\ wanted' = wanted /\ caps' = caps /\ lost' = lost /\ list' = list
        /\ pos' = 1 /\ pos > Len(list)
    BY <1>3 DEF Probe!NextSearch, Probe!Enter, Probe!AtEnd
  <2>2. \A e : (AllTruly(e)' <=> AllTruly(e)) /\ (AllMet(e)' <=> AllMet(e))
    BY <2>1, TrulyStays, MetStays
  <2>3. CASE search' = "constrained"
    BY <2>1, <2>3 DEF LeftBehind
  <2>4. CASE search' = "fallback" /\ search = "constrained"
    <3>1. ~lost => \A i \in 1..Len(list) : ~AllMet(list[i]) /\ ~AllTruly(list[i])
      BY <1>0, <2>1, <2>4 DEF LeftBehind
    <3> QED BY <2>1, <2>2, <2>4, <3>1 DEF LeftBehind
  <2>5. CASE search' = "fallback" /\ search # "constrained"
    <3>1. ~(hevcMode >= 2 \/ av1Mode >= 2) /\ search # "idle"
      BY <1>3, <2>5 DEF Probe!NextSearch, Probe!Enter
    <3>2. ~(wanted'.hevc >= 2 \/ wanted'.av1 >= 2)
      BY <2>1, <3>1 DEF Searching
    <3> QED BY <2>5, <3>2 DEF LeftBehind
  <2>6. search' \in {"idle", "constrained", "fallback"}
    BY <1>3 DEF Probe!NextSearch, Probe!Enter
  <2> QED BY <1>1, <2>3, <2>4, <2>5, <2>6
<1>4. CASE Probe!Reject
  <2>1. /\ gpu' = gpu /\ wanted' = wanted /\ search' = search /\ lost' = (lost \/ ~plugged)
        /\ search # "configured" => pos' = pos
        /\ test' = test /\ test = 0
    BY <1>4 DEF Probe!Reject
  <2>2. /\ Len(list') = Len(list) - 1 /\ pos \in 1..Len(list)
        /\ \A j \in 1..Len(list') : list'[j] = IF j < pos THEN list[j] ELSE list[j + 1]
    BY <1>4, Rejected
  <2>3. \A e \in Probe!Encoder : e # list[pos] => caps'[e] = caps[e]
    BY <1>4, CapsOfSteps DEF Probe!This
  <2>4. \A e : AllTruly(e)' <=> AllTruly(e)
    BY <2>1, TrulyStays
  <2> DEFINE At(k) == IF k < pos THEN k ELSE k + 1
  <2>5. \A k \in 1..Len(list') : At(k) \in 1..Len(list) /\ At(k) # pos /\ list'[k] = list[At(k)]
    BY <1>0, <2>2
  <2>6. \A k \in 1..Len(list') : k < pos => At(k) \in 1..(pos - 1)
    BY <1>0, <2>2
  <2>7. pos - 1 <= Len(list')
    BY <1>0, <2>2
  <2> HIDE DEF At
  <2>8. \A k \in 1..Len(list') : AllMet(list[k])' <=> AllMet(list[At(k)])
    <3> SUFFICES ASSUME NEW k \in 1..Len(list')
                 PROVE  AllMet(list[k])' <=> AllMet(list[At(k)])
      OBVIOUS
    <3>1. list[At(k)] # list[pos] /\ list[At(k)] \in Probe!Encoder
      BY <2>2, <2>5, ThisTyped DEF Searching
    <3>2. list'[k] = list[At(k)] /\ caps'[list[At(k)]] = caps[list[At(k)]]
      BY <2>3, <2>5, <3>1
    <3> QED BY <2>1, <3>2 DEF AllMet, Probe!Meets, Probe!Lacks, Probe!HasHdr
  <2>9. \A k \in 1..Len(list') : AllTruly(list[k])' <=> AllTruly(list[At(k)])
    BY <2>4, <2>5
  <2>10. CASE search = "constrained"
    <3> SUFFICES ASSUME ~lost', NEW i \in 1..(pos - 1)
                 PROVE  ~AllMet(list[i])' /\ ~AllTruly(list[i])'
      BY <2>1, <2>10 DEF LeftBehind
    <3>1. i \in 1..Len(list') /\ i < pos
      BY <1>0, <2>7
    <3>2. At(i) \in 1..(pos - 1) /\ ~lost
      BY <2>1, <2>6, <3>1
    <3>3. ~AllMet(list[At(i)]) /\ ~AllTruly(list[At(i)])
      BY <2>10, <3>2 DEF LeftBehind
    <3> QED BY <2>8, <2>9, <3>1, <3>3
  <2>11. CASE search = "fallback"
    <3> SUFFICES ASSUME ~lost', wanted.hevc >= 2 \/ wanted.av1 >= 2, NEW i \in 1..Len(list')
                 PROVE  ~AllMet(list[i])' /\ ~AllTruly(list[i])'
      BY <2>1, <2>11 DEF LeftBehind
    <3>1. At(i) \in 1..Len(list) /\ ~lost
      BY <2>1, <2>5
    <3>2. ~AllMet(list[At(i)]) /\ ~AllTruly(list[At(i)])
      BY <2>1, <2>11, <3>1 DEF LeftBehind
    <3> QED BY <2>8, <2>9, <3>2
  <2>12. CASE search \in {"idle", "configured"}
    BY <1>1, <2>1, <2>12
  <2> QED BY <2>10, <2>11, <2>12 DEF ProbeTyped
<1>5. CASE Probe!TryCodecs \/ Probe!Feature
  <2>1. /\ gpu' = gpu /\ wanted' = wanted /\ search' = search /\ list' = list /\ pos' = pos
        /\ test' > 0 /\ (~lost' => ~lost)
    <3>1. CASE Probe!TryCodecs
      BY <3>1 DEF Probe!TryCodecs
    <3>2. CASE Probe!Feature
      <4>1. test > 0 /\ test' = test + 1 /\ lost' = (lost \/ ~plugged)
        BY <3>2 DEF Probe!Feature
      <4>2. test' > 0
        BY <1>0, <4>1
      <4> QED BY <3>2, <4>1, <4>2 DEF Probe!Feature
    <3> QED BY <1>5, <3>1, <3>2
  <2>2. pos \in 1..Len(list) /\ \A e \in Probe!Encoder : e # list[pos] => caps'[e] = caps[e]
    BY <1>5, CapsOfSteps DEF Probe!This
  <2>3. \A e : AllTruly(e)' <=> AllTruly(e)
    BY <2>1, TrulyStays
  <2>4. \A k \in 1..Len(list) : k # pos => (AllMet(list[k])' <=> AllMet(list[k]))
    <3> SUFFICES ASSUME NEW k \in 1..Len(list), k # pos
                 PROVE  AllMet(list[k])' <=> AllMet(list[k])
      OBVIOUS
    <3>1. list[k] # list[pos] /\ list[k] \in Probe!Encoder
      BY <2>2, ThisTyped DEF Searching
    <3>2. list'[k] = list[k] /\ caps'[list[k]] = caps[list[k]]
      BY <2>1, <2>2, <3>1
    <3> QED BY <2>1, <3>2 DEF AllMet, Probe!Meets, Probe!Lacks, Probe!HasHdr
  <2>5. \A k \in 1..Len(list) : AllTruly(list[k])' <=> AllTruly(list[k])
    BY <2>1, <2>3
  <2>6. CASE search = "constrained"
    <3>1. \A i \in 1..(pos - 1) : i \in 1..Len(list) /\ i # pos
      BY <1>0, <2>2
    <3> QED BY <2>1, <2>4, <2>5, <2>6, <3>1 DEF LeftBehind
  <2>7. CASE search = "fallback"
    <3> SUFFICES ASSUME ~lost', wanted.hevc >= 2 \/ wanted.av1 >= 2, NEW i \in 1..Len(list)
                 PROVE  ~AllTruly(list[i])' /\ (i # pos => ~AllMet(list[i])')
      BY <2>1, <2>7 DEF LeftBehind
    <3>1. ~AllTruly(list[i]) /\ (i # pos => ~AllMet(list[i]))
      BY <2>1, <2>7 DEF LeftBehind
    <3> QED BY <2>4, <2>5, <3>1
  <2>8. CASE search \in {"idle", "configured"}
    BY <1>1, <2>1, <2>8
  <2> QED BY <2>6, <2>7, <2>8 DEF ProbeTyped
<1>6. CASE Probe!Skip
  <2>1. /\ gpu' = gpu /\ wanted' = wanted /\ caps' = caps /\ lost' = lost /\ list' = list
        /\ search = "constrained" /\ search' = search /\ pos' = pos + 1 /\ test > 7
        /\ ~(Probe!Meets(Probe!This, "hevc", hevcMode) /\ Probe!Meets(Probe!This, "av1", av1Mode))
    BY <1>6, TestsAre DEF Probe!Skip, Probe!TestsDone
  <2>2. \A e : (AllTruly(e)' <=> AllTruly(e)) /\ (AllMet(e)' <=> AllMet(e))
    BY <2>1, TrulyStays, MetStays
  <2>3. ~AllMet(list[pos])
    BY <2>1 DEF AllMet, Searching, Probe!This
  <2>4. ~lost => ~AllTruly(list[pos])
    BY <2>1, <2>3, MetIsTrue DEF Probe!This
  <2> SUFFICES ASSUME ~lost', NEW i \in 1..(pos' - 1)
               PROVE  ~AllMet(list[i])' /\ ~AllTruly(list[i])'
    BY <2>1 DEF LeftBehind
  <2>5. i = pos \/ i \in 1..(pos - 1)
    BY <1>0, <2>1
  <2>6. ~AllMet(list[i]) /\ ~AllTruly(list[i])
    BY <2>1, <2>3, <2>4, <2>5 DEF LeftBehind
  <2> QED BY <2>1, <2>2, <2>6
<1>7. ASSUME Probe!NewDriver \/ Probe!Begin \/ Probe!PassOver \/ Probe!Choose
      PROVE  search' \in {"idle", "configured"}
  BY <1>7 DEF Probe!NewDriver, Probe!Begin, Probe!PassOver, Probe!Choose, Probe!Enter
<1> QED BY <1>1, <1>2, <1>3, <1>4, <1>5, <1>6, <1>7 DEF Probe!Next

\* What opens in truth is what the encoder does for who asks it.
LEMMA TrueIsReal ==
  ASSUME NEW e, NEW c
  PROVE  /\ \A f \in Features : TestTruly(e, c, f) => f \in Probe!Really(e, c)
         /\ PassesTruly(e, c) => "PASSED" \in Probe!Really(e, c)
                                 \/ "REF_FRAMES_RESTRICT" \in Probe!Really(e, c)
<1> HIDE DEF Probe!Of
<1>1. ASSUME NEW f, OpensTruly(e, c, f), Probe!IsSupported(e, c, f),
             f = "DYNAMIC_RANGE_YUV444" => "YUV444" \in gpu.can[e][c]
      PROVE  f \in Probe!Really(e, c)
  <2>1. f \in gpu.can[e][c] /\ Probe!DeviceOpens(e, f)
    BY <1>1 DEF OpensTruly, Probe!NvencOpens, Probe!FrameIsSet
  <2>2. Probe!Of[e].api = "avcodec" => Probe!CodecOpens(e, c, f)
    BY <1>1 DEF OpensTruly
  <2> QED BY <1>1, <2>1, <2>2 DEF Probe!Really
<1>2. ASSUME NEW f \in Features, TestTruly(e, c, f)
      PROVE  f \in Probe!Really(e, c)
  <2>1. f = "DYNAMIC_RANGE_YUV444" => "YUV444" \in gpu.can[e][c]
    <3>1. CASE Probe!Of[e].api = "nvenc"
      BY <1>2, <3>1 DEF TestTruly, OpensTruly, Probe!NvencOpens, Probe!IsFull
    <3>2. CASE Probe!Of[e].api # "nvenc"
      BY <1>2, <3>2 DEF TestTruly, OpensTruly, Probe!FrameIsSet
    <3> QED BY <3>1, <3>2
  <2> QED BY <1>1, <1>2, <2>1 DEF TestTruly
<1>3. ASSUME PassesTruly(e, c)
      PROVE  "PASSED" \in Probe!Really(e, c) \/ "REF_FRAMES_RESTRICT" \in Probe!Really(e, c)
  <2>1. Probe!IsSupported(e, c, "PASSED") /\ Probe!IsSupported(e, c, "REF_FRAMES_RESTRICT")
    BY <1>3 DEF PassesTruly, Probe!IsSupported, Probe!IsFull, Probe!IsHdr
  <2>2. OpensTruly(e, c, "REF_FRAMES_RESTRICT") \/ OpensTruly(e, c, "PASSED")
    BY <1>3 DEF PassesTruly
  <2> QED BY <1>1, <2>1, <2>2
<1> QED BY <1>2, <1>3

\* A mode left to the host stays so through the adjustments.
LEMMA AutoStays ==
  ASSUME ProbeTyped, Searching, search # "idle", NEW e
  PROVE  /\ wanted.hevc = 0 => Probe!Settled(e, "hevc", Probe!Adjusted(e)[1]) = Probe!AutoMode(e, "hevc")
         /\ wanted.av1 = 0 => Probe!Settled(e, "av1", Probe!Adjusted(e)[2]) = Probe!AutoMode(e, "av1")
<1>1. hevcMode = wanted.hevc /\ av1Mode = wanted.av1
  BY DEF Searching
<1>2. ASSUME NEW h, NEW a
      PROVE  /\ h = 0 => Probe!AdjustHevc(e, h) = 0
             /\ h = 0 => Probe!AdjustAv1(e, h, a)[1] = 0
             /\ a = 0 => Probe!AdjustAv1(e, h, a)[2] = 0
  BY DEF Probe!AdjustHevc, Probe!AdjustAv1
<1>3. /\ wanted.hevc = 0 => Probe!Adjusted(e)[1] = 0
      /\ wanted.av1 = 0 => Probe!Adjusted(e)[2] = 0
  BY <1>1, <1>2 DEF Probe!Adjusted
<1> QED BY <1>3 DEF Probe!Settled

\* What a mode found by the host offers.
LEMMA AutoOffers ==
  ASSUME NEW e, NEW c, NEW m, m = Probe!AutoMode(e, c)
  PROVE  /\ m >= 2 => "PASSED" \in caps[e][c]
         /\ m \in {3, 5} => "DYNAMIC_RANGE" \in caps[e][c]
         /\ m \in {4, 5} => "DYNAMIC_RANGE_YUV444" \in caps[e][c]
BY DEF Probe!AutoMode

\* Every step keeps AutoIsTrue; the choice makes it true.
LEMMA AutoKept ==
  ASSUME ProbeConstants, ProbeTyped, Searching, Exact, Probe!AutoIsTrue, Probe!Next
  PROVE  Probe!AutoIsTrue'
<1>1. CASE Probe!Plug
  <2>1. /\ gpu' = gpu /\ wanted' = wanted /\ hevcMode' = hevcMode /\ av1Mode' = av1Mode
        /\ yuv444' = yuv444 /\ encoder' = encoder /\ search' = search /\ lost' = lost
        /\ replaced' = replaced
    BY <1>1 DEF Probe!Plug
  <2>2. Probe!Of' = Probe!Of
    BY <2>1 DEF Probe!Of
  <2>3. \A e, c : Probe!Really(e, c)' = Probe!Really(e, c)
    BY <2>1, <2>2 DEF Probe!Really, Probe!IsSupported, Probe!DeviceOpens, Probe!Converts,
       Probe!PixelFormat, Probe!CodecOpens, Probe!Options
  <2>4. Probe!Offers' = Probe!Offers
    BY <2>1 DEF Probe!Offers
  <2> HIDE DEF Probe!Of
  <2> QED BY <2>1, <2>3, <2>4 DEF Probe!AutoIsTrue, Probe!Undisturbed
<1>2. CASE Probe!Choose
  <2>1. /\ search # "idle" /\ test > 7 /\ encoder' = Probe!This
        /\ hevcMode' = Probe!Settled(Probe!This, "hevc", Probe!Adjusted(Probe!This)[1])
        /\ av1Mode' = Probe!Settled(Probe!This, "av1", Probe!Adjusted(Probe!This)[2])
        /\ yuv444' = {c \in Probe!Codec : {"PASSED", "YUV444"} \subseteq caps[Probe!This][c]}
        /\ gpu' = gpu /\ wanted' = wanted /\ lost' = lost
    BY <1>2, TestsAre DEF Probe!Choose, Probe!TestsDone
  <2>2. SUFFICES ASSUME ~lost, NEW c \in Beyond, ModeOf(c) = 0, NEW f \in Probe!Capability,
                        <<c, f>> \in Probe!Offers'
                 PROVE  \/ f \in Probe!Really(Probe!This, c)
                        \/ f = "PASSED" /\ "REF_FRAMES_RESTRICT" \in Probe!Really(Probe!This, c)
    <3>1. ASSUME ~lost, \A c \in Beyond, f \in Probe!Capability :
                   ModeOf(c) = 0 /\ <<c, f>> \in Probe!Offers' =>
                     \/ f \in Probe!Really(Probe!This, c)
                     \/ f = "PASSED" /\ "REF_FRAMES_RESTRICT" \in Probe!Really(Probe!This, c)
          PROVE  Probe!AutoIsTrue'
      <4>1. Probe!Of' = Probe!Of
        BY <2>1 DEF Probe!Of
      <4>2. \A c : Probe!Really(encoder, c)' = Probe!Really(Probe!This, c)
        BY <2>1, <4>1 DEF Probe!Really, Probe!IsSupported, Probe!DeviceOpens, Probe!Converts,
           Probe!PixelFormat, Probe!CodecOpens, Probe!Options
      <4> HIDE DEF Probe!Of
      <4> QED BY <2>1, <3>1, <4>2 DEF Probe!AutoIsTrue, ModeOf, Beyond
    <3>2. lost => Probe!AutoIsTrue'
      BY <2>1 DEF Probe!AutoIsTrue, Probe!Undisturbed
    <3> QED BY <3>1, <3>2
  <2> DEFINE e == Probe!This
  <2>3. e \in Probe!Encoder /\ test > 0
    BY <2>1, ThisTyped DEF ProbeTyped
  <2>4. /\ "PASSED" \in caps[e][c] <=> PassesTruly(e, c)
        /\ PassesTruly(e, c) => \A g \in Features : TestOf(c, g) < test =>
             (g \in caps[e][c] <=> TestTruly(e, c, g))
    BY <2>2, <2>3 DEF Exact, Probe!This
  <2>5. \A g \in Features : TestOf(c, g) < test
    <3>1. \A b \in Beyond, g \in Features : TestOf(b, g) \in 2..7
      BY ONLY TestsAre
    <3>2. c \in Beyond /\ test > 7 /\ test \in 0..8
      BY <2>1, <2>2 DEF ProbeTyped
    <3> QED BY ONLY <3>1, <3>2
  <2>6. (IF c = "hevc" THEN hevcMode' ELSE av1Mode') = Probe!AutoMode(e, c)
    BY <2>1, <2>2, AutoStays DEF ModeOf, Beyond
  <2> HIDE DEF e
  <2> DEFINE m == IF c = "hevc" THEN hevcMode' ELSE av1Mode'
  <2>7. /\ m >= 2 => "PASSED" \in caps[e][c]
        /\ m \in {3, 5} => "DYNAMIC_RANGE" \in caps[e][c]
        /\ m \in {4, 5} => "DYNAMIC_RANGE_YUV444" \in caps[e][c]
    BY <2>6, AutoOffers
  <2>8. \/ f = "PASSED" /\ m >= 2
        \/ f = "YUV444" /\ m >= 2 /\ c \in yuv444'
        \/ f = "DYNAMIC_RANGE" /\ m \in {3, 5}
        \/ f = "DYNAMIC_RANGE_YUV444" /\ m \in {4, 5} /\ c \in yuv444'
    BY <2>2 DEF Probe!Offers, Beyond
  <2>9. c \in yuv444' => "YUV444" \in caps[e][c]
    BY <2>1 DEF e
  <2>10. m >= 2
    BY <2>8
  <2> HIDE DEF m
  <2>11. PassesTruly(e, c)
    BY <2>4, <2>7, <2>10
  <2>12. f = "PASSED" \/ (f \in Features /\ f \in caps[e][c])
    BY <2>7, <2>8, <2>9 DEF Features
  <2>13. f = "PASSED" \/ (f \in Features /\ TestTruly(e, c, f))
    BY <2>4, <2>5, <2>11, <2>12
  <2> QED BY <2>11, <2>13, TrueIsReal DEF e
<1>3. CASE search' # "idle" \/ encoder' = NoEncoder \/ replaced'
  BY <1>3 DEF Probe!AutoIsTrue, Probe!Undisturbed
<1>4. ASSUME Probe!NewDriver \/ Probe!Begin \/ Probe!PassOver \/ Probe!NextSearch \/ Probe!Reject
             \/ Probe!TryCodecs \/ Probe!Feature \/ Probe!Skip
      PROVE  search' # "idle" \/ encoder' = NoEncoder \/ replaced'
  <2>1. Probe!Feature => search # "idle"
    BY TestsAre DEF Probe!Feature, Searching, ProbeTyped
  <2>2. Probe!NextSearch => encoder' = NoEncoder
    BY DEF Probe!NextSearch, Searching
  <2>3. Probe!NewDriver => replaced'
    BY DEF Probe!NewDriver
  <2>4. Probe!Begin \/ Probe!PassOver \/ Probe!Reject \/ Probe!TryCodecs \/ Probe!Skip => search' # "idle"
    BY DEF Probe!Begin, Probe!PassOver, Probe!Reject, Probe!TryCodecs, Probe!Skip, Probe!Enter
  <2>5. Probe!Feature => search' = search
    BY DEF Probe!Feature
  <2> QED BY <1>4, <2>1, <2>2, <2>3, <2>4, <2>5
<1> QED BY <1>1, <1>2, <1>3, <1>4 DEF Probe!Next

\* Every step keeps RequirementIsMet; the choice makes it true.
LEMMA RequiredKept ==
  ASSUME ProbeConstants, ProbeTyped, Searching, LeftBehind, Probe!RequirementIsMet, Probe!Next
  PROVE  Probe!RequirementIsMet'
<1>0. Len(list) \in Nat /\ pos \in Nat /\ test \in 0..8
  BY DEF ProbeTyped
<1>1. CASE Probe!Plug \/ Probe!NewDriver
  <2>1. /\ wanted' = wanted /\ caps' = caps /\ list' = list /\ encoder' = encoder
        /\ search' = search /\ lost' = lost
    BY <1>1 DEF Probe!Plug, Probe!NewDriver
  <2>2. \A e : /\ Probe!Meets(e, "hevc", wanted.hevc)' <=> Probe!Meets(e, "hevc", wanted.hevc)
               /\ Probe!Meets(e, "av1", wanted.av1)' <=> Probe!Meets(e, "av1", wanted.av1)
    BY <2>1 DEF Probe!Meets, Probe!Lacks, Probe!HasHdr
  <2> QED BY <2>1, <2>2 DEF Probe!RequirementIsMet, Probe!Undisturbed
<1>2. CASE Probe!Choose
  <2>1. /\ search # "idle" /\ test > 7 /\ encoder' = Probe!This
        /\ wanted' = wanted /\ lost' = lost /\ caps' = caps /\ list' = list
        /\ search = "constrained" => /\ Probe!Meets(Probe!This, "hevc", hevcMode)
                                     /\ Probe!Meets(Probe!This, "av1", av1Mode)
    BY <1>2, TestsAre DEF Probe!Choose, Probe!TestsDone
  <2>2. SUFFICES ASSUME ~lost, Probe!This # wanted.encoder
                 PROVE  AllMet(Probe!This) \/ \A i \in 1..Len(list) : ~AllMet(list[i])
    <3>1. \A e : /\ Probe!Meets(e, "hevc", wanted.hevc)' <=> Probe!Meets(e, "hevc", wanted.hevc)
                 /\ Probe!Meets(e, "av1", wanted.av1)' <=> Probe!Meets(e, "av1", wanted.av1)
      BY <2>1 DEF Probe!Meets, Probe!Lacks, Probe!HasHdr
    <3> HIDE DEF Probe!This
    <3> QED BY <2>1, <3>1 DEF Probe!RequirementIsMet, Probe!Undisturbed, AllMet
  <2>3. search # "configured" /\ search \in {"configured", "constrained", "fallback"}
    BY <1>0, <2>1, <2>2 DEF Searching, ProbeTyped, Probe!This
  <2>4. CASE search = "constrained"
    BY <2>1, <2>4 DEF AllMet, Searching
  <2>5. CASE search = "fallback" /\ (wanted.hevc >= 2 \/ wanted.av1 >= 2)
    <3>1. \A i \in 1..Len(list) : i # pos => ~AllMet(list[i])
      BY <2>2, <2>5 DEF LeftBehind
    <3> QED BY <3>1 DEF Probe!This
  <2>6. CASE ~(wanted.hevc >= 2) /\ ~(wanted.av1 >= 2)
    BY <2>6 DEF AllMet, Probe!Meets
  <2> QED BY <2>3, <2>4, <2>5, <2>6
<1>3. CASE search' # "idle" \/ encoder' = NoEncoder
  BY <1>3 DEF Probe!RequirementIsMet, Probe!Undisturbed
<1>4. ASSUME Probe!Begin \/ Probe!PassOver \/ Probe!NextSearch \/ Probe!Reject
             \/ Probe!TryCodecs \/ Probe!Feature \/ Probe!Skip
      PROVE  search' # "idle" \/ encoder' = NoEncoder
  <2>1. Probe!Feature => search # "idle" /\ search' = search
    BY TestsAre DEF Probe!Feature, Searching, ProbeTyped
  <2>2. Probe!NextSearch => encoder' = NoEncoder
    BY DEF Probe!NextSearch, Searching
  <2>3. Probe!Begin \/ Probe!PassOver \/ Probe!Reject \/ Probe!TryCodecs \/ Probe!Skip => search' # "idle"
    BY DEF Probe!Begin, Probe!PassOver, Probe!Reject, Probe!TryCodecs, Probe!Skip, Probe!Enter
  <2> QED BY <1>4, <2>1, <2>2, <2>3
<1> QED BY <1>1, <1>2, <1>3, <1>4 DEF Probe!Next

\* A step of another part keeps the invariant of the probe.
LEMMA ProbeStutters ==
  ASSUME ProbeInv, UNCHANGED Probe!probeVars
  PROVE  ProbeInv'
<1>1. /\ gpu' = gpu /\ wanted' = wanted /\ plugged' = plugged /\ encoder' = encoder
      /\ previous' = previous /\ hevcMode' = hevcMode /\ av1Mode' = av1Mode /\ yuv444' = yuv444
      /\ caps' = caps /\ search' = search /\ list' = list /\ pos' = pos /\ test' = test
      /\ lost' = lost /\ replaced' = replaced
  BY DEF Probe!probeVars
<1>2. /\ Probe!Encoders' = Probe!Encoders /\ Probe!Of' = Probe!Of
      /\ \A e, c, f : TestTruly(e, c, f)' <=> TestTruly(e, c, f)
      /\ \A e, c : PassesTruly(e, c)' <=> PassesTruly(e, c)
      /\ \A e : AllTruly(e)' <=> AllTruly(e)
  BY <1>1, TrulyStays
<1>3. \A e : AllMet(e)' <=> AllMet(e)
  BY <1>1, MetStays
<1>4. ProbeTyped'
  BY <1>1, <1>2 DEF ProbeInv, ProbeTyped
<1>5. Searching'
  BY <1>1 DEF ProbeInv, Searching
<1>6. Exact'
  BY <1>1, <1>2 DEF ProbeInv, Exact
<1>7. LeftBehind'
  BY <1>1, <1>2, <1>3 DEF ProbeInv, LeftBehind
<1>8. Probe!AutoIsTrue'
  <2>1. \A e, c : Probe!Really(e, c)' = Probe!Really(e, c)
    BY <1>1, <1>2 DEF Probe!Really, Probe!IsSupported, Probe!DeviceOpens, Probe!Converts,
       Probe!PixelFormat, Probe!CodecOpens, Probe!Options
  <2>2. Probe!Offers' = Probe!Offers
    BY <1>1 DEF Probe!Offers
  <2> HIDE DEF Probe!Of
  <2> QED BY <1>1, <2>1, <2>2 DEF ProbeInv, Probe!AutoIsTrue, Probe!Undisturbed
<1>9. Probe!RequirementIsMet'
  BY <1>1 DEF ProbeInv, Probe!RequirementIsMet, Probe!Undisturbed, Probe!Meets, Probe!Lacks, Probe!HasHdr
<1> QED BY <1>4, <1>5, <1>6, <1>7, <1>8, <1>9 DEF ProbeInv

\* The invariant says at least what TypeOK says.
LEMMA ProbeIsTyped ==
  ASSUME ProbeConstants, ProbeTyped
  PROVE  Probe!TypeOK
<1>1. \A e \in Probe!Encoder : \A c \in Probe!Codec : gpu.can[e][c] \subseteq Probe!GpuConfig
  BY DEF ProbeTyped, ProbeConstants
<1>2. \A e \in Probe!Encoder : \A c \in Probe!Codec : caps[e][c] \subseteq Probe!Capability
  BY DEF ProbeTyped
<1>3. Len(Probe!Encoders) \in Nat /\ Len(list) \in Nat
  BY EncodersTyped DEF ProbeTyped
<1>4. \A i \in 1..Len(list) : list[i] \in Probe!Encoder
  BY DEF ProbeTyped
<1>5. pos \in 1..(Len(Probe!Encoders) + 1)
  BY <1>3 DEF ProbeTyped
<1>6. test \in 0..(Len(Probe!Tests) + 1)
  BY TestsAre DEF ProbeTyped
<1>7. /\ encoder \in Probe!Encoder \union {NoEncoder} /\ previous \in Probe!Encoder \union {NoEncoder}
      /\ hevcMode \in 0..5 /\ av1Mode \in 0..5 /\ yuv444 \subseteq Probe!Codec
      /\ search \in {"idle", "configured", "constrained", "fallback"}
  BY DEF ProbeTyped
<1> QED BY <1>1, <1>2, <1>4, <1>5, <1>6, <1>7 DEF Probe!TypeOK

\* The invariant of the probe.
LEMMA ProbeInvHolds == ProbeConstants => (Probe!Spec => []ProbeInv)
<1> SUFFICES ASSUME ProbeConstants
             PROVE  Probe!Spec => []ProbeInv
  OBVIOUS
<1>1. Probe!Init => ProbeInv
  BY ProbeStart
<1>2. ProbeInv /\ [Probe!Next]_(Probe!probeVars) => ProbeInv'
  <2> SUFFICES ASSUME ProbeInv, [Probe!Next]_(Probe!probeVars)
               PROVE  ProbeInv'
    OBVIOUS
  <2>1. CASE Probe!Next
    BY <2>1, TypedKept, SearchingKept, ExactKept, LeftKept, AutoKept, RequiredKept DEF ProbeInv
  <2>2. CASE UNCHANGED Probe!probeVars
    BY <2>2, ProbeStutters
  <2> QED BY <2>1, <2>2
<1> QED BY <1>1, <1>2, PTL DEF Probe!Spec

-----------------------------------------------------------------------------
(* The instance of HostMC *)

\* HostMC runs the application, or leaves it alone.
LEMMA AppIsPart == HostSpec => App!Spec
<1>1. HostInit => App!Init
  BY DEF HostInit
<1>2. [HostNext]_hostVars => [App!Next]_(App!vars)
  BY DEF HostNext, Others, WebPart, hostVars, appVars, App!vars, App!procVars, App!history,
         App!displayVars, App!sessionVars
<1> QED BY <1>1, <1>2, PTL DEF HostSpec, App!Spec

LEMMA DriverIsPart == HostSpec => Driver!Spec
<1>1. HostInit => Driver!Init
  BY DEF HostInit
<1>2. [HostNext]_hostVars => [Driver!Next]_(Driver!nvVars)
  BY DEF HostNext, Others, WebPart, hostVars, nvVars, Driver!nvVars
<1> QED BY <1>1, <1>2, PTL DEF HostSpec, Driver!Spec

\* A display that was configured for a client has somebody who gives it back;
\* every prep command that was run is undone once no application is known; and
\* no iterator leaves its vector: as long as no two threads are in proc_t at
\* once and the list of applications is not reloaded (HostApp).  While the driver
\* has the host's value the undo file says what the user had, also after crashes
\* and refused calls, and a process that met none leaves nothing behind
\* (NvPrefs).
THEOREM HostIsKept == HostSpec => []HostIsRestored
<1>1. AppConstants /\ DriverConstants
  BY HostAssumption DEF AppConstants, DriverConstants
<1>2. App!Spec => []AppInv
  BY <1>1, AppInvHolds
<1>3. Driver!Spec => []DriverInv
  BY <1>1, DriverInvHolds
<1>4. AppInv /\ DriverInv => HostIsRestored
  BY <1>1, AppInvSuffices, DriverInvSuffices DEF HostIsRestored
<1> QED BY <1>2, <1>3, <1>4, AppIsPart, DriverIsPart, PTL

\* HostMC runs the configuration server, or leaves it alone.
LEMMA WebIsPart == HostSpec => Web!Spec
<1>1. HostInit => Web!Start0
  BY DEF HostInit
<1>2. [HostNext]_hostVars => [Web!Next]_(Web!configVars)
  <2> SUFFICES ASSUME [HostNext]_hostVars PROVE [Web!Next]_(Web!configVars)
    OBVIOUS
  <2>1. CASE part \in WebPart /\ Web!Next
    BY <2>1
  <2>2. CASE UNCHANGED tokensVars
    BY <2>2 DEF tokensVars, Web!configVars, Web!stateVars, Web!keyVars, Web!tokenVars,
       Web!clientVars, Web!historyVars
  <2>3. CASE part \in WebPart /\ HostNext
    BY <2>1, <2>3 DEF HostNext, WebPart
  <2>4. CASE part \notin WebPart /\ HostNext
    BY <2>2, <2>4 DEF HostNext, Others
  <2>5. CASE UNCHANGED hostVars
    BY <2>2, <2>5 DEF hostVars
  <2> QED BY <2>3, <2>4, <2>5
<1> QED BY <1>1, <1>2, PTL DEF HostSpec, Web!Spec

\* Each of the two servers keeps the other's part of the state file and the user
\* gets in with what they were told, unless a file did not open, the process died
\* while it wrote or both wrote at once; and the key and the certificate belong
\* together, unless one was deleted and the process died before both were made
\* anew (ConfigServer).
THEOREM StateIsKept == HostSpec => []StateIsShared
<1>1. WebConstants
  BY HostAssumption DEF WebConstants
<1>2. Web!Spec => []WebInv
  BY <1>1, WebInvHolds
<1>3. WebInv => StateIsShared
  BY <1>1, WebInvSuffices DEF StateIsShared
<1> QED BY <1>2, <1>3, WebIsPart, PTL

\* A foreign page is let in by the token that its user was given last, which is
\* no other user's; and a client that was put out does not stream, unless it had
\* launched (ConfigServer).
THEOREM AccessIsKept == HostSpec => AccessIsCurrent
<1>1. WebConstants
  BY HostAssumption DEF WebConstants
<1>2. Web!Spec => []WebInv
  BY <1>1, WebInvHolds
<1>3. Web!Spec => Web!TokenIsLatest
  BY <1>1, WebLatest
<1>4. WebInv => (part \in WebPart => Web!DisabledIsOut)
  BY <1>1, WebInvSuffices
<1> QED BY <1>2, <1>3, <1>4, WebIsPart, PTL DEF AccessIsCurrent

\* HostMC assumes of its constants what the probe needs.
LEMMA ProbeConstantsHold == ProbeConstants
BY HostAssumption, ProbeAssumption DEF ProbeConstants

\* The probe is a part of the instance that the others leave alone.
LEMMA ProbeIsPart == HostSpec => Probe!Spec
<1>1. HostInit => Probe!Init
  BY DEF HostInit
<1>2. [HostNext]_hostVars => [Probe!Next]_(Probe!probeVars)
  <2> SUFFICES ASSUME [HostNext]_hostVars
               PROVE  [Probe!Next]_(Probe!probeVars)
    OBVIOUS
  <2>1. CASE UNCHANGED hostVars
    BY <2>1 DEF hostVars, probeVars, Probe!probeVars
  <2>2. CASE HostNext /\ part # "probe"
    BY <2>2 DEF HostNext, Others, probeVars, Probe!probeVars
  <2>3. CASE HostNext /\ part = "probe"
    BY <2>3 DEF HostNext, WebPart
  <2> QED BY <2>1, <2>2, <2>3
<1> QED BY <1>1, <1>2, PTL DEF HostSpec, Probe!Spec

\* A mode that was left to the host says what the chosen encoder does, as long
\* as no validation of the probe met a missing display and the driver is the one
\* that was asked; and the chosen encoder has the codecs the user requires unless
\* the user named it or none of those that are left has them (EncoderProbe).
THEOREM ProbeIsKept == HostSpec => []ProbeIsSound
<1>1. ProbeInv => ProbeIsSound
  BY ProbeIsTyped, ProbeConstantsHold DEF ProbeInv, ProbeIsSound
<1> QED BY <1>1, ProbeInvHolds, ProbeConstantsHold, ProbeIsPart, PTL
=============================================================================
