---------------------------- MODULE LaunchSession ----------------------------
(***************************************************************************)
(* The one pending launch of rtsp_server_t (rtsp.cpp).  /launch and        *)
(* /resume raise it on the HTTPS thread; RTSP connections are matched to   *)
(* it on the RTSP thread; a timer of the RTSP thread's io_context discards *)
(* it after ping_timeout; and the control thread of the broadcast context  *)
(* clears it when the client of the announced session connects.            *)
(*                                                                         *)
(* launch_event is a safe::event_t: each call on it is atomic, two calls   *)
(* in a row are not.  A handler of the timer that is already queued when   *)
(* the timer is cancelled or re-armed still runs, without an error.        *)
(***************************************************************************)
EXTENDS Naturals, FiniteSets, TLAPS

CONSTANTS Launch,          \* the ids of the launch sessions
          NoLaunch,
          MaxQueued        \* bound: timer handlers waiting to run

ASSUME LaunchAssumption == NoLaunch \notin Launch /\ MaxQueued \in Nat \ {0}

VARIABLES event,           \* launch_event: the pending launch, or NoLaunch
          armed,           \* the launch raised_timer was armed for, if armed
          queued,          \* expired handlers not yet run: how many
          overdue,         \* the launches whose own ping_timeout has passed
          http,            \* session_raise on the HTTPS thread: [pc, id]
          control,         \* session_clear on the control thread: [pc, id]
          accepted,        \* launches some open RTSP connection was matched to
          announced,       \* launches with a session not yet connected
          raised           \* the launches handed to session_raise so far

vars == <<event, armed, queued, overdue, http, control, accepted, announced, raised>>

NoCall == [pc |-> "idle", id |-> NoLaunch]

TypeOK == /\ event \in Launch \union {NoLaunch}
          /\ armed \in Launch \union {NoLaunch}
          /\ queued \in 0..MaxQueued
          /\ overdue \subseteq Launch
          /\ http \in [pc: {"idle", "raise", "arm"}, id: Launch \union {NoLaunch}]
          /\ control \in [pc: {"idle", "cancel", "pop"}, id: Launch \union {NoLaunch}]
          /\ accepted \subseteq Launch
          /\ announced \subseteq Launch
          /\ raised \subseteq Launch

Init == /\ event = NoLaunch /\ armed = NoLaunch /\ queued = 0 /\ overdue = {}
        /\ http = NoCall /\ control = NoCall
        /\ accepted = {} /\ announced = {} /\ raised = {}

-----------------------------------------------------------------------------
(* session_raise(id), HTTPS thread *)

\* Faulty: the pending launch is not looked at.
RaiseAlways(l) == /\ http.pc = "idle" /\ l \notin raised
                  /\ raised' = raised \union {l}
                  /\ http' = [pc |-> "raise", id |-> l]
                  /\ UNCHANGED <<event, armed, queued, overdue, control, accepted, announced>>

\* A launch that is still pending is not overwritten: the new one is dropped.
RaiseView(l) == /\ http.pc = "idle" /\ l \notin raised
                /\ raised' = raised \union {l}
                /\ http' = IF event = NoLaunch THEN [pc |-> "raise", id |-> l] ELSE NoCall
                /\ UNCHANGED <<event, armed, queued, overdue, control, accepted, announced>>

RaiseEvent == /\ http.pc = "raise"
              /\ event' = http.id
              /\ http' = [http EXCEPT !.pc = "arm"]
              /\ UNCHANGED <<armed, queued, overdue, control, accepted, announced, raised>>

\* expires_after + async_wait: a wait still under way ends with an error, and
\* its handler does nothing.
RaiseArm == /\ http.pc = "arm"
            /\ armed' = http.id
            /\ http' = NoCall
            /\ UNCHANGED <<event, queued, overdue, control, accepted, announced, raised>>

-----------------------------------------------------------------------------
(* the RTSP thread *)

\* handle_accept: the connection keeps the launch it found.
Accept == /\ event # NoLaunch
          /\ accepted' = accepted \union {event}
          /\ UNCHANGED <<event, armed, queued, overdue, http, control, announced, raised>>

\* ANNOUNCE on a connection of launch l, which may be gone by now.
Announce(l) == /\ l \in accepted
               /\ announced' = announced \union {l}
               /\ UNCHANGED <<event, armed, queued, overdue, http, control, accepted, raised>>

\* ping_timeout after the arming; the RTSP thread may be busy for long (it
\* joins sessions), so the handler is queued.
TimerExpires == /\ armed # NoLaunch /\ queued < MaxQueued
                /\ armed' = NoLaunch
                /\ queued' = queued + 1
                /\ overdue' = overdue \union {armed}
                /\ UNCHANGED <<event, http, control, accepted, announced, raised>>

\* Faulty: the handler runs but leaves the launch.
HandlerKeeps == /\ queued > 0
                /\ queued' = queued - 1
                /\ UNCHANGED <<event, armed, overdue, http, control, accepted, announced, raised>>

\* The handler pops whatever launch is pending.
TimerHandler == /\ queued > 0
                /\ queued' = queued - 1
                /\ event' = NoLaunch
                /\ UNCHANGED <<armed, overdue, http, control, accepted, announced, raised>>

-----------------------------------------------------------------------------
(* session_clear(id), control thread *)

ClearView(l) == /\ control.pc = "idle" /\ l \in announced
                /\ announced' = announced \ {l}
                /\ control' = IF event = l THEN [pc |-> "cancel", id |-> l] ELSE NoCall
                /\ UNCHANGED <<event, armed, queued, overdue, http, accepted, raised>>

\* Faulty: the launch is never popped after the timer was cancelled.
CancelOnly == /\ control.pc = "cancel"
              /\ armed' = NoLaunch
              /\ control' = NoCall
              /\ UNCHANGED <<event, queued, overdue, http, accepted, announced, raised>>

ClearCancel == /\ control.pc = "cancel"
               /\ armed' = NoLaunch
               /\ control' = [control EXCEPT !.pc = "pop"]
               /\ UNCHANGED <<event, queued, overdue, http, accepted, announced, raised>>

\* launch_event.pop() waits, without a limit, for a launch to be pending.
ClearPop == /\ control.pc = "pop" /\ event # NoLaunch
            /\ event' = NoLaunch
            /\ control' = NoCall
            /\ UNCHANGED <<armed, queued, overdue, http, accepted, announced, raised>>

Next == \/ \E l \in Launch : RaiseView(l) \/ Announce(l) \/ ClearView(l)
        \/ RaiseEvent \/ RaiseArm
        \/ Accept \/ TimerExpires \/ TimerHandler
        \/ ClearCancel \/ ClearPop

Spec == Init /\ [][Next]_vars

\* The HTTPS and control threads finish their calls; time passes; the RTSP
\* thread comes back to its io_context.
Fairness == /\ WF_vars(RaiseEvent) /\ WF_vars(RaiseArm)
            /\ WF_vars(TimerExpires) /\ WF_vars(TimerHandler)
            /\ WF_vars(ClearCancel) /\ WF_vars(ClearPop)

FairSpec == Spec /\ Fairness

-----------------------------------------------------------------------------
(* Properties *)

\* A launch that is pending will be resolved: its timer runs, or the handler
\* is queued, or somebody is about to arm it or to pop it.  A launch that
\* slipped through would block every later one.
PendingIsTimed == event # NoLaunch => \/ armed # NoLaunch \/ queued > 0
                                      \/ http.pc = "arm" \/ control.pc = "pop"

\* "If a launch event is still pending, don't overwrite it."
NoOverwrite == [][event' = event \/ event = NoLaunch \/ event' = NoLaunch]_vars

\* Every pending launch is claimed or discarded.
LaunchIsResolved == \A l \in Launch : event = l ~> event # l

\* "If the client does not begin streaming within the ping_timeout, the
\* session will be discarded": and not before.
DiscardedWhenOverdue ==
  [][queued' = queued - 1 /\ event # NoLaunch => event \in overdue]_vars

-----------------------------------------------------------------------------
(***************************************************************************)
(* The pending launch is always on its way out, and never replaced, for    *)
(* any set of launches and any number of queued timer handlers.            *)
(***************************************************************************)

\* A call under way carries the launch it is about, and session_raise goes
\* on only while nothing is pending: no other thread raises.
CallState == /\ http.pc # "idle" => http.id \in Launch
             /\ http.pc = "raise" => event = NoLaunch

IInv == TypeOK /\ CallState /\ PendingIsTimed

\* The program starts with nothing pending.
LEMMA InitIInv == Init => IInv
  BY LaunchAssumption DEF Init, IInv, TypeOK, CallState, PendingIsTimed, NoCall

\* Every step of the three threads and of the timer keeps the invariant.
LEMMA NextIInv == IInv /\ [Next]_vars => IInv'
  <1> SUFFICES ASSUME IInv, [Next]_vars PROVE IInv'
    OBVIOUS
  <1> USE LaunchAssumption DEF IInv, TypeOK, CallState, PendingIsTimed, NoCall
  <1>1. ASSUME NEW l \in Launch, RaiseView(l) PROVE IInv'
    BY <1>1 DEF RaiseView
  <1>2. CASE RaiseEvent
    BY <1>2 DEF RaiseEvent
  <1>3. CASE RaiseArm
    BY <1>3 DEF RaiseArm
  <1>4. CASE Accept
    BY <1>4 DEF Accept
  <1>5. ASSUME NEW l \in Launch, Announce(l) PROVE IInv'
    BY <1>5 DEF Announce
  <1>6. CASE TimerExpires
    BY <1>6 DEF TimerExpires
  <1>7. CASE TimerHandler
    BY <1>7 DEF TimerHandler
  <1>8. ASSUME NEW l \in Launch, ClearView(l) PROVE IInv'
    BY <1>8 DEF ClearView
  <1>9. CASE ClearCancel
    BY <1>9 DEF ClearCancel
  <1>10. CASE ClearPop
    BY <1>10 DEF ClearPop
  <1>11. CASE UNCHANGED vars
    BY <1>11 DEF vars
  <1>12. QED
    BY <1>1, <1>2, <1>3, <1>4, <1>5, <1>6, <1>7, <1>8, <1>9, <1>10, <1>11
       DEF Next

\* The invariant holds in every reachable state.
LEMMA AlwaysIInv == Spec => []IInv
  BY InitIInv, NextIInv, PTL DEF Spec

\* The variables of rtsp_server_t keep their types.
THEOREM Typing == Spec => []TypeOK
  <1>1. IInv => TypeOK
    BY DEF IInv
  <1>2. QED
    BY <1>1, AlwaysIInv, PTL

\* A pending launch always has somebody who is going to take it away: no
\* interleaving of raise, expiry and clear leaves one behind for ever.
THEOREM Timed == Spec => []PendingIsTimed
  <1>1. IInv => PendingIsTimed
    BY DEF IInv
  <1>2. QED
    BY <1>1, AlwaysIInv, PTL

\* No step replaces one pending launch by another.
THEOREM NeverOverwritten == Spec => NoOverwrite
  <1>1. IInv /\ [Next]_vars =>
          [event' = event \/ event = NoLaunch \/ event' = NoLaunch]_vars
    BY DEF IInv, CallState, Next, vars, RaiseView, RaiseEvent, RaiseArm, Accept,
           Announce, TimerExpires, TimerHandler, ClearView, ClearCancel, ClearPop
  <1>2. QED
    BY <1>1, AlwaysIInv, PTL DEF Spec, NoOverwrite
=============================================================================
