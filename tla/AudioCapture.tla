----------------------------- MODULE AudioCapture -----------------------------
(***************************************************************************)
(* The audio threads of the sessions (audio.cpp) and the default playback  *)
(* device they redirect (platform/windows/audio.cpp): the first session    *)
(* may make the virtual sink the default device, the end of the last one   *)
(* puts the device of the host back, a microphone that notices another     *)
(* default device sets the sink again, and a host that was killed puts     *)
(* things right at its next start.                                         *)
(*                                                                         *)
(* External: Windows' device and policy interfaces, whose calls may fail   *)
(* or do half their work, the user who picks devices, and session::stop(). *)
(***************************************************************************)
EXTENDS Naturals, FiniteSets

CONSTANTS Listener,          \* the sessions' audio threads
          HostAudio,         \* those whose client wants the host to play too
          Real,              \* the playback devices of the host
          Virtual,           \* the virtual sink
          NoSink,
          MaxCrash           \* bound on the crashes of the host

Device == Real \union {Virtual}

VARIABLES
  default,                   \* Windows' default device
  ctx,                       \* audio_ctx_t: [up, control, host, restore, flag]
  handles,                   \* the threads with an audio_ctx_ref_t
  assigned,                  \* assigned_sink of the control
  audio,                     \* where each thread is
  changed,                   \* default_render_device_changed_flag of its mic
  watches,                   \* its mic has a default_endpt_changed_cb
  stopped,                   \* the session's mail::shutdown
  lost,                      \* Windows refused to give the device back
  crashes

vars == <<default, ctx, handles, assigned, audio, changed, watches, stopped, lost, crashes>>

NoCtx == [up |-> FALSE, control |-> FALSE, host |-> NoSink, restore |-> FALSE,
          flag |-> FALSE]

AudioPC == {"none", "init", "set", "mic", "run", "reinit", "end", "wait", "leave"}

TypeOK ==
  /\ default \in Device
  /\ ctx \in [up: BOOLEAN, control: BOOLEAN, host: Device \union {NoSink},
              restore: BOOLEAN, flag: BOOLEAN]
  /\ handles \subseteq Listener
  /\ assigned \in Device \union {NoSink}
  /\ audio \in [Listener -> AudioPC]
  /\ changed \in [Listener -> BOOLEAN]
  /\ watches \in [Listener -> BOOLEAN]
  /\ stopped \in [Listener -> BOOLEAN]
  /\ lost \in BOOLEAN
  /\ crashes \in 0..MaxCrash

Init == /\ default \in Real
        /\ ctx = NoCtx /\ handles = {} /\ assigned = NoSink
        /\ audio = [s \in Listener |-> "none"]
        /\ changed = [s \in Listener |-> FALSE]
        /\ watches = [s \in Listener |-> FALSE]
        /\ stopped = [s \in Listener |-> FALSE]
        /\ lost = FALSE /\ crashes = 0

-----------------------------------------------------------------------------
(* The devices *)

HasMic(s) == audio[s] = "run"

\* OnDefaultDeviceChanged() of every microphone there is.
Notified == [s \in Listener |-> changed[s] \/ (HasMic(s) /\ default' # default)]

\* set_sink() reaches every role, ...
SetSink(d) == default' = d /\ assigned' = d

\* ... or fails, with or without having changed some of them.
SetSinkFails(d) == default' \in {default, d} /\ UNCHANGED assigned

UserPicks(d) == /\ d \in Real /\ d # default
                /\ default' = d
                /\ changed' = Notified
                /\ lost' = FALSE
                /\ UNCHANGED <<ctx, handles, assigned, audio, watches, stopped, crashes>>

-----------------------------------------------------------------------------
(* capture() of a session *)

Move(s, pc) == audio' = [audio EXCEPT ![s] = pc]

\* The first handle runs start_audio_control(); without a default device there
\* is no control.
TakeRef(s) ==
  /\ audio[s] = "none" /\ ~stopped[s]
  /\ handles' = handles \union {s}
  /\ IF ctx.up THEN UNCHANGED <<ctx, assigned>>
     ELSE /\ assigned' = NoSink
          /\ \/ ctx' = [NoCtx EXCEPT !.up = TRUE, !.control = TRUE, !.host = default]
             \/ ctx' = [NoCtx EXCEPT !.up = TRUE]
  /\ Move(s, "init")
  /\ UNCHANGED <<default, changed, watches, stopped, lost, crashes>>

NoControl(s) == /\ audio[s] = "init" /\ ~ctx.control
                /\ Move(s, "wait")
                /\ UNCHANGED <<default, ctx, handles, assigned, changed, watches, stopped,
                               lost, crashes>>

\* The sink this session would choose.
Sink(s) == IF s \in HostAudio THEN ctx.host ELSE Virtual

MustRestore(s) == ctx.host # Sink(s)

\* Only the first to start a session may change the default sink.
Claim(s) ==
  /\ audio[s] = "init" /\ ctx.control
  /\ IF ctx.flag
     THEN Move(s, "mic") /\ UNCHANGED ctx
     ELSE /\ ctx' = [ctx EXCEPT !.flag = TRUE, !.restore = MustRestore(s)]
          /\ Move(s, IF ctx.host # Sink(s) THEN "set" ELSE "mic")
  /\ UNCHANGED <<default, handles, assigned, changed, watches, stopped, lost, crashes>>

SetFirst(s) ==
  /\ audio[s] = "set"
  /\ \/ SetSink(Sink(s)) /\ Move(s, "mic")
     \/ SetSinkFails(Sink(s)) /\ Move(s, "wait")
  /\ changed' = Notified
  /\ UNCHANGED <<ctx, handles, watches, stopped, lost, crashes>>

\* control->microphone(): it watches the default device for a virtual sink.
OpenMic(s) == /\ Move(s, "run")
              /\ changed' = [changed EXCEPT ![s] = FALSE]
              /\ watches' = [watches EXCEPT ![s] = assigned = Virtual]

FirstMic(s) ==
  /\ audio[s] = "mic"
  /\ \/ OpenMic(s)
     \/ Move(s, "wait") /\ UNCHANGED <<changed, watches>>
  /\ UNCHANGED <<default, ctx, handles, assigned, stopped, lost, crashes>>

\* mic->sample() sees that the default device changed: the sink is set again,
\* and the microphone goes.
DeviceChanged(s) ==
  /\ audio[s] = "run" /\ ~stopped[s] /\ changed[s]
  /\ IF watches[s] THEN SetSink(assigned) \/ SetSinkFails(assigned)
                   ELSE UNCHANGED <<default, assigned>>
  /\ Move(s, "reinit")
  /\ changed' = [Notified EXCEPT ![s] = FALSE]
  /\ UNCHANGED <<ctx, handles, watches, stopped, lost, crashes>>

\* The device was invalidated, or capturing failed for good.
SampleFails(s) ==
  /\ audio[s] = "run" /\ ~stopped[s] /\ ~changed[s]
  /\ \E pc \in {"reinit", "end"} : Move(s, pc)
  /\ UNCHANGED <<default, ctx, handles, assigned, changed, watches, stopped, lost, crashes>>

MayGiveUp(s) == stopped[s]

\* do ... while (!mic && !shutdown_event->view(5s))
Reopen(s) == /\ audio[s] = "reinit"
             /\ OpenMic(s)
             /\ UNCHANGED <<default, ctx, handles, assigned, stopped, lost, crashes>>

ReopenFails(s) == /\ audio[s] = "reinit" /\ MayGiveUp(s)
                  /\ Move(s, "end")
                  /\ UNCHANGED <<default, ctx, handles, assigned, changed, watches, stopped,
                                 lost, crashes>>

SeesShutdown(s) == /\ audio[s] = "run" /\ stopped[s]
                   /\ Move(s, "end")
                   /\ UNCHANGED <<default, ctx, handles, assigned, changed, watches,
                                  stopped, lost, crashes>>

\* The fail_guards: the encoder is joined, and the end of the session awaited.
AwaitShutdown(s) == /\ audio[s] \in {"end", "wait"} /\ stopped[s]
                    /\ Move(s, "leave")
                    /\ UNCHANGED <<default, ctx, handles, assigned, changed, watches,
                                   stopped, lost, crashes>>

\* The last handle runs stop_audio_control(), which may fail.
Leave(s) ==
  /\ audio[s] = "leave"
  /\ handles' = handles \ {s}
  /\ IF handles' = {}
     THEN /\ ctx' = NoCtx /\ assigned' = NoSink
          /\ IF ctx.restore
             THEN \/ default' = ctx.host /\ lost' = FALSE
                  \/ default' \in {default, ctx.host} /\ lost' = (default' = Virtual)
             ELSE UNCHANGED <<default, lost>>
     ELSE UNCHANGED <<ctx, assigned, default, lost>>
  /\ changed' = Notified
  /\ Move(s, "none")
  /\ stopped' = [stopped EXCEPT ![s] = FALSE]
  /\ UNCHANGED <<watches, crashes>>

AudioStep(s) == \/ NoControl(s) \/ Claim(s) \/ SetFirst(s) \/ FirstMic(s)
                \/ DeviceChanged(s) \/ SeesShutdown(s) \/ ReopenFails(s)
                \/ AwaitShutdown(s) \/ Leave(s)

-----------------------------------------------------------------------------
(* The sessions' end, and the host's *)

StopListener(s) == /\ ~stopped[s] /\ audio[s] # "none"
                   /\ stopped' = [stopped EXCEPT ![s] = TRUE]
                   /\ UNCHANGED <<default, ctx, handles, assigned, audio, changed, watches,
                                  lost, crashes>>

\* reset_default_device(): the virtual sink is hidden for a moment, so that
\* Windows picks another device.
ResetDefault == IF default = Virtual
                THEN \/ default' \in Real /\ lost' = FALSE
                     \/ UNCHANGED default /\ lost' = TRUE
                ELSE UNCHANGED <<default, lost>>

\* The host is killed and starts again.
CrashRestart == /\ crashes < MaxCrash
                /\ crashes' = crashes + 1
                /\ ctx' = NoCtx /\ handles' = {} /\ assigned' = NoSink
                /\ audio' = [s \in Listener |-> "none"]
                /\ changed' = [s \in Listener |-> FALSE]
                /\ watches' = [s \in Listener |-> FALSE]
                /\ stopped' = [s \in Listener |-> FALSE]
                /\ ResetDefault

Next == \/ \E d \in Real : UserPicks(d)
        \/ CrashRestart
        \/ \E s \in Listener : \/ TakeRef(s) \/ AudioStep(s) \/ SampleFails(s)
                               \/ Reopen(s) \/ StopListener(s)

Spec == Init /\ [][Next]_vars

\* A thread goes on when it can; no microphone need ever open again.
Fairness == \A s \in Listener : WF_vars(AudioStep(s))

FairSpec == Spec /\ Fairness

-----------------------------------------------------------------------------
(* Properties *)

\* While nobody streams, the default device is a real one, whatever the user,
\* the sessions and crashes did, unless Windows itself refused to change it.
DeviceGivenBack == ~ctx.up /\ default = Virtual => lost

\* A session that was stopped lets its audio thread end, even while no
\* microphone can be opened, as long as the user stops changing devices.
StoppedListenerEnds == \A s \in Listener : stopped[s] ~> audio[s] = "none"
=============================================================================
