----------------------------- MODULE DisplayMode -----------------------------
(***************************************************************************)
(* The mode of the display (display_device.cpp).  A launch turns the       *)
(* user's settings and the client's wishes into a mode, with a list of     *)
(* modes that stand for others, and has it applied; the end of the last    *)
(* session has the original given back.  Either is a job of a scheduler    *)
(* that runs it until it is done, and a new job takes the old one's place. *)
(*                                                                         *)
(* External: the display library.  It remembers the original on disk       *)
(* before it changes it, may be unavailable for a while, and cannot give   *)
(* back what needs a device that is not there.                             *)
(***************************************************************************)
EXTENDS Naturals, Sequences, FiniteSets

CONSTANTS Setups,     \* config::video.dd
          Clients,    \* what launch sessions ask for
          Device, Needed,          \* displays, and those the original mode needs
          MaxLaunch, MaxPlug, MaxCrash, MaxRetry  \* bounds; retry_counter

VARIABLES setup,      \* the user's settings in this behaviour
          up,         \* is DD_DATA.sm_instance there
          mode,       \* of the displays: Plain or one that was applied
          saved,      \* is the original remembered on disk
          job,        \* what the scheduler works on
          devices,    \* the displays that are connected
          api,        \* is the library available
          audio,      \* audio_context: "none", "held" or "released"
          letGo,      \* the scheduler of release(): does it run, and retry_counter
          sink,       \* is_audio_ctx_sink_available()
          wish,       \* history: Plain or what was asked for last
          client,     \* history: who asked for it
          excused,    \* history: of what the user or the library has spoiled
          launches, plugs, crashes

screenVars == <<mode, saved, audio, letGo>>
historyVars == <<wish, client, excused>>
countVars == <<launches, plugs, crashes>>
displayVars == <<setup, up, screenVars, job, devices, api, sink, historyVars, countVars>>

None == "none"
Plain == [prep |-> "plain"]
Failed == [prep |-> "failed"]
Disabled == [prep |-> "disabled"]
NoClient == [sops |-> FALSE, res |-> "", fps |-> "", hdr |-> FALSE]
Idle == [what |-> "none"]
Tried(ds) == [what |-> "revert", tried |-> ds, passed |-> {}]
ToRevert == [what |-> "revert", tried |-> {}, passed |-> {}]
ToApply(m) == [what |-> "apply", mode |-> m]

-----------------------------------------------------------------------------
(* The mode of a launch *)

Unclear == {"", "bad"}
Decimal == {"59.94"}

Resolution(c) ==
  CASE ~c.sops \/ setup.res = "disabled" -> ""
    [] c.sops /\ setup.res = "auto" -> c.res
    [] c.sops /\ setup.res = "manual" -> IF setup.manualRes \in Unclear THEN "bad" ELSE setup.manualRes

Rate(c) ==
  CASE setup.fps = "disabled" -> ""
    [] setup.fps = "auto" -> c.fps
    [] setup.fps = "manual" -> IF setup.manualFps \in Unclear THEN "bad" ELSE setup.manualFps

Hdr(c) == IF setup.hdr = "disabled" THEN "as it is" ELSE IF c.hdr THEN "on" ELSE "off"

\* Only what is automatic is mapped; the fields of the rest are not looked at.
Fields(e) ==
  [reqRes |-> IF setup.res = "auto" THEN e.reqRes ELSE "", finRes |-> IF setup.res = "auto" THEN e.finRes ELSE "",
   reqFps |-> IF setup.fps = "auto" THEN e.reqFps ELSE "", finFps |-> IF setup.fps = "auto" THEN e.finFps ELSE ""]

Malformed(e) == \/ "bad" \in {e.reqRes, e.finRes, e.reqFps, e.finFps}
                \/ e.reqFps \in Decimal
                \/ e.finRes = "" /\ e.finFps = ""

Skipped(e, c, m) == \/ ~c.sops /\ (e.reqRes # "" \/ e.finRes # "")
                    \/ e.reqRes # "" /\ e.reqRes # m.res
                    \/ e.reqFps # "" /\ e.reqFps # m.fps

\* remap_display_mode_if_needed(): the first entry that fits ends the search,
\* and one that makes no sense before it ends all.
Remap(m, c) ==
  LET Ends(e) == Malformed(e) \/ ~Skipped(e, c, m)
      fields == [i \in DOMAIN setup.remap |-> Fields(setup.remap[i])]
      last == CHOOSE i \in DOMAIN fields : Ends(fields[i]) /\ \A j \in 1..(i - 1) : ~Ends(fields[j])
      e == fields[last]
  IN  IF (setup.res # "auto" /\ setup.fps # "auto") \/ \A i \in DOMAIN fields : ~Ends(fields[i]) THEN m
      ELSE IF Malformed(e) THEN Failed
      ELSE [m EXCEPT !.res = IF e.finRes # "" THEN e.finRes ELSE @,
                     !.fps = IF e.finFps # "" THEN e.finFps ELSE @]

\* parse_configuration()
ModeFor(c) ==
  IF setup.prep = "disabled" THEN Disabled
  ELSE IF "bad" \in {Resolution(c), Rate(c)} THEN Failed
  ELSE Remap([prep |-> setup.prep, res |-> Resolution(c), fps |-> Rate(c), hdr |-> Hdr(c)], c)

-----------------------------------------------------------------------------
(* The library, and the audio context it has captured and released *)

\* capture(): whatever was held is held anew.
Capture(m) == IF m.prep = "only" /\ audio # "held" THEN audio' = "held" /\ UNCHANGED letGo
              ELSE UNCHANGED <<audio, letGo>>

\* One run of the job of release().
LetGo(a, g) ==
  IF a # "none" /\ ~sink /\ g.tries > 0 THEN /\ audio' = "released"
                                             /\ letGo' = [on |-> TRUE, tries |-> g.tries - 1]
  ELSE audio' = "none" /\ letGo' = [on |-> FALSE, tries |-> MaxRetry]

Release == LetGo(audio, [on |-> TRUE, tries |-> IF audio = "held" THEN MaxRetry ELSE letGo.tries])

\* applySettings(): while the library is not there the job stays; it ends when
\* the mode is applied and when it cannot be.
Applied(m) ==
  \/ api /\ mode' = m /\ saved' = TRUE /\ job' = Idle /\ Capture(m) /\ UNCHANGED excused
  \/ api /\ job' = Idle /\ excused' = excused \union {"refused"} /\ UNCHANGED screenVars
  \/ ~api /\ job' = ToApply(m) /\ UNCHANGED <<screenVars, excused>>

\* revertSettings(), and what it comes to.
Reverted == api /\ saved /\ Needed \subseteq devices /\ mode' = Plain /\ saved' = FALSE /\ Release
NothingToRevert == api /\ ~saved /\ UNCHANGED screenVars

\* The job of revert_configuration_unlocked(): with the devices that have been
\* tried it is not tried again, and without the library none is listed.
Revert(j) ==
  LET listed == IF api THEN devices ELSE {}
  IN  IF listed = j.tried THEN job' = [j EXCEPT !.passed = listed] /\ UNCHANGED <<screenVars, excused>>
      ELSE \/ (Reverted \/ NothingToRevert) /\ job' = Idle /\ UNCHANGED excused
           \/ api /\ saved /\ ~(Needed \subseteq devices) /\ job' = Tried(listed) /\ UNCHANGED <<screenVars, excused>>

\* A try that is not repeated.
RevertOnce == \/ Reverted
              \/ NothingToRevert
              \/ (~api \/ (saved /\ ~(Needed \subseteq devices))) /\ UNCHANGED screenVars

-----------------------------------------------------------------------------
Init ==
  /\ setup \in Setups
  /\ up = TRUE
  /\ mode = Plain /\ saved = FALSE
  /\ job = Idle
  /\ devices = Device
  /\ api = TRUE
  /\ audio = "none" /\ letGo = [on |-> FALSE, tries |-> MaxRetry]
  /\ sink = TRUE
  /\ wish = Plain /\ client = NoClient /\ excused = {}
  /\ launches = 0 /\ plugs = 0 /\ crashes = 0

\* configure_display(): its job runs at once; settings that make no sense leave
\* everything as it is, and a configuration that is disabled is given back.
Launch ==
  /\ up
  /\ launches < MaxLaunch
  /\ launches' = launches + 1
  /\ \E c \in Clients :
       LET m == ModeFor(c)
       IN  \/ m = Failed /\ UNCHANGED <<screenVars, job, historyVars>>
           \/ m = Disabled /\ job' = ToRevert /\ wish' = Plain /\ UNCHANGED <<screenVars, client, excused>>
           \/ /\ m \notin {Failed, Disabled}
              /\ Applied(m)
              /\ wish' = m
              /\ client' = c
  /\ UNCHANGED <<setup, up, devices, api, sink, plugs, crashes>>

\* revert_configuration(): nothing is done before the delay is over.
Leave ==
  /\ up
  /\ wish # Plain
  /\ job' = ToRevert
  /\ wish' = Plain
  /\ UNCHANGED <<setup, up, screenVars, devices, api, sink, client, excused, countVars>>

\* The scheduler: the delay or the interval of five seconds is over.
Work ==
  /\ up
  /\ \/ job.what = "apply" /\ Applied(job.mode)
     \/ job.what = "revert" /\ Revert(job)
  /\ UNCHANGED <<setup, up, devices, api, sink, wish, client, countVars>>

\* The scheduler of the audio context, every two seconds; it knows nothing of a
\* context that was captured in between.
WorkAudio ==
  /\ up
  /\ letGo.on
  /\ LetGo(audio, IF audio = "held" THEN [letGo EXCEPT !.tries = MaxRetry] ELSE letGo)
  /\ excused' = IF audio = "held" THEN excused \union {"audio"} ELSE excused
  /\ UNCHANGED <<setup, up, mode, saved, job, devices, api, sink, wish, client, countVars>>

\* reset_persistence(): the scheduler stops and the original is forgotten.
ResetPersistence ==
  /\ up
  /\ saved
  /\ launches = MaxLaunch
  /\ saved' = FALSE
  /\ job' = Idle
  /\ Release
  /\ excused' = excused \union {"reset"}
  /\ UNCHANGED <<setup, up, mode, devices, api, sink, wish, client, countVars>>

\* ~deinit_t(): one try; the audio context goes with the library.
Deinit ==
  /\ up
  /\ RevertOnce
  /\ up' = FALSE
  /\ job' = Idle
  /\ UNCHANGED <<setup, devices, api, sink, historyVars, countVars>>

Crash ==
  /\ up
  /\ crashes < MaxCrash
  /\ crashes' = crashes + 1
  /\ up' = FALSE
  /\ job' = Idle
  /\ UNCHANGED <<setup, screenVars, devices, api, sink, historyVars, launches, plugs>>

\* init(): what a former run could not give back is given back now.
Boot ==
  /\ ~up
  /\ up' = TRUE
  /\ wish' = Plain
  /\ LET listed == IF api THEN devices ELSE {}
         back == listed # {} /\ (~saved \/ Needed \subseteq devices)
     IN  /\ job' = IF listed = {} THEN ToRevert ELSE IF back THEN Idle ELSE Tried(listed)
         /\ IF back /\ saved THEN mode' = Plain /\ saved' = FALSE ELSE UNCHANGED <<mode, saved>>
  /\ audio' = "none" /\ letGo' = [on |-> FALSE, tries |-> MaxRetry]
  /\ excused' = IF mode # Plain THEN excused \union {"audio"} ELSE excused
  /\ UNCHANGED <<setup, devices, api, sink, client, countVars>>

\* Displays come and go, with the library and the loudspeakers in them.
Plug ==
  /\ plugs < MaxPlug
  /\ plugs' = plugs + 1
  /\ \/ \E d \in Device : devices' = (devices \ {d}) \union ({d} \ devices) /\ UNCHANGED <<api, sink>>
     \/ api' = ~api /\ UNCHANGED <<devices, sink>>
     \/ sink' = ~sink /\ UNCHANGED <<devices, api>>
  /\ UNCHANGED <<setup, up, screenVars, job, historyVars, launches, crashes>>

Next == Launch \/ Leave \/ Work \/ WorkAudio \/ ResetPersistence \/ Deinit \/ Crash \/ Boot \/ Plug

Spec == Init /\ [][Next]_displayVars

-----------------------------------------------------------------------------
TypeOK ==
  /\ job.what \in {"none", "apply", "revert"}
  /\ audio \in {"none", "held", "released"}
  /\ letGo \in [on : BOOLEAN, tries : 0..MaxRetry]
  /\ devices \subseteq Device
  /\ mode.prep \in {"plain", "verify", "active", "primary", "only"}

\* The scheduler works for what was asked last: a launch whose settings make no
\* sense neither stops it nor turns it round. (display_device.cpp:760-791)
JobIsTheWish ==
  /\ job.what = "apply" => wish = job.mode
  /\ job.what = "revert" => wish = Plain

\* The scheduler of a running host gives up only what is given back, unless the
\* user had the original forgotten. (display_device.cpp:645-746)
GivenBack ==
  (up /\ wish = Plain /\ job.what = "none" /\ "reset" \notin excused) => mode = Plain

\* A look of the scheduler that did not try to give the mode back could not have
\* done it with the devices it saw. (display_device.cpp:665-698)
RetryIsDue ==
  job.what = "revert" => ~(Needed \subseteq job.passed)

\* A mode is asked for until the library has refused it. (display_device.cpp:776-791)
ApplyIsTried ==
  (up /\ wish # Plain /\ job.what = "none" /\ excused \intersect {"refused", "reset"} = {}) => mode = wish

\* The mode is the one the settings give the client: of the entries the first
\* that fits, provided that all before it make sense. (display_device.cpp:523-608)
First(c) ==
  LET es == [i \in DOMAIN setup.remap |-> Fields(setup.remap[i])]
      asked == [res |-> Resolution(c), fps |-> Rate(c)]
      fit == {i \in DOMAIN es : ~Malformed(es[i]) /\ ~Skipped(es[i], c, asked)}
  IN  {i \in fit : \A j \in fit : i <= j}
ModeIsAsked ==
  mode # Plain =>
    LET auto == "auto" \in {setup.res, setup.fps}
        chosen == IF auto THEN First(client) ELSE {}
    IN  wish = mode =>
          /\ mode.prep = setup.prep
          /\ chosen = {} => mode.res = Resolution(client) /\ mode.fps = Rate(client)
          /\ \A i \in chosen :
               LET e == Fields(setup.remap[i])
               IN  /\ mode.res = (IF e.finRes # "" THEN e.finRes ELSE Resolution(client))
                   /\ mode.fps = (IF e.finFps # "" THEN e.finFps ELSE Rate(client))
                   /\ \A j \in 1..i-1 : ~Malformed(Fields(setup.remap[j]))

\* While the mode has turned the other displays off, the audio context of the
\* host is held, and it is not held once they are back, unless the scheduler of
\* an earlier release met it or the host was started again in between. (display_device.cpp:52-96)
AudioIsHeld ==
  (up /\ "audio" \notin excused) =>
    /\ (mode.prep = "only" /\ saved) => audio = "held"
    /\ mode = Plain => audio # "held"
=============================================================================
