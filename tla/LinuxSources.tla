---------------------------- MODULE LinuxSources ----------------------------
(***************************************************************************)
(* How Sunshine finds something to capture on Linux: init() tries the      *)
(* backends while it still has the rights to read the planes of others,    *)
(* display() gives those rights up for every backend but KMS, the list of  *)
(* displays is a dummy until then, and the portal and KWin answer only     *)
(* afterwards.  Two threads open displays: the one that probes encoders    *)
(* and the one that captures.  The portal remembers what the user shares   *)
(* by a token that is good for one start and is kept in a file; KWin       *)
(* grants its interface to an executable named in a desktop file.          *)
(***************************************************************************)
EXTENDS Integers, Sequences, FiniteSets, Functions

CONSTANTS Hosts,       \* what a host has, see below
          Monitor,     \* its monitors, 1..n, by position
          Plugged,     \* those that come and go
          MaxToken,    \* bound: starts of a portal session
          MaxSession,  \* bound: sessions the portal has open
          MaxChange,   \* bound: monitors plugged or unplugged
          MaxBoot      \* bound: runs of the program

\* Hosts \subseteq [ws : {"wayland", "x11"}, capture, has : SUBSET Backends,
\*                  caps : SUBSET {"admin", "nice"}, system, writable, moves : BOOLEAN, output,
\*                  shares : the sets of monitors the user may choose to share]
Backends == {"nvfbc", "wlr", "kms", "x11", "portal", "kwin"}
Actor == {"probe", "capture"}

VARIABLES host, caps, sources, phase,
          monitors,
          chosen, valid,     \* the portal: what each token stands for, those not used up
          token, disk,       \* restore_token_t::token_ and the file; "" is 0
          sessions,          \* the portal's open sessions
          call,              \* [thread |-> what it is doing]
          names, index,      \* captureThread()'s display_names and display_p
          shown,             \* [thread |-> the monitor its display captures]
          files, setupDone, createFile, exe,  \* KWin's desktop files
          opened,            \* history: display() was called
          steady,            \* history: nothing has changed since names was made
          spoiled,           \* history: the newest token did not get into the file
          lost,              \* history: sessions whose handle was overwritten
          changes, boots

portalVars == <<chosen, valid, token, disk, sessions, spoiled, lost>>
kwinVars == <<files, setupDone, createFile, exe>>
processVars == <<host, phase, changes, boots>>
captureVars == <<names, index>>
vars == <<portalVars, kwinVars, processVars, captureVars, caps, sources, monitors, call, shown,
          opened, steady>>

NoMonitor == 0
NoName == 0       \* the empty name, KWin's dummy
InitName == -1    \* "init", the portal's
NoFile == -1
Idle == [pc |-> "idle", goal |-> "none", want |-> NoName, handle |-> 0, sent |-> 0, streams |-> {},
         tries |-> 0]

Init == /\ host \in Hosts /\ caps = host.caps /\ sources = {} /\ phase = "down"
        /\ monitors = Monitor
        /\ chosen = <<>> /\ valid = {} /\ token = 0 /\ disk = NoFile
        /\ sessions = {} /\ spoiled = FALSE /\ lost = {}
        /\ call = [a \in Actor |-> Idle] /\ shown = [a \in Actor |-> NoMonitor]
        /\ names = <<>> /\ index = 0
        /\ files = (IF host.moves THEN {[exec |-> 0, boot |-> 0]} ELSE {}) /\ setupDone = FALSE
        /\ createFile = TRUE /\ exe = 1
        /\ opened = FALSE /\ steady = FALSE
        /\ changes \in 0..MaxChange /\ boots \in 0..MaxBoot - 1

Elevated(rights) == caps \intersect rights # {}
All == {"admin", "nice"}
Admin == {"admin"}

\* drop_elevated_privileges()
Dropped(rights) == caps \ rights

-----------------------------------------------------------------------------
(* init() and the choice of a backend *)

Asked(s) == host.capture \in {"", s}

Verified == {s \in host.has \intersect {"nvfbc", "wlr", "kms", "x11"} :
               /\ Asked(s)
               /\ s \in {"wlr"} => host.ws = "wayland"
               /\ s = "x11" => host.ws = "x11"
               /\ s = "kms" => "admin" \in caps}

\* NvFBC, wlroots and KMS are tried until one is there, X11 in any case.
Early == LET Alone == SelectSeq(<<"nvfbc", "wlr", "kms">>, LAMBDA s : s \in Verified)
         IN  (IF Alone = <<>> THEN {} ELSE {Head(Alone)}) \union (Verified \intersect {"x11"})

FirstOf(order, cuda) ==
  LET there == SelectSeq(order, LAMBDA s : s \in sources /\ (s = "nvfbc" => cuda))
  IN  IF there = <<>> THEN "none" ELSE Head(there)

\* display_names() and display() look for the backends in different orders.
Lists(cuda) == FirstOf(<<"nvfbc", "wlr", "kms", "x11", "portal", "kwin">>, cuda)
Opens(cuda) == FirstOf(<<"kms", "nvfbc", "wlr", "x11", "portal", "kwin">>, cuda)

Sorted(ms) == CHOOSE s \in [1..Cardinality(ms) -> ms] : \A i, j \in DOMAIN s : i < j => s[i] < s[j]

\* The names a backend gives while the program has its rights stand for nothing.
Dummy(s) == IF s = "portal" /\ Elevated(All) THEN <<InitName>>
            ELSE IF s = "kwin" /\ Elevated(Admin) THEN <<NoName>> ELSE <<>>

\* restore_token_t::load()
Loaded == IF disk = NoFile THEN token ELSE disk

\* A thread calls a backend; "direct" ones answer at once.
Calls(a, s, goal, want, tries) ==
  call' = [call EXCEPT ![a] =
       [Idle EXCEPT !.goal = goal, !.want = want, !.tries = tries,
          !.pc = IF s = "portal" THEN "init" ELSE IF s = "kwin" THEN "setup" ELSE "direct"]]

Boot == /\ phase = "down" /\ boots < MaxBoot /\ boots' = boots + 1
        /\ phase' = "verify" /\ sources' = Early
        /\ IF Asked("portal") THEN Calls("probe", "portal", "verify", NoName, 0)
           ELSE call' = [call EXCEPT !["probe"].pc = "verified"]
        /\ UNCHANGED <<portalVars, kwinVars, captureVars, host, changes, caps, monitors, shown,
                       opened, steady>>

\* verify_kwin() comes last, and only if there is nothing else.
TriesKwin == /\ phase = "verify" /\ Asked("kwin") /\ (host.capture = "kwin" \/ sources = {})
             /\ "kwin" \in host.has /\ host.ws = "wayland"

VerifyKwin == /\ call["probe"].pc = "verified" /\ TriesKwin
              /\ Calls("probe", "kwin", "verify", NoName, 0) /\ phase' = "verify kwin"
              /\ UNCHANGED <<portalVars, kwinVars, captureVars, host, changes, boots, caps, sources,
                             monitors, shown, opened, steady>>

Verify == /\ call["probe"].pc = "verified" /\ ~TriesKwin
          /\ call' = [call EXCEPT !["probe"] = Idle]
          /\ phase' = IF sources = {} THEN "failed" ELSE "up"
          /\ UNCHANGED <<portalVars, kwinVars, captureVars, host, changes, boots, caps, sources,
                         monitors, shown, opened, steady>>

-----------------------------------------------------------------------------
(* The end of a call *)

\* refresh_displays(): the display captured so far, else the configured one,
\* else the first.
Refreshed(list) ==
  LET current == IF index = 0 THEN NoName ELSE names[index]
      new == IF list # <<>> THEN list ELSE IF names # <<>> THEN names ELSE <<host.output>>
      sought == IF current # NoName THEN current ELSE host.output
  IN  /\ names' = new
      /\ index' = IF list = <<>> /\ names # <<>> THEN index
                  ELSE IF sought \in Range(new) THEN CHOOSE k \in DOMAIN new : new[k] = sought
                  ELSE 1
      /\ steady' = (list # <<>> /\ \A k \in DOMAIN list : list[k] \in Monitor)

\* The list has been made; the objects it was made with are destroyed.
Listed(a, list) ==
  CASE call[a].goal = "verify" ->
         /\ call' = [call EXCEPT ![a] = [Idle EXCEPT !.pc = "verified"]]
         /\ sources' = sources \union (IF list = <<>> THEN {} ELSE
                         {IF call[a].pc \in {"setup", "write file", "connect"}
                          THEN "kwin" ELSE "portal"})
         /\ UNCHANGED <<names, index, steady>>
    [] call[a].goal = "list" ->
         /\ Refreshed(list)
         /\ call' = [call EXCEPT ![a] = [Idle EXCEPT !.pc = "listed", !.tries = call[a].tries]]
         /\ sources' = sources

\* display() has returned an object that captures m.
Opened(a, m) == /\ shown' = [shown EXCEPT ![a] = m]
                /\ call' = [call EXCEPT ![a].pc = "open", ![a].streams = {}]

\* reset_display() tries twice; captureThread() begins with a single try (1).
NotOpened(a) ==
  /\ call' = [call EXCEPT ![a] =
                IF call[a].tries = 0 THEN [Idle EXCEPT !.pc = "retry", !.want = call[a].want]
                ELSE [Idle EXCEPT !.pc = "failed", !.tries = call[a].tries]]
  /\ shown' = shown

-----------------------------------------------------------------------------
(* The threads *)

Cuda == "nvfbc" \in host.has

\* display(): whatever comes after KMS does without CAP_SYS_ADMIN, and the
\* portal without any right.
Open(a, want, tries) ==
  LET s == Opens(Cuda)
  IN  /\ opened' = TRUE
      /\ caps' = IF s = "kms" THEN caps ELSE Dropped(IF s = "portal" THEN All ELSE Admin)
      /\ Calls(a, s, "open", want, tries)
      /\ UNCHANGED <<portalVars, kwinVars, processVars, captureVars, sources, monitors, shown,
                     steady>>

\* probe_encoders() opens the configured display and lets go of it.
Probe == phase = "up" /\ call["probe"] = Idle /\ Open("probe", host.output, 0)

\* captureThread() runs with an encoder that was probed.
StartCapture == /\ phase = "up" /\ opened /\ call["capture"] = Idle
                /\ Calls("capture", Lists(Cuda), "list", NoName, 1)
                /\ UNCHANGED <<portalVars, kwinVars, processVars, captureVars, caps, sources,
                               monitors, shown, opened, steady>>

OpenListed == /\ call["capture"].pc = "listed"
              /\ Open("capture", names[index], call["capture"].tries)

Retry(a) == call[a].pc = "retry" /\ Open(a, call[a].want, 2)

\* The object is destroyed: ~dbus_t() closes the session it knows.
Close(a) == /\ sessions' = sessions \ {call[a].handle}
            /\ shown' = [shown EXCEPT ![a] = NoMonitor]
            /\ UNCHANGED <<chosen, valid, token, disk, spoiled, lost, kwinVars, processVars,
                           caps, sources, monitors, opened>>

EndProbe == /\ call["probe"].pc \in {"open", "failed"} /\ Close("probe")
            /\ call' = [call EXCEPT !["probe"] = Idle] /\ UNCHANGED <<captureVars, steady>>

\* The stream is over, or its session was closed: check_stream_dead() reports
\* an error, and the list goes with the thread.
EndCapture == /\ call["capture"].pc \in {"open", "failed"} /\ Close("capture")
              /\ call' = [call EXCEPT !["capture"] = Idle]
              /\ names' = <<>> /\ index' = 0 /\ steady' = FALSE

\* capture_e::reinit, unless the session is closed; it is tried until it succeeds.
Reinit == /\ \/ call["capture"].pc = "open"
             \/ call["capture"].pc = "failed" /\ call["capture"].tries = 2
          /\ call["capture"].handle # 0 => call["capture"].handle \in sessions
          /\ Close("capture")
          /\ Calls("capture", Lists(Cuda), "list", NoName, 0)
          /\ UNCHANGED <<captureVars, steady>>

\* NvFBC, wlroots, KMS and X11 answer as they are asked.
Direct(a) ==
  /\ call[a].pc = "direct"
  /\ IF call[a].goal = "list" THEN Listed(a, Sorted(monitors)) /\ UNCHANGED <<shown>>
     ELSE /\ LET m == call[a].want
             IN  IF m \in monitors THEN Opened(a, m)
                 ELSE IF m = NoName /\ monitors # {} THEN Opened(a, Sorted(monitors)[1])
                 ELSE NotOpened(a)
          /\ UNCHANGED <<sources, captureVars, steady>>
  /\ UNCHANGED <<portalVars, kwinVars, processVars, caps, monitors, opened>>

-----------------------------------------------------------------------------
(* The portal *)

\* dbus_t::init(), and the names while the program has its rights.
InitBus(a) ==
  /\ call[a].pc = "init" /\ token' = (IF "portal" \in host.has THEN Loaded ELSE token)
  /\ IF "portal" \in host.has /\ (call[a].goal = "open" \/ Dummy("portal") = <<>>)
     THEN call' = [call EXCEPT ![a].pc = "create"] /\ UNCHANGED <<sources, captureVars, steady, shown>>
     ELSE IF call[a].goal = "open" THEN NotOpened(a) /\ UNCHANGED <<sources, captureVars, steady>>
     ELSE /\ Listed(a, IF "portal" \in host.has THEN Dummy("portal") ELSE <<>>)
          /\ UNCHANGED <<shown>>
  /\ UNCHANGED <<chosen, valid, disk, sessions, spoiled, lost, kwinVars, processVars, caps,
                 monitors, opened>>

Quiet == <<kwinVars, processVars, captureVars, caps, sources, monitors, shown, opened>>

Unused == (1..MaxSession) \ (sessions \union {call[a].handle : a \in Actor})

\* CreateSession: the handle of the session of a first attempt is overwritten.
CreateSession(a) ==
  /\ call[a].pc \in {"create", "screencast"}
  /\ \E s \in Unused :
       /\ \A t \in Unused : s <= t
       /\ sessions' = sessions \union {s}
       /\ call' = [call EXCEPT ![a].handle = s,
                    ![a].pc = IF call[a].pc = "create" THEN "select" ELSE "only select"]
  /\ lost' = lost \union ({call[a].handle} \ {0})
  /\ UNCHANGED <<chosen, valid, token, disk, spoiled, steady>> /\ UNCHANGED Quiet

Select(a, pc) ==
  /\ call[a].pc = pc /\ call' = [call EXCEPT ![a].pc = "start", ![a].sent = token]
  /\ UNCHANGED <<portalVars, steady>> /\ UNCHANGED Quiet

\* The token goes with SelectDevices, which SelectSources follows, or with
\* SelectSources if there is nothing else to select.
SelectDevices(a) == Select(a, "select")
SelectSources(a) == Select(a, "only select")

\* A refused request of the first attempt leads to the second.
FallBack(a) ==
  /\ call[a].pc \in {"create", "select"}
  /\ call' = [call EXCEPT ![a].pc = "screencast"]
  /\ UNCHANGED <<portalVars, steady>> /\ UNCHANGED Quiet

\* Start: the portal asks the user unless the token is good.  The new token
\* is remembered, and the file emptied to be written.
Start(a) ==
  /\ call[a].pc = "start" /\ Len(chosen) < MaxToken
  /\ \E ms \in host.shares :
       /\ ms \subseteq monitors
       /\ LET known == call[a].sent \in valid /\ chosen[call[a].sent] \subseteq monitors
          IN  /\ known => ms = chosen[call[a].sent]
              /\ steady' = (steady /\ known)
              /\ chosen' = Append([t \in DOMAIN chosen |-> IF t = call[a].sent THEN {} ELSE chosen[t]], ms)
              /\ \E pc \in {"save", "remote"} :
                   /\ call' = [call EXCEPT ![a].pc = pc, ![a].sent = 0, ![a].streams = ms]
                   /\ disk' = IF pc = "save" THEN 0 ELSE disk
  /\ valid' = (valid \ {call[a].sent}) \union {Len(chosen) + 1}
  /\ token' = Len(chosen) + 1 /\ spoiled' = TRUE
  /\ UNCHANGED <<sessions, lost>> /\ UNCHANGED Quiet

\* restore_token_t::save() writes what is remembered by now.
Save(a) == /\ call[a].pc = "save" /\ disk' = token
           /\ spoiled' = (token # Len(chosen))
           /\ call' = [call EXCEPT ![a].pc = "remote"]
           /\ UNCHANGED <<chosen, valid, token, sessions, lost, steady>> /\ UNCHANGED Quiet

\* A refused second attempt, start or remote ends the call.
Refused(a) ==
  /\ call[a].pc \in {"screencast", "only select", "start", "remote"}
  /\ sessions' = sessions \ {call[a].handle}
  /\ IF call[a].goal = "open" THEN NotOpened(a) /\ UNCHANGED <<sources, captureVars, steady>>
     ELSE Listed(a, <<>>) /\ UNCHANGED <<shown>>
  /\ UNCHANGED <<chosen, valid, token, disk, spoiled, lost, kwinVars, processVars, caps,
                 monitors, opened>>

\* The streams, by position, under the names of their monitors.
Streams(a) == Sorted(call[a].streams)

\* portal_t::configure_stream(): the first stream if there is none of that name.
Matched(a) == IF call[a].want \in Range(Streams(a)) THEN call[a].want ELSE Streams(a)[1]

\* OpenPipeWireRemote succeeds; a list needs the session no longer.
Connected(a) ==
  /\ call[a].pc = "remote"
  /\ IF call[a].goal = "open"
     THEN Opened(a, Matched(a)) /\ UNCHANGED <<sessions, sources, captureVars, steady>>
     ELSE Listed(a, Streams(a)) /\ sessions' = sessions \ {call[a].handle} /\ UNCHANGED <<shown>>
  /\ UNCHANGED <<chosen, valid, token, disk, spoiled, lost, kwinVars, processVars, caps,
                 monitors, opened>>

-----------------------------------------------------------------------------
(* KWin *)

Exists(e) == e = 0 \/ e = exe
Ours == {f \in files : f.exec = exe}

\* setup(): files of executables that are gone are removed, and a file is
\* made if there is none for this one.
Setup(a) ==
  /\ call[a].pc = "setup"
  /\ IF call[a].goal # "open" /\ Dummy("kwin") # <<>>
     THEN Listed(a, Dummy("kwin")) /\ UNCHANGED <<kwinVars>>
     ELSE /\ IF setupDone \/ host.system
             THEN /\ call' = [call EXCEPT ![a].pc = "connect"]
                  /\ setupDone' = TRUE /\ files' = files
                  /\ createFile' = (createFile /\ ~host.system)
             ELSE /\ createFile' = (createFile /\ Ours = {})
                  /\ LET kept == {f \in files : Exists(f.exec)}
                     IN  IF createFile' /\ host.writable
                         THEN /\ files' = kept \union {[exec |-> -1, boot |-> boots]}
                              /\ call' = [call EXCEPT ![a].pc = "write file"]
                              /\ setupDone' = FALSE
                         ELSE /\ files' = kept /\ setupDone' = TRUE
                              /\ call' = [call EXCEPT ![a].pc = "connect"]
          /\ UNCHANGED <<exe, sources, captureVars, steady>>
  /\ UNCHANGED <<portalVars, processVars, caps, monitors, shown, opened>>

\* The file is closed; three seconds later KWin should know it.
WriteFile(a) ==
  /\ call[a].pc = "write file"
  /\ files' = {f \in files : f.exec # -1} \union {[exec |-> exe, boot |-> boots]}
  /\ setupDone' = TRUE /\ call' = [call EXCEPT ![a].pc = "connect"]
  /\ UNCHANGED <<portalVars, processVars, captureVars, caps, sources, monitors, shown, opened,
                 steady, createFile, exe>>

\* screencast_t::get_output_names()
Outputs == Sorted(monitors)

\* screencast_t::start(): any output if there is none of that name.
Cast(a) == \E m \in monitors : /\ call[a].want \in monitors => m = call[a].want
                              /\ Opened(a, m)

\* What KWin may grant the program.
MayCast == host.system \/ Ours # {}

\* The registry names the outputs, and the interface if KWin grants it.
Bound == MayCast /\ monitors # {}

\* wait_for_stream(): KWin answers with a failure, or not within five seconds;
\* the rights that are left are dropped.
NoStream(a) == NotOpened(a) /\ caps' = Dropped(All)

\* screencast_t::init(), and start() for a display; the rights that are left
\* are dropped if the interface is not there.
Connect(a) ==
  /\ call[a].pc = "connect"
  /\ IF call[a].goal # "open"
     THEN Listed(a, Outputs) /\ UNCHANGED <<caps, shown>>
     ELSE /\ UNCHANGED <<sources, captureVars, steady>>
          /\ \/ Bound /\ Cast(a) /\ caps' \in {caps, Dropped(All)}
             \/ NoStream(a)
  /\ UNCHANGED <<portalVars, kwinVars, processVars, monitors, opened>>

-----------------------------------------------------------------------------
(* The host *)

Replug == /\ changes < MaxChange /\ changes' = changes + 1
          /\ \E m \in Plugged : monitors' = IF m \in monitors THEN monitors \ {m}
                                            ELSE monitors \union {m}
          /\ monitors' # {} /\ steady' = FALSE
          /\ UNCHANGED <<portalVars, kwinVars, captureVars, host, phase, boots, caps, sources, call,
                         shown, opened>>

\* The user stops sharing.
StopSharing == /\ call["capture"].pc = "open" /\ call["capture"].handle \in sessions
               /\ sessions' = sessions \ {call["capture"].handle}
               /\ UNCHANGED <<chosen, valid, token, disk, spoiled, lost, steady, call>>
               /\ UNCHANGED Quiet

\* The program ends, however it does, and may be another file when it starts.
Stop == /\ phase # "down" /\ boots < MaxBoot /\ phase' = "down"
        /\ caps' = host.caps /\ sources' = {} /\ opened' = FALSE /\ steady' = FALSE
        /\ token' = 0 /\ sessions' = {} /\ lost' = {}
        /\ call' = [a \in Actor |-> Idle] /\ shown' = [a \in Actor |-> NoMonitor]
        /\ names' = <<>> /\ index' = 0
        /\ setupDone' = FALSE /\ createFile' = TRUE
        /\ exe' \in {exe} \union (IF host.moves THEN {exe + 1} ELSE {})
        /\ UNCHANGED <<host, changes, boots, monitors, chosen, valid, disk, spoiled, files>>

Step(a) == \/ Retry(a) \/ Direct(a) \/ InitBus(a) \/ CreateSession(a) \/ SelectDevices(a) \/ SelectSources(a)
           \/ FallBack(a) \/ Start(a) \/ Save(a) \/ Refused(a) \/ Connected(a) \/ Setup(a) \/ WriteFile(a)
           \/ Connect(a)

Next == \/ Boot \/ VerifyKwin \/ Verify \/ Probe \/ StartCapture \/ OpenListed \/ EndProbe \/ EndCapture
        \/ Reinit \/ Replug \/ StopSharing \/ Stop
        \/ \E a \in Actor : Step(a)

Spec == Init /\ [][Next]_vars

-----------------------------------------------------------------------------
TypeOK == /\ caps \subseteq host.caps /\ sources \subseteq Backends
          /\ index \in 0..Len(names) /\ disk \in NoFile..Len(chosen)
          /\ \A a \in Actor : shown[a] \in Monitor \union {NoMonitor}

\* The right to read the planes of others is kept as long as KMS needs it
\* (misc.cpp:1093: "Keep KMS as first element to check").
RightIsKept == "kms" \in sources => "admin" \in caps

\* A name is opened by the backend that gave it.
SameBackend == phase = "up" => \A cuda \in BOOLEAN : Lists(cuda) = Opens(cuda)

\* Once a display was asked for, the names are those of displays
\* (portalgrab.cpp:732: "Display re-enumeration after encoder probing will
\* yield full result").
NamesBecomeReal == opened => Dummy(Opens(Cuda)) = <<>>

\* The file has a token the portal takes, however often the program was
\* started, unless the newest did not get there.
TokenIsGood ==
  (chosen # <<>> /\ ~spoiled /\ \A a \in Actor : call[a].pc # "save") => disk \in valid

\* The portal keeps no session of a display that is gone, those of failed
\* first attempts excepted.
SessionsAreClosed ==
  \A s \in sessions \ lost : \E a \in Actor : call[a].handle = s

\* What is captured is the display listed under that name, as long as nothing
\* was plugged and the user not asked in between.
ShowsTheListed ==
  (call["capture"].pc = "open" /\ steady) => shown["capture"] = names[index]

\* KWin finds the program's file once it is set up, another installation's
\* file stays, and no executable has two.
FilesAreRight ==
  /\ (setupDone /\ host.writable) => MayCast
  /\ \A f, g \in files : f.exec = g.exec /\ f.exec > 0 => f = g
  /\ setupDone => \A f \in files : Exists(f.exec) \/ host.system
=============================================================================
