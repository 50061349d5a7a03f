# RevoMirror: a TLA+ model of the streaming host

RevoMirror is a game-stream host in C++ (a fork of Sunshine) with a Qt window
and a Windows service around it. It answers the GameStream protocol over HTTPS,
RTSP, an ENet control stream and UDP, captures and encodes the screen and the
sound, and injects the client's input. Its hard part is not a single algorithm
but the way a dozen threads start, watch, stop and join each other, and the
way the host changes the user's machine for a while and has to put it back.
These modules describe that, check it with TLC and prove part of it with TLAPS.

Paths are relative to the repository. `x.cpp` without a directory is
`src/src/x.cpp`, the host's own code; `windows/` and `linux/` are below
`src/src/platform/`.

## 1. Inventory

Threads of a running host: the main thread; the HTTP, HTTPS and configuration
servers; the RTSP thread; one worker of the task pool; the threads of UPnP, of
publication and of the display's scheduler; and, while a session exists, the
five threads of the *broadcast context* (receive, video send, audio send,
control, and its ENet host) with a video and an audio thread per session and
the capture thread they share.

| Component | State | Operations | Talks to |
|---|---|---|---|
| `stream.cpp` sessions, broadcast | `session_t`, four threads, sockets, `broadcast_shutdown`, raw session pointers | `alloc`, `start`, `stop`, `join`, `start_broadcast`, `end_broadcast`, control, receive and packet threads | RTSP, capture threads, HTTP handlers |
| `rtsp.cpp` | `launch_event`, its timer, `_session_slots`, connections | `session_raise`, `session_clear`, `handle_read...`, `cmd_*`, `clear`, `iterate` | HTTPS raises, control thread clears, main thread stops |
| `nvhttp.cpp` | `client_root`, pairing sessions, certificate chain | `/pair`, `/launch`, `/resume`, `/cancel`, unpair | RTSP, `proc`, display device |
| `process.cpp` | `_app_id`, `_process`, prep/undo iterators, list of applications | `execute`, `running`, `terminate`, `parse`, `refresh` | HTTP, control, RTSP and main threads call it |
| `thread_safe.h` | `event_t`, `queue_t`, `shared_t`, `mail_raw_t` | raise, pop, view, stop, reset; ref, release; post | everything |
| `task_pool.h`, `thread_pool.h` | tasks, timers, workers | push, pushDelayed, cancel, pop, stop | input, gamepads, main |
| `input.cpp`, `windows/input.cpp` | queue of messages, timers, keys, wheels, touch port, gamepad and touch slots, the desktop of a thread | passthrough, batch, reset, repeat | control thread pushes, task pool runs |
| `video.cpp`, `windows/display_*.cpp`, `linux/*grab.cpp`, `nvenc/` | capture thread, images, encoders, reference frames | capture, encode, reinit, probe, invalidate | session threads, packet queues |
| `audio.cpp`, `windows/audio.cpp` | default device, shared control | capture, set sink, restore | audio threads, the user |
| `display_device.cpp`, `windows/nvprefs/` | what to give back | apply, revert, retry, undo file | launch, end of sessions, start and exit |
| `confighttp.cpp`, `httpcommon.cpp`, `config.cpp` | credentials, tokens, the shared state file, settings | pages and their handlers, `apply_config` | nvhttp, process, the GUI |
| `main.cpp`, `entry_handler.cpp`, `system_tray.cpp`, `upnp.cpp`, `publish.cpp` | shutdown event, servers, mappings, names | start, signals, exit | all servers |
| `src/tools/sunshinesvc.cpp` | child process, stop events | service control | starts the host |
| `src/tools/revomirror` | pages, outstanding requests, timers | polls `/api/...`, pairs, closes | the configuration server |

Hard behaviours:

* **Sessions.** Any of six actors ends one (its two threads, the control thread,
  RTSP, HTTP, main), and whoever ends it waits for three others with the lock of
  the slots held. The last one tears the context down inside its destructor while
  the next may already want it.
* **Handles and queues.** Objects live as long as somebody has a handle, are found
  through weak pointers, and keep what they were told last: a queue that was
  stopped stays stopped, an event that was raised stays raised.
* **Capture.** One thread owns the display; every encoder must let go of it before
  it can be opened again. Images are shared by use counts with encoders that still
  read them.
* **The host's state.** Display mode, default sound device, driver setting, undo
  commands: changed by one thread, given back by another, through failures and
  crashes.
* **Files.** Two servers share one file without a lock; each copy of the list of
  clients is rebuilt from another.
* **Outside.** Packets, requests and answers arrive in pieces, late, twice or never.

PROJECT.json lists 40 hazards, each at the line where it bites and with the
properties that cover it.

## 2. Modules

A component has a module of its own, in which every operation is an action and
the sets it works on are CONSTANTS. Because most components do not share state
with each other, the modules named `...MC` put several next to each other: a
variable `part` picks one, which runs alone, so that a run has the sum of their
states and not the product. Where components do interact (sessions with RTSP
slots and broadcast; the application with display and requests; capture with all
its encoders; the two servers with their file) they are in one module.
Modules named `...Proof` extend a module with its theorems. A definition marked
*Faulty* is a plausible slip of the one after it and is used by no
specification; it shows that the property it breaks says something.

| Module | Models |
|---|---|
| `SoleInstance`; `SharedRef` | what `safe::shared_t` promises; the class with its mutex and counter (`thread_safe.h:343-459`), which implements it. `ref()` and `release()` hold the mutex throughout and are cut only where the object is built and destroyed |
| `Mailbox` | `event_t` and `queue_t` as operators on their values, one per critical section |
| `TaskBoard`; `TaskPool` | what the pool promises; `TaskPool` and `ThreadPool` with lists, lock, condition variable and workers, whose program counters follow `_main()` |
| `LaunchSession` | the pending launch of `rtsp_server_t`: `event` is `launch_event`, `armed`/`queued` its timer and the handlers on the io_context; two calls on the event are two actions |
| `StreamSession` | sessions, slots, broadcast context and control thread together: `Announce` and the steps of `session::start()`, the threads, the walkers over the slots (`clear`), the destructor of the last handle, the main thread's shutdown |
| `RtspServer` | connections of the RTSP server: requests in pieces, sealed or not, every command with its answer |
| `PingRoutes` | `recv_ping()` and `recvThread()`: how a session learns where its client is |
| `FrameShards` | a frame cut into blocks, shards and parity, with numbers modulo their width |
| `FrameRefs` | reports of lost frames against the reference frames of the encoder and the events of its session |
| `PacketQueues` | the queues of packets on the process-wide post office, from context to context, and the probe that borrows one |
| `CaptureAsync` | the capture thread, the encoders that share it, and the display that is opened anew |
| `DesktopCapture` | pictures on Windows: the outputs and the ways to open them (a failed duplication falls back to Windows.Graphics.Capture), images, textures, pointer |
| `PipewireStream`, `KmsCapture`, `LinuxCapture` | pictures from PipeWire (buffers, formats, cards), from the kernel (planes, descriptors), and those that are asked for one by one: frames of a Wayland compositor, pictures of an X server |
| `LinuxSources` | the choice of a source on Linux with the rights it needs |
| `EncoderProbe` | `probe_encoders()` and `validate_encoder()` over the encoder tables of the three platforms, cards of several vendors and what NVENC says it can do; what clients are offered |
| `AudioCapture` | audio threads and the default device |
| `Pairing` | `/pair`, the PIN, the registry, its file and the certificate chain, step by step |
| `HostApp` | `/launch`, `/resume`, `/cancel` with `proc_t` and the display's configuration, called from four threads |
| `DisplayMode`, `NvPrefs` | the mode of the display with its jobs; the driver's setting with its undo file and crashes |
| `Input` | buttons, keys with Shift and shortcuts, wheels, the display that absolute input is placed on, gamepads and what they are told, with their timers and the ends of sessions |
| `InputBatch` | the queue that merges messages |
| `WinInput` | Windows: contacts of fingers and pens that are repeated or lost, slots of virtual gamepads, the desktop that mouse and keyboard are sent to, reports of Xbox and Sony pads |
| `ConfigServer` | requests as they are read and let in, tokens, credentials, the keys that are made at a start and the state file |
| `ConfigFile`, `AppList` | options from file, page and arguments; `apps.json` and the ids made from it |
| `HostLife`, `Discovery` | `main()` with its signals, servers and tray; port mappings and the published name |
| `ServiceHost`, `MirrorWindow` | the Windows service; the Qt window with its requests and timeouts |
| `MediaMC`, `LiveMC`, `HostMC`, `PlatformMC`, `FrontMC` | the instances for TLC |

How state and actions correspond: variables have the names of the members they
stand for; an action has the name of the function or of the step of it that it
models, and PROJECT.json's `map` gives its lines. A handler that runs without
being interrupted is one action; a function is cut where another thread can come
in between, where it may crash, or where it waits. What a lock makes atomic is one
action. Variables that only the properties read (`overlap`, `forgotten`,
`overwritten`, `spoiled`...) are named history in the modules. Programs outside
the repository (drivers, FFmpeg, the display library, Avahi, routers, Windows'
services, Moonlight) are actions that may answer, fail or change their mind
whenever the code asks, and are marked external in the map.

## 3. What is checked

| Run | Question |
|---|---|
| `session` | Two sessions of one client while the application runs, with launches and resumes. No pointer of the control thread dangles (`NoDanglingControl`), no thread outlives what it uses (`ThreadsBacked`), no context starts with the end of its predecessor (`FreshBroadcast`), no join waits for what cannot come and the count of running sessions is exact (`JoinIsSound`) |
| `session_live` | One session whose client may go silent for good: it is stopped, joined and destroyed, and the context ends (`SessionsEnd`, `BroadcastEnds`) |
| `task_pool` | Three tasks, two workers: no lost wake-up (`NoOversleep`), everything pushed before `stop()` is done when the workers are gone (`DrainedAtExit`), a task runs once and not before its time (`ImplementsBoard`) |
| `pairing` | Two clients, delayed and repeated requests, a user who unpairs, failed saves and restarts: only confirmed clients get in (`OnlyConfirmed`), what was answered holds in memory and in the file (`AnswersHold`), a paired client is accepted (`PairedIsAccepted`) |
| `media` | `SharedRef` implements `SoleInstance`; one session with cancel, unpairing, application exit and shutdown at any step (`SessionIsSafe`); capture and default device (`CaptureIsSafe`); no packet thread starts on a stopped queue (`FreshQueue`) |
| `live` | What must end does: the pending launch (`PendingIsTimed`, `NoOverwrite`, `LaunchIsResolved`), the context, the audio and video threads, due tasks (`WorkEnds`) |
| `host` | Display, prep commands and the driver's setting (`HostIsRestored`), encoders (`ProbeIsSound`), the user's options, the mode of the display and the rights on Linux (`UserIsRemembered`), the state file (`StateIsShared`), tokens and clients (`AccessIsCurrent`), applications (`LaunchIsMeant`) |
| `platform` | Merged input (`InputIsKept`), keys, wheels and gamepads (`HeldIsKnown`), the devices of Windows (`DevicesAreSafe`), pictures on Windows and Linux (`PictureIsTrue`), reference frames (`ReferencesHold`) |
| `front` | Window, service and process (`UserIsServed`, `FrontSettles`), RTSP (`RequestsAreServed`), shards (`FrameIsWhole`), pings, ports and names (`RoutesAreTrue`) |
| `motion_lost`, `encoder_offer`, `config_forced` | Fail: findings 1 to 3 |

Every property has a mutant in PROJECT.json: a definition of the model changed
the way a slip would change the code, under which the same run finds the
property violated.

### Bounds

* *Sessions, handles, launches, clients* are interchangeable. Two sessions are the
  least at which one ends the context while another wants it; `media` and
  `session_live` use one because interruptions multiply the states. Six handles are
  more than the code moves at once. Of three launches the first's stale timer
  handler can meet the third while the second is cleared (`MaxQueued = 2`: one
  stale, one due).
* *Task pool.* Three times give sooner, later and equal; two workers can sleep both,
  or one while the other runs.
* *Pairing.* Two attempts and two entries: two clients once, or one twice. `QueueMax
  = 1` instead of 30 reaches the overflow. `UntilFailure` stops after a failed save,
  beyond which only `OnlyConfirmed` promises anything; that one is proved without.
* *Capture.* Two video threads and two displays one after the other; two packets per
  queue, so that it can be empty, partly full and full. *Audio*: two sessions, one
  of which keeps the host's sound on, two devices of the user, one crash.
* *Application.* Two prep commands (before, at and behind the iterator) and two
  requests; `NoOverlap` stops where two threads are in `proc_t` at once, which the
  properties excuse.
* *Input.* Three messages of each kind from two clients, except that one client types
  four alone and one client points. A left button and a repeating key are the timers
  three messages can start, so two addresses (`Id`) are enough for one to be used
  again. `HeldIsKept` (section 4) is without these bounds.
* *Windows devices.* Three fingers in two slots, so that slots are shared and compacted;
  two gamepads and three addresses, so that a new target may be where one was or
  elsewhere; three fingers on a pad, which has pointers for two; at most two directions
  pressed; three changes of the desktop. The motors of two pads and the reports and
  fingers of one are behaviours of their own, as they share nothing. Stick values are
  those at the ends of the ranges and of the roundings.
* *Pictures.* Two images (one where every picture is asked for) and two frames: the
  least at which one is overwritten while it is read. The buffers of PipeWire are as
  many as its images; three setups (a card alone whose monitor has two sizes, two cards,
  a buffer that arrives spoiled on a stream that is opened again). KMS: two cards with
  planes, two monitors in any order or missing, one late answer.
* *Reference frames.* Three frames in the buffer, four in all, one report and one
  restart in the run; `ReferencesAreKept` is for any number of each.
* *Encoders.* `Gpus` are cards of every vendor and platform that have all, some or none of
  the codecs and features; `VideoConfigs` every mode of HEVC and the kinds of AV1's,
  automatic, required and off, with and without a named encoder; two probes with one
  change between.
* *State file and tokens.* `WebBound` lets every part of the bench use the events it
  is about (crashes, removed files, tokens, passwords) and stops the others. *Shards*:
  blocks up to four, percentages 1, 20 and 255, a group of four for audio, numbers
  modulo 16 so that they wrap.
* *Applications.* Three names, of which one is another with a position behind it, and
  three applications: the least at which an id with a position can be another's name.
  By hand the file becomes one of two lists that are not in order.
* *Settings, files.* Two values of a setting that are not the
  host's, one or two crashes, at most two options that meet in a topic, one save
  by a page. Some behaviours begin with part of these used up (`StartAt`).
* *Front.* One request of the window at a time, and two with timeouts ("late"); one
  connection with three launches; two signals; two ports, three changes of the
  network.

### Fairness

Safety runs use no fairness. In the others it is stated in the component's module:
weak for a thread that is never kept from its next step, strong for one that waits
for a lock whose holders let it go again and again (the RTSP thread and the main
thread at the slots, whose holder sleeps 150 or 500 ms between two looks; the
workers of the pool at its mutex). Time passes: timers expire, `ping_timeout`
runs out for a client that went silent. Of HTTP requests only answers or timeouts
are assumed, since the window sets one for each. Nothing is assumed of clients,
users, failures or spurious wake-ups.

`CHECK_DEADLOCK FALSE` is said where the program may stop: launches used up,
process ended or aborted, bounds of a bench's part reached. `session` and
`session_live` check deadlock.

## 4. What is proved

Each proof has the form: an inductive invariant, a lemma per action (or per case
of one), and the property from the invariant. The invariants were checked with
TLC before they were proved. The assumptions are named in the modules: sets
that are counted are finite, special values are outside the sets, bounds are
natural numbers. No theorem assumes a size. The modules that are proved about extend few
others (not `SequencesExt`), since every definition in reach is part of each
obligation.

* **`SharedRef` (in `MediaProof`)**: `CountExact`, `NoUseAfterDestruct`, and
  `Implements`: every step is one of `SoleInstance` or none. The invariant ties the
  mutex to the handle whose call is under way, and says that outside of calls
  the object is alive exactly while the count is not zero.
* **`LaunchSession`**: `NeverOverwritten`, `Timed`. Between view and raise the event
  stays empty because only the one HTTPS thread raises; whatever is pending has
  an armed timer, a queued handler or a caller about to arm it.
* **`StreamSessionProof`**: `ControlIsSafe`, `ThreadsAreSafe`, `BroadcastIsFresh` and
  `JoinsAreSound`, for any number of sessions. The invariant says which state a
  session is in at each step of ANNOUNCE and of a walker, that a session the control
  thread knows is alive, that one not yet pushed is unknown to it, and that every
  thread has its handles. `JoinsAreSound` adds who will answer each join: while the
  application runs the control thread stays in its loop, so it will raise `controlEnd`
  of every session that was pushed. It holds for hosts whose HTTP threads launch,
  resume and count sessions, and neither cancel nor unpair: with these the
  statement is false (section 5), which is why `media` checks and `SessionsAreSafe`
  proves only the rest for them.
* **`TaskPoolProof`**: `Ordered`, `Once`, `NoLostWakeup`, `Drained` and `Implements`
  (of `TaskBoard`), under `~MayDelay`: with `delay()`, which the host never calls, the
  list is not kept in order (`task_pool.h:178`). Among the workers one is awake or
  about to look again whenever there is something to do.
* **`PairingProof`**: `PinDecides` (a session has the key of an attempt only if its PIN
  was typed), `AnswersKept` (while the writers do not overlap and no save has
  failed, the lists in memory, in the file and in a writer's hands agree with every
  answer) and `PairedGetIn` (the chain and the queue have the certificate of every
  entry). It covers failed saves, restarts and any capacity of the queue.
* **`CaptureProof`**: no encoder waits for a capture thread that is gone
  (`DeadThreadStops`), the event that makes encoders let go is lowered again
  (`ReinitPasses`), no image of a replaced display is encoded (`ImagesAreFresh`), for
  any displays and up to 30 sessions, the capacity of `capture_ctx_queue`: a 31st
  waiting one would make it drop all of them.
* **`MediaProof`**: `GivenBack` (with nobody streaming the default device is the
  host's again, or a failed call or a restart will see to it), `UsersHold` and
  `QueuesAreFresh` (packet queues: a queue that was stopped belongs to a context
  that is ending, and is gone before the next asks, because whoever holds it is
  joined first), and, from these and the theorems above, the run's own properties
  `SessionsAreSafe`, `CapturesAreSafe` and `QueuesAreFresh` for every value of its
  constants. The probe of a second client while a context lives is excluded
  (`ProbeOverlaps`): with it `FreshQueue` is false.
* **`HostProof`**, about four parts of `HostMC`:
  * `HostIsKept`, for any number of prep commands and requests, both settings of the
    display, any values of the driver's setting and any crashes, failures and edits.
    Whoever is alone in `proc_t` may rely on iterator and members (`Alone`), the commands
    before the iterator are those not undone (`Undone`), and a configured display has a
    keeper or a request still preparing it (`Kept`). For the driver, the setting is the
    host's only while the undo file or the data in memory says what the user had
    (`Held`, `Truth`, `UndoData`), and a process that met no failure leaves neither
    (`Clean`). The excuses (two threads in `proc_t`, a reload of the list) are the
    property's own.
  * `StateIsKept`: the file has what each of the two servers wrote last of its own part,
    unless a file did not open, a process died while it wrote or both wrote at once
    (`Writers`, `Shared`); and key and certificate belong together (`KeyPair`). Of the
    latter the exception is exact: if one of the two was deleted and the process died
    after the first of the new pair was written, the next start serves the mismatch.
  * `AccessIsKept`: of a user's tokens only the last is kept and names no other user's
    (`TokenOfOne`), from which the action property `TokenIsLatest` follows; a client that
    was disabled has no session unless it had launched before (`Client`).
  * `ProbeIsKept`, for any cards and configurations, any number of probes and any
    display that comes and goes. While a search runs, the capabilities remembered of
    the encoders are those they have, as far as they were tested with a display
    (`Exact`); an encoder that was left behind lacks what is required, also if it is
    asked again (`LeftBehind`); so what is chosen has it (`Searching`).
* **`PlatformProof`**, about two parts of `PlatformMC`:
  * `ReferencesAreKept`, for any losses and reports, any buffer size and both kinds of
    encoder. A frame the client missed is followed through the encoder's buffer, the
    packets on their way and the frames decoded: while it is in the buffer a report
    covers it (`MissedIsReported`, `AheadIsCovered`); once the report is answered it is
    out of the buffer and the next packet is a fresh start (`RecoveryIsClean`, `Ranges`);
    behind that nothing on its way is built on it (`StartCuts`); and until then the
    client waits (`GapsWait`).
  * `HeldIsKept`, for any clients, messages, addresses of timers, displays and gamepads.
    The worker has one timer in hand and an address names one timer (`PoolTyped`), so
    that only the key of `key_press_repeat_id` repeats (`OneRepeats`); keys and buttons
    that are down are remembered or wait for their timer (`KeysAreKnown`,
    `ButtonsAreKnown`); a change of the display is with whoever has not seen it
    (`PortsAreCurrent`); a gamepad that is taken has one client or one task that frees it
    (`PadsAreOwned`), and nothing of a client that is gone is in the pool (`GoneIsGone`);
    and once every client is reset, one reset is yet to come behind all they said
    (`ResetIsLast`), which is why nothing is left in the end.

Type correctness is proved for every module above (the `Typing` theorems, or a conjunct
of the invariant).

Only model-checked: everything under fairness (`SessionsEnd`, `BroadcastEnds`,
`LaunchIsResolved`, `WorkEnds`, `FrontSettles`), as the prover handles neither
fairness nor ENABLED; `LiveTypeOK`, whose task pool uses `delay()`, which moves a
timer by a recursion whose result would need induction over the list; and the
parts of `host`, `platform` and `front` not named above: `InputIsKept` and
`LaunchIsMeant`, which speak of a queue and of a list as a whole and need induction
over sequences, `UserIsRemembered`, `DevicesAreSafe`, `PictureIsTrue`, `UserIsServed`,
`RoutesAreTrue`, `RequestsAreServed` and `FrameIsWhole`.

## 5. Findings

1. **Motions that overflow are merged, others are not** (`motion_lost`).
   `input.cpp:1260` says that batching is safe as long as the sum fits 16 bits;
   `__builtin_add_overflow()` is true when it does not, and the code stops batching
   when it is false (1261, 1264, 1301, 1321).
2. **AV1's mode is tested as HEVC's** (`encoder_offer`). `video.cpp:2871-2876` compares
   and clears `active_hevc_mode` where AV1's is meant, so `av1_mode = 3` is offered
   though the encoder lacks it, against the comment at 2867.
3. **`vt_software = forced` is not forced** (`config_forced`). `config.cpp:1166-1167`
   reads the option twice; the first reading erases it, so `vt_require_sw` keeps its
   default, against `docs/configuration.md:2977`.

### Further things the modules reach

States that the properties excuse or that show when a constant is changed; no run is
kept for them.

*Sessions and RTSP.* `stop()` of a session that is not RUNNING yet does nothing
(`stream.cpp:1911-1918`): a shutdown then waits in `join()` with the slots locked
(`rtsp.cpp:1219`). An application that exits while a session is announced ends the
control thread's loop before the session is pushed; its join ends only with the 10 s
watchdog, which kills the process (`stream.cpp:1926-1931`). `/cancel` that meets a
session before its threads are started joins a thread that does not exist. A queued
timer handler discards a launch that is not overdue (`rtsp.cpp:512` against 495);
`session_clear()` may pop a later launch than it looked at (527). The reported state is
that of the last writer (`stream.cpp:2081`). A request whose terminator is cut by the
end of a read is never complete (`rtsp.cpp:363`, `MayCut`); there is no read timeout; an
error of `accept` stops every session, and no other connection is accepted until the
host is restarted (`rtsp.cpp:456-461`); two ANNOUNCEs on one launch make two sessions
with one key. Two sessions of one legacy client share a route, and one `peer` serves
both outstanding receives (`stream.cpp:1188`, `Overlap`). An exception in the middle of
a frame leaves the sequence numbers behind; the percentage of parity does not fit eight
bits with a minimum of three and one data shard.

*Pairing and files.* Two writers of the registry that overlap lose a client that was
told it is paired (`nvhttp.cpp:284`, 494); certificates that wait in `add_cert` are
dropped together at the 31st (492) and are not taken out by unpairing (1236); an
unpairing is reported though its save failed (1253); a crash between emptying and
writing leaves a file that cannot be read (`file_handler.cpp:76`), and when both servers
write, the later one undoes the other. A disabled client with a pending launch still
streams. `savePin` answers twice (`confighttp.cpp:1403-1406`). After a removed key and a
crash the key may not be the certificate's.

*Settings.* A value with `#` is cut when it is read, which ends every start if it was
JSON; blanks before a comment make a word unknown; `to_bool` takes any `1` for true;
`upnp = enabled` undoes `-p`; keybindings never override defaults; the lowest port
allowed gives an HTTPS port below 1024 (`docs/configuration.md:1563`). A failed restore
deletes the driver's undo file all the same; a user who picks the host's own value
cannot be told from the host. `apps.json`: an id with a position may be another
application's name, and nobody looks (`process.cpp:726-734`). When [Game1] is edited to
[Game, Game], a client with the old list that asks for Game1 launches the second Game;
and [A2, A, A], written by hand, has one id twice, so that the last cannot be launched.
In a list that `saveApp()` sorted ids are unique, which `IdsAreUnique` checks;
`LaunchIsMeant` and it except only such pairs of names. Names that are numbers make ids
collide, too (`process.h:121`); two pages edit by position, a torn file cannot be
repaired from the page, `applist()` reads the list while another thread replaces it.

*Application and display.* Two overlapping `terminate()` run undo commands twice and
move the iterator out of its vector. A reload of the list while the session is paused
leaves the display as it is (`nvhttp.cpp:939` against `docs/configuration.md:1271`). A
release of the display that is still tried meets a new launch and drops its audio
context.

*Capture and encoding.* The test for the last handle on the display can be passed with
an image on its way (`video.cpp:1453`); `peek()` and `pop()` are two steps (1464); a
vector may be empty where its front is taken (1488); an expired display may be locked
(2499). With two probes at once, or one while a context lives, a packet queue may be
null or stopped. A mode that was required may be offered after a probe that failed. Two
reports before the encoder looks leave only the second, and the client decodes what is
built on a lost frame. Windows: the same address for a new texture (`SameAddress`), a
monochrome pointer off the left edge. PipeWire: unexcused tearing
(`linux/pipewire.cpp:511-526`), a failed connect that returns with the loop locked
(186-197), descriptors closed by several owners. A stream that is given another size
while it runs stores it (565-577), but display and images keep the old one (815-829);
when the format comes only after 1.5 s, the display starts with the portal's size
(753-764). A parameter that is not a format makes Sunshine forget the buffer it holds,
which the compositor never gets back (539). KMS: a name can mean another monitor when a
card's planes cannot be read (`linux/kmsgrab.cpp:1664-1735` against 650-668), a
descriptor is closed again after a change of resolution, or when the memory is in
several parts of which a later one fails (1108-1111, 1119-1129). Portal: a first
session's handle is overwritten (`linux/portalgrab.cpp:339`), the token file is emptied
before it is written, an early Response is lost (611-619). PipeWire again: the flags and
metadata of a buffer in memory are read after it was given back, so that a spoiled
picture may be shown; `pw_damage` is true or absent, never false, so a repeated picture
is not dropped although the comment says so (`linux/pipewire.cpp:989`, 320); only card0
and card1 are asked for Intel; an encoder for pictures of the card gets them in memory
when the compositor agrees to no format. Wayland: a snapshot that times out leaves its
frame pending, whose late answers leak buffers and descriptors and may deliver a buffer
nothing was copied into; a frame that fails while its buffer is made leaves the listener
a freed frame; the first of an empty list of monitors is taken (`linux/wlgrab.cpp:71`).
X11: without shared memory `XGetImage` may return null after the size was checked
(`linux/x11grab.cpp:518`), and a change of the layout with the same total size is not
noticed.

*Input.* `reset()` cancels a delayed release of the left button; X2 is not tracked; a
stale timer id may cancel another's (`task_pool.h:146`); the timer of HOME may update a
gamepad with id -1. `shortcutFlags` belong to a session and `key_press` to all: the
release of a Shift made for one key, another client's release or a reset lets go the
Shift that a client holds, whose keys then go without it though its flags say it is
held, and letting go one of two Shifts forgets the other (`input.cpp:664-741`,
1641-1657). Windows: ten leaked slots cancel all contacts; slots of gamepads keep a
stale rumble. A repeat of a contact that is under way when the client's context is
destroyed is neither cancelled nor waited for (`windows/input.cpp:661-675`): it uses the
context and queues itself with it again, for ever (845, 858; `overtaken`). A task of a
gamepad's motors names the target by its address (329), and when that pad is gone a new
one may be there, whose client then hears of motors its game never touched (`mistaken`).
A new pad keeps `pointer_id_map` of the one before (220-281), so the lifting of a third
finger, which was dropped, may lift the pointer of another that still touches
(1567-1587; `crossed`). The value of a desktop's handle is compared after it was closed
and may be another desktop's, which loses one packet per switch.

*Process, service, window.* The tray keeps the first application's name for ever
(`system_tray.cpp:330`, 350, 371: `static std::string msg`; by reading). Handlers of
signals take locks; on Windows `main()` does not wait for the tray's and the session
monitor's threads; a failed bind with a tray leaves a tray without servers; handlers may
delete a guard twice. Discovery: a discovery that failed last leaves mappings for ever
(`upnp.cpp:317`, 331), pinholes are never closed, Avahi that starts later is not
published to. `QuitIsKept` is false for the service (`sunshinesvc.cpp:302`),
`SvcCloseIsTrue` for the window (`mainwindow.h:85`); a request that fails shows the
running page; two timeouts start two chains of retries.

## 6. What is not modelled

Data that does not steer the control flow: contents of packets, encryption, texts of
SDP, XML and JSON, colours and sound, options of codecs. Back ends that only call
drivers (NvFBC, VA-API, CUDA, Vulkan, macOS), network helpers, the Reed-Solomon wrapper,
rewriting of bitstreams, logging, translations. The synced encoding of `video.cpp`
(2237-2456) is never reached, as every encoder has PARALLEL_ENCODING; by reading, a
session that came while the last one left would wait in it for ever. In `Pairing`: the
old file format, PIN_STDIN and FRESH_STATE, two equal PINs. In `TaskPool`:
`pop(task_id)` and `pushDelayed(pair)`, which nothing calls. In `RtspServer`: PLAY and
OPTIONS are always answered 200, SETUP 200 or 404. In `Input`: key bindings and the
arithmetic of coordinates. In `WinInput`: triggers; `ds4_back_as_touchpad_click` is on;
a desktop that can never be set, which is tried again without end. In `PipewireStream`:
chunks of no bytes, a change of the colours, HDR beyond its first reading. In
`KmsCapture`: of memory in several parts, all descriptors but the first. In
`MirrorWindow`: polls that overlap, as the timer of 500 ms does not wait for an answer
(`src/tools/revomirror/src/bl/httpmanager.cpp:25`, 187); one is outstanding at a time.
In `PingRoutes`: in the run, a peer that two receives share (`Overlap`). In
`ConfigFile`: of some ninety options one or two of every way to take one. PROJECT.json
gives for each component what is left out.

## 7. Plan

The plan of the first version is done: sessions, task pool, shared objects and pairing
first, then the instances of everything that stands around them, then the theorems of
section 4. What remains, in order of use:

1. `PictureIsTrue`, part by part, beginning with the buffers of `PipewireStream`.
2. `UserIsRemembered` for `DisplayMode` and `LinuxSources`.
3. `UserIsServed`: the console in use and the life of `main()`.
