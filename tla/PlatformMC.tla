----------------------------- MODULE PlatformMC ------------------------------
(***************************************************************************)
(* One instance for the parts that stand between Sunshine and the platform *)
(* it runs on.  A behaviour picks one of them and runs it alone, so the    *)
(* states of the run are the sum of theirs.                                *)
(***************************************************************************)
EXTENDS FrameRefs

CONSTANTS Image, NoImage,  \* of DesktopCapture; the images are also the buffers of PipewireStream
          Streamer, Id,    \* of Input
          Says,            \* what the clients send in each of its parts
          HighRes,
          MaxSent,         \* bound on their messages
          MaxPort,         \* bound on the displays captured in turn
          PadIds           \* 0 .. MAX_GAMEPADS - 1

VARIABLES part,
          \* WinInput
          tool, touch, active, pen, repeat, device, failed, held, penDown, ended, overtaken,
          client, pad, target, attached, again, pointers, available, raised, lastRumble, motor,
          posted, told, mistaken, touching, dropped, crossed, desk, on, knownDesk, packets,
          syncing, lostSends, switches, syncFails, pressed, report,
          \* DesktopCapture
          method, screen, pointer, news, screenFormat, desktopCurrent, arrived, desktopPc,
          src, format, pointerSeen, blend, last, out, seen, image, opened,
          queue, encoding, misread,
          \* PipewireStream
          stream, setup, size, where, holds, frame, pipeHeld, ready, dead, prev, front,
          session, maxRate, pipePc, result, width, resized, img, data, pipeWaiting,
          reading, shown, streamed, vanished, pipeChanges, pipeRestarts,
          \* KmsCapture
          planes, listed, listedFrom, memory, mode, kmsPointer, owner, kmsPc, kmsOpened,
          meant, openedIn, known, captured, was, kmsImg, kmsWaiting, kmsReading,
          kmsData, stolen, gaveUp, missed, kmsChanges, opens,
          \* LinuxCapture
          backend, named, lit, monitors, pullListed, pullWanted, pullShown, pullPc,
          pullResult, pullSize, pullScreen, since, pushed, busy, pullHeld,
          status, cur, frames, info, bo, wlBuffer, bos, wlBuffers, requests,
          files, content, late, xattr, segment, tasks, refreshId, refreshing,
          pullChanges,
          \* InputBatch
          batchQueue, batchTasks, batchSeen, batchMeant, sent,
          \* Input
          inputTasks, timers, running, life, keyPress, mousePress, repeatId, leftId,
          inputPad, mask, backId, forcedUp, padBack, osKeys, osButtons, inputAttached,
          osBack, shifted, cursor, lifted, unshifted, fed, rest, turned, meantTurns,
          port, inputRaised, inputCaptured, inputSent, cut

-----------------------------------------------------------------------------
(* Messages of the clients *)

\* Small motions, positions, buttons, gamepads, fingers and sensors.
Mixed ==
  [type : {"rel"}, d : {<<1, 1>>}]
  \union [type : {"button"}]
  \union [type : {"abs"}, at : {"a", "b"}, size : {"s"}]
  \union [type : {"abs"}, at : {"a"}, size : {"t"}]
  \union [type : {"pad"}, c : {0, 1}, mask : {{0, 1}}, buttons : {{}, {"A"}}, stick : {"a", "b"}]
  \union [type : {"touch"}, p : {0, 1}, event : {"down", "move", "up"}, at : {"a"}]
  \union [type : {"motion"}, c : {0}, sensor : {"gyro", "accel"}, at : {"a", "b"}]

\* Pens and the touchpads of gamepads.
Pens ==
  [type : {"pen"}, event : {"down", "move", "up", "hover"}, tool : {"pen", "eraser"}, at : {"a"}]
  \union [type : {"padTouch"}, c : {0}, p : {0, 1}, event : {"down", "move", "up"},
          at : {"a", "b"}]
  \union [type : {"padTouch"}, c : {1}, p : {0}, event : {"move"}, at : {"a"}]

\* The mouse.
Desk == [type : {"button"}, b : {"left", "right"}, release : BOOLEAN]
        \union [type : {"move"}, absolute : BOOLEAN]

\* The keyboard alone, of two clients and of one, and what points and turns.
Board == [type : {"key"}, key : {"a"}, release : {FALSE}, shift : {TRUE}]
         \union [type : {"key"}, key : {"leftShift"}, release : BOOLEAN, shift : {FALSE}]
Shifts == Board \union [type : {"key"}, key : {"a"}, release : {TRUE}, shift : {TRUE}]
                \union [type : {"key"}, key : {"rightShift"}, release : BOOLEAN, shift : {FALSE}]
                \union [type : {"key"}, key : {"n"}, release : {FALSE}, shift : {TRUE}]
Wheel == [type : {"scroll"}, way : {"v"}, amount : {-80, 50, 240}]
         \union [type : {"scroll"}, way : {"h"}, amount : {-130}]
         \union [type : {"draw"}] \union [type : {"move"}, absolute : {TRUE}]

\* A gamepad.
Gamepads == [type : {"arrive", "leave", "sense"}] \union [type : {"pad"}, back : BOOLEAN]

InputPart == {"keys", "typing", "alone", "pointing", "gamepads"}
ClientsSay ==
  [keys |-> Desk, typing |-> Board, alone |-> Shifts, pointing |-> Wheel, gamepads |-> Gamepads]

\* Large motions of the mouse and of its wheels.
Motions == [type : {"rel"}, d : {1, 100} \X {1, 100}]

(* What clients say of their pads, and what is pressed on one *)

Arrives(t, has) == [type |-> t, has |-> has]
PadArrivals == {Arrives("unknown", {"motion", "touchpad"}), Arrives("unknown", {"touchpad"}),
                Arrives("xbox", {"motion"})}

PadPresses == {d \in SUBSET {"up", "down", "left", "right"} : Cardinality(d) <= 2}
              \union {{"up", b} : b \in {"home", "misc", "back", "touchpad"}} \union {{"back", "a"}}

(* The planes of two cards *)

Shows(c, r) == [card |-> c, cursor |-> FALSE, read |-> r]
Points(c) == [card |-> c, cursor |-> TRUE, read |-> "yes"]

PlaneSetups == {<<Shows(1, "yes"), Points(1), Shows(2, "yes")>>,
                <<Shows(1, "denied"), Shows(2, "yes"), Shows(2, "yes")>>}
OneSetup == CHOOSE ps \in PlaneSetups : TRUE

(* The monitors of a Wayland or X11 host *)

MonitorLists == {<<1, 2>>, <<2, 1>>, <<1>>, <<2>>, <<>>}

\* PipewireStream: what encodes, on which cards, and what the compositor shares.
StreamSetup(mem, cards, egl, corrupt, sizes, reopened) ==
  [mem |-> mem, cards |-> cards, egl |-> egl, formats |-> TRUE, agrees |-> TRUE,
   corrupt |-> corrupt, sizes |-> sizes, restarts |-> reopened]
StreamSetups == {StreamSetup("vaapi", {"intel"}, "Mesa", {}, {1, 2}, 0),
                 StreamSetup("cuda", {"intel", "nvidia"}, "NVIDIA", {}, {1}, 0),
                 StreamSetup("cuda", {"nvidia"}, "NVIDIA", {1}, {2}, 1)}
OneStream == CHOOSE s \in StreamSetups : TRUE

-----------------------------------------------------------------------------
Devices == INSTANCE WinInput WITH
  Finger <- {1, 2, 3}, Slots <- 2, Address <- 1..3, Pad <- {1, 2},
  Arrivals <- PadArrivals, Gamepad <- "auto", AsDs4 <- {"motion"}, Touches <- {1, 2, 3},
  MayFail <- TRUE, Handle <- {1, 2}, Presses <- PadPresses,
  Sticks <- {-32768, -32767, -32509, -257, 0, 1, 12594, 32767}, MaxTask <- 2,
  MaxSwitch <- 3

Desktop == INSTANCE DesktopCapture WITH
  MaxFrame <- 2, MayFail <- TRUE, SameAddress <- FALSE, current <- desktopCurrent,
  pc <- desktopPc

Pipe == INSTANCE PipewireStream WITH
  Buffer <- Image, Setups <- StreamSetups, MaxFrame <- 2, MaxChange <- 1,
  held <- pipeHeld, pc <- pipePc, waiting <- pipeWaiting,
  changes <- pipeChanges, restarts <- pipeRestarts

Kms == INSTANCE KmsCapture WITH
  Setups <- PlaneSetups, Image <- 1..2, Fd <- 1..3, MaxChange <- 1, MaxOpen <- 2,
  pointer <- kmsPointer, pc <- kmsPc, opened <- kmsOpened, img <- kmsImg,
  waiting <- kmsWaiting, reading <- kmsReading, data <- kmsData, changes <- kmsChanges

Pull == INSTANCE LinuxCapture WITH
  Orders <- MonitorLists, Image <- {1}, Fd <- 1..3, Buffer <- {1, 2, 3}, MaxScreen <- 1,
  MaxChange <- 1, MaxLate <- 1, listed <- pullListed, wanted <- pullWanted,
  shown <- pullShown, pc <- pullPc, result <- pullResult, size <- pullSize,
  screen <- pullScreen, held <- pullHeld, changes <- pullChanges

Batch == INSTANCE InputBatch WITH
  Messages <- Mixed, MaxMessages <- 3, Bits <- 8,
  queue <- batchQueue, tasks <- batchTasks, seen <- batchSeen, meant <- batchMeant

PenBatch == INSTANCE InputBatch WITH
  Messages <- Pens, MaxMessages <- 3, Bits <- 8,
  queue <- batchQueue, tasks <- batchTasks, seen <- batchSeen, meant <- batchMeant

AllSaid == UNION {Says[p] : p \in InputPart}

\* One client types alone and another points; the rest is about all of them.
Inp == INSTANCE Input WITH
  Session <- Streamer, Message <- AllSaid, MaxMessages <- MaxSent,
  Port <- 1..MaxPort, Pad <- PadIds, tasks <- inputTasks, pad <- inputPad,
  attached <- inputAttached, raised <- inputRaised, captured <- inputCaptured,
  sent <- inputSent

\* Ids of gamepads are numbers, the lowest free one of which can be taken.
ASSUME ClientAssumption ==
  /\ "none" \notin Id /\ "disabled" \notin Id
  /\ \A p \in InputPart : \A m \in Says[p] : Inp!IsMessage(m)
  /\ Streamer # {} /\ MaxSent \in Nat /\ MaxPort \in Nat /\ PadIds \subseteq Nat
  /\ \A ids \in SUBSET PadIds : ids # {} => \E i \in ids : \A j \in ids : i <= j

One == CHOOSE s \in Streamer : TRUE
Clients == IF part = "alone" \/ part = "pointing" THEN {One} ELSE Streamer
Said == IF part = "alone" \/ inputSent < MaxSent - 1 THEN Says[part] ELSE {}
Displays == IF part = "pointing" THEN 1..MaxPort ELSE {}

devicesVars == <<tool, touch, active, pen, repeat, device, failed, held, penDown, ended, overtaken,
                 client, pad, target, attached, again, pointers, available, raised, lastRumble,
                 motor, posted, told, mistaken, touching, dropped, crossed, desk, on, knownDesk,
                 packets, syncing, lostSends, switches, syncFails, pressed, report>>
desktopVars == <<method, screen, pointer, news, screenFormat, desktopCurrent, arrived, desktopPc, src,
                 format, pointerSeen, blend, last, out, seen, image, opened, queue,
                 encoding, misread>>
pipeVars == <<stream, setup, size, where, holds, frame, pipeHeld, ready, dead, prev, front, session,
              maxRate, pipePc, result, width, resized, img, data, pipeWaiting, reading, shown,
              streamed, vanished, pipeChanges, pipeRestarts>>
kmsVars == <<planes, listed, listedFrom, memory, mode, kmsPointer, owner, kmsPc, kmsOpened, meant,
             openedIn, known, captured, was, kmsImg, kmsWaiting, kmsReading, kmsData,
             stolen, gaveUp, missed, kmsChanges, opens>>
pullVars == <<backend, named, lit, monitors, pullListed, pullWanted, pullShown, pullPc, pullResult,
              pullSize, pullScreen, since, pushed, busy, pullHeld, status, cur, frames,
              info, bo, wlBuffer, bos, wlBuffers, requests, files, content, late, xattr,
              segment, tasks, refreshId, refreshing, pullChanges>>
batchVars == <<batchQueue, batchTasks, batchSeen, batchMeant, sent>>
inputVars == <<inputTasks, timers, running, life, keyPress, mousePress, repeatId, leftId, inputPad,
               mask, backId, forcedUp, padBack, osKeys, osButtons, inputAttached, osBack,
               shifted, cursor, lifted, unshifted, fed, rest, turned, meantTurns, port,
               inputRaised, inputCaptured, inputSent, cut>>

platformVars == <<part, devicesVars, desktopVars, refsVars, pipeVars, kmsVars, pullVars,
                  batchVars, inputVars>>

PartsInit ==
  /\ Devices!Init /\ (part # "devices" => tool = "pen")
  /\ Desktop!Init /\ (part # "desktop" => method = "ram" /\ pointer)
  /\ Init /\ (part # "refs" => encoder = "rfi")
  /\ Pipe!Init /\ (part # "pipe" => setup = OneStream)
  /\ Kms!Init /\ (part # "kms" => planes = OneSetup /\ memory = "ram")
  /\ Pull!Init /\ (part # "pull" => /\ backend = "shm" /\ pullListed = <<1>>
                                   /\ monitors = <<1>> /\ lit = {} /\ pullWanted = 0)
  /\ Batch!Init
  /\ Inp!Init

PlatformInit ==
  /\ part \in {"devices", "desktop", "refs", "pipe", "kms", "pull", "batch", "pens",
               "keys", "typing", "alone", "pointing", "gamepads"}
  /\ PartsInit

\* The parts that do not run stay as they are.
Others ==
  /\ part # "devices" => UNCHANGED devicesVars
  /\ part # "desktop" => UNCHANGED desktopVars
  /\ part # "refs" => UNCHANGED refsVars
  /\ part # "pipe" => UNCHANGED pipeVars
  /\ part # "kms" => UNCHANGED kmsVars
  /\ part # "pull" => UNCHANGED pullVars
  /\ part \notin {"batch", "pens"} => UNCHANGED batchVars
  /\ part \notin InputPart => UNCHANGED inputVars

PlatformNext ==
  /\ UNCHANGED part
  /\ \/ part = "devices" /\ Devices!Next
     \/ part = "desktop" /\ Desktop!Next
     \/ part = "refs" /\ Next
     \/ part = "pipe" /\ Pipe!Next
     \/ part = "kms" /\ Kms!Next
     \/ part = "pull" /\ Pull!Next
     \/ part = "batch" /\ Batch!Next
     \/ part = "pens" /\ PenBatch!Next
     \/ part \in InputPart /\ Inp!NextOf(Clients, Said, Displays)
  /\ Others

PlatformSpec == PlatformInit /\ [][PlatformNext]_platformVars

\* Only large motions.
MotionBatch == INSTANCE InputBatch WITH
  Messages <- Motions, MaxMessages <- 3, Bits <- 8,
  queue <- batchQueue, tasks <- batchTasks, seen <- batchSeen, meant <- batchMeant

MotionSpec ==
  /\ part = "motions" /\ PartsInit
  /\ [][/\ MotionBatch!Next
         /\ UNCHANGED <<part, devicesVars, desktopVars, refsVars, pipeVars, kmsVars, pullVars,
                        inputVars>>]_platformVars

-----------------------------------------------------------------------------
(* The properties of the parts *)

\* InputBatch: what is merged says what its parts said.
InputIsKept == /\ part = "batch" => Batch!TypeOK /\ Batch!InputIsKept
               /\ part = "pens" => PenBatch!TypeOK /\ PenBatch!InputIsKept

\* "Batching is safe as long as the result doesn't overflow a 16-bit integer".
MotionIsKept == MotionBatch!MotionIsKept

\* Input: what is held down on the host is known to the client that holds it, or
\* to nobody when it left; no turn of a wheel is lost; and a gamepad has one owner.
HeldIsKnown ==
  part \in InputPart => /\ Inp!TypeOK /\ Inp!HeldIsKnown /\ Inp!NothingLeft /\ Inp!TypedAsAsked
                        /\ Inp!WheelIsKept /\ Inp!PortIsCurrent
                        /\ Inp!PadOwned /\ Inp!FedByOwner

\* WinInput: what the client holds is held on the host and said again, and nothing
\* else is; no more input is lost than desktops change; a pad shows what is pressed.
DevicesAreSafe ==
  part = "devices" => /\ Devices!TypeOK
                      /\ Devices!ContactsAreHeld /\ Devices!HeldIsRepeated
                      /\ Devices!NoOrphanRepeat
                      /\ Devices!RepeatIsBacked /\ Devices!FingerHasPointer
                      /\ Devices!RumbleStops /\ Devices!LossIsBounded
                      /\ Devices!ReportIsTrue

\* DesktopCapture: the encoder reads the picture it was given, whole and the latest.
\* PipewireStream, LinuxCapture and KmsCapture: the buffers and descriptors of a picture are its own
\* while it is read and are given back once; what is shown is the desktop that was
\* captured, with its pointer.
PictureIsTrue ==
  /\ part = "desktop" => /\ Desktop!TypeOK /\ Desktop!PushedIsLatest
                          /\ Desktop!NoTornImage /\ Desktop!EncoderReadsPushed
  /\ part = "pipe" => /\ Pipe!TypeOK /\ Pipe!BuffersReturn /\ Pipe!PictureIsWhole
                       /\ Pipe!NeverOlder /\ Pipe!ImageFits /\ Pipe!DeathIsKnown
                       /\ Pipe!RateIsKept /\ Pipe!CorruptIsDropped /\ Pipe!DeviceSuits
  /\ part = "pull" => /\ Pull!TypeOK /\ Pull!FilesAreHeld /\ Pull!PictureIsNew
                       /\ Pull!ShownIsListed /\ Pull!NoOrphanRefresh
  /\ part = "kms" => /\ Kms!TypeOK /\ Kms!NameMeansPlane /\ Kms!ClosesItsOwn
                      /\ Kms!ReadsOpen /\ Kms!NoneIsLost
                      /\ Kms!PointerIsCurrent /\ Kms!PointerIsSeen

=============================================================================
