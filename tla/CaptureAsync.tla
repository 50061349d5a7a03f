---------------------------- MODULE CaptureAsync ----------------------------
(***************************************************************************)
(* Capture and encoding on separate threads (video.cpp): one capture       *)
(* thread, kept while some session has a handle on it, owns the display    *)
(* and deals its images out; the video thread of each session              *)
(* (capture_async, encode_run) takes a handle on the display, encodes what *)
(* arrives in its own event, and lets go when the display has to be        *)
(* opened anew.                                                            *)
(*                                                                         *)
(* External: the display back-ends and encoders, which may fail whenever   *)
(* they are called, and session::stop(), which raises the shutdown event.  *)
(***************************************************************************)
EXTENDS Integers, Sequences, SequencesExt, Mailbox

CONSTANTS Viewer,            \* the sessions' video threads
          MaxDisplay,        \* bound on the displays ever opened
          ImagesHoldDisplay, \* images refer to their display (GPU back-ends)
          AsyncTeardown      \* the encoder has the flag ASYNC_TEARDOWN

NoDisplay == 0
Display == 1..MaxDisplay

VARIABLES
  \* capture_thread_async, a shared_t: "down", "up", or "ending"
  context,
  handles,                   \* the sessions that hold a ptr_t
  ctxQueue,                  \* capture_ctx_queue
  reinit,                    \* reinit_event
  displayWp,                 \* display_wp: the display it refers to, alive or not
  \* captureThread
  capture,                   \* where it is: [pc, drain]
  ctxs,                      \* capture_ctxs, whose order nothing depends on
  disp,                      \* its own shared_ptr
  opened,                    \* displays opened so far
  switch,                    \* mail::switch_display is raised
  \* capture_async and encode_run of each session
  viewer,                    \* where it is
  shutdownRaised,            \* the session's mail::shutdown
  images,                    \* its image event
  held,                      \* its shared_ptr to the display
  encoded,                   \* frame_nr > 1
  teardown,                  \* encoders being torn down: <<session, display>>
  crashed                    \* the program did something undefined

threadVars == <<capture, ctxs, disp, opened, switch>>
viewerVars == <<viewer, shutdownRaised, held, encoded, teardown>>
sharedVars == <<context, handles, ctxQueue, reinit, displayWp, images>>
vars == <<threadVars, viewerVars, sharedVars, crashed>>

CapturePC == {"off", "wait", "open", "top", "capture", "reinit", "await", "drain",
              "drop", "make", "publish", "unflag", "guard", "stopImages", "done"}
ViewerPC == {"none", "raise", "check", "loop", "expired", "lock", "device",
             "encode", "frame", "leave", "join", "guard", "done"}

TypeOK ==
  /\ context \in {"down", "up", "ending"}
  /\ handles \subseteq Viewer
  /\ ctxQueue \in [on: BOOLEAN, items: Seq(Viewer)]
  /\ reinit \in [on: {TRUE}, val: {TRUE, Nothing}]
  /\ displayWp \in Display \union {NoDisplay}
  /\ capture \in [pc: CapturePC, drain: Viewer \union {Nothing}]
  /\ ctxs \subseteq Viewer
  /\ disp \in Display \union {NoDisplay}
  /\ opened \in 0..MaxDisplay
  /\ switch \in BOOLEAN
  /\ viewer \in [Viewer -> ViewerPC]
  /\ shutdownRaised \in [Viewer -> BOOLEAN]
  /\ images \in [Viewer -> [on: BOOLEAN, val: Display \union {Nothing}]]
  /\ held \in [Viewer -> Display \union {NoDisplay}]
  /\ encoded \in [Viewer -> BOOLEAN]
  /\ teardown \subseteq Viewer \X Display
  /\ crashed \in BOOLEAN

Init ==
  /\ context = "down" /\ handles = {}
  /\ ctxQueue = NewQueue
  /\ reinit = NewEvent
  /\ displayWp = NoDisplay
  /\ capture = [pc |-> "off", drain |-> Nothing]
  /\ ctxs = {} /\ disp = NoDisplay /\ opened = 0
  /\ switch = FALSE
  /\ viewer = [v \in Viewer |-> "none"]
  /\ shutdownRaised = [v \in Viewer |-> FALSE]
  /\ images = [v \in Viewer |-> NewEvent]
  /\ held = [v \in Viewer |-> NoDisplay]
  /\ encoded = [v \in Viewer |-> FALSE]
  /\ teardown = {}
  /\ crashed = FALSE

-----------------------------------------------------------------------------
(* The display as a shared object *)

\* Who keeps display d alive besides the capture thread: the encoders, the
\* encoders being torn down, and the images nobody took yet.
OtherHolders(d) ==
  {v \in Viewer : \/ held[v] = d
                  \/ <<v, d>> \in teardown
                  \/ ImagesHoldDisplay /\ images[v].val = d}

DisplayAlive(d) == disp = d \/ OtherHolders(d) # {}

-----------------------------------------------------------------------------
(* captureThread *)

At(pc) == capture.pc = pc
Goto(pc) == capture' = [capture EXCEPT !.pc = pc]
OnlyThread == UNCHANGED <<viewerVars, context, handles>>

\* A return: the display and the pool of images go before the fail_guard
\* runs, and with them the handle on switch_display.
Return == Goto("guard") /\ disp' = NoDisplay /\ switch' = FALSE

\* The first context, or a stop of the queue.
TakeFirst ==
  /\ At("wait") /\ (ctxQueue.items # <<>> \/ ~ctxQueue.on)
  /\ IF ctxQueue.on
     THEN /\ ctxs' = {Head(ctxQueue.items)}
          /\ ctxQueue' = Taken(ctxQueue)
          /\ Goto("open")
          /\ UNCHANGED <<disp, switch>>
     ELSE Return /\ UNCHANGED <<ctxs, ctxQueue>>
  /\ UNCHANGED <<opened, reinit, displayWp, images, crashed>> /\ OnlyThread

\* The mutex of display_wp: a session holds it while it looks and locks.
DisplayWpFree == \A v \in Viewer : viewer[v] # "lock"

\* refresh_displays() and platf::display().
Open == /\ At("open") /\ DisplayWpFree /\ opened < MaxDisplay
        /\ opened' = opened + 1
        /\ disp' = opened' /\ displayWp' = opened'
        /\ Goto("top")
        /\ UNCHANGED <<ctxs, switch, ctxQueue, reinit, images, crashed>> /\ OnlyThread

OpenFails == /\ At("open")
             /\ Return
             /\ UNCHANGED <<opened, ctxs, ctxQueue, reinit, displayWp, images, crashed>>
             /\ OnlyThread

\* while (capture_ctx_queue->running()): call disp->capture().
CaptureTop == /\ At("top") /\ ctxQueue.on
              /\ Goto("capture")
              /\ UNCHANGED <<ctxs, disp, opened, switch, ctxQueue, reinit, displayWp,
                             images, crashed>>
              /\ OnlyThread

\* The contexts whose session still wants images.
Listening(cs) == {v \in cs : images[v].on}

\* push_captured_image_callback with a frame, or without one (a timeout):
\* deal the image out, then let new contexts in.
Push(captured) ==
  /\ At("capture") /\ ctxQueue.on
  /\ images' = [v \in Viewer |->
                  IF captured /\ v \in ctxs THEN Raise(images[v], disp)
                                                   ELSE images[v]]
  /\ ctxs' = Listening(ctxs) \union ToSet(ctxQueue.items)
  /\ ctxQueue' = [ctxQueue EXCEPT !.items = <<>>]
  /\ IF switch THEN Goto("reinit") ELSE UNCHANGED capture
  /\ UNCHANGED <<disp, opened, switch, reinit, displayWp, crashed>> /\ OnlyThread

\* The callback finds the queue stopped, or the loop does.
CaptureStopped == /\ capture.pc \in {"top", "capture"} /\ ~ctxQueue.on
                  /\ Return
                  /\ UNCHANGED <<opened, ctxs, ctxQueue, reinit, displayWp, images,
                                 crashed>>
                  /\ OnlyThread

\* capture() returns reinit: the desktop changed under it.
BackendReinit == /\ At("capture") /\ opened < MaxDisplay
                 /\ Goto("reinit")
                 /\ UNCHANGED <<ctxs, disp, opened, switch, ctxQueue, reinit, displayWp,
                                images, crashed>>
                 /\ OnlyThread

\* capture() returns error, timeout or interrupted.
BackendFails == /\ At("capture")
                /\ Return
                /\ UNCHANGED <<opened, ctxs, ctxQueue, reinit, displayWp, images, crashed>>
                /\ OnlyThread

RaiseReinit == /\ At("reinit")
               /\ reinit' = Raise(reinit, TRUE)
               /\ Goto("await")
               /\ UNCHANGED <<ctxs, disp, opened, switch, ctxQueue, displayWp, images,
                              crashed>>
               /\ OnlyThread

\* Faulty: the images that nobody took are not waited for.
EncodersLetGo == \A v \in Viewer : held[v] # displayWp

SoleHolder == OtherHolders(displayWp) = {}

\* while (display_wp->use_count() != 1): drop the contexts that were stopped,
\* and take the images back that the encoders left.
AwaitOver == /\ At("await") /\ SoleHolder
             /\ Goto("drop")
             /\ UNCHANGED <<ctxs, disp, opened, switch, ctxQueue, reinit, displayWp,
                            images, crashed>>
             /\ OnlyThread

AwaitErase == /\ At("await") /\ ~SoleHolder
              /\ ctxs # Listening(ctxs)
              /\ ctxs' = Listening(ctxs)
              /\ UNCHANGED <<capture, disp, opened, switch, ctxQueue, reinit, displayWp,
                             images, crashed>>
              /\ OnlyThread

\* images->peek() ...
DrainPeek(v) == /\ At("await") /\ ~SoleHolder
                /\ v \in ctxs /\ Peek(images[v])
                /\ capture' = [pc |-> "drain", drain |-> v]
                /\ UNCHANGED <<ctxs, disp, opened, switch, ctxQueue, reinit, displayWp,
                               images, crashed>>
                /\ OnlyThread

\* ... and then images->pop(), which waits if the encoder was faster.
DrainPop ==
  /\ At("drain")
  /\ LET v == capture.drain
     IN /\ Peek(images[v]) \/ ~images[v].on
        /\ images' = [images EXCEPT ![v] = IF @.on THEN Emptied(@) ELSE @]
  /\ capture' = [pc |-> "await", drain |-> Nothing]
  /\ UNCHANGED <<ctxs, disp, opened, switch, ctxQueue, reinit, displayWp, crashed>>
  /\ OnlyThread

\* while (capture_ctx_queue->running()): release the display, or keep the old
\* one when nobody is left who wants another.
Drop == /\ At("drop")
        /\ IF ctxQueue.on
           THEN disp' = NoDisplay /\ Goto("make")
           ELSE Goto("publish") /\ UNCHANGED disp
        /\ UNCHANGED <<ctxs, opened, switch, ctxQueue, reinit, displayWp, images, crashed>>
        /\ OnlyThread

\* A pending display switch is taken, and reset_display() opens a display for
\* the configuration of the first context; capture_ctxs.front() of an empty
\* vector is undefined.
Make == /\ At("make") /\ opened < MaxDisplay
        /\ switch' = FALSE
        /\ IF ctxs = {}
           THEN crashed' = TRUE /\ UNCHANGED <<disp, opened, capture>>
           ELSE /\ opened' = opened + 1 /\ disp' = opened'
                /\ Goto("publish")
                /\ UNCHANGED crashed
        /\ UNCHANGED <<ctxs, ctxQueue, reinit, displayWp, images>>
        /\ OnlyThread

GiveUp == ~ctxQueue.on

\* No display: try again as long as the queue runs.
MakeFails == /\ At("make") /\ ctxs # {}
             /\ IF GiveUp THEN Return
                ELSE switch' = FALSE /\ UNCHANGED <<capture, disp>>
             /\ UNCHANGED <<ctxs, opened, ctxQueue, reinit, displayWp, images, crashed>>
             /\ OnlyThread

Publish == /\ At("publish") /\ DisplayWpFree
           /\ displayWp' = disp
           /\ Goto("unflag")
           /\ UNCHANGED <<ctxs, disp, opened, switch, ctxQueue, reinit, images, crashed>>
           /\ OnlyThread

ClearReinit == reinit' = ResetEvent(reinit)

Unflag == /\ At("unflag")
          /\ ClearReinit
          /\ Goto("top")
          /\ UNCHANGED <<ctxs, disp, opened, switch, ctxQueue, displayWp, images, crashed>>
          /\ OnlyThread

\* The fail_guard: no context gets in any more ...
Guard == /\ At("guard")
         /\ ctxQueue' = StopQueue(ctxQueue)
         /\ Goto("stopImages")
         /\ UNCHANGED <<ctxs, disp, opened, switch, reinit, displayWp, images, crashed>>
         /\ OnlyThread

\* The contexts the thread has taken, and those it has not.
ToStop == ctxs \union ToSet(ctxQueue.items)

\* ... and whoever got in is told.
StopImages == /\ At("stopImages")
              /\ images' = [v \in Viewer |-> IF v \in ToStop THEN StopEvent(images[v])
                                                             ELSE images[v]]
              /\ ctxs' = {}
              /\ Goto("done")
              /\ UNCHANGED <<disp, opened, switch, ctxQueue, reinit, displayWp, crashed>>
              /\ OnlyThread

CaptureThread ==
  \/ TakeFirst \/ Open \/ OpenFails \/ CaptureTop
  \/ Push(TRUE) \/ Push(FALSE) \/ CaptureStopped
  \/ RaiseReinit \/ AwaitOver \/ AwaitErase \/ (\E v \in Viewer : DrainPeek(v))
  \/ DrainPop \/ Drop \/ Make \/ MakeFails \/ Publish \/ Unflag
  \/ Guard \/ StopImages

\* What the desktop does to the capture thread.
Backend == BackendReinit \/ BackendFails

-----------------------------------------------------------------------------
(* capture_async and encode_run, on the video thread of a session *)

Move(v, pc) == viewer' = [viewer EXCEPT ![v] = pc]
OnlyViewer == UNCHANGED <<threadVars, reinit, displayWp, crashed>>

\* capture_thread_async.ref(): the first handle runs start_capture_async().
RefCapture(v) ==
  /\ viewer[v] = "none" /\ context # "ending"
  /\ handles' = handles \union {v}
  /\ IF context = "down"
     THEN /\ context' = "up"
          /\ reinit' = ResetEvent(reinit)
          /\ ctxQueue' = NewQueue
          /\ capture' = [pc |-> "wait", drain |-> Nothing]
     ELSE UNCHANGED <<context, reinit, ctxQueue, capture>>
  /\ Move(v, "raise")
  /\ UNCHANGED <<shutdownRaised, held, encoded, teardown, images, displayWp,
                 ctxs, disp, opened, switch, crashed>>

RaiseContext(v) == /\ viewer[v] = "raise"
                   /\ ctxQueue' = Put(ctxQueue, v, 30)
                   /\ Move(v, "check")
                   /\ UNCHANGED <<shutdownRaised, held, encoded, teardown,
                                  context, handles, images>>
                   /\ OnlyViewer

CheckQueue(v) == /\ viewer[v] = "check"
                 /\ Move(v, IF ctxQueue.on THEN "loop" ELSE "leave")
                 /\ UNCHANGED <<shutdownRaised, held, encoded, teardown,
                                context, handles, ctxQueue, images>>
                 /\ OnlyViewer

ViewerOver(v) == shutdownRaised[v] \/ ~images[v].on

\* while (!shutdown_event->peek() && images->running()); asleep while the
\* display is being opened anew.
ViewerLoop(v) ==
  /\ viewer[v] = "loop"
  /\ \/ ViewerOver(v) /\ Move(v, "leave")
     \/ ~ViewerOver(v) /\ ~Peek(reinit) /\ Move(v, "expired")
  /\ UNCHANGED <<shutdownRaised, held, encoded, teardown,
                 context, handles, ctxQueue, images>>
  /\ OnlyViewer

\* display_wp->expired() ...
IsExpired(v) ==
  /\ viewer[v] = "expired" /\ DisplayWpFree
  /\ Move(v, IF displayWp # NoDisplay /\ DisplayAlive(displayWp) THEN "lock" ELSE "loop")
  /\ UNCHANGED <<shutdownRaised, held, encoded, teardown,
                 context, handles, ctxQueue, images>>
  /\ OnlyViewer

\* ... and then display_wp->lock(), which yields nothing if the display went
\* in between; the code goes on to use it.
LockDisplay(v) ==
  /\ viewer[v] = "lock"
  /\ IF DisplayAlive(displayWp)
     THEN /\ held' = [held EXCEPT ![v] = displayWp]
          /\ Move(v, "device")
          /\ UNCHANGED crashed
     ELSE crashed' = TRUE /\ UNCHANGED <<held, viewer>>
  /\ UNCHANGED <<shutdownRaised, encoded, teardown,
                 context, handles, ctxQueue, images, threadVars, reinit, displayWp>>

LetDisplayGo(v) == held' = [held EXCEPT ![v] = NoDisplay]

\* make_encode_device(): without one the session is over.
DeviceFails(v) == /\ viewer[v] = "device"
                  /\ LetDisplayGo(v) /\ Move(v, "leave")
                  /\ UNCHANGED <<shutdownRaised, encoded, teardown,
                                 context, handles, ctxQueue, images>>
                  /\ OnlyViewer

\* The end of encode_run: the encoder may be torn down by another thread,
\* which keeps the display meanwhile.
EndRun(v) ==
  /\ LetDisplayGo(v) /\ Move(v, "loop")
  /\ teardown' = IF AsyncTeardown THEN teardown \union {<<v, held[v]>>} ELSE teardown

\* make_encode_session() fails (then there is nothing to tear down).
SessionFails(v) == /\ viewer[v] = "device"
                   /\ LetDisplayGo(v) /\ Move(v, "loop")
                   /\ UNCHANGED <<shutdownRaised, encoded, teardown,
                                  context, handles, ctxQueue, images>>
                   /\ OnlyViewer

\* The encoder exists; it may fail on the dummy image.
MakeEncoder(v) == /\ viewer[v] = "device"
                  /\ \/ Move(v, "encode") /\ UNCHANGED <<held, teardown>>
                     \/ EndRun(v)
                  /\ UNCHANGED <<shutdownRaised, encoded,
                                 context, handles, ctxQueue, images>>
                  /\ OnlyViewer

MustBreak(v) == \/ shutdownRaised[v]
                \/ ~images[v].on
                \/ Peek(reinit) /\ encoded[v]

EncodeTop(v) == /\ viewer[v] = "encode"
                /\ IF MustBreak(v) THEN EndRun(v)
                   ELSE Move(v, "frame") /\ UNCHANGED <<held, teardown>>
                /\ UNCHANGED <<shutdownRaised, encoded,
                               context, handles, ctxQueue, images>>
                /\ OnlyViewer

\* An image, or none within max_frametime; convert() and encode() may fail.
EncodeFrame(v) ==
  /\ viewer[v] = "frame"
  /\ images' = [images EXCEPT ![v] = IF @.on THEN Emptied(@) ELSE @]
  /\ \/ /\ images[v].on
        /\ encoded' = [encoded EXCEPT ![v] = TRUE]
        /\ Move(v, "encode") /\ UNCHANGED <<held, teardown>>
     \/ EndRun(v) /\ UNCHANGED encoded
  /\ UNCHANGED <<shutdownRaised, context, handles, ctxQueue>>
  /\ OnlyViewer

\* The handle goes; the last one runs end_capture_async().
LeaveCapture(v) ==
  /\ viewer[v] = "leave"
  /\ handles' = handles \ {v}
  /\ IF handles' = {}
     THEN /\ context' = "ending" /\ ctxQueue' = StopQueue(ctxQueue)
          /\ Move(v, "join")
     ELSE Move(v, "guard") /\ UNCHANGED <<context, ctxQueue>>
  /\ UNCHANGED <<shutdownRaised, held, encoded, teardown, images>>
  /\ OnlyViewer

\* The thread is joined and the context destroyed, with what it held.
JoinCapture(v) ==
  /\ viewer[v] = "join" /\ At("done")
  /\ context' = "down"
  /\ ctxQueue' = NewQueue /\ reinit' = NewEvent /\ displayWp' = NoDisplay
  /\ Goto("off")
  /\ Move(v, "guard")
  /\ UNCHANGED <<shutdownRaised, held, encoded, teardown, images, handles,
                 ctxs, disp, opened, switch, crashed>>

\* The fail_guard of capture_async.
ViewerGuard(v) == /\ viewer[v] = "guard"
                  /\ images' = [images EXCEPT ![v] = StopEvent(@)]
                  /\ shutdownRaised' = [shutdownRaised EXCEPT ![v] = TRUE]
                  /\ Move(v, "done")
                  /\ UNCHANGED <<held, encoded, teardown, context, handles, ctxQueue>>
                  /\ OnlyViewer

ViewerStep(v) ==
  \/ RaiseContext(v) \/ CheckQueue(v) \/ ViewerLoop(v) \/ IsExpired(v) \/ LockDisplay(v)
  \/ DeviceFails(v) \/ SessionFails(v) \/ MakeEncoder(v) \/ EncodeTop(v) \/ EncodeFrame(v)
  \/ LeaveCapture(v) \/ JoinCapture(v) \/ ViewerGuard(v)

TeardownDone == /\ teardown # {}
                /\ \E t \in teardown : teardown' = teardown \ {t}
                /\ UNCHANGED <<threadVars, sharedVars, crashed,
                               viewer, shutdownRaised, held, encoded>>

-----------------------------------------------------------------------------
(* The environment *)

\* session::stop(), for whatever reason.
StopViewer(v) == /\ viewer[v] # "done" /\ ~shutdownRaised[v]
                 /\ shutdownRaised' = [shutdownRaised EXCEPT ![v] = TRUE]
                 /\ UNCHANGED <<threadVars, sharedVars, crashed,
                                viewer, held, encoded, teardown>>

\* Ctrl+Alt+Shift+F<n>: without a capture thread nobody holds the event, and
\* what is raised is lost.
SwitchDisplay == /\ ~switch /\ capture.pc \notin {"off", "guard", "stopImages", "done"}
                 /\ opened < MaxDisplay
                 /\ switch' = TRUE
                 /\ UNCHANGED <<viewerVars, sharedVars, crashed,
                                capture, ctxs, disp, opened>>

Next == /\ ~crashed
        /\ \/ CaptureThread \/ Backend
           \/ TeardownDone \/ SwitchDisplay
           \/ \E v \in Viewer : RefCapture(v) \/ ViewerStep(v) \/ StopViewer(v)

Spec == Init /\ [][Next]_vars

\* Threads go on when they can.  Nothing is assumed of the back-ends, the
\* users or the client; an encoder's teardown ends.
Fairness ==
  /\ WF_vars(~crashed /\ CaptureThread)
  /\ WF_vars(~crashed /\ TeardownDone)
  /\ \A v \in Viewer : WF_vars(~crashed /\ ViewerStep(v))

FairSpec == Spec /\ Fairness

-----------------------------------------------------------------------------
(* Properties *)

\* A session's context is either refused (capture_async sees the queue
\* stopped) or its images are stopped when the capture thread ends: no
\* encoder waits on a thread that is gone.
DeadThreadStopsAll ==
  capture.pc = "done" /\ context = "up" =>
    \A v \in Viewer : viewer[v] \in {"loop", "expired", "lock", "device", "encode", "frame"}
                        => ~images[v].on

\* The event that makes the encoders let go is up only while the display is
\* being replaced, or the thread that would clear it has ended.
ReinitIsPassing ==
  Peek(reinit) => capture.pc \in {"await", "drain", "drop", "make", "publish", "unflag",
                                  "guard", "stopImages", "done"}

\* While images are dealt out, none of an earlier display waits to be encoded.
NoStaleImage ==
  ImagesHoldDisplay /\ capture.pc = "capture" =>
    \A v \in Viewer : Peek(images[v]) => images[v].val = disp

\* "some capture backends only support a single display session": no display
\* is opened while an earlier one lives.
OneDisplay == \A d, e \in Display : DisplayAlive(d) /\ DisplayAlive(e) => d = e

\* A session whose capture thread ended by itself ends too.
DeadThreadEndsViewers ==
  \A v \in Viewer :
    (capture.pc = "done" /\ context = "up" /\ v \in handles)
      ~> (viewer[v] = "done" \/ crashed)

\* A session that was stopped lets its video thread end, unless the capture
\* thread has begun to take back an image: if the encoder was faster, it waits
\* for one that only itself would raise.
StoppedViewerEnds ==
  \A v \in Viewer :
    (shutdownRaised[v] /\ viewer[v] # "none")
      ~> (viewer[v] = "done" \/ crashed \/ capture.pc = "drain")
=============================================================================
