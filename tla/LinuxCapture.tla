----------------------------- MODULE LinuxCapture -----------------------------
(***************************************************************************)
(* The two capture backends of Linux that ask for every picture            *)
(* (platform/linux/wlgrab.cpp and wayland.cpp, and x11grab.cpp).           *)
(*                                                                         *)
(* A Wayland compositor copies a frame into a buffer that Sunshine makes   *)
(* when it is told the format, and answers by events; a snapshot that      *)
(* waits too long leaves its frame behind, and the next one asks again.    *)
(* An X server answers at once, through memory it shares or through the    *)
(* connection; a task of the pool looks up its size every two seconds.     *)
(*                                                                         *)
(* External: the compositor and the X server, the pipeline that holds the  *)
(* pictures.  A picture is the version of the screen it was made of.  A    *)
(* compositor fails a frame before or after it has its buffer, not while   *)
(* it makes one.                                                           *)
(***************************************************************************)
EXTENDS Integers, FiniteSets, Sequences, Functions

CONSTANTS Orders,      \* the lists of monitors there may be
          Image,       \* the images of the pipeline
          Fd,          \* descriptors, the lowest free one is next
          Buffer,      \* buffers of the compositor's frames
          MaxScreen,   \* bound: versions of the screen
          MaxChange,   \* bound: changes of the size
          MaxLate      \* bound: frames that are asked for while another is

VARIABLES
  backend,             \* "ram" or "vram": Wayland; "shm" or "x11"
  named, lit,          \* the compositor names monitors; X11: the outputs that have a CRTC
  monitors, listed,    \* the monitors, and as they were listed, until one is opened
  wanted, shown,       \* display_name: a place in the list; what was opened
  pc, result,          \* where capture() is, and what it returned
  size, screen,        \* of the monitor: its size, the version it shows
  since, pushed,       \* the version when the snapshot began; what was pushed
  busy, held,          \* images that the pipeline has; [image |-> its descriptor]
  status, cur, frames, info,                 \* dmabuf_t
  bo, wlBuffer, bos, wlBuffers,              \* current_bo, current_wl_buffer; all there are
  requests, files, content,                  \* frames that were asked for; <<descriptor, buffer>>
  late,                \* history: frames that were asked for while another was
  xattr, segment,      \* X11: the size known; what the shared memory shows
  tasks, refreshId, refreshing,              \* the task of the pool: delayed_refresh()
  changes

imageVars == <<busy, held>>
hostVars == <<size, screen, changes>>
choiceVars == <<backend, named, lit, monitors, listed, wanted, shown>>
dmaVars == <<status, cur, frames, info, bo, wlBuffer, bos, wlBuffers, requests, files, content, late>>
timerVars == <<tasks, refreshId, refreshing>>
xVars == <<xattr, segment, timerVars>>
vars == <<imageVars, hostVars, choiceVars, dmaVars, xVars, pc, result, since, pushed>>

NoFd == 0
NoBuffer == 0
Desktop == -1      \* all monitors of an X server
Blank == -1        \* what a buffer shows that nothing was copied to
NoPicture == [seen |-> 0, since |-> 0, size |-> "same"]
Wayland == {"ram", "vram"}
Size == {"same", "small", "large"}

\* wl_display_names() and x11_display_names(): something is there to choose from.
Lists == Orders \ {<<>>}

Init ==
  /\ backend \in {"ram", "vram", "shm"} /\ named \in BOOLEAN /\ lit \in SUBSET {1, 2}
  /\ IF backend \in Wayland THEN lit = {} ELSE ~named
  /\ listed \in Lists /\ monitors \in Orders   \* monitors have come and gone since
  /\ wanted \in 0..Len(listed) /\ shown = "none"
  /\ pc = "closed" /\ result = "none" /\ size = "same" /\ screen = 0 /\ since = 0
  /\ pushed = NoPicture /\ busy = {} /\ held = [i \in Image |-> NoFd]
  /\ status = "ready" /\ cur = 0 /\ frames = [k \in {0, 1} |-> [fd |-> NoFd, size |-> "same"]]
  /\ info = [shm |-> FALSE, dma |-> FALSE, size |-> "same"]
  /\ bo = NoBuffer /\ wlBuffer = NoBuffer /\ bos = {} /\ wlBuffers = {}
  /\ requests = {} /\ files = {} /\ content = [b \in Buffer |-> Blank] /\ late = 0
  /\ xattr = "same" /\ segment = Blank /\ tasks = {} /\ refreshId = 0 /\ refreshing = "no"
  /\ changes = 0

-----------------------------------------------------------------------------
(* The host *)

Open == {f[1] : f \in files}

\* The screen changes.  Once a frame is late no property tells apart what is on
\* it: neither it nor what the buffers show is followed any further.
Resize == /\ pc \notin {"closed", "gone"} /\ late = 0 /\ changes < MaxChange /\ changes' = changes + 1
          /\ size' \in (IF backend \in Wayland THEN {"same", "small"} ELSE Size) \ {size}
          /\ UNCHANGED <<screen, imageVars, choiceVars, dmaVars, xVars, pc, result, since, pushed>>

Draw == /\ pc \notin {"closed", "gone"} /\ late = 0 /\ screen < MaxScreen /\ screen' = screen + 1
        /\ UNCHANGED <<size, changes, imageVars, choiceVars, dmaVars, xVars, pc, result, since,
                       pushed>>

\* The pipeline has done with an image.
Return(i) == /\ i \in busy /\ busy' = busy \ {i}
             /\ UNCHANGED <<held, hostVars, choiceVars, dmaVars, xVars, pc, result, since, pushed>>

-----------------------------------------------------------------------------
(* Opening: wlr_t::init(), x11_display() *)

Stops(why) == pc' = "over" /\ result' = why

\* Faulty: the place counts for a monitor that has a name.
WlrByPlace == IF wanted \in 1..Len(monitors) THEN monitors[wanted] ELSE monitors[1]

\* By its name, else by its place, else the first.
WlrMonitor == IF wanted # 0 /\ named /\ listed[wanted] \in Range(monitors) THEN listed[wanted]
              ELSE IF wanted # 0 /\ ~named /\ wanted <= Len(monitors) THEN monitors[wanted]
              ELSE monitors[1]

\* What the user saw in the list, if it is still there: by its name wherever it
\* is now, by its place when the list is the same.
Meant == IF wanted # 0 /\ listed[wanted] \in Range(monitors) /\ (named \/ monitors = listed)
            /\ (backend = "shm" => listed[wanted] \in lit)
         THEN {listed[wanted]} ELSE {Desktop, 1, 2}

\* The lists are not looked at again.
Shown(monitor) == /\ shown' = IF monitor \in Meant THEN "meant" ELSE "other"
                  /\ monitors' = <<>> /\ listed' = <<>> /\ wanted' = 0 /\ named' = FALSE /\ lit' = {}
NotShown(why) == Stops(why) /\ UNCHANGED <<named, lit, monitors, listed, wanted, shown>>

\* interface.monitors[0] of a list that is empty.
OpenWlr == /\ pc = "closed" /\ backend \in Wayland
           /\ \/ monitors = <<>> /\ NotShown("undefined")
              \/ NotShown("failed")
              \/ monitors # <<>> /\ Shown(WlrMonitor) /\ pc' = "idle" /\ UNCHANGED result
           /\ UNCHANGED <<imageVars, hostVars, backend, dmaVars, xVars, since, pushed>>

\* x11_attr_t::init(): outputs are counted whether or not they show anything, and
\* one that does not is all of them.
RrOutput == IF wanted = 0 \/ monitors[wanted] \notin lit THEN Desktop ELSE monitors[wanted]

\* A library of X11 or XCB that is missing ends it before there is a display.
NoLibrary == pc' = "gone" /\ result' = "failed"

\* What shared memory cannot do the connection does.
Opened == {"idle", "fallback"}

\* x11_display(): the task is in the pool before anything else happens.
OpenX11 ==
  /\ pc = "closed" /\ backend = "shm"
  /\ \/ NoLibrary /\ UNCHANGED <<named, lit, monitors, listed, wanted, shown, tasks, refreshId>>
     \/ NotShown("failed") /\ tasks' = {1} /\ refreshId' = 1
     \/ /\ wanted <= Len(monitors) /\ Shown(RrOutput) /\ pc' \in Opened /\ UNCHANGED result
        /\ tasks' = {1} /\ refreshId' = 1
  /\ UNCHANGED <<imageVars, hostVars, backend, dmaVars, xattr, segment, refreshing, since, pushed>>

-----------------------------------------------------------------------------
(* capture(): a picture is pushed, or that there is none, until the push says stop *)

Pushed(i, picture) == /\ busy' = busy \union {i}
                      /\ pushed' = IF late = 0 THEN picture ELSE pushed
                      /\ \/ pc' = "idle" /\ UNCHANGED result
                         \/ Stops("ok")

\* pull_free_image_cb(): an image nobody has, or the pipeline stops.
Interrupted == Stops("interrupted")
FreeImages == Image \ busy

-----------------------------------------------------------------------------
(* Wayland: the frames *)

NextOf(k) == 1 - k
Lowest(set) == CHOOSE x \in set : \A y \in set : x <= y

\* frame_t::destroy()
Closed(fd) == {f \in files : f[1] # fd}

\* cleanup_gbm()
CleanupGbm == /\ bos' = bos \ {bo} /\ bo' = NoBuffer
              /\ wlBuffers' = wlBuffers \ {wlBuffer} /\ wlBuffer' = NoBuffer

\* wlr_t::snapshot() asks for a frame: dmabuf_t::listen()
Listen ==
  /\ pc = "idle" /\ backend \in Wayland /\ (requests = {} \/ late < MaxLate)
  /\ pc' = "wait" /\ since' = screen /\ status' = "waiting"
  /\ info' = [info EXCEPT !.shm = FALSE, !.dma = FALSE]
  /\ LET n == Lowest({m \in 1..MaxLate + 1 : \A r \in requests : r.n # m})
     IN  requests' = requests \union {[n |-> n, stage |-> "new", buffer |-> NoBuffer]}
  /\ IF requests = {} THEN UNCHANGED <<late, content, pushed>>
     ELSE late' = late + 1 /\ content' = [b \in Buffer |-> Blank] /\ pushed' = NoPicture
  /\ UNCHANGED <<imageVars, hostVars, choiceVars, cur, frames, bo, wlBuffer, bos, wlBuffers, files,
                 xVars, result>>

\* display_t::dispatch(): every event that has come is handled before status is looked at.
Dispatches == pc = "wait"
CalledBack == UNCHANGED <<imageVars, hostVars, choiceVars, xVars, pc, result, since, pushed>>

\* buffer() and linux_dmabuf()
Offer(r, kind) ==
  /\ Dispatches /\ r.stage = "new" /\ ~info[kind]
  /\ info' = [info EXCEPT ![kind] = TRUE, !.size = IF kind = "dma" THEN size ELSE @]
  /\ CalledBack
  /\ UNCHANGED <<status, cur, frames, bo, wlBuffer, bos, wlBuffers, requests, files, content, late>>

\* buffer_done(): create_and_copy_dmabuf(), one step of which may fail.  A
\* buffer that another frame left may be taken for this one.
BufferDone(r) ==
  /\ Dispatches /\ r.stage = "new" /\ CalledBack
  /\ UNCHANGED <<cur, info, wlBuffer, wlBuffers, late>>
  /\ LET k == NextOf(cur)
         sized == [frames EXCEPT ![k].size = IF info.dma THEN info.size ELSE @]
         free == Buffer \ (bos \union {f[2] : f \in files} \union {q.buffer : q \in requests})
         Made(b) == LET fd == Lowest(Fd \ Open)
                    IN  /\ Fd \ Open # {} /\ bo' = b /\ bos' = bos \union {b}
                        /\ content' = IF b \in bos THEN content ELSE [content EXCEPT ![b] = Blank]
                        /\ files' = files \union {<<fd, b>>}
                        /\ frames' = [sized EXCEPT ![k].fd = fd]
                        /\ requests' = (requests \ {r}) \union
                                         {[r EXCEPT !.stage = "made", !.buffer = b]}
                        /\ UNCHANGED status
     IN  \/ /\ status' = "reinit" /\ requests' = requests \ {r} /\ frames' = sized
            /\ IF info.dma THEN bo' \in {bo, NoBuffer} /\ bos' = bos \ ({bo} \ {bo'})
               ELSE UNCHANGED <<bo, bos>>
            /\ UNCHANGED <<files, content>>
         \/ info.dma /\ free # {} /\ Made(Lowest(free))
         \/ info.dma /\ bo # NoBuffer /\ Made(bo)

\* buffer_params_created() and buffer_params_failed()
ParamsCreated(r) ==
  /\ Dispatches /\ r.stage = "made" /\ CalledBack
  /\ wlBuffer' = r.buffer /\ wlBuffers' = wlBuffers \union {r.buffer}
  /\ requests' = (requests \ {r}) \union {[r EXCEPT !.stage = "copy"]}
  /\ UNCHANGED <<status, cur, frames, info, bo, bos, files, content, late>>

ParamsFailed(r) ==
  /\ Dispatches /\ r.stage = "made" /\ CalledBack
  /\ CleanupGbm /\ requests' = requests \ {r} /\ status' = "reinit"
  /\ UNCHANGED <<cur, frames, info, files, content, late>>

\* The compositor copies the screen, whatever Sunshine does.
Copy(r) ==
  /\ r.stage = "copy"
  /\ content' = IF late = 0 THEN [content EXCEPT ![r.buffer] = screen] ELSE content
  /\ requests' = (requests \ {r}) \union {[r EXCEPT !.stage = "copied"]}
  /\ UNCHANGED <<imageVars, hostVars, choiceVars, status, cur, frames, info, bo, wlBuffer, bos,
                 wlBuffers, files, late, xVars, pc, result, since, pushed>>

\* Faulty: the picture of before stays open.
ReadyKeepsOld(r) ==
  /\ Dispatches /\ r.stage = "copied" /\ CalledBack
  /\ cur' = NextOf(cur)
  /\ CleanupGbm /\ requests' = requests \ {r} /\ status' = "ready"
  /\ UNCHANGED <<info, content, late, files, frames>>

\* ready()
Ready(r) ==
  /\ Dispatches /\ r.stage = "copied" /\ CalledBack
  /\ files' = Closed(frames[cur].fd)
  /\ frames' = [frames EXCEPT ![cur].fd = NoFd]
  /\ cur' = NextOf(cur)
  /\ CleanupGbm /\ requests' = requests \ {r} /\ status' = "ready"
  /\ UNCHANGED <<info, content, late>>

\* failed()
Failed(r) ==
  /\ Dispatches /\ r.stage # "made" /\ CalledBack
  /\ CleanupGbm /\ requests' = requests \ {r} /\ status' = "reinit"
  /\ files' = Closed(frames[NextOf(cur)].fd)
  /\ frames' = [frames EXCEPT ![NextOf(cur)].fd = NoFd]
  /\ UNCHANGED <<cur, info, content, late>>

-----------------------------------------------------------------------------
(* Wayland: the end of a snapshot *)

\* A second has passed: the frame stays with the compositor.
Timeout == /\ Dispatches /\ status = "waiting"
           /\ \/ pc' = "idle" /\ UNCHANGED result
              \/ Stops("ok")
           /\ UNCHANGED <<imageVars, hostVars, choiceVars, dmaVars, xVars, since, pushed>>

Answered ==
  /\ Dispatches /\ status # "waiting"
  /\ IF status = "reinit" \/ frames[cur].size # "same" THEN Stops("reinit")
     ELSE pc' = "answered" /\ UNCHANGED result
  /\ UNCHANGED <<imageVars, hostVars, choiceVars, dmaVars, xVars, since, pushed>>

Shows(fd) == IF fd \in Open THEN content[(CHOOSE f \in files : f[1] = fd)[2]] ELSE Blank

\* wlr_ram_t::snapshot(): the picture is copied, if it can be imported.
TakeRam ==
  /\ pc = "answered" /\ backend = "ram"
  /\ \/ Stops("reinit") /\ UNCHANGED <<busy, pushed>>
     \/ Interrupted /\ UNCHANGED <<busy, pushed>>
     \/ /\ frames[cur].fd # NoFd
        /\ \E i \in FreeImages :
             Pushed(i, [seen |-> Shows(frames[cur].fd), since |-> since, size |-> frames[cur].size])
  /\ UNCHANGED <<held, hostVars, choiceVars, dmaVars, xVars, since>>

\* wlr_vram_t::snapshot(): the image takes the descriptor, and closes its old one.
TakeVram ==
  /\ pc = "answered" /\ backend = "vram"
  /\ \/ Interrupted /\ UNCHANGED <<imageVars, pushed, files, frames>>
     \/ \E i \in FreeImages :
          /\ Pushed(i, [seen |-> Shows(frames[cur].fd), since |-> since, size |-> frames[cur].size])
          /\ files' = Closed(held[i])
          /\ held' = [held EXCEPT ![i] = frames[cur].fd]
          /\ frames' = [frames EXCEPT ![cur].fd = NoFd]
  /\ UNCHANGED <<hostVars, choiceVars, status, cur, info, bo, wlBuffer, bos, wlBuffers, requests,
                 content, late, xVars, since>>

\* ~dmabuf_t(), and the connection with it.
CloseWlr ==
  /\ pc = "over" /\ backend \in Wayland /\ pc' = "gone"
  /\ CleanupGbm /\ requests' = {}
  /\ files' = {f \in files : \A k \in {0, 1} : f[1] # frames[k].fd}
  /\ frames' = [k \in {0, 1} |-> [frames[k] EXCEPT !.fd = NoFd]]
  /\ UNCHANGED <<imageVars, hostVars, choiceVars, status, cur, info, content, late, xVars, result,
                 since, pushed>>

\* ~img_descriptor_t(), when the pipeline lets the images go.
FreeAll ==
  /\ pc = "gone" /\ busy = {} /\ \E i \in Image : held[i] # NoFd
  /\ held' = [i \in Image |-> NoFd]
  /\ files' = {f \in files : \A i \in Image : f[1] # held[i]}
  /\ UNCHANGED <<busy, hostVars, choiceVars, status, cur, frames, info, bo, wlBuffer, bos, wlBuffers,
                 requests, content, late, xVars, pc, result, since, pushed>>

-----------------------------------------------------------------------------
(* X11 *)

XUnchanged == UNCHANGED <<held, hostVars, choiceVars, dmaVars, timerVars>>

\* x11_attr_t::snapshot() looks up the size at every picture ...
Look == /\ pc = "idle" /\ backend = "x11" /\ XUnchanged /\ xattr' = size /\ since' = screen
        /\ \/ size # "same" /\ Stops("reinit")
           \/ size = "same" /\ Interrupted
           \/ size = "same" /\ FreeImages # {} /\ pc' = "pulled" /\ UNCHANGED result
        /\ UNCHANGED <<busy, pushed, segment>>

\* ... and the picture is gotten later: Xlib ends the program when part of it is
\* no longer on the screen.
GetImage == /\ pc = "pulled" /\ XUnchanged
            /\ \/ size = "small" /\ Stops("undefined") /\ UNCHANGED <<busy, pushed>>
               \/ /\ size # "small"
                  /\ \E i \in FreeImages :
                       Pushed(i, [seen |-> screen, since |-> since, size |-> "same"])
            /\ UNCHANGED <<xattr, segment, since>>

\* shm_attr_t::snapshot() knows the size from the task; the server fills the
\* memory, or refuses.
Ask == /\ pc = "idle" /\ backend = "shm" /\ XUnchanged /\ since' = screen
       /\ IF xattr # "same" THEN Stops("reinit") ELSE pc' = "asked" /\ UNCHANGED result
       /\ UNCHANGED <<busy, pushed, xattr, segment>>

Reply == /\ pc = "asked" /\ XUnchanged
         /\ IF size = "small" THEN Stops("reinit") /\ UNCHANGED segment
            ELSE segment' = screen /\ pc' = "replied" /\ UNCHANGED result
         /\ UNCHANGED <<busy, pushed, xattr, since>>

TakeShm == /\ pc = "replied" /\ XUnchanged
           /\ \/ Interrupted /\ UNCHANGED <<busy, pushed>>
              \/ \E i \in FreeImages :
                   Pushed(i, [seen |-> segment, since |-> since, size |-> "same"])
           /\ UNCHANGED <<xattr, segment, since>>

\* delayed_refresh(): the pool takes the task, which looks up the size, puts
\* itself back, and only then knows its new id.
RefreshStep(from, to) == refreshing = from /\ refreshing' = to

Refresh ==
  /\ \/ /\ tasks # {} /\ RefreshStep("no", "look") /\ tasks' = {} /\ UNCHANGED <<refreshId, xattr>>
     \/ RefreshStep("look", "push") /\ xattr' = size /\ UNCHANGED <<tasks, refreshId>>
     \/ RefreshStep("push", "assign") /\ tasks' = {3 - refreshId} /\ UNCHANGED <<refreshId, xattr>>
     \/ RefreshStep("assign", "no") /\ refreshId' = 3 - refreshId /\ UNCHANGED <<tasks, xattr>>
  /\ UNCHANGED <<imageVars, hostVars, choiceVars, dmaVars, segment, pc, result, since, pushed>>

\* Faulty: one try.
CloseShmOnce ==
  /\ pc \in {"over", "fallback"} /\ backend = "shm"
  /\ tasks' = tasks \ {refreshId}
  /\ IF pc = "over" THEN pc' = "gone" /\ UNCHANGED backend ELSE pc' = "idle" /\ backend' = "x11"
  /\ UNCHANGED <<imageVars, hostVars, named, lit, monitors, listed, wanted, shown, dmaVars, xattr,
                 segment, refreshId, refreshing, result, since, pushed>>

\* ~shm_attr_t(): while (!task_pool.cancel(refresh_task_id));
CloseShm ==
  /\ pc \in {"over", "fallback"} /\ backend = "shm" /\ refreshId \in tasks
  /\ tasks' = tasks \ {refreshId}
  /\ IF pc = "over" THEN pc' = "gone" /\ UNCHANGED backend ELSE pc' = "idle" /\ backend' = "x11"
  /\ UNCHANGED <<imageVars, hostVars, named, lit, monitors, listed, wanted, shown, dmaVars, xattr,
                 segment, refreshId, refreshing, result, since, pushed>>

CloseX11 == /\ pc = "over" /\ backend = "x11" /\ pc' = "gone"
            /\ UNCHANGED <<imageVars, hostVars, choiceVars, dmaVars, xVars, result, since, pushed>>

-----------------------------------------------------------------------------
Callback(r) == \/ \E kind \in {"shm", "dma"} : Offer(r, kind)
               \/ BufferDone(r) \/ ParamsCreated(r) \/ ParamsFailed(r)
               \/ Ready(r) \/ Failed(r)

Next == \/ Resize \/ Draw \/ OpenWlr \/ OpenX11 \/ Listen \/ Timeout \/ Answered
        \/ TakeRam \/ TakeVram \/ CloseWlr \/ FreeAll
        \/ Look \/ GetImage \/ Ask \/ Reply \/ TakeShm \/ Refresh \/ CloseShm \/ CloseX11
        \/ \E i \in Image : Return(i)
        \/ \E r \in requests : Callback(r) \/ Copy(r)

-----------------------------------------------------------------------------
(* Properties *)

TypeOK ==
  /\ backend \in {"ram", "vram", "shm", "x11"} /\ shown \in {"none", "meant", "other"}
  /\ pc \in {"closed", "idle", "wait", "answered", "pulled", "asked", "replied", "over", "fallback",
             "gone"}
  /\ busy \subseteq Image /\ held \in [Image -> Fd \union {NoFd}]
  /\ files \subseteq Fd \X Buffer /\ bos \subseteq Buffer /\ wlBuffers \subseteq Buffer
  /\ tasks \subseteq {1, 2} /\ refreshId \in {0, 1, 2}

\* A descriptor belongs to one frame or to one image, which closes it, and is
\* open as long as that has it; nothing is left behind unless a frame was late.
Holders == {<<"frame", k>> : k \in {0, 1}} \union {<<"image", i>> : i \in Image}
Has(h) == IF h[1] = "frame" THEN frames[h[2]].fd ELSE held[h[2]]

FilesAreHeld ==
  /\ \A f, g \in files : f[1] = g[1] => f = g
  /\ \A h \in Holders : Has(h) # NoFd => Has(h) \in Open
  /\ \A g, h \in Holders : (Has(g) = Has(h) /\ Has(g) # NoFd) => g = h
  /\ late = 0 => /\ \A fd \in Open : \E h \in Holders : Has(h) = fd
              /\ bos = {bo} \ {NoBuffer} /\ wlBuffers = {wlBuffer} \ {NoBuffer}

\* A picture that is pushed as new shows the screen as it was when the snapshot
\* began or later, in the size that was promised, unless a frame was late.
PictureIsNew ==
  late = 0 => pushed.seen >= pushed.since /\ pushed.size = "same"

\* The monitor that is shown is the one the user saw in the list, if that is
\* still there and can be told.
ShownIsListed == shown # "other"

\* When a display is gone, no task looks at it.
NoOrphanRefresh == (pc = "gone" \/ backend = "x11") => tasks = {} /\ refreshing = "no"
=============================================================================
