--------------------------- MODULE PipewireStream ---------------------------
(***************************************************************************)
(* The picture of a Linux desktop that comes over PipeWire (linux/         *)
(* pipewire.cpp, with the decisions of linux/portalgrab.cpp): the thread   *)
(* of the PipeWire loop receives buffers, the capture thread puts what is  *)
(* newest into an image, the encoder thread reads the image later.         *)
(*                                                                         *)
(* A buffer of the graphics card is kept until the next one comes; a       *)
(* buffer in memory is copied into one of two buffers that take turns.     *)
(* The image only points to either of them.  The lock of the loop makes    *)
(* the callbacks and fill_img() steps of their own; the encoder holds      *)
(* none.                                                                   *)
(***************************************************************************)
EXTENDS Integers, FiniteSets

CONSTANTS Buffer,     \* the names of the buffers of the stream
          Setups,     \* the cards, what encodes, and what the compositor agrees to
          MaxFrame,   \* bound: frames of the compositor
          MaxChange   \* bound: changes of parameters while the stream lives

VARIABLES stream,      \* the state of the stream
          setup, size, \* what is constant, and negotiated_width; 0 is none yet
          where,       \* [buffer |-> who has it; "lost": Sunshine, which forgot it]
          holds,       \* [buffer, buffer_a or buffer_b |-> the frame in it]
          frame,       \* frames so far
          held,        \* current_buffer
          ready,       \* frame_ready
          dead, prev,  \* stream_dead, previous_state
          front,       \* front_buffer; the other is back_buffer
          session,     \* of the portal: "open" or "closed" by the user
          maxRate,     \* negotiate_maxframerate
          pc, result,  \* the capture thread, and what capture() returned
          width,       \* of the display and of its images
          resized,     \* history: another size was negotiated since
          img,         \* the image in the hands of the capture thread; 0 is none
          data,        \* [image |-> what it points to]
          waiting, reading,  \* the image that waits for the encoder, and that it reads
          shown,       \* the last two frames that were pushed as new
          streamed, vanished, changes, restarts

sizeVars == <<size, resized>>
callbackVars == <<stream, setup, sizeVars, where, holds, frame, held, ready, dead, prev, front>>
threadVars == <<pc, result, width, img>>
encoderVars == <<waiting, reading>>
countVars == <<streamed, vanished, changes, restarts>>
pipeVars == <<callbackVars, session, maxRate, threadVars, data, encoderVars, shown, countVars>>

Pool == 1..3
Copies == {"A", "B"}
Place == Buffer \union Copies
Portal == 1
Other == 2
Nothing == [at |-> "none", frame |-> 0, moved |-> 0, size |-> 0]

\* A setup: mem is the hwdevice_type, cards the vendors that /sys names, egl the
\* vendor of the display, formats whether EGL lists what it can import, agrees
\* whether the compositor shares in one of them, corrupt the frames it spoils, sizes
\* those of the pictures it offers; restarts is a bound on the displays after the first.
Memories == {"system", "vaapi", "vulkan", "cuda"}
SetupType == [mem : Memories, cards : SUBSET {"intel", "amd", "nvidia"}, egl : {"NVIDIA", "Mesa"},
              formats : BOOLEAN, agrees : BOOLEAN, corrupt : SUBSET (1..MaxFrame),
              sizes : SUBSET {Portal, Other}, restarts : 0..1]

\* get_dmabuf_modifiers(): with a card of Intel next to it, the pictures are not
\* those of the NVIDIA card.
DisplayIsNvidia == setup.cards # {} /\ "intel" \notin setup.cards /\ setup.egl = "NVIDIA"

\* ensure_stream() offers buffers of the card, and memory always.
UsesDma == /\ setup.formats
           /\ setup.mem \in {"vaapi", "vulkan"} \/ (setup.mem = "cuda" /\ DisplayIsNvidia)

\* What the buffers of the stream are.
Kind == IF UsesDma /\ setup.agrees THEN "dma" ELSE "mem"

\* make_avcodec_encode_device(): where the encoder reads the picture.
Device == IF setup.formats /\ (\/ setup.mem \in {"vaapi", "vulkan"}
                               \/ setup.mem = "cuda" /\ DisplayIsNvidia)
          THEN "card" ELSE "memory"

\* What a new display starts with.
Fresh == /\ stream' = "none" /\ size' = 0
         /\ where' = [b \in Buffer |-> "server"] /\ holds' = [b \in Place |-> 0]
         /\ held' = "none" /\ ready' = FALSE /\ dead' = FALSE /\ prev' = "none"
         /\ front' = "A" /\ width' = 0 /\ resized' = FALSE
         /\ img' = 0 /\ data' = [i \in Pool |-> Nothing] /\ waiting' = 0 /\ reading' = 0
         /\ shown' = <<0, 0>> /\ streamed' = FALSE /\ vanished' = FALSE

Init == /\ stream = "none" /\ setup \in Setups /\ size = 0
        /\ where = [b \in Buffer |-> "server"] /\ holds = [b \in Place |-> 0] /\ frame = 0
        /\ held = "none" /\ ready = FALSE /\ dead = FALSE /\ prev = "none"
        /\ front = "A" /\ session = "open" /\ maxRate = TRUE
        /\ pc = "init" /\ result = "none" /\ width = 0 /\ img = 0
        /\ resized = FALSE
        /\ data = [i \in Pool |-> Nothing] /\ waiting = 0 /\ reading = 0 /\ shown = <<0, 0>>
        /\ streamed = FALSE /\ vanished = FALSE /\ changes = 0 /\ restarts = 0

-----------------------------------------------------------------------------
(* The compositor, and the callbacks in the thread of the loop *)

Alive == stream \in {"connecting", "paused", "streaming"}

\* What becomes of a stream that nobody captures does not matter.
Watched == Alive /\ pc # "returned"
Queued == {b \in Buffer : where[b] = "queued"}

Newest(bs) == CHOOSE b \in bs : \A c \in bs : holds[c] <= holds[b]

\* A frame is put into a buffer that the stream gave back.
Deliver == /\ stream = "streaming" /\ frame < MaxFrame /\ frame' = frame + 1
           /\ \E b \in Buffer :
                /\ where[b] = "server"
                /\ where' = [where EXCEPT ![b] = "queued"]
                /\ holds' = [holds EXCEPT ![b] = frame + 1]
           /\ UNCHANGED <<stream, setup, sizeVars, held, ready, dead, prev, front, session, maxRate,
                          threadVars, data, encoderVars, shown, countVars>>

\* Which buffers go back when b is taken: those that b overtook, and the one
\* that was held.
GivenBack(b) == IF Kind = "dma" THEN (Queued \ {b}) \union ({held} \ {"none"}) ELSE Queued

\* back_buffer
Target == IF front = "A" THEN "B" ELSE "A"

\* on_process(): the newest buffer is taken; a copy is made before the lock.
Process ==
  /\ stream = "streaming" /\ Queued # {}
  /\ LET b == Newest(Queued)
     IN  /\ where' = [c \in Buffer |-> IF c \in GivenBack(b) THEN "server"
                                       ELSE IF c = b THEN "held" ELSE where[c]]
         /\ held' = b
         /\ IF Kind = "dma" THEN UNCHANGED <<front, holds>>
            ELSE front' = Target /\ holds' = [holds EXCEPT ![Target] = holds[b]]
  /\ ready' = TRUE
  /\ data' = [i \in Pool |-> IF data[i].moved = 2 \/ data[i] = Nothing THEN data[i]
                              ELSE [data[i] EXCEPT !.moved = @ + 1]]
  /\ UNCHANGED <<stream, setup, sizeVars, frame, dead, prev, session, maxRate, threadVars,
                 encoderVars, shown, countVars>>

\* on_param_changed() with a format, perhaps of another size than before: the buffers are
\* made anew, an image keeps the memory of an old one; the display keeps its size.
FormatChanged ==
  /\ Watched /\ (size # 0 => changes < MaxChange)
  /\ changes' = changes + (IF size # 0 THEN 1 ELSE 0)
  /\ size' \in setup.sizes /\ held' = "none"
  /\ resized' = (resized \/ (width # 0 /\ size' # width))
  /\ where' = [b \in Buffer |-> "server"]
  /\ data' = [i \in Pool |-> IF data[i].at \in Buffer
                              THEN [data[i] EXCEPT !.at = "old"] ELSE data[i]]
  /\ UNCHANGED <<stream, setup, holds, frame, ready, dead, prev, front, session, maxRate,
                 threadVars, encoderVars, shown, streamed, vanished, restarts>>

\* With another parameter, or none: the buffer is forgotten, and not given back.
ParamChanged ==
  /\ Watched /\ changes < MaxChange /\ changes' = changes + 1
  /\ held # "none" /\ held' = "none"
  /\ where' = [b \in Buffer |-> IF where[b] = "held" THEN "lost" ELSE where[b]]
  /\ UNCHANGED <<stream, setup, sizeVars, holds, frame, ready, dead, prev, front, session, maxRate,
                 threadVars, data, encoderVars, shown, streamed, vanished, restarts>>

Paused == /\ Watched /\ stream # "paused" /\ stream' = "paused"
          /\ IF stream = "streaming"
             THEN ready' = FALSE /\ held' = "none" /\ dead' = TRUE /\ prev' = "streaming"
             ELSE UNCHANGED <<ready, held, dead, prev>>
          /\ UNCHANGED <<setup, sizeVars, where, holds, frame, front, session, maxRate,
                         threadVars, data, encoderVars, shown, countVars>>

Streaming == /\ Watched /\ stream = "paused" /\ size # 0
             /\ stream' = "streaming" /\ streamed' = TRUE
             /\ UNCHANGED <<setup, sizeVars, where, holds, frame, held, ready, dead, prev, front,
                            session, maxRate, threadVars, data, encoderVars, shown, vanished,
                            changes, restarts>>

\* The server reports an error, for one about a format it cannot agree to.
Error == /\ Watched /\ stream' = "error" /\ prev' = stream /\ dead' = TRUE
         /\ vanished' = (vanished \/ (stream = "paused" /\ streamed))
         /\ UNCHANGED <<setup, sizeVars, where, holds, frame, held, ready, front, session, maxRate,
                        threadVars, data, encoderVars, shown, streamed, changes, restarts>>

\* The stream goes away, perhaps because the user ended the session; what state
\* it was in is not written down.
Unconnected == /\ Watched /\ stream' = "unconnected" /\ dead' = TRUE
               /\ session' \in {session, "closed"} /\ vanished' = TRUE
               /\ UNCHANGED <<setup, sizeVars, where, holds, frame, held, ready, prev, front,
                              maxRate, threadVars, data, encoderVars, shown, streamed, changes,
                              restarts>>

-----------------------------------------------------------------------------
(* The capture thread *)

Return(r) == pc' = "returned" /\ result' = r

Connected == pc' = "negotiate" /\ stream' = "connecting" /\ UNCHANGED result

\* A core that cannot be reached leaves the loop locked: the destructor waits for
\* a thread that waits for the lock.
Unreachable == pc' = "hung" /\ UNCHANGED <<stream, result>>

\* There is no EGL, no display of the name, or no stream that connects by its serial
\* or by its node.
Refused == Return("error") /\ UNCHANGED stream

\* init() until it waits.
Connect == /\ pc = "init" /\ (Connected \/ Unreachable \/ Refused)
           /\ UNCHANGED <<setup, sizeVars, where, holds, frame, held, ready, dead, prev, front,
                          session, maxRate, width, img, data, encoderVars, shown, countVars>>

\* Faulty: the size of the portal stays.
AdoptedBefore == Portal

\* The size of the portal is that of the monitor; what was negotiated replaces it.
Adopted == IF size # 0 THEN size ELSE Portal

\* init() waits 1.5 seconds at most for the format, then capture() begins.
Negotiated == /\ pc = "negotiate"
              /\ pc' = "top" /\ width' = Adopted
              /\ UNCHANGED <<callbackVars, session, maxRate, result, img, data, encoderVars, shown,
                             countVars>>

\* check_stream_dead(), then the default.
Verdict == IF session = "closed" THEN "error" ELSE "reinit"

Top == /\ pc = "top" /\ dead' = FALSE
       /\ IF dead
          THEN /\ Return(Verdict)
               /\ maxRate' = (maxRate /\ (session = "closed" \/ prev = "streaming"))
          ELSE pc' = "wait" /\ UNCHANGED <<result, maxRate>>
       /\ UNCHANGED <<stream, setup, sizeVars, where, holds, frame, held, ready, prev, front,
                      session, width, img, data, encoderVars, shown, countVars>>

Free == Pool \ {waiting, reading}

\* What an image that is let go pointed to does not matter any more.
Without(i) == IF i = 0 THEN data ELSE [data EXCEPT ![i] = Nothing]

\* wait_for_frame()
Woken == /\ pc = "wait" /\ (ready \/ dead) /\ ready' = FALSE /\ pc' = "pull"
         /\ UNCHANGED <<stream, setup, sizeVars, where, holds, frame, held, dead, prev, front,
                        session, maxRate, result, width, img, data, encoderVars, shown, countVars>>

\* The second is over: the session hears that there is no new picture, and may
\* end here.
Timeout == /\ pc = "wait" /\ img' = 0 /\ data' = Without(img)
           /\ \/ pc' = "top" /\ UNCHANGED result
              \/ Return("interrupted") \/ Return("ok")
           /\ UNCHANGED <<callbackVars, session, maxRate, width, encoderVars, shown, countVars>>

\* An image is pulled, and the one before is let go; or the session ends.
Pull == /\ pc = "pull"
        /\ \/ /\ pc' = "fill" /\ UNCHANGED result
              /\ img' = CHOOSE i \in Free : \A j \in Free : i <= j
           \/ Return("interrupted") /\ img' = 0
        /\ data' = Without(img)
        /\ UNCHANGED <<callbackVars, session, maxRate, width, encoderVars, shown, countVars>>

\* is_buffer_redundant().  The flags are those of the buffer as it is now, which
\* the compositor may have filled again if it was a copy that was kept.
IsRedundant == holds[held] \in setup.corrupt

\* What fill_img() finds, and what of it is a picture.
Found == IF dead \/ held = "none" \/ IsRedundant THEN Nothing
         ELSE LET at == IF Kind = "dma" THEN held ELSE front
              IN  [at |-> at, frame |-> holds[at], moved |-> 0, size |-> size]

\* An image that got nothing is tried again until the second is over.
Fill == /\ pc = "fill"
        /\ data' = [data EXCEPT ![img] = Found]
        /\ pc' = IF Found = Nothing THEN "wait" ELSE "push"
        /\ UNCHANGED <<callbackVars, session, maxRate, result, width, img, encoderVars, shown,
                       countVars>>

\* The encoder gets the newest picture only.
Push == /\ pc = "push" /\ shown' = <<shown[2], data[img].frame>>
        /\ waiting' = img /\ img' = 0 /\ data' = Without(waiting)
        /\ pc' = "top" \/ Return("ok")
        /\ pc' = "top" => UNCHANGED result
        /\ UNCHANGED <<callbackVars, session, maxRate, width, reading, countVars>>

\* A display is let go when the encoder has done with it, and opened again.
Reopen == /\ pc = "returned" /\ result = "reinit" /\ reading = 0
          /\ restarts < setup.restarts /\ restarts' = restarts + 1
          /\ pc' = "init" /\ result' = "none" /\ Fresh
          /\ UNCHANGED <<setup, frame, session, maxRate, changes>>

-----------------------------------------------------------------------------
(* The encoder thread *)

Read == /\ reading = 0 /\ waiting # 0 /\ reading' = waiting /\ waiting' = 0
        /\ UNCHANGED <<callbackVars, session, maxRate, threadVars, data, shown, countVars>>

HasRead == /\ reading # 0 /\ reading' = 0 /\ data' = Without(reading)
           /\ UNCHANGED <<callbackVars, session, maxRate, threadVars, waiting, shown, countVars>>

Next == \/ Deliver \/ Process \/ FormatChanged \/ ParamChanged \/ Paused \/ Streaming \/ Error
        \/ Unconnected
        \/ Connect \/ Negotiated \/ Top \/ Woken \/ Timeout \/ Pull \/ Fill \/ Push \/ Reopen
        \/ Read \/ HasRead

-----------------------------------------------------------------------------
(* Properties *)

TypeOK == /\ setup \in SetupType
          /\ stream \in {"none", "connecting", "paused", "streaming", "error", "unconnected"}
          /\ where \in [Buffer -> {"server", "queued", "held", "lost"}]
          /\ holds \in [Place -> 0..MaxFrame]
          /\ held \in Buffer \union {"none"} /\ front \in Copies /\ ready \in BOOLEAN
          /\ pc \in {"init", "hung", "negotiate", "top", "wait", "pull", "fill", "push", "returned"}
          /\ result \in {"none", "reinit", "error", "ok", "interrupted"}
          /\ {img, waiting, reading} \subseteq Pool \union {0}
          /\ size \in {0, Portal, Other} /\ width \in {0, Portal, Other} /\ resized \in BOOLEAN

\* The compositor never runs out of buffers: one that Sunshine neither holds nor
\* will look at is back, but for what is lost when a parameter that is not the format
\* changes (pipewire.cpp:539-543).
BuffersReturn ==
  Alive /\ ~dead /\ pc # "returned" => \A b \in Buffer : where[b] = "held" => b = held

\* The picture that the encoder reads does not change under it as long as it is
\* at most one frame behind; a buffer of the card, not even one.
PictureIsWhole ==
  \A i \in {waiting, reading} \ {0} :
    LET d == data[i]
    IN  \/ d.at \in Copies /\ d.moved <= 1
        \/ d.at \in Buffer /\ d.moved = 0
        => holds[d.at] = d.frame

\* The client never sees an older picture after a newer one.
NeverOlder == shown[1] <= shown[2]

\* A frame that the compositor spoiled is never shown, where the buffer is kept
\* until it is read.
CorruptIsDropped == Kind = "dma" => {shown[1], shown[2]} \cap setup.corrupt = {}

\* An encoder that reads memory never gets a picture that only the card has.
DeviceSuits == \A i \in {waiting, reading} \ {0} :
                 Device = "memory" => data[i].at \notin Buffer \union {"old"}

\* The images have the size of what is copied into them, whenever the format came; but
\* another size while the display lives does not open it again (pipewire.cpp:565-577).
ImageFits ==
  \A i \in {waiting, reading} \ {0} : (data[i].at # "none" /\ ~resized) => data[i].size = width

\* The capture thread knows of a stream that died, so that it can open another.
DeathIsKnown == stream \in {"error", "unconnected"} /\ pc # "returned" => dead

\* A compositor that streamed is asked for its highest rate the next time too,
\* unless its stream went through another state before it died.
RateIsKept == ~maxRate /\ streamed /\ restarts = 0 => vanished
=============================================================================
