--------------------------- MODULE DesktopCapture ---------------------------
(***************************************************************************)
(* How Windows' screen becomes an image of the encoder: the loop of        *)
(* display_base_t::capture(), the snapshots of Desktop Duplication into    *)
(* video memory ("vram": the last frame is kept as an image while no       *)
(* pointer is drawn on it and as a surface while one is) and into memory   *)
(* ("ram"), Windows.Graphics.Capture ("wgc" and "wgc ram"), the pool of    *)
(* images in captureThread() and the textures that d3d_base_encode_device  *)
(* opens; before that, how display() finds an output and opens it.         *)
(* The pixels of an image are the number of the frame it shows and whether *)
(* the pointer was drawn.                                                  *)
(***************************************************************************)
EXTENDS Naturals, FiniteSets

CONSTANTS Image,        \* capture_buffer_size: 12
          NoImage,
          MaxFrame,     \* bound: frames the desktop shows
          MayFail,      \* may a call of Direct3D fail
          SameAddress   \* may a texture be created where one was freed

VARIABLES method,       \* "vram", "ram", "wgc" or "wgc ram"
          \* Windows
          screen,       \* the number of the frame on the desktop
          pointer,      \* the pointer is visible
          news,         \* what changed since a frame was acquired
          screenFormat, \* its format, which changes at most once
          current,      \* factory->IsCurrent()
          arrived,      \* produced_frame of wgc: its pixels, or NoFrame
          \* the capture thread
          pc, src,      \* its step; the texture of this frame: its pixels or NoFrame
          format, pointerSeen,  \* capture_format, cursor.visible
          blend,        \* blend_mouse_cursor_flag
          last,         \* last_frame_variant, or the staging texture of "ram"
          out,          \* img_out
          seen,         \* the number of the last frame that was acquired
          \* shared
          image,        \* [Image -> its pixels, dummy and blank, or NoImage]
          opened,       \* [Image -> the texture that the encoder opened for it]
          queue,        \* ctx.images: the image and what it showed when it was pushed
          encoding,     \* the one the encoder holds
          misread       \* the encoder read something else than it was given

screenVars == <<screen, pointer, news, screenFormat, current>>
threadVars == <<pc, src, format, pointerSeen, blend, last, out, seen>>
poolVars == <<image, opened>>
encoderVars == <<queue, encoding, misread>>
desktopVars == <<method, screenVars, arrived, threadVars, poolVars, encoderVars>>

Pixels == [frame : 0..MaxFrame, pointer : BOOLEAN]
Black == [frame |-> 0, pointer |-> FALSE]
NoFrame == [frame |-> MaxFrame + 1, pointer |-> FALSE]
Nothing == [img |-> NoImage, as |-> Black]
None == [kind |-> "none", img |-> NoImage, px |-> NoFrame]
Unallocated == [px |-> NoFrame, dummy |-> FALSE, texture |-> FALSE, blank |-> TRUE]

Wgc == method \in {"wgc", "wgc ram"}
InMemory == method \in {"ram", "wgc ram"}

Init == /\ method \in {"vram", "ram", "wgc", "wgc ram"}
        /\ screen = 1 /\ pointer \in BOOLEAN /\ news = {"frame", "mouse"}
        /\ screenFormat = "a" /\ current = TRUE /\ arrived = NoFrame
        /\ pc = "closed" /\ src = NoFrame /\ format = "unknown"
        /\ pointerSeen = FALSE /\ blend = FALSE /\ last = None /\ out = NoImage /\ seen = 0
        /\ image = [i \in Image |-> Unallocated] /\ opened = [i \in Image |-> "none"]
        /\ queue = Nothing /\ encoding = Nothing /\ misread = FALSE

-----------------------------------------------------------------------------
(* Windows, the user and the end of the stream *)

NewFrame == /\ screen < MaxFrame /\ screen' = screen + 1 /\ news' = news \union {"frame"}
            /\ UNCHANGED <<pointer, screenFormat, current>>

PointerMoves == /\ pointer' \in BOOLEAN /\ news' = news \union {"mouse"}
                /\ UNCHANGED <<screen, screenFormat, current>>

NewMode == /\ screenFormat = "a" /\ screenFormat' = "b" /\ news' = news \union {"frame"}
           /\ current' \in BOOLEAN
           /\ UNCHANGED <<screen, pointer>>

\* on_frame_arrived(): a newer frame replaces one that was not taken.  The user
\* may hide the pointer at any time, so whether it is drawn is open.
FrameArrives == /\ Wgc /\ format # "unknown" /\ "frame" \in news
                /\ \E drawn \in {FALSE, pointer} :
                     arrived' = [frame |-> screen, pointer |-> drawn]
                /\ news' = {}
                /\ UNCHANGED <<screen, pointer, screenFormat, current>>

Windows == /\ pc # "ended"
           /\ \/ (NewFrame \/ PointerMoves \/ NewMode) /\ UNCHANGED arrived
              \/ FrameArrives
           /\ UNCHANGED <<method, threadVars, poolVars, encoderVars>>

-----------------------------------------------------------------------------
(* display(): the capture is opened *)

Opening == {"closed", "search", "search again", "device", "attach", "cursor"}

\* Where Desktop Duplication is not opened Windows.Graphics.Capture is, unless the
\* configuration names the method.
GivesUp == \/ /\ ~Wgc /\ pc' = "closed" /\ format' = "unknown"
              /\ method' = IF method = "vram" THEN "wgc" ELSE "wgc ram"
           \/ pc' = "ended" /\ format' = "unknown" /\ UNCHANGED method

Goes(next) == pc' = next /\ UNCHANGED <<method, format>>

\* The list of outputs is as the mode of the screen is now.
OpenFactory == /\ pc = "closed"
               /\ \/ Goes("search") /\ current' = TRUE
                  \/ MayFail /\ GivesUp /\ UNCHANGED current

\* test_dxgi_duplication(): the thread moves to the desktop that is shown and
\* duplicates the output, twice at most.
CanDuplicate(answers) == \E try \in 1..2 : answers[try]

\* An output that is part of the desktop and can be duplicated; the search for one
\* is repeated once, with the screen switched on.
FindOutput ==
  /\ pc \in {"search", "search again"}
  /\ \E attached \in BOOLEAN, answers \in [1..2 -> BOOLEAN] :
       IF attached /\ CanDuplicate(answers) THEN Goes("device")
       ELSE IF pc = "search" THEN Goes("search again") ELSE GivesUp
  /\ UNCHANGED current

\* The device of Direct3D and its priority.
OpenDevice == /\ pc = "device"
              /\ Goes("attach") \/ (MayFail /\ GivesUp)
              /\ UNCHANGED current

\* duplication_t::init(): the format is that of the first frame.
Duplicate == /\ pc = "attach" /\ ~Wgc
             /\ \E answers \in [1..2 -> BOOLEAN] :
                  IF CanDuplicate(answers)
                  THEN /\ pc' = IF method = "vram" THEN "cursor" ELSE "top"
                       /\ format' = "unknown" /\ UNCHANGED method
                  ELSE MayFail /\ GivesUp
             /\ UNCHANGED current

\* display_ddup_vram_t::init(): what draws the pointer.
PrepareCursor == /\ pc = "cursor"
                 /\ Goes("top") \/ (MayFail /\ GivesUp)
                 /\ UNCHANGED current

\* wgc_capture_t::init(): the frames have one format and size from now on.
StartWgc == /\ pc = "attach" /\ Wgc
            /\ \/ pc' = "top" /\ format' = screenFormat /\ UNCHANGED method
               \/ MayFail /\ GivesUp
            /\ UNCHANGED current

Open == /\ OpenFactory \/ FindOutput \/ OpenDevice \/ Duplicate \/ PrepareCursor \/ StartWgc
        /\ UNCHANGED <<screen, pointer, news, screenFormat, arrived, src, pointerSeen, blend, last,
                       out, seen, poolVars, encoderVars>>

-----------------------------------------------------------------------------
(* The pool of captureThread() *)

Held(i) == i = out \/ i = queue.img \/ i = encoding.img \/ (last.kind = "image" /\ i = last.img)

Free == {i \in Image : ~Held(i)}
Allocated == {i \in Image : image[i] # Unallocated}

\* pull_free_image_cb(): an image nobody holds, before a new one; others that
\* nobody holds may be trimmed.
Pulled == IF Free \intersect Allocated # {} THEN Free \intersect Allocated ELSE Free
Trimmed(i) == [img : {i}, gone : SUBSET ((Free \intersect Allocated) \ {i})]

Fresh == [px |-> Black, dummy |-> FALSE, texture |-> FALSE, blank |-> TRUE]

\* complete_img(): a texture is created for an image that has none, and again
\* when the image is or was a dummy.
Recreates(i, dummy) == ~(image[i].texture /\ image[i].dummy = dummy)

\* The image after the pull, with the pixels that are copied into it.
Written(p, px, dummy) ==
  [i \in Image |-> IF i \in p.gone THEN Unallocated
                   ELSE IF i = p.img
                        THEN [px |-> px, dummy |-> dummy, texture |-> TRUE, blank |-> FALSE]
                        ELSE image[i]]

\* What the encoder opened for an image, after its texture was created again:
\* the address of the new one may be that of the old one.
Reopened(p, dummy) ==
  LET after(how) == [i \in Image |-> IF i \in p.gone \/ image[i] = Unallocated THEN "none"
                                     ELSE IF i = p.img /\ Recreates(i, dummy) /\ opened[i] = "this"
                                          THEN how ELSE opened[i]]
  IN  {after("other")} \union (IF SameAddress THEN {after("same address")} ELSE {})

\* An image is pulled and its pixels are written, as those of a dummy or not.
Pull(i, px, dummy) ==
  /\ i \in Pulled
  /\ \E p \in Trimmed(i) : image' = Written(p, px, dummy) /\ opened' \in Reopened(p, dummy)

-----------------------------------------------------------------------------
(* display_base_t::capture() *)

thread == <<src, format, pointerSeen, blend, last, out, seen>>

\* capture() returns and the display is dropped, with the images nobody else
\* holds.
Ends == /\ pc' = "ended" /\ src' = NoFrame
        /\ format' = "unknown" /\ pointerSeen' = FALSE /\ blend' = FALSE /\ last' = None
        /\ out' = NoImage /\ seen' = 0 /\ arrived' = NoFrame /\ news' = {}
        /\ image' = [i \in Image |-> IF i \in {queue'.img, encoding.img} THEN image[i]
                                                                     ELSE Unallocated]
        /\ opened' = [i \in Image |-> IF image'[i] = Unallocated THEN "none" ELSE opened[i]]

\* A display that is no longer current is opened again.
Top ==
  /\ pc = "top"
  /\ UNCHANGED queue
  /\ \/ ~current /\ Ends
     \/ /\ current /\ pc' = "acquire"
        /\ UNCHANGED <<thread, poolVars, arrived, news>>

\* next_frame() finds no frame or nothing new in it.  Where a pacing group was
\* running it ends and the next try waits 200 ms; that one over, the encoders
\* are given nothing.
NoUpdate ==
  /\ pc = "acquire"
  /\ pc' = "push"
  /\ UNCHANGED <<src, format, pointerSeen, blend, last, out, seen, poolVars, arrived, news,
                 queue>>

\* Any call of the snapshot fails, or the access to the screen is lost.
Fails == /\ pc \in {"acquire", "keep", "keep image", "out"} /\ MayFail
         /\ UNCHANGED queue /\ Ends

\* The format of the first frame is taken; any other ends the capture, as does
\* another size.
Accepts(f) == format' = f /\ format \in {"unknown", f}

OtherMode == /\ pc = "acquire" /\ screenFormat = "b" /\ format # "b"
             /\ IF Wgc THEN arrived # NoFrame ELSE "frame" \in news
             /\ UNCHANGED queue /\ Ends

\* AcquireNextFrame(): everything since the frame before.
Acquire ==
  /\ pc = "acquire" /\ ~Wgc /\ news # {} /\ pc' = "keep"
  /\ news' = {}
  /\ pointerSeen' = IF "mouse" \in news THEN pointer ELSE pointerSeen
  /\ blend' \in {FALSE, pointerSeen'}   \* display_cursor
  /\ \/ /\ "frame" \in news /\ Accepts(screenFormat)
        /\ src' = [frame |-> screen, pointer |-> FALSE] /\ seen' = screen
     \/ /\ "frame" \notin news
        /\ UNCHANGED <<format, src, seen>>
  /\ UNCHANGED <<last, out, poolVars, arrived, queue>>

\* wgc_capture_t::next_frame()
Consume ==
  /\ pc = "acquire" /\ Wgc /\ arrived # NoFrame /\ pc' = "out"
  /\ arrived' = NoFrame /\ src' = arrived
  /\ seen' = arrived.frame /\ blend' = arrived.pointer
  /\ format = screenFormat
  /\ UNCHANGED <<format, pointerSeen, last, out, poolVars, news, queue>>

\* last_frame_action of "vram", and the copy to the staging texture of "ram".
Surface(px) == [kind |-> "surface", img |-> NoImage, px |-> px]

Keep ==
  /\ pc = "keep"
  /\ LET surface == src # NoFrame /\ (blend \/ method = "ram")
         toSurface == src = NoFrame /\ blend /\ last.kind = "image"
         toImage == method = "vram" /\ ~blend /\ format # "unknown"
                    /\ (src # NoFrame \/ last.kind = "surface")
     IN  /\ last' = IF surface THEN Surface(src)
                    ELSE IF toSurface THEN Surface(image[last.img].px)
                    ELSE IF toImage /\ src # NoFrame THEN None ELSE last
         /\ pc' = IF toImage THEN "keep image" ELSE "out"
  /\ UNCHANGED <<src, format, pointerSeen, blend, out, seen, poolVars,
                 arrived, news, queue>>

\* The new frame, or the surface that is no longer needed, goes to an image.
KeepImage ==
  /\ pc = "keep image"
  /\ \E i \in Image : /\ Pull(i, IF src # NoFrame THEN src ELSE last.px, FALSE)
                      /\ last' = [kind |-> "image", img |-> i, px |-> NoFrame]
  /\ pc' = "out"
  /\ UNCHANGED <<src, format, pointerSeen, blend, out, seen, arrived,
                 news, queue>>

\* The pull waits for an image until the capture is over: when the last encoder
\* leaves the queue of contexts stops, whenever that is looked at.
Interrupted == /\ pc \in {"keep image", "out"}
               /\ UNCHANGED queue /\ Ends

\* out_frame_action
Forward == /\ pc = "out" /\ last.kind = "image" /\ ~blend
           /\ out' = last.img /\ pc' = "push"
           /\ UNCHANGED poolVars

Dummy == format = "unknown" \/ (~Wgc /\ last = None)
Drawn == IF Dummy THEN [Black EXCEPT !.pointer = blend]
         ELSE IF Wgc THEN src ELSE [last.px EXCEPT !.pointer = blend]

Copy == /\ pc = "out" /\ (Dummy \/ last.kind = "surface" \/ Wgc)
        /\ \E i \in Image : Pull(i, Drawn, Dummy) /\ out' = i
        /\ pc' = "push"

Output == /\ Forward \/ Copy
          /\ UNCHANGED <<src, format, pointerSeen, blend, last, seen, arrived,
                         news, queue>>

\* push_captured_image_cb() and release_snapshot()
Push ==
  /\ pc = "push"
  /\ queue' = IF out = NoImage THEN queue ELSE [img |-> out, as |-> image[out].px]
  /\ \/ Ends
     \/ /\ pc' = "top"
        /\ out' = NoImage /\ src' = NoFrame /\ blend' = FALSE
        /\ UNCHANGED <<format, pointerSeen, last, seen, poolVars, arrived, news>>

Capture == /\ \/ Top \/ NoUpdate \/ Fails \/ OtherMode \/ Acquire \/ Consume \/ Keep
              \/ KeepImage \/ Interrupted \/ Output \/ Push
           /\ UNCHANGED <<method, screen, pointer, screenFormat, current, encoding, misread>>

-----------------------------------------------------------------------------
(* The encoder *)

Take == /\ queue # Nothing /\ encoding = Nothing
        /\ encoding' = queue /\ queue' = Nothing
        /\ UNCHANGED <<opened, misread>>

\* convert(): the texture of the image is opened unless the one that was opened
\* before has its address.  The textures of images that are gone are closed.
Convert ==
  /\ encoding # Nothing /\ encoding' = Nothing
  /\ LET i == encoding.img
         aliased == ~InMemory /\ opened[i] = "same address"
     IN  /\ misread' = (misread \/ aliased \/ image[i].px # encoding.as)
         /\ opened' = IF InMemory \/ aliased THEN opened
                                                  ELSE [opened EXCEPT ![i] = "this"]
  /\ UNCHANGED queue

Encoder == /\ Take \/ Convert
           /\ UNCHANGED <<method, screenVars, arrived, threadVars, image>>

Next == Windows \/ Open \/ Capture \/ Encoder

-----------------------------------------------------------------------------
(* Properties *)

TypeOK ==
  /\ method \in {"vram", "ram", "wgc", "wgc ram"} /\ screen \in 1..MaxFrame /\ news \subseteq {"frame", "mouse"}
  /\ {screenFormat, format} \subseteq {"unknown", "a", "b"} /\ arrived \in Pixels \union {NoFrame}
  /\ pc \in Opening \union {"top", "acquire", "keep", "keep image", "out", "push", "ended"}
  /\ {pointer, current, pointerSeen, blend} \subseteq BOOLEAN
  /\ src \in Pixels \union {NoFrame} /\ seen \in 0..MaxFrame
  /\ last.kind \in {"none", "image", "surface"} /\ last.img \in Image \union {NoImage}
  /\ out \in Image \union {NoImage} /\ queue.img \in Image \union {NoImage}
  /\ \A i \in Image : /\ image[i].px \in Pixels \union {NoFrame}
                      /\ opened[i] \in {"none", "this", "other", "same address"}
  /\ encoding.img \in Image \union {NoImage} /\ misread \in BOOLEAN

\* What is pushed is the last frame that was acquired (black before the first),
\* with the pointer if it is visible and not hidden and without it otherwise,
\* however the frames and the movements of the pointer came and whichever copy
\* was kept.
PushedIsLatest ==
  pc = "push" /\ out # NoImage => image[out].px = [frame |-> seen, pointer |-> blend]

\* An image that waits for the encoder or is encoded shows what it showed when
\* it was pushed: the capture thread writes to no image that others hold, and
\* the pool hands out none.
NoTornImage ==
  \A held \in {queue, encoding} \ {Nothing} : image[held.img].px = held.as

\* The encoder reads what was pushed, also from an image that was a dummy.
EncoderReadsPushed == ~misread
=============================================================================
