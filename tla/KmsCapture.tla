----------------------------- MODULE KmsCapture -----------------------------
(***************************************************************************)
(* The picture that the kernel shows on a monitor (linux/kmsgrab.cpp).     *)
(*                                                                         *)
(* A monitor is named by its number among the planes in use; the numbers   *)
(* are given by kms_display_names() and looked up again by init().  For    *)
(* each frame refresh() asks for a descriptor of the plane's memory and    *)
(* hands it to an image, which closes it when it is used for another       *)
(* frame, and downloads the pointer when it seems to have changed.  The    *)
(* numbers of descriptors are those of the process: other threads open     *)
(* and close theirs.                                                       *)
(***************************************************************************)
EXTENDS Integers, Sequences, FiniteSets

CONSTANTS Setups,     \* the planes of the cards, see below
          Image,      \* the images of the pool, 1..n
          Fd,         \* the numbers of descriptors, 1..m
          MaxChange,  \* bound: changes of the desktop
          MaxOpen     \* bound: times a display is opened

\* Of each plane in use: its card, whether it holds the pointer, and how it can be
\* read: "yes", not at all, or not without the right to ("denied").
\*   Setups \subseteq Seq([card : 1..2, cursor : BOOLEAN, read : {"yes", "no", "denied"}])

VARIABLES planes,     \* the planes now
          listed,     \* the names: the plane behind each number
          listedFrom, \* history: the planes when they were listed
          memory,     \* where frames are kept: "vram" or "ram"
          mode,       \* the resolution and the HDR metadata of the monitor
          pointer,    \* the buffer with the pointer's shape; 0: it is hidden
          owner,      \* [descriptor |-> who opened it]
          pc,         \* the capture thread
          opened, meant,  \* the plane it captures, and the one its name was given for
          openedIn,   \* history: the planes at that time, <<>> if they were no longer those
          known,      \* img_width, img_height and hdr_metadata_blob_id
          captured,   \* captured_cursor
          was,        \* history: the pointer when it was last looked at
          img, waiting, reading,  \* the images of the capture thread, of the queue, of the encoder
          data,       \* [image |-> its descriptor and its copy of the pointer]
          stolen,     \* history: somebody else's descriptor was closed
          gaveUp,     \* history: refresh() gave up when it had the descriptor
          missed,     \* history: the pointer could not be read since it was last
          changes, opens

worldVars == <<planes, mode, pointer, changes>>
nameVars == <<listed, listedFrom, memory, opened, meant, openedIn, known, opens>>
imageVars == <<img, waiting, reading, data>>
frameVars == <<captured, was, gaveUp, missed>>
kmsVars == <<worldVars, nameVars, owner, pc, imageVars, stolen, frameVars>>

Fresh == [fd |-> 0, serial |-> -1, buffer |-> 0, shown |-> 0]
NoCursor == [readable |-> TRUE, visible |-> FALSE, fb |-> 0, pixels |-> 0, serial |-> 0]
Modes == [size : {1, 2}, hdr : {1, 2}]
FirstMode == [size |-> 1, hdr |-> 1]

Init == /\ planes \in Setups /\ listed = <<>> /\ listedFrom = <<>>
        /\ memory \in {"vram", "ram"} /\ mode = FirstMode /\ pointer = 1
        /\ owner = [d \in Fd |-> "free"]
        /\ pc = "list" /\ opened = 0 /\ meant = 0 /\ openedIn = <<>> /\ known = FirstMode
        /\ captured = NoCursor /\ was = 1
        /\ img = 0 /\ waiting = 0 /\ reading = 0 /\ data = [i \in Image |-> Fresh]
        /\ stolen = FALSE /\ gaveUp = FALSE /\ missed = FALSE /\ changes = 0 /\ opens = 0

-----------------------------------------------------------------------------
(* The desktop, and the other threads of the process *)

\* A monitor gets another mode, the pointer changes, or a monitor is plugged in or out.
\* The last matters between the list and the look-up: later the display is lost or not,
\* as it may be anyway.
Change == /\ changes < MaxChange /\ changes' = changes + 1
          /\ UNCHANGED <<nameVars, owner, pc, imageVars, stolen, frameVars>>

Replug == /\ pc = "init" /\ opens < MaxOpen
          /\ planes' \in Setups \ {planes} /\ UNCHANGED <<mode, pointer>> /\ Change

SetMode == /\ mode' \in {m \in Modes \ {mode} : m.size = mode.size \/ m.hdr = mode.hdr}
           /\ UNCHANGED <<planes, pointer>> /\ Change

SetPointer == pointer' \in 0..2 \ {pointer} /\ UNCHANGED <<planes, mode>> /\ Change

Lowest(S) == CHOOSE n \in S : \A m \in S : n <= m

FreeFd == {d \in Fd : owner[d] = "free"}

Other == UNCHANGED <<worldVars, nameVars, pc, imageVars, stolen, frameVars>>

OtherOpens == /\ FreeFd # {} /\ \A d \in Fd : owner[d] # "other"
              /\ owner' = [owner EXCEPT ![Lowest(FreeFd)] = "other"]
              /\ Other

OtherCloses == /\ \E d \in Fd : owner[d] = "other" /\ owner' = [owner EXCEPT ![d] = "free"]
               /\ Other

\* reset() of images: close() of their descriptors, whoever has those numbers now.
Numbers(is) == {data[i].fd : i \in is} \ {0}
Closed(is) == [d \in Fd |-> IF d \in Numbers(is) THEN "free" ELSE owner[d]]
Steals(is) == \E d \in Numbers(is) : owner[d] = "other"

-----------------------------------------------------------------------------
(* The monitors *)

Shown(ps) == SelectSeq([i \in 1..Len(ps) |-> i], LAMBDA i : ~ps[i].cursor)

\* kms_display_names(): a plane that cannot be read has no name, one that is denied
\* ends the list of its card.
Denied(ps, i) == \E j \in 1..i : ps[j].card = ps[i].card /\ ps[j].read = "denied" /\ ~ps[j].cursor
Names(ps) == SelectSeq(Shown(ps), LAMBDA i : ps[i].read = "yes" /\ ~Denied(ps, i))

\* init() counts every plane that shows something.
Counted(ps) == Shown(ps)

Lookup(ps, n) == IF n > Len(Counted(ps)) THEN 0
                 ELSE LET i == Counted(ps)[n] IN IF ps[i].read = "yes" THEN i ELSE 0

List == /\ pc = "list" /\ pc' = "init"
        /\ listed' = Names(planes) /\ listedFrom' = planes
        /\ UNCHANGED <<worldVars, memory, owner, opened, meant, openedIn, known, opens, imageVars,
                       stolen, frameVars>>

\* display_t::init() of one of the names.
OpenDisplay ==
  /\ pc = "init" /\ opens < MaxOpen /\ opens' = opens + 1
  /\ \E n \in 1..Len(listed) :
       meant' = listed[n] /\ opened' = Lookup(planes, n)
  /\ openedIn' = IF planes = listedFrom THEN planes ELSE <<>>
  /\ pc' = IF opened' = 0 THEN "list" ELSE "next"
  /\ known' = mode /\ captured' = NoCursor /\ missed' = FALSE
  /\ listed' = <<>> /\ listedFrom' = <<>>
  /\ UNCHANGED <<worldVars, memory, owner, imageVars, stolen, was, gaveUp>>

-----------------------------------------------------------------------------
(* One frame *)

Taken == {img, waiting, reading}

\* pull_free_image_cb(): the first that nobody else has.
Unused == Lowest(Image \ Taken)
HasUnused == Image \ Taken # {}

\* What was found by the name is of no more use.
Captures == /\ opened' = 0 /\ meant' = 0 /\ openedIn' = <<>>
            /\ UNCHANGED <<worldVars, listed, listedFrom, memory, known, opens>>

\* display_vram_t::snapshot(): the image first, and its old descriptor is closed.
Pull == /\ memory = "vram" /\ pc = "next" /\ HasUnused /\ pc' = "refresh"
        /\ LET i == Unused IN
             /\ img' = i
             /\ owner' = Closed({i}) /\ stolen' = (stolen \/ Steals({i}))
             /\ data' = [data EXCEPT ![i].fd = 0]
        /\ Captures /\ UNCHANGED <<waiting, reading, frameVars>>

Skip == /\ memory = "ram" /\ pc = "next" /\ pc' = "refresh"
        /\ Captures /\ UNCHANGED <<owner, imageVars, stolen, frameVars>>

Refresh == pc = "refresh" /\ UNCHANGED <<worldVars, nameVars, waiting, reading, stolen>>

Ending(p) == pc' = p /\ UNCHANGED <<captured, was, missed>>

\* refresh() ends before it has a descriptor: a change of HDR, no buffer, no right to it
\* or no descriptor.
HdrChanged == /\ Refresh /\ known.hdr # mode.hdr /\ Ending("drop")
              /\ UNCHANGED <<img, data, owner, gaveUp>>

NoBuffer == /\ Refresh /\ known.hdr = mode.hdr /\ Ending("next") /\ img' = 0
            /\ UNCHANGED <<data, owner, gaveUp>>

Failed == /\ Refresh /\ known.hdr = mode.hdr /\ Ending("drop")
          /\ UNCHANGED <<img, data, owner, gaveUp>>

\* It ends with one: fb_fd closes it, and the image keeps its number.
Abandoned == /\ Refresh /\ known.hdr = mode.hdr /\ FreeFd # {} /\ Ending("drop")
             /\ data' = IF memory = "vram" THEN [data EXCEPT ![img].fd = Lowest(FreeFd)] ELSE data
             /\ gaveUp' = (gaveUp \/ memory = "vram")
             /\ UNCHANGED <<img, owner>>

SizeChanged == known.size # mode.size /\ Abandoned

\* The memory is in several parts, and there is a descriptor of the first but none of another.
PartFailed == Abandoned

\* update_cursor(): what it does when the buffer is another one.
Dirty == captured.readable /\ pointer \notin {0, captured.fb}

Downloaded == [captured EXCEPT !.visible = TRUE, !.fb = pointer, !.pixels = pointer,
                               !.serial = captured.serial + 1]
Unread == [captured EXCEPT !.visible = FALSE]
Unreadable == [captured EXCEPT !.visible = FALSE, !.readable = FALSE]
Hidden == [captured EXCEPT !.visible = FALSE, !.fb = 0]

UpdateCursor ==
  \/ /\ Dirty
     /\ \/ captured' = Downloaded /\ missed' = FALSE
        \/ captured' \in {Unread, Unreadable} /\ missed' = TRUE
  \/ /\ captured.readable /\ pointer = 0
     /\ captured' = Hidden /\ missed' = FALSE
  \/ /\ ~Dirty /\ (captured.readable => pointer # 0)
     /\ UNCHANGED <<captured, missed>>

Drawn(c) == IF c.visible THEN c.pixels ELSE 0

\* The image copies the pointer when it has not that one; a frame in main memory has
\* it drawn into it.
WithCursor(d, c) ==
  IF ~c.visible THEN [d EXCEPT !.shown = 0]
  ELSE IF d.serial = c.serial THEN [d EXCEPT !.shown = d.buffer]
  ELSE [d EXCEPT !.serial = c.serial, !.buffer = c.pixels, !.shown = c.pixels]

Refreshed ==
  /\ Refresh /\ known = mode /\ FreeFd # {} /\ UpdateCursor /\ was' = pointer
  /\ IF memory = "vram"
     THEN /\ owner' = [owner EXCEPT ![Lowest(FreeFd)] = "image"]
          /\ data' = [data EXCEPT ![img] = WithCursor([@ EXCEPT !.fd = Lowest(FreeFd)], captured')]
          /\ pc' = "push" /\ UNCHANGED img
     ELSE pc' = "read" /\ UNCHANGED <<owner, data, img>>
  /\ UNCHANGED gaveUp

\* display_ram_t::snapshot(): the image after it, and the descriptor is closed.
ReadBack == /\ pc = "read" /\ HasUnused /\ pc' = "push"
            /\ img' = Unused /\ data' = [data EXCEPT ![Unused].shown = Drawn(captured)]
            /\ UNCHANGED <<worldVars, nameVars, owner, waiting, reading, stolen, frameVars>>

\* The image event keeps the newest.
Push == /\ pc = "push" /\ pc' = "next"
        /\ waiting' = img /\ img' = 0
        /\ UNCHANGED <<worldVars, nameVars, owner, reading, data, stolen, frameVars>>

-----------------------------------------------------------------------------
(* The encoder, and the end of the display *)

\* Images go with the capture's list, unless the encoder still has them.
Destroy(is) == /\ owner' = Closed(is) /\ stolen' = (stolen \/ Steals(is))
               /\ data' = [i \in Image |-> IF i \in is THEN Fresh ELSE data[i]]

Encode == /\ waiting # 0 /\ reading = 0 /\ reading' = waiting /\ waiting' = 0
          /\ UNCHANGED <<worldVars, nameVars, owner, pc, img, data, stolen, frameVars>>

Encoded == /\ reading # 0 /\ reading' = 0
           /\ IF pc = "reinit" THEN Destroy({reading}) ELSE UNCHANGED <<owner, data, stolen>>
           /\ UNCHANGED <<worldVars, nameVars, pc, img, waiting, frameVars>>

Drop == /\ pc = "drop" /\ pc' = "reinit" /\ img' = 0
        /\ Destroy(Image \ {waiting, reading})
        /\ UNCHANGED <<worldVars, nameVars, waiting, reading, frameVars>>

\* The capture thread goes on when the encoders have let the display go.
Reinit == /\ pc = "reinit" /\ reading = 0 /\ waiting = 0 /\ pc' = "list"
          /\ UNCHANGED <<worldVars, nameVars, owner, imageVars, stolen, frameVars>>

Next == \/ Replug \/ SetMode \/ SetPointer \/ OtherOpens \/ OtherCloses
        \/ List \/ OpenDisplay
        \/ Pull \/ Skip \/ HdrChanged \/ NoBuffer \/ Failed \/ SizeChanged \/ PartFailed
        \/ Refreshed
        \/ ReadBack \/ Push \/ Encode \/ Encoded \/ Drop \/ Reinit

Spec == Init /\ [][Next]_kmsVars

-----------------------------------------------------------------------------
(* Properties *)

TypeOK ==
  /\ planes \in Setups /\ memory \in {"vram", "ram"} /\ mode \in Modes /\ known \in Modes
  /\ owner \in [Fd -> {"free", "other", "image"}]
  /\ pc \in {"list", "init", "next", "refresh", "read", "push", "drop", "reinit"}
  /\ {img, waiting, reading} \subseteq Image \union {0}
  /\ \A i \in Image : data[i].fd \in Fd \union {0}

\* The number that was given for a monitor opens that monitor, if no monitor before it
\* could not be read when they were listed: those have no number but are counted
\* (kms_display_names() and display_t::init()).
NameMeansPlane ==
  (openedIn # <<>> /\ \A j \in 1..(meant - 1) : openedIn[j].cursor \/ openedIn[j].read = "yes")
    => opened = meant

\* Nobody else's descriptor is closed, unless refresh() gave up when it had one: the image
\* then keeps the number of a descriptor that is closed (kmsgrab.cpp:1111, 1128).
ClosesItsOwn == stolen => gaveUp

\* The memory that the encoder reads has an open descriptor that is the image's own.
ReadsOpen ==
  (memory = "vram" /\ ~stolen) =>
    \A i \in {waiting, reading} \ {0} : /\ data[i].fd # 0 /\ owner[data[i].fd] = "image"
                                        /\ \A j \in Image \ {i} : data[j].fd # data[i].fd

\* A descriptor that an image opened is some image's: none is lost.
NoneIsLost == \A d \in Fd : owner[d] = "image" => \E i \in Image : data[i].fd = d

\* The frame has the pointer that was captured with it.
PointerIsCurrent == pc = "push" => data[img].shown = Drawn(captured)

\* The pointer that was captured is the one on the screen, unless it could not be read:
\* a pointer that comes back to the buffer it had before is then not looked at.
PointerIsSeen == pc = "push" => (missed \/ Drawn(captured) = was)
=============================================================================
