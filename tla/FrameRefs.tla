------------------------------ MODULE FrameRefs ------------------------------
(***************************************************************************)
(* How a client that lost frames gets a picture again (stream.cpp: the     *)
(* handlers of the control stream; video.cpp: encode_run() and the encode  *)
(* sessions; nvenc_base.cpp).                                              *)
(*                                                                         *)
(* The client reports the frames it misses over the control stream.  The   *)
(* encoder thread looks at the two events of its session before each       *)
(* frame and either makes the encoder forget the lost frames and what was  *)
(* built on them, or makes the next frame an IDR frame.  The packet says   *)
(* that it is a fresh start, and the client decodes again from there.      *)
(***************************************************************************)
EXTENDS Integers, Sequences, FiniteSets

CONSTANTS Encoders,   \* of {"rfi", "idr"}: NVENC with the invalidation of reference
                      \* frames, and the encoders that answer with an IDR frame
          Dpb,        \* ref_frames_in_dpb
          MaxFrame,   \* bound: frames of a behaviour
          MaxReport,  \* bound: messages of the client
          MaxRestart  \* bound: times the encoder is made again

ASSUME RefsAssumption == MaxFrame \in Nat

VARIABLES encoder,      \* the kind of the encoder
          pc,           \* of the encoder thread
          frameNr,      \* frame_nr
          idrEvent, rfiEvent,  \* the events of the session
          force,        \* force_idr, or the picture type of the frame
          confirm,      \* rfi_needs_confirmation
          lastRange, lastEncoded,
          dpb,          \* the frames the encoder may build on
          needs,        \* [frame |-> the frames it is built on, directly or not]
          net,          \* packets on their way to the client, in the order of their numbers
          control,      \* messages on their way to the host; "first" and "last" are what is
                        \* missing, or where the client was
          next, waiting, decoded,  \* the client
          overwritten,  \* a report was replaced before the encoder saw it
          reports, restarts

codecVars == <<force, confirm, lastRange, lastEncoded, dpb>>
clientVars == <<control, next, waiting, decoded, reports>>
refsVars == <<encoder, pc, frameNr, idrEvent, rfiEvent, codecVars, needs, net, clientVars,
              overwritten, restarts>>

NoRange == <<0, 0>>

\* capture() raises the event of the IDR frame before there is an encoder.
Init == /\ encoder \in Encoders /\ pc = "make" /\ frameNr = 1
        /\ idrEvent = TRUE /\ rfiEvent = NoRange
        /\ force = FALSE /\ confirm = FALSE /\ lastRange = NoRange /\ lastEncoded = 0 /\ dpb = {}
        /\ needs = [n \in 1..MaxFrame |-> {}] /\ net = {} /\ control = <<>>
        /\ next = 1 /\ waiting = TRUE /\ decoded = {}
        /\ overwritten = FALSE /\ reports = 0 /\ restarts = 0

-----------------------------------------------------------------------------
(* The control stream *)

\* The control thread hands one message to the event it is for; a report
\* replaces one that still waits there.
Hear == /\ control # <<>>
        /\ LET m == Head(control)
           IN  /\ idrEvent' = (idrEvent \/ m.kind = "idr")
               /\ rfiEvent' = IF m.kind = "rfi" THEN <<m.first, m.last>> ELSE rfiEvent
               /\ overwritten' = (overwritten \/ (m.kind = "rfi" /\ rfiEvent # NoRange))
        /\ control' = Tail(control)
        /\ UNCHANGED <<encoder, pc, frameNr, codecVars, needs, net, next, waiting, decoded,
                       reports, restarts>>

-----------------------------------------------------------------------------
(* The encoder thread *)

\* create_encoder() forgets what the last encoder did.
Make == /\ pc = "make" /\ pc' = "top"
        /\ force' = FALSE /\ confirm' = FALSE /\ lastRange' = NoRange /\ lastEncoded' = 0
        /\ dpb' = {}
        /\ UNCHANGED <<encoder, frameNr, idrEvent, rfiEvent, needs, net, clientVars, overwritten,
                       restarts>>

\* The display is opened again once a frame is out, or the images have stopped.
Reinit == /\ pc \in {"top", "encode"} /\ frameNr > 1 /\ restarts < MaxRestart
          /\ pc' = "make" /\ restarts' = restarts + 1
          /\ UNCHANGED <<encoder, frameNr, idrEvent, rfiEvent, codecVars, needs, net, clientVars,
                         overwritten>>

\* Faulty: only what the client named is forgotten.
AsReported(range) == range

\* What was encoded since the loss was built on it.
Expanded(range) == <<range[1], lastEncoded>>

AlreadyDone(range) == range[1] >= lastRange[1] /\ range[2] <= lastRange[2]

\* The comparison is made on unsigned numbers.
TooLarge(range) == range[2] - range[1] + 1 >= Dpb \/ range[2] - range[1] + 1 < 0

\* nvenc_base::invalidate_ref_frames(); the driver may refuse.
Invalidate(range) ==
  IF encoder # "rfi" THEN force' = TRUE /\ UNCHANGED <<confirm, lastRange, dpb>>
  ELSE IF AlreadyDone(range) THEN UNCHANGED <<force, confirm, lastRange, dpb>>
  ELSE /\ confirm' = TRUE
       /\ IF range[2] < range[1] THEN force' = TRUE /\ UNCHANGED <<lastRange, dpb>>
          ELSE LET all == Expanded(range)
                   kept == dpb \ all[1]..all[2]
               IN  /\ lastRange' = all
                   /\ \/ TooLarge(all) /\ force' = TRUE /\ dpb' = dpb
                      \/ ~TooLarge(all) /\ UNCHANGED force /\ dpb' = kept
                      \/ /\ ~TooLarge(all) /\ all[1] <= all[2]
                         /\ force' = TRUE /\ dpb' = dpb

PopReport == /\ pc = "top" /\ rfiEvent # NoRange /\ rfiEvent' = NoRange
             /\ Invalidate(rfiEvent)
             /\ UNCHANGED <<encoder, pc, frameNr, idrEvent, lastEncoded, needs, net, clientVars,
                            overwritten, restarts>>

PopIdr == /\ pc = "top" /\ rfiEvent = NoRange /\ pc' = "encode"
          /\ force' = (force \/ idrEvent) /\ idrEvent' = FALSE
          /\ UNCHANGED <<encoder, frameNr, rfiEvent, confirm, lastRange, lastEncoded, dpb, needs,
                         net, clientVars, overwritten, restarts>>

\* An encoder's first frame is an IDR frame.
IsIdr == force \/ lastEncoded = 0

\* NVENC builds a frame on one of those it may, or on none.
Bases == IF IsIdr \/ dpb = {} THEN {{}} ELSE {needs[g] \union {g} : g \in dpb}

\* A full buffer loses a frame, the oldest if it slides.
Kept == IF IsIdr THEN {{}}
        ELSE IF Cardinality(dpb) < Dpb THEN {dpb} ELSE {dpb \ {g} : g \in dpb}

Marked == IF IsIdr THEN "idr" ELSE IF confirm THEN "recovery" ELSE "normal"

\* encode(): the number is used whether or not there is a packet.
Encode == /\ pc = "encode" /\ frameNr <= MaxFrame /\ frameNr' = frameNr + 1
          /\ \E base \in Bases : needs' = [needs EXCEPT ![frameNr] = base]
          /\ \E kept \in Kept : dpb' = kept \union {frameNr}
          /\ net' = net \union {[n |-> frameNr, type |-> Marked]}
          /\ lastEncoded' = frameNr /\ confirm' = FALSE /\ force' = FALSE
          /\ pc' = "top"
          /\ UNCHANGED <<encoder, idrEvent, rfiEvent, lastRange, clientVars, overwritten, restarts>>

EncodeFails == /\ pc = "encode" /\ frameNr <= MaxFrame /\ frameNr' = frameNr + 1
               /\ restarts < MaxRestart /\ restarts' = restarts + 1
               /\ pc' = "make"
               /\ UNCHANGED <<encoder, idrEvent, rfiEvent, codecVars, needs, net, clientVars,
                              overwritten>>

-----------------------------------------------------------------------------
(* The client *)

\* A packet never arrives.
Lose == /\ \E p \in net : net' = net \ {p}
        /\ UNCHANGED <<encoder, pc, frameNr, idrEvent, rfiEvent, codecVars, needs, clientVars,
                       overwritten, restarts>>

\* What is missing before a frame is reported; then a fresh start is waited for.
Arrive(p) ==
  LET missing == next < p.n
      stuck == (waiting \/ missing) /\ p.type = "normal"
  IN  /\ missing => reports < MaxReport
      /\ control' = IF missing
                    THEN Append(control, [kind |-> IF encoder = "rfi" THEN "rfi" ELSE "idr",
                                          first |-> next, last |-> p.n - 1])
                    ELSE control
      /\ reports' = IF missing THEN reports + 1 ELSE reports
      /\ waiting' = stuck
      /\ decoded' = IF stuck THEN decoded ELSE decoded \union {p.n}
      /\ next' = p.n + 1

Receive == /\ \E p \in net : /\ \A q \in net : p.n <= q.n
                            /\ Arrive(p) /\ net' = net \ {p}
           /\ UNCHANGED <<encoder, pc, frameNr, idrEvent, rfiEvent, codecVars, needs, overwritten,
                          restarts>>

\* A decoder that starts again asks for an IDR frame.
AskIdr == /\ reports < MaxReport /\ reports' = reports + 1
          /\ control' = Append(control, [kind |-> "idr", first |-> next, last |-> next - 1])
          /\ waiting' = TRUE
          /\ UNCHANGED <<encoder, pc, frameNr, idrEvent, rfiEvent, codecVars, needs, net, next,
                         decoded, overwritten, restarts>>

Next == \/ Hear \/ Make \/ Reinit \/ PopReport \/ PopIdr \/ Encode \/ EncodeFails
        \/ Lose \/ Receive \/ AskIdr

Spec == Init /\ [][Next]_refsVars

-----------------------------------------------------------------------------
(* Properties *)

Message == [kind : {"rfi", "idr"}, first : 1..(MaxFrame + 1), last : 0..MaxFrame]

TypeOK == /\ encoder \in Encoders /\ pc \in {"make", "top", "encode"}
          /\ frameNr \in 1..(MaxFrame + 1) /\ idrEvent \in BOOLEAN /\ force \in BOOLEAN
          /\ confirm \in BOOLEAN /\ overwritten \in BOOLEAN /\ waiting \in BOOLEAN
          /\ rfiEvent \in (0..MaxFrame) \X (0..MaxFrame)
          /\ lastRange \in (0..MaxFrame) \X (0..MaxFrame) /\ lastEncoded \in 0..MaxFrame
          /\ dpb \subseteq 1..MaxFrame /\ needs \in [1..MaxFrame -> SUBSET (1..MaxFrame)]
          /\ net \subseteq [n : 1..MaxFrame, type : {"idr", "recovery", "normal"}]
          /\ control \in Seq(Message) /\ decoded \subseteq 1..MaxFrame
          /\ next \in 1..(MaxFrame + 1)

\* A client never decodes a frame that is built on one it does not have, unless
\* one of its reports was replaced by the next before the encoder looked.
DecodesWhole == ~overwritten => \A n \in decoded : needs[n] \subseteq decoded

\* A client that waits for a fresh start will be given one: it is asked for, or
\* about to be encoded, or on its way, or its loss will be noticed.
HelpIsComing ==
  waiting => \/ control # <<>> \/ idrEvent \/ rfiEvent # NoRange
             \/ force \/ confirm \/ lastEncoded = 0 \/ pc = "make"
             \/ \E p \in net : p.type # "normal"
             \/ \E n \in next..(frameNr - 1) : \A p \in net : p.n # n

\* The two together.
ReferencesHold == TypeOK /\ DecodesWhole /\ HelpIsComing
=============================================================================
