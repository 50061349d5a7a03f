--------------------------- MODULE PlatformProof ---------------------------
(***************************************************************************)
(* Two theorems about parts of PlatformMC.                                 *)
(*                                                                         *)
(* Why a client never decodes a frame that is built on one it lacks, and   *)
(* why one that waits for a fresh start is helped (FrameRefs), for any     *)
(* number of frames, reports and encoders and any size of the buffer of    *)
(* reference frames.  What a frame is built on lies in the encoder's       *)
(* buffer, in packets on their way and in frames already decoded.  The     *)
(* invariant follows a frame that the client has missed through all three: *)
(* while it is in the buffer a report covers it; once the report is        *)
(* answered it is out of the buffer, and the next packet is a fresh start; *)
(* behind that start nothing on its way is built on it.                    *)
(*                                                                         *)
(* Why what is held down on the host is known to somebody (Input), for any *)
(* clients, messages, addresses of timers, displays and gamepads.  The     *)
(* worker runs one timer at a time and an address has one timer; what      *)
(* repeats is what the id of the repeat names; a button that is down is    *)
(* remembered or waits for its timer; a gamepad that is taken has one      *)
(* client or one task that frees it; and once every client has been reset  *)
(* one reset is yet to come behind all they said.                          *)
(***************************************************************************)
EXTENDS PlatformMC, FiniteSetTheorems, TLAPS

USE RefsAssumption

-----------------------------------------------------------------------------
(* Reference frames: the inductive invariant *)

\* The encoder in place has to build its next frame on the frames of its buffer.
Live == ~force /\ pc # "make"

\* A message the encoder will not take for one it has answered.
Effective(m) == m.kind = "idr" \/ m.last > lastRange[2]

Waits == rfiEvent # NoRange /\ rfiEvent[2] > lastRange[2]

\* A message that will make the encoder start again, or forget frame f.
Pending == \/ idrEvent
           \/ Waits
           \/ \E i \in 1..Len(control) : Effective(control[i])

Covered(f) ==
  \/ idrEvent
  \/ rfiEvent[1] <= f /\ Waits
  \/ \E i \in 1..Len(control) : control[i].first <= f /\ Effective(control[i])

Start(p) == p.type # "normal"

Hole(k) == \A p \in net : p.n # k

Missed(k) == k < next /\ k \notin decoded

\* Messages tell of what is missing before the frame the client is at; each of no
\* less than those before it.
Messages ==
  /\ \A i \in 1..Len(control) :
       /\ control[i].first <= next /\ control[i].last < next
       /\ control[i].kind = "rfi" => control[i].first <= control[i].last
  /\ \A i, j \in 1..Len(control) :
       i < j => control[i].first <= control[j].first /\ control[i].last <= control[j].last
  /\ rfiEvent # NoRange =>
       /\ 1 <= rfiEvent[1] /\ rfiEvent[1] <= rfiEvent[2] /\ rfiEvent[2] < next
       /\ \A i \in 1..Len(control) :
            rfiEvent[1] <= control[i].first /\ rfiEvent[2] <= control[i].last

\* Where the numbers of the frames stand.
Numbers ==
  /\ next <= frameNr /\ lastEncoded < frameNr
  /\ \A p \in net : next <= p.n /\ p.n < frameNr
  /\ \A p, q \in net : p.n = q.n => p = q
  /\ decoded \subseteq 1..(next - 1)
  /\ \A n \in 1..MaxFrame : needs[n] \subseteq 1..(n - 1)
  /\ \A f \in dpb : f < frameNr
  /\ pc # "make" => \/ lastEncoded = frameNr - 1
                    \/ lastEncoded = 0 /\ dpb = {}

\* What was invalidated is out of the buffer, and what follows it is a fresh start.
Ranges ==
  /\ lastRange[1] < next /\ lastRange[2] <= lastEncoded
  /\ pc # "make" /\ lastRange[2] = lastEncoded => confirm \/ force \/ lastEncoded = 0
  /\ \A p \in net : p.n = lastRange[2] + 1 \/ p.n = 1 => Start(p)
  /\ Live => \A f \in dpb : f < lastRange[1] \/ f > lastRange[2]

\* A client that waits has asked, or will be given a start, or will notice.
Helped ==
  waiting /\ Live /\ ~confirm /\ lastEncoded # 0
    => \/ Pending
       \/ \E p \in net : Start(p)
       \/ \E k \in next..(frameNr - 1) : Hole(k)

\* A frame of the buffer that the client has missed is reported, ...
MissedIsReported ==
  ~overwritten /\ Live => \A f \in dpb : Missed(f) => Covered(f)

\* ... or, while it waits, is one it cannot take as it is.
AheadIsCovered ==
  ~overwritten /\ Live /\ waiting
    => \A f \in dpb : f >= next => \/ Covered(f)
                                   \/ \E p \in net : Start(p) /\ p.n <= f
                                   \/ \E k \in next..f : Hole(k)

\* After an invalidation the client has all that the next frame can be built on.
RecoveryIsClean ==
  ~overwritten /\ Live /\ confirm /\ ~(pc = "top" /\ idrEvent) => dpb \subseteq decoded

\* A fresh start is built on what the client has, ...
StartIsWhole ==
  ~overwritten => \A p \in net : Start(p) => needs[p.n] \subseteq decoded

\* ... and so is what follows it.
StartCuts ==
  ~overwritten =>
    \A q \in net : Start(q) =>
      /\ \A p \in net : q.n <= p.n => \A k \in needs[p.n] : k \in decoded \/ q.n <= k
      /\ Live => \A g \in dpb : \A k \in needs[g] \union {g} : k \in decoded \/ q.n <= k

\* A client that has missed what a frame is built on waits for a fresh start.
GapsWait ==
  ~overwritten =>
    /\ \A p \in net : \A k \in needs[p.n] : Missed(k) => waiting
    /\ Live => \A g \in dpb : \A k \in needs[g] \union {g} : Missed(k) => waiting

RefsInv == /\ TypeOK /\ Messages /\ Numbers /\ Ranges /\ Helped /\ MissedIsReported
           /\ AheadIsCovered /\ RecoveryIsClean /\ StartIsWhole /\ StartCuts /\ GapsWait
           /\ DecodesWhole

\* What the provers need to know of the types.
Typed ==
  /\ next \in Nat /\ frameNr \in Nat /\ lastEncoded \in Nat
  /\ \A f \in dpb : f \in 1..MaxFrame /\ f \in Nat
  /\ \A p \in net : p.n \in 1..MaxFrame /\ p.n \in Nat
  /\ \A i \in 1..Len(control) :
       /\ control[i].kind \in {"rfi", "idr"}
       /\ control[i].first \in Nat /\ control[i].last \in Nat
  /\ Len(control) \in Nat
  /\ rfiEvent[1] \in Nat /\ rfiEvent[2] \in Nat
  /\ lastRange[1] \in Nat /\ lastRange[2] \in Nat
  /\ rfiEvent = NoRange => rfiEvent[1] = 0 /\ rfiEvent[2] = 0

-----------------------------------------------------------------------------
(* Every step keeps it *)

\* What is left of the messages when the first is taken, ...
LEMMA TailIs ==
  ASSUME NEW S, NEW s \in Seq(S), s # <<>>
  PROVE  /\ Head(s) \in S /\ Head(s) = s[1] /\ 1 \in 1..Len(s)
         /\ Tail(s) \in Seq(S) /\ Len(Tail(s)) = Len(s) - 1
         /\ \A i \in 1..Len(Tail(s)) : i + 1 \in 1..Len(s) /\ Tail(s)[i] = s[i + 1]
  OBVIOUS

\* ... and what they are when one is added.
LEMMA AppendIs ==
  ASSUME NEW S, NEW s \in Seq(S), NEW m \in S
  PROVE  /\ Append(s, m) \in Seq(S) /\ Len(Append(s, m)) = Len(s) + 1
         /\ \A i \in 1..Len(s) : i \in 1..Len(Append(s, m)) /\ Append(s, m)[i] = s[i]
         /\ Append(s, m)[Len(s) + 1] = m /\ Len(s) + 1 \in 1..Len(Append(s, m))
         /\ \A i \in 1..Len(Append(s, m)) : i \in 1..Len(s) \/ i = Len(s) + 1
  OBVIOUS

\* A range in the event has two ends.
LEMMA RangeIs ==
  ASSUME TypeOK
  PROVE  /\ rfiEvent[1] \in 0..MaxFrame /\ rfiEvent[2] \in 0..MaxFrame
         /\ lastRange[1] \in 0..MaxFrame /\ lastRange[2] \in 0..MaxFrame
         /\ rfiEvent = NoRange => rfiEvent[1] = 0 /\ rfiEvent[2] = 0
  BY DEF TypeOK, NoRange

\* The fields of a message.
LEMMA MessageIs ==
  ASSUME NEW m \in Message
  PROVE  /\ m.kind \in {"rfi", "idr"} /\ m.first \in 1..(MaxFrame + 1) /\ m.last \in 0..MaxFrame
  BY DEF Message

\* What the types say of the numbers.
LEMMA TypesAre == ASSUME TypeOK PROVE Typed
<1>1. \A i \in 1..Len(control) : control[i] \in Message
  BY DEF TypeOK
<1>2. \A m \in Message : m.kind \in {"rfi", "idr"} /\ m.first \in Nat /\ m.last \in Nat
  BY DEF Message
<1>3. Len(control) \in Nat
  BY DEF TypeOK
<1>4. /\ next \in Nat /\ frameNr \in Nat /\ lastEncoded \in Nat
      /\ \A f \in dpb : f \in 1..MaxFrame /\ f \in Nat
      /\ \A p \in net : p.n \in 1..MaxFrame /\ p.n \in Nat
  BY DEF TypeOK
<1>5. /\ rfiEvent[1] \in Nat /\ rfiEvent[2] \in Nat
      /\ lastRange[1] \in Nat /\ lastRange[2] \in Nat
      /\ rfiEvent = NoRange => rfiEvent[1] = 0 /\ rfiEvent[2] = 0
  BY RangeIs
<1> QED BY <1>1, <1>2, <1>3, <1>4, <1>5 DEF Typed

\* A request for an IDR frame covers every frame of the buffer, ...
LEMMA HearIdr ==
  ASSUME RefsInv, Hear, Head(control).kind = "idr"
  PROVE  RefsInv'
<1> USE DEF RefsInv
<1>b. /\ control' \in Seq(Message) /\ Len(control') = Len(control) - 1
      /\ \A i \in 1..Len(control') : i + 1 \in 1..Len(control) /\ control'[i] = control[i + 1]
      /\ control[1] \in Message /\ 1 \in 1..Len(control)
      /\ control[1].first \in 1..(MaxFrame + 1) /\ control[1].last \in 0..MaxFrame
      /\ control[1].kind = "idr" /\ idrEvent' = TRUE
      /\ encoder' = encoder /\ pc' = pc /\ frameNr' = frameNr /\ rfiEvent' = rfiEvent
      /\ force' = force /\ confirm' = confirm /\ lastRange' = lastRange
      /\ lastEncoded' = lastEncoded /\ dpb' = dpb /\ needs' = needs /\ net' = net
      /\ next' = next /\ waiting' = waiting /\ decoded' = decoded
      /\ overwritten' = overwritten
  BY TailIs, MessageIs DEF Hear, TypeOK, codecVars, NoRange
<1>c. Typed
  BY TypesAre
<1>1. TypeOK'
  BY <1>b, <1>c DEF TypeOK, Typed
<1>2. Messages'
  <2>1. \A i \in 1..Len(control') :
          /\ control'[i].first <= next' /\ control'[i].last < next'
          /\ control'[i].kind = "rfi" => control'[i].first <= control'[i].last
    BY <1>b DEF Messages
  <2>2. ASSUME NEW i \in 1..Len(control'), NEW j \in 1..Len(control'), i < j
        PROVE  control'[i].first <= control'[j].first /\ control'[i].last <= control'[j].last
    <3>1. /\ i + 1 \in 1..Len(control) /\ j + 1 \in 1..Len(control)
          /\ control'[i] = control[i + 1] /\ control'[j] = control[j + 1]
      BY <1>b
    <3>2. i + 1 < j + 1
      BY <2>2
    <3> QED BY <3>1, <3>2 DEF Messages
  <2>3. rfiEvent' # NoRange =>
          /\ 1 <= rfiEvent'[1] /\ rfiEvent'[1] <= rfiEvent'[2] /\ rfiEvent'[2] < next'
          /\ \A i \in 1..Len(control') :
               rfiEvent'[1] <= control'[i].first /\ rfiEvent'[2] <= control'[i].last
    BY <1>b DEF Messages
  <2> QED BY <2>1, <2>2, <2>3 DEF Messages
<1>3. Numbers'
  BY <1>b, <1>c DEF Numbers, TypeOK, Typed
<1>4. Ranges'
  BY <1>b, <1>c DEF Ranges, Live, Start, NoRange, Numbers, Messages, Typed
<1>5. Helped'
  BY SMTT(40), <1>b, <1>c DEF Helped, Live, Start, Hole, Pending, Waits, Effective, NoRange,
     Messages, Numbers, Ranges, Typed
<1>6. MissedIsReported'
  BY SMTT(40), <1>b, <1>c DEF MissedIsReported, Live, Missed, Covered, Waits, Effective,
     NoRange, Messages, Numbers, Typed
<1>7. AheadIsCovered'
  BY <1>b, <1>c DEF AheadIsCovered, Live, Start, Hole, Covered, Waits, Effective, NoRange,
     Messages, Numbers, Ranges, Typed
<1>8. RecoveryIsClean'
  BY <1>b, <1>c DEF RecoveryIsClean, Live, Typed
<1>9. StartIsWhole'
  BY <1>b, <1>c DEF StartIsWhole, Start, Live, Typed
<1>10. StartCuts'
  BY <1>b, <1>c DEF StartCuts, Start, Live, Typed
<1>11. GapsWait'
  BY <1>b, <1>c DEF GapsWait, Start, Live, Missed, Typed
<1>12. DecodesWhole'
  BY <1>b, <1>c DEF DecodesWhole, Typed
<1> QED BY <1>1, <1>2, <1>3, <1>4, <1>5, <1>6, <1>7, <1>8, <1>9, <1>10, <1>11, <1>12 DEF
   RefsInv

\* ... and a report what its message covered, unless it replaced one that waited.
LEMMA HearRfi ==
  ASSUME RefsInv, Hear, Head(control).kind # "idr"
  PROVE  RefsInv'
<1> USE DEF RefsInv
<1>b. /\ control' \in Seq(Message) /\ Len(control') = Len(control) - 1
      /\ \A i \in 1..Len(control') : i + 1 \in 1..Len(control) /\ control'[i] = control[i + 1]
      /\ control[1] \in Message /\ 1 \in 1..Len(control)
      /\ control[1].first \in 1..(MaxFrame + 1) /\ control[1].last \in 0..MaxFrame
      /\ control[1].kind = "rfi" /\ rfiEvent' = <<control[1].first, control[1].last>>
      /\ rfiEvent'[1] = control[1].first /\ rfiEvent'[2] = control[1].last
      /\ ~overwritten' => ~overwritten /\ rfiEvent = NoRange
      /\ overwritten' \in BOOLEAN
      /\ encoder' = encoder /\ pc' = pc /\ frameNr' = frameNr /\ idrEvent' = idrEvent
      /\ force' = force /\ confirm' = confirm /\ lastRange' = lastRange
      /\ lastEncoded' = lastEncoded /\ dpb' = dpb /\ needs' = needs /\ net' = net
      /\ next' = next /\ waiting' = waiting /\ decoded' = decoded
  <2> DEFINE m == Head(control)
  <2>1. control \in Seq(Message) /\ control # <<>>
    BY DEF Hear, TypeOK
  <2>2. /\ m \in Message /\ m = control[1] /\ 1 \in 1..Len(control)
        /\ Tail(control) \in Seq(Message) /\ Len(Tail(control)) = Len(control) - 1
        /\ \A i \in 1..Len(Tail(control)) :
             i + 1 \in 1..Len(control) /\ Tail(control)[i] = control[i + 1]
    BY <2>1, TailIs
  <2>3. /\ m.kind = "rfi"
        /\ m.first \in 1..(MaxFrame + 1) /\ m.last \in 0..MaxFrame
    BY <2>2, MessageIs
  <2>4. /\ rfiEvent' = <<m.first, m.last>> /\ control' = Tail(control)
        /\ idrEvent' = (idrEvent \/ m.kind = "idr")
        /\ overwritten' = (overwritten \/ (m.kind = "rfi" /\ rfiEvent # NoRange))
        /\ encoder' = encoder /\ pc' = pc /\ frameNr' = frameNr
        /\ force' = force /\ confirm' = confirm /\ lastRange' = lastRange
        /\ lastEncoded' = lastEncoded /\ dpb' = dpb /\ needs' = needs /\ net' = net
        /\ next' = next /\ waiting' = waiting /\ decoded' = decoded
    BY <2>3 DEF Hear, codecVars
  <2> HIDE DEF m
  <2>5. idrEvent' = idrEvent /\ (~overwritten' => ~overwritten /\ rfiEvent = NoRange)
    <3>1. idrEvent \in BOOLEAN
      BY DEF TypeOK
    <3> QED BY <2>3, <2>4, <3>1
  <2>6. overwritten' \in BOOLEAN
    BY <2>4
  <2>7. rfiEvent'[1] = m.first /\ rfiEvent'[2] = m.last
    BY <2>4
  <2> QED BY <2>2, <2>3, <2>4, <2>5, <2>6, <2>7
<1>c. Typed
  BY TypesAre
<1>d. /\ Pending => Pending'
      /\ ~overwritten' => \A f \in dpb : Covered(f) => Covered(f)'
  <2>1. rfiEvent' # NoRange
    BY <1>b DEF NoRange
  <2>2. /\ rfiEvent # NoRange => rfiEvent[2] <= control[1].last
        /\ \A i \in 1..Len(control) : i # 1 => i - 1 \in 1..Len(control')
           /\ control'[i - 1] = control[i]
    BY SMTT(40), <1>b, <1>c DEF Messages, Typed
  <2>3. Waits => Waits'
    BY <1>b, <1>c, <2>1, <2>2 DEF Waits, Typed
  <2>4. Effective(control[1]) => Waits'
    BY <1>b, <2>1 DEF Waits, Effective
  <2>5. \A m : Effective(m) <=> Effective(m)'
    BY <1>b DEF Effective
  <2>6. Pending => Pending'
    BY <1>b, <2>2, <2>3, <2>4, <2>5 DEF Pending, Effective
  <2>7. ASSUME ~overwritten', NEW f \in dpb, Covered(f) PROVE Covered(f)'
    <3>1. ~Waits
      BY <1>b, <2>7 DEF Waits
    <3>2. CASE idrEvent
      BY <1>b, <3>2 DEF Covered
    <3>3. CASE ~idrEvent
      <4>1. PICK i \in 1..Len(control) : control[i].first <= f /\ Effective(control[i])
        BY <2>7, <3>1, <3>3 DEF Covered
      <4>2. CASE i = 1
        BY <4>1, <4>2, <1>b, <2>4 DEF Covered
      <4>3. CASE i # 1
        <5>1. i - 1 \in 1..Len(control') /\ control'[i - 1] = control[i]
          BY <2>2, <4>3
        <5>2. control'[i - 1].first <= f /\ (control'[i - 1].kind = "idr"
                \/ control'[i - 1].last > lastRange'[2])
          BY <4>1, <5>1, <2>5, <1>b DEF Effective
        <5> QED BY <5>1, <5>2 DEF Covered, Effective
      <4> QED BY <4>2, <4>3
    <3> QED BY <3>2, <3>3
  <2> QED BY <2>6, <2>7
<1>1. TypeOK'
  <2>1. rfiEvent' \in (0..MaxFrame) \X (0..MaxFrame)
          /\ lastRange' \in (0..MaxFrame) \X (0..MaxFrame)
    <3>1. control[1].first <= control[1].last
      BY <1>b DEF Messages
    <3>2. control[1].first \in 0..MaxFrame
      BY <1>b, <3>1
    <3> QED BY <1>b, <3>2 DEF TypeOK
  <2>2. /\ idrEvent' \in BOOLEAN /\ force' \in BOOLEAN /\ confirm' \in BOOLEAN
        /\ overwritten' \in BOOLEAN /\ waiting' \in BOOLEAN
    BY <1>b DEF TypeOK
  <2>3. /\ encoder' \in Encoders /\ pc' \in {"make", "top", "encode"}
        /\ frameNr' \in 1..(MaxFrame + 1) /\ next' \in 1..(MaxFrame + 1)
        /\ lastEncoded' \in 0..MaxFrame
    BY <1>b DEF TypeOK
  <2>4. dpb' \subseteq 1..MaxFrame /\ decoded' \subseteq 1..MaxFrame
    BY <1>b DEF TypeOK
  <2>5. /\ needs' \in [1..MaxFrame -> SUBSET (1..MaxFrame)]
        /\ net' \subseteq [n : 1..MaxFrame, type : {"idr", "recovery", "normal"}]
        /\ control' \in Seq(Message)
    BY <1>b DEF TypeOK
  <2> QED BY <2>1, <2>2, <2>3, <2>4, <2>5 DEF TypeOK
<1>2. Messages'
  <2>1. \A i \in 1..Len(control') :
          /\ control'[i].first <= next' /\ control'[i].last < next'
          /\ control'[i].kind = "rfi" => control'[i].first <= control'[i].last
    BY <1>b DEF Messages
  <2>2. ASSUME NEW i \in 1..Len(control'), NEW j \in 1..Len(control'), i < j
        PROVE  control'[i].first <= control'[j].first /\ control'[i].last <= control'[j].last
    <3>1. /\ i + 1 \in 1..Len(control) /\ j + 1 \in 1..Len(control)
          /\ control'[i] = control[i + 1] /\ control'[j] = control[j + 1]
      BY <1>b
    <3>2. i + 1 < j + 1
      BY <2>2
    <3> QED BY <3>1, <3>2 DEF Messages
  <2>3. rfiEvent' # NoRange =>
          /\ 1 <= rfiEvent'[1] /\ rfiEvent'[1] <= rfiEvent'[2] /\ rfiEvent'[2] < next'
          /\ \A i \in 1..Len(control') :
               rfiEvent'[1] <= control'[i].first /\ rfiEvent'[2] <= control'[i].last
    <3>1. 1 <= rfiEvent'[1] /\ rfiEvent'[1] <= rfiEvent'[2] /\ rfiEvent'[2] < next'
      BY <1>b, <1>c DEF Messages, Typed
    <3>2. ASSUME NEW i \in 1..Len(control')
          PROVE  rfiEvent'[1] <= control'[i].first /\ rfiEvent'[2] <= control'[i].last
      <4>1. 1 < i + 1 /\ i + 1 \in 1..Len(control) /\ control'[i] = control[i + 1]
        BY <1>b
      <4> QED BY <4>1, <1>b DEF Messages
    <3> QED BY <3>1, <3>2
  <2> QED BY <2>1, <2>2, <2>3 DEF Messages
<1>3. Numbers'
  BY <1>b, <1>c DEF Numbers, TypeOK, Typed
<1>4. Ranges'
  BY <1>b, <1>c DEF Ranges, Live, Start, NoRange, Numbers, Messages, Typed
<1>5. Helped'
  BY <1>b, <1>d DEF Helped, Live, Hole
<1>6. MissedIsReported'
  BY <1>b, <1>d DEF MissedIsReported, Live, Missed
<1>7. AheadIsCovered'
  BY <1>b, <1>d DEF AheadIsCovered, Live, Hole
<1>8. RecoveryIsClean'
  BY <1>b, <1>c DEF RecoveryIsClean, Live, Typed
<1>9. StartIsWhole'
  BY <1>b, <1>c DEF StartIsWhole, Start, Live, Typed
<1>10. StartCuts'
  BY <1>b, <1>c DEF StartCuts, Start, Live, Typed
<1>11. GapsWait'
  BY <1>b, <1>c DEF GapsWait, Start, Live, Missed, Typed
<1>12. DecodesWhole'
  BY <1>b, <1>c DEF DecodesWhole, Typed
<1> QED BY <1>1, <1>2, <1>3, <1>4, <1>5, <1>6, <1>7, <1>8, <1>9, <1>10, <1>11, <1>12 DEF
   RefsInv

\* An invalidation that ends in an IDR frame leaves nothing to build on, ...
LEMMA PopForces ==
  ASSUME RefsInv, PopReport, force' = TRUE
  PROVE  RefsInv'
<1> USE DEF RefsInv
<1>b. /\ force' = TRUE /\ rfiEvent # NoRange /\ rfiEvent' = NoRange /\ confirm' \in BOOLEAN
         /\ pc = "top" /\ dpb' \subseteq dpb
      /\ \/ lastRange' = lastRange /\ confirm' = confirm
         \/ lastRange' = <<rfiEvent[1], lastEncoded>> /\ lastRange'[1] = rfiEvent[1]
            /\ lastRange'[2] = lastEncoded
      /\ encoder' = encoder /\ pc' = pc /\ frameNr' = frameNr /\ idrEvent' = idrEvent
      /\ lastEncoded' = lastEncoded /\ needs' = needs /\ net' = net
      /\ control' = control /\ next' = next /\ waiting' = waiting /\ decoded' = decoded
      /\ overwritten' = overwritten
  <2>1. /\ rfiEvent # NoRange /\ rfiEvent' = NoRange /\ pc = "top"
        /\ encoder' = encoder /\ pc' = pc /\ frameNr' = frameNr /\ idrEvent' = idrEvent
        /\ lastEncoded' = lastEncoded /\ needs' = needs /\ net' = net
        /\ control' = control /\ next' = next /\ waiting' = waiting /\ decoded' = decoded
        /\ overwritten' = overwritten
    BY DEF PopReport, clientVars
  <2>2. Invalidate(rfiEvent)
    BY DEF PopReport
  <2>3. ~(rfiEvent[2] < rfiEvent[1])
    BY <2>1, RangeIs DEF Messages
  <2>4. confirm' \in BOOLEAN /\ dpb' \subseteq dpb
    BY <2>2, <2>3 DEF Invalidate, TypeOK
  <2>5. \/ lastRange' = lastRange /\ confirm' = confirm
        \/ lastRange' = <<rfiEvent[1], lastEncoded>>
    BY <2>2, <2>3 DEF Invalidate, Expanded
  <2>6. lastRange' = <<rfiEvent[1], lastEncoded>> => lastRange'[1] = rfiEvent[1]
          /\ lastRange'[2] = lastEncoded
    OBVIOUS
  <2> QED BY <2>1, <2>4, <2>5, <2>6
<1>c. Typed
  BY TypesAre
<1>1. TypeOK'
  <2>1. rfiEvent' \in (0..MaxFrame) \X (0..MaxFrame)
          /\ lastRange' \in (0..MaxFrame) \X (0..MaxFrame)
    BY <1>b, <1>c, MessageIs DEF TypeOK, NoRange, Typed
  <2>2. /\ idrEvent' \in BOOLEAN /\ force' \in BOOLEAN /\ confirm' \in BOOLEAN
        /\ overwritten' \in BOOLEAN /\ waiting' \in BOOLEAN
    BY <1>b DEF TypeOK
  <2>3. /\ encoder' \in Encoders /\ pc' \in {"make", "top", "encode"}
        /\ frameNr' \in 1..(MaxFrame + 1) /\ next' \in 1..(MaxFrame + 1)
        /\ lastEncoded' \in 0..MaxFrame
    BY <1>b DEF TypeOK
  <2>4. dpb' \subseteq 1..MaxFrame /\ decoded' \subseteq 1..MaxFrame
    BY <1>b DEF TypeOK
  <2>5. /\ needs' \in [1..MaxFrame -> SUBSET (1..MaxFrame)]
        /\ net' \subseteq [n : 1..MaxFrame, type : {"idr", "recovery", "normal"}]
        /\ control' \in Seq(Message)
    BY <1>b DEF TypeOK
  <2> QED BY <2>1, <2>2, <2>3, <2>4, <2>5 DEF TypeOK
<1>2. Messages'
  BY <1>b, <1>c DEF Messages, NoRange, Typed
<1>3. Numbers'
  BY <1>b, <1>c DEF Numbers, TypeOK, Typed
<1>4. Ranges'
  BY <1>b, <1>c DEF Ranges, Live, Start, NoRange, Numbers, Messages, Typed
<1>5. Helped'
  BY SMTT(40), <1>b, <1>c DEF Helped, Live, Start, Hole, Pending, Waits, Effective, NoRange,
     Messages, Numbers, Ranges, Typed
<1>6. MissedIsReported'
  BY SMTT(40), <1>b, <1>c DEF MissedIsReported, Live, Missed, Covered, Waits, Effective,
     NoRange, Messages, Numbers, Typed
<1>7. AheadIsCovered'
  BY <1>b, <1>c DEF AheadIsCovered, Live, Start, Hole, Covered, Waits, Effective, NoRange,
     Messages, Numbers, Ranges, Typed
<1>8. RecoveryIsClean'
  BY <1>b, <1>c DEF RecoveryIsClean, Live, Typed
<1>9. StartIsWhole'
  BY <1>b, <1>c DEF StartIsWhole, Start, Live, Typed
<1>10. StartCuts'
  BY <1>b, <1>c DEF StartCuts, Start, Live, Typed
<1>11. GapsWait'
  BY <1>b, <1>c DEF GapsWait, Start, Live, Missed, Typed
<1>12. DecodesWhole'
  BY <1>b, <1>c DEF DecodesWhole, Typed
<1> QED BY <1>1, <1>2, <1>3, <1>4, <1>5, <1>6, <1>7, <1>8, <1>9, <1>10, <1>11, <1>12 DEF
   RefsInv

\* ... one whose range is answered already concerns no frame of the buffer, ...
LEMMA PopDone ==
  ASSUME RefsInv, PopReport, AlreadyDone(rfiEvent), force' # TRUE, lastRange' = lastRange
  PROVE  RefsInv'
<1> USE DEF RefsInv
<1>b. /\ rfiEvent # NoRange /\ rfiEvent' = NoRange /\ rfiEvent[2] <= lastRange[2] /\ pc = "top"
      /\ encoder' = encoder /\ pc' = pc /\ frameNr' = frameNr /\ idrEvent' = idrEvent
      /\ force' = force /\ confirm' = confirm /\ lastRange' = lastRange
      /\ lastEncoded' = lastEncoded /\ dpb' = dpb /\ needs' = needs /\ net' = net
      /\ control' = control /\ next' = next /\ waiting' = waiting /\ decoded' = decoded
      /\ overwritten' = overwritten
  BY RangeIs DEF PopReport, Invalidate, clientVars, TypeOK, Expanded, AlreadyDone, Messages
<1>c. Typed
  BY TypesAre
<1>1. TypeOK'
  <2>1. rfiEvent' \in (0..MaxFrame) \X (0..MaxFrame)
          /\ lastRange' \in (0..MaxFrame) \X (0..MaxFrame)
    BY <1>b, <1>c, MessageIs DEF TypeOK, NoRange, Typed
  <2>2. /\ idrEvent' \in BOOLEAN /\ force' \in BOOLEAN /\ confirm' \in BOOLEAN
        /\ overwritten' \in BOOLEAN /\ waiting' \in BOOLEAN
    BY <1>b DEF TypeOK
  <2>3. /\ encoder' \in Encoders /\ pc' \in {"make", "top", "encode"}
        /\ frameNr' \in 1..(MaxFrame + 1) /\ next' \in 1..(MaxFrame + 1)
        /\ lastEncoded' \in 0..MaxFrame
    BY <1>b DEF TypeOK
  <2>4. dpb' \subseteq 1..MaxFrame /\ decoded' \subseteq 1..MaxFrame
    BY <1>b DEF TypeOK
  <2>5. /\ needs' \in [1..MaxFrame -> SUBSET (1..MaxFrame)]
        /\ net' \subseteq [n : 1..MaxFrame, type : {"idr", "recovery", "normal"}]
        /\ control' \in Seq(Message)
    BY <1>b DEF TypeOK
  <2> QED BY <2>1, <2>2, <2>3, <2>4, <2>5 DEF TypeOK
<1>2. Messages'
  BY <1>b, <1>c DEF Messages, NoRange, Typed
<1>3. Numbers'
  BY <1>b, <1>c DEF Numbers, TypeOK, Typed
<1>4. Ranges'
  BY <1>b, <1>c DEF Ranges, Live, Start, NoRange, Numbers, Messages, Typed
<1>5. Helped'
  BY SMTT(40), <1>b, <1>c DEF Helped, Live, Start, Hole, Pending, Waits, Effective, NoRange,
     Messages, Numbers, Ranges, Typed
<1>6. MissedIsReported'
  BY SMTT(40), <1>b, <1>c DEF MissedIsReported, Live, Missed, Covered, Waits, Effective,
     NoRange, Messages, Numbers, Typed
<1>7. AheadIsCovered'
  BY SMTT(40), <1>b, <1>c DEF AheadIsCovered, Live, Start, Hole, Covered, Waits, Effective, NoRange,
     Messages, Numbers, Ranges, Typed
<1>8. RecoveryIsClean'
  BY <1>b, <1>c DEF RecoveryIsClean, Live, Typed
<1>9. StartIsWhole'
  BY <1>b, <1>c DEF StartIsWhole, Start, Live, Typed
<1>10. StartCuts'
  BY <1>b, <1>c DEF StartCuts, Start, Live, Typed
<1>11. GapsWait'
  BY <1>b, <1>c DEF GapsWait, Start, Live, Missed, Typed
<1>12. DecodesWhole'
  BY <1>b, <1>c DEF DecodesWhole, Typed
<1> QED BY <1>1, <1>2, <1>3, <1>4, <1>5, <1>6, <1>7, <1>8, <1>9, <1>10, <1>11, <1>12 DEF
   RefsInv

\* ... and any other takes what was reported, and all that was encoded since, out of it.
LEMMA PopForgets ==
  ASSUME RefsInv, PopReport, force' # TRUE, ~AlreadyDone(rfiEvent)
  PROVE  RefsInv'
<1> USE DEF RefsInv
<1>b. /\ rfiEvent # NoRange /\ rfiEvent' = NoRange /\ pc = "top" /\ confirm' = TRUE
      /\ lastRange' = <<rfiEvent[1], lastEncoded>> /\ lastRange'[1] = rfiEvent[1]
         /\ lastRange'[2] = lastEncoded
      /\ dpb' \subseteq dpb /\ \A f \in dpb' : f < rfiEvent[1] \/ f > lastEncoded
      /\ encoder' = encoder /\ pc' = pc /\ frameNr' = frameNr /\ idrEvent' = idrEvent
      /\ force' = force /\ lastEncoded' = lastEncoded /\ needs' = needs /\ net' = net
      /\ control' = control /\ next' = next /\ waiting' = waiting /\ decoded' = decoded
      /\ overwritten' = overwritten
  <2>1. /\ rfiEvent # NoRange /\ rfiEvent' = NoRange /\ pc = "top"
        /\ encoder' = encoder /\ pc' = pc /\ frameNr' = frameNr /\ idrEvent' = idrEvent
        /\ lastEncoded' = lastEncoded /\ needs' = needs /\ net' = net
        /\ control' = control /\ next' = next /\ waiting' = waiting /\ decoded' = decoded
        /\ overwritten' = overwritten
    BY DEF PopReport, clientVars
  <2>2. Invalidate(rfiEvent)
    BY DEF PopReport
  <2>3. ~(rfiEvent[2] < rfiEvent[1])
    BY <2>1, RangeIs DEF Messages
  <2>4. encoder = "rfi" /\ ~AlreadyDone(rfiEvent) /\ confirm' = TRUE
    BY <2>2, <2>3 DEF Invalidate
  <2>5. lastRange' = Expanded(rfiEvent)
          /\ dpb' = dpb \ Expanded(rfiEvent)[1]..Expanded(rfiEvent)[2] /\ force' = force
    BY <2>2, <2>3, <2>4 DEF Invalidate
  <2>6. Expanded(rfiEvent)[1] = rfiEvent[1] /\ Expanded(rfiEvent)[2] = lastEncoded
    BY DEF Expanded
  <2>7. dpb' \subseteq dpb /\ \A f \in dpb' : f < rfiEvent[1] \/ f > lastEncoded
    BY <2>5, <2>6, RangeIs DEF TypeOK
  <2> QED BY <2>1, <2>4, <2>5, <2>6, <2>7 DEF Expanded
<1>c. Typed
  BY TypesAre
<1>1. TypeOK'
  <2>1. rfiEvent' \in (0..MaxFrame) \X (0..MaxFrame)
          /\ lastRange' \in (0..MaxFrame) \X (0..MaxFrame)
    BY <1>b, <1>c, MessageIs DEF TypeOK, NoRange, Typed
  <2>2. /\ idrEvent' \in BOOLEAN /\ force' \in BOOLEAN /\ confirm' \in BOOLEAN
        /\ overwritten' \in BOOLEAN /\ waiting' \in BOOLEAN
    BY <1>b DEF TypeOK
  <2>3. /\ encoder' \in Encoders /\ pc' \in {"make", "top", "encode"}
        /\ frameNr' \in 1..(MaxFrame + 1) /\ next' \in 1..(MaxFrame + 1)
        /\ lastEncoded' \in 0..MaxFrame
    BY <1>b DEF TypeOK
  <2>4. dpb' \subseteq 1..MaxFrame /\ decoded' \subseteq 1..MaxFrame
    BY <1>b DEF TypeOK
  <2>5. /\ needs' \in [1..MaxFrame -> SUBSET (1..MaxFrame)]
        /\ net' \subseteq [n : 1..MaxFrame, type : {"idr", "recovery", "normal"}]
        /\ control' \in Seq(Message)
    BY <1>b DEF TypeOK
  <2> QED BY <2>1, <2>2, <2>3, <2>4, <2>5 DEF TypeOK
<1>2. Messages'
  BY <1>b, <1>c DEF Messages, NoRange, Typed
<1>3. Numbers'
  BY <1>b, <1>c DEF Numbers, TypeOK, Typed
<1>4. Ranges'
  BY SMTT(40), <1>b, <1>c DEF Ranges, Live, Start, NoRange, Numbers, Messages, Typed
<1>5. Helped'
  BY SMTT(40), <1>b, <1>c DEF Helped, Live, Start, Hole, Pending, Waits, Effective, NoRange,
     Messages, Numbers, Ranges, Typed
<1>6. MissedIsReported'
  <2> SUFFICES ASSUME ~overwritten', Live', NEW f \in dpb', Missed(f)' PROVE Covered(f)'
    BY DEF MissedIsReported
  <2>1. f \in dpb /\ f \in Nat /\ Live /\ ~overwritten /\ Missed(f) /\ f < rfiEvent[1]
    BY <1>b, <1>c DEF Missed, Live, Numbers, Typed
  <2>2. Covered(f) /\ \A i \in 1..Len(control) : f < control[i].first
    BY <2>1, <1>b, <1>c DEF MissedIsReported, Messages, Typed
  <2>3. idrEvent
    BY <2>1, <2>2, <1>b, <1>c DEF Covered, Typed
  <2> QED BY <2>3, <1>b DEF Covered
<1>7. AheadIsCovered'
  BY SMTT(40), <1>b, <1>c DEF AheadIsCovered, Live, Start, Hole, Covered, Waits, Effective, NoRange,
     Messages, Numbers, Ranges, Typed
<1>8. RecoveryIsClean'
  <2> SUFFICES ASSUME ~overwritten', Live', ~idrEvent, NEW f \in dpb' PROVE f \in decoded
    BY <1>b DEF RecoveryIsClean
  <2>1. f \in dpb /\ f \in Nat /\ Live /\ ~overwritten /\ f < rfiEvent[1] /\ rfiEvent[1] < next
    BY <1>b, <1>c DEF Live, Numbers, Messages, Typed
  <2>2. \A i \in 1..Len(control) : f < control[i].first
    BY <2>1, <1>b, <1>c DEF Messages, Typed
  <2>3. ~Covered(f)
    BY <2>1, <2>2, <1>b, <1>c DEF Covered, Typed
  <2> QED BY <2>1, <2>3, <1>c DEF MissedIsReported, Missed, Typed
<1>9. StartIsWhole'
  BY <1>b, <1>c DEF StartIsWhole, Start, Live, Typed
<1>10. StartCuts'
  BY <1>b, <1>c DEF StartCuts, Start, Live, Typed
<1>11. GapsWait'
  BY <1>b, <1>c DEF GapsWait, Start, Live, Missed, Typed
<1>12. DecodesWhole'
  BY <1>b, <1>c DEF DecodesWhole, Typed
<1> QED BY <1>1, <1>2, <1>3, <1>4, <1>5, <1>6, <1>7, <1>8, <1>9, <1>10, <1>11, <1>12 DEF
   RefsInv

\* An IDR frame is built on nothing, ...
LEMMA EncodeIdr ==
  ASSUME RefsInv, Encode, IsIdr
  PROVE  RefsInv'
<1> USE DEF RefsInv
<1> DEFINE r == [n |-> frameNr, type |-> "idr"]
<1>b. /\ pc = "encode" /\ pc' = "top" /\ frameNr \in 1..MaxFrame /\ frameNr' = frameNr + 1
         /\ lastEncoded' = frameNr
      /\ confirm' = FALSE /\ force' = FALSE
      /\ net' = net \union {r} /\ r.n = frameNr /\ r.type = "idr"
      /\ r \in [n : 1..MaxFrame, type : {"idr", "recovery", "normal"}]
      /\ (\A p \in net' : p \in net \/ p = r) /\ net \subseteq net' /\ r \in net'
      /\ needs' \in [1..MaxFrame -> SUBSET (1..MaxFrame)]
      /\ \A n \in 1..MaxFrame : n # frameNr => needs'[n] = needs[n]
      /\ \A p \in net : needs'[p.n] = needs[p.n] /\ p.n # frameNr
      /\ \A n \in decoded : needs'[n] = needs[n]
      /\ needs'[frameNr] = {} /\ dpb' = {frameNr}
      /\ encoder' = encoder /\ idrEvent' = idrEvent /\ rfiEvent' = rfiEvent
      /\ lastRange' = lastRange /\ control' = control /\ next' = next
      /\ waiting' = waiting /\ decoded' = decoded /\ overwritten' = overwritten
  <2>1. /\ frameNr \in 1..MaxFrame /\ needs \in [1..MaxFrame -> SUBSET (1..MaxFrame)]
        /\ dpb \subseteq 1..MaxFrame
    BY DEF Encode, TypeOK
  <2>2. r.n = frameNr /\ r.type = "idr"
          /\ r \in [n : 1..MaxFrame, type : {"idr", "recovery", "normal"}]
    BY <2>1
  <2>3. net' = net \union {r}
    BY DEF Encode, Marked
  <2> HIDE DEF r
  <2>4. \A p \in net : p.n \in 1..MaxFrame /\ p.n # frameNr
    BY DEF TypeOK, Numbers
  <2>5. \A n \in decoded : n \in 1..MaxFrame /\ n # frameNr
    BY DEF TypeOK, Numbers
  <2>6. PICK base \in Bases : needs' = [needs EXCEPT ![frameNr] = base]
    BY DEF Encode
  <2>7. base = {}
    BY <2>1, <2>6 DEF Bases, IsIdr, TypeOK
  <2>8. needs' \in [1..MaxFrame -> SUBSET (1..MaxFrame)] /\ needs'[frameNr] = base
    BY <2>1, <2>6, <2>7
  <2>9. \A n \in 1..MaxFrame : n # frameNr => needs'[n] = needs[n]
    BY <2>1, <2>6
  <2>10. dpb' = {frameNr}
    BY <2>1 DEF Encode, Kept, IsIdr
  <2>11. \A g \in dpb : g \in 1..MaxFrame /\ g # frameNr
    BY DEF TypeOK, Numbers
  <2> QED BY <2>1, <2>2, <2>3, <2>4, <2>5, <2>7, <2>8, <2>9, <2>10, <2>11 DEF Encode, IsIdr,
     Live, clientVars
<1>c. Typed
  BY TypesAre
<1> HIDE DEF r
<1>1. TypeOK'
  <2>1. rfiEvent' \in (0..MaxFrame) \X (0..MaxFrame)
          /\ lastRange' \in (0..MaxFrame) \X (0..MaxFrame)
    BY <1>b, <1>c, MessageIs DEF TypeOK, NoRange, Typed
  <2>2. /\ idrEvent' \in BOOLEAN /\ force' \in BOOLEAN /\ confirm' \in BOOLEAN
        /\ overwritten' \in BOOLEAN /\ waiting' \in BOOLEAN
    BY <1>b DEF TypeOK
  <2>3. /\ encoder' \in Encoders /\ pc' \in {"make", "top", "encode"}
        /\ frameNr' \in 1..(MaxFrame + 1) /\ next' \in 1..(MaxFrame + 1)
        /\ lastEncoded' \in 0..MaxFrame
    BY <1>b DEF TypeOK
  <2>4. dpb' \subseteq 1..MaxFrame /\ decoded' \subseteq 1..MaxFrame
    BY <1>b DEF TypeOK
  <2>5. /\ needs' \in [1..MaxFrame -> SUBSET (1..MaxFrame)]
        /\ net' \subseteq [n : 1..MaxFrame, type : {"idr", "recovery", "normal"}]
        /\ control' \in Seq(Message)
    BY <1>b DEF TypeOK
  <2> QED BY <2>1, <2>2, <2>3, <2>4, <2>5 DEF TypeOK
<1>2. Messages'
  BY <1>b, <1>c DEF Messages, NoRange, Typed
<1>3. Numbers'
  <2>1. next' <= frameNr' /\ lastEncoded' < frameNr'
    BY <1>b, <1>c DEF Numbers, Typed
  <2>2. ASSUME NEW q \in net' PROVE next' <= q.n /\ q.n < frameNr'
    BY <1>b, <1>c DEF Numbers, Typed
  <2>3. \A q, u \in net' : q.n = u.n => q = u
    BY <1>b DEF Numbers
  <2>4. decoded' \subseteq 1..(next' - 1)
    BY <1>b DEF Numbers
  <2>5. ASSUME NEW n \in 1..MaxFrame PROVE needs'[n] \subseteq 1..(n - 1)
    <3>1. CASE n # frameNr
      BY <3>1, <1>b DEF Numbers
    <3>2. CASE n = frameNr
      BY <3>2, <1>b
    <3> QED BY <3>1, <3>2
  <2>6. /\ \A f \in dpb' : f < frameNr'
        /\ lastEncoded' = frameNr' - 1
    BY <1>b, <1>c DEF Numbers, Typed
  <2> QED BY <2>1, <2>2, <2>3, <2>4, <2>5, <2>6 DEF Numbers
<1>4. Ranges'
  BY <1>b, <1>c DEF Ranges, Live, Start, NoRange, Numbers, Messages, Typed
<1>5. Helped'
  BY SMTT(40), <1>b, <1>c DEF Helped, Live, Start, Hole, Pending, Waits, Effective, NoRange,
     Messages, Numbers, Ranges, Typed
<1>6. MissedIsReported'
  BY SMTT(40), <1>b, <1>c DEF MissedIsReported, Live, Missed, Covered, Waits, Effective,
     NoRange, Messages, Numbers, Typed
<1>7. AheadIsCovered'
  BY <1>b, <1>c DEF AheadIsCovered, Live, Start, Hole, Covered, Waits, Effective, NoRange,
     Messages, Numbers, Ranges, Helped, Pending, Typed
<1>8. RecoveryIsClean'
  BY <1>b, <1>c DEF RecoveryIsClean, Live, Typed
<1>9. StartIsWhole'
  BY <1>b, <1>c DEF StartIsWhole, Start, Live, RecoveryIsClean, DecodesWhole, Numbers, Typed
<1>10. StartCuts'
  <2> SUFFICES ASSUME ~overwritten', NEW q \in net', Start(q)
               PROVE  /\ \A p \in net' : q.n <= p.n =>
                           \A k \in needs'[p.n] : k \in decoded' \/ q.n <= k
                      /\ \A g \in dpb' : \A k \in needs'[g] \union {g} : k \in decoded'
                         \/ q.n <= k
    BY DEF StartCuts, Start
  <2>1. q.n <= frameNr /\ \A p \in net : p.n < frameNr
    BY <1>b, <1>c DEF Numbers, Typed
  <2>2. \A k \in needs'[frameNr] : k \in decoded \/ q.n <= k
    BY <1>b
  <2>3. ASSUME NEW p \in net', q.n <= p.n PROVE \A k \in needs'[p.n] : k \in decoded'
                 \/ q.n <= k
    <3>1. CASE p = r
      BY <3>1, <2>2, <1>b
    <3>2. CASE p \in net
      <4>1. q \in net
        BY <3>2, <2>1, <2>3, <1>b, <1>c DEF Typed
      <4> QED BY <3>2, <4>1, <2>3, <1>b DEF StartCuts
    <3> QED BY <3>1, <3>2, <1>b
  <2>4. ASSUME NEW g \in dpb' PROVE \A k \in needs'[g] \union {g} : k \in decoded' \/ q.n <= k
    BY <2>1, <2>2, <1>b
  <2> QED BY <2>3, <2>4
<1>11. GapsWait'
  <2> SUFFICES ASSUME ~overwritten'
               PROVE  /\ \A p \in net' : \A k \in needs'[p.n] : Missed(k) => waiting
                      /\ \A g \in dpb' : \A k \in needs'[g] \union {g} : Missed(k) => waiting
    BY <1>b DEF GapsWait, Missed
  <2>1. ~Missed(frameNr)
    BY <1>c DEF Missed, Numbers, Typed
  <2>2. \A k \in needs'[frameNr] : Missed(k) => waiting
    BY <1>b
  <2>3. ASSUME NEW p \in net' PROVE \A k \in needs'[p.n] : Missed(k) => waiting
    <3>1. CASE p = r
      BY <3>1, <2>2, <1>b
    <3>2. CASE p \in net
      BY <3>2, <1>b DEF GapsWait
    <3> QED BY <3>1, <3>2, <1>b
  <2>4. ASSUME NEW g \in dpb' PROVE \A k \in needs'[g] \union {g} : Missed(k) => waiting
    <3>1. CASE g = frameNr
      BY <3>1, <2>1, <2>2
    <3>2. CASE g # frameNr
      BY <3>2, <1>b
    <3> QED BY <3>1, <3>2
  <2> QED BY <2>3, <2>4
<1>12. DecodesWhole'
  BY <1>b, <1>c DEF DecodesWhole, Typed
<1> QED BY <1>1, <1>2, <1>3, <1>4, <1>5, <1>6, <1>7, <1>8, <1>9, <1>10, <1>11, <1>12 DEF
   RefsInv

\* ... the frame after an invalidation on what the client has, ...
LEMMA EncodeRecovery ==
  ASSUME RefsInv, Encode, ~IsIdr, confirm
  PROVE  RefsInv'
<1> USE DEF RefsInv
<1> DEFINE r == [n |-> frameNr, type |-> "recovery"]
<1>b. /\ pc = "encode" /\ pc' = "top" /\ frameNr \in 1..MaxFrame /\ frameNr' = frameNr + 1
         /\ lastEncoded' = frameNr
      /\ confirm' = FALSE /\ force' = FALSE
      /\ net' = net \union {r} /\ r.n = frameNr /\ r.type = "recovery"
      /\ r \in [n : 1..MaxFrame, type : {"idr", "recovery", "normal"}]
      /\ (\A p \in net' : p \in net \/ p = r) /\ net \subseteq net' /\ r \in net'
      /\ needs' \in [1..MaxFrame -> SUBSET (1..MaxFrame)]
      /\ \A n \in 1..MaxFrame : n # frameNr => needs'[n] = needs[n]
      /\ \A p \in net : needs'[p.n] = needs[p.n] /\ p.n # frameNr
      /\ \A n \in decoded : needs'[n] = needs[n]
      /\ dpb' \subseteq dpb \union {frameNr} /\ lastEncoded # 0 /\ ~force /\ Live
      /\ \A g \in dpb' : g = frameNr \/ (g \in dpb /\ g # frameNr)
      /\ \A g \in dpb : needs'[g] = needs[g]
      /\ \A k \in needs'[frameNr] : \E g \in dpb : k \in needs[g] \union {g}
      /\ confirm
      /\ encoder' = encoder /\ idrEvent' = idrEvent /\ rfiEvent' = rfiEvent
      /\ lastRange' = lastRange /\ control' = control /\ next' = next
      /\ waiting' = waiting /\ decoded' = decoded /\ overwritten' = overwritten
  <2>1. /\ frameNr \in 1..MaxFrame /\ needs \in [1..MaxFrame -> SUBSET (1..MaxFrame)]
        /\ dpb \subseteq 1..MaxFrame
    BY DEF Encode, TypeOK
  <2>2. r.n = frameNr /\ r.type = "recovery"
          /\ r \in [n : 1..MaxFrame, type : {"idr", "recovery", "normal"}]
    BY <2>1
  <2>3. net' = net \union {r}
    BY DEF Encode, Marked
  <2> HIDE DEF r
  <2>4. \A p \in net : p.n \in 1..MaxFrame /\ p.n # frameNr
    BY DEF TypeOK, Numbers
  <2>5. \A n \in decoded : n \in 1..MaxFrame /\ n # frameNr
    BY DEF TypeOK, Numbers
  <2>6. PICK base \in Bases : needs' = [needs EXCEPT ![frameNr] = base]
    BY DEF Encode
  <2>7. base \subseteq 1..MaxFrame /\ \A k \in base : \E g \in dpb : k \in needs[g] \union {g}
    BY <2>1, <2>6 DEF Bases, IsIdr, TypeOK
  <2>8. needs' \in [1..MaxFrame -> SUBSET (1..MaxFrame)] /\ needs'[frameNr] = base
    BY <2>1, <2>6, <2>7
  <2>9. \A n \in 1..MaxFrame : n # frameNr => needs'[n] = needs[n]
    BY <2>1, <2>6
  <2>10. dpb' \subseteq dpb \union {frameNr}
    BY <2>1 DEF Encode, Kept, IsIdr
  <2>11. \A g \in dpb : g \in 1..MaxFrame /\ g # frameNr
    BY DEF TypeOK, Numbers
  <2> QED BY <2>1, <2>2, <2>3, <2>4, <2>5, <2>7, <2>8, <2>9, <2>10, <2>11 DEF Encode, IsIdr,
     Live, clientVars
<1>c. Typed
  BY TypesAre
<1> HIDE DEF r
<1>d. ~overwritten => \A g \in dpb : \A k \in needs[g] \union {g} : k \in decoded
  BY <1>b DEF RecoveryIsClean, DecodesWhole
<1>1. TypeOK'
  <2>1. rfiEvent' \in (0..MaxFrame) \X (0..MaxFrame)
          /\ lastRange' \in (0..MaxFrame) \X (0..MaxFrame)
    BY <1>b, <1>c, MessageIs DEF TypeOK, NoRange, Typed
  <2>2. /\ idrEvent' \in BOOLEAN /\ force' \in BOOLEAN /\ confirm' \in BOOLEAN
        /\ overwritten' \in BOOLEAN /\ waiting' \in BOOLEAN
    BY <1>b DEF TypeOK
  <2>3. /\ encoder' \in Encoders /\ pc' \in {"make", "top", "encode"}
        /\ frameNr' \in 1..(MaxFrame + 1) /\ next' \in 1..(MaxFrame + 1)
        /\ lastEncoded' \in 0..MaxFrame
    BY <1>b DEF TypeOK
  <2>4. dpb' \subseteq 1..MaxFrame /\ decoded' \subseteq 1..MaxFrame
    BY <1>b DEF TypeOK
  <2>5. /\ needs' \in [1..MaxFrame -> SUBSET (1..MaxFrame)]
        /\ net' \subseteq [n : 1..MaxFrame, type : {"idr", "recovery", "normal"}]
        /\ control' \in Seq(Message)
    BY <1>b DEF TypeOK
  <2> QED BY <2>1, <2>2, <2>3, <2>4, <2>5 DEF TypeOK
<1>2. Messages'
  BY <1>b, <1>c DEF Messages, NoRange, Typed
<1>3. Numbers'
  <2>1. next' <= frameNr' /\ lastEncoded' < frameNr'
    BY <1>b, <1>c DEF Numbers, Typed
  <2>2. ASSUME NEW q \in net' PROVE next' <= q.n /\ q.n < frameNr'
    BY <1>b, <1>c DEF Numbers, Typed
  <2>3. \A q, u \in net' : q.n = u.n => q = u
    BY <1>b DEF Numbers
  <2>4. decoded' \subseteq 1..(next' - 1)
    BY <1>b DEF Numbers
  <2>5. ASSUME NEW n \in 1..MaxFrame PROVE needs'[n] \subseteq 1..(n - 1)
    <3>1. CASE n # frameNr
      BY <3>1, <1>b DEF Numbers
    <3>2. CASE n = frameNr
      <4>1. ASSUME NEW k \in needs'[frameNr] PROVE k \in 1..(frameNr - 1)
        <5>1. PICK g \in dpb : k \in needs[g] \union {g}
          BY <1>b
        <5>2. g \in 1..MaxFrame /\ g < frameNr /\ needs[g] \subseteq 1..(g - 1)
          BY <1>c DEF Numbers, Typed
        <5>3. k \in 1..(g - 1) \/ k = g
          BY <5>1, <5>2
        <5> QED BY ONLY <5>2, <5>3, <1>c DEF Typed
      <4> QED BY <3>2, <4>1
    <3> QED BY <3>1, <3>2
  <2>6. /\ \A f \in dpb' : f < frameNr'
        /\ lastEncoded' = frameNr' - 1
    BY <1>b, <1>c DEF Numbers, Typed
  <2> QED BY <2>1, <2>2, <2>3, <2>4, <2>5, <2>6 DEF Numbers
<1>4. Ranges'
  BY <1>b, <1>c DEF Ranges, Live, Start, NoRange, Numbers, Messages, Typed
<1>5. Helped'
  BY SMTT(40), <1>b, <1>c DEF Helped, Live, Start, Hole, Pending, Waits, Effective, NoRange,
     Messages, Numbers, Ranges, Typed
<1>6. MissedIsReported'
  BY SMTT(40), <1>b, <1>c DEF MissedIsReported, Live, Missed, Covered, Waits, Effective,
     NoRange, Messages, Numbers, Typed
<1>7. AheadIsCovered'
  <2> SUFFICES ASSUME ~overwritten', Live', waiting', NEW f \in dpb', f >= next'
               PROVE  \/ Covered(f)'
                      \/ \E q \in net' : Start(q) /\ q.n <= f
                      \/ \E k \in next'..f : Hole(k)'
    BY DEF AheadIsCovered, Start
  <2>1. CASE f = frameNr
    BY <2>1, <1>b, <1>c DEF Start, Typed
  <2>2. CASE f # frameNr
    <3>1. f \in dpb /\ f >= next /\ ~overwritten /\ waiting /\ Live /\ f < frameNr
      BY <2>2, <1>b DEF Numbers
    <3>2. Covered(f)' <=> Covered(f)
      BY <1>b DEF Covered, Waits, Effective
    <3>3. \A k \in next..f : Hole(k) => Hole(k)'
      BY <3>1, <1>b, <1>c DEF Hole, Typed
    <3> QED BY <3>1, <3>2, <3>3, <1>b DEF AheadIsCovered
  <2> QED BY <2>1, <2>2
<1>8. RecoveryIsClean'
  BY <1>b, <1>c DEF RecoveryIsClean, Live, Typed
<1>9. StartIsWhole'
  <2>1. ~overwritten => needs'[frameNr] \subseteq decoded
    BY <1>b, <1>d
  <2> QED BY <2>1, <1>b DEF StartIsWhole, Start
<1>10. StartCuts'
  <2> SUFFICES ASSUME ~overwritten', NEW q \in net', Start(q)
               PROVE  /\ \A p \in net' : q.n <= p.n =>
                           \A k \in needs'[p.n] : k \in decoded' \/ q.n <= k
                      /\ \A g \in dpb' : \A k \in needs'[g] \union {g} : k \in decoded'
                         \/ q.n <= k
    BY DEF StartCuts, Start
  <2>1. q.n <= frameNr /\ \A p \in net : p.n < frameNr
    BY <1>b, <1>c DEF Numbers, Typed
  <2>2. \A k \in needs'[frameNr] : k \in decoded \/ q.n <= k
    BY <1>b, <1>d
  <2>3. ASSUME NEW p \in net', q.n <= p.n PROVE \A k \in needs'[p.n] : k \in decoded'
                 \/ q.n <= k
    <3>1. CASE p = r
      BY <3>1, <2>2, <1>b
    <3>2. CASE p \in net
      <4>1. q \in net
        BY <3>2, <2>1, <2>3, <1>b, <1>c DEF Typed
      <4> QED BY <3>2, <4>1, <2>3, <1>b DEF StartCuts
    <3> QED BY <3>1, <3>2, <1>b
  <2>4. ASSUME NEW g \in dpb' PROVE \A k \in needs'[g] \union {g} : k \in decoded' \/ q.n <= k
    <3>1. CASE g = frameNr
      BY <3>1, <2>1, <2>2, <1>b
    <3>2. CASE g \in dpb
      BY <3>2, <1>b, <1>d
    <3> QED BY <3>1, <3>2, <1>b
  <2> QED BY <2>3, <2>4
<1>11. GapsWait'
  <2> SUFFICES ASSUME ~overwritten'
               PROVE  /\ \A p \in net' : \A k \in needs'[p.n] : Missed(k) => waiting
                      /\ \A g \in dpb' : \A k \in needs'[g] \union {g} : Missed(k) => waiting
    BY <1>b DEF GapsWait, Missed
  <2>1. ~Missed(frameNr)
    BY <1>c DEF Missed, Numbers, Typed
  <2>2. \A k \in needs'[frameNr] : Missed(k) => waiting
    BY <1>b DEF GapsWait
  <2>3. ASSUME NEW p \in net' PROVE \A k \in needs'[p.n] : Missed(k) => waiting
    <3>1. CASE p = r
      BY <3>1, <2>2, <1>b
    <3>2. CASE p \in net
      BY <3>2, <1>b DEF GapsWait
    <3> QED BY <3>1, <3>2, <1>b
  <2>4. ASSUME NEW g \in dpb' PROVE \A k \in needs'[g] \union {g} : Missed(k) => waiting
    <3>1. CASE g = frameNr
      BY <3>1, <2>1, <2>2
    <3>2. CASE g # frameNr
      BY <3>2, <1>b DEF GapsWait
    <3> QED BY <3>1, <3>2
  <2> QED BY <2>3, <2>4
<1>12. DecodesWhole'
  BY <1>b, <1>c DEF DecodesWhole, Typed
<1> QED BY <1>1, <1>2, <1>3, <1>4, <1>5, <1>6, <1>7, <1>8, <1>9, <1>10, <1>11, <1>12 DEF
   RefsInv

\* ... and a normal one on the buffer.
LEMMA EncodeNormal ==
  ASSUME RefsInv, Encode, ~IsIdr, ~confirm
  PROVE  RefsInv'
<1> USE DEF RefsInv
<1> DEFINE r == [n |-> frameNr, type |-> "normal"]
<1>b. /\ pc = "encode" /\ pc' = "top" /\ frameNr \in 1..MaxFrame /\ frameNr' = frameNr + 1
         /\ lastEncoded' = frameNr
      /\ confirm' = FALSE /\ force' = FALSE
      /\ net' = net \union {r} /\ r.n = frameNr /\ r.type = "normal"
      /\ r \in [n : 1..MaxFrame, type : {"idr", "recovery", "normal"}]
      /\ (\A p \in net' : p \in net \/ p = r) /\ net \subseteq net' /\ r \in net'
      /\ needs' \in [1..MaxFrame -> SUBSET (1..MaxFrame)]
      /\ \A n \in 1..MaxFrame : n # frameNr => needs'[n] = needs[n]
      /\ \A p \in net : needs'[p.n] = needs[p.n] /\ p.n # frameNr
      /\ \A n \in decoded : needs'[n] = needs[n]
      /\ dpb' \subseteq dpb \union {frameNr} /\ lastEncoded # 0 /\ ~force /\ Live
      /\ \A g \in dpb' : g = frameNr \/ (g \in dpb /\ g # frameNr)
      /\ \A g \in dpb : needs'[g] = needs[g]
      /\ \A k \in needs'[frameNr] : \E g \in dpb : k \in needs[g] \union {g}
      /\ ~confirm
      /\ encoder' = encoder /\ idrEvent' = idrEvent /\ rfiEvent' = rfiEvent
      /\ lastRange' = lastRange /\ control' = control /\ next' = next
      /\ waiting' = waiting /\ decoded' = decoded /\ overwritten' = overwritten
  <2>1. /\ frameNr \in 1..MaxFrame /\ needs \in [1..MaxFrame -> SUBSET (1..MaxFrame)]
        /\ dpb \subseteq 1..MaxFrame
    BY DEF Encode, TypeOK
  <2>2. r.n = frameNr /\ r.type = "normal"
          /\ r \in [n : 1..MaxFrame, type : {"idr", "recovery", "normal"}]
    BY <2>1
  <2>3. net' = net \union {r}
    BY DEF Encode, Marked
  <2> HIDE DEF r
  <2>4. \A p \in net : p.n \in 1..MaxFrame /\ p.n # frameNr
    BY DEF TypeOK, Numbers
  <2>5. \A n \in decoded : n \in 1..MaxFrame /\ n # frameNr
    BY DEF TypeOK, Numbers
  <2>6. PICK base \in Bases : needs' = [needs EXCEPT ![frameNr] = base]
    BY DEF Encode
  <2>7. base \subseteq 1..MaxFrame /\ \A k \in base : \E g \in dpb : k \in needs[g] \union {g}
    BY <2>1, <2>6 DEF Bases, IsIdr, TypeOK
  <2>8. needs' \in [1..MaxFrame -> SUBSET (1..MaxFrame)] /\ needs'[frameNr] = base
    BY <2>1, <2>6, <2>7
  <2>9. \A n \in 1..MaxFrame : n # frameNr => needs'[n] = needs[n]
    BY <2>1, <2>6
  <2>10. dpb' \subseteq dpb \union {frameNr}
    BY <2>1 DEF Encode, Kept, IsIdr
  <2>11. \A g \in dpb : g \in 1..MaxFrame /\ g # frameNr
    BY DEF TypeOK, Numbers
  <2> QED BY <2>1, <2>2, <2>3, <2>4, <2>5, <2>7, <2>8, <2>9, <2>10, <2>11 DEF Encode, IsIdr,
     Live, clientVars
<1>c. Typed
  BY TypesAre
<1> HIDE DEF r
<1>1. TypeOK'
  <2>1. rfiEvent' \in (0..MaxFrame) \X (0..MaxFrame)
          /\ lastRange' \in (0..MaxFrame) \X (0..MaxFrame)
    BY <1>b, <1>c, MessageIs DEF TypeOK, NoRange, Typed
  <2>2. /\ idrEvent' \in BOOLEAN /\ force' \in BOOLEAN /\ confirm' \in BOOLEAN
        /\ overwritten' \in BOOLEAN /\ waiting' \in BOOLEAN
    BY <1>b DEF TypeOK
  <2>3. /\ encoder' \in Encoders /\ pc' \in {"make", "top", "encode"}
        /\ frameNr' \in 1..(MaxFrame + 1) /\ next' \in 1..(MaxFrame + 1)
        /\ lastEncoded' \in 0..MaxFrame
    BY <1>b DEF TypeOK
  <2>4. dpb' \subseteq 1..MaxFrame /\ decoded' \subseteq 1..MaxFrame
    BY <1>b DEF TypeOK
  <2>5. /\ needs' \in [1..MaxFrame -> SUBSET (1..MaxFrame)]
        /\ net' \subseteq [n : 1..MaxFrame, type : {"idr", "recovery", "normal"}]
        /\ control' \in Seq(Message)
    BY <1>b DEF TypeOK
  <2> QED BY <2>1, <2>2, <2>3, <2>4, <2>5 DEF TypeOK
<1>2. Messages'
  BY <1>b, <1>c DEF Messages, NoRange, Typed
<1>3. Numbers'
  <2>1. next' <= frameNr' /\ lastEncoded' < frameNr'
    BY <1>b, <1>c DEF Numbers, Typed
  <2>2. ASSUME NEW q \in net' PROVE next' <= q.n /\ q.n < frameNr'
    BY <1>b, <1>c DEF Numbers, Typed
  <2>3. \A q, u \in net' : q.n = u.n => q = u
    BY <1>b DEF Numbers
  <2>4. decoded' \subseteq 1..(next' - 1)
    BY <1>b DEF Numbers
  <2>5. ASSUME NEW n \in 1..MaxFrame PROVE needs'[n] \subseteq 1..(n - 1)
    <3>1. CASE n # frameNr
      BY <3>1, <1>b DEF Numbers
    <3>2. CASE n = frameNr
      <4>1. ASSUME NEW k \in needs'[frameNr] PROVE k \in 1..(frameNr - 1)
        <5>1. PICK g \in dpb : k \in needs[g] \union {g}
          BY <1>b
        <5>2. g \in 1..MaxFrame /\ g < frameNr /\ needs[g] \subseteq 1..(g - 1)
          BY <1>c DEF Numbers, Typed
        <5>3. k \in 1..(g - 1) \/ k = g
          BY <5>1, <5>2
        <5> QED BY ONLY <5>2, <5>3, <1>c DEF Typed
      <4> QED BY <3>2, <4>1
    <3> QED BY <3>1, <3>2
  <2>6. /\ \A f \in dpb' : f < frameNr'
        /\ lastEncoded' = frameNr' - 1
    BY <1>b, <1>c DEF Numbers, Typed
  <2> QED BY <2>1, <2>2, <2>3, <2>4, <2>5, <2>6 DEF Numbers
<1>4. Ranges'
  BY <1>b, <1>c DEF Ranges, Live, Start, NoRange, Numbers, Messages, Typed
<1>5. Helped'
  <2>1. next <= frameNr
    BY DEF Numbers
  <2>2. \A k \in next..(frameNr - 1) : Hole(k) => k \in next'..(frameNr' - 1) /\ Hole(k)'
    BY <1>b, <1>c, <2>1 DEF Hole, Typed
  <2>3. Pending' <=> Pending
    BY <1>b DEF Pending, Waits, Effective
  <2> QED BY <2>2, <2>3, <1>b DEF Helped, Start
<1>6. MissedIsReported'
  BY SMTT(40), <1>b, <1>c DEF MissedIsReported, Live, Missed, Covered, Waits, Effective,
     NoRange, Messages, Numbers, Typed
<1>7. AheadIsCovered'
  <2> SUFFICES ASSUME ~overwritten', Live', waiting', NEW f \in dpb', f >= next'
               PROVE  \/ Covered(f)'
                      \/ \E q \in net' : Start(q) /\ q.n <= f
                      \/ \E k \in next'..f : Hole(k)'
    BY DEF AheadIsCovered, Start
  <2>1. CASE f = frameNr
    <3>1. waiting /\ Live /\ ~confirm /\ lastEncoded # 0 /\ next <= frameNr
      BY <1>b DEF Numbers
    <3>2. CASE Pending
      <4>1. Waits => rfiEvent[1] <= frameNr
        BY <3>1, <1>c DEF Messages, Waits, Typed
      <4>2. \A i \in 1..Len(control) : control[i].first <= frameNr
        <5>1. \A i \in 1..Len(control) : control[i].first <= next /\ control[i].first \in Nat
          BY <1>c DEF Messages, Typed
        <5>2. next \in Nat /\ frameNr \in Nat /\ next <= frameNr
          BY <3>1, <1>c DEF Typed
        <5> QED BY ONLY <5>1, <5>2
      <4> QED BY SMTT(40), <2>1, <3>2, <4>1, <4>2, <1>b DEF Pending, Covered, Waits, Effective
    <3>3. CASE \E q \in net : Start(q)
      BY <2>1, <3>3, <1>b, <1>c DEF Numbers, Typed
    <3>4. CASE \E k \in next..(frameNr - 1) : Hole(k)
      <4>1. PICK k \in next..(frameNr - 1) : Hole(k)
        BY <3>4
      <4>2. k \in next'..f /\ Hole(k)'
        BY SMTT(40), <2>1, <4>1, <1>b, <1>c DEF Hole, Typed
      <4> QED BY <4>2
    <3> QED BY <3>1, <3>2, <3>3, <3>4 DEF Helped
  <2>2. CASE f # frameNr
    <3>1. f \in dpb /\ f >= next /\ ~overwritten /\ waiting /\ Live /\ f < frameNr
      BY <2>2, <1>b DEF Numbers
    <3>2. Covered(f)' <=> Covered(f)
      BY <1>b DEF Covered, Waits, Effective
    <3>3. \A k \in next..f : Hole(k) => Hole(k)'
      BY <3>1, <1>b, <1>c DEF Hole, Typed
    <3> QED BY <3>1, <3>2, <3>3, <1>b DEF AheadIsCovered
  <2> QED BY <2>1, <2>2
<1>8. RecoveryIsClean'
  BY <1>b, <1>c DEF RecoveryIsClean, Live, Typed
<1>9. StartIsWhole'
  BY <1>b, <1>c DEF StartIsWhole, Start, Live, RecoveryIsClean, DecodesWhole, Numbers, Typed
<1>10. StartCuts'
  <2> SUFFICES ASSUME ~overwritten', NEW q \in net', Start(q)
               PROVE  /\ \A p \in net' : q.n <= p.n =>
                           \A k \in needs'[p.n] : k \in decoded' \/ q.n <= k
                      /\ \A g \in dpb' : \A k \in needs'[g] \union {g} : k \in decoded'
                         \/ q.n <= k
    BY DEF StartCuts, Start
  <2>1. q.n <= frameNr /\ \A p \in net : p.n < frameNr
    BY <1>b, <1>c DEF Numbers, Typed
  <2>2. \A k \in needs'[frameNr] : k \in decoded \/ q.n <= k
    <3>1. q \in net
      BY <1>b DEF Start
    <3> QED BY <3>1, <1>b DEF StartCuts
  <2>3. ASSUME NEW p \in net', q.n <= p.n PROVE \A k \in needs'[p.n] : k \in decoded'
                 \/ q.n <= k
    <3>1. CASE p = r
      BY <3>1, <2>2, <1>b
    <3>2. CASE p \in net
      <4>1. q \in net
        BY <3>2, <2>1, <2>3, <1>b, <1>c DEF Typed
      <4> QED BY <3>2, <4>1, <2>3, <1>b DEF StartCuts
    <3> QED BY <3>1, <3>2, <1>b
  <2>4. ASSUME NEW g \in dpb' PROVE \A k \in needs'[g] \union {g} : k \in decoded' \/ q.n <= k
    <3>1. CASE g = frameNr
      BY <3>1, <2>1, <2>2, <1>b
    <3>2. CASE g \in dpb
      <4>1. q \in net
        BY <1>b DEF Start
      <4> QED BY <3>2, <4>1, <1>b DEF StartCuts
    <3> QED BY <3>1, <3>2, <1>b
  <2> QED BY <2>3, <2>4
<1>11. GapsWait'
  <2> SUFFICES ASSUME ~overwritten'
               PROVE  /\ \A p \in net' : \A k \in needs'[p.n] : Missed(k) => waiting
                      /\ \A g \in dpb' : \A k \in needs'[g] \union {g} : Missed(k) => waiting
    BY <1>b DEF GapsWait, Missed
  <2>1. ~Missed(frameNr)
    BY <1>c DEF Missed, Numbers, Typed
  <2>2. \A k \in needs'[frameNr] : Missed(k) => waiting
    BY <1>b DEF GapsWait
  <2>3. ASSUME NEW p \in net' PROVE \A k \in needs'[p.n] : Missed(k) => waiting
    <3>1. CASE p = r
      BY <3>1, <2>2, <1>b
    <3>2. CASE p \in net
      BY <3>2, <1>b DEF GapsWait
    <3> QED BY <3>1, <3>2, <1>b
  <2>4. ASSUME NEW g \in dpb' PROVE \A k \in needs'[g] \union {g} : Missed(k) => waiting
    <3>1. CASE g = frameNr
      BY <3>1, <2>1, <2>2
    <3>2. CASE g # frameNr
      BY <3>2, <1>b DEF GapsWait
    <3> QED BY <3>1, <3>2
  <2> QED BY <2>3, <2>4
<1>12. DecodesWhole'
  BY <1>b, <1>c DEF DecodesWhole, Typed
<1> QED BY <1>1, <1>2, <1>3, <1>4, <1>5, <1>6, <1>7, <1>8, <1>9, <1>10, <1>11, <1>12 DEF
   RefsInv

\* A fresh start is taken as it comes, ...
LEMMA TakesStart ==
  ASSUME RefsInv, NEW p \in net, \A q \in net : p.n <= q.n, Arrive(p), net' = net \ {p},
         UNCHANGED <<encoder, pc, frameNr, idrEvent, rfiEvent, codecVars, needs, overwritten,
                     restarts>>, p.type # "normal", next >= p.n
  PROVE  RefsInv'
<1> USE DEF RefsInv
<1>b. /\ p \in net /\ (\A q \in net : p.n <= q.n) /\ net' = net \ {p} /\ next' = p.n + 1
      /\ (\A q \in net' : q \in net /\ q # p) /\ (\A q \in net : q = p \/ q \in net')
      /\ p.n \in 1..MaxFrame /\ p.type \in {"idr", "recovery", "normal"} /\ next <= p.n
         /\ next = p.n /\ control' = control
      /\ ~waiting' /\ waiting' \in BOOLEAN /\ decoded' = decoded \union {p.n}
      /\ (\A k : k \in decoded => k \in decoded') /\ p.n \in decoded'
      /\ (\A k \in decoded' : k \in decoded \/ k = p.n) /\ Start(p)
      /\ encoder' = encoder /\ pc' = pc /\ frameNr' = frameNr /\ idrEvent' = idrEvent
      /\ rfiEvent' = rfiEvent /\ force' = force /\ confirm' = confirm
      /\ lastRange' = lastRange /\ lastEncoded' = lastEncoded /\ dpb' = dpb
      /\ needs' = needs /\ overwritten' = overwritten
  <2>1. /\ p.n \in 1..MaxFrame /\ p.type \in {"idr", "recovery", "normal"} /\ next <= p.n
        /\ control \in Seq(Message) /\ next \in 1..(MaxFrame + 1) /\ waiting \in BOOLEAN
    BY DEF TypeOK, Numbers
  <2>2. ~waiting' /\ waiting' \in BOOLEAN
    BY <2>1 DEF Arrive
  <2>3. decoded' = decoded \union {p.n}
    BY <2>1 DEF Arrive
  <2>4. next' = p.n + 1
    BY DEF Arrive
  <2>5. control' = control /\ next = p.n
    BY <2>1 DEF Arrive
  <2> QED BY <2>1, <2>2, <2>3, <2>4, <2>5 DEF codecVars, Start
<1>c. Typed
  BY TypesAre
<1>d. (Pending' <=> Pending) /\ \A f : Covered(f)' <=> Covered(f)
  BY <1>b DEF Pending, Covered, Waits, Effective
<1>1. TypeOK'
  <2>1. rfiEvent' \in (0..MaxFrame) \X (0..MaxFrame)
          /\ lastRange' \in (0..MaxFrame) \X (0..MaxFrame)
    BY <1>b, <1>c, MessageIs DEF TypeOK, NoRange, Typed
  <2>2. /\ idrEvent' \in BOOLEAN /\ force' \in BOOLEAN /\ confirm' \in BOOLEAN
        /\ overwritten' \in BOOLEAN /\ waiting' \in BOOLEAN
    BY <1>b DEF TypeOK
  <2>3. /\ encoder' \in Encoders /\ pc' \in {"make", "top", "encode"}
        /\ frameNr' \in 1..(MaxFrame + 1) /\ next' \in 1..(MaxFrame + 1)
        /\ lastEncoded' \in 0..MaxFrame
    BY <1>b DEF TypeOK
  <2>4. dpb' \subseteq 1..MaxFrame /\ decoded' \subseteq 1..MaxFrame
    BY <1>b DEF TypeOK
  <2>5. /\ needs' \in [1..MaxFrame -> SUBSET (1..MaxFrame)]
        /\ net' \subseteq [n : 1..MaxFrame, type : {"idr", "recovery", "normal"}]
        /\ control' \in Seq(Message)
    BY <1>b DEF TypeOK
  <2> QED BY <2>1, <2>2, <2>3, <2>4, <2>5 DEF TypeOK
<1>2. Messages'
  BY <1>b, <1>c DEF Messages, NoRange, Typed
<1>3. Numbers'
  <2>1. p.n < frameNr /\ next' <= frameNr' /\ lastEncoded' < frameNr'
    BY <1>b, <1>c DEF Numbers, Typed
  <2>2. ASSUME NEW q \in net' PROVE next' <= q.n /\ q.n < frameNr'
    <3>1. q \in net /\ q # p /\ p.n <= q.n /\ q.n < frameNr
      BY <1>b DEF Numbers
    <3>2. q.n # p.n
      BY <3>1, <1>b DEF Numbers
    <3> QED BY <3>1, <3>2, <1>b, <1>c DEF Typed
  <2>3. \A q, u \in net' : q.n = u.n => q = u
    BY <1>b DEF Numbers
  <2>4. ASSUME NEW k \in decoded' PROVE k \in 1..(next' - 1)
    <3>1. CASE k \in decoded
      BY <3>1, <1>b, <1>c DEF Numbers, Typed
    <3>2. CASE k = p.n
      BY <3>2, <1>b
    <3> QED BY <3>1, <3>2, <1>b
  <2>5. /\ \A n \in 1..MaxFrame : needs'[n] \subseteq 1..(n - 1)
        /\ \A f \in dpb' : f < frameNr'
        /\ pc' # "make" => \/ lastEncoded' = frameNr' - 1
                           \/ lastEncoded' = 0 /\ dpb' = {}
    BY <1>b DEF Numbers
  <2> QED BY <2>1, <2>2, <2>3, <2>4, <2>5 DEF Numbers
<1>4. Ranges'
  BY <1>b, <1>c DEF Ranges, Live, Start, NoRange, Numbers, Messages, Typed
<1>5. Helped'
  BY SMTT(40), <1>b, <1>c DEF Helped, Live, Start, Hole, Pending, Waits, Effective, NoRange,
     Messages, Numbers, Ranges, Typed
<1>6. MissedIsReported'
  <2> SUFFICES ASSUME ~overwritten', Live', NEW f \in dpb', Missed(f)' PROVE Covered(f)'
    BY DEF MissedIsReported
  <2>1. f \in dpb /\ f \notin decoded /\ f < next /\ Live /\ ~overwritten
    BY <1>b, <1>c DEF Missed, Live, Typed
  <2> QED BY <2>1, <1>d DEF MissedIsReported, Missed
<1>7. AheadIsCovered'
  BY <1>b, <1>c DEF AheadIsCovered, Live, Start, Hole, Covered, Waits, Effective, NoRange,
     Messages, Numbers, Ranges, Typed
<1>8. RecoveryIsClean'
  BY <1>b, <1>c DEF RecoveryIsClean, Live, Typed
<1>9. StartIsWhole'
  BY <1>b, <1>c DEF StartIsWhole, Start, Live, Typed
<1>10. StartCuts'
  BY <1>b, <1>c DEF StartCuts, Start, Live, Typed
<1>11. GapsWait'
  <2> SUFFICES ASSUME ~overwritten'
               PROVE  /\ \A q \in net' : \A k \in needs'[q.n] : ~Missed(k)'
                      /\ Live' => \A g \in dpb' : \A k \in needs'[g] \union {g} : ~Missed(k)'
    BY <1>b DEF GapsWait
  <2>1. \A k \in Nat : k \in decoded \/ p.n <= k => ~Missed(k)'
    BY <1>b, <1>c DEF Missed, Typed
  <2>2. \A n \in 1..MaxFrame : needs[n] \subseteq Nat
    BY DEF TypeOK
  <2>3. \A q \in net : p.n <= q.n => \A k \in needs[q.n] : k \in decoded \/ p.n <= k
    BY <1>b DEF StartCuts
  <2>4. Live => \A g \in dpb : \A k \in needs[g] \union {g} : k \in decoded \/ p.n <= k
    BY <1>b DEF StartCuts
  <2>5. \A q \in net' : \A k \in needs'[q.n] : ~Missed(k)'
    BY <2>1, <2>2, <2>3, <1>b, <1>c DEF Typed
  <2>6. Live' => \A g \in dpb' : \A k \in needs'[g] \union {g} : ~Missed(k)'
    BY <2>1, <2>2, <2>4, <1>b, <1>c DEF Live, Typed
  <2> QED BY <2>5, <2>6
<1>12. DecodesWhole'
  BY SMTT(40), <1>b, <1>c DEF DecodesWhole, Numbers, GapsWait, StartIsWhole, Start, Missed, Typed
<1> QED BY <1>1, <1>2, <1>3, <1>4, <1>5, <1>6, <1>7, <1>8, <1>9, <1>10, <1>11, <1>12 DEF
   RefsInv

\* ... and so is the frame that follows the last one, ...
LEMMA TakesNext ==
  ASSUME RefsInv, NEW p \in net, \A q \in net : p.n <= q.n, Arrive(p), net' = net \ {p},
         UNCHANGED <<encoder, pc, frameNr, idrEvent, rfiEvent, codecVars, needs, overwritten,
                     restarts>>, p.type = "normal", ~(next < p.n), ~waiting
  PROVE  RefsInv'
<1> USE DEF RefsInv
<1>b. /\ p \in net /\ (\A q \in net : p.n <= q.n) /\ net' = net \ {p} /\ next' = p.n + 1
      /\ (\A q \in net' : q \in net /\ q # p) /\ (\A q \in net : q = p \/ q \in net')
      /\ p.n \in 1..MaxFrame /\ p.type \in {"idr", "recovery", "normal"} /\ next <= p.n
         /\ next = p.n /\ control' = control
      /\ ~waiting' /\ waiting' \in BOOLEAN /\ decoded' = decoded \union {p.n}
      /\ (\A k : k \in decoded => k \in decoded') /\ p.n \in decoded'
      /\ (\A k \in decoded' : k \in decoded \/ k = p.n) /\ ~waiting /\ ~Start(p)
      /\ encoder' = encoder /\ pc' = pc /\ frameNr' = frameNr /\ idrEvent' = idrEvent
      /\ rfiEvent' = rfiEvent /\ force' = force /\ confirm' = confirm
      /\ lastRange' = lastRange /\ lastEncoded' = lastEncoded /\ dpb' = dpb
      /\ needs' = needs /\ overwritten' = overwritten
  <2>1. /\ p.n \in 1..MaxFrame /\ p.type \in {"idr", "recovery", "normal"} /\ next <= p.n
        /\ control \in Seq(Message) /\ next \in 1..(MaxFrame + 1) /\ waiting \in BOOLEAN
    BY DEF TypeOK, Numbers
  <2>2. ~waiting' /\ waiting' \in BOOLEAN
    BY <2>1 DEF Arrive
  <2>3. decoded' = decoded \union {p.n}
    BY <2>1 DEF Arrive
  <2>4. next' = p.n + 1
    BY DEF Arrive
  <2>5. control' = control /\ next = p.n
    BY <2>1 DEF Arrive
  <2> QED BY <2>1, <2>2, <2>3, <2>4, <2>5 DEF codecVars, Start
<1>c. Typed
  BY TypesAre
<1>d. (Pending' <=> Pending) /\ \A f : Covered(f)' <=> Covered(f)
  BY <1>b DEF Pending, Covered, Waits, Effective
<1>1. TypeOK'
  <2>1. rfiEvent' \in (0..MaxFrame) \X (0..MaxFrame)
          /\ lastRange' \in (0..MaxFrame) \X (0..MaxFrame)
    BY <1>b, <1>c, MessageIs DEF TypeOK, NoRange, Typed
  <2>2. /\ idrEvent' \in BOOLEAN /\ force' \in BOOLEAN /\ confirm' \in BOOLEAN
        /\ overwritten' \in BOOLEAN /\ waiting' \in BOOLEAN
    BY <1>b DEF TypeOK
  <2>3. /\ encoder' \in Encoders /\ pc' \in {"make", "top", "encode"}
        /\ frameNr' \in 1..(MaxFrame + 1) /\ next' \in 1..(MaxFrame + 1)
        /\ lastEncoded' \in 0..MaxFrame
    BY <1>b DEF TypeOK
  <2>4. dpb' \subseteq 1..MaxFrame /\ decoded' \subseteq 1..MaxFrame
    BY <1>b DEF TypeOK
  <2>5. /\ needs' \in [1..MaxFrame -> SUBSET (1..MaxFrame)]
        /\ net' \subseteq [n : 1..MaxFrame, type : {"idr", "recovery", "normal"}]
        /\ control' \in Seq(Message)
    BY <1>b DEF TypeOK
  <2> QED BY <2>1, <2>2, <2>3, <2>4, <2>5 DEF TypeOK
<1>2. Messages'
  BY <1>b, <1>c DEF Messages, NoRange, Typed
<1>3. Numbers'
  <2>1. p.n < frameNr /\ next' <= frameNr' /\ lastEncoded' < frameNr'
    BY <1>b, <1>c DEF Numbers, Typed
  <2>2. ASSUME NEW q \in net' PROVE next' <= q.n /\ q.n < frameNr'
    <3>1. q \in net /\ q # p /\ p.n <= q.n /\ q.n < frameNr
      BY <1>b DEF Numbers
    <3>2. q.n # p.n
      BY <3>1, <1>b DEF Numbers
    <3> QED BY <3>1, <3>2, <1>b, <1>c DEF Typed
  <2>3. \A q, u \in net' : q.n = u.n => q = u
    BY <1>b DEF Numbers
  <2>4. ASSUME NEW k \in decoded' PROVE k \in 1..(next' - 1)
    <3>1. CASE k \in decoded
      BY <3>1, <1>b, <1>c DEF Numbers, Typed
    <3>2. CASE k = p.n
      BY <3>2, <1>b
    <3> QED BY <3>1, <3>2, <1>b
  <2>5. /\ \A n \in 1..MaxFrame : needs'[n] \subseteq 1..(n - 1)
        /\ \A f \in dpb' : f < frameNr'
        /\ pc' # "make" => \/ lastEncoded' = frameNr' - 1
                           \/ lastEncoded' = 0 /\ dpb' = {}
    BY <1>b DEF Numbers
  <2> QED BY <2>1, <2>2, <2>3, <2>4, <2>5 DEF Numbers
<1>4. Ranges'
  BY <1>b, <1>c DEF Ranges, Live, Start, NoRange, Numbers, Messages, Typed
<1>5. Helped'
  BY SMTT(40), <1>b, <1>c DEF Helped, Live, Start, Hole, Pending, Waits, Effective, NoRange,
     Messages, Numbers, Ranges, Typed
<1>6. MissedIsReported'
  <2> SUFFICES ASSUME ~overwritten', Live', NEW f \in dpb', Missed(f)' PROVE Covered(f)'
    BY DEF MissedIsReported
  <2>1. f \in dpb /\ f \notin decoded /\ f < next /\ Live /\ ~overwritten
    BY <1>b, <1>c DEF Missed, Live, Typed
  <2> QED BY <2>1, <1>d DEF MissedIsReported, Missed
<1>7. AheadIsCovered'
  BY <1>b, <1>c DEF AheadIsCovered, Live, Start, Hole, Covered, Waits, Effective, NoRange,
     Messages, Numbers, Ranges, Typed
<1>8. RecoveryIsClean'
  BY <1>b, <1>c DEF RecoveryIsClean, Live, Typed
<1>9. StartIsWhole'
  BY <1>b, <1>c DEF StartIsWhole, Start, Live, Typed
<1>10. StartCuts'
  BY <1>b, <1>c DEF StartCuts, Start, Live, Typed
<1>11. GapsWait'
  <2> SUFFICES ASSUME ~overwritten'
               PROVE  /\ \A q \in net' : \A k \in needs'[q.n] : ~Missed(k)'
                      /\ Live' => \A g \in dpb' : \A k \in needs'[g] \union {g} : ~Missed(k)'
    BY <1>b DEF GapsWait
  <2>1. \A k \in Nat : ~Missed(k) => ~Missed(k)'
    BY <1>b, <1>c DEF Missed, Typed
  <2>2. \A n \in 1..MaxFrame : needs[n] \subseteq Nat
    BY DEF TypeOK
  <2>3. \A q \in net : \A k \in needs[q.n] : ~Missed(k)
    BY <1>b DEF GapsWait
  <2>4. Live => \A g \in dpb : \A k \in needs[g] \union {g} : ~Missed(k)
    BY <1>b DEF GapsWait
  <2>5. \A q \in net' : \A k \in needs'[q.n] : ~Missed(k)'
    BY <2>1, <2>2, <2>3, <1>b, <1>c DEF Typed
  <2>6. Live' => \A g \in dpb' : \A k \in needs'[g] \union {g} : ~Missed(k)'
    BY <2>1, <2>2, <2>4, <1>b, <1>c DEF Live, Typed
  <2> QED BY <2>5, <2>6
<1>12. DecodesWhole'
  BY SMTT(40), <1>b, <1>c DEF DecodesWhole, Numbers, GapsWait, StartIsWhole, Start, Missed, Typed
<1> QED BY <1>1, <1>2, <1>3, <1>4, <1>5, <1>6, <1>7, <1>8, <1>9, <1>10, <1>11, <1>12 DEF
   RefsInv

\* ... a fresh start behind a gap with a report of the gap.
LEMMA TakesAfterGap ==
  ASSUME RefsInv, NEW p \in net, \A q \in net : p.n <= q.n, Arrive(p), net' = net \ {p},
         UNCHANGED <<encoder, pc, frameNr, idrEvent, rfiEvent, codecVars, needs, overwritten,
                     restarts>>, p.type # "normal", next < p.n
  PROVE  RefsInv'
<1> USE DEF RefsInv
<1>b. /\ p \in net /\ (\A q \in net : p.n <= q.n) /\ net' = net \ {p} /\ next' = p.n + 1
      /\ (\A q \in net' : q \in net /\ q # p) /\ (\A q \in net : q = p \/ q \in net')
      /\ p.n \in 1..MaxFrame /\ p.type \in {"idr", "recovery", "normal"} /\ next <= p.n
         /\ next < p.n
      /\ control' \in Seq(Message) /\ Len(control') = Len(control) + 1
      /\ \A i \in 1..Len(control) : i \in 1..Len(control') /\ control'[i] = control[i]
      /\ \A i \in 1..Len(control') : i \in 1..Len(control) \/ i = Len(control) + 1
      /\ Len(control) + 1 \in 1..Len(control')
      /\ control'[Len(control) + 1].first = next /\ control'[Len(control) + 1].last = p.n - 1
      /\ control'[Len(control) + 1].kind \in {"rfi", "idr"}
      /\ ~waiting' /\ waiting' \in BOOLEAN /\ decoded' = decoded \union {p.n}
      /\ (\A k : k \in decoded => k \in decoded') /\ p.n \in decoded'
      /\ (\A k \in decoded' : k \in decoded \/ k = p.n) /\ Start(p)
      /\ encoder' = encoder /\ pc' = pc /\ frameNr' = frameNr /\ idrEvent' = idrEvent
      /\ rfiEvent' = rfiEvent /\ force' = force /\ confirm' = confirm
      /\ lastRange' = lastRange /\ lastEncoded' = lastEncoded /\ dpb' = dpb
      /\ needs' = needs /\ overwritten' = overwritten
  <2>1. /\ p.n \in 1..MaxFrame /\ p.type \in {"idr", "recovery", "normal"} /\ next <= p.n
        /\ control \in Seq(Message) /\ next \in 1..(MaxFrame + 1) /\ waiting \in BOOLEAN
    BY DEF TypeOK, Numbers
  <2>2. ~waiting' /\ waiting' \in BOOLEAN
    BY <2>1 DEF Arrive
  <2>3. decoded' = decoded \union {p.n}
    BY <2>1 DEF Arrive
  <2>4. next' = p.n + 1
    BY DEF Arrive
  <2> DEFINE m == [kind |-> IF encoder = "rfi" THEN "rfi" ELSE "idr", first |-> next,
                   last |-> p.n - 1]
  <2>5. m.first = next /\ m.last = p.n - 1 /\ m.kind \in {"rfi", "idr"}
    OBVIOUS
  <2>6. m \in Message
    BY <2>1 DEF Message
  <2>7. control' = Append(control, m)
    BY <2>1 DEF Arrive
  <2> HIDE DEF m
  <2>8. /\ control' \in Seq(Message) /\ Len(control') = Len(control) + 1
        /\ \A i \in 1..Len(control) : i \in 1..Len(control') /\ control'[i] = control[i]
        /\ \A i \in 1..Len(control') : i \in 1..Len(control) \/ i = Len(control) + 1
        /\ Len(control) + 1 \in 1..Len(control')
        /\ control'[Len(control) + 1] = m
    BY <2>1, <2>6, <2>7, AppendIs
  <2> QED BY <2>1, <2>2, <2>3, <2>4, <2>5, <2>8 DEF codecVars, Start
<1>c. Typed
  BY TypesAre
<1>d. /\ Pending => Pending'
      /\ \A f : Covered(f) => Covered(f)'
  <2>1. \A m : Effective(m)' <=> Effective(m)
    BY <1>b DEF Effective
  <2>2. Waits' <=> Waits
    BY <1>b DEF Waits
  <2> QED BY <1>b, <2>1, <2>2 DEF Pending, Covered, Effective
<1>e. lastRange[2] < p.n - 1 => /\ Pending'
                                /\ \A f : next <= f => Covered(f)'
  <2> DEFINE i == Len(control) + 1
  <2>1. lastRange[2] < p.n - 1 => control'[i].kind = "idr" \/ control'[i].last > lastRange'[2]
    BY <1>b DEF Effective
  <2> QED BY <1>b, <2>1 DEF Pending, Covered, Effective
<1>1. TypeOK'
  <2>1. rfiEvent' \in (0..MaxFrame) \X (0..MaxFrame)
          /\ lastRange' \in (0..MaxFrame) \X (0..MaxFrame)
    BY <1>b, <1>c, MessageIs DEF TypeOK, NoRange, Typed
  <2>2. /\ idrEvent' \in BOOLEAN /\ force' \in BOOLEAN /\ confirm' \in BOOLEAN
        /\ overwritten' \in BOOLEAN /\ waiting' \in BOOLEAN
    BY <1>b DEF TypeOK
  <2>3. /\ encoder' \in Encoders /\ pc' \in {"make", "top", "encode"}
        /\ frameNr' \in 1..(MaxFrame + 1) /\ next' \in 1..(MaxFrame + 1)
        /\ lastEncoded' \in 0..MaxFrame
    BY <1>b DEF TypeOK
  <2>4. dpb' \subseteq 1..MaxFrame /\ decoded' \subseteq 1..MaxFrame
    BY <1>b DEF TypeOK
  <2>5. /\ needs' \in [1..MaxFrame -> SUBSET (1..MaxFrame)]
        /\ net' \subseteq [n : 1..MaxFrame, type : {"idr", "recovery", "normal"}]
        /\ control' \in Seq(Message)
    BY <1>b DEF TypeOK
  <2> QED BY <2>1, <2>2, <2>3, <2>4, <2>5 DEF TypeOK
<1>2. Messages'
  <2>1. ASSUME NEW i \in 1..Len(control')
        PROVE  /\ control'[i].first <= next' /\ control'[i].last < next'
               /\ control'[i].kind = "rfi" => control'[i].first <= control'[i].last
    <3>1. CASE i \in 1..Len(control)
      <4>1. control'[i] = control[i] /\ next <= next' /\ next \in Nat /\ next' \in Nat
        BY SMTT(40), <3>1, <1>b, <1>c DEF Typed
      <4>2. /\ control[i].first <= next /\ control[i].last < next
            /\ control[i].kind = "rfi" => control[i].first <= control[i].last
        BY <3>1 DEF Messages
      <4>3. control[i].first \in Nat /\ control[i].last \in Nat
        BY <3>1, <1>c DEF Typed
      <4> QED BY ONLY <4>1, <4>2, <4>3
    <3>2. CASE i = Len(control) + 1
      BY SMTT(40), <3>2, <1>b, <1>c DEF Typed
    <3> QED BY <3>1, <3>2, <1>b
  <2>2. ASSUME NEW i \in 1..Len(control'), NEW j \in 1..Len(control'), i < j
        PROVE  control'[i].first <= control'[j].first /\ control'[i].last <= control'[j].last
    <3>1. i \in 1..Len(control) /\ control'[i] = control[i]
      BY SMTT(40), <2>2, <1>b, <1>c DEF Typed
    <3>2. CASE j \in 1..Len(control)
      BY <2>2, <3>1, <3>2, <1>b DEF Messages
    <3>3. CASE j = Len(control) + 1
      BY SMTT(40), <3>1, <3>3, <1>b, <1>c DEF Messages, Typed
    <3> QED BY <3>2, <3>3, <1>b
  <2>3. rfiEvent' # NoRange =>
          /\ 1 <= rfiEvent'[1] /\ rfiEvent'[1] <= rfiEvent'[2] /\ rfiEvent'[2] < next'
          /\ \A i \in 1..Len(control') :
               rfiEvent'[1] <= control'[i].first /\ rfiEvent'[2] <= control'[i].last
    <3>1. SUFFICES ASSUME rfiEvent # NoRange
                   PROVE  /\ 1 <= rfiEvent[1] /\ rfiEvent[1] <= rfiEvent[2]
                             /\ rfiEvent[2] < next'
                          /\ \A i \in 1..Len(control') :
                               rfiEvent[1] <= control'[i].first
                                 /\ rfiEvent[2] <= control'[i].last
      BY <1>b
    <3>2. 1 <= rfiEvent[1] /\ rfiEvent[1] <= rfiEvent[2] /\ rfiEvent[2] < next
      BY <3>1 DEF Messages
    <3>3. ASSUME NEW i \in 1..Len(control')
          PROVE  rfiEvent[1] <= control'[i].first /\ rfiEvent[2] <= control'[i].last
      <4>1. CASE i \in 1..Len(control)
        BY <4>1, <3>1, <1>b DEF Messages
      <4>2. CASE i = Len(control) + 1
        BY SMTT(40), <4>2, <3>2, <1>b, <1>c DEF Typed
      <4> QED BY <4>1, <4>2, <1>b
    <3>4. next <= next' /\ next \in Nat /\ next' \in Nat /\ rfiEvent[2] \in Nat
      BY <1>b, <1>c DEF Typed
    <3>5. rfiEvent[2] < next'
      BY ONLY <3>2, <3>4
    <3> QED BY ONLY <3>2, <3>3, <3>5
  <2> QED BY <2>1, <2>2, <2>3 DEF Messages
<1>3. Numbers'
  <2>1. p.n < frameNr /\ next' <= frameNr' /\ lastEncoded' < frameNr'
    BY <1>b, <1>c DEF Numbers, Typed
  <2>2. ASSUME NEW q \in net' PROVE next' <= q.n /\ q.n < frameNr'
    <3>1. q \in net /\ q # p /\ p.n <= q.n /\ q.n < frameNr
      BY <1>b DEF Numbers
    <3>2. q.n # p.n
      BY <3>1, <1>b DEF Numbers
    <3> QED BY SMTT(40), <3>1, <3>2, <1>b, <1>c DEF Typed
  <2>3. \A q, u \in net' : q.n = u.n => q = u
    BY <1>b DEF Numbers
  <2>4. ASSUME NEW k \in decoded' PROVE k \in 1..(next' - 1)
    <3>1. CASE k \in decoded
      BY SMTT(40), <3>1, <1>b, <1>c DEF Numbers, Typed
    <3>2. CASE k = p.n
      BY <3>2, <1>b
    <3> QED BY <3>1, <3>2, <1>b
  <2>5. /\ \A n \in 1..MaxFrame : needs'[n] \subseteq 1..(n - 1)
        /\ \A f \in dpb' : f < frameNr'
        /\ pc' # "make" => \/ lastEncoded' = frameNr' - 1
                           \/ lastEncoded' = 0 /\ dpb' = {}
    BY <1>b DEF Numbers
  <2> QED BY <2>1, <2>2, <2>3, <2>4, <2>5 DEF Numbers
<1>4. Ranges'
  BY SMTT(40), <1>b, <1>c DEF Ranges, Live, Start, NoRange, Numbers, Messages, Typed
<1>5. Helped'
  BY SMTT(40), <1>b, <1>c DEF Helped, Live, Start, Hole, Pending, Waits, Effective, NoRange,
     Messages, Numbers, Ranges, Typed
<1>6. MissedIsReported'
  <2> SUFFICES ASSUME ~overwritten', Live', NEW f \in dpb', Missed(f)' PROVE Covered(f)'
    BY DEF MissedIsReported
  <2>1. f \in dpb /\ f \notin decoded /\ f < p.n /\ f \in Nat /\ Live /\ ~overwritten
    BY SMTT(40), <1>b, <1>c DEF Missed, Live, Typed
  <2>2. CASE f < next
    BY <2>1, <2>2, <1>d DEF MissedIsReported, Missed
  <2>3. CASE next <= f
    <3>1. lastRange[2] < p.n - 1
      <4>1. lastRange[1] < next /\ (f < lastRange[1] \/ f > lastRange[2])
        BY <2>1, <1>b DEF Ranges
      <4> QED BY SMTT(40), <4>1, <2>1, <2>3, <1>b, <1>c DEF Typed
    <3> QED BY <3>1, <2>3, <1>e
  <2> QED BY <2>1, <2>2, <2>3, <1>c DEF Typed
<1>7. AheadIsCovered'
  BY <1>b, <1>c DEF AheadIsCovered, Live, Start, Hole, Covered, Waits, Effective, NoRange,
     Messages, Numbers, Ranges, Typed
<1>8. RecoveryIsClean'
  BY <1>b, <1>c DEF RecoveryIsClean, Live, Typed
<1>9. StartIsWhole'
  BY SMTT(40), <1>b, <1>c DEF StartIsWhole, Start, Live, Typed
<1>10. StartCuts'
  BY SMTT(40), <1>b, <1>c DEF StartCuts, Start, Live, Typed
<1>11. GapsWait'
  <2> SUFFICES ASSUME ~overwritten'
               PROVE  /\ \A q \in net' : \A k \in needs'[q.n] : ~Missed(k)'
                      /\ Live' => \A g \in dpb' : \A k \in needs'[g] \union {g} : ~Missed(k)'
    BY <1>b DEF GapsWait
  <2>1. \A k \in Nat : k \in decoded \/ p.n <= k => ~Missed(k)'
    BY <1>b, <1>c DEF Missed, Typed
  <2>2. \A n \in 1..MaxFrame : needs[n] \subseteq Nat
    BY DEF TypeOK
  <2>3. \A q \in net : p.n <= q.n => \A k \in needs[q.n] : k \in decoded \/ p.n <= k
    BY <1>b DEF StartCuts
  <2>4. Live => \A g \in dpb : \A k \in needs[g] \union {g} : k \in decoded \/ p.n <= k
    BY <1>b DEF StartCuts
  <2>5. \A q \in net' : \A k \in needs'[q.n] : ~Missed(k)'
    BY <2>1, <2>2, <2>3, <1>b, <1>c DEF Typed
  <2>6. Live' => \A g \in dpb' : \A k \in needs'[g] \union {g} : ~Missed(k)'
    BY <2>1, <2>2, <2>4, <1>b, <1>c DEF Live, Typed
  <2> QED BY <2>5, <2>6
<1>12. DecodesWhole'
  BY SMTT(40), <1>b, <1>c DEF DecodesWhole, Numbers, GapsWait, StartIsWhole, Start, Missed, Typed
<1> QED BY <1>1, <1>2, <1>3, <1>4, <1>5, <1>6, <1>7, <1>8, <1>9, <1>10, <1>11, <1>12 DEF
   RefsInv

\* A client that waits leaves a normal frame alone, ...
LEMMA Skips ==
  ASSUME RefsInv, NEW p \in net, \A q \in net : p.n <= q.n, Arrive(p), net' = net \ {p},
         UNCHANGED <<encoder, pc, frameNr, idrEvent, rfiEvent, codecVars, needs, overwritten,
                     restarts>>, p.type = "normal", next >= p.n, waiting
  PROVE  RefsInv'
<1> USE DEF RefsInv
<1>b. /\ p \in net /\ (\A q \in net : p.n <= q.n) /\ net' = net \ {p} /\ next' = p.n + 1
      /\ (\A q \in net' : q \in net /\ q # p) /\ (\A q \in net : q = p \/ q \in net')
      /\ p.n \in 1..MaxFrame /\ p.type \in {"idr", "recovery", "normal"} /\ next <= p.n
         /\ next = p.n /\ control' = control
      /\ waiting' /\ waiting' \in BOOLEAN /\ decoded' = decoded /\ p.type = "normal"
         /\ waiting /\ ~Start(p)
      /\ encoder' = encoder /\ pc' = pc /\ frameNr' = frameNr /\ idrEvent' = idrEvent
      /\ rfiEvent' = rfiEvent /\ force' = force /\ confirm' = confirm
      /\ lastRange' = lastRange /\ lastEncoded' = lastEncoded /\ dpb' = dpb
      /\ needs' = needs /\ overwritten' = overwritten
  <2>1. /\ p.n \in 1..MaxFrame /\ p.type \in {"idr", "recovery", "normal"} /\ next <= p.n
        /\ control \in Seq(Message) /\ next \in 1..(MaxFrame + 1) /\ waiting \in BOOLEAN
    BY DEF TypeOK, Numbers
  <2>2. waiting' /\ waiting' \in BOOLEAN
    BY <2>1 DEF Arrive
  <2>3. decoded' = decoded
    BY <2>1 DEF Arrive
  <2>4. next' = p.n + 1
    BY DEF Arrive
  <2>5. control' = control /\ next = p.n
    BY <2>1 DEF Arrive
  <2> QED BY <2>1, <2>2, <2>3, <2>4, <2>5 DEF codecVars, Start
<1>c. Typed
  BY TypesAre
<1>d. (Pending' <=> Pending) /\ \A f : Covered(f)' <=> Covered(f)
  BY <1>b DEF Pending, Covered, Waits, Effective
<1>1. TypeOK'
  <2>1. rfiEvent' \in (0..MaxFrame) \X (0..MaxFrame)
          /\ lastRange' \in (0..MaxFrame) \X (0..MaxFrame)
    BY <1>b, <1>c, MessageIs DEF TypeOK, NoRange, Typed
  <2>2. /\ idrEvent' \in BOOLEAN /\ force' \in BOOLEAN /\ confirm' \in BOOLEAN
        /\ overwritten' \in BOOLEAN /\ waiting' \in BOOLEAN
    BY <1>b DEF TypeOK
  <2>3. /\ encoder' \in Encoders /\ pc' \in {"make", "top", "encode"}
        /\ frameNr' \in 1..(MaxFrame + 1) /\ next' \in 1..(MaxFrame + 1)
        /\ lastEncoded' \in 0..MaxFrame
    BY <1>b DEF TypeOK
  <2>4. dpb' \subseteq 1..MaxFrame /\ decoded' \subseteq 1..MaxFrame
    BY <1>b DEF TypeOK
  <2>5. /\ needs' \in [1..MaxFrame -> SUBSET (1..MaxFrame)]
        /\ net' \subseteq [n : 1..MaxFrame, type : {"idr", "recovery", "normal"}]
        /\ control' \in Seq(Message)
    BY <1>b DEF TypeOK
  <2> QED BY <2>1, <2>2, <2>3, <2>4, <2>5 DEF TypeOK
<1>2. Messages'
  BY SMTT(40), <1>b, <1>c DEF Messages, NoRange, Typed
<1>3. Numbers'
  <2>1. p.n < frameNr /\ next' <= frameNr' /\ lastEncoded' < frameNr'
    BY <1>b, <1>c DEF Numbers, Typed
  <2>2. ASSUME NEW q \in net' PROVE next' <= q.n /\ q.n < frameNr'
    <3>1. q \in net /\ q # p /\ p.n <= q.n /\ q.n < frameNr
      BY <1>b DEF Numbers
    <3>2. q.n # p.n
      BY <3>1, <1>b DEF Numbers
    <3> QED BY <3>1, <3>2, <1>b, <1>c DEF Typed
  <2>3. \A q, u \in net' : q.n = u.n => q = u
    BY <1>b DEF Numbers
  <2>4. decoded' \subseteq 1..(next' - 1)
    <3>1. decoded \subseteq 1..(next - 1)
      BY DEF Numbers
    <3> QED BY <3>1, <1>b, <1>c DEF Typed
  <2>5. /\ \A n \in 1..MaxFrame : needs'[n] \subseteq 1..(n - 1)
        /\ \A f \in dpb' : f < frameNr'
        /\ pc' # "make" => \/ lastEncoded' = frameNr' - 1
                           \/ lastEncoded' = 0 /\ dpb' = {}
    BY <1>b DEF Numbers
  <2> QED BY <2>1, <2>2, <2>3, <2>4, <2>5 DEF Numbers
<1>4. Ranges'
  BY <1>b, <1>c DEF Ranges, Live, Start, NoRange, Numbers, Messages, Typed
<1>5. Helped'
  <2> SUFFICES ASSUME Live', ~confirm', lastEncoded' # 0, ~Pending',
                      \A k \in next'..(frameNr' - 1) : ~Hole(k)'
               PROVE  \E q \in net' : Start(q)
    BY DEF Helped, Start
  <2>1. \A k \in next..(frameNr - 1) : ~Hole(k)
    BY <1>b, <1>c DEF Hole, Typed
  <2> QED BY <2>1, <1>b, <1>d DEF Helped, Live
<1>6. MissedIsReported'
  <2> SUFFICES ASSUME ~overwritten', Live', NEW f \in dpb', Missed(f)' PROVE Covered(f)'
    BY DEF MissedIsReported
  <2>1. f \in dpb /\ f \notin decoded /\ f <= next /\ f \in Nat /\ Live /\ ~overwritten
    BY <1>b, <1>c DEF Missed, Live, Typed
  <2>2. CASE f < next
    BY <2>1, <2>2, <1>d DEF MissedIsReported, Missed
  <2>3. CASE f = next
    <3>1. ASSUME NEW q \in net, Start(q), q.n <= f PROVE FALSE
      <4>1. q.n = p.n
        BY <2>3, <3>1, <1>b, <1>c DEF Typed
      <4> QED BY <3>1, <4>1, <1>b DEF Numbers
    <3>2. ASSUME NEW k \in next..f, Hole(k) PROVE FALSE
      BY <2>3, <3>2, <1>b, <1>c DEF Hole, Typed
    <3> QED BY <2>1, <2>3, <3>1, <3>2, <1>b, <1>d DEF AheadIsCovered
  <2> QED BY <2>1, <2>2, <2>3, <1>c DEF Typed
<1>7. AheadIsCovered'
  <2> SUFFICES ASSUME ~overwritten', Live', NEW f \in dpb', f >= next', ~Covered(f)',
                      \A k \in next'..f : ~Hole(k)'
               PROVE  \E q \in net' : Start(q) /\ q.n <= f
    BY DEF AheadIsCovered, Start
  <2>1. f \in dpb /\ f >= next /\ f \in Nat /\ Live /\ ~overwritten
    BY <1>b, <1>c DEF Live, Typed
  <2>2. \A k \in next..f : ~Hole(k)
    BY <2>1, <1>b, <1>c DEF Hole, Typed
  <2> QED BY <2>1, <2>2, <1>b, <1>d DEF AheadIsCovered
<1>8. RecoveryIsClean'
  BY <1>b, <1>c DEF RecoveryIsClean, Live, Typed
<1>9. StartIsWhole'
  BY <1>b, <1>c DEF StartIsWhole, Start, Live, Typed
<1>10. StartCuts'
  BY <1>b, <1>c DEF StartCuts, Start, Live, Typed
<1>11. GapsWait'
  BY <1>b, <1>c DEF GapsWait, Start, Live, Missed, Numbers, StartCuts, Typed
<1>12. DecodesWhole'
  BY <1>b, <1>c DEF DecodesWhole, Numbers, GapsWait, StartIsWhole, Start, Missed, Typed
<1> QED BY <1>1, <1>2, <1>3, <1>4, <1>5, <1>6, <1>7, <1>8, <1>9, <1>10, <1>11, <1>12 DEF
   RefsInv

\* ... and one that meets a gap reports it and begins to wait.
LEMMA SkipsAfterGap ==
  ASSUME RefsInv, NEW p \in net, \A q \in net : p.n <= q.n, Arrive(p), net' = net \ {p},
         UNCHANGED <<encoder, pc, frameNr, idrEvent, rfiEvent, codecVars, needs, overwritten,
                     restarts>>, p.type = "normal", next < p.n
  PROVE  RefsInv'
<1> USE DEF RefsInv
<1>b. /\ p \in net /\ (\A q \in net : p.n <= q.n) /\ net' = net \ {p} /\ next' = p.n + 1
      /\ (\A q \in net' : q \in net /\ q # p) /\ (\A q \in net : q = p \/ q \in net')
      /\ p.n \in 1..MaxFrame /\ p.type \in {"idr", "recovery", "normal"} /\ next <= p.n
         /\ next < p.n
      /\ control' \in Seq(Message) /\ Len(control') = Len(control) + 1
      /\ \A i \in 1..Len(control) : i \in 1..Len(control') /\ control'[i] = control[i]
      /\ \A i \in 1..Len(control') : i \in 1..Len(control) \/ i = Len(control) + 1
      /\ Len(control) + 1 \in 1..Len(control')
      /\ control'[Len(control) + 1].first = next /\ control'[Len(control) + 1].last = p.n - 1
      /\ control'[Len(control) + 1].kind \in {"rfi", "idr"}
      /\ waiting' /\ waiting' \in BOOLEAN /\ decoded' = decoded /\ p.type = "normal"
         /\ ~Start(p)
      /\ encoder' = encoder /\ pc' = pc /\ frameNr' = frameNr /\ idrEvent' = idrEvent
      /\ rfiEvent' = rfiEvent /\ force' = force /\ confirm' = confirm
      /\ lastRange' = lastRange /\ lastEncoded' = lastEncoded /\ dpb' = dpb
      /\ needs' = needs /\ overwritten' = overwritten
  <2>1. /\ p.n \in 1..MaxFrame /\ p.type \in {"idr", "recovery", "normal"} /\ next <= p.n
        /\ control \in Seq(Message) /\ next \in 1..(MaxFrame + 1) /\ waiting \in BOOLEAN
    BY DEF TypeOK, Numbers
  <2>2. waiting' /\ waiting' \in BOOLEAN
    BY <2>1 DEF Arrive
  <2>3. decoded' = decoded
    BY <2>1 DEF Arrive
  <2>4. next' = p.n + 1
    BY DEF Arrive
  <2> DEFINE m == [kind |-> IF encoder = "rfi" THEN "rfi" ELSE "idr", first |-> next,
                   last |-> p.n - 1]
  <2>5. m.first = next /\ m.last = p.n - 1 /\ m.kind \in {"rfi", "idr"}
    OBVIOUS
  <2>6. m \in Message
    BY <2>1 DEF Message
  <2>7. control' = Append(control, m)
    BY <2>1 DEF Arrive
  <2> HIDE DEF m
  <2>8. /\ control' \in Seq(Message) /\ Len(control') = Len(control) + 1
        /\ \A i \in 1..Len(control) : i \in 1..Len(control') /\ control'[i] = control[i]
        /\ \A i \in 1..Len(control') : i \in 1..Len(control) \/ i = Len(control) + 1
        /\ Len(control) + 1 \in 1..Len(control')
        /\ control'[Len(control) + 1] = m
    BY <2>1, <2>6, <2>7, AppendIs
  <2> QED BY <2>1, <2>2, <2>3, <2>4, <2>5, <2>8 DEF codecVars, Start
<1>c. Typed
  BY TypesAre
<1>d. /\ Pending => Pending'
      /\ \A f : Covered(f) => Covered(f)'
  <2>1. \A m : Effective(m)' <=> Effective(m)
    BY <1>b DEF Effective
  <2>2. Waits' <=> Waits
    BY <1>b DEF Waits
  <2> QED BY <1>b, <2>1, <2>2 DEF Pending, Covered, Effective
<1>e. lastRange[2] < p.n - 1 => /\ Pending'
                                /\ \A f : next <= f => Covered(f)'
  <2> DEFINE i == Len(control) + 1
  <2>1. lastRange[2] < p.n - 1 => control'[i].kind = "idr" \/ control'[i].last > lastRange'[2]
    BY <1>b DEF Effective
  <2> QED BY <1>b, <2>1 DEF Pending, Covered, Effective
<1>1. TypeOK'
  <2>1. rfiEvent' \in (0..MaxFrame) \X (0..MaxFrame)
          /\ lastRange' \in (0..MaxFrame) \X (0..MaxFrame)
    BY <1>b, <1>c, MessageIs DEF TypeOK, NoRange, Typed
  <2>2. /\ idrEvent' \in BOOLEAN /\ force' \in BOOLEAN /\ confirm' \in BOOLEAN
        /\ overwritten' \in BOOLEAN /\ waiting' \in BOOLEAN
    BY <1>b DEF TypeOK
  <2>3. /\ encoder' \in Encoders /\ pc' \in {"make", "top", "encode"}
        /\ frameNr' \in 1..(MaxFrame + 1) /\ next' \in 1..(MaxFrame + 1)
        /\ lastEncoded' \in 0..MaxFrame
    BY <1>b DEF TypeOK
  <2>4. dpb' \subseteq 1..MaxFrame /\ decoded' \subseteq 1..MaxFrame
    BY <1>b DEF TypeOK
  <2>5. /\ needs' \in [1..MaxFrame -> SUBSET (1..MaxFrame)]
        /\ net' \subseteq [n : 1..MaxFrame, type : {"idr", "recovery", "normal"}]
        /\ control' \in Seq(Message)
    BY <1>b DEF TypeOK
  <2> QED BY <2>1, <2>2, <2>3, <2>4, <2>5 DEF TypeOK
<1>2. Messages'
  <2>1. ASSUME NEW i \in 1..Len(control')
        PROVE  /\ control'[i].first <= next' /\ control'[i].last < next'
               /\ control'[i].kind = "rfi" => control'[i].first <= control'[i].last
    <3>1. CASE i \in 1..Len(control)
      <4>1. control'[i] = control[i] /\ next <= next' /\ next \in Nat /\ next' \in Nat
        BY SMTT(40), <3>1, <1>b, <1>c DEF Typed
      <4>2. /\ control[i].first <= next /\ control[i].last < next
            /\ control[i].kind = "rfi" => control[i].first <= control[i].last
        BY <3>1 DEF Messages
      <4>3. control[i].first \in Nat /\ control[i].last \in Nat
        BY <3>1, <1>c DEF Typed
      <4> QED BY ONLY <4>1, <4>2, <4>3
    <3>2. CASE i = Len(control) + 1
      BY <3>2, <1>b, <1>c DEF Typed
    <3> QED BY <3>1, <3>2, <1>b
  <2>2. ASSUME NEW i \in 1..Len(control'), NEW j \in 1..Len(control'), i < j
        PROVE  control'[i].first <= control'[j].first /\ control'[i].last <= control'[j].last
    <3>1. i \in 1..Len(control) /\ control'[i] = control[i]
      BY SMTT(40), <2>2, <1>b, <1>c DEF Typed
    <3>2. CASE j \in 1..Len(control)
      BY <2>2, <3>1, <3>2, <1>b DEF Messages
    <3>3. CASE j = Len(control) + 1
      BY SMTT(40), <3>1, <3>3, <1>b, <1>c DEF Messages, Typed
    <3> QED BY <3>2, <3>3, <1>b
  <2>3. rfiEvent' # NoRange =>
          /\ 1 <= rfiEvent'[1] /\ rfiEvent'[1] <= rfiEvent'[2] /\ rfiEvent'[2] < next'
          /\ \A i \in 1..Len(control') :
               rfiEvent'[1] <= control'[i].first /\ rfiEvent'[2] <= control'[i].last
    <3>1. SUFFICES ASSUME rfiEvent # NoRange
                   PROVE  /\ 1 <= rfiEvent[1] /\ rfiEvent[1] <= rfiEvent[2]
                             /\ rfiEvent[2] < next'
                          /\ \A i \in 1..Len(control') :
                               rfiEvent[1] <= control'[i].first
                                 /\ rfiEvent[2] <= control'[i].last
      BY <1>b
    <3>2. 1 <= rfiEvent[1] /\ rfiEvent[1] <= rfiEvent[2] /\ rfiEvent[2] < next
      BY <3>1 DEF Messages
    <3>3. ASSUME NEW i \in 1..Len(control')
          PROVE  rfiEvent[1] <= control'[i].first /\ rfiEvent[2] <= control'[i].last
      <4>1. CASE i \in 1..Len(control)
        BY <4>1, <3>1, <1>b DEF Messages
      <4>2. CASE i = Len(control) + 1
        BY SMTT(40), <4>2, <3>2, <1>b, <1>c DEF Typed
      <4> QED BY <4>1, <4>2, <1>b
    <3>4. next <= next' /\ next \in Nat /\ next' \in Nat /\ rfiEvent[2] \in Nat
      BY <1>b, <1>c DEF Typed
    <3>5. rfiEvent[2] < next'
      BY ONLY <3>2, <3>4
    <3> QED BY ONLY <3>2, <3>3, <3>5
  <2> QED BY <2>1, <2>2, <2>3 DEF Messages
<1>3. Numbers'
  <2>1. p.n < frameNr /\ next' <= frameNr' /\ lastEncoded' < frameNr'
    BY <1>b, <1>c DEF Numbers, Typed
  <2>2. ASSUME NEW q \in net' PROVE next' <= q.n /\ q.n < frameNr'
    <3>1. q \in net /\ q # p /\ p.n <= q.n /\ q.n < frameNr
      BY <1>b DEF Numbers
    <3>2. q.n # p.n
      BY <3>1, <1>b DEF Numbers
    <3> QED BY SMTT(40), <3>1, <3>2, <1>b, <1>c DEF Typed
  <2>3. \A q, u \in net' : q.n = u.n => q = u
    BY <1>b DEF Numbers
  <2>4. decoded' \subseteq 1..(next' - 1)
    <3>1. decoded \subseteq 1..(next - 1)
      BY DEF Numbers
    <3> QED BY SMTT(40), <3>1, <1>b, <1>c DEF Typed
  <2>5. /\ \A n \in 1..MaxFrame : needs'[n] \subseteq 1..(n - 1)
        /\ \A f \in dpb' : f < frameNr'
        /\ pc' # "make" => \/ lastEncoded' = frameNr' - 1
                           \/ lastEncoded' = 0 /\ dpb' = {}
    BY <1>b DEF Numbers
  <2> QED BY <2>1, <2>2, <2>3, <2>4, <2>5 DEF Numbers
<1>4. Ranges'
  BY SMTT(40), <1>b, <1>c DEF Ranges, Live, Start, NoRange, Numbers, Messages, Typed
<1>5. Helped'
  <2>1. CASE lastRange[2] < p.n - 1
    BY <2>1, <1>e DEF Helped
  <2>2. CASE p.n - 1 <= lastRange[2]
    <3>1. p.n # lastRange[2] + 1 /\ lastRange[2] <= lastEncoded
      BY <1>b DEF Ranges
    <3>2. SUFFICES ASSUME Live', ~confirm', lastEncoded' # 0
                   PROVE  \/ \E q \in net' : Start(q)
                          \/ \E k \in next'..(frameNr' - 1) : Hole(k)'
      BY DEF Helped, Start
    <3>3. lastRange[2] # lastEncoded /\ lastEncoded = frameNr - 1
      BY <3>2, <1>b DEF Ranges, Numbers, Live
    <3>4. lastRange[2] + 1 \in next'..(frameNr' - 1) /\ p.n # lastRange[2] + 1
      <4>1. p.n \in Nat /\ lastRange[2] \in Nat /\ frameNr \in Nat /\ lastEncoded \in Nat
        BY <1>b, <1>c DEF Typed
      <4> QED BY ONLY SMTT(40), <4>1, <2>2, <3>1, <3>3, <1>b
    <3>5. CASE \E q \in net : q.n = lastRange[2] + 1
      BY <3>4, <3>5, <1>b DEF Ranges
    <3>6. CASE \A q \in net : q.n # lastRange[2] + 1
      BY <3>4, <3>6, <1>b DEF Hole
    <3> QED BY <3>5, <3>6
  <2> QED BY SMTT(40), <2>1, <2>2, <1>b, <1>c DEF Typed
<1>6. MissedIsReported'
  <2> SUFFICES ASSUME ~overwritten', Live', NEW f \in dpb', Missed(f)' PROVE Covered(f)'
    BY DEF MissedIsReported
  <2>1. f \in dpb /\ f \notin decoded /\ f <= p.n /\ f \in Nat /\ Live /\ ~overwritten
    BY <1>b, <1>c DEF Missed, Live, Typed
  <2>2. CASE f < next
    BY <2>1, <2>2, <1>d DEF MissedIsReported, Missed
  <2>3. CASE next <= f
    <3>1. lastRange[2] < p.n - 1
      <4>1. p.n # lastRange[2] + 1 /\ lastRange[1] < next /\ (f < lastRange[1]
              \/ f > lastRange[2])
        BY <2>1, <1>b DEF Ranges
      <4> QED BY SMTT(40), <4>1, <2>1, <2>3, <1>b, <1>c DEF Typed
    <3> QED BY <3>1, <2>3, <1>e
  <2> QED BY <2>1, <2>2, <2>3, <1>c DEF Typed
<1>7. AheadIsCovered'
  <2> SUFFICES ASSUME ~overwritten', Live', NEW f \in dpb', f >= next'
               PROVE  \/ Covered(f)'
                      \/ \E q \in net' : Start(q) /\ q.n <= f
                      \/ \E k \in next'..f : Hole(k)'
    BY DEF AheadIsCovered, Start
  <2>1. f \in dpb /\ f > p.n /\ f \in Nat /\ Live
    BY <1>b, <1>c DEF Live, Typed
  <2>2. CASE lastRange[2] < p.n - 1
    BY <2>1, <2>2, <1>b, <1>c, <1>e DEF Typed
  <2>3. CASE p.n - 1 <= lastRange[2]
    <3>1. p.n # lastRange[2] + 1 /\ lastRange[1] < next /\ (f < lastRange[1]
            \/ f > lastRange[2])
      BY <2>1, <1>b DEF Ranges
    <3>2. lastRange[2] + 1 \in next'..f
      <4>1. p.n \in Nat /\ lastRange[2] \in Nat /\ lastRange[1] \in Nat /\ next \in Nat
        BY <1>b, <1>c DEF Typed
      <4>2. next' = p.n + 1 /\ next <= p.n
        BY <1>b, <1>c DEF Typed
      <4> QED BY ONLY SMTT(40), <4>1, <4>2, <2>1, <2>3, <3>1
    <3>3. CASE \E q \in net : q.n = lastRange[2] + 1
      BY SMTT(40), <3>1, <3>2, <3>3, <1>b, <1>c DEF Ranges, Typed
    <3>4. CASE \A q \in net : q.n # lastRange[2] + 1
      BY <3>2, <3>4, <1>b DEF Hole
    <3> QED BY <3>3, <3>4
  <2> QED BY SMTT(40), <2>2, <2>3, <1>b, <1>c DEF Typed
<1>8. RecoveryIsClean'
  BY <1>b, <1>c DEF RecoveryIsClean, Live, Typed
<1>9. StartIsWhole'
  BY SMTT(40), <1>b, <1>c DEF StartIsWhole, Start, Live, Typed
<1>10. StartCuts'
  BY SMTT(40), <1>b, <1>c DEF StartCuts, Start, Live, Typed
<1>11. GapsWait'
  BY <1>b, <1>c DEF GapsWait, Start, Live, Missed, Numbers, StartCuts, Typed
<1>12. DecodesWhole'
  BY SMTT(40), <1>b, <1>c DEF DecodesWhole, Numbers, GapsWait, StartIsWhole, Start, Missed, Typed
<1> QED BY <1>1, <1>2, <1>3, <1>4, <1>5, <1>6, <1>7, <1>8, <1>9, <1>10, <1>11, <1>12 DEF
   RefsInv

\* A request for an IDR frame covers all that the client lacks.
LEMMA AskIdrKeeps ==
  ASSUME RefsInv, AskIdr
  PROVE  RefsInv'
<1> USE DEF RefsInv
<1>b. /\ control' \in Seq(Message) /\ Len(control') = Len(control) + 1
      /\ \A i \in 1..Len(control) : i \in 1..Len(control') /\ control'[i] = control[i]
      /\ \A i \in 1..Len(control') : i \in 1..Len(control) \/ i = Len(control) + 1
      /\ Len(control) + 1 \in 1..Len(control')
      /\ control'[Len(control) + 1].first = next /\ control'[Len(control) + 1].last = next - 1
      /\ control'[Len(control) + 1].kind = "idr"
      /\ waiting' /\ waiting' \in BOOLEAN
      /\ encoder' = encoder /\ pc' = pc /\ frameNr' = frameNr /\ idrEvent' = idrEvent
      /\ rfiEvent' = rfiEvent /\ force' = force /\ confirm' = confirm
      /\ lastRange' = lastRange /\ lastEncoded' = lastEncoded /\ dpb' = dpb
      /\ needs' = needs /\ net' = net /\ next' = next /\ decoded' = decoded
      /\ overwritten' = overwritten
  <2>1. control \in Seq(Message) /\ next \in 1..(MaxFrame + 1) /\ next <= frameNr
          /\ frameNr \in 1..(MaxFrame + 1)
    BY DEF TypeOK, Numbers
  <2> DEFINE m == [kind |-> "idr", first |-> next, last |-> next - 1]
  <2>5. m.first = next /\ m.last = next - 1 /\ m.kind = "idr"
    OBVIOUS
  <2>6. m \in Message
    BY <2>1 DEF Message
  <2>7. control' = Append(control, m)
    BY DEF AskIdr
  <2> HIDE DEF m
  <2>8. /\ control' \in Seq(Message) /\ Len(control') = Len(control) + 1
        /\ \A i \in 1..Len(control) : i \in 1..Len(control') /\ control'[i] = control[i]
        /\ \A i \in 1..Len(control') : i \in 1..Len(control) \/ i = Len(control) + 1
        /\ Len(control) + 1 \in 1..Len(control')
        /\ control'[Len(control) + 1] = m
    BY <2>1, <2>6, <2>7, AppendIs
  <2> QED BY <2>1, <2>5, <2>8 DEF AskIdr, codecVars
<1>c. Typed
  BY TypesAre
<1>1. TypeOK'
  BY <1>b, <1>c DEF TypeOK, Typed
<1>2. Messages'
  <2>1. ASSUME NEW i \in 1..Len(control')
        PROVE  /\ control'[i].first <= next' /\ control'[i].last < next'
               /\ control'[i].kind = "rfi" => control'[i].first <= control'[i].last
    <3>1. CASE i \in 1..Len(control)
      <4>1. control'[i] = control[i] /\ next <= next' /\ next \in Nat /\ next' \in Nat
        BY <3>1, <1>b, <1>c DEF Typed
      <4>2. /\ control[i].first <= next /\ control[i].last < next
            /\ control[i].kind = "rfi" => control[i].first <= control[i].last
        BY <3>1 DEF Messages
      <4>3. control[i].first \in Nat /\ control[i].last \in Nat
        BY <3>1, <1>c DEF Typed
      <4> QED BY ONLY <4>1, <4>2, <4>3
    <3>2. CASE i = Len(control) + 1
      BY <3>2, <1>b, <1>c DEF Typed
    <3> QED BY <3>1, <3>2, <1>b
  <2>2. ASSUME NEW i \in 1..Len(control'), NEW j \in 1..Len(control'), i < j
        PROVE  control'[i].first <= control'[j].first /\ control'[i].last <= control'[j].last
    <3>1. i \in 1..Len(control) /\ control'[i] = control[i]
      BY <2>2, <1>b, <1>c DEF Typed
    <3>2. CASE j \in 1..Len(control)
      BY <2>2, <3>1, <3>2, <1>b DEF Messages
    <3>3. CASE j = Len(control) + 1
      BY <3>1, <3>3, <1>b, <1>c DEF Messages, Typed
    <3> QED BY <3>2, <3>3, <1>b
  <2>3. rfiEvent' # NoRange =>
          /\ 1 <= rfiEvent'[1] /\ rfiEvent'[1] <= rfiEvent'[2] /\ rfiEvent'[2] < next'
          /\ \A i \in 1..Len(control') :
               rfiEvent'[1] <= control'[i].first /\ rfiEvent'[2] <= control'[i].last
    <3>1. SUFFICES ASSUME rfiEvent # NoRange
                   PROVE  /\ 1 <= rfiEvent[1] /\ rfiEvent[1] <= rfiEvent[2]
                             /\ rfiEvent[2] < next'
                          /\ \A i \in 1..Len(control') :
                               rfiEvent[1] <= control'[i].first
                                 /\ rfiEvent[2] <= control'[i].last
      BY <1>b
    <3>2. 1 <= rfiEvent[1] /\ rfiEvent[1] <= rfiEvent[2] /\ rfiEvent[2] < next
      BY <3>1 DEF Messages
    <3>3. ASSUME NEW i \in 1..Len(control')
          PROVE  rfiEvent[1] <= control'[i].first /\ rfiEvent[2] <= control'[i].last
      <4>1. CASE i \in 1..Len(control)
        BY <4>1, <3>1, <1>b DEF Messages
      <4>2. CASE i = Len(control) + 1
        BY <4>2, <3>2, <1>b, <1>c DEF Typed
      <4> QED BY <4>1, <4>2, <1>b
    <3>4. next <= next' /\ next \in Nat /\ next' \in Nat /\ rfiEvent[2] \in Nat
      BY <1>b, <1>c DEF Typed
    <3>5. rfiEvent[2] < next'
      BY ONLY <3>2, <3>4
    <3> QED BY ONLY <3>2, <3>3, <3>5
  <2> QED BY <2>1, <2>2, <2>3 DEF Messages
<1>3. Numbers'
  BY <1>b, <1>c DEF Numbers, TypeOK, Typed
<1>4. Ranges'
  BY <1>b, <1>c DEF Ranges, Live, Start, NoRange, Numbers, Messages, Typed
<1>5. Helped'
  BY SMTT(40), <1>b, <1>c DEF Helped, Live, Start, Hole, Pending, Waits, Effective, NoRange,
     Messages, Numbers, Ranges, Typed
<1>6. MissedIsReported'
  BY SMTT(40), <1>b, <1>c DEF MissedIsReported, Live, Missed, Covered, Waits, Effective, NoRange,
     Messages, Numbers, Typed
<1>7. AheadIsCovered'
  <2> SUFFICES ASSUME ~overwritten', Live', NEW f \in dpb', f >= next' PROVE Covered(f)'
    BY DEF AheadIsCovered
  <2> QED BY <1>b, <1>c DEF Covered, Effective, Typed
<1>8. RecoveryIsClean'
  BY <1>b, <1>c DEF RecoveryIsClean, Live, Typed
<1>9. StartIsWhole'
  BY <1>b, <1>c DEF StartIsWhole, Start, Live, Typed
<1>10. StartCuts'
  BY <1>b, <1>c DEF StartCuts, Start, Live, Typed
<1>11. GapsWait'
  BY <1>b, <1>c DEF GapsWait, Start, Live, Missed, Typed
<1>12. DecodesWhole'
  BY <1>b, <1>c DEF DecodesWhole, Typed
<1> QED BY <1>1, <1>2, <1>3, <1>4, <1>5, <1>6, <1>7, <1>8, <1>9, <1>10, <1>11, <1>12 DEF
   RefsInv

\* The control thread keeps the invariant, ...
LEMMA HearKeeps == ASSUME RefsInv, Hear PROVE RefsInv'
BY HearIdr, HearRfi

\* ... a new encoder does, for it starts with an IDR frame, ...
LEMMA MakeKeeps == ASSUME RefsInv, Make PROVE RefsInv'
<1> USE DEF RefsInv
<1>1. TypeOK'
  <2>1. rfiEvent' \in (0..MaxFrame) \X (0..MaxFrame)
          /\ lastRange' \in (0..MaxFrame) \X (0..MaxFrame)
    BY DEF Make, clientVars, TypeOK, NoRange
  <2>2. /\ idrEvent' \in BOOLEAN /\ force' \in BOOLEAN /\ confirm' \in BOOLEAN
        /\ overwritten' \in BOOLEAN /\ waiting' \in BOOLEAN
    BY DEF Make, clientVars, TypeOK
  <2>3. /\ encoder' \in Encoders /\ pc' \in {"make", "top", "encode"}
        /\ frameNr' \in 1..(MaxFrame + 1) /\ next' \in 1..(MaxFrame + 1)
        /\ lastEncoded' \in 0..MaxFrame
    BY DEF Make, clientVars, TypeOK
  <2>4. dpb' \subseteq 1..MaxFrame /\ decoded' \subseteq 1..MaxFrame
    BY DEF Make, clientVars, TypeOK
  <2>5. /\ needs' \in [1..MaxFrame -> SUBSET (1..MaxFrame)]
        /\ net' \subseteq [n : 1..MaxFrame, type : {"idr", "recovery", "normal"}]
        /\ control' \in Seq(Message)
    BY DEF Make, clientVars, TypeOK
  <2> QED BY <2>1, <2>2, <2>3, <2>4, <2>5 DEF TypeOK
<1>2. Messages'
  BY DEF Make, clientVars, NoRange, Messages, Message, TypeOK
<1>3. Numbers'
  BY DEF Make, clientVars, NoRange, Numbers, Message, TypeOK
<1>4. Ranges'
  BY DEF Make, clientVars, NoRange, Ranges, Live, Start, Message, TypeOK, Numbers, Messages
<1>5. Helped'
  BY DEF Make, clientVars, NoRange, Helped, Live, Start, Hole, Pending, Waits, Effective,
     Message, TypeOK, Messages, Numbers, Ranges
<1>6. MissedIsReported'
  BY DEF Make, clientVars, NoRange, MissedIsReported, Live, Missed, Covered, Waits,
     Effective, Message, TypeOK, Messages, Numbers, Ranges, AheadIsCovered, Start, Hole
<1>7. AheadIsCovered'
  BY DEF Make, clientVars, NoRange, AheadIsCovered, Live, Start, Hole, Covered, Waits,
     Effective, Message, TypeOK, Messages, Numbers, Ranges, Helped, Pending
<1>8. RecoveryIsClean'
  BY DEF Make, clientVars, NoRange, RecoveryIsClean, Live, Message, TypeOK,
     MissedIsReported, Messages, Numbers, Covered, Missed, Waits
<1>9. StartIsWhole'
  BY DEF Make, clientVars, NoRange, StartIsWhole, Start, Live, Message, TypeOK,
     RecoveryIsClean, DecodesWhole, Numbers
<1>10. StartCuts'
  BY DEF Make, clientVars, NoRange, StartCuts, Start, Live, Message, TypeOK,
     RecoveryIsClean, DecodesWhole, Numbers
<1>11. GapsWait'
  BY DEF Make, clientVars, NoRange, GapsWait, Start, Live, Missed, Message, TypeOK, Numbers,
     StartCuts, Messages, Ranges
<1>12. DecodesWhole'
  BY DEF Make, clientVars, NoRange, DecodesWhole, Message, TypeOK, Numbers, GapsWait,
     StartIsWhole, Start, Missed
<1> QED BY <1>1, <1>2, <1>3, <1>4, <1>5, <1>6, <1>7, <1>8, <1>9, <1>10, <1>11, <1>12 DEF
   RefsInv

\* ... the end of one, ...
LEMMA ReinitKeeps == ASSUME RefsInv, Reinit PROVE RefsInv'
<1> USE DEF RefsInv
<1>1. TypeOK'
  BY DEF Reinit, codecVars, clientVars, TypeOK, Message
<1>2. Messages'
  BY DEF Reinit, codecVars, clientVars, Messages, NoRange, Message, TypeOK
<1>3. Numbers'
  BY DEF Reinit, codecVars, clientVars, Numbers, Message, TypeOK
<1>4. Ranges'
  BY DEF Reinit, codecVars, clientVars, Ranges, Live, Start, NoRange, Message, TypeOK,
     Numbers, Messages
<1>5. Helped'
  BY DEF Reinit, codecVars, clientVars, Helped, Live, Start, Hole, Pending, Waits,
     Effective, NoRange, Message, TypeOK, Messages, Numbers, Ranges
<1>6. MissedIsReported'
  BY DEF Reinit, codecVars, clientVars, MissedIsReported, Live, Missed, Covered, Waits,
     Effective, NoRange, Message, TypeOK, Messages, Numbers, Ranges, AheadIsCovered, Start,
     Hole
<1>7. AheadIsCovered'
  BY DEF Reinit, codecVars, clientVars, AheadIsCovered, Live, Start, Hole, Covered, Waits,
     Effective, NoRange, Message, TypeOK, Messages, Numbers, Ranges, Helped, Pending
<1>8. RecoveryIsClean'
  BY DEF Reinit, codecVars, clientVars, RecoveryIsClean, Live, Message, TypeOK,
     MissedIsReported, Messages, Numbers, Covered, Missed, Waits, NoRange
<1>9. StartIsWhole'
  BY DEF Reinit, codecVars, clientVars, StartIsWhole, Start, Live, Message, TypeOK,
     RecoveryIsClean, DecodesWhole, Numbers
<1>10. StartCuts'
  BY DEF Reinit, codecVars, clientVars, StartCuts, Start, Live, Message, TypeOK,
     RecoveryIsClean, DecodesWhole, Numbers
<1>11. GapsWait'
  BY DEF Reinit, codecVars, clientVars, GapsWait, Start, Live, Missed, Message, TypeOK,
     Numbers, StartCuts, Messages, Ranges
<1>12. DecodesWhole'
  BY DEF Reinit, codecVars, clientVars, DecodesWhole, Message, TypeOK, Numbers, GapsWait,
     StartIsWhole, Start, Missed
<1> QED BY <1>1, <1>2, <1>3, <1>4, <1>5, <1>6, <1>7, <1>8, <1>9, <1>10, <1>11, <1>12 DEF
   RefsInv

\* ... an invalidation, ...
LEMMA PopReportKeeps == ASSUME RefsInv, PopReport PROVE RefsInv'
<1>1. CASE ~AlreadyDone(rfiEvent)
  BY <1>1, PopForces, PopForgets
<1>2. CASE AlreadyDone(rfiEvent) /\ force' # TRUE
  <2>1. lastRange' = lastRange
    BY <1>2 DEF PopReport, Invalidate
  <2> QED BY <1>2, <2>1, PopDone
<1> QED BY <1>1, <1>2, PopForces

\* ... the look at the event of the IDR frames, ...
LEMMA PopIdrKeeps == ASSUME RefsInv, PopIdr PROVE RefsInv'
<1> USE DEF RefsInv
<1>1. TypeOK'
  BY DEF PopIdr, clientVars, TypeOK, Message
<1>2. Messages'
  BY DEF PopIdr, clientVars, Messages, NoRange, Message, TypeOK
<1>3. Numbers'
  BY DEF PopIdr, clientVars, Numbers, Message, TypeOK
<1>4. Ranges'
  BY DEF PopIdr, clientVars, Ranges, Live, Start, NoRange, Message, TypeOK, Numbers, Messages
<1>5. Helped'
  BY DEF PopIdr, clientVars, Helped, Live, Start, Hole, Pending, Waits, Effective, NoRange,
     Message, TypeOK, Messages, Numbers, Ranges
<1>6. MissedIsReported'
  BY DEF PopIdr, clientVars, MissedIsReported, Live, Missed, Covered, Waits, Effective,
     NoRange, Message, TypeOK, Messages, Numbers, Ranges, AheadIsCovered, Start, Hole
<1>7. AheadIsCovered'
  BY DEF PopIdr, clientVars, AheadIsCovered, Live, Start, Hole, Covered, Waits, Effective,
     NoRange, Message, TypeOK, Messages, Numbers, Ranges, Helped, Pending
<1>8. RecoveryIsClean'
  BY DEF PopIdr, clientVars, RecoveryIsClean, Live, Message, TypeOK, MissedIsReported,
     Messages, Numbers, Covered, Missed, Waits, NoRange
<1>9. StartIsWhole'
  BY DEF PopIdr, clientVars, StartIsWhole, Start, Live, Message, TypeOK, RecoveryIsClean,
     DecodesWhole, Numbers
<1>10. StartCuts'
  BY DEF PopIdr, clientVars, StartCuts, Start, Live, Message, TypeOK, RecoveryIsClean,
     DecodesWhole, Numbers
<1>11. GapsWait'
  BY DEF PopIdr, clientVars, GapsWait, Start, Live, Missed, Message, TypeOK, Numbers,
     StartCuts, Messages, Ranges
<1>12. DecodesWhole'
  BY DEF PopIdr, clientVars, DecodesWhole, Message, TypeOK, Numbers, GapsWait, StartIsWhole,
     Start, Missed
<1> QED BY <1>1, <1>2, <1>3, <1>4, <1>5, <1>6, <1>7, <1>8, <1>9, <1>10, <1>11, <1>12 DEF
   RefsInv

\* ... a frame, ...
LEMMA EncodeKeeps == ASSUME RefsInv, Encode PROVE RefsInv'
BY EncodeIdr, EncodeRecovery, EncodeNormal

\* ... a number used up without one, ...
LEMMA EncodeFailsKeeps == ASSUME RefsInv, EncodeFails PROVE RefsInv'
<1> USE DEF RefsInv
<1>1. TypeOK'
  BY DEF EncodeFails, codecVars, clientVars, TypeOK, Message
<1>2. Messages'
  BY DEF EncodeFails, codecVars, clientVars, Messages, NoRange, Message, TypeOK
<1>3. Numbers'
  BY DEF EncodeFails, codecVars, clientVars, Numbers, Message, TypeOK
<1>4. Ranges'
  BY DEF EncodeFails, codecVars, clientVars, Ranges, Live, Start, NoRange, Message, TypeOK,
     Numbers, Messages
<1>5. Helped'
  BY DEF EncodeFails, codecVars, clientVars, Helped, Live, Start, Hole, Pending, Waits,
     Effective, NoRange, Message, TypeOK, Messages, Numbers, Ranges
<1>6. MissedIsReported'
  BY DEF EncodeFails, codecVars, clientVars, MissedIsReported, Live, Missed, Covered, Waits,
     Effective, NoRange, Message, TypeOK, Messages, Numbers, Ranges, AheadIsCovered, Start,
     Hole
<1>7. AheadIsCovered'
  BY DEF EncodeFails, codecVars, clientVars, AheadIsCovered, Live, Start, Hole, Covered,
     Waits, Effective, NoRange, Message, TypeOK, Messages, Numbers, Ranges, Helped, Pending
<1>8. RecoveryIsClean'
  BY DEF EncodeFails, codecVars, clientVars, RecoveryIsClean, Live, Message, TypeOK,
     MissedIsReported, Messages, Numbers, Covered, Missed, Waits, NoRange
<1>9. StartIsWhole'
  BY DEF EncodeFails, codecVars, clientVars, StartIsWhole, Start, Live, Message, TypeOK,
     RecoveryIsClean, DecodesWhole, Numbers
<1>10. StartCuts'
  BY DEF EncodeFails, codecVars, clientVars, StartCuts, Start, Live, Message, TypeOK,
     RecoveryIsClean, DecodesWhole, Numbers
<1>11. GapsWait'
  BY DEF EncodeFails, codecVars, clientVars, GapsWait, Start, Live, Missed, Message, TypeOK,
     Numbers, StartCuts, Messages, Ranges
<1>12. DecodesWhole'
  BY DEF EncodeFails, codecVars, clientVars, DecodesWhole, Message, TypeOK, Numbers,
     GapsWait, StartIsWhole, Start, Missed
<1> QED BY <1>1, <1>2, <1>3, <1>4, <1>5, <1>6, <1>7, <1>8, <1>9, <1>10, <1>11, <1>12 DEF
   RefsInv

\* ... the loss of a packet ...
LEMMA LoseKeeps == ASSUME RefsInv, Lose PROVE RefsInv'
<1> USE DEF RefsInv
<1>1. TypeOK'
  BY DEF Lose, codecVars, clientVars, TypeOK, Message
<1>2. Messages'
  BY DEF Lose, codecVars, clientVars, Messages, NoRange, Message, TypeOK
<1>3. Numbers'
  BY DEF Lose, codecVars, clientVars, Numbers, Message, TypeOK
<1>4. Ranges'
  BY DEF Lose, codecVars, clientVars, Ranges, Live, Start, NoRange, Message, TypeOK,
     Numbers, Messages
<1>5. Helped'
  BY DEF Lose, codecVars, clientVars, Helped, Live, Start, Hole, Pending, Waits, Effective,
     NoRange, Message, TypeOK, Messages, Numbers, Ranges
<1>6. MissedIsReported'
  BY DEF Lose, codecVars, clientVars, MissedIsReported, Live, Missed, Covered, Waits,
     Effective, NoRange, Message, TypeOK, Messages, Numbers, Ranges, AheadIsCovered, Start,
     Hole
<1>7. AheadIsCovered'
  <2> SUFFICES ASSUME ~overwritten', Live', waiting', NEW f \in dpb', f >= next'
               PROVE  \/ Covered(f)'
                      \/ \E q \in net' : Start(q) /\ q.n <= f
                      \/ \E k \in next'..f : Hole(k)'
    BY DEF AheadIsCovered, Start
  <2>1. PICK p \in net : net' = net \ {p}
    BY DEF Lose
  <2>2. /\ f \in dpb /\ f >= next /\ ~overwritten /\ waiting /\ Live /\ next' = next
        /\ Covered(f)' <=> Covered(f)
    BY DEF Lose, codecVars, clientVars, Live, Covered, Waits, Effective
  <2>3. Hole(p.n)' /\ next <= p.n
    BY <2>1 DEF Hole, Numbers
  <2>4. \A k : Hole(k) => Hole(k)'
    BY <2>1 DEF Hole
  <2>5. p.n <= f => p.n \in next'..f
    BY <2>2, <2>3 DEF TypeOK
  <2>6. CASE \E q \in net : Start(q) /\ q.n <= f
    BY <2>1, <2>3, <2>5, <2>6
  <2> QED BY <2>2, <2>4, <2>6 DEF AheadIsCovered
<1>8. RecoveryIsClean'
  BY DEF Lose, codecVars, clientVars, RecoveryIsClean, Live, Message, TypeOK,
     MissedIsReported, Messages, Numbers, Covered, Missed, Waits, NoRange
<1>9. StartIsWhole'
  BY DEF Lose, codecVars, clientVars, StartIsWhole, Start, Live, Message, TypeOK,
     RecoveryIsClean, DecodesWhole, Numbers
<1>10. StartCuts'
  BY DEF Lose, codecVars, clientVars, StartCuts, Start, Live, Message, TypeOK,
     RecoveryIsClean, DecodesWhole, Numbers
<1>11. GapsWait'
  BY DEF Lose, codecVars, clientVars, GapsWait, Start, Live, Missed, Message, TypeOK,
     Numbers, StartCuts, Messages, Ranges
<1>12. DecodesWhole'
  BY DEF Lose, codecVars, clientVars, DecodesWhole, Message, TypeOK, Numbers, GapsWait,
     StartIsWhole, Start, Missed
<1> QED BY <1>1, <1>2, <1>3, <1>4, <1>5, <1>6, <1>7, <1>8, <1>9, <1>10, <1>11, <1>12 DEF
   RefsInv

\* ... and its arrival.
LEMMA ReceiveKeeps == ASSUME RefsInv, Receive PROVE RefsInv'
<1>1. PICK p \in net : /\ \A q \in net : p.n <= q.n
                       /\ Arrive(p) /\ net' = net \ {p}
  BY DEF Receive
<1>2. UNCHANGED <<encoder, pc, frameNr, idrEvent, rfiEvent, codecVars, needs, overwritten,
                  restarts>>
  BY DEF Receive
<1>3. next \in Int /\ p.n \in Int
  BY DEF RefsInv, TypeOK
<1>4. p.type = "normal" /\ next >= p.n => waiting \/ ~waiting
  OBVIOUS
<1> QED BY <1>1, <1>2, <1>3, TakesStart, TakesNext, TakesAfterGap, Skips, SkipsAfterGap

\* The invariant holds at the start, ...
LEMMA RefsStart == Init => RefsInv
<1> SUFFICES ASSUME Init PROVE RefsInv
  OBVIOUS
<1> USE DEF Init, NoRange
<1>1. TypeOK
  <2>1. NoRange \in (0..MaxFrame) \X (0..MaxFrame) /\ <<>> \in Seq(Message)
    OBVIOUS
  <2>2. /\ 1 \in 1..(MaxFrame + 1) /\ 0 \in 0..MaxFrame
        /\ [n \in 1..MaxFrame |-> {}] \in [1..MaxFrame -> SUBSET (1..MaxFrame)]
    OBVIOUS
  <2>3. idrEvent \in BOOLEAN /\ force \in BOOLEAN /\ confirm \in BOOLEAN
          /\ overwritten \in BOOLEAN /\ waiting \in BOOLEAN
    OBVIOUS
  <2> QED BY <2>1, <2>2, <2>3 DEF TypeOK
<1>2. Messages /\ Numbers /\ DecodesWhole
  BY DEF Messages, Numbers, DecodesWhole
<1>3. Ranges /\ Helped
  BY DEF Ranges, Helped, Live
<1>4. MissedIsReported /\ AheadIsCovered /\ RecoveryIsClean /\ StartIsWhole /\ StartCuts
        /\ GapsWait
  BY DEF MissedIsReported, AheadIsCovered, RecoveryIsClean, StartIsWhole, StartCuts,
     GapsWait, Live
<1> QED BY <1>1, <1>2, <1>3, <1>4 DEF RefsInv

\* ... every step keeps it, ...
LEMMA RefsStep == RefsInv /\ [Next]_refsVars => RefsInv'
<1> SUFFICES ASSUME RefsInv, [Next]_refsVars PROVE RefsInv'
  OBVIOUS
<1>1. CASE UNCHANGED refsVars
  <2> USE <1>1 DEF refsVars, codecVars, clientVars, RefsInv
  <2>1. TypeOK'
    BY DEF TypeOK
  <2>2. Messages' /\ Numbers' /\ DecodesWhole'
    BY DEF Messages, Numbers, DecodesWhole
  <2>3. Ranges' /\ Helped'
    BY DEF Ranges, Helped, Live, Pending, Waits, Effective, Start, Hole
  <2>4. MissedIsReported' /\ AheadIsCovered'
    BY DEF MissedIsReported, AheadIsCovered, Live, Missed, Covered, Waits, Effective, Start,
       Hole
  <2>5. RecoveryIsClean' /\ StartIsWhole' /\ StartCuts' /\ GapsWait'
    BY DEF RecoveryIsClean, StartIsWhole, StartCuts, GapsWait, Live, Start, Missed
  <2> QED BY <2>1, <2>2, <2>3, <2>4, <2>5
<1>2. CASE Next
  BY <1>2, HearKeeps, MakeKeeps, ReinitKeeps, PopReportKeeps, PopIdrKeeps, EncodeKeeps,
     EncodeFailsKeeps, LoseKeeps, ReceiveKeeps, AskIdrKeeps DEF Next
<1> QED BY <1>1, <1>2

\* ... and it is enough.
LEMMA RefsSuffices == RefsInv => TypeOK /\ DecodesWhole /\ HelpIsComing
BY SMTT(40) DEF RefsInv, TypeOK, Messages, Numbers, Helped, HelpIsComing, Pending, Waits, Live,
   Start, Hole, NoRange

\* FrameRefs is one part of the instance.
LEMMA RefsIsPart == /\ PlatformInit => Init
                    /\ [PlatformNext]_platformVars => [Next]_refsVars
<1>1. PlatformInit => Init
  BY DEF PlatformInit, PartsInit
<1>2. PlatformNext => Next \/ UNCHANGED refsVars
  <2> SUFFICES ASSUME PlatformNext PROVE Next \/ UNCHANGED refsVars
    OBVIOUS
  <2>1. CASE part = "refs"
    <3>1. part \notin InputPart /\ "refs" # "devices" /\ "refs" # "desktop"
      BY <2>1 DEF InputPart
    <3> QED BY ZenonT(60), <2>1, <3>1 DEF PlatformNext
  <2>2. CASE part # "refs"
    <3>1. Others
      BY ZenonT(60) DEF PlatformNext
    <3> QED BY <2>2, <3>1 DEF Others
  <2> QED BY <2>1, <2>2
<1>3. UNCHANGED platformVars => UNCHANGED refsVars
  BY DEF platformVars
<1> QED BY <1>1, <1>2, <1>3

\* However packets are lost and reports delayed, a client decodes only frames whose
\* references it has, and one that waits for a fresh start will be given one, or
\* will notice a loss and ask (stream.cpp, video.cpp, nvenc_base.cpp).
THEOREM ReferencesAreKept == PlatformSpec => []ReferencesHold
<1>1. PlatformInit => RefsInv
  BY RefsStart, RefsIsPart
<1>2. RefsInv /\ [PlatformNext]_platformVars => RefsInv'
  BY RefsStep, RefsIsPart
<1>3. RefsInv => ReferencesHold
  BY RefsSuffices DEF ReferencesHold
<1> QED BY <1>1, <1>2, <1>3, PTL DEF PlatformSpec

HIDE RefsAssumption

-----------------------------------------------------------------------------
(* Input: the inductive invariant *)

Task == [kind : {"pass"}, s : Streamer, m : AllSaid] \union [kind : {"reset"}]
          \union [kind : {"free"}, pad : PadIds]

Held == timers \union running

\* The worker runs one timer at a time, and an address has one timer.
PoolTyped ==
  /\ inputTasks \in Seq(Task)
  /\ timers \intersect running = {}
  /\ \A t, u \in running : t = u
  /\ \A t, u \in Held : t.id = u.id => t = u

\* What repeats is what key_press_repeat_id names, with a Shift of the host's own.
OneRepeats ==
  \A t \in Held : t.kind = "repeat" => /\ t.id = repeatId
                                       /\ t.with \subseteq {"leftShift"} /\ t.key \notin t.with

\* The keys: a client with messages to come whose Shift counts as held holds one,
\* unless it was let go.
KeysAreKnown ==
  /\ osKeys \subseteq keyPress /\ keyPress \ osKeys \subseteq {"leftShift"}
  /\ ~lifted => osKeys = keyPress
  /\ ~lifted => \A s \in shifted : Inp!Types(s) => keyPress \intersect Inp!Shift # {}
  /\ unshifted => lifted

\* The buttons.
ButtonsAreKnown ==
  /\ mousePress \subseteq osButtons
  /\ ~cut => \A b \in osButtons \intersect Inp!Tracked :
               b \in mousePress \/ (b = "left" /\ \E t \in Held : t.kind = "left")

\* An event that waits is about the display that is captured.
PortsAreCurrent ==
  \A s \in Streamer : life[s] = "up" =>
    IF inputRaised[s] = 0 THEN port[s] = inputCaptured ELSE inputRaised[s] = inputCaptured

Waiting == 1..Len(inputTasks)

\* Without counting: a pad that is taken has one client, or one task that frees it.
Owned(ts, pads, taken) ==
  LET frees == {i \in 1..Len(ts) : ts[i].kind = "free"}
  IN /\ \A s, o \in Streamer : pads[s] = pads[o] /\ pads[s] # -1 => s = o
     /\ \A i, j \in frees : ts[i].pad = ts[j].pad => i = j
     /\ \A s \in Streamer, i \in frees : ts[i].pad # pads[s]
     /\ \A s \in Streamer : pads[s] # -1 => pads[s] \in taken
     /\ \A i \in frees : ts[i].pad \in taken
     /\ \A id \in taken : (\E s \in Streamer : pads[s] = id) \/ (\E i \in frees : ts[i].pad = id)

PadsAreOwned == Owned(inputTasks, inputPad, mask) /\ inputAttached = mask

\* Nothing of a client that is gone is left in the pool.
GoneIsGone ==
  \A s \in Streamer : life[s] = "gone" => inputPad[s] = -1 /\ ~Inp!HeldBy(s)

FeedsAreOwned == \A f \in fed : inputPad[f[2]] = f[1] \/ life[f[2]] = "gone"

Quiet == \A s \in Streamer : life[s] \in {"reset", "gone"}

\* Once every client is reset, one reset is yet to come after all they said, or
\* nothing is held and nothing was said.
ResetIsLast ==
  Quiet =>
    \/ \E j \in Waiting : /\ inputTasks[j].kind = "reset"
                          /\ \A i \in Waiting : i > j => inputTasks[i].kind # "pass"
    \/ /\ mousePress = {} /\ keyPress = {}
       /\ \A i \in Waiting : inputTasks[i].kind # "pass"

InputInv ==
  /\ Inp!TypeOK /\ PoolTyped /\ OneRepeats /\ KeysAreKnown /\ ButtonsAreKnown
  /\ Inp!WheelIsKept /\ PortsAreCurrent /\ PadsAreOwned /\ GoneIsGone /\ FeedsAreOwned
  /\ ResetIsLast

-----------------------------------------------------------------------------
(* The steps *)

\* The worker takes a task.
Served == /\ running = {} /\ inputTasks # <<>> /\ inputTasks' = Tail(inputTasks)
          /\ UNCHANGED <<running, life, inputSent>>

First == inputTasks[1]

Passes(s, m) == Served /\ First.kind = "pass" /\ First.s = s /\ First.m = m

\* A timer runs.
Ran(t) == /\ t \in running /\ running' = {}
          /\ UNCHANGED <<inputTasks, life, inputSent, cut, rest, turned, meantTurns,
                         port, inputRaised, inputCaptured>>

SendStep == \E s \in Streamer, m \in AllSaid : Inp!Send(s, m)
FireStep == \E t \in timers : Inp!Fire(t)
CaptureStep == \E d \in 1..MaxPort : Inp!Capture(d)
PassStep == \E s \in Streamer, m \in AllSaid : Passes(s, m) /\ Inp!Pass(s, m)
ReleaseStep == Served /\ First.kind = "reset" /\ Inp!Release
FreeStep == /\ Served /\ First.kind = "free" /\ First.pad \in PadIds /\ Inp!FreePad(First.pad)
            /\ UNCHANGED <<inputPad, backId, forcedUp, padBack, timers, cut,
                           Inp!mouseVars, Inp!keyVars, Inp!wheelVars, Inp!portVars>>
LeftStep == \E t \in running :
  /\ Ran(t) /\ t.kind = "left" /\ t.s \in Streamer /\ Inp!LeftTimeout(t.s)
  /\ UNCHANGED <<Inp!keyVars, Inp!padVars, timers>>
RepeatStep == \E t \in running :
  /\ Ran(t) /\ t.kind = "repeat" /\ t.key \in Inp!Key /\ t.with \subseteq Inp!Shift
  /\ Inp!RepeatKey(t.key, t.with)
  /\ UNCHANGED <<keyPress, shifted, cursor, unshifted, Inp!mouseVars, Inp!padVars>>
HomeStep == \E t \in running :
  /\ Ran(t) /\ t.kind = "home" /\ t.s \in Streamer /\ Inp!Home(t.s)
  /\ UNCHANGED <<Inp!mouseVars, Inp!keyVars, timers>>
EndStep == \E s \in Streamer : Inp!ResetRepeat(s) \/ Inp!ResetLeft(s) \/ Inp!ResetPush(s)
DestroyStep == \E s \in Streamer : Inp!Destroy(s)

LEMMA FirstIsTask ==
  ASSUME PoolTyped, inputTasks # <<>>
  PROVE  /\ Head(inputTasks) = First /\ First \in Task
         /\ Len(inputTasks) \in Nat /\ Len(inputTasks) >= 1
         /\ Tail(inputTasks) \in Seq(Task) /\ Len(Tail(inputTasks)) = Len(inputTasks) - 1
         /\ \A i \in 1..Len(Tail(inputTasks)) : Tail(inputTasks)[i] = inputTasks[i + 1]
BY DEF PoolTyped, First

LEMMA TaskFields ==
  ASSUME NEW t \in Task
  PROVE  /\ t.kind \in {"pass", "reset", "free"}
         /\ t.kind = "pass" => t.s \in Streamer /\ t.m \in AllSaid
         /\ t.kind = "free" => t.pad \in PadIds
BY DEF Task

LEMMA TimerFields ==
  ASSUME NEW t \in Inp!Timer
  PROVE  /\ t.id \in Id /\ t.kind \in {"left", "home", "repeat"}
         /\ t.kind \in {"left", "home"} => t.s \in Streamer
         /\ t.kind = "repeat" => t.key \in Inp!Key /\ t.with \subseteq Inp!Shift
BY DEF Inp!Timer

\* A step of Input is one of these.
LEMMA StepCases ==
  ASSUME Inp!TypeOK, PoolTyped, Inp!Next
  PROVE  \/ SendStep \/ FireStep \/ CaptureStep \/ PassStep \/ ReleaseStep \/ FreeStep
         \/ LeftStep \/ RepeatStep \/ HomeStep \/ EndStep \/ DestroyStep
<1>1. CASE Inp!Work
  <2>1. /\ Served /\ Head(inputTasks) = First /\ First \in Task
    BY <1>1, FirstIsTask DEF Inp!Work, Served
  <2>2. CASE First.kind = "pass" /\ Inp!Pass(First.s, First.m)
    BY <2>1, <2>2, TaskFields DEF PassStep, Passes
  <2>3. CASE First.kind = "reset" /\ Inp!Release
    BY <2>1, <2>3 DEF ReleaseStep
  <2>4. CASE /\ First.kind = "free" /\ Inp!FreePad(First.pad)
             /\ UNCHANGED <<inputPad, backId, forcedUp, padBack, timers, cut,
                            Inp!mouseVars, Inp!keyVars, Inp!wheelVars, Inp!portVars>>
    BY <2>1, <2>4, TaskFields DEF FreeStep
  <2> QED BY <1>1, <2>1, <2>2, <2>3, <2>4 DEF Inp!Work
<1>2. CASE Inp!RunTimer
  <2>1. PICK t \in running :
          /\ \/ /\ t.kind = "left" /\ Inp!LeftTimeout(t.s)
                /\ UNCHANGED <<Inp!keyVars, Inp!padVars, timers>>
             \/ /\ t.kind = "repeat" /\ Inp!RepeatKey(t.key, t.with)
                /\ UNCHANGED <<keyPress, shifted, cursor, unshifted, Inp!mouseVars, Inp!padVars>>
             \/ /\ t.kind = "home" /\ Inp!Home(t.s)
                /\ UNCHANGED <<Inp!mouseVars, Inp!keyVars, timers>>
          /\ running' = {}
          /\ UNCHANGED <<inputTasks, life, Inp!wheelVars, Inp!portVars, inputSent, cut>>
    BY <1>2 DEF Inp!RunTimer
  <2>2. t \in Inp!Timer
    BY DEF Inp!TypeOK
  <2>3. Ran(t)
    BY <2>1 DEF Ran, Inp!wheelVars, Inp!portVars
  <2> QED BY <2>1, <2>2, <2>3, TimerFields DEF LeftStep, RepeatStep, HomeStep
<1>3. CASE \/ \E s \in Streamer, m \in AllSaid : Inp!Send(s, m)
           \/ \E t \in timers : Inp!Fire(t)
           \/ \E d \in 1..MaxPort : Inp!Capture(d)
           \/ \E s \in Streamer : Inp!ResetRepeat(s) \/ Inp!ResetLeft(s) \/ Inp!ResetPush(s)
                                  \/ Inp!Destroy(s)
  BY <1>3 DEF SendStep, FireStep, CaptureStep, EndStep, DestroyStep
<1> QED BY <1>1, <1>2, <1>3 DEF Inp!Next, Inp!NextOf

LEMMA MessageFields ==
  ASSUME NEW m \in AllSaid
  PROVE  /\ m.type = "button" => m.release \in BOOLEAN
         /\ m.type = "move" => m.absolute \in BOOLEAN
         /\ m.type = "scroll" => m.way \in Inp!Way /\ m.amount \in Int
         /\ m.type = "key" => m.key \in Inp!Key /\ m.release \in BOOLEAN /\ m.shift \in BOOLEAN
         /\ m.type = "pad" => m.back \in BOOLEAN
BY ClientAssumption DEF AllSaid, Inp!IsMessage

\* What a message does, by its type.
ButtonStep == \E s \in Streamer, m \in AllSaid :
  Passes(s, m) /\ m.release \in BOOLEAN /\ Inp!Button(s, m.b, m.release)
MoveStep == \E s \in Streamer, m \in AllSaid :
  /\ Passes(s, m) /\ Inp!Move(s, m.absolute)
DrawStep == \E s \in Streamer, m \in AllSaid : Passes(s, m) /\ Inp!Draw(s)
ScrollStep == \E s \in Streamer, m \in AllSaid :
  Passes(s, m) /\ m.way \in Inp!Way /\ m.amount \in Int /\ Inp!Scroll(s, m.way, m.amount)
OthersThanKeys == UNCHANGED <<Inp!mouseVars, Inp!padVars, Inp!wheelVars, Inp!portVars>>
KeyUpStep == \E s \in Streamer, m \in AllSaid :
  Passes(s, m) /\ m.key \in Inp!Key /\ Inp!KeyUp(s, m.key) /\ OthersThanKeys
KeyDownStep == \E s \in Streamer, m \in AllSaid :
  /\ Passes(s, m) /\ m.key \in Inp!Key /\ m.shift \in BOOLEAN /\ Inp!KeyDown(s, m.key, m.shift)
  /\ OthersThanKeys
PadStep == \E s \in Streamer, m \in AllSaid :
  /\ Passes(s, m)
  /\ Inp!PadArrives(s) \/ Inp!PadLeaves(s) \/ Inp!PadSense(s)
       \/ (m.back \in BOOLEAN /\ Inp!PadState(s, m.back))
  /\ UNCHANGED <<Inp!mouseVars, Inp!keyVars, Inp!wheelVars, Inp!portVars>>

LEMMA PassCases ==
  ASSUME PassStep
  PROVE  \/ ButtonStep \/ MoveStep \/ DrawStep \/ ScrollStep \/ KeyUpStep \/ KeyDownStep
         \/ PadStep
<1>1. PICK s \in Streamer, m \in AllSaid : Passes(s, m) /\ Inp!Pass(s, m)
  BY DEF PassStep
<1>2. CASE m.type = "button" /\ Inp!Button(s, m.b, m.release)
  BY <1>1, <1>2, MessageFields DEF ButtonStep
<1>3. CASE m.type = "move" /\ Inp!Move(s, m.absolute)
  BY <1>1, <1>3 DEF MoveStep
<1>4. CASE m.type = "draw" /\ Inp!Draw(s)
  BY <1>1, <1>4 DEF DrawStep
<1>5. CASE m.type = "scroll" /\ Inp!Scroll(s, m.way, m.amount)
  BY <1>1, <1>5, MessageFields DEF ScrollStep
<1>6. CASE /\ m.type = "key"
           /\ (IF m.release THEN Inp!KeyUp(s, m.key) ELSE Inp!KeyDown(s, m.key, m.shift))
           /\ UNCHANGED <<Inp!mouseVars, Inp!padVars, Inp!wheelVars, Inp!portVars>>
  BY <1>1, <1>6, MessageFields DEF KeyUpStep, KeyDownStep, OthersThanKeys
<1>7. CASE /\ Inp!PassPad(s, m)
           /\ UNCHANGED <<Inp!mouseVars, Inp!keyVars, Inp!wheelVars, Inp!portVars>>
  BY <1>1, <1>7, MessageFields DEF PadStep, Inp!PassPad
<1> QED BY <1>1, <1>2, <1>3, <1>4, <1>5, <1>6, <1>7 DEF Inp!Pass

Stepped == Inp!TypeOK /\ PoolTyped /\ Inp!Next

-----------------------------------------------------------------------------
(* The timers *)

\* What happens to the timers but for keys and for the timer that runs.
Dropped == \E id \in Id \union {Inp!None, Inp!Disabled} :
  /\ timers' = timers \ Inp!Cancelled(id) /\ cut' = (cut \/ Inp!Cuts(Inp!Cancelled(id)))
  /\ UNCHANGED <<running, repeatId>>

Added == \E t \in Inp!Timer :
  /\ Inp!Free(t.id) /\ timers' = timers \union {t} /\ t.kind \in {"left", "home"}
  /\ \E m \in AllSaid : Passes(t.s, m)
  /\ UNCHANGED <<running, repeatId, cut>>

TimersStay == UNCHANGED <<timers, running, repeatId, cut>>

LEMMA ButtonTimers ==
  ASSUME Stepped, ButtonStep
  PROVE  TimersStay \/ Added
<1>1. PICK s \in Streamer, m \in AllSaid :
        Passes(s, m) /\ m.release \in BOOLEAN /\ Inp!Button(s, m.b, m.release)
  BY DEF ButtonStep
<1>2. UNCHANGED <<running, repeatId, cut>>
  BY <1>1 DEF Passes, Served, Inp!Button, Inp!keyVars
<1>3. CASE UNCHANGED timers
  BY <1>2, <1>3 DEF TimersStay
<1>4. CASE \E i \in Id : Inp!Free(i)
             /\ timers' = timers \union {[id |-> i, kind |-> "left", s |-> s]}
  <2>1. PICK i \in Id : Inp!Free(i)
             /\ timers' = timers \union {[id |-> i, kind |-> "left", s |-> s]}
    BY <1>4
  <2> DEFINE t == [id |-> i, kind |-> "left", s |-> s]
  <2>2. t \in Inp!Timer /\ t.id = i /\ t.kind = "left" /\ t.s = s
    BY DEF Inp!Timer
  <2> QED BY <1>1, <1>2, <2>1, <2>2 DEF Added
<1> QED BY <1>1, <1>3, <1>4 DEF Inp!Button

LEMMA PadTimers ==
  ASSUME Stepped, PadStep
  PROVE  TimersStay \/ Added \/ Dropped
<1>1. PICK s \in Streamer, m \in AllSaid :
        /\ Passes(s, m)
        /\ Inp!PadArrives(s) \/ Inp!PadLeaves(s) \/ Inp!PadSense(s)
             \/ (m.back \in BOOLEAN /\ Inp!PadState(s, m.back))
        /\ UNCHANGED <<Inp!mouseVars, Inp!keyVars, Inp!wheelVars, Inp!portVars>>
  BY DEF PadStep
<1>2. UNCHANGED <<running, repeatId>>
  BY <1>1 DEF Passes, Served, Inp!keyVars
<1>3. CASE UNCHANGED <<timers, cut>>
  BY <1>2, <1>3 DEF TimersStay
<1>4. CASE Inp!PadArrives(s) \/ Inp!PadLeaves(s) \/ Inp!PadSense(s)
  BY <1>3, <1>4 DEF Inp!PadArrives, Inp!PadLeaves, Inp!PadSense
<1>5. CASE /\ cut' = cut
           /\ \E i \in Id : Inp!Free(i)
                /\ timers' = timers \union {[id |-> i, kind |-> "home", s |-> s]}
  <2>1. PICK i \in Id : Inp!Free(i)
             /\ timers' = timers \union {[id |-> i, kind |-> "home", s |-> s]}
    BY <1>5
  <2> DEFINE t == [id |-> i, kind |-> "home", s |-> s]
  <2>2. t \in Inp!Timer /\ t.id = i /\ t.kind = "home" /\ t.s = s
    BY DEF Inp!Timer
  <2> QED BY <1>1, <1>2, <1>5, <2>1, <2>2 DEF Added
<1>6. CASE /\ timers' = timers \ Inp!Cancelled(backId[s])
           /\ cut' = (cut \/ Inp!Cuts(Inp!Cancelled(backId[s])))
  <2>1. backId[s] \in Id \union {Inp!None, Inp!Disabled}
    BY DEF Stepped, Inp!TypeOK
  <2> QED BY <1>2, <1>6, <2>1 DEF Dropped
<1>7. CASE Inp!PadState(s, m.back)
  BY <1>3, <1>5, <1>6, <1>7 DEF Inp!PadState
<1> QED BY <1>1, <1>4, <1>7

LEMMA EndTimers ==
  ASSUME Stepped, EndStep
  PROVE  TimersStay \/ Dropped
<1>1. PICK s \in Streamer : Inp!ResetRepeat(s) \/ Inp!ResetLeft(s) \/ Inp!ResetPush(s)
  BY DEF EndStep
<1>2. repeatId \in Id \union {Inp!None, Inp!Disabled}
      /\ leftId[s] \in Id \union {Inp!None, Inp!Disabled}
  BY DEF Stepped, Inp!TypeOK
<1> QED BY <1>1, <1>2 DEF TimersStay, Dropped, Inp!ResetRepeat, Inp!ResetLeft, Inp!ResetPush,
     Inp!keyVars

\* What happens to the timers.
LEMMA TimerCases ==
  ASSUME Stepped
  PROVE  \/ TimersStay \/ Dropped \/ Added \/ FireStep \/ KeyDownStep
         \/ LeftStep \/ HomeStep \/ RepeatStep
<1>1. CASE SendStep \/ CaptureStep \/ ReleaseStep \/ FreeStep \/ DestroyStep
  BY <1>1 DEF SendStep, CaptureStep, ReleaseStep, FreeStep, DestroyStep, TimersStay, Served,
     Inp!Send, Inp!Capture, Inp!Release, Inp!Destroy, Inp!poolVars, Inp!keyVars
<1>2. CASE MoveStep \/ DrawStep \/ ScrollStep \/ KeyUpStep
  BY <1>2 DEF MoveStep, DrawStep, ScrollStep, KeyUpStep, TimersStay, Passes, Served, Inp!Move,
     Inp!Draw, Inp!Scroll, Inp!KeyUp, Inp!keyVars
<1> QED BY <1>1, <1>2, StepCases, PassCases, ButtonTimers, PadTimers, EndTimers DEF Stepped

\* A key goes down: the key that repeats is replaced.
Replaced(t) ==
  /\ Inp!Free(t.id) /\ timers' = (timers \ Inp!Cancelled(repeatId)) \union {t}
  /\ cut' = (cut \/ Inp!Cuts(Inp!Cancelled(repeatId)))
  /\ repeatId' = t.id

LEMMA KeyDownTimers ==
  ASSUME Stepped, KeyDownStep
  PROVE  \/ TimersStay
         \/ /\ UNCHANGED running /\ running = {}
            /\ \E t \in Inp!Timer :
                 /\ t.kind = "repeat" /\ t.with \subseteq {"leftShift"} /\ t.key \notin t.with
                 /\ Replaced(t)
<1>1. PICK s \in Streamer, m \in AllSaid :
        /\ Passes(s, m) /\ m.key \in Inp!Key /\ m.shift \in BOOLEAN
        /\ Inp!KeyDown(s, m.key, m.shift)
  BY DEF KeyDownStep
<1>2. UNCHANGED running /\ running = {}
  BY <1>1 DEF Passes, Served
<1>3. CASE m.key \in keyPress \/ Inp!IsShortcut(s, m.key)
  BY <1>1, <1>2, <1>3 DEF Inp!KeyDown, Inp!keyVars, TimersStay
<1>4. CASE m.key \notin keyPress /\ ~Inp!IsShortcut(s, m.key)
  <2> DEFINE with == Inp!Synthetic(s, m.key, m.shift)
  <2>1. PICK i \in Id :
          /\ Inp!Free(i)
          /\ timers' = (timers \ Inp!CancelRepeat)
                         \union {[id |-> i, kind |-> "repeat", key |-> m.key, with |-> with]}
          /\ cut' = (cut \/ Inp!Cuts(Inp!CancelRepeat))
          /\ repeatId' = i
    BY <1>1, <1>4 DEF Inp!KeyDown
  <2>2. with \subseteq {"leftShift"} /\ m.key \notin with /\ with \subseteq Inp!Shift
    BY DEF Inp!Synthetic, Inp!Shift
  <2> DEFINE t == [id |-> i, kind |-> "repeat", key |-> m.key, with |-> with]
  <2>3. t \in Inp!Timer /\ t.id = i /\ t.kind = "repeat" /\ t.key = m.key /\ t.with = with
    BY <1>1, <2>2 DEF Inp!Timer
  <2> QED BY <1>2, <2>1, <2>2, <2>3 DEF Replaced, Inp!CancelRepeat
<1> QED BY <1>3, <1>4

LEMMA RepeatTimers ==
  ASSUME Stepped, RepeatStep, OneRepeats
  PROVE  /\ cut' = cut /\ running' = {}
         /\ \E t \in running :
              /\ t.kind = "repeat" /\ running = {t}
              /\ \/ timers' = timers /\ repeatId' = Inp!None
                 \/ \E u \in Inp!Timer :
                      /\ u.kind = "repeat" /\ u.with = t.with /\ u.key = t.key
                      /\ Inp!Free(u.id) /\ timers' = timers \union {u} /\ repeatId' = u.id
<1>1. PICK t \in running :
        /\ Ran(t) /\ t.kind = "repeat" /\ t.key \in Inp!Key /\ t.with \subseteq Inp!Shift
        /\ Inp!RepeatKey(t.key, t.with)
  BY DEF RepeatStep
<1>2. cut' = cut /\ running' = {} /\ running = {t}
  BY <1>1 DEF Ran, Stepped, PoolTyped
<1>3. CASE t.key \notin keyPress
  BY <1>1, <1>2, <1>3 DEF Inp!RepeatKey
<1>4. CASE t.key \in keyPress
  <2>1. PICK i \in Id :
          /\ Inp!Free(i)
          /\ timers' = timers
               \union {[id |-> i, kind |-> "repeat", key |-> t.key, with |-> t.with]}
          /\ repeatId' = i
    BY <1>1, <1>4 DEF Inp!RepeatKey
  <2> DEFINE u == [id |-> i, kind |-> "repeat", key |-> t.key, with |-> t.with]
  <2>2. u \in Inp!Timer /\ u.id = i /\ u.kind = "repeat" /\ u.key = t.key /\ u.with = t.with
    BY <1>1 DEF Inp!Timer
  <2> QED BY <1>1, <1>2, <2>1, <2>2
<1> QED BY <1>3, <1>4

\* The pool keeps its form.
LEMMA TimersKeep ==
  ASSUME Stepped, OneRepeats
  PROVE  /\ timers' \subseteq Inp!Timer /\ running' \subseteq Inp!Timer
         /\ repeatId' \in Id \union {Inp!None}
         /\ timers' \intersect running' = {}
         /\ \A t, u \in running' : t = u
         /\ \A t, u \in Held' : t.id = u.id => t = u
         /\ OneRepeats'
<1> USE DEF Stepped
<1>t. /\ timers \subseteq Inp!Timer /\ running \subseteq Inp!Timer
      /\ repeatId \in Id \union {Inp!None}
      /\ timers \intersect running = {}
      /\ \A t, u \in running : t = u
      /\ \A t, u \in timers \union running : t.id = u.id => t = u
  BY DEF Inp!TypeOK, PoolTyped, Held
<1>r. \A t \in timers \union running :
         t.kind = "repeat" => /\ t.id = repeatId
                              /\ t.with \subseteq {"leftShift"} /\ t.key \notin t.with
  BY DEF OneRepeats, Held
<1>1. CASE TimersStay
  BY <1>1, <1>t, <1>r DEF TimersStay, Held, OneRepeats
<1>2. CASE Dropped
  BY <1>2, <1>t, <1>r DEF Dropped, Held, OneRepeats
<1>3. CASE Added
  BY <1>3, <1>t, <1>r DEF Added, Held, OneRepeats, Inp!Free
<1>4. CASE FireStep
  BY <1>4, <1>t, <1>r DEF FireStep, Inp!Fire, Inp!keyVars, Held, OneRepeats
<1>5. CASE LeftStep \/ HomeStep
  BY <1>5, <1>t, <1>r DEF LeftStep, HomeStep, Ran, Inp!keyVars, Held, OneRepeats
<1>6. CASE KeyDownStep
  <2>1. CASE /\ UNCHANGED running /\ running = {}
             /\ \E t \in Inp!Timer :
                  /\ t.kind = "repeat" /\ t.with \subseteq {"leftShift"} /\ t.key \notin t.with
                  /\ Replaced(t)
    <3>1. PICK t \in Inp!Timer :
            /\ t.kind = "repeat" /\ t.with \subseteq {"leftShift"} /\ t.key \notin t.with
            /\ Replaced(t)
      BY <2>1
    <3>2. /\ running' = {} /\ timers' = (timers \ Inp!Cancelled(repeatId)) \union {t}
          /\ repeatId' = t.id /\ t.id \in Id /\ t \in Inp!Timer /\ \A u \in timers : u.id # t.id
      BY <2>1, <3>1, TimerFields DEF Replaced, Inp!Free
    <3>3. \A u \in timers' : u = t \/ (u \in timers /\ u.kind # "repeat" /\ u.id # t.id)
      BY <3>2, <1>r DEF Inp!Cancelled
    <3>4. /\ timers' \subseteq Inp!Timer /\ running' \subseteq Inp!Timer
          /\ repeatId' \in Id \union {Inp!None}
          /\ timers' \intersect running' = {} /\ \A u, v \in running' : u = v
      BY <1>t, <3>2, <3>3
    <3>5. \A u, v \in Held' : u.id = v.id => u = v
      BY <1>t, <3>2, <3>3 DEF Held
    <3>6. OneRepeats'
      BY <3>1, <3>2, <3>3 DEF Held, OneRepeats
    <3> QED BY <3>4, <3>5, <3>6
  <2> QED BY <1>1, <1>6, <2>1, KeyDownTimers
<1>7. CASE RepeatStep
  <2>1. PICK t \in running :
          /\ t.kind = "repeat" /\ running = {t} /\ running' = {}
          /\ \/ timers' = timers /\ repeatId' = Inp!None
             \/ \E u \in Inp!Timer :
                  /\ u.kind = "repeat" /\ u.with = t.with /\ u.key = t.key
                  /\ Inp!Free(u.id) /\ timers' = timers \union {u} /\ repeatId' = u.id
    BY <1>7, RepeatTimers
  <2>2. /\ \A v \in timers : v.kind # "repeat"
        /\ t.with \subseteq {"leftShift"} /\ t.key \notin t.with
    BY <2>1, <1>t, <1>r
  <2>3. CASE timers' = timers /\ repeatId' = Inp!None
    BY <2>1, <2>2, <2>3, <1>t DEF Held, OneRepeats
  <2>4. CASE \E u \in Inp!Timer :
               /\ u.kind = "repeat" /\ u.with = t.with /\ u.key = t.key
               /\ Inp!Free(u.id) /\ timers' = timers \union {u} /\ repeatId' = u.id
    <3>1. PICK u \in Inp!Timer :
               /\ u.kind = "repeat" /\ u.with = t.with /\ u.key = t.key
               /\ Inp!Free(u.id) /\ timers' = timers \union {u} /\ repeatId' = u.id
      BY <2>4
    <3>2. u.id \in Id /\ \A v \in timers : v.id # u.id
      BY <3>1, TimerFields DEF Inp!Free
    <3>3. \A v \in timers' : v = u \/ (v \in timers /\ v.kind # "repeat" /\ v.id # u.id)
      BY <3>1, <3>2, <2>2
    <3>4. /\ timers' \subseteq Inp!Timer /\ running' \subseteq Inp!Timer
          /\ repeatId' \in Id \union {Inp!None}
          /\ timers' \intersect running' = {} /\ \A v, w \in running' : v = w
      BY <1>t, <2>1, <3>1, <3>2
    <3>5. \A v, w \in Held' : v.id = w.id => v = w
      BY <1>t, <2>1, <3>3 DEF Held
    <3>6. OneRepeats'
      BY <2>1, <2>2, <3>1, <3>3 DEF Held, OneRepeats
    <3> QED BY <3>4, <3>5, <3>6
  <2> QED BY <2>1, <2>3, <2>4
<1> QED BY <1>1, <1>2, <1>3, <1>4, <1>5, <1>6, <1>7, TimerCases

-----------------------------------------------------------------------------
(* The tasks, and the lives of the clients *)

Queued(t) == inputTasks' = Append(inputTasks, t)

LEMMA QueuedTask ==
  ASSUME PoolTyped, NEW t \in Task, Queued(t)
  PROVE  /\ inputTasks' \in Seq(Task) /\ Len(inputTasks) \in Nat
         /\ Len(inputTasks') = Len(inputTasks) + 1
         /\ \A i \in 1..Len(inputTasks) : inputTasks'[i] = inputTasks[i]
         /\ inputTasks'[Len(inputTasks) + 1] = t
BY DEF PoolTyped, Queued

LEMMA ServedTasks ==
  ASSUME PoolTyped, Served
  PROVE  /\ inputTasks' \in Seq(Task) /\ Len(inputTasks) \in Nat /\ Len(inputTasks) >= 1
         /\ Len(inputTasks') = Len(inputTasks) - 1
         /\ \A i \in 1..Len(inputTasks') : inputTasks'[i] = inputTasks[i + 1]
BY FirstIsTask DEF Served

LEMMA TaskCases ==
  ASSUME Stepped
  PROVE  \/ UNCHANGED <<inputTasks, life>>
         \/ SendStep \/ EndStep \/ DestroyStep
         \/ Served
<1>1. CASE FireStep \/ CaptureStep \/ LeftStep \/ RepeatStep \/ HomeStep
  BY <1>1 DEF FireStep, Inp!Fire, CaptureStep, Inp!Capture, LeftStep, RepeatStep, HomeStep,
     Ran, Inp!poolVars
<1>2. CASE PassStep \/ ReleaseStep \/ FreeStep
  BY <1>2 DEF PassStep, Passes, ReleaseStep, FreeStep
<1> QED BY <1>1, <1>2, StepCases DEF Stepped

\* A client that may still say something could before; and who is gone stays so.
LEMMA LivesKeep ==
  ASSUME Stepped
  PROVE  /\ inputTasks' \in Seq(Task)
         /\ life' \in [Streamer -> Inp!Life]
         /\ \A s \in Streamer : /\ Inp!Types(s)' => Inp!Types(s)
                                /\ life'[s] = "up" => life[s] = "up"
                                /\ life[s] = "gone" => life'[s] = "gone"
<1>t. PoolTyped /\ inputTasks \in Seq(Task) /\ life \in [Streamer -> Inp!Life]
  BY DEF Stepped, PoolTyped, Inp!TypeOK
<1>1. CASE UNCHANGED <<inputTasks, life>>
  BY <1>1, <1>t DEF Inp!Types
<1>2. CASE SendStep
  <2>1. PICK s \in Streamer, m \in AllSaid : Inp!Send(s, m)
    BY <1>2 DEF SendStep
  <2> DEFINE t == [kind |-> "pass", s |-> s, m |-> m]
  <2>2. t \in Task /\ Queued(t) /\ life' = life /\ life[s] = "up" /\ t.s = s
    BY <2>1 DEF Task, Queued, Inp!Send
  <2> HIDE DEF t
  <2> QED BY <2>2, <1>t, QueuedTask DEF Inp!Types
<1>3. CASE EndStep
  <2>1. PICK s \in Streamer : Inp!ResetRepeat(s) \/ Inp!ResetLeft(s) \/ Inp!ResetPush(s)
    BY <1>3 DEF EndStep
  <2>2. CASE Inp!ResetRepeat(s) \/ Inp!ResetLeft(s)
    BY <2>2, <1>t DEF Inp!ResetRepeat, Inp!ResetLeft, Inp!Types, Inp!Life
  <2>3. CASE Inp!ResetPush(s)
    <3> DEFINE t == [kind |-> "reset"]
    <3>1. t \in Task /\ Queued(t) /\ t.kind = "reset"
      BY <2>3 DEF Task, Queued, Inp!ResetPush
    <3>2. life[s] = "cancelled" /\ life' = [life EXCEPT ![s] = "reset"]
      BY <2>3 DEF Inp!ResetPush
    <3> HIDE DEF t
    <3> QED BY <3>1, <3>2, <1>t, QueuedTask DEF Inp!Types, Inp!Life
  <2> QED BY <2>1, <2>2, <2>3
<1>4. CASE DestroyStep
  <2>1. PICK s \in Streamer : Inp!Destroy(s)
    BY <1>4 DEF DestroyStep
  <2>2. life[s] = "reset" /\ life' = [life EXCEPT ![s] = "gone"]
    BY <2>1 DEF Inp!Destroy
  <2>3. CASE inputTasks' = inputTasks
    BY <2>2, <2>3, <1>t DEF Inp!Types, Inp!Life
  <2>4. CASE inputPad[s] # Inp!NoPad /\ Queued([kind |-> "free", pad |-> inputPad[s]])
    <3> DEFINE t == [kind |-> "free", pad |-> inputPad[s]]
    <3>1. t \in Task /\ Queued(t) /\ t.kind = "free"
      BY <2>4 DEF Task, Stepped, Inp!TypeOK
    <3> HIDE DEF t
    <3> QED BY <3>1, <2>2, <1>t, QueuedTask DEF Inp!Types, Inp!Life
  <2> QED BY <2>1, <2>3, <2>4 DEF Inp!Destroy, Queued
<1>5. CASE Served
  <2>1. life' = life
    BY <1>5 DEF Served
  <2> QED BY <2>1, <1>t, <1>5, ServedTasks DEF Inp!Types
<1> QED BY <1>1, <1>2, <1>3, <1>4, <1>5, TaskCases

-----------------------------------------------------------------------------
(* The keys *)

LEMMA KeyCases ==
  ASSUME Stepped
  PROVE  \/ UNCHANGED <<osKeys, keyPress, shifted, cursor, lifted, unshifted>>
         \/ KeyUpStep \/ KeyDownStep \/ ReleaseStep \/ RepeatStep
<1>1. CASE SendStep \/ FireStep \/ CaptureStep \/ FreeStep \/ LeftStep \/ HomeStep \/ EndStep
           \/ DestroyStep
  BY <1>1 DEF SendStep, FireStep, CaptureStep, FreeStep, LeftStep, HomeStep, EndStep,
     DestroyStep, Inp!Send, Inp!Fire, Inp!Capture, Inp!ResetRepeat, Inp!ResetLeft,
     Inp!ResetPush, Inp!Destroy, Inp!keyVars
<1>2. CASE ButtonStep \/ MoveStep \/ DrawStep \/ ScrollStep \/ PadStep
  BY <1>2 DEF ButtonStep, MoveStep, DrawStep, ScrollStep, PadStep, Inp!Button, Inp!Move,
     Inp!Draw, Inp!Scroll, Inp!keyVars
<1> QED BY <1>1, <1>2, StepCases, PassCases DEF Stepped

KeysTyped == /\ keyPress \subseteq Inp!Key /\ osKeys \subseteq Inp!Key
             /\ shifted \subseteq Streamer
             /\ cursor \in BOOLEAN /\ lifted \in BOOLEAN /\ unshifted \in BOOLEAN

\* What is known of the keys before a client's further messages.
KeyForm == /\ osKeys \subseteq keyPress /\ keyPress \ osKeys \subseteq {"leftShift"}
           /\ ~lifted => osKeys = keyPress

\* The equations of send_key_and_modifiers() keep it.
LEMMA SendDownKeeps ==
  ASSUME KeyForm, NEW k, NEW with \in SUBSET {"leftShift"}, k \notin with,
         Inp!SendDown(k, with), keyPress' = keyPress \union {k}
  PROVE  KeyForm' /\ (~lifted' => ~lifted)
<1>1. /\ osKeys' = (osKeys \ with) \union {k}
      /\ ~lifted' => ~lifted /\ with \intersect keyPress = {}
  BY DEF Inp!SendDown
<1> QED BY <1>1 DEF KeyForm

LEMMA KeyDownKeeps ==
  ASSUME Stepped, KeysAreKnown, KeyDownStep
  PROVE  KeysAreKnown' /\ KeysTyped'
<1>1. PICK s \in Streamer, m \in AllSaid :
        /\ Passes(s, m) /\ m.key \in Inp!Key /\ m.shift \in BOOLEAN
        /\ Inp!KeyDown(s, m.key, m.shift)
  BY DEF KeyDownStep
<1> DEFINE k == m.key
           with == Inp!Synthetic(s, k, m.shift)
<1>t. KeysTyped /\ (\A o \in Streamer : Inp!Types(o)' => Inp!Types(o)) /\ k \in Inp!Key
  BY <1>1, LivesKeep DEF Stepped, Inp!TypeOK, KeysTyped
<1>2. CASE UNCHANGED <<osKeys, keyPress, shifted, lifted, unshifted>> /\ cursor' \in BOOLEAN
  BY <1>2, <1>t DEF KeysAreKnown, KeysTyped
<1>3. CASE k \in keyPress
  BY <1>1, <1>2, <1>3, <1>t DEF Inp!KeyDown, Inp!keyVars, KeysTyped
<1>4. CASE k \notin keyPress /\ Inp!IsShortcut(s, k)
  BY <1>1, <1>2, <1>4 DEF Inp!KeyDown
<1>5. CASE k \notin keyPress /\ ~Inp!IsShortcut(s, k)
  <2>1. /\ keyPress' = keyPress \union {k} /\ Inp!SendDown(k, with) /\ Inp!Flagged(s, k, FALSE)
        /\ unshifted' = (unshifted \/ (m.shift /\ k \notin Inp!Shift
                              /\ (osKeys \union with) \intersect Inp!Shift = {}))
        /\ cursor' = cursor
    BY <1>1, <1>5 DEF Inp!KeyDown
  <2>2. with \in SUBSET {"leftShift"} /\ k \notin with
    BY DEF Inp!Synthetic, Inp!Shift
  <2>3. KeyForm' /\ (~lifted' => ~lifted)
    BY <2>1, <2>2, SendDownKeeps DEF KeysAreKnown, KeyForm
  <2>4. shifted' = IF k \notin Inp!Shift THEN shifted ELSE shifted \union {s}
    BY <2>1 DEF Inp!Flagged
  <2>5. ~lifted' => \A o \in shifted' : Inp!Types(o)' => keyPress' \intersect Inp!Shift # {}
    BY <2>1, <2>3, <2>4, <1>t DEF KeysAreKnown, KeysTyped
  <2>6. Inp!Types(s)
    BY <1>1 DEF Inp!Types, Passes, Served, First, Stepped, PoolTyped
  <2>7. ~(m.shift /\ k \notin Inp!Shift /\ (osKeys \union with) \intersect Inp!Shift = {}) \/ lifted
    <3>1. SUFFICES ASSUME m.shift, k \notin Inp!Shift, ~lifted
                   PROVE  (osKeys \union with) \intersect Inp!Shift # {}
      OBVIOUS
    <3>2. CASE s \in shifted
      BY <3>1, <3>2, <2>6 DEF KeysAreKnown
    <3>3. CASE s \notin shifted
      BY <3>1, <3>3 DEF Inp!Synthetic, Inp!Shift
    <3> QED BY <3>2, <3>3
  <2>8. unshifted' => lifted'
    BY <2>1, <2>3, <2>7 DEF KeysAreKnown
  <2>9. lifted' \in BOOLEAN /\ unshifted' \in BOOLEAN
    BY <2>1 DEF Inp!SendDown
  <2> QED BY <2>1, <2>2, <2>3, <2>4, <2>5, <2>8, <2>9, <1>t
       DEF KeysAreKnown, KeyForm, KeysTyped, Inp!SendDown, Inp!Key, Inp!Shift
<1> QED BY <1>3, <1>4, <1>5

LEMMA KeyUpKeeps ==
  ASSUME Stepped, KeysAreKnown, KeyUpStep
  PROVE  KeysAreKnown' /\ KeysTyped'
<1>1. PICK s \in Streamer, m \in AllSaid :
        Passes(s, m) /\ m.key \in Inp!Key /\ Inp!KeyUp(s, m.key)
  BY DEF KeyUpStep
<1> DEFINE k == m.key
<1>t. KeysTyped /\ (\A o \in Streamer : Inp!Types(o)' => Inp!Types(o)) /\ k \in Inp!Key
  BY <1>1, LivesKeep DEF Stepped, Inp!TypeOK, KeysTyped
<1>2. unshifted' = unshifted /\ cursor' = cursor
  BY <1>1 DEF Inp!KeyUp
<1>3. CASE k \notin keyPress
  <2>1. UNCHANGED <<keyPress, osKeys, shifted, lifted>>
    BY <1>1, <1>3 DEF Inp!KeyUp
  <2> QED BY <2>1, <1>2, <1>t DEF KeysAreKnown, KeysTyped
<1>4. CASE k \in keyPress
  <2>1. /\ keyPress' = keyPress \ {k} /\ osKeys' = osKeys \ {k}
        /\ shifted' = IF k \notin Inp!Shift THEN shifted ELSE shifted \ {s}
        /\ lifted' = (lifted \/ (k \in Inp!Shift /\ \E o \in shifted \ {s} : Inp!Types(o)))
    BY <1>1, <1>4 DEF Inp!KeyUp, Inp!Flagged
  <2>2. ~lifted' => /\ ~lifted
                    /\ k \in Inp!Shift => \A o \in shifted \ {s} : ~Inp!Types(o)
    BY <2>1
  <2>3. ~lifted' => \A o \in shifted' : Inp!Types(o)' => keyPress' \intersect Inp!Shift # {}
    BY <2>1, <2>2, <1>t DEF KeysAreKnown, KeysTyped
  <2>4. lifted' \in BOOLEAN /\ (unshifted' => lifted')
    BY <2>1, <1>2 DEF KeysAreKnown
  <2> QED BY <2>1, <2>2, <2>3, <2>4, <1>2, <1>t DEF KeysAreKnown, KeysTyped
<1> QED BY <1>3, <1>4

LEMMA RepeatKeyKeeps ==
  ASSUME Stepped, KeysAreKnown, OneRepeats, RepeatStep
  PROVE  KeysAreKnown' /\ KeysTyped'
<1>1. PICK t \in running :
        /\ Ran(t) /\ t.kind = "repeat" /\ Inp!RepeatKey(t.key, t.with)
        /\ UNCHANGED <<keyPress, shifted, cursor, unshifted>>
  BY DEF RepeatStep
<1>t. /\ KeysTyped /\ (\A o \in Streamer : Inp!Types(o)' => Inp!Types(o))
      /\ t.with \in SUBSET {"leftShift"} /\ t.key \notin t.with
  BY <1>1, LivesKeep DEF Stepped, Inp!TypeOK, KeysTyped, OneRepeats, Held
<1>2. CASE t.key \notin keyPress
  BY <1>1, <1>2, <1>t DEF Inp!RepeatKey, KeysAreKnown, KeysTyped
<1>3. CASE t.key \in keyPress
  <2>1. Inp!SendDown(t.key, t.with) /\ keyPress' = keyPress \union {t.key}
    BY <1>1, <1>3 DEF Inp!RepeatKey
  <2>2. KeyForm' /\ (~lifted' => ~lifted)
    BY <2>1, <1>t, SendDownKeeps DEF KeysAreKnown, KeyForm
  <2>3. lifted' \in BOOLEAN /\ (unshifted' => lifted')
    BY <2>1, <1>1 DEF KeysAreKnown, Inp!SendDown
  <2> QED BY <1>1, <1>3, <2>1, <2>2, <2>3, <1>t
       DEF KeysAreKnown, KeyForm, KeysTyped, Inp!SendDown, Inp!Key
<1> QED BY <1>2, <1>3

LEMMA KeysKeep ==
  ASSUME Stepped, KeysAreKnown, OneRepeats
  PROVE  KeysAreKnown' /\ KeysTyped'
<1>t. KeysTyped /\ (\A o \in Streamer : Inp!Types(o)' => Inp!Types(o))
  BY LivesKeep DEF Stepped, Inp!TypeOK, KeysTyped
<1>1. CASE UNCHANGED <<osKeys, keyPress, shifted, cursor, lifted, unshifted>>
  BY <1>1, <1>t DEF KeysAreKnown, KeysTyped
<1>2. CASE ReleaseStep
  <2>1. /\ osKeys' = osKeys \ keyPress /\ keyPress' = {}
        /\ lifted' = (lifted \/ \E s \in shifted : Inp!Types(s))
        /\ UNCHANGED <<shifted, cursor, unshifted>>
    BY <1>2 DEF ReleaseStep, Inp!Release, Inp!LetGo
  <2>2. osKeys' = {} /\ lifted' \in BOOLEAN /\ (unshifted' => lifted')
        /\ (~lifted' => ~lifted /\ \A s \in shifted : ~Inp!Types(s))
    BY <2>1 DEF KeysAreKnown
  <2> QED BY <2>1, <2>2, <1>t DEF KeysAreKnown, KeysTyped
<1> QED BY <1>1, <1>2, KeyCases, KeyDownKeeps, KeyUpKeeps, RepeatKeyKeeps

-----------------------------------------------------------------------------
(* The buttons *)

LEMMA ButtonCases ==
  ASSUME Stepped
  PROVE  \/ UNCHANGED <<mousePress, osButtons>>
         \/ ButtonStep \/ ReleaseStep \/ LeftStep
<1>1. CASE SendStep \/ FireStep \/ CaptureStep \/ FreeStep \/ RepeatStep \/ HomeStep
           \/ EndStep \/ DestroyStep
  BY <1>1 DEF SendStep, FireStep, CaptureStep, FreeStep, RepeatStep, HomeStep, EndStep,
     DestroyStep, Inp!Send, Inp!Fire, Inp!Capture, Inp!ResetRepeat, Inp!ResetLeft,
     Inp!ResetPush, Inp!Destroy, Inp!mouseVars
<1>2. CASE KeyUpStep \/ KeyDownStep \/ MoveStep \/ DrawStep \/ ScrollStep \/ PadStep
  BY <1>2 DEF KeyUpStep, KeyDownStep, MoveStep, DrawStep, ScrollStep, PadStep, Inp!Move,
     Inp!Draw, Inp!Scroll, Inp!mouseVars, OthersThanKeys
<1> QED BY <1>1, <1>2, StepCases, PassCases DEF Stepped

LeftWaits == \E t \in Held : t.kind = "left"

\* A release of the left button that waits goes on waiting, unless it is cancelled or due.
LEMMA LeftGoesOn ==
  ASSUME Stepped, OneRepeats
  PROVE  /\ cut' \in BOOLEAN /\ (cut => cut')
         /\ LeftStep \/ (LeftWaits /\ ~cut' => LeftWaits')
<1>t. cut \in BOOLEAN
  BY DEF Stepped, Inp!TypeOK
<1>1. CASE TimersStay
  BY <1>1, <1>t DEF TimersStay, LeftWaits, Held
<1>2. CASE Dropped
  <2>1. PICK id \in Id \union {Inp!None, Inp!Disabled} :
          /\ timers' = timers \ Inp!Cancelled(id)
          /\ cut' = (cut \/ Inp!Cuts(Inp!Cancelled(id))) /\ running' = running
    BY <1>2 DEF Dropped
  <2>2. /\ cut' \in BOOLEAN /\ (cut => cut')
        /\ ~cut' => \A t \in Inp!Cancelled(id) : t.kind # "left"
    BY <2>1 DEF Inp!Cuts
  <2> QED BY <2>1, <2>2 DEF LeftWaits, Held
<1>3. CASE Added
  BY <1>3, <1>t DEF Added, LeftWaits, Held
<1>4. CASE FireStep
  BY <1>4, <1>t DEF FireStep, Inp!Fire, LeftWaits, Held
<1>5. CASE KeyDownStep
  <2>1. CASE running' = running /\ \E t \in Inp!Timer : Replaced(t)
    <3>1. PICK t \in Inp!Timer : Replaced(t)
      BY <2>1
    <3>2. /\ cut' \in BOOLEAN /\ (cut => cut')
          /\ ~cut' => \A u \in Inp!Cancelled(repeatId) : u.kind # "left"
      BY <3>1 DEF Replaced, Inp!Cuts
    <3> QED BY <2>1, <3>1, <3>2 DEF Replaced, LeftWaits, Held
  <2> QED BY <1>1, <1>5, <2>1, KeyDownTimers
<1>6. CASE LeftStep
  BY <1>6, <1>t DEF LeftStep, Ran
<1>7. CASE HomeStep
  <2>1. PICK t \in running : t.kind = "home" /\ Ran(t) /\ timers' = timers
    BY <1>7 DEF HomeStep
  <2> QED BY <2>1, <1>t DEF Ran, LeftWaits, Held, Stepped, PoolTyped
<1>8. CASE RepeatStep
  <2>1. PICK t \in running : t.kind = "repeat" /\ running = {t} /\ timers \subseteq timers'
    BY <1>8, RepeatTimers
  <2>2. cut' = cut
    BY <1>8, RepeatTimers
  <2> QED BY <2>1, <2>2, <1>t DEF LeftWaits, Held
<1> QED BY <1>1, <1>2, <1>3, <1>4, <1>5, <1>6, <1>7, <1>8, TimerCases

MouseTyped == mousePress \subseteq Inp!Tracked

LEMMA PressKeeps ==
  ASSUME Stepped, OneRepeats, ButtonsAreKnown, ButtonStep
  PROVE  ButtonsAreKnown' /\ MouseTyped'
<1>1. PICK s \in Streamer, m \in AllSaid :
        Passes(s, m) /\ m.release \in BOOLEAN /\ Inp!Button(s, m.b, m.release)
  BY DEF ButtonStep
<1> DEFINE b == m.b
           down == IF m.release THEN mousePress \ {b} ELSE mousePress \union {b}
<1>t. MouseTyped /\ cut' = cut
  BY <1>1 DEF Stepped, Inp!TypeOK, MouseTyped, Inp!Button
<1>w. LeftWaits /\ ~cut' => LeftWaits'
  <2>1. ~LeftStep
    BY <1>1 DEF LeftStep, Ran, Passes, Served
  <2> QED BY <2>1, LeftGoesOn
<1>2. CASE UNCHANGED <<mousePress, osButtons>>
  BY <1>2, <1>t, <1>w DEF ButtonsAreKnown, MouseTyped, LeftWaits
<1>3. CASE /\ b = "left" /\ m.release /\ mousePress' = down /\ osButtons' = osButtons
           /\ \E i \in Id : timers' = timers \union {[id |-> i, kind |-> "left", s |-> s]}
  <2>1. LeftWaits'
    <3>1. PICK i \in Id : timers' = timers \union {[id |-> i, kind |-> "left", s |-> s]}
      BY <1>3
    <3>2. [id |-> i, kind |-> "left", s |-> s].kind = "left"
      OBVIOUS
    <3> QED BY <3>1, <3>2 DEF LeftWaits, Held
  <2>2. mousePress' = mousePress \ {"left"}
    BY <1>3
  <2> QED BY <2>1, <2>2, <1>3, <1>t DEF ButtonsAreKnown, MouseTyped, LeftWaits
<1>4. CASE /\ b = "right" /\ ~m.release
           /\ osButtons' = osButtons \ {b} /\ mousePress' = down \ {b}
  BY <1>4, <1>t, <1>w DEF ButtonsAreKnown, MouseTyped, LeftWaits
<1>5. CASE /\ osButtons' = IF m.release THEN osButtons \ {b} ELSE osButtons \union {b}
           /\ mousePress' = Inp!Recorded(down)
  <2>1. mousePress' = down \intersect Inp!Tracked
    BY <1>5 DEF Inp!Recorded
  <2> QED BY <2>1, <1>5, <1>t, <1>w DEF ButtonsAreKnown, MouseTyped, LeftWaits
<1> QED BY <1>1, <1>2, <1>3, <1>4, <1>5 DEF Inp!Button, Inp!mouseVars

LEMMA ButtonsKeep ==
  ASSUME Stepped, OneRepeats, ButtonsAreKnown
  PROVE  ButtonsAreKnown' /\ MouseTyped'
<1>t. MouseTyped
  BY DEF Stepped, Inp!TypeOK, MouseTyped
<1>1. CASE LeftStep
  <2>1. PICK t \in running :
          Ran(t) /\ t.kind = "left" /\ Inp!LeftTimeout(t.s)
    BY <1>1 DEF LeftStep
  <2>2. cut' = cut
    BY <2>1 DEF Ran
  <2> QED BY <2>1, <2>2, <1>t DEF Inp!LeftTimeout, Inp!mouseVars, ButtonsAreKnown, MouseTyped
<1>2. CASE ~LeftStep /\ UNCHANGED <<mousePress, osButtons>>
  BY <1>2, <1>t, LeftGoesOn DEF ButtonsAreKnown, MouseTyped, LeftWaits
<1>3. CASE ~LeftStep /\ ReleaseStep
  <2>1. osButtons' = osButtons \ mousePress /\ mousePress' = {}
    BY <1>3 DEF ReleaseStep, Inp!Release, Inp!LetGo
  <2> QED BY <2>1, <1>3, LeftGoesOn DEF ButtonsAreKnown, MouseTyped, LeftWaits
<1> QED BY <1>1, <1>2, <1>3, ButtonCases, PressKeeps

-----------------------------------------------------------------------------
(* The delay of the left button, the wheels and the display *)

LeftTyped == leftId \in [Streamer -> Id \union {Inp!None, Inp!Disabled}]

LEMMA LeftTypeKeeps ==
  ASSUME Stepped
  PROVE  LeftTyped'
<1>t. LeftTyped
  BY DEF Stepped, Inp!TypeOK, LeftTyped
<1>1. CASE UNCHANGED leftId
  BY <1>1, <1>t DEF LeftTyped
<1>2. CASE SendStep \/ FireStep \/ CaptureStep \/ ReleaseStep \/ FreeStep \/ RepeatStep
           \/ HomeStep \/ EndStep \/ DestroyStep
  BY <1>1, <1>2 DEF SendStep, FireStep, CaptureStep, ReleaseStep, FreeStep, RepeatStep, HomeStep,
     EndStep, DestroyStep, Inp!Send, Inp!Fire, Inp!Capture, Inp!Release, Inp!ResetRepeat,
     Inp!ResetLeft, Inp!ResetPush, Inp!Destroy, Inp!mouseVars
<1>3. CASE KeyUpStep \/ KeyDownStep \/ DrawStep \/ ScrollStep \/ PadStep
  BY <1>1, <1>3 DEF KeyUpStep, KeyDownStep, DrawStep, ScrollStep, PadStep, Inp!Draw, Inp!Scroll,
     Inp!mouseVars, OthersThanKeys
<1>4. CASE ButtonStep
  BY <1>4, <1>t DEF ButtonStep, Inp!Button, Inp!mouseVars, LeftTyped
<1>5. CASE MoveStep
  BY <1>5, <1>t DEF MoveStep, Inp!Move, LeftTyped
<1>6. CASE LeftStep
  BY <1>6, <1>t DEF LeftStep, Inp!LeftTimeout, Inp!mouseVars, LeftTyped
<1> QED BY <1>2, <1>3, <1>4, <1>5, <1>6, StepCases, PassCases DEF Stepped

WheelTyped ==
  /\ rest \in [Streamer \X Inp!Way -> (1 - Inp!WheelDelta)..(Inp!WheelDelta - 1)]
  /\ turned \in [Streamer \X Inp!Way -> Int] /\ meantTurns \in [Streamer \X Inp!Way -> Int]

LEMMA WheelCases ==
  ASSUME Stepped
  PROVE  UNCHANGED <<rest, turned, meantTurns>> \/ ScrollStep
<1>1. CASE SendStep \/ FireStep \/ CaptureStep \/ ReleaseStep \/ FreeStep \/ RepeatStep
           \/ HomeStep \/ LeftStep \/ EndStep \/ DestroyStep
  BY <1>1 DEF SendStep, FireStep, CaptureStep, ReleaseStep, FreeStep, RepeatStep, HomeStep,
     LeftStep, EndStep, DestroyStep, Inp!Send, Inp!Fire, Inp!Capture, Inp!Release,
     Inp!ResetRepeat, Inp!ResetLeft, Inp!ResetPush, Inp!Destroy, Inp!wheelVars, Ran
<1>2. CASE KeyUpStep \/ KeyDownStep \/ DrawStep \/ MoveStep \/ ButtonStep \/ PadStep
  BY <1>2 DEF KeyUpStep, KeyDownStep, DrawStep, MoveStep, ButtonStep, PadStep, Inp!Draw,
     Inp!Move, Inp!Button, Inp!wheelVars, OthersThanKeys
<1> QED BY <1>1, <1>2, StepCases, PassCases DEF Stepped

\* What is left of a turn is less than a tick.
LEMMA TicksLeave ==
  ASSUME NEW d \in Int
  PROVE  /\ Inp!FullTicks(d) * 120 \in Int
         /\ d - Inp!FullTicks(d) * 120 \in -119..119
<1>1. CASE d < 0
  <2>1. Inp!FullTicks(d) = -((-d) \div 120)
    BY <1>1 DEF Inp!FullTicks, Inp!WheelDelta
  <2> DEFINE q == (-d) \div 120
  <2>2. q \in Int /\ 120 * q <= -d /\ -d < 120 * q + 120
    BY <1>1
  <2> HIDE DEF q
  <2> QED BY <2>1, <2>2 DEF q
<1>2. CASE d >= 0
  <2>1. Inp!FullTicks(d) = d \div 120
    BY <1>2 DEF Inp!FullTicks, Inp!WheelDelta
  <2> DEFINE q == d \div 120
  <2>2. q \in Int /\ 120 * q <= d /\ d < 120 * q + 120
    BY <1>2
  <2> HIDE DEF q
  <2> QED BY <2>1, <2>2 DEF q
<1> QED BY <1>1, <1>2

LEMMA WheelsKeep ==
  ASSUME Stepped, Inp!WheelIsKept
  PROVE  Inp!WheelIsKept' /\ WheelTyped'
<1>t. WheelTyped /\ \A w \in Streamer \X Inp!Way : turned[w] + rest[w] = meantTurns[w]
  BY DEF Stepped, Inp!TypeOK, WheelTyped, Inp!WheelIsKept
<1>1. CASE UNCHANGED <<rest, turned, meantTurns>>
  BY <1>1, <1>t DEF WheelTyped, Inp!WheelIsKept
<1>2. CASE ScrollStep
  <2>1. PICK s \in Streamer, m \in AllSaid :
          m.way \in Inp!Way /\ m.amount \in Int /\ Inp!Scroll(s, m.way, m.amount)
    BY <1>2 DEF ScrollStep
  <2> DEFINE w == <<s, m.way>>
             all == rest[w] + m.amount
             now == IF HighRes THEN m.amount ELSE Inp!FullTicks(all) * 120
             keeps == IF HighRes THEN rest[w] ELSE all - now
  <2>2. w \in Streamer \X Inp!Way /\ rest[w] \in -119..119 /\ m.amount \in Int
    BY <2>1, <1>t DEF WheelTyped, Inp!WheelDelta
  <2>3. all \in Int
    BY <2>2
  <2>4. now \in Int /\ keeps \in -119..119 /\ now + keeps = all
    BY <2>2, <2>3, TicksLeave
  <2>5. /\ turned' = [turned EXCEPT ![w] = @ + now]
        /\ meantTurns' = [meantTurns EXCEPT ![w] = @ + m.amount]
        /\ rest' = [rest EXCEPT ![w] = keeps]
    <3>1. /\ turned' = [turned EXCEPT ![w] = @ + now]
          /\ meantTurns' = [meantTurns EXCEPT ![w] = @ + m.amount]
          /\ rest' = IF HighRes THEN rest ELSE [rest EXCEPT ![w] = all - now]
      BY <2>1 DEF Inp!Scroll, Inp!WheelDelta
    <3>2. rest = [rest EXCEPT ![w] = rest[w]]
      BY <2>2, <1>t DEF WheelTyped
    <3> QED BY <3>1, <3>2
  <2> HIDE DEF w, now, keeps, all
  <2>6. all = rest[w] + m.amount
    BY DEF all
  <2>7. \A v \in Streamer \X Inp!Way :
          /\ turned'[v] = (IF v = w THEN turned[v] + now ELSE turned[v])
          /\ meantTurns'[v] = (IF v = w THEN meantTurns[v] + m.amount ELSE meantTurns[v])
          /\ rest'[v] = (IF v = w THEN keeps ELSE rest[v])
    BY <2>5, <1>t DEF WheelTyped
  <2>8. ASSUME NEW v \in Streamer \X Inp!Way
        PROVE  turned'[v] + rest'[v] = meantTurns'[v]
    <3>1. turned[v] \in Int /\ meantTurns[v] \in Int /\ rest[v] \in Int
          /\ turned[v] + rest[v] = meantTurns[v]
      BY <1>t DEF WheelTyped, Inp!WheelDelta
    <3> QED BY <2>2, <2>4, <2>6, <2>7, <3>1
  <2>9. WheelTyped'
    BY <2>2, <2>4, <2>5, <1>t DEF WheelTyped, Inp!WheelDelta
  <2> QED BY <2>8, <2>9 DEF Inp!WheelIsKept
<1> QED BY <1>1, <1>2, WheelCases

PortTyped ==
  /\ port \in [Streamer -> 1..MaxPort \union {0}]
  /\ inputRaised \in [Streamer -> 1..MaxPort \union {0}] /\ inputCaptured \in 1..MaxPort \union {0}

LEMMA PortCases ==
  ASSUME Stepped
  PROVE  \/ UNCHANGED <<port, inputRaised, inputCaptured>>
         \/ CaptureStep \/ \E s \in Streamer : life' = life /\ Inp!Placed(s)
<1>1. CASE SendStep \/ FireStep \/ ReleaseStep \/ FreeStep \/ RepeatStep \/ HomeStep \/ LeftStep
           \/ EndStep \/ DestroyStep
  BY <1>1 DEF SendStep, FireStep, ReleaseStep, FreeStep, RepeatStep, HomeStep,
     LeftStep, EndStep, DestroyStep, Inp!Send, Inp!Fire, Inp!Release,
     Inp!ResetRepeat, Inp!ResetLeft, Inp!ResetPush, Inp!Destroy, Inp!portVars, Ran
<1>2. CASE KeyUpStep \/ KeyDownStep \/ ScrollStep \/ ButtonStep \/ PadStep
  BY <1>2 DEF KeyUpStep, KeyDownStep, ScrollStep, ButtonStep, PadStep, Inp!Scroll,
     Inp!Button, Inp!portVars, OthersThanKeys
<1>3. CASE MoveStep \/ DrawStep
  BY <1>3 DEF MoveStep, DrawStep, Inp!Move, Inp!Draw, Inp!portVars, Passes, Served
<1> QED BY <1>1, <1>2, <1>3, StepCases, PassCases DEF Stepped

LEMMA PortsKeep ==
  ASSUME Stepped, PortsAreCurrent
  PROVE  PortsAreCurrent' /\ PortTyped'
<1>t. /\ PortTyped
      /\ \A s \in Streamer : life'[s] = "up" => life[s] = "up"
  BY LivesKeep DEF Stepped, Inp!TypeOK, PortTyped
<1>1. CASE UNCHANGED <<port, inputRaised, inputCaptured>>
  BY <1>1, <1>t DEF PortsAreCurrent, PortTyped
<1>2. CASE CaptureStep
  <2>1. PICK d \in 1..MaxPort : Inp!Capture(d)
    BY <1>2 DEF CaptureStep
  <2>2. d # 0
    BY ClientAssumption
  <2> QED BY <2>1, <2>2, <1>t DEF Inp!Capture, PortsAreCurrent, PortTyped
<1>3. CASE \E s \in Streamer : life' = life /\ Inp!Placed(s)
  BY <1>3, <1>t DEF Inp!Placed, PortsAreCurrent, PortTyped
<1> QED BY <1>1, <1>2, <1>3, PortCases

-----------------------------------------------------------------------------
(* The pads *)

Pads == [Streamer -> PadIds \union {-1}]

LEMMA PadIsNotNone == -1 \notin PadIds
BY ClientAssumption

LEMMA OwnedAppend ==
  ASSUME NEW ts \in Seq(Task), NEW pads \in Pads, NEW taken \in SUBSET PadIds,
         Owned(ts, pads, taken), NEW t \in Task, t.kind # "free"
  PROVE  Owned(Append(ts, t), pads, taken)
<1> DEFINE us == Append(ts, t)
<1>1. /\ Len(ts) \in Nat /\ Len(us) = Len(ts) + 1
      /\ \A i \in 1..Len(ts) : us[i] = ts[i]
      /\ us[Len(ts) + 1] = t
  OBVIOUS
<1> HIDE DEF us
<1>2. \A i \in 1..Len(us) : us[i].kind = "free" => i \in 1..Len(ts) /\ us[i] = ts[i]
  BY <1>1
<1>3. \A i \in 1..Len(ts) : i \in 1..Len(us) /\ us[i] = ts[i]
  BY <1>1
<1> QED BY <1>2, <1>3 DEF Owned, us

LEMMA OwnedTail ==
  ASSUME NEW ts \in Seq(Task), ts # <<>>, NEW pads \in Pads, NEW taken \in SUBSET PadIds,
         Owned(ts, pads, taken), ts[1].kind # "free"
  PROVE  Owned(Tail(ts), pads, taken)
<1> DEFINE us == Tail(ts)
<1>1. /\ Len(ts) \in Nat /\ Len(ts) >= 1 /\ Len(us) = Len(ts) - 1
      /\ \A i \in 1..Len(us) : us[i] = ts[i + 1]
  OBVIOUS
<1> HIDE DEF us
<1>2. \A i \in 1..Len(us) : i + 1 \in 1..Len(ts) /\ us[i] = ts[i + 1]
  BY <1>1
<1>3. \A i \in 1..Len(ts) : ts[i].kind = "free" => i - 1 \in 1..Len(us) /\ us[i - 1] = ts[i]
  BY <1>1
<1>4. \A i, j \in 1..Len(us) : i + 1 = j + 1 => i = j
  OBVIOUS
<1> QED BY <1>2, <1>3, <1>4 DEF Owned, us

LEMMA OwnedFreed ==
  ASSUME NEW ts \in Seq(Task), ts # <<>>, NEW pads \in Pads, NEW taken \in SUBSET PadIds,
         Owned(ts, pads, taken), ts[1].kind = "free"
  PROVE  Owned(Tail(ts), pads, taken \ {ts[1].pad})
<1> DEFINE us == Tail(ts)
<1>1. /\ Len(ts) \in Nat /\ Len(ts) >= 1 /\ Len(us) = Len(ts) - 1
      /\ \A i \in 1..Len(us) : us[i] = ts[i + 1]
  OBVIOUS
<1> HIDE DEF us
<1>2. \A i \in 1..Len(us) : i + 1 \in 1..Len(ts) /\ us[i] = ts[i + 1] /\ i + 1 # 1
  BY <1>1
<1>3. \A i \in 1..Len(ts) : i = 1 \/ (i - 1 \in 1..Len(us) /\ us[i - 1] = ts[i])
  BY <1>1
<1>4. (\A i, j \in 1..Len(us) : i + 1 = j + 1 => i = j) /\ 1 \in 1..Len(ts)
  BY <1>1
<1> QED BY <1>2, <1>3, <1>4 DEF Owned, us

LEMMA OwnedTaken ==
  ASSUME NEW ts \in Seq(Task), NEW pads \in Pads, NEW taken \in SUBSET PadIds,
         Owned(ts, pads, taken), NEW s \in Streamer, pads[s] = -1, NEW id \in PadIds \ taken
  PROVE  Owned(ts, [pads EXCEPT ![s] = id], taken \union {id})
BY PadIsNotNone DEF Owned, Pads

LEMMA OwnedGivenUp ==
  ASSUME NEW ts \in Seq(Task), NEW pads \in Pads, NEW taken \in SUBSET PadIds,
         Owned(ts, pads, taken), NEW s \in Streamer, pads[s] # -1,
         \A i \in 1..Len(ts) : ts[i].kind = "free" => ts[i].pad \in PadIds
  PROVE  Owned(ts, [pads EXCEPT ![s] = -1], taken \ {pads[s]})
BY PadIsNotNone DEF Owned, Pads

LEMMA OwnedLeft ==
  ASSUME NEW ts \in Seq(Task), NEW pads \in Pads, NEW taken \in SUBSET PadIds,
         Owned(ts, pads, taken), NEW s \in Streamer, pads[s] # -1,
         \A i \in 1..Len(ts) : ts[i].kind = "free" => ts[i].pad \in PadIds
  PROVE  Owned(Append(ts, [kind |-> "free", pad |-> pads[s]]), [pads EXCEPT ![s] = -1], taken)
<1> DEFINE t == [kind |-> "free", pad |-> pads[s]]
           us == Append(ts, t)
           new == [pads EXCEPT ![s] = -1]
<1>1. /\ t.kind = "free" /\ t.pad = pads[s] /\ t \in Task
  BY DEF Task, Pads
<1>2. /\ Len(ts) \in Nat /\ Len(us) = Len(ts) + 1
      /\ \A i \in 1..Len(ts) : us[i] = ts[i]
      /\ us[Len(ts) + 1] = t
  BY <1>1
<1> HIDE DEF us, t
<1>3. \A i \in 1..Len(us) : \/ i \in 1..Len(ts) /\ us[i] = ts[i]
                            \/ i = Len(ts) + 1 /\ us[i] = t
  BY <1>2
<1>4. (\A i \in 1..Len(ts) : i \in 1..Len(us) /\ us[i] = ts[i]) /\ Len(ts) + 1 \in 1..Len(us)
  BY <1>2
<1>5. \A o \in Streamer : new[o] = IF o = s THEN -1 ELSE pads[o]
  BY DEF Pads
<1> HIDE DEF new
<1> QED BY <1>1, <1>2, <1>3, <1>4, <1>5, PadIsNotNone DEF Owned, us, t, new

PadTyped ==
  /\ inputPad \in Pads /\ mask \subseteq PadIds /\ inputAttached \subseteq PadIds
  /\ fed \subseteq PadIds \X Streamer /\ osBack \subseteq PadIds

PadVars == <<inputPad, mask, inputAttached, fed>>

LEMMA PadCases ==
  ASSUME Stepped
  PROVE  UNCHANGED <<PadVars, osBack>> \/ PadStep \/ FreeStep \/ HomeStep \/ DestroyStep
<1>1. CASE SendStep \/ FireStep \/ CaptureStep \/ ReleaseStep \/ LeftStep \/ RepeatStep
           \/ EndStep
  BY <1>1 DEF SendStep, FireStep, CaptureStep, ReleaseStep, RepeatStep, LeftStep, EndStep,
     Inp!Send, Inp!Fire, Inp!Capture, Inp!Release, Inp!ResetRepeat, Inp!ResetLeft,
     Inp!ResetPush, Inp!padVars, PadVars
<1>2. CASE KeyUpStep \/ KeyDownStep \/ ScrollStep \/ ButtonStep \/ MoveStep \/ DrawStep
  BY <1>2 DEF KeyUpStep, KeyDownStep, ScrollStep, ButtonStep, MoveStep, DrawStep,
     Inp!Scroll, Inp!Button, Inp!Move, Inp!Draw, Inp!padVars, OthersThanKeys, PadVars
<1> QED BY <1>1, <1>2, StepCases, PassCases DEF Stepped

\* A client takes a pad, gives it up, or neither.
Takes(s) == /\ inputPad[s] = -1
            /\ \E id \in PadIds \ mask :
                 /\ inputPad' = [inputPad EXCEPT ![s] = id]
                 /\ mask' = mask \union {id} /\ inputAttached' = inputAttached \union {id}
            /\ fed' = fed
GivesUp(s) == /\ inputPad[s] # -1 /\ inputPad' = [inputPad EXCEPT ![s] = -1]
              /\ mask' = mask \ {inputPad[s]} /\ inputAttached' = inputAttached \ {inputPad[s]}
              /\ fed' = {f \in fed : f[1] # inputPad[s]}
Feeds(s) == /\ UNCHANGED <<inputPad, mask, inputAttached>>
            /\ fed' = fed \/ (inputPad[s] # -1 /\ fed' = fed \union {<<inputPad[s], s>>})

LEMMA AllocPadIs ==
  ASSUME Stepped, NEW s \in Streamer, inputPad[s] = -1, Inp!AllocPad(s), fed' = fed
  PROVE  Takes(s) \/ Feeds(s)
<1> DEFINE unused == PadIds \ mask
           id == CHOOSE i \in unused : \A j \in unused : i <= j
<1>1. CASE UNCHANGED <<inputPad, mask, inputAttached>>
  BY <1>1 DEF Feeds
<1>2. CASE /\ unused # {} /\ inputPad' = [inputPad EXCEPT ![s] = id]
           /\ mask' = mask \union {id} /\ inputAttached' = inputAttached \union {id}
  <2>1. unused \in SUBSET PadIds
    OBVIOUS
  <2>2. \E i \in unused : \A j \in unused : i <= j
    BY <2>1, <1>2, ClientAssumption
  <2>3. id \in unused
    BY <2>2
  <2> HIDE DEF id
  <2> QED BY <1>2, <2>3 DEF Takes
<1> QED BY <1>1, <1>2 DEF Inp!AllocPad, Inp!MaskOnFailure

LEMMA PadStepIs ==
  ASSUME Stepped, PadStep
  PROVE  /\ \E s \in Streamer, m \in AllSaid : Passes(s, m) /\ (Takes(s) \/ GivesUp(s) \/ Feeds(s))
         /\ osBack' \subseteq PadIds
<1>1. PICK s \in Streamer, m \in AllSaid :
        /\ Passes(s, m)
        /\ Inp!PadArrives(s) \/ Inp!PadLeaves(s) \/ Inp!PadSense(s)
             \/ (m.back \in BOOLEAN /\ Inp!PadState(s, m.back))
  BY DEF PadStep
<1>t. PadTyped
  BY DEF Stepped, Inp!TypeOK, PadTyped, Pads, Inp!NoPad
<1>2. CASE Inp!PadArrives(s)
  BY <1>1, <1>2, <1>t, AllocPadIs DEF Inp!PadArrives, Feeds, PadTyped, Inp!NoPad
<1>3. CASE Inp!PadLeaves(s)
  BY <1>1, <1>3, <1>t DEF Inp!PadLeaves, Inp!FreePad, GivesUp, Feeds, PadTyped, Inp!NoPad
<1>4. CASE Inp!PadSense(s)
  BY <1>1, <1>4, <1>t DEF Inp!PadSense, Feeds, PadTyped, Inp!NoPad
<1>5. CASE m.back \in BOOLEAN /\ Inp!PadState(s, m.back)
  <2>1. Takes(s) \/ Feeds(s)
    BY <1>5, AllocPadIs DEF Inp!PadState, Feeds, Inp!NoPad
  <2>2. inputPad'[s] \in PadIds \union {-1}
    BY <2>1, <1>t DEF Takes, Feeds, PadTyped, Pads
  <2>3. \/ inputPad'[s] = -1 /\ osBack' = osBack
        \/ inputPad'[s] # -1 /\ (\/ osBack' = osBack \union {inputPad'[s]}
                                 \/ osBack' = osBack \ {inputPad'[s]})
    BY <1>5 DEF Inp!PadState, Inp!NoPad
  <2>4. osBack' \subseteq PadIds
    BY <2>2, <2>3, <1>t DEF PadTyped
  <2> QED BY <1>1, <2>1, <2>4
<1> QED BY <1>1, <1>2, <1>3, <1>4, <1>5

\* A task that frees nothing changes nothing about the owners.
LEMMA OwnedStays ==
  ASSUME Stepped, PadTyped, Owned(inputTasks, inputPad, mask)
  PROVE  FreeStep \/ DestroyStep \/ Owned(inputTasks', inputPad, mask)
<1>t. inputTasks \in Seq(Task) /\ inputPad \in Pads /\ mask \in SUBSET PadIds
  BY DEF Stepped, PoolTyped, PadTyped
<1>1. CASE UNCHANGED inputTasks
  BY <1>1
<1>2. CASE \E t \in Task : t.kind # "free" /\ Queued(t)
  BY <1>2, <1>t, OwnedAppend DEF Queued
<1>3. CASE Served /\ First.kind # "free"
  BY <1>3, <1>t, OwnedTail DEF Served, First
<1>4. CASE SendStep
  <2>1. PICK s \in Streamer, m \in AllSaid : Inp!Send(s, m)
    BY <1>4 DEF SendStep
  <2> DEFINE t == [kind |-> "pass", s |-> s, m |-> m]
  <2>2. t \in Task /\ t.kind = "pass" /\ Queued(t)
    BY <2>1 DEF Task, Queued, Inp!Send
  <2> QED BY <2>2, <1>2
<1>5. CASE EndStep
  <2>1. PICK s \in Streamer : Inp!ResetRepeat(s) \/ Inp!ResetLeft(s) \/ Inp!ResetPush(s)
    BY <1>5 DEF EndStep
  <2>2. CASE Inp!ResetPush(s)
    <3> DEFINE t == [kind |-> "reset"]
    <3>1. t \in Task /\ t.kind = "reset" /\ Queued(t)
      BY <2>2 DEF Task, Queued, Inp!ResetPush
    <3> QED BY <3>1, <1>2
  <2> QED BY <2>1, <2>2, <1>1 DEF Inp!ResetRepeat, Inp!ResetLeft
<1>6. CASE PassStep \/ ReleaseStep
  BY <1>6, <1>3 DEF PassStep, Passes, ReleaseStep
<1>7. CASE FireStep \/ CaptureStep \/ LeftStep \/ RepeatStep \/ HomeStep
  BY <1>7, <1>1 DEF FireStep, Inp!Fire, CaptureStep, Inp!Capture, LeftStep, RepeatStep, HomeStep,
     Ran, Inp!poolVars
<1> QED BY <1>4, <1>5, <1>6, <1>7, StepCases DEF Stepped

LEMMA DestroyIs ==
  ASSUME Stepped, NEW s \in Streamer, Inp!Destroy(s)
  PROVE  /\ life[s] = "reset" /\ life' = [life EXCEPT ![s] = "gone"] /\ ~Inp!HeldBy(s)
         /\ UNCHANGED <<mask, inputAttached, fed, osBack, timers, running>>
         /\ \/ inputPad[s] = -1 /\ UNCHANGED <<inputPad, inputTasks>>
            \/ /\ inputPad[s] # -1 /\ inputPad' = [inputPad EXCEPT ![s] = -1]
               /\ inputTasks' = Append(inputTasks, [kind |-> "free", pad |-> inputPad[s]])
BY DEF Inp!Destroy, Inp!NoPad

LEMMA PadsKeep ==
  ASSUME Stepped, PadsAreOwned
  PROVE  PadsAreOwned' /\ PadTyped'
<1>t. /\ PadTyped /\ inputTasks \in Seq(Task) /\ inputPad \in Pads /\ mask \in SUBSET PadIds
      /\ Owned(inputTasks, inputPad, mask) /\ inputAttached = mask
      /\ \A i \in 1..Len(inputTasks) : inputTasks[i].kind = "free" => inputTasks[i].pad \in PadIds
  <2>1. PadTyped /\ inputTasks \in Seq(Task)
    BY DEF Stepped, Inp!TypeOK, PoolTyped, PadTyped, Pads, Inp!NoPad
  <2>2. \A i \in 1..Len(inputTasks) : inputTasks[i] \in Task
    BY <2>1
  <2> QED BY <2>1, <2>2, TaskFields DEF PadTyped, PadsAreOwned
<1>1. CASE ~FreeStep /\ ~DestroyStep /\ UNCHANGED <<inputPad, mask, inputAttached, fed, osBack>>
  BY <1>1, <1>t, OwnedStays DEF PadsAreOwned, PadTyped
<1>2. CASE PadStep
  <2>1. PICK s \in Streamer, m \in AllSaid : Passes(s, m) /\ (Takes(s) \/ GivesUp(s) \/ Feeds(s))
    BY <1>2, PadStepIs
  <2>2. ~FreeStep /\ ~DestroyStep
    <3>1. ~FreeStep
      BY <2>1 DEF FreeStep, Passes
    <3>2. Len(inputTasks') # Len(inputTasks) /\ life' = life
      <4>1. Served /\ PoolTyped /\ life' = life
        BY <2>1 DEF Passes, Served, Stepped
      <4>2. Len(inputTasks) \in Nat /\ Len(inputTasks') = Len(inputTasks) - 1
        BY <4>1, ServedTasks
      <4> QED BY <4>1, <4>2
    <3>3. ~DestroyStep
      BY <3>2, <1>t, DestroyIs DEF DestroyStep, Stepped, Inp!TypeOK, Inp!Life
    <3> QED BY <3>1, <3>3
  <2>3. Owned(inputTasks', inputPad, mask) /\ inputTasks' \in Seq(Task)
    BY <2>2, <1>t, OwnedStays, LivesKeep
  <2>4. \A i \in 1..Len(inputTasks') :
           inputTasks'[i].kind = "free" => inputTasks'[i].pad \in PadIds
    BY <2>3, TaskFields
  <2>5. osBack' \subseteq PadIds
    BY <1>2, PadStepIs
  <2>6. CASE Takes(s)
    <3>1. PICK id \in PadIds \ mask :
            /\ inputPad' = [inputPad EXCEPT ![s] = id] /\ fed' = fed /\ inputPad[s] = -1
            /\ mask' = mask \union {id} /\ inputAttached' = inputAttached \union {id}
      BY <2>6 DEF Takes
    <3>2. Owned(inputTasks', inputPad', mask')
      BY <3>1, <2>3, <1>t, OwnedTaken
    <3> QED BY <3>1, <3>2, <2>5, <1>t DEF PadsAreOwned, PadTyped, Pads
  <2>7. CASE GivesUp(s)
    <3>1. Owned(inputTasks', inputPad', mask')
      BY <2>7, <2>3, <2>4, <1>t, OwnedGivenUp DEF GivesUp
    <3> QED BY <3>1, <2>7, <2>5, <1>t DEF PadsAreOwned, PadTyped, Pads, GivesUp
  <2>8. CASE Feeds(s)
    BY <2>8, <2>3, <2>5, <1>t DEF PadsAreOwned, PadTyped, Pads, Feeds
  <2> QED BY <2>1, <2>6, <2>7, <2>8
<1>3. CASE FreeStep
  <2>1. /\ inputTasks # <<>> /\ inputTasks' = Tail(inputTasks) /\ inputTasks[1].kind = "free"
        /\ inputPad' = inputPad
        /\ mask' = mask \ {inputTasks[1].pad} /\ fed' \subseteq fed
        /\ inputAttached' = inputAttached \ {inputTasks[1].pad} /\ osBack' \subseteq osBack
    BY <1>3 DEF FreeStep, Served, First, Inp!FreePad
  <2>2. Owned(inputTasks', inputPad', mask')
    BY <2>1, <1>t, OwnedFreed
  <2> QED BY <2>1, <2>2, <1>t DEF PadsAreOwned, PadTyped
<1>4. CASE DestroyStep
  <2>1. PICK s \in Streamer : Inp!Destroy(s)
    BY <1>4 DEF DestroyStep
  <2>2. CASE UNCHANGED <<inputPad, inputTasks>>
    BY <2>1, <2>2, <1>t, DestroyIs DEF PadsAreOwned, PadTyped
  <2>3. CASE /\ inputPad[s] # -1 /\ inputPad' = [inputPad EXCEPT ![s] = -1]
             /\ inputTasks' = Append(inputTasks, [kind |-> "free", pad |-> inputPad[s]])
    <3>1. Owned(inputTasks', inputPad', mask)
      BY <2>3, <1>t, OwnedLeft
    <3> QED BY <2>1, <2>3, <3>1, <1>t, DestroyIs DEF PadsAreOwned, PadTyped, Pads
  <2> QED BY <2>1, <2>2, <2>3, DestroyIs
<1>5. CASE HomeStep
  <2>1. /\ UNCHANGED <<inputPad, mask, inputAttached, fed, inputTasks>> /\ osBack' \subseteq osBack
    BY <1>5 DEF HomeStep, Ran, Inp!Home
  <2> QED BY <2>1, <1>t DEF PadsAreOwned, PadTyped
<1> QED BY <1>1, <1>2, <1>3, <1>4, <1>5, PadCases DEF PadVars

LEMMA FeedsKeep ==
  ASSUME Stepped, PadsAreOwned, GoneIsGone, FeedsAreOwned
  PROVE  FeedsAreOwned'
<1>t. /\ PadTyped /\ life \in [Streamer -> Inp!Life]
      /\ \A s \in Streamer : life[s] = "gone" => life'[s] = "gone"
  BY LivesKeep DEF Stepped, Inp!TypeOK, PadTyped, Pads, Inp!NoPad
<1>1. CASE fed' \subseteq fed /\ inputPad' = inputPad
  BY <1>1, <1>t DEF FeedsAreOwned, PadTyped
<1>2. CASE PadStep
  <2>1. PICK s \in Streamer, m \in AllSaid : Passes(s, m) /\ (Takes(s) \/ GivesUp(s) \/ Feeds(s))
    BY <1>2, PadStepIs
  <2>2. life[s] # "gone"
    BY <2>1 DEF GoneIsGone, Inp!HeldBy, Passes, Served, First, Stepped, PoolTyped
  <2>3. CASE Takes(s)
    BY <2>3, <2>2, <1>t, PadIsNotNone DEF Takes, FeedsAreOwned, PadTyped, Pads
  <2>4. CASE GivesUp(s)
    BY <2>4, <2>2, <1>t DEF GivesUp, FeedsAreOwned, PadTyped, Pads
  <2>5. CASE Feeds(s)
    BY <2>5, <1>t DEF Feeds, FeedsAreOwned, PadTyped
  <2> QED BY <2>1, <2>3, <2>4, <2>5
<1>3. CASE FreeStep \/ HomeStep
  BY <1>1, <1>3 DEF FreeStep, HomeStep, Inp!FreePad, Inp!Home
<1>4. CASE DestroyStep
  <2>1. PICK s \in Streamer : Inp!Destroy(s)
    BY <1>4 DEF DestroyStep
  <2>2. /\ fed' = fed /\ life' = [life EXCEPT ![s] = "gone"]
        /\ inputPad' = inputPad \/ inputPad' = [inputPad EXCEPT ![s] = -1]
    BY <2>1, DestroyIs
  <2> QED BY <2>2, <1>t DEF FeedsAreOwned, PadTyped, Pads
<1> QED BY <1>1, <1>2, <1>3, <1>4, PadCases DEF PadVars

-----------------------------------------------------------------------------
(* The end of the clients *)

OthersOf(s) == {t \in Held : t.kind \in {"left", "home"} /\ t.s = s}

\* The pool takes up nothing more of a client that has nothing to say.
LEMMA OthersShrink ==
  ASSUME Stepped, OneRepeats, NEW s \in Streamer
  PROVE  OthersOf(s)' \subseteq OthersOf(s) \/ \E m \in AllSaid : Passes(s, m)
<1>1. CASE TimersStay \/ Dropped
  BY <1>1 DEF TimersStay, Dropped, OthersOf, Held
<1>2. CASE Added
  BY <1>2 DEF Added, OthersOf, Held
<1>3. CASE FireStep
  BY <1>3 DEF FireStep, Inp!Fire, OthersOf, Held
<1>4. CASE LeftStep \/ HomeStep
  BY <1>4 DEF LeftStep, HomeStep, Ran, OthersOf, Held
<1>5. CASE KeyDownStep
  <2>1. CASE running' = running /\ \E t \in Inp!Timer : t.kind = "repeat" /\ Replaced(t)
    BY <2>1 DEF Replaced, OthersOf, Held
  <2> QED BY <1>1, <1>5, <2>1, KeyDownTimers
<1>6. CASE RepeatStep
  <2>1. /\ running' = {}
        /\ timers' = timers \/ \E u \in Inp!Timer : u.kind = "repeat" /\ timers' = timers \union {u}
    BY <1>6, RepeatTimers
  <2> QED BY <2>1 DEF OthersOf, Held
<1> QED BY <1>1, <1>2, <1>3, <1>4, <1>5, <1>6, TimerCases

PassWaits(s) == \E i \in Waiting : inputTasks[i].kind = "pass" /\ inputTasks[i].s = s

LEMMA HeldByIs ==
  ASSUME NEW s \in Streamer
  PROVE  Inp!HeldBy(s) <=> PassWaits(s) \/ OthersOf(s) # {}
BY DEF Inp!HeldBy, PassWaits, Waiting, OthersOf, Held

LEMMA PassIsHeld ==
  ASSUME Stepped, NEW s \in Streamer, NEW m, Passes(s, m)
  PROVE  PassWaits(s)
BY DEF PassWaits, Waiting, Passes, Served, First, Stepped, PoolTyped

\* Who says nothing more does not come to say something.
LEMMA PassesShrink ==
  ASSUME Stepped, NEW s \in Streamer, life[s] # "up"
  PROVE  PassWaits(s)' => PassWaits(s)
<1>1. life'[s] # "up" /\ (Inp!Types(s)' => Inp!Types(s))
  BY LivesKeep
<1> QED BY <1>1 DEF Inp!Types, PassWaits, Waiting

LEMMA GoneKeeps ==
  ASSUME Stepped, OneRepeats, GoneIsGone
  PROVE  GoneIsGone'
<1> SUFFICES ASSUME NEW s \in Streamer, life'[s] = "gone"
             PROVE  inputPad'[s] = -1 /\ ~Inp!HeldBy(s)'
  BY DEF GoneIsGone
<1>t. PadTyped /\ life \in [Streamer -> Inp!Life]
  BY DEF Stepped, Inp!TypeOK, PadTyped, Pads, Inp!NoPad
<1>1. ASSUME ~Inp!HeldBy(s), life[s] # "up"
      PROVE  ~Inp!HeldBy(s)'
  <2>1. ~PassWaits(s)' /\ ~PassWaits(s)
    BY <1>1, HeldByIs, PassesShrink
  <2>2. OthersOf(s)' \subseteq OthersOf(s)
    BY <2>1, OthersShrink, PassIsHeld
  <2>3. OthersOf(s)' = {}
    BY <1>1, <2>2, HeldByIs
  <2>4. Inp!HeldBy(s)' <=> PassWaits(s)' \/ OthersOf(s)' # {}
    BY DEF Inp!HeldBy, PassWaits, Waiting, OthersOf, Held
  <2> QED BY <2>1, <2>3, <2>4
<1>2. CASE Inp!Destroy(s)
  <2>1. life[s] = "reset" /\ ~Inp!HeldBy(s) /\ inputPad'[s] = -1
    BY <1>2, <1>t, DestroyIs DEF PadTyped, Pads
  <2> QED BY <2>1, <1>1
<1>3. CASE life[s] = "gone"
  <2>1. inputPad[s] = -1 /\ ~Inp!HeldBy(s) /\ ~PassWaits(s)
    BY <1>3, HeldByIs DEF GoneIsGone
  <2>2. CASE UNCHANGED inputPad
    BY <2>1, <2>2, <1>1, <1>3
  <2>3. CASE PadStep
    <3>1. PICK o \in Streamer, m \in AllSaid :
            Passes(o, m) /\ (Takes(o) \/ GivesUp(o) \/ Feeds(o))
      BY <2>3, PadStepIs
    <3>2. o # s
      BY <3>1, <2>1, PassIsHeld
    <3>3. inputPad'[s] = inputPad[s]
      BY <3>1, <3>2, <1>t DEF Takes, GivesUp, Feeds, PadTyped, Pads
    <3> QED BY <3>3, <2>1, <1>1, <1>3
  <2>4. CASE DestroyStep
    <3>1. PICK o \in Streamer : Inp!Destroy(o)
      BY <2>4 DEF DestroyStep
    <3>2. inputPad'[s] = -1
      BY <3>1, <2>1, <1>t, DestroyIs DEF PadTyped, Pads
    <3> QED BY <3>2, <2>1, <1>1, <1>3
  <2> QED BY <2>2, <2>3, <2>4, PadCases DEF FreeStep, HomeStep, Inp!Home, PadVars
<1>4. life[s] = "gone" \/ Inp!Destroy(s)
  <2>1. CASE UNCHANGED life
    BY <2>1
  <2>2. CASE DestroyStep
    BY <2>2, <1>t, DestroyIs DEF DestroyStep
  <2>3. CASE EndStep
    BY <2>3, <1>t DEF EndStep, Inp!ResetRepeat, Inp!ResetLeft, Inp!ResetPush
  <2>4. CASE SendStep
    BY <2>4 DEF SendStep, Inp!Send
  <2> QED BY <2>1, <2>2, <2>3, <2>4, TaskCases DEF Served
<1> QED BY <1>2, <1>3, <1>4

LEMMA PressCases ==
  ASSUME Stepped
  PROVE  UNCHANGED <<mousePress, keyPress>> \/ PassStep \/ ReleaseStep
<1>1. CASE SendStep \/ FireStep \/ CaptureStep \/ FreeStep \/ LeftStep \/ RepeatStep
           \/ HomeStep \/ EndStep \/ DestroyStep
  BY <1>1 DEF SendStep, FireStep, CaptureStep, FreeStep, LeftStep, RepeatStep, HomeStep, EndStep,
     DestroyStep, Inp!Send, Inp!Fire, Inp!Capture, Inp!ResetRepeat, Inp!ResetLeft,
     Inp!ResetPush, Inp!Destroy, Inp!LeftTimeout, Inp!mouseVars, Inp!keyVars
<1> QED BY <1>1, StepCases DEF Stepped

ResetFollows == \E j \in Waiting : /\ inputTasks[j].kind = "reset"
                                   /\ \A i \in Waiting : i > j => inputTasks[i].kind # "pass"
NothingSaid == /\ mousePress = {} /\ keyPress = {}
               /\ \A i \in Waiting : inputTasks[i].kind # "pass"

LEMMA ResetKeeps ==
  ASSUME Stepped, ResetIsLast
  PROVE  ResetIsLast'
<1> SUFFICES ASSUME Quiet'
             PROVE  ResetFollows' \/ NothingSaid'
  BY DEF ResetIsLast, ResetFollows, NothingSaid, Waiting
<1>t. /\ PoolTyped /\ inputTasks \in Seq(Task) /\ life \in [Streamer -> Inp!Life]
  BY DEF Stepped, PoolTyped, Inp!TypeOK
<1>q. Quiet => ResetFollows \/ NothingSaid
  BY DEF ResetIsLast, ResetFollows, NothingSaid
<1>1. CASE EndStep
  <2>1. PICK s \in Streamer : Inp!ResetRepeat(s) \/ Inp!ResetLeft(s) \/ Inp!ResetPush(s)
    BY <1>1 DEF EndStep
  <2>2. life'[s] \in {"reset", "gone"}
    BY DEF Quiet
  <2>3. ~Inp!ResetRepeat(s) /\ ~Inp!ResetLeft(s)
    BY <2>2, <1>t DEF Inp!ResetRepeat, Inp!ResetLeft
  <2> DEFINE t == [kind |-> "reset"]
  <2>4. t \in Task /\ t.kind = "reset" /\ Queued(t)
    BY <2>1, <2>3 DEF Task, Queued, Inp!ResetPush
  <2> HIDE DEF t
  <2>5. /\ Len(inputTasks) \in Nat /\ Len(inputTasks') = Len(inputTasks) + 1
        /\ inputTasks'[Len(inputTasks) + 1] = t
    BY <2>4, <1>t, QueuedTask
  <2> QED BY <2>4, <2>5 DEF ResetFollows, Waiting
<1>2. CASE SendStep
  <2>1. PICK s \in Streamer, m \in AllSaid : Inp!Send(s, m)
    BY <1>2 DEF SendStep
  <2> QED BY <2>1 DEF Quiet, Inp!Send
<1>3. CASE DestroyStep
  <2>1. PICK s \in Streamer : Inp!Destroy(s)
    BY <1>3 DEF DestroyStep
  <2>2. life[s] = "reset" /\ life' = [life EXCEPT ![s] = "gone"]
    BY <2>1, DestroyIs
  <2>3. Quiet
    BY <2>2, <1>t DEF Quiet
  <2>4. UNCHANGED <<mousePress, keyPress>>
    BY <2>1 DEF Inp!Destroy, Inp!mouseVars, Inp!keyVars
  <2>5. CASE UNCHANGED inputTasks
    BY <2>3, <2>4, <2>5, <1>q DEF ResetFollows, NothingSaid, Waiting
  <2>6. CASE inputPad[s] # -1 /\ Queued([kind |-> "free", pad |-> inputPad[s]])
    <3> DEFINE t == [kind |-> "free", pad |-> inputPad[s]]
    <3>1. t \in Task /\ t.kind = "free" /\ Queued(t)
      BY <2>6 DEF Task, Stepped, Inp!TypeOK, Inp!NoPad
    <3> HIDE DEF t
    <3>2. /\ Len(inputTasks) \in Nat /\ Len(inputTasks') = Len(inputTasks) + 1
          /\ \A i \in 1..Len(inputTasks) : inputTasks'[i] = inputTasks[i]
          /\ inputTasks'[Len(inputTasks) + 1] = t
      BY <3>1, <1>t, QueuedTask
    <3>3. \A i \in Waiting' : \/ i \in Waiting /\ inputTasks'[i] = inputTasks[i]
                              \/ inputTasks'[i].kind = "free"
      BY <3>1, <3>2 DEF Waiting
    <3>4. \A i \in Waiting : i \in Waiting' /\ inputTasks'[i] = inputTasks[i]
      BY <3>2 DEF Waiting
    <3> QED BY <3>3, <3>4, <2>3, <2>4, <1>q DEF ResetFollows, NothingSaid
  <2> QED BY <2>1, <2>5, <2>6, DestroyIs DEF Queued
<1>4. CASE Served
  <2>1. Quiet
    BY <1>4 DEF Served, Quiet
  <2>2. /\ Len(inputTasks) \in Nat /\ Len(inputTasks) >= 1
        /\ Len(inputTasks') = Len(inputTasks) - 1
        /\ \A i \in 1..Len(inputTasks') : inputTasks'[i] = inputTasks[i + 1]
    BY <1>4, <1>t, ServedTasks
  <2>3. /\ \A i \in Waiting' : i + 1 \in Waiting /\ inputTasks'[i] = inputTasks[i + 1]
        /\ \A i \in Waiting : i # 1 => i - 1 \in Waiting' /\ inputTasks'[i - 1] = inputTasks[i]
        /\ 1 \in Waiting
    BY <2>2 DEF Waiting
  <2>4. ASSUME NEW j \in Waiting, inputTasks[j].kind = "reset",
               \A i \in Waiting : i > j => inputTasks[i].kind # "pass"
        PROVE  \/ j # 1 /\ ResetFollows'
               \/ j = 1 /\ \A i \in Waiting' : inputTasks'[i].kind # "pass"
    <3>1. CASE j = 1
      <4>1. \A i \in Waiting' : i + 1 > j
        BY <3>1 DEF Waiting
      <4>2. \A i \in Waiting' : inputTasks[i + 1].kind # "pass"
        BY ONLY <4>1, <2>3, <2>4
      <4> QED BY ONLY <4>2, <3>1, <2>3
    <3>2. CASE j # 1
      <4>1. j - 1 \in Waiting' /\ inputTasks'[j - 1] = inputTasks[j]
        BY <3>2, <2>3
      <4>2. \A i \in Waiting' : i > j - 1 => i + 1 > j
        BY <2>2 DEF Waiting
      <4> QED BY <4>1, <4>2, <3>2, <2>3, <2>4 DEF ResetFollows
    <3> QED BY <3>1, <3>2
  <2>5. CASE PassStep
    <3>1. First.kind = "pass"
      BY <2>5 DEF PassStep, Passes
    <3> QED BY <3>1, <2>1, <2>3, <2>4, <1>q DEF ResetFollows, NothingSaid, First
  <2>6. CASE ReleaseStep
    <3>1. mousePress' = {} /\ keyPress' = {}
      BY <2>6 DEF ReleaseStep, Inp!Release
    <3> QED BY <3>1, <2>1, <2>3, <2>4, <1>q DEF ResetFollows, NothingSaid
  <2>7. CASE FreeStep
    <3>1. UNCHANGED <<mousePress, keyPress>> /\ First.kind = "free"
      BY <2>7 DEF FreeStep, Inp!mouseVars, Inp!keyVars
    <3> QED BY <3>1, <2>1, <2>3, <2>4, <1>q DEF ResetFollows, NothingSaid, First
  <2>8. PassStep \/ ReleaseStep \/ FreeStep
    <3>1. Len(inputTasks') # Len(inputTasks)
      BY <2>2
    <3>2. ~SendStep /\ ~FireStep /\ ~CaptureStep /\ ~LeftStep /\ ~RepeatStep /\ ~HomeStep
      BY <3>1, <1>2 DEF FireStep, Inp!Fire, CaptureStep, Inp!Capture, LeftStep,
         RepeatStep, HomeStep, Ran, Inp!poolVars, SendStep, Inp!Send, Quiet
    <3>3. ~EndStep /\ ~DestroyStep
      BY <1>4, <1>t DEF Served, EndStep, DestroyStep, Inp!ResetRepeat, Inp!ResetLeft,
         Inp!ResetPush, Inp!Destroy
    <3> QED BY <3>2, <3>3, StepCases DEF Stepped
  <2> QED BY <2>5, <2>6, <2>7, <2>8
<1>5. CASE ~Served /\ UNCHANGED <<inputTasks, life>>
  <2>1. UNCHANGED <<mousePress, keyPress>>
    BY <1>5, PressCases DEF PassStep, Passes, ReleaseStep
  <2> QED BY <2>1, <1>5, <1>q DEF Quiet, ResetFollows, NothingSaid, Waiting
<1> QED BY <1>1, <1>2, <1>3, <1>4, <1>5, TaskCases

-----------------------------------------------------------------------------
(* The invariant is inductive *)

RestTyped ==
  /\ backId \in [Streamer -> Id \union {Inp!None}]
  /\ forcedUp \subseteq Streamer /\ padBack \subseteq Streamer
  /\ inputSent \in 0..MaxSent

LEMMA RestTypesKeep ==
  ASSUME Stepped
  PROVE  RestTyped'
<1>t. RestTyped
  BY DEF Stepped, Inp!TypeOK, RestTyped
<1>1. CASE UNCHANGED <<backId, forcedUp, padBack, inputSent>>
  BY <1>1, <1>t DEF RestTyped
<1>2. CASE FireStep \/ CaptureStep \/ ReleaseStep \/ FreeStep \/ LeftStep \/ RepeatStep
           \/ EndStep \/ DestroyStep
  BY <1>1, <1>2 DEF FireStep, CaptureStep, ReleaseStep, FreeStep, LeftStep, RepeatStep, EndStep,
     DestroyStep, Inp!Fire, Inp!Capture, Inp!Release, Inp!ResetRepeat, Inp!ResetLeft,
     Inp!ResetPush, Inp!Destroy, Inp!padVars, Served, Ran
<1>3. CASE KeyUpStep \/ KeyDownStep \/ ButtonStep \/ MoveStep \/ DrawStep \/ ScrollStep
  BY <1>1, <1>3 DEF KeyUpStep, KeyDownStep, ButtonStep, MoveStep, DrawStep, ScrollStep,
     Inp!Button, Inp!Move, Inp!Draw, Inp!Scroll, Inp!padVars, OthersThanKeys, Passes, Served
<1>4. CASE SendStep
  BY <1>4, <1>t, ClientAssumption DEF SendStep, Inp!Send, Inp!padVars, RestTyped
<1>5. CASE HomeStep
  BY <1>5, <1>t DEF HomeStep, Ran, Inp!Home, RestTyped, Inp!None
<1>6. CASE PadStep
  <2>1. PICK s \in Streamer, m \in AllSaid :
          /\ Passes(s, m)
          /\ Inp!PadArrives(s) \/ Inp!PadLeaves(s) \/ Inp!PadSense(s)
               \/ (m.back \in BOOLEAN /\ Inp!PadState(s, m.back))
    BY <1>6 DEF PadStep
  <2>2. inputSent' = inputSent
    BY <2>1 DEF Passes, Served
  <2>3. CASE UNCHANGED <<backId, forcedUp, padBack>>
    BY <2>2, <2>3, <1>1
  <2>4. CASE Inp!PadArrives(s) \/ Inp!PadLeaves(s) \/ Inp!PadSense(s)
    BY <2>3, <2>4 DEF Inp!PadArrives, Inp!PadLeaves, Inp!PadSense
  <2>5. CASE Inp!PadState(s, m.back)
    <3>1. /\ forcedUp' = forcedUp \/ forcedUp' = forcedUp \ {s}
          /\ padBack' = padBack \/ padBack' = padBack \union {s} \/ padBack' = padBack \ {s}
          /\ \/ backId' = backId
             \/ \E i \in Id \union {Inp!None} : backId' = [backId EXCEPT ![s] = i]
      BY <2>5 DEF Inp!PadState
    <3> QED BY <3>1, <2>2, <1>t DEF RestTyped
  <2> QED BY <2>1, <2>4, <2>5
<1> QED BY <1>2, <1>3, <1>4, <1>5, <1>6, StepCases, PassCases DEF Stepped

LEMMA InputStep ==
  ASSUME InputInv, Inp!Next
  PROVE  InputInv'
<1>1. /\ Stepped /\ OneRepeats /\ KeysAreKnown /\ ButtonsAreKnown /\ Inp!WheelIsKept
      /\ PortsAreCurrent /\ PadsAreOwned /\ GoneIsGone /\ FeedsAreOwned /\ ResetIsLast
  BY DEF InputInv, Stepped
<1>2. /\ timers' \subseteq Inp!Timer /\ running' \subseteq Inp!Timer
      /\ repeatId' \in Id \union {Inp!None}
      /\ timers' \intersect running' = {}
      /\ \A t, u \in running' : t = u
      /\ \A t, u \in Held' : t.id = u.id => t = u
      /\ OneRepeats'
  BY <1>1, TimersKeep
<1>3. inputTasks' \in Seq(Task) /\ life' \in [Streamer -> Inp!Life] /\ cut' \in BOOLEAN
  BY <1>1, LivesKeep, LeftGoesOn
<1>4. PoolTyped'
  BY <1>2, <1>3 DEF PoolTyped
<1>5. KeysAreKnown' /\ KeysTyped' /\ ButtonsAreKnown' /\ MouseTyped'
  BY <1>1, KeysKeep, ButtonsKeep
<1>6. LeftTyped' /\ Inp!WheelIsKept' /\ WheelTyped' /\ PortsAreCurrent' /\ PortTyped'
  BY <1>1, LeftTypeKeeps, WheelsKeep, PortsKeep
<1>7. PadsAreOwned' /\ PadTyped' /\ FeedsAreOwned' /\ GoneIsGone' /\ ResetIsLast' /\ RestTyped'
  BY <1>1, PadsKeep, FeedsKeep, GoneKeeps, ResetKeeps, RestTypesKeep
<1>8. Inp!TypeOK'
  BY <1>2, <1>3, <1>5, <1>6, <1>7 DEF Inp!TypeOK, KeysTyped, MouseTyped, LeftTyped, WheelTyped,
     PortTyped, PadTyped, Pads, RestTyped, Inp!NoPad
<1> QED BY <1>2, <1>4, <1>5, <1>6, <1>7, <1>8 DEF InputInv

LEMMA InputStays ==
  ASSUME InputInv, UNCHANGED inputVars
  PROVE  InputInv'
<1> USE DEF InputInv, inputVars
<1>1. Inp!TypeOK'
  BY DEF Inp!TypeOK
<1>2. PoolTyped' /\ OneRepeats' /\ KeysAreKnown' /\ ButtonsAreKnown'
  BY DEF PoolTyped, OneRepeats, KeysAreKnown, ButtonsAreKnown, Held, Inp!Types
<1>3. Inp!WheelIsKept' /\ PortsAreCurrent' /\ PadsAreOwned' /\ FeedsAreOwned'
  BY DEF Inp!WheelIsKept, PortsAreCurrent, PadsAreOwned, FeedsAreOwned
<1>4. GoneIsGone' /\ ResetIsLast'
  BY DEF GoneIsGone, Inp!HeldBy, ResetIsLast, Quiet, Waiting
<1> QED BY <1>1, <1>2, <1>3, <1>4

LEMMA InputStart == Inp!Init => InputInv
<1> SUFFICES ASSUME Inp!Init
             PROVE  InputInv
  OBVIOUS
<1> USE ClientAssumption DEF Inp!Init
<1>1. PoolTyped /\ OneRepeats /\ KeysAreKnown /\ ButtonsAreKnown
  BY DEF PoolTyped, OneRepeats, KeysAreKnown, ButtonsAreKnown, Held
<1>2. Inp!WheelIsKept
  BY DEF Inp!WheelIsKept
<1>3. PortsAreCurrent /\ PadsAreOwned /\ FeedsAreOwned
  BY DEF PortsAreCurrent, PadsAreOwned, FeedsAreOwned, Owned, Inp!NoPad
<1>4. GoneIsGone /\ ResetIsLast
  BY DEF GoneIsGone, ResetIsLast, Quiet, Waiting
<1>5. KeysTyped /\ MouseTyped /\ LeftTyped /\ PadTyped
  BY DEF KeysTyped, MouseTyped, LeftTyped, PadTyped, Pads, Inp!NoPad
<1>6. WheelTyped
  BY DEF WheelTyped, Inp!WheelDelta
<1>7. PortTyped /\ RestTyped
  BY DEF PortTyped, RestTyped
<1>8. Inp!TypeOK
  BY <1>5, <1>6, <1>7 DEF Inp!TypeOK, KeysTyped, MouseTyped, LeftTyped, WheelTyped,
     PortTyped, PadTyped, Pads, RestTyped, Inp!NoPad, Inp!Life
<1> QED BY <1>1, <1>2, <1>3, <1>4, <1>8 DEF InputInv

LEMMA CardinalityIs ==
  ASSUME NEW S
  PROVE  Inp!Cardinality(S) = Cardinality(S)
BY DEF Inp!Cardinality, Cardinality

\* ... and it is enough.
LEMMA InputSuffices ==
  ASSUME InputInv
  PROVE  /\ Inp!TypeOK /\ Inp!HeldIsKnown /\ Inp!NothingLeft /\ Inp!TypedAsAsked
         /\ Inp!WheelIsKept /\ Inp!PortIsCurrent /\ Inp!PadOwned /\ Inp!FedByOwner
<1> USE DEF InputInv
<1>1. Inp!HeldIsKnown
  BY DEF KeysAreKnown, ButtonsAreKnown, Inp!HeldIsKnown, Inp!LeftPending, Held
<1>2. Inp!TypedAsAsked /\ Inp!FedByOwner
  BY DEF KeysAreKnown, Inp!TypedAsAsked, FeedsAreOwned, Inp!FedByOwner
<1>3. Inp!PortIsCurrent
  BY DEF PortsAreCurrent, Inp!PortIsCurrent
<1>4. Inp!NothingLeft
  <2> DEFINE repeats == {t \in timers \union running : t.kind = "repeat"}
  <2>1. \A t, u \in repeats : t = u
    BY DEF OneRepeats, PoolTyped, Held
  <2>2. Cardinality(repeats) <= 1
    <3>1. CASE repeats = {}
      BY <3>1, FS_EmptySet
    <3>2. CASE \E t \in repeats : repeats = {t}
      <4>1. \A t : Cardinality({t}) = 1
        BY FS_Singleton
      <4> HIDE DEF repeats
      <4> QED BY <4>1, <3>2
    <3> QED BY <2>1, <3>1, <3>2
  <2>3. ASSUME \A s \in Streamer : life[s] = "gone", inputTasks = <<>>
        PROVE  mousePress = {} /\ keyPress = {} /\ mask = {}
    <3>1. Quiet /\ Waiting = {}
      BY <2>3 DEF Quiet, Waiting
    <3>2. mousePress = {} /\ keyPress = {}
      BY <3>1 DEF ResetIsLast
    <3>3. \A s \in Streamer : inputPad[s] = -1
      BY <2>3 DEF GoneIsGone
    <3>4. -1 \notin mask
      BY PadIsNotNone DEF Inp!TypeOK
    <3> QED BY <2>3, <3>2, <3>3, <3>4 DEF PadsAreOwned, Owned
  <2>4. Inp!Cardinality({t \in timers \union running : t.kind = "repeat"}) <= 1
    BY <2>2, CardinalityIs
  <2> QED BY ONLY <2>3, <2>4, Zenon DEF Inp!NothingLeft
<1>5. Inp!PadOwned
  <2> SUFFICES ASSUME NEW id \in PadIds
      PROVE  /\ Inp!Cardinality({s \in Streamer : inputPad[s] = id})
                  + Inp!Cardinality({i \in 1..Len(inputTasks) : inputTasks[i].kind = "free"
                                                            /\ inputTasks[i].pad = id})
                  = (IF id \in mask THEN 1 ELSE 0)
             /\ id \in inputAttached <=> id \in mask
    BY Zenon DEF Inp!PadOwned
  <2> DEFINE owners == {s \in Streamer : inputPad[s] = id}
             frees == {i \in 1..Len(inputTasks) : inputTasks[i].kind = "free"
                                                  /\ inputTasks[i].pad = id}
  <2>1. id # -1
    BY PadIsNotNone
  <2>2. /\ \A s, o \in owners : s = o
        /\ \A i, j \in frees : i = j
        /\ owners = {} \/ frees = {}
        /\ id \in mask <=> owners # {} \/ frees # {}
    BY <2>1 DEF PadsAreOwned, Owned
  <2>3. id \in inputAttached <=> id \in mask
    BY DEF PadsAreOwned
  <2> HIDE DEF owners, frees
  <2>4. Cardinality({}) = 0 /\ \A x : Cardinality({x}) = 1
    BY FS_EmptySet, FS_Singleton
  <2>5. \/ owners = {} /\ Cardinality(owners) = 0
        \/ owners # {} /\ Cardinality(owners) = 1
    <3>1. CASE \E s \in owners : owners = {s}
      BY <3>1, <2>4
    <3> QED BY <2>2, <2>4, <3>1
  <2>6. \/ frees = {} /\ Cardinality(frees) = 0
        \/ frees # {} /\ Cardinality(frees) = 1
    <3>1. CASE \E i \in frees : frees = {i}
      BY <3>1, <2>4
    <3> QED BY <2>2, <2>4, <3>1
  <2>7. Cardinality(owners) + Cardinality(frees) = (IF id \in mask THEN 1 ELSE 0)
    BY <2>2, <2>5, <2>6
  <2> QED BY <2>3, <2>7, CardinalityIs DEF owners, frees
<1> QED BY <1>1, <1>2, <1>3, <1>4, <1>5

\* Input is five parts of the instance.
LEMMA InputIsPart ==
  /\ PlatformInit => Inp!Init
  /\ [PlatformNext]_platformVars => Inp!Next \/ UNCHANGED inputVars
<1>1. PlatformInit => Inp!Init
  BY DEF PlatformInit, PartsInit
<1>2. part \in InputPart /\ Inp!NextOf(Clients, Said, Displays) => Inp!Next
  <2>1. One \in Streamer
    BY ClientAssumption DEF One
  <2>2. Clients \subseteq Streamer /\ Displays \subseteq 1..MaxPort
    BY <2>1 DEF Clients, Displays
  <2>3. part \in InputPart => Said \subseteq AllSaid
    BY DEF Said, AllSaid
  <2> QED BY <2>2, <2>3 DEF Inp!Next, Inp!NextOf
<1>3. PlatformNext => \/ part \in InputPart /\ Inp!NextOf(Clients, Said, Displays)
                      \/ UNCHANGED inputVars
  <2>1. part \in {"devices", "desktop", "refs", "pipe", "kms", "pull", "batch", "pens"}
          => part \notin InputPart
    BY DEF InputPart
  <2> QED BY <2>1 DEF PlatformNext, Others
<1>4. UNCHANGED platformVars => UNCHANGED inputVars
  BY DEF platformVars
<1> QED BY <1>1, <1>2, <1>3, <1>4

\* What is held down on the host is known to the client that holds it, or to nobody
\* when it left, whatever the clients send and however their ends, the timers and
\* the worker interleave; no turn of a wheel is lost; absolute input is placed on
\* the display that is captured; and a gamepad has one owner, for any number of
\* clients, gamepads and displays (input.cpp).
THEOREM HeldIsKept == PlatformSpec => []HeldIsKnown
<1>1. PlatformInit => InputInv
  BY InputStart, InputIsPart
<1>2. InputInv /\ [PlatformNext]_platformVars => InputInv'
  BY InputStep, InputStays, InputIsPart
<1>3. InputInv => HeldIsKnown
  BY InputSuffices DEF HeldIsKnown
<1> QED BY <1>1, <1>2, <1>3, PTL DEF PlatformSpec
=============================================================================
