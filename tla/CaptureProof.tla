----------------------------- MODULE CaptureProof -----------------------------
(***************************************************************************)
(* What the capture thread and the encoders of the sessions can rely on    *)
(* (CaptureAsync), for any displays and any sessions, as long as all of    *)
(* them fit into capture_ctx_queue, which would drop the ones that wait    *)
(* otherwise.                                                              *)
(***************************************************************************)
EXTENDS CaptureAsync, FiniteSetTheorems, TLAPS

CaptureConstants == /\ IsFiniteSet(Viewer) /\ Cardinality(Viewer) <= 30
                    /\ MaxDisplay \in Nat

-----------------------------------------------------------------------------
(* The inductive invariant *)

\* The sessions inside capture_async, which have a handle on the thread.
Inside == {"raise", "check", "loop", "expired", "lock", "device", "encode", "frame", "leave"}

\* The context lives as long as somebody has a handle; the last one to leave
\* destroys it.
Contexts ==
  /\ handles = {v \in Viewer : viewer[v] \in Inside}
  /\ context = "up" <=> handles # {}
  /\ \A v \in Viewer : viewer[v] = "join" => context = "ending"
  /\ \A v, w \in Viewer : viewer[v] = "join" /\ viewer[w] = "join" => v = w
  /\ context = "down" <=> At("off")

\* A session takes part after it has raised its context, once.
Queued ==
  /\ \A v \in Viewer : v \in ctxs \union ToSet(ctxQueue.items)
                         => viewer[v] \notin {"none", "raise"}
  /\ IsInjective(ctxQueue.items)

\* The thread begins and ends without contexts; its end stops the queue.
Ends == /\ capture.pc \in {"off", "wait", "done"} => ctxs = {}
        /\ capture.pc \in {"stopImages", "done"} => ~ctxQueue.on

\* A session that was let in and still wants images is known to the thread,
\* or about to be.
Known ==
  \A v \in Viewer :
    /\ \/ viewer[v] \in {"loop", "expired", "lock", "device", "encode", "frame"}
       \/ viewer[v] = "check" /\ ctxQueue.on
    /\ images[v].on
    => v \in ctxs \union ToSet(ctxQueue.items) /\ ~At("done")

\* A display that is about to be locked, or in use, is one.
Locked == \A v \in Viewer :
            /\ viewer[v] = "lock" => displayWp # NoDisplay
            /\ viewer[v] \in {"device", "encode", "frame"} => held[v] # NoDisplay

\* The thread has a display while it captures and while it gives one away.
Opened == /\ capture.pc \in {"top", "capture", "reinit", "await", "drain", "drop", "publish",
                             "unflag"} => disp # NoDisplay
          /\ capture.pc \in {"top", "capture", "reinit", "await", "drain", "unflag"}
               => disp = displayWp

\* Images wait only for sessions the thread knows, and show what it captures;
\* while the display is replaced none waits.
Dealt ==
  /\ \A v \in Viewer : Peek(images[v]) => v \in ctxs
  /\ ImagesHoldDisplay => \A v \in Viewer : Peek(images[v]) =>
       /\ capture.pc \notin {"open", "drop", "make", "publish", "unflag"}
       /\ capture.pc \in {"top", "capture", "reinit", "await", "drain"}
            => images[v].val = disp

IInv == /\ TypeOK /\ Contexts /\ Queued /\ Ends /\ Known /\ Locked /\ Opened
        /\ Dealt /\ ReinitIsPassing

-----------------------------------------------------------------------------
(* Events and queues as values *)

Event == [on : BOOLEAN, val : Display \union {Nothing}]

Queue == [on : BOOLEAN, items : Seq(Viewer)]

\* raise() of an image event, ...
LEMMA RaiseOps ==
  ASSUME NEW e \in Event, NEW d \in Display
  PROVE  /\ Raise(e, d) \in Event /\ Raise(e, d).on = e.on
         /\ Raise(e, d).val = IF e.on THEN d ELSE e.val
<1>1. ASSUME NEW x PROVE [e EXCEPT !.val = x] = [on |-> e.on, val |-> x]
  BY DEF Event
<1>2. Raise(e, d) = IF e.on THEN [on |-> e.on, val |-> d] ELSE e
  BY <1>1, Zenon DEF Raise
<1> QED BY <1>2 DEF Event

\* ... pop() and stop().
LEMMA EventOps ==
  ASSUME NEW e \in Event
  PROVE  /\ Emptied(e) \in Event /\ Emptied(e).on = e.on /\ Emptied(e).val = Nothing
         /\ StopEvent(e) \in Event /\ ~StopEvent(e).on /\ StopEvent(e).val = e.val
<1>1. ASSUME NEW x PROVE [e EXCEPT !.val = x] = [on |-> e.on, val |-> x]
  BY DEF Event
<1>2. ASSUME NEW x PROVE [e EXCEPT !.on = x] = [on |-> x, val |-> e.val]
  BY DEF Event
<1>3. Emptied(e) = [on |-> e.on, val |-> Nothing]
  BY <1>1, Zenon DEF Emptied
<1>4. StopEvent(e) = [on |-> FALSE, val |-> e.val]
  BY <1>2, Zenon DEF StopEvent
<1> QED BY <1>3, <1>4 DEF Event

\* stop() and a look at everything that waits.
LEMMA QueueOps ==
  ASSUME NEW q \in Queue
  PROVE  /\ StopQueue(q) \in Queue /\ ~StopQueue(q).on /\ StopQueue(q).items = q.items
         /\ [q EXCEPT !.items = <<>>] \in Queue /\ [q EXCEPT !.items = <<>>].on = q.on
         /\ [q EXCEPT !.items = <<>>].items = <<>>
         /\ NewQueue \in Queue /\ NewQueue.on /\ NewQueue.items = <<>>
<1> DEFINE items == q.items
<1>1. ASSUME NEW x PROVE [q EXCEPT !.items = x] = [on |-> q.on, items |-> x]
  BY DEF Queue
<1>2. ASSUME NEW x PROVE [q EXCEPT !.on = x] = [on |-> x, items |-> items]
  BY DEF Queue
<1>3. [q EXCEPT !.items = <<>>] = [on |-> q.on, items |-> <<>>]
  BY <1>1, Zenon
<1>4. StopQueue(q) = [on |-> FALSE, items |-> items]
  BY <1>2, Zenon DEF StopQueue
<1>5. items \in Seq(Viewer) /\ q.on \in BOOLEAN
  BY DEF Queue
<1>6. NewQueue = [on |-> TRUE, items |-> <<>>]
  BY DEF NewQueue
<1>7. ASSUME NEW on \in BOOLEAN, NEW x \in Seq(Viewer)
      PROVE  /\ [on |-> on, items |-> x] \in Queue
             /\ [on |-> on, items |-> x].on = on /\ [on |-> on, items |-> x].items = x
  BY DEF Queue
<1>8. <<>> \in Seq(Viewer)
  OBVIOUS
<1>9. StopQueue(q) \in Queue /\ ~StopQueue(q).on /\ StopQueue(q).items = q.items
  BY <1>4, <1>5, <1>7, Zenon
<1> HIDE DEF items
<1> QED BY <1>3, <1>5, <1>6, <1>7, <1>8, <1>9, Zenon

\* The set of a sequence, after pop() ...
LEMMA TailSet ==
  ASSUME NEW S, NEW s \in Seq(S), s # <<>>
  PROVE  /\ Head(s) \in S /\ Tail(s) \in Seq(S)
         /\ ToSet(s) = {Head(s)} \union ToSet(Tail(s))
         /\ IsInjective(s) => IsInjective(Tail(s))
<1>1. /\ Head(s) = s[1] /\ Head(s) \in S /\ Tail(s) \in Seq(S) /\ Len(s) \in Nat \ {0}
      /\ Len(Tail(s)) = Len(s) - 1
      /\ \A i \in 1..Len(s) - 1 : Tail(s)[i] = s[i + 1]
  OBVIOUS
<1>2. /\ DOMAIN s = 1..Len(s)
      /\ DOMAIN Tail(s) = 1..Len(s) - 1
  BY <1>1
<1>3. ASSUME NEW x PROVE x \in ToSet(s) <=> x = Head(s) \/ x \in ToSet(Tail(s))
  <2>1. x \in ToSet(s) <=> \E i \in 1..Len(s) : x = s[i]
    BY <1>2 DEF ToSet
  <2>2. x \in ToSet(Tail(s)) <=> \E i \in 1..Len(s) - 1 : x = s[i + 1]
    BY <1>1, <1>2 DEF ToSet
  <2>3. \A i \in 1..Len(s) : i # 1 => i - 1 \in 1..Len(s) - 1 /\ s[i] = s[(i - 1) + 1]
    BY <1>1
  <2>4. \A i \in 1..Len(s) - 1 : i + 1 \in 1..Len(s)
    BY <1>1
  <2>5. 1 \in 1..Len(s)
    BY <1>1
  <2> QED BY <1>1, <2>1, <2>2, <2>3, <2>4, <2>5
<1>4. ASSUME IsInjective(s) PROVE IsInjective(Tail(s))
  BY <1>1, <1>2, <1>4 DEF IsInjective
<1> QED BY <1>1, <1>3, <1>4

\* ... and after raise().
LEMMA AppendSet ==
  ASSUME NEW S, NEW s \in Seq(S), NEW x \in S
  PROVE  /\ Append(s, x) \in Seq(S)
         /\ ToSet(Append(s, x)) = ToSet(s) \union {x}
         /\ IsInjective(s) /\ x \notin ToSet(s) => IsInjective(Append(s, x))
<1>1. /\ Append(s, x) \in Seq(S) /\ Len(s) \in Nat
      /\ DOMAIN s = 1..Len(s) /\ DOMAIN Append(s, x) = 1..Len(s) + 1
      /\ \A i \in 1..Len(s) : Append(s, x)[i] = s[i]
      /\ Append(s, x)[Len(s) + 1] = x
  OBVIOUS
<1>2. \A i \in 1..Len(s) + 1 : i \in 1..Len(s) \/ i = Len(s) + 1
  BY <1>1
<1>3. 1..Len(s) \subseteq 1..Len(s) + 1 /\ Len(s) + 1 \in 1..Len(s) + 1
  BY <1>1
<1>4. ASSUME NEW y PROVE y \in ToSet(Append(s, x)) <=> y \in ToSet(s) \/ y = x
  BY <1>1, <1>2, <1>3 DEF ToSet
<1>5. ASSUME IsInjective(s), x \notin ToSet(s) PROVE IsInjective(Append(s, x))
  BY <1>1, <1>2, <1>5 DEF IsInjective, ToSet
<1> QED BY <1>1, <1>4, <1>5

\* Contexts that differ leave room for one more that is none of them.
LEMMA RoomLeft ==
  ASSUME IsFiniteSet(Viewer), Cardinality(Viewer) <= 30,
         NEW s \in Seq(Viewer), IsInjective(s), NEW v \in Viewer, v \notin ToSet(s)
  PROVE  Len(s) # 30
<1> DEFINE longer == Append(s, v)
<1>1. IsInjective(longer) /\ longer \in Seq(Viewer)
  BY AppendSet
<1>2. Len(longer) = Len(s) + 1 /\ Len(s) \in Nat
  OBVIOUS
<1> HIDE DEF longer
<1>7. longer \in [1..Len(longer) -> Viewer]
  BY <1>1
<1>3. longer \in Injection(1..Len(longer), Viewer)
  BY <1>1, <1>7 DEF Injection, IsInjective
<1>4. Cardinality(1..Len(longer)) <= Cardinality(Viewer)
  BY <1>3, FS_Injection
<1>5. Cardinality(1..Len(longer)) = Len(longer)
  BY <1>2, FS_Interval
<1>6. Cardinality(Viewer) \in Nat
  BY FS_CardinalityType
<1>8. Len(longer) <= Cardinality(Viewer)
  BY <1>4, <1>5, Zenon
<1>9. ASSUME NEW n \in Nat, NEW c \in Nat, n + 1 <= c, c <= 30 PROVE n # 30
  BY ONLY <1>9
<1> QED BY <1>2, <1>6, <1>8, <1>9, Zenon

\* The three operations on capture_ctx_queue.
LEMMA WaitingType ==
  ASSUME NEW q \in Queue
  PROVE  /\ ToSet(q.items) \subseteq Viewer
         /\ ToSet(<<>>) = {} /\ IsInjective(<<>>)
<1>1. q.items \in Seq(Viewer)
  BY DEF Queue
<1>2. DOMAIN q.items = 1..Len(q.items) /\ \A i \in 1..Len(q.items) : q.items[i] \in Viewer
  BY <1>1
<1>3. DOMAIN <<>> = {}
  OBVIOUS
<1> QED BY <1>2, <1>3 DEF ToSet, IsInjective

LEMMA TakenIs ==
  ASSUME NEW q \in Queue, q.items # <<>>
  PROVE  /\ Taken(q) \in Queue /\ Taken(q).on = q.on
         /\ Head(q.items) \in Viewer
         /\ ToSet(q.items) = {Head(q.items)} \union ToSet(Taken(q).items)
         /\ IsInjective(q.items) => IsInjective(Taken(q).items)
<1> DEFINE items == q.items
<1>1. items \in Seq(Viewer) /\ q.on \in BOOLEAN /\ items # <<>>
  BY DEF Queue
<1>2. ASSUME NEW x PROVE [q EXCEPT !.items = x] = [on |-> q.on, items |-> x]
  BY DEF Queue
<1>3. Taken(q) = [on |-> q.on, items |-> Tail(items)]
  BY <1>2, Zenon DEF Taken
<1>4. /\ Head(items) \in Viewer /\ Tail(items) \in Seq(Viewer)
      /\ ToSet(items) = {Head(items)} \union ToSet(Tail(items))
      /\ IsInjective(items) => IsInjective(Tail(items))
  BY <1>1, TailSet
<1> HIDE DEF items
<1>5. Taken(q) \in Queue /\ Taken(q).on = q.on /\ Taken(q).items = Tail(items)
  BY <1>1, <1>3, <1>4 DEF Queue
<1> QED BY <1>4, <1>5, Zenon DEF items

LEMMA PutIs ==
  ASSUME CaptureConstants, NEW q \in Queue, NEW v \in Viewer,
         IsInjective(q.items), v \notin ToSet(q.items)
  PROVE  /\ Put(q, v, 30) \in Queue /\ Put(q, v, 30).on = q.on
         /\ ToSet(Put(q, v, 30).items)
              = IF q.on THEN ToSet(q.items) \union {v} ELSE ToSet(q.items)
         /\ IsInjective(Put(q, v, 30).items)
<1> DEFINE items == q.items
<1>1. items \in Seq(Viewer) /\ q.on \in BOOLEAN
  BY DEF Queue
<1>2. ASSUME NEW x PROVE [q EXCEPT !.items = x] = [on |-> q.on, items |-> x]
  BY DEF Queue
<1>3. Len(items) # 30
  BY <1>1, RoomLeft DEF CaptureConstants
<1>4. Put(q, v, 30) = IF q.on THEN [on |-> q.on, items |-> Append(items, v)] ELSE q
  BY <1>2, <1>3, Zenon DEF Put
<1>5. /\ Append(items, v) \in Seq(Viewer)
      /\ ToSet(Append(items, v)) = ToSet(items) \union {v}
      /\ IsInjective(Append(items, v))
  BY <1>1, AppendSet
<1>6. CASE q.on
  <2> DEFINE more == Append(items, v)
  <2> HIDE DEF more
  <2>1. Put(q, v, 30) = [on |-> q.on, items |-> more] /\ more \in Seq(Viewer)
    BY <1>4, <1>5, <1>6 DEF more
  <2>2. Put(q, v, 30) \in Queue /\ Put(q, v, 30).on = q.on /\ Put(q, v, 30).items = more
    BY <1>1, <2>1 DEF Queue
  <2> QED BY <1>5, <1>6, <2>2, Zenon DEF more
<1>7. CASE ~q.on
  BY <1>4, <1>7
<1> QED BY <1>1, <1>6, <1>7

-----------------------------------------------------------------------------
(* Types *)

Values == ctxQueue \in Queue /\ images \in [Viewer -> Event]

Flag == [on : {TRUE}, val : {TRUE, Nothing}]

Teardown == Viewer \X Display

Places ==
  /\ context \in {"down", "up", "ending"}
  /\ handles \subseteq Viewer
  /\ reinit \in Flag
  /\ displayWp \in Display \union {NoDisplay}
  /\ capture \in [pc : CapturePC, drain : Viewer \union {Nothing}]
  /\ ctxs \subseteq Viewer
  /\ disp \in Display \union {NoDisplay}
  /\ opened \in 0..MaxDisplay
  /\ switch \in BOOLEAN
  /\ viewer \in [Viewer -> ViewerPC]
  /\ shutdownRaised \in [Viewer -> BOOLEAN]
  /\ held \in [Viewer -> Display \union {NoDisplay}]
  /\ encoded \in [Viewer -> BOOLEAN]
  /\ teardown \subseteq Teardown
  /\ crashed \in BOOLEAN

LEMMA TypeParts == TypeOK <=> Places /\ Values
  BY DEF TypeOK, Places, Values, Event, Queue, Flag, Teardown

LEMMA FlagOps == ASSUME NEW e \in Flag
                 PROVE  /\ Raise(e, TRUE) \in Flag
                        /\ NewEvent \in Flag /\ ResetEvent(e) \in Flag
                        /\ ~Peek(NewEvent) /\ ~Peek(ResetEvent(e))
<1>1. [e EXCEPT !.val = TRUE] = [on |-> TRUE, val |-> TRUE]
  <2>1. ASSUME NEW x PROVE [e EXCEPT !.val = x] = [on |-> e.on, val |-> x]
    BY DEF Flag
  <2>2. e.on = TRUE
    BY DEF Flag
  <2> QED BY <2>1, <2>2, Zenon
<1>2. Raise(e, TRUE) \in Flag
  BY <1>1 DEF Raise, Flag
<1> QED BY <1>2 DEF NewEvent, ResetEvent, Flag, Peek

\* What the steps do to the queue of contexts and to the image events.
LEMMA QueueMoves ==
  ASSUME CaptureConstants, TypeOK, Queued
  PROVE  /\ StopQueue(ctxQueue) \in Queue /\ ~StopQueue(ctxQueue).on
         /\ StopQueue(ctxQueue).items = ctxQueue.items
         /\ [ctxQueue EXCEPT !.items = <<>>] \in Queue
         /\ [ctxQueue EXCEPT !.items = <<>>].on = ctxQueue.on
         /\ [ctxQueue EXCEPT !.items = <<>>].items = <<>>
         /\ NewQueue \in Queue /\ NewQueue.on /\ NewQueue.items = <<>>
         /\ ToSet(ctxQueue.items) \subseteq Viewer
         /\ ToSet(<<>>) = {} /\ IsInjective(<<>>)
<1>1. ctxQueue \in Queue
  BY TypeParts DEF Values
<1> QED BY <1>1, QueueOps, WaitingType

LEMMA TakeMoves ==
  ASSUME CaptureConstants, TypeOK, Queued, ctxQueue.items # <<>>
  PROVE  /\ Taken(ctxQueue) \in Queue /\ Taken(ctxQueue).on = ctxQueue.on
         /\ Head(ctxQueue.items) \in Viewer
         /\ ToSet(ctxQueue.items)
              = {Head(ctxQueue.items)} \union ToSet(Taken(ctxQueue).items)
         /\ IsInjective(Taken(ctxQueue).items)
<1>1. ctxQueue \in Queue
  BY TypeParts DEF Values
<1> QED BY <1>1, TakenIs DEF Queued

LEMMA PutMoves ==
  ASSUME CaptureConstants, TypeOK, Queued, NEW v \in Viewer, viewer[v] = "raise"
  PROVE  /\ Put(ctxQueue, v, 30) \in Queue /\ Put(ctxQueue, v, 30).on = ctxQueue.on
         /\ ToSet(Put(ctxQueue, v, 30).items)
              = IF ctxQueue.on THEN ToSet(ctxQueue.items) \union {v}
                               ELSE ToSet(ctxQueue.items)
         /\ IsInjective(Put(ctxQueue, v, 30).items)
<1>1. ctxQueue \in Queue
  BY TypeParts DEF Values
<1>2. v \notin ToSet(ctxQueue.items) /\ IsInjective(ctxQueue.items)
  BY DEF Queued
<1> QED BY <1>1, <1>2, PutIs

LEMMA EventMoves ==
  ASSUME TypeOK, NEW v \in Viewer
  PROVE  /\ images[v] \in Event
         /\ Emptied(images[v]) \in Event /\ Emptied(images[v]).on = images[v].on
         /\ Emptied(images[v]).val = Nothing
         /\ StopEvent(images[v]) \in Event /\ ~StopEvent(images[v]).on
         /\ StopEvent(images[v]).val = images[v].val
         /\ disp \in Display =>
              /\ Raise(images[v], disp) \in Event
              /\ Raise(images[v], disp).on = images[v].on
              /\ Raise(images[v], disp).val = IF images[v].on THEN disp ELSE images[v].val
<1>1. images[v] \in Event
  BY TypeParts DEF Values
<1> QED BY <1>1, EventOps, RaiseOps

-----------------------------------------------------------------------------
(* One lemma per part of the invariant, one case per action *)

\* Every step keeps the types of the thread and the sessions, ...
LEMMA PlacesStep == ASSUME CaptureConstants, IInv, Next PROVE Places'
<1> USE DEF IInv, CaptureConstants, Places, CapturePC, ViewerPC, Teardown,
            Opened, Locked, Display, NoDisplay, Ends
<1>1. CASE TakeFirst
  <2>1. CASE ctxQueue.on
    <3>1. ctxQueue.items # <<>> /\ ctxs' = {Head(ctxQueue.items)} /\ Goto("open")
      BY <1>1, <2>1 DEF TakeFirst
    <3>2. ctxs' \subseteq Viewer /\ capture' \in [pc : CapturePC, drain : Viewer \union {Nothing}]
      BY <3>1, TypeParts, TakeMoves DEF Goto
    <3> QED BY <1>1, TypeParts, <2>1, <3>2 DEF TakeFirst, OnlyThread, viewerVars
  <2>2. CASE ~ctxQueue.on
    BY <1>1, <2>2, TypeParts DEF TakeFirst, Return, Goto, At, OnlyThread, viewerVars
  <2> QED BY <2>1, <2>2
<1>2. CASE Open
  BY <1>2, TypeParts DEF Open, Goto, At, OnlyThread, viewerVars
<1>3. CASE OpenFails
  BY <1>3, TypeParts DEF OpenFails, Return, Goto, At, OnlyThread, viewerVars
<1>4. CASE CaptureTop
  BY <1>4, TypeParts DEF CaptureTop, Goto, At, OnlyThread, viewerVars
<1>5. ASSUME NEW c \in BOOLEAN, Push(c) PROVE Places'
  BY <1>5, TypeParts, QueueMoves DEF Push, Goto, At, Listening, OnlyThread, viewerVars
<1>6. CASE CaptureStopped
  BY <1>6, TypeParts DEF CaptureStopped, Return, Goto, At, OnlyThread, viewerVars
<1>7. CASE BackendReinit
  BY <1>7, TypeParts DEF BackendReinit, Goto, At, OnlyThread, viewerVars
<1>8. CASE BackendFails
  BY <1>8, TypeParts DEF BackendFails, Return, Goto, At, OnlyThread, viewerVars
<1>9. CASE RaiseReinit
  BY <1>9, TypeParts, FlagOps DEF RaiseReinit, Goto, At, OnlyThread, viewerVars
<1>10. CASE AwaitOver
  BY <1>10, TypeParts DEF AwaitOver, Goto, At, SoleHolder, OtherHolders, OnlyThread, viewerVars
<1>11. CASE AwaitErase
  BY <1>11, TypeParts DEF AwaitErase, At, Listening, OnlyThread, viewerVars
<1>12. ASSUME NEW v \in Viewer, DrainPeek(v) PROVE Places'
  BY <1>12, TypeParts DEF DrainPeek, At, OnlyThread, viewerVars
<1>13. CASE DrainPop
  BY <1>13, TypeParts DEF DrainPop, At, OnlyThread, viewerVars
<1>14. CASE Drop
  BY <1>14, TypeParts DEF Drop, Goto, At, OnlyThread, viewerVars
<1>15. CASE Make
  <2>1. opened < MaxDisplay /\ opened \in 0..MaxDisplay /\ MaxDisplay \in Nat
    BY <1>15, TypeParts DEF Make
  <2>2. opened + 1 \in 0..MaxDisplay /\ opened + 1 \in 1..MaxDisplay
    BY <2>1
  <2>3. CASE ctxs = {}
    BY <1>15, <2>3, TypeParts DEF Make, OnlyThread, viewerVars
  <2>4. CASE ctxs # {}
    <3> HIDE DEF Display
    <3>1. opened + 1 \in Display
      BY <2>2 DEF Display
    <3>2. capture' = [pc |-> "publish", drain |-> capture.drain]
      BY <1>15, <2>4, TypeParts DEF Make, Goto
    <3> QED BY <1>15, TypeParts, <2>2, <2>4, <3>1, <3>2 DEF Make, OnlyThread, viewerVars
  <2> QED BY <2>3, <2>4
<1>16. CASE MakeFails
  BY <1>16, TypeParts DEF MakeFails, Return, Goto, At, OnlyThread, viewerVars
<1>17. CASE Publish
  BY <1>17, TypeParts DEF Publish, Goto, At, DisplayWpFree, OnlyThread, viewerVars
<1>18. CASE Unflag
  BY <1>18, TypeParts, FlagOps DEF Unflag, ClearReinit, Goto, At, OnlyThread, viewerVars
<1>19. CASE Guard
  BY <1>19, TypeParts DEF Guard, Goto, At, OnlyThread, viewerVars
<1>20. CASE StopImages
  BY <1>20, TypeParts DEF StopImages, ToStop, Goto, At, OnlyThread, viewerVars
<1>21. ASSUME NEW v \in Viewer, RaiseContext(v) PROVE Places'
  BY <1>21, TypeParts DEF RaiseContext, Move, OnlyViewer, threadVars
<1>22. ASSUME NEW v \in Viewer, CheckQueue(v) PROVE Places'
  BY <1>22, TypeParts DEF CheckQueue, Move, OnlyViewer, threadVars
<1>23. ASSUME NEW v \in Viewer, ViewerLoop(v) PROVE Places'
  BY <1>23, TypeParts DEF ViewerLoop, ViewerOver, Move, OnlyViewer, threadVars
<1>24. ASSUME NEW v \in Viewer, IsExpired(v) PROVE Places'
  BY <1>24, TypeParts DEF IsExpired, DisplayWpFree, Move, OnlyViewer, threadVars
<1>25. ASSUME NEW v \in Viewer, LockDisplay(v) PROVE Places'
  <2>1. displayWp \in Display
    BY <1>25, TypeParts DEF LockDisplay
  <2>2. CASE crashed' = TRUE /\ UNCHANGED <<held, viewer>>
    BY <1>25, <2>2, TypeParts DEF LockDisplay, threadVars
  <2>3. CASE held' = [held EXCEPT ![v] = displayWp] /\ Move(v, "device") /\ UNCHANGED crashed
    BY <1>25, TypeParts, <2>1, <2>3 DEF LockDisplay, Move, threadVars
  <2> QED BY <1>25, <2>2, <2>3 DEF LockDisplay
<1>26. ASSUME NEW v \in Viewer, DeviceFails(v) PROVE Places'
  BY <1>26, TypeParts DEF DeviceFails, LetDisplayGo, Move, OnlyViewer, threadVars
<1>27. ASSUME NEW v \in Viewer, SessionFails(v) PROVE Places'
  BY <1>27, TypeParts DEF SessionFails, LetDisplayGo, Move, OnlyViewer, threadVars
<1>28. ASSUME NEW v \in Viewer, MakeEncoder(v) PROVE Places'
  BY <1>28, TypeParts DEF MakeEncoder, EndRun, LetDisplayGo, Move, OnlyViewer, threadVars
<1>29. ASSUME NEW v \in Viewer, EncodeTop(v) PROVE Places'
  BY <1>29, TypeParts DEF EncodeTop, EndRun, LetDisplayGo, Move, OnlyViewer, threadVars
<1>30. ASSUME NEW v \in Viewer, EncodeFrame(v) PROVE Places'
  <2>1. encoded' \in [Viewer -> BOOLEAN]
    BY <1>30, TypeParts DEF EncodeFrame
  <2>2. CASE Move(v, "encode") /\ UNCHANGED <<held, teardown>>
    BY <1>30, TypeParts, <2>1, <2>2 DEF EncodeFrame, Move, OnlyViewer, threadVars
  <2>3. CASE EndRun(v)
    BY <1>30, TypeParts, <2>1, <2>3 DEF EncodeFrame, EndRun, LetDisplayGo, Move, OnlyViewer, threadVars
  <2> QED BY <1>30, <2>2, <2>3 DEF EncodeFrame
<1>31. ASSUME NEW v \in Viewer, LeaveCapture(v) PROVE Places'
  BY <1>31, TypeParts DEF LeaveCapture, Move, OnlyViewer, threadVars
<1>32. ASSUME NEW v \in Viewer, JoinCapture(v) PROVE Places'
  BY <1>32, TypeParts, FlagOps DEF JoinCapture, Goto, At, Move, OnlyViewer, threadVars
<1>33. ASSUME NEW v \in Viewer, ViewerGuard(v) PROVE Places'
  BY <1>33, TypeParts DEF ViewerGuard, Move, OnlyViewer, threadVars
<1>34. ASSUME NEW v \in Viewer, RefCapture(v) PROVE Places'
  <2>1. reinit' \in Flag
    BY <1>34, TypeParts, FlagOps DEF RefCapture
  <2>2. capture' \in [pc : CapturePC, drain : Viewer \union {Nothing}]
    BY <1>34, TypeParts DEF RefCapture
  <2>3. /\ context' \in {"down", "up", "ending"} /\ handles' \subseteq Viewer
        /\ viewer' \in [Viewer -> ViewerPC]
    BY <1>34, TypeParts DEF RefCapture, Move
  <2> QED BY <1>34, TypeParts, <2>1, <2>2, <2>3 DEF RefCapture
<1>35. ASSUME NEW v \in Viewer, StopViewer(v) PROVE Places'
  BY <1>35, TypeParts DEF StopViewer, threadVars, sharedVars
<1>36. CASE TeardownDone
  BY <1>36, TypeParts DEF TeardownDone, threadVars, sharedVars
<1>37. CASE SwitchDisplay
  BY <1>37, TypeParts DEF SwitchDisplay, viewerVars, sharedVars
<1> QED
  BY <1>1, <1>2, <1>3, <1>4, <1>5, <1>6, <1>7, <1>8, <1>9, <1>10, <1>11,
     <1>12, <1>13, <1>14, <1>15, <1>16, <1>17, <1>18, <1>19, <1>20, <1>21,
     <1>22, <1>23, <1>24, <1>25, <1>26, <1>27, <1>28, <1>29, <1>30, <1>31,
     <1>32, <1>33, <1>34, <1>35, <1>36, <1>37 DEF Next, CaptureThread,
     Backend, ViewerStep

\* ... of the queue and of the events.
LEMMA ValuesStep == ASSUME CaptureConstants, IInv, Next PROVE Values'
<1> USE DEF IInv, CaptureConstants, Values, Places, Opened
<1>1. CASE TakeFirst
  BY <1>1, TypeParts, TakeMoves, QueueMoves DEF TakeFirst, Return, Goto, At, OnlyThread, viewerVars
<1>2. CASE Open
  BY <1>2, TypeParts DEF Open, Goto, At, OnlyThread, viewerVars
<1>3. CASE OpenFails
  BY <1>3, TypeParts DEF OpenFails, Return, Goto, At, OnlyThread, viewerVars
<1>4. CASE CaptureTop
  BY <1>4, TypeParts DEF CaptureTop, Goto, At, OnlyThread, viewerVars
<1>5. ASSUME NEW c \in BOOLEAN, Push(c) PROVE Values'
  BY <1>5, TypeParts, QueueMoves, EventMoves DEF Push, Goto, At, Listening, OnlyThread, viewerVars
<1>6. CASE CaptureStopped
  BY <1>6, TypeParts DEF CaptureStopped, Return, Goto, At, OnlyThread, viewerVars
<1>7. CASE BackendReinit
  BY <1>7, TypeParts DEF BackendReinit, Goto, At, OnlyThread, viewerVars
<1>8. CASE BackendFails
  BY <1>8, TypeParts DEF BackendFails, Return, Goto, At, OnlyThread, viewerVars
<1>9. CASE RaiseReinit
  BY <1>9, TypeParts DEF RaiseReinit, Goto, At, OnlyThread, viewerVars
<1>10. CASE AwaitOver
  BY <1>10, TypeParts DEF AwaitOver, Goto, At, SoleHolder, OtherHolders, OnlyThread, viewerVars
<1>11. CASE AwaitErase
  BY <1>11, TypeParts DEF AwaitErase, At, Listening, OnlyThread, viewerVars
<1>12. ASSUME NEW v \in Viewer, DrainPeek(v) PROVE Values'
  BY <1>12, TypeParts DEF DrainPeek, At, OnlyThread, viewerVars
<1>13. CASE DrainPop
  BY <1>13, TypeParts, EventMoves DEF DrainPop, At, OnlyThread, viewerVars
<1>14. CASE Drop
  BY <1>14, TypeParts DEF Drop, Goto, At, OnlyThread, viewerVars
<1>15. CASE Make
  BY <1>15, TypeParts DEF Make, Goto, At, OnlyThread, viewerVars
<1>16. CASE MakeFails
  BY <1>16, TypeParts DEF MakeFails, Return, Goto, At, OnlyThread, viewerVars
<1>17. CASE Publish
  BY <1>17, TypeParts DEF Publish, Goto, At, DisplayWpFree, OnlyThread, viewerVars
<1>18. CASE Unflag
  BY <1>18, TypeParts DEF Unflag, ClearReinit, Goto, At, OnlyThread, viewerVars
<1>19. CASE Guard
  BY <1>19, TypeParts, QueueMoves DEF Guard, Goto, At, OnlyThread, viewerVars
<1>20. CASE StopImages
  BY <1>20, TypeParts, QueueMoves, EventMoves DEF StopImages, ToStop, Goto, At, OnlyThread, viewerVars
<1>21. ASSUME NEW v \in Viewer, RaiseContext(v) PROVE Values'
  BY <1>21, TypeParts, PutMoves, QueueMoves DEF RaiseContext, Move, OnlyViewer, threadVars
<1>22. ASSUME NEW v \in Viewer, CheckQueue(v) PROVE Values'
  BY <1>22, TypeParts DEF CheckQueue, Move, OnlyViewer, threadVars
<1>23. ASSUME NEW v \in Viewer, ViewerLoop(v) PROVE Values'
  BY <1>23, TypeParts DEF ViewerLoop, ViewerOver, Move, OnlyViewer, threadVars
<1>24. ASSUME NEW v \in Viewer, IsExpired(v) PROVE Values'
  BY <1>24, TypeParts DEF IsExpired, DisplayWpFree, Move, OnlyViewer, threadVars
<1>25. ASSUME NEW v \in Viewer, LockDisplay(v) PROVE Values'
  BY <1>25, TypeParts DEF LockDisplay, Move, OnlyViewer, threadVars
<1>26. ASSUME NEW v \in Viewer, DeviceFails(v) PROVE Values'
  BY <1>26, TypeParts DEF DeviceFails, LetDisplayGo, Move, OnlyViewer, threadVars
<1>27. ASSUME NEW v \in Viewer, SessionFails(v) PROVE Values'
  BY <1>27, TypeParts DEF SessionFails, LetDisplayGo, Move, OnlyViewer, threadVars
<1>28. ASSUME NEW v \in Viewer, MakeEncoder(v) PROVE Values'
  BY <1>28, TypeParts DEF MakeEncoder, EndRun, LetDisplayGo, Move, OnlyViewer, threadVars
<1>29. ASSUME NEW v \in Viewer, EncodeTop(v) PROVE Values'
  BY <1>29, TypeParts DEF EncodeTop, EndRun, LetDisplayGo, Move, OnlyViewer, threadVars
<1>30. ASSUME NEW v \in Viewer, EncodeFrame(v) PROVE Values'
  BY <1>30, TypeParts, EventMoves DEF EncodeFrame, EndRun, LetDisplayGo, Move, OnlyViewer, threadVars
<1>31. ASSUME NEW v \in Viewer, LeaveCapture(v) PROVE Values'
  BY <1>31, TypeParts, QueueMoves DEF LeaveCapture, Move, OnlyViewer, threadVars
<1>32. ASSUME NEW v \in Viewer, JoinCapture(v) PROVE Values'
  BY <1>32, TypeParts, QueueMoves DEF JoinCapture, Goto, At, Move, OnlyViewer, threadVars
<1>33. ASSUME NEW v \in Viewer, ViewerGuard(v) PROVE Values'
  BY <1>33, TypeParts, EventMoves DEF ViewerGuard, Move, OnlyViewer, threadVars
<1>34. ASSUME NEW v \in Viewer, RefCapture(v) PROVE Values'
  BY <1>34, TypeParts, QueueMoves DEF RefCapture, Move
<1>35. ASSUME NEW v \in Viewer, StopViewer(v) PROVE Values'
  BY <1>35, TypeParts DEF StopViewer, threadVars, sharedVars
<1>36. CASE TeardownDone
  BY <1>36, TypeParts DEF TeardownDone, threadVars, sharedVars
<1>37. CASE SwitchDisplay
  BY <1>37, TypeParts DEF SwitchDisplay, viewerVars, sharedVars
<1> QED
  BY <1>1, <1>2, <1>3, <1>4, <1>5, <1>6, <1>7, <1>8, <1>9, <1>10, <1>11,
     <1>12, <1>13, <1>14, <1>15, <1>16, <1>17, <1>18, <1>19, <1>20, <1>21,
     <1>22, <1>23, <1>24, <1>25, <1>26, <1>27, <1>28, <1>29, <1>30, <1>31,
     <1>32, <1>33, <1>34, <1>35, <1>36, <1>37 DEF Next, CaptureThread,
     Backend, ViewerStep

\* The context lives exactly while somebody has a handle.
LEMMA ContextsStep == ASSUME CaptureConstants, IInv, Next PROVE Contexts'
<1> USE DEF IInv, CaptureConstants, TypeOK, Contexts, Inside, At
<1>1. CASE TakeFirst
  BY <1>1 DEF TakeFirst, Return, Goto, At, OnlyThread, viewerVars
<1>2. CASE Open
  BY <1>2 DEF Open, Goto, At, OnlyThread, viewerVars
<1>3. CASE OpenFails
  BY <1>3 DEF OpenFails, Return, Goto, At, OnlyThread, viewerVars
<1>4. CASE CaptureTop
  BY <1>4 DEF CaptureTop, Goto, At, OnlyThread, viewerVars
<1>5. ASSUME NEW c \in BOOLEAN, Push(c) PROVE Contexts'
  BY <1>5 DEF Push, Goto, At, Listening, OnlyThread, viewerVars
<1>6. CASE CaptureStopped
  BY <1>6 DEF CaptureStopped, Return, Goto, At, OnlyThread, viewerVars
<1>7. CASE BackendReinit
  BY <1>7 DEF BackendReinit, Goto, At, OnlyThread, viewerVars
<1>8. CASE BackendFails
  BY <1>8 DEF BackendFails, Return, Goto, At, OnlyThread, viewerVars
<1>9. CASE RaiseReinit
  BY <1>9 DEF RaiseReinit, Goto, At, OnlyThread, viewerVars
<1>10. CASE AwaitOver
  BY <1>10 DEF AwaitOver, Goto, At, SoleHolder, OtherHolders, OnlyThread, viewerVars
<1>11. CASE AwaitErase
  BY <1>11 DEF AwaitErase, At, Listening, OnlyThread, viewerVars
<1>12. ASSUME NEW v \in Viewer, DrainPeek(v) PROVE Contexts'
  BY <1>12 DEF DrainPeek, At, OnlyThread, viewerVars
<1>13. CASE DrainPop
  BY <1>13 DEF DrainPop, At, OnlyThread, viewerVars
<1>14. CASE Drop
  BY <1>14 DEF Drop, Goto, At, OnlyThread, viewerVars
<1>15. CASE Make
  BY <1>15 DEF Make, Goto, At, OnlyThread, viewerVars
<1>16. CASE MakeFails
  BY <1>16 DEF MakeFails, Return, Goto, At, OnlyThread, viewerVars
<1>17. CASE Publish
  BY <1>17 DEF Publish, Goto, At, DisplayWpFree, OnlyThread, viewerVars
<1>18. CASE Unflag
  BY <1>18 DEF Unflag, ClearReinit, Goto, At, OnlyThread, viewerVars
<1>19. CASE Guard
  BY <1>19 DEF Guard, Goto, At, OnlyThread, viewerVars
<1>20. CASE StopImages
  BY <1>20 DEF StopImages, ToStop, Goto, At, OnlyThread, viewerVars
<1>21. ASSUME NEW v \in Viewer, RaiseContext(v) PROVE Contexts'
  BY <1>21 DEF RaiseContext, Move, OnlyViewer, threadVars
<1>22. ASSUME NEW v \in Viewer, CheckQueue(v) PROVE Contexts'
  BY <1>22 DEF CheckQueue, Move, OnlyViewer, threadVars
<1>23. ASSUME NEW v \in Viewer, ViewerLoop(v) PROVE Contexts'
  BY <1>23 DEF ViewerLoop, ViewerOver, Move, OnlyViewer, threadVars
<1>24. ASSUME NEW v \in Viewer, IsExpired(v) PROVE Contexts'
  BY <1>24 DEF IsExpired, DisplayWpFree, Move, OnlyViewer, threadVars
<1>25. ASSUME NEW v \in Viewer, LockDisplay(v) PROVE Contexts'
  BY <1>25 DEF LockDisplay, Move, OnlyViewer, threadVars
<1>26. ASSUME NEW v \in Viewer, DeviceFails(v) PROVE Contexts'
  BY <1>26 DEF DeviceFails, LetDisplayGo, Move, OnlyViewer, threadVars
<1>27. ASSUME NEW v \in Viewer, SessionFails(v) PROVE Contexts'
  BY <1>27 DEF SessionFails, LetDisplayGo, Move, OnlyViewer, threadVars
<1>28. ASSUME NEW v \in Viewer, MakeEncoder(v) PROVE Contexts'
  BY <1>28 DEF MakeEncoder, EndRun, LetDisplayGo, Move, OnlyViewer, threadVars
<1>29. ASSUME NEW v \in Viewer, EncodeTop(v) PROVE Contexts'
  BY <1>29 DEF EncodeTop, EndRun, LetDisplayGo, Move, OnlyViewer, threadVars
<1>30. ASSUME NEW v \in Viewer, EncodeFrame(v) PROVE Contexts'
  BY <1>30 DEF EncodeFrame, EndRun, LetDisplayGo, Move, OnlyViewer, threadVars
<1>31. ASSUME NEW v \in Viewer, LeaveCapture(v) PROVE Contexts'
  BY <1>31 DEF LeaveCapture, Move, OnlyViewer, threadVars
<1>32. ASSUME NEW v \in Viewer, JoinCapture(v) PROVE Contexts'
  BY <1>32 DEF JoinCapture, Goto, At, Move, OnlyViewer, threadVars
<1>33. ASSUME NEW v \in Viewer, ViewerGuard(v) PROVE Contexts'
  BY <1>33 DEF ViewerGuard, Move, OnlyViewer, threadVars
<1>34. ASSUME NEW v \in Viewer, RefCapture(v) PROVE Contexts'
  BY <1>34 DEF RefCapture, Move
<1>35. ASSUME NEW v \in Viewer, StopViewer(v) PROVE Contexts'
  BY <1>35 DEF StopViewer, threadVars, sharedVars
<1>36. CASE TeardownDone
  BY <1>36 DEF TeardownDone, threadVars, sharedVars
<1>37. CASE SwitchDisplay
  BY <1>37 DEF SwitchDisplay, viewerVars, sharedVars
<1> QED
  BY <1>1, <1>2, <1>3, <1>4, <1>5, <1>6, <1>7, <1>8, <1>9, <1>10, <1>11,
     <1>12, <1>13, <1>14, <1>15, <1>16, <1>17, <1>18, <1>19, <1>20, <1>21,
     <1>22, <1>23, <1>24, <1>25, <1>26, <1>27, <1>28, <1>29, <1>30, <1>31,
     <1>32, <1>33, <1>34, <1>35, <1>36, <1>37 DEF Next, CaptureThread,
     Backend, ViewerStep

\* No session is queued before it has raised its context, and none twice.
LEMMA QueuedStep == ASSUME CaptureConstants, IInv, Next PROVE Queued'
<1> USE DEF IInv, CaptureConstants, Values, Places, Contexts, Queued, Ends,
            Inside, At
<1>1. CASE TakeFirst
  BY <1>1, TypeParts, TakeMoves, QueueMoves DEF TakeFirst, Return, Goto, At, OnlyThread, viewerVars
<1>2. CASE Open
  BY <1>2, TypeParts DEF Open, Goto, At, OnlyThread, viewerVars
<1>3. CASE OpenFails
  BY <1>3, TypeParts DEF OpenFails, Return, Goto, At, OnlyThread, viewerVars
<1>4. CASE CaptureTop
  BY <1>4, TypeParts DEF CaptureTop, Goto, At, OnlyThread, viewerVars
<1>5. ASSUME NEW c \in BOOLEAN, Push(c) PROVE Queued'
  BY <1>5, TypeParts, QueueMoves DEF Push, Goto, At, Listening, OnlyThread, viewerVars
<1>6. CASE CaptureStopped
  BY <1>6, TypeParts DEF CaptureStopped, Return, Goto, At, OnlyThread, viewerVars
<1>7. CASE BackendReinit
  BY <1>7, TypeParts DEF BackendReinit, Goto, At, OnlyThread, viewerVars
<1>8. CASE BackendFails
  BY <1>8, TypeParts DEF BackendFails, Return, Goto, At, OnlyThread, viewerVars
<1>9. CASE RaiseReinit
  BY <1>9, TypeParts DEF RaiseReinit, Goto, At, OnlyThread, viewerVars
<1>10. CASE AwaitOver
  BY <1>10, TypeParts DEF AwaitOver, Goto, At, SoleHolder, OtherHolders, OnlyThread, viewerVars
<1>11. CASE AwaitErase
  BY <1>11, TypeParts DEF AwaitErase, At, Listening, OnlyThread, viewerVars
<1>12. ASSUME NEW v \in Viewer, DrainPeek(v) PROVE Queued'
  BY <1>12, TypeParts DEF DrainPeek, At, OnlyThread, viewerVars
<1>13. CASE DrainPop
  BY <1>13, TypeParts DEF DrainPop, At, OnlyThread, viewerVars
<1>14. CASE Drop
  BY <1>14, TypeParts DEF Drop, Goto, At, OnlyThread, viewerVars
<1>15. CASE Make
  BY <1>15, TypeParts DEF Make, Goto, At, OnlyThread, viewerVars
<1>16. CASE MakeFails
  BY <1>16, TypeParts DEF MakeFails, Return, Goto, At, OnlyThread, viewerVars
<1>17. CASE Publish
  BY <1>17, TypeParts DEF Publish, Goto, At, DisplayWpFree, OnlyThread, viewerVars
<1>18. CASE Unflag
  BY <1>18, TypeParts DEF Unflag, ClearReinit, Goto, At, OnlyThread, viewerVars
<1>19. CASE Guard
  BY <1>19, TypeParts, QueueMoves DEF Guard, Goto, At, OnlyThread, viewerVars
<1>20. CASE StopImages
  BY <1>20, TypeParts, QueueMoves DEF StopImages, ToStop, Goto, At, OnlyThread, viewerVars
<1>21. ASSUME NEW v \in Viewer, RaiseContext(v) PROVE Queued'
  <2>1. ctxQueue' = Put(ctxQueue, v, 30) /\ viewer' = [viewer EXCEPT ![v] = "check"]
        /\ UNCHANGED ctxs /\ viewer[v] = "raise"
    BY <1>21 DEF RaiseContext, Move, OnlyViewer, threadVars
  <2>2. /\ IsInjective(ctxQueue'.items)
        /\ ToSet(ctxQueue'.items) \subseteq ToSet(ctxQueue.items) \union {v}
    BY <2>1, PutMoves
  <2>3. \A w \in Viewer : w \in ctxs' \union ToSet(ctxQueue'.items)
                           => w \in ctxs \union ToSet(ctxQueue.items) \/ w = v
    BY <2>1, <2>2
  <2>4. viewer'[v] = "check" /\ \A w \in Viewer : w # v => viewer'[w] = viewer[w]
    BY <2>1, TypeParts
  <2> QED BY <2>2, <2>3, <2>4
<1>22. ASSUME NEW v \in Viewer, CheckQueue(v) PROVE Queued'
  BY <1>22, TypeParts DEF CheckQueue, Move, OnlyViewer, threadVars
<1>23. ASSUME NEW v \in Viewer, ViewerLoop(v) PROVE Queued'
  BY <1>23, TypeParts DEF ViewerLoop, ViewerOver, Move, OnlyViewer, threadVars
<1>24. ASSUME NEW v \in Viewer, IsExpired(v) PROVE Queued'
  BY <1>24, TypeParts DEF IsExpired, DisplayWpFree, Move, OnlyViewer, threadVars
<1>25. ASSUME NEW v \in Viewer, LockDisplay(v) PROVE Queued'
  BY <1>25, TypeParts DEF LockDisplay, Move, OnlyViewer, threadVars
<1>26. ASSUME NEW v \in Viewer, DeviceFails(v) PROVE Queued'
  BY <1>26, TypeParts DEF DeviceFails, LetDisplayGo, Move, OnlyViewer, threadVars
<1>27. ASSUME NEW v \in Viewer, SessionFails(v) PROVE Queued'
  BY <1>27, TypeParts DEF SessionFails, LetDisplayGo, Move, OnlyViewer, threadVars
<1>28. ASSUME NEW v \in Viewer, MakeEncoder(v) PROVE Queued'
  BY <1>28, TypeParts DEF MakeEncoder, EndRun, LetDisplayGo, Move, OnlyViewer, threadVars
<1>29. ASSUME NEW v \in Viewer, EncodeTop(v) PROVE Queued'
  BY <1>29, TypeParts DEF EncodeTop, EndRun, LetDisplayGo, Move, OnlyViewer, threadVars
<1>30. ASSUME NEW v \in Viewer, EncodeFrame(v) PROVE Queued'
  BY <1>30, TypeParts DEF EncodeFrame, EndRun, LetDisplayGo, Move, OnlyViewer, threadVars
<1>31. ASSUME NEW v \in Viewer, LeaveCapture(v) PROVE Queued'
  BY <1>31, TypeParts, QueueMoves DEF LeaveCapture, Move, OnlyViewer, threadVars
<1>32. ASSUME NEW v \in Viewer, JoinCapture(v) PROVE Queued'
  BY <1>32, TypeParts, QueueMoves DEF JoinCapture, Goto, At, Move, OnlyViewer, threadVars
<1>33. ASSUME NEW v \in Viewer, ViewerGuard(v) PROVE Queued'
  BY <1>33, TypeParts DEF ViewerGuard, Move, OnlyViewer, threadVars
<1>34. ASSUME NEW v \in Viewer, RefCapture(v) PROVE Queued'
  BY <1>34, TypeParts, QueueMoves DEF RefCapture, Move
<1>35. ASSUME NEW v \in Viewer, StopViewer(v) PROVE Queued'
  BY <1>35, TypeParts DEF StopViewer, threadVars, sharedVars
<1>36. CASE TeardownDone
  BY <1>36, TypeParts DEF TeardownDone, threadVars, sharedVars
<1>37. CASE SwitchDisplay
  BY <1>37, TypeParts DEF SwitchDisplay, viewerVars, sharedVars
<1> QED
  BY <1>1, <1>2, <1>3, <1>4, <1>5, <1>6, <1>7, <1>8, <1>9, <1>10, <1>11,
     <1>12, <1>13, <1>14, <1>15, <1>16, <1>17, <1>18, <1>19, <1>20, <1>21,
     <1>22, <1>23, <1>24, <1>25, <1>26, <1>27, <1>28, <1>29, <1>30, <1>31,
     <1>32, <1>33, <1>34, <1>35, <1>36, <1>37 DEF Next, CaptureThread,
     Backend, ViewerStep

\* The thread begins and ends without contexts.
LEMMA EndsStep == ASSUME CaptureConstants, IInv, Next PROVE Ends'
<1> USE DEF IInv, CaptureConstants, Places, Ends, Contexts, Inside
<1>1. CASE TakeFirst
  BY <1>1, TypeParts, TakeMoves, QueueMoves DEF TakeFirst, Return, Goto, At, OnlyThread, viewerVars
<1>2. CASE Open
  BY <1>2, TypeParts DEF Open, Goto, At, OnlyThread, viewerVars
<1>3. CASE OpenFails
  BY <1>3, TypeParts DEF OpenFails, Return, Goto, At, OnlyThread, viewerVars
<1>4. CASE CaptureTop
  BY <1>4, TypeParts DEF CaptureTop, Goto, At, OnlyThread, viewerVars
<1>5. ASSUME NEW c \in BOOLEAN, Push(c) PROVE Ends'
  BY <1>5, TypeParts, QueueMoves DEF Push, Goto, At, Listening, OnlyThread, viewerVars
<1>6. CASE CaptureStopped
  BY <1>6, TypeParts DEF CaptureStopped, Return, Goto, At, OnlyThread, viewerVars
<1>7. CASE BackendReinit
  BY <1>7, TypeParts DEF BackendReinit, Goto, At, OnlyThread, viewerVars
<1>8. CASE BackendFails
  BY <1>8, TypeParts DEF BackendFails, Return, Goto, At, OnlyThread, viewerVars
<1>9. CASE RaiseReinit
  BY <1>9, TypeParts DEF RaiseReinit, Goto, At, OnlyThread, viewerVars
<1>10. CASE AwaitOver
  BY <1>10, TypeParts DEF AwaitOver, Goto, At, SoleHolder, OtherHolders, OnlyThread, viewerVars
<1>11. CASE AwaitErase
  BY <1>11, TypeParts DEF AwaitErase, At, Listening, OnlyThread, viewerVars
<1>12. ASSUME NEW v \in Viewer, DrainPeek(v) PROVE Ends'
  BY <1>12, TypeParts DEF DrainPeek, At, OnlyThread, viewerVars
<1>13. CASE DrainPop
  BY <1>13, TypeParts DEF DrainPop, At, OnlyThread, viewerVars
<1>14. CASE Drop
  BY <1>14, TypeParts DEF Drop, Goto, At, OnlyThread, viewerVars
<1>15. CASE Make
  BY <1>15, TypeParts DEF Make, Goto, At, OnlyThread, viewerVars
<1>16. CASE MakeFails
  BY <1>16, TypeParts DEF MakeFails, Return, Goto, At, OnlyThread, viewerVars
<1>17. CASE Publish
  BY <1>17, TypeParts DEF Publish, Goto, At, DisplayWpFree, OnlyThread, viewerVars
<1>18. CASE Unflag
  BY <1>18, TypeParts DEF Unflag, ClearReinit, Goto, At, OnlyThread, viewerVars
<1>19. CASE Guard
  BY <1>19, TypeParts, QueueMoves DEF Guard, Goto, At, OnlyThread, viewerVars
<1>20. CASE StopImages
  BY <1>20, TypeParts, QueueMoves DEF StopImages, ToStop, Goto, At, OnlyThread, viewerVars
<1>21. ASSUME NEW v \in Viewer, RaiseContext(v) PROVE Ends'
  BY <1>21, TypeParts, PutMoves, QueueMoves DEF RaiseContext, Move, OnlyViewer, threadVars
<1>22. ASSUME NEW v \in Viewer, CheckQueue(v) PROVE Ends'
  BY <1>22, TypeParts DEF CheckQueue, Move, OnlyViewer, threadVars
<1>23. ASSUME NEW v \in Viewer, ViewerLoop(v) PROVE Ends'
  BY <1>23, TypeParts DEF ViewerLoop, ViewerOver, Move, OnlyViewer, threadVars
<1>24. ASSUME NEW v \in Viewer, IsExpired(v) PROVE Ends'
  BY <1>24, TypeParts DEF IsExpired, DisplayWpFree, Move, OnlyViewer, threadVars
<1>25. ASSUME NEW v \in Viewer, LockDisplay(v) PROVE Ends'
  BY <1>25, TypeParts DEF LockDisplay, Move, OnlyViewer, threadVars
<1>26. ASSUME NEW v \in Viewer, DeviceFails(v) PROVE Ends'
  BY <1>26, TypeParts DEF DeviceFails, LetDisplayGo, Move, OnlyViewer, threadVars
<1>27. ASSUME NEW v \in Viewer, SessionFails(v) PROVE Ends'
  BY <1>27, TypeParts DEF SessionFails, LetDisplayGo, Move, OnlyViewer, threadVars
<1>28. ASSUME NEW v \in Viewer, MakeEncoder(v) PROVE Ends'
  BY <1>28, TypeParts DEF MakeEncoder, EndRun, LetDisplayGo, Move, OnlyViewer, threadVars
<1>29. ASSUME NEW v \in Viewer, EncodeTop(v) PROVE Ends'
  BY <1>29, TypeParts DEF EncodeTop, EndRun, LetDisplayGo, Move, OnlyViewer, threadVars
<1>30. ASSUME NEW v \in Viewer, EncodeFrame(v) PROVE Ends'
  BY <1>30, TypeParts DEF EncodeFrame, EndRun, LetDisplayGo, Move, OnlyViewer, threadVars
<1>31. ASSUME NEW v \in Viewer, LeaveCapture(v) PROVE Ends'
  BY <1>31, TypeParts, QueueMoves DEF LeaveCapture, Move, OnlyViewer, threadVars
<1>32. ASSUME NEW v \in Viewer, JoinCapture(v) PROVE Ends'
  BY <1>32, TypeParts, QueueMoves DEF JoinCapture, Goto, At, Move, OnlyViewer, threadVars
<1>33. ASSUME NEW v \in Viewer, ViewerGuard(v) PROVE Ends'
  BY <1>33, TypeParts DEF ViewerGuard, Move, OnlyViewer, threadVars
<1>34. ASSUME NEW v \in Viewer, RefCapture(v) PROVE Ends'
  <2>1. CASE context = "down"
    <3>1. capture'.pc = "wait" /\ UNCHANGED ctxs
      BY <1>34, <2>1 DEF RefCapture
    <3> QED BY <2>1, <3>1, TypeParts DEF At
  <2>2. CASE context # "down"
    BY <1>34, <2>2 DEF RefCapture
  <2> QED BY <2>1, <2>2
<1>35. ASSUME NEW v \in Viewer, StopViewer(v) PROVE Ends'
  BY <1>35, TypeParts DEF StopViewer, threadVars, sharedVars
<1>36. CASE TeardownDone
  BY <1>36, TypeParts DEF TeardownDone, threadVars, sharedVars
<1>37. CASE SwitchDisplay
  BY <1>37, TypeParts DEF SwitchDisplay, viewerVars, sharedVars
<1> QED
  BY <1>1, <1>2, <1>3, <1>4, <1>5, <1>6, <1>7, <1>8, <1>9, <1>10, <1>11,
     <1>12, <1>13, <1>14, <1>15, <1>16, <1>17, <1>18, <1>19, <1>20, <1>21,
     <1>22, <1>23, <1>24, <1>25, <1>26, <1>27, <1>28, <1>29, <1>30, <1>31,
     <1>32, <1>33, <1>34, <1>35, <1>36, <1>37 DEF Next, CaptureThread,
     Backend, ViewerStep

\* A context that got in is queued or known until the thread ends.
LEMMA KnownStep == ASSUME CaptureConstants, IInv, Next PROVE Known'
<1> USE DEF IInv, CaptureConstants, Values, Places, Contexts, Queued, Ends,
            Known, Inside, At
<1>1. CASE TakeFirst
  BY <1>1, TypeParts, TakeMoves, QueueMoves DEF TakeFirst, Return, Goto, At, OnlyThread, viewerVars
<1>2. CASE Open
  BY <1>2, TypeParts DEF Open, Goto, At, OnlyThread, viewerVars
<1>3. CASE OpenFails
  BY <1>3, TypeParts DEF OpenFails, Return, Goto, At, OnlyThread, viewerVars
<1>4. CASE CaptureTop
  BY <1>4, TypeParts DEF CaptureTop, Goto, At, OnlyThread, viewerVars
<1>5. ASSUME NEW c \in BOOLEAN, Push(c) PROVE Known'
  <2>1. /\ ctxs' = Listening(ctxs) \union ToSet(ctxQueue.items) /\ UNCHANGED viewer
        /\ At("capture") /\ capture'.pc # "done" /\ ctxQueue.on
    BY <1>5, TypeParts DEF Push, Goto, OnlyThread, viewerVars
  <2>2. \A w \in Viewer : images'[w].on = images[w].on
    <3>1. disp \in Display
      BY <1>5, TypeParts DEF Push, Opened, Display, NoDisplay
    <3>2. images' = [w \in Viewer |-> IF c /\ w \in ctxs THEN Raise(images[w], disp) ELSE images[w]]
      BY <1>5 DEF Push
    <3> QED BY <3>1, <3>2, EventMoves
  <2>3. \A w \in Viewer : images[w].on /\ w \in ctxs => w \in ctxs'
    BY <2>1 DEF Listening
  <2> QED BY <2>1, <2>2, <2>3
<1>6. CASE CaptureStopped
  BY <1>6, TypeParts DEF CaptureStopped, Return, Goto, At, OnlyThread, viewerVars
<1>7. CASE BackendReinit
  BY <1>7, TypeParts DEF BackendReinit, Goto, At, OnlyThread, viewerVars
<1>8. CASE BackendFails
  BY <1>8, TypeParts DEF BackendFails, Return, Goto, At, OnlyThread, viewerVars
<1>9. CASE RaiseReinit
  BY <1>9, TypeParts DEF RaiseReinit, Goto, At, OnlyThread, viewerVars
<1>10. CASE AwaitOver
  BY <1>10, TypeParts DEF AwaitOver, Goto, At, SoleHolder, OtherHolders, OnlyThread, viewerVars
<1>11. CASE AwaitErase
  BY <1>11, TypeParts DEF AwaitErase, At, Listening, OnlyThread, viewerVars
<1>12. ASSUME NEW v \in Viewer, DrainPeek(v) PROVE Known'
  BY <1>12, TypeParts DEF DrainPeek, At, OnlyThread, viewerVars
<1>13. CASE DrainPop
  BY <1>13, TypeParts, EventMoves DEF DrainPop, At, OnlyThread, viewerVars
<1>14. CASE Drop
  BY <1>14, TypeParts DEF Drop, Goto, At, OnlyThread, viewerVars
<1>15. CASE Make
  BY <1>15, TypeParts DEF Make, Goto, At, OnlyThread, viewerVars
<1>16. CASE MakeFails
  BY <1>16, TypeParts DEF MakeFails, Return, Goto, At, OnlyThread, viewerVars
<1>17. CASE Publish
  BY <1>17, TypeParts DEF Publish, Goto, At, DisplayWpFree, OnlyThread, viewerVars
<1>18. CASE Unflag
  BY <1>18, TypeParts DEF Unflag, ClearReinit, Goto, At, OnlyThread, viewerVars
<1>19. CASE Guard
  BY <1>19, TypeParts, QueueMoves DEF Guard, Goto, At, OnlyThread, viewerVars
<1>20. CASE StopImages
  BY <1>20, TypeParts, QueueMoves, EventMoves DEF StopImages, ToStop, Goto, At, OnlyThread, viewerVars
<1>21. ASSUME NEW v \in Viewer, RaiseContext(v) PROVE Known'
  <2>1. /\ ctxQueue' = Put(ctxQueue, v, 30) /\ viewer' = [viewer EXCEPT ![v] = "check"]
        /\ UNCHANGED <<ctxs, capture, images>> /\ viewer[v] = "raise"
    BY <1>21 DEF RaiseContext, Move, OnlyViewer, threadVars
  <2>2. /\ ctxQueue'.on = ctxQueue.on
        /\ ToSet(ctxQueue.items) \subseteq ToSet(ctxQueue'.items)
        /\ ctxQueue.on => v \in ToSet(ctxQueue'.items)
    BY <2>1, PutMoves
  <2>3. ctxQueue.on => ~At("done")
    BY DEF Ends
  <2> QED BY <2>1, <2>2, <2>3
<1>22. ASSUME NEW v \in Viewer, CheckQueue(v) PROVE Known'
  BY <1>22, TypeParts DEF CheckQueue, Move, OnlyViewer, threadVars
<1>23. ASSUME NEW v \in Viewer, ViewerLoop(v) PROVE Known'
  BY <1>23, TypeParts DEF ViewerLoop, ViewerOver, Move, OnlyViewer, threadVars
<1>24. ASSUME NEW v \in Viewer, IsExpired(v) PROVE Known'
  BY <1>24, TypeParts DEF IsExpired, DisplayWpFree, Move, OnlyViewer, threadVars
<1>25. ASSUME NEW v \in Viewer, LockDisplay(v) PROVE Known'
  BY <1>25, TypeParts DEF LockDisplay, Move, OnlyViewer, threadVars
<1>26. ASSUME NEW v \in Viewer, DeviceFails(v) PROVE Known'
  BY <1>26, TypeParts DEF DeviceFails, LetDisplayGo, Move, OnlyViewer, threadVars
<1>27. ASSUME NEW v \in Viewer, SessionFails(v) PROVE Known'
  BY <1>27, TypeParts DEF SessionFails, LetDisplayGo, Move, OnlyViewer, threadVars
<1>28. ASSUME NEW v \in Viewer, MakeEncoder(v) PROVE Known'
  BY <1>28, TypeParts DEF MakeEncoder, EndRun, LetDisplayGo, Move, OnlyViewer, threadVars
<1>29. ASSUME NEW v \in Viewer, EncodeTop(v) PROVE Known'
  BY <1>29, TypeParts DEF EncodeTop, EndRun, LetDisplayGo, Move, OnlyViewer, threadVars
<1>30. ASSUME NEW v \in Viewer, EncodeFrame(v) PROVE Known'
  BY <1>30, TypeParts, EventMoves DEF EncodeFrame, EndRun, LetDisplayGo, Move, OnlyViewer, threadVars
<1>31. ASSUME NEW v \in Viewer, LeaveCapture(v) PROVE Known'
  BY <1>31, TypeParts, QueueMoves DEF LeaveCapture, Move, OnlyViewer, threadVars
<1>32. ASSUME NEW v \in Viewer, JoinCapture(v) PROVE Known'
  BY <1>32, TypeParts, QueueMoves DEF JoinCapture, Goto, At, Move, OnlyViewer, threadVars
<1>33. ASSUME NEW v \in Viewer, ViewerGuard(v) PROVE Known'
  BY <1>33, TypeParts, EventMoves DEF ViewerGuard, Move, OnlyViewer, threadVars
<1>34. ASSUME NEW v \in Viewer, RefCapture(v) PROVE Known'
  BY <1>34, TypeParts, QueueMoves DEF RefCapture, Move
<1>35. ASSUME NEW v \in Viewer, StopViewer(v) PROVE Known'
  BY <1>35, TypeParts DEF StopViewer, threadVars, sharedVars
<1>36. CASE TeardownDone
  BY <1>36, TypeParts DEF TeardownDone, threadVars, sharedVars
<1>37. CASE SwitchDisplay
  BY <1>37, TypeParts DEF SwitchDisplay, viewerVars, sharedVars
<1> QED
  BY <1>1, <1>2, <1>3, <1>4, <1>5, <1>6, <1>7, <1>8, <1>9, <1>10, <1>11,
     <1>12, <1>13, <1>14, <1>15, <1>16, <1>17, <1>18, <1>19, <1>20, <1>21,
     <1>22, <1>23, <1>24, <1>25, <1>26, <1>27, <1>28, <1>29, <1>30, <1>31,
     <1>32, <1>33, <1>34, <1>35, <1>36, <1>37 DEF Next, CaptureThread,
     Backend, ViewerStep

\* Only a display is locked, and held.
LEMMA LockedStep == ASSUME CaptureConstants, IInv, Next PROVE Locked'
<1> USE DEF IInv, CaptureConstants, TypeOK, Contexts, Locked, Inside,
            NoDisplay
<1>1. CASE TakeFirst
  BY <1>1 DEF TakeFirst, Return, Goto, At, OnlyThread, viewerVars
<1>2. CASE Open
  BY <1>2 DEF Open, Goto, At, OnlyThread, viewerVars
<1>3. CASE OpenFails
  BY <1>3 DEF OpenFails, Return, Goto, At, OnlyThread, viewerVars
<1>4. CASE CaptureTop
  BY <1>4 DEF CaptureTop, Goto, At, OnlyThread, viewerVars
<1>5. ASSUME NEW c \in BOOLEAN, Push(c) PROVE Locked'
  BY <1>5 DEF Push, Goto, At, Listening, OnlyThread, viewerVars
<1>6. CASE CaptureStopped
  BY <1>6 DEF CaptureStopped, Return, Goto, At, OnlyThread, viewerVars
<1>7. CASE BackendReinit
  BY <1>7 DEF BackendReinit, Goto, At, OnlyThread, viewerVars
<1>8. CASE BackendFails
  BY <1>8 DEF BackendFails, Return, Goto, At, OnlyThread, viewerVars
<1>9. CASE RaiseReinit
  BY <1>9 DEF RaiseReinit, Goto, At, OnlyThread, viewerVars
<1>10. CASE AwaitOver
  BY <1>10 DEF AwaitOver, Goto, At, SoleHolder, OtherHolders, OnlyThread, viewerVars
<1>11. CASE AwaitErase
  BY <1>11 DEF AwaitErase, At, Listening, OnlyThread, viewerVars
<1>12. ASSUME NEW v \in Viewer, DrainPeek(v) PROVE Locked'
  BY <1>12 DEF DrainPeek, At, OnlyThread, viewerVars
<1>13. CASE DrainPop
  BY <1>13 DEF DrainPop, At, OnlyThread, viewerVars
<1>14. CASE Drop
  BY <1>14 DEF Drop, Goto, At, OnlyThread, viewerVars
<1>15. CASE Make
  BY <1>15 DEF Make, Goto, At, OnlyThread, viewerVars
<1>16. CASE MakeFails
  BY <1>16 DEF MakeFails, Return, Goto, At, OnlyThread, viewerVars
<1>17. CASE Publish
  BY <1>17 DEF Publish, Goto, At, DisplayWpFree, OnlyThread, viewerVars
<1>18. CASE Unflag
  BY <1>18 DEF Unflag, ClearReinit, Goto, At, OnlyThread, viewerVars
<1>19. CASE Guard
  BY <1>19 DEF Guard, Goto, At, OnlyThread, viewerVars
<1>20. CASE StopImages
  BY <1>20 DEF StopImages, ToStop, Goto, At, OnlyThread, viewerVars
<1>21. ASSUME NEW v \in Viewer, RaiseContext(v) PROVE Locked'
  BY <1>21 DEF RaiseContext, Move, OnlyViewer, threadVars
<1>22. ASSUME NEW v \in Viewer, CheckQueue(v) PROVE Locked'
  BY <1>22 DEF CheckQueue, Move, OnlyViewer, threadVars
<1>23. ASSUME NEW v \in Viewer, ViewerLoop(v) PROVE Locked'
  BY <1>23 DEF ViewerLoop, ViewerOver, Move, OnlyViewer, threadVars
<1>24. ASSUME NEW v \in Viewer, IsExpired(v) PROVE Locked'
  BY <1>24 DEF IsExpired, DisplayWpFree, Move, OnlyViewer, threadVars
<1>25. ASSUME NEW v \in Viewer, LockDisplay(v) PROVE Locked'
  BY <1>25 DEF LockDisplay, Move, OnlyViewer, threadVars
<1>26. ASSUME NEW v \in Viewer, DeviceFails(v) PROVE Locked'
  BY <1>26 DEF DeviceFails, LetDisplayGo, Move, OnlyViewer, threadVars
<1>27. ASSUME NEW v \in Viewer, SessionFails(v) PROVE Locked'
  BY <1>27 DEF SessionFails, LetDisplayGo, Move, OnlyViewer, threadVars
<1>28. ASSUME NEW v \in Viewer, MakeEncoder(v) PROVE Locked'
  BY <1>28 DEF MakeEncoder, EndRun, LetDisplayGo, Move, OnlyViewer, threadVars
<1>29. ASSUME NEW v \in Viewer, EncodeTop(v) PROVE Locked'
  BY <1>29 DEF EncodeTop, EndRun, LetDisplayGo, Move, OnlyViewer, threadVars
<1>30. ASSUME NEW v \in Viewer, EncodeFrame(v) PROVE Locked'
  BY <1>30 DEF EncodeFrame, EndRun, LetDisplayGo, Move, OnlyViewer, threadVars
<1>31. ASSUME NEW v \in Viewer, LeaveCapture(v) PROVE Locked'
  BY <1>31 DEF LeaveCapture, Move, OnlyViewer, threadVars
<1>32. ASSUME NEW v \in Viewer, JoinCapture(v) PROVE Locked'
  BY <1>32 DEF JoinCapture, Goto, At, Move, OnlyViewer, threadVars
<1>33. ASSUME NEW v \in Viewer, ViewerGuard(v) PROVE Locked'
  BY <1>33 DEF ViewerGuard, Move, OnlyViewer, threadVars
<1>34. ASSUME NEW v \in Viewer, RefCapture(v) PROVE Locked'
  BY <1>34 DEF RefCapture, Move
<1>35. ASSUME NEW v \in Viewer, StopViewer(v) PROVE Locked'
  BY <1>35 DEF StopViewer, threadVars, sharedVars
<1>36. CASE TeardownDone
  BY <1>36 DEF TeardownDone, threadVars, sharedVars
<1>37. CASE SwitchDisplay
  BY <1>37 DEF SwitchDisplay, viewerVars, sharedVars
<1> QED
  BY <1>1, <1>2, <1>3, <1>4, <1>5, <1>6, <1>7, <1>8, <1>9, <1>10, <1>11,
     <1>12, <1>13, <1>14, <1>15, <1>16, <1>17, <1>18, <1>19, <1>20, <1>21,
     <1>22, <1>23, <1>24, <1>25, <1>26, <1>27, <1>28, <1>29, <1>30, <1>31,
     <1>32, <1>33, <1>34, <1>35, <1>36, <1>37 DEF Next, CaptureThread,
     Backend, ViewerStep

\* The thread captures a display it has.
LEMMA OpenedStep == ASSUME CaptureConstants, IInv, Next PROVE Opened'
<1> USE DEF IInv, CaptureConstants, TypeOK, Contexts, Locked, Opened, Inside,
            NoDisplay, Display
<1>1. CASE TakeFirst
  BY <1>1 DEF TakeFirst, Return, Goto, At, OnlyThread, viewerVars
<1>2. CASE Open
  BY <1>2 DEF Open, Goto, At, OnlyThread, viewerVars
<1>3. CASE OpenFails
  BY <1>3 DEF OpenFails, Return, Goto, At, OnlyThread, viewerVars
<1>4. CASE CaptureTop
  BY <1>4 DEF CaptureTop, Goto, At, OnlyThread, viewerVars
<1>5. ASSUME NEW c \in BOOLEAN, Push(c) PROVE Opened'
  BY <1>5 DEF Push, Goto, At, Listening, OnlyThread, viewerVars
<1>6. CASE CaptureStopped
  BY <1>6 DEF CaptureStopped, Return, Goto, At, OnlyThread, viewerVars
<1>7. CASE BackendReinit
  BY <1>7 DEF BackendReinit, Goto, At, OnlyThread, viewerVars
<1>8. CASE BackendFails
  BY <1>8 DEF BackendFails, Return, Goto, At, OnlyThread, viewerVars
<1>9. CASE RaiseReinit
  BY <1>9 DEF RaiseReinit, Goto, At, OnlyThread, viewerVars
<1>10. CASE AwaitOver
  BY <1>10 DEF AwaitOver, Goto, At, SoleHolder, OtherHolders, OnlyThread, viewerVars
<1>11. CASE AwaitErase
  BY <1>11 DEF AwaitErase, At, Listening, OnlyThread, viewerVars
<1>12. ASSUME NEW v \in Viewer, DrainPeek(v) PROVE Opened'
  BY <1>12 DEF DrainPeek, At, OnlyThread, viewerVars
<1>13. CASE DrainPop
  BY <1>13 DEF DrainPop, At, OnlyThread, viewerVars
<1>14. CASE Drop
  BY <1>14 DEF Drop, Goto, At, OnlyThread, viewerVars
<1>15. CASE Make
  BY <1>15 DEF Make, Goto, At, OnlyThread, viewerVars
<1>16. CASE MakeFails
  BY <1>16 DEF MakeFails, Return, Goto, At, OnlyThread, viewerVars
<1>17. CASE Publish
  BY <1>17 DEF Publish, Goto, At, DisplayWpFree, OnlyThread, viewerVars
<1>18. CASE Unflag
  BY <1>18 DEF Unflag, ClearReinit, Goto, At, OnlyThread, viewerVars
<1>19. CASE Guard
  BY <1>19 DEF Guard, Goto, At, OnlyThread, viewerVars
<1>20. CASE StopImages
  BY <1>20 DEF StopImages, ToStop, Goto, At, OnlyThread, viewerVars
<1>21. ASSUME NEW v \in Viewer, RaiseContext(v) PROVE Opened'
  BY <1>21 DEF RaiseContext, Move, OnlyViewer, threadVars
<1>22. ASSUME NEW v \in Viewer, CheckQueue(v) PROVE Opened'
  BY <1>22 DEF CheckQueue, Move, OnlyViewer, threadVars
<1>23. ASSUME NEW v \in Viewer, ViewerLoop(v) PROVE Opened'
  BY <1>23 DEF ViewerLoop, ViewerOver, Move, OnlyViewer, threadVars
<1>24. ASSUME NEW v \in Viewer, IsExpired(v) PROVE Opened'
  BY <1>24 DEF IsExpired, DisplayWpFree, Move, OnlyViewer, threadVars
<1>25. ASSUME NEW v \in Viewer, LockDisplay(v) PROVE Opened'
  BY <1>25 DEF LockDisplay, Move, OnlyViewer, threadVars
<1>26. ASSUME NEW v \in Viewer, DeviceFails(v) PROVE Opened'
  BY <1>26 DEF DeviceFails, LetDisplayGo, Move, OnlyViewer, threadVars
<1>27. ASSUME NEW v \in Viewer, SessionFails(v) PROVE Opened'
  BY <1>27 DEF SessionFails, LetDisplayGo, Move, OnlyViewer, threadVars
<1>28. ASSUME NEW v \in Viewer, MakeEncoder(v) PROVE Opened'
  BY <1>28 DEF MakeEncoder, EndRun, LetDisplayGo, Move, OnlyViewer, threadVars
<1>29. ASSUME NEW v \in Viewer, EncodeTop(v) PROVE Opened'
  BY <1>29 DEF EncodeTop, EndRun, LetDisplayGo, Move, OnlyViewer, threadVars
<1>30. ASSUME NEW v \in Viewer, EncodeFrame(v) PROVE Opened'
  BY <1>30 DEF EncodeFrame, EndRun, LetDisplayGo, Move, OnlyViewer, threadVars
<1>31. ASSUME NEW v \in Viewer, LeaveCapture(v) PROVE Opened'
  BY <1>31 DEF LeaveCapture, Move, OnlyViewer, threadVars
<1>32. ASSUME NEW v \in Viewer, JoinCapture(v) PROVE Opened'
  BY <1>32 DEF JoinCapture, Goto, At, Move, OnlyViewer, threadVars
<1>33. ASSUME NEW v \in Viewer, ViewerGuard(v) PROVE Opened'
  BY <1>33 DEF ViewerGuard, Move, OnlyViewer, threadVars
<1>34. ASSUME NEW v \in Viewer, RefCapture(v) PROVE Opened'
  BY <1>34 DEF RefCapture, Move
<1>35. ASSUME NEW v \in Viewer, StopViewer(v) PROVE Opened'
  BY <1>35 DEF StopViewer, threadVars, sharedVars
<1>36. CASE TeardownDone
  BY <1>36 DEF TeardownDone, threadVars, sharedVars
<1>37. CASE SwitchDisplay
  BY <1>37 DEF SwitchDisplay, viewerVars, sharedVars
<1> QED
  BY <1>1, <1>2, <1>3, <1>4, <1>5, <1>6, <1>7, <1>8, <1>9, <1>10, <1>11,
     <1>12, <1>13, <1>14, <1>15, <1>16, <1>17, <1>18, <1>19, <1>20, <1>21,
     <1>22, <1>23, <1>24, <1>25, <1>26, <1>27, <1>28, <1>29, <1>30, <1>31,
     <1>32, <1>33, <1>34, <1>35, <1>36, <1>37 DEF Next, CaptureThread,
     Backend, ViewerStep

\* No image is left behind when the display is replaced.
LEMMA DealtStep == ASSUME CaptureConstants, IInv, Next PROVE Dealt'
<1> USE DEF IInv, CaptureConstants, Values, Places, Contexts, Ends, Opened,
            Dealt, Inside, Display, NoDisplay, Peek
<1>1. CASE TakeFirst
  BY <1>1, TypeParts DEF TakeFirst, Return, Goto, At, OnlyThread, viewerVars
<1>2. CASE Open
  BY <1>2, TypeParts DEF Open, Goto, At, OnlyThread, viewerVars
<1>3. CASE OpenFails
  BY <1>3, TypeParts DEF OpenFails, Return, Goto, At, OnlyThread, viewerVars
<1>4. CASE CaptureTop
  BY <1>4, TypeParts DEF CaptureTop, Goto, At, OnlyThread, viewerVars
<1>5. ASSUME NEW c \in BOOLEAN, Push(c) PROVE Dealt'
  BY <1>5, TypeParts, EventMoves DEF Push, Goto, At, Listening, OnlyThread, viewerVars
<1>6. CASE CaptureStopped
  BY <1>6, TypeParts DEF CaptureStopped, Return, Goto, At, OnlyThread, viewerVars
<1>7. CASE BackendReinit
  BY <1>7, TypeParts DEF BackendReinit, Goto, At, OnlyThread, viewerVars
<1>8. CASE BackendFails
  BY <1>8, TypeParts DEF BackendFails, Return, Goto, At, OnlyThread, viewerVars
<1>9. CASE RaiseReinit
  BY <1>9, TypeParts DEF RaiseReinit, Goto, At, OnlyThread, viewerVars
<1>10. CASE AwaitOver
  BY <1>10, TypeParts DEF AwaitOver, Goto, At, SoleHolder, OtherHolders, OnlyThread, viewerVars
<1>11. CASE AwaitErase
  BY <1>11, TypeParts DEF AwaitErase, At, Listening, OnlyThread, viewerVars
<1>12. ASSUME NEW v \in Viewer, DrainPeek(v) PROVE Dealt'
  BY <1>12, TypeParts DEF DrainPeek, At, OnlyThread, viewerVars
<1>13. CASE DrainPop
  BY <1>13, TypeParts, EventMoves DEF DrainPop, At, OnlyThread, viewerVars
<1>14. CASE Drop
  BY <1>14, TypeParts DEF Drop, Goto, At, OnlyThread, viewerVars
<1>15. CASE Make
  BY <1>15, TypeParts DEF Make, Goto, At, OnlyThread, viewerVars
<1>16. CASE MakeFails
  BY <1>16, TypeParts DEF MakeFails, Return, Goto, At, OnlyThread, viewerVars
<1>17. CASE Publish
  BY <1>17, TypeParts DEF Publish, Goto, At, DisplayWpFree, OnlyThread, viewerVars
<1>18. CASE Unflag
  BY <1>18, TypeParts DEF Unflag, ClearReinit, Goto, At, OnlyThread, viewerVars
<1>19. CASE Guard
  BY <1>19, TypeParts DEF Guard, Goto, At, OnlyThread, viewerVars
<1>20. CASE StopImages
  BY <1>20, TypeParts, EventMoves DEF StopImages, ToStop, Goto, At, OnlyThread, viewerVars
<1>21. ASSUME NEW v \in Viewer, RaiseContext(v) PROVE Dealt'
  BY <1>21, TypeParts DEF RaiseContext, Move, OnlyViewer, threadVars
<1>22. ASSUME NEW v \in Viewer, CheckQueue(v) PROVE Dealt'
  BY <1>22, TypeParts DEF CheckQueue, Move, OnlyViewer, threadVars
<1>23. ASSUME NEW v \in Viewer, ViewerLoop(v) PROVE Dealt'
  BY <1>23, TypeParts DEF ViewerLoop, ViewerOver, Move, OnlyViewer, threadVars
<1>24. ASSUME NEW v \in Viewer, IsExpired(v) PROVE Dealt'
  BY <1>24, TypeParts DEF IsExpired, DisplayWpFree, Move, OnlyViewer, threadVars
<1>25. ASSUME NEW v \in Viewer, LockDisplay(v) PROVE Dealt'
  BY <1>25, TypeParts DEF LockDisplay, Move, OnlyViewer, threadVars
<1>26. ASSUME NEW v \in Viewer, DeviceFails(v) PROVE Dealt'
  BY <1>26, TypeParts DEF DeviceFails, LetDisplayGo, Move, OnlyViewer, threadVars
<1>27. ASSUME NEW v \in Viewer, SessionFails(v) PROVE Dealt'
  BY <1>27, TypeParts DEF SessionFails, LetDisplayGo, Move, OnlyViewer, threadVars
<1>28. ASSUME NEW v \in Viewer, MakeEncoder(v) PROVE Dealt'
  BY <1>28, TypeParts DEF MakeEncoder, EndRun, LetDisplayGo, Move, OnlyViewer, threadVars
<1>29. ASSUME NEW v \in Viewer, EncodeTop(v) PROVE Dealt'
  BY <1>29, TypeParts DEF EncodeTop, EndRun, LetDisplayGo, Move, OnlyViewer, threadVars
<1>30. ASSUME NEW v \in Viewer, EncodeFrame(v) PROVE Dealt'
  BY <1>30, TypeParts, EventMoves DEF EncodeFrame, EndRun, LetDisplayGo, Move, OnlyViewer, threadVars
<1>31. ASSUME NEW v \in Viewer, LeaveCapture(v) PROVE Dealt'
  BY <1>31, TypeParts DEF LeaveCapture, Move, OnlyViewer, threadVars
<1>32. ASSUME NEW v \in Viewer, JoinCapture(v) PROVE Dealt'
  BY <1>32, TypeParts DEF JoinCapture, Goto, At, Move, OnlyViewer, threadVars
<1>33. ASSUME NEW v \in Viewer, ViewerGuard(v) PROVE Dealt'
  BY <1>33, TypeParts, EventMoves DEF ViewerGuard, Move, OnlyViewer, threadVars
<1>34. ASSUME NEW v \in Viewer, RefCapture(v) PROVE Dealt'
  BY <1>34, TypeParts DEF RefCapture, Move
<1>35. ASSUME NEW v \in Viewer, StopViewer(v) PROVE Dealt'
  BY <1>35, TypeParts DEF StopViewer, threadVars, sharedVars
<1>36. CASE TeardownDone
  BY <1>36, TypeParts DEF TeardownDone, threadVars, sharedVars
<1>37. CASE SwitchDisplay
  BY <1>37, TypeParts DEF SwitchDisplay, viewerVars, sharedVars
<1> QED
  BY <1>1, <1>2, <1>3, <1>4, <1>5, <1>6, <1>7, <1>8, <1>9, <1>10, <1>11,
     <1>12, <1>13, <1>14, <1>15, <1>16, <1>17, <1>18, <1>19, <1>20, <1>21,
     <1>22, <1>23, <1>24, <1>25, <1>26, <1>27, <1>28, <1>29, <1>30, <1>31,
     <1>32, <1>33, <1>34, <1>35, <1>36, <1>37 DEF Next, CaptureThread,
     Backend, ViewerStep

\* The reinit event goes down before the capture goes on.
LEMMA ReinitIsPassingStep == ASSUME CaptureConstants, IInv, Next PROVE ReinitIsPassing'
<1> USE DEF IInv, CaptureConstants, TypeOK, ReinitIsPassing, Peek, NewEvent,
            ResetEvent, Raise
<1>1. CASE TakeFirst
  BY <1>1 DEF TakeFirst, Return, Goto, At, OnlyThread, viewerVars
<1>2. CASE Open
  BY <1>2 DEF Open, Goto, At, OnlyThread, viewerVars
<1>3. CASE OpenFails
  BY <1>3 DEF OpenFails, Return, Goto, At, OnlyThread, viewerVars
<1>4. CASE CaptureTop
  BY <1>4 DEF CaptureTop, Goto, At, OnlyThread, viewerVars
<1>5. ASSUME NEW c \in BOOLEAN, Push(c) PROVE ReinitIsPassing'
  BY <1>5 DEF Push, Goto, At, Listening, OnlyThread, viewerVars
<1>6. CASE CaptureStopped
  BY <1>6 DEF CaptureStopped, Return, Goto, At, OnlyThread, viewerVars
<1>7. CASE BackendReinit
  BY <1>7 DEF BackendReinit, Goto, At, OnlyThread, viewerVars
<1>8. CASE BackendFails
  BY <1>8 DEF BackendFails, Return, Goto, At, OnlyThread, viewerVars
<1>9. CASE RaiseReinit
  BY <1>9 DEF RaiseReinit, Goto, At, OnlyThread, viewerVars
<1>10. CASE AwaitOver
  BY <1>10 DEF AwaitOver, Goto, At, SoleHolder, OtherHolders, OnlyThread, viewerVars
<1>11. CASE AwaitErase
  BY <1>11 DEF AwaitErase, At, Listening, OnlyThread, viewerVars
<1>12. ASSUME NEW v \in Viewer, DrainPeek(v) PROVE ReinitIsPassing'
  BY <1>12 DEF DrainPeek, At, OnlyThread, viewerVars
<1>13. CASE DrainPop
  BY <1>13 DEF DrainPop, At, OnlyThread, viewerVars
<1>14. CASE Drop
  BY <1>14 DEF Drop, Goto, At, OnlyThread, viewerVars
<1>15. CASE Make
  BY <1>15 DEF Make, Goto, At, OnlyThread, viewerVars
<1>16. CASE MakeFails
  BY <1>16 DEF MakeFails, Return, Goto, At, OnlyThread, viewerVars
<1>17. CASE Publish
  BY <1>17 DEF Publish, Goto, At, DisplayWpFree, OnlyThread, viewerVars
<1>18. CASE Unflag
  BY <1>18 DEF Unflag, ClearReinit, Goto, At, OnlyThread, viewerVars
<1>19. CASE Guard
  BY <1>19 DEF Guard, Goto, At, OnlyThread, viewerVars
<1>20. CASE StopImages
  BY <1>20 DEF StopImages, ToStop, Goto, At, OnlyThread, viewerVars
<1>21. ASSUME NEW v \in Viewer, RaiseContext(v) PROVE ReinitIsPassing'
  BY <1>21 DEF RaiseContext, Move, OnlyViewer, threadVars
<1>22. ASSUME NEW v \in Viewer, CheckQueue(v) PROVE ReinitIsPassing'
  BY <1>22 DEF CheckQueue, Move, OnlyViewer, threadVars
<1>23. ASSUME NEW v \in Viewer, ViewerLoop(v) PROVE ReinitIsPassing'
  BY <1>23 DEF ViewerLoop, ViewerOver, Move, OnlyViewer, threadVars
<1>24. ASSUME NEW v \in Viewer, IsExpired(v) PROVE ReinitIsPassing'
  BY <1>24 DEF IsExpired, DisplayWpFree, Move, OnlyViewer, threadVars
<1>25. ASSUME NEW v \in Viewer, LockDisplay(v) PROVE ReinitIsPassing'
  BY <1>25 DEF LockDisplay, Move, OnlyViewer, threadVars
<1>26. ASSUME NEW v \in Viewer, DeviceFails(v) PROVE ReinitIsPassing'
  BY <1>26 DEF DeviceFails, LetDisplayGo, Move, OnlyViewer, threadVars
<1>27. ASSUME NEW v \in Viewer, SessionFails(v) PROVE ReinitIsPassing'
  BY <1>27 DEF SessionFails, LetDisplayGo, Move, OnlyViewer, threadVars
<1>28. ASSUME NEW v \in Viewer, MakeEncoder(v) PROVE ReinitIsPassing'
  BY <1>28 DEF MakeEncoder, EndRun, LetDisplayGo, Move, OnlyViewer, threadVars
<1>29. ASSUME NEW v \in Viewer, EncodeTop(v) PROVE ReinitIsPassing'
  BY <1>29 DEF EncodeTop, EndRun, LetDisplayGo, Move, OnlyViewer, threadVars
<1>30. ASSUME NEW v \in Viewer, EncodeFrame(v) PROVE ReinitIsPassing'
  BY <1>30 DEF EncodeFrame, EndRun, LetDisplayGo, Move, OnlyViewer, threadVars
<1>31. ASSUME NEW v \in Viewer, LeaveCapture(v) PROVE ReinitIsPassing'
  BY <1>31 DEF LeaveCapture, Move, OnlyViewer, threadVars
<1>32. ASSUME NEW v \in Viewer, JoinCapture(v) PROVE ReinitIsPassing'
  BY <1>32 DEF JoinCapture, Goto, At, Move, OnlyViewer, threadVars
<1>33. ASSUME NEW v \in Viewer, ViewerGuard(v) PROVE ReinitIsPassing'
  BY <1>33 DEF ViewerGuard, Move, OnlyViewer, threadVars
<1>34. ASSUME NEW v \in Viewer, RefCapture(v) PROVE ReinitIsPassing'
  BY <1>34 DEF RefCapture, Move
<1>35. ASSUME NEW v \in Viewer, StopViewer(v) PROVE ReinitIsPassing'
  BY <1>35 DEF StopViewer, threadVars, sharedVars
<1>36. CASE TeardownDone
  BY <1>36 DEF TeardownDone, threadVars, sharedVars
<1>37. CASE SwitchDisplay
  BY <1>37 DEF SwitchDisplay, viewerVars, sharedVars
<1> QED
  BY <1>1, <1>2, <1>3, <1>4, <1>5, <1>6, <1>7, <1>8, <1>9, <1>10, <1>11,
     <1>12, <1>13, <1>14, <1>15, <1>16, <1>17, <1>18, <1>19, <1>20, <1>21,
     <1>22, <1>23, <1>24, <1>25, <1>26, <1>27, <1>28, <1>29, <1>30, <1>31,
     <1>32, <1>33, <1>34, <1>35, <1>36, <1>37 DEF Next, CaptureThread,
     Backend, ViewerStep

-----------------------------------------------------------------------------
(* The theorems *)

LEMMA InitIInv == ASSUME CaptureConstants, Init PROVE IInv
<1>1. NewQueue \in Queue /\ NewQueue.on /\ NewQueue.items = <<>>
  BY DEF NewQueue, Queue
<1>2. ToSet(<<>>) = {} /\ IsInjective(<<>>)
  BY <1>1, WaitingType
<1>3. NewEvent \in Flag /\ NewEvent \in Event /\ ~Peek(NewEvent)
  BY DEF NewEvent, Flag, Event, Peek
<1>4. Places
  <2>1. /\ context \in {"down", "up", "ending"} /\ handles \subseteq Viewer /\ reinit \in Flag
        /\ displayWp \in Display \union {NoDisplay} /\ ctxs \subseteq Viewer
        /\ disp \in Display \union {NoDisplay} /\ opened \in 0..MaxDisplay
        /\ switch \in BOOLEAN /\ teardown \subseteq Teardown /\ crashed \in BOOLEAN
    <3>1. opened \in 0..MaxDisplay
      BY DEF Init, CaptureConstants
    <3>2. /\ context \in {"down", "up", "ending"} /\ reinit \in Flag
          /\ switch \in BOOLEAN /\ crashed \in BOOLEAN
      BY <1>3 DEF Init
    <3>3. /\ handles \subseteq Viewer /\ teardown \subseteq Teardown /\ ctxs \subseteq Viewer
          /\ displayWp \in Display \union {NoDisplay} /\ disp \in Display \union {NoDisplay}
      BY DEF Init
    <3> QED BY <3>1, <3>2, <3>3
  <2>2. capture \in [pc : CapturePC, drain : Viewer \union {Nothing}]
    BY DEF Init, CapturePC
  <2>3. /\ viewer \in [Viewer -> ViewerPC] /\ shutdownRaised \in [Viewer -> BOOLEAN]
        /\ held \in [Viewer -> Display \union {NoDisplay}] /\ encoded \in [Viewer -> BOOLEAN]
    BY DEF Init, ViewerPC
  <2> QED BY <2>1, <2>2, <2>3 DEF Places
<1>5. Values
  BY <1>1, <1>3 DEF Init, Values
<1>6. Queued /\ Known
  BY <1>1, <1>2 DEF Init, Queued, Known
<1>7. Contexts /\ Ends /\ Locked /\ Opened /\ ReinitIsPassing
  BY <1>3 DEF Init, Contexts, Inside, At, Ends, Locked, Opened, ReinitIsPassing
<1>8. Dealt
  BY <1>3 DEF Init, Dealt
<1> QED BY <1>4, <1>5, <1>6, <1>7, <1>8, TypeParts DEF IInv

LEMMA IInvKept == ASSUME CaptureConstants, IInv, [Next]_vars PROVE IInv'
<1>1. CASE Next
  <2>1. TypeOK'
    <3>1. Places' /\ Values'
      BY <1>1, PlacesStep, ValuesStep
    <3> QED BY <3>1 DEF TypeOK, Places, Values, Event, Queue, Flag, Teardown
  <2> QED BY <1>1, <2>1, ContextsStep, QueuedStep, EndsStep, KnownStep, LockedStep, OpenedStep,
             DealtStep, ReinitIsPassingStep DEF IInv
<1>2. CASE UNCHANGED vars
  <2>1. TypeOK' /\ Contexts' /\ Queued' /\ Ends' /\ Known'
    BY ZenonT(60), <1>2 DEF vars, threadVars, viewerVars, sharedVars, IInv, TypeOK, Contexts, Queued, Ends,
                Known, At
  <2>2. Locked' /\ Opened' /\ Dealt' /\ ReinitIsPassing'
    BY <1>2 DEF vars, threadVars, viewerVars, sharedVars, IInv, Locked, Opened, Dealt,
                ReinitIsPassing
  <2> QED BY <2>1, <2>2 DEF IInv
<1> QED BY <1>1, <1>2

LEMMA Always == CaptureConstants => (Spec => []IInv)
<1> SUFFICES ASSUME CaptureConstants PROVE Spec => []IInv
  OBVIOUS
<1>1. Init => IInv
  BY InitIInv
<1>2. IInv /\ [Next]_vars => IInv'
  BY IInvKept
<1> QED BY <1>1, <1>2, PTL DEF Spec

\* Every variable of the capture thread and the sessions keeps its type, a
\* waiting context included.
THEOREM Typing == CaptureConstants => (Spec => []TypeOK)
<1>1. IInv => TypeOK
  BY DEF IInv
<1> QED BY <1>1, Always, PTL

\* When the capture thread has ended, no session that got in goes on waiting
\* for images: its event was stopped (the fail_guard of captureThread), or its
\* context was refused because the queue had been stopped first.
THEOREM DeadThreadStops == CaptureConstants => (Spec => []DeadThreadStopsAll)
<1>1. IInv => DeadThreadStopsAll
  BY DEF IInv, DeadThreadStopsAll, Known, At
<1> QED BY <1>1, Always, PTL

\* The event that sends the encoders out is up only while the display is
\* replaced, or after the thread that would clear it has gone.
THEOREM ReinitPasses == CaptureConstants => (Spec => []ReinitIsPassing)
<1>1. IInv => ReinitIsPassing
  BY DEF IInv
<1> QED BY <1>1, Always, PTL

\* No image of a display that was replaced waits for an encoder while images
\* of the new one are dealt out (the wait for use_count() == 1, with the
\* images taken back).
THEOREM ImagesAreFresh == CaptureConstants => (Spec => []NoStaleImage)
<1>1. IInv => NoStaleImage
  BY DEF IInv, NoStaleImage, Dealt
<1> QED BY <1>1, Always, PTL

\* The three together, as the benches' runs ask for them.
THEOREM CaptureIsSound ==
  CaptureConstants => (Spec => [](DeadThreadStopsAll /\ ReinitIsPassing /\ NoStaleImage))
BY DeadThreadStops, ReinitPasses, ImagesAreFresh, PTL
=============================================================================
