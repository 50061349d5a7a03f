------------------------------ MODULE InputBatch ------------------------------
(***************************************************************************)
(* The queue of input messages of one client (input.cpp).  The control     *)
(* thread appends a message and pushes one task; the worker takes the      *)
(* first message and merges later ones into it, under the lock of the      *)
(* queue, and sends the result to the operating system after it.  So the   *)
(* system sees fewer messages than were sent, and perhaps in another       *)
(* order: it must not see another input.                                   *)
(*                                                                         *)
(* A position, the state of a stick or of a sensor is a member of Value;   *)
(* motion and scrolling are signed integers of Bits bits.                  *)
(***************************************************************************)
EXTENDS Integers, Sequences

CONSTANTS Messages,          \* the messages the client may send
          MaxMessages,       \* bound on the messages of a behaviour
          Bits               \* the width of a motion, 16 in the program

VARIABLES queue,             \* input_queue
          tasks,             \* passthrough_next_message tasks in the pool
          seen,              \* what the system has been told
          meant,             \* what it would have been told without batching
          sent               \* messages so far

vars == <<queue, tasks, seen, meant, sent>>

Controller == {0, 1}
Pointer == {0, 1}
Half == 2 ^ (Bits - 1)

\* The conversion to a signed integer of Bits bits.
Wrap(n) == ((n + Half) % (2 * Half)) - Half

Overflows(a, b) == a + b \notin -Half .. Half - 1

-----------------------------------------------------------------------------
(* What the system is told.  A button or a phase that changes is counted, *)
(* because a click must not be lost even if it ends where it began.        *)

Nothing == [move |-> <<0, 0>>, at |-> "none", scroll |-> 0,
            pad |-> [c \in Controller |-> [buttons |-> {}, stick |-> "rest", changes |-> 0]],
            touch |-> [p \in Pointer |-> [event |-> "up", at |-> "none", changes |-> 0]],
            padTouch |-> [x \in Controller \X Pointer |->
                            [event |-> "up", at |-> "none", changes |-> 0]],
            pen |-> [event |-> "up", tool |-> "pen", at |-> "none", changes |-> 0],
            sensor |-> [c \in Controller |-> [s \in {"gyro", "accel"} |-> "rest"]],
            clicks |-> 0]

Counted(old, new) == IF old = new THEN 0 ELSE 1

Told(w, m) ==
  CASE m.type = "rel" -> [w EXCEPT !.move = <<@[1] + m.d[1], @[2] + m.d[2]>>]
    [] m.type = "abs" -> [w EXCEPT !.at = m.at]
    [] m.type = "scroll" -> [w EXCEPT !.scroll = @ + m.d]
    [] m.type = "button" -> [w EXCEPT !.clicks = @ + 1]
    [] m.type = "pad" -> [w EXCEPT !.pad[m.c] =
                            [buttons |-> m.buttons, stick |-> m.stick,
                             changes |-> @.changes + Counted(@.buttons, m.buttons)]]
    [] m.type = "touch" -> [w EXCEPT !.touch[m.p] =
                              [event |-> m.event, at |-> m.at,
                               changes |-> @.changes + Counted(@.event, m.event)]]
    [] m.type = "padTouch" -> [w EXCEPT !.padTouch[<<m.c, m.p>>] =
                                 [event |-> m.event, at |-> m.at,
                                  changes |-> @.changes + Counted(@.event, m.event)]]
    [] m.type = "pen" -> [w EXCEPT !.pen =
                            [event |-> m.event, tool |-> m.tool, at |-> m.at,
                             changes |-> @.changes + Counted(@.event, m.event)
                                                   + Counted(@.tool, m.tool)]]
    [] m.type = "motion" -> [w EXCEPT !.sensor[m.c][m.sensor] = m.at]

-----------------------------------------------------------------------------
(* batch(): what becomes of the later message src *)

\* __builtin_add_overflow() is true when the sum does not fit; the code stops
\* when it is false.
MayAdd(a, b) == Overflows(a, b)

BatchRel(dest, src) ==
  IF ~MayAdd(dest.d[1], src.d[1]) \/ ~MayAdd(dest.d[2], src.d[2]) THEN "stop" ELSE "batched"

BatchAbs(dest, src) == IF dest.size # src.size THEN "stop" ELSE "batched"

BatchScroll(dest, src) == IF ~MayAdd(dest.d, src.d) THEN "stop" ELSE "batched"

BatchPad(dest, src) == CASE dest.mask # src.mask -> "stop"
                         [] dest.c # src.c -> "skip"
                         [] dest.buttons # src.buttons -> "stop"
                         [] OTHER -> "batched"

Moves(m) == m.event \in {"move", "hover"}

\* Faulty: a finger that is lifted does not stop the search, so a later move
\* overtakes it.
BatchBeyondUp(dest, src) == CASE ~Moves(dest) -> "stop"
                              [] ~Moves(src) \/ dest.p # src.p -> "skip"
                              [] dest.event # src.event -> "stop"
                              [] OTHER -> "batched"

BatchTouch(dest, src) == CASE ~Moves(dest) \/ ~Moves(src) -> "stop"
                           [] dest.p # src.p -> "skip"
                           [] dest.event # src.event -> "stop"
                           [] OTHER -> "batched"

\* The tool stands for the buttons of the pen as well.
BatchPen(dest, src) ==
  IF ~Moves(dest) \/ dest.event # src.event \/ dest.tool # src.tool THEN "stop" ELSE "batched"

BatchPadTouch(dest, src) == CASE ~Moves(dest) -> "stop"
                              [] dest.c # src.c -> "skip"
                              [] ~Moves(src) -> "stop"
                              [] dest.p # src.p -> "skip"
                              [] dest.event # src.event -> "stop"
                              [] OTHER -> "batched"

BatchMotion(dest, src) ==
  IF dest.c # src.c \/ dest.sensor # src.sensor THEN "skip" ELSE "batched"

Batch(dest, src) ==
  CASE dest.type # src.type -> "stop"
    [] dest.type = "rel" -> BatchRel(dest, src)
    [] dest.type = "abs" -> BatchAbs(dest, src)
    [] dest.type = "scroll" -> BatchScroll(dest, src)
    [] dest.type = "pad" -> BatchPad(dest, src)
    [] dest.type = "touch" -> BatchTouch(dest, src)
    [] dest.type = "pen" -> BatchPen(dest, src)
    [] dest.type = "padTouch" -> BatchPadTouch(dest, src)
    [] dest.type = "motion" -> BatchMotion(dest, src)
    [] OTHER -> "stop"

\* Motion is added up; of anything else the latest is taken.
Merged(dest, src) ==
  CASE dest.type = "rel" -> [dest EXCEPT !.d = <<Wrap(@[1] + src.d[1]), Wrap(@[2] + src.d[2])>>]
    [] dest.type = "scroll" -> [dest EXCEPT !.d = Wrap(@ + src.d)]
    [] OTHER -> src

\* The walk over the queue: what is sent, and what stays.
Sweep(q) ==
  LET Look(acc, src) ==
        IF ~acc.going THEN [acc EXCEPT !.stay = Append(@, src)]
        ELSE CASE Batch(acc.dest, src) = "batched" ->
                    [acc EXCEPT !.dest = Merged(@, src)]
               [] Batch(acc.dest, src) = "skip" -> [acc EXCEPT !.stay = Append(@, src)]
               [] OTHER -> [acc EXCEPT !.going = FALSE, !.stay = Append(@, src)]
      After[n \in 1..Len(q)] == IF n = 1 THEN [dest |-> Head(q), stay |-> <<>>, going |-> TRUE]
                                ELSE Look(After[n - 1], q[n])
  IN After[Len(q)]

-----------------------------------------------------------------------------
Init == /\ queue = <<>> /\ tasks = 0 /\ sent = 0
        /\ seen = Nothing /\ meant = Nothing

\* The control thread.
Receive(m) == /\ sent < MaxMessages
              /\ sent' = sent + 1
              /\ queue' = Append(queue, m)
              /\ tasks' = tasks + 1
              /\ meant' = Told(meant, m)
              /\ UNCHANGED seen

\* The worker: a task that finds the queue empty has been served by another.
PassNext == /\ tasks > 0
            /\ tasks' = tasks - 1
            /\ IF queue = <<>>
               THEN UNCHANGED <<queue, seen>>
               ELSE /\ queue' = Sweep(queue).stay
                    /\ seen' = Told(seen, Sweep(queue).dest)
            /\ UNCHANGED <<meant, sent>>

Next == PassNext \/ \E m \in Messages : Receive(m)

Spec == Init /\ [][Next]_vars

-----------------------------------------------------------------------------
(* Properties *)

TypeOK == /\ queue \in Seq(Messages) /\ tasks \in 0..MaxMessages /\ sent \in 0..MaxMessages
          /\ DOMAIN seen = DOMAIN Nothing /\ DOMAIN meant = DOMAIN Nothing

\* When the queue is empty the system has been told what the client sent: the
\* latest position, stick and sensor of everything, and every change of a
\* button or of the phase of a touch, whatever was merged with what
\* (input.cpp, passthrough_next_message); and no message waits without a task.
InputIsKept == /\ queue = <<>> => seen = meant
               /\ Len(queue) <= tasks

\* "Batching is safe as long as the result doesn't overflow a 16-bit integer":
\* so no motion may be lost.
MotionIsKept == queue = <<>> => seen.move = meant.move /\ seen.scroll = meant.scroll
=============================================================================
