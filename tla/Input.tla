-------------------------------- MODULE Input --------------------------------
(***************************************************************************)
(* What the host does with the messages of its clients' mice, keyboards    *)
(* and gamepads (input.cpp).  A single worker runs the tasks of the pool   *)
(* in order, and its timers when no task waits; the threads that end a     *)
(* session call reset() beside it.  The buttons and keys are shared by all *)
(* clients.  A timer is cancelled by the address it was given, which may   *)
(* since belong to another timer.                                          *)
(*                                                                         *)
(* Every client has one gamepad; of its state only the BACK button, which  *)
(* turns into HOME when held, matters here.  Shift stands for Shift, Ctrl  *)
(* and Alt, and N for the shortcuts they make.  InputBatch has the queue   *)
(* of messages; key bindings are left out.                                 *)
(***************************************************************************)
EXTENDS Integers, FiniteSets, Sequences

CONSTANTS Session,
          Id,                    \* addresses of timers
          Message,               \* what the clients may send
          MaxMessages,           \* bound on the messages of a behaviour
          Port,                  \* 1 .. bound: displays that are captured in turn
          HighRes,               \* config::input.high_resolution_scrolling
          Pad                    \* 0 .. MAX_GAMEPADS - 1

None == "none"                   \* nullptr
Disabled == "disabled"           \* DISABLE_LEFT_BUTTON_DELAY
NoPad == -1
Shift == {"leftShift", "rightShift"}
Key == {"a", "n"} \union Shift
WheelDelta == 120                \* WHEEL_DELTA
Way == {"v", "h"}
Tracked == {"left", "right"}     \* mouse_press has no place for BUTTON_X2

VARIABLES
  tasks,                         \* the pool: tasks, timers, and the timer in hand
  timers,
  running,
  life,                          \* where the end of each session is
  keyPress, mousePress,          \* key_press, mouse_press
  shifted,                       \* who has SHIFT in shortcutFlags
  cursor,                        \* display_cursor
  repeatId, leftId,              \* key_press_repeat_id, mouse_left_button_timeout
  pad,                           \* gamepads[..].id
  mask,                          \* gamepadMask
  backId, forcedUp, padBack,     \* back_timeout_id, back_button_state, gamepad_state
  osKeys, osButtons,             \* what the system was told
  attached, osBack,
  fed,                           \* who touches or moves each gamepad
  rest, turned, meantTurns,      \* accumulated_*scroll_delta, what the wheels were turned, and should
  port, raised, captured,        \* touch_port, its event, and the display that is captured
  lifted, unshifted,             \* a Shift that counts as held was let go; a key lacked it
  sent,
  cut                            \* a pending release of the left button was cancelled

poolVars == <<tasks, timers, running>>
mouseVars == <<mousePress, leftId, osButtons>>
keyVars == <<keyPress, repeatId, osKeys, shifted, cursor, lifted, unshifted>>
padVars == <<pad, mask, backId, forcedUp, padBack, attached, osBack, fed>>
wheelVars == <<rest, turned, meantTurns>>
portVars == <<port, raised, captured>>
vars == <<poolVars, life, mouseVars, keyVars, padVars, wheelVars, portVars, sent, cut>>

Timer == [id : Id, kind : {"left", "home"}, s : Session]
           \union [id : Id, kind : {"repeat"}, key : Key, with : SUBSET Shift]

Life == {"up", "cancelling", "cancelled", "reset", "gone"}

\* The messages and their fields.
IsMessage(m) ==
  \/ m.type = "button" /\ m.release \in BOOLEAN
  \/ m.type = "move" /\ m.absolute \in BOOLEAN
  \/ m.type = "scroll" /\ m.way \in Way /\ m.amount \in Int
  \/ m.type = "key" /\ m.key \in Key /\ m.release \in BOOLEAN /\ m.shift \in BOOLEAN
  \/ m.type = "pad" /\ m.back \in BOOLEAN
  \/ m.type \in {"draw", "arrive", "leave", "sense"}

TypeOK ==
  /\ timers \subseteq Timer /\ running \subseteq Timer
  /\ life \in [Session -> Life]
  /\ keyPress \subseteq Key /\ mousePress \subseteq Tracked
  /\ repeatId \in Id \union {None} /\ leftId \in [Session -> Id \union {None, Disabled}]
  /\ pad \in [Session -> Pad \union {NoPad}] /\ mask \subseteq Pad
  /\ backId \in [Session -> Id \union {None}]
  /\ forcedUp \subseteq Session /\ padBack \subseteq Session
  /\ osKeys \subseteq Key /\ attached \subseteq Pad /\ osBack \subseteq Pad
  /\ shifted \subseteq Session /\ cursor \in BOOLEAN
  /\ lifted \in BOOLEAN /\ unshifted \in BOOLEAN
  /\ fed \subseteq Pad \X Session
  /\ rest \in [Session \X Way -> (1 - WheelDelta)..(WheelDelta - 1)]
  /\ turned \in [Session \X Way -> Int] /\ meantTurns \in [Session \X Way -> Int]
  /\ port \in [Session -> Port \union {0}] /\ raised \in [Session -> Port \union {0}]
  /\ captured \in Port \union {0}
  /\ sent \in 0..MaxMessages /\ cut \in BOOLEAN

Init == /\ tasks = <<>> /\ timers = {} /\ running = {}
        /\ life = [s \in Session |-> "up"]
        /\ keyPress = {} /\ mousePress = {}
        /\ repeatId = None /\ leftId = [s \in Session |-> None]
        /\ pad = [s \in Session |-> NoPad] /\ mask = {}
        /\ backId = [s \in Session |-> None] /\ forcedUp = {} /\ padBack = {}
        /\ osKeys = {} /\ osButtons = {} /\ attached = {} /\ osBack = {} /\ fed = {}
        /\ shifted = {} /\ cursor = TRUE /\ lifted = FALSE /\ unshifted = FALSE
        /\ rest = [w \in Session \X Way |-> 0] /\ turned = rest /\ meantTurns = rest
        /\ port = [s \in Session |-> 0] /\ raised = [s \in Session |-> 0] /\ captured = 0
        /\ sent = 0 /\ cut = FALSE

-----------------------------------------------------------------------------
(* The pool *)

\* A new timer may get the address of any that is gone.
Free(i) == \A t \in timers \union running : t.id # i

\* TaskPool::cancel(): the timer is found by its address, unless it runs already.
Cancelled(id) == {t \in timers : t.id = id}

Cuts(gone) == \E t \in gone : t.kind = "left"

\* The control thread queues what a client sends.
Send(s, m) == /\ life[s] = "up" /\ sent < MaxMessages
              /\ sent' = sent + 1
              /\ tasks' = Append(tasks, [kind |-> "pass", s |-> s, m |-> m])
              /\ UNCHANGED <<timers, running, life, mouseVars, keyVars, padVars, wheelVars, portVars, cut>>

\* A timer is due when no task waits.
Fire(t) == /\ running = {} /\ tasks = <<>>
           /\ timers' = timers \ {t}
           /\ running' = {t}
           /\ UNCHANGED <<tasks, life, mouseVars, keyVars, padVars, wheelVars, portVars, sent, cut>>

-----------------------------------------------------------------------------
(* The mouse *)

\* if (button > 0 && button < mouse_press.size())
Recorded(buttons) == buttons \intersect Tracked

Button(s, b, release) ==
  /\ UNCHANGED <<keyVars, padVars, wheelVars, portVars, cut>>
  /\ IF b \in Tracked /\ (b \in mousePress) # release
     THEN UNCHANGED <<mouseVars, timers>>                \* already what we want
     ELSE LET pressed == IF release THEN mousePress \ {b} ELSE mousePress \union {b} IN
       CASE b = "left" /\ release /\ leftId[s] = None ->
              \E i \in {i \in Id : Free(i)} :
                /\ timers' = timers \union {[id |-> i, kind |-> "left", s |-> s]}
                /\ leftId' = [leftId EXCEPT ![s] = i]
                /\ mousePress' = pressed
                /\ UNCHANGED osButtons
         [] b = "right" /\ ~release /\ leftId[s] \notin {None, Disabled} ->
              /\ osButtons' = osButtons \ {b}            \* pressed and released
              /\ mousePress' = pressed \ {b}
              /\ UNCHANGED <<leftId, timers>>
         [] OTHER ->
              /\ osButtons' = IF release THEN osButtons \ {b} ELSE osButtons \union {b}
              /\ mousePress' = Recorded(pressed)
              /\ UNCHANGED <<leftId, timers>>

\* A display is captured: its geometry is told to every client that watches.
Capture(d) == /\ d = captured + 1 /\ captured' = d
              /\ raised' = [s \in Session |-> IF life[s] = "up" THEN d ELSE raised[s]]
              /\ UNCHANGED <<poolVars, life, mouseVars, keyVars, padVars, wheelVars, port, sent, cut>>

\* client_to_touchport(): what was told last; input that comes earlier is ignored.
Placed(s) == /\ port' = [port EXCEPT ![s] = IF raised[s] # 0 THEN raised[s] ELSE @]
             /\ raised' = [raised EXCEPT ![s] = 0]
             /\ UNCHANGED captured

\* Absolute coordinates enable the delay of the left button, relative ones
\* disable it, and forget a release that is pending.
Move(s, absolute) ==
  /\ leftId' = [leftId EXCEPT ![s] = IF ~absolute THEN Disabled
                                     ELSE IF @ = Disabled THEN None ELSE @]
  /\ IF absolute THEN Placed(s) ELSE UNCHANGED portVars
  /\ UNCHANGED <<timers, mousePress, osButtons, keyVars, padVars, wheelVars, cut>>

\* Touches and pens.
Draw(s) == /\ Placed(s)
           /\ UNCHANGED <<timers, mouseVars, keyVars, padVars, wheelVars, cut>>

\* The division of C, which rounds towards zero.
FullTicks(d) == IF d < 0 THEN -((-d) \div WheelDelta) ELSE d \div WheelDelta

\* A wheel turns by whole ticks, the rest is kept for the next message.
Scroll(s, way, amount) ==
  LET all == rest[<<s, way>>] + amount
      now == IF HighRes THEN amount ELSE FullTicks(all) * WheelDelta
  IN /\ turned' = [turned EXCEPT ![<<s, way>>] = @ + now]
     /\ meantTurns' = [meantTurns EXCEPT ![<<s, way>>] = @ + amount]
     /\ rest' = IF HighRes THEN rest ELSE [rest EXCEPT ![<<s, way>>] = all - now]
     /\ UNCHANGED <<timers, mouseVars, keyVars, padVars, portVars, cut>>

\* The delayed release: the button may be down again.
LeftTimeout(s) ==
  IF "left" \in mousePress THEN UNCHANGED mouseVars
  ELSE /\ osButtons' = osButtons \ {"left"}
       /\ leftId' = [leftId EXCEPT ![s] = None]
       /\ UNCHANGED mousePress

-----------------------------------------------------------------------------
(* The keyboard *)

\* Faulty: the repetition of the last key goes on beside the new one's.
CancelNothing == {}

CancelRepeat == Cancelled(repeatId)

\* The Shift that the client asks for and does not hold itself; it is the left one.
Synthetic(s, k, shift) ==
  IF shift /\ s \notin shifted /\ k \notin Shift THEN {"leftShift"} ELSE {}

\* send_key_and_modifiers(), for a key that goes down; Shift is let go again, also if
\* someone holds it.
SendDown(k, with) ==
  /\ osKeys' = (osKeys \ with) \union {k}
  /\ lifted' = (lifted \/ with \intersect keyPress # {})

\* update_shortcutFlags(): letting go of one Shift forgets the other.
Flagged(s, k, release) ==
  shifted' = IF k \notin Shift THEN shifted
             ELSE IF release THEN shifted \ {s} ELSE shifted \union {s}

\* apply_shortcut(): the client hides and shows the pointer.
IsShortcut(s, k) == s \in shifted /\ k = "n"

KeyDown(s, k, shift) ==
  IF k \in keyPress THEN UNCHANGED <<keyVars, timers, cut>>
  ELSE IF IsShortcut(s, k)
  THEN /\ cursor' = ~cursor
       /\ UNCHANGED <<keyPress, repeatId, osKeys, shifted, lifted, unshifted, timers, cut>>
  ELSE LET with == Synthetic(s, k, shift)
       IN \E i \in {i \in Id : Free(i)} :
            /\ timers' = (timers \ CancelRepeat)
                            \union {[id |-> i, kind |-> "repeat", key |-> k, with |-> with]}
            /\ cut' = (cut \/ Cuts(CancelRepeat))
            /\ repeatId' = i
            /\ keyPress' = keyPress \union {k}
            /\ SendDown(k, with)
            /\ Flagged(s, k, FALSE)
            /\ unshifted' = (unshifted \/ (shift /\ k \notin Shift
                                            /\ (osKeys \union with) \intersect Shift = {}))
            /\ UNCHANGED cursor

\* A client that may still have messages.
Types(s) == life[s] = "up" \/ \E i \in 1..Len(tasks) : tasks[i].kind = "pass" /\ tasks[i].s = s

KeyUp(s, k) ==
  /\ IF k \in keyPress
     THEN /\ keyPress' = keyPress \ {k} /\ osKeys' = osKeys \ {k}
          /\ Flagged(s, k, TRUE)
          /\ lifted' = (lifted \/ (k \in Shift /\ \E o \in shifted \ {s} : Types(o)))
     ELSE UNCHANGED <<keyPress, osKeys, shifted, lifted>>
  /\ UNCHANGED <<repeatId, cursor, unshifted, timers, cut>>

\* repeat_key(): a key that is still down is sent again, as it was at first.
RepeatKey(k, with) ==
  IF k \notin keyPress
  THEN repeatId' = None /\ UNCHANGED <<osKeys, lifted, timers>>
  ELSE \E i \in {i \in Id : Free(i)} :
         /\ timers' = timers \union {[id |-> i, kind |-> "repeat", key |-> k, with |-> with]}
         /\ repeatId' = i
         /\ SendDown(k, with)

-----------------------------------------------------------------------------
(* Gamepads *)

MaskOnFailure(id) == mask

\* alloc_id() takes the first that is free; the platform may refuse.
AllocPad(s) ==
  LET unused == Pad \ mask
      id == CHOOSE i \in unused : \A j \in unused : i <= j
  IN \/ /\ unused # {}
        /\ pad' = [pad EXCEPT ![s] = id]
        /\ mask' = mask \union {id} /\ attached' = attached \union {id}
     \/ /\ unused # {}
        /\ mask' = MaskOnFailure(id) /\ UNCHANGED <<pad, attached>>
     \/ unused = {} /\ UNCHANGED <<pad, mask, attached>>

FreePad(id) == /\ mask' = mask \ {id}
               /\ attached' = attached \ {id}
               /\ fed' = {f \in fed : f[1] # id}
               /\ osBack' = osBack \ {id}

\* The arrival of a controller that has an id is ignored.
PadArrives(s) == /\ IF pad[s] = NoPad THEN AllocPad(s) ELSE UNCHANGED <<pad, mask, attached>>
                 /\ UNCHANGED <<backId, forcedUp, padBack, osBack, fed, timers, cut>>

\* Touches, motion and the battery of a controller go to its gamepad, if it has one.
PadSense(s) == /\ fed' = fed \union (IF pad[s] = NoPad THEN {} ELSE {<<pad[s], s>>})
               /\ UNCHANGED <<pad, mask, attached, backId, forcedUp, padBack, osBack, timers,
                              cut>>

\* The controller is no longer in activeGamepadMask.  A timer for the HOME
\* button stays.
PadLeaves(s) == /\ IF pad[s] = NoPad THEN UNCHANGED <<pad, mask, attached, osBack, fed>>
                   ELSE FreePad(pad[s]) /\ pad' = [pad EXCEPT ![s] = NoPad]
                /\ UNCHANGED <<backId, forcedUp, padBack, timers, cut>>

\* The state of a controller, which is allocated first if it is new; after HOME
\* was emulated BACK counts as up until the client lets go of it.
PadState(s, back) ==
  /\ IF pad[s] = NoPad THEN AllocPad(s) ELSE UNCHANGED <<pad, mask, attached>>
  /\ UNCHANGED fed
  /\ IF pad'[s] = NoPad THEN UNCHANGED <<backId, forcedUp, padBack, osBack, timers, cut>>
     ELSE LET down == back /\ s \notin forcedUp
              was == s \in padBack
          IN /\ forcedUp' = IF back THEN forcedUp ELSE forcedUp \ {s}
             /\ CASE down /\ ~was ->
                       \E i \in {i \in Id : Free(i)} :
                         /\ timers' = timers \union {[id |-> i, kind |-> "home", s |-> s]}
                         /\ backId' = [backId EXCEPT ![s] = i]
                         /\ UNCHANGED cut
                  [] ~down /\ was /\ backId[s] # None ->
                       /\ timers' = timers \ Cancelled(backId[s])
                       /\ cut' = (cut \/ Cuts(Cancelled(backId[s])))
                       /\ backId' = [backId EXCEPT ![s] = None]
                  [] OTHER -> UNCHANGED <<timers, backId, cut>>
             /\ padBack' = IF down THEN padBack \union {s} ELSE padBack \ {s}
             /\ osBack' = IF down THEN osBack \union {pad'[s]} ELSE osBack \ {pad'[s]}

\* BACK was held long enough: it is let go, and HOME pressed and let go.
Home(s) == /\ forcedUp' = forcedUp \union {s}
           /\ padBack' = padBack \ {s}
           /\ backId' = [backId EXCEPT ![s] = None]
           /\ osBack' = osBack \ {pad[s]}
           /\ UNCHANGED <<pad, mask, attached, fed>>

-----------------------------------------------------------------------------
(* The worker *)

PassPad(s, m) == \/ m.type = "arrive" /\ PadArrives(s)
                 \/ m.type = "leave" /\ PadLeaves(s)
                 \/ m.type = "pad" /\ PadState(s, m.back)
                 \/ m.type = "sense" /\ PadSense(s)

Pass(s, m) ==
  \/ m.type = "button" /\ Button(s, m.b, m.release)
  \/ m.type = "move" /\ Move(s, m.absolute)
  \/ m.type = "draw" /\ Draw(s)
  \/ m.type = "scroll" /\ Scroll(s, m.way, m.amount)
  \/ m.type = "key" /\ (IF m.release THEN KeyUp(s, m.key) ELSE KeyDown(s, m.key, m.shift))
       /\ UNCHANGED <<mouseVars, padVars, wheelVars, portVars>>
  \/ PassPad(s, m) /\ UNCHANGED <<mouseVars, keyVars, wheelVars, portVars>>

LetGo == osButtons' = osButtons \ mousePress /\ osKeys' = osKeys \ keyPress

\* The task of reset(): every button and key that is down, of any client; what the
\* others know of their Shift stays.
Release == /\ LetGo
           /\ mousePress' = {} /\ keyPress' = {}
           /\ lifted' = (lifted \/ \E s \in shifted : Types(s))
           /\ UNCHANGED <<leftId, repeatId, shifted, cursor, unshifted, timers, padVars,
                          wheelVars, portVars, cut>>

Work == /\ running = {} /\ tasks # <<>>
        /\ LET t == Head(tasks) IN
             \/ t.kind = "pass" /\ Pass(t.s, t.m)
             \/ t.kind = "reset" /\ Release
             \/ /\ t.kind = "free" /\ FreePad(t.pad)
                /\ UNCHANGED <<pad, backId, forcedUp, padBack, timers, cut,
                               mouseVars, keyVars, wheelVars, portVars>>
        /\ tasks' = Tail(tasks)
        /\ UNCHANGED <<running, life, sent>>

RunTimer == \E t \in running :
  /\ \/ /\ t.kind = "left" /\ LeftTimeout(t.s)
        /\ UNCHANGED <<keyVars, padVars, timers>>
     \/ /\ t.kind = "repeat" /\ RepeatKey(t.key, t.with)
        /\ UNCHANGED <<keyPress, shifted, cursor, unshifted, mouseVars, padVars>>
     \/ /\ t.kind = "home" /\ Home(t.s)
        /\ UNCHANGED <<mouseVars, keyVars, timers>>
  /\ running' = {}
  /\ UNCHANGED <<tasks, life, wheelVars, portVars, sent, cut>>

-----------------------------------------------------------------------------
(* The end of a session: reset(), and later the destructor of input_t *)

ResetRepeat(s) == /\ life[s] = "up"
                  /\ life' = [life EXCEPT ![s] = "cancelling"]
                  /\ timers' = timers \ Cancelled(repeatId)
                  /\ cut' = (cut \/ Cuts(Cancelled(repeatId)))
                  /\ UNCHANGED <<tasks, running, mouseVars, keyVars, padVars, wheelVars, portVars,
                                 sent>>

ResetLeft(s) == /\ life[s] = "cancelling"
                /\ life' = [life EXCEPT ![s] = "cancelled"]
                /\ timers' = timers \ Cancelled(leftId[s])
                /\ cut' = (cut \/ Cuts(Cancelled(leftId[s])))
                /\ UNCHANGED <<tasks, running, mouseVars, keyVars, padVars, wheelVars, portVars,
                                 sent>>

ResetPush(s) == /\ life[s] = "cancelled"
                /\ life' = [life EXCEPT ![s] = "reset"]
                /\ tasks' = Append(tasks, [kind |-> "reset"])
                /\ UNCHANGED <<timers, running, mouseVars, keyVars, padVars, wheelVars, portVars,
                                 sent, cut>>

\* Tasks and timers that hold the input_t.
HeldBy(s) == \/ \E i \in 1..Len(tasks) : tasks[i].kind = "pass" /\ tasks[i].s = s
             \/ \E t \in timers \union running :
                  t.kind \in {"left", "home"} /\ t.s = s

\* ~gamepad_t() leaves the gamepad to the worker.
Destroy(s) == /\ life[s] = "reset" /\ ~HeldBy(s)
              /\ life' = [life EXCEPT ![s] = "gone"]
              /\ IF pad[s] = NoPad THEN UNCHANGED <<pad, tasks>>
                 ELSE /\ tasks' = Append(tasks, [kind |-> "free", pad |-> pad[s]])
                      /\ pad' = [pad EXCEPT ![s] = NoPad]
              /\ UNCHANGED <<timers, running, mouseVars, keyVars, mask, backId, forcedUp, fed,
                             padBack, attached, osBack, wheelVars, portVars, sent, cut>>

\* A step while the clients ss send ms and the displays ds are captured.
NextOf(ss, ms, ds) ==
  \/ \E s \in ss, m \in ms : Send(s, m)
  \/ \E t \in timers : Fire(t)
  \/ \E d \in ds : Capture(d)
  \/ Work \/ RunTimer
  \/ \E s \in ss : ResetRepeat(s) \/ ResetLeft(s) \/ ResetPush(s) \/ Destroy(s)

Next == NextOf(Session, Message, Port)

Spec == Init /\ [][Next]_vars

-----------------------------------------------------------------------------
(* Properties *)

LeftPending == \E t \in timers \union running : t.kind = "left"

\* The system holds exactly the buttons and keys the host knows to be down, and
\* the left button while its release is delayed, at every step of every client
\* and of a reset; unless the delayed release was cancelled, or a Shift that is
\* down was let go to give another key its own.
HeldIsKnown ==
  /\ osKeys \subseteq keyPress /\ keyPress \ osKeys \subseteq {"leftShift"}
  /\ ~lifted => osKeys = keyPress
  /\ mousePress \subseteq osButtons
  /\ ~cut => osButtons \intersect Tracked
               \subseteq mousePress \union (IF LeftPending THEN {"left"} ELSE {})

\* A key is never sent without the Shift its client asked for, unless a Shift that
\* the client holds was let go by a synthetic one, another client or its end.
TypedAsAsked == unshifted => lifted

\* No turn of a wheel is lost or made twice, however small the messages.
WheelIsKept == \A w \in Session \X Way : turned[w] + rest[w] = meantTurns[w]

\* The geometry that absolute input is placed with is that of the display that is
\* captured, unless a new one waits for the next input.
PortIsCurrent == \A s \in Session : life[s] = "up" /\ raised[s] = 0 => port[s] = captured

\* An id of a gamepad is taken exactly when one client, or one task that will
\* free it, has it: no two clients share a gamepad and none is leaked.
PadOwned ==
  LET owners(id) == {s \in Session : pad[s] = id}
      frees(id) == {i \in 1..Len(tasks) : tasks[i].kind = "free" /\ tasks[i].pad = id}
  IN \A id \in Pad : /\ Cardinality(owners(id)) + Cardinality(frees(id))
                          = (IF id \in mask THEN 1 ELSE 0)
                     /\ id \in attached <=> id \in mask

\* What a gamepad was told came from the client that has it, or had it last and left.
FedByOwner == \A f \in fed : pad[f[2]] = f[1] \/ life[f[2]] = "gone"

\* Only one key repeats at a time, and when all clients are gone and the pool is
\* idle nothing is down and nothing repeats.
NothingLeft ==
  /\ Cardinality({t \in timers \union running : t.kind = "repeat"}) <= 1
  /\ (\A s \in Session : life[s] = "gone") /\ tasks = <<>> /\ timers = {} /\ running = {}
       => mousePress = {} /\ keyPress = {} /\ mask = {}
=============================================================================
