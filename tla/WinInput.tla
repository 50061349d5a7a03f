------------------------------- MODULE WinInput -------------------------------
(***************************************************************************)
(* The virtual devices of a client on a Windows host                       *)
(* (platform/windows/input.cpp).                                           *)
(*                                                                         *)
(* Touch screen and pen: Windows forgets a contact that is not injected    *)
(* again within a second, so every update leaves a task that injects the   *)
(* same frame every 50 ms.  Updates and repeats run on the one thread of   *)
(* the task pool; the context of the client is destroyed on another, which *)
(* does not wait for a repeat that is under way.                           *)
(*                                                                         *)
(* Gamepads, on top of the ViGEm driver: the slots outlive the pads in     *)
(* them, so what one pad leaves in its slot is what the next one finds     *)
(* there.  An operation is one step; the driver calls back on a thread of  *)
(* its own and only posts a task, which names the pad by the address of    *)
(* its target.                                                             *)
(*                                                                         *)
(* Mouse and keyboard, and every injection: the desktop that takes the     *)
(* input changes when the screen is locked or a prompt of Windows opens,   *)
(* and a thread has to be moved to it before it is heard there.            *)
(*                                                                         *)
(* Reports: what the buttons and sticks of a client are on a pad of Xbox   *)
(* or Sony.                                                                *)
(*                                                                         *)
(* Coordinates, pressure and the other attributes are left out.            *)
(***************************************************************************)
EXTENDS Integers, Sequences

CONSTANTS Finger,     \* pointer ids of the client's screen
          Slots,      \* ARRAYSIZE(touchInfo): 10
          Pad,        \* global indices of gamepads
          Arrivals,   \* what clients say of their gamepads
          Gamepad,    \* config::input.gamepad: "auto", "x360" or "ds4"
          AsDs4,      \* of "motion" and "touchpad", those that make a pad a DualShock
          Touches,    \* pointer ids of a gamepad: it has room for two fingers
          Address,    \* where the targets of pads are, 1 .. n
          MayFail,    \* may an injection fail, or the driver refuse
          Handle,     \* what OpenInputDesktop() may return; 0 is no handle
          Presses,    \* sets of buttons a client presses
          Sticks,     \* positions of an axis, of -32768 .. 32767
          MaxTask,    \* bound: tasks the driver posted
          MaxSwitch   \* bound: changes of the desktop, and syncs that fail

VARIABLES tool,       \* what this client has, a touch screen, a pen, the motors of pads,
                      \* reports of one with its fingers, a keyboard, or the buttons of one:
                      \* they share nothing
          touch,      \* touchInfo: the pointers by slot
          active,     \* activeTouchSlots
          pen,        \* penInfo.pointerFlags
          repeat,     \* [touch, pen |-> "none", "due" or "running": its repeat task]
          device,     \* the virtual devices that exist
          failed,     \* the last update of a touch was not injected
          held,       \* the fingers that are on the client's screen
          penDown,    \* the pen is on the client's screen
          ended,      \* the context is destroyed
          overtaken,  \* history: a repeat was under way when it was
          client,     \* connected to the driver
          pad,        \* gp: the kind of the target, or "none"
          target,     \* gp.get(): the address of the target, 0 if there is none
          attached,   \* vigem_target_is_attached()
          again,      \* repeat_task: the report is sent again in 100 ms
          pointers,   \* pointer_id_map: pairs of an id and an index
          available,  \* available_pointers
          raised,     \* the pointers that are up in the report
          lastRumble, \* last_rumble
          motor,      \* what the game set last: 0 is off
          posted,     \* rumble() tasks of the driver; old (history): the pad is gone since
          told,       \* what the client of the pad knows of the motors
          mistaken,   \* history: it was told by a task for a pad that had the address before
          touching,   \* the fingers on the client's pad that took a pointer ...
          dropped,    \* ... and those that found none
          crossed,    \* history: a finger without one was lifted by the entry of a pad before
          desk,       \* the desktop that takes the input
          on,         \* the desktop of the thread that sends it
          knownDesk,  \* _lastKnownInputDesktop
          packets,    \* how many packets of the event are still to be sent
          syncing,    \* a packet was not taken: send_input() syncs the thread
          lostSends,  \* packets that were dropped
          switches,   \* changes of the desktop
          syncFails,  \* syncs that failed
          pressed,    \* buttonFlags of the client
          report      \* what the pad shows of it

screenVars == <<touch, active, pen, repeat, device, failed, held, penDown, ended,
                overtaken>>
fingerVars == <<pointers, available, raised, touching, dropped, crossed>>
motorVars == <<lastRumble, motor, posted, told, mistaken>>
padVars == <<client, pad, target, attached, again, fingerVars, motorVars>>
deskVars == <<desk, on, knownDesk, packets, syncing, lostSends, switches, syncFails>>
reportVars == <<pressed, report>>
otherVars == <<tool, deskVars, reportVars>>

\* Flags of a pointer.  Those of Edge say what happens in this frame.
Flag == {"inrange", "incontact", "down", "up", "update", "canceled"}
Edge == {"down", "up", "update", "canceled"}

Empty == [id |-> 0, flags |-> {}]
Blank == [i \in 1..Slots |-> Empty]

ScreenInit ==
        /\ touch = Blank /\ active = 0 /\ pen = {}
        /\ repeat = [touch |-> "none", pen |-> "none"] /\ device = {}
        /\ failed = FALSE /\ held = {} /\ penDown = FALSE
        /\ ended = FALSE /\ overtaken = FALSE

PadInit ==
        /\ client = FALSE /\ pad = [s \in Pad |-> "none"] /\ target = [s \in Pad |-> 0]
        /\ attached = [s \in Pad |-> FALSE] /\ again = [s \in Pad |-> FALSE]
        /\ pointers = [s \in Pad |-> {}] /\ available = [s \in Pad |-> {}]
        /\ raised = [s \in Pad |-> {0, 1}]
        /\ lastRumble = [s \in Pad |-> 0] /\ motor = [s \in Pad |-> 0]
        /\ posted = <<>> /\ told = [s \in Pad |-> 0] /\ mistaken = [s \in Pad |-> FALSE]
        /\ touching = [s \in Pad |-> {}] /\ dropped = [s \in Pad |-> {}]
        /\ crossed = [s \in Pad |-> FALSE]

DeskInit ==
        /\ desk = "user" /\ on = "user" /\ knownDesk = 0 /\ packets = 0
        /\ syncing = FALSE /\ lostSends = 0 /\ switches = 0 /\ syncFails = 0

\* Buttons that both pads have, and the report of a pad at rest.
Dpad == {"up", "down", "left", "right"}
Common == {"start", "back", "leftstick", "rightstick", "leftbutton", "rightbutton", "a", "b", "x",
           "y"}
Blanked == [buttons |-> {}, axis |-> 0, x |-> IF tool = "ds4" THEN 128 ELSE 0,
            y |-> IF tool = "ds4" THEN 128 ELSE 0]

ReportInit == pressed = {} /\ report = Blanked

Init == /\ tool \in {"touch", "pen", "pad", "touchpad", "keyboard", "x360", "ds4"}
        /\ ScreenInit /\ PadInit /\ DeskInit /\ ReportInit

-----------------------------------------------------------------------------
(* Helpers *)

\* perform_touch_compaction(): the pointers that exist, from the first slot on.
Used(slots) == SelectSeq(slots, LAMBDA p : p.flags # {})

\* Faulty: the slots stay where they are.
Uncompacted(slots) == slots

Compacted(slots) == [i \in 1..Slots |-> IF i <= Len(Used(slots)) THEN Used(slots)[i] ELSE Empty]

\* populate_common_pointer_info()
Populated(flags, event) ==
  LET out == flags \ {"incontact", "inrange"}
  IN  CASE event = "hover" -> (flags \ {"incontact"}) \union {"inrange", "update"}
        [] event = "down" -> flags \union {"inrange", "incontact", "down"}
        [] event = "move" -> flags \union {"inrange", "incontact", "update"}
        [] event = "up" -> out \union {"up"}
        [] event = "leave" -> out \union {"update"}
        [] event = "button" -> IF flags = {} THEN {} ELSE flags \union {"update"}
        [] event = "cancel" ->
             out \union {"canceled", IF "incontact" \in flags THEN "up" ELSE "update"}

\* The slots in which pointer_by_id() finds a pointer, or may put a new one.
OfPointer(slots, id) == {i \in 1..Slots : slots[i].id = id /\ slots[i].flags # {}}
Free(slots) == {i \in 1..Slots : slots[i].flags = {}}
First(set) == CHOOSE i \in set : \A j \in set : i <= j

-----------------------------------------------------------------------------
(* Touch *)

\* The event of a finger that the table has no slot left for cancels all.
Overflows(slots, id) == OfPointer(slots, id) = {} /\ Free(slots) = {}

\* touch_update() for one pointer.
Update(event, id) ==
  /\ tool = "touch" /\ ~ended /\ repeat.touch # "running"
  /\ LET packed == Compacted(touch)
         lost == Overflows(packed, id)
         slots == IF lost THEN Blank ELSE packed
         found == OfPointer(slots, id)
         at == First(IF found # {} THEN found ELSE Free(slots))
         count == IF found # {} THEN Len(Used(packed)) ELSE at
         flags == Populated(slots[at].flags, event)
         sent == [slots EXCEPT ![at] = [id |-> id, flags |-> flags]]
     IN  /\ active' = count
         /\ \/ /\ failed' = FALSE
               /\ touch' = [sent EXCEPT ![at].flags = @ \ Edge]
               /\ repeat' = [repeat EXCEPT !.touch =
                               IF count > 1 \/ flags \ Edge # {} THEN "due" ELSE "none"]
            \/ /\ MayFail /\ failed' = TRUE
               /\ touch' = sent /\ repeat' = [repeat EXCEPT !.touch = "none"]
         /\ held' = LET kept == IF lost THEN {} ELSE held
                    IN  CASE event \in {"down", "move"} -> kept \union {id}
                          [] event = "button" -> kept
                          [] OTHER -> kept \ {id}
  /\ device' = device \union {"touch"}
  /\ UNCHANGED <<otherVars, padVars, pen, penDown, ended, overtaken>>

\* What a client sends of a finger: it may repeat a "down" it sent before.
FingerEvent == \E f \in Finger : \/ Update("down", f)
                                 \/ f \in held /\ \E e \in {"move", "up", "cancel"} : Update(e, f)
                                 \/ f \notin held /\ \E e \in {"hover", "leave"} : Update(e, f)

\* touch_update() with LI_TOUCH_EVENT_CANCEL_ALL.
CancelAll ==
  /\ ~ended /\ "touch" \in device /\ repeat.touch # "running"
  /\ touch' = Blank /\ active' = 0 /\ held' = {} /\ failed' = FALSE
  /\ repeat' = [repeat EXCEPT !.touch = "none"]
  /\ UNCHANGED <<otherVars, padVars, pen, device, penDown, ended, overtaken>>

-----------------------------------------------------------------------------
(* Pen *)

\* pen_update(): one pointer, no table.
PenUpdate(event) ==
  /\ tool = "pen" /\ ~ended /\ repeat.pen # "running"
  /\ device' = device \union {"pen"}
  /\ LET flags == Populated(pen, event)
     IN  \/ /\ pen' = flags \ Edge
            /\ repeat' = [repeat EXCEPT !.pen = IF flags \ Edge # {} THEN "due" ELSE "none"]
         \/ /\ MayFail /\ pen' = flags
            /\ repeat' = [repeat EXCEPT !.pen = "none"]
  /\ penDown' = (event \in {"down", "move"} \/ (event = "button" /\ penDown))
  /\ UNCHANGED <<otherVars, padVars, touch, active, failed, held, ended, overtaken>>

PenEvent == \/ ~penDown /\ \E e \in {"hover", "down", "leave", "button"} : PenUpdate(e)
            \/ penDown /\ \E e \in {"move", "up", "cancel", "button"} : PenUpdate(e)

-----------------------------------------------------------------------------
(* The tasks *)

\* repeat_touch() or repeat_pen() is taken from the pool and injects ...
RepeatBegin(d) ==
  /\ repeat[d] = "due" /\ \A o \in {"touch", "pen"} : repeat[o] # "running"
  /\ repeat' = [repeat EXCEPT ![d] = "running"]
  /\ UNCHANGED <<otherVars, padVars, touch, active, pen, device, failed, held, penDown, ended,
                 overtaken>>

\* ... and puts itself back, whether that worked or not and whether or not the
\* context is still there.
RepeatEnd(d) ==
  /\ repeat[d] = "running" /\ repeat' = [repeat EXCEPT ![d] = "due"]
  /\ UNCHANGED <<otherVars, padVars, touch, active, pen, device, failed, held, penDown, ended,
                 overtaken>>

Repeat == \E d \in {"touch", "pen"} : RepeatBegin(d) \/ RepeatEnd(d)

\* ~client_input_raw_t(): a task that is under way can no longer be cancelled, and is
\* not waited for.
Release ==
  /\ tool \in {"touch", "pen"} /\ ~ended /\ ended' = TRUE
  /\ overtaken' = \E d \in {"touch", "pen"} : repeat[d] = "running"
  /\ repeat' = [d \in {"touch", "pen"} |-> IF repeat[d] = "due" THEN "none" ELSE repeat[d]]
  /\ device' = {} /\ held' = {} /\ penDown' = FALSE
  /\ UNCHANGED <<otherVars, padVars, touch, active, pen, failed>>

-----------------------------------------------------------------------------
(* Gamepads: coming and going *)

\* alloc_gamepad(): a manual choice, else the type of the client's pad, else what
\* only a DualShock can show of it.
KindOf(arrival) ==
  IF Gamepad # "auto" THEN Gamepad
  ELSE CASE arrival.type = "ps" -> "ds4"
         [] arrival.type = "xbox" -> "x360"
         [] OTHER -> IF arrival.has \intersect AsDs4 # {} THEN "ds4" ELSE "x360"

\* A new target is where none is: where one was that a task still names, or at the first
\* other place.
Named(a) == \E i \in 1..Len(posted) : posted[i].to = a
InUse(a) == \E s \in Pad : target[s] = a
Places == {a \in Address : ~InUse(a) /\ (Named(a) \/ \A b \in 1..(a - 1) : InUse(b) \/ Named(b))}

\* alloc_gamepad_internal(): a target the driver does not take stays in the
\* slot; the map of pointers and the last rumble are those of the pad before.
\* Without a connection to the driver nothing changes.
Alloc(s, kind) ==
  /\ tool \in {"pad", "touchpad"} /\ ~attached[s]
  /\ client' = TRUE
  /\ pad' = [pad EXCEPT ![s] = kind]
  /\ \E a \in Places : target' = [target EXCEPT ![s] = a]
  /\ available' = [available EXCEPT ![s] = IF kind = "ds4" THEN {0, 1} ELSE @]
  /\ raised' = [raised EXCEPT ![s] = {0, 1}]
  /\ attached' \in {[attached EXCEPT ![s] = TRUE]}
                     \union (IF MayFail THEN {attached} ELSE {})
  /\ motor' = [motor EXCEPT ![s] = 0] /\ told' = [told EXCEPT ![s] = 0]
  /\ mistaken' = [mistaken EXCEPT ![s] = FALSE]
  /\ UNCHANGED <<otherVars, screenVars, again, pointers, lastRumble, posted, touching, dropped,
                 crossed>>

\* free_target(): the last pad to go closes the connection.  The tasks of the driver
\* are still run, and find the pad with the address, if there is one.
FreeTarget(s) ==
  /\ attached[s]
  /\ again' = [again EXCEPT ![s] = FALSE]
  /\ attached' = [attached EXCEPT ![s] = FALSE]
  /\ pad' = [pad EXCEPT ![s] = "none"] /\ target' = [target EXCEPT ![s] = 0]
  /\ client' = \E o \in Pad \ {s} : attached[o]
  /\ posted' = [i \in 1..Len(posted) |->
                  [posted[i] EXCEPT !.old = @ \/ posted[i].to = target[s]]]
  /\ touching' = [touching EXCEPT ![s] = {}] /\ dropped' = [dropped EXCEPT ![s] = {}]
  /\ crossed' = [crossed EXCEPT ![s] = FALSE]
  /\ motor' = [motor EXCEPT ![s] = 0] /\ told' = [told EXCEPT ![s] = 0]
  /\ mistaken' = [mistaken EXCEPT ![s] = FALSE]
  /\ UNCHANGED <<otherVars, screenVars, pointers, available, raised, lastRumble>>

-----------------------------------------------------------------------------
(* Gamepads: reports to the driver *)

\* ds4_update_ts_and_send(): the timestamp of the report overflows unless the
\* report is sent again.
Sends(s) == again' \in {[again EXCEPT ![s] = TRUE]}
                         \union (IF MayFail THEN {[again EXCEPT ![s] = FALSE]} ELSE {})

\* What is done to the report of a DualShock that is there, which is then sent.
Shows(s) == /\ pad[s] = "ds4" /\ attached[s] /\ Sends(s)
            /\ UNCHANGED <<otherVars, screenVars, client, pad, target, attached, motorVars>>

\* gamepad_update()
Report(s) == Shows(s) /\ UNCHANGED fingerVars

\* gamepad_motion() and gamepad_battery(): the same for other parts of the report
Motion(s) == Report(s)
Battery(s) == Report(s)

SendAgain(s) == again[s] /\ Report(s)

IndexOf(s, id) == {p[2] : p \in {q \in pointers[s] : q[1] = id}}
Without(s, id) == {p \in pointers[s] : p[1] # id}

\* gamepad_touch(): "down" takes the first free pointer ...
Down(s, id) ==
  /\ Shows(s) /\ id \notin touching[s] \union dropped[s] /\ available[s] # {}
  /\ LET index == IF 0 \in available[s] THEN 0 ELSE 1
     IN  /\ pointers' = [pointers EXCEPT ![s] = Without(s, id) \union {<<id, index>>}]
         /\ available' = [available EXCEPT ![s] = @ \ {index}]
         /\ raised' = [raised EXCEPT ![s] = @ \ {index}]
  /\ touching' = [touching EXCEPT ![s] = @ \union {id}]
  /\ UNCHANGED <<dropped, crossed>>

\* ... and a third finger is dropped.
Dropped(s, id) ==
  /\ pad[s] = "ds4" /\ attached[s] /\ id \notin touching[s] \union dropped[s]
  /\ available[s] = {}
  /\ dropped' = [dropped EXCEPT ![s] = @ \union {id}]
  /\ UNCHANGED <<otherVars, screenVars, client, pad, target, attached, again, motorVars, pointers,
                 available, raised, touching, crossed>>

\* "move" of a finger that the map has
Move(s, id) == id \in touching[s] \union dropped[s] /\ IndexOf(s, id) # {} /\ Report(s)

\* "up" and "cancel" of a finger that the map has, perhaps since a pad before ...
Up(s, id) ==
  /\ Shows(s) /\ id \in touching[s] \union dropped[s] /\ IndexOf(s, id) # {}
  /\ pointers' = [pointers EXCEPT ![s] = Without(s, id)]
  /\ available' = [available EXCEPT ![s] = @ \union IndexOf(s, id)]
  /\ raised' = [raised EXCEPT ![s] = @ \union IndexOf(s, id)]
  /\ touching' = [touching EXCEPT ![s] = @ \ {id}]
  /\ dropped' = [dropped EXCEPT ![s] = @ \ {id}]
  /\ crossed' = [crossed EXCEPT ![s] = @ \/ id \in dropped[s]]

\* ... and of one that it has not: nothing is done.
UpUnknown(s, id) ==
  /\ pad[s] = "ds4" /\ attached[s] /\ id \in dropped[s] /\ IndexOf(s, id) = {}
  /\ dropped' = [dropped EXCEPT ![s] = @ \ {id}]
  /\ UNCHANGED <<otherVars, screenVars, client, pad, target, attached, again, motorVars, pointers,
                 available, raised, touching, crossed>>

LiftAll(s) ==
  /\ Shows(s)
  /\ pointers' = [pointers EXCEPT ![s] = {}]
  /\ available' = [available EXCEPT ![s] = {0, 1}]
  /\ raised' = [raised EXCEPT ![s] = {0, 1}]
  /\ touching' = [touching EXCEPT ![s] = {}] /\ dropped' = [dropped EXCEPT ![s] = {}]
  /\ crossed' = [crossed EXCEPT ![s] = FALSE]

-----------------------------------------------------------------------------
(* Gamepads: feedback from the driver *)

\* x360_notify() and ds4_notify() post a task that names the target.
Notify(s, m) ==
  /\ attached[s] /\ Len(posted) < MaxTask
  /\ motor' = [motor EXCEPT ![s] = m]
  /\ posted' = Append(posted, [to |-> target[s], motor |-> m, old |-> FALSE])
  /\ UNCHANGED <<otherVars, screenVars, client, pad, target, attached, again, fingerVars,
                 lastRumble, told, mistaken>>

\* rumble(): the pad with that address, if there is one; what its slot was told last is
\* not sent again.
Rumble ==
  /\ posted # <<>> /\ posted' = Tail(posted)
  /\ LET task == Head(posted)
         tells == {s \in Pad : target[s] = task.to /\ lastRumble[s] # task.motor}
     IN  /\ lastRumble' = [s \in Pad |-> IF s \in tells THEN task.motor ELSE lastRumble[s]]
         /\ told' = [s \in Pad |-> IF s \in tells THEN task.motor ELSE told[s]]
         /\ mistaken' = [s \in Pad |-> IF s \in tells THEN task.old ELSE mistaken[s]]
  /\ UNCHANGED <<otherVars, screenVars, client, pad, target, attached, again, fingerVars, motor>>

-----------------------------------------------------------------------------
(* Mouse and keyboard *)

\* button_mouse(), scroll(), keyboard_update() and the others send one packet;
\* unicode() one for the press of every character, and then for its release.
Event(n) ==
  /\ tool = "keyboard" /\ packets = 0 /\ packets' = n
  /\ UNCHANGED <<tool, screenVars, padVars, reportVars, desk, on, knownDesk, syncing, lostSends,
                 switches, syncFails>>

Key == Event(1)
Unicode == \E chars \in 1..2 : Event(2 * chars)

\* The screen is locked or unlocked, or a prompt opens or closes.
SwitchDesktop ==
  /\ tool = "keyboard" /\ switches < MaxSwitch /\ switches' = switches + 1
  /\ desk' \in {"user", "secure"} \ {desk}
  /\ UNCHANGED <<tool, screenVars, padVars, reportVars, on, knownDesk, packets, syncing, lostSends,
                 syncFails>>

\* send_input(): the packet is taken from a thread that is on the desktop ...
SendInput ==
  /\ packets > 0 /\ ~syncing
  /\ IF on = desk THEN packets' = packets - 1 /\ UNCHANGED syncing
                  ELSE syncing' = TRUE /\ UNCHANGED packets
  /\ UNCHANGED <<tool, screenVars, padVars, reportVars, desk, on, knownDesk, lostSends, switches,
                 syncFails>>

\* syncThreadDesktop(): what it returns, and the desktop the thread is on.  The handle
\* is closed again, so the next one may be the same for another desktop.
Synced == {<<h, d>> : h \in Handle,
                      d \in {desk} \union (IF syncFails < MaxSwitch THEN {on} ELSE {})}
            \union (IF syncFails < MaxSwitch THEN {<<0, on>>} ELSE {})

\* ... else it is sent again, unless the handle is the one the thread knows.
Sync ==
  /\ syncing /\ syncing' = FALSE
  /\ \E s \in Synced :
       /\ on' = s[2] /\ knownDesk' = s[1]
       /\ syncFails' = IF s[2] = desk THEN syncFails ELSE syncFails + 1
       /\ IF s[1] = knownDesk THEN packets' = packets - 1 /\ lostSends' = lostSends + 1
                              ELSE UNCHANGED <<packets, lostSends>>
  /\ UNCHANGED <<tool, screenVars, padVars, reportVars, desk, switches>>

DeskNext == Key \/ Unicode \/ SwitchDesktop \/ SendInput \/ Sync

-----------------------------------------------------------------------------
(* Reports: what is pressed, and what is shown *)

\* x360_buttons(): the guide stands for two.
X360Buttons(set) ==
  (set \intersect (Dpad \union Common)) \union {"guide" : b \in set \intersect {"home", "misc"}}

\* ds4_dpad(): one of eight directions, "up" and "right" win.
Ds4Dpad(set) == {IF "up" \in set THEN "up" ELSE "down", IF "right" \in set THEN "right" ELSE "left"}
                  \intersect set

\* ds4_buttons() and ds4_special_buttons(), with ds4_back_as_touchpad_click
Ds4Buttons(set) ==
  (set \intersect Common) \union Ds4Dpad(set) \union {"ps" : b \in set \intersect {"home"}}
    \union {"click" : b \in set \intersect ({"touchpad", "misc"}
                                         \union (IF Gamepad = "ds4" THEN {"back"} ELSE {}))}

\* to_ds4_triggerX() and to_ds4_triggerY(): the division rounds towards zero, and
\* the result is cut to a byte.
Ds4X(v) == ((v + 32768) \div 257) % 256
Ds4Y(v) == LET n == IF v < -32766 THEN 0 ELSE (v + 32766) \div 257
           IN  IF n = 0 THEN 255 ELSE (256 - n) % 256

\* x360_update_state() and ds4_update_state(); the triggers are left out.
Show(set, v) ==
  /\ tool \in {"x360", "ds4"} /\ pressed' = set
  /\ report' = IF tool = "x360" THEN [buttons |-> X360Buttons(set), axis |-> v, x |-> v, y |-> v]
               ELSE [buttons |-> Ds4Buttons(set), axis |-> v, x |-> Ds4X(v), y |-> Ds4Y(v)]
  /\ UNCHANGED <<tool, screenVars, padVars, deskVars>>

-----------------------------------------------------------------------------
ScreenNext == FingerEvent \/ CancelAll \/ PenEvent \/ Repeat \/ Release

\* The motors of all pads, which work alike on both kinds; the reports of one, and the
\* fingers on it.
HasMotors == IF tool = "pad" THEN Pad ELSE {}
HasReports == IF tool = "touchpad" THEN {First(Pad)} ELSE {}

PadNext == \/ \E s \in HasMotors \union HasReports : FreeTarget(s)
           \/ \E s \in HasMotors : Alloc(s, "x360")
           \/ \E s \in HasReports : \/ \E a \in Arrivals : Alloc(s, KindOf(a))
                                   \/ Report(s) \/ Motion(s) \/ Battery(s) \/ SendAgain(s)
                                   \/ LiftAll(s)
                                   \/ \E id \in Touches : \/ Down(s, id) \/ Dropped(s, id)
                                                          \/ Move(s, id)
                                                          \/ Up(s, id) \/ UpUnknown(s, id)
           \/ \E s \in HasMotors, m \in {0, 1} : Notify(s, m)
           \/ Rumble

ReportNext == (\E set \in Presses : Show(set, 0)) \/ \E v \in Sticks : Show({}, v)

Next == ScreenNext \/ PadNext \/ DeskNext \/ ReportNext

-----------------------------------------------------------------------------
(* Properties *)

TypeOK == /\ tool \in {"touch", "pen", "pad", "touchpad", "keyboard", "x360", "ds4"}
          /\ \A i \in 1..Slots : /\ touch[i].id \in Finger \union {0}
                                 /\ touch[i].flags \subseteq Flag
          /\ active \in 0..Slots /\ pen \subseteq Flag
          /\ repeat \in [{"touch", "pen"} -> {"none", "due", "running"}]
          /\ device \subseteq {"touch", "pen"} /\ held \subseteq Finger
          /\ {failed, penDown, ended, overtaken} \subseteq BOOLEAN
          /\ client \in BOOLEAN /\ pad \in [Pad -> {"none", "x360", "ds4"}]
          /\ \A s \in Pad : target[s] \in Address \union {0} /\ (target[s] = 0 <=> pad[s] = "none")
          /\ attached \in [Pad -> BOOLEAN] /\ again \in [Pad -> BOOLEAN]
          /\ \A s \in Pad : /\ pointers[s] \subseteq Touches \X {0, 1}
                            /\ available[s] \subseteq {0, 1} /\ raised[s] \subseteq {0, 1}
                            /\ touching[s] \subseteq Touches /\ dropped[s] \subseteq Touches
          /\ lastRumble \in [Pad -> {0, 1}] /\ motor \in [Pad -> {0, 1}]
          /\ told \in [Pad -> {0, 1}] /\ Len(posted) <= MaxTask
          /\ {desk, on} \subseteq {"user", "secure"} /\ knownDesk \in Handle \union {0}
          /\ packets \in 0..4 /\ syncing \in BOOLEAN
          /\ {lostSends, switches, syncFails} \subseteq Nat
          /\ pressed \in Presses \union {{}}
          /\ tool = "ds4" => {report.x, report.y} \subseteq 0..255

\* Windows shows the contacts of the client, and no other: the slots in contact
\* are the fingers that are down, each in one slot.
ContactsAreHeld ==
  ~ended => /\ {touch[i].id : i \in {j \in 1..Slots : "incontact" \in touch[j].flags}} = held
            /\ \A i, j \in 1..Slots :
                 (touch[i].flags # {} /\ touch[j].flags # {} /\ touch[i].id = touch[j].id) => i = j

\* A contact is repeated until it ends, unless the last update could not be
\* injected: otherwise Windows lifts a finger that rests.
HeldIsRepeated ==
  ~ended => /\ (held # {} /\ ~failed) => repeat.touch # "none" /\ active >= Len(Used(touch))
            /\ (penDown /\ pen \intersect Edge = {}) => repeat.pen # "none"

\* No task is left with the context of a client that is gone, unless one was under way
\* when it went: that one uses the memory and puts itself back for ever
\* (windows/input.cpp:661-675, 845).
NoOrphanRepeat == (ended /\ ~overtaken) => repeat = [touch |-> "none", pen |-> "none"]

\* A report that is due again is one of a pad that is there, on a connection
\* that is open, whoever used the slot before.
RepeatIsBacked == \A s \in Pad : /\ again[s] => attached[s] /\ pad[s] = "ds4"
                                 /\ attached[s] => client

\* Two fingers on a pad move two pointers, which are down and not offered to a
\* third, whatever the map still holds of a pad that is gone; until that lifts a
\* finger that was dropped, and another's pointer with it.
FingerHasPointer ==
  \A s \in Pad : (attached[s] /\ pad[s] = "ds4" /\ ~crossed[s]) =>
     /\ \A f \in touching[s] : \E i \in {0, 1} :
          IndexOf(s, f) = {i} /\ i \notin available[s] /\ i \notin raised[s]
     /\ \A f, g \in touching[s] : f # g => IndexOf(s, f) # IndexOf(s, g)
     /\ touching[s] = {} => raised[s] = {0, 1} /\ available[s] = {0, 1}

\* Motors the game turned off do not run on at the client, although what the slot was
\* told last may be what a pad before it was told; unless the pad is where that one
\* was, and a task of that one was still to be run.
RumbleStops == \A s \in Pad :
  (attached[s] /\ told[s] = 1 /\ ~mistaken[s] /\ ~Named(target[s])) => motor[s] = 1

\* Input is lost once for every change of the desktop or failure to follow it, however
\* long the events are and although a handle that is known may be that of another desktop.
LossIsBounded == lostSends <= switches + syncFails

\* A pad shows no direction that is not pressed, and of opposite ones it shows one;
\* an axis is shown within two steps of 255, the vertical one upside down.
ReportIsTrue ==
  /\ report.buttons \intersect Dpad \subseteq pressed
  /\ \A d \in Dpad \intersect pressed :
       \/ d \in report.buttons
       \/ \E o \in report.buttons : {d, o} \in {{"up", "down"}, {"left", "right"}}
  /\ tool = "ds4" =>
       LET exact == (report.axis + 32768) \div 257
       IN  /\ report.x - exact \in -2..2 /\ report.y - (255 - exact) \in -2..2
           /\ ("click" \in report.buttons) =>
                pressed \intersect {"touchpad", "misc"} # {} \/ Gamepad = "ds4"

\* The client knows what the game set.
RumbleIsTold == \A s \in Pad : (attached[s] /\ ~Named(target[s])) => told[s] = motor[s]
=============================================================================
