---------------------------- MODULE SoleInstance ----------------------------
(***************************************************************************)
(* What safe::shared_t promises its users, without its mutex or counter:   *)
(* one shared object, built before the first handle exists, handed out     *)
(* while it is alive, and torn down only when the last handle is gone.     *)
(***************************************************************************)
CONSTANT Handle            \* the ptr_t variables of the program

VARIABLES held,            \* the handles that refer to the object
          alive            \* the object is constructed

vars == <<held, alive>>

Init == held = {} /\ alive = FALSE

Build == /\ ~alive /\ held = {}
         /\ alive' = TRUE
         /\ UNCHANGED held

Acquire(h) == /\ alive /\ h \notin held
              /\ held' = held \union {h}
              /\ UNCHANGED alive

Pass(g, h) == /\ g \in held /\ h \notin held
              /\ held' = (held \ {g}) \union {h}
              /\ UNCHANGED alive

Drop(h) == /\ h \in held
           /\ held' = held \ {h}
           /\ UNCHANGED alive

TearDown == /\ alive /\ held = {}
            /\ alive' = FALSE
            /\ UNCHANGED held

Next == \/ Build \/ TearDown
        \/ \E h \in Handle : Acquire(h) \/ Drop(h)
        \/ \E g, h \in Handle : Pass(g, h)

Spec == Init /\ [][Next]_vars
=============================================================================
