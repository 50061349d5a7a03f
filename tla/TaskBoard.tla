----------------------------- MODULE TaskBoard -----------------------------
(***************************************************************************)
(* What the task pool promises: a task that was submitted waits until it   *)
(* is due, then starts once, unless it was cancelled before.  Without      *)
(* lists, workers, mutexes or a condition variable.                        *)
(***************************************************************************)
EXTENDS Integers

CONSTANTS Task, MaxTime    \* MaxTime: bound, where the clock stops

VARIABLES now,             \* the clock
          submitted,       \* the tasks handed over so far
          pending,         \* those that wait
          due,             \* due[t]: when t may start
          running          \* those that run

vars == <<now, submitted, pending, due, running>>

Init == /\ now = 0
        /\ submitted = {} /\ pending = {} /\ running = {}
        /\ due = [t \in Task |-> 0]

Submit(t, time) == /\ t \in Task \ submitted
                   /\ submitted' = submitted \union {t}
                   /\ pending' = pending \union {t}
                   /\ due' = [due EXCEPT ![t] = time]
                   /\ UNCHANGED <<now, running>>

Cancel(t) == /\ t \in pending
             /\ pending' = pending \ {t}
             /\ UNCHANGED <<now, submitted, due, running>>

Reschedule(t, time) == /\ t \in pending
                       /\ due' = [due EXCEPT ![t] = time]
                       /\ UNCHANGED <<now, submitted, pending, running>>

Start(t) == /\ t \in pending /\ due[t] <= now
            /\ pending' = pending \ {t}
            /\ running' = running \union {t}
            /\ UNCHANGED <<now, submitted, due>>

Finish(t) == /\ t \in running
             /\ running' = running \ {t}
             /\ UNCHANGED <<now, submitted, pending, due>>

Tick == /\ now < MaxTime
        /\ now' = now + 1
        /\ UNCHANGED <<submitted, pending, due, running>>

Next == \/ \E t \in Task : Cancel(t) \/ Start(t) \/ Finish(t)
        \/ \E t \in Task, time \in 0..MaxTime : Submit(t, time) \/ Reschedule(t, time)
        \/ Tick

Spec == Init /\ [][Next]_vars
=============================================================================
