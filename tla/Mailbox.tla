------------------------------- MODULE Mailbox -------------------------------
(***************************************************************************)
(* The events and queues threads talk through (thread_safe.h), as values:  *)
(* each operator is one critical section of event_t or queue_t.  A thread  *)
(* that waits in pop() or view() is an action of the module that uses      *)
(* them, enabled when the wait would end.                                  *)
(***************************************************************************)
EXTENDS Naturals, Sequences

CONSTANT Nothing             \* a disengaged std::optional

-----------------------------------------------------------------------------
(* event_t: one slot, overwritten by every raise() *)

NewEvent == [on |-> TRUE, val |-> Nothing]

Raise(e, v) == IF e.on THEN [e EXCEPT !.val = v] ELSE e

Peek(e) == e.on /\ e.val # Nothing

\* What pop() leaves behind when it returns a value.
Emptied(e) == [e EXCEPT !.val = Nothing]

StopEvent(e) == [e EXCEPT !.on = FALSE]

ResetEvent(e) == NewEvent

-----------------------------------------------------------------------------
(* queue_t: bounded; a raise() on a full queue drops everything in it *)

NewQueue == [on |-> TRUE, items |-> <<>>]

Put(q, x, max) ==
  IF ~q.on THEN q
  ELSE [q EXCEPT !.items = IF Len(@) = max THEN <<x>> ELSE Append(@, x)]

PeekQueue(q) == q.on /\ q.items # <<>>

Taken(q) == [q EXCEPT !.items = Tail(@)]

StopQueue(q) == [q EXCEPT !.on = FALSE]
=============================================================================
