------------------------------ MODULE SharedRef ------------------------------
(***************************************************************************)
(* safe::shared_t (thread_safe.h): the reference-counted owner of one      *)
(* lazily constructed object.  The broadcast threads of stream.cpp, the    *)
(* capture threads of video.cpp and the audio control of audio.cpp live in *)
(* one.  Construction and destruction both run under its mutex, and both   *)
(* are long (they start and join threads), so each is a step of its own.   *)
(***************************************************************************)
EXTENDS Naturals, FiniteSets

CONSTANTS Handle,          \* the ptr_t variables, each used by one thread
          NoHandle         \* nobody holds the mutex

ASSUME HandleAssumption == IsFiniteSet(Handle) /\ NoHandle \notin Handle

VARIABLES lock,            \* the handle whose ref() or release() holds _lock
          count,           \* _count
          alive,           \* _object_buf holds an object _construct accepted
          owner,           \* owner[h]: h.owner # nullptr
          pc               \* pc[h]: where the call on h is

vars == <<lock, count, alive, owner, pc>>

PC == {"idle", "ref", "construct", "countup", "release", "destruct"}

TypeOK == /\ lock \in Handle \union {NoHandle}
          /\ count \in Nat
          /\ alive \in BOOLEAN
          /\ owner \in [Handle -> BOOLEAN]
          /\ pc \in [Handle -> PC]

\* A shared_t is a static variable: _count starts as zero.
Init == /\ lock = NoHandle
        /\ count = 0
        /\ alive = FALSE
        /\ owner = [h \in Handle |-> FALSE]
        /\ pc = [h \in Handle |-> "idle"]

-----------------------------------------------------------------------------
(* Faulty variants, only there to show that the properties can fail *)

\* The move constructor forgets ptr.owner = nullptr.
MoveKeepsSource(g, h) == /\ pc[g] = "idle" /\ owner[g]
                         /\ pc[h] = "idle" /\ ~owner[h]
                         /\ owner' = [owner EXCEPT ![h] = TRUE]
                         /\ UNCHANGED <<lock, count, alive, pc>>

\* release() without the lock_guard.
ReleaseUnguarded(h) == /\ pc[h] = "idle" /\ owner[h]
                       /\ lock' = h
                       /\ pc' = [pc EXCEPT ![h] = "release"]
                       /\ UNCHANGED <<count, alive, owner>>

\* A failed _construct is counted all the same.
ConstructFailsCounts(h) == /\ pc[h] = "construct"
                           /\ pc' = [pc EXCEPT ![h] = "countup"]
                           /\ UNCHANGED <<lock, count, alive, owner>>

-----------------------------------------------------------------------------
(* ref() *)

RefLock(h) == /\ pc[h] = "idle" /\ ~owner[h]
              /\ lock = NoHandle
              /\ lock' = h
              /\ pc' = [pc EXCEPT ![h] = IF count = 0 THEN "construct" ELSE "countup"]
              /\ UNCHANGED <<count, alive, owner>>

ConstructSucceeds(h) == /\ pc[h] = "construct"
                        /\ alive' = TRUE
                        /\ pc' = [pc EXCEPT ![h] = "countup"]
                        /\ UNCHANGED <<lock, count, owner>>

\* _construct returned non-zero: an empty ptr_t, and the count stays zero.
ConstructFails(h) == /\ pc[h] = "construct"
                     /\ lock' = NoHandle
                     /\ pc' = [pc EXCEPT ![h] = "idle"]
                     /\ UNCHANGED <<count, alive, owner>>

CountUp(h) == /\ pc[h] = "countup"
              /\ count' = count + 1
              /\ owner' = [owner EXCEPT ![h] = TRUE]
              /\ lock' = NoHandle
              /\ pc' = [pc EXCEPT ![h] = "idle"]
              /\ UNCHANGED alive

-----------------------------------------------------------------------------
(* ptr_t *)

\* The move constructor and move assignment into an empty ptr_t: no mutex.
Move(g, h) == /\ pc[g] = "idle" /\ owner[g]
              /\ pc[h] = "idle" /\ ~owner[h]
              /\ owner' = [owner EXCEPT ![g] = FALSE, ![h] = TRUE]
              /\ UNCHANGED <<lock, count, alive, pc>>

ReleaseLock(h) == /\ pc[h] = "idle" /\ owner[h]
                  /\ lock = NoHandle
                  /\ lock' = h
                  /\ pc' = [pc EXCEPT ![h] = "release"]
                  /\ UNCHANGED <<count, alive, owner>>

\* --_count: the last handle goes on to _destruct, with the mutex held.
CountDown(h) ==
  /\ pc[h] = "release"
  /\ count' = count - 1
  /\ IF count = 1
     THEN /\ pc' = [pc EXCEPT ![h] = "destruct"]
          /\ UNCHANGED <<lock, owner>>
     ELSE /\ pc' = [pc EXCEPT ![h] = "idle"]
          /\ lock' = NoHandle
          /\ owner' = [owner EXCEPT ![h] = FALSE]
  /\ UNCHANGED alive

Destruct(h) == /\ pc[h] = "destruct"
               /\ alive' = FALSE
               /\ owner' = [owner EXCEPT ![h] = FALSE]
               /\ lock' = NoHandle
               /\ pc' = [pc EXCEPT ![h] = "idle"]
               /\ UNCHANGED count

Next == \/ \E h \in Handle : \/ RefLock(h) \/ ConstructSucceeds(h)
                             \/ ConstructFails(h) \/ CountUp(h)
                             \/ ReleaseLock(h) \/ CountDown(h) \/ Destruct(h)
        \/ \E g, h \in Handle : Move(g, h)

Spec == Init /\ [][Next]_vars

-----------------------------------------------------------------------------
(* Properties *)

\* The handles the count counts: those whose last --_count is still to come.
Held == {h \in Handle : owner[h] /\ pc[h] # "destruct"}

\* The counter is the number of handles that refer to the object: an error in
\* either direction destroys broadcast threads in use or leaks them for ever.
CountIsHeld == count = Cardinality(Held)

\* A handle that may be dereferenced (operator-> takes no lock) refers to a
\* live object, and a live object nobody holds is being built or torn down.
HeldMeansAlive == /\ Held # {} => alive
                  /\ alive /\ Held = {} => lock # NoHandle

\* shared_t implements the promise its users rely on.
Sole == INSTANCE SoleInstance WITH held <- Held

ImplementsSole == Sole!Spec

=============================================================================
