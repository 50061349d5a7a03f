------------------------------ MODULE MediaProof -----------------------------
(***************************************************************************)
(* shared_t keeps one live object exactly as long as a handle refers to    *)
(* it, for every finite set of handles; and the properties of the media    *)
(* path as MediaMC puts them together follow from the theorems about its   *)
(* parts, for all values of its constants.                                 *)
(***************************************************************************)
EXTENDS MediaMC, FiniteSetTheorems, TLAPS

\* The mutex is held by exactly the handle whose call is under way.
LockedByCaller == \A h \in Handle : pc[h] # "idle" <=> lock = h

\* What each point of a call knows: constructing happens at count zero on no
\* object, counting up on a live one, and releasing on an owned handle.
CallState == \A h \in Handle :
  /\ pc[h] = "construct" => ~owner[h] /\ count = 0 /\ ~alive
  /\ pc[h] = "countup"   => ~owner[h] /\ alive
  /\ pc[h] = "release"   => owner[h]
  /\ pc[h] = "destruct"  => owner[h] /\ count = 0 /\ alive

\* Between calls the object is alive exactly when the count is not zero.
RestState == lock = NoHandle => (alive <=> count # 0)

\* Somebody is counted: the object is alive.
CountedAlive == count # 0 => alive

IInv == TypeOK /\ CountIsHeld /\ LockedByCaller /\ CallState
        /\ RestState /\ CountedAlive

\* Held is a finite set: its cardinality is a number, zero only when empty.
LEMMA HeldFinite ==
  /\ IsFiniteSet(Held)
  /\ Cardinality(Held) \in Nat
  /\ Cardinality(Held) = 0 <=> Held = {}
  <1>1. Held \subseteq Handle
    BY DEF Held
  <1>2. IsFiniteSet(Held)
    BY <1>1, HandleAssumption, FS_Subset
  <1>3. QED
    BY <1>2, FS_CardinalityType, FS_EmptySet

\* The program's start satisfies the inductive invariant.
LEMMA InitIInv == Init => IInv
  <1> SUFFICES ASSUME Init PROVE IInv
    OBVIOUS
  <1>1. Held = {}
    BY DEF Init, Held
  <1>2. CountIsHeld
    BY <1>1, FS_EmptySet DEF Init, CountIsHeld
  <1>3. QED
    BY <1>2, HandleAssumption
       DEF Init, IInv, TypeOK, PC, LockedByCaller, CallState, RestState, CountedAlive

\* No step of any handle breaks the inductive invariant.
LEMMA NextIInv == IInv /\ [Next]_vars => IInv'
  <1> SUFFICES ASSUME IInv, [Next]_vars PROVE IInv'
    OBVIOUS
  <1> USE HandleAssumption
  <1> USE DEF IInv, TypeOK, PC, LockedByCaller, CallState, RestState, CountedAlive
  <1>1. ASSUME NEW h \in Handle, RefLock(h) PROVE IInv'
    <2>1. Held' = Held
      BY <1>1 DEF RefLock, Held
    <2>2. QED
      BY <1>1, <2>1 DEF RefLock, CountIsHeld
  <1>2. ASSUME NEW h \in Handle, ConstructSucceeds(h) PROVE IInv'
    <2>1. Held' = Held
      BY <1>2 DEF ConstructSucceeds, Held
    <2>2. QED
      BY <1>2, <2>1 DEF ConstructSucceeds, CountIsHeld
  <1>3. ASSUME NEW h \in Handle, ConstructFails(h) PROVE IInv'
    <2>1. Held' = Held
      BY <1>3 DEF ConstructFails, Held
    <2>2. QED
      BY <1>3, <2>1 DEF ConstructFails, CountIsHeld
  <1>4. ASSUME NEW h \in Handle, CountUp(h) PROVE IInv'
    <2>1. Held' = Held \union {h} /\ h \notin Held
      BY <1>4 DEF CountUp, Held
    <2>2. CountIsHeld'
      BY <1>4, <2>1, HeldFinite, FS_AddElement DEF CountUp, CountIsHeld
    <2>3. QED
      BY <1>4, <2>2 DEF CountUp
  <1>5. ASSUME NEW h \in Handle, ReleaseLock(h) PROVE IInv'
    <2>1. Held' = Held
      BY <1>5 DEF ReleaseLock, Held
    <2>2. count # 0
      <3>1. h \in Held
        BY <1>5 DEF ReleaseLock, Held
      <3>2. QED
        BY <3>1, HeldFinite DEF CountIsHeld
    <2>3. QED
      BY <1>5, <2>1, <2>2 DEF ReleaseLock, CountIsHeld
  <1>6. ASSUME NEW h \in Handle, CountDown(h) PROVE IInv'
    <2>1. Held' = Held \ {h} /\ h \in Held
      BY <1>6 DEF CountDown, Held
    <2>2. count # 0 /\ Cardinality(Held') = Cardinality(Held) - 1
      BY <2>1, HeldFinite, FS_RemoveElement DEF CountIsHeld
    <2>3. CountIsHeld'
      BY <1>6, <2>2 DEF CountDown, CountIsHeld
    <2>n. count # 0 /\ alive
      BY <2>2
    <2>4. CASE count = 1
      BY <1>6, <2>n, <2>3, <2>4 DEF CountDown
    <2>5. CASE count # 1
      <3>1. count' \in Nat /\ count' # 0 /\ alive'
        BY <1>6, <2>n, <2>5 DEF CountDown
      <3>2. /\ pc' = [pc EXCEPT ![h] = "idle"]
            /\ owner' = [owner EXCEPT ![h] = FALSE]
            /\ lock' = NoHandle
        BY <1>6, <2>5 DEF CountDown
      <3>3. \A g \in Handle : pc'[g] = "idle"
        BY <1>6, <3>2 DEF CountDown
      <3>4. TypeOK' /\ LockedByCaller'
        BY <3>1, <3>2, <3>3
      <3>5. CallState' /\ RestState' /\ CountedAlive'
        BY <3>1, <3>3
      <3>6. QED
        BY <2>3, <3>4, <3>5
    <2>6. QED
      BY <2>4, <2>5
  <1>7. ASSUME NEW h \in Handle, Destruct(h) PROVE IInv'
    <2>1. Held' = Held
      BY <1>7 DEF Destruct, Held
    <2>2. QED
      BY <1>7, <2>1 DEF Destruct, CountIsHeld
  <1>8. ASSUME NEW g \in Handle, NEW h \in Handle, Move(g, h) PROVE IInv'
    <2>1. g \in Held /\ h \notin Held /\ Held' = (Held \ {g}) \union {h}
      BY <1>8 DEF Move, Held
    <2>2. Cardinality(Held') = Cardinality(Held)
      <3>1. /\ IsFiniteSet(Held \ {g})
            /\ Cardinality(Held \ {g}) = Cardinality(Held) - 1
        BY <2>1, HeldFinite, FS_RemoveElement
      <3>2. h \notin Held \ {g}
        BY <2>1
      <3>3. Cardinality((Held \ {g}) \union {h}) = Cardinality(Held \ {g}) + 1
        BY <3>1, <3>2, FS_AddElement
      <3>4. QED
        BY <2>1, <3>1, <3>3, HeldFinite
    <2>3. QED
      BY <1>8, <2>2 DEF Move, CountIsHeld
  <1>9. CASE UNCHANGED vars
    BY <1>9 DEF vars, CountIsHeld, Held
  <1>10. QED
    BY <1>1, <1>2, <1>3, <1>4, <1>5, <1>6, <1>7, <1>8, <1>9 DEF Next

\* The inductive invariant holds in every reachable state.
LEMMA AlwaysIInv == Spec => []IInv
  BY InitIInv, NextIInv, PTL DEF Spec

\* Every call leaves the variables of shared_t and of its handles well typed:
\* in particular _count, which is unsigned, never wraps below zero.
THEOREM Typing == Spec => []TypeOK
  <1>1. IInv => TypeOK
    BY DEF IInv
  <1>2. QED
    BY <1>1, AlwaysIInv, PTL

\* _count always equals the number of handles that refer to the object.
THEOREM CountExact == Spec => []CountIsHeld
  <1>1. IInv => CountIsHeld
    BY DEF IInv
  <1>2. QED
    BY <1>1, AlwaysIInv, PTL

\* No handle ever refers to a destroyed or unbuilt object, and no object
\* outlives its handles except inside ref() or release().
THEOREM NoUseAfterDestruct == Spec => []HeldMeansAlive
  <1>1. IInv => HeldMeansAlive
    <2> SUFFICES ASSUME IInv PROVE HeldMeansAlive
      OBVIOUS
    <2>1. count = 0 <=> Held = {}
      BY HeldFinite DEF IInv, CountIsHeld
    <2>2. QED
      BY <2>1 DEF IInv, HeldMeansAlive, RestState, CountedAlive
  <1>2. QED
    BY <1>1, AlwaysIInv, PTL

\* Every step of shared_t is a step of the abstract object or a stutter.
LEMMA StepRefines == IInv /\ IInv' /\ [Next]_vars => [Sole!Next]_(Sole!vars)
  <1> SUFFICES ASSUME IInv, IInv', [Next]_vars PROVE [Sole!Next]_(Sole!vars)
    OBVIOUS
  <1> USE DEF Sole!vars, Sole!Next
  <1>a. count = 0 <=> Held = {}
    BY HeldFinite DEF IInv, CountIsHeld
  <1>1. ASSUME NEW h \in Handle, RefLock(h) PROVE UNCHANGED <<Held, alive>>
    BY <1>1 DEF RefLock, Held, IInv, TypeOK
  <1>2. ASSUME NEW h \in Handle, ConstructSucceeds(h) PROVE Sole!Build
    <2>1. Held' = Held
      BY <1>2 DEF ConstructSucceeds, Held, IInv, TypeOK
    <2>2. QED
      BY <1>2, <1>a, <2>1 DEF ConstructSucceeds, Sole!Build, IInv, CallState
  <1>3. ASSUME NEW h \in Handle, ConstructFails(h) PROVE UNCHANGED <<Held, alive>>
    BY <1>3 DEF ConstructFails, Held, IInv, TypeOK
  <1>4. ASSUME NEW h \in Handle, CountUp(h) PROVE Sole!Acquire(h)
    <2>1. Held' = Held \union {h} /\ h \notin Held
      BY <1>4 DEF CountUp, Held, IInv, TypeOK, CallState
    <2>2. QED
      BY <1>4, <2>1 DEF CountUp, Sole!Acquire, IInv, CallState
  <1>5. ASSUME NEW h \in Handle, ReleaseLock(h) PROVE UNCHANGED <<Held, alive>>
    BY <1>5 DEF ReleaseLock, Held, IInv, TypeOK
  <1>6. ASSUME NEW h \in Handle, CountDown(h) PROVE Sole!Drop(h)
    <2>1. Held' = Held \ {h} /\ h \in Held
      BY <1>6 DEF CountDown, Held, IInv, TypeOK, CallState
    <2>2. QED
      BY <1>6, <2>1 DEF CountDown, Sole!Drop
  <1>7. ASSUME NEW h \in Handle, Destruct(h) PROVE Sole!TearDown
    <2>1. Held' = Held
      BY <1>7 DEF Destruct, Held, IInv, TypeOK
    <2>2. QED
      BY <1>7, <1>a, <2>1 DEF Destruct, Sole!TearDown, IInv, CallState
  <1>8. ASSUME NEW g \in Handle, NEW h \in Handle, Move(g, h) PROVE Sole!Pass(g, h)
    <2>1. g \in Held /\ h \notin Held /\ Held' = (Held \ {g}) \union {h}
      BY <1>8 DEF Move, Held, IInv, TypeOK
    <2>2. QED
      BY <1>8, <2>1 DEF Move, Sole!Pass
  <1>9. CASE UNCHANGED vars
    BY <1>9 DEF vars, Held
  <1>10. QED
    BY <1>1, <1>2, <1>3, <1>4, <1>5, <1>6, <1>7, <1>8, <1>9 DEF Next

\* shared_t implements the abstract single shared object.
THEOREM Implements == Spec => ImplementsSole
  <1>1. Init => Sole!Init
    BY DEF Init, Sole!Init, Held
  <1>2. QED
    BY <1>1, StepRefines, AlwaysIInv, PTL DEF Spec, ImplementsSole, Sole!Spec

-----------------------------------------------------------------------------
(* Why the default playback device is given back (AudioCapture), for any   *)
(* number of sessions and of devices and any bound on the crashes.         *)

\* The names of the devices differ.
AudioConstants == /\ Virtual \notin Real
                  /\ NoSink \notin Audio!Device
                  /\ MaxCrash \in Nat

\* The control lives as long as some thread has a handle on it.
ControlUsed == /\ listening = {s \in Listener : audio[s] # "none"}
               /\ ctx.up <=> listening # {}

\* Only the first session to claim the sink decides that it is given back, and
\* only to a device of the host.
Claimed == /\ ctx.restore => ctx.flag /\ ctx.host \in Real
           /\ ctx.flag => ctx.up
           /\ ctx.control => ctx.host \in Audio!Device

\* Whoever sets the sink sets the virtual one, and only if it is given back.
Assigned ==
  /\ assigned # NoSink => assigned = Virtual /\ ctx.restore
  /\ \A s \in Listener :
       /\ audio[s] = "set" => ctx.restore /\ Audio!Sink(s) = Virtual
       /\ audio[s] = "run" /\ watches[s] => assigned = Virtual

\* The virtual sink is the default only while somebody will give it back.
Owed == default = Virtual => lost \/ ctx.restore

AudioInv == Audio!TypeOK /\ ControlUsed /\ Claimed /\ Assigned /\ Owed

AudioContext == [up : BOOLEAN, control : BOOLEAN, host : Audio!Device \union {NoSink},
                 restore : BOOLEAN, flag : BOOLEAN]

\* The context before anybody uses the control.
LEMMA NoContext == /\ Audio!NoCtx \in AudioContext
                   /\ ~Audio!NoCtx.up /\ ~Audio!NoCtx.restore /\ ~Audio!NoCtx.flag
                   /\ ~Audio!NoCtx.control
  BY DEF Audio!NoCtx, AudioContext

\* What the two steps that write several fields of the context leave there.
LEMMA TakeRefDoes ==
  ASSUME Audio!TypeOK, NEW s \in Listener, Audio!TakeRef(s)
  PROVE  /\ audio[s] = "none" /\ audio' = [audio EXCEPT ![s] = "init"]
         /\ listening' = listening \union {s}
         /\ UNCHANGED <<default, changed, watches, stopped, lost, crashes>>
         /\ ctx' \in AudioContext /\ ctx'.up
         /\ \/ ctx.up /\ UNCHANGED <<ctx, assigned>>
            \/ /\ ~ctx.up /\ ~ctx'.restore /\ ~ctx'.flag /\ assigned' = NoSink
               /\ ctx'.control => ctx'.host = default
<1>1. ASSUME ctx' = [Audio!NoCtx EXCEPT !.up = TRUE, !.control = TRUE, !.host = default]
      PROVE  /\ ctx' \in AudioContext /\ ctx'.up /\ ~ctx'.restore /\ ~ctx'.flag
             /\ ctx'.control => ctx'.host = default
  BY <1>1 DEF Audio!TypeOK, Audio!NoCtx, AudioContext
<1>2. ASSUME ctx' = [Audio!NoCtx EXCEPT !.up = TRUE]
      PROVE  /\ ctx' \in AudioContext /\ ctx'.up /\ ~ctx'.restore /\ ~ctx'.flag
             /\ ctx'.control => ctx'.host = default
  BY <1>2 DEF Audio!TypeOK, Audio!NoCtx, AudioContext
<1>3. CASE ctx.up
  BY <1>3 DEF Audio!TakeRef, Audio!Move, Audio!TypeOK, AudioContext
<1>4. CASE ~ctx.up
  BY <1>1, <1>2, <1>4, Zenon DEF Audio!TakeRef, Audio!Move
<1> QED BY <1>3, <1>4

LEMMA ClaimDoes ==
  ASSUME Audio!TypeOK, NEW s \in Listener, Audio!Claim(s)
  PROVE  /\ audio[s] = "init" /\ ctx.control
         /\ UNCHANGED <<default, listening, assigned, changed, watches, stopped, lost,
                        crashes>>
         /\ \/ ctx.flag /\ UNCHANGED ctx /\ audio' = [audio EXCEPT ![s] = "mic"]
            \/ /\ ~ctx.flag /\ ctx'.flag
               /\ ctx' \in AudioContext /\ ctx'.up = ctx.up /\ ctx'.host = ctx.host
               /\ ctx'.control = ctx.control
               /\ ctx'.restore <=> ctx.host # Audio!Sink(s)
               /\ audio' = [audio EXCEPT ![s] = IF ctx.host # Audio!Sink(s) THEN "set" ELSE "mic"]
<1>1. ASSUME NEW r \in BOOLEAN, ctx' = [ctx EXCEPT !.flag = TRUE, !.restore = r]
      PROVE  /\ ctx' \in AudioContext /\ ctx'.flag
             /\ ctx'.up = ctx.up /\ ctx'.host = ctx.host
             /\ ctx'.control = ctx.control /\ ctx'.restore = r
  BY <1>1 DEF Audio!TypeOK, AudioContext
<1>2. Audio!MustRestore(s) \in BOOLEAN
  BY DEF Audio!MustRestore
<1>3. ASSUME ~ctx.flag
      PROVE  /\ ctx' \in AudioContext /\ ctx'.flag
             /\ ctx'.up = ctx.up /\ ctx'.host = ctx.host
             /\ ctx'.control = ctx.control /\ ctx'.restore = Audio!MustRestore(s)
  BY <1>1, <1>2, <1>3, Zenon DEF Audio!Claim
<1>4. /\ audio[s] = "init" /\ ctx.control
      /\ UNCHANGED <<default, listening, assigned, changed, watches, stopped, lost, crashes>>
      /\ IF ctx.flag THEN UNCHANGED ctx /\ audio' = [audio EXCEPT ![s] = "mic"]
         ELSE audio' = [audio EXCEPT ![s] = IF ctx.host # Audio!Sink(s) THEN "set" ELSE "mic"]
  BY Zenon DEF Audio!Claim, Audio!Move
<1> QED BY <1>3, <1>4 DEF Audio!MustRestore

\* Every step of a thread, of the user and of the host keeps the types: a
\* device that is set is one there is.
LEMMA AudioTypeStep ==
  ASSUME AudioConstants, AudioInv, Audio!Next PROVE Audio!TypeOK'
<1> USE DEF AudioConstants, AudioInv, Audio!TypeOK, Claimed, Assigned, AudioContext,
            Audio!Device, Audio!AudioPC, Audio!Notified, Audio!HasMic
<1>1. ASSUME NEW d \in Real, Audio!UserPicks(d) PROVE Audio!TypeOK'
  BY <1>1 DEF Audio!UserPicks
<1>2. CASE Audio!CrashRestart
  <2>1. default' \in Audio!Device /\ lost' \in BOOLEAN
    BY <1>2 DEF Audio!CrashRestart, Audio!ResetDefault
  <2>2. crashes' \in 0..MaxCrash
    BY <1>2 DEF Audio!CrashRestart
  <2>3. ctx' \in AudioContext
    BY <1>2, NoContext DEF Audio!CrashRestart
  <2> QED BY <1>2, <2>1, <2>2, <2>3 DEF Audio!CrashRestart
<1>3. ASSUME NEW s \in Listener, Audio!TakeRef(s) PROVE Audio!TypeOK'
  BY <1>3, TakeRefDoes
<1>4. ASSUME NEW s \in Listener, Audio!NoControl(s) PROVE Audio!TypeOK'
  BY <1>4 DEF Audio!NoControl, Audio!Move
<1>5. ASSUME NEW s \in Listener, Audio!Claim(s) PROVE Audio!TypeOK'
  BY <1>5, ClaimDoes
<1>6. ASSUME NEW s \in Listener, Audio!SetFirst(s) PROVE Audio!TypeOK'
  BY <1>6 DEF Audio!SetFirst, Audio!SetSink, Audio!SetSinkFails, Audio!Move, Audio!Sink
<1>7. ASSUME NEW s \in Listener, Audio!FirstMic(s) PROVE Audio!TypeOK'
  BY <1>7 DEF Audio!FirstMic, Audio!OpenMic, Audio!Move
<1>8. ASSUME NEW s \in Listener, Audio!DeviceChanged(s) PROVE Audio!TypeOK'
  BY <1>8 DEF Audio!DeviceChanged, Audio!SetSink, Audio!SetSinkFails, Audio!Move
<1>9. ASSUME NEW s \in Listener, Audio!SeesShutdown(s) PROVE Audio!TypeOK'
  BY <1>9 DEF Audio!SeesShutdown, Audio!Move
<1>10. ASSUME NEW s \in Listener, Audio!ReopenFails(s) PROVE Audio!TypeOK'
  BY <1>10 DEF Audio!ReopenFails, Audio!Move
<1>11. ASSUME NEW s \in Listener, Audio!AwaitShutdown(s) PROVE Audio!TypeOK'
  BY <1>11 DEF Audio!AwaitShutdown, Audio!Move
<1>12. ASSUME NEW s \in Listener, Audio!Leave(s) PROVE Audio!TypeOK'
  BY <1>12, NoContext DEF Audio!Leave, Audio!Move
<1>13. ASSUME NEW s \in Listener, Audio!SampleFails(s) PROVE Audio!TypeOK'
  BY <1>13 DEF Audio!SampleFails, Audio!Move
<1>14. ASSUME NEW s \in Listener, Audio!Reopen(s) PROVE Audio!TypeOK'
  BY <1>14 DEF Audio!Reopen, Audio!OpenMic, Audio!Move
<1>15. ASSUME NEW s \in Listener, Audio!StopListener(s) PROVE Audio!TypeOK'
  BY <1>15 DEF Audio!StopListener
<1> QED
  BY <1>1, <1>2, <1>3, <1>4, <1>5, <1>6, <1>7, <1>8, <1>9, <1>10, <1>11,
     <1>12, <1>13, <1>14, <1>15 DEF Audio!Next, Audio!AudioStep

\* ... the count of the handles, ...
LEMMA UsedStep ==
  ASSUME Audio!TypeOK, ControlUsed, Audio!Next PROVE ControlUsed'
<1> USE DEF Audio!TypeOK, ControlUsed, Audio!AudioPC
<1>1. ASSUME NEW d \in Real, Audio!UserPicks(d) PROVE ControlUsed'
  BY <1>1 DEF Audio!UserPicks
<1>2. CASE Audio!CrashRestart
  BY <1>2, NoContext DEF Audio!CrashRestart, Audio!ResetDefault
<1>3. ASSUME NEW s \in Listener, Audio!TakeRef(s) PROVE ControlUsed'
  BY <1>3, TakeRefDoes
<1>4. ASSUME NEW s \in Listener, Audio!NoControl(s) PROVE ControlUsed'
  BY <1>4 DEF Audio!NoControl, Audio!Move
<1>5. ASSUME NEW s \in Listener, Audio!Claim(s) PROVE ControlUsed'
  BY <1>5, ClaimDoes
<1>6. ASSUME NEW s \in Listener, Audio!SetFirst(s) PROVE ControlUsed'
  BY <1>6 DEF Audio!SetFirst, Audio!SetSink, Audio!SetSinkFails, Audio!Move, Audio!Sink
<1>7. ASSUME NEW s \in Listener, Audio!FirstMic(s) PROVE ControlUsed'
  BY <1>7 DEF Audio!FirstMic, Audio!OpenMic, Audio!Move
<1>8. ASSUME NEW s \in Listener, Audio!DeviceChanged(s) PROVE ControlUsed'
  BY <1>8 DEF Audio!DeviceChanged, Audio!SetSink, Audio!SetSinkFails, Audio!Move
<1>9. ASSUME NEW s \in Listener, Audio!SeesShutdown(s) PROVE ControlUsed'
  BY <1>9 DEF Audio!SeesShutdown, Audio!Move
<1>10. ASSUME NEW s \in Listener, Audio!ReopenFails(s) PROVE ControlUsed'
  BY <1>10 DEF Audio!ReopenFails, Audio!Move
<1>11. ASSUME NEW s \in Listener, Audio!AwaitShutdown(s) PROVE ControlUsed'
  BY <1>11 DEF Audio!AwaitShutdown, Audio!Move
<1>12. ASSUME NEW s \in Listener, Audio!Leave(s) PROVE ControlUsed'
  BY <1>12, NoContext DEF Audio!Leave, Audio!Move
<1>13. ASSUME NEW s \in Listener, Audio!SampleFails(s) PROVE ControlUsed'
  BY <1>13 DEF Audio!SampleFails, Audio!Move
<1>14. ASSUME NEW s \in Listener, Audio!Reopen(s) PROVE ControlUsed'
  BY <1>14 DEF Audio!Reopen, Audio!OpenMic, Audio!Move
<1>15. ASSUME NEW s \in Listener, Audio!StopListener(s) PROVE ControlUsed'
  BY <1>15 DEF Audio!StopListener
<1> QED
  BY <1>1, <1>2, <1>3, <1>4, <1>5, <1>6, <1>7, <1>8, <1>9, <1>10, <1>11,
     <1>12, <1>13, <1>14, <1>15 DEF Audio!Next, Audio!AudioStep

\* ... what was claimed, ...
LEMMA ClaimedStep ==
  ASSUME AudioConstants, AudioInv, Audio!Next PROVE Claimed'
<1> USE DEF AudioConstants, AudioInv, Audio!TypeOK, AudioContext, ControlUsed, Claimed,
            Audio!Device, Audio!Sink
<1>1. ASSUME NEW d \in Real, Audio!UserPicks(d) PROVE Claimed'
  BY <1>1 DEF Audio!UserPicks
<1>2. CASE Audio!CrashRestart
  BY <1>2, NoContext DEF Audio!CrashRestart, Audio!ResetDefault
<1>3. ASSUME NEW s \in Listener, Audio!TakeRef(s) PROVE Claimed'
  BY <1>3, TakeRefDoes
<1>4. ASSUME NEW s \in Listener, Audio!NoControl(s) PROVE Claimed'
  BY <1>4 DEF Audio!NoControl, Audio!Move
<1>5. ASSUME NEW s \in Listener, Audio!Claim(s) PROVE Claimed'
  BY <1>5, ClaimDoes
<1>6. ASSUME NEW s \in Listener, Audio!SetFirst(s) PROVE Claimed'
  BY <1>6 DEF Audio!SetFirst, Audio!SetSink, Audio!SetSinkFails, Audio!Move, Audio!Sink
<1>7. ASSUME NEW s \in Listener, Audio!FirstMic(s) PROVE Claimed'
  BY <1>7 DEF Audio!FirstMic, Audio!OpenMic, Audio!Move
<1>8. ASSUME NEW s \in Listener, Audio!DeviceChanged(s) PROVE Claimed'
  BY <1>8 DEF Audio!DeviceChanged, Audio!SetSink, Audio!SetSinkFails, Audio!Move
<1>9. ASSUME NEW s \in Listener, Audio!SeesShutdown(s) PROVE Claimed'
  BY <1>9 DEF Audio!SeesShutdown, Audio!Move
<1>10. ASSUME NEW s \in Listener, Audio!ReopenFails(s) PROVE Claimed'
  BY <1>10 DEF Audio!ReopenFails, Audio!Move
<1>11. ASSUME NEW s \in Listener, Audio!AwaitShutdown(s) PROVE Claimed'
  BY <1>11 DEF Audio!AwaitShutdown, Audio!Move
<1>12. ASSUME NEW s \in Listener, Audio!Leave(s) PROVE Claimed'
  BY <1>12, NoContext DEF Audio!Leave, Audio!Move
<1>13. ASSUME NEW s \in Listener, Audio!SampleFails(s) PROVE Claimed'
  BY <1>13 DEF Audio!SampleFails, Audio!Move
<1>14. ASSUME NEW s \in Listener, Audio!Reopen(s) PROVE Claimed'
  BY <1>14 DEF Audio!Reopen, Audio!OpenMic, Audio!Move
<1>15. ASSUME NEW s \in Listener, Audio!StopListener(s) PROVE Claimed'
  BY <1>15 DEF Audio!StopListener
<1> QED
  BY <1>1, <1>2, <1>3, <1>4, <1>5, <1>6, <1>7, <1>8, <1>9, <1>10, <1>11,
     <1>12, <1>13, <1>14, <1>15 DEF Audio!Next, Audio!AudioStep

\* ... who sets the sink, ...
LEMMA AssignedStep ==
  ASSUME AudioConstants, AudioInv, Audio!Next PROVE Assigned'
<1> USE DEF AudioConstants, AudioInv, Audio!TypeOK, ControlUsed, Claimed, Assigned,
            Audio!Device, Audio!Sink
<1>1. ASSUME NEW d \in Real, Audio!UserPicks(d) PROVE Assigned'
  BY <1>1 DEF Audio!UserPicks
<1>2. CASE Audio!CrashRestart
  BY <1>2, NoContext DEF Audio!CrashRestart, Audio!ResetDefault
<1>3. ASSUME NEW s \in Listener, Audio!TakeRef(s) PROVE Assigned'
  BY <1>3, TakeRefDoes
<1>4. ASSUME NEW s \in Listener, Audio!NoControl(s) PROVE Assigned'
  BY <1>4 DEF Audio!NoControl, Audio!Move
<1>5. ASSUME NEW s \in Listener, Audio!Claim(s) PROVE Assigned'
  BY <1>5, ClaimDoes
<1>6. ASSUME NEW s \in Listener, Audio!SetFirst(s) PROVE Assigned'
  BY <1>6 DEF Audio!SetFirst, Audio!SetSink, Audio!SetSinkFails, Audio!Move, Audio!Sink
<1>7. ASSUME NEW s \in Listener, Audio!FirstMic(s) PROVE Assigned'
  BY <1>7 DEF Audio!FirstMic, Audio!OpenMic, Audio!Move
<1>8. ASSUME NEW s \in Listener, Audio!DeviceChanged(s) PROVE Assigned'
  BY <1>8 DEF Audio!DeviceChanged, Audio!SetSink, Audio!SetSinkFails, Audio!Move
<1>9. ASSUME NEW s \in Listener, Audio!SeesShutdown(s) PROVE Assigned'
  BY <1>9 DEF Audio!SeesShutdown, Audio!Move
<1>10. ASSUME NEW s \in Listener, Audio!ReopenFails(s) PROVE Assigned'
  BY <1>10 DEF Audio!ReopenFails, Audio!Move
<1>11. ASSUME NEW s \in Listener, Audio!AwaitShutdown(s) PROVE Assigned'
  BY <1>11 DEF Audio!AwaitShutdown, Audio!Move
<1>12. ASSUME NEW s \in Listener, Audio!Leave(s) PROVE Assigned'
  BY <1>12, NoContext DEF Audio!Leave, Audio!Move
<1>13. ASSUME NEW s \in Listener, Audio!SampleFails(s) PROVE Assigned'
  BY <1>13 DEF Audio!SampleFails, Audio!Move
<1>14. ASSUME NEW s \in Listener, Audio!Reopen(s) PROVE Assigned'
  BY <1>14 DEF Audio!Reopen, Audio!OpenMic, Audio!Move
<1>15. ASSUME NEW s \in Listener, Audio!StopListener(s) PROVE Assigned'
  BY <1>15 DEF Audio!StopListener
<1> QED
  BY <1>1, <1>2, <1>3, <1>4, <1>5, <1>6, <1>7, <1>8, <1>9, <1>10, <1>11,
     <1>12, <1>13, <1>14, <1>15 DEF Audio!Next, Audio!AudioStep

\* ... and the debt.
LEMMA OwedStep ==
  ASSUME AudioConstants, AudioInv, Audio!Next PROVE Owed'
<1> USE DEF AudioConstants, AudioInv, Audio!TypeOK, ControlUsed, Claimed, Assigned, Owed,
            Audio!Device
<1>1. ASSUME NEW d \in Real, Audio!UserPicks(d) PROVE Owed'
  BY <1>1 DEF Audio!UserPicks
<1>2. CASE Audio!CrashRestart
  BY <1>2, NoContext DEF Audio!CrashRestart, Audio!ResetDefault
<1>3. ASSUME NEW s \in Listener, Audio!TakeRef(s) PROVE Owed'
  BY <1>3, TakeRefDoes
<1>4. ASSUME NEW s \in Listener, Audio!NoControl(s) PROVE Owed'
  BY <1>4 DEF Audio!NoControl, Audio!Move
<1>5. ASSUME NEW s \in Listener, Audio!Claim(s) PROVE Owed'
  BY <1>5, ClaimDoes
<1>6. ASSUME NEW s \in Listener, Audio!SetFirst(s) PROVE Owed'
  BY <1>6 DEF Audio!SetFirst, Audio!SetSink, Audio!SetSinkFails, Audio!Move, Audio!Sink
<1>7. ASSUME NEW s \in Listener, Audio!FirstMic(s) PROVE Owed'
  BY <1>7 DEF Audio!FirstMic, Audio!OpenMic, Audio!Move
<1>8. ASSUME NEW s \in Listener, Audio!DeviceChanged(s) PROVE Owed'
  BY <1>8 DEF Audio!DeviceChanged, Audio!SetSink, Audio!SetSinkFails, Audio!Move
<1>9. ASSUME NEW s \in Listener, Audio!SeesShutdown(s) PROVE Owed'
  BY <1>9 DEF Audio!SeesShutdown, Audio!Move
<1>10. ASSUME NEW s \in Listener, Audio!ReopenFails(s) PROVE Owed'
  BY <1>10 DEF Audio!ReopenFails, Audio!Move
<1>11. ASSUME NEW s \in Listener, Audio!AwaitShutdown(s) PROVE Owed'
  BY <1>11 DEF Audio!AwaitShutdown, Audio!Move
<1>12. ASSUME NEW s \in Listener, Audio!Leave(s) PROVE Owed'
  BY <1>12, NoContext DEF Audio!Leave, Audio!Move
<1>13. ASSUME NEW s \in Listener, Audio!SampleFails(s) PROVE Owed'
  BY <1>13 DEF Audio!SampleFails, Audio!Move
<1>14. ASSUME NEW s \in Listener, Audio!Reopen(s) PROVE Owed'
  BY <1>14 DEF Audio!Reopen, Audio!OpenMic, Audio!Move
<1>15. ASSUME NEW s \in Listener, Audio!StopListener(s) PROVE Owed'
  BY <1>15 DEF Audio!StopListener
<1> QED
  BY <1>1, <1>2, <1>3, <1>4, <1>5, <1>6, <1>7, <1>8, <1>9, <1>10, <1>11,
     <1>12, <1>13, <1>14, <1>15 DEF Audio!Next, Audio!AudioStep

\* The host starts with a device of its own.
LEMMA InitAudioInv == AudioConstants /\ Audio!Init => AudioInv
<1> SUFFICES ASSUME AudioConstants, Audio!Init PROVE AudioInv
  OBVIOUS
<1>1. Audio!TypeOK
  <2>1. default \in Audio!Device /\ ctx \in AudioContext /\ crashes \in 0..MaxCrash
    BY NoContext DEF AudioConstants, Audio!Init, Audio!Device
  <2> QED BY <2>1 DEF Audio!Init, AudioContext, Audio!AudioPC, Audio!TypeOK
<1>2. ControlUsed /\ Claimed /\ Owed
  BY NoContext DEF AudioConstants, Audio!Init, ControlUsed, Claimed, Owed
<1>3. Assigned
  BY DEF Audio!Init, Assigned
<1> QED BY <1>1, <1>2, <1>3 DEF AudioInv

\* The invariant is inductive.
LEMMA AudioInvKept == ASSUME AudioConstants, AudioInv, [Audio!Next]_(Audio!vars) PROVE AudioInv'
<1>1. CASE Audio!Next
  BY <1>1, AudioTypeStep, UsedStep, ClaimedStep, AssignedStep, OwedStep DEF AudioInv
<1>2. CASE UNCHANGED Audio!vars
  BY <1>2 DEF Audio!vars, AudioInv, Audio!TypeOK, ControlUsed, Claimed, Assigned, Owed,
       Audio!Sink
<1> QED BY <1>1, <1>2

\* Whatever the user, the sessions, failing calls and crashes do to it, the
\* default device is a real one again when nobody streams.
THEOREM GivenBack ==
  AudioConstants => (Audio!Spec => [](Audio!TypeOK /\ Audio!DeviceGivenBack))
<1> SUFFICES ASSUME AudioConstants
             PROVE  Audio!Spec => [](Audio!TypeOK /\ Audio!DeviceGivenBack)
  OBVIOUS
<1>1. Audio!Init => AudioInv
  BY InitAudioInv
<1>2. AudioInv /\ [Audio!Next]_(Audio!vars) => AudioInv'
  BY AudioInvKept
<1>3. AudioInv => Audio!TypeOK /\ Audio!DeviceGivenBack
  BY DEF AudioInv, Claimed, Owed, Audio!DeviceGivenBack
<1> QED BY <1>1, <1>2, <1>3, PTL DEF Audio!Spec

-----------------------------------------------------------------------------
(* Why a packet thread never starts on a stopped queue (PacketQueues), for any *)
(* sessions and any size of the queues                                         *)

\* The names of the threads differ from each other and from the sessions.
PacketConstants == /\ MaxPackets \in Nat \ {0}
                   /\ Viewer \intersect {"sender", "ender", "prober"} = {}

\* A queue is there exactly as long as somebody has a handle on it.
HeldIsLive == \A k \in Packets!Kind : post[k] = "live" <=> holders[k] # {}

\* Who has one: the encoders, the packet thread, end_broadcast and the probe.
WhoHolds ==
  \A k \in Packets!Kind :
    /\ \A s \in Viewer : s \in holders[k] <=> session[s] = "encoding"
    /\ "sender" \in holders[k] <=> sender[k] \in {"pop", "send", "exit"}
    /\ "ender" \in holders[k] <=> broadcast \in {"stop", "drop"}
    /\ "prober" \in holders[k] <=> k = "video" /\ probe \in {"encode", "pop"}

\* A session runs in a context that is up; without a context no packet thread
\* runs, and only then are the encoders probed.
WhoRuns ==
  /\ \A s \in Viewer : session[s] \in {"encoding", "ended"} => broadcast = "up"
  /\ broadcast = "down" => \A k \in Packets!Kind : sender[k] = "off"
  /\ probe # "none" => broadcast = "down"

\* A packet thread has yet to ask only while a session waits for its client.
AskedInTime ==
  \A k \in Packets!Kind : sender[k] = "ask" => \E s \in Viewer : session[s] = "encoding"

\* A queue that was stopped belongs to a context that is ending.
StoppedIsOld ==
  \A k \in Packets!Kind : post[k] = "live" /\ ~queue[k].on
     => (k = "audio" /\ muted) \/ broadcast \in {"drop", "join"}

PacketSafe == HeldIsLive /\ WhoHolds /\ WhoRuns /\ AskedInTime /\ StoppedIsOld

PacketInv == Packets!TypeOK /\ (~broken => PacketSafe)

PacketOwner == Viewer \union {"prober"}

PacketQueue == {q \in [on : BOOLEAN, items : Seq(PacketOwner)] : Len(q.items) <= MaxPackets}

\* However many packets the encoders leave behind, a queue never outgrows its
\* bound: a raise() on a full one drops what was in it.
LEMMA PutIsQueue ==
  ASSUME PacketConstants, NEW q \in PacketQueue, NEW x \in PacketOwner
  PROVE  Packets!PutPacket(q, x) \in PacketQueue
<1>1. CASE ~q.on
  BY <1>1 DEF Packets!PutPacket, Packets!Put
<1>2. CASE q.on
  <2> DEFINE items == IF Len(q.items) = MaxPackets THEN <<x>> ELSE Append(q.items, x)
  <2>1. items \in Seq(PacketOwner) /\ Len(items) <= MaxPackets
    BY DEF PacketQueue, PacketConstants
  <2>2. Packets!PutPacket(q, x) = [q EXCEPT !.items = items]
    BY <1>2 DEF Packets!PutPacket, Packets!Put
  <2>3. Packets!PutPacket(q, x) = [on |-> q.on, items |-> items]
    BY <2>2 DEF PacketQueue
  <2> QED BY <2>1, <2>3 DEF PacketQueue
<1> QED BY <1>1, <1>2

LEMMA TakenIsQueue ==
  ASSUME NEW q \in PacketQueue, q.items # <<>>, MaxPackets \in Nat
 
        PROVE  /\ Packets!Taken(q) \in PacketQueue /\ Head(q.items) \in PacketOwner
         /\ Packets!Taken(q).on = q.on
<1>1. Tail(q.items) \in Seq(PacketOwner) /\ Len(Tail(q.items)) <= MaxPackets
      /\ Head(q.items) \in PacketOwner
  BY DEF PacketQueue
<1>2. Packets!Taken(q) = [on |-> q.on, items |-> Tail(q.items)]
  <2>1. ASSUME NEW items PROVE [q EXCEPT !.items = items] = [on |-> q.on, items |-> items]
    BY DEF PacketQueue
  <2> QED BY <2>1, Zenon DEF Packets!Taken
<1> QED BY <1>1, <1>2 DEF PacketQueue

LEMMA StoppedIsQueue == ASSUME NEW q \in PacketQueue PROVE Packets!StopQueue(q) \in PacketQueue
<1>1. q.items \in Seq(PacketOwner) /\ Len(q.items) <= MaxPackets
  BY DEF PacketQueue
<1> DEFINE r == [on |-> FALSE, items |-> q.items]
<1>2. Packets!StopQueue(q) = r
  <2>1. ASSUME NEW on PROVE [q EXCEPT !.on = on] = [on |-> on, items |-> q.items]
    BY DEF PacketQueue
  <2> QED BY <2>1, Zenon DEF Packets!StopQueue
<1>3. r \in [on : BOOLEAN, items : Seq(PacketOwner)] /\ r.items = q.items
  BY <1>1
<1> HIDE DEF r
<1> QED BY <1>1, <1>2, <1>3 DEF PacketQueue

LEMMA NewIsQueue == PacketConstants => Packets!NewQueue \in PacketQueue /\ Packets!NewQueue.on
  BY DEF PacketConstants, Packets!NewQueue, PacketQueue

\* The type invariant, with the queues as members of Queue.
PacketRest ==
  /\ post \in [Packets!Kind -> {"none", "live", "dying"}]
  /\ holders \in [Packets!Kind -> SUBSET Packets!Thread]
  /\ sender \in [Packets!Kind -> Packets!SenderPC]
  /\ session \in [Viewer -> {"none", "encoding", "ended", "destroyed"}]
  /\ broadcast \in {"down", "up"} \union Packets!EndPC
  /\ shutdown \in BOOLEAN
  /\ probe \in {"none", "ask", "encode", "pop"}
  /\ muted \in BOOLEAN /\ broken \in BOOLEAN

PacketPart ==
          /\ queue \in [Packets!Kind -> PacketQueue]
          /\ sending \in [Packets!Kind -> PacketOwner \union {Nothing}]

LEMMA PacketTypeParts == Packets!TypeOK <=> PacketRest /\ PacketPart
<1>1. ASSUME NEW f
      PROVE  f \in [Packets!Kind -> PacketQueue]
               <=> /\ f \in [Packets!Kind -> [on : BOOLEAN, items : Seq(PacketOwner)]]
                   /\ \A k \in Packets!Kind : Len(f[k].items) <= MaxPackets
  BY DEF PacketQueue
<1> QED BY <1>1 DEF Packets!TypeOK, PacketRest, PacketPart, PacketOwner

\* One step keeps the type of everything but the packets, and of these.
LEMMA RestStep == ASSUME PacketConstants, PacketRest, Packets!Step PROVE PacketRest'
<1> USE DEF PacketRest, Packets!Kind, Packets!Thread, Packets!SenderPC, Packets!EndPC
<1>1. ASSUME NEW s \in Viewer, Packets!StartSession(s) PROVE PacketRest'
  BY <1>1 DEF Packets!StartSession, Packets!Ask
<1>2. ASSUME NEW s \in Viewer, Packets!AudioFails(s) PROVE PacketRest'
  BY <1>2 DEF Packets!AudioFails, Packets!StopQueue
<1>3. ASSUME NEW s \in Viewer, Packets!EndSession(s) PROVE PacketRest'
  BY <1>3 DEF Packets!EndSession, Packets!DropHandle, Packets!SendersStarted
<1>4. ASSUME NEW s \in Viewer, Packets!DestroySession(s) PROVE PacketRest'
  BY <1>4 DEF Packets!DestroySession, Packets!mailVars
<1>5. ASSUME NEW s \in Viewer, NEW k \in Packets!Kind, Packets!Encode(s, k) PROVE PacketRest'
  BY <1>5 DEF Packets!Encode, Packets!PutPacket, Packets!Put
<1>6. ASSUME NEW k \in Packets!Kind, Packets!Cleanup(k) PROVE PacketRest'
  BY <1>6 DEF Packets!Cleanup
<1>7. ASSUME NEW k \in Packets!Kind, Packets!SenderAsk(k) PROVE PacketRest'
  BY <1>7 DEF Packets!SenderAsk, Packets!OnlySender, Packets!Ask
<1>8. ASSUME NEW k \in Packets!Kind, Packets!SenderPop(k) PROVE PacketRest'
  BY <1>8 DEF Packets!SenderPop, Packets!OnlySender, Packets!Taken
<1>9. ASSUME NEW k \in Packets!Kind, Packets!SenderSent(k) PROVE PacketRest'
  BY <1>9 DEF Packets!SenderSent, Packets!OnlySender, Packets!mailVars
<1>10. ASSUME NEW k \in Packets!Kind, Packets!SenderExit(k) PROVE PacketRest'
  BY <1>10 DEF Packets!SenderExit, Packets!OnlySender, Packets!DropHandle
<1>11. CASE Packets!TimerFails
  BY <1>11 DEF Packets!TimerFails, Packets!OnlySender, Packets!DropHandle
<1>12. CASE Packets!EndRaise
  BY <1>12 DEF Packets!EndRaise, Packets!EndStep, Packets!mailVars
<1>13. CASE Packets!EndAsk
  BY <1>13 DEF Packets!EndAsk, Packets!EndStep, Packets!Ask
<1>14. CASE Packets!EndStop
  BY <1>14 DEF Packets!EndStop, Packets!EndStep, Packets!StopBoth, Packets!StopQueue
<1>15. CASE Packets!EndDrop
  BY <1>15 DEF Packets!EndDrop, Packets!EndStep, Packets!DropHandle
<1>16. CASE Packets!EndJoin
  BY <1>16 DEF Packets!EndJoin, Packets!EndStep, Packets!mailVars, Packets!SendersJoined
<1>17. CASE Packets!ProbeBegin
  BY <1>17 DEF Packets!ProbeBegin, Packets!mailVars
<1>18. CASE Packets!ProbeAsk
  BY <1>18 DEF Packets!ProbeAsk, Packets!Ask
<1>19. CASE Packets!ProbeEncode
  BY <1>19 DEF Packets!ProbeEncode, Packets!PutPacket, Packets!Put
<1>20. CASE Packets!ProbeFails
  BY <1>20 DEF Packets!ProbeFails, Packets!DropHandle
<1>21. CASE Packets!ProbeEncoded
  BY <1>21 DEF Packets!ProbeEncoded, Packets!mailVars
<1>22. CASE Packets!ProbePop
  BY <1>22 DEF Packets!ProbePop, Packets!Taken
<1> QED BY <1>1, <1>2, <1>3, <1>4, <1>5, <1>6, <1>7, <1>8, <1>9, <1>10, <1>11,
     <1>12, <1>13, <1>14, <1>15, <1>16, <1>17, <1>18, <1>19, <1>20, <1>21,
     <1>22 DEF Packets!Step, Packets!SenderStep, Packets!EndBroadcast, Packets!Probe

LEMMA PacketStep == ASSUME PacketConstants, PacketPart, Packets!Step PROVE PacketPart'
<1> USE DEF PacketPart, Packets!Kind
<1>1. ASSUME NEW s \in Viewer, Packets!StartSession(s) PROVE PacketPart'
  BY <1>1, NewIsQueue DEF Packets!StartSession, Packets!Ask, PacketPart
<1>2. ASSUME NEW s \in Viewer, Packets!AudioFails(s) PROVE PacketPart'
  <2>1. /\ queue' = [queue EXCEPT !["audio"] = Packets!StopQueue(queue["audio"])]
        /\ UNCHANGED sending
    BY <1>2 DEF Packets!AudioFails
  <2> QED BY <2>1, StoppedIsQueue DEF PacketPart, Packets!Kind
<1>3. ASSUME NEW s \in Viewer, Packets!EndSession(s) PROVE PacketPart'
  BY <1>3 DEF Packets!EndSession, Packets!DropHandle, Packets!SendersStarted
<1>4. ASSUME NEW s \in Viewer, Packets!DestroySession(s) PROVE PacketPart'
  BY <1>4 DEF Packets!DestroySession, Packets!mailVars
<1>5. ASSUME NEW s \in Viewer, NEW k \in Packets!Kind, Packets!Encode(s, k) PROVE PacketPart'
  <2>1. queue' = [queue EXCEPT ![k] = Packets!PutPacket(queue[k], s)] /\ UNCHANGED sending
    BY <1>5 DEF Packets!Encode
  <2> QED BY <2>1, PutIsQueue DEF PacketPart, PacketOwner
<1>6. ASSUME NEW k \in Packets!Kind, Packets!Cleanup(k) PROVE PacketPart'
  BY <1>6, NewIsQueue DEF Packets!Cleanup, PacketPart
<1>7. ASSUME NEW k \in Packets!Kind, Packets!SenderAsk(k) PROVE PacketPart'
  BY <1>7, NewIsQueue DEF Packets!SenderAsk, Packets!Ask, PacketPart
<1>8. ASSUME NEW k \in Packets!Kind, Packets!SenderPop(k) PROVE PacketPart'
  <2>1. CASE queue[k].on
    <3>1. /\ queue[k].items # <<>>
          /\ queue' = [queue EXCEPT ![k] = Packets!Taken(queue[k])]
          /\ sending' = [sending EXCEPT ![k] = Head(queue[k].items)]
      BY <1>8, <2>1 DEF Packets!SenderPop
    <3>2. Packets!Taken(queue[k]) \in PacketQueue /\ Head(queue[k].items) \in PacketOwner
      BY <3>1, TakenIsQueue DEF PacketPart, PacketConstants
    <3> QED BY <3>1, <3>2 DEF PacketPart
  <2>2. CASE ~queue[k].on
    BY <1>8, <2>2 DEF Packets!SenderPop, PacketPart
  <2> QED BY <2>1, <2>2
<1>9. ASSUME NEW k \in Packets!Kind, Packets!SenderSent(k) PROVE PacketPart'
  BY <1>9 DEF Packets!SenderSent, Packets!OnlySender, Packets!mailVars
<1>10. ASSUME NEW k \in Packets!Kind, Packets!SenderExit(k) PROVE PacketPart'
  BY <1>10 DEF Packets!SenderExit, Packets!OnlySender, Packets!DropHandle
<1>11. CASE Packets!TimerFails
  BY <1>11 DEF Packets!TimerFails, Packets!OnlySender, Packets!DropHandle
<1>12. CASE Packets!EndRaise
  BY <1>12 DEF Packets!EndRaise, Packets!EndStep, Packets!mailVars
<1>13. CASE Packets!EndAsk
  BY <1>13, NewIsQueue DEF Packets!EndAsk, Packets!Ask, PacketPart
<1>14. CASE Packets!EndStop
  BY <1>14, StoppedIsQueue DEF Packets!EndStop, Packets!EndStep, Packets!StopBoth,
     PacketPart
<1>15. CASE Packets!EndDrop
  BY <1>15 DEF Packets!EndDrop, Packets!EndStep, Packets!DropHandle
<1>16. CASE Packets!EndJoin
  BY <1>16 DEF Packets!EndJoin, Packets!EndStep, Packets!mailVars, Packets!SendersJoined
<1>17. CASE Packets!ProbeBegin
  BY <1>17 DEF Packets!ProbeBegin, Packets!mailVars
<1>18. CASE Packets!ProbeAsk
  BY <1>18, NewIsQueue DEF Packets!ProbeAsk, Packets!Ask, PacketPart
<1>19. CASE Packets!ProbeEncode
  <2>1. /\ queue' = [queue EXCEPT !["video"] = Packets!PutPacket(queue["video"], "prober")]
        /\ UNCHANGED sending
    BY <1>19 DEF Packets!ProbeEncode
  <2> QED BY <2>1, PutIsQueue DEF PacketPart, PacketOwner, Packets!Kind
<1>20. CASE Packets!ProbeFails
  BY <1>20 DEF Packets!ProbeFails, Packets!DropHandle
<1>21. CASE Packets!ProbeEncoded
  BY <1>21 DEF Packets!ProbeEncoded, Packets!mailVars
<1>22. CASE Packets!ProbePop
  <2>1. CASE queue["video"].on
    <3>1. /\ queue["video"].items # <<>>
          /\ queue' = [queue EXCEPT !["video"] = Packets!Taken(queue["video"])]
          /\ UNCHANGED sending
      BY <1>22, <2>1 DEF Packets!ProbePop, Packets!PeekQueue
    <3>2. Packets!Taken(queue["video"]) \in PacketQueue
      BY <3>1, TakenIsQueue DEF PacketPart, PacketConstants, Packets!Kind
    <3> QED BY <3>1, <3>2 DEF PacketPart
  <2>2. CASE ~queue["video"].on
    BY <1>22, <2>2 DEF Packets!ProbePop, PacketPart
  <2> QED BY <2>1, <2>2
<1> QED BY <1>1, <1>2, <1>3, <1>4, <1>5, <1>6, <1>7, <1>8, <1>9, <1>10, <1>11,
     <1>12, <1>13, <1>14, <1>15, <1>16, <1>17, <1>18, <1>19, <1>20, <1>21,
     <1>22 DEF Packets!Step, Packets!SenderStep, Packets!EndBroadcast, Packets!Probe

LEMMA PacketInitTypes == PacketConstants /\ Packets!Init => Packets!TypeOK
<1> SUFFICES ASSUME PacketConstants, Packets!Init PROVE PacketRest /\ PacketPart
  BY PacketTypeParts
<1>1. PacketRest
  BY DEF Packets!Init, PacketRest, Packets!Kind, Packets!Thread, Packets!SenderPC,
     Packets!EndPC
<1>2. PacketPart
  BY NewIsQueue DEF Packets!Init, PacketPart
<1> QED BY <1>1, <1>2

LEMMA PacketTypesKept ==
  ASSUME PacketConstants, Packets!TypeOK, [Packets!Next]_(Packets!vars)
  PROVE  Packets!TypeOK'
<1> SUFFICES (PacketRest /\ PacketPart)'
  BY PacketTypeParts, PTL
<1>1. PacketRest /\ PacketPart
  BY PacketTypeParts
<1>2. CASE Packets!Next
  BY <1>1, <1>2, RestStep, PacketStep DEF Packets!Next
<1>3. CASE UNCHANGED Packets!vars
  BY <1>1, <1>3 DEF Packets!vars, PacketRest, PacketPart
<1> QED BY <1>2, <1>3

\* Every reachable state is well typed: no queue outgrows its bound.
THEOREM PacketTyping == PacketConstants => (Packets!Spec => []Packets!TypeOK)
<1> SUFFICES ASSUME PacketConstants PROVE Packets!Spec => []Packets!TypeOK
  OBVIOUS
<1>1. Packets!Init => Packets!TypeOK
  BY PacketInitTypes
<1>2. Packets!TypeOK /\ [Packets!Next]_(Packets!vars) => Packets!TypeOK'
  BY PacketTypesKept
<1> QED BY <1>1, <1>2, PTL DEF Packets!Spec

-----------------------------------------------------------------------------
(* The packet threads' queues *)

LEMMA SafeStep ==
  ASSUME PacketConstants, Packets!TypeOK, PacketSafe, ~broken, Packets!Step, ~broken'
  PROVE  PacketSafe'
<1> USE DEF PacketConstants, Packets!TypeOK, Packets!Kind, Packets!NewQueue, PacketSafe,
            HeldIsLive, WhoHolds, WhoRuns, AskedInTime, StoppedIsOld
<1>1. ASSUME NEW s \in Viewer, Packets!StartSession(s) PROVE PacketSafe'
  <2>a. \A k \in Packets!Kind : holders'[k] = holders[k] \union {s} /\ post'[k] = "live"
    BY <1>1 DEF Packets!StartSession, Packets!Ask
  <2>b. /\ broadcast \in {"down", "up"} /\ broadcast' = "up"
        /\ probe = "none" /\ probe' = probe
        /\ session \in [Viewer -> {"none", "encoding", "ended", "destroyed"}]
        /\ session[s] = "none" /\ session' = [session EXCEPT ![s] = "encoding"]
        /\ s \notin {"sender", "ender", "prober"}
    BY <1>1 DEF Packets!StartSession
  <2>c. \A k \in Packets!Kind : \/ sender'[k] = sender[k]
                                \/ sender[k] = "off" /\ sender'[k] = "ask"
    BY <1>1 DEF Packets!StartSession
  <2>d. HeldIsLive'
    BY ONLY <2>a DEF HeldIsLive, Packets!Kind
  <2>e. WhoHolds'
    <3> SUFFICES ASSUME NEW k \in Packets!Kind
                 PROVE  /\ \A t \in Viewer : t \in holders'[k] <=> session'[t] = "encoding"
                        /\ "sender" \in holders'[k] <=> sender'[k] \in {"pop", "send", "exit"}
                        /\ "ender" \in holders'[k] <=> broadcast' \in {"stop", "drop"}
                        /\ "prober" \in holders'[k]
                              <=> k = "video" /\ probe' \in {"encode", "pop"}
      BY DEF WhoHolds, Packets!Kind
    <3>1. /\ \A t \in Viewer : t \in holders[k] <=> session[t] = "encoding"
          /\ "sender" \in holders[k] <=> sender[k] \in {"pop", "send", "exit"}
          /\ "ender" \in holders[k] <=> broadcast \in {"stop", "drop"}
          /\ "prober" \in holders[k] <=> k = "video" /\ probe \in {"encode", "pop"}
      BY DEF WhoHolds
    <3> QED BY ONLY <3>1, <2>a, <2>b, <2>c, k \in Packets!Kind
  <2>1. (HeldIsLive /\ WhoHolds)'
    BY <2>d, <2>e
  <2>2. (WhoRuns /\ AskedInTime /\ StoppedIsOld)'
    BY SMTT(40), <1>1 DEF Packets!StartSession, Packets!Ask, Packets!Kind, Packets!NewQueue,
       WhoRuns, AskedInTime, StoppedIsOld
  <2> QED BY <2>1, <2>2 DEF PacketSafe
<1>2. ASSUME NEW s \in Viewer, Packets!AudioFails(s) PROVE PacketSafe'
  BY <1>2 DEF Packets!AudioFails, Packets!StopQueue
<1>3. ASSUME NEW s \in Viewer, Packets!EndSession(s) PROVE PacketSafe'
  BY <1>3 DEF Packets!EndSession, Packets!DropHandle, Packets!SendersStarted
<1>4. ASSUME NEW s \in Viewer, Packets!DestroySession(s) PROVE PacketSafe'
  BY <1>4 DEF Packets!DestroySession, Packets!mailVars
<1>5. ASSUME NEW s \in Viewer, NEW k \in Packets!Kind, Packets!Encode(s, k) PROVE PacketSafe'
  BY <1>5 DEF Packets!Encode, Packets!PutPacket, Packets!Put
<1>6. ASSUME NEW k \in Packets!Kind, Packets!Cleanup(k) PROVE PacketSafe'
  BY <1>6 DEF Packets!Cleanup
<1>7. ASSUME NEW k \in Packets!Kind, Packets!SenderAsk(k) PROVE PacketSafe'
  BY <1>7 DEF Packets!SenderAsk, Packets!OnlySender, Packets!Ask
<1>8. ASSUME NEW k \in Packets!Kind, Packets!SenderPop(k) PROVE PacketSafe'
  <2>1. \A j \in Packets!Kind : queue'[j].on = queue[j].on
    <3>1. CASE queue[k].on
      <4>1. queue[k] \in PacketQueue /\ queue[k].items # <<>>
            /\ queue' = [queue EXCEPT ![k] = Packets!Taken(queue[k])]
        BY <1>8, <3>1, PacketTypeParts DEF Packets!SenderPop, PacketPart
      <4>2. Packets!Taken(queue[k]).on = queue[k].on
        BY <4>1, TakenIsQueue DEF PacketConstants
      <4> QED BY <4>1, <4>2, PacketTypeParts DEF PacketPart
    <3>2. CASE ~queue[k].on
      BY <1>8, <3>2 DEF Packets!SenderPop
    <3> QED BY <3>1, <3>2
  <2> QED BY <1>8, <2>1 DEF Packets!SenderPop, Packets!OnlySender, Packets!TypeOK,
     Packets!Kind,
                    PacketSafe, HeldIsLive, WhoHolds, WhoRuns, AskedInTime, StoppedIsOld
<1>9. ASSUME NEW k \in Packets!Kind, Packets!SenderSent(k) PROVE PacketSafe'
  BY <1>9 DEF Packets!SenderSent, Packets!OnlySender, Packets!mailVars
<1>10. ASSUME NEW k \in Packets!Kind, Packets!SenderExit(k) PROVE PacketSafe'
  BY <1>10 DEF Packets!SenderExit, Packets!OnlySender, Packets!DropHandle
<1>11. CASE Packets!TimerFails
  BY <1>11 DEF Packets!TimerFails, Packets!OnlySender, Packets!DropHandle
<1>12. CASE Packets!EndRaise
  BY <1>12 DEF Packets!EndRaise, Packets!EndStep, Packets!mailVars
<1>13. CASE Packets!EndAsk
  BY <1>13 DEF Packets!EndAsk, Packets!EndStep, Packets!Ask
<1>14. CASE Packets!EndStop
  BY <1>14 DEF Packets!EndStop, Packets!EndStep, Packets!StopBoth, Packets!StopQueue
<1>15. CASE Packets!EndDrop
  BY <1>15 DEF Packets!EndDrop, Packets!EndStep, Packets!DropHandle
<1>16. CASE Packets!EndJoin
  <2>1. \A k \in Packets!Kind : holders[k] \intersect Packets!Thread = {}
    BY <1>16 DEF Packets!EndJoin, Packets!EndStep, Packets!SendersJoined, Packets!Thread,
       PacketSafe, WhoHolds, WhoRuns
  <2>2. \A k \in Packets!Kind : post[k] # "live"
    BY <2>1 DEF Packets!TypeOK, PacketSafe, HeldIsLive
  <2> QED BY <1>16, <2>2 DEF Packets!EndJoin, Packets!EndStep, Packets!mailVars,
     Packets!SendersJoined, Packets!TypeOK, Packets!Kind,
                    PacketSafe, HeldIsLive, WhoHolds, WhoRuns, AskedInTime, StoppedIsOld
<1>17. CASE Packets!ProbeBegin
  BY <1>17 DEF Packets!ProbeBegin, Packets!mailVars
<1>18. CASE Packets!ProbeAsk
  BY <1>18 DEF Packets!ProbeAsk, Packets!Ask
<1>19. CASE Packets!ProbeEncode
  BY <1>19 DEF Packets!ProbeEncode, Packets!PutPacket, Packets!Put
<1>20. CASE Packets!ProbeFails
  BY <1>20 DEF Packets!ProbeFails, Packets!DropHandle
<1>21. CASE Packets!ProbeEncoded
  BY <1>21 DEF Packets!ProbeEncoded, Packets!mailVars
<1>22. CASE Packets!ProbePop
  BY <1>22 DEF Packets!ProbePop, Packets!Taken
<1> QED BY <1>1, <1>2, <1>3, <1>4, <1>5, <1>6, <1>7, <1>8, <1>9, <1>10, <1>11,
     <1>12, <1>13, <1>14, <1>15, <1>16, <1>17, <1>18, <1>19, <1>20, <1>21,
     <1>22 DEF Packets!Step, Packets!SenderStep, Packets!EndBroadcast, Packets!Probe

\* Only asking for its queue makes a packet thread wait for packets.
LEMMA OnlyAsking ==
  ASSUME Packets!TypeOK, Packets!Step,
         NEW j \in Packets!Kind, sender[j] = "ask", sender'[j] = "pop"
  PROVE  Packets!SenderAsk(j)
<1> USE DEF Packets!TypeOK, Packets!Kind, Packets!SenderPC
<1>1. ASSUME NEW s \in Viewer, Packets!StartSession(s) PROVE Packets!SenderAsk(j)
  BY <1>1 DEF Packets!StartSession, Packets!Ask
<1>2. ASSUME NEW s \in Viewer, Packets!AudioFails(s) PROVE Packets!SenderAsk(j)
  BY <1>2 DEF Packets!AudioFails, Packets!StopQueue
<1>3. ASSUME NEW s \in Viewer, Packets!EndSession(s) PROVE Packets!SenderAsk(j)
  BY <1>3 DEF Packets!EndSession, Packets!DropHandle, Packets!SendersStarted
<1>4. ASSUME NEW s \in Viewer, Packets!DestroySession(s) PROVE Packets!SenderAsk(j)
  BY <1>4 DEF Packets!DestroySession, Packets!mailVars
<1>5. ASSUME NEW s \in Viewer, NEW k \in Packets!Kind, Packets!Encode(s, k)
      PROVE  Packets!SenderAsk(j)
  BY <1>5 DEF Packets!Encode, Packets!PutPacket, Packets!Put
<1>6. ASSUME NEW k \in Packets!Kind, Packets!Cleanup(k) PROVE Packets!SenderAsk(j)
  BY <1>6 DEF Packets!Cleanup
<1>7. ASSUME NEW k \in Packets!Kind, Packets!SenderAsk(k) PROVE Packets!SenderAsk(j)
  BY <1>7 DEF Packets!SenderAsk, Packets!OnlySender, Packets!Ask
<1>8. ASSUME NEW k \in Packets!Kind, Packets!SenderPop(k) PROVE Packets!SenderAsk(j)
  BY <1>8 DEF Packets!SenderPop, Packets!OnlySender, Packets!Taken
<1>9. ASSUME NEW k \in Packets!Kind, Packets!SenderSent(k) PROVE Packets!SenderAsk(j)
  BY <1>9 DEF Packets!SenderSent, Packets!OnlySender, Packets!mailVars
<1>10. ASSUME NEW k \in Packets!Kind, Packets!SenderExit(k) PROVE Packets!SenderAsk(j)
  BY <1>10 DEF Packets!SenderExit, Packets!OnlySender, Packets!DropHandle
<1>11. CASE Packets!TimerFails
  BY <1>11 DEF Packets!TimerFails, Packets!OnlySender, Packets!DropHandle
<1>12. CASE Packets!EndRaise
  BY <1>12 DEF Packets!EndRaise, Packets!EndStep, Packets!mailVars
<1>13. CASE Packets!EndAsk
  BY <1>13 DEF Packets!EndAsk, Packets!EndStep, Packets!Ask
<1>14. CASE Packets!EndStop
  BY <1>14 DEF Packets!EndStop, Packets!EndStep, Packets!StopBoth, Packets!StopQueue
<1>15. CASE Packets!EndDrop
  BY <1>15 DEF Packets!EndDrop, Packets!EndStep, Packets!DropHandle
<1>16. CASE Packets!EndJoin
  BY <1>16 DEF Packets!EndJoin, Packets!EndStep, Packets!mailVars, Packets!SendersJoined
<1>17. CASE Packets!ProbeBegin
  BY <1>17 DEF Packets!ProbeBegin, Packets!mailVars
<1>18. CASE Packets!ProbeAsk
  BY <1>18 DEF Packets!ProbeAsk, Packets!Ask
<1>19. CASE Packets!ProbeEncode
  BY <1>19 DEF Packets!ProbeEncode, Packets!PutPacket, Packets!Put
<1>20. CASE Packets!ProbeFails
  BY <1>20 DEF Packets!ProbeFails, Packets!DropHandle
<1>21. CASE Packets!ProbeEncoded
  BY <1>21 DEF Packets!ProbeEncoded, Packets!mailVars
<1>22. CASE Packets!ProbePop
  BY <1>22 DEF Packets!ProbePop, Packets!Taken
<1> QED BY <1>1, <1>2, <1>3, <1>4, <1>5, <1>6, <1>7, <1>8, <1>9, <1>10, <1>11,
     <1>12, <1>13, <1>14, <1>15, <1>16, <1>17, <1>18, <1>19, <1>20, <1>21,
     <1>22 DEF Packets!Step, Packets!SenderStep, Packets!EndBroadcast, Packets!Probe

LEMMA PacketInvKept ==
  ASSUME PacketConstants, PacketInv, [Packets!Next]_(Packets!vars) PROVE PacketInv'
<1>1. Packets!TypeOK'
  BY PacketTypesKept DEF PacketInv
<1>2. ASSUME Packets!Next, ~broken' PROVE PacketSafe'
  BY <1>2, SafeStep DEF Packets!Next, PacketInv
<1>3. CASE UNCHANGED Packets!vars
  BY <1>1, <1>3 DEF Packets!vars, PacketInv, PacketSafe, HeldIsLive, WhoHolds, WhoRuns,
     AskedInTime,
                    StoppedIsOld
<1> QED BY <1>1, <1>2, <1>3 DEF PacketInv

LEMMA PacketStart == PacketConstants /\ Packets!Init => PacketInv
  BY PacketInitTypes DEF Packets!Init, PacketInv, PacketConstants, Packets!Kind, PacketSafe,
     HeldIsLive, WhoHolds, WhoRuns,
                   AskedInTime, StoppedIsOld

LEMMA PacketInvariance == PacketConstants => (Packets!Spec => []PacketInv)
<1> SUFFICES ASSUME PacketConstants PROVE Packets!Spec => []PacketInv
  OBVIOUS
<1>1. Packets!Init => PacketInv
  BY PacketStart
<1>2. PacketInv /\ [Packets!Next]_(Packets!vars) => PacketInv'
  BY PacketInvKept
<1> QED BY <1>1, <1>2, PTL DEF Packets!Spec

\* As long as encoders are probed only without a context, whoever uses a queue
\* has a handle on it, and it is still there.
THEOREM UsersHold ==
  PacketConstants => (Packets!Spec => []Packets!HeldWhileUsed)
<1> SUFFICES ASSUME PacketConstants PROVE Packets!Spec => []Packets!HeldWhileUsed
  OBVIOUS
<1>1. PacketInv => Packets!HeldWhileUsed
  BY DEF PacketInv, PacketSafe, HeldIsLive, WhoHolds, Packets!HeldWhileUsed
<1> QED BY <1>1, PacketInvariance, PTL

-----------------------------------------------------------------------------
(* The parts: a behaviour of MediaMC is one of each of them *)

LEMMA EachPart == MediaSpec => /\ Spec /\ Sessions!Spec /\ Capture!Spec
                               /\ Packets!Spec /\ Audio!Spec
<1>1. MediaInit => /\ Init /\ Sessions!Init /\ Capture!Init /\ Packets!Init /\ Audio!Init
  BY DEF MediaInit
<1>2. [MediaNext]_mediaVars => [Next]_vars
  BY DEF MediaNext, mediaVars
<1>3. [MediaNext]_mediaVars => [Sessions!Next]_(Sessions!vars)
  BY DEF MediaNext, mediaVars, sessionVars, Sessions!vars, Sessions!sessionVars,
         Sessions!rtspVars, Sessions!broadcastVars, Sessions!processVars
<1>4. [MediaNext]_mediaVars => [Capture!Next]_(Capture!vars)
  BY DEF MediaNext, mediaVars, captureVars, Capture!vars, Capture!threadVars,
         Capture!viewerVars, Capture!sharedVars
<1>5. [MediaNext]_mediaVars => [Packets!Next]_(Packets!vars)
  BY DEF MediaNext, mediaVars, packetVars, Packets!vars
<1>6. [MediaNext]_mediaVars => [Audio!Next]_(Audio!vars)
  BY DEF MediaNext, mediaVars, audioVars, Audio!vars
<1> QED BY <1>1, <1>2, <1>3, <1>4, <1>5, <1>6, PTL
        DEF MediaSpec, Spec, Sessions!Spec, Capture!Spec, Packets!Spec, Audio!Spec

\* The constants are such as the modules of the parts assume, ...
LEMMA SessionConstants ==
  /\ Sessions!IsFiniteSet(Host)
  /\ NoSession \notin Host
  /\ NoOne \notin Sessions!Cleaner
  /\ Sessions!Certs \intersect Sessions!Calls = {}
  /\ {"launch", "resume", "stopping", "cancel", "cert"} \subseteq Sessions!Modes
  /\ {} \subseteq Host
  /\ TRUE \in BOOLEAN
<1>1. Sessions!IsFiniteSet(Host)
  BY MediaAssumption DEF Sessions!IsFiniteSet, IsFiniteSet
<1>2. Sessions!Certs = {"cert"}
  BY MediaAssumption DEF Sessions!Certs
<1>3. {"launch", "resume", "stopping", "cancel", "cert"} \subseteq Sessions!Modes
  BY <1>2 DEF Sessions!Modes, Sessions!Calls
<1> QED BY <1>1, <1>2, <1>3, MediaAssumption DEF Sessions!Cleaner, Sessions!Calls

\* ... and the theorems about them.
LEMMA PartConstants == Capture!CaptureConstants /\ PacketConstants
                         /\ AudioConstants
<1>1. Capture!IsFiniteSet(Viewer) /\ Capture!Cardinality(Viewer) <= 30
  BY MediaAssumption DEF Capture!IsFiniteSet, IsFiniteSet, Capture!Cardinality, Cardinality
<1> QED BY <1>1, MediaAssumption
        DEF Capture!CaptureConstants, PacketConstants, AudioConstants,
            Audio!Device

\* Whatever ends a session, no thread of it outlives what it uses, and no
\* broadcast starts with the end of its predecessor (StreamSession).
THEOREM SessionsAreSafe == MediaSpec => []SessionIsSafe
<1>1. Sessions!Spec => []Sessions!TypeOK
  BY SessionConstants, Sessions!Typing
<1>2. Sessions!Spec => []Sessions!NoDanglingControl
  BY SessionConstants, Sessions!ControlIsSafe
<1>3. Sessions!Spec => []Sessions!ThreadsBacked
  BY SessionConstants, Sessions!ThreadsAreSafe
<1>4. Sessions!Spec => []Sessions!FreshBroadcast
  BY SessionConstants, Sessions!BroadcastIsFresh
<1>5. /\ Sessions!TypeOK /\ Sessions!NoDanglingControl
      /\ Sessions!ThreadsBacked /\ Sessions!FreshBroadcast
      /\ TypeOK
      => SessionIsSafe
  BY DEF SessionIsSafe
<1> QED BY <1>1, <1>2, <1>3, <1>4, <1>5, EachPart, Typing, PTL

\* No encoder waits for a capture thread that is gone, nor encodes what a
\* replaced display showed; and nobody streaming, the default device is the
\* host's (CaptureAsync, AudioCapture).
THEOREM CapturesAreSafe == MediaSpec => []CaptureIsSafe
<1>1. Capture!Spec => []Capture!TypeOK
  BY PartConstants, Capture!Typing
<1>2. Capture!Spec => [](Capture!DeadThreadStopsAll /\ Capture!ReinitIsPassing
                        /\ Capture!NoStaleImage)
  BY PartConstants, Capture!CaptureIsSound
<1>3. Audio!Spec => [](Audio!TypeOK /\ Audio!DeviceGivenBack)
  BY PartConstants, GivenBack
<1>4. Packets!Spec => []Packets!TypeOK
  BY PartConstants, PacketTyping
<1>5. /\ Capture!TypeOK /\ Capture!DeadThreadStopsAll /\ Capture!ReinitIsPassing
      /\ Capture!NoStaleImage
      /\ Audio!TypeOK /\ Audio!DeviceGivenBack
      /\ Packets!TypeOK
      => CaptureIsSafe
  BY DEF CaptureIsSafe
<1> QED BY <1>1, <1>2, <1>3, <1>4, <1>5, EachPart, PTL

\* A packet thread never starts on the queue that its predecessor's end
\* stopped (PacketQueues).
THEOREM QueuesAreFresh == MediaSpec => FreshQueue
<1> DEFINE Fresh == \A k \in Packets!Kind :
                      sender[k] = "ask" /\ sender'[k] = "pop"
                        => queue'[k].on \/ (k = "audio" /\ muted)
<1>1. ASSUME PacketConstants, PacketInv, Packets!Next, NEW k \in Packets!Kind,
             sender[k] = "ask", sender'[k] = "pop"
      PROVE  queue'[k].on \/ (k = "audio" /\ muted)
  <2>1. post[k] = "live" /\ broadcast = "up" /\ ~broken
    BY <1>1 DEF PacketInv, PacketSafe, AskedInTime, WhoHolds, WhoRuns, HeldIsLive, Packets!Next
  <2>2. Packets!SenderAsk(k)
    BY <1>1, OnlyAsking DEF PacketInv, Packets!Next
  <2>3. queue'[k] = queue[k]
    BY <2>1, <2>2 DEF Packets!SenderAsk, Packets!Ask, PacketInv, Packets!TypeOK
  <2> QED BY <1>1, <2>1, <2>3 DEF PacketInv, PacketSafe, StoppedIsOld
<1>2. PacketConstants /\ PacketInv /\ [Packets!Next]_(Packets!vars) => [Fresh]_(Packets!vars)
  BY <1>1
<1>3. PacketConstants
  BY PartConstants
<1>4. Packets!Spec => []PacketInv
  BY <1>3, PacketInvariance
<1> QED BY <1>2, <1>3, <1>4, EachPart, PTL DEF Packets!Spec, FreshQueue, Packets!FreshQueue
=============================================================================
