------------------------------- MODULE LiveMC --------------------------------
(***************************************************************************)
(* One instance for what must eventually happen.  A behaviour picks one    *)
(* part and runs it alone: the states of the run are the sum of those of   *)
(* the parts, not the product, and the fairness that the module of a part  *)
(* states is assumed where that part runs.                                 *)
(***************************************************************************)
EXTENDS LaunchSession, Sequences, TLC

CONSTANTS Client,            \* a viewer, with what each part keeps of it
          Viewer, HostAudio, Real,
          Nothing, Virtual, NoSink

VARIABLES part,
          \* PacketQueues
          post, queue, holders, sender, sending, session, broadcast, shutdown, probe, muted,
          broken,
          \* AudioCapture
          default, ctx, listening, assigned, audio, changed, watches, stopped, lost, crashes,
          \* CaptureAsync
          context, handles, ctxQueue, reinit, displayWp, capture, ctxs, disp, opened,
          switch, viewer, shutdownRaised, images, held, encoded, teardown, crashed,
          \* TaskPool
          now, tasks, timers, at, submitted, continue, late, lock, pc, wake, cur

Packets == INSTANCE PacketQueues WITH
  Session <- Client, MaxPackets <- 1, ProbeOverlaps <- FALSE, MayFail <- TRUE,
  crashed <- broken

Audio == INSTANCE AudioCapture WITH
  Listener <- Client, MaxCrash <- 0, handles <- listening

Capture == INSTANCE CaptureAsync WITH
  MaxDisplay <- 2, ImagesHoldDisplay <- TRUE, AsyncTeardown <- TRUE

\* One worker, as the host has, and delay() called too.
Pool == INSTANCE TaskPool WITH
  Task <- Client, Worker <- Viewer, NoTask <- Nothing, NoOne <- Nothing, MaxTime <- 2,
  MayDelay <- TRUE

packetVars == <<post, queue, holders, sender, sending, session, broadcast, shutdown, probe,
                muted, broken>>
audioVars == <<default, ctx, listening, assigned, audio, changed, watches, stopped, lost,
               crashes>>
captureVars == <<context, handles, ctxQueue, reinit, displayWp, capture, ctxs, disp,
                 opened, switch, viewer, shutdownRaised, images, held, encoded, teardown,
                 crashed>>

poolVars == <<now, tasks, timers, at, submitted, continue, late, lock, pc, wake, cur>>

liveVars == <<part, vars, packetVars, audioVars, captureVars, poolVars>>

LiveInit == /\ part \in {"launch", "packets", "audio", "capture", "pool"}
            /\ Init /\ Packets!Init /\ Audio!Init /\ Capture!Init /\ Pool!Init

LiveNext ==
  /\ UNCHANGED part
  /\ \/ /\ part = "launch" /\ Next
        /\ UNCHANGED <<packetVars, audioVars, captureVars, poolVars>>
     \/ /\ part = "packets" /\ Packets!Next
        /\ UNCHANGED <<vars, audioVars, captureVars, poolVars>>
     \/ /\ part = "audio" /\ Audio!Next
        /\ UNCHANGED <<vars, packetVars, captureVars, poolVars>>
     \/ /\ part = "capture" /\ Capture!Next
        /\ UNCHANGED <<vars, packetVars, audioVars, poolVars>>
     \/ /\ part = "pool" /\ Pool!Next
        /\ UNCHANGED <<vars, packetVars, audioVars, captureVars>>

-----------------------------------------------------------------------------
(* The fairness the modules state: each conjunct only where its part runs. *)

LaunchFair == /\ WF_vars(part = "launch" /\ RaiseEvent)
              /\ WF_vars(part = "launch" /\ RaiseArm)
              /\ WF_vars(part = "launch" /\ TimerExpires)
              /\ WF_vars(part = "launch" /\ TimerHandler)
              /\ WF_vars(part = "launch" /\ ClearCancel)
              /\ WF_vars(part = "launch" /\ ClearPop)

Sends == part = "packets" /\ ~broken

PacketsFair ==
  /\ \A k \in {"video", "audio"} : /\ WF_packetVars(Sends /\ Packets!Cleanup(k))
                                   /\ WF_packetVars(Sends /\ Packets!SenderStep(k))
  /\ WF_packetVars(Sends /\ Packets!EndBroadcast)
  /\ \A s \in Client : WF_packetVars(Sends /\ Packets!Clear(s))

AudioFair == \A s \in Client : WF_audioVars(part = "audio" /\ Audio!AudioStep(s))

Captures == part = "capture" /\ ~crashed

CaptureFair == /\ WF_captureVars(Captures /\ Capture!CaptureThread)
               /\ WF_captureVars(Captures /\ Capture!TeardownDone)
               /\ \A v \in Viewer : WF_captureVars(Captures /\ Capture!ViewerStep(v))

PoolFair == /\ WF_poolVars(part = "pool" /\ Pool!Tick)
            /\ \A w \in Viewer : SF_poolVars(part = "pool" /\ Pool!WorkerStep(w))

LiveSpec == /\ LiveInit /\ [][LiveNext]_liveVars
            /\ LaunchFair /\ PacketsFair /\ AudioFair /\ CaptureFair /\ PoolFair

-----------------------------------------------------------------------------
(* The properties of the parts *)

\* Every part stays in its types.
LiveTypeOK ==
  CASE part = "launch" -> TypeOK
    [] part = "packets" -> Packets!TypeOK
    [] part = "audio" -> Audio!TypeOK
    [] part = "capture" -> Capture!TypeOK
    [] part = "pool" -> Pool!TypeOK

\* PacketQueues: a context that is told to end ends.  AudioCapture: the audio
\* thread of a stopped session ends.  CaptureAsync: its video thread ends after
\* the capture thread has, and after the session was stopped.  TaskPool: a task
\* that is due is run or cancelled, unless the pool is stopped.
WorkEnds == /\ Packets!ContextEnds /\ Audio!StoppedListenerEnds
            /\ Capture!DeadThreadEndsViewers /\ Capture!StoppedViewerEnds
            /\ Pool!DueRuns
=============================================================================
