------------------------------- MODULE MediaMC -------------------------------
(***************************************************************************)
(* One instance for what must never happen on the media path.  A behaviour *)
(* picks one of the parts and runs it alone, so the states of the run are  *)
(* the sum of theirs, not the product.                                     *)
(***************************************************************************)
EXTENDS SharedRef, Integers, Sequences, TLC

CONSTANTS Viewer,            \* the sessions' video threads; the sessions of PacketQueues
          MaxDisplay, ImagesHoldDisplay, AsyncTeardown, MaxPackets,
          Listener, HostAudio, Real, Nothing, Virtual, NoSink, MaxCrash,
          Host,              \* the sessions of StreamSession
          NoSession, NoOne

\* Not more video threads than capture_ctx_queue takes.
ASSUME MediaAssumption ==
  /\ IsFiniteSet(Viewer) /\ Cardinality(Viewer) <= 30
  /\ Viewer \intersect {"sender", "ender", "prober"} = {}
  /\ MaxDisplay \in Nat /\ MaxPackets \in Nat \ {0} /\ MaxCrash \in Nat
  /\ Virtual \notin Real /\ NoSink \notin Real \union {Virtual}
  /\ IsFiniteSet(Host) /\ Host # {} /\ NoSession \notin Host
  /\ NoOne \notin {"rtsp", "main", "http"}

VARIABLES part,
          \* StreamSession
          state, shutdownEvent, controlEnd, peer, deadline, thread, silent, slots,
          slotsLock, clear, rtsp, main, launched, streaming, refs, broadcastShutdown,
          senders, sessions, control, runningSessions, sessionState, proc, exiting, aborted,
          \* CaptureAsync
          context, handles, ctxQueue, reinit, displayWp, capture, ctxs, disp, opened,
          switch, viewer, shutdownRaised, images, held, encoded, teardown, crashed,
          \* PacketQueues
          post, queue, holders, sender, sending, session, broadcast, shutdown, probe,
          muted, broken,
          \* AudioCapture
          default, ctx, listening, assigned, audio, changed, watches, stopped, lost, crashes

\* One session and whatever can happen to it.
Sessions == INSTANCE StreamSessionProof WITH
  Session <- Host, CertOf <- [s \in Host |-> "cert"],
  HttpModes <- {"launch", "resume", "stopping", "cancel", "cert"},
  AppMayExit <- TRUE, MayGoSilent <- {}, MayShutDown <- TRUE,
  broadcast <- streaming, shutdown <- exiting

Capture == INSTANCE CaptureProof

Packets == INSTANCE PacketQueues WITH
             Session <- Viewer, ProbeOverlaps <- FALSE, MayFail <- TRUE,
             crashed <- broken

Audio == INSTANCE AudioCapture WITH handles <- listening

sessionVars == <<state, shutdownEvent, controlEnd, peer, deadline, thread, silent, slots,
                 slotsLock, clear, rtsp, main, launched, streaming, refs,
                 broadcastShutdown, senders, sessions, control, runningSessions,
                 sessionState, proc, exiting, aborted>>
captureVars == <<context, handles, ctxQueue, reinit, displayWp, capture, ctxs, disp,
                 opened, switch, viewer, shutdownRaised, images, held, encoded,
                 teardown, crashed>>
packetVars == <<post, queue, holders, sender, sending, session, broadcast, shutdown,
                probe, muted, broken>>
audioVars == <<default, ctx, listening, assigned, audio, changed, watches, stopped, lost,
               crashes>>

mediaVars == <<part, vars, sessionVars, captureVars, packetVars, audioVars>>

MediaInit == /\ part \in {"shared", "sessions", "capture", "packets", "audio"}
             /\ Init /\ Sessions!Init /\ Capture!Init /\ Packets!Init /\ Audio!Init

MediaNext ==
  /\ UNCHANGED part
  /\ \/ /\ part = "shared" /\ Next
        /\ UNCHANGED <<sessionVars, captureVars, packetVars, audioVars>>
     \/ /\ part = "sessions" /\ Sessions!Next
        /\ UNCHANGED <<vars, captureVars, packetVars, audioVars>>
     \/ /\ part = "capture" /\ Capture!Next
        /\ UNCHANGED <<vars, sessionVars, packetVars, audioVars>>
     \/ /\ part = "packets" /\ Packets!Next
        /\ UNCHANGED <<vars, sessionVars, captureVars, audioVars>>
     \/ /\ part = "audio" /\ Audio!Next
        /\ UNCHANGED <<vars, sessionVars, captureVars, packetVars>>

MediaSpec == MediaInit /\ [][MediaNext]_mediaVars

\* Only capture.
CaptureSpec == MediaInit /\ part = "capture" /\ [][MediaNext]_mediaVars

Symmetry == Permutations(Viewer) \union Permutations(Real)

-----------------------------------------------------------------------------
(* The properties of the parts *)

\* StreamSession: with a cancel, an unpairing, the end of the application or a
\* shutdown at any moment, no thread outlives what it uses and no context
\* starts with the end of its predecessor.
SessionIsSafe == /\ part = "sessions" => /\ Sessions!TypeOK /\ Sessions!NoDanglingControl
                                         /\ Sessions!ThreadsBacked
                                         /\ Sessions!FreshBroadcast
                 /\ part = "shared" => TypeOK

\* CaptureAsync: no encoder waits on a capture thread that is gone, the event
\* that makes the encoders let go is cleared, and no image of a display that
\* was replaced is encoded.  AudioCapture: while nobody streams, the default
\* device is a real one.
CaptureIsSafe == /\ part = "capture" => /\ Capture!TypeOK /\ Capture!DeadThreadStopsAll
                                        /\ Capture!ReinitIsPassing
                                        /\ Capture!NoStaleImage
                 /\ part = "audio" => Audio!TypeOK /\ Audio!DeviceGivenBack
                 /\ part = "packets" => Packets!TypeOK

\* PacketQueues: a packet thread never starts on the queue of its predecessor.
FreshQueue == Packets!FreshQueue
=============================================================================
