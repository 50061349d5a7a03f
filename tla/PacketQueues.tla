----------------------------- MODULE PacketQueues -----------------------------
(***************************************************************************)
(* The two queues of encoded packets on the process-wide post office       *)
(* (mail::man of thread_safe.h): the encoders of every session fill them,  *)
(* the packet threads of the broadcast context (stream.cpp) empty them,    *)
(* and the probing of encoders (video.cpp) borrows the one for video.      *)
(* The post office only has weak pointers: a queue lives as long as some   *)
(* thread has a handle on it, and a queue that was stopped stays stopped,  *)
(* so it has to be gone before the next context asks for it.               *)
(*                                                                         *)
(* External: the sessions' own life (StreamSession), here their start and  *)
(* end, and the encoders.                                                  *)
(***************************************************************************)
EXTENDS Integers, Sequences, Mailbox

CONSTANTS Session,
          MaxPackets,        \* max_elements of the queues, 32 in the code
          ProbeOverlaps,     \* another client's launch may probe meanwhile
          MayFail            \* opus_multistream_encode_float may fail

Kind == {"video", "audio"}
Thread == Session \union {"sender", "ender", "prober"}

VARIABLES
  post,                      \* post[k]: "none", "live", or "dying"
  queue,                     \* the queue of a post that is live
  holders,                   \* the threads with a handle on it
  sender,                    \* videoBroadcastThread and audioBroadcastThread
  sending,                   \* whose packet each of them works on
  session,                   \* "none", "encoding", "ended", "destroyed"
  broadcast,                 \* "down", "up", or where end_broadcast() is
  shutdown,                  \* broadcast_shutdown is raised
  probe,                     \* probe_encoders() on an HTTP thread
  muted,                     \* the audio queue was stopped by a failed encoder
  crashed                    \* somebody uses a null queue

vars == <<post, queue, holders, sender, sending, session, broadcast, shutdown,
          probe, muted, crashed>>

EndPC == {"raise", "ask", "stop", "drop", "join"}
SenderPC == {"off", "ask", "pop", "send", "exit"}

TypeOK ==
  /\ post \in [Kind -> {"none", "live", "dying"}]
  /\ queue \in [Kind -> [on: BOOLEAN, items: Seq(Session \union {"prober"})]]
  /\ \A k \in Kind : Len(queue[k].items) <= MaxPackets
  /\ holders \in [Kind -> SUBSET Thread]
  /\ sender \in [Kind -> SenderPC]
  /\ sending \in [Kind -> Session \union {"prober", Nothing}]
  /\ session \in [Session -> {"none", "encoding", "ended", "destroyed"}]
  /\ broadcast \in {"down", "up"} \union EndPC
  /\ shutdown \in BOOLEAN
  /\ probe \in {"none", "ask", "encode", "pop"}
  /\ muted \in BOOLEAN /\ crashed \in BOOLEAN

Init == /\ post = [k \in Kind |-> "none"]
        /\ queue = [k \in Kind |-> NewQueue]
        /\ holders = [k \in Kind |-> {}]
        /\ sender = [k \in Kind |-> "off"]
        /\ sending = [k \in Kind |-> Nothing]
        /\ session = [s \in Session |-> "none"]
        /\ broadcast = "down" /\ shutdown = FALSE
        /\ probe = "none" /\ muted = FALSE /\ crashed = FALSE

-----------------------------------------------------------------------------
(* mail_raw_t *)

mailVars == <<post, queue, holders, muted, crashed>>

\* mail->queue(id) by thread t for each kind in K: the queue found, a new
\* one, or null when the one found is being destroyed: the callers use it.
Ask(K, t) ==
  /\ post' = [k \in Kind |-> IF k \in K /\ post[k] = "none" THEN "live" ELSE post[k]]
  /\ queue' = [k \in Kind |-> IF k \in K /\ post[k] = "none" THEN NewQueue ELSE queue[k]]
  /\ holders' = [k \in Kind |-> IF k \in K THEN holders[k] \union {t} ELSE holders[k]]
  /\ crashed' = (crashed \/ \E k \in K : post[k] = "dying")
  /\ UNCHANGED muted

\* A handle goes; with the last one the weak pointer expires.
DropHandle(K, t) ==
  /\ holders' = [k \in Kind |-> IF k \in K THEN holders[k] \ {t} ELSE holders[k]]
  /\ post' = [k \in Kind |-> IF holders[k] # {} /\ holders'[k] = {} THEN "dying"
                                                                   ELSE post[k]]
  /\ UNCHANGED <<queue, muted, crashed>>

\* ~post_t: the entry is erased.
Cleanup(k) == /\ post[k] = "dying"
              /\ post' = [post EXCEPT ![k] = "none"]
              /\ queue' = [queue EXCEPT ![k] = NewQueue]
              /\ muted' = (muted /\ k # "audio")
              /\ UNCHANGED <<holders, crashed, sender, sending, session, broadcast,
                             shutdown, probe>>

-----------------------------------------------------------------------------
(* Sessions *)

\* session::start(): the first session starts the context and its threads.
\* The encoders ask for their queues.
StartSession(s) ==
  /\ session[s] = "none" /\ broadcast \in {"down", "up"}
  /\ ProbeOverlaps \/ probe = "none"
  /\ session' = [session EXCEPT ![s] = "encoding"]
  /\ Ask(Kind, s)
  /\ IF broadcast = "down"
     THEN broadcast' = "up" /\ sender' = [k \in Kind |-> "ask"]
     ELSE UNCHANGED <<broadcast, sender>>
  /\ UNCHANGED <<sending, shutdown, probe>>

\* Faulty: the oldest packet makes room.
PutDroppingOldest(q, x) ==
  IF ~q.on THEN q
  ELSE [q EXCEPT !.items = Append(IF Len(@) > MaxPackets THEN Tail(@) ELSE @, x)]

PutPacket(q, x) == Put(q, x, MaxPackets)

Encode(s, k) == /\ session[s] = "encoding"
                /\ queue' = [queue EXCEPT ![k] = PutPacket(@, s)]
                /\ UNCHANGED <<post, holders, muted, crashed, sender, sending, session,
                               broadcast, shutdown, probe>>

\* encodeThread of audio.cpp gives up: it stops the queue of every session.
AudioFails(s) == /\ MayFail /\ session[s] = "encoding"
                 /\ queue["audio"].on
                 /\ queue' = [queue EXCEPT !["audio"] = StopQueue(@)]
                 /\ muted' = TRUE
                 /\ UNCHANGED <<post, holders, crashed, sender, sending, session,
                                broadcast, shutdown, probe>>

\* A session waits for its client's ping before it may end; the packet threads
\* have run their first line by then.
SendersStarted == \A k \in Kind : sender[k] # "ask"

\* The session's threads end, and with them their handles.
EndSession(s) == /\ session[s] = "encoding" /\ SendersStarted
                 /\ session' = [session EXCEPT ![s] = "ended"]
                 /\ DropHandle(Kind, s)
                 /\ UNCHANGED <<sender, sending, broadcast, shutdown, probe>>

\* It is joined and destroyed; the last one runs end_broadcast().
DestroySession(s) ==
  /\ session[s] = "ended" /\ broadcast = "up"
  /\ session' = [session EXCEPT ![s] = "destroyed"]
  /\ broadcast' = IF \A t \in Session \ {s} : session[t] \in {"none", "destroyed"}
                  THEN "raise" ELSE "up"
  /\ UNCHANGED <<mailVars, sender, sending, shutdown, probe>>

-----------------------------------------------------------------------------
(* end_broadcast *)

EndStep(pc, next) == broadcast = pc /\ broadcast' = next

EndRaise == /\ EndStep("raise", "ask")
            /\ shutdown' = TRUE
            /\ UNCHANGED <<mailVars, sender, sending, session, probe>>

EndAsk == /\ EndStep("ask", "stop")
          /\ Ask(Kind, "ender")
          /\ UNCHANGED <<sender, sending, session, shutdown, probe>>

\* Faulty: only the video queue is stopped.
StopVideo == [queue EXCEPT !["video"] = StopQueue(@)]

StopBoth == [k \in Kind |-> StopQueue(queue[k])]

EndStop == /\ EndStep("stop", "drop")
           /\ queue' = StopBoth
           /\ UNCHANGED <<post, holders, muted, crashed, sender, sending, session, shutdown,
                          probe>>

EndDrop == /\ EndStep("drop", "join")
           /\ DropHandle(Kind, "ender")
           /\ UNCHANGED <<sender, sending, session, shutdown, probe>>

\* Faulty: the packet threads are detached.
SendersDetached == TRUE

SendersJoined == \A k \in Kind : sender[k] = "off"

EndJoin == /\ EndStep("join", "down")
           /\ SendersJoined
           /\ shutdown' = FALSE
           /\ UNCHANGED <<mailVars, sender, sending, session, probe>>

EndBroadcast == EndRaise \/ EndAsk \/ EndStop \/ EndDrop \/ EndJoin

-----------------------------------------------------------------------------
(* videoBroadcastThread and audioBroadcastThread *)

OnlySender == UNCHANGED <<session, broadcast, probe>>

SenderAsk(k) == /\ sender[k] = "ask"
                /\ Ask({k}, "sender")
                /\ sender' = [sender EXCEPT ![k] = "pop"]
                /\ UNCHANGED <<sending, shutdown>> /\ OnlySender

\* No high-resolution timer: the thread is over, and says nothing.
TimerFails == /\ sender["video"] = "pop" /\ sending["video"] = Nothing /\ MayFail
              /\ sender' = [sender EXCEPT !["video"] = "off"]
              /\ DropHandle({"video"}, "sender")
              /\ UNCHANGED <<sending, shutdown>> /\ OnlySender

\* while (auto packet = packets->pop()) if (shutdown_event->peek()) break
SenderPop(k) ==
  /\ sender[k] = "pop" /\ (queue[k].items # <<>> \/ ~queue[k].on)
  /\ IF queue[k].on
     THEN /\ queue' = [queue EXCEPT ![k] = Taken(@)]
          /\ sending' = [sending EXCEPT ![k] = Head(queue[k].items)]
          /\ sender' = [sender EXCEPT ![k] = IF shutdown THEN "exit" ELSE "send"]
     ELSE sender' = [sender EXCEPT ![k] = "exit"] /\ UNCHANGED <<queue, sending>>
  /\ UNCHANGED <<post, holders, muted, crashed, shutdown>> /\ OnlySender

SenderSent(k) == /\ sender[k] = "send"
                 /\ sending' = [sending EXCEPT ![k] = Nothing]
                 /\ sender' = [sender EXCEPT ![k] = "pop"]
                 /\ UNCHANGED <<mailVars, shutdown>> /\ OnlySender

SenderExit(k) == /\ sender[k] = "exit"
                 /\ sender' = [sender EXCEPT ![k] = "off"]
                 /\ sending' = [sending EXCEPT ![k] = Nothing]
                 /\ shutdown' = TRUE
                 /\ DropHandle({k}, "sender")
                 /\ OnlySender

SenderStep(k) == SenderAsk(k) \/ SenderPop(k) \/ SenderSent(k) \/ SenderExit(k)

-----------------------------------------------------------------------------
(* validate_config(), called by /launch and /resume when there is no       *)
(* session: a frame is encoded into the queue and taken out again          *)

ProbeBegin == /\ probe = "none"
              /\ \A s \in Session : session[s] \in {"none", "destroyed"}
              /\ ProbeOverlaps \/ broadcast = "down"
              /\ probe' = "ask"
              /\ UNCHANGED <<mailVars, sender, sending, session, broadcast, shutdown>>

ProbeAsk == /\ probe = "ask"
            /\ Ask({"video"}, "prober")
            /\ probe' = "encode"
            /\ UNCHANGED <<sender, sending, session, broadcast, shutdown>>

\* while (!packets->peek()) if (encode(...)) return -1;
ProbeEncode ==
  /\ probe = "encode" /\ ~PeekQueue(queue["video"])
  /\ queue' = [queue EXCEPT !["video"] = PutPacket(@, "prober")]
  /\ UNCHANGED <<post, holders, muted, crashed, probe, sender, sending, session,
                 broadcast, shutdown>>

ProbeFails == /\ probe = "encode" /\ ~PeekQueue(queue["video"]) /\ MayFail
              /\ probe' = "none"
              /\ DropHandle({"video"}, "prober")
              /\ UNCHANGED <<sender, sending, session, broadcast, shutdown>>

ProbeEncoded == /\ probe = "encode" /\ PeekQueue(queue["video"])
                /\ probe' = "pop"
                /\ UNCHANGED <<mailVars, sender, sending, session, broadcast, shutdown>>

\* auto packet = packets->pop(); a queue that was stopped has none to look at.
\* The handle goes.
ProbePop == /\ probe = "pop"
            /\ PeekQueue(queue["video"]) \/ ~queue["video"].on
            /\ probe' = "none"
            /\ holders' = [holders EXCEPT !["video"] = @ \ {"prober"}]
            /\ post' = [post EXCEPT !["video"] =
                          IF holders'["video"] = {} THEN "dying" ELSE @]
            /\ queue' = [queue EXCEPT !["video"] = IF @.on THEN Taken(@) ELSE @]
            /\ crashed' = (crashed \/ ~queue["video"].on)
            /\ UNCHANGED <<muted, sender, sending, session, broadcast, shutdown>>

Probe == ProbeBegin \/ ProbeAsk \/ ProbeEncode \/ ProbeFails \/ ProbeEncoded \/ ProbePop

-----------------------------------------------------------------------------

Step == \/ \E k \in Kind : Cleanup(k) \/ SenderStep(k)
        \/ TimerFails \/ EndBroadcast \/ Probe
        \/ \E s \in Session : \/ StartSession(s) \/ AudioFails(s)
                              \/ EndSession(s) \/ DestroySession(s)
                              \/ \E k \in Kind : Encode(s, k)

Next == ~crashed /\ Step

\* Threads go on; a session whose context is shutting down is cleared by the
\* RTSP thread.
Clear(s) == shutdown /\ (EndSession(s) \/ DestroySession(s))

Fairness == /\ \A k \in Kind : WF_vars(~crashed /\ Cleanup(k)) /\ WF_vars(~crashed /\ SenderStep(k))
            /\ WF_vars(~crashed /\ EndBroadcast)
            /\ \A s \in Session : WF_vars(~crashed /\ Clear(s))

Spec == Init /\ [][Next]_vars

FairSpec == Spec /\ Fairness

-----------------------------------------------------------------------------
(* Properties *)

\* A packet thread of a new context never starts on the queue its predecessor
\* stopped: it would end at once, and the context with it.
FreshQueue == [][\A k \in Kind : sender[k] = "ask" /\ sender'[k] = "pop"
                     => queue'[k].on \/ (k = "audio" /\ muted)]_vars

\* Whoever uses a queue has a handle on it.
HeldWhileUsed ==
  ~crashed => \A k \in Kind :
    /\ sender[k] \in {"pop", "send", "exit"} => "sender" \in holders[k] /\ post[k] = "live"
    /\ \A s \in Session : session[s] = "encoding" => s \in holders[k] /\ post[k] = "live"

\* The packet at work belongs to a session that still exists.
OwnerExists == \A k \in Kind : sending[k] \in Session => session[sending[k]] # "destroyed"

\* A context that is told to end ends, whatever the packet threads were at;
\* so does one whose audio queue a failed encoder stopped.
ContextEnds ==
  /\ broadcast = "raise" ~> (broadcast = "down" \/ crashed)
  /\ broadcast = "up" /\ ~queue["audio"].on ~> (broadcast = "down" \/ crashed)
=============================================================================
