------------------------------- MODULE FrontMC -------------------------------
(***************************************************************************)
(* One instance for what stands between Sunshine and the outside: the      *)
(* window and the Windows service that keep it, the life of its process,   *)
(* its requests, shards and first datagrams on the network, the router and *)
(* the responder that lead clients to it.                                  *)
(* A behaviour picks one part and runs it alone, so the states of the run  *)
(* are the sum of theirs.                                                  *)
(***************************************************************************)
EXTENDS Integers, Sequences

CONSTANTS Desktop, NoDesktop

VARIABLES part,
          \* MirrorWindow
          asked, pending, retry, expired, polling, page, loading, pair, connect, pin,
          pinError, svcClose, closing, gone,
          \* ServiceHost
          scm, stopEvent, sessionEvent, pc, own, console, child, home, desired, exitCode,
          armed, shortcut, quitting, launches, moves,
          \* RtspServer
          rtspPending, raised, conn, codecs, probes, mandatory, told, slots, accepting,
          \* FrameShards
          kind, frame, blocks, lowseq, highest, frames, sequence, ring, base, parity,
          \* PingRoutes
          phase, endpoint, messages, queue, routes, socket, buf, peer, pings,
          \* HostLife
          main, life, guard, sees, lifeArmed, handler, signals, shutdown, pool, forced,
          trayReady, trayLoop, server, finder,
          \* Discovery
          portsShutdown, changes, router, igd, entry, upnp, next, mapped, missed, cut,
          steady, responder, daemon, host, taken, events, loop, group, name,
          found

-----------------------------------------------------------------------------
Request(cmd, head, body, declared, good) ==
  [cmd |-> cmd, head |-> head, body |-> body, declared |-> declared, good |-> good]

\* What clients send: with no body, with one that is as long as declared, or
\* shorter, or that is not understood.
PlainRequests ==
  {Request("DESCRIBE", 1, 0, 0, TRUE), Request("SETUP", 2, 0, 0, TRUE),
   Request("PLAY", 5, 0, 0, TRUE), Request("ANNOUNCE", 1, 2, 2, TRUE),
   Request("ANNOUNCE", 1, 1, 2, TRUE), Request("ANNOUNCE", 2, 3, 3, TRUE),
   Request("ANNOUNCE", 1, 1, 1, FALSE)}
SealedRequests == {Request("ANNOUNCE", 1, 1, 1, TRUE), Request("ANNOUNCE", 2, 3, 3, TRUE)}

\* Frames at the edges of a shard, of a block and of the largest frame with parity.
FrameSizes == (1..6) \union {141, 142, 143, 423, 424, 425, 426, 848, 849, 1272, 1696, 1697, 2041, 4000}

\* A legacy client and another of the same address.
HomeOf == <<1, 1>>
PingWaiters == {<<1, "video">>, <<1, "audio">>, <<2, "video">>}

(* The routers *)

AllRouters == [adds: {"lease", "static", "none"}, deletes: BOOLEAN,
               looks: {"yes", "refused", "fails"}]
OneRouter == {[adds |-> "lease", deletes |-> TRUE, looks |-> "yes"]}

-----------------------------------------------------------------------------
Window == INSTANCE MirrorWindow WITH
  MaxRequest <- 1, Answers <- {"ok", "refused"}

Quiet == INSTANCE MirrorWindow WITH
  MaxRequest <- 1, Answers <- {"ok"}

Late == INSTANCE MirrorWindow WITH
  MaxRequest <- 2, Answers <- {"refused", "timeout"}

Host == INSTANCE ServiceHost WITH
  MaxLaunch <- 2, MaxMove <- 2

Plain == INSTANCE RtspServer WITH
  Conn <- {1}, Launch <- {11, 12}, NoLaunch <- 0, Sealed <- {}, Requests <- PlainRequests,
  Capacity <- 6, Needle <- 2, MayCut <- FALSE, MaxProbe <- 1, MaxSession <- 1,
  pending <- rtspPending

Crypt == INSTANCE RtspServer WITH
  Conn <- {1}, Launch <- {11, 12, 13}, NoLaunch <- 0, Sealed <- {12, 13},
  Requests <- SealedRequests, Capacity <- 6, Needle <- 2, MayCut <- FALSE,
  MaxProbe <- 0, MaxSession <- 1, pending <- rtspPending

Shards == INSTANCE FrameShards WITH
  Sizes <- FrameSizes, Percentages <- {1, 20, 255}, Minimums <- {0, 2}, Block <- 3,
  Header <- 1, ShardsMax <- 255, MaxBlocks <- 4, Group <- 4, Wrap <- 16, MaxFrame <- 2,
  MayThrow <- FALSE

Lossy == INSTANCE FrameShards WITH
  Sizes <- FrameSizes, Percentages <- {1, 20, 255}, Minimums <- {0, 2}, Block <- 3,
  Header <- 1, ShardsMax <- 255, MaxBlocks <- 4, Group <- 4, Wrap <- 16, MaxFrame <- 1,
  MayThrow <- TRUE

Routes == INSTANCE PingRoutes WITH
  Session <- {1, 2}, Legacy <- {1}, Waiters <- PingWaiters, Home <- HomeOf,
  Capacity <- 30, Overlap <- FALSE, MaxPing <- 2

Tray == INSTANCE HostLife WITH
  Windows <- FALSE, WithTray <- TRUE, MaxSignal <- 2, armed <- lifeArmed

Headless == INSTANCE HostLife WITH
  Windows <- FALSE, WithTray <- FALSE, MaxSignal <- 2, armed <- lifeArmed

OnDesktop == INSTANCE HostLife WITH
  Windows <- TRUE, WithTray <- TRUE, MaxSignal <- 2, armed <- lifeArmed

Ports == INSTANCE Discovery WITH
  Port <- {1, 2}, Routers <- AllRouters, Responders <- {"none"}, LastName <- 0,
  MaxChange <- 2, shutdown <- portsShutdown

Names == INSTANCE Discovery WITH
  Port <- {}, Routers <- OneRouter, Responders <- {"avahi", "dnsapi", "dnssd"},
  LastName <- 2, MaxChange <- 3, shutdown <- portsShutdown

windowVars == <<asked, pending, retry, expired, polling, page, loading, pair, connect, pin, pinError,
                svcClose, closing, gone>>
serviceVars == <<scm, stopEvent, sessionEvent, pc, own, console, child, home, desired, exitCode, armed,
                 shortcut, quitting, launches, moves>>
rtspVars == <<rtspPending, raised, conn, codecs, probes, mandatory, told, slots, accepting>>
shardsVars == <<kind, frame, blocks, lowseq, highest, frames, sequence, ring, base, parity>>
routesVars == <<phase, endpoint, messages, queue, routes, socket, buf, peer, pings>>
lifeVars == <<main, life, guard, sees, lifeArmed, handler, signals, shutdown, pool, forced,
              trayReady, trayLoop, server, finder>>
portsVars == <<portsShutdown, changes, router, igd, entry, upnp, next, mapped, missed, cut, steady,
               responder, daemon, host, taken, events, loop, group, name, found>>

frontVars == <<part, windowVars, serviceVars, rtspVars, shardsVars, routesVars, lifeVars, portsVars>>

FrontInit ==
  /\ part \in {"window", "quiet", "late", "service", "rtsp", "sealed", "shards", "lossy", "routes",
               "life", "headless", "desktop", "ports", "names"}
  /\ Window!Init
  /\ Host!Init /\ (part # "service" => console = NoDesktop)
  /\ (IF part = "sealed" THEN Crypt!Init ELSE Plain!Init)
  /\ part \notin {"rtsp", "sealed"} => codecs = {"h264"} /\ mandatory
  /\ Shards!Init /\ (part \notin {"shards", "lossy"} => kind = "video")
  /\ Routes!Init
  /\ Tray!Init
  /\ IF part = "names" THEN Names!Init ELSE Ports!Init /\ (part # "ports" => router \in OneRouter /\ igd /\ entry = <<"free", "free">> /\ daemon = "down")

\* The parts that do not run stay as they are.
Others ==
  /\ part \notin {"window", "quiet", "late"} => UNCHANGED windowVars
  /\ part # "service" => UNCHANGED serviceVars
  /\ part \notin {"rtsp", "sealed"} => UNCHANGED rtspVars
  /\ part \notin {"shards", "lossy"} => UNCHANGED shardsVars
  /\ part # "routes" => UNCHANGED routesVars
  /\ part \notin {"life", "headless", "desktop"} => UNCHANGED lifeVars
  /\ part \notin {"ports", "names"} => UNCHANGED portsVars

FrontNext ==
  /\ UNCHANGED part
  /\ \/ part = "window" /\ Window!Next
     \/ part = "quiet" /\ Quiet!Next
     \/ part = "late" /\ Late!Next
     \/ part = "service" /\ Host!Next
     \/ part = "rtsp" /\ Plain!Next
     \/ part = "sealed" /\ Crypt!Next
     \/ part = "shards" /\ Shards!Next
     \/ part = "lossy" /\ Lossy!Next
     \/ part = "routes" /\ Routes!Next
     \/ part = "life" /\ Tray!Next
     \/ part = "headless" /\ Headless!Next
     \/ part = "desktop" /\ OnDesktop!Next
     \/ part = "ports" /\ Ports!Next
     \/ part = "names" /\ Names!Next
  /\ Others

\* Requests and timers of the window end, and the service goes on.
FrontFair ==
  /\ WF_windowVars(\/ part = "window" /\ \E how \in {"ok", "refused"} : Window!PasswordDone(how)
                   \/ part = "late" /\ \E how \in {"refused", "timeout"} : Late!PasswordDone(how))
  /\ WF_windowVars(part = "window" /\ \E how \in {"ok", "refused"} : Window!ListDone(how))
  /\ WF_windowVars(part \in {"window", "late"} /\ Window!Expire)
  /\ WF_windowVars((part = "window" /\ Window!Retry) \/ (part = "late" /\ Late!Retry))
  /\ WF_windowVars(part \in {"window", "late"} /\ Window!CloseTimer)
  /\ WF_serviceVars(part = "service" /\ Host!Service)
  /\ WF_lifeVars(\/ part = "life" /\ Tray!Main
                 \/ part = "headless" /\ Headless!Main
                 \/ part = "desktop" /\ OnDesktop!Main)
  /\ WF_lifeVars(\/ part = "life" /\ Tray!Threads
                 \/ part = "headless" /\ Headless!Threads
                 \/ part = "desktop" /\ OnDesktop!Threads)
  /\ WF_lifeVars(\/ part = "life" /\ Tray!Handlers
                 \/ part = "headless" /\ Headless!Handlers
                 \/ part = "desktop" /\ OnDesktop!Handlers)
  /\ WF_lifeVars(\/ part = "life" /\ Tray!Trap
                 \/ part = "headless" /\ Headless!Trap
                 \/ part = "desktop" /\ OnDesktop!Trap)

FrontSpec == FrontInit /\ [][FrontNext]_frontVars /\ FrontFair

-----------------------------------------------------------------------------
(* The properties of the parts *)

\* ServiceHost and MirrorWindow: Sunshine is where the user is, and the window
\* shows what Sunshine said.  HostLife: a process that ends leaves the displays as
\* the user has them, and nothing of itself.
UserIsServed ==
  /\ part = "service" => Host!TypeOK /\ Host!InConsole /\ Host!NoOrphan
  /\ part = "window" => Window!TypeOK
  /\ part = "late" => Late!TypeOK
  /\ part = "quiet" => Quiet!TypeOK /\ Quiet!PageFollowsState
  /\ part = "life" => Tray!TypeOK /\ Tray!GivenBack /\ Tray!NoneIsLeft
  /\ part = "headless" => Headless!TypeOK /\ Headless!GivenBack /\ Headless!NoneIsLeft
  /\ part = "desktop" => OnDesktop!TypeOK /\ OnDesktop!NoneIsLeft

\* MirrorWindow: the loading dialog ends.  ServiceHost: a service that is told to
\* stop stops.  HostLife: an interrupt ends the process, and so does a server that
\* cannot start.
FrontSettles ==
  /\ part \in {"window", "late"} => Window!LoadingEnds
  /\ part = "service" => Host!StopStops
  /\ part \in {"life", "headless"} => Tray!AskedEnds
  /\ part = "headless" => Headless!FailureEnds
  /\ part = "desktop" => OnDesktop!AskedEnds /\ OnDesktop!FailureEnds

\* RtspServer: whole requests are answered, a sealed launch opens only for its
\* own client, and a session gets a codec that the encoder has, and an answer.
RequestsAreServed ==
  /\ [](part = "rtsp" => Plain!TypeOK /\ Plain!WholeIsHandled)
  /\ [](part = "sealed" => Crypt!TypeOK /\ Crypt!SealedIsOwn)
  /\ [][part = "rtsp" => Plain!SlotTold]_rtspVars

\* FrameShards: the client can put the frame together from its shards, and the
\* audio from its groups, and the numbers of the shards follow one another.
FrameIsWhole ==
  /\ [](part = "shards" => /\ Shards!TypeOK /\ Shards!Whole
                            /\ Shards!BlocksFit /\ Shards!ParityIsOfGroup)
  /\ [][part = "shards" => Shards!SequenceStep]_shardsVars

\* PingRoutes: a session that waits is found, no other is, and it sends to its
\* own client.  Discovery: the ports of the host lead to it, as long as it is there,
\* and its name is its own.
RoutesAreTrue ==
  /\ part = "routes" => /\ Routes!TypeOK
                     /\ Routes!Routed /\ Routes!RouteHasWaiter /\ Routes!PeerIsOwn
  /\ part = "ports" => /\ Ports!TypeOK
                       /\ Ports!NoneStays /\ Ports!StaticIsForOld /\ Ports!AllAreMapped
  /\ part = "names" => Names!TypeOK /\ Names!FoundByName
=============================================================================
