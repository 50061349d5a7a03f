----------------------------- MODULE Discovery -----------------------------
(***************************************************************************)
(* How a client finds the host: the ports that the thread of upnp.cpp maps *)
(* on the router and maps again every two minutes, and the name that       *)
(* platf::publish registers with the mDNS responder (publish.cpp): Avahi   *)
(* on Linux, where callbacks run on a polling thread, dnsapi.dll on        *)
(* Windows, dns_sd on macOS.  main() starts both on threads of their own   *)
(* and waits for them when it ends (HostLife).                             *)
(*                                                                         *)
(* A router is what it answers: does it take a lease, an indefinite        *)
(* mapping only, or nothing; may one delete what another host mapped; does *)
(* it say what is mapped, refuse to, or fail.                              *)
(***************************************************************************)
EXTENDS Naturals, Sequences, FiniteSets

CONSTANTS Port,         \* mappings, 1..n; {}: the option upnp is off
          Routers,      \* [adds, deletes, looks]
          Responders,   \* who answers for mDNS: none, avahi, dnsapi, dnssd
          LastName,     \* alternative_service_name() is called so often at most
          MaxChange     \* bound: what happens on the network

VARIABLES shutdown,     \* the event mail::shutdown
          changes,
          \* UPnP
          router, igd,  \* the gateway, and whether it answers now
          entry,        \* entry[p]: free, lease, static (ours), user (to us, by the user), other
          upnp,         \* where upnp_thread_proc() is
          next,         \* the mapping it is at
          mapped,       \* its local of that name
          missed,       \* the last discovery failed
          cut,          \* the shutdown ended the last round
          steady,       \* nothing happened on the network since the round began
          \* mDNS
          responder,
          daemon,       \* Avahi: down, registering, running, collision
          host,         \* the host name it has, counted
          taken,        \* the service names that others have
          events,       \* callbacks that the polling thread has yet to make
          loop,         \* publish: none, running, quit (asked to), ended
          group,        \* the entry group: none, empty, filled
          name,         \* the service name: the n-th alternative
          found         \* what is published: <<name, host>>, or <<>>

portVars == <<router, igd, entry, upnp, next, mapped, missed, cut, steady>>
nameVars == <<responder, daemon, host, taken, events, loop, group, name, found>>
discoveryVars == <<shutdown, changes, portVars, nameVars>>

TypeOK ==
  /\ {shutdown, igd, mapped, missed, cut, steady} \subseteq BOOLEAN /\ changes \in 0..MaxChange
  /\ router \in Routers
  /\ entry \in [Port -> {"free", "lease", "static", "user", "other"}]
  /\ upnp \in {"off", "discover", "map", "done", "wait", "unmap", "ended"}
  /\ next \in 1..(Cardinality(Port) + 1)
  /\ responder \in Responders /\ daemon \in {"down", "registering", "running", "collision"}
  /\ host \in 0..(MaxChange + 1) /\ taken \subseteq 0..LastName
  /\ events \in Seq({"running", "registering", "collision", "failure", "established", "taken"})
  /\ loop \in {"none", "running", "quit", "ended"}
  /\ group \in {"none", "empty", "filled"} /\ name \in 0..LastName
  /\ found = <<>> \/ found \in (0..LastName) \X (0..(MaxChange + 1))

Init ==
  /\ shutdown = FALSE /\ changes = 0
  /\ router \in Routers /\ igd \in BOOLEAN
  /\ entry \in [Port -> {"free", "user", "other"}]
  /\ upnp = "off" /\ next = 1 /\ mapped = FALSE /\ missed = FALSE /\ cut = FALSE /\ steady = TRUE
  /\ responder \in Responders /\ daemon \in {"down", "registering", "running"}
  /\ host = 0 /\ taken \in SUBSET (0..(LastName - 1)) /\ events = <<>>
  /\ loop = "none" /\ group = "none" /\ name = 0 /\ found = <<>>

Shutdown == /\ ~shutdown /\ shutdown' = TRUE
            /\ UNCHANGED <<changes, portVars, nameVars>>

-----------------------------------------------------------------------------
(* Faulty variants, only there to show that the properties can fail *)

\* The round that the shutdown ended does not count.
RoundEndsUnlessCut ==
  /\ upnp = "done" /\ upnp' = "wait" /\ mapped' = (mapped \/ ~cut)
  /\ UNCHANGED <<shutdown, changes, router, igd, entry, next, missed, cut, steady, nameVars>>

\* The group keeps its entries when the host loses its name.
KeepGroup == UNCHANGED <<group, found>>

-----------------------------------------------------------------------------
(* UPnP *)

upnpRest == <<shutdown, changes, router, igd, nameVars>>

\* upnp::start()
UpnpStart ==
  /\ upnp = "off" /\ Port # {}
  /\ upnp' = "discover"
  /\ UNCHANGED <<upnpRest, entry, next, mapped, missed, cut, steady>>

\* upnpDiscover() and UPNP_GetValidIGD(): `continue` goes to the wait.
Discover ==
  /\ upnp = "discover"
  /\ IF igd THEN upnp' = "map" /\ next' = 1 /\ steady' = TRUE /\ UNCHANGED mapped
            ELSE upnp' = "wait" /\ mapped' = FALSE /\ UNCHANGED <<next, steady>>
  /\ missed' = ~igd /\ cut' = FALSE
  /\ UNCHANGED <<upnpRest, entry>>

\* UPNP_AddPortMapping(), and once more without a lease when that fails.
Added(indefinite) ==
  CASE router.adds = "none" -> {}
    [] router.adds = "lease" /\ ~indefinite -> {"lease"}
    [] OTHER -> {"static"}

\* map_upnp_port(): what is at a port before and after.
MapPort(before) ==
  LET put(indefinite) == IF Added(indefinite) = {} THEN {before} ELSE Added(indefinite) IN
  IF router.looks # "yes"
    THEN IF before = "other" THEN {before} ELSE put(router.looks = "fails")
  ELSE CASE before \in {"static", "user"} -> {before}
         [] before = "other" -> IF ~router.deletes THEN {before}
                                ELSE IF router.adds = "none" THEN {"free"} ELSE Added(FALSE)
         [] OTHER -> put(FALSE)

\* One port of the loop; a router that went away answers nothing.
MapNext ==
  /\ upnp = "map" /\ next \in Port /\ ~shutdown
  /\ IF igd THEN \E after \in MapPort(entry[next]) : entry' = [entry EXCEPT ![next] = after]
            ELSE UNCHANGED entry
  /\ next' = next + 1
  /\ UNCHANGED <<upnpRest, upnp, mapped, missed, cut, steady>>

\* The last port, or the shutdown; then the pinholes of IPv6, which are only opened.
MapEnds ==
  /\ upnp = "map" /\ (shutdown \/ next \notin Port)
  /\ upnp' = "done" /\ cut' = (next \in Port)
  /\ UNCHANGED <<upnpRest, entry, next, mapped, missed, steady>>

RoundEnds ==
  /\ upnp = "done" /\ upnp' = "wait" /\ mapped' = TRUE
  /\ UNCHANGED <<upnpRest, entry, next, missed, cut, steady>>

\* view(REFRESH_INTERVAL): again, or out.
Wait ==
  /\ upnp = "wait"
  /\ upnp' = IF ~shutdown THEN "discover" ELSE IF mapped THEN "unmap" ELSE "ended"
  /\ next' = 1
  /\ UNCHANGED <<upnpRest, entry, mapped, missed, cut, steady>>

\* unmap_all_upnp_ports(): what is at our ports goes, whoever put it there.
UnmapNext ==
  /\ upnp = "unmap" /\ next \in Port
  /\ entry' = IF igd /\ (entry[next] # "other" \/ router.deletes)
              THEN [entry EXCEPT ![next] = "free"] ELSE entry
  /\ missed' = (missed \/ ~igd)
  /\ next' = next + 1
  /\ UNCHANGED <<upnpRest, upnp, mapped, cut, steady>>

UnmapEnds ==
  /\ upnp = "unmap" /\ next \notin Port /\ upnp' = "ended"
  /\ UNCHANGED <<upnpRest, entry, next, mapped, missed, cut, steady>>

\* On the network: the router goes away, comes back without the leases, or gives
\* a free port to another host.
NetworkChanges ==
  /\ Port # {} /\ changes < MaxChange /\ changes' = changes + 1
  /\ \/ igd /\ igd' = FALSE /\ UNCHANGED entry
     \/ /\ ~igd /\ igd' = TRUE
        /\ entry' = [p \in Port |-> IF entry[p] = "lease" THEN "free" ELSE entry[p]]
     \/ \E p \in Port : entry[p] = "free" /\ entry' = [entry EXCEPT ![p] = "other"] /\ UNCHANGED igd
  /\ steady' = FALSE
  /\ UNCHANGED <<shutdown, router, upnp, next, mapped, missed, cut, nameVars>>

-----------------------------------------------------------------------------
(* mDNS: Avahi *)

nameRest == <<shutdown, changes, portVars, responder>>

Quits == loop' = IF loop = "running" THEN "quit" ELSE loop
Add(e) == events' = Append(Tail(events), e)
Drop == events' = Tail(events)

\* create_services(): an entry group, the first name that is free on this host, and
\* its commit; whatever fails ends the polling.
CreateServices ==
  \/ Quits /\ Drop /\ UNCHANGED <<group, name, found>>
  \/ group = "filled" /\ Drop /\ UNCHANGED <<group, name, found, loop>>
  \/ /\ group # "filled" /\ daemon # "down"
     /\ \E n \in name..LastName :
          /\ name' = n /\ found' = <<n, host>>
          /\ \A m \in name..(n - 1) : m \in taken
     /\ group' = "filled" /\ UNCHANGED loop
     /\ Add(IF name' \in taken THEN "taken" ELSE "established")

ResetGroup == /\ group' = IF group = "none" THEN group ELSE "empty"
              /\ found' = IF group = "none" THEN found ELSE <<>>

\* client_callback() and entry_group_callback(), on the polling thread.
Callback ==
  /\ responder = "avahi" /\ loop = "running" /\ events # <<>>
  /\ CASE Head(events) = "running" -> CreateServices
       [] Head(events) \in {"registering", "collision"} ->
            ResetGroup /\ Drop /\ UNCHANGED <<loop, name>>
       [] Head(events) = "taken" ->
            IF group = "filled" /\ found # <<>> /\ found[1] = name /\ name < LastName
            THEN /\ name' = name + 1 /\ found' = <<name + 1, host>>
                 /\ UNCHANGED <<group, loop>>
                 /\ Add(IF name + 1 \in taken THEN "taken" ELSE "established")
            ELSE Drop /\ UNCHANGED <<loop, group, name, found>>
       [] Head(events) = "failure" -> Quits /\ Drop /\ UNCHANGED <<group, name, found>>
       [] OTHER -> Drop /\ UNCHANGED <<loop, group, name, found>>
  /\ UNCHANGED <<nameRest, daemon, host, taken>>

\* start(): without the library or the daemon nothing is published, ever.  The
\* client hears of the daemon's state as soon as it is there.
AvahiStart ==
  /\ responder = "avahi" /\ loop = "none"
  /\ \/ daemon = "down" /\ loop' = "ended" /\ UNCHANGED events
     \/ daemon # "down" /\ loop' = "running" /\ events' = <<daemon>>
  /\ UNCHANGED <<nameRest, daemon, host, taken, group, name, found>>

\* avahi_simple_poll_loop() returns.
LoopEnds ==
  /\ responder = "avahi" /\ loop = "quit" /\ loop' = "ended"
  /\ UNCHANGED <<nameRest, daemon, host, taken, events, group, name, found>>

\* The daemon: it has its name, another host has it too, it takes another, it ends
\* and is started again.  What a client registered goes with it.
DaemonChanges ==
  /\ responder = "avahi" /\ changes < MaxChange /\ changes' = changes + 1
  /\ \/ daemon = "running" /\ daemon' = "collision" /\ found' = <<>> /\ UNCHANGED host
     \/ daemon = "collision" /\ daemon' = "registering" /\ host' = host + 1 /\ UNCHANGED found
     \/ daemon # "down" /\ daemon' = "down" /\ found' = <<>> /\ UNCHANGED host
     \/ daemon = "down" /\ daemon' = "registering" /\ UNCHANGED <<host, found>>
  /\ events' = IF loop = "running" /\ daemon # "down"
               THEN Append(events, IF daemon' = "down" THEN "failure" ELSE daemon') ELSE events
  /\ UNCHANGED <<shutdown, portVars, responder, taken, loop, group, name>>

\* ENTRY_GROUP_FAILURE: the entries are withdrawn.
GroupFails ==
  /\ responder = "avahi" /\ changes < MaxChange /\ changes' = changes + 1
  /\ loop = "running" /\ group = "filled" /\ found # <<>>
  /\ found' = <<>> /\ events' = Append(events, "failure")
  /\ UNCHANGED <<shutdown, portVars, responder, daemon, host, taken, loop, group, name>>

DaemonRuns ==
  /\ responder = "avahi" /\ daemon = "registering" /\ daemon' = "running"
  /\ events' = IF loop = "running" THEN Append(events, "running") ELSE events
  /\ UNCHANGED <<nameRest, host, taken, loop, group, name, found>>

-----------------------------------------------------------------------------
(* mDNS: Windows and macOS *)

\* service(true), DNSServiceRegister(): the request is taken, or nothing is
\* published.
Register ==
  /\ responder \in {"dnsapi", "dnssd"} /\ loop = "none"
  /\ \/ loop' = "running" /\ group' = "empty"
     \/ loop' = "ended" /\ UNCHANGED group
  /\ UNCHANGED <<nameRest, daemon, host, taken, events, name, found>>

\* register_cb(), which the starting thread waits for, or registrationCallback().
Registered ==
  /\ responder \in {"dnsapi", "dnssd"} /\ loop = "running" /\ group = "empty"
  /\ \/ group' = "filled" /\ found' = <<name, host>> /\ UNCHANGED loop
     \/ loop' = "ended" /\ UNCHANGED <<group, found>>
  /\ UNCHANGED <<nameRest, daemon, host, taken, events, name>>

\* The destructors: the polling ends and its thread is joined, or the instance is
\* taken back, which Windows may refuse.  On Windows none starts before the alarm
\* of the registration rang.
Deinit ==
  /\ shutdown
  /\ \/ responder = "avahi" /\ loop = "running" /\ loop' = "quit" /\ UNCHANGED <<group, found>>
     \/ responder = "dnsapi" /\ loop = "running" /\ group = "filled" /\ loop' = "ended"
        /\ \/ group' = "none" /\ found' = <<>>
           \/ UNCHANGED <<group, found>>
     \/ responder = "dnssd" /\ loop = "running" /\ loop' = "ended"
        /\ group' = "none" /\ found' = <<>>
  /\ UNCHANGED <<nameRest, daemon, host, taken, events, name>>

Next ==
  \/ Shutdown
  \/ UpnpStart \/ Discover \/ MapNext \/ MapEnds \/ RoundEnds \/ Wait
  \/ UnmapNext \/ UnmapEnds \/ NetworkChanges
  \/ AvahiStart \/ Callback \/ LoopEnds \/ DaemonChanges \/ GroupFails
  \/ DaemonRuns
  \/ Register \/ Registered \/ Deinit

Spec == Init /\ [][Next]_discoveryVars

-----------------------------------------------------------------------------
(* Properties *)

\* When the thread has ended no mapping of ours is left on a router that answered
\* its last discovery and was there until the end, also when the shutdown came in
\* the middle of a round.  After a discovery that failed nothing is unmapped.
NoneStays == upnp = "ended" /\ ~missed => \A p \in Port : entry[p] \notin {"lease", "static"}

\* A mapping that never ends is only made on a router that takes no other, or that
\* answers with a strange error.
StaticIsForOld ==
  \A p \in Port : entry[p] = "static" => router.adds = "static" \/ router.looks = "fails"

\* After a round on a quiet network every port is ours, unless the router takes no
\* mapping or does not let go of another host's.
AllAreMapped ==
  upnp = "wait" /\ ~missed /\ ~cut /\ steady /\ router.adds # "none" =>
    \A p \in Port : /\ entry[p] # "free"
                    /\ entry[p] = "other" => ~router.deletes \/ router.looks # "yes"

\* While Avahi is polled and all callbacks are made, the host is published under the
\* host name that it has now and a service name that nobody else has.
FoundByName ==
  loop = "running" /\ responder = "avahi" /\ daemon = "running" /\ events = <<>> =>
    found = <<name, host>> /\ name \notin taken
=============================================================================
