------------------------------ MODULE PingRoutes ------------------------------
(***************************************************************************)
(* How a session learns where its client receives (stream.cpp): its two    *)
(* threads wait in recv_ping() for the first datagram of the client on     *)
(* the video and on the audio socket, and recvThread() hands it to them.   *)
(* The threads say through message_queue_queue what they wait for.         *)
(***************************************************************************)
EXTENDS Integers, Sequences, FiniteSets

CONSTANTS Session, Legacy,   \* Legacy: those without ML_FF_SESSION_ID_V1
          Waiters,           \* their threads: a session and "video" or "audio"
          Home,              \* the address of a session's client
          Capacity,          \* of message_queue_queue: 30
          Overlap,           \* may a datagram be read before the other socket's is handled
          MaxPing            \* bound: datagrams

Types == {"video", "audio"}
Nobody == <<0, "none">>     \* no session, and the port 0

VARIABLES phase,      \* of recv_ping(): "idle", "wait", "found", "late", "done", "failed"
          endpoint,   \* session->video.peer, session->audio.peer: [addr, port]
          messages,   \* its queue of [from, body]
          queue,      \* message_queue_queue: [type, key, owner]
          routes,     \* peer_to_video_session, peer_to_audio_session
          socket,     \* the datagrams the sockets hold: [from, body]
          buf,        \* what was read of each and not handled yet, or NoDatagram
          peer,       \* recvThread()'s one endpoint for both sockets
          pings

pingVars == <<phase, endpoint, messages, queue, routes, socket, buf, peer, pings>>

\* The keys of a session: its payload, and for a legacy client its address.
Payload(s) == <<"payload", s>>
Address(a) == <<"address", a>>
Keys(s, a) == (IF s \in Legacy THEN <<Address(a)>> ELSE <<>>) \o <<Payload(s)>>
AllKeys == {Payload(s) : s \in Session} \union {Address(Home[s]) : s \in Session}

NoEndpoint == [addr |-> 0, port |-> Nobody]
NoDatagram == [from |-> NoEndpoint, body |-> <<>>]

Init == /\ phase = [w \in Waiters |-> "idle"]
        /\ endpoint = [w \in Waiters |-> [addr |-> Home[w[1]], port |-> Nobody]]
        /\ messages = [w \in Waiters |-> <<>>]
        /\ queue = <<>>
        /\ routes = [t \in Types |-> [k \in AllKeys |-> Nobody]]
        /\ socket = [t \in Types |-> <<>>] /\ buf = [t \in Types |-> NoDatagram]
        /\ peer = NoEndpoint /\ pings = 0

-----------------------------------------------------------------------------
(* recv_ping() *)

\* queue_t::raise(): a full queue is emptied.
Raised(q, x) == IF Len(q) = Capacity THEN <<x>> ELSE Append(q, x)

\* Every key is raised, with the queue of messages or with a null pointer.  Nothing
\* waits between the raises: they are one step.
RaiseAll(q, w, keys, owner) ==
  LET after[n \in 0..Len(keys)] ==
        IF n = 0 THEN q
        ELSE Raised(after[n - 1], [type |-> w[2], key |-> keys[n], owner |-> owner])
  IN after[Len(keys)]

Start(w) ==
  /\ phase[w] = "idle"
  /\ phase' = [phase EXCEPT ![w] = "wait"]
  /\ queue' = RaiseAll(queue, w, Keys(w[1], endpoint[w].addr), w)
  /\ UNCHANGED <<endpoint, messages, routes, socket, buf, peer, pings>>

\* The payload is in the message, or a legacy client sent the fixed one.
Matches(w, m) == m.body = Payload(w[1]) \/ (w[1] \in Legacy /\ m.body = <<"PING">>)

Take(w) ==
  /\ phase[w] = "wait" /\ messages[w] # <<>>
  /\ LET m == Head(messages[w])
     IN IF Matches(w, m)
        THEN /\ endpoint' = [endpoint EXCEPT ![w] = m.from]
             /\ phase' = [phase EXCEPT ![w] = "found"]
        ELSE UNCHANGED <<endpoint, phase>>
  /\ messages' = [messages EXCEPT ![w] = Tail(@)]
  /\ UNCHANGED <<queue, routes, socket, buf, peer, pings>>

\* ping_timeout is over.
Timeout(w) ==
  /\ phase[w] = "wait"
  /\ phase' = [phase EXCEPT ![w] = "late"]
  /\ UNCHANGED <<endpoint, messages, queue, routes, socket, buf, peer, pings>>

\* The keys that are taken back: of the address as it is by then.
Removed(s, address) == Keys(s, address)

\* fail_guard
Leave(w) ==
  /\ phase[w] \in {"found", "late"}
  /\ phase' = [phase EXCEPT ![w] = IF @ = "found" THEN "done" ELSE "failed"]
  /\ queue' = RaiseAll(queue, w, Removed(w[1], endpoint[w].addr), Nobody)
  /\ messages' = [messages EXCEPT ![w] = <<>>]
  /\ UNCHANGED <<endpoint, routes, socket, buf, peer, pings>>

-----------------------------------------------------------------------------
(* recvThread() *)

\* A client sends on one of its sockets, as its protocol says or something else.
Ping(w) ==
  /\ pings < MaxPing /\ pings' = pings + 1
  /\ \E body \in {IF w[1] \in Legacy THEN <<"PING">> ELSE Payload(w[1]), <<"else">>} :
       socket' = [socket EXCEPT ![w[2]] =
                    Append(@, [from |-> [addr |-> Home[w[1]], port |-> w], body |-> body])]
  /\ UNCHANGED <<phase, endpoint, messages, queue, routes, buf, peer>>

\* The outstanding receive of a socket ends: both write the same "peer".
Read(t) ==
  /\ socket[t] # <<>> /\ buf[t] = NoDatagram
  /\ ~Overlap => \A u \in Types : buf[u] = NoDatagram
  /\ buf' = [buf EXCEPT ![t] = Head(socket[t])]
  /\ peer' = Head(socket[t]).from
  /\ socket' = [socket EXCEPT ![t] = Tail(@)]
  /\ UNCHANGED <<phase, endpoint, messages, queue, routes, pings>>

\* Faulty: one entry for a datagram.
FirstOnly(r, q) ==
  IF q = <<>> THEN r
  ELSE [r EXCEPT ![q[1].type] = [@ EXCEPT ![q[1].key] = q[1].owner]]

\* populate_peer_to_session(): emplace() leaves a key that is there, erase() takes
\* it away whoever it is of.
Populated(r, q) ==
  LET after[n \in 0..Len(q)] ==
        IF n = 0 THEN r
        ELSE LET e == q[n]
                 old == after[n - 1]
             IN IF e.owner # Nobody /\ old[e.type][e.key] # Nobody THEN old
                ELSE [old EXCEPT ![e.type] = [@ EXCEPT ![e.key] = e.owner]]
  IN after[Len(q)]

\* Four bytes are looked up by the address they came from, longer ones by their
\* payload.
Found(r, t, d, from) ==
  LET key == IF Len(d.body) = 1 THEN Address(from.addr) ELSE d.body
  IN IF key \in DOMAIN r[t] THEN r[t][key] ELSE Nobody

\* recv_func: the sender is taken from "peer" as it is now.  A queue that was
\* stopped takes nothing.
Handle(t) ==
  /\ buf[t] # NoDatagram
  /\ buf' = [buf EXCEPT ![t] = NoDatagram]
  /\ routes' = Populated(routes, queue) /\ queue' = <<>>
  /\ LET w == Found(routes', t, buf[t], peer)
     IN messages' = IF w # Nobody /\ phase[w] \in {"wait", "found", "late"}
                    THEN [messages EXCEPT ![w] = Append(@, [from |-> peer, body |-> buf[t].body])]
                    ELSE messages
  /\ UNCHANGED <<phase, endpoint, socket, peer, pings>>

Next == \/ \E w \in Waiters : Start(w) \/ Leave(w) \/ Take(w) \/ Timeout(w) \/ Ping(w)
        \/ \E t \in Types : Read(t) \/ Handle(t)

-----------------------------------------------------------------------------
(* Properties *)

TypeOK ==
  /\ \A w \in Waiters : phase[w] \in {"idle", "wait", "found", "late", "done", "failed"}
  /\ \A t \in Types, k \in AllKeys : routes[t][k] \in Waiters \union {Nobody}
  /\ Len(queue) <= Capacity

Known == Populated(routes, queue)

\* Who waits is found by each of its keys as soon as a datagram comes.  Two legacy
\* clients of one address break it, and so does a queue that ran full.
Routed ==
  \A w \in Waiters : phase[w] = "wait" =>
    \A i \in 1..Len(Keys(w[1], endpoint[w].addr)) :
      Known[w[2]][Keys(w[1], endpoint[w].addr)[i]] = w

\* No key leads to a session that has left: a legacy client that comes back would
\* not be found.
RouteHasWaiter ==
  \A t \in Types, k \in AllKeys :
    Known[t][k] # Nobody => phase[Known[t][k]] \in {"wait", "found", "late"}

\* A session sends to its own client, to the socket of the stream.
PeerIsOwn ==
  \A w \in Waiters : endpoint[w].port # Nobody => endpoint[w] = [addr |-> Home[w[1]], port |-> w]
=============================================================================
