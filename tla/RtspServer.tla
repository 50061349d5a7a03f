------------------------------ MODULE RtspServer ------------------------------
(***************************************************************************)
(* The connections of the RTSP server (rtsp.cpp).  One thread runs the     *)
(* io_context, so a handler is one step.  A connection is matched to the   *)
(* launch that is pending when it is accepted, reads one request in as     *)
(* many pieces as the network makes of it, is answered and shut down.      *)
(* The launch changes under it: HTTPS threads raise launches and probe the *)
(* encoders, a timer and the control thread drop the pending one (module   *)
(* LaunchSession has these in detail).                                     *)
(*                                                                         *)
(* A plaintext request is its length: "head" bytes, the empty line, and    *)
(* "body" bytes.  An encrypted one has a header of a known size.           *)
(***************************************************************************)
EXTENDS Integers, FiniteSets

CONSTANTS Conn,
          Launch, NoLaunch,
          Sealed,        \* the launches with an rtsp_cipher
          Requests,      \* [cmd, head, body, declared, good]: what clients send
          Capacity,      \* the size of msg_buf: 2048
          Needle,        \* the length of the empty line: 4
          MayCut,        \* may the empty line arrive in two pieces
          MaxSession,    \* bound: sessions at a time
          MaxProbe       \* bound: probes of the encoders

VARIABLES pending,       \* launch_event
          raised,        \* launches handed to session_raise()
          conn,          \* the sockets
          codecs,        \* what active_hevc_mode and active_av1_mode allow
          probes,
          mandatory,     \* encryption_mode_for_address() is mandatory
          told,          \* what DESCRIBE told the client of each launch
          slots,         \* _session_slots: [launch, by, codec, flags]
          accepting      \* is an accept under way

launchVars == <<pending, raised>>
hostVars == <<codecs, probes, mandatory>>
rtspVars == <<launchVars, conn, hostVars, told, slots, accepting>>

Codec == {"h264", "hevc"}
NoRequest == [cmd |-> "none", head |-> 0, body |-> 0, declared |-> 0, good |-> FALSE]
Free == [pc |-> "free", launch |-> NoLaunch, by |-> NoLaunch, req |-> NoRequest, got |-> 0,
         begin |-> 0, status |-> 0]

Length(r) == r.head + Needle + r.body

Init == /\ pending = NoLaunch /\ raised = {}
        /\ conn = [c \in Conn |-> Free]
        /\ codecs \in {Codec, {"h264"}} /\ probes = 0 /\ mandatory \in BOOLEAN
        /\ told = [l \in Launch |-> {}] /\ slots = {} /\ accepting = TRUE

-----------------------------------------------------------------------------
(* Other threads *)

\* session_raise(): a pending launch is not overwritten.
Raise(l) == /\ l \notin raised /\ raised' = raised \union {l}
            /\ pending' = IF pending = NoLaunch THEN l ELSE pending
            /\ UNCHANGED <<conn, hostVars, told, slots, accepting>>

\* The timer, or the control thread when the client of the session connects.
Drop == /\ pending # NoLaunch /\ pending' = NoLaunch
        /\ UNCHANGED <<raised, conn, hostVars, told, slots, accepting>>

\* launch() and resume() probe again while there is no session.
Probe == /\ slots = {} /\ probes < MaxProbe /\ probes' = probes + 1
         /\ codecs' \in {Codec, {"h264"}}
         /\ UNCHANGED <<launchVars, conn, mandatory, told, slots, accepting>>

\* clear() and clear_by_cert(): a session ends.
EndSession(s) == /\ s \in slots /\ slots' = slots \ {s}
                 /\ UNCHANGED <<launchVars, conn, hostVars, told, accepting>>

-----------------------------------------------------------------------------
(* Answers *)

\* The socket is shut down after every answer.
Answered(k, status) == [Free EXCEPT !.pc = "closed", !.status = status, !.by = k.by]

\* 400 BAD REQUEST
Refuse(c) == /\ conn' = [conn EXCEPT ![c] = Answered(@, 400)]
             /\ UNCHANGED <<launchVars, hostVars, told, slots, accepting>>

\* cmd_describe()
Describe(c) == /\ told' = [told EXCEPT ![conn[c].by] = codecs]
               /\ conn' = [conn EXCEPT ![c] = Answered(@, 200)]
               /\ UNCHANGED <<launchVars, hostVars, slots, accepting>>

Complies(flags) == mandatory => {"video", "audio"} \subseteq flags

\* Faulty: the codec is the one the client was told of, and not looked at again.
StatusAsTold(codec, flags, starts) ==
  IF ~Complies(flags) THEN 403 ELSE IF ~starts THEN 500 ELSE 200

\* cmd_announce(): the client asks for a codec it was told of and for
\* encryption, the encoder may have changed since; a session that does not
\* start is taken out again.
Status(codec, flags, starts) ==
  IF codec \notin codecs THEN 400
  ELSE IF ~Complies(flags) THEN 403 ELSE IF ~starts THEN 500 ELSE 200

Slots(k, codec, flags, status) ==
  IF status = 200
  THEN slots \union {[launch |-> k.launch, by |-> k.by, codec |-> codec, flags |-> flags]}
  ELSE slots

Announce(c) ==
  /\ Cardinality(slots) < MaxSession
  /\ \E codec \in told[conn[c].by] \union {"h264"}, starts \in BOOLEAN,
        flags \in {{}, {"video", "audio"}} :
       LET status == Status(codec, flags, starts)
       IN /\ slots' = Slots(conn[c], codec, flags, status)
          /\ conn' = [conn EXCEPT ![c] = Answered(@, status)]
  /\ UNCHANGED <<launchVars, hostVars, told, accepting>>

\* cmd_play(), as cmd_option(), only answers.
Play(c) == /\ conn' = [conn EXCEPT ![c] = Answered(@, 200)]
           /\ UNCHANGED <<launchVars, hostVars, told, slots, accepting>>

\* cmd_setup() knows three streams by name, and of another says what
\* cmd_not_found() says of commands.
Setup(c, known) == /\ conn' = [conn EXCEPT ![c] = Answered(@, IF known THEN 200 ELSE 404)]
                   /\ UNCHANGED <<launchVars, hostVars, told, slots, accepting>>

\* handle_msg()
Handle(c) == LET cmd == conn[c].req.cmd
             IN \/ cmd = "DESCRIBE" /\ Describe(c)
                \/ cmd = "ANNOUNCE" /\ Announce(c)
                \/ cmd = "PLAY" /\ Play(c)
                \/ cmd \notin {"DESCRIBE", "ANNOUNCE", "PLAY"} /\ Setup(c, FALSE)
                \/ cmd = "SETUP" /\ Setup(c, TRUE)

-----------------------------------------------------------------------------
(* Connections *)

\* handle_accept(): the client of a launch that was raised connects with a
\* request; whichever launch is pending becomes that of the connection.
Accept(c, by, r) ==
  /\ accepting /\ conn[c].pc = "free" /\ by \in raised
  /\ conn' = [conn EXCEPT ![c] =
       IF pending = NoLaunch THEN [Free EXCEPT !.pc = "closed"]
       ELSE [Free EXCEPT !.pc = IF pending \in Sealed THEN "seal" ELSE "head",
                         !.launch = pending, !.by = by, !.req = r]]
  /\ UNCHANGED <<launchVars, hostVars, told, slots, accepting>>

\* handle_accept() is told of an error: every session is stopped, and no other
\* accept is queued.  The connections there are go on.
AcceptFails ==
  /\ accepting /\ accepting' = FALSE /\ slots' = {}
  /\ UNCHANGED <<launchVars, conn, hostVars, told>>

\* The peer closes, and nothing is answered: only the reads of an encrypted
\* request try to.
Disconnect(c) ==
  /\ conn[c].pc \in {"head", "body"}
  /\ conn' = [conn EXCEPT ![c] = Answered(@, 0)]
  /\ UNCHANGED <<launchVars, hostVars, told, slots, accepting>>

\* What another read may bring: a piece of what is left, within the buffer.
Pieces(k) ==
  {n \in 1..(Capacity - k.begin) :
     /\ k.got + n <= Length(k.req)
     /\ MayCut \/ k.got + n <= k.req.head \/ k.got + n >= k.req.head + Needle}

\* handle_plaintext_payload(): what was read so far is parsed, and handled
\* when the declared length is there; otherwise more is read.
Payload(c, got) ==
  LET r == conn[c].req
      whole == got - (r.head + Needle) >= r.declared
  IN \/ ~r.good /\ Refuse(c)
     \/ r.good /\ whole /\ Handle(c)
     \/ /\ r.good /\ ~whole /\ got < Capacity
        /\ conn' = [conn EXCEPT ![c].pc = "body", ![c].got = got, ![c].begin = got]
        /\ UNCHANGED <<launchVars, hostVars, told, slots, accepting>>
     \/ r.good /\ ~whole /\ got = Capacity /\ Refuse(c)

\* Is the empty line between "begin" and what was read now?  The search does
\* not go back into the pieces before: max(begin - 4, begin) is begin.  An
\* encrypted message has none.
Found(k, got) == /\ k.by \notin Sealed
                 /\ k.begin <= k.req.head /\ k.req.head + Needle <= got

\* handle_read_plaintext()
ReadHead(c) ==
  /\ conn[c].pc = "head"
  /\ \E n \in Pieces(conn[c]) :
       LET got == conn[c].got + n
       IN \/ Found(conn[c], got) /\ Payload(c, got)
          \/ /\ ~Found(conn[c], got) /\ got < Capacity
             /\ conn' = [conn EXCEPT ![c].got = got, ![c].begin = got]
             /\ UNCHANGED <<launchVars, hostVars, told, slots, accepting>>
          \/ ~Found(conn[c], got) /\ got = Capacity /\ Refuse(c)

ReadBody(c) ==
  /\ conn[c].pc = "body"
  /\ \E n \in Pieces(conn[c]) : Payload(c, conn[c].got + n)

\* handle_read_encrypted_header(): a header that is cut off or says the
\* message is not encrypted, or longer than the buffer, is refused.
Clear(k) == k.by \notin Sealed
ReadSeal(c) ==
  /\ conn[c].pc = "seal"
  /\ \/ Clear(conn[c]) /\ Refuse(c)
     \/ ~Clear(conn[c]) /\ Length(conn[c].req) >= Capacity /\ Refuse(c)
     \/ /\ ~Clear(conn[c]) /\ Length(conn[c].req) < Capacity
        /\ conn' = [conn EXCEPT ![c].pc = "sealed"]
        /\ UNCHANGED <<launchVars, hostVars, told, slots, accepting>>

\* handle_read_encrypted_message(): it opens with the key of the launch.
Opens(k) == k.launch = k.by

ReadSealed(c) ==
  /\ conn[c].pc = "sealed"
  /\ \/ Opens(conn[c]) /\ conn[c].req.good /\ Handle(c)
     \/ ~(Opens(conn[c]) /\ conn[c].req.good) /\ Refuse(c)

\* The read of an encrypted request fails: the server answers all the same.
CutOff(c) == conn[c].pc \in {"seal", "sealed"} /\ Refuse(c)

\* The socket is gone, and another client may connect.
Reuse(c) ==
  /\ conn[c].pc = "closed" /\ conn' = [conn EXCEPT ![c] = Free]
  /\ UNCHANGED <<launchVars, hostVars, told, slots, accepting>>

Next ==
  \/ \E l \in Launch : Raise(l)
  \/ Drop \/ Probe \/ AcceptFails
  \/ \E s \in slots : EndSession(s)
  \/ \E c \in Conn : \/ \E by \in Launch, r \in Requests : Accept(c, by, r)
                     \/ Disconnect(c) \/ CutOff(c) \/ Reuse(c)
                     \/ ReadHead(c) \/ ReadBody(c) \/ ReadSeal(c) \/ ReadSealed(c)

-----------------------------------------------------------------------------
(* Properties *)

TypeOK ==
  /\ pending \in Launch \union {NoLaunch} /\ raised \subseteq Launch
  /\ conn \in [Conn -> [pc : {"free", "head", "body", "seal", "sealed", "closed"},
                        launch : Launch \union {NoLaunch}, by : Launch \union {NoLaunch},
                        req : Requests \union {NoRequest}, got : 0..Capacity,
                        begin : 0..Capacity, status : {0, 200, 400, 403, 404, 500}]]
  /\ codecs \subseteq Codec /\ probes \in 0..MaxProbe
  /\ told \in [Launch -> SUBSET Codec] /\ accepting \in BOOLEAN

\* A request that is in and has the length it declares is not waited for: the
\* client, which waits for the answer, would get none.  It fails when the empty
\* line is cut: the search never goes back to the piece before.
WholeIsHandled ==
  \A c \in Conn : LET k == conn[c]
                  IN k.pc \in {"head", "body"} /\ k.by \notin Sealed /\ k.got = Length(k.req)
                     => k.req.declared > k.req.body

\* A launch with a cipher is announced by its own client only, though every
\* connection is matched to the launch that happens to be pending.
SealedIsOwn == \A s \in slots : s.launch \in Sealed => s.by = s.launch

\* The client that was told 200 to ANNOUNCE has its session, with a codec that
\* the encoder of the last probe has; the one that was told anything else has
\* none because of it.
SlotTold == \A s \in slots' \ slots :
              /\ s.codec \in codecs /\ Complies(s.flags)
              /\ \E c \in Conn : /\ conn[c].pc # "closed" /\ conn'[c].pc = "closed"
                                 /\ conn'[c].status = 200 /\ conn'[c].by = s.by
=============================================================================
