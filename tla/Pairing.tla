------------------------------ MODULE Pairing ------------------------------
(***************************************************************************)
(* Pairing and the registry of clients (nvhttp.cpp): four requests of a    *)
(* client and a PIN typed by the user lead to an entry in named_devices,   *)
(* which is kept in a file, and to a certificate in the chain that lets    *)
(* the client connect.                                                     *)
(*                                                                         *)
(* Three threads share this without a lock: the HTTP server runs pair(),   *)
(* the configuration server runs pin() and changes the registry, the HTTPS *)
(* server verifies connections.  The two writers of the registry save it   *)
(* step by step, so that the others, or a crash, can come in between.      *)
(***************************************************************************)
EXTENDS Integers, SequencesExt

CONSTANTS Client,          \* a client, its unique id and its certificate
          NoClient,
          MaxAttempts,     \* bound: how often clients start to pair
          MaxEntries,      \* bound: how many pairings succeed
          MaxChanges,      \* bound: how often the user changes the registry
          QueueMax         \* capacity of add_cert, 30 in the code

ASSUME PairingAssumption == /\ NoClient \notin Client
                            /\ MaxAttempts \in Nat \ {0}
                            /\ MaxEntries \in Nat \ {0}
                            /\ MaxChanges \in Nat
                            /\ QueueMax \in Nat \ {0}

VARIABLES attempts,        \* the clients that started to pair, in order
          session,         \* map_id_sess
          root,            \* client_root.named_devices
          file,            \* the state file
          chain,           \* cert_chain
          queue,           \* add_cert
          writer,          \* where the two writers are, and what they do
          confirmed,       \* history: clients whose PIN the user has typed
          entries,         \* history: how many entries were made
          changes,         \* history: how many changes the user has asked for
          answer,          \* history: what was last answered about an entry
          overlap,         \* history: the two writers were busy at once
          failed           \* history: a save failed or add_cert was full

history == <<confirmed, entries, changes, answer, overlap, failed>>
vars == <<attempts, session, root, file, chain, queue, writer, history>>

Attempt == 1..MaxAttempts
EntryId == 1..MaxEntries
NoAttempt == 0
WrongKey == MaxAttempts + 1
Writer == {"http", "config"}

\* salt: the attempt whose salt it has.  key: the attempt whose salt and PIN
\* made the key.  hash: the attempt that sent the hash.
PairSession == [phase : {"NONE", "GETSERVERCERT", "CLIENTCHALLENGE", "SERVERCHALLENGERESP",
                         "CLIENTPAIRINGSECRET"},
                salt : Attempt, key : 0..WrongKey, hash : 0..MaxAttempts]
Absent == [phase |-> "absent", salt |-> NoAttempt, key |-> NoAttempt, hash |-> NoAttempt]
NewSession(a) == [phase |-> "NONE", salt |-> a, key |-> NoAttempt, hash |-> NoAttempt]

Entry == [cert : Client, id : EntryId, enabled : BOOLEAN]

\* A writer inside its handler: where, for which request, the entry and the
\* session concerned, the devices it has put in or read from the JSON tree.
Activity == [pc : {"idle", "build", "open", "write", "read", "clear", "fill", "assign", "answer"},
             op : {"none", "pair", "unpair", "enable", "disable", "eraseAll"},
             id : 0..MaxEntries, client : Client \union {NoClient}, copy : Seq(Entry)]
Idle == [pc |-> "idle", op |-> "none", id |-> 0, client |-> NoClient, copy |-> <<>>]

Certs(devices) == {devices[i].cert : i \in DOMAIN devices}
Ids(devices) == {devices[i].id : i \in DOMAIN devices}

TypeOK ==
  /\ attempts \in Seq(Client) /\ Len(attempts) <= MaxAttempts
  /\ session \in [Client -> PairSession \union {Absent}]
  /\ root \in Seq(Entry)
  /\ file \in [torn : BOOLEAN, devices : Seq(Entry)]
  /\ chain \subseteq Client
  /\ queue \in Seq(Client) /\ Len(queue) <= QueueMax
  /\ writer \in [Writer -> Activity]
  /\ confirmed \subseteq Client /\ entries \in 0..MaxEntries /\ changes \in 0..MaxChanges
  /\ answer \in [EntryId -> {"none", "pairing", "on", "off", "gone"}]
  /\ overlap \in BOOLEAN /\ failed \in BOOLEAN

Init == /\ attempts = <<>>
        /\ session = [c \in Client |-> Absent]
        /\ root = <<>> /\ file = [torn |-> FALSE, devices |-> <<>>]
        /\ chain = {} /\ queue = <<>>
        /\ writer = [w \in Writer |-> Idle]
        /\ confirmed = {} /\ entries = 0 /\ changes = 0
        /\ answer = [i \in EntryId |-> "none"]
        /\ overlap = FALSE /\ failed = FALSE

(***************************************************************************)
(* The four phases, on the HTTP thread.  A request names its client and is *)
(* of some attempt a of it, perhaps an earlier one: requests may be        *)
(* delayed, repeated and out of order.                                     *)
(***************************************************************************)
Latest(c, a) == a \in DOMAIN attempts /\ attempts[a] = c /\ \A b \in a + 1..Len(attempts) : attempts[b] # c

HttpFree == writer["http"].pc = "idle"

\* emplace() keeps a session that is there; the salt is replaced all the same.
GetServerCert(c, a) ==
  /\ HttpFree
  /\ \/ a \in DOMAIN attempts /\ attempts[a] = c /\ UNCHANGED attempts
     \/ a = Len(attempts) + 1 /\ attempts' = Append(attempts, c)
  /\ session' = [session EXCEPT ![c] =
       IF @ = Absent THEN NewSession(a) ELSE [@ EXCEPT !.salt = a]]
  /\ UNCHANGED <<root, file, chain, queue, writer, history>>

Request(c, a) == HttpFree /\ a \in DOMAIN attempts /\ attempts[a] = c /\ session[c] # Absent

\* fail_pair(), and the end of clientpairingsecret() for a hash that differs.
RemoveSession(c) == session' = [session EXCEPT ![c] = Absent]

ClientChallenge(c, a) ==
  /\ Request(c, a)
  /\ IF session[c].phase = "GETSERVERCERT"
     THEN session' = [session EXCEPT ![c].phase = "CLIENTCHALLENGE"]
     ELSE RemoveSession(c)
  /\ UNCHANGED <<attempts, root, file, chain, queue, writer, history>>

ServerChallengeResp(c, a) ==
  /\ Request(c, a)
  /\ IF session[c].phase = "CLIENTCHALLENGE"
     THEN session' = [session EXCEPT ![c].phase = "SERVERCHALLENGERESP", ![c].hash = a]
     ELSE RemoveSession(c)
  /\ UNCHANGED <<attempts, root, file, chain, queue, writer, history>>

\* Faulty: the hash is that of the request, under whatever key.
SameHashAnyKey(c, a) == session[c].hash = a

\* The hash sent in phase 3 is that of this request's secret, under our key;
\* the signature of the secret is the client's.
SameHash(c, a) == session[c].hash = a /\ session[c].key = a

ClientPairingSecretFails(c, a) ==
  /\ Request(c, a)
  /\ session[c].phase # "SERVERCHALLENGERESP" \/ ~SameHash(c, a)
  /\ RemoveSession(c)
  /\ UNCHANGED <<attempts, root, file, chain, queue, writer, history>>

\* Faulty: a queue without a limit.
RaiseUnbounded(q, c) == Append(q, c)

\* queue_t::raise() drops what a full queue holds.
Raise(q, c) == IF Len(q) = QueueMax THEN <<c>> ELSE Append(q, c)

Begin(w, op, id, c) ==
  /\ writer' = [writer EXCEPT ![w] =
                  [pc |-> "build", op |-> op, id |-> id, client |-> c, copy |-> <<>>]]
  /\ overlap' = (overlap \/ \E v \in Writer \ {w} : writer[v].pc # "idle")

\* The certificate is queued and the entry appended; saving it follows.
ClientPairingSecret(c, a) ==
  /\ Request(c, a) /\ entries < MaxEntries
  /\ session[c].phase = "SERVERCHALLENGERESP" /\ SameHash(c, a)
  /\ session' = [session EXCEPT ![c].phase = "CLIENTPAIRINGSECRET"]
  /\ queue' = Raise(queue, c)
  /\ entries' = entries + 1
  /\ root' = Append(root, [cert |-> c, id |-> entries + 1, enabled |-> TRUE])
  /\ Begin("http", "pair", entries + 1, c)
  /\ failed' = (failed \/ Len(queue) = QueueMax)
  /\ answer' = [answer EXCEPT ![entries + 1] = "pairing"]
  /\ UNCHANGED <<attempts, file, chain, confirmed, changes>>

(***************************************************************************)
(* The requests of the user, on the configuration thread.                  *)
(***************************************************************************)
ConfigFree == writer["config"].pc = "idle"

\* pin(): the user types the PIN client p shows, or mistypes it (NoClient).
\* It is tried on the first session of an unordered map, so on any.  Two PINs
\* are taken to be different.  After fail_pair() the code goes on with a
\* reference into the session it has erased, and reports success or not by
\* what it finds there; nothing modelled depends on it.
Pin(c, p) ==
  /\ ConfigFree /\ session[c] # Absent
  /\ p \in Range(attempts) \union {NoClient}
  /\ IF session[c].phase = "NONE"
     THEN session' = [session EXCEPT
            ![c].phase = "GETSERVERCERT",
            ![c].key = IF p = c /\ Latest(c, session[c].salt) THEN session[c].salt ELSE WrongKey]
     ELSE RemoveSession(c)
  /\ confirmed' = confirmed \union ({p} \ {NoClient})
  /\ UNCHANGED <<attempts, root, file, chain, queue, writer, entries, changes, answer, overlap, failed>>

\* The part of a request that changes named_devices.  What was answered about
\* an entry is open again until the request is answered.
Change(op, id, devices, open) ==
  /\ ConfigFree /\ changes < MaxChanges
  /\ changes' = changes + 1
  /\ root' = devices
  /\ answer' = [i \in EntryId |-> IF i \in open THEN "none" ELSE answer[i]]
  /\ Begin("config", op, id, NoClient)
  /\ UNCHANGED <<attempts, session, file, queue, confirmed, entries, failed>>

\* A uuid is in the list once.  Saves and loads also if it is not there (any
\* more).
Unpair(id) ==
  /\ id <= entries
  /\ \/ \E k \in DOMAIN root : root[k].id = id /\ Change("unpair", id, RemoveAt(root, k), {id})
     \/ id \notin Ids(root) /\ Change("unpair", id, root, {id})
  /\ UNCHANGED chain

SetEnabled(id, on) ==
  /\ id \in Ids(root)
  /\ Change(IF on THEN "enable" ELSE "disable", id,
            [i \in DOMAIN root |-> IF root[i].id = id THEN [root[i] EXCEPT !.enabled = on] ELSE root[i]],
            {id})
  /\ UNCHANGED chain

\* The certificates that wait in add_cert stay there.
EraseAll == Change("eraseAll", 0, <<>>, 1..entries) /\ chain' = {}

(***************************************************************************)
(* save_state(), called by both writers: read the file, build the tree     *)
(* from named_devices, open the file, which empties it, and write.         *)
(***************************************************************************)
Goto(w, pc) == writer' = [writer EXCEPT ![w].pc = pc]
Hold(w, pc, devices) == writer' = [writer EXCEPT ![w].pc = pc, ![w].copy = devices]

\* unpair_client() loads what it has saved.
Saved(w) == IF writer[w].op = "unpair" THEN "read" ELSE "answer"

\* The file cannot be read, opened or written to the end.
SaveFails(w) == /\ (writer[w].pc = "build" /\ file.torn) \/ writer[w].pc \in {"open", "write"}
                /\ Goto(w, Saved(w)) /\ failed' = TRUE
                /\ UNCHANGED <<attempts, session, root, file, chain, queue, confirmed, entries, changes,
                               answer, overlap>>

Build(w) == /\ writer[w].pc = "build" /\ ~file.torn
            /\ Hold(w, "open", root)
            /\ UNCHANGED <<attempts, session, root, file, chain, queue, history>>

Open(w) == /\ writer[w].pc = "open"
           /\ file' = [torn |-> TRUE, devices |-> <<>>]
           /\ Goto(w, "write")
           /\ UNCHANGED <<attempts, session, root, chain, queue, history>>

Write(w) == /\ writer[w].pc = "write"
            /\ file' = [torn |-> FALSE, devices |-> writer[w].copy]
            /\ Goto(w, Saved(w))
            /\ UNCHANGED <<attempts, session, root, chain, queue, history>>

(***************************************************************************)
(* load_state() after unpair_client(): it reads the file and rebuilds the  *)
(* chain and named_devices from it.                                        *)
(***************************************************************************)
Read == /\ writer["config"].pc = "read"
        /\ IF file.torn THEN Goto("config", "answer") ELSE Hold("config", "clear", file.devices)
        /\ UNCHANGED <<attempts, session, root, file, chain, queue, history>>

ClearChain == /\ writer["config"].pc = "clear" /\ chain' = {} /\ Goto("config", "fill")
              /\ UNCHANGED <<attempts, session, root, file, queue, history>>

\* Faulty: the chain is cleared and not filled again.
FillChainNot == /\ writer["config"].pc = "fill" /\ Goto("config", "assign")
                /\ UNCHANGED <<attempts, session, root, file, chain, queue, history>>

FillChain == /\ writer["config"].pc = "fill"
             /\ chain' = chain \union Certs(writer["config"].copy) /\ Goto("config", "assign")
             /\ UNCHANGED <<attempts, session, root, file, queue, history>>

\* Faulty: "enabled" is not read, and defaults to true.
AssignRootEnabled ==
  /\ writer["config"].pc = "assign" /\ Goto("config", "answer")
  /\ root' = [i \in DOMAIN writer["config"].copy |-> [writer["config"].copy[i] EXCEPT !.enabled = TRUE]]
  /\ UNCHANGED <<attempts, session, file, chain, queue, history>>

AssignRoot == /\ writer["config"].pc = "assign"
              /\ root' = writer["config"].copy /\ Goto("config", "answer")
              /\ UNCHANGED <<attempts, session, file, chain, queue, history>>

\* The end of a handler: the pairing session is removed and the client or the
\* user gets the answer.  An entry the user has changed since pair() made it is
\* what the user was told.
Answered(w, i) ==
  LET op == writer[w].op
  IN CASE op = "pair" -> IF answer[i] = "pairing" THEN "on" ELSE answer[i]
       [] op = "enable" -> "on"
       [] op = "disable" -> "off"
       [] OTHER -> "gone"

Answer(w) ==
  /\ writer[w].pc = "answer"
  /\ writer' = [writer EXCEPT ![w] = Idle]
  /\ session' = [c \in Client |-> IF c = writer[w].client THEN Absent ELSE session[c]]
  /\ answer' = [i \in EntryId |->
       IF i = writer[w].id \/ (writer[w].op = "eraseAll" /\ i <= entries)
       THEN Answered(w, i) ELSE answer[i]]
  /\ UNCHANGED <<attempts, root, file, chain, queue, confirmed, entries, changes, overlap, failed>>

WriterStep(w) == SaveFails(w) \/ Build(w) \/ Open(w) \/ Write(w) \/ Answer(w)

(***************************************************************************)
(* The HTTPS server verifies a connection: it takes what waits in add_cert *)
(* into the chain, then looks the client up.                               *)
(***************************************************************************)
Verify == /\ queue # <<>>
          /\ chain' = chain \union Range(queue) /\ queue' = <<>>
          /\ UNCHANGED <<attempts, session, root, file, writer, history>>

\* is_client_enabled(): the first entry with the certificate decides; a
\* certificate without an entry counts as enabled.
IsEnabled(devices, c) ==
  \A i \in DOMAIN devices :
    (devices[i].cert = c /\ \A j \in 1..i - 1 : devices[j].cert # c) => devices[i].enabled

\* What Verify answers a client.
Accepted(c) == c \in chain \union Range(queue) /\ IsEnabled(root, c)

(***************************************************************************)
(* The host ends, at any moment, and starts again: load_state() reads the  *)
(* file; one that was emptied and not written is an error, and nothing is  *)
(* loaded.                                                                 *)
(***************************************************************************)
Restart ==
  /\ root' = file.devices /\ chain' = Certs(file.devices) /\ queue' = <<>>
  /\ session' = [c \in Client |-> Absent]
  /\ writer' = [w \in Writer |-> Idle]
  /\ failed' = (failed \/ file.torn)
  /\ UNCHANGED <<attempts, file, confirmed, entries, changes, answer, overlap>>

Next ==
  \/ \E c \in Client, a \in Attempt : \/ GetServerCert(c, a) \/ ClientChallenge(c, a)
                                      \/ ServerChallengeResp(c, a)
                                      \/ ClientPairingSecretFails(c, a) \/ ClientPairingSecret(c, a)
  \/ \E c \in Client, p \in Client \union {NoClient} : Pin(c, p)
  \/ \E id \in EntryId : Unpair(id) \/ \E on \in BOOLEAN : SetEnabled(id, on)
  \/ EraseAll
  \/ \E w \in Writer : WriterStep(w)
  \/ Read \/ ClearChain \/ FillChain \/ AssignRoot
  \/ Verify
  \/ Restart

Spec == Init /\ [][Next]_vars

-----------------------------------------------------------------------------
(***************************************************************************)
(* Properties                                                              *)
(***************************************************************************)

\* A certificate gets into the chain, the queue, the registry or the file only
\* if the user has typed the PIN of its client, however the requests of this
\* and of other clients are delayed, repeated and mixed (nvhttp.h:105: the
\* phases guard against out of order calls).
OnlyConfirmed ==
  /\ chain \subseteq confirmed /\ Range(queue) \subseteq confirmed
  /\ Certs(root) \subseteq confirmed /\ Certs(file.devices) \subseteq confirmed
  /\ \A w \in Writer : Certs(writer[w].copy) \subseteq confirmed

\* What the client was told about its pairing, or the user about a change,
\* holds in memory and in the file, through changes of other entries and
\* restarts at any moment: save_state() and load_state() lose nothing and bring
\* nothing back.  Two writers at once and failed saves are exempt.
Holds(i, devices) ==
  CASE answer[i] \in {"none", "pairing"} -> TRUE
    [] answer[i] = "gone" -> i \notin Ids(devices)
    [] OTHER -> \E k \in DOMAIN devices : devices[k].id = i /\ devices[k].enabled = (answer[i] = "on")

AnswersHold == ~overlap /\ ~failed =>
  \A i \in EntryId : Holds(i, root) /\ (file.torn \/ Holds(i, file.devices))

\* A client that was told it is paired, and whose every entry is enabled, is
\* accepted by the HTTPS server, except while load_state() rebuilds the chain.
PairedIsAccepted == ~overlap /\ ~failed /\ writer["config"].pc # "fill" =>
  \A i \in DOMAIN root :
    answer[root[i].id] = "on" /\ (\A j \in DOMAIN root : root[j].cert = root[i].cert => root[j].enabled)
      => Accepted(root[i].cert)

\* The same promise without the exemption of concurrent writers: "The client is
\* now successfully paired and will be authorized to connect" (nvhttp.cpp:494).
PairedIsKept == ~failed => \A i \in EntryId : answer[i] = "on" => i \in Ids(root)

-----------------------------------------------------------------------------
(* Model checking *)

\* Clients differ in nothing else than their identity.
Clients == Permutations(Client)

\* Bound: nothing is explored after a failed save, where only OnlyConfirmed
\* makes a promise (the proof covers it).
UntilFailure == ~failed
=============================================================================
