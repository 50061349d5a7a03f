---------------------------- MODULE PairingProof ----------------------------
(***************************************************************************)
(* Only clients whose PIN the user has typed get into the registry, for    *)
(* any set of clients, any number of attempts and any interleaving of the  *)
(* HTTP, HTTPS and configuration threads, failed saves and restarts        *)
(* included.                                                               *)
(*                                                                         *)
(* The argument: a session's key is that of an attempt only if the PIN of  *)
(* its client was typed (KeysConfirmed), the last phase succeeds only with *)
(* such a key, and from there on everything that holds certificates is     *)
(* filled from something that does.  The lists are therefore typed over    *)
(* the entries of confirmed clients.                                       *)
(***************************************************************************)
EXTENDS Pairing, SequenceTheorems, TLAPS

\* The entries, and the activities of writers, of confirmed clients.
Ours == [cert : confirmed, id : EntryId, enabled : BOOLEAN]
OurActivity ==
  [pc : {"idle", "build", "open", "write", "read", "clear", "fill", "assign", "answer"},
   op : {"none", "pair", "unpair", "enable", "disable", "eraseAll"},
   id : 0..MaxEntries, client : Client \union {NoClient}, copy : Seq(Ours)]

KeysConfirmed == \A c \in Client : session[c].key \in Attempt => c \in confirmed

SessionsOK ==
  /\ attempts \in Seq(Client) /\ Len(attempts) <= MaxAttempts
  /\ session \in [Client -> PairSession \union {Absent}]
  /\ KeysConfirmed

RegistryOK ==
  /\ root \in Seq(Ours)
  /\ file \in [torn : BOOLEAN, devices : Seq(Ours)]
  /\ chain \subseteq confirmed
  /\ queue \in Seq(confirmed) /\ Len(queue) <= QueueMax

WritersOK == writer \in [Writer -> OurActivity]

HistoryOK ==
  /\ confirmed \subseteq Client /\ entries \in 0..MaxEntries /\ changes \in 0..MaxChanges
  /\ answer \in [EntryId -> {"none", "pairing", "on", "off", "gone"}]
  /\ overlap \in BOOLEAN /\ failed \in BOOLEAN

IInv == SessionsOK /\ RegistryOK /\ WritersOK /\ HistoryOK

-----------------------------------------------------------------------------
(* Sequences *)

\* A sequence over a set is one over a larger set.
LEMMA SeqMonotone == ASSUME NEW S, NEW T, S \subseteq T PROVE Seq(S) \subseteq Seq(T)
  <1>1. SUFFICES ASSUME NEW s \in Seq(S) PROVE s \in Seq(T)
    OBVIOUS
  <1>2. \A i \in 1..Len(s) : s[i] \in T
    BY ElementOfSeq
  <1>3. QED
    BY <1>2, LenProperties, SeqDef

\* What is left of a sequence when one element is removed.
LEMMA RemoveAtElements ==
  ASSUME NEW S, NEW s \in Seq(S), NEW i \in 1..Len(s)
  PROVE  /\ RemoveAt(s, i) \in Seq(S)
         /\ Len(RemoveAt(s, i)) = Len(s) - 1
         /\ \A j \in 1..Len(s) - 1 :
              RemoveAt(s, i)[j] = IF j < i THEN s[j] ELSE s[j + 1]
  <1> DEFINE a == SubSeq(s, 1, i - 1)
             b == SubSeq(s, i + 1, Len(s))
  <1>1. a \in Seq(S) /\ Len(a) = i - 1 /\ \A j \in 1..i - 1 : a[j] = s[j]
    <2>1. \A j \in 1..i - 1 : s[j] \in S
      BY ElementOfSeq, LenProperties
    <2>2. QED
      BY <2>1, LenProperties, SubSeqProperties
  <1>2. b \in Seq(S) /\ Len(b) = Len(s) - i
        /\ \A j \in 1..Len(s) - i : b[j] = s[i + j]
    <2>1. \A j \in i + 1..Len(s) : s[j] \in S
      BY ElementOfSeq, LenProperties
    <2>2. QED
      BY <2>1, LenProperties, SubSeqProperties
  <1> HIDE DEF a, b
  <1>3. Len(s) \in Nat /\ Len(a) + Len(b) = Len(s) - 1
    BY <1>1, <1>2, LenProperties
  <1>4. /\ a \o b \in Seq(S)
        /\ Len(a \o b) = Len(a) + Len(b)
        /\ \A j \in 1..Len(a) + Len(b) :
             (a \o b)[j] = IF j <= Len(a) THEN a[j] ELSE b[j - Len(a)]
    <2>1. a \in Seq(S) /\ b \in Seq(S)
      BY <1>1, <1>2
    <2>2. QED
      BY <2>1, ConcatProperties
  <1>5. ASSUME NEW j \in 1..Len(s) - 1
        PROVE  (a \o b)[j] = IF j < i THEN s[j] ELSE s[j + 1]
    <2>1. CASE j < i
      BY <1>1, <1>2, <1>3, <1>4, <2>1
    <2>2. CASE ~(j < i)
      <3>1. /\ j - (i - 1) \in 1..Len(s) - i /\ i + (j - (i - 1)) = j + 1
            /\ j \in 1..Len(a) + Len(b) /\ ~(j <= Len(a))
        BY <1>1, <1>2, <1>3, <2>2
      <3>2. (a \o b)[j] = b[j - (i - 1)] /\ b[j - (i - 1)] = s[i + (j - (i - 1))]
        BY <1>1, <1>2, <1>4, <3>1
      <3>3. QED
        BY <2>2, <3>1, <3>2
    <2>3. QED
      BY <2>1, <2>2
  <1>6. RemoveAt(s, i) = a \o b
    BY DEF RemoveAt, a, b
  <1>7. QED
    BY <1>3, <1>4, <1>5, <1>6

\* The certificates of a list of confirmed entries are confirmed.
LEMMA CertsConfirmed == ASSUME NEW d \in Seq(Ours) PROVE Certs(d) \subseteq confirmed
  <1>1. \A i \in DOMAIN d : d[i] \in Ours
    BY ElementOfSeq, LenProperties
  <1>2. QED
    BY <1>1 DEF Certs, Ours

-----------------------------------------------------------------------------
(* The invariant *)

LEMMA InitIInv == Init => IInv
  <1> SUFFICES ASSUME Init PROVE IInv
    OBVIOUS
  <1> USE PairingAssumption
  <1>1. SessionsOK
    BY DEF Init, SessionsOK, KeysConfirmed, Absent, NoAttempt, Attempt
  <1>2. RegistryOK
    BY DEF Init, RegistryOK
  <1>3. WritersOK
    BY DEF Init, WritersOK, OurActivity, Idle
  <1>4. HistoryOK
    <2>1. overlap \in BOOLEAN /\ failed \in BOOLEAN
      BY DEF Init
    <2>2. answer \in [EntryId -> {"none", "pairing", "on", "off", "gone"}]
      BY DEF Init
    <2>3. entries \in 0..MaxEntries /\ changes \in 0..MaxChanges /\ confirmed \subseteq Client
      BY DEF Init, PairingAssumption
    <2>4. QED
      BY <2>1, <2>2, <2>3 DEF HistoryOK
  <1>5. QED
    BY <1>1, <1>2, <1>3, <1>4 DEF IInv

\* The invariant is about the variables only.
LEMMA StutterIInv == IInv /\ UNCHANGED vars => IInv'
  BY DEF IInv, SessionsOK, KeysConfirmed, RegistryOK, WritersOK, HistoryOK, Ours, OurActivity,
         vars, history

\* Where a writer goes, what it holds.
LEMMA WriterMoves ==
  ASSUME IInv, NEW w \in Writer, confirmed' = confirmed,
         NEW pc \in {"idle", "build", "open", "write", "read", "clear", "fill", "assign", "answer"},
         Goto(w, pc) \/ \E d \in Seq(Ours) : Hold(w, pc, d)
  PROVE  WritersOK'
  <1>1. Ours' = Ours /\ OurActivity' = OurActivity
    BY DEF Ours, OurActivity
  <1> DEFINE gone == [writer[w] EXCEPT !.pc = pc]
  <1>0. writer \in [Writer -> OurActivity] /\ gone \in OurActivity
    BY DEF IInv, WritersOK, OurActivity
  <1>2. CASE Goto(w, pc)
    <2>1. writer' = [writer EXCEPT ![w] = gone]
      BY <1>2 DEF Goto
    <2> HIDE DEF gone
    <2>2. QED
      BY <1>0, <1>1, <2>1 DEF WritersOK
  <1>3. CASE \E d \in Seq(Ours) : Hold(w, pc, d)
    <2>1. PICK d \in Seq(Ours) : Hold(w, pc, d)
      BY <1>3
    <2> DEFINE held == [gone EXCEPT !.copy = d]
    <2>2. held \in OurActivity
      BY <1>0 DEF OurActivity
    <2>3. writer' = [writer EXCEPT ![w] = held]
      BY <1>0, <2>1 DEF Hold
    <2> HIDE DEF held
    <2>4. QED
      BY <1>0, <1>1, <2>2, <2>3 DEF WritersOK
  <1>4. QED
    BY <1>2, <1>3

\* A writer starts.
LEMMA WriterBegins ==
  ASSUME IInv, NEW w \in Writer, confirmed' = confirmed, NEW id \in 0..MaxEntries,
         NEW c \in Client \union {NoClient},
         NEW op \in {"none", "pair", "unpair", "enable", "disable", "eraseAll"}, Begin(w, op, id, c)
  PROVE  WritersOK' /\ overlap' \in BOOLEAN
  <1>1. Ours' = Ours /\ OurActivity' = OurActivity
    BY DEF Ours, OurActivity
  <1>2. [pc |-> "build", op |-> op, id |-> id, client |-> c, copy |-> <<>>] \in OurActivity
    BY DEF OurActivity
  <1>3. WritersOK'
    BY <1>1, <1>2 DEF IInv, WritersOK, Begin
  <1>4. overlap' \in BOOLEAN
    <2> DEFINE other == \E v \in Writer \ {w} : writer[v].pc # "idle"
    <2>1. overlap \in BOOLEAN /\ other \in BOOLEAN
      BY DEF IInv, HistoryOK
    <2>2. overlap' = (overlap \/ other)
      BY DEF Begin
    <2> HIDE DEF other
    <2>3. QED
      BY <2>1, <2>2
  <1>5. QED
    BY <1>3, <1>4

-----------------------------------------------------------------------------
(* The steps *)

\* The phases that only move the session: its key does not change unless the
\* session goes.
LEMMA PhaseSteps ==
  ASSUME IInv, NEW c \in Client, NEW a \in Attempt,
         \/ GetServerCert(c, a) \/ ClientChallenge(c, a) \/ ServerChallengeResp(c, a)
         \/ ClientPairingSecretFails(c, a)
  PROVE  IInv'
  <1>1. UNCHANGED <<root, file, chain, queue, writer, history>>
    BY DEF GetServerCert, ClientChallenge, ServerChallengeResp, ClientPairingSecretFails
  <1>2. RegistryOK' /\ WritersOK' /\ HistoryOK'
    BY <1>1 DEF IInv, RegistryOK, WritersOK, HistoryOK, Ours, OurActivity, history
  <1>3. attempts' \in Seq(Client) /\ Len(attempts') <= MaxAttempts
    <2>1. CASE UNCHANGED attempts
      BY <2>1 DEF IInv, SessionsOK
    <2>2. CASE a = Len(attempts) + 1 /\ attempts' = Append(attempts, c)
      BY <2>2, AppendProperties, LenProperties, PairingAssumption DEF IInv, SessionsOK, Attempt
    <2>3. QED
      BY <2>1, <2>2 DEF GetServerCert, ClientChallenge, ServerChallengeResp, ClientPairingSecretFails
  <1>4. PICK n \in PairSession \union {Absent} :
          /\ session' = [session EXCEPT ![c] = n]
          /\ n.key \in Attempt => n.key = session[c].key
    <2> USE PairingAssumption DEF IInv, SessionsOK
    <2>1. Absent.key \notin Attempt /\ Absent \in PairSession \union {Absent}
      BY DEF Absent, NoAttempt, Attempt
    <2>2. session[c] # Absent => session[c] \in PairSession
      OBVIOUS
    <2>3. CASE RemoveSession(c)
      BY <2>1, <2>3 DEF RemoveSession
    <2>4. CASE GetServerCert(c, a)
      <3>1. CASE session[c] = Absent
        <4>1. NewSession(a) \in PairSession
          BY DEF NewSession, PairSession, Attempt, NoAttempt, WrongKey
        <4>2. NewSession(a).key = NoAttempt
          BY DEF NewSession
        <4>3. session' = [session EXCEPT ![c] = NewSession(a)]
          BY <2>4, <3>1 DEF GetServerCert
        <4>4. NoAttempt \notin Attempt
          BY DEF NoAttempt, Attempt
        <4>5. QED
          BY <4>1, <4>2, <4>3, <4>4
      <3>2. CASE session[c] # Absent
        <4>1. /\ [session[c] EXCEPT !.salt = a] \in PairSession
              /\ [session[c] EXCEPT !.salt = a].key = session[c].key
          BY <2>2, <3>2 DEF PairSession
        <4>2. session' = [session EXCEPT ![c] = [session[c] EXCEPT !.salt = a]]
          BY <2>4, <3>2 DEF GetServerCert
        <4>3. QED
          BY <4>1, <4>2
      <3>3. QED
        BY <3>1, <3>2
    <2>5. CASE ClientChallenge(c, a) /\ ~RemoveSession(c)
      <3>1. session' = [session EXCEPT ![c].phase = "CLIENTCHALLENGE"] /\ session[c] # Absent
        BY <2>5 DEF ClientChallenge, Request
      <3>2. /\ [session[c] EXCEPT !.phase = "CLIENTCHALLENGE"] \in PairSession
            /\ [session[c] EXCEPT !.phase = "CLIENTCHALLENGE"].key = session[c].key
        BY <2>2, <3>1 DEF PairSession
      <3>3. session' = [session EXCEPT ![c] = [session[c] EXCEPT !.phase = "CLIENTCHALLENGE"]]
        BY <3>1
      <3>4. QED
        BY <3>2, <3>3
    <2>6. CASE ServerChallengeResp(c, a) /\ ~RemoveSession(c)
      <3> DEFINE n == [session[c] EXCEPT !.phase = "SERVERCHALLENGERESP", !.hash = a]
      <3>1. /\ session' = [session EXCEPT ![c].phase = "SERVERCHALLENGERESP", ![c].hash = a]
            /\ session[c] # Absent
        BY <2>6 DEF ServerChallengeResp, Request
      <3>2. n \in PairSession /\ n.key = session[c].key
        <4> DEFINE m == [session[c] EXCEPT !.phase = "SERVERCHALLENGERESP"]
        <4>1. m \in PairSession /\ m.key = session[c].key
          BY <2>2, <3>1 DEF PairSession
        <4> HIDE DEF m
        <4>2. [m EXCEPT !.hash = a] \in PairSession /\ [m EXCEPT !.hash = a].key = m.key
          BY <4>1 DEF PairSession, Attempt
        <4>3. n = [m EXCEPT !.hash = a]
          BY DEF m
        <4>4. QED
          BY <4>1, <4>2, <4>3
      <3>3. session' = [session EXCEPT ![c] = n]
        BY <3>1
      <3> HIDE DEF n
      <3>4. QED
        BY <3>2, <3>3
    <2>7. QED
      BY <2>3, <2>4, <2>5, <2>6 DEF ClientPairingSecretFails
  <1>5. session' \in [Client -> PairSession \union {Absent}]
    BY <1>4 DEF IInv, SessionsOK
  <1>6. KeysConfirmed'
    <2>1. confirmed' = confirmed
      BY <1>1 DEF history
    <2>2. session'[c] = n
      BY <1>4 DEF IInv, SessionsOK
    <2>3. \A d \in Client \ {c} : session'[d] = session[d]
      BY <1>4 DEF IInv, SessionsOK
    <2>4. QED
      BY <1>4, <2>1, <2>2, <2>3 DEF IInv, SessionsOK, KeysConfirmed
  <1>7. QED
    BY <1>2, <1>3, <1>5, <1>6 DEF IInv, SessionsOK

\* The last phase succeeds only for a client whose PIN was typed.
LEMMA PairingSecretStep ==
  ASSUME IInv, NEW c \in Client, NEW a \in Attempt, ClientPairingSecret(c, a)
  PROVE  IInv'
  <1>1. confirmed' = confirmed /\ Ours' = Ours /\ c \in confirmed
    BY DEF ClientPairingSecret, SameHash, IInv, SessionsOK, KeysConfirmed, Ours
  <1>2. entries \in Nat /\ entries + 1 \in 1..MaxEntries
    BY PairingAssumption DEF IInv, HistoryOK, ClientPairingSecret
  <1>3. SessionsOK'
    <2> DEFINE n == [session[c] EXCEPT !.phase = "CLIENTPAIRINGSECRET"]
    <2>1. session[c] \in PairSession /\ session \in [Client -> PairSession \union {Absent}]
      BY DEF IInv, SessionsOK, ClientPairingSecret, Request
    <2>2. n \in PairSession /\ n.key = session[c].key
      BY <2>1 DEF PairSession
    <2>3. session' = [session EXCEPT ![c] = n]
      BY DEF ClientPairingSecret
    <2> HIDE DEF n
    <2>4. session' \in [Client -> PairSession \union {Absent}]
      BY <2>1, <2>2, <2>3
    <2>5. KeysConfirmed'
      BY <1>1, <2>1, <2>2, <2>3 DEF IInv, SessionsOK, KeysConfirmed
    <2>6. attempts' = attempts
      BY DEF ClientPairingSecret
    <2>7. QED
      BY <2>4, <2>5, <2>6 DEF IInv, SessionsOK
  <1>4. RegistryOK'
    <2>1. root' \in Seq(Ours)
      <3>1. [cert |-> c, id |-> entries + 1, enabled |-> TRUE] \in Ours
        BY <1>1, <1>2 DEF Ours, EntryId
      <3>2. QED
        BY <3>1, AppendProperties DEF IInv, RegistryOK, ClientPairingSecret
    <2>2. queue' \in Seq(confirmed) /\ Len(queue') <= QueueMax
      <3>1. CASE Len(queue) = QueueMax
        BY <1>1, <3>1, PairingAssumption DEF ClientPairingSecret, Raise
      <3>2. CASE Len(queue) # QueueMax
        BY <1>1, <3>2, AppendProperties, LenProperties, PairingAssumption
           DEF ClientPairingSecret, Raise, IInv, RegistryOK
      <3>3. QED
        BY <3>1, <3>2
    <2>3. QED
      BY <1>1, <2>1, <2>2 DEF ClientPairingSecret, IInv, RegistryOK
  <1>5. WritersOK' /\ overlap' \in BOOLEAN
    <2>1. Begin("http", "pair", entries + 1, c) /\ entries + 1 \in 0..MaxEntries /\ "http" \in Writer
      BY <1>2 DEF ClientPairingSecret, Writer
    <2>2. QED
      BY <1>1, <2>1, WriterBegins
  <1>6. HistoryOK'
    <2>1. failed' \in BOOLEAN
      <3> DEFINE full == Len(queue) = QueueMax
      <3>1. failed \in BOOLEAN /\ full \in BOOLEAN /\ failed' = (failed \/ full)
        BY DEF IInv, HistoryOK, ClientPairingSecret
      <3> HIDE DEF full
      <3>2. QED
        BY <3>1
    <2>2. answer' \in [EntryId -> {"none", "pairing", "on", "off", "gone"}]
      BY DEF IInv, HistoryOK, ClientPairingSecret
    <2>3. entries' \in 0..MaxEntries /\ changes' \in 0..MaxChanges /\ confirmed' \subseteq Client
      BY <1>1, <1>2 DEF IInv, HistoryOK, ClientPairingSecret
    <2>4. QED
      BY <1>5, <2>1, <2>2, <2>3 DEF HistoryOK
  <1>7. QED
    BY <1>3, <1>4, <1>5, <1>6 DEF IInv

\* A PIN makes a good key only for the client that shows it.
LEMMA PinStep ==
  ASSUME IInv, NEW c \in Client, NEW p \in Client \union {NoClient}, Pin(c, p)
  PROVE  IInv'
  <1>1. UNCHANGED <<attempts, root, file, chain, queue, writer, entries, changes, answer, overlap, failed>>
    BY DEF Pin
  <1>2. /\ confirmed' = confirmed \union ({p} \ {NoClient})
        /\ confirmed \subseteq confirmed' /\ confirmed' \subseteq Client
    BY DEF Pin, IInv, HistoryOK
  <1>3. Seq(Ours) \subseteq Seq(Ours') /\ Seq(confirmed) \subseteq Seq(confirmed')
    <2>1. Ours \subseteq Ours'
      BY <1>2 DEF Ours
    <2>2. QED
      BY <1>2, <2>1, SeqMonotone
  <1>4. RegistryOK'
    BY <1>1, <1>2, <1>3 DEF IInv, RegistryOK
  <1>5. WritersOK'
    <2>1. OurActivity \subseteq OurActivity'
      BY <1>3 DEF OurActivity
    <2>2. QED
      BY <1>1, <2>1 DEF IInv, WritersOK
  <1>6. HistoryOK'
    BY <1>1, <1>2 DEF IInv, HistoryOK
  <1>7. SessionsOK'
    <2>1. session \in [Client -> PairSession \union {Absent}] /\ session[c] \in PairSession
      BY DEF IInv, SessionsOK, Pin
    <2>2. CASE RemoveSession(c)
      <3>1. Absent.key \notin Attempt
        BY DEF Absent, NoAttempt, Attempt
      <3>2. QED
        BY <1>1, <1>2, <2>1, <2>2, <3>1 DEF RemoveSession, IInv, SessionsOK, KeysConfirmed
    <2>3. CASE session[c].phase = "NONE"
      <3> DEFINE k == IF p = c /\ Latest(c, session[c].salt) THEN session[c].salt ELSE WrongKey
                 m == [session[c] EXCEPT !.phase = "GETSERVERCERT"]
                 n == [m EXCEPT !.key = k]
      <3>1. k \in 0..WrongKey /\ (k \in Attempt => c \in confirmed')
        <4>1. session[c].salt \in Attempt /\ Attempt \subseteq 0..WrongKey
          BY <2>1, PairingAssumption DEF PairSession, Attempt, WrongKey
        <4>2. WrongKey \in 0..WrongKey /\ WrongKey \notin Attempt
          BY PairingAssumption DEF WrongKey, Attempt
        <4>3. p = c => c \in confirmed'
          BY <1>2, PairingAssumption
        <4>4. QED
          BY <4>1, <4>2, <4>3
      <3>2. session' = [session EXCEPT ![c].phase = "GETSERVERCERT", ![c].key = k]
        BY <2>3 DEF Pin
      <3> HIDE DEF k
      <3>3. session' = [session EXCEPT ![c] = n]
        BY <3>2, <2>1
      <3>4. m \in PairSession
        BY <2>1 DEF PairSession
      <3> HIDE DEF m
      <3>5. n \in PairSession /\ n.key = k
        BY <3>1, <3>4 DEF PairSession
      <3> HIDE DEF n
      <3>6. session' \in [Client -> PairSession \union {Absent}]
        BY <2>1, <3>3, <3>5
      <3>7. KeysConfirmed'
        BY <1>2, <2>1, <3>1, <3>3, <3>5 DEF IInv, SessionsOK, KeysConfirmed
      <3>8. QED
        BY <1>1, <3>6, <3>7 DEF IInv, SessionsOK
    <2>4. QED
      BY <2>2, <2>3 DEF Pin
  <1>8. QED
    BY <1>4, <1>5, <1>6, <1>7 DEF IInv

\* The user changes the registry to a list of the same clients.
LEMMA ChangeStep ==
  ASSUME IInv, NEW op \in {"unpair", "enable", "disable", "eraseAll"}, NEW id \in 0..MaxEntries,
         NEW d \in Seq(Ours), NEW open, Change(op, id, d, open),
         chain' = chain \/ chain' = {}
  PROVE  IInv'
  <1>1. UNCHANGED <<attempts, session, file, queue, confirmed, entries, failed>>
    BY DEF Change
  <1>2. confirmed' = confirmed /\ Ours' = Ours
    BY <1>1 DEF Ours
  <1>3. SessionsOK'
    BY <1>1 DEF IInv, SessionsOK, KeysConfirmed
  <1>4. RegistryOK'
    BY <1>1, <1>2 DEF IInv, RegistryOK, Change
  <1>5. WritersOK' /\ overlap' \in BOOLEAN
    <2>1. Begin("config", op, id, NoClient) /\ "config" \in Writer
      BY DEF Change, Writer
    <2>2. QED
      BY <1>1, <2>1, WriterBegins
  <1>6. HistoryOK'
    <2>1. answer' \in [EntryId -> {"none", "pairing", "on", "off", "gone"}]
      BY DEF IInv, HistoryOK, Change
    <2>2. changes' \in 0..MaxChanges
      BY PairingAssumption DEF IInv, HistoryOK, Change
    <2>3. QED
      BY <1>1, <1>5, <2>1, <2>2 DEF IInv, HistoryOK
  <1>7. QED
    BY <1>3, <1>4, <1>5, <1>6 DEF IInv

LEMMA RegistrySteps ==
  ASSUME IInv, NEW id \in EntryId,
         Unpair(id) \/ (\E on \in BOOLEAN : SetEnabled(id, on)) \/ EraseAll
  PROVE  IInv'
  <1>1. root \in Seq(Ours) /\ id \in 0..MaxEntries /\ 0 \in 0..MaxEntries
    BY PairingAssumption DEF IInv, RegistryOK, EntryId
  <1>2. CASE Unpair(id)
    <2>1. CASE \E k \in DOMAIN root : Change("unpair", id, RemoveAt(root, k), {id})
      <3>1. PICK k \in DOMAIN root : Change("unpair", id, RemoveAt(root, k), {id})
        BY <2>1
      <3>2. RemoveAt(root, k) \in Seq(Ours)
        BY <1>1, LenProperties, RemoveAtElements
      <3>3. QED
        BY <1>1, <1>2, <3>1, <3>2, ChangeStep DEF Unpair
    <2>2. CASE Change("unpair", id, root, {id})
      BY <1>1, <1>2, <2>2, ChangeStep DEF Unpair
    <2>3. QED
      BY <1>2, <2>1, <2>2 DEF Unpair
  <1>3. CASE \E on \in BOOLEAN : SetEnabled(id, on)
    <2>1. PICK on \in BOOLEAN : SetEnabled(id, on)
      BY <1>3
    <2> DEFINE d == [i \in DOMAIN root |->
                       IF root[i].id = id THEN [root[i] EXCEPT !.enabled = on] ELSE root[i]]
               op == IF on THEN "enable" ELSE "disable"
    <2>2. d \in Seq(Ours)
      <3>1. DOMAIN root = 1..Len(root) /\ Len(root) \in Nat
        BY <1>1, LenProperties
      <3>2. \A i \in 1..Len(root) : root[i] \in Ours
        BY <1>1, ElementOfSeq
      <3>3. \A i \in 1..Len(root) : [root[i] EXCEPT !.enabled = on] \in Ours
        BY <3>2 DEF Ours
      <3>4. d \in [1..Len(root) -> Ours]
        BY <3>1, <3>2, <3>3
      <3> HIDE DEF d
      <3>5. QED
        BY <3>1, <3>4, SeqDef
    <2>3. Change(op, id, d, {id}) /\ chain' = chain
      BY <2>1 DEF SetEnabled
    <2>4. op \in {"unpair", "enable", "disable", "eraseAll"}
      OBVIOUS
    <2> HIDE DEF d, op
    <2>5. QED
      BY <1>1, <2>2, <2>3, <2>4, ChangeStep
  <1>4. CASE EraseAll
    <2>1. <<>> \in Seq(Ours)
      BY EmptySeq
    <2>2. Change("eraseAll", 0, <<>>, 1..entries) /\ chain' = {}
      BY <1>4 DEF EraseAll
    <2>3. QED
      BY <1>1, <2>1, <2>2, ChangeStep
  <1>5. QED
    BY <1>2, <1>3, <1>4

\* Saving and loading move lists of confirmed entries.
LEMMA SaveSteps ==
  ASSUME IInv, NEW w \in Writer, SaveFails(w) \/ Build(w) \/ Open(w) \/ Write(w)
  PROVE  IInv'
  <1>1. UNCHANGED <<attempts, session, root, chain, queue, confirmed, entries, changes, answer, overlap>>
    BY DEF SaveFails, Build, Open, Write, history
  <1>2. confirmed' = confirmed /\ Ours' = Ours
    BY <1>1 DEF Ours
  <1>3. SessionsOK'
    BY <1>1 DEF IInv, SessionsOK, KeysConfirmed
  <1>4. HistoryOK'
    <2>1. failed' \in BOOLEAN
      BY DEF SaveFails, Build, Open, Write, history, IInv, HistoryOK
    <2>2. QED
      BY <1>1, <2>1 DEF IInv, HistoryOK
  <1>5. writer[w].copy \in Seq(Ours) /\ root \in Seq(Ours)
    BY DEF IInv, WritersOK, OurActivity, RegistryOK
  <1>6. RegistryOK'
    <2>1. file' \in [torn : BOOLEAN, devices : Seq(Ours)]
      <3>1. CASE SaveFails(w) \/ Build(w)
        BY <3>1 DEF SaveFails, Build, IInv, RegistryOK
      <3>2. CASE Open(w)
        <4>1. <<>> \in Seq(Ours)
          BY EmptySeq
        <4>2. QED
          BY <3>2, <4>1 DEF Open
      <3>3. CASE Write(w)
        BY <1>5, <3>3 DEF Write
      <3>4. QED
        BY <3>1, <3>2, <3>3
    <2>2. QED
      BY <1>1, <1>2, <2>1 DEF IInv, RegistryOK
  <1>7. WritersOK'
    <2>1. Saved(w) \in {"read", "answer"}
      BY DEF Saved
    <2>2. CASE SaveFails(w) \/ Write(w)
      BY <1>2, <2>1, <2>2, WriterMoves DEF SaveFails, Write
    <2>3. CASE Build(w)
      BY <1>2, <1>5, <2>3, WriterMoves DEF Build
    <2>4. CASE Open(w)
      BY <1>2, <2>4, WriterMoves DEF Open
    <2>5. QED
      BY <2>2, <2>3, <2>4
  <1>8. QED
    BY <1>3, <1>4, <1>6, <1>7 DEF IInv

LEMMA LoadSteps ==
  ASSUME IInv, Read \/ ClearChain \/ FillChain \/ AssignRoot
  PROVE  IInv'
  <1>1. UNCHANGED <<attempts, session, file, queue, history>>
    BY DEF Read, ClearChain, FillChain, AssignRoot
  <1>2. confirmed' = confirmed /\ Ours' = Ours
    BY <1>1 DEF Ours, history
  <1>3. SessionsOK' /\ HistoryOK'
    BY <1>1 DEF IInv, SessionsOK, KeysConfirmed, HistoryOK, history
  <1>4. "config" \in Writer /\ writer["config"].copy \in Seq(Ours) /\ file.devices \in Seq(Ours)
    BY DEF IInv, WritersOK, OurActivity, RegistryOK, Writer
  <1>5. RegistryOK'
    <2>1. chain' \subseteq confirmed
      <3>1. Certs(writer["config"].copy) \subseteq confirmed
        BY <1>4, CertsConfirmed
      <3>2. QED
        BY <3>1 DEF Read, ClearChain, FillChain, AssignRoot, IInv, RegistryOK
    <2>2. root' \in Seq(Ours)
      BY <1>4 DEF Read, ClearChain, FillChain, AssignRoot, IInv, RegistryOK
    <2>3. QED
      BY <1>1, <1>2, <2>1, <2>2 DEF IInv, RegistryOK
  <1>6. WritersOK'
    <2>1. CASE Read
      BY <1>2, <1>4, <2>1, WriterMoves DEF Read
    <2>2. CASE ClearChain
      BY <1>2, <1>4, <2>2, WriterMoves DEF ClearChain
    <2>3. CASE FillChain
      BY <1>2, <1>4, <2>3, WriterMoves DEF FillChain
    <2>4. CASE AssignRoot
      BY <1>2, <1>4, <2>4, WriterMoves DEF AssignRoot
    <2>5. QED
      BY <2>1, <2>2, <2>3, <2>4
  <1>7. QED
    BY <1>3, <1>5, <1>6 DEF IInv

LEMMA IdleIsOurs == Idle \in OurActivity
  <1>1. <<>> \in Seq(Ours)
    BY EmptySeq
  <1>2. QED
    BY <1>1, PairingAssumption DEF Idle, OurActivity

LEMMA AnswerStep ==
  ASSUME IInv, NEW w \in Writer, Answer(w)
  PROVE  IInv'
  <1>1. UNCHANGED <<attempts, root, file, chain, queue, confirmed, entries, changes, overlap, failed>>
    BY DEF Answer
  <1>2. confirmed' = confirmed /\ Ours' = Ours /\ OurActivity' = OurActivity
    BY <1>1 DEF Ours, OurActivity
  <1>3. RegistryOK'
    BY <1>1, <1>2 DEF IInv, RegistryOK
  <1>4. WritersOK'
    BY <1>2, IdleIsOurs DEF IInv, WritersOK, Answer
  <1>5. SessionsOK'
    <2>1. Absent.key \notin Attempt
      BY DEF Absent, NoAttempt, Attempt
    <2>2. QED
      BY <1>1, <2>1 DEF IInv, SessionsOK, KeysConfirmed, Answer
  <1>6. HistoryOK'
    <2>1. \A i \in EntryId : answer[i] \in {"none", "pairing", "on", "off", "gone"}
      BY DEF IInv, HistoryOK
    <2>2. \A i \in EntryId : Answered(w, i) \in {"none", "pairing", "on", "off", "gone"}
      BY <2>1 DEF Answered
    <2>3. answer' \in [EntryId -> {"none", "pairing", "on", "off", "gone"}]
      BY <2>1, <2>2 DEF Answer
    <2>4. QED
      BY <1>1, <2>3 DEF IInv, HistoryOK
  <1>7. QED
    BY <1>3, <1>4, <1>5, <1>6 DEF IInv

LEMMA VerifyStep == ASSUME IInv, Verify PROVE IInv'
  <1>1. UNCHANGED <<attempts, session, root, file, writer, history>>
    BY DEF Verify
  <1>2. confirmed' = confirmed /\ Ours' = Ours /\ OurActivity' = OurActivity
    BY <1>1 DEF Ours, OurActivity, history
  <1>3. SessionsOK' /\ HistoryOK' /\ WritersOK'
    BY <1>1, <1>2 DEF IInv, SessionsOK, KeysConfirmed, HistoryOK, WritersOK, history
  <1>4. chain' \subseteq confirmed
    BY RangeOfSeq DEF Verify, IInv, RegistryOK
  <1>5. queue' \in Seq(confirmed) /\ Len(queue') <= QueueMax
    BY EmptySeq, PairingAssumption DEF Verify
  <1>6. RegistryOK'
    BY <1>1, <1>2, <1>4, <1>5 DEF IInv, RegistryOK
  <1>7. QED
    BY <1>3, <1>6 DEF IInv

LEMMA RestartStep == ASSUME IInv, Restart PROVE IInv'
  <1>1. UNCHANGED <<attempts, file, confirmed, entries, changes, answer, overlap>>
    BY DEF Restart
  <1>2. confirmed' = confirmed /\ Ours' = Ours /\ OurActivity' = OurActivity
    BY <1>1 DEF Ours, OurActivity
  <1>3. SessionsOK'
    <2>1. Absent.key \notin Attempt
      BY DEF Absent, NoAttempt, Attempt
    <2>2. QED
      BY <1>1, <2>1 DEF IInv, SessionsOK, KeysConfirmed, Restart
  <1>4. WritersOK'
    BY <1>2, IdleIsOurs DEF WritersOK, Restart
  <1>5. RegistryOK'
    <2>1. file.devices \in Seq(Ours) /\ file.torn \in BOOLEAN
      BY DEF IInv, RegistryOK
    <2>2. root' \in Seq(Ours) /\ chain' \subseteq confirmed
      BY <2>1, CertsConfirmed DEF Restart
    <2>3. queue' \in Seq(confirmed) /\ Len(queue') <= QueueMax
      BY EmptySeq, PairingAssumption DEF Restart
    <2>4. QED
      BY <1>1, <1>2, <2>2, <2>3 DEF IInv, RegistryOK
  <1>6. HistoryOK'
    <2>1. failed' \in BOOLEAN
      <3>1. file.torn \in BOOLEAN /\ failed \in BOOLEAN
        BY DEF IInv, RegistryOK, HistoryOK
      <3>2. failed' = (failed \/ file.torn)
        BY DEF Restart
      <3>3. QED
        BY <3>1, <3>2
    <2>2. QED
      BY <1>1, <2>1 DEF IInv, HistoryOK
  <1>7. QED
    BY <1>3, <1>4, <1>5, <1>6 DEF IInv

LEMMA NextIInv == IInv /\ [Next]_vars => IInv'
  <1> SUFFICES ASSUME IInv, [Next]_vars PROVE IInv'
    OBVIOUS
  <1>1. ASSUME NEW c \in Client, NEW a \in Attempt,
               \/ GetServerCert(c, a) \/ ClientChallenge(c, a) \/ ServerChallengeResp(c, a)
               \/ ClientPairingSecretFails(c, a)
        PROVE  IInv'
    BY <1>1, PhaseSteps
  <1>2. ASSUME NEW c \in Client, NEW a \in Attempt, ClientPairingSecret(c, a) PROVE IInv'
    BY <1>2, PairingSecretStep
  <1>3. ASSUME NEW c \in Client, NEW p \in Client \union {NoClient}, Pin(c, p) PROVE IInv'
    BY <1>3, PinStep
  <1>4. ASSUME NEW id \in EntryId, Unpair(id) \/ \E on \in BOOLEAN : SetEnabled(id, on) PROVE IInv'
    BY <1>4, RegistrySteps
  <1>5. CASE EraseAll
    <2>1. 1 \in EntryId
      BY PairingAssumption DEF EntryId
    <2>2. QED
      BY <1>5, <2>1, RegistrySteps
  <1>6. ASSUME NEW w \in Writer, WriterStep(w) PROVE IInv'
    BY <1>6, SaveSteps, AnswerStep DEF WriterStep
  <1>7. CASE Read \/ ClearChain \/ FillChain \/ AssignRoot
    BY <1>7, LoadSteps
  <1>8. CASE Verify
    BY <1>8, VerifyStep
  <1>9. CASE Restart
    BY <1>9, RestartStep
  <1>10. CASE UNCHANGED vars
    BY <1>10, StutterIInv
  <1>11. QED
    BY <1>1, <1>2, <1>3, <1>4, <1>5, <1>6, <1>7, <1>8, <1>9, <1>10 DEF Next

LEMMA AlwaysIInv == Spec => []IInv
  BY InitIInv, NextIInv, PTL DEF Spec

-----------------------------------------------------------------------------
(* The theorems *)

\* Every reachable state is well typed; add_cert stays within its capacity.
THEOREM Typing == Spec => []TypeOK
  <1>1. IInv => TypeOK
    <2> SUFFICES ASSUME IInv PROVE TypeOK
      OBVIOUS
    <2>1. confirmed \subseteq Client /\ Seq(confirmed) \subseteq Seq(Client)
      BY SeqMonotone DEF IInv, HistoryOK
    <2>2. Seq(Ours) \subseteq Seq(Entry)
      <3>1. Ours \subseteq Entry
        BY <2>1 DEF Ours, Entry
      <3>2. QED
        BY <3>1, SeqMonotone
    <2>3. writer \in [Writer -> Activity]
      <3>1. OurActivity \subseteq Activity
        BY <2>2 DEF OurActivity, Activity
      <3>2. QED
        BY <3>1 DEF IInv, WritersOK
    <2>4. QED
      BY <2>1, <2>2, <2>3 DEF IInv, SessionsOK, RegistryOK, HistoryOK, TypeOK
  <1>2. QED
    BY <1>1, AlwaysIInv, PTL

\* Only clients whose PIN the user has typed are in the chain, in the queue of
\* certificates, in the registry or in the state file.
THEOREM PinDecides == Spec => []OnlyConfirmed
  <1>1. IInv => OnlyConfirmed
    <2> SUFFICES ASSUME IInv PROVE OnlyConfirmed
      OBVIOUS
    <2>1. /\ root \in Seq(Ours) /\ file.devices \in Seq(Ours)
          /\ \A w \in Writer : writer[w].copy \in Seq(Ours)
      BY DEF IInv, RegistryOK, WritersOK, OurActivity
    <2>2. chain \subseteq confirmed /\ Range(queue) \subseteq confirmed
      BY RangeOfSeq DEF IInv, RegistryOK
    <2>3. QED
      BY <2>1, <2>2, CertsConfirmed DEF OnlyConfirmed
  <1>2. QED
    BY <1>1, AlwaysIInv, PTL

-----------------------------------------------------------------------------
(***************************************************************************)
(* What the client was told about its pairing, and the user about a change *)
(* of the registry, holds in memory and in the file through any sequence   *)
(* of saves, loads and restarts, for any number of entries, as long as the *)
(* two writers do not overlap and no save fails.                           *)
(*                                                                         *)
(* The argument: every list of devices, in memory, in the file or held by  *)
(* a writer, agrees with every answer (Fits); from the moment a request    *)
(* has changed named_devices, each list made after that also has what the  *)
(* request asks for (Done), so that the answer may be given.  The file is  *)
(* torn only while a writer is between opening and writing it.             *)
(*                                                                         *)
(* For the chain: what a writer saves and loads again is the registry as   *)
(* it stands (CopyOK), so that the chain filled from it, with the queue,   *)
(* has the certificate of every entry (Known).                             *)
(***************************************************************************)

Present(i, on, d) == \E k \in DOMAIN d : d[k].id = i /\ d[k].enabled = on

\* A list agrees with the answers ans after n entries were made, and has each
\* entry once.
Fits(ans, n, d) ==
  /\ \A i \in EntryId : /\ ans[i] = "gone" => i \notin Ids(d)
                        /\ ans[i] = "on" => Present(i, TRUE, d)
                        /\ ans[i] = "off" => Present(i, FALSE, d)
                        /\ i > n => ans[i] = "none"
  /\ \A j, k \in DOMAIN d : d[j].id = d[k].id => j = k
  /\ Ids(d) \subseteq 1..n

\* A list has what a request asks for.
Done(op, id, ans, d) ==
  \/ op = "pair" /\ (ans[id] = "pairing" => Present(id, TRUE, d))
  \/ op = "enable" /\ Present(id, TRUE, d)
  \/ op = "disable" /\ Present(id, FALSE, d)
  \/ op = "unpair" /\ id \notin Ids(d)
  \/ op = "eraseAll" /\ d = <<>>

\* What a busy writer holds, and has saved, is as asked for.
WriterOK(r, ans, n, rt, f) ==
  /\ r.pc # "idle" => Done(r.op, r.id, ans, rt) /\ r.id <= n
  /\ r.pc \in {"open", "write", "clear", "fill", "assign"} =>
       Fits(ans, n, r.copy) /\ Done(r.op, r.id, ans, r.copy)
  /\ r.pc \in {"read", "clear", "fill", "assign", "answer"} =>
       ~f.torn /\ Done(r.op, r.id, ans, f.devices)

Calm == ~overlap /\ ~failed
Busy(w) == writer[w].pc # "idle"

ListsAgree ==
  /\ Fits(answer, entries, root)
  /\ ~file.torn => Fits(answer, entries, file.devices)
  /\ file.torn => \E w \in Writer : writer[w].pc = "write"
  /\ \A w \in Writer : WriterOK(writer[w], answer, entries, root, file)
  /\ \A v, w \in Writer : Busy(v) /\ Busy(w) => v = w

ListsOK == Calm => ListsAgree

-----------------------------------------------------------------------------
(* Lists of entries *)

\* A list that agrees with the answers agrees with fewer of them.
LEMMA FitsOpen ==
  ASSUME NEW ans, NEW n, NEW d, NEW open, Fits(ans, n, d)
  PROVE  Fits([i \in EntryId |-> IF i \in open THEN "none" ELSE ans[i]], n, d)
  BY DEF Fits

\* A new entry: its answer is pending.
LEMMA FitsNewEntry ==
  ASSUME NEW ans \in [EntryId -> {"none", "pairing", "on", "off", "gone"}],
         NEW n \in Nat, n + 1 \in EntryId, NEW d, Fits(ans, n, d)
  PROVE  Fits([ans EXCEPT ![n + 1] = "pairing"], n + 1, d)
  <1> DEFINE new == [ans EXCEPT ![n + 1] = "pairing"]
  <1>1. Ids(d) \subseteq 1..n + 1
    BY DEF Fits
  <1>2. \A i \in EntryId : new[i] = IF i = n + 1 THEN "pairing" ELSE ans[i]
    OBVIOUS
  <1>3. \A i \in EntryId : i \in Int
    BY DEF EntryId
  <1> HIDE DEF new
  <1>4. \A i \in EntryId : /\ new[i] = "gone" => i \notin Ids(d)
                           /\ new[i] = "on" => Present(i, TRUE, d)
                           /\ new[i] = "off" => Present(i, FALSE, d)
    BY <1>2 DEF Fits
  <1>5. ASSUME NEW i \in EntryId, i > n + 1 PROVE new[i] = "none"
    <2>1. i > n /\ i # n + 1
      BY <1>3, <1>5
    <2>2. ans[i] = "none"
      BY <2>1 DEF Fits
    <2>3. QED
      BY <1>2, <2>1, <2>2
  <1>6. Fits(new, n + 1, d)
    BY <1>1, <1>4, <1>5 DEF Fits
  <1>7. QED
    BY <1>6 DEF new

\* Appending an entry with a new id keeps what was there.
LEMMA FitsAppend ==
  ASSUME NEW ans, NEW n \in Nat, NEW S, NEW d \in Seq(S), NEW e \in S,
         Fits(ans, n + 1, d), Ids(d) \subseteq 1..n, n + 1 \in EntryId, e.id = n + 1,
         ans[n + 1] = "pairing"
  PROVE  Fits(ans, n + 1, Append(d, e))
  <1> DEFINE l == Append(d, e)
  <1>1. DOMAIN d = 1..Len(d) /\ DOMAIN l = 1..Len(d) + 1 /\ Len(d) \in Nat
    BY LenProperties, AppendProperties
  <1>2. (\A k \in DOMAIN d : l[k] = d[k]) /\ l[Len(d) + 1] = e
    BY <1>1, AppendProperties
  <1> HIDE DEF l
  <1>3. \A k \in DOMAIN d : d[k].id \in 1..n
    BY DEF Ids
  <1>4. Ids(l) \subseteq 1..n + 1
    BY <1>1, <1>2, <1>3 DEF Ids
  <1>5. \A i \in EntryId, on \in BOOLEAN : Present(i, on, d) => Present(i, on, l)
    BY <1>1, <1>2 DEF Present
  <1>6. \A i \in EntryId : i \notin Ids(d) /\ i # n + 1 => i \notin Ids(l)
    BY <1>1, <1>2 DEF Ids
  <1>7. ASSUME NEW j \in DOMAIN l, NEW k \in DOMAIN l, l[j].id = l[k].id PROVE j = k
    <2>1. CASE j \in DOMAIN d /\ k \in DOMAIN d
      BY <1>2, <1>7, <2>1 DEF Fits
    <2>2. CASE j = Len(d) + 1 /\ k \in DOMAIN d
      BY <1>2, <1>3, <1>7, <2>2
    <2>3. CASE j \in DOMAIN d /\ k = Len(d) + 1
      BY <1>2, <1>3, <1>7, <2>3
    <2>4. QED
      BY <1>1, <2>1, <2>2, <2>3
  <1>8. Fits(ans, n + 1, l)
    BY <1>4, <1>5, <1>6, <1>7 DEF Fits
  <1>9. QED
    BY <1>8 DEF l

\* Replacing the flag of one entry, or nothing, where it stands.
LEMMA FitsSetEnabled ==
  ASSUME NEW ans, NEW n, NEW d \in Seq(Ours), NEW id \in EntryId, NEW on \in BOOLEAN,
         Fits(ans, n, d), ans[id] = "none", id \in Ids(d),
         NEW l, l = [i \in DOMAIN d |-> IF d[i].id = id THEN [d[i] EXCEPT !.enabled = on] ELSE d[i]]
  PROVE  Fits(ans, n, l) /\ Present(id, on, l)
  <1>1. \A k \in DOMAIN d : d[k] \in Ours
    BY ElementOfSeq, LenProperties
  <1>2. DOMAIN l = DOMAIN d
    OBVIOUS
  <1>3. \A k \in DOMAIN d : /\ l[k].id = d[k].id
                            /\ d[k].id = id => l[k].enabled = on
                            /\ d[k].id # id => l[k].enabled = d[k].enabled
    BY <1>1 DEF Ours
  <1>4. Ids(l) = Ids(d)
    BY <1>2, <1>3 DEF Ids
  <1>5. \A i \in EntryId, b \in BOOLEAN : i # id /\ Present(i, b, d) => Present(i, b, l)
    BY <1>2, <1>3 DEF Present
  <1>6. \A j, k \in DOMAIN l : l[j].id = l[k].id => j = k
    BY <1>2, <1>3 DEF Fits
  <1>7. Present(id, on, l)
    BY <1>2, <1>3 DEF Present, Ids
  <1>8. Fits(ans, n, l)
    BY <1>4, <1>5, <1>6 DEF Fits
  <1>9. QED
    BY <1>7, <1>8

\* Removing the entry with an id leaves the others, and none with that id.
LEMMA FitsRemove ==
  ASSUME NEW ans, NEW n, NEW S, NEW d \in Seq(S), NEW k \in DOMAIN d,
         Fits(ans, n, d), d[k].id \in EntryId => ans[d[k].id] = "none",
         NEW r, r = RemoveAt(d, k)
  PROVE  Fits(ans, n, r) /\ d[k].id \notin Ids(r)
  <1>1. /\ DOMAIN d = 1..Len(d) /\ Len(d) \in Nat /\ k \in 1..Len(d)
        /\ DOMAIN r = 1..Len(d) - 1
        /\ \A j \in 1..Len(d) - 1 : r[j] = IF j < k THEN d[j] ELSE d[j + 1]
    <2>1. DOMAIN d = 1..Len(d) /\ Len(d) \in Nat
      BY LenProperties
    <2>2. /\ r \in Seq(S) /\ Len(r) = Len(d) - 1
          /\ \A j \in 1..Len(d) - 1 : r[j] = IF j < k THEN d[j] ELSE d[j + 1]
      BY <2>1, RemoveAtElements
    <2>3. DOMAIN r = 1..Len(d) - 1
      BY <2>2, LenProperties
    <2>4. QED
      BY <2>1, <2>2, <2>3
  <1>2. \A j \in DOMAIN r : \E m \in DOMAIN d : /\ m # k /\ r[j] = d[m]
                                                /\ m = IF j < k THEN j ELSE j + 1
    BY <1>1
  <1>3. ASSUME NEW m \in DOMAIN d, m # k PROVE \E j \in DOMAIN r : r[j] = d[m]
    <2>1. CASE m < k
      BY <1>1, <2>1
    <2>2. CASE m > k
      <3>1. m - 1 \in 1..Len(d) - 1 /\ ~(m - 1 < k) /\ (m - 1) + 1 = m
        BY <1>1, <2>2
      <3>2. r[m - 1] = d[m]
        BY <1>1, <3>1
      <3>3. QED
        BY <1>1, <3>1, <3>2
    <2>3. QED
      BY <1>1, <1>3, <2>1, <2>2
  <1>4. Ids(r) \subseteq Ids(d) /\ d[k].id \notin Ids(r)
    BY <1>2 DEF Ids, Fits
  <1>5. \A i \in EntryId, on \in BOOLEAN : i # d[k].id /\ Present(i, on, d) => Present(i, on, r)
    BY <1>3 DEF Present
  <1>6. \A i, j \in DOMAIN r : r[i].id = r[j].id => i = j
    <2> SUFFICES ASSUME NEW i \in DOMAIN r, NEW j \in DOMAIN r, r[i].id = r[j].id PROVE i = j
      OBVIOUS
    <2>1. PICK p \in DOMAIN d : p # k /\ r[i] = d[p] /\ p = IF i < k THEN i ELSE i + 1
      BY <1>2
    <2>2. PICK q \in DOMAIN d : q # k /\ r[j] = d[q] /\ q = IF j < k THEN j ELSE j + 1
      BY <1>2
    <2>3. p = q
      BY <2>1, <2>2 DEF Fits
    <2>4. QED
      BY <1>1, <2>1, <2>2, <2>3
  <1>7. Fits(ans, n, r)
    BY <1>4, <1>5, <1>6 DEF Fits
  <1>8. QED
    BY <1>4, <1>7

\* When a request is done, its answer may be given.
LEMMA FitsAnswered ==
  ASSUME NEW ans, NEW n \in Nat, NEW d, NEW op, NEW id, Fits(ans, n, d), Done(op, id, ans, d), id <= n,
         NEW told,
         \A i \in EntryId : told[i] =
           IF i = id \/ (op = "eraseAll" /\ i <= n)
           THEN CASE op = "pair" -> IF ans[i] = "pairing" THEN "on" ELSE ans[i]
                  [] op = "enable" -> "on"
                  [] op = "disable" -> "off"
                  [] OTHER -> "gone"
           ELSE ans[i]
  PROVE  Fits(told, n, d)
  <1>1. ASSUME NEW i \in EntryId
        PROVE  /\ told[i] = "gone" => i \notin Ids(d)
               /\ told[i] = "on" => Present(i, TRUE, d)
               /\ told[i] = "off" => Present(i, FALSE, d)
               /\ i > n => told[i] = "none"
    <2>1. CASE i # id /\ ~(op = "eraseAll" /\ i <= n)
      <3>1. told[i] = ans[i]
        BY <2>1
      <3>2. QED
        BY <3>1 DEF Fits
    <2>2. CASE op = "eraseAll" /\ (i = id \/ i <= n)
      <3>1. told[i] = "gone" /\ d = <<>> /\ i <= n
        BY <2>2 DEF Done
      <3>2. Ids(d) = {} /\ ~(i > n)
        BY <3>1 DEF Ids, EntryId
      <3>3. QED
        BY <3>1, <3>2
    <2>3. CASE op # "eraseAll" /\ i = id
      <3>1. ~(i > n)
        BY <2>3 DEF EntryId, Fits
      <3>2. CASE op = "pair"
        <4>1. told[i] = IF ans[i] = "pairing" THEN "on" ELSE ans[i]
          BY <2>3, <3>2
        <4>2. QED
          BY <2>3, <3>1, <3>2, <4>1 DEF Done, Fits
      <3>3. CASE op = "enable"
        BY <2>3, <3>1, <3>3 DEF Done
      <3>4. CASE op = "disable"
        BY <2>3, <3>1, <3>4 DEF Done
      <3>5. CASE op = "unpair"
        BY <2>3, <3>1, <3>5 DEF Done
      <3>6. QED
        BY <2>3, <3>2, <3>3, <3>4, <3>5 DEF Done
    <2>4. QED
      BY <2>1, <2>2, <2>3
  <1>2. QED
    BY <1>1 DEF Fits

-----------------------------------------------------------------------------
(* The writers *)

\* What Goto() and Hold() leave alone.
LEMMA GotoFields ==
  ASSUME IInv, NEW w \in Writer, NEW pc, Goto(w, pc)
  PROVE  /\ writer'[w].pc = pc /\ writer'[w].op = writer[w].op /\ writer'[w].id = writer[w].id
         /\ writer'[w].copy = writer[w].copy
         /\ \A v \in Writer \ {w} : writer'[v] = writer[v]
  <1> DEFINE gone == [writer[w] EXCEPT !.pc = pc]
  <1>1. /\ gone.pc = pc /\ gone.op = writer[w].op /\ gone.id = writer[w].id
        /\ gone.copy = writer[w].copy
    BY DEF IInv, WritersOK, OurActivity
  <1>2. writer' = [writer EXCEPT ![w] = gone]
    BY DEF Goto
  <1> HIDE DEF gone
  <1>3. QED
    BY <1>1, <1>2 DEF IInv, WritersOK

LEMMA HoldFields ==
  ASSUME IInv, NEW w \in Writer, NEW pc, NEW d, Hold(w, pc, d)
  PROVE  /\ writer'[w].pc = pc /\ writer'[w].op = writer[w].op /\ writer'[w].id = writer[w].id
         /\ writer'[w].copy = d
         /\ \A v \in Writer \ {w} : writer'[v] = writer[v]
  <1> DEFINE gone == [writer[w] EXCEPT !.pc = pc]
             held == [gone EXCEPT !.copy = d]
  <1>1. writer[w] \in OurActivity
    BY DEF IInv, WritersOK
  <1>2. /\ gone.pc = pc /\ gone.op = writer[w].op /\ gone.id = writer[w].id
        /\ DOMAIN gone = {"pc", "op", "id", "client", "copy"}
    BY <1>1 DEF OurActivity
  <1>3. writer' = [writer EXCEPT ![w] = held]
    BY DEF Hold
  <1> HIDE DEF gone
  <1>4. held.pc = pc /\ held.op = writer[w].op /\ held.id = writer[w].id /\ held.copy = d
    BY <1>2
  <1> HIDE DEF held
  <1>5. QED
    BY <1>3, <1>4 DEF IInv, WritersOK

\* The lists agree if those of the only writer at work do.
LEMMA Alone ==
  ASSUME NEW w \in Writer, \A v \in Writer \ {w} : ~Busy(v) /\ writer'[v] = writer[v],
         Fits(answer', entries', root'),
         ~file'.torn => Fits(answer', entries', file'.devices),
         file'.torn => writer'[w].pc = "write",
         WriterOK(writer'[w], answer', entries', root', file')
  PROVE  ListsAgree'
  <1>1. \A v \in Writer \ {w} : writer'[v].pc = "idle"
    BY DEF Busy
  <1>2. \A v \in Writer \ {w} : WriterOK(writer'[v], answer', entries', root', file')
    BY <1>1 DEF WriterOK
  <1>3. \A u, v \in Writer : writer'[u].pc # "idle" /\ writer'[v].pc # "idle" => u = v
    BY <1>1
  <1>4. QED
    BY <1>2, <1>3 DEF ListsAgree, Busy

\* A writer that begins without overlap is the only one, and finds a whole file.
LEMMA BeginsAlone ==
  ASSUME ListsOK, Calm', NEW w \in Writer, NEW op, NEW id, NEW c, Begin(w, op, id, c),
         writer[w].pc = "idle", failed => failed', IInv
  PROVE  /\ Calm /\ ListsAgree /\ ~file.torn
         /\ \A v \in Writer \ {w} : ~Busy(v) /\ writer'[v] = writer[v]
         /\ writer'[w].pc = "build" /\ writer'[w].op = op /\ writer'[w].id = id
  <1>1. \A v \in Writer \ {w} : writer[v].pc = "idle"
    <2> DEFINE other == \E v \in Writer \ {w} : writer[v].pc # "idle"
    <2>1. overlap' = (overlap \/ other) /\ ~overlap'
      BY DEF Begin, Calm
    <2>2. overlap \in BOOLEAN /\ other \in BOOLEAN
      BY DEF IInv, HistoryOK
    <2> HIDE DEF other
    <2>3. ~other
      BY <2>1, <2>2
    <2>4. QED
      BY <2>3 DEF other
  <1>2. Calm
    <2> DEFINE other == \E v \in Writer \ {w} : writer[v].pc # "idle"
    <2>1. overlap' = (overlap \/ other) /\ ~overlap' /\ ~failed'
      BY DEF Begin, Calm
    <2>2. overlap \in BOOLEAN /\ other \in BOOLEAN
      BY DEF IInv, HistoryOK
    <2> HIDE DEF other
    <2>3. QED
      BY <2>1, <2>2 DEF Calm
  <1>3. ListsAgree
    BY <1>2 DEF ListsOK
  <1>4. ~file.torn
    BY <1>1, <1>3 DEF ListsAgree
  <1>5. writer \in [Writer -> OurActivity]
    BY DEF IInv, WritersOK
  <1>6. \A v \in Writer \ {w} : writer'[v] = writer[v]
    BY <1>5 DEF Begin
  <1>7. writer'[w].pc = "build" /\ writer'[w].op = op /\ writer'[w].id = id
    BY <1>5 DEF Begin
  <1>8. QED
    BY <1>1, <1>2, <1>3, <1>4, <1>6, <1>7 DEF Busy

-----------------------------------------------------------------------------
(* The steps *)

\* What neither the lists nor the answers notice.
LEMMA FrameSteps ==
  ASSUME ListsOK, UNCHANGED <<root, file, writer, answer, entries, overlap, failed>>
  PROVE  ListsOK'
  BY DEF ListsOK, Calm, ListsAgree, Busy

LEMMA InitLists == Init => ListsOK
  <1> SUFFICES ASSUME Init PROVE ListsAgree
    BY DEF ListsOK
  <1>1. Fits(answer, entries, <<>>)
    BY DEF Init, Fits, Ids
  <1>2. \A w \in Writer : writer[w].pc = "idle"
    BY DEF Init, Idle
  <1>3. QED
    BY <1>1, <1>2 DEF Init, ListsAgree, WriterOK, Busy

\* Saving: each list is made from one that has what was asked for.
LEMMA SaveLists ==
  ASSUME IInv, ListsOK, NEW w \in Writer, SaveFails(w) \/ Build(w) \/ Open(w) \/ Write(w)
  PROVE  ListsOK'
  <1> SUFFICES ASSUME Calm' PROVE ListsAgree'
    BY DEF ListsOK
  <1>1. ~SaveFails(w)
    BY DEF SaveFails, Calm
  <1>2. UNCHANGED <<root, answer, entries, overlap, failed>> /\ Busy(w)
    BY <1>1 DEF Build, Open, Write, history, Busy
  <1>3. ListsAgree
    BY <1>2 DEF ListsOK, Calm
  <1> DEFINE r == writer[w]
             q == writer'[w]
  <1>4. \A v \in Writer \ {w} : ~Busy(v)
    BY <1>2, <1>3 DEF ListsAgree
  <1>5. WriterOK(r, answer, entries, root, file) /\ r.pc # "idle"
    BY <1>2, <1>3 DEF ListsAgree, Busy
  <1>6. CASE Build(w)
    <2>1. /\ q.pc = "open" /\ q.op = r.op /\ q.id = r.id /\ q.copy = root
          /\ \A v \in Writer \ {w} : writer'[v] = writer[v]
      BY <1>6, HoldFields DEF Build
    <2>2. file' = file /\ ~file.torn
      BY <1>6 DEF Build
    <2>3. WriterOK(q, answer, entries, root, file)
      BY <1>3, <1>5, <2>1 DEF WriterOK, ListsAgree
    <2> HIDE DEF q, r
    <2>4. QED
      BY <1>2, <1>3, <1>4, <2>1, <2>2, <2>3, Alone DEF ListsAgree, q
  <1>7. CASE Open(w)
    <2>1. /\ q.pc = "write" /\ q.op = r.op /\ q.id = r.id /\ q.copy = r.copy
          /\ \A v \in Writer \ {w} : writer'[v] = writer[v]
      BY <1>7, GotoFields DEF Open
    <2>2. file'.torn /\ r.pc = "open"
      BY <1>7 DEF Open
    <2>3. WriterOK(q, answer, entries, root, file')
      BY <1>5, <2>1, <2>2 DEF WriterOK
    <2> HIDE DEF q, r
    <2>4. QED
      BY <1>2, <1>3, <1>4, <2>1, <2>2, <2>3, Alone DEF ListsAgree, q
  <1>8. CASE Write(w)
    <2>1. /\ q.pc \in {"read", "answer"} /\ q.op = r.op /\ q.id = r.id /\ q.copy = r.copy
          /\ \A v \in Writer \ {w} : writer'[v] = writer[v]
      <3>1. Saved(w) \in {"read", "answer"}
        BY DEF Saved
      <3>2. QED
        BY <1>8, <3>1, GotoFields DEF Write
    <2>2. ~file'.torn /\ file'.devices = r.copy /\ r.pc = "write"
      BY <1>8 DEF Write
    <2>3. WriterOK(q, answer, entries, root, file') /\ Fits(answer, entries, r.copy)
      BY <1>5, <2>1, <2>2 DEF WriterOK
    <2> HIDE DEF q, r
    <2>4. QED
      BY <1>2, <1>3, <1>4, <2>1, <2>2, <2>3, Alone DEF ListsAgree, q
  <1>9. QED
    BY <1>1, <1>6, <1>7, <1>8

\* Loading: the registry becomes what the file has.
LEMMA LoadLists ==
  ASSUME IInv, ListsOK, Read \/ ClearChain \/ FillChain \/ AssignRoot
  PROVE  ListsOK'
  <1> SUFFICES ASSUME Calm' PROVE ListsAgree'
    BY DEF ListsOK
  <1> DEFINE w == "config"
             r == writer[w]
             q == writer'[w]
  <1>1. UNCHANGED <<file, answer, entries, overlap, failed>> /\ w \in Writer /\ Busy(w)
    BY DEF Read, ClearChain, FillChain, AssignRoot, history, Busy, Writer
  <1>2. ListsAgree
    BY <1>1 DEF ListsOK, Calm
  <1>3. \A v \in Writer \ {w} : ~Busy(v)
    BY <1>1, <1>2 DEF ListsAgree
  <1>4. /\ WriterOK(r, answer, entries, root, file) /\ r.pc \in {"read", "clear", "fill", "assign"}
        /\ ~file.torn /\ Fits(answer, entries, file.devices) /\ Fits(answer, entries, root)
    <2>1. r.pc \in {"read", "clear", "fill", "assign"}
      BY DEF Read, ClearChain, FillChain, AssignRoot
    <2>2. WriterOK(r, answer, entries, root, file)
      BY <1>1, <1>2 DEF ListsAgree
    <2>3. ~file.torn
      BY <2>1, <2>2 DEF WriterOK
    <2>4. QED
      BY <1>2, <2>1, <2>2, <2>3 DEF ListsAgree
  <1>5. CASE Read
    <2>1. /\ q.pc = "clear" /\ q.op = r.op /\ q.id = r.id /\ q.copy = file.devices
          /\ \A v \in Writer \ {w} : writer'[v] = writer[v]
      BY <1>1, <1>4, <1>5, HoldFields DEF Read
    <2>2. root' = root /\ r.pc = "read"
      BY <1>5 DEF Read
    <2>3. WriterOK(q, answer, entries, root, file)
      BY <1>4, <2>1, <2>2 DEF WriterOK
    <2> HIDE DEF q, r, w
    <2>4. QED
      BY <1>1, <1>3, <1>4, <2>1, <2>2, <2>3, Alone DEF q
  <1>6. CASE ClearChain \/ FillChain
    <2>1. /\ q.pc \in {"fill", "assign"} /\ q.op = r.op /\ q.id = r.id /\ q.copy = r.copy
          /\ \A v \in Writer \ {w} : writer'[v] = writer[v]
      BY <1>1, <1>6, GotoFields DEF ClearChain, FillChain
    <2>2. root' = root /\ r.pc \in {"clear", "fill"}
      BY <1>6 DEF ClearChain, FillChain
    <2>3. WriterOK(q, answer, entries, root, file)
      BY <1>4, <2>1, <2>2 DEF WriterOK
    <2> HIDE DEF q, r, w
    <2>4. QED
      BY <1>1, <1>3, <1>4, <2>1, <2>2, <2>3, Alone DEF q
  <1>7. CASE AssignRoot
    <2>1. /\ q.pc = "answer" /\ q.op = r.op /\ q.id = r.id /\ q.copy = r.copy
          /\ \A v \in Writer \ {w} : writer'[v] = writer[v]
      BY <1>1, <1>7, GotoFields DEF AssignRoot
    <2>2. root' = r.copy /\ r.pc = "assign"
      BY <1>7 DEF AssignRoot
    <2>3. WriterOK(q, answer, entries, r.copy, file) /\ Fits(answer, entries, r.copy)
      BY <1>4, <2>1, <2>2 DEF WriterOK
    <2> HIDE DEF q, r, w
    <2>4. QED
      BY <1>1, <1>3, <1>4, <2>1, <2>2, <2>3, Alone DEF q
  <1>8. QED
    BY <1>5, <1>6, <1>7

\* An answer is given when memory and file have what was asked for.
LEMMA AnswerLists ==
  ASSUME IInv, ListsOK, NEW w \in Writer, Answer(w)
  PROVE  ListsOK'
  <1> SUFFICES ASSUME Calm' PROVE ListsAgree'
    BY DEF ListsOK
  <1>1. UNCHANGED <<root, file, entries, overlap, failed>> /\ Busy(w)
    BY DEF Answer, Busy
  <1>2. ListsAgree
    BY <1>1 DEF ListsOK, Calm
  <1>3. /\ WriterOK(writer[w], answer, entries, root, file)
        /\ writer[w].pc = "answer" /\ entries \in Nat
    BY <1>2 DEF ListsAgree, Answer, IInv, HistoryOK
  <1>4. /\ ~file.torn /\ writer[w].id <= entries
        /\ Done(writer[w].op, writer[w].id, answer, root)
        /\ Done(writer[w].op, writer[w].id, answer, file.devices)
    BY <1>3 DEF WriterOK
  <1>5. Fits(answer, entries, root) /\ Fits(answer, entries, file.devices)
    BY <1>2, <1>4 DEF ListsAgree
  <1>6. \A i \in EntryId : answer'[i] =
          IF i = writer[w].id \/ (writer[w].op = "eraseAll" /\ i <= entries)
          THEN CASE writer[w].op = "pair" -> IF answer[i] = "pairing" THEN "on" ELSE answer[i]
                 [] writer[w].op = "enable" -> "on"
                 [] writer[w].op = "disable" -> "off"
                 [] OTHER -> "gone"
          ELSE answer[i]
    BY DEF Answer, Answered
  <1>7. Fits(answer', entries, root)
    <2> DEFINE op == writer[w].op
               id == writer[w].id
    <2> HIDE DEF op, id
    <2>1. QED
      BY <1>3, <1>4, <1>5, <1>6, FitsAnswered DEF op, id
  <1>8. Fits(answer', entries, file.devices)
    BY <1>3, <1>4, <1>5, <1>6, FitsAnswered
  <1>9. writer'[w].pc = "idle" /\ \A v \in Writer \ {w} : ~Busy(v) /\ writer'[v] = writer[v]
    <2>1. \A v \in Writer \ {w} : ~Busy(v)
      BY <1>1, <1>2 DEF ListsAgree
    <2>2. writer'[w] = Idle /\ \A v \in Writer \ {w} : writer'[v] = writer[v]
      BY DEF Answer, IInv, WritersOK
    <2>3. QED
      BY <2>1, <2>2 DEF Idle
  <1>10. WriterOK(writer'[w], answer', entries, root, file)
    BY <1>9 DEF WriterOK
  <1>11. QED
    BY <1>1, <1>4, <1>7, <1>8, <1>9, <1>10, Alone

\* A pairing appends an entry with a new id.
LEMMA PairingLists ==
  ASSUME IInv, ListsOK, NEW c \in Client, NEW a \in Attempt, ClientPairingSecret(c, a)
  PROVE  ListsOK'
  <1> SUFFICES ASSUME Calm' PROVE ListsAgree'
    BY DEF ListsOK
  <1> DEFINE n == entries + 1
             e == [cert |-> c, id |-> n, enabled |-> TRUE]
  <1>1. /\ entries \in Nat /\ n \in EntryId /\ n \in Nat /\ "http" \in Writer
        /\ answer \in [EntryId -> {"none", "pairing", "on", "off", "gone"}]
        /\ root \in Seq(Ours)
    BY PairingAssumption DEF IInv, HistoryOK, RegistryOK, ClientPairingSecret, EntryId, Writer
  <1>2. /\ Begin("http", "pair", n, c) /\ writer["http"].pc = "idle"
        /\ root' = Append(root, e) /\ answer' = [answer EXCEPT ![n] = "pairing"]
        /\ entries' = n /\ file' = file
    BY DEF ClientPairingSecret, Request, HttpFree
  <1>3. failed => failed'
    <2> DEFINE full == Len(queue) = QueueMax
    <2>1. failed' = (failed \/ full) /\ failed \in BOOLEAN /\ full \in BOOLEAN
      BY DEF ClientPairingSecret, IInv, HistoryOK
    <2> HIDE DEF full
    <2>2. QED
      BY <2>1
  <1>4. /\ ListsAgree /\ ~file.torn
        /\ \A v \in Writer \ {"http"} : ~Busy(v) /\ writer'[v] = writer[v]
        /\ writer'["http"].pc = "build" /\ writer'["http"].op = "pair" /\ writer'["http"].id = n
    BY <1>1, <1>2, <1>3, BeginsAlone
  <1>5. Fits(answer, entries, root) /\ Fits(answer, entries, file.devices)
    BY <1>4 DEF ListsAgree
  <1>6. Fits(answer', n, root) /\ Fits(answer', n, file.devices)
    BY <1>1, <1>2, <1>5, FitsNewEntry
  <1>7. Fits(answer', n, root')
    <2>1. e \in [cert : {c}, id : EntryId, enabled : BOOLEAN] \union Ours /\ e.id = n
      BY <1>1
    <2>2. root \in Seq([cert : {c}, id : EntryId, enabled : BOOLEAN] \union Ours)
      BY <1>1, SeqMonotone
    <2>3. Ids(root) \subseteq 1..entries /\ answer'[n] = "pairing"
      BY <1>1, <1>2, <1>5 DEF Fits
    <2>4. QED
      BY <1>1, <1>2, <1>6, <2>1, <2>2, <2>3, FitsAppend
  <1>8. Done("pair", n, answer', root')
    <2>1. Len(root) + 1 \in DOMAIN root' /\ root'[Len(root) + 1] = e
      BY <1>1, <1>2, AppendProperties, LenProperties
    <2>2. Present(n, TRUE, root')
      BY <2>1 DEF Present
    <2>3. QED
      BY <2>2 DEF Done
  <1>9. WriterOK(writer'["http"], answer', n, root', file')
    BY <1>1, <1>4, <1>8 DEF WriterOK
  <1> HIDE DEF n, e
  <1>10. QED
    BY <1>1, <1>2, <1>4, <1>6, <1>7, <1>9, Alone

\* The user's requests, given the list they make.
LEMMA ChangeLists ==
  ASSUME IInv, ListsOK, Calm', NEW op, NEW id, NEW d, NEW open, Change(op, id, d, open),
         NEW ans, ans = [i \in EntryId |-> IF i \in open THEN "none" ELSE answer[i]],
         id <= entries,
         Fits(ans, entries, root) => Fits(ans, entries, d) /\ Done(op, id, ans, d)
  PROVE  ListsAgree'
  <1>1. /\ Begin("config", op, id, NoClient) /\ writer["config"].pc = "idle" /\ "config" \in Writer
        /\ root' = d /\ answer' = ans /\ UNCHANGED <<file, entries, failed>>
    BY DEF Change, ConfigFree, Writer
  <1>2. /\ ListsAgree /\ ~file.torn
        /\ \A v \in Writer \ {"config"} : ~Busy(v) /\ writer'[v] = writer[v]
        /\ writer'["config"].pc = "build" /\ writer'["config"].op = op /\ writer'["config"].id = id
    BY <1>1, BeginsAlone
  <1>3. Fits(ans, entries, root) /\ Fits(ans, entries, file.devices)
    BY <1>2, FitsOpen DEF ListsAgree
  <1>4. WriterOK(writer'["config"], ans, entries, d, file)
    BY <1>2, <1>3 DEF WriterOK
  <1>5. QED
    BY <1>1, <1>2, <1>3, <1>4, Alone

LEMMA RegistryLists ==
  ASSUME IInv, ListsOK, NEW id \in EntryId,
         Unpair(id) \/ (\E on \in BOOLEAN : SetEnabled(id, on)) \/ EraseAll
  PROVE  ListsOK'
  <1> SUFFICES ASSUME Calm' PROVE ListsAgree'
    BY DEF ListsOK
  <1> DEFINE ans == [i \in EntryId |-> IF i \in {id} THEN "none" ELSE answer[i]]
             none == [i \in EntryId |-> IF i \in 1..entries THEN "none" ELSE answer[i]]
  <1>1. root \in Seq(Ours) /\ ans[id] = "none" /\ entries \in Nat
    BY DEF IInv, RegistryOK, HistoryOK
  <1>2. CASE Unpair(id)
    <2>1. CASE \E k \in DOMAIN root : root[k].id = id /\ Change("unpair", id, RemoveAt(root, k), {id})
      <3>1. PICK k \in DOMAIN root : root[k].id = id /\ Change("unpair", id, RemoveAt(root, k), {id})
        BY <2>1
      <3> DEFINE d == RemoveAt(root, k)
      <3>2. Fits(ans, entries, root) => Fits(ans, entries, d) /\ id \notin Ids(d)
        <4> HIDE DEF ans
        <4>1. QED
          BY <1>1, <3>1, FitsRemove
      <3>3. Fits(ans, entries, root) => Fits(ans, entries, d) /\ Done("unpair", id, ans, d)
        BY <3>2 DEF Done
      <3>4. Change("unpair", id, d, {id}) /\ id <= entries
        BY <1>2, <3>1 DEF Unpair
      <3> HIDE DEF d
      <3>5. QED
        BY <3>3, <3>4, ChangeLists
    <2>2. CASE id \notin Ids(root) /\ Change("unpair", id, root, {id})
      <3>1. Fits(ans, entries, root) => Fits(ans, entries, root) /\ Done("unpair", id, ans, root)
        BY <2>2 DEF Done
      <3>2. Change("unpair", id, root, {id}) /\ id <= entries
        BY <1>2, <2>2 DEF Unpair
      <3>3. QED
        BY <3>1, <3>2, ChangeLists
    <2>3. QED
      BY <1>2, <2>1, <2>2 DEF Unpair
  <1>3. CASE \E on \in BOOLEAN : SetEnabled(id, on)
    <2>1. PICK on \in BOOLEAN : SetEnabled(id, on)
      BY <1>3
    <2> DEFINE d == [i \in DOMAIN root |->
                       IF root[i].id = id THEN [root[i] EXCEPT !.enabled = on] ELSE root[i]]
               op == IF on THEN "enable" ELSE "disable"
    <2>2. Change(op, id, d, {id}) /\ id \in Ids(root)
      BY <2>1 DEF SetEnabled
    <2>3. Fits(ans, entries, root) => Fits(ans, entries, d) /\ Present(id, on, d)
      <3> HIDE DEF ans
      <3>1. QED
        BY <1>1, <2>2, FitsSetEnabled
    <2>4. Fits(ans, entries, root) => Fits(ans, entries, d) /\ Done(op, id, ans, d)
      <3> HIDE DEF d, ans
      <3>1. CASE on
        BY <2>3, <3>1 DEF Done
      <3>2. CASE ~on
        BY <2>3, <3>2 DEF Done
      <3>3. QED
        BY <3>1, <3>2
    <2>5. id <= entries
      <3>1. Begin("config", op, id, NoClient) /\ writer["config"].pc = "idle" /\ failed' = failed
        BY <2>2 DEF Change, ConfigFree
      <3>2. ListsAgree
        BY <3>1, BeginsAlone DEF Writer
      <3>3. QED
        BY <1>1, <2>2, <3>2 DEF ListsAgree, Fits
    <2> HIDE DEF d, op
    <2>6. QED
      BY <2>2, <2>4, <2>5, ChangeLists
  <1>4. CASE EraseAll
    <2>1. Change("eraseAll", 0, <<>>, 1..entries) /\ 0 <= entries
      BY <1>1, <1>4 DEF EraseAll
    <2>2. Fits(none, entries, root) => Fits(none, entries, <<>>) /\ Done("eraseAll", 0, none, <<>>)
      <3>1. SUFFICES ASSUME Fits(none, entries, root) PROVE Fits(none, entries, <<>>)
        BY DEF Done
      <3>2. \A i \in EntryId : none[i] = "none"
        <4>1. \A i \in EntryId : i \in 1..entries \/ i > entries
          BY <1>1 DEF EntryId
        <4>2. \A i \in EntryId : i \in 1..entries => none[i] = "none"
          OBVIOUS
        <4> HIDE DEF none
        <4>3. QED
          BY <3>1, <4>1, <4>2 DEF Fits
      <3> HIDE DEF none
      <3>3. Ids(<<>>) = {} /\ \A j, k \in DOMAIN <<>> : j = k
        BY DEF Ids
      <3>4. QED
        BY ONLY <3>2, <3>3 DEF Fits
    <2>3. QED
      BY <2>1, <2>2, ChangeLists
  <1>5. QED
    BY <1>2, <1>3, <1>4

\* A restart reads what the file has, which is whole.
LEMMA RestartLists == ASSUME IInv, ListsOK, Restart PROVE ListsOK'
  <1> SUFFICES ASSUME Calm' PROVE ListsAgree'
    BY DEF ListsOK
  <1>1. Calm /\ ~file.torn
    <2>1. failed' = (failed \/ file.torn) /\ overlap' = overlap /\ ~failed' /\ ~overlap'
      BY DEF Restart, Calm
    <2>2. failed \in BOOLEAN /\ file.torn \in BOOLEAN
      BY DEF IInv, HistoryOK, RegistryOK
    <2>3. QED
      BY <2>1, <2>2 DEF Calm
  <1>2. Fits(answer, entries, file.devices)
    BY <1>1 DEF ListsOK, ListsAgree
  <1>3. root' = file.devices /\ UNCHANGED <<file, answer, entries>>
    BY DEF Restart
  <1>4. \A w \in Writer : writer'[w].pc = "idle"
    BY DEF Restart, Idle
  <1>5. \A w \in Writer : WriterOK(writer'[w], answer, entries, file.devices, file)
    BY <1>4 DEF WriterOK
  <1>6. QED
    BY <1>1, <1>2, <1>3, <1>4, <1>5 DEF ListsAgree, Busy

LEMMA NextLists == IInv /\ ListsOK /\ [Next]_vars => ListsOK'
  <1> SUFFICES ASSUME IInv, ListsOK, [Next]_vars PROVE ListsOK'
    OBVIOUS
  <1>1. ASSUME NEW c \in Client, NEW a \in Attempt,
               \/ GetServerCert(c, a) \/ ClientChallenge(c, a) \/ ServerChallengeResp(c, a)
               \/ ClientPairingSecretFails(c, a)
        PROVE  ListsOK'
    BY <1>1, FrameSteps DEF GetServerCert, ClientChallenge, ServerChallengeResp,
                            ClientPairingSecretFails, history
  <1>2. ASSUME NEW c \in Client, NEW a \in Attempt, ClientPairingSecret(c, a) PROVE ListsOK'
    BY <1>2, PairingLists
  <1>3. ASSUME NEW c \in Client, NEW p \in Client \union {NoClient}, Pin(c, p) PROVE ListsOK'
    BY <1>3, FrameSteps DEF Pin
  <1>4. ASSUME NEW id \in EntryId, Unpair(id) \/ \E on \in BOOLEAN : SetEnabled(id, on) PROVE ListsOK'
    BY <1>4, RegistryLists
  <1>5. CASE EraseAll
    <2>1. 1 \in EntryId
      BY PairingAssumption DEF EntryId
    <2>2. QED
      BY <1>5, <2>1, RegistryLists
  <1>6. ASSUME NEW w \in Writer, WriterStep(w) PROVE ListsOK'
    BY <1>6, SaveLists, AnswerLists DEF WriterStep
  <1>7. CASE Read \/ ClearChain \/ FillChain \/ AssignRoot
    BY <1>7, LoadLists
  <1>8. CASE Verify
    BY <1>8, FrameSteps DEF Verify, history
  <1>9. CASE Restart
    BY <1>9, RestartLists
  <1>10. CASE UNCHANGED vars
    BY <1>10, FrameSteps DEF vars, history
  <1>11. QED
    BY <1>1, <1>2, <1>3, <1>4, <1>5, <1>6, <1>7, <1>8, <1>9, <1>10 DEF Next

-----------------------------------------------------------------------------
(* The chain of certificates *)

\* What a writer saves, and loads again, is the registry as it stands.
CopyOK(r, rt, f) ==
  /\ r.pc \in {"open", "write", "clear", "fill", "assign"} => r.copy = rt
  /\ r.pc = "read" => f.devices = rt

Known(rt, ch, q) == Certs(rt) \subseteq ch \union Range(q)

ChainOK ==
  Calm => /\ \A w \in Writer : CopyOK(writer[w], root, file)
          /\ writer["config"].pc # "fill" => Known(root, chain, queue)

\* The certificates of a list with one more, fewer or changed entries.
LEMMA CertsAppend ==
  ASSUME NEW S, NEW d \in Seq(S), NEW e \in S PROVE Certs(Append(d, e)) \subseteq Certs(d) \union {e.cert}
  <1>1. /\ DOMAIN d = 1..Len(d) /\ DOMAIN Append(d, e) = 1..Len(d) + 1 /\ Len(d) \in Nat
        /\ \A k \in 1..Len(d) : Append(d, e)[k] = d[k]
        /\ Append(d, e)[Len(d) + 1] = e
    BY AppendProperties, LenProperties
  <1> DEFINE l == Append(d, e)
  <1> HIDE DEF l
  <1>2. \A k \in DOMAIN l : l[k] = e \/ \E j \in DOMAIN d : l[k] = d[j]
    BY <1>1 DEF l
  <1>3. Certs(l) \subseteq Certs(d) \union {e.cert}
    BY <1>2 DEF Certs
  <1>4. QED
    BY <1>3 DEF l

LEMMA CertsRemoveAt ==
  ASSUME NEW S, NEW d \in Seq(S), NEW k \in DOMAIN d PROVE Certs(RemoveAt(d, k)) \subseteq Certs(d)
  <1> DEFINE r == RemoveAt(d, k)
  <1>1. DOMAIN d = 1..Len(d) /\ Len(d) \in Nat
    BY LenProperties
  <1>2. /\ r \in Seq(S) /\ Len(r) = Len(d) - 1
        /\ \A j \in 1..Len(d) - 1 : r[j] = IF j < k THEN d[j] ELSE d[j + 1]
    BY <1>1, RemoveAtElements
  <1> HIDE DEF r
  <1>3. DOMAIN r = 1..Len(d) - 1
    BY <1>2, LenProperties
  <1>4. \A j \in DOMAIN r : \E m \in DOMAIN d : r[j] = d[m]
    BY <1>1, <1>2, <1>3
  <1>5. Certs(r) \subseteq Certs(d)
    BY <1>4 DEF Certs
  <1>6. QED
    BY <1>5 DEF r

LEMMA RangeAppend ==
  ASSUME NEW S, NEW q \in Seq(S), NEW c \in S PROVE Range(Append(q, c)) = Range(q) \union {c}
  <1> DEFINE l == Append(q, c)
  <1>1. /\ DOMAIN q = 1..Len(q) /\ DOMAIN l = 1..Len(q) + 1 /\ Len(q) \in Nat
        /\ \A k \in 1..Len(q) : l[k] = q[k]
        /\ l[Len(q) + 1] = c
    BY AppendProperties, LenProperties
  <1> HIDE DEF l
  <1>2. Range(l) = Range(q) \union {c}
    BY <1>1 DEF Range
  <1>3. QED
    BY <1>2 DEF l

LEMMA InitChain == Init => ChainOK
  BY DEF Init, ChainOK, CopyOK, Known, Certs, Idle, Writer

\* What does not touch the registry, the file or the writers: at most a
\* certificate moves from the queue to the chain.
LEMMA FrameChain ==
  ASSUME ChainOK, UNCHANGED <<root, file, writer, overlap, failed>>,
         chain' \union Range(queue') = chain \union Range(queue)
  PROVE  ChainOK'
  BY DEF ChainOK, Calm, Known

LEMMA VerifyChain == ASSUME IInv, ChainOK, Verify PROVE ChainOK'
  <1>1. Range(queue') = {}
    BY DEF Verify, Range
  <1>2. UNCHANGED <<root, file, writer, overlap, failed>>
    BY DEF Verify, history
  <1>3. chain' \union Range(queue') = chain \union Range(queue)
    BY <1>1 DEF Verify
  <1>4. QED
    BY <1>2, <1>3, FrameChain

\* Saving and loading, and the end of a request.
LEMMA WriterChain ==
  ASSUME IInv, ListsOK, ChainOK, NEW w \in Writer,
         \/ WriterStep(w)
         \/ w = "config" /\ (Read \/ ClearChain \/ FillChain \/ AssignRoot)
  PROVE  ChainOK'
  <1> SUFFICES ASSUME Calm'
               PROVE  /\ \A v \in Writer : CopyOK(writer'[v], root', file')
                      /\ writer'["config"].pc # "fill" => Known(root', chain', queue')
    BY DEF ChainOK
  <1>1. ~SaveFails(w) /\ UNCHANGED <<queue, overlap, failed>> /\ Busy(w)
    BY DEF WriterStep, SaveFails, Build, Open, Write, Answer, Read, ClearChain, FillChain, AssignRoot,
           history, Calm, Busy
  <1>2. /\ ListsAgree /\ \A v \in Writer : CopyOK(writer[v], root, file)
        /\ writer["config"].pc # "fill" => Known(root, chain, queue)
    BY <1>1 DEF ListsOK, ChainOK, Calm
  <1>3. \A v \in Writer \ {w} : writer[v].pc = "idle"
    BY <1>1, <1>2 DEF ListsAgree, Busy
  <1>4. CopyOK(writer[w], root, file)
    BY <1>2
  <1>5. ASSUME \A v \in Writer \ {w} : writer'[v] = writer[v], CopyOK(writer'[w], root', file')
        PROVE  \A v \in Writer : CopyOK(writer'[v], root', file')
    BY <1>3, <1>5 DEF CopyOK
  <1> DEFINE r == writer[w]
             q == writer'[w]
             KnownThen == writer'["config"].pc # "fill" => Known(root', chain', queue')
  <1>6. CASE Build(w)
    <2>1. /\ q.pc = "open" /\ q.copy = root /\ \A v \in Writer \ {w} : writer'[v] = writer[v]
      BY <1>6, HoldFields DEF Build
    <2>2. UNCHANGED <<root, file, chain>> /\ r.pc = "build"
      BY <1>6 DEF Build
    <2>3. CopyOK(q, root', file')
      BY <2>1, <2>2 DEF CopyOK
    <2>4. KnownThen
      BY <1>1, <1>2, <1>3, <2>1, <2>2 DEF Writer
    <2>5. QED
      BY <1>5, <2>1, <2>3, <2>4
  <1>7. CASE Open(w) \/ Write(w)
    <2>1. /\ q.pc \in {"write", "read", "answer"} /\ q.copy = r.copy
          /\ \A v \in Writer \ {w} : writer'[v] = writer[v]
          /\ q.pc = "read" => file'.devices = r.copy
      <3>1. Saved(w) \in {"read", "answer"}
        BY DEF Saved
      <3>2. CASE Open(w)
        BY <3>2, GotoFields DEF Open
      <3>3. CASE Write(w)
        BY <3>1, <3>3, GotoFields DEF Write
      <3>4. QED
        BY <1>7, <3>2, <3>3
    <2>2. UNCHANGED <<root, chain>> /\ r.pc \in {"open", "write"}
      BY <1>7 DEF Open, Write
    <2>3. CopyOK(q, root', file')
      BY <1>4, <2>1, <2>2 DEF CopyOK
    <2>4. KnownThen
      BY <1>1, <1>2, <1>3, <2>1, <2>2 DEF Writer
    <2>5. QED
      BY <1>5, <2>1, <2>3, <2>4
  <1>8. CASE Answer(w)
    <2>1. /\ q.pc = "idle" /\ r.pc = "answer" /\ \A v \in Writer \ {w} : writer'[v] = writer[v]
      BY <1>8 DEF Answer, IInv, WritersOK, Idle
    <2>2. UNCHANGED <<root, file, chain>>
      BY <1>8 DEF Answer
    <2>3. CopyOK(q, root', file')
      BY <2>1 DEF CopyOK
    <2>4. KnownThen
      BY <1>1, <1>2, <1>3, <2>1, <2>2 DEF Writer
    <2>5. QED
      BY <1>5, <2>1, <2>3, <2>4
  <1>9. CASE w = "config" /\ Read
    <2>1. ~file.torn
      BY <1>2, <1>9 DEF ListsAgree, WriterOK, Read
    <2>2. /\ q.pc = "clear" /\ q.copy = file.devices /\ r.pc = "read"
          /\ \A v \in Writer \ {w} : writer'[v] = writer[v]
      BY <1>9, <2>1, HoldFields DEF Read
    <2>3. UNCHANGED <<root, file, chain>>
      BY <1>9 DEF Read
    <2>4. CopyOK(q, root', file')
      BY <1>4, <2>2, <2>3 DEF CopyOK
    <2>5. KnownThen
      BY <1>1, <1>2, <1>9, <2>2, <2>3
    <2>6. QED
      BY <1>5, <2>2, <2>4, <2>5
  <1>10. CASE w = "config" /\ (ClearChain \/ FillChain)
    <2>1. /\ q.copy = r.copy /\ \A v \in Writer \ {w} : writer'[v] = writer[v]
          /\ q.pc \in {"fill", "assign"} /\ r.pc \in {"clear", "fill"}
          /\ q.pc = "assign" => chain' = chain \union Certs(r.copy)
      BY <1>10, GotoFields DEF ClearChain, FillChain
    <2>2. UNCHANGED <<root, file>>
      BY <1>10 DEF ClearChain, FillChain
    <2>3. CopyOK(q, root', file') /\ r.copy = root
      BY <1>4, <2>1, <2>2 DEF CopyOK
    <2>4. KnownThen
      BY <1>10, <2>1, <2>2, <2>3 DEF Known
    <2>5. QED
      BY <1>5, <2>1, <2>3, <2>4
  <1>11. CASE w = "config" /\ AssignRoot
    <2>1. /\ q.pc = "answer" /\ \A v \in Writer \ {w} : writer'[v] = writer[v]
      BY <1>11, GotoFields DEF AssignRoot
    <2>2. root' = r.copy /\ r.pc = "assign" /\ UNCHANGED <<file, chain>>
      BY <1>11 DEF AssignRoot
    <2>3. CopyOK(q, root', file') /\ r.copy = root
      BY <1>4, <2>1, <2>2 DEF CopyOK
    <2>4. KnownThen
      BY <1>1, <1>2, <1>11, <2>1, <2>2, <2>3
    <2>5. QED
      BY <1>5, <2>1, <2>3, <2>4
  <1>12. QED
    BY <1>1, <1>6, <1>7, <1>8, <1>9, <1>10, <1>11 DEF WriterStep

\* A new request: nothing is held yet.
LEMMA BeginChain ==
  ASSUME IInv, ListsOK, ChainOK, Calm', NEW w \in Writer, NEW op, NEW id, NEW c, Begin(w, op, id, c),
         writer[w].pc = "idle", failed => failed',
         Known(root, chain, queue) => Known(root', chain', queue')
  PROVE  ChainOK'
  <1>1. /\ Calm /\ \A v \in Writer \ {w} : ~Busy(v) /\ writer'[v] = writer[v]
        /\ writer'[w].pc = "build"
    BY BeginsAlone
  <1>2. \A v \in Writer : writer[v].pc = "idle" /\ writer'[v].pc \in {"idle", "build"}
    BY <1>1 DEF Busy
  <1>3. \A v \in Writer : CopyOK(writer'[v], root', file')
    BY <1>2 DEF CopyOK
  <1>4. Known(root, chain, queue)
    BY <1>1, <1>2 DEF ChainOK, Writer
  <1>5. QED
    BY <1>3, <1>4 DEF ChainOK

LEMMA PairingChain ==
  ASSUME IInv, ListsOK, ChainOK, NEW c \in Client, NEW a \in Attempt, ClientPairingSecret(c, a)
  PROVE  ChainOK'
  <1> SUFFICES ASSUME Calm' PROVE ChainOK'
    BY DEF ChainOK
  <1> DEFINE n == entries + 1
             e == [cert |-> c, id |-> n, enabled |-> TRUE]
             full == Len(queue) = QueueMax
  <1>1. failed' = (failed \/ full) /\ failed \in BOOLEAN /\ full \in BOOLEAN /\ ~failed'
    BY DEF ClientPairingSecret, IInv, HistoryOK, Calm
  <1>2. ~full /\ (failed => failed')
    <2> HIDE DEF full
    <2>1. QED
      BY <1>1
  <1>3. queue' = Append(queue, c) /\ chain' = chain
    BY <1>2 DEF ClientPairingSecret, Raise
  <1>4. Range(queue') = Range(queue) \union {c}
    <2>1. queue \in Seq(confirmed) /\ confirmed \subseteq Client
      BY DEF IInv, RegistryOK, HistoryOK
    <2>2. queue \in Seq(Client)
      BY <2>1, SeqMonotone
    <2>3. QED
      BY <1>3, <2>2, RangeAppend
  <1>5. Certs(root') \subseteq Certs(root) \union {c}
    <2>1. root' = Append(root, e) /\ root \in Seq(Ours) /\ e.cert = c
      BY DEF ClientPairingSecret, IInv, RegistryOK
    <2>2. root \in Seq(Ours \union {e})
      BY <2>1, SeqMonotone
    <2> HIDE DEF e
    <2>3. QED
      BY <2>1, <2>2, CertsAppend
  <1>6. Known(root, chain, queue) => Known(root', chain', queue')
    BY <1>3, <1>4, <1>5 DEF Known
  <1>7. Begin("http", "pair", n, c) /\ writer["http"].pc = "idle" /\ "http" \in Writer
    BY DEF ClientPairingSecret, Request, HttpFree, Writer
  <1> HIDE DEF n
  <1>8. QED
    BY <1>2, <1>6, <1>7, BeginChain

LEMMA RegistryChain ==
  ASSUME IInv, ListsOK, ChainOK, NEW id \in EntryId,
         Unpair(id) \/ (\E on \in BOOLEAN : SetEnabled(id, on)) \/ EraseAll
  PROVE  ChainOK'
  <1> SUFFICES ASSUME Calm' PROVE ChainOK'
    BY DEF ChainOK
  <1>1. root \in Seq(Ours) /\ Certs(<<>>) = {}
    BY DEF IInv, RegistryOK, Certs
  <1>2. ASSUME NEW op, NEW i, NEW d, NEW open, Change(op, i, d, open),
               (chain' = chain /\ Certs(d) \subseteq Certs(root)) \/ d = <<>>
        PROVE  ChainOK'
    <2>1. /\ Begin("config", op, i, NoClient) /\ writer["config"].pc = "idle" /\ "config" \in Writer
          /\ root' = d /\ queue' = queue /\ failed' = failed
      BY <1>2 DEF Change, ConfigFree, Writer
    <2>2. Known(root, chain, queue) => Known(root', chain', queue')
      BY <1>1, <1>2, <2>1 DEF Known
    <2>3. QED
      BY <2>1, <2>2, BeginChain
  <1>3. CASE Unpair(id)
    <2>1. CASE \E k \in DOMAIN root : root[k].id = id /\ Change("unpair", id, RemoveAt(root, k), {id})
      <3>1. PICK k \in DOMAIN root : Change("unpair", id, RemoveAt(root, k), {id})
        BY <2>1
      <3>2. Certs(RemoveAt(root, k)) \subseteq Certs(root) /\ chain' = chain
        BY <1>1, <1>3, CertsRemoveAt DEF Unpair
      <3>3. QED
        BY <1>2, <3>1, <3>2
    <2>2. CASE Change("unpair", id, root, {id})
      BY <1>2, <1>3, <2>2 DEF Unpair
    <2>3. QED
      BY <1>3, <2>1, <2>2 DEF Unpair
  <1>4. CASE \E on \in BOOLEAN : SetEnabled(id, on)
    <2>1. PICK on \in BOOLEAN : SetEnabled(id, on)
      BY <1>4
    <2> DEFINE d == [i \in DOMAIN root |->
                       IF root[i].id = id THEN [root[i] EXCEPT !.enabled = on] ELSE root[i]]
               op == IF on THEN "enable" ELSE "disable"
    <2>2. Change(op, id, d, {id}) /\ chain' = chain
      BY <2>1 DEF SetEnabled
    <2>3. \A i \in DOMAIN root : d[i].cert = root[i].cert
      <3>1. \A i \in DOMAIN root : root[i] \in Ours
        BY <1>1, ElementOfSeq, LenProperties
      <3>2. QED
        BY <3>1 DEF Ours
    <2>4. DOMAIN d = DOMAIN root
      OBVIOUS
    <2> HIDE DEF d, op
    <2>5. Certs(d) \subseteq Certs(root)
      BY <2>3, <2>4 DEF Certs
    <2>6. QED
      BY <1>2, <2>2, <2>5
  <1>5. CASE EraseAll
    <2>1. Change("eraseAll", 0, <<>>, 1..entries)
      BY <1>5 DEF EraseAll
    <2>2. QED
      BY <1>2, <2>1
  <1>6. QED
    BY <1>3, <1>4, <1>5

LEMMA RestartChain == ASSUME IInv, ChainOK, Restart PROVE ChainOK'
  <1>1. \A w \in Writer : writer'[w].pc = "idle"
    BY DEF Restart, Idle
  <1>2. \A w \in Writer : CopyOK(writer'[w], root', file')
    BY <1>1 DEF CopyOK
  <1>3. Known(root', chain', queue')
    BY DEF Restart, Known
  <1>4. QED
    BY <1>2, <1>3 DEF ChainOK

LEMMA NextChain == IInv /\ ListsOK /\ ChainOK /\ [Next]_vars => ChainOK'
  <1> SUFFICES ASSUME IInv, ListsOK, ChainOK, [Next]_vars PROVE ChainOK'
    OBVIOUS
  <1>1. ASSUME NEW c \in Client, NEW a \in Attempt,
               \/ GetServerCert(c, a) \/ ClientChallenge(c, a) \/ ServerChallengeResp(c, a)
               \/ ClientPairingSecretFails(c, a)
        PROVE  ChainOK'
    BY <1>1, FrameChain DEF GetServerCert, ClientChallenge, ServerChallengeResp,
                            ClientPairingSecretFails, history
  <1>2. ASSUME NEW c \in Client, NEW a \in Attempt, ClientPairingSecret(c, a) PROVE ChainOK'
    BY <1>2, PairingChain
  <1>3. ASSUME NEW c \in Client, NEW p \in Client \union {NoClient}, Pin(c, p) PROVE ChainOK'
    BY <1>3, FrameChain DEF Pin
  <1>4. ASSUME NEW id \in EntryId, Unpair(id) \/ \E on \in BOOLEAN : SetEnabled(id, on) PROVE ChainOK'
    BY <1>4, RegistryChain
  <1>5. CASE EraseAll
    <2>1. 1 \in EntryId
      BY PairingAssumption DEF EntryId
    <2>2. QED
      BY <1>5, <2>1, RegistryChain
  <1>6. ASSUME NEW w \in Writer, WriterStep(w) PROVE ChainOK'
    BY <1>6, WriterChain
  <1>7. CASE Read \/ ClearChain \/ FillChain \/ AssignRoot
    BY <1>7, WriterChain DEF Writer
  <1>8. CASE Verify
    BY <1>8, VerifyChain
  <1>9. CASE Restart
    BY <1>9, RestartChain
  <1>10. CASE UNCHANGED vars
    BY <1>10, FrameChain DEF vars, history
  <1>11. QED
    BY <1>1, <1>2, <1>3, <1>4, <1>5, <1>6, <1>7, <1>8, <1>9, <1>10 DEF Next

-----------------------------------------------------------------------------
(* The theorems *)

\* What the client was told about its pairing, and the user about a change,
\* holds in memory and in the file, unless two writers overlapped or a save
\* failed.
THEOREM AnswersKept == Spec => []AnswersHold
  <1>1. IInv /\ ListsOK => AnswersHold
    <2> SUFFICES ASSUME IInv, ListsOK, Calm, NEW i \in EntryId
                 PROVE  Holds(i, root) /\ (file.torn \/ Holds(i, file.devices))
      BY DEF AnswersHold, Calm
    <2>1. answer[i] \in {"none", "pairing", "on", "off", "gone"}
      BY DEF IInv, HistoryOK
    <2>2. ASSUME NEW d, Fits(answer, entries, d) PROVE Holds(i, d)
      BY <2>1, <2>2 DEF Fits, Holds, Present
    <2>3. QED
      BY <2>2 DEF ListsOK, ListsAgree
  <1>2. QED
    BY <1>1, InitIInv, NextIInv, InitLists, NextLists, PTL DEF Spec

\* A client that was told it is paired, and whose every entry is enabled, is
\* accepted, except while load_state() fills the chain again.
THEOREM PairedGetIn == Spec => []PairedIsAccepted
  <1>1. ChainOK => PairedIsAccepted
    <2> SUFFICES ASSUME ChainOK, Calm, writer["config"].pc # "fill", NEW i \in DOMAIN root,
                        \A j \in DOMAIN root : root[j].cert = root[i].cert => root[j].enabled
                 PROVE  Accepted(root[i].cert)
      BY DEF PairedIsAccepted, Calm
    <2>1. root[i].cert \in chain \union Range(queue)
      BY DEF ChainOK, Known, Certs
    <2>2. IsEnabled(root, root[i].cert)
      BY DEF IsEnabled
    <2>3. QED
      BY <2>1, <2>2 DEF Accepted
  <1>2. QED
    BY <1>1, InitIInv, NextIInv, InitLists, NextLists, InitChain, NextChain, PTL DEF Spec
=============================================================================
