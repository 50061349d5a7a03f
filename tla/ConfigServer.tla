---------------------------- MODULE ConfigServer ----------------------------
(***************************************************************************)
(* The configuration server (confighttp.cpp) and what it keeps: the        *)
(* credentials of the user, which share a file with the paired clients of  *)
(* the game server, the key and the certificate that the host makes for    *)
(* itself, and the tokens against requests of other sites.                 *)
(*                                                                         *)
(* One thread serves the requests one after the other; the game server     *)
(* saves its clients on another.  Each reads the file, puts its part into  *)
(* what it read, empties the file and fills it.                            *)
(***************************************************************************)
EXTENDS Naturals, Sequences

CONSTANTS Tab,        \* who talks to the server
          Foreign,    \* those that are pages of a site not in csrf_allowed_origins
          Cred,       \* a user name and a password
          NoCred,
          MaxToken, MaxCrash, MaxRemove,  \* bounds
          MayFail,    \* may a file not open
          MayOverlap, \* may both servers be at the file at once
          MayStream   \* does the client stream

VARIABLES up,         \* the process: "off", "serving" or where it is with the two files
          cred,       \* config::sunshine.username, salt and password
          paired,     \* client_root: is there a client
          file,       \* the state file: credentials and clients, or Torn
          key, cert,  \* those files: Absent, Damaged or the generation they are of
          writer,     \* where each server is with the file, and the tree it will write
          token,      \* csrf_tokens: by client id, the token and is it within its hour
          issued,     \* the tokens that were made
          tab,        \* what each tab knows: credentials and a token
          accepted,   \* the last request that was let in, and its token
          promised,   \* history: the credentials the user was told to be theirs
          excused,    \* history: a file did not open, a crash, or both at the file at once
          answer,     \* the responses to the last request
          enabled,    \* named_cert.enabled of the client
          session,    \* what it is at: "none", "launched" or "streaming"
          app,        \* an application runs
          slipped,    \* history: the client was put out between its launch and its stream
          crashes, removed

stateVars == <<cred, paired, file, writer>>
keyVars == <<key, cert>>
tokenVars == <<token, issued, tab, accepted>>
clientVars == <<enabled, session, app, slipped>>
historyVars == <<promised, excused, answer, crashes, removed>>
configVars == <<up, stateVars, keyVars, tokenVars, clientVars, historyVars>>

Server == {"config", "game"}
Content == [cred : Cred \union {NoCred}, paired : BOOLEAN]
Empty == [cred |-> NoCred, paired |-> FALSE]
Torn == [cred |-> NoCred, paired |-> TRUE, torn |-> TRUE]
Idle == [pc |-> "idle", tree |-> Empty]
NoToken == [n |-> 0, fresh |-> FALSE]
Nobody == [by |-> "nobody", id |-> NoCred, token |-> 0]
Absent == 0
Damaged == MaxCrash + MaxRemove + 3

\* get_client_id(): the name in the Authorization header, while there is a
\* name at all, or the address, which all tabs share.
ClientId(t) == IF cred # NoCred /\ tab[t].cred # NoCred THEN tab[t].cred ELSE NoCred

\* A process that is at p, with the credentials c and keys of generation g.
StartsAt(p, c, g) ==
  /\ up = p /\ cred = c /\ paired = FALSE /\ file = [Empty EXCEPT !.cred = c]
  /\ key = g /\ cert = g
  /\ writer = [s \in Server |-> Idle]
  /\ token = [d \in Cred \union {NoCred} |-> NoToken] /\ issued = 0
  /\ tab = [t \in Tab |-> [cred |-> NoCred, token |-> 0]]
  /\ accepted = Nobody
  /\ promised = c /\ excused = FALSE /\ answer = <<"ok">>
  /\ enabled = TRUE /\ session = "none" /\ app = FALSE /\ slipped = FALSE
  /\ crashes = 0 /\ removed = 0

Init == StartsAt("off", NoCred, Absent)

\* A host that was set up and started before: a state that Next reaches.
SetUp(c) == StartsAt("serving", c, 1)

Start0 == Init \/ \E c \in Cred : SetUp(c)

-----------------------------------------------------------------------------
(* http::init() and the end of the process *)

\* create_creds(): both files are made when one is missing, the key first.
Generation == crashes + removed + 1

CreateKeys ==
  /\ up = "off" /\ (key = Absent \/ cert = Absent)
  /\ up' = "keys" /\ key' = Damaged
  /\ UNCHANGED <<stateVars, cert, tokenVars, clientVars, historyVars>>

CreateCertificate ==
  /\ \/ up = "keys" /\ up' = "between" /\ key' = Generation /\ UNCHANGED cert
     \/ up = "between" /\ up' = "certificate" /\ cert' = Damaged /\ UNCHANGED key
  /\ UNCHANGED <<stateVars, tokenVars, clientVars, historyVars>>

\* The credentials are loaded if the file has them; load_state() takes the
\* clients.  A file that cannot be parsed gives neither.
Load == /\ up' = "serving"
        /\ cred' = IF file = Torn THEN NoCred ELSE file.cred
        /\ paired' = (file # Torn /\ file.paired)

Start ==
  /\ \/ up = "off" /\ key # Absent /\ cert # Absent /\ UNCHANGED cert
     \/ up = "certificate" /\ cert' = Generation
  /\ key # Damaged /\ cert' # Damaged
  /\ Load
  /\ UNCHANGED <<file, writer, key, tokenVars, clientVars, historyVars>>

\* The process dies wherever it is: tokens and unfinished work are lost.
Crash ==
  /\ up # "off" /\ crashes < MaxCrash /\ crashes' = crashes + 1
  /\ up' = "off" /\ cred' = NoCred /\ paired' = FALSE
  /\ writer' = [s \in Server |-> Idle]
  /\ token' = [c \in Cred \union {NoCred} |-> NoToken]
  /\ excused' = (excused \/ \E s \in Server : writer[s] # Idle)
  /\ accepted' = Nobody /\ session' = "none" /\ app' = FALSE
  /\ UNCHANGED <<file, keyVars, issued, tab, enabled, slipped, promised, answer, removed>>

\* The user deletes one of the two files.
Remove ==
  /\ up = "off" /\ removed < MaxRemove /\ removed' = removed + 1
  /\ \/ key' = Absent /\ UNCHANGED cert
     \/ cert' = Absent /\ UNCHANGED key
  /\ UNCHANGED <<up, stateVars, tokenVars, clientVars, promised, excused, answer, crashes>>

-----------------------------------------------------------------------------
(* save_user_creds() and save_state(): read, empty, fill *)

others == <<up, keyVars, tokenVars, clientVars, crashes, removed>>

Free(s) == writer[s] = Idle /\ (MayOverlap \/ \A r \in Server : writer[r] = Idle)

\* The tree that a server writes: what it read with its own part replaced.
Begin(s, tree) ==
  /\ writer' = [writer EXCEPT ![s] = [pc |-> "write", tree |-> tree]]
  /\ excused' = (excused \/ \E r \in Server : writer[r] # Idle)

Empties(s) ==
  /\ up = "serving" /\ writer[s].pc = "write"
  /\ \/ /\ file' = Torn /\ writer' = [writer EXCEPT ![s].pc = "fill"] /\ UNCHANGED excused
     \/ /\ MayFail /\ writer' = [writer EXCEPT ![s].pc = "done"]
        /\ excused' = TRUE /\ UNCHANGED file
  /\ UNCHANGED <<others, cred, paired, promised, answer>>

Fills(s) ==
  /\ up = "serving" /\ writer[s].pc = "fill"
  /\ file' = writer[s].tree /\ writer' = [writer EXCEPT ![s].pc = "done"]
  /\ UNCHANGED <<others, cred, paired, promised, excused, answer>>

\* reload_user_creds(): the memory follows the file, and the user is told that
\* all went well, whatever came of the two.
Saved ==
  /\ up = "serving" /\ writer["config"].pc = "done"
  /\ writer' = [writer EXCEPT !["config"] = Idle]
  /\ cred' = IF file = Torn \/ file.cred = NoCred THEN cred ELSE file.cred
  /\ promised' = writer["config"].tree.cred
  /\ UNCHANGED <<others, paired, file, excused, answer>>

SavedState ==
  /\ up = "serving" /\ writer["game"].pc = "done"
  /\ writer' = [writer EXCEPT !["game"] = Idle]
  /\ UNCHANGED <<others, cred, paired, file, promised, excused, answer>>

\* Faulty: the file is made anew.
SaveOnlyClients(on) ==
  /\ paired' = on
  /\ IF file = Torn THEN excused' = TRUE /\ UNCHANGED writer
                    ELSE Begin("game", [Empty EXCEPT !.paired = on])

\* The game server's part is the clients in memory.  What cannot be read is not
\* written.
SaveState(on) ==
  /\ paired' = on
  /\ IF file = Torn THEN excused' = TRUE /\ UNCHANGED writer
                    ELSE Begin("game", [file EXCEPT !.paired = on])

-----------------------------------------------------------------------------
(* The game server and its client *)

Pair == /\ up = "serving" /\ Free("game") /\ ~paired
        /\ SaveState(TRUE) /\ enabled' = TRUE
        /\ UNCHANGED <<up, cred, file, keyVars, tokenVars, session, app, slipped, promised,
                       answer, crashes, removed>>

\* A client that is known and enabled launches, streams by RTSP, and ends.
Stream ==
  /\ MayStream /\ up = "serving"
  /\ \/ session = "none" /\ paired /\ enabled /\ session' = "launched" /\ app' = TRUE
     \/ session = "launched" /\ session' = "streaming" /\ UNCHANGED app
     \/ session # "none" /\ session' = "none" /\ UNCHANGED app
  /\ slipped' = (slipped /\ session' # "none")
  /\ UNCHANGED <<up, stateVars, keyVars, tokenVars, enabled, historyVars>>

-----------------------------------------------------------------------------
(* Requests *)

\* What each handler that changes something asks for before it does.
Asks == [saveApp |-> {"json", "auth", "csrf"}, deleteApp |-> {"auth", "csrf"},
         closeApp |-> {"auth", "csrf"}, updateClient |-> {"json", "auth", "csrf"},
         unpair |-> {"json", "auth", "csrf"}, unpairAll |-> {"auth", "csrf"},
         saveConfig |-> {"json", "auth", "csrf"}, uploadCover |-> {"json", "auth"},
         savePassword |-> {"json", "auth", "csrf"}, savePin |-> {"json", "auth", "csrf"},
         resetDisplayDevicePersistence |-> {"auth", "csrf"}, restart |-> {"auth", "csrf"},
         installViGEmBus |-> {"auth", "csrf"}, quit |-> {"json", "auth"}]

Serves == up = "serving" /\ writer["config"] = Idle

Authenticated(t) == cred # NoCred /\ tab[t].cred = cred

\* Faulty: any token that is fresh will do.
AnyFreshToken(t) == token[ClientId(t)].n # 0 /\ token[ClientId(t)].fresh

\* validate_csrf_token(): a page of a foreign site shows the token that was
\* made last for its client id, within an hour.
ValidToken(t) == LET kept == token[ClientId(t)]
                 IN  kept.n # 0 /\ kept.fresh /\ kept.n = tab[t].token

Allowed(t, op) == /\ "auth" \in Asks[op] => Authenticated(t) \/ (op = "savePassword" /\ cred = NoCred)
                  /\ "csrf" \in Asks[op] /\ t \in Foreign => ValidToken(t)

Accept(t, op) == /\ Serves /\ Allowed(t, op)
                 /\ accepted' = [by |-> t, id |-> ClientId(t),
                                 token |-> IF "csrf" \in Asks[op] /\ t \in Foreign
                                           THEN tab[t].token ELSE 0]

\* Without credentials the user is sent to the page that sets them.  A token
\* that ran out is forgotten when it is shown.
Refuse(t, op) ==
  /\ Serves /\ ~Allowed(t, op)
  /\ LET id == ClientId(t)
         shown == Authenticated(t) /\ t \in Foreign /\ "csrf" \in Asks[op]
     IN  token' = IF shown /\ ~token[id].fresh THEN [token EXCEPT ![id] = NoToken] ELSE token
  /\ answer' = IF cred = NoCred THEN <<"welcome">> ELSE <<"refused">>
  /\ accepted' = Nobody
  /\ UNCHANGED <<up, stateVars, keyVars, issued, tab, clientVars, promised, excused, crashes,
                 removed>>

Ok == answer' = <<"ok">>

\* What is asked to read the logs, the settings, the clients or a directory.
Reading(t) == IF cred = NoCred THEN <<"welcome">>
              ELSE IF Authenticated(t) THEN <<"ok">> ELSE <<"refused">>

\* getPage(): the page that sets the credentials is shown while there are none,
\* the others, and what only reads, to who gave them.
GetPage(t, welcome) ==
  /\ Serves
  /\ answer' = IF welcome THEN IF cred = NoCred THEN <<"ok">> ELSE <<"home">>
               ELSE Reading(t)
  /\ UNCHANGED <<up, stateVars, keyVars, tokenVars, clientVars, promised, excused, crashes,
                 removed>>

\* generate_csrf_token(): tokens that ran out are forgotten, and the one this
\* client had before is replaced.
Kept == [c \in Cred \union {NoCred} |-> IF token[c].fresh THEN token[c] ELSE NoToken]

GetCSRFToken(t) ==
  /\ Serves /\ Authenticated(t) /\ issued < MaxToken
  /\ issued' = issued + 1
  /\ token' = [Kept EXCEPT ![ClientId(t)] = [n |-> issued + 1, fresh |-> TRUE]]
  /\ tab' = [tab EXCEPT ![t].token = issued + 1] /\ Ok
  /\ UNCHANGED <<up, stateVars, keyVars, accepted, clientVars, promised, excused, crashes,
                 removed>>

HourPasses(c) ==
  /\ token[c].fresh /\ token' = [token EXCEPT ![c].fresh = FALSE]
  /\ UNCHANGED <<up, stateVars, keyVars, issued, tab, accepted, clientVars, historyVars>>

\* savePassword(): who has no credentials yet may set them, else the current
\* ones are given again; wrong ones, or two new ones that differ, are refused.
SavePassword(t, new) ==
  /\ Accept(t, "savePassword") /\ Free("config") /\ Ok
  /\ \/ /\ file # Torn /\ Begin("config", [file EXCEPT !.cred = new])
        /\ UNCHANGED promised
     \/ /\ file = Torn /\ promised' = new /\ excused' = TRUE /\ UNCHANGED writer
  /\ tab' = [tab EXCEPT ![t].cred = new]
  /\ UNCHANGED <<up, cred, paired, file, keyVars, token, issued, clientVars, crashes, removed>>

\* The user logs in.
Login(t) ==
  /\ Serves /\ tab' = [tab EXCEPT ![t].cred = promised]
  /\ UNCHANGED <<up, stateVars, keyVars, token, issued, accepted, clientVars, historyVars>>

\* savePin(): a PIN that is out of range is refused, and tried all the same.
SavePin(t, inRange) ==
  /\ Accept(t, "savePin") /\ answer' = IF inRange THEN <<"ok">> ELSE <<"bad", "ok">>
  /\ UNCHANGED <<up, stateVars, keyVars, token, issued, tab, clientVars, promised, excused,
                 crashes, removed>>

\* What an abstract request leaves alone.
rest == <<up, cred, file, keyVars, token, issued, tab, promised, crashes, removed>>

\* unpair() of the client, who is the only one, and unpairAll(): the registry
\* is saved and the application ends.  A stream is left to its own checks.
Unpair(t, op) ==
  /\ op \in {"unpair", "unpairAll"} /\ Accept(t, op) /\ paired /\ Free("game")
  /\ SaveState(FALSE) /\ Ok /\ app' = FALSE
  /\ UNCHANGED <<rest, enabled, session, slipped>>

\* updateClient(): the streams of a client that is disabled end, and the
\* application when nobody streams any more.  A launch is left pending.
UpdateClient(t, on) ==
  /\ Accept(t, "updateClient") /\ paired /\ Free("game")
  /\ enabled' = on /\ SaveState(TRUE) /\ Ok
  /\ session' = IF ~on /\ session = "streaming" THEN "none" ELSE session
  /\ app' = (app /\ (on \/ session' = "streaming"))
  /\ slipped' = (slipped \/ (~on /\ session = "launched"))
  /\ UNCHANGED rest

CloseApp(t) == /\ Accept(t, "closeApp") /\ Ok /\ app' = FALSE
               /\ UNCHANGED <<rest, paired, writer, excused, enabled, session, slipped>>

\* An installer runs, or the library of the display is asked: neither changes
\* what this server keeps, whatever comes of it.
Systems == {"installViGEmBus", "resetDisplayDevicePersistence"}

\* The applications and the covers (AppList), the configuration file, the
\* display, the driver.
Elsewhere(t, op) ==
  /\ op \in {"saveApp", "deleteApp", "saveConfig", "uploadCover"} \union Systems
  /\ Accept(t, op) /\ Ok
  /\ UNCHANGED <<rest, paired, writer, excused, clientVars>>

\* quit() and restart(): Sunshine ends, when the game server has saved.
Ends(t, op) ==
  /\ op \in {"quit", "restart"} /\ Accept(t, op) /\ Ok
  /\ writer["game"] = Idle
  /\ up' = "off" /\ cred' = NoCred /\ paired' = FALSE /\ session' = "none" /\ app' = FALSE
  /\ token' = [c \in Cred \union {NoCred} |-> NoToken]
  /\ UNCHANGED <<file, writer, keyVars, issued, tab, enabled, slipped, promised, excused,
                 crashes, removed>>

Next ==
  \/ CreateKeys \/ CreateCertificate \/ Start \/ Crash \/ Remove
  \/ Pair \/ Stream \/ Saved \/ SavedState
  \/ \E s \in Server : Empties(s) \/ Fills(s)
  \/ \E c \in Cred : HourPasses(c)
  \/ \E t \in Tab :
       \/ GetCSRFToken(t) \/ Login(t) \/ CloseApp(t)
       \/ \E yes \in BOOLEAN : GetPage(t, yes) \/ SavePin(t, yes) \/ UpdateClient(t, yes)
       \/ \E new \in Cred : SavePassword(t, new)
       \/ \E op \in DOMAIN Asks : Refuse(t, op) \/ Unpair(t, op) \/ Elsewhere(t, op) \/ Ends(t, op)

Spec == Start0 /\ [][Next]_configVars

-----------------------------------------------------------------------------
(* Properties *)

TypeOK ==
  /\ up \in {"off", "keys", "between", "certificate", "serving"} /\ cred \in Cred \union {NoCred}
  /\ {paired, excused, enabled, app, slipped} \subseteq BOOLEAN /\ file \in Content \union {Torn}
  /\ {key, cert} \subseteq 0..Damaged
  /\ writer \in [Server -> [pc : {"idle", "write", "fill", "done"}, tree : Content]]
  /\ token \in [Cred \union {NoCred} -> [n : 0..MaxToken, fresh : BOOLEAN]]
  /\ issued \in 0..MaxToken /\ tab \in [Tab -> [cred : Cred \union {NoCred}, token : 0..MaxToken]]
  /\ promised \in Cred \union {NoCred} /\ session \in {"none", "launched", "streaming"}

\* Each server keeps what the other put into the file, and the user gets in
\* with what they were told, also after a restart: unless a file did not open,
\* the process died while it wrote or both wrote at once.
FileIsShared ==
  (~excused /\ \A s \in Server : writer[s] = Idle) =>
     /\ file # Torn /\ file.cred = promised
     /\ up = "serving" => cred = promised /\ file.paired = paired

\* The host never serves with a key that is not the one of its certificate,
\* unless one of the two was deleted and the process died before it had made
\* both anew: it looks only whether they are there. (httpcommon.cpp:49-53)
KeyIsOfCertificate == up = "serving" => key = cert \/ (crashes > 0 /\ removed > 0)

\* A client that is disabled does not stream, unless it had just launched.
DisabledIsOut == ~enabled /\ session = "streaming" => slipped

\* A token that let a foreign page in is the last one its user was given, and
\* it lets no other user in.
IsLatest ==
  \A t \in Foreign : (accepted' # accepted /\ accepted'.by = t /\ accepted'.token # 0) =>
     /\ token[accepted'.id] = [n |-> accepted'.token, fresh |-> TRUE]
     /\ \A c \in DOMAIN token \ {accepted'.id, NoCred} : token[c].n # accepted'.token

TokenIsLatest == [][IsLatest]_configVars
=============================================================================
