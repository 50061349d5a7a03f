---------------------------- MODULE MirrorWindow ----------------------------
(***************************************************************************)
(* RevoMirror, the Qt window beside Sunshine (src/tools/revomirror).       *)
(* HttpManager asks the configuration server of Sunshine for everything:   *)
(* the default user, the list of clients, a pairing, the state of the      *)
(* session, the end of the application, the end of Sunshine.  MainWindow   *)
(* shows the page that the answers call for.  All of it runs on one Qt     *)
(* thread: a step is one callback, and what is outstanding are requests    *)
(* and single-shot timers.                                                 *)
(***************************************************************************)
EXTENDS Naturals

CONSTANTS MaxRequest,   \* bound: initialisations outstanding at a time
          Answers       \* what may become of a request: "ok", "refused", "timeout"

VARIABLES asked,       \* Sunshine answered /api/quit
          pending,     \* requests sent and not finished, by kind
          retry,       \* single-shot timers of 5 s of slotInitUserComplete
          expired,     \* m_initTimeout
          polling,     \* HttpManager::m_timer runs
          page,        \* m_stackedWidget
          loading,     \* the loading dialog: "due" (100 ms timer), "shown", "none"
          pair,        \* MirrorPair::m_pairState
          connect,     \* MainWindow::m_connectState
          pin,         \* m_pinCode is not empty
          pinError,    \* m_errorText / m_pinErrorType
          svcClose,    \* m_svcClose
          closing,     \* a single-shot timer that will set m_svcClose and close
          gone         \* QApplication::quit()

windowVars == <<asked, pending, retry, expired, polling, page,
                loading, pair, connect, pin, pinError, svcClose, closing, gone>>

Kinds == {"password", "list", "pin", "state", "close", "quit"}
\* Bound: of the other requests one is outstanding at a time.
Most(k) == IF k \in {"password", "list"} THEN MaxRequest ELSE 1
Pages == {"invalid", "pair", "running", "stopped"}

TypeOK ==
  /\ {asked, expired, polling, pin, svcClose, closing, gone} \subseteq BOOLEAN
  /\ pending \in [Kinds -> 0..MaxRequest] /\ retry \in 0..MaxRequest
  /\ page \in Pages
  /\ loading \in {"due", "shown", "none"}
  /\ pair \in {"invalid", "none", "paired", "new"}
  /\ connect \in {"connect", "disconnect"}
  /\ pinError \in {"none", "empty", "invalid"}

pairPage == <<pair, pin, pinError>>

Init ==
  /\ asked = FALSE
  /\ pending = [k \in Kinds |-> IF k = "password" THEN 1 ELSE 0]
  /\ retry = 0 /\ expired = FALSE /\ polling = FALSE
  /\ page = "invalid" /\ loading = "due"
  /\ pair = "invalid" /\ connect = "disconnect" /\ pin = FALSE /\ pinError = "none"
  /\ svcClose = FALSE /\ closing = FALSE /\ gone = FALSE

-----------------------------------------------------------------------------
(* What the callbacks are made of *)

\* m_httpRequest->get() and post().
Sent(k) == [pending EXCEPT ![k] = @ + 1]

\* signalInitComplete(bPaired): the pairing page, the polls, and the dialog is
\* destroyed.
InitComplete(paired) ==
  /\ page' = "pair"
  /\ pair' = IF paired THEN "paired" ELSE "none"
  /\ pin' = IF pair # pair' /\ (pair' = "paired") # (pair = "paired") THEN FALSE ELSE pin
  /\ pinError' = IF (pair' = "paired") # (pair = "paired") THEN "none" ELSE pinError
  /\ loading' = IF loading = "due" THEN "due" ELSE "none"
  /\ polling' = TRUE

\* setConnectState(): only a change changes the page.
ShowState(s) ==
  /\ connect' = s
  /\ page' = IF s = connect THEN page
             ELSE IF s = "connect" THEN "running" ELSE "stopped"

\* slotQuitMirror(): whatever the outcome.
QuitMirror == svcClose' = TRUE /\ gone' = TRUE

-----------------------------------------------------------------------------
(* A request ends: what Sunshine answers, if it does, is left open.        *)
(* setupReplyHandlers() calls onError from finished(), and again from the  *)
(* timer that aborted it.                                                  *)

Done(k, how) ==
  /\ ~gone /\ pending[k] > 0
  /\ how \in Answers

Calls(how) == IF how = "timeout" THEN 2 ELSE 1

\* initHttpUser() is answered: go on with the clients, or try again.
PasswordDone(how) ==
  /\ Done("password", how)
  /\ \/ /\ how = "ok" /\ pending["list"] < MaxRequest
        /\ pending' = [pending EXCEPT !["password"] = @ - 1, !["list"] = @ + 1]
        /\ UNCHANGED retry
     \/ /\ how # "ok" /\ retry + Calls(how) <= MaxRequest
        /\ pending' = [pending EXCEPT !["password"] = @ - 1]
        /\ retry' = retry + Calls(how)
  /\ UNCHANGED <<asked, expired, polling, page, loading, pairPage, connect, svcClose,
                 closing, gone>>

\* checkPair(): an error counts as "nobody is paired".
ListDone(how) ==
  /\ Done("list", how)
  /\ pending' = [pending EXCEPT !["list"] = @ - 1]
  /\ \E some \in BOOLEAN : InitComplete(how = "ok" /\ some)
  /\ UNCHANGED <<asked, retry, expired, connect, svcClose, closing, gone>>

\* slotPair(): the server takes the PIN or not; an error starts over.
PinDone(how) ==
  /\ Done("pin", how)
  /\ pending' = [pending EXCEPT !["pin"] = @ - 1]
  /\ \/ how = "ok" /\ pinError' \in {pinError, "invalid"} /\ UNCHANGED retry
     \/ how # "ok" /\ retry + Calls(how) <= MaxRequest /\ retry' = retry + Calls(how)
        /\ UNCHANGED pinError
  /\ UNCHANGED <<asked, expired, polling, page, loading, pair, connect,
                 pin, svcClose, closing, gone>>

\* checkConnectState(): an error emits signalConnectState(false), and false is
\* ConnectState::CONNECT.
StateDone(how) ==
  /\ Done("state", how)
  /\ pending' = [pending EXCEPT !["state"] = @ - 1]
  /\ \E s \in IF how = "ok" THEN {"connect", "disconnect"} ELSE {"connect"} : ShowState(s)
  /\ UNCHANGED <<asked, retry, expired, polling, loading, pairPage, svcClose, closing,
                 gone>>

\* stopMirror(): nobody listens to the success; the error closes the window.
CloseDone(how) ==
  /\ Done("close", how)
  /\ pending' = [pending EXCEPT !["close"] = @ - 1]
  /\ \/ how = "ok" /\ UNCHANGED <<svcClose, gone>>
     \/ how # "ok" /\ QuitMirror
  /\ UNCHANGED <<asked, retry, expired, polling, page, loading, pairPage,
                 connect, closing>>

QuitDone(how) ==
  /\ Done("quit", how)
  /\ pending' = [pending EXCEPT !["quit"] = @ - 1]
  /\ asked' = (asked \/ how = "ok")
  /\ QuitMirror
  /\ UNCHANGED <<retry, expired, polling, page, loading,
                 pairPage, connect, closing>>

-----------------------------------------------------------------------------
(* Timers *)

\* The 30 s that Sunshine has to come up.
Expire == ~gone /\ ~expired /\ expired' = TRUE
          /\ UNCHANGED <<asked, pending, retry, polling, page, loading, pairPage,
                         connect, svcClose, closing, gone>>

\* Faulty: it never gives up.
RetryForever ==
  /\ ~gone /\ retry > 0 /\ pending["password"] < MaxRequest /\ pending' = Sent("password")
  /\ retry' = retry - 1
  /\ UNCHANGED <<asked, expired, polling, page, loading, pairPage, connect, svcClose,
                 closing, gone>>

\* initHttpUser() after 5 s: give up once the 30 s are over (the window closes
\* 3 s later), or ask again.
Retry ==
  /\ ~gone /\ retry > 0
  /\ \/ expired /\ closing' = TRUE /\ UNCHANGED pending
     \/ ~expired /\ pending["password"] < MaxRequest /\ pending' = Sent("password")
        /\ UNCHANGED closing
  /\ retry' = retry - 1
  /\ UNCHANGED <<asked, expired, polling, page, loading, pairPage, connect, svcClose,
                 gone>>

\* openLoadingDialog() after 100 ms.
OpenLoading ==
  /\ ~gone /\ loading = "due"
  /\ loading' = IF page = "invalid" THEN "shown" ELSE "none"
  /\ UNCHANGED <<asked, pending, retry, expired, polling, page, pairPage, connect,
                 svcClose, closing, gone>>

\* m_timer, every 500 ms: it does not wait for the answer before.
Poll ==
  /\ ~gone /\ polling /\ pending["state"] < Most("state")
  /\ pending' = Sent("state")
  /\ UNCHANGED <<asked, retry, expired, polling, page, loading, pairPage, connect,
                 svcClose, closing, gone>>

\* The window closes 500 ms after the user said so, or 3 s after giving up.
CloseTimer ==
  /\ ~gone /\ closing
  /\ QuitMirror /\ closing' = FALSE
  /\ UNCHANGED <<asked, pending, retry, expired, polling, page, loading, pairPage,
                 connect>>

-----------------------------------------------------------------------------
(* The user *)

Visible == ~gone /\ page # "invalid" /\ loading # "shown" /\ ~closing

\* The field takes up to four digits; a change clears the error.
TypePin(some) ==
  /\ Visible /\ page = "pair" /\ pair # "paired" /\ some # pin
  /\ pin' = some /\ pinError' = "none"
  /\ UNCHANGED <<asked, pending, retry, expired, polling, page, loading, pair, connect,
                 svcClose, closing, gone>>

\* startPair().
StartPair ==
  /\ Visible /\ page = "pair" /\ pair # "paired"
  /\ \/ ~pin /\ pinError' = "empty" /\ UNCHANGED pending
     \/ pin /\ pending["pin"] < Most("pin") /\ pending' = Sent("pin") /\ UNCHANGED pinError
  /\ UNCHANGED <<asked, retry, expired, polling, page, loading, pair, pin, connect,
                 svcClose, closing, gone>>

\* The "new pairing" and "cancel" buttons: setPairState() empties the field.
SwitchPair ==
  /\ Visible /\ page = "pair"
  /\ \/ pair = "paired" /\ pair' = "new"
     \/ pair = "new" /\ pair' = "paired"
  /\ pin' = FALSE /\ pinError' = "none"
  /\ UNCHANGED <<asked, pending, retry, expired, polling, page, loading, connect,
                 svcClose, closing, gone>>

\* The stop button of the running page.
StopMirror ==
  /\ Visible /\ page = "running" /\ pending["close"] < Most("close")
  /\ pending' = Sent("close")
  /\ UNCHANGED <<asked, retry, expired, polling, page, loading, pairPage, connect,
                 svcClose, closing, gone>>

\* The restart button of the stopped page: paired, whatever it was.
RestartMirror ==
  /\ Visible /\ page = "stopped"
  /\ page' = "pair" /\ pair' = "paired"
  /\ pin' = IF pair = "paired" THEN pin ELSE FALSE
  /\ pinError' = IF pair = "paired" THEN pinError ELSE "none"
  /\ UNCHANGED <<asked, pending, retry, expired, polling, loading, connect, svcClose,
                 closing, gone>>

\* closeEvent(): hide, stop the polls, ask Sunshine to quit, leave in 500 ms.
CloseWindow ==
  /\ Visible /\ ~svcClose /\ pending["quit"] < Most("quit")
  /\ closing' = TRUE /\ polling' = FALSE /\ pending' = Sent("quit")
  /\ UNCHANGED <<asked, retry, expired, page, loading, pairPage, connect, svcClose, gone>>

Answer(how) == \/ PasswordDone(how) \/ ListDone(how) \/ PinDone(how) \/ StateDone(how)
               \/ CloseDone(how) \/ QuitDone(how)

Next ==
  \/ \E how \in Answers : Answer(how)
  \/ Expire \/ Retry \/ OpenLoading \/ Poll \/ CloseTimer
  \/ \E some \in BOOLEAN : TypePin(some)
  \/ StartPair \/ SwitchPair \/ StopMirror \/ RestartMirror \/ CloseWindow

\* Every request ends, by an answer or by its timer, and every timer fires.
Fairness == /\ WF_windowVars(\E how \in Answers : PasswordDone(how))
            /\ WF_windowVars(\E how \in Answers : ListDone(how))
            /\ WF_windowVars(Expire) /\ WF_windowVars(Retry) /\ WF_windowVars(CloseTimer)

Spec == Init /\ [][Next]_windowVars /\ Fairness

-----------------------------------------------------------------------------
(* Properties *)

\* With one initialisation the page never lags behind the state it was told:
\* running exactly while connected, and stopped only after it.
PageFollowsState == /\ connect = "connect" => page = "running"
                    /\ page = "stopped" => connect = "disconnect"

\* Whatever Sunshine does, the user is not left with the loading dialog: a page
\* is shown or the window gives up and closes.
LoadingEnds == <>(page # "invalid" \/ gone)

\* "sunshine服务是否关闭": m_svcClose says that Sunshine was told to end, or that
\* it never came up.
SvcCloseIsTrue == svcClose => asked \/ page = "invalid"
=============================================================================
