----------------------------- MODULE NetconfTab -----------------------------
(***************************************************************************)
(* NetconfSession of session.py, one session tab of the window, with its   *)
(* proxy thread (NccProxy).  The GUI thread handles one event at a time:   *)
(* a queued signal, a click, a timer.  _sendXml waits for the reply in a   *)
(* loop that itself handles events, so handlers nest: the requests in      *)
(* progress form a stack, and only the innermost can return.               *)
(*                                                                         *)
(* A wait looks at its RPC only between two rounds of events, and a modal  *)
(* dialog opened meanwhile makes a round as long as the user likes: any    *)
(* number of events may come between the reply and the return.             *)
(*                                                                         *)
(* Abstracted: the XML, the history and log widgets, the dialogs (they     *)
(* call the operations modelled here), the schema download.  A closed tab  *)
(* still handles its signals here; the real one may be deleted by then.    *)
(***************************************************************************)
EXTENDS NccProxy, FiniteSets

CONSTANTS
  AutoReconnect,  \* the option auto-reconnect of the session
  MaxConnects,    \* bound: calls of connect()
  MaxSends        \* bound: requests

ASSUME TabAssumption ==
  /\ AutoReconnect \in BOOLEAN
  /\ MaxConnects \in Nat
  /\ MaxSends \in Nat

VARIABLES
  operable,       \* sessionOperable, and the Send button
  abortEnabled,   \* the Abort button
  abort,          \* NccProxy.__abort_wait
  stack,          \* the requests in progress, outermost first
  shown,          \* the status the tab was last told
  userDisconnet,  \* _userDisconnet
  timer,          \* reconnectTimer is active
  locked,         \* _datastoreLock holds a lock
  closed,         \* closeEvent was handled
  app,            \* the application runs, or exited on an exception
  connects, sends \* counters for the bounds

tab == <<operable, abortEnabled, abort, stack, shown, userDisconnet, timer, locked,
         closed, app, connects, sends>>
vars == <<proxy, tab>>

\* A request in progress.  live: its session can still complete it.  delay:
\* the 300 ms timer of _sendXml has not fired yet.
Requests ==
  [op : {"lock", "unlock", "other"}, reply : {"pending", "replied", "failed"},
   live : BOOLEAN, delay : BOOLEAN]

Init ==
  /\ NccProxyInit
  /\ operable = FALSE
  /\ abortEnabled = FALSE
  /\ abort = FALSE
  /\ stack = <<>>
  /\ shown = FALSE
  /\ userDisconnet = FALSE
  /\ timer = FALSE
  /\ locked = FALSE
  /\ closed = FALSE
  /\ app = "running"
  /\ connects = 0 /\ sends = 0

Top == stack[Len(stack)]
Pop == SubSeq(stack, 1, Len(stack) - 1)

\* The session of the open requests goes down: each is completed with the
\* error or, if the session was closing or the error missed it, never.
Orphaned(s) ==
  {[i \in 1..Len(s) |->
      [s[i] EXCEPT !.live = FALSE,
                   !.reply = IF i \in F THEN "failed" ELSE @]] :
    F \in SUBSET {i \in 1..Len(s) : s[i].live /\ s[i].reply = "pending"}}

RequestsFollowSession ==
  IF manager = "up" /\ manager' # "up" THEN stack' \in Orphaned(stack)
                                       ELSE stack' = stack

-----------------------------------------------------------------------------
(* Faulty variants, used by mutants of PROJECT.json.                        *)

\* The failed request does not give the controls back.
SendFailsDisabled ==
  /\ stack # <<>>
  /\ Top.reply = "failed" \/ abort \/ Top.reply = "pending"
  /\ stack' = Pop
  /\ abortEnabled' = FALSE
  /\ UNCHANGED <<proxy, operable, abort, shown, userDisconnet, timer, locked,
                 closed, app, connects, sends>>

\* The wait has no timeout.
SendFailsOnErrorOnly ==
  /\ stack # <<>>
  /\ Top.reply = "failed" \/ abort
  /\ stack' = Pop
  /\ operable' = TRUE
  /\ abortEnabled' = FALSE
  /\ UNCHANGED <<proxy, abort, shown, userDisconnet, timer, locked, closed, app,
                 connects, sends>>

\* Closing the tab does not stop its proxy.
CloseTabOnly ==
  /\ ~closed
  /\ closed' = TRUE
  /\ timer' = FALSE
  /\ UNCHANGED <<proxy, operable, abortEnabled, abort, stack, shown, userDisconnet,
                 locked, app, connects, sends>>

-----------------------------------------------------------------------------
(* Queued signals of the proxy                                              *)

\* _onDeviceConnectStatusChanged(True)
ShowConnected ==
  /\ signals # <<>> /\ Head(signals) = "connected"
  /\ signals' = Tail(signals)
  /\ shown' = TRUE
  /\ operable' = TRUE
  /\ UNCHANGED <<running, connectFlag, is_connected, manager, thread, abortEnabled,
                 abort, stack, userDisconnet, timer, locked, closed, app, connects,
                 sends>>

\* _onDeviceConnectStatusChanged(False), which forgets the locks.
ShowDisconnected ==
  /\ signals # <<>> /\ Head(signals) = "disconnected"
  /\ signals' = Tail(signals)
  /\ shown' = FALSE
  /\ operable' = FALSE
  /\ abortEnabled' = FALSE
  /\ locked' = FALSE
  /\ timer' = (timer \/ (~userDisconnet /\ AutoReconnect))
  /\ UNCHANGED <<running, connectFlag, is_connected, manager, thread, abort, stack,
                 userDisconnet, closed, app, connects, sends>>

\* _msgBox
ShowError ==
  /\ signals # <<>> /\ Head(signals) = "error"
  /\ signals' = Tail(signals)
  /\ UNCHANGED <<running, connectFlag, is_connected, manager, thread, tab>>

-----------------------------------------------------------------------------
(* Connect and disconnect                                                   *)

\* NetconfSession.connect
ConnectCalled ==
  /\ ~closed
  /\ connects < MaxConnects
  /\ connects' = connects + 1
  /\ timer' = FALSE
  /\ userDisconnet' = FALSE
  /\ connectFlag' = TRUE
  /\ UNCHANGED <<running, is_connected, thread, signals, operable, abortEnabled,
                 abort, stack, shown, locked, closed, app, sends>>

\* The tab is created, or the user reconnects.
UserConnect ==
  /\ ~is_connected
  /\ ConnectCalled
  /\ UNCHANGED manager

\* The tab is created for a session that called home.
OpenCallHome ==
  /\ connects = 0
  /\ ConnectCalled
  /\ manager' = "up"

Reconnect ==
  /\ timer
  /\ ConnectCalled
  /\ UNCHANGED manager

\* NetconfSession.disconnect, which returns when the session thread has ended.
Disconnect ==
  /\ ~closed
  /\ is_connected
  /\ manager = "up"
  /\ manager' = "down"
  /\ RequestsFollowSession
  /\ userDisconnet' = TRUE
  /\ UNCHANGED <<running, connectFlag, is_connected, thread, signals, operable,
                 abortEnabled, abort, shown, timer, locked, closed, app, connects,
                 sends>>

\* The proxy has not noticed yet that the session is gone: close_session
\* raises, and handle_exception ends the application.
DisconnectRaises ==
  /\ ~closed
  /\ is_connected
  /\ manager # "up"
  /\ app' = "exited"
  /\ UNCHANGED <<proxy, operable, abortEnabled, abort, stack, shown, userDisconnet,
                 timer, locked, closed, connects, sends>>

CloseTab ==
  /\ ~closed
  /\ closed' = TRUE
  /\ timer' = FALSE
  /\ running' = FALSE
  /\ UNCHANGED <<connectFlag, is_connected, manager, thread, signals, operable,
                 abortEnabled, abort, stack, shown, userDisconnet, locked, app,
                 connects, sends>>

-----------------------------------------------------------------------------
(* Requests: _sendXml                                                       *)

\* Up to the wait.
Send ==
  /\ ~closed
  /\ operable
  /\ sends < MaxSends
  /\ sends' = sends + 1
  /\ manager = "up"
  /\ operable' = FALSE
  /\ abort' = FALSE
  /\ \E what \in {"lock", "unlock", "other"} :
       stack' = Append(stack, [op |-> what, reply |-> "pending", live |-> TRUE,
                               delay |-> TRUE])
  /\ UNCHANGED <<proxy, abortEnabled, shown, userDisconnet, timer, locked, closed,
                 app, connects>>

\* dispatch raises, and so does the except clause, which reads the unassigned
\* msg_id: the application ends.
SendRaises ==
  /\ ~closed
  /\ operable
  /\ manager # "up"
  /\ app' = "exited"
  /\ UNCHANGED <<proxy, operable, abortEnabled, abort, stack, shown, userDisconnet,
                 timer, locked, closed, connects, sends>>

\* The reply of a request arrives.
Reply(i) ==
  /\ manager = "up"
  /\ stack[i].live
  /\ stack[i].reply = "pending"
  /\ stack' = [stack EXCEPT ![i].reply = "replied"]
  /\ UNCHANGED <<proxy, operable, abortEnabled, abort, shown, userDisconnet, timer,
                 locked, closed, app, connects, sends>>

\* cgroupCtrlDelay, 300 ms after the request.
DelayedControl(i) ==
  /\ stack[i].delay
  /\ stack' = [stack EXCEPT ![i].delay = FALSE]
  /\ operable' = FALSE
  /\ abortEnabled' = TRUE
  /\ UNCHANGED <<proxy, abort, shown, userDisconnet, timer, locked, closed, app,
                 connects, sends>>

Abort ==
  /\ abortEnabled
  /\ ~closed
  /\ abort' = TRUE
  /\ UNCHANGED <<proxy, operable, abortEnabled, stack, shown, userDisconnet, timer,
                 locked, closed, app, connects, sends>>

\* The wait returns the reply; a lock that was granted is noted.
SendReturns ==
  /\ stack # <<>>
  /\ ~abort
  /\ Top.reply = "replied"
  /\ manager # "none"
  /\ stack' = Pop
  /\ operable' = TRUE
  /\ abortEnabled' = FALSE
  /\ locked' \in IF Top.op = "other" THEN {locked} ELSE {locked, Top.op = "lock"}
  /\ UNCHANGED <<proxy, abort, shown, userDisconnet, timer, closed, app, connects,
                 sends>>

\* The wait raises: the RPC's error, the user's abort, which is looked at
\* first, or the timeout; or the reply is there and _manager is not any more.
SendFails ==
  /\ stack # <<>>
  /\ \/ Top.reply \in {"failed", "pending"}
     \/ abort
     \/ manager = "none"
  /\ stack' = Pop
  /\ operable' = TRUE
  /\ abortEnabled' = FALSE
  /\ UNCHANGED <<proxy, abort, shown, userDisconnet, timer, locked, closed, app,
                 connects, sends>>

-----------------------------------------------------------------------------
Signal == ShowConnected \/ ShowDisconnected \/ ShowError

ProxyStep ==
  /\ ProxyThread
  /\ RequestsFollowSession
  /\ UNCHANGED <<operable, abortEnabled, abort, shown, userDisconnet, timer, locked,
                 closed, app, connects, sends>>

SessionLostStep ==
  /\ SessionLost
  /\ RequestsFollowSession
  /\ UNCHANGED <<operable, abortEnabled, abort, shown, userDisconnet, timer, locked,
                 closed, app, connects, sends>>

Next ==
  /\ app = "running"
  /\ \/ ProxyStep
     \/ SessionLostStep
     \/ Signal
     \/ UserConnect \/ OpenCallHome \/ Reconnect
     \/ Disconnect \/ DisconnectRaises \/ CloseTab
     \/ Send \/ SendRaises \/ Abort \/ SendReturns \/ SendFails
     \/ \E i \in 1..Len(stack) : Reply(i) \/ DelayedControl(i)

Spec == Init /\ [][Next]_vars

\* The proxy thread runs, the GUI thread handles its queued signals, and a
\* wait ends: at the latest by its timeout.
Fairness ==
  /\ WF_vars(app = "running" /\ ProxyStep)
  /\ WF_vars(app = "running" /\ Signal)
  /\ WF_vars(app = "running" /\ (SendReturns \/ SendFails))

FairSpec == Spec /\ Fairness

-----------------------------------------------------------------------------
TypeOK ==
  /\ NccProxyTypeOK
  /\ operable \in BOOLEAN
  /\ abortEnabled \in BOOLEAN
  /\ abort \in BOOLEAN
  /\ stack \in Seq(Requests)
  /\ shown \in BOOLEAN
  /\ userDisconnet \in BOOLEAN
  /\ timer \in BOOLEAN
  /\ locked \in BOOLEAN
  /\ closed \in BOOLEAN
  /\ app \in {"running", "exited"}
  /\ connects \in 0..MaxConnects
  /\ sends \in 0..MaxSends

\* With no request in progress a connected tab can send and there is nothing
\* to abort: whatever ended the requests, in whatever order the delayed timers
\* and the status signals came, _sendXml gave the controls back.
IdleTabOperable ==
  stack = <<>> => ~abortEnabled /\ (shown => operable)

\* No session is up that nobody attends to: a proxy thread that ended, on
\* close() or on an exception, or that sleeps until connect() is called, has
\* none.
NoSessionUnattended ==
  (thread = "dead" \/ (thread = "wait" /\ ~connectFlag)) => manager # "up"

\* The inductive invariant behind it: a session that is up belongs to a thread
\* that has yet to look at it and was told to connect; the thread is beyond
\* its first wait only after a connect() or a close().
SessionsAttended ==
  /\ manager = "up" =>
       connectFlag /\ thread \in {"loop", "wait", "connected", "poll", "end", "closing"}
  /\ thread = "connecting" => connectFlag
  /\ connectFlag => connects > 0
  /\ ~closed => /\ running \/ thread = "dead"
                /\ connects = 0 => thread \in {"loop", "wait"}

\* What _clearConnectionsSensitiveData is for: a disconnected tab remembers no
\* lock of the session it had.  This does not hold.
NoLockWhenDisconnected ==
  ~shown => ~locked

\* What the comment in _sendXml says of sessionOperable: no new request while
\* one is in progress.  This does not hold.
OneRequestAtATime ==
  Len(stack) <= 1

\* The tab learns that its session is gone.
LossIsShown ==
  (shown /\ manager = "down") ~> (~shown \/ closed \/ app = "exited")

\* A closed tab's session is closed.
ClosedTabReleasesSession ==
  (closed /\ manager = "up") ~> manager # "up"

\* Every request comes to an end, the nested ones first.
RequestsEnd ==
  stack # <<>> ~> (stack = <<>> \/ app = "exited")
=============================================================================
