------------------------------ MODULE NccProxy ------------------------------
(***************************************************************************)
(* NccProxy of session.py: the thread that keeps one session tab           *)
(* connected.  It waits until connect() is called, connects, polls the     *)
(* session, reports a loss and waits again; close() makes it close the     *)
(* session and end.                                                        *)
(*                                                                         *)
(* A step is what the thread does between two points where the GUI thread  *)
(* can observe or change _manager, _is_connected or the two Event flags.   *)
(* The session behind _manager is abstracted to its connected flag; it is  *)
(* NcSession that models it.  Notifications are left out.                  *)
(***************************************************************************)
EXTENDS Integers, Sequences

VARIABLES
  running,       \* __runing
  connectFlag,   \* __connect
  is_connected,  \* _is_connected
  manager,       \* _manager: none, or its session is up (connected) or down
  thread,        \* where the thread is in run()
  signals        \* signals queued for the GUI thread

proxy == <<running, connectFlag, is_connected, manager, thread, signals>>

Signals == {"connected", "disconnected", "error"}

NccProxyTypeOK ==
  /\ running \in BOOLEAN
  /\ connectFlag \in BOOLEAN
  /\ is_connected \in BOOLEAN
  /\ manager \in {"none", "up", "down"}
  /\ thread \in {"loop", "wait", "connecting", "connected", "failed", "poll",
                 "lost", "drop", "end", "closing", "ended", "dead"}
  /\ signals \in Seq(Signals)

NccProxyInit ==
  /\ running = TRUE
  /\ connectFlag = FALSE
  /\ is_connected = FALSE
  /\ manager = "none"
  /\ thread = "loop"
  /\ signals = <<>>

-----------------------------------------------------------------------------
(* Faulty variants, used by mutants of PROJECT.json.                        *)

\* The loss is noted and not signalled.
PollLostSilently ==
  /\ thread = "poll" /\ manager = "down"
  /\ thread' = "lost"
  /\ is_connected' = FALSE
  /\ UNCHANGED <<running, connectFlag, manager, signals>>

\* The thread ends without closing the session.
EndChecksNothing ==
  /\ thread = "end" /\ manager # "none"
  /\ thread' = "dead"
  /\ UNCHANGED <<running, connectFlag, is_connected, manager, signals>>

-----------------------------------------------------------------------------
(* The thread: NccProxy.run                                                 *)

\* _setConnectState: a signal only if the state changes.
SetConnectState(s) ==
  /\ is_connected' = s
  /\ signals' = IF is_connected = s THEN signals
                ELSE Append(signals, IF s THEN "connected" ELSE "disconnected")

\* The while condition, then whether __connect is set.
Loop ==
  /\ thread = "loop"
  /\ thread' = IF ~running THEN "end" ELSE IF connectFlag THEN "poll" ELSE "wait"
  /\ UNCHANGED <<running, connectFlag, is_connected, manager, signals>>

\* __connect.wait() returns and a call-home session is already there.
WakesConnected ==
  /\ thread = "wait" /\ connectFlag /\ manager # "none"
  /\ thread' = "loop"
  /\ SetConnectState(TRUE)
  /\ UNCHANGED <<running, connectFlag, manager>>

Wakes ==
  /\ thread = "wait" /\ connectFlag /\ manager = "none"
  /\ thread' = "connecting"
  /\ UNCHANGED <<running, connectFlag, is_connected, manager, signals>>

ConnectSucceeds ==
  /\ thread = "connecting"
  /\ thread' = "connected"
  /\ manager' = "up"
  /\ UNCHANGED <<running, connectFlag, is_connected, signals>>

ConnectedReported ==
  /\ thread = "connected"
  /\ thread' = "loop"
  /\ SetConnectState(TRUE)
  /\ UNCHANGED <<running, connectFlag, manager>>

ConnectFails ==
  /\ thread = "connecting"
  /\ thread' = "failed"
  /\ connectFlag' = FALSE
  /\ UNCHANGED <<running, is_connected, manager, signals>>

FailureReported ==
  /\ thread = "failed"
  /\ thread' = "loop"
  /\ is_connected' = FALSE
  /\ signals' = signals \o (IF is_connected THEN <<"disconnected">> ELSE <<>>)
                          \o <<"error">>
  /\ UNCHANGED <<running, connectFlag, manager>>

\* take_notification returns after a second at most.
PollConnected ==
  /\ thread = "poll" /\ manager = "up"
  /\ thread' = "loop"
  /\ UNCHANGED <<running, connectFlag, is_connected, manager, signals>>

\* The session is gone: first the state, then the flag, then the manager.
PollLost ==
  /\ thread = "poll" /\ manager = "down"
  /\ thread' = "lost"
  /\ SetConnectState(FALSE)
  /\ UNCHANGED <<running, connectFlag, manager>>

LostClears ==
  /\ thread = "lost"
  /\ thread' = "drop"
  /\ connectFlag' = FALSE
  /\ UNCHANGED <<running, is_connected, manager, signals>>

LostDrops ==
  /\ thread = "drop"
  /\ thread' = "loop"
  /\ manager' = "none"
  /\ UNCHANGED <<running, connectFlag, is_connected, signals>>

\* An exception leaves the loop: it is shown, close() is called, the thread
\* ends.  _manager is None where its session is asked for, or close_session
\* finds the session not connected any more.
Dies ==
  /\ \/ thread \in {"poll", "end"} /\ manager = "none"
     \/ thread = "closing" /\ manager = "down"
  /\ thread' = "dead"
  /\ running' = FALSE
  /\ signals' = Append(signals, "error")
  /\ UNCHANGED <<connectFlag, is_connected, manager>>

\* After the loop: close_session if the session is connected.
EndChecks ==
  /\ thread = "end" /\ manager # "none"
  /\ thread' = IF manager = "up" THEN "closing" ELSE "ended"
  /\ UNCHANGED <<running, connectFlag, is_connected, manager, signals>>

EndCloses ==
  /\ thread = "closing" /\ manager = "up"
  /\ thread' = "ended"
  /\ manager' = "down"
  /\ UNCHANGED <<running, connectFlag, is_connected, signals>>

Ended ==
  /\ thread = "ended"
  /\ thread' = "dead"
  /\ SetConnectState(FALSE)
  /\ connectFlag' = FALSE
  /\ manager' = "none"
  /\ UNCHANGED running

ProxyThread ==
  \/ Loop \/ WakesConnected \/ Wakes \/ ConnectSucceeds \/ ConnectedReported
  \/ ConnectFails \/ FailureReported \/ PollConnected \/ PollLost \/ LostClears
  \/ LostDrops \/ Dies \/ EndChecks \/ EndCloses \/ Ended

-----------------------------------------------------------------------------
(* The environment                                                          *)

\* The session thread ended: Manager.connected is False from now on.
SessionLost ==
  /\ manager = "up"
  /\ manager' = "down"
  /\ UNCHANGED <<running, connectFlag, is_connected, thread, signals>>
=============================================================================
