------------------------------ MODULE CallHome ------------------------------
(***************************************************************************)
(* CallHomeDialog and its worker QCallHome of session.py: the GUI thread   *)
(* shows a modal dialog while a thread listens for a device that calls     *)
(* home.  The user may cancel, which waits for the thread, or leave the    *)
(* dialog by Escape, which Qt turns into reject() without a close event.   *)
(* _createSession opens a tab when the dialog was accepted.                *)
(*                                                                         *)
(* The thread's flag run is set by both sides: True when listening begins, *)
(* False by Cancel.  The two race.                                         *)
(*                                                                         *)
(* Abstracted: what SSH does, the session's later life (NetconfTab takes   *)
(* it over), the messages shown in the dialog.  The listening sockets are  *)
(* visited in any order.                                                   *)
(***************************************************************************)
EXTENDS Integers, Sequences

CONSTANTS
  Families,  \* the address families that are listened on
  MaxCalls   \* bound: devices that call home

ASSUME CallHomeAssumption == MaxCalls \in Nat

VARIABLES
  \* the worker
  worker,     \* where the thread is in doCallhome, and after it
  run,        \* QCallHome.run
  listening,  \* listen_sockets that are open
  unvisited,       \* those the for loop has still to visit
  mgr,        \* QCallHome.mgr: there is a session
  \* the dialog
  dialog,     \* open, waiting for the thread in closeEvent, leaving exec, gone
  result,     \* QDialog.result()
  done,       \* the queued signals done(ret)
  dismissed,  \* how the user left the dialog
  cancelledAt, \* where the worker was when Cancel reset run
  \* the application
  opened,     \* a tab has the session
  app,
  calls       \* devices that called

thread == <<worker, run, listening, unvisited, mgr>>
gui    == <<dialog, result, dismissed, cancelledAt, opened>>
callHomeVars == <<thread, gui, done, app, calls>>

CallHomeInit ==
  /\ worker = "new"
  /\ run = TRUE
  /\ listening = {} /\ unvisited = {}
  /\ mgr = FALSE
  /\ dialog = "open"
  /\ result = "rejected"
  /\ done = <<>>
  /\ dismissed = "no"
  /\ cancelledAt = "no"
  /\ opened = FALSE
  /\ app = "running"
  /\ calls = 0

-----------------------------------------------------------------------------
(* Faulty variants, used by mutants of PROJECT.json.                        *)

\* The flag is not looked at between two sockets or rounds.
RoundRegardless ==
  /\ worker = "loop"
  /\ unvisited' = listening
  /\ worker' = "scan"
  /\ UNCHANGED <<run, listening, mgr, gui, done, app, calls>>

\* A socket is visited although run was reset.
CheckRunNot ==
  /\ worker = "scan" /\ unvisited # {}
  /\ worker' = "accept"
  /\ UNCHANGED <<run, listening, unvisited, mgr, gui, done, app, calls>>

\* done is emitted before the sockets are closed.
ReportEarly ==
  /\ worker = "connected"
  /\ worker' = "stop"
  /\ done' = Append(done, TRUE)
  /\ UNCHANGED <<run, listening, unvisited, mgr, gui, app, calls>>

\* A session that was accepted is reported as a failure.
EmitDoneFalse ==
  /\ worker = "report"
  /\ worker' = "idle"
  /\ done' = Append(done, FALSE)
  /\ UNCHANGED <<run, listening, unvisited, mgr, gui, app, calls>>

-----------------------------------------------------------------------------
(* The worker: QCallHome.doCallhome                                         *)

\* The thread's started signal calls doCallhome, also if quit() came before.
\* Some of the ports can be listened on; without any the worker gives up.
Listen ==
  /\ worker = "new"
  /\ \E S \in SUBSET Families :
       /\ listening' = S
       /\ worker' = IF S = {} THEN "report" ELSE "listening"
  /\ UNCHANGED <<run, unvisited, mgr, gui, done, app, calls>>

SetRun ==
  /\ worker = "listening"
  /\ run' = TRUE
  /\ worker' = "loop"
  /\ UNCHANGED <<listening, unvisited, mgr, gui, done, app, calls>>

\* while self.run
Round ==
  /\ worker = "loop"
  /\ IF run THEN worker' = "scan" /\ unvisited' = listening
            ELSE worker' = "stop" /\ UNCHANGED unvisited
  /\ UNCHANGED <<run, listening, mgr, gui, done, app, calls>>

\* The for loop: the flag is looked at before every socket.
CheckRun ==
  /\ worker = "scan" /\ unvisited # {}
  /\ worker' = IF run THEN "accept" ELSE "loop"
  /\ UNCHANGED <<run, listening, unvisited, mgr, gui, done, app, calls>>

EndOfRound ==
  /\ worker = "scan" /\ unvisited = {}
  /\ worker' = "loop"
  /\ UNCHANGED <<run, listening, unvisited, mgr, gui, done, app, calls>>

AcceptTimesOut ==
  /\ worker = "accept"
  /\ \E s \in unvisited : unvisited' = unvisited \ {s}
  /\ worker' = "scan"
  /\ UNCHANGED <<run, listening, mgr, gui, done, app, calls>>

Accept ==
  /\ worker = "accept"
  /\ calls < MaxCalls
  /\ calls' = calls + 1
  /\ \E s \in unvisited : unvisited' = unvisited \ {s}
  /\ worker' = "connecting"
  /\ UNCHANGED <<run, listening, mgr, gui, done, app>>

ConnectFails ==
  /\ worker = "connecting"
  /\ worker' = "scan"
  /\ UNCHANGED <<run, listening, unvisited, mgr, gui, done, app, calls>>

ConnectSucceeds ==
  /\ worker = "connecting"
  /\ mgr' = TRUE
  /\ worker' = "connected"
  /\ UNCHANGED <<run, listening, unvisited, gui, done, app, calls>>

\* The device is gone already: getpeername raises out of the slot, and
\* handle_exception ends the application.
PeerGone ==
  /\ worker = "connected"
  /\ app' = "exited"
  /\ UNCHANGED <<thread, gui, done, calls>>

\* Both loops are left with ret = True.
SessionFound ==
  /\ worker = "connected"
  /\ worker' = "stop"
  /\ UNCHANGED <<run, listening, unvisited, mgr, gui, done, app, calls>>

StopListening ==
  /\ worker = "stop"
  /\ listening' = {}
  /\ worker' = "report"
  /\ UNCHANGED <<run, unvisited, mgr, gui, done, app, calls>>

EmitDone ==
  /\ worker = "report"
  /\ worker' = "idle"
  /\ done' = Append(done, mgr)
  /\ UNCHANGED <<run, listening, unvisited, mgr, gui, app, calls>>

\* The thread's event loop ends on quit().
ThreadEnds ==
  /\ worker = "idle"
  /\ dismissed = "cancel"
  /\ worker' = "ended"
  /\ UNCHANGED <<run, listening, unvisited, mgr, gui, done, app, calls>>

Worker ==
  \/ Listen \/ SetRun \/ Round \/ CheckRun \/ EndOfRound \/ AcceptTimesOut
  \/ Accept \/ ConnectFails \/ ConnectSucceeds \/ PeerGone \/ SessionFound
  \/ StopListening \/ EmitDone \/ ThreadEnds

-----------------------------------------------------------------------------
(* The dialog: CallHomeDialog                                               *)

\* closeEvent up to thrd.wait(); until that returns no signal is handled.
Cancel ==
  /\ dialog = "open"
  /\ dialog' = "closing"
  /\ dismissed' = "cancel"
  /\ run' = FALSE
  /\ cancelledAt' = worker
  /\ UNCHANGED <<worker, listening, unvisited, mgr, result, opened, done, app, calls>>

CancelReturns ==
  /\ dialog = "closing"
  /\ worker = "ended"
  /\ dialog' = "leaving"
  /\ result' = "rejected"
  /\ UNCHANGED <<thread, dismissed, cancelledAt, opened, done, app, calls>>

\* Escape: reject() without closeEvent, the worker goes on.
Escape ==
  /\ dialog = "open"
  /\ dialog' = "leaving"
  /\ dismissed' = "escape"
  /\ result' = "rejected"
  /\ UNCHANGED <<thread, cancelledAt, opened, done, app, calls>>

\* callDone: accept() if a session is there, else a warning.  It also accepts
\* a dialog that is already hidden, as long as exec has not returned.
CallDone ==
  /\ done # <<>>
  /\ dialog # "closing"
  /\ done' = Tail(done)
  /\ IF Head(done) /\ dialog # "gone"
     THEN dialog' = "leaving" /\ result' = "accepted"
     ELSE UNCHANGED <<dialog, result>>
  /\ UNCHANGED <<thread, dismissed, cancelledAt, opened, app, calls>>

\* exec returns the result; a dialog deleted meanwhile (deleteLater) counts as
\* rejected.  _createSession gives the session to a new tab if accepted.
ExecReturns ==
  /\ dialog = "leaving"
  /\ dialog' = "gone"
  /\ opened' \in IF dismissed = "cancel" THEN {FALSE, result = "accepted"}
                                         ELSE {result = "accepted"}
  /\ UNCHANGED <<thread, result, dismissed, cancelledAt, done, app, calls>>

-----------------------------------------------------------------------------
CallHomeNext ==
  /\ app = "running"
  /\ Worker \/ Cancel \/ CancelReturns \/ Escape \/ CallDone \/ ExecReturns

CallHomeSpec == CallHomeInit /\ [][CallHomeNext]_callHomeVars

\* The worker thread runs, and the GUI thread unless it waits for the worker.
\* No device has to call, the user need not do anything.
Fairness ==
  /\ WF_callHomeVars(app = "running" /\ Worker)
  /\ WF_callHomeVars(app = "running" /\ (CancelReturns \/ CallDone \/ ExecReturns))

FairSpec == CallHomeSpec /\ Fairness

-----------------------------------------------------------------------------
WorkerPlaces ==
  {"new", "listening", "loop", "scan", "accept", "connecting", "connected", "stop",
   "report", "idle", "ended"}

TypeOK ==
  /\ worker \in WorkerPlaces
  /\ run \in BOOLEAN
  /\ listening \subseteq Families
  /\ unvisited \subseteq Families
  /\ mgr \in BOOLEAN
  /\ dialog \in {"open", "closing", "leaving", "gone"}
  /\ result \in {"rejected", "accepted"}
  /\ done \in Seq(BOOLEAN)
  /\ dismissed \in {"no", "cancel", "escape"}
  /\ cancelledAt \in WorkerPlaces \cup {"no"}
  /\ opened \in BOOLEAN
  /\ app \in {"running", "exited"}
  /\ calls \in 0..MaxCalls

\* Cancel is effective up to the last look at the flag: if the worker had one
\* ahead of it when Cancel reset it, and not its own assignment to it, no
\* session comes into being that nobody asked for any more.
NoSessionAfterCancel ==
  cancelledAt \in {"loop", "scan"} => ~mgr

\* Where the user cancelled, or a session was accepted, the ports are free
\* again when the dialog is left, and the next dialog can listen on them.
PortsReleased ==
  /\ (dismissed = "cancel" /\ dialog # "closing") => listening = {}
  /\ result = "accepted" => listening = {}

-----------------------------------------------------------------------------
(* The inductive invariant behind the two.                                  *)

\* A session exists only from the moment it was found, and only a session is
\* reported, accepted and given to a tab.
SessionsAreFound ==
  /\ mgr => worker \in {"connected", "stop", "report", "idle", "ended"}
  /\ worker = "connected" => mgr
  /\ (\E i \in 1..Len(done) : done[i]) \/ result = "accepted" \/ opened => mgr

\* Nothing is reported before the ports are closed, and a cancelled dialog is
\* not left before the thread has ended.
EndsInOrder ==
  /\ worker \in {"new", "report", "idle", "ended"} => listening = {}
  /\ done # <<>> \/ result = "accepted" => worker \in {"idle", "ended"}
  /\ (dismissed = "cancel" /\ dialog # "closing") => worker = "ended"
  /\ dialog = "open" => dismissed = "no"

\* A flag that was reset behind the worker's own assignment stays reset.
StopIsFinal ==
  cancelledAt \in {"loop", "scan"} =>
    ~run /\ worker \in {"loop", "scan", "stop", "report", "idle", "ended"} /\ ~mgr

CallHomeInvariant == SessionsAreFound /\ EndsInOrder /\ StopIsFinal

-----------------------------------------------------------------------------
\* A session that called home ends up in a tab unless the user left the dialog.
SessionReachesTab ==
  mgr ~> (opened \/ dismissed # "no" \/ app = "exited")

\* The GUI thread does not hang in Cancel, unless Cancel came before the worker
\* began to listen and set the flag again.
CancelEnds ==
  (dialog = "closing" /\ cancelledAt \notin {"new", "listening"})
    ~> (dialog # "closing" \/ app = "exited")
=============================================================================
