----------------------------- MODULE Operations -----------------------------
(***************************************************************************)
(* The operations of a session tab: the actions of the Session menu, their *)
(* dialogs, the requests they build and what the tab remembers of the      *)
(* replies: locks, schemas, capabilities (session.py, NetConfTool.py).     *)
(*                                                                         *)
(* A modal dialog and the wait for a reply are both loops that handle      *)
(* events, so they nest; they form a stack, of which only the top can      *)
(* return.  A status signal is handled whatever is open.  NetconfTab       *)
(* models the connection in detail; here it comes, is lost, is noticed and *)
(* is dropped, and comes back with the capabilities of another server.     *)
(*                                                                         *)
(* Abstracted: a dialog is what its getters return when it is accepted, a  *)
(* request is an operation with the parameters that need a capability, a   *)
(* list of schemas or capabilities is the connection it was read from.     *)
(***************************************************************************)
EXTENDS Integers, Sequences

CONSTANTS
  Datastores,  \* the datastores the dialogs name
  Startup,     \* the startup datastore
  Offers,      \* the sets of capabilities a server may announce
  MaxConns,    \* bound: connections
  MaxSends,    \* bound: requests
  MaxDepth,    \* bound: nested dialogs and waits
  MaxUnder,    \* bound: what is in progress when an action is picked
  MaxBelow,    \* bound: what is in progress when a dialog of one request opens
  MaxSchemas   \* bound: schemas a server lists

Capabilities == {"candidate", "confirmed-commit", "validate", "url"}

ASSUME OperationsAssumption ==
  /\ Startup \in Datastores /\ "url" \notin Datastores
  /\ Offers \subseteq SUBSET Capabilities
  /\ MaxConns \in Nat /\ MaxSends \in Nat /\ MaxDepth \in Nat
  /\ MaxUnder \in Nat /\ MaxBelow \in Nat /\ MaxSchemas \in Nat

VARIABLES
  manager,   \* NccProxy._manager: 0 or the number of its connection
  up,        \* its session is up
  connected, \* NccProxy._is_connected
  offer,     \* the server_capabilities of the latest connection
  signals,   \* status signals queued for the GUI thread
  operable,  \* sessionOperable
  menu,      \* the enabled actions
  abort,     \* NccProxy.__abort_wait
  stack,     \* the dialogs and waits in progress
  lock,      \* _datastoreLock
  schemas,   \* _schemas and their window: 0 or the connection they are of
  capshow,   \* the capability window, likewise
  wire,      \* requests the server has yet to answer
  held,      \* datastores the server has locked for the session
  doubt,     \* datastores of which the tab did not learn what became of a lock
  app, conns, sends

conn == <<manager, up, connected, offer, conns>>
tab == <<signals, operable, menu, abort>>
views == <<lock, schemas, capshow, doubt>>
vars == <<conn, tab, stack, views, wire, held, app, sends>>

Where == Datastores \cup {"url"}
Acts == {"copy", "delete", "locks", "validate", "discard", "commit", "cancel",
         "confirmed", "capabilities", "schemas", "manager"}

Req(op, source, target) ==
  [op |-> op, source |-> source, target |-> target, confirmed |-> FALSE]
Plain(op) == Req(op, "none", "none")

Init ==
  /\ manager = 0 /\ up = FALSE /\ connected = FALSE /\ offer = {} /\ conns = 0
  /\ signals = <<>> /\ operable = FALSE /\ menu = {} /\ abort = FALSE
  /\ stack = <<>>
  /\ lock = {} /\ schemas = 0 /\ capshow = 0 /\ doubt = {}
  /\ wire = <<>> /\ held = {}
  /\ app = "running" /\ sends = 0

-----------------------------------------------------------------------------
(* The stack of dialogs and waits                                           *)

Dialog(kind, boxes) ==
  [kind |-> kind, open |-> TRUE, of |-> manager, boxes |-> boxes]

\* via: who waits for an rpc.  dlg: the dialog on whose behalf it waits.
\* chosen: what the user chose, for the properties.
Wait(kind, via, dlg, req) ==
  [kind |-> kind, via |-> via, dlg |-> dlg, req |-> req, of |-> manager,
   id |-> sends + 1, reply |-> "pending", delay |-> kind = "rpc", left |-> -1,
   chosen |-> req]

\* A request on the wire: the server model only knows locks.
Wired(req) ==
  [id |-> sends + 1, op |-> IF req.op \in {"lock", "unlock"} THEN req.op ELSE "other",
   target |-> req.target]

Waiting(f) == f.kind \in {"rpc", "info", "schemas"}

\* exec() of a closed dialog returns when nothing above it runs any more.
Unwound(s) ==
  LET live == {i \in DOMAIN s : Waiting(s[i]) \/ s[i].open}
  IN SubSeq(s, 1, CHOOSE n \in live \cup {0} : \A i \in live : i <= n)

Top == stack[Len(stack)]
Below == SubSeq(stack, 1, Len(stack) - 1)

\* The modal window on top, the progress dialog of a download among them.
Modal == {i \in DOMAIN stack : \/ stack[i].kind = "schemas"
                               \/ ~Waiting(stack[i]) /\ stack[i].open}
FrontDialog == CHOOSE i \in Modal : \A j \in Modal : j <= i
InFront(kind) ==
  /\ app = "running" /\ Len(stack) < MaxDepth
  /\ Modal # {} /\ stack[FrontDialog].kind = kind

\* The user picks an enabled action of the main window.
Picks(a) ==
  /\ app = "running" /\ Len(stack) < MaxDepth /\ Len(stack) <= MaxUnder
  /\ Modal = {}
  /\ a \in menu

-----------------------------------------------------------------------------
(* Faulty variants, used by mutants of PROJECT.json.                        *)

\* What the menu let through is not looked at again.
AssertedByMenu(caps) == TRUE

\* The box keeps what was clicked when the request was not sent.
AfterBoxOnError(s, f, rsp) ==
  IF rsp = "error" /\ f.req.op = "lock"
  THEN [s EXCEPT ![f.dlg].boxes = @ \ {f.req.target}] ELSE s

\* A lock is noted whatever the reply says.
NotedAlways(f) ==
  IF f.req.op = "lock" THEN lock \cup {f.req.target}
  ELSE IF f.req.op = "unlock" THEN lock \ {f.req.target} ELSE lock

\* The capability window survives the connection.
ForgetsSchemas == lock' = {} /\ doubt' = {} /\ schemas' = 0 /\ capshow' = capshow

\* A download that fails does not give the controls back.
LoadEndsSilently(list) ==
  /\ stack' = Unwound(Below)
  /\ schemas' = list
  /\ operable' = (operable \/ list # 0) /\ menu' = menu

-----------------------------------------------------------------------------
(* Capabilities                                                             *)

\* The capabilities the code lists for an action (QAction.setData).
Data(a) ==
  CASE a = "validate" -> {"validate"}
    [] a \in {"discard", "commit", "confirmed"} -> {"candidate"}
    [] a = "cancel" -> {"candidate", "confirmed-commit"}
    [] OTHER -> {}

\* _updateWidgetStatus: without a manager no server has any capability.
Enabled(op) ==
  {a \in Acts : op /\ Data(a) \subseteq (IF manager = 0 THEN {} ELSE offer)}

\* _assert, which lets everything pass without a manager.
Asserted(caps) == manager = 0 \/ caps \subseteq offer

\* datastore_or_url checks :url; a datastore needs nothing.
Url(places) == IF "url" \in places THEN {"url"} ELSE {}

-----------------------------------------------------------------------------
(* The connection (NccProxy) and the server                                 *)

\* connect() is called again by the timer or by the action that the handling of
\* the loss sets or enables.
Connects ==
  /\ manager = 0 /\ conns < MaxConns
  /\ \A i \in DOMAIN signals : signals[i]
  /\ conns' = conns + 1 /\ manager' = conns + 1
  /\ offer' \in Offers
  /\ up' = TRUE /\ connected' = TRUE
  /\ signals' = Append(signals, TRUE)
  /\ UNCHANGED <<operable, menu, abort, stack, views, wire, held, app, sends>>

\* The session goes down: its waits are told, or not; the server releases the
\* locks.
Lost ==
  /\ up /\ up' = FALSE
  /\ \E F \in SUBSET {i \in DOMAIN stack : Waiting(stack[i]) /\ stack[i].of = manager
                                            /\ stack[i].reply = "pending"} :
       stack' = [i \in DOMAIN stack |->
                   IF i \in F THEN [stack[i] EXCEPT !.reply = "failed"] ELSE stack[i]]
  /\ wire' = <<>> /\ held' = {}
  /\ UNCHANGED <<manager, connected, offer, conns, tab, views, app, sends>>

Noticed ==
  /\ connected /\ ~up
  /\ connected' = FALSE
  /\ signals' = Append(signals, FALSE)
  /\ UNCHANGED <<manager, up, offer, conns, operable, menu, abort, stack, views, wire,
                 held, app, sends>>

Dropped ==
  /\ manager # 0 /\ ~up /\ ~connected
  /\ manager' = 0
  /\ UNCHANGED <<up, connected, offer, conns, tab, stack, views, wire, held,
                 app, sends>>

\* The server answers in order, also requests nobody waits for any more.
Answers ==
  /\ up /\ wire # <<>>
  /\ wire' = Tail(wire)
  /\ LET r == Head(wire)
         t == r.target
     IN \E ok \in BOOLEAN :
          /\ r.op = "lock" /\ t \in held => ~ok
          /\ r.op = "unlock" /\ t \notin held => ~ok
          /\ held' = IF ~ok THEN held
                     ELSE CASE r.op = "lock" -> held \cup {t}
                            [] r.op = "unlock" -> held \ {t}
                            [] OTHER -> held
          /\ stack' = [i \in DOMAIN stack |->
               IF Waiting(stack[i]) /\ stack[i].id = r.id
               THEN [stack[i] EXCEPT !.reply = IF ok THEN "ok" ELSE "error"]
               ELSE stack[i]]
  /\ UNCHANGED <<conn, tab, views, app, sends>>

-----------------------------------------------------------------------------
(* The status signals                                                       *)

\* _onDeviceConnectStatusChanged(True)
ShowConnected ==
  /\ signals # <<>> /\ Head(signals)
  /\ signals' = Tail(signals)
  /\ operable' = TRUE
  /\ menu' = Enabled(TRUE)
  /\ UNCHANGED <<conn, abort, stack, views, wire, held, app, sends>>

\* _clearConnectionsSensitiveData
Forgets == lock' = {} /\ doubt' = {} /\ schemas' = 0 /\ capshow' = 0

\* _onDeviceConnectStatusChanged(False)
ShowDisconnected ==
  /\ signals # <<>> /\ ~Head(signals)
  /\ signals' = Tail(signals)
  /\ operable' = FALSE
  /\ menu' = Enabled(FALSE)
  /\ Forgets
  /\ UNCHANGED <<conn, abort, stack, wire, held, app, sends>>

-----------------------------------------------------------------------------
(* Sending a request: setCommandXML(xml, True), _sendXml                    *)

Posts(below, f) ==
  /\ operable /\ up
  /\ sends < MaxSends /\ sends' = sends + 1
  /\ stack' = Append(below, f)
  /\ wire' = Append(wire, Wired(f.req))
  /\ operable' = FALSE /\ abort' = FALSE
  /\ app' = app

\* Session is not operable now.
Refuses(after) ==
  /\ ~operable
  /\ stack' = after
  /\ UNCHANGED <<operable, abort, wire, app, sends>>

\* dispatch raises, and so does the except clause, which reads the unassigned
\* msg_id: the application ends.
Raises ==
  /\ operable /\ ~up
  /\ app' = "exited"
  /\ UNCHANGED <<operable, abort, stack, wire, sends>>

Sends(below, chosen, req) ==
  \/ Posts(below, [Wait("rpc", "menu", 0, req) EXCEPT !.chosen = chosen])
  \/ Refuses(below)
  \/ Raises

\* An action builds a request that needs caps: an error box, or it is sent.
Request(below, chosen, req, caps) ==
  /\ \/ Asserted(caps) /\ Sends(below, chosen, req)
     \/ /\ ~Asserted(caps)
        /\ stack' = below
        /\ UNCHANGED <<operable, abort, wire, app, sends>>
  /\ UNCHANGED <<conn, signals, menu, views, held>>

\* cgroupCtrlDelay, 300 ms after the request.
DelayedControl(i) ==
  /\ app = "running"
  /\ Waiting(stack[i]) /\ stack[i].delay
  /\ stack' = [stack EXCEPT ![i].delay = FALSE]
  /\ operable' = FALSE /\ menu' = Enabled(FALSE)
  /\ UNCHANGED <<conn, signals, abort, views, wire, held, app, sends>>

\* _onBtAbort: the Abort button, or Cancel of the progress dialog.
Abort ==
  /\ app = "running"
  /\ \/ Modal = {} /\ \E i \in DOMAIN stack : stack[i].kind = "rpc" /\ ~stack[i].delay
     \/ Modal # {} /\ stack[FrontDialog].kind = "schemas"
  /\ abort' = TRUE
  /\ UNCHANGED <<conn, signals, operable, menu, stack, views, wire, held, app,
                 sends>>

-----------------------------------------------------------------------------
(* The reply of a request                                                   *)

\* _datastoreLock after the reply.
Noted(f) ==
  CASE f.reply = "ok" /\ f.req.op = "lock" -> lock \cup {f.req.target}
    [] f.reply = "ok" /\ f.req.op = "unlock" -> lock \ {f.req.target}
    [] OTHER -> lock

\* A lock is in doubt, until the loss of the session is handled, when a request
\* for it was given up, which the server may still carry out, when its reply came
\* after its session was lost, or when another request for it still waits below,
\* whose older reply will be handled later.
Doubted(f) ==
  IF /\ f.req.op \in {"lock", "unlock"}
     /\ f.reply # "error"
     /\ \/ f.reply # "ok" \/ ~up \/ f.of # manager
        \/ \E i \in DOMAIN Below : Below[i].kind = "rpc" /\ Below[i].req.target = f.req.target
  THEN doubt \cup {f.req.target}
  ELSE doubt

\* onButtonClicked after setCommandXML returned: a box that was checked in
\* vain is unchecked, one that was unchecked only if there was no reply.
AfterBox(s, f, rsp) ==
  IF rsp = "none" \/ (rsp = "error" /\ f.req.op = "lock")
  THEN [s EXCEPT ![f.dlg].boxes = IF f.req.op = "lock" THEN @ \ {f.req.target}
                                                       ELSE @ \cup {f.req.target}]
  ELSE s

\* The box is set, and the waits below go on.
Resumes(f, rsp) ==
  /\ stack' = Unwound(IF f.via = "box" THEN AfterBox(Below, f, rsp) ELSE Below)
  /\ UNCHANGED <<wire, app, sends>>

\* _onKillSession after its reply: the list is read again, if there is a session.
KillAnswered(f) ==
  \/ /\ up /\ sends < MaxSends /\ sends' = sends + 1
     /\ stack' = Append(Below, Wait("info", "refresh", f.dlg, Plain("get")))
     /\ wire' = Append(wire, Wired(Plain("get")))
     /\ app' = app
  \/ /\ ~up
     /\ stack' = Unwound([Below EXCEPT ![f.dlg].boxes = {}])
     /\ UNCHANGED <<wire, app, sends>>

Returns ==
  /\ app = "running" /\ stack # <<>>
  /\ Top.kind = "rpc" /\ Top.reply \in {"ok", "error"}
  /\ ~abort /\ manager # 0
  /\ operable' = TRUE /\ menu' = Enabled(TRUE)
  /\ lock' = Noted(Top) /\ doubt' = Doubted(Top)
  /\ IF Top.via = "kill" THEN KillAnswered(Top) ELSE Resumes(Top, Top.reply)
  /\ UNCHANGED <<conn, signals, abort, schemas, capshow, held>>

\* The error of the session, the abort, the timeout, or no manager to ask for
\* the time it took.  Without a reply _onKillSession raises: the application
\* ends.
Fails ==
  /\ app = "running" /\ stack # <<>>
  /\ Top.kind = "rpc"
  /\ Top.reply \in {"failed", "pending"} \/ abort \/ manager = 0
  /\ operable' = TRUE /\ menu' = Enabled(TRUE)
  /\ doubt' = Doubted([Top EXCEPT !.reply = "failed"])
  /\ \/ Top.via # "kill" /\ Resumes(Top, "none")
     \/ Top.via = "kill" /\ app' = "exited" /\ UNCHANGED <<stack, wire, sends>>
  /\ UNCHANGED <<conn, signals, abort, lock, schemas, capshow, held>>

-----------------------------------------------------------------------------
(* The dialogs of one request                                               *)

Opens(d) ==
  /\ stack' = Append(stack, d)
  /\ UNCHANGED <<conn, tab, views, wire, held, app, sends>>

\* onActCancelConfirmedCommit asks for the capabilities before its dialog, the
\* others when they build the request.
OpenDialog ==
  /\ Len(stack) <= MaxBelow
  /\ \/ \E k \in {"copy", "delete", "validate", "confirmed"} : Picks(k) /\ Opens(Dialog(k, {}))
     \/ /\ Picks("cancel")
        /\ Asserted({"candidate", "confirmed-commit"})
        /\ Opens(Dialog("cancel", {}))

Accepts(kind) ==
  /\ InFront(kind)
  /\ Top.kind = kind

\* What the dialogs can return when they are accepted: _onAccept lets no URL
\* through that is none.  The confirming commit is the one that is not confirmed.
CopyConfiguration == Where \X Where
DeleteConfiguration == {Startup, "url"}
ValidateConfiguration == Where
ComfirmedCommit == BOOLEAN

BuildCopyXML(source, target) == Req("copy-config", source, target)

BuildCommitXML(confirmed) == [Plain("commit") EXCEPT !.confirmed = confirmed]
CommitCaps(confirmed) == {"candidate"} \cup IF confirmed THEN {"confirmed-commit"} ELSE {}

CopyConfig ==
  /\ Accepts("copy")
  /\ \E c \in CopyConfiguration :
       Request(Below, Req("copy-config", c[1], c[2]), BuildCopyXML(c[2], c[1]),
               Url({c[1], c[2]}))

DeleteConfig ==
  /\ Accepts("delete")
  /\ \E target \in DeleteConfiguration :
       LET r == Req("delete-config", "none", target)
       IN Request(Below, r, r, Url({target}))

ValidateConfig ==
  /\ Accepts("validate")
  /\ \E source \in ValidateConfiguration :
       LET r == Req("validate", source, "none")
       IN Request(Below, r, r, {"validate"} \cup Url({source}))

ConfirmedCommit ==
  /\ Accepts("confirmed")
  /\ \E confirmed \in ComfirmedCommit :
       LET r == BuildCommitXML(confirmed) IN Request(Below, r, r, CommitCaps(confirmed))

CancelCommit ==
  /\ Accepts("cancel")
  /\ LET r == Plain("cancel-commit") IN Sends(Below, r, r)
  /\ UNCHANGED <<conn, signals, menu, views, held>>

Commit ==
  /\ Picks("commit")
  /\ LET r == BuildCommitXML(FALSE) IN Request(stack, r, r, CommitCaps(FALSE))

DiscardChanges ==
  /\ Picks("discard")
  /\ LET r == Plain("discard-changes") IN Request(stack, r, r, {"candidate"})

CloseDialog ==
  /\ Modal # {} /\ app = "running"
  /\ stack[FrontDialog].kind # "schemas"
  /\ stack' = Unwound([stack EXCEPT ![FrontDialog].open = FALSE])
  /\ UNCHANGED <<conn, tab, views, wire, held, app, sends>>

-----------------------------------------------------------------------------
(* LockUnlockDatastore                                                      *)

ManageLocks == Picks("locks") /\ Opens(Dialog("locks", lock))

ClickBox ==
  /\ InFront("locks")
  /\ \E t \in Datastores :
       LET i == FrontDialog
           on == t \notin stack[i].boxes
           f == Wait("rpc", "box", i, Req(IF on THEN "lock" ELSE "unlock", "none", t))
           clicked == [stack EXCEPT ![i].boxes = IF on THEN @ \cup {t} ELSE @ \ {t}]
       IN Posts(clicked, f) \/ Refuses(AfterBox(clicked, f, "none")) \/ Raises
  /\ UNCHANGED <<conn, signals, menu, views, held>>

-----------------------------------------------------------------------------
(* SessionManager: boxes is {"row"} when sessions are listed                *)

\* getSessionInfo up to its wait, which no sessionOperable guards.
Asks(via, dlg) ==
  /\ up /\ sends < MaxSends /\ sends' = sends + 1
  /\ stack' = Append(stack, Wait("info", via, dlg, Plain("get")))
  /\ wire' = Append(wire, Wired(Plain("get")))
  /\ abort' = FALSE

\* Its result: the dialog opens with the list, or its list is replaced.
Listed(below, via, dlg, rows) ==
  IF via = "open" THEN Append(below, Dialog("manager", rows))
  ELSE Unwound([below EXCEPT ![dlg].boxes = rows])

OpenManager ==
  /\ Picks("manager")
  /\ \/ Asks("open", 0)
     \/ ~up /\ stack' = Listed(stack, "open", 0, {}) /\ UNCHANGED <<wire, abort, sends>>
  /\ UNCHANGED <<conn, signals, operable, menu, views, held, app>>

Refresh ==
  /\ InFront("manager")
  /\ \/ Asks("refresh", FrontDialog)
     \/ /\ ~up
        /\ stack' = Listed(stack, "refresh", FrontDialog, {})
        /\ UNCHANGED <<wire, abort, sends>>
  /\ UNCHANGED <<conn, signals, operable, menu, views, held, app>>

InfoReturns ==
  /\ app = "running" /\ stack # <<>>
  /\ Top.kind = "info"
  /\ stack' = Listed(Below, Top.via, Top.dlg,
                     IF Top.reply = "ok" /\ ~abort THEN {"row"} ELSE {})
  /\ UNCHANGED <<conn, tab, views, wire, held, app, sends>>

\* With a row selected and the question answered Yes.  No reply is an
\* exception that nobody handles.
KillSession ==
  /\ InFront("manager")
  /\ stack[FrontDialog].boxes # {}
  /\ \/ Posts(stack, Wait("rpc", "kill", FrontDialog, Plain("kill-session")))
     \/ Raises
     \/ /\ ~operable
        /\ app' = "exited"
        /\ UNCHANGED <<operable, abort, stack, wire, sends>>
  /\ UNCHANGED <<conn, signals, menu, views, held>>

-----------------------------------------------------------------------------
(* Capabilities and schemas                                                 *)

ShowCapabilities ==
  /\ Picks("capabilities")
  /\ connected /\ operable
  /\ capshow = 0
  /\ capshow' = manager
  /\ UNCHANGED <<conn, tab, stack, lock, schemas, doubt, wire, held, app, sends>>

\* onGetSchema up to its first wait; without a session it fails at once.
GetSchemas ==
  /\ Picks("schemas")
  /\ connected /\ operable
  /\ schemas = 0
  /\ \/ /\ up /\ sends < MaxSends /\ sends' = sends + 1
        /\ stack' = Append(stack, Wait("schemas", "menu", 0, Plain("get")))
        /\ wire' = Append(wire, Wired(Plain("get")))
        /\ operable' = FALSE /\ menu' = Enabled(FALSE) /\ abort' = FALSE
     \/ /\ ~up
        /\ operable' = TRUE /\ menu' = Enabled(TRUE)
        /\ UNCHANGED <<stack, wire, abort, sends>>
  /\ UNCHANGED <<conn, signals, views, held, app>>

\* A schema came in, or the list did: the next is asked for.
NextSchema ==
  /\ app = "running" /\ stack # <<>>
  /\ Top.kind = "schemas" /\ Top.reply = "ok" /\ ~abort
  /\ up /\ sends < MaxSends /\ sends' = sends + 1
  /\ \E n \in IF Top.left = -1 THEN 1..MaxSchemas ELSE {Top.left} \ {0} :
       stack' = Append(Below, [Top EXCEPT !.id = sends + 1, !.of = manager,
                                          !.reply = "pending", !.left = n - 1])
  /\ wire' = Append(wire, Wired(Plain("get-schema")))
  /\ UNCHANGED <<conn, signals, operable, menu, abort, views, held, app>>

LoadEnds(list) ==
  /\ stack' = Unwound(Below)
  /\ schemas' = list
  /\ operable' = TRUE /\ menu' = Enabled(TRUE)

\* All are there, or an empty list, an error, the abort, the timeout, the loss
\* of the session end it with nothing.
SchemasLoaded ==
  /\ app = "running" /\ stack # <<>>
  /\ Top.kind = "schemas"
  /\ \/ /\ Top.reply = "ok" /\ Top.left = 0 /\ ~abort
        /\ LoadEnds(Top.of)
     \/ /\ Top.reply # "ok" \/ abort \/ Top.left = -1 \/ ~up
        /\ LoadEnds(0)
  /\ UNCHANGED <<conn, signals, abort, lock, capshow, doubt, wire, held, app,
                 sends>>

-----------------------------------------------------------------------------
Environment == app = "running" /\ (Connects \/ Lost \/ Noticed \/ Dropped \/ Answers)
Signal == app = "running" /\ (ShowConnected \/ ShowDisconnected)

Next ==
  \/ Environment \/ Signal
  \/ Abort \/ Returns \/ Fails
  \/ \E i \in DOMAIN stack : DelayedControl(i)
  \/ OpenDialog \/ CloseDialog
  \/ CopyConfig \/ DeleteConfig \/ ValidateConfig \/ ConfirmedCommit \/ CancelCommit
  \/ Commit \/ DiscardChanges
  \/ ManageLocks \/ ClickBox
  \/ OpenManager \/ Refresh \/ InfoReturns \/ KillSession
  \/ ShowCapabilities \/ GetSchemas \/ NextSchema \/ SchemasLoaded

Spec == Init /\ [][Next]_vars

-----------------------------------------------------------------------------
(* The types, and the shape of the stack: a request that was sent from a    *)
(* dialog knows the dialog, which is below it.                              *)
Places == Datastores \cup {"none", "url"}
Ops == {"copy-config", "delete-config", "validate", "commit", "cancel-commit",
        "discard-changes", "lock", "unlock", "get", "get-schema", "kill-session"}
Reqs == [op : Ops, source : Places, target : Places, confirmed : BOOLEAN]
Dialogs == [kind : {"copy", "delete", "validate", "confirmed", "cancel", "locks", "manager"},
            open : BOOLEAN, of : Nat, boxes : SUBSET (Places \cup {"row"})]
Waits == [kind : {"rpc", "info", "schemas"},
          via : {"menu", "box", "kill", "open", "refresh"}, dlg : Nat, req : Reqs,
          of : Nat, id : Nat, reply : {"pending", "ok", "error", "failed"},
          delay : BOOLEAN, left : Int, chosen : Reqs]

OfDialog(f) == f.via \in {"box", "kill", "refresh"}
WaitOK(f) ==
  /\ f.delay => f.kind = "rpc"
  /\ f.kind = "info" => f.via = "open" \/ OfDialog(f)
StackOK(s) ==
  /\ s \in Seq(Dialogs \cup Waits)
  /\ \A i \in DOMAIN s : s[i] \in Waits =>
       /\ WaitOK(s[i])
       /\ OfDialog(s[i]) => s[i].dlg \in 1..(i - 1) /\ s[s[i].dlg] \in Dialogs

TypeOK ==
  /\ manager \in Nat /\ conns \in 0..MaxConns
  /\ up \in BOOLEAN /\ connected \in BOOLEAN /\ offer \subseteq Capabilities
  /\ signals \in Seq(BOOLEAN) /\ operable \in BOOLEAN /\ abort \in BOOLEAN
  /\ menu \subseteq Acts
  /\ StackOK(stack)
  /\ lock \subseteq Places /\ doubt \subseteq Places /\ held \subseteq Places
  /\ schemas \in Nat /\ capshow \in Nat
  /\ wire \in Seq([id : Nat, op : {"lock", "unlock", "other"}, target : Places])
  /\ app \in {"running", "exited"} /\ sends \in 0..MaxSends

Needs(req) ==
  CASE req.op = "commit" ->
         {"candidate"} \cup IF req.confirmed THEN {"confirmed-commit"} ELSE {}
    [] req.op = "discard-changes" -> {"candidate"}
    [] req.op = "validate" -> {"validate"} \cup Url({req.source})
    [] OTHER -> Url({req.source, req.target})

\* A request that needs a capability goes only to a server that announced it,
\* although the actions were enabled and the dialog was opened under another
\* connection.  (Cancelling a commit is left out: it looks before its dialog.)
RequestsSupported ==
  [][sends' > sends => LET f == stack'[Len(stack')]
                       IN f.kind = "rpc" => Needs(f.req) \subseteq offer]_vars

\* A lock or unlock of t is in progress.
InProgress(t) ==
  \E i \in DOMAIN stack : stack[i].kind = "rpc" /\ stack[i].req.target = t

\* A lock the tab remembers is held by the server, however requests, aborts,
\* late answers and reconnections came: unless it is being unlocked, or is in
\* doubt, as the comment of Doubted says.
LocksRemembered ==
  up /\ connected /\ signals = <<>> =>
    \A t \in lock : t \in held \cup doubt \/ InProgress(t)

\* A box that is checked in the lock dialog, with no click on it in progress,
\* is a lock the tab remembers or one in doubt, as long as the connection is the
\* one the dialog was opened with.
BoxesTellLocks ==
  \A i \in DOMAIN stack :
    stack[i].kind = "locks" /\ stack[i].open /\ stack[i].of = manager /\ connected =>
      \A t \in stack[i].boxes : t \in lock \cup doubt \/ InProgress(t)

\* The capability window shows the server the tab is connected to, or the loss
\* of the other one is about to be handled.
LossPending == \E i \in DOMAIN signals : ~signals[i]
CapabilitiesCurrent == capshow # 0 => capshow = manager \/ LossPending

\* A connected tab with nothing in progress can send, whatever operations,
\* downloads and dialogs came to an end and how.
Busy(s) == \E i \in DOMAIN s : s[i].kind \in {"rpc", "schemas"}
IdleOperable == connected /\ signals = <<>> /\ ~Busy(stack) => operable

\* Why: a session that is up belongs to the connection; the latest signal tells
\* whether there is one; the controls are off only while something runs, or a
\* loss was the last thing that was handled or is about to be.
ConnectionKnown ==
  /\ up => manager # 0
  /\ signals # <<>> => signals[Len(signals)] = connected
  /\ capshow # 0 => (connected /\ capshow = manager) \/ LossPending
  /\ ~operable => Busy(stack) \/ signals # <<>> \/ ~connected

\* What the dialog and the parameters of _buildCopyXML say: the configuration
\* is copied from the source to the target.
CopiesAsChosen ==
  \A i \in DOMAIN stack :
    stack[i].kind = "rpc" /\ stack[i].req.op = "copy-config" =>
      stack[i].req = stack[i].chosen
=============================================================================
