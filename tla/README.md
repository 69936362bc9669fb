# NetConfTool: TLA+ models, model checking and proofs

NetConfTool is a desktop NETCONF client (Python, Qt): a window with one tab per
session, on top of a private fork of *ncclient* under `src/ncclient`. This
directory models the part of it that runs concurrently and is hard to test, checks
the models with TLC on small instances, and proves the most important results for
all values of the constants with TLAPS.

Every definition is translated from the source; `PROJECT.json` maps each one to its
lines. The path prefix `src/` below is the repository's root.

- [The system](#the-system): components, their state, how they interact
- [The modules](#the-modules): what models what, and how
- [The runs](#the-runs): what is checked, within which bounds
- [The proofs](#the-proofs): what is proved and along which argument
- [What the models showed](#what-the-models-showed): claims of the sources they refute
- [What is not modelled](#what-is-not-modelled)

## The system

### Threads

| thread | code | what it does |
|---|---|---|
| GUI | Qt event loop | clicks, timers, the slots of the proxies' signals; builds RPCs and waits for them in a *nested* event loop |
| session proxy, one per tab | `NccProxy.run`, `src/session.py:96` | connects, polls the session, reports its loss, closes it |
| session thread, one per session | `Session.run`, `src/ncclient/transport/session.py:224` | the only thread that reads and writes the transport; dispatches messages and errors to listeners |
| workers | `QCallHome.doCallhome`, `DownloadPackage.download`, `UpdateCheck` | listen for a device that calls home; download an update |

### Components

**Session engine** (`ncclient/transport/session.py`, `transport/ssh.py`,
`operations/rpc.py`, `operations/session.py`, `manager.py`). State: the id counter
`_msg_id`, the send queue `_q`, the framing `_base`, `_connected`, `_closing`; the
listener's table `_id2rpc`; of each RPC `_event`, `_reply`, `_error`. Operations:
connect (the exchange of hellos, with a time limit), issue an RPC, close the
session, wait for an RPC and give up. The connecting thread and the issuers talk to
the session thread through the queue, the table, two events and a `join`. Hard:
`_msg_id` is incremented without a lock; `errback` reads the table without the lock
that `register` and `callback` take; an RPC is registered before its fields exist;
`_connected` is reset last; replies come late, twice or never; the client's hello is
queued and the framing may change before it is sent. Correct when: a reply reaches
the RPC it answers and no other; an RPC is completed at most once; a lost session
completes every RPC; framing is what the hello exchange settled; `connect` and
`close` return.

**Message framing** (`ncclient/transport/parser.py`). State: the bytes not yet
parsed, the position the next search begins at, the chunks of the message so far.
One operation: parse what one read returned. Hard: the transport cuts the stream
anywhere, inside a delimiter, a chunk header or a character; the base and the parser
are replaced by another thread while a parse is in progress. Correct when: messages
are dispatched whole, in order, once, and as soon as they are complete.

**Session proxy** (`NccProxy`, `src/session.py:63`). State: `__runing`, the event
`__connect`, `_is_connected`, `_manager`. The GUI thread calls `connect`,
`disconnect`, `setManager`, `close`; the thread emits a status signal and an error
signal, queued to the GUI thread. Hard: neither side takes a lock, so a `connect()`
may fall between any two statements of the loss handling. Correct when: no session
stays up without a thread that looks after it; a loss is reported.

**Session tab** (`NetconfSession`, `src/session.py:418`). State: whether a request
may be sent (`sessionOperable`), whether Abort is enabled, the reconnect timer,
`_userDisconnet`, the locks the session holds, the requests in progress (the Python
stack of nested `_sendXml` calls). Hard: `_sendXml` handles events while it waits,
so status signals, clicks and other requests run inside it; one abort flag serves
all nested waits; a timer changes the controls 300 ms later. Correct when: the
controls are always given back; a request ends; what the tab shows follows what the
session is.

**Call home** (`QCallHome` and `CallHomeDialog`, `src/session.py:223`). State: the run
flag, the listening sockets, the session that came about; the dialog, its result and
the done signals queued for it. The GUI thread starts the worker, resets its flag and
waits for it in `closeEvent`; the worker answers by a signal. Hard: the flag is set to
`True` by the thread when it starts, so a cancel that came first is lost; a cancel
races with the device that connects; Escape leaves the dialog without `closeEvent`.
Correct when: a cancel in time prevents the session; leaving the dialog does not hang;
ports are free afterwards; a session somebody still wants reaches a tab.

**Opening the connection** (`connect_ssh` in `ncclient/manager.py`, `SSHSession.connect`
and `_auth` in `ncclient/transport/ssh.py`). State: the socket, the transport, the
host keys on file and the types negotiated, the key lists of the login. Hard: a chain
of some fifteen steps, each of which may fail, while the connection may drop between
any two. Correct when: what fails leaves nothing open; every permitted way to log in
is tried before the login fails; a known host is not taken for unknown.

**Operations of a tab** (`NetconfSession` and its dialogs, `src/session.py:860-1090`
and `1729-2411`). State: the enabled actions, `_datastoreLock`, `_schemas`, the
capability window, the dialogs and waits in progress. Hard: a modal dialog and a wait
for a reply are both event loops, so the connection may be lost and another server
take its place between opening a dialog, accepting it, sending its request and
handling the reply. Correct when: locks, boxes and capabilities shown are those of
the connection; nothing is asked of a server that cannot do it; the controls come back.

**Notifications and session history** (`NotificationWidget` in `src/session.py`,
`SessionHistoryWidget` in `src/session_history.py`). State: the rows, the filter, the
current row, the selection, the preview, the follow mode. Hard: rows arrive inside
the event loop of a context menu; Qt moves the current row by rules of its own; a
hidden preview must catch up. Correct when: the preview is that of the current row;
Remove removes what is selected.

**Favourites** (`src/favorite.py`, `src/qanytree`). State: a tree of requests and
categories, two views and a dialog on it, an editor with write-back. Hard: loops over
row numbers taken before the first change; rows cut long ago; drag and drop into
one's own descendants. Correct when: the items stay a tree; what was selected, and
nothing else, is removed; an edit reaches its own item.

**Device list** (`src/device_manage.py`). State: dicts of options, shared between the
list, the form and the tabs. Hard: reading the form writes the dict; removal by
equality; rows by number. Correct when: an edit reaches the selected session.

**Main window** (`src/NetConfTool.py`). State: the tabs, their names and connections,
the question or menu displayed. Hard: connections change while a list of tabs is being
closed or a menu is open. Correct when: names are distinct; a connected tab is closed
only with consent.

**Persistent data** (`AppData`, `RecentlySession` in `src/data.py`; `HistoryModel` in
`src/history.py`). State: `setting.json`, `setting.ini`, what is loaded of them, the
bounded lists. Hard: `save` truncates the file before writing it; favourites reach
`AppData` only on save and exit; several handlers end the process. Correct when: a
start shows what the last complete save showed; the lists keep their limits.

**Package download** (`DownloadPackage` and its window, `src/updatecheck.py`). State:
the download and the flag that cancels it. Hard: `started` is connected before the
worker is moved to its thread (lines 178-180), so it depends on PyQt in which thread
`download` runs.

**Stateless parts**: operations and replies, capabilities, XML helpers, device
handlers; **unused parts** (TLS, Unix sockets, SAX parser); **presentation** (XML
editor, log view, about box).

### How a request travels

    tab._sendXml -> NccProxy -> Manager.dispatch -> RPC() -> table, queue     GUI thread
                                                                |
    server <- transport <-------------- Session.run <-----------+             session thread
    server -> transport -> parser -> _dispatch_message -> RPCReplyListener
                                                                |
    tab._sendXml <- _waitAsyncRPCReply (polls, handles events) <- event       GUI thread

`Framing` models the step "parser", `NcSession` everything else between dispatch and
event, `NetconfTab` with `NccProxy` the two ends; `SshConnect` is how the session
comes about, `Operations` what the user asks for and what the tab makes of the reply.
The main window (`MainWindow`, `DeviceList`) makes and closes the tabs, and `AppStore`
keeps what is left when the program ends.

## The modules

| module | what it is |
|---|---|
| `RpcService` | abstract specification: what the engine promises the callers of an RPC |
| `NcSession` | the session engine; refines `RpcService` |
| `NcSessionProofs` | proofs of its types, invariants, action properties and of the refinement |
| `SshConnect` | from the arguments of `connect_ssh` to a `Manager` or an exception |
| `Framing` | the parser, byte by byte, with the stream it reads |
| `FramingProofs` | proofs of its types, and that messages come out as they were sent |
| `NccProxy` | the proxy thread of a tab |
| `NetconfTab` | the tab and its connection; extends `NccProxy` and composes the two |
| `NetconfTabProofs` | proofs of the types and safety of both, and of the lists of `SessionLists` |
| `Operations` | the actions of the Session menu, their dialogs and what the tab remembers |
| `OperationsProofs` | proofs of its types, its stack, its locks and all its properties but the refuted one |
| `LogTable` | operators: a table with filter, selection, preview and follow mode |
| `SessionLists` | the notifications and the history of a tab: two such tables |
| `CallHome` | the call-home worker and its dialog, up to the hand-over to a tab |
| `ConnectProofs` | proofs about the two ways to a connection: sockets, host keys and logins of `SshConnect`; types and safety of `CallHome` |
| `AnyTree` | operators: the tree behind the tree views |
| `Favorites` | the favourites: a tree, two views, a dialog |
| `FavoritesProofs` | proofs that they stay a tree, and of what edits and removals reach |
| `DeviceList` | the saved sessions and the dialog that edits them |
| `MainWindow` | the tabs, menus and questions; extends `DeviceList` and composes the two |
| `MainWindowProofs` | proofs about consent, the names of tabs and the saved sessions |
| `AppStore` | settings, histories and recent connections over several lives of the process |
| `AppStoreProofs` | proofs that a start restores the last save and that the lists keep their limits |
| `MC...` | instances for TLC |

The modules hold a few *faulty variants*: an action or operator with one plausible bug
in it, in a section of that name or marked `mutant`. They belong to no specification.
Each shows, put in the place of the definition it is named after, that some property
can fail (`mutants` in `PROJECT.json`).

### NcSession

A step is what runs between two points where another thread can see or change shared
state.

- **The session thread** is `run`: `select` (the read half of the loop), `send` (the
  write half), then `errback`, `clear`, `close` for the `except` clause and `done` or
  `failed` when it has ended. `ReadHello`, `ReadReply`, `ReadIgnored`, `ReadFails`
  are the outcomes of dispatching one message, `ReadEofClosing` and `ReadEofLost` of
  an end of stream. `errback` visits one table entry per step (`ErrbackDeliver`),
  because registrations may interleave; `ErrbackEnds` ends it, by exhaustion or by
  the exception that a dict which changed its size raises; `ErrbackClear` is its
  `finally`.
- **An issuing thread** is `pc`: `idle`, `inc` and `str` (the two halves of
  `msg_id`), `register`, `init` (the fields), `send`, `put`, and for close-session
  `close` and `join`. The region under `RPCReplyListener._lock` is one step.
- **The connecting thread** is `conn`. It waits for the hello, gives up, or sees the
  error; on failure `connect_ssh` closes the session and joins its thread.
- **Waits** are `waiter`. A wait that gives up, by timeout or abort, leaves the RPC
  registered, as the code does.
- **The server** greets well or badly, answers requests in any order, repeats
  answers and sends `MaxRogue` messages that answer nothing, and may vanish at any
  time. `net` is what it sent and the client has not read.

Message ids are not bounded: `Rpcs` bounds how many are used.

### Framing

A byte is a symbol and a character one or two bytes. A text is written as the bytes it
encodes to, so that encoding it changes nothing, and decoding changes only what is half of
a character. `at` is where the session thread
is inside `parse`: each turn of the loop of `_parse11`, and each half of a round of
`_parse10`, before and after the dispatch, is a step, because the dispatched hello
wakes the connecting thread, which then changes `_base` and replaces the parser while
the parse goes on. `Read` takes *any* non-empty part of what is in flight. What
`_parse11` keeps in `start` and `data` until the loop ends is dropped from `buffer`
at once; nobody else looks at the buffer meanwhile. `damaged` records which messages
had a character decoded in halves: by the server's chunking, or by `_parse10`, which
decodes and encodes what followed a delimiter. `MessagesIntact` excuses the
characters of those messages and nothing else.

The server is what RFC 6242 says. In 1.1 it puts a reply on the wire chunk by chunk,
each cut anywhere (`unsent` is what is left of it), so that the parser may look at the
wire between any two. In 1.0 it sends only messages that the delimiter delimits
(`IsDelimited`): a message that holds `]]>]]>`, or ends in a part of it that the next
delimiter completes, cannot be told from two by any parser. XML rules such texts out, but
for comments and attribute values, and the RFC rules out those.

### NccProxy and NetconfTab

`thread` is where the proxy is in `run`; the statements of the loss handling are one
step each. The session behind the proxy is `up`, `down` or absent: that it goes down
for good and that its RPCs are then completed or forgotten is what `NcSession`
establishes, and `RequestsFollowSession` takes over from it, *including* the RPCs
that the error misses.

The GUI thread handles one event at a time. `stack` holds the requests in progress;
the innermost alone can return. Each slot, click or timer is one action that may
occur at any time, also with requests in progress. That is what the nested event loop
allows, since a modal dialog opened inside a wait keeps that wait from looking at its
reply for as long as the user likes. `app = "exited"` is the end of the application
by `handle_exception`, the hook for uncaught exceptions.

### CallHome

`worker` is where the thread is in `doCallhome`: `new`, `listening` (before `run =
True`), `loop` (at `while self.run`), `scan` (at the check in front of a socket),
`accept`, `connecting`, `connected`, `stop`, `report`, then the event loop (`idle`) or
the end. `Cancel` is `closeEvent` up to `thrd.wait()`; the GUI thread handles nothing
until `CancelReturns`. `Escape` is Qt's `reject()`: the dialog is hidden, `exec`
returns, and the worker goes on, because the dialog's parent keeps it alive and its
`__del__` does not run. `CallDone` accepts any dialog whose `exec` has not returned,
a cancelled one as well; whether `exec` then returns *accepted* depends on whether the
`deleteLater` of `closeEvent` comes first, so `ExecReturns` allows both. `PeerGone` is
the exception of `getpeername`, which nobody catches. `cancelledAt` remembers where the
worker was when `Cancel` reset the flag; the properties need it, the code does not.

### SshConnect

`pc` is where `connect_ssh` is; `Raise` is any exception on its way to the `except`
clause (`CloseFailed`). The name resolution, each address, the transport, the
negotiation, the host key, the four parts of `_auth`, the subsystem names and the
hello are steps of their own; `Drop` is the connection going away between any two. A
paramiko transport that was started closes its socket when it ends. One that was made
and never started (a `hostkey_b64` of an unknown class raises behind
`paramiko.Transport(sock)`) does not, and `close()` does nothing for it: the socket
stays until the garbage collector finds it. `NothingLeftOpen` excepts that case. A key file is tried
as each of the four key classes; the agent answers with any keys in any order.

### Operations

`NetconfTab` has the connection in detail; here it comes, is lost, is noticed and is
dropped, and comes back with other capabilities. `stack` holds the dialogs and the
waits in progress, as frames: a wait can return only on top, a dialog that is closed
is gone when nothing above it runs any more (`Unwound`). A request is an operation
with the parameters that need a capability; a dialog is what its getters return. The
locks a server has granted are `held`; `lock` is what the tab remembers. `doubt` is
history, for `LocksRemembered`: the datastores of which the tab cannot know, because a
request was given up, its answer came after its session was lost, or an older one for
the same datastore still waits below.

### LogTable and SessionLists

`LogTable` is what the two widgets have in common, as operators from table to table,
with what Qt's filter and selection models do for them; `SessionLists` says when they
are applied. Rows are numbers in the order of their arrival, so the log, what passes the
filter and what is selected are sets of numbers, and the order of the display is that of
the numbers. The actions of a context menu are decided when it opens, and rows go on
arriving while it is open.

### AnyTree and Favorites

A `QModelIndex` kept by the code is a row and an item; Qt keeps up to date only the
current index of a view. A handler that loops over rows is a list `todo` of edits, one
action each, and nothing else runs meanwhile. `Levels`, `Loaded` and `Only` say what is
built from a saved tree, a file or a pasted text: the items of it, by the level they are
on, and their children, in the order in which the code makes them. `RemoveDangling` is a removal by an index
whose item is in no tree any more: Qt kept only its address, so it may find nothing,
another item, or freed memory. `EditorTo` is the write-back of the editor, a part of
every action that moves its current item.

### DeviceList and MainWindow

`opt` is the heap of option dicts; the list, the form and the tabs hold references
into it, because the code does. `MainWindow` adds the tabs. Their connections change
between any two steps (`ConnectionStep`). A menu is the set of actions that were
enabled when it opened. A handler that closes several tabs draws up `todo` and closes
the first of them per step; a question is a state (`asking`) in which the connections
go on.

### AppStore

A save is two steps, `BeginSave` (open for writing truncates) and `EndSave`; `Kill`
may come at any point. `Fail` is `handle_exception`, which saves without handing the
favourites over. `expected` is history, for `StartRestores`: what the window displayed
when the last save was complete, or the defaults while the file is torn.

## The runs

| run | result | instance | distinct states |
|---|---|---|---|
| `NcSession` | holds | 1 issuing thread, 2 RPCs, 2 messages in flight, 1 rogue message; with fairness | 193,357 |
| `SshConnect` | holds | 11 kinds of call, 2 addresses, 2 key files, 2 agent keys, 4 host keys, 2 subsystem names | 985,604 |
| `NetconfTab` | holds | 2 connections, 2 requests, automatic reconnection; with fairness | 132,281 |
| `Operations` | holds | 2 connections, 3 requests, 3 nested dialogs or waits, 1 schema, 1 datastore | 3,048,193 |
| `OperationsCopy` | violation | 1 connection, 1 request | |
| `SessionLists` | holds | 3 rows, a history of 2 | 1,528,993 |
| `Framing` | holds | hello and 2 replies of 3 kinds, any chunks, 1 stray byte, both framings; with fairness | 729,441 |
| `FramingError` | violation | the same | |
| `CallHome` | holds | 2 address families, 2 devices that call; with fairness | 1,492 |
| `Favorites` | holds | a tree of 3, up to 5 items, 2 edits | 64,577 |
| `AppStore` | holds | 2 lives, 3 changes each, 4 commands, 3 options, history of 2 | 2,353,298 |
| `Desktop` | holds | 3 tabs, 4 dicts, 4 operations | 798,739 |

### Why the bounds are enough

*NcSession.* Two RPCs are the least in which a reply can reach the wrong one; a third
adds no new relation between two. Two messages in flight allow reordering, and a
reply behind a rogue one. One issuing thread, the GUI thread, is what the properties
that hold need: with two, ids can repeat (see below). The table, the queue and the id
are bounded by the RPCs.

*SshConnect.* Two of everything that is tried in turn is the least for one to fail and
the next to succeed, and for an order to be wrong. The host keys are two types with
two bodies: the same key, another key of the type, another type. The calls are the
application's own, a call-home socket, and the library's other options one at a time.

*NetconfTab.* Two connections allow a loss with a reconnection that overlaps the
handling of the loss, and a call-home session followed by an ordinary one. Two
requests nest. The signal queue is not bounded; it is finite because connections are.

*Operations.* Two connections, one to a server with all and one to a server with no
capabilities, in either order; a dialog, the wait of its request and one more wait
inside that are three frames; the third request is the one that follows a nested pair.
One datastore is the hardest case for locks, because every lock and unlock concerns
the same; a dialog of one request opens only at the bottom of the stack
(`MaxBelow = 0`): above a wait it is nothing but another frame on top. An action of the
menu is picked with at most one thing in progress (`MaxUnder = 1`), so that the third
frame is one that a dialog started, which is where boxes and locks can go wrong.

*SessionLists.* Three rows are the least with one between two others. The history
keeps two, so that a third is not taken.

*Framing.* The delimiter of 1.0 has six bytes and is split in every position. The
messages have a two-byte character that reads and chunks can cut, text that looks
like an end delimiter and must not be taken for one, and half a delimiter of 1.0 at the
end. They are cut into chunks in every way; two replies are the least for a chunk to
end up in the wrong message. Chunk sizes are one digit: the regular expression treats
the digits as a whole. The proofs need none of these bounds but the last.

*CallHome.* Two sockets are the least for a check of the flag between two of them.
Two devices allow one that fails before one that succeeds. The dialog is used once:
each has its own worker.

*Favorites.* A category with a request in it and a request beside it: an item with a
parent, one with a sibling of another kind. Two edits set a trap (cut, then move what
was cut) and a paste, which is not counted, springs it.

*AppStore.* Two lives are a save and the start that finds it. The history of two is
over its limit with the third command, the recent connections with the second. The
commands are symmetric.

*Desktop.* Three tabs have a left, a middle and a right one; names may be numbered 1
and 2, so that a third clash is past the numbers. Four operations: make two tabs, open
a menu's action on one, answer. What connections do is not counted.

### Fairness

*NcSession.* Weak fairness for the session thread, for the connecting thread and for
a thread inside an operation: they are running threads. Strong fairness of
`Transmit`: the channel's window may close and open again, and a server that reads
opens it again and again. Strong fairness of `ServerReply`: a server that received a
request answers it sooner or later; strong, because the model bounds what is in
flight. Nothing makes the user issue or abort anything, the connection break, or the
server send a rogue message. In particular `waiter` need not give up: `RequestSettles`
holds without the timeout.

*NetconfTab.* The proxy thread runs; the GUI thread handles its queued signals; a
wait ends, at the latest by its timeout of 60 seconds or whatever the settings say.
There is no fairness on connecting, clicking or replying.

*Framing.* The session thread does not stop in the middle of a parse. `ParseReturns`
is then a termination property: no input keeps the loop from ending.

*CallHome.* The worker thread runs; the GUI thread handles the done signal and returns
from `closeEvent` and `exec` when it can. No device has to call, no attempt to connect
has to succeed, and the user need not do anything.

The other modules state safety only: what happens next in them is up to the user, the
server or the operating system.

`CHECK_DEADLOCK FALSE`: sessions end, the application exits, `connect` returns or
raises, and all the bounded inputs may be used up.

### What the properties say

`NcSession`
- `ReplyToItsRequest`: an RPC's reply answers its own request, although it is found by
  id alone, after any timeouts and in any order of replies.
- `AnswerFindsItsRpc`: with an honest server no reply, however late, hits an unknown
  id (which would end the session) or a half-built RPC.
- `UndisturbedErrorReachesAll`: the error of a lost session completes every RPC,
  unless one was being built at that moment.
- `RequestsUseNegotiatedBase`: no request overtakes the choice of framing.
- `NothingAfterDisconnect`: nothing is delivered once the session says it is not
  connected.
- `ConnectReturns`, `CloseReturns`: the joins and waits end, in all their races.
- `LossIsNoticed`, `RequestSettles`: a loss is noticed by an idle session; a queued
  request is completed or its session ends.
- `RefinesService`: all of this implements `RpcService`.

`SshConnect`
- `NothingLeftOpen`: a `connect` that raised leaves no socket open, wherever it failed.
- `EveryMethodTried`: a failed login has tried all that was permitted and nothing else,
  once each (but for a file that was named twice), in the documented order.
- `KnownHostAccepted`: an unknown-host error means that the server has none of the keys
  on file, or shows another key of a type on file.

`NetconfTab`
- `IdleTabOperable`: whatever ran inside the waits, a connected tab with no request in
  progress can send and has nothing to abort.
- `NoSessionUnattended`: no session is up behind a thread that has ended, died by an
  exception, or sleeps.
- `LossIsShown`, `ClosedTabReleasesSession`, `RequestsEnd`.

`Operations`
- `RequestsSupported`: a request that needs a capability goes only to a server that
  announced it. (Cancelling a commit looks before its dialog and is excepted.)
- `LocksRemembered`: a remembered lock is held by the server, unless a request for it
  is in progress or in doubt.
- `BoxesTellLocks`: a checked box of the lock dialog is a remembered lock, or one in
  doubt, or a click on it is being answered.
- `CapabilitiesCurrent`: the capability window is that of the connected server.
- `IdleOperable`: the controls come back, however operations, downloads and dialogs end.

`SessionLists`
- `PreviewShowsCurrent`: a visible preview shows the current row.
- `RemovesNeighbours`: Remove takes the selected rows if they are adjacent on display.

`Framing`
- `MessagesIntact`: dispatched are the messages sent, in order, each once.
- `NothingHeldBack`: when all is read, all is dispatched.
- `ParseReturns`.

`CallHome`
- `NoSessionAfterCancel`: if the worker had a look at the flag ahead of it when Cancel
  reset it, and not its own assignment, no session comes into being.
- `PortsReleased`: after a cancel, and when a session is accepted, nothing listens.
- `SessionReachesTab`: a session that came about is given to a tab unless the user left
  the dialog (a cancel while it connects does lose it, see below).
- `CancelEnds`: Cancel does not hang, unless it came before the worker set the flag.

`Favorites`
- `TreeSound`: whatever stale rows are used, the items stay a tree, nothing hangs below
  a request, and the current items are in the tree.
- `SelectionHandled`: a handler removes what was selected and nothing else, if it was
  selected from the top down and no cut row has moved.
- `TextOfOthersKept`: an edit, or the write-back of the editor, reaches its own item.

`AppStore`
- `StartRestores`: a start displays what the last complete save displayed.
- `ListsBounded`: the lists keep their limits and hold nothing twice.

`Desktop`
- `EditsReachSelected`: each saved session is a dict of its own and the form writes to
  the selected one.
- `TabNamesDistinct`: labels repeat only if the user says so or the numbers run out.
- `ClosedWithConsent`: a connected tab is closed only if the user agreed, or if a
  handler that need not ask had found it disconnected.

## The proofs

`tlapm` checks about 21,000 obligations in eight modules. The proofs hold for any sets
of threads, RPCs, messages, address families, datastores, host keys, rows, favourites,
tabs and data and any bounds, under the named assumptions of the modules only
(`SessionAssumption`, `TabAssumption`, `ListsAssumption`, `CallHomeAssumption`,
`FramingAssumption`, `OperationsAssumption`, `SshAssumption`, `FavoritesAssumption`,
`MainWindowAssumption` with `DeviceListAssumption`, `AppStoreAssumption`: markers differ
from values, bounds are naturals, inputs are of their type, messages are not empty and
hold whole characters, the hello can be delimited), and `SingleIssuer` where said.

**Engine, types** (`NcSessionProofs`, `TypeCorrect`). Needs that a thread inside an
operation holds an RPC object and that `left` is a part of `snap`; both are in
`TypeOK`.

**Engine, safety** (`NcSessionProofs`). None of the properties is inductive.
`EngineInvariant` is, and holds for any number of issuing threads: each thread's RPC
is its own and is built as far as the thread has come (`IssuersConsistent`); an RPC
whose event is not set holds no result (`RpcsConsistent`); the table holds RPCs under
their own ids, and completed ones only while the error is being dispatched
(`TableConsistent`); only complete RPCs are in the traffic and answers bear their
ids (`TrafficConsistent`); nothing is issued before `connect` returned and
`_connected` is reset last (`PhasesConsistent`). From it:

- `CompletionIsFinal`: a result can only change through a table entry, and those not
  yet visited are not completed.
- `DisconnectIsFinal`: only a running session thread delivers, and `_connected` is
  `False` only after it ended.
- `FramingIsSettled`: nothing is issued, so nothing is sent, before the base is set.

With one issuing thread (`SingleIssuer`) ids are unique: `IdsUnique` relates the
counter to every id given out and to both halves of the increment. Then:

- `RepliesAreTheirOwn`: an answer bears the id of its request, the table holds each
  RPC under its id, ids are unique.
- `EngineImplementsService`: every step of the engine is a step of `RpcService` or a
  stutter, under the mapping `RpcState`, `answered`, `Broken`.

- `AnswersFindTheirRpcs`: by `RegisteredUntilAnswered`, an RPC leaves the table only
  when it is answered, so that one that gave up waiting is still found; by
  `AnswersPending`, the answers of an honest server in the network are for distinct RPCs
  that are not completed.
- `ErrorReachesTheBuilt`: by `ErrorOnItsWay`, while the error is dispatched every RPC
  that is not completed is among the entries still to visit, unless one was being built
  when the error came (`disturbed`).

The assumption is necessary: with two threads TLC refutes `ReplyToItsRequest`.

**Opening the connection** (`ConnectProofs`). `FailedConnectCloses`: by
`SocketsOwned`, a socket is open only at a place from which the `except` clause or the
end of the transport still closes it; `NothingLeftOpen` says nothing of the places
before the last and is not inductive. `KnownHostsAreAccepted`: by `KeysNegotiated`, the
types negotiated are those on file, so that the presented key is of a type on file,
and a host with one of its keys on file, and no other key of such a type, is verified.
`FailedLoginsTriedAll`, by `AttemptsInOrder`: the attempts made, followed by those this
part of `_auth` has left, are at any time just what the parts reached so far have to try.
Refusing an attempt moves it from one list to the other and changes nothing of this; so
what remains is that each part lists the right attempts. `AgentOrderIs` says it of the
agent's keys, which the code moves from one list to another while it goes through the
key files: none is lost, none is doubled, and no named key stays in the second list.
The recursive functions behind it, `Without` and `Resequenced`, are reasoned about by
`RunsIs` (a function with these equations exists) and `AllAlong` (induction over the set
of the numbers for which a fact holds), which need no theorem with an operator for a
parameter.

**Framing** (`FramingProofs`). `StreamTypeCorrect`, `MessagesComeOutIntact` and
`NothingIsHeldBack`, for messages of any length and number, any chunks and any reads.
What the parser will make of the rest of a stream is a recursion over that stream; the
invariant `StreamInv` does without it by saying where the messages *lie* in `Rest`, what
was sent and is neither dispatched nor in the list of chunks. It has two forms, because
the hello comes in 1.0 and what follows may come in 1.1 (`Chunked`).

- In 1.0 there are places `p`, one per message that is not dispatched, at which it ends
  (`Delimited`). The delimiters in `Rest` are exactly those in front of these places
  (`Cut`), so that the first one the parser finds is the end of the first message, and
  between two places lies the message, perhaps without newlines at its beginning, which
  are lost when `_parse10` throws a blank rest away (`Holds`). `Searching` says that the
  search misses no delimiter: none begins before `_parsing_pos10`, and the thread waits
  only if the buffer has none. `CutMore` (a message is sent) and `CutDrop` (one is
  dispatched) carry the places on; `HalfInMessage` shows that decoding the rest spoils a
  character only where the read had cut it, and so no delimiter and no other message.
- In 1.1 there are marks `ks` in `Rest`, between each two of which there is one chunk, or
  the end of one message (`Marked`, `IsPiece`). The first mark is as far as the parser
  has come, and tells what is in the list of chunks (`Taken`); the last is as far as the
  server has come, and tells what is `unsent` (`Written`). The parser waits only if the
  buffer does not reach the second mark. `PieceConsumed` and `MarkAppended` carry the
  marks on.

The numbers of the messages are absolute, so that "in order, each once" is part of it.
Between the two, `ChunksBegin`: the hello is dispatched with nothing behind it, because
the server sends no reply before `connect()` has returned (`Agreed`, `Listening`), which
is also why a parser that is replaced, or a base selected in the middle of a parse, does
no harm. TLC checked the invariant, with the places and marks it speaks of computed,
before it was proved.

**Tab and proxy** (`NetconfTabProofs`). `TabTypeCorrect`; `SessionsStayAttended` by
the inductive invariant `SessionsAttended`, which adds to the property where the
thread can be when a session is up and that the connect flag is then set, and that
before the first `connect()` the thread is still in front of its first wait (else a
call-home session could arrive behind its back); `NoSessionLeft` follows;
`ControlsGivenBack`: `IdleTabOperable` is inductive given the types.

**Lists of a tab** (`NetconfTabProofs`). `PreviewsFollowTheCurrent`: each operation of
`LogTable` keeps `Sound` (what is current or selected is displayed) and makes a visible
preview show the current row (`Showing`); the page decides what is visible and turning
to a page fills its preview. `NeighboursAreRemoved`: `DeleteItem` removes as many lines
as are selected from the first one on. By `RunOfRows` this is the selection if no line
of the view is between two selected ones: counted from the first, the k-th line is the
k-th selected, which is a statement about cardinalities of the lines below a number.

**Operations** (`OperationsProofs`). The stack is what makes it hard: frames refer to
dialogs below them, and a return cuts the stack. `StackOK`, a part of `TypeOK`, says
that a wait started by a dialog finds that dialog below it, and the lemmas on
`Unwound` show that every way to cut the stack keeps it so. `ConnectionKnown` is the
rest of the invariant: the last status signal tells whether there is a connection, the
capability window is that of the manager or a loss is in the queue, and the controls
are off only while something runs, a signal is in the queue, or there is no
connection. `StateKnown` proves both; `CapabilitiesShownAreCurrent`, `IdleTabOperable`
and, with a lemma per action that sends, `OnlySupportedRequests` follow.

**Locks** (`OperationsProofs`). `LocksRemembered` follows a lock over five places: the
click, the wire, the server, the reply that a wait holds and has not returned, and
`lock`. `LocksKnown` says for each what it implies for the next: requests are numbered in
the order of the stack and of the wire (`Ordered`); a wait without a reply and a request
on the wire belong together (`Matched`); a granted lock whose wait has not returned is held
or in doubt (`Granted`); a remembered lock is held, in doubt, or given up by an unlock
that is still below (`Remembered`). `Boxed` is the same for the boxes: a checked box is a
lock that is being asked for by it, or one that is remembered and that nothing above it
gives up. A reply that is handled pops a frame, sets the boxes of the dialog below it and
perhaps sends the next request, and the proof goes through these stages one by one
(`Sent` has the state they change as parameters). `RememberedLocksHeld` and
`CheckedBoxesTellLocks` follow. TLC checked `LocksKnown` with three requests and with
four; with four it refutes `BoxesTellLocks` without its `doubt`.

**Call home** (`ConnectProofs`). `CallHomeTypeCorrect`; `CallHomeCorrect`: the inductive
`CallHomeInvariant`, of three parts. `StopIsFinal`: a flag reset while the worker was in
its loops is never set again, and the worker can then only go round to the check and
out; `CancelIsEffective` follows. `EndsInOrder`: nothing is reported before the ports
are closed, and a cancelled dialog is left only behind the end of the thread;
`PortsAreReleased` follows. `SessionsAreFound`: what is reported, accepted or given to a
tab is a session that exists (`CallHomeCorrect` proves it; no run checks it by itself).

**Main window** (`MainWindowProofs`). `TabsCloseWithConsent`, by `UnaskedKnown`: what is
on the list of a handler that does not ask was agreed to or was found disconnected, and
nothing is being closed while a menu is open. The connections may change at every step,
so the property cannot be read off the guard of the closing action.
`EditsReachTheSelected`, by `ListInv`: the saved sessions are dicts of their own, and a
dict that is about to be made is in no list yet (`DictsMade`). `TabNamesStayDistinct`: a
name that is made is the first number not in use; there is one, as long as there are
fewer tabs than numbers, by the pigeonhole principle, for which the tabs must be what was
made so far and have options (`TabsBacked`).

**Favourites** (`FavoritesProofs`). `FavoritesStayATree`. A tree is two facts: an item
is listed by one node at most (`Alone`), and every set of items has one with no child
in the set (`Acyclic`, which is `NoLoop` in a form that a step can be shown to keep: it
says nothing of paths). Each way to change the tree is a lemma about both: a row less, a
new leaf more, a row moved to a place that is not below it. What is below an item is
found level by level; `BelowIs` shows it to be the least set that holds the children of
the item and of its members (`Covers`), by the least level for which it would fail, and
all later lemmas use the least set only. The indexes may be stale, so nothing is known of
a handler's edits but what `TodoOK` says: a paste removes and adds leaves for which there
is room; an import adds below a node of the tree; a drag moves items of the tree to a
category that is not below them, and moving one keeps this true of the others.
`EditsTouchOneItem` needs of each step only whose text it writes.
`SelectionsAreHandled`, by `HandlerInv`. `Onward` says that the edits still to do are
what is missing: an item of the tree is to go exactly if one of the edits is about it or
about what it is below (`Awaited`), the rows are right (`Accurately`), and no edit moves
or takes away the row of a later one, because they go from the bottom up (`BottomUp`).
That the cut items are requests (`CutsAreXml`) is why a paste removes no category. TLC
checked `HandlerInv` on the 64,577 states of the run.

**Persistent data** (`AppStoreProofs`). `StartShowsLastSave`, by `FileTellsExpected`:
what may be expected is what a start reads from the file as it is, which relates the
file, the tool bar to its switch, and the favourites handed over to those at the last
start, save, import or close.

`ListsKeepTheirLimits`, by `ListsInv`: the lists in memory keep their limits only if what
is in `setting.json` does, because a start takes it as it is; the lists of an exported
file need not, because an import takes them one by one. `WithoutIs`, `AddedIs` and
`UpdatedIs` say what the lists are after an operation; the recursive functions are
reasoned about as in `ConnectProofs`.

**Only model-checked.** The liveness properties, because they depend on fairness and
ENABLED, which are out of the prover's reach. All invariants and all action properties
of the runs that hold are proved, and so is the refinement of `RpcService`.

## What the models showed

Two claims of the sources are refuted by a run:

1. **A copy in the wrong direction** (`OperationsCopy`, `CopiesAsChosen`). The copy
   dialog's source and target are handed to `_buildCopyXML` in the wrong order
   (`src/session.py:885`): the configuration chosen as the target overwrites the one
   chosen as the source.
2. **A framing error that is never raised** (`FramingError`, `WrongDelimiterRaises`).
   The regular expression is matched at the start of the buffer, so the check for a
   delimiter elsewhere (`src/ncclient/transport/parser.py:194`) never fires and the
   parser waits for ever.

These formulas say more than the code does. The modules keep them, and TLC refutes each
when it is put in the place of the properties of the run named:

| formula | run | what happens |
|---|---|---|
| `ReplyToItsRequest`, with two issuing `Threads` | `NcSession` | `Session.msg_id` increments and reads `_msg_id` in two steps without a lock: the GUI thread and a proxy thread that closes its session can get the same id, and one RPC gets the reply to the other |
| `ErrorReachesEveryRpc` | `NcSession` | an RPC registered while the error of the session is being dispatched, or just after, is dropped from the table; its event, documented to be set "when the reply has been received or an error occured" (`rpc.py:366`), is never set |
| `HelloFramedAs10` | `NcSession` | if the server's hello is handled before the client's was taken from the queue, the client's hello goes out in 1.1 framing |
| `NoLockWhenDisconnected` | `NetconfTab` | a lock granted before, and noted after, the loss was handled inside the wait (`LocksRemembered` says how far a remembered lock can be trusted) |
| `BoxesTellLocks`, without `doubt` and with four requests | `Operations` | the late signal of a reconnection makes the tab operable inside the wait of an unlock, a second click on the box locks again, and the waits end newest first: the lock is noted, then the older unlock, and the box stays checked over a lock that is held and no longer remembered |
| `OneRequestAtATime` | `NetconfTab` | a reconnection inside a wait makes the tab operable although a request is in progress |
| `DeletesSelected` | `Favorites` | rows that were selected from the bottom up are removed by stale numbers, and others go instead |
| `RemovesSelected` | `SessionLists` | Remove takes as many rows as are selected from the first on, so a row between two selected ones goes and the last stays |

Seen while modelling, in the models, and with no document to hold against it:

- `SendRaises`, `DisconnectRaises`: between the loss of a session and the proxy's next
  poll, sending or disconnecting raises in a slot, and the application exits.
- A `connect()` between `_setConnectState(False)` and `__connect.clear()` is lost; one
  between `clear()` and `_manager = None` makes the thread ask `None` for its
  connection and die (`Dies`). The tab can then not be connected again, but no session
  is left behind (`NoSessionUnattended`).
- A call-home Cancel before the worker set its flag is lost: the GUI thread waits in
  `closeEvent` until some device connects (`SetRun` after `Cancel`). A cancel while a
  device connects drops the session without closing it; if `done(True)` was in the
  queue, the cancelled dialog may be accepted and open a tab. After Escape the worker
  goes on listening, with no dialog that could stop it; ports stay bound (`Escape`).
- Characters cut in halves by a read (1.0) or by the server's chunking (1.1) become
  U+FFFD (`damaged`).
- With half a character where a chunk header should be, a log statement raises and ends
  the session (`NoDelimiter`, `at = "failed"`).
- `KillSession`, `Fails`: a kill-session that gets no reply, because it was refused,
  aborted or timed out, raises in its slot, and the application exits.
- A box of the lock dialog that was unchecked and refused by the server stays
  unchecked, while the lock is still held and remembered (`AfterBox`).
- The options of a session are those of a form that was refused: reading a form writes
  them (`ModifyOptions`, `SaveForm`).
- A session that was called home is refused a reconnection by its own menu entry and
  not by "reconnect all" (`Reconnect`, `ReconnectAll`).
- An import of favourites puts a category behind the item inserted last, not where the
  file has it (`ImportNext`).
- The visibility of the status bar is written under another key than it is read from
  (`ShowStatusBar`), so it never survives a restart; `StartRestores` leaves it out.
- An unusable host key leaves a socket to the garbage collector: see *SshConnect* above.

## What is not modelled

- **Synchronous mode** of `RPC._request`: the application sets `async_mode`.
- **Timestamps** of sent and received messages: they are displayed and nothing depends
  on them. The notification queue: the application takes each notification at once.
- **`ssh_config`, proxy commands, socket buffers, keepalive, environment variables** of
  `SSHSession.connect`: the application passes none of them, and they choose values,
  not steps.
- **Replies, capabilities, XML helpers**: they carry no state from call to call.
- **Device handlers, TLS, Unix sockets, SAX parser**: never used by the application.
- **Update check and package download**: the slot is connected before the worker is
  moved to its thread, so PyQt decides in which thread the download runs. If it runs in
  the GUI thread, Cancel cannot be clicked while it does; if not, the flag works. Every
  property of the window hangs on that choice, and the source does not make it. Seen by
  reading: versions are compared number by number without stopping at the first that
  differs (`updatecheck.py:104-106`), and an HTTP error returns two values where
  three are unpacked (lines 101-102 and 84).
- **Deletion of a closed tab by Qt**: a closed tab of the model still handles the
  signals that were queued; the real one is deleted and drops them.
- **Names, icons, docks, translations, the clipboard, the XML editor, the log view, the
  about box**: presentation.
- **Tab order**: tabs are named by the order of their creation, and moving them is left
  out; "to the right" is "later".
