----------------------------- MODULE NcSession ------------------------------
(***************************************************************************)
(* The session engine of the ncclient fork: the session thread             *)
(* (Session.run), the thread that connects (_post_connect, connect_ssh)    *)
(* and the threads that issue RPCs (RPC.__init__, RPC._request,            *)
(* CloseSession.request), over one SSH transport.                          *)
(*                                                                         *)
(* A thread step is what runs between two points where another thread can  *)
(* observe or change shared state: every read-modify-write of _msg_id is   *)
(* split, the region under RPCReplyListener._lock is one step, and         *)
(* errback, which takes no lock, is one step per table entry.              *)
(*                                                                         *)
(* Abstracted: message bodies (a request is the RPC object it belongs to,  *)
(* a reply is its message-id and the request it answers), the notification *)
(* queue and the timestamps.  One read of the transport yields one         *)
(* message.  Manager.async_mode is TRUE, as the application sets it.       *)
(***************************************************************************)
EXTENDS Integers, Sequences, FiniteSets

CONSTANTS
  Threads,   \* threads that issue RPCs on the session
  Rpcs,      \* the RPC objects that can be created (bounds the run)
  NoRpc,     \* no RPC object
  Hello,     \* the client's <hello>, as an element of the send queue
  MaxNet,    \* bound: messages in flight from the server
  MaxRogue   \* bound: messages the server sends that answer no request

ASSUME SessionAssumption ==
  /\ NoRpc \notin Rpcs
  /\ Hello \notin Rpcs
  /\ Hello # NoRpc
  /\ MaxNet \in Nat
  /\ MaxRogue \in Nat

VARIABLES
  \* Session attributes
  msg_id,     \* _msg_id
  q,          \* _q, the send queue
  base,       \* _base
  connected,  \* _connected
  closing,    \* _closing
  transport,  \* what the transport is: up, closed by us, lost
  run,        \* where the session thread is in run()
  \* RPCReplyListener
  id2rpc,     \* _id2rpc
  snap, left, \* errback's iteration: keys when it began, keys to visit
  \* the connecting thread
  conn,       \* where it is in connect_ssh / _post_connect
  init_event, \* init_event and error[0]
  \* the issuing threads
  pc, tmp, cur, op,
  \* RPC objects
  rid,        \* _id
  event,      \* _event
  reply,      \* _reply: the request the delivered reply answers
  error,      \* _error is set
  waiter,     \* whoever waits for the RPC in _waitAsyncRPCReply
  \* the server and the network
  sent,       \* what was written to the transport, with its framing
  net,        \* messages in flight to the client
  greeted,    \* the server has sent its <hello>
  answered,   \* requests the server has answered
  rogue,      \* number of rogue messages sent
  \* history
  disturbed   \* an RPC was being built while the error was dispatched

session  == <<msg_id, q, base, connected, closing, transport, run>>
listener == <<id2rpc, snap, left>>
connect  == <<conn, init_event>>
threads  == <<pc, tmp, cur, op>>
rpcs     == <<rid, event, reply, error, waiter>>
server   == <<sent, net, greeted, answered, rogue>>
vars == <<session, listener, connect, threads, rpcs, server, disturbed>>

-----------------------------------------------------------------------------
NoId  == -1                       \* Session._msg_id starts at -1
NoDict == [i \in {} |-> NoRpc]    \* the empty dict

Dead    == run \in {"done", "failed"}
Failing == run \in {"errback", "clear", "close"}

\* The RPCReplyListener is created, and added to the session's listeners, by
\* the first RPC.
Listening == \E o \in Rpcs : event[o] # "none"

Insert(d, k, v) == [i \in DOMAIN d \cup {k} |-> IF i = k THEN v ELSE d[i]]
Delete(d, k)    == [i \in DOMAIN d \ {k} |-> d[i]]

Messages ==
  [kind : {"hello", "badhello", "noid", "unknown", "other"}] \cup
  [kind : {"reply"}, id : Int, rpc : Rpcs]

Sent == {sent[i].msg : i \in 1..Len(sent)}

Init ==
  /\ msg_id = NoId
  /\ q = <<Hello>>
  /\ base = 10
  /\ connected = TRUE
  /\ closing = FALSE
  /\ transport = "up"
  /\ run = "select"
  /\ id2rpc = NoDict
  /\ snap = {} /\ left = {}
  /\ conn = "wait"
  /\ init_event = "unset"
  /\ pc = [t \in Threads |-> "idle"]
  /\ tmp = [t \in Threads |-> NoId]
  /\ cur = [t \in Threads |-> NoRpc]
  /\ op = [t \in Threads |-> "rpc"]
  /\ rid = [o \in Rpcs |-> NoId]
  /\ event = [o \in Rpcs |-> "none"]
  /\ reply = [o \in Rpcs |-> NoRpc]
  /\ error = [o \in Rpcs |-> FALSE]
  /\ waiter = [o \in Rpcs |-> "none"]
  /\ sent = <<>> /\ net = <<>>
  /\ greeted = FALSE
  /\ answered = {}
  /\ rogue = 0
  /\ disturbed = FALSE

-----------------------------------------------------------------------------
(* Faulty variants of definitions below, one plausible bug each.  Each is   *)
(* used by a mutant of PROJECT.json to show that a property can fail.       *)

Goto(t, here, there) ==
  /\ pc[t] = here
  /\ pc' = [pc EXCEPT ![t] = there]

\* The table is cleared and nobody is told.
DispatchErrorToNobody ==
  /\ run' = "errback"
  /\ snap' = DOMAIN id2rpc
  /\ left' = {}
  /\ init_event' = IF conn = "wait" THEN "err" ELSE init_event

\* deliver_reply does not set the event.
ReadReplyNoEvent ==
  /\ run = "select"
  /\ net # <<>>
  /\ Head(net).kind = "reply"
  /\ Head(net).id \in DOMAIN id2rpc
  /\ reply' = [reply EXCEPT ![id2rpc[Head(net).id]] = Head(net).rpc]
  /\ id2rpc' = [i \in DOMAIN id2rpc \ {Head(net).id} |-> id2rpc[i]]
  /\ run' = "send"
  /\ net' = Tail(net)
  /\ UNCHANGED <<msg_id, q, base, connected, closing, transport, snap, left,
                 connect, threads, rid, event, error, waiter, sent, greeted,
                 answered, rogue, disturbed>>

\* An unexpected end of stream is taken for an empty read.
ReadEofIgnored ==
  /\ run = "select"
  /\ net = <<>>
  /\ transport # "up"
  /\ ~closing
  /\ run' = "send"
  /\ UNCHANGED <<msg_id, q, base, connected, closing, transport, listener,
                 connect, threads, rpcs, server, disturbed>>

\* The client waits for the server's <hello> without a timeout.
ConnectFailsOnErrorOnly ==
  /\ conn = "wait"
  /\ init_event = "err"
  /\ conn' = "join"
  /\ closing' = TRUE
  /\ transport' = IF transport = "up" THEN "closed" ELSE transport
  /\ UNCHANGED <<msg_id, q, base, connected, run, listener, init_event, threads,
                 rpcs, server, disturbed>>

\* Operations are accepted before connect() returned.
BeginEarly(t) ==
  /\ Goto(t, "idle", "inc")
  /\ tmp' = [tmp EXCEPT ![t] = msg_id]
  /\ \E o \in Rpcs :
       /\ rid[o] = NoId
       /\ \A s \in Threads : cur[s] # o
       /\ cur' = [cur EXCEPT ![t] = o]
  /\ op' = [op EXCEPT ![t] = "rpc"]
  /\ UNCHANGED <<session, listener, connect, rpcs, server, disturbed>>

\* The message-id is not incremented.
IncMsgIdLost(t) ==
  /\ Goto(t, "inc", "str")
  /\ msg_id' = IF tmp[t] = NoId THEN 0 ELSE tmp[t]
  /\ UNCHANGED <<q, base, connected, closing, transport, run, listener, connect,
                 tmp, cur, op, rpcs, server, disturbed>>

\* close() clears _connected before it joins the session thread.
CloseTransportDisconnectsFirst(t) ==
  /\ Goto(t, "close", "join")
  /\ closing' = TRUE
  /\ transport' = IF transport = "up" THEN "closed" ELSE transport
  /\ connected' = FALSE
  /\ UNCHANGED <<msg_id, q, base, run, listener, connect, tmp, cur, op, rpcs,
                 server, disturbed>>

\* close() joins the session thread without closing the transport.
CloseTransportNot(t) ==
  /\ Goto(t, "close", "join")
  /\ closing' = TRUE
  /\ UNCHANGED <<msg_id, q, base, connected, transport, run, listener, connect,
                 tmp, cur, op, rpcs, server, disturbed>>

\* A waiter that gives up takes its RPC out of the table.
WaitGivesUpDeregisters(o) ==
  /\ waiter[o] = "waiting"
  /\ waiter' = [waiter EXCEPT ![o] = "gaveup"]
  /\ id2rpc' = [i \in DOMAIN id2rpc \ {rid[o]} |-> id2rpc[i]]
  /\ UNCHANGED <<session, snap, left, connect, threads, rid, event, reply, error,
                 server, disturbed>>

\* The error is delivered to an RPC that is thought to have no answer yet.
ErrbackDeliverAsReply ==
  /\ run = "errback"
  /\ DOMAIN id2rpc = snap
  /\ \E i \in left :
       /\ event[id2rpc[i]] # "absent"
       /\ reply' = [reply EXCEPT ![id2rpc[i]] = id2rpc[i]]
       /\ event' = [event EXCEPT ![id2rpc[i]] = "set"]
       /\ left' = left \ {i}
  /\ UNCHANGED <<session, id2rpc, snap, connect, threads, rid, error, waiter,
                 server, disturbed>>

-----------------------------------------------------------------------------
(* The session thread: Session.run                                          *)

\* _dispatch_error on an exception of the main loop.  The HelloHandler is a
\* listener until the connecting thread removes it; RPCReplyListener.errback
\* begins to iterate over _id2rpc.
DispatchError ==
  /\ run' = "errback"
  /\ snap' = DOMAIN id2rpc
  /\ left' = DOMAIN id2rpc
  /\ init_event' = IF conn = "wait" THEN "err" ELSE init_event

\* select() timed out.
Tick ==
  /\ run = "select"
  /\ net = <<>>
  /\ transport = "up"
  /\ run' = "send"
  /\ UNCHANGED <<msg_id, q, base, connected, closing, transport, listener,
                 connect, threads, rpcs, server, disturbed>>

\* The server's <hello>: HelloHandler.callback, then ok_cb or err_cb.
ReadHello ==
  /\ run = "select"
  /\ net # <<>>
  /\ Head(net).kind \in {"hello", "badhello"}
  /\ run' = "send"
  /\ net' = Tail(net)
  /\ init_event' = IF conn = "wait" /\ init_event # "err"
                   THEN IF Head(net).kind = "hello" THEN "ok" ELSE "err"
                   ELSE init_event
  /\ UNCHANGED <<msg_id, q, base, connected, closing, transport, listener, conn,
                 threads, rpcs, sent, greeted, answered, rogue, disturbed>>

\* A message every listener ignores: a notification, a document that does not
\* parse, a root element that is no rpc-reply, or any rpc-reply while no
\* RPCReplyListener is installed.
ReadIgnored ==
  /\ run = "select"
  /\ net # <<>>
  /\ \/ Head(net).kind = "other"
     \/ Head(net).kind \in {"noid", "unknown", "reply"} /\ ~Listening
  /\ run' = "send"
  /\ net' = Tail(net)
  /\ UNCHANGED <<msg_id, q, base, connected, closing, transport, listener,
                 connect, threads, rpcs, sent, greeted, answered, rogue,
                 disturbed>>

\* RPCReplyListener.callback with a registered message-id: the reply goes to
\* the RPC and the entry is deleted.
ReadReply ==
  /\ run = "select"
  /\ net # <<>>
  /\ Head(net).kind = "reply"
  /\ Head(net).id \in DOMAIN id2rpc
  /\ LET o == id2rpc[Head(net).id] IN
       /\ event[o] # "absent"
       /\ reply' = [reply EXCEPT ![o] = Head(net).rpc]
       /\ event' = [event EXCEPT ![o] = "set"]
  /\ id2rpc' = Delete(id2rpc, Head(net).id)
  /\ run' = "send"
  /\ net' = Tail(net)
  /\ UNCHANGED <<msg_id, q, base, connected, closing, transport, snap, left,
                 connect, threads, rid, error, waiter, sent, greeted, answered,
                 rogue, disturbed>>

\* RPCReplyListener.callback raises: no message-id, an unknown one, or an RPC
\* whose _event does not exist yet.  The exception leaves run()'s loop.
ReadFails ==
  /\ run = "select"
  /\ net # <<>>
  /\ Listening
  /\ \/ Head(net).kind \in {"noid", "unknown"}
     \/ /\ Head(net).kind = "reply"
        /\ Head(net).id \in DOMAIN id2rpc => event[id2rpc[Head(net).id]] = "absent"
  /\ net' = Tail(net)
  /\ DispatchError
  /\ UNCHANGED <<msg_id, q, base, connected, closing, transport, id2rpc, conn,
                 threads, rpcs, sent, greeted, answered, rogue, disturbed>>

\* End of stream while closing: the loop ends and nobody is told.
ReadEofClosing ==
  /\ run = "select"
  /\ net = <<>>
  /\ transport # "up"
  /\ closing
  /\ run' = "done"
  /\ UNCHANGED <<msg_id, q, base, connected, closing, transport, listener,
                 connect, threads, rpcs, server, disturbed>>

\* End of stream otherwise: SessionCloseError.
ReadEofLost ==
  /\ run = "select"
  /\ net = <<>>
  /\ transport # "up"
  /\ ~closing
  /\ DispatchError
  /\ UNCHANGED <<msg_id, q, base, connected, closing, transport, id2rpc, conn,
                 threads, rpcs, server, disturbed>>

\* Nothing queued, or the channel is not ready to send.
NothingToSend ==
  /\ run = "send"
  /\ run' = "select"
  /\ UNCHANGED <<msg_id, q, base, connected, closing, transport, listener,
                 connect, threads, rpcs, server, disturbed>>

\* One message leaves the queue, framed for the base version of the moment.
Transmit ==
  /\ run = "send"
  /\ q # <<>>
  /\ transport = "up"
  /\ q' = Tail(q)
  /\ sent' = Append(sent, [msg |-> Head(q), framing |-> base])
  /\ run' = "select"
  /\ UNCHANGED <<msg_id, base, connected, closing, transport, listener, connect,
                 threads, rpcs, net, greeted, answered, rogue, disturbed>>

\* The channel went away between send_ready() and the write.
TransmitFails ==
  /\ run = "send"
  /\ q # <<>>
  /\ transport # "up"
  /\ q' = Tail(q)
  /\ DispatchError
  /\ UNCHANGED <<msg_id, base, connected, closing, transport, id2rpc, conn,
                 threads, rpcs, server, disturbed>>

\* RPCReplyListener.errback: deliver_error to the next RPC of the table.
ErrbackDeliver ==
  /\ run = "errback"
  /\ DOMAIN id2rpc = snap
  /\ \E i \in left :
       /\ event[id2rpc[i]] # "absent"
       /\ error' = [error EXCEPT ![id2rpc[i]] = TRUE]
       /\ event' = [event EXCEPT ![id2rpc[i]] = "set"]
       /\ left' = left \ {i}
  /\ UNCHANGED <<session, id2rpc, snap, connect, threads, rid, reply, waiter,
                 server, disturbed>>

\* The iteration ends: no entry is left, the dict changed size
\* (RuntimeError), or the next RPC has no _event yet (AttributeError).  The
\* exceptions are swallowed by _dispatch_error.
ErrbackEnds ==
  /\ run = "errback"
  /\ \/ left = {}
     \/ DOMAIN id2rpc # snap
     \/ \E i \in left : event[id2rpc[i]] = "absent"
  /\ run' = "clear"
  /\ disturbed' = (disturbed \/ left # {})
  /\ UNCHANGED <<msg_id, q, base, connected, closing, transport, listener,
                 connect, threads, rpcs, server>>

\* errback's finally clause.
ErrbackClear ==
  /\ run = "clear"
  /\ id2rpc' = NoDict
  /\ run' = "close"
  /\ UNCHANGED <<msg_id, q, base, connected, closing, transport, snap, left,
                 connect, threads, rpcs, server, disturbed>>

\* run()'s own self.close(): no join, since it is the current thread.
SelfClose ==
  /\ run = "close"
  /\ closing' = TRUE
  /\ transport' = IF transport = "up" THEN "closed" ELSE transport
  /\ connected' = FALSE
  /\ run' = "failed"
  /\ UNCHANGED <<msg_id, q, base, listener, connect, threads, rpcs, server,
                 disturbed>>

Read == ReadHello \/ ReadIgnored \/ ReadReply \/ ReadFails \/ ReadEofClosing
          \/ ReadEofLost \/ Tick
Errback == ErrbackDeliver \/ ErrbackEnds \/ ErrbackClear \/ SelfClose

-----------------------------------------------------------------------------
(* The connecting thread: SSHSession.connect -> _post_connect               *)

\* init_event set without an error: the listener is removed, :base:1.1 is
\* selected when both sides announced it, connect() returns.
ConnectOk ==
  /\ conn = "wait"
  /\ init_event = "ok"
  /\ conn' = "ready"
  /\ base' \in {10, 11}
  /\ UNCHANGED <<msg_id, q, connected, closing, transport, run, listener,
                 init_event, threads, rpcs, server, disturbed>>

\* An error, or no <hello> within the timeout: connect() raises and
\* connect_ssh calls session.close().
ConnectFails ==
  /\ conn = "wait"
  /\ init_event \in {"err", "unset"}
  /\ conn' = "join"
  /\ closing' = TRUE
  /\ transport' = IF transport = "up" THEN "closed" ELSE transport
  /\ UNCHANGED <<msg_id, q, base, connected, run, listener, init_event, threads,
                 rpcs, server, disturbed>>

ConnectJoined ==
  /\ conn = "join"
  /\ Dead
  /\ conn' = "failed"
  /\ connected' = FALSE
  /\ UNCHANGED <<msg_id, q, base, closing, transport, run, listener, init_event,
                 threads, rpcs, server, disturbed>>

-----------------------------------------------------------------------------
(* The issuing threads: RPC.__init__, RPC._request, CloseSession.request    *)

\* An operation is called: RPC.__init__ begins, msg_id's += loads _msg_id.
Begin(t) ==
  /\ conn = "ready"
  /\ Goto(t, "idle", "inc")
  /\ tmp' = [tmp EXCEPT ![t] = msg_id]
  /\ \E o \in Rpcs :
       /\ rid[o] = NoId
       /\ \A s \in Threads : cur[s] # o
       /\ cur' = [cur EXCEPT ![t] = o]
  /\ \E what \in {"rpc", "close-session"} : op' = [op EXCEPT ![t] = what]
  /\ UNCHANGED <<session, listener, connect, rpcs, server, disturbed>>

\* += stores _msg_id.
IncMsgId(t) ==
  /\ Goto(t, "inc", "str")
  /\ msg_id' = tmp[t] + 1
  /\ UNCHANGED <<q, base, connected, closing, transport, run, listener, connect,
                 tmp, cur, op, rpcs, server, disturbed>>

\* str(self._msg_id) reads it again: this is the RPC's _id.
TakeMsgId(t) ==
  /\ Goto(t, "str", "register")
  /\ rid' = [rid EXCEPT ![cur[t]] = msg_id]
  /\ UNCHANGED <<session, listener, connect, tmp, cur, op, event, reply, error,
                 waiter, server, disturbed>>

\* RPCReplyListener.register, under the listener's lock; the RPC has no
\* _event yet.
Register(t) ==
  /\ Goto(t, "register", "init")
  /\ id2rpc' = Insert(id2rpc, rid[cur[t]], cur[t])
  /\ event' = [event EXCEPT ![cur[t]] = "absent"]
  /\ disturbed' = (disturbed \/ Failing \/ Dead)
  /\ UNCHANGED <<session, snap, left, connect, tmp, cur, op, rid, reply, error,
                 waiter, server>>

\* The rest of RPC.__init__: _reply, _error and _event are set.
InitEvent(t) ==
  /\ Goto(t, "init", "send")
  /\ reply' = [reply EXCEPT ![cur[t]] = NoRpc]
  /\ error' = [error EXCEPT ![cur[t]] = FALSE]
  /\ event' = [event EXCEPT ![cur[t]] = "unset"]
  /\ UNCHANGED <<session, listener, connect, tmp, cur, op, rid, waiter, server,
                 disturbed>>

\* Session.send finds the session connected.
CheckConnected(t) ==
  /\ connected
  /\ Goto(t, "send", "put")
  /\ UNCHANGED <<session, listener, connect, tmp, cur, op, rpcs, server,
                 disturbed>>

\* Session.send raises TransportError; the RPC stays registered.
SendRaises(t) ==
  /\ ~connected
  /\ Goto(t, "send", "idle")
  /\ cur' = [cur EXCEPT ![t] = NoRpc]
  /\ waiter' = [waiter EXCEPT ![cur[t]] = "raised"]
  /\ UNCHANGED <<session, listener, connect, tmp, op, rid, event, reply, error,
                 server, disturbed>>

\* Session.send queues the request.  An asynchronous RPC returns and its
\* caller waits for the event; close_session goes on to session.close().
PutRpc(t) ==
  /\ op[t] = "rpc"
  /\ Goto(t, "put", "idle")
  /\ q' = Append(q, cur[t])
  /\ waiter' = [waiter EXCEPT ![cur[t]] = "waiting"]
  /\ cur' = [cur EXCEPT ![t] = NoRpc]
  /\ UNCHANGED <<msg_id, base, connected, closing, transport, run, listener,
                 connect, tmp, op, rid, event, reply, error, server, disturbed>>

PutCloseSession(t) ==
  /\ op[t] = "close-session"
  /\ Goto(t, "put", "close")
  /\ q' = Append(q, cur[t])
  /\ UNCHANGED <<msg_id, base, connected, closing, transport, run, listener,
                 connect, tmp, cur, op, rpcs, server, disturbed>>

\* SSHSession.close by a thread that is not the session thread.
CloseTransport(t) ==
  /\ Goto(t, "close", "join")
  /\ closing' = TRUE
  /\ transport' = IF transport = "up" THEN "closed" ELSE transport
  /\ UNCHANGED <<msg_id, q, base, connected, run, listener, connect, tmp, cur,
                 op, rpcs, server, disturbed>>

Joined(t) ==
  /\ Dead
  /\ Goto(t, "join", "idle")
  /\ connected' = FALSE
  /\ cur' = [cur EXCEPT ![t] = NoRpc]
  /\ UNCHANGED <<msg_id, q, base, closing, transport, run, listener, connect,
                 tmp, op, rpcs, server, disturbed>>

\* _waitAsyncRPCReply returns the reply or raises the RPC's error.
WaitReturns(o) ==
  /\ waiter[o] = "waiting"
  /\ event[o] = "set"
  /\ waiter' = [waiter EXCEPT ![o] = "returned"]
  /\ UNCHANGED <<session, listener, connect, threads, rid, event, reply, error,
                 server, disturbed>>

\* _waitAsyncRPCReply gives up: timeout or user abort, which is looked at
\* before the event.  The RPC stays registered.
WaitGivesUp(o) ==
  /\ waiter[o] = "waiting"
  /\ waiter' = [waiter EXCEPT ![o] = "gaveup"]
  /\ UNCHANGED <<session, listener, connect, threads, rid, event, reply, error,
                 server, disturbed>>

Issue(t) ==
  \/ IncMsgId(t) \/ TakeMsgId(t) \/ Register(t) \/ InitEvent(t)
  \/ CheckConnected(t) \/ SendRaises(t) \/ PutRpc(t) \/ PutCloseSession(t)
  \/ CloseTransport(t) \/ Joined(t)

-----------------------------------------------------------------------------
(* The server and the network                                               *)

Deliver(m) ==
  /\ transport = "up"
  /\ Len(net) < MaxNet
  /\ net' = Append(net, m)

ServerHello ==
  /\ ~greeted
  /\ greeted' = TRUE
  /\ \E m \in {[kind |-> "hello"], [kind |-> "badhello"]} : Deliver(m)
  /\ UNCHANGED <<session, listener, connect, threads, rpcs, sent, answered,
                 rogue, disturbed>>

\* The server answers a request it received, in any order.
ServerReply(o) ==
  /\ o \in Sent \ answered
  /\ answered' = answered \cup {o}
  /\ Deliver([kind |-> "reply", id |-> rid[o], rpc |-> o])
  /\ UNCHANGED <<session, listener, connect, threads, rpcs, sent, greeted, rogue,
                 disturbed>>

\* The server answers a request again, or sends a message that is no answer.
ServerRogue ==
  /\ rogue < MaxRogue
  /\ rogue' = rogue + 1
  /\ \/ \E o \in answered : Deliver([kind |-> "reply", id |-> rid[o], rpc |-> o])
     \/ \E k \in {"noid", "unknown", "other"} : Deliver([kind |-> k])
  /\ UNCHANGED <<session, listener, connect, threads, rpcs, sent, greeted,
                 answered, disturbed>>

\* The connection is lost: reset, keepalive failure, or the server closes.
ConnectionLost ==
  /\ transport = "up"
  /\ transport' = "lost"
  /\ UNCHANGED <<msg_id, q, base, connected, closing, run, listener, connect,
                 threads, rpcs, server, disturbed>>

-----------------------------------------------------------------------------
SessionThread == Read \/ NothingToSend \/ Transmit \/ TransmitFails \/ Errback
Connecting == ConnectOk \/ ConnectFails \/ ConnectJoined

Next ==
  \/ SessionThread
  \/ Connecting
  \/ \E t \in Threads : Begin(t) \/ Issue(t)
  \/ \E o \in Rpcs : WaitReturns(o) \/ WaitGivesUp(o)
  \/ ServerHello
  \/ \E o \in Rpcs : ServerReply(o)
  \/ ServerRogue
  \/ ConnectionLost

Spec == Init /\ [][Next]_vars

\* The session thread and the threads that entered an operation run on; the
\* channel is ready to send again and again; a request that reached the server
\* is answered (strong, since MaxNet bounds what is in flight).  Nothing makes
\* the user issue an RPC, the server misbehave or the connection break.
Fairness ==
  /\ WF_vars(SessionThread)
  /\ SF_vars(Transmit)
  /\ WF_vars(Connecting)
  /\ \A t \in Threads : WF_vars(Issue(t))
  /\ \A o \in Rpcs : SF_vars(ServerReply(o))

FairSpec == Spec /\ Fairness

-----------------------------------------------------------------------------
SessionTypeOK ==
  /\ msg_id \in Int
  /\ q \in Seq(Rpcs \cup {Hello})
  /\ base \in {10, 11}
  /\ connected \in BOOLEAN
  /\ closing \in BOOLEAN
  /\ transport \in {"up", "closed", "lost"}
  /\ run \in {"select", "send", "errback", "clear", "close", "done", "failed"}
  /\ disturbed \in BOOLEAN

ListenerTypeOK ==
  /\ DOMAIN id2rpc \subseteq Int
  /\ id2rpc \in [DOMAIN id2rpc -> Rpcs]
  /\ snap \subseteq Int
  /\ left \subseteq snap

ConnectTypeOK ==
  /\ conn \in {"wait", "ready", "join", "failed"}
  /\ init_event \in {"unset", "ok", "err"}

ThreadsTypeOK ==
  /\ pc \in [Threads -> {"idle", "inc", "str", "register", "init", "send",
                         "put", "close", "join"}]
  /\ tmp \in [Threads -> Int]
  /\ cur \in [Threads -> Rpcs \cup {NoRpc}]
  /\ \A t \in Threads : pc[t] # "idle" => cur[t] \in Rpcs
  /\ op \in [Threads -> {"rpc", "close-session"}]

RpcsTypeOK ==
  /\ rid \in [Rpcs -> Int]
  /\ event \in [Rpcs -> {"none", "absent", "unset", "set"}]
  /\ reply \in [Rpcs -> Rpcs \cup {NoRpc}]
  /\ error \in [Rpcs -> BOOLEAN]
  /\ waiter \in [Rpcs -> {"none", "waiting", "returned", "gaveup", "raised"}]

ServerTypeOK ==
  /\ sent \in Seq([msg : Rpcs \cup {Hello}, framing : {10, 11}])
  /\ net \in Seq(Messages)
  /\ greeted \in BOOLEAN
  /\ answered \subseteq Rpcs
  /\ rogue \in 0..MaxRogue

\* Every variable has its type; in particular a thread inside an operation
\* holds an RPC object and the table maps message-ids to RPC objects only.
TypeOK ==
  /\ SessionTypeOK
  /\ ListenerTypeOK
  /\ ConnectTypeOK
  /\ ThreadsTypeOK
  /\ RpcsTypeOK
  /\ ServerTypeOK

\* The reply an RPC holds answers the request of that RPC, whatever the order
\* in which the server answered and whoever gave up waiting meanwhile
\* (RPCReplyListener.callback looks the RPC up by message-id only).
ReplyToItsRequest ==
  \A o \in Rpcs : reply[o] # NoRpc => reply[o] = o

\* While the main loop runs, the answer of an honest server finds its own RPC
\* registered and fully built, however late it comes: an answer to an RPC that
\* timed out or was aborted does not raise "Unknown message-id", which would
\* end the session.
AnswerFindsItsRpc ==
  (rogue = 0 /\ run \in {"select", "send"}) =>
    \A i \in 1..Len(net) : net[i].kind = "reply" =>
      /\ net[i].id \in DOMAIN id2rpc
      /\ id2rpc[net[i].id] = net[i].rpc
      /\ event[net[i].rpc] = "unset"

\* When the session thread ends on an error, every RPC built by then has been
\* completed: errback, which takes no lock, drops an RPC from _id2rpc without
\* completing it only if another RPC was being built at that moment.
UndisturbedErrorReachesAll ==
  (run = "failed" /\ ~disturbed) => \A o \in Rpcs : event[o] # "unset"

\* The same without that exception, as the docstring of RPC._request has it.
\* This does not hold.
ErrorReachesEveryRpc ==
  (run = "failed" /\ \A t \in Threads : pc[t] = "idle") =>
    \A o \in Rpcs : waiter[o] = "waiting" => event[o] = "set"

\* Every request goes out in the framing that the hello exchange settled: no
\* RPC can overtake _post_connect's choice of base.
RequestsUseNegotiatedBase ==
  \A i \in 1..Len(sent) : sent[i].msg \in Rpcs => sent[i].framing = base

\* The client's <hello> itself goes out with the 1.0 delimiter: 1.1 framing is
\* for what comes "after 'hello' message".  This does not hold: the hello may
\* still be queued when the server's arrives.
HelloFramedAs10 ==
  \A i \in 1..Len(sent) : sent[i].msg = Hello => sent[i].framing = 10

-----------------------------------------------------------------------------
(* The inductive invariant behind the properties.  All but the last part    *)
(* hold for any number of issuing threads.                                  *)

\* A thread inside an operation has an RPC object of its own, built as far as
\* the thread has come; the object has an id once the thread passed "str".
IssuersConsistent ==
  /\ \A t \in Threads :
       /\ pc[t] = "idle" => cur[t] = NoRpc
       /\ pc[t] \in {"inc", "str"} => rid[cur[t]] = NoId
       /\ pc[t] \in {"inc", "str", "register"} => event[cur[t]] = "none"
       /\ pc[t] = "init" => event[cur[t]] = "absent"
       /\ pc[t] \in {"send", "put", "close", "join"} => event[cur[t]] \in {"unset", "set"}
       /\ pc[t] \in {"register", "init"} => rid[cur[t]] # NoId
       /\ tmp[t] >= NoId
       /\ pc[t] = "str" => msg_id > NoId
  /\ \A s, t \in Threads : cur[s] = cur[t] /\ cur[t] # NoRpc => s = t
  /\ msg_id >= NoId

\* An RPC is registered after it got its id, and holds no result before its
\* event is set.
RpcsConsistent ==
  \A o \in Rpcs :
    /\ event[o] # "none" => rid[o] # NoId
    /\ event[o] # "set" => reply[o] = NoRpc /\ ~error[o]

\* The table holds RPCs under their own ids and, except those the error has
\* just been delivered to, none that is completed.
TableConsistent ==
  \A i \in DOMAIN id2rpc :
    /\ rid[id2rpc[i]] = i
    /\ event[id2rpc[i]] # "none"
    /\ event[id2rpc[i]] = "set" => run \in {"errback", "clear"} /\ i \notin left

\* Only RPCs built to the end are queued, sent and answered, and an answer
\* bears the id of its request.
TrafficConsistent ==
  /\ \A k \in 1..Len(q) : q[k] \in Rpcs => event[q[k]] \in {"unset", "set"}
  /\ \A k \in 1..Len(sent) : sent[k].msg \in Rpcs => event[sent[k].msg] \in {"unset", "set"}
  /\ \A o \in answered : event[o] \in {"unset", "set"}
  /\ \A k \in 1..Len(net) : net[k].kind = "reply" =>
       net[k].rpc \in answered /\ net[k].id = rid[net[k].rpc]

\* Nothing is issued before connect() returned; a session that says it is not
\* connected has no running thread.
PhasesConsistent ==
  /\ conn # "ready" =>
       /\ \A t \in Threads : pc[t] = "idle"
       /\ \A o \in Rpcs : rid[o] = NoId
  /\ ~connected => Dead

EngineInvariant ==
  /\ IssuersConsistent
  /\ RpcsConsistent
  /\ TableConsistent
  /\ TrafficConsistent
  /\ PhasesConsistent

\* With one issuing thread: no two RPCs have the same id, and the counter is
\* ahead of every id given out.
IdsUnique ==
  /\ \A o, p \in Rpcs : rid[o] = rid[p] /\ rid[o] # NoId => o = p
  /\ \A o \in Rpcs : rid[o] <= msg_id
  /\ \A t \in Threads :
       /\ pc[t] = "inc" => tmp[t] = msg_id
       /\ pc[t] = "str" => \A o \in Rpcs : rid[o] < msg_id

\* With one issuing thread, while the main loop runs: an RPC that is not
\* completed is in the table under its id, one that is has been answered.
RegisteredUntilAnswered ==
  run \in {"select", "send"} => \A o \in Rpcs :
    /\ event[o] \in {"absent", "unset"} =>
         rid[o] \in DOMAIN id2rpc /\ id2rpc[rid[o]] = o
    /\ event[o] = "set" => o \in answered

\* An honest server's answers in the network are for distinct requests, and
\* none of these is completed.
AnswersPending ==
  (rogue = 0 /\ run \in {"select", "send"}) =>
    \A i, k \in 1..Len(net) : net[i].kind = "reply" /\ net[k].kind = "reply" =>
      /\ event[net[i].rpc] = "unset"
      /\ net[i].rpc = net[k].rpc => i = k

\* The error still has to visit every RPC that is not completed; once it has
\* been dispatched there is none.
ErrorOnItsWay ==
  ~disturbed => \A o \in Rpcs : event[o] \in {"absent", "unset"} =>
    /\ run = "errback" => rid[o] \in left /\ id2rpc[rid[o]] = o
    /\ run \notin {"clear", "close", "failed"}

-----------------------------------------------------------------------------
\* What an RPC was completed with is final: neither a second reply, nor an
\* error of the session, nor the end of its construction changes it.
KeepsResults ==
  \A o \in Rpcs : event[o] = "set" =>
    /\ event'[o] = "set"
    /\ reply'[o] = reply[o]
    /\ error'[o] = error[o]

CompletedOnce == [][KeepsResults]_vars

\* Once the session says it is not connected, no reply and no error reaches
\* any RPC: the thread that saw it may drop the manager.
NothingAfterDisconnect ==
  [][~connected => UNCHANGED <<reply, error>>]_vars

\* The engine implements RpcService: an RPC is open from the moment its event
\* exists, replied or failed once the event is set.
RpcState ==
  [o \in Rpcs |-> IF event[o] \in {"none", "absent"} THEN "new"
                  ELSE IF event[o] = "unset" THEN "open"
                  ELSE IF error[o] THEN "failed" ELSE "replied"]

Broken == Failing \/ run = "failed"

Service == INSTANCE RpcService WITH
  state <- RpcState, heard <- answered, broken <- Broken

RefinesService == Service!Spec

\* connect() returns or raises.
ConnectReturns == <>(conn \in {"ready", "failed"})

\* close(), which joins the session thread, returns.
CloseReturns == \A t \in Threads : pc[t] = "join" ~> pc[t] = "idle"

\* A lost connection is noticed, even with nothing to send.
LossIsNoticed == transport = "lost" ~> ~connected

\* A request that was queued is completed or its session ends: no answer is
\* left behind in the network and no request in the queue.
RequestSettles ==
  \A o \in Rpcs : waiter[o] = "waiting" ~> (event[o] = "set" \/ Dead)
=============================================================================
