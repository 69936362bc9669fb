-------------------------- MODULE NcSessionProofs ---------------------------
(* Theorems about NcSession, for every set of threads and of RPC objects    *)
(* and every bound: its types, the inductive invariant and the safety       *)
(* properties that follow from it, and the refinement of RpcService.        *)
EXTENDS NcSession, TLAPS, SequenceTheorems

-----------------------------------------------------------------------------
(* Facts about the operators the module is built from                       *)

LEMMA InsertType ==
  ASSUME NEW d, DOMAIN d \subseteq Int, d \in [DOMAIN d -> Rpcs],
         NEW k \in Int, NEW v \in Rpcs
  PROVE  /\ DOMAIN Insert(d, k, v) = DOMAIN d \cup {k}
         /\ DOMAIN Insert(d, k, v) \subseteq Int
         /\ Insert(d, k, v) \in [DOMAIN Insert(d, k, v) -> Rpcs]
         /\ Insert(d, k, v)[k] = v
         /\ \A i \in DOMAIN d : i # k => Insert(d, k, v)[i] = d[i]
BY DEF Insert

LEMMA DeleteType ==
  ASSUME NEW d, DOMAIN d \subseteq Int, d \in [DOMAIN d -> Rpcs], NEW k
  PROVE  /\ DOMAIN Delete(d, k) = DOMAIN d \ {k}
         /\ DOMAIN Delete(d, k) \subseteq Int
         /\ Delete(d, k) \in [DOMAIN Delete(d, k) -> Rpcs]
         /\ \A i \in DOMAIN d \ {k} : Delete(d, k)[i] = d[i]
BY DEF Delete

LEMMA NoDictType ==
  /\ DOMAIN NoDict = {}
  /\ NoDict \in [DOMAIN NoDict -> Rpcs]
BY DEF NoDict

-----------------------------------------------------------------------------
(* Type correctness                                                         *)

LEMMA InitType == Init => TypeOK
<1> SUFFICES ASSUME Init PROVE TypeOK
  OBVIOUS
<1>1. <<Hello>> \in Seq(Rpcs \cup {Hello})
  OBVIOUS
<1>2. /\ <<>> \in Seq([msg : Rpcs \cup {Hello}, framing : {10, 11}])
      /\ <<>> \in Seq(Messages)
  OBVIOUS
<1>3. NoId \in Int /\ 0 \in 0..MaxRogue
  BY SessionAssumption DEF NoId
<1> QED
  BY <1>1, <1>2, <1>3, NoDictType DEF Init, TypeOK, SessionTypeOK, ListenerTypeOK, ConnectTypeOK,
     ThreadsTypeOK, RpcsTypeOK, ServerTypeOK

LEMMA SessionThreadType == TypeOK /\ SessionThread => TypeOK'
<1> SUFFICES ASSUME TypeOK, SessionThread PROVE TypeOK'
  OBVIOUS
<1> USE DEF TypeOK, SessionTypeOK, ListenerTypeOK, ConnectTypeOK, ThreadsTypeOK,
           RpcsTypeOK, ServerTypeOK
<1>1. CASE Tick
  BY <1>1 DEF Tick, listener, connect, threads, rpcs, server
<1>2. CASE ReadHello
  BY <1>2 DEF ReadHello, listener, threads, rpcs
<1>3. CASE ReadIgnored
  BY <1>3 DEF ReadIgnored, listener, connect, threads, rpcs
<1>4. CASE ReadReply
  <2> DEFINE m == Head(net)
  <2>1. m \in Messages /\ m.kind = "reply" /\ Tail(net) \in Seq(Messages)
    BY <1>4 DEF ReadReply
  <2>2. m.rpc \in Rpcs
    BY <2>1 DEF Messages
  <2>3. id2rpc[m.id] \in Rpcs
    BY <1>4 DEF ReadReply
  <2>4. /\ DOMAIN id2rpc' \subseteq Int
        /\ id2rpc' \in [DOMAIN id2rpc' -> Rpcs]
    BY <1>4, DeleteType DEF ReadReply
  <2>5. /\ reply' \in [Rpcs -> Rpcs \cup {NoRpc}]
        /\ event' \in [Rpcs -> {"none", "absent", "unset", "set"}]
    BY <1>4, <2>2, <2>3 DEF ReadReply
  <2> QED
    BY <1>4, <2>1, <2>4, <2>5 DEF ReadReply, connect, threads
<1>5. CASE ReadFails
  BY <1>5 DEF ReadFails, DispatchError, threads, rpcs
<1>6. CASE ReadEofClosing
  BY <1>6 DEF ReadEofClosing, listener, connect, threads, rpcs, server
<1>7. CASE ReadEofLost
  BY <1>7 DEF ReadEofLost, DispatchError, threads, rpcs, server
<1>8. CASE NothingToSend
  BY <1>8 DEF NothingToSend, listener, connect, threads, rpcs, server
<1>9. CASE Transmit
  BY <1>9 DEF Transmit, listener, connect, threads, rpcs
<1>10. CASE TransmitFails
  BY <1>10 DEF TransmitFails, DispatchError, threads, rpcs, server
<1>11. CASE ErrbackDeliver
  BY <1>11 DEF ErrbackDeliver, session, connect, threads, server
<1>12. CASE ErrbackEnds
  BY <1>12 DEF ErrbackEnds, listener, connect, threads, rpcs, server
<1>13. CASE ErrbackClear
  BY <1>13, NoDictType DEF ErrbackClear, connect, threads, rpcs, server
<1>14. CASE SelfClose
  BY <1>14 DEF SelfClose, listener, connect, threads, rpcs, server
<1> QED
  BY <1>1, <1>2, <1>3, <1>4, <1>5, <1>6, <1>7, <1>8, <1>9, <1>10, <1>11, <1>12,
     <1>13, <1>14 DEF SessionThread, Read, Errback

LEMMA ConnectingType == TypeOK /\ Connecting => TypeOK'
<1> SUFFICES ASSUME TypeOK, Connecting PROVE TypeOK'
  OBVIOUS
<1> USE DEF TypeOK, SessionTypeOK, ListenerTypeOK, ConnectTypeOK, ThreadsTypeOK,
           RpcsTypeOK, ServerTypeOK
<1>1. CASE ConnectOk
  BY <1>1 DEF ConnectOk, listener, threads, rpcs, server
<1>2. CASE ConnectFails
  BY <1>2 DEF ConnectFails, listener, threads, rpcs, server
<1>3. CASE ConnectJoined
  <2>1. conn' = "failed" /\ connected' = FALSE
    BY <1>3 DEF ConnectJoined
  <2>2. UNCHANGED <<msg_id, q, base, closing, transport, run, init_event, disturbed>>
    BY <1>3 DEF ConnectJoined
  <2>3. UNCHANGED <<listener, threads, rpcs, server>>
    BY <1>3 DEF ConnectJoined
  <2>4. SessionTypeOK' /\ ConnectTypeOK'
    BY <2>1, <2>2
  <2>5. ListenerTypeOK' /\ ThreadsTypeOK' /\ RpcsTypeOK' /\ ServerTypeOK'
    BY <2>3 DEF listener, threads, rpcs, server
  <2> HIDE DEF SessionTypeOK, ListenerTypeOK, ConnectTypeOK, ThreadsTypeOK, RpcsTypeOK,
              ServerTypeOK
  <2> QED
    BY <2>2, <2>4, <2>5
<1> QED
  <2> HIDE DEF TypeOK
  <2> QED
    BY <1>1, <1>2, <1>3 DEF Connecting

LEMMA IssueType ==
  ASSUME NEW t \in Threads, TypeOK, Begin(t) \/ Issue(t)
  PROVE  TypeOK'
<1> USE DEF TypeOK, SessionTypeOK, ListenerTypeOK, ConnectTypeOK, ThreadsTypeOK,
           RpcsTypeOK, ServerTypeOK, Goto
<1>1. CASE Begin(t)
  BY <1>1 DEF Begin, session, listener, connect, rpcs, server
<1>2. CASE IncMsgId(t)
  BY <1>2 DEF IncMsgId, listener, connect, rpcs, server
<1>3. CASE TakeMsgId(t)
  BY <1>3 DEF TakeMsgId, session, listener, connect, server
<1>4. CASE Register(t)
  <2>1. cur[t] \in Rpcs /\ rid[cur[t]] \in Int
    BY <1>4 DEF Register
  <2>2. /\ DOMAIN id2rpc' \subseteq Int
        /\ id2rpc' \in [DOMAIN id2rpc' -> Rpcs]
    BY <1>4, <2>1, InsertType DEF Register
  <2>3. disturbed' \in BOOLEAN
    BY <1>4 DEF Register, Failing, Dead
  <2> QED
    BY <1>4, <2>1, <2>2, <2>3 DEF Register, session, connect, server
<1>5. CASE InitEvent(t)
  BY <1>5 DEF InitEvent, session, listener, connect, server
<1>6. CASE CheckConnected(t)
  BY <1>6 DEF CheckConnected, session, listener, connect, rpcs, server
<1>7. CASE SendRaises(t)
  BY <1>7 DEF SendRaises, session, listener, connect, server
<1>8. CASE PutRpc(t)
  BY <1>8 DEF PutRpc, listener, connect, server
<1>9. CASE PutCloseSession(t)
  BY <1>9 DEF PutCloseSession, listener, connect, rpcs, server
<1>10. CASE CloseTransport(t)
  BY <1>10 DEF CloseTransport, listener, connect, rpcs, server
<1>11. CASE Joined(t)
  <2>session. SessionTypeOK'
    BY <1>11 DEF Joined
  <2>listener. ListenerTypeOK' /\ ConnectTypeOK'
    BY <1>11 DEF Joined, listener, connect
  <2>threads. ThreadsTypeOK'
    BY <1>11 DEF Joined
  <2>rpcs. RpcsTypeOK'
    BY <1>11 DEF Joined, rpcs
  <2>server. ServerTypeOK'
    BY <1>11 DEF Joined, server
  <2> QED
    BY <2>session, <2>listener, <2>threads, <2>rpcs, <2>server
<1> QED
  BY <1>1, <1>2, <1>3, <1>4, <1>5, <1>6, <1>7, <1>8, <1>9, <1>10, <1>11
     DEF Issue

LEMMA WaiterType ==
  ASSUME NEW o \in Rpcs, TypeOK, WaitReturns(o) \/ WaitGivesUp(o)
  PROVE  TypeOK'
<1> USE DEF TypeOK, SessionTypeOK, ListenerTypeOK, ConnectTypeOK, ThreadsTypeOK,
           RpcsTypeOK, ServerTypeOK, session, listener, connect, threads, server
<1>1. CASE WaitReturns(o)
  BY <1>1 DEF WaitReturns
<1>2. CASE WaitGivesUp(o)
  BY <1>2 DEF WaitGivesUp
<1> QED
  BY <1>1, <1>2

LEMMA ServerType ==
  ASSUME TypeOK,
         ServerHello \/ (\E o \in Rpcs : ServerReply(o)) \/ ServerRogue
           \/ ConnectionLost
  PROVE  TypeOK'
<1> USE DEF TypeOK, SessionTypeOK, ListenerTypeOK, ConnectTypeOK, ThreadsTypeOK,
           RpcsTypeOK, ServerTypeOK, Deliver
<1>1. CASE ServerHello
  BY <1>1 DEF ServerHello, Messages, session, listener, connect, threads, rpcs
<1>2. ASSUME NEW o \in Rpcs, ServerReply(o) PROVE TypeOK'
  <2>1. [kind |-> "reply", id |-> rid[o], rpc |-> o] \in Messages
    BY DEF Messages
  <2> QED
    BY <1>2, <2>1 DEF ServerReply, session, listener, connect, threads, rpcs
<1>3. CASE ServerRogue
  <2>1. \E m \in Messages : net' = Append(net, m)
    <3>1. CASE \E o \in answered : Deliver([kind |-> "reply", id |-> rid[o], rpc |-> o])
      <4>1. PICK o \in answered : net' = Append(net, [kind |-> "reply", id |-> rid[o], rpc |-> o])
        BY <3>1
      <4>2. [kind |-> "reply", id |-> rid[o], rpc |-> o] \in Messages
        BY DEF Messages
      <4> QED
        BY <4>1, <4>2
    <3>2. CASE \E k \in {"noid", "unknown", "other"} : Deliver([kind |-> k])
      BY <3>2 DEF Messages
    <3> QED
      BY <1>3, <3>1, <3>2 DEF ServerRogue
  <2>2. rogue' \in 0..MaxRogue
    BY <1>3, SessionAssumption DEF ServerRogue
  <2> QED
    BY <1>3, <2>1, <2>2 DEF ServerRogue, session, listener, connect, threads, rpcs
<1>4. CASE ConnectionLost
  BY <1>4 DEF ConnectionLost, listener, connect, threads, rpcs, server
<1> QED
  BY <1>1, <1>2, <1>3, <1>4

\* Every reachable state of the engine is well typed; in particular a thread
\* inside an operation always holds an RPC object, and the table maps
\* message-ids to RPC objects only.
THEOREM TypeCorrect == Spec => []TypeOK
<1>1. TypeOK /\ [Next]_vars => TypeOK'
  <2> SUFFICES ASSUME TypeOK, [Next]_vars PROVE TypeOK'
    OBVIOUS
  <2>1. CASE UNCHANGED vars
    BY <2>1 DEF TypeOK, SessionTypeOK, ListenerTypeOK, ConnectTypeOK,
       ThreadsTypeOK, RpcsTypeOK, ServerTypeOK, vars, session, listener, connect, threads, rpcs, server
  <2>2. CASE Next
    BY <2>2, SessionThreadType, ConnectingType, IssueType, WaiterType,
       ServerType DEF Next
  <2> QED
    BY <2>1, <2>2
<1> QED
  BY <1>1, InitType, PTL DEF Spec

-----------------------------------------------------------------------------
(* EngineInvariant is inductive: one lemma per part, one step per action    *)
(* that can disturb it.                                                     *)

LEMMA EngineInit == Init => EngineInvariant
<1> SUFFICES ASSUME Init PROVE EngineInvariant
  OBVIOUS
<1> USE DEF Init
<1>1. IssuersConsistent /\ RpcsConsistent
  BY DEF IssuersConsistent, RpcsConsistent, NoId
<1>2. TableConsistent
  BY DEF TableConsistent, NoDict
<1>3. TrafficConsistent
  BY SessionAssumption DEF TrafficConsistent
<1>4. PhasesConsistent
  BY DEF PhasesConsistent, NoId
<1> QED
  BY <1>1, <1>2, <1>3, <1>4 DEF EngineInvariant

LEMMA IssuersStep ==
  ASSUME TypeOK, EngineInvariant, Next
  PROVE  IssuersConsistent'
<1> USE DEF Goto, NoId
<1>a. /\ SessionTypeOK /\ ListenerTypeOK /\ ThreadsTypeOK /\ RpcsTypeOK
      /\ IssuersConsistent /\ RpcsConsistent /\ TableConsistent
  BY DEF TypeOK, EngineInvariant
<1>1. CASE UNCHANGED <<msg_id, pc, tmp, cur, rid, event>>
  BY <1>a, <1>1 DEF IssuersConsistent
<1>2. ASSUME NEW o \in Rpcs, event[o] # "none" /\ event[o] # "absent",
             event' = [event EXCEPT ![o] = "set"],
             UNCHANGED <<msg_id, pc, tmp, cur, rid>>
      PROVE  IssuersConsistent'
  BY <1>a, <1>2 DEF IssuersConsistent, RpcsTypeOK, ThreadsTypeOK
<1>3. CASE ReadReply
  <2> DEFINE o == id2rpc[Head(net).id]
  <2>1. o \in Rpcs
    BY <1>a, <1>3 DEF ReadReply, ListenerTypeOK
  <2>2. event[o] # "none"
    BY <1>a, <1>3 DEF ReadReply, TableConsistent
  <2> QED
    BY <1>2, <1>3, <2>1, <2>2 DEF ReadReply, threads
<1>4. CASE ErrbackDeliver
  <2>1. PICK i \in left : /\ event[id2rpc[i]] # "absent"
                          /\ event' = [event EXCEPT ![id2rpc[i]] = "set"]
    BY <1>4 DEF ErrbackDeliver
  <2>2. i \in DOMAIN id2rpc /\ id2rpc[i] \in Rpcs
    BY <1>a, <1>4 DEF ErrbackDeliver, ListenerTypeOK
  <2>3. event[id2rpc[i]] # "none"
    BY <1>a, <2>2 DEF TableConsistent
  <2> QED
    BY <1>2, <1>4, <2>1, <2>2, <2>3 DEF ErrbackDeliver, session, threads
<1>5. ASSUME NEW t \in Threads, Begin(t) PROVE IssuersConsistent'
  <2>1. PICK o \in Rpcs : /\ rid[o] = NoId
                          /\ \A s \in Threads : cur[s] # o
                          /\ cur' = [cur EXCEPT ![t] = o]
    BY <1>5 DEF Begin
  <2>2. event[o] = "none"
    BY <1>a, <2>1 DEF RpcsConsistent
  <2>3. UNCHANGED <<msg_id, rid, event>>
    BY <1>5 DEF Begin, session, rpcs
  <2> QED
    BY <1>a, <1>5, <2>1, <2>2, <2>3
       DEF Begin, IssuersConsistent, ThreadsTypeOK, SessionTypeOK
<1>6. ASSUME NEW t \in Threads, Issue(t) PROVE IssuersConsistent'
  <2> USE DEF IssuersConsistent, ThreadsTypeOK
  <2>inc. CASE IncMsgId(t)
    BY <1>a, <2>inc DEF IncMsgId, SessionTypeOK, rpcs
  <2>take. CASE TakeMsgId(t)
    <3>1. cur[t] \in Rpcs /\ cur[t] # NoRpc
      BY <1>a, <2>take, SessionAssumption DEF TakeMsgId
    <3>2. \A s \in Threads : s # t => cur[s] # cur[t]
      BY <1>a, <3>1
    <3>3. msg_id > NoId
      BY <1>a, <2>take DEF TakeMsgId
    <3>4. UNCHANGED <<msg_id, tmp, cur, event>>
      BY <2>take DEF TakeMsgId, session
    <3> QED
      BY <1>a, <2>take, <3>1, <3>2, <3>3, <3>4
         DEF TakeMsgId, RpcsTypeOK, SessionTypeOK
  <2>register. CASE Register(t)
    <3>1. cur[t] \in Rpcs /\ cur[t] # NoRpc
      BY <1>a, <2>register, SessionAssumption DEF Register
    <3>2. \A s \in Threads : s # t => cur[s] # cur[t]
      BY <1>a, <3>1
    <3>3. UNCHANGED <<msg_id, tmp, cur, rid>>
      BY <2>register DEF Register, session
    <3> QED
      BY <1>a, <2>register, <3>1, <3>2, <3>3 DEF Register, RpcsTypeOK
  <2>event. CASE InitEvent(t)
    <3>1. cur[t] \in Rpcs /\ cur[t] # NoRpc
      BY <1>a, <2>event, SessionAssumption DEF InitEvent
    <3>2. \A s \in Threads : s # t => cur[s] # cur[t]
      BY <1>a, <3>1
    <3>3. UNCHANGED <<msg_id, tmp, cur, rid>>
      BY <2>event DEF InitEvent, session
    <3> QED
      BY <1>a, <2>event, <3>1, <3>2, <3>3 DEF InitEvent, RpcsTypeOK
  <2>check. CASE CheckConnected(t)
    BY <1>a, <2>check DEF CheckConnected, session, rpcs
  <2>raises. CASE SendRaises(t)
    BY <1>a, <2>raises DEF SendRaises, session
  <2>put. CASE PutRpc(t)
    BY <1>a, <2>put DEF PutRpc
  <2>putClose. CASE PutCloseSession(t)
    BY <1>a, <2>putClose DEF PutCloseSession, rpcs
  <2>close. CASE CloseTransport(t)
    BY <1>a, <2>close DEF CloseTransport, rpcs
  <2>joined. CASE Joined(t)
    BY <1>a, <2>joined DEF Joined, rpcs
  <2> QED
    BY <1>6, <2>inc, <2>take, <2>register, <2>event, <2>check, <2>raises, <2>put,
       <2>putClose, <2>close, <2>joined DEF Issue
<1>7. CASE Errback \/ Read \/ NothingToSend \/ Transmit \/ TransmitFails
  BY <1>1, <1>3, <1>4, <1>7
     DEF Errback, ErrbackEnds, ErrbackClear, SelfClose, Read, Tick, ReadHello,
         ReadIgnored, ReadFails, ReadEofClosing, ReadEofLost, NothingToSend,
         Transmit, TransmitFails, DispatchError, session, threads, rpcs
<1>8. CASE Connecting
  BY <1>1, <1>8 DEF Connecting, ConnectOk, ConnectFails, ConnectJoined, session,
                    threads, rpcs
<1>9. CASE \E o \in Rpcs : WaitReturns(o) \/ WaitGivesUp(o) \/ ServerReply(o)
  BY <1>1, <1>9 DEF WaitReturns, WaitGivesUp, ServerReply, session, threads, rpcs
<1>10. CASE ServerHello \/ ServerRogue \/ ConnectionLost
  BY <1>1, <1>10 DEF ServerHello, ServerRogue, ConnectionLost, session, threads, rpcs
<1> QED
  BY <1>5, <1>6, <1>7, <1>8, <1>9, <1>10 DEF Next, SessionThread

LEMMA RpcsStep ==
  ASSUME TypeOK, EngineInvariant, Next
  PROVE  RpcsConsistent'
<1> USE DEF Goto
<1>a. /\ SessionTypeOK /\ ListenerTypeOK /\ ThreadsTypeOK /\ RpcsTypeOK
      /\ IssuersConsistent /\ RpcsConsistent /\ TableConsistent
  BY DEF TypeOK, EngineInvariant
<1>1. CASE UNCHANGED <<rid, event, reply, error>>
  BY <1>a, <1>1 DEF RpcsConsistent
<1>2. CASE ReadReply
  <2> DEFINE o == id2rpc[Head(net).id]
  <2>1. o \in Rpcs /\ event[o] # "absent" /\ event[o] # "none"
    BY <1>a, <1>2 DEF ReadReply, ListenerTypeOK, TableConsistent
  <2>2. \A p \in Rpcs : p # o => event'[p] = event[p] /\ reply'[p] = reply[p]
    BY <1>a, <1>2 DEF ReadReply, RpcsTypeOK
  <2>3. event'[o] = "set" /\ UNCHANGED <<rid, error>>
    BY <1>a, <1>2, <2>1 DEF ReadReply, RpcsTypeOK
  <2> QED
    BY <1>a, <2>1, <2>2, <2>3 DEF RpcsConsistent
<1>3. CASE ErrbackDeliver
  <2>1. PICK i \in left : /\ event[id2rpc[i]] # "absent"
                          /\ error' = [error EXCEPT ![id2rpc[i]] = TRUE]
                          /\ event' = [event EXCEPT ![id2rpc[i]] = "set"]
    BY <1>3 DEF ErrbackDeliver
  <2> DEFINE o == id2rpc[i]
  <2>2. i \in DOMAIN id2rpc /\ o \in Rpcs /\ event[o] # "none"
    BY <1>a, <1>3 DEF ErrbackDeliver, ListenerTypeOK, TableConsistent
  <2>3. \A p \in Rpcs : p # o => event'[p] = event[p] /\ error'[p] = error[p]
    BY <1>a, <2>1 DEF RpcsTypeOK
  <2>4. event'[o] = "set" /\ UNCHANGED <<rid, reply>>
    BY <1>a, <1>3, <2>1, <2>2 DEF ErrbackDeliver, RpcsTypeOK
  <2> QED
    BY <1>a, <2>2, <2>3, <2>4 DEF RpcsConsistent
<1>4. ASSUME NEW t \in Threads, Issue(t) PROVE RpcsConsistent'
  <2>1. CASE TakeMsgId(t)
    <3>1. cur[t] \in Rpcs /\ event[cur[t]] = "none"
      BY <1>a, <2>1 DEF TakeMsgId, ThreadsTypeOK, IssuersConsistent
    <3>2. rid' = [rid EXCEPT ![cur[t]] = msg_id] /\ UNCHANGED <<event, reply, error>>
      BY <2>1 DEF TakeMsgId
    <3> QED
      BY <1>a, <3>1, <3>2 DEF RpcsConsistent, RpcsTypeOK
  <2>2. CASE Register(t)
    <3>1. cur[t] \in Rpcs /\ event[cur[t]] = "none" /\ rid[cur[t]] # NoId
      BY <1>a, <2>2 DEF Register, ThreadsTypeOK, IssuersConsistent
    <3>2. event' = [event EXCEPT ![cur[t]] = "absent"] /\ UNCHANGED <<rid, reply, error>>
      BY <2>2 DEF Register
    <3> QED
      BY <1>a, <3>1, <3>2 DEF RpcsConsistent, RpcsTypeOK
  <2>3. CASE InitEvent(t)
    <3>1. cur[t] \in Rpcs /\ rid[cur[t]] # NoId
      BY <1>a, <2>3 DEF InitEvent, ThreadsTypeOK, IssuersConsistent
    <3>2. /\ event' = [event EXCEPT ![cur[t]] = "unset"] /\ UNCHANGED rid
          /\ reply' = [reply EXCEPT ![cur[t]] = NoRpc]
          /\ error' = [error EXCEPT ![cur[t]] = FALSE]
      BY <2>3 DEF InitEvent
    <3> QED
      BY <1>a, <3>1, <3>2 DEF RpcsConsistent, RpcsTypeOK
  <2> QED
    BY <1>1, <1>4, <2>1, <2>2, <2>3
       DEF Issue, IncMsgId, CheckConnected, SendRaises, PutRpc, PutCloseSession,
           CloseTransport, Joined, rpcs
<1>5. CASE Errback \/ Read \/ NothingToSend \/ Transmit \/ TransmitFails
  BY <1>1, <1>2, <1>3, <1>5
     DEF Errback, ErrbackEnds, ErrbackClear, SelfClose, Read, Tick, ReadHello,
         ReadIgnored, ReadFails, ReadEofClosing, ReadEofLost, NothingToSend,
         Transmit, TransmitFails, rpcs
<1>6. CASE Connecting \/ \E t \in Threads : Begin(t)
  BY <1>1, <1>6 DEF Connecting, ConnectOk, ConnectFails, ConnectJoined, Begin, rpcs
<1>7. CASE \E o \in Rpcs : WaitReturns(o) \/ WaitGivesUp(o) \/ ServerReply(o)
  BY <1>1, <1>7 DEF WaitReturns, WaitGivesUp, ServerReply, rpcs
<1>8. CASE ServerHello \/ ServerRogue \/ ConnectionLost
  BY <1>1, <1>8 DEF ServerHello, ServerRogue, ConnectionLost, rpcs
<1> QED
  BY <1>4, <1>5, <1>6, <1>7, <1>8 DEF Next, SessionThread

LEMMA TableStep ==
  ASSUME TypeOK, EngineInvariant, Next
  PROVE  TableConsistent'
<1> USE DEF Goto
<1>a. /\ SessionTypeOK /\ ListenerTypeOK /\ ThreadsTypeOK /\ RpcsTypeOK
      /\ IssuersConsistent /\ RpcsConsistent /\ TableConsistent
  BY DEF TypeOK, EngineInvariant
<1>1. CASE UNCHANGED <<id2rpc, left, rid, event, run>>
  BY <1>a, <1>1 DEF TableConsistent
\* Before the error is dispatched no entry is completed.
<1>2. CASE run \notin {"errback", "clear"} /\ UNCHANGED <<id2rpc, rid, event>>
  BY <1>a, <1>2 DEF TableConsistent
<1>3. CASE ReadReply
  <2> DEFINE k == Head(net).id
  <2>1. k \in DOMAIN id2rpc /\ id2rpc[k] \in Rpcs
    BY <1>a, <1>3 DEF ReadReply, ListenerTypeOK
  <2>2. /\ id2rpc' = Delete(id2rpc, k)
        /\ event' = [event EXCEPT ![id2rpc[k]] = "set"]
        /\ run = "select" /\ UNCHANGED rid
    BY <1>3 DEF ReadReply
  <2>3. \A i \in DOMAIN id2rpc \ {k} : id2rpc[i] # id2rpc[k] /\ id2rpc[i] \in Rpcs
    BY <1>a, <2>1 DEF TableConsistent, ListenerTypeOK
  <2>4. \A i \in DOMAIN id2rpc' : /\ i \in DOMAIN id2rpc \ {k}
                                  /\ id2rpc'[i] = id2rpc[i]
    BY <1>a, <2>2, DeleteType DEF ListenerTypeOK
  <2>5. \A i \in DOMAIN id2rpc' : event'[id2rpc'[i]] = event[id2rpc[i]]
    BY <1>a, <2>2, <2>3, <2>4 DEF RpcsTypeOK
  <2> QED
    BY <1>a, <2>2, <2>4, <2>5 DEF TableConsistent
<1>4. CASE ErrbackDeliver
  <2>1. PICK i \in left : /\ event' = [event EXCEPT ![id2rpc[i]] = "set"]
                          /\ left' = left \ {i}
    BY <1>4 DEF ErrbackDeliver
  <2>2. /\ i \in DOMAIN id2rpc /\ run' = "errback"
        /\ UNCHANGED <<id2rpc, rid, run>>
    BY <1>a, <1>4 DEF ErrbackDeliver, ListenerTypeOK, session
  <2>3. \A j \in DOMAIN id2rpc : j # i => id2rpc[j] # id2rpc[i] /\ id2rpc[j] \in Rpcs
    BY <1>a, <2>2 DEF TableConsistent, ListenerTypeOK
  <2>4. \A j \in DOMAIN id2rpc : j # i => event'[id2rpc[j]] = event[id2rpc[j]]
    BY <1>a, <2>1, <2>3 DEF RpcsTypeOK
  <2>5. event'[id2rpc[i]] = "set"
    BY <1>a, <2>1, <2>2 DEF RpcsTypeOK, ListenerTypeOK
  <2> QED
    BY <1>a, <2>1, <2>2, <2>4, <2>5 DEF TableConsistent
<1>5. CASE ErrbackEnds
  BY <1>a, <1>5 DEF ErrbackEnds, TableConsistent, listener, rpcs
<1>6. CASE ErrbackClear
  BY <1>6, NoDictType DEF ErrbackClear, TableConsistent
<1>7. ASSUME NEW t \in Threads, Issue(t) PROVE TableConsistent'
  <2>1. CASE TakeMsgId(t)
    <3>1. cur[t] \in Rpcs /\ event[cur[t]] = "none"
      BY <1>a, <2>1 DEF TakeMsgId, ThreadsTypeOK, IssuersConsistent
    <3>2. /\ rid' = [rid EXCEPT ![cur[t]] = msg_id]
          /\ UNCHANGED <<id2rpc, left, event, run>>
      BY <2>1 DEF TakeMsgId, session, listener
    <3>3. \A i \in DOMAIN id2rpc : id2rpc[i] # cur[t]
      BY <1>a, <3>1 DEF TableConsistent
    <3>4. \A i \in DOMAIN id2rpc : rid'[id2rpc[i]] = rid[id2rpc[i]]
      BY <1>a, <3>2, <3>3 DEF RpcsTypeOK, ListenerTypeOK
    <3> QED
      BY <1>a, <3>2, <3>4 DEF TableConsistent
  <2>2. CASE Register(t)
    <3> DEFINE k == rid[cur[t]]
    <3>1. cur[t] \in Rpcs /\ event[cur[t]] = "none" /\ k \in Int
      BY <1>a, <2>2 DEF Register, ThreadsTypeOK, IssuersConsistent, RpcsTypeOK
    <3>2. /\ id2rpc' = Insert(id2rpc, k, cur[t])
          /\ event' = [event EXCEPT ![cur[t]] = "absent"]
          /\ UNCHANGED <<left, rid, run>>
      BY <2>2 DEF Register, session
    <3>3. /\ DOMAIN id2rpc' = DOMAIN id2rpc \cup {k}
          /\ id2rpc'[k] = cur[t]
          /\ \A i \in DOMAIN id2rpc : i # k => id2rpc'[i] = id2rpc[i]
      BY <3>2 DEF Insert
    <3>4. event'[cur[t]] = "absent" /\ rid'[cur[t]] = k
      BY <1>a, <3>1, <3>2 DEF RpcsTypeOK
    <3>5. \A i \in DOMAIN id2rpc : event'[id2rpc[i]] = event[id2rpc[i]]
      BY <1>a, <3>1, <3>2 DEF TableConsistent, RpcsTypeOK, ListenerTypeOK
    <3> QED
      BY <1>a, <3>2, <3>3, <3>4, <3>5 DEF TableConsistent
  <2>3. CASE InitEvent(t)
    <3>1. cur[t] \in Rpcs /\ event[cur[t]] = "absent"
      BY <1>a, <2>3 DEF InitEvent, ThreadsTypeOK, IssuersConsistent
    <3>2. /\ event' = [event EXCEPT ![cur[t]] = "unset"]
          /\ UNCHANGED <<id2rpc, left, rid, run>>
      BY <2>3 DEF InitEvent, session, listener
    <3> QED
      BY <1>a, <3>1, <3>2 DEF TableConsistent, RpcsTypeOK, ListenerTypeOK
  <2> QED
    BY <1>1, <1>7, <2>1, <2>2, <2>3
       DEF Issue, IncMsgId, CheckConnected, SendRaises, PutRpc, PutCloseSession,
           CloseTransport, Joined, rpcs, session, listener
<1>8. CASE Errback \/ Read \/ NothingToSend \/ Transmit \/ TransmitFails
  BY <1>2, <1>3, <1>4, <1>5, <1>6, <1>8
     DEF Errback, SelfClose, Read, Tick, ReadHello, ReadIgnored, ReadFails,
         ReadEofClosing, ReadEofLost, NothingToSend, Transmit, TransmitFails,
         rpcs, listener
<1>9. CASE Connecting \/ \E t \in Threads : Begin(t)
  BY <1>1, <1>9 DEF Connecting, ConnectOk, ConnectFails, ConnectJoined, Begin,
                    rpcs, session, listener
<1>10. CASE \E o \in Rpcs : WaitReturns(o) \/ WaitGivesUp(o) \/ ServerReply(o)
  BY <1>1, <1>10 DEF WaitReturns, WaitGivesUp, ServerReply, rpcs, session, listener
<1>11. CASE ServerHello \/ ServerRogue \/ ConnectionLost
  BY <1>1, <1>11 DEF ServerHello, ServerRogue, ConnectionLost, rpcs, session, listener
<1> QED
  BY <1>7, <1>8, <1>9, <1>10, <1>11 DEF Next, SessionThread

\* Queue, network and answers.  A completed RPC stays completed, and an RPC
\* that is built keeps its id: facts about one step.
LEMMA BuiltStays ==
  ASSUME TypeOK, EngineInvariant, Next, NEW o \in Rpcs, event[o] \in {"unset", "set"}
  PROVE  event'[o] \in {"unset", "set"} /\ rid'[o] = rid[o]
<1> USE DEF Goto
<1>a. /\ SessionTypeOK /\ ListenerTypeOK /\ ThreadsTypeOK /\ RpcsTypeOK
      /\ IssuersConsistent /\ RpcsConsistent /\ TableConsistent
  BY DEF TypeOK, EngineInvariant
<1>1. CASE UNCHANGED <<rid, event>>
  BY <1>1
<1>2. CASE ReadReply
  BY <1>a, <1>2 DEF ReadReply, RpcsTypeOK, ListenerTypeOK
<1>3. CASE ErrbackDeliver
  BY <1>a, <1>3 DEF ErrbackDeliver, RpcsTypeOK, ListenerTypeOK
<1>4. ASSUME NEW t \in Threads, Issue(t)
      PROVE  event'[o] \in {"unset", "set"} /\ rid'[o] = rid[o]
  <2>1. CASE TakeMsgId(t)
    BY <1>a, <2>1 DEF TakeMsgId, ThreadsTypeOK, IssuersConsistent, RpcsTypeOK
  <2>2. CASE Register(t)
    BY <1>a, <2>2 DEF Register, ThreadsTypeOK, IssuersConsistent, RpcsTypeOK
  <2>3. CASE InitEvent(t)
    BY <1>a, <2>3 DEF InitEvent, ThreadsTypeOK, IssuersConsistent, RpcsTypeOK
  <2> QED
    BY <1>1, <1>4, <2>1, <2>2, <2>3
       DEF Issue, IncMsgId, CheckConnected, SendRaises, PutRpc, PutCloseSession,
           CloseTransport, Joined, rpcs
<1>5. CASE Errback \/ Read \/ NothingToSend \/ Transmit \/ TransmitFails
  BY <1>1, <1>2, <1>3, <1>5
     DEF Errback, ErrbackEnds, ErrbackClear, SelfClose, Read, Tick, ReadHello,
         ReadIgnored, ReadFails, ReadEofClosing, ReadEofLost, NothingToSend,
         Transmit, TransmitFails, rpcs
<1>6. CASE Connecting \/ \E t \in Threads : Begin(t)
  BY <1>1, <1>6 DEF Connecting, ConnectOk, ConnectFails, ConnectJoined, Begin, rpcs
<1>7. CASE \E p \in Rpcs : WaitReturns(p) \/ WaitGivesUp(p) \/ ServerReply(p)
  BY <1>1, <1>7 DEF WaitReturns, WaitGivesUp, ServerReply, rpcs
<1>8. CASE ServerHello \/ ServerRogue \/ ConnectionLost
  BY <1>1, <1>8 DEF ServerHello, ServerRogue, ConnectionLost, rpcs
<1> QED
  BY <1>4, <1>5, <1>6, <1>7, <1>8 DEF Next, SessionThread

LEMMA TrafficStep ==
  ASSUME TypeOK, EngineInvariant, Next
  PROVE  TrafficConsistent'
<1> USE DEF Goto
<1>a. /\ SessionTypeOK /\ ThreadsTypeOK /\ RpcsTypeOK /\ ServerTypeOK
      /\ IssuersConsistent /\ RpcsConsistent /\ TrafficConsistent
  BY DEF TypeOK, EngineInvariant
<1>b. \A o \in Rpcs : event[o] \in {"unset", "set"} =>
        event'[o] \in {"unset", "set"} /\ rid'[o] = rid[o]
  BY BuiltStays
<1>c. \A k \in 1..Len(net) : net[k].kind = "reply" =>
        /\ net[k].rpc \in answered /\ net[k].id = rid[net[k].rpc]
        /\ net[k].rpc \in Rpcs /\ event[net[k].rpc] \in {"unset", "set"}
  BY <1>a DEF TrafficConsistent, ServerTypeOK
\* The parts are preserved on their own, given what a step may append.
<1>1. ASSUME \/ q' = q
             \/ q # <<>> /\ q' = Tail(q)
             \/ \E o \in Rpcs : event[o] \in {"unset", "set"} /\ q' = Append(q, o)
      PROVE  \A k \in 1..Len(q') : q'[k] \in Rpcs => event'[q'[k]] \in {"unset", "set"}
  <2>1. CASE q' = q
    BY <1>a, <1>b, <2>1 DEF TrafficConsistent
  <2>2. CASE q # <<>> /\ q' = Tail(q)
    <3>1. q \in Seq(Rpcs \cup {Hello})
      BY <1>a DEF SessionTypeOK
    <3>2. Len(q') = Len(q) - 1 /\ \A k \in 1..Len(q') : q'[k] = q[k + 1] /\ k + 1 \in 1..Len(q)
      BY <2>2, <3>1
    <3> QED
      BY <1>a, <1>b, <3>2 DEF TrafficConsistent
  <2>3. CASE \E o \in Rpcs : event[o] \in {"unset", "set"} /\ q' = Append(q, o)
    <3>1. PICK o \in Rpcs : event[o] \in {"unset", "set"} /\ q' = Append(q, o)
      BY <2>3
    <3>2. q \in Seq(Rpcs \cup {Hello})
      BY <1>a DEF SessionTypeOK
    <3>3. /\ Len(q') = Len(q) + 1 /\ q'[Len(q) + 1] = o
          /\ \A k \in 1..Len(q) : q'[k] = q[k]
      BY <3>1, <3>2
    <3>4. \A k \in 1..Len(q') : k \in 1..Len(q) \/ k = Len(q) + 1
      BY <3>2, <3>3
    <3> QED
      BY <1>a, <1>b, <3>1, <3>3, <3>4 DEF TrafficConsistent
  <2> QED
    BY <1>1, <2>1, <2>2, <2>3
<1>2. ASSUME \/ sent' = sent
             \/ q # <<>> /\ sent' = Append(sent, [msg |-> Head(q), framing |-> base])
      PROVE  \A k \in 1..Len(sent') :
               sent'[k].msg \in Rpcs => event'[sent'[k].msg] \in {"unset", "set"}
  <2>1. CASE sent' = sent
    BY <1>a, <1>b, <2>1 DEF TrafficConsistent
  <2>2. CASE q # <<>> /\ sent' = Append(sent, [msg |-> Head(q), framing |-> base])
    <3>1. sent \in Seq([msg : Rpcs \cup {Hello}, framing : {10, 11}])
      BY <1>a DEF ServerTypeOK
    <3>2. /\ Len(sent') = Len(sent) + 1
          /\ sent'[Len(sent) + 1].msg = Head(q)
          /\ \A k \in 1..Len(sent) : sent'[k] = sent[k]
      BY <2>2, <3>1
    <3>3. q \in Seq(Rpcs \cup {Hello}) /\ 1 \in 1..Len(q) /\ Head(q) = q[1]
      BY <1>a, <2>2 DEF SessionTypeOK
    <3>4. Head(q) \in Rpcs => event'[Head(q)] \in {"unset", "set"}
      BY <1>a, <1>b, <3>3 DEF TrafficConsistent
    <3>5. \A k \in 1..Len(sent') : k \in 1..Len(sent) \/ k = Len(sent) + 1
      BY <3>1, <3>2
    <3> QED
      BY <1>a, <1>b, <3>2, <3>4, <3>5 DEF TrafficConsistent
  <2> QED
    BY <1>2, <2>1, <2>2
<1>3. ASSUME answered \subseteq answered',
             \/ net' = net
             \/ net # <<>> /\ net' = Tail(net)
             \/ \E m : /\ net' = Append(net, m)
                       /\ m.kind = "reply" =>
                            /\ m.rpc \in answered' \cap Rpcs
                            /\ event[m.rpc] \in {"unset", "set"}
                            /\ m.id = rid[m.rpc]
      PROVE  \A k \in 1..Len(net') : net'[k].kind = "reply" =>
               net'[k].rpc \in answered' /\ net'[k].id = rid'[net'[k].rpc]
  <2>1. CASE net' = net
    BY <1>b, <1>c, <1>3, <2>1
  <2>2. CASE net # <<>> /\ net' = Tail(net)
    <3>1. net \in Seq(Messages)
      BY <1>a DEF ServerTypeOK
    <3>2. \A k \in 1..Len(net') : net'[k] = net[k + 1] /\ k + 1 \in 1..Len(net)
      BY <2>2, <3>1
    <3>3. SUFFICES ASSUME NEW k \in 1..Len(net'), net'[k].kind = "reply"
                   PROVE  net'[k].rpc \in answered' /\ net'[k].id = rid'[net'[k].rpc]
      OBVIOUS
    <3> DEFINE m == net[k + 1]
    <3>4. net'[k] = m /\ k + 1 \in 1..Len(net)
      BY <3>2
    <3>5. /\ m.rpc \in answered /\ m.id = rid[m.rpc]
          /\ m.rpc \in Rpcs /\ event[m.rpc] \in {"unset", "set"}
      BY <1>c, <3>3, <3>4
    <3>6. rid'[m.rpc] = rid[m.rpc]
      BY <1>b, <3>5
    <3> HIDE DEF m
    <3> QED
      BY <1>3, <3>4, <3>5, <3>6
  <2>3. CASE \E m : /\ net' = Append(net, m)
                    /\ m.kind = "reply" =>
                         /\ m.rpc \in answered' \cap Rpcs
                         /\ event[m.rpc] \in {"unset", "set"}
                         /\ m.id = rid[m.rpc]
    <3>1. PICK m : /\ net' = Append(net, m)
                   /\ m.kind = "reply" =>
                        /\ m.rpc \in answered' \cap Rpcs
                        /\ event[m.rpc] \in {"unset", "set"}
                        /\ m.id = rid[m.rpc]
      BY <2>3
    <3>2. net \in Seq(Messages)
      BY <1>a DEF ServerTypeOK
    <3>3. /\ Len(net') = Len(net) + 1 /\ net'[Len(net) + 1] = m
          /\ \A k \in 1..Len(net) : net'[k] = net[k]
      BY <3>1, <3>2
    <3>4. \A k \in 1..Len(net') : k \in 1..Len(net) \/ k = Len(net) + 1
      BY <3>2, <3>3
    <3> QED
      BY <1>b, <1>c, <1>3, <3>1, <3>3, <3>4
  <2> QED
    BY <1>3, <2>1, <2>2, <2>3
<1>4. ASSUME answered' = answered
      PROVE  \A o \in answered' : event'[o] \in {"unset", "set"}
  BY <1>a, <1>b, <1>4 DEF TrafficConsistent, ServerTypeOK
<1>5. CASE UNCHANGED <<q, sent, net, answered>>
  BY <1>1, <1>2, <1>3, <1>4, <1>5 DEF TrafficConsistent
<1>6. CASE Read
  BY <1>1, <1>2, <1>3, <1>4, <1>6
     DEF TrafficConsistent, Read, Tick, ReadHello, ReadIgnored, ReadReply,
         ReadFails, ReadEofClosing, ReadEofLost, server
<1>7. CASE Transmit \/ TransmitFails
  BY <1>1, <1>2, <1>3, <1>4, <1>7
     DEF TrafficConsistent, Transmit, TransmitFails, server
<1>8. CASE NothingToSend \/ Errback
  BY <1>5, <1>8 DEF NothingToSend, Errback, ErrbackDeliver, ErrbackEnds,
                    ErrbackClear, SelfClose, session, server
<1>9. CASE Connecting \/ \E t \in Threads : Begin(t)
  BY <1>5, <1>9 DEF Connecting, ConnectOk, ConnectFails, ConnectJoined, Begin,
                    session, server
<1>10. ASSUME NEW t \in Threads, Issue(t) PROVE TrafficConsistent'
  <2>1. ASSUME pc[t] = "put", q' = Append(q, cur[t]),
               UNCHANGED <<sent, net, answered>>
        PROVE  TrafficConsistent'
    <3>1. cur[t] \in Rpcs /\ event[cur[t]] \in {"unset", "set"}
      BY <1>a, <2>1 DEF ThreadsTypeOK, IssuersConsistent
    <3> QED
      BY <1>1, <1>2, <1>3, <1>4, <2>1, <3>1 DEF TrafficConsistent
  <2> QED
    BY <1>5, <1>10, <2>1
       DEF Issue, IncMsgId, TakeMsgId, Register, InitEvent, CheckConnected,
           SendRaises, PutRpc, PutCloseSession, CloseTransport, Joined, session,
           server
<1>11. CASE \E o \in Rpcs : WaitReturns(o) \/ WaitGivesUp(o)
  BY <1>5, <1>11 DEF WaitReturns, WaitGivesUp, session, server
<1>12. ASSUME NEW o \in Rpcs, ServerReply(o) PROVE TrafficConsistent'
  <2>1. PICK k \in 1..Len(sent) : sent[k].msg = o
    BY <1>12 DEF ServerReply, Sent
  <2>2. event[o] \in {"unset", "set"}
    BY <1>a, <2>1 DEF TrafficConsistent
  <2>3. /\ answered' = answered \cup {o}
        /\ net' = Append(net, [kind |-> "reply", id |-> rid[o], rpc |-> o])
        /\ UNCHANGED <<q, sent>>
    BY <1>12 DEF ServerReply, Deliver, session
  <2>4. \A p \in answered' : event'[p] \in {"unset", "set"}
    BY <1>a, <1>b, <2>2, <2>3 DEF TrafficConsistent, ServerTypeOK
  <2>5. \E m : /\ net' = Append(net, m)
               /\ m.kind = "reply" =>
                    /\ m.rpc \in answered' \cap Rpcs
                    /\ event[m.rpc] \in {"unset", "set"}
                    /\ m.id = rid[m.rpc]
    <3> WITNESS [kind |-> "reply", id |-> rid[o], rpc |-> o]
    <3> QED
      BY <2>2, <2>3
  <2> QED
    BY <1>1, <1>2, <1>3, <2>3, <2>4, <2>5 DEF TrafficConsistent
<1>13. CASE ServerHello \/ ConnectionLost
  <2>1. UNCHANGED <<q, sent, answered>>
    BY <1>13 DEF ServerHello, ConnectionLost, session, server
  <2>2. net' = net \/ \E m : net' = Append(net, m) /\ m.kind # "reply"
    BY <1>13 DEF ServerHello, ConnectionLost, Deliver, server
  <2> QED
    BY <1>1, <1>2, <1>3, <1>4, <2>1, <2>2 DEF TrafficConsistent
<1>14. CASE ServerRogue
  <2>1. UNCHANGED <<q, sent, answered>>
    BY <1>14 DEF ServerRogue, session
  <2>2. CASE \E o \in answered : Deliver([kind |-> "reply", id |-> rid[o], rpc |-> o])
    <3>1. PICK o \in answered : net' = Append(net, [kind |-> "reply", id |-> rid[o], rpc |-> o])
      BY <2>2 DEF Deliver
    <3>2. o \in Rpcs /\ event[o] \in {"unset", "set"}
      BY <1>a DEF TrafficConsistent, ServerTypeOK
    <3>3. \E m : /\ net' = Append(net, m)
                 /\ m.kind = "reply" =>
                      /\ m.rpc \in answered' \cap Rpcs
                      /\ event[m.rpc] \in {"unset", "set"}
                      /\ m.id = rid[m.rpc]
      <4> WITNESS [kind |-> "reply", id |-> rid[o], rpc |-> o]
      <4> QED
        BY <2>1, <3>1, <3>2
    <3> QED
      BY <1>1, <1>2, <1>3, <1>4, <2>1, <3>3 DEF TrafficConsistent
  <2>3. CASE \E k \in {"noid", "unknown", "other"} : Deliver([kind |-> k])
    <3>1. \E m : net' = Append(net, m) /\ m.kind # "reply"
      BY <2>3 DEF Deliver
    <3> QED
      BY <1>1, <1>2, <1>3, <1>4, <2>1, <3>1 DEF TrafficConsistent
  <2> QED
    BY <1>14, <2>2, <2>3 DEF ServerRogue
<1> QED
  BY <1>6, <1>7, <1>8, <1>9, <1>10, <1>11, <1>12, <1>13, <1>14 DEF Next, SessionThread

LEMMA PhasesStep ==
  ASSUME TypeOK, EngineInvariant, Next
  PROVE  PhasesConsistent'
<1> USE DEF Goto, Dead
<1>a. /\ ThreadsTypeOK /\ RpcsTypeOK /\ SessionTypeOK /\ IssuersConsistent
      /\ PhasesConsistent
  BY DEF TypeOK, EngineInvariant
<1>1. CASE UNCHANGED <<conn, pc, rid, connected, run>>
  BY <1>a, <1>1 DEF PhasesConsistent
<1>2. ASSUME NEW t \in Threads, Begin(t) \/ Issue(t) PROVE PhasesConsistent'
  <2>1. conn = "ready" /\ conn' = "ready"
    BY <1>a, <1>2 DEF Begin, Issue, IncMsgId, TakeMsgId, Register, InitEvent,
       CheckConnected, SendRaises, PutRpc, PutCloseSession, CloseTransport, Joined,
       connect, PhasesConsistent
  <2>2. ~connected' => Dead'
    BY <1>a, <1>2 DEF Begin, Issue, IncMsgId, TakeMsgId, Register, InitEvent,
       CheckConnected, SendRaises, PutRpc, PutCloseSession, CloseTransport, Joined,
       session, PhasesConsistent
  <2> QED
    BY <2>1, <2>2 DEF PhasesConsistent
<1>3. CASE Connecting
  BY <1>a, <1>3 DEF Connecting, ConnectOk, ConnectFails, ConnectJoined, threads, rpcs,
                    PhasesConsistent
<1>4. CASE SelfClose
  BY <1>a, <1>4 DEF SelfClose, connect, threads, rpcs, PhasesConsistent
<1>5. CASE Read \/ NothingToSend \/ Transmit \/ TransmitFails
             \/ ErrbackDeliver \/ ErrbackEnds \/ ErrbackClear
  <2>1. UNCHANGED <<conn, pc, rid, connected>>
    BY <1>5 DEF Read, Tick, ReadHello, ReadIgnored, ReadReply, ReadFails,
       ReadEofClosing, ReadEofLost, NothingToSend, Transmit, TransmitFails,
       DispatchError, ErrbackDeliver, ErrbackEnds, ErrbackClear, session, connect,
       threads, rpcs
  <2>2. ~Dead
    BY <1>5 DEF Read, Tick, ReadHello, ReadIgnored, ReadReply, ReadFails,
       ReadEofClosing, ReadEofLost, NothingToSend, Transmit, TransmitFails,
       ErrbackDeliver, ErrbackEnds, ErrbackClear
  <2> QED
    BY <1>a, <2>1, <2>2 DEF PhasesConsistent
<1>6. CASE \E o \in Rpcs : WaitReturns(o) \/ WaitGivesUp(o) \/ ServerReply(o)
  BY <1>1, <1>6 DEF WaitReturns, WaitGivesUp, ServerReply, rpcs, session, connect,
                    threads
<1>7. CASE ServerHello \/ ServerRogue \/ ConnectionLost
  BY <1>1, <1>7 DEF ServerHello, ServerRogue, ConnectionLost, rpcs, session, connect,
                    threads
<1> QED
  BY <1>2, <1>3, <1>4, <1>5, <1>6, <1>7 DEF Next, SessionThread, Errback

\* EngineInvariant is an invariant of the engine, however many threads issue
\* RPCs on the session.
THEOREM EngineCorrect == Spec => []EngineInvariant
<1>1. TypeOK /\ EngineInvariant /\ [Next]_vars => EngineInvariant'
  <2> SUFFICES ASSUME TypeOK, EngineInvariant, [Next]_vars PROVE EngineInvariant'
    OBVIOUS
  <2>1. CASE UNCHANGED vars
    BY <2>1 DEF EngineInvariant, IssuersConsistent, RpcsConsistent,
       TableConsistent, TrafficConsistent, PhasesConsistent, Dead, vars, session,
       listener, connect, threads, rpcs, server
  <2>2. CASE Next
    BY <2>2, IssuersStep, RpcsStep, TableStep, TrafficStep, PhasesStep
       DEF EngineInvariant
  <2> QED
    BY <2>1, <2>2
<1> QED
  BY <1>1, EngineInit, TypeCorrect, PTL DEF Spec

-----------------------------------------------------------------------------
(* Properties for any number of issuing threads                             *)

\* What an RPC was completed with is final (CompletedOnce of NcSession): a
\* reply or an error is delivered only to an RPC of the table, and a completed
\* RPC is in the table only while errback has already visited it.
THEOREM CompletionIsFinal == Spec => CompletedOnce
<1>1. ASSUME TypeOK, EngineInvariant, [Next]_vars, NEW o \in Rpcs, event[o] = "set"
      PROVE  event'[o] = "set" /\ reply'[o] = reply[o] /\ error'[o] = error[o]
  <2> USE DEF Goto
  <2>a. /\ ListenerTypeOK /\ ThreadsTypeOK /\ RpcsTypeOK
        /\ IssuersConsistent /\ TableConsistent
    BY <1>1 DEF TypeOK, EngineInvariant
  <2>1. CASE UNCHANGED <<event, reply, error>>
    BY <1>1, <2>1
  <2>2. CASE ReadReply
    <3>1. o # id2rpc[Head(net).id]
      BY <1>1, <2>a, <2>2 DEF ReadReply, TableConsistent
    <3> QED
      BY <1>1, <2>a, <2>2, <3>1 DEF ReadReply, RpcsTypeOK
  <2>3. CASE ErrbackDeliver
    <3>1. PICK i \in left : /\ error' = [error EXCEPT ![id2rpc[i]] = TRUE]
                            /\ event' = [event EXCEPT ![id2rpc[i]] = "set"]
      BY <2>3 DEF ErrbackDeliver
    <3>2. i \in DOMAIN id2rpc /\ o # id2rpc[i]
      BY <1>1, <2>a, <2>3 DEF ErrbackDeliver, ListenerTypeOK, TableConsistent
    <3> QED
      BY <1>1, <2>a, <2>3, <3>1, <3>2 DEF ErrbackDeliver, RpcsTypeOK
  <2>4. ASSUME NEW t \in Threads, Issue(t)
        PROVE  event'[o] = "set" /\ reply'[o] = reply[o] /\ error'[o] = error[o]
    <3>1. CASE Register(t)
      <4>1. o # cur[t]
        BY <1>1, <2>a, <3>1 DEF Register, IssuersConsistent
      <4> QED
        BY <1>1, <2>a, <3>1, <4>1 DEF Register, RpcsTypeOK
    <3>2. CASE InitEvent(t)
      <4>1. o # cur[t]
        BY <1>1, <2>a, <3>2 DEF InitEvent, IssuersConsistent
      <4> QED
        BY <1>1, <2>a, <3>2, <4>1 DEF InitEvent, RpcsTypeOK
    <3> QED
      BY <2>1, <2>4, <3>1, <3>2
         DEF Issue, IncMsgId, TakeMsgId, CheckConnected, SendRaises, PutRpc,
             PutCloseSession, CloseTransport, Joined, rpcs
  <2>5. CASE Errback \/ Read \/ NothingToSend \/ Transmit \/ TransmitFails
    BY <2>1, <2>2, <2>3, <2>5
       DEF Errback, ErrbackEnds, ErrbackClear, SelfClose, Read, Tick, ReadHello,
           ReadIgnored, ReadFails, ReadEofClosing, ReadEofLost, NothingToSend,
           Transmit, TransmitFails, rpcs
  <2>6. CASE Connecting \/ \E t \in Threads : Begin(t)
    BY <2>1, <2>6 DEF Connecting, ConnectOk, ConnectFails, ConnectJoined, Begin, rpcs
  <2>7. CASE \E p \in Rpcs : WaitReturns(p) \/ WaitGivesUp(p) \/ ServerReply(p)
    BY <2>1, <2>7 DEF WaitReturns, WaitGivesUp, ServerReply, rpcs
  <2>8. CASE ServerHello \/ ServerRogue \/ ConnectionLost \/ UNCHANGED vars
    BY <2>1, <2>8 DEF ServerHello, ServerRogue, ConnectionLost, rpcs, vars
  <2> QED
    BY <1>1, <2>4, <2>5, <2>6, <2>7, <2>8 DEF Next, SessionThread
<1>2. TypeOK /\ EngineInvariant /\ [Next]_vars =>
        [KeepsResults]_vars
  BY <1>1 DEF KeepsResults
<1> QED
  BY <1>2, EngineCorrect, TypeCorrect, PTL DEF Spec, CompletedOnce

\* Once the session says it is not connected, nothing is delivered any more
\* (NothingAfterDisconnect of NcSession): _connected is cleared only when the
\* session thread has ended, and an RPC under construction has no result that
\* the end of RPC.__init__ could overwrite.
THEOREM DisconnectIsFinal == Spec => NothingAfterDisconnect
<1>1. ASSUME TypeOK, EngineInvariant, [Next]_vars, ~connected
      PROVE  UNCHANGED <<reply, error>>
  <2> USE DEF Goto
  <2>a. /\ ThreadsTypeOK /\ RpcsTypeOK /\ IssuersConsistent /\ RpcsConsistent /\ Dead
    BY <1>1 DEF TypeOK, EngineInvariant, PhasesConsistent
  <2>1. ~ReadReply /\ ~ErrbackDeliver
    BY <2>a DEF ReadReply, ErrbackDeliver, Dead
  <2>2. CASE \E t \in Threads : InitEvent(t)
    <3>1. PICK t \in Threads : InitEvent(t)
      BY <2>2
    <3>2. /\ cur[t] \in Rpcs /\ reply[cur[t]] = NoRpc /\ error[cur[t]] = FALSE
      BY <2>a, <3>1 DEF InitEvent, ThreadsTypeOK, RpcsTypeOK, IssuersConsistent,
                        RpcsConsistent
    <3> QED
      BY <2>a, <3>1, <3>2 DEF InitEvent, RpcsTypeOK
  <2>3. CASE \E t \in Threads : Begin(t) \/ Issue(t)
    BY <2>2, <2>3
       DEF Begin, Issue, IncMsgId, TakeMsgId, Register, CheckConnected, SendRaises,
           PutRpc, PutCloseSession, CloseTransport, Joined, rpcs
  <2>4. CASE SessionThread
    BY <2>1, <2>4
       DEF SessionThread, Errback, ErrbackEnds, ErrbackClear, SelfClose, Read, Tick,
           ReadHello, ReadIgnored, ReadFails, ReadEofClosing, ReadEofLost,
           NothingToSend, Transmit, TransmitFails, rpcs
  <2>5. CASE Connecting \/ UNCHANGED vars
    BY <2>5 DEF Connecting, ConnectOk, ConnectFails, ConnectJoined, rpcs, vars
  <2>6. CASE \E p \in Rpcs : WaitReturns(p) \/ WaitGivesUp(p) \/ ServerReply(p)
    BY <2>6 DEF WaitReturns, WaitGivesUp, ServerReply, rpcs
  <2>7. CASE ServerHello \/ ServerRogue \/ ConnectionLost
    BY <2>7 DEF ServerHello, ServerRogue, ConnectionLost, rpcs
  <2> QED
    BY <1>1, <2>3, <2>4, <2>5, <2>6, <2>7 DEF Next
<1>2. TypeOK /\ EngineInvariant /\ [Next]_vars =>
        [~connected => UNCHANGED <<reply, error>>]_vars
  BY <1>1
<1> QED
  BY <1>2, EngineCorrect, TypeCorrect, PTL DEF Spec, NothingAfterDisconnect

\* Every request goes out in the framing settled by the hello exchange
\* (RequestsUseNegotiatedBase of NcSession): base changes only while nothing
\* has been issued.
THEOREM FramingIsSettled == Spec => []RequestsUseNegotiatedBase
<1>1. Init => RequestsUseNegotiatedBase
  BY DEF Init, RequestsUseNegotiatedBase
<1>2. TypeOK /\ EngineInvariant /\ RequestsUseNegotiatedBase /\ [Next]_vars
        => RequestsUseNegotiatedBase'
  <2> SUFFICES ASSUME TypeOK, EngineInvariant, RequestsUseNegotiatedBase, [Next]_vars
               PROVE  RequestsUseNegotiatedBase'
    OBVIOUS
  <2> USE DEF Goto
  <2>1. CASE UNCHANGED <<sent, base>>
    BY <2>1 DEF RequestsUseNegotiatedBase
  <2>2. CASE Transmit
    <3>1. sent \in Seq([msg : Rpcs \cup {Hello}, framing : {10, 11}])
      BY DEF TypeOK, ServerTypeOK
    <3>2. /\ Len(sent') = Len(sent) + 1
          /\ sent'[Len(sent) + 1].framing = base
          /\ \A k \in 1..Len(sent) : sent'[k] = sent[k]
          /\ base' = base
      BY <2>2, <3>1 DEF Transmit
    <3>3. \A k \in 1..Len(sent') : k \in 1..Len(sent) \/ k = Len(sent) + 1
      BY <3>1, <3>2
    <3> QED
      BY <3>2, <3>3 DEF RequestsUseNegotiatedBase
  <2>3. CASE ConnectOk
    <3>1. \A o \in Rpcs : rid[o] = NoId
      BY <2>3 DEF ConnectOk, EngineInvariant, PhasesConsistent
    <3>2. \A k \in 1..Len(sent) : sent[k].msg \notin Rpcs
      BY <3>1 DEF EngineInvariant, TrafficConsistent, RpcsConsistent
    <3> QED
      BY <2>3, <3>2 DEF ConnectOk, RequestsUseNegotiatedBase, server
  <2>4. CASE SessionThread
    BY <2>1, <2>2, <2>4
       DEF SessionThread, Errback, ErrbackDeliver, ErrbackEnds, ErrbackClear,
           SelfClose, Read, Tick, ReadHello, ReadIgnored, ReadReply, ReadFails,
           ReadEofClosing, ReadEofLost, NothingToSend, TransmitFails, session,
           server
  <2>5. CASE Connecting \/ UNCHANGED vars
    BY <2>1, <2>3, <2>5 DEF Connecting, ConnectFails, ConnectJoined, vars, session, server
  <2>6. CASE \E t \in Threads : Begin(t) \/ Issue(t)
    BY <2>1, <2>6
       DEF Begin, Issue, IncMsgId, TakeMsgId, Register, InitEvent, CheckConnected,
           SendRaises, PutRpc, PutCloseSession, CloseTransport, Joined, session,
           server
  <2>7. CASE \E p \in Rpcs : WaitReturns(p) \/ WaitGivesUp(p) \/ ServerReply(p)
    BY <2>1, <2>7 DEF WaitReturns, WaitGivesUp, ServerReply, session, server
  <2>8. CASE ServerHello \/ ServerRogue \/ ConnectionLost
    BY <2>1, <2>8 DEF ServerHello, ServerRogue, ConnectionLost, session, server
  <2> QED
    BY <2>4, <2>5, <2>6, <2>7, <2>8 DEF Next
<1> QED
  BY <1>1, <1>2, EngineCorrect, TypeCorrect, PTL DEF Spec

-----------------------------------------------------------------------------
(* Properties for one issuing thread.  With two, the unlocked increment of  *)
(* _msg_id can give two RPCs the same id and they fail.                     *)

SingleIssuer == \A s, t \in Threads : s = t

LEMMA IdsInit == Init => IdsUnique
BY DEF Init, IdsUnique, NoId

LEMMA IdsStep ==
  ASSUME SingleIssuer, TypeOK, EngineInvariant, IdsUnique, [Next]_vars
  PROVE  IdsUnique'
<1> USE DEF Goto
<1>a. /\ SessionTypeOK /\ ThreadsTypeOK /\ RpcsTypeOK /\ IssuersConsistent
  BY DEF TypeOK, EngineInvariant
<1>1. CASE UNCHANGED <<msg_id, rid, pc, tmp>>
  BY <1>1 DEF IdsUnique
<1>2. ASSUME NEW t \in Threads, Begin(t) \/ Issue(t) PROVE IdsUnique'
  <2>a. \A s \in Threads : s = t
    BY DEF SingleIssuer
  <2>1. CASE Begin(t)
    BY <1>a, <2>a, <2>1 DEF Begin, IdsUnique, session, rpcs, ThreadsTypeOK
  <2>2. CASE IncMsgId(t)
    <3>1. /\ msg_id' = msg_id + 1 /\ pc'[t] = "str" /\ UNCHANGED rid
      BY <1>a, <2>2 DEF IncMsgId, IdsUnique, rpcs, ThreadsTypeOK
    <3> QED
      BY <1>a, <2>a, <3>1 DEF IdsUnique, SessionTypeOK, RpcsTypeOK
  <2>3. CASE TakeMsgId(t)
    <3>1. /\ cur[t] \in Rpcs /\ pc'[t] = "register" /\ UNCHANGED msg_id
          /\ rid' = [rid EXCEPT ![cur[t]] = msg_id]
          /\ \A o \in Rpcs : rid[o] < msg_id
      BY <1>a, <2>3 DEF TakeMsgId, IdsUnique, session, ThreadsTypeOK
    <3> QED
      BY <1>a, <2>a, <3>1 DEF IdsUnique, SessionTypeOK, RpcsTypeOK
  <2>4. ASSUME UNCHANGED <<msg_id, rid, tmp>>, pc'[t] \notin {"inc", "str"}
        PROVE  IdsUnique'
    BY <2>a, <2>4 DEF IdsUnique
  <2> QED
    BY <1>a, <1>2, <2>1, <2>2, <2>3, <2>4
       DEF Issue, Register, InitEvent, CheckConnected, SendRaises, PutRpc,
           PutCloseSession, CloseTransport, Joined, session, rpcs, ThreadsTypeOK
<1>3. CASE SessionThread
  BY <1>1, <1>3
     DEF SessionThread, Errback, ErrbackDeliver, ErrbackEnds, ErrbackClear,
         SelfClose, Read, Tick, ReadHello, ReadIgnored, ReadReply, ReadFails,
         ReadEofClosing, ReadEofLost, NothingToSend, Transmit, TransmitFails,
         session, threads, rpcs
<1>4. CASE Connecting \/ UNCHANGED vars
  BY <1>1, <1>4 DEF Connecting, ConnectOk, ConnectFails, ConnectJoined, vars,
                    session, threads, rpcs
<1>5. CASE \E p \in Rpcs : WaitReturns(p) \/ WaitGivesUp(p) \/ ServerReply(p)
  BY <1>1, <1>5 DEF WaitReturns, WaitGivesUp, ServerReply, session, threads, rpcs
<1>6. CASE ServerHello \/ ServerRogue \/ ConnectionLost
  BY <1>1, <1>6 DEF ServerHello, ServerRogue, ConnectionLost, session, threads, rpcs
<1> QED
  BY <1>2, <1>3, <1>4, <1>5, <1>6 DEF Next

\* The RPC that a reply in the network is delivered to is the one it answers,
\* and the server did answer it.
LEMMA ReplyFindsItsOwn ==
  ASSUME TypeOK, EngineInvariant, IdsUnique, ReadReply
  PROVE  /\ id2rpc[Head(net).id] = Head(net).rpc
         /\ Head(net).rpc \in answered
         /\ event[Head(net).rpc] = "unset"
<1>a. /\ ListenerTypeOK /\ RpcsTypeOK /\ ServerTypeOK /\ RpcsConsistent
      /\ TableConsistent /\ TrafficConsistent
  BY DEF TypeOK, EngineInvariant
<1>1. Head(net) = net[1] /\ 1 \in 1..Len(net) /\ net[1].kind = "reply"
  BY <1>a DEF ReadReply, ServerTypeOK
<1>2. net[1].rpc \in answered /\ net[1].id = rid[net[1].rpc]
  BY <1>a, <1>1 DEF TrafficConsistent
<1>3. /\ net[1].rpc \in Rpcs /\ event[net[1].rpc] \in {"unset", "set"}
      /\ rid[net[1].rpc] # NoId
  BY <1>a, <1>2 DEF TrafficConsistent, RpcsConsistent, ServerTypeOK
<1>4. /\ net[1].id \in DOMAIN id2rpc /\ id2rpc[net[1].id] \in Rpcs
      /\ rid[id2rpc[net[1].id]] = net[1].id
      /\ event[id2rpc[net[1].id]] # "set"
  BY <1>a, <1>1 DEF ReadReply, ListenerTypeOK, TableConsistent
<1> QED
  BY <1>1, <1>2, <1>3, <1>4 DEF IdsUnique

LEMMA IdsCorrect == ASSUME SingleIssuer PROVE Spec => []IdsUnique
<1>1. TypeOK /\ EngineInvariant /\ IdsUnique /\ [Next]_vars => IdsUnique'
  BY IdsStep
<1> QED
  BY <1>1, IdsInit, EngineCorrect, TypeCorrect, PTL DEF Spec

\* With one issuing thread the reply an RPC holds answers its own request
\* (ReplyToItsRequest of NcSession), in whatever order the server answers and
\* whichever answers come late, twice or for requests that were given up.
THEOREM RepliesAreTheirOwn == ASSUME SingleIssuer PROVE Spec => []ReplyToItsRequest
<1>1. Init => ReplyToItsRequest
  BY DEF Init, ReplyToItsRequest
<1>2. TypeOK /\ EngineInvariant /\ IdsUnique /\ ReplyToItsRequest /\ [Next]_vars
        => ReplyToItsRequest'
  <2> SUFFICES ASSUME TypeOK, EngineInvariant, IdsUnique, ReplyToItsRequest, [Next]_vars
               PROVE  ReplyToItsRequest'
    OBVIOUS
  <2>a. RpcsTypeOK /\ ThreadsTypeOK
    BY DEF TypeOK
  <2>1. CASE UNCHANGED reply
    BY <2>1 DEF ReplyToItsRequest
  <2>2. CASE ReadReply
    <3>1. reply' = [reply EXCEPT ![id2rpc[Head(net).id]] = Head(net).rpc]
      BY <2>2 DEF ReadReply
    <3> QED
      BY <2>a, <2>2, <3>1, ReplyFindsItsOwn DEF ReplyToItsRequest, RpcsTypeOK
  <2>3. ASSUME NEW t \in Threads, Issue(t) PROVE ReplyToItsRequest'
    <3>1. CASE InitEvent(t)
      BY <2>a, <3>1 DEF InitEvent, ReplyToItsRequest, RpcsTypeOK
    <3> QED
      BY <2>1, <2>3, <3>1
         DEF Issue, IncMsgId, TakeMsgId, Register, CheckConnected, SendRaises,
             PutRpc, PutCloseSession, CloseTransport, Joined, rpcs
  <2>4. CASE SessionThread
    BY <2>1, <2>2, <2>4
       DEF SessionThread, Errback, ErrbackDeliver, ErrbackEnds, ErrbackClear,
           SelfClose, Read, Tick, ReadHello, ReadIgnored, ReadFails, ReadEofClosing,
           ReadEofLost, NothingToSend, Transmit, TransmitFails, rpcs
  <2>5. CASE Connecting \/ UNCHANGED vars \/ \E t \in Threads : Begin(t)
    BY <2>1, <2>5 DEF Connecting, ConnectOk, ConnectFails, ConnectJoined, Begin, vars, rpcs
  <2>6. CASE \E p \in Rpcs : WaitReturns(p) \/ WaitGivesUp(p) \/ ServerReply(p)
    BY <2>1, <2>6 DEF WaitReturns, WaitGivesUp, ServerReply, rpcs
  <2>7. CASE ServerHello \/ ServerRogue \/ ConnectionLost
    BY <2>1, <2>7 DEF ServerHello, ServerRogue, ConnectionLost, rpcs
  <2> QED
    BY <2>3, <2>4, <2>5, <2>6, <2>7 DEF Next
<1> QED
  BY <1>1, <1>2, IdsCorrect, EngineCorrect, TypeCorrect, PTL DEF Spec

-----------------------------------------------------------------------------
(* What becomes of an open RPC with one issuing thread: it stays in the     *)
(* table until its answer or the error reaches it.  One lemma per part of    *)
(* the invariant; the first needs that ids are unique.                      *)

LEMMA RegisteredStep ==
  ASSUME TypeOK, EngineInvariant, IdsUnique,
         RegisteredUntilAnswered, [Next]_vars
  PROVE  RegisteredUntilAnswered'
<1> USE DEF Goto
<1>a. /\ SessionTypeOK /\ ListenerTypeOK /\ ThreadsTypeOK /\ RpcsTypeOK
      /\ IssuersConsistent /\ RpcsConsistent /\ TableConsistent
  BY DEF TypeOK, EngineInvariant
<1>1. ASSUME UNCHANGED <<id2rpc, rid, event>>, answered \subseteq answered',
             run' \in {"select", "send"} => run \in {"select", "send"}
      PROVE  RegisteredUntilAnswered'
  BY <1>1 DEF RegisteredUntilAnswered
<1>2. CASE run' \notin {"select", "send"}
  BY <1>2 DEF RegisteredUntilAnswered
<1>3. CASE ReadReply
  <2> DEFINE o == Head(net).rpc
             k == Head(net).id
  <2>1. /\ id2rpc[k] = o /\ o \in answered /\ k \in DOMAIN id2rpc /\ o \in Rpcs
        /\ rid[o] = k
    BY <1>a, <1>3, ReplyFindsItsOwn DEF ReadReply, ListenerTypeOK, TableConsistent
  <2>2. /\ event' = [event EXCEPT ![o] = "set"] /\ id2rpc' = Delete(id2rpc, k)
        /\ UNCHANGED <<rid, answered>> /\ run = "select"
    BY <1>3, <2>1 DEF ReadReply
  <2>3. ASSUME NEW p \in Rpcs
        PROVE  /\ event'[p] \in {"absent", "unset"} =>
                    rid'[p] \in DOMAIN id2rpc' /\ id2rpc'[rid'[p]] = p
               /\ event'[p] = "set" => p \in answered'
    <3>1. CASE p = o
      BY <1>a, <2>1, <2>2, <3>1 DEF RpcsTypeOK
    <3>2. CASE p # o
      <4>1. event'[p] = event[p]
        BY <1>a, <2>1, <2>2, <3>2 DEF RpcsTypeOK
      <4>2. event[p] \in {"absent", "unset"} => rid[p] \in DOMAIN id2rpc /\ id2rpc[rid[p]] = p
        BY <2>2 DEF RegisteredUntilAnswered
      <4>3. event[p] \in {"absent", "unset"} => rid[p] # k
        BY <2>1, <3>2, <4>2
      <4>4. event[p] = "set" => p \in answered
        BY <2>2 DEF RegisteredUntilAnswered
      <4>5. \A i \in DOMAIN id2rpc \ {k} : i \in DOMAIN id2rpc' /\ id2rpc'[i] = id2rpc[i]
        BY <1>a, <2>2, DeleteType DEF ListenerTypeOK
      <4>6. rid'[p] = rid[p] /\ answered' = answered
        BY <2>2
      <4> QED
        BY <4>1, <4>2, <4>3, <4>4, <4>5, <4>6
    <3> QED
      BY <3>1, <3>2
  <2> QED
    BY <2>3 DEF RegisteredUntilAnswered
<1>4. ASSUME NEW t \in Threads, Issue(t) PROVE RegisteredUntilAnswered'
  <2>1. CASE TakeMsgId(t)
    <3>1. cur[t] \in Rpcs /\ event[cur[t]] = "none"
      BY <1>a, <2>1 DEF TakeMsgId, ThreadsTypeOK, IssuersConsistent
    <3>2. /\ rid' = [rid EXCEPT ![cur[t]] = msg_id]
          /\ UNCHANGED <<id2rpc, event, run, answered>>
      BY <2>1 DEF TakeMsgId, session, listener, server
    <3> QED
      BY <1>a, <3>1, <3>2 DEF RegisteredUntilAnswered, RpcsTypeOK
  <2>2. CASE Register(t)
    <3> DEFINE o == cur[t]
               k == rid[o]
    <3>1. o \in Rpcs /\ event[o] = "none" /\ k \in Int /\ k # NoId
      BY <1>a, <2>2 DEF Register, ThreadsTypeOK, IssuersConsistent, RpcsTypeOK
    <3>2. /\ id2rpc' = Insert(id2rpc, k, o)
          /\ event' = [event EXCEPT ![o] = "absent"]
          /\ UNCHANGED <<rid, run, answered>>
      BY <2>2 DEF Register, session, server
    <3>3. /\ DOMAIN id2rpc' = DOMAIN id2rpc \cup {k}
          /\ id2rpc'[k] = o
          /\ \A i \in DOMAIN id2rpc : i # k => id2rpc'[i] = id2rpc[i]
      BY <3>2 DEF Insert
    <3>4. \A p \in Rpcs : p # o => rid[p] # k /\ event'[p] = event[p]
      BY <1>a, <3>1, <3>2 DEF IdsUnique, RpcsTypeOK
    <3>5. event'[o] = "absent"
      BY <1>a, <3>1, <3>2 DEF RpcsTypeOK
    <3> QED
      BY <3>2, <3>3, <3>4, <3>5 DEF RegisteredUntilAnswered
  <2>3. CASE InitEvent(t)
    <3>1. cur[t] \in Rpcs /\ event[cur[t]] = "absent"
      BY <1>a, <2>3 DEF InitEvent, ThreadsTypeOK, IssuersConsistent
    <3>2. /\ event' = [event EXCEPT ![cur[t]] = "unset"]
          /\ UNCHANGED <<id2rpc, rid, run, answered>>
      BY <2>3 DEF InitEvent, session, listener, server
    <3> QED
      BY <1>a, <3>1, <3>2 DEF RegisteredUntilAnswered, RpcsTypeOK
  <2> QED
    BY <1>1, <1>4, <2>1, <2>2, <2>3
       DEF Issue, IncMsgId, CheckConnected, SendRaises, PutRpc, PutCloseSession,
           CloseTransport, Joined, session, listener, rpcs, server
<1>5. CASE SessionThread
  BY <1>1, <1>2, <1>3, <1>5
     DEF SessionThread, Errback, ErrbackDeliver, ErrbackEnds, ErrbackClear,
         SelfClose, Read, Tick, ReadHello, ReadIgnored, ReadFails, ReadEofClosing,
         ReadEofLost, NothingToSend, Transmit, TransmitFails, DispatchError,
         session, listener, rpcs, server
<1>6. CASE Connecting \/ UNCHANGED vars \/ \E t \in Threads : Begin(t)
  BY <1>1, <1>6 DEF Connecting, ConnectOk, ConnectFails, ConnectJoined, Begin, vars,
                    session, listener, rpcs, server
<1>7. CASE \E p \in Rpcs : WaitReturns(p) \/ WaitGivesUp(p) \/ ServerReply(p)
  BY <1>1, <1>7 DEF WaitReturns, WaitGivesUp, ServerReply, session, listener, rpcs,
                    server
<1>8. CASE ServerHello \/ ServerRogue \/ ConnectionLost
  BY <1>1, <1>8 DEF ServerHello, ServerRogue, ConnectionLost, session, listener, rpcs,
                    server
<1> QED
  BY <1>4, <1>5, <1>6, <1>7, <1>8 DEF Next

LEMMA PendingStep ==
  ASSUME TypeOK, EngineInvariant, IdsUnique, RegisteredUntilAnswered,
         AnswersPending, [Next]_vars
  PROVE  AnswersPending'
<1> USE DEF Goto
<1>a. /\ SessionTypeOK /\ ListenerTypeOK /\ ThreadsTypeOK /\ RpcsTypeOK
      /\ ServerTypeOK /\ IssuersConsistent /\ TrafficConsistent
  BY DEF TypeOK, EngineInvariant
<1>1. ASSUME UNCHANGED <<net, event, rogue>>,
             run' \in {"select", "send"} => run \in {"select", "send"}
      PROVE  AnswersPending'
  BY <1>1 DEF AnswersPending
<1>2. CASE run' \notin {"select", "send"} \/ rogue' # 0
  BY <1>2 DEF AnswersPending
\* The first message is taken from the network, and completes at most its own
\* RPC.
<1>3. ASSUME net # <<>>, net' = Tail(net), rogue' = rogue,
             run \in {"select", "send"}, Head(net).kind = "reply",
             \A o \in Rpcs : o # Head(net).rpc => event'[o] = event[o]
      PROVE  AnswersPending'
  <2>honest. SUFFICES ASSUME rogue = 0
                      PROVE  AnswersPending'
    BY <1>3 DEF AnswersPending
  <2>shifted. /\ Head(net) = net[1] /\ 1 \in 1..Len(net)
              /\ \A i \in 1..Len(net') : net'[i] = net[i + 1] /\ i + 1 \in 1..Len(net) /\ i + 1 # 1
    BY <1>a, <1>3 DEF ServerTypeOK
  <2>distinct. \A i, k \in 1..Len(net) : net[i].kind = "reply" /\ net[k].kind = "reply" =>
                 /\ event[net[i].rpc] = "unset"
                 /\ net[i].rpc = net[k].rpc => i = k
    BY <1>3, <2>honest DEF AnswersPending
  <2>known. \A i \in 1..Len(net) : net[i].kind = "reply" => net[i].rpc \in Rpcs
    BY <1>a DEF TrafficConsistent, ServerTypeOK
  <2>two. ASSUME NEW i \in 1..Len(net'), NEW k \in 1..Len(net'),
                 net'[i].kind = "reply", net'[k].kind = "reply"
          PROVE  /\ event'[net'[i].rpc] = "unset"
                 /\ net'[i].rpc = net'[k].rpc => i = k
    <3>1. /\ net'[i] = net[i + 1] /\ i + 1 \in 1..Len(net) /\ i + 1 # 1
          /\ net'[k] = net[k + 1] /\ k + 1 \in 1..Len(net)
          /\ i \in Int /\ k \in Int
      BY <2>shifted
    <3>2. net[i + 1].rpc # net[1].rpc /\ net[i + 1].rpc \in Rpcs
      BY <1>3, <2>shifted, <2>distinct, <2>known, <2>two, <3>1
    <3>3. event'[net[i + 1].rpc] = "unset"
      BY <1>3, <2>shifted, <2>distinct, <2>two, <3>1, <3>2
    <3>4. net[i + 1].rpc = net[k + 1].rpc => i + 1 = k + 1
      BY <2>distinct, <2>two, <3>1
    <3> QED
      BY <3>1, <3>3, <3>4
  <2> QED
    BY <2>two DEF AnswersPending
\* A message that is no reply leaves the network.
<1>4. ASSUME net # <<>>, net' = Tail(net), UNCHANGED <<event, rogue>>,
             run \in {"select", "send"}
      PROVE  AnswersPending'
  <2>1. \A i \in 1..Len(net') : net'[i] = net[i + 1] /\ i + 1 \in 1..Len(net) /\ i \in Int
    BY <1>a, <1>4 DEF ServerTypeOK
  <2> QED
    BY <1>4, <2>1 DEF AnswersPending
\* A message enters the network.
<1>5. ASSUME NEW m, net' = Append(net, m), UNCHANGED <<event, run, rogue>>,
             m.kind = "reply" => m.rpc \in Rpcs \ answered /\ event[m.rpc] \in {"unset", "set"}
      PROVE  AnswersPending'
  <2>1. /\ Len(net') = Len(net) + 1 /\ net'[Len(net) + 1] = m
        /\ \A i \in 1..Len(net) : net'[i] = net[i]
        /\ \A i \in 1..Len(net') : i \in 1..Len(net) \/ i = Len(net) + 1
    BY <1>a, <1>5 DEF ServerTypeOK
  <2>2. \A i \in 1..Len(net) : net[i].kind = "reply" => net[i].rpc \in answered
    BY <1>a DEF TrafficConsistent
  <2>3. m.kind = "reply" /\ run \in {"select", "send"} => event[m.rpc] = "unset"
    BY <1>5 DEF RegisteredUntilAnswered
  <2> QED
    BY <1>5, <2>1, <2>2, <2>3 DEF AnswersPending
<1>6. CASE ReadReply
  <2>1. id2rpc[Head(net).id] = Head(net).rpc
    BY <1>6, ReplyFindsItsOwn
  <2>2. \A o \in Rpcs : o # Head(net).rpc => event'[o] = event[o]
    BY <1>a, <1>6, <2>1 DEF ReadReply, RpcsTypeOK
  <2> QED
    BY <1>3, <1>6, <2>2 DEF ReadReply
<1>7. CASE ReadHello \/ ReadIgnored
  BY <1>4, <1>7 DEF ReadHello, ReadIgnored, rpcs
<1>8. ASSUME NEW t \in Threads, Issue(t) PROVE AnswersPending'
  <2>1. ASSUME UNCHANGED <<net, rogue, run>>,
               \A o \in Rpcs : event[o] \in {"unset", "set"} => event'[o] = event[o]
        PROVE  AnswersPending'
    BY <1>a, <2>1 DEF AnswersPending, TrafficConsistent, ServerTypeOK
  <2>2. CASE Register(t) \/ InitEvent(t)
    <3>1. \A o \in Rpcs : event[o] \in {"unset", "set"} => event'[o] = event[o]
      BY <1>a, <2>2 DEF Register, InitEvent, ThreadsTypeOK, IssuersConsistent, RpcsTypeOK
    <3> QED
      BY <2>1, <2>2, <3>1 DEF Register, InitEvent, session, server
  <2> QED
    BY <1>1, <1>8, <2>2
       DEF Issue, IncMsgId, TakeMsgId, CheckConnected, SendRaises, PutRpc,
           PutCloseSession, CloseTransport, Joined, session, rpcs, server
<1>9. ASSUME NEW o \in Rpcs, ServerReply(o) PROVE AnswersPending'
  <2> DEFINE m == [kind |-> "reply", id |-> rid[o], rpc |-> o]
  <2>1. o \notin answered /\ event[o] \in {"unset", "set"}
    BY <1>a, <1>9 DEF ServerReply, Sent, TrafficConsistent
  <2>2. net' = Append(net, m) /\ UNCHANGED <<event, run, rogue>>
    BY <1>9 DEF ServerReply, Deliver, session, rpcs
  <2>3. m.rpc = o
    OBVIOUS
  <2> HIDE DEF m
  <2> QED
    BY <1>5, <2>1, <2>2, <2>3
<1>10. CASE ServerHello
  <2>1. \E m : net' = Append(net, m) /\ m.kind # "reply"
    BY <1>10 DEF ServerHello, Deliver
  <2> QED
    BY <1>5, <1>10, <2>1 DEF ServerHello, session, rpcs
<1>11. CASE ServerRogue
  BY <1>a, <1>2, <1>11 DEF ServerRogue, ServerTypeOK
<1>12. CASE ErrbackDeliver
  BY <1>2, <1>12 DEF ErrbackDeliver, session
<1>13. CASE SessionThread
  BY <1>1, <1>2, <1>6, <1>7, <1>12, <1>13
     DEF SessionThread, Errback, ErrbackEnds, ErrbackClear,
         SelfClose, Read, Tick, ReadFails, ReadEofClosing,
         ReadEofLost, NothingToSend, Transmit, TransmitFails, DispatchError,
         session, rpcs, server
<1>14. CASE Connecting \/ UNCHANGED vars \/ ConnectionLost
  BY <1>1, <1>14 DEF Connecting, ConnectOk, ConnectFails, ConnectJoined, vars,
                    ConnectionLost, session, rpcs, server
<1>15. CASE (\E t \in Threads : Begin(t)) \/ \E p \in Rpcs : WaitReturns(p) \/ WaitGivesUp(p)
  BY <1>1, <1>15 DEF Begin, WaitReturns, WaitGivesUp, session, rpcs, server
<1> QED
  BY <1>8, <1>9, <1>10, <1>11, <1>13, <1>14, <1>15 DEF Next

LEMMA ErrorStep ==
  ASSUME TypeOK, EngineInvariant, IdsUnique, RegisteredUntilAnswered,
         ErrorOnItsWay, [Next]_vars
  PROVE  ErrorOnItsWay'
<1> USE DEF Goto
<1>a. /\ SessionTypeOK /\ ListenerTypeOK /\ ThreadsTypeOK /\ RpcsTypeOK
      /\ IssuersConsistent /\ RpcsConsistent /\ TableConsistent
  BY DEF TypeOK, EngineInvariant
<1>1. CASE UNCHANGED <<rid, event, left, id2rpc, run, disturbed>>
  BY <1>1 DEF ErrorOnItsWay
<1>2. CASE run' \in {"select", "send", "done"} \/ disturbed'
  BY <1>2 DEF ErrorOnItsWay
<1>3. ASSUME run \in {"select", "send"}, run' = "errback", left' = DOMAIN id2rpc,
             UNCHANGED <<rid, event, id2rpc>>
      PROVE  ErrorOnItsWay'
  BY <1>3 DEF ErrorOnItsWay, RegisteredUntilAnswered
<1>4. CASE ReadFails \/ ReadEofLost \/ TransmitFails
  BY <1>3, <1>4 DEF ReadFails, ReadEofLost, TransmitFails, DispatchError, rpcs
<1>5. CASE ErrbackDeliver
  <2>1. PICK i \in left : /\ event' = [event EXCEPT ![id2rpc[i]] = "set"]
                          /\ left' = left \ {i}
    BY <1>5 DEF ErrbackDeliver
  <2>2. /\ i \in DOMAIN id2rpc /\ run = "errback"
        /\ UNCHANGED <<id2rpc, rid, run, disturbed>>
    BY <1>a, <1>5 DEF ErrbackDeliver, ListenerTypeOK, session
  <2> DEFINE o == id2rpc[i]
  <2>3. o \in Rpcs /\ event'[o] = "set" /\ \A p \in Rpcs : p # o => event'[p] = event[p]
    BY <1>a, <2>1, <2>2 DEF ListenerTypeOK, RpcsTypeOK
  <2> QED
    BY <2>1, <2>2, <2>3 DEF ErrorOnItsWay
<1>6. CASE ErrbackEnds
  BY <1>6 DEF ErrbackEnds, ErrorOnItsWay, rpcs, listener
<1>7. CASE ErrbackClear \/ SelfClose
  BY <1>7 DEF ErrbackClear, SelfClose, ErrorOnItsWay, rpcs, listener
<1>8. ASSUME NEW t \in Threads, Issue(t) PROVE ErrorOnItsWay'
  <2>1. CASE TakeMsgId(t)
    <3>1. cur[t] \in Rpcs /\ event[cur[t]] = "none"
      BY <1>a, <2>1 DEF TakeMsgId, ThreadsTypeOK, IssuersConsistent
    <3>2. /\ rid' = [rid EXCEPT ![cur[t]] = msg_id]
          /\ UNCHANGED <<id2rpc, event, run, left, disturbed>>
      BY <2>1 DEF TakeMsgId, session, listener
    <3> QED
      BY <1>a, <3>1, <3>2 DEF ErrorOnItsWay, RpcsTypeOK
  <2>2. CASE Register(t)
    <3>1. run' = run /\ disturbed' = (disturbed \/ Failing \/ Dead)
      BY <2>2 DEF Register, session
    <3>2. CASE Failing \/ Dead
      BY <1>2, <3>1, <3>2
    <3>3. CASE run \in {"select", "send"}
      BY <1>2, <3>1, <3>3
    <3> QED
      BY <1>a, <3>2, <3>3 DEF Failing, Dead, SessionTypeOK
  <2>3. CASE InitEvent(t)
    <3>1. cur[t] \in Rpcs /\ event[cur[t]] = "absent"
      BY <1>a, <2>3 DEF InitEvent, ThreadsTypeOK, IssuersConsistent
    <3>2. /\ event' = [event EXCEPT ![cur[t]] = "unset"]
          /\ UNCHANGED <<id2rpc, rid, run, left, disturbed>>
      BY <2>3 DEF InitEvent, session, listener
    <3> QED
      BY <1>a, <3>1, <3>2 DEF ErrorOnItsWay, RpcsTypeOK
  <2> QED
    BY <1>1, <1>8, <2>1, <2>2, <2>3
       DEF Issue, IncMsgId, CheckConnected, SendRaises, PutRpc, PutCloseSession,
           CloseTransport, Joined, session, listener, rpcs
<1>9. CASE SessionThread
  BY <1>2, <1>4, <1>5, <1>6, <1>7, <1>9
     DEF SessionThread, Errback, Read, Tick, ReadHello, ReadIgnored, ReadReply,
         ReadEofClosing, NothingToSend, Transmit
<1>10. CASE Connecting \/ UNCHANGED vars \/ \E t \in Threads : Begin(t)
  BY <1>1, <1>10 DEF Connecting, ConnectOk, ConnectFails, ConnectJoined, Begin, vars,
                    session, listener, rpcs
<1>11. CASE \E p \in Rpcs : WaitReturns(p) \/ WaitGivesUp(p) \/ ServerReply(p)
  BY <1>1, <1>11 DEF WaitReturns, WaitGivesUp, ServerReply, session, listener, rpcs
<1>12. CASE ServerHello \/ ServerRogue \/ ConnectionLost
  BY <1>1, <1>12 DEF ServerHello, ServerRogue, ConnectionLost, session, listener, rpcs
<1> QED
  BY <1>8, <1>9, <1>10, <1>11, <1>12 DEF Next

LEMMA OneIssuerInit ==
  Init => RegisteredUntilAnswered /\ AnswersPending /\ ErrorOnItsWay
BY DEF Init, RegisteredUntilAnswered, AnswersPending, ErrorOnItsWay

LEMMA OneIssuerCorrect ==
  ASSUME SingleIssuer
  PROVE  Spec => [](RegisteredUntilAnswered /\ AnswersPending /\ ErrorOnItsWay)
<1>1. /\ TypeOK /\ EngineInvariant /\ IdsUnique
      /\ RegisteredUntilAnswered /\ AnswersPending /\ ErrorOnItsWay
      /\ [Next]_vars
      => (RegisteredUntilAnswered /\ AnswersPending /\ ErrorOnItsWay)'
  BY RegisteredStep, PendingStep, ErrorStep
<1> QED
  BY <1>1, OneIssuerInit, IdsCorrect, EngineCorrect, TypeCorrect, PTL DEF Spec

\* With one issuing thread every answer of an honest server finds its own RPC
\* registered and waiting while the main loop runs (AnswerFindsItsRpc of
\* NcSession): no answer, however late, makes RPCReplyListener.callback raise.
THEOREM AnswersFindTheirRpcs == ASSUME SingleIssuer PROVE Spec => []AnswerFindsItsRpc
<1>1. /\ TypeOK /\ EngineInvariant /\ RegisteredUntilAnswered /\ AnswersPending
      => AnswerFindsItsRpc
  <2> SUFFICES ASSUME TypeOK, EngineInvariant, RegisteredUntilAnswered, AnswersPending,
                      rogue = 0, run \in {"select", "send"},
                      NEW i \in 1..Len(net), net[i].kind = "reply"
               PROVE  /\ net[i].id \in DOMAIN id2rpc
                      /\ id2rpc[net[i].id] = net[i].rpc
                      /\ event[net[i].rpc] = "unset"
    BY DEF AnswerFindsItsRpc
  <2>1. event[net[i].rpc] = "unset"
    BY DEF AnswersPending
  <2>2. net[i].rpc \in Rpcs /\ net[i].id = rid[net[i].rpc]
    BY DEF EngineInvariant, TrafficConsistent, TypeOK, ServerTypeOK
  <2> QED
    BY <2>1, <2>2 DEF RegisteredUntilAnswered
<1> QED
  BY <1>1, OneIssuerCorrect, EngineCorrect, TypeCorrect, PTL

\* With one issuing thread the error that ends the session reaches every RPC
\* that was built (UndisturbedErrorReachesAll of NcSession), unless one was
\* being built while errback ran.
THEOREM ErrorReachesTheBuilt == ASSUME SingleIssuer PROVE Spec => []UndisturbedErrorReachesAll
<1>1. ErrorOnItsWay => UndisturbedErrorReachesAll
  BY DEF ErrorOnItsWay, UndisturbedErrorReachesAll
<1> QED
  BY <1>1, OneIssuerCorrect, PTL

-----------------------------------------------------------------------------
(* The engine implements RpcService                                         *)

LEMMA ServiceInit == Init => Service!Init
BY DEF Init, Service!Init, RpcState, Broken, Failing

\* Every step of the engine is a step of RpcService or leaves it alone.
LEMMA ServiceStep ==
  ASSUME SingleIssuer, TypeOK, EngineInvariant, IdsUnique, [Next]_vars
  PROVE  [Service!Next]_Service!vars
<1> USE DEF Goto
<1>a. /\ SessionTypeOK /\ ListenerTypeOK /\ ThreadsTypeOK /\ RpcsTypeOK
      /\ ServerTypeOK /\ IssuersConsistent /\ RpcsConsistent /\ TableConsistent
      /\ TrafficConsistent
  BY DEF TypeOK, EngineInvariant
<1>1. CASE UNCHANGED <<event, error, answered>> /\ Broken' = Broken
  BY <1>1 DEF Service!vars, RpcState
<1>2. ASSUME UNCHANGED <<event, error, answered>>, ~Broken, Broken'
      PROVE  Service!Next
  BY <1>2 DEF Service!Next, Service!Break, RpcState
<1>3. CASE ReadReply
  <2> DEFINE o == Head(net).rpc
  <2>1. o = id2rpc[Head(net).id] /\ o \in answered /\ event[o] = "unset" /\ o \in Rpcs
    BY <1>a, <1>3, ReplyFindsItsOwn DEF ServerTypeOK
  <2>2. /\ event' = [event EXCEPT ![o] = "set"] /\ UNCHANGED <<error, answered>>
        /\ run = "select" /\ run' = "send"
    BY <1>3, <2>1 DEF ReadReply
  <2>3. error[o] = FALSE
    BY <1>a, <2>1 DEF RpcsConsistent, RpcsTypeOK
  <2>4. /\ RpcState[o] = "open"
        /\ RpcState' = [RpcState EXCEPT ![o] = "replied"]
    BY <1>a, <2>1, <2>2, <2>3 DEF RpcState, RpcsTypeOK
  <2>5. Broken = FALSE /\ Broken' = FALSE
    BY <2>2 DEF Broken, Failing
  <2>6. Service!Reply(o)
    BY <2>1, <2>2, <2>4, <2>5 DEF Service!Reply
  <2> QED
    BY <2>1, <2>6 DEF Service!Next
<1>4. CASE ErrbackDeliver
  <2>1. PICK i \in left : /\ event[id2rpc[i]] # "absent"
                          /\ error' = [error EXCEPT ![id2rpc[i]] = TRUE]
                          /\ event' = [event EXCEPT ![id2rpc[i]] = "set"]
    BY <1>4 DEF ErrbackDeliver
  <2> DEFINE o == id2rpc[i]
  <2>2. i \in DOMAIN id2rpc /\ o \in Rpcs /\ event[o] = "unset"
    BY <1>a, <1>4, <2>1 DEF ErrbackDeliver, ListenerTypeOK, TableConsistent, RpcsTypeOK
  <2>3. RpcState[o] = "open" /\ RpcState' = [RpcState EXCEPT ![o] = "failed"]
    BY <1>a, <2>1, <2>2 DEF RpcState, RpcsTypeOK
  <2>4. Broken /\ Broken' /\ UNCHANGED answered
    BY <1>4 DEF ErrbackDeliver, Broken, Failing, session, server
  <2> QED
    BY <2>2, <2>3, <2>4 DEF Service!Next, Service!Fail
<1>5. ASSUME NEW t \in Threads, Issue(t) PROVE [Service!Next]_Service!vars
  <2>1. CASE Register(t)
    <3>1. cur[t] \in Rpcs /\ event[cur[t]] = "none"
      BY <1>a, <2>1 DEF Register, ThreadsTypeOK, IssuersConsistent
    <3>2. /\ event' = [event EXCEPT ![cur[t]] = "absent"]
          /\ UNCHANGED <<error, answered, run>>
      BY <2>1 DEF Register, session, server
    <3>3. RpcState' = RpcState /\ Broken' = Broken
      BY <1>a, <3>1, <3>2 DEF RpcState, RpcsTypeOK, Broken, Failing
    <3> QED
      BY <3>2, <3>3 DEF Service!vars
  <2>2. CASE InitEvent(t)
    <3>1. cur[t] \in Rpcs /\ event[cur[t]] = "absent" /\ error[cur[t]] = FALSE
      BY <1>a, <2>2 DEF InitEvent, ThreadsTypeOK, IssuersConsistent, RpcsConsistent,
                        RpcsTypeOK
    <3>2. /\ event' = [event EXCEPT ![cur[t]] = "unset"]
          /\ error' = [error EXCEPT ![cur[t]] = FALSE]
          /\ UNCHANGED <<answered, run>>
      BY <2>2 DEF InitEvent, session, server
    <3>3. /\ RpcState[cur[t]] = "new"
          /\ RpcState' = [RpcState EXCEPT ![cur[t]] = "open"]
          /\ Broken' = Broken
      BY <1>a, <3>1, <3>2 DEF RpcState, RpcsTypeOK, Broken, Failing
    <3> QED
      BY <3>1, <3>2, <3>3 DEF Service!Next, Service!Open
  <2> QED
    BY <1>1, <1>5, <2>1, <2>2
       DEF Issue, IncMsgId, TakeMsgId, CheckConnected, SendRaises, PutRpc,
           PutCloseSession, CloseTransport, Joined, session, rpcs, server, Broken,
           Failing
<1>6. ASSUME NEW o \in Rpcs, ServerReply(o) PROVE Service!Next
  <2>1. PICK k \in 1..Len(sent) : sent[k].msg = o
    BY <1>6 DEF ServerReply, Sent
  <2>2. event[o] \in {"unset", "set"}
    BY <1>a, <2>1 DEF TrafficConsistent
  <2>3. /\ answered' = answered \cup {o} /\ o \notin answered
        /\ UNCHANGED <<event, error, run>>
    BY <1>6 DEF ServerReply, session, rpcs
  <2>4. RpcState[o] # "new" /\ RpcState' = RpcState /\ Broken' = Broken
    BY <2>2, <2>3 DEF RpcState, Broken, Failing
  <2> QED
    BY <2>3, <2>4 DEF Service!Next, Service!Hear
<1>7. CASE ReadFails \/ ReadEofLost \/ TransmitFails
  <2>1. ~Broken /\ Broken'
    BY <1>7 DEF ReadFails, ReadEofLost, TransmitFails, DispatchError, Broken, Failing
  <2>2. UNCHANGED <<event, error, answered>>
    BY <1>7 DEF ReadFails, ReadEofLost, TransmitFails, rpcs, server
  <2> QED
    BY <1>2, <2>1, <2>2
<1>8. CASE SessionThread
  BY <1>1, <1>3, <1>4, <1>7, <1>8
     DEF SessionThread, Errback, ErrbackEnds, ErrbackClear, SelfClose, Read, Tick,
         ReadHello, ReadIgnored, ReadEofClosing, NothingToSend, Transmit, rpcs,
         server, session, Broken, Failing
<1>9. CASE Connecting \/ UNCHANGED vars \/ \E t \in Threads : Begin(t)
  BY <1>1, <1>9 DEF Connecting, ConnectOk, ConnectFails, ConnectJoined, Begin, vars,
                    rpcs, server, session, Broken, Failing
<1>10. CASE \E p \in Rpcs : WaitReturns(p) \/ WaitGivesUp(p)
  BY <1>1, <1>10 DEF WaitReturns, WaitGivesUp, server, session, Broken, Failing
<1>11. CASE ServerHello \/ ServerRogue \/ ConnectionLost
  BY <1>1, <1>11 DEF ServerHello, ServerRogue, ConnectionLost, rpcs, server, session,
                     Broken, Failing
<1> QED
  BY <1>5, <1>6, <1>8, <1>9, <1>10, <1>11 DEF Next

\* With one issuing thread the engine implements RpcService: an RPC is
\* completed at most once, by the server's answer to it or, if the session broke
\* down, by an error (RefinesService of NcSession).
THEOREM EngineImplementsService == ASSUME SingleIssuer PROVE Spec => RefinesService
<1>1. TypeOK /\ EngineInvariant /\ IdsUnique /\ [Next]_vars
        => [Service!Next]_Service!vars
  BY ServiceStep
<1> QED
  BY <1>1, ServiceInit, IdsCorrect, EngineCorrect, TypeCorrect, PTL
     DEF Spec, RefinesService, Service!Spec
=============================================================================
