-------------------------- MODULE NetconfTabProofs --------------------------
(* Theorems about a session tab: its connection and its requests, for every  *)
(* number of them (NetconfTab), and its lists, for every number of rows and  *)
(* every cap on the history (SessionLists).                                  *)
EXTENDS NetconfTab, SessionLists, FiniteSetTheorems, SequenceTheorems, TLAPS

-----------------------------------------------------------------------------
(* The stack of requests                                                    *)

\* Whatever happens to the session of the requests in progress, they are the
\* same in number and stay requests.
LEMMA OrphanedType ==
  ASSUME NEW s \in Seq(Requests), NEW r \in Orphaned(s)
  PROVE  r \in Seq(Requests) /\ Len(r) = Len(s)
<1> DEFINE Waiting == {i \in 1..Len(s) : s[i].live /\ s[i].reply = "pending"}
           Lost(F) == [i \in 1..Len(s) |->
                         [s[i] EXCEPT !.live = FALSE,
                                      !.reply = IF i \in F THEN "failed" ELSE @]]
<1>1. PICK F \in SUBSET Waiting : r = Lost(F)
  BY DEF Orphaned
<1>2. \A i \in 1..Len(s) : Lost(F)[i] \in Requests
  <2> SUFFICES ASSUME NEW i \in 1..Len(s) PROVE Lost(F)[i] \in Requests
    OBVIOUS
  <2>1. s[i] \in Requests
    BY ElementOfSeq
  <2> QED
    BY <2>1 DEF Requests
<1>3. Len(s) \in Nat
  OBVIOUS
<1> HIDE DEF Lost
<1>4. DOMAIN r = 1..Len(s)
  BY <1>1 DEF Lost
<1>5. r \in [1..Len(s) -> Requests]
  BY <1>1, <1>2 DEF Lost
<1> QED
  BY <1>3, <1>4, <1>5

LEMMA StackFollows ==
  ASSUME stack \in Seq(Requests), RequestsFollowSession
  PROVE  stack' \in Seq(Requests) /\ Len(stack') = Len(stack)
BY OrphanedType DEF RequestsFollowSession

LEMMA SameLength ==
  ASSUME stack \in Seq(Requests), stack' \in Seq(Requests), Len(stack') = Len(stack)
  PROVE  stack' = <<>> <=> stack = <<>>
BY EmptySeq

LEMMA AppendIsNotEmpty ==
  ASSUME NEW s \in Seq(Requests), NEW r
  PROVE  Append(s, r) # <<>>
<1>1. Len(Append(s, r)) = Len(s) + 1 /\ Len(s) \in Nat
  OBVIOUS
<1> QED
  BY <1>1

LEMMA ChangedIsNotEmpty ==
  ASSUME NEW s \in Seq(Requests), NEW i \in 1..Len(s), NEW e
  PROVE  [s EXCEPT ![i] = e] # <<>>
<1>1. DOMAIN [s EXCEPT ![i] = e] = 1..Len(s)
  OBVIOUS
<1>2. DOMAIN <<>> = {}
  OBVIOUS
<1> QED
  BY <1>1, <1>2

LEMMA PopType ==
  ASSUME stack \in Seq(Requests), stack # <<>>
  PROVE  Pop \in Seq(Requests) /\ Top \in Requests
<1>1. Len(stack) \in Nat \ {0}
  BY EmptySeq
<1>2. stack[Len(stack)] \in Requests
  BY <1>1, ElementOfSeq
<1>3. SubSeq(stack, 1, Len(stack) - 1) \in Seq(Requests)
  BY <1>1
<1> QED
  BY <1>2, <1>3 DEF Pop, Top

-----------------------------------------------------------------------------
(* Type correctness                                                         *)

LEMMA TabInitType == Init => TypeOK
<1>1. <<>> \in Seq(Signals) /\ <<>> \in Seq(Requests)
  BY EmptySeq
<1>2. 0 \in 0..MaxConnects /\ 0 \in 0..MaxSends
  BY TabAssumption
<1> QED
  BY <1>1, <1>2 DEF Init, NccProxyInit, TypeOK, NccProxyTypeOK

LEMMA SetConnectStateType ==
  ASSUME is_connected \in BOOLEAN, signals \in Seq(Signals),
         NEW s \in BOOLEAN, SetConnectState(s)
  PROVE  is_connected' \in BOOLEAN /\ signals' \in Seq(Signals)
<1>1. Append(signals, IF s THEN "connected" ELSE "disconnected") \in Seq(Signals)
  BY DEF Signals
<1> QED
  BY <1>1 DEF SetConnectState

LEMMA ErrorSignalled == signals \in Seq(Signals) => Append(signals, "error") \in Seq(Signals)
BY DEF Signals

LEMMA SignalHandled ==
  ASSUME signals \in Seq(Signals), signals # <<>>
  PROVE  Tail(signals) \in Seq(Signals)
OBVIOUS

LEMMA ProxyThreadType ==
  ASSUME NccProxyTypeOK, ProxyThread
  PROVE  NccProxyTypeOK'
<1> USE DEF NccProxyTypeOK
<1>1. CASE Loop
  BY <1>1 DEF Loop
<1>2. CASE WakesConnected
  BY <1>2, SetConnectStateType DEF WakesConnected
<1>3. CASE Wakes
  BY <1>3 DEF Wakes
<1>4. CASE ConnectSucceeds
  BY <1>4 DEF ConnectSucceeds
<1>5. CASE ConnectedReported
  BY <1>5, SetConnectStateType DEF ConnectedReported
<1>6. CASE ConnectFails
  BY <1>6 DEF ConnectFails
<1>7. CASE FailureReported
  <2>1. /\ <<"error">> \in Seq(Signals)
        /\ (IF is_connected THEN <<"disconnected">> ELSE <<>>) \in Seq(Signals)
    BY DEF Signals
  <2>2. signals' \in Seq(Signals)
    BY <1>7, <2>1 DEF FailureReported
  <2> QED
    BY <1>7, <2>2 DEF FailureReported
<1>8. CASE PollConnected
  BY <1>8 DEF PollConnected
<1>9. CASE PollLost
  BY <1>9, SetConnectStateType DEF PollLost
<1>10. CASE LostClears
  BY <1>10 DEF LostClears
<1>11. CASE LostDrops
  BY <1>11 DEF LostDrops
<1>12. CASE Dies
  BY <1>12, ErrorSignalled DEF Dies
<1>13. CASE EndChecks
  BY <1>13 DEF EndChecks
<1>14. CASE EndCloses
  BY <1>14 DEF EndCloses
<1>15. CASE Ended
  BY <1>15, SetConnectStateType DEF Ended
<1> QED
  BY <1>1, <1>2, <1>3, <1>4, <1>5, <1>6, <1>7, <1>8, <1>9, <1>10, <1>11, <1>12,
     <1>13, <1>14, <1>15 DEF ProxyThread

LEMMA TabNextType == TypeOK /\ [Next]_vars => TypeOK'
<1> SUFFICES ASSUME TypeOK, [Next]_vars PROVE TypeOK'
  OBVIOUS
<1> USE DEF TypeOK
<1>0. CASE UNCHANGED vars
  BY <1>0 DEF vars, proxy, tab, NccProxyTypeOK
<1>1. CASE ProxyStep
  BY <1>1, ProxyThreadType, StackFollows DEF ProxyStep
<1>2. CASE SessionLostStep
  BY <1>2, StackFollows DEF SessionLostStep, SessionLost, NccProxyTypeOK
<1>3. CASE ShowConnected
  BY <1>3, SignalHandled DEF ShowConnected, NccProxyTypeOK
<1>4. CASE ShowDisconnected
  <2>1. signals' \in Seq(Signals)
    BY <1>4, SignalHandled DEF ShowDisconnected, NccProxyTypeOK
  <2>2. NccProxyTypeOK'
    BY <1>4, <2>1 DEF ShowDisconnected, NccProxyTypeOK
  <2>3. timer' \in BOOLEAN
    BY <1>4 DEF ShowDisconnected
  <2>4. shown' = FALSE /\ operable' = FALSE /\ abortEnabled' = FALSE /\ locked' = FALSE
    BY <1>4 DEF ShowDisconnected
  <2>5. UNCHANGED <<abort, stack, userDisconnet, closed, app, connects, sends>>
    BY <1>4 DEF ShowDisconnected
  <2> QED
    BY <2>2, <2>3, <2>4, <2>5
<1>5. CASE ShowError
  BY <1>5, SignalHandled DEF ShowError, NccProxyTypeOK, tab
<1>6. CASE UserConnect
  <2>1. NccProxyTypeOK'
    BY <1>6 DEF UserConnect, ConnectCalled, NccProxyTypeOK
  <2>2. connects' \in 0..MaxConnects
    BY <1>6, TabAssumption DEF UserConnect, ConnectCalled
  <2> QED
    BY <1>6, <2>1, <2>2 DEF UserConnect, ConnectCalled
<1>7. CASE OpenCallHome
  <2>1. NccProxyTypeOK'
    BY <1>7 DEF OpenCallHome, ConnectCalled, NccProxyTypeOK
  <2>2. connects' \in 0..MaxConnects
    BY <1>7, TabAssumption DEF OpenCallHome, ConnectCalled
  <2> QED
    BY <1>7, <2>1, <2>2 DEF OpenCallHome, ConnectCalled
<1>8. CASE Reconnect
  <2>1. NccProxyTypeOK'
    BY <1>8 DEF Reconnect, ConnectCalled, NccProxyTypeOK
  <2>2. connects' \in 0..MaxConnects
    BY <1>8, TabAssumption DEF Reconnect, ConnectCalled
  <2> QED
    BY <1>8, <2>1, <2>2 DEF Reconnect, ConnectCalled
<1>9. CASE Disconnect
  BY <1>9, StackFollows DEF Disconnect, NccProxyTypeOK
<1>10. CASE DisconnectRaises
  BY <1>10 DEF DisconnectRaises, NccProxyTypeOK, proxy
<1>11. CASE CloseTab
  <2>1. NccProxyTypeOK'
    BY <1>11 DEF CloseTab, NccProxyTypeOK
  <2> QED
    BY <1>11, <2>1 DEF CloseTab
<1>12. CASE Send
  <2>1. PICK what \in {"lock", "unlock", "other"} :
          stack' = Append(stack, [op |-> what, reply |-> "pending", live |-> TRUE,
                                  delay |-> TRUE])
    BY <1>12 DEF Send
  <2>2. stack' \in Seq(Requests)
    BY <2>1 DEF Requests
  <2> QED
    <3>1. NccProxyTypeOK'
      BY <1>12 DEF Send, NccProxyTypeOK, proxy
    <3>2. sends' \in 0..MaxSends
      BY <1>12, TabAssumption DEF Send
    <3> QED
      BY <1>12, <2>2, <3>1, <3>2 DEF Send
<1>13. CASE SendRaises
  BY <1>13 DEF SendRaises, NccProxyTypeOK, proxy
<1>14. CASE Abort
  BY <1>14 DEF Abort, NccProxyTypeOK, proxy
<1>15. CASE SendReturns
  <2>1. NccProxyTypeOK'
    BY <1>15 DEF SendReturns, NccProxyTypeOK, proxy
  <2>2. stack' \in Seq(Requests)
    BY <1>15, PopType DEF SendReturns
  <2> QED
    BY <1>15, <2>1, <2>2 DEF SendReturns
<1>16. CASE SendFails
  <2>1. NccProxyTypeOK'
    BY <1>16 DEF SendFails, NccProxyTypeOK, proxy
  <2>2. stack' \in Seq(Requests)
    BY <1>16, PopType DEF SendFails
  <2> QED
    BY <1>16, <2>1, <2>2 DEF SendFails
<1>17. ASSUME NEW i \in 1..Len(stack), Reply(i) PROVE TypeOK'
  <2>1. stack[i] \in Requests
    BY ElementOfSeq
  <2>2. [stack[i] EXCEPT !.reply = "replied"] \in Requests
    BY <2>1 DEF Requests
  <2>3. stack' = [stack EXCEPT ![i] = [stack[i] EXCEPT !.reply = "replied"]]
    BY <1>17 DEF Reply
  <2>4. stack' \in Seq(Requests)
    BY <2>2, <2>3, ExceptSeq
  <2> QED
    BY <1>17, <2>4 DEF Reply, NccProxyTypeOK, proxy
<1>18. ASSUME NEW i \in 1..Len(stack), DelayedControl(i) PROVE TypeOK'
  <2>1. stack[i] \in Requests
    BY ElementOfSeq
  <2>2. [stack[i] EXCEPT !.delay = FALSE] \in Requests
    BY <2>1 DEF Requests
  <2>3. stack' = [stack EXCEPT ![i] = [stack[i] EXCEPT !.delay = FALSE]]
    BY <1>18 DEF DelayedControl
  <2>4. stack' \in Seq(Requests)
    BY <2>2, <2>3, ExceptSeq
  <2> QED
    <3>1. NccProxyTypeOK'
      BY <1>18 DEF DelayedControl, NccProxyTypeOK, proxy
    <3> QED
      BY <1>18, <2>4, <3>1 DEF DelayedControl
<1> QED
  BY <1>0, <1>1, <1>2, <1>3, <1>4, <1>5, <1>6, <1>7, <1>8, <1>9, <1>10, <1>11,
     <1>12, <1>13, <1>14, <1>15, <1>16, <1>17, <1>18 DEF Next, Signal

\* Every variable of the tab and of its proxy keeps its type.
THEOREM TabTypeCorrect == Spec => []TypeOK
<1>1. Init => TypeOK
  BY TabInitType
<1>2. TypeOK /\ [Next]_vars => TypeOK'
  BY TabNextType
<1> QED
  BY <1>1, <1>2, PTL DEF Spec

-----------------------------------------------------------------------------
(* No session is left unattended                                            *)

LEMMA AttendedInit == Init => SessionsAttended
BY DEF Init, NccProxyInit, SessionsAttended

LEMMA AttendedByProxy ==
  ASSUME TypeOK, SessionsAttended, ProxyStep
  PROVE  SessionsAttended'
<1> USE DEF SessionsAttended, TypeOK
<1>0. closed' = closed /\ connects' = connects /\ ProxyThread
  BY DEF ProxyStep
<1>1. CASE Loop
  BY <1>0, <1>1 DEF Loop
<1>2. CASE WakesConnected
  BY <1>0, <1>2 DEF WakesConnected, SetConnectState
<1>3. CASE Wakes
  BY <1>0, <1>3 DEF Wakes
<1>4. CASE ConnectSucceeds
  BY <1>0, <1>4 DEF ConnectSucceeds
<1>5. CASE ConnectedReported
  BY <1>0, <1>5 DEF ConnectedReported, SetConnectState
<1>6. CASE ConnectFails
  BY <1>0, <1>6 DEF ConnectFails
<1>7. CASE FailureReported
  BY <1>0, <1>7 DEF FailureReported
<1>8. CASE PollConnected
  BY <1>0, <1>8 DEF PollConnected
<1>9. CASE PollLost
  BY <1>0, <1>9 DEF PollLost, SetConnectState
<1>10. CASE LostClears
  BY <1>0, <1>10 DEF LostClears
<1>11. CASE LostDrops
  BY <1>0, <1>11 DEF LostDrops
<1>12. CASE Dies
  BY <1>0, <1>12 DEF Dies
<1>13. CASE EndChecks
  BY <1>0, <1>13 DEF EndChecks
<1>14. CASE EndCloses
  BY <1>0, <1>14 DEF EndCloses
<1>15. CASE Ended
  BY <1>0, <1>15 DEF Ended, SetConnectState
<1> QED
  BY <1>0, <1>1, <1>2, <1>3, <1>4, <1>5, <1>6, <1>7,
     <1>8, <1>9, <1>10, <1>11, <1>12, <1>13, <1>14, <1>15 DEF ProxyThread

LEMMA AttendedStep == TypeOK /\ SessionsAttended /\ [Next]_vars => SessionsAttended'
<1> SUFFICES ASSUME TypeOK, SessionsAttended, [Next]_vars PROVE SessionsAttended'
  OBVIOUS
<1> USE DEF SessionsAttended
<1>0. CASE UNCHANGED vars
  BY <1>0 DEF vars, proxy, tab
<1>1. CASE ProxyStep
  BY <1>1, AttendedByProxy
<1>2. CASE SessionLostStep
  BY <1>2 DEF SessionLostStep, SessionLost
<1>3. CASE ShowConnected
  BY <1>3 DEF ShowConnected
<1>4. CASE ShowDisconnected
  BY <1>4 DEF ShowDisconnected
<1>5. CASE ShowError
  BY <1>5 DEF ShowError, tab
<1>6. CASE UserConnect
  <2>1. connects' > 0
    BY <1>6 DEF UserConnect, ConnectCalled, TypeOK
  <2> QED
    BY <1>6, <2>1 DEF UserConnect, ConnectCalled
<1>7. CASE OpenCallHome
  <2>1. connects' > 0
    BY <1>7 DEF OpenCallHome, ConnectCalled, TypeOK
  <2> QED
    BY <1>7, <2>1 DEF OpenCallHome, ConnectCalled
<1>8. CASE Reconnect
  <2>1. connects' > 0
    BY <1>8 DEF Reconnect, ConnectCalled, TypeOK
  <2> QED
    BY <1>8, <2>1 DEF Reconnect, ConnectCalled
<1>9. CASE Disconnect
  BY <1>9 DEF Disconnect
<1>10. CASE DisconnectRaises
  BY <1>10 DEF DisconnectRaises, proxy
<1>11. CASE CloseTab
  BY <1>11 DEF CloseTab
<1>12. CASE Send
  BY <1>12 DEF Send, proxy
<1>13. CASE SendRaises
  BY <1>13 DEF SendRaises, proxy
<1>14. CASE Abort
  BY <1>14 DEF Abort, proxy
<1>15. CASE SendReturns
  BY <1>15 DEF SendReturns, proxy
<1>16. CASE SendFails
  BY <1>16 DEF SendFails, proxy
<1>17. ASSUME NEW i \in 1..Len(stack), Reply(i) PROVE SessionsAttended'
  BY <1>17 DEF Reply, proxy
<1>18. ASSUME NEW i \in 1..Len(stack), DelayedControl(i) PROVE SessionsAttended'
  BY <1>18 DEF DelayedControl, proxy
<1> QED
  BY <1>0, <1>1, <1>2, <1>3, <1>4, <1>5, <1>6, <1>7, <1>8, <1>9, <1>10, <1>11,
     <1>12, <1>13, <1>14, <1>15, <1>16, <1>17, <1>18 DEF Next, Signal

\* A session that is up belongs to a thread that was told to connect and has
\* yet to look at it.
THEOREM SessionsStayAttended == Spec => []SessionsAttended
<1>1. Init => SessionsAttended
  BY AttendedInit
<1>2. TypeOK /\ SessionsAttended /\ [Next]_vars => SessionsAttended'
  BY AttendedStep
<1> QED
  BY <1>1, <1>2, TabTypeCorrect, PTL DEF Spec

\* A proxy thread that ended, or that sleeps until connect() is called, has no
\* session that is up.
THEOREM NoSessionLeft == Spec => []NoSessionUnattended
<1>1. SessionsAttended => NoSessionUnattended
  BY DEF SessionsAttended, NoSessionUnattended
<1> QED
  BY <1>1, SessionsStayAttended, PTL

-----------------------------------------------------------------------------
(* The controls are given back                                              *)

LEMMA IdleStep == TypeOK /\ IdleTabOperable /\ [Next]_vars => IdleTabOperable'
<1> SUFFICES ASSUME TypeOK, IdleTabOperable, [Next]_vars PROVE IdleTabOperable'
  OBVIOUS
<1> USE DEF IdleTabOperable
<1>a. stack \in Seq(Requests)
  BY DEF TypeOK
<1>b. ASSUME RequestsFollowSession PROVE stack' = <<>> <=> stack = <<>>
  BY <1>a, <1>b, StackFollows, SameLength
<1>0. CASE UNCHANGED vars
  BY <1>0 DEF vars, tab
<1>1. CASE ProxyStep
  BY <1>1, <1>b DEF ProxyStep
<1>2. CASE SessionLostStep
  BY <1>2, <1>b DEF SessionLostStep
<1>3. CASE ShowConnected
  BY <1>3 DEF ShowConnected
<1>4. CASE ShowDisconnected
  BY <1>4 DEF ShowDisconnected
<1>5. CASE ShowError
  BY <1>5 DEF ShowError, tab
<1>6. CASE UserConnect
  BY <1>6 DEF UserConnect, ConnectCalled
<1>7. CASE OpenCallHome
  BY <1>7 DEF OpenCallHome, ConnectCalled
<1>8. CASE Reconnect
  BY <1>8 DEF Reconnect, ConnectCalled
<1>9. CASE Disconnect
  BY <1>9, <1>b DEF Disconnect
<1>10. CASE DisconnectRaises
  BY <1>10 DEF DisconnectRaises
<1>11. CASE CloseTab
  BY <1>11 DEF CloseTab
<1>12. CASE Send
  <2>1. PICK r : stack' = Append(stack, r)
    BY <1>12 DEF Send
  <2>2. stack' # <<>>
    BY <1>a, <2>1, AppendIsNotEmpty
  <2> QED
    BY <2>2
<1>13. CASE SendRaises
  BY <1>13 DEF SendRaises
<1>14. CASE Abort
  <2>1. abortEnabled
    BY <1>14 DEF Abort
  <2>2. stack # <<>>
    BY <2>1
  <2> QED
    BY <1>14, <2>2 DEF Abort
<1>15. CASE SendReturns
  BY <1>15 DEF SendReturns
<1>16. CASE SendFails
  BY <1>16 DEF SendFails
<1>17. ASSUME NEW i \in 1..Len(stack), Reply(i) PROVE IdleTabOperable'
  BY <1>a, <1>17, ChangedIsNotEmpty DEF Reply
<1>18. ASSUME NEW i \in 1..Len(stack), DelayedControl(i) PROVE IdleTabOperable'
  BY <1>a, <1>18, ChangedIsNotEmpty DEF DelayedControl
<1> QED
  BY <1>0, <1>1, <1>2, <1>3, <1>4, <1>5, <1>6, <1>7, <1>8, <1>9, <1>10, <1>11,
     <1>12, <1>13, <1>14, <1>15, <1>16, <1>17, <1>18 DEF Next, Signal

\* With no request in progress a connected tab can send and there is nothing
\* to abort.
THEOREM ControlsGivenBack == Spec => []IdleTabOperable
<1>1. Init => IdleTabOperable
  BY DEF Init, IdleTabOperable
<1>2. TypeOK /\ IdleTabOperable /\ [Next]_vars => IdleTabOperable'
  BY IdleStep
<1> QED
  BY <1>1, <1>2, TabTypeCorrect, PTL DEF Spec

-----------------------------------------------------------------------------
(* Least and greatest rows                                                  *)

LEMMA LessOnNat ==
  \E R : IsWellFoundedOn(R, Nat) /\ \A x, y \in Nat : y < x => <<y, x>> \in R
<1> DEFINE R == OpToRel(<, Nat)
<1>1. IsWellFoundedOn(R, Nat)
  BY NatLessThanWellFounded, Zenon
<1>2. \A x, y \in Nat : y < x => <<y, x>> \in R
  BY Zenon DEF OpToRel
<1> QED
  <2> HIDE DEF R
  <2> QED BY <1>1, <1>2

LEMMA Least ==
  ASSUME NEW S \in SUBSET Nat, S # {}
  PROVE  \E m \in S : \A i \in S : m <= i
<1>1. PICK R : IsWellFoundedOn(R, Nat) /\ \A x, y \in Nat : y < x => <<y, x>> \in R
  BY LessOnNat
<1>2. PICK m \in S : \A i \in S : ~(<<i, m>> \in R)
  BY <1>1, WFMin, Zenon
<1>3. \A i \in S : ~(i < m)
  BY <1>1, <1>2
<1> QED
  BY <1>3

LEMMA MinIs ==
  ASSUME NEW S \in SUBSET Nat, S # {}
  PROVE  Min(S) \in S /\ \A i \in S : Min(S) <= i
<1>1. \E m \in S : \A i \in S : m <= i
  BY Least
<1> QED
  BY <1>1 DEF Min

LEMMA MaxIs ==
  ASSUME NEW n \in Nat, NEW S \in SUBSET (0..n), S # {}
  PROVE  Max(S) \in S /\ \A i \in S : i <= Max(S)
<1> DEFINE T == {n - i : i \in S}
<1>0. \A i \in S : i \in Nat /\ i <= n
  OBVIOUS
<1>1. T \in SUBSET Nat /\ T # {}
  <2>1. \A i \in S : n - i \in Nat
    BY <1>0
  <2>2. \E i \in S : n - i \in T
    OBVIOUS
  <2> QED
    BY <2>1, <2>2
<1>2. PICK m \in T : \A j \in T : m <= j
  <2> HIDE DEF T
  <2> QED
    BY <1>1, Least
<1>3. PICK x \in S : m = n - x
  BY <1>2
<1>4. \A i \in S : n - i \in T
  OBVIOUS
<1>5. \A i \in S : x >= i
  <2> TAKE i \in S
  <2>1. n - x <= n - i
    BY <1>2, <1>3, <1>4
  <2>2. n \in Nat /\ x \in Nat /\ i \in Nat
    BY <1>0
  <2> QED
    BY <2>1, <2>2
<1>6. \E y \in S : \A i \in S : y >= i
  BY <1>5
<1>7. Max(S) \in S /\ \A i \in S : Max(S) >= i
  BY <1>6 DEF Max
<1> QED
  BY <1>7

-----------------------------------------------------------------------------
(* What the operations of a table keep                                      *)

\* A preview that is visible shows the current row.
Showing(t, seen) == seen /\ t.cur # 0 => t.preview = t.cur

LEMMA LinesIn ==
  ASSUME NEW n \in Nat, NEW t \in Tables(n), t.hits \subseteq t.rows
  PROVE  Lines(t) \subseteq t.rows /\ Lines(t) \in SUBSET (1..n) /\ 0 \notin Lines(t)
BY DEF Lines, Tables

\* A row of the view becomes current, or none.
LEMMA MovedSound ==
  ASSUME NEW n \in Nat, NEW t, Sound(t, n), NEW i \in Lines(t) \cup {0},
         NEW last \in BOOLEAN, NEW seen \in BOOLEAN
  PROVE  /\ Sound(Moved(t, i, last, seen), n) /\ Showing(Moved(t, i, last, seen), seen)
         /\ Lines(Moved(t, i, last, seen)) = Lines(t)
         /\ Moved(t, i, last, seen).cur = i /\ Moved(t, i, last, seen).sel = t.sel
         /\ Moved(t, i, last, seen).rows = t.rows /\ Moved(t, i, last, seen).hits = t.hits
         /\ Moved(t, i, last, seen).box = t.box /\ Moved(t, i, last, seen).text = t.text
         /\ Moved(t, i, last, seen).on = t.on
<1> DEFINE u == Moved(t, i, last, seen)
<1>1. t \in Tables(n) /\ i \in 0..n
  BY LinesIn DEF Sound
<1>2. u = [t EXCEPT !.cur = i, !.follow = last, !.timer = @ \/ ~last,
                    !.preview = IF i # 0 /\ seen THEN i ELSE @]
  BY DEF Moved
<1>3. (t.timer \/ ~last) \in BOOLEAN
  OBVIOUS
<1>4. (IF i # 0 /\ seen THEN i ELSE t.preview) \in 0..n
  BY <1>1 DEF Tables
<1>5. /\ u \in Tables(n)
      /\ u.cur = i /\ u.sel = t.sel /\ u.rows = t.rows /\ u.hits = t.hits
      /\ u.box = t.box /\ u.text = t.text /\ u.on = t.on
      /\ u.preview = IF i # 0 /\ seen THEN i ELSE t.preview
  BY <1>1, <1>2, <1>3, <1>4 DEF Tables
<1> HIDE DEF u
<1>6. Lines(u) = Lines(t)
  BY <1>5 DEF Lines
<1>7. Sound(u, n) /\ Showing(u, seen)
  BY <1>5, <1>6 DEF Sound, Showing
<1> QED
  BY <1>5, <1>6, <1>7 DEF u

LEMMA SelectedSound ==
  ASSUME NEW n \in Nat, NEW t, Sound(t, n), NEW S \in SUBSET Lines(t)
  PROVE  /\ Sound([t EXCEPT !.sel = S], n)
         /\ Lines([t EXCEPT !.sel = S]) = Lines(t)
         /\ [t EXCEPT !.sel = S].sel = S
         /\ [t EXCEPT !.sel = S].cur = t.cur /\ [t EXCEPT !.sel = S].preview = t.preview
         /\ [t EXCEPT !.sel = S].rows = t.rows /\ [t EXCEPT !.sel = S].hits = t.hits
         /\ [t EXCEPT !.sel = S].box = t.box /\ [t EXCEPT !.sel = S].text = t.text
         /\ [t EXCEPT !.sel = S].on = t.on
<1> DEFINE u == [t EXCEPT !.sel = S]
<1>1. t \in Tables(n) /\ S \in SUBSET (1..n)
  BY LinesIn DEF Sound
<1>2. /\ u \in Tables(n) /\ u.sel = S
      /\ u.cur = t.cur /\ u.preview = t.preview /\ u.rows = t.rows /\ u.hits = t.hits
      /\ u.box = t.box /\ u.text = t.text /\ u.on = t.on
  BY <1>1 DEF Tables
<1> HIDE DEF u
<1>3. Lines(u) = Lines(t)
  BY <1>2 DEF Lines
<1>4. Sound(u, n)
  BY <1>2, <1>3 DEF Sound
<1> QED
  BY <1>2, <1>3, <1>4 DEF u

LEMMA SetCurrentSound ==
  ASSUME NEW n \in Nat, NEW t, Sound(t, n), NEW i \in Lines(t), NEW seen \in BOOLEAN,
         Showing(t, seen)
  PROVE  /\ Sound(SetCurrent(t, i, seen), n) /\ Showing(SetCurrent(t, i, seen), seen)
         /\ Lines(SetCurrent(t, i, seen)) = Lines(t)
         /\ SetCurrent(t, i, seen).rows = t.rows
<1> DEFINE u == IF i = t.cur THEN t ELSE Moved(t, i, i = Newest(t), seen)
<1>1. /\ Sound(u, n) /\ Showing(u, seen) /\ Lines(u) = Lines(t) /\ u.rows = t.rows
  <2> DEFINE last == i = Newest(t)
  <2>1. last \in BOOLEAN /\ i \in Lines(t) \cup {0}
    OBVIOUS
  <2> HIDE DEF last
  <2>2. /\ Sound(Moved(t, i, last, seen), n) /\ Showing(Moved(t, i, last, seen), seen)
        /\ Lines(Moved(t, i, last, seen)) = Lines(t)
        /\ Moved(t, i, last, seen).rows = t.rows
    BY <2>1, MovedSound
  <2>3. u = IF i = t.cur THEN t ELSE Moved(t, i, last, seen)
    BY DEF last
  <2> QED
    BY <2>2, <2>3
<1>2. {i} \in SUBSET Lines(u)
  BY <1>1
<1>3. SetCurrent(t, i, seen) = [u EXCEPT !.sel = {i}]
  BY DEF SetCurrent
<1> HIDE DEF u
<1> DEFINE w == [u EXCEPT !.sel = {i}]
<1>4. /\ Sound(w, n) /\ Lines(w) = Lines(u) /\ w.rows = u.rows
      /\ w.cur = u.cur /\ w.preview = u.preview
  BY <1>1, <1>2, SelectedSound
<1> HIDE DEF w
<1>5. Showing(w, seen)
  BY <1>1, <1>4 DEF Showing
<1> QED
  BY <1>1, <1>3, <1>4, <1>5 DEF w

\* Neither the current row nor the selection of u is among the lines that t lost.
Spared(t, gone, u) ==
  u.cur \in (Lines(t) \ gone) \cup {0} /\ u.sel = t.sel \ gone

\* The view loses lines: neither the current row nor the selection is among them
\* any more.
LEMMA LosingSound ==
  ASSUME NEW n \in Nat, NEW t, Sound(t, n), NEW gone \in SUBSET Lines(t),
         NEW seen \in BOOLEAN, Showing(t, seen)
  PROVE  /\ Sound(Losing(t, gone, seen), n) /\ Showing(Losing(t, gone, seen), seen)
         /\ Spared(t, gone, Losing(t, gone, seen))
         /\ Losing(t, gone, seen).rows = t.rows /\ Losing(t, gone, seen).hits = t.hits
         /\ Losing(t, gone, seen).box = t.box /\ Losing(t, gone, seen).text = t.text
         /\ Losing(t, gone, seen).on = t.on
<1> DEFINE kept == Lines(t) \ gone
           above == {i \in kept : i < t.cur}
           u == IF t.cur \notin gone THEN t
                ELSE IF above # {} THEN Moved(t, Max(above), FALSE, seen)
                ELSE IF kept # {} THEN Moved(t, Min(kept), Cardinality(kept) = 1, seen)
                ELSE Moved(t, 0, FALSE, seen)
           w == [u EXCEPT !.sel = @ \ gone]
<1>0. Lines(t) \in SUBSET (1..n) /\ t.cur \in Lines(t) \cup {0} /\ t.sel \subseteq Lines(t)
  BY LinesIn DEF Sound
<1>1. above \in SUBSET (0..n) /\ above \subseteq kept /\ kept \in SUBSET Nat
      /\ kept \subseteq Lines(t)
  BY <1>0
<1>2. above # {} => Max(above) \in kept
  <2> HIDE DEF above, kept
  <2> QED
    BY <1>1, MaxIs
<1>3. kept # {} => Min(kept) \in kept
  <2> HIDE DEF above, kept
  <2> QED
    BY <1>1, MinIs
<1>4. /\ Sound(u, n) /\ Showing(u, seen) /\ Lines(u) = Lines(t)
      /\ u.cur \in kept \cup {0} /\ u.sel = t.sel
      /\ u.rows = t.rows /\ u.hits = t.hits
      /\ u.box = t.box /\ u.text = t.text /\ u.on = t.on
  <2> DEFINE P(x) == /\ Sound(x, n) /\ Showing(x, seen) /\ Lines(x) = Lines(t)
                     /\ x.cur \in kept \cup {0} /\ x.sel = t.sel
                     /\ x.rows = t.rows /\ x.hits = t.hits
                     /\ x.box = t.box /\ x.text = t.text /\ x.on = t.on
  <2>1. CASE t.cur \notin gone
    BY <1>0, <2>1
  <2>2. ASSUME NEW i \in kept \cup {0}, NEW last \in BOOLEAN
        PROVE  P(Moved(t, i, last, seen))
    <3>1. i \in Lines(t) \cup {0}
      BY <1>1
    <3> QED
      BY <3>1, MovedSound
  <2>3. /\ above # {} => P(Moved(t, Max(above), FALSE, seen))
        /\ kept # {} => P(Moved(t, Min(kept), Cardinality(kept) = 1, seen))
        /\ P(Moved(t, 0, FALSE, seen))
    <3> HIDE DEF P, above, kept
    <3> QED
      BY <1>2, <1>3, <2>2
  <2>4. CASE t.cur \in gone
    <3> HIDE DEF P, above, kept
    <3>1. P(u)
      BY <2>3, <2>4
    <3> QED
      BY <3>1 DEF P
  <2> QED
    BY <2>1, <2>4
<1>5. Losing(t, gone, seen) = w
  BY DEF Losing
<1>6. w = [u EXCEPT !.sel = u.sel \ gone]
  OBVIOUS
<1> HIDE DEF u, kept, w
<1>7. u.sel \ gone \in SUBSET Lines(u)
  BY <1>0, <1>4
<1>8. /\ Sound(w, n) /\ w.sel = u.sel \ gone
      /\ w.cur = u.cur /\ w.preview = u.preview /\ w.rows = u.rows /\ w.hits = u.hits
      /\ w.box = u.box /\ w.text = u.text /\ w.on = u.on
  BY <1>4, <1>6, <1>7, SelectedSound
<1>9. Showing(w, seen)
  BY <1>4, <1>8 DEF Showing
<1> QED
  BY <1>4, <1>5, <1>8, <1>9 DEF kept, Spared

\* A row comes in.
LEMMA AppendedSound ==
  ASSUME NEW n \in Nat, NEW t, Sound(t, n), NEW hit \in BOOLEAN, NEW seen \in BOOLEAN,
         Showing(t, seen)
  PROVE  /\ Sound(Appended(t, n + 1, hit, seen), n + 1)
         /\ Showing(Appended(t, n + 1, hit, seen), seen)
<1> DEFINE H == IF hit THEN t.hits \cup {n + 1} ELSE t.hits
           R == t.rows \cup {n + 1}
           u == [t EXCEPT !.rows = R, !.hits = H]
<1>1. t \in Tables(n) /\ t.hits \subseteq t.rows /\ n + 1 \in Nat
  BY DEF Sound
<1>2. 1..n \subseteq 1..(n + 1) /\ 0..n \subseteq 0..(n + 1) /\ n + 1 \in 1..(n + 1)
  OBVIOUS
<1>3. R \in SUBSET (1..(n + 1)) /\ H \in SUBSET (1..(n + 1)) /\ H \subseteq R
      /\ t.rows \subseteq R /\ t.hits \subseteq H
  BY <1>1, <1>2 DEF Tables
<1>4. u = [t EXCEPT !.rows = @ \cup {n + 1}, !.hits = IF hit THEN @ \cup {n + 1} ELSE @]
  OBVIOUS
<1> HIDE DEF R, H
<1>5. /\ u.rows = R /\ u.hits = H /\ u.cur = t.cur /\ u.sel = t.sel
      /\ u.preview = t.preview /\ u.box = t.box /\ u.text = t.text /\ u.on = t.on
  BY <1>1 DEF Tables
<1>6. u \in Tables(n + 1)
  <2>1. t.sel \in SUBSET (1..(n + 1)) /\ t.cur \in 0..(n + 1) /\ t.preview \in 0..(n + 1)
    BY <1>1, <1>2 DEF Tables
  <2> QED
    BY <1>1, <1>3, <2>1 DEF Tables
<1> HIDE DEF u
<1>7. Lines(t) \subseteq Lines(u)
  BY <1>3, <1>5 DEF Lines
<1>8. Sound(u, n + 1) /\ Showing(u, seen)
  BY <1>3, <1>5, <1>6, <1>7 DEF Sound, Showing
<1>9. Lines(u) # {} => Newest(u) \in Lines(u)
  <2>1. Lines(u) \in SUBSET (0..(n + 1))
    BY <1>1, <1>8, LinesIn DEF Sound
  <2> QED
    BY <1>1, <2>1, MaxIs DEF Newest
<1>10. CASE Lines(u) # {} /\ (u.follow \/ Cardinality(Lines(u)) = 1)
  <2>1. Appended(t, n + 1, hit, seen) = SetCurrent(u, Newest(u), seen)
    BY <1>4, <1>10 DEF Appended
  <2> QED
    BY <1>1, <1>8, <1>9, <1>10, <2>1, SetCurrentSound
<1>11. CASE ~(Lines(u) # {} /\ (u.follow \/ Cardinality(Lines(u)) = 1))
  <2>1. Appended(t, n + 1, hit, seen) = u
    BY <1>4, <1>11 DEF Appended
  <2> QED
    BY <1>8, <2>1
<1> QED
  BY <1>10, <1>11

\* Another row arrived in the other table.
LEMMA SoundLater ==
  ASSUME NEW n \in Nat, NEW t, Sound(t, n)
  PROVE  Sound(t, n + 1)
<1>1. t \in Tables(n) /\ 1..n \subseteq 1..(n + 1) /\ 0..n \subseteq 0..(n + 1)
  BY DEF Sound
<1>2. t \in Tables(n + 1)
  BY <1>1 DEF Tables
<1> QED
  BY <1>2 DEF Sound

\* The proxy filters or does not: what is left of the lines is displayed still.
LEMMA RefilteredSound ==
  ASSUME NEW n \in Nat, NEW t, Sound(t, n), NEW on \in BOOLEAN,
         NEW seen \in BOOLEAN, Showing(t, seen)
  PROVE  /\ Refiltered(t, on, seen) \in Tables(n) /\ Showing(Refiltered(t, on, seen), seen)
         /\ Refiltered(t, on, seen).hits \subseteq Refiltered(t, on, seen).rows
         /\ Refiltered(t, on, seen).cur \in Lines(Refiltered(t, on, seen)) \cup {0}
         /\ Refiltered(t, on, seen).sel \subseteq Lines(Refiltered(t, on, seen))
         /\ Refiltered(t, on, seen).on = on
         /\ Refiltered(t, on, seen).box = t.box /\ Refiltered(t, on, seen).text = t.text
         /\ Refiltered(t, on, seen).rows = t.rows
<1> DEFINE gone == IF on THEN Lines(t) \ t.hits ELSE {}
           u == Losing(t, gone, seen)
           w == [u EXCEPT !.on = on]
<1>1. gone \in SUBSET Lines(t)
  OBVIOUS
<1>2. t.hits \subseteq t.rows /\ Lines(t) \subseteq t.rows /\ t.sel \subseteq Lines(t)
  BY LinesIn DEF Sound
<1>3. Lines(t) \ gone \subseteq (IF on THEN t.hits ELSE t.rows) /\ t.sel \ gone \subseteq Lines(t) \ gone
  BY <1>2
<1> HIDE DEF gone
<1>4. /\ Sound(u, n) /\ Showing(u, seen) /\ u.cur \in (Lines(t) \ gone) \cup {0}
      /\ u.sel = t.sel \ gone /\ u.rows = t.rows /\ u.hits = t.hits
      /\ u.box = t.box /\ u.text = t.text
  <2>1. Sound(u, n) /\ Showing(u, seen)
    BY <1>1, LosingSound
  <2>2. Spared(t, gone, u)
    BY <1>1, LosingSound
  <2>3. u.rows = t.rows /\ u.hits = t.hits /\ u.box = t.box /\ u.text = t.text
    BY <1>1, LosingSound
  <2> QED
    BY <2>1, <2>2, <2>3 DEF Spared
<1>5. Refiltered(t, on, seen) = w
  BY DEF Refiltered, gone
<1> HIDE DEF u
<1>6. /\ w \in Tables(n) /\ w.on = on /\ w.cur = u.cur /\ w.sel = u.sel /\ w.rows = u.rows
      /\ w.hits = u.hits /\ w.box = u.box /\ w.text = u.text /\ w.preview = u.preview
  BY <1>4 DEF Sound, Tables
<1> HIDE DEF w
<1>7. Lines(w) = IF on THEN t.hits ELSE t.rows
  BY <1>4, <1>6 DEF Lines
<1>8. w.cur \in Lines(w) \cup {0} /\ w.sel \subseteq Lines(w)
  BY <1>3, <1>4, <1>6, <1>7
<1>9. Showing(w, seen)
  BY <1>4, <1>6 DEF Showing
<1> QED
  BY <1>2, <1>4, <1>5, <1>6, <1>8, <1>9

LEMMA BoxTurnedSound ==
  ASSUME NEW n \in Nat, NEW t, Sound(t, n), NEW seen \in BOOLEAN, Showing(t, seen)
  PROVE  /\ Sound(BoxTurned(t, seen), n) /\ Showing(BoxTurned(t, seen), seen)
         /\ BoxTurned(t, seen).rows = t.rows
<1> DEFINE on == ~t.box /\ t.text
           u == Refiltered(t, on, seen)
           w == [u EXCEPT !.box = ~u.box]
<1>1. on \in BOOLEAN
  OBVIOUS
<1> HIDE DEF on
<1>2. /\ u \in Tables(n) /\ Showing(u, seen) /\ u.hits \subseteq u.rows
      /\ u.cur \in Lines(u) \cup {0} /\ u.sel \subseteq Lines(u)
      /\ u.on = on /\ u.box = t.box /\ u.text = t.text /\ u.rows = t.rows
  BY <1>1, RefilteredSound
<1>4. BoxTurned(t, seen) = w
  BY DEF BoxTurned, on
<1> HIDE DEF u
<1>5. /\ w \in Tables(n) /\ w.on = on /\ w.cur = u.cur /\ w.sel = u.sel /\ w.rows = u.rows
      /\ w.hits = u.hits /\ w.box = ~u.box /\ w.text = u.text /\ w.preview = u.preview
  BY <1>2 DEF Tables
<1> HIDE DEF w
<1>6. Lines(w) = Lines(u)
  BY <1>2, <1>5 DEF Lines
<1>7. Sound(w, n)
  <2>1. on = (~t.box /\ t.text)
    BY DEF on
  <2>2. w.on = (w.box /\ w.text)
    BY <1>2, <1>5, <2>1
  <2> QED
    BY <1>2, <1>5, <1>6, <2>2 DEF Sound
<1> QED
  BY <1>2, <1>4, <1>5, <1>7 DEF Showing

LEMMA TextTurnedSound ==
  ASSUME NEW n \in Nat, NEW t, Sound(t, n), NEW seen \in BOOLEAN, Showing(t, seen)
  PROVE  /\ Sound(TextTurned(t, seen), n) /\ Showing(TextTurned(t, seen), seen)
         /\ TextTurned(t, seen).rows = t.rows
<1> DEFINE u == IF t.box THEN Refiltered(t, ~t.text, seen) ELSE t
           w == [u EXCEPT !.text = ~u.text]
<1>1. t \in Tables(n) /\ t.on = (t.box /\ t.text)
  BY DEF Sound
<1>2. /\ u \in Tables(n) /\ Showing(u, seen) /\ u.hits \subseteq u.rows
      /\ u.cur \in Lines(u) \cup {0} /\ u.sel \subseteq Lines(u)
      /\ u.on = (t.box /\ ~t.text) /\ u.box = t.box /\ u.text = t.text
      /\ u.rows = t.rows
  <2>1. CASE t.box
    <3> DEFINE on == ~t.text
    <3>1. on \in BOOLEAN /\ (t.box /\ ~t.text) = on
      BY <2>1
    <3>2. u = Refiltered(t, on, seen)
      BY <2>1
    <3> HIDE DEF on, u
    <3> QED
      BY <3>1, <3>2, RefilteredSound
  <2>2. CASE ~t.box
    <3>1. u = t /\ t.on = FALSE /\ (t.box /\ ~t.text) = FALSE
      BY <1>1, <2>2
    <3> HIDE DEF u
    <3> QED
      BY <3>1, <1>1 DEF Sound
  <2> QED
    BY <2>1, <2>2
<1>3. TextTurned(t, seen) = w
  BY DEF TextTurned
<1> HIDE DEF u
<1>4. /\ w \in Tables(n) /\ w.on = u.on /\ w.cur = u.cur /\ w.sel = u.sel /\ w.rows = u.rows
      /\ w.hits = u.hits /\ w.box = u.box /\ w.text = ~u.text /\ w.preview = u.preview
  BY <1>2 DEF Tables
<1> HIDE DEF w
<1>5. Lines(w) = Lines(u)
  BY <1>4 DEF Lines
<1>6. Sound(w, n)
  <2>1. w.on = (w.box /\ w.text)
    BY <1>2, <1>4
  <2> QED
    BY <1>2, <1>4, <1>5, <2>1 DEF Sound
<1> QED
  BY <1>2, <1>3, <1>4, <1>6 DEF Showing

LEMMA RemovedSound ==
  ASSUME NEW n \in Nat, NEW t, Sound(t, n), NEW gone \in SUBSET Lines(t),
         NEW seen \in BOOLEAN, Showing(t, seen)
  PROVE  /\ Sound(Removed(t, gone, seen), n) /\ Showing(Removed(t, gone, seen), seen)
         /\ Removed(t, gone, seen).rows = t.rows \ gone
<1> DEFINE u == Losing(t, gone, seen)
           R == u.rows \ gone
           H == u.hits \ gone
           w == [u EXCEPT !.rows = R, !.hits = H]
<1>1. /\ Sound(u, n) /\ Showing(u, seen)
  BY LosingSound
<1>2. u.rows = t.rows /\ u.hits = t.hits /\ u.on = t.on
  BY LosingSound
<1>3. Spared(t, gone, u)
  BY LosingSound
<1>4. Removed(t, gone, seen) = w
  BY DEF Removed
<1> HIDE DEF u
<1>5. u \in Tables(n) /\ u.hits \subseteq u.rows /\ u.sel \subseteq Lines(u)
  BY <1>1 DEF Sound
<1>6. R \in SUBSET (1..n) /\ H \in SUBSET (1..n) /\ H \subseteq R
  BY <1>5 DEF Tables
<1>7. R = t.rows \ gone /\ H = t.hits \ gone
  BY <1>2
<1> HIDE DEF R, H
<1>8. /\ w \in Tables(n) /\ w.on = u.on /\ w.cur = u.cur /\ w.sel = u.sel /\ w.rows = R
      /\ w.hits = H /\ w.box = u.box /\ w.text = u.text /\ w.preview = u.preview
  BY <1>5, <1>6 DEF Tables
<1> HIDE DEF w
<1>9. Lines(w) = Lines(t) \ gone
  BY <1>2, <1>7, <1>8 DEF Lines
<1>10. t.sel \subseteq Lines(t)
  BY DEF Sound
<1>11. w.cur \in Lines(w) \cup {0} /\ w.sel \subseteq Lines(w)
  BY <1>3, <1>8, <1>9, <1>10 DEF Spared
<1>12. Sound(w, n) /\ Showing(w, seen)
  BY <1>1, <1>6, <1>8, <1>11 DEF Sound, Showing
<1> QED
  BY <1>4, <1>7, <1>8, <1>12

LEMMA ClearedSound ==
  ASSUME NEW n \in Nat, NEW t, Sound(t, n)
  PROVE  Sound(Cleared(t), n) /\ Cleared(t).cur = 0 /\ Cleared(t).rows = {}
<1> DEFINE w == Cleared(t)
<1>1. t \in Tables(n) /\ t.on = (t.box /\ t.text) /\ 0 \in 0..n
  BY DEF Sound
<1>2. /\ w \in Tables(n) /\ w.on = t.on /\ w.cur = 0 /\ w.sel = {} /\ w.rows = {}
      /\ w.hits = {} /\ w.box = t.box /\ w.text = t.text
  BY <1>1 DEF Tables, Cleared
<1> HIDE DEF w
<1>3. Sound(w, n)
  BY <1>1, <1>2 DEF Sound
<1> QED
  BY <1>2, <1>3 DEF w

LEMMA ShownSound ==
  ASSUME NEW n \in Nat, NEW t, Sound(t, n)
  PROVE  Sound(Shown(t), n) /\ Showing(Shown(t), TRUE) /\ Shown(t).rows = t.rows
<1> DEFINE p == IF t.cur # 0 THEN t.cur ELSE t.preview
           w == [t EXCEPT !.preview = p]
<1>1. t \in Tables(n) /\ p \in 0..n
  BY DEF Sound, Tables
<1>2. Shown(t) = w
  BY DEF Shown
<1>3. t.cur # 0 => p = t.cur
  OBVIOUS
<1> HIDE DEF p
<1>4. /\ w \in Tables(n) /\ w.on = t.on /\ w.cur = t.cur /\ w.sel = t.sel /\ w.rows = t.rows
      /\ w.hits = t.hits /\ w.box = t.box /\ w.text = t.text /\ w.preview = p
  BY <1>1 DEF Tables
<1> HIDE DEF w
<1>5. Lines(w) = Lines(t)
  BY <1>4 DEF Lines
<1> QED
  BY <1>2, <1>3, <1>4, <1>5 DEF Sound, Showing

LEMMA FollowSound ==
  ASSUME NEW n \in Nat, NEW t, Sound(t, n), NEW seen \in BOOLEAN, Showing(t, seen)
  PROVE  /\ Sound(FollowAgain(t), n) /\ Showing(FollowAgain(t), seen)
         /\ FollowAgain(t).rows = t.rows
<1> DEFINE w == FollowAgain(t)
<1>1. t \in Tables(n)
  BY DEF Sound
<1>2. /\ w \in Tables(n) /\ w.on = t.on /\ w.cur = t.cur /\ w.sel = t.sel /\ w.rows = t.rows
      /\ w.hits = t.hits /\ w.box = t.box /\ w.text = t.text /\ w.preview = t.preview
  BY <1>1 DEF Tables, FollowAgain
<1> HIDE DEF w
<1>3. Lines(w) = Lines(t)
  BY <1>2 DEF Lines
<1> QED
  BY <1>2, <1>3 DEF Sound, Showing, w

-----------------------------------------------------------------------------
(* The previews of a tab's lists                                            *)

Menus == [at : Pages \cup {"nowhere"}, acts : SUBSET {"remove", "all"}]

\* PreviewShowsCurrent with its parts named: it is inductive as it stands.
ListsInv ==
  /\ page \in Pages /\ menu \in Menus /\ arrived \in 0..MaxRows
  /\ count = Cardinality(ntf.rows)
  /\ Sound(ntf, arrived) /\ Showing(ntf, Seen("notifications"))
  /\ Sound(his, arrived) /\ Showing(his, Seen("history"))

LEMMA ListsInvIs == PreviewShowsCurrent <=> ListsInv
BY DEF PreviewShowsCurrent, ListsInv, ListsTypeOK, Menus, Showing

LEMMA MenuIs ==
  ASSUME NEW p \in Pages, NEW A \in SUBSET {"remove", "all"}
  PROVE  [at |-> p, acts |-> A] \in Menus
BY DEF Menus

LEMMA NoMenuIs == NoMenu \in Menus
BY DEF NoMenu, Menus

LEMMA SeenIs == \A p : Seen(p) \in BOOLEAN
BY DEF Seen

LEMMA ListsInitInv == ListsInit => ListsInv
<1> SUFFICES ASSUME ListsInit PROVE ListsInv
  OBVIOUS
<1>1. arrived = 0 /\ count = 0 /\ ntf = EmptyTable /\ his = EmptyTable /\ page = "other"
  BY DEF ListsInit
<1>2. Sound(EmptyTable, 0) /\ EmptyTable.cur = 0 /\ EmptyTable.rows = {}
  <2> DEFINE t == EmptyTable
  <2>1. /\ t.rows = {} /\ t.hits = {} /\ t.box = TRUE /\ t.text = FALSE /\ t.on = FALSE
        /\ t.cur = 0 /\ t.sel = {}
    BY DEF EmptyTable
  <2>2. t \in Tables(0)
    BY DEF EmptyTable, Tables
  <2> HIDE DEF t
  <2>3. Lines(t) = {}
    BY <2>1 DEF Lines
  <2>4. Sound(t, 0)
    BY <2>1, <2>2, <2>3 DEF Sound
  <2> QED
    BY <2>1, <2>4 DEF t
<1>3. Cardinality({}) = 0
  BY FS_EmptySet
<1>4. 0 \in 0..MaxRows
  BY ListsAssumption
<1>5. Showing(EmptyTable, Seen("notifications")) /\ Showing(EmptyTable, Seen("history"))
  BY <1>2 DEF Showing
<1>6. page \in Pages /\ menu \in Menus
  BY NoMenuIs DEF ListsInit, Pages
<1> QED
  BY <1>1, <1>2, <1>3, <1>4, <1>5, <1>6 DEF ListsInv

\* A step that leaves the number of arrived rows and the page alone.
LEMMA SamePage ==
  ASSUME ListsInv, page' = page, arrived' = arrived, menu' \in Menus,
         count' = Cardinality(ntf'.rows),
         Sound(ntf', arrived), Showing(ntf', Seen("notifications")),
         Sound(his', arrived), Showing(his', Seen("history"))
  PROVE  ListsInv'
BY DEF ListsInv, Seen

\* One that changes the notifications, but not which rows there are, and one that
\* changes the history.
LEMMA NtfStep ==
  ASSUME ListsInv, NtfSame, menu' \in Menus, ntf'.rows = ntf.rows,
         Sound(ntf', arrived), Showing(ntf', Seen("notifications"))
  PROVE  ListsInv'
<1>1. count' = Cardinality(ntf'.rows) /\ page' = page /\ arrived' = arrived /\ his' = his
  BY DEF NtfSame, ListsInv
<1> QED
  BY <1>1, SamePage DEF ListsInv

LEMMA HisStep ==
  ASSUME ListsInv, HisSame, menu' \in Menus,
         Sound(his', arrived), Showing(his', Seen("history"))
  PROVE  ListsInv'
<1>1. count' = Cardinality(ntf'.rows) /\ page' = page /\ arrived' = arrived /\ ntf' = ntf
  BY DEF HisSame, ListsInv
<1> QED
  BY <1>1, SamePage DEF ListsInv

LEMMA InvFacts ==
  ASSUME ListsInv
  PROVE  /\ arrived \in Nat /\ menu \in Menus
         /\ Sound(ntf, arrived) /\ Showing(ntf, Seen("notifications"))
         /\ Sound(his, arrived) /\ Showing(his, Seen("history"))
BY ListsAssumption DEF ListsInv

\* A row that was not there before.
LEMMA EntrySound ==
  ASSUME ListsInv, NEW hit \in BOOLEAN
  PROVE  Sound(WithEntry(hit), arrived + 1) /\ Showing(WithEntry(hit), Seen("history"))
<1>1. CASE Cardinality(his.rows) >= Cap
  <2>1. WithEntry(hit) = his
    BY <1>1 DEF WithEntry
  <2> QED
    BY <2>1, InvFacts, SoundLater
<1>2. CASE ~(Cardinality(his.rows) >= Cap)
  <2>1. WithEntry(hit) = Appended(his, arrived + 1, hit, Seen("history"))
    BY <1>2 DEF WithEntry
  <2> QED
    BY <2>1, InvFacts, SeenIs, AppendedSound
<1> QED
  BY <1>1, <1>2

LEMMA ArrivalStep ==
  ASSUME ListsInv, NEW hit \in BOOLEAN, ReceiveNotification(hit) \/ RecordHistory(hit)
  PROVE  ListsInv'
<1>1. /\ page' = page /\ menu' = menu /\ his' = WithEntry(hit)
      /\ arrived < MaxRows /\ arrived' = arrived + 1
  BY DEF ReceiveNotification, RecordHistory
<1>2. arrived' \in 0..MaxRows
  BY <1>1, ListsAssumption DEF ListsInv
<1>3. Sound(his', arrived') /\ Showing(his', Seen("history"))
  BY <1>1, EntrySound
<1>4. /\ Sound(ntf', arrived') /\ Showing(ntf', Seen("notifications"))
      /\ count' = Cardinality(ntf'.rows)
  <2>1. CASE ReceiveNotification(hit)
    <3>1. /\ ntf' = Appended(ntf, arrived + 1, hit, Seen("notifications"))
          /\ count' = Cardinality(ntf'.rows)
      BY <2>1 DEF ReceiveNotification
    <3> QED
      BY <1>1, <3>1, InvFacts, SeenIs, AppendedSound
  <2>2. CASE RecordHistory(hit)
    <3>1. ntf' = ntf /\ count' = count
      BY <2>2 DEF RecordHistory
    <3> QED
      BY <1>1, <3>1, InvFacts, SoundLater DEF ListsInv
  <2> QED
    BY <2>1, <2>2
<1> QED
  BY <1>1, <1>2, <1>3, <1>4 DEF ListsInv, Seen

LEMMA NotificationStep ==
  ASSUME ListsInv,
         \/ \E id \in 1..MaxRows : ClickNotification(id)
         \/ \E from, to \in 1..MaxRows : SelectNotifications(from, to)
         \/ NotificationFilter \/ NotificationMenu \/ FollowNotifications
  PROVE  ListsInv'
<1>0. /\ arrived \in Nat /\ menu \in Menus
      /\ Sound(ntf, arrived) /\ Showing(ntf, Seen("notifications"))
      /\ Seen("notifications") \in BOOLEAN
  BY InvFacts, SeenIs
<1>1. ASSUME NEW id \in 1..MaxRows, ClickNotification(id)
      PROVE  ListsInv'
  <2>1. /\ Seen("notifications") = TRUE /\ id \in Lines(ntf) /\ NtfSame /\ menu' = menu
        /\ ntf' = SetCurrent(ntf, id, Seen("notifications"))
    BY <1>0, <1>1 DEF ClickNotification, OnNotifications, NtfLines
  <2> QED
    BY <1>0, <2>1, SetCurrentSound, NtfStep
<1>2. ASSUME NEW from \in 1..MaxRows, NEW to \in 1..MaxRows, SelectNotifications(from, to)
      PROVE  ListsInv'
  <2> DEFINE u == SetCurrent(ntf, to, Seen("notifications"))
             between == {i \in Lines(ntf) : i \in from..to \cup to..from}
  <2>1. /\ Seen("notifications") = TRUE /\ to \in Lines(ntf) /\ NtfSame /\ menu' = menu
        /\ ntf' = [u EXCEPT !.sel = between]
    BY <1>0, <1>2 DEF SelectNotifications, OnNotifications, NtfLines
  <2>2. between \in SUBSET Lines(ntf)
    OBVIOUS
  <2> HIDE DEF between, u
  <2>3. /\ Sound(u, arrived) /\ Showing(u, Seen("notifications")) /\ Lines(u) = Lines(ntf)
        /\ u.rows = ntf.rows
    BY <1>0, <2>1, SetCurrentSound DEF u
  <2>4. /\ Sound(ntf', arrived) /\ ntf'.cur = u.cur /\ ntf'.preview = u.preview
        /\ ntf'.rows = u.rows
    BY <1>0, <2>1, <2>2, <2>3, SelectedSound
  <2>5. Showing(ntf', Seen("notifications"))
    BY <2>3, <2>4 DEF Showing
  <2> QED
    BY <1>0, <2>1, <2>3, <2>4, <2>5, NtfStep
<1>3. CASE NotificationFilter
  <2>1. /\ Seen("notifications") = TRUE /\ NtfSame /\ menu' = menu
        /\ \/ ntf' = BoxTurned(ntf, Seen("notifications"))
           \/ ntf' = TextTurned(ntf, Seen("notifications"))
    BY <1>0, <1>3 DEF NotificationFilter, OnNotifications
  <2> QED
    BY <1>0, <2>1, BoxTurnedSound, TextTurnedSound, NtfStep
<1>4. CASE NotificationMenu
  <2> DEFINE all == IF NtfLines # {} THEN {"all"} ELSE {}
  <2>1. /\ NtfSame /\ Seen("notifications") = TRUE
        /\ \/ ntf' = ntf /\ menu' = [at |-> "notifications", acts |-> all]
           \/ \E id \in Lines(ntf) :
                /\ LET u == SetCurrent(ntf, id, Seen("notifications"))
                   IN ntf' = IF id \in ntf.sel THEN [u EXCEPT !.sel = ntf.sel] ELSE u
                /\ menu' = [at |-> "notifications", acts |-> all \cup {"remove"}]
    BY <1>0, <1>4 DEF NotificationMenu, OnNotifications, NtfLines
  <2>2. /\ "notifications" \in Pages
        /\ all \in SUBSET {"remove", "all"} /\ all \cup {"remove"} \in SUBSET {"remove", "all"}
    BY DEF Pages
  <2> HIDE DEF all
  <2>3. menu' \in Menus
    BY <2>1, <2>2, MenuIs
  <2>4. CASE ntf' = ntf
    BY <1>0, <2>1, <2>3, <2>4, NtfStep
  <2>5. CASE ntf' # ntf
    <3>1. PICK id \in Lines(ntf) :
            LET u == SetCurrent(ntf, id, Seen("notifications"))
            IN ntf' = IF id \in ntf.sel THEN [u EXCEPT !.sel = ntf.sel] ELSE u
      BY <2>1, <2>5
    <3> DEFINE u == SetCurrent(ntf, id, Seen("notifications"))
    <3>2. ntf' = IF id \in ntf.sel THEN [u EXCEPT !.sel = ntf.sel] ELSE u
      BY <3>1
    <3> HIDE DEF u
    <3>3. /\ Sound(u, arrived) /\ Showing(u, Seen("notifications")) /\ Lines(u) = Lines(ntf)
          /\ u.rows = ntf.rows
      BY <1>0, SetCurrentSound DEF u
    <3>4. ntf.sel \in SUBSET Lines(u)
      BY <1>0, <3>3 DEF Sound
    <3> DEFINE w == [u EXCEPT !.sel = ntf.sel]
    <3>5. /\ Sound(w, arrived) /\ w.cur = u.cur /\ w.preview = u.preview /\ w.rows = u.rows
      BY <1>0, <3>3, <3>4, SelectedSound
    <3>6. ntf' = w \/ ntf' = u
      BY <3>2
    <3> HIDE DEF w
    <3>7. Showing(w, Seen("notifications"))
      BY <3>3, <3>5 DEF Showing
    <3> QED
      BY <2>1, <2>3, <3>3, <3>5, <3>6, <3>7, NtfStep
  <2> QED
    BY <2>4, <2>5
<1>5. CASE FollowNotifications
  <2>1. NtfSame /\ menu' = menu /\ ntf' = FollowAgain(ntf)
    BY <1>5 DEF FollowNotifications
  <2> QED
    BY <1>0, <2>1, FollowSound, NtfStep
<1> QED
  BY <1>1, <1>2, <1>3, <1>4, <1>5

LEMMA RemovalStep ==
  ASSUME ListsInv, DeleteItem \/ DeleteAll
  PROVE  ListsInv'
<1>0. /\ arrived \in Nat /\ menu \in Menus
      /\ Sound(ntf, arrived) /\ Showing(ntf, Seen("notifications"))
      /\ Sound(his, arrived) /\ Showing(his, Seen("history"))
      /\ Seen("notifications") \in BOOLEAN
  BY InvFacts, SeenIs
<1>1. /\ page' = page /\ arrived' = arrived /\ his' = his /\ menu' \in Menus
      /\ count' = Cardinality(ntf'.rows)
  BY NoMenuIs DEF DeleteItem, DeleteAll
<1>2. CASE DeleteItem
  <2>1. ntf' = Removed(ntf, Deleted, Seen("notifications"))
    BY <1>2 DEF DeleteItem
  <2>2. Deleted \in SUBSET Lines(ntf)
    BY DEF Deleted, NtfLines
  <2> QED
    BY <1>0, <1>1, <2>1, <2>2, RemovedSound, SamePage
<1>3. CASE DeleteAll
  <2>1. ntf' = Cleared(ntf)
    BY <1>3 DEF DeleteAll
  <2>2. Sound(ntf', arrived) /\ ntf'.cur = 0
    BY <1>0, <2>1, ClearedSound
  <2>3. Showing(ntf', Seen("notifications"))
    BY <2>2 DEF Showing
  <2> QED
    BY <1>0, <1>1, <2>2, <2>3, SamePage
<1> QED
  BY <1>2, <1>3

LEMMA HistoryStep ==
  ASSUME ListsInv,
         \/ \E id \in 1..MaxRows : ClickHistory(id)
         \/ HistoryFilter \/ HistoryMenu \/ ClearEntries \/ FollowHistory
  PROVE  ListsInv'
<1>0. /\ arrived \in Nat /\ menu \in Menus
      /\ Sound(his, arrived) /\ Showing(his, Seen("history"))
      /\ Seen("history") \in BOOLEAN
  BY InvFacts, SeenIs
<1>1. ASSUME NEW id \in 1..MaxRows, ClickHistory(id)
      PROVE  ListsInv'
  <2>1. /\ id \in Lines(his) /\ HisSame /\ menu' = menu
        /\ his' = SetCurrent(his, id, Seen("history"))
    BY <1>0, <1>1 DEF ClickHistory, OnHistory, HisLines
  <2> QED
    BY <1>0, <2>1, SetCurrentSound, HisStep
<1>2. CASE HistoryFilter
  <2>1. /\ HisSame /\ menu' = menu
        /\ \/ his' = BoxTurned(his, Seen("history"))
           \/ his' = TextTurned(his, Seen("history"))
    BY <1>0, <1>2 DEF HistoryFilter, OnHistory
  <2> QED
    BY <1>0, <2>1, BoxTurnedSound, TextTurnedSound, HisStep
<1>3. CASE HistoryMenu
  <2> DEFINE all == IF HisLines # {} THEN {"all"} ELSE {}
  <2>1. /\ HisSame /\ menu' = [at |-> "history", acts |-> all]
        /\ \/ his' = his
           \/ \E id \in Lines(his) : his' = SetCurrent(his, id, Seen("history"))
    BY <1>0, <1>3 DEF HistoryMenu, OnHistory, HisLines
  <2>2. "history" \in Pages /\ all \in SUBSET {"remove", "all"}
    BY DEF Pages
  <2> HIDE DEF all
  <2>3. menu' \in Menus
    BY <2>1, <2>2, MenuIs
  <2> QED
    BY <1>0, <2>1, <2>3, SetCurrentSound, HisStep
<1>4. CASE ClearEntries
  <2>1. HisSame /\ his' = Cleared(his) /\ menu' \in Menus
    BY <1>4, NoMenuIs DEF ClearEntries
  <2>2. Sound(his', arrived) /\ his'.cur = 0
    BY <1>0, <2>1, ClearedSound
  <2>3. Showing(his', Seen("history"))
    BY <2>2 DEF Showing
  <2> QED
    BY <2>1, <2>2, <2>3, HisStep
<1>5. CASE FollowHistory
  <2>1. HisSame /\ menu' = menu /\ his' = FollowAgain(his)
    BY <1>5 DEF FollowHistory
  <2> QED
    BY <1>0, <2>1, FollowSound, HisStep
<1> QED
  BY <1>1, <1>2, <1>3, <1>4, <1>5

\* The page of one of the lists comes to the front, or none.
LEMMA PageStep ==
  ASSUME ListsInv, NEW p \in Pages, ShowPage(p)
  PROVE  ListsInv'
<1>0. /\ arrived \in Nat /\ Sound(ntf, arrived) /\ Sound(his, arrived)
  BY InvFacts
<1>1. page' = p /\ menu' = menu /\ count' = count /\ arrived' = arrived
  BY DEF ShowPage
<1>2. /\ Sound(ntf', arrived) /\ Showing(ntf', p = "notifications") /\ ntf'.rows = ntf.rows
  <2>1. CASE p = "notifications"
    BY <1>0, <2>1, ShownSound DEF ShowPage
  <2>2. CASE p # "notifications"
    BY <1>0, <2>2 DEF ShowPage, Showing
  <2> QED
    BY <2>1, <2>2
<1>3. Sound(his', arrived) /\ Showing(his', p = "history")
  <2>1. CASE p = "history"
    BY <1>0, <2>1, ShownSound DEF ShowPage
  <2>2. CASE p # "history"
    BY <1>0, <2>2 DEF ShowPage, Showing
  <2> QED
    BY <2>1, <2>2
<1> QED
  BY <1>1, <1>2, <1>3 DEF ListsInv, Seen

LEMMA ListsNextInv == ListsInv /\ [ListsNext]_listsVars => ListsInv'
<1> SUFFICES ASSUME ListsInv, [ListsNext]_listsVars PROVE ListsInv'
  OBVIOUS
<1>1. CASE \E hit \in BOOLEAN : ReceiveNotification(hit) \/ RecordHistory(hit)
  BY <1>1, ArrivalStep
<1>2. CASE \/ \E id \in 1..MaxRows : ClickNotification(id)
           \/ \E from, to \in 1..MaxRows : SelectNotifications(from, to)
           \/ NotificationFilter \/ NotificationMenu \/ FollowNotifications
  BY <1>2, NotificationStep
<1>3. CASE \/ \E id \in 1..MaxRows : ClickHistory(id)
           \/ HistoryFilter \/ HistoryMenu \/ ClearEntries \/ FollowHistory
  BY <1>3, HistoryStep
<1>4. CASE DeleteItem \/ DeleteAll
  BY <1>4, RemovalStep
<1>5. CASE CloseMenu
  BY <1>5, NoMenuIs DEF CloseMenu, ListsInv, Seen
<1>6. CASE \E p \in Pages : ShowPage(p)
  BY <1>6, PageStep
<1>7. CASE UNCHANGED listsVars
  BY <1>7 DEF listsVars, ListsInv, Seen
<1> QED
  BY <1>1, <1>2, <1>3, <1>4, <1>5, <1>6, <1>7 DEF ListsNext

\* PreviewShowsCurrent: whatever arrives, is selected, filtered, removed or turned
\* to, a visible preview shows the current row.
THEOREM PreviewsFollowTheCurrent == ListsSpec => []PreviewShowsCurrent
<1>1. ListsInv => PreviewShowsCurrent
  BY ListsInvIs
<1> QED
  BY <1>1, ListsInitInv, ListsNextInv, PTL DEF ListsSpec

-----------------------------------------------------------------------------
(* Removing neighbours                                                      *)

Upto(L, i) == {j \in L : j < i}

LEMMA UptoFinite ==
  ASSUME NEW L \in SUBSET Nat, IsFiniteSet(L), NEW i
  PROVE  IsFiniteSet(Upto(L, i)) /\ Cardinality(Upto(L, i)) \in Nat
<1>1. Upto(L, i) \subseteq L
  BY DEF Upto
<1>2. IsFiniteSet(Upto(L, i))
  BY <1>1, FS_Subset
<1> QED
  BY <1>2, FS_CardinalityType

\* S is a run of neighbours among the lines L, from its least row m on: a row
\* of S has fewer than Cardinality(S) rows between m and itself, and any other
\* row has at least as many or comes before m.
LEMMA RunOfRows ==
  ASSUME NEW L \in SUBSET Nat, IsFiniteSet(L), NEW S \in SUBSET L, NEW m \in S,
         \A s \in S : m <= s,
         \A s, o \in S : L \cap s..o \subseteq S,
         NEW i \in L
  PROVE  i \in S <=> Cardinality(Upto(L, i)) \in
                       Cardinality(Upto(L, m))..(Cardinality(Upto(L, m)) + Cardinality(S) - 1)
<1> DEFINE I == Upto(L, i)
           M == Upto(L, m)
<1>0. /\ IsFiniteSet(I) /\ Cardinality(I) \in Nat /\ IsFiniteSet(M) /\ Cardinality(M) \in Nat
  BY UptoFinite
<1>1. IsFiniteSet(S) /\ Cardinality(S) \in Nat
  BY FS_Subset, FS_CardinalityType
<1>2. CASE i \in S
  <2>1. M \subseteq I
    <3> SUFFICES ASSUME NEW j \in M PROVE j \in I
      OBVIOUS
    <3>1. j \in L /\ j < m /\ m <= i /\ j \in Nat /\ i \in Nat /\ m \in Nat
      BY <1>2 DEF Upto
    <3> QED
      BY <3>1 DEF Upto
  <2>2. I \subseteq M \cup (S \ {i})
    <3> SUFFICES ASSUME NEW j \in I PROVE j \in M \cup (S \ {i})
      OBVIOUS
    <3>1. j \in L /\ j < i /\ j \in Nat /\ i \in Nat /\ m \in Nat
      BY DEF Upto
    <3>2. CASE j < m
      BY <3>1, <3>2 DEF Upto
    <3>3. CASE ~(j < m)
      <4>1. j \in L \cap m..i
        BY <3>1, <3>3
      <4> QED
        BY <1>2, <3>1, <4>1
    <3> QED
      BY <3>2, <3>3
  <2> HIDE DEF I, M
  <2>3. Cardinality(M) <= Cardinality(I)
    BY <1>0, <2>1, FS_Subset
  <2>4. IsFiniteSet(S \ {i}) /\ Cardinality(S \ {i}) = Cardinality(S) - 1
    BY <1>1, <1>2, FS_RemoveElement
  <2> DEFINE U == M \cup (S \ {i})
  <2>5. IsFiniteSet(U) /\ Cardinality(U) <= Cardinality(M) + Cardinality(S) - 1
    <3>1. /\ IsFiniteSet(U)
          /\ Cardinality(U) = Cardinality(M) + Cardinality(S \ {i}) - Cardinality(M \cap (S \ {i}))
      BY <1>0, <2>4, FS_Union
    <3>2. Cardinality(M \cap (S \ {i})) \in Nat
      <4>1. IsFiniteSet(M \cap (S \ {i}))
        BY <1>0, FS_Intersection
      <4> QED
        BY <4>1, FS_CardinalityType
    <3> QED
      BY <1>0, <1>1, <2>4, <3>1, <3>2
  <2>6. Cardinality(I) <= Cardinality(U)
    <3> HIDE DEF U
    <3>1. I \subseteq U
      BY <2>2 DEF U
    <3> QED
      BY <2>5, <3>1, FS_Subset
  <2>7. Cardinality(U) \in Nat
    BY <2>5, FS_CardinalityType
  <2> HIDE DEF U
  <2>8. Cardinality(I) \in Cardinality(M)..(Cardinality(M) + Cardinality(S) - 1)
    BY <1>0, <1>1, <2>3, <2>5, <2>6, <2>7
  <2> QED
    BY <1>2, <2>8 DEF I, M
<1>3. CASE i \notin S /\ i < m
  <2>1. I \cup {i} \subseteq M /\ i \notin I
    <3>1. i \in Nat /\ m \in Nat /\ ~(i < i) /\ L \subseteq Nat
      OBVIOUS
    <3>2. \A j \in Nat : j < i => j < m
      BY <1>3, <3>1
    <3>3. I \subseteq M
      BY <3>1, <3>2 DEF Upto
    <3>4. i \in M
      BY <1>3 DEF Upto
    <3>5. i \notin I
      BY <3>1 DEF Upto
    <3> QED
      BY <3>3, <3>4, <3>5
  <2> HIDE DEF I, M
  <2>2. IsFiniteSet(I \cup {i}) /\ Cardinality(I \cup {i}) = Cardinality(I) + 1
    BY <1>0, <2>1, FS_AddElement
  <2>3. Cardinality(I \cup {i}) <= Cardinality(M)
    BY <1>0, <2>1, FS_Subset
  <2>4. Cardinality(I) \notin Cardinality(M)..(Cardinality(M) + Cardinality(S) - 1)
    BY <1>0, <1>1, <2>2, <2>3
  <2> QED
    BY <1>3, <2>4 DEF I, M
<1>4. CASE i \notin S /\ ~(i < m)
  <2>1. \A s \in S : s < i
    <3> SUFFICES ASSUME NEW s \in S, ~(s < i) PROVE FALSE
      OBVIOUS
    <3>1. i \in Nat /\ m \in Nat /\ s \in Nat
      OBVIOUS
    <3>2. i \in L \cap m..s
      BY <1>4, <3>1
    <3> QED
      BY <1>4, <3>2
  <2>2. M \cup S \subseteq I
    <3>1. \A j \in M : j < i
      BY <1>4 DEF Upto
    <3> QED
      BY <2>1, <3>1 DEF Upto
  <2>3. M \cap S = {}
    <3> SUFFICES ASSUME NEW s \in M, s \in S PROVE FALSE
      OBVIOUS
    <3>1. s < m /\ m <= s /\ s \in Nat /\ m \in Nat
      BY DEF Upto
    <3> QED
      BY <3>1
  <2> HIDE DEF I, M
  <2>4. /\ IsFiniteSet(M \cup S)
        /\ Cardinality(M \cup S) = Cardinality(M) + Cardinality(S) - Cardinality(M \cap S)
    BY <1>0, <1>1, FS_Union
  <2>5. Cardinality(M \cap S) = 0
    BY <2>3, FS_EmptySet
  <2>6. Cardinality(M \cup S) <= Cardinality(I)
    BY <1>0, <2>2, FS_Subset
  <2>7. Cardinality(I) \notin Cardinality(M)..(Cardinality(M) + Cardinality(S) - 1)
    BY <1>0, <1>1, <2>4, <2>5, <2>6
  <2> QED
    BY <1>4, <2>7 DEF I, M
<1> QED
  BY <1>2, <1>3, <1>4

LEMMA DeletedIsSelected ==
  ASSUME ListsInv, Adjacent(ntf.sel)
  PROVE  Deleted = ntf.sel
<1> DEFINE L == Lines(ntf)
           S == ntf.sel
           first == RowIn(L, Min(S))
<1>1. arrived \in Nat /\ L \in SUBSET (1..arrived) /\ S \in SUBSET L
  BY InvFacts, LinesIn DEF Sound
<1>2. L \in SUBSET Nat /\ IsFiniteSet(L)
  <2> HIDE DEF L
  <2>1. IsFiniteSet(1..arrived) /\ 1..arrived \subseteq Nat
    BY <1>1, FS_Interval
  <2> QED
    BY <1>1, <2>1, FS_Subset
<1>3. \A s, o \in S : L \cap s..o \subseteq S
  BY DEF Adjacent, NtfLines
<1>4. Deleted = {i \in L : RowIn(L, i) \in first..(first + Cardinality(S) - 1)}
  BY DEF Deleted, NtfLines
<1> HIDE DEF L, S
<1>5. \A i : RowIn(L, i) = Cardinality(Upto(L, i))
  BY DEF RowIn, Upto
<1>6. first \in Nat
  BY <1>2, <1>5, UptoFinite
<1>7. Deleted = S
  <2>1. CASE S = {}
    <3>1. Cardinality(S) = 0
      BY <2>1, FS_EmptySet
    <3> HIDE DEF first
    <3>2. first..(first + Cardinality(S) - 1) = {}
      BY <1>6, <3>1
    <3> QED
      BY <1>4, <2>1, <3>2
  <2>2. CASE S # {}
    <3> DEFINE m == Min(S)
    <3>1. m \in S /\ \A s \in S : m <= s
      <4>1. S \in SUBSET Nat
        BY <1>1, <1>2
      <4> QED
        BY <2>2, <4>1, MinIs
    <3>2. first = Cardinality(Upto(L, m))
      BY <1>5
    <3> HIDE DEF m, first
    <3>3. \A i \in L : i \in S <=> Cardinality(Upto(L, i)) \in first..(first + Cardinality(S) - 1)
      BY <1>1, <1>2, <1>3, <3>1, <3>2, RunOfRows
    <3>4. \A i \in L : i \in S <=> RowIn(L, i) \in first..(first + Cardinality(S) - 1)
      BY <1>5, <3>3
    <3> QED
      BY <1>1, <1>4, <3>4
  <2> QED
    BY <2>1, <2>2
<1> QED
  BY <1>7 DEF S

\* RemovesNeighbours: deleteItem counts lines of the view from the first selected
\* one on, and removes exactly the selected rows when they are neighbours there.
THEOREM NeighboursAreRemoved == ListsSpec => RemovesNeighbours
<1>1. ASSUME ListsInv, DeleteItem, Adjacent(ntf.sel)
      PROVE  ntf'.rows = ntf.rows \ ntf.sel
  <2>1. ntf' = Removed(ntf, Deleted, Seen("notifications"))
    BY <1>1 DEF DeleteItem
  <2>2. Deleted \in SUBSET Lines(ntf)
    BY DEF Deleted, NtfLines
  <2>3. ntf'.rows = ntf.rows \ Deleted
    BY <1>1, <2>1, <2>2, InvFacts, SeenIs, RemovedSound
  <2> QED
    BY <1>1, <2>3, DeletedIsSelected
<1>2. ListsInv /\ [ListsNext]_listsVars =>
        [DeleteItem /\ Adjacent(ntf.sel) => ntf'.rows = ntf.rows \ ntf.sel]_listsVars
  BY <1>1
<1> QED
  BY <1>2, ListsInitInv, ListsNextInv, PTL DEF ListsSpec, RemovesNeighbours
=============================================================================
