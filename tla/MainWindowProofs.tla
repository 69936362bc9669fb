-------------------------- MODULE MainWindowProofs --------------------------
(***************************************************************************)
(* Proofs about the main window and its "Connect" dialog, for any number   *)
(* of tabs, options and names: no connected tab is closed behind the       *)
(* user's back; an edit in the dialog reaches the saved session that is    *)
(* selected; and the names of the tabs differ.                             *)
(***************************************************************************)
EXTENDS MainWindow, FiniteSetTheorems, SequenceTheorems, TLAPS

LEMMA UnaskedInit == Init => UnaskedKnown
BY DEF Init, UnaskedKnown, NoMenu, All, Exit, No

LEMMA CreateKeepsTabs ==
  ASSUME NEW r, NEW v, NEW accepted \in BOOLEAN, CreateSession(r, v, accepted)
  PROVE  tabs \subseteq tabs'
BY DEF CreateSession, tabVars

(* The user at work on options, tabs and connections: nothing is closed.   *)
Working ==
    \/ InDialog
    \/ \E accepted \in BOOLEAN :
          \/ OpenDevice(accepted)
          \/ \E v \in QuickOptions, save \in BOOLEAN : OpenQuick(v, save, accepted)
          \/ \E t \in tabs : CloneSession(t, accepted)
    \/ \E t \in tabs : \/ \E f \in Forms : ModifyOptions(t, f)
                       \/ \E name \in Labels : Rename(t, name)
                       \/ ResetName(t)
                       \/ Disconnect(t) \/ Reconnect(t)
    \/ ConnectionStep \/ DisconnectAll \/ ReconnectAll \/ LeaveMenu
    \/ UNCHANGED vars

LEMMA WorkingKeeps ==
  Working => /\ UNCHANGED <<closeVars, app>>
             /\ menu' = menu \/ menu' = NoMenu
             /\ tabs \subseteq tabs'
<1> SUFFICES ASSUME Working
             PROVE  /\ UNCHANGED <<closeVars, app>>
                    /\ menu' = menu \/ menu' = NoMenu
                    /\ tabs \subseteq tabs'
  OBVIOUS
<1>1. CASE InDialog
  BY <1>1 DEF InDialog, tabVars
<1>2. CASE \E accepted \in BOOLEAN : OpenDevice(accepted)
  BY <1>2, CreateKeepsTabs DEF OpenDevice
<1>3. CASE \E accepted \in BOOLEAN, v \in QuickOptions, save \in BOOLEAN :
              OpenQuick(v, save, accepted)
  BY <1>3, CreateKeepsTabs DEF OpenQuick, User
<1>4. CASE \E accepted \in BOOLEAN, t \in tabs : CloneSession(t, accepted)
  BY <1>4, CreateKeepsTabs DEF CloneSession, Chosen
<1>5. CASE \E t \in tabs : \/ \E f \in Forms : ModifyOptions(t, f)
                           \/ \E name \in Labels : Rename(t, name)
                           \/ ResetName(t)
  BY <1>5 DEF ModifyOptions, Rename, ResetName, Chosen, tabVars
<1>6. CASE \E t \in tabs : Disconnect(t) \/ Reconnect(t)
  BY <1>6 DEF Disconnect, Reconnect, Turn, Chosen
<1>7. CASE ConnectionStep
  BY <1>7 DEF ConnectionStep, Turn
<1>8. CASE DisconnectAll \/ ReconnectAll \/ LeaveMenu
  BY <1>8 DEF DisconnectAll, ReconnectAll, LeaveMenu, Chosen, tabVars
<1>9. CASE UNCHANGED vars
  BY <1>9 DEF vars, tabVars
<1> QED
  BY <1>1, <1>2, <1>3, <1>4, <1>5, <1>6, <1>7, <1>8, <1>9 DEF Working

(* Every other step opens a menu or is one of closing.                     *)
Opening ==
    \/ \E t \in tabs : OpenMenu(t, TabMenu(t))
    \/ OpenMenu(All, FileMenu) \/ OpenMenu(All, WindowMenu)
CloseSome ==
    \E t \in tabs : \/ Close("close", t, {t})
                    \/ Close("closeOther", t, tabs \ {t})
                    \/ Close("closeRight", t, After(t))
Answering == \E yes \in BOOLEAN : AnswerOne(yes) \/ AnswerAll(yes) \/ AnswerExit(yes)
Closing ==
    CloseSome \/ ClearDisconnected \/ CloseAll \/ AskNext \/ CloseNext \/ Answering
    \/ CloseEvent

LEMMA Steps == [Next]_vars => Working \/ Opening \/ Closing
<1> SUFFICES ASSUME Next PROVE Working \/ Opening \/ Closing
  BY DEF Working
<1>1. CASE \E t \in tabs :
             \/ \E f \in Forms : ModifyOptions(t, f)
             \/ \E name \in Labels : Rename(t, name)
             \/ ResetName(t) \/ Disconnect(t) \/ Reconnect(t)
             \/ Close("close", t, {t})
             \/ Close("closeOther", t, tabs \ {t})
             \/ Close("closeRight", t, After(t))
             \/ OpenMenu(t, TabMenu(t))
  BY <1>1 DEF Working, Opening, Closing, CloseSome
<1>2. CASE \E accepted \in BOOLEAN :
              \/ OpenDevice(accepted)
              \/ \E v \in QuickOptions, save \in BOOLEAN : OpenQuick(v, save, accepted)
              \/ \E t \in tabs : CloneSession(t, accepted)
  BY <1>2 DEF Working
<1>3. CASE InDialog \/ ConnectionStep \/ DisconnectAll \/ ReconnectAll \/ LeaveMenu
  BY <1>3 DEF Working
<1>4. CASE OpenMenu(All, FileMenu) \/ OpenMenu(All, WindowMenu)
  BY <1>4 DEF Opening
<1>5. CASE \/ ClearDisconnected \/ CloseAll \/ AskNext \/ CloseNext \/ CloseEvent
           \/ \E yes \in BOOLEAN : AnswerOne(yes) \/ AnswerAll(yes) \/ AnswerExit(yes)
  BY <1>5 DEF Closing, Answering
<1> QED
  BY <1>1, <1>2, <1>3, <1>4, <1>5 DEF Next

-----------------------------------------------------------------------------
LEMMA QuestionsDiffer == All # No /\ Exit # No /\ \A t \in Tabs : t # No
BY MainWindowAssumption DEF All, Exit, No, Tabs

LEMMA UnaskedNext == UnaskedKnown /\ [Next]_vars => UnaskedKnown'
<1> SUFFICES ASSUME UnaskedKnown, Working \/ Opening \/ Closing PROVE UnaskedKnown'
  BY Steps
<1>1. CASE Working
  BY <1>1, WorkingKeeps DEF UnaskedKnown, closeVars, NoMenu
<1>2. CASE Opening
  BY <1>2 DEF Opening, OpenMenu, Free, UnaskedKnown, closeVars
<1>3. CASE CloseSome
  BY <1>3 DEF CloseSome, Close, Chosen, Plan, UnaskedKnown, NoMenu
<1>4. CASE ClearDisconnected \/ CloseAll
  BY <1>4 DEF ClearDisconnected, CloseAll, Chosen, Plan, UnaskedKnown, NoMenu
<1>5. CASE AskNext
  BY <1>5 DEF AskNext, UnaskedKnown
<1>6. CASE CloseNext
  BY <1>6 DEF CloseNext, TakeTab, Skip, UnaskedKnown
<1>7. CASE Answering
  BY <1>7, QuestionsDiffer DEF Answering, AnswerOne, AnswerAll, AnswerExit, TakeTab,
              Skip, UnaskedKnown, tabVars
<1>8. CASE CloseEvent
  BY <1>8 DEF CloseEvent, User, Free, UnaskedKnown, NoMenu
<1> QED
  BY <1>1, <1>2, <1>3, <1>4, <1>5, <1>6, <1>7, <1>8 DEF Closing

(* No tab is closed while it is connected, and the program does not end    *)
(* with one, unless the user was asked, or asked for the tabs that are off *)
(* to be closed and this one was off then.                                 *)
THEOREM TabsCloseWithConsent == Spec => ClosedWithConsent
<1>1. UnaskedKnown /\ [Next]_vars
        => [\A t \in tabs : Connected(t) /\ (t \notin tabs' \/ app' # app)
                              => t \in agreed' \cup drawn]_vars
  <2> SUFFICES ASSUME UnaskedKnown, Working \/ Opening \/ Closing,
                      NEW t \in tabs, Connected(t), t \notin tabs' \/ app' # app
               PROVE  t \in agreed' \cup drawn
    BY Steps
  <2>working. CASE Working
    BY <2>working, WorkingKeeps
  <2>opening. CASE Opening
    BY <2>opening DEF Opening, OpenMenu, tabVars
  <2>asking. CASE CloseSome \/ ClearDisconnected \/ CloseAll \/ AskNext
    BY <2>asking DEF CloseSome, Close, ClearDisconnected, CloseAll, AskNext, tabVars
  <2>next. CASE CloseNext
    BY <2>next DEF CloseNext, TakeTab, UnaskedKnown
  <2>answering. CASE Answering
    BY <2>answering DEF Answering, AnswerOne, AnswerAll, AnswerExit, TakeTab, tabVars
  <2>event. CASE CloseEvent
    BY <2>event DEF CloseEvent, tabVars
  <2> QED
    BY <2>working, <2>opening, <2>asking, <2>next, <2>answering, <2>event DEF Closing
<1>2. Spec => []UnaskedKnown
  BY UnaskedInit, UnaskedNext, PTL DEF Spec
<1> QED
  BY <1>1, <1>2, PTL DEF Spec, ClosedWithConsent

-----------------------------------------------------------------------------
(* Numbers and sequences.                                                  *)

LEMMA LessOnNat ==
  \E R : IsWellFoundedOn(R, Nat) /\ \A x, y \in Nat : y < x => <<y, x>> \in R
<1> DEFINE R == OpToRel(<, Nat)
<1>1. IsWellFoundedOn(R, Nat)
  BY NatLessThanWellFounded, Zenon
<1>2. \A x, y \in Nat : y < x => <<y, x>> \in R
  BY Zenon DEF OpToRel
<1> QED
  <2> HIDE DEF R
  <2> QED BY <1>1, <1>2

LEMMA Least ==
  ASSUME NEW S \in SUBSET Nat, S # {}
  PROVE  \E m \in S : \A i \in S : m <= i
<1>1. PICK R : IsWellFoundedOn(R, Nat) /\ \A x, y \in Nat : y < x => <<y, x>> \in R
  BY LessOnNat
<1>2. PICK m \in S : \A i \in S : ~(<<i, m>> \in R)
  BY <1>1, WFMin, Zenon
<1>3. \A i \in S : ~(i < m)
  BY <1>1, <1>2
<1> QED
  BY <1>3

\* Concatenation, opaque to the provers where only Joined is needed.
Cat(a, b) == a \o b

LEMMA Joined ==
  ASSUME NEW S, NEW a \in Seq(S), NEW b \in Seq(S)
  PROVE  /\ Cat(a, b) \in Seq(S) /\ Len(Cat(a, b)) = Len(a) + Len(b)
         /\ \A k \in 1..Len(a) : Cat(a, b)[k] = a[k]
         /\ \A k \in 1..Len(b) : Cat(a, b)[Len(a) + k] = b[k]
<1> DEFINE t == a \o b
<1>1. /\ t \in Seq(S) /\ Len(t) = Len(a) + Len(b)
      /\ \A k \in 1..(Len(a) + Len(b)) :
           t[k] = IF k <= Len(a) THEN a[k] ELSE b[k - Len(a)]
  BY ConcatProperties
<1>2. Len(a) \in Nat /\ Len(b) \in Nat
  OBVIOUS
<1> HIDE DEF t
<1>3. ASSUME NEW k \in 1..Len(b) PROVE t[Len(a) + k] = b[k]
  <2>1. /\ Len(a) + k \in 1..(Len(a) + Len(b)) /\ ~(Len(a) + k <= Len(a))
        /\ (Len(a) + k) - Len(a) = k
    BY <1>2
  <2> QED
    BY <1>1, <2>1
<1> QED
  BY <1>1, <1>2, <1>3 DEF t, Cat

LEMMA JoinedRight ==
  ASSUME NEW S, NEW a \in Seq(S), NEW b \in Seq(S), NEW k \in 1..Len(b)
  PROVE  Cat(a, b)[Len(a) + k] = b[k]
<1>1. \A i \in 1..Len(b) : Cat(a, b)[Len(a) + i] = b[i]
  BY Joined
<1> QED
  BY <1>1

LEMMA Inserted ==
  ASSUME NEW S, NEW s \in Seq(S), NEW i \in 1..(Len(s) + 1), NEW e \in S
  PROVE  /\ InsertAt(s, i, e) \in Seq(S)
         /\ Len(InsertAt(s, i, e)) = Len(s) + 1
         /\ \A k \in 1..(Len(s) + 1) :
              InsertAt(s, i, e)[k] = IF k < i THEN s[k] ELSE IF k = i THEN e ELSE s[k - 1]
<1> DEFINE a == SubSeq(s, 1, i - 1)
           b == SubSeq(s, i, Len(s))
           t == a \o <<e>> \o b
<1>0. Len(s) \in Nat
  OBVIOUS
<1>1. /\ a \in Seq(S) /\ Len(a) = i - 1
      /\ \A k \in 1..(i - 1) : a[k] = s[k]
  BY <1>0
<1>2. /\ b \in Seq(S) /\ Len(b) = Len(s) - i + 1
      /\ \A k \in 1..(Len(s) - i + 1) : b[k] = s[i + k - 1]
  BY <1>0
<1> HIDE DEF a, b
<1>3. /\ t \in Seq(S) /\ Len(t) = Len(s) + 1
      /\ \A k \in 1..Len(a) : t[k] = a[k]
      /\ t[Len(a) + 1] = e
      /\ \A k \in 1..Len(b) : t[Len(a) + 1 + k] = b[k]
  <2> DEFINE c == a \o <<e>>
  <2>1. <<e>> \in Seq(S) /\ Len(<<e>>) = 1 /\ <<e>>[1] = e
    OBVIOUS
  <2>2. /\ c \in Seq(S) /\ Len(c) = Len(a) + 1
        /\ \A k \in 1..Len(a) : c[k] = a[k]
        /\ c[Len(a) + 1] = e
    <3> DEFINE one == <<e>>
    <3>1. a \in Seq(S) /\ one \in Seq(S) /\ Len(one) = 1 /\ one[1] = e
      BY <1>1, <2>1
    <3> HIDE DEF one
    <3>2. Cat(a, one) \in Seq(S) /\ Len(Cat(a, one)) = Len(a) + Len(one)
      BY <3>1, Joined
    <3>3. \A k \in 1..Len(a) : Cat(a, one)[k] = a[k]
      BY <3>1, Joined
    <3>4. \A k \in 1..Len(one) : Cat(a, one)[Len(a) + k] = one[k]
      BY <3>1, JoinedRight
    <3>5. c = Cat(a, one)
      BY DEF c, one, Cat
    <3> HIDE DEF c
    <3> QED
      BY <3>1, <3>2, <3>3, <3>4, <3>5
  <2> HIDE DEF c
  <2>3. /\ Cat(c, b) \in Seq(S) /\ Len(Cat(c, b)) = Len(c) + Len(b)
        /\ \A k \in 1..Len(c) : Cat(c, b)[k] = c[k]
        /\ \A k \in 1..Len(b) : Cat(c, b)[Len(c) + k] = b[k]
    <3>1. c \in Seq(S) /\ b \in Seq(S)
      BY <1>2, <2>2
    <3>2. Cat(c, b) \in Seq(S) /\ Len(Cat(c, b)) = Len(c) + Len(b)
      BY <3>1, Joined
    <3>3. \A k \in 1..Len(c) : Cat(c, b)[k] = c[k]
      BY <3>1, Joined
    <3>4. \A k \in 1..Len(b) : Cat(c, b)[Len(c) + k] = b[k]
      BY <3>1, JoinedRight
    <3> QED
      BY <3>2, <3>3, <3>4
  <2>4. t = Cat(c, b)
    BY DEF c, Cat
  <2> HIDE DEF t
  <2>5. /\ Len(a) \in Nat /\ Len(b) \in Nat /\ Len(c) = Len(a) + 1
        /\ Len(a) + 1 + Len(b) = Len(s) + 1
    BY <1>0, <1>1, <1>2, <2>2
  <2>6. t \in Seq(S) /\ Len(t) = Len(s) + 1
    BY <2>3, <2>4, <2>5
  <2>7. \A k \in 1..Len(a) : t[k] = a[k]
    BY <2>2, <2>3, <2>4, <2>5
  <2>8. t[Len(a) + 1] = e
    BY <2>2, <2>3, <2>4, <2>5
  <2>9. \A k \in 1..Len(b) : t[Len(a) + 1 + k] = b[k]
    BY <2>3, <2>4, <2>5
  <2> QED
    BY <2>6, <2>7, <2>8, <2>9
<1> HIDE DEF t
<1>4. ASSUME NEW k \in 1..(Len(s) + 1)
      PROVE  t[k] = IF k < i THEN s[k] ELSE IF k = i THEN e ELSE s[k - 1]
  <2>1. CASE k < i
    <3>1. k \in 1..(i - 1)
      BY <2>1
    <3> QED
      BY <1>1, <1>3, <2>1, <3>1
  <2>2. CASE k = i
    BY <1>1, <1>3, <2>2
  <2>3. CASE k > i
    <3>1. /\ k - i \in 1..(Len(s) - i + 1) /\ i + (k - i) - 1 = k - 1
          /\ (i - 1) + 1 + (k - i) = k
      BY <1>0, <2>3
    <3>2. t[k] = b[k - i] /\ b[k - i] = s[k - 1]
      BY <1>1, <1>2, <1>3, <3>1
    <3> QED
      BY <2>3, <3>2
  <2> QED
    BY <2>1, <2>2, <2>3
<1> QED
  BY <1>3, <1>4 DEF InsertAt, a, b, t

LEMMA Removed ==
  ASSUME NEW S, NEW s \in Seq(S), NEW i \in 1..Len(s)
  PROVE  /\ RemoveAt(s, i) \in Seq(S)
         /\ Len(RemoveAt(s, i)) = Len(s) - 1
         /\ \A k \in 1..(Len(s) - 1) : RemoveAt(s, i)[k] = IF k < i THEN s[k] ELSE s[k + 1]
<1> DEFINE a == SubSeq(s, 1, i - 1)
           b == SubSeq(s, i + 1, Len(s))
           t == a \o b
<1>0. Len(s) \in Nat
  OBVIOUS
<1>1. /\ a \in Seq(S) /\ Len(a) = i - 1
      /\ \A k \in 1..(i - 1) : a[k] = s[k]
  BY <1>0
<1>2. /\ b \in Seq(S) /\ Len(b) = Len(s) - i
      /\ \A k \in 1..(Len(s) - i) : b[k] = s[i + k]
  BY <1>0
<1> HIDE DEF a, b
<1>3. /\ t \in Seq(S) /\ Len(t) = Len(s) - 1
      /\ \A k \in 1..Len(a) : t[k] = a[k]
      /\ \A k \in 1..Len(b) : t[Len(a) + k] = b[k]
  <2>1. Len(a) + Len(b) = Len(s) - 1
    BY <1>0, <1>1, <1>2
  <2>2. a \in Seq(S) /\ b \in Seq(S)
    BY <1>1, <1>2
  <2>3. t = Cat(a, b)
    BY DEF Cat
  <2>4. Cat(a, b) \in Seq(S) /\ Len(Cat(a, b)) = Len(a) + Len(b)
    BY <2>2, Joined
  <2>5. \A k \in 1..Len(a) : Cat(a, b)[k] = a[k]
    BY <2>2, Joined
  <2>6. \A k \in 1..Len(b) : Cat(a, b)[Len(a) + k] = b[k]
    BY <2>2, JoinedRight
  <2> HIDE DEF t
  <2> QED
    BY <2>1, <2>3, <2>4, <2>5, <2>6
<1> HIDE DEF t
<1>4. ASSUME NEW k \in 1..(Len(s) - 1)
      PROVE  t[k] = IF k < i THEN s[k] ELSE s[k + 1]
  <2>1. CASE k < i
    <3>1. k \in 1..(i - 1)
      BY <2>1
    <3> QED
      BY <1>1, <1>3, <2>1, <3>1
  <2>2. CASE k >= i
    <3>1. /\ k - i + 1 \in 1..(Len(s) - i) /\ i + (k - i + 1) = k + 1
          /\ (i - 1) + (k - i + 1) = k
      BY <1>0, <2>2
    <3>2. b[k - i + 1] = s[k + 1]
      BY <1>2, <3>1
    <3>3. Len(a) + (k - i + 1) = k /\ k - i + 1 \in 1..Len(b)
      BY <1>1, <1>2, <3>1
    <3>4. t[Len(a) + (k - i + 1)] = b[k - i + 1]
      BY <1>3, <3>3
    <3> QED
      BY <2>2, <3>2, <3>3, <3>4
  <2> QED
    BY <2>1, <2>2
<1> QED
  BY <1>3, <1>4 DEF RemoveAt, a, b, t

-----------------------------------------------------------------------------
(* Names.                                                                  *)

\* str() of a name: a name that is not in use, unless all numbers are.
LEMMA FreshShape ==
  ASSUME NEW name \in Names, NEW used
  PROVE  /\ Fresh(name, used) \in Names
         /\ (\E i \in 1..MaxSuffix : Append(name, i) \notin used) => Fresh(name, used) \notin used
<1> DEFINE free == {i \in 1..MaxSuffix : Append(name, i) \notin used}
           least == CHOOSE i \in free : \A j \in free : i <= j
<1>1. MaxSuffix \in Nat /\ free \subseteq Nat
  BY DeviceListAssumption
<1>2. \A i \in Nat : Append(name, i) \in Names
  BY DEF Names
<1>3. CASE free = {}
  BY <1>1, <1>2, <1>3 DEF Fresh
<1>4. CASE free # {}
  <2>1. \E i \in free : \A j \in free : i <= j
    <3> HIDE DEF free
    <3> QED
      BY <1>1, <1>4, Least
  <2>2. least \in free
    <3> HIDE DEF free
    <3> QED
      BY <2>1
  <2>3. Fresh(name, used) = Append(name, least)
    BY <1>4 DEF Fresh
  <2> QED
    BY <1>1, <1>2, <2>2, <2>3
<1> QED
  BY <1>3, <1>4

-----------------------------------------------------------------------------
(* The saved sessions.                                                     *)

Heap == [Refs -> Value]
ListOf(s, n) ==
  /\ s \in Seq(Refs)
  /\ IsInjective(s)
  /\ \A i \in DOMAIN s : s[i] <= n
ListInv == ListTypeOK /\ EditsReachSelected /\ DictsMade

LEMMA ListShape ==
  ListInv => /\ opt \in Heap /\ made \in 0..MaxRefs /\ open \in BOOLEAN
             /\ row \in 0..Len(sessions) /\ held \in 0..MaxRefs /\ form \in Value
             /\ ListOf(sessions, made)
             /\ Len(sessions) \in Nat /\ DOMAIN sessions = 1..Len(sessions)
             /\ (open /\ row # 0 => held = sessions[row])
BY DEF ListInv, ListTypeOK, EditsReachSelected, DictsMade, Heap, ListOf

LEMMA ListMade ==
  ASSUME opt' \in Heap, made' \in 0..MaxRefs, open' \in BOOLEAN,
         row' \in 0..Len(sessions'), held' \in 0..MaxRefs, form' \in Value,
         ListOf(sessions', made'),
         open' /\ row' # 0 => held' = sessions'[row']
  PROVE  ListInv'
BY DEF ListInv, ListTypeOK, EditsReachSelected, DictsMade, Heap, ListOf

\* The same for a step that leaves the list alone.
LEMMA ListKept ==
  ASSUME ListInv, sessions' = sessions, made' = made,
         opt' \in Heap, open' \in BOOLEAN, row' \in 0..Len(sessions),
         held' \in 0..MaxRefs, form' \in Value,
         open' /\ row' # 0 => held' = sessions[row']
  PROVE  ListInv'
<1>1. ListOf(sessions', made') /\ made' \in 0..MaxRefs
  BY ListShape
<1>2. row' \in 0..Len(sessions') /\ (open' /\ row' # 0 => held' = sessions'[row'])
  OBVIOUS
<1> QED
  BY <1>1, <1>2, ListMade

LEMMA NamedType == \A v \in Value : Named(v) \in Value
<1> SUFFICES ASSUME NEW v \in Value PROVE Named(v) \in Value
  OBVIOUS
<1>1. v.host \in Nat /\ <<v.host>> \in Names
  BY DEF Value, Names
<1>2. [v EXCEPT !.name = <<v.host>>] \in Value
  BY <1>1 DEF Value
<1> QED
  BY <1>2 DEF Named

LEMMA BlankType == Blank \in Value
BY DEF Blank, Value, Names, NoHost

LEMMA RefsNat == /\ MaxRefs \in Nat /\ NoRef \notin Refs
                 /\ Refs \subseteq 0..MaxRefs /\ \A r \in 0..MaxRefs : r # NoRef => r \in Refs
BY DeviceListAssumption DEF Refs, NoRef

\* The form shows the dict that is selected, or is emptied along with the one
\* it held.
LEMMA GoToShape ==
  ASSUME NEW o \in Heap, NEW s \in Seq(Refs), NEW i \in Nat, held \in 0..MaxRefs,
         GoTo(o, s, i)
  PROVE  /\ opt' \in Heap /\ row' \in 0..Len(s) /\ held' \in 0..MaxRefs /\ form' \in Value
         /\ row' # 0 => held' = s[row']
<1>1. CASE i \in DOMAIN s
  <2>1. s[i] \in Refs /\ i \in 0..Len(s)
    BY <1>1
  <2>2. row' = i /\ opt' = [o EXCEPT ![s[i]] = Named(@)] /\ held' = s[i] /\ form' = opt'[s[i]]
    BY <1>1 DEF GoTo, SetData
  <2>3. opt' \in Heap
    BY <2>1, <2>2, NamedType DEF Heap
  <2> QED
    BY <2>1, <2>2, <2>3, RefsNat DEF Heap
<1>2. CASE i \notin DOMAIN s
  <2>1. row' = 0 /\ opt' = [o EXCEPT ![held] = Blank] /\ form' = Blank /\ held' = held
    BY <1>2 DEF GoTo, ClearData
  <2>2. opt' \in Heap
    BY <2>1, BlankType DEF Heap
  <2> QED
    BY <2>1, <2>2, BlankType
<1> QED
  BY <1>1, <1>2

\* A dict that was just made is put behind the current row, or dropped.
LEMMA WithAfterShape ==
  ASSUME ListInv, NEW o, made + 1 \in Refs
  PROVE  ListOf(WithAfter(o, made + 1), made + 1)
<1>a. /\ ListOf(sessions, made) /\ row \in 0..Len(sessions) /\ made \in 0..MaxRefs
      /\ Len(sessions) \in Nat
  BY ListShape
<1> DEFINE s == InsertAt(sessions, row + 1, made + 1)
<1>1. row + 1 \in 1..(Len(sessions) + 1) /\ sessions \in Seq(Refs)
  BY <1>a DEF ListOf
<1>2. /\ s \in Seq(Refs) /\ Len(s) = Len(sessions) + 1
      /\ \A k \in 1..(Len(sessions) + 1) :
           s[k] = IF k < row + 1 THEN sessions[k]
                  ELSE IF k = row + 1 THEN made + 1 ELSE sessions[k - 1]
  <2>1. made + 1 \in Refs
    OBVIOUS
  <2> HIDE DEF s
  <2>2. s = InsertAt(sessions, row + 1, made + 1)
    BY DEF s
  <2> QED
    BY <1>1, <2>1, <2>2, Inserted
<1>3. \A k \in 1..Len(sessions) : sessions[k] \in Nat /\ sessions[k] <= made
  <2>1. sessions \in Seq(Refs) /\ DOMAIN sessions = 1..Len(sessions)
    BY <1>a DEF ListOf
  <2>2. \A k \in 1..Len(sessions) : sessions[k] \in Refs
    BY <2>1
  <2> QED
    BY <1>a, <2>1, <2>2 DEF ListOf, Refs
<1>4. /\ \A k, l \in 1..Len(sessions) : sessions[k] = sessions[l] => k = l
      /\ made \in Nat /\ row \in Nat
  BY <1>a, RefsNat DEF ListOf, IsInjective
<1> HIDE DEF s
<1>5. DOMAIN s = 1..(Len(sessions) + 1)
  BY <1>2
<1>6. ASSUME NEW k \in DOMAIN s PROVE s[k] <= made + 1
  <2>1. k \in 1..(Len(sessions) + 1)
    BY <1>5
  <2>2. k < row + 1 => k \in 1..Len(sessions)
    BY <1>a, <1>4, <2>1
  <2>3. k > row + 1 => k - 1 \in 1..Len(sessions)
    BY <1>a, <1>4, <2>1
  <2> QED
    BY <1>2, <1>3, <1>4, <2>1, <2>2, <2>3
<1>7. IsInjective(s)
  <2> SUFFICES ASSUME NEW k \in 1..(Len(sessions) + 1), NEW l \in 1..(Len(sessions) + 1),
                      k < l, s[k] = s[l]
               PROVE  FALSE
    BY <1>5, <1>a DEF IsInjective
  <2>a. s[k] = s[l] /\ k < l
    OBVIOUS
  <2>0. /\ k \in Nat /\ l \in Nat /\ Len(sessions) \in Nat /\ row \in Nat
        /\ k < row + 1 => k \in 1..Len(sessions)
        /\ l < row + 1 => l \in 1..Len(sessions)
        /\ k > row + 1 => k - 1 \in 1..Len(sessions)
        /\ l > row + 1 => l - 1 \in 1..Len(sessions)
    BY <1>a, <1>4
  <2>below. CASE l < row + 1
    BY <1>2, <1>4, <1>a, <2>below, <2>0
  <2>last. CASE k < row + 1 /\ l = row + 1
    <3>1. s[k] = sessions[k] /\ s[l] = made + 1
      BY <1>2, <2>last, <2>0
    <3>2. sessions[k] \in Nat /\ sessions[k] <= made
      BY <1>3, <2>last, <2>0
    <3>3. sessions[k] = made + 1
      BY <2>a, <3>1
    <3>4. made \in Nat
      BY <1>4
    <3> QED
      BY <3>2, <3>3, <3>4
  <2>across. CASE k < row + 1 /\ l > row + 1
    <3>1. s[k] = sessions[k] /\ s[l] = sessions[l - 1]
      BY <1>2, <2>across, <2>0
    <3>2. k = l - 1
      BY <1>4, <2>across, <2>0, <3>1
    <3> QED
      BY <2>across, <2>0, <3>2
  <2>first. CASE k = row + 1
    <3>1. s[k] = made + 1 /\ s[l] = sessions[l - 1]
      BY <1>2, <2>first, <2>0
    <3>2. sessions[l - 1] \in Nat /\ sessions[l - 1] <= made
      BY <1>3, <2>a, <2>first, <2>0
    <3>3. sessions[l - 1] = made + 1
      BY <2>a, <3>1
    <3>4. made \in Nat
      BY <1>4
    <3> QED
      BY <3>2, <3>3, <3>4
  <2>above. CASE k > row + 1
    <3>1. s[k] = sessions[k - 1] /\ s[l] = sessions[l - 1]
      BY <1>2, <2>above, <2>0
    <3>2. k - 1 \in 1..Len(sessions) /\ l - 1 \in 1..Len(sessions)
      BY <2>a, <2>above, <2>0
    <3>3. sessions[k - 1] = sessions[l - 1]
      BY <2>a, <3>1
    <3>4. k - 1 = l - 1
      BY <1>4, <3>2, <3>3
    <3> QED
      BY <2>a, <2>0, <3>4
  <2> QED
    BY <1>4, <2>a, <2>0, <2>below, <2>last, <2>across, <2>first, <2>above
<1>8. ListOf(s, made + 1)
  BY <1>2, <1>6, <1>7 DEF ListOf
<1>9. ListOf(sessions, made + 1)
  BY <1>a, <1>3, <1>4 DEF ListOf
<1> QED
  BY <1>8, <1>9 DEF WithAfter, s

\* What list.remove leaves: the list without one entry.
LEMMA WithoutShape ==
  ASSUME ListInv, row # 0
  PROVE  ListOf(Without(opt[sessions[row]]), made)
<1>a. /\ ListOf(sessions, made) /\ row \in 0..Len(sessions) /\ Len(sessions) \in Nat
      /\ DOMAIN sessions = 1..Len(sessions)
  BY ListShape
<1> DEFINE v == opt[sessions[row]]
           I == {k \in 1..Len(sessions) : opt[sessions[k]] = v}
           i == Min(I)
           s == RemoveAt(sessions, i)
<1>1. row \in I /\ I \subseteq Nat
  BY <1>a
<1>2. \E m \in I : \A k \in I : m <= k
  <2> HIDE DEF I
  <2> QED
    BY <1>1, Least
<1>3. i \in I
  <2> HIDE DEF I
  <2> QED
    BY <1>2 DEF Min
<1>4. i \in 1..Len(sessions) /\ sessions \in Seq(Refs)
  BY <1>a, <1>3 DEF ListOf
<1>5. Without(v) = s
  BY <1>1 DEF Without, SelectInSeq
<1> HIDE DEF i
<1>6. /\ s \in Seq(Refs) /\ Len(s) = Len(sessions) - 1
      /\ \A k \in 1..(Len(sessions) - 1) :
           s[k] = IF k < i THEN sessions[k] ELSE sessions[k + 1]
  BY <1>4, Removed
<1> HIDE DEF s
<1>7. DOMAIN s = 1..(Len(sessions) - 1)
  BY <1>a, <1>6
<1>8. ASSUME NEW k \in DOMAIN s
      PROVE  \E j \in 1..Len(sessions) : s[k] = sessions[j] /\ j = IF k < i THEN k ELSE k + 1
  <2>1. k \in 1..Len(sessions) /\ k + 1 \in 1..Len(sessions)
    BY <1>a, <1>7
  <2> QED
    BY <1>6, <1>7, <2>1
<1>9. \A k \in DOMAIN s : s[k] <= made
  BY <1>a, <1>8 DEF ListOf
<1>10. IsInjective(s)
  <2> SUFFICES ASSUME NEW k \in DOMAIN s, NEW l \in DOMAIN s, s[k] = s[l]
               PROVE  k = l
    BY DEF IsInjective
  <2>1. PICK m \in 1..Len(sessions) : s[k] = sessions[m] /\ m = IF k < i THEN k ELSE k + 1
    BY <1>8
  <2>2. PICK n \in 1..Len(sessions) : s[l] = sessions[n] /\ n = IF l < i THEN l ELSE l + 1
    BY <1>8
  <2>3. m = n
    BY <1>a, <2>1, <2>2 DEF ListOf, IsInjective
  <2> QED
    BY <1>4, <1>7, <2>1, <2>2, <2>3
<1> QED
  BY <1>5, <1>6, <1>9, <1>10 DEF ListOf

LEMMA ListStep == ListInv /\ DialogStep => ListInv'
<1> SUFFICES ASSUME ListInv, DialogStep PROVE ListInv'
  OBVIOUS
<1>a. /\ opt \in Heap /\ made \in 0..MaxRefs /\ open \in BOOLEAN
      /\ row \in 0..Len(sessions) /\ held \in 0..MaxRefs /\ form \in Value
      /\ ListOf(sessions, made)
      /\ Len(sessions) \in Nat /\ DOMAIN sessions = 1..Len(sessions)
      /\ (open /\ row # 0 => held = sessions[row])
  BY ListShape
<1>b. sessions \in Seq(Refs) /\ \A k \in 1..Len(sessions) : sessions[k] \in Refs
  BY <1>a DEF ListOf
<1>1. CASE OpenList
  <2>1. CASE sessions = << >>
    BY <1>1, <1>a, <2>1, BlankType, RefsNat, ListMade DEF OpenList, NoRef
  <2>2. CASE sessions # << >>
    <3>1. /\ row' = 1 /\ SetData(opt, sessions[1]) /\ 1 \in DOMAIN sessions
          /\ UNCHANGED <<made, sessions>> /\ open' = TRUE
      BY <1>1, <1>a, <1>b, <2>2 DEF OpenList
    <3>2. GoTo(opt, sessions, 1)
      BY <3>1 DEF GoTo
    <3>3. /\ opt' \in Heap /\ row' \in 0..Len(sessions) /\ held' \in 0..MaxRefs
          /\ form' \in Value
          /\ row' # 0 => held' = sessions[row']
      BY <1>a, <1>b, <3>2, GoToShape
    <3>4. sessions' = sessions /\ made' = made /\ open' \in BOOLEAN
      BY <3>1
    <3> QED
      BY <3>3, <3>4, ListKept
  <2> QED
    BY <2>1, <2>2
<1>2. CASE CloseList
  <2>1. /\ sessions' = sessions /\ made' = made /\ opt' = opt
        /\ open' = FALSE /\ row' = 0 /\ held' = 0 /\ form' = Blank
    BY <1>2 DEF CloseList, Discard, NoRef
  <2>0. Len(sessions) \in Nat /\ MaxRefs \in Nat
    BY <1>a, RefsNat
  <2>2. held' \in 0..MaxRefs /\ row' \in 0..Len(sessions)
    BY <2>0, <2>1
  <2>3. open' \in BOOLEAN
    BY <2>1
  <2> QED
    BY <1>a, <2>1, <2>2, <2>3, BlankType, ListKept
<1>3. ASSUME NEW i \in DOMAIN sessions, SelectRow(i) PROVE ListInv'
  <2>1. GoTo(opt, sessions, i) /\ UNCHANGED <<made, sessions, open>> /\ i \in Nat
    BY <1>3, <1>a DEF SelectRow
  <2>2. /\ opt' \in Heap /\ row' \in 0..Len(sessions) /\ held' \in 0..MaxRefs
        /\ form' \in Value
        /\ row' # 0 => held' = sessions[row']
    BY <1>a, <1>b, <2>1, GoToShape
  <2>3. sessions' = sessions /\ made' = made /\ open' \in BOOLEAN
    BY <1>a, <2>1
  <2> QED
    BY <2>2, <2>3, ListKept
<1>4. ASSUME NEW f \in Forms, Fill(f) PROVE ListInv'
  <2>1. f \in Value
    BY DeviceListAssumption
  <2> QED
    BY <1>4, <1>a, <2>1, ListMade DEF Fill
<1>5. CASE SaveForm
  <2>1. opt' = [opt EXCEPT ![held] = form] /\ UNCHANGED <<made, open, row, held, form>> /\ open
    BY <1>5 DEF SaveForm
  <2>2. opt' \in Heap
    BY <1>a, <2>1 DEF Heap
  <2>3. sessions' = sessions
    <3>1. CASE Valid(form) /\ row # 0
      <4>1. sessions' = [sessions EXCEPT ![row] = sessions[row]]
        BY <1>5, <1>a, <2>1, <3>1 DEF SaveForm
      <4> QED
        BY <1>b, <4>1
    <3> QED
      BY <1>5, <3>1 DEF SaveForm
  <2> QED
    BY <1>a, <2>1, <2>2, <2>3, ListMade
<1>6. CASE DeleteSession
  <2> DEFINE s == Without(opt[sessions[row]])
             i == IF row = 1 THEN 1 ELSE row - 1
  <2>1. /\ row # 0 /\ sessions' = s /\ GoTo(opt, s, i)
        /\ UNCHANGED <<made, open>>
    BY <1>6 DEF DeleteSession
  <2>2. ListOf(s, made) /\ i \in Nat
    BY <1>a, <2>1, WithoutShape
  <2> HIDE DEF s, i
  <2>3. s \in Seq(Refs)
    BY <2>2 DEF ListOf
  <2> QED
    BY <1>a, <2>1, <2>2, <2>3, GoToShape, ListMade
\* A dict is made and put behind the current row.
<1>7. ASSUME NEW v \in Value, NEW i \in Nat, made < MaxRefs, made' = made + 1,
             sessions' = WithAfter([opt EXCEPT ![made + 1] = v], made + 1),
             GoTo([opt EXCEPT ![made + 1] = v], sessions', i), UNCHANGED open
      PROVE  ListInv'
  <2> DEFINE with == [opt EXCEPT ![made + 1] = v]
  <2>1. made + 1 \in Refs /\ made' \in 0..MaxRefs
    BY <1>7, <1>a, RefsNat DEF Refs
  <2>2. with \in Heap
    BY <1>a DEF Heap
  <2>3. ListOf(sessions', made + 1)
    BY <1>7, <2>1, WithAfterShape
  <2>4. sessions' \in Seq(Refs)
    BY <2>3 DEF ListOf
  <2>5. GoTo(with, sessions', i)
    BY <1>7
  <2> HIDE DEF with
  <2>6. /\ opt' \in Heap /\ row' \in 0..Len(sessions') /\ held' \in 0..MaxRefs
        /\ form' \in Value
        /\ row' # 0 => held' = sessions'[row']
    BY <1>a, <2>2, <2>4, <2>5, GoToShape
  <2> QED
    <3>1. open' \in BOOLEAN /\ ListOf(sessions', made')
      BY <1>7, <1>a, <2>3
    <3> QED
      BY <2>1, <2>6, <3>1, ListMade
<1>8. ASSUME NEW f \in Forms, NewSession(f) PROVE ListInv'
  <2>1. Named(f) \in Value
    BY DeviceListAssumption, NamedType
  <2>2. (IF row = 0 THEN 1 ELSE row + 1) \in Nat
    BY <1>a
  <2> QED
    BY <1>7, <1>8, <2>1, <2>2 DEF NewSession
<1>9. CASE DuplicateSession
  <2> DEFINE copy == opt[sessions[row]]
             names == {opt[sessions[i]].name : i \in DOMAIN sessions}
  <2>1. row # 0 /\ sessions[row] \in Refs
    BY <1>9, <1>a, <1>b DEF DuplicateSession
  <2>2. copy \in Value
    BY <1>a, <2>1 DEF Heap
  <2>3. Fresh(copy.name, names) \in Names
    BY <2>2, FreshShape DEF Value
  <2>4. [copy EXCEPT !.name = Fresh(@, names)] \in Value
    BY <2>2, <2>3 DEF Value
  <2>5. row + 1 \in Nat
    BY <1>a
  <2> QED
    BY <1>7, <1>9, <2>4, <2>5 DEF DuplicateSession
<1> QED
  BY <1>1, <1>2, <1>3, <1>4, <1>5, <1>6, <1>8, <1>9 DEF DialogStep

-----------------------------------------------------------------------------
(* The steps of the main window that reach the saved sessions.             *)

\* The saved sessions are dicts 1, 2, and so on.
LEMMA ListInitially == Init => ListInv
<1> SUFFICES ASSUME Init PROVE ListInv
  OBVIOUS
<1>0. /\ MaxRefs \in Nat /\ Len(Saved) \in Nat /\ Len(Saved) <= MaxRefs
      /\ Saved \in Seq(Value) /\ DOMAIN Saved = 1..Len(Saved)
  BY DeviceListAssumption
<1>1. /\ opt = [r \in Refs |-> IF r <= Len(Saved) THEN Saved[r] ELSE Blank]
      /\ made = Len(Saved) /\ sessions = [i \in DOMAIN Saved |-> i]
      /\ open = FALSE /\ row = 0 /\ held = NoRef /\ form = Blank
  BY DEF Init, ListInit
<1>2. opt \in [Refs -> Value]
  <2> SUFFICES ASSUME NEW r \in Refs
               PROVE  (IF r <= Len(Saved) THEN Saved[r] ELSE Blank) \in Value
    BY <1>1
  <2>1. r <= Len(Saved) => r \in 1..Len(Saved)
    BY <1>0 DEF Refs
  <2> QED
    BY <1>0, <2>1, BlankType
<1>3. /\ sessions \in Seq(Refs) /\ Len(sessions) = Len(Saved)
      /\ \A i \in DOMAIN sessions : sessions[i] = i /\ i \in 1..Len(Saved)
  <2>1. \A i \in 1..Len(Saved) : i \in Refs
    BY <1>0 DEF Refs
  <2>2. sessions = [i \in 1..Len(Saved) |-> i]
    BY <1>0, <1>1
  <2> QED
    BY <1>0, <2>1, <2>2
<1>4. ListTypeOK
  <2>1. row \in 0..Len(sessions)
    BY <1>0, <1>1, <1>3
  <2>2. held \in 0..MaxRefs /\ made \in 0..MaxRefs
    BY <1>0, <1>1 DEF NoRef
  <2>3. open \in BOOLEAN
    BY <1>1
  <2> QED
    BY <1>1, <1>2, <1>3, <2>1, <2>2, <2>3, BlankType DEF ListTypeOK
<1>5. IsInjective(sessions)
  BY <1>3 DEF IsInjective
<1>6. DictsMade
  BY <1>0, <1>1, <1>3 DEF DictsMade
<1> QED
  BY <1>1, <1>4, <1>5, <1>6 DEF ListInv, EditsReachSelected

LEMMA AcceptStep ==
  ASSUME ListInv, AcceptForm
  PROVE  ListInv' /\ held \in Refs
<1>a. /\ opt \in Heap /\ form \in Value /\ made \in 0..MaxRefs
      /\ ListOf(sessions, made)
      /\ row \in 0..Len(sessions) /\ Len(sessions) \in Nat
  BY ListShape
<1>b. open /\ row # 0 => held = sessions[row]
  BY ListShape
<1>1. /\ open /\ row # 0 /\ opt' = [opt EXCEPT ![held] = form]
      /\ sessions' = [sessions EXCEPT ![row] = held]
      /\ open' = FALSE /\ row' = 0 /\ held' = 0 /\ form' = Blank /\ made' = made
  BY DEF AcceptForm, Discard, NoRef
<1>2. held = sessions[row] /\ sessions \in Seq(Refs) /\ row \in 1..Len(sessions)
  BY <1>a, <1>b, <1>1 DEF ListOf
<1>3. sessions' = sessions /\ held \in Refs
  BY <1>1, <1>2
<1>4. opt' \in Heap
  BY <1>a, <1>1 DEF Heap
<1>5. held' \in 0..MaxRefs /\ row' \in 0..Len(sessions)
  BY <1>a, <1>1, RefsNat
<1>6. open' \in BOOLEAN /\ form' \in Value
  BY <1>1, BlankType
<1> QED
  BY <1>1, <1>3, <1>4, <1>5, <1>6, ListKept

LEMMA QuickType == \A v \in QuickOptions : v \in Value
BY NamedType, DeviceListAssumption DEF QuickOptions

LEMMA QuickStep ==
  ASSUME ListInv, NEW v \in QuickOptions, NEW save \in BOOLEAN, NEW accepted \in BOOLEAN,
         OpenQuick(v, save, accepted)
  PROVE  ListInv' /\ made + 1 \in Refs /\ CreateSession(made + 1, v, accepted)
<1>a. /\ opt \in Heap /\ form \in Value /\ made \in 0..MaxRefs /\ held \in 0..MaxRefs
      /\ ListOf(sessions, made)
      /\ row \in 0..Len(sessions) /\ Len(sessions) \in Nat
  BY ListShape
<1>1. /\ ~open /\ made < MaxRefs /\ made' = made + 1 /\ opt' = [opt EXCEPT ![made + 1] = v]
      /\ sessions' = Append(sessions, made + 1) \/ sessions' = sessions
      /\ open' = open /\ row' = row /\ held' = held /\ form' = form
  BY DEF OpenQuick, User
<1>2. made + 1 \in Refs /\ made' \in 0..MaxRefs /\ made \in Nat
  BY <1>a, <1>1, RefsNat DEF Refs
<1>3. opt' \in Heap
  BY <1>a, <1>1, QuickType DEF Heap
<1>4. ListOf(sessions', made') /\ Len(sessions') \in Nat /\ Len(sessions) <= Len(sessions')
  <2>1. /\ sessions \in Seq(Refs) /\ IsInjective(sessions)
        /\ \A i \in DOMAIN sessions : sessions[i] <= made /\ sessions[i] \in Nat
    <3>1. sessions \in Seq(Refs) /\ IsInjective(sessions)
          /\ \A i \in DOMAIN sessions : sessions[i] <= made
      BY <1>a DEF ListOf
    <3>2. \A i \in DOMAIN sessions : sessions[i] \in Refs
      BY <3>1
    <3> QED
      BY <3>1, <3>2 DEF Refs
  <2>2. CASE sessions' = sessions
    BY <1>a, <1>1, <1>2, <2>1, <2>2 DEF ListOf
  <2>3. CASE sessions' = Append(sessions, made + 1)
    <3>1. /\ sessions' \in Seq(Refs) /\ Len(sessions') = Len(sessions) + 1
          /\ DOMAIN sessions' = 1..(Len(sessions) + 1) /\ DOMAIN sessions = 1..Len(sessions)
          /\ \A i \in 1..Len(sessions) : sessions'[i] = sessions[i]
          /\ sessions'[Len(sessions) + 1] = made + 1
      BY <1>a, <1>2, <2>1, <2>3
    <3>2. \A i \in DOMAIN sessions' : sessions'[i] <= made'
      BY <1>a, <1>1, <1>2, <2>1, <3>1
    <3>3. IsInjective(sessions')
      <4> SUFFICES ASSUME NEW i \in DOMAIN sessions', NEW j \in DOMAIN sessions',
                          sessions'[i] = sessions'[j]
                   PROVE  i = j
        BY DEF IsInjective
      <4>a. sessions'[i] = sessions'[j]
        OBVIOUS
      <4>1. /\ i \in 1..Len(sessions) \/ i = Len(sessions) + 1
            /\ j \in 1..Len(sessions) \/ j = Len(sessions) + 1
        BY <1>a, <3>1
      <4>2. \A k, l \in 1..Len(sessions) : sessions[k] = sessions[l] => k = l
        BY <2>1, <3>1 DEF IsInjective
      <4>3. \A k \in 1..Len(sessions) : sessions[k] # made + 1
        BY <1>2, <2>1, <3>1
      <4> QED
        BY <3>1, <4>a, <4>1, <4>2, <4>3
    <3> QED
      BY <1>a, <3>1, <3>2, <3>3 DEF ListOf
  <2> QED
    BY <1>1, <2>2, <2>3
<1>5. row' \in 0..Len(sessions')
  BY <1>a, <1>1, <1>4
<1>6. held' \in 0..MaxRefs /\ form' \in Value
  BY <1>a, <1>1
<1>8. open' \in BOOLEAN /\ ~open'
  BY <1>1, ListShape
<1>7. ListInv'
  BY <1>2, <1>3, <1>4, <1>5, <1>6, <1>8, ListMade
<1> QED
  BY <1>2, <1>7 DEF OpenQuick

LEMMA ModifyStep ==
  ASSUME ListInv, ref \in [Tabs -> 0..MaxRefs], NEW t \in Tabs, NEW f \in Forms,
         ModifyOptions(t, f)
  PROVE  ListInv'
<1>a. /\ opt \in Heap /\ form \in Value /\ open \in BOOLEAN /\ held \in 0..MaxRefs
      /\ row \in 0..Len(sessions)
  BY ListShape
<1>b. open /\ row # 0 => held = sessions[row]
  BY ListShape
<1>1. f \in Value /\ OptionsAfter(f) \in Value
  BY DeviceListAssumption, NamedType DEF OptionsAfter
<1>2. opt' \in Heap
  BY <1>a, <1>1 DEF Heap, ModifyOptions
<1>3. /\ sessions' = sessions /\ made' = made
      /\ open' = open /\ row' = row /\ held' = held /\ form' = form
  BY DEF ModifyOptions
<1> QED
  BY <1>a, <1>b, <1>2, <1>3, ListKept

LEMMA ListStays == ListInv /\ UNCHANGED listVars => ListInv'
BY DEF ListInv, ListTypeOK, EditsReachSelected, DictsMade, listVars

-----------------------------------------------------------------------------
(* The tabs and their labels.                                              *)

\* The labels of the tabs.
Used == {label[t] : t \in tabs}
TabsOK ==
  /\ tabs \subseteq Tabs /\ born \in 0..MaxTabs /\ tabs \subseteq 1..born
  /\ ref \in [Tabs -> 0..MaxRefs] /\ \A t \in tabs : ref[t] # NoRef
  /\ label \in [Tabs -> Names] /\ display \in [Tabs -> Names]
  /\ conn \in [Tabs -> States]
  /\ clashes \subseteq SUBSET Tabs /\ crowded \in BOOLEAN
LabelsOK ==
  \A t, u \in tabs : label[t] = label[u] => t = u \/ {t, u} \in clashes \/ crowded

\* If a name and all its numbers are labels, there are more tabs than numbers.
LEMMA AllNumbersTaken ==
  ASSUME TabsOK, NEW name \in Names, name \in Used,
         \A i \in 1..MaxSuffix : Append(name, i) \in Used
  PROVE  Cardinality(tabs) > MaxSuffix
<1> DEFINE nm(i) == IF i = 0 THEN name ELSE Append(name, i)
           f == [i \in 0..MaxSuffix |-> CHOOSE t \in tabs : label[t] = nm(i)]
<1>0. MaxSuffix \in Nat /\ MaxTabs \in Nat
  BY DeviceListAssumption, MainWindowAssumption
<1>1. \A i \in 0..MaxSuffix : nm(i) \in Used
  <2> TAKE i \in 0..MaxSuffix
  <2>1. i # 0 => i \in 1..MaxSuffix
    BY <1>0
  <2> QED
    BY <2>1
<1>2. \A i, j \in 0..MaxSuffix : nm(i) = nm(j) => i = j
  <2> SUFFICES ASSUME NEW i \in 0..MaxSuffix, NEW j \in 0..MaxSuffix, nm(i) = nm(j)
               PROVE  i = j
    OBVIOUS
  <2>0. name \in Seq(Nat) /\ Len(name) \in Nat /\ i \in Nat /\ j \in Nat
    BY <1>0 DEF Names
  <2>1. \A k \in Nat : /\ Len(Append(name, k)) = Len(name) + 1
                       /\ Append(name, k)[Len(name) + 1] = k
    BY <2>0
  <2>2. \A k \in Nat : Append(name, k) # name
    BY <2>0, <2>1
  <2>3. CASE i = 0 \/ j = 0
    BY <2>0, <2>2, <2>3
  <2>4. CASE i # 0 /\ j # 0
    <3>1. Append(name, i) = Append(name, j)
      BY <2>4
    <3> HIDE DEF nm
    <3> QED
      BY <2>0, <2>1, <3>1
  <2> QED
    BY <2>3, <2>4
<1>3. \A i \in 0..MaxSuffix : f[i] \in tabs /\ label[f[i]] = nm(i)
  <2> TAKE i \in 0..MaxSuffix
  <2>1. \E t \in tabs : label[t] = nm(i)
    <3> HIDE DEF nm
    <3> QED
      BY <1>1 DEF Used
  <2>2. f[i] = CHOOSE t \in tabs : label[t] = nm(i)
    OBVIOUS
  <2> HIDE DEF f, nm
  <2> QED
    BY <2>1, <2>2
<1>4. f \in [0..MaxSuffix -> tabs]
  <2>1. f = [i \in 0..MaxSuffix |-> f[i]]
    OBVIOUS
  <2> HIDE DEF f
  <2> QED
    BY <1>3, <2>1
<1> HIDE DEF f, nm
<1>5. IsFiniteSet(tabs) /\ Cardinality(tabs) \in Nat
  <2>1. IsFiniteSet(1..MaxTabs)
    BY <1>0, FS_Interval
  <2>2. tabs \in SUBSET (1..MaxTabs)
    BY DEF TabsOK, Tabs
  <2> QED
    BY <2>1, <2>2, FS_Subset, FS_CardinalityType
<1>6. IsFiniteSet(0..MaxSuffix) /\ Cardinality(0..MaxSuffix) = MaxSuffix + 1
  BY <1>0, FS_Interval
<1>7. ~(Cardinality(tabs) < Cardinality(0..MaxSuffix))
  <2> SUFFICES ASSUME Cardinality(tabs) < Cardinality(0..MaxSuffix) PROVE FALSE
    OBVIOUS
  <2>1. \E x, y \in 0..MaxSuffix : x # y /\ f[x] = f[y]
    BY <1>4, <1>5, <1>6, FS_PigeonHole
  <2> QED
    BY <1>2, <1>3, <2>1
<1> QED
  BY <1>0, <1>5, <1>6, <1>7

\* The name a tab is given: no label, unless there are more tabs than numbers.
LEMMA TableNameShape ==
  ASSUME TabsOK, NEW name \in Names
  PROVE  /\ TableName(name) \in Names
         /\ TableName(name) \in Used => Cardinality(tabs) > MaxSuffix
<1>1. TableName(name) = IF name \in Used THEN Fresh(name, Used) ELSE name
  BY DEF TableName, Used
<1>2. CASE name \notin Used
  BY <1>1, <1>2
<1>3. CASE name \in Used
  <2> DEFINE used == Used
  <2> HIDE DEF used
  <2>1. /\ Fresh(name, used) \in Names
        /\ (\E i \in 1..MaxSuffix : Append(name, i) \notin used) => Fresh(name, used) \notin used
    BY FreshShape
  <2>2. used = Used
    BY DEF used
  <2> QED
    BY <1>1, <1>3, <2>1, <2>2, AllNumbersTaken
<1> QED
  BY <1>2, <1>3

LEMMA SessionNameType ==
  ASSUME NEW v \in Value PROVE SessionName(v) \in Names
BY DEF SessionName, Value, Names, CallHome

\* A tab is opened.
LEMMA CreateStep ==
  ASSUME TabsOK, LabelsOK, NEW r \in Refs, NEW v \in Value, NEW accepted \in BOOLEAN,
         CreateSession(r, v, accepted)
  PROVE  TabsOK' /\ LabelsOK' /\ tabs \subseteq tabs'
<1>1. CASE v.home /\ ~accepted
  BY <1>1 DEF CreateSession, tabVars, TabsOK, LabelsOK
<1>2. CASE ~(v.home /\ ~accepted)
  <2> DEFINE t == born + 1
             name == TableName(SessionName(v))
  <2>1. /\ born < MaxTabs /\ born' = t /\ tabs' = tabs \cup {t}
        /\ ref' = [ref EXCEPT ![t] = r]
        /\ label' = [label EXCEPT ![t] = name]
        /\ display' = [display EXCEPT ![t] = name]
        /\ conn' = [conn EXCEPT ![t] = "trying"]
        /\ crowded' = (crowded \/ Cardinality(tabs) > MaxSuffix)
        /\ clashes' = clashes
    BY <1>2 DEF CreateSession
  <2>2. /\ name \in Names
        /\ name \in Used => Cardinality(tabs) > MaxSuffix
    BY SessionNameType, TableNameShape
  <2>3. born \in Nat /\ MaxTabs \in Nat /\ t \in Nat /\ born <= MaxTabs
    BY MainWindowAssumption DEF TabsOK
  <2>4. t \in Tabs /\ t \notin tabs /\ t \in 0..MaxTabs
    BY <2>1, <2>3 DEF TabsOK, Tabs
  <2> HIDE DEF name
  <2>5. r \in 0..MaxRefs /\ r # NoRef
    BY RefsNat
  <2>6. TabsOK'
    <3>1. tabs' \subseteq Tabs /\ born' \in 0..MaxTabs
      BY <2>1, <2>4 DEF TabsOK
    <3>2. tabs' \subseteq 1..born'
      <4>1. tabs \subseteq 1..born
        BY DEF TabsOK
      <4> QED
        BY <2>1, <2>3, <4>1
    <3>3. ref' \in [Tabs -> 0..MaxRefs] /\ \A u \in tabs' : ref'[u] # NoRef
      BY <2>1, <2>4, <2>5 DEF TabsOK
    <3>4. label' \in [Tabs -> Names] /\ display' \in [Tabs -> Names]
      BY <2>1, <2>2, <2>4 DEF TabsOK
    <3>5. conn' \in [Tabs -> States]
      BY <2>1, <2>4 DEF TabsOK, States
    <3>6. clashes' \subseteq SUBSET Tabs
      BY <2>1 DEF TabsOK
    <3>7. crowded' \in BOOLEAN
      BY <2>1
    <3> QED
      BY <3>1, <3>2, <3>3, <3>4, <3>5, <3>6, <3>7 DEF TabsOK
  <2>7. LabelsOK'
    <3>1. label \in [Tabs -> Names] /\ tabs \subseteq Tabs
      BY DEF TabsOK
    <3>2. \A u \in tabs : label'[u] = label[u] /\ label[u] \in Used
      BY <2>1, <2>4, <3>1 DEF Used
    <3>3. label'[t] = name
      BY <2>1, <2>4, <3>1
    <3> HIDE DEF t
    <3>4. ASSUME NEW u \in tabs, label'[u] = label'[t] PROVE crowded'
      BY <2>1, <2>2, <3>2, <3>3, <3>4
    <3>5. ASSUME NEW u \in tabs, NEW w \in tabs, label'[u] = label'[w]
          PROVE  u = w \/ {u, w} \in clashes' \/ crowded'
      <4>1. label[u] = label[w]
        BY <3>2, <3>5
      <4> QED
        BY <2>1, <4>1 DEF LabelsOK
    <3> QED
      BY <2>1, <3>4, <3>5 DEF LabelsOK
  <2> QED
    BY <2>1, <2>6, <2>7
<1> QED
  BY <1>1, <1>2

\* A tab is renamed by the user.
LEMMA RenameStep ==
  ASSUME TabsOK, LabelsOK, NEW t \in tabs, NEW name \in Labels, Rename(t, name)
  PROVE  TabsOK' /\ LabelsOK'
<1> DEFINE same == {w \in tabs \ {t} : label[w] = name}
<1>1. /\ label' = [label EXCEPT ![t] = name]
      /\ clashes' = clashes \cup {{t, u} : u \in same}
      /\ tabs' = tabs /\ born' = born /\ ref' = ref /\ display' = display
      /\ conn' = conn /\ crowded' = crowded
  BY DEF Rename
<1>2. name \in Names /\ t \in Tabs /\ tabs \subseteq Tabs /\ label \in [Tabs -> Names]
  BY MainWindowAssumption DEF TabsOK
<1>3. TabsOK'
  <2>1. label' \in [Tabs -> Names]
    BY <1>1, <1>2
  <2>2. clashes' \subseteq SUBSET Tabs
    BY <1>1, <1>2 DEF TabsOK
  <2> QED
    BY <1>1, <2>1, <2>2 DEF TabsOK
<1>4. ASSUME NEW u \in tabs, u # t, label'[u] = label'[t] PROVE {t, u} \in clashes'
  <2>1. label'[u] = label[u] /\ label'[t] = name
    BY <1>1, <1>2, <1>4
  <2>2. u \in same
    BY <1>4, <2>1
  <2> HIDE DEF same
  <2> QED
    BY <1>1, <2>2
<1>5. ASSUME NEW u \in tabs, NEW w \in tabs, u # t, w # t, label'[u] = label'[w]
      PROVE  u = w \/ {u, w} \in clashes' \/ crowded'
  <2>1. label'[u] = label[u] /\ label'[w] = label[w]
    BY <1>1, <1>2, <1>5
  <2> QED
    BY <1>1, <1>5, <2>1 DEF LabelsOK
<1> HIDE DEF same
<1>6. ASSUME NEW u \in tabs, NEW w \in tabs, label'[u] = label'[w]
      PROVE  u = w \/ {u, w} \in clashes' \/ crowded'
  <2>1. CASE u = t /\ w # t
    <3>1. {t, w} \in clashes'
      BY <1>4, <1>6, <2>1
    <3> QED
      BY <2>1, <3>1
  <2>2. CASE w = t /\ u # t
    <3>1. {t, u} \in clashes'
      BY <1>4, <1>6, <2>2
    <3>2. {u, w} = {t, u}
      BY <2>2
    <3> QED
      BY <3>1, <3>2
  <2> QED
    BY <1>5, <1>6, <2>1, <2>2
<1> QED
  BY <1>1, <1>3, <1>6 DEF LabelsOK

\* A tab is given back the name of its session.
LEMMA ResetStep ==
  ASSUME TabsOK, LabelsOK, opt \in Heap, NEW t \in tabs, ResetName(t)
  PROVE  TabsOK' /\ LabelsOK'
<1> DEFINE name == TableName(SessionName(opt[ref[t]]))
<1>1. /\ label' = [label EXCEPT ![t] = name]
      /\ display' = [display EXCEPT ![t] = name]
      /\ crowded' = (crowded \/ Cardinality(tabs) > MaxSuffix)
      /\ tabs' = tabs /\ born' = born /\ ref' = ref /\ clashes' = clashes /\ conn' = conn
  BY DEF ResetName
<1>2. t \in Tabs /\ tabs \subseteq Tabs /\ label \in [Tabs -> Names]
  BY DEF TabsOK
<1>3. ref[t] \in Refs
  BY RefsNat DEF TabsOK
<1>4. opt[ref[t]] \in Value
  BY <1>3 DEF Heap
<1>5. /\ name \in Names
      /\ name \in Used => Cardinality(tabs) > MaxSuffix
  BY <1>4, SessionNameType, TableNameShape
<1> HIDE DEF name
<1>6. TabsOK'
  <2>1. label' \in [Tabs -> Names] /\ display' \in [Tabs -> Names]
    BY <1>1, <1>2, <1>5 DEF TabsOK
  <2>2. crowded' \in BOOLEAN
    BY <1>1
  <2> QED
    BY <1>1, <2>1, <2>2 DEF TabsOK
<1>7. ASSUME NEW u \in tabs, u # t, label'[u] = label'[t] PROVE crowded'
  <2>1. label'[u] = label[u] /\ label'[t] = name
    BY <1>1, <1>2, <1>7
  <2>2. label[u] \in Used
    BY DEF Used
  <2> QED
    BY <1>1, <1>5, <1>7, <2>1, <2>2
<1>8. ASSUME NEW u \in tabs, NEW w \in tabs, u # t, w # t, label'[u] = label'[w]
      PROVE  u = w \/ {u, w} \in clashes' \/ crowded'
  <2>1. label'[u] = label[u] /\ label'[w] = label[w]
    BY <1>1, <1>2, <1>8
  <2> QED
    BY <1>1, <1>8, <2>1 DEF LabelsOK
<1>9. ASSUME NEW u \in tabs, NEW w \in tabs, label'[u] = label'[w]
      PROVE  u = w \/ {u, w} \in clashes' \/ crowded'
  <2>1. CASE u = t /\ w # t
    BY <1>7, <1>9, <2>1
  <2>2. CASE w = t /\ u # t
    BY <1>7, <1>9, <2>2
  <2> QED
    BY <1>8, <1>9, <2>1, <2>2
<1> QED
  BY <1>1, <1>6, <1>9 DEF LabelsOK

\* Only connections change, or nothing of the tabs does.
LEMMA ConnsStep ==
  ASSUME TabsOK, LabelsOK, conn' \in [Tabs -> States],
         UNCHANGED <<tabs, born, ref, label, display, crowded, clashes>>
  PROVE  TabsOK' /\ LabelsOK'
BY DEF TabsOK, LabelsOK

\* A tab is removed.
LEMMA TakeStep ==
  ASSUME TabsOK, LabelsOK, NEW t \in Tabs, TakeTab(t)
  PROVE  TabsOK' /\ LabelsOK'
<1>1. /\ tabs' = tabs \ {t} /\ born' = born /\ crowded' = crowded
      /\ conn' = [conn EXCEPT ![t] = "off"] /\ ref' = [ref EXCEPT ![t] = NoRef]
      /\ label' = [label EXCEPT ![t] = << >>] /\ display' = [display EXCEPT ![t] = << >>]
      /\ clashes' = {c \in clashes : t \notin c}
  BY DEF TakeTab
<1>2. << >> \in Names /\ NoRef \in 0..MaxRefs /\ "off" \in States
  BY RefsNat DEF Names, NoRef, States
<1>3. TabsOK'
  <2>1. label' \in [Tabs -> Names] /\ display' \in [Tabs -> Names]
    BY <1>1, <1>2 DEF TabsOK
  <2>2. conn' \in [Tabs -> States] /\ ref' \in [Tabs -> 0..MaxRefs]
    BY <1>1, <1>2 DEF TabsOK
  <2>3. \A u \in tabs' : ref'[u] # NoRef
    BY <1>1 DEF TabsOK
  <2> QED
    BY <1>1, <2>1, <2>2, <2>3 DEF TabsOK
<1>4. LabelsOK'
  <2>1. \A u \in tabs' : u \in tabs /\ u # t /\ label'[u] = label[u]
    BY <1>1 DEF TabsOK
  <2> SUFFICES ASSUME NEW u \in tabs', NEW w \in tabs', label'[u] = label'[w]
               PROVE  u = w \/ {u, w} \in clashes' \/ crowded'
    BY DEF LabelsOK
  <2>2. label[u] = label[w] /\ u \in tabs /\ w \in tabs /\ t \notin {u, w}
    BY <2>1
  <2>3. u = w \/ {u, w} \in clashes \/ crowded
    BY <2>2 DEF LabelsOK
  <2> QED
    BY <1>1, <2>2, <2>3
<1> QED
  BY <1>3, <1>4

-----------------------------------------------------------------------------
(* What is being closed, and the whole invariant.                          *)

CloseOK ==
  /\ todo \subseteq tabs /\ confirm \in BOOLEAN /\ asking \in 0..(MaxTabs + 2)
  /\ menu.of \in 0..All
  /\ menu.of \in Tabs => menu.of \in tabs /\ menu.acts # {}
  /\ app \in {"running", "exited"} /\ ops \in 0..MaxOps
  /\ agreed \subseteq Tabs /\ drawn \subseteq Tabs
DeskInv == ListInv /\ TabsOK /\ LabelsOK /\ CloseOK /\ UnaskedKnown

LEMMA DeskImplies == DeskInv => TabNamesDistinct /\ EditsReachSelected /\ TabsBacked
BY DEF DeskInv, ListInv, TabsOK, LabelsOK, CloseOK, TypeOK, TabNamesDistinct, TabsBacked

LEMMA NumbersOfQuestions ==
  /\ MaxTabs \in Nat /\ MaxOps \in Nat
  /\ No = 0 /\ All = MaxTabs + 1 /\ Exit = MaxTabs + 2
  /\ Tabs = 1..MaxTabs
BY MainWindowAssumption DEF No, All, Exit, Tabs

LEMMA DeskInit == Init => DeskInv
<1> SUFFICES ASSUME Init PROVE DeskInv
  OBVIOUS
<1>1. TabsOK /\ LabelsOK
  <2>1. << >> \in Names /\ NoRef \in 0..MaxRefs /\ 0 \in 0..MaxTabs
    BY RefsNat, NumbersOfQuestions DEF Names, NoRef
  <2> QED
    BY <2>1 DEF Init, TabsOK, LabelsOK, States
<1>2. CloseOK
  <2>1. menu.of = 0 /\ 0 \notin Tabs /\ 0 \in 0..All /\ 0 \in 0..MaxOps /\ 0 \in 0..(MaxTabs + 2)
    BY NumbersOfQuestions DEF Init, NoMenu
  <2>2. asking = 0
    BY NumbersOfQuestions DEF Init
  <2> QED
    BY <2>1, <2>2 DEF Init, CloseOK
<1> QED
  BY <1>1, <1>2, ListInitially, UnaskedInit DEF DeskInv

LEMMA ConnectionTypes ==
  ASSUME TabsOK, NEW t \in tabs, NEW from, NEW to \in States, Turn(t, from, to)
  PROVE  /\ UNCHANGED <<listVars, tabs, born, ref, label, display, crowded, clashes>>
         /\ conn' \in [Tabs -> States]
BY DEF Turn, TabsOK

\* The user at work on options, tabs and connections.
LEMMA WorkingDesk ==
  ASSUME DeskInv, Working
  PROVE  ListInv' /\ TabsOK' /\ LabelsOK'
<1>a. ListInv /\ TabsOK /\ LabelsOK /\ opt \in Heap
  BY ListShape DEF DeskInv
<1>b. tabs \subseteq Tabs /\ ref \in [Tabs -> 0..MaxRefs] /\ \A t \in tabs : ref[t] \in Refs
  BY <1>a, RefsNat DEF TabsOK
<1>c. UNCHANGED tabVars => TabsOK' /\ LabelsOK'
  BY <1>a DEF tabVars, TabsOK, LabelsOK
<1>1. CASE InDialog
  BY <1>1, <1>a, <1>c, ListStep DEF InDialog
<1>2. ASSUME NEW accepted \in BOOLEAN, OpenDevice(accepted)
      PROVE  ListInv' /\ TabsOK' /\ LabelsOK'
  <2>1. AcceptForm /\ CreateSession(held, form, accepted)
    BY <1>2 DEF OpenDevice
  <2>2. form \in Value
    BY <1>a, ListShape
  <2> QED
    BY <1>a, <2>1, <2>2, AcceptStep, CreateStep
<1>3. ASSUME NEW accepted \in BOOLEAN, NEW v \in QuickOptions, NEW save \in BOOLEAN,
             OpenQuick(v, save, accepted)
      PROVE  ListInv' /\ TabsOK' /\ LabelsOK'
  BY <1>3, <1>a, QuickType, QuickStep, CreateStep
<1>4. ASSUME NEW accepted \in BOOLEAN, NEW t \in tabs, CloneSession(t, accepted)
      PROVE  ListInv' /\ TabsOK' /\ LabelsOK'
  <2>1. CreateSession(ref[t], opt[ref[t]], accepted) /\ UNCHANGED listVars
    BY <1>4 DEF CloneSession
  <2>2. ref[t] \in Refs
    BY <1>b
  <2>3. opt[ref[t]] \in Value
    BY <1>a, <2>2 DEF Heap
  <2> QED
    BY <1>a, <2>1, <2>2, <2>3, CreateStep, ListStays
<1>5. ASSUME NEW t \in tabs, NEW f \in Forms, ModifyOptions(t, f)
      PROVE  ListInv' /\ TabsOK' /\ LabelsOK'
  <2>1. UNCHANGED tabVars /\ t \in Tabs
    BY <1>5, <1>b DEF ModifyOptions
  <2> QED
    BY <1>5, <1>a, <1>b, <1>c, <2>1, ModifyStep
<1>6. ASSUME NEW t \in tabs, NEW name \in Labels, Rename(t, name)
      PROVE  ListInv' /\ TabsOK' /\ LabelsOK'
  <2>1. UNCHANGED listVars
    BY <1>6 DEF Rename
  <2> QED
    BY <1>6, <1>a, <2>1, RenameStep, ListStays
<1>7. ASSUME NEW t \in tabs, ResetName(t)
      PROVE  ListInv' /\ TabsOK' /\ LabelsOK'
  <2>1. UNCHANGED listVars
    BY <1>7 DEF ResetName
  <2> QED
    BY <1>7, <1>a, <2>1, ResetStep, ListStays
<1>8. ASSUME NEW t \in tabs, Disconnect(t) \/ Reconnect(t)
      PROVE  ListInv' /\ TabsOK' /\ LabelsOK'
  <2>1. /\ UNCHANGED <<listVars, tabs, born, ref, label, display, crowded, clashes>>
        /\ conn' \in [Tabs -> States]
    BY <1>8, <1>a, ConnectionTypes DEF Disconnect, Reconnect, States
  <2> QED
    BY <1>a, <2>1, ConnsStep, ListStays
<1>9. CASE ConnectionStep
  <2>1. /\ UNCHANGED <<listVars, tabs, born, ref, label, display, crowded, clashes>>
        /\ conn' \in [Tabs -> States]
    BY <1>9, <1>a, ConnectionTypes DEF ConnectionStep, States
  <2> QED
    BY <1>a, <2>1, ConnsStep, ListStays
<1>10. CASE DisconnectAll \/ ReconnectAll
  <2>1. UNCHANGED <<listVars, tabs, born, ref, label, display, crowded, clashes>>
    BY <1>10 DEF DisconnectAll, ReconnectAll
  <2>2. conn' \in [Tabs -> States]
    BY <1>10, <1>a DEF DisconnectAll, ReconnectAll, TabsOK, States
  <2> QED
    BY <1>a, <2>1, <2>2, ConnsStep, ListStays
<1>11. CASE LeaveMenu \/ UNCHANGED vars
  BY <1>11, <1>a, <1>c, ListStays DEF LeaveMenu, vars
<1> QED
  BY <1>1, <1>2, <1>3, <1>4, <1>5, <1>6, <1>7, <1>8, <1>9, <1>10, <1>11 DEF Working

LEMMA Counted ==
  ASSUME ops \in 0..MaxOps, ops < MaxOps, ops' = ops + 1
  PROVE  ops' \in 0..MaxOps
BY NumbersOfQuestions

LEMMA WorkingCounts ==
  ASSUME CloseOK, Working
  PROVE  ops' \in 0..MaxOps
<1>a. ops \in 0..MaxOps
  BY DEF CloseOK
<1>1. CASE InDialog
  <2>1. (ops' = ops \/ ops' = ops + 1) /\ ops' <= MaxOps
    BY <1>1, <1>a, NumbersOfQuestions DEF InDialog
  <2> QED
    BY <1>a, <2>1, NumbersOfQuestions
<1>2. CASE \E accepted \in BOOLEAN :
              \/ OpenDevice(accepted)
              \/ \E v \in QuickOptions, save \in BOOLEAN : OpenQuick(v, save, accepted)
              \/ \E t \in tabs : CloneSession(t, accepted)
  <2>1. ops < MaxOps /\ ops' = ops + 1
    BY <1>2 DEF OpenDevice, OpenQuick, User, CloneSession, Chosen
  <2> QED
    BY <1>a, <2>1, Counted
<1>3. CASE \E t \in tabs : \/ \E f \in Forms : ModifyOptions(t, f)
                           \/ \E name \in Labels : Rename(t, name)
                           \/ ResetName(t)
                           \/ Disconnect(t) \/ Reconnect(t)
  <2>1. ops < MaxOps /\ ops' = ops + 1
    BY <1>3 DEF ModifyOptions, Rename, ResetName, Disconnect, Reconnect, Chosen
  <2> QED
    BY <1>a, <2>1, Counted
<1>4. CASE DisconnectAll \/ ReconnectAll
  <2>1. ops < MaxOps /\ ops' = ops + 1
    BY <1>4 DEF DisconnectAll, ReconnectAll, Chosen
  <2> QED
    BY <1>a, <2>1, Counted
<1>5. CASE ConnectionStep \/ LeaveMenu \/ UNCHANGED vars
  <2>1. ops' = ops
    BY <1>5 DEF ConnectionStep, LeaveMenu, vars
  <2> QED
    BY <1>a, <2>1
<1> QED
  BY <1>1, <1>2, <1>3, <1>4, <1>5 DEF Working

LEMMA WorkingCloses ==
  ASSUME CloseOK, Working
  PROVE  CloseOK'
<1>1. /\ UNCHANGED <<closeVars, app>>
      /\ menu' = menu \/ menu' = NoMenu
      /\ tabs \subseteq tabs'
  BY WorkingKeeps
<1>2. NoMenu.of = 0 /\ 0 \notin Tabs /\ 0 \in 0..All
  BY NumbersOfQuestions DEF NoMenu
<1>3. ops' \in 0..MaxOps
  BY WorkingCounts
<1> QED
  BY <1>1, <1>2, <1>3 DEF CloseOK, closeVars

\* What is displayed, asked and closed.
LEMMA ClosingDesk ==
  ASSUME DeskInv, Opening \/ Closing
  PROVE  ListInv' /\ TabsOK' /\ LabelsOK' /\ CloseOK'
<1>a. ListInv /\ TabsOK /\ LabelsOK /\ CloseOK /\ UnaskedKnown /\ tabs \subseteq Tabs
  BY DEF DeskInv, TabsOK
<1>c. UNCHANGED <<listVars, tabVars>> => ListInv' /\ TabsOK' /\ LabelsOK'
  BY <1>a, ListStays DEF tabVars, TabsOK, LabelsOK
<1>d. /\ NoMenu.of = 0 /\ 0 \notin Tabs /\ 0 \in 0..All /\ All \in 0..All /\ All \notin Tabs
      /\ \A t \in Tabs : t \in 0..All /\ t \in 0..(MaxTabs + 2) /\ t # No
      /\ No \in 0..(MaxTabs + 2) /\ All \in 0..(MaxTabs + 2) /\ Exit \in 0..(MaxTabs + 2)
  BY NumbersOfQuestions DEF NoMenu
<1>e. ops < MaxOps /\ ops' = ops + 1 => ops' \in 0..MaxOps
  BY <1>a, Counted DEF CloseOK
<1>1. CASE Opening
  <2>1. PICK of \in tabs \cup {All} : \E acts :
          /\ acts # {} /\ menu' = [of |-> of, acts |-> acts]
          /\ UNCHANGED <<listVars, tabVars, closeVars, app, ops>>
    BY <1>1 DEF Opening, OpenMenu
  <2>2. /\ menu'.of = of /\ menu'.acts # {}
        /\ UNCHANGED <<listVars, tabVars, closeVars, app, ops>>
    BY <2>1
  <2>3. CloseOK'
    BY <1>a, <1>d, <2>2 DEF CloseOK, closeVars, tabVars
  <2> QED
    BY <1>c, <2>2, <2>3
\* An operation of the user that leaves the tabs alone for now.
<1>2. ASSUME menu' = NoMenu, ops < MaxOps, ops' = ops + 1,
             UNCHANGED <<listVars, tabVars>>,
             todo' \subseteq tabs, confirm' \in BOOLEAN, asking' \in 0..(MaxTabs + 2),
             agreed' \subseteq Tabs, drawn' \subseteq Tabs, app' \in {"running", "exited"}
      PROVE  ListInv' /\ TabsOK' /\ LabelsOK' /\ CloseOK'
  <2>1. tabs' = tabs
    BY <1>2 DEF tabVars
  <2>2. CloseOK'
    BY <1>2, <1>d, <1>e, <2>1 DEF CloseOK
  <2> QED
    BY <1>2, <1>c, <2>2
<1>3. CASE CloseSome \/ ClearDisconnected
  <2>1. PICK which \in SUBSET tabs, ask \in BOOLEAN :
          /\ menu' = NoMenu /\ ops < MaxOps /\ ops' = ops + 1 /\ Plan(which, ask)
          /\ UNCHANGED <<listVars, tabVars, asking, app>>
    BY <1>3 DEF CloseSome, Close, ClearDisconnected, Chosen, After
  <2>2. drawn' \subseteq Tabs /\ agreed' \subseteq Tabs
    BY <1>a, <2>1 DEF Plan, CloseOK
  <2> QED
    BY <1>a, <1>2, <2>1, <2>2 DEF Plan, CloseOK
<1>4. CASE CloseAll
  <2>1. /\ menu' = NoMenu /\ ops < MaxOps /\ ops' = ops + 1
        /\ asking' = All /\ drawn' = {} /\ UNCHANGED <<todo, confirm, agreed, app>>
        /\ UNCHANGED <<listVars, tabVars>>
    BY <1>4 DEF CloseAll, Chosen
  <2> QED
    BY <1>a, <1>d, <1>2, <2>1 DEF CloseOK
<1>5. CASE CloseEvent
  <2>1. /\ menu' = NoMenu /\ ops < MaxOps /\ ops' = ops + 1
        /\ asking' \in {asking, Exit} /\ app' \in {app, "exited"}
        /\ UNCHANGED <<todo, confirm, agreed>>
        /\ drawn' \subseteq tabs
        /\ UNCHANGED <<listVars, tabVars>>
    BY <1>5 DEF CloseEvent, User, Free
  <2> QED
    BY <1>a, <1>d, <1>2, <2>1 DEF CloseOK
<1>6. CASE AskNext
  <2>1. PICK t \in todo : asking' = t
    BY <1>6 DEF AskNext
  <2>2. UNCHANGED <<listVars, tabVars, todo, confirm, agreed, drawn, app, ops, menu>>
    BY <1>6 DEF AskNext
  <2>3. tabs' = tabs /\ asking' \in 0..(MaxTabs + 2)
    BY <1>a, <1>d, <2>1, <2>2 DEF CloseOK, tabVars
  <2>4. CloseOK'
    BY <1>a, <2>2, <2>3 DEF CloseOK
  <2> QED
    BY <1>c, <2>2, <2>4
\* A tab is removed while no menu is displayed.
<1>7. ASSUME NEW t \in Tabs, TakeTab(t), menu.acts = {},
             asking' \in 0..(MaxTabs + 2), agreed' \subseteq Tabs
      PROVE  ListInv' /\ TabsOK' /\ LabelsOK' /\ CloseOK'
  <2>1. UNCHANGED <<listVars, app, ops, menu, confirm>> /\ tabs' = tabs \ {t} /\ todo' = todo \ {t}
        /\ drawn' \in {drawn, {}}
    BY <1>7 DEF TakeTab, Skip
  <2>2. CloseOK'
    BY <1>7, <1>a, <2>1 DEF CloseOK
  <2> QED
    BY <1>7, <1>a, <2>1, <2>2, TakeStep, ListStays
<1>8. CASE CloseNext
  <2>1. PICK t \in todo : TakeTab(t) /\ UNCHANGED <<asking, agreed>>
    BY <1>8 DEF CloseNext
  <2>2. menu.acts = {} /\ t \in Tabs
    BY <1>a DEF UnaskedKnown, CloseOK
  <2> QED
    BY <1>a, <1>7, <2>1, <2>2 DEF CloseOK
<1>9. ASSUME NEW yes \in BOOLEAN, AnswerOne(yes)
      PROVE  ListInv' /\ TabsOK' /\ LabelsOK' /\ CloseOK'
  <2>1. asking \in Tabs /\ asking' = No
    BY <1>9 DEF AnswerOne
  <2>2. menu.acts = {} /\ asking' \in 0..(MaxTabs + 2)
    BY <1>a, <1>d, <2>1 DEF UnaskedKnown
  <2>3. CASE yes
    <3>1. TakeTab(asking) /\ agreed' = agreed \cup {asking}
      BY <1>9, <2>3 DEF AnswerOne
    <3>2. agreed' \subseteq Tabs
      BY <1>a, <2>1, <3>1 DEF CloseOK
    <3> QED
      BY <1>7, <2>1, <2>2, <3>1, <3>2
  <2>4. CASE ~yes
    <3>1. /\ UNCHANGED <<listVars, tabVars, agreed, app, ops, menu, confirm>>
          /\ todo' = todo \ {asking} /\ drawn' \in {drawn, {}}
      BY <1>9, <2>4 DEF AnswerOne, Skip
    <3>2. tabs' = tabs
      BY <3>1 DEF tabVars
    <3>3. CloseOK'
      BY <1>a, <2>2, <3>1, <3>2 DEF CloseOK
    <3> QED
      BY <1>c, <3>1, <3>3
  <2> QED
    BY <2>3, <2>4
<1>10. ASSUME NEW yes \in BOOLEAN, AnswerAll(yes) \/ AnswerExit(yes)
       PROVE  ListInv' /\ TabsOK' /\ LabelsOK' /\ CloseOK'
  <2>1. /\ asking' = No /\ UNCHANGED <<listVars, tabVars, drawn, ops, menu>>
        /\ todo' \in {todo, tabs} /\ confirm' \in {confirm, FALSE}
        /\ app' \in {app, "exited"} /\ agreed' \in {agreed, agreed \cup tabs}
    BY <1>10 DEF AnswerAll, AnswerExit
  <2>2. tabs' = tabs
    BY <2>1 DEF tabVars
  <2>3. confirm' \in BOOLEAN
    BY <1>a, <2>1 DEF CloseOK
  <2>4. CloseOK'
    BY <1>a, <1>d, <2>1, <2>2, <2>3 DEF CloseOK
  <2> QED
    BY <1>c, <2>1, <2>4
<1> QED
  BY <1>1, <1>3, <1>4, <1>5, <1>6, <1>8, <1>9, <1>10 DEF Closing, Answering

LEMMA DeskNext == DeskInv /\ [Next]_vars => DeskInv'
<1> SUFFICES ASSUME DeskInv, [Next]_vars PROVE DeskInv'
  OBVIOUS
<1>1. UnaskedKnown'
  BY UnaskedNext DEF DeskInv
<1>2. CASE Working
  BY <1>1, <1>2, WorkingDesk, WorkingCloses DEF DeskInv
<1>3. CASE Opening \/ Closing
  BY <1>1, <1>3, ClosingDesk DEF DeskInv
<1> QED
  BY <1>2, <1>3, Steps

LEMMA DeskCorrect == Spec => []DeskInv
BY DeskInit, DeskNext, PTL DEF Spec

(* Two tabs have the same label only if the user gave one of them the      *)
(* label of the other, or if there were more tabs than numbers when a name *)
(* was made (genSessionTableName), whatever was opened, cloned, renamed,   *)
(* reset and closed in between; and the state is well typed.               *)
THEOREM TabNamesStayDistinct == Spec => []TabNamesDistinct
BY DeskCorrect, DeskImplies, PTL

(* An edit in the "Connect" dialog reaches one saved session, the one that *)
(* is selected, whatever was added, duplicated, deleted, refused or opened *)
(* before: SessionOption and SessionOptionModel share the same dicts.      *)
THEOREM EditsReachTheSelected == Spec => []EditsReachSelected
BY DeskCorrect, DeskImplies, PTL
=============================================================================
