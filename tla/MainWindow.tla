------------------------------- MODULE MainWindow -------------------------------
(***************************************************************************)
(* The main window (src/NetConfTool.py): its tabs, how sessions get into   *)
(* one, what closes them, and the end of the program, together with the    *)
(* "Connect" dialog of DeviceList.                                         *)
(*                                                                         *)
(* The connection of a tab (NetconfTab has its inside) changes in its own  *)
(* thread: at any time, also while a handler goes through a list of tabs   *)
(* it has drawn up, and while a question or a menu is displayed, which run *)
(* an event loop of their own.  All dialogs are modal, so that the user    *)
(* does nothing else meanwhile.  What can be chosen in a menu is decided   *)
(* when it opens.  The same actions in the tool bar, of the current tab,   *)
(* are those of a menu that is left at once.  A tab is named by the order  *)
(* of its creation, which is the order the tabs are displayed in: moving   *)
(* them, icons and the title are left out.                                 *)
(***************************************************************************)
EXTENDS DeviceList

CONSTANTS MaxTabs,   \* tabs ever made, a bound
          Labels,    \* what a tab can be renamed to
          MaxOps     \* operations of the user, a bound

Tabs == 1..MaxTabs
States == {"off", "trying", "on"}

ASSUME MainWindowAssumption ==
    /\ MaxTabs \in Nat /\ MaxOps \in Nat
    /\ Labels \subseteq Names

VARIABLES tabs,     \* the tabs of the QTabWidget
          born,     \* how many there were
          ref,      \* NetconfSession._conf_data
          label,    \* tabText
          display,  \* NetconfSession._displayName
          conn,     \* "on": NetconfSession.connected
          todo,     \* the tabs that are still to be closed
          confirm,  \* _closeSession asks before it closes a connected tab
          menu,     \* the menu displayed: of a tab (sessionOpIndex) or of the
                    \* window, and its enabled actions
          asking,   \* the question displayed: of a tab, of all, to exit
          app,      \* "running" or "exited"
          ops,      \* operations so far
          agreed,   \* the tabs the user agreed to close
          drawn,    \* the tabs that a handler that does not ask found off
          crowded,  \* a label was made when more than MaxSuffix tabs existed
          clashes   \* pairs of tabs to which the user gave the same label

tabVars == <<tabs, born, ref, label, display, conn, crowded, clashes>>
closeVars == <<todo, confirm, asking, agreed, drawn>>
vars == <<listVars, tabVars, closeVars, app, ops, menu>>

No == 0
All == MaxTabs + 1
Exit == MaxTabs + 2
CallHome == 0
NoMenu == [of |-> No, acts |-> {}]
Connected(t) == conn[t] = "on"

Init ==
    /\ ListInit
    /\ tabs = {} /\ born = 0
    /\ ref = [t \in Tabs |-> NoRef]
    /\ label = [t \in Tabs |-> << >>] /\ display = [t \in Tabs |-> << >>]
    /\ conn = [t \in Tabs |-> "off"]
    /\ todo = {} /\ confirm = TRUE /\ asking = No
    /\ app = "running" /\ ops = 0 /\ menu = NoMenu
    /\ agreed = {} /\ drawn = {} /\ crowded = FALSE /\ clashes = {}

-----------------------------------------------------------------------------
(* NetconfSession.sessionName, of the options v.                           *)
SessionName(v) == IF v.home THEN <<CallHome>> \o v.name ELSE v.name

(* genSessionTableName: the labels of all tabs count.                      *)
TableNameOfDisplay(name) ==   \* mutant: the labels of the user are overlooked
    LET used == {display[t] : t \in tabs}
    IN  IF name \in used THEN Fresh(name, used) ELSE name
TableName(name) ==
    LET used == {label[t] : t \in tabs}
    IN  IF name \in used THEN Fresh(name, used) ELSE name

(* _createSession with the dict r, v being what it holds: the tab starts   *)
(* to connect.  The dialog of a call-home session may be rejected.         *)
CreateSession(r, v, accepted) ==
    IF v.home /\ ~accepted THEN UNCHANGED tabVars
    ELSE LET t == born + 1
             name == TableName(SessionName(v))
         IN  /\ born < MaxTabs /\ born' = t
             /\ tabs' = tabs \cup {t}
             /\ ref' = [ref EXCEPT ![t] = r]
             /\ label' = [label EXCEPT ![t] = name]
             /\ display' = [display EXCEPT ![t] = name]
             /\ conn' = [conn EXCEPT ![t] = "trying"]
             /\ crowded' = (crowded \/ Cardinality(tabs) > MaxSuffix)
             /\ UNCHANGED clashes

Free == app = "running" /\ todo = {} /\ asking = No /\ menu = NoMenu
User == Free /\ ~open /\ ops < MaxOps /\ ops' = ops + 1 /\ UNCHANGED menu

-----------------------------------------------------------------------------
(* The menus: _onCustomMenuRequest of a tab; "File" and "Window".          *)
If(condition, act) == IF condition THEN {act} ELSE {}
SomeOn == \E t \in tabs : Connected(t)
SomeOff == \E t \in tabs : ~Connected(t)

After(t) == {u \in tabs : u > t}
TabMenu(t) ==
    {"rename", "close", "closeAll", "options"}
      \cup If(label[t] # display[t], "reset")
      \cup (IF Connected(t) THEN {"disconnect", "clone"} ELSE {"reconnect"})
      \cup If(After(t) # {}, "closeRight")
      \cup If(tabs # {t}, "closeOther")
      \cup If(SomeOff, "closeDisconnected")
FileMenu == If(SomeOff, "reconnectAll") \cup If(SomeOn, "disconnectAll")
WindowMenu == If(tabs # {}, "closeAll") \cup If(SomeOff, "closeDisconnected")

OpenMenu(of, acts) ==
    /\ Free /\ ~open /\ acts # {}
    /\ menu' = [of |-> of, acts |-> acts]
    /\ UNCHANGED <<listVars, tabVars, closeVars, app, ops>>
LeaveMenu ==
    /\ menu # NoMenu /\ menu' = NoMenu
    /\ UNCHANGED <<listVars, tabVars, closeVars, app, ops>>
Chosen(act, of) ==
    /\ menu.of = of /\ act \in menu.acts /\ menu' = NoMenu
    /\ app = "running" /\ ops < MaxOps /\ ops' = ops + 1

-----------------------------------------------------------------------------
(* Options and tabs.                                                       *)

(* openDevice: the dialog, and a tab when it is accepted.                  *)
InDialog ==
    /\ Free /\ DialogStep
    /\ ops' = ops + IF <<opt', sessions', open'>> = <<opt, sessions, open>> THEN 0 ELSE 1
    /\ ops' <= MaxOps
    /\ UNCHANGED <<tabVars, closeVars, app, menu>>
OpenDevice(accepted) ==
    /\ Free /\ ops < MaxOps /\ ops' = ops + 1
    /\ AcceptForm
    /\ CreateSession(held, form, accepted)
    /\ UNCHANGED <<closeVars, app, menu>>

(* openDeviceQuick, and a recent session, which is not saved: a new dict.  *)
OpenQuick(v, save, accepted) ==
    LET r == made + 1
    IN  /\ User /\ made < MaxRefs
        /\ made' = r /\ opt' = [opt EXCEPT ![r] = v]
        /\ sessions' = IF save /\ ~Stored(opt, v) THEN Append(sessions, r) ELSE sessions
        /\ CreateSession(r, v, accepted)
        /\ UNCHANGED <<open, row, held, form, closeVars, app>>

(* onCloneSession: both tabs share their options.                          *)
CloneSession(t, accepted) ==
    /\ Chosen("clone", t)
    /\ CreateSession(ref[t], opt[ref[t]], accepted)
    /\ UNCHANGED <<listVars, closeVars, app>>

(* onModifySessionOptions: pressing OK stores the form in the options of   *)
(* the tab; if it is refused they keep it, whatever the user does next.    *)
ModifyOptions(t, f) ==
    /\ Chosen("options", t)
    /\ opt' = [opt EXCEPT ![ref[t]] = OptionsAfter(f)]
    /\ UNCHANGED <<made, sessions, open, row, held, form, tabVars, closeVars, app>>

(* _renameSessionTabName and _resetSessionTabName.                         *)
Rename(t, name) ==
    /\ Chosen("rename", t)
    /\ label' = [label EXCEPT ![t] = name]
    /\ clashes' = clashes \cup {{t, u} : u \in {w \in tabs \ {t} : label[w] = name}}
    /\ UNCHANGED <<tabs, born, ref, display, conn, crowded, listVars, closeVars, app>>
ResetName(t) ==
    LET name == TableName(SessionName(opt[ref[t]]))
    IN  /\ Chosen("reset", t)
        /\ label' = [label EXCEPT ![t] = name]
        /\ display' = [display EXCEPT ![t] = name]
        /\ crowded' = (crowded \/ Cardinality(tabs) > MaxSuffix)
        /\ UNCHANGED <<tabs, born, ref, conn, clashes, listVars, closeVars, app>>

-----------------------------------------------------------------------------
(* The connections.                                                        *)
Turn(t, from, to) ==
    /\ t \in tabs /\ app = "running"
    /\ conn[t] \in from /\ conn' = [conn EXCEPT ![t] = to]
    /\ UNCHANGED <<listVars, tabs, born, ref, label, display, crowded, clashes, closeVars, app>>

(* In the thread of a tab, or its timer.                                   *)
ConnectionStep ==
    /\ \E t \in tabs : \/ Turn(t, {"trying"}, "on")
                        \/ Turn(t, {"trying", "on"}, "off")
                        \/ Turn(t, {"off"}, "trying")
    /\ UNCHANGED <<ops, menu>>

(* onDisconnectDevice, onReconnectDevice; the latter refuses what has been *)
(* called home, onReconnectDeviceAll does not.                             *)
Disconnect(t) == Chosen("disconnect", t) /\ Turn(t, {"on"}, "off")
Reconnect(t) ==
    /\ Chosen("reconnect", t) /\ ~opt[ref[t]].home
    /\ Turn(t, {"off", "trying"}, "trying")
DisconnectAll ==
    /\ Chosen("disconnectAll", All)
    /\ conn' = [t \in Tabs |-> IF t \in tabs /\ Connected(t) THEN "off" ELSE conn[t]]
    /\ UNCHANGED <<listVars, tabs, born, ref, label, display, crowded, clashes, closeVars, app>>
ReconnectAll ==
    /\ Chosen("reconnectAll", All)
    /\ conn' = [t \in Tabs |-> IF t \in tabs /\ ~Connected(t) THEN "trying" ELSE conn[t]]
    /\ UNCHANGED <<listVars, tabs, born, ref, label, display, crowded, clashes, closeVars, app>>

-----------------------------------------------------------------------------
(* What closes tabs.                                                       *)
Plan(which, ask) ==
    /\ todo' = which /\ confirm' = ask
    /\ drawn' = IF ask THEN {} ELSE which
    /\ UNCHANGED agreed

(* onClose, onCloseOtherSession, onCloseToRight, and                       *)
(* onClearAllDisconnectedSessions, which does not ask.                     *)
Close(act, t, which) ==
    /\ Chosen(act, t) /\ Plan(which, TRUE)
    /\ UNCHANGED <<listVars, tabVars, asking, app>>
ClearDisconnected ==
    /\ Chosen("closeDisconnected", menu.of)
    /\ Plan({t \in tabs : ~Connected(t)}, FALSE)
    /\ UNCHANGED <<listVars, tabVars, asking, app>>

(* onCloseAllSessions: the list is made before the question is asked.      *)
CloseAll ==
    /\ Chosen("closeAll", menu.of)
    /\ asking' = All
    /\ drawn' = {} /\ UNCHANGED <<todo, confirm, agreed>>
    /\ UNCHANGED <<listVars, tabVars, app>>

(* _closeSession of the next tab: it asks first,                           *)
First(t) == t \in todo /\ \A u \in todo : t <= u
AskNext ==
    \E t \in todo :
        /\ First(t) /\ asking = No
        /\ confirm /\ Connected(t)
        /\ asking' = t
        /\ UNCHANGED <<listVars, tabVars, todo, confirm, agreed, drawn, app, ops, menu>>

(* or removes it.                                                          *)
Skip(t) ==
    /\ todo' = todo \ {t}
    /\ drawn' = IF todo' = {} THEN {} ELSE drawn
    /\ UNCHANGED confirm
TakeTab(t) ==
    /\ tabs' = tabs \ {t}
    /\ conn' = [conn EXCEPT ![t] = "off"]
    /\ ref' = [ref EXCEPT ![t] = NoRef]
    /\ label' = [label EXCEPT ![t] = << >>]
    /\ display' = [display EXCEPT ![t] = << >>]
    /\ clashes' = {c \in clashes : t \notin c}
    /\ Skip(t)
    /\ UNCHANGED <<listVars, born, crowded, app, ops, menu>>
CloseNextUnasked ==   \* mutant: every tab counts as one to close unasked
    \E t \in todo : First(t) /\ asking = No /\ TakeTab(t) /\ UNCHANGED <<asking, agreed>>
CloseNext ==
    \E t \in todo :
        /\ First(t) /\ asking = No
        /\ ~(confirm /\ Connected(t))
        /\ TakeTab(t)
        /\ UNCHANGED <<asking, agreed>>

(* The answer to the question of one tab, to that of all, to that of the   *)
(* end: closeEvent is ignored or accepted.                                 *)
AnswerOne(yes) ==
    /\ asking \in Tabs /\ asking' = No
    /\ IF yes THEN TakeTab(asking) /\ agreed' = agreed \cup {asking}
       ELSE Skip(asking) /\ UNCHANGED <<listVars, tabVars, agreed, app, ops, menu>>
AnswerAll(yes) ==
    /\ asking = All /\ asking' = No
    /\ IF yes THEN todo' = tabs /\ confirm' = FALSE /\ agreed' = agreed \cup tabs
       ELSE UNCHANGED <<todo, confirm, agreed>>
    /\ UNCHANGED <<listVars, tabVars, drawn, app, ops, menu>>
AnswerExit(yes) ==
    /\ asking = Exit /\ asking' = No
    /\ app' = IF yes THEN "exited" ELSE app
    /\ agreed' = IF yes THEN agreed \cup tabs ELSE agreed
    /\ UNCHANGED <<listVars, tabVars, todo, confirm, drawn, ops, menu>>

CloseEvent ==
    /\ User
    /\ drawn' = {t \in tabs : ~Connected(t)}
    /\ IF drawn' # tabs THEN asking' = Exit /\ UNCHANGED app
                         ELSE app' = "exited" /\ UNCHANGED asking
    /\ UNCHANGED <<listVars, tabVars, todo, confirm, agreed>>

Next ==
    \/ InDialog
    \/ \E accepted \in BOOLEAN :
          \/ OpenDevice(accepted)
          \/ \E v \in QuickOptions, save \in BOOLEAN : OpenQuick(v, save, accepted)
          \/ \E t \in tabs : CloneSession(t, accepted)
    \/ \E t \in tabs : \/ \E f \in Forms : ModifyOptions(t, f)
                        \/ \E name \in Labels : Rename(t, name)
                        \/ ResetName(t)
                        \/ Disconnect(t) \/ Reconnect(t)
                        \/ Close("close", t, {t})
                        \/ Close("closeOther", t, tabs \ {t})
                        \/ Close("closeRight", t, After(t))
                        \/ OpenMenu(t, TabMenu(t))
    \/ OpenMenu(All, FileMenu) \/ OpenMenu(All, WindowMenu) \/ LeaveMenu
    \/ ConnectionStep \/ DisconnectAll \/ ReconnectAll
    \/ ClearDisconnected \/ CloseAll \/ AskNext \/ CloseNext
    \/ \E yes \in BOOLEAN : AnswerOne(yes) \/ AnswerAll(yes) \/ AnswerExit(yes)
    \/ CloseEvent

Spec == Init /\ [][Next]_vars

-----------------------------------------------------------------------------
TypeOK ==
    /\ ListTypeOK
    /\ tabs \subseteq Tabs /\ born \in 0..MaxTabs
    /\ ref \in [Tabs -> 0..MaxRefs]
    /\ label \in [Tabs -> Names] /\ display \in [Tabs -> Names]
    /\ conn \in [Tabs -> States]
    /\ todo \subseteq tabs /\ confirm \in BOOLEAN
    /\ asking \in 0..(MaxTabs + 2)
    /\ menu.of \in 0..All /\ (menu.of \in Tabs => menu.of \in tabs)
    /\ app \in {"running", "exited"} /\ ops \in 0..MaxOps
    /\ agreed \subseteq Tabs /\ drawn \subseteq Tabs /\ clashes \subseteq SUBSET Tabs
    /\ crowded \in BOOLEAN

(* Two tabs have the same label only if the user gave one of them the      *)
(* label of the other, or if there were more tabs than numbers: a tab that *)
(* is opened, cloned or reset avoids the labels of the user too.  And the  *)
(* state is well typed.                                                    *)
TabNamesDistinct ==
    /\ TypeOK
    /\ \A t, u \in tabs : label[t] = label[u] => t = u \/ {t, u} \in clashes \/ crowded

(* A connected tab is closed, alone, among others or with the program,     *)
(* only if the user agreed, or if "close all disconnected" or the end of   *)
(* the program, which do not ask for it, found it disconnected and it has  *)
(* connected since, in its own thread.                                     *)
ClosedWithConsent ==
    [][\A t \in tabs : Connected(t) /\ (t \notin tabs' \/ app' # app)
                           => t \in agreed' \cup drawn]_vars

(* Why: what is closed without a question was agreed to, or was found off; *)
(* and nothing is being closed while a menu is displayed.                  *)
UnaskedKnown ==
    /\ ~confirm => todo \subseteq agreed \cup drawn
    /\ menu.acts # {} => todo = {} /\ asking = No

(* Why: a tab that is made is not there yet, each tab has options, and the *)
(* menu of a tab is displayed as long as it has something to choose.       *)
TabsBacked ==
    /\ tabs \subseteq 1..born
    /\ \A t \in tabs : ref[t] # NoRef
    /\ menu.of \in Tabs => menu.acts # {}
=============================================================================
