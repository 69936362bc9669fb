------------------------------- MODULE DeviceList -------------------------------
(***************************************************************************)
(* The saved sessions and the "Connect" dialog that edits them             *)
(* (src/device_manage.py).  The options of a session are a dict, and the   *)
(* same dict is the entry of the list, what the form of the dialog writes  *)
(* to, and the options of the tabs opened from it: "opt" is the heap of    *)
(* these dicts, everything else holds references into it.                  *)
(*                                                                         *)
(* Reading SessionOption.data stores the form in the dict, before anybody  *)
(* looks whether it is acceptable.  Rows are counted from 1, row 0 is the  *)
(* invalid index.  A name is a sequence of numbers, so that "x(1)" is the  *)
(* number of x and 1.  Of the fields, name, host and type are kept: the    *)
(* host 0 stands for all that SessionOptionsCheck refuses.                 *)
(***************************************************************************)
EXTENDS Integers, Sequences, SequencesExt, FiniteSets

CONSTANTS MaxRefs,    \* dicts ever made, a bound
          Saved,      \* the sessions of setting.json
          Forms,      \* what a form can be filled with
          MaxSuffix   \* 99 in the code

Refs == 1..MaxRefs
NoRef == 0
NoHost == 0
Blank == [name |-> << >>, host |-> NoHost, home |-> FALSE]
Names == Seq(Nat)
Value == [name : Names, host : Nat, home : BOOLEAN]

ASSUME DeviceListAssumption ==
    /\ MaxRefs \in Nat /\ MaxSuffix \in Nat \ {0}
    /\ Saved \in Seq(Value) /\ Len(Saved) <= MaxRefs
    /\ Forms \subseteq Value

VARIABLES opt,       \* the dicts
          made,      \* how many there are
          sessions,  \* AppData._sessions, SessionOptionModel._sessions
          open,      \* the dialog is open
          row,       \* the current row of its list
          held,      \* SessionOption._option
          form       \* the fields of the form

listVars == <<opt, made, sessions, open, row, held, form>>

ListInit ==
    /\ opt = [r \in Refs |-> IF r <= Len(Saved) THEN Saved[r] ELSE Blank]
    /\ made = Len(Saved)
    /\ sessions = [i \in DOMAIN Saved |-> i]
    /\ open = FALSE /\ row = 0 /\ held = NoRef /\ form = Blank

Valid(v) == v.host # NoHost
Named(v) == IF v.name = << >> THEN [v EXCEPT !.name = <<v.host>>] ELSE v

(* SessionOptionDiag: OK stores the form even if it is refused.            *)
OptionsAfter(f) == IF Valid(f) THEN Named(f) ELSE f

(* QuickConnectDialg: what it can be accepted with.                        *)
QuickOptions == {Named(f) : f \in {g \in Forms : Valid(g)}}

Stored(o, v) == \E i \in DOMAIN sessions : o[sessions[i]] = v

(* str() of a name that is in use: the first free suffix, the last if none *)
(* is free.                                                                *)
Fresh(name, used) ==
    LET free == {i \in 1..MaxSuffix : Append(name, i) \notin used}
    IN  Append(name, IF free = {} THEN MaxSuffix
                     ELSE CHOOSE i \in free : \A j \in free : i <= j)

(* SessionOption.setData: a dict without a name is given its host.         *)
SetData(o, r) ==
    /\ opt' = [o EXCEPT ![r] = Named(@)]
    /\ held' = r
    /\ form' = opt'[r]

(* SessionOption.clearData, of whatever dict the form holds.               *)
ClearData(o) ==
    /\ opt' = [o EXCEPT ![held] = Blank]
    /\ form' = Blank
    /\ UNCHANGED held

(* setCurrentIndex(i) and _onCurrentChanged, when the list is s.           *)
GoTo(o, s, i) ==
    IF i \in DOMAIN s THEN row' = i /\ SetData(o, s[i])
                      ELSE row' = 0 /\ ClearData(o)

(* SessionOptionModel.addSession behind the current row: a dict that is    *)
(* equal to a stored one is dropped.                                       *)
WithAfter(o, r) == IF Stored(opt, o[r]) THEN sessions ELSE InsertAt(sessions, row + 1, r)

-----------------------------------------------------------------------------
(* DeviceManage.initUI.                                                    *)
OpenList ==
    /\ ~open /\ open' = TRUE
    /\ IF sessions = << >>
       THEN row' = 0 /\ held' = NoRef /\ form' = Blank /\ UNCHANGED opt
       ELSE row' = 1 /\ SetData(opt, sessions[1])
    /\ UNCHANGED <<made, sessions>>

(* The dialog is gone, and its form with it.                               *)
Discard == open' = FALSE /\ row' = 0 /\ held' = NoRef /\ form' = Blank

CloseList ==
    /\ open /\ Discard
    /\ UNCHANGED <<opt, made, sessions>>

SelectRow(i) ==
    /\ open /\ i # row
    /\ GoTo(opt, sessions, i)
    /\ UNCHANGED <<made, sessions, open>>

(* The form can be filled while a session is selected.                     *)
Fill(f) ==
    /\ open /\ row # 0 /\ form' = f
    /\ UNCHANGED <<opt, made, sessions, open, row, held>>

(* _save: the dict has the new values even if they are then refused.       *)
SaveForm ==
    /\ open /\ held # NoRef
    /\ opt' = [opt EXCEPT ![held] = form]
    /\ sessions' = IF Valid(form) /\ row # 0 THEN [sessions EXCEPT ![row] = held] ELSE sessions
    /\ UNCHANGED <<made, open, row, held, form>>

(* _doConnect, without a check, up to the acceptance of the dialog.        *)
AcceptForm ==
    /\ open /\ row # 0
    /\ opt' = [opt EXCEPT ![held] = form]
    /\ sessions' = [sessions EXCEPT ![row] = held]
    /\ Discard
    /\ UNCHANGED made

(* _onCreateNewSession, the inner dialog accepted with f.  The row behind  *)
(* the current one is selected whether the session was added or not.       *)
NewSession(f) ==
    LET r == made + 1
        with == [opt EXCEPT ![r] = Named(f)]
        s == WithAfter(with, r)
    IN  /\ open /\ made < MaxRefs /\ Valid(f)
        /\ made' = r /\ sessions' = s
        /\ GoTo(with, s, IF row = 0 THEN 1 ELSE row + 1)
        /\ UNCHANGED open

(* _onDeleteSession: list.remove takes the first dict that equals the one  *)
(* of the row.  The rows are removed under a wrong parent, so that Qt does *)
(* not move the current index itself.                                      *)
Without(v) == RemoveAt(sessions, SelectInSeq(sessions, LAMBDA r : opt[r] = v))
DeleteStay ==   \* mutant: the form is left as it is
    LET s == Without(opt[sessions[row]])
    IN  /\ open /\ row # 0 /\ s # << >>
        /\ sessions' = s /\ row' = IF row = 1 THEN 1 ELSE row - 1
        /\ UNCHANGED <<opt, held, form, made, open>>
DeleteSession ==
    LET s == Without(opt[sessions[row]])
    IN  /\ open /\ row # 0
        /\ sessions' = s
        /\ GoTo(opt, s, IF row = 1 THEN 1 ELSE row - 1)
        /\ UNCHANGED <<made, open>>

(* _onDuplicateSession.                                                    *)
DuplicateSession ==
    LET r == made + 1
        copy == opt[sessions[row]]
        names == {opt[sessions[i]].name : i \in DOMAIN sessions}
        with == [opt EXCEPT ![r] = [copy EXCEPT !.name = Fresh(@, names)]]
        s == WithAfter(with, r)
    IN  /\ open /\ row # 0 /\ made < MaxRefs
        /\ made' = r /\ sessions' = s
        /\ GoTo(with, s, row + 1)
        /\ UNCHANGED open

DialogStep ==
    \/ OpenList \/ CloseList \/ SaveForm \/ DeleteSession \/ DuplicateSession
    \/ \E i \in DOMAIN sessions : SelectRow(i)
    \/ \E f \in Forms : Fill(f) \/ NewSession(f)

-----------------------------------------------------------------------------
ListTypeOK ==
    /\ opt \in [Refs -> Value]
    /\ made \in 0..MaxRefs
    /\ sessions \in Seq(Refs)
    /\ open \in BOOLEAN
    /\ row \in 0..Len(sessions)
    /\ held \in 0..MaxRefs
    /\ form \in Value

(* Each saved session is a dict of its own, and the form writes to the one *)
(* that is selected: whatever was added, duplicated, deleted or refused    *)
(* before, an edit in the dialog reaches one saved session and the right   *)
(* one.                                                                    *)
EditsReachSelected ==
    /\ IsInjective(sessions)
    /\ open /\ row # 0 => held = sessions[row]

(* Why: a dict that is made is not in the list yet.                        *)
DictsMade == \A i \in DOMAIN sessions : sessions[i] <= made
=============================================================================
