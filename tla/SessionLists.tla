---------------------------- MODULE SessionLists ----------------------------
(***************************************************************************)
(* The lists below a session tab: the notifications and the session        *)
(* history (session.py, session_history.py).  Rows arrive at any moment,   *)
(* also inside the event loop of a context menu, while the user selects,   *)
(* filters, removes and turns from page to page.                           *)
(*                                                                         *)
(* Abstracted: a row is its number; there is one filter pattern; copying   *)
(* and exporting change nothing and are left out.                          *)
(***************************************************************************)
EXTENDS LogTable

CONSTANTS
  Cap,       \* the rows of the history (10000)
  MaxRows    \* bound: rows that arrive

ASSUME ListsAssumption == Cap \in Nat /\ MaxRows \in Nat

VARIABLES
  ntf,      \* the NotificationWidget
  his,      \* the SessionHistoryWidget
  page,     \* what the tab shows
  menu,     \* the context menu: where, and its enabled removing actions
  count,    \* the number in the title of the page Notifications
  arrived

listsVars == <<ntf, his, page, menu, count, arrived>>

Pages == {"notifications", "history", "other"}
NoMenu == [at |-> "nowhere", acts |-> {}]

ListsInit ==
  /\ ntf = EmptyTable /\ his = EmptyTable
  /\ page = "other" /\ menu = NoMenu
  /\ count = 0 /\ arrived = 0

Seen(p) == page = p
Idle == menu = NoMenu

-----------------------------------------------------------------------------
(* Faulty variants, used by mutants of PROJECT.json.                        *)

\* The lines are taken for rows of the model.
DeletedUnmapped ==
  LET first == RowIn(Lines(ntf), Min(ntf.sel))
  IN {i \in ntf.rows : RowIn(ntf.rows, i) \in first..(first + Cardinality(ntf.sel) - 1)}

-----------------------------------------------------------------------------
(* Rows arrive                                                              *)

\* appendHistory
WithEntry(hit) ==
  IF Cardinality(his.rows) >= Cap THEN his
  ELSE Appended(his, arrived + 1, hit, Seen("history"))

\* _onRecveNotification
ReceiveNotification(hit) ==
  /\ arrived < MaxRows /\ arrived' = arrived + 1
  /\ ntf' = Appended(ntf, arrived + 1, hit, Seen("notifications"))
  /\ count' = Cardinality(ntf'.rows)
  /\ his' = WithEntry(hit)
  /\ UNCHANGED <<page, menu>>

\* A request, a reply, or a change of the connection.
RecordHistory(hit) ==
  /\ arrived < MaxRows /\ arrived' = arrived + 1
  /\ his' = WithEntry(hit)
  /\ UNCHANGED <<ntf, page, menu, count>>

-----------------------------------------------------------------------------
(* The notifications                                                        *)

NtfLines == Lines(ntf)

OnNotifications == Idle /\ Seen("notifications")
NtfSame == UNCHANGED <<his, page, count, arrived>>

\* A click, or a click with Shift, which selects from the anchor to the row.
ClickNotification(id) ==
  /\ OnNotifications /\ id \in NtfLines
  /\ ntf' = SetCurrent(ntf, id, TRUE)
  /\ NtfSame /\ menu' = menu

SelectNotifications(from, to) ==
  /\ OnNotifications /\ {from, to} \subseteq NtfLines
  /\ LET between == {i \in NtfLines : i \in from..to \cup to..from}
     IN ntf' = [SetCurrent(ntf, to, TRUE) EXCEPT !.sel = between]
  /\ NtfSame /\ menu' = menu

NotificationFilter ==
  /\ OnNotifications
  /\ ntf' \in {BoxTurned(ntf, TRUE), TextTurned(ntf, TRUE)}
  /\ NtfSame /\ menu' = menu

\* The right button makes a row current, and selects it unless it is selected.
NotificationMenu ==
  /\ OnNotifications
  /\ LET all == IF NtfLines # {} THEN {"all"} ELSE {}
     IN \/ ntf' = ntf /\ menu' = [at |-> "notifications", acts |-> all]
        \/ \E id \in NtfLines :
             /\ LET u == SetCurrent(ntf, id, TRUE)
                IN ntf' = IF id \in ntf.sel THEN [u EXCEPT !.sel = ntf.sel] ELSE u
             /\ menu' = [at |-> "notifications", acts |-> all \cup {"remove"}]
  /\ NtfSame

\* As many lines as are selected, from the first selected one on.
Deleted ==
  LET first == RowIn(NtfLines, Min(ntf.sel))
  IN {i \in NtfLines : RowIn(NtfLines, i) \in first..(first + Cardinality(ntf.sel) - 1)}

DeleteItem ==
  /\ menu.at = "notifications" /\ "remove" \in menu.acts
  /\ menu' = NoMenu
  /\ ntf' = Removed(ntf, Deleted, Seen("notifications"))
  /\ count' = Cardinality(ntf'.rows)
  /\ UNCHANGED <<his, page, arrived>>

DeleteAll ==
  /\ menu.at = "notifications" /\ "all" \in menu.acts
  /\ menu' = NoMenu
  /\ ntf' = Cleared(ntf)
  /\ count' = Cardinality(ntf'.rows)
  /\ UNCHANGED <<his, page, arrived>>

FollowNotifications ==
  /\ ntf.timer /\ ntf' = FollowAgain(ntf)
  /\ NtfSame /\ menu' = menu

-----------------------------------------------------------------------------
(* The history                                                              *)

OnHistory == Idle /\ Seen("history")
HisLines == Lines(his)
HisSame == UNCHANGED <<ntf, page, count, arrived>>

ClickHistory(id) ==
  /\ OnHistory /\ id \in HisLines
  /\ his' = SetCurrent(his, id, TRUE)
  /\ HisSame /\ menu' = menu

HistoryFilter ==
  /\ OnHistory
  /\ his' \in {BoxTurned(his, TRUE), TextTurned(his, TRUE)}
  /\ HisSame /\ menu' = menu

HistoryMenu ==
  /\ OnHistory
  /\ menu' = [at |-> "history", acts |-> IF HisLines # {} THEN {"all"} ELSE {}]
  /\ \/ his' = his
     \/ \E id \in HisLines : his' = SetCurrent(his, id, TRUE)
  /\ HisSame

ClearEntries ==
  /\ menu.at = "history" /\ "all" \in menu.acts
  /\ menu' = NoMenu
  /\ his' = Cleared(his)
  /\ HisSame

FollowHistory ==
  /\ his.timer /\ his' = FollowAgain(his)
  /\ HisSame /\ menu' = menu

-----------------------------------------------------------------------------
CloseMenu ==
  /\ ~Idle /\ menu' = NoMenu
  /\ UNCHANGED <<ntf, his, page, count, arrived>>

\* The page is turned, or the tab of another session is.
ShowPage(p) ==
  /\ Idle /\ page # p
  /\ page' = p
  /\ ntf' = IF p = "notifications" THEN Shown(ntf) ELSE ntf
  /\ his' = IF p = "history" THEN Shown(his) ELSE his
  /\ UNCHANGED <<menu, count, arrived>>

ListsNext ==
  \/ \E hit \in BOOLEAN : ReceiveNotification(hit) \/ RecordHistory(hit)
  \/ \E id \in 1..MaxRows : ClickNotification(id) \/ ClickHistory(id)
  \/ \E from, to \in 1..MaxRows : SelectNotifications(from, to)
  \/ NotificationFilter \/ NotificationMenu \/ DeleteItem \/ DeleteAll \/ FollowNotifications
  \/ HistoryFilter \/ HistoryMenu \/ ClearEntries \/ FollowHistory
  \/ CloseMenu
  \/ \E p \in Pages : ShowPage(p)

ListsSpec == ListsInit /\ [][ListsNext]_listsVars

-----------------------------------------------------------------------------
ListsTypeOK ==
  /\ page \in Pages
  /\ menu \in [at : Pages \cup {"nowhere"}, acts : SUBSET {"remove", "all"}]
  /\ count = Cardinality(ntf.rows)
  /\ arrived \in 0..MaxRows
  /\ Sound(ntf, arrived) /\ Sound(his, arrived)

\* A visible preview shows the current row, whether it became current by a
\* click, an arrival, a filter, a removal, or while its page was hidden.  And
\* the rows, the current one and the selection belong together.
PreviewShowsCurrent ==
  /\ ListsTypeOK
  /\ Seen("notifications") /\ ntf.cur # 0 => ntf.preview = ntf.cur
  /\ Seen("history") /\ his.cur # 0 => his.preview = his.cur

\* Remove takes the selected rows, whatever the filter hides between them,
\* as long as they are neighbours on display.
Adjacent(S) == \A s, o \in S : NtfLines \cap s..o \subseteq S
RemovesNeighbours ==
  [][DeleteItem /\ Adjacent(ntf.sel) => ntf'.rows = ntf.rows \ ntf.sel]_listsVars

\* What the action Remove says: the selected rows, and no other, are removed.
\* This does not hold when rows between them are not selected.
RemovesSelected == [][DeleteItem => ntf'.rows = ntf.rows \ ntf.sel]_listsVars
=============================================================================
