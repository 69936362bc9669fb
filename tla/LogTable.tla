------------------------------ MODULE LogTable ------------------------------
(***************************************************************************)
(* A table of received XML with a filter line, a preview of the current    *)
(* row and a mode in which the newest row becomes current: the code that   *)
(* SessionHistoryWidget (session_history.py) and NotificationWidget        *)
(* (session.py) have in common, as operators on the state of one table.    *)
(* What Qt's proxy, selection model and view do is modelled from how the   *)
(* code uses them.                                                         *)
(***************************************************************************)
EXTENDS Integers, FiniteSets, FiniteSetsExt

EmptyTable ==
  [rows |-> {},      \* the model: rows are numbered as they arrive, which is
                     \* the order they are displayed in
   hits |-> {},      \* those of the rows whose XML the pattern matches
   box |-> TRUE,     \* the Filter box
   text |-> FALSE,   \* the filter line holds the pattern
   on |-> FALSE,     \* the proxy filters by the pattern
   cur |-> 0,        \* the current row: 0 or its number
   sel |-> {},       \* the selected rows
   follow |-> TRUE,  \* _flowUpMode
   timer |-> FALSE,  \* _flowUpTimer runs
   preview |-> 0]    \* the row the preview was filled from

\* The rows of the proxy, and the position of one in it, counted from 0.
Lines(t) == IF t.on THEN t.hits ELSE t.rows
Newest(t) == Max(Lines(t))
RowIn(S, i) == Cardinality({j \in S : j < i})

-----------------------------------------------------------------------------
(* Faulty variants, used by mutants of PROJECT.json.                        *)

\* A preview that cannot be seen is never filled.
ShownStale(t) == t

-----------------------------------------------------------------------------
\* _onCurrentChanged: row i becomes current; last: it was the last of the rows
\* that the view had; seen: the preview is visible.
Moved(t, i, last, seen) ==
  [t EXCEPT !.cur = i,
            !.follow = last,
            !.timer = @ \/ ~last,
            !.preview = IF i # 0 /\ seen THEN i ELSE @]

\* setCurrentIndex and a click: the row is selected alone, and nobody is told
\* when it was current already.
SetCurrent(t, i, seen) ==
  LET u == IF i = t.cur THEN t ELSE Moved(t, i, i = Newest(t), seen)
  IN [u EXCEPT !.sel = {i}]

\* The view is about to lose these lines: the current row moves to the next one
\* above, else below, while the lines are still counted.
Losing(t, gone, seen) ==
  LET kept == Lines(t) \ gone
      above == {i \in kept : i < t.cur}
      u == IF t.cur \notin gone THEN t
           ELSE IF above # {} THEN Moved(t, Max(above), FALSE, seen)
           ELSE IF kept # {} THEN Moved(t, Min(kept), Cardinality(kept) = 1, seen)
           ELSE Moved(t, 0, FALSE, seen)
  IN [u EXCEPT !.sel = @ \ gone]

\* A row comes in: in follow mode, or as the only line, it becomes current.
Appended(t, i, hit, seen) ==
  LET u == [t EXCEPT !.rows = @ \cup {i}, !.hits = IF hit THEN @ \cup {i} ELSE @]
  IN IF Lines(u) # {} /\ (u.follow \/ Cardinality(Lines(u)) = 1)
     THEN SetCurrent(u, Newest(u), seen) ELSE u

\* The proxy gets another pattern; lines that come back are told to nobody.
Refiltered(t, on, seen) ==
  [Losing(t, IF on THEN Lines(t) \ t.hits ELSE {}, seen) EXCEPT !.on = on]

\* _onBtFilterStateChanged
BoxTurned(t, seen) ==
  [Refiltered(t, ~t.box /\ t.text, seen) EXCEPT !.box = ~@]

\* _onFilterChanged
TextTurned(t, seen) ==
  LET u == IF t.box THEN Refiltered(t, ~t.text, seen) ELSE t
  IN [u EXCEPT !.text = ~@]

\* removeRows of the proxy.
Removed(t, gone, seen) ==
  [Losing(t, gone, seen) EXCEPT !.rows = @ \ gone, !.hits = @ \ gone]

\* _onDeleteAll: a reset tells nobody of the current row.
Cleared(t) ==
  [t EXCEPT !.rows = {}, !.hits = {}, !.cur = 0, !.sel = {}, !.preview = 0]

\* showEvent
Shown(t) == [t EXCEPT !.preview = IF t.cur # 0 THEN t.cur ELSE @]

\* setFlowUpMode(True), 30 s after the mode was left last.
FollowAgain(t) == [t EXCEPT !.follow = TRUE, !.timer = FALSE]

-----------------------------------------------------------------------------
\* A table of n rows that arrived: the current row and the selected ones are
\* displayed.
Tables(n) ==
  [rows : SUBSET (1..n), hits : SUBSET (1..n), box : BOOLEAN, text : BOOLEAN,
   on : BOOLEAN, cur : 0..n, sel : SUBSET (1..n), follow : BOOLEAN,
   timer : BOOLEAN, preview : 0..n]
Sound(t, n) ==
  /\ t \in Tables(n)
  /\ t.hits \subseteq t.rows /\ t.on = (t.box /\ t.text)
  /\ t.cur \in Lines(t) \cup {0} /\ t.sel \subseteq Lines(t)
=============================================================================
