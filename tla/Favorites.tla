------------------------------- MODULE Favorites -------------------------------
(***************************************************************************)
(* The favourites (src/favorite.py): one FavoriteModel, a tree of XML      *)
(* requests and of categories, shown by two views that live together, the  *)
(* dock of the main window and the non-modal "Edit Favorites" window, and  *)
(* by the modal dialog that adds a request.                                *)
(*                                                                         *)
(* A QModelIndex is a row and an item.  The current index of a view is     *)
(* kept up to date by Qt, so it is the item; the indexes the code keeps    *)
(* itself (a selection it loops over, the rows it has cut) are not: their  *)
(* row is the one of the moment they were taken, while index.parent() is   *)
(* computed from the item when it is called.  A handler that loops over    *)
(* rows is a sequence "todo" of edits, one action each, and nothing else   *)
(* runs until it is empty: the loops run in the GUI thread.                *)
(*                                                                         *)
(* The editor window writes its text back to the item it leaves: that is   *)
(* done by EditorTo, a part of every action that moves its current item.   *)
(* The current item of the dock is what the user clicked last, and a click  *)
(* there has no other effect on the favourites: it is an input "c" of the  *)
(* operations and is remembered only while a loop runs.                    *)
(* Names, icons, the clipboard of the desktop and the layout of the XML    *)
(* are left out.  The window exists from the start; it is only ever hidden.*)
(***************************************************************************)
EXTENDS AnyTree, FiniteSets

CONSTANTS MaxItems,   \* items ever created, a bound
          MaxEdits,   \* user operations on the tree but pastes, a bound
          Start,      \* the saved tree: its first items, [1..n -> [kind, up]]
          Texts,      \* the XML of a request, up to its layout
          Blank,      \* the XML of a new item
          Files       \* favourites files to import, in pre-order

Root == 0
Items == 1..MaxItems
Nodes == 0..MaxItems
Views == {"dock", "editor"}
Kinds == {"xml", "category"}
Index == [row : Nat, item : Items]
Edit == [op : {"remove"}, row : Nat, item : Items]
   \cup [op : {"leaf"}, view : Views, xml : Texts]
   \cup [op : {"move"}, item : Items, dest : Nodes, row : Nat]
   \cup [op : {"import"}, kind : Kinds, depth : 1..MaxItems]

ASSUME FavoritesAssumption ==
    /\ MaxItems \in Nat \ {0}
    /\ MaxEdits \in Nat
    /\ Blank \in Texts
    /\ \E n \in 1..MaxItems : Start \in [1..n -> [kind : Kinds, up : 0..n]]
    /\ \A i \in DOMAIN Start :
         Start[i].up < i /\ (Start[i].up = Root \/ Start[Start[i].up].kind = "category")
    /\ Files \subseteq Seq([kind : Kinds, depth : 1..MaxItems])

VARIABLES kids,     \* FavoriteModel.root: the children of every node, in order
          kind,     \* column 2 of an item: RowType
          text,     \* column 1 of an item: its XML
          made,     \* how many items were created
          cur,      \* the current index of each view (of the dock: in a loop)
          shown,    \* the text in the editor of the window
          copied,   \* FavoriteTreeView._copiedItems of each view
          cut,      \* FavoriteTreeView._cutItemIndex of each view
          todo,     \* what is left of the handler that runs
          frame,    \* the variable "index" of each level of __appyNode
          app,      \* "running", or "dead": the process crashed
          edits,    \* user operations so far, pastes not counted
          before,   \* the items in the tree when the handler began
          doomed,   \* the items it is meant to remove
          topDown   \* the rows it removes were selected from the top down

vars == <<kids, kind, text, made, cur, shown, copied, cut, todo, frame, app,
          edits, before, doomed, topDown>>
clip == <<copied, cut>>
aim == <<before, doomed, topDown>>

InTree == Below(kids, Root)
IsXml(n) == kind[n] = "xml"

(* What DictImporter makes of the saved tree: every item joins the children *)
(* of its parent.                                                          *)
Loaded ==
    LET tree[n \in 0..Len(Start)] ==
          IF n = 0 THEN [p \in Nodes |-> << >>]
          ELSE [tree[n - 1] EXCEPT ![Start[n].up] = Append(@, n)]
    IN  tree[Len(Start)]

Init ==
    /\ made = Len(Start)
    /\ kind = [n \in Nodes |-> IF n \in DOMAIN Start THEN Start[n].kind ELSE "category"]
    /\ kids = Loaded
    /\ text = [i \in Items |-> Blank]
    /\ cur = [v \in Views |-> Root]
    /\ shown = Blank
    /\ copied = [v \in Views |-> << >>]
    /\ cut = [v \in Views |-> << >>]
    /\ todo = << >>
    /\ frame = << >>
    /\ app = "running"
    /\ edits = 0
    /\ before = {}
    /\ doomed = {}
    /\ topDown = TRUE

-----------------------------------------------------------------------------
(* Mutant: current and previous are confused.                              *)
EditorToSwapped(i, t) ==
    IF i = Root THEN UNCHANGED <<text, shown>>
    ELSE text' = [t EXCEPT ![i] = shown] /\ UNCHANGED shown

(* FavoritesEditor._onViewCurrentChanged(current = i, previous): the text  *)
(* goes to the item that is left, the text of the next one is displayed.   *)
(* t is what the items hold when the signal arrives; kind' is known.       *)
Stored(t) == IF IsXml(cur["editor"]) THEN [t EXCEPT ![cur["editor"]] = shown] ELSE t

EditorTo(i, t) ==
    IF i = cur["editor"]
    THEN text' = t /\ UNCHANGED shown
    ELSE /\ text' = Stored(t)
         /\ shown' = IF kind'[i] = "xml" THEN Stored(t)[i] ELSE shown

Settled(c) == IF Len(todo) <= 1 THEN [c EXCEPT !["dock"] = Root] ELSE c

(* FavoriteModel.insertRows(row, 1, p), setData of the columns, and        *)
(* setCurrentIndex in the view v that inserts (the dialog's dies with it). *)
Insert(v, p, row, k, t) ==
    /\ made' = made + 1
    /\ kind' = [kind EXCEPT ![made + 1] = k]
    /\ kids' = [kids EXCEPT ![p] = InsertRow(@, row, made + 1)]
    /\ cur' = Settled([w \in Views |-> IF w = v THEN made + 1 ELSE cur[w]])
    /\ LET with == [text EXCEPT ![made + 1] = t]
       IN  IF v = "editor" THEN EditorTo(made + 1, with)
                           ELSE text' = with /\ UNCHANGED shown

(* insertLeaf(name, xml) at the current item c: at the end of a category   *)
(* or of the root, behind an XML item.                                     *)
InsertLeaf(v, c, t) ==
    IF kind[c] = "category"
    THEN Insert(v, c, Len(kids[c]), "xml", t)
    ELSE Insert(v, ParentOf(kids, c), RowOf(kids, c) + 1, "xml", t)

(* insertCategory(index, name, to_sub).  The invalid index has row -1.     *)
InsertCategory(v, c, toSub) ==
    IF toSub /\ kind[c] = "category"
    THEN Insert(v, c, Len(kids[c]), "category", Blank)
    ELSE IF c = Root THEN Insert(v, Root, 0, "category", Blank)
                     ELSE Insert(v, ParentOf(kids, c), RowOf(kids, c) + 1, "category", Blank)

Kept == cur' = Settled(cur) /\ UNCHANGED <<kids, text, shown>>

(* What Qt makes current when the current row of p goes, if it does; a     *)
(* current item below the row that goes is lost without a signal.          *)
Successor(p, row) ==
    IF row > 0 THEN kids[p][row] ELSE ChildAt(kids, p, row + 1, Root)

(* FavoriteModel.removeRows(row, 1, p).                                    *)
TakeOut(p, row) ==
    IF row < Len(kids[p])
    THEN LET gone == kids[p][row + 1]
         IN  /\ kids' = [kids EXCEPT ![p] = RemoveRow(@, row)]
             /\ cur' = Settled([v \in Views |->
                          CASE cur[v] = gone -> Successor(p, row)
                            [] cur[v] \in Below(kids, gone) -> Root
                            [] OTHER -> cur[v]])
             /\ IF cur["editor"] = gone THEN EditorTo(Successor(p, row), text)
                                        ELSE UNCHANGED <<text, shown>>
    ELSE Kept

-----------------------------------------------------------------------------
(* The loops of the handlers.                                              *)
Running(op) == app = "running" /\ todo # << >> /\ Head(todo).op = op
Next1 ==
    /\ todo' = Tail(todo)
    /\ IF Len(todo) = 1 THEN before' = {} /\ doomed' = {} /\ topDown' = TRUE
                        ELSE UNCHANGED aim

(* removeRow(index.row(), index.parent()) for an index whose item is still *)
(* part of a tree, be it one that was removed as a whole.                  *)
RemoveNext ==
    /\ Running("remove") /\ Next1
    /\ Attached(kids, Head(todo).item)
    /\ kind' = kind
    /\ TakeOut(ParentOf(kids, Head(todo).item), Head(todo).row)
    /\ UNCHANGED <<made, frame, app, edits, clip>>

(* The same for an item that is in no tree any more, or whose category is  *)
(* not: Python may have freed it.  Qt keeps only its address: at that      *)
(* address there is nothing, some other item by now, or the memory is gone.*)
RemoveDangling ==
    /\ Running("remove") /\ Next1
    /\ Head(todo).item \notin InTree
    /\ kind' = kind
    /\ \/ Kept /\ app' \in {app, "dead"}
       \/ \E i \in InTree : TakeOut(ParentOf(kids, i), Head(todo).row) /\ app' = app
    /\ UNCHANGED <<made, frame, edits, clip>>

(* insertLeaf for each of the copied items.                                *)
LeafNext ==
    /\ Running("leaf") /\ Next1
    /\ InsertLeaf(Head(todo).view, cur[Head(todo).view], Head(todo).xml)
    /\ UNCHANGED <<frame, app, edits, clip>>

(* moveRow, and rowsMoved in both views: the item found at the new row in  *)
(* the parent the item came from becomes the current one.                  *)
MoveNext ==
    LET e == Head(todo)
        from == ParentOf(kids, e.item)
    IN  /\ Running("move") /\ Next1
        /\ kind' = kind
        /\ IF from = e.dest /\ RowOf(kids, e.item) = e.row
           THEN Kept
           ELSE LET at == ChildAt(kids', from, e.row, Root)
                IN  /\ kids' = Reparent(kids, e.item, e.dest, e.row)
                    /\ cur' = Settled([v \in Views |-> at])
                    /\ EditorTo(at, text)
        /\ UNCHANGED <<made, frame, app, edits, clip>>

(* One child in __appyNode, called for the dock's view: a category goes    *)
(* behind the "index" of its level, an XML item to the current one.        *)
ImportNext ==
    LET e == Head(todo)
    IN  /\ Running("import") /\ Next1
        /\ IF e.kind = "xml" THEN InsertLeaf("dock", cur["dock"], Blank)
           ELSE IF frame[e.depth] = Root
                THEN Insert("dock", Root, Len(kids[Root]), "category", Blank)
                ELSE InsertCategory("dock", frame[e.depth], FALSE)
        /\ frame' = [d \in 1..MaxItems |-> IF d < e.depth THEN frame[d] ELSE made + 1]
        /\ UNCHANGED <<app, edits, clip>>

-----------------------------------------------------------------------------
(* The user's operations.                                                  *)
Idle == app = "running" /\ todo = << >>
Counted == edits < MaxEdits /\ edits' = edits + 1
Room(n) == made + n <= MaxItems
Aim(S, down) == before' = InTree /\ doomed' = S /\ topDown' = down
SameItems == UNCHANGED <<kids, kind, text, made, shown>>
Same == SameItems /\ UNCHANGED cur

(* The indexes of a selection, in the order in which it was made.          *)
Selections ==
    {<<i>> : i \in InTree} \cup {s \in InTree \X InTree : s[1] # s[2]}
(* The items of a selection (one or two) that are in S, in its order.      *)
Only(s, S) ==
    CHOOSE r \in {<< >>, <<Head(s)>>, <<Last(s)>>, s} : ToSet(r) = ToSet(s) \cap S

IndexOf(i) == [row |-> RowOf(kids, i), item |-> i]
Removal(ix) == [op |-> "remove", row |-> ix.row, item |-> ix.item]
RemovalsForward(s) == [n \in DOMAIN s |-> Removal(s[n])]   \* mutant
Removals(s) == [n \in DOMAIN s |-> Removal(Reverse(s)[n])]

(* In the order of the view: a category before what it holds, and the      *)
(* children of one node by their rows.                                     *)
TopDown(s) ==
    \A m, n \in DOMAIN s : m < n =>
        /\ s[m].item \notin Below(kids, s[n].item)
        /\ ParentOf(kids, s[m].item) = ParentOf(kids, s[n].item) => s[m].row < s[n].row

(* setCurrentIndex by a click in the view of the window.                   *)
Select(i) ==
    /\ Idle
    /\ cur' = [cur EXCEPT !["editor"] = i]
    /\ kind' = kind
    /\ EditorTo(i, text)
    /\ UNCHANGED <<kids, made, todo, frame, app, edits, aim, clip>>

Currents(v) == IF v = "editor" THEN {cur[v]} ELSE InTree \cup {Root}

(* The user types in the editor of the window.                             *)
Type(t) ==
    /\ Idle /\ Counted /\ shown' = t
    /\ UNCHANGED <<kids, kind, text, made, cur, todo, frame, app, aim, clip>>

(* FavoritesEditor.closeEvent: the window is hidden, and lives on.         *)
CloseEditor ==
    /\ Idle
    /\ text' = Stored(text)
    /\ UNCHANGED <<kids, kind, made, cur, shown, todo, frame, app, edits, aim, clip>>

(* _onNewNode and _onCreateCategory.                                       *)
NewXml(v, c) ==
    /\ Idle /\ Counted /\ Room(1)
    /\ InsertLeaf(v, c, Blank)
    /\ UNCHANGED <<todo, frame, app, aim, clip>>

NewCategory(v, c, toSub) ==
    /\ Idle /\ Counted /\ Room(1)
    /\ InsertCategory(v, c, toSub)
    /\ UNCHANGED <<todo, frame, app, aim, clip>>

(* _onEditNode accepted, or "Update" in the dialog with item i selected.   *)
EditXml(i, t) ==
    /\ Idle /\ Counted /\ IsXml(i)
    /\ text' = [text EXCEPT ![i] = t]
    /\ UNCHANGED <<kids, kind, made, cur, shown, todo, frame, app, aim, clip>>

(* "Add" in AddToFavoriteDialog, with item c selected in its own view.     *)
AddFavorite(c, t) ==
    /\ Idle /\ Counted /\ Room(1)
    /\ InsertLeaf("dialog", c, t)
    /\ UNCHANGED <<todo, frame, app, aim, clip>>

(* deleteItem of the selection s, once confirmed.                          *)
Delete(s) ==
    LET ixs == [n \in DOMAIN s |-> IndexOf(s[n])]
    IN  /\ Idle /\ Counted
        /\ todo' = Removals(ixs)
        /\ Aim(UNION {{s[n]} \cup Below(kids, s[n]) : n \in DOMAIN s}, TopDown(ixs))
        /\ Same /\ UNCHANGED <<frame, app, clip>>

(* cutItem and copyItem take the XML items of the selection, if any.       *)
Take(v, s, isCut) ==
    LET xs == Only(s, {i \in Items : IsXml(i)})
    IN  /\ Idle /\ Counted /\ xs # << >>
        /\ copied' = [copied EXCEPT ![v] = [n \in DOMAIN xs |-> text[xs[n]]]]
        /\ cut' = [cut EXCEPT ![v] = IF isCut THEN [n \in DOMAIN xs |-> IndexOf(xs[n])]
                                              ELSE << >>]
        /\ Same /\ UNCHANGED <<todo, frame, app, aim>>
Cut(v, s) == Take(v, s, TRUE)
Copy(v, s) == Take(v, s, FALSE)

(* pasteItem.  Accurate: every row that was cut is still where it was.     *)
Accurate(s) == \A n \in DOMAIN s : s[n].item \in InTree /\ s[n] = IndexOf(s[n].item)

Paste(v, c) ==
    LET leaves == [n \in DOMAIN copied[v] |->
                     [op |-> "leaf", view |-> v, xml |-> copied[v][n]]]
    IN  /\ Idle /\ copied[v] # << >> /\ Room(Len(copied[v]))
        /\ todo' = Removals(cut[v]) \o leaves
        /\ cut' = [cut EXCEPT ![v] = << >>]
        /\ Aim({ix.item : ix \in ToSet(cut[v])}, Accurate(cut[v]) /\ TopDown(cut[v]))
        /\ cur' = [cur EXCEPT ![v] = c]
        /\ SameItems /\ UNCHANGED <<frame, app, edits, copied>>

(* dragMoveEvent refuses a target in the selection or below it.            *)
MayDropOnOthers(s, t) == t \notin ToSet(s)   \* mutant: only the items themselves
MayDropOn(s, t) == \A n \in DOMAIN s : t # s[n] /\ t \notin Below(kids, s[n])

(* dropEvent of the dragged selection s on item t, or beside all of them.  *)
(* An item whose parent is dragged too stays with its parent.              *)
Drop(s, t, expanded) ==
    LET into == t # Root /\ kind[t] = "category" /\ expanded
        dest == IF t = Root \/ into THEN t ELSE ParentOf(kids, t)
        row == IF t = Root THEN Len(kids[Root])
               ELSE IF into THEN 0 ELSE RowOf(kids, t)
        real == Only(s, {i \in InTree : ParentOf(kids, i) \notin ToSet(s)})
    IN  /\ Idle /\ Counted
        /\ MayDropOn(s, t)
        /\ todo' = [n \in DOMAIN real |-> [op |-> "move", item |-> real[n],
                                           dest |-> dest, row |-> row + n - 1]]
        /\ Aim({}, TRUE)
        /\ Same /\ UNCHANGED <<frame, app, clip>>

(* FavoriteDockWidget.importFavorite.                                      *)
Import(f, c) ==
    /\ Idle /\ Counted /\ Room(Len(f))
    /\ todo' = [n \in DOMAIN f |-> [op |-> "import", kind |-> f[n].kind,
                                    depth |-> f[n].depth]]
    /\ frame' = [d \in 1..MaxItems |-> Root]
    /\ Aim({}, TRUE)
    /\ cur' = [cur EXCEPT !["dock"] = c]
    /\ SameItems /\ UNCHANGED <<app, clip>>

Loop == RemoveNext \/ RemoveDangling \/ LeafNext \/ MoveNext \/ ImportNext

User ==
    \/ \E v \in Views : \/ \E c \in Currents(v) : \/ NewXml(v, c)
                                                 \/ NewCategory(v, c, TRUE)
                                                 \/ NewCategory(v, c, FALSE)
                                                 \/ Paste(v, c)
                        \/ \E s \in Selections : Cut(v, s) \/ Copy(v, s)
    \/ \E t \in Texts : \/ Type(t)
                        \/ \E i \in InTree : EditXml(i, t)
                        \/ \E c \in InTree \cup {Root} : AddFavorite(c, t)
    \/ \E i \in InTree : Select(i)
    \/ CloseEditor
    \/ \E s \in Selections : \/ Delete(s)
                             \/ \E t \in InTree \cup {Root}, b \in BOOLEAN : Drop(s, t, b)
    \/ \E f \in Files, c \in InTree \cup {Root} : Import(f, c)

Next == Loop \/ User

Spec == Init /\ [][Next]_vars

-----------------------------------------------------------------------------
TypeOK ==
    /\ kids \in [Nodes -> Seq(Items)]
    /\ kind \in [Nodes -> Kinds]
    /\ text \in [Items -> Texts]
    /\ made \in 0..MaxItems
    /\ cur \in [Views -> Nodes]
    /\ shown \in Texts
    /\ copied \in [Views -> Seq(Texts)]
    /\ cut \in [Views -> Seq(Index)]
    /\ todo \in Seq(Edit)
    /\ frame \in {<< >>} \cup [1..MaxItems -> Nodes]
    /\ app \in {"running", "dead"}
    /\ edits \in 0..MaxEdits
    /\ before \subseteq Items /\ doomed \subseteq Items /\ topDown \in BOOLEAN

(* Whatever indexes the handlers use, current or stale, the items stay a   *)
(* tree: no item is listed twice, none is below itself, and nothing hangs  *)
(* below an XML item, where the views and the export would not expect it;  *)
(* and what a view shows as current, which the next "New XML" or "Delete"  *)
(* is about, is in the tree.  And the state is well typed.                 *)
Once ==
    /\ \A p \in Nodes : IsInjective(kids[p])
    /\ \A i \in Items : Cardinality(Parents(kids, i)) <= 1
LeavesAreBare == \A i \in Items : kids[i] # << >> => ~IsXml(i)
NoLoop == \A i \in Items : i \notin Below(kids, i)
CurrentInTree == \A v \in Views : cur[v] \in InTree \cup {Root}
TreeSound == TypeOK /\ Once /\ LeavesAreBare /\ NoLoop /\ CurrentInTree

(* A handler removes what was selected, with what is below it, and nothing *)
(* else: deleting and cutting-and-pasting from the top down, if no row     *)
(* that was cut has moved since; dragging, inserting and importing lose    *)
(* nothing, whatever is dragged where.                                     *)
Ends == todo # << >> /\ todo' = << >> /\ app' = "running"
SelectionHandled ==
    [][Ends /\ topDown => InTree' \cap before = before \ doomed]_vars

(* An edit of one item never reaches another: only the item that is edited *)
(* and the one the window has open change their text, and the latter only  *)
(* to what the window displays.                                            *)
TextOfOthersKept ==
    [][\A i \in InTree : text'[i] # text[i] =>
          \/ i = cur["editor"] /\ text'[i] = shown
          \/ edits' = edits + 1 /\ todo' = << >> /\ made' = made
             /\ \A j \in InTree \ {i} : text'[j] = text[j]]_vars

(* deleteItem asks "Do you want to delete the selected items?" and does    *)
(* that, in whatever order they were selected.  This does not hold: rows   *)
(* that were selected from below are removed by stale numbers.             *)
DeletesSelected ==
    [][Ends /\ copied = [v \in Views |-> << >>] => InTree' \cap before = before \ doomed]_vars
=============================================================================
