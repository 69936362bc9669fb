-------------------------------- MODULE AnyTree --------------------------------
(***************************************************************************)
(* QAnyTreeItem (src/qanytree/qanytreeitem.py), the anytree node behind    *)
(* the tree views of the application: a node knows the list of its         *)
(* children and its parent.  A tree is a function "kids" from nodes to the *)
(* sequence of their children; the parent of a node is the node that       *)
(* lists it.  Rows count from 0, as in the code and in Qt.                 *)
(***************************************************************************)
EXTENDS Integers, Sequences, SequencesExt

(* The node that lists item i, or Nowhere when i is not in the tree.       *)
Parents(kids, i) == {p \in DOMAIN kids : Contains(kids[p], i)}
ParentOf(kids, i) == CHOOSE p \in Parents(kids, i) : TRUE
Attached(kids, i) == Parents(kids, i) # {}

(* childNumber(): the row of item i among the children s.                  *)
RowIn(s, i) == (CHOOSE r \in 1..Len(s) : s[r] = i) - 1
RowOf(kids, i) == RowIn(kids[ParentOf(kids, i)], i)

(* getChild(row), with the value "none" for a row that does not exist.     *)
ChildAt(kids, p, row, none) ==
    IF row \in 0..Len(kids[p]) - 1 THEN kids[p][row + 1] ELSE none

(* insertChildren, removeChildren and moveChild of one row.  list.insert   *)
(* clamps a position beyond the end; a row that does not exist is not      *)
(* removed.                                                                *)
InsertRow(s, row, i) ==
    IF row <= Len(s) THEN InsertAt(s, row + 1, i) ELSE Append(s, i)
RemoveRow(s, row) == IF row < Len(s) THEN RemoveAt(s, row + 1) ELSE s

(* item.parent = p followed by moveChild: item i leaves the row it has and *)
(* ends at "row" of p, or at the end.                                      *)
Reparent(kids, i, p, row) ==
    LET out == [q \in DOMAIN kids |->
                  IF Contains(kids[q], i) THEN RemoveRow(kids[q], RowIn(kids[q], i))
                                          ELSE kids[q]]
    IN  [out EXCEPT ![p] = InsertRow(@, row, i)]

(* Everything below node n: items of the tree, found level by level.       *)
Levels(kids, n) ==
    LET level[d \in DOMAIN kids] ==
          IF d = 0 THEN ToSet(kids[n])
          ELSE UNION {{m} \cup ToSet(kids[m]) : m \in level[d - 1]}
    IN  level
Below(kids, n) == {i \in Levels(kids, n)[Max(DOMAIN kids)] : Attached(kids, i)}
=============================================================================
