---------------------------- MODULE FavoritesProofs ----------------------------
(***************************************************************************)
(* What holds of the favourites for every saved tree, every number of      *)
(* items and operations, all texts and all files: they stay a tree         *)
(* (FavoritesStayATree), an edit of one item never reaches another         *)
(* (EditsTouchOneItem), and a handler that removes rows from the bottom up *)
(* removes what was selected and nothing else (SelectionsAreHandled).      *)
(*                                                                         *)
(* The invariant (FavInv) has the tree in a form a step can be compared    *)
(* in: no two nodes share a child (Alone), and every set of items has one  *)
(* without a child in the set (Acyclic).  What is below a node is the      *)
(* least set that holds its children and those of its own members          *)
(* (BelowIs), so a set that is closed bounds it, and nothing else about    *)
(* the levels is used.  The rest of the invariant is what the handler that *)
(* runs still has to do (TodoOK): a drag never aims below what it moves,   *)
(* an import remembers only items of the tree, and there is room for every *)
(* item that a paste or an import is going to create.                      *)
(*                                                                         *)
(* The third theorem adds where a removal has got to (Onward): the items   *)
(* gone by now are those the handler aims at, but for those below a row    *)
(* still to come (Awaited); every row still to come has its present number *)
(* (Accurately); and none of them is below one that goes earlier, or       *)
(* before one of the same parent (BottomUp), so that no removal moves or   *)
(* takes away a row that a later one is about (RemoveOnward).              *)
(***************************************************************************)
EXTENDS Favorites, FiniteSetTheorems, SequenceTheorems, TLAPS

-----------------------------------------------------------------------------
(* Sequences                                                                *)

LEMMA LessOnNat ==
  \E R : IsWellFoundedOn(R, Nat) /\ \A x, y \in Nat : y < x => <<y, x>> \in R
<1> DEFINE R == OpToRel(<, Nat)
<1>1. IsWellFoundedOn(R, Nat)
  BY NatLessThanWellFounded, Zenon
<1>2. \A x, y \in Nat : y < x => <<y, x>> \in R
  BY Zenon DEF OpToRel
<1> QED
  <2> HIDE DEF R
  <2> QED BY <1>1, <1>2

LEMMA Least ==
  ASSUME NEW S \in SUBSET Nat, S # {}
  PROVE  \E m \in S : \A i \in S : m <= i
<1>1. PICK R : IsWellFoundedOn(R, Nat) /\ \A x, y \in Nat : y < x => <<y, x>> \in R
  BY LessOnNat
<1>2. PICK m \in S : \A i \in S : ~(<<i, m>> \in R)
  BY <1>1, WFMin, Zenon
<1>3. \A i \in S : ~(i < m)
  BY <1>1, <1>2
<1> QED
  BY <1>3

\* Concatenation, opaque to the provers where only Joined is needed.
Cat(a, b) == a \o b

LEMMA Joined ==
  ASSUME NEW S, NEW a \in Seq(S), NEW b \in Seq(S)
  PROVE  /\ Cat(a, b) \in Seq(S) /\ Len(Cat(a, b)) = Len(a) + Len(b)
         /\ \A k \in 1..Len(a) : Cat(a, b)[k] = a[k]
         /\ \A k \in 1..Len(b) : Cat(a, b)[Len(a) + k] = b[k]
<1> DEFINE t == a \o b
<1>1. /\ t \in Seq(S) /\ Len(t) = Len(a) + Len(b)
      /\ \A k \in 1..(Len(a) + Len(b)) :
           t[k] = IF k <= Len(a) THEN a[k] ELSE b[k - Len(a)]
  BY ConcatProperties
<1>2. Len(a) \in Nat /\ Len(b) \in Nat
  OBVIOUS
<1> HIDE DEF t
<1>3. ASSUME NEW k \in 1..Len(b) PROVE t[Len(a) + k] = b[k]
  <2>1. /\ Len(a) + k \in 1..(Len(a) + Len(b)) /\ ~(Len(a) + k <= Len(a))
        /\ (Len(a) + k) - Len(a) = k
    BY <1>2
  <2> QED
    BY <1>1, <2>1
<1> QED
  BY <1>1, <1>2, <1>3 DEF t, Cat

LEMMA JoinedRight ==
  ASSUME NEW S, NEW a \in Seq(S), NEW b \in Seq(S), NEW k \in 1..Len(b)
  PROVE  Cat(a, b)[Len(a) + k] = b[k]
<1>1. \A i \in 1..Len(b) : Cat(a, b)[Len(a) + i] = b[i]
  BY Joined
<1> QED
  BY <1>1

\* t is s with e put in as number i, and the elements behind it one further.
Spliced(s, t, i, e) ==
  /\ Len(t) = Len(s) + 1
  /\ \A k \in 1..(Len(s) + 1) : t[k] = IF k < i THEN s[k] ELSE IF k = i THEN e ELSE s[k - 1]

LEMMA Inserted ==
  ASSUME NEW S, NEW s \in Seq(S), NEW i \in 1..(Len(s) + 1), NEW e \in S
  PROVE  InsertAt(s, i, e) \in Seq(S) /\ Spliced(s, InsertAt(s, i, e), i, e)
<1> DEFINE a == SubSeq(s, 1, i - 1)
           b == SubSeq(s, i, Len(s))
           t == a \o <<e>> \o b
<1>0. Len(s) \in Nat
  OBVIOUS
<1>1. /\ a \in Seq(S) /\ Len(a) = i - 1
      /\ \A k \in 1..(i - 1) : a[k] = s[k]
  BY <1>0
<1>2. /\ b \in Seq(S) /\ Len(b) = Len(s) - i + 1
      /\ \A k \in 1..(Len(s) - i + 1) : b[k] = s[i + k - 1]
  BY <1>0
<1> HIDE DEF a, b
<1>3. /\ t \in Seq(S) /\ Len(t) = Len(s) + 1
      /\ \A k \in 1..Len(a) : t[k] = a[k]
      /\ t[Len(a) + 1] = e
      /\ \A k \in 1..Len(b) : t[Len(a) + 1 + k] = b[k]
  <2> DEFINE c == a \o <<e>>
  <2>1. <<e>> \in Seq(S) /\ Len(<<e>>) = 1 /\ <<e>>[1] = e
    OBVIOUS
  <2>2. /\ c \in Seq(S) /\ Len(c) = Len(a) + 1
        /\ \A k \in 1..Len(a) : c[k] = a[k]
        /\ c[Len(a) + 1] = e
    <3> DEFINE one == <<e>>
    <3>1. a \in Seq(S) /\ one \in Seq(S) /\ Len(one) = 1 /\ one[1] = e
      BY <1>1, <2>1
    <3> HIDE DEF one
    <3>2. Cat(a, one) \in Seq(S) /\ Len(Cat(a, one)) = Len(a) + Len(one)
      BY <3>1, Joined
    <3>3. \A k \in 1..Len(a) : Cat(a, one)[k] = a[k]
      BY <3>1, Joined
    <3>4. \A k \in 1..Len(one) : Cat(a, one)[Len(a) + k] = one[k]
      BY <3>1, JoinedRight
    <3>5. c = Cat(a, one)
      BY DEF c, one, Cat
    <3> HIDE DEF c
    <3> QED
      BY <3>1, <3>2, <3>3, <3>4, <3>5
  <2> HIDE DEF c
  <2>3. /\ Cat(c, b) \in Seq(S) /\ Len(Cat(c, b)) = Len(c) + Len(b)
        /\ \A k \in 1..Len(c) : Cat(c, b)[k] = c[k]
        /\ \A k \in 1..Len(b) : Cat(c, b)[Len(c) + k] = b[k]
    <3>1. c \in Seq(S) /\ b \in Seq(S)
      BY <1>2, <2>2
    <3>2. Cat(c, b) \in Seq(S) /\ Len(Cat(c, b)) = Len(c) + Len(b)
      BY <3>1, Joined
    <3>3. \A k \in 1..Len(c) : Cat(c, b)[k] = c[k]
      BY <3>1, Joined
    <3>4. \A k \in 1..Len(b) : Cat(c, b)[Len(c) + k] = b[k]
      BY <3>1, JoinedRight
    <3> QED
      BY <3>2, <3>3, <3>4
  <2>4. t = Cat(c, b)
    BY DEF c, Cat
  <2> HIDE DEF t
  <2>5. /\ Len(a) \in Nat /\ Len(b) \in Nat /\ Len(c) = Len(a) + 1
        /\ Len(a) + 1 + Len(b) = Len(s) + 1
    BY <1>0, <1>1, <1>2, <2>2
  <2>6. t \in Seq(S) /\ Len(t) = Len(s) + 1
    BY <2>3, <2>4, <2>5
  <2>7. \A k \in 1..Len(a) : t[k] = a[k]
    BY <2>2, <2>3, <2>4, <2>5
  <2>8. t[Len(a) + 1] = e
    BY <2>2, <2>3, <2>4, <2>5
  <2>9. \A k \in 1..Len(b) : t[Len(a) + 1 + k] = b[k]
    BY <2>3, <2>4, <2>5
  <2> QED
    BY <2>6, <2>7, <2>8, <2>9
<1> HIDE DEF t
<1>4. ASSUME NEW k \in 1..(Len(s) + 1)
      PROVE  t[k] = IF k < i THEN s[k] ELSE IF k = i THEN e ELSE s[k - 1]
  <2>1. CASE k < i
    <3>1. k \in 1..(i - 1)
      BY <2>1
    <3> QED
      BY <1>1, <1>3, <2>1, <3>1
  <2>2. CASE k = i
    BY <1>1, <1>3, <2>2
  <2>3. CASE k > i
    <3>1. /\ k - i \in 1..(Len(s) - i + 1) /\ i + (k - i) - 1 = k - 1
          /\ (i - 1) + 1 + (k - i) = k
      BY <1>0, <2>3
    <3>2. t[k] = b[k - i] /\ b[k - i] = s[k - 1]
      BY <1>1, <1>2, <1>3, <3>1
    <3> QED
      BY <2>3, <3>2
  <2> QED
    BY <2>1, <2>2, <2>3
<1> QED
  BY <1>3, <1>4 DEF InsertAt, Spliced, a, b, t

LEMMA Removed ==
  ASSUME NEW S, NEW s \in Seq(S), NEW i \in 1..Len(s)
  PROVE  /\ RemoveAt(s, i) \in Seq(S)
         /\ Len(RemoveAt(s, i)) = Len(s) - 1
         /\ \A k \in 1..(Len(s) - 1) : RemoveAt(s, i)[k] = IF k < i THEN s[k] ELSE s[k + 1]
<1> DEFINE a == SubSeq(s, 1, i - 1)
           b == SubSeq(s, i + 1, Len(s))
           t == a \o b
<1>0. Len(s) \in Nat
  OBVIOUS
<1>1. /\ a \in Seq(S) /\ Len(a) = i - 1
      /\ \A k \in 1..(i - 1) : a[k] = s[k]
  BY <1>0
<1>2. /\ b \in Seq(S) /\ Len(b) = Len(s) - i
      /\ \A k \in 1..(Len(s) - i) : b[k] = s[i + k]
  BY <1>0
<1> HIDE DEF a, b
<1>3. /\ t \in Seq(S) /\ Len(t) = Len(s) - 1
      /\ \A k \in 1..Len(a) : t[k] = a[k]
      /\ \A k \in 1..Len(b) : t[Len(a) + k] = b[k]
  <2>1. Len(a) + Len(b) = Len(s) - 1
    BY <1>0, <1>1, <1>2
  <2>2. a \in Seq(S) /\ b \in Seq(S)
    BY <1>1, <1>2
  <2>3. t = Cat(a, b)
    BY DEF Cat
  <2>4. Cat(a, b) \in Seq(S) /\ Len(Cat(a, b)) = Len(a) + Len(b)
    BY <2>2, Joined
  <2>5. \A k \in 1..Len(a) : Cat(a, b)[k] = a[k]
    BY <2>2, Joined
  <2>6. \A k \in 1..Len(b) : Cat(a, b)[Len(a) + k] = b[k]
    BY <2>2, JoinedRight
  <2> HIDE DEF t
  <2> QED
    BY <2>1, <2>3, <2>4, <2>5, <2>6
<1> HIDE DEF t
<1>4. ASSUME NEW k \in 1..(Len(s) - 1)
      PROVE  t[k] = IF k < i THEN s[k] ELSE s[k + 1]
  <2>1. CASE k < i
    <3>1. k \in 1..(i - 1)
      BY <2>1
    <3> QED
      BY <1>1, <1>3, <2>1, <3>1
  <2>2. CASE k >= i
    <3>1. /\ k - i + 1 \in 1..(Len(s) - i) /\ i + (k - i + 1) = k + 1
          /\ (i - 1) + (k - i + 1) = k
      BY <1>0, <2>2
    <3>2. b[k - i + 1] = s[k + 1]
      BY <1>2, <3>1
    <3>3. Len(a) + (k - i + 1) = k /\ k - i + 1 \in 1..Len(b)
      BY <1>1, <1>2, <3>1
    <3>4. t[Len(a) + (k - i + 1)] = b[k - i + 1]
      BY <1>3, <3>3
    <3> QED
      BY <2>2, <3>2, <3>3, <3>4
  <2> QED
    BY <2>1, <2>2
<1> QED
  BY <1>3, <1>4 DEF RemoveAt, a, b, t

-----------------------------------------------------------------------------
-----------------------------------------------------------------------------
(* The children of a node, as a set                                         *)

LEMMA SetOf ==
  ASSUME NEW S, NEW s \in Seq(S)
  PROVE  /\ ToSet(s) \subseteq S
         /\ \A e : e \in ToSet(s) <=> \E k \in 1..Len(s) : s[k] = e
         /\ \A e : Contains(s, e) <=> e \in ToSet(s)
         /\ \A k \in 1..Len(s) : s[k] \in ToSet(s)
BY DEF ToSet, Contains

LEMMA SplicedSet ==
  ASSUME NEW S, NEW s \in Seq(S), NEW t \in Seq(S), NEW i \in 1..(Len(s) + 1), NEW e \in S,
         Spliced(s, t, i, e)
  PROVE  /\ ToSet(t) = ToSet(s) \cup {e}
         /\ IsInjective(s) /\ e \notin ToSet(s) => IsInjective(t)
<1>0. /\ Len(s) \in Nat /\ i \in Nat /\ Len(t) = Len(s) + 1
      /\ \A k \in 1..(Len(s) + 1) : t[k] = IF k < i THEN s[k] ELSE IF k = i THEN e ELSE s[k - 1]
  BY DEF Spliced
<1>1. \A k \in 1..Len(t) : t[k] \in ToSet(s) \cup {e}
  <2> SUFFICES ASSUME NEW k \in 1..Len(t) PROVE t[k] \in ToSet(s) \cup {e}
    OBVIOUS
  <2>1. CASE k < i
    <3>1. k \in 1..Len(s) /\ t[k] = s[k]
      BY <1>0, <2>1
    <3> QED
      BY <3>1, SetOf
  <2>2. CASE k = i
    BY <1>0, <2>2
  <2>3. CASE k > i
    <3>1. k - 1 \in 1..Len(s) /\ t[k] = s[k - 1]
      BY <1>0, <2>3
    <3> QED
      BY <3>1, SetOf
  <2> QED
    BY <1>0, <2>1, <2>2, <2>3
<1>2. \A k \in 1..Len(s) : s[k] \in ToSet(t)
  <2> SUFFICES ASSUME NEW k \in 1..Len(s) PROVE s[k] \in ToSet(t)
    OBVIOUS
  <2>1. CASE k < i
    <3>1. k \in 1..Len(t) /\ t[k] = s[k]
      BY <1>0, <2>1
    <3> QED
      BY <3>1, SetOf
  <2>2. CASE ~(k < i)
    <3>1. k + 1 \in 1..Len(t) /\ t[k + 1] = s[k]
      BY <1>0, <2>2
    <3> QED
      BY <3>1, SetOf
  <2> QED
    BY <2>1, <2>2
<1>3. i \in 1..Len(t) /\ t[i] = e
  BY <1>0
<1>4. ToSet(t) = ToSet(s) \cup {e}
  <2>1. e \in ToSet(t)
    BY <1>3, SetOf
  <2>2. ASSUME NEW x \in ToSet(t) PROVE x \in ToSet(s) \cup {e}
    <3>1. PICK k \in 1..Len(t) : t[k] = x
      BY SetOf
    <3> QED
      BY <1>1, <3>1
  <2>3. ASSUME NEW x \in ToSet(s) PROVE x \in ToSet(t)
    <3>1. PICK k \in 1..Len(s) : s[k] = x
      BY SetOf
    <3> QED
      BY <1>2, <3>1
  <2> QED
    BY <2>1, <2>2, <2>3
<1>5. ASSUME IsInjective(s), e \notin ToSet(s)
      PROVE  IsInjective(t)
  <2>1. \A a, b \in 1..Len(s) : s[a] = s[b] => a = b
    BY <1>5 DEF IsInjective
  <2>2. \A a \in 1..Len(s) : s[a] # e
    BY <1>5, SetOf
  <2>3. ASSUME NEW a \in 1..Len(t), NEW b \in 1..Len(t), t[a] = t[b], a < b
        PROVE  FALSE
    <3> DEFINE o(k) == IF k < i THEN k ELSE k - 1
    <3>1. a # i => o(a) \in 1..Len(s) /\ t[a] = s[o(a)]
      BY <1>0
    <3>2. b # i => o(b) \in 1..Len(s) /\ t[b] = s[o(b)]
      BY <1>0
    <3>3. a # i /\ b # i => o(a) # o(b)
      BY <1>0, <2>3
    <3>4. a = i => t[a] = e
      BY <1>3
    <3>5. b = i => t[b] = e
      BY <1>3
    <3>6. a # b
      BY <2>3
    <3> HIDE DEF o
    <3> QED
      BY <2>1, <2>2, <2>3, <3>1, <3>2, <3>3, <3>4, <3>5, <3>6
  <2>4. \A a, b \in 1..Len(t) : t[a] = t[b] => a = b
    <3> SUFFICES ASSUME NEW a \in 1..Len(t), NEW b \in 1..Len(t), t[a] = t[b], a # b
                 PROVE  FALSE
      OBVIOUS
    <3>1. a < b \/ b < a
      BY <1>0
    <3> QED
      BY <2>3, <3>1
  <2> QED
    BY <2>4 DEF IsInjective
<1> QED
  BY <1>4, <1>5

LEMMA InsertRowSet ==
  ASSUME NEW S, NEW s \in Seq(S), NEW row \in Nat, NEW e \in S
  PROVE  /\ InsertRow(s, row, e) \in Seq(S)
         /\ ToSet(InsertRow(s, row, e)) = ToSet(s) \cup {e}
         /\ IsInjective(s) /\ e \notin ToSet(s) => IsInjective(InsertRow(s, row, e))
<1>0. Len(s) \in Nat
  OBVIOUS
<1>1. PICK i \in 1..(Len(s) + 1) :
        InsertRow(s, row, e) \in Seq(S) /\ Spliced(s, InsertRow(s, row, e), i, e)
  <2>1. CASE row <= Len(s)
    <3> DEFINE i == row + 1
    <3>1. InsertRow(s, row, e) = InsertAt(s, i, e) /\ i \in 1..(Len(s) + 1)
      BY <1>0, <2>1 DEF InsertRow
    <3> HIDE DEF i
    <3>2. InsertAt(s, i, e) \in Seq(S) /\ Spliced(s, InsertAt(s, i, e), i, e)
      BY <3>1, Inserted
    <3> QED
      BY <3>1, <3>2
  <2>2. CASE ~(row <= Len(s))
    <3>1. InsertRow(s, row, e) = Append(s, e)
      BY <2>2 DEF InsertRow
    <3>2. Append(s, e) \in Seq(S) /\ Spliced(s, Append(s, e), Len(s) + 1, e)
      BY <1>0 DEF Spliced
    <3> QED
      BY <1>0, <3>1, <3>2
  <2> QED
    BY <2>1, <2>2
<1> QED
  BY <1>1, SplicedSet

LEMMA RemoveRowSet ==
  ASSUME NEW S, NEW s \in Seq(S), NEW row \in Nat, row < Len(s), IsInjective(s)
  PROVE  /\ RemoveRow(s, row) \in Seq(S) /\ IsInjective(RemoveRow(s, row))
         /\ ToSet(RemoveRow(s, row)) = ToSet(s) \ {s[row + 1]}
<1> DEFINE t == RemoveRow(s, row)
<1>0. Len(s) \in Nat /\ row + 1 \in 1..Len(s)
  OBVIOUS
<1>1. t = RemoveAt(s, row + 1)
  BY DEF RemoveRow
<1> HIDE DEF t
<1>2. /\ t \in Seq(S) /\ Len(t) = Len(s) - 1
      /\ \A k \in 1..(Len(s) - 1) : t[k] = IF k < row + 1 THEN s[k] ELSE s[k + 1]
  BY <1>0, <1>1, Removed
<1>3. \A a, b \in 1..Len(s) : s[a] = s[b] => a = b
  BY DEF IsInjective
<1> DEFINE o(k) == IF k < row + 1 THEN k ELSE k + 1
<1>4. \A k \in 1..Len(t) : o(k) \in 1..Len(s) /\ t[k] = s[o(k)] /\ o(k) # row + 1
  BY <1>0, <1>2
<1>5. \A a, b \in 1..Len(t) : o(a) = o(b) => a = b
  BY <1>0, <1>2
<1>6. \A j \in 1..Len(s) : j # row + 1 => \E k \in 1..Len(t) : j = o(k)
  <2> SUFFICES ASSUME NEW j \in 1..Len(s), j # row + 1 PROVE \E k \in 1..Len(t) : j = o(k)
    OBVIOUS
  <2>1. CASE j < row + 1
    <3>1. j \in 1..Len(t) /\ j = o(j)
      BY <1>0, <1>2, <2>1
    <3> QED
      BY <3>1
  <2>2. CASE ~(j < row + 1)
    <3>1. j - 1 \in 1..Len(t) /\ j = o(j - 1)
      BY <1>0, <1>2, <2>2
    <3> QED
      BY <3>1
  <2> QED
    BY <2>1, <2>2
<1> HIDE DEF o
<1>7. \A a, b \in 1..Len(t) : t[a] = t[b] => a = b
  BY <1>3, <1>4, <1>5
<1>8. IsInjective(t)
  BY <1>2, <1>7 DEF IsInjective
<1>9. ToSet(t) = ToSet(s) \ {s[row + 1]}
  <2>1. \A k \in 1..Len(t) : t[k] \in ToSet(s) /\ t[k] # s[row + 1]
    BY <1>0, <1>3, <1>4, SetOf
  <2>2. \A j \in 1..Len(s) : s[j] # s[row + 1] => s[j] \in ToSet(t)
    <3> SUFFICES ASSUME NEW j \in 1..Len(s), s[j] # s[row + 1] PROVE s[j] \in ToSet(t)
      OBVIOUS
    <3>1. PICK k \in 1..Len(t) : j = o(k)
      BY <1>6
    <3> QED
      BY <1>2, <1>4, <3>1, SetOf
  <2> QED
    BY <1>2, <2>1, <2>2, SetOf
<1> QED
  BY <1>2, <1>8, <1>9 DEF t

LEMMA RowInIs ==
  ASSUME NEW S, NEW s \in Seq(S), NEW i \in ToSet(s)
  PROVE  RowIn(s, i) \in Nat /\ RowIn(s, i) < Len(s) /\ s[RowIn(s, i) + 1] = i
<1>1. \E r \in 1..Len(s) : s[r] = i
  BY SetOf
<1> DEFINE r == CHOOSE r \in 1..Len(s) : s[r] = i
<1>2. r \in 1..Len(s) /\ s[r] = i
  BY <1>1
<1>3. RowIn(s, i) = r - 1
  BY DEF RowIn
<1> HIDE DEF r
<1> QED
  BY <1>2, <1>3

-----------------------------------------------------------------------------
(* What is below a node                                                     *)

Shape == [Nodes -> Seq(Items)]

LEMMA NodesAre ==
  /\ MaxItems \in Nat /\ 0 \in Nodes /\ Root \in Nodes /\ Root \notin Items
  /\ Items \subseteq Nodes /\ Nodes \subseteq Nat
  /\ IsFiniteSet(Items) /\ Cardinality(Items) = MaxItems
  /\ Max(Nodes) = MaxItems
<1>1. MaxItems \in Nat \ {0}
  BY FavoritesAssumption
<1>2. IsFiniteSet(Items) /\ Cardinality(Items) = MaxItems
  <2>1. IsFiniteSet(1..MaxItems) /\ Cardinality(1..MaxItems) = IF 1 > MaxItems THEN 0 ELSE MaxItems - 1 + 1
    BY <1>1, FS_Interval
  <2> QED
    BY <1>1, <2>1 DEF Items
<1>3. Max(Nodes) = MaxItems
  BY <1>1 DEF Nodes, Max
<1> QED
  BY <1>1, <1>2, <1>3 DEF Nodes, Items, Root

LEMMA KidsOf ==
  ASSUME NEW K \in Shape, NEW p \in Nodes
  PROVE  /\ K[p] \in Seq(Items) /\ ToSet(K[p]) \in SUBSET Items
         /\ \A i : Contains(K[p], i) <=> i \in ToSet(K[p])
<1>1. K[p] \in Seq(Items)
  BY DEF Shape
<1> QED
  BY <1>1, SetOf

\* Repeating a step any number of times.
Runs(N, T, A, G) == \E f \in [0..N -> T] : f[0] = A /\ \A d \in 1..N : f[d] = G[d][f[d - 1]]

LEMMA Repeated ==
  ASSUME NEW N \in Nat, NEW T, NEW A \in T, NEW G \in [Nat -> [T -> T]]
  PROVE  Runs(N, T, A, G)
<1>0. SUFFICES \E f \in [0..N -> T] : f[0] = A /\ \A d \in 1..N : f[d] = G[d][f[d - 1]]
  BY DEF Runs
<1> DEFINE P(k) == \E f \in [0..k -> T] : f[0] = A /\ \A d \in 1..k : f[d] = G[d][f[d - 1]]
           Bad == {k \in Nat : ~P(k)}
<1>1. SUFFICES ASSUME Bad # {} PROVE FALSE
  OBVIOUS
<1>2. PICK k \in Bad : \A j \in Bad : k <= j
  BY <1>1, Least
<1>3. P(0)
  <2> DEFINE f == [d \in 0..0 |-> A]
  <2>1. f \in [0..0 -> T] /\ f[0] = A /\ \A d \in 1..0 : f[d] = G[d][f[d - 1]]
    OBVIOUS
  <2> QED
    BY <2>1
<1>4. k \in Nat /\ k # 0 /\ ~P(k)
  BY <1>2, <1>3
<1>5. k - 1 \in Nat /\ P(k - 1)
  <2>1. k - 1 \in Nat /\ ~(k <= k - 1)
    BY <1>4
  <2>2. k - 1 \notin Bad
    BY <1>2, <2>1
  <2> HIDE DEF P
  <2> QED
    BY <2>1, <2>2
<1>6. PICK f \in [0..(k - 1) -> T] : f[0] = A /\ \A d \in 1..(k - 1) : f[d] = G[d][f[d - 1]]
  BY <1>5
<1> DEFINE e == G[k][f[k - 1]]
           g == [d \in 0..k |-> IF d = k THEN e ELSE f[d]]
<1>7. e \in T
  BY <1>4, <1>5, <1>6
<1>8. \A d \in 0..k : d # k => d \in 0..(k - 1)
  BY <1>4
<1>9. g \in [0..k -> T] /\ g[k] = e /\ \A d \in 0..(k - 1) : g[d] = f[d]
  <2> HIDE DEF e
  <2> QED
    BY <1>4, <1>6, <1>7, <1>8
<1>10. g[0] = A /\ g[k - 1] = f[k - 1]
  BY <1>4, <1>6, <1>9
<1>11. \A d \in 1..k : g[d] = G[d][g[d - 1]]
  <2> HIDE DEF g
  <2> SUFFICES ASSUME NEW d \in 1..k PROVE g[d] = G[d][g[d - 1]]
    OBVIOUS
  <2>1. CASE d = k
    BY <1>9, <1>10, <2>1
  <2>2. CASE d # k
    <3>1. d \in 1..(k - 1) /\ d \in 0..(k - 1) /\ d - 1 \in 0..(k - 1)
      BY <1>4, <2>2
    <3> QED
      BY <1>6, <1>9, <3>1
  <2> QED
    BY <2>1, <2>2
<1> QED
  <2> HIDE DEF g
  <2> QED
    BY <1>4, <1>9, <1>10, <1>11

Grown(K, S) == UNION {{m} \cup ToSet(K[m]) : m \in S}

LEMMA GrownIs ==
  ASSUME NEW K \in Shape, NEW S \in SUBSET Items
  PROVE  /\ Grown(K, S) \in SUBSET Items /\ S \subseteq Grown(K, S)
         /\ \A m \in S : ToSet(K[m]) \subseteq Grown(K, S)
         /\ \A i \in Grown(K, S) : i \in S \/ \E m \in S : i \in ToSet(K[m])
<1>1. \A m \in S : ToSet(K[m]) \in SUBSET Items /\ m \in Items
  BY NodesAre, KidsOf
<1>2. \A i : i \in Grown(K, S) <=> \E m \in S : i = m \/ i \in ToSet(K[m])
  BY DEF Grown
<1> QED
  BY <1>1, <1>2

LEMMA LevelsAre ==
  ASSUME NEW K \in Shape, NEW n \in Nodes
  PROVE  /\ Levels(K, n) \in [Nodes -> SUBSET Items]
         /\ Levels(K, n)[0] = ToSet(K[n])
         /\ \A d \in 1..MaxItems : Levels(K, n)[d] = Grown(K, Levels(K, n)[d - 1])
<1> DEFINE P(g) == g = [d \in DOMAIN K |-> IF d = 0 THEN ToSet(K[n])
                        ELSE UNION {{m} \cup ToSet(K[m]) : m \in g[d - 1]}]
           Q(g) == g = [d \in Nodes |-> IF d = 0 THEN ToSet(K[n]) ELSE Grown(K, g[d - 1])]
           L == Levels(K, n)
<1>1. L = CHOOSE g : P(g)
  BY Zenon DEF Levels
<1>2. DOMAIN K = Nodes
  BY DEF Shape
<1>3. \A g : P(g) <=> Q(g)
  BY <1>2 DEF Grown
<1>4. ToSet(K[n]) \in SUBSET Items /\ MaxItems \in Nat /\ Nodes = 0..MaxItems
  BY KidsOf, NodesAre DEF Nodes
<1>5. \E g : Q(g)
  <2> DEFINE G == [k \in Nat |-> [S \in SUBSET Items |-> Grown(K, S)]]
  <2>1. \A S \in SUBSET Items : Grown(K, S) \in SUBSET Items
    BY GrownIs
  <2>2. G \in [Nat -> [SUBSET Items -> SUBSET Items]]
    BY <2>1
  <2>3. \A d \in Nat, S \in SUBSET Items : G[d][S] = Grown(K, S)
    OBVIOUS
  <2> HIDE DEF G
  <2>4. PICK f \in [0..MaxItems -> SUBSET Items] :
          f[0] = ToSet(K[n]) /\ \A d \in 1..MaxItems : f[d] = G[d][f[d - 1]]
    <3> DEFINE A == ToSet(K[n])
               T == SUBSET Items
    <3>1. A \in T /\ MaxItems \in Nat /\ G \in [Nat -> [T -> T]]
      BY <1>4, <2>2
    <3> HIDE DEF A, T
    <3>2. Runs(MaxItems, T, A, G)
      BY <3>1, Repeated
    <3> QED
      BY <3>2 DEF A, T, Runs
  <2>5. \A d \in Nodes : f[d] = IF d = 0 THEN ToSet(K[n]) ELSE Grown(K, f[d - 1])
    <3> SUFFICES ASSUME NEW d \in Nodes, d # 0 PROVE f[d] = Grown(K, f[d - 1])
      BY <2>4
    <3>1. d \in 1..MaxItems /\ d - 1 \in 0..MaxItems /\ d \in Nat
      BY <1>4
    <3> QED
      BY <2>3, <2>4, <3>1
  <2>6. Q(f)
    BY <1>4, <2>4, <2>5
  <2> QED
    BY <2>6
<1>6. P(L)
  <2> HIDE DEF P, Q, L
  <2> QED
    BY <1>1, <1>3, <1>5
<1>7. Q(L)
  BY <1>3, <1>6
<1> HIDE DEF P, L
<1>8. DOMAIN L = Nodes /\ L[0] = ToSet(K[n])
  BY <1>4, <1>7
<1>9. ASSUME NEW d \in 1..MaxItems PROVE L[d] = Grown(K, L[d - 1]) /\ d - 1 \in Nodes /\ d \in Nodes
  BY <1>4, <1>7
<1>10. \A d \in Nodes : L[d] \in SUBSET Items
  <2> DEFINE Bad == {d \in Nodes : L[d] \notin SUBSET Items}
  <2>1. SUFFICES ASSUME Bad # {} PROVE FALSE
    OBVIOUS
  <2>2. Bad \in SUBSET Nat
    BY NodesAre
  <2>3. PICK d \in Bad : \A j \in Bad : d <= j
    BY <2>1, <2>2, Least
  <2>4. d # 0 /\ d \in 1..MaxItems
    BY <1>4, <1>8, <2>3
  <2>5. d - 1 \in Nodes /\ ~(d <= d - 1)
    BY <1>9, <2>4
  <2>6. L[d - 1] \in SUBSET Items
    BY <2>3, <2>5
  <2>7. L[d] \in SUBSET Items
    BY <1>9, <2>4, <2>6, GrownIs
  <2> QED
    BY <2>3, <2>7
<1>11. L \in [Nodes -> SUBSET Items]
  BY <1>7, <1>8, <1>10
<1> QED
  BY <1>8, <1>9, <1>11 DEF L

\* U has the children of node n and those of its own members.
Covers(K, n, U) == ToSet(K[n]) \subseteq U /\ \A m \in U : ToSet(K[m]) \subseteq U

\* Below(K, n) is the least set that has them.
LEMMA BelowIs ==
  ASSUME NEW K \in Shape, NEW n \in Nodes
  PROVE  /\ Below(K, n) \in SUBSET Items /\ Covers(K, n, Below(K, n))
         /\ \A U \in SUBSET Items : Covers(K, n, U) => Below(K, n) \subseteq U
<1> DEFINE L == Levels(K, n)
           Closed(S) == \A m \in S : ToSet(K[m]) \subseteq S
<1>0. MaxItems \in Nat /\ Nodes = 0..MaxItems /\ Nodes \subseteq Nat
  BY NodesAre DEF Nodes
<1>1. /\ \A d \in Nodes : L[d] \in SUBSET Items
      /\ L[0] = ToSet(K[n])
      /\ \A d \in 1..MaxItems : L[d] = Grown(K, L[d - 1])
  BY LevelsAre
<1> HIDE DEF L
<1>2. ASSUME NEW B \in SUBSET Nodes, B # {}, 0 \notin B
      PROVE  \E d \in 1..MaxItems : d \in B /\ d - 1 \in Nodes /\ d - 1 \notin B
  <2>1. PICK d \in B : \A j \in B : d <= j
    BY <1>0, <1>2, Least
  <2>2. d \in 1..MaxItems /\ d - 1 \in Nodes /\ ~(d <= d - 1)
    BY <1>0, <1>2
  <2> QED
    BY <2>1, <2>2
<1>3. ToSet(K[n]) \subseteq L[MaxItems]
  <2> DEFINE B == {d \in Nodes : ~(ToSet(K[n]) \subseteq L[d])}
  <2>1. SUFFICES ASSUME B # {} PROVE FALSE
    BY <1>0
  <2>2. B \in SUBSET Nodes /\ 0 \notin B
    BY <1>1
  <2>3. PICK d \in 1..MaxItems : d \in B /\ d - 1 \in Nodes /\ d - 1 \notin B
    BY <1>2, <2>1, <2>2
  <2>4. ToSet(K[n]) \subseteq L[d - 1]
    BY <2>3
  <2>5. L[d - 1] \subseteq L[d]
    BY <1>1, <2>3, GrownIs
  <2> QED
    BY <2>3, <2>4, <2>5
<1>4. \A U \in SUBSET Items : Covers(K, n, U) => L[MaxItems] \subseteq U
  <2> SUFFICES ASSUME NEW U \in SUBSET Items, Covers(K, n, U) PROVE L[MaxItems] \subseteq U
    OBVIOUS
  <2> DEFINE B == {d \in Nodes : ~(L[d] \subseteq U)}
  <2>1. SUFFICES ASSUME B # {} PROVE FALSE
    BY <1>0
  <2>2. B \in SUBSET Nodes /\ 0 \notin B
    BY <1>1 DEF Covers
  <2>3. PICK d \in 1..MaxItems : d \in B /\ d - 1 \in Nodes /\ d - 1 \notin B
    BY <1>2, <2>1, <2>2
  <2>4. L[d - 1] \subseteq U
    BY <2>3
  <2>5. \A i \in L[d] : i \in L[d - 1] \/ \E m \in L[d - 1] : i \in ToSet(K[m])
    BY <1>1, <2>3, GrownIs
  <2>6. L[d] \subseteq U
    BY <2>4, <2>5 DEF Covers
  <2> QED
    BY <2>3, <2>6
<1>5. \A d \in Nodes : IsFiniteSet(L[d]) /\ Cardinality(L[d]) \in Nat
  <2> SUFFICES ASSUME NEW d \in Nodes PROVE IsFiniteSet(L[d]) /\ Cardinality(L[d]) \in Nat
    OBVIOUS
  <2>1. IsFiniteSet(L[d])
    BY <1>1, NodesAre, FS_Subset
  <2> QED
    BY <2>1, FS_CardinalityType
<1>6. \A d \in Nodes : Closed(L[d]) \/ Cardinality(L[d]) > d
  <2> DEFINE B == {d \in Nodes : ~(Closed(L[d]) \/ Cardinality(L[d]) > d)}
  <2>1. SUFFICES ASSUME B # {} PROVE FALSE
    OBVIOUS
  <2>2. 0 \notin B
    <3> SUFFICES ASSUME ~Closed(L[0]), ~(Cardinality(L[0]) > 0) PROVE FALSE
      OBVIOUS
    <3>1. 0 \in Nodes
      BY NodesAre
    <3>2. IsFiniteSet(L[0]) /\ Cardinality(L[0]) = 0
      BY <1>5, <3>1
    <3>3. L[0] = {}
      BY <3>2, FS_EmptySet
    <3> QED
      BY <3>3
  <2>3. PICK d \in 1..MaxItems : d \in B /\ d - 1 \in Nodes /\ d - 1 \notin B
    <3>1. B \in SUBSET Nodes
      OBVIOUS
    <3> HIDE DEF B
    <3> QED
      BY <1>2, <2>1, <2>2, <3>1
  <2>4. /\ ~Closed(L[d]) /\ ~(Cardinality(L[d]) > d) /\ d \in Nodes
        /\ Closed(L[d - 1]) \/ Cardinality(L[d - 1]) > d - 1
    BY <2>3
  <2>5. /\ L[d - 1] \in SUBSET Items /\ L[d] = Grown(K, L[d - 1])
    BY <1>1, <2>3
  <2>6. L[d - 1] \subseteq L[d] /\ \A m \in L[d - 1] : ToSet(K[m]) \subseteq L[d]
    BY <2>5, GrownIs
  <2>7. L[d - 1] # L[d]
    BY <2>4, <2>6
  <2>8. ~Closed(L[d - 1])
    <3>1. \A i \in L[d] : i \in L[d - 1] \/ \E m \in L[d - 1] : i \in ToSet(K[m])
      BY <2>5, GrownIs
    <3> QED
      BY <2>6, <2>7, <3>1
  <2>9. Cardinality(L[d - 1]) > d - 1
    BY <2>4, <2>8
  <2> HIDE DEF Closed, B
  <2>10. /\ Cardinality(L[d - 1]) <= Cardinality(L[d])
         /\ Cardinality(L[d]) = Cardinality(L[d - 1]) => L[d] = L[d - 1]
    BY <1>5, <2>4, <2>6, FS_Subset
  <2>11. Cardinality(L[d - 1]) \in Nat /\ Cardinality(L[d]) \in Nat
    BY <1>5, <2>3, <2>4
  <2> QED
    BY <2>4, <2>7, <2>9, <2>10, <2>11
<1>7. Closed(L[MaxItems])
  <2> HIDE DEF Closed
  <2>1. MaxItems \in Nodes
    BY <1>0
  <2>2. Cardinality(L[MaxItems]) <= MaxItems /\ Cardinality(L[MaxItems]) \in Nat
    BY <1>1, <1>5, <2>1, NodesAre, FS_Subset
  <2> QED
    BY <1>0, <1>6, <2>1, <2>2
<1>8. \A i \in L[MaxItems] : Attached(K, i)
  <2> DEFINE B == {d \in Nodes : \E i \in L[d] : ~Attached(K, i)}
  <2>0. \A p \in Nodes : \A i \in ToSet(K[p]) : Attached(K, i)
    <3> TAKE p \in Nodes
    <3> TAKE i \in ToSet(K[p])
    <3>1. Contains(K[p], i) /\ p \in DOMAIN K
      BY KidsOf DEF Shape
    <3> QED
      BY <3>1 DEF Attached, Parents
  <2>1. SUFFICES ASSUME B # {} PROVE FALSE
    BY <1>0
  <2>2. B \in SUBSET Nodes /\ 0 \notin B
    BY <1>1, <2>0
  <2>3. PICK d \in 1..MaxItems : d \in B /\ d - 1 \in Nodes /\ d - 1 \notin B
    BY <1>2, <2>1, <2>2
  <2>4. \A i \in L[d - 1] : Attached(K, i) /\ i \in Nodes
    BY <1>1, <2>3, NodesAre
  <2>5. \A i \in L[d] : i \in L[d - 1] \/ \E m \in L[d - 1] : i \in ToSet(K[m])
    BY <1>1, <2>3, GrownIs
  <2>6. \A i \in L[d] : Attached(K, i)
    BY <2>0, <2>4, <2>5
  <2> QED
    BY <2>3, <2>6
<1>9. Below(K, n) = L[MaxItems]
  <2>1. Max(DOMAIN K) = MaxItems
    BY NodesAre DEF Shape
  <2> QED
    BY <1>8, <2>1 DEF Below, L
<1>10. L[MaxItems] \in SUBSET Items
  BY <1>0, <1>1
<1> QED
  BY <1>3, <1>4, <1>7, <1>9, <1>10 DEF Covers

-----------------------------------------------------------------------------
(* Trees                                                                    *)

\* No node has a child that another has, or is below itself: every set of items
\* has one with no child in the set.
Alone(K) == \A p, q \in Nodes, i \in Items : i \in ToSet(K[p]) /\ i \in ToSet(K[q]) => p = q
Acyclic(K) == \A S \in SUBSET Items : S # {} => \E i \in S : ToSet(K[i]) \cap S = {}

\* The children of every node, when m items were made.
Tree(K, m) ==
  /\ K \in Shape
  /\ \A p \in Nodes : IsInjective(K[p]) /\ ToSet(K[p]) \subseteq 1..m
  /\ \A p \in Nodes : p > m => K[p] = << >>
  /\ Alone(K) /\ Acyclic(K)

LEMMA EmptyHasNone == ToSet(<< >>) = {}
BY DEF ToSet

LEMMA NotBelowItself ==
  ASSUME NEW K \in Shape, Acyclic(K), NEW i \in Items
  PROVE  i \notin Below(K, i)
<1> SUFFICES ASSUME i \in Below(K, i) PROVE FALSE
  OBVIOUS
<1> DEFINE S == {j \in Items : i \in Below(K, j)}
<1>1. S \in SUBSET Items /\ S # {}
  OBVIOUS
<1>2. ASSUME NEW j \in S PROVE ToSet(K[j]) \cap S # {}
  <2> DEFINE V == {x \in Items : x \in ToSet(K[j]) \/ \E c \in ToSet(K[j]) : x \in Below(K, c)}
  <2>1. j \in Nodes /\ ToSet(K[j]) \in SUBSET Items
    BY NodesAre, KidsOf
  <2>2. \A c \in Items : c \in Nodes /\ Covers(K, c, Below(K, c)) /\ Below(K, c) \in SUBSET Items
    BY NodesAre, BelowIs
  <2>3. Covers(K, j, V)
    <3>1. ToSet(K[j]) \subseteq V
      BY <2>1
    <3>2. ASSUME NEW x \in V, NEW y \in ToSet(K[x]) PROVE y \in V
      <4>1. y \in Items
        BY KidsOf, NodesAre
      <4>2. CASE x \in ToSet(K[j])
        <5>1. x \in Items /\ y \in Below(K, x)
          BY <2>1, <2>2, <3>2, <4>2 DEF Covers
        <5> QED
          BY <4>1, <4>2, <5>1
      <4>3. CASE x \notin ToSet(K[j])
        <5>1. PICK c \in ToSet(K[j]) : x \in Below(K, c)
          BY <4>3
        <5>2. y \in Below(K, c)
          BY <2>1, <2>2, <3>2, <5>1 DEF Covers
        <5> QED
          BY <4>1, <5>2
      <4> QED
        BY <4>2, <4>3
    <3> HIDE DEF V
    <3> QED
      BY <3>1, <3>2 DEF Covers
  <2>4. V \in SUBSET Items
    OBVIOUS
  <2>5. Below(K, j) \subseteq V
    <3> HIDE DEF V
    <3> QED
      BY <2>1, <2>3, <2>4, BelowIs
  <2>6. i \in V
    BY <2>5
  <2> QED
    BY <2>1, <2>6
<1> HIDE DEF S
<1>3. PICK j \in S : ToSet(K[j]) \cap S = {}
  BY <1>1 DEF Acyclic
<1> QED
  BY <1>2, <1>3

LEMMA ParentIs ==
  ASSUME NEW K \in Shape, Alone(K), NEW i \in Items, NEW p \in Nodes, i \in ToSet(K[p])
  PROVE  /\ Parents(K, i) = {p} /\ ParentOf(K, i) = p /\ Attached(K, i)
         /\ RowOf(K, i) \in Nat /\ RowOf(K, i) < Len(K[p]) /\ K[p][RowOf(K, i) + 1] = i
<1>1. DOMAIN K = Nodes
  BY DEF Shape
<1>2. \A q \in Nodes : Contains(K[q], i) <=> q = p
  BY KidsOf DEF Alone
<1>3. Parents(K, i) = {p}
  BY <1>1, <1>2 DEF Parents
<1>4. ParentOf(K, i) = p /\ Attached(K, i)
  BY <1>3 DEF ParentOf, Attached
<1>5. K[p] \in Seq(Items)
  BY KidsOf
<1> QED
  BY <1>3, <1>4, <1>5, RowInIs DEF RowOf

LEMMA AttachedIs ==
  ASSUME NEW K \in Shape, Alone(K), NEW i \in Items, Attached(K, i)
  PROVE  ParentOf(K, i) \in Nodes /\ i \in ToSet(K[ParentOf(K, i)])
<1>1. PICK p \in Nodes : Contains(K[p], i)
  BY DEF Attached, Parents, Shape
<1>2. i \in ToSet(K[p])
  BY <1>1, KidsOf
<1> QED
  BY <1>2, ParentIs

\* What is below a node has its parent there too, or is a child of the node.
LEMMA ParentBelow ==
  ASSUME NEW K \in Shape, Alone(K), NEW n \in Nodes, NEW i \in Below(K, n)
  PROVE  /\ i \in Items /\ Attached(K, i) /\ ParentOf(K, i) \in Below(K, n) \cup {n}
         /\ i \in ToSet(K[ParentOf(K, i)])
<1> DEFINE T == Below(K, n)
           V == {x \in T : \E p \in T \cup {n} : x \in ToSet(K[p])}
<1>1. T \in SUBSET Items /\ Covers(K, n, T)
  BY BelowIs
<1>2. V \in SUBSET Items /\ Covers(K, n, V)
  BY <1>1 DEF Covers
<1>3. T \subseteq V
  <2> HIDE DEF V
  <2> QED
    BY <1>2, BelowIs
<1>4. PICK p \in T \cup {n} : i \in ToSet(K[p])
  BY <1>3
<1>5. p \in Nodes /\ i \in Items
  BY <1>1, NodesAre
<1> QED
  BY <1>4, <1>5, ParentIs

LEMMA InTreeIs ==
  ASSUME NEW K \in Shape, Alone(K), NEW i \in Below(K, Root)
  PROVE  /\ i \in Items /\ Attached(K, i) /\ ParentOf(K, i) \in Below(K, Root) \cup {Root}
         /\ i \in ToSet(K[ParentOf(K, i)])
BY ParentBelow, NodesAre

LEMMA InTreeMade ==
  ASSUME NEW m \in Nat, NEW K, Tree(K, m)
  PROVE  Below(K, Root) \subseteq 1..m
<1> DEFINE U == {i \in Items : i \in 1..m}
<1>1. K \in Shape /\ \A p \in Nodes : ToSet(K[p]) \subseteq U
  BY KidsOf DEF Tree
<1>2. U \in SUBSET Items /\ Covers(K, Root, U)
  <2> HIDE DEF U
  <2>1. U \in SUBSET Nodes
    BY NodesAre DEF U
  <2> QED
    BY <1>1, <2>1, NodesAre DEF Covers, U
<1>3. Below(K, Root) \subseteq U
  <2> HIDE DEF U
  <2> QED
    BY <1>1, <1>2, BelowIs, NodesAre
<1> QED
  BY <1>3

LEMMA Grows ==
  ASSUME NEW K \in Shape, NEW J \in Shape, \A p \in Nodes : ToSet(K[p]) \subseteq ToSet(J[p]),
         NEW n \in Nodes
  PROVE  Below(K, n) \subseteq Below(J, n)
<1>1. Below(J, n) \in SUBSET Items /\ Covers(J, n, Below(J, n))
  BY BelowIs
<1>2. Covers(K, n, Below(J, n))
  BY <1>1, NodesAre DEF Covers
<1> QED
  BY <1>1, <1>2, BelowIs

-----------------------------------------------------------------------------
(* A row comes in                                                           *)

With(K, p, row, i) == [K EXCEPT ![p] = InsertRow(@, row, i)]

\* In J node p has the child i, too.
Gained(K, J, p, i) ==
  /\ J \in Shape /\ ToSet(J[p]) = ToSet(K[p]) \cup {i}
  /\ \A q \in Nodes : q # p => J[q] = K[q]

LEMMA WithIs ==
  ASSUME NEW K \in Shape, NEW p \in Nodes, NEW row \in Nat, NEW i \in Items
  PROVE  /\ Gained(K, With(K, p, row, i), p, i)
         /\ IsInjective(K[p]) /\ i \notin ToSet(K[p]) => IsInjective(With(K, p, row, i)[p])
<1> DEFINE s == InsertRow(K[p], row, i)
<1>1. /\ s \in Seq(Items) /\ ToSet(s) = ToSet(K[p]) \cup {i}
      /\ IsInjective(K[p]) /\ i \notin ToSet(K[p]) => IsInjective(s)
  BY KidsOf, InsertRowSet
<1>2. With(K, p, row, i) = [K EXCEPT ![p] = s]
  BY DEF With
<1> HIDE DEF s
<1>3. [K EXCEPT ![p] = s] \in Shape /\ [K EXCEPT ![p] = s][p] = s
      /\ \A q \in Nodes : q # p => [K EXCEPT ![p] = s][q] = K[q]
  BY <1>1 DEF Shape
<1> QED
  BY <1>1, <1>2, <1>3 DEF Gained

LEMMA InsertTree ==
  ASSUME NEW m \in Nat, NEW K, Tree(K, m), m + 1 \in Items, NEW p \in Nodes, p <= m,
         NEW row \in Nat
  PROVE  Tree(With(K, p, row, m + 1), m + 1)
<1> DEFINE i == m + 1
           J == With(K, p, row, i)
<1>0. /\ K \in Shape /\ Alone(K) /\ Acyclic(K)
      /\ \A q \in Nodes : IsInjective(K[q]) /\ ToSet(K[q]) \subseteq 1..m
      /\ \A q \in Nodes : q > m => K[q] = << >>
  BY DEF Tree
<1>1. /\ i \in Items /\ i \in Nat /\ i \notin 1..m /\ 1..m \subseteq 1..i /\ i \in 1..i
      /\ p # i /\ i > m /\ i \in Nodes
      /\ \A q \in Nodes : q > i => q > m /\ q # p
  BY NodesAre
<1> HIDE DEF i
<1>2. \A q \in Nodes : i \notin ToSet(K[q])
  BY <1>0, <1>1
<1>3. /\ J \in Shape /\ ToSet(J[p]) = ToSet(K[p]) \cup {i}
      /\ \A q \in Nodes : q # p => J[q] = K[q]
      /\ IsInjective(J[p])
  <2>1. IsInjective(K[p]) /\ i \notin ToSet(K[p])
    BY <1>0, <1>2
  <2>2. /\ J \in Shape /\ ToSet(J[p]) = ToSet(K[p]) \cup {i}
        /\ \A q \in Nodes : q # p => J[q] = K[q]
    <3>1. Gained(K, J, p, i)
      BY <1>0, <1>1, WithIs
    <3> QED
      BY <3>1 DEF Gained
  <2>3. IsInjective(J[p])
    BY <1>0, <1>1, <2>1, WithIs
  <2> QED
    BY <2>2, <2>3
<1> HIDE DEF J
<1>4. \A q \in Nodes : IsInjective(J[q]) /\ ToSet(J[q]) \subseteq 1..i
  <2> TAKE q \in Nodes
  <2>1. CASE q = p
    BY <1>0, <1>1, <1>3, <2>1
  <2>2. CASE q # p
    BY <1>0, <1>1, <1>3, <2>2
  <2> QED
    BY <2>1, <2>2
<1>5. \A q \in Nodes : q > i => J[q] = << >>
  BY <1>0, <1>1, <1>3
<1>6. Alone(J)
  <2>1. ASSUME NEW a \in Nodes, NEW b \in Nodes, NEW x \in Items, x \in ToSet(J[a]), x \in ToSet(J[b])
        PROVE  a = b
    BY <1>0, <1>2, <1>3, <2>1 DEF Alone
  <2> QED
    BY <2>1 DEF Alone
<1>7. Acyclic(J)
  <2>1. ASSUME NEW S \in SUBSET Items, S # {}
        PROVE  \E x \in S : ToSet(J[x]) \cap S = {}
    <3>1. CASE i \in S
      <4>1. ToSet(J[i]) = {}
        BY <1>0, <1>1, <1>3, EmptyHasNone
      <4> QED
        BY <3>1, <4>1
    <3>2. CASE i \notin S
      <4>1. PICK x \in S : ToSet(K[x]) \cap S = {}
        BY <1>0, <2>1 DEF Acyclic
      <4>2. ToSet(J[x]) \subseteq ToSet(K[x]) \cup {i}
        <5>1. x \in Nodes
          BY NodesAre
        <5> QED
          BY <1>3, <5>1
      <4> QED
        BY <3>2, <4>1, <4>2
    <3> QED
      BY <3>1, <3>2
  <2> QED
    BY <2>1 DEF Acyclic
<1>8. Tree(J, i)
  BY <1>3, <1>4, <1>5, <1>6, <1>7 DEF Tree
<1> QED
  BY <1>8 DEF J, i

LEMMA InsertedInTree ==
  ASSUME NEW K \in Shape, NEW p \in Below(K, Root) \cup {Root}, NEW row \in Nat, NEW i \in Items
  PROVE  /\ Below(K, Root) \subseteq Below(With(K, p, row, i), Root)
         /\ i \in Below(With(K, p, row, i), Root)
<1> DEFINE J == With(K, p, row, i)
<1>1. p \in Nodes
  BY BelowIs, NodesAre
<1>2. /\ J \in Shape /\ ToSet(J[p]) = ToSet(K[p]) \cup {i}
      /\ \A q \in Nodes : q # p => J[q] = K[q]
  BY <1>1, WithIs DEF Gained
<1> HIDE DEF J
<1>3. \A q \in Nodes : ToSet(K[q]) \subseteq ToSet(J[q])
  BY <1>1, <1>2
<1>4. Below(K, Root) \subseteq Below(J, Root)
  BY <1>2, <1>3, Grows, NodesAre
<1>5. Covers(J, Root, Below(J, Root))
  BY <1>2, BelowIs, NodesAre
<1>6. i \in Below(J, Root)
  BY <1>1, <1>2, <1>4, <1>5 DEF Covers
<1> QED
  BY <1>4, <1>6 DEF J

\* What a new item adds to the tree is that item.
LEMMA InsertAddsOne ==
  ASSUME NEW K \in Shape, NEW p \in Nodes, NEW row \in Nat, NEW i \in Items, K[i] = << >>, p # i
  PROVE  \A o \in Below(With(K, p, row, i), Root) : o \in Below(K, Root) \/ o = i
<1> DEFINE J == With(K, p, row, i)
           U == Below(K, Root) \cup {i}
<1>1. /\ J \in Shape /\ ToSet(J[p]) = ToSet(K[p]) \cup {i}
      /\ \A q \in Nodes : q # p => J[q] = K[q]
  <2>1. Gained(K, J, p, i)
    BY WithIs
  <2> HIDE DEF J
  <2> QED
    BY <2>1 DEF Gained
<1>2. Below(K, Root) \in SUBSET Items /\ Covers(K, Root, Below(K, Root))
  BY BelowIs, NodesAre
<1>3. \A q \in Nodes : ToSet(J[q]) \subseteq ToSet(K[q]) \cup {i}
  BY <1>1
<1>4. ToSet(J[i]) = {} /\ i \in Nodes
  BY <1>1, EmptyHasNone, NodesAre
<1> HIDE DEF J
<1>5. Covers(J, Root, U)
  BY <1>2, <1>3, <1>4, NodesAre DEF Covers
<1>6. U \in SUBSET Items
  BY <1>2
<1> HIDE DEF U
<1>7. Below(J, Root) \subseteq U
  BY <1>1, <1>5, <1>6, BelowIs, NodesAre
<1> QED
  BY <1>7 DEF U, J

-----------------------------------------------------------------------------
(* A row goes                                                               *)

Without(K, p, row) == [K EXCEPT ![p] = RemoveRow(@, row)]

\* In J node p does not have the child i.
Shed(K, J, p, i) ==
  /\ J \in Shape /\ ToSet(J[p]) = ToSet(K[p]) \ {i} /\ IsInjective(J[p])
  /\ \A q \in Nodes : q # p => J[q] = K[q]

LEMMA WithoutIs ==
  ASSUME NEW K \in Shape, NEW p \in Nodes, IsInjective(K[p]), NEW row \in Nat, row < Len(K[p])
  PROVE  /\ Shed(K, Without(K, p, row), p, K[p][row + 1])
         /\ K[p][row + 1] \in ToSet(K[p]) /\ K[p][row + 1] \in Items
<1> DEFINE s == RemoveRow(K[p], row)
<1>0. K[p] \in Seq(Items) /\ ToSet(K[p]) \in SUBSET Items /\ row + 1 \in 1..Len(K[p])
  BY KidsOf
<1>1. /\ s \in Seq(Items) /\ IsInjective(s) /\ ToSet(s) = ToSet(K[p]) \ {K[p][row + 1]}
  BY <1>0, RemoveRowSet
<1>2. Without(K, p, row) = [K EXCEPT ![p] = s]
  BY DEF Without
<1> HIDE DEF s
<1>3. [K EXCEPT ![p] = s] \in Shape /\ [K EXCEPT ![p] = s][p] = s
      /\ \A q \in Nodes : q # p => [K EXCEPT ![p] = s][q] = K[q]
  BY <1>1 DEF Shape
<1>4. K[p][row + 1] \in ToSet(K[p])
  BY <1>0, SetOf
<1> QED
  BY <1>0, <1>1, <1>2, <1>3, <1>4 DEF Shed

LEMMA ShedTree ==
  ASSUME NEW m \in Nat, NEW K, Tree(K, m), NEW p \in Nodes, NEW i \in Items, i \in ToSet(K[p]),
         NEW J, Shed(K, J, p, i)
  PROVE  Tree(J, m)
<1>0. /\ K \in Shape /\ Alone(K) /\ Acyclic(K)
      /\ \A q \in Nodes : IsInjective(K[q]) /\ ToSet(K[q]) \subseteq 1..m
      /\ \A q \in Nodes : q > m => K[q] = << >>
  BY DEF Tree
<1>1. /\ J \in Shape /\ ToSet(J[p]) = ToSet(K[p]) \ {i} /\ IsInjective(J[p])
      /\ \A q \in Nodes : q # p => J[q] = K[q]
  BY DEF Shed
<1>2. \A q \in Nodes : ToSet(J[q]) \subseteq ToSet(K[q]) /\ IsInjective(J[q])
  BY <1>0, <1>1
<1>3. \A q \in Nodes : q > m => J[q] = << >>
  BY <1>0, <1>1, EmptyHasNone
<1>4. Alone(J)
  BY <1>0, <1>2 DEF Alone
<1>5. Acyclic(J)
  <2>1. ASSUME NEW S \in SUBSET Items, S # {}
        PROVE  \E x \in S : ToSet(J[x]) \cap S = {}
    <3>1. PICK x \in S : ToSet(K[x]) \cap S = {}
      BY <1>0, <2>1 DEF Acyclic
    <3>2. x \in Nodes
      BY NodesAre
    <3> QED
      BY <1>2, <3>1, <3>2
  <2> QED
    BY <2>1 DEF Acyclic
<1> QED
  BY <1>0, <1>1, <1>2, <1>3, <1>4, <1>5 DEF Tree

\* What stays in the tree, and that the node that lost the child does.
LEMMA ShedInTree ==
  ASSUME NEW m \in Nat, NEW K, Tree(K, m), NEW p \in Nodes, NEW i \in Items, i \in ToSet(K[p]),
         NEW J, Shed(K, J, p, i)
  PROVE  /\ Below(K, Root) \subseteq Below(J, Root) \cup {i} \cup Below(K, i)
         /\ p \in Below(K, Root) \cup {Root} => p \in Below(J, Root) \cup {Root}
<1> DEFINE T == Below(J, Root)
           W == {i} \cup Below(K, i)
           U == T \cup W
<1>0. /\ K \in Shape /\ Acyclic(K)
      /\ J \in Shape /\ ToSet(J[p]) = ToSet(K[p]) \ {i} /\ \A q \in Nodes : q # p => J[q] = K[q]
  BY DEF Tree, Shed
<1>1. /\ T \in SUBSET Items /\ Covers(J, Root, T) /\ W \in SUBSET Items
      /\ Covers(K, i, Below(K, i)) /\ Below(K, Root) \in SUBSET Items
  BY <1>0, BelowIs, NodesAre
<1>2. \A q \in Nodes : ToSet(K[q]) \subseteq ToSet(J[q]) \cup {i}
  BY <1>0
<1>3. Covers(K, Root, U)
  <2>1. \A q \in T : ToSet(K[q]) \subseteq U
    BY <1>1, <1>2, NodesAre DEF Covers
  <2>2. \A q \in W : ToSet(K[q]) \subseteq U
    BY <1>1 DEF Covers
  <2>3. ToSet(K[Root]) \subseteq U
    BY <1>1, <1>2, NodesAre DEF Covers
  <2> HIDE DEF T, W
  <2> QED
    BY <2>1, <2>2, <2>3 DEF Covers
<1>4. U \in SUBSET Items
  BY <1>1
<1>5. Below(K, Root) \subseteq U
  <2> HIDE DEF U
  <2> QED
    BY <1>0, <1>3, <1>4, BelowIs, NodesAre
<1>6. p \notin W
  <2>1. i \notin Below(K, i)
    BY <1>0, NotBelowItself
  <2> QED
    BY <1>1, <2>1 DEF Covers
<1> QED
  BY <1>5, <1>6

\* When item i goes, everything below it goes, and nothing else, from below every
\* node that stays.
LEMMA ShedBelow ==
  ASSUME NEW m \in Nat, NEW K, Tree(K, m), NEW p \in Nodes, NEW i \in Items, i \in ToSet(K[p]),
         NEW J, Shed(K, J, p, i), NEW n \in Nodes, n # i, n \notin Below(K, i)
  PROVE  \A o : o \in Below(J, n) <=> o \in Below(K, n) /\ o # i /\ o \notin Below(K, i)
<1> DEFINE T == Below(J, n)
           B == Below(K, n)
           I == Below(K, i)
           W == {i} \cup I
<1>0. /\ K \in Shape /\ Acyclic(K) /\ Alone(K)
      /\ J \in Shape /\ ToSet(J[p]) = ToSet(K[p]) \ {i} /\ \A q \in Nodes : q # p => J[q] = K[q]
  BY DEF Tree, Shed
<1>1. /\ T \in SUBSET Items /\ Covers(J, n, T) /\ I \in SUBSET Items /\ Covers(K, i, I)
      /\ B \in SUBSET Items /\ Covers(K, n, B)
  BY <1>0, BelowIs, NodesAre
<1>2. \A q \in Nodes : ToSet(K[q]) \subseteq ToSet(J[q]) \cup {i}
  BY <1>0
<1>3. ASSUME NEW q \in Nodes, q \notin W, NEW c \in ToSet(J[q])
      PROVE  c \in ToSet(K[q]) /\ c \notin W
  <2>1. c \in ToSet(K[q]) /\ c \in Items
    BY <1>0, KidsOf
  <2>2. c # i
    BY <1>0, <2>1 DEF Alone
  <2>3. ASSUME c \in I PROVE FALSE
    <3>1. ParentOf(K, c) \in I \cup {i}
      BY <1>0, <2>3, ParentBelow, NodesAre
    <3>2. ParentOf(K, c) = q
      BY <1>0, <2>1, ParentIs
    <3> QED
      BY <1>3, <3>1, <3>2
  <2> QED
    BY <2>1, <2>2, <2>3
<1>4. T \subseteq B \ W
  <2> DEFINE U == B \ W
  <2>1. U \in SUBSET Items
    BY <1>1
  <2>2. n \notin W
    OBVIOUS
  <2> HIDE DEF W
  <2>3. ToSet(J[n]) \subseteq U
    BY <1>1, <1>3, <2>2 DEF Covers
  <2>4. \A q \in U : ToSet(J[q]) \subseteq U
    BY <1>1, <1>3, NodesAre DEF Covers
  <2>5. Covers(J, n, U)
    BY <2>3, <2>4 DEF Covers
  <2> HIDE DEF U
  <2>6. T \subseteq U
    BY <1>0, <2>1, <2>5, BelowIs
  <2> QED
    BY <2>6 DEF U
<1>5. B \subseteq T \cup W
  <2> DEFINE U == T \cup W
  <2>1. \A q \in T : ToSet(K[q]) \subseteq U
    BY <1>1, <1>2, NodesAre DEF Covers
  <2>2. \A q \in W : ToSet(K[q]) \subseteq U
    BY <1>1 DEF Covers
  <2>3. ToSet(K[n]) \subseteq U
    BY <1>1, <1>2, NodesAre DEF Covers
  <2>4. U \in SUBSET Items
    BY <1>1
  <2> HIDE DEF T, W
  <2>5. Covers(K, n, U)
    BY <2>1, <2>2, <2>3 DEF Covers
  <2> HIDE DEF U
  <2>6. B \subseteq U
    BY <1>0, <2>4, <2>5, BelowIs
  <2> QED
    BY <2>6 DEF U
<1> HIDE DEF T, B, I
<1>6. \A o : o \in T <=> o \in B /\ o # i /\ o \notin I
  BY <1>4, <1>5
<1> QED
  BY <1>6 DEF T, B, I

\* The rows in front of the one that goes, and those of other nodes, stay.
LEMMA RowStays ==
  ASSUME NEW m \in Nat, NEW K, Tree(K, m), NEW p \in Nodes, NEW row \in Nat, row < Len(K[p]),
         NEW q \in Nodes, NEW y \in ToSet(K[q]), y # K[p][row + 1],
         q = p => RowOf(K, y) < row
  PROVE  ParentOf(Without(K, p, row), y) = q /\ RowOf(Without(K, p, row), y) = RowOf(K, y)
<1> DEFINE J == Without(K, p, row)
           x == K[p][row + 1]
<1> SUFFICES ParentOf(J, y) = q /\ RowOf(J, y) = RowOf(K, y)
  OBVIOUS
<1>0. /\ K \in Shape /\ Alone(K) /\ \A r \in Nodes : IsInjective(K[r])
      /\ K[p] \in Seq(Items) /\ Len(K[p]) \in Nat /\ K[q] \in Seq(Items) /\ y \in Items
  BY KidsOf DEF Tree
<1>1. Shed(K, J, p, x) /\ x \in ToSet(K[p]) /\ x \in Items
  BY <1>0, WithoutIs
<1>2. Tree(J, m)
  BY <1>1, ShedTree
<1>3. /\ J \in Shape /\ ToSet(J[p]) = ToSet(K[p]) \ {x} /\ IsInjective(J[p]) /\ Alone(J)
      /\ \A r \in Nodes : r # p => J[r] = K[r]
  BY <1>1, <1>2 DEF Shed, Tree
<1>4. J[p] = RemoveRow(K[p], row)
  BY <1>0 DEF Without, Shape
<1> HIDE DEF J
<1>5. y \in ToSet(J[q])
  BY <1>3
<1>6. /\ ParentOf(J, y) = q /\ RowOf(J, y) \in Nat /\ RowOf(J, y) < Len(J[q])
      /\ J[q][RowOf(J, y) + 1] = y
  BY <1>0, <1>3, <1>5, ParentIs
<1>7. /\ ParentOf(K, y) = q /\ RowOf(K, y) \in Nat /\ RowOf(K, y) < Len(K[q])
      /\ K[q][RowOf(K, y) + 1] = y
  BY <1>0, ParentIs
<1>8. CASE q # p
  BY <1>3, <1>6, <1>7, <1>8 DEF RowOf
<1>9. CASE q = p
  <2> DEFINE r == RowOf(K, y)
             s == RowOf(J, y)
  <2>1. J[p] = RemoveAt(K[p], row + 1) /\ row + 1 \in 1..Len(K[p])
    BY <1>0, <1>4 DEF RemoveRow
  <2>2. /\ Len(J[p]) = Len(K[p]) - 1
        /\ \A k \in 1..(Len(K[p]) - 1) :
             J[p][k] = IF k < row + 1 THEN K[p][k] ELSE K[p][k + 1]
    <3>1. /\ Len(RemoveAt(K[p], row + 1)) = Len(K[p]) - 1
          /\ \A k \in 1..(Len(K[p]) - 1) :
               RemoveAt(K[p], row + 1)[k] = IF k < row + 1 THEN K[p][k] ELSE K[p][k + 1]
      BY <1>0, <2>1, Removed
    <3> QED
      BY <2>1, <3>1
  <2>3. r \in Nat /\ r < row /\ s \in Nat /\ s < Len(J[p]) /\ J[p][s + 1] = y /\ K[p][r + 1] = y
    BY <1>6, <1>7, <1>9
  <2> HIDE DEF r, s
  <2>4. /\ r + 1 \in 1..(Len(K[p]) - 1) /\ r + 1 < row + 1 /\ s + 1 \in 1..Len(J[p])
        /\ r + 1 \in 1..Len(J[p])
    BY <1>0, <2>2, <2>3
  <2>5. J[p][r + 1] = y
    BY <2>2, <2>3, <2>4
  <2>6. J[p] \in Seq(Items)
    BY <1>3, KidsOf
  <2>7. r + 1 = s + 1
    BY <1>3, <2>3, <2>4, <2>5, <2>6 DEF IsInjective
  <2>8. r = s
    BY <2>3, <2>7
  <2> QED
    BY <1>6, <1>9, <2>8 DEF r, s
<1> QED
  BY <1>8, <1>9

-----------------------------------------------------------------------------
(* A row moves                                                              *)

Out(K, i) ==
  [q \in DOMAIN K |->
     IF Contains(K[q], i) THEN RemoveRow(K[q], RowIn(K[q], i)) ELSE K[q]]

\* In J item i is a child of node d, and of no other.
Moved(K, J, i, d) ==
  /\ J \in Shape
  /\ \A q \in Nodes : /\ ToSet(J[q]) = IF q = d THEN ToSet(K[q]) \cup {i} ELSE ToSet(K[q]) \ {i}
                      /\ IsInjective(J[q])

LEMMA OutIs ==
  ASSUME NEW K \in Shape, NEW i \in Items, \A q \in Nodes : IsInjective(K[q])
  PROVE  /\ Out(K, i) \in Shape
         /\ \A q \in Nodes : ToSet(Out(K, i)[q]) = ToSet(K[q]) \ {i} /\ IsInjective(Out(K, i)[q])
<1>1. DOMAIN K = Nodes
  BY DEF Shape
<1>2. ASSUME NEW q \in Nodes
      PROVE  /\ Out(K, i)[q] \in Seq(Items) /\ ToSet(Out(K, i)[q]) = ToSet(K[q]) \ {i}
             /\ IsInjective(Out(K, i)[q])
  <2>1. K[q] \in Seq(Items) /\ (Contains(K[q], i) <=> i \in ToSet(K[q]))
    BY KidsOf
  <2>2. CASE Contains(K[q], i)
    <3>1. /\ RowIn(K[q], i) \in Nat /\ RowIn(K[q], i) < Len(K[q])
          /\ K[q][RowIn(K[q], i) + 1] = i
      BY <2>1, <2>2, RowInIs
    <3>2. Out(K, i)[q] = RemoveRow(K[q], RowIn(K[q], i))
      BY <1>1, <2>2 DEF Out
    <3> QED
      BY <2>1, <3>1, <3>2, RemoveRowSet
  <2>3. CASE ~Contains(K[q], i)
    <3>1. Out(K, i)[q] = K[q]
      BY <1>1, <2>3 DEF Out
    <3> QED
      BY <2>1, <2>3, <3>1
  <2> QED
    BY <2>2, <2>3
<1>3. Out(K, i) = [q \in Nodes |-> Out(K, i)[q]]
  BY <1>1 DEF Out
<1> QED
  BY <1>2, <1>3 DEF Shape

LEMMA ReparentIs ==
  ASSUME NEW K \in Shape, NEW i \in Items, NEW d \in Nodes, NEW row \in Nat,
         \A q \in Nodes : IsInjective(K[q])
  PROVE  Moved(K, Reparent(K, i, d, row), i, d)
<1> DEFINE O == Out(K, i)
           J == With(O, d, row, i)
<1>1. Reparent(K, i, d, row) = J
  BY DEF Reparent, Out, With
<1>2. /\ O \in Shape
      /\ \A q \in Nodes : ToSet(O[q]) = ToSet(K[q]) \ {i} /\ IsInjective(O[q])
  BY OutIs
<1> HIDE DEF O
<1>3. Gained(O, J, d, i)
  BY <1>2, WithIs
<1>4. IsInjective(J[d])
  BY <1>2, WithIs
<1> HIDE DEF J
<1>5. \A q \in Nodes : /\ ToSet(J[q]) = IF q = d THEN ToSet(K[q]) \cup {i} ELSE ToSet(K[q]) \ {i}
                       /\ IsInjective(J[q])
  <2> TAKE q \in Nodes
  <2>1. CASE q = d
    BY <1>2, <1>3, <1>4, <2>1 DEF Gained
  <2>2. CASE q # d
    BY <1>2, <1>3, <2>2 DEF Gained
  <2> QED
    BY <2>1, <2>2
<1> QED
  BY <1>1, <1>3, <1>5 DEF Moved, Gained

LEMMA MovedTree ==
  ASSUME NEW m \in Nat, NEW K, Tree(K, m), NEW i \in Items, i <= m, NEW d \in Nodes, d <= m,
         d # i, d \notin Below(K, i),
         NEW J, Moved(K, J, i, d)
  PROVE  Tree(J, m)
<1>0. /\ K \in Shape /\ Alone(K) /\ Acyclic(K)
      /\ \A q \in Nodes : IsInjective(K[q]) /\ ToSet(K[q]) \subseteq 1..m
      /\ \A q \in Nodes : q > m => K[q] = << >>
  BY DEF Tree
<1>1. /\ J \in Shape
      /\ \A q \in Nodes : /\ ToSet(J[q]) = IF q = d THEN ToSet(K[q]) \cup {i} ELSE ToSet(K[q]) \ {i}
                          /\ IsInjective(J[q])
  BY DEF Moved
<1>2. i \in 1..m
  BY DEF Items
<1>3. \A q \in Nodes : ToSet(J[q]) \subseteq 1..m
  BY <1>0, <1>1, <1>2
<1>4. \A q \in Nodes : q > m => J[q] = << >>
  <2> SUFFICES ASSUME NEW q \in Nodes, q > m PROVE J[q] = << >>
    OBVIOUS
  <2>1. q # d
    BY NodesAre
  <2>2. ToSet(J[q]) = {} /\ J[q] \in Seq(Items)
    BY <1>0, <1>1, <2>1, EmptyHasNone, KidsOf
  <2>3. Len(J[q]) = 0
    <3>1. \A k \in 1..Len(J[q]) : J[q][k] \in {}
      BY <2>2, SetOf
    <3> QED
      BY <2>2, <3>1
  <2> QED
    BY <2>2, <2>3
<1>5. Alone(J)
  <2>1. ASSUME NEW a \in Nodes, NEW b \in Nodes, NEW x \in Items, x \in ToSet(J[a]), x \in ToSet(J[b])
        PROVE  a = b
    <3>1. CASE x = i
      BY <1>1, <2>1, <3>1
    <3>2. CASE x # i
      <4>1. x \in ToSet(K[a]) /\ x \in ToSet(K[b])
        BY <1>1, <2>1, <3>2
      <4> QED
        BY <1>0, <4>1 DEF Alone
    <3> QED
      BY <3>1, <3>2
  <2> QED
    BY <2>1 DEF Alone
<1>6. Acyclic(J)
  <2> DEFINE U == {i} \cup Below(K, i)
  <2>1. U \in SUBSET Items /\ (\A x \in U : ToSet(K[x]) \subseteq U) /\ d \notin U /\ i \in U
    BY <1>0, BelowIs, NodesAre DEF Covers
  <2> HIDE DEF U
  <2>2. ASSUME NEW S \in SUBSET Items, S # {}
        PROVE  \E x \in S : ToSet(J[x]) \cap S = {}
    <3>1. CASE S \cap U # {}
      <4>1. S \cap U \in SUBSET Items
        OBVIOUS
      <4>2. PICK x \in S \cap U : ToSet(K[x]) \cap (S \cap U) = {}
        BY <1>0, <3>1, <4>1 DEF Acyclic
      <4>3. x \in Nodes /\ x # d
        BY <2>1, NodesAre
      <4>4. ToSet(J[x]) \subseteq ToSet(K[x])
        BY <1>1, <4>3
      <4>5. ToSet(K[x]) \subseteq U
        BY <2>1
      <4> QED
        BY <4>2, <4>4, <4>5
    <3>2. CASE S \cap U = {}
      <4>1. PICK x \in S : ToSet(K[x]) \cap S = {}
        BY <1>0, <2>2 DEF Acyclic
      <4>2. ToSet(J[x]) \subseteq ToSet(K[x]) \cup {i}
        BY <1>1, NodesAre
      <4>3. i \notin S
        BY <2>1, <3>2
      <4> QED
        BY <4>1, <4>2, <4>3
    <3> QED
      BY <3>1, <3>2
  <2> QED
    BY <2>2 DEF Acyclic
<1> QED
  BY <1>0, <1>1, <1>3, <1>4, <1>5, <1>6 DEF Tree

\* Moving within the tree leaves its items the same, and another item that does
\* not have d below it does not get it.
LEMMA MovedInTree ==
  ASSUME NEW K \in Shape, NEW i \in Below(K, Root), NEW d \in Below(K, Root) \cup {Root},
         d # i, d \notin Below(K, i),
         NEW J, Moved(K, J, i, d)
  PROVE  /\ Below(J, Root) = Below(K, Root)
         /\ \A o \in Items : d # o /\ d \notin Below(K, o) => d \notin Below(J, o)
<1> DEFINE T == Below(K, Root)
           R == Below(J, Root)
           W == {i} \cup Below(K, i)
<1>0. /\ i \in Items /\ d \in Nodes /\ J \in Shape
      /\ \A q \in Nodes : ToSet(J[q]) = IF q = d THEN ToSet(K[q]) \cup {i} ELSE ToSet(K[q]) \ {i}
  BY BelowIs, NodesAre DEF Moved
<1>1. /\ T \in SUBSET Items /\ Covers(K, Root, T)
      /\ R \in SUBSET Items /\ Covers(J, Root, R)
      /\ W \in SUBSET Items /\ Covers(K, i, Below(K, i))
  BY <1>0, BelowIs, NodesAre
<1>2. Covers(J, Root, T)
  <2>1. \A q \in Nodes : ToSet(J[q]) \subseteq ToSet(K[q]) \cup {i}
    BY <1>0
  <2> QED
    BY <1>1, <2>1, NodesAre DEF Covers
<1>3. R \subseteq T
  BY <1>0, <1>1, <1>2, BelowIs, NodesAre
<1>4. \A q \in Nodes : ToSet(K[q]) \subseteq ToSet(J[q]) \cup {i}
  BY <1>0
<1>5. Covers(K, Root, R \cup W)
  <2>1. \A q \in R : ToSet(K[q]) \subseteq R \cup W
    BY <1>1, <1>4, NodesAre DEF Covers
  <2>2. \A q \in W : ToSet(K[q]) \subseteq R \cup W
    BY <1>1 DEF Covers
  <2>3. ToSet(K[Root]) \subseteq R \cup W
    BY <1>1, <1>4, NodesAre DEF Covers
  <2> HIDE DEF R, W
  <2> QED
    BY <2>1, <2>2, <2>3 DEF Covers
<1>6. T \subseteq R \cup W
  <2> DEFINE U == R \cup W
  <2>1. U \in SUBSET Items /\ Covers(K, Root, U)
    BY <1>1, <1>5
  <2> HIDE DEF U
  <2>2. T \subseteq U
    BY <2>1, BelowIs, NodesAre
  <2> QED
    BY <2>2 DEF U
<1>7. d \in R \cup {Root}
  <2>1. d \notin W
    OBVIOUS
  <2> HIDE DEF R, W
  <2> QED
    BY <1>6, <2>1
<1>8. i \in R
  <2>1. i \in ToSet(J[d])
    BY <1>0
  <2> QED
    BY <1>1, <1>7, <2>1 DEF Covers
<1>9. Covers(K, Root, R)
  BY <1>1, <1>4, <1>8, NodesAre DEF Covers
<1>10. T \subseteq R
  BY <1>1, <1>9, BelowIs, NodesAre
<1>11. ASSUME NEW o \in Items, d # o, d \notin Below(K, o)
       PROVE  d \notin Below(J, o)
  <2> DEFINE U == Below(K, o)
  <2>1. U \in SUBSET Items /\ Covers(K, o, U)
    BY BelowIs, NodesAre
  <2>2. o \in Nodes
    BY NodesAre
  <2>3. Covers(J, o, U)
    <3>1. \A q \in Nodes : q # d => ToSet(J[q]) \subseteq ToSet(K[q])
      BY <1>0
    <3>2. \A q \in U : q \in Nodes /\ q # d
      BY <1>11, <2>1, NodesAre
    <3> HIDE DEF U
    <3> QED
      BY <1>11, <2>1, <2>2, <3>1, <3>2 DEF Covers
  <2>4. Below(J, o) \subseteq U
    <3> HIDE DEF U
    <3> QED
      BY <1>0, <2>1, <2>2, <2>3, BelowIs
  <2> QED
    BY <1>11, <2>4
<1> QED
  BY <1>3, <1>10, <1>11

-----------------------------------------------------------------------------
(* The tree, its items and the views, whatever loop runs                    *)

\* Only categories have children.
Bare(K, kd) == kd[Root] = "category" /\ \A p \in Nodes : K[p] # << >> => kd[p] = "category"

Core ==
  /\ kind \in [Nodes -> Kinds] /\ text \in [Items -> Texts] /\ shown \in Texts
  /\ made \in 0..MaxItems
  /\ Tree(kids, made) /\ Bare(kids, kind)
  /\ cur \in [Views -> InTree \cup {Root}]

LEMMA CoreIs ==
  ASSUME Core
  PROVE  /\ made \in Nat /\ made <= MaxItems /\ kids \in Shape /\ Alone(kids) /\ Acyclic(kids)
         /\ \A p \in Nodes : IsInjective(kids[p])
         /\ InTree \in SUBSET Items /\ InTree \subseteq 1..made /\ InTree \subseteq Nodes
         /\ Covers(kids, Root, InTree)
         /\ \A v \in Views : cur[v] \in InTree \cup {Root}
         /\ \A p \in InTree \cup {Root} : p \in Nodes /\ p <= made
<1>1. made \in Nat /\ made <= MaxItems /\ Tree(kids, made)
  BY NodesAre DEF Core
<1>2. kids \in Shape /\ Alone(kids) /\ Acyclic(kids) /\ \A p \in Nodes : IsInjective(kids[p])
  BY <1>1 DEF Tree
<1>3. InTree \in SUBSET Items /\ Covers(kids, Root, InTree)
  BY <1>2, BelowIs, NodesAre DEF InTree
<1>4. InTree \subseteq 1..made
  BY <1>1, InTreeMade DEF InTree
<1>5. \A v \in Views : cur[v] \in InTree \cup {Root}
  BY DEF Core
<1>6. \A p \in InTree \cup {Root} : p \in Nodes /\ p <= made
  BY <1>1, <1>3, <1>4, NodesAre DEF Root
<1> QED
  BY <1>1, <1>2, <1>3, <1>4, <1>5, <1>6, NodesAre

LEMMA ParentInTree ==
  ASSUME Core, NEW c \in InTree
  PROVE  /\ ParentOf(kids, c) \in InTree \cup {Root} /\ kind[ParentOf(kids, c)] = "category"
         /\ RowOf(kids, c) \in Nat /\ RowOf(kids, c) < Len(kids[ParentOf(kids, c)])
         /\ Attached(kids, c)
<1> DEFINE p == ParentOf(kids, c)
<1>1. /\ c \in Items /\ Attached(kids, c) /\ p \in InTree \cup {Root} /\ c \in ToSet(kids[p])
  BY CoreIs, InTreeIs DEF InTree
<1> HIDE DEF p
<1>2. p \in Nodes /\ kids \in Shape /\ Alone(kids)
  BY <1>1, CoreIs
<1>3. RowOf(kids, c) \in Nat /\ RowOf(kids, c) < Len(kids[p])
  BY <1>1, <1>2, ParentIs
<1>4. kids[p] # << >>
  BY <1>1, EmptyHasNone
<1>5. kind[p] = "category"
  BY <1>2, <1>4 DEF Core, Bare
<1> QED
  BY <1>1, <1>3, <1>5 DEF p

LEMMA StoredIs ==
  ASSUME shown \in Texts, NEW t \in [Items -> Texts]
  PROVE  /\ Stored(t) \in [Items -> Texts]
         /\ \A i \in Items : Stored(t)[i] # t[i] => i = cur["editor"] /\ Stored(t)[i] = shown
BY DEF Stored

LEMMA EditorToIs ==
  ASSUME shown \in Texts, NEW t \in [Items -> Texts], NEW i, kind'[i] = "xml" => i \in Items,
         EditorTo(i, t)
  PROVE  /\ text' \in [Items -> Texts] /\ shown' \in Texts
         /\ \A j \in Items : text'[j] # t[j] => j = cur["editor"] /\ text'[j] = shown
<1>1. CASE i = cur["editor"]
  BY <1>1 DEF EditorTo
<1>2. CASE i # cur["editor"]
  <2>1. text' = Stored(t) /\ shown' = IF kind'[i] = "xml" THEN Stored(t)[i] ELSE shown
    BY <1>2 DEF EditorTo
  <2> QED
    BY <2>1, StoredIs
<1> QED
  BY <1>1, <1>2

LEMMA SettledIs ==
  ASSUME NEW S, Root \in S, NEW c \in [Views -> S]
  PROVE  Settled(c) \in [Views -> S]
BY DEF Settled, Views

\* Only the item that the window displays changes its text.
OthersKeep == \A j \in InTree : text'[j] # text[j] => j = cur["editor"] /\ text'[j] = shown

\* The tree gets one item, and no other item is of another kind.
Added ==
  /\ \A o \in InTree' : o \in InTree \/ o = made + 1
  /\ \A q \in Nodes : q <= made => kind'[q] = kind[q]

LEMMA InsertStep ==
  ASSUME Core, made < MaxItems, NEW v, NEW p \in InTree \cup {Root}, kind[p] = "category",
         NEW row \in Nat, NEW k \in Kinds, NEW t \in Texts, Insert(v, p, row, k, t)
  PROVE  /\ Core' /\ made' = made + 1 /\ OthersKeep
         /\ InTree \subseteq InTree' /\ made + 1 \in InTree' /\ Added
<1> DEFINE i == made + 1
           with == [text EXCEPT ![i] = t]
<1>0. /\ made \in Nat /\ kids \in Shape /\ p \in Nodes /\ p <= made /\ Tree(kids, made)
      /\ InTree \in SUBSET (1..made) /\ InTree \in SUBSET Items
      /\ kind \in [Nodes -> Kinds] /\ text \in [Items -> Texts] /\ shown \in Texts
  BY CoreIs DEF Core
<1>1. /\ i \in Items /\ i \in Nodes /\ i \in 0..MaxItems /\ p # i /\ i > made /\ i \notin InTree
      /\ made \in Nat
  BY <1>0, NodesAre DEF Items
<1>2. /\ made' = i /\ kind' = [kind EXCEPT ![i] = k]
      /\ kids' = With(kids, p, row, i)
      /\ cur' = Settled([w \in Views |-> IF w = v THEN i ELSE cur[w]])
      /\ IF v = "editor" THEN EditorTo(i, with) ELSE text' = with /\ UNCHANGED shown
  BY DEF Insert, With
<1>3. Tree(kids', made')
  BY <1>0, <1>1, <1>2, InsertTree
<1>4. InTree \subseteq InTree' /\ i \in InTree'
  <2>1. p \in Below(kids, Root) \cup {Root}
    BY DEF InTree
  <2>2. /\ Below(kids, Root) \subseteq Below(With(kids, p, row, i), Root)
        /\ i \in Below(With(kids, p, row, i), Root)
    BY <1>0, <1>1, <2>1, InsertedInTree
  <2> QED
    BY <1>2, <2>2 DEF InTree
<1> HIDE DEF i
<1>5. kind' \in [Nodes -> Kinds] /\ kind'[p] = kind[p] /\ kind'[Root] = kind[Root]
      /\ \A q \in Nodes : q # i => kind'[q] = kind[q]
  BY <1>0, <1>1, <1>2, NodesAre
<1>6. /\ text' \in [Items -> Texts] /\ shown' \in Texts
      /\ \A j \in Items : text'[j] # with[j] => j = cur["editor"] /\ text'[j] = shown
  <2>1. with \in [Items -> Texts]
    BY <1>0
  <2> HIDE DEF with
  <2>2. CASE v = "editor"
    BY <1>0, <1>1, <1>2, <2>1, <2>2, EditorToIs
  <2>3. CASE v # "editor"
    BY <1>0, <1>2, <2>1, <2>3
  <2> QED
    BY <2>2, <2>3
<1>7. OthersKeep
  <2>1. \A j \in InTree : with[j] = text[j] /\ j \in Items
    BY <1>0, <1>1
  <2> HIDE DEF with
  <2> QED
    BY <1>6, <2>1 DEF OthersKeep
<1>8. Bare(kids', kind')
  <2>1. /\ kids'[i] = << >>
        /\ \A q \in Nodes : q # p => kids'[q] = kids[q]
    <3>1. Gained(kids, kids', p, i)
      BY <1>0, <1>1, <1>2, WithIs
    <3>2. \A q \in Nodes : q # p => kids'[q] = kids[q]
      BY <3>1 DEF Gained
    <3>3. kids[i] = << >>
      BY <1>0, <1>1 DEF Tree
    <3> QED
      BY <1>1, <3>2, <3>3
  <2>2. \A q \in Nodes : kids'[q] # << >> => kind'[q] = "category"
    BY <1>5, <2>1 DEF Core, Bare
  <2>3. kind'[Root] = "category"
    BY <1>5 DEF Core, Bare
  <2> QED
    BY <2>2, <2>3 DEF Bare
<1>9. cur' \in [Views -> InTree' \cup {Root}]
  <2> DEFINE S == InTree' \cup {Root}
             c == [w \in Views |-> IF w = v THEN i ELSE cur[w]]
  <2>1. \A w \in Views : cur[w] \in S
    BY <1>4, CoreIs
  <2>2. i \in S /\ Root \in S
    BY <1>4
  <2> HIDE DEF S
  <2>3. c \in [Views -> S]
    BY <2>1, <2>2
  <2>4. Settled(c) \in [Views -> S]
    <3> HIDE DEF c
    <3> QED
      BY <2>2, <2>3, SettledIs
  <2> QED
    BY <1>2, <2>4 DEF S
<1>10. Core'
  <2>1. made' \in 0..MaxItems
    BY <1>1, <1>2
  <2> QED
    BY <1>3, <1>5, <1>6, <1>8, <1>9, <2>1 DEF Core
<1>11. Added
  <2>1. kids[i] = << >>
    BY <1>0, <1>1 DEF Tree
  <2>2. \A o \in Below(With(kids, p, row, i), Root) : o \in Below(kids, Root) \/ o = i
    BY <1>0, <1>1, <2>1, InsertAddsOne
  <2>3. \A o \in InTree' : o \in InTree \/ o = made + 1
    BY <1>2, <2>2 DEF InTree, i
  <2>4. \A q \in Nodes : q <= made => kind'[q] = kind[q]
    <3>1. \A q \in Nodes : q <= made => q # i
      BY <1>1
    <3> QED
      BY <1>5, <3>1
  <2> QED
    BY <2>3, <2>4 DEF Added
<1> QED
  BY <1>2, <1>4, <1>7, <1>10, <1>11 DEF i

LEMMA LeafStep ==
  ASSUME Core, made < MaxItems, NEW v, NEW c \in InTree \cup {Root}, NEW t \in Texts,
         InsertLeaf(v, c, t)
  PROVE  /\ Core' /\ made' = made + 1 /\ OthersKeep
         /\ InTree \subseteq InTree' /\ made + 1 \in InTree' /\ Added
<1>0. "xml" \in Kinds
  BY DEF Kinds
<1>1. CASE kind[c] = "category"
  <2>1. Insert(v, c, Len(kids[c]), "xml", t)
    BY <1>1 DEF InsertLeaf
  <2>2. Len(kids[c]) \in Nat
    <3>1. kids[c] \in Seq(Items)
      BY CoreIs, KidsOf
    <3> QED
      BY <3>1
  <2> QED
    BY <1>0, <1>1, <2>1, <2>2, InsertStep
<1>2. CASE kind[c] # "category"
  <2> DEFINE p == ParentOf(kids, c)
             row == RowOf(kids, c) + 1
  <2>1. Insert(v, p, row, "xml", t)
    BY <1>2 DEF InsertLeaf
  <2>2. c \in InTree
    BY <1>2 DEF Core, Bare
  <2>3. p \in InTree \cup {Root} /\ kind[p] = "category" /\ row \in Nat
    BY <2>2, ParentInTree
  <2> HIDE DEF p, row
  <2> QED
    BY <1>0, <2>1, <2>3, InsertStep
<1> QED
  BY <1>1, <1>2

LEMMA CategoryStep ==
  ASSUME Core, made < MaxItems, Blank \in Texts, NEW v, NEW c \in InTree \cup {Root}, NEW toSub,
         InsertCategory(v, c, toSub)
  PROVE  /\ Core' /\ made' = made + 1 /\ OthersKeep
         /\ InTree \subseteq InTree' /\ made + 1 \in InTree' /\ Added
<1>0. "category" \in Kinds
  BY DEF Kinds
<1>1. CASE toSub /\ kind[c] = "category"
  <2>1. Insert(v, c, Len(kids[c]), "category", Blank)
    BY <1>1 DEF InsertCategory
  <2>2. Len(kids[c]) \in Nat
    <3>1. kids[c] \in Seq(Items)
      BY CoreIs, KidsOf
    <3> QED
      BY <3>1
  <2> QED
    BY <1>0, <1>1, <2>1, <2>2, InsertStep
<1>2. CASE ~(toSub /\ kind[c] = "category") /\ c = Root
  <2>1. Insert(v, Root, 0, "category", Blank)
    BY <1>2 DEF InsertCategory
  <2>2. kind[Root] = "category" /\ 0 \in Nat
    BY DEF Core, Bare
  <2> QED
    BY <1>0, <2>1, <2>2, InsertStep
<1>3. CASE ~(toSub /\ kind[c] = "category") /\ c # Root
  <2> DEFINE p == ParentOf(kids, c)
             row == RowOf(kids, c) + 1
  <2>1. Insert(v, p, row, "category", Blank)
    BY <1>3 DEF InsertCategory
  <2>2. p \in InTree \cup {Root} /\ kind[p] = "category" /\ row \in Nat
    BY <1>3, ParentInTree
  <2> HIDE DEF p, row
  <2> QED
    BY <1>0, <2>1, <2>2, InsertStep
<1> QED
  BY <1>1, <1>2, <1>3

LEMMA CoreSame ==
  ASSUME Core, kids' = kids, kind' = kind, made' = made,
         text' \in [Items -> Texts], shown' \in Texts,
         cur' \in [Views -> InTree \cup {Root}]
  PROVE  Core' /\ InTree' = InTree
BY DEF Core, InTree

\* A row of a node: its item, or Root when there is no such row.
LEMMA ChildAtIs ==
  ASSUME NEW K \in Shape, NEW p \in Nodes, NEW row \in Nat
  PROVE  ChildAt(K, p, row, Root) = Root \/ ChildAt(K, p, row, Root) \in ToSet(K[p])
<1>1. K[p] \in Seq(Items) /\ Len(K[p]) \in Nat
  BY KidsOf
<1>2. CASE row \in 0..Len(K[p]) - 1
  <2>1. row + 1 \in 1..Len(K[p])
    BY <1>1, <1>2
  <2> QED
    BY <1>1, <1>2, <2>1, SetOf DEF ChildAt
<1>3. CASE row \notin 0..Len(K[p]) - 1
  BY <1>3 DEF ChildAt
<1> QED
  BY <1>2, <1>3

LEMMA SuccessorIs ==
  ASSUME kids \in Shape, NEW p \in Nodes, NEW row \in Nat, row < Len(kids[p]),
         IsInjective(kids[p])
  PROVE  \/ Successor(p, row) = Root
         \/ Successor(p, row) \in ToSet(kids[p]) \ {kids[p][row + 1]}
<1>1. kids[p] \in Seq(Items) /\ Len(kids[p]) \in Nat
  BY KidsOf
<1>2. \A a, b \in 1..Len(kids[p]) : kids[p][a] = kids[p][b] => a = b
  BY <1>1 DEF IsInjective
<1>3. row + 1 \in 1..Len(kids[p])
  BY <1>1
<1>4. CASE row > 0
  <2>1. row \in 1..Len(kids[p]) /\ row # row + 1
    BY <1>1, <1>4
  <2>2. Successor(p, row) = kids[p][row]
    BY <1>4 DEF Successor
  <2>3. kids[p][row] \in ToSet(kids[p]) /\ kids[p][row] # kids[p][row + 1]
    BY <1>1, <1>2, <1>3, <2>1, SetOf
  <2> QED
    BY <2>2, <2>3
<1>5. CASE ~(row > 0)
  <2>1. Successor(p, row) = ChildAt(kids, p, row + 1, Root)
    BY <1>5 DEF Successor
  <2>2. CASE row + 1 \in 0..Len(kids[p]) - 1
    <3>1. row + 1 + 1 \in 1..Len(kids[p]) /\ row + 1 # row + 1 + 1
      BY <1>1, <2>2
    <3>2. Successor(p, row) = kids[p][row + 1 + 1]
      BY <2>1, <2>2 DEF ChildAt
    <3>3. kids[p][row + 1 + 1] \in ToSet(kids[p]) /\ kids[p][row + 1 + 1] # kids[p][row + 1]
      BY <1>1, <1>2, <1>3, <3>1, SetOf
    <3> QED
      BY <3>2, <3>3
  <2>3. CASE row + 1 \notin 0..Len(kids[p]) - 1
    BY <2>1, <2>3 DEF ChildAt
  <2> QED
    BY <2>2, <2>3
<1> QED
  BY <1>4, <1>5

LEMMA KeptStep ==
  ASSUME Core, kind' = kind, made' = made, Kept
  PROVE  Core' /\ OthersKeep /\ InTree' = InTree
<1>1. kids' = kids /\ text' = text /\ shown' = shown /\ cur' = Settled(cur)
  BY DEF Kept
<1>2. text' \in [Items -> Texts] /\ shown' \in Texts
  BY <1>1 DEF Core
<1>3. cur' \in [Views -> InTree \cup {Root}]
  <2> DEFINE S == InTree \cup {Root}
  <2>1. cur \in [Views -> S] /\ Root \in S
    BY DEF Core
  <2> HIDE DEF S
  <2>2. Settled(cur) \in [Views -> S]
    BY <2>1, SettledIs
  <2> QED
    BY <1>1, <2>2 DEF S
<1>4. OthersKeep
  BY <1>1 DEF OthersKeep
<1> QED
  BY <1>1, <1>2, <1>3, <1>4, CoreSame

LEMMA TakeOutStep ==
  ASSUME Core, kind' = kind, made' = made, NEW p \in Nodes, NEW row \in Nat, TakeOut(p, row)
  PROVE  Core' /\ OthersKeep
<1>0. /\ made \in Nat /\ kids \in Shape /\ Alone(kids) /\ Tree(kids, made)
      /\ IsInjective(kids[p]) /\ InTree \in SUBSET Items
      /\ kind \in [Nodes -> Kinds] /\ text \in [Items -> Texts] /\ shown \in Texts
  BY CoreIs DEF Core
<1>1. CASE ~(row < Len(kids[p]))
  <2>1. Kept
    BY <1>1 DEF TakeOut
  <2> QED
    BY <2>1, KeptStep
<1>2. CASE row < Len(kids[p])
  <2> DEFINE gone == kids[p][row + 1]
             next == Successor(p, row)
             c == [v \in Views |-> CASE cur[v] = gone -> next
                                     [] cur[v] \in Below(kids, gone) -> Root
                                     [] OTHER -> cur[v]]
  <2>1. /\ kids' = Without(kids, p, row) /\ cur' = Settled(c)
        /\ IF cur["editor"] = gone THEN EditorTo(next, text) ELSE UNCHANGED <<text, shown>>
    BY <1>2, Zenon DEF TakeOut, Without
  <2>2. Shed(kids, Without(kids, p, row), p, gone)
    BY <1>0, <1>2, WithoutIs
  <2>3. gone \in ToSet(kids[p]) /\ gone \in Items
    BY <1>0, <1>2, WithoutIs
  <2>4. next = Root \/ next \in ToSet(kids[p]) \ {gone}
    BY <1>0, <1>2, SuccessorIs
  <2> HIDE DEF gone, next
  <2>5. Shed(kids, kids', p, gone)
    BY <2>1, <2>2
  <2>6. /\ kids' \in Shape /\ ToSet(kids'[p]) = ToSet(kids[p]) \ {gone}
        /\ \A q \in Nodes : q # p => kids'[q] = kids[q]
    BY <2>5 DEF Shed
  <2>7. Tree(kids', made')
    <3>1. Tree(kids', made)
      BY <1>0, <2>3, <2>5, ShedTree
    <3> QED
      BY <3>1
  <2>8. /\ InTree \subseteq InTree' \cup {gone} \cup Below(kids, gone)
        /\ p \in InTree \cup {Root} => p \in InTree' \cup {Root}
    <3> DEFINE J == kids'
    <3>1. Shed(kids, J, p, gone)
      BY <2>5
    <3> HIDE DEF J
    <3>2. /\ Below(kids, Root) \subseteq Below(J, Root) \cup {gone} \cup Below(kids, gone)
          /\ p \in Below(kids, Root) \cup {Root} => p \in Below(J, Root) \cup {Root}
      BY <1>0, <2>3, <3>1, ShedInTree
    <3> QED
      BY <3>2 DEF InTree, J
  <2>9. Covers(kids', Root, InTree')
    BY <2>6, BelowIs, NodesAre DEF InTree
  <2>10. gone \in InTree => next \in InTree' \cup {Root}
    <3> SUFFICES ASSUME gone \in InTree, next # Root PROVE next \in InTree'
      OBVIOUS
    <3>1. p \in InTree \cup {Root}
      <4>1. ParentOf(kids, gone) \in InTree \cup {Root}
        BY ParentInTree
      <4>2. ParentOf(kids, gone) = p
        BY <1>0, <2>3, ParentIs
      <4> QED
        BY <4>1, <4>2
    <3>2. next \in ToSet(kids'[p])
      BY <2>4, <2>6
    <3> QED
      BY <2>8, <2>9, <3>1, <3>2 DEF Covers
  <2>11. c \in [Views -> InTree' \cup {Root}]
    <3>1. ASSUME NEW v \in Views
          PROVE  (CASE cur[v] = gone -> next
                    [] cur[v] \in Below(kids, gone) -> Root
                    [] OTHER -> cur[v]) \in InTree' \cup {Root}
      <4>0. cur[v] \in InTree \cup {Root}
        BY CoreIs
      <4>1. CASE cur[v] = gone
        <5>1. gone \in InTree
          BY <2>3, <4>0, <4>1, NodesAre
        <5>2. cur[v] \in Below(kids, gone) => cur[v] # gone
          BY <1>0, <2>3, CoreIs, NotBelowItself
        <5> QED
          BY <2>10, <4>1, <5>1, <5>2
      <4>2. CASE cur[v] # gone /\ cur[v] \in Below(kids, gone)
        BY <4>2
      <4>3. CASE cur[v] # gone /\ cur[v] \notin Below(kids, gone)
        BY <2>8, <4>0, <4>3
      <4> QED
        BY <4>1, <4>2, <4>3
    <3> QED
      BY <3>1
  <2>12. cur' \in [Views -> InTree' \cup {Root}]
    <3> DEFINE S == InTree' \cup {Root}
    <3>1. c \in [Views -> S] /\ Root \in S
      BY <2>11
    <3> HIDE DEF S, c
    <3>2. Settled(c) \in [Views -> S]
      BY <3>1, SettledIs
    <3> QED
      BY <2>1, <3>2 DEF S
  <2>13. text' \in [Items -> Texts] /\ shown' \in Texts /\ OthersKeep
    <3>1. CASE cur["editor"] = gone
      <4>1. EditorTo(next, text)
        BY <2>1, <3>1
      <4>2. kind'[next] = "xml" => next \in Items
        <5>1. kind'[Root] = "category" /\ ToSet(kids[p]) \in SUBSET Items
          BY <1>0, KidsOf DEF Core, Bare
        <5> QED
          BY <2>4, <5>1
      <4>3. /\ text' \in [Items -> Texts] /\ shown' \in Texts
            /\ \A j \in Items : text'[j] # text[j] => j = cur["editor"] /\ text'[j] = shown
        BY <1>0, <4>1, <4>2, EditorToIs
      <4> QED
        BY <1>0, <4>3 DEF OthersKeep
    <3>2. CASE cur["editor"] # gone
      BY <1>0, <2>1, <3>2 DEF OthersKeep
    <3> QED
      BY <3>1, <3>2
  <2>14. Bare(kids', kind')
    <3>1. kids[p] # << >>
      BY <2>3, EmptyHasNone
    <3> QED
      BY <2>6, <3>1 DEF Core, Bare
  <2> QED
    BY <1>0, <2>7, <2>12, <2>13, <2>14 DEF Core
<1> QED
  BY <1>1, <1>2

\* dragged to the node d, which is not below it
LEMMA ReparentStep ==
  ASSUME Core, kind' = kind, made' = made, NEW i \in InTree, NEW d \in InTree \cup {Root},
         kind[d] = "category", d # i, d \notin Below(kids, i), NEW row \in Nat,
         kids' = Reparent(kids, i, d, row),
         NEW at, at = ChildAt(kids', ParentOf(kids, i), row, Root),
         cur' = Settled([v \in Views |-> at]),
         EditorTo(at, text)
  PROVE  /\ Core' /\ OthersKeep /\ InTree' = InTree
         /\ \A o \in Items : d # o /\ d \notin Below(kids, o) => d \notin Below(kids', o)
<1>0. /\ made \in Nat /\ kids \in Shape /\ Tree(kids, made)
      /\ \A q \in Nodes : IsInjective(kids[q])
      /\ InTree \in SUBSET Items /\ i \in Items /\ i <= made /\ d \in Nodes /\ d <= made
      /\ kind \in [Nodes -> Kinds] /\ text \in [Items -> Texts] /\ shown \in Texts
  BY CoreIs DEF Core
<1> DEFINE J == kids'
<1>1. Moved(kids, J, i, d)
  <2> HIDE DEF J
  <2>1. Moved(kids, Reparent(kids, i, d, row), i, d)
    BY <1>0, ReparentIs
  <2> QED
    BY <2>1 DEF J
<1>2. Tree(J, made)
  <2> HIDE DEF J
  <2> QED
    BY <1>0, <1>1, MovedTree
<1>3. /\ Below(J, Root) = Below(kids, Root)
      /\ \A o \in Items : d # o /\ d \notin Below(kids, o) => d \notin Below(J, o)
  <2> HIDE DEF J
  <2>1. i \in Below(kids, Root) /\ d \in Below(kids, Root) \cup {Root}
    BY DEF InTree
  <2> QED
    BY <1>0, <1>1, <2>1, MovedInTree
<1>4. InTree' = InTree
  BY <1>3 DEF InTree
<1>5. /\ J \in Shape
      /\ \A q \in Nodes : ToSet(J[q]) = IF q = d THEN ToSet(kids[q]) \cup {i} ELSE ToSet(kids[q]) \ {i}
  BY <1>1 DEF Moved
<1>6. at \in InTree \cup {Root}
  <2>1. ParentOf(kids, i) \in InTree \cup {Root}
    BY ParentInTree
  <2>2. ParentOf(kids, i) \in Nodes
    BY <2>1, CoreIs
  <2>3. at = Root \/ at \in ToSet(J[ParentOf(kids, i)])
    BY <1>5, <2>2, ChildAtIs
  <2>4. Covers(J, Root, InTree)
    BY <1>3, <1>5, BelowIs, NodesAre DEF InTree
  <2> QED
    BY <2>1, <2>3, <2>4 DEF Covers
<1>7. cur' \in [Views -> InTree' \cup {Root}]
  <2> DEFINE S == InTree \cup {Root}
             c == [v \in Views |-> at]
  <2>1. c \in [Views -> S] /\ Root \in S
    BY <1>6
  <2> HIDE DEF S, c
  <2>2. Settled(c) \in [Views -> S]
    BY <2>1, SettledIs
  <2> QED
    BY <1>4, <2>2 DEF S, c
<1>8. text' \in [Items -> Texts] /\ shown' \in Texts /\ OthersKeep
  <2>1. kind'[at] = "xml" => at \in Items
    BY <1>0, <1>6 DEF Core, Bare
  <2>2. /\ text' \in [Items -> Texts] /\ shown' \in Texts
        /\ \A j \in Items : text'[j] # text[j] => j = cur["editor"] /\ text'[j] = shown
    BY <1>0, <2>1, EditorToIs
  <2> QED
    BY <1>0, <2>2 DEF OthersKeep
<1>9. Bare(kids', kind')
  <2>1. ASSUME NEW q \in Nodes, kids'[q] # << >> PROVE kind'[q] = "category"
    <3>1. CASE q = d
      BY <3>1
    <3>2. CASE q # d
      <4>1. J[q] \in Seq(Items) /\ Len(J[q]) \in Nat
        BY <1>5, KidsOf
      <4>2. 1 \in 1..Len(J[q])
        BY <2>1, <4>1
      <4>3. J[q][1] \in ToSet(J[q])
        BY <4>1, <4>2, SetOf
      <4>4. kids[q] # << >>
        BY <1>5, <3>2, <4>3, EmptyHasNone
      <4> QED
        BY <4>4 DEF Core, Bare
    <3> QED
      BY <3>1, <3>2
  <2> QED
    BY <2>1 DEF Core, Bare
<1>10. Core'
  <2>1. Tree(kids', made')
    BY <1>2
  <2> QED
    BY <1>0, <1>7, <1>8, <1>9, <2>1 DEF Core
<1> QED
  BY <1>3, <1>4, <1>8, <1>10

-----------------------------------------------------------------------------
(* What is left of a handler                                                *)

Pasting ==
  \A n \in 1..Len(todo) :
    /\ todo[n].op \in {"remove", "leaf"}
    /\ todo[n].op = "leaf" => made + Len(todo) - n + 1 <= MaxItems
Importing ==
  /\ \A n \in 1..Len(todo) : todo[n].op = "import"
  /\ made + Len(todo) <= MaxItems
  /\ frame \in [1..MaxItems -> InTree \cup {Root}]
Dragging ==
  \E d \in InTree \cup {Root} :
    /\ kind[d] = "category"
    /\ \A n \in 1..Len(todo) :
         /\ todo[n].op = "move" /\ todo[n].dest = d /\ todo[n].item \in InTree
         /\ d # todo[n].item /\ d \notin Below(kids, todo[n].item)
TodoOK == todo \in Seq(Edit) /\ (Pasting \/ Importing \/ Dragging)

Aims == before \subseteq Items /\ doomed \subseteq Items /\ topDown \in BOOLEAN
Clips == copied \in [Views -> Seq(Texts)] /\ cut \in [Views -> Seq(Index)]
Frames == frame \in {<< >>} \cup [1..MaxItems -> Nodes]
Rest ==
  /\ Aims /\ Clips /\ Frames /\ app \in {"running", "dead"} /\ edits \in 0..MaxEdits

LEMMA EditIs ==
  ASSUME NEW e \in Edit
  PROVE  /\ e.op = "remove" => e.row \in Nat /\ e.item \in Items
         /\ e.op = "leaf" => e.view \in Views /\ e.xml \in Texts
         /\ e.op = "move" => e.row \in Nat
         /\ e.op = "import" => e.kind \in Kinds /\ e.depth \in 1..MaxItems
<1>1. CASE e \in [op : {"remove"}, row : Nat, item : Items]
  BY <1>1
<1>2. CASE e \in [op : {"leaf"}, view : Views, xml : Texts]
  BY <1>2
<1>3. CASE e \in [op : {"move"}, item : Items, dest : Nodes, row : Nat]
  BY <1>3
<1>4. CASE e \in [op : {"import"}, kind : Kinds, depth : 1..MaxItems]
  BY <1>4
<1> QED
  BY <1>1, <1>2, <1>3, <1>4 DEF Edit

LEMMA TailIs ==
  ASSUME NEW S, NEW s \in Seq(S), s # << >>
  PROVE  /\ Len(s) \in Nat /\ Len(s) >= 1 /\ 1 \in 1..Len(s) /\ Head(s) = s[1] /\ Head(s) \in S
         /\ Tail(s) \in Seq(S) /\ Len(Tail(s)) = Len(s) - 1
         /\ \A n \in 1..(Len(s) - 1) : Tail(s)[n] = s[n + 1] /\ n + 1 \in 1..Len(s)
OBVIOUS

LEMMA NextAims ==
  ASSUME Aims, Next1
  PROVE  Aims'
BY DEF Aims, Next1, aim

\* The first edit says which handler runs.
LEMMA LoopIs ==
  ASSUME TodoOK, NEW op, Running(op)
  PROVE  /\ todo # << >> /\ Head(todo) \in Edit /\ Head(todo).op = op /\ Len(todo) \in Nat
         /\ Len(todo) >= 1
         /\ op \in {"remove", "leaf"} => Pasting
         /\ op = "import" => Importing
         /\ op = "move" => Dragging
<1>1. /\ todo \in Seq(Edit) /\ todo # << >> /\ Head(todo).op = op
      /\ 1 \in 1..Len(todo) /\ Head(todo) = todo[1] /\ Head(todo) \in Edit
      /\ Len(todo) \in Nat /\ Len(todo) >= 1
  BY TailIs DEF TodoOK, Running
<1>2. Pasting => op \in {"remove", "leaf"}
  BY <1>1 DEF Pasting
<1>3. Importing => op = "import"
  BY <1>1 DEF Importing
<1>4. Dragging => op = "move"
  BY <1>1 DEF Dragging
<1> QED
  BY <1>1, <1>2, <1>3, <1>4 DEF TodoOK

LEMMA PastingNext ==
  ASSUME todo \in Seq(Edit), todo # << >>, Pasting, made \in Nat, todo' = Tail(todo),
         \/ made' = made
         \/ Head(todo).op = "leaf" /\ made' = made + 1
  PROVE  TodoOK'
<1>1. /\ Len(todo) \in Nat /\ Len(todo) >= 1 /\ 1 \in 1..Len(todo) /\ Head(todo) = todo[1]
      /\ Tail(todo) \in Seq(Edit) /\ Len(Tail(todo)) = Len(todo) - 1
      /\ \A n \in 1..(Len(todo) - 1) : Tail(todo)[n] = todo[n + 1] /\ n + 1 \in 1..Len(todo)
  BY TailIs
<1>2. MaxItems \in Nat
  BY NodesAre
<1>3. ASSUME NEW n \in 1..Len(todo')
      PROVE  /\ todo'[n].op \in {"remove", "leaf"}
             /\ todo'[n].op = "leaf" => made' + Len(todo') - n + 1 <= MaxItems
  <2>1. n \in 1..(Len(todo) - 1) /\ todo'[n] = todo[n + 1] /\ n + 1 \in 1..Len(todo)
        /\ Len(todo') = Len(todo) - 1 /\ n \in Nat /\ n >= 1
    BY <1>1
  <2>2. /\ todo[n + 1].op \in {"remove", "leaf"}
        /\ todo[n + 1].op = "leaf" => made + Len(todo) - (n + 1) + 1 <= MaxItems
    BY <2>1 DEF Pasting
  <2>3. CASE made' = made
    BY <1>1, <1>2, <2>1, <2>2, <2>3
  <2>4. CASE Head(todo).op = "leaf" /\ made' = made + 1
    <3>1. made + Len(todo) - 1 + 1 <= MaxItems
      BY <1>1, <2>4 DEF Pasting
    <3> QED
      BY <1>1, <1>2, <2>1, <2>2, <2>4, <3>1
  <2> QED
    BY <2>3, <2>4
<1>4. Pasting'
  BY <1>3 DEF Pasting
<1> QED
  BY <1>1, <1>4 DEF TodoOK

LEMMA RemoveNextStep ==
  ASSUME Core, Rest, TodoOK, RemoveNext
  PROVE  Core' /\ Rest' /\ TodoOK' /\ OthersKeep
<1> DEFINE e == Head(todo)
           p == ParentOf(kids, e.item)
<1>1. /\ Running("remove") /\ Next1 /\ Attached(kids, e.item) /\ kind' = kind
      /\ TakeOut(p, e.row) /\ UNCHANGED <<made, frame, app, edits, clip>>
  BY DEF RemoveNext
<1>2. Pasting /\ todo # << >> /\ e \in Edit /\ e.op = "remove"
  BY <1>1, LoopIs
<1>3. e.row \in Nat /\ e.item \in Items
  BY <1>2, EditIs
<1>4. p \in Nodes
  BY <1>1, <1>3, CoreIs, AttachedIs
<1>5. Core' /\ OthersKeep
  <2> HIDE DEF e, p
  <2> QED
    BY <1>1, <1>3, <1>4, TakeOutStep
<1>6. TodoOK'
  <2>1. todo' = Tail(todo) /\ made' = made /\ made \in Nat /\ todo \in Seq(Edit)
    BY <1>1, CoreIs DEF Next1, TodoOK
  <2> QED
    BY <1>2, <2>1, PastingNext
<1>7. Rest'
  BY <1>1, NextAims DEF Rest, Clips, Frames, clip
<1> QED
  BY <1>5, <1>6, <1>7

LEMMA RemoveDanglingStep ==
  ASSUME Core, Rest, TodoOK, RemoveDangling
  PROVE  Core' /\ Rest' /\ TodoOK' /\ OthersKeep
<1> DEFINE e == Head(todo)
<1>1. /\ Running("remove") /\ Next1 /\ kind' = kind
      /\ \/ Kept /\ app' \in {app, "dead"}
         \/ \E i \in InTree : TakeOut(ParentOf(kids, i), e.row) /\ app' = app
      /\ UNCHANGED <<made, frame, edits, clip>>
  BY DEF RemoveDangling
<1>2. Pasting /\ todo # << >> /\ e \in Edit /\ e.op = "remove"
  BY <1>1, LoopIs
<1>3. e.row \in Nat
  BY <1>2, EditIs
<1>4. Core' /\ OthersKeep
  <2>1. CASE Kept
    BY <1>1, <2>1, KeptStep
  <2>2. ASSUME NEW i \in InTree, TakeOut(ParentOf(kids, i), e.row)
        PROVE  Core' /\ OthersKeep
    <3>1. ParentOf(kids, i) \in Nodes
      BY ParentInTree, CoreIs
    <3> HIDE DEF e
    <3> QED
      BY <1>1, <1>3, <2>2, <3>1, TakeOutStep
  <2> QED
    BY <1>1, <2>1, <2>2
<1>5. TodoOK'
  <2>1. todo' = Tail(todo) /\ made' = made /\ made \in Nat /\ todo \in Seq(Edit)
    BY <1>1, CoreIs DEF Next1, TodoOK
  <2> QED
    BY <1>2, <2>1, PastingNext
<1>6. Rest'
  <2>1. app' \in {"running", "dead"}
    BY <1>1 DEF Rest
  <2> QED
    BY <1>1, <2>1, NextAims DEF Rest, Clips, Frames, clip
<1> QED
  BY <1>4, <1>5, <1>6

LEMMA LeafNextStep ==
  ASSUME Core, Rest, TodoOK, LeafNext
  PROVE  /\ Core' /\ Rest' /\ TodoOK' /\ OthersKeep
         /\ made' = made + 1 /\ InTree \subseteq InTree' /\ Added
<1> DEFINE e == Head(todo)
<1>1. /\ Running("leaf") /\ Next1
      /\ InsertLeaf(e.view, cur[e.view], e.xml)
      /\ UNCHANGED <<frame, app, edits, clip>>
  BY DEF LeafNext
<1>2. /\ Pasting /\ todo # << >> /\ e \in Edit /\ e.op = "leaf"
      /\ Len(todo) \in Nat /\ Len(todo) >= 1
  BY <1>1, LoopIs
<1>3. e.view \in Views /\ e.xml \in Texts
  BY <1>2, EditIs
<1>4. cur[e.view] \in InTree \cup {Root} /\ made \in Nat
  BY <1>3, CoreIs
<1>5. made < MaxItems
  <2>1. todo[1].op = "leaf" /\ 1 \in 1..Len(todo)
    BY <1>2
  <2>2. made + Len(todo) - 1 + 1 <= MaxItems
    BY <1>2, <1>4, <2>1 DEF Pasting
  <2> QED
    BY <1>2, <1>4, <2>2, NodesAre
<1>6. Core' /\ made' = made + 1 /\ OthersKeep /\ InTree \subseteq InTree' /\ Added
  <2> HIDE DEF e
  <2> QED
    BY <1>1, <1>3, <1>4, <1>5, LeafStep
<1>7. TodoOK'
  <2>1. todo' = Tail(todo) /\ todo \in Seq(Edit)
    BY <1>1 DEF Next1, TodoOK
  <2> QED
    BY <1>2, <1>4, <1>6, <2>1, PastingNext
<1>8. Rest'
  BY <1>1, NextAims DEF Rest, Clips, Frames, clip
<1> QED
  BY <1>6, <1>7, <1>8

LEMMA MoveNextStep ==
  ASSUME Core, Rest, TodoOK, MoveNext
  PROVE  Core' /\ Rest' /\ TodoOK' /\ OthersKeep /\ InTree' = InTree
<1> DEFINE e == Head(todo)
           from == ParentOf(kids, e.item)
           at == ChildAt(kids', from, e.row, Root)
<1>1. /\ Running("move") /\ Next1 /\ kind' = kind
      /\ UNCHANGED <<made, frame, app, edits, clip>>
      /\ \/ Kept
         \/ /\ kids' = Reparent(kids, e.item, e.dest, e.row)
            /\ cur' = Settled([v \in Views |-> at])
            /\ EditorTo(at, text)
  BY DEF MoveNext
<1>2. Dragging /\ todo # << >> /\ e \in Edit /\ e.op = "move" /\ Len(todo) >= 1
  BY <1>1, LoopIs
<1>3. e.row \in Nat
  BY <1>2, EditIs
<1>4. PICK d \in InTree \cup {Root} :
        /\ kind[d] = "category"
        /\ \A n \in 1..Len(todo) :
             /\ todo[n].op = "move" /\ todo[n].dest = d /\ todo[n].item \in InTree
             /\ d # todo[n].item /\ d \notin Below(kids, todo[n].item)
  BY <1>2 DEF Dragging
<1>5. /\ Len(todo) \in Nat /\ 1 \in 1..Len(todo) /\ Head(todo) = todo[1] /\ todo \in Seq(Edit)
      /\ Tail(todo) \in Seq(Edit) /\ Len(Tail(todo)) = Len(todo) - 1
      /\ \A n \in 1..(Len(todo) - 1) : Tail(todo)[n] = todo[n + 1] /\ n + 1 \in 1..Len(todo)
  BY <1>2, TailIs DEF TodoOK
<1>6. e.dest = d /\ e.item \in InTree /\ d # e.item /\ d \notin Below(kids, e.item)
  BY <1>4, <1>5
<1>7. /\ Core' /\ OthersKeep /\ InTree' = InTree
      /\ \A o \in Items : d # o /\ d \notin Below(kids, o) => d \notin Below(kids', o)
  <2>1. CASE Kept
    <3>1. Core' /\ OthersKeep /\ InTree' = InTree
      BY <1>1, <2>1, KeptStep
    <3>2. kids' = kids
      BY <2>1 DEF Kept
    <3> QED
      BY <3>1, <3>2
  <2>2. CASE /\ kids' = Reparent(kids, e.item, e.dest, e.row)
             /\ cur' = Settled([v \in Views |-> at])
             /\ EditorTo(at, text)
    <3> HIDE DEF e
    <3>1. made' = made /\ kind' = kind
      BY <1>1
    <3>2. kids' = Reparent(kids, e.item, d, e.row)
      BY <1>6, <2>2
    <3> QED
      BY <1>3, <1>4, <1>6, <2>2, <3>1, <3>2, ReparentStep
  <2> QED
    BY <1>1, <2>1, <2>2
<1>8. TodoOK'
  <2>1. todo' = Tail(todo) /\ kind' = kind
    BY <1>1 DEF Next1
  <2>2. InTree \in SUBSET Items
    BY CoreIs
  <2>3. d \in InTree' \cup {Root} /\ kind'[d] = "category"
    BY <1>4, <1>7, <2>1
  <2>4. ASSUME NEW n \in 1..Len(todo')
        PROVE  /\ todo'[n].op = "move" /\ todo'[n].dest = d /\ todo'[n].item \in InTree'
               /\ d # todo'[n].item /\ d \notin Below(kids', todo'[n].item)
    <3>1. n \in 1..(Len(todo) - 1) /\ todo'[n] = todo[n + 1] /\ n + 1 \in 1..Len(todo)
      BY <1>5, <2>1
    <3>2. /\ todo'[n].op = "move" /\ todo'[n].dest = d /\ todo'[n].item \in InTree
          /\ d # todo'[n].item /\ d \notin Below(kids, todo'[n].item)
      BY <1>4, <3>1
    <3> QED
      BY <1>7, <2>2, <3>2
  <2>5. Dragging'
    BY <2>3, <2>4 DEF Dragging
  <2> QED
    BY <1>5, <2>1, <2>5 DEF TodoOK
<1>9. Rest'
  BY <1>1, NextAims DEF Rest, Clips, Frames, clip
<1> QED
  BY <1>7, <1>8, <1>9

LEMMA ImportNextStep ==
  ASSUME Core, Rest, TodoOK, ImportNext
  PROVE  /\ Core' /\ Rest' /\ TodoOK' /\ OthersKeep
         /\ made' = made + 1 /\ InTree \subseteq InTree' /\ Added
<1> DEFINE e == Head(todo)
           at == [d \in 1..MaxItems |-> IF d < e.depth THEN frame[d] ELSE made + 1]
<1>1. /\ Running("import") /\ Next1
      /\ IF e.kind = "xml" THEN InsertLeaf("dock", cur["dock"], Blank)
         ELSE IF frame[e.depth] = Root
              THEN Insert("dock", Root, Len(kids[Root]), "category", Blank)
              ELSE InsertCategory("dock", frame[e.depth], FALSE)
      /\ frame' = at
      /\ UNCHANGED <<app, edits, clip>>
  BY DEF ImportNext
<1>2. /\ Importing /\ todo # << >> /\ e \in Edit /\ e.op = "import"
      /\ Len(todo) \in Nat /\ Len(todo) >= 1
  BY <1>1, LoopIs
<1>3. e.kind \in Kinds /\ e.depth \in 1..MaxItems
  BY <1>2, EditIs
<1>4. /\ frame \in [1..MaxItems -> InTree \cup {Root}] /\ made + Len(todo) <= MaxItems
  BY <1>2 DEF Importing
<1>5. made \in Nat /\ made < MaxItems /\ Blank \in Texts /\ "category" \in Kinds
      /\ cur["dock"] \in InTree \cup {Root} /\ MaxItems \in Nat
  BY <1>2, <1>4, NodesAre, CoreIs, FavoritesAssumption DEF Views, Kinds
<1>6. /\ Core' /\ made' = made + 1 /\ OthersKeep
      /\ InTree \subseteq InTree' /\ made + 1 \in InTree' /\ Added
  <2> HIDE DEF e
  <2>1. CASE e.kind = "xml"
    BY <1>1, <1>5, <2>1, LeafStep
  <2>2. CASE e.kind # "xml" /\ frame[e.depth] = Root
    <3>1. Insert("dock", Root, Len(kids[Root]), "category", Blank)
      BY <1>1, <2>2
    <3>2. Len(kids[Root]) \in Nat
      <4>1. kids[Root] \in Seq(Items)
        BY CoreIs, KidsOf, NodesAre
      <4> QED
        BY <4>1
    <3>3. kind[Root] = "category"
      BY DEF Core, Bare
    <3> QED
      BY <1>5, <3>1, <3>2, <3>3, InsertStep
  <2>3. CASE e.kind # "xml" /\ frame[e.depth] # Root
    <3>1. InsertCategory("dock", frame[e.depth], FALSE)
      BY <1>1, <2>3
    <3>2. frame[e.depth] \in InTree \cup {Root}
      BY <1>3, <1>4
    <3> QED
      BY <1>5, <3>1, <3>2, CategoryStep
  <2> QED
    BY <2>1, <2>2, <2>3
<1>7. frame' \in [1..MaxItems -> InTree' \cup {Root}]
  <2> HIDE DEF e
  <2>1. ASSUME NEW d \in 1..MaxItems
        PROVE  (IF d < e.depth THEN frame[d] ELSE made + 1) \in InTree' \cup {Root}
    BY <1>4, <1>6
  <2> QED
    BY <1>1, <2>1
<1>8. TodoOK'
  <2>1. /\ todo' = Tail(todo) /\ Tail(todo) \in Seq(Edit) /\ Len(todo') = Len(todo) - 1
        /\ \A n \in 1..(Len(todo) - 1) : todo'[n] = todo[n + 1] /\ n + 1 \in 1..Len(todo)
    BY <1>1, <1>2, TailIs DEF TodoOK, Next1
  <2>2. \A n \in 1..Len(todo') : todo'[n].op = "import"
    BY <1>2, <2>1 DEF Importing
  <2>3. made' + Len(todo') <= MaxItems
    BY <1>2, <1>4, <1>5, <1>6, <2>1
  <2>4. Importing'
    BY <1>7, <2>2, <2>3 DEF Importing
  <2> QED
    BY <2>1, <2>4 DEF TodoOK
<1>9. Rest'
  <2>1. frame' \in [1..MaxItems -> Nodes]
    <3>1. \A p \in InTree' \cup {Root} : p \in Nodes
      <4>1. kids' \in Shape
        BY <1>6 DEF Core, Tree
      <4> QED
        BY <4>1, BelowIs, NodesAre DEF InTree
    <3> QED
      BY <1>7, <3>1
  <2> QED
    BY <1>1, <2>1, NextAims DEF Rest, Clips, Frames, clip
<1> QED
  BY <1>6, <1>8, <1>9

-----------------------------------------------------------------------------
(* The user's operations                                                    *)

FavInv == Core /\ Rest /\ TodoOK

\* What TextOfOthersKept says of a step.
OthersReadSame ==
  \A i \in InTree : text'[i] # text[i] =>
          \/ i = cur["editor"] /\ text'[i] = shown
          \/ edits' = edits + 1 /\ todo' = << >> /\ made' = made
             /\ \A j \in InTree \ {i} : text'[j] = text[j]

LEMMA ThenOthersSame ==
  ASSUME OthersKeep
  PROVE  OthersReadSame
BY DEF OthersKeep, OthersReadSame

LEMMA NothingLeft ==
  ASSUME todo' = << >>
  PROVE  TodoOK'
<1>1. todo' \in Seq(Edit) /\ 1..Len(todo') = {}
  OBVIOUS
<1> QED
  BY <1>1 DEF TodoOK, Pasting

LEMMA RestSame ==
  ASSUME Rest, UNCHANGED <<frame, app>>, UNCHANGED aim, UNCHANGED clip,
         edits' = edits \/ Counted
  PROVE  Rest'
<1>1. edits' \in 0..MaxEdits
  BY FavoritesAssumption DEF Rest, Counted
<1> QED
  BY <1>1 DEF Rest, Aims, Clips, Frames, aim, clip

LEMMA CurrentsAre ==
  ASSUME Core, NEW v \in Views, NEW c \in Currents(v)
  PROVE  c \in InTree \cup {Root}
<1>1. CASE v = "editor"
  BY <1>1, CoreIs DEF Currents
<1>2. CASE v # "editor"
  BY <1>2 DEF Currents
<1> QED
  BY <1>1, <1>2

LEMMA SelectStep ==
  ASSUME FavInv, NEW i \in InTree, Select(i)
  PROVE  FavInv' /\ OthersReadSame
<1>1. /\ todo = << >> /\ cur' = [cur EXCEPT !["editor"] = i] /\ kind' = kind
      /\ EditorTo(i, text)
      /\ UNCHANGED <<kids, made, todo, frame, app, edits>> /\ UNCHANGED aim /\ UNCHANGED clip
  BY DEF Select, Idle
<1>2. InTree \in SUBSET Items /\ shown \in Texts /\ text \in [Items -> Texts]
  BY CoreIs DEF FavInv, Core
<1>3. /\ text' \in [Items -> Texts] /\ shown' \in Texts
      /\ \A j \in Items : text'[j] # text[j] => j = cur["editor"] /\ text'[j] = shown
  BY <1>1, <1>2, EditorToIs
<1>4. cur' \in [Views -> InTree \cup {Root}]
  <2> DEFINE S == InTree \cup {Root}
  <2>1. cur \in [Views -> S] /\ i \in S
    BY DEF FavInv, Core
  <2> HIDE DEF S
  <2>2. cur' \in [Views -> S]
    BY <1>1, <2>1
  <2> QED
    BY <2>2 DEF S
<1>5. Core'
  BY <1>1, <1>3, <1>4, CoreSame DEF FavInv
<1>6. OthersReadSame
  BY <1>2, <1>3, ThenOthersSame DEF OthersKeep
<1> QED
  BY <1>1, <1>5, <1>6, NothingLeft, RestSame DEF FavInv

LEMMA TypeStep ==
  ASSUME FavInv, NEW t \in Texts, Type(t)
  PROVE  FavInv' /\ OthersReadSame
<1>1. /\ todo = << >> /\ Counted /\ shown' = t
      /\ UNCHANGED <<kids, kind, text, made, cur, todo, frame, app>>
      /\ UNCHANGED aim /\ UNCHANGED clip
  BY DEF Type, Idle
<1>2. Core'
  <2>1. text' \in [Items -> Texts] /\ cur' \in [Views -> InTree \cup {Root}]
    BY <1>1 DEF FavInv, Core
  <2> QED
    BY <1>1, <2>1, CoreSame DEF FavInv
<1>3. OthersReadSame
  BY <1>1 DEF OthersReadSame
<1> QED
  BY <1>1, <1>2, <1>3, NothingLeft, RestSame DEF FavInv

LEMMA CloseEditorStep ==
  ASSUME FavInv, CloseEditor
  PROVE  FavInv' /\ OthersReadSame
<1>1. /\ todo = << >> /\ text' = Stored(text)
      /\ UNCHANGED <<kids, kind, made, cur, shown, todo, frame, app, edits>>
      /\ UNCHANGED aim /\ UNCHANGED clip
  BY DEF CloseEditor, Idle
<1>2. InTree \in SUBSET Items /\ shown \in Texts /\ text \in [Items -> Texts]
  BY CoreIs DEF FavInv, Core
<1>3. /\ text' \in [Items -> Texts]
      /\ \A j \in Items : text'[j] # text[j] => j = cur["editor"] /\ text'[j] = shown
  BY <1>1, <1>2, StoredIs
<1>4. Core'
  <2>1. cur' \in [Views -> InTree \cup {Root}] /\ shown' \in Texts
    BY <1>1, <1>2 DEF FavInv, Core
  <2> QED
    BY <1>1, <1>3, <2>1, CoreSame DEF FavInv
<1>5. OthersReadSame
  BY <1>2, <1>3, ThenOthersSame DEF OthersKeep
<1> QED
  BY <1>1, <1>4, <1>5, NothingLeft, RestSame DEF FavInv

LEMMA RoomIs ==
  ASSUME Core, Room(1)
  PROVE  made < MaxItems
BY NodesAre, CoreIs DEF Room

LEMMA NewXmlStep ==
  ASSUME FavInv, NEW v \in Views, NEW c \in Currents(v), NewXml(v, c)
  PROVE  FavInv' /\ OthersReadSame
<1>1. /\ todo = << >> /\ Counted /\ Room(1) /\ InsertLeaf(v, c, Blank)
      /\ UNCHANGED <<todo, frame, app>> /\ UNCHANGED aim /\ UNCHANGED clip
  BY DEF NewXml, Idle
<1>2. Core' /\ OthersKeep
  BY <1>1, CurrentsAre, RoomIs, LeafStep, FavoritesAssumption DEF FavInv
<1> QED
  BY <1>1, <1>2, ThenOthersSame, NothingLeft, RestSame DEF FavInv

LEMMA NewCategoryStep ==
  ASSUME FavInv, NEW v \in Views, NEW c \in Currents(v), NEW toSub, NewCategory(v, c, toSub)
  PROVE  FavInv' /\ OthersReadSame
<1>1. /\ todo = << >> /\ Counted /\ Room(1) /\ InsertCategory(v, c, toSub)
      /\ UNCHANGED <<todo, frame, app>> /\ UNCHANGED aim /\ UNCHANGED clip
  BY DEF NewCategory, Idle
<1>2. Core' /\ OthersKeep
  BY <1>1, CurrentsAre, RoomIs, CategoryStep, FavoritesAssumption DEF FavInv
<1> QED
  BY <1>1, <1>2, ThenOthersSame, NothingLeft, RestSame DEF FavInv

LEMMA AddFavoriteStep ==
  ASSUME FavInv, NEW c \in InTree \cup {Root}, NEW t \in Texts, AddFavorite(c, t)
  PROVE  FavInv' /\ OthersReadSame
<1>1. /\ todo = << >> /\ Counted /\ Room(1) /\ InsertLeaf("dialog", c, t)
      /\ UNCHANGED <<todo, frame, app>> /\ UNCHANGED aim /\ UNCHANGED clip
  BY DEF AddFavorite, Idle
<1>2. Core' /\ OthersKeep
  BY <1>1, RoomIs, LeafStep DEF FavInv
<1> QED
  BY <1>1, <1>2, ThenOthersSame, NothingLeft, RestSame DEF FavInv

LEMMA EditXmlStep ==
  ASSUME FavInv, NEW i \in InTree, NEW t \in Texts, EditXml(i, t)
  PROVE  FavInv' /\ OthersReadSame
<1>1. /\ todo = << >> /\ Counted /\ text' = [text EXCEPT ![i] = t]
      /\ UNCHANGED <<kids, kind, made, cur, shown, todo, frame, app>>
      /\ UNCHANGED aim /\ UNCHANGED clip
  BY DEF EditXml, Idle
<1>2. InTree \in SUBSET Items /\ shown \in Texts /\ text \in [Items -> Texts]
  BY CoreIs DEF FavInv, Core
<1>3. /\ text' \in [Items -> Texts]
      /\ \A j \in InTree : j # i => text'[j] = text[j]
  BY <1>1, <1>2
<1>4. Core'
  <2>1. cur' \in [Views -> InTree \cup {Root}] /\ shown' \in Texts
    BY <1>1, <1>2 DEF FavInv, Core
  <2> QED
    BY <1>1, <1>3, <2>1, CoreSame DEF FavInv
<1>5. OthersReadSame
  <2>1. edits' = edits + 1 /\ todo' = << >> /\ made' = made
    BY <1>1 DEF Counted
  <2> QED
    BY <1>3, <2>1 DEF OthersReadSame
<1> QED
  BY <1>1, <1>4, <1>5, NothingLeft, RestSame DEF FavInv

LEMMA SelectionIs ==
  ASSUME Core, NEW s \in Selections
  PROVE  /\ s \in Seq(InTree) /\ s \in Seq(Items)
         /\ \/ \E i \in InTree : s = <<i>>
            \/ \E i, j \in InTree : i # j /\ s = <<i, j>>
<1>1. \/ \E i \in InTree : s = <<i>>
      \/ \E i, j \in InTree : i # j /\ s = <<i, j>>
  <2>1. CASE s \in {<<i>> : i \in InTree}
    BY <2>1
  <2>2. CASE s \in {x \in InTree \X InTree : x[1] # x[2]}
    <3>1. PICK i \in InTree, j \in InTree : s = <<i, j>>
      BY <2>2
    <3> QED
      BY <2>2, <3>1
  <2> QED
    BY <2>1, <2>2 DEF Selections
<1>2. InTree \in SUBSET Items
  BY CoreIs
<1>3. s \in Seq(InTree)
  <2>1. \A i \in InTree : <<i>> \in Seq(InTree)
    OBVIOUS
  <2>2. \A i, j \in InTree : <<i, j>> \in Seq(InTree)
    OBVIOUS
  <2> QED
    BY <1>1, <2>1, <2>2
<1>4. s \in Seq(Items)
  BY <1>2, <1>3
<1> QED
  BY <1>1, <1>3, <1>4

LEMMA PairIs ==
  ASSUME NEW i, NEW j
  PROVE  /\ ToSet(<<i, j>>) = {i, j} /\ Head(<<i, j>>) = i /\ Last(<<i, j>>) = j
         /\ ToSet(<<i>>) = {i} /\ Head(<<i>>) = i /\ Last(<<i>>) = i
<1>1. ToSet(<<i, j>>) = {i, j}
  <2>1. DOMAIN <<i, j>> = {1, 2} /\ <<i, j>>[1] = i /\ <<i, j>>[2] = j
    OBVIOUS
  <2> QED
    BY <2>1 DEF ToSet
<1>2. ToSet(<<i>>) = {i}
  <2>1. DOMAIN <<i>> = {1} /\ <<i>>[1] = i
    OBVIOUS
  <2> QED
    BY <2>1 DEF ToSet
<1>3. Head(<<i, j>>) = i /\ Head(<<i>>) = i
  OBVIOUS
<1>4. Last(<<i, j>>) = j /\ Last(<<i>>) = i
  BY DEF Last
<1> QED
  BY <1>1, <1>2, <1>3, <1>4

LEMMA OnlyIs ==
  ASSUME Core, NEW s \in Selections, NEW S
  PROVE  /\ Only(s, S) \in Seq(InTree)
         /\ \A n \in 1..Len(Only(s, S)) : Only(s, S)[n] \in ToSet(s) /\ Only(s, S)[n] \in S
<1> DEFINE R == {<< >>, <<Head(s)>>, <<Last(s)>>, s}
           P(r) == ToSet(r) = ToSet(s) \cap S
<1>1. \E r \in R : P(r)
  <2>1. CASE \E i \in InTree : s = <<i>>
    <3>1. PICK i \in InTree : s = <<i>>
      BY <2>1
    <3>2. ToSet(s) = {i} /\ ToSet(<< >>) = {}
      BY <3>1, PairIs, EmptyHasNone
    <3>3. CASE i \in S
      <4>1. P(s)
        BY <3>2, <3>3
      <4> QED
        BY <4>1
    <3>4. CASE i \notin S
      <4>1. P(<< >>)
        BY <3>2, <3>4
      <4> QED
        BY <4>1
    <3> QED
      BY <3>3, <3>4
  <2>2. CASE \E i, j \in InTree : i # j /\ s = <<i, j>>
    <3>1. PICK i, j \in InTree : i # j /\ s = <<i, j>>
      BY <2>2
    <3>2. /\ ToSet(s) = {i, j} /\ ToSet(<< >>) = {} /\ ToSet(<<i>>) = {i} /\ ToSet(<<j>>) = {j}
          /\ Head(s) = i /\ Last(s) = j
      BY <3>1, PairIs, EmptyHasNone
    <3>3. CASE i \in S /\ j \in S
      <4>1. P(s)
        BY <3>2, <3>3
      <4> QED
        BY <4>1
    <3>4. CASE i \notin S /\ j \notin S
      <4>1. P(<< >>)
        BY <3>2, <3>4
      <4> QED
        BY <4>1
    <3>5. CASE i \in S /\ j \notin S
      <4>1. P(<<Head(s)>>)
        BY <3>2, <3>5
      <4> QED
        BY <4>1
    <3>6. CASE i \notin S /\ j \in S
      <4>1. P(<<Last(s)>>)
        BY <3>2, <3>6
      <4> QED
        BY <4>1
    <3> QED
      BY <3>3, <3>4, <3>5, <3>6
  <2> QED
    BY <2>1, <2>2, SelectionIs
<1>2. Only(s, S) \in R /\ P(Only(s, S))
  BY <1>1 DEF Only
<1>3. s \in Seq(InTree) /\ Len(s) \in Nat /\ Len(s) >= 1
  <2>1. s \in Seq(InTree)
    BY SelectionIs
  <2>2. Len(s) = 1 \/ Len(s) = 2
    BY SelectionIs
  <2> QED
    BY <2>1, <2>2
<1>4. Only(s, S) \in Seq(InTree)
  <2>1. Head(s) \in InTree /\ Last(s) \in InTree
    BY <1>3 DEF Last
  <2>2. /\ << >> \in Seq(InTree) /\ <<Head(s)>> \in Seq(InTree)
        /\ <<Last(s)>> \in Seq(InTree)
    BY <2>1
  <2> QED
    BY <1>2, <1>3, <2>2
<1>5. ASSUME NEW n \in 1..Len(Only(s, S))
      PROVE  Only(s, S)[n] \in ToSet(s) /\ Only(s, S)[n] \in S
  <2>1. Only(s, S)[n] \in ToSet(Only(s, S))
    BY <1>4, SetOf
  <2> QED
    BY <1>2, <2>1
<1> QED
  BY <1>4, <1>5

LEMMA IndexIs ==
  ASSUME Core, NEW i \in InTree
  PROVE  IndexOf(i) \in Index
<1>1. i \in Items /\ RowOf(kids, i) \in Nat
  BY ParentInTree, CoreIs
<1> QED
  BY <1>1 DEF IndexOf, Index

LEMMA RemovalsAre ==
  ASSUME NEW s \in Seq(Index)
  PROVE  /\ Removals(s) \in Seq(Edit) /\ Len(Removals(s)) = Len(s)
         /\ \A n \in 1..Len(s) : Removals(s)[n].op = "remove"
<1> DEFINE r == Reverse(s)
<1>1. /\ Len(s) \in Nat /\ DOMAIN s = 1..Len(s)
      /\ \A n \in 1..Len(s) : r[n] \in Index
  BY DEF Reverse
<1> HIDE DEF r
<1>2. ASSUME NEW n \in 1..Len(s)
      PROVE  Removal(r[n]) \in Edit /\ Removal(r[n]).op = "remove"
  <2>1. r[n].row \in Nat /\ r[n].item \in Items
    BY <1>1 DEF Index
  <2> QED
    BY <2>1 DEF Removal, Edit
<1>3. Removals(s) = [n \in 1..Len(s) |-> Removal(r[n])]
  BY <1>1 DEF Removals, r
<1> QED
  BY <1>1, <1>2, <1>3

LEMMA CoreIdle ==
  ASSUME FavInv, SameItems, cur' \in [Views -> InTree \cup {Root}]
  PROVE  Core' /\ OthersReadSame
<1>1. UNCHANGED <<kids, kind, text, made, shown>>
  BY DEF SameItems
<1>2. text' \in [Items -> Texts] /\ shown' \in Texts
  BY <1>1 DEF FavInv, Core
<1> QED
  BY <1>1, <1>2, CoreSame DEF OthersReadSame, FavInv

LEMMA CoreSameCur ==
  ASSUME FavInv, Same
  PROVE  Core' /\ OthersReadSame
<1>1. SameItems /\ cur' = cur
  BY DEF Same
<1>2. cur' \in [Views -> InTree \cup {Root}]
  BY <1>1 DEF FavInv, Core
<1> QED
  BY <1>1, <1>2, CoreIdle

LEMMA TakeStep ==
  ASSUME FavInv, NEW v \in Views, NEW s \in Selections, NEW isCut \in BOOLEAN, Take(v, s, isCut)
  PROVE  FavInv' /\ OthersReadSame
<1> DEFINE xs == Only(s, {i \in Items : IsXml(i)})
           xml == [n \in DOMAIN xs |-> text[xs[n]]]
           ixs == IF isCut THEN [n \in DOMAIN xs |-> IndexOf(xs[n])] ELSE << >>
<1>1. /\ todo = << >> /\ Counted
      /\ copied' = [copied EXCEPT ![v] = xml] /\ cut' = [cut EXCEPT ![v] = ixs]
      /\ Same /\ UNCHANGED <<todo, frame, app>> /\ UNCHANGED aim
  BY DEF Take, Idle
<1>2. xs \in Seq(InTree)
  BY OnlyIs DEF FavInv
<1>3. xml \in Seq(Texts)
  <2>1. InTree \in SUBSET Items /\ text \in [Items -> Texts]
    BY CoreIs DEF FavInv, Core
  <2> HIDE DEF xs
  <2> QED
    BY <1>2, <2>1
<1>4. ixs \in Seq(Index)
  <2> HIDE DEF xs
  <2>1. \A n \in DOMAIN xs : IndexOf(xs[n]) \in Index
    BY <1>2, IndexIs DEF FavInv
  <2> QED
    BY <1>2, <2>1
<1> HIDE DEF xml, ixs
<1>5. Clips'
  BY <1>1, <1>3, <1>4 DEF Clips, FavInv, Rest
<1>6. Rest'
  BY <1>1, <1>5, FavoritesAssumption DEF FavInv, Rest, Aims, Frames, aim, Counted
<1> QED
  BY <1>1, <1>6, CoreSameCur, NothingLeft DEF FavInv

LEMMA AimIs ==
  ASSUME Core, NEW S \in SUBSET Items, NEW down \in BOOLEAN, Aim(S, down)
  PROVE  Aims'
<1>1. InTree \in SUBSET Items
  BY CoreIs
<1> QED
  BY <1>1 DEF Aims, Aim

LEMMA DeleteStep ==
  ASSUME FavInv, NEW s \in Selections, Delete(s)
  PROVE  FavInv' /\ OthersReadSame
<1> DEFINE ixs == [n \in DOMAIN s |-> IndexOf(s[n])]
           S == UNION {{s[n]} \cup Below(kids, s[n]) : n \in DOMAIN s}
<1>1. /\ todo = << >> /\ Counted /\ todo' = Removals(ixs) /\ Aim(S, TopDown(ixs))
      /\ Same /\ UNCHANGED <<frame, app>> /\ UNCHANGED clip
  BY DEF Delete, Idle
<1>2. s \in Seq(InTree) /\ s \in Seq(Items) /\ InTree \in SUBSET Items /\ kids \in Shape
  BY SelectionIs, CoreIs DEF FavInv
<1>3. ixs \in Seq(Index)
  <2>1. \A n \in DOMAIN s : IndexOf(s[n]) \in Index
    BY <1>2, IndexIs DEF FavInv
  <2> QED
    BY <1>2, <2>1
<1>4. TodoOK'
  <2> HIDE DEF ixs
  <2>1. /\ todo' \in Seq(Edit) /\ \A n \in 1..Len(todo') : todo'[n].op = "remove"
    BY <1>1, <1>3, RemovalsAre
  <2>2. Pasting'
    BY <2>1 DEF Pasting
  <2> QED
    BY <2>1, <2>2 DEF TodoOK
<1>5. S \in SUBSET Items
  <2>1. \A i \in Items : Below(kids, i) \in SUBSET Items
    BY <1>2, BelowIs, NodesAre
  <2> QED
    BY <1>2, <2>1
<1>6. TopDown(ixs) \in BOOLEAN
  BY DEF TopDown
<1>7. Aims'
  <2> HIDE DEF S, ixs
  <2> QED
    BY <1>1, <1>5, <1>6, AimIs DEF FavInv
<1>8. Rest'
  BY <1>1, <1>7, FavoritesAssumption DEF FavInv, Rest, Clips, Frames, clip, Counted
<1> QED
  BY <1>1, <1>4, <1>8, CoreSameCur DEF FavInv

LEMMA EditsJoined ==
  ASSUME NEW x \in Seq(Edit), NEW y \in Seq(Edit)
  PROVE  /\ Cat(x, y) \in Seq(Edit) /\ Len(Cat(x, y)) = Len(x) + Len(y)
         /\ \A k \in 1..Len(x) : Cat(x, y)[k] = x[k]
         /\ \A k \in 1..Len(y) : Cat(x, y)[Len(x) + k] = y[k]
<1>1. Cat(x, y) \in Seq(Edit)
  BY Joined
<1>2. Len(Cat(x, y)) = Len(x) + Len(y)
  BY Joined
<1>3. \A k \in 1..Len(x) : Cat(x, y)[k] = x[k]
  BY Joined
<1>4. \A k \in 1..Len(y) : Cat(x, y)[Len(x) + k] = y[k]
  BY JoinedRight
<1> QED
  BY <1>1, <1>2, <1>3, <1>4

LEMMA PasteTodo ==
  ASSUME NEW x \in Seq(Edit), NEW y \in Seq(Edit), made' \in Nat,
         \A n \in 1..Len(x) : x[n].op = "remove",
         \A n \in 1..Len(y) : y[n].op = "leaf",
         made' + Len(y) <= MaxItems, todo' = Cat(x, y)
  PROVE  TodoOK'
<1>1. /\ todo' \in Seq(Edit) /\ Len(todo') = Len(x) + Len(y)
      /\ \A k \in 1..Len(x) : todo'[k] = x[k]
      /\ \A k \in 1..Len(y) : todo'[Len(x) + k] = y[k]
  <2>1. /\ Cat(x, y) \in Seq(Edit) /\ Len(Cat(x, y)) = Len(x) + Len(y)
        /\ \A k \in 1..Len(x) : Cat(x, y)[k] = x[k]
        /\ \A k \in 1..Len(y) : Cat(x, y)[Len(x) + k] = y[k]
    BY EditsJoined
  <2> QED
    BY <2>1
<1>2. Len(x) \in Nat /\ Len(y) \in Nat /\ MaxItems \in Nat
  BY NodesAre
<1>3. ASSUME NEW n \in 1..Len(todo')
      PROVE  /\ todo'[n].op \in {"remove", "leaf"}
             /\ todo'[n].op = "leaf" => made' + Len(todo') - n + 1 <= MaxItems
  <2>1. CASE n \in 1..Len(x)
    BY <1>1, <2>1
  <2>2. CASE n \notin 1..Len(x)
    <3>1. n - Len(x) \in 1..Len(y) /\ Len(x) + (n - Len(x)) = n
      BY <1>1, <1>2, <2>2
    <3>2. todo'[n].op = "leaf"
      BY <1>1, <3>1
    <3>3. made' + Len(todo') - n + 1 <= MaxItems
      BY <1>1, <1>2, <3>1
    <3> QED
      BY <3>2, <3>3
  <2> QED
    BY <2>1, <2>2
<1> QED
  BY <1>1, <1>3 DEF TodoOK, Pasting

LEMMA PasteStep ==
  ASSUME FavInv, NEW v \in Views, NEW c \in Currents(v), Paste(v, c)
  PROVE  FavInv' /\ OthersReadSame
<1> DEFINE leaves == [n \in DOMAIN copied[v] |->
                        [op |-> "leaf", view |-> v, xml |-> copied[v][n]]]
           S == {ix.item : ix \in ToSet(cut[v])}
           down == Accurate(cut[v]) /\ TopDown(cut[v])
           a == Removals(cut[v])
<1>1. /\ todo = << >> /\ Room(Len(copied[v])) /\ todo' = Cat(a, leaves)
      /\ cut' = [cut EXCEPT ![v] = << >>] /\ Aim(S, down) /\ cur' = [cur EXCEPT ![v] = c]
      /\ SameItems /\ UNCHANGED <<frame, app, edits, copied>>
  BY DEF Paste, Idle, Cat
<1>2. copied[v] \in Seq(Texts) /\ cut[v] \in Seq(Index) /\ made \in Nat
  BY CoreIs DEF FavInv, Rest, Clips
<1>3. /\ leaves \in Seq(Edit) /\ Len(leaves) = Len(copied[v]) /\ Len(leaves) \in Nat
      /\ \A n \in 1..Len(leaves) : leaves[n].op = "leaf"
  <2>1. \A n \in DOMAIN copied[v] :
          [op |-> "leaf", view |-> v, xml |-> copied[v][n]] \in Edit
    BY <1>2 DEF Edit
  <2>2. Len(copied[v]) \in Nat /\ DOMAIN copied[v] = 1..Len(copied[v])
    BY <1>2
  <2>3. leaves \in Seq(Edit) /\ Len(leaves) = Len(copied[v])
    BY <2>1, <2>2
  <2>4. \A n \in 1..Len(copied[v]) : leaves[n].op = "leaf"
    BY <2>2
  <2> QED
    BY <2>2, <2>3, <2>4
<1>4. a \in Seq(Edit) /\ \A n \in 1..Len(a) : a[n].op = "remove"
  BY <1>2, RemovalsAre
<1> HIDE DEF a, leaves, S, down
<1>8. TodoOK'
  <2>1. made' \in Nat /\ made' + Len(leaves) <= MaxItems
    BY <1>1, <1>2, <1>3 DEF SameItems, Room
  <2> QED
    BY <1>1, <1>3, <1>4, <2>1, PasteTodo
<1>9. Aims'
  <2>1. S \in SUBSET Items
    <3>1. ToSet(cut[v]) \subseteq Index
      BY <1>2, SetOf
    <3> QED
      BY <3>1 DEF Index, S
  <2>2. down \in BOOLEAN
    BY DEF down

  <2> QED
    BY <1>1, <2>1, <2>2, AimIs DEF FavInv
<1>10. Clips'
  <2>1. << >> \in Seq(Index)
    OBVIOUS
  <2> QED
    BY <1>1, <2>1 DEF Clips, FavInv, Rest
<1>11. Rest'
  BY <1>1, <1>9, <1>10 DEF FavInv, Rest, Frames
<1>12. cur' \in [Views -> InTree \cup {Root}]
  <2> DEFINE T == InTree \cup {Root}
  <2>1. cur \in [Views -> T] /\ c \in T
    BY CurrentsAre DEF FavInv, Core
  <2> HIDE DEF T
  <2>2. cur' \in [Views -> T]
    BY <1>1, <2>1
  <2> QED
    BY <2>2 DEF T
<1> QED
  BY <1>1, <1>8, <1>11, <1>12, CoreIdle DEF FavInv

\* Where a drop is allowed, it puts no item below itself.
LEMMA MayDropIs ==
  ASSUME Core, NEW t \in InTree, NEW o \in InTree, t # o, t \notin Below(kids, o)
  PROVE  ParentOf(kids, t) # o /\ ParentOf(kids, t) \notin Below(kids, o)
<1> DEFINE p == ParentOf(kids, t)
<1>1. o \in Items /\ kids \in Shape
  BY CoreIs
<1>2. t \in ToSet(kids[p])
  BY CoreIs, InTreeIs DEF InTree
<1>3. Covers(kids, o, Below(kids, o))
  BY <1>1, BelowIs, NodesAre
<1> HIDE DEF p
<1>4. p # o /\ p \notin Below(kids, o)
  BY <1>2, <1>3 DEF Covers
<1> QED
  BY <1>4 DEF p

LEMMA DropStep ==
  ASSUME FavInv, NEW s \in Selections, NEW t \in InTree \cup {Root}, NEW expanded \in BOOLEAN,
         Drop(s, t, expanded)
  PROVE  FavInv' /\ OthersReadSame
<1> DEFINE into == t # Root /\ kind[t] = "category" /\ expanded
           dest == IF t = Root \/ into THEN t ELSE ParentOf(kids, t)
           row == IF t = Root THEN Len(kids[Root])
                  ELSE IF into THEN 0 ELSE RowOf(kids, t)
           real == Only(s, {i \in InTree : ParentOf(kids, i) \notin ToSet(s)})
           moves == [n \in DOMAIN real |-> [op |-> "move", item |-> real[n],
                                            dest |-> dest, row |-> row + n - 1]]
<1>1. /\ todo = << >> /\ Counted /\ MayDropOn(s, t) /\ todo' = moves /\ Aim({}, TRUE)
      /\ Same /\ UNCHANGED <<frame, app>> /\ UNCHANGED clip
  BY DEF Drop, Idle
<1>2. /\ s \in Seq(InTree) /\ InTree \in SUBSET Items /\ kids \in Shape
      /\ \A p \in InTree \cup {Root} : p \in Nodes
  BY SelectionIs, CoreIs DEF FavInv
<1>3. dest \in InTree \cup {Root} /\ kind[dest] = "category" /\ row \in Nat
  <2>1. CASE t = Root
    <3>1. kids[Root] \in Seq(Items) /\ kind[Root] = "category"
      BY <1>2, KidsOf, NodesAre DEF FavInv, Core, Bare
    <3> QED
      BY <2>1, <3>1
  <2>2. CASE t # Root /\ into
    BY <2>2
  <2>3. CASE t # Root /\ ~into
    BY <2>3, ParentInTree DEF FavInv
  <2> QED
    BY <2>1, <2>2, <2>3
<1>4. ASSUME NEW o \in ToSet(s)
      PROVE  o \in InTree /\ dest # o /\ dest \notin Below(kids, o)
  <2>1. o \in InTree
    BY <1>2, SetOf
  <2>2. t # o /\ t \notin Below(kids, o)
    <3>1. PICK n \in 1..Len(s) : s[n] = o
      BY <1>2, SetOf
    <3> QED
      BY <1>1, <1>2, <3>1 DEF MayDropOn
  <2>3. CASE t = Root \/ into
    BY <2>1, <2>2, <2>3
  <2>4. CASE ~(t = Root \/ into)
    <3>1. t \in InTree
      BY <2>4
    <3>2. ParentOf(kids, t) # o /\ ParentOf(kids, t) \notin Below(kids, o)
      BY <2>1, <2>2, <3>1, MayDropIs DEF FavInv
    <3> QED
      BY <2>1, <2>4, <3>2
  <2> QED
    BY <2>3, <2>4
<1>5. real \in Seq(InTree) /\ \A n \in 1..Len(real) : real[n] \in ToSet(s)
  BY OnlyIs DEF FavInv
<1> HIDE DEF dest, row, real
<1>6. /\ moves \in Seq(Edit) /\ Len(moves) = Len(real)
      /\ \A n \in 1..Len(real) : /\ moves[n].op = "move" /\ moves[n].dest = dest
                                 /\ moves[n].item = real[n]
  <2>1. Len(real) \in Nat /\ DOMAIN real = 1..Len(real)
    BY <1>5
  <2>2. ASSUME NEW n \in 1..Len(real)
        PROVE  [op |-> "move", item |-> real[n], dest |-> dest, row |-> row + n - 1] \in Edit
    <3>1. real[n] \in Items /\ dest \in Nodes /\ row + n - 1 \in Nat
      BY <1>2, <1>3, <1>5, <2>1
    <3> HIDE DEF moves
    <3> QED
      BY <3>1 DEF Edit
  <2>3. moves \in Seq(Edit) /\ Len(moves) = Len(real)
    BY <2>1, <2>2
  <2>4. \A n \in 1..Len(real) : /\ moves[n].op = "move" /\ moves[n].dest = dest
                                /\ moves[n].item = real[n]
    BY <2>1
  <2> QED
    BY <2>3, <2>4
<1> HIDE DEF moves
<1>7. TodoOK'
  <2>1. kids' = kids /\ kind' = kind /\ InTree' = InTree
    BY <1>1 DEF Same, SameItems, InTree
  <2>2. ASSUME NEW n \in 1..Len(todo')
        PROVE  /\ todo'[n].op = "move" /\ todo'[n].dest = dest /\ todo'[n].item \in InTree'
               /\ dest # todo'[n].item /\ dest \notin Below(kids', todo'[n].item)
    BY <1>1, <1>4, <1>5, <1>6, <2>1
  <2>3. dest \in InTree' \cup {Root} /\ kind'[dest] = "category"
    BY <1>3, <2>1
  <2>4. Dragging'
    BY <2>2, <2>3 DEF Dragging
  <2> QED
    BY <1>1, <1>6, <2>4 DEF TodoOK
<1>8. Rest'
  <2>1. Aims'
    BY <1>1, AimIs DEF FavInv
  <2> QED
    BY <1>1, <2>1, FavoritesAssumption DEF FavInv, Rest, Clips, Frames, clip, Counted
<1> QED
  BY <1>1, <1>7, <1>8, CoreSameCur DEF FavInv

LEMMA ImportStep ==
  ASSUME FavInv, NEW f \in Files, NEW c \in InTree \cup {Root}, Import(f, c)
  PROVE  FavInv' /\ OthersReadSame
<1> DEFINE steps == [n \in DOMAIN f |-> [op |-> "import", kind |-> f[n].kind,
                                         depth |-> f[n].depth]]
<1>1. /\ todo = << >> /\ Counted /\ Room(Len(f)) /\ todo' = steps
      /\ frame' = [d \in 1..MaxItems |-> Root] /\ Aim({}, TRUE)
      /\ cur' = [cur EXCEPT !["dock"] = c] /\ SameItems /\ app' = app /\ UNCHANGED clip
  BY DEF Import, Idle
<1>2. f \in Seq([kind : Kinds, depth : 1..MaxItems])
  BY FavoritesAssumption
<1>3. Len(f) \in Nat /\ DOMAIN f = 1..Len(f)
  BY <1>2
<1>4. /\ steps \in Seq(Edit) /\ Len(steps) = Len(f)
      /\ \A n \in 1..Len(f) : steps[n].op = "import"
  <2>1. ASSUME NEW n \in 1..Len(f)
        PROVE  [op |-> "import", kind |-> f[n].kind, depth |-> f[n].depth] \in Edit
    <3> HIDE DEF steps
    <3>0. f[n] \in [kind : Kinds, depth : 1..MaxItems]
      <4> DEFINE R == [kind : Kinds, depth : 1..MaxItems]
      <4>1. f \in Seq(R)
        BY <1>2
      <4> HIDE DEF R
      <4>2. f[n] \in R
        BY <4>1
      <4> QED
        BY <4>2 DEF R
    <3>1. f[n].kind \in Kinds /\ f[n].depth \in 1..MaxItems
      BY <3>0
    <3> QED
      BY <3>1 DEF Edit
  <2>2. steps \in Seq(Edit) /\ Len(steps) = Len(f)
    BY <1>3, <2>1
  <2>3. \A n \in 1..Len(f) : steps[n].op = "import"
    BY <1>3
  <2> QED
    BY <2>2, <2>3
<1> HIDE DEF steps
<1>5. kids' = kids /\ made' = made /\ InTree' = InTree /\ MaxItems \in Nat /\ made \in Nat
  BY <1>1, NodesAre, CoreIs DEF SameItems, InTree, FavInv
<1>6. TodoOK'
  <2>1. made' + Len(todo') <= MaxItems
    BY <1>1, <1>4, <1>5 DEF Room
  <2>2. frame' \in [1..MaxItems -> InTree' \cup {Root}]
    BY <1>1
  <2>3. Importing'
    BY <1>1, <1>4, <2>1, <2>2 DEF Importing
  <2> QED
    BY <1>1, <1>4, <2>3 DEF TodoOK
<1>7. Rest'
  <2>1. Aims'
    BY <1>1, AimIs DEF FavInv
  <2>2. Frames'
    BY <1>1, NodesAre DEF Frames
  <2> QED
    BY <1>1, <2>1, <2>2, FavoritesAssumption DEF FavInv, Rest, Clips, clip, Counted
<1>8. cur' \in [Views -> InTree \cup {Root}]
  <2> DEFINE T == InTree \cup {Root}
  <2>1. cur \in [Views -> T]
    BY DEF FavInv, Core
  <2>2. c \in T
    OBVIOUS
  <2> HIDE DEF T
  <2>3. cur' \in [Views -> T]
    BY <1>1, <2>1, <2>2
  <2> QED
    BY <2>3 DEF T
<1> QED
  BY <1>1, <1>6, <1>7, <1>8, CoreIdle DEF FavInv

LEMMA FavStep ==
  ASSUME FavInv, Next
  PROVE  FavInv' /\ OthersReadSame
<1>1. CASE RemoveNext
  BY <1>1, RemoveNextStep, ThenOthersSame DEF FavInv
<1>2. CASE RemoveDangling
  BY <1>2, RemoveDanglingStep, ThenOthersSame DEF FavInv
<1>3. CASE LeafNext
  BY <1>3, LeafNextStep, ThenOthersSame DEF FavInv
<1>4. CASE MoveNext
  BY <1>4, MoveNextStep, ThenOthersSame DEF FavInv
<1>5. CASE ImportNext
  BY <1>5, ImportNextStep, ThenOthersSame DEF FavInv
<1>6. ASSUME NEW v \in Views, NEW c \in Currents(v), NewXml(v, c)
      PROVE  FavInv' /\ OthersReadSame
  BY <1>6, NewXmlStep
<1>7. ASSUME NEW v \in Views, NEW c \in Currents(v), NEW toSub, NewCategory(v, c, toSub)
      PROVE  FavInv' /\ OthersReadSame
  BY <1>7, NewCategoryStep
<1>8. ASSUME NEW v \in Views, NEW c \in Currents(v), Paste(v, c)
      PROVE  FavInv' /\ OthersReadSame
  BY <1>8, PasteStep
<1>9. ASSUME NEW v \in Views, NEW s \in Selections, Cut(v, s) \/ Copy(v, s)
      PROVE  FavInv' /\ OthersReadSame
  BY <1>9, TakeStep DEF Cut, Copy
<1>10. ASSUME NEW t \in Texts, Type(t)
       PROVE  FavInv' /\ OthersReadSame
  BY <1>10, TypeStep
<1>11. ASSUME NEW t \in Texts, NEW i \in InTree, EditXml(i, t)
       PROVE  FavInv' /\ OthersReadSame
  BY <1>11, EditXmlStep
<1>12. ASSUME NEW t \in Texts, NEW c \in InTree \cup {Root}, AddFavorite(c, t)
       PROVE  FavInv' /\ OthersReadSame
  BY <1>12, AddFavoriteStep
<1>13. ASSUME NEW i \in InTree, Select(i)
       PROVE  FavInv' /\ OthersReadSame
  BY <1>13, SelectStep
<1>14. CASE CloseEditor
  BY <1>14, CloseEditorStep
<1>15. ASSUME NEW s \in Selections, Delete(s)
       PROVE  FavInv' /\ OthersReadSame
  BY <1>15, DeleteStep
<1>16. ASSUME NEW s \in Selections, NEW t \in InTree \cup {Root}, NEW b \in BOOLEAN,
              Drop(s, t, b)
       PROVE  FavInv' /\ OthersReadSame
  BY <1>16, DropStep
<1>17. ASSUME NEW f \in Files, NEW c \in InTree \cup {Root}, Import(f, c)
       PROVE  FavInv' /\ OthersReadSame
  BY <1>17, ImportStep
<1> QED
  BY <1>1, <1>2, <1>3, <1>4, <1>5, <1>6, <1>7, <1>8, <1>9, <1>10, <1>11, <1>12, <1>13,
     <1>14, <1>15, <1>16, <1>17, Zenon DEF Next, Loop, User

-----------------------------------------------------------------------------
(* The saved tree                                                           *)

Empty == [p \in Nodes |-> << >>]
Joins(n, K) == [K EXCEPT ![Start[n].up] = Append(@, n)]

LEMMA StartIs ==
  /\ Len(Start) \in 1..MaxItems /\ DOMAIN Start = 1..Len(Start)
  /\ \A n \in 1..Len(Start) :
       /\ Start[n].kind \in Kinds /\ Start[n].up \in Nodes /\ Start[n].up < n
       /\ Start[n].up = Root \/ Start[Start[n].up].kind = "category"
<1>1. PICK m \in 1..MaxItems : Start \in [1..m -> [kind : Kinds, up : 0..m]]
  BY FavoritesAssumption
<1>2. m \in Nat /\ m <= MaxItems /\ MaxItems \in Nat
  BY NodesAre
<1>3. DOMAIN Start = 1..m /\ Len(Start) = m
  BY <1>1, <1>2
<1>4. ASSUME NEW n \in 1..m
      PROVE  Start[n].kind \in Kinds /\ Start[n].up \in Nodes
  <2>1. Start[n] \in [kind : Kinds, up : 0..m]
    BY <1>1
  <2>2. Start[n].kind \in Kinds /\ Start[n].up \in 0..m
    BY <2>1
  <2> QED
    BY <1>2, <2>2 DEF Nodes
<1>5. \A n \in 1..m : /\ Start[n].up < n
                      /\ Start[n].up = Root \/ Start[Start[n].up].kind = "category"
  BY <1>3, FavoritesAssumption
<1> QED
  BY <1>3, <1>4, <1>5

LEMMA JoinsIs ==
  ASSUME NEW n \in 1..Len(Start), NEW K \in Shape
  PROVE  /\ Joins(n, K) = With(K, Start[n].up, Len(K[Start[n].up]) + 1, n)
         /\ Len(K[Start[n].up]) + 1 \in Nat
         /\ Joins(n, K) \in Shape
         /\ \A p \in Nodes : p # Start[n].up => Joins(n, K)[p] = K[p]
<1> DEFINE p == Start[n].up
<1>1. p \in Nodes /\ n \in Items
  BY StartIs, NodesAre DEF Items
<1>2. K[p] \in Seq(Items) /\ Len(K[p]) \in Nat
  BY <1>1, KidsOf
<1>3. InsertRow(K[p], Len(K[p]) + 1, n) = Append(K[p], n)
  BY <1>2 DEF InsertRow
<1>4. Joins(n, K) = With(K, p, Len(K[p]) + 1, n)
  BY <1>3 DEF Joins, With
<1>5. Append(K[p], n) \in Seq(Items)
  BY <1>1, <1>2
<1>6. Joins(n, K) \in Shape /\ \A q \in Nodes : q # p => Joins(n, K)[q] = K[q]
  BY <1>1, <1>5 DEF Joins, Shape
<1> QED
  BY <1>2, <1>4, <1>6

LEMMA LoadedIs ==
  \E f \in [0..Len(Start) -> Shape] :
    /\ f[0] = Empty /\ \A n \in 1..Len(Start) : f[n] = Joins(n, f[n - 1])
    /\ Loaded = f[Len(Start)]
<1> DEFINE N == Len(Start)
           P(g) == g = [n \in 0..N |-> IF n = 0 THEN [p \in Nodes |-> << >>]
                        ELSE [g[n - 1] EXCEPT ![Start[n].up] = Append(@, n)]]
           Q(g) == g = [n \in 0..N |-> IF n = 0 THEN Empty ELSE Joins(n, g[n - 1])]
           L == CHOOSE g : P(g)
<1>0. N \in Nat /\ Empty \in Shape
  <2>1. Empty \in Shape
    BY DEF Empty, Shape
  <2> QED
    BY <2>1, StartIs, NodesAre
<1>1. Loaded = L[N]
  BY Zenon DEF Loaded
<1>2. \A g : P(g) <=> Q(g)
  BY DEF Empty, Joins
<1> HIDE DEF N, P
<1>3. \E g : Q(g)
  <2> DEFINE G == [k \in Nat |-> [K \in Shape |-> IF k \in 1..N THEN Joins(k, K) ELSE K]]
  <2>1. \A k \in 1..N, K \in Shape : Joins(k, K) \in Shape
    BY JoinsIs DEF N
  <2>2. G \in [Nat -> [Shape -> Shape]]
    BY <2>1
  <2>3. \A k \in Nat, K \in Shape : k \in 1..N => G[k][K] = Joins(k, K)
    OBVIOUS
  <2> HIDE DEF G
  <2>4. PICK f \in [0..N -> Shape] : f[0] = Empty /\ \A d \in 1..N : f[d] = G[d][f[d - 1]]
    <3>1. Runs(N, Shape, Empty, G)
      BY <1>0, <2>2, Repeated
    <3> QED
      BY <3>1 DEF Runs
  <2>5. \A d \in 0..N : f[d] = IF d = 0 THEN Empty ELSE Joins(d, f[d - 1])
    <3> SUFFICES ASSUME NEW d \in 0..N, d # 0 PROVE f[d] = Joins(d, f[d - 1])
      BY <2>4
    <3>1. d \in 1..N /\ d - 1 \in 0..N /\ d \in Nat
      BY <1>0
    <3>2. f[d - 1] \in Shape /\ f[d] = G[d][f[d - 1]]
      BY <2>4, <3>1
    <3> QED
      BY <2>3, <3>1, <3>2
  <2>6. Q(f)
    BY <2>4, <2>5
  <2> QED
    BY <2>6
<1>4. Q(L)
  <2> HIDE DEF Q
  <2>1. P(L)
    BY <1>2, <1>3
  <2> QED
    BY <1>2, <2>1
<1> HIDE DEF L
<1>5. /\ DOMAIN L = 0..N /\ L[0] = Empty
      /\ \A n \in 1..N : L[n] = Joins(n, L[n - 1]) /\ n - 1 \in 0..N /\ n \in 0..N
  BY <1>0, <1>4
<1>6. \A n \in 0..N : L[n] \in Shape
  <2> DEFINE Bad == {n \in 0..N : L[n] \notin Shape}
  <2>1. SUFFICES ASSUME Bad # {} PROVE FALSE
    OBVIOUS
  <2>2. Bad \in SUBSET Nat
    OBVIOUS
  <2>3. PICK d \in Bad : \A j \in Bad : d <= j
    BY <2>1, <2>2, Least
  <2>4. d # 0 /\ d \in 1..N
    BY <1>0, <1>5, <2>3
  <2>5. d - 1 \in 0..N /\ ~(d <= d - 1)
    BY <1>0, <2>4
  <2>6. L[d - 1] \in Shape
    BY <2>3, <2>5
  <2>7. L[d] \in Shape
    BY <1>5, <2>4, <2>6, JoinsIs DEF N
  <2> QED
    BY <2>3, <2>7
<1>7. L \in [0..N -> Shape]
  BY <1>4, <1>5, <1>6
<1> QED
  BY <1>1, <1>5, <1>7 DEF N

\* Only categories have children, as far as the saved tree was built.
Sorted(K) ==
  \A p \in Nodes : K[p] # << >> => p = Root \/ (p \in DOMAIN Start /\ Start[p].kind = "category")

LEMMA LoadedTree == Tree(Loaded, Len(Start)) /\ Sorted(Loaded)
<1> DEFINE N == Len(Start)
<1>1. PICK f \in [0..N -> Shape] :
        /\ f[0] = Empty /\ \A n \in 1..N : f[n] = Joins(n, f[n - 1])
        /\ Loaded = f[N]
  BY LoadedIs
<1>0. /\ N \in Nat /\ N <= MaxItems /\ MaxItems \in Nat /\ DOMAIN Start = 1..N
      /\ \A n \in 1..N :
           /\ Start[n].up \in Nodes /\ Start[n].up < n /\ n \in Items
           /\ Start[n].up = Root \/ Start[Start[n].up].kind = "category"
  BY StartIs, NodesAre DEF Items
<1> HIDE DEF N
<1>2. Tree(f[0], 0) /\ Sorted(f[0])
  <2>empty. \A p \in Nodes : Empty[p] = << >> /\ Empty \in Shape
    BY DEF Empty, Shape
  <2>single. IsInjective(<< >>)
    BY DEF IsInjective
  <2>alone. Alone(Empty)
    BY <2>empty, EmptyHasNone DEF Alone
  <2>acyclic. Acyclic(Empty)
    BY <2>empty, EmptyHasNone, NodesAre DEF Acyclic
  <2>shape. Empty \in Shape
    BY <2>empty, NodesAre
  <2> QED
    BY <1>1, <2>empty, <2>single, <2>alone, <2>acyclic, <2>shape, EmptyHasNone DEF Tree, Sorted
<1>3. ASSUME NEW n \in 1..N, Tree(f[n - 1], n - 1), Sorted(f[n - 1])
      PROVE  Tree(f[n], n) /\ Sorted(f[n])
  <2> DEFINE K == f[n - 1]
             p == Start[n].up
             m == n - 1
  <2>1. /\ m \in Nat /\ m + 1 = n /\ n \in Items /\ p \in Nodes /\ p <= m /\ K \in Shape
        /\ p \in Nat /\ f[n] = Joins(n, K)
        /\ p = Root \/ (p \in DOMAIN Start /\ Start[p].kind = "category")
    <3>1. n \in Nat /\ n >= 1 /\ n <= N
      BY <1>0
    <3>2. /\ p \in Nodes /\ p < n /\ n \in Items /\ p \in Nat
          /\ p = Root \/ Start[p].kind = "category"
      BY <1>0, NodesAre
    <3>3. p = Root \/ p \in 1..N
      BY <1>0, <3>1, <3>2 DEF Root
    <3>4. m \in 0..N /\ m \in Nat /\ m + 1 = n /\ p <= m
      BY <1>0, <3>1, <3>2
    <3>5. K \in Shape
      BY <1>1, <3>4
    <3>6. f[n] = Joins(n, K)
      BY <1>1
    <3>7. p = Root \/ (p \in DOMAIN Start /\ Start[p].kind = "category")
      BY <1>0, <3>2, <3>3
    <3> HIDE DEF K, p, m
    <3> QED
      BY <3>2, <3>4, <3>5, <3>6, <3>7
  <2>2. /\ f[n] = With(K, p, Len(K[p]) + 1, n) /\ Len(K[p]) + 1 \in Nat
        /\ \A q \in Nodes : q # p => f[n][q] = K[q]
    BY <2>1, JoinsIs DEF N
  <2>3. Tree(K, m) /\ Sorted(K)
    BY <1>3
  <2> HIDE DEF K, p, m
  <2>4. Tree(With(K, p, Len(K[p]) + 1, m + 1), m + 1)
    BY <2>1, <2>2, <2>3, InsertTree
  <2>5. Sorted(f[n])
    BY <2>1, <2>2, <2>3 DEF Sorted
  <2> QED
    BY <2>1, <2>2, <2>4, <2>5
<1>4. \A n \in 0..N : Tree(f[n], n) /\ Sorted(f[n])
  <2> DEFINE Bad == {n \in 0..N : ~(Tree(f[n], n) /\ Sorted(f[n]))}
  <2>1. SUFFICES ASSUME Bad # {} PROVE FALSE
    OBVIOUS
  <2>2. Bad \in SUBSET Nat
    OBVIOUS
  <2>3. PICK d \in Bad : \A j \in Bad : d <= j
    BY <2>1, <2>2, Least
  <2>4. d # 0 /\ d \in 1..N
    BY <1>0, <1>2, <2>3
  <2>5. d - 1 \in 0..N /\ ~(d <= d - 1)
    BY <1>0, <2>4
  <2>6. Tree(f[d - 1], d - 1) /\ Sorted(f[d - 1])
    BY <2>3, <2>5
  <2>7. Tree(f[d], d) /\ Sorted(f[d])
    BY <1>3, <2>4, <2>6
  <2> QED
    BY <2>3, <2>7
<1>5. N \in 0..N
  BY <1>0
<1> QED
  BY <1>1, <1>4, <1>5 DEF N

LEMMA FavInit ==
  ASSUME Init
  PROVE  FavInv
<1>1. /\ made = Len(Start) /\ kids = Loaded
      /\ kind = [n \in Nodes |-> IF n \in DOMAIN Start THEN Start[n].kind ELSE "category"]
      /\ text = [i \in Items |-> Blank] /\ cur = [v \in Views |-> Root] /\ shown = Blank
  BY DEF Init
<1>2. /\ copied = [v \in Views |-> << >>] /\ cut = [v \in Views |-> << >>]
      /\ todo = << >> /\ frame = << >> /\ app = "running" /\ edits = 0
      /\ before = {} /\ doomed = {} /\ topDown = TRUE
  BY DEF Init
<1>3. Core
  <2>tree. Tree(kids, made) /\ made \in 0..MaxItems
    BY <1>1, LoadedTree, StartIs, NodesAre
  <2>kinds. kind \in [Nodes -> Kinds] /\ kind[Root] = "category"
    BY <1>1, StartIs, NodesAre DEF Kinds, Items, Root
  <2>bare. Bare(kids, kind)
    BY <1>1, <2>kinds, LoadedTree DEF Sorted, Bare
  <2>texts. text \in [Items -> Texts] /\ shown \in Texts
    BY <1>1, FavoritesAssumption
  <2>current. cur \in [Views -> InTree \cup {Root}]
    BY <1>1
  <2> QED
    BY <2>tree, <2>kinds, <2>bare, <2>texts, <2>current DEF Core
<1>4. Rest
  <2>1. Clips
    BY <1>2 DEF Clips
  <2>2. edits \in 0..MaxEdits
    BY <1>2, FavoritesAssumption
  <2> QED
    BY <1>2, <2>1, <2>2 DEF Rest, Aims, Frames
<1>5. TodoOK
  BY <1>2 DEF TodoOK, Pasting
<1> QED
  BY <1>3, <1>4, <1>5 DEF FavInv

LEMMA FavIs ==
  ASSUME FavInv
  PROVE  TreeSound
<1>1. /\ kids \in Shape /\ Alone(kids) /\ Acyclic(kids) /\ \A p \in Nodes : IsInjective(kids[p])
  BY CoreIs DEF FavInv
<1>2. TypeOK
  <2>1. kids \in [Nodes -> Seq(Items)]
    BY <1>1 DEF Shape
  <2>2. cur \in [Views -> Nodes]
    BY CoreIs DEF FavInv, Core
  <2> QED
    BY <2>1, <2>2 DEF TypeOK, FavInv, Core, Rest, TodoOK, Aims, Clips, Frames
<1>3. Once
  <2>1. ASSUME NEW i \in Items PROVE Cardinality(Parents(kids, i)) <= 1
    <3>1. CASE Attached(kids, i)
      <4>1. Parents(kids, i) = {ParentOf(kids, i)}
        BY <1>1, <3>1, AttachedIs, ParentIs
      <4> QED
        BY <4>1, FS_Singleton
    <3>2. CASE ~Attached(kids, i)
      BY <3>2, FS_EmptySet DEF Attached
    <3> QED
      BY <3>1, <3>2
  <2> QED
    BY <1>1, <2>1 DEF Once
<1>4. LeavesAreBare
  BY NodesAre DEF LeavesAreBare, IsXml, FavInv, Core, Bare
<1>5. NoLoop
  BY <1>1, NotBelowItself DEF NoLoop
<1>6. CurrentInTree
  BY CoreIs DEF CurrentInTree, FavInv
<1> QED
  BY <1>2, <1>3, <1>4, <1>5, <1>6 DEF TreeSound

LEMMA FavNext ==
  ASSUME FavInv, [Next]_vars
  PROVE  FavInv' /\ OthersReadSame
<1>1. CASE Next
  BY <1>1, FavStep
<1>2. CASE UNCHANGED vars
  <2>1. FavInv' = FavInv
    BY <1>2 DEF vars, FavInv, Core, InTree, Rest, Aims, Clips, Frames, TodoOK, Pasting,
                Importing, Dragging
  <2>2. OthersReadSame
    BY <1>2 DEF vars, OthersReadSame
  <2> QED
    BY <2>1, <2>2
<1> QED
  BY <1>1, <1>2

-----------------------------------------------------------------------------
(* A selection is removed, row by row                                       *)

\* The edits s are going to take item o away.
Awaits(K, s, o) ==
  \E n \in 1..Len(s) : s[n].op = "remove" /\ (o = s[n].item \/ o \in Below(K, s[n].item))

\* Of the items B that were there, those of D are gone or about to go; rows are
\* up to date, and taking one away moves none that is still to go.
Awaited(K, s, B, D) ==
  /\ \A o \in B : o \in Below(K, Root) <=> o \notin D \/ Awaits(K, s, o)
  /\ \A o : Awaits(K, s, o) => o \in D
Accurately(K, s) ==
  \A n \in 1..Len(s) : s[n].op = "remove" =>
    s[n].item \in Below(K, Root) /\ s[n].row = RowOf(K, s[n].item)
BottomUp(K, s) ==
  \A m, n \in 1..Len(s) : m < n /\ s[n].op = "remove" =>
    /\ s[m].op = "remove" /\ s[n].item \notin Below(K, s[m].item)
    /\ ParentOf(K, s[m].item) = ParentOf(K, s[n].item) => s[n].row < s[m].row
Onward(K, s, B, D) == Awaited(K, s, B, D) /\ Accurately(K, s) /\ BottomUp(K, s)

LEMMA RemoveOnward ==
  ASSUME NEW m \in Nat, NEW K, Tree(K, m), NEW s \in Seq(Edit), s # << >>,
         Head(s).op = "remove", NEW B, NEW D, Onward(K, s, B, D),
         NEW p, p = ParentOf(K, Head(s).item), NEW row, row = Head(s).row
  PROVE  /\ row < Len(K[p])
         /\ Onward(Without(K, p, row), Tail(s), B, D)
<1> DEFINE x == s[1].item
           J == Without(K, p, row)
           t == Tail(s)
<1>0. /\ K \in Shape /\ Alone(K) /\ Acyclic(K) /\ \A q \in Nodes : IsInjective(K[q])
  BY DEF Tree
<1>1. /\ Len(s) \in Nat /\ Len(s) >= 1 /\ 1 \in 1..Len(s) /\ Head(s) = s[1]
      /\ Tail(s) \in Seq(Edit) /\ Len(Tail(s)) = Len(s) - 1
      /\ \A n \in 1..(Len(s) - 1) : Tail(s)[n] = s[n + 1] /\ n + 1 \in 1..Len(s)
  BY TailIs
<1>2. s[1].op = "remove" /\ x \in Below(K, Root) /\ row = RowOf(K, x) /\ p = ParentOf(K, x)
  BY <1>1 DEF Onward, Accurately
<1>3. x \in Items /\ p \in Nodes /\ x \in ToSet(K[p])
  <2>1. /\ x \in Items /\ p \in Below(K, Root) \cup {Root} /\ x \in ToSet(K[p])
    BY <1>0, <1>2, InTreeIs
  <2> QED
    BY <1>0, <2>1, BelowIs, NodesAre
<1>4. row \in Nat /\ row < Len(K[p]) /\ K[p][row + 1] = x
  BY <1>0, <1>2, <1>3, ParentIs
<1>5. Shed(K, J, p, x)
  <2> HIDE DEF x
  <2>1. Shed(K, Without(K, p, row), p, K[p][row + 1])
    BY <1>0, <1>3, <1>4, WithoutIs
  <2> QED
    BY <1>4, <2>1
<1>6. J \in Shape /\ Alone(J)
  <2>1. Tree(J, m)
    BY <1>3, <1>5, ShedTree
  <2> QED
    BY <2>1 DEF Tree
<1> HIDE DEF x, J, t
<1>7. ASSUME NEW n \in Nodes, n # x, n \notin Below(K, x)
      PROVE  \A o : o \in Below(J, n) <=> o \in Below(K, n) /\ o # x /\ o \notin Below(K, x)
  BY <1>3, <1>5, <1>7, ShedBelow
<1>8. Root # x /\ Root \notin Below(K, x) /\ Root \in Nodes
  BY <1>0, <1>3, BelowIs, NodesAre
\* what is left of the edits
<1>9. ASSUME NEW n \in 1..Len(t), t[n].op = "remove"
      PROVE  /\ n + 1 \in 1..Len(s) /\ t[n] = s[n + 1]
             /\ t[n].item \in Below(K, Root) /\ t[n].item \in Items /\ t[n].item \in Nodes
             /\ t[n].row = RowOf(K, t[n].item)
             /\ t[n].item \notin Below(K, x)
             /\ p = ParentOf(K, t[n].item) => t[n].row < row
             /\ t[n].item # x
  <2> DEFINE y == t[n].item
  <2>1. t[n] = s[n + 1] /\ n + 1 \in 1..Len(s) /\ 1 < n + 1
    BY <1>1 DEF t
  <2>2. s[n + 1].op = "remove" /\ y = s[n + 1].item
    BY <1>9, <2>1
  <2>3. y \in Below(K, Root) /\ t[n].row = RowOf(K, y)
    BY <2>1, <2>2 DEF Onward, Accurately
  <2>4. /\ y \notin Below(K, x)
        /\ ParentOf(K, x) = ParentOf(K, y) => t[n].row < s[1].row
    BY <1>1, <2>1, <2>2 DEF Onward, BottomUp, x
  <2>5. y \in Items
    BY <1>0, <2>3, InTreeIs
  <2>6. s[1].row = row
    BY <1>1
  <2>7. y # x
    BY <1>2, <1>4, <2>3, <2>4, <2>6
  <2> HIDE DEF y
  <2> QED
    BY <1>2, <2>1, <2>3, <2>4, <2>5, <2>6, <2>7, NodesAre DEF y
<1>10. \A o : Awaits(J, t, o) <=> Awaits(K, s, o) /\ o # x /\ o \notin Below(K, x)
  <2> TAKE o
  <2>1. ASSUME Awaits(J, t, o)
        PROVE  Awaits(K, s, o) /\ o # x /\ o \notin Below(K, x)
    <3>1. PICK n \in 1..Len(t) : t[n].op = "remove" /\ (o = t[n].item \/ o \in Below(J, t[n].item))
      BY <2>1 DEF Awaits
    <3>2. /\ n + 1 \in 1..Len(s) /\ t[n] = s[n + 1] /\ t[n].item \in Nodes
          /\ t[n].item \notin Below(K, x) /\ t[n].item # x
      BY <1>9, <3>1
    <3>3. (o = t[n].item \/ o \in Below(K, t[n].item)) /\ o # x /\ o \notin Below(K, x)
      BY <1>7, <3>1, <3>2
    <3> QED
      BY <3>1, <3>2, <3>3 DEF Awaits
  <2>2. ASSUME Awaits(K, s, o), o # x, o \notin Below(K, x)
        PROVE  Awaits(J, t, o)
    <3>1. PICK k \in 1..Len(s) : s[k].op = "remove" /\ (o = s[k].item \/ o \in Below(K, s[k].item))
      BY <2>2 DEF Awaits
    <3>2. k # 1
      BY <2>2, <3>1 DEF x
    <3>3. k - 1 \in 1..Len(t) /\ t[k - 1] = s[k]
      <4>1. k - 1 \in 1..(Len(s) - 1) /\ (k - 1) + 1 = k
        BY <1>1, <3>2
      <4> QED
        BY <1>1, <4>1 DEF t
    <3>4. /\ t[k - 1].op = "remove" /\ t[k - 1].item \in Nodes
          /\ t[k - 1].item \notin Below(K, x) /\ t[k - 1].item # x
      BY <1>9, <3>1, <3>3
    <3>5. o = t[k - 1].item \/ o \in Below(J, t[k - 1].item)
      BY <1>7, <2>2, <3>1, <3>3, <3>4
    <3> QED
      BY <3>3, <3>4, <3>5 DEF Awaits
  <2> QED
    BY <2>1, <2>2
<1>11. Awaited(J, t, B, D)
  <2>1. /\ \A o \in B : o \in Below(K, Root) <=> o \notin D \/ Awaits(K, s, o)
        /\ \A o : Awaits(K, s, o) => o \in D
    BY DEF Onward, Awaited
  <2>2. \A o : o = x \/ o \in Below(K, x) => Awaits(K, s, o)
    BY <1>1, <1>2 DEF Awaits, x
  <2>3. \A o : o \in Below(J, Root) <=> o \in Below(K, Root) /\ o # x /\ o \notin Below(K, x)
    BY <1>7, <1>8
  <2> QED
    BY <1>10, <2>1, <2>2, <2>3 DEF Awaited
\* the rows
<1>12. ASSUME NEW n \in 1..Len(t), t[n].op = "remove"
       PROVE  /\ t[n].item \in Below(J, Root)
              /\ ParentOf(J, t[n].item) = ParentOf(K, t[n].item)
              /\ RowOf(J, t[n].item) = RowOf(K, t[n].item)
  <2> DEFINE y == t[n].item
             q == ParentOf(K, y)
  <2>1. /\ y \in Below(K, Root) /\ t[n].row = RowOf(K, y) /\ y \notin Below(K, x)
        /\ p = q => t[n].row < row
        /\ y # x
    BY <1>9, <1>12
  <2> HIDE DEF y
  <2>2. y \in ToSet(K[q]) /\ q \in Nodes
    BY <1>0, <2>1, InTreeIs, BelowIs, NodesAre
  <2> HIDE DEF q
  <2>3. ParentOf(J, y) = q /\ RowOf(J, y) = RowOf(K, y)
    BY <1>3, <1>4, <2>1, <2>2, RowStays DEF J
  <2>4. y \in Below(J, Root)
    BY <1>7, <1>8, <2>1
  <2> QED
    BY <2>3, <2>4 DEF y, q
<1>13. Accurately(J, t)
  BY <1>9, <1>12 DEF Accurately
<1>14. BottomUp(J, t)
  <2>1. ASSUME NEW a \in 1..Len(t), NEW b \in 1..Len(t), a < b, t[b].op = "remove"
        PROVE  /\ t[a].op = "remove" /\ t[b].item \notin Below(J, t[a].item)
               /\ ParentOf(J, t[a].item) = ParentOf(J, t[b].item) => t[b].row < t[a].row
    <3>1. /\ a + 1 \in 1..Len(s) /\ b + 1 \in 1..Len(s) /\ a + 1 < b + 1
          /\ t[a] = s[a + 1] /\ t[b] = s[b + 1]
      BY <1>1, <2>1 DEF t
    <3>2. /\ t[a].op = "remove" /\ t[b].item \notin Below(K, t[a].item)
          /\ ParentOf(K, t[a].item) = ParentOf(K, t[b].item) => t[b].row < t[a].row
      BY <2>1, <3>1 DEF Onward, BottomUp
    <3>3. t[a].item \in Nodes /\ t[a].item # x /\ t[a].item \notin Below(K, x)
      BY <1>9, <3>2
    <3>4. t[b].item \notin Below(J, t[a].item)
      BY <1>7, <3>2, <3>3
    <3>5. /\ ParentOf(J, t[a].item) = ParentOf(K, t[a].item)
          /\ ParentOf(J, t[b].item) = ParentOf(K, t[b].item)
      BY <1>12, <2>1, <3>2
    <3> QED
      BY <3>2, <3>4, <3>5
  <2> QED
    BY <2>1 DEF BottomUp
<1>15. Onward(J, t, B, D)
  BY <1>11, <1>13, <1>14 DEF Onward
<1> QED
  BY <1>4, <1>15 DEF J, t

\* When the first edit removes nothing, none does, and the items that were there
\* have to stay.
LEMMA OtherOnward ==
  ASSUME NEW K, NEW s \in Seq(Edit), s # << >>, Head(s).op # "remove", NEW B, NEW D,
         Onward(K, s, B, D), NEW J, \A o \in B : o \in Below(J, Root) <=> o \in Below(K, Root)
  PROVE  Onward(J, Tail(s), B, D)
<1>1. /\ Len(s) \in Nat /\ 1 \in 1..Len(s) /\ Head(s) = s[1] /\ Len(Tail(s)) = Len(s) - 1
      /\ \A n \in 1..(Len(s) - 1) : Tail(s)[n] = s[n + 1] /\ n + 1 \in 1..Len(s)
  BY TailIs
<1>2. \A n \in 1..Len(s) : s[n].op # "remove"
  <2> SUFFICES ASSUME NEW n \in 1..Len(s), s[n].op = "remove" PROVE FALSE
    OBVIOUS
  <2>1. n # 1
    BY <1>1
  <2>2. 1 < n
    BY <1>1, <2>1
  <2>3. s[1].op = "remove"
    BY <1>1, <2>2 DEF Onward, BottomUp
  <2> QED
    BY <1>1, <2>3
<1>3. \A n \in 1..Len(Tail(s)) : Tail(s)[n].op # "remove"
  BY <1>1, <1>2
<1>4. \A o : ~Awaits(K, s, o) /\ ~Awaits(J, Tail(s), o)
  BY <1>2, <1>3 DEF Awaits
<1>5. Awaited(J, Tail(s), B, D)
  BY <1>4 DEF Awaited, Onward
<1> QED
  BY <1>3, <1>5 DEF Onward, Accurately, BottomUp

LEMMA OnwardEnd ==
  ASSUME NEW K, NEW s, s = << >>, NEW B, NEW D, Onward(K, s, B, D)
  PROVE  \A o \in B : o \in Below(K, Root) <=> o \notin D
<1>1. \A o : ~Awaits(K, s, o)
  BY DEF Awaits
<1> QED
  BY <1>1 DEF Onward, Awaited

\* What was cut is an XML item, and what the handler began with was made.
CutsAreXml ==
  \A v \in Views : \A n \in 1..Len(cut[v]) :
    kind[cut[v][n].item] = "xml" /\ cut[v][n].item <= made
HandlerInv ==
  /\ FavInv /\ CutsAreXml /\ (\A o \in before : o <= made)
  /\ topDown /\ todo # << >> => Onward(kids, todo, before, doomed)

\* What SelectionHandled says of a step.
SelectionDone == Ends /\ topDown => InTree' \cap before = before \ doomed

LEMMA CutsStay ==
  ASSUME FavInv, CutsAreXml, cut' = cut, made' = made \/ made' = made + 1,
         \A q \in Nodes : q <= made => kind'[q] = kind[q]
  PROVE  CutsAreXml'
<1>1. ASSUME NEW v \in Views, NEW n \in 1..Len(cut[v])
      PROVE  kind'[cut[v][n].item] = "xml" /\ cut[v][n].item <= made'
  <2> DEFINE i == cut[v][n].item
  <2>1. kind[i] = "xml" /\ i <= made
    BY DEF CutsAreXml
  <2>2. i \in Items
    <3>1. cut[v] \in Seq(Index)
      BY DEF FavInv, Rest, Clips
    <3>2. cut[v][n] \in Index
      BY <3>1
    <3> QED
      BY <3>2 DEF Index
  <2>3. i \in Nodes /\ i \in Nat /\ made \in Nat
    BY <2>2, NodesAre, CoreIs DEF FavInv
  <2> HIDE DEF i
  <2>4. kind'[i] = "xml" /\ i <= made'
    BY <2>1, <2>3
  <2> QED
    BY <2>4 DEF i
<1> QED
  BY <1>1 DEF CutsAreXml

LEMMA BeforeStays ==
  ASSUME FavInv, \A o \in before : o <= made, made' = made \/ made' = made + 1,
         before' \in {before, {}}
  PROVE  \A o \in before' : o <= made'
<1>1. made \in Nat /\ \A o \in before : o \in Nat
  BY CoreIs, NodesAre DEF FavInv, Rest, Aims
<1> QED
  BY <1>1

LEMMA LoopOnward ==
  ASSUME FavInv, FavInv', CutsAreXml, \A o \in before : o <= made,
         Next1, todo # << >>, cut' = cut, made' = made \/ made' = made + 1,
         \A q \in Nodes : q <= made => kind'[q] = kind[q],
         topDown => Onward(kids', Tail(todo), before, doomed)
  PROVE  HandlerInv' /\ SelectionDone
<1>1. /\ todo \in Seq(Edit) /\ todo' = Tail(todo) /\ Len(Tail(todo)) = Len(todo) - 1
      /\ Len(todo) \in Nat
  BY TailIs DEF FavInv, TodoOK, Next1
<1>2. before' \in {before, {}}
  BY DEF Next1, aim
<1>3. topDown' /\ todo' # << >> => Onward(kids', todo', before', doomed')
  <2> SUFFICES ASSUME topDown', todo' # << >> PROVE Onward(kids', todo', before', doomed')
    OBVIOUS
  <2>1. Len(todo) # 1
    BY <1>1
  <2>2. before' = before /\ doomed' = doomed /\ topDown' = topDown
    BY <2>1 DEF Next1, aim
  <2> QED
    BY <1>1, <2>2
<1>4. SelectionDone
  <2> SUFFICES ASSUME todo' = << >>, topDown PROVE InTree' \cap before = before \ doomed
    BY DEF SelectionDone, Ends
  <2>1. \A o \in before : o \in Below(kids', Root) <=> o \notin doomed
    BY <1>1, OnwardEnd
  <2>2. InTree' = Below(kids', Root)
    BY DEF InTree
  <2> QED
    BY <2>1, <2>2
<1>5. CutsAreXml' /\ \A o \in before' : o <= made'
  BY <1>2, CutsStay, BeforeStays
<1> QED
  BY <1>3, <1>4, <1>5 DEF HandlerInv

LEMMA RemoveNextOnward ==
  ASSUME HandlerInv, RemoveNext
  PROVE  HandlerInv' /\ SelectionDone
<1> DEFINE e == Head(todo)
           p == ParentOf(kids, e.item)
<1>1. /\ Running("remove") /\ Next1 /\ kind' = kind
      /\ TakeOut(p, e.row) /\ made' = made /\ cut' = cut
  BY DEF RemoveNext, clip
<1>2. FavInv'
  BY RemoveNextStep DEF FavInv, HandlerInv
<1>3. todo # << >> /\ e.op = "remove" /\ todo \in Seq(Edit)
  BY <1>1, LoopIs DEF HandlerInv, FavInv, TodoOK
<1>4. topDown => Onward(kids', Tail(todo), before, doomed)
  <2> SUFFICES ASSUME topDown PROVE Onward(kids', Tail(todo), before, doomed)
    OBVIOUS
  <2>1. made \in Nat /\ Tree(kids, made) /\ Onward(kids, todo, before, doomed)
    BY <1>3, CoreIs DEF HandlerInv, FavInv, Core
  <2>2. e.row < Len(kids[p]) /\ Onward(Without(kids, p, e.row), Tail(todo), before, doomed)
    BY <1>3, <2>1, RemoveOnward
  <2>3. kids' = Without(kids, p, e.row)
    BY <1>1, <2>2, Zenon DEF TakeOut, Without
  <2> QED
    BY <2>2, <2>3
<1> QED
  BY <1>1, <1>2, <1>3, <1>4, LoopOnward DEF HandlerInv

LEMMA RemoveDanglingOnward ==
  ASSUME HandlerInv, RemoveDangling
  PROVE  HandlerInv' /\ SelectionDone
<1>1. /\ Running("remove") /\ Next1 /\ kind' = kind /\ Head(todo).item \notin InTree
      /\ made' = made /\ cut' = cut
  BY DEF RemoveDangling, clip
<1>2. FavInv'
  BY RemoveDanglingStep DEF FavInv, HandlerInv
<1>3. /\ todo # << >> /\ Head(todo).op = "remove" /\ todo \in Seq(Edit)
      /\ Head(todo) = todo[1] /\ 1 \in 1..Len(todo)
  BY <1>1, LoopIs, TailIs DEF HandlerInv, FavInv, TodoOK
<1>4. ~topDown
  <2> SUFFICES ASSUME topDown PROVE FALSE
    OBVIOUS
  <2>1. Accurately(kids, todo)
    BY <1>3 DEF HandlerInv, Onward
  <2>2. Head(todo).item \in Below(kids, Root)
    BY <1>3, <2>1 DEF Accurately
  <2> QED
    BY <1>1, <2>2 DEF InTree
<1> QED
  BY <1>1, <1>2, <1>3, <1>4, LoopOnward DEF HandlerInv

LEMMA AddOnward ==
  ASSUME HandlerInv, FavInv', Next1, todo # << >>, Head(todo).op # "remove", cut' = cut,
         made' = made + 1, InTree \subseteq InTree', Added
  PROVE  HandlerInv' /\ SelectionDone
<1>1. topDown => Onward(kids', Tail(todo), before, doomed)
  <2> SUFFICES ASSUME topDown PROVE Onward(kids', Tail(todo), before, doomed)
    OBVIOUS
  <2>1. Onward(kids, todo, before, doomed) /\ todo \in Seq(Edit)
    BY DEF HandlerInv, FavInv, TodoOK
  <2>2. made \in Nat /\ made + 1 \notin before
    <3>1. made \in Nat /\ ~(made + 1 <= made)
      BY CoreIs DEF HandlerInv, FavInv
    <3> QED
      BY <3>1 DEF HandlerInv
  <2>3. \A o \in before : o \in InTree' <=> o \in InTree
    BY <2>2 DEF Added
  <2>4. InTree' = Below(kids', Root) /\ InTree = Below(kids, Root)
    BY DEF InTree
  <2>5. \A o \in before : o \in Below(kids', Root) <=> o \in Below(kids, Root)
    BY <2>3, <2>4
  <2> QED
    BY <2>1, <2>5, OtherOnward
<1>2. \A q \in Nodes : q <= made => kind'[q] = kind[q]
  BY DEF Added
<1> QED
  BY <1>1, <1>2, LoopOnward DEF HandlerInv

LEMMA LeafNextOnward ==
  ASSUME HandlerInv, LeafNext
  PROVE  HandlerInv' /\ SelectionDone
<1>1. Running("leaf") /\ Next1 /\ cut' = cut
  BY DEF LeafNext, clip
<1>2. FavInv' /\ made' = made + 1 /\ InTree \subseteq InTree' /\ Added
  BY LeafNextStep DEF FavInv, HandlerInv
<1>3. todo # << >> /\ Head(todo).op = "leaf"
  BY <1>1, LoopIs DEF HandlerInv, FavInv
<1> QED
  BY <1>1, <1>2, <1>3, AddOnward

LEMMA ImportNextOnward ==
  ASSUME HandlerInv, ImportNext
  PROVE  HandlerInv' /\ SelectionDone
<1>1. Running("import") /\ Next1 /\ cut' = cut
  BY DEF ImportNext, clip
<1>2. FavInv' /\ made' = made + 1 /\ InTree \subseteq InTree' /\ Added
  BY ImportNextStep DEF FavInv, HandlerInv
<1>3. todo # << >> /\ Head(todo).op = "import"
  BY <1>1, LoopIs DEF HandlerInv, FavInv
<1> QED
  BY <1>1, <1>2, <1>3, AddOnward

LEMMA MoveNextOnward ==
  ASSUME HandlerInv, MoveNext
  PROVE  HandlerInv' /\ SelectionDone
<1>1. Running("move") /\ Next1 /\ kind' = kind /\ made' = made /\ cut' = cut
  BY DEF MoveNext, clip
<1>2. FavInv' /\ InTree' = InTree
  BY MoveNextStep DEF FavInv, HandlerInv
<1>3. todo # << >> /\ Head(todo).op = "move" /\ todo \in Seq(Edit)
  BY <1>1, LoopIs DEF HandlerInv, FavInv, TodoOK
<1>4. topDown => Onward(kids', Tail(todo), before, doomed)
  <2>1. \A o \in before : o \in Below(kids', Root) <=> o \in Below(kids, Root)
    BY <1>2 DEF InTree
  <2> QED
    BY <1>3, <2>1, OtherOnward DEF HandlerInv
<1> QED
  BY <1>1, <1>2, <1>3, <1>4, LoopOnward DEF HandlerInv

\* An operation of the user that leaves nothing to do.
LEMMA AtOnceOnward ==
  ASSUME HandlerInv, FavInv', todo = << >>, todo' = << >>, before' = before, cut' = cut,
         \/ made' = made /\ kind' = kind
         \/ made' = made + 1 /\ Added
  PROVE  HandlerInv' /\ SelectionDone
<1>1. \A q \in Nodes : q <= made => kind'[q] = kind[q]
  BY DEF Added
<1>2. CutsAreXml' /\ \A o \in before' : o <= made'
  BY <1>1, CutsStay, BeforeStays DEF HandlerInv
<1> QED
  BY <1>2 DEF HandlerInv, SelectionDone, Ends

LEMMA TakeOnward ==
  ASSUME HandlerInv, NEW v \in Views, NEW s \in Selections, NEW isCut \in BOOLEAN, Take(v, s, isCut)
  PROVE  HandlerInv' /\ SelectionDone
<1> DEFINE X == {i \in Items : IsXml(i)}
           xs == Only(s, X)
           ixs == IF isCut THEN [n \in DOMAIN xs |-> IndexOf(xs[n])] ELSE << >>
<1>1. /\ todo = << >> /\ todo' = << >> /\ cut' = [cut EXCEPT ![v] = ixs]
      /\ kind' = kind /\ made' = made /\ before' = before
  BY DEF Take, Idle, Same, SameItems, aim
<1>2. FavInv'
  BY TakeStep DEF HandlerInv
<1>3. xs \in Seq(InTree) /\ \A n \in 1..Len(xs) : xs[n] \in X
  <2> HIDE DEF X
  <2> QED
    BY OnlyIs DEF HandlerInv, FavInv
<1> HIDE DEF xs
<1>4. ASSUME NEW n \in 1..Len(ixs)
      PROVE  kind[ixs[n].item] = "xml" /\ ixs[n].item <= made
  <2>1. Len(xs) \in Nat /\ DOMAIN xs = 1..Len(xs)
    BY <1>3
  <2>2. isCut /\ n \in 1..Len(xs)
    BY <2>1
  <2>3. ixs[n].item = xs[n]
    BY <2>1, <2>2 DEF IndexOf
  <2>4. xs[n] \in InTree /\ kind[xs[n]] = "xml"
    BY <1>3, <2>2 DEF IsXml
  <2>5. xs[n] <= made
    BY <2>4, CoreIs DEF HandlerInv, FavInv
  <2> QED
    BY <2>3, <2>4, <2>5
<1> HIDE DEF ixs
<1>5. CutsAreXml'
  <2>1. cut \in [Views -> Seq(Index)]
    BY DEF HandlerInv, FavInv, Rest, Clips
  <2>2. ASSUME NEW w \in Views, NEW n \in 1..Len(cut'[w])
        PROVE  kind'[cut'[w][n].item] = "xml" /\ cut'[w][n].item <= made'
    <3>1. CASE w = v
      <4>1. cut'[w] = ixs
        BY <1>1, <2>1, <3>1
      <4> QED
        BY <1>1, <1>4, <4>1
    <3>2. CASE w # v
      <4>1. cut'[w] = cut[w]
        BY <1>1, <2>1, <3>2
      <4> QED
        BY <1>1, <4>1 DEF HandlerInv, CutsAreXml
    <3> QED
      BY <3>1, <3>2
  <2> QED
    BY <2>2 DEF CutsAreXml
<1> QED
  BY <1>1, <1>2, <1>5 DEF HandlerInv, SelectionDone, Ends

\* A handler that begins, with all items there that it begins with.
LEMMA BeginOnward ==
  ASSUME HandlerInv, FavInv', todo = << >>, kids' = kids, kind' = kind, made' = made,
         before' = InTree, CutsAreXml',
         topDown' => /\ \A o : Awaits(kids, todo', o) <=> o \in doomed'
                     /\ Accurately(kids, todo') /\ BottomUp(kids, todo')
  PROVE  HandlerInv' /\ SelectionDone
<1>1. \A o \in before' : o <= made'
  <2>1. \A o \in InTree : o <= made
    BY CoreIs DEF HandlerInv, FavInv
  <2> QED
    BY <2>1
<1>2. topDown' /\ todo' # << >> => Onward(kids', todo', before', doomed')
  <2> SUFFICES ASSUME topDown' PROVE Onward(kids, todo', InTree, doomed')
    OBVIOUS
  <2>1. Awaited(kids, todo', InTree, doomed')
    <3>1. \A o \in InTree : o \in Below(kids, Root)
      BY DEF InTree
    <3> QED
      BY <3>1 DEF Awaited
  <2> QED
    BY <2>1 DEF Onward
<1> QED
  BY <1>1, <1>2 DEF HandlerInv, SelectionDone, Ends

LEMMA RemovalsOnward ==
  ASSUME Core, NEW s \in Seq(Index), TopDown(s),
         \A n \in 1..Len(s) : s[n].item \in InTree /\ s[n].row = RowOf(kids, s[n].item),
         NEW t \in Seq(Edit), Len(t) >= Len(s),
         \A n \in 1..Len(s) : t[n] = Removals(s)[n],
         \A n \in 1..Len(t) : n > Len(s) => t[n].op # "remove"
  PROVE  /\ Accurately(kids, t) /\ BottomUp(kids, t)
         /\ \A o : Awaits(kids, t, o) <=>
              \E n \in 1..Len(s) : o = s[n].item \/ o \in Below(kids, s[n].item)
<1> DEFINE f(n) == Len(s) - n + 1
<1>1. Len(s) \in Nat /\ DOMAIN s = 1..Len(s) /\ Len(t) \in Nat
  OBVIOUS
<1>2. \A n \in 1..Len(s) : f(n) \in 1..Len(s) /\ f(f(n)) = n /\ n \in 1..Len(t)
  BY <1>1
<1>3. \A m, n \in 1..Len(s) : m < n => f(n) < f(m)
  BY <1>1
<1>4. \A n \in 1..Len(s) : t[n] = Removal(s[f(n)])
  <2>1. \A n \in 1..Len(s) : Reverse(s)[n] = s[f(n)]
    BY <1>1 DEF Reverse
  <2> HIDE DEF f
  <2> QED
    BY <1>1, <2>1 DEF Removals
<1> HIDE DEF f
<1>5. \A n \in 1..Len(s) : /\ t[n].op = "remove" /\ t[n].item = s[f(n)].item
                           /\ t[n].row = s[f(n)].row
  <2>1. \A ix : Removal(ix).op = "remove" /\ Removal(ix).item = ix.item /\ Removal(ix).row = ix.row
    BY DEF Removal
  <2> QED
    BY <1>4, <2>1
<1>6. \A n \in 1..Len(t) : t[n].op = "remove" => n \in 1..Len(s)
  BY <1>1
<1>7. Accurately(kids, t)
  <2>1. ASSUME NEW n \in 1..Len(t), t[n].op = "remove"
        PROVE  t[n].item \in Below(kids, Root) /\ t[n].row = RowOf(kids, t[n].item)
    <3>1. n \in 1..Len(s) /\ f(n) \in 1..Len(s)
      BY <1>2, <1>6, <2>1
    <3> QED
      BY <1>5, <3>1 DEF InTree
  <2> QED
    BY <2>1 DEF Accurately
<1>8. BottomUp(kids, t)
  <2>1. ASSUME NEW m \in 1..Len(t), NEW n \in 1..Len(t), m < n, t[n].op = "remove"
        PROVE  /\ t[m].op = "remove" /\ t[n].item \notin Below(kids, t[m].item)
               /\ ParentOf(kids, t[m].item) = ParentOf(kids, t[n].item) => t[n].row < t[m].row
    <3>1. n \in 1..Len(s) /\ m \in 1..Len(s)
      BY <1>1, <1>6, <2>1
    <3>2. f(n) \in 1..Len(s) /\ f(m) \in 1..Len(s) /\ f(n) < f(m)
      BY <1>2, <1>3, <2>1, <3>1
    <3>3. /\ s[f(n)].item \notin Below(kids, s[f(m)].item)
          /\ ParentOf(kids, s[f(n)].item) = ParentOf(kids, s[f(m)].item) =>
               s[f(n)].row < s[f(m)].row
      BY <1>1, <3>2 DEF TopDown
    <3> QED
      BY <1>5, <3>1, <3>3
  <2> QED
    BY <2>1 DEF BottomUp
<1>9. ASSUME NEW o
      PROVE  Awaits(kids, t, o) <=> \E n \in 1..Len(s) : o = s[n].item \/ o \in Below(kids, s[n].item)
  <2>1. ASSUME Awaits(kids, t, o)
        PROVE  \E n \in 1..Len(s) : o = s[n].item \/ o \in Below(kids, s[n].item)
    <3>1. PICK n \in 1..Len(t) : t[n].op = "remove" /\ (o = t[n].item \/ o \in Below(kids, t[n].item))
      BY <2>1 DEF Awaits
    <3>2. n \in 1..Len(s) /\ f(n) \in 1..Len(s)
      BY <1>2, <1>6, <3>1
    <3> QED
      BY <1>5, <3>1, <3>2
  <2>2. ASSUME NEW n \in 1..Len(s), o = s[n].item \/ o \in Below(kids, s[n].item)
        PROVE  Awaits(kids, t, o)
    <3>1. f(n) \in 1..Len(s) /\ f(f(n)) = n /\ f(n) \in 1..Len(t)
      BY <1>2
    <3>2. t[f(n)].op = "remove" /\ t[f(n)].item = s[n].item
      BY <1>5, <3>1
    <3> QED
      BY <2>2, <3>1, <3>2 DEF Awaits
  <2> QED
    BY <2>1, <2>2
<1> QED
  BY <1>7, <1>8, <1>9

LEMMA DeleteOnward ==
  ASSUME HandlerInv, NEW s \in Selections, Delete(s)
  PROVE  HandlerInv' /\ SelectionDone
<1> DEFINE ixs == [n \in DOMAIN s |-> IndexOf(s[n])]
           D == UNION {{s[n]} \cup Below(kids, s[n]) : n \in DOMAIN s}
<1>1. /\ todo = << >> /\ todo' = Removals(ixs) /\ kids' = kids /\ kind' = kind /\ made' = made
      /\ before' = InTree /\ doomed' = D /\ topDown' = TopDown(ixs) /\ cut' = cut
  BY DEF Delete, Idle, Same, SameItems, Aim, clip
<1>2. FavInv' /\ CutsAreXml'
  <2>1. FavInv'
    BY DeleteStep DEF HandlerInv
  <2> QED
    BY <1>1, <2>1, CutsStay DEF HandlerInv
<1>3. s \in Seq(InTree) /\ Len(s) \in Nat /\ DOMAIN s = 1..Len(s) /\ Core
  BY SelectionIs DEF HandlerInv, FavInv
<1>4. /\ ixs \in Seq(Index) /\ Len(ixs) = Len(s)
      /\ \A n \in 1..Len(s) : ixs[n].item = s[n] /\ ixs[n].row = RowOf(kids, s[n])
  <2>1. \A n \in 1..Len(s) : IndexOf(s[n]) \in Index
    BY <1>3, IndexIs
  <2>2. ixs \in Seq(Index) /\ Len(ixs) = Len(s)
    BY <1>3, <2>1
  <2>3. \A i : IndexOf(i).item = i /\ IndexOf(i).row = RowOf(kids, i)
    BY DEF IndexOf
  <2>4. \A n \in 1..Len(s) : ixs[n] = IndexOf(s[n])
    BY <1>3
  <2> QED
    BY <2>2, <2>3, <2>4
<1>5. \A o : o \in D <=> \E n \in 1..Len(s) : o = s[n] \/ o \in Below(kids, s[n])
  BY <1>3
<1> HIDE DEF ixs, D
<1>6. topDown' => /\ \A o : Awaits(kids, todo', o) <=> o \in doomed'
                  /\ Accurately(kids, todo') /\ BottomUp(kids, todo')
  <2> SUFFICES ASSUME TopDown(ixs)
               PROVE  /\ \A o : Awaits(kids, todo', o) <=> o \in doomed'
                      /\ Accurately(kids, todo') /\ BottomUp(kids, todo')
    BY <1>1
  <2>1. todo' \in Seq(Edit) /\ Len(todo') = Len(ixs) /\ Len(ixs) \in Nat
    BY <1>1, <1>3, <1>4, RemovalsAre
  <2>2. \A n \in 1..Len(ixs) : /\ ixs[n].item \in InTree
                               /\ ixs[n].row = RowOf(kids, ixs[n].item)
    BY <1>3, <1>4
  <2>3. /\ Len(todo') >= Len(ixs) /\ \A n \in 1..Len(ixs) : todo'[n] = Removals(ixs)[n]
        /\ \A n \in 1..Len(todo') : n > Len(ixs) => todo'[n].op # "remove"
    BY <1>1, <2>1
  <2>4. /\ Accurately(kids, todo') /\ BottomUp(kids, todo')
        /\ \A o : Awaits(kids, todo', o) <=>
             \E n \in 1..Len(ixs) : o = ixs[n].item \/ o \in Below(kids, ixs[n].item)
    BY <1>3, <1>4, <2>1, <2>2, <2>3, RemovalsOnward
  <2> QED
    BY <1>1, <1>4, <1>5, <2>4
<1> QED
  BY <1>1, <1>2, <1>6, BeginOnward

\* An XML item has nothing below it.
LEMMA LeafHasNone ==
  ASSUME Core, NEW i \in Items, kind[i] = "xml"
  PROVE  Below(kids, i) = {}
<1>1. kids \in Shape /\ i \in Nodes
  BY CoreIs, NodesAre
<1>2. ToSet(kids[i]) = {}
  BY <1>1, EmptyHasNone DEF Core, Bare
<1>3. {} \in SUBSET Items /\ Covers(kids, i, {})
  BY <1>2 DEF Covers
<1> QED
  BY <1>1, <1>3, BelowIs

LEMMA PasteOnward ==
  ASSUME HandlerInv, NEW v \in Views, NEW c \in Currents(v), Paste(v, c)
  PROVE  HandlerInv' /\ SelectionDone
<1> DEFINE leaves == [n \in DOMAIN copied[v] |->
                        [op |-> "leaf", view |-> v, xml |-> copied[v][n]]]
           D == {ix.item : ix \in ToSet(cut[v])}
           down == Accurate(cut[v]) /\ TopDown(cut[v])
           s == cut[v]
           r == Removals(s)
<1>1. /\ todo = << >> /\ todo' = Cat(r, leaves) /\ kids' = kids /\ kind' = kind /\ made' = made
      /\ before' = InTree /\ doomed' = D /\ topDown' = down
      /\ cut' = [cut EXCEPT ![v] = << >>]
  BY DEF Paste, Idle, SameItems, Aim, Cat
<1>2. FavInv' /\ Core
  BY PasteStep DEF HandlerInv, FavInv
<1>3. copied[v] \in Seq(Texts) /\ s \in Seq(Index) /\ cut \in [Views -> Seq(Index)]
  BY DEF HandlerInv, FavInv, Rest, Clips
<1>4. CutsAreXml'
  <2>1. ASSUME NEW w \in Views, NEW n \in 1..Len(cut'[w])
        PROVE  kind'[cut'[w][n].item] = "xml" /\ cut'[w][n].item <= made'
    <3>1. cut'[w] = cut[w]
      BY <1>1, <1>3
    <3> QED
      BY <1>1, <3>1 DEF HandlerInv, CutsAreXml
  <2> QED
    BY <2>1 DEF CutsAreXml
<1>5. /\ leaves \in Seq(Edit) /\ Len(leaves) \in Nat
      /\ \A n \in 1..Len(leaves) : leaves[n].op = "leaf"
  <2>1. \A n \in DOMAIN copied[v] :
          [op |-> "leaf", view |-> v, xml |-> copied[v][n]] \in Edit
    BY <1>3 DEF Edit
  <2>2. Len(copied[v]) \in Nat /\ DOMAIN copied[v] = 1..Len(copied[v])
    BY <1>3
  <2>3. leaves \in Seq(Edit) /\ Len(leaves) = Len(copied[v])
    BY <2>1, <2>2
  <2>4. \A n \in 1..Len(copied[v]) : leaves[n].op = "leaf"
    BY <2>2
  <2> QED
    BY <2>2, <2>3, <2>4
<1>6. r \in Seq(Edit) /\ Len(r) = Len(s) /\ Len(s) \in Nat /\ DOMAIN s = 1..Len(s)
  BY <1>3, RemovalsAre
<1>7. \A o : o \in D <=> \E n \in 1..Len(s) : o = s[n].item
  <2>1. \A ix : ix \in ToSet(s) <=> \E n \in 1..Len(s) : s[n] = ix
    BY <1>3, SetOf
  <2> QED
    BY <2>1
<1>8. down => TopDown(s) /\ \A n \in 1..Len(s) : s[n].item \in InTree /\ s[n].row = RowOf(kids, s[n].item)
  <2>1. \A i : IndexOf(i).row = RowOf(kids, i)
    BY DEF IndexOf
  <2> QED
    BY <1>6, <2>1 DEF Accurate
<1>9. \A n \in 1..Len(s) : Below(kids, s[n].item) = {}
  <2> SUFFICES ASSUME NEW n \in 1..Len(s) PROVE Below(kids, s[n].item) = {}
    OBVIOUS
  <2>1. s[n] \in Index /\ kind[s[n].item] = "xml"
    BY <1>3 DEF HandlerInv, CutsAreXml
  <2>2. s[n].item \in Items
    BY <2>1 DEF Index
  <2> QED
    BY <1>2, <2>1, <2>2, LeafHasNone
<1> HIDE DEF s, r, D, leaves, down
<1>10. /\ todo' \in Seq(Edit) /\ Len(todo') = Len(r) + Len(leaves)
       /\ \A k \in 1..Len(r) : todo'[k] = r[k]
       /\ \A k \in 1..Len(leaves) : todo'[Len(r) + k] = leaves[k]
  BY <1>1, <1>5, <1>6, EditsJoined
<1>11. /\ Len(todo') >= Len(s) /\ \A n \in 1..Len(s) : todo'[n] = Removals(s)[n]
       /\ \A n \in 1..Len(todo') : n > Len(s) => todo'[n].op # "remove"
  <2>1. Len(todo') >= Len(s) /\ \A n \in 1..Len(s) : todo'[n] = Removals(s)[n]
    BY <1>5, <1>6, <1>10 DEF r
  <2>2. ASSUME NEW n \in 1..Len(todo'), n > Len(s) PROVE todo'[n].op # "remove"
    <3>1. n - Len(r) \in 1..Len(leaves) /\ Len(r) + (n - Len(r)) = n
      BY <1>5, <1>6, <1>10, <2>2
    <3> QED
      BY <1>5, <1>10, <3>1
  <2> QED
    BY <2>1, <2>2
<1>12. topDown' => /\ \A o : Awaits(kids, todo', o) <=> o \in doomed'
                   /\ Accurately(kids, todo') /\ BottomUp(kids, todo')
  <2> SUFFICES ASSUME down
               PROVE  /\ \A o : Awaits(kids, todo', o) <=> o \in doomed'
                      /\ Accurately(kids, todo') /\ BottomUp(kids, todo')
    BY <1>1
  <2>1. s \in Seq(Index)
    BY <1>3 DEF s
  <2>2. /\ Accurately(kids, todo') /\ BottomUp(kids, todo')
        /\ \A o : Awaits(kids, todo', o) <=>
             \E n \in 1..Len(s) : o = s[n].item \/ o \in Below(kids, s[n].item)
    BY <1>2, <1>8, <1>10, <1>11, <2>1, RemovalsOnward
  <2> QED
    BY <1>1, <1>7, <1>9, <2>2
<1> QED
  BY <1>1, <1>2, <1>4, <1>12, BeginOnward

\* A handler that removes nothing.
LEMMA NoneOnward ==
  ASSUME HandlerInv, FavInv', todo = << >>, kids' = kids, kind' = kind, made' = made, cut' = cut,
         Aim({}, TRUE), \A n \in 1..Len(todo') : todo'[n].op # "remove"
  PROVE  HandlerInv' /\ SelectionDone
<1>1. before' = InTree /\ doomed' = {}
  BY DEF Aim
<1>2. CutsAreXml'
  BY CutsStay DEF HandlerInv
<1>3. /\ \A o : Awaits(kids, todo', o) <=> o \in doomed'
      /\ Accurately(kids, todo') /\ BottomUp(kids, todo')
  BY <1>1 DEF Awaits, Accurately, BottomUp
<1> QED
  BY <1>1, <1>2, <1>3, BeginOnward

LEMMA DropOnward ==
  ASSUME HandlerInv, NEW s \in Selections, NEW t \in InTree \cup {Root},
         NEW expanded \in BOOLEAN, Drop(s, t, expanded)
  PROVE  HandlerInv' /\ SelectionDone
<1>1. /\ todo = << >> /\ kids' = kids /\ kind' = kind /\ made' = made /\ cut' = cut
      /\ Aim({}, TRUE)
  BY DEF Drop, Idle, Same, SameItems, clip
<1>2. FavInv'
  BY DropStep DEF HandlerInv
<1> DEFINE real == Only(s, {i \in InTree : ParentOf(kids, i) \notin ToSet(s)})
<1>3. \E dest, row : todo' = [n \in DOMAIN real |-> [op |-> "move", item |-> real[n],
                                                      dest |-> dest, row |-> row + n - 1]]
  BY DEF Drop
<1>4. real \in Seq(InTree)
  BY OnlyIs DEF HandlerInv, FavInv
<1> HIDE DEF real
<1>5. \A n \in 1..Len(todo') : todo'[n].op # "remove"
  <2>1. Len(real) \in Nat /\ DOMAIN real = 1..Len(real)
    BY <1>4
  <2> QED
    BY <1>3, <2>1
<1> QED
  BY <1>1, <1>2, <1>5, NoneOnward

LEMMA ImportOnward ==
  ASSUME HandlerInv, NEW f \in Files, NEW c \in InTree \cup {Root}, Import(f, c)
  PROVE  HandlerInv' /\ SelectionDone
<1>1. /\ todo = << >> /\ kids' = kids /\ kind' = kind /\ made' = made /\ cut' = cut
      /\ Aim({}, TRUE)
      /\ todo' = [n \in DOMAIN f |-> [op |-> "import", kind |-> f[n].kind, depth |-> f[n].depth]]
  BY DEF Import, Idle, SameItems, clip
<1>2. FavInv'
  BY ImportStep DEF HandlerInv
<1>3. Len(f) \in Nat /\ DOMAIN f = 1..Len(f)
  BY FavoritesAssumption
<1>4. \A n \in 1..Len(todo') : todo'[n].op # "remove"
  BY <1>1, <1>3
<1> QED
  BY <1>1, <1>2, <1>4, NoneOnward

LEMMA SelectOnward ==
  ASSUME HandlerInv, NEW i \in InTree, Select(i)
  PROVE  HandlerInv' /\ SelectionDone
<1>1. /\ todo = << >> /\ todo' = << >> /\ kind' = kind /\ made' = made
      /\ before' = before /\ cut' = cut
  BY DEF Select, Idle, aim, clip
<1>2. FavInv'
  BY SelectStep DEF HandlerInv
<1> QED
  BY <1>1, <1>2, AtOnceOnward

LEMMA TypeOnward ==
  ASSUME HandlerInv, NEW t \in Texts, Type(t)
  PROVE  HandlerInv' /\ SelectionDone
<1>1. /\ todo = << >> /\ todo' = << >> /\ kind' = kind /\ made' = made
      /\ before' = before /\ cut' = cut
  BY DEF Type, Idle, aim, clip
<1>2. FavInv'
  BY TypeStep DEF HandlerInv
<1> QED
  BY <1>1, <1>2, AtOnceOnward

LEMMA CloseEditorOnward ==
  ASSUME HandlerInv, CloseEditor
  PROVE  HandlerInv' /\ SelectionDone
<1>1. /\ todo = << >> /\ todo' = << >> /\ kind' = kind /\ made' = made
      /\ before' = before /\ cut' = cut
  BY DEF CloseEditor, Idle, aim, clip
<1>2. FavInv'
  BY CloseEditorStep DEF HandlerInv
<1> QED
  BY <1>1, <1>2, AtOnceOnward

LEMMA EditXmlOnward ==
  ASSUME HandlerInv, NEW i \in InTree, NEW t \in Texts, EditXml(i, t)
  PROVE  HandlerInv' /\ SelectionDone
<1>1. /\ todo = << >> /\ todo' = << >> /\ kind' = kind /\ made' = made
      /\ before' = before /\ cut' = cut
  BY DEF EditXml, Idle, aim, clip
<1>2. FavInv'
  BY EditXmlStep DEF HandlerInv
<1> QED
  BY <1>1, <1>2, AtOnceOnward

LEMMA NewXmlOnward ==
  ASSUME HandlerInv, NEW v \in Views, NEW c \in Currents(v), NewXml(v, c)
  PROVE  HandlerInv' /\ SelectionDone
<1>1. /\ todo = << >> /\ todo' = << >> /\ before' = before /\ cut' = cut
      /\ Room(1) /\ InsertLeaf(v, c, Blank)
  BY DEF NewXml, Idle, aim, clip
<1>2. FavInv' /\ Core
  BY NewXmlStep DEF HandlerInv, FavInv
<1>3. made' = made + 1 /\ Added
  BY <1>1, <1>2, CurrentsAre, RoomIs, LeafStep, FavoritesAssumption
<1> QED
  BY <1>1, <1>2, <1>3, AtOnceOnward

LEMMA NewCategoryOnward ==
  ASSUME HandlerInv, NEW v \in Views, NEW c \in Currents(v), NEW toSub, NewCategory(v, c, toSub)
  PROVE  HandlerInv' /\ SelectionDone
<1>1. /\ todo = << >> /\ todo' = << >> /\ before' = before /\ cut' = cut
      /\ Room(1) /\ InsertCategory(v, c, toSub)
  BY DEF NewCategory, Idle, aim, clip
<1>2. FavInv' /\ Core
  BY NewCategoryStep DEF HandlerInv, FavInv
<1>3. made' = made + 1 /\ Added
  BY <1>1, <1>2, CurrentsAre, RoomIs, CategoryStep, FavoritesAssumption
<1> QED
  BY <1>1, <1>2, <1>3, AtOnceOnward

LEMMA AddFavoriteOnward ==
  ASSUME HandlerInv, NEW c \in InTree \cup {Root}, NEW t \in Texts, AddFavorite(c, t)
  PROVE  HandlerInv' /\ SelectionDone
<1>1. /\ todo = << >> /\ todo' = << >> /\ before' = before /\ cut' = cut
      /\ Room(1) /\ InsertLeaf("dialog", c, t)
  BY DEF AddFavorite, Idle, aim, clip
<1>2. FavInv' /\ Core
  BY AddFavoriteStep DEF HandlerInv, FavInv
<1>3. made' = made + 1 /\ Added
  BY <1>1, <1>2, RoomIs, LeafStep
<1> QED
  BY <1>1, <1>2, <1>3, AtOnceOnward

LEMMA OnwardStep ==
  ASSUME HandlerInv, Next
  PROVE  HandlerInv' /\ SelectionDone
<1>1. CASE RemoveNext
  BY <1>1, RemoveNextOnward
<1>2. CASE RemoveDangling
  BY <1>2, RemoveDanglingOnward
<1>3. CASE LeafNext
  BY <1>3, LeafNextOnward
<1>4. CASE MoveNext
  BY <1>4, MoveNextOnward
<1>5. CASE ImportNext
  BY <1>5, ImportNextOnward
<1>6. ASSUME NEW v \in Views, NEW c \in Currents(v), NewXml(v, c)
      PROVE  HandlerInv' /\ SelectionDone
  BY <1>6, NewXmlOnward
<1>7. ASSUME NEW v \in Views, NEW c \in Currents(v), NEW toSub, NewCategory(v, c, toSub)
      PROVE  HandlerInv' /\ SelectionDone
  BY <1>7, NewCategoryOnward
<1>8. ASSUME NEW v \in Views, NEW c \in Currents(v), Paste(v, c)
      PROVE  HandlerInv' /\ SelectionDone
  BY <1>8, PasteOnward
<1>9. ASSUME NEW v \in Views, NEW s \in Selections, Cut(v, s) \/ Copy(v, s)
      PROVE  HandlerInv' /\ SelectionDone
  BY <1>9, TakeOnward DEF Cut, Copy
<1>10. ASSUME NEW t \in Texts, Type(t)
       PROVE  HandlerInv' /\ SelectionDone
  BY <1>10, TypeOnward
<1>11. ASSUME NEW t \in Texts, NEW i \in InTree, EditXml(i, t)
       PROVE  HandlerInv' /\ SelectionDone
  BY <1>11, EditXmlOnward
<1>12. ASSUME NEW t \in Texts, NEW c \in InTree \cup {Root}, AddFavorite(c, t)
       PROVE  HandlerInv' /\ SelectionDone
  BY <1>12, AddFavoriteOnward
<1>13. ASSUME NEW i \in InTree, Select(i)
       PROVE  HandlerInv' /\ SelectionDone
  BY <1>13, SelectOnward
<1>14. CASE CloseEditor
  BY <1>14, CloseEditorOnward
<1>15. ASSUME NEW s \in Selections, Delete(s)
       PROVE  HandlerInv' /\ SelectionDone
  BY <1>15, DeleteOnward
<1>16. ASSUME NEW s \in Selections, NEW t \in InTree \cup {Root}, NEW b \in BOOLEAN,
              Drop(s, t, b)
       PROVE  HandlerInv' /\ SelectionDone
  BY <1>16, DropOnward
<1>17. ASSUME NEW f \in Files, NEW c \in InTree \cup {Root}, Import(f, c)
       PROVE  HandlerInv' /\ SelectionDone
  BY <1>17, ImportOnward
<1> QED
  BY <1>1, <1>2, <1>3, <1>4, <1>5, <1>6, <1>7, <1>8, <1>9, <1>10, <1>11, <1>12, <1>13,
     <1>14, <1>15, <1>16, <1>17, Zenon DEF Next, Loop, User

LEMMA OnwardInit ==
  ASSUME Init
  PROVE  HandlerInv
<1>1. cut = [v \in Views |-> << >>] /\ before = {} /\ todo = << >>
  BY DEF Init
<1>2. CutsAreXml
  BY <1>1 DEF CutsAreXml
<1> QED
  BY <1>1, <1>2, FavInit DEF HandlerInv

LEMMA OnwardNext ==
  ASSUME HandlerInv, [Next]_vars
  PROVE  HandlerInv' /\ (SelectionDone \/ UNCHANGED vars)
<1>1. CASE Next
  BY <1>1, OnwardStep
<1>2. CASE UNCHANGED vars
  <2>1. FavInv'
    BY <1>2, FavNext DEF HandlerInv
  <2>2. HandlerInv' = HandlerInv
    <3>1. FavInv' = FavInv
      BY <2>1 DEF HandlerInv
    <3>2. CutsAreXml' = CutsAreXml
      BY <1>2 DEF vars, CutsAreXml
    <3> QED
      BY <1>2, <3>1, <3>2 DEF vars, HandlerInv
  <2> QED
    BY <1>2, <2>2
<1> QED
  BY <1>1, <1>2

-----------------------------------------------------------------------------
(* The theorems                                                             *)

(* TreeSound: whatever indexes the handlers use, current or stale, no item *)
(* is listed twice or is below itself, nothing hangs below an XML item,    *)
(* and what a view shows as current is in the tree.                        *)
THEOREM FavoritesStayATree == Spec => []TreeSound
<1>1. Init => FavInv
  BY FavInit
<1>2. FavInv /\ [Next]_vars => FavInv'
  BY FavNext
<1>3. FavInv => TreeSound
  BY FavIs
<1> QED
  BY <1>1, <1>2, <1>3, PTL DEF Spec

(* TextOfOthersKept: only the item that is edited and the one the window   *)
(* has open change their text, the latter only to what the window shows.   *)
THEOREM EditsTouchOneItem == Spec => TextOfOthersKept
<1>1. Init => FavInv
  BY FavInit
<1>2. FavInv /\ [Next]_vars => FavInv'
  BY FavNext
<1>3. FavInv /\ [Next]_vars => OthersReadSame
  BY FavNext
<1> QED
  BY <1>1, <1>2, <1>3, PTL DEF Spec, TextOfOthersKept, OthersReadSame

(* SelectionHandled: a handler that removes rows selected from the top     *)
(* down removes what was selected, with what is below it, and nothing else;*)
(* dragging, inserting and importing lose nothing.                         *)
THEOREM SelectionsAreHandled == Spec => SelectionHandled
<1>1. Init => HandlerInv
  BY OnwardInit
<1>2. HandlerInv /\ [Next]_vars => HandlerInv'
  BY OnwardNext
<1>3. HandlerInv /\ [Next]_vars => SelectionDone \/ UNCHANGED vars
  BY OnwardNext
<1> QED
  BY <1>1, <1>2, <1>3, PTL DEF Spec, SelectionHandled, SelectionDone
=============================================================================
