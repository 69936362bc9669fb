------------------------------ MODULE AppStoreProofs ------------------------------
(***************************************************************************)
(* Proofs that a start of the application finds what its last complete     *)
(* save left (StartShowsLastSave), and that the lists keep to their limits *)
(* and hold nothing twice (ListsKeepTheirLimits), for any commands,        *)
(* sessions, favourites and limits.                                        *)
(*                                                                         *)
(* The second is inductive with what is in the two files added (ListsInv): *)
(* an exported list need only be typed, because an import takes its        *)
(* entries one by one, while setting.json is loaded as it is.              *)
(***************************************************************************)
EXTENDS AppStore, WellFoundedInduction, TLAPS

-----------------------------------------------------------------------------
(* The file and what a start makes of it                                   *)

(* An empty dictionary gives every default.                                *)
LEMMA EmptyGivesDefaults ==
  Restored(Empty) = Defaults /\ NoUi \in UiTypes /\ Default(NoUi["tool_bar"], TRUE) = TRUE
<1>1. NoUi["tool_bar"] = Unset /\ NoUi \in UiTypes
  BY DEF NoUi, Keys, UiTypes
<1>2. Default(NoUi["tool_bar"], TRUE) = TRUE
  BY <1>1 DEF Default
<1> QED
  BY <1>1, <1>2 DEF Restored, Empty, Defaults

LEMMA FileInit == Init => FileTellsExpected
<1> SUFFICES ASSUME Init PROVE FileTellsExpected
  OBVIOUS
<1>1. disk.data = Empty /\ Empty.ui = NoUi /\ ui = NoUi /\ tool = TRUE
  BY DEF Init, Lost, Empty
<1>2. command = settled /\ expected = Defaults /\ file = None
  BY DEF Init
<1> QED
  BY <1>1, <1>2, EmptyGivesDefaults DEF FileTellsExpected

(* A switch that is toggled reads as it was set.                           *)
LEMMA ToolBarToggled ==
  ASSUME FileTellsExpected, ShowToolBar
  PROVE  ui' \in UiTypes /\ tool' = Default(ui'["tool_bar"], TRUE)
<1>1. "tool_bar" \in Keys /\ Unset \notin BOOLEAN
  BY AppStoreAssumption DEF Keys
<1>2. ui["tool_bar"] \in BOOLEAN \cup {Unset}
  BY <1>1 DEF FileTellsExpected, UiTypes
<1>3. tool \in BOOLEAN
  BY <1>2 DEF FileTellsExpected, Default
<1>4. (~tool) \in BOOLEAN
  OBVIOUS
<1>5. ui'["tool_bar"] = ~tool /\ ui' \in UiTypes /\ tool' = ~tool
  BY <1>1, <1>4 DEF ShowToolBar, FileTellsExpected, UiTypes
<1>6. (~tool) # Unset
  BY <1>1, <1>4
<1> QED
  BY <1>5, <1>6 DEF Default

LEMMA StatusBarToggled ==
  ASSUME FileTellsExpected, ShowStatusBar
  PROVE  ui' \in UiTypes /\ ui'["tool_bar"] = ui["tool_bar"]
<1>1. {"tool_bar", "satatus_bar"} \subseteq Keys
  BY DEF Keys
<1>2. (~bar) \in BOOLEAN
  OBVIOUS
<1> QED
  BY <1>1, <1>2 DEF ShowStatusBar, FileTellsExpected, UiTypes

(* What an import makes of the switches.                                   *)
LEMMA MergedTyped ==
  ASSUME FileTellsExpected, file # None
  PROVE  MergedUi \in UiTypes
<1> SUFFICES ASSUME NEW k \in Keys
             PROVE  (IF k = "satatus_bar" THEN ui[k] ELSE Default(file.ui[k], ui[k]))
                       \in BOOLEAN \cup {Unset}
  BY DEF MergedUi, UiTypes
<1>1. ui[k] \in BOOLEAN \cup {Unset} /\ file.ui[k] \in BOOLEAN \cup {Unset}
  BY DEF FileTellsExpected, UiTypes
<1> QED
  BY <1>1 DEF Default

LEMMA FileNext == FileTellsExpected /\ [Next]_vars => FileTellsExpected'
<1> SUFFICES ASSUME FileTellsExpected, [Next]_vars PROVE FileTellsExpected'
  OBVIOUS
<1>1. CASE UNCHANGED <<expected, disk, command, settled, tool, ui, file>>
  BY <1>1 DEF FileTellsExpected, Restored
<1>2. CASE UNCHANGED vars
  BY <1>1, <1>2 DEF vars
<1>3. CASE \E c \in Cmds : SendCommand(c)
  BY <1>1, <1>3 DEF SendCommand, view, stored
<1>4. CASE \E rows \in SUBSET (1..Len(history)) : DeleteCommands(rows)
  BY <1>1, <1>4 DEF DeleteCommands, view, stored
<1>5. CASE \E o \in Options : SaveSession(o) \/ OpenSession(o)
  BY <1>1, <1>5 DEF SaveSession, OpenSession, view, stored, lists
<1>6. CASE ClearRecents
  BY <1>1, <1>6 DEF ClearRecents, view, stored, lists
<1>7. CASE \E f \in SUBSET Favs : EditFavorites(f)
  BY <1>1, <1>7 DEF EditFavorites, view, stored
<1>8. CASE ShowStatusBar
  <2>1. UNCHANGED <<expected, disk, command, settled, tool, file>>
    BY <1>8 DEF ShowStatusBar, stored, lists
  <2> QED
    BY <1>8, <2>1, StatusBarToggled DEF FileTellsExpected, Restored
<1>9. CASE ShowToolBar
  <2>1. UNCHANGED <<expected, disk, command, settled, file>>
    BY <1>9 DEF ShowToolBar, stored, lists
  <2> QED
    BY <1>9, <2>1, ToolBarToggled DEF FileTellsExpected, Restored
<1>10. CASE \E types \in SUBSET Types : Export(types)
  <2>1. UNCHANGED <<expected, disk, command, settled, tool, ui>> /\ file'.ui = ui
    BY <1>10 DEF Export, Exported, stored, lists, view
  <2> QED
    BY <2>1 DEF FileTellsExpected, Restored
<1>11. CASE \E types \in SUBSET Types : Import(types)
  <2>1. PICK types \in SUBSET Types : Import(types)
    BY <1>11
  <2>2. UNCHANGED <<expected, disk, file>> /\ command' = settled'
    BY <2>1 DEF Import, stored, FileTellsExpected
  <2>3. ui' \in UiTypes /\ tool' = Default(ui'["tool_bar"], TRUE)
    <3>1. CASE "ui-config" \in types
      BY <2>1, <3>1, MergedTyped DEF Import
    <3>2. CASE "ui-config" \notin types
      BY <2>1, <3>2 DEF Import, view, FileTellsExpected
    <3> QED
      BY <3>1, <3>2
  <2> QED
    BY <2>2, <2>3 DEF FileTellsExpected, Restored
<1>12. CASE Save \/ Close \/ Fail
  <2>1. BeginSave /\ command' = settled'
    BY <1>12 DEF Save, Close, Fail, FileTellsExpected
  <2>2. UNCHANGED <<tool, ui, file>> /\ expected' = Defaults /\ disk' = Lost("torn")
    BY <2>1 DEF BeginSave, view
  <2>3. Restored(Empty) = Defaults /\ Empty.ui \in UiTypes
    BY EmptyGivesDefaults DEF Empty
  <2> QED
    BY <2>1, <2>2, <2>3 DEF FileTellsExpected, Lost
<1>13. CASE EndSave
  <2>1. UNCHANGED <<command, settled, tool, ui, file>> /\ disk'.data = Written
        /\ expected' = [Visible EXCEPT !.favorite = settled]
    BY <1>13 DEF EndSave, lists, view
  <2>2. Restored(Written) = [Visible EXCEPT !.favorite = settled]
    <3>1. Restored(Written) = [session |-> sessions, history |-> history,
                               favorite |-> command, tool |-> tool]
      BY DEF Restored, Written, FileTellsExpected
    <3>2. [Visible EXCEPT !.favorite = settled]
            = [session |-> sessions, history |-> history, favorite |-> settled, tool |-> tool]
      BY DEF Visible
    <3> QED
      BY <3>1, <3>2 DEF FileTellsExpected
  <2>3. Written.ui = ui
    BY DEF Written
  <2> QED
    BY <2>1, <2>2, <2>3 DEF FileTellsExpected
<1>14. CASE Kill
  BY <1>1, <1>14 DEF Kill, lists, view
<1>15. CASE Start
  <2>1. UNCHANGED <<expected, disk, file>> /\ command' = settled' /\ ui' = disk.data.ui
        /\ tool' = Default(disk.data.ui["tool_bar"], TRUE)
    BY <1>15 DEF Start
  <2> QED
    BY <2>1 DEF FileTellsExpected, Restored
<1> QED
  BY <1>2, <1>3, <1>4, <1>5, <1>6, <1>7, <1>8, <1>9, <1>10, <1>11, <1>12, <1>13, <1>14, <1>15
     DEF Next

(* Only a start brings the process up from nothing.                        *)
LEMMA OnlyStartStarts ==
  ASSUME [Next]_vars, phase = "down", phase' = "running"
  PROVE  Start
BY DEF Next, vars, SendCommand, DeleteCommands, SaveSession, OpenSession, ClearRecents,
       EditFavorites, ShowStatusBar, ShowToolBar, Export, Import, Save, Close, Fail,
       EndSave, Kill, BeginSave, Edit, Up

-----------------------------------------------------------------------------
(* Lists                                                                   *)

LEMMA LessOnNat ==
  \E R : IsWellFoundedOn(R, Nat) /\ \A x, y \in Nat : y < x => <<y, x>> \in R
<1> DEFINE R == OpToRel(<, Nat)
<1>1. IsWellFoundedOn(R, Nat)
  BY NatLessThanWellFounded, Zenon
<1>2. \A x, y \in Nat : y < x => <<y, x>> \in R
  BY Zenon DEF OpToRel
<1> QED
  <2> HIDE DEF R
  <2> QED BY <1>1, <1>2

\* Induction along a list, over the set of the numbers for which a fact holds.
LEMMA AllAlong ==
  ASSUME NEW N \in Nat, NEW U, 0 \in U, \A n \in 1..N : n - 1 \in U => n \in U
  PROVE  \A n \in 0..N : n \in U
<1> DEFINE Bad == (0..N) \ U
<1>1. SUFFICES ASSUME Bad # {} PROVE FALSE
  OBVIOUS
<1>2. PICK R : IsWellFoundedOn(R, Nat) /\ \A x, y \in Nat : y < x => <<y, x>> \in R
  BY LessOnNat
<1>3. Bad \in SUBSET Nat
  OBVIOUS
<1>4. PICK m \in Bad : \A i \in Bad : ~(<<i, m>> \in R)
  <2> HIDE DEF Bad
  <2> QED
    BY <1>1, <1>2, <1>3, WFMin, Zenon
<1>5. m \in 1..N /\ m - 1 \in Nat /\ m \in Nat /\ m - 1 < m
  BY <1>4
<1>6. m - 1 \notin Bad
  BY <1>2, <1>4, <1>5
<1> QED
  BY <1>4, <1>5, <1>6

\* A list that is worked off entry by entry: G[n] is what entry n does.
Runs(N, T, A, G) == \E f \in [0..N -> T] : f[0] = A /\ \A n \in 1..N : f[n] = G[n][f[n - 1]]

LEMMA RunsIs ==
  ASSUME NEW N \in Nat, NEW T, NEW A \in T, NEW G \in [Nat -> [T -> T]]
  PROVE  Runs(N, T, A, G)
<1> DEFINE U == {n \in 0..N : Runs(n, T, A, G)}
<1>1. 0 \in U
  <2> DEFINE f == [n \in 0..0 |-> A]
  <2>1. f \in [0..0 -> T] /\ f[0] = A /\ \A n \in 1..0 : f[n] = G[n][f[n - 1]]
    OBVIOUS
  <2>2. Runs(0, T, A, G)
    BY <2>1 DEF Runs
  <2> QED
    BY <2>2
<1>2. ASSUME NEW k \in 1..N, k - 1 \in U
      PROVE  k \in U
  <2>1. PICK f \in [0..(k - 1) -> T] : f[0] = A /\ \A n \in 1..(k - 1) : f[n] = G[n][f[n - 1]]
    BY <1>2 DEF Runs
  <2> DEFINE e == G[k][f[k - 1]]
             g == [n \in 0..k |-> IF n = k THEN e ELSE f[n]]
  <2>2. e \in T /\ k - 1 \in 0..(k - 1)
    BY <2>1
  <2>3. \A n \in 0..k : n # k => n \in 0..(k - 1)
    OBVIOUS
  <2>4. g \in [0..k -> T] /\ g[k] = e /\ \A n \in 0..(k - 1) : g[n] = f[n]
    <3> HIDE DEF e
    <3> QED
      BY <2>1, <2>2, <2>3
  <2>5. g[0] = A /\ g[k - 1] = f[k - 1]
    BY <2>1, <2>2, <2>4
  <2> HIDE DEF g
  <2>6. ASSUME NEW n \in 1..k PROVE g[n] = G[n][g[n - 1]]
    <3>1. CASE n = k
      BY <2>4, <2>5, <3>1
    <3>2. CASE n # k
      <4>1. n \in 1..(k - 1) /\ n \in 0..(k - 1) /\ n - 1 \in 0..(k - 1)
        BY <3>2
      <4> QED
        BY <2>1, <2>4, <4>1
    <3> QED
      BY <3>1, <3>2
  <2>7. Runs(k, T, A, G)
    BY <2>4, <2>5, <2>6 DEF Runs
  <2> QED
    BY <2>7
<1>3. N \in 0..N
  OBVIOUS
<1>4. N \in U
  <2> HIDE DEF U
  <2> QED
    BY <1>1, <1>2, <1>3, AllAlong
<1> QED
  BY <1>4

LEMMA Members ==
  ASSUME NEW T, NEW s \in Seq(T)
  PROVE  /\ Len(s) \in Nat /\ DOMAIN s = 1..Len(s)
         /\ \A e : e \in ToSet(s) <=> \E k \in 1..Len(s) : s[k] = e
         /\ \A k \in 1..Len(s) : s[k] \in T
BY DEF ToSet

\* Holds each entry once.
Distinct(s) == \A i, j \in 1..Len(s) : s[i] = s[j] => i = j

LEMMA DistinctIs ==
  ASSUME NEW T, NEW s \in Seq(T)
  PROVE  Distinct(s) <=> IsInjective(s)
BY DEF Distinct, IsInjective

\* x is what the first n entries of s leave without S.
Left(T, s, S, n, x) ==
  /\ x \in Seq(T) /\ Len(x) <= n /\ Distinct(x)
  /\ \A k \in 1..Len(x) : x[k] \notin S /\ \E j \in 1..n : s[j] = x[k]

LEMMA LeftNext ==
  ASSUME NEW T, NEW s \in Seq(T), NEW S, Distinct(s), NEW n \in 1..Len(s), NEW x,
         Left(T, s, S, n - 1, x)
  PROVE  /\ s[n] \in S => Left(T, s, S, n, x)
         /\ s[n] \notin S => Left(T, s, S, n, Append(x, s[n]))
<1>1. /\ x \in Seq(T) /\ Len(x) \in Nat /\ Len(x) <= n - 1 /\ n \in Nat /\ s[n] \in T
      /\ \A k \in 1..Len(x) : x[k] \notin S /\ \E j \in 1..(n - 1) : s[j] = x[k]
  BY DEF Left
<1>2. \A j \in 1..(n - 1) : j \in 1..n /\ j \in 1..Len(s) /\ j # n
  BY <1>1
<1>3. CASE s[n] \in S
  <2>1. \A k \in 1..Len(x) : x[k] \notin S /\ \E j \in 1..n : s[j] = x[k]
    BY <1>1, <1>2
  <2>2. Len(x) <= n
    BY <1>1
  <2> QED
    BY <1>3, <2>1, <2>2 DEF Left
<1>4. CASE s[n] \notin S
  <2> DEFINE y == Append(x, s[n])
  <2>1. /\ y \in Seq(T) /\ Len(y) = Len(x) + 1 /\ y[Len(x) + 1] = s[n]
        /\ \A k \in 1..Len(x) : y[k] = x[k]
    BY <1>1
  <2> HIDE DEF y
  <2>2. \A k \in 1..Len(y) : k \in 1..Len(x) \/ k = Len(x) + 1
    BY <1>1, <2>1
  <2>3. \A k \in 1..Len(x) : y[k] # s[n]
    <3> SUFFICES ASSUME NEW k \in 1..Len(x), y[k] = s[n] PROVE FALSE
      OBVIOUS
    <3>1. PICK j \in 1..(n - 1) : s[j] = x[k]
      BY <1>1
    <3>2. s[j] = s[n] /\ j # n /\ j \in 1..Len(s)
      BY <1>2, <2>1, <3>1
    <3> QED
      BY <3>2 DEF Distinct
  <2>4. \A k \in 1..Len(y) : y[k] \notin S /\ \E j \in 1..n : s[j] = y[k]
    <3> SUFFICES ASSUME NEW k \in 1..Len(y) PROVE y[k] \notin S /\ \E j \in 1..n : s[j] = y[k]
      OBVIOUS
    <3>1. CASE k \in 1..Len(x)
      BY <1>1, <1>2, <2>1, <3>1
    <3>2. CASE k = Len(x) + 1
      <4>1. n \in 1..n
        BY <1>1
      <4> QED
        BY <1>4, <2>1, <3>2, <4>1
    <3> QED
      BY <2>2, <3>1, <3>2
  <2>5. ASSUME NEW i \in 1..Len(y), NEW j \in 1..Len(y), y[i] = y[j] PROVE i = j
    <3>1. CASE i \in 1..Len(x) /\ j \in 1..Len(x)
      BY <2>1, <2>5, <3>1 DEF Left, Distinct
    <3>2. CASE i = Len(x) + 1 \/ j = Len(x) + 1
      BY <2>1, <2>2, <2>3, <2>5, <3>2
    <3> QED
      BY <2>2, <3>1, <3>2
  <2>6. Distinct(y)
    BY <2>5 DEF Distinct
  <2>7. Len(y) <= n
    BY <1>1, <2>1
  <2>8. Left(T, s, S, n, y)
    BY <2>1, <2>4, <2>6, <2>7 DEF Left
  <2> QED
    BY <1>4, <2>8 DEF y
<1> QED
  BY <1>3, <1>4

LEMMA WithoutIs ==
  ASSUME NEW T, NEW s \in Seq(T), NEW S, Distinct(s)
  PROVE  Left(T, s, S, Len(s), Without(s, S))
<1> DEFINE N == Len(s)
           P(g) == g = [n \in 0..N |-> IF n = 0 THEN << >>
                        ELSE IF s[n] \in S THEN g[n - 1] ELSE Append(g[n - 1], s[n])]
           L == CHOOSE g : P(g)
           X == Seq(T)
           G == [k \in Nat |-> [x \in X |-> IF k \in 1..N /\ s[k] \notin S
                                            THEN Append(x, s[k]) ELSE x]]
<1>1. N \in Nat /\ << >> \in X /\ \A n \in 1..N : s[n] \in T
  OBVIOUS
<1>2. Without(s, S) = L[N]
  BY Zenon DEF Without
<1>3. G \in [Nat -> [X -> X]]
  BY <1>1
<1>4. \A k \in 1..N, x \in X : G[k][x] = IF s[k] \in S THEN x ELSE Append(x, s[k])
  BY <1>1
<1> HIDE DEF N, X, G
<1>5. PICK f \in [0..N -> X] : f[0] = << >> /\ \A n \in 1..N : f[n] = G[n][f[n - 1]]
  <2>1. Runs(N, X, << >>, G)
    BY <1>1, <1>3, RunsIs
  <2> QED
    BY <2>1 DEF Runs
<1>6. P(f)
  <2> HIDE DEF P
  <2>1. \A n \in 0..N : f[n] = IF n = 0 THEN << >>
                        ELSE IF s[n] \in S THEN f[n - 1] ELSE Append(f[n - 1], s[n])
    <3> SUFFICES ASSUME NEW n \in 0..N, n # 0
                 PROVE  f[n] = IF s[n] \in S THEN f[n - 1] ELSE Append(f[n - 1], s[n])
      BY <1>5
    <3>1. n \in 1..N /\ n - 1 \in 0..N
      BY <1>1
    <3>2. f[n - 1] \in X /\ f[n] = G[n][f[n - 1]]
      BY <1>5, <3>1
    <3> QED
      BY <1>4, <3>1, <3>2
  <2> QED
    BY <1>5, <2>1 DEF P
<1>7. P(L)
  <2> HIDE DEF P
  <2> QED
    BY <1>6
<1> HIDE DEF L
<1>8. /\ L[0] = << >>
      /\ \A n \in 1..N : L[n] = IF s[n] \in S THEN L[n - 1] ELSE Append(L[n - 1], s[n])
  <2>1. 0 \in 0..N /\ \A n \in 1..N : n \in 0..N /\ n # 0
    BY <1>1
  <2>2. \A n \in 0..N : L[n] = IF n = 0 THEN << >>
                        ELSE IF s[n] \in S THEN L[n - 1] ELSE Append(L[n - 1], s[n])
    BY <1>7, Zenon
  <2> QED
    BY <2>1, <2>2
<1> HIDE DEF P
<1> DEFINE U == {n \in 0..N : Left(T, s, S, n, L[n])}
<1>9. 0 \in U
  <2>1. Left(T, s, S, 0, << >>)
    BY DEF Left, Distinct
  <2> QED
    BY <1>1, <1>8, <2>1
<1>10. \A n \in 1..N : n - 1 \in U => n \in U
  <2> SUFFICES ASSUME NEW n \in 1..N, Left(T, s, S, n - 1, L[n - 1])
               PROVE  n \in 0..N /\ Left(T, s, S, n, L[n])
    OBVIOUS
  <2>1. n \in 1..Len(s) /\ n \in 0..N
    BY <1>1 DEF N
  <2>2. Left(T, s, S, n, L[n])
    <3> DEFINE x == L[n - 1]
    <3>1. /\ s[n] \in S => Left(T, s, S, n, x)
          /\ s[n] \notin S => Left(T, s, S, n, Append(x, s[n]))
      <4> HIDE DEF x
      <4> QED
        BY <2>1, LeftNext DEF x
    <3> QED
      BY <1>8, <3>1
  <2> QED
    BY <2>1, <2>2
<1>11. N \in U
  <2>1. N \in 0..N
    BY <1>1
  <2> HIDE DEF U
  <2> QED
    BY <1>1, <1>9, <1>10, <2>1, AllAlong
<1> QED
  BY <1>2, <1>11 DEF N

Histories == {h \in Seq(Cmds) : Distinct(h) /\ Len(h) <= MaxHistory + 1}
SessionLists == {s \in Seq(Options) : Distinct(s)}
Recent == [name : Range(ConnName), data : Options]
Named(r) == \A i, j \in 1..Len(r) : r[i].name = r[j].name => i = j
RecentLists == {r \in Seq(Recent) : Len(r) <= MaxRecents /\ Named(r)}

\* <<e>> \o s, opaque to the provers where only ConsIs is needed.
Ahead(e, s) == <<e>> \o s

LEMMA AheadIs ==
  ASSUME NEW T, NEW s \in Seq(T), NEW e \in T
  PROVE  /\ Ahead(e, s) \in Seq(T) /\ Len(Ahead(e, s)) = Len(s) + 1 /\ Ahead(e, s)[1] = e
         /\ \A k \in 1..Len(s) : Ahead(e, s)[k + 1] = s[k]
         /\ \A k \in 1..Len(Ahead(e, s)) : k = 1 \/ (k - 1 \in 1..Len(s) /\ Ahead(e, s)[k] = s[k - 1])
<1>1. <<e>> \in Seq(T) /\ Len(<<e>>) = 1 /\ <<e>>[1] = e
  OBVIOUS
<1>2. /\ Ahead(e, s) \in Seq(T) /\ Len(Ahead(e, s)) = Len(s) + 1 /\ Ahead(e, s)[1] = e
      /\ \A k \in 1..Len(s) : Ahead(e, s)[k + 1] = s[k]
  BY <1>1 DEF Ahead
<1>3. ASSUME NEW k \in 1..Len(Ahead(e, s)), k # 1
      PROVE  k - 1 \in 1..Len(s) /\ Ahead(e, s)[k] = s[k - 1]
  <2>1. Len(s) \in Nat /\ k \in 1..(Len(s) + 1)
    BY <1>2
  <2>2. k - 1 \in 1..Len(s) /\ (k - 1) + 1 = k
    BY <1>3, <2>1
  <2> QED
    BY <1>2, <2>2
<1> QED
  BY <1>2, <1>3

\* The first m entries, opaque likewise.
First(s, m) == SubSeq(s, 1, m)

LEMMA FirstIs ==
  ASSUME NEW T, NEW s \in Seq(T), NEW m \in Nat, m <= Len(s)
  PROVE  /\ First(s, m) \in Seq(T) /\ Len(First(s, m)) = m
         /\ \A k \in 1..m : First(s, m)[k] = s[k] /\ k \in 1..Len(s)
BY DEF First

LEMMA AddedIs ==
  ASSUME NEW h \in Histories, NEW c \in Cmds
  PROVE  Added(h, c) \in Histories
<1> DEFINE o == Without(h, {c})
           t == IF Len(o) > MaxHistory THEN First(o, MaxHistory - 1) ELSE o
           a == Ahead(c, t)
<1>1. Added(h, c) = a
  BY DEF Added, First, Ahead
<1>2. h \in Seq(Cmds) /\ Distinct(h) /\ Len(h) <= MaxHistory + 1 /\ Len(h) \in Nat
  BY DEF Histories
<1>3. Left(Cmds, h, {c}, Len(h), o)
  BY <1>2, WithoutIs
<1> HIDE DEF o
<1>4. /\ o \in Seq(Cmds) /\ Len(o) \in Nat /\ Distinct(o)
      /\ \A k \in 1..Len(o) : o[k] # c
  BY <1>3 DEF Left
<1>5. MaxHistory \in Nat /\ MaxHistory - 1 \in Nat /\ MaxHistory - 1 <= MaxHistory
  BY AppStoreAssumption
<1>6. /\ t \in Seq(Cmds) /\ Len(t) \in Nat /\ Len(t) <= MaxHistory
      /\ \A k \in 1..Len(t) : k \in 1..Len(o) /\ t[k] = o[k]
  <2>1. CASE Len(o) > MaxHistory
    <3> DEFINE f == First(o, MaxHistory - 1)
    <3>1. MaxHistory - 1 <= Len(o)
      BY <1>4, <1>5, <2>1
    <3>2. /\ f \in Seq(Cmds) /\ Len(f) = MaxHistory - 1
          /\ \A k \in 1..(MaxHistory - 1) : f[k] = o[k] /\ k \in 1..Len(o)
      BY <1>4, <1>5, <3>1, FirstIs
    <3>3. t = f
      BY <2>1
    <3> QED
      BY <1>5, <3>2, <3>3
  <2>2. CASE ~(Len(o) > MaxHistory)
    <3>1. t = o
      BY <2>2
    <3> QED
      BY <1>4, <1>5, <2>2, <3>1
  <2> QED
    BY <2>1, <2>2
<1> HIDE DEF t
<1>7. /\ a \in Seq(Cmds) /\ Len(a) = Len(t) + 1 /\ a[1] = c
      /\ \A k \in 1..Len(a) : k = 1 \/ (k - 1 \in 1..Len(t) /\ a[k] = t[k - 1])
  BY <1>6, AheadIs
<1> HIDE DEF a
<1>8. \A k \in 1..Len(a) : k # 1 => a[k] # c /\ k - 1 \in 1..Len(o) /\ a[k] = o[k - 1]
  BY <1>4, <1>6, <1>7
<1>9. ASSUME NEW i \in 1..Len(a), NEW j \in 1..Len(a), a[i] = a[j]
      PROVE  i = j
  <2>1. CASE i # 1 /\ j # 1
    <3>1. i - 1 = j - 1
      BY <1>4, <1>8, <1>9, <2>1 DEF Distinct
    <3> QED
      BY <1>6, <1>7, <3>1
  <2>2. CASE i = 1 \/ j = 1
    BY <1>7, <1>8, <1>9, <2>2
  <2> QED
    BY <2>1, <2>2
<1>10. Distinct(a)
  BY <1>9 DEF Distinct
<1>11. Len(a) <= MaxHistory + 1
  BY <1>5, <1>6, <1>7
<1> QED
  BY <1>1, <1>7, <1>10, <1>11 DEF Histories

LEMMA WithSessionIs ==
  ASSUME NEW s \in SessionLists, NEW o \in Options
  PROVE  WithSession(s, o) \in SessionLists
<1>1. s \in Seq(Options) /\ Distinct(s) /\ Len(s) \in Nat
  BY DEF SessionLists
<1>2. CASE o \in ToSet(s)
  BY <1>2 DEF WithSession
<1>3. CASE o \notin ToSet(s)
  <2> DEFINE a == Append(s, o)
  <2>1. \A k \in 1..Len(s) : s[k] # o
    BY <1>1, <1>3, Members
  <2>2. /\ a \in Seq(Options) /\ Len(a) = Len(s) + 1 /\ a[Len(s) + 1] = o
        /\ \A k \in 1..Len(s) : a[k] = s[k]
    BY <1>1
  <2>3. WithSession(s, o) = a
    BY <1>3 DEF WithSession
  <2> HIDE DEF a
  <2>4. \A k \in 1..Len(a) : k \in 1..Len(s) \/ k = Len(s) + 1
    BY <1>1, <2>2
  <2>5. ASSUME NEW i \in 1..Len(a), NEW j \in 1..Len(a), a[i] = a[j]
        PROVE  i = j
    <3>1. CASE i \in 1..Len(s) /\ j \in 1..Len(s)
      BY <1>1, <2>2, <2>5, <3>1 DEF Distinct
    <3>2. CASE i = Len(s) + 1 \/ j = Len(s) + 1
      BY <2>1, <2>2, <2>4, <2>5, <3>2
    <3> QED
      BY <2>4, <3>1, <3>2
  <2>6. Distinct(a)
    BY <2>5 DEF Distinct
  <2> QED
    BY <2>2, <2>3, <2>6 DEF SessionLists
<1> QED
  BY <1>2, <1>3

LEMMA UpdatedIs ==
  ASSUME NEW r \in RecentLists, NEW o \in Options
  PROVE  Updated(r, o) \in RecentLists
<1> DEFINE n == RecentName(o)
           e == [name |-> n, data |-> o]
           S == {x \in ToSet(r) : x.name = n}
           u == Without(r, S)
           a == Ahead(e, u)
           t == IF Len(a) > MaxRecents THEN First(a, MaxRecents) ELSE a
<1>1. r \in Seq(Recent) /\ Len(r) <= MaxRecents /\ Named(r) /\ Len(r) \in Nat
  BY DEF RecentLists
<1>2. Updated(r, o) \in {r, t}
  BY DEF Updated, Ahead, First
<1>3. e \in Recent /\ e.name = n
  <2>1. n \in Range(ConnName)
    BY AppStoreAssumption DEF RecentName, Range
  <2> HIDE DEF n
  <2> QED
    BY <2>1 DEF Recent
<1>4. Distinct(r)
  BY <1>1 DEF Named, Distinct
<1>5. Left(Recent, r, S, Len(r), u)
  <2> HIDE DEF S
  <2> QED
    BY <1>1, <1>4, WithoutIs
<1>6. \A k \in 1..Len(r) : r[k] \notin S => r[k].name # n
  BY <1>1, Members
<1> HIDE DEF u, S, n, e
<1>7. /\ u \in Seq(Recent) /\ Len(u) \in Nat /\ Distinct(u)
      /\ \A k \in 1..Len(u) : u[k].name # n /\ \E j \in 1..Len(r) : r[j] = u[k]
  <2>1. \A k \in 1..Len(u) : u[k] \notin S /\ \E j \in 1..Len(r) : r[j] = u[k]
    BY <1>5 DEF Left
  <2>2. \A k \in 1..Len(u) : u[k].name # n
    BY <1>6, <2>1
  <2>3. u \in Seq(Recent) /\ Distinct(u)
    BY <1>5 DEF Left
  <2> QED
    BY <2>1, <2>2, <2>3
<1>8. ASSUME NEW i \in 1..Len(u), NEW j \in 1..Len(u), u[i].name = u[j].name
      PROVE  i = j
  <2>1. PICK p \in 1..Len(r) : r[p] = u[i]
    BY <1>7
  <2>2. PICK q \in 1..Len(r) : r[q] = u[j]
    BY <1>7
  <2>3. p = q
    BY <1>1, <1>8, <2>1, <2>2 DEF Named
  <2>4. u[i] = u[j]
    BY <2>1, <2>2, <2>3
  <2> QED
    BY <1>7, <2>4 DEF Distinct
<1>9. /\ a \in Seq(Recent) /\ Len(a) = Len(u) + 1 /\ a[1] = e
      /\ \A k \in 1..Len(a) : k = 1 \/ (k - 1 \in 1..Len(u) /\ a[k] = u[k - 1])
  BY <1>3, <1>7, AheadIs
<1> HIDE DEF a
<1>10. ASSUME NEW i \in 1..Len(a), NEW j \in 1..Len(a), a[i].name = a[j].name
       PROVE  i = j
  <2>1. CASE i # 1 /\ j # 1
    <3>1. i - 1 \in 1..Len(u) /\ j - 1 \in 1..Len(u) /\ a[i] = u[i - 1] /\ a[j] = u[j - 1]
      BY <1>9, <2>1
    <3>2. i - 1 = j - 1
      BY <1>8, <1>10, <3>1
    <3> QED
      BY <1>7, <1>9, <3>2
  <2>2. ASSUME NEW k \in 1..Len(a), a[k].name = n PROVE k = 1
    BY <1>7, <1>9, <2>2
  <2>3. CASE i = 1 \/ j = 1
    BY <1>3, <1>9, <1>10, <2>2, <2>3
  <2> QED
    BY <2>1, <2>3
<1>11. MaxRecents \in Nat /\ Len(a) \in Nat
  BY <1>7, <1>9, AppStoreAssumption
<1>12. /\ t \in Seq(Recent) /\ Len(t) \in Nat /\ Len(t) <= MaxRecents
       /\ \A k \in 1..Len(t) : k \in 1..Len(a) /\ t[k] = a[k]
  <2>1. CASE Len(a) > MaxRecents
    <3> DEFINE f == First(a, MaxRecents)
    <3>1. MaxRecents <= Len(a)
      BY <1>11, <2>1
    <3>2. /\ f \in Seq(Recent) /\ Len(f) = MaxRecents
          /\ \A k \in 1..MaxRecents : f[k] = a[k] /\ k \in 1..Len(a)
      BY <1>9, <1>11, <3>1, FirstIs
    <3>3. t = f
      BY <2>1
    <3> QED
      BY <1>11, <3>2, <3>3
  <2>2. CASE ~(Len(a) > MaxRecents)
    <3>1. t = a
      BY <2>2
    <3> QED
      BY <1>9, <1>11, <2>2, <3>1
  <2> QED
    BY <2>1, <2>2
<1> HIDE DEF t
<1>13. Named(t)
  <2> SUFFICES ASSUME NEW i \in 1..Len(t), NEW j \in 1..Len(t), t[i].name = t[j].name PROVE i = j
    BY DEF Named
  <2>1. i \in 1..Len(a) /\ j \in 1..Len(a) /\ a[i].name = a[j].name
    BY <1>12
  <2> QED
    BY <1>10, <2>1
<1>14. t \in RecentLists
  BY <1>12, <1>13 DEF RecentLists
<1> QED
  BY <1>2, <1>14

LEMMA WithSessionsIs ==
  ASSUME NEW s \in SessionLists, NEW list \in Seq(Options)
  PROVE  WithSessions(s, list) \in SessionLists
<1> DEFINE N == Len(list)
           P(g) == g = [n \in 0..N |-> IF n = 0 THEN s ELSE WithSession(g[n - 1], list[n])]
           L == CHOOSE g : P(g)
           G == [k \in Nat |-> [x \in SessionLists |-> IF k \in 1..N THEN WithSession(x, list[k]) ELSE x]]
<1>1. N \in Nat /\ \A n \in 1..N : list[n] \in Options
  OBVIOUS
<1>2. WithSessions(s, list) = L[N]
  BY Zenon DEF WithSessions
<1>3. \A k \in 1..N, x \in SessionLists : WithSession(x, list[k]) \in SessionLists
  BY <1>1, WithSessionIs
<1> HIDE DEF N
<1>4. G \in [Nat -> [SessionLists -> SessionLists]]
  BY <1>3
<1>5. \A k \in 1..N, x \in SessionLists : G[k][x] = WithSession(x, list[k])
  BY <1>1
<1> HIDE DEF G
<1>6. PICK f \in [0..N -> SessionLists] : f[0] = s /\ \A n \in 1..N : f[n] = G[n][f[n - 1]]
  <2>1. Runs(N, SessionLists, s, G)
    BY <1>1, <1>4, RunsIs
  <2> QED
    BY <2>1 DEF Runs
<1>7. P(f)
  <2> HIDE DEF P
  <2>1. \A n \in 0..N : f[n] = IF n = 0 THEN s ELSE WithSession(f[n - 1], list[n])
    <3> SUFFICES ASSUME NEW n \in 0..N, n # 0 PROVE f[n] = WithSession(f[n - 1], list[n])
      BY <1>6
    <3>1. n \in 1..N /\ n - 1 \in 0..N
      BY <1>1
    <3>2. f[n - 1] \in SessionLists /\ f[n] = G[n][f[n - 1]]
      BY <1>6, <3>1
    <3> QED
      BY <1>5, <3>1, <3>2
  <2> QED
    BY <1>6, <2>1 DEF P
<1>8. P(L)
  <2> HIDE DEF P
  <2> QED
    BY <1>7
<1> HIDE DEF L
<1>9. \A n \in 0..N : L[n] = IF n = 0 THEN s ELSE WithSession(L[n - 1], list[n])
  BY <1>8, Zenon
<1> HIDE DEF P
<1> DEFINE U == {n \in 0..N : L[n] \in SessionLists}
<1>10. 0 \in U /\ \A n \in 1..N : n - 1 \in U => n \in U
  <2>1. 0 \in 0..N /\ \A n \in 1..N : n \in 0..N /\ n # 0
    BY <1>1
  <2> QED
    BY <1>3, <1>9, <2>1
<1>11. N \in U
  <2>1. N \in 0..N
    BY <1>1
  <2> HIDE DEF U
  <2> QED
    BY <1>1, <1>10, <2>1, AllAlong
<1> QED
  BY <1>2, <1>11

LEMMA AddedAllIs ==
  ASSUME NEW h \in Histories, NEW list \in Seq(Cmds)
  PROVE  AddedAll(h, list) \in Histories
<1> DEFINE N == Len(list)
           P(g) == g = [n \in 0..N |-> IF n = 0 THEN h ELSE Added(g[n - 1], list[n])]
           L == CHOOSE g : P(g)
           G == [k \in Nat |-> [x \in Histories |-> IF k \in 1..N THEN Added(x, list[k]) ELSE x]]
<1>1. N \in Nat /\ \A n \in 1..N : list[n] \in Cmds
  OBVIOUS
<1>2. AddedAll(h, list) = L[N]
  BY Zenon DEF AddedAll
<1>3. \A k \in 1..N, x \in Histories : Added(x, list[k]) \in Histories
  BY <1>1, AddedIs
<1> HIDE DEF N
<1>4. G \in [Nat -> [Histories -> Histories]]
  BY <1>3
<1>5. \A k \in 1..N, x \in Histories : G[k][x] = Added(x, list[k])
  BY <1>1
<1> HIDE DEF G
<1>6. PICK f \in [0..N -> Histories] : f[0] = h /\ \A n \in 1..N : f[n] = G[n][f[n - 1]]
  <2>1. Runs(N, Histories, h, G)
    BY <1>1, <1>4, RunsIs
  <2> QED
    BY <2>1 DEF Runs
<1>7. P(f)
  <2> HIDE DEF P
  <2>1. \A n \in 0..N : f[n] = IF n = 0 THEN h ELSE Added(f[n - 1], list[n])
    <3> SUFFICES ASSUME NEW n \in 0..N, n # 0 PROVE f[n] = Added(f[n - 1], list[n])
      BY <1>6
    <3>1. n \in 1..N /\ n - 1 \in 0..N
      BY <1>1
    <3>2. f[n - 1] \in Histories /\ f[n] = G[n][f[n - 1]]
      BY <1>6, <3>1
    <3> QED
      BY <1>5, <3>1, <3>2
  <2> QED
    BY <1>6, <2>1 DEF P
<1>8. P(L)
  <2> HIDE DEF P
  <2> QED
    BY <1>7
<1> HIDE DEF L
<1>9. \A n \in 0..N : L[n] = IF n = 0 THEN h ELSE Added(L[n - 1], list[n])
  BY <1>8, Zenon
<1> HIDE DEF P
<1> DEFINE U == {n \in 0..N : L[n] \in Histories}
<1>10. 0 \in U /\ \A n \in 1..N : n - 1 \in U => n \in U
  <2>1. 0 \in 0..N /\ \A n \in 1..N : n \in 0..N /\ n # 0
    BY <1>1
  <2> QED
    BY <1>3, <1>9, <2>1
<1>11. N \in U
  <2>1. N \in 0..N
    BY <1>1
  <2> HIDE DEF U
  <2> QED
    BY <1>1, <1>10, <2>1, AllAlong
<1> QED
  BY <1>2, <1>11

-----------------------------------------------------------------------------
(* The lists in memory and in the files                                    *)

Lists == sessions \in SessionLists /\ history \in Histories /\ recents \in RecentLists
Favourites ==
  /\ favs \subseteq Favs /\ command \subseteq Favs /\ settled \subseteq Favs
  /\ loaded = None \/ loaded \subseteq Favs
Switches == bar \in BOOLEAN /\ tool \in BOOLEAN
Saved ==
  /\ disk.kind \in Kinds /\ disk.data \in Content
  /\ disk.data.session \in SessionLists /\ disk.data.history \in Histories
File ==
  file = None \/ (file.types \subseteq Types /\ file.session \in Seq(Options)
                  /\ file.history \in Seq(Cmds) /\ file.favorite \subseteq Favs)
Life ==
  /\ phase \in {"running", "saving", "down"} /\ leaving \in BOOLEAN
  /\ edits \in 0..MaxEdits /\ starts \in 0..MaxStarts
ListsInv == Lists /\ Favourites /\ Switches /\ Saved /\ File /\ Life /\ FileTellsExpected

LEMMA EditIs ==
  ASSUME Life, Edit, UNCHANGED stored
  PROVE  Life'
<1>1. edits' \in 0..MaxEdits
  BY AppStoreAssumption DEF Life, Edit
<1> QED
  BY <1>1 DEF Life, stored

LEMMA SavedSame ==
  ASSUME Saved, disk' = disk
  PROVE  Saved'
BY DEF Saved

LEMMA RowsAreTaken ==
  ASSUME NEW h \in Histories, NEW rows
  PROVE  WithoutRows(h, rows) \in Histories
<1> DEFINE S == {h[r] : r \in rows}
<1>1. h \in Seq(Cmds) /\ Distinct(h) /\ Len(h) <= MaxHistory + 1 /\ Len(h) \in Nat
      /\ MaxHistory \in Nat
  BY AppStoreAssumption DEF Histories
<1>2. WithoutRows(h, rows) = Without(h, S)
  BY DEF WithoutRows
<1> HIDE DEF S
<1>3. Left(Cmds, h, S, Len(h), Without(h, S))
  BY <1>1, WithoutIs
<1> DEFINE x == Without(h, S)
<1>4. x \in Seq(Cmds) /\ Len(x) <= Len(h) /\ Distinct(x)
  BY <1>3 DEF Left
<1> HIDE DEF x
<1>5. Len(x) <= MaxHistory + 1
  <2>1. Len(x) \in Nat
    BY <1>4
  <2> QED
    BY <1>1, <1>4, <2>1
<1>6. x \in Histories
  BY <1>4, <1>5 DEF Histories
<1> QED
  BY <1>2, <1>6 DEF x

LEMMA ReadIs ==
  ASSUME NEW u \in UiTypes, NEW k \in Keys
  PROVE  Default(u[k], TRUE) \in BOOLEAN
BY DEF UiTypes, Default

LEMMA EmptyIs == << >> \in SessionLists /\ << >> \in Histories /\ << >> \in RecentLists
<1>1. 0 <= MaxHistory + 1 /\ 0 <= MaxRecents
  BY AppStoreAssumption
<1> QED
  BY <1>1 DEF SessionLists, Histories, RecentLists, Distinct, Named

LEMMA LostIs ==
  ASSUME NEW k \in Kinds, disk' = Lost(k)
  PROVE  Saved'
<1>1. NoUi \in UiTypes
  BY EmptyGivesDefaults
<1>2. Empty \in Content /\ Empty.session = << >> /\ Empty.history = << >>
  BY <1>1 DEF Empty, Content
<1>3. disk'.kind = k /\ disk'.data = Empty
  BY DEF Lost
<1> QED
  BY <1>2, <1>3, EmptyIs DEF Saved

LEMMA ListsStart == Init => ListsInv
<1> SUFFICES ASSUME Init PROVE ListsInv
  OBVIOUS
<1>1. Lists
  BY EmptyIs DEF Init, Lists
<1>2. Saved
  <2>1. NoUi \in UiTypes
    BY EmptyGivesDefaults
  <2>2. Empty \in Content /\ Empty.session = << >> /\ Empty.history = << >>
    BY <2>1 DEF Empty, Content
  <2>3. disk.kind = "none" /\ disk.data = Empty
    BY DEF Init, Lost
  <2> QED
    BY <2>2, <2>3, EmptyIs DEF Saved, Kinds
<1>3. Favourites /\ Switches /\ File
  BY DEF Init, Favourites, Switches, File
<1>4. Life
  <2>1. 0 \in 0..MaxEdits /\ 0 \in 0..MaxStarts
    BY AppStoreAssumption
  <2> QED
    BY <2>1 DEF Init, Life
<1> QED
  BY <1>1, <1>2, <1>3, <1>4, FileInit DEF ListsInv

LEMMA ImportIs ==
  ASSUME ListsInv, NEW types \in SUBSET Types, Import(types)
  PROVE  Lists' /\ Favourites' /\ Switches' /\ Saved' /\ File' /\ Life'
<1>1. /\ file # None /\ file.session \in Seq(Options) /\ file.history \in Seq(Cmds)
      /\ file.favorite \subseteq Favs
  BY DEF Import, ListsInv, File
<1>2. sessions' \in SessionLists
  <2>1. WithSessions(sessions, file.session) \in SessionLists
    BY <1>1, WithSessionsIs DEF ListsInv, Lists
  <2> QED
    BY <2>1 DEF Import, ListsInv, Lists
<1>3. history' \in Histories
  <2>1. AddedAll(history, file.history) \in Histories
    BY <1>1, AddedAllIs DEF ListsInv, Lists
  <2> QED
    BY <2>1 DEF Import, ListsInv, Lists
<1>4. recents' = recents /\ loaded' = loaded /\ file' = file /\ UNCHANGED stored /\ Edit
  BY DEF Import
<1>5. Lists'
  BY <1>2, <1>3, <1>4 DEF ListsInv, Lists
<1>6. Favourites'
  BY <1>1, <1>4 DEF Import, ListsInv, Favourites
<1>7. Switches'
  <2>1. CASE "ui-config" \in types
    <3>1. ui' \in UiTypes
      BY <1>1, <2>1, MergedTyped DEF Import, ListsInv
    <3>2. bar' = Default(ui'["status_bar"], TRUE) /\ tool' = Default(ui'["tool_bar"], TRUE)
      BY <2>1 DEF Import
    <3>3. "status_bar" \in Keys /\ "tool_bar" \in Keys
      BY DEF Keys
    <3> QED
      BY <3>1, <3>2, <3>3, ReadIs DEF Switches
  <2>2. CASE "ui-config" \notin types
    BY <2>2 DEF Import, view, ListsInv, Switches
  <2> QED
    BY <2>1, <2>2
<1>8. Saved' /\ Life' /\ File'
  <2>1. disk' = disk
    BY <1>4 DEF stored
  <2> QED
    BY <1>4, <2>1, SavedSame, EditIs DEF ListsInv, File
<1> QED
  BY <1>5, <1>6, <1>7, <1>8

LEMMA BeginIs ==
  ASSUME ListsInv, Save \/ Close \/ Fail
  PROVE  Lists' /\ Favourites' /\ Switches' /\ Saved' /\ File' /\ Life'
<1>1. /\ disk' = Lost("torn") /\ UNCHANGED <<sessions, history, favs, view, loaded, recents, file>>
      /\ edits' = edits /\ starts' = starts /\ phase' = "saving" /\ leaving' \in BOOLEAN
      /\ command' \in {command, favs} /\ settled' \in {settled, favs}
  BY DEF Save, Close, Fail, BeginSave
<1>2. Saved'
  BY <1>1, LostIs DEF Kinds
<1>3. Lists' /\ File' /\ Switches' /\ Life'
  BY <1>1 DEF ListsInv, Lists, File, Switches, view, Life
<1>4. Favourites'
  BY <1>1 DEF ListsInv, Favourites
<1> QED
  BY <1>2, <1>3, <1>4

LEMMA EndIs ==
  ASSUME ListsInv, EndSave
  PROVE  Lists' /\ Favourites' /\ Switches' /\ Saved' /\ File' /\ Life'
<1>1. /\ disk'.kind = "whole" /\ disk'.data = Written
      /\ UNCHANGED lists /\ UNCHANGED <<loaded, recents, file>> /\ UNCHANGED view
      /\ leaving' = leaving /\ edits' = edits /\ starts' = starts
      /\ phase' \in {"down", "running"}
  BY DEF EndSave
<1>2. Saved'
  <2>1. sessions \in Seq(Options) /\ history \in Seq(Cmds) /\ command \in SUBSET Favs /\ ui \in UiTypes
    BY DEF ListsInv, Lists, SessionLists, Histories, Favourites, FileTellsExpected
  <2>2. Written \in Content /\ Written.session = sessions /\ Written.history = history
    BY <2>1 DEF Written, Content
  <2>3. Written.session \in SessionLists /\ Written.history \in Histories
    BY <2>2 DEF ListsInv, Lists
  <2> QED
    BY <1>1, <2>2, <2>3 DEF Saved, Kinds
<1>3. Lists' /\ Favourites' /\ File' /\ Switches'
  BY <1>1 DEF lists, view, ListsInv, Lists, Favourites, File, Switches
<1>4. Life'
  BY <1>1 DEF ListsInv, Life
<1> QED
  BY <1>2, <1>3, <1>4

LEMMA StartIs ==
  ASSUME ListsInv, Start
  PROVE  Lists' /\ Favourites' /\ Switches' /\ Saved' /\ File' /\ Life'
<1> DEFINE d == disk.data
<1>1. /\ starts < MaxStarts /\ starts' = starts + 1 /\ edits' = 0 /\ phase' = "running"
      /\ leaving' = FALSE /\ sessions' = d.session /\ history' = d.history
      /\ favs' = d.favorite /\ command' = d.favorite /\ settled' = d.favorite
      /\ loaded' \in {d.favorite, None} /\ ui' = d.ui
      /\ bar' = Default(d.ui["status_bar"], TRUE) /\ tool' = Default(d.ui["tool_bar"], TRUE)
      /\ UNCHANGED <<recents, disk, file>>
  BY DEF Start
<1>2. d \in Content /\ d.session \in SessionLists /\ d.history \in Histories
  BY DEF ListsInv, Saved
<1>3. d.favorite \subseteq Favs /\ d.ui \in UiTypes
  BY <1>2 DEF Content
<1> HIDE DEF d
<1>4. Lists' /\ Favourites'
  BY <1>1, <1>2, <1>3 DEF ListsInv, Lists, Favourites
<1>5. Switches'
  <2>1. "status_bar" \in Keys /\ "tool_bar" \in Keys
    BY DEF Keys
  <2> QED
    BY <1>1, <1>3, <2>1, ReadIs DEF Switches
<1>6. Saved' /\ File'
  BY <1>1, SavedSame DEF ListsInv, File
<1>7. Life'
  <2>1. starts' \in 0..MaxStarts /\ edits' \in 0..MaxEdits
    BY <1>1, AppStoreAssumption DEF ListsInv, Life
  <2> QED
    BY <1>1, <2>1 DEF Life
<1> QED
  BY <1>4, <1>5, <1>6, <1>7

LEMMA ListsNext == ListsInv /\ [Next]_vars => ListsInv'
<1> SUFFICES ASSUME ListsInv, [Next]_vars PROVE Lists' /\ Favourites' /\ Switches' /\ Saved' /\ File' /\ Life'
  BY FileNext DEF ListsInv
<1>1. CASE UNCHANGED vars
  BY <1>1 DEF vars, ListsInv, Lists, Favourites, Switches, Saved, File, Life
<1>2. ASSUME NEW c \in Cmds, SendCommand(c)
      PROVE  Lists' /\ Favourites' /\ Switches' /\ Saved' /\ File' /\ Life'
  <2>1. /\ Edit /\ history' = Added(history, c) /\ UNCHANGED <<sessions, favs, command, settled>>
        /\ UNCHANGED view /\ UNCHANGED <<loaded, recents, file>> /\ UNCHANGED stored /\ disk' = disk
    BY <1>2 DEF SendCommand, stored
  <2>2. history' \in Histories
    BY <2>1, AddedIs DEF ListsInv, Lists
  <2>3. Lists' /\ Favourites' /\ Switches' /\ File'
    BY <2>1, <2>2 DEF ListsInv, Lists, Favourites, Switches, view, File
  <2> QED
    BY <2>1, <2>3, SavedSame, EditIs DEF ListsInv
<1>3. ASSUME NEW rows \in SUBSET (1..Len(history)), DeleteCommands(rows)
      PROVE  Lists' /\ Favourites' /\ Switches' /\ Saved' /\ File' /\ Life'
  <2>1. /\ Edit /\ history' = WithoutRows(history, rows) /\ UNCHANGED <<sessions, favs, command, settled>>
        /\ UNCHANGED view /\ UNCHANGED <<loaded, recents, file>> /\ UNCHANGED stored /\ disk' = disk
    BY <1>3 DEF DeleteCommands, stored
  <2>2. history' \in Histories
    BY <2>1, RowsAreTaken DEF ListsInv, Lists
  <2>3. Lists' /\ Favourites' /\ Switches' /\ File'
    BY <2>1, <2>2 DEF ListsInv, Lists, Favourites, Switches, view, File
  <2> QED
    BY <2>1, <2>3, SavedSame, EditIs DEF ListsInv
<1>4. ASSUME NEW o \in Options, SaveSession(o) \/ OpenSession(o)
      PROVE  Lists' /\ Favourites' /\ Switches' /\ Saved' /\ File' /\ Life'
  <2>1. /\ Edit /\ sessions' \in {sessions, WithSession(sessions, o)} /\ recents' = Updated(recents, o)
        /\ UNCHANGED <<history, favs, command, settled>>
        /\ UNCHANGED view /\ UNCHANGED <<loaded, file>> /\ UNCHANGED stored /\ disk' = disk
    BY <1>4 DEF SaveSession, OpenSession, stored, lists
  <2>2. sessions' \in SessionLists /\ recents' \in RecentLists
    BY <2>1, WithSessionIs, UpdatedIs DEF ListsInv, Lists
  <2>3. Lists' /\ Favourites' /\ Switches' /\ File'
    BY <2>1, <2>2 DEF ListsInv, Lists, Favourites, Switches, view, File
  <2> QED
    BY <2>1, <2>3, SavedSame, EditIs DEF ListsInv
<1>5. CASE ClearRecents
  <2>1. /\ Edit /\ recents' = << >> /\ UNCHANGED lists
        /\ UNCHANGED view /\ UNCHANGED <<loaded, file>> /\ UNCHANGED stored /\ disk' = disk
    BY <1>5 DEF ClearRecents, stored
  <2>2. Lists' /\ Favourites' /\ Switches' /\ File'
    BY <2>1, EmptyIs DEF ListsInv, Lists, Favourites, Switches, view, File, lists
  <2> QED
    BY <2>1, <2>2, SavedSame, EditIs DEF ListsInv
<1>6. ASSUME NEW f \in SUBSET Favs, EditFavorites(f)
      PROVE  Lists' /\ Favourites' /\ Switches' /\ Saved' /\ File' /\ Life'
  <2>1. /\ Edit /\ favs' = f /\ UNCHANGED <<sessions, history, command, settled>>
        /\ UNCHANGED view /\ UNCHANGED <<loaded, recents, file>> /\ UNCHANGED stored /\ disk' = disk
    BY <1>6 DEF EditFavorites, stored
  <2>2. Lists' /\ Favourites' /\ Switches' /\ File'
    BY <2>1 DEF ListsInv, Lists, Favourites, Switches, view, File
  <2> QED
    BY <2>1, <2>2, SavedSame, EditIs DEF ListsInv
<1>7. CASE ShowStatusBar \/ ShowToolBar
  <2>1. /\ Edit /\ bar' \in BOOLEAN /\ tool' \in BOOLEAN /\ UNCHANGED lists
        /\ UNCHANGED <<loaded, recents, file>> /\ UNCHANGED stored /\ disk' = disk
    <3>1. (~bar) \in BOOLEAN /\ (~tool) \in BOOLEAN
      OBVIOUS
    <3> QED
      BY <1>7, <3>1 DEF ShowStatusBar, ShowToolBar, stored, ListsInv, Switches
  <2>2. Lists' /\ Favourites' /\ Switches' /\ File'
    BY <2>1 DEF ListsInv, Lists, Favourites, Switches, File, lists
  <2> QED
    BY <2>1, <2>2, SavedSame, EditIs DEF ListsInv
<1>8. ASSUME NEW types \in SUBSET Types, Export(types)
      PROVE  Lists' /\ Favourites' /\ Switches' /\ Saved' /\ File' /\ Life'
  <2>1. /\ Edit /\ loaded # None /\ file' = Exported(types) /\ UNCHANGED lists /\ UNCHANGED view
        /\ UNCHANGED <<loaded, recents>> /\ UNCHANGED stored /\ disk' = disk
    BY <1>8 DEF Export, stored
  <2>2. Lists' /\ Favourites' /\ Switches'
    BY <2>1 DEF ListsInv, Lists, Favourites, Switches, view, lists
  <2>3. File'
    <3>1. file'.types = types /\ file'.session = sessions /\ file'.history = history /\ file'.favorite = loaded
      BY <2>1 DEF Exported
    <3> QED
      BY <2>1, <3>1 DEF File, ListsInv, Lists, SessionLists, Histories, Favourites
  <2> QED
    BY <2>1, <2>2, <2>3, SavedSame, EditIs DEF ListsInv
<1>9. CASE Kill
  <2>1. /\ phase' = "down" /\ UNCHANGED lists /\ UNCHANGED view /\ UNCHANGED <<loaded, recents, disk, file>>
        /\ UNCHANGED <<leaving, edits, starts>>
    BY <1>9 DEF Kill
  <2>2. Lists' /\ Favourites' /\ Switches' /\ File'
    BY <2>1 DEF ListsInv, Lists, Favourites, Switches, view, File, lists
  <2>3. Life'
    BY <2>1 DEF ListsInv, Life
  <2> QED
    BY <2>1, <2>2, <2>3, SavedSame DEF ListsInv
<1> QED
  BY <1>1, <1>2, <1>3, <1>4, <1>5, <1>6, <1>7, <1>8, <1>9, ImportIs, BeginIs, EndIs, StartIs
     DEF Next

LEMMA ListsAre ==
  ASSUME ListsInv
  PROVE  ListsBounded
<1>1. /\ sessions \in Seq(Options) /\ Distinct(sessions)
      /\ history \in Seq(Cmds) /\ Distinct(history) /\ Len(history) <= MaxHistory + 1
      /\ recents \in Seq(Recent) /\ Len(recents) <= MaxRecents /\ Named(recents)
  BY DEF ListsInv, Lists, SessionLists, Histories, RecentLists
<1>2. TypeOK
  BY <1>1 DEF TypeOK, ListsInv, Favourites, Switches, Saved, File, Life, FileTellsExpected, Recent
<1>3. IsInjective(history) /\ IsInjective(sessions)
  BY <1>1, DistinctIs
<1> QED
  BY <1>1, <1>2, <1>3 DEF ListsBounded, Named

-----------------------------------------------------------------------------
(* The theorems                                                            *)

(* Whatever was done, and however the process ended, a start shows what    *)
(* the last complete save held.                                            *)
THEOREM StartShowsLastSave == Spec => StartRestores
<1>1. FileTellsExpected /\ [Next]_vars
        => [phase = "down" /\ phase' = "running" => Visible' = expected]_vars
  <2> SUFFICES ASSUME FileTellsExpected, [Next]_vars, phase = "down", phase' = "running"
               PROVE  Visible' = expected
    OBVIOUS
  <2>1. Start
    BY OnlyStartStarts
  <2> QED
    BY <2>1 DEF Start, FileTellsExpected, Restored, Visible
<1>2. Spec => []FileTellsExpected
  BY FileInit, FileNext, PTL DEF Spec
<1> QED
  BY <1>1, <1>2, PTL DEF Spec, StartRestores

(* ListsBounded: the history and the recent connections keep to their      *)
(* limits and no list names anything twice, over imports, restarts and     *)
(* whatever ended the process.                                             *)
THEOREM ListsKeepTheirLimits == Spec => []ListsBounded
<1>1. Init => ListsInv
  BY ListsStart
<1>2. ListsInv /\ [Next]_vars => ListsInv'
  BY ListsNext
<1>3. ListsInv => ListsBounded
  BY ListsAre
<1> QED
  BY <1>1, <1>2, <1>3, PTL DEF Spec
=============================================================================
